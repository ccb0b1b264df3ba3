--------------------------- MODULE RecordsProofs ---------------------------
(***************************************************************************)
(* Theorems about what Channels keeps in sequences.                        *)
(***************************************************************************)
EXTENDS Channels, FiniteSetTheorems, WellFoundedInduction, TLAPS

---------------------------------------------------------------------------
(* Induction.  The provers have none; that every set of numbers has a least  *)
(* one is a fact of the library.                                             *)

LEMMA NatSets ==
    ASSUME NEW S \in SUBSET Nat, 0 \in S, \A n \in S : n + 1 \in S
    PROVE  Nat \subseteq S
<1> DEFINE missed == Nat \ S
<1> SUFFICES ASSUME missed # {} PROVE FALSE
  OBVIOUS
<1>1. \E m \in missed : \A n \in missed : ~(<<n, m>> \in OpToRel(<, Nat))
  <2> HIDE DEF missed
  <2>1. missed \subseteq Nat
    BY DEF missed
  <2> QED
    BY <2>1, WFMin, NatLessThanWellFounded
<1>2. PICK m \in missed : \A n \in missed : ~(n < m)
  BY <1>1 DEF OpToRel
<1>3. m # 0 /\ m - 1 \in Nat
  OBVIOUS
<1>4. m - 1 \in S
  BY <1>2, <1>3
<1> QED
  BY <1>4

LEMMA LeastOne ==
    ASSUME NEW S \in SUBSET Nat, S # {}
    PROVE  \E m \in S : \A n \in S : m <= n
<1>1. \E m \in S : \A n \in S : ~(<<n, m>> \in OpToRel(<, Nat))
  BY WFMin, NatLessThanWellFounded
<1>2. PICK m \in S : \A n \in S : ~(n < m)
  BY <1>1 DEF OpToRel
<1> QED
  BY <1>2

LEMMA GreatestOne ==
    ASSUME NEW n \in Nat, NEW S \in SUBSET (1..n), S # {}
    PROVE  \E m \in S : \A i \in S : i <= m
<1> DEFINE D == {n - i : i \in S}
<1>1. D \in SUBSET Nat /\ D # {}
  <2>1. \A i \in S : n - i \in Nat
    OBVIOUS
  <2> QED
    BY <2>1
<1>2. PICK d \in D : \A e \in D : d <= e
  <2> HIDE DEF D
  <2> QED
    BY <1>1, LeastOne
<1>3. PICK m \in S : d = n - m
  OBVIOUS
<1>4. ASSUME NEW i \in S PROVE i <= m
  <2>1. n - i \in D /\ i \in Nat /\ m \in Nat
    OBVIOUS
  <2> HIDE DEF D
  <2>2. n - m <= n - i
    BY <1>2, <1>3, <2>1
  <2> QED
    BY <2>1, <2>2
<1> QED
  BY <1>4

\* Of finitely many things no two of which have the same place, one has each place.
LEMMA Places ==
    ASSUME NEW S, IsFiniteSet(S), NEW place \in [S -> 1..Cardinality(S)], \A i, j \in S : place[i] = place[j] => i = j
    PROVE  \A k \in 1..Cardinality(S) : \E i \in S : place[i] = k
<1> DEFINE n == Cardinality(S)
<1>1. place \in Injection(S, 1..n)
  BY DEF Injection, IsInjective
<1>2. n \in Nat
  BY FS_CardinalityType
<1>3. IsFiniteSet(1..n) /\ Cardinality(1..n) = n
  BY <1>2, FS_Interval
<1> HIDE DEF n
<1>4. place \in Surjection(S, 1..n)
  BY <1>1, <1>3, FS_Injection DEF n
<1>5. \A k \in 1..n : \E i \in S : place[i] = k
  BY <1>4 DEF Surjection
<1> QED
  BY <1>5 DEF n

\* What comes before a thing of a list that is sorted tells its place.
Orders(before, S) ==
    /\ \A i \in S : <<i, i>> \notin before
    /\ \A i, j, k \in S : <<i, j>> \in before /\ <<j, k>> \in before => <<i, k>> \in before
    /\ \A i, j \in S : i = j \/ <<i, j>> \in before \/ <<j, i>> \in before
Preceding(before, S, i) == {j \in S : <<j, i>> \in before}

LEMMA Ranks ==
    ASSUME NEW S, IsFiniteSet(S), NEW before, Orders(before, S)
    PROVE  /\ Cardinality(S) \in Nat
           /\ \A k \in 1..Cardinality(S) : \E i \in S : Cardinality(Preceding(before, S, i)) = k - 1
           /\ \A i \in S : IsFiniteSet(Preceding(before, S, i))
<1> DEFINE n == Cardinality(S)
           those(i) == {j \in S : <<j, i>> \in before}
           place == [i \in S |-> Cardinality(those(i)) + 1]
<1>1. n \in Nat
  BY FS_CardinalityType
<1> USE DEF Orders
<1>2. ASSUME NEW i \in S PROVE IsFiniteSet(those(i)) /\ Cardinality(those(i)) \in Nat
  <2>1. those(i) \in SUBSET S
    OBVIOUS
  <2> HIDE DEF those
  <2>2. IsFiniteSet(those(i))
    BY <1>1, <2>1, FS_Subset
  <2> QED
    BY <2>2, FS_CardinalityType
<1> HIDE DEF n
<1>3. ASSUME NEW i \in S PROVE place[i] \in 1..n
  <2>1. IsFiniteSet(S \ {i}) /\ Cardinality(S \ {i}) = n - 1
    BY FS_RemoveElement DEF n
  <2>2. those(i) \in SUBSET (S \ {i})
    OBVIOUS
  <2> HIDE DEF those
  <2>3. Cardinality(those(i)) <= Cardinality(S \ {i})
    BY <2>1, <2>2, FS_Subset
  <2> QED
    BY <1>1, <1>2, <2>1, <2>3
<1>4. ASSUME NEW i \in S, NEW j \in S, <<i, j>> \in before PROVE place[i] < place[j]
  <2>1. those(i) \cup {i} \in SUBSET those(j) /\ i \notin those(i)
    BY <1>4
  <2> HIDE DEF those
  <2>2. Cardinality(those(i) \cup {i}) = Cardinality(those(i)) + 1
    BY <1>2, <2>1, FS_AddElement
  <2>3. Cardinality(those(i) \cup {i}) <= Cardinality(those(j))
    BY <1>2, <2>1, FS_Subset
  <2> QED
    BY <1>2, <2>2, <2>3
<1> HIDE DEF place
<1>5. place \in [S -> 1..n]
  BY <1>3 DEF place
<1>6. \A i, j \in S : place[i] = place[j] => i = j
  <2> SUFFICES ASSUME NEW i \in S, NEW j \in S, place[i] = place[j], i # j PROVE FALSE
    OBVIOUS
  <2>1. place[i] < place[j] \/ place[j] < place[i]
    BY <1>4
  <2> QED
    BY <1>3, <2>1
<1>7. \A k \in 1..n : \E i \in S : place[i] = k
  BY <1>5, <1>6, Places DEF n
<1>8. ASSUME NEW k \in 1..n PROVE \E i \in S : Cardinality(those(i)) = k - 1
  <2>1. PICK i \in S : place[i] = k
    BY <1>7
  <2>2. Cardinality(those(i)) + 1 = k /\ Cardinality(those(i)) \in Nat
    BY <1>2, <2>1 DEF place
  <2> HIDE DEF those
  <2> QED
    BY <2>2
<1>9. \A i : Preceding(before, S, i) = those(i)
  BY DEF Preceding
<1> HIDE DEF those
<1> QED
  BY <1>1, <1>2, <1>8, <1>9 DEF n

---------------------------------------------------------------------------
(* The history of alerts.  A call's clock reading is its own: it is found in *)
(* no row before the call has merged its own rows, so what the merge leaves  *)
(* active are exactly these.                                                 *)

AlertKeys == UNION {{row.key : row \in ToSet(batch)} : batch \in Reports}
AlertRow == [key : AlertKeys, found : Nat, seen : Nat, active : BOOLEAN, by : Nat]

\* Rows of a day and of the calls of a set, those active of one call, no alert twice.
Kept(rows, d, t, done) ==
    /\ rows \in Seq(AlertRow)
    /\ \A i \in DOMAIN rows : /\ H!Day(rows[i].by) = d /\ (rows[i].active <=> rows[i].by = t)
                             /\ rows[i].by \in done
    /\ \A i, j \in DOMAIN rows : rows[i].key = rows[j].key => i = j

\* The reported rows are joined one after the other: there is such a function.
LEMMA UpTo ==
    ASSUME NEW rows, NEW batch, NEW t, Len(batch) \in Nat
    PROVE  \E f : f = [n \in 0..Len(batch) |-> IF n = 0 THEN rows ELSE H!Merge1(f[n - 1], batch[n], t)]
<1> DEFINE Good(m) == \E f : f = [n \in 0..m |-> IF n = 0 THEN rows ELSE H!Merge1(f[n - 1], batch[n], t)]
           S == {m \in Nat : Good(m)}
<1>1. 0 \in S
  <2> DEFINE f == [n \in 0..0 |-> rows]
  <2>1. f = [n \in 0..0 |-> IF n = 0 THEN rows ELSE H!Merge1(f[n - 1], batch[n], t)]
    OBVIOUS
  <2> QED
    BY <2>1
<1>2. ASSUME NEW m \in S PROVE m + 1 \in S
  <2>1. m \in Nat
    OBVIOUS
  <2>2. PICK f : f = [n \in 0..m |-> IF n = 0 THEN rows ELSE H!Merge1(f[n - 1], batch[n], t)]
    OBVIOUS
  <2> DEFINE g == [n \in 0..m + 1 |-> IF n = m + 1 THEN H!Merge1(f[m], batch[m + 1], t) ELSE f[n]]
  <2>3. \A n \in 0..m + 1 : g[n] = IF n = 0 THEN rows ELSE H!Merge1(g[n - 1], batch[n], t)
    <3> SUFFICES ASSUME NEW n \in 0..m + 1 PROVE g[n] = IF n = 0 THEN rows ELSE H!Merge1(g[n - 1], batch[n], t)
      OBVIOUS
    <3>1. CASE n = m + 1
      BY <3>1, <2>1
    <3>2. CASE n # m + 1
      <4>1. n \in 0..m /\ (n # 0 => n - 1 \in 0..m /\ n - 1 # m + 1)
        BY <2>1, <3>2
      <4>2. g[n] = f[n] /\ (n # 0 => g[n - 1] = f[n - 1])
        BY <2>1, <4>1
      <4>3. f[n] = IF n = 0 THEN rows ELSE H!Merge1(f[n - 1], batch[n], t)
        BY <2>2, <4>1
      <4> QED
        BY <4>2, <4>3
    <3> QED
      BY <3>1, <3>2
  <2>4. g = [n \in 0..m + 1 |-> g[n]]
    OBVIOUS
  <2> HIDE DEF g
  <2>5. g = [n \in 0..m + 1 |-> IF n = 0 THEN rows ELSE H!Merge1(g[n - 1], batch[n], t)]
    BY <2>3, <2>4
  <2>6. Good(m + 1)
    BY <2>5
  <2> HIDE DEF Good
  <2> QED
    BY <2>1, <2>6
<1> HIDE DEF Good
<1>3. Nat \subseteq S
  BY <1>1, <1>2, NatSets
<1> QED
  BY <1>3 DEF Good

LEMMA JoinedRows ==
    ASSUME NEW rows, NEW batch, NEW t, Len(batch) \in Nat
    PROVE  \E f : /\ f[0] = rows /\ H!Joined(rows, batch, t) = f[Len(batch)]
                  /\ \A n \in 1..Len(batch) : f[n] = H!Merge1(f[n - 1], batch[n], t)
<1> DEFINE f == CHOOSE f : f = [n \in 0..Len(batch) |-> IF n = 0 THEN rows ELSE H!Merge1(f[n - 1], batch[n], t)]
<1>1. f = [n \in 0..Len(batch) |-> IF n = 0 THEN rows ELSE H!Merge1(f[n - 1], batch[n], t)]
  BY UpTo
<1>2. H!Joined(rows, batch, t) = f[Len(batch)]
  BY DEF H!Joined
<1> HIDE DEF f
<1>3. f[0] = rows /\ \A n \in 1..Len(batch) : f[n] = H!Merge1(f[n - 1], batch[n], t)
  BY <1>1
<1> QED
  BY <1>2, <1>3

\* One reported row joins them.
LEMMA Merge1Keeps ==
    ASSUME NEW rows, NEW t \in Nat, NEW done, t \in done, Kept(rows, H!Day(t), t, done), NEW row, row.key \in AlertKeys, row.found \in Nat, row.seen \in Nat
    PROVE  Kept(H!Merge1(rows, row, t), H!Day(t), t, done)
<1> DEFINE same == {i \in DOMAIN rows : rows[i].key = row.key}
           new == [key |-> row.key, found |-> row.found, seen |-> row.seen, active |-> TRUE, by |-> t]
           merged(i) == IF i \in same THEN [new EXCEPT !.found = H!FoundAt(rows[i], row)] ELSE rows[i]
           result == H!Merge1(rows, row, t)
<1>1. rows \in Seq(AlertRow) /\ Len(rows) \in Nat /\ DOMAIN rows = 1..Len(rows)
  BY DEF Kept
<1>2. new \in AlertRow /\ new.by = t /\ new.active = TRUE /\ new.key = row.key
  BY DEF AlertRow
<1>3. CASE same = {}
  <2>1. result = Append(rows, new)
    BY <1>3 DEF H!Merge1
  <2>2. /\ result \in Seq(AlertRow) /\ DOMAIN result = 1..Len(rows) + 1
        /\ \A i \in 1..Len(rows) : result[i] = rows[i]
        /\ result[Len(rows) + 1] = new
    BY <1>1, <1>2, <2>1
  <2> HIDE DEF new, result
  <2>3. ASSUME NEW i \in DOMAIN result
        PROVE  H!Day(result[i].by) = H!Day(t) /\ (result[i].active <=> result[i].by = t) /\ result[i].by \in done
    BY <1>1, <1>2, <2>2 DEF Kept
  <2>4. ASSUME NEW i \in DOMAIN result, NEW j \in DOMAIN result, result[i].key = result[j].key PROVE i = j
    BY <1>1, <1>2, <1>3, <2>2, <2>4 DEF Kept
  <2> QED
    BY <2>2, <2>3, <2>4 DEF Kept, result
<1>4. CASE same # {}
  <2>1. result = [i \in DOMAIN rows |-> merged(i)]
    BY <1>4 DEF H!Merge1
  <2>2. ASSUME NEW i \in DOMAIN rows
        PROVE  merged(i) \in AlertRow /\ merged(i).key = rows[i].key /\ (i \in same => merged(i).by = t /\ merged(i).active = TRUE)
    <3>1. rows[i] \in AlertRow
      BY <1>1
    <3>2. H!FoundAt(rows[i], row) \in Nat
      BY <3>1 DEF H!FoundAt, AlertRow
    <3>3. CASE i \in same
      BY <3>1, <3>2, <3>3 DEF AlertRow
    <3> QED
      BY <3>1, <3>3
  <2>6. result \in [1..Len(rows) -> AlertRow]
    BY <1>1, <2>1, <2>2
  <2> HIDE DEF merged, result
  <2>3. result \in Seq(AlertRow) /\ DOMAIN result = DOMAIN rows /\ \A i \in DOMAIN rows : result[i] = merged(i)
    BY <1>1, <2>1, <2>6
  <2>4. ASSUME NEW i \in DOMAIN result
        PROVE  H!Day(result[i].by) = H!Day(t) /\ (result[i].active <=> result[i].by = t) /\ result[i].by \in done
    <3>1. CASE i \in same
      BY <2>2, <2>3, <3>1
    <3>2. CASE i \notin same
      <4>1. result[i] = rows[i]
        BY <2>3, <3>2 DEF merged
      <4> QED
        BY <2>3, <4>1 DEF Kept
    <3> QED
      BY <3>1, <3>2
  <2>5. ASSUME NEW i \in DOMAIN result, NEW j \in DOMAIN result, result[i].key = result[j].key PROVE i = j
    BY <2>2, <2>3, <2>5 DEF Kept
  <2> QED
    BY <2>3, <2>4, <2>5 DEF Kept, result
<1> QED
  BY <1>3, <1>4

LEMMA JoinedKeeps ==
    ASSUME NEW rows, NEW t \in Nat, NEW done, t \in done, Kept(rows, H!Day(t), t, done), NEW batch \in Reports
    PROVE  Kept(H!Joined(rows, batch, t), H!Day(t), t, done)
<1>1. Len(batch) \in Nat /\ \A n \in 1..Len(batch) : batch[n] \in ToSet(batch)
  BY HistoryReports DEF ToSet
<1>2. \A n \in 1..Len(batch) : batch[n].key \in AlertKeys /\ batch[n].found \in Nat /\ batch[n].seen \in Nat
  BY <1>1, HistoryReports DEF AlertKeys
<1>3. PICK f : /\ f[0] = rows /\ H!Joined(rows, batch, t) = f[Len(batch)]
               /\ \A n \in 1..Len(batch) : f[n] = H!Merge1(f[n - 1], batch[n], t)
  BY <1>1, JoinedRows
<1> DEFINE S == {n \in Nat : n <= Len(batch) => Kept(f[n], H!Day(t), t, done)}
<1>4. 0 \in S
  <2>1. f[0] = rows
    BY <1>1, <1>3
  <2> QED
    BY <2>1
<1>5. ASSUME NEW n \in S PROVE n + 1 \in S
  <2> SUFFICES ASSUME n + 1 <= Len(batch) PROVE Kept(f[n + 1], H!Day(t), t, done)
    OBVIOUS
  <2>1. n \in Nat /\ n + 1 \in 1..Len(batch) /\ n + 1 \in 0..Len(batch) /\ n + 1 # 0 /\ n + 1 - 1 = n
    BY <1>1
  <2>2. Kept(f[n], H!Day(t), t, done)
    BY <1>1, <2>1
  <2>3. f[n + 1] = H!Merge1(f[n], batch[n + 1], t)
    BY <1>3, <2>1
  <2> QED
    BY <1>2, <2>1, <2>2, <2>3, Merge1Keeps
<1> HIDE DEF S
<1>6. Nat \subseteq S
  <2>1. S \in SUBSET Nat
    BY DEF S
  <2> QED
    BY <1>4, <1>5, <2>1, NatSets
<1>7. Len(batch) \in S
  BY <1>1, <1>6
<1>8. Kept(f[Len(batch)], H!Day(t), t, done)
  BY <1>1, <1>7 DEF S
<1> QED
  BY <1>3, <1>8

LEMMA HistoryCardinality == ASSUME NEW S PROVE H!Cardinality(S) = Cardinality(S)
BY Zenon DEF Cardinality, H!Cardinality

\* Sorted and cut: every place within is taken by a row, and by one.
LEMMA PlacesTaken ==
    ASSUME NEW rows \in Seq(AlertRow)
    PROVE  \A k \in 1..Len(rows) : \E i \in DOMAIN rows : H!Place(rows, i) = k
<1> DEFINE n == Len(rows)
           before == {p \in (1..n) \X (1..n) : H!Before(rows, p[1], p[2])}
<1>1. n \in Nat /\ DOMAIN rows = 1..n /\ \A i \in 1..n : rows[i].seen \in Nat
  <2>1. n \in Nat /\ DOMAIN rows = 1..n /\ \A i \in 1..n : rows[i] \in AlertRow
    OBVIOUS
  <2> QED
    BY <2>1 DEF AlertRow
<1> HIDE DEF n
<1>2. \A i, j \in 1..n : <<i, j>> \in before <=> H!Before(rows, i, j)
  OBVIOUS
<1> HIDE DEF before
<1>3. \A i \in 1..n : <<i, i>> \notin before
  BY <1>1, <1>2 DEF H!Before
<1>4. \A i, j, k \in 1..n : <<i, j>> \in before /\ <<j, k>> \in before => <<i, k>> \in before
  BY <1>1, <1>2 DEF H!Before
<1>5. ASSUME NEW i \in 1..n, NEW j \in 1..n PROVE i = j \/ <<i, j>> \in before \/ <<j, i>> \in before
  <2>1. i \in Nat /\ j \in Nat /\ rows[i].seen \in Nat /\ rows[j].seen \in Nat
    BY <1>1
  <2> QED
    BY <1>2, <2>1 DEF H!Before
<1>6. \A k \in 1..n : \E i \in 1..n : Cardinality({j \in 1..n : <<j, i>> \in before}) + 1 = k
  <2> DEFINE I == 1..n
             those(i) == Preceding(before, I, i)
  <2>1. IsFiniteSet(I) /\ Cardinality(I) = n
    BY <1>1, FS_Interval
  <2>2. /\ \A i \in I : <<i, i>> \notin before
        /\ \A i, j, k \in I : <<i, j>> \in before /\ <<j, k>> \in before => <<i, k>> \in before
        /\ \A i, j \in I : i = j \/ <<i, j>> \in before \/ <<j, i>> \in before
    BY <1>3, <1>4, <1>5
  <2> HIDE DEF I
  <2>5. Orders(before, I)
    BY <2>2 DEF Orders
  <2>3. /\ \A k \in 1..Cardinality(I) : \E i \in I : Cardinality(those(i)) = k - 1
        /\ \A i \in I : IsFiniteSet(those(i))
    BY <2>1, <2>5, Ranks
  <2> HIDE DEF those
  <2>4. ASSUME NEW k \in 1..n PROVE \E i \in I : Cardinality(those(i)) + 1 = k
    <3>1. PICK i \in I : Cardinality(those(i)) = k - 1
      BY <2>1, <2>3
    <3>2. Cardinality(those(i)) \in Nat
      BY <2>3, FS_CardinalityType
    <3> QED
      BY <3>1, <3>2
  <2>6. \A i : those(i) = {j \in 1..n : <<j, i>> \in before}
    BY DEF I, those, Preceding
  <2> QED
    BY <2>4, <2>6 DEF I
<1>7. ASSUME NEW i \in 1..n PROVE H!Place(rows, i) = Cardinality({j \in 1..n : <<j, i>> \in before}) + 1
  <2>1. {j \in DOMAIN rows : H!Before(rows, j, i)} = {j \in 1..n : <<j, i>> \in before}
    BY <1>1, <1>2
  <2> QED
    BY <2>1, HistoryCardinality DEF H!Place
<1> QED
  BY <1>1, <1>6, <1>7 DEF n

LEMMA CutKeeps ==
    ASSUME NEW rows, NEW d, NEW t, NEW done, Kept(rows, d, t, done)
    PROVE  Kept(H!Cut(rows), d, t, done)
<1> DEFINE n == IF Len(rows) > MaxRows THEN MaxRows ELSE Len(rows)
           placed(k) == CHOOSE i \in DOMAIN rows : H!Place(rows, i) = k
           result == H!Cut(rows)
<1>1. rows \in Seq(AlertRow) /\ Len(rows) \in Nat /\ DOMAIN rows = 1..Len(rows)
  BY DEF Kept
<1>2. n \in Nat /\ 1..n \subseteq 1..Len(rows)
  BY <1>1, HistoryReports
<1>3. ASSUME NEW k \in 1..n PROVE placed(k) \in DOMAIN rows /\ H!Place(rows, placed(k)) = k
  <2>1. \E i \in DOMAIN rows : H!Place(rows, i) = k
    BY <1>1, <1>2, PlacesTaken
  <2> QED
    BY <2>1
<1>4. result = [k \in 1..n |-> rows[placed(k)]]
  BY DEF H!Cut
<1> HIDE DEF n, placed, result
<1>5. ASSUME NEW k \in 1..n PROVE rows[placed(k)] \in AlertRow
  BY <1>1, <1>3
<1>6. result \in [1..n -> AlertRow]
  BY <1>4, <1>5
<1>7. result \in Seq(AlertRow) /\ DOMAIN result = 1..n /\ \A k \in 1..n : result[k] = rows[placed(k)]
  BY <1>2, <1>4, <1>6
<1>8. ASSUME NEW k \in DOMAIN result
      PROVE  H!Day(result[k].by) = d /\ (result[k].active <=> result[k].by = t) /\ result[k].by \in done
  BY <1>3, <1>7 DEF Kept
<1>9. ASSUME NEW j \in DOMAIN result, NEW k \in DOMAIN result, result[j].key = result[k].key PROVE j = k
  <2>1. placed(j) = placed(k)
    BY <1>3, <1>7, <1>9 DEF Kept
  <2> QED
    BY <1>3, <1>7, <2>1
<1> QED
  BY <1>7, <1>8, <1>9 DEF Kept, result

\* The readings of the clock no call is still to merge with.
Done == {n \in Nat : n < clock /\ \A p \in Writers : call[p].at = "begun" => call[p].now # n}
ReportGood(content, done) ==
    content.kind = "store" => content.updated \in Nat /\ Kept(content.rows, content.day, content.updated, done)

Shape(c) ==
    /\ c = [at |-> c.at, now |-> c.now, batch |-> c.batch, store |-> c.store, into |-> c.into, others |-> c.others]
    /\ c.at \in {"idle", "begun", "loaded", "writing", "written"} /\ c.now \in Nat
CallState(c) == Shape(c) /\ (c.at = "begun" => c.batch \in Reports /\ c.now < clock)
Calls ==
    /\ clock \in Nat
    /\ call = [p \in Writers |-> call[p]]
    /\ \A p \in Writers : CallState(call[p])
    /\ \A p, q \in Writers : call[p].at = "begun" /\ call[q].at = "begun" /\ call[p].now = call[q].now => p = q
Contents == ReportGood(file, Done) /\ ReportGood(tmp, Done) /\ \A p \in Writers : ReportGood(call[p].store, Done)
HistoryInv == Calls /\ Contents

LEMMA GoodStays ==
    ASSUME NEW content, NEW done, NEW more, done \subseteq more, ReportGood(content, done)
    PROVE  ReportGood(content, more)
BY DEF ReportGood, Kept

LEMMA NoneGood == \A done : /\ ReportGood(H!None, done) /\ ReportGood(H!Torn, done)
                           /\ \A d : ReportGood(H!Mixed(d), done)
BY DEF ReportGood, H!None, H!Torn, H!Mixed

\* What is merged into are rows of the day, none of them active any more.
LEMMA MergedGood ==
    ASSUME NEW content, NEW done, NEW t \in Nat, t \notin done, NEW batch \in Reports, ReportGood(content, done)
    PROVE  ReportGood(H!Merged(H!Today(content, t), batch, t), done \cup {t})
<1> DEFINE into == H!Today(content, t)
           old == [i \in DOMAIN into.rows |-> [into.rows[i] EXCEPT !.active = FALSE]]
           more == done \cup {t}
           result == H!Merged(into, batch, t)
<1>0. CASE into.kind = "mixed"
  BY <1>0 DEF H!Merged, ReportGood
<1> SUFFICES ASSUME into.kind # "mixed" PROVE ReportGood(result, more)
  BY <1>0
<1>1. into.day = H!Day(t) /\ into.rows \in Seq(AlertRow)
      /\ (into.rows = <<>> \/ Kept(into.rows, H!Day(t), content.updated, done))
  <2>1. CASE content.kind \in {"store", "mixed"} /\ content.day = H!Day(t)
    BY <2>1 DEF H!Today, ReportGood, Kept
  <2>2. CASE ~(content.kind \in {"store", "mixed"} /\ content.day = H!Day(t))
    <3>1. into = H!Store(H!Day(t), t, <<>>)
      BY <2>2 DEF H!Today
    <3> QED
      BY <3>1 DEF H!Store
  <2> QED
    BY <2>1, <2>2
<1> HIDE DEF into
<1>2. Len(into.rows) \in Nat /\ DOMAIN into.rows = 1..Len(into.rows)
      /\ \A i \in 1..Len(into.rows) : into.rows[i] \in AlertRow
  BY <1>1
<1>3. \A i \in DOMAIN into.rows : /\ H!Day(into.rows[i].by) = H!Day(t) /\ into.rows[i].by \in done
                                 /\ \A j \in DOMAIN into.rows : into.rows[i].key = into.rows[j].key => i = j
  BY <1>1 DEF Kept
<1>4. ASSUME NEW i \in DOMAIN into.rows
      PROVE  /\ old[i] \in AlertRow /\ old[i].key = into.rows[i].key /\ old[i].by = into.rows[i].by
             /\ old[i].active = FALSE
  <2>1. into.rows[i] \in AlertRow
    BY <1>2
  <2> QED
    BY <2>1 DEF AlertRow
<1>5. old \in Seq(AlertRow) /\ DOMAIN old = DOMAIN into.rows
  <2>1. old \in [1..Len(into.rows) -> AlertRow]
    BY <1>2, <1>4
  <2> HIDE DEF old
  <2> QED
    BY <1>2, <2>1
<1>6. result = H!Store(into.day, t, H!Cut(H!Joined(old, batch, t)))
  BY DEF H!Merged
<1> HIDE DEF old, result
<1>7. ASSUME NEW i \in DOMAIN old
      PROVE  H!Day(old[i].by) = H!Day(t) /\ (old[i].active <=> old[i].by = t) /\ old[i].by \in more
  <2>0. i \in DOMAIN into.rows
    BY <1>5
  <2>1. /\ old[i].by = into.rows[i].by /\ old[i].active = FALSE
        /\ H!Day(into.rows[i].by) = H!Day(t) /\ into.rows[i].by \in done
    BY <1>3, <1>4, <2>0
  <2>2. old[i].by # t
    BY <2>1
  <2> QED
    BY <2>1, <2>2
<1>8. Kept(old, H!Day(t), t, more)
  BY <1>3, <1>4, <1>5, <1>7 DEF Kept
<1>9. t \in more
  OBVIOUS
<1> HIDE DEF more
<1>10. Kept(H!Joined(old, batch, t), H!Day(t), t, more)
  BY <1>8, <1>9, JoinedKeeps
<1>11. Kept(H!Cut(H!Joined(old, batch, t)), H!Day(t), t, more)
  BY <1>10, CutKeeps, Zenon
<1>12. result.day = H!Day(t) /\ result.updated = t /\ result.rows = H!Cut(H!Joined(old, batch, t))
  BY <1>1, <1>6 DEF H!Store
<1> QED
  BY <1>11, <1>12 DEF ReportGood, more, result, into

LEMMA HistoryBegin ==
    ASSUME HistoryInv, NEW p \in Writers, H!Begin(p)
    PROVE  HistoryInv'
<1>1. PICK batch \in Reports : call' = [call EXCEPT ![p] = [H!Idle EXCEPT !.at = "begun", !.now = clock, !.batch = batch]]
  BY DEF H!Begin
<1>2. call'[p] = [at |-> "begun", now |-> clock, batch |-> batch, store |-> H!None, into |-> "tmp", others |-> {}]
      /\ \A q \in Writers \ {p} : call'[q] = call[q]
  BY <1>1 DEF HistoryInv, Calls, H!Idle
<1>3. clock \in Nat /\ clock' = clock + 1 /\ file' = file /\ tmp' = tmp /\ call[p].at = "idle"
  BY DEF H!Begin, HistoryInv, Calls
<1>4. Calls'
  <2>1. call' = [q \in Writers |-> call'[q]]
    BY <1>1 DEF HistoryInv, Calls
  <2>2. ASSUME NEW q \in Writers PROVE CallState(call[q])'
    BY <1>2, <1>3 DEF HistoryInv, Calls, CallState, Shape
  <2>3. \A q, r \in Writers : call'[q].at = "begun" /\ call'[r].at = "begun" /\ call'[q].now = call'[r].now => q = r
    BY <1>2, <1>3 DEF HistoryInv, Calls, CallState, Shape
  <2> QED
    BY <1>3, <2>1, <2>2, <2>3 DEF Calls
<1>5. Done \subseteq Done'
  BY <1>2, <1>3 DEF Done
<1>6. Contents'
  <2>1. ReportGood(file, Done') /\ ReportGood(tmp, Done')
    BY <1>5, GoodStays DEF HistoryInv, Contents
  <2>2. ASSUME NEW q \in Writers PROVE ReportGood(call'[q].store, Done')
    BY <1>2, <1>5, GoodStays, NoneGood DEF HistoryInv, Contents
  <2> QED
    BY <1>3, <2>1, <2>2 DEF Contents
<1> QED
  BY <1>4, <1>6 DEF HistoryInv

LEMMA HistoryLoad ==
    ASSUME HistoryInv, NEW p \in Writers, H!Load(p)
    PROVE  HistoryInv'
<1> DEFINE t == call[p].now
           merged == H!Merged(H!Today(file, t), call[p].batch, t)
<1>1. /\ call[p].at = "begun" /\ clock' = clock /\ file' = file /\ tmp' = tmp /\ clock \in Nat
      /\ call' = [call EXCEPT ![p] = [@ EXCEPT !.at = "loaded", !.store = merged]]
  BY DEF H!Load, HistoryInv, Calls
<1> HIDE DEF merged
<1>2. t \in Nat /\ t < clock /\ call[p].batch \in Reports
  BY <1>1 DEF HistoryInv, Calls, CallState, Shape
<1>3. call'[p] = [at |-> "loaded", now |-> t, batch |-> call[p].batch, store |-> merged, into |-> call[p].into,
                  others |-> call[p].others]
      /\ \A q \in Writers \ {p} : call'[q] = call[q]
  <2>1. call'[p] = [call[p] EXCEPT !.at = "loaded", !.store = merged] /\ \A q \in Writers \ {p} : call'[q] = call[q]
    BY <1>1 DEF HistoryInv, Calls
  <2>2. call[p] = [at |-> call[p].at, now |-> call[p].now, batch |-> call[p].batch, store |-> call[p].store,
                   into |-> call[p].into, others |-> call[p].others]
    BY DEF HistoryInv, Calls, CallState, Shape
  <2> QED
    BY <2>1, <2>2
<1>4. Calls'
  <2>1. call' = [q \in Writers |-> call'[q]]
    BY <1>1 DEF HistoryInv, Calls
  <2>2. ASSUME NEW q \in Writers PROVE CallState(call[q])'
    BY <1>1, <1>2, <1>3 DEF HistoryInv, Calls, CallState, Shape
  <2>3. \A q, r \in Writers : call'[q].at = "begun" /\ call'[r].at = "begun" /\ call'[q].now = call'[r].now => q = r
    BY <1>3 DEF HistoryInv, Calls
  <2> QED
    BY <1>1, <2>1, <2>2, <2>3 DEF Calls
<1>5. t \notin Done
  BY <1>1 DEF Done
<1>6. Done \cup {t} \subseteq Done'
  <2>1. \A q \in Writers \ {p} : call[q].at = "begun" => call[q].now # t
    BY <1>1 DEF HistoryInv, Calls
  <2> QED
    BY <1>1, <1>2, <1>3, <2>1 DEF Done
<1>7. ReportGood(merged, Done \cup {t})
  BY <1>2, <1>5, MergedGood DEF HistoryInv, Contents, merged
<1>8. Contents'
  <2>1. Done \subseteq Done'
    BY <1>6
  <2>2. ReportGood(file, Done') /\ ReportGood(tmp, Done')
    BY <2>1, GoodStays DEF HistoryInv, Contents
  <2>3. ASSUME NEW q \in Writers PROVE ReportGood(call'[q].store, Done')
    <3>1. CASE q = p
      <4>1. call'[q].store = merged
        BY <1>3, <3>1
      <4> QED
        BY <1>6, <1>7, <4>1, GoodStays
    <3>2. CASE q # p
      BY <1>3, <2>1, <3>2, GoodStays DEF HistoryInv, Contents
    <3> QED
      BY <3>1, <3>2
  <2> QED
    BY <1>1, <2>2, <2>3 DEF Contents
<1> QED
  BY <1>4, <1>8 DEF HistoryInv

\* The other steps move contents that are there, and none is begun by them.
SameCalls == \A p \in Writers : call'[p].at = "begun" => call'[p] = call[p]
GoodCalls == call' = [p \in Writers |-> call'[p]] /\ \A p \in Writers : Shape(call'[p]) /\ ReportGood(call'[p].store, Done)
Moved == SameCalls /\ GoodCalls /\ ReportGood(file', Done) /\ ReportGood(tmp', Done)

LEMMA HistoryMove ==
    ASSUME HistoryInv, clock' \in Nat, clock <= clock', Moved
    PROVE  HistoryInv'
<1>1. clock \in Nat /\ SameCalls /\ GoodCalls
  BY DEF HistoryInv, Calls, Moved
<1>2. Calls'
  <2>1. ASSUME NEW p \in Writers PROVE CallState(call[p])'
    <3>1. Shape(call'[p])
      BY <1>1 DEF GoodCalls
    <3>2. CASE call'[p].at = "begun"
      <4>1. call'[p] = call[p] /\ CallState(call[p])
        BY <1>1, <3>2 DEF SameCalls, HistoryInv, Calls
      <4>2. call[p].now \in Nat
        BY <4>1 DEF CallState, Shape
      <4> QED
        BY <1>1, <3>1, <4>1, <4>2 DEF CallState
    <3> QED
      BY <3>1, <3>2 DEF CallState
  <2>2. \A p, q \in Writers : call'[p].at = "begun" /\ call'[q].at = "begun" /\ call'[p].now = call'[q].now => p = q
    BY <1>1 DEF HistoryInv, Calls, SameCalls
  <2>3. call' = [p \in Writers |-> call'[p]]
    BY <1>1 DEF GoodCalls
  <2> QED
    BY <2>1, <2>2, <2>3 DEF Calls
<1>3. Done \subseteq Done'
  BY <1>1 DEF Done, SameCalls
<1>4. Contents'
  BY <1>1, <1>3, GoodStays DEF Contents, GoodCalls, Moved
<1> QED
  BY <1>2, <1>4 DEF HistoryInv

LEMMA HistoryKeeps ==
    ASSUME HistoryInv, [H!Next]_(H!vars)
    PROVE  HistoryInv'
<1>0. /\ clock \in Nat /\ call = [p \in Writers |-> call[p]] /\ \A p \in Writers : Shape(call[p])
      /\ ReportGood(file, Done) /\ ReportGood(tmp, Done) /\ \A p \in Writers : ReportGood(call[p].store, Done)
  BY DEF HistoryInv, Calls, Contents, CallState
<1>a. Shape(H!Idle) /\ H!Idle.at = "idle" /\ ReportGood(H!Idle.store, Done)
  BY NoneGood DEF H!Idle, Shape
<1>1. CASE UNCHANGED H!vars
  BY <1>0, <1>1, HistoryMove DEF Moved, SameCalls, GoodCalls, H!vars
<1>2. CASE H!Tick
  BY <1>0, <1>2, HistoryMove DEF Moved, SameCalls, GoodCalls, H!Tick
<1>3. ASSUME NEW p \in Writers, H!Open(p) PROVE HistoryInv'
  <2> DEFINE sharing == {q \in Writers \ {p} : call[q].at = "writing" /\ call[q].into = "tmp"}
             days == {call[r].store.day : r \in sharing}
  <2>1. /\ call' = [q \in Writers |->
                IF q = p THEN [call[p] EXCEPT !.at = "writing", !.into = "tmp", !.others = days]
                ELSE IF q \in sharing THEN [call[q] EXCEPT !.others = @ \cup {call[p].store.day}] ELSE call[q]]
        /\ tmp' = H!Torn /\ clock' = clock /\ file' = file
    BY <1>3 DEF H!Open
  <2> HIDE DEF days
  <2>2. ASSUME NEW q \in Writers
        PROVE  /\ Shape(call'[q]) /\ ReportGood(call'[q].store, Done)
               /\ call'[q].at = "begun" => call'[q] = call[q]
    <3>1. Shape(call[q]) /\ ReportGood(call[q].store, Done)
      BY <1>0
    <3>2. CASE q = p
      <4>1. call'[q] = [call[q] EXCEPT !.at = "writing", !.into = "tmp", !.others = days]
        BY <2>1, <3>2
      <4>2. Shape(call'[q]) /\ call'[q].at = "writing" /\ call'[q].store = call[q].store
        BY <3>1, <4>1 DEF Shape
      <4> QED
        BY <3>1, <4>2
    <3>3. CASE q # p /\ q \in sharing
      <4>1. call'[q] = [call[q] EXCEPT !.others = @ \cup {call[p].store.day}] /\ call[q].at = "writing"
        BY <2>1, <3>3
      <4>2. Shape(call'[q]) /\ call'[q].at = "writing" /\ call'[q].store = call[q].store
        BY <3>1, <4>1 DEF Shape
      <4> QED
        BY <3>1, <4>2
    <3>4. CASE q # p /\ q \notin sharing
      BY <2>1, <3>1, <3>4
    <3> QED
      BY <3>2, <3>3, <3>4
  <2>3. call' = [q \in Writers |-> call'[q]]
    BY <2>1
  <2>4. SameCalls /\ GoodCalls
    BY <2>2, <2>3 DEF SameCalls, GoodCalls
  <2> QED
    BY <1>0, <2>1, <2>4, NoneGood, HistoryMove DEF Moved
<1>b. ASSUME NEW p \in Writers, NEW content \in {call[p].store} \cup H!Overlaps(p), H!Puts(p, content)
      PROVE  ReportGood(file', Done) /\ ReportGood(tmp', Done)
  <2>1. ReportGood(content, Done)
    BY <1>0, NoneGood DEF H!Overlaps
  <2> QED
    BY <1>0, <1>b, <2>1 DEF H!Puts
<1>c. ASSUME NEW p \in Writers, H!Flush(p) PROVE HistoryInv'
  <2>1. ReportGood(file', Done) /\ ReportGood(tmp', Done) /\ call' = call /\ clock' = clock
    BY <1>b, <1>c DEF H!Flush
  <2> QED
    BY <1>0, <2>1, HistoryMove DEF Moved, SameCalls, GoodCalls
<1>4. ASSUME NEW p \in Writers, H!Write(p) PROVE HistoryInv'
  <2>1. call' = [call EXCEPT ![p].at = "written"] /\ clock' = clock
    BY <1>4 DEF H!Write
  <2>4. ReportGood(file', Done) /\ ReportGood(tmp', Done)
    BY <1>b, <1>4 DEF H!Write
  <2>5. call'[p] = [call[p] EXCEPT !.at = "written"] /\ \A q \in Writers \ {p} : call'[q] = call[q]
    BY <1>0, <2>1
  <2>6. Shape(call[p])
    BY <1>0
  <2>7. Shape(call'[p]) /\ call'[p].at = "written" /\ call'[p].store = call[p].store
    BY <2>5, <2>6 DEF Shape
  <2>8. call' = [q \in Writers |-> call'[q]]
    BY <1>0, <2>1
  <2> QED
    BY <1>0, <2>1, <2>4, <2>5, <2>7, <2>8, HistoryMove DEF Moved, SameCalls, GoodCalls
<1>5. ASSUME NEW p \in Writers, H!Replace(p) PROVE HistoryInv'
  <2>1. /\ file' = tmp /\ tmp' = H!None /\ clock' = clock
        /\ call' = [q \in Writers |-> IF q = p THEN H!Idle
                ELSE IF call[q].at = "writing" THEN [call[q] EXCEPT !.into = IF @ = "tmp" THEN "file" ELSE "lost"]
                ELSE call[q]]
    BY <1>5 DEF H!Replace
  <2>2. ASSUME NEW q \in Writers
        PROVE  /\ Shape(call'[q]) /\ ReportGood(call'[q].store, Done)
               /\ call'[q].at = "begun" => call'[q] = call[q]
    <3>1. Shape(call[q]) /\ ReportGood(call[q].store, Done)
      BY <1>0
    <3>2. CASE q = p
      BY <1>a, <2>1, <3>2
    <3>3. CASE q # p /\ call[q].at = "writing"
      <4>1. call'[q] = [call[q] EXCEPT !.into = IF @ = "tmp" THEN "file" ELSE "lost"]
        BY <2>1, <3>3
      <4>2. Shape(call'[q]) /\ call'[q].at = "writing" /\ call'[q].store = call[q].store
        BY <3>1, <3>3, <4>1 DEF Shape
      <4> QED
        BY <3>1, <4>2
    <3>4. CASE q # p /\ call[q].at # "writing"
      BY <2>1, <3>1, <3>4
    <3> QED
      BY <3>2, <3>3, <3>4
  <2>3. call' = [q \in Writers |-> call'[q]]
    BY <2>1
  <2>4. SameCalls /\ GoodCalls
    BY <2>2, <2>3 DEF SameCalls, GoodCalls
  <2>5. ReportGood(file', Done) /\ ReportGood(tmp', Done) /\ clock' = clock
    BY <1>0, <2>1, NoneGood
  <2> QED
    BY <1>0, <2>4, <2>5, HistoryMove DEF Moved
<1>6. ASSUME NEW p \in Writers, H!ReplaceFails(p) \/ H!Crash(p) PROVE HistoryInv'
  <2>1. call' = [call EXCEPT ![p] = H!Idle] /\ clock' = clock /\ file' = file /\ tmp' = tmp
    BY <1>6 DEF H!ReplaceFails, H!Crash
  <2>2. call'[p] = H!Idle /\ \A q \in Writers \ {p} : call'[q] = call[q]
    BY <1>0, <2>1
  <2>3. call' = [q \in Writers |-> call'[q]]
    BY <1>0, <2>1
  <2>4. ASSUME NEW q \in Writers
        PROVE  /\ Shape(call'[q]) /\ ReportGood(call'[q].store, Done)
               /\ call'[q].at = "begun" => call'[q] = call[q]
    BY <1>0, <1>a, <2>2
  <2> QED
    BY <1>0, <2>1, <2>3, <2>4, HistoryMove DEF Moved, SameCalls, GoodCalls
<1> QED
  BY <1>1, <1>2, <1>3, <1>c, <1>4, <1>5, <1>6, HistoryBegin, HistoryLoad DEF H!Next

\* One step of the composition is a step of the history, when it is that part.
LEMMA HistoryStep ==
    ASSUME [ChannelsNext]_all
    PROVE  part' = part /\ (part = "history" => [H!Next]_(H!vars))
  BY DEF ChannelsNext, all, RoomsMove, PushMoves, TelegramMoves, FeedMoves, NewsMoves, BooksMove, HistoryMoves,
         PollsMove, CommunityMoves, LinksMove, Shared, H!vars

LEMMA HistoryStart == ASSUME ChannelsInit, part = "history" PROVE HistoryInv
<1>1. clock = 0 /\ file = H!None /\ tmp = H!None /\ call = [p \in Writers |-> H!Idle]
  BY DEF ChannelsInit, PartInit, H!Init
<1>2. Calls
  BY <1>1 DEF Calls, CallState, Shape, H!Idle
<1>3. Contents
  BY <1>1, NoneGood DEF Contents, H!Idle
<1> QED
  BY <1>2, <1>3 DEF HistoryInv

\* Unless the file is one that two processes wrote at once, or was merged from it: the
\* alerts a page shows were all reported since the reset, no alert twice, and those
\* called active by the one call that wrote the file (persist_ai_alert_history).
THEOREM AlertsHold == ChannelsSpec => []AlertsOfTheDay
<1> DEFINE IInv == part = "history" => HistoryInv
<1>1. ChannelsInit => IInv
  BY HistoryStart
<1>2. IInv /\ [ChannelsNext]_all => IInv'
  <2> SUFFICES ASSUME IInv, [ChannelsNext]_all PROVE IInv'
    OBVIOUS
  <2> QED
    BY HistoryStep, HistoryKeeps
<1>3. IInv => AlertsOfTheDay
  <2> SUFFICES ASSUME HistoryInv PROVE H!AlertsOfTheDay
    BY DEF AlertsOfTheDay
  <2>1. ReportGood(file, Done)
    BY DEF HistoryInv, Contents
  <2> QED
    BY <2>1 DEF H!AlertsOfTheDay, H!Shown, ReportGood, Kept
<1> QED
  BY <1>1, <1>2, <1>3, PTL DEF ChannelsSpec

---------------------------------------------------------------------------
(* The rooms.  The messages of one process are in the store of their room in *)
(* the order it posts them, and one that is stored has all the later ones of *)
(* its process after it; so who is sent the history has missed none since.   *)

Underway == {"append", "audit", "sent"}
Items == [id : Messages, status : {"pending_audit", "published"}]
Earlier(m, n) == HostOf[m] = HostOf[n] /\ m < n

\* What the file may hold of a room, as the messages are posted.
OfRoom(items, r, stage) ==
    \A i \in DOMAIN items : /\ RoomOf[items[i].id] = r /\ stage[items[i].id] \in Underway
                            /\ items[i].status = "published" <=> stage[items[i].id] = "sent"
Ordered(items) ==
    \A i, j \in DOMAIN items : i < j => items[i].id # items[j].id /\ ~Earlier(items[j].id, items[i].id)
Unbroken(items, r, stage) ==
    \A i \in DOMAIN items, n \in Messages :
        RoomOf[n] = r /\ Earlier(items[i].id, n) /\ stage[n] \in Underway => \E j \in DOMAIN items : items[j].id = n
InStore(items, r, stage) == items \in Seq(Items) /\ OfRoom(items, r, stage) /\ Ordered(items) /\ Unbroken(items, r, stage)

PostTypes == post \in [Messages -> {"new", "append", "audit", "sent", "refused"}]
PostedInOrder == \A m, n \in Messages : Earlier(m, n) /\ post[n] # "new" => post[m] \in {"sent", "refused"}
Stored == store \in [R!Rooms -> Seq(Items)] /\ \A r \in R!Rooms : InStore(store[r], r, post)

LEMMA RoomCardinality == ASSUME NEW S PROVE R!Cardinality(S) = Cardinality(S)
BY Zenon DEF Cardinality, R!Cardinality

LEMMA ItemTypes ==
    ASSUME NEW items, items \in Seq(Items)
    PROVE  /\ Len(items) \in Nat /\ DOMAIN items = 1..Len(items)
           /\ \A i \in DOMAIN items : items[i] \in Items /\ items[i].id \in Messages
<1>1. Len(items) \in Nat /\ DOMAIN items = 1..Len(items) /\ \A i \in DOMAIN items : items[i] \in Items
  OBVIOUS
<1> QED
  BY <1>1 DEF Items

LEMMA NewestIs ==
    ASSUME NEW s, s \in Seq(Items), NEW n \in Nat
    PROVE  \E k \in Nat : /\ R!Newest(s, n) \in Seq(Items) /\ k <= Len(s) /\ DOMAIN R!Newest(s, n) = 1..Len(s) - k
                          /\ \A i \in 1..Len(s) - k : R!Newest(s, n)[i] = s[i + k]
<1> DEFINE from == IF Len(s) > n THEN Len(s) - n + 1 ELSE 1
<1>1. Len(s) \in Nat /\ from \in Nat /\ from >= 1 /\ from - 1 <= Len(s)
  OBVIOUS
<1>2. R!Newest(s, n) = SubSeq(s, from, Len(s))
  BY DEF R!Newest
<1> HIDE DEF from
<1>3. SubSeq(s, from, Len(s)) = [i \in 1..Len(s) - (from - 1) |-> s[i + (from - 1)]]
  BY <1>1
<1>4. \A i \in 1..Len(s) - (from - 1) : s[i + (from - 1)] \in Items
  BY <1>1
<1>5. [i \in 1..Len(s) - (from - 1) |-> s[i + (from - 1)]] \in Seq(Items)
  BY <1>1, <1>4
<1> DEFINE k == from - 1
<1>6. k \in Nat /\ k <= Len(s)
  BY <1>1
<1>7. R!Newest(s, n) = [i \in 1..Len(s) - k |-> s[i + k]] /\ R!Newest(s, n) \in Seq(Items)
  BY <1>2, <1>3, <1>5
<1> HIDE DEF k
<1>8. DOMAIN R!Newest(s, n) = 1..Len(s) - k /\ \A i \in 1..Len(s) - k : R!Newest(s, n)[i] = s[i + k]
  BY <1>7
<1> QED
  BY <1>6, <1>7, <1>8

\* The oldest of them may go.
LEMMA CutStays ==
    ASSUME NEW items, NEW r, NEW stage, InStore(items, r, stage)
    PROVE  InStore(R!Newest(items, MaxRoomMessages), r, stage)
<1> DEFINE result == R!Newest(items, MaxRoomMessages)
<1>1. items \in Seq(Items) /\ Len(items) \in Nat /\ DOMAIN items = 1..Len(items)
      /\ \A i \in DOMAIN items : items[i].id \in Messages
  BY ItemTypes DEF InStore
<1>2. PICK k \in Nat : /\ result \in Seq(Items) /\ k <= Len(items) /\ DOMAIN result = 1..Len(items) - k
                       /\ \A i \in 1..Len(items) - k : result[i] = items[i + k]
  BY <1>1, NewestIs, RoomMessages
<1> HIDE DEF result
<1>3. ASSUME NEW i \in DOMAIN result
      PROVE  i + k \in DOMAIN items /\ result[i] = items[i + k] /\ i \in Nat
  BY <1>1, <1>2
<1>4. ASSUME NEW i \in DOMAIN result
      PROVE  /\ RoomOf[result[i].id] = r /\ stage[result[i].id] \in Underway
             /\ result[i].status = "published" <=> stage[result[i].id] = "sent"
  <2>1. i + k \in DOMAIN items /\ result[i] = items[i + k]
    BY <1>3
  <2> QED
    BY <2>1 DEF InStore, OfRoom
<1>5. ASSUME NEW i \in DOMAIN result, NEW j \in DOMAIN result, i < j
      PROVE  result[i].id # result[j].id /\ ~Earlier(result[j].id, result[i].id)
  <2>1. /\ i + k \in DOMAIN items /\ result[i] = items[i + k] /\ j + k \in DOMAIN items /\ result[j] = items[j + k]
        /\ i + k < j + k
    BY <1>3, <1>5
  <2> QED
    BY <2>1 DEF InStore, Ordered
<1>6. ASSUME NEW i \in DOMAIN result, NEW n \in Messages, RoomOf[n] = r, Earlier(result[i].id, n), stage[n] \in Underway
      PROVE  \E j \in DOMAIN result : result[j].id = n
  <2>1. i + k \in DOMAIN items /\ result[i] = items[i + k] /\ i \in Nat
    BY <1>3
  <2>2. PICK j \in DOMAIN items : items[j].id = n
    BY <1>6, <2>1 DEF InStore, Unbroken
  <2>3. items[i + k].id \in Messages /\ items[i + k].id < n
    BY <1>1, <1>6, <2>1 DEF Earlier
  <2>4. ~(j < i + k)
    BY <1>6, <2>1, <2>2 DEF InStore, Ordered
  <2>5. j # i + k
    BY <2>2, <2>3, RoomMessages
  <2>6. j \in Nat /\ j > i + k /\ j <= Len(items)
    BY <1>1, <2>1, <2>4, <2>5
  <2>7. j - k \in DOMAIN result /\ j - k + k = j
    BY <1>1, <1>2, <2>1, <2>6
  <2>8. result[j - k] = items[j - k + k]
    BY <1>2, <2>7
  <2> QED
    BY <2>2, <2>7, <2>8
<1>7. InStore(result, r, stage)
  BY <1>2, <1>4, <1>5, <1>6 DEF InStore, OfRoom, Ordered, Unbroken
<1> QED
  BY <1>7 DEF result

\* A room a message is not in does not change with it.
LEMMA OtherRoom ==
    ASSUME NEW items, NEW r, NEW stage, NEW stage2, InStore(items, r, stage), NEW m \in Messages, RoomOf[m] # r,
           \A n \in Messages \ {m} : stage2[n] = stage[n]
    PROVE  InStore(items, r, stage2)
<1>1. \A i \in DOMAIN items : items[i].id \in Messages
  BY ItemTypes DEF InStore
<1>2. OfRoom(items, r, stage2)
  BY <1>1 DEF InStore, OfRoom
<1>3. Unbroken(items, r, stage2)
  BY <1>1 DEF InStore, Unbroken
<1> QED
  BY <1>2, <1>3 DEF InStore

LEMMA EnterStays ==
    ASSUME NEW items, NEW m \in Messages, NEW stage2, PostedInOrder, InStore(items, RoomOf[m], post), post[m] = "new",
           \A n \in Messages : stage2[n] = IF n = m THEN "append" ELSE post[n]
    PROVE  InStore(Append(items, [id |-> m, status |-> "pending_audit"]), RoomOf[m], stage2)
<1> DEFINE r == RoomOf[m]
           item == [id |-> m, status |-> "pending_audit"]
           result == Append(items, item)
<1>1. items \in Seq(Items) /\ Len(items) \in Nat /\ DOMAIN items = 1..Len(items) /\ item \in Items
      /\ \A i \in DOMAIN items : items[i].id \in Messages
  BY ItemTypes DEF InStore, Items
<1>2. /\ result \in Seq(Items) /\ DOMAIN result = 1..Len(items) + 1
      /\ \A i \in 1..Len(items) : result[i] = items[i]
      /\ result[Len(items) + 1] = item
  BY <1>1
<1> HIDE DEF result
<1>3. item.id = m /\ item.status = "pending_audit"
  OBVIOUS
<1>4. \A i \in 1..Len(items) : items[i].id \in Messages /\ items[i].id # m /\ ~Earlier(m, items[i].id)
  <2> SUFFICES ASSUME NEW i \in 1..Len(items) PROVE items[i].id \in Messages /\ items[i].id # m /\ ~Earlier(m, items[i].id)
    OBVIOUS
  <2>1. items[i].id \in Messages
    BY <1>1
  <2>2. post[items[i].id] # "new"
    BY <1>1 DEF InStore, OfRoom, Underway
  <2> QED
    BY <2>1, <2>2 DEF PostedInOrder
<1>5. ASSUME NEW i \in DOMAIN result
      PROVE  /\ RoomOf[result[i].id] = r /\ stage2[result[i].id] \in Underway
             /\ result[i].status = "published" <=> stage2[result[i].id] = "sent"
  <2>1. CASE i \in 1..Len(items)
    BY <1>1, <1>2, <1>4, <2>1 DEF InStore, OfRoom
  <2>2. CASE i = Len(items) + 1
    BY <1>2, <1>3, <2>2 DEF Underway
  <2> QED
    BY <1>1, <1>2, <2>1, <2>2
<1>6. ASSUME NEW i \in DOMAIN result, NEW j \in DOMAIN result, i < j
      PROVE  result[i].id # result[j].id /\ ~Earlier(result[j].id, result[i].id)
  <2>1. i \in 1..Len(items) /\ result[i] = items[i]
    BY <1>1, <1>2, <1>6
  <2>2. CASE j \in 1..Len(items)
    BY <1>1, <1>2, <1>6, <2>1, <2>2 DEF InStore, Ordered
  <2>3. CASE j = Len(items) + 1
    BY <1>2, <1>3, <1>4, <2>1, <2>3
  <2> QED
    BY <1>1, <1>2, <2>2, <2>3
<1>7. ASSUME NEW i \in DOMAIN result, NEW n \in Messages, RoomOf[n] = r, Earlier(result[i].id, n), stage2[n] \in Underway
      PROVE  \E j \in DOMAIN result : result[j].id = n
  <2>1. CASE n = m
    BY <1>1, <1>2, <1>3, <2>1
  <2>2. CASE n # m
    <3>1. post[n] \in Underway /\ post[n] # "new"
      BY <1>7, <2>2 DEF Underway
    <3>2. ~Earlier(m, n)
      BY <3>1 DEF PostedInOrder
    <3>3. i \in 1..Len(items) /\ result[i] = items[i]
      BY <1>1, <1>2, <1>3, <1>7, <3>2
    <3>4. PICK j \in DOMAIN items : items[j].id = n
      BY <1>1, <1>7, <3>1, <3>3 DEF InStore, Unbroken
    <3> QED
      BY <1>1, <1>2, <3>4
  <2> QED
    BY <2>1, <2>2
<1>8. InStore(result, r, stage2)
  BY <1>2, <1>5, <1>6, <1>7 DEF InStore, OfRoom, Ordered, Unbroken
<1> QED
  BY <1>8 DEF result

\* Audited, or published: its place is what it was.
LEMMA MarkStays ==
    ASSUME NEW items, NEW r, NEW m \in Messages, NEW stage2, InStore(items, r, post), NEW marked, post[m] \in Underway,
           stage2[m] \in Underway, \A n \in Messages \ {m} : stage2[n] = post[n],
           marked \in Seq(Items), DOMAIN marked = DOMAIN items,
           \A i \in DOMAIN items : /\ marked[i].id = items[i].id
                                   /\ items[i].id = m => (marked[i].status = "published" <=> stage2[m] = "sent")
                                   /\ items[i].id # m => marked[i].status = items[i].status
    PROVE  InStore(marked, r, stage2)
<1>1. \A i \in DOMAIN items : items[i].id \in Messages
  BY ItemTypes DEF InStore
<1>2. \A n \in Messages : stage2[n] \in Underway <=> post[n] \in Underway
  OBVIOUS
<1>3. OfRoom(marked, r, stage2)
  <2> SUFFICES ASSUME NEW i \in DOMAIN items
               PROVE  /\ RoomOf[items[i].id] = r /\ stage2[items[i].id] \in Underway
                      /\ marked[i].status = "published" <=> stage2[items[i].id] = "sent"
    BY DEF OfRoom
  <2>1. /\ RoomOf[items[i].id] = r /\ stage2[items[i].id] \in Underway
        /\ items[i].status = "published" <=> post[items[i].id] = "sent"
    BY <1>1, <1>2 DEF InStore, OfRoom
  <2> QED
    BY <1>1, <2>1
<1>4. Ordered(marked)
  BY DEF InStore, Ordered
<1>5. Unbroken(marked, r, stage2)
  BY <1>2 DEF InStore, Unbroken
<1> QED
  BY <1>3, <1>4, <1>5 DEF InStore

LEMMA RemoveStays ==
    ASSUME NEW items, NEW r, NEW m \in Messages, NEW stage2, InStore(items, r, post),
           stage2[m] = "refused", \A n \in Messages \ {m} : stage2[n] = post[n]
    PROVE  InStore(R!Without(items, m), r, stage2)
<1>1. items \in Seq(Items) /\ Len(items) \in Nat /\ DOMAIN items = 1..Len(items)
      /\ \A i \in DOMAIN items : items[i].id \in Messages
  BY ItemTypes DEF InStore
<1>2. CASE ~\E i \in DOMAIN items : items[i].id = m
  <2>1. R!Without(items, m) = items
    BY <1>2 DEF R!Without
  <2>2. \A i \in DOMAIN items : stage2[items[i].id] = post[items[i].id]
    BY <1>1, <1>2
  <2>3. \A n \in Messages : stage2[n] \in Underway => post[n] \in Underway
    BY DEF Underway
  <2>4. OfRoom(items, r, stage2)
    BY <2>2 DEF InStore, OfRoom
  <2>5. Unbroken(items, r, stage2)
    BY <2>3 DEF InStore, Unbroken
  <2> QED
    BY <2>1, <2>4, <2>5 DEF InStore
<1>3. CASE \E i \in DOMAIN items : items[i].id = m
  <2> DEFINE spot == CHOOSE i \in DOMAIN items : items[i].id = m
             result == R!Without(items, m)
             was(i) == IF i < spot THEN i ELSE i + 1
  <2>1. spot \in 1..Len(items) /\ items[spot].id = m
    BY <1>1, <1>3
  <2>2. result = R!RemoveAt(items, spot)
    BY <1>3 DEF R!Without
  <2> HIDE DEF spot
  <2>3. result = SubSeq(items, 1, spot - 1) \o SubSeq(items, spot + 1, Len(items))
    BY <2>2 DEF R!RemoveAt
  <2>4. /\ result \in Seq(Items) /\ DOMAIN result = 1..Len(items) - 1
        /\ \A i \in 1..Len(items) - 1 : result[i] = items[was(i)]
    <3> DEFINE left == SubSeq(items, 1, spot - 1)
               right == SubSeq(items, spot + 1, Len(items))
    <3>0. /\ Len(items) \in Nat /\ spot \in 1..Len(items) /\ items \in Seq(Items)
          /\ \A i \in 1..Len(items) : items[i] \in Items
      BY <1>1, <2>1
    <3>1. left \in Seq(Items) /\ Len(left) = spot - 1 /\ \A i \in 1..spot - 1 : left[i] = items[i]
      BY <3>0
    <3>2. right \in Seq(Items) /\ Len(right) = Len(items) - spot /\ \A i \in 1..Len(items) - spot : right[i] = items[i + spot]
      <4>1. right \in Seq(Items)
        BY <3>0
      <4>2. Len(right) = Len(items) - spot
        BY <3>0
      <4>3. \A i \in 1..Len(items) - spot : right[i] = items[i + spot]
        BY <3>0
      <4> QED
        BY <4>1, <4>2, <4>3
    <3> HIDE DEF left, right
    <3>3. /\ left \o right \in Seq(Items) /\ Len(left \o right) = Len(items) - 1
          /\ \A i \in 1..Len(items) - 1 : (left \o right)[i] = IF i <= spot - 1 THEN left[i] ELSE right[i - (spot - 1)]
      <4>1. Len(left) \in Nat /\ Len(right) \in Nat /\ Len(left) + Len(right) = Len(items) - 1
        BY <1>1, <2>1, <3>1, <3>2
      <4>2. left \o right \in Seq(Items) /\ Len(left \o right) = Len(left) + Len(right)
        BY <3>1, <3>2
      <4>3. \A i \in 1..Len(left) + Len(right) : (left \o right)[i] = IF i <= Len(left) THEN left[i] ELSE right[i - Len(left)]
        BY <3>1, <3>2
      <4>4. Len(left) = spot - 1
        BY <3>1
      <4> HIDE DEF was
      <4> QED
        BY <4>1, <4>2, <4>3, <4>4
    <3>4. ASSUME NEW i \in 1..Len(items) - 1 PROVE (left \o right)[i] = items[was(i)]
      <4>1. CASE i < spot
        BY <2>1, <3>1, <3>3, <4>1
      <4>2. CASE ~(i < spot)
        <5>1. i - (spot - 1) \in 1..Len(items) - spot /\ i - (spot - 1) + spot = i + 1
          BY <1>1, <2>1, <4>2
        <5>2. right[i - (spot - 1)] = items[i + 1]
          BY <3>2, <5>1
        <5> QED
          BY <2>1, <3>3, <4>2, <5>2
      <4> QED
        BY <4>1, <4>2
    <3>5. left \o right = result
      BY <2>3 DEF left, right
    <3>6. DOMAIN (left \o right) = 1..Len(left \o right)
      BY <3>3
    <3> HIDE DEF was
    <3> QED
      BY <3>3, <3>4, <3>5, <3>6
  <2> HIDE DEF result
  <2>5. ASSUME NEW i \in DOMAIN result
        PROVE  was(i) \in DOMAIN items /\ was(i) # spot /\ result[i] = items[was(i)] /\ items[was(i)].id # m
    <3>1. was(i) \in DOMAIN items /\ was(i) # spot
      BY <1>1, <2>1, <2>4
    <3>2. items[was(i)].id # m
      BY <1>1, <2>1, <3>1 DEF InStore, Ordered
    <3> QED
      BY <2>4, <3>1, <3>2
  <2>6. \A i, j \in DOMAIN result : i < j => was(i) < was(j)
    BY <1>1, <2>1, <2>4
  <2>7. \A k \in DOMAIN items \ {spot} : \E i \in DOMAIN result : was(i) = k
    <3> SUFFICES ASSUME NEW k \in DOMAIN items \ {spot} PROVE \E i \in DOMAIN result : was(i) = k
      OBVIOUS
    <3>1. CASE k < spot
      BY <1>1, <2>1, <2>4, <3>1
    <3>2. CASE k > spot
      <4>1. k - 1 \in DOMAIN result /\ was(k - 1) = k
        BY <1>1, <2>1, <2>4, <3>2
      <4> QED
        BY <4>1
    <3> QED
      BY <1>1, <2>1, <3>1, <3>2
  <2> HIDE DEF was
  <2>8. \A n \in Messages : stage2[n] \in Underway => n # m /\ post[n] \in Underway
    BY DEF Underway
  <2>9. ASSUME NEW i \in DOMAIN result
        PROVE  /\ RoomOf[result[i].id] = r /\ stage2[result[i].id] \in Underway
               /\ result[i].status = "published" <=> stage2[result[i].id] = "sent"
    <3>1. stage2[items[was(i)].id] = post[items[was(i)].id]
      BY <1>1, <2>5
    <3> QED
      BY <2>5, <3>1 DEF InStore, OfRoom
  <2>10. ASSUME NEW i \in DOMAIN result, NEW j \in DOMAIN result, i < j
         PROVE  result[i].id # result[j].id /\ ~Earlier(result[j].id, result[i].id)
    <3>1. was(i) < was(j) /\ was(i) \in DOMAIN items /\ was(j) \in DOMAIN items
      BY <2>5, <2>6, <2>10
    <3> QED
      BY <2>5, <3>1 DEF InStore, Ordered
  <2>11. ASSUME NEW i \in DOMAIN result, NEW n \in Messages, RoomOf[n] = r, Earlier(result[i].id, n), stage2[n] \in Underway
         PROVE  \E j \in DOMAIN result : result[j].id = n
    <3>1. PICK k \in DOMAIN items : items[k].id = n
      BY <2>5, <2>8, <2>11 DEF InStore, Unbroken
    <3>2. k # spot
      BY <2>1, <2>8, <2>11, <3>1
    <3>3. PICK j \in DOMAIN result : was(j) = k
      BY <2>7, <3>2
    <3> QED
      BY <2>5, <3>1, <3>3
  <2>12. InStore(result, r, stage2)
    BY <2>4, <2>9, <2>10, <2>11 DEF InStore, OfRoom, Ordered, Unbroken
  <2> QED
    BY <2>12 DEF result
<1> QED
  BY <1>2, <1>3

\* A message that is sent is in the history with any earlier one of its process.
LEMMA HistoryHasLater ==
    ASSUME Stored, NEW r \in R!Rooms, NEW m \in Messages, NEW n \in Messages, Earlier(m, n), RoomOf[n] = r, post[n] = "sent",
           m \in R!History(r)
    PROVE  n \in R!History(r)
<1> DEFINE items == store[r]
           after(i) == {j \in R!Published(items) : j > i}
<1>1. InStore(items, r, post) /\ items \in Seq(Items) /\ Len(items) \in Nat /\ DOMAIN items = 1..Len(items)
      /\ \A i \in DOMAIN items : items[i].id \in Messages
  BY ItemTypes DEF Stored
<1>2. PICK i \in R!Published(items) : Cardinality(after(i)) < HistorySize /\ items[i].id = m
  BY RoomCardinality DEF R!History
<1>3. i \in DOMAIN items
  BY <1>2 DEF R!Published
<1>4. PICK j \in DOMAIN items : items[j].id = n
  BY <1>1, <1>2, <1>3 DEF InStore, Unbroken, Underway
<1>5. j \in R!Published(items)
  BY <1>1, <1>4 DEF InStore, OfRoom, R!Published
<1>6. ~(j < i) /\ j # i
  BY <1>1, <1>2, <1>3, <1>4, RoomMessages DEF InStore, Ordered, Earlier
<1>7. after(j) \subseteq after(i) /\ after(i) \subseteq 1..Len(items)
  BY <1>1, <1>3, <1>4, <1>6 DEF R!Published
<1> HIDE DEF after
<1>8. IsFiniteSet(after(i))
  <2>1. IsFiniteSet(1..Len(items))
    BY <1>1, FS_Interval
  <2> QED
    BY <1>7, <2>1, FS_Subset
<1>9. Cardinality(after(j)) <= Cardinality(after(i)) /\ Cardinality(after(j)) \in Nat /\ Cardinality(after(i)) \in Nat
  BY <1>7, <1>8, FS_Subset, FS_CardinalityType
<1>10. Cardinality(after(j)) < HistorySize
  BY <1>2, <1>9, RoomMessages
<1> QED
  BY <1>4, <1>5, <1>10, RoomCardinality DEF R!History, after

---------------------------------------------------------------------------
RoomTypes ==
    /\ conn \in [Conns -> {"new", "accept", "join", "talk", "gone"}]
    /\ rooms \in [R!Procs -> [R!Rooms -> SUBSET Conns]]
    /\ PostTypes
    /\ targets \in [Messages -> SUBSET Conns] /\ inbox \in [Conns -> SUBSET Messages]

\* Who has not joined is nowhere.
Outside ==
    \A c \in Conns : conn[c] \in {"new", "accept"} =>
        /\ \A p \in R!Procs, r \in R!Rooms : c \notin rooms[p][r]
        /\ \A m \in Messages : c \notin targets[m]

\* Who is sent a message is sent the later ones.
Here(m, c) == HostOf[m] = HostOf[c] /\ RoomOf[m] = RoomOf[c] /\ post[m] = "sent"
Reaches(m, c) == m \in inbox[c] \/ c \in targets[m]
Reached ==
    \A c \in Conns : conn[c] \in {"join", "talk"} /\ c \in R!In(c) =>
        \A m, n \in Messages : Here(m, c) /\ Here(n, c) /\ m < n /\ Reaches(m, c) => Reaches(n, c)

RoomInv == RoomTypes /\ PostedInOrder /\ Stored /\ Outside /\ Reached

LEMMA RoomPlaces == \A x \in Conns \cup Messages : HostOf[x] \in R!Procs /\ RoomOf[x] \in R!Rooms
BY DEF R!Procs, R!Rooms

\* The messages stay what they were: nobody joins, and nobody who is in the room
\* loses what is to be sent to him.
Shrunk == \A p \in R!Procs, r \in R!Rooms : rooms'[p][r] \subseteq rooms[p][r]
StillOut == \A c \in Conns : /\ conn'[c] \in {"new", "accept"} => conn[c] \in {"new", "accept"}
                             /\ conn'[c] \in {"join", "talk"} => conn[c] \in {"join", "talk"}
LEMMA ConnectionsStay ==
    ASSUME RoomInv, UNCHANGED <<store, post>>, RoomTypes', Shrunk, StillOut,
           \A m \in Messages : targets'[m] \subseteq targets[m],
           \A m \in Messages, c \in Conns : conn'[c] \in {"join", "talk"} => (Reaches(m, c)' <=> Reaches(m, c))
    PROVE  RoomInv'
<1>1. PostedInOrder' /\ Stored'
  BY DEF RoomInv, PostedInOrder, Stored
<1>2. Outside'
  BY DEF RoomInv, Outside, Shrunk, StillOut
<1>3. Reached'
  <2> SUFFICES ASSUME NEW c \in Conns, conn'[c] \in {"join", "talk"}, c \in R!In(c)',
                      NEW m \in Messages, NEW n \in Messages, Here(m, c)', Here(n, c)', m < n, Reaches(m, c)'
               PROVE  Reaches(n, c)'
    BY DEF Reached
  <2>1. conn[c] \in {"join", "talk"} /\ c \in R!In(c)
    BY RoomPlaces DEF Shrunk, StillOut, R!In
  <2>2. Here(m, c) /\ Here(n, c)
    BY DEF Here
  <2> QED
    BY <2>1, <2>2 DEF RoomInv, Reached
<1> QED
  BY <1>1, <1>2, <1>3 DEF RoomInv

LEMMA RemovingShrinks ==
    ASSUME RoomTypes, NEW d, R!Removing(d)
    PROVE  Shrunk /\ rooms' \in [R!Procs -> [R!Rooms -> SUBSET Conns]]
<1>1. rooms' = [rooms EXCEPT ![HostOf[d]][RoomOf[d]] = @ \ {d}]
  BY DEF R!Removing
<1> DEFINE a == HostOf[d]
           row == [rooms[a] EXCEPT ![RoomOf[d]] = @ \ {d}]
<1>2. rooms' = [rooms EXCEPT ![a] = row] /\ rooms \in [R!Procs -> [R!Rooms -> SUBSET Conns]]
  BY <1>1 DEF RoomTypes
<1>3. CASE a \in R!Procs
  <2>1. rooms[a] \in [R!Rooms -> SUBSET Conns]
    BY <1>2, <1>3
  <2>2. row \in [R!Rooms -> SUBSET Conns] /\ \A r \in R!Rooms : row[r] \subseteq rooms[a][r]
    BY <2>1
  <2> HIDE DEF row
  <2>3. rooms' \in [R!Procs -> [R!Rooms -> SUBSET Conns]] /\ \A p \in R!Procs : rooms'[p] = IF p = a THEN row ELSE rooms[p]
    BY <1>2, <2>2
  <2> QED
    BY <2>2, <2>3 DEF Shrunk
<1>4. CASE a \notin R!Procs
  <2> HIDE DEF row
  <2>1. rooms' = rooms
    BY <1>2, <1>4
  <2> QED
    BY <1>2, <2>1 DEF Shrunk
<1> QED
  BY <1>3, <1>4

LEMMA ConnectKeeps ==
    ASSUME RoomInv, NEW c \in Conns, R!Connecting(c)
    PROVE  RoomInv'
<1>0. RoomTypes
  BY DEF RoomInv
<1>1. ASSUME R!Reject(c) PROVE RoomInv'
  <2>1. PICK d \in R!Duplicates(c) : R!Removing(d)
    BY <1>1 DEF R!Reject
  <2>2. conn[c] = "new" /\ conn' = [conn EXCEPT ![c] = "gone"] /\ UNCHANGED <<store, post, targets, inbox>>
    BY <1>1 DEF R!Reject, R!Messaging
  <2>3. Shrunk /\ rooms' \in [R!Procs -> [R!Rooms -> SUBSET Conns]]
    BY <1>0, <2>1, RemovingShrinks
  <2>4. StillOut /\ RoomTypes'
    BY <1>0, <2>2, <2>3 DEF RoomTypes, PostTypes, StillOut
  <2>5. \A m \in Messages, e \in Conns : Reaches(m, e)' <=> Reaches(m, e)
    BY <2>2 DEF Reaches
  <2>6. \A m \in Messages : targets'[m] \subseteq targets[m]
    BY <2>2
  <2> QED
    BY <2>2, <2>3, <2>4, <2>5, <2>6, ConnectionsStay
<1>2. ASSUME R!Refuse(c) \/ R!AcceptFails(c) \/ R!Talk(c) \/ R!Strand(c) \/ R!Reserve(c) PROVE RoomInv'
  <2>1. UNCHANGED <<rooms, store, post, targets, inbox>>
    BY <1>2 DEF R!Refuse, R!AcceptFails, R!Talk, R!Strand, R!Reserve, R!Messaging
  <2>2. \/ conn[c] \in {"new", "accept"} /\ conn' = [conn EXCEPT ![c] = "accept"]
        \/ conn' = [conn EXCEPT ![c] = "gone"]
        \/ conn[c] = "join" /\ conn' = [conn EXCEPT ![c] = "talk"]
    BY <1>2 DEF R!Refuse, R!AcceptFails, R!Talk, R!Strand, R!Reserve
  <2>3. StillOut /\ RoomTypes'
    BY <1>0, <2>1, <2>2 DEF RoomTypes, PostTypes, StillOut
  <2>4. Shrunk
    BY <2>1 DEF Shrunk
  <2> QED
    BY <2>1, <2>3, <2>4, ConnectionsStay DEF Reaches
<1>3. ASSUME R!Leave(c) PROVE RoomInv'
  <2>1. R!Removing(c) /\ conn' = [conn EXCEPT ![c] = "gone"] /\ UNCHANGED <<store, post, targets, inbox>>
    BY <1>3 DEF R!Leave, R!Messaging
  <2>2. Shrunk /\ rooms' \in [R!Procs -> [R!Rooms -> SUBSET Conns]]
    BY <1>0, <2>1, RemovingShrinks
  <2>3. StillOut /\ RoomTypes'
    BY <1>0, <2>1, <2>2 DEF RoomTypes, PostTypes, StillOut
  <2> QED
    BY <2>1, <2>2, <2>3, ConnectionsStay DEF Reaches
<1>4. ASSUME R!Join(c) PROVE RoomInv'
  <2> DEFINE p == HostOf[c]
             r == RoomOf[c]
  <2>1. /\ conn[c] = "accept" /\ conn' = [conn EXCEPT ![c] = "join"]
        /\ rooms' = [rooms EXCEPT ![p][r] = @ \cup {c}]
        /\ inbox' = [inbox EXCEPT ![c] = R!History(r)]
        /\ UNCHANGED <<store, post, targets>>
    BY <1>4 DEF R!Join, R!Messaging
  <2>2. p \in R!Procs /\ r \in R!Rooms
    BY RoomPlaces
  <2>3. R!History(r) \subseteq Messages
    <3>1. store[r] \in Seq(Items)
      BY <2>2 DEF RoomInv, Stored
    <3> QED
      BY <3>1, ItemTypes DEF R!History, R!Published
  <2>4. RoomTypes'
    <3>1. conn' \in [Conns -> {"new", "accept", "join", "talk", "gone"}]
      BY <1>0, <2>1 DEF RoomTypes
    <3>2. rooms' \in [R!Procs -> [R!Rooms -> SUBSET Conns]]
      BY <1>0, <2>1, <2>2 DEF RoomTypes
    <3>3. inbox' \in [Conns -> SUBSET Messages]
      BY <1>0, <2>1, <2>3 DEF RoomTypes
    <3> QED
      BY <1>0, <2>1, <3>1, <3>2, <3>3 DEF RoomTypes, PostTypes
  <2>5. PostedInOrder' /\ Stored'
    BY <2>1 DEF RoomInv, PostedInOrder, Stored
  <2>6. \A q \in R!Procs, s \in R!Rooms : rooms'[q][s] \subseteq rooms[q][s] \cup {c}
    BY <1>0, <2>1, <2>2 DEF RoomTypes
  <2>7. conn'[c] = "join" /\ inbox'[c] = R!History(r)
        /\ \A d \in Conns \ {c} : conn'[d] = conn[d] /\ inbox'[d] = inbox[d]
    BY <1>0, <2>1 DEF RoomTypes
  <2>8. Outside'
    BY <2>1, <2>6, <2>7 DEF RoomInv, Outside
  <2>9. Reached'
    <3> SUFFICES ASSUME NEW d \in Conns, conn'[d] \in {"join", "talk"}, d \in R!In(d)',
                        NEW m \in Messages, NEW n \in Messages, Here(m, d)', Here(n, d)', m < n, Reaches(m, d)'
                 PROVE  Reaches(n, d)'
      BY DEF Reached
    <3>1. Here(m, d) /\ Here(n, d)
      BY <2>1 DEF Here
    <3>2. CASE d = c
      <4>1. c \notin targets[m]
        BY <2>1 DEF RoomInv, Outside
      <4>2. m \in R!History(r)
        BY <2>1, <2>7, <3>2, <4>1 DEF Reaches
      <4>3. Earlier(m, n) /\ RoomOf[n] = r /\ post[n] = "sent"
        BY <3>1, <3>2 DEF Here, Earlier
      <4>4. n \in R!History(r)
        BY <2>2, <4>2, <4>3, HistoryHasLater DEF RoomInv
      <4> QED
        BY <2>7, <3>2, <4>4 DEF Reaches
    <3>3. CASE d # c
      <4>1. d \in R!In(d) /\ conn[d] \in {"join", "talk"}
        BY <2>6, <2>7, <3>3, RoomPlaces DEF R!In
      <4>2. Reaches(m, d)
        BY <2>1, <2>7, <3>3 DEF Reaches
      <4>3. Reaches(n, d)
        BY <3>1, <4>1, <4>2 DEF RoomInv, Reached
      <4> QED
        BY <2>1, <2>7, <3>3, <4>3 DEF Reaches
    <3> QED
      BY <3>2, <3>3
  <2> QED
    BY <2>4, <2>5, <2>8, <2>9 DEF RoomInv
<1> QED
  BY <1>1, <1>2, <1>3, <1>4 DEF R!Connecting

LEMMA SendKeeps ==
    ASSUME RoomInv, NEW m \in Messages, NEW c \in Conns, R!Send(m, c) \/ R!SendFails(m, c)
    PROVE  RoomInv'
<1>0. RoomTypes
  BY DEF RoomInv
<1>1. c \in targets[m] /\ targets' = [targets EXCEPT ![m] = @ \ {c}] /\ UNCHANGED <<conn, store, post>>
  BY DEF R!Send, R!SendFails, R!Messaging
<1>2. StillOut /\ \A n \in Messages : targets'[n] = IF n = m THEN targets[n] \ {c} ELSE targets[n]
  BY <1>0, <1>1 DEF StillOut, RoomTypes
<1>3. CASE R!Send(m, c)
  <2>1. inbox' = [inbox EXCEPT ![c] = @ \cup {m}] /\ UNCHANGED rooms
    BY <1>3 DEF R!Send
  <2>2. RoomTypes' /\ Shrunk /\ \A d \in Conns : inbox'[d] = IF d = c THEN inbox[d] \cup {m} ELSE inbox[d]
    BY <1>0, <1>1, <2>1 DEF RoomTypes, PostTypes, Shrunk
  <2>3. \A n \in Messages, d \in Conns : Reaches(n, d)' <=> Reaches(n, d)
    <3> SUFFICES ASSUME NEW n \in Messages, NEW d \in Conns PROVE Reaches(n, d)' <=> Reaches(n, d)
      OBVIOUS
    <3>1. CASE n = m /\ d = c
      BY <1>1, <2>2, <3>1 DEF Reaches
    <3>2. CASE ~(n = m /\ d = c)
      <4>1. (d \in targets'[n] <=> d \in targets[n]) /\ (n \in inbox'[d] <=> n \in inbox[d])
        BY <1>2, <2>2, <3>2
      <4> QED
        BY <4>1 DEF Reaches
    <3> QED
      BY <3>1, <3>2
  <2> QED
    BY <1>1, <1>2, <2>2, <2>3, ConnectionsStay
<1>4. CASE R!SendFails(m, c)
  <2>1. R!Removing(c) /\ conn[c] = "gone" /\ UNCHANGED inbox
    BY <1>4 DEF R!SendFails
  <2>2. Shrunk /\ rooms' \in [R!Procs -> [R!Rooms -> SUBSET Conns]]
    BY <1>0, <2>1, RemovingShrinks
  <2>3. RoomTypes'
    BY <1>0, <1>1, <2>1, <2>2 DEF RoomTypes, PostTypes
  <2>4. \A n \in Messages, d \in Conns : conn'[d] \in {"join", "talk"} => (Reaches(n, d)' <=> Reaches(n, d))
    BY <1>1, <1>2, <2>1 DEF Reaches
  <2> QED
    BY <1>1, <1>2, <2>2, <2>3, <2>4, ConnectionsStay
<1> QED
  BY <1>3, <1>4

LEMMA OrderStays ==
    ASSUME RoomTypes, PostedInOrder, NEW m \in Messages,
           \/ /\ post[m] = "new" /\ post' = [post EXCEPT ![m] = "append"]
              /\ \A n \in Messages : Earlier(n, m) => post[n] \in {"sent", "refused"}
           \/ post[m] = "append" /\ post' = [post EXCEPT ![m] = "audit"]
           \/ post[m] \in {"append", "audit"} /\ post' = [post EXCEPT ![m] = "refused"]
           \/ post[m] \in {"append", "audit"} /\ post' = [post EXCEPT ![m] = "sent"]
    PROVE  PostedInOrder' /\ PostTypes' /\ \A n \in Messages \ {m} : post'[n] = post[n]
<1>1. PostTypes' /\ \A n \in Messages \ {m} : post'[n] = post[n]
  BY DEF RoomTypes, PostTypes
<1>2. ~Earlier(m, m)
  BY RoomMessages DEF Earlier
<1>3. PostedInOrder'
  BY <1>1, <1>2 DEF RoomTypes, PostTypes, PostedInOrder
<1> QED
  BY <1>1, <1>3

\* The stores, when a message is a step further.
LEMMA StoreStays ==
    ASSUME RoomInv, NEW m \in Messages, NEW items, InStore(items, RoomOf[m], post'), R!Setting(RoomOf[m], items),
           \A n \in Messages \ {m} : post'[n] = post[n]
    PROVE  Stored'
<1> DEFINE r == RoomOf[m]
           kept == R!Newest(items, MaxRoomMessages)
<1>1. store' = [store EXCEPT ![r] = kept] /\ r \in R!Rooms
  BY RoomPlaces DEF R!Setting
<1>2. InStore(kept, r, post')
  BY CutStays
<1> HIDE DEF kept
<1>3. store'[r] = kept /\ \A s \in R!Rooms \ {r} : store'[s] = store[s]
  BY <1>1 DEF RoomInv, Stored
<1>4. ASSUME NEW s \in R!Rooms PROVE InStore(store'[s], s, post')
  <2>1. CASE s = r
    BY <1>2, <1>3, <2>1
  <2>2. CASE s # r
    <3>1. InStore(store[s], s, post) /\ store'[s] = store[s]
      BY <1>3, <2>2 DEF RoomInv, Stored
    <3> QED
      BY <2>2, <3>1, OtherRoom
  <2> QED
    BY <2>1, <2>2
<1>5. store' \in [R!Rooms -> Seq(Items)]
  BY <1>1, <1>2 DEF RoomInv, Stored, InStore
<1> QED
  BY <1>4, <1>5 DEF Stored

\* What a connection is sent does not change with a message that is not sent.
LEMMA ReachedStays ==
    ASSUME RoomInv, NEW m \in Messages, UNCHANGED <<conn, rooms, inbox, targets>>, post'[m] # "sent",
           \A n \in Messages \ {m} : post'[n] = post[n]
    PROVE  Outside' /\ Reached'
<1>1. \A n \in Messages, c \in Conns : (Here(n, c)' => Here(n, c)) /\ (Reaches(n, c)' <=> Reaches(n, c))
  BY DEF Here, Reaches
<1> QED
  BY <1>1 DEF RoomInv, Outside, Reached, R!In

LEMMA PostKeeps ==
    ASSUME RoomInv, NEW m \in Messages, R!Posting(m)
    PROVE  RoomInv'
<1> DEFINE r == RoomOf[m]
           p == HostOf[m]
<1>0. /\ RoomTypes /\ PostedInOrder /\ r \in R!Rooms /\ p \in R!Procs
      /\ InStore(store[r], r, post) /\ store[r] \in Seq(Items)
  BY RoomPlaces DEF RoomInv, Stored
<1>1. ASSUME R!Enter(m) PROVE RoomInv'
  <2>1. /\ post[m] = "new" /\ post' = [post EXCEPT ![m] = "append"]
        /\ R!Setting(r, Append(store[r], [id |-> m, status |-> "pending_audit"]))
        /\ UNCHANGED <<conn, rooms, inbox, targets>>
    BY <1>1 DEF R!Enter, R!Connections
  <2>2. \A n \in Messages : Earlier(n, m) => post[n] \in {"sent", "refused"}
    BY <1>0, <1>1 DEF R!Enter, R!Free, Earlier, RoomTypes, PostTypes
  <2>3. PostedInOrder' /\ PostTypes' /\ \A n \in Messages \ {m} : post'[n] = post[n]
    BY <1>0, <2>1, <2>2, OrderStays
  <2>4. post'[m] = "append" /\ \A n \in Messages : post'[n] = IF n = m THEN "append" ELSE post[n]
    BY <1>0, <2>1 DEF RoomTypes, PostTypes
  <2>5. InStore(Append(store[r], [id |-> m, status |-> "pending_audit"]), r, post')
    BY <1>0, <2>1, <2>4, EnterStays
  <2>6. Stored'
    BY <2>1, <2>3, <2>5, StoreStays
  <2>7. Outside' /\ Reached'
    BY <2>1, <2>3, <2>4, ReachedStays
  <2>8. RoomTypes'
    BY <1>0, <2>1, <2>3 DEF RoomTypes
  <2> QED
    BY <2>3, <2>6, <2>7, <2>8 DEF RoomInv
<1>2. ASSUME R!Audit(m) PROVE RoomInv'
  <2>1. post[m] = "append" /\ post' = [post EXCEPT ![m] = "audit"] /\ UNCHANGED <<conn, rooms, inbox, targets, store>>
    BY <1>2 DEF R!Audit, R!Connections
  <2>2. PostedInOrder' /\ PostTypes' /\ \A n \in Messages \ {m} : post'[n] = post[n]
    BY <1>0, <2>1, OrderStays
  <2>3. post'[m] = "audit"
    BY <1>0, <2>1 DEF RoomTypes, PostTypes
  <2>4. ASSUME NEW s \in R!Rooms PROVE InStore(store[s], s, post')
    <3>1. InStore(store[s], s, post) /\ store[s] \in Seq(Items)
      BY DEF RoomInv, Stored
    <3>2. CASE s = r
      <4>1. \A i \in DOMAIN store[s] : store[s][i].id = m => store[s][i].status # "published"
        BY <2>1, <3>1 DEF InStore, OfRoom
      <4>2. post[m] \in Underway /\ post'[m] \in Underway /\ post'[m] # "sent"
        BY <2>1, <2>3 DEF Underway
      <4> QED
        BY <2>2, <3>1, <4>1, <4>2, MarkStays
    <3>3. CASE s # r
      BY <2>2, <3>1, <3>3, OtherRoom
    <3> QED
      BY <3>2, <3>3
  <2>5. Stored'
    BY <2>1, <2>4 DEF RoomInv, Stored
  <2>6. Outside' /\ Reached'
    BY <2>1, <2>2, <2>3, ReachedStays
  <2>7. RoomTypes'
    BY <1>0, <2>1, <2>2 DEF RoomTypes
  <2> QED
    BY <2>2, <2>5, <2>6, <2>7 DEF RoomInv
<1>3. ASSUME R!AuditFails(m) PROVE RoomInv'
  <2>1. /\ post[m] = "append" /\ post' = [post EXCEPT ![m] = "refused"]
        /\ R!Setting(r, R!Without(store[r], m)) /\ UNCHANGED <<conn, rooms, inbox, targets>>
    BY <1>3 DEF R!AuditFails, R!Connections
  <2>2. PostedInOrder' /\ PostTypes' /\ \A n \in Messages \ {m} : post'[n] = post[n]
    BY <1>0, <2>1, OrderStays
  <2>3. post'[m] = "refused"
    BY <1>0, <2>1 DEF RoomTypes, PostTypes
  <2>4. InStore(R!Without(store[r], m), r, post')
    BY <1>0, <2>2, <2>3, RemoveStays
  <2>5. Stored'
    BY <2>1, <2>2, <2>4, StoreStays
  <2>6. Outside' /\ Reached'
    BY <2>1, <2>2, <2>3, ReachedStays
  <2>7. RoomTypes'
    BY <1>0, <2>1, <2>2 DEF RoomTypes
  <2> QED
    BY <2>2, <2>5, <2>6, <2>7 DEF RoomInv
<1>4. ASSUME R!Publish(m) PROVE RoomInv'
  <2> DEFINE marked == [i \in DOMAIN store[r] |-> LET item == store[r][i] IN
                           IF item.id = m THEN [item EXCEPT !.status = "published"] ELSE item]
  <2>1. /\ post[m] = "audit" /\ post' = [post EXCEPT ![m] = "sent"] /\ R!Setting(r, marked)
        /\ targets' = [targets EXCEPT ![m] = rooms[p][r]] /\ UNCHANGED <<conn, rooms, inbox>>
    BY <1>4 DEF R!Publish, R!Connections
  <2>2. PostedInOrder' /\ PostTypes' /\ \A n \in Messages \ {m} : post'[n] = post[n]
    BY <1>0, <2>1, OrderStays
  <2>3. post'[m] = "sent"
    BY <1>0, <2>1 DEF RoomTypes, PostTypes
  <2>4. InStore(marked, r, post')
    <3>1. Len(store[r]) \in Nat /\ DOMAIN store[r] = 1..Len(store[r]) /\ \A i \in DOMAIN store[r] : store[r][i] \in Items
      BY <1>0, ItemTypes
    <3>2. ASSUME NEW i \in DOMAIN store[r]
          PROVE  /\ marked[i] \in Items /\ marked[i].id = store[r][i].id
                 /\ store[r][i].id = m => marked[i].status = "published"
                 /\ store[r][i].id # m => marked[i].status = store[r][i].status
      <4>1. store[r][i] \in Items
        BY <3>1
      <4> QED
        BY <4>1 DEF Items
    <3>3. marked \in Seq(Items) /\ DOMAIN marked = DOMAIN store[r]
      <4>1. marked \in [1..Len(store[r]) -> Items]
        BY <3>1, <3>2
      <4> HIDE DEF marked
      <4> QED
        BY <3>1, <4>1
    <3>4. post[m] \in Underway /\ post'[m] \in Underway
      BY <2>1, <2>3 DEF Underway
    <3> HIDE DEF marked
    <3>5. \A i \in DOMAIN store[r] : /\ marked[i].id = store[r][i].id
                                     /\ store[r][i].id = m => (marked[i].status = "published" <=> post'[m] = "sent")
                                     /\ store[r][i].id # m => marked[i].status = store[r][i].status
      BY <2>3, <3>2
    <3>6. \A n \in Messages \ {m} : post'[n] = post[n]
      BY <2>2
    <3> QED
      BY <1>0, <3>3, <3>4, <3>5, <3>6, MarkStays, Zenon
  <2> HIDE DEF marked
  <2>5. Stored'
    BY <2>1, <2>2, <2>4, StoreStays
  <2>6. /\ targets'[m] = rooms[p][r] /\ targets' \in [Messages -> SUBSET Conns]
        /\ \A n \in Messages \ {m} : targets'[n] = targets[n]
    BY <1>0, <2>1 DEF RoomTypes
  <2>7. RoomTypes'
    BY <1>0, <2>1, <2>2, <2>6 DEF RoomTypes
  <2>8. Outside'
    BY <1>0, <2>1, <2>6 DEF RoomInv, Outside
  <2>9. Reached'
    <3> SUFFICES ASSUME NEW c \in Conns, conn'[c] \in {"join", "talk"}, c \in R!In(c)',
                        NEW i \in Messages, NEW j \in Messages, Here(i, c)', Here(j, c)', i < j, Reaches(i, c)'
                 PROVE  Reaches(j, c)'
      BY DEF Reached
    <3>1. conn[c] \in {"join", "talk"} /\ c \in R!In(c)
      BY <2>1 DEF R!In
    <3>2. CASE j = m
      <4>1. HostOf[c] = p /\ RoomOf[c] = r
        BY <3>2 DEF Here
      <4> QED
        BY <2>6, <3>1, <3>2, <4>1 DEF Reaches, R!In
    <3>3. CASE j # m
      <4>1. post[j] # "new"
        BY <2>2, <3>3 DEF Here
      <4>2. i # m
        BY <1>0, <2>1, <4>1 DEF PostedInOrder, Earlier, Here
      <4>3. Here(i, c) /\ Here(j, c) /\ Reaches(i, c)
        BY <2>1, <2>2, <2>6, <3>3, <4>2 DEF Here, Reaches
      <4>4. Reaches(j, c)
        BY <3>1, <4>3 DEF RoomInv, Reached
      <4> QED
        BY <2>1, <2>6, <3>3, <4>4 DEF Reaches
    <3> QED
      BY <3>2, <3>3
  <2> QED
    BY <2>2, <2>5, <2>7, <2>8, <2>9 DEF RoomInv
<1> QED
  BY <1>1, <1>2, <1>3, <1>4 DEF R!Posting

LEMMA RoomKeeps ==
    ASSUME RoomInv, [R!Next]_(R!vars)
    PROVE  RoomInv'
<1>1. CASE UNCHANGED R!vars
  BY <1>1 DEF R!vars, RoomInv, RoomTypes, PostTypes, PostedInOrder, Stored, Outside, Reached, R!In, Here, Reaches
<1> QED
  BY <1>1, ConnectKeeps, PostKeeps, SendKeeps DEF R!Next

LEMMA RoomStep ==
    ASSUME [ChannelsNext]_all
    PROVE  part' = part /\ (part = "rooms" => [R!Next]_(R!vars))
  BY DEF ChannelsNext, all, RoomsMove, PushMoves, TelegramMoves, FeedMoves, NewsMoves, BooksMove, HistoryMoves,
         PollsMove, CommunityMoves, LinksMove, roomVars, R!vars

LEMMA RoomStart == ASSUME ChannelsInit, part = "rooms" PROVE RoomInv
<1>1. R!Init
  BY DEF ChannelsInit, PartInit
<1>2. RoomTypes
  BY <1>1 DEF R!Init, RoomTypes, PostTypes
<1>3. Stored
  <2>1. \A r : InStore(<<>>, r, post)
    BY DEF InStore, OfRoom, Ordered, Unbroken
  <2> QED
    BY <1>1, <2>1 DEF R!Init, Stored
<1> QED
  BY <1>1, <1>2, <1>3 DEF RoomInv, R!Init, PostedInOrder, Outside, Reached

\* Whenever a connection joined its room, what it was sent of the history and what it
\* has been sent since leave no gap: every message of its process it has not is older
\* than those it has (websocket_chat, list_room_messages, broadcast).
THEOREM RoomsHold == ChannelsSpec => []NoGapInTheRoom
<1> DEFINE IInv == part = "rooms" => RoomInv
<1>1. ChannelsInit => IInv
  BY RoomStart
<1>2. IInv /\ [ChannelsNext]_all => IInv'
  <2> SUFFICES ASSUME IInv, [ChannelsNext]_all PROVE IInv'
    OBVIOUS
  <2> QED
    BY RoomStep, RoomKeeps
<1>3. IInv => NoGapInTheRoom
  <2> SUFFICES ASSUME RoomInv PROVE R!NoGapInTheRoom
    BY DEF NoGapInTheRoom
  <2> QED
    BY DEF RoomInv, Reached, R!NoGapInTheRoom, R!Due, Here, Reaches
<1> QED
  BY <1>1, <1>2, <1>3, PTL DEF ChannelsSpec

---------------------------------------------------------------------------
(* The books.                                                                *)

BookRows == UNION {ToSet(snapshot.rows) : snapshot \in Snapshots}
BookSymbols == {row.symbol : row \in BookRows}
Positions == [symbol : BookSymbols, side : {"LONG", "SHORT"}, entry : Int, open : BOOLEAN, gain : Int]
Trades == [symbol : BookSymbols, side : {"LONG", "SHORT"}, gain : Int]

\* An open position is the last of its symbol.
OpenIsLast(ps) == \A i, j \in DOMAIN ps : ps[i].open /\ i < j => ps[j].symbol # ps[i].symbol
\* Where the trades come from.
Comes(ps, ts, of) ==
    /\ of \in [DOMAIN ts -> DOMAIN ps]
    /\ \A k \in DOMAIN ts : /\ ps[of[k]].open = FALSE /\ ps[of[k]].symbol = ts[k].symbol
                           /\ ps[of[k]].side = ts[k].side /\ ps[of[k]].gain = ts[k].gain
    /\ \A k, l \in DOMAIN ts : k < l /\ ts[l].symbol = ts[k].symbol => of[k] < of[l]
    /\ \A k \in DOMAIN ts, i \in DOMAIN ps :
           ps[i].open = FALSE /\ ps[i].symbol = ts[k].symbol /\ of[k] < i => \E l \in DOMAIN ts : of[l] = i
Balanced(ps, ts) ==
    /\ ps \in Seq(Positions) /\ ts \in Seq(Trades) /\ OpenIsLast(ps) /\ \E of : Comes(ps, ts, of)
PaperGood(p) ==
    /\ p = [positions |-> p.positions, trades |-> p.trades, skipped |-> p.skipped]
    /\ Balanced(p.positions, p.trades)

LEMMA PositionTypes ==
    ASSUME NEW ps, ps \in Seq(Positions)
    PROVE  /\ Len(ps) \in Nat /\ DOMAIN ps = 1..Len(ps)
           /\ \A i \in DOMAIN ps : ps[i] \in Positions /\ ps[i].open \in BOOLEAN
<1>1. Len(ps) \in Nat /\ DOMAIN ps = 1..Len(ps) /\ \A i \in DOMAIN ps : ps[i] \in Positions
  OBVIOUS
<1> QED
  BY <1>1 DEF Positions

LEMMA NewestTrades ==
    ASSUME NEW s, s \in Seq(Trades), NEW n \in Nat
    PROVE  \E k \in Nat : /\ B!Newest(s, n) \in Seq(Trades) /\ k <= Len(s) /\ DOMAIN B!Newest(s, n) = 1..Len(s) - k
                          /\ \A i \in 1..Len(s) - k : B!Newest(s, n)[i] = s[i + k]
<1>1. Len(s) \in Nat
  OBVIOUS
<1>2. CASE ~(Len(s) > n)
  <2>1. B!Newest(s, n) = s
    BY <1>2 DEF B!Newest
  <2>2. DOMAIN s = 1..Len(s) - 0 /\ \A i \in 1..Len(s) - 0 : s[i] = s[i + 0]
    OBVIOUS
  <2>3. B!Newest(s, n) \in Seq(Trades) /\ 0 <= Len(s) /\ DOMAIN B!Newest(s, n) = 1..Len(s) - 0
    BY <1>1, <2>1, <2>2
  <2>4. \A i \in 1..Len(s) - 0 : B!Newest(s, n)[i] = s[i + 0]
    BY <2>1, <2>2
  <2>5. 0 \in Nat
    OBVIOUS
  <2> QED
    BY <2>3, <2>4, <2>5, Zenon
<1>3. CASE Len(s) > n
  <2> DEFINE k == Len(s) - n
  <2>1. B!Newest(s, n) = SubSeq(s, k + 1, Len(s)) /\ k \in Nat /\ k <= Len(s)
    BY <1>3 DEF B!Newest
  <2> HIDE DEF k
  <2>2. SubSeq(s, k + 1, Len(s)) = [i \in 1..Len(s) - k |-> s[i + k]]
    BY <1>1, <2>1
  <2>3. \A i \in 1..Len(s) - k : s[i + k] \in Trades
    BY <1>1, <2>1
  <2>4. [i \in 1..Len(s) - k |-> s[i + k]] \in Seq(Trades)
    BY <1>1, <2>1, <2>3
  <2>5. DOMAIN B!Newest(s, n) = 1..Len(s) - k /\ \A i \in 1..Len(s) - k : B!Newest(s, n)[i] = s[i + k]
    BY <2>1, <2>2
  <2>6. B!Newest(s, n) \in Seq(Trades)
    BY <2>1, <2>2, <2>4
  <2> QED
    BY <2>1, <2>5, <2>6, Zenon
<1> QED
  BY <1>2, <1>3

\* The oldest trades may go.
LEMMA NewestBalanced ==
    ASSUME NEW ps, NEW ts, Balanced(ps, ts)
    PROVE  Balanced(ps, B!Newest(ts, MaxTrades))
<1> DEFINE result == B!Newest(ts, MaxTrades)
<1>1. PICK d \in Nat : /\ result \in Seq(Trades) /\ d <= Len(ts) /\ DOMAIN result = 1..Len(ts) - d
                       /\ \A i \in 1..Len(ts) - d : result[i] = ts[i + d]
  BY NewestTrades, BookSnapshotsAre DEF Balanced
<1>2. PICK of : Comes(ps, ts, of)
  BY DEF Balanced
<1> HIDE DEF result
<1>3. Len(ts) \in Nat /\ DOMAIN ts = 1..Len(ts)
  BY DEF Balanced
<1> DEFINE from == [k \in DOMAIN result |-> of[k + d]]
<1>4. ASSUME NEW k \in DOMAIN result PROVE k + d \in DOMAIN ts /\ result[k] = ts[k + d] /\ k \in Nat
  BY <1>1, <1>3
<1>5. from \in [DOMAIN result -> DOMAIN ps] /\ \A k \in DOMAIN result : from[k] = of[k + d]
  BY <1>2, <1>4 DEF Comes
<1> HIDE DEF from
<1>6. ASSUME NEW k \in DOMAIN result
      PROVE  /\ ps[from[k]].open = FALSE /\ ps[from[k]].symbol = result[k].symbol
             /\ ps[from[k]].side = result[k].side /\ ps[from[k]].gain = result[k].gain
  BY <1>2, <1>4, <1>5 DEF Comes
<1>7. ASSUME NEW k \in DOMAIN result, NEW l \in DOMAIN result, k < l, result[l].symbol = result[k].symbol
      PROVE  from[k] < from[l]
  <2>1. k + d < l + d
    BY <1>4, <1>7
  <2> QED
    BY <1>2, <1>4, <1>5, <1>7, <2>1 DEF Comes
<1>8. ASSUME NEW k \in DOMAIN result, NEW i \in DOMAIN ps, ps[i].open = FALSE, ps[i].symbol = result[k].symbol, from[k] < i
      PROVE  \E l \in DOMAIN result : from[l] = i
  <2>1. k + d \in DOMAIN ts /\ result[k] = ts[k + d] /\ from[k] = of[k + d] /\ k \in Nat
    BY <1>4, <1>5
  <2>2. PICK l \in DOMAIN ts : of[l] = i
    BY <1>2, <1>8, <2>1 DEF Comes
  <2>3. ts[l].symbol = ts[k + d].symbol
    BY <1>2, <1>8, <2>1, <2>2 DEF Comes
  <2>4. l # k + d
    BY <1>8, <2>1, <2>2, PositionTypes DEF Balanced
  <2>5. ~(l < k + d)
    <3>1. i \in Int /\ of[k + d] \in Int
      BY <1>2, <1>8, <2>1, PositionTypes DEF Balanced, Comes
    <3> QED
      BY <1>2, <1>8, <2>1, <2>2, <2>3, <3>1 DEF Comes
  <2>6. l - d \in DOMAIN result /\ l - d + d = l
    BY <1>1, <1>3, <2>1, <2>4, <2>5
  <2> QED
    BY <1>5, <2>2, <2>6
<1>9. Comes(ps, result, from)
  BY <1>5, <1>6, <1>7, <1>8 DEF Comes
<1> QED
  BY <1>1, <1>9 DEF Balanced, result

LEMMA OpenIs ==
    ASSUME NEW p, p.positions \in Seq(Positions), NEW symbol, NEW side
    PROVE  \/ /\ B!Open(p, symbol, side) = 0
              /\ \A i \in DOMAIN p.positions :
                     ~(p.positions[i].symbol = symbol /\ p.positions[i].side = side /\ p.positions[i].open)
           \/ LET i == B!Open(p, symbol, side) IN
              i \in DOMAIN p.positions /\ i # 0 /\ p.positions[i].symbol = symbol /\ p.positions[i].open
<1> DEFINE found == {i \in DOMAIN p.positions :
                         p.positions[i].symbol = symbol /\ p.positions[i].side = side /\ p.positions[i].open}
<1>1. found \in SUBSET Nat /\ 0 \notin found
  BY PositionTypes
<1>2. B!Open(p, symbol, side) = IF found = {} THEN 0 ELSE CHOOSE i \in found : \A j \in found : i <= j
  BY DEF B!Open
<1>3. CASE found = {}
  BY <1>2, <1>3
<1>4. CASE found # {}
  <2> HIDE DEF found
  <2>1. \E i \in found : \A j \in found : i <= j
    BY <1>1, <1>4, LeastOne
  <2>2. B!Open(p, symbol, side) \in found
    BY <1>2, <1>4, <2>1
  <2> QED
    BY <1>1, <2>2 DEF found
<1> QED
  BY <1>3, <1>4

\* A position is opened.
LEMMA OpenBalanced ==
    ASSUME NEW ps, NEW ts, Balanced(ps, ts), NEW q \in Positions, q.open = TRUE,
           \A i \in DOMAIN ps : ~(ps[i].symbol = q.symbol /\ ps[i].open)
    PROVE  Balanced(Append(ps, q), ts)
<1> DEFINE result == Append(ps, q)
<1>1. ps \in Seq(Positions) /\ Len(ps) \in Nat /\ DOMAIN ps = 1..Len(ps) /\ \A i \in DOMAIN ps : ps[i].open \in BOOLEAN
  BY PositionTypes DEF Balanced
<1>2. /\ result \in Seq(Positions) /\ DOMAIN result = 1..Len(ps) + 1 /\ result[Len(ps) + 1] = q
      /\ \A i \in 1..Len(ps) : result[i] = ps[i]
  BY <1>1
<1> HIDE DEF result
<1>3. OpenIsLast(result)
  <2> SUFFICES ASSUME NEW i \in DOMAIN result, NEW j \in DOMAIN result, result[i].open, i < j
               PROVE  result[j].symbol # result[i].symbol
    BY DEF OpenIsLast
  <2>1. i \in 1..Len(ps) /\ result[i] = ps[i]
    BY <1>1, <1>2
  <2>2. CASE j \in 1..Len(ps)
    BY <1>1, <1>2, <2>1, <2>2 DEF Balanced, OpenIsLast
  <2>3. CASE j = Len(ps) + 1
    BY <1>1, <1>2, <2>1, <2>3
  <2> QED
    BY <1>2, <2>2, <2>3
<1>4. PICK of : Comes(ps, ts, of)
  BY DEF Balanced
<1>5. \A i \in DOMAIN result : result[i].open = FALSE => i \in DOMAIN ps /\ ps[i] = result[i]
  BY <1>1, <1>2
<1>6. \A i \in DOMAIN ps : i \in DOMAIN result /\ result[i] = ps[i]
  BY <1>1, <1>2
<1>7. Comes(result, ts, of)
  BY <1>4, <1>5, <1>6 DEF Comes
<1> QED
  BY <1>2, <1>3, <1>7 DEF Balanced, result

\* A position is closed and becomes a trade.
LEMMA CloseBalanced ==
    ASSUME NEW ps, NEW ts, Balanced(ps, ts), NEW closing \in DOMAIN ps, ps[closing].open, NEW gain \in Int
    PROVE  Balanced([ps EXCEPT ![closing] = [ps[closing] EXCEPT !.open = FALSE, !.gain = gain]],
                    Append(ts, [symbol |-> ps[closing].symbol, side |-> ps[closing].side, gain |-> gain]))
<1> DEFINE q == [ps[closing] EXCEPT !.open = FALSE, !.gain = gain]
           t == [symbol |-> ps[closing].symbol, side |-> ps[closing].side, gain |-> gain]
           ps2 == [ps EXCEPT ![closing] = q]
           ts2 == Append(ts, t)
<1>1. ps \in Seq(Positions) /\ Len(ps) \in Nat /\ DOMAIN ps = 1..Len(ps) /\ \A i \in DOMAIN ps : ps[i] \in Positions
      /\ ts \in Seq(Trades) /\ Len(ts) \in Nat /\ DOMAIN ts = 1..Len(ts)
  BY PositionTypes DEF Balanced
<1>2. q \in Positions /\ q.open = FALSE /\ q.symbol = ps[closing].symbol /\ q.side = ps[closing].side /\ q.gain = gain
  <2>1. ps[closing] \in Positions
    BY <1>1
  <2> QED
    BY <2>1 DEF Positions
<1>3. t \in Trades /\ t.symbol = ps[closing].symbol /\ t.side = ps[closing].side /\ t.gain = gain
  <2>1. ps[closing] \in Positions
    BY <1>1
  <2> QED
    BY <2>1 DEF Positions, Trades
<1> HIDE DEF q, t
<1>4. ps2 \in Seq(Positions) /\ DOMAIN ps2 = DOMAIN ps /\ ps2[closing] = q /\ \A i \in DOMAIN ps \ {closing} : ps2[i] = ps[i]
  BY <1>1, <1>2
<1>5. /\ ts2 \in Seq(Trades) /\ DOMAIN ts2 = 1..Len(ts) + 1 /\ ts2[Len(ts) + 1] = t
      /\ \A k \in 1..Len(ts) : ts2[k] = ts[k]
  BY <1>1, <1>3
<1> HIDE DEF ps2, ts2
<1>6. OpenIsLast(ps2)
  <2> SUFFICES ASSUME NEW i \in DOMAIN ps, NEW j \in DOMAIN ps, ps2[i].open, i < j
               PROVE  ps2[j].symbol # ps2[i].symbol
    BY <1>4 DEF OpenIsLast
  <2>1. i # closing /\ ps2[i] = ps[i] /\ ps2[j].symbol = ps[j].symbol
    BY <1>2, <1>4
  <2> QED
    BY <2>1 DEF Balanced, OpenIsLast
<1>7. PICK of : Comes(ps, ts, of)
  BY DEF Balanced
<1> DEFINE from == [k \in DOMAIN ts2 |-> IF k = Len(ts) + 1 THEN closing ELSE of[k]]
<1>8. /\ from \in [DOMAIN ts2 -> DOMAIN ps2] /\ from[Len(ts) + 1] = closing
      /\ \A k \in 1..Len(ts) : from[k] = of[k] /\ of[k] \in DOMAIN ps /\ of[k] # closing
  <2>1. \A k \in 1..Len(ts) : of[k] \in DOMAIN ps /\ ps[of[k]].open = FALSE
    BY <1>1, <1>7 DEF Comes
  <2> QED
    BY <1>1, <1>4, <1>5, <2>1
<1> HIDE DEF from
<1>9. \A k \in DOMAIN ts2 : /\ ps2[from[k]].open = FALSE /\ ps2[from[k]].symbol = ts2[k].symbol
                           /\ ps2[from[k]].side = ts2[k].side /\ ps2[from[k]].gain = ts2[k].gain
  <2> SUFFICES ASSUME NEW k \in DOMAIN ts2
               PROVE  /\ ps2[from[k]].open = FALSE /\ ps2[from[k]].symbol = ts2[k].symbol
                      /\ ps2[from[k]].side = ts2[k].side /\ ps2[from[k]].gain = ts2[k].gain
    OBVIOUS
  <2>1. CASE k = Len(ts) + 1
    BY <1>2, <1>3, <1>4, <1>5, <1>8, <2>1
  <2>2. CASE k \in 1..Len(ts)
    <3>0. k \in DOMAIN ts
      BY <1>1, <2>2
    <3>1. /\ ps[of[k]].open = FALSE /\ ps[of[k]].symbol = ts[k].symbol
          /\ ps[of[k]].side = ts[k].side /\ ps[of[k]].gain = ts[k].gain
      BY <1>7, <3>0 DEF Comes
    <3>2. from[k] = of[k] /\ ps2[of[k]] = ps[of[k]] /\ ts2[k] = ts[k]
      BY <1>4, <1>5, <1>8, <2>2
    <3> QED
      BY <3>1, <3>2
  <2>3. k = Len(ts) + 1 \/ k \in 1..Len(ts)
    BY <1>1, <1>5
  <2> QED
    BY <2>1, <2>2, <2>3, Zenon
<1>10. \A i \in DOMAIN ps : ps[i].symbol = ps[closing].symbol => i <= closing
  <2> SUFFICES ASSUME NEW i \in DOMAIN ps, ps[i].symbol = ps[closing].symbol PROVE i <= closing
    OBVIOUS
  <2>1. ~(closing < i)
    BY DEF Balanced, OpenIsLast
  <2> QED
    BY <1>1, <2>1
<1>11. ASSUME NEW k \in DOMAIN ts2, NEW l \in DOMAIN ts2, k < l, ts2[l].symbol = ts2[k].symbol
       PROVE  from[k] < from[l]
  <2>1. k \in 1..Len(ts) /\ ts2[k] = ts[k] /\ from[k] = of[k] /\ of[k] \in DOMAIN ps /\ of[k] # closing
    BY <1>1, <1>5, <1>8, <1>11
  <2>2. CASE l \in 1..Len(ts)
    <3>1. ts2[l] = ts[l] /\ from[l] = of[l] /\ l \in DOMAIN ts /\ k \in DOMAIN ts
      BY <1>1, <1>5, <1>8, <2>1, <2>2
    <3> QED
      BY <1>7, <1>11, <2>1, <3>1 DEF Comes
  <2>3. CASE l = Len(ts) + 1
    <3>0. k \in DOMAIN ts
      BY <1>1, <2>1
    <3>2. ps[of[k]].symbol = ts[k].symbol
      BY <1>7, <3>0 DEF Comes
    <3>1. ps[of[k]].symbol = ps[closing].symbol
      BY <1>3, <1>5, <1>11, <2>1, <2>3, <3>2
    <3>3. of[k] <= closing
      BY <1>10, <2>1, <3>1
    <3>4. of[k] \in Nat /\ closing \in Nat
      BY <1>1, <2>1
    <3>5. of[k] < closing
      BY <2>1, <3>3, <3>4
    <3> QED
      BY <1>8, <2>1, <2>3, <3>5
  <2> QED
    BY <1>1, <1>5, <2>2, <2>3
<1>12. ASSUME NEW k \in DOMAIN ts2, NEW i \in DOMAIN ps2, ps2[i].open = FALSE, ps2[i].symbol = ts2[k].symbol, from[k] < i
       PROVE  \E l \in DOMAIN ts2 : from[l] = i
  <2>1. CASE i = closing
    <3>1. Len(ts) + 1 \in DOMAIN ts2
      BY <1>1, <1>5
    <3> QED
      BY <1>8, <2>1, <3>1
  <2>2. CASE i # closing
    <3>1. i \in DOMAIN ps /\ ps[i] = ps2[i]
      BY <1>4, <2>2
    <3>2. CASE k \in 1..Len(ts)
      <4>1. ts2[k] = ts[k] /\ from[k] = of[k] /\ k \in DOMAIN ts
        BY <1>1, <1>5, <1>8, <3>2
      <4>2. PICK l \in DOMAIN ts : of[l] = i
        BY <1>7, <1>12, <3>1, <4>1 DEF Comes
      <4>3. l \in DOMAIN ts2 /\ from[l] = of[l]
        BY <1>1, <1>5, <1>8
      <4> QED
        BY <4>2, <4>3
    <3>3. CASE k = Len(ts) + 1
      <4>1. ps[i].symbol = ps[closing].symbol /\ closing < i
        BY <1>3, <1>5, <1>8, <1>12, <3>1, <3>3
      <4> QED
        BY <1>1, <1>10, <3>1, <4>1
    <3> QED
      BY <1>1, <1>5, <3>2, <3>3
  <2> QED
    BY <2>1, <2>2
<1>13. Comes(ps2, ts2, from)
  BY <1>8, <1>9, <1>11, <1>12 DEF Comes
<1> QED
  BY <1>4, <1>5, <1>6, <1>13 DEF Balanced, ps2, ts2, q, t

\* A close is of a position that is open, and of a row with a price.
LEMMA ClosedKeeps ==
    ASSUME NEW p, PaperGood(p), NEW i \in DOMAIN p.positions, p.positions[i].open, NEW row, row.price \in Int
    PROVE  PaperGood(B!Closed(p, i, row))
<1> DEFINE q == p.positions[i]
           gain == B!Return(q.side, q.entry, row.price)
           ps2 == [p.positions EXCEPT ![i] = [q EXCEPT !.open = FALSE, !.gain = gain]]
           ts2 == Append(p.trades, [symbol |-> q.symbol, side |-> q.side, gain |-> gain])
           result == B!Closed(p, i, row)
<1>1. q \in Positions
  BY PositionTypes DEF PaperGood, Balanced
<1>2. gain \in Int
  BY <1>1 DEF B!Return, Positions
<1>3. p = [positions |-> p.positions, trades |-> p.trades, skipped |-> p.skipped]
  BY DEF PaperGood
<1>4. result.positions = ps2 /\ result.trades = B!Newest(ts2, MaxTrades)
      /\ result = [positions |-> result.positions, trades |-> result.trades, skipped |-> result.skipped]
  <2>1. result = [p EXCEPT !.positions = ps2, !.trades = B!Newest(ts2, MaxTrades)]
    BY DEF B!Closed
  <2> HIDE DEF result, gain, ps2, ts2
  <2> QED
    BY <1>3, <2>1
<1> HIDE DEF result, gain
<1>5. Balanced(ps2, ts2)
  BY <1>2, CloseBalanced DEF PaperGood
<1> HIDE DEF ps2, ts2
<1>6. Balanced(ps2, B!Newest(ts2, MaxTrades))
  BY <1>5, NewestBalanced
<1>7. PaperGood(result)
  BY <1>4, <1>6 DEF PaperGood
<1> QED
  BY <1>7 DEF result

LEMMA SkippedKeeps ==
    ASSUME NEW p, PaperGood(p), NEW reason
    PROVE  PaperGood(B!Skipped(p, reason))
<1>1. p = [positions |-> p.positions, trades |-> p.trades, skipped |-> p.skipped]
  BY DEF PaperGood
<1> DEFINE result == B!Skipped(p, reason)
<1>2. result.positions = p.positions /\ result.trades = p.trades
      /\ result = [positions |-> result.positions, trades |-> result.trades, skipped |-> result.skipped]
  BY <1>1 DEF B!Skipped
<1> HIDE DEF result
<1>3. PaperGood(result)
  BY <1>2 DEF PaperGood
<1> QED
  BY <1>3 DEF result

LEMMA EnteringKeeps ==
    ASSUME NEW p, PaperGood(p), NEW row, row.symbol \in BookSymbols, row.price \in Int, NEW side \in {"LONG", "SHORT"}
    PROVE  PaperGood(B!Entering(p, row, side))
<1> DEFINE q == [symbol |-> row.symbol, side |-> side, entry |-> row.price, open |-> TRUE, gain |-> 0]
           result == B!Opened(p, row, side)
<1>1. p = [positions |-> p.positions, trades |-> p.trades, skipped |-> p.skipped] /\ p.positions \in Seq(Positions)
  BY DEF PaperGood, Balanced
<1>2. q \in Positions /\ q.open = TRUE /\ q.symbol = row.symbol
  BY DEF Positions
<1>3. ASSUME B!Open(p, row.symbol, side) = 0, B!Open(p, row.symbol, B!Opposite[side]) = 0
      PROVE  PaperGood(result)
  <2>1. B!Opposite[side] \in {"LONG", "SHORT"} /\ B!Opposite[side] # side
    BY DEF B!Opposite
  <2>2. \A i \in DOMAIN p.positions : ~(p.positions[i].symbol = row.symbol /\ p.positions[i].open)
    <3> SUFFICES ASSUME NEW i \in DOMAIN p.positions, p.positions[i].symbol = row.symbol, p.positions[i].open PROVE FALSE
      OBVIOUS
    <3>1. p.positions[i] \in Positions
      BY <1>1, PositionTypes
    <3>2. p.positions[i].side = side \/ p.positions[i].side = B!Opposite[side]
      BY <2>1, <3>1 DEF Positions
    <3> QED
      BY <1>1, <1>3, <3>2, OpenIs
  <2>3. result.positions = Append(p.positions, q) /\ result.trades = p.trades
        /\ result = [positions |-> result.positions, trades |-> result.trades, skipped |-> result.skipped]
    <3>1. result = [p EXCEPT !.positions = Append(p.positions, q)]
      BY DEF B!Opened
    <3> DEFINE longer == Append(p.positions, q)
    <3> HIDE DEF result, q, longer
    <3>2. result = [p EXCEPT !.positions = longer]
      BY <3>1 DEF longer
    <3>3. result.positions = longer /\ result.trades = p.trades
          /\ result = [positions |-> result.positions, trades |-> result.trades, skipped |-> result.skipped]
      BY <1>1, <3>2
    <3> QED
      BY <3>3 DEF longer
  <2> HIDE DEF q, result
  <2>4. Balanced(Append(p.positions, q), p.trades)
    BY <1>2, <2>2, OpenBalanced DEF PaperGood
  <2> QED
    BY <2>3, <2>4 DEF PaperGood
<1> QED
  BY <1>3, SkippedKeeps DEF B!Entering

LEMMA LeavingKeeps ==
    ASSUME NEW p, PaperGood(p), NEW row, row.price \in Int
    PROVE  PaperGood(B!Leaving(p, row))
<1>1. p.positions \in Seq(Positions)
  BY DEF PaperGood, Balanced
<1>2. \A side : B!Open(p, row.symbol, side) # 0 => PaperGood(B!Closed(p, B!Open(p, row.symbol, side), row))
  <2> SUFFICES ASSUME NEW side, B!Open(p, row.symbol, side) # 0
               PROVE  PaperGood(B!Closed(p, B!Open(p, row.symbol, side), row))
    OBVIOUS
  <2>1. B!Open(p, row.symbol, side) \in DOMAIN p.positions /\ p.positions[B!Open(p, row.symbol, side)].open
    BY <1>1, OpenIs
  <2> QED
    BY <2>1, ClosedKeeps
<1> QED
  BY <1>2, SkippedKeeps DEF B!Leaving

LEMMA ProcessedKeeps ==
    ASSUME NEW p, PaperGood(p), NEW row, row.symbol \in BookSymbols, row.price \in Int, NEW snapshot
    PROVE  PaperGood(B!Processed(p, row, snapshot))
<1> DEFINE fit == B!Unfit(row, snapshot) = ""
<1>1. row.action \in DOMAIN B!Side => B!Side[row.action] \in {"LONG", "SHORT"}
  BY DEF B!Side
<1>2. CASE row.action \in B!Passive
  <2>1. B!Processed(p, row, snapshot) = B!Skipped(p, "decision_not_actionable")
    BY <1>2 DEF B!Processed, B!Passive, B!Side
  <2> QED
    BY <2>1, SkippedKeeps
<1>3. CASE row.action \notin B!Passive /\ ~fit
  <2>1. B!Processed(p, row, snapshot) = B!Skipped(p, B!Unfit(row, snapshot))
    BY <1>3 DEF B!Processed
  <2> QED
    BY <2>1, SkippedKeeps
<1>4. CASE row.action \notin B!Passive /\ fit /\ row.action \in DOMAIN B!Side
  <2>1. B!Processed(p, row, snapshot) = B!Entering(p, row, B!Side[row.action])
    BY <1>4 DEF B!Processed, B!Side
  <2> QED
    BY <1>1, <1>4, <2>1, EnteringKeeps
<1>5. CASE row.action \notin B!Passive /\ fit /\ row.action \in {"SELL", "COVER", "EXIT", "CLOSE"}
  <2>1. B!Processed(p, row, snapshot) = B!Leaving(p, row)
    BY <1>5 DEF B!Processed, B!Side
  <2> QED
    BY <2>1, LeavingKeeps
<1>6. CASE row.action \notin B!Passive /\ fit /\ row.action \notin DOMAIN B!Side
           /\ row.action \notin {"SELL", "COVER", "EXIT", "CLOSE"}
  <2>1. B!Processed(p, row, snapshot) = B!Skipped(p, "unsupported_decision")
    BY <1>6 DEF B!Processed
  <2> QED
    BY <2>1, SkippedKeeps
<1> QED
  BY <1>2, <1>3, <1>4, <1>5, <1>6
---------------------------------------------------------------------------
(* The rows of a snapshot, one after the other.                              *)

LEMMA SnapshotRows ==
    ASSUME NEW snapshot \in Snapshots
    PROVE  /\ Len(snapshot.rows) \in Nat /\ DOMAIN snapshot.rows = 1..Len(snapshot.rows)
           /\ \A n \in 1..Len(snapshot.rows) : /\ snapshot.rows[n].symbol \in BookSymbols
                                               /\ snapshot.rows[n].time \in Nat /\ snapshot.rows[n].price \in Int
<1>1. /\ Len(snapshot.rows) \in Nat /\ DOMAIN snapshot.rows = 1..Len(snapshot.rows)
      /\ \A n \in 1..Len(snapshot.rows) : snapshot.rows[n] \in ToSet(snapshot.rows)
  BY BookSnapshotsAre
<1>2. \A row \in ToSet(snapshot.rows) : row.symbol \in BookSymbols
  BY DEF BookSymbols, BookRows
<1> QED
  BY <1>1, <1>2, BookSnapshotsAre

LEMMA TradedUpTo ==
    ASSUME NEW p, NEW snapshot, Len(snapshot.rows) \in Nat
    PROVE  \E f : f = [n \in 0..Len(snapshot.rows) |-> IF n = 0 THEN p ELSE B!Processed(f[n - 1], snapshot.rows[n], snapshot)]
<1> DEFINE Good(m) == \E f : f = [n \in 0..m |-> IF n = 0 THEN p ELSE B!Processed(f[n - 1], snapshot.rows[n], snapshot)]
           S == {m \in Nat : Good(m)}
<1>1. 0 \in S
  <2> DEFINE f == [n \in 0..0 |-> p]
  <2>1. f = [n \in 0..0 |-> IF n = 0 THEN p ELSE B!Processed(f[n - 1], snapshot.rows[n], snapshot)]
    OBVIOUS
  <2> QED
    BY <2>1
<1>2. ASSUME NEW m \in S PROVE m + 1 \in S
  <2>1. m \in Nat
    OBVIOUS
  <2>2. PICK f : f = [n \in 0..m |-> IF n = 0 THEN p ELSE B!Processed(f[n - 1], snapshot.rows[n], snapshot)]
    OBVIOUS
  <2> DEFINE g == [n \in 0..m + 1 |-> IF n = m + 1 THEN B!Processed(f[m], snapshot.rows[m + 1], snapshot) ELSE f[n]]
  <2>3. \A n \in 0..m + 1 : g[n] = IF n = 0 THEN p ELSE B!Processed(g[n - 1], snapshot.rows[n], snapshot)
    <3> SUFFICES ASSUME NEW n \in 0..m + 1
                 PROVE  g[n] = IF n = 0 THEN p ELSE B!Processed(g[n - 1], snapshot.rows[n], snapshot)
      OBVIOUS
    <3>1. CASE n = m + 1
      BY <3>1, <2>1
    <3>2. CASE n # m + 1
      <4>1. n \in 0..m /\ (n # 0 => n - 1 \in 0..m /\ n - 1 # m + 1)
        BY <2>1, <3>2
      <4>2. g[n] = f[n] /\ (n # 0 => g[n - 1] = f[n - 1])
        BY <2>1, <4>1
      <4>3. f[n] = IF n = 0 THEN p ELSE B!Processed(f[n - 1], snapshot.rows[n], snapshot)
        BY <2>2, <4>1
      <4> QED
        BY <4>2, <4>3
    <3> QED
      BY <3>1, <3>2
  <2>4. g = [n \in 0..m + 1 |-> IF n = 0 THEN p ELSE B!Processed(g[n - 1], snapshot.rows[n], snapshot)]
    BY <2>3
  <2>5. Good(m + 1)
    <3> HIDE DEF g
    <3> QED
      BY <2>4
  <2> QED
    BY <2>1, <2>5
<1> HIDE DEF Good
<1>3. Nat \subseteq S
  BY <1>1, <1>2, NatSets
<1>4. Good(Len(snapshot.rows))
  BY <1>3
<1> QED
  BY <1>4 DEF Good

LEMMA TradedRows ==
    ASSUME NEW p, NEW snapshot, Len(snapshot.rows) \in Nat, snapshot.on
    PROVE  \E f : /\ f[0] = p /\ B!Traded(p, snapshot) = f[Len(snapshot.rows)]
                  /\ \A n \in 1..Len(snapshot.rows) : f[n] = B!Processed(f[n - 1], snapshot.rows[n], snapshot)
<1> DEFINE f == CHOOSE f : f = [n \in 0..Len(snapshot.rows) |->
                                   IF n = 0 THEN p ELSE B!Processed(f[n - 1], snapshot.rows[n], snapshot)]
<1>1. f = [n \in 0..Len(snapshot.rows) |-> IF n = 0 THEN p ELSE B!Processed(f[n - 1], snapshot.rows[n], snapshot)]
  BY TradedUpTo
<1>2. B!Traded(p, snapshot) = f[Len(snapshot.rows)]
  BY DEF B!Traded
<1> HIDE DEF f
<1>3. f[0] = p /\ \A n \in 1..Len(snapshot.rows) : f[n] = B!Processed(f[n - 1], snapshot.rows[n], snapshot)
  BY <1>1
<1> QED
  BY <1>2, <1>3

LEMMA TradedKeeps ==
    ASSUME NEW p, PaperGood(p), NEW snapshot \in Snapshots
    PROVE  PaperGood(B!Traded(p, snapshot))
<1>1. CASE ~snapshot.on
  <2>1. B!Traded(p, snapshot) = p
    BY <1>1 DEF B!Traded
  <2> QED
    BY <2>1
<1>2. CASE snapshot.on
  <2>1. PICK f : /\ f[0] = p /\ B!Traded(p, snapshot) = f[Len(snapshot.rows)]
                 /\ \A n \in 1..Len(snapshot.rows) : f[n] = B!Processed(f[n - 1], snapshot.rows[n], snapshot)
    BY <1>2, SnapshotRows, TradedRows
  <2> DEFINE S == {n \in Nat : n <= Len(snapshot.rows) => PaperGood(f[n])}
  <2>2. 0 \in S
    BY <2>1
  <2>3. ASSUME NEW n \in S PROVE n + 1 \in S
    <3> SUFFICES ASSUME n + 1 <= Len(snapshot.rows) PROVE PaperGood(f[n + 1])
      OBVIOUS
    <3>1. n \in Nat /\ n + 1 \in 1..Len(snapshot.rows) /\ n + 1 - 1 = n
      BY SnapshotRows
    <3>2. PaperGood(f[n])
      BY <3>1, SnapshotRows
    <3>3. f[n + 1] = B!Processed(f[n], snapshot.rows[n + 1], snapshot)
      BY <2>1, <3>1
    <3>4. snapshot.rows[n + 1].symbol \in BookSymbols /\ snapshot.rows[n + 1].price \in Int
      BY <3>1, SnapshotRows
    <3>5. PaperGood(B!Processed(f[n], snapshot.rows[n + 1], snapshot))
      BY <3>2, <3>4, ProcessedKeeps
    <3> QED
      BY <3>3, <3>5
  <2>4. Nat \subseteq S
    <3>1. S \in SUBSET Nat
      OBVIOUS
    <3> HIDE DEF S
    <3> QED
      BY <2>2, <2>3, <3>1, NatSets
  <2>5. PaperGood(f[Len(snapshot.rows)])
    BY <2>4, SnapshotRows
  <2> QED
    BY <2>1, <2>5
<1> QED
  BY <1>1, <1>2

---------------------------------------------------------------------------
(* What became of the signals.                                               *)

\* The windows of a record.  A row of a time fills all those whose time has come,
\* so that none is open before the time of one that is filled.
WindowsFill(r) ==
    /\ r.time \in Nat /\ r.windows \in [Windows -> Nat \cup {-1}]
    /\ \A w \in Windows :
           r.windows[w] # -1 =>
               /\ r.windows[w] - r.time >= w
               /\ \A u \in Windows : r.windows[w] - r.time >= u => r.windows[u] # -1
               /\ \A u \in Windows : u < w => r.windows[u] <= r.windows[w]
RecordGood(r) ==
    /\ {"time", "windows"} \subseteq DOMAIN r
    /\ WindowsFill(r)
RecordsGood(records) == \E S : records \in Seq(S) /\ \A r \in S : RecordGood(r)

LEMMA WindowsAre == Windows \subseteq Nat
  BY BookSnapshotsAre

LEMMA FilledFills ==
    ASSUME NEW r, WindowsFill(r), NEW row, row.time \in Nat, NEW s, s.time = r.time, s.windows = B!Filled(r, row)
    PROVE  WindowsFill(s)
<1> DEFINE t == row.time
           fills(w) == r.windows[w] = -1 /\ t - r.time >= w
<1>1. \A w \in Windows : s.windows[w] = IF fills(w) THEN t ELSE r.windows[w]
  BY DEF B!Filled
<1>2. /\ r.time \in Nat /\ t \in Nat /\ t # -1
      /\ \A w \in Windows : r.windows[w] \in Nat \cup {-1} /\ w \in Nat
  BY WindowsAre DEF WindowsFill
<1>3. s.windows \in [Windows -> Nat \cup {-1}]
  BY <1>2 DEF B!Filled
<1>4. ASSUME NEW w \in Windows, s.windows[w] # -1
      PROVE  s.windows[w] - r.time >= w
  BY <1>1, <1>2, <1>4 DEF WindowsFill
<1>5. ASSUME NEW w \in Windows, s.windows[w] # -1, NEW u \in Windows, s.windows[w] - r.time >= u
      PROVE  s.windows[u] # -1
  <2>1. CASE fills(w)
    BY <1>1, <1>2, <1>5, <2>1
  <2>2. CASE ~fills(w)
    <3>1. r.windows[u] # -1
      BY <1>1, <1>5, <2>2 DEF WindowsFill
    <3> QED
      BY <1>1, <1>2, <3>1
  <2> QED
    BY <2>1, <2>2
<1>6. ASSUME NEW w \in Windows, s.windows[w] # -1, NEW u \in Windows, u < w
      PROVE  s.windows[u] <= s.windows[w]
  <2>1. CASE fills(w)
    <3>1. s.windows[w] = t
      BY <1>1, <2>1
    <3>2. CASE fills(u)
      BY <1>1, <1>2, <3>1, <3>2
    <3>3. CASE ~fills(u)
      <4>1. s.windows[u] = r.windows[u]
        BY <1>1, <3>3
      <4>2. r.windows[u] <= t
        <5> SUFFICES ASSUME ~(r.windows[u] <= t) PROVE FALSE
          OBVIOUS
        <5>1. r.windows[u] # -1 /\ r.windows[u] - r.time >= w
          BY <1>2, <2>1
        <5>2. r.windows[w] # -1
          BY <5>1 DEF WindowsFill
        <5> QED
          BY <2>1, <5>2
      <4> QED
        BY <3>1, <4>1, <4>2
    <3> QED
      BY <3>2, <3>3
  <2>2. CASE ~fills(w)
    <3>1. s.windows[w] = r.windows[w] /\ r.windows[w] # -1
      BY <1>1, <1>6, <2>2
    <3>2. r.windows[w] - r.time >= u /\ r.windows[u] <= r.windows[w]
      BY <1>2, <1>6, <3>1 DEF WindowsFill
    <3>3. r.windows[u] # -1
      BY <3>1, <3>2 DEF WindowsFill
    <3> QED
      BY <1>1, <3>1, <3>2, <3>3
  <2> QED
    BY <2>1, <2>2
<1> HIDE DEF t, fills
<1>7. \A w \in Windows :
          s.windows[w] # -1 =>
              /\ s.windows[w] - r.time >= w
              /\ \A u \in Windows : s.windows[w] - r.time >= u => s.windows[u] # -1
              /\ \A u \in Windows : u < w => s.windows[u] <= s.windows[w]
  BY <1>4, <1>5, <1>6
<1> QED
  BY <1>2, <1>3, <1>7 DEF WindowsFill

LEMMA FollowedKeeps ==
    ASSUME NEW r, RecordGood(r), NEW row, row.time \in Nat, NEW snapshot
    PROVE  RecordGood(B!Followed(r, row, snapshot))
<1> DEFINE close == IF r.dayClose = -1 /\ snapshot.closes THEN row.time ELSE r.dayClose
           watched == B!Observed(r, row)
           filled == B!Filled(r, row)
           mid == [r EXCEPT !.observations = watched, !.windows = filled, !.dayClose = close]
           result == B!Followed(r, row, snapshot)
<1>1. result = B!Settled(mid)
  BY DEF B!Followed
<1> HIDE DEF close, watched, filled
<1>2. mid.time = r.time /\ mid.windows = filled /\ {"time", "windows"} \subseteq DOMAIN mid
  BY DEF RecordGood
<1> HIDE DEF mid, result
<1> DEFINE how == B!Result(mid.observations)
           status == IF mid.actionable THEN how ELSE IF mid.status # "skipped" THEN "blocked" ELSE mid.status
<1>3. result = [mid EXCEPT !.result = how, !.status = status]
  BY <1>1 DEF B!Settled
<1> HIDE DEF how, status
<1>4. result.time = r.time /\ result.windows = filled /\ {"time", "windows"} \subseteq DOMAIN result
  BY <1>2, <1>3
<1>5. WindowsFill(result)
  BY <1>4, FilledFills DEF RecordGood, filled
<1>6. RecordGood(result)
  BY <1>4, <1>5 DEF RecordGood
<1> QED
  BY <1>6 DEF result

LEMMA RecordStarts ==
    ASSUME NEW row, row.time \in Nat, NEW snapshot
    PROVE  RecordGood(B!Record(row, snapshot))
<1> DEFINE result == B!Record(row, snapshot)
<1>1. /\ result.time = row.time /\ result.windows = [w \in Windows |-> -1]
      /\ {"time", "windows"} \subseteq DOMAIN result
  BY DEF B!Record
<1> HIDE DEF result
<1>2. WindowsFill(result)
  BY <1>1 DEF WindowsFill
<1>3. RecordGood(result)
  BY <1>1, <1>2 DEF RecordGood
<1> QED
  BY <1>3 DEF result

\* The row of a symbol is one of the rows.
LEMMA LastOfRows ==
    ASSUME NEW snapshot \in Snapshots, NEW symbol, B!RowsOf(snapshot.rows, symbol) # {}
    PROVE  B!LastOf(snapshot.rows, symbol).time \in Nat
<1> DEFINE found == B!RowsOf(snapshot.rows, symbol)
<1>1. Len(snapshot.rows) \in Nat /\ found \in SUBSET (1..Len(snapshot.rows))
  BY SnapshotRows DEF B!RowsOf
<1>2. B!LastOf(snapshot.rows, symbol) = snapshot.rows[CHOOSE i \in found : \A j \in found : j <= i]
  BY DEF B!LastOf
<1> HIDE DEF found
<1>3. \E i \in found : \A j \in found : j <= i
  BY <1>1, GreatestOne DEF found
<1>4. (CHOOSE i \in found : \A j \in found : j <= i) \in found
  BY <1>3
<1> QED
  BY <1>1, <1>2, <1>4, SnapshotRows

LEMMA FollowupsKeep ==
    ASSUME NEW records, RecordsGood(records), NEW snapshot \in Snapshots
    PROVE  RecordsGood(B!Followups(records, snapshot))
<1> DEFINE result == B!Followups(records, snapshot)
<1>1. PICK S : records \in Seq(S) /\ \A r \in S : RecordGood(r)
  BY DEF RecordsGood
<1>2. Len(records) \in Nat /\ DOMAIN records = 1..Len(records) /\ \A i \in DOMAIN records : RecordGood(records[i])
  BY <1>1
<1> DEFINE tells(i) == /\ ~snapshot.stale /\ B!RowsOf(snapshot.rows, records[i].symbol) # {}
                       /\ B!Tells(records[i], B!LastOf(snapshot.rows, records[i].symbol))
           next(i) == IF tells(i) THEN B!Followed(records[i], B!LastOf(snapshot.rows, records[i].symbol), snapshot)
                      ELSE records[i]
<1>3. result = [i \in 1..Len(records) |-> next(i)]
  BY <1>2 DEF B!Followups
<1>4. ASSUME NEW i \in DOMAIN records PROVE RecordGood(next(i))
  <2>1. CASE tells(i)
    <3>1. B!LastOf(snapshot.rows, records[i].symbol).time \in Nat
      BY <2>1, LastOfRows
    <3>2. RecordGood(B!Followed(records[i], B!LastOf(snapshot.rows, records[i].symbol), snapshot))
      BY <1>2, <3>1, FollowedKeeps
    <3> QED
      BY <2>1, <3>2
  <2>2. CASE ~tells(i)
    BY <1>2, <2>2
  <2> QED
    BY <2>1, <2>2
<1> HIDE DEF tells, next, result
<1> DEFINE T2 == {next(i) : i \in 1..Len(records)}
<1>5. result \in Seq(T2)
  BY <1>2, <1>3
<1>6. \A r \in T2 : RecordGood(r)
  BY <1>2, <1>4
<1>7. RecordsGood(result)
  <2> HIDE DEF T2
  <2> QED
    BY <1>5, <1>6 DEF RecordsGood
<1> QED
  BY <1>7 DEF result

LEMMA AddedKeeps ==
    ASSUME NEW records, RecordsGood(records), NEW r, RecordGood(r)
    PROVE  RecordsGood(B!Added(records, r))
<1>1. PICK S : records \in Seq(S) /\ \A s \in S : RecordGood(s)
  BY DEF RecordsGood
<1>2. CASE B!SeenRecently(records, r)
  <2>1. B!Added(records, r) = records
    BY <1>2 DEF B!Added
  <2> QED
    BY <2>1
<1>3. CASE ~B!SeenRecently(records, r)
  <2>1. B!Added(records, r) = Append(records, r)
    BY <1>3 DEF B!Added
  <2>2. Append(records, r) \in Seq(S \cup {r})
    BY <1>1
  <2>3. \A s \in S \cup {r} : RecordGood(s)
    BY <1>1
  <2> QED
    BY <2>1, <2>2, <2>3 DEF RecordsGood
<1> QED
  BY <1>2, <1>3

LEMMA NewestRecords ==
    ASSUME NEW records, RecordsGood(records)
    PROVE  RecordsGood(B!Newest(records, MaxRecords))
<1> DEFINE n == MaxRecords
<1>1. PICK S : records \in Seq(S) /\ \A r \in S : RecordGood(r)
  BY DEF RecordsGood
<1>2. Len(records) \in Nat /\ n \in Nat
  BY <1>1, BookSnapshotsAre
<1>3. B!Newest(records, n) \in Seq(S)
  <2>1. CASE ~(Len(records) > n)
    BY <1>1, <2>1 DEF B!Newest
  <2>2. CASE Len(records) > n
    <3>1. B!Newest(records, n) = SubSeq(records, Len(records) - n + 1, Len(records))
      BY <2>2 DEF B!Newest
    <3> DEFINE k == Len(records) - n
    <3>2. k \in Nat /\ B!Newest(records, n) = SubSeq(records, k + 1, Len(records)) /\ k <= Len(records)
      BY <1>2, <2>2, <3>1
    <3> HIDE DEF k
    <3>3. SubSeq(records, k + 1, Len(records)) = [i \in 1..Len(records) - k |-> records[i + k]]
      BY <1>1, <1>2, <3>2
    <3>4. \A i \in 1..Len(records) - k : records[i + k] \in S
      BY <1>1, <1>2, <3>2
    <3>5. [i \in 1..Len(records) - k |-> records[i + k]] \in Seq(S)
      BY <1>2, <3>2, <3>4
    <3> QED
      BY <3>2, <3>3, <3>5
  <2> QED
    BY <2>1, <2>2
<1> QED
  BY <1>1, <1>3 DEF RecordsGood

LEMMA AuditedUpTo ==
    ASSUME NEW start, NEW snapshot, Len(snapshot.rows) \in Nat
    PROVE  \E f : f = [n \in 0..Len(snapshot.rows) |->
                          IF n = 0 THEN start ELSE B!Added(f[n - 1], B!Record(snapshot.rows[n], snapshot))]
<1> DEFINE Good(m) == \E f : f = [n \in 0..m |->
                                     IF n = 0 THEN start ELSE B!Added(f[n - 1], B!Record(snapshot.rows[n], snapshot))]
           S == {m \in Nat : Good(m)}
<1>1. 0 \in S
  <2> DEFINE f == [n \in 0..0 |-> start]
  <2>1. f = [n \in 0..0 |-> IF n = 0 THEN start ELSE B!Added(f[n - 1], B!Record(snapshot.rows[n], snapshot))]
    OBVIOUS
  <2> QED
    BY <2>1
<1>2. ASSUME NEW m \in S PROVE m + 1 \in S
  <2>1. m \in Nat
    OBVIOUS
  <2>2. PICK f : f = [n \in 0..m |-> IF n = 0 THEN start ELSE B!Added(f[n - 1], B!Record(snapshot.rows[n], snapshot))]
    OBVIOUS
  <2> DEFINE g == [n \in 0..m + 1 |-> IF n = m + 1 THEN B!Added(f[m], B!Record(snapshot.rows[m + 1], snapshot)) ELSE f[n]]
  <2>3. \A n \in 0..m + 1 : g[n] = IF n = 0 THEN start ELSE B!Added(g[n - 1], B!Record(snapshot.rows[n], snapshot))
    <3> SUFFICES ASSUME NEW n \in 0..m + 1
                 PROVE  g[n] = IF n = 0 THEN start ELSE B!Added(g[n - 1], B!Record(snapshot.rows[n], snapshot))
      OBVIOUS
    <3>1. CASE n = m + 1
      BY <3>1, <2>1
    <3>2. CASE n # m + 1
      <4>1. n \in 0..m /\ (n # 0 => n - 1 \in 0..m /\ n - 1 # m + 1)
        BY <2>1, <3>2
      <4>2. g[n] = f[n] /\ (n # 0 => g[n - 1] = f[n - 1])
        BY <2>1, <4>1
      <4>3. f[n] = IF n = 0 THEN start ELSE B!Added(f[n - 1], B!Record(snapshot.rows[n], snapshot))
        BY <2>2, <4>1
      <4> QED
        BY <4>2, <4>3
    <3> QED
      BY <3>1, <3>2
  <2>4. g = [n \in 0..m + 1 |-> IF n = 0 THEN start ELSE B!Added(g[n - 1], B!Record(snapshot.rows[n], snapshot))]
    BY <2>3
  <2>5. Good(m + 1)
    <3> HIDE DEF g
    <3> QED
      BY <2>4
  <2> QED
    BY <2>1, <2>5
<1> HIDE DEF Good
<1>3. Nat \subseteq S
  BY <1>1, <1>2, NatSets
<1>4. Good(Len(snapshot.rows))
  BY <1>3
<1> QED
  BY <1>4 DEF Good

LEMMA AuditedRows ==
    ASSUME NEW records, NEW snapshot, Len(snapshot.rows) \in Nat
    PROVE  \E f : /\ f[0] = B!Followups(records, snapshot)
                  /\ B!Audited(records, snapshot) = B!Newest(f[Len(snapshot.rows)], MaxRecords)
                  /\ \A n \in 1..Len(snapshot.rows) : f[n] = B!Added(f[n - 1], B!Record(snapshot.rows[n], snapshot))
<1> DEFINE start == B!Followups(records, snapshot)
           f == CHOOSE f : f = [n \in 0..Len(snapshot.rows) |->
                                   IF n = 0 THEN start ELSE B!Added(f[n - 1], B!Record(snapshot.rows[n], snapshot))]
<1>1. f = [n \in 0..Len(snapshot.rows) |-> IF n = 0 THEN start ELSE B!Added(f[n - 1], B!Record(snapshot.rows[n], snapshot))]
  BY AuditedUpTo
<1>2. B!Audited(records, snapshot) = B!Newest(f[Len(snapshot.rows)], MaxRecords)
  BY DEF B!Audited
<1> HIDE DEF f, start
<1>3. f[0] = start /\ \A n \in 1..Len(snapshot.rows) : f[n] = B!Added(f[n - 1], B!Record(snapshot.rows[n], snapshot))
  BY <1>1
<1> QED
  BY <1>2, <1>3 DEF start

LEMMA AuditedKeeps ==
    ASSUME NEW records, RecordsGood(records), NEW snapshot \in Snapshots
    PROVE  RecordsGood(B!Audited(records, snapshot))
<1>1. PICK f : /\ f[0] = B!Followups(records, snapshot)
               /\ B!Audited(records, snapshot) = B!Newest(f[Len(snapshot.rows)], MaxRecords)
               /\ \A n \in 1..Len(snapshot.rows) : f[n] = B!Added(f[n - 1], B!Record(snapshot.rows[n], snapshot))
  BY SnapshotRows, AuditedRows
<1> DEFINE S == {n \in Nat : n <= Len(snapshot.rows) => RecordsGood(f[n])}
<1>2. 0 \in S
  BY <1>1, FollowupsKeep
<1>3. ASSUME NEW n \in S PROVE n + 1 \in S
  <2> SUFFICES ASSUME n + 1 <= Len(snapshot.rows) PROVE RecordsGood(f[n + 1])
    OBVIOUS
  <2>1. n \in Nat /\ n + 1 \in 1..Len(snapshot.rows) /\ n + 1 - 1 = n
    BY SnapshotRows
  <2>2. RecordsGood(f[n])
    BY <2>1, SnapshotRows
  <2>3. f[n + 1] = B!Added(f[n], B!Record(snapshot.rows[n + 1], snapshot))
    BY <1>1, <2>1
  <2>4. RecordGood(B!Record(snapshot.rows[n + 1], snapshot))
    BY <2>1, SnapshotRows, RecordStarts
  <2>5. RecordsGood(B!Added(f[n], B!Record(snapshot.rows[n + 1], snapshot)))
    BY <2>2, <2>4, AddedKeeps
  <2> QED
    BY <2>3, <2>5
<1>4. Nat \subseteq S
  <2>1. S \in SUBSET Nat
    OBVIOUS
  <2> HIDE DEF S
  <2> QED
    BY <1>2, <1>3, <2>1, NatSets
<1>5. RecordsGood(f[Len(snapshot.rows)])
  BY <1>4, SnapshotRows
<1> QED
  BY <1>1, <1>5, NewestRecords

---------------------------------------------------------------------------
(* The books in memory and on disk.                                          *)

BookGood(v) == {"paper", "outcome"} \subseteq DOMAIN v /\ PaperGood(v.paper) /\ RecordsGood(v.outcome)
BooksInv == BookGood(book) /\ BookGood(file) /\ (at = B!Idle \/ at \in Snapshots)

LEMMA EmptyGood == BookGood(B!Empty)
<1>1. B!Empty.paper = [positions |-> <<>>, trades |-> <<>>, skipped |-> <<>>] /\ B!Empty.outcome = <<>>
      /\ {"paper", "outcome"} \subseteq DOMAIN B!Empty
  BY DEF B!Empty
<1>2. Balanced(<<>>, <<>>)
  <2>1. <<>> \in Seq(Positions) /\ <<>> \in Seq(Trades) /\ DOMAIN <<>> = {}
    OBVIOUS
  <2>2. OpenIsLast(<<>>)
    BY <2>1 DEF OpenIsLast
  <2>3. Comes(<<>>, <<>>, <<>>)
    <3>1. <<>> \in [DOMAIN <<>> -> DOMAIN <<>>]
      OBVIOUS
    <3> QED
      BY <2>1, <3>1 DEF Comes
  <2> QED
    BY <2>1, <2>2, <2>3 DEF Balanced
<1>3. PaperGood(B!Empty.paper)
  BY <1>1, <1>2 DEF PaperGood
<1>4. RecordsGood(<<>>)
  <2>1. PICK S : S = {}
    OBVIOUS
  <2>2. <<>> \in Seq(S) /\ \A r \in S : RecordGood(r)
    BY <2>1
  <2> QED
    BY <2>2, Zenon DEF RecordsGood
<1> QED
  BY <1>1, <1>3, <1>4 DEF BookGood

LEMMA KeepPaper ==
    ASSUME BookGood(book), BookGood(file), NEW value, PaperGood(value), B!Keep("paper", value)
    PROVE  BookGood(book') /\ BookGood(file')
<1>1. \A v : BookGood(v) => BookGood([v EXCEPT !["paper"] = value])
  <2> SUFFICES ASSUME NEW v, BookGood(v) PROVE BookGood([v EXCEPT !["paper"] = value])
    OBVIOUS
  <2> DEFINE result == [v EXCEPT !["paper"] = value]
  <2>1. result.paper = value /\ result.outcome = v.outcome /\ {"paper", "outcome"} \subseteq DOMAIN result
    BY DEF BookGood
  <2> HIDE DEF result
  <2>2. BookGood(result)
    BY <2>1 DEF BookGood
  <2> QED
    BY <2>2 DEF result
<1> QED
  BY <1>1 DEF B!Keep

LEMMA KeepOutcome ==
    ASSUME BookGood(book), BookGood(file), NEW value, RecordsGood(value), B!Keep("outcome", value)
    PROVE  BookGood(book') /\ BookGood(file')
<1>1. \A v : BookGood(v) => BookGood([v EXCEPT !["outcome"] = value])
  <2> SUFFICES ASSUME NEW v, BookGood(v) PROVE BookGood([v EXCEPT !["outcome"] = value])
    OBVIOUS
  <2> DEFINE result == [v EXCEPT !["outcome"] = value]
  <2>1. result.outcome = value /\ result.paper = v.paper /\ {"paper", "outcome"} \subseteq DOMAIN result
    BY DEF BookGood
  <2> HIDE DEF result
  <2>2. BookGood(result)
    BY <2>1 DEF BookGood
  <2> QED
    BY <2>2 DEF result
<1> QED
  BY <1>1 DEF B!Keep

LEMMA BooksKeep == ASSUME BooksInv, [B!Next]_(B!vars) PROVE BooksInv'
<1>1. CASE B!Trade
  <2>1. PICK snapshot \in Snapshots : at' = snapshot /\ B!Keep("paper", B!Traded(book.paper, snapshot))
    BY <1>1 DEF B!Trade
  <2>2. PaperGood(B!Traded(book.paper, snapshot))
    BY TradedKeeps DEF BooksInv, BookGood
  <2>3. BookGood(book') /\ BookGood(file')
    BY <2>1, <2>2, KeepPaper DEF BooksInv
  <2> QED
    BY <2>1, <2>3 DEF BooksInv
<1>2. CASE B!AuditSignals
  <2>1. at \in Snapshots /\ at' = B!Idle /\ B!Keep("outcome", B!Audited(book.outcome, at))
    BY <1>2 DEF B!AuditSignals, BooksInv
  <2>2. RecordsGood(B!Audited(book.outcome, at))
    BY <2>1, AuditedKeeps DEF BooksInv, BookGood
  <2>3. BookGood(book') /\ BookGood(file')
    BY <2>1, <2>2, KeepOutcome DEF BooksInv
  <2> QED
    BY <2>1, <2>3 DEF BooksInv
<1>3. CASE B!Restart
  <2>1. PICK unread \in SUBSET B!Books : book' = [b \in B!Books |-> IF b \in unread THEN B!Empty[b] ELSE file[b]]
    BY <1>3 DEF B!Restart
  <2>2. at' = B!Idle /\ file' = file
    BY <1>3 DEF B!Restart
  <2>3. {"paper", "outcome"} \subseteq DOMAIN book'
        /\ book'.paper \in {B!Empty.paper, file.paper} /\ book'.outcome \in {B!Empty.outcome, file.outcome}
    BY <2>1 DEF B!Books
  <2>4. BookGood(book')
    BY <2>3, EmptyGood DEF BooksInv, BookGood
  <2> QED
    BY <2>2, <2>4 DEF BooksInv
<1>4. CASE UNCHANGED B!vars
  BY <1>4 DEF B!vars, BooksInv
<1> QED
  BY <1>1, <1>2, <1>3, <1>4 DEF B!Next

LEMMA BooksStep ==
    ASSUME [ChannelsNext]_all
    PROVE  part' = part /\ (part = "books" => [B!Next]_(B!vars))
  BY DEF ChannelsNext, all, RoomsMove, PushMoves, TelegramMoves, FeedMoves, NewsMoves, BooksMove, HistoryMoves,
         PollsMove, CommunityMoves, LinksMove, Shared, bookVars, B!vars

LEMMA BooksStart == ASSUME ChannelsInit, part = "books" PROVE BooksInv
<1>1. B!Init
  BY DEF ChannelsInit, PartInit
<1> QED
  BY <1>1, EmptyGood DEF B!Init, BooksInv

LEMMA BookBalances ==
    ASSUME NEW v, BookGood(v)
    PROVE  LET positions == v.paper.positions
               trades == v.paper.trades
           IN /\ \A i, j \in DOMAIN positions :
                     positions[i].open /\ positions[j].open /\ positions[i].symbol = positions[j].symbol => i = j
              /\ \E of \in [DOMAIN trades -> DOMAIN positions] : \A k \in DOMAIN trades :
                     LET q == positions[of[k]] IN
                     /\ ~q.open /\ q.symbol = trades[k].symbol /\ q.side = trades[k].side /\ q.gain = trades[k].gain
                     /\ \A l \in DOMAIN trades : k < l /\ trades[l].symbol = trades[k].symbol => of[k] < of[l]
                     /\ \A i \in DOMAIN positions : ~positions[i].open /\ positions[i].symbol = q.symbol /\ of[k] < i =>
                            \E l \in DOMAIN trades : of[l] = i
<1> DEFINE positions == v.paper.positions
           trades == v.paper.trades
<1>1. Balanced(positions, trades)
  BY DEF BookGood, PaperGood
<1> HIDE DEF positions, trades
<1>2. DOMAIN positions \subseteq Int /\ \A i \in DOMAIN positions : positions[i].open \in BOOLEAN
  BY <1>1, PositionTypes DEF Balanced
<1>3. \A i, j \in DOMAIN positions :
          positions[i].open /\ positions[j].open /\ positions[i].symbol = positions[j].symbol => i = j
  BY <1>1, <1>2 DEF Balanced, OpenIsLast
<1>4. PICK of : Comes(positions, trades, of)
  BY <1>1 DEF Balanced
<1>5. of \in [DOMAIN trades -> DOMAIN positions]
  BY <1>4 DEF Comes
<1>6. ASSUME NEW k \in DOMAIN trades
      PROVE  /\ ~positions[of[k]].open /\ positions[of[k]].symbol = trades[k].symbol
             /\ positions[of[k]].side = trades[k].side /\ positions[of[k]].gain = trades[k].gain
             /\ \A l \in DOMAIN trades : k < l /\ trades[l].symbol = trades[k].symbol => of[k] < of[l]
  BY <1>4 DEF Comes
<1>7. ASSUME NEW k \in DOMAIN trades, NEW i \in DOMAIN positions, ~positions[i].open,
             positions[i].symbol = positions[of[k]].symbol, of[k] < i
      PROVE  \E l \in DOMAIN trades : of[l] = i
  <2>1. positions[i].open = FALSE /\ positions[i].symbol = trades[k].symbol
    BY <1>2, <1>6, <1>7
  <2> QED
    BY <1>4, <1>7, <2>1 DEF Comes
<1> QED
  BY <1>3, <1>5, <1>6, <1>7 DEF positions, trades

LEMMA BookInOrder ==
    ASSUME NEW v, BookGood(v), NEW i \in DOMAIN v.outcome, NEW w \in Windows, v.outcome[i].windows[w] # -1
    PROVE  /\ v.outcome[i].windows[w] - v.outcome[i].time >= w
           /\ \A u \in Windows : u < w => v.outcome[i].windows[u] # -1 /\ v.outcome[i].windows[u] <= v.outcome[i].windows[w]
<1> DEFINE r == v.outcome[i]
<1>1. WindowsFill(r)
  <2>1. PICK S : v.outcome \in Seq(S) /\ \A s \in S : RecordGood(s)
    BY DEF BookGood, RecordsGood
  <2>2. r \in S
    BY <2>1
  <2> QED
    BY <2>1, <2>2 DEF RecordGood
<1> HIDE DEF r
<1>2. r.windows[w] # -1
  BY DEF r
<1>3. r.time \in Nat /\ r.windows[w] \in Nat /\ w \in Nat
  BY <1>1, <1>2, WindowsAre DEF WindowsFill
<1>4. r.windows[w] - r.time >= w
  BY <1>1, <1>2 DEF WindowsFill
<1>5. ASSUME NEW u \in Windows, u < w PROVE r.windows[u] # -1 /\ r.windows[u] <= r.windows[w]
  <2>0. u \in Nat
    BY WindowsAre
  <2>1. r.windows[w] - r.time >= u
    BY <1>3, <1>4, <1>5, <2>0
  <2> QED
    BY <1>1, <1>2, <1>5, <2>1 DEF WindowsFill
<1> QED
  BY <1>4, <1>5 DEF r

\* Whatever the snapshots, the writes that fail and the restarts, a symbol has one
\* open position at most, its trades are the last positions it closed, and the
\* windows of a signal are filled in their order (_process_row, _close_position,
\* _update_record_from_future_snapshot).
THEOREM BooksHold == ChannelsSpec => []BooksBalance
<1> DEFINE IInv == part = "books" => BooksInv
<1>1. ChannelsInit => IInv
  BY BooksStart
<1>2. IInv /\ [ChannelsNext]_all => IInv'
  <2> SUFFICES ASSUME IInv, [ChannelsNext]_all PROVE IInv'
    OBVIOUS
  <2> QED
    BY BooksStep, BooksKeep
<1>3. IInv => BooksBalance
  <2> SUFFICES ASSUME BooksInv PROVE B!BooksBalance
    BY DEF BooksBalance
  <2>1. \A v \in B!Views : BookGood(v)
    BY DEF BooksInv, B!Views
  <2>2. B!TradesBalance
    BY <2>1, BookBalances DEF B!TradesBalance
  <2>3. B!WindowsInOrder
    BY <2>1, BookInOrder DEF B!WindowsInOrder
  <2> QED
    BY <2>2, <2>3 DEF B!BooksBalance
<1> QED
  BY <1>1, <1>2, <1>3, PTL DEF ChannelsSpec

---------------------------------------------------------------------------
(* The feed of news: lists drawn from lists.                                 *)

LEMMA FeedCardinality == ASSUME NEW S PROVE N!Cardinality(S) = Cardinality(S)
BY Zenon DEF Cardinality, N!Cardinality

LEMMA NthIs ==
    ASSUME NEW n \in Nat, NEW I \in SUBSET (1..n)
    PROVE  /\ N!Cardinality(I) \in Nat
           /\ \A k \in 1..N!Cardinality(I) :
                  N!Nth(I, k) \in I /\ N!Cardinality({j \in I : j < N!Nth(I, k)}) = k - 1
<1> DEFINE less == {p \in I \X I : p[1] < p[2]}
<1>1. IsFiniteSet(I)
  <2>1. IsFiniteSet(1..n)
    BY FS_Interval
  <2> QED
    BY <2>1, FS_Subset
<1>2. I \subseteq Int /\ \A i, j \in I : <<i, j>> \in less <=> i < j
  OBVIOUS
<1> HIDE DEF less
<1>3. Orders(less, I)
  BY <1>2 DEF Orders
<1>4. /\ Cardinality(I) \in Nat
      /\ \A k \in 1..Cardinality(I) : \E i \in I : Cardinality(Preceding(less, I, i)) = k - 1
  BY <1>1, <1>3, Ranks
<1>5. \A i \in I : Preceding(less, I, i) = {j \in I : j < i}
  BY <1>2 DEF Preceding
<1>6. \A k \in 1..Cardinality(I) : \E i \in I : Cardinality({j \in I : j < i}) = k - 1
  BY <1>4, <1>5
<1>7. ASSUME NEW k \in 1..N!Cardinality(I)
      PROVE  N!Nth(I, k) \in I /\ N!Cardinality({j \in I : j < N!Nth(I, k)}) = k - 1
  <2>1. k \in 1..Cardinality(I)
    BY FeedCardinality
  <2>2. PICK i \in I : Cardinality({j \in I : j < i}) = k - 1
    BY <1>6, <2>1
  <2>3. N!Cardinality({j \in I : j < i}) = k - 1
    BY <2>2, FeedCardinality
  <2> QED
    BY <2>3, Zenon DEF N!Nth
<1>8. N!Cardinality(I) \in Nat
  BY <1>4, FeedCardinality
<1> QED
  BY <1>7, <1>8

\* A list drawn from another has elements of it at different places.
Drawn(r, s) ==
    \E m \in [1..Len(r) -> 1..Len(s)] :
        (\A i, j \in 1..Len(r) : m[i] = m[j] => i = j) /\ \A k \in 1..Len(r) : r[k] = s[m[k]]

LEMMA DrawnIs ==
    ASSUME NEW S, NEW s \in Seq(S), NEW n \in Nat, NEW m \in [1..n -> 1..Len(s)],
           \A i, j \in 1..n : m[i] = m[j] => i = j, NEW r, r = [k \in 1..n |-> s[m[k]]]
    PROVE  r \in Seq(S) /\ Drawn(r, s)
<1>1. \A k \in 1..n : s[m[k]] \in S
  OBVIOUS
<1>2. r \in Seq(S) /\ Len(r) = n
  BY <1>1
<1>3. \A k \in 1..n : r[k] = s[m[k]]
  OBVIOUS
<1>4. m \in [1..Len(r) -> 1..Len(s)]
  BY <1>2
<1>5. \A i, j \in 1..Len(r) : m[i] = m[j] => i = j
  BY <1>2
<1>6. \A k \in 1..Len(r) : r[k] = s[m[k]]
  BY <1>2, <1>3
<1>7. Drawn(r, s)
  BY <1>4, <1>5, <1>6 DEF Drawn
<1> QED
  BY <1>2, <1>7

LEMMA PickedIs ==
    ASSUME NEW S, NEW s \in Seq(S), NEW I \in SUBSET (1..Len(s))
    PROVE  N!Picked(s, I) \in Seq(S) /\ Drawn(N!Picked(s, I), s)
<1> DEFINE n == N!Cardinality(I)
           m == [k \in 1..n |-> N!Nth(I, k)]
<1>1. Len(s) \in Nat
  OBVIOUS
<1>2. n \in Nat /\ \A k \in 1..n : N!Nth(I, k) \in I /\ N!Cardinality({j \in I : j < N!Nth(I, k)}) = k - 1
  BY <1>1, NthIs
<1>3. N!Picked(s, I) = [k \in 1..n |-> s[N!Nth(I, k)]]
  BY DEF N!Picked
<1> HIDE DEF n
<1>4. m \in [1..n -> 1..Len(s)]
  BY <1>2
<1>5. ASSUME NEW i \in 1..n, NEW j \in 1..n, m[i] = m[j] PROVE i = j
  <2>1. N!Nth(I, i) = N!Nth(I, j)
    BY <1>5
  <2>2. i - 1 = j - 1
    BY <1>2, <2>1
  <2> QED
    BY <1>2, <2>2
<1>6. \A k \in 1..n : m[k] = N!Nth(I, k)
  OBVIOUS
<1> HIDE DEF m
<1>7. N!Picked(s, I) = [k \in 1..n |-> s[m[k]]]
  BY <1>3, <1>6
<1> QED
  BY <1>2, <1>4, <1>5, <1>7, DrawnIs

LEMMA FirstOfIs ==
    ASSUME NEW S, NEW s \in Seq(S), NEW keys
    PROVE  N!FirstOf(s, keys) \in Seq(S) /\ Drawn(N!FirstOf(s, keys), s)
<1> DEFINE I == {i \in DOMAIN s : \A j \in 1..i - 1 : keys[j] # keys[i]}
<1>1. I \in SUBSET (1..Len(s))
  OBVIOUS
<1>2. N!FirstOf(s, keys) = N!Picked(s, I)
  BY DEF N!FirstOf
<1> HIDE DEF I
<1> QED
  BY <1>1, <1>2, PickedIs

LEMMA UptoIs ==
    ASSUME NEW S, NEW s \in Seq(S), NEW n \in Nat
    PROVE  N!Upto(s, n) \in Seq(S) /\ Drawn(N!Upto(s, n), s)
<1> DEFINE l == N!Least(n, Len(s))
           m == [k \in 1..l |-> k]
<1>1. l \in Nat /\ l <= Len(s)
  BY DEF N!Least
<1>2. N!Upto(s, n) = [k \in 1..l |-> s[k]]
  BY DEF N!Upto
<1> HIDE DEF l
<1>3. m \in [1..l -> 1..Len(s)] /\ \A k \in 1..l : m[k] = k
  BY <1>1
<1> HIDE DEF m
<1>4. N!Upto(s, n) = [k \in 1..l |-> s[m[k]]]
  BY <1>2, <1>3
<1>5. \A i, j \in 1..l : m[i] = m[j] => i = j
  BY <1>3
<1> QED
  BY <1>1, <1>3, <1>4, <1>5, DrawnIs

LEMMA SameFunctions == ASSUME NEW D, NEW Y, NEW a \in [D -> Y], NEW b \in [D -> Y], \A k \in D : a[k] = b[k] PROVE a = b
OBVIOUS

LEMMA AboveIs ==
    ASSUME NEW w \in Nat, NEW a \in [1..w -> Int], NEW b \in [1..w -> Int], NEW c \in [1..w -> Int],
           N!Above(a, b), N!Above(b, c)
    PROVE  N!Above(a, c)
<1>1. PICK k \in 1..w : a[k] > b[k] /\ \A l \in 1..k - 1 : a[l] = b[l]
  BY DEF N!Above
<1>2. PICK q \in 1..w : b[q] > c[q] /\ \A l \in 1..q - 1 : b[l] = c[l]
  BY DEF N!Above
<1>3. CASE k <= q
  <2>1. a[k] > c[k]
    <3>1. b[k] = c[k] \/ (k = q /\ b[k] > c[k])
      BY <1>2, <1>3
    <3>2. a[k] \in Int /\ b[k] \in Int /\ c[k] \in Int
      OBVIOUS
    <3> QED
      BY <1>1, <3>1, <3>2
  <2>2. \A l \in 1..k - 1 : a[l] = c[l]
    BY <1>1, <1>2, <1>3
  <2> QED
    BY <2>1, <2>2 DEF N!Above
<1>4. CASE q < k
  <2>1. a[q] > c[q]
    <3>1. a[q] = b[q]
      BY <1>1, <1>4
    <3> QED
      BY <1>2, <3>1
  <2>2. \A l \in 1..q - 1 : a[l] = c[l]
    BY <1>1, <1>2, <1>4
  <2> QED
    BY <2>1, <2>2 DEF N!Above
<1> QED
  BY <1>3, <1>4

LEMMA OneAbove ==
    ASSUME NEW w \in Nat, NEW a \in [1..w -> Int], NEW b \in [1..w -> Int], a # b
    PROVE  N!Above(a, b) \/ N!Above(b, a)
<1> DEFINE apart == {k \in 1..w : a[k] # b[k]}
<1>1. \E k \in 1..w : a[k] # b[k]
  BY SameFunctions
<1>2. apart \in SUBSET Nat /\ apart # {}
  <2>1. apart \in SUBSET Nat
    OBVIOUS
  <2>2. apart # {}
    BY <1>1
  <2> QED
    BY <2>1, <2>2
<1>3. \A k \in 1..w : k \in apart <=> a[k] # b[k]
  OBVIOUS
<1>4. apart \subseteq 1..w
  OBVIOUS
<1> HIDE DEF apart
<1>5. PICK k \in apart : \A l \in apart : k <= l
  BY <1>2, LeastOne
<1>6. k \in 1..w /\ a[k] # b[k] /\ a[k] \in Int /\ b[k] \in Int
  BY <1>3, <1>4
<1>7. ASSUME NEW l \in 1..k - 1 PROVE a[l] = b[l]
  <2>1. l \in 1..w /\ l < k
    BY <1>6
  <2>2. ~(k <= l)
    BY <1>6, <2>1
  <2> QED
    BY <1>3, <1>5, <2>1, <2>2
<1>8. a[k] > b[k] \/ b[k] > a[k]
  BY <1>6
<1>9. DOMAIN a = 1..w /\ DOMAIN b = 1..w
  OBVIOUS
<1> QED
  BY <1>6, <1>7, <1>8, <1>9 DEF N!Above

\* Sorting: keys of the same length.
LEMMA RankedIs ==
    ASSUME NEW S, NEW s \in Seq(S), NEW w \in Nat, NEW keys \in [1..Len(s) -> [1..w -> Int]]
    PROVE  N!Ranked(s, keys) \in Seq(S) /\ Drawn(N!Ranked(s, keys), s)
<1> DEFINE n == Len(s)
           D == DOMAIN s
           before == {p \in D \X D : N!Before(keys, p[1], p[2])}
           placed(k) == CHOOSE i \in D : N!Cardinality({j \in D : N!Before(keys, j, i)}) = k - 1
           m == [k \in D |-> placed(k)]
<1>1. n \in Nat /\ D = 1..n /\ IsFiniteSet(D) /\ Cardinality(D) = n
  <2>1. n \in Nat /\ D = 1..n
    OBVIOUS
  <2> HIDE DEF n, D
  <2> QED
    BY <2>1, FS_Interval
<1>2. \A i, j \in D : <<i, j>> \in before <=> N!Before(keys, i, j)
  OBVIOUS
<1>3. N!Ranked(s, keys) = [k \in D |-> s[placed(k)]]
  BY DEF N!Ranked
<1>4. \A i \in D : keys[i] \in [1..w -> Int]
  OBVIOUS
<1> HIDE DEF n, D, before
<1>5. \A a \in [1..w -> Int] : ~N!Above(a, a)
  BY DEF N!Above
<1>6. \A a, b, c \in [1..w -> Int] : N!Above(a, b) /\ N!Above(b, c) => N!Above(a, c)
  BY AboveIs
<1>7. \A a, b \in [1..w -> Int] : a = b \/ N!Above(a, b) \/ N!Above(b, a)
  BY OneAbove
<1>8. \A i \in D : <<i, i>> \notin before
  BY <1>1, <1>2, <1>4, <1>5 DEF N!Before
<1>9. \A i, j, k \in D : <<i, j>> \in before /\ <<j, k>> \in before => <<i, k>> \in before
  <2> SUFFICES ASSUME NEW i \in D, NEW j \in D, NEW k \in D, N!Before(keys, i, j), N!Before(keys, j, k) PROVE N!Before(keys, i, k)
    BY <1>2
  <2>1. keys[i] \in [1..w -> Int] /\ keys[j] \in [1..w -> Int] /\ keys[k] \in [1..w -> Int]
    BY <1>4
  <2>2. \/ N!Above(keys[i], keys[j]) /\ N!Above(keys[j], keys[k])
        \/ N!Above(keys[i], keys[j]) /\ keys[j] = keys[k]
        \/ keys[i] = keys[j] /\ N!Above(keys[j], keys[k])
        \/ keys[i] = keys[j] /\ keys[j] = keys[k] /\ i < j /\ j < k
    BY DEF N!Before
  <2>3. N!Above(keys[i], keys[k]) \/ (keys[i] = keys[k] /\ i < j /\ j < k)
    BY <1>6, <2>1, <2>2
  <2>4. i \in Nat /\ j \in Nat /\ k \in Nat
    BY <1>1
  <2> QED
    BY <2>3, <2>4 DEF N!Before
<1>10. \A i, j \in D : i = j \/ <<i, j>> \in before \/ <<j, i>> \in before
  <2> SUFFICES ASSUME NEW i \in D, NEW j \in D, i # j PROVE N!Before(keys, i, j) \/ N!Before(keys, j, i)
    BY <1>2
  <2>1. i < j \/ j < i
    BY <1>1
  <2>2. keys[i] = keys[j] \/ N!Above(keys[i], keys[j]) \/ N!Above(keys[j], keys[i])
    BY <1>4, <1>7
  <2> QED
    BY <2>1, <2>2 DEF N!Before
<1>11. \A k \in 1..n : \E i \in D : Cardinality(Preceding(before, D, i)) = k - 1
  <2>1. \A k \in 1..Cardinality(D) : \E i \in D : Cardinality(Preceding(before, D, i)) = k - 1
    <3>1. IsFiniteSet(D)
      BY <1>1
    <3>2. Orders(before, D)
      BY <1>8, <1>9, <1>10 DEF Orders
    <3> QED
      BY <3>1, <3>2, Ranks
  <2> QED
    BY <1>1, <2>1
<1>12. ASSUME NEW k \in 1..n PROVE placed(k) \in D /\ N!Cardinality({j \in D : N!Before(keys, j, placed(k))}) = k - 1
  <2>1. PICK i \in D : Cardinality(Preceding(before, D, i)) = k - 1
    BY <1>11
  <2>2. Preceding(before, D, i) = {j \in D : N!Before(keys, j, i)}
    BY <1>2 DEF Preceding
  <2>3. N!Cardinality({j \in D : N!Before(keys, j, i)}) = k - 1
    BY <2>1, <2>2, FeedCardinality
  <2> QED
    BY <2>3, Zenon
<1> HIDE DEF placed
<1>13. \A k \in 1..n : m[k] = placed(k)
  BY <1>1
<1>14. m \in [1..n -> 1..n]
  BY <1>1, <1>12
<1> HIDE DEF m
<1>15. ASSUME NEW i \in 1..n, NEW j \in 1..n, m[i] = m[j] PROVE i = j
  <2>1. placed(i) = placed(j)
    BY <1>13, <1>15
  <2>2. i - 1 = j - 1
    BY <1>12, <2>1
  <2> QED
    BY <1>1, <2>2
<1>16. N!Ranked(s, keys) = [k \in 1..n |-> s[m[k]]]
  BY <1>1, <1>3, <1>13
<1> QED
  BY <1>1, <1>14, <1>15, <1>16, DrawnIs DEF n

---------------------------------------------------------------------------
(* The feed of news: the scores of a card are whole numbers, so that cards  *)
(* can be sorted by them.                                                   *)

LEMMA StoryIs ==
    ASSUME NEW r \in N!Raws
    PROVE  r.age \in Int /\ IsFiniteSet(r.labels) /\ r.words \in SUBSET Nat /\ r.story \in N!Stories
           /\ r.match \in {"text", "related", "alias", "none"} /\ r.words \in SUBSET N!Words
<1>1. PICK d \in Deliveries : r \in N!ToSet(d)
  BY DEF N!Raws
<1>2. r \in ToSet(d)
  BY <1>1 DEF ToSet, N!ToSet
<1>3. r.story \in N!Stories /\ r.words \in SUBSET N!Words
  BY DEF N!Stories, N!Words
<1> QED
  BY <1>2, <1>3, DeliveredStories

LEMMA CappedInt == ASSUME NEW x \in Int PROVE N!Capped(x) \in Int
BY DEF N!Capped

LEMMA LeastInt == ASSUME NEW x \in Int, NEW y \in Int PROVE N!Least(x, y) \in Int
BY DEF N!Least

LEMMA DirectnessInt == ASSUME NEW r \in N!Raws PROVE N!Directness(r) \in Int
BY StoryIs DEF N!Directness

LEMMA AmbiguityInt == ASSUME NEW r \in N!Raws PROVE N!Ambiguity(r) \in Int
<1> DEFINE a == IF r.uncertain THEN 2200 ELSE 0
           b == IF r.question THEN 1000 ELSE 0
           c == IF r.bull > 0 /\ r.bear > 0 THEN 2800 ELSE 0
           d == IF "macro" \in r.labels /\ ~N!Direct(r) THEN 1400 ELSE 0
           e == IF ~N!Direct(r) THEN 1400 ELSE 0
           f == IF r.noise THEN 1200 ELSE 0
<1>1. a \in Int /\ b \in Int /\ c \in Int /\ d \in Int /\ e \in Int /\ f \in Int
  OBVIOUS
<1>2. N!Ambiguity(r) = N!Capped(a + b + c + d + e + f)
  BY DEF N!Ambiguity
<1> HIDE DEF a, b, c, d, e, f
<1>3. a + b + c + d + e + f \in Int
  BY <1>1
<1> QED
  BY <1>2, <1>3, CappedInt

LEMMA LabelsInt == ASSUME NEW labels, IsFiniteSet(labels) PROVE N!Cardinality(labels) \in Int
BY FS_CardinalityType, FeedCardinality

LEMMA ConfidenceInt == ASSUME NEW r \in N!Raws PROVE N!Confidence(r) \in Int
<1> DEFINE a == IF r.ticker THEN 2000 ELSE 0
           b == IF r.related THEN 1000 ELSE 0
           c == N!Least(2000, N!Cardinality(r.labels) * 600)
           d == IF r.entities >= 2 THEN 1000 ELSE 0
           e == IF r.long THEN 500 ELSE 0
<1>1. N!Cardinality(r.labels) \in Int
  BY StoryIs, LabelsInt
<1>2. c \in Int
  BY <1>1, LeastInt
<1>3. a \in Int /\ b \in Int /\ d \in Int /\ e \in Int
  OBVIOUS
<1>4. N!Confidence(r) = N!Capped(3000 + a + b + c + d + 500 + e)
  BY DEF N!Confidence
<1> HIDE DEF a, b, c, d, e
<1>5. 3000 + a + b + c + d + 500 + e \in Int
  BY <1>2, <1>3
<1> QED
  BY <1>4, <1>5, CappedInt

LEMMA HeavyInt == ASSUME NEW labels, NEW those PROVE N!Heavy(labels, those) \in Int
<1> DEFINE at6 == {n \in DOMAIN N!Labels : N!Labels[n] \in labels /\ N!Cardinality({m \in 1..n - 1 : N!Labels[m] \in labels}) < 3}
           lead == N!Leading(labels)
<1>1. lead \in SUBSET {"resultado", "M&A", "regulacao", "guidance", "macro", "fato relevante"}
  <2>1. \A n \in DOMAIN N!Labels : N!Labels[n] \in {"resultado", "M&A", "regulacao", "guidance", "macro", "fato relevante"}
    <3>1. DOMAIN N!Labels = {1, 2, 3, 4, 5, 6}
      BY DEF N!Labels
    <3>2. /\ N!Labels[1] = "resultado" /\ N!Labels[2] = "M&A" /\ N!Labels[3] = "regulacao"
          /\ N!Labels[4] = "guidance" /\ N!Labels[5] = "macro" /\ N!Labels[6] = "fato relevante"
      BY DEF N!Labels
    <3> QED
      BY <3>1, <3>2
  <2>2. lead = {N!Labels[n] : n \in at6}
    BY DEF N!Leading
  <2>3. at6 \subseteq DOMAIN N!Labels
    OBVIOUS
  <2> HIDE DEF at6, lead
  <2> QED
    BY <2>1, <2>2, <2>3
<1>2. IsFiniteSet({"resultado", "M&A", "regulacao", "guidance", "macro", "fato relevante"})
  <2>1. IsFiniteSet({"fato relevante"})
    BY FS_Singleton
  <2>2. IsFiniteSet({"fato relevante"} \cup {"macro"})
    BY <2>1, FS_AddElement
  <2>3. IsFiniteSet(({"fato relevante"} \cup {"macro"}) \cup {"guidance"})
    BY <2>2, FS_AddElement
  <2>4. IsFiniteSet((({"fato relevante"} \cup {"macro"}) \cup {"guidance"}) \cup {"regulacao"})
    BY <2>3, FS_AddElement
  <2>5. IsFiniteSet(((({"fato relevante"} \cup {"macro"}) \cup {"guidance"}) \cup {"regulacao"}) \cup {"M&A"})
    BY <2>4, FS_AddElement
  <2>6. IsFiniteSet((((({"fato relevante"} \cup {"macro"}) \cup {"guidance"}) \cup {"regulacao"}) \cup {"M&A"}) \cup {"resultado"})
    BY <2>5, FS_AddElement
  <2>7. {"resultado", "M&A", "regulacao", "guidance", "macro", "fato relevante"}
        = (((({"fato relevante"} \cup {"macro"}) \cup {"guidance"}) \cup {"regulacao"}) \cup {"M&A"}) \cup {"resultado"}
    OBVIOUS
  <2> QED
    BY <2>6, <2>7
<1> HIDE DEF lead
<1>3. IsFiniteSet(lead \cap those)
  <2>1. lead \cap those \in SUBSET {"resultado", "M&A", "regulacao", "guidance", "macro", "fato relevante"}
    BY <1>1
  <2> QED
    BY <1>2, <2>1, FS_Subset
<1>4. N!Cardinality(lead \cap those) \in Int
  BY <1>3, LabelsInt
<1> QED
  BY <1>4 DEF N!Heavy, lead

LEMMA WeightInt == ASSUME NEW labels PROVE N!Weight(labels) \in Int
<1> DEFINE a == N!Heavy(labels, {"resultado", "M&A"})
           b == N!Heavy(labels, {"guidance", "regulacao"})
           c == N!Heavy(labels, {"fato relevante"})
           d == N!Heavy(labels, {"macro"})
<1>1. a \in Int /\ b \in Int /\ c \in Int /\ d \in Int
  BY HeavyInt
<1>2. N!Weight(labels) = 2000 * a + 1800 * b + 1600 * c + 1400 * d
  BY DEF N!Weight
<1> HIDE DEF a, b, c, d
<1> QED
  BY <1>1, <1>2

LEMMA RelevanceInt == ASSUME NEW r \in N!Raws PROVE N!Relevance(r) \in Int
<1> DEFINE base == 1000 + N!Weight(r.labels)
                   + (IF r.match = "text" THEN 1800 ELSE 0) + (IF r.sector THEN 800 ELSE 0) + (IF r.detailed THEN 500 ELSE 0)
<1>1. base \in Int
  BY WeightInt
<1>2. N!Relevance(r) = N!Capped((base * 60 + N!Confidence(r) * 40) \div 100)
  BY DEF N!Relevance
<1> HIDE DEF base
<1>3. (base * 60 + N!Confidence(r) * 40) \div 100 \in Int
  BY <1>1, ConfidenceInt
<1> QED
  BY <1>2, <1>3, CappedInt

LEMMA AdjustedInt ==
    ASSUME NEW score \in Int, NEW r \in N!Raws, NEW direct \in Int, NEW ambiguous \in Int, NEW perStory \in Int,
           NEW atMost \in Int, NEW stories \in Int
    PROVE  N!Adjusted(score, r, direct, ambiguous, perStory, atMost, stories) \in Int
<1> DEFINE a == ((N!Directness(r) - 5000) * direct) \div 100
           b == (N!Ambiguity(r) * ambiguous) \div 100
           c == IF stories >= 2 THEN N!Least(atMost, (stories - 1) * perStory) ELSE 0
<1>1. a \in Int /\ b \in Int
  BY DirectnessInt, AmbiguityInt
<1>2. (stories - 1) * perStory \in Int
  OBVIOUS
<1>3. c \in Int
  BY <1>2, LeastInt
<1>4. N!Adjusted(score, r, direct, ambiguous, perStory, atMost, stories) = N!Capped(score + a - b + c)
  BY DEF N!Adjusted
<1> HIDE DEF a, b, c
<1>5. score + a - b + c \in Int
  BY <1>1, <1>3
<1> QED
  BY <1>4, <1>5, CappedInt

LEMMA ScoresInt ==
    ASSUME NEW r \in N!Raws, NEW score \in Int, NEW stories \in Int
    PROVE  N!Confident(score, r, stories) \in Int /\ N!Relevant(score, r, stories) \in Int
<1>1. N!Adjusted(score, r, 22, 18, 300, 1000, stories) \in Int
  BY AdjustedInt
<1>2. N!Adjusted(score, r, 16, 24, 200, 800, stories) \in Int
  BY AdjustedInt
<1> QED
  BY <1>1, <1>2 DEF N!Confident, N!Relevant

LEMMA RankingInt ==
    ASSUME NEW r \in N!Raws, NEW relevance \in Int, NEW confidence \in Int
    PROVE  N!Ranking(r, relevance, confidence) \in Int
<1>1. r.age \in Int
  BY StoryIs
<1>2. (IF 10000 - r.age * 800 < 2000 THEN 2000 ELSE 10000 - r.age * 800) \in Int
  BY <1>1
<1>3. N!Recency(r) \in Int
  BY <1>2, CappedInt DEF N!Recency
<1> QED
  BY <1>3 DEF N!Ranking

\* What the order of the cards looks at.
CardGood(c) ==
    /\ {"raw", "story", "useful", "confidence", "relevance", "ranking", "age"} \subseteq DOMAIN c
    /\ c.raw \in N!Raws /\ c.story \in N!Stories /\ c.age \in Int
    /\ c.confidence \in Int /\ c.relevance \in Int /\ c.ranking \in Int

LEMMA CardIs == ASSUME NEW r \in N!Raws, NEW ticker PROVE CardGood(N!Card(r, ticker))
<1> DEFINE c == N!Confident(N!Confidence(r), r, 1)
           v == N!Relevant(N!Relevance(r), r, 1)
           k == N!Ranking(r, v, c)
<1>1. c \in Int /\ v \in Int
  <2>1. N!Confidence(r) \in Int /\ N!Relevance(r) \in Int
    BY ConfidenceInt, RelevanceInt
  <2> QED
    BY <2>1, ScoresInt
<1>2. k \in Int
  <2> HIDE DEF c, v
  <2> QED
    BY <1>1, RankingInt
<1> DEFINE card == N!Card(r, ticker)
<1>3. /\ {"raw", "story", "useful", "confidence", "relevance", "ranking", "age"} \subseteq DOMAIN card
      /\ card.raw = r /\ card.story = r.story /\ card.age = r.age
      /\ card.confidence = c /\ card.relevance = v /\ card.ranking = k
  BY DEF N!Card
<1> HIDE DEF c, v, k, card
<1>4. CardGood(card)
  BY <1>1, <1>2, <1>3, StoryIs DEF CardGood
<1> QED
  BY <1>4 DEF card

\* A cluster speaks with a card of the same story.
LEMMA SpokenIs ==
    ASSUME NEW cluster, CardGood(cluster.canon), Len(cluster.cards) \in Int
    PROVE  /\ CardGood(N!Spoken(cluster))
           /\ N!Spoken(cluster).story = cluster.canon.story /\ N!Spoken(cluster).useful = cluster.canon.useful
<1> DEFINE c == cluster.canon
           n == Len(cluster.cards)
           confidence == N!Confident(c.confidence, c.raw, n)
           relevance == N!Relevant(c.relevance, c.raw, n)
           ranking == N!Ranking(c.raw, relevance, confidence)
           sources == UNION {x.sources : x \in N!ToSet(cluster.cards)}
           tone == N!Tone(c.raw, sources)
           spoken == [c EXCEPT !.stories = n, !.sources = sources, !.tone = tone,
                               !.confidence = confidence, !.relevance = relevance, !.ranking = ranking]
<1>1. confidence \in Int /\ relevance \in Int
  BY ScoresInt DEF CardGood
<1>2. ranking \in Int
  <2> HIDE DEF confidence, relevance
  <2> QED
    BY <1>1, RankingInt DEF CardGood
<1>3. N!Spoken(cluster) = spoken
  BY DEF N!Spoken
<1> HIDE DEF confidence, relevance, ranking, sources, tone
<1>4. {"raw", "story", "useful", "confidence", "relevance", "ranking", "age"} \subseteq DOMAIN spoken
  BY DEF CardGood
<1>5. spoken.raw = c.raw /\ spoken.story = c.story /\ spoken.age = c.age
  BY DEF CardGood
<1>6. spoken.useful = c.useful
  BY DEF CardGood
<1>7. spoken.confidence = confidence /\ spoken.relevance = relevance /\ spoken.ranking = ranking
  BY DEF CardGood
<1> HIDE DEF spoken
<1>8. CardGood(spoken)
  BY <1>1, <1>2, <1>4, <1>5, <1>7 DEF CardGood
<1> QED
  BY <1>3, <1>5, <1>6, <1>8

---------------------------------------------------------------------------
(* The feed of news: clusters.  The cluster whose card speaks for a story is *)
(* the one the index has for that story, and there is one index.             *)

Told == {N!Card(r, Ticker) : r \in N!Raws}
ClusterOf == [canon : Told, cards : Seq(Told), words : SUBSET N!Words]

ClustersGood(s) ==
    /\ {"list", "byStory", "byWord"} \subseteq DOMAIN s
    /\ s.list \in Seq(ClusterOf)
    /\ s.byStory \in [N!Stories -> 0..Len(s.list)]
    /\ s.byWord \in [N!Words -> Seq(1..Len(s.list))]
    /\ \A i \in 1..Len(s.list) : s.list[i].canon.useful => s.byStory[s.list[i].canon.story] = i

LEMMA ToldGood ==
    ASSUME NEW c \in Told
    PROVE  CardGood(c) /\ c.story \in N!Stories /\ c.raw.words \in SUBSET Nat /\ c.raw.words \in SUBSET N!Words
<1>1. PICK r \in N!Raws : c = N!Card(r, Ticker)
  BY DEF Told
<1>2. CardGood(c)
  BY <1>1, CardIs
<1>3. c.raw \in N!Raws /\ c.story \in N!Stories
  BY <1>2 DEF CardGood
<1> QED
  BY <1>2, <1>3, StoryIs

LEMMA SmallestIs == ASSUME NEW S \in SUBSET Nat, S # {} PROVE N!Smallest(S) \in S
BY LeastOne DEF N!Smallest

LEMMA ByWordsIs ==
    ASSUME NEW s, ClustersGood(s), NEW card \in Told
    PROVE  N!ByWords(s, card) \in 0..Len(s.list)
<1> DEFINE shared == {w \in card.raw.words : N!Hits(s, card, w) # {}}
           w == N!Smallest(shared)
           k == N!Smallest(N!Hits(s, card, w))
<1>1. Len(s.list) \in Nat /\ s.byWord \in [N!Words -> Seq(1..Len(s.list))]
  BY DEF ClustersGood
<1>2. N!ByWords(s, card) = IF shared = {} THEN 0 ELSE s.byWord[w][k]
  BY DEF N!ByWords
<1>3. CASE shared # {}
  <2>1. shared \in SUBSET Nat
    BY ToldGood
  <2>2. w \in shared
    <3> HIDE DEF shared
    <3> QED
      BY <1>3, <2>1, SmallestIs
  <2>3. w \in N!Words /\ N!Hits(s, card, w) # {}
    <3>1. w \in card.raw.words /\ N!Hits(s, card, w) # {}
      BY <2>2
    <3> QED
      BY <3>1, ToldGood
  <2> HIDE DEF shared, w
  <2>4. s.byWord[w] \in Seq(1..Len(s.list))
    BY <1>1, <2>3
  <2>5. N!Hits(s, card, w) \in SUBSET Nat /\ N!Hits(s, card, w) \subseteq DOMAIN s.byWord[w]
    BY <2>4 DEF N!Hits
  <2>6. k \in N!Hits(s, card, w)
    BY <2>3, <2>5, SmallestIs
  <2>7. k \in DOMAIN s.byWord[w]
    BY <2>5, <2>6
  <2> HIDE DEF k
  <2>8. s.byWord[w][k] \in 1..Len(s.list)
    BY <2>4, <2>7
  <2> QED
    BY <1>1, <1>2, <1>3, <2>8 DEF shared, w
<1>4. CASE shared = {}
  BY <1>1, <1>2, <1>4
<1> QED
  BY <1>3, <1>4

\* A card is put to the cluster that speaks for its story, if one does.
LEMMA FoundIs ==
    ASSUME NEW s, ClustersGood(s), NEW card \in Told
    PROVE  /\ N!Found(s, card) \in 0..Len(s.list)
           /\ \A i \in 1..Len(s.list) :
                  s.list[i].canon.useful /\ s.list[i].canon.story = card.story => N!Found(s, card) = i
<1> DEFINE last == s.byStory[card.story]
<1>1. last \in 0..Len(s.list)
  BY ToldGood DEF ClustersGood
<1>2. N!Found(s, card) = IF last # 0 /\ N!Same(card, s.list[last].canon) THEN last ELSE N!ByWords(s, card)
  BY DEF N!Found
<1>3. N!ByWords(s, card) \in 0..Len(s.list)
  BY ByWordsIs
<1>4. ASSUME NEW i \in 1..Len(s.list), s.list[i].canon.useful, s.list[i].canon.story = card.story PROVE N!Found(s, card) = i
  <2>1. last = i
    BY <1>4 DEF ClustersGood
  <2>2. N!Same(card, s.list[i].canon)
    BY <1>4 DEF N!Same
  <2>3. i # 0
    BY <1>4
  <2> HIDE DEF last
  <2> QED
    BY <1>2, <2>1, <2>2, <2>3
<1> HIDE DEF last
<1> QED
  BY <1>1, <1>2, <1>3, <1>4

LEMMA WiderSeq ==
    ASSUME NEW n \in Nat, NEW m \in Nat, n <= m, NEW q \in Seq(1..n)
    PROVE  q \in Seq(1..m)
<1>1. Len(q) \in Nat /\ q = [k \in 1..Len(q) |-> q[k]] /\ \A k \in 1..Len(q) : q[k] \in 1..m
  OBVIOUS
<1> QED
  BY <1>1

LEMMA IndexedIs ==
    ASSUME NEW s, ClustersGood(s), NEW list \in Seq(ClusterOf), NEW card \in Told, NEW i \in 1..Len(list), NEW words,
           Len(s.list) <= Len(list),
           \A k \in 1..Len(list) : k # i /\ list[k].canon.useful =>
               k \in 1..Len(s.list) /\ list[k].canon = s.list[k].canon /\ list[k].canon.story # card.story,
           list[i].canon.useful => list[i].canon.story = card.story \/ s.byStory[list[i].canon.story] = i
    PROVE  ClustersGood(N!Indexed(s, list, card, i, words))
<1> DEFINE t == N!Indexed(s, list, card, i, words)
<1>1. /\ {"list", "byStory", "byWord"} \subseteq DOMAIN t /\ t.list = list
      /\ t.byStory = [s.byStory EXCEPT ![card.story] = i]
      /\ t.byWord = [w \in N!Words |-> IF w \in words THEN Append(s.byWord[w], i) ELSE s.byWord[w]]
  BY DEF N!Indexed
<1> HIDE DEF t
<1>2. Len(list) \in Nat /\ Len(s.list) \in Nat
  BY DEF ClustersGood
<1>3. s.byStory \in [N!Stories -> 0..Len(s.list)] /\ s.byWord \in [N!Words -> Seq(1..Len(s.list))]
  BY DEF ClustersGood
<1>4. card.story \in N!Stories
  BY ToldGood
<1>5. t.byStory \in [N!Stories -> 0..Len(list)]
  <2>1. \A st \in N!Stories : s.byStory[st] \in 0..Len(list)
    BY <1>2, <1>3
  <2>2. i \in 0..Len(list)
    BY <1>2
  <2> QED
    BY <1>1, <1>3, <2>1, <2>2
<1>6. t.byWord \in [N!Words -> Seq(1..Len(list))]
  <2>1. ASSUME NEW w \in N!Words PROVE (IF w \in words THEN Append(s.byWord[w], i) ELSE s.byWord[w]) \in Seq(1..Len(list))
    <3>1. s.byWord[w] \in Seq(1..Len(s.list))
      BY <1>3
    <3> DEFINE q == s.byWord[w]
    <3>2. q \in Seq(1..Len(list))
      BY <1>2, <3>1, WiderSeq
    <3> HIDE DEF q
    <3>3. Append(q, i) \in Seq(1..Len(list))
      BY <3>2
    <3>4. (IF w \in words THEN Append(q, i) ELSE q) \in Seq(1..Len(list))
      BY <3>2, <3>3
    <3> QED
      BY <3>4 DEF q
  <2> QED
    BY <1>1, <2>1
<1>7. ASSUME NEW k \in 1..Len(list), list[k].canon.useful PROVE t.byStory[list[k].canon.story] = k
  <2>1. list[k] \in ClusterOf
    OBVIOUS
  <2>2. list[k].canon.story \in N!Stories
    BY <2>1, ToldGood DEF ClusterOf
  <2>3. CASE k = i
    BY <1>1, <1>3, <1>7, <2>2, <2>3
  <2>4. CASE k # i
    <3>1. k \in 1..Len(s.list) /\ list[k].canon = s.list[k].canon /\ list[k].canon.story # card.story
      BY <1>7, <2>4
    <3>2. s.byStory[list[k].canon.story] = k
      BY <1>7, <3>1 DEF ClustersGood
    <3> QED
      BY <1>1, <1>3, <2>2, <3>1, <3>2
  <2> QED
    BY <2>3, <2>4
<1>8. ClustersGood(t)
  BY <1>1, <1>5, <1>6, <1>7 DEF ClustersGood
<1> QED
  BY <1>8 DEF t

LEMMA AloneIs ==
    ASSUME NEW card \in Told, NEW words \in SUBSET N!Words
    PROVE  N!Alone(card, words) \in ClusterOf /\ N!Alone(card, words).canon = card
BY DEF N!Alone, ClusterOf

LEMMA JoinedIs ==
    ASSUME NEW cluster \in ClusterOf, NEW card \in Told
    PROVE  N!Joined(cluster, card) \in ClusterOf /\ N!Joined(cluster, card).canon \in {card, cluster.canon}
<1>1. card.raw.words \in SUBSET N!Words
  BY ToldGood
<1>2. cluster.canon \in Told /\ cluster.cards \in Seq(Told) /\ cluster.words \in SUBSET N!Words
  BY DEF ClusterOf
<1>3. Append(cluster.cards, card) \in Seq(Told) /\ cluster.words \cup card.raw.words \in SUBSET N!Words
  BY <1>1, <1>2
<1>4. (IF card.ranking > cluster.canon.ranking THEN card ELSE cluster.canon) \in {card, cluster.canon}
  OBVIOUS
<1> QED
  BY <1>2, <1>3, <1>4 DEF N!Joined, ClusterOf

LEMMA ClusteredKeeps ==
    ASSUME NEW s, ClustersGood(s), NEW card \in Told
    PROVE  ClustersGood(N!Clustered(s, card))
<1> DEFINE i == N!Found(s, card)
           n == Len(s.list)
<1>1. n \in Nat /\ s.list \in Seq(ClusterOf)
  BY DEF ClustersGood
<1>2. i \in 0..n /\ \A k \in 1..n : s.list[k].canon.useful /\ s.list[k].canon.story = card.story => i = k
  BY FoundIs
<1>3. N!Clustered(s, card) =
          IF ~card.useful THEN [s EXCEPT !.list = Append(s.list, N!Alone(card, {}))]
          ELSE IF i = 0 THEN N!Indexed(s, Append(s.list, N!Alone(card, card.raw.words)), card, n + 1, card.raw.words)
          ELSE N!Indexed(s, [s.list EXCEPT ![i] = N!Joined(s.list[i], card)], card, i, card.raw.words \ s.list[i].words)
  <2>1. {"list", "byStory", "byWord"} \subseteq DOMAIN s
    BY DEF ClustersGood
  <2> QED
    BY <1>2, <2>1 DEF N!Clustered
<1> HIDE DEF i
<1>4. CASE ~card.useful
  <2> DEFINE list == Append(s.list, N!Alone(card, {}))
             t == [s EXCEPT !.list = list]
  <2>1. N!Alone(card, {}) \in ClusterOf /\ N!Alone(card, {}).canon = card
    BY AloneIs
  <2>2. list \in Seq(ClusterOf) /\ Len(list) = n + 1
    BY <1>1, <2>1
  <2>3. \A k \in 1..n : list[k] = s.list[k]
    BY <1>1
  <2>4. list[n + 1].canon = card
    BY <1>1, <2>1
  <2> HIDE DEF list
  <2>5. {"list", "byStory", "byWord"} \subseteq DOMAIN t /\ t.list = list /\ t.byStory = s.byStory /\ t.byWord = s.byWord
    BY DEF ClustersGood
  <2> HIDE DEF t
  <2>6. s.byStory \in [N!Stories -> 0..n] /\ s.byWord \in [N!Words -> Seq(1..n)]
    BY DEF ClustersGood
  <2>7. t.byStory \in [N!Stories -> 0..Len(list)]
    BY <1>1, <2>2, <2>5, <2>6
  <2>8. t.byWord \in [N!Words -> Seq(1..Len(list))]
    <3>1. ASSUME NEW w \in N!Words PROVE s.byWord[w] \in Seq(1..n + 1)
      <4>1. s.byWord[w] \in Seq(1..n) /\ n + 1 \in Nat /\ n <= n + 1
        BY <1>1, <2>6
      <4> QED
        BY <1>1, <4>1, WiderSeq
    <3> QED
      BY <2>2, <2>5, <2>6, <3>1
  <2>9. ASSUME NEW k \in 1..Len(list), list[k].canon.useful PROVE t.byStory[list[k].canon.story] = k
    <3>1. k # n + 1
      BY <1>4, <2>4, <2>9
    <3>2. k \in 1..n
      BY <1>1, <2>2, <3>1
    <3> QED
      BY <2>3, <2>5, <2>9, <3>2 DEF ClustersGood
  <2>10. ClustersGood(t)
    BY <2>2, <2>5, <2>7, <2>8, <2>9 DEF ClustersGood
  <2> QED
    BY <1>3, <1>4, <2>10 DEF t, list
<1>5. CASE card.useful /\ i = 0
  <2> DEFINE one == N!Alone(card, card.raw.words)
             list == Append(s.list, one)
  <2>1. one \in ClusterOf /\ one.canon = card
    BY AloneIs, ToldGood
  <2> HIDE DEF one
  <2>2. list \in Seq(ClusterOf) /\ Len(list) = n + 1
    BY <1>1, <2>1
  <2>3. \A k \in 1..n : list[k] = s.list[k]
    BY <1>1
  <2>4. list[n + 1].canon = card
    BY <1>1, <2>1
  <2> HIDE DEF list
  <2>5. ASSUME NEW k \in 1..Len(list), k # n + 1, list[k].canon.useful
        PROVE  k \in 1..n /\ list[k].canon = s.list[k].canon /\ list[k].canon.story # card.story
    <3>1. k \in 1..n
      BY <1>1, <2>2, <2>5
    <3> QED
      BY <1>2, <1>5, <2>3, <2>5, <3>1
  <2>6. n + 1 \in 1..Len(list) /\ n <= Len(list)
    BY <1>1, <2>2
  <2>7. list[n + 1].canon.story = card.story
    BY <2>4
  <2>8. ClustersGood(N!Indexed(s, list, card, n + 1, card.raw.words))
    BY <2>2, <2>5, <2>6, <2>7, IndexedIs
  <2> QED
    BY <1>3, <1>5, <2>8 DEF list, one
<1>6. CASE card.useful /\ i # 0
  <2> DEFINE one == N!Joined(s.list[i], card)
             list == [s.list EXCEPT ![i] = one]
             words == card.raw.words \ s.list[i].words
  <2>1. i \in 1..n
    BY <1>1, <1>2, <1>6
  <2>2. s.list[i] \in ClusterOf
    BY <1>1, <2>1
  <2>3. one \in ClusterOf /\ one.canon \in {card, s.list[i].canon}
    BY <2>2, JoinedIs
  <2> HIDE DEF one, words
  <2>4. list \in Seq(ClusterOf) /\ Len(list) = n
    BY <1>1, <2>1, <2>3
  <2>5. list[i] = one /\ \A k \in 1..n : k # i => list[k] = s.list[k]
    BY <1>1, <2>1
  <2> HIDE DEF list
  <2>6. ASSUME NEW k \in 1..Len(list), k # i, list[k].canon.useful
        PROVE  k \in 1..n /\ list[k].canon = s.list[k].canon /\ list[k].canon.story # card.story
    BY <1>2, <2>4, <2>5, <2>6
  <2>7. ASSUME list[i].canon.useful PROVE list[i].canon.story = card.story \/ s.byStory[list[i].canon.story] = i
    <3>1. list[i].canon = card \/ list[i].canon = s.list[i].canon
      BY <2>3, <2>5
    <3> QED
      BY <2>1, <2>7, <3>1 DEF ClustersGood
  <2>8. i \in 1..Len(list) /\ n <= Len(list)
    BY <1>1, <2>1, <2>4
  <2>9. ClustersGood(N!Indexed(s, list, card, i, words))
    BY <2>4, <2>6, <2>7, <2>8, IndexedIs
  <2> QED
    BY <1>3, <1>6, <2>9 DEF list, one, words
<1> QED
  BY <1>4, <1>5, <1>6

---------------------------------------------------------------------------
(* The feed of news: from the stories to the cards.                          *)

LEMMA ClustersUpTo ==
    ASSUME NEW cards, Len(cards) \in Nat
    PROVE  \E f : f = [n \in 0..Len(cards) |-> IF n = 0 THEN N!NoClusters ELSE N!Clustered(f[n - 1], cards[n])]
<1> DEFINE Good(m) == \E f : f = [n \in 0..m |-> IF n = 0 THEN N!NoClusters ELSE N!Clustered(f[n - 1], cards[n])]
           S == {m \in Nat : Good(m)}
<1>1. 0 \in S
  <2> DEFINE f == [n \in 0..0 |-> N!NoClusters]
  <2>1. f = [n \in 0..0 |-> IF n = 0 THEN N!NoClusters ELSE N!Clustered(f[n - 1], cards[n])]
    OBVIOUS
  <2> QED
    BY <2>1
<1>2. ASSUME NEW m \in S PROVE m + 1 \in S
  <2>1. m \in Nat
    OBVIOUS
  <2>2. PICK f : f = [n \in 0..m |-> IF n = 0 THEN N!NoClusters ELSE N!Clustered(f[n - 1], cards[n])]
    OBVIOUS
  <2> DEFINE g == [n \in 0..m + 1 |-> IF n = m + 1 THEN N!Clustered(f[m], cards[m + 1]) ELSE f[n]]
  <2>3. \A n \in 0..m + 1 : g[n] = IF n = m + 1 THEN N!Clustered(f[m], cards[m + 1]) ELSE f[n]
    OBVIOUS
  <2>4. g = [n \in 0..m + 1 |-> g[n]]
    OBVIOUS
  <2> HIDE DEF g
  <2>5. ASSUME NEW n \in 0..m + 1 PROVE g[n] = IF n = 0 THEN N!NoClusters ELSE N!Clustered(g[n - 1], cards[n])
    <3>1. CASE n = m + 1
      <4>1. g[n] = N!Clustered(f[m], cards[m + 1]) /\ g[n - 1] = f[m] /\ n # 0
        BY <2>1, <2>3, <3>1
      <4> QED
        BY <2>1, <3>1, <4>1
    <3>2. CASE n # m + 1 /\ n # 0
      <4>1. n \in 0..m /\ n - 1 \in 0..m /\ n - 1 \in 0..m + 1 /\ n - 1 # m + 1
        BY <2>1, <3>2
      <4>2. g[n] = f[n] /\ g[n - 1] = f[n - 1]
        BY <2>3, <3>2, <4>1
      <4>3. f[n] = N!Clustered(f[n - 1], cards[n])
        BY <2>2, <3>2, <4>1
      <4> QED
        BY <3>2, <4>2, <4>3
    <3>3. CASE n # m + 1 /\ n = 0
      <4>1. n \in 0..m
        BY <2>1, <3>3
      <4> QED
        BY <2>2, <2>3, <3>3, <4>1
    <3> QED
      BY <3>1, <3>2, <3>3
  <2>6. g = [n \in 0..m + 1 |-> IF n = 0 THEN N!NoClusters ELSE N!Clustered(g[n - 1], cards[n])]
    BY <2>4, <2>5
  <2>7. Good(m + 1)
    BY <2>6, Zenon
  <2> HIDE DEF Good
  <2> QED
    BY <2>1, <2>7
<1>3. S \in SUBSET Nat
  OBVIOUS
<1> HIDE DEF S
<1>4. Nat \subseteq S
  BY <1>1, <1>2, <1>3, NatSets
<1> QED
  BY <1>4 DEF S

LEMMA NoClustersGood == ClustersGood(N!NoClusters)
<1>1. /\ {"list", "byStory", "byWord"} \subseteq DOMAIN N!NoClusters /\ N!NoClusters.list = <<>>
      /\ N!NoClusters.byStory = [st \in N!Stories |-> 0] /\ N!NoClusters.byWord = [w \in N!Words |-> <<>>]
  BY DEF N!NoClusters
<1>2. <<>> \in Seq(ClusterOf) /\ <<>> \in Seq(1..0) /\ Len(<<>>) = 0
  OBVIOUS
<1> QED
  BY <1>1, <1>2 DEF ClustersGood

\* No two useful cards of a list tell the same story.
NoTwins(cards) ==
    \A i, j \in 1..Len(cards) : i # j /\ cards[i].useful /\ cards[j].useful => cards[i].story # cards[j].story

LEMMA DrawnNoTwins ==
    ASSUME NEW r, NEW s, Drawn(r, s), NoTwins(s)
    PROVE  NoTwins(r)
<1>1. PICK m \in [1..Len(r) -> 1..Len(s)] :
          (\A i, j \in 1..Len(r) : m[i] = m[j] => i = j) /\ \A k \in 1..Len(r) : r[k] = s[m[k]]
  BY DEF Drawn
<1> SUFFICES ASSUME NEW i \in 1..Len(r), NEW j \in 1..Len(r), i # j, r[i].useful, r[j].useful PROVE r[i].story # r[j].story
  BY DEF NoTwins
<1>2. m[i] \in 1..Len(s) /\ m[j] \in 1..Len(s) /\ m[i] # m[j] /\ r[i] = s[m[i]] /\ r[j] = s[m[j]]
  BY <1>1
<1> QED
  BY <1>2 DEF NoTwins

LEMMA ClustersAre ==
    ASSUME NEW cards \in Seq(Told)
    PROVE  N!Clusters(cards) \in Seq(ClusterOf)
           /\ \A i, j \in 1..Len(N!Clusters(cards)) :
                  i # j /\ N!Clusters(cards)[i].canon.useful /\ N!Clusters(cards)[j].canon.useful
                      => N!Clusters(cards)[i].canon.story # N!Clusters(cards)[j].canon.story
<1> DEFINE L == Len(cards)
           upTo == CHOOSE f : f = [n \in 0..L |-> IF n = 0 THEN N!NoClusters ELSE N!Clustered(f[n - 1], cards[n])]
           S == {n \in Nat : n <= L => ClustersGood(upTo[n])}
<1>1. L \in Nat /\ \A n \in 1..L : cards[n] \in Told
  OBVIOUS
<1>2. N!Clusters(cards) = upTo[L].list
  BY DEF N!Clusters
<1>3. upTo = [n \in 0..L |-> IF n = 0 THEN N!NoClusters ELSE N!Clustered(upTo[n - 1], cards[n])]
  <2>1. \E f : f = [n \in 0..L |-> IF n = 0 THEN N!NoClusters ELSE N!Clustered(f[n - 1], cards[n])]
    BY <1>1, ClustersUpTo
  <2> QED
    BY <2>1, Zenon
<1> HIDE DEF upTo, L
<1>4. upTo[0] = N!NoClusters
  BY <1>1, <1>3
<1>5. ASSUME NEW n \in Nat, n + 1 <= L PROVE upTo[n + 1] = N!Clustered(upTo[n], cards[n + 1])
  <2>1. n + 1 \in 0..L /\ n + 1 # 0 /\ (n + 1) - 1 = n
    BY <1>1, <1>5
  <2> QED
    BY <1>3, <2>1
<1>6. 0 \in S
  BY <1>4, NoClustersGood
<1>7. ASSUME NEW n \in S PROVE n + 1 \in S
  <2>1. n \in Nat /\ (n <= L => ClustersGood(upTo[n]))
    OBVIOUS
  <2>2. ASSUME n + 1 <= L PROVE ClustersGood(upTo[n + 1])
    <3>1. n <= L /\ n + 1 \in 1..L
      BY <1>1, <2>1, <2>2
    <3>2. ClustersGood(upTo[n]) /\ cards[n + 1] \in Told
      BY <1>1, <2>1, <3>1
    <3>3. ClustersGood(N!Clustered(upTo[n], cards[n + 1]))
      BY <3>2, ClusteredKeeps
    <3> QED
      BY <1>5, <2>1, <2>2, <3>3
  <2> QED
    BY <2>1, <2>2
<1>8. S \in SUBSET Nat
  OBVIOUS
<1> HIDE DEF S
<1>9. L \in S
  BY <1>1, <1>6, <1>7, <1>8, NatSets
<1>10. ClustersGood(upTo[L])
  BY <1>1, <1>9 DEF S
<1> DEFINE list == upTo[L].list
           byStory == upTo[L].byStory
<1>11. list \in Seq(ClusterOf) /\ \A i \in 1..Len(list) : list[i].canon.useful => byStory[list[i].canon.story] = i
  BY <1>10 DEF ClustersGood
<1>12. N!Clusters(cards) = list
  BY <1>2
<1> HIDE DEF list, byStory
<1> QED
  BY <1>11, <1>12

LEMMA TimeInt == ASSUME NEW c, CardGood(c) PROVE N!Time(c) \in Int
BY DEF CardGood, N!Time

LEMMA ByTimeIs ==
    ASSUME NEW S, NEW s \in Seq(S), \A c \in S : CardGood(c)
    PROVE  N!ByTime(s) \in Seq(S) /\ Drawn(N!ByTime(s), s)
<1> DEFINE keys == [i \in DOMAIN s |-> <<N!Time(s[i]), s[i].ranking>>]
<1>1. ASSUME NEW i \in 1..Len(s) PROVE <<N!Time(s[i]), s[i].ranking>> \in [1..2 -> Int]
  <2>1. CardGood(s[i])
    OBVIOUS
  <2>2. N!Time(s[i]) \in Int /\ s[i].ranking \in Int
    BY <2>1, TimeInt DEF CardGood
  <2> QED
    BY <2>2
<1>2. keys \in [1..Len(s) -> [1..2 -> Int]]
  BY <1>1
<1>3. N!ByTime(s) = N!Ranked(s, keys)
  BY DEF N!ByTime
<1> HIDE DEF keys
<1> QED
  BY <1>2, <1>3, RankedIs

LEMMA PriorityIs == ASSUME NEW c, CardGood(c) PROVE N!Priority(c) \in [1..7 -> Int]
<1> DEFINE a == IF c.useful THEN 1 ELSE 0
           b == IF N!Direct(c.raw) THEN 1 ELSE 0
           d == (IF c.raw.labels \cap N!Editorials # {} THEN 2 ELSE 0) - (IF "macro" \in c.raw.labels /\ ~N!Direct(c.raw) THEN 1 ELSE 0)
<1>1. a \in Int /\ b \in Int /\ d \in Int
  OBVIOUS
<1>2. N!Priority(c) = <<a, b, d, c.relevance, c.confidence, c.ranking, N!Time(c)>>
  BY DEF N!Priority
<1>3. c.relevance \in Int /\ c.confidence \in Int /\ c.ranking \in Int /\ N!Time(c) \in Int
  BY TimeInt DEF CardGood
<1> HIDE DEF a, b, d
<1> QED
  BY <1>1, <1>2, <1>3

LEMMA CardsAre ==
    ASSUME NEW rs \in Seq(N!Raws)
    PROVE  N!Cards(rs) \in Seq(Told)
<1> DEFINE I == {i \in DOMAIN rs : rs[i].title \/ rs[i].summary}
           told == N!Picked(rs, I)
           prepared == N!FirstOf(told, [i \in DOMAIN told |-> told[i].signature])
           J == {i \in DOMAIN prepared : prepared[i].title}
           titled == N!Picked(prepared, J)
           cards == [i \in DOMAIN titled |-> N!Card(titled[i], Ticker)]
<1>1. I \in SUBSET (1..Len(rs))
  OBVIOUS
<1>2. N!Cards(rs) = N!ByTime(cards)
  BY DEF N!Cards, N!Prepared
<1> HIDE DEF I
<1>3. told \in Seq(N!Raws)
  BY <1>1, PickedIs
<1> HIDE DEF told
<1>4. prepared \in Seq(N!Raws)
  BY <1>3, FirstOfIs
<1> HIDE DEF prepared
<1>5. J \in SUBSET (1..Len(prepared))
  BY <1>4
<1> HIDE DEF J
<1>6. titled \in Seq(N!Raws)
  BY <1>4, <1>5, PickedIs
<1> HIDE DEF titled
<1>7. cards \in Seq(Told)
  <2>1. \A i \in 1..Len(titled) : N!Card(titled[i], Ticker) \in Told
    BY <1>6 DEF Told
  <2>2. Len(titled) \in Nat /\ DOMAIN titled = 1..Len(titled)
    BY <1>6
  <2> QED
    BY <2>1, <2>2
<1> HIDE DEF cards
<1>8. \A c \in Told : CardGood(c)
  BY ToldGood
<1> QED
  BY <1>2, <1>7, <1>8, ByTimeIs

LEMMA FeedAlone ==
    ASSUME NEW rs \in Seq(N!Raws)
    PROVE  NoTwins(N!Feed(rs)) /\ DOMAIN N!Feed(rs) = 1..Len(N!Feed(rs))
<1> DEFINE clusters == N!Clusters(N!Cards(rs))
           spoken == [i \in DOMAIN clusters |-> N!Spoken(clusters[i])]
           keys == [i \in DOMAIN spoken |-> N!Priority(spoken[i])]
           ranked == N!Ranked(spoken, keys)
           first == N!FirstOf(ranked, [i \in DOMAIN ranked |-> ranked[i].id])
           few == N!Upto(first, FeedLimit)
           S == {N!Spoken(c) : c \in ClusterOf}
<1>1. N!Feed(rs) = N!ByTime(few)
  BY DEF N!Feed
<1>2. /\ clusters \in Seq(ClusterOf)
      /\ \A i, j \in 1..Len(clusters) :
             i # j /\ clusters[i].canon.useful /\ clusters[j].canon.useful => clusters[i].canon.story # clusters[j].canon.story
  BY CardsAre, ClustersAre
<1>3. \A c \in ClusterOf : /\ CardGood(N!Spoken(c))
                           /\ N!Spoken(c).story = c.canon.story /\ N!Spoken(c).useful = c.canon.useful
  <2> SUFFICES ASSUME NEW c \in ClusterOf
               PROVE  CardGood(N!Spoken(c)) /\ N!Spoken(c).story = c.canon.story /\ N!Spoken(c).useful = c.canon.useful
    OBVIOUS
  <2>1. c.canon \in Told /\ c.cards \in Seq(Told)
    BY DEF ClusterOf
  <2>2. CardGood(c.canon) /\ Len(c.cards) \in Int
    BY <2>1, ToldGood
  <2> QED
    BY <2>2, SpokenIs
<1> HIDE DEF clusters
<1>4. spoken \in Seq(S) /\ Len(spoken) = Len(clusters) /\ \A i \in 1..Len(clusters) : spoken[i] = N!Spoken(clusters[i])
  BY <1>2
<1>5. \A c \in S : CardGood(c)
  BY <1>3
<1>6. NoTwins(spoken)
  <2> SUFFICES ASSUME NEW i \in 1..Len(spoken), NEW j \in 1..Len(spoken), i # j, spoken[i].useful, spoken[j].useful
               PROVE  spoken[i].story # spoken[j].story
    BY DEF NoTwins
  <2>1. i \in 1..Len(clusters) /\ j \in 1..Len(clusters) /\ spoken[i] = N!Spoken(clusters[i]) /\ spoken[j] = N!Spoken(clusters[j])
    BY <1>4
  <2>2. clusters[i] \in ClusterOf /\ clusters[j] \in ClusterOf
    BY <1>2, <2>1
  <2> HIDE DEF spoken
  <2>3. /\ spoken[i].story = clusters[i].canon.story /\ spoken[j].story = clusters[j].canon.story
        /\ spoken[i].useful = clusters[i].canon.useful /\ spoken[j].useful = clusters[j].canon.useful
    BY <1>3, <2>1, <2>2
  <2> QED
    BY <1>2, <2>1, <2>3
<1> HIDE DEF spoken, S
<1>7. keys \in [1..Len(spoken) -> [1..7 -> Int]]
  <2>1. ASSUME NEW i \in 1..Len(spoken) PROVE N!Priority(spoken[i]) \in [1..7 -> Int]
    <3>1. CardGood(spoken[i])
      BY <1>4, <1>5
    <3> QED
      BY <3>1, PriorityIs
  <2>2. DOMAIN spoken = 1..Len(spoken)
    BY <1>4
  <2> QED
    BY <2>1, <2>2
<1> HIDE DEF keys
<1>8. ranked \in Seq(S) /\ Drawn(ranked, spoken)
  BY <1>4, <1>7, RankedIs
<1> HIDE DEF ranked
<1>9. first \in Seq(S) /\ Drawn(first, ranked)
  BY <1>8, FirstOfIs
<1> HIDE DEF first
<1>10. few \in Seq(S) /\ Drawn(few, first)
  BY <1>9, UptoIs, DeliveredStories
<1> HIDE DEF few
<1>11. N!ByTime(few) \in Seq(S) /\ Drawn(N!ByTime(few), few)
  BY <1>5, <1>10, ByTimeIs
<1>12. NoTwins(N!ByTime(few))
  BY <1>6, <1>8, <1>9, <1>10, <1>11, DrawnNoTwins
<1> QED
  BY <1>1, <1>11, <1>12

\* The invariant: what is delivered is one of the deliveries, and the feed of it
\* has no twins.
FeedInv == raws \in Deliveries /\ (feed # N!None => feed.cards = N!Feed(raws))

LEMMA DeliveryIs == ASSUME NEW d \in Deliveries PROVE d \in Seq(N!Raws)
<1>1. d \in Seq(ToSet(d))
  BY DeliveredStories
<1>2. \A i \in 1..Len(d) : d[i] \in N!Raws
  BY <1>1 DEF N!Raws, N!ToSet
<1>3. Len(d) \in Nat /\ d = [i \in 1..Len(d) |-> d[i]]
  BY <1>1
<1> QED
  BY <1>2, <1>3

LEMMA FeedStart == ChannelsInit => (part = "feed" => FeedInv)
<1> SUFFICES ASSUME ChannelsInit, part = "feed" PROVE FeedInv
  OBVIOUS
<1>1. N!Init
  BY DEF ChannelsInit, PartInit
<1> QED
  BY <1>1 DEF N!Init, FeedInv

LEMMA FeedStep == FeedInv /\ [N!Next]_(N!vars) => FeedInv'
<1> SUFFICES ASSUME FeedInv, [N!Next]_(N!vars) PROVE FeedInv'
  OBVIOUS
<1>1. CASE N!Build
  BY <1>1 DEF N!Build, FeedInv
<1>2. CASE N!Serve
  BY <1>2 DEF N!Serve, FeedInv
<1>3. CASE UNCHANGED N!vars
  BY <1>3 DEF N!vars, FeedInv
<1> QED
  BY <1>1, <1>2, <1>3 DEF N!Next

LEMMA FeedKeeps == [ChannelsNext]_all => UNCHANGED part /\ (part = "feed" => [N!Next]_(N!vars))
<1>1. CASE UNCHANGED all
  BY <1>1 DEF all, feedVars, N!vars
<1>2. CASE FeedMoves
  BY <1>2 DEF FeedMoves
<1>3. CASE RoomsMove
  BY <1>3 DEF RoomsMove
<1>4. CASE PushMoves
  BY <1>4 DEF PushMoves
<1>5. CASE TelegramMoves
  BY <1>5 DEF TelegramMoves
<1>6. CASE NewsMoves
  BY <1>6 DEF NewsMoves
<1>7. CASE BooksMove
  BY <1>7 DEF BooksMove
<1>8. CASE HistoryMoves
  BY <1>8 DEF HistoryMoves
<1>9. CASE PollsMove
  BY <1>9 DEF PollsMove
<1>10. CASE CommunityMoves
  BY <1>10 DEF CommunityMoves
<1>11. CASE LinksMove
  BY <1>11 DEF LinksMove
<1> QED
  BY <1>1, <1>2, <1>3, <1>4, <1>5, <1>6, <1>7, <1>8, <1>9, <1>10, <1>11 DEF ChannelsNext

\* Whatever stories the provider delivers, in whatever order, no two useful cards
\* of the feed tell the same one (_cluster_news, build_symbol_news_with_report).
THEOREM FeedHolds == ChannelsSpec => []OneCardPerStory
<1> DEFINE IInv == part = "feed" => FeedInv
<1>1. ChannelsInit => IInv
  BY FeedStart
<1>2. IInv /\ [ChannelsNext]_all => IInv'
  <2> SUFFICES ASSUME IInv, [ChannelsNext]_all PROVE IInv'
    OBVIOUS
  <2> QED
    BY FeedStep, FeedKeeps
<1>3. IInv => OneCardPerStory
  <2> SUFFICES ASSUME FeedInv PROVE N!OneCardPerStory
    BY DEF OneCardPerStory
  <2> SUFFICES ASSUME feed # N!None, NEW i \in DOMAIN feed.cards, NEW j \in DOMAIN feed.cards,
                      i # j, feed.cards[i].useful, feed.cards[j].useful
               PROVE  feed.cards[i].story # feed.cards[j].story
    BY DEF N!OneCardPerStory
  <2>1. feed.cards = N!Feed(raws) /\ raws \in Seq(N!Raws)
    BY DeliveryIs DEF FeedInv
  <2>2. NoTwins(feed.cards) /\ DOMAIN feed.cards = 1..Len(feed.cards)
    BY <2>1, FeedAlone
  <2> QED
    BY <2>2 DEF NoTwins
<1> QED
  BY <1>1, <1>2, <1>3, PTL DEF ChannelsSpec
=============================================================================
