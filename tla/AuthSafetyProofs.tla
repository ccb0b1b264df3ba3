-------------------------- MODULE AuthSafetyProofs --------------------------
(***************************************************************************)
(* What sign-in guarantees, proved from the types: unique addresses, a     *)
(* bound on the guesses, and sessions that follow the owner policy.        *)
(***************************************************************************)
EXTENDS AuthSessionProofs

-----------------------------------------------------------------------------
(* Addresses. *)

LEMMA EmailsUniqueInit == Init => EmailsUnique
BY AuthAssumption DEF Init, EmailsUnique

LEMMA EmailsUniqueStep == TypeInv /\ EmailsUnique /\ [Next]_vars => EmailsUnique'
<1> SUFFICES ASSUME TypeInv, EmailsUnique, [Next]_vars
             PROVE  EmailsUnique'
  OBVIOUS
<1>1. CASE \E r \in Reqs, u \in Users, e \in Emails : Register(r, u, e)
  <2>1. PICK u \in Users, e \in Emails : /\ Owner(e) = {}
                                         /\ email' = [email EXCEPT ![u] = e]
    BY <1>1 DEF Register
  <2>2. \A v \in Users : email[v] # e
    BY <2>1 DEF Owner
  <2> QED
    BY <2>1, <2>2 DEF EmailsUnique, TypeInv, TypeOK
<1>2. CASE \E r \in Reqs : ChangeCommit(r)
  <2>1. PICK r \in Reqs : ChangeCommit(r)
    BY <1>2
  <2>2. \A v \in Users : v # req[r].user => email[v] # Target(r)
    BY <2>1 DEF ChangeCommit, EmailFree, Owner
  <2>3. email' = [email EXCEPT ![req[r].user] = Target(r)]
    BY <2>1 DEF ChangeCommit
  <2> QED
    BY <2>2, <2>3 DEF EmailsUnique, TypeInv, TypeOK
<1>3. CASE UNCHANGED email
  BY <1>3 DEF EmailsUnique
<1>4. ASSUME NEW r \in Reqs, Ask(r)
      PROVE  UNCHANGED email \/ \E u \in Users, e \in Emails : Register(r, u, e)
  BY <1>4 DEF Ask, RequestCode, PasswordLogin, RequestEmailChange, StartCommit
<1>5. ASSUME NEW r \in Reqs, Verify(r)
      PROVE  UNCHANGED email \/ ChangeCommit(r)
  BY <1>5 DEF Verify, VerifyRead, VerifyCount, VerifyCompare, VerifyLogin, VerifyLoginRefused,
              RegisterSession, IssueCommit, ChangeBegin, ChangeRefused
<1>6. CASE ~\E r \in Reqs : Ask(r) \/ Verify(r)
  <2>1. UNCHANGED email
    BY <1>6 DEF Next, vars, Tick, Deliver, VerifyExpired, Logout, LogoutAll, GiveUp, SetEnabled
  <2> QED
    BY <1>3, <2>1
<1> QED
  BY <1>1, <1>2, <1>3, <1>4, <1>5, <1>6

\* No interleaving of registrations and changes of address, each of which looks
\* for another owner before it writes, gives one address to two accounts.
THEOREM EmailsStayUnique == Spec => []EmailsUnique
<1>1. Init => EmailsUnique
  BY EmailsUniqueInit
<1>2. TypeInv /\ EmailsUnique /\ [Next]_vars => EmailsUnique'
  BY EmailsUniqueStep
<1> QED
  BY <1>1, <1>2, TypeInvAlways, PTL DEF Spec

-----------------------------------------------------------------------------
(* Guesses. *)

\* The requests that have counted an attempt at c and not compared its code yet.
Counting(c) == {r \in Reqs : req[r].stage = "counted" /\ req[r].chal = c}

\* An attempt is counted before its code is compared, so the counter is ahead of
\* the comparisons by the requests in between.
CountedFirst ==
    \A c \in 1..Len(challenge) :
        /\ challenge[c].compared + Cardinality(Counting(c)) <= challenge[c].attempts
        /\ challenge[c].compared <= MaxAttempts

LEMMA CountingFinite ==
    ASSUME NEW c
    PROVE  IsFiniteSet(Counting(c)) /\ Cardinality(Counting(c)) \in Nat
<1>1. Counting(c) \subseteq Reqs
  BY DEF Counting
<1>2. IsFiniteSet(Reqs)
  BY AuthAssumption
<1> QED
  BY <1>1, <1>2, FS_Subset, FS_CardinalityType

\* A step that counts nothing new and moves no counter keeps the counters ahead.
LEMMA CountedFirstKept ==
    ASSUME TypeInv, TypeInv', CountedFirst,
           \A c \in 1..Len(challenge) : Counting(c)' \subseteq Counting(c),
           Len(challenge') = Len(challenge),
           \A c \in 1..Len(challenge) :
               /\ challenge'[c].attempts = challenge[c].attempts
               /\ challenge'[c].compared = challenge[c].compared
    PROVE  CountedFirst'
<1> SUFFICES ASSUME NEW c \in 1..Len(challenge')
             PROVE  /\ challenge'[c].compared + Cardinality(Counting(c)') <= challenge'[c].attempts
                    /\ challenge'[c].compared <= MaxAttempts
  BY DEF CountedFirst
<1>1. c \in 1..Len(challenge)
  OBVIOUS
<1>2. /\ Cardinality(Counting(c)') <= Cardinality(Counting(c))
      /\ Cardinality(Counting(c)') \in Nat /\ Cardinality(Counting(c)) \in Nat
  BY <1>1, CountingFinite, FS_Subset, FS_CardinalityType
<1>3. /\ challenge[c].compared \in Nat /\ challenge[c].attempts \in Nat
      /\ challenge'[c].compared = challenge[c].compared
      /\ challenge'[c].attempts = challenge[c].attempts
  BY <1>1, LensType DEF Challenge
<1>4. /\ challenge[c].compared + Cardinality(Counting(c)) <= challenge[c].attempts
      /\ challenge[c].compared <= MaxAttempts
  BY <1>1 DEF CountedFirst
<1> QED
  BY <1>2, <1>3, <1>4

LEMMA InvalidateKeeps ==
    ASSUME TypeInv, NEW chals, NEW c \in 1..Len(challenge)
    PROVE  /\ Invalidate(chals)[c].attempts = challenge[c].attempts
           /\ Invalidate(chals)[c].compared = challenge[c].compared
           /\ Invalidate(chals)[c].user = challenge[c].user
           /\ Invalidate(chals)[c].purpose = challenge[c].purpose
           /\ Invalidate(chals)[c].consumed = challenge[c].consumed
<1>1. challenge[c] \in Challenge /\ c \in DOMAIN challenge
  BY LensType
<1>2. CASE c \in chals /\ Open(c)
  <2>1. Invalidate(chals)[c] = [challenge[c] EXCEPT !.invalidated = TRUE,
                                                    !.delivery = "INVALIDATED"]
    BY <1>1, <1>2 DEF Invalidate
  <2> QED
    BY <1>1, <2>1 DEF Challenge
<1>3. CASE ~(c \in chals /\ Open(c))
  BY <1>1, <1>3 DEF Invalidate
<1> QED
  BY <1>2, <1>3

\* A request that does anything but count is not counting afterwards.
LEMMA CountingDrops ==
    ASSUME TypeInv, NEW r \in Reqs, NEW new, SetReq(r, new), new.stage # "counted", NEW c
    PROVE  Counting(c)' \subseteq Counting(c)
BY LensType DEF SetReq, Counting

LEMMA StartCommitCounts ==
    ASSUME TypeInv, TypeInv', CountedFirst, NEW r \in Reqs, StartCommit(r)
    PROVE  CountedFirst'
<1> DEFINE q == req[r]
<1>1. \A c : Counting(c)' \subseteq Counting(c)
  <2>1. SetReq(r, IdleReq) /\ IdleReq.stage # "counted"
    BY DEF StartCommit, IdleReq
  <2> QED
    BY <2>1, CountingDrops
<1>2. CASE q.user = None
  <2>1. UNCHANGED challenge
    BY <1>2 DEF StartCommit
  <2> QED
    BY <1>1, <2>1, CountedFirstKept
<1>3. CASE q.user # None
  <2> DEFINE inv == Invalidate(q.chals)
             new == [user |-> q.user, to |-> q.to, purpose |-> q.purpose, attempts |-> 0,
                     delivery |-> "PENDING", expires |-> now + CodeLife,
                     consumed |-> FALSE, invalidated |-> FALSE, compared |-> 0]
  <2>1. challenge' = Append(inv, new)
    BY <1>3 DEF StartCommit
  <2>2. inv \in Seq(Challenge) /\ Len(inv) = Len(challenge)
    BY LensType, InvalidateType
  <2>3. new.attempts = 0 /\ new.compared = 0
    OBVIOUS
  <2>4. \A c \in 1..Len(challenge) : /\ inv[c].attempts = challenge[c].attempts
                                     /\ inv[c].compared = challenge[c].compared
    BY InvalidateKeeps
  <2> HIDE DEF inv, new
  <2>5. /\ Len(challenge') = Len(challenge) + 1
        /\ challenge'[Len(challenge) + 1] = new
        /\ \A c \in 1..Len(challenge) : challenge'[c] = inv[c]
    BY <2>1, <2>2, LensType
  <2> SUFFICES ASSUME NEW c \in 1..Len(challenge')
               PROVE  /\ challenge'[c].compared + Cardinality(Counting(c)')
                             <= challenge'[c].attempts
                      /\ challenge'[c].compared <= MaxAttempts
    BY DEF CountedFirst
  <2>6. CASE c \in 1..Len(challenge)
    <3>1. /\ Cardinality(Counting(c)') <= Cardinality(Counting(c))
          /\ Cardinality(Counting(c)') \in Nat /\ Cardinality(Counting(c)) \in Nat
      BY <1>1, CountingFinite, FS_Subset, FS_CardinalityType
    <3>2. /\ challenge[c].compared \in Nat /\ challenge[c].attempts \in Nat
          /\ challenge'[c].compared = challenge[c].compared
          /\ challenge'[c].attempts = challenge[c].attempts
      BY <2>4, <2>5, <2>6, LensType DEF Challenge
    <3>3. /\ challenge[c].compared + Cardinality(Counting(c)) <= challenge[c].attempts
          /\ challenge[c].compared <= MaxAttempts
      BY <2>6 DEF CountedFirst
    <3> QED
      BY <3>1, <3>2, <3>3
  <2>7. CASE c = Len(challenge) + 1
    <3>1. Counting(c) = {}
      BY <2>7, LensType DEF Counting, TypeInv, StageOK, ReqOK
    <3>2. Counting(c)' = {}
      BY <1>1, <3>1
    <3>3. Cardinality(Counting(c)') = 0
      BY <3>2, FS_EmptySet
    <3> QED
      BY <2>3, <2>5, <2>7, <3>3, AuthAssumption
  <2> QED
    BY <2>5, <2>6, <2>7, LensType
<1> QED
  BY <1>2, <1>3

LEMMA VerifyCountCounts ==
    ASSUME TypeInv, TypeInv', CountedFirst, NEW r \in Reqs, VerifyCount(r)
    PROVE  CountedFirst'
<1>1. PICK k \in 1..Len(challenge) : k = req[r].chal /\ challenge[k] \in Challenge
  BY VerifyingOK DEF VerifyCount
<1> DEFINE row == [challenge[k] EXCEPT !.attempts = @ + 1]
<1>2. /\ row \in Challenge
      /\ row.attempts = challenge[k].attempts + 1 /\ row.compared = challenge[k].compared
  BY <1>1 DEF Challenge
<1>3. challenge' = [challenge EXCEPT ![k] = row]
  BY <1>1 DEF VerifyCount
<1> HIDE DEF row
<1>4. /\ Len(challenge') = Len(challenge) /\ challenge'[k] = row
      /\ \A c \in 1..Len(challenge) : c # k => challenge'[c] = challenge[c]
  BY <1>1, <1>2, <1>3, ChallengeStep
<1>5. req' = [req EXCEPT ![r] = [req[r] EXCEPT !.stage = "counted"]] /\ req[r].stage = "read"
  BY DEF VerifyCount, SetReq
<1>6. r \notin Counting(k) /\ Counting(k)' = Counting(k) \cup {r}
  BY <1>1, <1>5, LensType DEF Counting, Req
<1>7. Cardinality(Counting(k)') = Cardinality(Counting(k)) + 1
  BY <1>6, CountingFinite, FS_AddElement
<1>8. \A c : c # k => Counting(c)' \subseteq Counting(c)
  BY <1>1, <1>5, LensType DEF Counting, Req
<1> SUFFICES ASSUME NEW c \in 1..Len(challenge')
             PROVE  /\ challenge'[c].compared + Cardinality(Counting(c)')
                           <= challenge'[c].attempts
                    /\ challenge'[c].compared <= MaxAttempts
  BY DEF CountedFirst
<1>9. /\ c \in 1..Len(challenge)
      /\ challenge[c].compared \in Nat /\ challenge[c].attempts \in Nat
      /\ challenge[c].compared + Cardinality(Counting(c)) <= challenge[c].attempts
      /\ challenge[c].compared <= MaxAttempts
      /\ Cardinality(Counting(c)) \in Nat
  BY <1>4, LensType, CountingFinite DEF Challenge, CountedFirst
<1>10. CASE c = k
  BY <1>2, <1>4, <1>7, <1>9, <1>10
<1>11. CASE c # k
  <2>1. Cardinality(Counting(c)') <= Cardinality(Counting(c)) /\ Cardinality(Counting(c)') \in Nat
    BY <1>8, <1>11, CountingFinite, FS_Subset, FS_CardinalityType
  <2>2. challenge'[c] = challenge[c]
    BY <1>4, <1>9, <1>11
  <2> QED
    BY <1>9, <2>1, <2>2
<1> QED
  BY <1>10, <1>11

LEMMA VerifyCompareCounts ==
    ASSUME TypeInv, TypeInv', CountedFirst, NEW r \in Reqs, VerifyCompare(r)
    PROVE  CountedFirst'
<1>1. PICK k \in 1..Len(challenge) : k = req[r].chal /\ challenge[k] \in Challenge
  BY VerifyingOK DEF VerifyCompare
<1> DEFINE row == [challenge[k] EXCEPT !.compared = @ + 1]
           new == IF req[r].right THEN [req[r] EXCEPT !.stage = "compared"] ELSE IdleReq
<1>2. /\ row \in Challenge
      /\ row.attempts = challenge[k].attempts /\ row.compared = challenge[k].compared + 1
  BY SMTT(30), <1>1 DEF Challenge
<1>3. challenge' = [challenge EXCEPT ![k] = row]
  BY <1>1 DEF VerifyCompare
<1> HIDE DEF row
<1>4. /\ Len(challenge') = Len(challenge) /\ challenge'[k] = row
      /\ \A c \in 1..Len(challenge) : c # k => challenge'[c] = challenge[c]
  BY <1>1, <1>2, <1>3, ChallengeStep
<1>5. SetReq(r, new) /\ new.stage # "counted"
  BY LensType DEF VerifyCompare, IdleReq, Req
<1> HIDE DEF new
<1>6. \A c : Counting(c)' \subseteq Counting(c)
  BY <1>5, CountingDrops
<1>7. Counting(k)' \subseteq Counting(k) \ {r} /\ r \in Counting(k)
  BY <1>1, <1>5, LensType DEF Counting, SetReq, VerifyCompare
<1>8. Cardinality(Counting(k)') <= Cardinality(Counting(k)) - 1
  <2>1. /\ IsFiniteSet(Counting(k) \ {r})
        /\ Cardinality(Counting(k) \ {r}) = Cardinality(Counting(k)) - 1
    BY <1>7, CountingFinite, FS_RemoveElement
  <2> QED
    BY <1>7, <2>1, FS_Subset
<1> SUFFICES ASSUME NEW c \in 1..Len(challenge')
             PROVE  /\ challenge'[c].compared + Cardinality(Counting(c)')
                           <= challenge'[c].attempts
                    /\ challenge'[c].compared <= MaxAttempts
  BY DEF CountedFirst
<1>9. /\ c \in 1..Len(challenge)
      /\ challenge[c].compared \in Nat /\ challenge[c].attempts \in Nat
      /\ challenge[c].compared + Cardinality(Counting(c)) <= challenge[c].attempts
      /\ challenge[c].compared <= MaxAttempts
      /\ Cardinality(Counting(c)) \in Nat /\ Cardinality(Counting(c)') \in Nat
      /\ Cardinality(Counting(c)') <= Cardinality(Counting(c))
  BY <1>4, <1>6, LensType, CountingFinite, FS_Subset, FS_CardinalityType
     DEF Challenge, CountedFirst
<1>10. CASE c = k
  <2>1. challenge[k].attempts <= MaxAttempts
    BY <1>1 DEF VerifyCompare
  <2>2. MaxAttempts \in Nat
    BY AuthAssumption
  <2> QED
    BY SMTT(30), <1>2, <1>4, <1>8, <1>9, <1>10, <2>1, <2>2
<1>11. CASE c # k
  BY <1>4, <1>9, <1>11
<1> QED
  BY <1>10, <1>11

\* The steps that mark codes and neither count nor compare.
LEMMA MarkingCounts ==
    ASSUME TypeInv, TypeInv', CountedFirst,
           \/ UNCHANGED req
           \/ \E r \in Reqs : SetReq(r, IdleReq),
           Len(challenge') = Len(challenge),
           \A c \in 1..Len(challenge) :
               /\ challenge'[c].attempts = challenge[c].attempts
               /\ challenge'[c].compared = challenge[c].compared
    PROVE  CountedFirst'
<1>1. \A c : Counting(c)' \subseteq Counting(c)
  <2>1. CASE UNCHANGED req
    BY <2>1 DEF Counting
  <2>2. CASE \E r \in Reqs : SetReq(r, IdleReq)
    <3>1. IdleReq.stage # "counted"
      BY DEF IdleReq
    <3> QED
      BY <2>2, <3>1, CountingDrops
  <2> QED
    BY <2>1, <2>2
<1> QED
  BY <1>1, CountedFirstKept

\* Setting a field that is no counter, in a table of the same length.
LEMMA ConsumeKeeps ==
    ASSUME NEW t \in Seq(Challenge), NEW k \in 1..Len(t)
    PROVE  LET new == [t EXCEPT ![k].consumed = TRUE] IN
           /\ Len(new) = Len(t)
           /\ \A c \in 1..Len(t) : /\ new[c].attempts = t[c].attempts
                                   /\ new[c].compared = t[c].compared
                                   /\ new[c].user = t[c].user
                                   /\ new[c].purpose = t[c].purpose
                                   /\ new[c].consumed <=> (t[c].consumed \/ c = k)
<1> DEFINE row == [t[k] EXCEPT !.consumed = TRUE]
           new == [t EXCEPT ![k] = row]
<1>1. t[k] \in Challenge
  OBVIOUS
<1>2. /\ row.attempts = t[k].attempts /\ row.compared = t[k].compared
      /\ row.user = t[k].user /\ row.purpose = t[k].purpose /\ row.consumed
  BY <1>1 DEF Challenge
<1> HIDE DEF row
<1>3. Len(new) = Len(t) /\ new[k] = row /\ \A c \in 1..Len(t) : c # k => new[c] = t[c]
  OBVIOUS
<1>4. ASSUME NEW c \in 1..Len(t)
      PROVE  /\ new[c].attempts = t[c].attempts /\ new[c].compared = t[c].compared
             /\ new[c].user = t[c].user /\ new[c].purpose = t[c].purpose
             /\ new[c].consumed <=> (t[c].consumed \/ c = k)
  BY <1>2, <1>3
<1> QED
  BY <1>3, <1>4 DEF row

LEMMA MarkChallenges ==
    ASSUME TypeInv, TypeInv', CountedFirst,
           \/ \E c \in Nat, st \in {"SENT", "FAILED"} : Deliver(c, st)
           \/ \E c \in Nat : VerifyExpired(c)
           \/ \E r \in Reqs : VerifyLoginRefused(r) \/ ChangeRefused(r)
    PROVE  CountedFirst'
<1>1. CASE \E c \in Nat, st \in {"SENT", "FAILED"} : Deliver(c, st)
  <2>1. PICK k \in 1..Len(challenge), st \in {"SENT", "FAILED"} :
            challenge' = [challenge EXCEPT ![k] = [challenge[k] EXCEPT !.delivery = st]]
    BY <1>1 DEF Deliver
  <2> DEFINE row == [challenge[k] EXCEPT !.delivery = st]
  <2>2. /\ row \in Challenge
        /\ row.attempts = challenge[k].attempts /\ row.compared = challenge[k].compared
    BY LensType DEF Challenge
  <2> HIDE DEF row
  <2>3. challenge' = [challenge EXCEPT ![k] = row]
    BY <2>1 DEF row
  <2>4. /\ Len(challenge') = Len(challenge)
        /\ \A c \in 1..Len(challenge) : /\ challenge'[c].attempts = challenge[c].attempts
                                        /\ challenge'[c].compared = challenge[c].compared
    BY <2>2, <2>3, ChallengeStep
  <2>5. UNCHANGED req
    BY <1>1 DEF Deliver
  <2> QED
    BY <2>4, <2>5, MarkingCounts
<1>2. CASE \E c \in Nat : VerifyExpired(c)
  <2>1. PICK chals : challenge' = Invalidate(chals) /\ UNCHANGED req
    BY <1>2 DEF VerifyExpired
  <2> QED
    BY <2>1, LensType, InvalidateType, InvalidateKeeps, MarkingCounts
<1>3. CASE \E r \in Reqs : VerifyLoginRefused(r) \/ ChangeRefused(r)
  <2>1. PICK r \in Reqs : VerifyLoginRefused(r) \/ ChangeRefused(r)
    BY <1>3
  <2>2. PICK k \in 1..Len(challenge) : k = req[r].chal
    BY <2>1, VerifyingOK DEF VerifyLoginRefused, ChangeRefused, Claims
  <2>3. SetReq(r, IdleReq) /\ challenge' = [challenge EXCEPT ![k].consumed = TRUE]
    BY <2>1, <2>2 DEF VerifyLoginRefused, ChangeRefused
  <2>4. /\ Len(challenge') = Len(challenge)
        /\ \A c \in 1..Len(challenge) : /\ challenge'[c].attempts = challenge[c].attempts
                                        /\ challenge'[c].compared = challenge[c].compared
    BY <2>3, LensType, ConsumeKeeps
  <2> QED
    BY <2>3, <2>4, MarkingCounts
<1> QED
  BY <1>1, <1>2, <1>3

LEMMA CommitsCount ==
    ASSUME TypeInv, TypeInv', CountedFirst, NEW r \in Reqs, IssueCommit(r) \/ ChangeCommit(r)
    PROVE  CountedFirst'
<1>1. SetReq(r, IdleReq)
  BY DEF IssueCommit, ChangeCommit
<1>2. /\ Len(challenge') = Len(challenge)
      /\ \A c \in 1..Len(challenge) : /\ challenge'[c].attempts = challenge[c].attempts
                                      /\ challenge'[c].compared = challenge[c].compared
  <2>1. CASE IssueCommit(r)
    <3>1. CASE req[r].chal = 0
      BY <2>1, <3>1 DEF IssueCommit
    <3>2. CASE req[r].chal # 0
      <4>1. req[r].chal \in 1..Len(challenge)
        BY <2>1, <3>2, LensType DEF IssueCommit, TypeInv, StageOK, ReqOK
      <4>2. challenge' = [challenge EXCEPT ![req[r].chal].consumed = TRUE]
        BY <2>1, <3>2 DEF IssueCommit
      <4> QED
        BY <4>1, <4>2, LensType, ConsumeKeeps
    <3> QED
      BY <3>1, <3>2
  <2>2. CASE ChangeCommit(r)
    <3> DEFINE inv == Invalidate(req[r].chals)
    <3>1. req[r].chal \in 1..Len(challenge)
      BY <2>2, VerifyingOK DEF ChangeCommit
    <3>2. inv \in Seq(Challenge) /\ Len(inv) = Len(challenge)
      BY LensType, InvalidateType
    <3>3. challenge' = [inv EXCEPT ![req[r].chal].consumed = TRUE]
      BY <2>2 DEF ChangeCommit
    <3>4. \A c \in 1..Len(challenge) : /\ inv[c].attempts = challenge[c].attempts
                                       /\ inv[c].compared = challenge[c].compared
      BY InvalidateKeeps
    <3> HIDE DEF inv
    <3> QED
      BY <3>1, <3>2, <3>3, <3>4, ConsumeKeeps
  <2> QED
    BY <2>1, <2>2
<1> QED
  BY <1>1, <1>2, MarkingCounts

\* Request r moves, and not to the point where an attempt has been counted.
Passes(r) == req'[r].stage # "counted" /\ \A q \in Reqs \ {r} : req'[q] = req[q]

LEMMA OthersCount ==
    ASSUME TypeInv, TypeInv', CountedFirst, UNCHANGED challenge,
           UNCHANGED req \/ \E r \in Reqs : Passes(r)
    PROVE  CountedFirst'
<1>1. \A c : Counting(c)' \subseteq Counting(c)
  BY DEF Passes, Counting
<1> QED
  BY <1>1, CountedFirstKept

LEMMA SetPasses ==
    ASSUME TypeInv, NEW r \in Reqs, NEW new, SetReq(r, new), new.stage # "counted"
    PROVE  Passes(r)
BY LensType DEF SetReq, Passes

LEMMA AskPasses ==
    ASSUME TypeInv, NEW r \in Reqs, Ask(r), ~StartCommit(r)
    PROVE  UNCHANGED challenge /\ Passes(r)
<1>1. UNCHANGED challenge
  BY DEF Ask, RequestCode, PasswordLogin, RequestEmailChange, Register
<1>2. Passes(r)
  BY AskStage, SetPasses
<1> QED
  BY <1>1, <1>2

LEMMA IssuePasses ==
    ASSUME TypeInv, NEW r \in Reqs, NEW u, NEW c, Issue(r, u, c)
    PROVE  Passes(r)
<1> DEFINE new == [req[r] EXCEPT !.stage = "issuing", !.user = u, !.channel = c,
                       !.sessions = {s \in ActiveSessions(u) : session[s].channel = c}]
<1>1. new.stage = "issuing"
  BY LensType DEF Req
<1>2. SetReq(r, new)
  BY DEF Issue
<1> HIDE DEF new
<1> QED
  BY <1>1, <1>2, SetPasses

LEMMA VerifyPasses ==
    ASSUME TypeInv, NEW r \in Reqs,
           \/ \E c \in 1..MaxChallenges, s \in 0..MaxSessions, p \in Purposes :
                  VerifyRead(r, c, p, s)
           \/ \E c \in Channels : VerifyLogin(r, c) \/ RegisterSession(r, c)
           \/ ChangeBegin(r)
           \/ GiveUp(r)
    PROVE  UNCHANGED challenge /\ Passes(r)
<1>1. CASE \E c \in 1..MaxChallenges, s \in 0..MaxSessions, p \in Purposes :
               VerifyRead(r, c, p, s)
  <2>1. PICK c \in 1..MaxChallenges, s \in 0..MaxSessions, p \in Purposes :
            VerifyRead(r, c, p, s)
    BY <1>1
  <2>2. PICK right \in BOOLEAN :
          SetReq(r, [IdleReq EXCEPT !.stage = "read", !.purpose = p, !.chal = c,
                         !.sid = s, !.right = right])
    BY <2>1 DEF VerifyRead
  <2> DEFINE new == [IdleReq EXCEPT !.stage = "read", !.purpose = p, !.chal = c,
                         !.sid = s, !.right = right]
  <2>3. new.stage = "read"
    BY DEF IdleReq
  <2>4. SetReq(r, new) /\ UNCHANGED challenge
    BY <2>1, <2>2 DEF VerifyRead
  <2> HIDE DEF new
  <2> QED
    BY <2>3, <2>4, SetPasses
<1>2. CASE \E c \in Channels : VerifyLogin(r, c) \/ RegisterSession(r, c)
  BY <1>2, IssuePasses DEF VerifyLogin, RegisterSession
<1>3. CASE ChangeBegin(r)
  <2> DEFINE u == session[req[r].sid].user
             new == [req[r] EXCEPT !.stage = "changing", !.user = u,
                         !.chals = OpenChallenges(u, "EMAIL_CHANGE") \ {req[r].chal},
                         !.sessions = ActiveSessions(u) \ {req[r].sid}]
  <2>1. new.stage = "changing"
    BY LensType DEF Req
  <2>2. SetReq(r, new) /\ UNCHANGED challenge
    BY <1>3 DEF ChangeBegin
  <2> HIDE DEF new
  <2> QED
    BY <2>1, <2>2, SetPasses
<1>4. CASE GiveUp(r)
  <2>1. IdleReq.stage = "idle"
    BY DEF IdleReq
  <2> QED
    BY <1>4, <2>1, SetPasses DEF GiveUp
<1> QED
  BY <1>1, <1>2, <1>3, <1>4

LEMMA CountedFirstStep == TypeInv /\ TypeInv' /\ CountedFirst /\ [Next]_vars => CountedFirst'
<1> SUFFICES ASSUME TypeInv, TypeInv', CountedFirst, [Next]_vars
             PROVE  CountedFirst'
  OBVIOUS
<1>1. ASSUME NEW r \in Reqs, Ask(r)
      PROVE  CountedFirst'
  <2>1. CASE StartCommit(r)
    BY <2>1, StartCommitCounts
  <2>2. CASE ~StartCommit(r)
    BY <1>1, <2>2, AskPasses, OthersCount
  <2> QED
    BY <2>1, <2>2
<1>2. ASSUME NEW r \in Reqs, Verify(r)
      PROVE  CountedFirst'
  <2>1. CASE VerifyCount(r)
    BY <2>1, VerifyCountCounts
  <2>2. CASE VerifyCompare(r)
    BY <2>2, VerifyCompareCounts
  <2>3. CASE VerifyLoginRefused(r) \/ ChangeRefused(r)
    BY <2>3, MarkChallenges
  <2>4. CASE IssueCommit(r) \/ ChangeCommit(r)
    BY <2>4, CommitsCount
  <2>5. CASE \/ \E c \in 1..MaxChallenges, s \in 0..MaxSessions, p \in Purposes :
                    VerifyRead(r, c, p, s)
             \/ \E c \in Channels : VerifyLogin(r, c) \/ RegisterSession(r, c)
             \/ ChangeBegin(r)
    BY <2>5, VerifyPasses, OthersCount
  <2> QED
    BY <1>2, <2>1, <2>2, <2>3, <2>4, <2>5 DEF Verify
<1>3. ASSUME NEW r \in Reqs, GiveUp(r)
      PROVE  CountedFirst'
  BY <1>3, VerifyPasses, OthersCount
<1>4. CASE \E c \in 1..MaxChallenges :
               VerifyExpired(c) \/ \E st \in {"SENT", "FAILED"} : Deliver(c, st)
  <2>1. 1..MaxChallenges \subseteq Nat
    BY AuthAssumption
  <2> QED
    BY <1>4, <2>1, MarkChallenges
<1>5. CASE UNCHANGED <<challenge, req>>
  BY <1>5, OthersCount
<1>6. CASE \/ Tick
           \/ \E s \in 1..MaxSessions : Logout(s) \/ LogoutAll(s)
           \/ \E u \in Users : SetEnabled(u)
           \/ UNCHANGED vars
  BY <1>5, <1>6 DEF Tick, Logout, LogoutAll, SetEnabled, vars
<1> QED
  BY <1>1, <1>2, <1>3, <1>4, <1>6 DEF Next

\* However many requests guess at a code at once, it is compared with MaxAttempts
\* guesses at most: the attempt is counted and committed before the comparison, and
\* the counter read for the check includes the attempts of all the others.
THEOREM AttemptsAlwaysBounded == Spec => []AttemptsBounded
<1>1. Init => CountedFirst
  BY DEF Init, CountedFirst
<1>2. TypeInv /\ TypeInv' /\ CountedFirst /\ [Next]_vars => CountedFirst'
  BY CountedFirstStep
<1>3. CountedFirst => AttemptsBounded
  BY DEF CountedFirst, AttemptsBounded
<1> QED
  BY <1>1, <1>2, <1>3, TypeInvAlways, PTL DEF Spec

-----------------------------------------------------------------------------
(* Sessions and the codes they were issued for. *)

\* A request verifies a code of its own purpose; a code that is claimed is not
\* used up yet, and a login has claimed a login code of its user.
ClaimOK(r) ==
    /\ req[r].stage \in {"read", "counted", "compared"} =>
           challenge[req[r].chal].purpose = req[r].purpose
    /\ req[r].stage \in {"issuing", "changing"} /\ req[r].chal # 0 =>
           ~challenge[req[r].chal].consumed
    /\ req[r].stage = "issuing" /\ req[r].chal # 0 =>
           /\ challenge[req[r].chal].purpose = "LOGIN"
           /\ challenge[req[r].chal].user = req[r].user

\* No two open transactions have claimed one code.
OneClaim ==
    \A r, q \in Reqs :
        /\ r # q
        /\ req[r].stage \in {"issuing", "changing"} /\ req[q].stage \in {"issuing", "changing"}
        /\ req[r].chal # 0
        => req[r].chal # req[q].chal

ClaimsOK == OneClaim /\ \A r \in Reqs : ClaimOK(r)

\* A session refers to codes of the table.
Referring == \A s \in 1..Len(session) : session[s].by \in 0..Len(challenge)

EarnedInv == ClaimsOK /\ Referring /\ SessionsAreEarned

\* The codes keep their user and purpose, and k alone may be used up (0: none).
Uses(k) ==
    /\ Len(challenge') >= Len(challenge)
    /\ \A c \in 1..Len(challenge) :
        /\ challenge'[c].user = challenge[c].user
        /\ challenge'[c].purpose = challenge[c].purpose
        /\ challenge'[c].consumed <=> (challenge[c].consumed \/ c = k)

LEMMA UsesNone == TypeInv /\ UNCHANGED challenge => Uses(0)
BY LensType DEF Uses

LEMMA StartCommitUses ==
    ASSUME TypeInv, NEW r \in Reqs, StartCommit(r)
    PROVE  Uses(0)
<1>1. CASE req[r].user = None
  BY <1>1, UsesNone DEF StartCommit
<1>2. CASE req[r].user # None
  <2> DEFINE inv == Invalidate(req[r].chals)
  <2>1. PICK new : challenge' = Append(inv, new)
    BY <1>2 DEF StartCommit
  <2>2. inv \in Seq(Challenge) /\ Len(inv) = Len(challenge)
    BY LensType, InvalidateType
  <2>3. \A c \in 1..Len(challenge) : /\ inv[c].user = challenge[c].user
                                     /\ inv[c].purpose = challenge[c].purpose
                                     /\ inv[c].consumed = challenge[c].consumed
    BY InvalidateKeeps
  <2> HIDE DEF inv
  <2>4. /\ Len(challenge') = Len(challenge) + 1
        /\ \A c \in 1..Len(challenge) : challenge'[c] = inv[c]
    BY <2>1, <2>2, LensType
  <2> QED
    BY <2>3, <2>4, LensType DEF Uses
<1> QED
  BY <1>1, <1>2

LEMMA MarkUses ==
    ASSUME TypeInv,
           \/ \E c \in Nat, st \in {"SENT", "FAILED"} : Deliver(c, st)
           \/ \E c \in Nat : VerifyExpired(c)
           \/ \E r \in Reqs : VerifyCount(r) \/ VerifyCompare(r)
    PROVE  Uses(0)
<1>1. CASE \E c \in Nat : VerifyExpired(c)
  <2>1. PICK chals : challenge' = Invalidate(chals)
    BY <1>1 DEF VerifyExpired
  <2> QED
    BY <2>1, LensType, InvalidateType, InvalidateKeeps DEF Uses
<1>2. ASSUME NEW k \in 1..Len(challenge), NEW row \in Challenge,
             row.user = challenge[k].user, row.purpose = challenge[k].purpose,
             row.consumed = challenge[k].consumed,
             challenge' = [challenge EXCEPT ![k] = row]
      PROVE  Uses(0)
  BY <1>2, LensType, ChallengeStep DEF Uses
<1>3. CASE \E c \in Nat, st \in {"SENT", "FAILED"} : Deliver(c, st)
  <2>1. PICK k \in 1..Len(challenge), st \in {"SENT", "FAILED"} :
            challenge' = [challenge EXCEPT ![k] = [challenge[k] EXCEPT !.delivery = st]]
    BY <1>3 DEF Deliver
  <2> DEFINE row == [challenge[k] EXCEPT !.delivery = st]
  <2>2. /\ row \in Challenge /\ row.user = challenge[k].user
        /\ row.purpose = challenge[k].purpose /\ row.consumed = challenge[k].consumed
    BY LensType DEF Challenge
  <2>3. challenge' = [challenge EXCEPT ![k] = row]
    BY <2>1
  <2> HIDE DEF row
  <2> QED
    BY <1>2, <2>2, <2>3
<1>4. CASE \E r \in Reqs : VerifyCount(r)
  <2>1. PICK r \in Reqs : VerifyCount(r)
    BY <1>4
  <2>2. PICK k \in 1..Len(challenge) : k = req[r].chal /\ challenge[k] \in Challenge
    BY <2>1, VerifyingOK DEF VerifyCount
  <2> DEFINE row == [challenge[k] EXCEPT !.attempts = @ + 1]
  <2>3. /\ row \in Challenge /\ row.user = challenge[k].user
        /\ row.purpose = challenge[k].purpose /\ row.consumed = challenge[k].consumed
    BY SMTT(30), <2>2 DEF Challenge
  <2>4. challenge' = [challenge EXCEPT ![k] = row]
    BY <2>1, <2>2 DEF VerifyCount
  <2> HIDE DEF row
  <2> QED
    BY <1>2, <2>3, <2>4
<1>5. CASE \E r \in Reqs : VerifyCompare(r)
  <2>1. PICK r \in Reqs : VerifyCompare(r)
    BY <1>5
  <2>2. PICK k \in 1..Len(challenge) : k = req[r].chal /\ challenge[k] \in Challenge
    BY <2>1, VerifyingOK DEF VerifyCompare
  <2> DEFINE row == [challenge[k] EXCEPT !.compared = @ + 1]
  <2>3. /\ row \in Challenge /\ row.user = challenge[k].user
        /\ row.purpose = challenge[k].purpose /\ row.consumed = challenge[k].consumed
    BY SMTT(30), <2>2 DEF Challenge
  <2>4. challenge' = [challenge EXCEPT ![k] = row]
    BY <2>1, <2>2 DEF VerifyCompare
  <2> HIDE DEF row
  <2> QED
    BY <1>2, <2>3, <2>4
<1> QED
  BY <1>1, <1>3, <1>4, <1>5

\* The steps that use up the code of request r.
LEMMA UsesOwn ==
    ASSUME TypeInv, NEW r \in Reqs, NEW k \in Nat, k = req[r].chal,
           \/ VerifyLoginRefused(r) \/ ChangeRefused(r)
           \/ IssueCommit(r) \/ ChangeCommit(r)
    PROVE  Uses(k)
<1>1. CASE VerifyLoginRefused(r) \/ ChangeRefused(r)
  <2>1. k \in 1..Len(challenge)
    BY <1>1, VerifyingOK DEF VerifyLoginRefused, ChangeRefused, Claims
  <2>2. challenge' = [challenge EXCEPT ![k].consumed = TRUE]
    BY <1>1 DEF VerifyLoginRefused, ChangeRefused
  <2> QED
    BY <2>1, <2>2, LensType, ConsumeKeeps DEF Uses
<1>2. CASE IssueCommit(r)
  <2>1. CASE k = 0
    BY <1>2, <2>1, UsesNone DEF IssueCommit
  <2>2. CASE k # 0
    <3>1. k \in 1..Len(challenge)
      BY <1>2, <2>2, LensType DEF IssueCommit, TypeInv, StageOK, ReqOK
    <3>2. challenge' = [challenge EXCEPT ![k].consumed = TRUE]
      BY <1>2, <2>2 DEF IssueCommit
    <3> QED
      BY <3>1, <3>2, LensType, ConsumeKeeps DEF Uses
  <2> QED
    BY <2>1, <2>2
<1>3. CASE ChangeCommit(r)
  <2> DEFINE inv == Invalidate(req[r].chals)
  <2>1. k \in 1..Len(challenge)
    BY <1>3, VerifyingOK DEF ChangeCommit
  <2>2. inv \in Seq(Challenge) /\ Len(inv) = Len(challenge)
    BY LensType, InvalidateType
  <2>3. challenge' = [inv EXCEPT ![k].consumed = TRUE]
    BY <1>3 DEF ChangeCommit
  <2>4. \A c \in 1..Len(challenge) : /\ inv[c].user = challenge[c].user
                                     /\ inv[c].purpose = challenge[c].purpose
                                     /\ inv[c].consumed = challenge[c].consumed
    BY InvalidateKeeps
  <2> HIDE DEF inv
  <2> QED
    BY <2>1, <2>2, <2>3, <2>4, LensType, ConsumeKeeps DEF Uses
<1> QED
  BY <1>1, <1>2, <1>3

\* Nobody but r, which moves, has claimed the code that is used up.
LEMMA ClaimsKept ==
    ASSUME TypeInv, ClaimsOK, NEW k \in Nat, Uses(k),
           UNCHANGED req \/ \E r \in Reqs :
               /\ \A q \in Reqs \ {r} : req'[q] = req[q]
               /\ ClaimOK(r)'
               /\ req'[r].stage \in {"issuing", "changing"} /\ req'[r].chal # 0 =>
                      \A q \in Reqs \ {r} :
                          req[q].stage \in {"issuing", "changing"} =>
                              req[q].chal # req'[r].chal,
           k # 0 => \E r \in Reqs :
               /\ req'[r].stage = "idle"
               /\ \A q \in Reqs \ {r} : req[q].stage \in {"issuing", "changing"} =>
                      req[q].chal # k
    PROVE  ClaimsOK'
<1>1. ASSUME NEW q \in Reqs, req'[q] = req[q]
      PROVE  ClaimOK(q)'
  <2>1. req[q].stage \in {"read", "counted", "compared", "issuing", "changing"} /\ req[q].chal # 0
            => req[q].chal \in 1..Len(challenge)
    BY LensType DEF TypeInv, StageOK, ReqOK
  <2>2. req[q].stage \in {"read", "counted", "compared"} => req[q].chal # 0
    BY LensType DEF TypeInv, StageOK, ReqOK
  <2>3. req[q].stage \in {"issuing", "changing"} /\ req[q].chal # 0 => req[q].chal # k
    BY <1>1
  <2>4. ClaimOK(q)
    BY DEF ClaimsOK
  <2> QED
    BY <1>1, <2>1, <2>2, <2>3, <2>4 DEF ClaimOK, Uses
<1>2. \A q \in Reqs : ClaimOK(q)'
  BY <1>1
<1>3. OneClaim'
  BY DEF ClaimsOK, OneClaim
<1> QED
  BY <1>2, <1>3 DEF ClaimsOK

\* The codes' side of a step that uses up k, and the sessions that refer to it.
LEMMA EarnedKept ==
    ASSUME TypeInv, EarnedInv, NEW k \in Nat, Uses(k),
           UNCHANGED session \/ \E ids : session' = Revoked(ids)
    PROVE  Referring' /\ SessionsAreEarned'
<1>1. /\ Len(session') = Len(session)
      /\ \A s \in 1..Len(session) : /\ session'[s].by = session[s].by
                                    /\ session'[s].user = session[s].user
  BY LensType, RevokedType
<1>2. /\ Len(challenge) \in Nat /\ Len(challenge') >= Len(challenge)
      /\ \A s \in 1..Len(session) : session[s].by \in 0..Len(challenge)
  BY LensType DEF Uses, EarnedInv, Referring
<1>3. Referring'
  BY <1>1, <1>2 DEF Referring
<1>4. ASSUME NEW s \in 1..Len(session'), session'[s].by # 0
      PROVE  LET c == challenge'[session'[s].by] IN
                c.purpose = "LOGIN" /\ c.consumed /\ c.user = session'[s].user
  <2>1. s \in 1..Len(session) /\ session[s].by # 0 /\ session[s].by \in 1..Len(challenge)
    BY <1>1, <1>2, <1>4
  <2>2. LET c == challenge[session[s].by] IN
            c.purpose = "LOGIN" /\ c.consumed /\ c.user = session[s].user
    BY <2>1 DEF EarnedInv, SessionsAreEarned
  <2> QED
    BY <1>1, <2>1, <2>2 DEF Uses
<1>5. \A i, j \in 1..Len(session') :
          i # j /\ session'[i].by = session'[j].by => session'[i].by = 0
  BY <1>1 DEF EarnedInv, SessionsAreEarned
<1> QED
  BY <1>3, <1>4, <1>5 DEF SessionsAreEarned

\* The new session is the first of its code: the code was not used up before.
LEMMA EarnedCommit ==
    ASSUME TypeInv, EarnedInv, NEW r \in Reqs, IssueCommit(r)
    PROVE  Referring' /\ SessionsAreEarned'
<1> DEFINE n == Len(session)
           rev == Revoked(req[r].sessions)
           new == [user |-> req[r].user, channel |-> req[r].channel, revoked |-> FALSE,
                   expires |-> now + SessionLife, by |-> req[r].chal]
<1>1. PICK k \in 0..Len(challenge) : k = req[r].chal
  BY DEF IssueCommit, TypeInv, StageOK, ReqOK
<1>2. Uses(k)
  BY <1>1, UsesOwn
<1>3. session' = Append(rev, new)
  BY DEF IssueCommit
<1>4. /\ rev \in Seq(Session) /\ Len(rev) = n
      /\ \A s \in 1..n : rev[s].by = session[s].by /\ rev[s].user = session[s].user
  BY LensType, RevokedType
<1>5. new.by = k /\ new.user = req[r].user
  BY <1>1
<1> HIDE DEF rev, new
<1>6. /\ Len(session') = n + 1 /\ session'[n + 1] = new /\ n \in Nat
      /\ \A s \in 1..n : session'[s].by = session[s].by /\ session'[s].user = session[s].user
  BY <1>3, <1>4, LensType
<1>7. /\ \A s \in 1..n : session[s].by \in 0..Len(challenge)
      /\ Len(challenge) \in Nat /\ Len(challenge') >= Len(challenge)
  BY <1>2, LensType DEF EarnedInv, Referring, Uses
<1> HIDE DEF n
<1>8. \A s \in 1..(n + 1) : s \in 1..n \/ s = n + 1
  BY <1>6
<1>9. Referring'
  <2>1. \A s \in 1..n : session'[s].by \in 0..Len(challenge')
    BY <1>6, <1>7
  <2>2. session'[n + 1].by \in 0..Len(challenge')
    BY <1>1, <1>5, <1>6, <1>7
  <2> QED
    BY <1>6, <1>8, <2>1, <2>2 DEF Referring
<1>10. k # 0 => /\ ~challenge[k].consumed
                /\ challenge[k].purpose = "LOGIN" /\ challenge[k].user = req[r].user
  BY <1>1 DEF EarnedInv, ClaimsOK, ClaimOK, IssueCommit
<1>11. \A s \in 1..n : session[s].by # 0 =>
          LET c == challenge[session[s].by] IN
              c.purpose = "LOGIN" /\ c.consumed /\ c.user = session[s].user
  BY DEF EarnedInv, SessionsAreEarned, n
<1>12. \A s \in 1..n : session[s].by = k => k = 0
  BY <1>10, <1>11
<1>13. ASSUME NEW s \in 1..(n + 1), session'[s].by # 0
       PROVE  LET c == challenge'[session'[s].by] IN
                 c.purpose = "LOGIN" /\ c.consumed /\ c.user = session'[s].user
  <2>1. CASE s \in 1..n
    <3>1. session[s].by # 0 /\ session[s].by \in 1..Len(challenge)
      BY <1>6, <1>7, <1>13, <2>1
    <3>2. PICK b \in 1..Len(challenge) : b = session[s].by
      BY <3>1
    <3>3. session'[s].by = b /\ session'[s].user = session[s].user
      BY <1>6, <2>1, <3>2
    <3>4. /\ challenge[b].purpose = "LOGIN" /\ challenge[b].consumed
          /\ challenge[b].user = session[s].user
      BY <1>11, <2>1, <3>1, <3>2
    <3>5. /\ challenge'[b].user = challenge[b].user
          /\ challenge'[b].purpose = challenge[b].purpose
          /\ challenge'[b].consumed <=> (challenge[b].consumed \/ b = k)
      BY <1>2, <3>2 DEF Uses
    <3> QED
      BY <3>3, <3>4, <3>5
  <2>2. CASE s = n + 1
    <3>1. session'[s].by = k /\ session'[s].user = req[r].user
      BY <1>5, <1>6, <2>2
    <3>2. k \in 1..Len(challenge)
      BY <1>1, <1>7, <1>13, <3>1
    <3> QED
      BY <1>2, <1>10, <3>1, <3>2 DEF Uses
  <2> QED
    BY <1>8, <2>1, <2>2
<1>14. ASSUME NEW i \in 1..(n + 1), NEW j \in 1..(n + 1), i # j,
              session'[i].by = session'[j].by
       PROVE  session'[i].by = 0
  <2>1. CASE i \in 1..n /\ j \in 1..n
    BY <1>6, <1>14, <2>1 DEF EarnedInv, SessionsAreEarned, n
  <2>2. CASE i \in 1..n /\ j = n + 1
    BY <1>5, <1>6, <1>12, <1>14, <2>2
  <2>3. CASE i = n + 1 /\ j \in 1..n
    BY <1>5, <1>6, <1>12, <1>14, <2>3
  <2> QED
    BY <1>8, <1>14, <2>1, <2>2, <2>3
<1> QED
  BY <1>6, <1>9, <1>13, <1>14 DEF SessionsAreEarned

\* A request that begins, or ends, has claimed nothing.
LEMMA ClaimsIdle ==
    ASSUME NEW r \in Reqs,
           req'[r].stage \notin {"read", "counted", "compared", "issuing", "changing"}
    PROVE  ClaimOK(r)'
BY DEF ClaimOK

\* A step of r that uses up no code and claims none.
LEMMA EarnedMove ==
    ASSUME TypeInv, EarnedInv, NEW r \in Reqs, NEW new, SetReq(r, new),
           new.stage \notin {"issuing", "changing"}, ClaimOK(r)', Uses(0), UNCHANGED session
    PROVE  EarnedInv'
<1>1. req'[r] = new /\ \A q \in Reqs \ {r} : req'[q] = req[q]
  BY LensType DEF SetReq
<1>2. ClaimsOK'
  BY <1>1, ClaimsKept DEF EarnedInv
<1> QED
  BY <1>2, EarnedKept DEF EarnedInv

\* A step of r that ends it, its code used up or not.
LEMMA EarnedEnd ==
    ASSUME TypeInv, EarnedInv, NEW r \in Reqs, SetReq(r, IdleReq), NEW k \in Nat, Uses(k),
           k # 0 => \A q \in Reqs \ {r} : req[q].stage \in {"issuing", "changing"} =>
                        req[q].chal # k
    PROVE  ClaimsOK'
<1>1. req'[r].stage = "idle" /\ \A q \in Reqs \ {r} : req'[q] = req[q]
  BY LensType DEF SetReq, IdleReq
<1>2. ClaimOK(r)'
  BY <1>1, ClaimsIdle
<1> QED
  BY <1>1, <1>2, ClaimsKept DEF EarnedInv

LEMMA AskEarned ==
    ASSUME TypeInv, EarnedInv, NEW r \in Reqs, Ask(r)
    PROVE  EarnedInv'
<1>1. PICK new : SetReq(r, new) /\ new.stage \in {"starting", "registered", "idle"}
  BY AskStage
<1>2. req'[r] = new
  BY <1>1, LensType DEF SetReq
<1>3. ClaimOK(r)'
  BY <1>1, <1>2, ClaimsIdle
<1>4. UNCHANGED session
  BY DEF Ask, RequestCode, PasswordLogin, RequestEmailChange, Register, StartCommit
<1>5. Uses(0)
  <2>1. CASE StartCommit(r)
    BY <2>1, StartCommitUses
  <2>2. CASE ~StartCommit(r)
    <3>1. UNCHANGED challenge
      BY <2>2 DEF Ask, RequestCode, PasswordLogin, RequestEmailChange, Register
    <3> QED
      BY <3>1, UsesNone
  <2> QED
    BY <2>1, <2>2
<1> QED
  BY <1>1, <1>3, <1>4, <1>5, EarnedMove

LEMMA ReadEarned ==
    ASSUME TypeInv, EarnedInv, NEW r \in Reqs, NEW c \in Nat, NEW s \in Nat, NEW p \in Purposes,
           VerifyRead(r, c, p, s)
    PROVE  EarnedInv'
<1>1. PICK right \in BOOLEAN :
        SetReq(r, [IdleReq EXCEPT !.stage = "read", !.purpose = p, !.chal = c,
                       !.sid = s, !.right = right])
  BY DEF VerifyRead
<1> DEFINE new == [IdleReq EXCEPT !.stage = "read", !.purpose = p, !.chal = c,
                       !.sid = s, !.right = right]
<1>2. new.stage = "read" /\ new.purpose = p /\ new.chal = c
  BY DEF IdleReq
<1>3. SetReq(r, new)
  BY <1>1
<1> HIDE DEF new
<1>4. req'[r] = new /\ UNCHANGED <<challenge, session>> /\ challenge[c].purpose = p
  BY <1>3, LensType DEF SetReq, VerifyRead, Serves
<1>5. ClaimOK(r)'
  BY <1>2, <1>4 DEF ClaimOK
<1> QED
  BY <1>2, <1>3, <1>4, <1>5, UsesNone, EarnedMove

LEMMA CountEarned ==
    ASSUME TypeInv, EarnedInv, NEW r \in Reqs, VerifyCount(r) \/ VerifyCompare(r)
    PROVE  EarnedInv'
<1>1. Uses(0) /\ UNCHANGED session
  BY MarkUses DEF VerifyCount, VerifyCompare
<1>2. PICK new : /\ SetReq(r, new) /\ new.stage \in {"counted", "compared", "idle"}
                 /\ new.stage # "idle" => new.chal = req[r].chal /\ new.purpose = req[r].purpose
  <2>1. CASE VerifyCount(r)
    <3> DEFINE new == [req[r] EXCEPT !.stage = "counted"]
    <3>1. new.stage = "counted" /\ new.chal = req[r].chal /\ new.purpose = req[r].purpose
      BY LensType DEF Req
    <3>2. SetReq(r, new)
      BY <2>1 DEF VerifyCount
    <3> QED
      BY <3>1, <3>2
  <2>2. CASE VerifyCompare(r)
    <3> DEFINE new == IF req[r].right THEN [req[r] EXCEPT !.stage = "compared"] ELSE IdleReq
    <3>1. /\ new.stage \in {"compared", "idle"}
          /\ new.stage # "idle" => new.chal = req[r].chal /\ new.purpose = req[r].purpose
      BY LensType DEF Req, IdleReq
    <3>2. SetReq(r, new)
      BY <2>2 DEF VerifyCompare
    <3> QED
      BY <3>1, <3>2
  <2> QED
    BY <2>1, <2>2
<1>3. req'[r] = new
  BY <1>2, LensType DEF SetReq
<1>4. req[r].chal \in 1..Len(challenge) /\ challenge[req[r].chal].purpose = req[r].purpose
  BY VerifyingOK DEF VerifyCount, VerifyCompare, EarnedInv, ClaimsOK, ClaimOK
<1>5. ClaimOK(r)'
  BY <1>1, <1>2, <1>3, <1>4 DEF ClaimOK, Uses
<1> QED
  BY <1>1, <1>2, <1>5, EarnedMove

\* Nobody has claimed the code that a request claims now.
LEMMA ClaimsAlone ==
    ASSUME TypeInv, NEW r \in Reqs, Claims(r)
    PROVE  /\ req[r].chal \in 1..Len(challenge)
           /\ ~challenge[req[r].chal].consumed
           /\ \A q \in Reqs : req[q].stage \in {"issuing", "changing"} =>
                  req[q].chal # req[r].chal
BY VerifyingOK DEF Claims, Held

LEMMA RefusedEarned ==
    ASSUME TypeInv, EarnedInv, NEW r \in Reqs, VerifyLoginRefused(r) \/ ChangeRefused(r)
    PROVE  EarnedInv'
<1>1. Claims(r) /\ SetReq(r, IdleReq) /\ UNCHANGED session
  BY DEF VerifyLoginRefused, ChangeRefused
<1>2. PICK k \in Nat : k = req[r].chal
  BY <1>1, ClaimsAlone
<1>3. Uses(k)
  BY <1>2, UsesOwn
<1>4. ClaimsOK'
  BY <1>1, <1>2, <1>3, ClaimsAlone, EarnedEnd
<1> QED
  BY <1>1, <1>3, <1>4, EarnedKept DEF EarnedInv

LEMMA IssueEarned ==
    ASSUME TypeInv, EarnedInv, NEW r \in Reqs, NEW u, NEW c, Issue(r, u, c),
           UNCHANGED <<challenge, session>>,
           \/ req[r].chal = 0
           \/ /\ req[r].purpose = "LOGIN" /\ Claims(r)
              /\ u = challenge[req[r].chal].user
    PROVE  EarnedInv'
<1> DEFINE new == [req[r] EXCEPT !.stage = "issuing", !.user = u, !.channel = c,
                       !.sessions = {s \in ActiveSessions(u) : session[s].channel = c}]
<1>1. new.stage = "issuing" /\ new.user = u /\ new.chal = req[r].chal
  BY LensType DEF Req
<1>2. SetReq(r, new)
  BY DEF Issue
<1> HIDE DEF new
<1>3. req'[r] = new /\ \A q \in Reqs \ {r} : req'[q] = req[q]
  BY <1>2, LensType DEF SetReq
<1>4. ClaimOK(r)'
  BY <1>1, <1>3, ClaimsAlone DEF ClaimOK, EarnedInv, ClaimsOK, Claims
<1>5. new.chal # 0 => \A q \in Reqs : req[q].stage \in {"issuing", "changing"} =>
          req[q].chal # new.chal
  BY <1>1, ClaimsAlone
<1>6. Uses(0)
  BY UsesNone
<1>7. ClaimsOK'
  BY <1>3, <1>4, <1>5, <1>6, ClaimsKept DEF EarnedInv
<1> QED
  BY <1>6, <1>7, EarnedKept DEF EarnedInv

LEMMA BeginEarned ==
    ASSUME TypeInv, EarnedInv, NEW r \in Reqs, ChangeBegin(r)
    PROVE  EarnedInv'
<1> DEFINE u == session[req[r].sid].user
           new == [req[r] EXCEPT !.stage = "changing", !.user = u,
                       !.chals = OpenChallenges(u, "EMAIL_CHANGE") \ {req[r].chal},
                       !.sessions = ActiveSessions(u) \ {req[r].sid}]
<1>1. new.stage = "changing" /\ new.chal = req[r].chal
  BY LensType DEF Req
<1>2. SetReq(r, new) /\ UNCHANGED <<challenge, session>> /\ Claims(r)
  BY DEF ChangeBegin
<1> HIDE DEF new
<1>3. req'[r] = new /\ \A q \in Reqs \ {r} : req'[q] = req[q]
  BY <1>2, LensType DEF SetReq
<1>4. ClaimOK(r)'
  BY <1>1, <1>2, <1>3, ClaimsAlone DEF ClaimOK
<1>5. \A q \in Reqs : req[q].stage \in {"issuing", "changing"} => req[q].chal # new.chal
  BY <1>1, <1>2, ClaimsAlone
<1>6. Uses(0)
  BY <1>2, UsesNone
<1>7. ClaimsOK'
  BY <1>3, <1>4, <1>5, <1>6, ClaimsKept DEF EarnedInv
<1> QED
  BY <1>2, <1>6, <1>7, EarnedKept DEF EarnedInv

LEMMA CommitsEarned ==
    ASSUME TypeInv, EarnedInv, NEW r \in Reqs, IssueCommit(r) \/ ChangeCommit(r)
    PROVE  EarnedInv'
<1>1. PICK k \in Nat : k = req[r].chal
  BY LensType DEF Req
<1>2. Uses(k) /\ SetReq(r, IdleReq)
  BY <1>1, UsesOwn DEF IssueCommit, ChangeCommit
<1>3. k # 0 => \A q \in Reqs \ {r} : req[q].stage \in {"issuing", "changing"} =>
          req[q].chal # k
  BY <1>1 DEF IssueCommit, ChangeCommit, EarnedInv, ClaimsOK, OneClaim
<1>4. ClaimsOK'
  BY <1>2, <1>3, EarnedEnd
<1>5. CASE IssueCommit(r)
  BY <1>4, <1>5, EarnedCommit DEF EarnedInv
<1>6. CASE ChangeCommit(r)
  BY <1>2, <1>4, <1>6, EarnedKept DEF EarnedInv, ChangeCommit
<1> QED
  BY <1>5, <1>6

LEMMA EarnedStep == TypeInv /\ EarnedInv /\ [Next]_vars => EarnedInv'
<1> SUFFICES ASSUME TypeInv, EarnedInv, [Next]_vars
             PROVE  EarnedInv'
  OBVIOUS
<1>1. ASSUME NEW r \in Reqs, Verify(r)
      PROVE  EarnedInv'
  <2>1. CASE \E c \in 1..MaxChallenges, s \in 0..MaxSessions, p \in Purposes :
                 VerifyRead(r, c, p, s)
    BY <2>1, AuthAssumption, ReadEarned
  <2>2. CASE VerifyCount(r) \/ VerifyCompare(r)
    BY <2>2, CountEarned
  <2>3. CASE \E c \in Channels : VerifyLogin(r, c)
    BY <2>3, IssueEarned DEF VerifyLogin
  <2>4. CASE \E c \in Channels : RegisterSession(r, c)
    BY <2>4, IssueEarned DEF RegisterSession, TypeInv, StageOK, ReqOK
  <2>5. CASE VerifyLoginRefused(r) \/ ChangeRefused(r)
    BY <2>5, RefusedEarned
  <2>6. CASE IssueCommit(r) \/ ChangeCommit(r)
    BY <2>6, CommitsEarned
  <2>7. CASE ChangeBegin(r)
    BY <2>7, BeginEarned
  <2> QED
    BY <1>1, <2>1, <2>2, <2>3, <2>4, <2>5, <2>6, <2>7 DEF Verify
<1>2. ASSUME NEW r \in Reqs, GiveUp(r)
      PROVE  EarnedInv'
  <2>1. SetReq(r, IdleReq) /\ UNCHANGED <<challenge, session>>
    BY <1>2 DEF GiveUp
  <2>2. Uses(0)
    BY <2>1, UsesNone
  <2> QED
    BY <2>1, <2>2, EarnedEnd, EarnedKept DEF EarnedInv
<1>3. ASSUME UNCHANGED req, Uses(0), UNCHANGED session \/ \E ids : session' = Revoked(ids)
      PROVE  EarnedInv'
  BY <1>3, ClaimsKept, EarnedKept DEF EarnedInv
<1>4. CASE \E c \in 1..MaxChallenges :
               VerifyExpired(c) \/ \E st \in {"SENT", "FAILED"} : Deliver(c, st)
  <2>1. 1..MaxChallenges \subseteq Nat
    BY AuthAssumption
  <2>2. Uses(0)
    BY <1>4, <2>1, MarkUses
  <2>3. UNCHANGED <<req, session>>
    BY <1>4 DEF VerifyExpired, Deliver
  <2> QED
    BY <1>3, <2>2, <2>3
<1>5. CASE \/ Tick
           \/ \E s \in 1..MaxSessions : Logout(s) \/ LogoutAll(s)
           \/ \E u \in Users : SetEnabled(u)
           \/ UNCHANGED vars
  <2>1. UNCHANGED <<req, challenge>> /\ (UNCHANGED session \/ \E ids : session' = Revoked(ids))
    BY <1>5 DEF Tick, Logout, LogoutAll, SetEnabled, vars
  <2> QED
    BY <1>3, <2>1, UsesNone
<1> QED
  BY <1>1, <1>2, <1>4, <1>5, AskEarned DEF Next

\* However many requests verify at once, a code buys one session at most, a login
\* code only one of its own user, and a code for a change of address none.
THEOREM SessionsAlwaysEarned == Spec => []SessionsAreEarned
<1>1. Init => EarnedInv
  BY DEF Init, EarnedInv, ClaimsOK, ClaimOK, OneClaim, IdleReq, Referring, SessionsAreEarned
<1>2. TypeInv /\ EarnedInv /\ [Next]_vars => EarnedInv'
  BY EarnedStep
<1>3. EarnedInv => SessionsAreEarned
  BY DEF EarnedInv
<1> QED
  BY <1>1, <1>2, <1>3, TypeInvAlways, PTL DEF Spec

-----------------------------------------------------------------------------
(***************************************************************************)
(* The change of address.  Between the reading of a code and the commit of *)
(* the change other requests invalidate codes, deliver them, use them up   *)
(* and revoke sessions; none of that moves a code to another user, another *)
(* address or another purpose, nor a session to another user.              *)
(***************************************************************************)
Mailed(code) == code.delivery \notin {"PENDING", "FAILED"}

SameCode(old, new) ==
    /\ new.user = old.user /\ new.to = old.to /\ new.purpose = old.purpose
    /\ Mailed(old) => Mailed(new)

TablesKept ==
    /\ \A c \in 1..Len(challenge) :
           c \in 1..Len(challenge') /\ SameCode(challenge[c], challenge'[c])
    /\ \A s \in 1..Len(session) :
           s \in 1..Len(session') /\ session'[s].user = session[s].user

\* A request verifies a code that was mailed, for the user who is signed in; a
\* change under way revokes sessions of that user only.
ChangeOK(r) ==
    /\ req[r].stage \in {"read", "counted", "compared", "changing"} =>
           /\ Mailed(challenge[req[r].chal])
           /\ req[r].purpose = "EMAIL_CHANGE" =>
                  challenge[req[r].chal].user = session[req[r].sid].user
    /\ req[r].stage = "changing" =>
           /\ challenge[req[r].chal].purpose = "EMAIL_CHANGE"
           /\ challenge[req[r].chal].user = req[r].user
           /\ \A s \in req[r].sessions :
                  s \in 1..Len(session) /\ session[s].user = req[r].user

ChangeInv == \A r \in Reqs : ChangeOK(r)

LEMMA InvalidateSame ==
    ASSUME TypeInv, NEW chals, NEW c \in 1..Len(challenge)
    PROVE  SameCode(challenge[c], Invalidate(chals)[c])
<1>1. challenge[c] \in Challenge /\ c \in DOMAIN challenge
  BY LensType
<1>2. CASE c \in chals /\ Open(c)
  <2>1. Invalidate(chals)[c] = [challenge[c] EXCEPT !.invalidated = TRUE, !.delivery = "INVALIDATED"]
    BY <1>1, <1>2 DEF Invalidate
  <2> QED
    BY <1>1, <2>1 DEF Challenge, SameCode, Mailed
<1>3. CASE ~(c \in chals /\ Open(c))
  BY <1>1, <1>3 DEF Invalidate, SameCode
<1> QED
  BY <1>2, <1>3

LEMMA ConsumeSame ==
    ASSUME NEW t \in Seq(Challenge), NEW k \in 1..Len(t), NEW c \in 1..Len(t)
    PROVE  SameCode(t[c], [t EXCEPT ![k].consumed = TRUE][c])
<1> DEFINE row == [t[k] EXCEPT !.consumed = TRUE]
<1>1. t[k] \in Challenge
  OBVIOUS
<1>2. SameCode(t[k], row)
  BY <1>1 DEF Challenge, SameCode, Mailed
<1>3. [t EXCEPT ![k].consumed = TRUE] = [t EXCEPT ![k] = row]
  OBVIOUS
<1> HIDE DEF row
<1>4. CASE c = k
  <2>1. [t EXCEPT ![k] = row][k] = row
    OBVIOUS
  <2> QED
    BY <1>2, <1>3, <1>4, <2>1
<1>5. CASE c # k
  BY <1>3, <1>5 DEF SameCode
<1> QED
  BY <1>4, <1>5

\* Whatever happens to the table of codes, the codes keep what they prove.
LEMMA CodesKept ==
    ASSUME TypeInv, [Next]_vars, NEW c \in 1..Len(challenge)
    PROVE  c \in 1..Len(challenge') /\ SameCode(challenge[c], challenge'[c])
<1> DEFINE Goal == c \in 1..Len(challenge') /\ SameCode(challenge[c], challenge'[c])
<1>0. challenge \in Seq(Challenge) /\ Len(challenge) \in Nat
  BY LensType
<1>1. ASSUME UNCHANGED challenge PROVE Goal
  BY <1>1 DEF SameCode
<1>2. ASSUME NEW chals, challenge' = Invalidate(chals) PROVE Goal
  <2>1. Len(challenge') = Len(challenge)
    BY <1>0, <1>2, InvalidateType
  <2> QED
    BY <1>2, <2>1, InvalidateSame
<1>3. ASSUME NEW k \in 1..Len(challenge), NEW row \in Challenge, SameCode(challenge[k], row),
             challenge' = [challenge EXCEPT ![k] = row]
      PROVE  Goal
  <2>1. /\ Len(challenge') = Len(challenge) /\ challenge'[k] = row
        /\ \A d \in 1..Len(challenge) : d # k => challenge'[d] = challenge[d]
    BY <1>3, ChallengeStep
  <2> QED
    BY <1>3, <2>1 DEF SameCode
<1>4. ASSUME NEW k \in 1..Len(challenge), challenge' = [challenge EXCEPT ![k].consumed = TRUE] PROVE Goal
  <2>1. Len(challenge') = Len(challenge)
    BY <1>0, <1>4
  <2> QED
    BY <1>0, <1>4, <2>1, ConsumeSame
<1>5. ASSUME NEW r \in Reqs, StartCommit(r) PROVE Goal
  <2>1. CASE req[r].user = None
    BY <1>1, <1>5, <2>1 DEF StartCommit
  <2>2. CASE req[r].user # None
    <3> DEFINE inv == Invalidate(req[r].chals)
    <3>1. PICK new : challenge' = Append(inv, new)
      BY <1>5, <2>2 DEF StartCommit
    <3>2. inv \in Seq(Challenge) /\ Len(inv) = Len(challenge) /\ SameCode(challenge[c], inv[c])
      BY <1>0, InvalidateType, InvalidateSame
    <3> HIDE DEF inv
    <3>3. Len(challenge') = Len(challenge) + 1 /\ challenge'[c] = inv[c]
      BY <1>0, <3>1, <3>2
    <3> QED
      BY <1>0, <3>2, <3>3
  <2> QED
    BY <2>1, <2>2
<1>6. ASSUME NEW k \in Nat, NEW st \in {"SENT", "FAILED"}, Deliver(k, st) PROVE Goal
  <2> DEFINE row == [challenge[k] EXCEPT !.delivery = st]
  <2>1. k \in 1..Len(challenge) /\ challenge' = [challenge EXCEPT ![k] = row] /\ challenge[k].delivery = "PENDING"
    BY <1>6 DEF Deliver
  <2>2. row \in Challenge /\ SameCode(challenge[k], row)
    BY <2>1, LensType DEF Challenge, SameCode, Mailed
  <2> HIDE DEF row
  <2> QED
    BY <1>3, <2>1, <2>2
<1>7. ASSUME NEW r \in Reqs, VerifyCount(r) PROVE Goal
  <2>1. PICK k \in 1..Len(challenge) : k = req[r].chal /\ challenge[k] \in Challenge
    BY <1>7, VerifyingOK DEF VerifyCount
  <2> DEFINE row == [challenge[k] EXCEPT !.attempts = @ + 1]
  <2>2. row \in Challenge /\ SameCode(challenge[k], row)
    <3>1. /\ row \in Challenge /\ row.user = challenge[k].user /\ row.to = challenge[k].to
          /\ row.purpose = challenge[k].purpose /\ row.delivery = challenge[k].delivery
      BY SMTT(30), <2>1 DEF Challenge
    <3> HIDE DEF row
    <3> QED
      BY <3>1 DEF SameCode, Mailed
  <2>3. challenge' = [challenge EXCEPT ![k] = row]
    BY <1>7, <2>1 DEF VerifyCount
  <2> HIDE DEF row
  <2> QED
    BY <1>3, <2>1, <2>2, <2>3
<1>8. ASSUME NEW r \in Reqs, VerifyCompare(r) PROVE Goal
  <2>1. PICK k \in 1..Len(challenge) : k = req[r].chal /\ challenge[k] \in Challenge
    BY <1>8, VerifyingOK DEF VerifyCompare
  <2> DEFINE row == [challenge[k] EXCEPT !.compared = @ + 1]
  <2>2. row \in Challenge /\ SameCode(challenge[k], row)
    <3>1. /\ row \in Challenge /\ row.user = challenge[k].user /\ row.to = challenge[k].to
          /\ row.purpose = challenge[k].purpose /\ row.delivery = challenge[k].delivery
      BY SMTT(30), <2>1 DEF Challenge
    <3> HIDE DEF row
    <3> QED
      BY <3>1 DEF SameCode, Mailed
  <2>3. challenge' = [challenge EXCEPT ![k] = row]
    BY <1>8, <2>1 DEF VerifyCompare
  <2> HIDE DEF row
  <2> QED
    BY <1>3, <2>1, <2>2, <2>3
<1>9. ASSUME NEW r \in Reqs, VerifyLoginRefused(r) \/ ChangeRefused(r) PROVE Goal
  <2>1. req[r].chal \in 1..Len(challenge)
    BY <1>9, VerifyingOK DEF VerifyLoginRefused, ChangeRefused, Claims
  <2> QED
    BY <1>4, <1>9, <2>1 DEF VerifyLoginRefused, ChangeRefused
<1>10. ASSUME NEW r \in Reqs, IssueCommit(r) PROVE Goal
  <2>1. req[r].chal \in 0..Len(challenge)
    BY <1>10, LensType DEF IssueCommit, TypeInv, StageOK, ReqOK
  <2>2. CASE req[r].chal = 0
    BY <1>1, <1>10, <2>2 DEF IssueCommit
  <2>3. CASE req[r].chal # 0
    <3>1. PICK k \in 1..Len(challenge) : k = req[r].chal
      BY <1>0, <2>1, <2>3
    <3>2. challenge' = [challenge EXCEPT ![k].consumed = TRUE]
      BY <1>10, <2>3, <3>1 DEF IssueCommit
    <3> QED
      BY <1>4, <3>2
  <2> QED
    BY <2>2, <2>3
<1>11. ASSUME NEW r \in Reqs, ChangeCommit(r) PROVE Goal
  <2> DEFINE inv == Invalidate(req[r].chals)
             k == req[r].chal
  <2>1. k \in 1..Len(challenge) /\ challenge' = [inv EXCEPT ![k].consumed = TRUE]
    BY <1>11, VerifyingOK DEF ChangeCommit
  <2>2. inv \in Seq(Challenge) /\ Len(inv) = Len(challenge) /\ SameCode(challenge[c], inv[c])
    BY <1>0, InvalidateType, InvalidateSame
  <2> HIDE DEF inv, k
  <2>3. Len(challenge') = Len(challenge) /\ SameCode(inv[c], challenge'[c])
    BY <2>1, <2>2, ConsumeSame
  <2> QED
    BY <2>2, <2>3 DEF SameCode
<1> HIDE DEF Goal
<1>12. ASSUME NEW r \in Reqs, Ask(r) PROVE Goal
  BY <1>1, <1>5, <1>12, AskPasses
<1>13. ASSUME NEW r \in Reqs, Verify(r) PROVE Goal
  <2>1. CASE VerifyCount(r) \/ VerifyCompare(r)
    BY <1>7, <1>8, <2>1
  <2>2. CASE VerifyLoginRefused(r) \/ ChangeRefused(r) \/ IssueCommit(r) \/ ChangeCommit(r)
    BY <1>9, <1>10, <1>11, <2>2
  <2>3. CASE \/ \E k \in 1..MaxChallenges, s \in 0..MaxSessions, p \in Purposes :
                    VerifyRead(r, k, p, s)
             \/ \E k \in Channels : VerifyLogin(r, k) \/ RegisterSession(r, k)
             \/ ChangeBegin(r)
    BY <1>1, <2>3, VerifyPasses
  <2> QED
    BY <1>13, <2>1, <2>2, <2>3 DEF Verify
<1>14. ASSUME NEW k \in 1..MaxChallenges, VerifyExpired(k) \/ \E st \in {"SENT", "FAILED"} : Deliver(k, st)
       PROVE  Goal
  <2>1. 1..MaxChallenges \subseteq Nat
    BY AuthAssumption
  <2> QED
    BY <1>2, <1>6, <1>14, <2>1 DEF VerifyExpired
<1>15. ASSUME \/ Tick
              \/ \E r \in Reqs : GiveUp(r)
              \/ \E s \in 1..MaxSessions : Logout(s) \/ LogoutAll(s)
              \/ \E u \in Users : SetEnabled(u)
              \/ UNCHANGED vars
       PROVE  Goal
  BY <1>1, <1>15 DEF Tick, GiveUp, Logout, LogoutAll, SetEnabled, vars
<1>16. Goal
  BY <1>12, <1>13, <1>14, <1>15 DEF Next
<1> QED
  BY <1>16 DEF Goal

LEMMA SessionsKept ==
    ASSUME TypeInv, [Next]_vars, NEW s \in 1..Len(session)
    PROVE  s \in 1..Len(session') /\ session'[s].user = session[s].user
<1>0. session \in Seq(Session) /\ Len(session) \in Nat
  BY LensType
<1>1. CASE UNCHANGED session
  BY <1>1
<1>2. ASSUME NEW ids, session' = Revoked(ids)
      PROVE  s \in 1..Len(session') /\ session'[s].user = session[s].user
  BY <1>0, <1>2, RevokedType
<1>3. ASSUME NEW r \in Reqs, IssueCommit(r)
      PROVE  s \in 1..Len(session') /\ session'[s].user = session[s].user
  <2> DEFINE rev == Revoked(req[r].sessions)
  <2>1. PICK new : session' = Append(rev, new)
    BY <1>3 DEF IssueCommit
  <2>2. rev \in Seq(Session) /\ Len(rev) = Len(session) /\ rev[s].user = session[s].user
    BY <1>0, RevokedType
  <2> HIDE DEF rev
  <2>3. Len(session') = Len(session) + 1 /\ session'[s] = rev[s]
    BY <1>0, <2>1, <2>2
  <2> QED
    BY <1>0, <2>2, <2>3
<1>4. ASSUME NEW r \in Reqs, Ask(r) PROVE UNCHANGED session
  BY <1>4 DEF Ask, RequestCode, RequestEmailChange, PasswordLogin, Register, StartCommit
<1>5. ASSUME NEW r \in Reqs, Verify(r)
      PROVE  UNCHANGED session \/ IssueCommit(r) \/ \E ids : session' = Revoked(ids)
  BY <1>5 DEF Verify, VerifyRead, VerifyCount, VerifyCompare, VerifyLogin, VerifyLoginRefused,
              RegisterSession, ChangeBegin, ChangeRefused, ChangeCommit
<1>6. CASE ~\E r \in Reqs : Ask(r) \/ Verify(r)
  <2>1. UNCHANGED session \/ \E ids : session' = Revoked(ids)
    BY <1>6 DEF Next, vars, Tick, Deliver, VerifyExpired, Logout, LogoutAll, GiveUp, SetEnabled
  <2> QED
    BY <1>1, <1>2, <2>1
<1> QED
  BY <1>1, <1>2, <1>3, <1>4, <1>5, <1>6

LEMMA ChangeOKStays ==
    ASSUME TypeInv, TablesKept, NEW r \in Reqs, ChangeOK(r), req'[r] = req[r]
    PROVE  ChangeOK(r)'
<1>1. ASSUME req[r].stage \in {"read", "counted", "compared", "changing"}
      PROVE  /\ Mailed(challenge'[req[r].chal])
             /\ challenge'[req[r].chal].user = challenge[req[r].chal].user
             /\ challenge'[req[r].chal].purpose = challenge[req[r].chal].purpose
             /\ req[r].purpose = "EMAIL_CHANGE" =>
                    session'[req[r].sid].user = session[req[r].sid].user
  BY <1>1, VerifyingOK DEF ChangeOK, TablesKept, SameCode
<1>2. ASSUME NEW s \in req[r].sessions, req[r].stage = "changing"
      PROVE  s \in 1..Len(session') /\ session'[s].user = req[r].user
  BY <1>2 DEF ChangeOK, TablesKept
<1> QED
  BY <1>1, <1>2 DEF ChangeOK

\* The other requests of a step of r.
LEMMA ChangeOthers ==
    ASSUME TypeInv, TablesKept, ChangeInv, NEW r \in Reqs, NEW new, SetReq(r, new),
           ChangeOK(r)'
    PROVE  ChangeInv'
<1>1. \A q \in Reqs \ {r} : req'[q] = req[q]
  BY LensType DEF SetReq
<1> QED
  BY <1>1, ChangeOKStays DEF ChangeInv

LEMMA ChangeElsewhere ==
    ASSUME TypeInv, TablesKept, ChangeInv, NEW r \in Reqs, NEW new, SetReq(r, new),
           new.stage \in {"idle", "starting", "registered", "issuing"}
    PROVE  ChangeInv'
<1>1. req'[r] = new
  BY LensType DEF SetReq
<1>2. ChangeOK(r)'
  BY <1>1 DEF ChangeOK
<1> QED
  BY <1>2, ChangeOthers

LEMMA ReadChange ==
    ASSUME TypeInv, TablesKept, ChangeInv, NEW r \in Reqs, NEW c \in Nat, NEW s \in Nat,
           NEW p \in Purposes, VerifyRead(r, c, p, s)
    PROVE  ChangeInv'
<1>1. PICK right \in BOOLEAN :
        SetReq(r, [IdleReq EXCEPT !.stage = "read", !.purpose = p, !.chal = c,
                       !.sid = s, !.right = right])
  BY DEF VerifyRead
<1> DEFINE new == [IdleReq EXCEPT !.stage = "read", !.purpose = p, !.chal = c,
                       !.sid = s, !.right = right]
<1>2. new.stage = "read" /\ new.purpose = p /\ new.chal = c /\ new.sid = s
  BY DEF IdleReq
<1>3. SetReq(r, new)
  BY <1>1
<1> HIDE DEF new
<1>4. req'[r] = new
  BY <1>3, LensType DEF SetReq
<1>5. c \in 1..Len(challenge) /\ Mailed(challenge[c]) /\ challenge' = challenge /\ session' = session
  BY DEF VerifyRead, Mailed
<1>6. p = "EMAIL_CHANGE" => challenge[c].user = session[s].user
  <2>1. p = "EMAIL_CHANGE" => s \in 1..Len(session)
    BY DEF VerifyRead
  <2> QED
    BY <2>1 DEF VerifyRead, Owns
<1>7. ChangeOK(r)'
  BY <1>2, <1>4, <1>5, <1>6 DEF ChangeOK
<1> QED
  BY <1>3, <1>7, ChangeOthers

LEMMA GoOnChange ==
    ASSUME TypeInv, TablesKept, ChangeInv, NEW r \in Reqs, NEW stage \in {"counted", "compared"},
           req[r].stage \in {"read", "counted"}, SetReq(r, [req[r] EXCEPT !.stage = stage])
    PROVE  ChangeInv'
<1> DEFINE new == [req[r] EXCEPT !.stage = stage]
<1>1. /\ new.stage = stage /\ new.purpose = req[r].purpose /\ new.chal = req[r].chal
      /\ new.sid = req[r].sid
  BY LensType DEF Req
<1>2. SetReq(r, new)
  OBVIOUS
<1> HIDE DEF new
<1>3. req'[r] = new
  BY <1>2, LensType DEF SetReq
<1>4. /\ Mailed(challenge'[req[r].chal])
      /\ challenge'[req[r].chal].user = challenge[req[r].chal].user
      /\ req[r].purpose = "EMAIL_CHANGE" => session'[req[r].sid].user = session[req[r].sid].user
  BY VerifyingOK DEF ChangeInv, ChangeOK, TablesKept, SameCode
<1>5. req[r].purpose = "EMAIL_CHANGE" => challenge[req[r].chal].user = session[req[r].sid].user
  BY DEF ChangeInv, ChangeOK
<1>6. ChangeOK(r)'
  BY <1>1, <1>3, <1>4, <1>5 DEF ChangeOK
<1> QED
  BY <1>2, <1>6, ChangeOthers

LEMMA BeginChange ==
    ASSUME TypeInv, TablesKept, EarnedInv, ChangeInv, NEW r \in Reqs, ChangeBegin(r)
    PROVE  ChangeInv'
<1> DEFINE u == session[req[r].sid].user
           new == [req[r] EXCEPT !.stage = "changing", !.user = u,
                       !.chals = OpenChallenges(u, "EMAIL_CHANGE") \ {req[r].chal},
                       !.sessions = ActiveSessions(u) \ {req[r].sid}]
<1>1. /\ new.stage = "changing" /\ new.purpose = req[r].purpose /\ new.chal = req[r].chal
      /\ new.sid = req[r].sid /\ new.user = u /\ new.sessions \subseteq ActiveSessions(u)
  BY LensType DEF Req
<1>2. SetReq(r, new) /\ challenge' = challenge /\ session' = session
  BY DEF ChangeBegin
<1> HIDE DEF new
<1>3. req'[r] = new
  BY <1>2, LensType DEF SetReq
<1>4. req[r].stage = "compared" /\ req[r].purpose = "EMAIL_CHANGE"
  BY DEF ChangeBegin, Claims
<1>5. /\ Mailed(challenge[req[r].chal]) /\ challenge[req[r].chal].user = u
      /\ challenge[req[r].chal].purpose = "EMAIL_CHANGE"
  BY <1>4 DEF ChangeInv, ChangeOK, EarnedInv, ClaimsOK, ClaimOK
<1>6. \A s \in new.sessions : s \in 1..Len(session) /\ session[s].user = u
  BY <1>1 DEF ActiveSessions
<1>7. ChangeOK(r)'
  BY <1>1, <1>2, <1>3, <1>4, <1>5, <1>6 DEF ChangeOK
<1> QED
  BY <1>2, <1>7, ChangeOthers

LEMMA ChangeStep == TypeInv /\ EarnedInv /\ ChangeInv /\ [Next]_vars => ChangeInv'
<1> SUFFICES ASSUME TypeInv, EarnedInv, ChangeInv, [Next]_vars
             PROVE  ChangeInv'
  OBVIOUS
<1>0. TablesKept
  BY CodesKept, SessionsKept DEF TablesKept
<1>1. ASSUME NEW r \in Reqs, Ask(r) PROVE ChangeInv'
  BY <1>0, <1>1, AskStage, ChangeElsewhere
<1>2. ASSUME NEW r \in Reqs, Verify(r) PROVE ChangeInv'
  <2>1. CASE \E c \in 1..MaxChallenges, s \in 0..MaxSessions, p \in Purposes : VerifyRead(r, c, p, s)
    <3>1. 1..MaxChallenges \subseteq Nat /\ 0..MaxSessions \subseteq Nat
      BY AuthAssumption
    <3> QED
      BY <1>0, <2>1, <3>1, ReadChange
  <2>2. CASE VerifyCount(r)
    BY <1>0, <2>2, GoOnChange DEF VerifyCount
  <2>3. CASE VerifyCompare(r)
    <3>1. CASE SetReq(r, IdleReq)
      BY <1>0, <3>1, ChangeElsewhere DEF IdleReq
    <3>2. CASE SetReq(r, [req[r] EXCEPT !.stage = "compared"])
      BY <1>0, <2>3, <3>2, GoOnChange DEF VerifyCompare
    <3> QED
      BY <2>3, <3>1, <3>2 DEF VerifyCompare
  <2>4. CASE \E c \in Channels : VerifyLogin(r, c) \/ RegisterSession(r, c)
    <3>1. PICK u, c : Issue(r, u, c)
      BY <2>4 DEF VerifyLogin, RegisterSession
    <3> DEFINE new == [req[r] EXCEPT !.stage = "issuing", !.user = u, !.channel = c,
                           !.sessions = {s \in ActiveSessions(u) : session[s].channel = c}]
    <3>2. SetReq(r, new) /\ new.stage = "issuing"
      BY <3>1, LensType DEF Issue, Req
    <3> HIDE DEF new
    <3> QED
      BY <1>0, <3>2, ChangeElsewhere
  <2>5. CASE VerifyLoginRefused(r) \/ ChangeRefused(r) \/ IssueCommit(r) \/ ChangeCommit(r)
    <3>1. SetReq(r, IdleReq) /\ IdleReq.stage = "idle"
      BY <2>5 DEF VerifyLoginRefused, ChangeRefused, IssueCommit, ChangeCommit, IdleReq
    <3> QED
      BY <1>0, <3>1, ChangeElsewhere
  <2>6. CASE ChangeBegin(r)
    BY <1>0, <2>6, BeginChange
  <2> QED
    BY <1>2, <2>1, <2>2, <2>3, <2>4, <2>5, <2>6 DEF Verify
<1>3. ASSUME NEW r \in Reqs, GiveUp(r) PROVE ChangeInv'
  BY <1>0, <1>3, ChangeElsewhere DEF GiveUp, IdleReq
<1>4. CASE UNCHANGED req
  BY <1>0, <1>4, ChangeOKStays DEF ChangeInv
<1>5. CASE ~\E r \in Reqs : Ask(r) \/ Verify(r) \/ GiveUp(r)
  <2>1. UNCHANGED req
    BY <1>5 DEF Next, vars, Tick, Deliver, VerifyExpired, Logout, LogoutAll, SetEnabled
  <2> QED
    BY <1>4, <2>1
<1> QED
  BY <1>1, <1>2, <1>3, <1>5

\* A step that moves the address of an account is the commit of a change.
LEMMA MovesByChange ==
    ASSUME TypeInv, [Next]_vars, NEW u \in Users, email[u] # None, email'[u] # email[u]
    PROVE  \E r \in Reqs : ChangeCommit(r) /\ req[r].user = u
<1>0. email \in [Users -> Emails \cup {None}]
  BY DEF TypeInv, TypeOK
<1>1. ASSUME NEW r \in Reqs, NEW v \in Users, NEW e \in Emails, Register(r, v, e) PROVE FALSE
  BY <1>0, <1>1 DEF Register
<1>2. ASSUME NEW r \in Reqs, ChangeCommit(r) PROVE req[r].user = u
  BY <1>0, <1>2 DEF ChangeCommit
<1>3. ASSUME NEW r \in Reqs, Ask(r)
      PROVE  UNCHANGED email \/ \E v \in Users, e \in Emails : Register(r, v, e)
  BY <1>3 DEF Ask, RequestCode, PasswordLogin, RequestEmailChange, StartCommit
<1>4. ASSUME NEW r \in Reqs, Verify(r)
      PROVE  UNCHANGED email \/ ChangeCommit(r)
  BY <1>4 DEF Verify, VerifyRead, VerifyCount, VerifyCompare, VerifyLogin, VerifyLoginRefused,
              RegisterSession, IssueCommit, ChangeBegin, ChangeRefused
<1>5. CASE ~\E r \in Reqs : Ask(r) \/ Verify(r)
  <2>1. UNCHANGED email
    BY <1>5 DEF Next, vars, Tick, Deliver, VerifyExpired, Logout, LogoutAll, GiveUp, SetEnabled
  <2> QED
    BY <2>1
<1> QED
  BY <1>1, <1>2, <1>3, <1>4, <1>5

\* However registrations, logins, deliveries and changes interleave, an account
\* moves to an address only in the transaction that uses up a code which was
\* mailed to that address for that account, and no other user is signed out by it.
THEOREM EmailChangeHolds == Spec => EmailChangeIsProven
<1>1. Init => ChangeInv
  BY DEF Init, ChangeInv, ChangeOK, IdleReq
<1>2. Init => EarnedInv
  BY DEF Init, EarnedInv, ClaimsOK, ClaimOK, OneClaim, IdleReq, Referring, SessionsAreEarned
<1>3. TypeInv /\ EarnedInv /\ [Next]_vars => EarnedInv'
  BY EarnedStep
<1>4. TypeInv /\ EarnedInv /\ ChangeInv /\ [Next]_vars =>
        [\A u \in Users : email[u] # None /\ email'[u] # email[u] =>
            /\ \E c \in 1..Len(challenge) :
                /\ challenge[c].user = u /\ challenge[c].to = email'[u]
                /\ challenge[c].purpose = "EMAIL_CHANGE" /\ challenge[c].delivery \notin {"PENDING", "FAILED"}
                /\ ~challenge[c].consumed /\ challenge'[c].consumed
            /\ \A s \in 1..Len(session) : session[s].user # u => session'[s] = session[s]]_vars
  <2> SUFFICES ASSUME TypeInv, EarnedInv, ChangeInv, [Next]_vars,
                      NEW u \in Users, email[u] # None, email'[u] # email[u]
               PROVE  /\ \E c \in 1..Len(challenge) :
                           /\ challenge[c].user = u /\ challenge[c].to = email'[u]
                           /\ challenge[c].purpose = "EMAIL_CHANGE"
                           /\ challenge[c].delivery \notin {"PENDING", "FAILED"}
                           /\ ~challenge[c].consumed /\ challenge'[c].consumed
                      /\ \A s \in 1..Len(session) : session[s].user # u => session'[s] = session[s]
    OBVIOUS
  <2>1. PICK r \in Reqs : ChangeCommit(r) /\ req[r].user = u
    BY MovesByChange
  <2>2. PICK c \in 1..Len(challenge) : c = req[r].chal
    BY <2>1, VerifyingOK DEF ChangeCommit
  <2>3. /\ challenge[c].user = u /\ challenge[c].purpose = "EMAIL_CHANGE" /\ Mailed(challenge[c])
        /\ \A s \in req[r].sessions : session[s].user = u
    BY <2>1, <2>2 DEF ChangeCommit, ChangeInv, ChangeOK
  <2>4. email'[u] = challenge[c].to
    BY <2>1, <2>2 DEF ChangeCommit, Target, TypeInv, TypeOK
  <2>5. ~challenge[c].consumed
    BY <2>1, <2>2 DEF ChangeCommit, EarnedInv, ClaimsOK, ClaimOK
  <2>6. challenge'[c].consumed
    BY <2>1, <2>2, UsesOwn, LensType DEF Uses
  <2>7. ASSUME NEW s \in 1..Len(session), session[s].user # u PROVE session'[s] = session[s]
    <3>1. s \notin req[r].sessions /\ s \in DOMAIN session
      BY <2>3, <2>7, LensType
    <3> QED
      BY <2>1, <3>1 DEF ChangeCommit, Revoked
  <2> QED
    BY <2>3, <2>4, <2>5, <2>6, <2>7 DEF Mailed
<1>5. TypeInv /\ EarnedInv /\ ChangeInv /\ [Next]_vars => ChangeInv'
  BY ChangeStep
<1> QED
  BY <1>1, <1>2, <1>3, <1>4, <1>5, TypeInvAlways, PTL DEF Spec, EmailChangeIsProven

-----------------------------------------------------------------------------
(***************************************************************************)
(* The send limits.  In one process the lock is held from the counting of  *)
(* the sends to the commit of the new one, so that what was counted is     *)
(* still what is there.  In two processes the limits may be exceeded.      *)
(***************************************************************************)
OneServer == \A r, q \in Reqs : Proc[r] = Proc[q]

Listing(r) == req[r].stage = "starting" /\ req[r].listed

SendInv ==
    /\ \A i \in 1..Len(ledger) : ledger[i].at <= now
    /\ \A r \in Reqs : Listing(r) => ~RateLimited(req[r].to, req[r].ip)
    /\ \A r, q \in Reqs : Listing(r) /\ Listing(q) => r = q
    /\ SendsLimited

\* The sends of a log, keyed by `key`, in the window that opens with send i; and
\* those in the window that ends today and that the next send's key has.
Within(log, key, i) == {j \in 1..Len(log) : /\ log[j].at >= log[i].at
                                            /\ log[j].at <= log[i].at + Window
                                            /\ key[j] = key[i]}

Since(log, key, today) ==
    {j \in 1..Len(log) : log[j].at + Window >= today /\ key[j] = key[Len(log) + 1]}

\* A new send in a log whose sends carry the keys `key`: no window of the old
\* ones exceeds the limit m, nor does the window before the new one.
LEMMA WindowGrows ==
    ASSUME NEW log \in Seq(Send), NEW today \in Nat, NEW key, NEW m \in Nat,
           \A j \in 1..Len(log) : log[j].at <= today,
           NEW x \in Send, x.at = today,
           NEW i \in 1..(Len(log) + 1),
           i # Len(log) + 1 => Cardinality(Within(log, key, i)) <= m,
           key[i] = key[Len(log) + 1] => ~(Cardinality(Since(log, key, today)) >= m)
    PROVE  Cardinality(Within(Append(log, x), key, i)) <= m
<1> DEFINE n == Len(log) + 1
           new == Append(log, x)
           W == {j \in 1..Len(new) : /\ new[j].at >= new[i].at
                                     /\ new[j].at <= new[i].at + Window
                                     /\ key[j] = key[i]}
           V == {j \in 1..Len(log) : /\ log[j].at >= log[i].at
                                     /\ log[j].at <= log[i].at + Window
                                     /\ key[j] = key[i]}
           R == {j \in 1..Len(log) : log[j].at + Window >= today /\ key[j] = key[n]}
<1>0. /\ W = Within(new, key, i) /\ V = Within(log, key, i) /\ R = Since(log, key, today)
  BY DEF Within, Since
<1>1. /\ Len(log) \in Nat /\ n \in Nat /\ Len(new) = n /\ new[n] = x
      /\ \A j \in 1..Len(log) : new[j] = log[j] /\ log[j] \in Send
      /\ \A j \in 1..n : new[j] \in Send
  OBVIOUS
<1>2. IsFiniteSet(V) /\ IsFiniteSet(R) /\ Cardinality(V) \in Nat /\ Cardinality(R) \in Nat
  <2>1. V \subseteq 1..Len(log) /\ R \subseteq 1..Len(log)
    OBVIOUS
  <2>2. IsFiniteSet(1..Len(log))
    <3>1. PICK k \in Int : k = Len(log)
      BY <1>1
    <3>2. IsFiniteSet(1..k)
      BY FS_Interval
    <3> QED
      BY <3>1, <3>2
  <2> HIDE DEF V, R
  <2> QED
    BY <2>1, <2>2, FS_Subset, FS_CardinalityType
<1>3. Window \in Nat /\ \A j \in 1..n : new[j].at \in Nat
  BY <1>1, AuthAssumption DEF Send
<1>4. CASE n \in W
  <2>1. key[i] = key[n] /\ today <= new[i].at + Window
    BY <1>1, <1>4
  <2>2. W \subseteq R \cup {n}
    <3> SUFFICES ASSUME NEW j \in W, j # n PROVE j \in R
      OBVIOUS
    <3>1. j \in 1..Len(log) /\ new[j] = log[j] /\ new[j].at >= new[i].at /\ key[j] = key[i]
      BY <1>1
    <3>2. log[j].at + Window >= today
      BY <1>1, <1>3, <2>1, <3>1
    <3> QED
      BY <2>1, <3>1, <3>2
  <2>3. n \notin R
    BY <1>1
  <2>4. Cardinality(R) < m
    <3>1. ~(Cardinality(Since(log, key, today)) >= m)
      BY <2>1
    <3>2. ~(Cardinality(R) >= m)
      BY <1>0, <3>1
    <3> HIDE DEF R
    <3> QED
      BY <1>2, <3>2
  <2> HIDE DEF W, R, n, new
  <2>5. IsFiniteSet(R \cup {n}) /\ Cardinality(R \cup {n}) = Cardinality(R) + 1
    BY <1>2, <2>3, FS_AddElement
  <2>6. Cardinality(W) <= Cardinality(R \cup {n}) /\ Cardinality(W) \in Nat
    BY <2>2, <2>5, FS_Subset, FS_CardinalityType
  <2>7. Cardinality(W) <= m
    BY <1>2, <2>4, <2>5, <2>6
  <2> QED
    BY <1>0, <2>7 DEF new
<1>5. CASE n \notin W
  <2>1. i # n
    BY <1>1, <1>3, <1>5
  <2>2. i \in 1..Len(log)
    BY <1>1, <2>1
  <2>3. W \subseteq V
    <3> SUFFICES ASSUME NEW j \in W PROVE j \in V
      OBVIOUS
    <3>1. j # n /\ j \in 1..n
      BY <1>1, <1>5
    <3>2. j \in 1..Len(log)
      BY <1>1, <3>1
    <3> QED
      BY <1>1, <2>2, <3>2
  <2>4. Cardinality(V) <= m
    BY <1>0, <2>1
  <2> HIDE DEF W, V, n, new
  <2>5. Cardinality(W) <= Cardinality(V) /\ Cardinality(W) \in Nat
    BY <1>2, <2>3, FS_Subset, FS_CardinalityType
  <2>6. Cardinality(W) <= m
    BY <1>2, <2>4, <2>5
  <2> QED
    BY <1>0, <2>6 DEF new
<1> QED
  BY <1>4, <1>5

\* The sends are only added to, by the commit of a request that has been counted.
LEMMA LedgerStep ==
    ASSUME TypeInv, [Next]_vars
    PROVE  \/ UNCHANGED ledger
           \/ /\ UNCHANGED now
              /\ \E r \in Reqs : /\ Listing(r) /\ SetReq(r, IdleReq)
                                 /\ ledger' = Append(ledger, [to |-> req[r].to, ip |-> req[r].ip, at |-> now])
<1>1. ASSUME NEW r \in Reqs, Ask(r)
      PROVE  UNCHANGED ledger \/ StartCommit(r)
  BY <1>1 DEF Ask, RequestCode, RequestEmailChange, PasswordLogin, Register
<1>2. ASSUME NEW r \in Reqs, StartCommit(r)
      PROVE  \/ UNCHANGED ledger
             \/ /\ UNCHANGED now /\ Listing(r) /\ SetReq(r, IdleReq)
                /\ ledger' = Append(ledger, [to |-> req[r].to, ip |-> req[r].ip, at |-> now])
  BY <1>2 DEF StartCommit, Listing
<1>3. ASSUME NEW r \in Reqs, Verify(r) PROVE UNCHANGED ledger
  BY <1>3 DEF Verify, VerifyRead, VerifyCount, VerifyCompare, VerifyLogin, VerifyLoginRefused,
              RegisterSession, IssueCommit, ChangeBegin, ChangeRefused, ChangeCommit
<1>4. CASE ~\E r \in Reqs : Ask(r) \/ Verify(r)
  BY <1>4 DEF Next, vars, Tick, Deliver, VerifyExpired, Logout, LogoutAll, GiveUp, SetEnabled
<1> QED
  BY <1>1, <1>2, <1>3, <1>4

\* The day only changes when no request is under way.
LEMMA ClockStep ==
    ASSUME TypeInv, [Next]_vars
    PROVE  \/ UNCHANGED now
           \/ now' = now + 1 /\ UNCHANGED <<ledger, req>> /\ \A r \in Reqs : ~Listing(r)
<1>1. ASSUME NEW r \in Reqs, Ask(r) PROVE UNCHANGED now
  BY <1>1 DEF Ask, RequestCode, RequestEmailChange, PasswordLogin, Register, StartCommit
<1>2. ASSUME NEW r \in Reqs, Verify(r) PROVE UNCHANGED now
  BY <1>2 DEF Verify, VerifyRead, VerifyCount, VerifyCompare, VerifyLogin, VerifyLoginRefused,
              RegisterSession, IssueCommit, ChangeBegin, ChangeRefused, ChangeCommit
<1>3. CASE Tick
  BY <1>3 DEF Tick, Listing
<1>4. CASE ~Tick /\ ~\E r \in Reqs : Ask(r) \/ Verify(r)
  BY <1>4 DEF Next, vars, Deliver, VerifyExpired, Logout, LogoutAll, GiveUp, SetEnabled
<1> QED
  BY <1>1, <1>2, <1>3, <1>4

\* A request that holds the lock has held it before, or has just counted the sends.
LEMMA ListingStep ==
    ASSUME TypeInv, [Next]_vars, NEW q \in Reqs, Listing(q)'
    PROVE  \/ req'[q] = req[q]
           \/ /\ LimitLockFree(q) /\ ~RateLimited(req'[q].to, req'[q].ip)
              /\ UNCHANGED <<now, ledger>> /\ \A p \in Reqs \ {q} : req'[p] = req[p]
<1> DEFINE Goal == \/ req'[q] = req[q]
                   \/ /\ LimitLockFree(q) /\ ~RateLimited(req'[q].to, req'[q].ip)
                      /\ UNCHANGED <<now, ledger>> /\ \A p \in Reqs \ {q} : req'[p] = req[p]
<1>1. ASSUME NEW r \in Reqs, NEW new, SetReq(r, new)
      PROVE  req'[r] = new /\ \A p \in Reqs \ {r} : req'[p] = req[p]
  BY <1>1, LensType DEF SetReq
<1>2. ASSUME NEW r \in Reqs, NEW new, SetReq(r, new), ~(new.stage = "starting" /\ new.listed)
      PROVE  Goal
  BY <1>1, <1>2 DEF Listing
<1>3. ASSUME NEW r \in Reqs, NEW to, NEW ip, RequestCode(r, to, ip) PROVE Goal
  <2>1. PICK u : SetReq(r, [IdleReq EXCEPT !.stage = "starting", !.to = to, !.ip = ip,
                                !.listed = TRUE, !.user = u, !.chals = OpenChallenges(u, "LOGIN")])
    BY <1>3 DEF RequestCode
  <2> DEFINE new == [IdleReq EXCEPT !.stage = "starting", !.to = to, !.ip = ip, !.listed = TRUE,
                         !.user = u, !.chals = OpenChallenges(u, "LOGIN")]
  <2>2. new.to = to /\ new.ip = ip
    BY DEF IdleReq
  <2>3. SetReq(r, new)
    BY <2>1
  <2> HIDE DEF new
  <2> QED
    BY <1>1, <1>3, <2>2, <2>3 DEF RequestCode
<1>4. ASSUME NEW r \in Reqs, NEW s, NEW to, NEW ip, RequestEmailChange(r, s, to, ip) PROVE Goal
  <2> DEFINE new == [IdleReq EXCEPT !.stage = "starting", !.purpose = "EMAIL_CHANGE",
                         !.to = to, !.ip = ip, !.listed = TRUE, !.user = session[s].user,
                         !.chals = OpenChallenges(session[s].user, "EMAIL_CHANGE")]
  <2>1. SetReq(r, new)
    BY <1>4 DEF RequestEmailChange
  <2>2. new.to = to /\ new.ip = ip
    BY DEF IdleReq
  <2> HIDE DEF new
  <2> QED
    BY <1>1, <1>4, <2>1, <2>2 DEF RequestEmailChange
<1>5. ASSUME NEW r \in Reqs, NEW u, PasswordLogin(r, u) PROVE Goal
  <2> DEFINE new == [IdleReq EXCEPT !.stage = "starting", !.to = email[u], !.user = u,
                         !.chals = OpenChallenges(u, "LOGIN")]
  <2>1. SetReq(r, new) /\ new.listed = FALSE
    BY <1>5 DEF PasswordLogin, IdleReq
  <2> HIDE DEF new
  <2> QED
    BY <1>2, <2>1
<1>6. ASSUME NEW r \in Reqs, NEW u, NEW e, Register(r, u, e) PROVE Goal
  <2> DEFINE new == [IdleReq EXCEPT !.stage = "registered", !.user = u]
  <2>1. SetReq(r, new) /\ new.stage = "registered"
    BY <1>6 DEF Register, IdleReq
  <2> HIDE DEF new
  <2> QED
    BY <1>2, <2>1
<1>7. ASSUME NEW r \in Reqs, SetReq(r, IdleReq) PROVE Goal
  BY <1>2, <1>7 DEF IdleReq
<1>9. ASSUME NEW r \in Reqs, Ask(r) PROVE Goal
  <2>1. CASE StartCommit(r)
    BY <1>7, <2>1 DEF StartCommit
  <2> HIDE DEF Goal
  <2> QED
    BY <1>3, <1>4, <1>5, <1>6, <1>9, <2>1 DEF Ask
<1>11. ASSUME NEW r \in Reqs, Verify(r) PROVE Goal
  <2>1. CASE \/ \E c \in 1..MaxChallenges, s \in 0..MaxSessions, p \in Purposes :
                    VerifyRead(r, c, p, s)
             \/ VerifyCount(r) \/ VerifyCompare(r) \/ VerifyLoginRefused(r) \/ ChangeRefused(r)
    <3>1. PICK new : SetReq(r, new) /\ new.stage \in {"read", "counted", "compared", "idle"}
      BY <2>1, VerifyStage
    <3> QED
      BY <1>2, <3>1
  <2>2. CASE \E c \in Channels : VerifyLogin(r, c) \/ RegisterSession(r, c)
    <3>1. PICK u, c : Issue(r, u, c)
      BY <2>2 DEF VerifyLogin, RegisterSession
    <3> DEFINE new == [req[r] EXCEPT !.stage = "issuing", !.user = u, !.channel = c,
                           !.sessions = {s \in ActiveSessions(u) : session[s].channel = c}]
    <3>2. SetReq(r, new) /\ new.stage = "issuing"
      BY <3>1, LensType DEF Issue, Req
    <3> HIDE DEF new
    <3> QED
      BY <1>2, <3>2
  <2>3. CASE IssueCommit(r) \/ ChangeCommit(r)
    BY <1>7, <2>3 DEF IssueCommit, ChangeCommit
  <2>4. CASE ChangeBegin(r)
    <3> DEFINE u == session[req[r].sid].user
               new == [req[r] EXCEPT !.stage = "changing", !.user = u,
                           !.chals = OpenChallenges(u, "EMAIL_CHANGE") \ {req[r].chal},
                           !.sessions = ActiveSessions(u) \ {req[r].sid}]
    <3>1. SetReq(r, new) /\ new.stage = "changing"
      BY <2>4, LensType DEF ChangeBegin, Req
    <3> HIDE DEF new
    <3> QED
      BY <1>2, <3>1
  <2> HIDE DEF Goal
  <2> QED
    BY <1>11, <2>1, <2>2, <2>3, <2>4 DEF Verify
<1>12. ASSUME NEW r \in Reqs, GiveUp(r) PROVE Goal
  BY <1>7, <1>12 DEF GiveUp
<1>13. CASE ~\E r \in Reqs : Ask(r) \/ Verify(r) \/ GiveUp(r)
  <2>1. UNCHANGED req
    BY <1>13 DEF Next, vars, Tick, Deliver, VerifyExpired, Logout, LogoutAll, SetEnabled
  <2> QED
    BY <2>1
<1> QED
  BY <1>9, <1>11, <1>12, <1>13

\* While neither the clock nor the sends change, the limits answer the same.
LEMMA LimitsKept ==
    ASSUME UNCHANGED <<now, ledger>>, NEW to, NEW ip
    PROVE  RateLimited(to, ip)' = RateLimited(to, ip)
<1>1. Recent(Window)' = Recent(Window) /\ Recent(Cooldown)' = Recent(Cooldown)
  BY DEF Recent
<1> QED
  BY <1>1 DEF RateLimited

\* What the limits allow, as sets of sends.
LEMMA NotLimited ==
    ASSUME NEW to, NEW ip, ~RateLimited(to, ip)
    PROVE  /\ ~(Cardinality({j \in 1..Len(ledger) : ledger[j].at + Window >= now /\ ledger[j].to = to}) >= MaxPerEmail)
           /\ ip # None =>
                  ~(Cardinality({j \in 1..Len(ledger) : ledger[j].at + Window >= now /\ ledger[j].ip = ip}) >= MaxPerIp)
           /\ Cooldown > 0 => \A j \in 1..Len(ledger) :
                  ledger[j].to = to => ~(ledger[j].at + Cooldown >= now)
<1>1. /\ {j \in 1..Len(ledger) : ledger[j].at + Window >= now /\ ledger[j].to = to}
             = {i \in Recent(Window) : ledger[i].to = to}
      /\ {j \in 1..Len(ledger) : ledger[j].at + Window >= now /\ ledger[j].ip = ip}
             = {i \in Recent(Window) : ledger[i].ip = ip}
  BY DEF Recent
<1>2. \A j \in 1..Len(ledger) : ledger[j].at + Cooldown >= now => j \in Recent(Cooldown)
  BY DEF Recent
<1> QED
  BY <1>1, <1>2 DEF RateLimited

\* The limits, one window at a time.
WindowKept(i) ==
    /\ Cardinality({j \in 1..Len(ledger) : /\ ledger[j].at >= ledger[i].at
                                           /\ ledger[j].at <= ledger[i].at + Window
                                           /\ ledger[j].to = ledger[i].to}) <= MaxPerEmail
    /\ ledger[i].ip # None =>
           Cardinality({j \in 1..Len(ledger) : /\ ledger[j].at >= ledger[i].at
                                               /\ ledger[j].at <= ledger[i].at + Window
                                               /\ ledger[j].ip = ledger[i].ip}) <= MaxPerIp
    /\ Cooldown > 0 => \A j \in (i+1)..Len(ledger) :
           ledger[j].to = ledger[i].to => ledger[j].at > ledger[i].at + Cooldown

LEMMA SendsByWindow == SendsLimited <=> \A i \in 1..Len(ledger) : WindowKept(i)
<1> SUFFICES ASSUME NEW i \in 1..Len(ledger)
             PROVE  LET later == {j \in 1..Len(ledger) : /\ ledger[j].at >= ledger[i].at
                                                         /\ ledger[j].at <= ledger[i].at + Window}
                    IN  /\ {j \in 1..Len(ledger) : /\ ledger[j].at >= ledger[i].at
                                                   /\ ledger[j].at <= ledger[i].at + Window
                                                   /\ ledger[j].to = ledger[i].to}
                               = {j \in later : ledger[j].to = ledger[i].to}
                        /\ {j \in 1..Len(ledger) : /\ ledger[j].at >= ledger[i].at
                                                   /\ ledger[j].at <= ledger[i].at + Window
                                                   /\ ledger[j].ip = ledger[i].ip}
                               = {j \in later : ledger[j].ip = ledger[i].ip}
  BY DEF SendsLimited, WindowKept
<1> QED
  OBVIOUS

LEMMA SendsByWindowNext == SendsLimited' <=> (\A i \in 1..Len(ledger) : WindowKept(i))'
BY SendsByWindow, PTL

LEMMA SendInvStep ==
    ASSUME OneServer, TypeInv, TypeInv', SendInv, [Next]_vars
    PROVE  SendInv'
<1>0. now \in Nat /\ ledger \in Seq(Send) /\ ledger' \in Seq(Send)
  BY DEF TypeInv, TypeOK
<1>1. ASSUME NEW r \in Reqs, NEW q \in Reqs, Listing(r)', Listing(q)', r # q PROVE FALSE
  <2>1. ASSUME NEW p \in Reqs, req'[p] = req[p], Listing(p)' PROVE Listing(p)
    BY <2>1 DEF Listing
  <2>2. ASSUME NEW p \in Reqs, NEW o \in Reqs, p # o, Listing(o)', req'[o] = req[o], LimitLockFree(p) PROVE FALSE
    BY <2>1, <2>2 DEF LimitLockFree, OneServer, Listing
  <2> QED
    BY <1>1, <2>1, <2>2, ListingStep DEF SendInv
<1>2. CASE UNCHANGED <<now, ledger>>
  <2>1. ASSUME NEW q \in Reqs, Listing(q)' PROVE (~RateLimited(req[q].to, req[q].ip))'
    <3>1. PICK to, ip : to = req'[q].to /\ ip = req'[q].ip
      OBVIOUS
    <3>2. ~RateLimited(req'[q].to, req'[q].ip)
      BY <2>1, ListingStep DEF SendInv, Listing
    <3>3. ~RateLimited(to, ip)
      BY <3>1, <3>2
    <3>4. ~(RateLimited(to, ip)')
      BY <1>2, <3>3, LimitsKept
    <3> QED
      BY <3>1, <3>4 DEF RateLimited, Recent
  <2>2. SendsLimited'
    BY <1>2 DEF SendInv, SendsLimited
  <2>3. \A i \in 1..Len(ledger') : ledger'[i].at <= now'
    BY <1>2 DEF SendInv
  <2> QED
    BY <1>1, <2>1, <2>2, <2>3 DEF SendInv
<1>3. CASE now' = now + 1 /\ UNCHANGED <<ledger, req>> /\ \A r \in Reqs : ~Listing(r)
  <2>1. \A r \in Reqs : ~Listing(r)'
    BY <1>3 DEF Listing
  <2>2. \A i \in 1..Len(ledger) : ledger[i].at \in Nat
    <3>1. \A i \in 1..Len(ledger) : ledger[i] \in Send
      BY <1>0
    <3> QED
      BY <3>1 DEF Send
  <2>3. \A i \in 1..Len(ledger') : ledger'[i].at <= now'
    BY <1>0, <1>3, <2>2 DEF SendInv
  <2>4. SendsLimited'
    BY <1>3 DEF SendInv, SendsLimited
  <2> QED
    BY <2>1, <2>3, <2>4 DEF SendInv
<1>4. ASSUME NEW r \in Reqs, UNCHANGED now, Listing(r), SetReq(r, IdleReq),
             ledger' = Append(ledger, [to |-> req[r].to, ip |-> req[r].ip, at |-> now])
      PROVE  SendInv'
  <2> DEFINE x == [to |-> req[r].to, ip |-> req[r].ip, at |-> now]
             n == Len(ledger) + 1
  <2>1. /\ Len(ledger) \in Nat /\ Len(ledger') = n /\ ledger'[n] = x
        /\ \A j \in 1..Len(ledger) : ledger'[j] = ledger[j]
    BY <1>0, <1>4
  <2>2. x.to = req[r].to /\ x.ip = req[r].ip /\ x.at = now /\ x \in Send
    <3>1. ledger'[n] \in Send
      BY <1>0, <2>1
    <3> QED
      BY <2>1, <3>1
  <2>7. ledger' = Append(ledger, x)
    BY <1>4
  <2> HIDE DEF x
  <2>3. ~RateLimited(x.to, x.ip)
    BY <1>4, <2>2 DEF SendInv
  <2>4. \A q \in Reqs : ~Listing(q)'
    <3> SUFFICES ASSUME NEW q \in Reqs, Listing(q)' PROVE FALSE
      OBVIOUS
    <3>1. q # r
      BY <1>4, LensType DEF SetReq, IdleReq, Listing
    <3>2. req'[q] = req[q]
      BY <1>4, <3>1, LensType DEF SetReq
    <3> QED
      BY <1>4, <3>1, <3>2 DEF Listing, SendInv
  <2>5. \A i \in 1..Len(ledger') : ledger'[i].at <= now'
    BY <1>0, <1>4, <2>1, <2>2 DEF SendInv
  <2>6. \A i \in 1..Len(ledger) : ledger[i].at <= now
    BY DEF SendInv
  <2>8. Window \in Nat /\ Cooldown \in Nat /\ MaxPerEmail \in Nat /\ MaxPerIp \in Nat
    BY AuthAssumption
  <2>9. ASSUME NEW i \in 1..Len(ledger) PROVE WindowKept(i)
    BY SendsByWindow DEF SendInv
  <2>10. ASSUME NEW i \in 1..n
         PROVE  Cardinality({j \in 1..Len(ledger') : /\ ledger'[j].at >= ledger'[i].at
                                                     /\ ledger'[j].at <= ledger'[i].at + Window
                                                     /\ ledger'[j].to = ledger'[i].to}) <= MaxPerEmail
    <3> DEFINE key == [j \in 1..n |-> ledger'[j].to]
    <3>1. \A j \in 1..n : key[j] = ledger'[j].to
      OBVIOUS
    <3>2. key[n] = x.to /\ \A j \in 1..Len(ledger) : key[j] = ledger[j].to
      BY <2>1
    <3> HIDE DEF key
    <3>3. i # n => Cardinality(Within(ledger, key, i)) <= MaxPerEmail
      <4> SUFFICES ASSUME i # n PROVE Cardinality(Within(ledger, key, i)) <= MaxPerEmail
        OBVIOUS
      <4>1. i \in 1..Len(ledger)
        BY <2>1
      <4>2. Within(ledger, key, i)
            = {j \in 1..Len(ledger) : /\ ledger[j].at >= ledger[i].at
                                      /\ ledger[j].at <= ledger[i].at + Window
                                      /\ ledger[j].to = ledger[i].to}
        BY <3>2, <4>1 DEF Within
      <4> QED
        BY <2>9, <4>1, <4>2 DEF WindowKept
    <3>4. ~(Cardinality(Since(ledger, key, now)) >= MaxPerEmail)
      <4>1. Since(ledger, key, now)
            = {j \in 1..Len(ledger) : ledger[j].at + Window >= now /\ ledger[j].to = x.to}
        BY <3>2 DEF Since
      <4> QED
        BY <2>3, <4>1, NotLimited
    <3>5. Cardinality(Within(ledger', key, i)) <= MaxPerEmail
      BY <1>0, <2>2, <2>6, <2>7, <2>8, <3>3, <3>4, WindowGrows
    <3>6. {j \in 1..Len(ledger') : /\ ledger'[j].at >= ledger'[i].at
                                   /\ ledger'[j].at <= ledger'[i].at + Window
                                   /\ ledger'[j].to = ledger'[i].to}
          = Within(ledger', key, i)
      BY <2>1, <3>1 DEF Within
    <3> QED
      BY <3>5, <3>6
  <2>11. ASSUME NEW i \in 1..n, ledger'[i].ip # None
         PROVE  Cardinality({j \in 1..Len(ledger') : /\ ledger'[j].at >= ledger'[i].at
                                                     /\ ledger'[j].at <= ledger'[i].at + Window
                                                     /\ ledger'[j].ip = ledger'[i].ip}) <= MaxPerIp
    <3> DEFINE key == [j \in 1..n |-> ledger'[j].ip]
    <3>1. \A j \in 1..n : key[j] = ledger'[j].ip
      OBVIOUS
    <3>2. key[n] = x.ip /\ (\A j \in 1..Len(ledger) : key[j] = ledger[j].ip) /\ key[i] # None
      BY <2>1, <2>11
    <3> HIDE DEF key
    <3>3. i # n => Cardinality(Within(ledger, key, i)) <= MaxPerIp
      <4> SUFFICES ASSUME i # n PROVE Cardinality(Within(ledger, key, i)) <= MaxPerIp
        OBVIOUS
      <4>1. i \in 1..Len(ledger)
        BY <2>1
      <4>2. Within(ledger, key, i)
            = {j \in 1..Len(ledger) : /\ ledger[j].at >= ledger[i].at
                                      /\ ledger[j].at <= ledger[i].at + Window
                                      /\ ledger[j].ip = ledger[i].ip}
        BY <3>2, <4>1 DEF Within
      <4> QED
        BY <2>9, <3>2, <4>1, <4>2 DEF WindowKept
    <3>4. key[i] = key[n] => ~(Cardinality(Since(ledger, key, now)) >= MaxPerIp)
      <4>1. Since(ledger, key, now)
            = {j \in 1..Len(ledger) : ledger[j].at + Window >= now /\ ledger[j].ip = x.ip}
        BY <3>2 DEF Since
      <4> QED
        BY <2>3, <3>2, <4>1, NotLimited
    <3>5. Cardinality(Within(ledger', key, i)) <= MaxPerIp
      BY <1>0, <2>2, <2>6, <2>7, <2>8, <3>3, <3>4, WindowGrows
    <3>6. {j \in 1..Len(ledger') : /\ ledger'[j].at >= ledger'[i].at
                                   /\ ledger'[j].at <= ledger'[i].at + Window
                                   /\ ledger'[j].ip = ledger'[i].ip}
          = Within(ledger', key, i)
      BY <2>1, <3>1 DEF Within
    <3> QED
      BY <3>5, <3>6
  <2>12. ASSUME NEW i \in 1..n, Cooldown > 0, NEW j \in (i+1)..n, ledger'[j].to = ledger'[i].to
         PROVE  ledger'[j].at > ledger'[i].at + Cooldown
    <3>1. i \in 1..Len(ledger) /\ ledger'[i] = ledger[i]
      BY <2>1
    <3>2. CASE j # n
      <4>1. j \in (i+1)..Len(ledger) /\ j \in 1..Len(ledger)
        BY <2>1, <3>2
      <4>2. ledger'[j] = ledger[j]
        BY <2>1, <4>1
      <4>3. ledger[j].at > ledger[i].at + Cooldown
        BY <2>9, <2>12, <3>1, <4>1, <4>2 DEF WindowKept
      <4> QED
        BY <3>1, <4>2, <4>3
    <3>3. CASE j = n
      <4>1. ~(ledger[i].at + Cooldown >= now)
        BY <2>1, <2>3, <2>12, <3>1, <3>3, NotLimited
      <4>2. ledger[i].at \in Nat
        <5>1. ledger[i] \in Send
          BY <1>0, <3>1
        <5> QED
          BY <5>1 DEF Send
      <4> QED
        BY <1>0, <2>1, <2>2, <2>8, <3>1, <3>3, <4>1, <4>2
    <3> QED
      BY <3>2, <3>3
  <2>13. (\A i \in 1..Len(ledger) : WindowKept(i))'
    BY <2>1, <2>10, <2>11, <2>12 DEF WindowKept
  <2>14. SendsLimited'
    BY <2>13, SendsByWindowNext
  <2> QED
    BY <2>4, <2>5, <2>14 DEF SendInv
<1> QED
  BY <1>2, <1>3, <1>4, ClockStep, LedgerStep

\* The send limits hold over every window, per address and per IP, and two sends
\* to an address keep the cooldown, as long as one process serves the requests
\* (login_code_rate_limit_state under LOGIN_CODE_RATE_LIMIT_LOCK).
THEOREM SendsHold == ASSUME OneServer PROVE Spec => []SendsLimited
<1>1. Init => SendInv
  BY AuthAssumption DEF Init, SendInv, SendsLimited, Listing, IdleReq
<1>2. OneServer /\ TypeInv /\ TypeInv' /\ SendInv /\ [Next]_vars => SendInv'
  BY SendInvStep
<1>3. SendInv => SendsLimited
  BY DEF SendInv
<1> QED
  BY <1>1, <1>2, <1>3, TypeInvAlways, PTL DEF Spec
=============================================================================
