----------------------------- MODULE MCBilling -----------------------------
(* Small instances of Billing. *)
EXTENDS Billing

CONSTANTS u1, u2, u3, s1, s2, s3, c1, c2, c3, h1, h2, p1, p2

NoCodes == [u \in Users |-> None]
CodeOfU1 == [u \in Users |-> IF u = u1 THEN None ELSE u1]

OneProc == [h \in Hooks |-> p1]
TwoProcs == [h \in Hooks |-> IF h = h1 THEN p1 ELSE p2]

Buy(s, u, c, product, state) ==
    [sub |-> s, user |-> u, cust |-> c, product |-> product, state |-> state]

\* Two accounts, one of them paying with the other's customer record.
SharedCustomer == {Buy(s1, u1, c1, "monthly", "active"), Buy(s2, u2, c1, "annual", "active"),
                   Buy(s2, u2, c2, "monthly", "trialing"), Buy(s2, u1, c1, "monthly", "active")}

\* Three accounts of one family: the referrer and two referred users.
ReferredOnly == {Buy(s2, u2, c2, "monthly", "active")}
PairTheirOwn == {Buy(s1, u1, c1, "monthly", "active"), Buy(s2, u2, c2, "monthly", "active")}
EachTheirOwn == PairTheirOwn \cup {Buy(s3, u3, c3, "annual", "active")}

\* One account, one subscription at a time.
OneBuyer == {Buy(s1, u1, c1, "monthly", "active")}
OneBuyerTwice == OneBuyer \cup {Buy(s2, u1, c1, "monthly", "active")}
=============================================================================
