------------------------------- MODULE MCAuth -------------------------------
(* Instances of AuthSession for TLC. *)
EXTENDS AuthSession, TLC

CONSTANTS u1, u2, a, b, p1, p2

\* All requests are served by one process, or each by its own.
OneProc == [r \in Reqs |-> p1]
TwoProcs == [r \in Reqs |-> IF r = CHOOSE q \in Reqs : TRUE THEN p1 ELSE p2]

\* The users already registered, and a newcomer.
HomeOne == [u \in Users |-> a]
HomeNone == [u \in Users |-> None]
\* The requests of one process are interchangeable, and so are the channels: no
\* rule tells one from another.
Symmetry == Permutations(Reqs) \cup Permutations(Channels)
\* Before anybody has registered, users and addresses are too.
Newcomers == Symmetry \cup Permutations(Users) \cup Permutations(Emails)
=============================================================================
