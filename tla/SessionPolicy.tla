--------------------------- MODULE SessionPolicy ---------------------------
(***************************************************************************)
(* What the session table promises its readers (the owner policy stated in *)
(* create_user_session): on every channel of a user there is one session   *)
(* at most; a login replaces the one of its channel and leaves the other   *)
(* channels alone; a session that has ended never comes back.              *)
(***************************************************************************)
EXTENDS Naturals

CONSTANTS Users, Channels

VARIABLES
    live,     \* live[u][c]: the sessions of user u that are open on channel c
    issued    \* how many sessions have been issued

Init ==
    /\ live = [u \in Users |-> [c \in Channels |-> {}]]
    /\ issued = 0

Login(u, c) ==
    /\ issued' = issued + 1
    /\ live' = [live EXCEPT ![u][c] = {issued + 1}]

\* Logout, logout everywhere, a change of e-mail address.
Revoke(u) ==
    /\ \E kept \in SUBSET UNION {live[u][c] : c \in Channels} :
           live' = [live EXCEPT ![u] = [c \in Channels |-> live[u][c] \cap kept]]
    /\ UNCHANGED issued

Next == \E u \in Users : Revoke(u) \/ \E c \in Channels : Login(u, c)

Spec == Init /\ [][Next]_<<live, issued>>
=============================================================================
