---------------------------- MODULE AuthSession ----------------------------
(***************************************************************************)
(* Sign-in: one-time codes and server-side sessions                        *)
(* (app/services/auth_session_service.py, app/auth.py).  A code is asked   *)
(* for, mailed by a background task, verified in three transactions, and   *)
(* traded for a session or for a new e-mail address.  Every request has a  *)
(* database session of its own on PostgreSQL at READ COMMITTED: an UPDATE  *)
(* chooses its rows from what is committed when it starts, checks its      *)
(* condition again once it has their locks, and takes effect at commit.    *)
(***************************************************************************)
EXTENDS Naturals, Sequences, FiniteSets

CONSTANTS
    Users,
    Emails,
    Channels,       \* web, app, telegram
    Ips,
    Reqs,           \* concurrent requests
    Procs,          \* API processes
    Proc,           \* Proc[r]: the process that serves request r
    None,
    Home,           \* Home[u]: the address u starts with, or None
    Managed,        \* users whose is_active flag an operator toggles
    MaxAttempts,    \* LOGIN_CODE_MAX_ATTEMPTS
    MaxPerEmail,    \* LOGIN_CODE_MAX_SENDS_PER_EMAIL
    MaxPerIp,       \* LOGIN_CODE_MAX_SENDS_PER_IP
    Window,         \* LOGIN_CODE_SEND_WINDOW_SECONDS, in ticks
    Cooldown,       \* LOGIN_CODE_RESEND_COOLDOWN_SECONDS, in ticks
    CodeLife,       \* LOGIN_CODE_EXPIRY_SECONDS, in ticks
    SessionLife,    \* ACCESS_TOKEN_EXPIRE_MINUTES, in ticks
    MaxChallenges, MaxSessions, MaxLedger, MaxTries, MaxTime   \* bounds of the model

ASSUME AuthAssumption ==
    /\ IsFiniteSet(Reqs)
    /\ None \notin Users /\ None \notin Emails
    /\ Proc \in [Reqs -> Procs]
    /\ Home \in [Users -> Emails \cup {None}]
    /\ \A u, v \in Users : u # v /\ Home[u] # None => Home[u] # Home[v]
    /\ Managed \subseteq Users
    /\ MaxAttempts \in Nat \ {0} /\ MaxPerEmail \in Nat \ {0} /\ MaxPerIp \in Nat \ {0}
    /\ Window \in Nat /\ Cooldown \in Nat /\ CodeLife \in Nat /\ SessionLife \in Nat
    /\ MaxChallenges \in Nat /\ MaxSessions \in Nat /\ MaxLedger \in Nat
    /\ MaxTries \in Nat /\ MaxTime \in Nat

VARIABLES
    now,
    email,       \* users.email, None for a user not registered yet
    enabled,     \* users.is_active
    challenge,   \* table login_challenges, by id
    session,     \* table user_sessions, by id
    ledger,      \* the "login_code_requested" rows of auth_audit_events
    req          \* the requests

vars == <<now, email, enabled, challenge, session, ledger, req>>

Purposes == {"LOGIN", "EMAIL_CHANGE"}

\* `compared` counts the codes compared with the digest: a history variable.
Challenge == [user : Users, to : Emails, purpose : Purposes, attempts : Nat,
              delivery : {"PENDING", "SENT", "FAILED", "INVALIDATED"},
              expires : Nat, consumed : BOOLEAN, invalidated : BOOLEAN, compared : Nat]

\* `by` is the challenge a session was issued for (0: registration), a history variable.
Session == [user : Users, channel : Channels, revoked : BOOLEAN, expires : Nat, by : Nat]

Send == [to : Emails, ip : Ips \cup {None}, at : Nat]

Stages == {"idle", "starting", "read", "counted", "compared", "registered",
           "issuing", "changing"}

Req == [stage : Stages, purpose : Purposes, user : Users \cup {None},
        to : Emails \cup {None}, ip : Ips \cup {None}, listed : BOOLEAN,
        chal : Nat, sid : Nat, right : BOOLEAN, channel : Channels \cup {None},
        chals : SUBSET Nat, sessions : SUBSET Nat]

IdleReq == [stage |-> "idle", purpose |-> "LOGIN", user |-> None, to |-> None,
            ip |-> None, listed |-> FALSE, chal |-> 0, sid |-> 0, right |-> FALSE,
            channel |-> None, chals |-> {}, sessions |-> {}]

Init ==
    /\ now = 0
    /\ email = Home
    /\ enabled = [u \in Users |-> TRUE]
    /\ challenge = <<>>
    /\ session = <<>>
    /\ ledger = <<>>
    /\ req = [r \in Reqs |-> IdleReq]

-----------------------------------------------------------------------------
Open(c) == ~challenge[c].consumed /\ ~challenge[c].invalidated

OpenChallenges(u, purpose) ==
    {c \in 1..Len(challenge) : /\ challenge[c].user = u
                               /\ challenge[c].purpose = purpose
                               /\ Open(c)}

\* _active_sessions_query
ActiveSessions(u) ==
    {s \in 1..Len(session) : session[s].user = u /\ ~session[s].revoked}

\* resolve_token_user: a token is worth what its session is.
Alive(s) == ~session[s].revoked /\ session[s].expires >= now

Owner(e) == {u \in Users : email[u] = e}

\* Rows an open transaction has updated: the challenge it has claimed.
Held(c) == \E r \in Reqs : req[r].stage \in {"issuing", "changing"} /\ req[r].chal = c

\* SELECT ... FOR UPDATE on the user's row.
UserLocked(u) == \E r \in Reqs : req[r].stage = "issuing" /\ req[r].user = u

\* count_events_since
Recent(w) == {i \in 1..Len(ledger) : ledger[i].at + w >= now}

\* login_code_rate_limit_state
RateLimited(to, ip) ==
    \/ /\ ip # None
       /\ Cardinality({i \in Recent(Window) : ledger[i].ip = ip}) >= MaxPerIp
    \/ Cardinality({i \in Recent(Window) : ledger[i].to = to}) >= MaxPerEmail
    \/ Cooldown > 0 /\ \E i \in Recent(Cooldown) : ledger[i].to = to

\* Mutant: nobody takes LOGIN_CODE_RATE_LIMIT_LOCK.
NoLimitLock(r) == TRUE

\* LOGIN_CODE_RATE_LIMIT_LOCK is free in the process of request r.
LimitLockFree(r) ==
    \A q \in Reqs : Proc[q] = Proc[r] => ~(req[q].stage = "starting" /\ req[q].listed)

SetReq(r, new) == req' = [req EXCEPT ![r] = new]

\* What invalidate_open_challenges leaves of the table when it commits.
Invalidate(chals) ==
    [c \in DOMAIN challenge |->
        IF c \in chals /\ Open(c)
        THEN [challenge[c] EXCEPT !.invalidated = TRUE, !.delivery = "INVALIDATED"]
        ELSE challenge[c]]

-----------------------------------------------------------------------------
(* Asking for a code. *)

\* An unknown address or a disabled user gets a ledger row and no challenge.
Addressee(to) ==
    LET known == {u \in Owner(to) : enabled[u]} IN IF known = {} THEN {None} ELSE known

\* Limit, user and open challenges are read; the lock is held until the commit.
RequestCode(r, to, ip) ==
    /\ req[r].stage = "idle"
    /\ LimitLockFree(r)
    /\ ~RateLimited(to, ip)
    /\ \E u \in Addressee(to) :
           SetReq(r, [IdleReq EXCEPT !.stage = "starting", !.to = to, !.ip = ip,
                          !.listed = TRUE, !.user = u,
                          !.chals = OpenChallenges(u, "LOGIN")])
    /\ UNCHANGED <<now, email, enabled, challenge, session, ledger>>

\* /auth/login and /auth/login-json, the password having been verified.
PasswordLogin(r, u) ==
    /\ req[r].stage = "idle"
    /\ email[u] # None /\ enabled[u]
    /\ SetReq(r, [IdleReq EXCEPT !.stage = "starting", !.to = email[u], !.user = u,
                      !.chals = OpenChallenges(u, "LOGIN")])
    /\ UNCHANGED <<now, email, enabled, challenge, session, ledger>>

RequestEmailChange(r, s, to, ip) ==
    /\ req[r].stage = "idle"
    /\ s \in 1..Len(session) /\ Alive(s)
    /\ to # email[session[s].user]
    /\ LimitLockFree(r)
    /\ ~RateLimited(to, ip)
    /\ SetReq(r, [IdleReq EXCEPT !.stage = "starting", !.purpose = "EMAIL_CHANGE",
                      !.to = to, !.ip = ip, !.listed = TRUE, !.user = session[s].user,
                      !.chals = OpenChallenges(session[s].user, "EMAIL_CHANGE")])
    /\ UNCHANGED <<now, email, enabled, challenge, session, ledger>>

\* start_login_challenge and the commit after it.
StartCommit(r) ==
    LET q == req[r] IN
    /\ q.stage = "starting"
    /\ IF q.user # None
       THEN /\ Len(challenge) < MaxChallenges
            /\ \A c \in q.chals : ~Held(c)
            /\ challenge' = Append(Invalidate(q.chals),
                   [user |-> q.user, to |-> q.to, purpose |-> q.purpose, attempts |-> 0,
                    delivery |-> "PENDING", expires |-> now + CodeLife,
                    consumed |-> FALSE, invalidated |-> FALSE, compared |-> 0])
       ELSE UNCHANGED challenge
    /\ IF q.listed
       THEN /\ Len(ledger) < MaxLedger
            /\ ledger' = Append(ledger, [to |-> q.to, ip |-> q.ip, at |-> now])
       ELSE UNCHANGED ledger
    /\ SetReq(r, IdleReq)
    /\ UNCHANGED <<now, email, enabled, session>>

\* _deliver_challenge_email, then mark_challenge_delivery.
Deliver(c, status) ==
    /\ c \in 1..Len(challenge)
    /\ challenge[c].delivery = "PENDING" /\ Open(c)
    /\ ~Held(c)
    /\ challenge' = [challenge EXCEPT ![c].delivery = status]
    /\ UNCHANGED <<now, email, enabled, session, ledger, req>>

-----------------------------------------------------------------------------
(* Verifying a code: _consume_challenge_core. *)

\* Mutant: the owner of an e-mail change is not compared.
OwnsAnything(c, s) == TRUE

\* An e-mail change is verified by the user it belongs to (0: not signed in).
Owns(c, s) == s # 0 => challenge[c].user = session[s].user

Serves(c, purpose) == challenge[c].purpose = purpose

VerifyRead(r, c, purpose, s) ==
    /\ req[r].stage = "idle"
    /\ c \in 1..Len(challenge)
    /\ IF purpose = "LOGIN" THEN s = 0 ELSE s \in 1..Len(session) /\ Alive(s)
    /\ Serves(c, purpose) /\ Owns(c, s)
    /\ Open(c) /\ challenge[c].expires >= now
    /\ challenge[c].delivery = "SENT"
    /\ \E right \in BOOLEAN :
           SetReq(r, [IdleReq EXCEPT !.stage = "read", !.purpose = purpose, !.chal = c,
                          !.sid = s, !.right = right])
    /\ UNCHANGED <<now, email, enabled, challenge, session, ledger>>

\* A code that comes too late closes its challenge.
VerifyExpired(c) ==
    /\ c \in 1..Len(challenge)
    /\ Open(c) /\ challenge[c].expires < now
    /\ ~Held(c)
    /\ challenge' = Invalidate({c})
    /\ UNCHANGED <<now, email, enabled, session, ledger, req>>

\* Mutant: the counter is read, incremented and written back.
CountLossy(r) ==
    /\ req[r].stage = "read"
    /\ Open(req[r].chal) /\ ~Held(req[r].chal)
    /\ challenge[req[r].chal].attempts < MaxTries
    /\ challenge' = [challenge EXCEPT ![req[r].chal].attempts =
           IF \E q \in Reqs \ {r} : req[q].stage = "counted" /\ req[q].chal = req[r].chal
           THEN @ ELSE @ + 1]
    /\ SetReq(r, [req[r] EXCEPT !.stage = "counted"])
    /\ UNCHANGED <<now, email, enabled, session, ledger>>

\* The attempt is counted and committed before the code is looked at.
VerifyCount(r) ==
    /\ req[r].stage = "read"
    /\ Open(req[r].chal) /\ ~Held(req[r].chal)
    /\ challenge[req[r].chal].attempts < MaxTries
    /\ challenge' = [challenge EXCEPT ![req[r].chal].attempts = @ + 1]
    /\ SetReq(r, [req[r] EXCEPT !.stage = "counted"])
    /\ UNCHANGED <<now, email, enabled, session, ledger>>

\* The row is read again: attempts of other requests may have been added.
VerifyCompare(r) ==
    /\ req[r].stage = "counted"
    /\ challenge[req[r].chal].attempts <= MaxAttempts
    /\ challenge' = [challenge EXCEPT ![req[r].chal].compared = @ + 1]
    /\ SetReq(r, IF req[r].right THEN [req[r] EXCEPT !.stage = "compared"] ELSE IdleReq)
    /\ UNCHANGED <<now, email, enabled, session, ledger>>

\* Mutant: the claim trusts the consumed_at read before.
ClaimBlindly(r) == req[r].stage = "compared"

\* UPDATE ... SET consumed_at WHERE consumed_at IS NULL, not committed yet.
Claims(r) ==
    /\ req[r].stage = "compared"
    /\ ~challenge[req[r].chal].consumed
    /\ ~Held(req[r].chal)

-----------------------------------------------------------------------------
(* Sessions. *)

\* Mutant: the sessions are replaced without the lock on the user's row.
NoUserLock(u) == TRUE

UserLockFree(u) == ~UserLocked(u)

\* create_user_session up to its insert: lock the user, choose what to replace.
Issue(r, u, c) ==
    /\ UserLockFree(u)
    /\ SetReq(r, [req[r] EXCEPT !.stage = "issuing", !.user = u, !.channel = c,
                      !.sessions = {s \in ActiveSessions(u) : session[s].channel = c}])

\* The right login code: claim it and issue a session on the channel asked for.
VerifyLogin(r, c) ==
    /\ req[r].purpose = "LOGIN"
    /\ Claims(r)
    /\ LET u == challenge[req[r].chal].user IN enabled[u] /\ Issue(r, u, c)
    /\ UNCHANGED <<now, email, enabled, challenge, session, ledger>>

\* A user disabled meanwhile loses the code and gets no session.
VerifyLoginRefused(r) ==
    /\ req[r].purpose = "LOGIN"
    /\ Claims(r)
    /\ ~enabled[challenge[req[r].chal].user]
    /\ challenge' = [challenge EXCEPT ![req[r].chal].consumed = TRUE]
    /\ SetReq(r, IdleReq)
    /\ UNCHANGED <<now, email, enabled, session, ledger>>

\* /auth/register commits the user first, then issues a session.
Register(r, u, e) ==
    /\ req[r].stage = "idle"
    /\ email[u] = None /\ Owner(e) = {}
    /\ email' = [email EXCEPT ![u] = e]
    /\ SetReq(r, [IdleReq EXCEPT !.stage = "registered", !.user = u])
    /\ UNCHANGED <<now, enabled, challenge, session, ledger>>

RegisterSession(r, c) ==
    /\ req[r].stage = "registered"
    /\ Issue(r, req[r].user, c)
    /\ UNCHANGED <<now, email, enabled, challenge, session, ledger>>

Revoked(ids) ==
    [s \in DOMAIN session |->
        IF s \in ids THEN [session[s] EXCEPT !.revoked = TRUE] ELSE session[s]]

IssueCommit(r) ==
    LET q == req[r] IN
    /\ q.stage = "issuing"
    /\ Len(session) < MaxSessions
    /\ session' = Append(Revoked(q.sessions),
           [user |-> q.user, channel |-> q.channel, revoked |-> FALSE,
            expires |-> now + SessionLife, by |-> q.chal])
    /\ challenge' = IF q.chal = 0 THEN challenge
                    ELSE [challenge EXCEPT ![q.chal].consumed = TRUE]
    /\ SetReq(r, IdleReq)
    /\ UNCHANGED <<now, email, enabled, ledger>>

Logout(s) ==
    /\ s \in 1..Len(session)
    /\ ~session[s].revoked
    /\ session' = Revoked({s})
    /\ UNCHANGED <<now, email, enabled, challenge, ledger, req>>

LogoutAll(s) ==
    /\ s \in 1..Len(session) /\ Alive(s)
    /\ session' = Revoked(ActiveSessions(session[s].user))
    /\ UNCHANGED <<now, email, enabled, challenge, ledger, req>>

-----------------------------------------------------------------------------
(* The change of address: /auth/email-change/verify. *)

Target(r) == challenge[req[r].chal].to

\* Claim the code, look for another owner of the address, choose the rows to close.
ChangeBegin(r) ==
    LET u == session[req[r].sid].user IN
    /\ req[r].purpose = "EMAIL_CHANGE"
    /\ Claims(r)
    /\ Owner(Target(r)) \subseteq {u}
    /\ SetReq(r, [req[r] EXCEPT !.stage = "changing", !.user = u,
                      !.chals = OpenChallenges(u, "EMAIL_CHANGE") \ {req[r].chal},
                      !.sessions = ActiveSessions(u) \ {req[r].sid}])
    /\ UNCHANGED <<now, email, enabled, challenge, session, ledger>>

\* The address has an owner by now: only the code is used up.
ChangeRefused(r) ==
    /\ req[r].purpose = "EMAIL_CHANGE"
    /\ Claims(r)
    /\ ~(Owner(Target(r)) \subseteq {session[req[r].sid].user})
    /\ challenge' = [challenge EXCEPT ![req[r].chal].consumed = TRUE]
    /\ SetReq(r, IdleReq)
    /\ UNCHANGED <<now, email, enabled, session, ledger>>

\* users.email UNIQUE: otherwise the whole transaction is rolled back.
EmailFree(r) == Owner(Target(r)) \subseteq {req[r].user}

ChangeCommit(r) ==
    LET q == req[r] IN
    /\ q.stage = "changing"
    /\ UserLockFree(q.user)
    /\ \A c \in q.chals : ~Held(c)
    /\ EmailFree(r)
    /\ email' = [email EXCEPT ![q.user] = Target(r)]
    /\ challenge' = [Invalidate(q.chals) EXCEPT ![q.chal].consumed = TRUE]
    /\ session' = Revoked(q.sessions)
    /\ SetReq(r, IdleReq)
    /\ UNCHANGED <<now, enabled, ledger>>

-----------------------------------------------------------------------------
\* Refused, failed, rolled back or lost with its process: nothing is written.
GiveUp(r) ==
    /\ req[r].stage # "idle"
    /\ SetReq(r, IdleReq)
    /\ UNCHANGED <<now, email, enabled, challenge, session, ledger>>

\* is_active is a column no code path writes.
SetEnabled(u) ==
    /\ u \in Managed /\ email[u] # None
    /\ enabled' = [enabled EXCEPT ![u] = ~@]
    /\ UNCHANGED <<now, email, challenge, session, ledger, req>>

\* A tick is long for a request: none is under way.
Tick ==
    /\ now < MaxTime
    /\ \A r \in Reqs : req[r].stage = "idle"
    /\ now' = now + 1
    /\ UNCHANGED <<email, enabled, challenge, session, ledger, req>>

Ask(r) ==
    \/ \E to \in Emails, ip \in Ips \cup {None} :
        \/ RequestCode(r, to, ip)
        \/ \E s \in 1..MaxSessions : RequestEmailChange(r, s, to, ip)
    \/ \E u \in Users : PasswordLogin(r, u) \/ \E e \in Emails : Register(r, u, e)
    \/ StartCommit(r)

Verify(r) ==
    \/ \E c \in 1..MaxChallenges, s \in 0..MaxSessions, p \in Purposes : VerifyRead(r, c, p, s)
    \/ VerifyCount(r)
    \/ VerifyCompare(r)
    \/ \E c \in Channels : VerifyLogin(r, c) \/ RegisterSession(r, c)
    \/ VerifyLoginRefused(r)
    \/ IssueCommit(r)
    \/ ChangeBegin(r) \/ ChangeRefused(r) \/ ChangeCommit(r)

Next ==
    \/ Tick
    \/ \E r \in Reqs : Ask(r) \/ Verify(r) \/ GiveUp(r)
    \/ \E c \in 1..MaxChallenges : VerifyExpired(c) \/ \E st \in {"SENT", "FAILED"} : Deliver(c, st)
    \/ \E s \in 1..MaxSessions : Logout(s) \/ LogoutAll(s)
    \/ \E u \in Users : SetEnabled(u)

Spec == Init /\ [][Next]_vars

-----------------------------------------------------------------------------
TypeOK ==
    /\ now \in Nat
    /\ email \in [Users -> Emails \cup {None}]
    /\ enabled \in [Users -> BOOLEAN]
    /\ challenge \in Seq(Challenge)
    /\ session \in Seq(Session)
    /\ ledger \in Seq(Send)
    /\ req \in [Reqs -> Req]

\* The owner policy (auth_session_service.py, create_user_session): sessions
\* replace each other per channel, whatever logins run at once.
Policy == INSTANCE SessionPolicy WITH
    live <- [u \in Users |-> [c \in Channels |->
                {s \in ActiveSessions(u) : session[s].channel = c}]],
    issued <- Len(session)

SessionsFollowPolicy == Policy!Spec

\* A session comes from the registration of its user or from a login code of
\* its user that is used up by it: no code buys two sessions, no e-mail change
\* code buys one.
SessionsAreEarned ==
    /\ \A i, j \in 1..Len(session) :
        i # j /\ session[i].by = session[j].by => session[i].by = 0
    /\ \A i \in 1..Len(session) : session[i].by # 0 =>
        LET c == challenge[session[i].by] IN
            c.purpose = "LOGIN" /\ c.consumed /\ c.user = session[i].user

\* However many requests guess at once, a challenge looks at no more codes than
\* its attempts allow (the counter is committed before the comparison).
AttemptsBounded ==
    \A c \in 1..Len(challenge) : challenge[c].compared <= MaxAttempts

\* The send limits hold over every window, per address and per IP, and two sends
\* to an address keep the cooldown (tests: concurrent requests never exceed it).
SendsLimited ==
    \A i \in 1..Len(ledger) :
        LET later == {j \in 1..Len(ledger) : /\ ledger[j].at >= ledger[i].at
                                             /\ ledger[j].at <= ledger[i].at + Window}
        IN  /\ Cardinality({j \in later : ledger[j].to = ledger[i].to}) <= MaxPerEmail
            /\ ledger[i].ip # None =>
                   Cardinality({j \in later : ledger[j].ip = ledger[i].ip}) <= MaxPerIp
            /\ Cooldown > 0 => \A j \in (i+1)..Len(ledger) :
                   ledger[j].to = ledger[i].to => ledger[j].at > ledger[i].at + Cooldown

\* Two accounts never end with one address (docs/mission_31b_login_session.md, 26).
EmailsUnique ==
    \A u, v \in Users : u # v /\ email[u] # None => email[u] # email[v]

\* An account moves to an address only in the transaction that uses up a code
\* mailed to that address for that account; sessions of others are untouched.
EmailChangeIsProven ==
    [][\A u \in Users : email[u] # None /\ email'[u] # email[u] =>
        /\ \E c \in 1..Len(challenge) :
            /\ challenge[c].user = u /\ challenge[c].to = email'[u]
            /\ challenge[c].purpose = "EMAIL_CHANGE" /\ challenge[c].delivery \notin {"PENDING", "FAILED"}
            /\ ~challenge[c].consumed /\ challenge'[c].consumed
        /\ \A s \in 1..Len(session) : session[s].user # u => session'[s] = session[s]]_vars

-----------------------------------------------------------------------------
(* What the documents and tests expect and the code does not keep. *)

\* One session per user over all channels (docs/mission_31b_login_session.md, 4).
OneSessionPerUser ==
    \A u \in Users : Cardinality(ActiveSessions(u)) <= 1

\* A new code replaces the earlier one (tests/test_mission_31b_auth_login_session.py:
\* test_new_request_invalidates_previous_challenge).
OneOpenLoginCode ==
    \A u \in Users : Cardinality(OpenChallenges(u, "LOGIN")) <= 1

\* A code replaced by a newer one is worth nothing
\* (tests/test_mission_31b_auth_login_session.py: test_old_code_cannot_consume_new_challenge).
ReplacedCodeIsWorthless ==
    \A c \in 1..Len(challenge) : ~(challenge[c].consumed /\ challenge[c].invalidated)

\* After a change of address the codes sent to the old one are invalid
\* (docs/mission_31b_login_session.md, 26).
OldAddressIsOut ==
    \A u \in Users : \A c \in OpenChallenges(u, "LOGIN") : challenge[c].to = email[u]
=============================================================================
