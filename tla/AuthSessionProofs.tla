------------------------- MODULE AuthSessionProofs -------------------------
(***************************************************************************)
(* Theorems about AuthSession, for every number of users, requests,        *)
(* processes, codes and sessions.                                          *)
(***************************************************************************)
EXTENDS AuthSession, FiniteSetTheorems, TLAPS

-----------------------------------------------------------------------------
(* Type correctness. *)

\* What a request in progress refers to, in tables of nc codes and ns sessions.
ReqOK(q, nc, ns) ==
    /\ q.stage = "starting" => q.to \in Emails
    /\ q.stage \in {"read", "counted", "compared", "changing"} =>
           /\ q.chal \in 1..nc
           /\ q.purpose = "EMAIL_CHANGE" => q.sid \in 1..ns
    /\ q.stage = "changing" => q.purpose = "EMAIL_CHANGE"
    /\ q.stage \in {"registered", "issuing", "changing"} => q.user \in Users
    /\ q.stage = "registered" => q.chal = 0
    /\ q.stage = "issuing" => q.channel \in Channels /\ q.chal \in 0..nc

StageOK == \A r \in Reqs : ReqOK(req[r], Len(challenge), Len(session))

TypeInv == TypeOK /\ StageOK

LEMMA IdleType == IdleReq \in Req /\ \A nc, ns \in Nat : ReqOK(IdleReq, nc, ns)
BY DEF IdleReq, Req, Stages, Purposes, ReqOK

LEMMA ReqOKGrows ==
    ASSUME NEW q \in Req, NEW nc \in Nat, NEW ns \in Nat, NEW mc \in Nat, NEW ms \in Nat,
           nc <= mc, ns <= ms, ReqOK(q, nc, ns)
    PROVE  ReqOK(q, mc, ms)
BY DEF ReqOK, Req

LEMMA InitType == Init => TypeInv
<1> SUFFICES ASSUME Init
             PROVE  TypeInv
  OBVIOUS
<1>1. TypeOK
  <2>1. challenge \in Seq(Challenge) /\ session \in Seq(Session) /\ ledger \in Seq(Send)
    BY DEF Init
  <2>2. enabled \in [Users -> BOOLEAN]
    BY DEF Init
  <2>3. now \in Nat /\ email \in [Users -> Emails \cup {None}]
    BY AuthAssumption DEF Init
  <2>4. req \in [Reqs -> Req]
    BY IdleType DEF Init
  <2> QED
    BY <2>1, <2>2, <2>3, <2>4 DEF TypeOK
<1>2. StageOK
  BY IdleType DEF Init, StageOK
<1> QED
  BY <1>1, <1>2 DEF TypeInv

\* A table keeps its shape and its length when codes are invalidated or sessions revoked.
LEMMA InvalidateType ==
    ASSUME challenge \in Seq(Challenge), NEW chals
    PROVE  /\ Invalidate(chals) \in Seq(Challenge)
           /\ Len(Invalidate(chals)) = Len(challenge)
           /\ DOMAIN Invalidate(chals) = 1..Len(challenge)
<1>1. DOMAIN challenge = 1..Len(challenge) /\ Len(challenge) \in Nat
  OBVIOUS
<1>2. \A c \in 1..Len(challenge) : Invalidate(chals)[c] \in Challenge
  <2> SUFFICES ASSUME NEW c \in 1..Len(challenge)
               PROVE  Invalidate(chals)[c] \in Challenge
    OBVIOUS
  <2>1. challenge[c] \in Challenge
    OBVIOUS
  <2>2. [challenge[c] EXCEPT !.invalidated = TRUE, !.delivery = "INVALIDATED"] \in Challenge
    BY <2>1 DEF Challenge
  <2> QED
    BY <1>1, <2>1, <2>2 DEF Invalidate
<1>3. Invalidate(chals) = [c \in 1..Len(challenge) |-> Invalidate(chals)[c]]
  BY <1>1 DEF Invalidate
<1> DEFINE f == Invalidate(chals)
<1> HIDE DEF f
<1>4. f \in Seq(Challenge) /\ Len(f) = Len(challenge) /\ DOMAIN f = 1..Len(challenge)
  <2>1. f = [c \in 1..Len(challenge) |-> f[c]] /\ \A c \in 1..Len(challenge) : f[c] \in Challenge
    BY <1>2, <1>3 DEF f
  <2>2. f \in [1..Len(challenge) -> Challenge]
    BY <2>1
  <2> QED
    BY <1>1, <2>2
<1> QED
  BY <1>4 DEF f

LEMMA RevokedType ==
    ASSUME session \in Seq(Session), NEW ids
    PROVE  /\ Revoked(ids) \in Seq(Session)
           /\ Len(Revoked(ids)) = Len(session)
           /\ DOMAIN Revoked(ids) = 1..Len(session)
           /\ \A s \in 1..Len(session) :
                /\ Revoked(ids)[s].user = session[s].user
                /\ Revoked(ids)[s].channel = session[s].channel
                /\ Revoked(ids)[s].by = session[s].by
                /\ Revoked(ids)[s].revoked <=> (session[s].revoked \/ s \in ids)
<1>1. DOMAIN session = 1..Len(session) /\ Len(session) \in Nat
  OBVIOUS
<1>2. ASSUME NEW s \in 1..Len(session)
      PROVE  /\ Revoked(ids)[s] \in Session
             /\ Revoked(ids)[s].user = session[s].user
             /\ Revoked(ids)[s].channel = session[s].channel
             /\ Revoked(ids)[s].by = session[s].by
             /\ Revoked(ids)[s].revoked <=> (session[s].revoked \/ s \in ids)
  <2>1. session[s] \in Session
    OBVIOUS
  <2>2. CASE s \in ids
    <3>1. Revoked(ids)[s] = [session[s] EXCEPT !.revoked = TRUE]
      BY <1>1, <2>2 DEF Revoked
    <3> QED
      BY <2>1, <2>2, <3>1 DEF Session
  <2>3. CASE s \notin ids
    <3>1. Revoked(ids)[s] = session[s]
      BY <1>1, <2>3 DEF Revoked
    <3> QED
      BY <2>1, <2>3, <3>1
  <2> QED
    BY <2>2, <2>3
<1> DEFINE f == Revoked(ids)
<1>3. f = [s \in 1..Len(session) |-> f[s]]
  BY <1>1 DEF Revoked
<1> HIDE DEF f
<1>4. f \in [1..Len(session) -> Session]
  BY <1>2, <1>3 DEF f
<1>5. f \in Seq(Session) /\ Len(f) = Len(session) /\ DOMAIN f = 1..Len(session)
  BY <1>1, <1>4
<1> QED
  BY <1>2, <1>5 DEF f

\* A step of request r, the tables having grown at most.
LEMMA ReqStep ==
    ASSUME TypeInv, NEW r \in Reqs, NEW new \in Req, SetReq(r, new),
           challenge' \in Seq(Challenge), session' \in Seq(Session),
           Len(challenge') >= Len(challenge), Len(session') >= Len(session),
           ReqOK(new, Len(challenge'), Len(session'))
    PROVE  /\ req' \in [Reqs -> Req]
           /\ StageOK'
           /\ req'[r] = new
           /\ \A q \in Reqs \ {r} : req'[q] = req[q]
<1>1. req' = [req EXCEPT ![r] = new] /\ req \in [Reqs -> Req]
  BY DEF SetReq, TypeInv, TypeOK
<1>2. /\ req' \in [Reqs -> Req]
      /\ req'[r] = new
      /\ \A q \in Reqs \ {r} : req'[q] = req[q]
  BY <1>1
<1>3. /\ Len(challenge) \in Nat /\ Len(challenge') \in Nat
      /\ Len(session) \in Nat /\ Len(session') \in Nat
  BY DEF TypeInv, TypeOK
<1>4. ASSUME NEW q \in Reqs
      PROVE  ReqOK(req'[q], Len(challenge'), Len(session'))
  <2>1. CASE q = r
    BY <1>2, <2>1
  <2>2. CASE q # r
    <3>1. ReqOK(req[q], Len(challenge), Len(session)) /\ req[q] \in Req
      BY <1>1 DEF TypeInv, StageOK
    <3> QED
      BY <1>2, <1>3, <2>2, <3>1, ReqOKGrows
  <2> QED
    BY <2>1, <2>2
<1>5. StageOK'
  BY <1>4 DEF StageOK
<1> QED
  BY <1>2, <1>5

\* A step of no request.
LEMMA TableStep ==
    ASSUME TypeInv, UNCHANGED req,
           challenge' \in Seq(Challenge), session' \in Seq(Session),
           Len(challenge') >= Len(challenge), Len(session') >= Len(session)
    PROVE  StageOK'
<1>1. /\ Len(challenge) \in Nat /\ Len(challenge') \in Nat
      /\ Len(session) \in Nat /\ Len(session') \in Nat
  BY DEF TypeInv, TypeOK
<1>2. \A q \in Reqs : req[q] \in Req /\ ReqOK(req[q], Len(challenge), Len(session))
  BY DEF TypeInv, TypeOK, StageOK
<1>3. \A q \in Reqs : ReqOK(req[q], Len(challenge'), Len(session'))
  BY <1>1, <1>2, ReqOKGrows
<1> QED
  BY <1>3 DEF StageOK

\* A step that writes no table.
LEMMA ReqOnlyStep ==
    ASSUME TypeInv, NEW r \in Reqs, NEW new \in Req, SetReq(r, new),
           ReqOK(new, Len(challenge), Len(session)),
           UNCHANGED <<now, email, enabled, challenge, session, ledger>>
    PROVE  TypeInv'
<1>1. /\ challenge \in Seq(Challenge) /\ session \in Seq(Session)
      /\ Len(challenge) \in Nat /\ Len(session) \in Nat
  BY DEF TypeInv, TypeOK
<1>2. StageOK' /\ req' \in [Reqs -> Req]
  BY <1>1, ReqStep
<1> QED
  BY <1>2 DEF TypeInv, TypeOK

LEMMA LensType ==
    ASSUME TypeInv
    PROVE  /\ Len(challenge) \in Nat /\ Len(session) \in Nat
           /\ challenge \in Seq(Challenge) /\ session \in Seq(Session)
           /\ \A c \in 1..Len(challenge) : challenge[c] \in Challenge
           /\ \A s \in 1..Len(session) : session[s] \in Session
           /\ req \in [Reqs -> Req]
BY DEF TypeInv, TypeOK

LEMMA RequestCodeType ==
    ASSUME TypeInv, NEW r \in Reqs, NEW to \in Emails, NEW ip \in Ips \cup {None},
           RequestCode(r, to, ip)
    PROVE  TypeInv'
<1>1. PICK u \in Addressee(to) :
        SetReq(r, [IdleReq EXCEPT !.stage = "starting", !.to = to, !.ip = ip,
                       !.listed = TRUE, !.user = u, !.chals = OpenChallenges(u, "LOGIN")])
  BY DEF RequestCode
<1>2. u \in Users \cup {None} /\ OpenChallenges(u, "LOGIN") \in SUBSET Nat
  BY DEF Addressee, Owner, OpenChallenges
<1> DEFINE new == [IdleReq EXCEPT !.stage = "starting", !.to = to, !.ip = ip,
                       !.listed = TRUE, !.user = u, !.chals = OpenChallenges(u, "LOGIN")]
<1>3. new \in Req /\ \A nc, ns \in Nat : ReqOK(new, nc, ns)
  BY <1>2, IdleType DEF IdleReq, Req, Stages, Purposes, ReqOK
<1> HIDE DEF new
<1>4. SetReq(r, new)
  BY <1>1 DEF new
<1> QED
  BY <1>3, <1>4, LensType, ReqOnlyStep DEF RequestCode

LEMMA PasswordLoginType ==
    ASSUME TypeInv, NEW r \in Reqs, NEW u \in Users, PasswordLogin(r, u)
    PROVE  TypeInv'
<1> DEFINE new == [IdleReq EXCEPT !.stage = "starting", !.to = email[u], !.user = u,
                       !.chals = OpenChallenges(u, "LOGIN")]
<1>1. email[u] \in Emails /\ OpenChallenges(u, "LOGIN") \in SUBSET Nat
  BY DEF PasswordLogin, TypeInv, TypeOK, OpenChallenges
<1>2. new \in Req /\ \A nc, ns \in Nat : ReqOK(new, nc, ns)
  BY <1>1, IdleType DEF IdleReq, Req, Stages, Purposes, ReqOK
<1>3. SetReq(r, new)
  BY DEF PasswordLogin
<1> HIDE DEF new
<1> QED
  BY <1>2, <1>3, LensType, ReqOnlyStep DEF PasswordLogin

LEMMA RequestEmailChangeType ==
    ASSUME TypeInv, NEW r \in Reqs, NEW s \in Nat, NEW to \in Emails,
           NEW ip \in Ips \cup {None}, RequestEmailChange(r, s, to, ip)
    PROVE  TypeInv'
<1> DEFINE new == [IdleReq EXCEPT !.stage = "starting", !.purpose = "EMAIL_CHANGE",
                       !.to = to, !.ip = ip, !.listed = TRUE, !.user = session[s].user,
                       !.chals = OpenChallenges(session[s].user, "EMAIL_CHANGE")]
<1>1. /\ session[s].user \in Users
      /\ OpenChallenges(session[s].user, "EMAIL_CHANGE") \in SUBSET Nat
  <2>1. session[s] \in Session
    BY LensType DEF RequestEmailChange
  <2> QED
    BY <2>1 DEF Session, OpenChallenges
<1>2. new \in Req /\ \A nc, ns \in Nat : ReqOK(new, nc, ns)
  BY <1>1, IdleType DEF IdleReq, Req, Stages, Purposes, ReqOK
<1>3. SetReq(r, new)
  BY DEF RequestEmailChange
<1> HIDE DEF new
<1> QED
  BY <1>2, <1>3, LensType, ReqOnlyStep DEF RequestEmailChange

LEMMA StartCommitType ==
    ASSUME TypeInv, NEW r \in Reqs, StartCommit(r)
    PROVE  TypeInv'
<1> DEFINE q == req[r]
<1>1. q \in Req /\ q.to \in Emails
  BY LensType DEF StartCommit, TypeInv, StageOK, ReqOK
<1>2. challenge' \in Seq(Challenge) /\ Len(challenge') >= Len(challenge)
  <2>1. CASE q.user # None
    <3> DEFINE new == [user |-> q.user, to |-> q.to, purpose |-> q.purpose, attempts |-> 0,
                       delivery |-> "PENDING", expires |-> now + CodeLife,
                       consumed |-> FALSE, invalidated |-> FALSE, compared |-> 0]
    <3>1. new \in Challenge
      BY <1>1, <2>1, AuthAssumption DEF Challenge, Req, TypeInv, TypeOK
    <3>2. challenge' = Append(Invalidate(q.chals), new)
      BY <2>1 DEF StartCommit
    <3> HIDE DEF new
    <3> QED
      BY <3>1, <3>2, LensType, InvalidateType
  <2>2. CASE q.user = None
    BY <2>2, LensType DEF StartCommit
  <2> QED
    BY <2>1, <2>2
<1>3. ledger' \in Seq(Send)
  <2>1. CASE q.listed
    <3>1. [to |-> q.to, ip |-> q.ip, at |-> now] \in Send
      BY <1>1 DEF Send, Req, TypeInv, TypeOK
    <3>2. ledger' = Append(ledger, [to |-> q.to, ip |-> q.ip, at |-> now])
      BY <2>1 DEF StartCommit
    <3> QED
      BY <3>1, <3>2 DEF TypeInv, TypeOK
  <2>2. CASE ~q.listed
    BY <2>2 DEF StartCommit, TypeInv, TypeOK
  <2> QED
    BY <2>1, <2>2
<1>4. /\ SetReq(r, IdleReq)
      /\ UNCHANGED <<now, email, enabled, session>>
  BY DEF StartCommit
<1>5. StageOK' /\ req' \in [Reqs -> Req]
  BY <1>2, <1>4, LensType, IdleType, ReqStep
<1> QED
  BY <1>2, <1>3, <1>4, <1>5 DEF TypeInv, TypeOK

\* Changing one code of the table.
LEMMA ChallengeStep ==
    ASSUME TypeInv, NEW c \in 1..Len(challenge), NEW new \in Challenge,
           challenge' = [challenge EXCEPT ![c] = new]
    PROVE  /\ challenge' \in Seq(Challenge)
           /\ Len(challenge') = Len(challenge)
           /\ challenge'[c] = new
           /\ \A d \in 1..Len(challenge) : d # c => challenge'[d] = challenge[d]
BY LensType

LEMMA DeliverType ==
    ASSUME TypeInv, NEW c \in Nat, NEW status \in {"SENT", "FAILED"}, Deliver(c, status)
    PROVE  TypeInv'
<1>1. c \in 1..Len(challenge) /\ challenge[c] \in Challenge
  BY LensType DEF Deliver
<1>2. [challenge[c] EXCEPT !.delivery = status] \in Challenge
  BY <1>1 DEF Challenge
<1>3. challenge' = [challenge EXCEPT ![c] = [challenge[c] EXCEPT !.delivery = status]]
  BY DEF Deliver
<1>4. challenge' \in Seq(Challenge) /\ Len(challenge') = Len(challenge)
  BY <1>1, <1>2, <1>3, ChallengeStep
<1>5. UNCHANGED <<now, email, enabled, session, ledger, req>>
  BY DEF Deliver
<1>6. StageOK'
  BY <1>4, <1>5, LensType, TableStep
<1> QED
  BY <1>4, <1>5, <1>6 DEF TypeInv, TypeOK

LEMMA VerifyReadType ==
    ASSUME TypeInv, NEW r \in Reqs, NEW c \in Nat, NEW purpose \in Purposes, NEW s \in Nat,
           VerifyRead(r, c, purpose, s)
    PROVE  TypeInv'
<1>1. PICK right \in BOOLEAN :
        SetReq(r, [IdleReq EXCEPT !.stage = "read", !.purpose = purpose, !.chal = c,
                       !.sid = s, !.right = right])
  BY DEF VerifyRead
<1> DEFINE new == [IdleReq EXCEPT !.stage = "read", !.purpose = purpose, !.chal = c,
                       !.sid = s, !.right = right]
<1>2. new \in Req
  BY IdleType DEF IdleReq, Req, Stages
<1>3. c \in 1..Len(challenge) /\ (purpose = "EMAIL_CHANGE" => s \in 1..Len(session))
  BY DEF VerifyRead
<1>4. ReqOK(new, Len(challenge), Len(session))
  BY <1>3 DEF ReqOK, IdleReq
<1> HIDE DEF new
<1>5. SetReq(r, new)
  BY <1>1 DEF new
<1> QED
  BY <1>2, <1>4, <1>5, ReqOnlyStep DEF VerifyRead

LEMMA VerifyExpiredType ==
    ASSUME TypeInv, NEW c \in Nat, VerifyExpired(c)
    PROVE  TypeInv'
<1>1. challenge' \in Seq(Challenge) /\ Len(challenge') = Len(challenge)
  BY LensType, InvalidateType DEF VerifyExpired
<1>2. UNCHANGED <<now, email, enabled, session, ledger, req>>
  BY DEF VerifyExpired
<1>3. StageOK'
  BY <1>1, <1>2, LensType, TableStep
<1> QED
  BY <1>1, <1>2, <1>3 DEF TypeInv, TypeOK

\* A request that has read its code refers to it until it ends.
LEMMA VerifyingOK ==
    ASSUME TypeInv, NEW r \in Reqs, req[r].stage \in {"read", "counted", "compared", "changing"}
    PROVE  /\ req[r].chal \in 1..Len(challenge)
           /\ challenge[req[r].chal] \in Challenge
           /\ req[r].purpose = "EMAIL_CHANGE" =>
                  req[r].sid \in 1..Len(session) /\ session[req[r].sid] \in Session
BY LensType DEF TypeInv, StageOK, ReqOK

LEMMA VerifyCountType ==
    ASSUME TypeInv, NEW r \in Reqs, VerifyCount(r)
    PROVE  TypeInv'
<1> DEFINE c == req[r].chal
           new == [req[r] EXCEPT !.stage = "counted"]
           row == [challenge[c] EXCEPT !.attempts = @ + 1]
<1>1. c \in 1..Len(challenge) /\ challenge[c] \in Challenge
  BY VerifyingOK DEF VerifyCount
<1>2. row \in Challenge
  BY SMTT(30), <1>1 DEF Challenge
<1>3. challenge' \in Seq(Challenge) /\ Len(challenge') = Len(challenge)
  <2>1. challenge' = [challenge EXCEPT ![c] = row]
    BY DEF VerifyCount
  <2> HIDE DEF row, c
  <2> QED
    BY <1>1, <1>2, <2>1, ChallengeStep
<1>4. new \in Req
  BY ZenonT(40), LensType DEF Req, Stages
<1>5. ReqOK(new, Len(challenge), Len(session))
  BY LensType DEF VerifyCount, TypeInv, StageOK, ReqOK, Req
<1>6. SetReq(r, new) /\ UNCHANGED <<now, email, enabled, session, ledger>>
  BY DEF VerifyCount
<1> HIDE DEF new
<1>7. StageOK' /\ req' \in [Reqs -> Req]
  BY <1>3, <1>4, <1>5, <1>6, LensType, ReqStep
<1> QED
  BY <1>3, <1>6, <1>7 DEF TypeInv, TypeOK

LEMMA VerifyCompareType ==
    ASSUME TypeInv, NEW r \in Reqs, VerifyCompare(r)
    PROVE  TypeInv'
<1> DEFINE c == req[r].chal
           new == IF req[r].right THEN [req[r] EXCEPT !.stage = "compared"] ELSE IdleReq
           row == [challenge[c] EXCEPT !.compared = @ + 1]
<1>1. c \in 1..Len(challenge) /\ challenge[c] \in Challenge
  BY VerifyingOK DEF VerifyCompare
<1>2. row \in Challenge
  <2>1. \A x \in Challenge : x.compared + 1 \in Nat /\ [x EXCEPT !.compared = x.compared + 1] \in Challenge
    BY DEF Challenge
  <2> QED
    BY <1>1, <2>1
<1>3. challenge' \in Seq(Challenge) /\ Len(challenge') = Len(challenge)
  <2>1. challenge' = [challenge EXCEPT ![c] = row]
    BY DEF VerifyCompare
  <2> HIDE DEF row, c
  <2> QED
    BY <1>1, <1>2, <2>1, ChallengeStep
<1>4. new \in Req /\ ReqOK(new, Len(challenge), Len(session))
  <2>1. [req[r] EXCEPT !.stage = "compared"] \in Req
    BY ZenonT(40), LensType DEF Req, Stages
  <2>2. ReqOK([req[r] EXCEPT !.stage = "compared"], Len(challenge), Len(session))
    BY LensType DEF VerifyCompare, TypeInv, StageOK, ReqOK, Req
  <2> QED
    BY <2>1, <2>2, IdleType, LensType
<1>5. SetReq(r, new) /\ UNCHANGED <<now, email, enabled, session, ledger>>
  BY DEF VerifyCompare
<1> HIDE DEF new
<1>6. StageOK' /\ req' \in [Reqs -> Req]
  BY <1>3, <1>4, <1>5, LensType, ReqStep
<1> QED
  BY <1>3, <1>5, <1>6 DEF TypeInv, TypeOK

\* Waiting for the user's row and choosing the sessions to replace.
LEMMA IssueType ==
    ASSUME TypeInv, NEW r \in Reqs, NEW u \in Users, NEW c \in Channels,
           req[r].chal \in 0..Len(challenge), Issue(r, u, c),
           UNCHANGED <<now, email, enabled, challenge, session, ledger>>
    PROVE  TypeInv'
<1> DEFINE new == [req[r] EXCEPT !.stage = "issuing", !.user = u, !.channel = c,
                       !.sessions = {s \in ActiveSessions(u) : session[s].channel = c}]
<1>1. {s \in ActiveSessions(u) : session[s].channel = c} \in SUBSET Nat
  BY DEF ActiveSessions
<1>2. new \in Req
  BY ZenonT(40), <1>1, LensType DEF Req, Stages
<1>3. ReqOK(new, Len(challenge), Len(session))
  BY LensType DEF ReqOK, Req
<1>4. SetReq(r, new)
  BY DEF Issue
<1> HIDE DEF new
<1> QED
  BY <1>2, <1>3, <1>4, ReqOnlyStep

LEMMA VerifyLoginType ==
    ASSUME TypeInv, NEW r \in Reqs, NEW c \in Channels, VerifyLogin(r, c)
    PROVE  TypeInv'
<1>1. req[r].chal \in 1..Len(challenge) /\ challenge[req[r].chal] \in Challenge
  BY VerifyingOK DEF VerifyLogin, Claims
<1>2. challenge[req[r].chal].user \in Users /\ req[r].chal \in 0..Len(challenge)
  BY <1>1, LensType DEF Challenge
<1>3. Issue(r, challenge[req[r].chal].user, c)
  BY DEF VerifyLogin
<1> QED
  BY <1>2, <1>3, IssueType DEF VerifyLogin

\* A code used up without anything coming of it.
LEMMA UsedUpType ==
    ASSUME TypeInv, NEW r \in Reqs, Claims(r), SetReq(r, IdleReq),
           challenge' = [challenge EXCEPT ![req[r].chal].consumed = TRUE],
           UNCHANGED <<now, email, enabled, session, ledger>>
    PROVE  TypeInv'
<1> DEFINE c == req[r].chal
           row == [challenge[c] EXCEPT !.consumed = TRUE]
<1>1. c \in 1..Len(challenge) /\ challenge[c] \in Challenge
  BY VerifyingOK DEF Claims
<1>2. row \in Challenge
  BY <1>1 DEF Challenge
<1>3. challenge' \in Seq(Challenge) /\ Len(challenge') = Len(challenge)
  <2>1. challenge' = [challenge EXCEPT ![c] = row]
    OBVIOUS
  <2> HIDE DEF row, c
  <2> QED
    BY <1>1, <1>2, <2>1, ChallengeStep
<1> HIDE DEF row, c
<1>4. /\ session' = session /\ Len(challenge') \in Nat /\ Len(challenge') >= Len(challenge)
      /\ session' \in Seq(Session) /\ Len(session') \in Nat /\ Len(session') >= Len(session)
  BY <1>3, LensType
<1>5. IdleReq \in Req /\ ReqOK(IdleReq, Len(challenge'), Len(session'))
  BY <1>4, IdleType
<1>6. StageOK' /\ req' \in [Reqs -> Req]
  BY <1>3, <1>4, <1>5, ReqStep
<1> QED
  BY <1>3, <1>6 DEF TypeInv, TypeOK

LEMMA RegisterType ==
    ASSUME TypeInv, NEW r \in Reqs, NEW u \in Users, NEW e \in Emails, Register(r, u, e)
    PROVE  TypeInv'
<1> DEFINE new == [IdleReq EXCEPT !.stage = "registered", !.user = u]
<1>1. new \in Req /\ \A nc, ns \in Nat : ReqOK(new, nc, ns)
  BY IdleType DEF IdleReq, Req, Stages, ReqOK
<1>2. SetReq(r, new) /\ UNCHANGED <<now, enabled, challenge, session, ledger>>
  BY DEF Register
<1> HIDE DEF new
<1>3. StageOK' /\ req' \in [Reqs -> Req]
  BY <1>1, <1>2, LensType, ReqStep
<1>4. email' \in [Users -> Emails \cup {None}]
  BY DEF Register, TypeInv, TypeOK
<1> QED
  BY <1>2, <1>3, <1>4 DEF TypeInv, TypeOK

LEMMA RegisterSessionType ==
    ASSUME TypeInv, NEW r \in Reqs, NEW c \in Channels, RegisterSession(r, c)
    PROVE  TypeInv'
<1>1. req[r].user \in Users /\ req[r].chal \in 0..Len(challenge)
  BY LensType DEF RegisterSession, TypeInv, StageOK, ReqOK
<1> QED
  BY <1>1, IssueType DEF RegisterSession

LEMMA IssueCommitType ==
    ASSUME TypeInv, NEW r \in Reqs, IssueCommit(r)
    PROVE  TypeInv'
<1> DEFINE q == req[r]
<1>1. /\ q \in Req /\ q.user \in Users /\ q.channel \in Channels
      /\ q.chal \in 0..Len(challenge)
  BY LensType DEF IssueCommit, TypeInv, StageOK, ReqOK
<1>2. session' \in Seq(Session) /\ Len(session') = Len(session) + 1
  <2> DEFINE new == [user |-> q.user, channel |-> q.channel, revoked |-> FALSE,
                     expires |-> now + SessionLife, by |-> q.chal]
  <2>1. new \in Session
    BY <1>1, LensType, AuthAssumption DEF Session, TypeInv, TypeOK
  <2>2. session' = Append(Revoked(q.sessions), new)
    BY DEF IssueCommit
  <2> HIDE DEF new
  <2> QED
    BY <2>1, <2>2, LensType, RevokedType
<1>3. challenge' \in Seq(Challenge) /\ Len(challenge') = Len(challenge)
  <2>1. CASE q.chal = 0
    BY <2>1, LensType DEF IssueCommit
  <2>2. CASE q.chal # 0
    <3> DEFINE row == [challenge[q.chal] EXCEPT !.consumed = TRUE]
    <3>1. q.chal \in 1..Len(challenge) /\ challenge[q.chal] \in Challenge
      BY <1>1, <2>2, LensType
    <3>2. row \in Challenge
      BY <3>1 DEF Challenge
    <3>3. challenge' = [challenge EXCEPT ![q.chal] = row]
      BY <2>2 DEF IssueCommit
    <3> HIDE DEF row, q
    <3> QED
      BY <3>1, <3>2, <3>3, ChallengeStep
  <2> QED
    BY <2>1, <2>2
<1>4. SetReq(r, IdleReq) /\ UNCHANGED <<now, email, enabled, ledger>>
  BY DEF IssueCommit
<1>5. StageOK' /\ req' \in [Reqs -> Req]
  BY <1>2, <1>3, <1>4, LensType, IdleType, ReqStep
<1> QED
  BY <1>2, <1>3, <1>4, <1>5 DEF TypeInv, TypeOK

LEMMA LogoutType ==
    ASSUME TypeInv, NEW s \in Nat, Logout(s) \/ LogoutAll(s)
    PROVE  TypeInv'
<1>1. PICK ids : session' = Revoked(ids)
  BY DEF Logout, LogoutAll
<1>2. session' \in Seq(Session) /\ Len(session') = Len(session)
  BY <1>1, LensType, RevokedType
<1>3. UNCHANGED <<now, email, enabled, challenge, ledger, req>>
  BY DEF Logout, LogoutAll
<1>4. StageOK'
  BY <1>2, <1>3, LensType, TableStep
<1> QED
  BY <1>2, <1>3, <1>4 DEF TypeInv, TypeOK

LEMMA ChangingType ==
    ASSUME NEW q \in Req, NEW u \in Users, NEW cs \in SUBSET Nat, NEW ss \in SUBSET Nat
    PROVE  [q EXCEPT !.stage = "changing", !.user = u, !.chals = cs, !.sessions = ss] \in Req
BY DEF Req, Stages

LEMMA ChangeBeginType ==
    ASSUME TypeInv, NEW r \in Reqs, ChangeBegin(r)
    PROVE  TypeInv'
<1> DEFINE u == session[req[r].sid].user
           new == [req[r] EXCEPT !.stage = "changing", !.user = u,
                       !.chals = OpenChallenges(u, "EMAIL_CHANGE") \ {req[r].chal},
                       !.sessions = ActiveSessions(u) \ {req[r].sid}]
<1>1. /\ req[r].chal \in 1..Len(challenge) /\ req[r].sid \in 1..Len(session)
      /\ session[req[r].sid] \in Session
  BY VerifyingOK DEF ChangeBegin, Claims
<1>2. u \in Users
  BY <1>1 DEF Session
<1>3. /\ OpenChallenges(u, "EMAIL_CHANGE") \ {req[r].chal} \in SUBSET Nat
      /\ ActiveSessions(u) \ {req[r].sid} \in SUBSET Nat
  BY DEF OpenChallenges, ActiveSessions
<1>4. new \in Req
  <2>1. req[r] \in Req
    BY LensType
  <2> HIDE DEF u
  <2> QED
    BY <1>2, <1>3, <2>1, ChangingType
<1>5. ReqOK(new, Len(challenge), Len(session))
  <2> HIDE DEF u
  <2> QED
    BY <1>1, <1>2, LensType DEF ReqOK, Req, ChangeBegin
<1>6. SetReq(r, new)
  BY DEF ChangeBegin
<1> HIDE DEF new
<1> QED
  BY <1>4, <1>5, <1>6, ReqOnlyStep DEF ChangeBegin

LEMMA ChangeCommitType ==
    ASSUME TypeInv, NEW r \in Reqs, ChangeCommit(r)
    PROVE  TypeInv'
<1> DEFINE q == req[r]
           inv == Invalidate(q.chals)
           row == [inv[q.chal] EXCEPT !.consumed = TRUE]
<1>1. /\ q.chal \in 1..Len(challenge) /\ challenge[q.chal] \in Challenge
      /\ q.user \in Users
  BY VerifyingOK, LensType DEF ChangeCommit, TypeInv, StageOK, ReqOK
<1>2. email' \in [Users -> Emails \cup {None}]
  BY <1>1 DEF ChangeCommit, Target, Challenge, TypeInv, TypeOK
<1>3. challenge' \in Seq(Challenge) /\ Len(challenge') = Len(challenge)
  <2>1. inv \in Seq(Challenge) /\ Len(inv) = Len(challenge)
    BY LensType, InvalidateType
  <2>2. challenge' = [inv EXCEPT ![q.chal] = row]
    BY DEF ChangeCommit
  <2>3. inv[q.chal] \in Challenge
    <3> HIDE DEF inv, q
    <3> QED
      BY <1>1, <2>1
  <2>4. row \in Challenge
    <3> HIDE DEF inv, q
    <3> QED
      BY <2>3 DEF Challenge
  <2> HIDE DEF row, inv, q
  <2> QED
    BY <1>1, <2>1, <2>2, <2>4
<1>4. session' \in Seq(Session) /\ Len(session') = Len(session)
  BY LensType, RevokedType DEF ChangeCommit
<1>5. SetReq(r, IdleReq) /\ UNCHANGED <<now, enabled, ledger>>
  BY DEF ChangeCommit
<1>6. StageOK' /\ req' \in [Reqs -> Req]
  BY <1>3, <1>4, <1>5, LensType, IdleType, ReqStep
<1> QED
  BY <1>2, <1>3, <1>4, <1>5, <1>6 DEF TypeInv, TypeOK

LEMMA GiveUpType ==
    ASSUME TypeInv, NEW r \in Reqs, GiveUp(r)
    PROVE  TypeInv'
BY LensType, IdleType, ReqOnlyStep DEF GiveUp

LEMMA SetEnabledType ==
    ASSUME TypeInv, NEW u \in Users, SetEnabled(u)
    PROVE  TypeInv'
<1>1. enabled' \in [Users -> BOOLEAN]
  BY DEF SetEnabled, TypeInv, TypeOK
<1>2. UNCHANGED <<now, email, challenge, session, ledger, req>>
  BY DEF SetEnabled
<1>3. StageOK'
  BY <1>2, LensType, TableStep
<1> QED
  BY <1>1, <1>2, <1>3 DEF TypeInv, TypeOK

LEMMA TickType ==
    ASSUME TypeInv, Tick
    PROVE  TypeInv'
<1>1. now' \in Nat /\ UNCHANGED <<email, enabled, challenge, session, ledger, req>>
  BY DEF Tick, TypeInv, TypeOK
<1>2. StageOK'
  BY <1>1, LensType, TableStep
<1> QED
  BY <1>1, <1>2 DEF TypeInv, TypeOK

LEMMA TypeStep == TypeInv /\ [Next]_vars => TypeInv'
<1> SUFFICES ASSUME TypeInv, [Next]_vars
             PROVE  TypeInv'
  OBVIOUS
<1>1. CASE Tick
  BY <1>1, TickType
<1>2. CASE \E r \in Reqs : Ask(r)
  <2>1. PICK r \in Reqs : Ask(r)
    BY <1>2
  <2>2. CASE \E to \in Emails, ip \in Ips \cup {None} : RequestCode(r, to, ip)
    BY <2>2, RequestCodeType
  <2>3. CASE \E to \in Emails, ip \in Ips \cup {None}, s \in 1..MaxSessions :
                 RequestEmailChange(r, s, to, ip)
    BY <2>3, AuthAssumption, RequestEmailChangeType
  <2>4. CASE \E u \in Users : PasswordLogin(r, u)
    BY <2>4, PasswordLoginType
  <2>5. CASE \E u \in Users, e \in Emails : Register(r, u, e)
    BY <2>5, RegisterType
  <2>6. CASE StartCommit(r)
    BY <2>6, StartCommitType
  <2> QED
    BY <2>1, <2>2, <2>3, <2>4, <2>5, <2>6 DEF Ask
<1>3. CASE \E r \in Reqs : Verify(r)
  <2>1. PICK r \in Reqs : Verify(r)
    BY <1>3
  <2>2. CASE \E c \in 1..MaxChallenges, s \in 0..MaxSessions, p \in Purposes :
                 VerifyRead(r, c, p, s)
    BY <2>2, AuthAssumption, VerifyReadType
  <2>3. CASE VerifyCount(r)
    BY <2>3, VerifyCountType
  <2>4. CASE VerifyCompare(r)
    BY <2>4, VerifyCompareType
  <2>5. CASE \E c \in Channels : VerifyLogin(r, c)
    BY <2>5, VerifyLoginType
  <2>6. CASE \E c \in Channels : RegisterSession(r, c)
    BY <2>6, RegisterSessionType
  <2>7. CASE VerifyLoginRefused(r)
    BY <2>7, UsedUpType DEF VerifyLoginRefused
  <2>8. CASE IssueCommit(r)
    BY <2>8, IssueCommitType
  <2>9. CASE ChangeBegin(r)
    BY <2>9, ChangeBeginType
  <2>10. CASE ChangeRefused(r)
    BY <2>10, UsedUpType DEF ChangeRefused
  <2>11. CASE ChangeCommit(r)
    BY <2>11, ChangeCommitType
  <2> QED
    BY <2>1, <2>2, <2>3, <2>4, <2>5, <2>6, <2>7, <2>8, <2>9, <2>10, <2>11 DEF Verify
<1>4. CASE \E r \in Reqs : GiveUp(r)
  BY <1>4, GiveUpType
<1>5. CASE \E c \in 1..MaxChallenges :
               VerifyExpired(c) \/ \E st \in {"SENT", "FAILED"} : Deliver(c, st)
  BY <1>5, AuthAssumption, VerifyExpiredType, DeliverType
<1>6. CASE \E s \in 1..MaxSessions : Logout(s) \/ LogoutAll(s)
  BY <1>6, AuthAssumption, LogoutType
<1>7. CASE \E u \in Users : SetEnabled(u)
  BY <1>7, SetEnabledType
<1>8. CASE UNCHANGED vars
  BY <1>8 DEF vars, TypeInv, TypeOK, StageOK
<1> QED
  BY <1>1, <1>2, <1>3, <1>4, <1>5, <1>6, <1>7, <1>8 DEF Next

LEMMA TypeInvAlways == Spec => []TypeInv
<1>1. Init => TypeInv
  BY InitType
<1>2. TypeInv /\ [Next]_vars => TypeInv'
  BY TypeStep
<1> QED
  BY <1>1, <1>2, PTL DEF Spec

\* Every table and every request in progress keeps its type: a request only ever
\* refers to codes and sessions that are in the tables.
THEOREM TypeOKAlways == Spec => []TypeOK
<1>1. TypeInv => TypeOK
  BY DEF TypeInv
<1> QED
  BY <1>1, TypeInvAlways, PTL

-----------------------------------------------------------------------------
(* Where a step leaves its request. *)

\* A request that asks for a code or registers moves to one of three stages.
LEMMA AskStage ==
    ASSUME TypeInv, NEW r \in Reqs, Ask(r)
    PROVE  \E new : SetReq(r, new) /\ new.stage \in {"starting", "registered", "idle"}
<1>1. CASE \E to \in Emails, ip \in Ips \cup {None} : RequestCode(r, to, ip)
  <2>1. PICK to \in Emails, ip \in Ips \cup {None} : RequestCode(r, to, ip)
    BY <1>1
  <2>2. PICK u \in Addressee(to) :
          SetReq(r, [IdleReq EXCEPT !.stage = "starting", !.to = to, !.ip = ip,
                         !.listed = TRUE, !.user = u, !.chals = OpenChallenges(u, "LOGIN")])
    BY <2>1 DEF RequestCode
  <2>3. [IdleReq EXCEPT !.stage = "starting", !.to = to, !.ip = ip, !.listed = TRUE,
             !.user = u, !.chals = OpenChallenges(u, "LOGIN")].stage = "starting"
    BY DEF IdleReq
  <2> QED
    BY <2>2, <2>3
<1>2. CASE \E to \in Emails, ip \in Ips \cup {None}, s \in 1..MaxSessions :
               RequestEmailChange(r, s, to, ip)
  <2>1. PICK to \in Emails, ip \in Ips \cup {None}, s \in 1..MaxSessions :
            RequestEmailChange(r, s, to, ip)
    BY <1>2
  <2> DEFINE new == [IdleReq EXCEPT !.stage = "starting", !.purpose = "EMAIL_CHANGE",
                         !.to = to, !.ip = ip, !.listed = TRUE, !.user = session[s].user,
                         !.chals = OpenChallenges(session[s].user, "EMAIL_CHANGE")]
  <2>2. new.stage = "starting" /\ SetReq(r, new)
    BY <2>1 DEF RequestEmailChange, IdleReq
  <2> QED
    BY <2>2
<1>3. CASE \E u \in Users : PasswordLogin(r, u)
  <2>1. PICK u \in Users : PasswordLogin(r, u)
    BY <1>3
  <2> DEFINE new == [IdleReq EXCEPT !.stage = "starting", !.to = email[u], !.user = u,
                         !.chals = OpenChallenges(u, "LOGIN")]
  <2>2. new.stage = "starting" /\ SetReq(r, new)
    BY <2>1 DEF PasswordLogin, IdleReq
  <2> QED
    BY <2>2
<1>4. CASE \E u \in Users, e \in Emails : Register(r, u, e)
  <2>1. PICK u \in Users : SetReq(r, [IdleReq EXCEPT !.stage = "registered", !.user = u])
    BY <1>4 DEF Register
  <2>2. [IdleReq EXCEPT !.stage = "registered", !.user = u].stage = "registered"
    BY DEF IdleReq
  <2> QED
    BY <2>1, <2>2
<1>5. CASE StartCommit(r)
  BY <1>5 DEF StartCommit, IdleReq
<1> QED
  BY <1>1, <1>2, <1>3, <1>4, <1>5 DEF Ask

LEMMA VerifyStage ==
    ASSUME TypeInv, NEW r \in Reqs,
           \/ \E c \in 1..MaxChallenges, s \in 0..MaxSessions, p \in Purposes :
                  VerifyRead(r, c, p, s)
           \/ VerifyCount(r) \/ VerifyCompare(r)
           \/ VerifyLoginRefused(r) \/ ChangeRefused(r) \/ GiveUp(r)
    PROVE  \E new : SetReq(r, new) /\ new.stage \in {"read", "counted", "compared", "idle"}
<1>1. CASE \E c \in 1..MaxChallenges, s \in 0..MaxSessions, p \in Purposes :
               VerifyRead(r, c, p, s)
  <2>1. PICK c \in 1..MaxChallenges, s \in 0..MaxSessions, p \in Purposes :
            VerifyRead(r, c, p, s)
    BY <1>1
  <2>2. PICK right \in BOOLEAN :
          SetReq(r, [IdleReq EXCEPT !.stage = "read", !.purpose = p, !.chal = c,
                         !.sid = s, !.right = right])
    BY <2>1 DEF VerifyRead
  <2>3. [IdleReq EXCEPT !.stage = "read", !.purpose = p, !.chal = c,
             !.sid = s, !.right = right].stage = "read"
    BY DEF IdleReq
  <2> QED
    BY <2>2, <2>3
<1>2. CASE VerifyCount(r)
  <2>1. [req[r] EXCEPT !.stage = "counted"].stage = "counted"
    BY LensType DEF Req
  <2> QED
    BY <1>2, <2>1 DEF VerifyCount
<1>3. CASE VerifyCompare(r)
  <2> DEFINE new == IF req[r].right THEN [req[r] EXCEPT !.stage = "compared"] ELSE IdleReq
  <2>1. new.stage \in {"compared", "idle"}
    BY LensType DEF Req, IdleReq
  <2>2. SetReq(r, new)
    BY <1>3 DEF VerifyCompare
  <2> QED
    BY <2>1, <2>2
<1>4. CASE VerifyLoginRefused(r) \/ ChangeRefused(r) \/ GiveUp(r)
  BY <1>4 DEF VerifyLoginRefused, ChangeRefused, GiveUp, IdleReq
<1> QED
  BY <1>1, <1>2, <1>3, <1>4

-----------------------------------------------------------------------------
(* AuthSession implements SessionPolicy: whatever logins, logouts and       *)
(* changes of address run at once, sessions replace each other channel by   *)
(* channel.                                                                 *)
(*                                                                          *)
(* The argument: the row lock of the user lets one login of a user at a     *)
(* time past its choice of sessions, so that the choice, made before the    *)
(* commit, still covers the channel when the commit comes.                  *)

\* Two logins between their choice and their commit are of two users.
OneIssuing ==
    \A r, q \in Reqs :
        r # q /\ req[r].stage = "issuing" /\ req[q].stage = "issuing" => req[r].user # req[q].user

\* The sessions request r is about to end are of its user (and, in a login, of
\* its channel); a login has chosen all of them that are still active.
ChoiceOK(r) ==
    /\ req[r].stage \in {"issuing", "changing"} =>
           \A s \in req[r].sessions : s \in 1..Len(session) /\ session[s].user = req[r].user
    /\ req[r].stage = "issuing" =>
           /\ \A s \in req[r].sessions : session[s].channel = req[r].channel
           /\ \A s \in ActiveSessions(req[r].user) :
                  session[s].channel = req[r].channel => s \in req[r].sessions

ChoicesOK == \A r \in Reqs : ChoiceOK(r)

IssueInv == OneIssuing /\ ChoicesOK

LEMMA IssueInvInit == Init => IssueInv
BY DEF Init, IssueInv, OneIssuing, ChoicesOK, ChoiceOK, IdleReq

\* What is open on channel c for user u.
Live(u, c) == {s \in ActiveSessions(u) : session[s].channel = c}

\* Request r moves and chooses no sessions; the others stay where they are.
Drops(r) ==
    /\ req'[r].stage \notin {"issuing", "changing"}
    /\ \A q \in Reqs \ {r} : req'[q] = req[q]

LEMMA SetDrops ==
    ASSUME TypeInv, NEW r \in Reqs, NEW new, SetReq(r, new),
           new.stage \notin {"issuing", "changing"}
    PROVE  Drops(r)
BY LensType DEF SetReq, Drops

\* Ending sessions spoils no choice, and a request that ends has none.
LEMMA IssueInvRevoked ==
    ASSUME TypeInv, IssueInv, UNCHANGED req \/ \E r \in Reqs : Drops(r),
           UNCHANGED session \/ \E ids : session' = Revoked(ids)
    PROVE  IssueInv'
<1>1. OneIssuing'
  BY DEF IssueInv, OneIssuing, Drops
<1>2. ASSUME NEW r \in Reqs
      PROVE  ChoiceOK(r)'
  <2>1. CASE req'[r].stage \notin {"issuing", "changing"}
    BY <2>1 DEF ChoiceOK
  <2>2. CASE req'[r].stage \in {"issuing", "changing"}
    <3>1. req'[r] = req[r] /\ ChoiceOK(r)
      BY <2>2 DEF Drops, IssueInv, ChoicesOK
    <3>2. /\ Len(session') = Len(session)
          /\ \A s \in 1..Len(session) : /\ session'[s].user = session[s].user
                                        /\ session'[s].channel = session[s].channel
                                        /\ session[s].revoked => session'[s].revoked
      BY LensType, RevokedType
    <3> QED
      BY <3>1, <3>2 DEF ChoiceOK, ActiveSessions
  <2> QED
    BY <2>1, <2>2
<1> QED
  BY <1>1, <1>2 DEF IssueInv, ChoicesOK

LEMMA IssueInvIssue ==
    ASSUME TypeInv, IssueInv, NEW r \in Reqs, NEW u \in Users, NEW c \in Channels,
           Issue(r, u, c), UNCHANGED session
    PROVE  IssueInv'
<1> DEFINE chosen == {s \in ActiveSessions(u) : session[s].channel = c}
           new == [req[r] EXCEPT !.stage = "issuing", !.user = u, !.channel = c,
                       !.sessions = chosen]
<1>1. /\ new.stage = "issuing" /\ new.user = u /\ new.channel = c /\ new.sessions = chosen
  BY LensType DEF Req
<1>2. req'[r] = new /\ \A q \in Reqs \ {r} : req'[q] = req[q]
  BY LensType DEF Issue, SetReq
<1> HIDE DEF new
<1>3. OneIssuing'
  <2>1. \A q \in Reqs : req[q].stage = "issuing" => req[q].user # u
    BY DEF Issue, UserLockFree, UserLocked
  <2> QED
    BY <1>1, <1>2, <2>1 DEF IssueInv, OneIssuing
<1>4. ASSUME NEW q \in Reqs
      PROVE  ChoiceOK(q)'
  <2>1. CASE q = r
    BY <1>1, <1>2, <2>1 DEF ChoiceOK, ActiveSessions
  <2>2. CASE q # r
    BY <1>2, <2>2 DEF ChoiceOK, ActiveSessions, IssueInv, ChoicesOK
  <2> QED
    BY <2>1, <2>2
<1> QED
  BY <1>3, <1>4 DEF IssueInv, ChoicesOK

LEMMA IssueInvBegin ==
    ASSUME TypeInv, IssueInv, NEW r \in Reqs, ChangeBegin(r)
    PROVE  IssueInv'
<1> DEFINE u == session[req[r].sid].user
           chosen == ActiveSessions(u) \ {req[r].sid}
           new == [req[r] EXCEPT !.stage = "changing", !.user = u,
                       !.chals = OpenChallenges(u, "EMAIL_CHANGE") \ {req[r].chal},
                       !.sessions = chosen]
<1>1. new.stage = "changing" /\ new.user = u /\ new.sessions = chosen
  BY LensType DEF Req
<1>2. /\ req'[r] = new /\ \A q \in Reqs \ {r} : req'[q] = req[q]
      /\ UNCHANGED session
  BY LensType DEF ChangeBegin, SetReq
<1> HIDE DEF new
<1>3. OneIssuing'
  BY <1>1, <1>2 DEF IssueInv, OneIssuing
<1>4. ASSUME NEW q \in Reqs
      PROVE  ChoiceOK(q)'
  <2>1. CASE q = r
    BY <1>1, <1>2, <2>1 DEF ChoiceOK, ActiveSessions
  <2>2. CASE q # r
    BY <1>2, <2>2 DEF ChoiceOK, ActiveSessions, IssueInv, ChoicesOK
  <2> QED
    BY <2>1, <2>2
<1> QED
  BY <1>3, <1>4 DEF IssueInv, ChoicesOK

-----------------------------------------------------------------------------
(* The commit of a login. *)

\* The table after it: what was chosen has ended, one session is new.
LEMMA IssueCommitTable ==
    ASSUME TypeInv, NEW r \in Reqs, IssueCommit(r)
    PROVE  /\ Len(session') = Len(session) + 1
           /\ session'[Len(session) + 1].user = req[r].user
           /\ session'[Len(session) + 1].channel = req[r].channel
           /\ ~session'[Len(session) + 1].revoked
           /\ \A s \in 1..Len(session) :
                /\ session'[s].user = session[s].user
                /\ session'[s].channel = session[s].channel
                /\ session'[s].revoked <=> (session[s].revoked \/ s \in req[r].sessions)
<1> DEFINE rev == Revoked(req[r].sessions)
           new == [user |-> req[r].user, channel |-> req[r].channel, revoked |-> FALSE,
                   expires |-> now + SessionLife, by |-> req[r].chal]
<1>1. session' = Append(rev, new)
  BY DEF IssueCommit
<1>2. new.user = req[r].user /\ new.channel = req[r].channel /\ ~new.revoked
  OBVIOUS
<1>3. /\ rev \in Seq(Session) /\ Len(rev) = Len(session)
      /\ \A s \in 1..Len(session) :
            /\ rev[s].user = session[s].user /\ rev[s].channel = session[s].channel
            /\ rev[s].revoked <=> (session[s].revoked \/ s \in req[r].sessions)
  BY LensType, RevokedType
<1> HIDE DEF rev, new
<1>4. /\ Len(session') = Len(rev) + 1 /\ session'[Len(rev) + 1] = new
      /\ \A s \in 1..Len(rev) : session'[s] = rev[s]
  BY <1>1, <1>3
<1> QED
  BY <1>2, <1>3, <1>4

LEMMA IssueInvCommit ==
    ASSUME TypeInv, IssueInv, NEW r \in Reqs, IssueCommit(r)
    PROVE  IssueInv'
<1>1. req'[r].stage = "idle" /\ \A q \in Reqs \ {r} : req'[q] = req[q]
  BY LensType DEF IssueCommit, SetReq, IdleReq
<1>2. OneIssuing'
  BY <1>1 DEF IssueInv, OneIssuing
<1>3. ASSUME NEW q \in Reqs
      PROVE  ChoiceOK(q)'
  <2>1. CASE q = r
    BY <1>1, <2>1 DEF ChoiceOK
  <2>2. CASE q # r
    <3>1. req'[q] = req[q] /\ ChoiceOK(q)
      BY <1>1, <2>2 DEF IssueInv, ChoicesOK
    <3>2. req[q].stage = "issuing" => req[q].user # req[r].user
      BY <2>2 DEF IssueInv, OneIssuing, IssueCommit
    <3>3. \A s \in req[q].sessions : req[q].stage \in {"issuing", "changing"} =>
              s \in 1..Len(session') /\ session'[s].user = req[q].user
      BY <3>1, LensType, IssueCommitTable DEF ChoiceOK
    <3>4. req[q].stage = "issuing" =>
              \A s \in req[q].sessions : session'[s].channel = req[q].channel
      BY <3>1, LensType, IssueCommitTable DEF ChoiceOK
    <3>5. ASSUME req[q].stage = "issuing", NEW s \in 1..Len(session'),
                 session'[s].user = req[q].user, ~session'[s].revoked,
                 session'[s].channel = req[q].channel
          PROVE  s \in req[q].sessions
      <4>1. s \in 1..Len(session)
        BY <3>2, <3>5, LensType, IssueCommitTable
      <4>2. s \in ActiveSessions(req[q].user) /\ session[s].channel = req[q].channel
        BY <3>5, <4>1, IssueCommitTable DEF ActiveSessions
      <4> QED
        BY <3>1, <3>5, <4>2 DEF ChoiceOK
    <3> QED
      BY <3>1, <3>3, <3>4, <3>5 DEF ChoiceOK, ActiveSessions
  <2> QED
    BY <2>1, <2>2
<1> QED
  BY <1>2, <1>3 DEF IssueInv, ChoicesOK

-----------------------------------------------------------------------------
(* Every step of the detailed specification is a step of the policy. *)

\* A request that asks for a code, reads it, counts or compares moves to a stage
\* in which it has chosen no sessions.
LEMMA AskDrops ==
    ASSUME TypeInv, NEW r \in Reqs, Ask(r)
    PROVE  UNCHANGED session /\ Drops(r)
<1>1. UNCHANGED session
  BY DEF Ask, RequestCode, PasswordLogin, RequestEmailChange, Register, StartCommit
<1>2. Drops(r)
  BY AskStage, SetDrops
<1> QED
  BY <1>1, <1>2

LEMMA VerifyDrops ==
    ASSUME TypeInv, NEW r \in Reqs,
           \/ \E c \in 1..MaxChallenges, s \in 0..MaxSessions, p \in Purposes :
                  VerifyRead(r, c, p, s)
           \/ VerifyCount(r) \/ VerifyCompare(r)
           \/ VerifyLoginRefused(r) \/ ChangeRefused(r) \/ GiveUp(r)
    PROVE  UNCHANGED session /\ Drops(r)
<1>1. UNCHANGED session
  BY DEF VerifyRead, VerifyCount, VerifyCompare, VerifyLoginRefused, ChangeRefused, GiveUp
<1>2. Drops(r)
  BY VerifyStage, SetDrops
<1> QED
  BY <1>1, <1>2

LEMMA ChangeCommitDrops ==
    ASSUME TypeInv, NEW r \in Reqs, ChangeCommit(r)
    PROVE  Drops(r) /\ session' = Revoked(req[r].sessions)
BY SetDrops DEF ChangeCommit, IdleReq

LEMMA IssueInvStep == TypeInv /\ IssueInv /\ [Next]_vars => IssueInv'
<1> SUFFICES ASSUME TypeInv, IssueInv, [Next]_vars
             PROVE  IssueInv'
  OBVIOUS
<1>1. ASSUME NEW r \in Reqs, Ask(r)
      PROVE  IssueInv'
  BY <1>1, AskDrops, IssueInvRevoked
<1>2. ASSUME NEW r \in Reqs, Verify(r)
      PROVE  IssueInv'
  <2>1. CASE \E c \in Channels : VerifyLogin(r, c)
    <3>1. PICK c \in Channels : VerifyLogin(r, c)
      BY <2>1
    <3>2. challenge[req[r].chal].user \in Users
      BY <3>1, VerifyingOK DEF VerifyLogin, Claims, Challenge
    <3> QED
      BY <3>1, <3>2, IssueInvIssue DEF VerifyLogin
  <2>2. CASE \E c \in Channels : RegisterSession(r, c)
    <3>1. PICK c \in Channels : RegisterSession(r, c)
      BY <2>2
    <3>2. req[r].user \in Users
      BY <3>1 DEF RegisterSession, TypeInv, StageOK, ReqOK
    <3> QED
      BY <3>1, <3>2, IssueInvIssue DEF RegisterSession
  <2>3. CASE ChangeBegin(r)
    BY <2>3, IssueInvBegin
  <2>4. CASE IssueCommit(r)
    BY <2>4, IssueInvCommit
  <2>5. CASE ChangeCommit(r)
    BY <2>5, ChangeCommitDrops, IssueInvRevoked
  <2>6. CASE \/ \E c \in 1..MaxChallenges, s \in 0..MaxSessions, p \in Purposes :
                    VerifyRead(r, c, p, s)
             \/ VerifyCount(r) \/ VerifyCompare(r)
             \/ VerifyLoginRefused(r) \/ ChangeRefused(r)
    BY <2>6, VerifyDrops, IssueInvRevoked
  <2> QED
    BY <1>2, <2>1, <2>2, <2>3, <2>4, <2>5, <2>6 DEF Verify
<1>3. ASSUME NEW r \in Reqs, GiveUp(r)
      PROVE  IssueInv'
  BY <1>3, VerifyDrops, IssueInvRevoked
<1>4. CASE \E s \in 1..MaxSessions : Logout(s) \/ LogoutAll(s)
  <2>1. UNCHANGED req /\ \E ids : session' = Revoked(ids)
    BY <1>4 DEF Logout, LogoutAll
  <2> QED
    BY <2>1, IssueInvRevoked
<1>5. CASE UNCHANGED <<req, session>>
  BY <1>5, IssueInvRevoked
<1>6. CASE \/ Tick
           \/ \E c \in 1..MaxChallenges :
                  VerifyExpired(c) \/ \E st \in {"SENT", "FAILED"} : Deliver(c, st)
           \/ \E u \in Users : SetEnabled(u)
           \/ UNCHANGED vars
  BY <1>5, <1>6 DEF Tick, VerifyExpired, Deliver, SetEnabled, vars
<1> QED
  BY <1>1, <1>2, <1>3, <1>4, <1>6 DEF Next

LEMMA PolicyRevoke ==
    ASSUME TypeInv, NEW u \in Users, NEW ids, session' = Revoked(ids),
           \A s \in ids : s \in 1..Len(session) /\ session[s].user = u
    PROVE  Policy!Revoke(u)
<1>1. Len(session') = Len(session)
  BY LensType, RevokedType
<1>2. \A v \in Users, c \in Channels : Live(v, c)' = Live(v, c) \ ids
  BY LensType, RevokedType DEF Live, ActiveSessions
<1>3. \A v \in Users, c \in Channels : v # u => Live(v, c) \ ids = Live(v, c)
  BY DEF Live, ActiveSessions
<1> DEFINE live == [v \in Users |-> [c \in Channels |-> Live(v, c)]]
           all == UNION {live[u][c] : c \in Channels}
           kept == all \ ids
<1>4. ASSUME NEW c \in Channels
      PROVE  live[u][c] \cap kept = Live(u, c) \ ids
  <2>1. live[u][c] = Live(u, c)
    OBVIOUS
  <2> HIDE DEF live
  <2>2. live[u][c] \subseteq all
    OBVIOUS
  <2> HIDE DEF all
  <2>3. /\ \A x \in live[u][c] : x \notin ids => x \in kept
        /\ \A x \in kept : x \notin ids
    BY <2>2
  <2> HIDE DEF kept
  <2> QED
    BY <2>1, <2>3
<1>5. live' = [live EXCEPT ![u] = [c \in Channels |-> live[u][c] \cap kept]]
  BY <1>2, <1>3, <1>4
<1>6. kept \in SUBSET UNION {live[u][c] : c \in Channels}
  OBVIOUS
<1> QED
  BY <1>1, <1>5, <1>6 DEF Policy!Revoke, Live

LEMMA PolicyLogin ==
    ASSUME TypeInv, IssueInv, NEW r \in Reqs, IssueCommit(r)
    PROVE  \E u \in Users, c \in Channels : Policy!Login(u, c)
<1>1. PICK u \in Users, c \in Channels : u = req[r].user /\ c = req[r].channel
  BY DEF IssueCommit, TypeInv, StageOK, ReqOK
<1>2. /\ \A s \in req[r].sessions : s \in 1..Len(session) /\ session[s].user = u
                                     /\ session[s].channel = c
      /\ Live(u, c) \subseteq req[r].sessions
  BY <1>1 DEF IssueCommit, IssueInv, ChoicesOK, ChoiceOK, Live
<1>3. /\ Live(u, c)' = {Len(session) + 1}
      /\ \A v \in Users, d \in Channels : <<v, d>> # <<u, c>> => Live(v, d)' = Live(v, d)
  <2> DEFINE n == Len(session)
             chosen == req[r].sessions
  <2>1. n \in Nat /\ Len(session') = n + 1
    BY LensType, IssueCommitTable
  <2>2. \A s \in 1..n : /\ session'[s].user = session[s].user
                        /\ session'[s].channel = session[s].channel
                        /\ session'[s].revoked <=> (session[s].revoked \/ s \in chosen)
    BY IssueCommitTable
  <2>3. /\ session'[n + 1].user = u /\ session'[n + 1].channel = c
        /\ ~session'[n + 1].revoked
    BY <1>1, IssueCommitTable
  <2>4. \A v \in Users, d \in Channels :
            Live(v, d)' = {s \in 1..(n + 1) : /\ session'[s].user = v
                                              /\ ~session'[s].revoked
                                              /\ session'[s].channel = d}
    BY <2>1 DEF Live, ActiveSessions
  <2>5. \A v \in Users, d \in Channels :
            Live(v, d) = {s \in 1..n : /\ session[s].user = v
                                       /\ ~session[s].revoked
                                       /\ session[s].channel = d}
    BY DEF Live, ActiveSessions
  <2> HIDE DEF n, chosen
  <2>6. ASSUME NEW s \in Live(u, c)'
        PROVE  s = n + 1
    <3>1. s \in 1..(n + 1) /\ session'[s].user = u /\ ~session'[s].revoked
            /\ session'[s].channel = c
      BY <2>4
    <3>2. CASE s \in 1..n
      <4>1. s \in Live(u, c)
        BY <2>2, <2>5, <3>1, <3>2
      <4>2. s \in chosen
        BY <1>2, <4>1 DEF chosen
      <4> QED
        BY <2>2, <3>1, <3>2, <4>2
    <3> QED
      BY <2>1, <3>1, <3>2
  <2>7. n + 1 \in Live(u, c)'
    BY <2>1, <2>3, <2>4
  <2>8. ASSUME NEW v \in Users, NEW d \in Channels, <<v, d>> # <<u, c>>
        PROVE  Live(v, d)' = Live(v, d)
    <3>1. n + 1 \notin Live(v, d)'
      BY <2>3, <2>4, <2>8
    <3>2. ASSUME NEW s \in 1..n
          PROVE  s \in Live(v, d)' <=> s \in Live(v, d)
      <4>1. s \in chosen => session[s].user = u /\ session[s].channel = c
        BY <1>2 DEF chosen
      <4> QED
        BY <2>1, <2>2, <2>4, <2>5, <2>8, <4>1
    <3>3. \A s \in Live(v, d)' : s \in 1..n
      BY <2>1, <2>4, <3>1
    <3>4. \A s \in Live(v, d) : s \in 1..n
      BY <2>5
    <3> QED
      BY <3>2, <3>3, <3>4
  <2> QED
    BY <2>6, <2>7, <2>8 DEF n
<1> DEFINE live == [v \in Users |-> [d \in Channels |-> Live(v, d)]]
<1>4. live' = [live EXCEPT ![u][c] = {Len(session) + 1}]
  BY <1>3
<1>5. Policy!Login(u, c)
  BY <1>4, IssueCommitTable DEF Policy!Login, Live
<1> QED
  BY <1>5

LEMMA PolicyStep == TypeInv /\ IssueInv /\ [Next]_vars => [Policy!Next]_<<
    [u \in Users |-> [c \in Channels |-> {s \in ActiveSessions(u) : session[s].channel = c}]],
    Len(session)>>
<1> DEFINE live == [u \in Users |->
                       [c \in Channels |-> {s \in ActiveSessions(u) : session[s].channel = c}]]
<1> SUFFICES ASSUME TypeInv, IssueInv, [Next]_vars
             PROVE  Policy!Next \/ UNCHANGED <<live, Len(session)>>
  OBVIOUS
<1>1. CASE UNCHANGED session
  BY <1>1 DEF ActiveSessions
<1>2. ASSUME NEW r \in Reqs, IssueCommit(r)
      PROVE  Policy!Next
  BY <1>2, PolicyLogin DEF Policy!Next
<1>3. ASSUME NEW r \in Reqs, ChangeCommit(r)
      PROVE  Policy!Next
  <2> DEFINE ids == req[r].sessions
  <2>1. PICK u \in Users : u = req[r].user
    BY <1>3 DEF ChangeCommit, TypeInv, StageOK, ReqOK
  <2>2. \A s \in ids : s \in 1..Len(session) /\ session[s].user = u
    BY <1>3, <2>1 DEF ChangeCommit, IssueInv, ChoicesOK, ChoiceOK
  <2>3. session' = Revoked(ids)
    BY <1>3, <2>1, ChangeCommitDrops
  <2> HIDE DEF ids
  <2>4. Policy!Revoke(u)
    BY <2>2, <2>3, PolicyRevoke
  <2> QED
    BY <2>4 DEF Policy!Next
<1>4. ASSUME NEW s \in 1..MaxSessions, Logout(s) \/ LogoutAll(s)
      PROVE  Policy!Next
  <2>1. PICK u \in Users : s \in 1..Len(session) /\ u = session[s].user
    BY <1>4, LensType DEF Logout, LogoutAll, Session
  <2>2. PICK ids : /\ session' = Revoked(ids)
                   /\ \A t \in ids : t \in 1..Len(session) /\ session[t].user = u
    BY <1>4, <2>1 DEF Logout, LogoutAll, ActiveSessions
  <2>3. Policy!Revoke(u)
    BY <2>2, PolicyRevoke
  <2> QED
    BY <2>3 DEF Policy!Next
<1>5. ASSUME NEW r \in Reqs, Ask(r) \/ GiveUp(r)
      PROVE  UNCHANGED session
  BY <1>5, AskDrops, VerifyDrops
<1>6. ASSUME NEW r \in Reqs, Verify(r)
      PROVE  UNCHANGED session \/ IssueCommit(r) \/ ChangeCommit(r)
  BY <1>6 DEF Verify, VerifyRead, VerifyCount, VerifyCompare, VerifyLogin, VerifyLoginRefused,
              RegisterSession, ChangeBegin, ChangeRefused
<1>7. CASE \/ Tick
           \/ \E c \in 1..MaxChallenges :
                  VerifyExpired(c) \/ \E st \in {"SENT", "FAILED"} : Deliver(c, st)
           \/ \E u \in Users : SetEnabled(u)
           \/ UNCHANGED vars
  BY <1>1, <1>7 DEF Tick, VerifyExpired, Deliver, SetEnabled, vars
<1> QED
  BY <1>1, <1>2, <1>3, <1>4, <1>5, <1>6, <1>7 DEF Next

\* The detailed sign-in implements the session policy, whatever requests run at
\* once: one session at most per user and channel, a login replaces that of its
\* own channel only, and a session that has ended stays ended.
THEOREM ImplementsPolicy == Spec => SessionsFollowPolicy
<1>1. Init => Policy!Init
  BY DEF Init, Policy!Init, ActiveSessions
<1>2. Init => IssueInv
  BY IssueInvInit
<1>3. TypeInv /\ IssueInv /\ [Next]_vars => IssueInv'
  BY IssueInvStep
<1>4. Spec => []IssueInv
  BY <1>2, <1>3, TypeInvAlways, PTL DEF Spec
<1>5. TypeInv /\ IssueInv /\ [Next]_vars => [Policy!Next]_<<
        [u \in Users |-> [c \in Channels |-> {s \in ActiveSessions(u) : session[s].channel = c}]],
        Len(session)>>
  BY PolicyStep
<1> QED
  BY <1>1, <1>4, <1>5, TypeInvAlways, PTL DEF Spec, SessionsFollowPolicy, Policy!Spec
=============================================================================
