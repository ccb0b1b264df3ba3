---------------------------- MODULE AccountLinks ----------------------------
(***************************************************************************)
(* What an account gets once: its Telegram chat, linked with a token the   *)
(* API issues and the bot hands back (create_telegram_link_token and       *)
(* consume_telegram_link_token, app/services/auth_session_service.py), and *)
(* a promotion (app/services/promo_codes.py).  A request reads, computes   *)
(* on its session's copy and writes at commit, READ COMMITTED.             *)
(***************************************************************************)
EXTENDS Integers, FiniteSets, Sequences

CONSTANTS
    Users, Chats, Promos, Clients,
    MaxUses,    \* of each promotion; 0: without a limit
    TokenLife,
    NoChat,
    MaxTokens, MaxTime  \* bounds: tokens issued, ticks of the clock

\* What the theorems assume of them.
LinkConstants ==
    /\ IsFiniteSet(Users) /\ NoChat \notin Chats
    /\ MaxUses \in [Promos -> Nat] /\ TokenLife \in Nat

VARIABLES
    now,
    telegram,  \* users.telegram_id, a unique column
    token,     \* telegram_link_tokens
    uses,      \* promo_codes.current_uses
    redeemed,  \* promo_redemptions, unique per promotion and user
    tx         \* the open transaction of each caller
vars == <<now, telegram, token, uses, redeemed, tx>>

Idle == [op |-> "none"]

Init ==
    /\ now = 0 /\ token = <<>> /\ redeemed = {}
    /\ telegram = [u \in Users |-> NoChat]
    /\ uses = [k \in Promos |-> 0]
    /\ tx = [c \in Clients |-> Idle]

Begin(c, t) == tx[c] = Idle /\ tx' = [tx EXCEPT ![c] = t] /\ UNCHANGED <<now, telegram, token, uses, redeemed>>
End(c) == tx' = [tx EXCEPT ![c] = Idle]

---------------------------------------------------------------------------
(* The chat.  Whether the plan includes Telegram is Billing's business: here *)
(* a request of an account whose plan does not just never begins.            *)

Open(u) == {i \in DOMAIN token : token[i].user = u /\ ~token[i].used}

RequestToken(c, u) ==
    Len(token) < MaxTokens /\ Begin(c, [op |-> "issue", user |-> u, open |-> Open(u)])

\* A new token uses up those that were open when it was asked for.
IssueToken(c) ==
    /\ tx[c].op = "issue" /\ Len(token) < MaxTokens
    /\ token' = Append([i \in DOMAIN token |->
                           IF i \in tx[c].open THEN [token[i] EXCEPT !.used = TRUE] ELSE token[i]],
                       [user |-> tx[c].user, until |-> now + TokenLife, used |-> FALSE])
    /\ End(c) /\ UNCHANGED <<now, telegram, uses, redeemed>>

\* link_telegram_account: a chat that is another account's is refused.
Others(u, chat) == {v \in Users \ {u} : telegram[v] = chat}
Linking(u, chat, i) == [op |-> "link", user |-> u, chat |-> chat, token |-> i, base |-> telegram[u]]

\* POST /auth/telegram/link
LinkDirectly(c, u, chat) == Others(u, chat) = {} /\ Begin(c, Linking(u, chat, 0))

\* A token past its time is refused, and its being used up is not committed.
HandBack(c, i, chat) ==
    /\ ~token[i].used /\ now <= token[i].until
    /\ Others(token[i].user, chat) = {}
    /\ Begin(c, Linking(token[i].user, chat, i))

\* The unique column decides when it is written; a session writes it when it
\* differs from what the session had read.
Writes(c) == tx[c].chat # tx[c].base
Taken(c) == Writes(c) /\ Others(tx[c].user, tx[c].chat) # {}

Link(c) ==
    /\ tx[c].op = "link" /\ ~Taken(c)
    /\ telegram' = IF Writes(c) THEN [telegram EXCEPT ![tx[c].user] = tx[c].chat] ELSE telegram
    /\ token' = [i \in DOMAIN token |-> IF i = tx[c].token THEN [token[i] EXCEPT !.used = TRUE] ELSE token[i]]
    /\ End(c) /\ UNCHANGED <<now, uses, redeemed>>

---------------------------------------------------------------------------
(* Promotions: redeem_promo_code.                                            *)

\* Mutant: the row of the promotion is read without a lock.
Unlocked(k) == TRUE

\* SELECT ... FOR UPDATE waits for the transaction that holds the row.
RowFree(k) == \A c \in Clients : tx[c].op = "redeem" => tx[c].promo # k

Redeem(c, u, k) ==
    /\ RowFree(k)
    /\ MaxUses[k] = 0 \/ uses[k] < MaxUses[k]
    /\ <<k, u>> \notin redeemed
    /\ Begin(c, [op |-> "redeem", user |-> u, promo |-> k, uses |-> uses[k] + 1])

Grant(c) ==
    /\ tx[c].op = "redeem" /\ <<tx[c].promo, tx[c].user>> \notin redeemed
    /\ uses' = [uses EXCEPT ![tx[c].promo] = tx[c].uses]
    /\ redeemed' = redeemed \cup {<<tx[c].promo, tx[c].user>>}
    /\ End(c) /\ UNCHANGED <<now, telegram, token>>

\* An error, a unique column that refuses, the end of the process: rolled back.
Fail(c) == tx[c] # Idle /\ End(c) /\ UNCHANGED <<now, telegram, token, uses, redeemed>>

Tick == now < MaxTime /\ now' = now + 1 /\ UNCHANGED <<telegram, token, uses, redeemed, tx>>

---------------------------------------------------------------------------
Next ==
    \/ Tick
    \/ \E c \in Clients :
        \/ IssueToken(c) \/ Link(c) \/ Grant(c) \/ Fail(c)
        \/ \E u \in Users : \/ RequestToken(c, u)
                            \/ \E chat \in Chats : LinkDirectly(c, u, chat)
                            \/ \E k \in Promos : Redeem(c, u, k)
        \/ \E i \in DOMAIN token, chat \in Chats : HandBack(c, i, chat)
Spec == Init /\ [][Next]_vars

---------------------------------------------------------------------------
Transaction ==
    {Idle} \cup [op : {"issue"}, user : Users, open : SUBSET Nat]
    \cup [op : {"link"}, user : Users, chat : Chats, token : Nat, base : Chats \cup {NoChat}]
    \cup [op : {"redeem"}, user : Users, promo : Promos, uses : Nat]

\* The tables and the open transactions keep their types.
TypeOK ==
    /\ now \in Nat
    /\ telegram \in [Users -> Chats \cup {NoChat}]
    /\ token \in Seq([user : Users, until : Nat, used : BOOLEAN])
    /\ uses \in [Promos -> Nat]
    /\ redeemed \subseteq Promos \X Users
    /\ tx \in [Clients -> Transaction]

\* A chat belongs to one account, whichever way and however often at once it is
\* linked (link_telegram_account looks before the commit that takes it).
OneAccountPerChat ==
    \A u, v \in Users : u # v /\ telegram[u] # NoChat => telegram[u] # telegram[v]

\* The counter of a promotion tells its redemptions, one per account, and never
\* passes its limit, however many accounts redeem at once (redeem_promo_code).
Redeemers(k) == {u \in Users : <<k, u>> \in redeemed}
PromoUsesAreCounted ==
    \A k \in Promos : /\ uses[k] = Cardinality(Redeemers(k))
                      /\ MaxUses[k] > 0 => uses[k] <= MaxUses[k]

---------------------------------------------------------------------------
\* A token that was used up, or replaced, links no chat any more
\* ("telegram_link_already_used").  The code does not keep it: who hands it back
\* while it is used or replaced has found it open.
TokenLinksOnce ==
    [][\A c \in Clients : tx[c].op = "link" /\ tx[c].token # 0 /\ telegram' # telegram /\ tx'[c] = Idle
          => ~token[tx[c].token].used]_vars
=============================================================================
