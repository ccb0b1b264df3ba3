----------------------------- MODULE TickerRooms -----------------------------
(***************************************************************************)
(* The chat rooms of tickers: the connections each process keeps           *)
(* (app/system/room_websocket_manager.py, app/system/websocket_manager.py),*)
(* the messages in a file that all processes share                         *)
(* (app/services/ticker_room_service.py) and the handlers between them     *)
(* (app/api/routes_chat.py).  A process runs its handlers on one event     *)
(* loop: they interleave where they wait, and posting a message does not.  *)
(***************************************************************************)
EXTENDS Integers, FiniteSets, Sequences, SequencesExt

CONSTANTS
    Conns, Messages,
    ProcOf, RoomOf,   \* the process and the room of a connection or message
    KeyOf,            \* by which a connection is taken for a duplicate
    RoomLimit, GlobalLimit,
    MaxRoomMessages,  \* the messages a room keeps
    HistorySize       \* those a new connection is sent

VARIABLES
    conn,      \* what the handler of a connection is at
    rooms, pending,  \* per process and room: connections, and slots reserved
    counter,   \* per process: ws_connections
    store,     \* per room: the messages in the file
    audited,   \* messages with an audit record
    post,      \* what the handler of a message is at
    targets,   \* to whom a message is still to be sent
    inbox      \* what a connection was sent
vars == <<conn, rooms, pending, counter, store, audited, post, targets, inbox>>

Procs == {ProcOf[x] : x \in Conns \cup Messages}
Rooms == {RoomOf[x] : x \in Conns \cup Messages}

Init ==
    /\ conn = [c \in Conns |-> "new"]
    /\ rooms = [p \in Procs |-> [r \in Rooms |-> {}]] /\ pending = rooms
    /\ counter = [p \in Procs |-> 0]
    /\ store = [r \in Rooms |-> <<>>] /\ audited = {}
    /\ post = [m \in Messages |-> "new"]
    /\ targets = [m \in Messages |-> {}] /\ inbox = [c \in Conns |-> {}]

\* The event loop is free: no handler of the process is posting.
Free(p) == \A m \in Messages : ProcOf[m] = p => post[m] \notin {"append", "audit"}

In(c) == rooms[ProcOf[c]][RoomOf[c]]
Slots(c) == pending[ProcOf[c]][RoomOf[c]]
Total(p) == LET size(q) == Cardinality(rooms[p][q] \cup pending[p][q]) IN FoldSet(LAMBDA q, n : n + size(q), 0, Rooms)
Messaging == <<store, audited, post>>

Published(s) == {i \in DOMAIN s : s[i].status = "published"}
Newest(s, n) == SubSeq(s, IF Len(s) > n THEN Len(s) - n + 1 ELSE 1, Len(s))

\* Mutant: the first messages of the room instead of the last.
HistoryFromStart(r) ==
    LET shown == {i \in Published(store[r]) : Cardinality({j \in Published(store[r]) : j < i}) < HistorySize}
    IN {store[r][i].id : i \in shown}

\* list_room_messages: the last of those that are published.
History(r) ==
    LET shown == {i \in Published(store[r]) : Cardinality({j \in Published(store[r]) : j > i}) < HistorySize}
    IN {store[r][i].id : i \in shown}

---------------------------------------------------------------------------
(* RoomWebSocketManager; the ConnectionManager of the market stream is the   *)
(* same with a single room, whose limit is the global one.                   *)

Duplicates(c) == {d \in In(c) \cup Slots(c) : KeyOf[d] = KeyOf[c]}

\* disconnect, _purge_locked: out of the room, and no slot.
Removing(c) ==
    /\ rooms' = [rooms EXCEPT ![ProcOf[c]][RoomOf[c]] = @ \ {c}]
    /\ pending' = [pending EXCEPT ![ProcOf[c]][RoomOf[c]] = @ \ {c}]
    /\ counter' = [counter EXCEPT ![ProcOf[c]] = IF c \in In(c) /\ @ > 0 THEN @ - 1 ELSE @]

\* A duplicate is refused, and takes what it duplicates out of the room.
Reject(c) ==
    /\ conn[c] = "new" /\ Free(ProcOf[c])
    /\ \E d \in Duplicates(c) : Removing(d)
    /\ conn' = [conn EXCEPT ![c] = "gone"]
    /\ UNCHANGED <<Messaging, targets, inbox>>

Full(c) ==
    \/ Cardinality(In(c)) + Cardinality(Slots(c)) >= RoomLimit
    \/ Total(ProcOf[c]) >= GlobalLimit

Refuse(c) ==
    /\ conn[c] = "new" /\ Free(ProcOf[c]) /\ Duplicates(c) = {} /\ Full(c)
    /\ conn' = [conn EXCEPT ![c] = "gone"]
    /\ UNCHANGED <<rooms, pending, counter, Messaging, targets, inbox>>

\* A slot is reserved while the connection is accepted.
Reserve(c) ==
    /\ conn[c] = "new" /\ Free(ProcOf[c]) /\ Duplicates(c) = {} /\ ~Full(c)
    /\ pending' = [pending EXCEPT ![ProcOf[c]][RoomOf[c]] = @ \cup {c}]
    /\ conn' = [conn EXCEPT ![c] = "accept"]
    /\ UNCHANGED <<rooms, counter, Messaging, targets, inbox>>

AcceptFails(c) ==
    /\ conn[c] = "accept" /\ Free(ProcOf[c])
    /\ pending' = [pending EXCEPT ![ProcOf[c]][RoomOf[c]] = @ \ {c}]
    /\ conn' = [conn EXCEPT ![c] = "gone"]
    /\ UNCHANGED <<rooms, counter, Messaging, targets, inbox>>

\* websocket_chat: in the room, and the history is read before it waits again.
Join(c) ==
    /\ conn[c] = "accept" /\ Free(ProcOf[c])
    /\ pending' = [pending EXCEPT ![ProcOf[c]][RoomOf[c]] = @ \ {c}]
    /\ rooms' = [rooms EXCEPT ![ProcOf[c]][RoomOf[c]] = @ \cup {c}]
    /\ counter' = [counter EXCEPT ![ProcOf[c]] = @ + 1]
    /\ conn' = [conn EXCEPT ![c] = "join"]
    /\ inbox' = [inbox EXCEPT ![c] = History(RoomOf[c])]
    /\ UNCHANGED <<Messaging, targets>>

Talk(c) ==
    /\ conn[c] = "join" /\ Free(ProcOf[c])
    /\ conn' = [conn EXCEPT ![c] = "talk"]
    /\ UNCHANGED <<rooms, pending, counter, Messaging, targets, inbox>>

\* The history is sent outside of what disconnects: who left meanwhile stays.
Strand(c) ==
    /\ conn[c] = "join" /\ Free(ProcOf[c])
    /\ conn' = [conn EXCEPT ![c] = "gone"]
    /\ UNCHANGED <<rooms, pending, counter, Messaging, targets, inbox>>

Leave(c) ==
    /\ conn[c] = "talk" /\ Free(ProcOf[c])
    /\ Removing(c)
    /\ conn' = [conn EXCEPT ![c] = "gone"]
    /\ UNCHANGED <<Messaging, targets, inbox>>

---------------------------------------------------------------------------
(* append_room_message, chat_message                                         *)

Connections == <<conn, rooms, pending, counter, inbox>>

Setting(r, items) == store' = [store EXCEPT ![r] = Newest(items, MaxRoomMessages)]

\* Moderation let it pass: it waits in the file for its audit record.  A process
\* posts its messages in the order of their numbers.
Enter(m) ==
    /\ post[m] = "new" /\ Free(ProcOf[m])
    /\ \A n \in Messages : n < m /\ ProcOf[n] = ProcOf[m] => post[n] # "new"
    /\ Setting(RoomOf[m], Append(store[RoomOf[m]], [id |-> m, status |-> "pending_audit"]))
    /\ post' = [post EXCEPT ![m] = "append"]
    /\ UNCHANGED <<Connections, audited, targets>>

Audit(m) ==
    /\ post[m] = "append"
    /\ audited' = audited \cup {m}
    /\ post' = [post EXCEPT ![m] = "audit"]
    /\ UNCHANGED <<Connections, store, targets>>

\* An id is in the file once, if the room still keeps it.
Without(items, m) ==
    IF \E i \in DOMAIN items : items[i].id = m THEN RemoveAt(items, CHOOSE i \in DOMAIN items : items[i].id = m) ELSE items
AuditFails(m) ==
    /\ post[m] = "append"
    /\ Setting(RoomOf[m], Without(store[RoomOf[m]], m))
    /\ post' = [post EXCEPT ![m] = "refused"]
    /\ UNCHANGED <<Connections, audited, targets>>

\* Published, if the room still keeps it, and on its way to who is in the room.
Publish(m) ==
    /\ post[m] = "audit"
    /\ Setting(RoomOf[m], [i \in DOMAIN store[RoomOf[m]] |->
           LET item == store[RoomOf[m]][i] IN IF item.id = m THEN [item EXCEPT !.status = "published"] ELSE item])
    /\ post' = [post EXCEPT ![m] = "sent"]
    /\ targets' = [targets EXCEPT ![m] = rooms[ProcOf[m]][RoomOf[m]]]
    /\ UNCHANGED <<Connections, audited>>

\* _safe_send
Send(m, c) ==
    /\ c \in targets[m] /\ Free(ProcOf[c]) /\ conn[c] # "gone"
    /\ targets' = [targets EXCEPT ![m] = @ \ {c}]
    /\ inbox' = [inbox EXCEPT ![c] = @ \cup {m}]
    /\ UNCHANGED <<conn, rooms, pending, counter, Messaging>>

SendFails(m, c) ==
    /\ c \in targets[m] /\ Free(ProcOf[c]) /\ conn[c] = "gone"
    /\ targets' = [targets EXCEPT ![m] = @ \ {c}]
    /\ Removing(c)
    /\ UNCHANGED <<conn, Messaging, inbox>>

Connecting(c) == Reject(c) \/ Refuse(c) \/ Reserve(c) \/ AcceptFails(c) \/ Join(c) \/ Talk(c) \/ Strand(c) \/ Leave(c)
Posting(m) == Enter(m) \/ Audit(m) \/ AuditFails(m) \/ Publish(m)

Next ==
    \/ \E c \in Conns : Connecting(c)
    \/ \E m \in Messages : Posting(m)
    \/ \E m \in Messages, c \in Conns : Send(m, c) \/ SendFails(m, c)

Spec == Init /\ [][Next]_vars

---------------------------------------------------------------------------
\* Sent by the process of the connection, to its room, and not on its way.
Due(m, c) == post[m] = "sent" /\ ProcOf[m] = ProcOf[c] /\ RoomOf[m] = RoomOf[c] /\ c \notin targets[m]

\* Every message of its process that a connection has not is older than those it
\* has: whenever it joined, history and broadcasts leave no gap between them
\* (websocket_chat, broadcast, list_room_messages).  Messages are numbers in the
\* order of posting of their process.
NoGapInTheRoom ==
    \A c \in Conns : conn[c] = "talk" /\ c \in In(c) =>
        \A m, n \in Messages : Due(m, c) /\ Due(n, c) /\ m \in inbox[c] /\ n > m => n \in inbox[c]

\* A room has at most its limit of connections: slots are reserved so that
\* concurrent connects cannot oversubscribe it (connect).  The code does
\* not keep it: a connection may take back the slot reserved for another.
RoomHolds == \A p \in Procs, r \in Rooms : Cardinality(rooms[p][r]) <= RoomLimit
=============================================================================
