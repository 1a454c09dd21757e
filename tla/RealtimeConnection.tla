------------------------- MODULE RealtimeConnection -------------------------
(***************************************************************************)
(* The WebSocket connections of one submission: interview_websocket,       *)
(* _dispatch_event and ConnectionManager.  Every worker process has an     *)
(* event loop and an in-memory table; the loops share Redis.  A coroutine  *)
(* runs undisturbed from one await to the next, and an action is such a    *)
(* stretch; only disconnect is cut in two, between its Redis GET and       *)
(* DELETE, where another process can come in.                              *)
(***************************************************************************)
EXTENDS Naturals, FiniteSets

CONSTANTS
    Conn,       \* connections that clients open, each one once
    NoConn,     \* nobody
    Process,    \* worker processes
    Home        \* the process that serves each connection

ASSUME ConnAssumption == NoConn \notin Conn

ASSUME HomeAssumption == Home \in [Conn -> Process]

VARIABLES
    place,      \* where the coroutine of each connection waits
    sock,       \* the server's end of each WebSocket
    old,        \* the connection that connect() found and replaces
    active,     \* ConnectionManager._active of each process
    key,        \* active_websocket:{submission_id} in Redis
    meta        \* connections with a websocket_session:{id} key in Redis

vars == <<place, sock, old, active, key, meta>>

\* "gone" returned by itself, "failed" never registered, "crashed" with its process.
Over == {"gone", "failed", "crashed"}

Registered == {"reply", "receive", "fatal", "error", "drop_key"}

Steps == {"new", "notify", "accept", "register"} \cup Registered \cup Over

Init ==
    /\ place = [c \in Conn |-> "new"]
    /\ sock = [c \in Conn |-> "connecting"]
    /\ old = [c \in Conn |-> NoConn]
    /\ active = [p \in Process |-> NoConn]
    /\ key = NoConn
    /\ meta = {}

Goto(c, step) == place' = [place EXCEPT ![c] = step]

\* Mutation: an awaited Redis client lets the loop go on.
LoopAlwaysFree(c) == TRUE

\* Nothing runs in a process while one of its coroutines talks to Redis.
LoopFree(c) == \A d \in Conn : Home[d] = Home[c] => place[d] # "drop_key"

Close(c) == IF sock[c] = "open" THEN [sock EXCEPT ![c] = "closed"] ELSE sock

-----------------------------------------------------------------------------
(* ConnectionManager.connect                                               *)

\* GET the key; connection_replaced goes to the old connection if this process
\* has it.
Connect(c) ==
    LET prev == active[Home[c]] IN
    /\ place[c] = "new" /\ LoopFree(c)
    /\ IF key # NoConn /\ prev # NoConn
       THEN old' = [old EXCEPT ![c] = prev] /\ Goto(c, "notify")
       ELSE old' = old /\ Goto(c, "accept")
    /\ UNCHANGED <<sock, active, key, meta>>

\* Closing a connection that is no longer open raises, and is ignored.
CloseOld(c) ==
    /\ place[c] = "notify" /\ LoopFree(c)
    /\ sock' = Close(old[c])
    /\ Goto(c, "accept")
    /\ UNCHANGED <<old, active, key, meta>>

Accept(c) ==
    /\ place[c] = "accept" /\ LoopFree(c)
    /\ sock' = [sock EXCEPT ![c] = "open"]
    /\ Goto(c, "register")
    /\ UNCHANGED <<old, active, key, meta>>

\* Both SETs and the in-memory entry, then connection_established is sent.
Register(c) ==
    /\ place[c] = "register" /\ LoopFree(c)
    /\ key' = c
    /\ meta' = meta \cup {c}
    /\ active' = [active EXCEPT ![Home[c]] = c]
    /\ Goto(c, "reply")
    /\ UNCHANGED <<sock, old>>

\* connect raises (the handshake, Redis): the socket is closed and the route
\* returns without a disconnect.  The first SET may have been done.
ConnectFails(c) ==
    /\ place[c] \in {"accept", "register"} /\ LoopFree(c)
    /\ key' \in IF place[c] = "register" THEN {key, c} ELSE {key}
    /\ sock' = [sock EXCEPT ![c] = "closed"]
    /\ Goto(c, "failed")
    /\ UNCHANGED <<old, active, meta>>

-----------------------------------------------------------------------------
(* The message loop.                                                       *)

\* A send has come back, and receive_text is called.
Replied(c) ==
    /\ place[c] = "reply" /\ LoopFree(c)
    /\ Goto(c, "receive")
    /\ UNCHANGED <<sock, old, active, key, meta>>

\* An event is handled to its commit, and its response or a recoverable error is
\* sent.  A heartbeat renews the TTL of whatever key there is.
HandleEvent(c) ==
    /\ place[c] = "receive" /\ LoopFree(c)
    /\ sock[c] = "open"
    /\ Goto(c, "reply")
    /\ UNCHANGED <<sock, old, active, key, meta>>

FatalEvent(c) ==
    /\ place[c] = "receive" /\ LoopFree(c)
    /\ sock[c] = "open"
    /\ Goto(c, "fatal")
    /\ UNCHANGED <<sock, old, active, key, meta>>

\* The error has been sent.  The expression that should find the socket to close
\* names a variable that does not exist here; the NameError is swallowed.
CloseAfterFatal(c) ==
    /\ place[c] = "fatal" /\ LoopFree(c)
    /\ Goto(c, "receive")
    /\ UNCHANGED <<sock, old, active, key, meta>>

\* Mutation: the in-memory entry goes only with the key.
DisconnectIfKeyed(c) ==
    /\ active' = IF key = c THEN [active EXCEPT ![Home[c]] = NoConn] ELSE active
    /\ sock' = [sock EXCEPT ![c] = "closed"]
    /\ IF key = c
       THEN meta' = meta /\ Goto(c, "drop_key")
       ELSE meta' = meta \ {c} /\ Goto(c, "gone")
    /\ UNCHANGED <<old, key>>

\* disconnect: the in-memory entry of the submission goes, whoever it names; GET
\* the key to see whether it is still ours.
Disconnect(c) ==
    /\ active' = [active EXCEPT ![Home[c]] = NoConn]
    /\ sock' = [sock EXCEPT ![c] = "closed"]
    /\ IF key = c
       THEN meta' = meta /\ Goto(c, "drop_key")
       ELSE meta' = meta \ {c} /\ Goto(c, "gone")
    /\ UNCHANGED <<old, key>>

\* WebSocketDisconnect: the client closes or is lost, or the server has closed.
ClientGone(c) == place[c] = "receive" /\ LoopFree(c) /\ Disconnect(c)

\* receive_text on a socket closed while the coroutine was elsewhere raises; an
\* ErrorEvent is sent to whatever connection the table names.
ReceiveRaises(c) ==
    /\ place[c] = "receive" /\ LoopFree(c)
    /\ sock[c] = "closed"
    /\ Goto(c, "error")
    /\ UNCHANGED <<sock, old, active, key, meta>>

\* Mutation: the loop goes on after an unexpected error.
ErrorThenContinue(c) ==
    /\ place[c] = "error" /\ LoopFree(c)
    /\ Goto(c, "receive")
    /\ UNCHANGED <<sock, old, active, key, meta>>

ErrorSent(c) == place[c] = "error" /\ LoopFree(c) /\ Disconnect(c)

\* ... DELETE the key, and the metadata.
DropKey(c) ==
    /\ place[c] = "drop_key"
    /\ key' = NoConn
    /\ meta' = meta \ {c}
    /\ Goto(c, "gone")
    /\ UNCHANGED <<sock, old, active>>

-----------------------------------------------------------------------------
\* The key lives 60 seconds without a heartbeat.
KeyExpires ==
    /\ key # NoConn
    /\ key' = NoConn
    /\ UNCHANGED <<place, sock, old, active, meta>>

\* A process dies with its coroutines and its table; Redis keeps the keys.
Crash(p) ==
    LET lost == {c \in Conn : Home[c] = p /\ place[c] \notin Over \cup {"new"}} IN
    /\ lost # {}
    /\ place' = [c \in Conn |-> IF c \in lost THEN "crashed" ELSE place[c]]
    /\ sock' = [c \in Conn |-> IF c \in lost THEN "closed" ELSE sock[c]]
    /\ active' = [active EXCEPT ![p] = NoConn]
    /\ UNCHANGED <<old, key, meta>>

\* What a coroutine does without waiting for its client.
Resume(c) ==
    \/ CloseOld(c) \/ Accept(c) \/ Register(c) \/ Replied(c)
    \/ CloseAfterFatal(c) \/ ErrorSent(c) \/ DropKey(c)
    \/ (sock[c] = "closed" /\ (ClientGone(c) \/ ReceiveRaises(c)))

Next ==
    \/ \E c \in Conn :
          \/ Connect(c) \/ CloseOld(c) \/ Accept(c) \/ Register(c)
          \/ ConnectFails(c) \/ Replied(c) \/ HandleEvent(c) \/ FatalEvent(c)
          \/ CloseAfterFatal(c) \/ ClientGone(c) \/ ReceiveRaises(c)
          \/ ErrorSent(c) \/ DropKey(c)
    \/ KeyExpires
    \/ \E p \in Process : Crash(p)

ConnSpec == Init /\ [][Next]_vars

\* An event loop runs every coroutine that can go on.
FairConnSpec == ConnSpec /\ \A c \in Conn : WF_vars(Resume(c))

-----------------------------------------------------------------------------
\* Every variable has its type, and a replacement has somebody to notify.
TypeOK ==
    /\ place \in [Conn -> Steps]
    /\ sock \in [Conn -> {"connecting", "open", "closed"}]
    /\ old \in [Conn -> Conn \cup {NoConn}]
    /\ \A c \in Conn : place[c] = "notify" => old[c] # NoConn
    /\ active \in [Process -> Conn \cup {NoConn}]
    /\ key \in Conn \cup {NoConn}
    /\ meta \subseteq Conn

\* send_event never writes to a connection whose coroutine is over: every end of
\* a registered connection empties the entry of its process, whoever it named.
NoDeadEntry ==
    \A p \in Process : active[p] # NoConn =>
        /\ Home[active[p]] = p
        /\ place[active[p]] \in Registered

\* Only a crash leaves session metadata behind.
MetadataIsCleanedUp ==
    \A c \in Conn : c \in meta => place[c] \in Registered \cup {"crashed"}

\* The end of a connection spares the key of the one that replaced it in the same
\* process, although it compares and deletes in two Redis calls.
SameProcessKeySurvives ==
    [][\A c \in Conn : DropKey(c) =>
          key \in {c, NoConn} \/ Home[key] # Home[c]]_vars

\* A connection that the server has closed comes to its end: nobody is left in a
\* loop that can neither receive nor send.
ClosedConnectionsEnd == \A c \in Conn : sock[c] = "closed" ~> place[c] \in Over

\* Between GET and DELETE the loop of the process stands still: nobody has been
\* registered there, and the key is not that of a neighbour.
DropKeyInv ==
    \A c \in Conn : place[c] = "drop_key" =>
        /\ active[Home[c]] = NoConn
        /\ key \in {c, NoConn} \/ Home[key] # Home[c]

\* The conjunction that every step preserves.
IndInv == TypeOK /\ NoDeadEntry /\ MetadataIsCleanedUp /\ DropKeyInv

=============================================================================
