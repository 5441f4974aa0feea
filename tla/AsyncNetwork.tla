---------------------------- MODULE AsyncNetwork ----------------------------
(***************************************************************************)
(* The asynchronous connections of the emulated serial port                *)
(* (async_network.cpp).  The emulator's tasks start, use and stop          *)
(* connections through handles; one worker task opens, pumps and closes    *)
(* the sockets.  They share a table of slots.  Every region under a slot's *)
(* or a queue's mutex and every call into the network stack is a step, and *)
(* anything may happen between two steps.                                  *)
(*                                                                         *)
(* A socket is named by the generation of the connection it was opened     *)
(* for, and the k-th byte of a stream by that generation and k, so that a  *)
(* byte or a socket in the wrong connection can be told.  Error codes and  *)
(* the counters of dropped bytes and skips are diagnostics and left out.   *)
(***************************************************************************)
EXTENDS Integers, Sequences

CONSTANTS
    SlotCount,          \* kMaxConnections
    Clients,            \* the tasks that hold a handle
    LastGeneration,     \* after which g_nextGeneration starts again at 1
    QueueSize,          \* kQueueSize
    TxChunkSize,        \* kTxChunkSize
    RxChunkSize,        \* kRxChunkSize
    MaxBytes,           \* bound: bytes per connection and direction
    NoHandle

ASSUME NetworkAssumption ==
    /\ SlotCount \in Nat \ {0}
    /\ LastGeneration \in Nat \ {0}
    /\ QueueSize \in Nat \ {0}
    /\ TxChunkSize \in 1 .. QueueSize
    /\ RxChunkSize \in 1 .. QueueSize
    /\ MaxBytes \in Nat
    /\ NoHandle \notin [slot : 1 .. SlotCount, generation : 1 .. LastGeneration]

VARIABLES
    inUse, releaseRequested, stopRequested, connectStarted,
    generation, state, socket,  \* the fields of each ConnectionSlot
    rx, tx,                     \* its byte queues
    nextGeneration,             \* g_nextGeneration
    handle,                     \* the handle each client holds
    cpc,                        \* what each client is doing
    wpc,                        \* next step of the worker
    turn,                       \* the slot it is working on
    sock,                       \* the socket in its local variable, or 0
    amount,                     \* bytes sent and not yet dropped from tx
    chunk,                      \* bytes received and not yet in rx
    closing,                    \* the state CloseSocket will set
    open,                       \* the network stack: the sockets that are open
    accepted, sent,             \* history: bytes taken by send, and on the wire
    arrived, taken              \* history: bytes from the wire, and received

flags   == <<inUse, releaseRequested, stopRequested, connectStarted>>
slots   == <<flags, generation, state, socket>>
queues  == <<rx, tx>>
client  == <<nextGeneration, handle, cpc>>
local   == <<sock, amount, chunk, closing>>
worker  == <<wpc, turn, local>>
history == <<accepted, sent, arrived, taken>>
vars    == <<slots, queues, client, worker, open, history>>

Slots == 1 .. SlotCount

Generations == 1 .. LastGeneration

None == 0       \* no socket

States == {"Connecting", "Connected", "Closed", "Error"}

Handles == [slot : Slots, generation : Generations]

WorkerSteps ==
    {"scan", "connect", "resolve", "failed", "publish", "abandon", "abandoned",
     "pump", "send", "drop", "count", "receive", "store",
     "close", "closing", "closed", "free"}

ClientSteps == {"idle", "open", "push", "pop", "wait", "drain"}

\* The bytes from .. upto of the stream of connection g.
Bytes(g, from, upto) ==
    [i \in 1 .. upto - from + 1 |-> <<g, from + i - 1>>]

Least(a, b) == IF a < b THEN a ELSE b

TypeOK ==
    /\ inUse \in [Slots -> BOOLEAN]
    /\ releaseRequested \in [Slots -> BOOLEAN]
    /\ stopRequested \in [Slots -> BOOLEAN]
    /\ connectStarted \in [Slots -> BOOLEAN]
    /\ generation \in [Slots -> Generations \cup {0}]
    /\ state \in [Slots -> States]
    /\ socket \in [Slots -> Generations \cup {None}]
    /\ rx \in [Slots -> Seq(Generations \X Nat)]
    /\ tx \in [Slots -> Seq(Generations \X Nat)]
    /\ nextGeneration \in Generations
    /\ handle \in [Clients -> Handles \cup {NoHandle}]
    /\ cpc \in [Clients -> ClientSteps]
    /\ wpc \in WorkerSteps
    /\ turn \in Slots
    /\ sock \in Generations \cup {None}
    /\ amount \in Nat
    /\ chunk \in Seq(Generations \X Nat)
    /\ closing \in {"Closed", "Error"}
    /\ open \subseteq Generations
    /\ accepted \in [Slots -> Nat] /\ sent \in [Slots -> Nat]
    /\ arrived \in [Slots -> Nat] /\ taken \in [Slots -> Nat]

Init ==
    /\ inUse = [s \in Slots |-> FALSE]
    /\ releaseRequested = [s \in Slots |-> FALSE]
    /\ stopRequested = [s \in Slots |-> FALSE]
    /\ connectStarted = [s \in Slots |-> FALSE]
    /\ generation = [s \in Slots |-> 0]
    /\ state = [s \in Slots |-> "Closed"]
    /\ socket = [s \in Slots |-> None]
    /\ rx = [s \in Slots |-> <<>>]
    /\ tx = [s \in Slots |-> <<>>]
    /\ nextGeneration = 1
    /\ handle = [c \in Clients |-> NoHandle]
    /\ cpc = [c \in Clients |-> "idle"]
    /\ wpc = "scan"
    /\ turn = 1
    /\ sock = None
    /\ amount = 0
    /\ chunk = <<>>
    /\ closing = "Closed"
    /\ open = {}
    /\ accepted = [s \in Slots |-> 0] /\ sent = [s \in Slots |-> 0]
    /\ arrived = [s \in Slots |-> 0] /\ taken = [s \in Slots |-> 0]

-----------------------------------------------------------------------------
(* The emulator's tasks. *)

\* 2^32 connections are not started while one handle or slot is in use.
GenerationFree ==
    /\ \A s \in Slots : inUse[s] => generation[s] # nextGeneration
    /\ \A c \in Clients : handle[c] # NoHandle =>
          handle[c].generation # nextGeneration

NextGeneration ==
    IF nextGeneration = LastGeneration THEN 1 ELSE nextGeneration + 1

\* bmc64_async_net_start locks one slot after the other and takes the first it
\* finds free; a slot it has passed may have become free since.  When all are
\* in use nothing happens.
Start(c) ==
    /\ cpc[c] = "idle" /\ GenerationFree
    /\ \E s \in Slots :
          /\ ~inUse[s]
          /\ inUse' = [inUse EXCEPT ![s] = TRUE]
          /\ releaseRequested' = [releaseRequested EXCEPT ![s] = FALSE]
          /\ stopRequested' = [stopRequested EXCEPT ![s] = FALSE]
          /\ connectStarted' = [connectStarted EXCEPT ![s] = FALSE]
          /\ generation' = [generation EXCEPT ![s] = nextGeneration]
          /\ state' = [state EXCEPT ![s] = "Connecting"]
          /\ socket' = [socket EXCEPT ![s] = None]
          /\ rx' = [rx EXCEPT ![s] = <<>>]
          /\ tx' = [tx EXCEPT ![s] = <<>>]
          /\ handle' = [handle EXCEPT ![c] =
                          [slot |-> s, generation |-> nextGeneration]]
          /\ accepted' = [accepted EXCEPT ![s] = 0]
          /\ sent' = [sent EXCEPT ![s] = 0]
          /\ arrived' = [arrived EXCEPT ![s] = 0]
          /\ taken' = [taken EXCEPT ![s] = 0]
    /\ nextGeneration' = NextGeneration
    /\ cpc' = [cpc EXCEPT ![c] = "open"]
    /\ UNCHANGED <<worker, open>>

\* SnapshotHandle: the slot still belongs to this handle.
HandleValid(c) ==
    /\ handle[c] # NoHandle
    /\ inUse[handle[c].slot]
    /\ generation[handle[c].slot] = handle[c].generation

\* bmc64_async_net_send and _receive look at the slot first and touch its
\* queue afterwards.
Use(c) ==
    /\ cpc[c] = "open" /\ HandleValid(c)
    /\ \/ accepted[handle[c].slot] < MaxBytes /\ cpc' = [cpc EXCEPT ![c] = "push"]
       \/ cpc' = [cpc EXCEPT ![c] = "pop"]
    /\ UNCHANGED <<slots, queues, nextGeneration, handle, worker, open, history>>

\* What does not fit into the queue is refused, and the caller is told.
Send(c) ==
    /\ cpc[c] = "push"
    /\ LET s == handle[c].slot IN
       \E requested \in 1 .. MaxBytes - accepted[s] :
          LET pushed == Least(requested, QueueSize - Len(tx[s])) IN
          /\ tx' = [tx EXCEPT ![s] = @ \o Bytes(handle[c].generation,
                                 accepted[s] + 1, accepted[s] + pushed)]
          /\ accepted' = [accepted EXCEPT ![s] = @ + pushed]
    /\ cpc' = [cpc EXCEPT ![c] = "open"]
    /\ UNCHANGED <<slots, rx, nextGeneration, handle, worker, open,
                   sent, arrived, taken>>

Receive(c) ==
    /\ cpc[c] = "pop"
    /\ LET s == handle[c].slot IN
       \E wanted \in 1 .. QueueSize :
          LET popped == Least(wanted, Len(rx[s])) IN
          /\ rx' = [rx EXCEPT ![s] = SubSeq(@, popped + 1, Len(@))]
          /\ taken' = [taken EXCEPT ![s] = @ + popped]
    /\ cpc' = [cpc EXCEPT ![c] = "open"]
    /\ UNCHANGED <<slots, tx, nextGeneration, handle, worker, open,
                   accepted, sent, arrived>>

\* bmc64_async_net_stop asks the worker to close the connection ...
StopRequest(c) ==
    /\ cpc[c] = "open" /\ HandleValid(c)
    /\ LET s == handle[c].slot IN
       /\ stopRequested' = [stopRequested EXCEPT ![s] = TRUE]
       /\ releaseRequested' = [releaseRequested EXCEPT ![s] = TRUE]
    /\ cpc' = [cpc EXCEPT ![c] = "wait"]
    /\ UNCHANGED <<inUse, connectStarted, generation, state, socket, queues,
                   nextGeneration, handle, worker, open, history>>

\* ... waits until it sees that it was closed ...
StopObserved(c) ==
    LET s == handle[c].slot IN
    \/ ~HandleValid(c)
    \/ socket[s] = None /\ state[s] \notin {"Connecting", "Connected"}

StopWait(c) ==
    /\ cpc[c] = "wait" /\ StopObserved(c)
    /\ cpc' = [cpc EXCEPT ![c] = "drain"]
    /\ UNCHANGED <<slots, queues, nextGeneration, handle, worker, open, history>>

\* ... or until kStopWaitMs have passed, and deletes the handle in any case.
StopReturn(c) ==
    /\ cpc[c] \in {"wait", "drain"}
    /\ cpc' = [cpc EXCEPT ![c] = "idle"]
    /\ handle' = [handle EXCEPT ![c] = NoHandle]
    /\ UNCHANGED <<slots, queues, nextGeneration, worker, open, history>>

-----------------------------------------------------------------------------
(* The worker. *)

Done ==
    /\ wpc' = "scan"
    /\ turn' = IF turn = SlotCount THEN 1 ELSE turn + 1

Goto(step) == wpc' = step /\ UNCHANGED turn

\* Mutant: a connection that ended is freed without waiting for the stop.
MayFreeEnded(s) ==
    state[s] \in {"Closed", "Error"}

MayFree(s) ==
    /\ releaseRequested[s] /\ state[s] # "Connecting"
    /\ socket[s] = None \/ state[s] \in {"Closed", "Error"}

MayConnect(s) == state[s] = "Connecting" /\ ~connectStarted[s]

\* ProcessSlot decides on a snapshot of the slot.
ProcessSlot ==
    LET s == turn IN
    /\ wpc = "scan"
    /\ \/ inUse[s] /\ MayFree(s) /\ Goto("free")
       \/ inUse[s] /\ MayConnect(s) /\ Goto("connect")
       \/ inUse[s] /\ ~MayFree(s) /\ state[s] = "Connected" /\ Goto("pump")
       \/ /\ inUse[s] => /\ ~MayFree(s) /\ ~MayConnect(s)
                         /\ state[s] # "Connected"
          /\ Done
    /\ UNCHANGED <<slots, queues, client, local, open, history>>

Connect ==
    /\ wpc = "connect"
    /\ connectStarted' = [connectStarted EXCEPT ![turn] = TRUE]
    /\ Goto("resolve")
    /\ UNCHANGED <<inUse, releaseRequested, stopRequested, generation, state,
                   socket, queues, client, local, open, history>>

\* Resolving the name and opening the connection take as long as they take.
NetworkClient ==
    /\ wpc = "resolve"
    /\ \/ /\ sock' = generation[turn]
          /\ open' = open \cup {sock'}
          /\ Goto("publish")
       \/ sock' = None /\ Goto("failed") /\ UNCHANGED open
    /\ UNCHANGED <<slots, queues, client, amount, chunk, closing, history>>

ConnectFailed ==
    /\ wpc = "failed"
    /\ state' = [state EXCEPT ![turn] = "Error"]
    /\ socket' = [socket EXCEPT ![turn] = None]
    /\ Done
    /\ UNCHANGED <<flags, generation, queues, client, local, open, history>>

\* Mutant: the slot of a stopped connection is closed, its new socket is not.
PublishForgets ==
    /\ wpc = "publish"
    /\ \/ /\ stopRequested[turn]
          /\ state' = [state EXCEPT ![turn] = "Closed"]
          /\ UNCHANGED socket
       \/ /\ ~stopRequested[turn]
          /\ socket' = [socket EXCEPT ![turn] = sock]
          /\ state' = [state EXCEPT ![turn] = "Connected"]
    /\ Done
    /\ UNCHANGED <<flags, generation, queues, client, local, open, history>>

\* A connection that was stopped in the meantime is abandoned.
PublishSocket ==
    /\ wpc = "publish"
    /\ \/ /\ stopRequested[turn]
          /\ socket' = [socket EXCEPT ![turn] = None]
          /\ Goto("abandon")
          /\ UNCHANGED state
       \/ /\ ~stopRequested[turn]
          /\ socket' = [socket EXCEPT ![turn] = sock]
          /\ state' = [state EXCEPT ![turn] = "Connected"]
          /\ Done
    /\ UNCHANGED <<flags, generation, queues, client, local, open, history>>

\* Mutant: the slot of an abandoned connection stays in Connecting.
AbandonForgets ==
    /\ \/ /\ wpc = "abandon"
          /\ open' = open \ {sock}
          /\ Goto("abandoned")
       \/ /\ wpc = "abandoned"
          /\ Done
          /\ UNCHANGED open
    /\ UNCHANGED <<slots, queues, client, local, history>>

Abandon ==
    /\ \/ /\ wpc = "abandon"
          /\ open' = open \ {sock}
          /\ Goto("abandoned")
          /\ UNCHANGED state
       \/ /\ wpc = "abandoned"
          /\ state' = [state EXCEPT ![turn] = "Closed"]
          /\ Done
          /\ UNCHANGED open
    /\ UNCHANGED <<flags, generation, socket, queues, client, local, history>>

\* PumpConnected: SocketForConnected, then one chunk each way.
PumpConnected ==
    /\ wpc = "pump"
    /\ \/ /\ stopRequested[turn]
          /\ closing' = "Closed"
          /\ Goto("close")
          /\ UNCHANGED sock
       \/ /\ ~stopRequested[turn]
          /\ state[turn] = "Connected" /\ socket[turn] # None
          /\ sock' = socket[turn]
          /\ Goto("send")
          /\ UNCHANGED closing
    /\ UNCHANGED <<slots, queues, client, amount, chunk, open, history>>

CloseAfterError == closing' = "Error" /\ Goto("close")

\* The stack takes some of the bytes at the head of tx, none, or fails.
NetworkSend ==
    LET txLen == Least(TxChunkSize, Len(tx[turn])) IN
    /\ wpc = "send"
    /\ \/ /\ \E n \in 0 .. txLen :
                /\ amount' = n
                /\ sent' = [sent EXCEPT ![turn] = @ + n]
                /\ Goto(IF n > 0 THEN "drop" ELSE "count")
          /\ UNCHANGED closing
       \/ txLen > 0 /\ CloseAfterError /\ UNCHANGED <<amount, sent>>
    /\ UNCHANGED <<slots, queues, client, sock, chunk, open,
                   accepted, arrived, taken>>

\* Mutant: everything that was peeked is dropped.
DropPeeked ==
    /\ wpc = "drop"
    /\ tx' = [tx EXCEPT ![turn] =
                 SubSeq(@, Least(TxChunkSize, Len(@)) + 1, Len(@))]
    /\ amount' = 0
    /\ Goto("count")
    /\ UNCHANGED <<slots, rx, client, sock, chunk, closing, open, history>>

DropSent ==
    /\ wpc = "drop"
    /\ tx' = [tx EXCEPT ![turn] = SubSeq(@, amount + 1, Len(@))]
    /\ amount' = 0
    /\ Goto("count")
    /\ UNCHANGED <<slots, rx, client, sock, chunk, closing, open, history>>

\* Mutant: any free space at all is enough.
RoomForByte == Len(rx[turn]) < QueueSize

RoomForChunk == Len(rx[turn]) <= QueueSize - RxChunkSize

CountFree ==
    /\ wpc = "count"
    /\ \/ RoomForChunk /\ Goto("receive")
       \/ ~RoomForChunk /\ Done
    /\ UNCHANGED <<slots, queues, client, local, open, history>>

\* Poll and receive: nothing, an error, the end of the stream, or bytes.
NetworkReceive ==
    /\ wpc = "receive"
    /\ \/ /\ Done
          /\ UNCHANGED <<closing, chunk, arrived>>
       \/ /\ CloseAfterError
          /\ UNCHANGED <<chunk, arrived>>
       \/ /\ closing' = "Closed" /\ Goto("close")
          /\ UNCHANGED <<chunk, arrived>>
       \/ /\ \E n \in 1 .. RxChunkSize :
                /\ arrived[turn] + n <= MaxBytes
                /\ chunk' = Bytes(sock, arrived[turn] + 1, arrived[turn] + n)
                /\ arrived' = [arrived EXCEPT ![turn] = @ + n]
          /\ Goto("store")
          /\ UNCHANGED closing
    /\ UNCHANGED <<slots, queues, client, sock, amount, open,
                   accepted, sent, taken>>

\* Bytes that do not fit any more are dropped.
StoreReceived ==
    LET pushed == Least(Len(chunk), QueueSize - Len(rx[turn])) IN
    /\ wpc = "store"
    /\ rx' = [rx EXCEPT ![turn] = @ \o SubSeq(chunk, 1, pushed)]
    /\ chunk' = <<>>
    /\ Done
    /\ UNCHANGED <<slots, tx, client, sock, amount, closing, open, history>>

\* Mutant: the new state is visible before the socket is closed.
CloseStateFirst ==
    /\ \/ /\ wpc = "close"
          /\ sock' = socket[turn]
          /\ socket' = [socket EXCEPT ![turn] = None]
          /\ state' = [state EXCEPT ![turn] = closing]
          /\ Goto("closing")
          /\ UNCHANGED open
       \/ /\ wpc = "closing"
          /\ open' = open \ {sock}
          /\ Done
          /\ UNCHANGED <<sock, socket, state>>
    /\ UNCHANGED <<flags, generation, queues, client, amount, chunk,
                   closing, history>>

\* CloseSocket: the slot gives up the socket, the socket is closed without the
\* lock, and only then the state changes.
CloseSocket ==
    /\ \/ /\ wpc = "close"
          /\ sock' = socket[turn]
          /\ socket' = [socket EXCEPT ![turn] = None]
          /\ Goto("closing")
          /\ UNCHANGED <<state, open>>
       \/ /\ wpc = "closing"
          /\ open' = open \ {sock}
          /\ Goto("closed")
          /\ UNCHANGED <<sock, socket, state>>
       \/ /\ wpc = "closed"
          /\ state' = [state EXCEPT ![turn] = closing]
          /\ Done
          /\ UNCHANGED <<sock, socket, open>>
    /\ UNCHANGED <<flags, generation, queues, client, amount, chunk,
                   closing, history>>

\* FreeSlot.  A socket that is still there would be closed after the unlock;
\* SocketsAccounted says that there never is one.
FreeSlot ==
    /\ wpc = "free"
    /\ inUse' = [inUse EXCEPT ![turn] = FALSE]
    /\ releaseRequested' = [releaseRequested EXCEPT ![turn] = FALSE]
    /\ stopRequested' = [stopRequested EXCEPT ![turn] = FALSE]
    /\ connectStarted' = [connectStarted EXCEPT ![turn] = FALSE]
    /\ state' = [state EXCEPT ![turn] = "Closed"]
    /\ socket' = [socket EXCEPT ![turn] = None]
    /\ open' = open \ {socket[turn]}
    /\ rx' = [rx EXCEPT ![turn] = <<>>]
    /\ tx' = [tx EXCEPT ![turn] = <<>>]
    /\ accepted' = [accepted EXCEPT ![turn] = 0]
    /\ sent' = [sent EXCEPT ![turn] = 0]
    /\ arrived' = [arrived EXCEPT ![turn] = 0]
    /\ taken' = [taken EXCEPT ![turn] = 0]
    /\ Done
    /\ UNCHANGED <<generation, client, local>>

-----------------------------------------------------------------------------
Worker ==
    \/ ProcessSlot
    \/ Connect \/ NetworkClient \/ ConnectFailed \/ PublishSocket \/ Abandon
    \/ PumpConnected \/ NetworkSend \/ DropSent
    \/ CountFree \/ NetworkReceive \/ StoreReceived
    \/ CloseSocket \/ FreeSlot

Client(c) ==
    \/ Start(c) \/ Use(c) \/ Send(c) \/ Receive(c)
    \/ StopRequest(c) \/ StopWait(c) \/ StopReturn(c)

Next == Worker \/ \E c \in Clients : Client(c)

Spec == Init /\ [][Next]_vars

\* The worker's loop never ends, and every call into the network returns.
FairSpec == Spec /\ WF_vars(Worker)

-----------------------------------------------------------------------------
(* Properties. *)

\* A client's handle stays good until the client itself has asked for the
\* stop: between the check and the use of a queue nobody frees the slot.
HandlesHold ==
    \A c \in Clients : cpc[c] \in {"open", "push", "pop"} => HandleValid(c)

\* The socket in the worker's hands, when the slot does not hold it.
InHand ==
    IF wpc \in {"publish", "abandon", "closing"} THEN {sock} ELSE {}

\* Every open socket has exactly one holder, the slot of the connection it was
\* opened for or the worker, and every held socket is open: none leaks, none
\* is closed twice, none ends up in another connection.
SocketsAccounted ==
    /\ open = InHand \cup {socket[s] : s \in {t \in Slots : socket[t] # None}}
    /\ \A s \in Slots : socket[s] # None =>
          inUse[s] /\ socket[s] = generation[s] /\ socket[s] \notin InHand

\* When stop returns because it saw the end of the connection, the socket has
\* really been closed, so that the same port can be opened again.
StopMeansClosed ==
    \A c \in Clients : cpc[c] = "drain" => handle[c].generation \notin open

\* What the worker has received always fits into the queue, whatever the
\* clients did since the free space was looked at.
NothingDropped ==
    wpc = "store" => Len(chunk) <= QueueSize - Len(rx[turn])

\* The queues hold exactly the bytes between what went in and what came out,
\* in order, and no byte of an earlier connection.
StreamsExact ==
    \A s \in Slots : inUse[s] =>
       LET gone  == IF wpc = "drop" /\ turn = s THEN amount ELSE 0
           ahead == IF wpc = "store" /\ turn = s THEN Len(chunk) ELSE 0 IN
       /\ SubSeq(tx[s], gone + 1, Len(tx[s])) =
             Bytes(generation[s], sent[s] + 1, accepted[s])
       /\ rx[s] = Bytes(generation[s], taken[s] + 1, arrived[s] - ahead)

\* A connection that was stopped gives its slot back, even if stop itself did
\* not wait for it.
SlotReleased == \A s \in Slots : releaseRequested[s] ~> ~inUse[s]

=============================================================================
