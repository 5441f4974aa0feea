------------------------ MODULE AsyncNetwork_proofs ------------------------
(***************************************************************************)
(* The connection table for any number of slots, clients and generations:  *)
(* handles stay good while they are used, every open socket has exactly    *)
(* one holder, and a stop that was observed means a closed socket.         *)
(*                                                                         *)
(* None of the three is inductive.  What is missing is who may touch a     *)
(* slot while the worker has it in hand, what the worker knows at each of  *)
(* its steps, and that live generations are distinct.                      *)
(***************************************************************************)
EXTENDS AsyncNetwork, SequenceTheorems, TLAPS

ControlType ==
    /\ inUse \in [Slots -> BOOLEAN]
    /\ releaseRequested \in [Slots -> BOOLEAN]
    /\ stopRequested \in [Slots -> BOOLEAN]
    /\ connectStarted \in [Slots -> BOOLEAN]
    /\ generation \in [Slots -> Generations \cup {0}]
    /\ state \in [Slots -> States]
    /\ socket \in [Slots -> Generations \cup {None}]
    /\ nextGeneration \in Generations
    /\ handle \in [Clients -> Handles \cup {NoHandle}]
    /\ cpc \in [Clients -> ClientSteps]
    /\ wpc \in WorkerSteps
    /\ turn \in Slots
    /\ sock \in Generations \cup {None}
    /\ closing \in {"Closed", "Error"}
    /\ open \subseteq Generations

\* A stop sets both flags, and only on a slot that is in use.
FlagsAgree ==
    \A s \in Slots :
       /\ releaseRequested[s] => inUse[s]
       /\ stopRequested[s] <=> releaseRequested[s]

\* No two live connections have the same generation.
LiveGenerations ==
    \A s \in Slots : inUse[s] =>
       /\ generation[s] \in Generations
       /\ \A t \in Slots : inUse[t] /\ generation[t] = generation[s] => t = s

\* A generation in a handle is in no other handle and in no other slot.
HandlesDistinct ==
    \A c \in Clients :
       /\ cpc[c] = "idle" <=> handle[c] = NoHandle
       /\ handle[c] # NoHandle =>
             /\ \A s \in Slots :
                   inUse[s] /\ generation[s] = handle[c].generation
                      => s = handle[c].slot
             /\ \A d \in Clients : handle[d] # NoHandle /\ d # c
                   => handle[d].generation # handle[c].generation

\* Only the holder of a handle asks for the release of its slot.
HandlesUnreleased ==
    \A c \in Clients : cpc[c] \in {"open", "push", "pop"} =>
       /\ HandleValid(c)
       /\ ~releaseRequested[handle[c].slot]

\* What a stop has observed stays true.
DrainStable == \A c \in Clients : cpc[c] = "drain" => StopObserved(c)

\* A slot that is not in the worker's hands.
Settled(s) ==
    /\ state[s] = "Connected" <=> socket[s] # None
    /\ state[s] \in {"Connecting", "Connected"} => inUse[s]
    /\ state[s] = "Connecting" => ~connectStarted[s]

SlotsSettled == \A s \in Slots : s # turn \/ wpc = "scan" => Settled(s)

\* What the worker knows of the slot in its hands.
WorkerKnows ==
    /\ wpc # "scan" => inUse[turn]
    /\ wpc = "free" =>
          /\ releaseRequested[turn] /\ socket[turn] = None
          /\ state[turn] \in {"Closed", "Error"}
    /\ wpc = "connect" => ~connectStarted[turn]
    /\ wpc \in {"connect", "resolve", "failed", "publish", "abandon", "abandoned"}
          => state[turn] = "Connecting" /\ socket[turn] = None
    /\ wpc \in {"pump", "send", "drop", "count", "receive", "store", "close"}
          => state[turn] = "Connected" /\ socket[turn] # None
    /\ wpc \in {"send", "drop", "count", "receive", "store"}
          => sock = socket[turn]
    /\ wpc \in {"closing", "closed"}
          => state[turn] = "Connected" /\ socket[turn] = None
    /\ wpc \in {"publish", "abandon", "closing"} => sock = generation[turn]

\* SocketsAccounted, socket by socket.
SocketsHeld ==
    /\ \A s \in Slots : socket[s] # None =>
          inUse[s] /\ socket[s] = generation[s]
    /\ \A g \in Generations : g \in open <=>
          \/ wpc \in {"publish", "abandon", "closing"} /\ g = sock
          \/ \E s \in Slots : socket[s] = g

NetworkInv ==
    /\ ControlType
    /\ FlagsAgree
    /\ LiveGenerations
    /\ HandlesDistinct
    /\ HandlesUnreleased
    /\ DrainStable
    /\ SlotsSettled
    /\ WorkerKnows
    /\ SocketsHeld

\* A handle names a slot and a generation, and is none.
LEMMA NoHandleApart ==
    /\ NoHandle \notin Handles
    /\ \A h \in Handles : h.slot \in Slots /\ h.generation \in Generations
  BY NetworkAssumption DEF Handles, Slots, Generations

LEMMA InitControl == Init => NetworkInv
  <1> SUFFICES ASSUME Init PROVE NetworkInv
    OBVIOUS
  <1> USE NetworkAssumption DEF Init, Slots, Generations, None
  <1>1. ControlType
    BY DEF ControlType, States, ClientSteps, WorkerSteps
  <1>2. FlagsAgree /\ LiveGenerations /\ HandlesDistinct
    BY DEF FlagsAgree, LiveGenerations, HandlesDistinct
  <1>3. HandlesUnreleased /\ DrainStable
    BY DEF HandlesUnreleased, DrainStable
  <1>4. SlotsSettled /\ WorkerKnows /\ SocketsHeld
    BY DEF SlotsSettled, Settled, WorkerKnows, SocketsHeld
  <1> QED
    BY <1>1, <1>2, <1>3, <1>4 DEF NetworkInv

\* A fresh generation takes no live connection's and no handle's name.
LEMMA StartStep ==
    ASSUME NetworkInv, NEW c \in Clients, Start(c)
    PROVE  NetworkInv'
  <1> USE NetworkAssumption DEF NetworkInv, Generations, None
  <1>1. PICK s \in Slots :
           /\ ~inUse[s]
           /\ inUse' = [inUse EXCEPT ![s] = TRUE]
           /\ releaseRequested' = [releaseRequested EXCEPT ![s] = FALSE]
           /\ stopRequested' = [stopRequested EXCEPT ![s] = FALSE]
           /\ connectStarted' = [connectStarted EXCEPT ![s] = FALSE]
           /\ generation' = [generation EXCEPT ![s] = nextGeneration]
           /\ state' = [state EXCEPT ![s] = "Connecting"]
           /\ socket' = [socket EXCEPT ![s] = None]
           /\ handle' = [handle EXCEPT ![c] =
                            [slot |-> s, generation |-> nextGeneration]]
    BY DEF Start
  <1>2. /\ cpc[c] = "idle" /\ handle[c] = NoHandle
        /\ cpc' = [cpc EXCEPT ![c] = "open"]
        /\ UNCHANGED <<wpc, turn, sock, closing, open>>
    BY DEF Start, HandlesDistinct, worker, local
  <1>3. [slot |-> s, generation |-> nextGeneration] \in Handles
    BY DEF Handles, ControlType
  <1>4. s # turn \/ wpc = "scan"
    BY <1>1 DEF WorkerKnows
  <1>5. ControlType'
    BY <1>1, <1>2, <1>3 DEF ControlType, States, ClientSteps, Start, NextGeneration
  <1>6. FlagsAgree'
    BY <1>1 DEF FlagsAgree, ControlType
  <1>7. LiveGenerations'
    BY <1>1 DEF LiveGenerations, ControlType, Start, GenerationFree
  <1>8. HandlesDistinct'
    <2> SUFFICES ASSUME NEW d \in Clients
                 PROVE  HandlesDistinct!(d)'
      BY DEF HandlesDistinct
    <2>1. CASE d = c
      BY <1>1, <1>2, <1>3, <2>1, NoHandleApart
      DEF HandlesDistinct, ControlType, Start, GenerationFree
    <2>2. CASE d # c
      BY <1>1, <1>2, <1>3, <2>2, NoHandleApart
      DEF HandlesDistinct, ControlType, Start, GenerationFree
    <2> QED
      BY <2>1, <2>2
  <1>9. HandlesUnreleased'
    <2> SUFFICES ASSUME NEW d \in Clients, cpc'[d] \in {"open", "push", "pop"}
                 PROVE  HandleValid(d)' /\ ~releaseRequested'[handle'[d].slot]
      BY DEF HandlesUnreleased
    <2>1. CASE d = c
      BY <1>1, <1>2, <1>3, <2>1, NoHandleApart DEF HandleValid, ControlType
    <2>2. CASE d # c
      BY <1>1, <1>2, <2>2, NoHandleApart
      DEF HandlesUnreleased, HandleValid, ControlType
    <2> QED
      BY <2>1, <2>2
  <1>10. DrainStable'
    BY <1>1, <1>2, <1>3 DEF DrainStable, StopObserved, HandleValid, ControlType,
       Start, GenerationFree, Handles, HandlesDistinct
  <1>11. SlotsSettled'
    BY <1>1, <1>2, <1>4 DEF SlotsSettled, Settled, ControlType
  <1>12. WorkerKnows'
    BY <1>1, <1>2, <1>4 DEF WorkerKnows, ControlType
  <1>13. SocketsHeld'
    BY <1>1, <1>2 DEF SocketsHeld, ControlType
  <1> QED
    BY <1>5, <1>6, <1>7, <1>8, <1>9, <1>10, <1>11, <1>12, <1>13

\* A client that only moves on changes nothing but its own step; what it
\* observed before it drains is what DrainStable asks for.
LEMMA ClientMoves ==
    ASSUME NetworkInv, NEW c \in Clients, cpc[c] # "idle",
           NEW step \in ClientSteps \ {"idle"},
           step \in {"open", "push", "pop"} => cpc[c] \in {"open", "push", "pop"},
           step = "drain" => StopObserved(c),
           cpc' = [cpc EXCEPT ![c] = step],
           UNCHANGED <<slots, nextGeneration, handle, worker, open>>
    PROVE  NetworkInv'
  <1> USE DEF NetworkInv, slots, flags, worker, local
  <1>1. ControlType'
    BY DEF ControlType
  <1>2. FlagsAgree' /\ LiveGenerations'
    BY DEF FlagsAgree, LiveGenerations
  <1>3. HandlesDistinct'
    BY DEF HandlesDistinct, ControlType
  <1>4. HandlesUnreleased'
    BY DEF HandlesUnreleased, HandleValid, ControlType
  <1>5. DrainStable'
    BY DEF DrainStable, StopObserved, HandleValid, ControlType
  <1>6. SlotsSettled' /\ WorkerKnows'
    BY DEF SlotsSettled, Settled, WorkerKnows
  <1>7. SocketsHeld'
    BY DEF SocketsHeld
  <1> QED
    BY <1>1, <1>2, <1>3, <1>4, <1>5, <1>6, <1>7

\* Only the holder of the handle may set the flags, and it gives up its claim
\* to the slot in the same step.
LEMMA StopRequestStep ==
    ASSUME NetworkInv, NEW c \in Clients, StopRequest(c)
    PROVE  NetworkInv'
  <1> USE DEF NetworkInv, worker, local
  <1> DEFINE s == handle[c].slot
  <1>1. /\ handle[c] \in Handles /\ s \in Slots
        /\ inUse[s] /\ generation[s] = handle[c].generation
    BY NoHandleApart DEF StopRequest, HandleValid, ControlType
  <1>2. /\ stopRequested' = [stopRequested EXCEPT ![s] = TRUE]
        /\ releaseRequested' = [releaseRequested EXCEPT ![s] = TRUE]
        /\ cpc[c] = "open" /\ cpc' = [cpc EXCEPT ![c] = "wait"]
        /\ UNCHANGED <<inUse, connectStarted, generation, state, socket,
                       nextGeneration, handle, wpc, turn, sock, closing, open>>
    BY DEF StopRequest
  <1> HIDE DEF s
  <1>3. ControlType'
    BY <1>1, <1>2 DEF ControlType, ClientSteps
  <1>4. FlagsAgree' /\ LiveGenerations'
    BY <1>1, <1>2 DEF FlagsAgree, LiveGenerations, ControlType
  <1>5. HandlesDistinct'
    BY <1>2 DEF HandlesDistinct, ControlType
  <1>6. HandlesUnreleased'
    <2> SUFFICES ASSUME NEW d \in Clients, cpc'[d] \in {"open", "push", "pop"}
                 PROVE  HandleValid(d)' /\ ~releaseRequested'[handle'[d].slot]
      BY DEF HandlesUnreleased
    <2>1. d # c /\ HandleValid(d) /\ ~releaseRequested[handle[d].slot]
      BY <1>2 DEF HandlesUnreleased, ControlType
    <2>2. handle[d].slot # s
      BY <1>1, <2>1, NoHandleApart DEF HandlesDistinct, HandleValid
    <2> QED
      BY <1>2, <2>1, <2>2, NoHandleApart DEF HandleValid, ControlType
  <1>7. DrainStable'
    BY <1>2 DEF DrainStable, StopObserved, HandleValid, ControlType
  <1>8. SlotsSettled' /\ WorkerKnows'
    BY <1>1, <1>2 DEF SlotsSettled, Settled, WorkerKnows, ControlType
  <1>9. SocketsHeld'
    BY <1>2 DEF SocketsHeld
  <1> QED
    BY <1>3, <1>4, <1>5, <1>6, <1>7, <1>8, <1>9

LEMMA StopReturnStep ==
    ASSUME NetworkInv, NEW c \in Clients, StopReturn(c)
    PROVE  NetworkInv'
  <1> USE DEF NetworkInv, slots, flags, worker, local, StopReturn
  <1>1. ControlType'
    BY DEF ControlType, ClientSteps
  <1>2. FlagsAgree' /\ LiveGenerations'
    BY DEF FlagsAgree, LiveGenerations
  <1>3. HandlesDistinct'
    BY DEF HandlesDistinct, ControlType
  <1>4. HandlesUnreleased' /\ DrainStable'
    BY DEF HandlesUnreleased, DrainStable, StopObserved, HandleValid, ControlType
  <1>5. SlotsSettled' /\ WorkerKnows'
    BY DEF SlotsSettled, Settled, WorkerKnows
  <1>6. SocketsHeld'
    BY DEF SocketsHeld
  <1> QED
    BY <1>1, <1>2, <1>3, <1>4, <1>5, <1>6

LEMMA ClientStep ==
    ASSUME NetworkInv, NEW c \in Clients, Client(c)
    PROVE  NetworkInv'
  <1>1. CASE Use(c)
    <2> PICK step \in {"push", "pop"} : cpc' = [cpc EXCEPT ![c] = step]
      BY <1>1 DEF Use
    <2> QED
      BY <1>1, ClientMoves DEF Use, ClientSteps
  <1>2. CASE Send(c)
    BY <1>2, ClientMoves DEF Send, ClientSteps
  <1>3. CASE Receive(c)
    BY <1>3, ClientMoves DEF Receive, ClientSteps
  <1>4. CASE StopWait(c)
    BY <1>4, ClientMoves DEF StopWait, ClientSteps
  <1> QED
    BY <1>1, <1>2, <1>3, <1>4, StartStep, StopRequestStep, StopReturnStep
    DEF Client

\* Slots are visited in turn.
LEMMA TurnInSlots == ASSUME turn \in Slots, Done PROVE wpc' = "scan" /\ turn' \in Slots
  BY NetworkAssumption DEF Done, Slots

\* Steps of the worker that leave the table and the sockets as they are.
LEMMA WorkerMoves ==
    ASSUME NetworkInv,
           \/ ProcessSlot \/ PumpConnected \/ NetworkSend \/ DropSent
           \/ CountFree \/ NetworkReceive \/ StoreReceived
    PROVE  NetworkInv'
  <1> USE DEF NetworkInv, None
  <1> DEFINE AtSend == {"send", "drop", "count", "receive", "store"}
  <1>1. UNCHANGED <<inUse, releaseRequested, stopRequested, connectStarted,
                    generation, state, socket, nextGeneration, handle, cpc, open>>
    BY DEF ProcessSlot, PumpConnected, NetworkSend, DropSent, CountFree,
           NetworkReceive, StoreReceived, slots, flags, client
  <1>2. CASE ProcessSlot
    <2>1. UNCHANGED <<sock, closing>>
      BY <1>2 DEF ProcessSlot, local
    <2>2. \/ wpc' = "free" /\ turn' = turn /\ MayFree(turn) /\ inUse[turn]
          \/ wpc' = "connect" /\ turn' = turn /\ MayConnect(turn) /\ inUse[turn]
          \/ wpc' = "pump" /\ turn' = turn /\ state[turn] = "Connected" /\ inUse[turn]
          \/ wpc' = "scan" /\ turn' \in Slots
      BY <1>2, TurnInSlots DEF ProcessSlot, Goto, ControlType
    <2>3. wpc = "scan" /\ Settled(turn)
      BY <1>2 DEF ProcessSlot, SlotsSettled, ControlType
    <2>4. ControlType'
      BY <1>1, <2>1, <2>2 DEF ControlType, WorkerSteps
    <2>5. SlotsSettled'
      BY <1>1, <2>2, <2>3 DEF SlotsSettled, Settled
    <2>6. WorkerKnows'
      BY <1>1, <2>2, <2>3 DEF WorkerKnows, Settled, MayFree, MayConnect, ControlType, States
    <2>7. SocketsHeld'
      BY <1>1, <2>1, <2>2, <2>3 DEF SocketsHeld
    <2> QED
      BY <1>1, <2>4, <2>5, <2>6, <2>7
      DEF FlagsAgree, LiveGenerations, HandlesDistinct, HandlesUnreleased,
          DrainStable, StopObserved, HandleValid
  <1>3. CASE \/ PumpConnected \/ NetworkSend \/ DropSent
             \/ CountFree \/ NetworkReceive \/ StoreReceived
    <2>1. wpc \in AtSend \cup {"pump"} /\ closing' \in {"Closed", "Error"}
      BY <1>3 DEF PumpConnected, NetworkSend, DropSent, CountFree, NetworkReceive,
                  StoreReceived, CloseAfterError, ControlType, local
    <2>2. /\ inUse[turn] /\ state[turn] = "Connected" /\ socket[turn] # None
          /\ wpc \in AtSend => sock = socket[turn]
      BY <2>1 DEF WorkerKnows
    <2>3. \/ wpc' = "close" /\ turn' = turn /\ sock' = sock
          \/ wpc' \in AtSend /\ turn' = turn /\ sock' = socket[turn]
          \/ wpc' = "scan" /\ turn' \in Slots /\ sock' = sock
      <3>1. CASE PumpConnected
        BY <3>1 DEF PumpConnected, Goto
      <3>2. CASE NetworkSend
        BY <3>2, <2>2 DEF NetworkSend, Goto, CloseAfterError
      <3>3. CASE DropSent
        BY <3>3, <2>2 DEF DropSent, Goto
      <3>4. CASE CountFree
        BY <3>4, <2>2, TurnInSlots DEF CountFree, Goto, local, ControlType
      <3>5. CASE NetworkReceive
        BY <3>5, <2>2, TurnInSlots DEF NetworkReceive, Goto, CloseAfterError, ControlType
      <3>6. CASE StoreReceived
        BY <3>6, TurnInSlots DEF StoreReceived, ControlType
      <3> QED
        BY <1>3, <3>1, <3>2, <3>3, <3>4, <3>5, <3>6
    <2>4. ControlType'
      BY <1>1, <2>1, <2>3 DEF ControlType, WorkerSteps
    <2>5. Settled(turn)
      BY <2>2 DEF Settled
    <2>6. SlotsSettled'
      BY <1>1, <2>3, <2>5 DEF SlotsSettled, Settled
    <2>7. WorkerKnows'
      BY <1>1, <2>2, <2>3 DEF WorkerKnows
    <2>8. SocketsHeld'
      BY <1>1, <2>1, <2>3 DEF SocketsHeld
    <2> QED
      BY <1>1, <2>4, <2>6, <2>7, <2>8
      DEF FlagsAgree, LiveGenerations, HandlesDistinct, HandlesUnreleased,
          DrainStable, StopObserved, HandleValid
  <1> QED
    BY <1>2, <1>3

\* While it makes or ends a connection the worker changes only the slot in its
\* hands, which no stop has observed yet.
LEMMA OwnSlot ==
    ASSUME NetworkInv, state[turn] \in {"Connecting", "Connected"},
           NEW x \in States, NEW y,
           state' = [state EXCEPT ![turn] = x],
           socket' = [socket EXCEPT ![turn] = y],
           UNCHANGED <<inUse, releaseRequested, stopRequested, generation,
                       nextGeneration, handle, cpc>>
    PROVE  /\ FlagsAgree' /\ LiveGenerations' /\ HandlesDistinct'
           /\ HandlesUnreleased' /\ DrainStable'
  <1> USE DEF NetworkInv
  <1>1. FlagsAgree' /\ LiveGenerations' /\ HandlesDistinct' /\ HandlesUnreleased'
    BY DEF FlagsAgree, LiveGenerations, HandlesDistinct, HandlesUnreleased, HandleValid
  <1>2. DrainStable'
    BY NoHandleApart DEF DrainStable, StopObserved, HandleValid, ControlType
  <1> QED
    BY <1>1, <1>2

\* Making a connection: the new socket is in the worker's hands until the slot
\* takes it or it is closed again.
LEMMA ConnectStep ==
    ASSUME NetworkInv,
           Connect \/ NetworkClient \/ ConnectFailed \/ PublishSocket \/ Abandon
    PROVE  NetworkInv'
  <1> USE DEF NetworkInv, None
  <1>1. /\ wpc \in {"connect", "resolve", "failed", "publish", "abandon", "abandoned"}
        /\ inUse[turn] /\ state[turn] = "Connecting" /\ socket[turn] = None
        /\ turn \in Slots /\ generation[turn] \in Generations
        /\ state \in [Slots -> States] /\ socket \in [Slots -> Generations \cup {None}]
    BY DEF Connect, NetworkClient, ConnectFailed, PublishSocket, Abandon,
           WorkerKnows, ControlType, LiveGenerations
  <1>2. UNCHANGED <<inUse, releaseRequested, stopRequested, generation,
                    nextGeneration, handle, cpc, closing>>
    BY DEF Connect, NetworkClient, ConnectFailed, PublishSocket, Abandon,
           slots, flags, client, local
  <1>3. CASE Connect
    <2>1. /\ wpc = "connect" /\ wpc' = "resolve"
          /\ connectStarted' = [connectStarted EXCEPT ![turn] = TRUE]
          /\ UNCHANGED <<state, socket, turn, sock, open>>
      BY <1>3 DEF Connect, Goto, local
    <2>2. ControlType'
      BY <1>1, <1>2, <2>1 DEF ControlType, WorkerSteps
    <2>3. SlotsSettled' /\ WorkerKnows'
      BY <1>1, <1>2, <2>1 DEF SlotsSettled, Settled, WorkerKnows, ControlType
    <2>4. SocketsHeld'
      BY <1>2, <2>1 DEF SocketsHeld
    <2> QED
      BY <1>2, <2>1, <2>2, <2>3, <2>4
      DEF FlagsAgree, LiveGenerations, HandlesDistinct, HandlesUnreleased,
          DrainStable, StopObserved, HandleValid
  <1>4. CASE NetworkClient
    <2>1. /\ wpc = "resolve" /\ UNCHANGED <<connectStarted, state, socket, turn>>
          /\ \/ /\ wpc' = "publish" /\ sock' = generation[turn]
                /\ open' = open \cup {generation[turn]}
             \/ wpc' = "failed" /\ sock' = None /\ open' = open
      BY <1>4 DEF NetworkClient, Goto, slots, flags
    <2>2. ControlType'
      BY <1>1, <1>2, <2>1 DEF ControlType, WorkerSteps
    <2>3. SlotsSettled' /\ WorkerKnows'
      BY <1>1, <1>2, <2>1 DEF SlotsSettled, Settled, WorkerKnows
    <2>4. SocketsHeld'
      BY <1>1, <1>2, <2>1 DEF SocketsHeld
    <2> QED
      BY <1>2, <2>1, <2>2, <2>3, <2>4
      DEF FlagsAgree, LiveGenerations, HandlesDistinct, HandlesUnreleased,
          DrainStable, StopObserved, HandleValid
  <1>5. CASE ConnectFailed
    <2>1. /\ wpc = "failed" /\ wpc' = "scan" /\ turn' \in Slots
          /\ state' = [state EXCEPT ![turn] = "Error"]
          /\ socket' = [socket EXCEPT ![turn] = None]
          /\ UNCHANGED <<connectStarted, sock, open>>
      BY <1>1, <1>5, TurnInSlots DEF ConnectFailed, flags, local
    <2>2. ControlType'
      BY <1>1, <1>2, <2>1 DEF ControlType, WorkerSteps, States
    <2>3. SlotsSettled' /\ WorkerKnows'
      BY <1>1, <1>2, <2>1 DEF SlotsSettled, Settled, WorkerKnows
    <2>4. SocketsHeld'
      BY <1>1, <1>2, <2>1 DEF SocketsHeld
    <2>5. FlagsAgree' /\ LiveGenerations' /\ HandlesDistinct'
             /\ HandlesUnreleased' /\ DrainStable'
      BY <1>1, <1>2, <2>1, OwnSlot DEF States
    <2> QED
      BY <2>2, <2>3, <2>4, <2>5
  <1>6. CASE PublishSocket /\ stopRequested[turn]
    <2>1. /\ wpc = "publish" /\ wpc' = "abandon"
          /\ UNCHANGED <<connectStarted, state, turn, sock, open>>
          /\ socket' = [socket EXCEPT ![turn] = None]
      BY <1>6 DEF PublishSocket, Goto, flags, local
    <2>2. socket' = socket
      BY <1>1, <2>1
    <2>3. ControlType'
      BY <1>1, <1>2, <2>1, <2>2 DEF ControlType, WorkerSteps
    <2>4. SlotsSettled' /\ WorkerKnows'
      BY <1>1, <1>2, <2>1, <2>2 DEF SlotsSettled, Settled, WorkerKnows
    <2>5. SocketsHeld'
      BY <1>1, <1>2, <2>1, <2>2 DEF SocketsHeld
    <2> QED
      BY <1>2, <2>1, <2>2, <2>3, <2>4, <2>5
      DEF FlagsAgree, LiveGenerations, HandlesDistinct, HandlesUnreleased,
          DrainStable, StopObserved, HandleValid
  <1>7. CASE PublishSocket /\ ~stopRequested[turn]
    <2>1. /\ wpc = "publish" /\ wpc' = "scan" /\ turn' \in Slots
          /\ sock = generation[turn]
          /\ state' = [state EXCEPT ![turn] = "Connected"]
          /\ socket' = [socket EXCEPT ![turn] = sock]
          /\ UNCHANGED <<connectStarted, sock, open>>
      BY <1>1, <1>7, TurnInSlots DEF PublishSocket, WorkerKnows, flags, local
    <2>2. ControlType'
      BY <1>1, <1>2, <2>1 DEF ControlType, WorkerSteps, States
    <2>3. SlotsSettled' /\ WorkerKnows'
      BY <1>1, <1>2, <2>1, NetworkAssumption
      DEF SlotsSettled, Settled, WorkerKnows, Generations
    <2>4. SocketsHeld'
      BY <1>1, <1>2, <2>1, NetworkAssumption DEF SocketsHeld, Generations
    <2>5. FlagsAgree' /\ LiveGenerations' /\ HandlesDistinct'
             /\ HandlesUnreleased' /\ DrainStable'
      BY <1>1, <1>2, <2>1, OwnSlot DEF States
    <2> QED
      BY <2>2, <2>3, <2>4, <2>5
  <1>8. CASE Abandon /\ wpc = "abandon"
    <2>1. /\ wpc' = "abandoned" /\ open' = open \ {sock}
          /\ sock = generation[turn]
          /\ UNCHANGED <<connectStarted, state, socket, turn, sock>>
      BY <1>8 DEF Abandon, Goto, WorkerKnows, flags, local
    <2>2. ControlType'
      BY <1>1, <1>2, <2>1 DEF ControlType, WorkerSteps
    <2>3. SlotsSettled' /\ WorkerKnows'
      BY <1>1, <1>2, <1>8, <2>1 DEF SlotsSettled, Settled, WorkerKnows
    <2>4. \A s \in Slots : socket[s] # sock
      BY <1>1, <2>1, NetworkAssumption DEF SocketsHeld, LiveGenerations, Generations
    <2>5. SocketsHeld'
      BY <1>1, <1>2, <1>8, <2>1, <2>4 DEF SocketsHeld
    <2> QED
      BY <1>2, <2>1, <2>2, <2>3, <2>5
      DEF FlagsAgree, LiveGenerations, HandlesDistinct, HandlesUnreleased,
          DrainStable, StopObserved, HandleValid
  <1>9. CASE Abandon /\ wpc = "abandoned"
    <2>1. /\ wpc' = "scan" /\ turn' \in Slots
          /\ state' = [state EXCEPT ![turn] = "Closed"]
          /\ UNCHANGED <<connectStarted, socket, sock, open>>
      BY <1>1, <1>9, TurnInSlots DEF Abandon, flags, local
    <2>2. socket' = [socket EXCEPT ![turn] = None]
      BY <1>1, <2>1
    <2>3. ControlType'
      BY <1>1, <1>2, <2>1 DEF ControlType, WorkerSteps, States
    <2>4. SlotsSettled' /\ WorkerKnows'
      BY <1>1, <1>2, <1>9, <2>1 DEF SlotsSettled, Settled, WorkerKnows
    <2>5. SocketsHeld'
      BY <1>1, <1>2, <1>9, <2>1 DEF SocketsHeld
    <2>6. FlagsAgree' /\ LiveGenerations' /\ HandlesDistinct'
             /\ HandlesUnreleased' /\ DrainStable'
      BY <1>1, <1>2, <2>1, <2>2, OwnSlot DEF States
    <2> QED
      BY <2>3, <2>4, <2>5, <2>6
  <1>10. ASSUME Abandon PROVE wpc \in {"abandon", "abandoned"}
    BY <1>10 DEF Abandon
  <1> QED
    BY <1>3, <1>4, <1>5, <1>6, <1>7, <1>8, <1>9, <1>10

\* Ending a connection: the socket passes from the slot to the worker, is
\* closed, and only then the state says so.
LEMMA CloseStep ==
    ASSUME NetworkInv, CloseSocket
    PROVE  NetworkInv'
  <1> USE DEF NetworkInv, None
  <1>1. /\ wpc \in {"close", "closing", "closed"}
        /\ inUse[turn] /\ state[turn] = "Connected"
        /\ turn \in Slots /\ generation[turn] \in Generations
        /\ state \in [Slots -> States] /\ socket \in [Slots -> Generations \cup {None}]
    BY DEF CloseSocket, WorkerKnows, ControlType, LiveGenerations
  <1>2. UNCHANGED <<inUse, releaseRequested, stopRequested, connectStarted,
                    generation, nextGeneration, handle, cpc, closing>>
    BY DEF CloseSocket, flags, client
  <1>3. CASE wpc = "close"
    <2>1. /\ wpc' = "closing" /\ turn' = turn
          /\ sock' = socket[turn] /\ socket[turn] = generation[turn]
          /\ socket' = [socket EXCEPT ![turn] = None]
          /\ UNCHANGED <<state, open>>
      BY <1>1, <1>3 DEF CloseSocket, Goto, WorkerKnows, SocketsHeld
    <2>2. state' = [state EXCEPT ![turn] = "Connected"]
      BY <1>1, <2>1
    <2>3. ControlType'
      BY <1>1, <1>2, <2>1 DEF ControlType, WorkerSteps
    <2>4. SlotsSettled' /\ WorkerKnows'
      BY <1>1, <1>2, <1>3, <2>1 DEF SlotsSettled, Settled, WorkerKnows
    <2>5. SocketsHeld'
      BY <1>1, <1>2, <1>3, <2>1, NetworkAssumption DEF SocketsHeld, Generations
    <2>6. FlagsAgree' /\ LiveGenerations' /\ HandlesDistinct'
             /\ HandlesUnreleased' /\ DrainStable'
      BY <1>1, <1>2, <2>1, <2>2, OwnSlot DEF States
    <2> QED
      BY <2>3, <2>4, <2>5, <2>6
  <1>4. CASE wpc = "closing"
    <2>1. /\ wpc' = "closed" /\ open' = open \ {sock}
          /\ sock = generation[turn] /\ socket[turn] = None
          /\ UNCHANGED <<turn, sock, socket, state>>
      BY <1>4 DEF CloseSocket, Goto, WorkerKnows
    <2>2. ControlType'
      BY <1>1, <1>2, <2>1 DEF ControlType, WorkerSteps
    <2>3. SlotsSettled' /\ WorkerKnows'
      BY <1>1, <1>2, <1>4, <2>1 DEF SlotsSettled, Settled, WorkerKnows
    <2>4. \A s \in Slots : socket[s] # sock
      BY <1>1, <2>1, NetworkAssumption DEF SocketsHeld, LiveGenerations, Generations
    <2>5. SocketsHeld'
      BY <1>1, <1>2, <1>4, <2>1, <2>4 DEF SocketsHeld
    <2> QED
      BY <1>2, <2>1, <2>2, <2>3, <2>5
      DEF FlagsAgree, LiveGenerations, HandlesDistinct, HandlesUnreleased,
          DrainStable, StopObserved, HandleValid
  <1>5. CASE wpc = "closed"
    <2>1. /\ wpc' = "scan" /\ turn' \in Slots /\ socket[turn] = None
          /\ closing \in {"Closed", "Error"}
          /\ state' = [state EXCEPT ![turn] = closing]
          /\ UNCHANGED <<sock, socket, open>>
      BY <1>1, <1>5, TurnInSlots DEF CloseSocket, WorkerKnows, ControlType
    <2>2. socket' = [socket EXCEPT ![turn] = None]
      BY <1>1, <2>1
    <2>3. ControlType'
      BY <1>1, <1>2, <2>1 DEF ControlType, WorkerSteps, States
    <2>4. SlotsSettled' /\ WorkerKnows'
      BY <1>1, <1>2, <1>5, <2>1 DEF SlotsSettled, Settled, WorkerKnows
    <2>5. SocketsHeld'
      BY <1>1, <1>2, <1>5, <2>1 DEF SocketsHeld
    <2>6. FlagsAgree' /\ LiveGenerations' /\ HandlesDistinct'
             /\ HandlesUnreleased' /\ DrainStable'
      BY <1>1, <1>2, <2>1, <2>2, OwnSlot DEF States
    <2> QED
      BY <2>3, <2>4, <2>5, <2>6
  <1> QED
    BY <1>1, <1>3, <1>4, <1>5

\* A slot is freed only after the holder of its handle asked for it, and has no
\* socket left.
LEMMA FreeStep ==
    ASSUME NetworkInv, FreeSlot
    PROVE  NetworkInv'
  <1> USE DEF NetworkInv, None
  <1>1. /\ wpc = "free" /\ turn \in Slots /\ releaseRequested[turn] /\ inUse[turn]
        /\ socket[turn] = None
    BY DEF FreeSlot, WorkerKnows, ControlType
  <1>2. /\ inUse' = [inUse EXCEPT ![turn] = FALSE]
        /\ releaseRequested' = [releaseRequested EXCEPT ![turn] = FALSE]
        /\ stopRequested' = [stopRequested EXCEPT ![turn] = FALSE]
        /\ connectStarted' = [connectStarted EXCEPT ![turn] = FALSE]
        /\ state' = [state EXCEPT ![turn] = "Closed"]
        /\ socket' = socket /\ open' = open
        /\ wpc' = "scan" /\ turn' \in Slots
        /\ UNCHANGED <<generation, nextGeneration, handle, cpc, sock, closing>>
    BY <1>1, TurnInSlots, NetworkAssumption
    DEF FreeSlot, client, local, ControlType, Generations
  <1>3. ControlType'
    BY <1>1, <1>2 DEF ControlType, WorkerSteps, States
  <1>4. FlagsAgree' /\ LiveGenerations'
    BY <1>1, <1>2 DEF FlagsAgree, LiveGenerations, ControlType
  <1>5. HandlesDistinct'
    BY <1>1, <1>2 DEF HandlesDistinct, ControlType
  <1>6. HandlesUnreleased'
    BY <1>1, <1>2, NoHandleApart DEF HandlesUnreleased, HandleValid, ControlType
  <1>7. DrainStable'
    BY <1>1, <1>2, NoHandleApart DEF DrainStable, StopObserved, HandleValid, ControlType
  <1>8. SlotsSettled' /\ WorkerKnows'
    BY <1>1, <1>2 DEF SlotsSettled, Settled, WorkerKnows, ControlType
  <1>9. SocketsHeld'
    BY <1>1, <1>2 DEF SocketsHeld, ControlType
  <1> QED
    BY <1>3, <1>4, <1>5, <1>6, <1>7, <1>8, <1>9

\* Every step of the clients and of the worker keeps the invariant.
THEOREM ControlInvariant == Spec => []NetworkInv
  <1>1. NetworkInv /\ [Next]_vars => NetworkInv'
    <2> SUFFICES ASSUME NetworkInv, [Next]_vars PROVE NetworkInv'
      OBVIOUS
    <2>1. CASE Worker
      BY <2>1, WorkerMoves, ConnectStep, CloseStep, FreeStep DEF Worker
    <2>2. CASE \E c \in Clients : Client(c)
      BY <2>2, ClientStep
    <2>3. CASE UNCHANGED vars
      BY <2>3
      DEF NetworkInv, ControlType, FlagsAgree, LiveGenerations, HandlesDistinct,
          HandlesUnreleased, DrainStable, StopObserved, HandleValid, SlotsSettled,
          Settled, WorkerKnows, SocketsHeld, vars, slots, flags, client, worker, local
    <2> QED
      BY <2>1, <2>2, <2>3 DEF Next
  <1> QED
    BY InitControl, <1>1, PTL DEF Spec

\* For any number of slots and clients, no slot is freed under a client that
\* has not asked for the stop (FreeSlot against send and receive).
THEOREM HandlesAlwaysHold == Spec => []HandlesHold
  <1>1. NetworkInv => HandlesHold
    BY DEF NetworkInv, HandlesUnreleased, HandlesHold
  <1> QED
    BY ControlInvariant, <1>1, PTL

\* For any number of slots and clients, no socket leaks, is closed twice or ends
\* up in another connection, however a stop races Connect and CloseSocket.
THEOREM SocketsAlwaysAccounted == Spec => []SocketsAccounted
  <1>1. NetworkInv => SocketsAccounted
    <2> SUFFICES ASSUME NetworkInv PROVE SocketsAccounted
      OBVIOUS
    <2> USE NetworkAssumption DEF NetworkInv, None, Generations
    <2> DEFINE held == {socket[s] : s \in {t \in Slots : socket[t] # None}}
    <2>1. InHand \subseteq Generations
      BY DEF InHand, WorkerKnows, LiveGenerations, ControlType
    <2>2. \A g \in Generations : g \in held <=> \E s \in Slots : socket[s] = g
      OBVIOUS
    <2>3. held \subseteq Generations
      BY DEF ControlType
    <2>4. open = InHand \cup held
      BY <2>1, <2>2, <2>3 DEF SocketsHeld, InHand, ControlType
    <2>5. \A s \in Slots : socket[s] # None =>
             inUse[s] /\ socket[s] = generation[s] /\ socket[s] \notin InHand
      BY DEF InHand, WorkerKnows, LiveGenerations, SocketsHeld, ControlType
    <2> QED
      BY <2>4, <2>5 DEF SocketsAccounted
  <1> QED
    BY ControlInvariant, <1>1, PTL

\* For any number of slots and clients, a stop that saw the connection end has
\* seen the socket closed (CloseSocket sets the state last).
THEOREM StopAlwaysMeansClosed == Spec => []StopMeansClosed
  <1>1. NetworkInv => StopMeansClosed
    <2> SUFFICES ASSUME NetworkInv, NEW c \in Clients, cpc[c] = "drain",
                        handle[c].generation \in open
                 PROVE  FALSE
      BY DEF StopMeansClosed
    <2> USE NetworkAssumption DEF NetworkInv, None, Generations
    <2>1. handle[c] \in Handles /\ handle[c].generation \in Generations
      BY NoHandleApart DEF HandlesDistinct, ControlType
    <2>2. PICK s \in Slots : /\ inUse[s] /\ generation[s] = handle[c].generation
                             /\ state[s] \in {"Connecting", "Connected"}
      <3>1. CASE \E s \in Slots : socket[s] = handle[c].generation
        BY <2>1, <3>1 DEF SocketsHeld, SlotsSettled, Settled, WorkerKnows,
                          ControlType, WorkerSteps
      <3>2. CASE wpc \in {"publish", "abandon", "closing"}
                 /\ handle[c].generation = sock
        BY <3>2 DEF WorkerKnows, ControlType
      <3> QED
        BY <2>1, <3>1, <3>2 DEF SocketsHeld
    <2>3. s = handle[c].slot
      BY <2>2 DEF HandlesDistinct
    <2> QED
      BY <2>1, <2>2, <2>3, NoHandleApart DEF DrainStable, StopObserved, HandleValid
  <1> QED
    BY ControlInvariant, <1>1, PTL

-----------------------------------------------------------------------------
(* The byte queues.  A queue in use holds a run of consecutive bytes of its *)
(* connection, so that its content and its length follow from the counts of *)
(* bytes that went in and came out.                                         *)

LEMMA BytesRun ==
    ASSUME NEW g, NEW from \in Int, NEW upto \in Int, from <= upto + 1
    PROVE  /\ Len(Bytes(g, from, upto)) = upto - from + 1
           /\ DOMAIN Bytes(g, from, upto) = 1 .. upto - from + 1
           /\ \A i \in 1 .. upto - from + 1 : Bytes(g, from, upto)[i] = <<g, from + i - 1>>
           /\ Bytes(g, from, upto) \in Seq({g} \X Int)
  <1>1. upto - from + 1 \in Nat
    OBVIOUS
  <1>2. \A i \in 1 .. upto - from + 1 : <<g, from + i - 1>> \in {g} \X Int
    OBVIOUS
  <1>3. Bytes(g, from, upto) \in [1 .. upto - from + 1 -> {g} \X Int]
    BY <1>2 DEF Bytes
  <1>4. Bytes(g, from, upto) \in Seq({g} \X Int)
    BY <1>1, <1>3, SeqDef
  <1>5. DOMAIN Bytes(g, from, upto) = 1 .. upto - from + 1
    BY DEF Bytes
  <1>6. Len(Bytes(g, from, upto)) = upto - from + 1
    BY <1>1, <1>4, <1>5, LenProperties
  <1>7. \A i \in 1 .. upto - from + 1 : Bytes(g, from, upto)[i] = <<g, from + i - 1>>
    BY DEF Bytes
  <1> QED
    BY <1>4, <1>5, <1>6, <1>7

\* Push appends the next bytes.
LEMMA BytesConcat ==
    ASSUME NEW g, NEW a \in Int, NEW b \in Int, NEW c \in Int, a <= b + 1, b <= c
    PROVE  Bytes(g, a, b) \o Bytes(g, b + 1, c) = Bytes(g, a, c)
  <1> DEFINE x == Bytes(g, a, b)
             y == Bytes(g, b + 1, c)
             z == Bytes(g, a, c)
  <1>1. /\ x \in Seq({g} \X Int) /\ Len(x) = b - a + 1
        /\ \A i \in 1 .. b - a + 1 : x[i] = <<g, a + i - 1>>
    BY BytesRun
  <1>2. /\ y \in Seq({g} \X Int) /\ Len(y) = c - b
        /\ \A i \in 1 .. c - b : y[i] = <<g, b + 1 + i - 1>>
    <2>1. b + 1 \in Int /\ b + 1 <= c + 1 /\ c - (b + 1) + 1 = c - b
      OBVIOUS
    <2> QED
      BY <2>1, BytesRun, ZenonT(30)
  <1>3. /\ z \in Seq({g} \X Int) /\ Len(z) = c - a + 1
        /\ \A i \in 1 .. c - a + 1 : z[i] = <<g, a + i - 1>>
    <2>1. a <= c + 1
      OBVIOUS
    <2> QED
      BY <2>1, BytesRun
  <1> HIDE DEF x, y, z
  <1>4. /\ x \o y \in Seq({g} \X Int) /\ Len(x \o y) = Len(x) + Len(y)
        /\ \A i \in 1 .. Len(x) + Len(y) : (x \o y)[i] =
              IF i <= Len(x) THEN x[i] ELSE y[i - Len(x)]
    BY <1>1, <1>2, ConcatProperties
  <1>5. Len(x \o y) = Len(z)
    BY <1>1, <1>2, <1>3, <1>4
  <1>6. ASSUME NEW i \in 1 .. Len(z) PROVE (x \o y)[i] = z[i]
    <2>1. CASE i <= Len(x)
      <3>1. i \in 1 .. b - a + 1 /\ i \in 1 .. Len(x) + Len(y) /\ i \in 1 .. c - a + 1
        BY <1>1, <1>2, <1>3, <2>1, SMTT(30)
      <3> QED
        BY <1>1, <1>3, <1>4, <2>1, <3>1
    <2>2. CASE ~(i <= Len(x))
      <3>1. i - Len(x) \in 1 .. c - b /\ b + 1 + (i - Len(x)) - 1 = a + i - 1
        BY <1>1, <1>3, <2>2
      <3> QED
        BY <1>1, <1>2, <1>3, <1>4, <1>5, <2>2, <3>1
    <2> QED
      BY <2>1, <2>2
  <1>7. x \o y = z
    BY <1>3, <1>4, <1>5, <1>6, SeqEqual
  <1> QED
    BY <1>7 DEF x, y, z

\* Pop and Drop remove the first k bytes.
LEMMA BytesTail ==
    ASSUME NEW g, NEW a \in Int, NEW b \in Int, NEW k \in Nat, a + k <= b + 1
    PROVE  LET x == Bytes(g, a, b) IN SubSeq(x, k + 1, Len(x)) = Bytes(g, a + k, b)
  <1> DEFINE x == Bytes(g, a, b)
             z == Bytes(g, a + k, b)
             y == SubSeq(x, k + 1, Len(x))
  <1>1. /\ x \in Seq({g} \X Int) /\ Len(x) = b - a + 1
        /\ \A i \in 1 .. b - a + 1 : x[i] = <<g, a + i - 1>>
    <2>1. a <= b + 1
      OBVIOUS
    <2> QED
      BY <2>1, BytesRun
  <1>2. /\ z \in Seq({g} \X Int) /\ Len(z) = b - a - k + 1
        /\ \A i \in 1 .. b - a - k + 1 : z[i] = <<g, a + k + i - 1>>
    <2>1. /\ z \in Seq({g} \X Int) /\ Len(z) = b - (a + k) + 1
          /\ \A i \in 1 .. b - (a + k) + 1 : z[i] = <<g, a + k + i - 1>>
      <3>1. a + k \in Int
        OBVIOUS
      <3> HIDE DEF z
      <3> QED
        BY <3>1, BytesRun DEF z
    <2>2. b - (a + k) + 1 = b - a - k + 1
      OBVIOUS
    <2> QED
      BY <2>1, <2>2
  <1> HIDE DEF x, z
  <1>3. \A i \in k + 1 .. Len(x) : x[i] \in {g} \X Int
    BY <1>1
  <1>4. /\ y \in Seq({g} \X Int)
        /\ Len(y) = IF k + 1 <= Len(x) THEN Len(x) - (k + 1) + 1 ELSE 0
        /\ \A i \in 1 .. Len(x) - (k + 1) + 1 : y[i] = x[k + 1 + i - 1]
    BY <1>1, <1>3, SubSeqProperties
  <1> HIDE DEF y
  <1>5. Len(y) = Len(z)
    BY <1>1, <1>2, <1>4
  <1>6. ASSUME NEW i \in 1 .. Len(z) PROVE y[i] = z[i]
    <2>1. /\ i \in 1 .. Len(x) - (k + 1) + 1 /\ k + 1 + i - 1 = k + i
          /\ k + i \in 1 .. b - a + 1 /\ a + (k + i) - 1 = a + k + i - 1
      BY <1>1, <1>2
    <2>2. y[i] = x[k + i]
      BY <1>4, <2>1
    <2> QED
      BY <1>1, <1>2, <2>1, <2>2
  <1>7. y = z
    BY <1>2, <1>4, <1>5, <1>6, SeqEqual
  <1> QED
    BY <1>7 DEF x, y, z

LEMMA BytesEmpty ==
    ASSUME NEW g, NEW a \in Int
    PROVE  Bytes(g, a, a - 1) = <<>>
  <1>1. a <= (a - 1) + 1 /\ (a - 1) - a + 1 = 0
    OBVIOUS
  <1>2. /\ Bytes(g, a, a - 1) \in Seq({g} \X Int)
        /\ Len(Bytes(g, a, a - 1)) = (a - 1) - a + 1
    <2>1. a - 1 \in Int
      OBVIOUS
    <2> QED
      BY <1>1, <2>1, BytesRun
  <1> QED
    BY <1>1, <1>2, EmptySeq

\* Bytes on the wire that are still in tx, and bytes from the wire that are not
\* in rx yet.
Gone(s) == IF wpc = "drop" /\ turn = s THEN amount ELSE 0

Ahead(s) == IF wpc = "store" /\ turn = s THEN Len(chunk) ELSE 0

CountsType ==
    /\ rx = [s \in Slots |-> rx[s]] /\ tx = [s \in Slots |-> tx[s]]
    /\ amount \in Nat
    /\ accepted \in [Slots -> Nat] /\ sent \in [Slots -> Nat]
    /\ arrived \in [Slots -> Nat] /\ taken \in [Slots -> Nat]

TxExact(s) ==
    /\ Gone(s) \in Nat /\ Gone(s) <= sent[s] /\ sent[s] <= accepted[s]
    /\ accepted[s] - sent[s] + Gone(s) <= QueueSize
    /\ tx[s] = Bytes(generation[s], sent[s] - Gone(s) + 1, accepted[s])

RxExact(s) ==
    /\ Ahead(s) \in Nat /\ taken[s] <= arrived[s] - Ahead(s)
    /\ arrived[s] - Ahead(s) - taken[s] <= QueueSize
    /\ rx[s] = Bytes(generation[s], taken[s] + 1, arrived[s] - Ahead(s))

QueuesExact ==
    \A s \in Slots :
       /\ inUse[s] => TxExact(s) /\ RxExact(s)
       /\ ~inUse[s] => tx[s] = <<>> /\ rx[s] = <<>>

\* From the look at the free space until the bytes are stored only a client
\* changes rx, and a client only takes bytes out.
ChunkExact ==
    /\ wpc # "store" => chunk = <<>>
    /\ wpc = "store" =>
          /\ Len(chunk) \in 1 .. RxChunkSize
          /\ Len(chunk) <= arrived[turn]
          /\ chunk = Bytes(generation[turn], arrived[turn] - Len(chunk) + 1,
                           arrived[turn])
    /\ wpc \in {"receive", "store"} =>
          arrived[turn] - Ahead(turn) - taken[turn] <= QueueSize - RxChunkSize

QueueInv == CountsType /\ QueuesExact /\ ChunkExact

LEMMA InitQueues == Init => QueueInv
  BY NetworkAssumption
  DEF Init, QueueInv, CountsType, QueuesExact, ChunkExact, Slots

\* Steps between which no byte moves.
LEMMA QueuesQuiet ==
    ASSUME QueueInv,
           UNCHANGED <<inUse, generation, rx, tx, amount, chunk, accepted, sent,
                       arrived, taken>>,
           \/ UNCHANGED <<wpc, turn>>
           \/ /\ wpc \notin {"drop", "store"}
              /\ wpc' \notin {"drop", "receive", "store"}
    PROVE  QueueInv'
  <1> USE DEF QueueInv
  <1>1. CountsType'
    BY DEF CountsType
  <1>2. \A s \in Slots : Gone(s)' = Gone(s) /\ Ahead(s)' = Ahead(s)
    BY DEF Gone, Ahead
  <1>3. QueuesExact'
    BY <1>2 DEF QueuesExact, TxExact, RxExact
  <1>4. ChunkExact'
    BY DEF ChunkExact, Ahead
  <1> QED
    BY <1>1, <1>3, <1>4

\* A new connection starts with empty queues.
LEMMA StartQueues ==
    ASSUME NetworkInv, QueueInv, NEW c \in Clients, Start(c)
    PROVE  QueueInv'
  <1>1. PICK s \in Slots :
           /\ ~inUse[s]
           /\ inUse' = [inUse EXCEPT ![s] = TRUE]
           /\ generation' = [generation EXCEPT ![s] = nextGeneration]
           /\ rx' = [rx EXCEPT ![s] = <<>>] /\ tx' = [tx EXCEPT ![s] = <<>>]
           /\ accepted' = [accepted EXCEPT ![s] = 0] /\ sent' = [sent EXCEPT ![s] = 0]
           /\ arrived' = [arrived EXCEPT ![s] = 0] /\ taken' = [taken EXCEPT ![s] = 0]
    BY DEF Start
  <1>2. UNCHANGED <<wpc, turn, amount, chunk>>
    BY DEF Start, worker, local
  <1>3. wpc # "scan" => s # turn
    BY <1>1 DEF NetworkInv, WorkerKnows
  <1>4. CountsType'
    BY <1>1, <1>2 DEF QueueInv, CountsType
  <1>5. \A r \in Slots : Gone(r)' = Gone(r) /\ Ahead(r)' = Ahead(r)
    BY <1>2 DEF Gone, Ahead
  <1>6. Gone(s) = 0 /\ Ahead(s) = 0
    BY <1>3 DEF Gone, Ahead
  <1>7. QueuesExact'
    <2> SUFFICES ASSUME NEW r \in Slots
                 PROVE  QueuesExact!(r)'
      BY DEF QueuesExact
    <2>1. CASE r = s
      <3>1. <<>> = Bytes(nextGeneration, 1, 0)
        BY BytesEmpty
      <3>2. /\ inUse'[r] /\ generation'[r] = nextGeneration
            /\ rx'[r] = <<>> /\ tx'[r] = <<>>
            /\ accepted'[r] = 0 /\ sent'[r] = 0 /\ arrived'[r] = 0 /\ taken'[r] = 0
        BY <1>1, <2>1 DEF NetworkInv, ControlType, QueueInv, CountsType
      <3> QED
        BY <1>5, <1>6, <2>1, <3>1, <3>2, NetworkAssumption DEF TxExact, RxExact
    <2>2. CASE r # s
      <3>1. /\ inUse'[r] = inUse[r] /\ generation'[r] = generation[r]
            /\ rx'[r] = rx[r] /\ tx'[r] = tx[r]
            /\ accepted'[r] = accepted[r] /\ sent'[r] = sent[r]
            /\ arrived'[r] = arrived[r] /\ taken'[r] = taken[r]
        BY <1>1, <2>2 DEF NetworkInv, ControlType, QueueInv, CountsType
      <3> QED
        BY <1>5, <3>1 DEF QueueInv, QueuesExact, TxExact, RxExact
    <2> QED
      BY <2>1, <2>2
  <1>8. ChunkExact'
    BY <1>1, <1>2, <1>3, <1>5
    DEF ChunkExact, Ahead, NetworkInv, ControlType, QueueInv, CountsType
  <1> QED
    BY <1>4, <1>7, <1>8 DEF QueueInv

\* Both queues' lengths, from the counts.
LEMMA QueueLengths ==
    ASSUME NetworkInv, QueueInv, NEW s \in Slots, inUse[s]
    PROVE  /\ accepted[s] \in Nat /\ sent[s] \in Nat
           /\ arrived[s] \in Nat /\ taken[s] \in Nat
           /\ Gone(s) \in Nat /\ Ahead(s) \in Nat
           /\ Len(tx[s]) = accepted[s] - sent[s] + Gone(s)
           /\ Len(rx[s]) = arrived[s] - Ahead(s) - taken[s]
           /\ Len(tx[s]) \in 0 .. QueueSize /\ Len(rx[s]) \in 0 .. QueueSize
  <1>1. /\ accepted[s] \in Nat /\ sent[s] \in Nat
        /\ arrived[s] \in Nat /\ taken[s] \in Nat
    BY DEF QueueInv, CountsType
  <1>2. TxExact(s) /\ RxExact(s)
    BY DEF QueueInv, QueuesExact
  <1>3. Len(tx[s]) = accepted[s] - (sent[s] - Gone(s) + 1) + 1
    <2>1. /\ sent[s] - Gone(s) + 1 \in Int /\ accepted[s] \in Int
          /\ sent[s] - Gone(s) + 1 <= accepted[s] + 1
      BY <1>1, <1>2 DEF TxExact
    <2>2. Len(Bytes(generation[s], sent[s] - Gone(s) + 1, accepted[s]))
             = accepted[s] - (sent[s] - Gone(s) + 1) + 1
      BY <2>1, BytesRun
    <2> QED
      BY <1>2, <2>2 DEF TxExact
  <1>4. Len(rx[s]) = arrived[s] - Ahead(s) - (taken[s] + 1) + 1
    <2>1. /\ taken[s] + 1 \in Int /\ arrived[s] - Ahead(s) \in Int
          /\ taken[s] + 1 <= arrived[s] - Ahead(s) + 1
      BY <1>1, <1>2 DEF RxExact
    <2>2. Len(Bytes(generation[s], taken[s] + 1, arrived[s] - Ahead(s)))
             = arrived[s] - Ahead(s) - (taken[s] + 1) + 1
      BY <2>1, BytesRun
    <2> QED
      BY <1>2, <2>2 DEF RxExact
  <1>5. /\ Gone(s) \in Nat /\ Gone(s) <= sent[s] /\ sent[s] <= accepted[s]
        /\ accepted[s] - sent[s] + Gone(s) <= QueueSize
        /\ Ahead(s) \in Nat /\ taken[s] <= arrived[s] - Ahead(s)
        /\ arrived[s] - Ahead(s) - taken[s] <= QueueSize
    BY <1>2 DEF TxExact, RxExact
  <1>6. /\ accepted[s] - (sent[s] - Gone(s) + 1) + 1 = accepted[s] - sent[s] + Gone(s)
        /\ arrived[s] - Ahead(s) - (taken[s] + 1) + 1 = arrived[s] - Ahead(s) - taken[s]
    <2>1. \A a, b, g \in Int : a - (b - g + 1) + 1 = a - b + g /\ a - g - (b + 1) + 1 = a - g - b
      OBVIOUS
    <2>2. /\ accepted[s] \in Int /\ sent[s] \in Int /\ Gone(s) \in Int
          /\ arrived[s] \in Int /\ taken[s] \in Int /\ Ahead(s) \in Int
      BY <1>1, <1>5
    <2> QED
      BY <2>1, <2>2
  <1>7. /\ accepted[s] - sent[s] + Gone(s) \in 0 .. QueueSize
        /\ arrived[s] - Ahead(s) - taken[s] \in 0 .. QueueSize
    BY <1>1, <1>5, NetworkAssumption
  <1> QED
    BY <1>1, <1>3, <1>4, <1>5, <1>6, <1>7

\* send appends the next bytes of the stream, as many as there is room for.
LEMMA SendQueues ==
    ASSUME NetworkInv, QueueInv, NEW c \in Clients, Send(c)
    PROVE  QueueInv'
  <1>1. PICK s \in Slots : /\ s = handle[c].slot /\ inUse[s]
                           /\ generation[s] = handle[c].generation
    BY NoHandleApart
    DEF Send, NetworkInv, HandlesUnreleased, HandleValid, ControlType
  <1>2. PICK requested \in 1 .. MaxBytes - accepted[s] :
           LET pushed == Least(requested, QueueSize - Len(tx[s])) IN
           /\ tx' = [tx EXCEPT ![s] = @ \o Bytes(handle[c].generation,
                                 accepted[s] + 1, accepted[s] + pushed)]
           /\ accepted' = [accepted EXCEPT ![s] = @ + pushed]
    BY <1>1 DEF Send
  <1>3. UNCHANGED <<inUse, generation, rx, wpc, turn, amount, chunk, sent, arrived, taken>>
    BY DEF Send, slots, flags, worker, local
  <1>4. /\ accepted[s] \in Nat /\ sent[s] \in Nat /\ Gone(s) \in Nat
        /\ Len(tx[s]) = accepted[s] - sent[s] + Gone(s)
        /\ Len(tx[s]) \in 0 .. QueueSize
    BY <1>1, QueueLengths
  <1>5. PICK pushed \in Nat : /\ pushed = Least(requested, QueueSize - Len(tx[s]))
                              /\ pushed <= QueueSize - Len(tx[s])
    BY <1>4, NetworkAssumption, SMTT(30) DEF Least
  <1>6. /\ tx' = [tx EXCEPT ![s] = tx[s] \o Bytes(generation[s],
                                 accepted[s] + 1, accepted[s] + pushed)]
        /\ accepted' = [accepted EXCEPT ![s] = accepted[s] + pushed]
    BY <1>1, <1>2, <1>5
  <1>7. CountsType'
    <2>1. accepted[s] + pushed \in Nat
      BY <1>4
    <2>2. accepted' \in [Slots -> Nat]
      BY <1>6, <2>1 DEF QueueInv, CountsType
    <2> DEFINE more == tx[s] \o Bytes(generation[s], accepted[s] + 1, accepted[s] + pushed)
    <2>3. tx' = [tx EXCEPT ![s] = more]
      BY <1>6
    <2> HIDE DEF more
    <2>4. tx' = [r \in Slots |-> tx'[r]]
      BY <2>3 DEF QueueInv, CountsType
    <2> QED
      BY <1>3, <2>2, <2>4 DEF QueueInv, CountsType
  <1>8. \A r \in Slots : Gone(r)' = Gone(r) /\ Ahead(r)' = Ahead(r)
    BY <1>3 DEF Gone, Ahead
  <1>9. TxExact(s)'
    <2>1. TxExact(s)
      BY <1>1 DEF QueueInv, QueuesExact
    <2>2. /\ tx'[s] = tx[s] \o Bytes(generation[s], accepted[s] + 1, accepted[s] + pushed)
          /\ accepted'[s] = accepted[s] + pushed
      BY <1>1, <1>6 DEF QueueInv, CountsType
    <2>3. /\ sent[s] - Gone(s) + 1 \in Int /\ accepted[s] \in Int
          /\ accepted[s] + pushed \in Int
          /\ sent[s] - Gone(s) + 1 <= accepted[s] + 1
          /\ accepted[s] <= accepted[s] + pushed
      BY <1>4, <1>5, <2>1, SMTT(30) DEF TxExact
    <2>4. tx'[s] = Bytes(generation[s], sent[s] - Gone(s) + 1, accepted[s] + pushed)
      <3>1. tx[s] = Bytes(generation[s], sent[s] - Gone(s) + 1, accepted[s])
        BY <2>1 DEF TxExact
      <3>2. Bytes(generation[s], sent[s] - Gone(s) + 1, accepted[s])
               \o Bytes(generation[s], accepted[s] + 1, accepted[s] + pushed)
            = Bytes(generation[s], sent[s] - Gone(s) + 1, accepted[s] + pushed)
        BY <2>3, BytesConcat
      <3> QED
        BY <2>2, <3>1, <3>2
    <2>5. /\ Gone(s) <= sent[s] /\ sent[s] <= accepted[s] + pushed
          /\ accepted[s] + pushed - sent[s] + Gone(s) <= QueueSize
      <3>1. Gone(s) <= sent[s] /\ sent[s] <= accepted[s]
        BY <2>1 DEF TxExact
      <3> QED
        BY <1>4, <1>5, <3>1, NetworkAssumption, SMTT(30)
    <2>6. /\ sent'[s] = sent[s] /\ generation'[s] = generation[s] /\ Gone(s)' = Gone(s)
          /\ accepted'[s] = accepted[s] + pushed
      BY <1>3, <1>8, <2>2
    <2>7. tx'[s] = Bytes(generation'[s], sent'[s] - Gone(s)' + 1, accepted'[s])
      BY <2>4, <2>6
    <2>8. /\ Gone(s)' \in Nat /\ Gone(s)' <= sent'[s] /\ sent'[s] <= accepted'[s]
          /\ accepted'[s] - sent'[s] + Gone(s)' <= QueueSize
      BY <1>4, <2>5, <2>6
    <2> QED
      BY <2>7, <2>8 DEF TxExact
  <1>10. \A r \in Slots : r # s => tx'[r] = tx[r] /\ accepted'[r] = accepted[r]
    BY <1>6 DEF QueueInv, CountsType
  <1>11. QueuesExact'
    <2> SUFFICES ASSUME NEW r \in Slots PROVE QueuesExact!(r)'
      BY DEF QueuesExact
    <2>1. inUse[r] => RxExact(r)'
      BY <1>3, <1>8 DEF QueueInv, QueuesExact, RxExact
    <2>2. CASE r = s
      BY <1>1, <1>3, <1>9, <2>1, <2>2
    <2>3. CASE r # s
      <3>1. inUse[r] => TxExact(r)'
        BY <1>3, <1>8, <1>10, <2>3 DEF QueueInv, QueuesExact, TxExact
      <3> QED
        BY <1>3, <1>10, <2>1, <2>3, <3>1 DEF QueueInv, QueuesExact
    <2> QED
      BY <2>2, <2>3
  <1>12. ChunkExact'
    BY <1>3 DEF QueueInv, ChunkExact, Ahead
  <1> QED
    BY <1>7, <1>11, <1>12 DEF QueueInv

\* receive takes the oldest bytes; it only makes room.
LEMMA ReceiveQueues ==
    ASSUME NetworkInv, QueueInv, NEW c \in Clients, Receive(c)
    PROVE  QueueInv'
  <1>1. PICK s \in Slots : s = handle[c].slot /\ inUse[s]
    BY NoHandleApart
    DEF Receive, NetworkInv, HandlesUnreleased, HandleValid, ControlType
  <1>2. PICK wanted \in 1 .. QueueSize :
           LET popped == Least(wanted, Len(rx[s])) IN
           /\ rx' = [rx EXCEPT ![s] = SubSeq(@, popped + 1, Len(@))]
           /\ taken' = [taken EXCEPT ![s] = @ + popped]
    BY <1>1 DEF Receive
  <1>3. UNCHANGED <<inUse, generation, tx, wpc, turn, amount, chunk, accepted, sent, arrived>>
    BY DEF Receive, slots, flags, worker, local
  <1>4. /\ arrived[s] \in Nat /\ taken[s] \in Nat /\ Ahead(s) \in Nat
        /\ Len(rx[s]) = arrived[s] - Ahead(s) - taken[s]
        /\ Len(rx[s]) \in 0 .. QueueSize
    BY <1>1, QueueLengths
  <1>5. PICK popped \in Nat : popped = Least(wanted, Len(rx[s])) /\ popped <= Len(rx[s])
    BY <1>4, NetworkAssumption, SMTT(30) DEF Least
  <1>6. /\ rx' = [rx EXCEPT ![s] = SubSeq(rx[s], popped + 1, Len(rx[s]))]
        /\ taken' = [taken EXCEPT ![s] = taken[s] + popped]
    BY <1>2, <1>5
  <1>7. CountsType'
    <2>1. taken[s] + popped \in Nat
      BY <1>4, SMTT(30)
    <2>2. taken' \in [Slots -> Nat]
      BY <1>6, <2>1 DEF QueueInv, CountsType
    <2> DEFINE rest == SubSeq(rx[s], popped + 1, Len(rx[s]))
    <2>3. rx' = [rx EXCEPT ![s] = rest]
      BY <1>6
    <2> HIDE DEF rest
    <2>4. rx' = [r \in Slots |-> rx'[r]]
      BY <2>3 DEF QueueInv, CountsType
    <2> QED
      BY <1>3, <2>2, <2>4 DEF QueueInv, CountsType
  <1>8. \A r \in Slots : Gone(r)' = Gone(r) /\ Ahead(r)' = Ahead(r)
    BY <1>3 DEF Gone, Ahead
  <1>9. /\ rx'[s] = SubSeq(rx[s], popped + 1, Len(rx[s]))
        /\ taken'[s] = taken[s] + popped
    BY <1>1, <1>6 DEF QueueInv, CountsType
  <1>10. RxExact(s)'
    <2>1. RxExact(s)
      BY <1>1 DEF QueueInv, QueuesExact
    <2>2. /\ taken[s] + 1 \in Int /\ arrived[s] - Ahead(s) \in Int
          /\ (taken[s] + 1) + popped <= arrived[s] - Ahead(s) + 1
      BY <1>4, <1>5, SMTT(30)
    <2>3. rx'[s] = Bytes(generation[s], (taken[s] + 1) + popped, arrived[s] - Ahead(s))
      <3>1. rx[s] = Bytes(generation[s], taken[s] + 1, arrived[s] - Ahead(s))
        BY <2>1 DEF RxExact
      <3> DEFINE x == Bytes(generation[s], taken[s] + 1, arrived[s] - Ahead(s))
      <3>2. SubSeq(x, popped + 1, Len(x))
               = Bytes(generation[s], (taken[s] + 1) + popped, arrived[s] - Ahead(s))
        BY <2>2, BytesTail
      <3> QED
        BY <1>9, <3>1, <3>2
    <2>4. /\ (taken[s] + 1) + popped = (taken[s] + popped) + 1
          /\ taken[s] + popped <= arrived[s] - Ahead(s)
          /\ arrived[s] - Ahead(s) - (taken[s] + popped) <= QueueSize
      BY <1>4, <1>5, NetworkAssumption, SMTT(30)
    <2> QED
      BY <1>1, <1>3, <1>4, <1>8, <1>9, <2>3, <2>4 DEF RxExact
  <1>11. \A r \in Slots : r # s => rx'[r] = rx[r] /\ taken'[r] = taken[r]
    BY <1>6 DEF QueueInv, CountsType
  <1>12. QueuesExact'
    <2> SUFFICES ASSUME NEW r \in Slots PROVE QueuesExact!(r)'
      BY DEF QueuesExact
    <2>1. inUse[r] => TxExact(r)'
      BY <1>3, <1>8 DEF QueueInv, QueuesExact, TxExact
    <2>2. CASE r = s
      BY <1>1, <1>3, <1>10, <2>1, <2>2
    <2>3. CASE r # s
      <3>1. inUse[r] => RxExact(r)'
        BY <1>3, <1>8, <1>11, <2>3 DEF QueueInv, QueuesExact, RxExact
      <3> QED
        BY <1>3, <1>11, <2>1, <2>3, <3>1 DEF QueueInv, QueuesExact
    <2> QED
      BY <2>2, <2>3
  <1>13. ChunkExact'
    <2>1. turn \in Slots
      BY DEF NetworkInv, ControlType
    <2>2. CASE turn = s
      <3>1. arrived[s] - Ahead(s) - taken[s] <= QueueSize - RxChunkSize
              => arrived[s] - Ahead(s) - (taken[s] + popped) <= QueueSize - RxChunkSize
        BY <1>4, <1>5, NetworkAssumption, SMTT(30)
      <3> QED
        BY <1>3, <1>8, <1>9, <2>2, <3>1 DEF QueueInv, ChunkExact
    <2>3. CASE turn # s
      BY <1>3, <1>8, <1>11, <2>1, <2>3 DEF QueueInv, ChunkExact
    <2> QED
      BY <2>2, <2>3
  <1> QED
    BY <1>7, <1>12, <1>13 DEF QueueInv

\* The queues of a slot that the step does not touch.
LEMMA OtherQueues ==
    ASSUME QueueInv, NEW r \in Slots,
           inUse'[r] = inUse[r], generation'[r] = generation[r],
           rx'[r] = rx[r], tx'[r] = tx[r], accepted'[r] = accepted[r],
           sent'[r] = sent[r], arrived'[r] = arrived[r], taken'[r] = taken[r],
           Gone(r)' = Gone(r), Ahead(r)' = Ahead(r)
    PROVE  QueuesExact!(r)'
  BY DEF QueueInv, QueuesExact, TxExact, RxExact

\* The stack takes n bytes from the head of tx, which leave the queue next.
LEMMA NetworkSendQueues ==
    ASSUME NetworkInv, QueueInv, NetworkSend
    PROVE  QueueInv'
  <1>1. /\ wpc = "send" /\ turn \in Slots /\ inUse[turn]
        /\ UNCHANGED <<inUse, generation, rx, tx, chunk, accepted, arrived, taken>>
    BY DEF NetworkSend, NetworkInv, ControlType, WorkerKnows, slots, flags, queues
  <1>2. /\ accepted[turn] \in Nat /\ sent[turn] \in Nat
        /\ Len(tx[turn]) = accepted[turn] - sent[turn] + Gone(turn)
        /\ Len(tx[turn]) \in 0 .. QueueSize
    BY <1>1, QueueLengths
  <1>3. CASE CloseAfterError /\ UNCHANGED <<amount, sent>>
    BY <1>1, <1>3, QueuesQuiet DEF CloseAfterError, Goto
  <1>4. ASSUME NEW n \in 0 .. Least(TxChunkSize, Len(tx[turn])),
               amount' = n,
               sent' = [sent EXCEPT ![turn] = @ + n],
               Goto(IF n > 0 THEN "drop" ELSE "count")
        PROVE  QueueInv'
    <2>1. n \in Nat /\ n <= Len(tx[turn])
      BY <1>2, <1>4, NetworkAssumption DEF Least
    <2>2. /\ turn' = turn /\ wpc' \in {"drop", "count"} /\ (wpc' = "count" => n = 0)
      BY <1>4, <2>1 DEF Goto
    <2>3. /\ Gone(turn) = 0 /\ Gone(turn)' = n
          /\ \A r \in Slots : r # turn => Gone(r)' = Gone(r)
          /\ \A r \in Slots : Ahead(r)' = Ahead(r)
      BY <1>1, <1>4, <2>2 DEF Gone, Ahead
    <2>4. /\ sent'[turn] = sent[turn] + n
          /\ \A r \in Slots : r # turn => sent'[r] = sent[r]
          /\ sent' \in [Slots -> Nat]
      BY <1>1, <1>2, <1>4, <2>1 DEF QueueInv, CountsType
    <2>5. CountsType'
      BY <1>1, <1>4, <2>1, <2>4 DEF QueueInv, CountsType
    <2>6. TxExact(turn) /\ RxExact(turn)
      BY <1>1 DEF QueueInv, QueuesExact
    <2>7. (sent[turn] + n) - n + 1 = sent[turn] - Gone(turn) + 1
      BY <1>2, <2>1, <2>3
    <2>8. tx'[turn] = Bytes(generation'[turn], sent'[turn] - Gone(turn)' + 1, accepted'[turn])
      BY <1>1, <2>3, <2>4, <2>6, <2>7 DEF TxExact
    <2>9. /\ n <= sent[turn] + n /\ sent[turn] + n <= accepted[turn]
          /\ accepted[turn] - (sent[turn] + n) + n <= QueueSize
      BY <1>2, <2>1, <2>3, NetworkAssumption, SMTT(30)
    <2>10. (TxExact(turn) /\ RxExact(turn))'
      BY <1>1, <2>1, <2>2, <2>3, <2>4, <2>6, <2>8, <2>9 DEF TxExact, RxExact
    <2>11. QueuesExact'
      <3> SUFFICES ASSUME NEW r \in Slots PROVE QueuesExact!(r)'
        BY DEF QueuesExact
      <3>1. CASE r = turn
        BY <1>1, <2>2, <2>10, <3>1
      <3>2. CASE r # turn
        BY <1>1, <2>3, <2>4, <3>2, OtherQueues
      <3> QED
        BY <3>1, <3>2
    <2>12. ChunkExact'
      BY <1>1, <2>2 DEF QueueInv, ChunkExact
    <2> QED
      BY <2>5, <2>11, <2>12 DEF QueueInv
  <1> QED
    BY <1>3, <1>4 DEF NetworkSend

\* Exactly the bytes that were sent leave the queue.
LEMMA DropSentQueues ==
    ASSUME NetworkInv, QueueInv, DropSent
    PROVE  QueueInv'
  <1>1. /\ wpc = "drop" /\ turn \in Slots /\ inUse[turn]
        /\ wpc' = "count" /\ turn' = turn /\ amount' = 0
        /\ UNCHANGED <<inUse, generation, rx, chunk, accepted, sent, arrived, taken>>
    BY DEF DropSent, NetworkInv, ControlType, WorkerKnows, slots, flags, history, Goto
  <1>2. /\ accepted[turn] \in Nat /\ sent[turn] \in Nat /\ Gone(turn) \in Nat
        /\ TxExact(turn) /\ RxExact(turn)
    BY <1>1, QueueLengths DEF QueueInv, QueuesExact
  <1>3. /\ Gone(turn) = amount /\ Gone(turn)' = 0
        /\ \A r \in Slots : r # turn => Gone(r)' = Gone(r)
        /\ \A r \in Slots : Ahead(r)' = Ahead(r)
    BY <1>1 DEF Gone, Ahead
  <1>4. /\ tx'[turn] = SubSeq(tx[turn], amount + 1, Len(tx[turn]))
        /\ \A r \in Slots : r # turn => tx'[r] = tx[r]
        /\ tx' = [r \in Slots |-> tx'[r]]
    <2> DEFINE rest == SubSeq(tx[turn], amount + 1, Len(tx[turn]))
    <2>1. tx' = [tx EXCEPT ![turn] = rest]
      BY DEF DropSent
    <2> HIDE DEF rest
    <2>2. /\ tx'[turn] = rest
          /\ \A r \in Slots : r # turn => tx'[r] = tx[r]
          /\ tx' = [r \in Slots |-> tx'[r]]
      BY <1>1, <2>1 DEF QueueInv, CountsType
    <2> QED
      BY <2>2 DEF rest
  <1>5. CountsType'
    BY <1>1, <1>4 DEF QueueInv, CountsType
  <1>6. /\ amount <= sent[turn] /\ sent[turn] <= accepted[turn] /\ amount \in Nat
        /\ accepted[turn] - sent[turn] + amount <= QueueSize
        /\ tx[turn] = Bytes(generation[turn], sent[turn] - amount + 1, accepted[turn])
    BY <1>2, <1>3 DEF TxExact
  <1>7. /\ sent[turn] - amount + 1 \in Int
        /\ (sent[turn] - amount + 1) + amount <= accepted[turn] + 1
        /\ (sent[turn] - amount + 1) + amount = sent[turn] - 0 + 1
        /\ accepted[turn] - sent[turn] + 0 <= QueueSize
    BY <1>2, <1>6, NetworkAssumption
  <1>8. tx'[turn] = Bytes(generation[turn], sent[turn] - 0 + 1, accepted[turn])
    <2>1. PICK a \in Int : a = sent[turn] - amount + 1
      BY <1>7
    <2> DEFINE x == Bytes(generation[turn], a, accepted[turn])
    <2>2. accepted[turn] \in Int /\ amount \in Nat /\ a + amount <= accepted[turn] + 1
      BY <1>2, <1>6, <1>7, <2>1
    <2>3. SubSeq(x, amount + 1, Len(x)) = Bytes(generation[turn], a + amount, accepted[turn])
      BY <2>2, BytesTail
    <2>4. a + amount = sent[turn] - 0 + 1
      BY <1>7, <2>1
    <2> QED
      BY <1>4, <1>6, <2>1, <2>3, <2>4
  <1>9. (TxExact(turn) /\ RxExact(turn))'
    BY <1>1, <1>2, <1>3, <1>6, <1>7, <1>8 DEF TxExact, RxExact
  <1>10. QueuesExact'
    <2> SUFFICES ASSUME NEW r \in Slots PROVE QueuesExact!(r)'
      BY DEF QueuesExact
    <2>1. CASE r = turn
      BY <1>1, <1>9, <2>1
    <2>2. CASE r # turn
      BY <1>1, <1>3, <1>4, <2>2, OtherQueues
    <2> QED
      BY <2>1, <2>2
  <1>11. ChunkExact'
    BY <1>1 DEF QueueInv, ChunkExact
  <1> QED
    BY <1>5, <1>10, <1>11 DEF QueueInv

\* The look at the free space, and what the stack hands over afterwards.
LEMMA NetworkReceiveQueues ==
    ASSUME NetworkInv, QueueInv, CountFree \/ NetworkReceive
    PROVE  QueueInv'
  <1>1. /\ wpc \in {"count", "receive"} /\ turn \in Slots /\ inUse[turn]
        /\ UNCHANGED <<inUse, generation, rx, tx, amount, accepted, sent, taken>>
    BY DEF CountFree, NetworkReceive, NetworkInv, ControlType, WorkerKnows,
           slots, flags, queues, local, history
  <1>2. /\ arrived[turn] \in Nat /\ taken[turn] \in Nat /\ Ahead(turn) = 0
        /\ Len(rx[turn]) = arrived[turn] - Ahead(turn) - taken[turn]
    BY <1>1, QueueLengths DEF Ahead
  <1>3. CASE UNCHANGED <<arrived, chunk>> /\ wpc' \notin {"drop", "receive", "store"}
    BY <1>1, <1>3, QueuesQuiet
  <1>4. CASE CountFree /\ RoomForChunk /\ Goto("receive")
    <2>1. /\ wpc = "count" /\ wpc' = "receive" /\ turn' = turn
          /\ UNCHANGED <<arrived, chunk>>
      BY <1>4 DEF CountFree, Goto, local, history
    <2>2. \A r \in Slots : Gone(r)' = Gone(r) /\ Ahead(r)' = Ahead(r)
      BY <1>1, <2>1 DEF Gone, Ahead
    <2>3. CountsType'
      BY <1>1, <2>1 DEF QueueInv, CountsType
    <2>4. QueuesExact'
      BY <1>1, <2>1, <2>2 DEF QueueInv, QueuesExact, TxExact, RxExact
    <2>5. arrived[turn] - Ahead(turn) - taken[turn] <= QueueSize - RxChunkSize
      BY <1>2, <1>4 DEF RoomForChunk
    <2>6. ChunkExact'
      BY <1>1, <2>1, <2>2, <2>5 DEF QueueInv, ChunkExact
    <2> QED
      BY <2>3, <2>4, <2>6 DEF QueueInv
  <1>5. ASSUME NetworkReceive, NEW n \in 1 .. RxChunkSize,
               chunk' = Bytes(sock, arrived[turn] + 1, arrived[turn] + n),
               arrived' = [arrived EXCEPT ![turn] = @ + n],
               Goto("store")
        PROVE  QueueInv'
    <2>1. /\ wpc = "receive" /\ wpc' = "store" /\ turn' = turn
          /\ sock = generation[turn]
          /\ arrived[turn] - taken[turn] <= QueueSize - RxChunkSize
      BY <1>1, <1>2, <1>5
      DEF NetworkReceive, Goto, NetworkInv, WorkerKnows, SocketsHeld, QueueInv, ChunkExact
    <2>2. Len(chunk') = n
      <3>1. /\ arrived[turn] + 1 \in Int /\ arrived[turn] + n \in Int
            /\ arrived[turn] + 1 <= (arrived[turn] + n) + 1
            /\ (arrived[turn] + n) - (arrived[turn] + 1) + 1 = n
        BY <1>2, NetworkAssumption, SMTT(30)
      <3>2. Len(chunk') = (arrived[turn] + n) - (arrived[turn] + 1) + 1
        BY <1>5, <3>1, BytesRun
      <3> QED
        BY <3>1, <3>2
    <2>3. /\ Ahead(turn)' = n
          /\ \A r \in Slots : r # turn => Ahead(r)' = Ahead(r)
          /\ \A r \in Slots : Gone(r)' = Gone(r)
      BY <2>1, <2>2, <1>1 DEF Ahead, Gone
    <2>4. /\ arrived'[turn] = arrived[turn] + n
          /\ \A r \in Slots : r # turn => arrived'[r] = arrived[r]
          /\ arrived' \in [Slots -> Nat]
      BY <1>1, <1>2, <1>5, NetworkAssumption, SMTT(30) DEF QueueInv, CountsType
    <2>5. CountsType'
      BY <1>1, <2>4 DEF QueueInv, CountsType
    <2>6. (arrived[turn] + n) - n = arrived[turn] - Ahead(turn) /\ n \in Nat
      BY <1>2, NetworkAssumption
    <2>7. (TxExact(turn) /\ RxExact(turn))'
      <3>1. TxExact(turn) /\ RxExact(turn)
        BY <1>1 DEF QueueInv, QueuesExact
      <3>2. arrived'[turn] - Ahead(turn)' = arrived[turn] - Ahead(turn)
        BY <2>3, <2>4, <2>6
      <3> QED
        BY <1>1, <2>1, <2>3, <2>6, <3>1, <3>2 DEF TxExact, RxExact
    <2>8. QueuesExact'
      <3> SUFFICES ASSUME NEW r \in Slots PROVE QueuesExact!(r)'
        BY DEF QueuesExact
      <3>1. CASE r = turn
        BY <1>1, <2>1, <2>7, <3>1
      <3>2. CASE r # turn
        BY <1>1, <2>3, <2>4, <3>2, OtherQueues
      <3> QED
        BY <3>1, <3>2
    <2>9. ChunkExact'
      <3>1. /\ (arrived[turn] + n) - n + 1 = arrived[turn] + 1
            /\ n \in 1 .. RxChunkSize /\ n <= arrived[turn] + n
            /\ (arrived[turn] + n) - n - taken[turn] <= QueueSize - RxChunkSize
        BY <1>2, <2>1, NetworkAssumption
      <3>2. chunk' = Bytes(generation[turn], arrived[turn] + 1, arrived[turn] + n)
        BY <1>5, <2>1
      <3> QED
        BY <1>1, <2>1, <2>2, <2>3, <2>4, <3>1, <3>2 DEF ChunkExact
    <2> QED
      BY <2>5, <2>8, <2>9 DEF QueueInv
  <1>6. CASE CountFree
    BY <1>3, <1>4, <1>6 DEF CountFree, Done, local, history
  <1>7. CASE NetworkReceive
    BY <1>3, <1>5, <1>7 DEF NetworkReceive, Done, CloseAfterError, Goto
  <1> QED
    BY <1>6, <1>7

\* Everything that was received is stored.
LEMMA StoreQueues ==
    ASSUME NetworkInv, QueueInv, StoreReceived
    PROVE  QueueInv'
  <1>1. /\ wpc = "store" /\ turn \in Slots /\ inUse[turn] /\ wpc' = "scan"
        /\ chunk' = <<>>
        /\ UNCHANGED <<inUse, generation, tx, amount, accepted, sent, arrived, taken>>
    BY DEF StoreReceived, NetworkInv, ControlType, WorkerKnows, slots, flags, history, Done
  <1>2. PICK n \in 1 .. RxChunkSize :
           /\ n = Len(chunk) /\ n = Ahead(turn) /\ n <= arrived[turn]
           /\ chunk = Bytes(generation[turn], arrived[turn] - n + 1, arrived[turn])
           /\ arrived[turn] - n - taken[turn] <= QueueSize - RxChunkSize
    BY <1>1 DEF QueueInv, ChunkExact, Ahead
  <1>3. /\ arrived[turn] \in Nat /\ taken[turn] \in Nat
        /\ Len(rx[turn]) = arrived[turn] - n - taken[turn]
        /\ Len(rx[turn]) \in 0 .. QueueSize
    BY <1>1, <1>2, QueueLengths
  <1>4. Least(Len(chunk), QueueSize - Len(rx[turn])) = n
    <2>1. PICK room \in Int : room = QueueSize - Len(rx[turn])
      BY <1>3, NetworkAssumption
    <2>2. arrived[turn] - n - taken[turn] <= QueueSize - RxChunkSize
      BY <1>2
    <2>3. n \in Int /\ n <= RxChunkSize
      BY NetworkAssumption
    <2>4. n <= room
      BY <1>3, <2>1, <2>2, <2>3, NetworkAssumption
    <2>5. IF n < room THEN TRUE ELSE n = room
      BY <2>3, <2>4
    <2>6. Len(chunk) = n
      BY <1>2
    <2> QED
      BY <2>1, <2>5, <2>6 DEF Least
  <1>5. SubSeq(chunk, 1, n) = chunk
    <2>1. PICK a \in Int : a = arrived[turn] - n + 1
      BY <1>3
    <2> DEFINE x == Bytes(generation[turn], a, arrived[turn])
    <2>2. arrived[turn] \in Int /\ 0 \in Nat /\ a + 0 <= arrived[turn] + 1
      BY <1>2, <1>3, <2>1, NetworkAssumption, SMTT(30)
    <2>3. SubSeq(x, 0 + 1, Len(x)) = Bytes(generation[turn], a + 0, arrived[turn])
      BY <2>2, BytesTail
    <2>4. x = chunk /\ a + 0 = a /\ 0 + 1 = 1
      BY <1>2, <2>1
    <2> QED
      BY <1>2, <2>3, <2>4
  <1>6. /\ rx'[turn] = rx[turn] \o chunk
        /\ \A r \in Slots : r # turn => rx'[r] = rx[r]
        /\ rx' = [r \in Slots |-> rx'[r]]
    <2> DEFINE more == rx[turn] \o chunk
    <2>1. rx' = [rx EXCEPT ![turn] = more]
      BY <1>4, <1>5 DEF StoreReceived
    <2> HIDE DEF more
    <2>2. /\ rx'[turn] = more
          /\ \A r \in Slots : r # turn => rx'[r] = rx[r]
          /\ rx' = [r \in Slots |-> rx'[r]]
      BY <1>1, <2>1 DEF QueueInv, CountsType
    <2> QED
      BY <2>2 DEF more
  <1>7. CountsType'
    BY <1>1, <1>6 DEF QueueInv, CountsType
  <1>8. PICK s \in Slots : s = turn
    BY <1>1
  <1>9. \A r \in Slots : /\ Gone(r)' = Gone(r) /\ Ahead(r)' = 0
                         /\ r # s => Ahead(r) = 0
    BY <1>1, <1>8 DEF Gone, Ahead
  <1>10. TxExact(s) /\ RxExact(s)
    BY <1>1, <1>8 DEF QueueInv, QueuesExact
  <1>11. RxExact(s)'
    <2>1. PICK b \in Int : b = arrived[s] - n
      BY <1>3, <1>8
    <2>2. rx[s] = Bytes(generation[s], taken[s] + 1, b)
      BY <1>2, <1>8, <1>10, <2>1 DEF RxExact
    <2>3. chunk = Bytes(generation[s], b + 1, arrived[s])
      BY <1>2, <1>8, <2>1
    <2>4. /\ taken[s] + 1 \in Int /\ arrived[s] \in Int
          /\ taken[s] + 1 <= b + 1 /\ b <= arrived[s]
      BY <1>2, <1>3, <1>8, <2>1, NetworkAssumption, SMTT(30)
    <2>5. Bytes(generation[s], taken[s] + 1, b) \o Bytes(generation[s], b + 1, arrived[s])
             = Bytes(generation[s], taken[s] + 1, arrived[s])
      BY <2>4, BytesConcat
    <2>6. rx'[s] = Bytes(generation[s], taken[s] + 1, arrived[s])
      BY <1>6, <1>8, <2>2, <2>3, <2>5
    <2>7. /\ arrived[s] - 0 = arrived[s] /\ taken[s] <= arrived[s]
          /\ arrived[s] - 0 - taken[s] <= QueueSize
      BY <1>2, <1>3, <1>8, NetworkAssumption, SMTT(30)
    <2> QED
      BY <1>1, <1>9, <2>6, <2>7 DEF RxExact
  <1>12. TxExact(s)'
    BY <1>1, <1>9, <1>10 DEF TxExact
  <1>13. QueuesExact'
    <2> SUFFICES ASSUME NEW r \in Slots PROVE QueuesExact!(r)'
      BY DEF QueuesExact
    <2>1. CASE r = s
      BY <1>1, <1>8, <1>11, <1>12, <2>1
    <2>2. CASE r # s
      BY <1>1, <1>6, <1>8, <1>9, <2>2, OtherQueues
    <2> QED
      BY <2>1, <2>2
  <1>14. ChunkExact'
    BY <1>1 DEF ChunkExact
  <1> QED
    BY <1>7, <1>13, <1>14 DEF QueueInv

LEMMA FreeQueues ==
    ASSUME NetworkInv, QueueInv, FreeSlot
    PROVE  QueueInv'
  <1>1. /\ wpc = "free" /\ wpc' = "scan" /\ turn \in Slots
        /\ inUse' = [inUse EXCEPT ![turn] = FALSE]
        /\ rx' = [rx EXCEPT ![turn] = <<>>] /\ tx' = [tx EXCEPT ![turn] = <<>>]
        /\ accepted' = [accepted EXCEPT ![turn] = 0] /\ sent' = [sent EXCEPT ![turn] = 0]
        /\ arrived' = [arrived EXCEPT ![turn] = 0] /\ taken' = [taken EXCEPT ![turn] = 0]
        /\ UNCHANGED <<generation, amount, chunk>>
    BY DEF FreeSlot, Done, local, NetworkInv, ControlType
  <1>2. PICK s \in Slots : s = turn
    BY <1>1
  <1>3. CountsType'
    BY <1>1 DEF QueueInv, CountsType
  <1>4. \A r \in Slots : Gone(r)' = Gone(r) /\ Ahead(r)' = Ahead(r)
    BY <1>1 DEF Gone, Ahead
  <1>5. QueuesExact'
    <2> SUFFICES ASSUME NEW r \in Slots PROVE QueuesExact!(r)'
      BY DEF QueuesExact
    <2>1. CASE r = s
      BY <1>1, <1>2, <2>1 DEF NetworkInv, ControlType, QueueInv, CountsType
    <2>2. CASE r # s
      <3>1. /\ inUse'[r] = inUse[r] /\ generation'[r] = generation[r]
            /\ rx'[r] = rx[r] /\ tx'[r] = tx[r]
            /\ accepted'[r] = accepted[r] /\ sent'[r] = sent[r]
            /\ arrived'[r] = arrived[r] /\ taken'[r] = taken[r]
        BY <1>1, <1>2, <2>2 DEF NetworkInv, ControlType, QueueInv, CountsType
      <3> QED
        BY <1>4, <3>1, OtherQueues
    <2> QED
      BY <2>1, <2>2
  <1>6. ChunkExact'
    BY <1>1 DEF QueueInv, ChunkExact
  <1> QED
    BY <1>3, <1>5, <1>6 DEF QueueInv

\* Every step of the clients and of the worker keeps the queues exact.
THEOREM QueueInvariant == Spec => []QueueInv
  <1>1. NetworkInv /\ QueueInv /\ [Next]_vars => QueueInv'
    <2> SUFFICES ASSUME NetworkInv, QueueInv, [Next]_vars PROVE QueueInv'
      OBVIOUS
    <2>1. CASE \E c \in Clients : Client(c)
      <3> PICK c \in Clients : Client(c)
        BY <2>1
      <3>1. CASE Use(c) \/ StopRequest(c) \/ StopWait(c) \/ StopReturn(c)
        BY <3>1, QueuesQuiet
        DEF Use, StopRequest, StopWait, StopReturn, slots, flags, queues, worker,
            local, history
      <3> QED
        BY <3>1, StartQueues, SendQueues, ReceiveQueues DEF Client
    <2>2. CASE Worker
      <3>1. CASE ProcessSlot \/ Connect \/ NetworkClient \/ ConnectFailed
                   \/ PublishSocket
        BY <3>1, QueuesQuiet
        DEF ProcessSlot, Connect, NetworkClient, ConnectFailed, PublishSocket,
            Goto, Done, slots, flags, queues, local, history
      <3>2. CASE Abandon \/ CloseSocket \/ PumpConnected
        BY <3>2, QueuesQuiet
        DEF Abandon, CloseSocket, PumpConnected, Goto, Done, slots, flags, queues,
            local, history
      <3> QED
        BY <2>2, <3>1, <3>2, NetworkSendQueues, DropSentQueues,
           NetworkReceiveQueues, StoreQueues, FreeQueues DEF Worker
    <2>3. CASE UNCHANGED vars
      BY <2>3, QueuesQuiet DEF vars, slots, flags, queues, worker, local, history
    <2> QED
      BY <2>1, <2>2, <2>3 DEF Next
  <1> QED
    BY InitQueues, ControlInvariant, <1>1, PTL DEF Spec

\* For any sizes of the queue and of the chunks, no received byte is dropped,
\* whatever the clients do between the look at the free space and the store.
THEOREM NothingEverDropped == Spec => []NothingDropped
  <1>1. NetworkInv /\ QueueInv => NothingDropped
    <2> SUFFICES ASSUME NetworkInv, QueueInv, wpc = "store"
                 PROVE  Len(chunk) <= QueueSize - Len(rx[turn])
      BY DEF NothingDropped
    <2>1. turn \in Slots /\ inUse[turn] /\ Ahead(turn) = Len(chunk)
      BY DEF NetworkInv, ControlType, WorkerKnows, Ahead
    <2>2. /\ Len(rx[turn]) = arrived[turn] - Ahead(turn) - taken[turn]
          /\ Len(rx[turn]) \in 0 .. QueueSize
      BY <2>1, QueueLengths
    <2>3. /\ Len(chunk) \in 1 .. RxChunkSize
          /\ arrived[turn] - Ahead(turn) - taken[turn] <= QueueSize - RxChunkSize
      BY DEF QueueInv, ChunkExact
    <2> QED
      BY <2>2, <2>3, NetworkAssumption
  <1> QED
    BY ControlInvariant, QueueInvariant, <1>1, PTL

\* For any sizes, the two streams of a connection are carried without loss,
\* repetition, reordering or a byte of another connection.
THEOREM StreamsAlwaysExact == Spec => []StreamsExact
  <1>1. NetworkInv /\ QueueInv => StreamsExact
    <2> SUFFICES ASSUME NetworkInv, QueueInv, NEW s \in Slots, inUse[s]
                 PROVE  /\ SubSeq(tx[s], Gone(s) + 1, Len(tx[s]))
                              = Bytes(generation[s], sent[s] + 1, accepted[s])
                        /\ rx[s] = Bytes(generation[s], taken[s] + 1, arrived[s] - Ahead(s))
      BY DEF StreamsExact, Gone, Ahead
    <2>1. TxExact(s) /\ RxExact(s) /\ accepted[s] \in Nat /\ sent[s] \in Nat
      BY DEF QueueInv, QueuesExact, CountsType
    <2>2. PICK a \in Int, k \in Nat :
             /\ k = Gone(s) /\ a = sent[s] - k + 1 /\ k <= sent[s]
             /\ sent[s] <= accepted[s] /\ tx[s] = Bytes(generation[s], a, accepted[s])
      <3>1. Gone(s) \in Nat /\ sent[s] - Gone(s) + 1 \in Int
        BY <2>1 DEF TxExact
      <3> QED
        BY <2>1, <3>1 DEF TxExact
    <2>3. accepted[s] \in Int /\ a + k <= accepted[s] + 1 /\ a + k = sent[s] + 1
      BY <2>1, <2>2
    <2> DEFINE x == Bytes(generation[s], a, accepted[s])
    <2>4. SubSeq(x, k + 1, Len(x)) = Bytes(generation[s], a + k, accepted[s])
      BY <2>3, BytesTail
    <2> QED
      BY <2>1, <2>2, <2>3, <2>4 DEF RxExact
  <1> QED
    BY ControlInvariant, QueueInvariant, <1>1, PTL

\* Type correctness.
THEOREM NetworkTypes == Spec => []TypeOK
  <1>1. ASSUME NEW g \in Generations, NEW a \in Nat, NEW b \in Int, a <= b + 1
        PROVE  Bytes(g, a, b) \in Seq(Generations \X Nat)
    <2>1. b - a + 1 \in Nat
      BY <1>1
    <2>2. \A i \in 1 .. b - a + 1 : <<g, a + i - 1>> \in Generations \X Nat
      OBVIOUS
    <2>3. Bytes(g, a, b) \in [1 .. b - a + 1 -> Generations \X Nat]
      BY <2>2 DEF Bytes
    <2> QED
      BY <2>1, <2>3, SeqDef
  <1>2. NetworkInv /\ QueueInv => TypeOK
    <2> SUFFICES ASSUME NetworkInv, QueueInv PROVE TypeOK
      OBVIOUS
    <2>1. <<>> \in Seq(Generations \X Nat)
      BY EmptySeq
    <2>2. ASSUME NEW s \in Slots
          PROVE  tx[s] \in Seq(Generations \X Nat) /\ rx[s] \in Seq(Generations \X Nat)
      <3>1. CASE inUse[s]
        <4>1. /\ TxExact(s) /\ RxExact(s) /\ generation[s] \in Generations
              /\ accepted[s] \in Nat /\ sent[s] \in Nat
              /\ arrived[s] \in Nat /\ taken[s] \in Nat
          BY <3>1 DEF QueueInv, QueuesExact, CountsType, NetworkInv, LiveGenerations
        <4>2. /\ sent[s] - Gone(s) + 1 \in Nat /\ accepted[s] \in Int
              /\ sent[s] - Gone(s) + 1 <= accepted[s] + 1
          BY <4>1 DEF TxExact
        <4>3. /\ taken[s] + 1 \in Nat /\ arrived[s] - Ahead(s) \in Int
              /\ taken[s] + 1 <= arrived[s] - Ahead(s) + 1
          BY <4>1 DEF RxExact
        <4>4. /\ Bytes(generation[s], sent[s] - Gone(s) + 1, accepted[s])
                    \in Seq(Generations \X Nat)
              /\ Bytes(generation[s], taken[s] + 1, arrived[s] - Ahead(s))
                    \in Seq(Generations \X Nat)
          BY <1>1, <4>1, <4>2, <4>3
        <4> QED
          BY <4>1, <4>4 DEF TxExact, RxExact
      <3>2. CASE ~inUse[s]
        BY <2>1, <3>2 DEF QueueInv, QueuesExact
      <3> QED
        BY <3>1, <3>2
    <2>3. /\ tx \in [Slots -> Seq(Generations \X Nat)]
          /\ rx \in [Slots -> Seq(Generations \X Nat)]
      BY <2>2 DEF QueueInv, CountsType
    <2>4. chunk \in Seq(Generations \X Nat)
      <3>1. CASE wpc = "store"
        <4>1. /\ turn \in Slots /\ inUse[turn]
              /\ generation[turn] \in Generations /\ arrived[turn] \in Nat
              /\ Len(chunk) \in 1 .. RxChunkSize /\ Len(chunk) <= arrived[turn]
              /\ chunk = Bytes(generation[turn], arrived[turn] - Len(chunk) + 1,
                               arrived[turn])
          BY <3>1 DEF NetworkInv, ControlType, WorkerKnows, LiveGenerations, QueueInv,
                      CountsType, ChunkExact
        <4>2. PICK a \in Nat : /\ a = arrived[turn] - Len(chunk) + 1
                               /\ a <= arrived[turn] + 1 /\ arrived[turn] \in Int
          <5>1. PICK k \in Nat : k = Len(chunk) /\ k >= 1 /\ k <= arrived[turn]
            BY <4>1, NetworkAssumption
          <5>2. arrived[turn] - k + 1 \in Nat /\ arrived[turn] - k + 1 <= arrived[turn] + 1
            BY <4>1, <5>1
          <5> QED
            BY <4>1, <5>1, <5>2
        <4>3. Bytes(generation[turn], a, arrived[turn]) \in Seq(Generations \X Nat)
          BY <1>1, <4>1, <4>2
        <4> QED
          BY <4>1, <4>2, <4>3
      <3>2. CASE wpc # "store"
        BY <2>1, <3>2 DEF QueueInv, ChunkExact
      <3> QED
        BY <3>1, <3>2
    <2> QED
      BY <2>3, <2>4 DEF TypeOK, NetworkInv, ControlType, QueueInv, CountsType
  <1> QED
    BY ControlInvariant, QueueInvariant, <1>2, PTL

=============================================================================
