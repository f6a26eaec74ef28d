---------------------------- MODULE ServerProofs ----------------------------
(***************************************************************************)
(* Theorems about module Server, for any number of connections, messages,  *)
(* attempts and channel capacity.                                          *)
(***************************************************************************)
EXTENDS Server, SequenceLemmas

\* A message is in the hands of a handler exactly while it passes it on, and
\* a connection that is not served holds nothing.
HandlersHoldTheirs ==
    \A p \in Peers : /\ inHand[p] # <<>> <=> handler[p] = "sending"
                     /\ ~Alive(p) => socket[p] = <<>>
                     /\ peer[p] = "away" <=> handler[p] = "none"

\* An ended handler's peer has left: nothing is sent to it any more.
EndedIsLeft ==
    \A p \in Peers : handler[p] = "ended" => peer[p] \in {"closed", "reset"}

\* Nobody is accepted before the bind, or after the listener was dropped.
AcceptsWhileListening ==
    /\ serverPc \in {"bind", "failed"} => \A p \in Peers : handler[p] = "none"
    /\ serverPc \in {"notify", "done"} => \A p \in Peers : ~Alive(p)
    /\ serverPc \in {"joining", "notify", "done"} => containerState # "Running"

\* The inductive invariant.
ServerInv == /\ StateTypeOK /\ ServerTypeOK
             /\ HandlersHoldTheirs /\ EndedIsLeft /\ AcceptsWhileListening

\* What keeps a channel within its capacity.
LEMMA CapacityKept ==
    /\ WithinCapacity(<<>>)
    /\ \A s \in Seq(Message) :
          /\ HasRoom(s) => \A m \in Message : WithinCapacity(Append(s, m))
          /\ s # <<>> /\ WithinCapacity(s) => WithinCapacity(Tail(s))
<1>1. WithinCapacity(<<>>)
  BY TxSenderAssumption DEF WithinCapacity
<1>2. ASSUME NEW s \in Seq(Message), HasRoom(s), NEW m \in Message
      PROVE  WithinCapacity(Append(s, m))
  BY <1>2, TxSenderAssumption DEF WithinCapacity, HasRoom
<1>3. ASSUME NEW s \in Seq(Message), s # <<>>, WithinCapacity(s)
      PROVE  WithinCapacity(Tail(s))
  BY <1>3, TxSenderAssumption DEF WithinCapacity
<1> QED BY <1>1, <1>2, <1>3

LEMMA ServerInitInv == StateInit /\ ServerInit => ServerInv
BY ServerAssumption, TxSenderAssumption, AtMostOneProperties, CapacityKept
DEF StateInit, ServerInit, ServerInv, StateTypeOK, ServerTypeOK, ContainerStates,
    FutureStates, HandlersHoldTheirs, EndedIsLeft, AcceptsWhileListening, Alive

\* No action of the accepting task disturbs the invariant.
LEMMA AcceptStepInv ==
    ASSUME ServerInv, AcceptStep
    PROVE  ServerInv'
<1> USE ServerAssumption
    DEF ServerInv, StateTypeOK, ServerTypeOK, HandlersHoldTheirs, EndedIsLeft,
        AcceptsWhileListening, Alive, acceptVars, stateVars, ContainerStates, FutureStates
<1>1. CASE ServerBindOk
  BY <1>1 DEF ServerBindOk, Listen
<1>2. CASE ServerBindErr
  BY <1>2 DEF ServerBindErr
<1>3. ASSUME NEW p \in Peers, ServerAcceptOk(p) PROVE ServerInv'
  BY <1>3 DEF ServerAcceptOk, Listen
<1>4. CASE ServerAcceptErr
  BY <1>4 DEF ServerAcceptErr, Listen
<1>5. CASE ServerNotified
  BY <1>5 DEF ServerNotified, Listen, StopListening
<1>6. CASE ServerJoined
  BY <1>6 DEF ServerJoined, AllHandlersEnded, Store
<1>7. CASE ServerNotifies
  BY <1>7 DEF ServerNotifies, NotifyWaiters
<1> QED BY <1>1, <1>2, <1>3, <1>4, <1>5, <1>6, <1>7 DEF AcceptStep

\* What one attempt of a handler does to its message and to the channel.
TriesToSend(p, m) ==
    /\ inHand[p] = <<m>> /\ handler[p] = "sending"
    /\ handlerAttempts' \in [Peers -> 0 .. MaxAttempts - 1]
    /\ \/ /\ handler' = [handler EXCEPT ![p] = "reading"]
          /\ inHand' = [inHand EXCEPT ![p] = <<>>]
       \/ UNCHANGED <<handler, inHand>>
    /\ \/ UNCHANGED <<serverRx, passed>>
       \/ /\ serverRxOpen /\ HasRoom(serverRx)
          /\ serverRx' = Append(serverRx, m)
          /\ passed' = [passed EXCEPT ![p] = Append(@, m)]
          /\ handler' = [handler EXCEPT ![p] = "reading"]
          /\ inHand' = [inHand EXCEPT ![p] = <<>>]
    /\ serverRxOpen /\ HasRoom(serverRx) => serverRx' = Append(serverRx, m)

LEMMA HandlerSendEffect ==
    ASSUME ServerInv, NEW p \in Peers, HandlerSend(p)
    PROVE  \E m \in Message : TriesToSend(p, m)
<1>t. /\ serverRx \in Seq(Message) /\ serverRxOpen \in BOOLEAN
      /\ handlerAttempts \in [Peers -> 0 .. MaxAttempts - 1]
      /\ inHand[p] \in AtMostOne(Message)
      /\ passed \in [Peers -> Seq(Message)]
  BY DEF ServerInv, ServerTypeOK
<1>1. handler[p] = "sending" /\ inHand[p] # <<>>
  BY DEF ServerInv, HandlersHoldTheirs, HandlerSend
<1>2. PICK m \in Message : inHand[p] = <<m>>
  BY <1>t, <1>1 DEF AtMostOne
<1> DEFINE try == Attempt(serverRx, serverRxOpen, m, handlerAttempts[p])
<1>3. /\ serverRx' = try.queue
      /\ handlerAttempts' = [handlerAttempts EXCEPT ![p] = try.attempts]
      /\ \/ /\ try.returns
            /\ handler' = [handler EXCEPT ![p] = "reading"]
            /\ inHand' = [inHand EXCEPT ![p] = <<>>]
         \/ ~try.returns /\ UNCHANGED <<handler, inHand>>
      /\ passed' = IF serverRx' = serverRx THEN passed
                     ELSE [passed EXCEPT ![p] = @ \o <<m>>]
  BY <1>2 DEF HandlerSend, LetGo
<1>4. /\ try.attempts \in 0 .. MaxAttempts - 1
      /\ \/ try.queue = serverRx
         \/ /\ serverRxOpen /\ HasRoom(serverRx)
            /\ try.queue = Append(serverRx, m) /\ try.returns
      /\ serverRxOpen /\ HasRoom(serverRx) => try.queue = Append(serverRx, m)
  <2>1. handlerAttempts[p] \in 0 .. MaxAttempts - 1
    BY <1>t
  <2> QED BY ONLY <1>t, <2>1, TxSenderAssumption DEF Attempt, MayRetry
<1> HIDE DEF try
<1>5. handlerAttempts' \in [Peers -> 0 .. MaxAttempts - 1]
  BY <1>t, <1>3, <1>4
<1>6. passed[p] \o <<m>> = Append(passed[p], m)
  BY <1>t, AppendIsConcat
<1> QED BY <1>1, <1>2, <1>3, <1>4, <1>5, <1>6 DEF TriesToSend

\* Nor does an action of a handler.
LEMMA HandlerStepInv ==
    ASSUME ServerInv, NEW p \in Peers, HandlerStep(p)
    PROVE  ServerInv'
<1>inv. ServerInv
  OBVIOUS
<1> USE ServerAssumption
    DEF ServerInv, StateTypeOK, ServerTypeOK, HandlersHoldTheirs, EndedIsLeft,
        AcceptsWhileListening, Alive, stateVars
<1>1. CASE HandlerRead(p)
  <2>1. /\ socket[p] \in Seq(Frame) /\ socket[p] # <<>> /\ handler[p] = "reading"
        /\ socket' = [socket EXCEPT ![p] = Tail(@)]
        /\ UNCHANGED <<serverPc, peer, handlerAttempts, serverRx, serverRxOpen, passed,
                       containerState, notified>>
    BY <1>1 DEF HandlerRead
  <2>2. Tail(socket[p]) \in Seq(Frame) /\ Head(socket[p]) \in Frame
    BY <2>1, HeadTailProperties
  <2>3. CASE Head(socket[p]) = Undecodable
    <3>1. UNCHANGED <<handler, inHand>>
      BY <1>1, <2>3 DEF HandlerRead
    <3> QED BY <2>1, <2>2, <3>1
  <2>4. CASE Head(socket[p]) # Undecodable
    <3>1. /\ inHand' = [inHand EXCEPT ![p] = <<Head(socket[p])>>]
          /\ handler' = [handler EXCEPT ![p] = "sending"]
      BY <1>1, <2>4 DEF HandlerRead
    <3>2. <<Head(socket[p])>> \in AtMostOne(Message) /\ <<Head(socket[p])>> # <<>>
      BY <2>2, <2>4, AtMostOneProperties DEF Frame
    <3> QED BY <2>1, <2>2, <3>1, <3>2
  <2> QED BY <2>3, <2>4
<1>2. CASE HandlerSend(p)
  <2>0. PICK m \in Message : TriesToSend(p, m)
    BY ONLY <1>inv, <1>2, HandlerSendEffect
  <2>1. /\ inHand[p] = <<m>> /\ handler[p] = "sending"
        /\ handlerAttempts' \in [Peers -> 0 .. MaxAttempts - 1]
        /\ \/ /\ handler' = [handler EXCEPT ![p] = "reading"]
              /\ inHand' = [inHand EXCEPT ![p] = <<>>]
           \/ UNCHANGED <<handler, inHand>>
        /\ \/ UNCHANGED <<serverRx, passed>>
           \/ /\ HasRoom(serverRx) /\ serverRx' = Append(serverRx, m)
              /\ passed' = [passed EXCEPT ![p] = Append(@, m)]
    BY ONLY <2>0 DEF TriesToSend
  <2>2. UNCHANGED <<serverPc, peer, socket, serverRxOpen, containerState, notified>>
    BY <1>2 DEF HandlerSend
  <2>3. /\ serverRx' \in Seq(Message) /\ WithinCapacity(serverRx')
        /\ passed' \in [Peers -> Seq(Message)]
    <3>1. CASE UNCHANGED <<serverRx, passed>>
      BY <3>1
    <3>2. CASE /\ HasRoom(serverRx) /\ serverRx' = Append(serverRx, m)
               /\ passed' = [passed EXCEPT ![p] = Append(@, m)]
      <4>1. passed[p] \in Seq(Message)
        OBVIOUS
      <4>2. serverRx' \in Seq(Message) /\ Append(passed[p], m) \in Seq(Message)
        BY <3>2, <4>1, AppendProperties
      <4>3. passed \in [Peers -> Seq(Message)] /\ serverRx \in Seq(Message)
        OBVIOUS
      <4>4. WithinCapacity(serverRx')
        BY ONLY <3>2, <4>3, CapacityKept
      <4> QED BY ONLY <3>2, <4>2, <4>3, <4>4
    <3> QED BY <2>1, <3>1, <3>2
  <2>4. <<>> \in AtMostOne(Message)
    BY AtMostOneProperties
  <2>5. serverRxOpen' \in BOOLEAN
    BY <2>2, Zenon
  <2>t. StateTypeOK' /\ ServerTypeOK'
    <3>1. StateTypeOK'
      BY <2>2
    <3>2. /\ handler' \in [Peers -> {"none", "reading", "sending", "ended"}]
          /\ inHand' \in [Peers -> AtMostOne(Message)]
      <4>1. /\ handler \in [Peers -> {"none", "reading", "sending", "ended"}]
            /\ inHand \in [Peers -> AtMostOne(Message)]
        OBVIOUS
      <4> QED BY ONLY <2>1, <2>4, <4>1
    <3>3. /\ serverPc' \in {"bind", "listening", "joining", "notify", "done", "failed"}
          /\ peer' \in [Peers -> {"away", "open", "closed", "reset"}]
          /\ socket' \in [Peers -> Seq(Frame)]
      BY <2>2
    <3>4. handlerAttempts' \in [Peers -> 0 .. MaxAttempts - 1]
      BY ONLY <2>1
    <3> QED BY ONLY <2>3, <2>5, <3>1, <3>2, <3>3, <3>4, Zenon DEF ServerTypeOK
  <2>6. HandlersHoldTheirs' /\ EndedIsLeft' /\ AcceptsWhileListening'
    <3>1. HandlersHoldTheirs'
      BY <2>1, <2>2
    <3>2. EndedIsLeft'
      BY <2>1, <2>2
    <3>3. AcceptsWhileListening'
      BY <2>1, <2>2
    <3> QED BY <3>1, <3>2, <3>3
  <2> QED BY <2>6, <2>t
<1>3. CASE HandlerEnds(p)
  BY <1>3 DEF HandlerEnds
<1> QED BY <1>1, <1>2, <1>3 DEF HandlerStep

\* Nor do the peers, the main loop and the other tasks.
LEMMA ServerNextInv == ServerInv /\ [ServerNext]_allServerVars => ServerInv'
<1> SUFFICES ASSUME ServerInv, [ServerNext]_allServerVars
             PROVE  ServerInv'
  OBVIOUS
<1> USE ServerAssumption
    DEF ServerInv, StateTypeOK, ServerTypeOK, HandlersHoldTheirs, EndedIsLeft,
        AcceptsWhileListening, Alive, ContainerStates, FutureStates
<1>1. CASE AcceptStep
  BY <1>1, AcceptStepInv
<1>2. ASSUME NEW p \in Peers, HandlerStep(p) PROVE ServerInv'
  BY <1>2, HandlerStepInv
<1>3. ASSUME NEW p \in Peers, NEW f \in Frame, PeerSend(p, f) PROVE ServerInv'
  <2>1. /\ peer[p] = "open" /\ socket' = [socket EXCEPT ![p] = Append(@, f)]
        /\ UNCHANGED <<serverPc, handler, peer, inHand, handlerAttempts, serverRx,
                       serverRxOpen, passed, containerState, notified>>
    BY <1>3 DEF PeerSend, stateVars
  <2>2. socket[p] \in Seq(Frame)
    OBVIOUS
  <2>3. Append(socket[p], f) \in Seq(Frame)
    BY <2>2, AppendProperties
  <2>4. StateTypeOK' /\ ServerTypeOK'
    BY <2>1, <2>3
  <2>5. HandlersHoldTheirs'
    BY <2>1
  <2> QED BY <2>1, <2>4, <2>5
<1>4. ASSUME NEW p \in Peers, PeerLeaves(p) PROVE ServerInv'
  BY <1>4 DEF PeerLeaves, stateVars
<1>5. CASE TakeFromServer /\ MainStoresAtOnce
  <2>1. serverRx \in Seq(Message) /\ serverRx # <<>> /\ serverRx' = Tail(serverRx)
    BY <1>5 DEF TakeFromServer
  <2>2. serverRx' \in Seq(Message) /\ WithinCapacity(serverRx')
    <3>1. WithinCapacity(serverRx)
      OBVIOUS
    <3> QED BY ONLY <2>1, <3>1, HeadTailProperties, CapacityKept
  <2> QED BY <1>5, <2>2 DEF TakeFromServer, MainStoresAtOnce
<1>6. CASE DropServerRx /\ UNCHANGED stateVars
  <2>1. serverRx' = <<>> /\ serverRxOpen' = FALSE
    BY <1>6 DEF DropServerRx
  <2>2. /\ serverRx' \in Seq(Message) /\ WithinCapacity(serverRx')
        /\ serverRxOpen' \in BOOLEAN
    BY <2>1, Zenon, EmptySeq, CapacityKept
  <2>3. StateTypeOK' /\ ServerTypeOK'
    BY <1>6, <2>2 DEF DropServerRx, stateVars
  <2> QED BY <1>6, <2>3 DEF DropServerRx, stateVars
<1>7. CASE OthersAct({ServerTask}) /\ UNCHANGED serverVars
  <2>1. StateTypeOK' /\ ServerTypeOK'
    <3>1. StateTypeOK /\ ServerTypeOK
      BY DEF ServerInv
    <3>2. StateTypeOK'
      BY ONLY <1>7, <3>1 DEF StateTypeOK, ContainerStates, FutureStates, OthersAct, Store,
                             NotifyWaiters, Listen, StopListening
    <3>3. ServerTypeOK'
      BY ONLY <1>7, <3>1 DEF ServerTypeOK, serverVars
    <3> QED BY <3>2, <3>3
  <2>2. HandlersHoldTheirs' /\ EndedIsLeft'
    BY <1>7 DEF serverVars
  <2>3. AcceptsWhileListening'
    BY <1>7 DEF OthersAct, serverVars, Store, NotifyWaiters
  <2> QED BY <2>1, <2>2, <2>3
<1>8. CASE UNCHANGED allServerVars
  BY <1>8 DEF allServerVars, serverVars, stateVars
<1> QED BY <1>1, <1>2, <1>3, <1>4, <1>5, <1>6, <1>7, <1>8 DEF ServerNext

\* Every reachable state of a server and its handlers satisfies the invariant.
THEOREM ServerInvariant == ServerSpec => []ServerInv
<1>1. StateInit /\ ServerInit => ServerInv
  BY ServerInitInv
<1>2. ServerInv /\ [ServerNext]_allServerVars => ServerInv'
  BY ServerNextInv
<1> QED BY <1>1, <1>2, PTL DEF ServerSpec

\* The locals of Server::run and of the handlers keep their types, the retry
\* helper never counts beyond its budget, and the channel the handlers share
\* never holds more than its capacity.
THEOREM ServerTypeCorrect == ServerSpec => []ServerTypeOK
<1>1. ServerInv => ServerTypeOK
  BY DEF ServerInv
<1> QED BY <1>1, ServerInvariant, PTL

\* Server::run gets past its loop only in a container that is not Running any
\* more, and it stores and notifies only when no connection is served.
THEOREM ServerStopsInOrderHolds == ServerSpec => []ServerStopsInOrder
<1>1. ServerInv => ServerStopsInOrder
  BY DEF ServerInv, HandlersHoldTheirs, AcceptsWhileListening, ServerStopsInOrder, Alive
<1> QED BY <1>1, ServerInvariant, PTL
-----------------------------------------------------------------------------
\* The refinement mapping, as in Inbound.
InboundPending == [p \in Peers |-> inHand[p] \o socket[p]]

InboundEnded == {p \in Peers : handler[p] = "ended"}

InboundHealthy == IF serverRxOpen /\ HasRoom(serverRx) THEN Peers ELSE {}

\* A step that touches the queue of one connection only.
LEMMA InboundOfOne ==
    ASSUME NEW p \in Peers,
           \A q \in Peers \ {p} : inHand'[q] = inHand[q] /\ socket'[q] = socket[q]
    PROVE  InboundPending' = [InboundPending EXCEPT ![p] = inHand'[p] \o socket'[p]]
BY DEF InboundPending

\* What the invariant says about the queue of one connection.
LEMMA QueueOfConnection ==
    ASSUME ServerInv, NEW p \in Peers
    PROVE  /\ socket[p] \in Seq(Frame)
           /\ handler[p] # "sending" =>
                 inHand[p] = <<>> /\ InboundPending[p] = socket[p]
           /\ \A m \in Message : inHand[p] = <<m>> =>
                 /\ InboundPending[p] # <<>>
                 /\ Head(InboundPending[p]) = m /\ Tail(InboundPending[p]) = socket[p]
<1>1. socket[p] \in Seq(Frame) /\ (inHand[p] # <<>> <=> handler[p] = "sending")
  BY DEF ServerInv, ServerTypeOK, HandlersHoldTheirs
<1>2. InboundPending[p] = inHand[p] \o socket[p]
  BY DEF InboundPending
<1>3. handler[p] # "sending" => inHand[p] = <<>> /\ InboundPending[p] = socket[p]
  BY <1>1, <1>2, ConcatEmptySeq
<1>4. ASSUME NEW m \in Message, inHand[p] = <<m>>
      PROVE  /\ InboundPending[p] # <<>>
             /\ Head(InboundPending[p]) = m /\ Tail(InboundPending[p]) = socket[p]
  BY <1>1, <1>2, <1>4, InHandIsHead DEF Frame
<1> QED BY <1>1, <1>3, <1>4

\* The abstract actions in terms of the mapping.
LEMMA StepsOfInbound ==
    ASSUME NEW p \in Peers
    PROVE  /\ \A f \in Frame :
                 /\ p \notin InboundEnded /\ passed' = passed /\ InboundEnded' = InboundEnded
                 /\ InboundPending' = [InboundPending EXCEPT ![p] = Append(@, f)]
                 => Inbound!FifoNext
           /\ /\ p \in InboundHealthy /\ InboundPending[p] # <<>>
              /\ InboundEnded' = InboundEnded
              /\ passed' = [passed EXCEPT ![p] = Append(@, Head(InboundPending[p]))]
              /\ InboundPending' = [InboundPending EXCEPT ![p] = Tail(@)]
              => Inbound!FifoNext
           /\ /\ InboundPending[p] # <<>> /\ passed' = passed /\ InboundEnded' = InboundEnded
              /\ p \notin InboundHealthy \/ Head(InboundPending[p]) = Undecodable
              /\ InboundPending' = [InboundPending EXCEPT ![p] = Tail(@)]
              => Inbound!FifoNext
           /\ /\ InboundEnded' = InboundEnded \cup {p} /\ passed' = passed
              /\ InboundPending' = [InboundPending EXCEPT ![p] = <<>>]
              => Inbound!FifoNext
<1>1. ASSUME NEW f \in Frame, p \notin InboundEnded, passed' = passed,
             InboundEnded' = InboundEnded,
             InboundPending' = [InboundPending EXCEPT ![p] = Append(@, f)]
      PROVE  Inbound!FifoNext
  BY <1>1 DEF Inbound!FifoNext, Inbound!Accept, InboundPending, InboundEnded
<1>2. ASSUME p \in InboundHealthy, InboundPending[p] # <<>>, InboundEnded' = InboundEnded,
             passed' = [passed EXCEPT ![p] = Append(@, Head(InboundPending[p]))],
             InboundPending' = [InboundPending EXCEPT ![p] = Tail(@)]
      PROVE  Inbound!FifoNext
  BY <1>2 DEF Inbound!FifoNext, Inbound!Deliver, InboundPending, InboundEnded, InboundHealthy
<1>3. ASSUME InboundPending[p] # <<>>, passed' = passed, InboundEnded' = InboundEnded,
             p \notin InboundHealthy \/ Head(InboundPending[p]) = Undecodable,
             InboundPending' = [InboundPending EXCEPT ![p] = Tail(@)]
      PROVE  Inbound!FifoNext
  BY <1>3 DEF Inbound!FifoNext, Inbound!Lose, InboundPending, InboundEnded, InboundHealthy
<1>4. ASSUME InboundEnded' = InboundEnded \cup {p}, passed' = passed,
             InboundPending' = [InboundPending EXCEPT ![p] = <<>>]
      PROVE  Inbound!FifoNext
  BY <1>4 DEF Inbound!FifoNext, Inbound!End, InboundPending, InboundEnded
<1> QED BY <1>1, <1>2, <1>3, <1>4

LEMMA StutterOfInbound ==
    ASSUME InboundPending' = InboundPending, passed' = passed, InboundEnded' = InboundEnded
    PROVE  UNCHANGED Inbound!fifoVars
BY DEF Inbound!fifoVars, InboundPending, InboundEnded

\* Every step of a handler is a step of its connection's queue, or none.
LEMMA HandlerStepRefines ==
    ASSUME ServerInv, NEW p \in Peers, HandlerStep(p)
    PROVE  Inbound!FifoNext \/ UNCHANGED Inbound!fifoVars
<1>t. ServerTypeOK
  BY DEF ServerInv
<1>q. /\ socket[p] \in Seq(Frame)
      /\ handler[p] # "sending" => inHand[p] = <<>> /\ InboundPending[p] = socket[p]
  BY QueueOfConnection
<1>1. CASE HandlerRead(p)
  <2>1. /\ handler[p] = "reading" /\ socket[p] # <<>>
        /\ socket' = [socket EXCEPT ![p] = Tail(@)] /\ passed' = passed
    BY <1>1 DEF HandlerRead
  <2>2. CASE Head(socket[p]) = Undecodable
    <3>1. UNCHANGED <<handler, inHand>>
      BY <1>1, <2>2 DEF HandlerRead
    <3>2. InboundPending' = [InboundPending EXCEPT ![p] = inHand'[p] \o socket'[p]]
      BY <1>t, <2>1, <3>1, InboundOfOne DEF ServerTypeOK
    <3>3. inHand'[p] = <<>> /\ socket'[p] = Tail(InboundPending[p])
      BY <1>t, <1>q, <2>1, <3>1 DEF ServerTypeOK
    <3>4. Tail(InboundPending[p]) \in Seq(Frame)
      BY <1>q, <2>1, HeadTailProperties
    <3>5. InboundPending' = [InboundPending EXCEPT ![p] = Tail(@)]
      BY <3>2, <3>3, <3>4, ConcatEmptySeq DEF InboundPending
    <3>6. InboundEnded' = InboundEnded
      BY <3>1 DEF InboundEnded
    <3> QED BY <1>q, <2>1, <2>2, <3>5, <3>6, StepsOfInbound
  <2>3. CASE Head(socket[p]) # Undecodable
    <3>1. /\ inHand' = [inHand EXCEPT ![p] = <<Head(socket[p])>>]
          /\ handler' = [handler EXCEPT ![p] = "sending"]
      BY <1>1, <2>3 DEF HandlerRead
    <3>2. InboundPending' = [InboundPending EXCEPT ![p] = inHand'[p] \o socket'[p]]
      BY <1>t, <2>1, <3>1, InboundOfOne DEF ServerTypeOK
    <3>3. inHand'[p] = <<Head(socket[p])>> /\ socket'[p] = Tail(socket[p])
      BY <1>t, <2>1, <3>1 DEF ServerTypeOK
    <3>4. inHand'[p] \o socket'[p] = InboundPending[p]
      BY <1>q, <2>1, <3>3, TakenInHand
    <3>5. InboundPending' = InboundPending
      BY <3>2, <3>4 DEF InboundPending
    <3>6. InboundEnded' = InboundEnded
      BY <1>t, <2>1, <3>1 DEF InboundEnded, ServerTypeOK
    <3> QED BY <2>1, <3>5, <3>6, StutterOfInbound
  <2> QED BY <2>2, <2>3
<1>2. CASE HandlerSend(p)
  <2>0. PICK m \in Message : TriesToSend(p, m)
    BY <1>2, HandlerSendEffect
  <2>1. /\ inHand[p] = <<m>> /\ handler[p] = "sending"
        /\ \/ /\ handler' = [handler EXCEPT ![p] = "reading"]
              /\ inHand' = [inHand EXCEPT ![p] = <<>>]
           \/ UNCHANGED <<handler, inHand>>
        /\ \/ UNCHANGED <<serverRx, passed>>
           \/ /\ serverRxOpen /\ HasRoom(serverRx)
              /\ passed' = [passed EXCEPT ![p] = Append(@, m)]
              /\ handler' = [handler EXCEPT ![p] = "reading"]
              /\ inHand' = [inHand EXCEPT ![p] = <<>>]
        /\ serverRxOpen /\ HasRoom(serverRx) => serverRx' = Append(serverRx, m)
    BY ONLY <2>0 DEF TriesToSend
  <2>2. socket' = socket
    BY <1>2 DEF HandlerSend
  <2>3. /\ InboundPending[p] # <<>>
        /\ Head(InboundPending[p]) = m /\ Tail(InboundPending[p]) = socket[p]
    BY <2>1, QueueOfConnection
  <2>4. InboundEnded' = InboundEnded
    BY <1>t, <2>1 DEF InboundEnded, ServerTypeOK
  <2>5. ASSUME inHand' = [inHand EXCEPT ![p] = <<>>]
        PROVE  InboundPending' = [InboundPending EXCEPT ![p] = Tail(@)]
    <3>1. InboundPending' = [InboundPending EXCEPT ![p] = inHand'[p] \o socket'[p]]
      BY <1>t, <2>2, <2>5, InboundOfOne DEF ServerTypeOK
    <3>2. inHand'[p] = <<>> /\ socket'[p] = Tail(InboundPending[p])
      BY <1>t, <2>2, <2>3, <2>5 DEF ServerTypeOK
    <3> QED BY <1>q, <2>3, <3>1, <3>2, ConcatEmptySeq DEF InboundPending
  <2>6. CASE UNCHANGED <<handler, inHand>> /\ UNCHANGED <<serverRx, passed>>
    <3>1. InboundPending' = InboundPending
      BY <2>2, <2>6 DEF InboundPending
    <3> QED BY <2>4, <2>6, <3>1, StutterOfInbound
  <2>7. CASE inHand' = [inHand EXCEPT ![p] = <<>>] /\ UNCHANGED <<serverRx, passed>>
    <3>1. serverRx # Append(serverRx, m)
      BY <1>t, AppendProperties DEF ServerTypeOK
    <3>2. p \notin InboundHealthy
      BY <2>1, <2>7, <3>1 DEF InboundHealthy
    <3> QED BY <2>3, <2>4, <2>5, <2>7, <3>2, StepsOfInbound
  <2>8. CASE /\ inHand' = [inHand EXCEPT ![p] = <<>>] /\ serverRxOpen /\ HasRoom(serverRx)
             /\ passed' = [passed EXCEPT ![p] = Append(@, m)]
    <3>1. p \in InboundHealthy
      BY <2>8 DEF InboundHealthy
    <3> QED BY <2>3, <2>4, <2>5, <2>8, <3>1, StepsOfInbound
  <2> QED BY <2>1, <2>6, <2>7, <2>8
<1>3. CASE HandlerEnds(p)
  <2>1. /\ handler[p] = "reading" /\ handler' = [handler EXCEPT ![p] = "ended"]
        /\ socket' = [socket EXCEPT ![p] = <<>>] /\ UNCHANGED <<inHand, passed>>
    BY <1>3 DEF HandlerEnds
  <2>2. InboundPending' = [InboundPending EXCEPT ![p] = inHand'[p] \o socket'[p]]
    BY <1>t, <2>1, InboundOfOne DEF ServerTypeOK
  <2>3. inHand'[p] = <<>> /\ socket'[p] = <<>>
    BY <1>t, <1>q, <2>1 DEF ServerTypeOK
  <2>4. <<>> \o <<>> = <<>>
    OBVIOUS
  <2>5. InboundPending' = [InboundPending EXCEPT ![p] = <<>>]
    BY <2>2, <2>3, <2>4
  <2>6. InboundEnded' = InboundEnded \cup {p}
    BY <1>t, <2>1 DEF InboundEnded, ServerTypeOK
  <2> QED BY <2>1, <2>5, <2>6, StepsOfInbound
<1> QED BY <1>1, <1>2, <1>3 DEF HandlerStep

\* So is every other step of the server and its environment.
LEMMA ServerNextRefines ==
    ASSUME ServerInv, [ServerNext]_allServerVars
    PROVE  Inbound!FifoNext \/ UNCHANGED Inbound!fifoVars
<1>t. ServerTypeOK
  BY DEF ServerInv
<1>u. ASSUME UNCHANGED <<socket, inHand, passed>>, InboundEnded' = InboundEnded
      PROVE  UNCHANGED Inbound!fifoVars
  <2>1. InboundPending' = InboundPending
    BY <1>u DEF InboundPending
  <2> QED BY <1>u, <2>1, StutterOfInbound
<1>v. ASSUME UNCHANGED <<handler, socket, inHand, passed>>
      PROVE  UNCHANGED Inbound!fifoVars
  <2>1. InboundEnded' = InboundEnded
    BY <1>v DEF InboundEnded
  <2> QED BY <1>u, <1>v, <2>1
<1>1. CASE AcceptStep
  <2>1. ASSUME NEW p \in Peers, ServerAcceptOk(p) PROVE UNCHANGED Inbound!fifoVars
    <3>1. /\ handler' = [handler EXCEPT ![p] = "reading"] /\ handler[p] # "ended"
          /\ UNCHANGED <<socket, inHand, passed>>
      BY <2>1 DEF ServerAcceptOk, ServerInv, EndedIsLeft
    <3>2. InboundEnded' = InboundEnded
      BY <1>t, <3>1 DEF InboundEnded, ServerTypeOK
    <3> QED BY <1>u, <3>1, <3>2
  <2> QED BY <1>1, <1>v, <2>1
      DEF AcceptStep, ServerBindOk, ServerBindErr, ServerAcceptErr, ServerNotified,
          ServerJoined, ServerNotifies, acceptVars
<1>2. ASSUME NEW p \in Peers, HandlerStep(p)
      PROVE  Inbound!FifoNext \/ UNCHANGED Inbound!fifoVars
  BY <1>2, HandlerStepRefines
<1>3. ASSUME NEW p \in Peers, NEW f \in Frame, PeerSend(p, f)
      PROVE  Inbound!FifoNext
  <2>1. /\ peer[p] = "open" /\ socket' = [socket EXCEPT ![p] = Append(@, f)]
        /\ UNCHANGED <<handler, inHand, passed>>
    BY <1>3 DEF PeerSend
  <2>2. InboundPending' = [InboundPending EXCEPT ![p] = inHand'[p] \o socket'[p]]
    BY <1>t, <2>1, InboundOfOne DEF ServerTypeOK
  <2>3. inHand'[p] \o socket'[p] = Append(InboundPending[p], f)
    <3> DEFINE held == inHand[p]  queue == socket[p]
    <3>1. held \in Seq(Frame)
      <4>1. inHand[p] \in AtMostOne(Frame)
        BY <1>t DEF ServerTypeOK, AtMostOne, Frame
      <4> QED BY <4>1, AtMostOneProperties
    <3>2. queue \in Seq(Frame) /\ InboundPending[p] = held \o queue
      BY <1>t DEF ServerTypeOK, InboundPending
    <3>3. inHand'[p] = held /\ socket'[p] = Append(queue, f)
      BY <1>t, <2>1 DEF ServerTypeOK
    <3> HIDE DEF held, queue
    <3>4. held \o Append(queue, f) = Append(held \o queue, f)
      BY <3>1, <3>2, AppendBehindHand
    <3> QED BY <3>2, <3>3, <3>4
  <2>4. InboundPending' = [InboundPending EXCEPT ![p] = Append(@, f)]
    BY <2>2, <2>3 DEF InboundPending
  <2>5. InboundEnded' = InboundEnded /\ p \notin InboundEnded
    BY <2>1 DEF InboundEnded, ServerInv, EndedIsLeft
  <2> QED BY <2>1, <2>4, <2>5, StepsOfInbound
<1>4. ASSUME NEW p \in Peers, PeerLeaves(p) PROVE UNCHANGED Inbound!fifoVars
  BY <1>4, <1>v DEF PeerLeaves
<1>5. CASE TakeFromServer \/ DropServerRx \/ UNCHANGED serverVars
  BY <1>5, <1>v DEF TakeFromServer, DropServerRx, serverVars
<1> QED BY <1>1, <1>2, <1>3, <1>4, <1>5 DEF ServerNext, allServerVars

\* However many handlers share the main loop's channel, the messages of one
\* connection come out in their order and none twice; one is lost only at the
\* head, for want of a decoding, of room or of a receiver, or with the handler.
THEOREM ServerImplementsInboundFifo == ServerSpec => ImplementsInboundFifo
<1>1. StateInit /\ ServerInit => Inbound!FifoInit
  BY ConcatEmptySeq DEF ServerInit, Inbound!FifoInit
<1>2. ServerInv /\ [ServerNext]_allServerVars => [Inbound!FifoNext]_Inbound!fifoVars
  BY ServerNextRefines
<1> QED BY <1>1, <1>2, ServerInvariant, PTL
    DEF ServerSpec, ImplementsInboundFifo, Inbound!FifoSpec
=============================================================================
