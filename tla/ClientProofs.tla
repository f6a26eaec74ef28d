---------------------------- MODULE ClientProofs ----------------------------
(***************************************************************************)
(* Theorems about module Client, for any number of connections, messages,  *)
(* retries and channel capacity: its invariants, and that every client is  *)
(* a lossy FIFO.                                                           *)
(***************************************************************************)
EXTENDS Client, SequenceLemmas

\* What makes RetryBudget and StopsForAReason inductive: the client dials,
\* waits and writes only while it is operational.
OperationalWhileAtWork ==
    \A c \in Clients : clientPc[c] \notin {"check", "done"} => internalClientState[c]

\* The inductive invariant.
ClientInv == /\ StateTypeOK /\ ClientTypeOK
             /\ RetryBudget /\ InFlightHasStream /\ StopsForAReason
             /\ OperationalWhileAtWork

USE DEF ContainerStates, FutureStates, ClientPcs

\* What keeps a channel within its capacity.
LEMMA WithinCapacityKept ==
    /\ WithinCapacity(<<>>)
    /\ \A s \in Seq(Message) :
          /\ HasRoom(s) => \A m \in Message : WithinCapacity(Append(s, m))
          /\ s # <<>> /\ WithinCapacity(s) => WithinCapacity(Tail(s))
<1>1. WithinCapacity(<<>>)
  BY TxSenderAssumption DEF WithinCapacity
<1>2. ASSUME NEW s \in Seq(Message), HasRoom(s), NEW m \in Message
      PROVE  WithinCapacity(Append(s, m))
  BY <1>2, TxSenderAssumption DEF WithinCapacity, HasRoom
<1>3. ASSUME NEW s \in Seq(Message), s # <<>>, WithinCapacity(s)
      PROVE  WithinCapacity(Tail(s))
  BY <1>3, TxSenderAssumption DEF WithinCapacity
<1> QED BY <1>1, <1>2, <1>3

LEMMA ClientInitInv == StateInit /\ ClientInit => ClientInv
BY ClientAssumption, AtMostOneProperties, WithinCapacityKept
DEF StateInit, ClientInit, ClientInv, StateTypeOK, ClientTypeOK, RetryBudget,
    InFlightHasStream, StopsForAReason, OperationalWhileAtWork

\* The failure that uses up the retries also ends the operational state.
LEMMA LastFailureKeepsBudget ==
    ASSUME ClientTypeOK, RetryBudget, NEW c \in Clients, internalClientState[c],
           CountFailure(c), sendRetries[c] + 1 >= MaxSendRetries, CloseClient(c)
    PROVE  RetryBudget'
<1>1. sendRetries[c] \in Nat /\ sendRetries[c] < MaxSendRetries
  BY DEF ClientTypeOK, RetryBudget
<1>2. sendRetries'[c] = MaxSendRetries /\ internalClientState'[c] = FALSE
  BY <1>1, ClientAssumption DEF ClientTypeOK, CountFailure, CloseClient
<1>3. ASSUME NEW d \in Clients, d # c
      PROVE  sendRetries'[d] = sendRetries[d]
             /\ internalClientState'[d] = internalClientState[d]
  BY <1>3 DEF ClientTypeOK, CountFailure, CloseClient
<1>4. \A d \in Clients : sendRetries'[d] <= MaxSendRetries
  <2>1. \A d \in Clients : sendRetries[d] <= MaxSendRetries
    BY DEF RetryBudget
  <2>2. MaxSendRetries <= MaxSendRetries
    BY ClientAssumption
  <2> QED BY ONLY <1>2, <1>3, <2>1, <2>2, Zenon
<1>5. \A d \in Clients : internalClientState'[d] <=> sendRetries'[d] < MaxSendRetries
  <2>1. \A d \in Clients : internalClientState[d] <=> sendRetries[d] < MaxSendRetries
    BY DEF RetryBudget
  <2>2. ~(sendRetries'[c] < MaxSendRetries)
    BY <1>2, ClientAssumption
  <2> QED BY ONLY <1>2, <1>3, <2>1, <2>2, Zenon
<1> QED BY ONLY <1>4, <1>5 DEF RetryBudget

\* No action of a client disturbs the invariant.
LEMMA ClientStepInv ==
    ASSUME ClientInv, NEW c \in Clients, ClientStep(c)
    PROVE  ClientInv'
<1> USE ClientAssumption
    DEF ClientInv, StateTypeOK, ClientTypeOK, RetryBudget, InFlightHasStream,
        StopsForAReason, OperationalWhileAtWork, Goto, stateVars
<1>1. CASE ClientCheck(c)
  <2>1. CASE IsClosingConnection(c)
    <3>1. /\ clientPc[c] = "check" /\ clientPc' = [clientPc EXCEPT ![c] = "done"]
          /\ clientRx' = [clientRx EXCEPT ![c] = <<>>]
          /\ containerState = "ShuttingDown" \/ ~internalClientState[c]
          /\ UNCHANGED <<sendRetries, internalClientState, writing, stream, wire,
                         containerState, notified>>
      BY <1>1, <2>1 DEF ClientCheck, Return, IsClosingConnection
    <3>2. StateTypeOK' /\ ClientTypeOK' /\ RetryBudget'
      BY <3>1, WithinCapacityKept
    <3>3. InFlightHasStream' /\ StopsForAReason' /\ OperationalWhileAtWork'
      BY <3>1
    <3> QED BY <3>2, <3>3
  <2>2. CASE ~IsClosingConnection(c)
    <3>1. /\ clientPc[c] = "check" /\ clientPc' = [clientPc EXCEPT ![c] = "connecting"]
          /\ internalClientState[c]
          /\ UNCHANGED <<sendRetries, internalClientState, clientRx, writing, stream,
                         wire, containerState, notified>>
      BY <1>1, <2>2 DEF ClientCheck, IsClosingConnection
    <3> QED BY <3>1
  <2> QED BY <2>1, <2>2
<1>2. CASE ClientConnectOk(c)
  BY <1>2 DEF ClientConnectOk, Listen
<1>3. CASE ClientConnectErr(c)
  <2>1. CASE RetriesExhausted(sendRetries'[c])
    <3>1. /\ clientPc[c] = "connecting" /\ clientPc' = [clientPc EXCEPT ![c] = "done"]
          /\ sendRetries' = [sendRetries EXCEPT ![c] = @ + 1]
          /\ sendRetries[c] + 1 >= MaxSendRetries
          /\ internalClientState' = [internalClientState EXCEPT ![c] = FALSE]
          /\ clientRx' = [clientRx EXCEPT ![c] = <<>>]
          /\ UNCHANGED <<writing, stream, wire, containerState, notified>>
      BY <1>3, <2>1 DEF ClientConnectErr, CountFailure, RetriesExhausted, CloseClient, Return
    <3>2. StateTypeOK' /\ ClientTypeOK'
      BY <3>1, WithinCapacityKept
    <3>3. RetryBudget'
      BY <3>1, LastFailureKeepsBudget DEF CountFailure, CloseClient
    <3>4. InFlightHasStream'
      BY <3>1
    <3>5. StopsForAReason' /\ OperationalWhileAtWork'
      BY <3>1
    <3> QED BY <3>2, <3>3, <3>4, <3>5
  <2>2. CASE ~RetriesExhausted(sendRetries'[c])
    <3>1. /\ clientPc[c] = "connecting" /\ clientPc' = [clientPc EXCEPT ![c] = "backoff"]
          /\ sendRetries' = [sendRetries EXCEPT ![c] = @ + 1]
          /\ sendRetries[c] + 1 < MaxSendRetries
          /\ UNCHANGED <<internalClientState, clientRx, writing, stream, wire,
                         containerState, notified>>
      BY <1>3, <2>2 DEF ClientConnectErr, CountFailure, RetriesExhausted
    <3> QED BY <3>1
  <2> QED BY <2>1, <2>2
<1>4. CASE ClientBackoffEnd(c)
  BY <1>4 DEF ClientBackoffEnd
<1>5. CASE ClientRecv(c)
  <2>1. /\ clientPc[c] = "select" /\ clientRx[c] \in Seq(Message) /\ clientRx[c] # <<>>
        /\ clientRx' = [clientRx EXCEPT ![c] = Tail(@)]
        /\ UNCHANGED <<sendRetries, internalClientState, stream, wire, containerState>>
    BY <1>5 DEF ClientRecv
  <2>2. /\ Tail(clientRx[c]) \in Seq(Message) /\ Head(clientRx[c]) \in Message
        /\ WithinCapacity(Tail(clientRx[c]))
    BY <2>1, WithinCapacityKept
  <2>3. CASE Head(clientRx[c]) \in Unserialisable
    <3>1. Listen(c) /\ UNCHANGED <<clientPc, writing>>
      BY <1>5, <2>3 DEF ClientRecv
    <3> QED BY <2>1, <2>2, <3>1 DEF Listen
  <2>4. CASE Head(clientRx[c]) \notin Unserialisable
    <3>1. /\ writing' = [writing EXCEPT ![c] = <<Head(clientRx[c])>>]
          /\ StopListening(c) /\ clientPc' = [clientPc EXCEPT ![c] = "writing"]
      BY <1>5, <2>4 DEF ClientRecv
    <3>2. <<Head(clientRx[c])>> \in AtMostOne(Message) /\ <<Head(clientRx[c])>> # <<>>
      BY <2>2, AtMostOneProperties
    <3> QED BY <2>1, <2>2, <3>1, <3>2 DEF StopListening
  <2> QED BY <2>3, <2>4
<1>6. CASE ClientWriteOk(c)
  <2>1. /\ clientPc[c] = "writing" /\ writing' = [writing EXCEPT ![c] = <<>>]
        /\ clientPc' = [clientPc EXCEPT ![c] = "select"] /\ Listen(c)
        /\ UNCHANGED <<sendRetries, internalClientState, clientRx, stream, containerState>>
    BY <1>6 DEF ClientWriteOk
  <2>2. wire' \in [Clients -> Seq(Message)]
    <3>1. writing[c] \in Seq(Message) /\ wire[c] \in Seq(Message)
      BY AtMostOneProperties
    <3>2. wire[c] \o writing[c] \in Seq(Message)
      BY <3>1
    <3> QED BY <1>6, <3>2 DEF ClientWriteOk, Transmit
  <2>3. <<>> \in AtMostOne(Message)
    BY AtMostOneProperties
  <2> QED BY <2>1, <2>2, <2>3 DEF Listen
<1>7. CASE ClientWriteErr(c)
  <2>1. <<>> \in AtMostOne(Message)
    BY AtMostOneProperties
  <2>2. CASE RetriesExhausted(sendRetries'[c])
    <3>1. /\ clientPc[c] = "writing" /\ clientPc' = [clientPc EXCEPT ![c] = "check"]
          /\ sendRetries' = [sendRetries EXCEPT ![c] = @ + 1]
          /\ sendRetries[c] + 1 >= MaxSendRetries
          /\ internalClientState' = [internalClientState EXCEPT ![c] = FALSE]
          /\ writing' = [writing EXCEPT ![c] = <<>>]
          /\ stream' = [stream EXCEPT ![c] = "none"]
          /\ UNCHANGED <<clientRx, wire, containerState, notified>>
      BY <1>7, <2>2
      DEF ClientWriteErr, CountFailure, RetriesExhausted, CloseClient, CloseStream
    <3>2. StateTypeOK' /\ ClientTypeOK'
      BY <2>1, <3>1
    <3>3. RetryBudget'
      BY <3>1, LastFailureKeepsBudget DEF CountFailure, CloseClient
    <3>4. InFlightHasStream'
      BY <3>1
    <3>5. StopsForAReason' /\ OperationalWhileAtWork'
      BY <3>1
    <3> QED BY <3>2, <3>3, <3>4, <3>5
  <2>3. CASE ~RetriesExhausted(sendRetries'[c])
    <3>1. /\ clientPc[c] = "writing" /\ clientPc' = [clientPc EXCEPT ![c] = "writeBackoff"]
          /\ sendRetries' = [sendRetries EXCEPT ![c] = @ + 1]
          /\ sendRetries[c] + 1 < MaxSendRetries
          /\ writing' = [writing EXCEPT ![c] = <<>>]
          /\ UNCHANGED <<internalClientState, stream, clientRx, wire, containerState,
                         notified>>
      BY <1>7, <2>3 DEF ClientWriteErr, CountFailure, RetriesExhausted
    <3> QED BY <2>1, <3>1
  <2> QED BY <2>2, <2>3
<1>8. CASE ClientWriteBackoffEnd(c)
  BY <1>8 DEF ClientWriteBackoffEnd, Listen
<1>9. CASE ClientNotified(c)
  <2>1. StateTypeOK'
    <3>1. containerState' = containerState
      BY <1>9 DEF ClientNotified
    <3>2. \/ notified' = [notified EXCEPT ![c] = "none"]
          \/ notified' = [notified EXCEPT ![c] = "waiting"]
      BY <1>9 DEF ClientNotified, Listen, StopListening
    <3>3. StateTypeOK
      OBVIOUS
    <3> QED BY ONLY <3>1, <3>2, <3>3 DEF StateTypeOK
  <2>2. ClientTypeOK'
    <3>1. /\ UNCHANGED <<sendRetries, internalClientState, clientRx, writing, wire>>
          /\ clientPc' \in [Clients -> ClientPcs]
          /\ stream' \in [Clients -> {"none", "up", "broken"}]
      BY <1>9 DEF ClientNotified, CloseStream
    <3> QED BY <3>1
  <2>3. RetryBudget'
    BY <1>9 DEF ClientNotified
  <2>4. InFlightHasStream'
    BY <1>9 DEF ClientNotified, CloseStream
  <2>5. StopsForAReason' /\ OperationalWhileAtWork'
    BY <1>9 DEF ClientNotified, IsClosingConnection
  <2> QED BY <2>1, <2>2, <2>3, <2>4, <2>5
<1> QED BY <1>1, <1>2, <1>3, <1>4, <1>5, <1>6, <1>7, <1>8, <1>9 DEF ClientStep

\* Nor does the rest of the container or the network.
LEMMA ClientNextInv == ClientInv /\ [ClientNext]_allClientVars => ClientInv'
<1> SUFFICES ASSUME ClientInv, [ClientNext]_allClientVars
             PROVE  ClientInv'
  OBVIOUS
<1> USE ClientAssumption
    DEF ClientInv, StateTypeOK, ClientTypeOK, RetryBudget, InFlightHasStream,
        StopsForAReason, OperationalWhileAtWork
<1>1. ASSUME NEW c \in Clients, ClientStep(c) PROVE ClientInv'
  BY <1>1, ClientStepInv
<1>2. ASSUME NEW c \in Clients, StreamBreaks(c) PROVE ClientInv'
  BY <1>2 DEF StreamBreaks, stateVars
<1>3. ASSUME NEW c \in Clients, NEW m \in Message, Submit(c, m) PROVE ClientInv'
  <2>1. /\ clientRx[c] \in Seq(Message) /\ HasRoom(clientRx[c])
        /\ clientRx' = [clientRx EXCEPT ![c] = Append(@, m)]
        /\ UNCHANGED <<clientPc, sendRetries, internalClientState, writing, stream, wire,
                       containerState, notified>>
    BY <1>3 DEF Submit, stateVars
  <2>2. Append(clientRx[c], m) \in Seq(Message) /\ WithinCapacity(Append(clientRx[c], m))
    BY <2>1, WithinCapacityKept
  <2> QED BY <2>1, <2>2
<1>4. CASE OtherTask
  BY <1>4 DEF OtherTask, OthersAct, clientVars, Store, NotifyWaiters, Listen, StopListening
<1>5. CASE UNCHANGED allClientVars
  BY <1>5 DEF allClientVars, clientVars, stateVars
<1> QED BY <1>1, <1>2, <1>3, <1>4, <1>5 DEF ClientNext

\* Every reachable state of a container's clients satisfies the invariant.
THEOREM ClientInvariant == ClientSpec => []ClientInv
<1>1. StateInit /\ ClientInit => ClientInv
  BY ClientInitInv
<1>2. ClientInv /\ [ClientNext]_allClientVars => ClientInv'
  BY ClientNextInv
<1> QED BY <1>1, <1>2, PTL DEF ClientSpec

\* The fields and locals of Client::run keep their types.
THEOREM ClientTypeCorrect == ClientSpec => []ClientTypeOK
<1>1. ClientInv => ClientTypeOK
  BY DEF ClientInv
<1> QED BY <1>1, ClientInvariant, PTL

\* sendRetries never passes max_send_retries, and is below it exactly while
\* internal_client_state is true.
THEOREM RetryBudgetHolds == ClientSpec => []RetryBudget
<1>1. ClientInv => RetryBudget
  BY DEF ClientInv
<1> QED BY <1>1, ClientInvariant, PTL

\* A message is held outside the channel only inside write_all, where there
\* is a stream, and there is one nowhere but in the inner loop.
THEOREM InFlightHasStreamHolds == ClientSpec => []InFlightHasStream
<1>1. ClientInv => InFlightHasStream
  BY DEF ClientInv
<1> QED BY <1>1, ClientInvariant, PTL

\* run does not return while the container is running and retries are left.
THEOREM StopsForAReasonHolds == ClientSpec => []StopsForAReason
<1>1. ClientInv => StopsForAReason
  BY DEF ClientInv
<1> QED BY <1>1, ClientInvariant, PTL
-----------------------------------------------------------------------------
\* The refinement mapping, as in Fifo.
Pending == [c \in Clients |-> writing[c] \o clientRx[c]]

Ended == {c \in Clients : clientPc[c] = "done"}

Healthy == {c \in Clients : stream[c] = "up"}

\* A step that touches the queue of one client only.
LEMMA PendingOfOne ==
    ASSUME NEW c \in Clients,
           \A d \in Clients \ {c} : writing'[d] = writing[d] /\ clientRx'[d] = clientRx[d]
    PROVE  Pending' = [Pending EXCEPT ![c] = writing'[c] \o clientRx'[c]]
BY DEF Pending

LEMMA EndedOfOne ==
    ASSUME ClientTypeOK, NEW c \in Clients, NEW pc, Goto(c, pc), clientPc[c] # "done"
    PROVE  Ended' = IF pc = "done" THEN Ended \cup {c} ELSE Ended
BY DEF Ended, Goto, ClientTypeOK

\* What the invariant says about the queue of one client.
LEMMA QueueOfClient ==
    ASSUME ClientInv, NEW c \in Clients
    PROVE  /\ clientRx[c] \in Seq(Message) /\ writing[c] \in Seq(Message)
           /\ Pending[c] = writing[c] \o clientRx[c]
           /\ Pending[c] \in Seq(Message)
           /\ clientPc[c] # "writing" => writing[c] = <<>> /\ Pending[c] = clientRx[c]
           /\ clientPc[c] = "writing" =>
                 \E m \in Message : /\ writing[c] = <<m>> /\ Pending[c] # <<>>
                                    /\ Head(Pending[c]) = m /\ Tail(Pending[c]) = clientRx[c]
<1>1. /\ clientRx[c] \in Seq(Message) /\ writing[c] \in AtMostOne(Message)
      /\ writing[c] # <<>> <=> clientPc[c] = "writing"
  BY DEF ClientInv, ClientTypeOK, InFlightHasStream
<1>2. writing[c] \in Seq(Message)
  BY <1>1, AtMostOneProperties
<1>3. Pending[c] = writing[c] \o clientRx[c]
  BY DEF Pending
<1>4. Pending[c] \in Seq(Message)
  BY <1>1, <1>2, <1>3, ConcatProperties
<1>5. CASE clientPc[c] # "writing"
  BY <1>1, <1>2, <1>3, <1>4, <1>5, ConcatEmptySeq
<1>6. CASE clientPc[c] = "writing"
  <2>1. PICK m \in Message : writing[c] = <<m>>
    BY <1>1, <1>6 DEF AtMostOne
  <2>2. /\ Pending[c] # <<>> /\ Head(Pending[c]) = m /\ Tail(Pending[c]) = clientRx[c]
    BY <1>1, <1>3, <2>1, InHandIsHead
  <2> QED BY <1>1, <1>2, <1>3, <1>4, <1>6, <2>1, <2>2
<1> QED BY <1>5, <1>6

\* The abstract actions in terms of the mapping.
LEMMA StepsOfFifo ==
    ASSUME NEW c \in Clients
    PROVE  /\ \A m \in Message : /\ c \notin Ended /\ wire' = wire /\ Ended' = Ended
                                 /\ Pending' = [Pending EXCEPT ![c] = Append(@, m)]
                                 => Fifo!FifoNext
           /\ /\ c \in Healthy /\ Pending[c] # <<>> /\ Ended' = Ended
              /\ wire' = [wire EXCEPT ![c] = Append(@, Head(Pending[c]))]
              /\ Pending' = [Pending EXCEPT ![c] = Tail(@)]
              => Fifo!FifoNext
           /\ /\ Pending[c] # <<>> /\ wire' = wire /\ Ended' = Ended
              /\ c \notin Healthy \/ Head(Pending[c]) \in Unserialisable
              /\ Pending' = [Pending EXCEPT ![c] = Tail(@)]
              => Fifo!FifoNext
           /\ /\ Ended' = Ended \cup {c} /\ wire' = wire
              /\ Pending' = [Pending EXCEPT ![c] = <<>>]
              => Fifo!FifoNext
<1>1. ASSUME NEW m \in Message, c \notin Ended, wire' = wire, Ended' = Ended,
             Pending' = [Pending EXCEPT ![c] = Append(@, m)]
      PROVE  Fifo!FifoNext
  BY <1>1 DEF Fifo!FifoNext, Fifo!Accept, Pending, Ended
<1>2. ASSUME c \in Healthy, Pending[c] # <<>>, Ended' = Ended,
             wire' = [wire EXCEPT ![c] = Append(@, Head(Pending[c]))],
             Pending' = [Pending EXCEPT ![c] = Tail(@)]
      PROVE  Fifo!FifoNext
  BY <1>2 DEF Fifo!FifoNext, Fifo!Deliver, Pending, Ended, Healthy
<1>3. ASSUME Pending[c] # <<>>, wire' = wire, Ended' = Ended,
             c \notin Healthy \/ Head(Pending[c]) \in Unserialisable,
             Pending' = [Pending EXCEPT ![c] = Tail(@)]
      PROVE  Fifo!FifoNext
  BY <1>3 DEF Fifo!FifoNext, Fifo!Lose, Pending, Ended, Healthy
<1>4. ASSUME Ended' = Ended \cup {c}, wire' = wire,
             Pending' = [Pending EXCEPT ![c] = <<>>]
      PROVE  Fifo!FifoNext
  BY <1>4 DEF Fifo!FifoNext, Fifo!End, Pending, Ended
<1> QED BY <1>1, <1>2, <1>3, <1>4

LEMMA StutterOfFifo ==
    ASSUME Pending' = Pending, wire' = wire, Ended' = Ended
    PROVE  UNCHANGED Fifo!fifoVars
BY DEF Fifo!fifoVars, Pending, Ended

\* The message in hand goes, the rest of the queue stays.
LEMMA HandEmptied ==
    ASSUME ClientTypeOK, NEW c \in Clients, clientRx[c] \in Seq(Message),
           writing' = [writing EXCEPT ![c] = <<>>], UNCHANGED clientRx,
           Tail(Pending[c]) = clientRx[c]
    PROVE  Pending' = [Pending EXCEPT ![c] = Tail(@)]
<1>1. writing \in [Clients -> AtMostOne(Message)]
  BY DEF ClientTypeOK
<1>2. Pending' = [Pending EXCEPT ![c] = writing'[c] \o clientRx'[c]]
  BY <1>1, PendingOfOne
<1>3. writing'[c] = <<>> /\ clientRx'[c] = clientRx[c]
  BY <1>1
<1>4. <<>> \o clientRx[c] = clientRx[c]
  BY ConcatEmptySeq
<1> QED BY <1>2, <1>3, <1>4 DEF Pending

\* Every step of a client is a step of its queue, or none.
LEMMA ClientStepRefines ==
    ASSUME ClientInv, NEW c \in Clients, ClientStep(c)
    PROVE  Fifo!FifoNext \/ UNCHANGED Fifo!fifoVars
<1>t. ClientTypeOK
  BY DEF ClientInv
<1>q. /\ clientRx[c] \in Seq(Message) /\ writing[c] \in Seq(Message)
      /\ Pending[c] = writing[c] \o clientRx[c]
      /\ Pending[c] \in Seq(Message)
      /\ clientPc[c] # "writing" => writing[c] = <<>> /\ Pending[c] = clientRx[c]
  BY QueueOfClient
<1>u. ASSUME UNCHANGED <<writing, clientRx, wire>>, NEW pc, Goto(c, pc),
             clientPc[c] # "done", pc # "done"
      PROVE  UNCHANGED Fifo!fifoVars
  <2>1. Pending' = Pending
    BY <1>u DEF Pending
  <2>2. Ended' = Ended
    BY <1>t, <1>u, EndedOfOne
  <2> QED BY <1>u, <2>1, <2>2, StutterOfFifo
<1>e. ASSUME Return(c), UNCHANGED <<writing, wire>>, clientPc[c] \notin {"writing", "done"}
      PROVE  Fifo!FifoNext
  <2>1. clientRx' = [clientRx EXCEPT ![c] = <<>>] /\ Goto(c, "done")
    BY <1>e DEF Return
  <2>2. clientRx \in [Clients -> Seq(Message)]
    BY <1>t DEF ClientTypeOK
  <2>3. Pending' = [Pending EXCEPT ![c] = writing'[c] \o clientRx'[c]]
    BY <1>e, <2>1, <2>2, PendingOfOne
  <2>4. writing'[c] = <<>> /\ clientRx'[c] = <<>>
    BY <1>e, <1>q, <2>1, <2>2
  <2>5. <<>> \o <<>> = <<>>
    OBVIOUS
  <2>6. Pending' = [Pending EXCEPT ![c] = <<>>]
    BY <2>3, <2>4, <2>5
  <2>7. Ended' = Ended \cup {c}
    BY <1>e, <1>t, <2>1, EndedOfOne
  <2> QED BY <1>e, <2>6, <2>7, StepsOfFifo
<1>1. CASE ClientCheck(c)
  <2>1. CASE IsClosingConnection(c)
    BY <1>1, <1>e, <2>1 DEF ClientCheck
  <2>2. CASE ~IsClosingConnection(c)
    BY <1>1, <1>u, <2>2 DEF ClientCheck
  <2> QED BY <2>1, <2>2
<1>2. CASE ClientConnectOk(c)
  BY <1>2, <1>u DEF ClientConnectOk
<1>3. CASE ClientConnectErr(c)
  <2>1. CASE RetriesExhausted(sendRetries'[c])
    BY <1>3, <1>e, <2>1 DEF ClientConnectErr
  <2>2. CASE ~RetriesExhausted(sendRetries'[c])
    BY <1>3, <1>u, <2>2 DEF ClientConnectErr
  <2> QED BY <2>1, <2>2
<1>4. CASE ClientBackoffEnd(c)
  BY <1>4, <1>u DEF ClientBackoffEnd
<1>5. CASE ClientRecv(c)
  <2>1. /\ clientPc[c] = "select" /\ clientRx[c] # <<>>
        /\ clientRx' = [clientRx EXCEPT ![c] = Tail(@)] /\ wire' = wire
    BY <1>5 DEF ClientRecv
  <2>2. /\ clientRx \in [Clients -> Seq(Message)]
        /\ writing \in [Clients -> AtMostOne(Message)]
    BY <1>t DEF ClientTypeOK
  <2>3. CASE Head(clientRx[c]) \in Unserialisable
    <3>1. UNCHANGED <<clientPc, writing>>
      BY <1>5, <2>3 DEF ClientRecv
    <3>2. Pending' = [Pending EXCEPT ![c] = writing'[c] \o clientRx'[c]]
      BY <2>1, <2>2, <3>1, PendingOfOne
    <3>3. writing'[c] \o clientRx'[c] = Tail(Pending[c])
      <4>1. writing'[c] = <<>> /\ clientRx'[c] = Tail(clientRx[c]) /\ Pending[c] = clientRx[c]
        BY <1>q, <2>1, <2>2, <3>1
      <4>2. Tail(clientRx[c]) \in Seq(Message)
        BY <1>q, <2>1, HeadTailProperties
      <4> QED BY <4>1, <4>2, ConcatEmptySeq
    <3>4. Pending' = [Pending EXCEPT ![c] = Tail(@)]
      BY <3>2, <3>3 DEF Pending
    <3>5. Ended' = Ended
      BY <3>1 DEF Ended
    <3> QED BY <1>q, <2>1, <2>3, <3>4, <3>5, StepsOfFifo
  <2>4. CASE Head(clientRx[c]) \notin Unserialisable
    <3>1. /\ writing' = [writing EXCEPT ![c] = <<Head(clientRx[c])>>] /\ Goto(c, "writing")
      BY <1>5, <2>4 DEF ClientRecv
    <3>2. Pending' = [Pending EXCEPT ![c] = writing'[c] \o clientRx'[c]]
      BY <2>1, <2>2, <3>1, PendingOfOne
    <3>3. writing'[c] = <<Head(clientRx[c])>> /\ clientRx'[c] = Tail(clientRx[c])
      BY <2>1, <2>2, <3>1
    <3>4. writing'[c] \o clientRx'[c] = Pending[c]
      BY <1>q, <2>1, <3>3, TakenInHand
    <3>5. Pending' = Pending
      BY <3>2, <3>4 DEF Pending
    <3>6. Ended' = Ended
      BY <1>t, <2>1, <3>1, EndedOfOne
    <3> QED BY <2>1, <3>5, <3>6, StutterOfFifo
  <2> QED BY <2>3, <2>4
<1>6. CASE ClientWriteOk(c)
  <2>1. /\ clientPc[c] = "writing" /\ Transmit(c)
        /\ writing' = [writing EXCEPT ![c] = <<>>] /\ Goto(c, "select")
        /\ UNCHANGED clientRx
    BY <1>6 DEF ClientWriteOk
  <2>2. Ended' = Ended
    BY <1>t, <2>1, EndedOfOne
  <2>3. PICK m \in Message : /\ writing[c] = <<m>> /\ Pending[c] # <<>>
                             /\ Head(Pending[c]) = m /\ Tail(Pending[c]) = clientRx[c]
    BY <2>1, QueueOfClient
  <2>4. Pending' = [Pending EXCEPT ![c] = Tail(@)]
    BY <1>t, <1>q, <2>1, <2>3, HandEmptied
  <2>5. CASE stream[c] = "up"
    <3>1. wire' = [wire EXCEPT ![c] = @ \o <<m>>]
      BY <2>1, <2>3, <2>5 DEF Transmit
    <3>2. wire[c] \o <<m>> = Append(wire[c], m)
      BY <1>t, AppendIsConcat DEF ClientTypeOK
    <3>3. wire' = [wire EXCEPT ![c] = Append(@, Head(Pending[c]))]
      BY <2>3, <3>1, <3>2
    <3>4. c \in Healthy
      BY <2>5 DEF Healthy
    <3> QED BY <2>2, <2>3, <2>4, <3>3, <3>4, StepsOfFifo
  <2>6. CASE stream[c] # "up"
    <3>1. wire' = wire
      BY <2>1, <2>6 DEF Transmit
    <3>2. c \notin Healthy
      BY <2>6 DEF Healthy
    <3> QED BY <2>2, <2>3, <2>4, <3>1, <3>2, StepsOfFifo
  <2> QED BY <2>5, <2>6
<1>7. CASE ClientWriteErr(c)
  <2>1. /\ clientPc[c] = "writing" /\ stream[c] = "broken"
        /\ writing' = [writing EXCEPT ![c] = <<>>]
        /\ UNCHANGED <<clientRx, wire>>
        /\ Goto(c, "check") \/ Goto(c, "writeBackoff")
    BY <1>7 DEF ClientWriteErr
  <2>2. Ended' = Ended
    BY <1>t, <2>1, EndedOfOne
  <2>3. Pending[c] # <<>> /\ Tail(Pending[c]) = clientRx[c]
    BY <2>1, QueueOfClient
  <2>4. Pending' = [Pending EXCEPT ![c] = Tail(@)]
    BY <1>t, <1>q, <2>1, <2>3, HandEmptied
  <2>5. c \notin Healthy
    BY <2>1 DEF Healthy
  <2> QED BY <2>1, <2>2, <2>3, <2>4, <2>5, StepsOfFifo
<1>8. CASE ClientWriteBackoffEnd(c)
  BY <1>8, <1>u DEF ClientWriteBackoffEnd
<1>9. CASE ClientNotified(c)
  <2>1. CASE IsClosingConnection(c)
    BY <1>9, <1>u, <2>1 DEF ClientNotified
  <2>2. CASE ~IsClosingConnection(c)
    <3>1. UNCHANGED <<clientPc, writing, clientRx, wire>>
      BY <1>9, <2>2 DEF ClientNotified
    <3>2. Pending' = Pending /\ Ended' = Ended
      BY <3>1 DEF Pending, Ended
    <3> QED BY <3>1, <3>2, StutterOfFifo
  <2> QED BY <2>1, <2>2
<1> QED BY <1>1, <1>2, <1>3, <1>4, <1>5, <1>6, <1>7, <1>8, <1>9 DEF ClientStep

\* So is every step of the environment.
LEMMA ClientNextRefines ==
    ASSUME ClientInv, [ClientNext]_allClientVars
    PROVE  Fifo!FifoNext \/ UNCHANGED Fifo!fifoVars
<1>t. ClientTypeOK
  BY DEF ClientInv
<1>1. ASSUME NEW c \in Clients, ClientStep(c)
      PROVE  Fifo!FifoNext \/ UNCHANGED Fifo!fifoVars
  BY <1>1, ClientStepRefines
<1>u. ASSUME UNCHANGED <<clientPc, writing, clientRx, wire>>
      PROVE  UNCHANGED Fifo!fifoVars
  <2>1. Pending' = Pending /\ Ended' = Ended
    BY <1>u DEF Pending, Ended
  <2> QED BY <1>u, <2>1, StutterOfFifo
<1>2. ASSUME NEW c \in Clients, StreamBreaks(c)
      PROVE  UNCHANGED Fifo!fifoVars
  BY <1>2, <1>u DEF StreamBreaks
<1>3. ASSUME NEW c \in Clients, NEW m \in Message, Submit(c, m)
      PROVE  Fifo!FifoNext
  <2>1. /\ clientPc[c] # "done" /\ clientRx' = [clientRx EXCEPT ![c] = Append(@, m)]
        /\ UNCHANGED <<clientPc, writing, wire>>
    BY <1>3 DEF Submit, ClientOpen
  <2>2. clientRx \in [Clients -> Seq(Message)]
    BY <1>t DEF ClientTypeOK
  <2>3. Pending' = [Pending EXCEPT ![c] = writing'[c] \o clientRx'[c]]
    BY <2>1, <2>2, PendingOfOne
  <2>4. writing'[c] \o clientRx'[c] = Append(Pending[c], m)
    <3> DEFINE held == writing[c]  queue == clientRx[c]
    <3>1. /\ held \in Seq(Message) /\ queue \in Seq(Message) /\ Pending[c] = held \o queue
      BY QueueOfClient
    <3>2. writing'[c] = held /\ clientRx'[c] = Append(queue, m)
      BY <2>1, <2>2
    <3> HIDE DEF held, queue
    <3>3. held \o Append(queue, m) = Append(held \o queue, m)
      BY <3>1, AppendBehindHand
    <3> QED BY <3>1, <3>2, <3>3
  <2>5. Pending' = [Pending EXCEPT ![c] = Append(@, m)]
    BY <2>3, <2>4 DEF Pending
  <2>6. Ended' = Ended /\ c \notin Ended
    BY <2>1 DEF Ended
  <2> QED BY <2>1, <2>5, <2>6, StepsOfFifo
<1>4. CASE OtherTask
  BY <1>4, <1>u DEF OtherTask, clientVars
<1>5. CASE UNCHANGED allClientVars
  BY <1>5, <1>u DEF allClientVars, clientVars
<1> QED BY <1>1, <1>2, <1>3, <1>4, <1>5 DEF ClientNext

\* What is handed to a client's channel reaches the stream in that order and
\* none twice; one message at a time is lost, only at the head, and only over a
\* broken stream or for want of an encoding, unless the client itself ends.
THEOREM ClientImplementsFifo == ClientSpec => ImplementsFifo
<1>1. StateInit /\ ClientInit => Fifo!FifoInit
  BY ConcatEmptySeq DEF ClientInit, Fifo!FifoInit
<1>2. ClientInv /\ [ClientNext]_allClientVars => [Fifo!FifoNext]_Fifo!fifoVars
  BY ClientNextRefines
<1> QED BY <1>1, <1>2, ClientInvariant, PTL DEF ClientSpec, ImplementsFifo, Fifo!FifoSpec
=============================================================================
