------------------------------- MODULE Client -------------------------------
(***************************************************************************)
(* The outgoing connections of one container (network/client.rs).  A       *)
(* Client owns the receiving end of one channel and one TCP stream; it     *)
(* dials its server, then moves messages from the channel to the stream.   *)
(* Every await of Client::run is a value of clientPc:                      *)
(*   "check"        head of the outer loop, is_closing_connection          *)
(*   "connecting"   TcpStream::connect                                     *)
(*   "backoff"      sleep after a failed connect                           *)
(*   "select"       select! over the channel and the notification          *)
(*   "writing"      write_all of the message in writing[c]                 *)
(*   "writeBackoff" sleep after a failed write                             *)
(*   "done"         run has returned and the receiver is dropped           *)
(***************************************************************************)
EXTENDS Sequences, ContainerState, TxSender

CONSTANTS Clients,          \* the connections of the topology
          Unserialisable,   \* messages serde_json cannot encode
          MaxSendRetries    \* max_send_retries, 5 in ClientBroker::init

ASSUME ClientAssumption == /\ Clients \subseteq Listeners
                           /\ Unserialisable \subseteq Message
                           /\ MaxSendRetries \in Nat \ {0}

VARIABLES clientPc, sendRetries, internalClientState,
          clientRx,   \* content of the channel
          writing,    \* the message taken from the channel and not yet sent
          stream,     \* the TCP stream: "none", "up", or "broken" by the peer
          wire        \* what was written to a stream that was up

clientVars == <<clientPc, sendRetries, internalClientState, clientRx,
                writing, stream, wire>>

ClientPcs == {"check", "connecting", "backoff", "select", "writing",
              "writeBackoff", "done"}

ClientInit ==
    /\ clientPc = [c \in Clients |-> "check"]
    /\ sendRetries = [c \in Clients |-> 0]
    /\ internalClientState = [c \in Clients |-> TRUE]
    /\ clientRx = [c \in Clients |-> <<>>]
    /\ writing = [c \in Clients |-> <<>>]
    /\ stream = [c \in Clients |-> "none"]
    /\ wire = [c \in Clients |-> <<>>]
-----------------------------------------------------------------------------
IsClosingConnection(c) ==
    containerState = "ShuttingDown" \/ ~internalClientState[c]

RetriesExhausted_OffByOne(n) == n > MaxSendRetries

\* The failure that takes the counter to n leaves no retry.
RetriesExhausted(n) == n >= MaxSendRetries

ClientOpen_Always(c) == TRUE

\* The receiver of the channel exists until run returns.
ClientOpen(c) == clientPc[c] # "done"

Goto(c, pc) == clientPc' = [clientPc EXCEPT ![c] = pc]

\* run returns: the receiver is dropped with whatever it still holds.
Return(c) == /\ Goto(c, "done")
             /\ clientRx' = [clientRx EXCEPT ![c] = <<>>]

CountFailure_Missing(c) == UNCHANGED sendRetries

CountFailure_Down(c) == sendRetries' = [sendRetries EXCEPT ![c] = @ - 1]

CountFailure(c) == sendRetries' = [sendRetries EXCEPT ![c] = @ + 1]

CloseClient_Forgotten(c) == UNCHANGED internalClientState

CloseClient(c) == internalClientState' = [internalClientState EXCEPT ![c] = FALSE]

CloseStream_Forgotten(c) == UNCHANGED stream

CloseStream(c) == stream' = [stream EXCEPT ![c] = "none"]

Transmit_Twice(c) ==
    wire' = IF stream[c] = "up"
              THEN [wire EXCEPT ![c] = @ \o writing[c] \o writing[c]] ELSE wire

\* The frame reaches the stream.  The socket of a peer that is gone may
\* still accept bytes, which then go nowhere.
Transmit(c) ==
    wire' = IF stream[c] = "up"
              THEN [wire EXCEPT ![c] = @ \o writing[c]] ELSE wire

\* Head of the outer loop.
ClientCheck(c) ==
    /\ clientPc[c] = "check"
    /\ IF IsClosingConnection(c)
         THEN Return(c)
         ELSE Goto(c, "connecting") /\ UNCHANGED clientRx
    /\ UNCHANGED <<sendRetries, internalClientState, writing, stream, wire>>
    /\ UNCHANGED stateVars

\* connect succeeds: the counter is reset and the inner loop is entered.
ClientConnectOk(c) ==
    /\ clientPc[c] = "connecting"
    /\ stream' = [stream EXCEPT ![c] = "up"]
    /\ sendRetries' = [sendRetries EXCEPT ![c] = 0]
    /\ Goto(c, "select")
    /\ Listen(c)
    /\ UNCHANGED <<internalClientState, clientRx, writing, wire, containerState>>

\* connect fails: back off, or close the client after the last retry.
ClientConnectErr(c) ==
    /\ clientPc[c] = "connecting"
    /\ CountFailure(c)
    /\ \/ /\ RetriesExhausted(sendRetries'[c])
          /\ CloseClient(c)
          /\ Return(c)
       \/ /\ ~RetriesExhausted(sendRetries'[c])
          /\ Goto(c, "backoff")
          /\ UNCHANGED <<internalClientState, clientRx>>
    /\ UNCHANGED <<writing, stream, wire>>
    /\ UNCHANGED stateVars

ClientBackoffEnd(c) ==
    /\ clientPc[c] = "backoff"
    /\ Goto(c, "check")
    /\ UNCHANGED <<sendRetries, internalClientState, clientRx, writing, stream, wire>>
    /\ UNCHANGED stateVars

\* select!: the channel branch.  A message that cannot be encoded is skipped.
ClientRecv(c) ==
    /\ clientPc[c] = "select"
    /\ clientRx[c] # <<>>
    /\ clientRx' = [clientRx EXCEPT ![c] = Tail(@)]
    /\ \/ /\ Head(clientRx[c]) \in Unserialisable
          /\ Listen(c)
          /\ UNCHANGED <<clientPc, writing>>
       \/ /\ Head(clientRx[c]) \notin Unserialisable
          /\ writing' = [writing EXCEPT ![c] = <<Head(clientRx[c])>>]
          /\ StopListening(c)
          /\ Goto(c, "writing")
    /\ UNCHANGED <<sendRetries, internalClientState, stream, wire, containerState>>

\* write_all returns Ok.
ClientWriteOk(c) ==
    /\ clientPc[c] = "writing"
    /\ Transmit(c)
    /\ writing' = [writing EXCEPT ![c] = <<>>]
    /\ Goto(c, "select")
    /\ Listen(c)
    /\ UNCHANGED <<sendRetries, internalClientState, clientRx, stream, containerState>>

\* write_all returns Err: the message is gone.  Close after the last retry,
\* otherwise sleep and go on with the same stream.
ClientWriteErr(c) ==
    /\ clientPc[c] = "writing"
    /\ stream[c] = "broken"
    /\ CountFailure(c)
    /\ writing' = [writing EXCEPT ![c] = <<>>]
    /\ \/ /\ RetriesExhausted(sendRetries'[c])
          /\ CloseClient(c)
          /\ CloseStream(c)
          /\ Goto(c, "check")
       \/ /\ ~RetriesExhausted(sendRetries'[c])
          /\ Goto(c, "writeBackoff")
          /\ UNCHANGED <<internalClientState, stream>>
    /\ UNCHANGED <<clientRx, wire>>
    /\ UNCHANGED stateVars

ClientWriteBackoffEnd(c) ==
    /\ clientPc[c] = "writeBackoff"
    /\ Goto(c, "select")
    /\ Listen(c)
    /\ UNCHANGED <<sendRetries, internalClientState, clientRx, writing, stream, wire,
                   containerState>>

\* select!: the notification branch.
ClientNotified(c) ==
    /\ clientPc[c] = "select"
    /\ notified[c] = "woken"
    /\ \/ /\ IsClosingConnection(c)
          /\ CloseStream(c)
          /\ StopListening(c)
          /\ Goto(c, "check")
       \/ /\ ~IsClosingConnection(c)
          /\ Listen(c)
          /\ UNCHANGED <<clientPc, stream>>
    /\ UNCHANGED <<sendRetries, internalClientState, clientRx, writing, wire,
                   containerState>>

ClientStep(c) == \/ ClientCheck(c)
                 \/ ClientConnectOk(c)
                 \/ ClientConnectErr(c)
                 \/ ClientBackoffEnd(c)
                 \/ ClientRecv(c)
                 \/ ClientWriteOk(c)
                 \/ ClientWriteErr(c)
                 \/ ClientWriteBackoffEnd(c)
                 \/ ClientNotified(c)
-----------------------------------------------------------------------------
\* The peer closes its side, or the network drops the connection.
StreamBreaks(c) ==
    /\ stream[c] = "up"
    /\ stream' = [stream EXCEPT ![c] = "broken"]
    /\ UNCHANGED <<clientPc, sendRetries, internalClientState, clientRx, writing, wire>>
    /\ UNCHANGED stateVars

\* A holder of the sending end puts a message into the channel.
Submit(c, m) ==
    /\ ClientOpen(c)
    /\ HasRoom(clientRx[c])
    /\ clientRx' = [clientRx EXCEPT ![c] = Append(@, m)]
    /\ UNCHANGED <<clientPc, sendRetries, internalClientState, writing, stream, wire>>
    /\ UNCHANGED stateVars

\* The other tasks of the container store a state, notify, or listen.
OtherTask == OthersAct(Clients) /\ UNCHANGED clientVars

ClientNext == \/ \E c \in Clients : \/ ClientStep(c)
                                    \/ StreamBreaks(c)
                                    \/ \E m \in Message : Submit(c, m)
              \/ OtherTask

allClientVars == <<clientVars, stateVars>>

ClientSpec == StateInit /\ ClientInit /\ [][ClientNext]_allClientVars

\* A client task is scheduled, its sleeps end, and connect and write_all
\* return.  select! polls its branches in random order, so a branch that is
\* ready again and again is taken.
ClientRuns(c) == \/ ClientCheck(c)
                 \/ ClientConnectOk(c)
                 \/ ClientConnectErr(c)
                 \/ ClientBackoffEnd(c)
                 \/ ClientWriteOk(c)
                 \/ ClientWriteErr(c)
                 \/ ClientWriteBackoffEnd(c)

ClientFairness == \A c \in Clients : /\ WF_allClientVars(ClientRuns(c))
                                     /\ WF_allClientVars(ClientRecv(c))
                                     /\ SF_allClientVars(ClientNotified(c))
-----------------------------------------------------------------------------
ClientTypeOK ==
    /\ clientPc \in [Clients -> ClientPcs]
    /\ sendRetries \in [Clients -> Nat]
    /\ internalClientState \in [Clients -> BOOLEAN]
    /\ clientRx \in [Clients -> Seq(Message)]
    /\ \A c \in Clients : WithinCapacity(clientRx[c])
    /\ writing \in [Clients -> AtMostOne(Message)]
    /\ stream \in [Clients -> {"none", "up", "broken"}]
    /\ wire \in [Clients -> Seq(Message)]

\* The retry budget of client.rs: the counter never passes the limit, in
\* whichever way connect failures, write failures and resets interleave, and
\* the client is operational exactly while it has a retry left.
RetryBudget ==
    \A c \in Clients : /\ sendRetries[c] <= MaxSendRetries
                       /\ internalClientState[c] <=> sendRetries[c] < MaxSendRetries

\* A message is in flight only inside write_all, and only with a stream to
\* write to: no path out of the inner loop leaves one behind.
InFlightHasStream ==
    \A c \in Clients : /\ writing[c] # <<>> <=> clientPc[c] = "writing"
                       /\ stream[c] # "none" <=>
                             clientPc[c] \in {"select", "writing", "writeBackoff"}

\* run returns only because the container left the running state or the
\* retries are used up (the outer loop has no other way out).
StopsForAReason ==
    \A c \in Clients :
       clientPc[c] = "done" => containerState # "Running" \/ ~internalClientState[c]

\* Each channel together with its stream is a lossy FIFO.
Fifo == INSTANCE LossyFifo WITH
            Channels <- Clients,
            pending <- [c \in Clients |-> writing[c] \o clientRx[c]],
            delivered <- wire,
            healthy <- {c \in Clients : stream[c] = "up"},
            ended <- {c \in Clients : clientPc[c] = "done"}

\* No message is reordered or sent twice, and one is lost only over a broken
\* stream, for want of an encoding, or with the client itself.
ImplementsFifo == Fifo!FifoSpec

\* A client that is dialling gets a session or gives up: whatever the peer
\* does, the reset of the counter cannot keep it dialling for ever.
DialEnds == \A c \in Clients :
    clientPc[c] \in {"check", "connecting", "backoff"} ~> clientPc[c] \in {"select", "done"}
=============================================================================
