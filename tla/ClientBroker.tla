---------------------------- MODULE ClientBroker ----------------------------
(***************************************************************************)
(* The sending side of a container (containerisation/client_broker.rs):    *)
(* the broker that owns the clients of module Client and hands them        *)
(* messages, together with the heartbeat tasks, which hold clones of the   *)
(* same senders and go past the broker.  The broker's methods are called   *)
(* by one task, the main loop; brokerPc says inside which await of which   *)
(* method that task is:                                                    *)
(*   "idle"        in none of them                                         *)
(*   "handling"    handle_message, in add_to_tx_with_retry                 *)
(*   "forwarding"  forward_shutdown, in send or in the sleep at its end    *)
(*   "joining"     shutdown, in join_next                                  *)
(***************************************************************************)
EXTENDS FiniteSets, Client

CONSTANTS UnknownTarget,   \* a target_clients entry that is no connection
          TargetLists,     \* the target_clients lists that messages carry
          Heartbeat,       \* requests and responses of the heartbeat tasks
          SystemShutdown   \* the message that forward_shutdown passes on

Targets == Clients \cup {UnknownTarget}

ASSUME BrokerAssumption == /\ UnknownTarget \notin Clients
                           /\ IsFiniteSet(Clients)
                           /\ TargetLists \subseteq Seq(Targets)
                           /\ Heartbeat \subseteq Message
                           /\ SystemShutdown \in Message \ Heartbeat

VARIABLES brokerPc,
          targets,          \* what the loop of the method has still to visit
          outgoing,         \* the message it passes on
          attempts,         \* failed attempts for the first of targets
          messagingActive,
          clientSenders     \* the keys of client_senders

brokerVars == <<brokerPc, targets, outgoing, attempts, messagingActive, clientSenders>>

BrokerInit == /\ brokerPc = "idle"
              /\ targets = <<>>
              /\ outgoing = <<>>
              /\ attempts = 0
              /\ messagingActive = TRUE
              /\ clientSenders = Clients

\* The client's side of its channel and of everything else is left alone.
ClientsRest == <<clientPc, sendRetries, internalClientState, writing, stream, wire>>
-----------------------------------------------------------------------------
HandleMessage_Unblocked(ts, m) ==
    /\ brokerPc = "idle"
    /\ brokerPc' = "handling" /\ targets' = ts /\ outgoing' = <<m>>
    /\ UNCHANGED <<attempts, messagingActive, clientSenders>>

\* handle_message(m) for the targets ts.  An inactive broker drops it.
HandleMessage(ts, m) ==
    /\ brokerPc = "idle"
    /\ \/ /\ messagingActive
          /\ brokerPc' = "handling" /\ targets' = ts /\ outgoing' = <<m>>
       \/ /\ ~messagingActive
          /\ UNCHANGED <<brokerPc, targets, outgoing>>
    /\ UNCHANGED <<attempts, messagingActive, clientSenders>>

\* One attempt of add_to_tx_with_retry for the first target.
HandleTarget ==
    /\ brokerPc = "handling"
    /\ targets # <<>>
    /\ \/ /\ Head(targets) \notin clientSenders
          /\ targets' = Tail(targets)
          /\ UNCHANGED <<attempts, clientRx>>
       \/ /\ Head(targets) \in clientSenders
          /\ LET c == Head(targets)
                 try == Attempt(clientRx[c], ClientOpen(c), Head(outgoing), attempts)
             IN /\ clientRx' = [clientRx EXCEPT ![c] = try.queue]
                /\ attempts' = try.attempts
                /\ targets' = IF try.returns THEN Tail(targets) ELSE targets
    /\ UNCHANGED <<brokerPc, outgoing, messagingActive, clientSenders>>
    /\ UNCHANGED <<ClientsRest, stateVars>>

HandleReturns ==
    /\ brokerPc = "handling"
    /\ targets = <<>>
    /\ brokerPc' = "idle"
    /\ outgoing' = <<>>
    /\ UNCHANGED <<targets, attempts, messagingActive, clientSenders>>
    /\ UNCHANGED <<clientVars, stateVars>>

\* The iteration order of a HashMap is arbitrary.
IterationOrders(S) ==
    {o \in [1..Cardinality(S) -> S] : \A i, j \in 1..Cardinality(S) : o[i] = o[j] => i = j}

ForwardShutdown(m) ==
    /\ brokerPc = "idle"
    /\ brokerPc' = "forwarding"
    /\ targets' \in IterationOrders(clientSenders)
    /\ outgoing' = <<m>>
    /\ UNCHANGED <<attempts, messagingActive, clientSenders>>

\* sender.send(message).await waits for room, or fails on a closed channel.
ForwardSend ==
    /\ brokerPc = "forwarding"
    /\ targets # <<>>
    /\ \/ /\ ~ClientOpen(Head(targets))
          /\ UNCHANGED clientRx
       \/ /\ ClientOpen(Head(targets))
          /\ HasRoom(clientRx[Head(targets)])
          /\ clientRx' = [clientRx EXCEPT ![Head(targets)] = @ \o outgoing]
    /\ targets' = Tail(targets)
    /\ UNCHANGED <<brokerPc, outgoing, attempts, messagingActive, clientSenders>>
    /\ UNCHANGED <<ClientsRest, stateVars>>

\* The sleep ends and messaging is switched off.
ForwardReturns ==
    /\ brokerPc = "forwarding"
    /\ targets = <<>>
    /\ brokerPc' = "idle"
    /\ outgoing' = <<>>
    /\ messagingActive' = FALSE
    /\ UNCHANGED <<targets, attempts, clientSenders>>
    /\ UNCHANGED <<clientVars, stateVars>>

ShutdownBroker ==
    /\ brokerPc = "idle"
    /\ brokerPc' = "joining"
    /\ UNCHANGED <<targets, outgoing, attempts, messagingActive, clientSenders>>

AllJoined_One == \E c \in Clients : clientPc[c] = "done"

AllJoined_Skipped == TRUE

\* join_next returns None.
AllJoined == \A c \in Clients : clientPc[c] = "done"

ShutdownReturns ==
    /\ brokerPc = "joining"
    /\ AllJoined
    /\ brokerPc' = "idle"
    /\ clientSenders' = {}
    /\ UNCHANGED <<targets, outgoing, attempts, messagingActive>>
    /\ UNCHANGED <<clientVars, stateVars>>

\* A heartbeat task calls try_send on its clone of a sender.  A message for
\* which there is no room is dropped, and nothing changes.
HeartbeatTrySend(c) == \E m \in Heartbeat : Submit(c, m)

BrokerStep == \/ HandleTarget
              \/ HandleReturns
              \/ ForwardSend
              \/ ForwardReturns
              \/ ShutdownReturns
-----------------------------------------------------------------------------
\* What the broker's owner calls: messages of the component, then the
\* shutdown, and "ContainerState must be set to shutdown" before the join.
OwnerCalls ==
    /\ \/ \E ts \in TargetLists, m \in Message \ (Heartbeat \cup {SystemShutdown}) :
             HandleMessage(ts, m)
       \/ ForwardShutdown(SystemShutdown)
       \/ containerState = "ShuttingDown" /\ ShutdownBroker
    /\ UNCHANGED <<clientVars, stateVars>>

BrokerNext ==
    \/ BrokerStep
    \/ OwnerCalls
    \/ /\ \/ OtherTask
          \/ \E c \in Clients : ClientStep(c) \/ StreamBreaks(c) \/ HeartbeatTrySend(c)
       /\ UNCHANGED brokerVars

allBrokerVars == <<brokerVars, clientVars, stateVars>>

BrokerSpec == StateInit /\ ClientInit /\ BrokerInit /\ [][BrokerNext]_allBrokerVars

\* The task inside the broker is scheduled and its sleeps end.  A send that
\* waits for room is in the queue of tokio's semaphore, which serves it
\* before a try_send can take the place, so room again and again is enough.
BrokerRuns == HandleTarget \/ HandleReturns \/ ForwardReturns \/ ShutdownReturns

BrokerFairness == WF_allBrokerVars(BrokerRuns) /\ SF_allBrokerVars(ForwardSend)
-----------------------------------------------------------------------------
BrokerTypeOK ==
    /\ brokerPc \in {"idle", "handling", "forwarding", "joining"}
    /\ targets \in Seq(Targets)
    /\ outgoing \in AtMostOne(Message)
    /\ attempts \in 0 .. MaxAttempts - 1
    /\ messagingActive \in BOOLEAN
    /\ clientSenders \in {{}, Clients}

\* Everything that was put into the channel of c and is not lost.
Sent(c) == wire[c] \o writing[c] \o clientRx[c]

\* Once the system shutdown is on its way to a peer, only the heartbeat tasks
\* can still put something behind it: messages of the component stay blocked
\* however long forward_shutdown waits for the other channels.
ShutdownIsLastWord ==
    \A c \in Clients : \A i, j \in 1..Len(Sent(c)) :
       i < j /\ Sent(c)[i] = SystemShutdown => Sent(c)[j] \in Heartbeat \cup {SystemShutdown}

\* The senders are dropped only when no client is left that could use one,
\* and from then on no client has a stream or a message in flight.
SendersOutliveClients ==
    clientSenders = {} => \A c \in Clients : /\ ~ClientOpen(c)
                                             /\ stream[c] = "none" /\ writing[c] = <<>>

\* The broker and the heartbeat tasks only ever do to the clients what their
\* specification allows the holders of a sender to do.
ImplementsClientSpec == ClientSpec

\* handle_message comes back although it may have to wait on channels that
\* stay full: every target costs a bounded number of attempts.
HandleMessageEnds == brokerPc = "handling" ~> brokerPc = "idle"

\* The main loop and its helpers change the container state finitely often.
StateSettles == \E s \in ContainerStates : <>[](containerState = s)

\* forward_shutdown comes back although it waits without a limit: unless the
\* container state goes back and forth for ever, a client either makes room
\* or closes its channel.
ForwardShutdownEnds == StateSettles => (brokerPc = "forwarding" ~> brokerPc = "idle")
=============================================================================
