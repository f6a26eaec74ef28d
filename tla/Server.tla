------------------------------- MODULE Server -------------------------------
(***************************************************************************)
(* The receiving side of a container (network/server.rs): one task that    *)
(* accepts connections, and one handler task per connection, which reads   *)
(* frames and passes the messages in them to the main loop.  A handler is  *)
(* named after the connection it serves.  The awaits of Server::run are    *)
(* the values of serverPc:                                                 *)
(*   "bind"       TcpListener::bind                                        *)
(*   "listening"  select! over accept and the notification                 *)
(*   "joining"    join_next, after the listener was dropped                *)
(*   "notify"     the state is stored and the waiters not yet notified     *)
(*   "done"       run has returned Ok; "failed": it has returned Err       *)
(***************************************************************************)
EXTENDS Sequences, ContainerState, TxSender

CONSTANTS Peers,         \* the connections that other containers open
          ServerTask,    \* the name of the accepting task as a listener
          Undecodable    \* a frame that deserialise_message rejects

ASSUME ServerAssumption == /\ ServerTask \in Listeners
                           /\ Undecodable \notin Message

VARIABLES serverPc,
          handler,            \* "none", "reading", "sending" or "ended"
          peer,               \* its end: "away", "open", "closed", "reset"
          socket,             \* frames that have arrived and are not yet read
          inHand,             \* the message a handler tries to pass on
          handlerAttempts,    \* failed attempts for it
          serverRx,           \* content of the channel to the main loop
          serverRxOpen,       \* its receiver exists
          passed              \* what each handler has put into the channel

serverVars == <<serverPc, handler, peer, socket, inHand, handlerAttempts,
                serverRx, serverRxOpen, passed>>

acceptVars == <<peer, socket, inHand, handlerAttempts, serverRx, serverRxOpen, passed>>

Frame == Message \cup {Undecodable}

ServerInit == /\ serverPc = "bind"
              /\ handler = [p \in Peers |-> "none"]
              /\ peer = [p \in Peers |-> "away"]
              /\ socket = [p \in Peers |-> <<>>]
              /\ inHand = [p \in Peers |-> <<>>]
              /\ handlerAttempts = [p \in Peers |-> 0]
              /\ serverRx = <<>>
              /\ serverRxOpen = TRUE
              /\ passed = [p \in Peers |-> <<>>]

Alive(p) == handler[p] \in {"reading", "sending"}
-----------------------------------------------------------------------------
ServerBindOk == /\ serverPc = "bind"
                /\ serverPc' = "listening"
                /\ Listen(ServerTask)
                /\ UNCHANGED <<handler, acceptVars, containerState>>

\* bind fails: `?` returns at once, before anything is stored or notified.
ServerBindErr == /\ serverPc = "bind"
                 /\ serverPc' = "failed"
                 /\ UNCHANGED <<handler, acceptVars, stateVars>>

\* accept returns a connection, which gets a handler.  The select! starts
\* anew, and a notification that completed meanwhile is dropped unseen.
ServerAcceptOk(p) == /\ serverPc = "listening"
                     /\ peer[p] = "away"
                     /\ peer' = [peer EXCEPT ![p] = "open"]
                     /\ handler' = [handler EXCEPT ![p] = "reading"]
                     /\ Listen(ServerTask)
                     /\ UNCHANGED <<serverPc, socket, inHand, handlerAttempts,
                                    serverRx, serverRxOpen, passed, containerState>>

ServerAcceptErr == /\ serverPc = "listening"
                   /\ Listen(ServerTask)
                   /\ UNCHANGED <<serverPc, handler, acceptVars, containerState>>

ServerNotified == /\ serverPc = "listening"
                  /\ notified[ServerTask] = "woken"
                  /\ \/ /\ containerState = "ShuttingDown"
                        /\ serverPc' = "joining"
                        /\ StopListening(ServerTask)
                     \/ /\ containerState # "ShuttingDown"
                        /\ UNCHANGED serverPc
                        /\ Listen(ServerTask)
                  /\ UNCHANGED <<handler, acceptVars, containerState>>

AllHandlersEnded_Any == \E p \in Peers : ~Alive(p)

AllHandlersEnded == \A p \in Peers : ~Alive(p)

\* The last handler is joined and the state stored.
ServerJoined == /\ serverPc = "joining"
                /\ AllHandlersEnded
                /\ serverPc' = "notify"
                /\ Store("ShuttingDown")
                /\ UNCHANGED <<handler, acceptVars, notified>>

ServerNotifies == /\ serverPc = "notify"
                  /\ serverPc' = "done"
                  /\ NotifyWaiters
                  /\ UNCHANGED <<handler, acceptVars, containerState>>

AcceptStep == \/ ServerBindOk
              \/ ServerBindErr
              \/ \E p \in Peers : ServerAcceptOk(p)
              \/ ServerAcceptErr
              \/ ServerNotified
              \/ ServerJoined
              \/ ServerNotifies
-----------------------------------------------------------------------------
\* The next complete frame is taken out of the buffer; one that does not
\* decode is skipped.  A handler reads nothing while it passes a message on.
HandlerRead(p) ==
    /\ handler[p] = "reading"
    /\ socket[p] # <<>>
    /\ socket' = [socket EXCEPT ![p] = Tail(@)]
    /\ \/ /\ Head(socket[p]) = Undecodable
          /\ UNCHANGED <<handler, inHand>>
       \/ /\ Head(socket[p]) # Undecodable
          /\ inHand' = [inHand EXCEPT ![p] = <<Head(socket[p])>>]
          /\ handler' = [handler EXCEPT ![p] = "sending"]
    /\ UNCHANGED <<serverPc, peer, handlerAttempts, serverRx, serverRxOpen, passed>>
    /\ UNCHANGED stateVars

LetGo_Kept(p) == UNCHANGED inHand

LetGo(p) == inHand' = [inHand EXCEPT ![p] = <<>>]

\* One attempt of add_to_tx_with_retry.
HandlerSend(p) ==
    /\ handler[p] = "sending"
    /\ LET try == Attempt(serverRx, serverRxOpen, Head(inHand[p]), handlerAttempts[p])
       IN /\ serverRx' = try.queue
          /\ handlerAttempts' = [handlerAttempts EXCEPT ![p] = try.attempts]
          /\ \/ /\ try.returns
                /\ handler' = [handler EXCEPT ![p] = "reading"]
                /\ LetGo(p)
             \/ /\ ~try.returns
                /\ UNCHANGED <<handler, inHand>>
    /\ passed' = IF serverRx' = serverRx THEN passed
                   ELSE [passed EXCEPT ![p] = @ \o inHand[p]]
    /\ UNCHANGED <<serverPc, peer, socket, serverRxOpen, stateVars>>

HandlerEnds_IgnoresErr(p) ==
    /\ handler[p] = "reading"
    /\ peer[p] = "closed" /\ socket[p] = <<>>
    /\ handler' = [handler EXCEPT ![p] = "ended"]
    /\ UNCHANGED <<serverPc, peer, socket, inHand, handlerAttempts, serverRx, serverRxOpen,
                   passed, stateVars>>

\* read returns Ok(0) after the last frame, or Err with frames unread.
HandlerEnds(p) ==
    /\ handler[p] = "reading"
    /\ \/ peer[p] = "closed" /\ socket[p] = <<>>
       \/ peer[p] = "reset"
    /\ handler' = [handler EXCEPT ![p] = "ended"]
    /\ socket' = [socket EXCEPT ![p] = <<>>]
    /\ UNCHANGED <<serverPc, peer, inHand, handlerAttempts, serverRx, serverRxOpen, passed>>
    /\ UNCHANGED stateVars

HandlerStep(p) == HandlerRead(p) \/ HandlerSend(p) \/ HandlerEnds(p)
-----------------------------------------------------------------------------
\* The far end of an accepted connection.
PeerSend(p, f) ==
    /\ peer[p] = "open"
    /\ socket' = [socket EXCEPT ![p] = Append(@, f)]
    /\ UNCHANGED <<serverPc, handler, peer, inHand, handlerAttempts, serverRx,
                   serverRxOpen, passed, stateVars>>

PeerLeaves(p) ==
    /\ peer[p] = "open"
    /\ \E how \in {"closed", "reset"} : peer' = [peer EXCEPT ![p] = how]
    /\ UNCHANGED <<serverPc, handler, socket, inHand, handlerAttempts, serverRx,
                   serverRxOpen, passed, stateVars>>

\* The main loop takes a message, or drops its end of the channel.
TakeFromServer == /\ serverRx # <<>>
                  /\ serverRx' = Tail(serverRx)
                  /\ UNCHANGED <<serverPc, handler, peer, socket, inHand,
                                 handlerAttempts, serverRxOpen, passed>>

\* Taking a directive and storing the state it asks for is one step.
MainStoresAtOnce == /\ containerState' \in {containerState, "ShuttingDown"}
                    /\ UNCHANGED notified

DropServerRx == /\ serverRxOpen
                /\ serverRxOpen' = FALSE
                /\ serverRx' = <<>>
                /\ UNCHANGED <<serverPc, handler, peer, socket, inHand,
                               handlerAttempts, passed>>

ServerNext ==
    \/ AcceptStep
    \/ \E p \in Peers : \/ HandlerStep(p)
                        \/ \E f \in Frame : PeerSend(p, f)
                        \/ PeerLeaves(p)
    \/ TakeFromServer /\ MainStoresAtOnce
    \/ DropServerRx /\ UNCHANGED stateVars
    \/ OthersAct({ServerTask}) /\ UNCHANGED serverVars

allServerVars == <<serverVars, stateVars>>

ServerSpec == StateInit /\ ServerInit /\ [][ServerNext]_allServerVars

\* The tasks are scheduled and their sleeps end; bind returns.  No fairness
\* is assumed of accept: nobody has to connect, and a notification that is
\* ready again and again is seen.
ServerRuns == ServerBindOk \/ ServerBindErr \/ ServerJoined \/ ServerNotifies

ServerFairness == /\ WF_allServerVars(ServerRuns)
                  /\ SF_allServerVars(ServerNotified)
                  /\ \A p \in Peers : WF_allServerVars(HandlerStep(p))
-----------------------------------------------------------------------------
ServerTypeOK ==
    /\ serverPc \in {"bind", "listening", "joining", "notify", "done", "failed"}
    /\ handler \in [Peers -> {"none", "reading", "sending", "ended"}]
    /\ peer \in [Peers -> {"away", "open", "closed", "reset"}]
    /\ socket \in [Peers -> Seq(Frame)]
    /\ inHand \in [Peers -> AtMostOne(Message)]
    /\ handlerAttempts \in [Peers -> 0 .. MaxAttempts - 1]
    /\ serverRx \in Seq(Message) /\ WithinCapacity(serverRx)
    /\ serverRxOpen \in BOOLEAN
    /\ passed \in [Peers -> Seq(Message)]

\* Server::run gets past its loop only in a container that has left the
\* running state, and says so to the others only when no connection is
\* served any more: "Ensures all client handlers die before shutdown".
ServerStopsInOrder ==
    /\ serverPc \in {"joining", "notify", "done"} => containerState # "Running"
    /\ serverPc \in {"bind", "notify", "done", "failed"} =>
          \A p \in Peers : ~Alive(p) /\ socket[p] = <<>> /\ inHand[p] = <<>>

\* Each accepted connection is a lossy FIFO into the main loop's channel.
Inbound == INSTANCE LossyFifo WITH
               Channels <- Peers,
               Message <- Frame,
               Unserialisable <- {Undecodable},
               pending <- [p \in Peers |-> inHand[p] \o socket[p]],
               delivered <- passed,
               ended <- {p \in Peers : handler[p] = "ended"},
               healthy <- IF serverRxOpen /\ HasRoom(serverRx) THEN Peers ELSE {}

\* Whatever the other handlers put into the same channel, no message of a
\* connection is reordered or passed on twice, and one is given up only while
\* the channel is full or its receiver gone.
ImplementsInboundFifo == Inbound!FifoSpec

\* A handler whose peer has left ends, even if the main loop never takes a
\* message again: each message costs it a bounded number of attempts.
HandlerFollowsPeer == \A p \in Peers :
    Alive(p) /\ peer[p] # "open" ~> handler[p] = "ended"

\* Once told to stop, the server is done when the peers have left.
ServerFollowsPeers ==
    serverPc = "joining" /\ (\A p \in Peers : peer[p] # "open") ~> serverPc = "done"

\* A server that listens when the shutdown is announced leaves its loop:
\* "Listen for state changes" (server.rs:108), "The server task should exit
\* cleanly" (test_server.rs:162).
ServerHearsShutdown ==
    [](serverPc = "listening" /\ notified[ServerTask] = "woken"
         /\ [](containerState = "ShuttingDown") => <>(serverPc # "listening"))
=============================================================================
