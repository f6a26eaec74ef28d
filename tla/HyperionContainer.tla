-------------------------- MODULE HyperionContainer --------------------------
(***************************************************************************)
(* One container: the main loop (containerisation/hyperion_container.rs)   *)
(* together with the server, the broker and its clients, the component     *)
(* task, and the watchdog of a heartbeat receiver that was given the       *)
(* ShutdownOnTimeout handler.  All of them share the container state.      *)
(*                                                                         *)
(* The main loop is one task; the points where other tasks can run between *)
(* its effects are the values of mainPc:                                   *)
(*   "check"           head of the loop, container_state.load              *)
(*   "probe"           component_handle.is_finished                        *)
(*   "select"          select! over the three channels                     *)
(*   "toComponent"     add_to_tx_with_retry towards the component          *)
(*   "handling", "forwarding", "joining"   in a method of the broker       *)
(*   "notify..."       a state was stored, notify_waiters comes next       *)
(*   "sleep"           the three seconds before Closed                     *)
(*   "done"            run has returned; "panicked": select! has panicked  *)
(* The model ends there: what main.rs does with the container afterwards   *)
(* (dropping it, leaving the process) is not part of it.                   *)
(***************************************************************************)
EXTENDS ClientBroker, Server

CONSTANTS ComponentTask,   \* the name of the component task as a listener
          Shutdown,        \* the directive of that name
          Unmapped         \* directives the main loop does not act upon

Directive == {Shutdown, SystemShutdown} \cup Unmapped

App == Message \ (Heartbeat \cup Directive)

ASSUME ContainerAssumption ==
    /\ ComponentTask \in Listeners \ (Clients \cup {ServerTask})
    /\ ServerTask \notin Clients
    /\ Shutdown \in Message \ (Heartbeat \cup {SystemShutdown})
    /\ Unmapped \subseteq Message \ (Heartbeat \cup {Shutdown, SystemShutdown})

VARIABLES mainPc,
          mainRx,              \* content of the channel from the console
          consoleOpen,         \* somebody still holds its sender
          mainHand,            \* the message on its way to the component
          mainAttempts,
          componentPc,         \* "start", "select", "sending" or "finished"
          componentIn,         \* content of the channel to the component
          componentHand,       \* the result it tries to pass to the main loop
          componentAttempts,
          componentOut,        \* content of the channel from the component
          watchdogPc           \* "waiting", or "notify" inside on_timeout

mainVars == <<mainPc, mainRx, consoleOpen, mainHand, mainAttempts>>

componentVars == <<componentPc, componentIn, componentHand, componentAttempts,
                   componentOut>>

containerVars == <<mainVars, componentVars, watchdogPc, brokerVars, clientVars,
                   serverVars, stateVars>>

Result == [targets : TargetLists, message : App]

MainInit == /\ mainPc = "check"
            /\ mainRx = <<>>
            /\ consoleOpen = TRUE
            /\ mainHand = <<>>
            /\ mainAttempts = 0

ComponentInit == /\ componentPc = "start"
                 /\ componentIn = <<>>
                 /\ componentHand = <<>>
                 /\ componentAttempts = 0
                 /\ componentOut = <<>>

ContainerInit == /\ StateInit /\ ClientInit /\ BrokerInit /\ ServerInit
                 /\ MainInit /\ ComponentInit
                 /\ watchdogPc = "waiting"
-----------------------------------------------------------------------------
ComponentOpen == componentPc # "finished"

MainCheck_NoStore == UNCHANGED containerState

MainCheck_Store == Store("ShuttingDown")

IsDying_NoDead == containerState = "ShuttingDown"

IsDying == containerState \in {"ShuttingDown", "DeadComponent"}

\* Head of the loop.  Another task can only store ShuttingDown between the
\* load and the store, so the two are one step.
MainCheck ==
    /\ mainPc = "check"
    /\ \/ /\ IsDying
          /\ MainCheck_Store
          /\ mainPc' = "notifyClosing"
       \/ /\ ~IsDying
          /\ mainPc' = "probe"
          /\ UNCHANGED containerState
    /\ UNCHANGED <<mainRx, consoleOpen, mainHand, mainAttempts, notified>>
    /\ UNCHANGED <<componentVars, watchdogPc, brokerVars, clientVars, serverVars>>

MainProbe ==
    /\ mainPc = "probe"
    /\ \/ /\ ~ComponentOpen
          /\ Store("DeadComponent")
          /\ mainPc' = "notifyDead"
       \/ /\ ComponentOpen
          /\ mainPc' = "select"
          /\ UNCHANGED containerState
    /\ UNCHANGED <<mainRx, consoleOpen, mainHand, mainAttempts, notified>>
    /\ UNCHANGED <<componentVars, watchdogPc, brokerVars, clientVars, serverVars>>

AfterNotify_NoCheck == [notifyClosing  |-> "sleep",
                        notifyClosed   |-> "done",
                        notifyDead     |-> "select",
                        notifyShutdown |-> "select",
                        notifySystem   |-> "joining"]

\* Where the main loop goes on after each of its calls of notify_waiters.
AfterNotify == [notifyClosing  |-> "sleep",
                notifyClosed   |-> "done",
                notifyDead     |-> "select",
                notifyShutdown |-> "check",
                notifySystem   |-> "joining"]

MainNotifies ==
    /\ mainPc \in DOMAIN AfterNotify
    /\ mainPc' = AfterNotify[mainPc]
    /\ NotifyWaiters
    /\ IF mainPc = "notifySystem" THEN ShutdownBroker ELSE UNCHANGED brokerVars
    /\ UNCHANGED <<mainRx, consoleOpen, mainHand, mainAttempts, containerState>>
    /\ UNCHANGED <<componentVars, watchdogPc, clientVars, serverVars>>

MainSleepEnds_Reset ==
    /\ mainPc = "sleep"
    /\ mainPc' = "notifyClosed"
    /\ Store("Running")
    /\ UNCHANGED <<mainRx, consoleOpen, mainHand, mainAttempts, notified>>
    /\ UNCHANGED <<componentVars, watchdogPc, brokerVars, clientVars, serverVars>>

MainSleepEnds ==
    /\ mainPc = "sleep"
    /\ mainPc' = "notifyClosed"
    /\ Store("Closed")
    /\ UNCHANGED <<mainRx, consoleOpen, mainHand, mainAttempts, notified>>
    /\ UNCHANGED <<componentVars, watchdogPc, brokerVars, clientVars, serverVars>>

\* process_incoming_message up to its first await.  A heartbeat goes to its
\* task by try_send and changes nothing here.
Receive(m) ==
    \/ /\ m \in Heartbeat \cup Unmapped
       /\ mainPc' = "check"
       /\ UNCHANGED <<mainHand, brokerVars, containerState>>
    \/ /\ m = Shutdown
       /\ Store("ShuttingDown")
       /\ mainPc' = "notifyShutdown"
       /\ UNCHANGED <<mainHand, brokerVars>>
    \/ /\ m = SystemShutdown
       /\ ForwardShutdown(m)
       /\ mainPc' = "forwarding"
       /\ UNCHANGED <<mainHand, containerState>>
    \/ /\ m \in App
       /\ mainPc' = "toComponent"
       /\ mainHand' = <<m>>
       /\ UNCHANGED <<brokerVars, containerState>>

MainFromConsole ==
    /\ mainPc = "select"
    /\ mainRx # <<>>
    /\ mainRx' = Tail(mainRx)
    /\ Receive(Head(mainRx))
    /\ UNCHANGED <<consoleOpen, mainAttempts, notified>>
    /\ UNCHANGED <<componentVars, watchdogPc, clientVars, serverVars>>

MainFromServer ==
    /\ mainPc = "select"
    /\ TakeFromServer
    /\ Receive(Head(serverRx))
    /\ UNCHANGED <<mainRx, consoleOpen, mainAttempts, notified>>
    /\ UNCHANGED <<componentVars, watchdogPc, clientVars>>

MainFromComponent ==
    /\ mainPc = "select"
    /\ componentOut # <<>>
    /\ componentOut' = Tail(componentOut)
    /\ HandleMessage(Head(componentOut).targets, Head(componentOut).message)
    /\ mainPc' = "handling"
    /\ UNCHANGED <<componentPc, componentIn, componentHand, componentAttempts>>
    /\ UNCHANGED <<mainRx, consoleOpen, mainHand, mainAttempts>>
    /\ UNCHANGED <<watchdogPc, clientVars, serverVars, stateVars>>

\* Each recv returns None when the channel is empty and its senders are gone,
\* and disables its branch; select! without an else panics when none is left.
MainPanics ==
    /\ mainPc = "select"
    /\ mainRx = <<>> /\ ~consoleOpen
    /\ serverRx = <<>> /\ serverPc \in {"done", "failed"}
    /\ componentOut = <<>> /\ ~ComponentOpen
    /\ mainPc' = "panicked"
    /\ UNCHANGED <<mainRx, consoleOpen, mainHand, mainAttempts>>
    /\ UNCHANGED <<componentVars, watchdogPc, brokerVars, clientVars, serverVars, stateVars>>

\* One attempt of add_to_tx_with_retry towards the component.
MainToComponent ==
    /\ mainPc = "toComponent"
    /\ LET try == Attempt(componentIn, ComponentOpen, Head(mainHand), mainAttempts)
       IN /\ componentIn' = try.queue
          /\ mainAttempts' = try.attempts
          /\ \/ try.returns /\ mainPc' = "check" /\ mainHand' = <<>>
             \/ ~try.returns /\ UNCHANGED <<mainPc, mainHand>>
    /\ UNCHANGED <<mainRx, consoleOpen, componentPc, componentHand, componentAttempts,
                   componentOut>>
    /\ UNCHANGED <<watchdogPc, brokerVars, clientVars, serverVars, stateVars>>

\* The method of the broker has returned.
MainFromBroker ==
    /\ brokerPc = "idle"
    /\ \/ /\ mainPc \in {"handling", "joining"}
          /\ mainPc' = "check"
          /\ UNCHANGED containerState
       \/ /\ mainPc = "forwarding"
          /\ mainPc' = "notifySystem"
          /\ Store("ShuttingDown")
    /\ UNCHANGED <<mainRx, consoleOpen, mainHand, mainAttempts, notified>>
    /\ UNCHANGED <<componentVars, watchdogPc, brokerVars, clientVars, serverVars>>

MainStep == \/ MainCheck \/ MainProbe \/ MainNotifies \/ MainSleepEnds
            \/ MainFromConsole \/ MainFromServer \/ MainFromComponent
            \/ MainPanics \/ MainToComponent \/ MainFromBroker
-----------------------------------------------------------------------------
\* The component, after the example that documents the Run trait
\* (traits.rs:72-100): it handles a message at a time and stops when it is
\* notified of the shutdown.

ComponentStarts ==
    /\ componentPc = "start"
    /\ componentPc' = "select"
    /\ Listen(ComponentTask)
    /\ UNCHANGED <<componentIn, componentHand, componentAttempts, componentOut>>
    /\ UNCHANGED <<mainVars, watchdogPc, brokerVars, clientVars, serverVars, containerState>>

ComponentRecv ==
    /\ componentPc = "select"
    /\ componentIn # <<>>
    /\ componentIn' = Tail(componentIn)
    /\ \/ /\ Listen(ComponentTask)
          /\ UNCHANGED <<componentPc, componentHand>>
       \/ /\ \E r \in Result : componentHand' = <<r>>
          /\ componentPc' = "sending"
          /\ StopListening(ComponentTask)
    /\ UNCHANGED <<componentAttempts, componentOut>>
    /\ UNCHANGED <<mainVars, watchdogPc, brokerVars, clientVars, serverVars, containerState>>

ComponentSend ==
    /\ componentPc = "sending"
    /\ LET try == Attempt(componentOut, TRUE, Head(componentHand), componentAttempts)
       IN /\ componentOut' = try.queue
          /\ componentAttempts' = try.attempts
          /\ \/ /\ try.returns
                /\ componentPc' = "select"
                /\ componentHand' = <<>>
                /\ Listen(ComponentTask)
             \/ /\ ~try.returns
                /\ UNCHANGED <<componentPc, componentHand, notified>>
    /\ UNCHANGED <<componentIn, mainVars, watchdogPc, brokerVars, clientVars, serverVars,
                   containerState>>

\* run returns or panics: both ends of its channels are dropped.
ComponentEnds ==
    /\ componentPc' = "finished"
    /\ componentIn' = <<>>
    /\ componentHand' = <<>>
    /\ componentAttempts' = 0
    /\ StopListening(ComponentTask)
    /\ UNCHANGED <<componentOut, mainVars, watchdogPc, brokerVars, clientVars, serverVars,
                   containerState>>

ComponentNotified ==
    /\ componentPc = "select"
    /\ notified[ComponentTask] = "woken"
    /\ \/ /\ containerState = "ShuttingDown"
          /\ ComponentEnds
       \/ /\ containerState # "ShuttingDown"
          /\ Listen(ComponentTask)
          /\ UNCHANGED <<componentVars, mainVars, watchdogPc, brokerVars, clientVars,
                         serverVars, containerState>>

ComponentDies == ComponentOpen /\ ComponentEnds

ComponentStep == ComponentStarts \/ ComponentRecv \/ ComponentSend \/ ComponentNotified
-----------------------------------------------------------------------------
\* ShutdownOnTimeout::on_timeout, called by the watchdog of the receiver for
\* as long as no request arrives, whatever the state of the container.
WatchdogFires ==
    /\ watchdogPc = "waiting"
    /\ watchdogPc' = "notify"
    /\ Store("ShuttingDown")
    /\ UNCHANGED <<mainVars, componentVars, brokerVars, clientVars, serverVars, notified>>

WatchdogNotifies ==
    /\ watchdogPc = "notify"
    /\ watchdogPc' = "waiting"
    /\ NotifyWaiters
    /\ UNCHANGED <<mainVars, componentVars, brokerVars, clientVars, serverVars,
                   containerState>>

\* The console task of main.rs.
ConsoleSend(m) ==
    /\ consoleOpen
    /\ HasRoom(mainRx)
    /\ mainRx' = Append(mainRx, m)
    /\ UNCHANGED <<mainPc, consoleOpen, mainHand, mainAttempts>>
    /\ UNCHANGED <<componentVars, watchdogPc, brokerVars, clientVars, serverVars, stateVars>>

ConsoleCloses ==
    /\ consoleOpen
    /\ consoleOpen' = FALSE
    /\ UNCHANGED <<mainPc, mainRx, mainHand, mainAttempts>>
    /\ UNCHANGED <<componentVars, watchdogPc, brokerVars, clientVars, serverVars, stateVars>>

BrokerTask == BrokerStep /\ UNCHANGED <<mainVars, componentVars, watchdogPc, serverVars>>

ClientTasks == /\ \E c \in Clients : ClientStep(c)
               /\ UNCHANGED <<mainVars, componentVars, watchdogPc, brokerVars, serverVars>>

ServerTasks == /\ AcceptStep \/ \E p \in Peers : HandlerStep(p)
               /\ UNCHANGED <<mainVars, componentVars, watchdogPc, brokerVars, clientVars>>

\* The container's own tasks, and what comes from outside.
ContainerStep == \/ MainStep \/ ComponentStep \/ WatchdogNotifies
                 \/ BrokerTask \/ ClientTasks \/ ServerTasks

ConsoleInput == \E m \in Directive \cup App : ConsoleSend(m)

StreamInput == /\ \E c \in Clients : StreamBreaks(c)
               /\ UNCHANGED <<mainVars, componentVars, watchdogPc, brokerVars, serverVars>>

HeartbeatInput == /\ \E c \in Clients : HeartbeatTrySend(c)
                  /\ UNCHANGED <<mainVars, componentVars, watchdogPc, brokerVars, serverVars>>

PeerInput == /\ \E p \in Peers : PeerLeaves(p) \/ \E f \in Frame : PeerSend(p, f)
             /\ UNCHANGED <<mainVars, componentVars, watchdogPc, brokerVars, clientVars>>

ContainerInput == \/ ConsoleInput \/ ConsoleCloses \/ ComponentDies \/ WatchdogFires
                  \/ StreamInput \/ HeartbeatInput \/ PeerInput

ContainerNext == ContainerStep \/ ContainerInput

ContainerSpec == ContainerInit /\ [][ContainerNext]_containerVars

\* Every task of the container is scheduled and its sleeps end.  select!
\* polls its branches in random order, so a branch that is ready again and
\* again is taken.  Peers, console, component and watchdog owe nothing.
MainRuns == \/ MainCheck \/ MainProbe \/ MainNotifies \/ MainSleepEnds
            \/ MainToComponent \/ MainFromBroker

ContainerFairness ==
    /\ WF_containerVars(MainRuns)
    /\ SF_containerVars(MainFromConsole)
    /\ SF_containerVars(MainFromServer)
    /\ SF_containerVars(MainFromComponent)
    /\ WF_containerVars(ComponentStarts \/ ComponentSend)
    /\ SF_containerVars(ComponentNotified)
    /\ WF_containerVars(WatchdogNotifies)
    /\ BrokerFairness /\ ClientFairness /\ ServerFairness
-----------------------------------------------------------------------------
MainPcs == {"check", "probe", "select", "toComponent", "handling", "forwarding",
            "joining", "sleep", "done", "panicked"} \cup DOMAIN AfterNotify

ContainerTypeOK ==
    /\ mainPc \in MainPcs
    /\ mainRx \in Seq(Message)
    /\ consoleOpen \in BOOLEAN
    /\ mainHand \in AtMostOne(App)
    /\ mainAttempts \in 0 .. MaxAttempts - 1
    /\ componentPc \in {"start", "select", "sending", "finished"}
    /\ componentIn \in Seq(App)
    /\ componentHand \in AtMostOne(Result)
    /\ componentAttempts \in 0 .. MaxAttempts - 1
    /\ componentOut \in Seq(Result)
    /\ watchdogPc \in {"waiting", "notify"}

\* While run waits for the others to stop, nobody takes the announcement
\* back: whoever checks the state in those three seconds finds ShuttingDown,
\* whichever of the writers started the shutdown.
ClosingIsAnnounced ==
    mainPc \in {"notifyClosing", "sleep"} => containerState = "ShuttingDown"

\* The main loop is in a method of the broker exactly when the broker is, and
\* after a system shutdown it leaves its loop only when no client is left.
SystemShutdownStopsClients ==
    /\ brokerPc # "idle" => mainPc = brokerPc
    /\ ~messagingActive /\ mainPc \in {"check", "notifyClosing", "sleep",
                                       "notifyClosed", "done"}
          => \A c \in Clients : clientPc[c] = "done"

\* The tasks of the container treat the clients and the server as their
\* specifications allow.
ImplementsServerSpec == ServerSpec

\* A Shutdown directive from the console closes the container, however busy
\* the main loop is with its component and its clients when it arrives.  (The
\* run that checks it has no peers.)  The exceptions are a system shutdown
\* under way and the panic of select!.
ShutdownDirectiveCloses ==
    (\E i \in 1..Len(mainRx) : mainRx[i] = Shutdown)
        ~> mainPc \in {"done", "panicked"} \/ mainPc = "joining"

\* The main loop sleeps in select! through the death of its component and
\* through a state that another task stores, but the next message wakes it:
\* once the state is not Running any more, a message is enough.  (In the run
\* that checks it the state is stored because of a death or a directive; there
\* is no watchdog and no peer.)
NextMessageCloses ==
    containerState # "Running" /\ mainRx # <<>>
        ~> mainPc \in {"done", "panicked", "joining"}

\* No call the main loop makes on behalf of one message keeps it for ever:
\* it comes back to the head of the loop or stops.
MainLoopComesBack ==
    mainPc \in {"toComponent", "handling", "forwarding"}
        ~> mainPc \in {"check", "joining"}
-----------------------------------------------------------------------------
\* "Server will set state to shutdown if it fails"
\* (hyperion_container_factory.rs:133): a server that has failed takes the
\* container out of the running state.
ServerFailureIsAnnounced == serverPc = "failed" ~> containerState # "Running"

\* "Expect Closed state within a reasonable time" after a system shutdown
\* (hyperion_container_tests.rs:218): the main loop, which waits for the
\* clients to finish, gets to the end of its wait.
SystemShutdownEnds == mainPc = "joining" ~> mainPc # "joining"

\* ShutdownOnTimeout "initiates a graceful container shutdown"
\* (handler.rs:75): after it has fired, run comes to its end.
TimeoutClosesContainer == watchdogPc = "notify" ~> mainPc \in {"done", "panicked"}

\* "Container is closed and cannot be restarted" (container_state.rs:33):
\* Closed is the last state a container is ever in.
ClosedIsFinal == [][containerState = "Closed" => containerState' = "Closed"]_containerState
=============================================================================
