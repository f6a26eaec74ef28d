--------------------------- MODULE ContainerProofs ---------------------------
(***************************************************************************)
(* Theorems about module HyperionContainer: the main loop with its server, *)
(* broker, clients, component and watchdog, for any topology, messages and *)
(* limits.                                                                 *)
(***************************************************************************)
EXTENDS HyperionContainer, BrokerProofs, ServerProofs

\* The main loop holds a message exactly while it passes it to the component,
\* and the component exactly while it passes a result to the main loop.
HandsFull == /\ mainPc = "toComponent" <=> mainHand # <<>>
             /\ componentPc = "sending" <=> componentHand # <<>>

BrokerFollowsMain == brokerPc # "idle" => mainPc = brokerPc

ClientsDone == \A c \in Clients : clientPc[c] = "done"

\* Messaging is switched off at the end of forward_shutdown, and until the
\* main loop has joined the clients it does nothing else.
InactiveUntilJoined ==
    ~messagingActive => \/ ClientsDone
                        \/ mainPc = "forwarding" /\ brokerPc = "idle"
                        \/ mainPc = "notifySystem"
                        \/ mainPc = "joining" /\ brokerPc = "joining"

\* What the main loop and its neighbours add to the invariants of the parts.
MainInv == /\ ContainerTypeOK /\ HandsFull /\ BrokerFollowsMain
           /\ ClosingIsAnnounced /\ InactiveUntilJoined

\* The inductive invariant.
ContainerInv == ClientInv /\ ServerInv /\ BrokerInv /\ MainInv

LEMMA AfterNotifyValues ==
    /\ DOMAIN AfterNotify = {"notifyClosing", "notifyClosed", "notifyDead",
                             "notifyShutdown", "notifySystem"}
    /\ AfterNotify["notifyClosing"] = "sleep"
    /\ AfterNotify["notifyClosed"] = "done"
    /\ AfterNotify["notifyDead"] = "select"
    /\ AfterNotify["notifyShutdown"] = "check"
    /\ AfterNotify["notifySystem"] = "joining"
BY DEF AfterNotify

LEMMA ContainerInitInv == ContainerInit => ContainerInv
<1> SUFFICES ASSUME ContainerInit PROVE ContainerInv
  OBVIOUS
<1>1. ClientInv /\ ServerInv /\ BrokerInv
  BY ClientInitInv, ServerInitInv, BrokerInitInv DEF ContainerInit
<1>2. consoleOpen \in BOOLEAN
  BY Zenon DEF ContainerInit, MainInit
<1>3. ContainerTypeOK
  BY <1>2, AtMostOneProperties, TxSenderAssumption
  DEF ContainerInit, MainInit, ComponentInit, ContainerTypeOK, MainPcs
<1>4. HandsFull /\ BrokerFollowsMain /\ ClosingIsAnnounced
  BY DEF ContainerInit, MainInit, ComponentInit, BrokerInit, HandsFull, BrokerFollowsMain,
         ClosingIsAnnounced
<1>5. InactiveUntilJoined
  BY DEF ContainerInit, BrokerInit, InactiveUntilJoined
<1> QED BY <1>1, <1>3, <1>4, <1>5 DEF ContainerInv, MainInv
-----------------------------------------------------------------------------
\* What one task of the container does to the others' variables.

\* The calls the main loop makes to the broker.
BrokerCall == \/ UNCHANGED brokerVars
              \/ ShutdownBroker
              \/ ForwardShutdown(SystemShutdown)
              \/ \E r \in Result : HandleMessage(r.targets, r.message)

\* The main loop and the watchdog store states and notify.
StoreOrNotify == \/ UNCHANGED stateVars
                 \/ /\ \E s \in {"DeadComponent", "ShuttingDown", "Closed"} : Store(s)
                    /\ UNCHANGED notified
                 \/ NotifyWaiters /\ UNCHANGED containerState

\* The component waits for the notification.
ComponentListens == \/ UNCHANGED stateVars
                    \/ /\ Listen(ComponentTask) \/ StopListening(ComponentTask)
                       /\ UNCHANGED containerState

LEMMA ReceiveEffect ==
    ASSUME NEW m, Receive(m)
    PROVE  /\ BrokerCall
           /\ containerState' \in {containerState, "ShuttingDown"}
BY DEF Receive, BrokerCall, Store

LEMMA MainStepEffect ==
    ASSUME ContainerTypeOK, MainStep
    PROVE  /\ UNCHANGED <<clientVars, watchdogPc>>
           /\ BrokerCall
           /\ \/ UNCHANGED serverVars /\ StoreOrNotify
              \/ TakeFromServer /\ MainStoresAtOnce
<1>1. CASE MainCheck
  BY <1>1 DEF MainCheck, MainCheck_Store, BrokerCall, StoreOrNotify, stateVars, Store
<1>2. CASE MainProbe
  BY <1>2 DEF MainProbe, BrokerCall, StoreOrNotify, stateVars
<1>3. CASE MainNotifies
  BY <1>3 DEF MainNotifies, BrokerCall, StoreOrNotify
<1>4. CASE MainSleepEnds
  BY <1>4 DEF MainSleepEnds, BrokerCall, StoreOrNotify
<1>5. CASE MainFromConsole
  <2>1. /\ BrokerCall /\ containerState' \in {containerState, "ShuttingDown"}
        /\ UNCHANGED <<notified, clientVars, watchdogPc, serverVars>>
    BY <1>5, ReceiveEffect DEF MainFromConsole
  <2> QED BY <2>1 DEF StoreOrNotify, stateVars, Store
<1>6. CASE MainFromServer
  <2>1. /\ BrokerCall /\ containerState' \in {containerState, "ShuttingDown"}
        /\ UNCHANGED <<notified, clientVars, watchdogPc>> /\ TakeFromServer
    BY <1>6, ReceiveEffect DEF MainFromServer
  <2> QED BY <2>1 DEF MainStoresAtOnce
<1>7. CASE MainFromComponent
  <2>1. Head(componentOut) \in Result
    BY <1>7, HeadTailProperties DEF MainFromComponent, ContainerTypeOK
  <2> QED BY <1>7, <2>1 DEF MainFromComponent, BrokerCall, StoreOrNotify
<1>8. CASE MainPanics
  BY <1>8 DEF MainPanics, BrokerCall, StoreOrNotify
<1>9. CASE MainToComponent
  BY <1>9 DEF MainToComponent, BrokerCall, StoreOrNotify
<1>10. CASE MainFromBroker
  BY <1>10 DEF MainFromBroker, BrokerCall, StoreOrNotify, stateVars
<1> QED BY <1>1, <1>2, <1>3, <1>4, <1>5, <1>6, <1>7, <1>8, <1>9, <1>10 DEF MainStep

LEMMA ComponentEffect ==
    ASSUME ComponentStep \/ ComponentDies
    PROVE  /\ ComponentListens
           /\ UNCHANGED <<mainVars, watchdogPc, brokerVars, clientVars, serverVars>>
<1>1. CASE ComponentStarts
  BY <1>1 DEF ComponentStarts, ComponentListens
<1>2. CASE ComponentRecv
  BY <1>2 DEF ComponentRecv, ComponentListens
<1>3. CASE ComponentSend
  <2>1. /\ Listen(ComponentTask) \/ UNCHANGED notified
        /\ UNCHANGED <<mainVars, watchdogPc, brokerVars, clientVars, serverVars,
                       containerState>>
    BY <1>3 DEF ComponentSend
  <2> QED BY <2>1 DEF ComponentListens, stateVars
<1>4. CASE ComponentNotified \/ ComponentDies
  BY <1>4 DEF ComponentNotified, ComponentDies, ComponentEnds, ComponentListens
<1> QED BY <1>1, <1>2, <1>3, <1>4 DEF ComponentStep

LEMMA WatchdogEffect ==
    ASSUME WatchdogFires \/ WatchdogNotifies
    PROVE  /\ StoreOrNotify /\ containerState' \in {containerState, "ShuttingDown"}
           /\ watchdogPc' \in {"waiting", "notify"}
           /\ UNCHANGED <<mainVars, componentVars, brokerVars, clientVars, serverVars>>
BY DEF WatchdogFires, WatchdogNotifies, StoreOrNotify, Store

LEMMA ConsoleEffect ==
    ASSUME ConsoleInput \/ ConsoleCloses
    PROVE  /\ UNCHANGED <<mainPc, mainHand, mainAttempts, componentVars, watchdogPc,
                          brokerVars, clientVars, serverVars, stateVars>>
           /\ \/ consoleOpen' = consoleOpen /\ \E m \in Message : mainRx' = Append(mainRx, m)
              \/ consoleOpen' = FALSE /\ mainRx' = mainRx
<1>1. Directive \cup App \subseteq Message
  BY BrokerAssumption, ContainerAssumption DEF Directive, App
<1> QED BY <1>1 DEF ConsoleInput, ConsoleSend, ConsoleCloses
-----------------------------------------------------------------------------
\* To the clients and to the server the rest of the container is what their
\* specifications call the other tasks.
LEMMA OthersForClients ==
    ASSUME StoreOrNotify \/ ComponentListens \/ MainStoresAtOnce, UNCHANGED clientVars
    PROVE  [ClientNext]_allClientVars
<1>1. ComponentTask \in Listeners \ Clients
  BY ContainerAssumption
<1>2. UNCHANGED stateVars \/ OthersAct(Clients)
  BY <1>1 DEF StoreOrNotify, ComponentListens, MainStoresAtOnce, OthersAct, Store, stateVars
<1> QED BY <1>2 DEF ClientNext, OtherTask, allClientVars

LEMMA OthersForServer ==
    ASSUME StoreOrNotify \/ ComponentListens, UNCHANGED serverVars
    PROVE  [ServerNext]_allServerVars
<1>1. ComponentTask \in Listeners \ {ServerTask}
  BY ContainerAssumption
<1>2. UNCHANGED stateVars \/ OthersAct({ServerTask})
  BY <1>1 DEF StoreOrNotify, ComponentListens, OthersAct, stateVars
<1> QED BY <1>2 DEF ServerNext, allServerVars

\* What a client does to the shared state.
LEMMA ClientForServer ==
    ASSUME NEW c \in Clients, UNCHANGED serverVars,
           ClientStep(c) \/ StreamBreaks(c) \/ HeartbeatTrySend(c)
    PROVE  UNCHANGED containerState /\ [ServerNext]_allServerVars
<1>1. c \in Listeners \ {ServerTask}
  BY ClientAssumption, ContainerAssumption
<1>2. /\ UNCHANGED containerState
      /\ UNCHANGED notified \/ Listen(c) \/ StopListening(c)
  <2>1. CASE ClientStep(c)
    <3> USE DEF stateVars
    <3>1. CASE ClientCheck(c) \/ ClientConnectErr(c) \/ ClientBackoffEnd(c)
               \/ ClientWriteErr(c)
      BY <3>1 DEF ClientCheck, ClientConnectErr, ClientBackoffEnd, ClientWriteErr
    <3>2. CASE ClientConnectOk(c) \/ ClientRecv(c) \/ ClientWriteOk(c)
               \/ ClientWriteBackoffEnd(c) \/ ClientNotified(c)
      BY <3>2 DEF ClientConnectOk, ClientRecv, ClientWriteOk, ClientWriteBackoffEnd,
                  ClientNotified
    <3> QED BY <2>1, <3>1, <3>2 DEF ClientStep
  <2>2. CASE StreamBreaks(c) \/ HeartbeatTrySend(c)
    BY <2>2 DEF StreamBreaks, HeartbeatTrySend, Submit, stateVars
  <2> QED BY <2>1, <2>2
<1>3. UNCHANGED stateVars \/ OthersAct({ServerTask})
  BY <1>1, <1>2 DEF OthersAct, stateVars
<1> QED BY <1>2, <1>3 DEF ServerNext, allServerVars

\* What the server does to it.
LEMMA ServerForClients ==
    ASSUME ServerTasks \/ PeerInput
    PROVE  /\ containerState' \in {containerState, "ShuttingDown"}
           /\ [ClientNext]_allClientVars
           /\ [ServerNext]_allServerVars
<1>1. ServerTask \in Listeners \ Clients
  BY ServerAssumption, ContainerAssumption
<1>2. UNCHANGED clientVars
  BY DEF ServerTasks, PeerInput
<1>3. CASE AcceptStep
  <2>1. \/ UNCHANGED stateVars
        \/ Store("ShuttingDown") /\ UNCHANGED notified
        \/ /\ NotifyWaiters \/ Listen(ServerTask) \/ StopListening(ServerTask)
           /\ UNCHANGED containerState
    BY <1>3 DEF AcceptStep, ServerBindOk, ServerBindErr, ServerAcceptOk, ServerAcceptErr,
                ServerNotified, ServerJoined, ServerNotifies
  <2>2. UNCHANGED stateVars \/ OthersAct(Clients)
    BY <1>1, <2>1 DEF OthersAct
  <2> QED BY <1>2, <1>3, <2>1, <2>2
          DEF Store, stateVars, ServerNext, ClientNext, OtherTask, allClientVars
<1>4. ASSUME NEW p \in Peers,
             \/ HandlerStep(p) \/ PeerLeaves(p)
             \/ \E f \in Frame : PeerSend(p, f)
      PROVE  UNCHANGED stateVars /\ ServerNext
  <2>1. UNCHANGED stateVars
    BY <1>4 DEF HandlerStep, HandlerRead, HandlerSend, HandlerEnds, PeerLeaves, PeerSend,
                stateVars
  <2> QED BY <1>4, <2>1 DEF ServerNext
<1> QED BY <1>2, <1>3, <1>4 DEF ServerTasks, PeerInput, stateVars, allClientVars

LEMMA ContainerNextSplit ==
    ASSUME ContainerInv, [ContainerNext]_containerVars
    PROVE  \/ MainStep
           \/ ComponentStep \/ ComponentDies
           \/ WatchdogFires \/ WatchdogNotifies
           \/ ConsoleInput \/ ConsoleCloses
           \/ BrokerTask
           \/ \E c \in Clients :
                 /\ ClientStep(c) \/ StreamBreaks(c) \/ HeartbeatTrySend(c)
                 /\ UNCHANGED <<mainVars, componentVars, watchdogPc, brokerVars, serverVars>>
           \/ ServerTasks \/ PeerInput
           \/ UNCHANGED containerVars
BY DEF ContainerNext, ContainerStep, ContainerInput, ClientTasks, StreamInput, HeartbeatInput

\* Each step of the container is one the clients know, and one the server
\* knows.
LEMMA ContainerNextForParts ==
    ASSUME ContainerInv, [ContainerNext]_containerVars
    PROVE  [ClientNext]_allClientVars /\ [ServerNext]_allServerVars
<1> USE DEF ContainerInv
<1>1. CASE MainStep
  <2>1. /\ UNCHANGED clientVars
        /\ \/ UNCHANGED serverVars /\ StoreOrNotify
           \/ TakeFromServer /\ MainStoresAtOnce
    BY <1>1, MainStepEffect DEF MainInv
  <2>2. [ClientNext]_allClientVars
    BY <2>1, OthersForClients
  <2>3. [ServerNext]_allServerVars
    BY <2>1, OthersForServer DEF ServerNext
  <2> QED BY <2>2, <2>3
<1>2. CASE ComponentStep \/ ComponentDies
  BY <1>2, ComponentEffect, OthersForClients, OthersForServer
<1>3. CASE WatchdogFires \/ WatchdogNotifies
  BY <1>3, WatchdogEffect, OthersForClients, OthersForServer
<1>4. CASE ConsoleInput \/ ConsoleCloses
  BY <1>4, ConsoleEffect DEF allClientVars, allServerVars
<1>5. CASE BrokerTask
  <2>1. BrokerStep /\ UNCHANGED serverVars
    BY <1>5 DEF BrokerTask
  <2>2. UNCHANGED stateVars
    BY <2>1 DEF BrokerStep, HandleTarget, HandleReturns, ForwardSend, ForwardReturns,
                ShutdownReturns
  <2>3. [ClientNext]_allClientVars
    BY <2>1, BrokerStepIsClientStep
  <2> QED BY <2>1, <2>2, <2>3 DEF allServerVars
<1>6. ASSUME NEW c \in Clients, UNCHANGED serverVars,
             ClientStep(c) \/ StreamBreaks(c) \/ HeartbeatTrySend(c)
      PROVE  [ClientNext]_allClientVars /\ [ServerNext]_allServerVars
  <2>1. ClientNext
    BY <1>6, BrokerAssumption DEF ClientNext, HeartbeatTrySend
  <2> QED BY <1>6, <2>1, ClientForServer
<1>7. CASE ServerTasks \/ PeerInput
  BY <1>7, ServerForClients
<1>8. CASE UNCHANGED containerVars
  BY <1>8 DEF containerVars, allClientVars, allServerVars
<1> QED BY <1>1, <1>2, <1>3, <1>4, <1>5, <1>6, <1>7, <1>8, ContainerNextSplit
-----------------------------------------------------------------------------
\* The invariant of the broker, whose methods run inside the main loop.
LEMMA BrokerCallInv ==
    ASSUME BrokerInv, UNCHANGED clientVars, BrokerCall
    PROVE  BrokerInv'
<1>1. CASE UNCHANGED brokerVars
  BY <1>1, SentKeepsInv DEF clientVars
<1>2. ASSUME NEW r \in Result, HandleMessage(r.targets, r.message) PROVE BrokerInv'
  <2>1. /\ r.targets \in TargetLists
        /\ r.message \in Message \ (Heartbeat \cup {SystemShutdown})
    BY DEF Result, App, Directive
  <2> QED BY <1>2, <2>1, HandleMessageBrokerInv
<1> QED BY <1>1, <1>2, ShutdownBrokerInv, ForwardShutdownBrokerInv DEF BrokerCall

LEMMA ContainerNextBrokerInv ==
    ASSUME ContainerInv, [ContainerNext]_containerVars
    PROVE  BrokerInv'
<1> USE DEF ContainerInv
<1>1. CASE MainStep
  BY <1>1, MainStepEffect, BrokerCallInv DEF MainInv
<1>2. CASE UNCHANGED <<brokerVars, clientVars>>
  BY <1>2, SentKeepsInv DEF clientVars
<1>3. CASE BrokerTask
  BY <1>3, BrokerStepInv DEF BrokerTask
<1>4. ASSUME NEW c \in Clients, UNCHANGED brokerVars,
             ClientStep(c) \/ StreamBreaks(c) \/ HeartbeatTrySend(c)
      PROVE  BrokerInv'
  <2>1. CASE StreamBreaks(c)
    BY <1>4, <2>1, SentKeepsInv DEF StreamBreaks
  <2> QED BY <1>4, <2>1, ClientStepBrokerInv, HeartbeatBrokerInv
<1> QED BY <1>1, <1>2, <1>3, <1>4, ContainerNextSplit, ComponentEffect, WatchdogEffect,
           ConsoleEffect
        DEF ServerTasks, PeerInput, containerVars
-----------------------------------------------------------------------------
\* A client that has returned does not come back.
LEMMA DoneIsStable ==
    ASSUME ClientInv, [ClientNext]_allClientVars, ClientsDone
    PROVE  ClientsDone'
<1>1. ASSUME NEW c \in Clients, ClientStep(c) PROVE FALSE
  BY <1>1, ClientStepMoves DEF ClientsDone
<1>2. UNCHANGED clientPc
  BY <1>1 DEF ClientNext, StreamBreaks, Submit, OtherTask, allClientVars, clientVars
<1> QED BY <1>2 DEF ClientsDone

\* The tasks around the main loop leave its place in the shutdown alone.
LEMMA ControlKept ==
    ASSUME ContainerInv, [ClientNext]_allClientVars,
           UNCHANGED <<mainPc, brokerPc, messagingActive>>,
           containerState' \in {containerState, "ShuttingDown"}
    PROVE  BrokerFollowsMain' /\ ClosingIsAnnounced' /\ InactiveUntilJoined'
<1>1. BrokerFollowsMain'
  BY DEF ContainerInv, MainInv, BrokerFollowsMain
<1>2. ClosingIsAnnounced'
  BY DEF ContainerInv, MainInv, ClosingIsAnnounced
<1>3. ClientsDone => ClientsDone'
  BY DoneIsStable DEF ContainerInv
<1>4. InactiveUntilJoined'
  BY <1>3 DEF ContainerInv, MainInv, InactiveUntilJoined
<1> QED BY <1>1, <1>2, <1>4

\* A task that neither the main loop nor the component takes part in.
LEMMA OthersKeepMainInv ==
    ASSUME ContainerInv, [ClientNext]_allClientVars,
           UNCHANGED <<mainVars, componentVars, brokerPc, messagingActive>>,
           watchdogPc' \in {"waiting", "notify"},
           containerState' \in {containerState, "ShuttingDown"}
    PROVE  MainInv'
<1>1. BrokerFollowsMain' /\ ClosingIsAnnounced' /\ InactiveUntilJoined'
  BY ControlKept DEF mainVars
<1>2. HandsFull'
  BY DEF ContainerInv, MainInv, HandsFull, mainVars, componentVars
<1>3. ContainerTypeOK'
  BY DEF ContainerInv, MainInv, ContainerTypeOK, mainVars, componentVars
<1> QED BY <1>1, <1>2, <1>3 DEF MainInv

LEMMA BrokerTaskMainInv ==
    ASSUME ContainerInv, BrokerTask
    PROVE  MainInv'
<1> USE DEF ContainerInv, MainInv
<1>1. BrokerStep /\ UNCHANGED <<mainVars, componentVars, watchdogPc>>
  BY DEF BrokerTask
<1>2. UNCHANGED <<clientPc, containerState>>
  BY <1>1 DEF BrokerStep, HandleTarget, HandleReturns, ForwardSend, ForwardReturns,
              ShutdownReturns, ClientsRest, clientVars, stateVars
<1>3. HandsFull' /\ ContainerTypeOK' /\ ClosingIsAnnounced'
  BY <1>1, <1>2 DEF HandsFull, ContainerTypeOK, ClosingIsAnnounced, mainVars, componentVars
<1>4. BrokerFollowsMain'
  BY <1>1 DEF BrokerStep, HandleTarget, HandleReturns, ForwardSend, ForwardReturns,
              ShutdownReturns, BrokerFollowsMain, mainVars
<1>5. InactiveUntilJoined'
  <2>1. ClientsDone' <=> ClientsDone
    BY <1>2 DEF ClientsDone
  <2>2. mainPc' = mainPc
    BY <1>1 DEF mainVars
  <2>3. CASE HandleTarget \/ ForwardSend
    BY <2>1, <2>2, <2>3 DEF HandleTarget, ForwardSend, InactiveUntilJoined
  <2>4. CASE HandleReturns
    BY <2>1, <2>2, <2>4 DEF HandleReturns, InactiveUntilJoined
  <2>5. CASE ForwardReturns
    BY <2>2, <2>5 DEF ForwardReturns, InactiveUntilJoined, BrokerFollowsMain
  <2>6. CASE ShutdownReturns
    BY <2>1, <2>6 DEF ShutdownReturns, AllJoined, ClientsDone, InactiveUntilJoined
  <2> QED BY <1>1, <2>3, <2>4, <2>5, <2>6 DEF BrokerStep
<1> QED BY <1>3, <1>4, <1>5
-----------------------------------------------------------------------------
\* The component keeps its types, and its hand is full while it sends.
LEMMA ComponentMainInv ==
    ASSUME ContainerInv, ComponentStep \/ ComponentDies
    PROVE  MainInv'
<1> USE DEF ContainerInv, MainInv
<1>e. /\ UNCHANGED <<mainVars, watchdogPc, brokerVars, clientVars>>
      /\ containerState' = containerState
  BY ComponentEffect DEF ComponentListens, stateVars
<1>f. BrokerFollowsMain' /\ ClosingIsAnnounced' /\ InactiveUntilJoined'
  <2>1. [ClientNext]_allClientVars
    BY ComponentEffect, OthersForClients
  <2> QED BY <1>e, <2>1, ControlKept DEF mainVars, brokerVars
<1>g. SUFFICES /\ componentPc' \in {"start", "select", "sending", "finished"}
               /\ componentIn' \in Seq(App) /\ componentHand' \in AtMostOne(Result)
               /\ componentAttempts' \in 0 .. MaxAttempts - 1
               /\ componentOut' \in Seq(Result)
               /\ componentPc' = "sending" <=> componentHand' # <<>>
  <2>1. HandsFull'
    BY <1>e, <1>g DEF HandsFull, mainVars
  <2>2. ContainerTypeOK'
    BY <1>e, <1>g DEF ContainerTypeOK, mainVars
  <2> QED BY <1>f, <2>1, <2>2
<1>t. /\ componentPc \in {"start", "select", "sending", "finished"}
      /\ componentIn \in Seq(App) /\ componentHand \in AtMostOne(Result)
      /\ componentAttempts \in 0 .. MaxAttempts - 1
      /\ componentOut \in Seq(Result)
      /\ componentPc = "sending" <=> componentHand # <<>>
  BY DEF ContainerTypeOK, HandsFull
<1>1. CASE ComponentStarts
  BY <1>1, <1>t DEF ComponentStarts
<1>2. CASE ComponentRecv
  <2>1. Tail(componentIn) \in Seq(App)
    BY <1>2, <1>t, HeadTailProperties DEF ComponentRecv
  <2>2. \A r \in Result : <<r>> \in AtMostOne(Result) /\ <<r>> # <<>>
    BY AtMostOneProperties
  <2> QED BY <1>2, <1>t, <2>1, <2>2 DEF ComponentRecv
<1>3. CASE ComponentSend
  <2> DEFINE r == Head(componentHand)
             try == Attempt(componentOut, TRUE, r, componentAttempts)
  <2>1. r \in Result
    BY <1>3, <1>t DEF ComponentSend, AtMostOne
  <2>2. /\ componentOut' = try.queue /\ componentAttempts' = try.attempts
        /\ \/ componentPc' = "select" /\ componentHand' = <<>>
           \/ UNCHANGED <<componentPc, componentHand>>
        /\ componentIn' = componentIn
    BY <1>3 DEF ComponentSend
  <2>3. /\ try.attempts \in 0 .. MaxAttempts - 1
        /\ try.queue = componentOut \/ try.queue = Append(componentOut, r)
    BY ONLY <1>t, TxSenderAssumption DEF Attempt, MayRetry
  <2> HIDE DEF r, try
  <2>4. componentOut' \in Seq(Result)
    <3>1. Append(componentOut, r) \in Seq(Result)
      BY <1>t, <2>1, AppendProperties
    <3> QED BY <1>t, <2>2, <2>3, <3>1
  <2>5. <<>> \in AtMostOne(Result)
    BY AtMostOneProperties
  <2> QED BY <1>t, <2>2, <2>3, <2>4, <2>5
<1>4. CASE ComponentNotified \/ ComponentDies
  <2>1. \/ UNCHANGED componentVars
        \/ /\ componentPc' = "finished" /\ componentIn' = <<>> /\ componentHand' = <<>>
           /\ componentAttempts' = 0 /\ componentOut' = componentOut
    BY <1>4 DEF ComponentNotified, ComponentDies, ComponentEnds
  <2>2. <<>> \in AtMostOne(Result) /\ <<>> \in Seq(App) /\ 0 \in 0 .. MaxAttempts - 1
    BY AtMostOneProperties, TxSenderAssumption
  <2> QED BY <1>t, <2>1, <2>2 DEF componentVars
<1> QED BY <1>1, <1>2, <1>3, <1>4 DEF ComponentStep
-----------------------------------------------------------------------------
\* The main loop.  A message it takes sends it to one of four places.
LEMMA ReceiveKinds ==
    ASSUME NEW m, Receive(m)
    PROVE  \/ /\ mainPc' = "check"
              /\ UNCHANGED <<mainHand, brokerVars, containerState>>
           \/ /\ mainPc' = "notifyShutdown" /\ containerState' = "ShuttingDown"
              /\ UNCHANGED <<mainHand, brokerVars>>
           \/ /\ mainPc' = "forwarding" /\ ForwardShutdown(SystemShutdown)
              /\ UNCHANGED <<mainHand, containerState>>
           \/ /\ mainPc' = "toComponent" /\ m \in App /\ mainHand' = <<m>>
              /\ UNCHANGED <<brokerVars, containerState>>
BY DEF Receive, Store

\* Its place in the shutdown, after it took a message from one of its
\* channels.
LEMMA ReceiveControl ==
    ASSUME BrokerTypeOK, MainInv, UNCHANGED clientPc, mainPc = "select", NEW m, Receive(m)
    PROVE  /\ mainPc' \in MainPcs /\ mainHand' \in AtMostOne(App)
           /\ mainPc' = "toComponent" <=> mainHand' # <<>>
           /\ BrokerFollowsMain' /\ ClosingIsAnnounced' /\ InactiveUntilJoined'
<1> USE DEF MainInv
<1>1. mainHand = <<>> /\ brokerPc = "idle"
  BY DEF HandsFull, BrokerFollowsMain, BrokerTypeOK
<1>2. /\ <<>> \in AtMostOne(App)
      /\ \A a \in App : <<a>> \in AtMostOne(App) /\ <<a>> # <<>>
  BY AtMostOneProperties
<1>3. /\ mainPc' \in MainPcs /\ mainHand' \in AtMostOne(App)
      /\ mainPc' = "toComponent" <=> mainHand' # <<>>
  BY <1>1, <1>2, ReceiveKinds, AfterNotifyValues DEF MainPcs
<1>4. BrokerFollowsMain'
  BY <1>1, ReceiveKinds DEF BrokerFollowsMain, ForwardShutdown, brokerVars
<1>5. ClosingIsAnnounced'
  BY ReceiveKinds DEF ClosingIsAnnounced
<1>6. messagingActive' = messagingActive /\ (messagingActive \/ ClientsDone)
  BY <1>1, ReceiveKinds DEF InactiveUntilJoined, ForwardShutdown, brokerVars
<1>7. InactiveUntilJoined'
  BY <1>6 DEF InactiveUntilJoined, ClientsDone
<1> QED BY <1>3, <1>4, <1>5, <1>7

LEMMA MainStepMainInv ==
    ASSUME ContainerInv, MainStep
    PROVE  MainInv'
<1> USE DEF ContainerInv, MainInv
<1>e. UNCHANGED <<clientPc, watchdogPc>>
  BY MainStepEffect DEF clientVars
<1>t. /\ mainPc \in MainPcs /\ mainRx \in Seq(Message)
      /\ mainHand \in AtMostOne(App) /\ mainAttempts \in 0 .. MaxAttempts - 1
      /\ componentPc \in {"start", "select", "sending", "finished"}
      /\ componentIn \in Seq(App) /\ componentHand \in AtMostOne(Result)
      /\ componentAttempts \in 0 .. MaxAttempts - 1
      /\ componentOut \in Seq(Result)
      /\ watchdogPc \in {"waiting", "notify"}
  BY DEF ContainerTypeOK
<1>o. consoleOpen \in BOOLEAN
  BY DEF ContainerTypeOK
<1>d. ClientsDone' <=> ClientsDone
  BY <1>e DEF ClientsDone
<1>p. /\ {"check", "probe", "select", "toComponent", "handling", "forwarding", "joining",
          "sleep", "done", "panicked"} \subseteq MainPcs
      /\ DOMAIN AfterNotify \subseteq MainPcs
      /\ {"notifyClosing", "notifyClosed", "notifyDead", "notifyShutdown", "notifySystem"}
            \subseteq MainPcs
  BY AfterNotifyValues DEF MainPcs
\* The steps that only move the main loop and store a state.
<1>r. ASSUME UNCHANGED <<mainRx, consoleOpen, mainHand, mainAttempts, componentVars,
                         brokerVars>>,
             mainPc' \in MainPcs, mainPc # "toComponent", mainPc' # "toComponent",
             brokerPc = "idle",
             \/ messagingActive \/ ClientsDone
             \/ mainPc' = "notifySystem",
             mainPc' \in {"notifyClosing", "sleep"} => containerState' = "ShuttingDown"
      PROVE  MainInv'
  <2>1. consoleOpen' \in BOOLEAN
    BY <1>o, <1>r, Zenon
  <2>2. ContainerTypeOK'
    BY <1>e, <1>t, <1>r, <2>1 DEF ContainerTypeOK, componentVars
  <2>3. HandsFull'
    BY <1>r DEF HandsFull, componentVars
  <2>4. BrokerFollowsMain' /\ ClosingIsAnnounced'
    BY <1>r DEF BrokerFollowsMain, ClosingIsAnnounced, brokerVars
  <2>5. InactiveUntilJoined'
    BY <1>r, <1>d DEF InactiveUntilJoined, brokerVars
  <2> QED BY <2>2, <2>3, <2>4, <2>5
<1>i. /\ mainPc \notin {"handling", "forwarding", "joining"} => brokerPc = "idle"
      /\ mainPc \notin {"forwarding", "joining", "notifySystem"} =>
            messagingActive \/ ClientsDone
  BY DEF BrokerFollowsMain, InactiveUntilJoined, BrokerInv, BrokerTypeOK
<1>1. CASE MainCheck
  BY <1>1, <1>i, <1>p, <1>r DEF MainCheck, MainCheck_Store, Store
<1>2. CASE MainProbe
  BY <1>2, <1>i, <1>p, <1>r DEF MainProbe
<1>3. CASE MainNotifies /\ mainPc # "notifySystem"
  BY <1>3, <1>i, <1>p, <1>r, AfterNotifyValues DEF MainNotifies, ClosingIsAnnounced
<1>4. CASE MainNotifies /\ mainPc = "notifySystem"
  <2>1. /\ mainPc' = "joining" /\ ShutdownBroker
        /\ UNCHANGED <<mainRx, consoleOpen, mainHand, mainAttempts, componentVars>>
    BY <1>4, AfterNotifyValues DEF MainNotifies
  <2>2. consoleOpen' \in BOOLEAN
    BY <1>o, <2>1, Zenon
  <2>3. ContainerTypeOK'
    BY <1>e, <1>t, <1>p, <2>1, <2>2 DEF ContainerTypeOK, componentVars
  <2>4. HandsFull'
    BY <1>4, <2>1 DEF HandsFull, componentVars
  <2>5. BrokerFollowsMain' /\ ClosingIsAnnounced' /\ InactiveUntilJoined'
    BY <2>1 DEF BrokerFollowsMain, ClosingIsAnnounced, InactiveUntilJoined, ShutdownBroker
  <2> QED BY <2>3, <2>4, <2>5
<1>5. CASE MainSleepEnds
  BY <1>5, <1>i, <1>p, <1>r DEF MainSleepEnds
<1>6. CASE MainFromConsole \/ MainFromServer
  <2>1. PICK m : Receive(m)
    BY <1>6 DEF MainFromConsole, MainFromServer
  <2>2. /\ mainPc = "select" /\ mainRx' \in Seq(Message)
        /\ UNCHANGED <<consoleOpen, mainAttempts, componentVars>>
    BY <1>t, <1>6, HeadTailProperties DEF MainFromConsole, MainFromServer
  <2>3. /\ mainPc' \in MainPcs /\ mainHand' \in AtMostOne(App)
        /\ mainPc' = "toComponent" <=> mainHand' # <<>>
        /\ BrokerFollowsMain' /\ ClosingIsAnnounced' /\ InactiveUntilJoined'
    BY <1>e, <2>1, <2>2, ReceiveControl DEF BrokerInv
  <2>4. consoleOpen' \in BOOLEAN
    BY <1>o, <2>2, Zenon
  <2>5. ContainerTypeOK'
    BY <1>e, <1>t, <2>2, <2>3, <2>4 DEF ContainerTypeOK, componentVars
  <2>6. HandsFull'
    BY <2>2, <2>3 DEF HandsFull, componentVars
  <2> QED BY <2>3, <2>5, <2>6
<1>7. CASE MainFromComponent
  <2>1. /\ mainPc = "select" /\ mainPc' = "handling" /\ componentOut # <<>>
        /\ componentOut' = Tail(componentOut)
        /\ brokerPc' \in {"idle", "handling"} /\ messagingActive' = messagingActive
        /\ UNCHANGED <<mainRx, consoleOpen, mainHand, mainAttempts, componentPc,
                       componentIn, componentHand, componentAttempts, containerState>>
    BY <1>7 DEF MainFromComponent, HandleMessage, stateVars
  <2>2. componentOut' \in Seq(Result)
    BY <1>t, <2>1, HeadTailProperties
  <2>3. consoleOpen' \in BOOLEAN
    BY <1>o, <2>1, Zenon
  <2>4. ContainerTypeOK'
    BY <1>e, <1>t, <1>p, <2>1, <2>2, <2>3 DEF ContainerTypeOK
  <2>5. HandsFull' /\ BrokerFollowsMain' /\ ClosingIsAnnounced'
    BY <2>1 DEF HandsFull, BrokerFollowsMain, ClosingIsAnnounced
  <2>6. InactiveUntilJoined'
    BY <1>i, <1>d, <2>1 DEF InactiveUntilJoined
  <2> QED BY <2>4, <2>5, <2>6
<1>8. CASE MainPanics
  BY <1>8, <1>i, <1>p, <1>r DEF MainPanics
<1>9. CASE MainToComponent
  <2> DEFINE a == Head(mainHand)
             try == Attempt(componentIn, ComponentOpen, a, mainAttempts)
  <2>1. a \in App /\ mainPc = "toComponent"
    BY <1>9, <1>t DEF MainToComponent, HandsFull, AtMostOne
  <2>2. /\ componentIn' = try.queue /\ mainAttempts' = try.attempts
        /\ \/ mainPc' = "check" /\ mainHand' = <<>>
           \/ UNCHANGED <<mainPc, mainHand>>
        /\ UNCHANGED <<mainRx, consoleOpen, componentPc, componentHand,
                       componentAttempts, componentOut, brokerVars, containerState>>
    BY <1>9 DEF MainToComponent, stateVars
  <2>3. /\ try.attempts \in 0 .. MaxAttempts - 1
        /\ try.queue = componentIn \/ try.queue = Append(componentIn, a)
    BY ONLY <1>t, TxSenderAssumption DEF Attempt, MayRetry
  <2> HIDE DEF a, try
  <2>4. componentIn' \in Seq(App)
    <3>1. Append(componentIn, a) \in Seq(App)
      BY <1>t, <2>1, AppendProperties
    <3> QED BY <1>t, <2>2, <2>3, <3>1
  <2>5. mainPc' \in MainPcs /\ mainHand' \in AtMostOne(App)
    BY <1>t, <1>p, <2>2, AtMostOneProperties
  <2>6. consoleOpen' \in BOOLEAN
    BY <1>o, <2>2, Zenon
  <2>7. ContainerTypeOK'
    BY <1>e, <1>t, <2>2, <2>3, <2>4, <2>5, <2>6 DEF ContainerTypeOK
  <2>8. HandsFull' /\ BrokerFollowsMain' /\ ClosingIsAnnounced'
    BY <1>i, <2>1, <2>2 DEF HandsFull, BrokerFollowsMain, ClosingIsAnnounced, brokerVars
  <2>9. InactiveUntilJoined'
    BY <1>i, <1>d, <2>1, <2>2 DEF InactiveUntilJoined, brokerVars
  <2> QED BY <2>7, <2>8, <2>9
<1>10. CASE MainFromBroker
  BY <1>10, <1>p, <1>r DEF MainFromBroker, InactiveUntilJoined
<1> QED BY <1>1, <1>2, <1>3, <1>4, <1>5, <1>6, <1>7, <1>8, <1>9, <1>10 DEF MainStep

LEMMA ContainerNextMainInv ==
    ASSUME ContainerInv, [ContainerNext]_containerVars
    PROVE  MainInv'
<1>c. [ClientNext]_allClientVars
  BY ContainerNextForParts
<1>w. watchdogPc \in {"waiting", "notify"}
  BY DEF ContainerInv, MainInv, ContainerTypeOK
<1>1. CASE WatchdogFires \/ WatchdogNotifies
  BY <1>1, <1>c, WatchdogEffect, OthersKeepMainInv DEF brokerVars
<1>2. CASE ConsoleInput \/ ConsoleCloses
  <2> USE DEF ContainerInv, MainInv
  <2>1. mainRx' \in Seq(Message)
    <3>1. mainRx \in Seq(Message)
      BY DEF ContainerTypeOK
    <3>2. \A m \in Message : Append(mainRx, m) \in Seq(Message)
      BY <3>1, AppendProperties
    <3>3. mainRx' = mainRx \/ \E m \in Message : mainRx' = Append(mainRx, m)
      BY <1>2, ConsoleEffect
    <3> QED BY <3>1, <3>2, <3>3
  <2>2. consoleOpen' \in BOOLEAN
    <3>1. consoleOpen' = consoleOpen \/ consoleOpen' = FALSE
      BY <1>2, ConsoleEffect
    <3>2. consoleOpen \in BOOLEAN
      BY DEF ContainerTypeOK
    <3> QED BY <3>1, <3>2, Zenon
  <2>3. ContainerTypeOK'
    BY <1>2, <2>1, <2>2, ConsoleEffect DEF ContainerTypeOK, componentVars
  <2>4. HandsFull'
    BY <1>2, ConsoleEffect DEF HandsFull, componentVars
  <2>5. BrokerFollowsMain' /\ ClosingIsAnnounced' /\ InactiveUntilJoined'
    BY <1>2, <1>c, ConsoleEffect, ControlKept DEF brokerVars, stateVars
  <2> QED BY <2>3, <2>4, <2>5
<1>3. ASSUME NEW c \in Clients, ClientStep(c) \/ StreamBreaks(c) \/ HeartbeatTrySend(c),
             UNCHANGED <<mainVars, componentVars, watchdogPc, brokerVars, serverVars>>
      PROVE  MainInv'
  BY <1>3, <1>c, <1>w, ClientForServer, OthersKeepMainInv DEF brokerVars
<1>4. CASE ServerTasks \/ PeerInput
  BY <1>4, <1>c, <1>w, ServerForClients, OthersKeepMainInv
  DEF ServerTasks, PeerInput, brokerVars
<1>5. CASE UNCHANGED containerVars
  BY <1>5, <1>c, <1>w, OthersKeepMainInv DEF containerVars, brokerVars, stateVars
<1> QED BY <1>1, <1>2, <1>3, <1>4, <1>5, ContainerNextSplit, MainStepMainInv,
           ComponentMainInv, BrokerTaskMainInv
-----------------------------------------------------------------------------
\* Every reachable state of a container satisfies the invariants of all its
\* parts.
THEOREM ContainerInvariant == ContainerSpec => []ContainerInv
<1>1. ContainerInit => ContainerInv
  BY ContainerInitInv
<1>2. ContainerInv /\ [ContainerNext]_containerVars => ContainerInv'
  <2> SUFFICES ASSUME ContainerInv, [ContainerNext]_containerVars
               PROVE  ContainerInv'
    OBVIOUS
  <2>1. ClientInv'
    BY ContainerNextForParts, ClientNextInv DEF ContainerInv
  <2>2. ServerInv'
    BY ContainerNextForParts, ServerNextInv DEF ContainerInv
  <2>3. BrokerInv' /\ MainInv'
    BY ContainerNextBrokerInv, ContainerNextMainInv
  <2> QED BY <2>1, <2>2, <2>3 DEF ContainerInv
<1> QED BY <1>1, <1>2, PTL DEF ContainerSpec

\* The locals of the main loop and of the component keep their types, and the
\* one holds a message exactly while add_to_tx_with_retry sends it to the
\* component (hyperion_container.rs:303), the other exactly while it sends its
\* result to the main loop: no way out of the call leaves one behind in a hand.
THEOREM ContainerTypeCorrect == ContainerSpec => [](ContainerTypeOK /\ HandsFull)
<1>1. ContainerInv => ContainerTypeOK /\ HandsFull
  BY DEF ContainerInv, MainInv
<1> QED BY <1>1, ContainerInvariant, PTL

\* While run waits for the others to stop, the state stays ShuttingDown
\* (the three seconds of hyperion_container.rs:218).
THEOREM ClosingStaysAnnounced == ContainerSpec => []ClosingIsAnnounced
<1>1. ContainerInv => ClosingIsAnnounced
  BY DEF ContainerInv, MainInv
<1> QED BY <1>1, ContainerInvariant, PTL

\* The main loop closes a container after a system shutdown only when the
\* last client has returned (client_broker.shutdown, hyperion_container.rs:294).
THEOREM NoClientOutlivesMain == ContainerSpec => []SystemShutdownStopsClients
<1>1. ContainerInv => SystemShutdownStopsClients
  BY DEF ContainerInv, MainInv, BrokerFollowsMain, InactiveUntilJoined, ClientsDone,
         SystemShutdownStopsClients
<1> QED BY <1>1, ContainerInvariant, PTL

\* The composition treats the server and its handlers as module Server says.
THEOREM ContainerImplementsServer == ContainerSpec => ImplementsServerSpec
<1>1. ContainerInv /\ [ContainerNext]_containerVars => [ServerNext]_allServerVars
  BY ContainerNextForParts
<1>2. ContainerInit => StateInit /\ ServerInit
  BY DEF ContainerInit
<1> QED BY <1>1, <1>2, ContainerInvariant, PTL
        DEF ContainerSpec, ImplementsServerSpec, ServerSpec

\* And the clients as module Client says.
THEOREM ContainerImplementsClients == ContainerSpec => ImplementsClientSpec
<1>1. ContainerInv /\ [ContainerNext]_containerVars => [ClientNext]_allClientVars
  BY ContainerNextForParts
<1>2. ContainerInit => StateInit /\ ClientInit
  BY DEF ContainerInit
<1> QED BY <1>1, <1>2, ContainerInvariant, PTL
        DEF ContainerSpec, ImplementsClientSpec, ClientSpec

\* In a running container, with the main loop, the component, the heartbeat
\* tasks and the watchdog at work, no connection in either direction reorders
\* or repeats a message.
THEOREM ContainerKeepsOrder == ContainerSpec => ImplementsFifo /\ ImplementsInboundFifo
BY ContainerImplementsClients, ContainerImplementsServer, ClientImplementsFifo,
   ServerImplementsInboundFifo DEF ImplementsClientSpec, ImplementsServerSpec

\* Nor does the component get a message in behind the system shutdown, and
\* no client is left without its sender.
THEOREM ContainerShutdownComesLast ==
    ContainerSpec => [](ShutdownIsLastWord /\ SendersOutliveClients /\ ServerStopsInOrder)
<1>1. ContainerInv => ShutdownIsLastWord
  BY DEF ContainerInv, BrokerInv
<1>2. ContainerInv => SendersOutliveClients
  BY DEF ContainerInv, BrokerInv, ClientInv, InFlightHasStream, SendersGoLast,
         SendersOutliveClients, ClientOpen
<1>3. ContainerInv => ServerStopsInOrder
  BY DEF ContainerInv, ServerInv, HandlersHoldTheirs, AcceptsWhileListening,
         ServerStopsInOrder, Alive
<1> QED BY <1>1, <1>2, <1>3, ContainerInvariant, PTL
=============================================================================
