--------------------------- MODULE MCClientBroker ---------------------------
(***************************************************************************)
(* ClientBroker for TLC: whoever may choose to put one more message on its *)
(* way does so only while every connection has seen fewer than MaxMessages.*)
(***************************************************************************)
EXTENDS ClientBroker, TLC

CONSTANT MaxMessages

\* Every order of all connections, and an unknown name before each of them.
MCTargetLists == IterationOrders(Clients)
                     \cup {<<UnknownTarget, c>> : c \in Clients}

ClientSymmetry == Permutations(Clients)

MaySend == \A c \in Clients : Len(Sent(c)) < MaxMessages

MCBrokerInit == StateInit /\ ClientInit /\ BrokerInit

MCBrokerNext ==
    \/ BrokerStep
    \/ MaySend /\ OwnerCalls
    \/ ShutdownBroker /\ containerState = "ShuttingDown" /\ UNCHANGED <<clientVars, stateVars>>
    \/ /\ \/ OtherTask
          \/ \E c \in Clients : \/ ClientStep(c)
                                \/ StreamBreaks(c)
                                \/ MaySend /\ HeartbeatTrySend(c)
       /\ UNCHANGED brokerVars

MCBrokerSafetySpec == MCBrokerInit /\ [][MCBrokerNext]_allBrokerVars

MCBrokerSpec == MCBrokerSafetySpec /\ ClientFairness /\ BrokerFairness
=============================================================================
