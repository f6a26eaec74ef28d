------------------------ MODULE MCHyperionContainer ------------------------
(***************************************************************************)
(* HyperionContainer for TLC: the outside does at most MaxInputs things.   *)
(***************************************************************************)
EXTENDS HyperionContainer

CONSTANTS MaxInputs,
          Outside   \* the parts of the outside that act in this instance

MCTargetLists == {<<c>> : c \in Clients}

VARIABLE inputs   \* how many things the outside has done

MCContainerInit == ContainerInit /\ inputs = 0

MCContainerInput == \/ "console" \in Outside /\ ConsoleInput
                    \/ "close" \in Outside /\ ConsoleCloses
                    \/ "component" \in Outside /\ ComponentDies
                    \/ "watchdog" \in Outside /\ WatchdogFires
                    \/ "stream" \in Outside /\ StreamInput
                    \/ "heartbeat" \in Outside /\ HeartbeatInput
                    \/ "peer" \in Outside /\ PeerInput

MCContainerNext == \/ ContainerStep /\ UNCHANGED inputs
                   \/ /\ inputs < MaxInputs
                      /\ inputs' = inputs + 1
                      /\ MCContainerInput

MCContainerSafetySpec ==
    MCContainerInit /\ [][MCContainerNext]_<<containerVars, inputs>>

MCContainerSpec == MCContainerSafetySpec /\ ContainerFairness
=============================================================================
