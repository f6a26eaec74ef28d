------------------------------ MODULE MCServer ------------------------------
(***************************************************************************)
(* Server for TLC: the peers send at most MaxFrames frames together.  The  *)
(* messages are numbers, and the n-th frame is message n or undecodable.   *)
(***************************************************************************)
EXTENDS Server

CONSTANT MaxFrames

VARIABLE sent   \* the number of frames sent so far

MCServerInit == StateInit /\ ServerInit /\ sent = 0

MCPeerSend(p, f) == /\ sent < MaxFrames
                    /\ sent' = sent + 1
                    /\ PeerSend(p, f)

MCServerNext ==
    \/ AcceptStep /\ UNCHANGED sent
    \/ \E p \in Peers : \/ HandlerStep(p) /\ UNCHANGED sent
                        \/ \E f \in {sent + 1, Undecodable} : MCPeerSend(p, f)
                        \/ PeerLeaves(p) /\ UNCHANGED sent
    \/ TakeFromServer /\ MainStoresAtOnce /\ UNCHANGED sent
    \/ DropServerRx /\ UNCHANGED <<stateVars, sent>>
    \/ OthersAct({ServerTask}) /\ UNCHANGED <<serverVars, sent>>

MCServerSafetySpec == MCServerInit /\ [][MCServerNext]_<<allServerVars, sent>>

MCServerSpec == MCServerSafetySpec /\ ServerFairness
=============================================================================
