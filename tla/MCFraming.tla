----------------------------- MODULE MCFraming -----------------------------
(***************************************************************************)
(* Framing for TLC: two-bit prefixes of payloads of up to three bits, and  *)
(* at most MaxFrames of them.                                              *)
(***************************************************************************)
EXTENDS Framing

CONSTANT MaxFrames

VARIABLE written   \* the number of payloads written so far

\* Zeros, ones, and payloads that look like prefixes.
MCPayload == {<<>>, <<1>>, <<0, 1>>, <<1, 1>>, <<1, 0, 0>>}

MCUndecodable == {<<>>, <<1, 1>>}

MCFramingInit == FramingInit /\ written = 0

MCFramingNext ==
    \/ /\ written < MaxFrames
       /\ written' = written + 1
       /\ \E p \in Payload : Write(p)
    \/ (Flush \/ StreamEnds \/ HandlerStep) /\ UNCHANGED written

MCFramingSpec == /\ MCFramingInit
                 /\ [][MCFramingNext]_<<framingVars, written>>
                 /\ FramingFairness
=============================================================================
