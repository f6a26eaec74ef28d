------------------------------- MODULE InHand -------------------------------
(***************************************************************************)
(* Every task of the program takes one message from a channel or a stream  *)
(* and handles it before it takes the next.                                *)
(***************************************************************************)

\* What a task holds while it handles one message at a time.
AtMostOne(S) == {<<>>} \cup {<<m>> : m \in S}
=============================================================================
