------------------------------ MODULE LossyFifo ------------------------------
(***************************************************************************)
(* What one direction of a connection promises to those who hand it        *)
(* messages: they come out in the order in which they went in, none twice, *)
(* and none is lost except the one at the head of the queue, because what  *)
(* takes it is not healthy or because it has no encoding, or when the      *)
(* connection ends for good.  `healthy` is an input: it changes freely.    *)
(***************************************************************************)
EXTENDS Sequences

CONSTANTS Channels, Message, Unserialisable

VARIABLES pending,     \* accepted and neither delivered nor lost, per channel
          delivered,   \* per channel
          ended,       \* the channels that have ended for good
          healthy      \* the channels whose outlet takes messages

fifoVars == <<pending, delivered, ended>>

FifoInit == /\ pending = [c \in Channels |-> <<>>]
            /\ delivered = [c \in Channels |-> <<>>]
            /\ ended = {}

Accept(c, m) == /\ c \notin ended
                /\ pending' = [pending EXCEPT ![c] = Append(@, m)]
                /\ UNCHANGED <<delivered, ended>>

Deliver(c) == /\ c \in healthy
              /\ pending[c] # <<>>
              /\ delivered' = [delivered EXCEPT ![c] = Append(@, Head(pending[c]))]
              /\ pending' = [pending EXCEPT ![c] = Tail(@)]
              /\ UNCHANGED ended

Lose(c) == /\ pending[c] # <<>>
           /\ c \notin healthy \/ Head(pending[c]) \in Unserialisable
           /\ pending' = [pending EXCEPT ![c] = Tail(@)]
           /\ UNCHANGED <<delivered, ended>>

End(c) == /\ ended' = ended \cup {c}
          /\ pending' = [pending EXCEPT ![c] = <<>>]
          /\ UNCHANGED delivered

FifoNext == \E c \in Channels : \/ \E m \in Message : Accept(c, m)
                                \/ Deliver(c)
                                \/ Lose(c)
                                \/ End(c)

FifoSpec == FifoInit /\ [][FifoNext]_fifoVars
=============================================================================
