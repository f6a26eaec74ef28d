------------------------------ MODULE TxSender ------------------------------
(***************************************************************************)
(* add_to_tx_with_retry (utilities/tx_sender.rs): put a message into a     *)
(* bounded tokio channel without waiting for room, retry a bounded number  *)
(* of times while the channel is full, and drop the message after that.    *)
(* One call is a sequence of attempts separated by sleeps.  A caller keeps *)
(* the number of failed attempts so far; each of its steps is one attempt. *)
(***************************************************************************)
EXTENDS Naturals, Sequences, InHand

CONSTANTS Message,       \* T, told apart only as far as the properties need
          MaxAttempts,   \* max_attempts, 5 in the code
          ChannelCap     \* capacity of every mpsc channel, 32 in the code

ASSUME TxSenderAssumption == /\ MaxAttempts \in Nat \ {0}
                             /\ ChannelCap \in Nat \ {0}

\* try_send finds room: Ok(_).
HasRoom(queue) == Len(queue) < ChannelCap

\* No channel ever holds more than this.
WithinCapacity(queue) == Len(queue) <= ChannelCap

MayRetry_OffByOne(n) == n + 1 <= MaxAttempts

\* The attempt that fails after n failed ones is not the last one allowed.
MayRetry(n) == n + 1 < MaxAttempts

Attempt_Overfull(queue, open, msg, n) ==
    IF open
      THEN [queue |-> Append(queue, msg), attempts |-> 0, returns |-> TRUE]
      ELSE [queue |-> queue, attempts |-> 0, returns |-> TRUE]

Attempt_Uncounted(queue, open, msg, n) ==
    IF open /\ HasRoom(queue)
      THEN [queue |-> Append(queue, msg), attempts |-> 0, returns |-> TRUE]
      ELSE [queue |-> queue, attempts |-> n, returns |-> ~open]

\* One attempt on a channel with content `queue`, whose receiver exists iff
\* `open`: the content it leaves, the failed attempts so far, and whether
\* the call returns.
Attempt(queue, open, msg, n) ==
    IF open /\ HasRoom(queue)
      THEN [queue |-> Append(queue, msg), attempts |-> 0, returns |-> TRUE]
      ELSE IF open /\ MayRetry(n)
        THEN [queue |-> queue, attempts |-> n + 1, returns |-> FALSE]
        ELSE [queue |-> queue, attempts |-> 0, returns |-> TRUE]
=============================================================================
