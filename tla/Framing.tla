------------------------------ MODULE Framing ------------------------------
(***************************************************************************)
(* The bytes of one connection: the client writes each payload behind its  *)
(* length (client.rs), the network passes the bytes on in pieces of any    *)
(* size, and the handler puts the frames together again (server.rs).       *)
(* Modules Client and Server take a frame for one piece; this module says  *)
(* why they may.  A byte is a digit to a small base.                       *)
(***************************************************************************)
EXTENDS Naturals, Sequences

CONSTANTS Payload,       \* encodings of messages: sequences of bytes
          Undecodable,   \* those that deserialise_message rejects
          Base,          \* 256
          PrefixLen,     \* 4: the prefix is a big-endian u32
          MaxRead,       \* 65536: the size of the buffer for one read
          Window         \* bytes the connection holds

Byte == 0 .. Base - 1

\* n shifted to the right by each number of digits.
Shifted(n) ==
    LET shifted[i \in 0..PrefixLen] == IF i = 0 THEN n ELSE shifted[i - 1] \div Base
    IN  shifted

\* Nothing in the code holds a payload below the four gigabytes from which
\* on `as u32` cuts its length short.
ASSUME FramingAssumption == /\ Base \in Nat \ {0, 1}
                            /\ PrefixLen \in Nat \ {0}
                            /\ MaxRead \in Nat \ {0} /\ Window \in Nat \ {0}
                            /\ Payload # {} /\ Undecodable \subseteq Payload
                            /\ \A p \in Payload : /\ p \in Seq(Byte)
                                                  /\ Shifted(Len(p))[PrefixLen] = 0

VARIABLES toWrite,      \* what write_all has still to hand over
          stream,       \* "open", or ended by "shutdown", "dropped", "reset"
          pipe,         \* bytes on their way
          handler,      \* "reading", "parsing" or "ended"
          messageBuf,   \* message_buf of the handler
          received      \* what the handler has passed on

framingVars == <<toWrite, stream, pipe, handler, messageBuf, received>>

FramingInit == /\ toWrite = <<>> /\ stream = "open" /\ pipe = <<>>
               /\ handler = "reading" /\ messageBuf = <<>> /\ received = <<>>

Drop(s, n) == SubSeq(s, n + 1, Len(s))

Prefix_LittleEndian(n) == [i \in 1..PrefixLen |-> Shifted(n)[i - 1] % Base]

\* (n as u32).to_be_bytes()
Prefix(n) == [i \in 1..PrefixLen |-> Shifted(n)[PrefixLen - i] % Base]

\* u32::from_be_bytes of the first bytes of a buffer.
FrameLen(buf) ==
    LET value[i \in 0..PrefixLen] == IF i = 0 THEN 0 ELSE value[i - 1] * Base + buf[i]
    IN  value[PrefixLen]
-----------------------------------------------------------------------------
\* The client takes the next message only when write_all has come back.
Write(p) == /\ stream = "open"
            /\ toWrite = <<>>
            /\ toWrite' = Prefix(Len(p)) \o p
            /\ UNCHANGED <<stream, pipe, handler, messageBuf, received>>

\* The socket accepts a part of what write_all offers.
Flush == /\ stream = "open"
         /\ \E n \in 1..Len(toWrite) :
               /\ Len(pipe) + n <= Window
               /\ pipe' = pipe \o SubSeq(toWrite, 1, n)
               /\ toWrite' = Drop(toWrite, n)
         /\ UNCHANGED <<stream, handler, messageBuf, received>>

\* stream.shutdown() comes between two messages.  The stream may be dropped
\* with the client's task, or be reset, at any time; then write_all fails or
\* never comes back.
StreamEnds == /\ stream = "open"
              /\ stream' \in {"dropped", "reset"}
                               \cup (IF toWrite = <<>> THEN {"shutdown"} ELSE {})
              /\ UNCHANGED <<toWrite, pipe, handler, messageBuf, received>>

HandlerRead == /\ handler = "reading"
               /\ \E n \in 1..Len(pipe) :
                     /\ n <= MaxRead
                     /\ messageBuf' = messageBuf \o SubSeq(pipe, 1, n)
                     /\ pipe' = Drop(pipe, n)
               /\ handler' = "parsing"
               /\ UNCHANGED <<toWrite, stream, received>>

IsComplete_Strict(buf) == /\ Len(buf) >= PrefixLen
                          /\ Len(buf) > PrefixLen + FrameLen(buf)

IsComplete(buf) == /\ Len(buf) >= PrefixLen
                   /\ Len(buf) >= PrefixLen + FrameLen(buf)

Drained_PayloadOnly(buf) == Drop(buf, FrameLen(buf))

Drained(buf) == Drop(buf, PrefixLen + FrameLen(buf))

ParsedAll_OneFrame == handler = "parsing"

\* `while message_buf.len() >= 4`, and the break for an incomplete frame.
ParsedAll == handler = "parsing" /\ ~IsComplete(messageBuf)

HandlerParse ==
    /\ handler = "parsing"
    /\ IsComplete(messageBuf)
    /\ LET p == SubSeq(messageBuf, PrefixLen + 1, PrefixLen + FrameLen(messageBuf))
       IN received' = IF p \in Undecodable THEN received ELSE Append(received, p)
    /\ messageBuf' = Drained(messageBuf)
    /\ UNCHANGED <<toWrite, stream, pipe, handler>>

HandlerWaits == /\ ParsedAll
                /\ handler' = "reading"
                /\ UNCHANGED <<toWrite, stream, pipe, messageBuf, received>>

MayEnd_WholeFrames == pipe = <<>> /\ messageBuf = <<>>

MayEnd == pipe = <<>>

\* read returns Ok(0) behind the last byte, or Err before it.
HandlerEnds == /\ handler = "reading"
               /\ stream # "open"
               /\ stream = "reset" \/ MayEnd
               /\ handler' = "ended"
               /\ toWrite' = <<>> /\ pipe' = <<>> /\ messageBuf' = <<>>
               /\ UNCHANGED <<stream, received>>

HandlerStep == HandlerRead \/ HandlerParse \/ HandlerWaits \/ HandlerEnds

FramingNext == (\E p \in Payload : Write(p)) \/ Flush \/ StreamEnds \/ HandlerStep

\* The network passes on what it has room for, the handler is scheduled.
FramingFairness == WF_framingVars(Flush) /\ WF_framingVars(HandlerStep)

FramingSpec == FramingInit /\ [][FramingNext]_framingVars /\ FramingFairness
-----------------------------------------------------------------------------
FramingTypeOK == /\ toWrite \in Seq(Byte)
                 /\ stream \in {"open", "shutdown", "dropped", "reset"}
                 /\ pipe \in Seq(Byte) /\ Len(pipe) <= Window
                 /\ handler \in {"reading", "parsing", "ended"}
                 /\ messageBuf \in Seq(Byte)
                 /\ received \in Seq(Payload \ Undecodable)

\* The frames in a sequence of bytes that starts where a frame starts.
Frames[bytes \in Seq(Byte)] ==
    IF IsComplete(bytes)
      THEN <<SubSeq(bytes, PrefixLen + 1, PrefixLen + FrameLen(bytes))>>
             \o Frames[Drop(bytes, PrefixLen + FrameLen(bytes))]
      ELSE <<>>

\* Wherever the reads and writes cut the bytes, the connection is a FIFO of
\* whole payloads: what the bytes under way would be parsed to is what was
\* written and not yet received.
Whole == INSTANCE LossyFifo WITH
             Channels <- {"connection"},
             Message <- Payload,
             Unserialisable <- Undecodable,
             pending <- [c \in {"connection"} |-> Frames[messageBuf \o pipe \o toWrite]],
             delivered <- [c \in {"connection"} |-> received],
             ended <- IF handler = "ended" THEN {"connection"} ELSE {},
             healthy <- {"connection"}

ImplementsFrameFifo == Whole!FifoSpec

\* When the client has shut its stream down and the handler reads the end of
\* it, no byte of a frame is left over: nothing is lost.
ShutdownLosesNothing ==
    stream = "shutdown" /\ handler = "reading" /\ pipe = <<>> => messageBuf = <<>>

\* Before it reads, the handler's buffer holds less than the longest frame,
\* however fast the client writes; so message_buf does not grow.
BufferIsBounded ==
    handler = "reading" => \E p \in Payload : Len(messageBuf) < PrefixLen + Len(p)

\* A handler whose client has gone ends, also with a frame it has only a part
\* of; "Ensures all client handlers die before shutdown" rests on it.
HandlerFollowsStream == stream # "open" ~> handler = "ended"
=============================================================================
