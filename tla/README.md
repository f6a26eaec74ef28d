# A TLA+ development of hyperion-framework

hyperion-framework runs a user's component inside a *container*: a process with
a TCP server for messages that come in, one TCP client per outgoing connection,
a main loop that moves messages between them and the component, and optional
heartbeat tasks. All of it is asynchronous (tokio): the tasks share an atomic
container state and a `Notify`, and talk through bounded channels. This
directory models that concurrency, checks it with TLC and proves its safety with TLAPS. Paths below are relative to the crate's `src/`.

## The system

| part | code | state it keeps | operations | talks to |
|---|---|---|---|---|
| container state | `containerisation/container_state.rs` | an atomic and a `Notify`, shared by all tasks | load, store, `notify_waiters`, `notified()` | everybody |
| retry helper | `utilities/tx_sender.rs` | the attempts of one call | `add_to_tx_with_retry` | any bounded channel |
| client | `network/client.rs` | `send_retries`, `internal_client_state`, the channel's receiver, the stream | `run` | broker and heartbeats (channel), a peer (TCP), container state |
| client broker | `containerisation/client_broker.rs` | `messaging_active`, `client_senders`, the clients' tasks | `init`, `handle_message`, `forward_shutdown`, `shutdown` | called by the main loop; clients' channels |
| server | `network/server.rs` | the listener, one handler task per connection, the bytes not yet framed | `run`, `handle_stream_notification` | peers (TCP), main loop (channel), container state |
| main loop | `containerisation/hyperion_container.rs` | the receivers of three channels, the component's handle | `create`, `run`, `process_incoming_message` | all of the above |
| component | user code behind `containerisation/traits.rs` | its own | `run` | two channels with the main loop, container state |
| factory | `containerisation/hyperion_container_factory.rs` | none | `create` | builds the container |
| heartbeat sender | `heartbeat/sender.rs` | pending requests with their times | `run`: tick, response | clients' channels (`try_send`), main loop |
| heartbeat receiver | `heartbeat/receiver.rs`, `handler.rs` | time of the last request | `run`: request, watchdog tick; `on_timeout` | clients' channels (`try_send`), container state |
| heartbeat configuration | `heartbeat/config.rs`, `spawn_heartbeat_tasks` | none | `to_config`, `new` | read once, when the container starts |
| topology, serialiser, messages, logging, loading, time | the rest | data, or none | pure functions and I/O | |

### What is hard

* **Notifications leave no trace.** `notify_waiters` completes only the futures
  that exist at that moment. A task in `connect`, `write_all` or a sleep misses
  it; so does a task whose `select!` takes another ready branch.
* **The state is a plain atomic with several writers**: main loop, server and
  watchdog store without looking, each in a step of its own, before it notifies.
* **Waiting on full channels**: attempts with back-off, or without a limit in
  `forward_shutdown`, while the main loop does nothing else.
* **Failures in the middle**: a write fails, a connect fails, a peer leaves with
  frames unread, the component dies, the bind fails.
* **The order in which things stop**: handlers, server, clients, main loop.
* **Late and early**: answers race with the tick that gives them up, requests with the
  watchdog, and a stalled connection delivers old heartbeats when it recovers.
* **Bytes without boundaries**: a read ends anywhere, a client dies in the middle of
  a frame.

### What makes each part correct

* client: the retry budget is kept over all failure paths and its reset; nothing is
  held when the inner loop is left; it stops only for a reason; messages are
  neither reordered nor sent twice; dialling ends.
* broker: nothing of the component follows a system shutdown into a channel;
  senders outlive clients; its calls return.
* server: each connection is a lossy FIFO into the main loop's channel although the
  handlers share it; the end is announced after the last handler; handlers and
  server follow their peers.
* container: an announced end is not taken back; a system shutdown leaves no client
  running; a Shutdown directive ends `run`; no message keeps the main loop for ever.
* heartbeats: every request is pending, answered by its own target or given up, exactly
  one of them; silence and missing answers are noticed within a bounded time; no handler
  is called while everything works and the configured times leave room. These
  have conditions that the code does not check. Answers can be told apart only where nobody
  has a connection to the sender that is called like somebody else (`KnownByName`). And the
  channels are shared: a client's with the messages of the component, a heartbeat task's with
  the heartbeats of other containers. A burst of messages makes `try_send` drop a heartbeat over
  a connection that works, and a target or a sender that lives is reported. So a
  target is never reported falsely unless a heartbeat was crowded out
  (`NothingCrowdedOut`), and a sender unless its request was turned away by a channel
  full of the component's messages alone (`QueueHeldRequest`).
* framing: whatever the boundaries of the reads, the frames that come out are the frames
  that went in; an orderly shutdown loses none; the buffer stays bounded.

## The modules

| module | models | composes |
|---|---|---|
| `ContainerState` | the atomic and the `Notify`; one future per listening task: none, waiting or woken | |
| `InHand` | what a task holds that handles one message at a time | |
| `TxSender` | one attempt of `add_to_tx_with_retry` | `InHand` |
| `LossyFifo` | abstract: what one direction of a connection promises | |
| `Client` | `Client::run` | `ContainerState`, `TxSender`; implements `LossyFifo` |
| `ClientBroker` | the broker and the holders of cloned senders | `Client` |
| `Server` | the accepting task and the handlers | `ContainerState`, `TxSender`; implements `LossyFifo` |
| `HyperionContainer` | main loop, component, watchdog, console | `ClientBroker`, `Server`; implements `ClientSpec`, `ServerSpec` |
| `HeartbeatConfig` | the way from a configuration and a topology to a heartbeat task | |
| `Heartbeat` | sender and receiver tasks, the main loops between them, the connections, a clock | `HeartbeatConfig` |
| `Framing` | the bytes of one connection, from `write_all` to the handler's buffer | implements `LossyFifo` |
| `ClientProofs` | invariants of `Client`; it implements `LossyFifo` | |
| `BrokerProofs` | invariants of `ClientBroker`; it implements `ClientSpec` | `ClientProofs` |
| `ServerProofs` | invariants of `Server`; it implements `LossyFifo` | |
| `ContainerProofs` | invariants of `HyperionContainer`; it implements `ServerSpec` and `ClientSpec` | `BrokerProofs`, `ServerProofs` |
| `HeartbeatProofs` | what `Heartbeat` promises whatever happens | |
| `HeartbeatTimingProofs` | what it promises while everything works | `HeartbeatProofs` |
| `FramingProofs` | invariants of `Framing`; it implements `LossyFifo` | |
| `SequenceLemmas` | facts about queues whose head is in a task's hands | |
| `MC*` | bounds and symmetry for TLC | |

**How state and actions correspond to the code.** A task runs undisturbed from one
`await` to the next, so each `await` is a value of that task's program counter
(`clientPc`, `serverPc`, `handler`, `brokerPc`, `mainPc`, `componentPc`,
`watchdogPc`) and the code between two of them is one action. Tasks run on several
threads, so a store and the `notify_waiters` after it are two steps (the
`notify...` values). Three exceptions, each stated at its definition: the head of
the main loop loads and stores the state in one step (in between, the
others can only store ShuttingDown, which it stores too); taking a directive
out of a channel and storing the state it asks for is one step; and so is
the load of the state by a task that was woken for another reason and listens again
(`ClientNotified`, `ServerNotified`, `ComponentNotified`). A store and `notify_waiters` between
the two would be missed, and are left out. Notifications are missed without that too
(`server_hears`, `system_shutdown`), and no property that holds relies on one being heard. The broker's
methods are called by the main loop, so `brokerPc` is where the main loop is
inside them. A message in the hands of a task is a sequence of at most one
element (`writing`, `outgoing`, `inHand`, `mainHand`, `componentHand`).

`Heartbeat` and `Framing` stand beside the others and look closer at what those leave
open. `Heartbeat` knows the time and the channels: a `link` is the channel of a client and what
is behind it up to the main loop of the peer, shared by the heartbeats (`TrySend`) and the
messages of `handle_message` (`ComponentSends`). Each container runs the task that `TaskOf` derives
from its configuration, an `Interval` is the time `due` at which it fires next (a late
tick does not shift the later ones, which is tokio's default), and `pending`, `nextId`,
`lastReceived` are the fields of the two tasks. `answered`, `missed` and `timedOut` keep what the
code tells a handler or the log. Three history variables keep what has gone wrong on a
connection: `disturbed` that it was stalled, `turnedAway` what its channel was full of when a
heartbeat did not get in, `notTaken` that the channel of the task at its end was full. `HyperionContainer` replaces all of this by
`HeartbeatTrySend` and `WatchdogFires`, which may happen at any time. `Framing` knows the
bytes: `toWrite` is what `write_all` still has to hand over, `messageBuf` the handler's
buffer, and each turn of the handler's `while` loop is a step. It shows that a connection is a
FIFO of whole frames, as `Client` (one `Transmit`) and `Server` (one `HandlerRead`) take it to
be.

A name such as `MayRetry_OffByOne` is a faulty variant of `MayRetry`: with it in the
place of the original, a property of some run must fail. `PROJECT.json` says which.

**What is abstracted.** Messages are model values. Whether serde can encode a message
is membership of `Unserialisable`, whether a frame decodes is `Undecodable`. A
frame arrives whole except in `Framing`. Sleeps have no length: a sleeping task continues at some
point. A stream is none, up or broken; what is written to a stream that is up
counts as delivered to it, what is written to a broken one may be accepted by the
socket and go nowhere, or fail. A peer that leaves either closes (its frames are still
read) or resets. The component follows the example that documents the `Run`
trait and may also return or panic at any of its awaits. Where the model stops:
at the return of `run`, or at the panic of its `select!`. Dropping the container,
which aborts the clients with the broker's `JoinSet`, belongs to the
application.

## The runs

| run | instance | asks |
|---|---|---|
| `broker` | 2 clients (symmetric), 2 retries, 2 attempts, capacity 1, at most 2 messages per connection | `ShutdownIsLastWord`, `SendersOutliveClients` |
| `broker_live` | 1 client, 4 messages (one without encoding), 3 retries, 3 attempts, capacity 2, at most 3 messages | the properties of a client and its implementation of `LossyFifo`; use of the clients as specified; dialling ends and the broker's calls return |
| `server` | 2 connections, frames numbered as sent or undecodable, at most 3, capacity 1 | FIFO per connection over a shared channel, order of the stop; handlers and server follow their peers |
| `container` | 1 client, 1 peer, 4 kinds of message, at most 3 inputs of any kind from outside | the shared state over the whole container; implements `ServerSpec` |
| `container_live` | 1 client with 1 retry, no peer and no watchdog, at most 3 inputs: console messages and the death of the component | the Shutdown directive closes; so does the next message after a death was found; the main loop comes back; implements `ClientSpec` |
| `heartbeat` | 3 containers, 17 networks and configurations, 10 units of time, 1 connection that stalls, loses messages and recovers, or up to 2 messages of a component over one connection | every request has one fate; silence is noticed, and only silence |
| `framing` | 3 payloads of up to 3 bits behind prefixes of 2 bits, reads of at most 6 | whole frames in order; nothing lost at a shutdown; bounded buffer; the handler ends |
| `server_hears`, `server_fails`, `system_shutdown`, `timeout`, `closed` | as small as the question allows | the disagreements below |

**Why the bounds are enough.** A capacity of 1 or 2 makes channels full with few
messages, 2 or 3 attempts give a first, a middle and a last failed attempt. In `broker` and
`broker_live`, 2 or 3 retries give a backoff as well as an exhausted client; the
container's runs have 1, as there it matters only that a client may end. Order within a channel needs two
distinguishable messages, interference between handlers two
connections. Clients do not influence each other except through the broker, so two
of them show what the broker can do wrong and one is enough elsewhere. Three
inputs let a directive, a failure and a message race. The clients' and handlers'
own steps, notifications and stores by other tasks are not bounded.

In `heartbeat` a unit of time is the second of the watchdog's check interval. The lag of a
task, the delay of a connection and the distance between the starts are one unit at
most, so a round trip takes up to four. The networks hold timeouts below, at and above the
round trip and the way of the first request; two senders for one receiver; two
targets, two connections with one name and a target that is no connection; receivers
without a handler, without a way back, with one to somebody who has no task or to another sender; an interval of zero,
missing fields and a wrong mode. Ten units are enough for several ticks and for the
longest silence that must be noticed (more than 9). Two messages of a component fill a channel of
two, so that a heartbeat is turned away by messages alone, by heartbeats alone (in front of a
stalled connection, or of a task that others keep busy), and by one of each. Stalls and messages are
not mixed, and only one connection has either: the bounds keep the run in minutes, and the proofs
need none of them. The conditions in `NoFalseMiss` and `NoFalseTimeout` say what a configuration
and the traffic must leave room for; the code checks none of it, and without
`NothingCrowdedOut` or `QueueHeldRequest` TLC finds either property violated.
In `framing` a prefix of two bits can be cut, also from the one before it; payloads may be
empty or look like a prefix; one read may hold more than two frames. The payloads are
shorter than the prefix can say (`FramingAssumption`), which the code does not check
either: from 4 GiB on, `as u32` would cut the length.

**Fairness.** Every task is scheduled (tokio's scheduler is fair to runnable tasks) and
every sleep ends: weak fairness of its steps. `connect` and `write_all`
return: the operating system times out a connect, and a write to a peer that reads
or has gone completes or fails. A peer that stays connected and never reads would
stop a client for ever; the liveness properties do not speak of that case.
`select!` polls its branches in random order, so a branch that is ready again and again
is taken: strong fairness of each branch. `Sender::send` waits in the queue
of the channel's semaphore, ahead of later `try_send`s: strong fairness of
`ForwardSend`. In `Framing` the connection takes bytes while it has room, and the handler is
scheduled. `Heartbeat` needs no fairness: its clock does not pass a moment by which something must have
happened. Nothing is assumed of peers, console, component messages or the
watchdog's timeouts.

Deadlock is checked except in the container's runs and in `framing`, where the container
and the connection have an end. In `heartbeat` the last moment repeats itself.

### Where code and text disagree

Each is a run that TLC refutes; `PROJECT.json` quotes the line.

* `system_shutdown`: a client that is writing when the shutdown is notified
  goes back to `select!` and is never told again; the main loop waits for
  it in `ClientBroker::shutdown`.
* `server_hears`: the server loses the notification when an accept is ready in
  the same poll, and goes on listening.
* `timeout`: `ShutdownOnTimeout` stores and notifies, but the main loop's `select!`
  has no notification branch; an idle container does not close.
* `server_fails`: a bind that fails leaves by `?` before the store that "brings the
  container down".
* `closed`: the server's last store may come after the main loop's `Closed`. The run has no peer, so
  its trace has a server that is slow to stop; with a peer that stays connected it is the ordinary case.

A few more were seen and are not runs:

* The comment at `network/client.rs:145` speaks of "retrying connection" after a failed
  write, but the client keeps the same stream until its retries are used up.
* `heartbeat/receiver.rs:72` says "Check three times per timeout window"; a timeout
  below three seconds is checked once a second. And the framework's README says that the handler
  fires "if no request arrives within `timeout_ms`": it does at the next check, so a silence
  that ends before it goes unnoticed. `SilenceIsNoticed` has the exact bound.
* The framework's README says that the missed handler is called "for any target that doesn't
  respond within `response_timeout_ms`"; an answer that comes later, but before the tick
  that would give its request up, still counts. `MissesAreNoticed` has the exact bound.
* `is_closing_connection` (`network/client.rs:202`) looks for ShuttingDown only; a client in
  its third or fourth backoff (four and eight seconds) sleeps through the three seconds for which
  that is the state.

## The proofs

Every invariant, action property and refinement that a passing run checks is also proved for any value
of the constants. `PROJECT.json` lists the theorems. What is assumed
of the constants is next to their declaration: at least one retry, attempt and place in a
channel (`ClientAssumption`, `TxSenderAssumption`), tasks
and messages that are told apart (`ServerAssumption`, `BrokerAssumption`,
`ContainerAssumption`), a finite set of connections, a clock that counts (`HeartbeatAssumption`)
in units no longer than a second, container names that are names
(`HeartbeatConfigAssumption`), containers that start with something a configuration file
can say (`SetupAssumption`), and at least one payload, each of a length that its prefix can say
(`FramingAssumption`).

Each proof has the same outline. `...Inv` is the conjunction of the types, the invariants to be
shown and what they need to be inductive; TLC has checked it on the instances above. One lemma
per action, or group of actions, reduces the action to what it assigns and what it leaves
alone and shows that every conjunct is kept; a last one adds the environment and stuttering, and PTL
concludes. What an existential or a retry can do is first put into an operator of its own
(`TriesToSend`, `TickRequests`, `RecvAnswer`), so that the cases argue about its result only.

**Client** (`ClientProofs`). A failure adds one to `sendRetries`, so its bound
needs that the counter is below it before: `OperationalWhileAtWork` with the
second half of `RetryBudget`. The refinement maps what is being written followed by the
channel's content to the abstract queue. The invariant supplies that exactly one message
is being written inside `write_all` and none outside, so taking a message does not change the abstract
queue (`TakenInHand`), and a write, successful or not, removes its head (`HandEmptied`).

**Broker** (`BrokerProofs`). `ShutdownIsLastWord` speaks of all messages ever sent to a client,
`Sent(c)`. It is kept because `messagingActive` is false, or `forward_shutdown` is still at work,
as soon as a channel has seen the shutdown (`NoShutdownYet`), and because the messages under way belong to
the method the broker is in (`OutgoingWhileSending`). `BrokerImplementsClients` shows that
broker, heartbeats and writers of the state are an environment that `ClientSpec` allows,
so the theorems about clients hold under the broker. `BrokerTypeCorrect` says, with the types of
broker and clients, that a client's channel never holds more than its capacity
(`WithinCapacity`); `ServerTypeCorrect` says so of the channel the handlers share.

**Server** (`ServerProofs`). `ServerStopsInOrder` needs to know that nobody is accepted
outside the listening loop and that the loop is left only in a state other than Running
(`AcceptsWhileListening`). The refinement maps the message in a handler's hands, followed by the
bytes in its socket, to the queue of that connection and what the handler has passed on to the
delivered ones; `HandlersHoldTheirs` and `EndedIsLeft` rule out that an ended or absent handler
still holds something.

**Container** (`ContainerProofs`). `ContainerInv` is the conjunction of the three invariants above and
`MainInv`. The effect lemmas say what a step of one task does to the variables of the others, so
that each part's own lemmas apply to it. `SystemShutdownStopsClients` rests on
`InactiveUntilJoined`: between the end of `forward_shutdown` and the join of the clients the
main loop is in one of three places. `ContainerTypeCorrect` includes `HandsFull`: main loop and
component hold a message exactly while they pass one on. `ClosingIsAnnounced` is inductive. The container implements
`ServerSpec` and `ClientSpec`, and through them `LossyFifo`. It does not implement `BrokerSpec` step by
step, because the main loop's notification and its call of `shutdown` are one
step of the container and two of the broker's environment; its invariants are carried over
by the same lemmas instead.

**Heartbeats, whatever happens** (`HeartbeatProofs`). That the requests of a sender add up
(`OneFate`) needs that no id is used twice and none is forgotten (`IdsUsedOnce`,
`EveryIdHasAFate`); `CountedByIds` turns that into cardinalities. That the answer came
from the request's own target needs that every heartbeat under way names a request of the
container it comes from or goes to (`HeartbeatsBelong`). The bounds on silence and on missing
answers come from the timers: a watchdog that was not silent at its last check looks again in time
(`SilenceChecked`), and what is pending was not late at the last tick (`PendingPruned`). Start
configurations enter through `TaskOfType`: whatever a file says, the task it leads to has a
positive interval and finitely many targets.

**Heartbeats, while everything works** (`HeartbeatTimingProofs`). `TimingInv` knows since when each
message is where it is. Queues are in the order of their times, nothing in them is older than lag or
delay allow, and the requests on one connection are an interval apart, so that a queue of them has
room for the next one as far as they alone fill it. `SenderHeard` follows the next sign of life of a sender from the tick through the
connection into the receiver's channel, each place with the latest time it may be there. Where a full
queue turns a request away, an older one is ahead of it and comes sooner: not by itself, for the
component's messages may have filled the queue, but by the condition `QueueHeldRequest`, which the
proof carries along as a fact about the past that only stays true if it always was.
`TargetHeard` follows each pending request and its answer through the four queues of the round
trip. From these two, `on_timeout` and `on_missed` are called only with a reason.

**Framing** (`FramingProofs`). `FramingInv` says that the bytes in the handler's buffer, in the
connection and at the writer, one behind the other, are whole frames: `Flush` and `HandlerRead`
only move the cuts between the three, `Write` adds a frame at the end (`LastFrame`) and `HandlerParse` takes the
first one off (`TakesFirstFrame`). `WholeFrames` is the largest set of byte sequences that
are empty or start with a frame and continue in the set, so it needs neither a count of frames nor
recursion; TLC has checked the invariant with an equivalent recursive definition. A buffer that
starts whole frames and is not complete is shorter than the first of them (`IncompleteIsShort`),
which gives the bound on the buffer and the clean end after a shutdown, and that what is parsed
is what was written gives the refinement. Two things the provers do not do by themselves:

* induction. Where one is needed, it is the absence of a counterexample of the least size
  (`LeastOfSize`, from the library's `WFMin`).
* recursion. `Shifted`, `FrameLen` and `Frames` are recursive functions, of which nothing is known until
  some function is shown to obey their equation. `RecursionHasSolution` shows it for any
  recursion over data of a size with one call on something smaller; the equations follow
  (`ShiftedIsRecursive`, `FrameLenIsRecursive`, `FramesIsRecursive`). `PrefixSaysLength`, that the big-endian
  prefix of a length is read as that length, compares the two digit by digit:
  after i bytes the reader has the length without its last `PrefixLen - i` digits.

**Only model-checked.** All liveness: fairness and ENABLED are beyond the prover.

## What is not modelled

Logging, the loading and parsing of files, the formatting of durations and `ComponentState`
hold no state the rest of the system reads. The health data in a heartbeat response
is only logged. The factory's two-second pauses appear as the time between the starts of
the tasks. Not modelled although it matters:

* the lengths of the clients' sleeps, the 500 ms of `forward_shutdown` and the three seconds of
  the main loop, so nothing is said about who wins a race against them;
* a step of the system clock, which the receiver measures its silence with;
* the restart of a whole container: its sender numbers its requests from 1 again, and an
  old answer may settle a new request;
* the client of a connection whose name another one repeats: nobody holds its channel
  (`HeartbeatConfig` has the consequence for heartbeats);
* two containers end to end. `Client`, `Framing` and `Server` each implement `LossyFifo`, and a
  chain of lossy FIFOs promises no more than its parts.

## Plan

1. (done) `ContainerState`, `TxSender`, `LossyFifo`, `Client`, `ClientBroker`, `Server`,
   `HyperionContainer`; invariants of `Client` and its refinement of `LossyFifo`, proved.
2. (done) `HeartbeatConfig` and `Heartbeat` with a clock; `Framing`; what a dead component and
   the next message do to the main loop.
3. (done) Proofs of all safety properties and refinements, last those of `Framing`.
4. Perhaps: the three seconds of the main loop against the back-offs of the clients
   (1, 2, 4, 8 s) and the 500 ms of `forward_shutdown`, with the clock of `Heartbeat`.
