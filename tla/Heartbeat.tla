------------------------------ MODULE Heartbeat ------------------------------
(***************************************************************************)
(* The heartbeat tasks of the containers of a network (heartbeat/sender.rs *)
(* and receiver.rs), the main loops that pass heartbeats on to them, and   *)
(* the connections in between, with a clock.  A container has at most one  *)
(* such task.  The queue of a connection is the channel of its client,     *)
(* which the component's messages share with the heartbeats.  The clock    *)
(* does not advance while something is overdue: a task reacts within       *)
(* MaxLag to a timer or a message, and a connection that is not stalled    *)
(* hands a message over within MaxDelay.  A stalled connection (its client *)
(* backs off, the network is cut, the handler or the main loop waits for   *)
(* room) keeps what is in its queue or loses it; when it recovers, late    *)
(* messages come out.                                                      *)
(***************************************************************************)
EXTENDS HeartbeatConfig, FiniteSets, Functions

CONSTANTS Setup,           \* the networks to start: what each container reads
          MaxStart,        \* a sender starts at most so much after the others
          MaxLag, MaxDelay,
          ChannelCap       \* 32, of every mpsc channel

ASSUME HeartbeatAssumption == /\ MaxStart \in Nat /\ MaxLag \in Nat /\ MaxDelay \in Nat
                              /\ ChannelCap \in Nat \ {0}

\* What one container starts with: its configuration, the connections of its
\* topology, and whether the application gave it a timeout handler.
Start == [xml : HeartbeatXml, connections : Connections, hasHandler : BOOLEAN]

ASSUME SetupAssumption == Setup \subseteq [Container -> Start]

VARIABLES now,
          task,           \* the heartbeat task of each container, and
          route,          \* its client_senders; both fixed at the start
          due,            \* when the task's interval fires next
          nextId,         \* next_id of a sender
          pending,        \* requests without an answer so far
          answered,       \* requests removed by an answer, and whose it was
          missed,         \* requests for which on_missed was called
          lastReceived,   \* last_received_ms of a receiver
          timedOut,       \* on_timeout was called since then
          inbox,          \* content of the channel to the heartbeat task
          link,           \* heartbeats and the component's messages on their
                          \* way, per connection
          stalled,        \* connections that hand nothing over
          disturbed,      \* connections that have ever been stalled
          turnedAway,     \* what the queue of a connection held, each time it
                          \* was full and turned a heartbeat away
          notTaken        \* connections whose heartbeat found a full channel of
                          \* the task at their end

fixedVars == <<task, route>>

senderVars == <<nextId, pending, answered, missed>>

receiverVars == <<lastReceived, timedOut>>

linkVars == <<stalled, disturbed>>

lossVars == <<turnedAway, notTaken>>

heartbeatVars == <<now, fixedVars, due, senderVars, receiverVars, inbox, link, linkVars,
                   lossVars>>

Link == Container \X Name

IsSender(c) == task[c].kind = "sender"

IsReceiver(c) == task[c].kind = "receiver"

\* A container whose configuration panics is not there.
TaskOf(start) ==
    IF ToConfigPanics(start.xml)
      THEN NoTask
      ELSE SpawnHeartbeatTasks(ToConfig(start.xml), ClientSenders(start.connections),
                               start.hasHandler)

RouteOf(start) ==
    IF ToConfigPanics(start.xml) THEN <<>> ELSE ClientSenders(start.connections)

\* A sender consumes the first tick of its interval, a watchdog does not.
HeartbeatInit ==
    /\ now = 0
    /\ \E setup \in Setup :
          /\ task = [c \in Container |-> TaskOf(setup[c])]
          /\ route = [c \in Container |-> RouteOf(setup[c])]
    /\ \E start \in 0..MaxStart :
          due = [c \in Container |-> IF IsSender(c) THEN start + task[c].interval ELSE 0]
    /\ nextId = [c \in Container |-> 0]
    /\ pending = [c \in Container |-> {}]
    /\ answered = [c \in Container |-> {}]
    /\ missed = [c \in Container |-> {}]
    /\ lastReceived = [c \in Container |-> 0]
    /\ timedOut = [c \in Container |-> FALSE]
    /\ inbox = [c \in Container |-> <<>>]
    /\ link = [l \in Link |-> <<>>]
    /\ stalled = {}
    /\ disturbed = {}
    /\ turnedAway = [l \in Link |-> {}]
    /\ notTaken = {}

TrySend_Unbounded(messages) ==
    /\ link' = [l \in Link |-> IF l \in DOMAIN messages THEN Append(link[l], messages[l])
                                                        ELSE link[l]]
    /\ UNCHANGED turnedAway

HasRoom(l) == Len(link[l]) < ChannelCap

Kinds(queue) == {m.kind : m \in Range(queue)}

\* try_send of messages[l] to each connection l of the domain; of an Err the
\* sender of the message only writes a line to the log.
TrySend(messages) ==
    /\ link' = [l \in Link |-> IF l \in DOMAIN messages /\ HasRoom(l)
                                 THEN Append(link[l], messages[l]) ELSE link[l]]
    /\ turnedAway' = [l \in Link |-> IF l \in DOMAIN messages /\ ~HasRoom(l)
                                       THEN turnedAway[l] \cup {Kinds(link[l])}
                                       ELSE turnedAway[l]]

\* The interval fires; a late tick does not shift the later ones.
IntervalFires(c) == /\ task[c].kind # "none"
                    /\ due[c] <= now
                    /\ due' = [due EXCEPT ![c] = @ + task[c].interval]
-----------------------------------------------------------------------------
IsLate_Twice(c, r) == now - r.sent > 2 * task[c].responseTimeout

IsLate_Inclusive(c, r) == now - r.sent >= task[c].responseTimeout

IsLate(c, r) == now - r.sent > task[c].responseTimeout

RequestId_PerTick(c, place) == nextId[c] + 1

\* The id of the request to the target at that place of the iteration.
RequestId(c, place) == nextId[c] + place

\* HeartbeatSender: a request to every target, in the order of a HashMap,
\* then the requests that have waited too long are pruned and reported.
SenderTick(c) ==
    /\ IsSender(c)
    /\ IntervalFires(c)
    /\ LET targets == task[c].targets
       IN \E place \in Bijection(targets, 1..Cardinality(targets)) :
            LET asked == pending[c] \cup {[id |-> RequestId(c, place[t]), target |-> t,
                                           sent |-> now] : t \in targets}
                late == {r \in asked : IsLate(c, r)}
            IN /\ TrySend([l \in {c} \X targets |->
                             [kind |-> "request", id |-> RequestId(c, place[l[2]]),
                              from |-> c, at |-> now]])
               /\ pending' = [pending EXCEPT ![c] = asked \ late]
               /\ missed' = [missed EXCEPT ![c] = @ \cup late]
    /\ nextId' = [nextId EXCEPT ![c] = @ + Cardinality(task[c].targets)]
    /\ UNCHANGED <<now, fixedVars, answered, receiverVars, inbox, linkVars, notTaken>>

\* HeartbeatSender: a response that is not waited for changes nothing.
SenderRecv(c) ==
    /\ IsSender(c)
    /\ inbox[c] # <<>>
    /\ inbox' = [inbox EXCEPT ![c] = Tail(@)]
    /\ LET m == Head(inbox[c])
           found == {r \in pending[c] : r.id = m.id}
       IN /\ pending' = [pending EXCEPT ![c] = @ \ found]
          /\ answered' = [answered EXCEPT ![c] = @ \cup {[id |-> r.id, target |-> r.target,
                                                       by |-> m.from] : r \in found}]
    /\ UNCHANGED <<now, fixedVars, due, nextId, missed, receiverVars, link, linkVars, lossVars>>

\* HeartbeatReceiver: the response goes to the client that is called like the
\* sender of the request, if there is one.
ReceiverRecv(c) ==
    /\ IsReceiver(c)
    /\ inbox[c] # <<>>
    /\ inbox' = [inbox EXCEPT ![c] = Tail(@)]
    /\ lastReceived' = [lastReceived EXCEPT ![c] = now]
    /\ timedOut' = [timedOut EXCEPT ![c] = FALSE]
    /\ LET m == Head(inbox[c])
       IN TrySend([l \in {c} \X ({m.from} \cap DOMAIN route[c]) |->
                     [kind |-> "response", id |-> m.id, from |-> c, at |-> now]])
    /\ UNCHANGED <<now, fixedVars, due, senderVars, linkVars, notTaken>>

IsSilent_Inclusive(c) == now - lastReceived[c] >= task[c].timeout

IsSilent(c) == now - lastReceived[c] > task[c].timeout

\* HeartbeatReceiver: the watchdog calls on_timeout as long as it is silent.
ReceiverCheck(c) ==
    /\ IsReceiver(c)
    /\ IntervalFires(c)
    /\ timedOut' = [timedOut EXCEPT ![c] = @ \/ IsSilent(c)]
    /\ UNCHANGED <<now, fixedVars, senderVars, lastReceived, inbox, link, linkVars, lossVars>>

\* handle_message: a message of the component for connection l, which waits
\* for room behind what is queued already.
ComponentSends(l) ==
    /\ l[2] \in DOMAIN route[l[1]]
    /\ HasRoom(l)
    /\ link' = [link EXCEPT ![l] = Append(@, [kind |-> "application", id |-> 0,
                                              from |-> l[1], at |-> now])]
    /\ UNCHANGED <<now, fixedVars, due, senderVars, receiverVars, inbox, linkVars, lossVars>>

Expects == [sender |-> "response", receiver |-> "request", none |-> "nothing"]

\* The main loop of the container at the end of connection l passes a
\* heartbeat to its task by try_send, if there is such a task, and any other
\* message to the component.
Arrive(l) ==
    /\ link[l] # <<>>
    /\ l \notin stalled
    /\ link' = [link EXCEPT ![l] = Tail(@)]
    /\ LET m == Head(link[l])
           to == route[l[1]][l[2]]
           awaited == m.kind = Expects[task[to].kind]
           room == Len(inbox[to]) < ChannelCap
       IN /\ inbox' = IF awaited /\ room
                        THEN [inbox EXCEPT ![to] = Append(@, [m EXCEPT !.at = now])]
                        ELSE inbox
          /\ notTaken' = IF awaited /\ ~room THEN notTaken \cup {l} ELSE notTaken
    /\ UNCHANGED <<now, fixedVars, due, senderVars, receiverVars, linkVars, turnedAway>>

\* A message whose write fails is gone, as is one a handler cannot pass on.
Lose(l) == /\ l \in stalled
           /\ link[l] # <<>>
           /\ link' = [link EXCEPT ![l] = Tail(@)]
           /\ UNCHANGED <<now, fixedVars, due, senderVars, receiverVars, inbox, linkVars,
                          lossVars>>

Stall(l) == /\ l \notin stalled
            /\ stalled' = stalled \cup {l}
            /\ disturbed' = disturbed \cup {l}
            /\ UNCHANGED <<now, fixedVars, due, senderVars, receiverVars, inbox, link,
                           lossVars>>

Recover(l) == /\ l \in stalled
              /\ stalled' = stalled \ {l}
              /\ UNCHANGED <<now, fixedVars, due, senderVars, receiverVars, inbox, link,
                             disturbed, lossVars>>

\* Time passes, unless something must happen first.
Advance ==
    /\ \A c \in Container : /\ task[c].kind # "none" => now < due[c] + MaxLag
                            /\ inbox[c] # <<>> => now < Head(inbox[c]).at + MaxLag
    /\ \A l \in Link \ stalled : link[l] # <<>> => now < Head(link[l]).at + MaxDelay
    /\ now' = now + 1
    /\ UNCHANGED <<fixedVars, due, senderVars, receiverVars, inbox, link, linkVars, lossVars>>

TaskStep(c) == SenderTick(c) \/ SenderRecv(c) \/ ReceiverRecv(c) \/ ReceiverCheck(c)

HeartbeatStep ==
    \/ \E c \in Container : TaskStep(c)
    \/ \E l \in Link : ComponentSends(l) \/ Arrive(l) \/ Lose(l)

HeartbeatNext == HeartbeatStep \/ Advance \/ \E l \in Link : Stall(l) \/ Recover(l)

HeartbeatSpec == HeartbeatInit /\ [][HeartbeatNext]_heartbeatVars
-----------------------------------------------------------------------------
Request == [id : Nat \ {0}, target : Name, sent : Nat]

Kind == {"request", "response", "application"}

\* The id of an application message, which has none, is 0.
Message == [kind : Kind, id : Nat, from : Container, at : Nat]

Queue == {q \in Seq(Message) : Len(q) <= ChannelCap}

HeartbeatTypeOK ==
    /\ now \in Nat
    /\ \A c \in Container : task[c].kind \in DOMAIN Expects
    /\ due \in [Container -> Nat]
    /\ nextId \in [Container -> Nat]
    /\ pending \in [Container -> SUBSET Request]
    /\ answered \in [Container -> SUBSET [id : Nat \ {0}, target : Name, by : Container]]
    /\ missed \in [Container -> SUBSET Request]
    /\ lastReceived \in [Container -> Nat]
    /\ timedOut \in [Container -> BOOLEAN]
    /\ inbox \in [Container -> Queue]
    /\ link \in [Link -> Queue]
    /\ stalled \subseteq disturbed /\ disturbed \subseteq Link
    /\ turnedAway \in [Link -> SUBSET SUBSET Kind] /\ notTaken \subseteq Link

\* Nobody has a connection to c that is called like another container.
KnownByName(c) ==
    \A d, n \in Container : n \in DOMAIN route[d] /\ route[d][n] = c => n = c

\* Each request of a sender has exactly one fate, whenever its answer comes:
\* it waits, or was answered, or was reported as missed; and the answer came
\* from its own target, though it carries nothing but the id.  Only when
\* another sender's answers end up here can the id be that of its request.
OneFate == \A c \in Container :
    /\ {r.id : r \in pending[c] \cup answered[c] \cup missed[c]} = 1 .. nextId[c]
    /\ Cardinality(pending[c]) + Cardinality(answered[c]) + Cardinality(missed[c]) = nextId[c]
    /\ KnownByName(c) => \A r \in answered[c] : r.by = route[c][r.target]

\* No request waits longer than the response timeout and one interval, so a
\* silent target is reported, and the map of pending requests is bounded.
MissesAreNoticed == \A c \in Container : \A r \in pending[c] :
    now - r.sent <= task[c].responseTimeout + task[c].interval + MaxLag

\* What the network has to give for a target n of c to be heard: n leads to
\* a container with a receiver task, and that one can answer c.
Reaches(c, n) == /\ IsSender(c) /\ n \in task[c].targets
                 /\ IsReceiver(route[c][n])
                 /\ <<c, n>> \notin disturbed

CanAnswer(c, n) == LET d == route[c][n]
                   IN /\ c \in DOMAIN route[d] /\ route[d][c] = c
                      /\ <<d, c>> \notin disturbed

RoundTrip == 2 * (MaxDelay + MaxLag)

\* None of the heartbeats between c and n was turned away because of others:
\* of the component's messages on the way to n, of anything on the way back,
\* and in the channels of the two tasks, which other containers fill as well.
NothingCrowdedOut(c, n) ==
    LET there == <<c, n>>
        back == <<route[c][n], c>>
    IN /\ \A kinds \in turnedAway[there] : "application" \notin kinds
       /\ turnedAway[back] = {}
       /\ there \notin notTaken /\ back \notin notTaken

\* on_missed is not called for a target that is configured to answer, over
\* connections that work, if the timeout covers the round trip and none of
\* the heartbeats is crowded out.  The requests of c itself fill the queue to
\* the target only if the interval is a fraction of what one takes.
NoFalseMiss == \A c \in Container : \A r \in missed[c] :
    Reaches(c, r.target) /\ CanAnswer(c, r.target) /\ NothingCrowdedOut(c, r.target) =>
       \/ task[c].responseTimeout < RoundTrip
       \/ ChannelCap * task[c].interval <= MaxDelay + MaxLag

\* on_timeout has been called once the silence is longer than the timeout by
\* more than a third of it and by more than a second.
SilenceIsNoticed == \A c \in Container :
    /\ IsReceiver(c)
    /\ now - lastReceived[c] > task[c].timeout + task[c].timeout \div 3 + MaxLag
    /\ now - lastReceived[c] > task[c].timeout + Second + MaxLag
    => timedOut[c]

\* Where c's request to n found no room, an older one was still in the queue:
\* the component's messages alone did not fill it.
QueueHeldRequest(c, n) == \A kinds \in turnedAway[<<c, n>>] : "request" \in kinds

\* on_timeout is not called while some sender reaches the container, if the
\* timeout covers its start, its interval, the way and the lag at both ends,
\* and the messages of its component do not crowd its requests out.
NoFalseTimeout == \A c, s \in Container : \A n \in Name :
    Reaches(s, n) /\ route[s][n] = c /\ QueueHeldRequest(s, n) /\ timedOut[c]
        => task[c].timeout < MaxStart + task[s].interval + MaxDelay + 2 * MaxLag
=============================================================================
