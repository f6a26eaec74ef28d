------------------------ MODULE HeartbeatTimingProofs ------------------------
(***************************************************************************)
(* Theorems about what module Heartbeat promises while everything works:   *)
(* neither handler is called in error.  They need to know how long every   *)
(* heartbeat has been where it is.                                         *)
(***************************************************************************)
EXTENDS HeartbeatProofs, WellFoundedInduction

\* A queue in the order of the times at which it was filled.
InOrder(q) == \A i, j \in 1 .. Len(q) : i <= j => q[i].at <= q[j].at

\* Every channel is one, and none is filled before its time.
QueuesInOrder ==
    /\ \A l \in Link : InOrder(link[l]) /\ \A m \in Range(link[l]) : m.at <= now
    /\ \A c \in Container : InOrder(inbox[c]) /\ \A m \in Range(inbox[c]) : m.at <= now

\* Nothing waits longer than the lag of a task, or than the delay of a
\* connection that has never been stalled.
HandedOnInTime ==
    /\ \A c \in Container : \A m \in Range(inbox[c]) : now <= m.at + MaxLag
    /\ \A l \in Link \ disturbed : \A m \in Range(link[l]) : now <= m.at + MaxDelay

SendersAsk == \A c \in Container : IsSender(c) =>
    /\ due[c] <= now + MaxStart + task[c].interval
    /\ \A n \in Name : \A m \in Range(link[<<c, n>>]) : m.kind \in {"request", "application"}

\* Of the requests behind the last other message there is at least the
\* interval between each and the next, and between the last and the limit.
Spaced(q, interval, limit) ==
    \A i \in 1 .. Len(q) : (\A j \in i .. Len(q) : q[j].kind = "request") =>
       q[i].at + (Len(q) - i + 1) * interval <= limit

\* Of the requests that wait for one connection there is one per interval.
RequestsSpaced == \A c \in Container : IsSender(c) =>
    \A n \in Name : Spaced(link[<<c, n>>], task[c].interval, due[c] + MaxLag)

\* A target of a sender is the name of a connection to a container.
TargetsConnected == \A c \in Container : IsSender(c) =>
    \A n \in task[c].targets : route[c][n] \in Container

\* The next sign of life of a sender: a heartbeat in the channel of the
\* receiver, a request on the connection, or the tick that sends one.
SignOfLife(arrived, sent, tick, limit) ==
    \/ arrived # <<>> /\ Head(arrived).at + MaxLag <= limit
    \/ \E m \in Range(sent) : m.kind = "request" /\ m.at + MaxDelay + MaxLag <= limit
    \/ tick + MaxDelay + 2 * MaxLag <= limit

RequestComes(s, n) ==
    LET c == route[s][n]
    IN SignOfLife(inbox[c], link[<<s, n>>], due[s], lastReceived[c] + task[c].timeout)

TimeToHear(s, n) ==
    /\ Reaches(s, n) /\ QueueHeldRequest(s, n)
    /\ task[route[s][n]].timeout >= MaxStart + task[s].interval + MaxDelay + 2 * MaxLag

\* A receiver that a sender reaches in time is not silent.
SenderHeard == \A s \in Container, n \in Name :
    TimeToHear(s, n) => ~timedOut[route[s][n]] /\ RequestComes(s, n)

TimeToAnswer(c, n) ==
    /\ Reaches(c, n) /\ CanAnswer(c, n) /\ NothingCrowdedOut(c, n)
    /\ task[c].responseTimeout >= RoundTrip
    /\ ChannelCap * task[c].interval > MaxDelay + MaxLag

\* Where the request r of c, or its answer, can be, and since when: on the
\* connection to the target, in its channel, on the connection back, in the
\* channel of c.
OnItsWay(c, r, asked, taken, back, arrived) ==
    \/ \E m \in asked : m.kind = "request" /\ m.id = r.id /\ m.at <= r.sent
    \/ \E m \in taken : m.id = r.id /\ m.from = c /\ m.at <= r.sent + MaxDelay
    \/ \E m \in back : /\ m.id = r.id /\ m.kind = "response"
                       /\ m.at <= r.sent + MaxDelay + MaxLag
    \/ \E m \in arrived : m.id = r.id /\ m.at <= r.sent + 2 * MaxDelay + MaxLag

Travels(c, n, r) ==
    LET d == route[c][n]
    IN OnItsWay(c, r, Range(link[<<c, n>>]), Range(inbox[d]),
                      Range(link[<<d, c>>]), Range(inbox[c]))

\* A request to a target that answers in time is not given up.
TargetHeard == \A c \in Container, n \in Name :
    TimeToAnswer(c, n) => /\ \A r \in missed[c] : r.target # n
                          /\ \A r \in pending[c] : r.target = n => Travels(c, n, r)

\* The inductive invariant, together with HeartbeatInv.
TimingInv == /\ QueuesInOrder /\ HandedOnInTime /\ TargetsConnected
             /\ SendersAsk /\ RequestsSpaced /\ SenderHeard /\ TargetHeard
-----------------------------------------------------------------------------
\* The channels, and how long things have been in them.
LEMMA InOrderAppend ==
    ASSUME NEW q \in Queue, Len(q) < ChannelCap, NEW m \in Message, InOrder(q),
           \A x \in Range(q) : x.at <= m.at
    PROVE  InOrder(Append(q, m))
<1>1. q \in Seq(Message) /\ Len(q) \in Nat
  BY DEF Queue
<1>2. /\ Len(Append(q, m)) = Len(q) + 1
      /\ \A i \in 1 .. Len(q) + 1 : Append(q, m)[i] = IF i = Len(q) + 1 THEN m ELSE q[i]
  BY <1>1, AppendProperties
<1>3. \A i \in 1 .. Len(q) : q[i] \in Range(q)
  BY <1>1, ElementsOfSeq
<1> SUFFICES ASSUME NEW i \in 1 .. Len(q) + 1, NEW j \in 1 .. Len(q) + 1, i <= j
             PROVE  Append(q, m)[i].at <= Append(q, m)[j].at
  BY <1>2 DEF InOrder
<1>4. CASE j = Len(q) + 1 /\ i = Len(q) + 1
  <2>1. m.at \in Nat
    BY DEF Message
  <2> QED BY <1>2, <1>4, <2>1
<1>5. CASE j = Len(q) + 1 /\ i \in 1 .. Len(q)
  BY <1>1, <1>2, <1>3, <1>5
<1>6. CASE j \in 1 .. Len(q)
  <2>1. i \in 1 .. Len(q)
    BY <1>1, <1>6
  <2> QED BY <1>1, <1>2, <1>6, <2>1 DEF InOrder
<1> QED BY <1>1, <1>4, <1>5, <1>6

LEMMA QueueHead ==
    ASSUME NEW q \in Queue, q # <<>>, InOrder(q)
    PROVE  /\ InOrder(Tail(q))
           /\ \A m \in Range(q) : Head(q).at <= m.at
           /\ \A m \in Range(q) : m = Head(q) \/ m \in Range(Tail(q))
<1>1. q \in Seq(Message) /\ Len(q) \in Nat /\ Len(q) # 0
  BY DEF Queue
<1>2. /\ Head(q) = q[1] /\ Tail(q) \in Seq(Message) /\ Len(Tail(q)) = Len(q) - 1
      /\ \A i \in 1 .. Len(Tail(q)) : Tail(q)[i] = q[i + 1]
  BY <1>1, HeadTailProperties
<1>3. \A x : x \in Range(q) <=> \E i \in 1 .. Len(q) : x = q[i]
  BY <1>1, ElementsOfSeq
<1>4. \A x : x \in Range(Tail(q)) <=> \E i \in 1 .. Len(Tail(q)) : x = Tail(q)[i]
  BY <1>2, ElementsOfSeq
<1>5. InOrder(Tail(q))
  BY <1>1, <1>2 DEF InOrder
<1>6. ASSUME NEW m \in Range(q)
      PROVE  Head(q).at <= m.at /\ (m = Head(q) \/ m \in Range(Tail(q)))
  <2>1. PICK i \in 1 .. Len(q) : m = q[i]
    BY <1>3
  <2>2. Head(q).at <= m.at
    BY <1>1, <1>2, <2>1 DEF InOrder
  <2>3. CASE i = 1
    BY <1>2, <2>1, <2>2, <2>3
  <2>4. CASE i # 1
    <3>1. i - 1 \in 1 .. Len(Tail(q)) /\ Tail(q)[i - 1] = q[i]
      BY <1>1, <1>2, <2>4
    <3> QED BY <1>4, <2>1, <2>2, <3>1
  <2> QED BY <2>3, <2>4
<1> QED BY <1>5, <1>6

\* A queue that was not shortened has everything it had.
LEMMA QueueKept ==
    ASSUME NEW q \in Queue, NEW r,
           r = q \/ \E m \in Message : Len(q) < ChannelCap /\ r = Append(q, m)
    PROVE  Range(q) \subseteq Range(r)
BY QueueAppend

\* What one step does to one channel.
QueueMoves(q, r) ==
    \/ r = q
    \/ \E m \in Message : m.at = now /\ Len(q) < ChannelCap /\ r = Append(q, m)
    \/ q # <<>> /\ r = Tail(q)

LEMMA MovesInOrder ==
    ASSUME now \in Nat, NEW q \in Queue, InOrder(q), \A m \in Range(q) : m.at <= now,
           NEW r, QueueMoves(q, r)
    PROVE  /\ InOrder(r)
           /\ \A m \in Range(r) : m \in Range(q) \/ m.at = now
<1>1. CASE r = q
  BY <1>1
<1>2. ASSUME NEW m \in Message, m.at = now, Len(q) < ChannelCap, r = Append(q, m)
      PROVE  InOrder(r) /\ \A x \in Range(r) : x \in Range(q) \/ x.at = now
  <2>1. InOrder(r)
    BY <1>2, InOrderAppend
  <2>2. Range(r) = Range(q) \cup {m}
    BY <1>2, QueueAppend
  <2> QED BY <1>2, <2>1, <2>2
<1>3. CASE q # <<>> /\ r = Tail(q)
  BY <1>3, QueueHead, QueueTail
<1> QED BY <1>1, <1>2, <1>3 DEF QueueMoves

\* The requests of a tick, one per target.
TickRequests(c, messages, new) ==
    /\ TrySend(messages)
    /\ DOMAIN messages = {c} \X task[c].targets
    /\ \A l \in DOMAIN messages :
          /\ messages[l] \in Message /\ messages[l].at = now /\ messages[l].from = c
          /\ messages[l].kind = "request"
          /\ \A r \in new : r.target = l[2] => messages[l].id = r.id
    /\ \A r \in new : r \in Request /\ r.target \in task[c].targets /\ r.sent = now
    /\ \A r \in pending'[c] : r \in pending[c] \cup new
    /\ \A r \in missed'[c] : \/ r \in missed[c]
                             \/ r \in pending[c] \cup new /\ IsLate(c, r)
    /\ \A d \in Container \ {c} : pending'[d] = pending[d] /\ missed'[d] = missed[d]

LEMMA TickSends ==
    ASSUME HeartbeatInv, NEW c \in Container, SenderTick(c)
    PROVE  \E messages, new : TickRequests(c, messages, new)
<1>targets. PICK targets : targets = task[c].targets
  OBVIOUS
<1>n. PICK n : n = Cardinality(targets)
  OBVIOUS
<1>k. PICK k : k = nextId[c]
  OBVIOUS
<1>place. PICK place \in Bijection(targets, 1 .. n) :
            LET asked == pending[c] \cup {[id |-> RequestId(c, place[t]), target |-> t,
                                           sent |-> now] : t \in targets}
                late == {r \in asked : IsLate(c, r)}
            IN /\ TrySend([l \in {c} \X targets |->
                             [kind |-> "request", id |-> RequestId(c, place[l[2]]),
                              from |-> c, at |-> now]])
               /\ pending' = [pending EXCEPT ![c] = asked \ late]
               /\ missed' = [missed EXCEPT ![c] = @ \cup late]
  BY <1>targets, <1>n DEF SenderTick
<1>new. PICK new : new = {[id |-> k + place[t], target |-> t, sent |-> now] : t \in targets}
  OBVIOUS
<1>late. PICK late : late = {r \in pending[c] \cup new : IsLate(c, r)}
  OBVIOUS
<1>messages. PICK messages : messages = [l \in {c} \X targets |->
                                           [kind |-> "request", id |-> k + place[l[2]],
                                            from |-> c, at |-> now]]
  OBVIOUS
<1>1. /\ TrySend(messages)
      /\ pending' = [pending EXCEPT ![c] = (pending[c] \cup new) \ late]
      /\ missed' = [missed EXCEPT ![c] = missed[c] \cup late]
  BY <1>place, <1>new, <1>late, <1>messages, <1>k, Zenon DEF RequestId
<1>2. /\ now \in Nat /\ k \in Nat /\ pending \in [Container -> SUBSET Request]
      /\ missed \in [Container -> SUBSET Request]
  BY <1>k DEF HeartbeatInv, HeartbeatTypeOK
<1>3. \A t \in targets : place[t] \in 1 .. n
  <2>1. place \in Bijection(targets, 1 .. n)
    OBVIOUS
  <2> QED BY ONLY <2>1 DEF Bijection, Injection
<1>4. n \in Nat
  <2>1. IsFiniteSet(targets)
    BY <1>targets, KindsOfTasks DEF HeartbeatInv, SenderTick
  <2> QED BY <1>n, <2>1, FS_CardinalityType
<1>5. ASSUME NEW l \in DOMAIN messages
      PROVE  /\ messages[l] \in Message /\ messages[l].at = now /\ messages[l].from = c
             /\ messages[l].kind = "request"
             /\ \A r \in new : r.target = l[2] => messages[l].id = r.id
  <2>1. l \in {c} \X targets /\ l[2] \in targets
    BY <1>messages
  <2>2. k + place[l[2]] \in Nat \ {0}
    BY <1>2, <1>3, <1>4, <2>1
  <2>3. messages[l] = [kind |-> "request", id |-> k + place[l[2]], from |-> c, at |-> now]
    BY <1>messages, <2>1
  <2>4. messages[l] \in Message
    BY <1>2, <2>2, <2>3 DEF Message, Kind
  <2>5. \A r \in new : r.target = l[2] => messages[l].id = r.id
    BY <1>new, <2>3
  <2> QED BY <2>3, <2>4, <2>5
<1>6. \A r \in new : r \in Request /\ r.target \in targets /\ r.sent = now
  <2>1. \A t \in targets : t \in Name /\ k + place[t] \in Nat \ {0}
    <3>1. targets \subseteq Name
      BY <1>targets, KindsOfTasks DEF HeartbeatInv, SenderTick
    <3> QED BY <1>2, <1>3, <1>4, <3>1
  <2> QED BY <1>2, <1>new, <2>1 DEF Request
<1>7. DOMAIN messages = {c} \X targets
  BY <1>messages
<1>8. /\ \A r \in pending'[c] : r \in pending[c] \cup new
      /\ \A r \in missed'[c] : \/ r \in missed[c]
                               \/ r \in pending[c] \cup new /\ IsLate(c, r)
  BY <1>1, <1>2, <1>late
<1>9. \A d \in Container \ {c} : pending'[d] = pending[d] /\ missed'[d] = missed[d]
  BY <1>1, <1>2
<1>10. TickRequests(c, messages, new)
  BY <1>1, <1>5, <1>6, <1>7, <1>8, <1>9, <1>targets DEF TickRequests
<1> QED BY <1>10

\* The answer of a receiver, if it has a connection to send it on.
RecvAnswer(c, m, messages) ==
    /\ TrySend(messages)
    /\ DOMAIN messages = {c} \X ({m.from} \cap DOMAIN route[c])
    /\ \A l \in DOMAIN messages :
          /\ messages[l] \in Message /\ messages[l].at = now
          /\ messages[l].kind = "response" /\ messages[l].id = m.id

LEMMA RecvSends ==
    ASSUME HeartbeatInv, NEW c \in Container, ReceiverRecv(c)
    PROVE  \E messages : RecvAnswer(c, Head(inbox[c]), messages)
<1>m. PICK m : m = Head(inbox[c])
  OBVIOUS
<1>messages. PICK messages :
                messages = [l \in {c} \X ({m.from} \cap DOMAIN route[c]) |->
                              [kind |-> "response", id |-> m.id, from |-> c, at |-> now]]
  OBVIOUS
<1>1. TrySend(messages) /\ inbox[c] # <<>>
  BY <1>m, <1>messages DEF ReceiverRecv
<1>2. m \in Message /\ now \in Nat
  BY <1>m, <1>1, QueueTail DEF HeartbeatInv, HeartbeatTypeOK
<1>3. \A l \in DOMAIN messages :
          /\ messages[l] \in Message /\ messages[l].at = now
          /\ messages[l].kind = "response" /\ messages[l].id = m.id
  BY <1>2, <1>messages DEF Message, Kind
<1>4. RecvAnswer(c, m, messages)
  BY <1>1, <1>3, <1>messages DEF RecvAnswer
<1> QED BY <1>m, <1>4

LEMMA TrySendMoves ==
    ASSUME link \in [Link -> Queue], NEW messages, TrySend(messages),
           \A l \in DOMAIN messages : messages[l] \in Message /\ messages[l].at = now
    PROVE  \A l \in Link : QueueMoves(link[l], link'[l])
<1> SUFFICES ASSUME NEW l \in Link PROVE QueueMoves(link[l], link'[l])
  OBVIOUS
<1>1. link'[l] = IF l \in DOMAIN messages /\ Len(link[l]) < ChannelCap
                   THEN Append(link[l], messages[l]) ELSE link[l]
  BY DEF TrySend, HasRoom
<1> QED BY <1>1 DEF QueueMoves

\* What one step of a task or a main loop does to all of them.
ChannelsMove ==
    /\ UNCHANGED <<now, fixedVars, disturbed>>
    /\ \A l \in Link : QueueMoves(link[l], link'[l])
    /\ \A c \in Container : QueueMoves(inbox[c], inbox'[c])

LEMMA StepsMoveChannels ==
    ASSUME HeartbeatInv, HeartbeatStep
    PROVE  ChannelsMove
<1>t. /\ now \in Nat /\ link \in [Link -> Queue] /\ inbox \in [Container -> Queue]
  BY DEF HeartbeatInv, HeartbeatTypeOK
<1>0. \A q : QueueMoves(q, q)
  BY DEF QueueMoves
<1>1. ASSUME NEW c \in Container, SenderTick(c) PROVE ChannelsMove
  <2>0. PICK messages, new : TickRequests(c, messages, new)
    BY <1>1, TickSends
  <2>1. /\ TrySend(messages)
        /\ \A l \in DOMAIN messages : messages[l] \in Message /\ messages[l].at = now
    BY ONLY <2>0 DEF TickRequests
  <2>2. UNCHANGED <<now, fixedVars, inbox, linkVars>>
    BY <1>1 DEF SenderTick
  <2>3. \A l \in Link : QueueMoves(link[l], link'[l])
    BY <1>t, <2>1, TrySendMoves
  <2>4. \A d \in Container : QueueMoves(inbox[d], inbox'[d])
    BY <1>0, <2>2
  <2> QED BY <2>2, <2>3, <2>4 DEF ChannelsMove, linkVars
<1>2. ASSUME NEW c \in Container, SenderRecv(c) PROVE ChannelsMove
  <2>1. /\ UNCHANGED <<now, fixedVars, link, linkVars>>
        /\ inbox[c] # <<>> /\ inbox' = [inbox EXCEPT ![c] = Tail(@)]
    BY <1>2 DEF SenderRecv
  <2>2. \A d \in Container : QueueMoves(inbox[d], inbox'[d])
    BY <1>t, <2>1 DEF QueueMoves
  <2>3. \A l \in Link : QueueMoves(link[l], link'[l])
    BY <1>0, <2>1
  <2> QED BY <2>1, <2>2, <2>3 DEF ChannelsMove, linkVars
<1>3. ASSUME NEW c \in Container, ReceiverRecv(c) PROVE ChannelsMove
  <2>0. PICK messages : RecvAnswer(c, Head(inbox[c]), messages)
    BY <1>3, RecvSends
  <2>1. /\ TrySend(messages)
        /\ \A l \in DOMAIN messages : messages[l] \in Message /\ messages[l].at = now
    BY ONLY <2>0 DEF RecvAnswer
  <2>2. /\ UNCHANGED <<now, fixedVars, linkVars>>
        /\ inbox[c] # <<>> /\ inbox' = [inbox EXCEPT ![c] = Tail(@)]
    BY <1>3 DEF ReceiverRecv
  <2>3. \A l \in Link : QueueMoves(link[l], link'[l])
    BY <1>t, <2>1, TrySendMoves
  <2>4. \A d \in Container : QueueMoves(inbox[d], inbox'[d])
    BY <1>t, <2>2 DEF QueueMoves
  <2> QED BY <2>2, <2>3, <2>4 DEF ChannelsMove, linkVars
<1>4. ASSUME NEW c \in Container, ReceiverCheck(c) PROVE ChannelsMove
  <2>1. UNCHANGED <<now, fixedVars, inbox, link, linkVars>>
    BY <1>4 DEF ReceiverCheck
  <2> QED BY <1>0, <2>1 DEF ChannelsMove, linkVars
<1>5. ASSUME NEW l \in Link, Arrive(l) PROVE ChannelsMove
  <2>m. PICK given : given = [Head(link[l]) EXCEPT !.at = now]
    OBVIOUS
  <2>to. PICK to : to = route[l[1]][l[2]]
    OBVIOUS
  <2>1. /\ UNCHANGED <<now, fixedVars, linkVars>>
        /\ link[l] # <<>> /\ link' = [link EXCEPT ![l] = Tail(@)]
        /\ \/ inbox' = inbox
           \/ /\ Len(inbox[to]) < ChannelCap
              /\ inbox' = [inbox EXCEPT ![to] = Append(@, given)]
    BY <1>5, <2>m, <2>to DEF Arrive
  <2>2. given \in Message /\ given.at = now
    <3>1. Head(link[l]) \in Message
      BY <1>t, <2>1, QueueTail
    <3> QED BY <1>t, <2>m, <3>1 DEF Message
  <2>3. \A k \in Link : QueueMoves(link[k], link'[k])
    BY <1>t, <2>1 DEF QueueMoves
  <2>4. \A d \in Container : QueueMoves(inbox[d], inbox'[d])
    BY <1>t, <2>1, <2>2 DEF QueueMoves
  <2> QED BY <2>1, <2>3, <2>4 DEF ChannelsMove, linkVars
<1>6. ASSUME NEW l \in Link, ComponentSends(l) PROVE ChannelsMove
  <2>m. PICK m : m = [kind |-> "application", id |-> 0, from |-> l[1], at |-> now]
    OBVIOUS
  <2>1. /\ UNCHANGED <<now, fixedVars, inbox, linkVars>>
        /\ Len(link[l]) < ChannelCap /\ link' = [link EXCEPT ![l] = Append(@, m)]
    BY <1>6, <2>m DEF ComponentSends, HasRoom
  <2>2. m \in Message /\ m.at = now
    BY <1>t, <2>m DEF Message, Kind, Link
  <2>3. \A k \in Link : QueueMoves(link[k], link'[k])
    BY <1>t, <2>1, <2>2 DEF QueueMoves
  <2> QED BY <1>0, <2>1, <2>3 DEF ChannelsMove, linkVars
<1>7. ASSUME NEW l \in Link, Lose(l) PROVE ChannelsMove
  <2>1. /\ UNCHANGED <<now, fixedVars, inbox, linkVars>>
        /\ link[l] # <<>> /\ link' = [link EXCEPT ![l] = Tail(@)]
    BY <1>7 DEF Lose
  <2>2. \A k \in Link : QueueMoves(link[k], link'[k])
    BY <1>t, <2>1 DEF QueueMoves
  <2> QED BY <1>0, <2>1, <2>2 DEF ChannelsMove, linkVars
<1> QED BY <1>1, <1>2, <1>3, <1>4, <1>5, <1>6, <1>7 DEF HeartbeatStep, TaskStep

LEMMA QueuesKeep ==
    ASSUME HeartbeatInv, QueuesInOrder, HandedOnInTime, [HeartbeatNext]_heartbeatVars
    PROVE  QueuesInOrder' /\ HandedOnInTime'
<1>t. /\ now \in Nat /\ link \in [Link -> Queue] /\ inbox \in [Container -> Queue]
      /\ stalled \subseteq disturbed /\ MaxLag \in Nat /\ MaxDelay \in Nat
  BY HeartbeatAssumption DEF HeartbeatInv, HeartbeatTypeOK
<1>at. \A q \in Queue : \A m \in Range(q) : m.at \in Nat
  <2> SUFFICES ASSUME NEW q \in Queue, NEW m \in Range(q) PROVE m.at \in Nat
    OBVIOUS
  <2>1. q \in Seq(Message)
    BY DEF Queue
  <2>2. m \in Message
    BY <2>1, RangeOfSeq
  <2> QED BY <2>2 DEF Message
<1>1. CASE HeartbeatStep
  <2>1. now' = now /\ disturbed' = disturbed
    BY <1>1, StepsMoveChannels DEF ChannelsMove
  <2>2. ASSUME NEW l \in Link
        PROVE  InOrder(link'[l]) /\ \A m \in Range(link'[l]) : m \in Range(link[l]) \/ m.at = now
    <3>1. QueueMoves(link[l], link'[l]) /\ link[l] \in Queue
      BY <1>1, <1>t, StepsMoveChannels DEF ChannelsMove
    <3>2. InOrder(link[l]) /\ \A m \in Range(link[l]) : m.at <= now
      BY DEF QueuesInOrder
    <3> QED BY <1>t, <3>1, <3>2, MovesInOrder
  <2>3. ASSUME NEW c \in Container
        PROVE  InOrder(inbox'[c]) /\ \A m \in Range(inbox'[c]) : m \in Range(inbox[c]) \/ m.at = now
    <3>1. QueueMoves(inbox[c], inbox'[c]) /\ inbox[c] \in Queue
      BY <1>1, <1>t, StepsMoveChannels DEF ChannelsMove
    <3>2. InOrder(inbox[c]) /\ \A m \in Range(inbox[c]) : m.at <= now
      BY DEF QueuesInOrder
    <3> QED BY <1>t, <3>1, <3>2, MovesInOrder
  <2>4. QueuesInOrder'
    <3>1. \A l \in Link : InOrder(link'[l]) /\ \A m \in Range(link'[l]) : m.at <= now'
      BY <1>t, <2>1, <2>2 DEF QueuesInOrder
    <3>2. \A c \in Container : InOrder(inbox'[c]) /\ \A m \in Range(inbox'[c]) : m.at <= now'
      BY <1>t, <2>1, <2>3 DEF QueuesInOrder
    <3> QED BY ONLY <3>1, <3>2 DEF QueuesInOrder, InOrder
  <2>5. \A c \in Container : \A m \in Range(inbox'[c]) : now' <= m.at + MaxLag
    BY <1>t, <2>1, <2>3 DEF HandedOnInTime
  <2>6. \A l \in Link \ disturbed' : \A m \in Range(link'[l]) : now' <= m.at + MaxDelay
    BY <1>t, <2>1, <2>2 DEF HandedOnInTime
  <2> QED BY <2>4, <2>5, <2>6 DEF HandedOnInTime
<1>2. CASE Advance
  <2>1. /\ now' = now + 1
        /\ UNCHANGED <<inbox, link, linkVars>>
        /\ \A c \in Container : inbox[c] # <<>> => now < Head(inbox[c]).at + MaxLag
        /\ \A l \in Link \ stalled : link[l] # <<>> => now < Head(link[l]).at + MaxDelay
    BY <1>2 DEF Advance
  <2>2. ASSUME NEW q \in Queue, NEW m \in Range(q), InOrder(q)
        PROVE  q # <<>> /\ Head(q).at \in Nat /\ m.at \in Nat /\ Head(q).at <= m.at
    <3>1. q # <<>>
      BY EmptyQueue
    <3> QED BY <1>at, <2>2, <3>1, QueueHead, QueueTail
  <2>3. QueuesInOrder'
    <3>1. \A x \in Nat : x <= now => x <= now'
      BY <1>t, <2>1
    <3> QED BY <1>t, <1>at, <2>1, <3>1 DEF QueuesInOrder, InOrder
  <2>4. \A c \in Container : \A m \in Range(inbox'[c]) : now' <= m.at + MaxLag
    <3> SUFFICES ASSUME NEW c \in Container, NEW m \in Range(inbox'[c])
                 PROVE  now' <= m.at + MaxLag
      OBVIOUS
    <3>1. inbox[c] \in Queue /\ m \in Range(inbox[c]) /\ InOrder(inbox[c])
      BY <1>t, <2>1 DEF QueuesInOrder
    <3>2. now < Head(inbox[c]).at + MaxLag
      BY <2>1, <2>2, <3>1
    <3>3. Head(inbox[c]).at \in Nat /\ m.at \in Nat /\ Head(inbox[c]).at <= m.at
      BY <2>2, <3>1
    <3> QED BY ONLY <1>t, <2>1, <3>2, <3>3
  <2>5. \A l \in Link \ disturbed' : \A m \in Range(link'[l]) : now' <= m.at + MaxDelay
    <3> SUFFICES ASSUME NEW l \in Link \ disturbed', NEW m \in Range(link'[l])
                 PROVE  now' <= m.at + MaxDelay
      OBVIOUS
    <3>1. link[l] \in Queue /\ m \in Range(link[l]) /\ InOrder(link[l]) /\ l \in Link \ stalled
      BY <1>t, <2>1 DEF QueuesInOrder, linkVars
    <3>2. now < Head(link[l]).at + MaxDelay
      BY <2>1, <2>2, <3>1
    <3>3. Head(link[l]).at \in Nat /\ m.at \in Nat /\ Head(link[l]).at <= m.at
      BY <2>2, <3>1
    <3> QED BY ONLY <1>t, <2>1, <3>2, <3>3
  <2> QED BY <2>3, <2>4, <2>5 DEF HandedOnInTime
<1>3. CASE \/ \E l \in Link : Stall(l) \/ Recover(l)
           \/ UNCHANGED heartbeatVars
  <2>1. UNCHANGED <<now, inbox, link>> /\ disturbed \subseteq disturbed'
    BY <1>3 DEF Stall, Recover, heartbeatVars, linkVars
  <2> QED BY <2>1 DEF QueuesInOrder, HandedOnInTime
<1> QED BY <1>1, <1>2, <1>3 DEF HeartbeatNext
-----------------------------------------------------------------------------
\* What a sender puts into its connections, and how often.
LEMMA SpacedTail ==
    ASSUME NEW q \in Queue, q # <<>>, NEW interval \in Nat, NEW limit \in Nat,
           Spaced(q, interval, limit)
    PROVE  Spaced(Tail(q), interval, limit)
<1>1. q \in Seq(Message) /\ Len(q) \in Nat /\ Len(q) # 0
  BY DEF Queue
<1>2. /\ Len(Tail(q)) = Len(q) - 1
      /\ \A i \in 1 .. Len(Tail(q)) : Tail(q)[i] = q[i + 1]
  BY <1>1, HeadTailProperties
<1> SUFFICES ASSUME NEW i \in 1 .. Len(Tail(q)),
                    \A j \in i .. Len(Tail(q)) : Tail(q)[j].kind = "request"
             PROVE  Tail(q)[i].at + (Len(Tail(q)) - i + 1) * interval <= limit
  BY Zenon DEF Spaced
<1>0. i + 1 \in 1 .. Len(q) /\ \A j \in i + 1 .. Len(q) : q[j].kind = "request"
  <2>1. ASSUME NEW j \in i + 1 .. Len(q) PROVE q[j].kind = "request"
    <3>1. j - 1 \in i .. Len(Tail(q)) /\ j - 1 \in 1 .. Len(Tail(q)) /\ (j - 1) + 1 = j
      BY <1>1, <1>2
    <3>2. Tail(q)[j - 1] = q[j]
      BY <1>2, <3>1
    <3> QED BY <3>1, <3>2
  <2> QED BY <1>1, <1>2, <2>1
<1>3. q[i + 1].at + (Len(q) - (i + 1) + 1) * interval <= limit
  BY <1>0 DEF Spaced
<1>4. Len(Tail(q)) - i + 1 = Len(q) - (i + 1) + 1
  BY <1>1, <1>2
<1> QED BY <1>2, <1>3, <1>4

LEMMA SpacedAppend ==
    ASSUME NEW q \in Queue, NEW m \in Message, NEW interval \in Nat, NEW limit \in Nat,
           m.at <= limit, Spaced(q, interval, limit)
    PROVE  Spaced(Append(q, m), interval, limit + interval)
<1>a. PICK a : a = Append(q, m)
  OBVIOUS
<1>1. q \in Seq(Message) /\ Len(q) \in Nat
  BY DEF Queue
<1>2. /\ Len(a) = Len(q) + 1
      /\ \A i \in 1 .. Len(q) + 1 : a[i] = IF i = Len(q) + 1 THEN m ELSE q[i]
  BY <1>a, <1>1, AppendProperties
<1>3. ASSUME NEW i \in 1 .. Len(a), \A j \in i .. Len(a) : a[j].kind = "request"
      PROVE  a[i].at + (Len(a) - i + 1) * interval <= limit + interval
  <2>p. PICK p : p = (Len(a) - i + 1) * interval
    OBVIOUS
  <2>1. CASE i = Len(a)
    <3>1. Len(a) - i + 1 = 1
      BY <1>1, <1>2, <2>1
    <3>2. p = interval
      BY <2>p, <3>1
    <3>3. a[i] = m /\ m.at \in Nat
      BY <1>1, <1>2, <2>1 DEF Message
    <3>4. a[i].at + p <= limit + interval
      BY <3>2, <3>3
    <3> QED BY <2>p, <3>4
  <2>2. CASE i # Len(a)
    <3>k. PICK k : k = Len(q) - i + 1
      OBVIOUS
    <3>1. i \in 1 .. Len(q) /\ a[i] = q[i]
      BY <1>1, <1>2, <2>2
    <3>2. k \in Nat /\ Len(a) - i + 1 = k + 1
      BY <1>1, <1>2, <3>k, <3>1
    <3>r. PICK r : r = k * interval
      OBVIOUS
    <3>3. r \in Nat /\ p = r + interval
      BY <2>p, <3>2, <3>r
    <3>0. \A j \in i .. Len(q) : q[j].kind = "request"
      BY <1>1, <1>2, <1>3, <3>1
    <3>4. q[i].at + r <= limit
      BY <3>0, <3>1, <3>k, <3>r DEF Spaced
    <3>5. q[i].at \in Nat
      <4>1. q[i] \in Message
        BY <1>1, <3>1
      <4> QED BY <4>1 DEF Message
    <3>6. q[i].at + p <= limit + interval
      BY <3>3, <3>4, <3>5
    <3> QED BY <2>p, <3>1, <3>6
  <2> QED BY <2>1, <2>2
<1>4. Spaced(a, interval, limit + interval)
  BY <1>3, Zenon DEF Spaced
<1> QED BY <1>a, <1>4

LEMMA SpacedOther ==
    ASSUME NEW q \in Queue, NEW m \in Message, m.kind # "request",
           NEW interval, NEW limit
    PROVE  Spaced(Append(q, m), interval, limit)
<1>a. PICK a : a = Append(q, m)
  OBVIOUS
<1>1. q \in Seq(Message) /\ Len(q) \in Nat
  BY DEF Queue
<1>2. Len(a) = Len(q) + 1 /\ a[Len(a)] = m
  BY <1>a, <1>1, AppendProperties
<1>3. \A i \in 1 .. Len(a) : Len(a) \in i .. Len(a)
  BY <1>1, <1>2
<1>4. Spaced(a, interval, limit)
  BY <1>2, <1>3, Zenon DEF Spaced
<1> QED BY <1>a, <1>4

LEMMA SpacedLater ==
    ASSUME NEW q \in Queue, NEW interval \in Nat, NEW limit \in Nat, NEW later \in Nat,
           limit <= later, Spaced(q, interval, limit)
    PROVE  Spaced(q, interval, later)
<1> SUFFICES ASSUME NEW i \in 1 .. Len(q), \A j \in i .. Len(q) : q[j].kind = "request"
             PROVE  q[i].at + (Len(q) - i + 1) * interval <= later
  BY Zenon DEF Spaced
<1>1. q \in Seq(Message) /\ Len(q) \in Nat
  BY DEF Queue
<1>2. q[i] \in Message
  BY <1>1
<1>3. q[i].at \in Nat /\ Len(q) - i + 1 \in Nat
  BY <1>1, <1>2 DEF Message
<1>4. (Len(q) - i + 1) * interval \in Nat
  BY <1>3
<1>5. q[i].at + (Len(q) - i + 1) * interval <= limit
  BY DEF Spaced
<1> QED BY ONLY <1>3, <1>4, <1>5, limit \in Nat, later \in Nat, limit <= later

\* What one step does to the timer of a sender and to its connections.
Asks(c) == /\ due[c] <= now /\ due'[c] = due[c] + task[c].interval
           /\ \A n \in Name :
                 \/ link'[<<c, n>>] = link[<<c, n>>]
                 \/ \E m \in Message : /\ m.kind = "request" /\ m.at = now
                                       /\ Len(link[<<c, n>>]) < ChannelCap
                                       /\ link'[<<c, n>>] = Append(link[<<c, n>>], m)

DoesNotAsk(c) ==
    /\ due'[c] = due[c]
    /\ \A n \in Name :
          \/ link'[<<c, n>>] = link[<<c, n>>]
          \/ link[<<c, n>>] # <<>> /\ link'[<<c, n>>] = Tail(link[<<c, n>>])
          \/ \E m \in Message : /\ m.kind = "application" /\ Len(link[<<c, n>>]) < ChannelCap
                                /\ link'[<<c, n>>] = Append(link[<<c, n>>], m)

LEMMA SenderSteps ==
    ASSUME HeartbeatInv, HeartbeatStep, NEW c \in Container, IsSender(c)
    PROVE  Asks(c) \/ DoesNotAsk(c)
<1>t. /\ due \in [Container -> Nat] /\ link \in [Link -> Queue]
      /\ \A n \in Name : <<c, n>> \in Link
  BY DEF HeartbeatInv, HeartbeatTypeOK, Link
<1>1. ASSUME NEW d \in Container, SenderTick(d) PROVE Asks(c) \/ DoesNotAsk(c)
  <2>1. IntervalFires(d)
    BY <1>1 DEF SenderTick
  <2>2. PICK messages, new : TickRequests(d, messages, new)
    BY <1>1, TickSends
  <2>3. /\ TrySend(messages) /\ DOMAIN messages = {d} \X task[d].targets
        /\ \A l \in DOMAIN messages :
              messages[l] \in Message /\ messages[l].at = now /\ messages[l].kind = "request"
    BY ONLY <2>2 DEF TickRequests
  <2>4. \A l \in Link : link'[l] = IF l \in DOMAIN messages /\ Len(link[l]) < ChannelCap
                                     THEN Append(link[l], messages[l]) ELSE link[l]
    BY <2>3 DEF TrySend, HasRoom
  <2>5. CASE d = c
    <3>1. due[c] <= now /\ due'[c] = due[c] + task[c].interval
      BY <1>t, <2>1, <2>5 DEF IntervalFires
    <3> QED BY <1>t, <2>3, <2>4, <3>1 DEF Asks
  <2>6. CASE d # c
    <3>1. due'[c] = due[c]
      BY <1>t, <2>1, <2>6 DEF IntervalFires
    <3>2. \A n \in Name : <<c, n>> \notin DOMAIN messages
      BY <2>3, <2>6
    <3> QED BY <1>t, <2>4, <3>1, <3>2 DEF DoesNotAsk
  <2> QED BY <2>5, <2>6
<1>2. ASSUME NEW d \in Container, ReceiverRecv(d) PROVE DoesNotAsk(c)
  <2>1. due' = due /\ IsReceiver(d)
    BY <1>2 DEF ReceiverRecv
  <2>2. PICK messages : RecvAnswer(d, Head(inbox[d]), messages)
    BY <1>2, RecvSends
  <2>3. TrySend(messages) /\ DOMAIN messages = {d} \X ({Head(inbox[d]).from} \cap DOMAIN route[d])
    BY ONLY <2>2 DEF RecvAnswer
  <2>4. \A n \in Name : <<c, n>> \notin DOMAIN messages
    BY <2>1, <2>3 DEF IsSender, IsReceiver
  <2>5. \A n \in Name : link'[<<c, n>>] = link[<<c, n>>]
    BY <1>t, <2>3, <2>4 DEF TrySend
  <2> QED BY <2>1, <2>5 DEF DoesNotAsk
<1>3. ASSUME NEW d \in Container, SenderRecv(d) PROVE DoesNotAsk(c)
  BY <1>3 DEF SenderRecv, DoesNotAsk
<1>4. ASSUME NEW d \in Container, ReceiverCheck(d) PROVE DoesNotAsk(c)
  <2>1. link' = link /\ IsReceiver(d) /\ IntervalFires(d)
    BY <1>4 DEF ReceiverCheck
  <2>2. due'[c] = due[c]
    BY <1>t, <2>1 DEF IntervalFires, IsSender, IsReceiver
  <2> QED BY <2>1, <2>2 DEF DoesNotAsk
<1>5. ASSUME NEW l \in Link, Arrive(l) PROVE DoesNotAsk(c)
  <2>1. due' = due /\ link[l] # <<>> /\ link' = [link EXCEPT ![l] = Tail(@)]
    BY <1>5 DEF Arrive
  <2> QED BY <1>t, <2>1 DEF DoesNotAsk
<1>6. ASSUME NEW l \in Link, Lose(l) PROVE DoesNotAsk(c)
  <2>1. due' = due /\ link[l] # <<>> /\ link' = [link EXCEPT ![l] = Tail(@)]
    BY <1>6 DEF Lose
  <2> QED BY <1>t, <2>1 DEF DoesNotAsk
<1>7. ASSUME NEW l \in Link, ComponentSends(l) PROVE DoesNotAsk(c)
  <2>m. PICK m : m = [kind |-> "application", id |-> 0, from |-> l[1], at |-> now]
    OBVIOUS
  <2>1. /\ due' = due /\ Len(link[l]) < ChannelCap
        /\ link' = [link EXCEPT ![l] = Append(@, m)]
    BY <1>7, <2>m DEF ComponentSends, HasRoom
  <2>2. m \in Message /\ m.kind = "application"
    BY <2>m DEF Message, Kind, Link, HeartbeatInv, HeartbeatTypeOK
  <2> QED BY <1>t, <2>1, <2>2 DEF DoesNotAsk
<1> QED BY <1>1, <1>2, <1>3, <1>4, <1>5, <1>6, <1>7 DEF HeartbeatStep, TaskStep

LEMMA SendersKeep ==
    ASSUME HeartbeatInv, SendersAsk, RequestsSpaced, [HeartbeatNext]_heartbeatVars
    PROVE  SendersAsk' /\ RequestsSpaced'
<1>t. /\ now \in Nat /\ due \in [Container -> Nat] /\ link \in [Link -> Queue]
      /\ MaxLag \in Nat /\ MaxStart \in Nat
      /\ \A c \in Container, n \in Name : <<c, n>> \in Link
  BY HeartbeatAssumption DEF HeartbeatInv, HeartbeatTypeOK, Link
<1> SUFFICES ASSUME NEW c \in Container, IsSender(c)'
             PROVE  /\ due'[c] <= now' + MaxStart + task'[c].interval
                    /\ \A n \in Name :
                          /\ \A m \in Range(link'[<<c, n>>]) : m.kind \in {"request", "application"}
                          /\ Spaced(link'[<<c, n>>], task'[c].interval, due'[c] + MaxLag)
  BY DEF SendersAsk, RequestsSpaced, Spaced
<1>1. task' = task
  <2>1. HeartbeatStep => task' = task
    BY StepsMoveChannels DEF ChannelsMove, fixedVars
  <2> QED BY <2>1 DEF HeartbeatNext, Advance, Stall, Recover, heartbeatVars, fixedVars
<1>2. IsSender(c) /\ task[c].interval \in Nat /\ task[c].kind # "none"
  BY <1>1, KindsOfTasks DEF IsSender, HeartbeatInv
<1>3. /\ due[c] \in Nat /\ due[c] <= now + MaxStart + task[c].interval
      /\ now <= due[c] + MaxLag
      /\ \A n \in Name : /\ link[<<c, n>>] \in Queue
                         /\ \A m \in Range(link[<<c, n>>]) : m.kind \in {"request", "application"}
                         /\ Spaced(link[<<c, n>>], task[c].interval, due[c] + MaxLag)
  BY <1>t, <1>2 DEF SendersAsk, RequestsSpaced, HeartbeatInv, TimersFire
<1>4. CASE HeartbeatStep /\ Asks(c)
  <2>1. now' = now /\ due[c] <= now /\ due'[c] = due[c] + task[c].interval
    BY <1>4, StepsMoveChannels DEF Asks, ChannelsMove
  <2>2. due'[c] <= now' + MaxStart + task[c].interval
    BY ONLY <1>t, <1>2, <1>3, <2>1
  <2>3. ASSUME NEW n \in Name
        PROVE  /\ \A m \in Range(link'[<<c, n>>]) : m.kind \in {"request", "application"}
               /\ Spaced(link'[<<c, n>>], task[c].interval, due'[c] + MaxLag)
    <3>0. /\ due[c] + MaxLag \in Nat /\ due'[c] + MaxLag \in Nat
          /\ due[c] + MaxLag <= due'[c] + MaxLag
          /\ due'[c] + MaxLag = (due[c] + MaxLag) + task[c].interval
      BY ONLY <1>t, <1>2, <1>3, <2>1
    <3>1. CASE link'[<<c, n>>] = link[<<c, n>>]
      BY <1>2, <1>3, <3>0, <3>1, SpacedLater
    <3>2. ASSUME NEW m \in Message, m.kind = "request", m.at = now,
                 Len(link[<<c, n>>]) < ChannelCap, link'[<<c, n>>] = Append(link[<<c, n>>], m)
          PROVE  /\ \A x \in Range(link'[<<c, n>>]) : x.kind \in {"request", "application"}
                 /\ Spaced(link'[<<c, n>>], task[c].interval, due'[c] + MaxLag)
      <4>1. \A x \in Range(link'[<<c, n>>]) : x.kind \in {"request", "application"}
        BY <1>3, <3>2, QueueAppend
      <4>2. Spaced(link'[<<c, n>>], task[c].interval, (due[c] + MaxLag) + task[c].interval)
        BY <1>2, <1>3, <3>0, <3>2, SpacedAppend
      <4> QED BY <3>0, <4>1, <4>2
    <3> QED BY <1>4, <3>1, <3>2 DEF Asks
  <2> QED BY <1>1, <2>2, <2>3
<1>5. CASE HeartbeatStep /\ DoesNotAsk(c)
  <2>1. now' = now /\ due'[c] = due[c]
    BY <1>5, StepsMoveChannels DEF DoesNotAsk, ChannelsMove
  <2>2. ASSUME NEW n \in Name
        PROVE  /\ \A m \in Range(link'[<<c, n>>]) : m.kind \in {"request", "application"}
               /\ Spaced(link'[<<c, n>>], task[c].interval, due'[c] + MaxLag)
    <3>1. CASE link'[<<c, n>>] = link[<<c, n>>]
      BY <1>3, <2>1, <3>1
    <3>2. CASE link[<<c, n>>] # <<>> /\ link'[<<c, n>>] = Tail(link[<<c, n>>])
      <4>1. due[c] + MaxLag \in Nat
        BY ONLY <1>t, <1>3
      <4> QED BY <1>2, <1>3, <2>1, <3>2, <4>1, SpacedTail, QueueTail
    <3>3. ASSUME NEW m \in Message, m.kind = "application", Len(link[<<c, n>>]) < ChannelCap,
                 link'[<<c, n>>] = Append(link[<<c, n>>], m)
          PROVE  /\ \A x \in Range(link'[<<c, n>>]) : x.kind \in {"request", "application"}
                 /\ Spaced(link'[<<c, n>>], task[c].interval, due'[c] + MaxLag)
      <4>1. \A x \in Range(link'[<<c, n>>]) : x.kind \in {"request", "application"}
        BY <1>3, <3>3, QueueAppend
      <4>2. Spaced(link'[<<c, n>>], task[c].interval, due'[c] + MaxLag)
        BY <1>3, <3>3, SpacedOther
      <4> QED BY <4>1, <4>2
    <3> QED BY <1>5, <3>1, <3>2, <3>3 DEF DoesNotAsk
  <2> QED BY <1>1, <1>3, <2>1, <2>2
<1>6. CASE \/ Advance \/ (\E l \in Link : Stall(l) \/ Recover(l)) \/ UNCHANGED heartbeatVars
  <2>1. link' = link /\ due' = due /\ now' \in {now, now + 1}
    BY <1>6 DEF Advance, Stall, Recover, heartbeatVars
  <2>2. due'[c] <= now' + MaxStart + task[c].interval
    BY <1>t, <1>2, <1>3, <2>1
  <2> QED BY <1>1, <1>3, <2>1, <2>2
<1> QED BY <1>2, <1>4, <1>5, <1>6, SenderSteps DEF HeartbeatNext
-----------------------------------------------------------------------------
\* The silence of a receiver.
LEMMA AppendHead ==
    ASSUME NEW q \in Queue, NEW m \in Message
    PROVE  /\ Append(q, m) # <<>>
           /\ q # <<>> => Head(Append(q, m)) = Head(q)
           /\ q = <<>> => Head(Append(q, m)) = m
<1>1. q \in Seq(Message) /\ Len(q) \in Nat
  BY DEF Queue
<1>2. /\ Append(q, m) \in Seq(Message) /\ Len(Append(q, m)) = Len(q) + 1
      /\ \A i \in 1 .. Len(q) + 1 : Append(q, m)[i] = IF i = Len(q) + 1 THEN m ELSE q[i]
  BY <1>1, AppendProperties
<1>3. Append(q, m) # <<>> /\ Head(Append(q, m)) = Append(q, m)[1]
  BY <1>1, <1>2
<1> QED BY <1>1, <1>2, <1>3

\* What is added to a queue comes after what is in it.
LEMMA SignStays ==
    ASSUME NEW arrived \in Queue, NEW sent, NEW tick, NEW limit,
           SignOfLife(arrived, sent, tick, limit),
           NEW arrived2, arrived2 = arrived \/ \E m \in Message : arrived2 = Append(arrived, m),
           NEW sent2, Range(sent) \subseteq Range(sent2)
    PROVE  SignOfLife(arrived2, sent2, tick, limit)
<1>1. arrived # <<>> => arrived2 # <<>> /\ Head(arrived2) = Head(arrived)
  BY AppendHead
<1> QED BY <1>1 DEF SignOfLife

\* A queue that is full, or was given something now, has a head by now.
LEMMA HeadByNow ==
    ASSUME now \in Nat, NEW q \in Queue, \A m \in Range(q) : m.at <= now, NEW r,
           \/ r = q /\ ~(Len(q) < ChannelCap)
           \/ \E m \in Message : m.at = now /\ r = Append(q, m)
    PROVE  r # <<>> /\ Head(r).at <= now /\ Head(r).at \in Nat
<1>1. q # <<>> => Head(q) \in Message /\ Head(q) \in Range(q)
  BY QueueTail
<1>2. CASE r = q /\ ~(Len(q) < ChannelCap)
  <2>1. q # <<>>
    BY <1>2, HeartbeatAssumption
  <2> QED BY <1>1, <1>2, <2>1 DEF Message
<1>3. ASSUME NEW m \in Message, m.at = now, r = Append(q, m)
      PROVE  r # <<>> /\ Head(r).at <= now /\ Head(r).at \in Nat
  <2>1. r # <<>> /\ (q # <<>> => Head(r) = Head(q)) /\ (q = <<>> => Head(r) = m)
    BY <1>3, AppendHead
  <2> QED BY <1>1, <1>3, <2>1 DEF Message
<1> QED BY <1>2, <1>3

\* While a sign of life is to come the silence is no longer than allowed.
LEMMA SignInTime ==
    ASSUME now \in Nat, NEW arrived \in Queue, NEW sent \in Queue, NEW tick \in Nat,
           NEW limit \in Nat, SignOfLife(arrived, sent, tick, limit),
           \A m \in Range(arrived) : now <= m.at + MaxLag,
           \A m \in Range(sent) : now <= m.at + MaxDelay,
           now <= tick + MaxLag
    PROVE  now <= limit
<1>1. MaxLag \in Nat /\ MaxDelay \in Nat
  BY HeartbeatAssumption
<1>2. CASE arrived # <<>> /\ Head(arrived).at + MaxLag <= limit
  <2>1. Head(arrived) \in Message /\ now <= Head(arrived).at + MaxLag
    BY <1>2, QueueTail
  <2> QED BY <1>1, <1>2, <2>1 DEF Message
<1>3. ASSUME NEW m \in Range(sent), m.at + MaxDelay + MaxLag <= limit
      PROVE  now <= limit
  <2>1. sent \in Seq(Message)
    BY DEF Queue
  <2>2. m \in Message /\ now <= m.at + MaxDelay
    BY <2>1, RangeOfSeq
  <2> QED BY <1>1, <1>3, <2>2 DEF Message
<1>4. CASE tick + MaxDelay + 2 * MaxLag <= limit
  BY <1>1, <1>4
<1> QED BY <1>2, <1>3, <1>4 DEF SignOfLife

LEMMA SentKept ==
    ASSUME HeartbeatTypeOK, NEW l \in Link, ComponentSends(l), NEW k \in Link
    PROVE  Range(link[k]) \subseteq Range(link'[k])
<1>m. PICK m : m = [kind |-> "application", id |-> 0, from |-> l[1], at |-> now]
  OBVIOUS
<1>1. Len(link[l]) < ChannelCap /\ link' = [link EXCEPT ![l] = Append(@, m)]
  BY <1>m DEF ComponentSends, HasRoom
<1>2. m \in Message /\ link \in [Link -> Queue]
  BY <1>m DEF HeartbeatTypeOK, Message, Kind, Link
<1> QED BY <1>1, <1>2, QueueKept

LEMMA RequestStillComes ==
    ASSUME HeartbeatInv, QueuesInOrder, HandedOnInTime, TargetsConnected, SendersAsk,
           HeartbeatStep, NEW s \in Container, NEW n \in Name, TimeToHear(s, n),
           QueueHeldRequest(s, n)',
           ~timedOut[route[s][n]], RequestComes(s, n)
    PROVE  ~timedOut'[route[s][n]] /\ RequestComes(s, n)'
<1>c. PICK c : c = route[s][n]
  OBVIOUS
<1>t. /\ now \in Nat /\ due \in [Container -> Nat] /\ link \in [Link -> Queue]
      /\ inbox \in [Container -> Queue] /\ lastReceived \in [Container -> Nat]
      /\ timedOut \in [Container -> BOOLEAN]
      /\ MaxLag \in Nat /\ MaxStart \in Nat /\ MaxDelay \in Nat
  BY HeartbeatAssumption DEF HeartbeatInv, HeartbeatTypeOK
<1>1. /\ IsSender(s) /\ n \in task[s].targets /\ IsReceiver(c) /\ c \in Container
      /\ <<s, n>> \in Link \ disturbed /\ <<s, n>> \notin stalled
      /\ task[c].timeout >= MaxStart + task[s].interval + MaxDelay + 2 * MaxLag
  BY <1>c DEF TimeToHear, Reaches, TargetsConnected, Link, HeartbeatInv, HeartbeatTypeOK
<1>2. task[c].timeout \in Nat /\ task[s].interval \in Nat /\ c # s
  BY <1>1, KindsOfTasks DEF HeartbeatInv, IsSender, IsReceiver
<1> DEFINE limit == lastReceived[c] + task[c].timeout
<1>3. limit \in Nat
  BY <1>t, <1>1, <1>2
<1>4. /\ SignOfLife(inbox[c], link[<<s, n>>], due[s], limit) /\ ~timedOut[c]
      /\ inbox[c] \in Queue /\ link[<<s, n>>] \in Queue /\ due[s] \in Nat
  BY <1>c, <1>t, <1>1 DEF RequestComes
<1>5. /\ due[s] <= now + MaxStart + task[s].interval /\ now <= due[s] + MaxLag
      /\ \A m \in Range(link[<<s, n>>]) : /\ m.kind \in {"request", "application"}
                                         /\ m.at <= now /\ now <= m.at + MaxDelay
      /\ \A m \in Range(inbox[c]) : m.at <= now /\ now <= m.at + MaxLag
  <2>1. task[s].kind # "none"
    BY <1>1 DEF IsSender
  <2> QED BY <1>1, <2>1 DEF SendersAsk, QueuesInOrder, HandedOnInTime, HeartbeatInv, TimersFire
<1>times. /\ now \in Nat /\ MaxLag \in Nat /\ MaxStart \in Nat /\ MaxDelay \in Nat
          /\ due[s] \in Nat /\ limit \in Nat
          /\ task[c].timeout \in Nat /\ task[s].interval \in Nat
          /\ task[c].timeout >= MaxStart + task[s].interval + MaxDelay + 2 * MaxLag
          /\ due[s] <= now + MaxStart + task[s].interval /\ now <= due[s] + MaxLag
  BY <1>t, <1>1, <1>2, <1>3, <1>4, <1>5
<1>6. route' = route /\ task' = task /\ now' = now
  BY StepsMoveChannels DEF ChannelsMove, fixedVars
<1> SUFFICES /\ ~timedOut'[c]
             /\ SignOfLife(inbox'[c], link'[<<s, n>>], due'[s],
                           lastReceived'[c] + task[c].timeout)
  BY <1>c, <1>6 DEF RequestComes
<1> HIDE DEF limit
<1>7. ASSUME NEW d \in Container, SenderTick(d)
      PROVE  /\ ~timedOut'[c]
             /\ SignOfLife(inbox'[c], link'[<<s, n>>], due'[s],
                           lastReceived'[c] + task[c].timeout)
  <2>1. /\ inbox' = inbox /\ timedOut' = timedOut /\ lastReceived' = lastReceived
        /\ IntervalFires(d)
    BY <1>7 DEF SenderTick, receiverVars
  <2>2. PICK messages, new : TickRequests(d, messages, new)
    BY <1>7, TickSends
  <2>3. /\ TrySend(messages) /\ DOMAIN messages = {d} \X task[d].targets
        /\ \A l \in DOMAIN messages : /\ messages[l] \in Message /\ messages[l].at = now
                                       /\ messages[l].kind = "request"
    BY ONLY <2>2 DEF TickRequests
  <2>4. link'[<<s, n>>] = IF <<s, n>> \in DOMAIN messages /\ Len(link[<<s, n>>]) < ChannelCap
                            THEN Append(link[<<s, n>>], messages[<<s, n>>]) ELSE link[<<s, n>>]
    BY <1>1, <2>3 DEF TrySend, HasRoom
  <2>5. Range(link[<<s, n>>]) \subseteq Range(link'[<<s, n>>])
    BY <1>4, <2>3, <2>4, QueueKept
  <2>6. CASE d # s
    <3>1. due'[s] = due[s]
      BY <1>t, <2>1, <2>6 DEF IntervalFires
    <3>2. SignOfLife(inbox'[c], link'[<<s, n>>], due[s], limit)
      BY <1>4, <2>1, <2>5, SignStays
    <3> QED BY <1>4, <2>1, <3>1, <3>2 DEF limit
  <2>7. CASE d = s
    <3>1. <<s, n>> \in DOMAIN messages
      BY <1>1, <2>3, <2>7
    <3>2. PICK m \in Range(link'[<<s, n>>]) : m.kind = "request" /\ m.at <= now /\ m.at \in Nat
      <4>1. CASE Len(link[<<s, n>>]) < ChannelCap
        <5>1. link'[<<s, n>>] = Append(link[<<s, n>>], messages[<<s, n>>])
          BY <2>4, <3>1, <4>1
        <5>2. messages[<<s, n>>] \in Range(link'[<<s, n>>])
          BY <1>4, <2>3, <3>1, <4>1, <5>1, QueueAppend
        <5> QED BY <1>t, <2>3, <3>1, <5>2
      <4>2. CASE ~(Len(link[<<s, n>>]) < ChannelCap)
        <5>1. Kinds(link[<<s, n>>]) \in turnedAway'[<<s, n>>]
          BY <1>1, <2>3, <3>1, <4>2 DEF TrySend, HasRoom
        <5>2. "request" \in Kinds(link[<<s, n>>])
          BY <5>1 DEF QueueHeldRequest
        <5>3. PICK x \in Range(link[<<s, n>>]) : x.kind = "request"
          BY <5>2 DEF Kinds
        <5>4. x \in Message
          <6>1. link[<<s, n>>] \in Seq(Message)
            BY <1>4 DEF Queue
          <6> QED BY <6>1, RangeOfSeq
        <5> QED BY <1>5, <2>5, <5>3, <5>4 DEF Message
      <4> QED BY <4>1, <4>2
    <3>3. CASE due[s] + MaxDelay + 2 * MaxLag <= limit
      <4>1. m.at + MaxDelay + MaxLag <= limit
        <5>1. PICK at : at = m.at
          OBVIOUS
        <5>2. at + MaxDelay + MaxLag <= limit
          <6>1. at \in Nat /\ at <= now
            BY ONLY <3>2, <5>1
          <6> QED BY ONLY <1>times, <3>3, <6>1
        <5> QED BY <5>1, <5>2
      <4> QED BY <1>4, <2>1, <3>2, <4>1 DEF SignOfLife, limit
    <3>4. CASE ~(due[s] + MaxDelay + 2 * MaxLag <= limit)
      <4>1. SignOfLife(inbox'[c], link'[<<s, n>>], due[s], limit)
        BY <1>4, <2>1, <2>5, SignStays
      <4>2. SignOfLife(inbox'[c], link'[<<s, n>>], due'[s], limit)
        BY <3>4, <4>1 DEF SignOfLife
      <4> QED BY <1>4, <2>1, <4>2 DEF limit
    <3> QED BY <3>3, <3>4
  <2> QED BY <2>6, <2>7
<1>8. ASSUME NEW d \in Container, SenderRecv(d)
      PROVE  /\ ~timedOut'[c]
             /\ SignOfLife(inbox'[c], link'[<<s, n>>], due'[s],
                           lastReceived'[c] + task[c].timeout)
  <2>1. /\ IsSender(d) /\ inbox' = [inbox EXCEPT ![d] = Tail(@)] /\ due' = due /\ link' = link
        /\ timedOut' = timedOut /\ lastReceived' = lastReceived
    BY <1>8 DEF SenderRecv, receiverVars
  <2>2. inbox'[c] = inbox[c]
    BY <1>t, <1>1, <2>1 DEF IsSender, IsReceiver
  <2> QED BY <1>4, <2>1, <2>2 DEF limit
<1>9. ASSUME NEW d \in Container, ReceiverRecv(d)
      PROVE  /\ ~timedOut'[c]
             /\ SignOfLife(inbox'[c], link'[<<s, n>>], due'[s],
                           lastReceived'[c] + task[c].timeout)
  <2>1. /\ IsReceiver(d) /\ due' = due /\ inbox' = [inbox EXCEPT ![d] = Tail(@)]
        /\ lastReceived' = [lastReceived EXCEPT ![d] = now]
        /\ timedOut' = [timedOut EXCEPT ![d] = FALSE]
    BY <1>9 DEF ReceiverRecv
  <2>2. PICK messages : RecvAnswer(d, Head(inbox[d]), messages)
    BY <1>9, RecvSends
  <2>3. TrySend(messages) /\ DOMAIN messages = {d} \X ({Head(inbox[d]).from} \cap DOMAIN route[d])
    BY ONLY <2>2 DEF RecvAnswer
  <2>4. link'[<<s, n>>] = link[<<s, n>>]
    <3>1. <<s, n>> \notin DOMAIN messages
      BY <1>1, <2>1, <2>3 DEF IsSender, IsReceiver
    <3> QED BY <1>1, <2>3, <3>1 DEF TrySend
  <2>5. CASE d # c
    <3>1. inbox'[c] = inbox[c] /\ lastReceived'[c] = lastReceived[c]
      BY <1>t, <1>1, <2>1, <2>5
    <3>2. timedOut'[c] = timedOut[c]
      BY <1>t, <1>1, <2>1, <2>5
    <3> QED BY <1>4, <2>1, <2>4, <3>1, <3>2 DEF limit
  <2>6. CASE d = c
    <3>1. lastReceived'[c] = now
      BY <1>t, <1>1, <2>1, <2>6
    <3>2. ~timedOut'[c]
      BY <1>t, <1>1, <2>1, <2>6
    <3>3. due'[s] + MaxDelay + 2 * MaxLag <= lastReceived'[c] + task[c].timeout
      <4>1. due[s] + MaxDelay + 2 * MaxLag <= now + task[c].timeout
        BY ONLY <1>times
      <4> QED BY <2>1, <3>1, <4>1
    <3> QED BY <3>2, <3>3 DEF SignOfLife
  <2> QED BY <2>5, <2>6
<1>10. ASSUME NEW d \in Container, ReceiverCheck(d)
       PROVE  /\ ~timedOut'[c]
              /\ SignOfLife(inbox'[c], link'[<<s, n>>], due'[s],
                            lastReceived'[c] + task[c].timeout)
  <2>1. /\ IsReceiver(d) /\ IntervalFires(d)
        /\ timedOut' = [timedOut EXCEPT ![d] = @ \/ IsSilent(d)]
        /\ lastReceived' = lastReceived /\ inbox' = inbox /\ link' = link
    BY <1>10 DEF ReceiverCheck
  <2>2. due'[s] = due[s]
    BY <1>t, <1>1, <2>1 DEF IntervalFires, IsSender, IsReceiver
  <2>3. ~IsSilent(c)
    <3>1. now <= limit
      BY <1>t, <1>3, <1>4, <1>5, SignInTime
    <3>2. ~(now - lastReceived[c] > task[c].timeout)
      <4>1. lastReceived[c] \in Nat
        BY <1>t, <1>1
      <4> QED BY <1>t, <1>2, <3>1, <4>1 DEF limit
    <3> QED BY <3>2 DEF IsSilent
  <2>4. ~timedOut'[c]
    <3>1. timedOut'[c] = IF c = d THEN timedOut[c] \/ IsSilent(c) ELSE timedOut[c]
      BY <1>t, <1>1, <2>1, Zenon
    <3> QED BY <1>4, <2>3, <3>1, Zenon
  <2> QED BY <1>4, <2>1, <2>2, <2>4 DEF limit
<1>11. ASSUME NEW l \in Link, Arrive(l)
       PROVE  /\ ~timedOut'[c]
              /\ SignOfLife(inbox'[c], link'[<<s, n>>], due'[s],
                            lastReceived'[c] + task[c].timeout)
  <2>m. PICK m : m = Head(link[l])
    OBVIOUS
  <2>to. PICK to : to = route[l[1]][l[2]]
    OBVIOUS
  <2>1. /\ link[l] # <<>> /\ link' = [link EXCEPT ![l] = Tail(@)]
        /\ due' = due /\ lastReceived' = lastReceived /\ timedOut' = timedOut
        /\ inbox' = IF m.kind = Expects[task[to].kind] /\ Len(inbox[to]) < ChannelCap
                      THEN [inbox EXCEPT ![to] = Append(@, [m EXCEPT !.at = now])]
                      ELSE inbox
    BY <1>11, <2>m, <2>to DEF Arrive, receiverVars
  <2>2. m \in Message /\ m \in Range(link[l])
    BY <1>t, <2>m, <2>1, QueueTail
  <2>3. [m EXCEPT !.at = now] \in Message /\ [m EXCEPT !.at = now].at = now
    BY <1>t, <2>2 DEF Message
  <2>4. \/ inbox'[c] = inbox[c]
        \/ \E x \in Message : inbox'[c] = Append(inbox[c], x)
    BY <1>t, <1>1, <2>1, <2>3
  <2>5. CASE l # <<s, n>>
    <3>1. link'[<<s, n>>] = link[<<s, n>>]
      BY <1>t, <1>1, <2>1, <2>5
    <3>2. SignOfLife(inbox'[c], link'[<<s, n>>], due[s], limit)
      BY <1>4, <2>4, <3>1, SignStays
    <3> QED BY <1>4, <2>1, <3>2 DEF limit
  <2>6. CASE l = <<s, n>>
    <3>1. to = c /\ Expects[task[c].kind] = "request"
      BY <1>c, <1>1, <2>to, <2>6 DEF Expects, IsReceiver
    <3>t. link'[<<s, n>>] = Tail(link[<<s, n>>])
      BY <1>t, <1>1, <2>1, <2>6
    <3>0. \A x \in Range(link[<<s, n>>]) : x = m \/ x \in Range(link'[<<s, n>>])
      <4>1. InOrder(link[<<s, n>>])
        BY <1>1 DEF QueuesInOrder
      <4> QED BY <1>4, <2>m, <2>1, <2>6, <3>t, <4>1, QueueHead
    <3>2. ASSUME m.kind = "request"
          PROVE  inbox'[c] # <<>> /\ Head(inbox'[c]).at <= now /\ Head(inbox'[c]).at \in Nat
      <4>1. \/ inbox'[c] = inbox[c] /\ ~(Len(inbox[c]) < ChannelCap)
            \/ \E x \in Message : x.at = now /\ inbox'[c] = Append(inbox[c], x)
        BY <1>t, <1>1, <2>1, <2>3, <3>1, <3>2
      <4>2. \A x \in Range(inbox[c]) : x.at <= now
        BY <1>5
      <4> QED BY <1>t, <1>4, <4>1, <4>2, HeadByNow
    <3>3. CASE m.kind = "request" /\ m.at + MaxDelay + MaxLag <= limit
      <4>1. now <= m.at + MaxDelay /\ m.at \in Nat
        BY <1>5, <2>2, <2>6 DEF Message
      <4>2. Head(inbox'[c]).at + MaxLag <= limit
        <5>1. PICK first : first = Head(inbox'[c]).at
          OBVIOUS
        <5>2. first + MaxLag <= limit
          <6>1. first \in Nat /\ first <= now
            BY ONLY <3>2, <3>3, <5>1
          <6>2. m.at + MaxDelay + MaxLag <= limit
            BY ONLY <3>3
          <6> QED BY ONLY <1>times, <4>1, <6>1, <6>2
        <5> QED BY <5>1, <5>2
      <4> QED BY <1>4, <2>1, <3>2, <3>3, <4>2 DEF SignOfLife, limit
    <3>4. CASE ~(m.kind = "request" /\ m.at + MaxDelay + MaxLag <= limit)
      <4>1. SignOfLife(inbox'[c], link[<<s, n>>], due[s], limit)
        BY <1>4, <2>4, SignStays
      <4>2. SignOfLife(inbox'[c], link'[<<s, n>>], due[s], limit)
        BY <3>0, <3>4, <4>1 DEF SignOfLife
      <4> QED BY <1>4, <2>1, <4>2 DEF limit
    <3> QED BY <3>3, <3>4
  <2> QED BY <2>5, <2>6
<1>12. ASSUME NEW l \in Link, ComponentSends(l) \/ Lose(l)
       PROVE  /\ ~timedOut'[c]
              /\ SignOfLife(inbox'[c], link'[<<s, n>>], due'[s],
                            lastReceived'[c] + task[c].timeout)
  <2>1. UNCHANGED <<inbox, due, lastReceived, timedOut>>
    BY <1>12 DEF ComponentSends, Lose, receiverVars
  <2>2. Range(link[<<s, n>>]) \subseteq Range(link'[<<s, n>>])
    <3>1. CASE Lose(l)
      <4>1. link'[<<s, n>>] = link[<<s, n>>]
        BY <1>t, <1>1, <3>1 DEF Lose
      <4> QED BY <4>1
    <3>2. CASE ComponentSends(l)
      BY <1>1, <3>2, SentKept DEF HeartbeatInv
    <3> QED BY <1>12, <3>1, <3>2
  <2>3. SignOfLife(inbox'[c], link'[<<s, n>>], due[s], limit)
    BY <1>4, <2>1, <2>2, SignStays
  <2> QED BY <1>4, <2>1, <2>3 DEF limit
<1> QED BY <1>7, <1>8, <1>9, <1>10, <1>11, <1>12 DEF HeartbeatStep, TaskStep

\* What counts against a connection is never forgotten.
LEMMA LossesRemembered ==
    ASSUME HeartbeatInv, [HeartbeatNext]_heartbeatVars
    PROVE  /\ task' = task /\ route' = route /\ disturbed \subseteq disturbed'
           /\ \A l \in Link : turnedAway[l] \subseteq turnedAway'[l]
           /\ notTaken \subseteq notTaken'
<1>0. ASSUME NEW messages, TrySend(messages)
      PROVE  \A l \in Link : turnedAway[l] \subseteq turnedAway'[l]
  BY <1>0 DEF TrySend
<1>1. ASSUME NEW c \in Container, SenderTick(c)
      PROVE  /\ \A l \in Link : turnedAway[l] \subseteq turnedAway'[l]
             /\ notTaken' = notTaken
  <2>1. PICK messages, new : TickRequests(c, messages, new)
    BY <1>1, TickSends
  <2>2. TrySend(messages)
    BY ONLY <2>1 DEF TickRequests
  <2> QED BY <1>0, <1>1, <2>2 DEF SenderTick
<1>2. ASSUME NEW c \in Container, ReceiverRecv(c)
      PROVE  /\ \A l \in Link : turnedAway[l] \subseteq turnedAway'[l]
             /\ notTaken' = notTaken
  <2>1. PICK messages : RecvAnswer(c, Head(inbox[c]), messages)
    BY <1>2, RecvSends
  <2>2. TrySend(messages)
    BY ONLY <2>1 DEF RecvAnswer
  <2> QED BY <1>0, <1>2, <2>2 DEF ReceiverRecv
<1>3. ASSUME NEW c \in Container, SenderRecv(c) \/ ReceiverCheck(c)
      PROVE  turnedAway' = turnedAway /\ notTaken' = notTaken
  BY <1>3 DEF SenderRecv, ReceiverCheck, lossVars
<1>4. ASSUME NEW l \in Link, ComponentSends(l) \/ Arrive(l) \/ Lose(l)
      PROVE  turnedAway' = turnedAway /\ notTaken \subseteq notTaken'
  BY <1>4 DEF ComponentSends, Arrive, Lose, lossVars
<1>5. CASE HeartbeatStep
  <2>1. task' = task /\ route' = route /\ disturbed' = disturbed
    BY <1>5, StepsMoveChannels DEF ChannelsMove, fixedVars
  <2>2. /\ \A l \in Link : turnedAway[l] \subseteq turnedAway'[l]
        /\ notTaken \subseteq notTaken'
    BY <1>1, <1>2, <1>3, <1>4, <1>5 DEF HeartbeatStep, TaskStep
  <2> QED BY <2>1, <2>2
<1>6. CASE \/ Advance \/ (\E l \in Link : Stall(l) \/ Recover(l)) \/ UNCHANGED heartbeatVars
  BY <1>6 DEF Advance, Stall, Recover, heartbeatVars, fixedVars, linkVars, lossVars
<1> QED BY <1>5, <1>6 DEF HeartbeatNext

LEMMA SenderHeardKept ==
    ASSUME HeartbeatInv, TimingInv, [HeartbeatNext]_heartbeatVars
    PROVE  SenderHeard'
<1> SUFFICES ASSUME NEW s \in Container, NEW n \in Name, TimeToHear(s, n)'
             PROVE  ~timedOut'[route'[s][n]] /\ RequestComes(s, n)'
  BY DEF SenderHeard
<1>1. task' = task /\ route' = route /\ disturbed \subseteq disturbed'
  <2>1. HeartbeatStep => task' = task /\ route' = route /\ disturbed' = disturbed
    BY StepsMoveChannels DEF ChannelsMove, fixedVars
  <2> QED BY <2>1 DEF HeartbeatNext, Advance, Stall, Recover, heartbeatVars, fixedVars, linkVars
<1>2. TimeToHear(s, n) /\ QueueHeldRequest(s, n)'
  <2>1. turnedAway[<<s, n>>] \subseteq turnedAway'[<<s, n>>]
    BY LossesRemembered DEF Link
  <2> QED BY <1>1, <2>1 DEF TimeToHear, Reaches, QueueHeldRequest, IsSender, IsReceiver
<1>3. ~timedOut[route[s][n]] /\ RequestComes(s, n)
  BY <1>2 DEF TimingInv, SenderHeard
<1>4. CASE HeartbeatStep
  BY <1>1, <1>2, <1>3, <1>4, RequestStillComes DEF TimingInv
<1>5. CASE \/ Advance \/ (\E l \in Link : Stall(l) \/ Recover(l)) \/ UNCHANGED heartbeatVars
  <2>1. UNCHANGED <<inbox, link, due, lastReceived, timedOut>>
    BY <1>5 DEF Advance, Stall, Recover, heartbeatVars, receiverVars
  <2>2. RequestComes(s, n)'
    BY <1>1, <1>3, <2>1 DEF RequestComes
  <2> QED BY <1>1, <1>3, <2>1, <2>2
<1> QED BY <1>4, <1>5 DEF HeartbeatNext
-----------------------------------------------------------------------------
\* The connections of a topology.
LEMMA Greatest ==
    ASSUME NEW T \in SUBSET Nat, T # {}, NEW bound \in Nat, \A i \in T : i <= bound
    PROVE  \E i \in T : \A j \in T : j <= i
<1> DEFINE Above == {k \in Nat : \A i \in T : i <= k}
<1>1. PICK less : less = OpToRel(<, Nat)
  OBVIOUS
<1>2. IsWellFoundedOn(less, Nat)
  BY <1>1, NatLessThanWellFounded
<1>3. \A j, k \in Nat : <<j, k>> \in less <=> j < k
  BY <1>1 DEF OpToRel
<1>4. PICK k \in Above : \A j \in Above : ~(<<j, k>> \in less)
  <2>1. Above \subseteq Nat /\ Above # {}
    OBVIOUS
  <2> HIDE DEF Above
  <2> QED BY <1>2, <2>1, WFMin
<1>5. k \in Nat /\ \A i \in T : i \in Nat /\ i <= k
  OBVIOUS
<1>6. k \in T
  <2> SUFFICES ASSUME k \notin T PROVE FALSE
    OBVIOUS
  <2>1. \A i \in T : i < k
    BY <1>5
  <2>2. k - 1 \in Nat /\ k - 1 < k
    <3>1. PICK i \in T : i < k
      BY <2>1
    <3>2. i \in Nat
      OBVIOUS
    <3> QED BY ONLY <1>5, <3>1, <3>2
  <2>3. k - 1 \in Above
    BY <1>5, <2>1, <2>2
  <2> QED BY <1>3, <1>4, <1>5, <2>2, <2>3
<1> QED BY <1>5, <1>6

LEMMA AddressOfConnection ==
    ASSUME NEW connections \in Connections, NEW n \in DOMAIN ClientSenders(connections)
    PROVE  ClientSenders(connections)[n] \in Container
<1> DEFINE names == {conn.name : conn \in Range(connections)}
           called(m) == {i \in DOMAIN connections : connections[i].name = m}
           last(m) == CHOOSE i \in called(m) : \A j \in called(m) : j <= i
<1>1. /\ connections \in Seq([name : Name, address : Container])
      /\ DOMAIN connections = 1 .. Len(connections) /\ Len(connections) \in Nat
  BY DEF Connections
<1>2. ClientSenders(connections) = [m \in names |-> connections[last(m)].address]
  BY Zenon DEF ClientSenders
<1>3. n \in names
  BY <1>2, Zenon
<1>4. \E i \in called(n) : \A j \in called(n) : j <= i
  <2>1. called(n) # {}
    <3>1. PICK conn \in Range(connections) : n = conn.name
      BY <1>3
    <3>2. PICK i \in 1 .. Len(connections) : conn = connections[i]
      BY <1>1, ElementsOfSeq
    <3> QED BY <1>1, <3>1, <3>2
  <2>2. called(n) \in SUBSET Nat /\ \A i \in called(n) : i <= Len(connections)
    BY <1>1
  <2> HIDE DEF called
  <2> QED BY <1>1, <2>1, <2>2, Greatest
<1>5. last(n) \in called(n)
  <2> HIDE DEF called
  <2> QED BY <1>4
<1> HIDE DEF last
<1>6. connections[last(n)] \in [name : Name, address : Container]
  <2>1. last(n) \in 1 .. Len(connections)
    BY <1>1, <1>5
  <2> QED BY <1>1, <2>1, ElementOfSeq, Zenon
<1>7. ClientSenders(connections)[n] = connections[last(n)].address
  <2> HIDE DEF names
  <2> QED BY <1>2, <1>3
<1> QED BY <1>6, <1>7

LEMMA TargetsOfTask ==
    ASSUME NEW start \in Start, TaskOf(start).kind = "sender"
    PROVE  TaskOf(start).targets \subseteq DOMAIN ClientSenders(start.connections)
<1> DEFINE senders == ClientSenders(start.connections)
           xml == start.xml
<1>1. \A config : SenderTask(config, senders).kind = "sender" =>
                     SenderTask(config, senders).targets \subseteq DOMAIN senders
  BY DEF SenderTask, NoTask
<1>2. \A config : ReceiverTask(config).kind # "sender"
  BY DEF ReceiverTask
<1>3. NoTask.kind # "sender"
  BY DEF NoTask
<1>4. ASSUME NEW option
      PROVE  \/ SpawnHeartbeatTasks(option, senders, start.hasHandler) = NoTask
             \/ \E config : SpawnHeartbeatTasks(option, senders, start.hasHandler)
                               \in {SenderTask(config, senders), ReceiverTask(config)}
  BY DEF SpawnHeartbeatTasks
<1>5. \/ TaskOf(start) = NoTask
      \/ \E config : TaskOf(start) \in {SenderTask(config, senders), ReceiverTask(config)}
  BY <1>4 DEF TaskOf
<1> QED BY <1>1, <1>2, <1>3, <1>5

LEMMA TargetsConnectedAtStart == HeartbeatInit => TargetsConnected
<1> SUFFICES ASSUME HeartbeatInit, NEW c \in Container, IsSender(c), NEW n \in task[c].targets
             PROVE  route[c][n] \in Container
  BY DEF TargetsConnected
<1>1. PICK setup \in Setup : /\ task = [d \in Container |-> TaskOf(setup[d])]
                             /\ route = [d \in Container |-> RouteOf(setup[d])]
  BY DEF HeartbeatInit
<1>2. setup[c] \in Start /\ setup[c].connections \in Connections
  BY SetupAssumption DEF Start
<1>3. n \in DOMAIN ClientSenders(setup[c].connections)
  BY <1>1, <1>2, TargetsOfTask DEF IsSender
<1>4. ~ToConfigPanics(setup[c].xml)
  BY <1>1 DEF IsSender, TaskOf, NoTask
<1>5. route[c] = ClientSenders(setup[c].connections)
  BY <1>1, <1>4 DEF RouteOf
<1> QED BY <1>2, <1>3, <1>5, AddressOfConnection
-----------------------------------------------------------------------------
\* The way of a request to its target and back.
LEMMA MovesOn ==
    ASSUME NEW c, NEW r, NEW asked, NEW taken, NEW back, NEW arrived,
           OnItsWay(c, r, asked, taken, back, arrived),
           NEW asked2, NEW taken2, NEW back2, NEW arrived2,
           asked \subseteq asked2, taken \subseteq taken2, back \subseteq back2,
           arrived \subseteq arrived2
    PROVE  OnItsWay(c, r, asked2, taken2, back2, arrived2)
<1>1. CASE \E m \in asked : m.id = r.id /\ m.at <= r.sent
  BY <1>1 DEF OnItsWay
<1>2. CASE \E m \in taken : m.id = r.id /\ m.from = c /\ m.at <= r.sent + MaxDelay
  BY <1>2 DEF OnItsWay
<1>3. CASE \E m \in back : /\ m.id = r.id /\ m.kind = "response"
                           /\ m.at <= r.sent + MaxDelay + MaxLag
  BY <1>3 DEF OnItsWay
<1>4. CASE \E m \in arrived : m.id = r.id /\ m.at <= r.sent + 2 * MaxDelay + MaxLag
  BY <1>4 DEF OnItsWay
<1> QED BY <1>1, <1>2, <1>3, <1>4 DEF OnItsWay

\* What it takes for a target to be heard.
LEMMA AnsweringTarget ==
    ASSUME HeartbeatInv, TargetsConnected, NEW c \in Container, NEW n \in Name,
           TimeToAnswer(c, n), NEW d, d = route[c][n]
    PROVE  /\ IsSender(c) /\ IsReceiver(d) /\ d \in Container /\ d # c
           /\ n \in task[c].targets /\ c \in DOMAIN route[d] /\ route[d][c] = c
           /\ <<c, n>> \in Link \ disturbed /\ <<d, c>> \in Link \ disturbed
           /\ task[c].interval \in Nat /\ task[c].responseTimeout \in Nat
           /\ task[c].responseTimeout >= 2 * (MaxDelay + MaxLag)
           /\ ChannelCap * task[c].interval > MaxDelay + MaxLag
<1>1. /\ IsSender(c) /\ IsReceiver(d) /\ n \in task[c].targets
      /\ <<c, n>> \notin disturbed /\ <<d, c>> \notin disturbed
      /\ c \in DOMAIN route[d] /\ route[d][c] = c
      /\ task[c].responseTimeout >= 2 * (MaxDelay + MaxLag)
      /\ ChannelCap * task[c].interval > MaxDelay + MaxLag
  BY DEF TimeToAnswer, Reaches, CanAnswer, RoundTrip
<1>3. d \in Container
  BY <1>1 DEF TargetsConnected
<1>4. <<c, n>> \in Link /\ <<d, c>> \in Link
  BY <1>3, HeartbeatConfigAssumption DEF Link
<1>5. d # c
  BY <1>1 DEF IsSender, IsReceiver
<1>6. task[c].interval \in Nat /\ task[c].responseTimeout \in Nat
  BY <1>1, KindsOfTasks DEF HeartbeatInv, IsSender
<1> QED BY <1>1, <1>3, <1>4, <1>5, <1>6

\* A request or answer on its way is not late.
LEMMA TravelsInTime ==
    ASSUME HeartbeatInv, HandedOnInTime, TargetsConnected, NEW c \in Container, NEW n \in Name,
           TimeToAnswer(c, n), NEW r \in Request, Travels(c, n, r)
    PROVE  ~IsLate(c, r)
<1>d. PICK d : d = route[c][n]
  OBVIOUS
<1>1. /\ d \in Container /\ <<c, n>> \in Link \ disturbed /\ <<d, c>> \in Link \ disturbed
      /\ task[c].responseTimeout \in Nat
      /\ task[c].responseTimeout >= 2 * (MaxDelay + MaxLag)
  BY <1>d, AnsweringTarget
<1>2. /\ now \in Nat /\ link \in [Link -> Queue] /\ inbox \in [Container -> Queue]
      /\ r.sent \in Nat /\ MaxDelay \in Nat /\ MaxLag \in Nat
  BY HeartbeatAssumption DEF HeartbeatInv, HeartbeatTypeOK, Request
<1>3. ASSUME NEW q \in Queue, NEW m \in Range(q) PROVE m.at \in Nat
  <2>1. q \in Seq(Message)
    BY DEF Queue
  <2>2. m \in Message
    BY <2>1, RangeOfSeq
  <2> QED BY <2>2 DEF Message
<1>4. /\ \A m \in Range(link[<<c, n>>]) : m.at \in Nat /\ now <= m.at + MaxDelay
      /\ \A m \in Range(link[<<d, c>>]) : m.at \in Nat /\ now <= m.at + MaxDelay
      /\ \A e \in {c, d} : \A m \in Range(inbox[e]) : m.at \in Nat /\ now <= m.at + MaxLag
  BY <1>1, <1>2, <1>3 DEF HandedOnInTime
<1>5. OnItsWay(c, r, Range(link[<<c, n>>]), Range(inbox[d]), Range(link[<<d, c>>]),
               Range(inbox[c]))
  BY <1>d DEF Travels
<1>6. now <= r.sent + 2 * (MaxDelay + MaxLag)
  BY <1>2, <1>4, <1>5 DEF OnItsWay
<1> QED BY <1>1, <1>2, <1>6 DEF IsLate

\* The queue of a connection has room for the next request of its sender, if
\* only its requests are in it.
LEMMA RoomToAsk ==
    ASSUME HeartbeatInv, HandedOnInTime, TargetsConnected, SendersAsk, RequestsSpaced,
           NEW c \in Container, NEW n \in Name, TimeToAnswer(c, n), due[c] <= now,
           "application" \notin Kinds(link[<<c, n>>])
    PROVE  HasRoom(<<c, n>>)
<1> SUFFICES ASSUME ~(Len(link[<<c, n>>]) < ChannelCap) PROVE FALSE
  BY DEF HasRoom
<1>q. PICK q : q = link[<<c, n>>]
  OBVIOUS
<1>1. /\ IsSender(c) /\ <<c, n>> \in Link \ disturbed /\ task[c].interval \in Nat
      /\ ChannelCap * task[c].interval > MaxDelay + MaxLag
  BY AnsweringTarget
<1>2. q \in Queue /\ now \in Nat /\ due[c] \in Nat /\ MaxDelay \in Nat /\ MaxLag \in Nat
  BY <1>q, <1>1, HeartbeatAssumption DEF HeartbeatInv, HeartbeatTypeOK
<1>3. q \in Seq(Message) /\ Len(q) = ChannelCap /\ ChannelCap \in Nat \ {0}
  BY <1>q, <1>2, HeartbeatAssumption DEF Queue
<1>4. q[1] \in Message /\ q[1] \in Range(q)
  BY <1>3, ElementsOfSeq
<1>5. q[1].at \in Nat /\ now <= q[1].at + MaxDelay
  BY <1>q, <1>1, <1>4 DEF HandedOnInTime, Message
<1>requests. \A j \in 1 .. Len(q) : q[j].kind = "request"
  <2>1. \A m \in Range(q) : m.kind = "request"
    BY <1>q, <1>1 DEF SendersAsk, Kinds
  <2> QED BY <1>3, <2>1, ElementsOfSeq
<1>6. q[1].at + (Len(q) - 1 + 1) * task[c].interval <= due[c] + MaxLag
  <2>1. Spaced(q, task[c].interval, due[c] + MaxLag)
    BY <1>q, <1>1 DEF RequestsSpaced
  <2>2. 1 \in 1 .. Len(q)
    BY <1>3
  <2> QED BY <1>requests, <2>1, <2>2, Zenon DEF Spaced
<1>7. Len(q) - 1 + 1 = ChannelCap
  BY <1>3
<1>p. PICK p : p = ChannelCap * task[c].interval
  OBVIOUS
<1>8. p \in Nat
  BY <1>1, <1>3, <1>p
<1>9. q[1].at + p <= due[c] + MaxLag /\ p > MaxDelay + MaxLag
  BY <1>1, <1>6, <1>7, <1>p
<1>10. PICK first : first = q[1].at
  OBVIOUS
<1>11. /\ first \in Nat /\ now <= first + MaxDelay
       /\ first + p <= due[c] + MaxLag /\ p > MaxDelay + MaxLag
       /\ due[c] <= now
  BY <1>5, <1>9, <1>10
<1> QED BY ONLY <1>2, <1>8, <1>11

LEMMA RequestStillTravels ==
    ASSUME HeartbeatInv, QueuesInOrder, HandedOnInTime, TargetsConnected, SendersAsk,
           HeartbeatStep, NEW c \in Container, NEW n \in Name,
           TimeToAnswer(c, n), TimeToAnswer(c, n)',
           NEW r \in pending[c], r \in pending'[c], Travels(c, n, r)
    PROVE  Travels(c, n, r)'
<1>d. PICK d : d = route[c][n]
  OBVIOUS
<1>t. /\ now \in Nat /\ link \in [Link -> Queue] /\ inbox \in [Container -> Queue]
      /\ pending \in [Container -> SUBSET Request] /\ MaxDelay \in Nat /\ MaxLag \in Nat
  BY HeartbeatAssumption DEF HeartbeatInv, HeartbeatTypeOK
<1>1. /\ IsSender(c) /\ IsReceiver(d) /\ d \in Container /\ d # c
      /\ c \in DOMAIN route[d] /\ route[d][c] = c
      /\ <<c, n>> \in Link \ disturbed /\ <<d, c>> \in Link \ disturbed
  BY <1>d, AnsweringTarget
<1>2. /\ link[<<c, n>>] \in Queue /\ link[<<d, c>>] \in Queue
      /\ inbox[c] \in Queue /\ inbox[d] \in Queue
      /\ InOrder(link[<<c, n>>]) /\ InOrder(link[<<d, c>>])
      /\ InOrder(inbox[c]) /\ InOrder(inbox[d])
  BY <1>t, <1>1 DEF QueuesInOrder
<1>3. /\ \A m \in Range(link[<<c, n>>]) : m.from = c
      /\ \A l \in {<<c, n>>, <<d, c>>} : \A m \in Range(link[l]) : now <= m.at + MaxDelay
      /\ \A m \in Range(inbox[d]) : now <= m.at + MaxLag
  BY <1>1 DEF HandedOnInTime, HeartbeatInv, HeartbeatsBelong, OnTheWay
<1>4. /\ <<c, n>> \notin notTaken' /\ <<d, c>> \notin notTaken' /\ turnedAway'[<<d, c>>] = {}
      /\ task' = task /\ route' = route
  <2>1. task' = task /\ route' = route
    BY StepsMoveChannels DEF ChannelsMove, fixedVars
  <2> QED BY <1>d, <2>1 DEF TimeToAnswer, NothingCrowdedOut
<1>5. \A q \in Queue : \A m \in Range(q) : m \in Message /\ m.at \in Nat
  <2> SUFFICES ASSUME NEW q \in Queue, NEW m \in Range(q) PROVE m \in Message /\ m.at \in Nat
    OBVIOUS
  <2>1. q \in Seq(Message)
    BY DEF Queue
  <2>2. m \in Message
    BY <2>1, RangeOfSeq
  <2> QED BY <2>2 DEF Message
<1>6. r \in Request /\ r.sent \in Nat
  <2>1. r \in Request
    BY <1>t
  <2> QED BY <2>1 DEF Request
<1> DEFINE way == OnItsWay(c, r, Range(link[<<c, n>>]), Range(inbox[d]), Range(link[<<d, c>>]),
                           Range(inbox[c]))
           way2 == OnItsWay(c, r, Range(link'[<<c, n>>]), Range(inbox'[d]),
                            Range(link'[<<d, c>>]), Range(inbox'[c]))
<1>7. way
  BY <1>d DEF Travels
<1> SUFFICES way2
  BY <1>d, <1>4 DEF Travels
<1> HIDE DEF way, way2
<1>8. ASSUME Range(link[<<c, n>>]) \subseteq Range(link'[<<c, n>>]),
             Range(inbox[d]) \subseteq Range(inbox'[d]),
             Range(link[<<d, c>>]) \subseteq Range(link'[<<d, c>>]),
             Range(inbox[c]) \subseteq Range(inbox'[c])
      PROVE  way2
  <2> USE DEF way, way2
  <2> QED BY <1>7, <1>8, MovesOn
<1>9. ASSUME NEW messages, TrySend(messages),
             \A l \in DOMAIN messages : messages[l] \in Message
      PROVE  \A l \in Link : Range(link[l]) \subseteq Range(link'[l])
  <2> SUFFICES ASSUME NEW l \in Link PROVE Range(link[l]) \subseteq Range(link'[l])
    OBVIOUS
  <2>1. link'[l] = IF l \in DOMAIN messages /\ Len(link[l]) < ChannelCap
                     THEN Append(link[l], messages[l]) ELSE link[l]
    BY <1>9 DEF TrySend, HasRoom
  <2> QED BY <1>t, <1>9, <2>1, QueueKept
<1>10. ASSUME NEW e \in Container, SenderTick(e) PROVE way2
  <2>1. PICK messages, new : TickRequests(e, messages, new)
    BY <1>10, TickSends
  <2>2. TrySend(messages) /\ \A l \in DOMAIN messages : messages[l] \in Message
    BY ONLY <2>1 DEF TickRequests
  <2>3. inbox' = inbox
    BY <1>10 DEF SenderTick
  <2> QED BY <1>1, <1>8, <1>9, <2>2, <2>3
<1>11. ASSUME NEW e \in Container, SenderRecv(e) PROVE way2
  <2>1. /\ IsSender(e) /\ inbox[e] # <<>> /\ inbox' = [inbox EXCEPT ![e] = Tail(@)]
        /\ link' = link
        /\ pending' = [pending EXCEPT ![e] =
                          @ \ {x \in pending[e] : x.id = Head(inbox[e]).id}]
    BY <1>11 DEF SenderRecv
  <2>2. inbox'[d] = inbox[d]
    BY <1>t, <1>1, <2>1 DEF IsSender, IsReceiver
  <2>3. CASE e # c
    <3>1. inbox'[c] = inbox[c]
      BY <1>t, <2>1, <2>3
    <3> QED BY <1>8, <2>1, <2>2, <3>1
  <2>4. CASE e = c
    <3>1. inbox'[c] = Tail(inbox[c]) /\ r.id # Head(inbox[c]).id
      BY <1>t, <2>1, <2>4
    <3>2. \A m \in Range(inbox[c]) : m.id = r.id => m \in Range(inbox'[c])
      BY <1>2, <2>1, <2>4, <3>1, QueueHead
    <3> QED BY <1>7, <2>1, <2>2, <3>2 DEF way, way2, OnItsWay
  <2> QED BY <2>3, <2>4
<1>12. ASSUME NEW e \in Container, ReceiverRecv(e) PROVE way2
  <2>h. PICK h : h = Head(inbox[e])
    OBVIOUS
  <2>1. /\ IsReceiver(e) /\ inbox[e] # <<>> /\ inbox' = [inbox EXCEPT ![e] = Tail(@)]
    BY <1>12 DEF ReceiverRecv
  <2>2. PICK messages : RecvAnswer(e, h, messages)
    BY <1>12, <2>h, RecvSends
  <2>3. /\ TrySend(messages) /\ DOMAIN messages = {e} \X ({h.from} \cap DOMAIN route[e])
        /\ \A l \in DOMAIN messages :
              /\ messages[l] \in Message /\ messages[l].at = now
              /\ messages[l].kind = "response" /\ messages[l].id = h.id
    BY ONLY <2>2 DEF RecvAnswer
  <2>4. /\ Range(link[<<c, n>>]) \subseteq Range(link'[<<c, n>>])
        /\ Range(link[<<d, c>>]) \subseteq Range(link'[<<d, c>>])
    BY <1>1, <1>9, <2>3
  <2>5. inbox'[c] = inbox[c]
    BY <1>t, <1>1, <2>1 DEF IsSender, IsReceiver
  <2>6. CASE e # d
    <3>1. inbox'[d] = inbox[d]
      BY <1>t, <1>1, <2>1, <2>6
    <3> QED BY <1>8, <2>4, <2>5, <3>1
  <2>7. CASE e = d
    <3>1. inbox'[d] = Tail(inbox[d])
      BY <1>t, <1>1, <2>1, <2>7
    <3>2. \A m \in Range(inbox[d]) : m = h \/ m \in Range(inbox'[d])
      BY <1>2, <2>h, <2>1, <2>7, <3>1, QueueHead
    <3>3. ASSUME h \in Range(inbox[d]), h.id = r.id, h.from = c, h.at <= r.sent + MaxDelay
          PROVE  \E m \in Range(link'[<<d, c>>]) :
                    m.id = r.id /\ m.kind = "response" /\ m.at <= r.sent + MaxDelay + MaxLag
      <4>1. <<d, c>> \in DOMAIN messages
        BY <1>1, <2>3, <2>7, <3>3
      <4>2. HasRoom(<<d, c>>)
        <5>1. turnedAway'[<<d, c>>] = IF HasRoom(<<d, c>>) THEN turnedAway[<<d, c>>]
                 ELSE turnedAway[<<d, c>>] \cup {Kinds(link[<<d, c>>])}
          BY <1>1, <2>3, <4>1 DEF TrySend
        <5> QED BY <1>4, <5>1
      <4>3. link'[<<d, c>>] = Append(link[<<d, c>>], messages[<<d, c>>])
        BY <1>1, <2>3, <4>1, <4>2 DEF TrySend
      <4>4. messages[<<d, c>>] \in Range(link'[<<d, c>>])
        BY <1>2, <2>3, <4>1, <4>2, <4>3, QueueAppend DEF HasRoom
      <4>5. now <= r.sent + MaxDelay + MaxLag
        <5>1. h.at \in Nat /\ now <= h.at + MaxLag
          BY <1>2, <1>3, <1>5, <3>3
        <5> QED BY <1>t, <1>6, <3>3, <5>1
      <4> QED BY <2>3, <3>3, <4>1, <4>4, <4>5
    <3> QED BY <1>7, <2>4, <2>5, <3>2, <3>3 DEF way, way2, OnItsWay
  <2> QED BY <2>6, <2>7
<1>13. ASSUME NEW e \in Container, ReceiverCheck(e) PROVE way2
  <2>1. inbox' = inbox /\ link' = link
    BY <1>13 DEF ReceiverCheck
  <2> QED BY <1>8, <2>1
<1>14. ASSUME NEW l \in Link, Arrive(l) PROVE way2
  <2>h. PICK h : h = Head(link[l])
    OBVIOUS
  <2>to. PICK to : to = route[l[1]][l[2]]
    OBVIOUS
  <2>given. PICK given : given = [h EXCEPT !.at = now]
    OBVIOUS
  <2>1. /\ link[l] # <<>> /\ link' = [link EXCEPT ![l] = Tail(@)]
        /\ inbox' = IF h.kind = Expects[task[to].kind] /\ Len(inbox[to]) < ChannelCap
                      THEN [inbox EXCEPT ![to] = Append(@, given)] ELSE inbox
        /\ h.kind = Expects[task[to].kind] /\ ~(Len(inbox[to]) < ChannelCap) => l \in notTaken'
    BY <1>14, <2>h, <2>to, <2>given DEF Arrive
  <2>2. h \in Message /\ h \in Range(link[l])
    BY <1>t, <2>h, <2>1, QueueTail
  <2>3. given \in Message /\ given.at = now /\ given.id = h.id /\ given.from = h.from
    BY <1>t, <2>given, <2>2 DEF Message
  <2>4. ASSUME NEW e \in Container PROVE Range(inbox[e]) \subseteq Range(inbox'[e])
    <3>1. inbox'[e] = inbox[e] \/ (Len(inbox[e]) < ChannelCap /\ inbox'[e] = Append(inbox[e], given))
      BY <1>t, <2>1
    <3> QED BY <1>t, <2>3, <3>1, QueueKept
  <2>5. ASSUME NEW e \in Container, to = e, h.kind = Expects[task[e].kind], l \notin notTaken'
        PROVE  given \in Range(inbox'[e])
    <3>1. Len(inbox[e]) < ChannelCap /\ inbox'[e] = Append(inbox[e], given)
      BY <1>t, <2>1, <2>5
    <3> QED BY <1>t, <2>3, <3>1, QueueAppend
  <2>6. CASE l # <<c, n>> /\ l # <<d, c>>
    <3>1. link'[<<c, n>>] = link[<<c, n>>] /\ link'[<<d, c>>] = link[<<d, c>>]
      BY <1>t, <1>1, <2>1, <2>6
    <3> QED BY <1>1, <1>8, <2>4, <3>1
  <2>7. CASE l = <<c, n>>
    <3>1. link'[<<c, n>>] = Tail(link[<<c, n>>]) /\ link'[<<d, c>>] = link[<<d, c>>]
      BY <1>t, <1>1, <2>1, <2>7
    <3>2. \A m \in Range(link[<<c, n>>]) : m = h \/ m \in Range(link'[<<c, n>>])
      BY <1>2, <2>h, <2>1, <2>7, <3>1, QueueHead
    <3>3. ASSUME h.kind = "request" PROVE given \in Range(inbox'[d]) /\ given.from = c
      <4>1. to = d /\ h.kind = "request" /\ h.from = c
        BY <1>d, <1>3, <2>to, <2>2, <2>7, <3>3
      <4>2. Expects[task[d].kind] = "request"
        BY <1>1 DEF Expects, IsReceiver
      <4> QED BY <1>1, <1>4, <2>3, <2>5, <2>7, <4>1, <4>2
    <3>4. h.at <= r.sent => given.at <= r.sent + MaxDelay
      <4>1. now <= h.at + MaxDelay /\ h.at \in Nat
        BY <1>3, <2>2, <2>7 DEF Message
      <4> QED BY <1>t, <1>6, <2>3, <4>1
    <3> QED BY <1>1, <1>7, <2>3, <2>4, <3>1, <3>2, <3>3, <3>4 DEF way, way2, OnItsWay
  <2>8. CASE l = <<d, c>>
    <3>1. link'[<<d, c>>] = Tail(link[<<d, c>>]) /\ link'[<<c, n>>] = link[<<c, n>>]
      BY <1>t, <1>1, <2>1, <2>8
    <3>2. \A m \in Range(link[<<d, c>>]) : m = h \/ m \in Range(link'[<<d, c>>])
      BY <1>2, <2>h, <2>1, <2>8, <3>1, QueueHead
    <3>3. h.kind = "response" => given \in Range(inbox'[c])
      <4>1. to = c
        BY <1>1, <2>to, <2>8
      <4>2. Expects[task[c].kind] = "response"
        BY <1>1 DEF Expects, IsSender
      <4> QED BY <1>4, <2>5, <2>8, <4>1, <4>2
    <3>4. h.at <= r.sent + MaxDelay + MaxLag => given.at <= r.sent + 2 * MaxDelay + MaxLag
      <4>1. now <= h.at + MaxDelay /\ h.at \in Nat
        BY <1>3, <2>2, <2>8 DEF Message
      <4> QED BY <1>t, <1>6, <2>3, <4>1
    <3> QED BY <1>1, <1>7, <2>3, <2>4, <3>1, <3>2, <3>3, <3>4 DEF way, way2, OnItsWay
  <2> QED BY <2>6, <2>7, <2>8
<1>15. ASSUME NEW l \in Link, Lose(l) PROVE way2
  <2>1. inbox' = inbox /\ l \in stalled /\ link' = [link EXCEPT ![l] = Tail(@)]
    BY <1>15 DEF Lose
  <2>2. stalled \subseteq disturbed
    BY DEF HeartbeatInv, HeartbeatTypeOK
  <2>3. link'[<<c, n>>] = link[<<c, n>>] /\ link'[<<d, c>>] = link[<<d, c>>]
    BY <1>t, <1>1, <2>1, <2>2
  <2> QED BY <1>8, <2>1, <2>3
<1>16. ASSUME NEW l \in Link, ComponentSends(l) PROVE way2
  <2>1. inbox' = inbox
    BY <1>16 DEF ComponentSends
  <2>2. \A k \in Link : Range(link[k]) \subseteq Range(link'[k])
    BY <1>16, SentKept DEF HeartbeatInv
  <2> QED BY <1>1, <1>8, <2>1, <2>2
<1> QED BY <1>10, <1>11, <1>12, <1>13, <1>14, <1>15, <1>16 DEF HeartbeatStep, TaskStep

LEMMA TargetHeardKept ==
    ASSUME HeartbeatInv, TimingInv, [HeartbeatNext]_heartbeatVars
    PROVE  TargetHeard'
<1> SUFFICES ASSUME NEW c \in Container, NEW n \in Name, TimeToAnswer(c, n)'
             PROVE  /\ \A r \in missed'[c] : r.target # n
                    /\ \A r \in pending'[c] : r.target = n => Travels(c, n, r)'
  BY DEF TargetHeard
<1>t. /\ now \in Nat /\ pending \in [Container -> SUBSET Request]
      /\ MaxDelay \in Nat /\ MaxLag \in Nat /\ link \in [Link -> Queue]
  BY HeartbeatAssumption DEF HeartbeatInv, HeartbeatTypeOK
<1>1. TimeToAnswer(c, n)
  <2>1. /\ task' = task /\ route' = route /\ disturbed \subseteq disturbed'
        /\ \A l \in Link : turnedAway[l] \subseteq turnedAway'[l]
        /\ notTaken \subseteq notTaken'
    BY LossesRemembered
  <2>2. Reaches(c, n) /\ CanAnswer(c, n)
    BY <2>1 DEF TimeToAnswer, Reaches, CanAnswer, IsSender, IsReceiver
  <2>3. <<c, n>> \in Link /\ <<route[c][n], c>> \in Link
    BY <2>2, HeartbeatConfigAssumption DEF Reaches, TimingInv, TargetsConnected, Link
  <2>4. NothingCrowdedOut(c, n)
    BY <2>1, <2>3 DEF TimeToAnswer, NothingCrowdedOut
  <2> QED BY <2>1, <2>2, <2>4 DEF TimeToAnswer, RoundTrip
<1>2. /\ \A r \in missed[c] : r.target # n
      /\ \A r \in pending[c] : r.target = n => Travels(c, n, r)
  BY <1>1 DEF TimingInv, TargetHeard
<1>3. /\ QueuesInOrder /\ HandedOnInTime /\ TargetsConnected /\ SendersAsk /\ RequestsSpaced
  BY DEF TimingInv
<1>4. ASSUME HeartbeatStep, NEW r \in pending[c], r \in pending'[c], r.target = n
      PROVE  Travels(c, n, r)'
  BY <1>1, <1>2, <1>3, <1>4, RequestStillTravels
<1>5. ASSUME NEW e \in Container, SenderTick(e)
      PROVE  /\ \A r \in missed'[c] : r.target # n
             /\ \A r \in pending'[c] : r.target = n => Travels(c, n, r)'
  <2>0. HeartbeatStep
    BY <1>5 DEF HeartbeatStep, TaskStep
  <2>1. PICK messages, new : TickRequests(e, messages, new)
    BY <1>5, TickSends
  <2>2. CASE e # c
    <3>1. pending'[c] = pending[c] /\ missed'[c] = missed[c]
      BY <2>1, <2>2 DEF TickRequests
    <3> QED BY <1>2, <1>4, <2>0, <3>1
  <2>3. CASE e = c
    <3>1. /\ TrySend(messages) /\ DOMAIN messages = {c} \X task[c].targets
          /\ \A l \in DOMAIN messages :
                /\ messages[l] \in Message /\ messages[l].at = now
                /\ messages[l].kind = "request"
                /\ \A r \in new : r.target = l[2] => messages[l].id = r.id
          /\ \A r \in new : r \in Request /\ r.sent = now
          /\ \A r \in pending'[c] : r \in pending[c] \cup new
          /\ \A r \in missed'[c] : \/ r \in missed[c]
                                   \/ r \in pending[c] \cup new /\ IsLate(c, r)
      BY <2>1, <2>3 DEF TickRequests
    <3>2. /\ n \in task[c].targets /\ <<c, n>> \in Link /\ task[c].responseTimeout \in Nat
      BY <1>1, <1>3, AnsweringTarget
    <3>3. ASSUME NEW r \in pending[c], r.target = n PROVE ~IsLate(c, r)
      BY <1>t, <1>1, <1>2, <1>3, <3>3, TravelsInTime
    <3>4. \A r \in new : ~IsLate(c, r)
      BY <1>t, <3>1, <3>2 DEF IsLate
    <3>5. \A r \in missed'[c] : r.target # n
      BY <1>2, <3>1, <3>3, <3>4
    <3>6. ASSUME NEW r \in new, r.target = n PROVE Travels(c, n, r)'
      <4>1. <<c, n>> \in DOMAIN messages
        BY <3>1, <3>2
      <4>2. HasRoom(<<c, n>>)
        <5> SUFFICES ASSUME ~HasRoom(<<c, n>>) PROVE FALSE
          OBVIOUS
        <5>1. due[c] <= now
          BY <1>5, <2>3 DEF SenderTick, IntervalFires
        <5>2. Kinds(link[<<c, n>>]) \in turnedAway'[<<c, n>>]
          BY <3>1, <3>2, <4>1 DEF TrySend
        <5>3. "application" \notin Kinds(link[<<c, n>>])
          BY <5>2 DEF TimeToAnswer, NothingCrowdedOut
        <5> QED BY <1>1, <1>3, <5>1, <5>3, RoomToAsk
      <4>3. link'[<<c, n>>] = Append(link[<<c, n>>], messages[<<c, n>>])
        BY <3>1, <3>2, <4>1, <4>2 DEF TrySend
      <4>4. messages[<<c, n>>] \in Range(link'[<<c, n>>])
        BY <1>t, <3>1, <3>2, <4>1, <4>2, <4>3, QueueAppend DEF HasRoom
      <4>5. /\ messages[<<c, n>>].id = r.id /\ messages[<<c, n>>].at = now /\ r.sent = now
            /\ messages[<<c, n>>].kind = "request"
        BY <3>1, <3>6, <4>1
      <4>6. messages[<<c, n>>].at <= r.sent
        BY <1>t, <4>5
      <4> QED BY <4>4, <4>5, <4>6 DEF Travels, OnItsWay
    <3>7. \A r \in pending'[c] : r.target = n => Travels(c, n, r)'
      BY <1>4, <2>0, <3>1, <3>6
    <3> QED BY <3>5, <3>7
  <2> QED BY <2>2, <2>3
<1>6. ASSUME NEW e \in Container, SenderRecv(e)
      PROVE  /\ \A r \in missed'[c] : r.target # n
             /\ \A r \in pending'[c] : r.target = n => Travels(c, n, r)'
  <2>0. HeartbeatStep
    BY <1>6 DEF HeartbeatStep, TaskStep
  <2>1. missed' = missed /\ pending'[c] \subseteq pending[c]
    BY <1>t, <1>6 DEF SenderRecv
  <2> QED BY <1>2, <1>4, <2>0, <2>1
<1>7. ASSUME HeartbeatStep, UNCHANGED senderVars
      PROVE  /\ \A r \in missed'[c] : r.target # n
             /\ \A r \in pending'[c] : r.target = n => Travels(c, n, r)'
  <2>1. missed' = missed /\ pending' = pending
    BY <1>7 DEF senderVars
  <2> QED BY <1>2, <1>4, <1>7, <2>1
<1>8. CASE HeartbeatStep
  <2>1. ASSUME NEW e \in Container, ReceiverRecv(e) \/ ReceiverCheck(e)
        PROVE  UNCHANGED senderVars
    BY <2>1 DEF ReceiverRecv, ReceiverCheck
  <2>2. ASSUME NEW l \in Link, ComponentSends(l) \/ Arrive(l) \/ Lose(l)
        PROVE  UNCHANGED senderVars
    BY <2>2 DEF ComponentSends, Arrive, Lose
  <2>3. \/ \E e \in Container : SenderTick(e) \/ SenderRecv(e)
        \/ UNCHANGED senderVars
    BY <1>8, <2>1, <2>2 DEF HeartbeatStep, TaskStep
  <2> QED BY <1>5, <1>6, <1>7, <1>8, <2>3
<1>9. CASE \/ Advance \/ (\E l \in Link : Stall(l) \/ Recover(l)) \/ UNCHANGED heartbeatVars
  <2>1. UNCHANGED <<missed, pending, link, inbox>> /\ route' = route
    BY <1>9, LossesRemembered DEF Advance, Stall, Recover, heartbeatVars, senderVars
  <2> QED BY <1>2, <2>1 DEF Travels
<1> QED BY <1>8, <1>9 DEF HeartbeatNext
-----------------------------------------------------------------------------
LEMMA TimingStarts == HeartbeatInit => TimingInv
<1> SUFFICES ASSUME HeartbeatInit PROVE TimingInv
  OBVIOUS
<1>1. HeartbeatInv
  BY HeartbeatStarts
<1>2. /\ now = 0
      /\ \A l \in Link : link[l] = <<>>
      /\ \A c \in Container : /\ inbox[c] = <<>> /\ pending[c] = {} /\ missed[c] = {}
                              /\ lastReceived[c] = 0
  BY DEF HeartbeatInit
<1>3. \A c \in Container : ~timedOut[c]
  <2>1. timedOut = [c \in Container |-> FALSE]
    BY DEF HeartbeatInit
  <2> QED BY <2>1, Zenon
<1>4. Range(<<>>) = {} /\ Len(<<>>) = 0
  BY EmptyQueue
<1>5. QueuesInOrder /\ HandedOnInTime
  BY <1>2, <1>4 DEF QueuesInOrder, InOrder, HandedOnInTime
<1>6. TargetsConnected
  BY TargetsConnectedAtStart
<1>7. PICK start \in 0 .. MaxStart :
         due = [c \in Container |-> IF IsSender(c) THEN start + task[c].interval ELSE 0]
  BY DEF HeartbeatInit
<1>8. /\ start \in Nat /\ start <= MaxStart /\ MaxStart \in Nat /\ MaxLag \in Nat
      /\ MaxDelay \in Nat
  BY HeartbeatAssumption
<1>9. ASSUME NEW c \in Container, IsSender(c)
      PROVE  task[c].interval \in Nat /\ due[c] = start + task[c].interval
  <2>1. task[c].interval \in Nat
    BY <1>1, <1>9, KindsOfTasks DEF HeartbeatInv, IsSender
  <2> QED BY <1>7, <1>9, <2>1
<1>10. \A c \in Container, n \in Name : link[<<c, n>>] = <<>>
  BY <1>2 DEF Link
<1>11. SendersAsk /\ RequestsSpaced
  BY <1>2, <1>4, <1>8, <1>9, <1>10 DEF SendersAsk, RequestsSpaced, Spaced
<1>12. SenderHeard
  <2> SUFFICES ASSUME NEW s \in Container, NEW n \in Name, TimeToHear(s, n)
               PROVE  ~timedOut[route[s][n]] /\ RequestComes(s, n)
    BY DEF SenderHeard
  <2>c. PICK c : c = route[s][n]
    OBVIOUS
  <2>1. /\ IsSender(s) /\ IsReceiver(c) /\ c \in Container
        /\ task[c].timeout >= MaxStart + task[s].interval + MaxDelay + 2 * MaxLag
    BY <1>6, <2>c DEF TimeToHear, Reaches, TargetsConnected
  <2>2. task[c].timeout \in Nat
    BY <1>1, <2>1, KindsOfTasks DEF HeartbeatInv
  <2>3. due[s] = start + task[s].interval /\ task[s].interval \in Nat /\ lastReceived[c] = 0
    BY <1>2, <1>9, <2>1
  <2>4. due[s] + MaxDelay + 2 * MaxLag <= lastReceived[c] + task[c].timeout
    BY <1>8, <2>1, <2>2, <2>3
  <2>5. RequestComes(s, n)
    BY <2>c, <2>4 DEF RequestComes, SignOfLife
  <2> QED BY <1>3, <2>c, <2>1, <2>5
<1>13. TargetHeard
  BY <1>2 DEF TargetHeard
<1> QED BY <1>5, <1>6, <1>11, <1>12, <1>13 DEF TimingInv

LEMMA TimingSteps ==
    ASSUME HeartbeatInv, TimingInv, [HeartbeatNext]_heartbeatVars
    PROVE  TimingInv'
<1>1. QueuesInOrder' /\ HandedOnInTime'
  BY QueuesKeep DEF TimingInv
<1>2. SendersAsk' /\ RequestsSpaced'
  BY SendersKeep DEF TimingInv
<1>3. TargetsConnected'
  <2>1. task' = task /\ route' = route
    BY LossesRemembered
  <2> QED BY <2>1 DEF TimingInv, TargetsConnected, IsSender
<1> QED BY <1>1, <1>2, <1>3, SenderHeardKept, TargetHeardKept DEF TimingInv

\* The inductive invariant of a heartbeat's way: since when each message is
\* where it is, how far apart the requests on a connection are, and when the
\* next one reaches a receiver.
THEOREM TimingInvariant == HeartbeatSpec => [](HeartbeatInv /\ TimingInv)
<1>1. HeartbeatInit => HeartbeatInv /\ TimingInv
  BY HeartbeatStarts, TimingStarts
<1>2. HeartbeatInv /\ TimingInv /\ [HeartbeatNext]_heartbeatVars => (HeartbeatInv /\ TimingInv)'
  BY HeartbeatSteps, TimingSteps
<1> QED BY <1>1, <1>2, PTL DEF HeartbeatSpec

\* HeartbeatReceiver does not call on_timeout while a sender whose connection
\* is not disturbed reaches it, if timeout_ms covers that sender's start and
\* interval and the way, and the messages of the sender's component never fill
\* the client's channel by themselves when a request is due: for any periods,
\* networks and other senders, and whatever else is in that channel.
THEOREM NeverAFalseTimeout == HeartbeatSpec => []NoFalseTimeout
<1>1. HeartbeatInv /\ TimingInv => NoFalseTimeout
  <2> SUFFICES ASSUME HeartbeatInv, TimingInv, NEW c \in Container, NEW s \in Container,
                      NEW n \in Name, Reaches(s, n), route[s][n] = c,
                      QueueHeldRequest(s, n), timedOut[c],
                      ~(task[c].timeout < MaxStart + task[s].interval + MaxDelay + 2 * MaxLag)
               PROVE  FALSE
    BY DEF NoFalseTimeout
  <2>1. /\ task[c].timeout \in Nat /\ task[s].interval \in Nat
        /\ MaxStart \in Nat /\ MaxDelay \in Nat /\ MaxLag \in Nat
    BY KindsOfTasks, HeartbeatAssumption DEF HeartbeatInv, Reaches, IsSender, IsReceiver
  <2>2. TimeToHear(s, n)
    BY <2>1 DEF TimeToHear
  <2> QED BY <2>2 DEF TimingInv, SenderHeard
<1> QED BY <1>1, TimingInvariant, PTL

\* prune_timed_out does not call on_missed for a target that is configured to
\* answer, over connections that work and with none of the heartbeats between
\* the two crowded out (on the way there: by the component's messages), if
\* response_timeout_ms covers the round trip.
THEOREM NeverAFalseMiss == HeartbeatSpec => []NoFalseMiss
<1>1. HeartbeatInv /\ TimingInv => NoFalseMiss
  <2> SUFFICES ASSUME HeartbeatInv, TimingInv, NEW c \in Container, NEW r \in missed[c],
                      Reaches(c, r.target), CanAnswer(c, r.target),
                      NothingCrowdedOut(c, r.target),
                      ~(task[c].responseTimeout < RoundTrip),
                      ~(ChannelCap * task[c].interval <= MaxDelay + MaxLag)
               PROVE  FALSE
    BY DEF NoFalseMiss
  <2>1. r.target \in Name
    BY DEF HeartbeatInv, HeartbeatTypeOK, Request
  <2>2. /\ task[c].responseTimeout \in Nat /\ task[c].interval \in Nat
        /\ MaxDelay \in Nat /\ MaxLag \in Nat /\ ChannelCap \in Nat
    BY KindsOfTasks, HeartbeatAssumption DEF HeartbeatInv, Reaches, IsSender
  <2>3. task[c].responseTimeout >= RoundTrip
    BY <2>2 DEF RoundTrip
  <2>p. PICK p : p = ChannelCap * task[c].interval
    OBVIOUS
  <2>4. p > MaxDelay + MaxLag
    <3>1. p \in Nat /\ ~(p <= MaxDelay + MaxLag)
      BY <2>2, <2>p
    <3> QED BY <2>2, <3>1
  <2>5. TimeToAnswer(c, r.target)
    BY <2>3, <2>4, <2>p DEF TimeToAnswer
  <2> QED BY <2>1, <2>5 DEF TimingInv, TargetHeard
<1> QED BY <1>1, TimingInvariant, PTL
=============================================================================
