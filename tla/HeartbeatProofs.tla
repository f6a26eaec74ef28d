--------------------------- MODULE HeartbeatProofs ---------------------------
(***************************************************************************)
(* Theorems about module Heartbeat, for any network of containers, any     *)
(* periods and timeouts, and any lag, delay and channel capacity.          *)
(***************************************************************************)
EXTENDS Heartbeat, FiniteSetTheorems, SequenceTheorems, TLAPS

SenderTasks == [kind : {"sender"}, interval : Nat \ {0}, responseTimeout : Nat,
                targets : {T \in SUBSET Name : IsFiniteSet(T)}]

ReceiverTasks == {t \in [kind : {"receiver"}, timeout : Nat, interval : Nat \ {0}] :
                     t.interval = CheckInterval(t.timeout)}

\* What a container can have for a heartbeat task.
TasksOK == \A c \in Container : task[c] \in {NoTask} \cup SenderTasks \cup ReceiverTasks

\* An interval fires in time, and a watchdog is never set further ahead than
\* its own interval.
TimersFire == \A c \in Container :
    /\ task[c].kind # "none" => now <= due[c] + MaxLag
    /\ IsReceiver(c) => due[c] <= now + task[c].interval

\* What is still waited for was not late at the last tick.
PendingPruned == \A c \in Container : \A r \in pending[c] :
    IsSender(c) /\ due[c] <= r.sent + task[c].responseTimeout + task[c].interval

\* A watchdog that was not silent at its last check looks again in time.
SilenceChecked == \A c \in Container :
    IsReceiver(c) /\ ~timedOut[c] => due[c] <= lastReceived[c] + task[c].timeout + task[c].interval

\* An id is used for one request, which is in one place.
IdsUsedOnce == \A c \in Container :
    /\ \A r, s \in pending[c] \cup missed[c] : r.id = s.id => r = s
    /\ \A r, s \in answered[c] : r.id = s.id => r = s
    /\ \A r \in answered[c], s \in pending[c] \cup missed[c] : r.id # s.id
    /\ pending[c] \cap missed[c] = {}

IdsOf(c) == {r.id : r \in pending[c] \cup answered[c] \cup missed[c]}

EveryIdHasAFate == \A c \in Container : IdsOf(c) = 1 .. nextId[c]

TargetsAnswer == \A c \in Container :
    KnownByName(c) => \A r \in answered[c] : r.by = route[c][r.target]

\* If c waits for the answer with that id, it is d whom it asked.
Asked(c, id, d) == /\ id <= nextId[c]
                   /\ \A r \in pending[c] : r.id = id => route[c][r.target] = d

OnTheWay(l, m) ==
    /\ m.from = l[1]
    /\ m.kind = "request" => /\ m.id <= nextId[l[1]]
                             /\ \A r \in pending[l[1]] : r.id = m.id => r.target = l[2]
    /\ m.kind = "response" => /\ l[2] \in Container /\ l[2] \in DOMAIN route[l[1]]
                              /\ Asked(l[2], m.id, l[1])

Arrived(c, m) ==
    /\ IsReceiver(c) => Asked(m.from, m.id, c)
    /\ IsSender(c) /\ KnownByName(c) => Asked(c, m.id, m.from)

\* Every heartbeat on its way names the request it belongs to.
HeartbeatsBelong ==
    /\ \A l \in Link : \A m \in Range(link[l]) : OnTheWay(l, m)
    /\ \A c \in Container : \A m \in Range(inbox[c]) : Arrived(c, m)

\* The inductive invariant.
HeartbeatInv == /\ HeartbeatTypeOK /\ TasksOK /\ TimersFire /\ PendingPruned
                /\ SilenceChecked /\ IdsUsedOnce /\ EveryIdHasAFate /\ TargetsAnswer
                /\ HeartbeatsBelong
-----------------------------------------------------------------------------
\* The channels.
LEMMA ElementsOfSeq ==
    ASSUME NEW S, NEW q \in Seq(S)
    PROVE  \A x : x \in Range(q) <=> \E i \in 1 .. Len(q) : x = q[i]
<1>1. DOMAIN q = 1 .. Len(q)
  OBVIOUS
<1>2. Range(q) = {q[i] : i \in DOMAIN q}
  BY DEF Range
<1> QED BY <1>1, <1>2

LEMMA QueueAppend ==
    ASSUME NEW q \in Queue, Len(q) < ChannelCap, NEW m \in Message
    PROVE  Append(q, m) \in Queue /\ Range(Append(q, m)) = Range(q) \cup {m}
<1>1. q \in Seq(Message) /\ Len(q) \in Nat
  BY DEF Queue
<1>2. /\ Append(q, m) \in Seq(Message) /\ Len(Append(q, m)) = Len(q) + 1
      /\ \A i \in 1 .. Len(q) + 1 : Append(q, m)[i] = IF i = Len(q) + 1 THEN m ELSE q[i]
  BY <1>1, AppendProperties
<1>3. Append(q, m) \in Queue
  BY <1>1, <1>2, HeartbeatAssumption DEF Queue
<1>4. \A x : x \in Range(q) <=> \E i \in 1 .. Len(q) : x = q[i]
  BY <1>1, ElementsOfSeq
<1>5. \A x : x \in Range(Append(q, m)) <=> \E i \in 1 .. Len(q) + 1 : x = Append(q, m)[i]
  <2>1. \A x : x \in Range(Append(q, m)) <=>
                 \E i \in 1 .. Len(Append(q, m)) : x = Append(q, m)[i]
    BY <1>2, ElementsOfSeq
  <2> QED BY <1>2, <2>1
<1>6. Range(Append(q, m)) \subseteq Range(q) \cup {m}
  BY <1>1, <1>2, <1>4, <1>5
<1>7. Range(q) \cup {m} \subseteq Range(Append(q, m))
  <2>1. m \in Range(Append(q, m))
    BY <1>1, <1>2, <1>5
  <2>2. ASSUME NEW i \in 1 .. Len(q) PROVE q[i] \in Range(Append(q, m))
    BY <1>1, <1>2, <1>5
  <2> QED BY <1>4, <2>1, <2>2
<1> QED BY <1>3, <1>6, <1>7

LEMMA QueueTail ==
    ASSUME NEW q \in Queue, q # <<>>
    PROVE  /\ Head(q) \in Message /\ Head(q) \in Range(q)
           /\ Tail(q) \in Queue /\ Range(Tail(q)) \subseteq Range(q)
<1>1. q \in Seq(Message) /\ Len(q) \in Nat /\ Len(q) <= ChannelCap /\ Len(q) # 0
  BY DEF Queue
<1>2. /\ Head(q) \in Message /\ Head(q) = q[1]
      /\ Tail(q) \in Seq(Message) /\ Len(Tail(q)) = Len(q) - 1
      /\ \A i \in 1 .. Len(Tail(q)) : Tail(q)[i] = q[i + 1]
  BY <1>1, HeadTailProperties
<1>3. Tail(q) \in Queue
  BY <1>1, <1>2, HeartbeatAssumption DEF Queue
<1>4. \A x : x \in Range(q) <=> \E i \in 1 .. Len(q) : x = q[i]
  BY <1>1, ElementsOfSeq
<1>5. \A x : x \in Range(Tail(q)) <=> \E i \in 1 .. Len(Tail(q)) : x = Tail(q)[i]
  BY <1>2, ElementsOfSeq
<1>6. Head(q) \in Range(q)
  BY <1>1, <1>2, <1>4
<1>7. \A i \in 1 .. Len(Tail(q)) : i + 1 \in 1 .. Len(q)
  BY <1>1, <1>2
<1>8. Range(Tail(q)) \subseteq Range(q)
  BY <1>2, <1>4, <1>5, <1>7
<1> QED BY <1>2, <1>3, <1>6, <1>8

LEMMA EmptyQueue == <<>> \in Queue /\ Range(<<>>) = {}
<1>1. <<>> \in Seq(Message) /\ Len(<<>>) = 0
  OBVIOUS
<1>2. <<>> \in Queue
  BY <1>1, HeartbeatAssumption DEF Queue
<1>3. ASSUME NEW q \in Seq(Message), Len(q) = 0 PROVE Range(q) = {}
  <2>1. DOMAIN q = 1 .. 0
    BY <1>3
  <2> QED BY <2>1 DEF Range
<1>4. Range(<<>>) = {}
  BY <1>1, <1>3
<1> QED BY <1>2, <1>4
-----------------------------------------------------------------------------
\* What the configuration of a container comes to.
LEMMA CheckIntervalType ==
    ASSUME NEW timeout \in Nat
    PROVE  /\ CheckInterval(timeout) \in Nat \ {0}
           /\ CheckInterval(timeout) \in {timeout \div 3, Second}
<1>1. timeout \div 3 \in Nat
  OBVIOUS
<1> QED BY <1>1, HeartbeatConfigAssumption DEF CheckInterval

LEMMA OptionValue ==
    ASSUME NEW S, NEW o \in Option(S), o # <<>>
    PROVE  o[1] \in S
BY DEF Option

LEMMA TargetsOf ==
    ASSUME NEW ts \in Seq(Name), NEW senders
    PROVE  /\ Range(ts) \cap DOMAIN senders \subseteq Name
           /\ IsFiniteSet(Range(ts) \cap DOMAIN senders)
<1>1. /\ Range(ts) = {ts[i] : i \in 1 .. Len(ts)} /\ Len(ts) \in Nat
      /\ DOMAIN ts = 1 .. Len(ts)
  BY DEF Range
<1>2. Range(ts) \subseteq Name
  BY <1>1
<1>3. ts \in Surjection(1 .. Len(ts), Range(ts))
  BY <1>1 DEF Surjection
<1>4. IsFiniteSet(1 .. Len(ts))
  BY <1>1, FS_Interval
<1>5. IsFiniteSet(Range(ts))
  BY <1>3, <1>4, FS_Surjection
<1> QED BY <1>2, <1>5, FS_Intersection

LEMMA TaskOfType ==
    ASSUME NEW start \in Start
    PROVE  TaskOf(start) \in {NoTask} \cup SenderTasks \cup ReceiverTasks
<1> DEFINE xml == start.xml
           senders == ClientSenders(start.connections)
<1>1. /\ xml.interval_ms \in Option(Nat) /\ xml.response_timeout_ms \in Option(Nat)
      /\ xml.targets \in Option(Seq(Name)) /\ xml.timeout_ms \in Option(Nat)
  BY DEF Start, HeartbeatXml
<1>2. CASE ToConfigPanics(xml)
  BY <1>2 DEF TaskOf
<1>3. CASE ~ToConfigPanics(xml) /\ xml.mode = "sender"
  <2>1. xml.interval_ms[1] \in Nat /\ xml.response_timeout_ms[1] \in Nat
    BY <1>1, <1>3, OptionValue DEF ToConfigPanics
  <2> DEFINE ts == UnwrapOr(xml.targets, <<>>)
             config == [interval |-> xml.interval_ms[1],
                        responseTimeout |-> xml.response_timeout_ms[1], targets |-> ts]
             whole == [mode |-> "sender", receiver |-> <<>>, sender |-> <<config>>]
  <2>2. ts \in Seq(Name)
    BY <1>1, OptionValue DEF UnwrapOr
  <2>3. ToConfig(xml) = <<whole>>
    BY <1>3 DEF ToConfig, SenderConfig
  <2>4. UnwrapOr(<<whole>>, [mode |-> "disabled"]) = whole
    BY DEF UnwrapOr
  <2>5. SpawnHeartbeatTasks(<<whole>>, senders, start.hasHandler) = SenderTask(config, senders)
    BY <2>4 DEF SpawnHeartbeatTasks
  <2>6. TaskOf(start) = SenderTask(config, senders)
    BY <1>3, <2>3, <2>5 DEF TaskOf
  <2>7. Range(ts) \cap DOMAIN senders \in {T \in SUBSET Name : IsFiniteSet(T)}
    BY <2>2, TargetsOf
  <2>8. SenderTask(config, senders) \in {NoTask} \cup SenderTasks
    BY <2>1, <2>7 DEF SenderTask, SenderTasks
  <2> QED BY <2>6, <2>8
<1>4. CASE ~ToConfigPanics(xml) /\ xml.mode = "receiver"
  <2>1. xml.timeout_ms[1] \in Nat
    BY <1>1, <1>4, OptionValue DEF ToConfigPanics
  <2> DEFINE config == [timeout |-> xml.timeout_ms[1]]
             whole == [mode |-> "receiver", sender |-> <<>>, receiver |-> <<config>>]
  <2>2. ToConfig(xml) = <<whole>>
    BY <1>4 DEF ToConfig, ReceiverConfig
  <2>3. UnwrapOr(<<whole>>, [mode |-> "disabled"]) = whole
    BY DEF UnwrapOr
  <2>4. SpawnHeartbeatTasks(<<whole>>, senders, start.hasHandler)
            \in {NoTask, ReceiverTask(config)}
    BY <2>3 DEF SpawnHeartbeatTasks
  <2>5. TaskOf(start) \in {NoTask, ReceiverTask(config)}
    BY <1>4, <2>2, <2>4 DEF TaskOf
  <2>6. ReceiverTask(config) \in ReceiverTasks
    BY <2>1, CheckIntervalType DEF ReceiverTask, ReceiverTasks
  <2> QED BY <2>5, <2>6
<1>5. CASE ~ToConfigPanics(xml) /\ xml.mode = "disabled"
  <2>1. ToConfig(xml) = <<>>
    BY <1>5 DEF ToConfig
  <2>2. UnwrapOr(<<>>, [mode |-> "disabled"]) = [mode |-> "disabled"]
    BY DEF UnwrapOr
  <2>3. SpawnHeartbeatTasks(<<>>, senders, start.hasHandler) = NoTask
    BY <2>2 DEF SpawnHeartbeatTasks
  <2> QED BY <1>5, <2>1, <2>3 DEF TaskOf
<1>6. xml.mode \in {"sender", "receiver", "disabled"} \/ ToConfigPanics(xml)
  BY DEF ToConfigPanics
<1> QED BY <1>2, <1>3, <1>4, <1>5, <1>6

LEMMA KindsOfTasks ==
    ASSUME TasksOK, NEW c \in Container
    PROVE  /\ task[c].kind \in {"none", "sender", "receiver"}
           /\ IsSender(c) => task[c] \in SenderTasks
           /\ IsReceiver(c) => task[c] \in ReceiverTasks
           /\ task[c].kind # "none" => IsSender(c) \/ IsReceiver(c)
           /\ task[c].kind # "none" => task[c].interval \in Nat \ {0}
           /\ IsSender(c) => /\ task[c].responseTimeout \in Nat
                             /\ task[c].targets \subseteq Name
                             /\ IsFiniteSet(task[c].targets)
           /\ IsReceiver(c) => /\ task[c].timeout \in Nat
                               /\ task[c].interval = CheckInterval(task[c].timeout)
<1>1. task[c] \in {NoTask} \cup SenderTasks \cup ReceiverTasks
  BY DEF TasksOK
<1>2. CASE task[c] = NoTask
  BY <1>2 DEF NoTask, IsSender, IsReceiver
<1>3. CASE task[c] \in SenderTasks
  BY <1>3 DEF SenderTasks, IsSender, IsReceiver
<1>4. CASE task[c] \in ReceiverTasks
  BY <1>4 DEF ReceiverTasks, IsSender, IsReceiver
<1> QED BY <1>1, <1>2, <1>3, <1>4

LEMMA HeartbeatStarts == HeartbeatInit => HeartbeatInv
<1> SUFFICES ASSUME HeartbeatInit PROVE HeartbeatInv
  OBVIOUS
<1>1. TasksOK
  <2>1. PICK setup \in Setup : task = [c \in Container |-> TaskOf(setup[c])]
    BY DEF HeartbeatInit
  <2>2. \A c \in Container : setup[c] \in Start
    BY SetupAssumption
  <2> QED BY <2>1, <2>2, TaskOfType DEF TasksOK
<1>2. HeartbeatTypeOK
  <2>1. \A c \in Container : task[c].kind \in DOMAIN Expects
    BY <1>1, KindsOfTasks DEF Expects
  <2>2. due \in [Container -> Nat]
    <3>1. PICK start \in 0 .. MaxStart :
             due = [c \in Container |-> IF IsSender(c) THEN start + task[c].interval ELSE 0]
      BY DEF HeartbeatInit
    <3>2. start \in Nat
      BY HeartbeatAssumption
    <3>3. \A c \in Container : IsSender(c) => task[c].interval \in Nat
      BY <1>1, KindsOfTasks DEF IsSender
    <3> QED BY <3>1, <3>2, <3>3
  <2>3. /\ inbox \in [Container -> Queue] /\ link \in [Link -> Queue]
    BY EmptyQueue DEF HeartbeatInit
  <2>4. timedOut \in [Container -> BOOLEAN]
    BY DEF HeartbeatInit
  <2> QED BY <2>1, <2>2, <2>3, <2>4 DEF HeartbeatInit, HeartbeatTypeOK
<1>3. TimersFire /\ SilenceChecked
  <2> SUFFICES ASSUME NEW c \in Container
               PROVE  /\ task[c].kind # "none" => now <= due[c] + MaxLag
                      /\ IsReceiver(c) => due[c] <= now + task[c].interval
                      /\ IsReceiver(c) => due[c] <= lastReceived[c] + task[c].timeout
                                                    + task[c].interval
    BY DEF TimersFire, SilenceChecked
  <2>1. now = 0 /\ due[c] \in Nat /\ lastReceived[c] = 0
    BY <1>2 DEF HeartbeatInit, HeartbeatTypeOK
  <2>2. IsReceiver(c) => due[c] = 0
    BY DEF HeartbeatInit, IsSender, IsReceiver
  <2>3. /\ IsReceiver(c) => task[c].interval \in Nat /\ task[c].timeout \in Nat
    BY <1>1, KindsOfTasks DEF IsReceiver
  <2> QED BY <2>1, <2>2, <2>3, HeartbeatAssumption
<1>4. /\ \A c \in Container : pending[c] = {} /\ answered[c] = {} /\ missed[c] = {}
      /\ \A c \in Container : nextId[c] = 0
  BY DEF HeartbeatInit
<1>5. PendingPruned /\ IdsUsedOnce /\ TargetsAnswer
  BY <1>4 DEF PendingPruned, IdsUsedOnce, TargetsAnswer
<1>6. EveryIdHasAFate
  BY <1>4 DEF EveryIdHasAFate, IdsOf
<1>7. HeartbeatsBelong
  BY EmptyQueue DEF HeartbeatInit, HeartbeatsBelong
<1> QED BY <1>1, <1>2, <1>3, <1>5, <1>6, <1>7 DEF HeartbeatInv
-----------------------------------------------------------------------------
\* What a step may do with the ids of requests.
IdsGrow == \A c \in Container :
    /\ nextId[c] <= nextId'[c]
    /\ \A r \in pending'[c] : r \in pending[c] \/ r.id > nextId[c]

\* No step takes away what a heartbeat on its way is about.
LEMMA OldHeartbeatsBelong ==
    ASSUME HeartbeatTypeOK, HeartbeatTypeOK', HeartbeatsBelong, IdsGrow, UNCHANGED fixedVars
    PROVE  /\ \A l \in Link : \A m \in Range(link[l]) : OnTheWay(l, m)'
           /\ \A c \in Container : \A m \in Range(inbox[c]) : Arrived(c, m)'
<1>1. /\ nextId \in [Container -> Nat] /\ nextId' \in [Container -> Nat]
      /\ link \in [Link -> Queue] /\ inbox \in [Container -> Queue]
  BY DEF HeartbeatTypeOK
<1>2. \A q \in Queue : \A m \in Range(q) : m \in Message
  <2> SUFFICES ASSUME NEW q \in Queue, NEW m \in Range(q) PROVE m \in Message
    OBVIOUS
  <2>1. q \in Seq(Message)
    BY DEF Queue
  <2> QED BY <2>1, RangeOfSeq
<1>3. task' = task /\ route' = route
  BY DEF fixedVars
<1>4. ASSUME NEW c \in Container, NEW id \in Nat, NEW d, Asked(c, id, d)
      PROVE  Asked(c, id, d)'
  <2>1. id <= nextId'[c]
    BY <1>1, <1>4 DEF Asked, IdsGrow
  <2>2. ASSUME NEW r \in pending'[c], r.id = id PROVE route'[c][r.target] = d
    <3>1. ~(r.id > nextId[c])
      BY <1>1, <1>4, <2>2 DEF Asked
    <3>2. r \in pending[c]
      BY <3>1 DEF IdsGrow
    <3> QED BY <1>3, <1>4, <2>2, <3>2 DEF Asked
  <2> QED BY <2>1, <2>2 DEF Asked
<1>5. ASSUME NEW l \in Link, NEW m \in Range(link[l]) PROVE OnTheWay(l, m)'
  <2>1. OnTheWay(l, m) /\ m \in Message /\ l[1] \in Container
    BY <1>1, <1>2 DEF HeartbeatsBelong, Link
  <2>2. m.id \in Nat
    BY <2>1 DEF Message
  <2>3. ASSUME m.kind = "request"
        PROVE  /\ m.id <= nextId'[l[1]]
               /\ \A r \in pending'[l[1]] : r.id = m.id => r.target = l[2]
    <3>1. m.id <= nextId[l[1]]
      BY <2>1, <2>3 DEF OnTheWay
    <3>2. m.id <= nextId'[l[1]]
      BY <1>1, <2>1, <2>2, <3>1 DEF IdsGrow
    <3>3. ASSUME NEW r \in pending'[l[1]], r.id = m.id PROVE r.target = l[2]
      <4>1. ~(r.id > nextId[l[1]])
        BY <1>1, <2>1, <2>2, <3>1, <3>3
      <4>2. r \in pending[l[1]]
        BY <2>1, <4>1 DEF IdsGrow
      <4> QED BY <2>1, <2>3, <3>3, <4>2 DEF OnTheWay
    <3> QED BY <3>2, <3>3
  <2>4. ASSUME m.kind = "response"
        PROVE  l[2] \in Container /\ l[2] \in DOMAIN route'[l[1]] /\ Asked(l[2], m.id, l[1])'
    <3>1. l[2] \in Container /\ l[2] \in DOMAIN route[l[1]] /\ Asked(l[2], m.id, l[1])
      BY <2>1, <2>4 DEF OnTheWay
    <3> QED BY <1>3, <1>4, <2>2, <3>1
  <2>5. m.from = l[1]
    BY <2>1 DEF OnTheWay
  <2> QED BY <2>3, <2>4, <2>5 DEF OnTheWay
<1>6. ASSUME NEW c \in Container, NEW m \in Range(inbox[c]) PROVE Arrived(c, m)'
  <2>1. Arrived(c, m) /\ m.id \in Nat /\ m.from \in Container
    BY <1>1, <1>2 DEF HeartbeatsBelong, Message
  <2>2. /\ IsReceiver(c)' <=> IsReceiver(c)
        /\ IsSender(c)' <=> IsSender(c)
        /\ KnownByName(c)' <=> KnownByName(c)
    BY <1>3 DEF IsReceiver, IsSender, KnownByName
  <2> QED BY <1>4, <2>1, <2>2 DEF Arrived
<1> QED BY <1>5, <1>6

LEMMA KindsOfQueue ==
    ASSUME NEW q \in Queue
    PROVE  Kinds(q) \in SUBSET Kind
<1>1. q \in Seq(Message)
  BY DEF Queue
<1>2. \A m \in Range(q) : m \in Message
  BY <1>1, RangeOfSeq
<1>3. \A m \in Range(q) : m.kind \in Kind
  BY <1>2 DEF Message
<1> QED BY <1>3 DEF Kinds

\* What is sent joins what is on its way, unless the channel is full.
LEMMA TrySendEffect ==
    ASSUME HeartbeatTypeOK, NEW messages,
           \A l \in DOMAIN messages : messages[l] \in Message,
           TrySend(messages)
    PROVE  /\ link' \in [Link -> Queue]
           /\ \A l \in Link : \A m \in Range(link'[l]) :
                  m \in Range(link[l]) \/ (l \in DOMAIN messages /\ m = messages[l])
           /\ turnedAway' \in [Link -> SUBSET SUBSET Kind]
<1>0. link \in [Link -> Queue] /\ turnedAway \in [Link -> SUBSET SUBSET Kind]
  BY DEF HeartbeatTypeOK
<1>1. link' = [l \in Link |-> IF l \in DOMAIN messages /\ Len(link[l]) < ChannelCap
                                THEN Append(link[l], messages[l]) ELSE link[l]]
  BY DEF TrySend, HasRoom
<1>2. ASSUME NEW l \in Link
      PROVE  /\ link'[l] \in Queue
             /\ \A m \in Range(link'[l]) :
                   m \in Range(link[l]) \/ (l \in DOMAIN messages /\ m = messages[l])
  <2>1. CASE l \in DOMAIN messages /\ Len(link[l]) < ChannelCap
    <3>1. link'[l] = Append(link[l], messages[l])
      BY <1>1, <2>1
    <3>2. link[l] \in Queue /\ messages[l] \in Message
      BY <1>0, <2>1
    <3>3. link'[l] \in Queue /\ Range(link'[l]) = Range(link[l]) \cup {messages[l]}
      BY <2>1, <3>1, <3>2, QueueAppend
    <3> QED BY <2>1, <3>3
  <2>2. CASE ~(l \in DOMAIN messages /\ Len(link[l]) < ChannelCap)
    <3>1. link'[l] = link[l]
      BY <1>1, <2>2
    <3> QED BY <1>0, <3>1
  <2> QED BY <2>1, <2>2
<1>3. link' \in [Link -> Queue]
  BY <1>1, <1>2
<1>4. turnedAway' \in [Link -> SUBSET SUBSET Kind]
  <2>1. \A l \in Link : Kinds(link[l]) \in SUBSET Kind
    BY <1>0, KindsOfQueue
  <2>2. turnedAway' = [l \in Link |-> IF l \in DOMAIN messages /\ ~HasRoom(l)
                                        THEN turnedAway[l] \cup {Kinds(link[l])}
                                        ELSE turnedAway[l]]
    BY DEF TrySend
  <2> QED BY <1>0, <2>1, <2>2
<1> QED BY <1>2, <1>3, <1>4
-----------------------------------------------------------------------------
\* Nothing happens to the requests.
LEMMA RequestsStay ==
    ASSUME HeartbeatInv, UNCHANGED <<senderVars, fixedVars>>
    PROVE  TasksOK' /\ IdsUsedOnce' /\ EveryIdHasAFate' /\ TargetsAnswer' /\ IdsGrow
<1>1. /\ task' = task /\ route' = route /\ nextId' = nextId /\ pending' = pending
      /\ answered' = answered /\ missed' = missed
  BY DEF senderVars, fixedVars
<1>2. TasksOK' /\ IdsUsedOnce' /\ EveryIdHasAFate' /\ TargetsAnswer'
  BY <1>1 DEF HeartbeatInv, TasksOK, IdsUsedOnce, EveryIdHasAFate, IdsOf, TargetsAnswer,
              KnownByName
<1>3. IdsGrow
  BY <1>1 DEF HeartbeatInv, HeartbeatTypeOK, IdsGrow
<1> QED BY <1>2, <1>3

\* The clock and the timers of all tasks stand still.
LEMMA TimersStay ==
    ASSUME HeartbeatInv, UNCHANGED <<now, fixedVars, due>>,
           \A c \in Container : pending'[c] \subseteq pending[c]
    PROVE  TimersFire' /\ PendingPruned'
<1>1. task' = task /\ now' = now /\ due' = due
  BY DEF fixedVars
<1>2. TimersFire'
  BY <1>1 DEF HeartbeatInv, TimersFire, IsReceiver
<1>3. PendingPruned'
  BY <1>1 DEF HeartbeatInv, PendingPruned, IsSender
<1> QED BY <1>2, <1>3

LEMMA SilenceStays ==
    ASSUME SilenceChecked, UNCHANGED <<fixedVars, due, receiverVars>>
    PROVE  SilenceChecked'
BY DEF SilenceChecked, IsReceiver, fixedVars, receiverVars

LEMMA IntervalFiresInTime ==
    ASSUME HeartbeatInv, NEW c \in Container, IntervalFires(c), now' = now, task' = task
    PROVE  TimersFire' /\ due' \in [Container -> Nat]
<1>1. /\ now \in Nat /\ due \in [Container -> Nat] /\ MaxLag \in Nat
      /\ task[c].interval \in Nat \ {0}
      /\ due[c] <= now /\ due' = [due EXCEPT ![c] = due[c] + task[c].interval]
  BY HeartbeatAssumption, KindsOfTasks DEF HeartbeatInv, HeartbeatTypeOK, IntervalFires
<1>2. due' \in [Container -> Nat]
  BY <1>1
<1>3. ASSUME NEW d \in Container
      PROVE  /\ task'[d].kind # "none" => now' <= due'[d] + MaxLag
             /\ IsReceiver(d)' => due'[d] <= now' + task'[d].interval
  <2>1. /\ task[d].kind # "none" => now <= due[d] + MaxLag
        /\ IsReceiver(d) => due[d] <= now + task[d].interval
    BY DEF HeartbeatInv, TimersFire
  <2>2. CASE d = c
    <3>1. due'[d] = due[c] + task[c].interval
      BY <1>1, <2>2
    <3>2. task[d].kind # "none"
      BY <2>2 DEF IntervalFires
    <3> QED BY <1>1, <2>1, <2>2, <3>1, <3>2
  <2>3. CASE d # c
    <3>1. due'[d] = due[d]
      BY <1>1, <2>3
    <3> QED BY <2>1, <3>1 DEF IsReceiver
  <2> QED BY <2>2, <2>3
<1> QED BY <1>2, <1>3 DEF TimersFire

LEMMA ReceiverCheckKeeps ==
    ASSUME HeartbeatInv, NEW c \in Container, ReceiverCheck(c)
    PROVE  HeartbeatInv'
<1>1. /\ UNCHANGED <<now, fixedVars, senderVars, lastReceived, inbox, link, linkVars, lossVars>>
      /\ IsReceiver(c) /\ IntervalFires(c)
      /\ timedOut' = [timedOut EXCEPT ![c] = @ \/ IsSilent(c)]
  BY DEF ReceiverCheck
<1>2. task' = task /\ now' = now
  BY <1>1 DEF fixedVars
<1>3. TimersFire' /\ due' \in [Container -> Nat]
  BY <1>1, <1>2, IntervalFiresInTime
<1>4. TasksOK' /\ IdsUsedOnce' /\ EveryIdHasAFate' /\ TargetsAnswer' /\ IdsGrow
  BY <1>1, RequestsStay
<1>5. HeartbeatTypeOK'
  <2>1. timedOut' \in [Container -> BOOLEAN]
    BY <1>1, Zenon DEF HeartbeatInv, HeartbeatTypeOK
  <2> QED BY <1>1, <1>3, <2>1
          DEF HeartbeatInv, HeartbeatTypeOK, fixedVars, senderVars, linkVars, lossVars
<1>6. PendingPruned'
  <2> SUFFICES ASSUME NEW d \in Container, NEW r \in pending'[d]
               PROVE  (/\ IsSender(d)
                       /\ due[d] <= r.sent + task[d].responseTimeout + task[d].interval)'
    BY DEF PendingPruned
  <2>1. /\ IsSender(d)
        /\ due[d] <= r.sent + task[d].responseTimeout + task[d].interval
    BY <1>1 DEF senderVars, HeartbeatInv, PendingPruned
  <2>2. d # c
    BY <1>1, <2>1 DEF IsSender, IsReceiver
  <2>3. due'[d] = due[d]
    BY <1>1, <2>2 DEF IntervalFires, HeartbeatInv, HeartbeatTypeOK
  <2> QED BY <1>2, <2>1, <2>3 DEF IsSender
<1>7. SilenceChecked'
  <2> SUFFICES ASSUME NEW d \in Container, IsReceiver(d)', ~timedOut'[d]
               PROVE  (due[d] <= lastReceived[d] + task[d].timeout + task[d].interval)'
    BY DEF SilenceChecked
  <2>1. /\ due \in [Container -> Nat] /\ lastReceived \in [Container -> Nat] /\ now \in Nat
    BY DEF HeartbeatInv, HeartbeatTypeOK
  <2>2. IsReceiver(d) /\ lastReceived' = lastReceived
    BY <1>1, <1>2 DEF IsReceiver
  <2>3. CASE d = c
    <3>1. due'[c] = due[c] + task[c].interval /\ due[c] <= now
      BY <1>1, <2>1 DEF IntervalFires
    <3>2. ~IsSilent(c)
      BY <1>1, <2>3, Zenon DEF HeartbeatInv, HeartbeatTypeOK
    <3>3. task[c].timeout \in Nat /\ task[c].interval \in Nat
      BY <2>2, <2>3, KindsOfTasks DEF HeartbeatInv, IsReceiver
    <3>4. now - lastReceived[c] <= task[c].timeout
      BY <2>1, <3>2, <3>3 DEF IsSilent
    <3>5. due'[c] <= lastReceived[c] + task[c].timeout + task[c].interval
      BY <2>1, <3>1, <3>3, <3>4
    <3> QED BY <1>2, <2>2, <2>3, <3>5
  <2>4. CASE d # c
    <3>1. due'[d] = due[d]
      BY <1>1, <2>1, <2>4 DEF IntervalFires
    <3>2. ~timedOut[d]
      BY <1>1, <2>4, Zenon DEF HeartbeatInv, HeartbeatTypeOK
    <3> QED BY <1>2, <2>2, <3>1, <3>2 DEF HeartbeatInv, SilenceChecked
  <2> QED BY <2>3, <2>4
<1>8. HeartbeatsBelong'
  <2>1. /\ \A l \in Link : \A m \in Range(link[l]) : OnTheWay(l, m)'
        /\ \A d \in Container : \A m \in Range(inbox[d]) : Arrived(d, m)'
    BY <1>1, <1>4, <1>5, OldHeartbeatsBelong DEF HeartbeatInv
  <2>2. link' = link /\ inbox' = inbox
    BY <1>1
  <2> QED BY <2>1, <2>2 DEF HeartbeatsBelong
<1> QED BY <1>3, <1>4, <1>5, <1>6, <1>7, <1>8 DEF HeartbeatInv

\* A connection stalls, recovers or loses something, the component sends
\* something, or nothing happens at all.
LEMMA ConnectionChanges ==
    ASSUME HeartbeatInv, stalled' \subseteq disturbed', disturbed' \subseteq Link,
           UNCHANGED <<now, fixedVars, due, senderVars, receiverVars, inbox, lossVars>>,
           link' \in [Link -> Queue],
           \A l \in Link : \A m \in Range(link'[l]) :
              m \in Range(link[l]) \/ (m.from = l[1] /\ m.kind = "application")
    PROVE  HeartbeatInv'
<1>1. TasksOK' /\ IdsUsedOnce' /\ EveryIdHasAFate' /\ TargetsAnswer' /\ IdsGrow
  BY RequestsStay
<1>2. TimersFire' /\ PendingPruned'
  <2>1. \A c \in Container : pending'[c] \subseteq pending[c]
    BY DEF senderVars
  <2> QED BY <2>1, TimersStay
<1>3. SilenceChecked'
  BY SilenceStays DEF HeartbeatInv
<1>4. HeartbeatTypeOK'
  BY DEF HeartbeatInv, HeartbeatTypeOK, fixedVars, senderVars, receiverVars, lossVars
<1>5. HeartbeatsBelong'
  <2>1. /\ \A l \in Link : \A m \in Range(link[l]) : OnTheWay(l, m)'
        /\ \A d \in Container : \A m \in Range(inbox[d]) : Arrived(d, m)'
    BY <1>1, <1>4, OldHeartbeatsBelong DEF HeartbeatInv
  <2>2. \A l \in Link : \A m : m.from = l[1] /\ m.kind = "application" => OnTheWay(l, m)'
    BY DEF OnTheWay
  <2> QED BY <2>1, <2>2 DEF HeartbeatsBelong
<1> QED BY <1>1, <1>2, <1>3, <1>4, <1>5 DEF HeartbeatInv

LEMMA ComponentSendsKeeps ==
    ASSUME HeartbeatInv, NEW l \in Link, ComponentSends(l)
    PROVE  HeartbeatInv'
<1>m. PICK m : m = [kind |-> "application", id |-> 0, from |-> l[1], at |-> now]
  OBVIOUS
<1>1. /\ UNCHANGED <<now, fixedVars, due, senderVars, receiverVars, inbox, linkVars, lossVars>>
      /\ Len(link[l]) < ChannelCap /\ link' = [link EXCEPT ![l] = Append(@, m)]
  BY <1>m DEF ComponentSends, HasRoom
<1>2. /\ now \in Nat /\ link \in [Link -> Queue] /\ l[1] \in Container
      /\ stalled \subseteq disturbed /\ disturbed \subseteq Link
  BY DEF HeartbeatInv, HeartbeatTypeOK, Link
<1>3. m \in Message /\ m.from = l[1] /\ m.kind = "application"
  BY <1>m, <1>2 DEF Message, Kind
<1>4. Append(link[l], m) \in Queue /\ Range(Append(link[l], m)) = Range(link[l]) \cup {m}
  BY <1>1, <1>2, <1>3, QueueAppend
<1>5. link' \in [Link -> Queue]
  BY <1>1, <1>2, <1>4
<1>6. \A k \in Link : \A x \in Range(link'[k]) :
         x \in Range(link[k]) \/ (x.from = k[1] /\ x.kind = "application")
  BY <1>1, <1>2, <1>3, <1>4
<1> QED BY <1>1, <1>2, <1>5, <1>6, ConnectionChanges DEF linkVars

LEMMA LoseKeeps ==
    ASSUME HeartbeatInv, NEW l \in Link, Lose(l)
    PROVE  HeartbeatInv'
<1>1. /\ UNCHANGED <<now, fixedVars, due, senderVars, receiverVars, inbox, linkVars, lossVars>>
      /\ link[l] # <<>> /\ link' = [link EXCEPT ![l] = Tail(@)]
  BY DEF Lose
<1>2. /\ link \in [Link -> Queue]
      /\ stalled \subseteq disturbed /\ disturbed \subseteq Link
  BY DEF HeartbeatInv, HeartbeatTypeOK
<1>3. Tail(link[l]) \in Queue /\ Range(Tail(link[l])) \subseteq Range(link[l])
  BY <1>1, <1>2, QueueTail
<1>4. link' \in [Link -> Queue]
  BY <1>1, <1>2, <1>3
<1>5. \A k \in Link : Range(link'[k]) \subseteq Range(link[k])
  BY <1>1, <1>2, <1>3
<1> QED BY <1>1, <1>2, <1>4, <1>5, ConnectionChanges DEF linkVars

LEMMA StallKeeps ==
    ASSUME HeartbeatInv, NEW l \in Link, Stall(l) \/ Recover(l)
    PROVE  HeartbeatInv'
<1>1. stalled \subseteq disturbed /\ disturbed \subseteq Link
  BY DEF HeartbeatInv, HeartbeatTypeOK
<1>2. stalled' \subseteq disturbed' /\ disturbed' \subseteq Link
  BY <1>1 DEF Stall, Recover
<1>3. UNCHANGED <<now, fixedVars, due, senderVars, receiverVars, inbox, link, lossVars>>
  BY DEF Stall, Recover
<1>4. link' \in [Link -> Queue]
  BY <1>3 DEF HeartbeatInv, HeartbeatTypeOK
<1> QED BY <1>2, <1>3, <1>4, ConnectionChanges

LEMMA AdvanceKeeps ==
    ASSUME HeartbeatInv, Advance
    PROVE  HeartbeatInv'
<1>1. /\ UNCHANGED <<fixedVars, due, senderVars, receiverVars, inbox, link, linkVars, lossVars>>
      /\ now' = now + 1
      /\ \A c \in Container : task[c].kind # "none" => now < due[c] + MaxLag
  BY DEF Advance
<1>2. TasksOK' /\ IdsUsedOnce' /\ EveryIdHasAFate' /\ TargetsAnswer' /\ IdsGrow
  BY <1>1, RequestsStay
<1>3. HeartbeatTypeOK'
  BY <1>1 DEF HeartbeatInv, HeartbeatTypeOK, fixedVars, senderVars, receiverVars, linkVars,
              lossVars
<1>4. SilenceChecked'
  BY <1>1, SilenceStays DEF HeartbeatInv
<1>5. PendingPruned'
  BY <1>1 DEF HeartbeatInv, PendingPruned, IsSender, senderVars, fixedVars
<1>6. TimersFire'
  <2> SUFFICES ASSUME NEW c \in Container
               PROVE  /\ task[c].kind # "none" => now + 1 <= due[c] + MaxLag
                      /\ IsReceiver(c) => due[c] <= now + 1 + task[c].interval
    BY <1>1 DEF TimersFire, IsReceiver, fixedVars
  <2>1. /\ now \in Nat /\ due[c] \in Nat /\ MaxLag \in Nat
        /\ IsReceiver(c) => task[c].interval \in Nat
    BY HeartbeatAssumption, KindsOfTasks DEF HeartbeatInv, HeartbeatTypeOK, IsReceiver
  <2>2. IsReceiver(c) => due[c] <= now + task[c].interval
    BY DEF HeartbeatInv, TimersFire
  <2> QED BY <1>1, <2>1, <2>2
<1>7. HeartbeatsBelong'
  <2>1. /\ \A l \in Link : \A m \in Range(link[l]) : OnTheWay(l, m)'
        /\ \A d \in Container : \A m \in Range(inbox[d]) : Arrived(d, m)'
    BY <1>1, <1>2, <1>3, OldHeartbeatsBelong DEF HeartbeatInv
  <2>2. link' = link /\ inbox' = inbox
    BY <1>1
  <2> QED BY <2>1, <2>2 DEF HeartbeatsBelong
<1> QED BY <1>2, <1>3, <1>4, <1>5, <1>6, <1>7 DEF HeartbeatInv

\* A heartbeat that reaches a task still names the request it belongs to.
LEMMA ArriveKeeps ==
    ASSUME HeartbeatInv, NEW l \in Link, Arrive(l)
    PROVE  HeartbeatInv'
<1>m. PICK m : m = Head(link[l])
  OBVIOUS
<1>to. PICK to : to = route[l[1]][l[2]]
  OBVIOUS
<1>given. PICK given : given = [m EXCEPT !.at = now]
  OBVIOUS
<1> DEFINE taken == m.kind = Expects[task[to].kind] /\ Len(inbox[to]) < ChannelCap
<1>1. /\ UNCHANGED <<now, fixedVars, due, senderVars, receiverVars, linkVars, turnedAway>>
      /\ link[l] # <<>>
      /\ link' = [link EXCEPT ![l] = Tail(@)]
      /\ inbox' = IF taken THEN [inbox EXCEPT ![to] = Append(@, given)] ELSE inbox
      /\ notTaken' \subseteq notTaken \cup {l}
  BY <1>m, <1>to, <1>given DEF Arrive
<1>2. /\ now \in Nat /\ link \in [Link -> Queue] /\ inbox \in [Container -> Queue]
      /\ \A c \in Container : task[c].kind \in DOMAIN Expects
  BY DEF HeartbeatInv, HeartbeatTypeOK
<1>3. /\ m \in Message /\ m \in Range(link[l])
      /\ Tail(link[l]) \in Queue /\ Range(Tail(link[l])) \subseteq Range(link[l])
  BY <1>m, <1>1, <1>2, QueueTail
<1>4. given \in Message /\ given.id = m.id /\ given.from = m.from /\ given.kind = m.kind
  BY <1>given, <1>2, <1>3 DEF Message
<1>5. TasksOK' /\ IdsUsedOnce' /\ EveryIdHasAFate' /\ TargetsAnswer' /\ IdsGrow
  BY <1>1, RequestsStay
<1>6. TimersFire' /\ PendingPruned'
  <2>1. \A c \in Container : pending'[c] \subseteq pending[c]
    BY <1>1 DEF senderVars
  <2> QED BY <1>1, <2>1, TimersStay
<1>7. SilenceChecked'
  BY <1>1, SilenceStays DEF HeartbeatInv
<1>8. ASSUME NEW c \in Container
      PROVE  /\ inbox'[c] \in Queue
             /\ Range(inbox'[c]) \subseteq Range(inbox[c])
                  \/ (/\ c = to /\ m.kind = Expects[task[to].kind]
                      /\ Range(inbox'[c]) = Range(inbox[c]) \cup {given})
  <2>1. CASE taken /\ c = to
    <3>1. inbox'[c] = Append(inbox[c], given) /\ Len(inbox[c]) < ChannelCap
      BY <1>1, <1>2, <2>1
    <3>2. inbox[c] \in Queue
      BY <1>2
    <3>3. inbox'[c] \in Queue /\ Range(inbox'[c]) = Range(inbox[c]) \cup {given}
      BY <1>4, <3>1, <3>2, QueueAppend
    <3> QED BY <2>1, <3>3
  <2>2. CASE ~(taken /\ c = to)
    <3>1. inbox'[c] = inbox[c]
      BY <1>1, <1>2, <2>2
    <3> QED BY <1>2, <3>1
  <2> QED BY <2>1, <2>2
<1>9. inbox' \in [Container -> Queue] /\ link' \in [Link -> Queue]
  <2>1. inbox' \in [Container -> Queue]
    <3>1. DOMAIN inbox' = Container /\ inbox' = [c \in Container |-> inbox'[c]]
      BY <1>1, <1>2
    <3> QED BY <1>8, <3>1
  <2>2. link' \in [Link -> Queue]
    BY <1>1, <1>2, <1>3
  <2> QED BY <2>1, <2>2
<1>10. HeartbeatTypeOK'
  BY <1>1, <1>9 DEF HeartbeatInv, HeartbeatTypeOK, fixedVars, senderVars, receiverVars, linkVars
<1>11. /\ \A k \in Link : \A n \in Range(link[k]) : OnTheWay(k, n)'
       /\ \A d \in Container : \A n \in Range(inbox[d]) : Arrived(d, n)'
  BY <1>1, <1>5, <1>10, OldHeartbeatsBelong DEF HeartbeatInv
<1>12. \A k \in Link : Range(link'[k]) \subseteq Range(link[k])
  BY <1>1, <1>2, <1>3
<1>13. ASSUME to \in Container, m.kind = Expects[task[to].kind]
       PROVE  Arrived(to, given)'
  <2>1. OnTheWay(l, m)'
    BY <1>3, <1>11
  <2>2. task' = task /\ route' = route /\ l[1] \in Container
    BY <1>1 DEF fixedVars, Link
  <2>3. m.from = l[1]
    BY <2>1 DEF OnTheWay
  <2>4. ASSUME IsReceiver(to)' PROVE Asked(given.from, given.id, to)'
    <3>1. m.kind = "request"
      BY <1>13, <2>2, <2>4 DEF IsReceiver, Expects
    <3>2. /\ m.id <= nextId'[l[1]]
          /\ \A r \in pending'[l[1]] : r.id = m.id => r.target = l[2]
      BY <2>1, <3>1 DEF OnTheWay
    <3>3. to = route'[l[1]][l[2]]
      BY <1>to, <2>2
    <3> QED BY <1>4, <2>3, <3>2, <3>3 DEF Asked
  <2>5. ASSUME IsSender(to)', KnownByName(to)' PROVE Asked(to, given.id, given.from)'
    <3>1. m.kind = "response"
      BY <1>13, <2>2, <2>5 DEF IsSender, Expects
    <3>2. l[2] \in Container /\ l[2] \in DOMAIN route'[l[1]] /\ Asked(l[2], m.id, l[1])'
      BY <2>1, <3>1 DEF OnTheWay
    <3>3. to = route'[l[1]][l[2]]
      BY <1>to, <2>2
    <3>4. l[2] = to
      BY <2>2, <2>5, <3>2, <3>3 DEF KnownByName
    <3> QED BY <1>4, <2>3, <3>2, <3>4
  <2> QED BY <2>4, <2>5 DEF Arrived
<1>14. HeartbeatsBelong'
  <2>1. ASSUME NEW c \in Container, NEW n \in Range(inbox'[c]) PROVE Arrived(c, n)'
    <3>1. n \in Range(inbox[c]) \/ (c = to /\ m.kind = Expects[task[to].kind] /\ n = given)
      BY <1>8, <2>1
    <3> QED BY <1>11, <1>13, <3>1
  <2> QED BY <1>11, <1>12, <2>1 DEF HeartbeatsBelong
<1> QED BY <1>5, <1>6, <1>7, <1>10, <1>14 DEF HeartbeatInv

\* A receiver answers whom it was asked by.
LEMMA ReceiverRecvKeeps ==
    ASSUME HeartbeatInv, NEW c \in Container, ReceiverRecv(c)
    PROVE  HeartbeatInv'
<1>m. PICK m : m = Head(inbox[c])
  OBVIOUS
<1>messages. PICK messages :
                messages = [l \in {c} \X ({m.from} \cap DOMAIN route[c]) |->
                              [kind |-> "response", id |-> m.id, from |-> c, at |-> now]]
  OBVIOUS
<1>1. /\ UNCHANGED <<now, fixedVars, due, senderVars, linkVars, notTaken>>
      /\ IsReceiver(c) /\ inbox[c] # <<>>
      /\ inbox' = [inbox EXCEPT ![c] = Tail(@)]
      /\ lastReceived' = [lastReceived EXCEPT ![c] = now]
      /\ timedOut' = [timedOut EXCEPT ![c] = FALSE]
      /\ TrySend(messages)
  BY <1>m, <1>messages DEF ReceiverRecv
<1>2. /\ now \in Nat /\ link \in [Link -> Queue] /\ inbox \in [Container -> Queue]
      /\ lastReceived \in [Container -> Nat] /\ timedOut \in [Container -> BOOLEAN]
      /\ due \in [Container -> Nat]
  BY DEF HeartbeatInv, HeartbeatTypeOK
<1>3. /\ m \in Message /\ m \in Range(inbox[c])
      /\ Tail(inbox[c]) \in Queue /\ Range(Tail(inbox[c])) \subseteq Range(inbox[c])
  BY <1>m, <1>1, <1>2, QueueTail
<1>4. /\ \A l \in DOMAIN messages : messages[l] \in Message
      /\ \A l \in DOMAIN messages :
            /\ l \in Link /\ l[1] = c /\ l[2] = m.from /\ m.from \in DOMAIN route[c]
            /\ messages[l].kind = "response" /\ messages[l].id = m.id /\ messages[l].from = c
  BY <1>messages, <1>2, <1>3, HeartbeatConfigAssumption DEF Message, Kind, Link
<1>5. /\ link' \in [Link -> Queue]
      /\ \A l \in Link : \A n \in Range(link'[l]) :
             n \in Range(link[l]) \/ (l \in DOMAIN messages /\ n = messages[l])
      /\ turnedAway' \in [Link -> SUBSET SUBSET Kind]
  BY <1>1, <1>4, TrySendEffect DEF HeartbeatInv
<1>6. TasksOK' /\ IdsUsedOnce' /\ EveryIdHasAFate' /\ TargetsAnswer' /\ IdsGrow
  BY <1>1, RequestsStay
<1>7. TimersFire' /\ PendingPruned'
  <2>1. \A d \in Container : pending'[d] \subseteq pending[d]
    BY <1>1 DEF senderVars
  <2> QED BY <1>1, <2>1, TimersStay
<1>8. SilenceChecked'
  <2> SUFFICES ASSUME NEW d \in Container, IsReceiver(d)', ~timedOut'[d]
               PROVE  (due[d] <= lastReceived[d] + task[d].timeout + task[d].interval)'
    BY DEF SilenceChecked
  <2>1. IsReceiver(d) /\ due' = due /\ task' = task
    BY <1>1 DEF fixedVars, IsReceiver
  <2>2. CASE d = c
    <3>1. task[c].timeout \in Nat /\ task[c].interval \in Nat
      BY <2>1, <2>2, KindsOfTasks DEF HeartbeatInv, IsReceiver
    <3>2. due[c] <= now + task[c].interval
      BY <2>1, <2>2 DEF HeartbeatInv, TimersFire
    <3>3. lastReceived'[c] = now
      BY <1>1, <1>2
    <3>4. due[c] <= now + task[c].timeout + task[c].interval
      BY <1>2, <3>1, <3>2
    <3> QED BY <2>1, <2>2, <3>3, <3>4
  <2>3. CASE d # c
    <3>1. lastReceived'[d] = lastReceived[d]
      BY <1>1, <1>2, <2>3
    <3>2. ~timedOut[d]
      BY <1>1, <1>2, <2>3, Zenon
    <3> QED BY <2>1, <3>1, <3>2 DEF HeartbeatInv, SilenceChecked
  <2> QED BY <2>2, <2>3
<1>9. HeartbeatTypeOK'
  <2>1. inbox' \in [Container -> Queue]
    BY <1>1, <1>2, <1>3, <1>m
  <2>2. lastReceived' \in [Container -> Nat]
    BY <1>1, <1>2
  <2>3. timedOut' \in [Container -> BOOLEAN]
    BY <1>1, <1>2, Zenon
  <2> QED BY <1>1, <1>5, <2>1, <2>2, <2>3
          DEF HeartbeatInv, HeartbeatTypeOK, fixedVars, senderVars, linkVars
<1>10. /\ \A l \in Link : \A n \in Range(link[l]) : OnTheWay(l, n)'
       /\ \A d \in Container : \A n \in Range(inbox[d]) : Arrived(d, n)'
  BY <1>1, <1>6, <1>9, OldHeartbeatsBelong DEF HeartbeatInv
<1>11. ASSUME NEW l \in DOMAIN messages
       PROVE  OnTheWay(l, messages[l])'
  <2>1. m.from \in Container /\ IsReceiver(c)' /\ route' = route
    BY <1>1, <1>3 DEF Message, IsReceiver, fixedVars
  <2>2. Asked(m.from, m.id, c)'
    BY <1>3, <1>10, <2>1 DEF Arrived
  <2> QED BY <1>4, <2>1, <2>2 DEF OnTheWay
<1>12. HeartbeatsBelong'
  <2>1. ASSUME NEW l \in Link, NEW n \in Range(link'[l]) PROVE OnTheWay(l, n)'
    BY <1>5, <1>10, <1>11
  <2>2. \A d \in Container : Range(inbox'[d]) \subseteq Range(inbox[d])
    BY <1>m, <1>1, <1>2, <1>3
  <2> QED BY <1>10, <2>1, <2>2 DEF HeartbeatsBelong
<1> QED BY <1>6, <1>7, <1>8, <1>9, <1>12 DEF HeartbeatInv

\* An answer settles the request it names, and no other.
LEMMA SenderRecvKeeps ==
    ASSUME HeartbeatInv, NEW c \in Container, SenderRecv(c)
    PROVE  HeartbeatInv'
<1>m. PICK m : m = Head(inbox[c])
  OBVIOUS
<1>found. PICK found : found = {r \in pending[c] : r.id = m.id}
  OBVIOUS
<1>1. /\ UNCHANGED <<now, fixedVars, due, nextId, missed, receiverVars, link, linkVars, lossVars>>
      /\ IsSender(c) /\ inbox[c] # <<>>
      /\ inbox' = [inbox EXCEPT ![c] = Tail(@)]
      /\ pending' = [pending EXCEPT ![c] = @ \ found]
      /\ answered' = [answered EXCEPT ![c] = @ \cup {[id |-> r.id, target |-> r.target,
                                                     by |-> m.from] : r \in found}]
  BY <1>m, <1>found DEF SenderRecv
<1>2. /\ inbox \in [Container -> Queue] /\ nextId \in [Container -> Nat]
      /\ pending \in [Container -> SUBSET Request]
      /\ answered \in [Container -> SUBSET [id : Nat \ {0}, target : Name, by : Container]]
      /\ missed \in [Container -> SUBSET Request]
  BY DEF HeartbeatInv, HeartbeatTypeOK
<1>3. /\ m \in Message /\ m \in Range(inbox[c])
      /\ Tail(inbox[c]) \in Queue /\ Range(Tail(inbox[c])) \subseteq Range(inbox[c])
  BY <1>m, <1>1, <1>2, QueueTail
<1>4. m.from \in Container
  BY <1>3 DEF Message
<1>5. task' = task /\ route' = route
  BY <1>1 DEF fixedVars
<1>6. /\ pending'[c] = pending[c] \ found
      /\ answered'[c] = answered[c] \cup {[id |-> r.id, target |-> r.target,
                                          by |-> m.from] : r \in found}
      /\ missed'[c] = missed[c]
      /\ \A d \in Container : d # c => /\ pending'[d] = pending[d]
                                       /\ answered'[d] = answered[d]
                                       /\ missed'[d] = missed[d]
  BY <1>1, <1>2
<1>7. found \subseteq pending[c] /\ \A r \in found : r.id = m.id
  BY <1>found
<1>8. HeartbeatTypeOK'
  <2>1. inbox' \in [Container -> Queue]
    BY <1>1, <1>2, <1>3, <1>m
  <2>2. pending' \in [Container -> SUBSET Request]
    BY <1>1, <1>2
  <2>3. answered' \in [Container -> SUBSET [id : Nat \ {0}, target : Name, by : Container]]
    <3>1. \A r \in found : [id |-> r.id, target |-> r.target, by |-> m.from]
              \in [id : Nat \ {0}, target : Name, by : Container]
      BY <1>2, <1>4, <1>7 DEF Request
    <3>2. {[id |-> r.id, target |-> r.target, by |-> m.from] : r \in found}
              \in SUBSET [id : Nat \ {0}, target : Name, by : Container]
      BY <3>1
    <3>3. \A d \in Container :
              answered'[d] \in SUBSET [id : Nat \ {0}, target : Name, by : Container]
      BY <1>2, <1>6, <3>2
    <3> QED BY <1>1, <1>2, <3>3
  <2> QED BY <1>1, <2>1, <2>2, <2>3
          DEF HeartbeatInv, HeartbeatTypeOK, fixedVars, receiverVars, linkVars, lossVars
<1>9. TasksOK'
  BY <1>5 DEF HeartbeatInv, TasksOK
<1>10. TimersFire' /\ PendingPruned' /\ SilenceChecked'
  <2>1. \A d \in Container : pending'[d] \subseteq pending[d]
    BY <1>6
  <2> QED BY <1>1, <2>1, TimersStay, SilenceStays DEF HeartbeatInv
<1>11. IdsGrow
  BY <1>1, <1>2, <1>6 DEF IdsGrow
<1>12. IdsUsedOnce'
  <2> SUFFICES ASSUME NEW d \in Container
               PROVE  (/\ \A r, s \in pending[d] \cup missed[d] : r.id = s.id => r = s
                       /\ \A r, s \in answered[d] : r.id = s.id => r = s
                       /\ \A r \in answered[d], s \in pending[d] \cup missed[d] : r.id # s.id
                       /\ pending[d] \cap missed[d] = {})'
    BY DEF IdsUsedOnce
  <2>1. /\ \A r, s \in pending[d] \cup missed[d] : r.id = s.id => r = s
        /\ \A r, s \in answered[d] : r.id = s.id => r = s
        /\ \A r \in answered[d], s \in pending[d] \cup missed[d] : r.id # s.id
        /\ pending[d] \cap missed[d] = {}
    BY DEF HeartbeatInv, IdsUsedOnce
  <2>2. CASE d = c
    <3>1. \A r \in answered'[c] : r \in answered[c]
             \/ \E s \in found : r = [id |-> s.id, target |-> s.target, by |-> m.from]
      BY <1>6
    <3>2. ASSUME NEW r \in answered'[c], NEW s \in answered'[c], r.id = s.id
          PROVE  r = s
      BY <1>7, <2>1, <2>2, <3>1, <3>2
    <3>3. ASSUME NEW r \in answered'[c], NEW s \in pending'[c] \cup missed'[c]
          PROVE  r.id # s.id
      <4>1. s \in pending[c] \cup missed[c] /\ s \notin found
        BY <1>6, <1>7, <2>1, <2>2
      <4>2. CASE r \in answered[c]
        BY <2>1, <2>2, <4>1, <4>2
      <4>3. CASE r \notin answered[c]
        <5>1. PICK q \in found : r.id = q.id
          BY <3>1, <4>3
        <5> QED BY <1>7, <2>1, <2>2, <4>1, <5>1
      <4> QED BY <4>2, <4>3
    <3>4. \A r, s \in pending'[c] \cup missed'[c] : r.id = s.id => r = s
      BY <1>6, <2>1, <2>2
    <3> QED BY <1>6, <2>1, <2>2, <3>2, <3>3, <3>4
  <2>3. CASE d # c
    BY <1>6, <2>1, <2>3
  <2> QED BY <2>2, <2>3
<1>13. EveryIdHasAFate'
  <2> SUFFICES ASSUME NEW d \in Container PROVE IdsOf(d)' = 1 .. nextId'[d]
    BY DEF EveryIdHasAFate
  <2>1. IdsOf(d) = 1 .. nextId[d] /\ nextId' = nextId
    BY <1>1 DEF HeartbeatInv, EveryIdHasAFate
  <2>2. CASE d = c
    <3>1. ASSUME NEW r \in pending'[c] \cup answered'[c] \cup missed'[c]
          PROVE  \E s \in pending[c] \cup answered[c] \cup missed[c] : r.id = s.id
      BY <1>6, <1>7
    <3>2. ASSUME NEW r \in pending[c] \cup answered[c] \cup missed[c]
          PROVE  \E s \in pending'[c] \cup answered'[c] \cup missed'[c] : r.id = s.id
      <4>1. CASE r \in found
        <5>1. [id |-> r.id, target |-> r.target, by |-> m.from] \in answered'[c]
          BY <1>6, <4>1
        <5> QED BY <5>1
      <4>2. CASE r \notin found
        BY <1>6, <4>2
      <4> QED BY <4>1, <4>2
    <3>3. IdsOf(c)' = IdsOf(c)
      BY <3>1, <3>2 DEF IdsOf
    <3> QED BY <2>1, <2>2, <3>3
  <2>3. CASE d # c
    BY <1>6, <2>1, <2>3 DEF IdsOf
  <2> QED BY <2>2, <2>3
<1>14. TargetsAnswer'
  <2> SUFFICES ASSUME NEW d \in Container, KnownByName(d)', NEW r \in answered'[d]
               PROVE  r.by = route'[d][r.target]
    BY DEF TargetsAnswer
  <2>1. KnownByName(d)
    BY <1>5 DEF KnownByName
  <2>2. CASE r \in answered[d]
    BY <1>5, <2>1, <2>2 DEF HeartbeatInv, TargetsAnswer
  <2>3. CASE r \notin answered[d]
    <3>1. d = c
      BY <1>6, <2>3
    <3>2. PICK s \in found : r = [id |-> s.id, target |-> s.target, by |-> m.from]
      BY <1>6, <2>3, <3>1
    <3>3. Asked(c, m.id, m.from)
      BY <1>1, <1>3, <2>1, <3>1 DEF HeartbeatInv, HeartbeatsBelong, Arrived
    <3>4. route[c][s.target] = m.from
      BY <1>7, <3>3 DEF Asked
    <3> QED BY <1>5, <3>1, <3>2, <3>4
  <2> QED BY <2>2, <2>3
<1>15. HeartbeatsBelong'
  <2>1. /\ \A l \in Link : \A n \in Range(link[l]) : OnTheWay(l, n)'
        /\ \A d \in Container : \A n \in Range(inbox[d]) : Arrived(d, n)'
    BY <1>1, <1>8, <1>11, OldHeartbeatsBelong DEF HeartbeatInv
  <2>2. \A d \in Container : Range(inbox'[d]) \subseteq Range(inbox[d])
    BY <1>m, <1>1, <1>2, <1>3
  <2>3. link' = link
    BY <1>1
  <2> QED BY <2>1, <2>2, <2>3 DEF HeartbeatsBelong
<1> QED BY <1>8, <1>9, <1>10, <1>12, <1>13, <1>14, <1>15 DEF HeartbeatInv

\* The requests of one tick get new ids, one each.
LEMMA SenderTickKeeps ==
    ASSUME HeartbeatInv, NEW c \in Container, SenderTick(c)
    PROVE  HeartbeatInv'
<1>targets. PICK targets : targets = task[c].targets
  OBVIOUS
<1>n. PICK n : n = Cardinality(targets)
  OBVIOUS
<1>k. PICK k : k = nextId[c]
  OBVIOUS
<1>place. PICK place \in Bijection(targets, 1 .. n) :
            LET asked == pending[c] \cup {[id |-> RequestId(c, place[t]), target |-> t,
                                           sent |-> now] : t \in targets}
                late == {r \in asked : IsLate(c, r)}
            IN /\ TrySend([l \in {c} \X targets |->
                             [kind |-> "request", id |-> RequestId(c, place[l[2]]),
                              from |-> c, at |-> now]])
               /\ pending' = [pending EXCEPT ![c] = asked \ late]
               /\ missed' = [missed EXCEPT ![c] = @ \cup late]
  BY <1>targets, <1>n DEF SenderTick
<1>new. PICK new : new = {[id |-> k + place[t], target |-> t, sent |-> now] : t \in targets}
  OBVIOUS
<1>late. PICK late : late = {r \in pending[c] \cup new : IsLate(c, r)}
  OBVIOUS
<1>messages. PICK messages : messages = [l \in {c} \X targets |->
                                           [kind |-> "request", id |-> k + place[l[2]],
                                            from |-> c, at |-> now]]
  OBVIOUS
<1>1. /\ UNCHANGED <<now, fixedVars, answered, receiverVars, inbox, linkVars, notTaken>>
      /\ IsSender(c) /\ IntervalFires(c)
      /\ nextId' = [nextId EXCEPT ![c] = k + n]
  BY <1>targets, <1>n, <1>k DEF SenderTick
<1>2. /\ TrySend(messages)
      /\ pending' = [pending EXCEPT ![c] = (pending[c] \cup new) \ late]
      /\ missed' = [missed EXCEPT ![c] = missed[c] \cup late]
  BY <1>place, <1>new, <1>late, <1>messages, <1>k, Zenon DEF RequestId
<1>3. /\ now \in Nat /\ link \in [Link -> Queue]
      /\ nextId \in [Container -> Nat] /\ k \in Nat
      /\ pending \in [Container -> SUBSET Request]
      /\ missed \in [Container -> SUBSET Request]
      /\ due \in [Container -> Nat]
  BY <1>k DEF HeartbeatInv, HeartbeatTypeOK
<1>4. /\ targets \subseteq Name /\ n \in Nat
      /\ task[c].responseTimeout \in Nat /\ task[c].interval \in Nat \ {0}
  BY <1>targets, <1>n, <1>1, KindsOfTasks, FS_CardinalityType DEF HeartbeatInv, IsSender
<1>5. /\ \A t \in targets : place[t] \in 1 .. n
      /\ \A t, u \in targets : place[t] = place[u] => t = u
      /\ \A i \in 1 .. n : \E t \in targets : place[t] = i
  <2>1. place \in Bijection(targets, 1 .. n)
    OBVIOUS
  <2>2. \A t \in targets : place[t] \in 1 .. n
    BY ONLY <2>1 DEF Bijection, Injection
  <2>3. \A t, u \in targets : place[t] = place[u] => t = u
    BY ONLY <2>1 DEF Bijection, Injection, IsInjective
  <2>4. \A i \in 1 .. n : \E t \in targets : place[t] = i
    BY ONLY <2>1 DEF Bijection, Surjection
  <2> QED BY <2>2, <2>3, <2>4, Zenon
<1>6. /\ new \subseteq Request
      /\ \A r \in new : r.id \in k + 1 .. k + n /\ r.sent = now
      /\ \A r, s \in new : r.id = s.id => r = s
      /\ \A i \in k + 1 .. k + n : \E r \in new : r.id = i
  <2>1. \A r \in new : \E t \in targets : r = [id |-> k + place[t], target |-> t, sent |-> now]
    BY <1>new
  <2>2. \A t \in targets : [id |-> k + place[t], target |-> t, sent |-> now] \in new
    BY <1>new
  <2>3. new \subseteq Request
    <3> SUFFICES ASSUME NEW r \in new PROVE r \in Request
      OBVIOUS
    <3>1. PICK t \in targets : r = [id |-> k + place[t], target |-> t, sent |-> now]
      BY <2>1
    <3>2. k + place[t] \in Nat \ {0}
      BY <1>3, <1>4, <1>5
    <3> QED BY <1>3, <1>4, <3>1, <3>2 DEF Request
  <2>4. ASSUME NEW r \in new PROVE r.id \in k + 1 .. k + n /\ r.sent = now
    <3>1. PICK t \in targets : r = [id |-> k + place[t], target |-> t, sent |-> now]
      BY <2>1
    <3> QED BY <1>3, <1>4, <1>5, <3>1
  <2>5. ASSUME NEW r \in new, NEW s \in new, r.id = s.id PROVE r = s
    <3>1. PICK t \in targets : r = [id |-> k + place[t], target |-> t, sent |-> now]
      BY <2>1
    <3>2. PICK u \in targets : s = [id |-> k + place[u], target |-> u, sent |-> now]
      BY <2>1
    <3>3. place[t] \in Nat /\ place[u] \in Nat /\ k + place[t] = k + place[u]
      BY <1>4, <1>5, <2>5, <3>1, <3>2
    <3>4. place[t] = place[u]
      BY <1>3, <3>3
    <3> QED BY <1>5, <3>1, <3>2, <3>4
  <2>6. ASSUME NEW i \in k + 1 .. k + n PROVE \E r \in new : r.id = i
    <3>1. i - k \in 1 .. n
      BY <1>3, <1>4
    <3>2. PICK t \in targets : place[t] = i - k
      BY <1>5, <3>1
    <3>3. k + place[t] = i
      BY <1>3, <1>4, <3>1, <3>2
    <3> QED BY <2>2, <3>3
  <2> QED BY <2>3, <2>4, <2>5, <2>6
<1>7. /\ \A l \in DOMAIN messages : messages[l] \in Message
      /\ \A l \in DOMAIN messages :
            /\ l \in Link /\ l[1] = c /\ l[2] \in targets
            /\ messages[l].kind = "request" /\ messages[l].id = k + place[l[2]]
            /\ messages[l].from = c
  <2> SUFFICES ASSUME NEW l \in DOMAIN messages
               PROVE  /\ messages[l] \in Message
                      /\ l \in Link /\ l[1] = c /\ l[2] \in targets
                      /\ messages[l].kind = "request" /\ messages[l].id = k + place[l[2]]
                      /\ messages[l].from = c
    OBVIOUS
  <2>1. l \in {c} \X targets
    BY <1>messages
  <2>2. l \in Link /\ l[1] = c /\ l[2] \in targets
    BY <1>4, <2>1 DEF Link
  <2>3. k + place[l[2]] \in Nat \ {0}
    BY <1>3, <1>4, <1>5, <2>2
  <2>4. messages[l] = [kind |-> "request", id |-> k + place[l[2]], from |-> c, at |-> now]
    BY <1>messages, <2>1
  <2> QED BY <1>3, <2>2, <2>3, <2>4 DEF Message, Kind
<1>8. /\ link' \in [Link -> Queue]
      /\ \A l \in Link : \A m \in Range(link'[l]) :
             m \in Range(link[l]) \/ (l \in DOMAIN messages /\ m = messages[l])
      /\ turnedAway' \in [Link -> SUBSET SUBSET Kind]
  BY <1>2, <1>7, TrySendEffect DEF HeartbeatInv
<1>9. task' = task /\ route' = route /\ now' = now
  BY <1>1 DEF fixedVars
<1>10. /\ pending'[c] = (pending[c] \cup new) \ late
       /\ missed'[c] = missed[c] \cup late
       /\ nextId'[c] = k + n
       /\ answered' = answered
       /\ \A d \in Container : d # c => /\ pending'[d] = pending[d]
                                        /\ missed'[d] = missed[d]
                                        /\ nextId'[d] = nextId[d]
  BY <1>1, <1>2, <1>3
<1>11. late \subseteq pending[c] \cup new
  BY <1>late
<1>12. TimersFire' /\ due' \in [Container -> Nat]
  BY <1>1, <1>9, IntervalFiresInTime
<1>13. TasksOK'
  BY <1>9 DEF HeartbeatInv, TasksOK
<1>14. HeartbeatTypeOK'
  <2>1. nextId' \in [Container -> Nat]
    <3>1. k + n \in Nat
      BY <1>3, <1>4
    <3> QED BY <1>1, <1>3, <3>1
  <2>2. pending[c] \subseteq Request
    BY <1>3
  <2>3. (pending[c] \cup new) \ late \in SUBSET Request
    BY <1>6, <2>2
  <2>4. pending' \in [Container -> SUBSET Request]
    BY <1>2, <1>3, <2>3
  <2>5. missed[c] \cup late \in SUBSET Request
    BY <1>3, <1>6, <1>11, <2>2
  <2>6. missed' \in [Container -> SUBSET Request]
    BY <1>2, <1>3, <2>5
  <2> QED BY <1>1, <1>8, <1>12, <2>1, <2>4, <2>6
          DEF HeartbeatInv, HeartbeatTypeOK, fixedVars, receiverVars, linkVars
<1>15. \A r \in pending[c] \cup answered[c] \cup missed[c] : r.id \in 1 .. k
  BY <1>k DEF HeartbeatInv, EveryIdHasAFate, IdsOf
<1>16. IdsGrow
  <2> SUFFICES ASSUME NEW d \in Container
               PROVE  /\ nextId[d] <= nextId'[d]
                      /\ \A r \in pending'[d] : r \in pending[d] \/ r.id > nextId[d]
    BY DEF IdsGrow
  <2>1. CASE d = c
    <3>1. k <= k + n
      BY <1>3, <1>4
    <3>2. \A r \in new : r.id > k
      BY <1>3, <1>4, <1>6
    <3> QED BY <1>k, <1>10, <2>1, <3>1, <3>2
  <2>2. CASE d # c
    BY <1>3, <1>10, <2>2
  <2> QED BY <2>1, <2>2
<1>17. PendingPruned'
  <2> SUFFICES ASSUME NEW d \in Container, NEW r \in pending'[d]
               PROVE  (/\ IsSender(d)
                       /\ due[d] <= r.sent + task[d].responseTimeout + task[d].interval)'
    BY DEF PendingPruned
  <2>1. CASE d = c
    <3>1. r \in Request /\ ~IsLate(c, r)
      BY <1>3, <1>6, <1>10, <1>late, <2>1
    <3>2. r.sent \in Nat /\ now - r.sent <= task[c].responseTimeout
      BY <1>3, <1>4, <3>1 DEF IsLate, Request
    <3>3. due'[c] = due[c] + task[c].interval /\ due[c] <= now
      BY <1>1, <1>3 DEF IntervalFires
    <3>4. due'[c] <= r.sent + task[c].responseTimeout + task[c].interval
      <4>1. /\ now \in Nat /\ due[c] \in Nat /\ r.sent \in Nat
            /\ task[c].responseTimeout \in Nat /\ task[c].interval \in Nat
        BY <1>3, <1>4, <3>2
      <4> QED BY ONLY <3>2, <3>3, <4>1
    <3> QED BY <1>1, <1>9, <2>1, <3>4 DEF IsSender
  <2>2. CASE d # c
    <3>1. due'[d] = due[d]
      BY <1>1, <1>3, <2>2 DEF IntervalFires
    <3>2. r \in pending[d]
      BY <1>10, <2>2
    <3> QED BY <1>9, <3>1, <3>2 DEF HeartbeatInv, PendingPruned, IsSender
  <2> QED BY <2>1, <2>2
<1>18. SilenceChecked'
  <2> SUFFICES ASSUME NEW d \in Container, IsReceiver(d)', ~timedOut'[d]
               PROVE  (due[d] <= lastReceived[d] + task[d].timeout + task[d].interval)'
    BY DEF SilenceChecked
  <2>1. IsReceiver(d) /\ lastReceived' = lastReceived /\ timedOut' = timedOut
    BY <1>1, <1>9 DEF receiverVars, IsReceiver
  <2>2. d # c
    BY <1>1, <2>1 DEF IsSender, IsReceiver
  <2>3. due'[d] = due[d]
    BY <1>1, <1>3, <2>2 DEF IntervalFires
  <2> QED BY <1>9, <2>1, <2>3 DEF HeartbeatInv, SilenceChecked
<1>19. IdsUsedOnce'
  <2> SUFFICES ASSUME NEW d \in Container
               PROVE  (/\ \A r, s \in pending[d] \cup missed[d] : r.id = s.id => r = s
                       /\ \A r, s \in answered[d] : r.id = s.id => r = s
                       /\ \A r \in answered[d], s \in pending[d] \cup missed[d] : r.id # s.id
                       /\ pending[d] \cap missed[d] = {})'
    BY DEF IdsUsedOnce
  <2>1. /\ \A r, s \in pending[d] \cup missed[d] : r.id = s.id => r = s
        /\ \A r, s \in answered[d] : r.id = s.id => r = s
        /\ \A r \in answered[d], s \in pending[d] \cup missed[d] : r.id # s.id
        /\ pending[d] \cap missed[d] = {}
    BY DEF HeartbeatInv, IdsUsedOnce
  <2>2. CASE d = c
    <3>1. pending'[c] \cup missed'[c] = pending[c] \cup missed[c] \cup new
      BY <1>10, <1>11
    <3>2. ASSUME NEW r \in pending[c] \cup answered[c] \cup missed[c], NEW s \in new
          PROVE  r.id # s.id
      <4>1. r.id \in 1 .. k /\ s.id \in k + 1 .. k + n
        BY <1>6, <1>15
      <4> QED BY <1>3, <1>4, <4>1
    <3>3. \A r, s \in pending'[c] \cup missed'[c] : r.id = s.id => r = s
      BY <1>6, <2>1, <2>2, <3>1, <3>2
    <3>4. \A r \in answered'[c], s \in pending'[c] \cup missed'[c] : r.id # s.id
      BY <1>10, <2>1, <2>2, <3>1, <3>2
    <3>5. pending'[c] \cap missed'[c] = {}
      BY <1>10, <2>1, <2>2, <3>2
    <3> QED BY <1>10, <2>1, <2>2, <3>3, <3>4, <3>5
  <2>3. CASE d # c
    BY <1>10, <2>1, <2>3
  <2> QED BY <2>2, <2>3
<1>20. EveryIdHasAFate'
  <2> SUFFICES ASSUME NEW d \in Container PROVE IdsOf(d)' = 1 .. nextId'[d]
    BY DEF EveryIdHasAFate
  <2>1. IdsOf(d) = 1 .. nextId[d]
    BY DEF HeartbeatInv, EveryIdHasAFate
  <2>2. CASE d = c
    <3>1. (pending[c] \cup answered[c] \cup missed[c] \cup new)
             = (pending[c] \cup answered[c] \cup missed[c])'
      BY <1>10, <1>11
    <3>2. \A i : i \in IdsOf(c)' <=> i \in IdsOf(c) \/ \E r \in new : i = r.id
      BY <3>1 DEF IdsOf
    <3>3. \A i : (\E r \in new : i = r.id) <=> i \in k + 1 .. k + n
      BY <1>6
    <3>4. \A i : i \in IdsOf(c)' <=> i \in 1 .. k \/ i \in k + 1 .. k + n
      BY <1>k, <2>1, <2>2, <3>2, <3>3
    <3>5. \A i : i \in 1 .. k + n <=> i \in 1 .. k \/ i \in k + 1 .. k + n
      BY <1>3, <1>4
    <3>6. IdsOf(c)' = 1 .. k + n
      BY <3>4, <3>5
    <3> QED BY <1>10, <2>2, <3>6
  <2>3. CASE d # c
    BY <1>10, <2>1, <2>3 DEF IdsOf
  <2> QED BY <2>2, <2>3
<1>21. TargetsAnswer'
  BY <1>9, <1>10 DEF HeartbeatInv, TargetsAnswer, KnownByName
<1>22. /\ \A l \in Link : \A m \in Range(link[l]) : OnTheWay(l, m)'
       /\ \A d \in Container : \A m \in Range(inbox[d]) : Arrived(d, m)'
  BY <1>1, <1>14, <1>16, OldHeartbeatsBelong DEF HeartbeatInv
<1>23. ASSUME NEW l \in DOMAIN messages PROVE OnTheWay(l, messages[l])'
  <2>1. /\ l[1] = c /\ l[2] \in targets /\ messages[l].kind = "request"
        /\ messages[l].id = k + place[l[2]] /\ messages[l].from = c
    BY <1>7
  <2>2. place[l[2]] \in 1 .. n
    BY <1>5, <2>1
  <2>3. messages[l].id <= nextId'[l[1]]
    BY <1>3, <1>4, <1>10, <2>1, <2>2
  <2>4. ASSUME NEW r \in pending'[c], r.id = k + place[l[2]] PROVE r.target = l[2]
    <3>1. r \in new
      <4>1. k + place[l[2]] \notin 1 .. k
        BY <1>3, <1>4, <2>2
      <4> QED BY <1>10, <1>15, <2>4, <4>1
    <3>2. PICK t \in targets : r = [id |-> k + place[t], target |-> t, sent |-> now]
      BY <1>new, <3>1
    <3>3. place[t] \in Nat /\ place[l[2]] \in Nat /\ k + place[t] = k + place[l[2]]
      BY <1>4, <1>5, <2>2, <2>4, <3>2
    <3>4. place[t] = place[l[2]]
      BY <1>3, <3>3
    <3> QED BY <1>5, <2>1, <3>2, <3>4
  <2> QED BY <2>1, <2>3, <2>4 DEF OnTheWay
<1>24. HeartbeatsBelong'
  <2>1. ASSUME NEW l \in Link, NEW m \in Range(link'[l]) PROVE OnTheWay(l, m)'
    BY <1>8, <1>22, <1>23
  <2>2. inbox' = inbox
    BY <1>1
  <2> QED BY <1>22, <2>1, <2>2 DEF HeartbeatsBelong
<1> QED BY <1>12, <1>13, <1>14, <1>17, <1>18, <1>19, <1>20, <1>21, <1>24 DEF HeartbeatInv
-----------------------------------------------------------------------------
\* A set of requests has as many members as ids.
LEMMA CountedByIds ==
    ASSUME NEW S, NEW k \in Nat,
           \A r \in S : r.id \in 1 .. k,
           \A r, s \in S : r.id = s.id => r = s
    PROVE  /\ IsFiniteSet({r.id : r \in S})
           /\ Cardinality({r.id : r \in S}) \in Nat
           /\ Cardinality(S) = Cardinality({r.id : r \in S})
<1> DEFINE ids == {r.id : r \in S}
           f == [i \in ids |-> CHOOSE r \in S : r.id = i]
<1>1. IsFiniteSet(ids)
  <2>1. IsFiniteSet(1 .. k)
    BY FS_Interval
  <2>2. ids \subseteq 1 .. k
    OBVIOUS
  <2> QED BY <2>1, <2>2, FS_Subset
<1>2. \A i \in ids : f[i] \in S /\ f[i].id = i
  OBVIOUS
<1>3. \A r \in S : r.id \in ids /\ f[r.id] = r
  <2> SUFFICES ASSUME NEW r \in S PROVE r.id \in ids /\ f[r.id] = r
    OBVIOUS
  <2>1. r.id \in ids
    OBVIOUS
  <2>2. f[r.id] \in S /\ f[r.id].id = r.id
    BY <1>2, <2>1
  <2> QED BY <2>1, <2>2
<1>4. f \in [ids -> S]
  BY <1>2
<1> HIDE DEF f, ids
<1>5. f \in Bijection(ids, S)
  <2>1. \A i, j \in ids : f[i] = f[j] => i = j
    BY <1>2
  <2>2. \A r \in S : \E i \in ids : f[i] = r
    BY <1>3
  <2>3. f \in Injection(ids, S)
    BY <1>4, <2>1 DEF Injection, IsInjective
  <2>4. f \in Surjection(ids, S)
    BY <1>4, <2>2 DEF Surjection
  <2> QED BY <2>3, <2>4 DEF Bijection
<1>6. Cardinality(S) = Cardinality(ids) /\ Cardinality(ids) \in Nat
  BY <1>1, <1>5, FS_Bijection, FS_CardinalityType DEF ExistsBijection
<1> QED BY <1>1, <1>6 DEF ids

\* With every id in one place, the three sets together count the ids.
LEMMA FatesAddUp ==
    ASSUME HeartbeatInv, NEW c \in Container
    PROVE  Cardinality(pending[c]) + Cardinality(answered[c]) + Cardinality(missed[c])
               = nextId[c]
<1> DEFINE Ids(S) == {r.id : r \in S}
<1>1. nextId[c] \in Nat
  BY DEF HeartbeatInv, HeartbeatTypeOK
<1>2. IdsOf(c) = 1 .. nextId[c]
  BY DEF HeartbeatInv, EveryIdHasAFate
<1>3. \A r \in pending[c] \cup answered[c] \cup missed[c] : r.id \in 1 .. nextId[c]
  BY <1>2 DEF IdsOf
<1>4. /\ \A r, s \in pending[c] \cup missed[c] : r.id = s.id => r = s
      /\ \A r, s \in answered[c] : r.id = s.id => r = s
      /\ \A r \in answered[c], s \in pending[c] \cup missed[c] : r.id # s.id
      /\ pending[c] \cap missed[c] = {}
  BY DEF HeartbeatInv, IdsUsedOnce
<1>5. /\ IsFiniteSet(Ids(pending[c])) /\ Cardinality(Ids(pending[c])) \in Nat
      /\ Cardinality(pending[c]) = Cardinality(Ids(pending[c]))
  BY <1>1, <1>3, <1>4, CountedByIds
<1>6. /\ IsFiniteSet(Ids(answered[c])) /\ Cardinality(Ids(answered[c])) \in Nat
      /\ Cardinality(answered[c]) = Cardinality(Ids(answered[c]))
  BY <1>1, <1>3, <1>4, CountedByIds
<1>7. /\ IsFiniteSet(Ids(missed[c])) /\ Cardinality(Ids(missed[c])) \in Nat
      /\ Cardinality(missed[c]) = Cardinality(Ids(missed[c]))
  BY <1>1, <1>3, <1>4, CountedByIds
<1>8. Ids(pending[c]) \cap Ids(answered[c]) = {}
  BY <1>4
<1>9. (Ids(pending[c]) \cup Ids(answered[c])) \cap Ids(missed[c]) = {}
  BY <1>4
<1>10. Ids(pending[c]) \cup Ids(answered[c]) \cup Ids(missed[c]) = 1 .. nextId[c]
  BY <1>2 DEF IdsOf
<1> HIDE DEF Ids
<1>11. /\ IsFiniteSet(Ids(pending[c]) \cup Ids(answered[c]))
       /\ Cardinality(Ids(pending[c]) \cup Ids(answered[c]))
            = Cardinality(Ids(pending[c])) + Cardinality(Ids(answered[c]))
  <2>1. Cardinality(Ids(pending[c]) \cap Ids(answered[c])) = 0
    BY <1>8, FS_EmptySet
  <2>2. /\ IsFiniteSet(Ids(pending[c]) \cup Ids(answered[c]))
        /\ Cardinality(Ids(pending[c]) \cup Ids(answered[c]))
             = Cardinality(Ids(pending[c])) + Cardinality(Ids(answered[c]))
                 - Cardinality(Ids(pending[c]) \cap Ids(answered[c]))
    BY <1>5, <1>6, FS_Union, Zenon
  <2> QED BY <1>5, <1>6, <2>1, <2>2
<1>12. Cardinality(Ids(pending[c]) \cup Ids(answered[c]) \cup Ids(missed[c]))
          = Cardinality(Ids(pending[c])) + Cardinality(Ids(answered[c]))
              + Cardinality(Ids(missed[c]))
  <2>1. Cardinality((Ids(pending[c]) \cup Ids(answered[c])) \cap Ids(missed[c])) = 0
    BY <1>9, FS_EmptySet
  <2>2. Cardinality(Ids(pending[c]) \cup Ids(answered[c]) \cup Ids(missed[c]))
          = Cardinality(Ids(pending[c]) \cup Ids(answered[c])) + Cardinality(Ids(missed[c])) - 0
    BY <1>7, <1>11, <2>1, FS_Union
  <2> QED BY <1>5, <1>6, <1>7, <1>11, <2>2
<1>13. Cardinality(1 .. nextId[c]) = nextId[c]
  <2>1. Cardinality(1 .. nextId[c]) = IF 1 > nextId[c] THEN 0 ELSE nextId[c] - 1 + 1
    <3>1. 1 \in Int /\ nextId[c] \in Int
      BY <1>1
    <3> QED BY <3>1, FS_Interval, Zenon
  <2> QED BY <1>1, <2>1
<1> QED BY <1>5, <1>6, <1>7, <1>10, <1>12, <1>13

LEMMA HeartbeatSteps ==
    ASSUME HeartbeatInv, [HeartbeatNext]_heartbeatVars
    PROVE  HeartbeatInv'
<1>1. CASE \E c \in Container : SenderTick(c)
  BY <1>1, SenderTickKeeps
<1>2. CASE \E c \in Container : SenderRecv(c)
  BY <1>2, SenderRecvKeeps
<1>3. CASE \E c \in Container : ReceiverRecv(c)
  BY <1>3, ReceiverRecvKeeps
<1>4. CASE \E c \in Container : ReceiverCheck(c)
  BY <1>4, ReceiverCheckKeeps
<1>5. CASE \E l \in Link : Arrive(l)
  BY <1>5, ArriveKeeps
<1>6. CASE Advance
  BY <1>6, AdvanceKeeps
<1>7. CASE \E l \in Link : Stall(l) \/ Recover(l)
  BY <1>7, StallKeeps
<1>9. CASE \E l \in Link : ComponentSends(l) \/ Lose(l)
  BY <1>9, ComponentSendsKeeps, LoseKeeps
<1>8. CASE UNCHANGED heartbeatVars
  <2>1. UNCHANGED <<now, fixedVars, due, senderVars, receiverVars, inbox, link, linkVars, lossVars>>
    BY <1>8 DEF heartbeatVars
  <2>2. stalled' \subseteq disturbed' /\ disturbed' \subseteq Link
    BY <2>1 DEF linkVars, HeartbeatInv, HeartbeatTypeOK
  <2>3. link' \in [Link -> Queue]
    BY <2>1 DEF HeartbeatInv, HeartbeatTypeOK
  <2> QED BY <2>1, <2>2, <2>3, ConnectionChanges
<1> QED BY <1>1, <1>2, <1>3, <1>4, <1>5, <1>6, <1>7, <1>8, <1>9
        DEF HeartbeatNext, HeartbeatStep, TaskStep

\* The inductive invariant of the heartbeat tasks: what their timers are set
\* to, where each request is, and what the heartbeats on their way say.
THEOREM HeartbeatInvariant == HeartbeatSpec => []HeartbeatInv
BY HeartbeatStarts, HeartbeatSteps, PTL DEF HeartbeatSpec

\* Every variable has its type, whatever the configurations and topologies.
THEOREM HeartbeatTypeCorrect == HeartbeatSpec => []HeartbeatTypeOK
<1>1. HeartbeatInv => HeartbeatTypeOK
  BY DEF HeartbeatInv
<1> QED BY <1>1, HeartbeatInvariant, PTL

\* handle_heartbeat_response, prune_timed_out and send_heartbeats share the map
\* of pending requests: each id they use ends in one place, and only there.
THEOREM OneFateHolds == HeartbeatSpec => []OneFate
<1>1. HeartbeatInv => OneFate
  <2> SUFFICES ASSUME HeartbeatInv, NEW c \in Container
               PROVE  /\ {r.id : r \in pending[c] \cup answered[c] \cup missed[c]} = 1 .. nextId[c]
                      /\ Cardinality(pending[c]) + Cardinality(answered[c])
                           + Cardinality(missed[c]) = nextId[c]
                      /\ KnownByName(c) => \A r \in answered[c] : r.by = route[c][r.target]
    BY DEF OneFate
  <2>1. {r.id : r \in pending[c] \cup answered[c] \cup missed[c]} = 1 .. nextId[c]
    BY DEF HeartbeatInv, EveryIdHasAFate, IdsOf
  <2>2. Cardinality(pending[c]) + Cardinality(answered[c]) + Cardinality(missed[c]) = nextId[c]
    BY FatesAddUp
  <2>3. KnownByName(c) => \A r \in answered[c] : r.by = route[c][r.target]
    BY DEF HeartbeatInv, TargetsAnswer
  <2> QED BY <2>1, <2>2, <2>3
<1> QED BY <1>1, HeartbeatInvariant, PTL

\* A request without an answer is reported within its response timeout, one
\* interval and the lag of the task, for any of these.
THEOREM MissesAreAlwaysNoticed == HeartbeatSpec => []MissesAreNoticed
<1>1. HeartbeatInv => MissesAreNoticed
  <2> SUFFICES ASSUME HeartbeatInv, NEW c \in Container, NEW r \in pending[c]
               PROVE  now - r.sent <= task[c].responseTimeout + task[c].interval + MaxLag
    BY DEF MissesAreNoticed
  <2>1. /\ now \in Nat /\ due[c] \in Nat /\ r.sent \in Nat /\ MaxLag \in Nat
    BY HeartbeatAssumption DEF HeartbeatInv, HeartbeatTypeOK, Request
  <2>2. IsSender(c) /\ due[c] <= r.sent + task[c].responseTimeout + task[c].interval
    BY DEF HeartbeatInv, PendingPruned
  <2>3. task[c].responseTimeout \in Nat /\ task[c].interval \in Nat
    BY <2>2, KindsOfTasks DEF HeartbeatInv, IsSender
  <2>4. now <= due[c] + MaxLag
    BY <2>2 DEF HeartbeatInv, TimersFire, IsSender
  <2> QED BY <2>1, <2>2, <2>3, <2>4
<1> QED BY <1>1, HeartbeatInvariant, PTL

\* A silence of a third, or a second, more than the timeout is reported,
\* whatever timeout_ms is: check_interval is short enough.
THEOREM SilenceIsAlwaysNoticed == HeartbeatSpec => []SilenceIsNoticed
<1>1. HeartbeatInv => SilenceIsNoticed
  <2> SUFFICES ASSUME HeartbeatInv, NEW c \in Container, IsReceiver(c),
                      now - lastReceived[c] > task[c].timeout + task[c].timeout \div 3 + MaxLag,
                      now - lastReceived[c] > task[c].timeout + Second + MaxLag,
                      ~timedOut[c]
               PROVE  FALSE
    BY DEF SilenceIsNoticed
  <2>1. /\ now \in Nat /\ due[c] \in Nat /\ lastReceived[c] \in Nat
        /\ MaxLag \in Nat /\ Second \in Nat
    BY HeartbeatAssumption, HeartbeatConfigAssumption DEF HeartbeatInv, HeartbeatTypeOK
  <2>2. task[c].timeout \in Nat /\ task[c].interval = CheckInterval(task[c].timeout)
    BY KindsOfTasks DEF HeartbeatInv
  <2>3. task[c].interval \in {task[c].timeout \div 3, Second}
    BY <2>2, CheckIntervalType
  <2>4. task[c].timeout \div 3 \in Nat
    BY <2>2
  <2>5. due[c] <= lastReceived[c] + task[c].timeout + task[c].interval
    BY DEF HeartbeatInv, SilenceChecked
  <2>6. now <= due[c] + MaxLag
    BY DEF HeartbeatInv, TimersFire, IsReceiver
  <2> DEFINE x == task[c].timeout
             third == x \div 3
             interval == task[c].interval
  <2>7. /\ now - lastReceived[c] > x + third + MaxLag
        /\ now - lastReceived[c] > x + Second + MaxLag
        /\ due[c] <= lastReceived[c] + x + interval
        /\ interval \in {third, Second} /\ x \in Nat /\ third \in Nat
    BY <2>2, <2>3, <2>4, <2>5
  <2> HIDE DEF x, third, interval
  <2> QED BY <2>1, <2>6, <2>7
<1> QED BY <1>1, HeartbeatInvariant, PTL
=============================================================================
