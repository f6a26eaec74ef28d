---------------------------- MODULE BrokerProofs ----------------------------
(***************************************************************************)
(* Theorems about module ClientBroker, for any finite number of            *)
(* connections and any messages, retries, attempts and channel capacity.   *)
(***************************************************************************)
EXTENDS ClientBroker, ClientProofs, FiniteSetTheorems

\* A message is on its way exactly inside the two methods that pass one on:
\* never the shutdown inside handle_message, and nothing else inside
\* forward_shutdown, which visits connections only.
OutgoingWhileSending ==
    /\ outgoing # <<>> <=> brokerPc \in {"handling", "forwarding"}
    /\ brokerPc = "handling" => messagingActive /\ outgoing # <<SystemShutdown>>
    /\ brokerPc = "forwarding" => outgoing = <<SystemShutdown>> /\ targets \in Seq(Clients)

\* The senders go last.
SendersGoLast == clientSenders = {} => \A c \in Clients : clientPc[c] = "done"

HasShutdown(s) == \E i \in 1..Len(s) : s[i] = SystemShutdown

\* What may follow the system shutdown.
AfterShutdown(s) == \A j \in 1..Len(s) : s[j] \in Heartbeat \cup {SystemShutdown}

LastWord(s) ==
    \A i, j \in 1..Len(s) :
       i < j /\ s[i] = SystemShutdown => s[j] \in Heartbeat \cup {SystemShutdown}

\* As long as messages of the component pass, no channel has seen the
\* shutdown, except while forward_shutdown visits them one by one.
NoShutdownYet ==
    messagingActive /\ brokerPc # "forwarding" => \A c \in Clients : ~HasShutdown(Sent(c))

\* The inductive invariant, given the invariant of the clients.
BrokerInv == /\ BrokerTypeOK /\ OutgoingWhileSending /\ SendersGoLast
             /\ NoShutdownYet /\ ShutdownIsLastWord
-----------------------------------------------------------------------------
\* A sequence that is put together from two.
LEMMA ShutdownInConcat ==
    ASSUME NEW s \in Seq(Message), NEW t \in Seq(Message)
    PROVE  /\ s \o t \in Seq(Message)
           /\ HasShutdown(s \o t) <=> HasShutdown(s) \/ HasShutdown(t)
           /\ AfterShutdown(s \o t) <=> AfterShutdown(s) /\ AfterShutdown(t)
           /\ LastWord(s \o t) <=> /\ LastWord(s) /\ LastWord(t)
                                   /\ HasShutdown(s) => AfterShutdown(t)
<1> DEFINE st == s \o t  m == Len(s)  n == Len(t)
<1>1. /\ m \in Nat /\ n \in Nat
      /\ st \in Seq(Message) /\ Len(st) = m + n
      /\ \A i \in 1 .. m + n : st[i] = IF i <= m THEN s[i] ELSE t[i - m]
  BY LenProperties, ConcatProperties
<1> HIDE DEF st, m, n
<1>2. \A i \in 1 .. m : i \in 1 .. m + n /\ st[i] = s[i]
  BY <1>1
<1>3. \A i \in 1 .. n : m + i \in 1 .. m + n /\ st[m + i] = t[i]
  BY <1>1
<1>4. \A i \in 1 .. m + n : i \in 1 .. m \/ \E j \in 1 .. n : i = m + j
  <2>1. ASSUME NEW i \in 1 .. m + n, i \notin 1 .. m
        PROVE  i - m \in 1 .. n /\ i = m + (i - m)
    BY <1>1, <2>1
  <2> QED BY <2>1
<1>5. HasShutdown(st) <=> HasShutdown(s) \/ HasShutdown(t)
  <2>1. HasShutdown(st) <=> \E i \in 1 .. m + n : st[i] = SystemShutdown
    BY <1>1 DEF HasShutdown
  <2>2. HasShutdown(s) <=> \E i \in 1 .. m : s[i] = SystemShutdown
    BY DEF HasShutdown, m
  <2>3. HasShutdown(t) <=> \E i \in 1 .. n : t[i] = SystemShutdown
    BY DEF HasShutdown, n
  <2>4. HasShutdown(st) => HasShutdown(s) \/ HasShutdown(t)
    BY ONLY <1>2, <1>3, <1>4, <2>1, <2>2, <2>3
  <2>5. HasShutdown(s) \/ HasShutdown(t) => HasShutdown(st)
    BY ONLY <1>2, <1>3, <2>1, <2>2, <2>3
  <2> QED BY ONLY <2>4, <2>5
<1>6. AfterShutdown(st) <=> AfterShutdown(s) /\ AfterShutdown(t)
  <2> DEFINE OK == Heartbeat \cup {SystemShutdown}
  <2>1. AfterShutdown(st) <=> \A i \in 1 .. m + n : st[i] \in OK
    BY <1>1 DEF AfterShutdown
  <2>2. AfterShutdown(s) <=> \A i \in 1 .. m : s[i] \in OK
    BY DEF AfterShutdown, m
  <2>3. AfterShutdown(t) <=> \A i \in 1 .. n : t[i] \in OK
    BY DEF AfterShutdown, n
  <2> HIDE DEF OK
  <2> QED BY ONLY <1>2, <1>3, <1>4, <2>1, <2>2, <2>3, Zenon
<1>7. LastWord(st) => /\ LastWord(s) /\ LastWord(t)
                      /\ HasShutdown(s) => AfterShutdown(t)
  <2> HAVE LastWord(st)
  <2>1. LastWord(s)
    BY <1>1, <1>2 DEF LastWord, m
  <2>2. LastWord(t)
    <3> SUFFICES ASSUME NEW i \in 1 .. n, NEW j \in 1 .. n, i < j, t[i] = SystemShutdown
                 PROVE  t[j] \in Heartbeat \cup {SystemShutdown}
      BY DEF LastWord, n
    <3>1. /\ m + i \in 1 .. m + n /\ st[m + i] = SystemShutdown
          /\ m + j \in 1 .. m + n /\ st[m + j] = t[j]
      BY ONLY <1>3, t[i] = SystemShutdown
    <3>2. m + i < m + j
      BY ONLY <1>1, i < j
    <3> QED BY <1>1, <3>1, <3>2 DEF LastWord
  <2>3. HasShutdown(s) => AfterShutdown(t)
    <3> SUFFICES ASSUME NEW i \in 1 .. m, s[i] = SystemShutdown, NEW j \in 1 .. n
                 PROVE  t[j] \in Heartbeat \cup {SystemShutdown}
      BY DEF HasShutdown, AfterShutdown, m, n
    <3>1. /\ i \in 1 .. m + n /\ m + j \in 1 .. m + n /\ i < m + j
          /\ st[i] = SystemShutdown /\ st[m + j] = t[j]
      BY <1>1, <1>2, <1>3
    <3> QED BY <1>1, <3>1 DEF LastWord
  <2> QED BY <2>1, <2>2, <2>3
<1>8. ASSUME LastWord(s), LastWord(t), HasShutdown(s) => AfterShutdown(t)
      PROVE  LastWord(st)
  <2> SUFFICES ASSUME NEW i \in 1 .. m + n, NEW j \in 1 .. m + n, i < j,
                      st[i] = SystemShutdown
               PROVE  st[j] \in Heartbeat \cup {SystemShutdown}
    BY <1>1 DEF LastWord
  <2>1. CASE j \in 1 .. m
    <3>1. i \in 1 .. m
      BY <1>1, <2>1
    <3> QED BY <1>2, <1>8, <2>1, <3>1 DEF LastWord, m
  <2>2. ASSUME NEW k \in 1 .. n, j = m + k, i \in 1 .. m
        PROVE  st[j] \in Heartbeat \cup {SystemShutdown}
    BY <1>2, <1>3, <1>8, <2>2 DEF HasShutdown, AfterShutdown, m, n
  <2>3. ASSUME NEW k \in 1 .. n, j = m + k, NEW l \in 1 .. n, i = m + l
        PROVE  st[j] \in Heartbeat \cup {SystemShutdown}
    <3>1. l < k
      BY <1>1, <2>3
    <3> QED BY <1>3, <1>8, <2>3, <3>1 DEF LastWord, n
  <2> QED BY <1>4, <2>1, <2>2, <2>3
<1> QED BY <1>1, <1>5, <1>6, <1>7, <1>8 DEF st

LEMMA ShutdownInSmall ==
    /\ ~HasShutdown(<<>>) /\ AfterShutdown(<<>>) /\ LastWord(<<>>)
    /\ \A m \in Message : /\ HasShutdown(<<m>>) <=> m = SystemShutdown
                          /\ AfterShutdown(<<m>>) <=> m \in Heartbeat \cup {SystemShutdown}
                          /\ LastWord(<<m>>)
BY DEF HasShutdown, AfterShutdown, LastWord

\* The three places a message may be in, after it was put into the channel.
LEMMA ShutdownInSent ==
    ASSUME NEW w \in Seq(Message), NEW x \in Seq(Message), NEW r \in Seq(Message)
    PROVE  /\ HasShutdown(w \o x \o r) <=> HasShutdown(w) \/ HasShutdown(x) \/ HasShutdown(r)
           /\ LastWord(w \o x \o r) <=>
                 /\ LastWord(w) /\ LastWord(x) /\ LastWord(r)
                 /\ HasShutdown(w) => AfterShutdown(x) /\ AfterShutdown(r)
                 /\ HasShutdown(x) => AfterShutdown(r)
<1>1. w \o x \in Seq(Message)
  BY ShutdownInConcat
<1> QED BY ONLY <1>1, ShutdownInConcat, Zenon
-----------------------------------------------------------------------------
\* What a step of a client does to the message in its hands and around it.
LEMMA ClientStepMoves ==
    ASSUME ClientInv, NEW c \in Clients, ClientStep(c)
    PROVE  /\ clientPc[c] # "done"
           /\ \A d \in Clients \ {c} :
                 wire'[d] = wire[d] /\ writing'[d] = writing[d] /\ clientRx'[d] = clientRx[d]
                 /\ clientPc'[d] = clientPc[d]
           /\ \/ UNCHANGED <<wire, writing, clientRx>>
              \/ UNCHANGED <<wire, writing>> /\ clientRx'[c] = <<>>
              \/ /\ UNCHANGED <<wire, writing>> /\ clientRx[c] # <<>>
                 /\ clientRx'[c] = Tail(clientRx[c])
              \/ /\ UNCHANGED wire /\ writing[c] = <<>> /\ clientRx[c] # <<>>
                 /\ writing'[c] = <<Head(clientRx[c])>> /\ clientRx'[c] = Tail(clientRx[c])
              \/ /\ UNCHANGED clientRx /\ writing'[c] = <<>>
                 /\ wire'[c] = wire[c] \o writing[c]
              \/ UNCHANGED <<wire, clientRx>> /\ writing'[c] = <<>>
<1> USE DEF ClientInv, ClientTypeOK, InFlightHasStream, Goto
<1>1. CASE ClientCheck(c)
  BY <1>1 DEF ClientCheck, Return
<1>2. CASE ClientConnectOk(c)
  BY <1>2 DEF ClientConnectOk
<1>3. CASE ClientConnectErr(c)
  BY <1>3 DEF ClientConnectErr, Return
<1>4. CASE ClientBackoffEnd(c)
  BY <1>4 DEF ClientBackoffEnd
<1>5. CASE ClientRecv(c)
  BY <1>5 DEF ClientRecv
<1>6. CASE ClientWriteOk(c)
  BY <1>6 DEF ClientWriteOk, Transmit
<1>7. CASE ClientWriteErr(c)
  BY <1>7 DEF ClientWriteErr
<1>8. CASE ClientWriteBackoffEnd(c)
  BY <1>8 DEF ClientWriteBackoffEnd
<1>9. CASE ClientNotified(c)
  BY <1>9 DEF ClientNotified
<1> QED BY <1>1, <1>2, <1>3, <1>4, <1>5, <1>6, <1>7, <1>8, <1>9 DEF ClientStep

\* A channel and its stream with less in them, or with a message added.
NoWorse(s, t) == /\ HasShutdown(t) => HasShutdown(s)
                 /\ LastWord(s) => LastWord(t)

LEMMA LessIsNoWorse ==
    ASSUME NEW w \in Seq(Message), NEW x \in Seq(Message), NEW r \in Seq(Message)
    PROVE  /\ NoWorse(w \o x \o r, w \o x \o r)
           /\ NoWorse(w \o x \o r, w \o x \o <<>>)
           /\ NoWorse(w \o x \o r, w \o <<>> \o r)
           /\ r # <<>> => NoWorse(w \o x \o r, w \o x \o Tail(r))
<1>r. w \in Seq(Message) /\ x \in Seq(Message) /\ r \in Seq(Message)
  OBVIOUS
<1>1. <<>> \in Seq(Message)
  OBVIOUS
<1>2. /\ NoWorse(w \o x \o r, w \o x \o r)
      /\ NoWorse(w \o x \o r, w \o x \o <<>>)
      /\ NoWorse(w \o x \o r, w \o <<>> \o r)
  <2>1. NoWorse(w \o x \o r, w \o x \o r)
    BY DEF NoWorse
  <2>2. ~HasShutdown(<<>>) /\ AfterShutdown(<<>>) /\ LastWord(<<>>)
    BY ShutdownInSmall
  <2>3. NoWorse(w \o x \o r, w \o x \o <<>>)
    BY ONLY <1>1, <1>r, <2>2, ShutdownInSent, ZenonT(40)
    DEF NoWorse
  <2>4. NoWorse(w \o x \o r, w \o <<>> \o r)
    BY ONLY <1>1, <1>r, <2>2, ShutdownInSent, Zenon
    DEF NoWorse
  <2> QED BY <2>1, <2>3, <2>4
<1>3. ASSUME r # <<>> PROVE NoWorse(w \o x \o r, w \o x \o Tail(r))
  <2>1. /\ Tail(r) \in Seq(Message) /\ <<Head(r)>> \in Seq(Message)
        /\ r = <<Head(r)>> \o Tail(r)
    BY <1>3, TakenInHand, HeadTailProperties
  <2>2. \A h, t \in Seq(Message) : /\ HasShutdown(t) => HasShutdown(h \o t)
                                   /\ LastWord(h \o t) => LastWord(t)
                                   /\ AfterShutdown(h \o t) => AfterShutdown(t)
    BY ONLY ShutdownInConcat, Zenon
  <2>3. /\ HasShutdown(Tail(r)) => HasShutdown(<<Head(r)>> \o Tail(r))
        /\ LastWord(<<Head(r)>> \o Tail(r)) => LastWord(Tail(r))
        /\ AfterShutdown(<<Head(r)>> \o Tail(r)) => AfterShutdown(Tail(r))
    BY ONLY <2>1, <2>2, Zenon
  <2>4. \A h \in Seq(Message) : h = r =>
           (/\ HasShutdown(Tail(r)) => HasShutdown(h)
            /\ LastWord(h) => LastWord(Tail(r))
            /\ AfterShutdown(h) => AfterShutdown(Tail(r)))
    BY ONLY <2>1, <2>3
  <2>5. /\ HasShutdown(Tail(r)) => HasShutdown(r)
        /\ LastWord(r) => LastWord(Tail(r))
        /\ AfterShutdown(r) => AfterShutdown(Tail(r))
    BY ONLY <1>r, <2>4, Zenon
  <2>6. /\ HasShutdown(w \o x \o Tail(r)) => HasShutdown(w \o x \o r)
        /\ LastWord(w \o x \o r) => LastWord(w \o x \o Tail(r))
    <3>1. /\ HasShutdown(w \o x \o r) <=> HasShutdown(w) \/ HasShutdown(x) \/ HasShutdown(r)
          /\ LastWord(w \o x \o r) <=>
                /\ LastWord(w) /\ LastWord(x) /\ LastWord(r)
                /\ HasShutdown(w) => AfterShutdown(x) /\ AfterShutdown(r)
                /\ HasShutdown(x) => AfterShutdown(r)
      BY ONLY <1>r, ShutdownInSent
    <3>2. /\ HasShutdown(w \o x \o Tail(r)) <=>
                 HasShutdown(w) \/ HasShutdown(x) \/ HasShutdown(Tail(r))
          /\ LastWord(w \o x \o Tail(r)) <=>
                /\ LastWord(w) /\ LastWord(x) /\ LastWord(Tail(r))
                /\ HasShutdown(w) => AfterShutdown(x) /\ AfterShutdown(Tail(r))
                /\ HasShutdown(x) => AfterShutdown(Tail(r))
      BY ONLY <1>r, <2>1, ShutdownInSent
    <3> QED BY ONLY <2>5, <3>1, <3>2
  <2> QED BY ONLY <2>6 DEF NoWorse
<1> QED BY ONLY <1>2, <1>3, Zenon

\* A client adds nothing to what it was given and does not reorder it: it
\* cannot make a shutdown appear, nor anything behind one.
LEMMA ClientStepKeepsLastWord ==
    ASSUME ClientInv, NEW c \in Clients, ClientStep(c), NEW d \in Clients, NEW s, NEW t,
           s = Sent(d), t = Sent(d)'
    PROVE  NoWorse(s, t)
<1> DEFINE w == wire[d]  x == writing[d]  r == clientRx[d]
<1>1. w \in Seq(Message) /\ x \in Seq(Message) /\ r \in Seq(Message)
  BY QueueOfClient DEF ClientInv, ClientTypeOK
<1>2. s = w \o x \o r /\ t = wire'[d] \o writing'[d] \o clientRx'[d]
  BY DEF Sent
<1>3. \/ wire'[d] = w /\ writing'[d] = x /\ clientRx'[d] = r
      \/ wire'[d] = w /\ writing'[d] = x /\ clientRx'[d] = <<>>
      \/ wire'[d] = w /\ writing'[d] = x /\ r # <<>> /\ clientRx'[d] = Tail(r)
      \/ /\ wire'[d] = w /\ x = <<>> /\ r # <<>>
         /\ writing'[d] = <<Head(r)>> /\ clientRx'[d] = Tail(r)
      \/ wire'[d] = w \o x /\ writing'[d] = <<>> /\ clientRx'[d] = r
      \/ wire'[d] = w /\ writing'[d] = <<>> /\ clientRx'[d] = r
  <2>1. CASE d # c
    BY <2>1, ClientStepMoves
  <2>2. CASE d = c
    BY <2>2, ClientStepMoves
  <2> QED BY <2>1, <2>2
<1> HIDE DEF w, x, r
<1>4. \/ t = w \o x \o r
      \/ t = w \o x \o <<>>
      \/ /\ r # <<>>
         /\ t = w \o x \o Tail(r)
      \/ t = w \o <<>> \o r
  <2>1. CASE /\ wire'[d] = w /\ x = <<>> /\ r # <<>>
             /\ writing'[d] = <<Head(r)>> /\ clientRx'[d] = Tail(r)
    <3>1. t = w \o <<Head(r)>> \o Tail(r)
      BY <1>2, <2>1
    <3>2. /\ Tail(r) \in Seq(Message) /\ <<Head(r)>> \in Seq(Message)
          /\ <<Head(r)>> \o Tail(r) = r
      BY <1>1, <2>1, TakenInHand, HeadTailProperties
    <3>3. t = w \o (<<Head(r)>> \o Tail(r))
      BY <1>1, <3>1, <3>2, ConcatAssociative
    <3>4. t = w \o r
      BY <3>2, <3>3
    <3>5. w \o x = w
      BY <1>1, <2>1, ConcatEmptySeq
    <3>6. t = w \o x \o r
      BY <3>4, <3>5
    <3> QED BY <3>6
  <2>2. CASE wire'[d] = w \o x /\ writing'[d] = <<>> /\ clientRx'[d] = r
    <3>1. t = w \o x \o <<>> \o r
      BY <1>2, <2>2
    <3>2. w \o x \in Seq(Message)
      BY <1>1, ConcatProperties
    <3>3. w \o x \o <<>> = w \o x
      BY <3>2, ConcatEmptySeq
    <3>4. t = w \o x \o r
      BY <3>1, <3>3
    <3> QED BY <3>4
  <2> QED BY <1>2, <1>3, <2>1, <2>2
<1>5. /\ NoWorse(w \o x \o r, w \o x \o r)
      /\ NoWorse(w \o x \o r, w \o x \o <<>>)
      /\ NoWorse(w \o x \o r, w \o <<>> \o r)
      /\ r # <<>> => NoWorse(w \o x \o r, w \o x \o Tail(r))
  BY <1>1, LessIsNoWorse
<1> QED BY ONLY <1>2, <1>4, <1>5

\* A message appended to a sequence.
LEMMA AppendedMessage ==
    ASSUME NEW s \in Seq(Message), NEW m \in Message, NEW t, t = Append(s, m)
    PROVE  /\ HasShutdown(t) => HasShutdown(s) \/ m = SystemShutdown
           /\ LastWord(s) /\ (HasShutdown(s) => m \in Heartbeat \cup {SystemShutdown})
                 => LastWord(t)
<1>1. t \in Seq(Message) /\ Len(s) \in Nat /\ Len(t) = Len(s) + 1
  BY AppendProperties
<1>2. \A i \in 1 .. Len(t) : t[i] = IF i = Len(t) THEN m ELSE s[i]
  BY <1>1, AppendProperties
<1>3. HasShutdown(t) => HasShutdown(s) \/ m = SystemShutdown
  BY <1>1, <1>2 DEF HasShutdown
<1>4. ASSUME LastWord(s), HasShutdown(s) => m \in Heartbeat \cup {SystemShutdown}
      PROVE  LastWord(t)
  <2> SUFFICES ASSUME NEW i \in 1 .. Len(t), NEW j \in 1 .. Len(t), i < j,
                      t[i] = SystemShutdown
               PROVE  t[j] \in Heartbeat \cup {SystemShutdown}
    BY DEF LastWord
  <2>1. i \in 1 .. Len(s) /\ s[i] = SystemShutdown
    BY <1>1, <1>2
  <2>2. CASE j = Len(t)
    BY <1>2, <1>4, <2>1, <2>2 DEF HasShutdown
  <2>3. CASE j # Len(t)
    BY <1>1, <1>2, <1>4, <2>1, <2>3 DEF LastWord
  <2> QED BY <2>2, <2>3
<1> QED BY <1>3, <1>4

\* Who puts a message into a channel appends it to what was sent there.
LEMMA SubmitAppends ==
    ASSUME ClientInv, NEW c \in Clients, NEW m \in Message, Submit(c, m), NEW d \in Clients
    PROVE  /\ Sent(d) \in Seq(Message)
           /\ Sent(d)' = IF d = c THEN Append(Sent(d), m) ELSE Sent(d)
<1>1. /\ clientRx' = [clientRx EXCEPT ![c] = Append(@, m)] /\ UNCHANGED <<writing, wire>>
      /\ clientRx \in [Clients -> Seq(Message)]
  BY DEF Submit, ClientInv, ClientTypeOK
<1> DEFINE w == wire[d]  x == writing[d]  r == clientRx[d]
<1>2. w \in Seq(Message) /\ x \in Seq(Message) /\ r \in Seq(Message)
  BY QueueOfClient DEF ClientInv, ClientTypeOK
<1>3. Sent(d) = w \o x \o r
  BY DEF Sent
<1>4. Sent(d)' = w \o x \o (IF d = c THEN Append(r, m) ELSE r)
  BY <1>1 DEF Sent
<1> HIDE DEF w, x, r
<1>5. w \o x \in Seq(Message) /\ w \o x \o r \in Seq(Message)
  BY <1>2, ConcatProperties
<1>6. w \o x \o Append(r, m) = Append(w \o x \o r, m)
  BY <1>2, <1>5, AppendBehindHand
<1> QED BY <1>3, <1>4, <1>5, <1>6

\* handle_message and forward_shutdown do nothing else to a client.
LEMMA HandleTargetEffect ==
    ASSUME BrokerTypeOK, OutgoingWhileSending, ClientTypeOK, HandleTarget
    PROVE  /\ UNCHANGED <<brokerPc, outgoing, messagingActive, clientSenders, clientPc>>
           /\ brokerPc = "handling"
           /\ targets' \in Seq(Targets) /\ attempts' \in 0 .. MaxAttempts - 1
           /\ \/ UNCHANGED allClientVars
              \/ \E c \in Clients, m \in Message : outgoing = <<m>> /\ Submit(c, m)
<1>t. /\ targets \in Seq(Targets) /\ targets # <<>> /\ brokerPc = "handling"
      /\ attempts \in 0 .. MaxAttempts - 1
      /\ clientSenders \in {{}, Clients}
      /\ UNCHANGED <<brokerPc, outgoing, messagingActive, clientSenders>>
      /\ UNCHANGED <<ClientsRest, stateVars>>
  BY DEF BrokerTypeOK, HandleTarget
<1>1. Tail(targets) \in Seq(Targets)
  BY <1>t, HeadTailProperties
<1>2. PICK m \in Message : outgoing = <<m>>
  BY <1>t DEF BrokerTypeOK, OutgoingWhileSending, AtMostOne
<1>3. CASE Head(targets) \notin clientSenders
  <2>1. targets' = Tail(targets) /\ UNCHANGED <<attempts, clientRx>>
    BY <1>3 DEF HandleTarget
  <2> QED BY <1>t, <1>1, <2>1 DEF allClientVars, clientVars, ClientsRest
<1>4. CASE Head(targets) \in clientSenders
  <2> DEFINE c == Head(targets)
             try == Attempt(clientRx[c], ClientOpen(c), m, attempts)
  <2>1. c \in Clients
    BY <1>t, <1>4
  <2>2. /\ clientRx' = [clientRx EXCEPT ![c] = try.queue]
        /\ attempts' = try.attempts
        /\ targets' = Tail(targets) \/ targets' = targets
    BY <1>2, <1>4 DEF HandleTarget
  <2>3. /\ try.attempts \in 0 .. MaxAttempts - 1
        /\ \/ try.queue = clientRx[c]
           \/ ClientOpen(c) /\ HasRoom(clientRx[c]) /\ try.queue = Append(clientRx[c], m)
    BY ONLY <1>t, TxSenderAssumption DEF Attempt, MayRetry
  <2> HIDE DEF try
  <2>4. UNCHANGED allClientVars \/ Submit(c, m)
    <3>1. CASE try.queue = clientRx[c]
      <4>1. clientRx' = clientRx
        BY <2>1, <2>2, <3>1 DEF ClientTypeOK
      <4> QED BY <1>t, <4>1 DEF allClientVars, clientVars, ClientsRest
    <3>2. CASE ClientOpen(c) /\ HasRoom(clientRx[c]) /\ try.queue = Append(clientRx[c], m)
      <4>1. clientRx' = [clientRx EXCEPT ![c] = Append(@, m)]
        BY <2>2, <3>2
      <4> QED BY <1>t, <3>2, <4>1 DEF Submit, ClientsRest
    <3> QED BY <2>3, <3>1, <3>2
  <2> QED BY <1>t, <1>1, <1>2, <2>1, <2>2, <2>3, <2>4 DEF ClientsRest
<1> QED BY <1>3, <1>4

LEMMA ForwardSendEffect ==
    ASSUME BrokerTypeOK, OutgoingWhileSending, ClientTypeOK, ForwardSend
    PROVE  /\ UNCHANGED <<brokerPc, outgoing, attempts, messagingActive, clientSenders,
                          clientPc>>
           /\ brokerPc = "forwarding"
           /\ targets' \in Seq(Clients) /\ targets' \in Seq(Targets)
           /\ \/ UNCHANGED allClientVars
              \/ \E c \in Clients : Submit(c, SystemShutdown)
<1>t. /\ targets \in Seq(Targets) /\ targets \in Seq(Clients) /\ targets # <<>>
      /\ brokerPc = "forwarding" /\ outgoing = <<SystemShutdown>>
      /\ targets' = Tail(targets)
      /\ UNCHANGED <<brokerPc, outgoing, attempts, messagingActive, clientSenders>>
      /\ UNCHANGED <<ClientsRest, stateVars>>
  BY DEF BrokerTypeOK, OutgoingWhileSending, ForwardSend
<1>1. Tail(targets) \in Seq(Targets) /\ Tail(targets) \in Seq(Clients) /\ Head(targets) \in Clients
  BY <1>t, HeadTailProperties
<1> DEFINE c == Head(targets)
<1>2. CASE UNCHANGED clientRx
  BY <1>t, <1>1, <1>2 DEF allClientVars, clientVars, ClientsRest
<1>3. CASE /\ ClientOpen(c) /\ HasRoom(clientRx[c])
           /\ clientRx' = [clientRx EXCEPT ![c] = @ \o outgoing]
  <2>1. clientRx[c] \o <<SystemShutdown>> = Append(clientRx[c], SystemShutdown)
    BY <1>1, AppendIsConcat, BrokerAssumption DEF ClientTypeOK
  <2>2. clientRx' = [clientRx EXCEPT ![c] = Append(@, SystemShutdown)]
    BY <1>t, <1>3, <2>1
  <2>3. Submit(c, SystemShutdown)
    BY <1>t, <1>3, <2>2 DEF Submit, ClientsRest
  <2> QED BY <1>t, <1>1, <2>3 DEF ClientsRest
<1> QED BY <1>2, <1>3 DEF ForwardSend
-----------------------------------------------------------------------------
\* Every step preserves the invariant.  First the steps of the others.

LEMMA LastWordSent ==
    /\ ShutdownIsLastWord <=> \A c \in Clients : LastWord(Sent(c))
    /\ ShutdownIsLastWord' <=> \A c \in Clients : LastWord(Sent(c)')
BY DEF ShutdownIsLastWord, LastWord

LEMMA SentStays ==
    ASSUME UNCHANGED <<wire, writing, clientRx>>
    PROVE  /\ ShutdownIsLastWord => ShutdownIsLastWord'
           /\ \A c \in Clients : HasShutdown(Sent(c))' <=> HasShutdown(Sent(c))
<1>1. \A c \in Clients : Sent(c)' = Sent(c)
  BY DEF Sent
<1>2. ShutdownIsLastWord => ShutdownIsLastWord'
  BY ONLY <1>1 DEF ShutdownIsLastWord
<1>3. \A c \in Clients : HasShutdown(Sent(c))' <=> HasShutdown(Sent(c))
  BY ONLY <1>1 DEF HasShutdown
<1> QED BY <1>2, <1>3

LEMMA SentKeepsInv ==
    ASSUME BrokerInv, UNCHANGED <<brokerVars, clientPc, wire, writing, clientRx>>
    PROVE  BrokerInv'
<1>1. BrokerTypeOK' /\ OutgoingWhileSending' /\ SendersGoLast'
  BY DEF BrokerInv, BrokerTypeOK, OutgoingWhileSending, SendersGoLast, brokerVars
<1>2. NoShutdownYet'
  BY SentStays DEF BrokerInv, NoShutdownYet, brokerVars
<1>3. ShutdownIsLastWord'
  BY SentStays DEF BrokerInv
<1> QED BY <1>1, <1>2, <1>3 DEF BrokerInv

LEMMA ClientStepBrokerInv ==
    ASSUME ClientInv, BrokerInv, NEW c \in Clients, ClientStep(c), UNCHANGED brokerVars
    PROVE  BrokerInv'
<1>1. BrokerTypeOK' /\ OutgoingWhileSending'
  BY DEF BrokerInv, BrokerTypeOK, OutgoingWhileSending, brokerVars
<1>2. SendersGoLast'
  BY ClientStepMoves DEF BrokerInv, SendersGoLast, brokerVars
<1>3. ASSUME NEW d \in Clients, NEW s, NEW t, s = Sent(d), t = Sent(d)'
      PROVE  (~HasShutdown(s) => ~HasShutdown(t)) /\ (LastWord(s) => LastWord(t))
  BY <1>3, ClientStepKeepsLastWord DEF NoWorse
<1>4. NoShutdownYet'
  BY <1>3 DEF BrokerInv, NoShutdownYet, brokerVars
<1>5. ShutdownIsLastWord'
  BY <1>3, LastWordSent DEF BrokerInv
<1> QED BY <1>1, <1>2, <1>4, <1>5 DEF BrokerInv

\* What a message in a channel does to the order of messages there.
LEMMA SubmitKeepsLastWord ==
    ASSUME ClientInv, ShutdownIsLastWord, NEW c \in Clients, NEW m \in Message, Submit(c, m),
           \/ m \in Heartbeat \cup {SystemShutdown}
           \/ \A d \in Clients : ~HasShutdown(Sent(d))
    PROVE  /\ ShutdownIsLastWord'
           /\ m # SystemShutdown =>
                 \A d \in Clients : HasShutdown(Sent(d))' => HasShutdown(Sent(d))
<1>1. ASSUME NEW d \in Clients, NEW s, NEW t, s = Sent(d), t = Sent(d)'
      PROVE  /\ LastWord(s) => LastWord(t)
             /\ m # SystemShutdown /\ HasShutdown(t) => HasShutdown(s)
  <2>1. s \in Seq(Message) /\ t = IF d = c THEN Append(s, m) ELSE s
    BY <1>1, SubmitAppends
  <2>2. HasShutdown(s) => m \in Heartbeat \cup {SystemShutdown}
    BY <1>1
  <2> QED BY <2>1, <2>2, AppendedMessage
<1> QED BY <1>1, LastWordSent

LEMMA HeartbeatBrokerInv ==
    ASSUME ClientInv, BrokerInv, NEW c \in Clients, HeartbeatTrySend(c), UNCHANGED brokerVars
    PROVE  BrokerInv'
<1>1. PICK m \in Heartbeat : Submit(c, m)
  BY DEF HeartbeatTrySend
<1>2. m \in Message /\ m # SystemShutdown /\ m \in Heartbeat \cup {SystemShutdown}
  BY BrokerAssumption
<1>3. BrokerTypeOK' /\ OutgoingWhileSending'
  BY DEF BrokerInv, BrokerTypeOK, OutgoingWhileSending, brokerVars
<1>4. SendersGoLast'
  BY <1>1 DEF BrokerInv, SendersGoLast, brokerVars, Submit
<1>5. /\ ShutdownIsLastWord'
      /\ \A d \in Clients : HasShutdown(Sent(d))' => HasShutdown(Sent(d))
  BY <1>1, <1>2, SubmitKeepsLastWord DEF BrokerInv
<1>6. NoShutdownYet'
  BY <1>5 DEF BrokerInv, NoShutdownYet, brokerVars
<1> QED BY <1>3, <1>4, <1>5, <1>6 DEF BrokerInv

\* Then those of the methods of the broker.
LEMMA BrokerStepInv ==
    ASSUME ClientInv, BrokerInv, BrokerStep
    PROVE  BrokerInv'
<1> USE DEF BrokerInv
<1>t. ClientTypeOK
  BY DEF ClientInv
<1>1. CASE HandleTarget
  <2>1. /\ UNCHANGED <<brokerPc, outgoing, messagingActive, clientSenders, clientPc>>
        /\ brokerPc = "handling"
        /\ targets' \in Seq(Targets) /\ attempts' \in 0 .. MaxAttempts - 1
        /\ \/ UNCHANGED allClientVars
           \/ \E c \in Clients, m \in Message : outgoing = <<m>> /\ Submit(c, m)
    BY <1>t, <1>1, HandleTargetEffect
  <2>2. BrokerTypeOK' /\ OutgoingWhileSending' /\ SendersGoLast'
    BY <2>1 DEF BrokerTypeOK, OutgoingWhileSending, SendersGoLast
  <2>3. messagingActive /\ \A d \in Clients : ~HasShutdown(Sent(d))
    BY <2>1 DEF OutgoingWhileSending, NoShutdownYet
  <2>4. CASE UNCHANGED allClientVars
    <3>1. UNCHANGED <<wire, writing, clientRx>>
      BY <2>4 DEF allClientVars, clientVars
    <3>2. ShutdownIsLastWord'
      BY <3>1, SentStays
    <3>3. NoShutdownYet'
      BY <2>3, <3>1, SentStays DEF NoShutdownYet
    <3> QED BY <2>2, <3>2, <3>3
  <2>5. ASSUME NEW c \in Clients, NEW m \in Message, outgoing = <<m>>, Submit(c, m)
        PROVE  BrokerInv'
    <3>1. m # SystemShutdown
      BY <2>1, <2>5 DEF OutgoingWhileSending
    <3>2. /\ ShutdownIsLastWord'
          /\ \A d \in Clients : HasShutdown(Sent(d))' => HasShutdown(Sent(d))
      BY <2>3, <2>5, <3>1, SubmitKeepsLastWord
    <3>3. NoShutdownYet'
      BY <2>3, <3>2 DEF NoShutdownYet
    <3> QED BY <2>2, <3>2, <3>3
  <2> QED BY <2>1, <2>4, <2>5
<1>2. CASE HandleReturns
  <2>1. /\ UNCHANGED <<targets, attempts, messagingActive, clientSenders, clientVars>>
        /\ brokerPc = "handling" /\ brokerPc' = "idle" /\ outgoing' = <<>>
    BY <1>2 DEF HandleReturns
  <2>2. BrokerTypeOK' /\ OutgoingWhileSending' /\ SendersGoLast'
    BY <2>1, AtMostOneProperties
    DEF BrokerTypeOK, OutgoingWhileSending, SendersGoLast, clientVars
  <2>3. NoShutdownYet' /\ ShutdownIsLastWord'
    BY <2>1, SentStays DEF NoShutdownYet, clientVars
  <2> QED BY <2>2, <2>3
<1>3. CASE ForwardSend
  <2>1. /\ UNCHANGED <<brokerPc, outgoing, attempts, messagingActive, clientSenders,
                       clientPc>>
        /\ brokerPc = "forwarding"
        /\ targets' \in Seq(Clients) /\ targets' \in Seq(Targets)
        /\ \/ UNCHANGED allClientVars
           \/ \E c \in Clients : Submit(c, SystemShutdown)
    BY <1>t, <1>3, ForwardSendEffect
  <2>2. BrokerTypeOK' /\ OutgoingWhileSending' /\ SendersGoLast' /\ NoShutdownYet'
    BY <2>1 DEF BrokerTypeOK, OutgoingWhileSending, SendersGoLast, NoShutdownYet
  <2>3. ShutdownIsLastWord'
    <3>1. CASE UNCHANGED allClientVars
      BY <3>1, SentStays DEF allClientVars, clientVars
    <3>2. ASSUME NEW c \in Clients, Submit(c, SystemShutdown) PROVE ShutdownIsLastWord'
      <4>1. SystemShutdown \in Message /\ SystemShutdown \in Heartbeat \cup {SystemShutdown}
        BY BrokerAssumption
      <4> QED BY <3>2, <4>1, SubmitKeepsLastWord
    <3> QED BY <2>1, <3>1, <3>2
  <2> QED BY <2>2, <2>3
<1>4. CASE ForwardReturns
  <2>1. /\ UNCHANGED <<targets, attempts, clientSenders, clientVars>>
        /\ brokerPc' = "idle" /\ outgoing' = <<>> /\ messagingActive' = FALSE
    BY <1>4 DEF ForwardReturns
  <2>2. BrokerTypeOK' /\ OutgoingWhileSending' /\ SendersGoLast'
    BY <2>1, AtMostOneProperties
    DEF BrokerTypeOK, OutgoingWhileSending, SendersGoLast, clientVars
  <2>3. NoShutdownYet' /\ ShutdownIsLastWord'
    BY <2>1, SentStays DEF NoShutdownYet, clientVars
  <2> QED BY <2>2, <2>3
<1>5. CASE ShutdownReturns
  <2>1. /\ UNCHANGED <<targets, outgoing, attempts, messagingActive, clientVars>>
        /\ brokerPc = "joining" /\ brokerPc' = "idle" /\ clientSenders' = {}
        /\ \A c \in Clients : clientPc[c] = "done"
    BY <1>5 DEF ShutdownReturns, AllJoined
  <2>2. BrokerTypeOK' /\ OutgoingWhileSending' /\ SendersGoLast'
    BY <2>1 DEF BrokerTypeOK, OutgoingWhileSending, SendersGoLast, clientVars
  <2>3. NoShutdownYet' /\ ShutdownIsLastWord'
    BY <2>1, SentStays DEF NoShutdownYet, clientVars
  <2> QED BY <2>2, <2>3
<1> QED BY <1>1, <1>2, <1>3, <1>4, <1>5 DEF BrokerStep

\* And the calls of its owner, during which no client moves.
LEMMA HandleMessageBrokerInv ==
    ASSUME BrokerInv, UNCHANGED clientVars, NEW ts \in TargetLists,
           NEW m \in Message \ (Heartbeat \cup {SystemShutdown}), HandleMessage(ts, m)
    PROVE  BrokerInv'
<1> USE DEF BrokerInv
<1>1. CASE UNCHANGED brokerVars
  BY <1>1, SentKeepsInv DEF clientVars
<1>2. CASE /\ messagingActive /\ brokerPc = "idle" /\ brokerPc' = "handling"
           /\ targets' = ts /\ outgoing' = <<m>>
           /\ UNCHANGED <<attempts, messagingActive, clientSenders>>
  <2>1. outgoing' \in AtMostOne(Message) /\ outgoing' # <<>>
    BY <1>2, AtMostOneProperties
  <2>2. ts \in Seq(Targets)
    BY BrokerAssumption
  <2>3. BrokerTypeOK' /\ SendersGoLast'
    BY <1>2, <2>1, <2>2 DEF BrokerTypeOK, SendersGoLast, clientVars
  <2>4. OutgoingWhileSending'
    BY <1>2, <2>1 DEF OutgoingWhileSending
  <2>5. NoShutdownYet' /\ ShutdownIsLastWord'
    BY <1>2, SentStays DEF NoShutdownYet, clientVars
  <2> QED BY <2>3, <2>4, <2>5
<1> QED BY <1>1, <1>2 DEF HandleMessage, brokerVars

LEMMA IterationOrderIsSeq ==
    ASSUME BrokerTypeOK, NEW o \in IterationOrders(clientSenders)
    PROVE  o \in Seq(Clients) /\ o \in Seq(Targets)
<1>1. clientSenders \subseteq Clients /\ IsFiniteSet(clientSenders)
  BY BrokerAssumption, FS_EmptySet DEF BrokerTypeOK
<1>2. Cardinality(clientSenders) \in Nat
  BY <1>1, FS_CardinalityType
<1>3. o \in [1 .. Cardinality(clientSenders) -> Clients]
  BY <1>1 DEF IterationOrders
<1>4. o \in Seq(Clients)
  BY <1>2, <1>3, SeqDef
<1>5. o \in [1 .. Cardinality(clientSenders) -> Targets]
  BY <1>3 DEF Targets
<1> QED BY <1>2, <1>4, <1>5, SeqDef

LEMMA ForwardShutdownBrokerInv ==
    ASSUME BrokerInv, UNCHANGED clientVars, ForwardShutdown(SystemShutdown)
    PROVE  BrokerInv'
<1> USE DEF BrokerInv
<1>1. /\ brokerPc' = "forwarding" /\ targets' \in IterationOrders(clientSenders)
      /\ outgoing' = <<SystemShutdown>>
      /\ UNCHANGED <<attempts, messagingActive, clientSenders>>
  BY DEF ForwardShutdown
<1>2. targets' \in Seq(Clients) /\ targets' \in Seq(Targets)
  BY <1>1, IterationOrderIsSeq
<1>3. outgoing' \in AtMostOne(Message) /\ outgoing' # <<>>
  BY <1>1, BrokerAssumption, AtMostOneProperties
<1>4. BrokerTypeOK' /\ OutgoingWhileSending' /\ SendersGoLast' /\ NoShutdownYet'
  BY <1>1, <1>2, <1>3
  DEF BrokerTypeOK, OutgoingWhileSending, SendersGoLast, NoShutdownYet, clientVars
<1>5. ShutdownIsLastWord'
  BY SentStays DEF clientVars
<1> QED BY <1>4, <1>5

LEMMA ShutdownBrokerInv ==
    ASSUME BrokerInv, UNCHANGED clientVars, ShutdownBroker
    PROVE  BrokerInv'
<1> USE DEF BrokerInv
<1>1. /\ brokerPc = "idle" /\ brokerPc' = "joining"
      /\ UNCHANGED <<targets, outgoing, attempts, messagingActive, clientSenders>>
  BY DEF ShutdownBroker
<1>2. BrokerTypeOK' /\ OutgoingWhileSending' /\ SendersGoLast'
  BY <1>1 DEF BrokerTypeOK, OutgoingWhileSending, SendersGoLast, clientVars
<1>3. NoShutdownYet' /\ ShutdownIsLastWord'
  BY <1>1, SentStays DEF NoShutdownYet, clientVars
<1> QED BY <1>2, <1>3

LEMMA BrokerInitInv == ClientInit /\ BrokerInit => BrokerInv
<1> SUFFICES ASSUME ClientInit, BrokerInit PROVE BrokerInv
  OBVIOUS
<1>1. BrokerTypeOK
  BY AtMostOneProperties, TxSenderAssumption DEF BrokerInit, BrokerTypeOK
<1>2. OutgoingWhileSending
  BY DEF BrokerInit, OutgoingWhileSending
<1>3. SendersGoLast
  BY DEF BrokerInit, SendersGoLast
<1>4. \A c \in Clients : Sent(c) = <<>>
  BY ConcatEmptySeq DEF ClientInit, Sent
<1>5. NoShutdownYet /\ ShutdownIsLastWord
  BY <1>4, ShutdownInSmall, LastWordSent DEF NoShutdownYet
<1> QED BY <1>1, <1>2, <1>3, <1>5 DEF BrokerInv
-----------------------------------------------------------------------------
\* A step of the broker and its callers is, for the clients, one that their
\* specification allows.
LEMMA BrokerStepIsClientStep ==
    ASSUME ClientInv, BrokerInv, BrokerStep
    PROVE  [ClientNext]_allClientVars
<1>t. BrokerTypeOK /\ OutgoingWhileSending /\ ClientTypeOK
  BY DEF BrokerInv, ClientInv
<1>1. CASE HandleTarget
  <2>1. \/ UNCHANGED allClientVars
        \/ \E c \in Clients, m \in Message : Submit(c, m)
    BY <1>t, <1>1, HandleTargetEffect
  <2> QED BY <2>1 DEF ClientNext
<1>2. CASE ForwardSend
  <2>1. \/ UNCHANGED allClientVars
        \/ \E c \in Clients : Submit(c, SystemShutdown)
    BY <1>t, <1>2, ForwardSendEffect
  <2> QED BY <2>1, BrokerAssumption DEF ClientNext
<1>3. CASE HandleReturns \/ ForwardReturns \/ ShutdownReturns
  BY <1>3 DEF HandleReturns, ForwardReturns, ShutdownReturns, allClientVars
<1> QED BY <1>1, <1>2, <1>3 DEF BrokerStep

LEMMA BrokerNextIsClientNext ==
    ASSUME ClientInv, BrokerInv, [BrokerNext]_allBrokerVars
    PROVE  [ClientNext]_allClientVars
<1>1. CASE BrokerStep
  BY <1>1, BrokerStepIsClientStep
<1>2. CASE OwnerCalls
  BY <1>2 DEF OwnerCalls, allClientVars
<1>3. CASE OtherTask
  BY <1>3 DEF ClientNext
<1>4. ASSUME NEW c \in Clients, ClientStep(c) \/ StreamBreaks(c) \/ HeartbeatTrySend(c)
      PROVE  ClientNext
  BY <1>4, BrokerAssumption DEF ClientNext, HeartbeatTrySend
<1>5. CASE UNCHANGED allBrokerVars
  BY <1>5 DEF allBrokerVars, allClientVars
<1> QED BY <1>1, <1>2, <1>3, <1>4, <1>5 DEF BrokerNext

LEMMA BrokerNextInv ==
    ASSUME ClientInv, BrokerInv, [BrokerNext]_allBrokerVars
    PROVE  BrokerInv'
<1>1. CASE BrokerStep
  BY <1>1, BrokerStepInv
<1>2. CASE OwnerCalls
  BY <1>2, HandleMessageBrokerInv, ForwardShutdownBrokerInv, ShutdownBrokerInv DEF OwnerCalls
<1>3. CASE UNCHANGED brokerVars /\ OtherTask
  BY <1>3, SentKeepsInv DEF OtherTask, clientVars
<1>4. ASSUME UNCHANGED brokerVars,
             NEW c \in Clients, ClientStep(c) \/ StreamBreaks(c) \/ HeartbeatTrySend(c)
      PROVE  BrokerInv'
  <2>1. CASE ClientStep(c)
    BY <1>4, <2>1, ClientStepBrokerInv
  <2>2. CASE StreamBreaks(c)
    BY <1>4, <2>2, SentKeepsInv DEF StreamBreaks
  <2>3. CASE HeartbeatTrySend(c)
    BY <1>4, <2>3, HeartbeatBrokerInv
  <2> QED BY <1>4, <2>1, <2>2, <2>3
<1>5. CASE UNCHANGED allBrokerVars
  BY <1>5, SentKeepsInv DEF allBrokerVars, clientVars
<1> QED BY <1>1, <1>2, <1>3, <1>4, <1>5 DEF BrokerNext
-----------------------------------------------------------------------------
\* The clients keep their invariant whatever the broker does to them.
THEOREM BrokerInvariant == BrokerSpec => [](ClientInv /\ BrokerInv)
<1>1. StateInit /\ ClientInit /\ BrokerInit => ClientInv /\ BrokerInv
  BY ClientInitInv, BrokerInitInv
<1>2. ClientInv /\ BrokerInv /\ [BrokerNext]_allBrokerVars => (ClientInv /\ BrokerInv)'
  <2> SUFFICES ASSUME ClientInv, BrokerInv, [BrokerNext]_allBrokerVars
               PROVE  ClientInv' /\ BrokerInv'
    OBVIOUS
  <2>1. BrokerInv'
    BY BrokerNextInv
  <2>2. [ClientNext]_allClientVars
    BY BrokerNextIsClientNext
  <2>3. ClientInv'
    BY <2>2, ClientNextInv
  <2> QED BY <2>1, <2>3
<1> QED BY <1>1, <1>2, PTL DEF BrokerSpec

\* In a broker with its clients, add_to_tx_with_retry never counts beyond its
\* budget, and whatever handle_message, forward_shutdown and the heartbeat
\* tasks put into a client's channel, it holds messages, within its capacity.
THEOREM BrokerTypeCorrect == BrokerSpec => [](BrokerTypeOK /\ ClientTypeOK)
<1>1. BrokerInv => BrokerTypeOK
  BY DEF BrokerInv
<1>2. ClientInv => ClientTypeOK
  BY DEF ClientInv
<1> QED BY <1>1, <1>2, BrokerInvariant, PTL

\* Behind the system shutdown in a channel come only heartbeats
\* (forward_shutdown blocks the component's messages until it is through).
THEOREM ShutdownComesLast == BrokerSpec => []ShutdownIsLastWord
<1>1. BrokerInv => ShutdownIsLastWord
  BY DEF BrokerInv
<1> QED BY <1>1, BrokerInvariant, PTL

\* ClientBroker::shutdown drops its senders after the last client is gone.
THEOREM ClientsGoFirst == BrokerSpec => []SendersOutliveClients
<1>1. ClientInv /\ BrokerInv => SendersOutliveClients
  BY DEF ClientInv, InFlightHasStream, BrokerInv, SendersGoLast, SendersOutliveClients,
         ClientOpen
<1> QED BY <1>1, BrokerInvariant, PTL

\* The broker and the heartbeat tasks use the clients as module Client says,
\* so everything proved there of the clients holds under the broker.
THEOREM BrokerImplementsClients == BrokerSpec => ImplementsClientSpec
<1>1. ClientInv /\ BrokerInv /\ [BrokerNext]_allBrokerVars => [ClientNext]_allClientVars
  BY BrokerNextIsClientNext
<1> QED BY <1>1, BrokerInvariant, PTL DEF BrokerSpec, ImplementsClientSpec, ClientSpec
=============================================================================
