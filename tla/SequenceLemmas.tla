--------------------------- MODULE SequenceLemmas ---------------------------
(***************************************************************************)
(* Facts about sequences used as queues: a queue whose first element one   *)
(* task holds in its hands is <<m>> \o rest.                                *)
(***************************************************************************)
EXTENDS Naturals, Sequences, InHand, SequenceTheorems, TLAPS

\* What a task holds that handles one message at a time.
LEMMA AtMostOneProperties ==
    ASSUME NEW S
    PROVE  /\ <<>> \in AtMostOne(S)
           /\ \A m \in S : <<m>> \in AtMostOne(S) /\ <<m>> # <<>>
           /\ \A s \in AtMostOne(S) : s \in Seq(S)
<1>1. /\ <<>> \in AtMostOne(S)
      /\ \A m \in S : <<m>> \in AtMostOne(S) /\ <<m>> # <<>>
  BY DEF AtMostOne
<1>2. ASSUME NEW s \in AtMostOne(S)
      PROVE  s \in Seq(S)
  <2>1. CASE s = <<>>
    BY <2>1
  <2>2. ASSUME NEW m \in S, s = <<m>> PROVE s \in Seq(S)
    BY <2>2
  <2> QED BY <1>2, <2>1, <2>2 DEF AtMostOne
<1> QED BY <1>1, <1>2

\* The head of a queue, taken in hand, and the rest are the queue.
LEMMA TakenInHand ==
    ASSUME NEW S, NEW s \in Seq(S), s # <<>>
    PROVE  /\ <<Head(s)>> \o Tail(s) = s
           /\ <<Head(s)>> \in Seq(S)
<1>1. /\ Head(s) \in S /\ Tail(s) \in Seq(S) /\ Len(Tail(s)) = Len(s) - 1
      /\ \A i \in 1 .. Len(Tail(s)) : Tail(s)[i] = s[i + 1]
  BY HeadTailProperties
<1>2. <<Head(s)>> \in Seq(S) /\ Len(<<Head(s)>>) = 1 /\ <<Head(s)>>[1] = s[1]
  BY <1>1
<1>3. Len(s) \in Nat
  BY LenProperties
<1>4. /\ <<Head(s)>> \o Tail(s) \in Seq(S)
      /\ Len(<<Head(s)>> \o Tail(s)) = Len(s)
      /\ \A i \in 1 .. Len(s) : (<<Head(s)>> \o Tail(s))[i] =
             IF i <= 1 THEN <<Head(s)>>[i] ELSE Tail(s)[i - 1]
  BY <1>1, <1>2, <1>3, ConcatProperties
<1>5. \A i \in 1 .. Len(s) : (<<Head(s)>> \o Tail(s))[i] = s[i]
  BY <1>1, <1>2, <1>3, <1>4
<1>6. <<Head(s)>> \o Tail(s) = s
  BY <1>3, <1>4, <1>5, SeqEqual
<1> QED BY <1>2, <1>6

\* What is in hand is the head of the queue, and the rest is its tail.
LEMMA InHandIsHead ==
    ASSUME NEW S, NEW m \in S, NEW s \in Seq(S)
    PROVE  /\ <<m>> \o s \in Seq(S)
           /\ <<m>> \o s # <<>>
           /\ Head(<<m>> \o s) = m
           /\ Tail(<<m>> \o s) = s
<1> DEFINE q == <<m>> \o s
<1>1. <<m>> \in Seq(S) /\ Len(<<m>>) = 1 /\ <<m>>[1] = m
  OBVIOUS
<1>2. Len(s) \in Nat
  BY LenProperties
<1>3. /\ q \in Seq(S) /\ Len(q) = 1 + Len(s)
      /\ \A i \in 1 .. 1 + Len(s) : q[i] = IF i <= 1 THEN <<m>>[i] ELSE s[i - 1]
  BY <1>1, ConcatProperties
<1>4. q # <<>> /\ Head(q) = m
  BY <1>1, <1>2, <1>3
<1>5. /\ Tail(q) \in Seq(S) /\ Len(Tail(q)) = Len(s)
      /\ \A i \in 1 .. Len(Tail(q)) : Tail(q)[i] = q[i + 1]
  BY <1>2, <1>3, <1>4, HeadTailProperties
<1>6. \A i \in 1 .. Len(s) : Tail(q)[i] = s[i]
  BY <1>2, <1>3, <1>5
<1>7. Tail(q) = s
  BY <1>5, <1>6, SeqEqual
<1> QED BY <1>3, <1>4, <1>7

\* Appending to the rest appends to the queue.
LEMMA AppendBehindHand ==
    ASSUME NEW S, NEW s \in Seq(S), NEW t \in Seq(S), NEW m \in S
    PROVE  s \o Append(t, m) = Append(s \o t, m)
<1>1. <<m>> \in Seq(S) /\ s \o t \in Seq(S)
  BY ConcatProperties
<1>2. Append(t, m) = t \o <<m>> /\ Append(s \o t, m) = (s \o t) \o <<m>>
  BY <1>1, AppendIsConcat
<1> QED BY <1>1, <1>2, ConcatAssociative
=============================================================================
