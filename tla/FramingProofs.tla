--------------------------- MODULE FramingProofs ---------------------------
(***************************************************************************)
(* Theorems about module Framing, for any payloads, base, length of the    *)
(* prefix and sizes of reads and of the connection.                        *)
(***************************************************************************)
EXTENDS Framing, SequenceLemmas, WellFoundedInduction, TLAPS

-----------------------------------------------------------------------------
\* Recursion over data of a size, with one call of itself.

\* Induction in the form of a counterexample of the least size.
LEMMA LeastOfSize ==
    ASSUME NEW S, NEW size \in [S -> Nat], NEW T \in SUBSET S, T # {}
    PROVE  \E s \in T : \A t \in T : size[s] <= size[t]
<1> DEFINE Sizes == {size[s] : s \in T}
<1>1. PICK less : less = OpToRel(<, Nat)
  OBVIOUS
<1>2. IsWellFoundedOn(less, Nat)
  BY <1>1, NatLessThanWellFounded
<1>3. \A j, k \in Nat : <<j, k>> \in less <=> j < k
  BY <1>1 DEF OpToRel
<1>4. Sizes \subseteq Nat /\ Sizes # {}
  OBVIOUS
<1>5. PICK k \in Sizes : \A j \in Sizes : ~(<<j, k>> \in less)
  <2> HIDE DEF Sizes
  <2> QED BY <1>2, <1>4, WFMin
<1>6. PICK s \in T : k = size[s]
  OBVIOUS
<1>7. \A t \in T : size[t] \in Sizes /\ size[t] \in Nat
  OBVIOUS
<1>8. \A t \in T : ~(size[t] < k)
  BY <1>3, <1>4, <1>5, <1>7
<1> QED BY <1>6, <1>7, <1>8

\* The value that the equation for s calls for is that of something smaller,
\* or makes no difference.
WellFounded(S, V, size, next, step) ==
    \A s \in S : \/ size[next[s]] < size[s]
                 \/ \A u, v \in V : step[s][u] = step[s][v]

HasSolution(S, V, next, step) ==
    \E f \in [S -> V] : \A s \in S : f[s] = step[s][f[next[s]]]

\* There are functions that obey the equation wherever the size is at most n,
\* and two of them agree there.
LEMMA RecursionHasSolution ==
    ASSUME NEW S, NEW V, V # {}, NEW size \in [S -> Nat], NEW next \in [S -> S],
           NEW step \in [S -> [V -> V]], WellFounded(S, V, size, next, step)
    PROVE  HasSolution(S, V, next, step)
<1> DEFINE Obeys(f, n) == \A s \in S : size[s] <= n => f[s] = step[s][f[next[s]]]
           F == [n \in Nat |-> CHOOSE f \in [S -> V] : Obeys(f, n)]
           g == [s \in S |-> F[size[s]][s]]
<1>s. \A s \in S : /\ next[s] \in S /\ size[next[s]] \in Nat /\ size[s] \in Nat
                   /\ \/ size[next[s]] < size[s]
                      \/ \A u, v \in V : step[s][u] = step[s][v]
  BY DEF WellFounded
<1>1. ASSUME NEW m \in Nat, NEW n \in Nat, NEW f \in [S -> V], NEW h \in [S -> V],
             Obeys(f, m), Obeys(h, n)
      PROVE  \A s \in S : size[s] <= m /\ size[s] <= n => f[s] = h[s]
  <2> DEFINE T == {s \in S : size[s] <= m /\ size[s] <= n /\ f[s] # h[s]}
  <2> SUFFICES ASSUME T # {} PROVE FALSE
    OBVIOUS
  <2>1. PICK s \in T : s \in S /\ \A t \in T : size[s] <= size[t]
    <3> T \in SUBSET S
      OBVIOUS
    <3> HIDE DEF T
    <3> QED BY LeastOfSize
  <2>2. f[next[s]] \in V /\ h[next[s]] \in V
    BY <1>s
  <2>3. CASE size[next[s]] < size[s]
    <3>1. next[s] \notin T
      <4> HIDE DEF T
      <4> QED BY <1>s, <2>1, <2>3
    <3>2. next[s] \in S /\ size[next[s]] <= m /\ size[next[s]] <= n
      BY <1>s, <2>1, <2>3
    <3>3. f[next[s]] = h[next[s]]
      BY <3>1, <3>2
    <3> QED BY <1>1, <3>3
  <2>4. CASE \A u, v \in V : step[s][u] = step[s][v]
    BY <1>1, <2>2, <2>4
  <2> QED BY <1>s, <2>3, <2>4
<1>2. \A n \in Nat : \E f \in [S -> V] : Obeys(f, n)
  <2> DEFINE T == {n \in Nat : ~ \E f \in [S -> V] : Obeys(f, n)}
             id == [n \in Nat |-> n]
  <2> SUFFICES ASSUME T # {} PROVE FALSE
    OBVIOUS
  <2>1. PICK n \in T : n \in Nat /\ \A m \in T : n <= m
    <3>1. id \in [Nat -> Nat] /\ T \in SUBSET Nat
      OBVIOUS
    <3>2. \E n \in T : \A m \in T : id[n] <= id[m]
      <4> HIDE DEF T, id
      <4> QED BY <3>1, LeastOfSize
    <3> HIDE DEF Obeys
    <3> QED BY <3>2
  <2>2. PICK f \in [S -> V] : n > 0 => Obeys(f, n - 1)
    <3>1. CASE n > 0
      <4>1. n - 1 \in Nat /\ n - 1 \notin T
        <5> HIDE DEF T
        <5> QED BY <2>1, <3>1
      <4> QED BY <4>1
    <3>2. CASE n = 0
      <4>1. PICK v : v \in V
        OBVIOUS
      <4>2. ~(n > 0)
        BY <3>2
      <4> DEFINE c == [s \in S |-> v]
      <4>3. c \in [S -> V]
        BY <4>1
      <4> HIDE DEF Obeys, c
      <4> QED BY <4>2, <4>3
    <3> HIDE DEF Obeys
    <3> QED BY <2>1, <3>1, <3>2
  <2> DEFINE h == [s \in S |-> step[s][f[next[s]]]]
  <2>3. h \in [S -> V]
    OBVIOUS
  <2>4. ASSUME NEW s \in S, size[s] <= n
        PROVE  h[s] = step[s][h[next[s]]]
    <3>1. CASE size[next[s]] < size[s]
      <4>1. next[s] \in S /\ size[next[s]] <= n - 1 /\ n > 0
        BY <1>s, <2>1, <2>4, <3>1
      <4>2. h[next[s]] = f[next[s]]
        BY <2>2, <4>1
      <4> QED BY <2>4, <4>2
    <3>2. CASE \A u, v \in V : step[s][u] = step[s][v]
      <4>1. f[next[s]] \in V /\ h[next[s]] \in V
        BY <1>s, <2>3
      <4>2. h[s] = step[s][f[next[s]]]
        OBVIOUS
      <4> HIDE DEF h
      <4> QED BY <3>2, <4>1, <4>2
    <3> QED BY <1>s, <3>1, <3>2
  <2>5. Obeys(h, n)
    BY <2>4
  <2> HIDE DEF h, Obeys
  <2> QED BY <2>3, <2>5
<1>3. \A n \in Nat : F[n] \in [S -> V] /\ Obeys(F[n], n)
  <2> SUFFICES ASSUME NEW n \in Nat PROVE F[n] \in [S -> V] /\ Obeys(F[n], n)
    OBVIOUS
  <2>1. \E f \in [S -> V] : Obeys(f, n)
    BY <1>2
  <2>2. F[n] = CHOOSE f \in [S -> V] : Obeys(f, n)
    OBVIOUS
  <2> HIDE DEF F, Obeys
  <2> QED BY <2>1, <2>2
<1> HIDE DEF F, Obeys
<1>4. \A m, n \in Nat, s \in S : size[s] <= m /\ size[s] <= n => F[m][s] = F[n][s]
  <2> SUFFICES ASSUME NEW m \in Nat, NEW n \in Nat
               PROVE  \A s \in S : size[s] <= m /\ size[s] <= n => F[m][s] = F[n][s]
    OBVIOUS
  <2> QED BY <1>1, <1>3
<1>5. g \in [S -> V]
  BY <1>3
<1>6. ASSUME NEW s \in S
      PROVE  g[s] = step[s][g[next[s]]]
  <2>1. size[s] \in Nat /\ g[s] = F[size[s]][s]
    OBVIOUS
  <2>2. g[s] = step[s][F[size[s]][next[s]]]
    <3>1. Obeys(F[size[s]], size[s])
      BY <1>3
    <3> HIDE DEF g
    <3> QED BY <2>1, <3>1 DEF Obeys
  <2>3. CASE size[next[s]] < size[s]
    <3>1. /\ next[s] \in S /\ size[next[s]] \in Nat
          /\ size[next[s]] <= size[next[s]] /\ size[next[s]] <= size[s]
      BY <1>s, <2>3
    <3>2. g[next[s]] = F[size[next[s]]][next[s]]
      BY <3>1
    <3>3. F[size[next[s]]][next[s]] = F[size[s]][next[s]]
      BY <1>4, <2>1, <3>1
    <3> QED BY <2>2, <3>2, <3>3
  <2>4. CASE \A u, v \in V : step[s][u] = step[s][v]
    <3>1. g[next[s]] \in V /\ F[size[s]][next[s]] \in V
      BY <1>s, <1>3, <1>5
    <3> HIDE DEF g
    <3> QED BY <2>2, <2>4, <3>1
  <2> QED BY <1>s, <2>3, <2>4
<1> QED BY <1>5, <1>6 DEF HasSolution
-----------------------------------------------------------------------------
\* The length prefix.
LEMMA DivMod ==
    ASSUME NEW m \in Nat, NEW b \in Nat \ {0}
    PROVE  (m \div b) * b + (m % b) = m
OBVIOUS

\* Shifted obeys the equation that defines it.
LEMMA ShiftedIsRecursive ==
    ASSUME NEW n \in Nat
    PROVE  Shifted(n) = [i \in 0..PrefixLen |-> IF i = 0 THEN n ELSE Shifted(n)[i - 1] \div Base]
<1> DEFINE Eq(f) == f = [i \in 0..PrefixLen |-> IF i = 0 THEN n ELSE f[i - 1] \div Base]
           S == 0..PrefixLen
           V == Nat
           size == [i \in S |-> i]
           next == [i \in S |-> IF i = 0 THEN 0 ELSE i - 1]
           step == [i \in S |-> [v \in V |-> IF i = 0 THEN n ELSE v \div Base]]
<1>1. PrefixLen \in Nat /\ Base \in Nat \ {0}
  BY FramingAssumption
<1>2. V # {} /\ size \in [S -> Nat] /\ next \in [S -> S]
  BY <1>1
<1>3. step \in [S -> [V -> V]]
  BY <1>1
<1>4. WellFounded(S, V, size, next, step)
  BY <1>1 DEF WellFounded
<1>5. PICK f \in [S -> V] : \A i \in S : f[i] = step[i][f[next[i]]]
  <2>1. HasSolution(S, V, next, step)
    <3> HIDE DEF S, V, size, next, step
    <3> QED BY <1>2, <1>3, <1>4, RecursionHasSolution
  <2> HIDE DEF S, V, size, next, step
  <2> QED BY <2>1 DEF HasSolution
<1>6. Eq(f)
  <2>1. ASSUME NEW i \in S
        PROVE  f[i] = IF i = 0 THEN n ELSE f[i - 1] \div Base
    <3>1. f[i] = step[i][f[next[i]]]
      BY <1>5
    <3>2. CASE i = 0
      BY <3>1, <3>2
    <3>3. CASE i # 0
      <4>1. i - 1 \in S /\ next[i] = i - 1 /\ f[i - 1] \in V
        BY <1>1, <3>3
      <4> QED BY <3>1, <3>3, <4>1
    <3> QED BY <3>2, <3>3
  <2> QED BY <2>1
<1>7. Shifted(n) = CHOOSE g : Eq(g)
  BY DEF Shifted
<1>8. Eq(CHOOSE g : Eq(g))
  <2> HIDE DEF Eq
  <2> QED BY <1>6
<1> QED BY <1>7, <1>8

\* Each value of Shifted is a number, the next one without its last digit.
LEMMA ShiftedProperties ==
    ASSUME NEW n \in Nat
    PROVE  /\ Shifted(n)[0] = n
           /\ \A i \in 0..PrefixLen : Shifted(n)[i] \in Nat
           /\ \A i \in 1..PrefixLen : Shifted(n)[i] = Shifted(n)[i - 1] \div Base
<1> DEFINE S == 0..PrefixLen
           T == {i \in S : Shifted(n)[i] \notin Nat}
           size == [i \in S |-> i]
<1>1. PrefixLen \in Nat /\ Base \in Nat \ {0}
  BY FramingAssumption
<1>2. \A i \in S : Shifted(n)[i] = IF i = 0 THEN n ELSE Shifted(n)[i - 1] \div Base
  BY ShiftedIsRecursive
<1>3. T = {}
  <2> SUFFICES ASSUME T # {} PROVE FALSE
    OBVIOUS
  <2>1. size \in [S -> Nat] /\ T \in SUBSET S
    BY <1>1
  <2>2. PICK i \in T : \A j \in T : size[i] <= size[j]
    <3> HIDE DEF S, T, size
    <3> QED BY <2>1, LeastOfSize
  <2>3. i \in S /\ Shifted(n)[i] \notin Nat /\ i # 0
    BY <1>2
  <2>4. i - 1 \in S /\ i - 1 \notin T
    <3>1. i - 1 \in S /\ size[i] = i /\ size[i - 1] = i - 1
      BY <1>1, <2>3
    <3>2. ~(i <= i - 1)
      BY <1>1, <2>3
    <3> HIDE DEF S, T, size
    <3> QED BY <2>2, <3>1, <3>2
  <2>5. Shifted(n)[i - 1] \in Nat
    BY <2>4
  <2>6. Shifted(n)[i - 1] \div Base \in Nat
    BY <1>1, <2>5
  <2> QED BY <1>2, <2>3, <2>6
<1>4. \A i \in 1..PrefixLen : i \in S /\ i # 0
  BY <1>1
<1>5. 0 \in S
  BY <1>1
<1> QED BY <1>2, <1>3, <1>4, <1>5

\* The value FrameLen reads obeys the equation that defines it.
LEMMA FrameLenIsRecursive ==
    ASSUME NEW buf, \A i \in 1..PrefixLen : buf[i] \in Byte
    PROVE  \E value : /\ FrameLen(buf) = value[PrefixLen]
                      /\ \A i \in 0..PrefixLen :
                             value[i] = IF i = 0 THEN 0 ELSE value[i - 1] * Base + buf[i]
<1> DEFINE Eq(f) == f = [i \in 0..PrefixLen |-> IF i = 0 THEN 0 ELSE f[i - 1] * Base + buf[i]]
           S == 0..PrefixLen
           V == Nat
           size == [i \in S |-> i]
           next == [i \in S |-> IF i = 0 THEN 0 ELSE i - 1]
           step == [i \in S |-> [v \in V |-> IF i = 0 THEN 0 ELSE v * Base + buf[i]]]
<1>1. PrefixLen \in Nat /\ Base \in Nat \ {0}
  BY FramingAssumption
<1>2. V # {} /\ size \in [S -> Nat] /\ next \in [S -> S]
  BY <1>1
<1>3. step \in [S -> [V -> V]]
  <2>1. ASSUME NEW i \in S, NEW v \in V
        PROVE  (IF i = 0 THEN 0 ELSE v * Base + buf[i]) \in V
    <3>1. i # 0 => buf[i] \in Nat
      BY <1>1 DEF Byte
    <3>2. v * Base \in Nat
      BY <1>1
    <3> QED BY <3>1, <3>2
  <2> QED BY <2>1
<1>4. WellFounded(S, V, size, next, step)
  BY <1>1 DEF WellFounded
<1>5. PICK f \in [S -> V] : \A i \in S : f[i] = step[i][f[next[i]]]
  <2>1. HasSolution(S, V, next, step)
    <3> HIDE DEF S, V, size, next, step
    <3> QED BY <1>2, <1>3, <1>4, RecursionHasSolution
  <2> HIDE DEF S, V, size, next, step
  <2> QED BY <2>1 DEF HasSolution
<1>6. Eq(f)
  <2>1. ASSUME NEW i \in S
        PROVE  f[i] = IF i = 0 THEN 0 ELSE f[i - 1] * Base + buf[i]
    <3>1. f[i] = step[i][f[next[i]]]
      BY <1>5
    <3>2. CASE i = 0
      BY <3>1, <3>2
    <3>3. CASE i # 0
      <4>1. i - 1 \in S /\ next[i] = i - 1 /\ f[i - 1] \in V
        BY <1>1, <3>3
      <4> QED BY <3>1, <3>3, <4>1
    <3> QED BY <3>2, <3>3
  <2> QED BY <2>1
<1>7. FrameLen(buf) = (CHOOSE g : Eq(g))[PrefixLen]
  BY DEF FrameLen
<1>8. PICK value : value = CHOOSE g : Eq(g)
  OBVIOUS
<1>9. Eq(value)
  <2>1. Eq(CHOOSE g : Eq(g))
    <3> HIDE DEF Eq
    <3> QED BY <1>6
  <2> HIDE DEF Eq
  <2> QED BY <1>8, <2>1
<1>10. \A i \in S : value[i] = IF i = 0 THEN 0 ELSE value[i - 1] * Base + buf[i]
  <2> DEFINE e(i) == IF i = 0 THEN 0 ELSE value[i - 1] * Base + buf[i]
  <2>1. value = [i \in S |-> e(i)]
    BY <1>9
  <2>2. \A i \in S : value[i] = e(i)
    <3> HIDE DEF S, e
    <3> QED BY <2>1
  <2> QED BY <2>2
<1>11. FrameLen(buf) = value[PrefixLen]
  <2> HIDE DEF Eq
  <2> QED BY <1>7, <1>8
<1> QED BY <1>10, <1>11

\* What is written to the prefix is read from it.
LEMMA PrefixSaysLength ==
    ASSUME NEW n \in Nat, Shifted(n)[PrefixLen] = 0,
           NEW buf, \A i \in 1..PrefixLen : buf[i] = Prefix(n)[i]
    PROVE  FrameLen(buf) = n
<1> DEFINE S == 0..PrefixLen
           size == [i \in S |-> i]
<1>1. PrefixLen \in Nat \ {0} /\ Base \in Nat \ {0}
  BY FramingAssumption
<1>2. \A i \in 1..PrefixLen : /\ PrefixLen - i \in 0..PrefixLen
                              /\ buf[i] = Shifted(n)[PrefixLen - i] % Base
  BY <1>1 DEF Prefix
<1>3. \A i \in 1..PrefixLen : buf[i] \in Byte
  <2> SUFFICES ASSUME NEW i \in 1..PrefixLen PROVE buf[i] \in Byte
    OBVIOUS
  <2>1. Shifted(n)[PrefixLen - i] \in Nat
    BY <1>2, ShiftedProperties
  <2>2. Shifted(n)[PrefixLen - i] % Base \in 0 .. Base - 1
    BY <1>1, <2>1
  <2> QED BY <1>2, <2>2 DEF Byte
<1>4. PICK value : /\ FrameLen(buf) = value[PrefixLen]
                   /\ \A i \in S : value[i] = IF i = 0 THEN 0 ELSE value[i - 1] * Base + buf[i]
  BY <1>3, FrameLenIsRecursive
<1> DEFINE T == {i \in S : value[i] # Shifted(n)[PrefixLen - i]}
<1>5. T = {}
  <2> SUFFICES ASSUME T # {} PROVE FALSE
    OBVIOUS
  <2>1. size \in [S -> Nat] /\ T \in SUBSET S
    BY <1>1
  <2>2. PICK i \in T : \A j \in T : size[i] <= size[j]
    <3> HIDE DEF S, T, size
    <3> QED BY <2>1, LeastOfSize
  <2>3. i # 0
    <3>1. value[0] = Shifted(n)[PrefixLen - 0]
      BY <1>1, <1>4
    <3> QED BY <3>1
  <2>4. i - 1 \in S /\ i - 1 \notin T
    <3>1. i - 1 \in S /\ size[i] = i /\ size[i - 1] = i - 1 /\ ~(i <= i - 1)
      BY <1>1, <2>3
    <3> HIDE DEF S, T, size
    <3> QED BY <2>2, <3>1
  <2> DEFINE k == PrefixLen - i
             m == Shifted(n)[k]
  <2>5. /\ k \in 0..PrefixLen /\ k + 1 \in 1..PrefixLen
        /\ PrefixLen - (i - 1) = k + 1 /\ (k + 1) - 1 = k
    BY <1>1, <2>3
  <2>6. m \in Nat /\ Shifted(n)[k + 1] = m \div Base
    BY <2>5, ShiftedProperties
  <2>7. value[i - 1] = m \div Base
    BY <2>4, <2>5, <2>6
  <2>8. buf[i] = m % Base
    BY <1>1, <1>2, <2>3
  <2>9. (m \div Base) * Base + (m % Base) = m
    <3> HIDE DEF m
    <3> QED BY <1>1, <2>6, DivMod
  <2>10. value[i] = value[i - 1] * Base + buf[i]
    BY <1>4, <2>3
  <2>11. value[i] = (m \div Base) * Base + (m % Base)
    <3> HIDE DEF m
    <3> QED BY <2>7, <2>8, <2>10, Zenon
  <2> QED BY <2>9, <2>11
<1>6. PrefixLen \in S /\ PrefixLen \notin T /\ PrefixLen - PrefixLen = 0
  BY <1>1, <1>5
<1>7. value[PrefixLen] = Shifted(n)[0]
  BY <1>6
<1> QED BY <1>4, <1>7, ShiftedProperties

\* What the handler reads as a length is a number.
LEMMA FrameLenType ==
    ASSUME NEW buf, \A i \in 1..PrefixLen : buf[i] \in Byte
    PROVE  FrameLen(buf) \in Nat
<1> DEFINE S == 0..PrefixLen
           size == [i \in S |-> i]
<1>1. PrefixLen \in Nat \ {0} /\ Base \in Nat \ {0}
  BY FramingAssumption
<1>2. PICK value : /\ FrameLen(buf) = value[PrefixLen]
                   /\ \A i \in S : value[i] = IF i = 0 THEN 0 ELSE value[i - 1] * Base + buf[i]
  BY FrameLenIsRecursive
<1> DEFINE T == {i \in S : value[i] \notin Nat}
<1>3. T = {}
  <2> SUFFICES ASSUME T # {} PROVE FALSE
    OBVIOUS
  <2>1. size \in [S -> Nat] /\ T \in SUBSET S
    BY <1>1
  <2>2. PICK i \in T : \A j \in T : size[i] <= size[j]
    <3> HIDE DEF S, T, size
    <3> QED BY <2>1, LeastOfSize
  <2>3. i # 0
    BY <1>1, <1>2
  <2>4. i - 1 \in S /\ i - 1 \notin T
    <3>1. i - 1 \in S /\ size[i] = i /\ size[i - 1] = i - 1 /\ ~(i <= i - 1)
      BY <1>1, <2>3
    <3> HIDE DEF S, T, size
    <3> QED BY <2>2, <3>1
  <2>5. value[i - 1] * Base \in Nat /\ buf[i] \in Nat
    BY <1>1, <2>3, <2>4 DEF Byte
  <2> QED BY <1>2, <2>3, <2>5
<1>4. PrefixLen \in S
  BY <1>1
<1> QED BY <1>2, <1>3, <1>4

\* Only the first bytes of a buffer count.
LEMMA FrameLenOfPrefix ==
    ASSUME NEW a, NEW b, \A i \in 1..PrefixLen : a[i] = b[i] /\ a[i] \in Byte
    PROVE  FrameLen(a) = FrameLen(b)
<1> DEFINE S == 0..PrefixLen
           size == [i \in S |-> i]
<1>1. PrefixLen \in Nat \ {0} /\ Base \in Nat \ {0}
  BY FramingAssumption
<1>2. PICK v : /\ FrameLen(a) = v[PrefixLen]
               /\ \A i \in S : v[i] = IF i = 0 THEN 0 ELSE v[i - 1] * Base + a[i]
  BY FrameLenIsRecursive
<1>3. PICK w : /\ FrameLen(b) = w[PrefixLen]
               /\ \A i \in S : w[i] = IF i = 0 THEN 0 ELSE w[i - 1] * Base + b[i]
  <2>1. \A i \in 1..PrefixLen : b[i] \in Byte
    OBVIOUS
  <2> QED BY <2>1, FrameLenIsRecursive
<1> DEFINE T == {i \in S : v[i] # w[i]}
<1>4. T = {}
  <2> SUFFICES ASSUME T # {} PROVE FALSE
    OBVIOUS
  <2>1. size \in [S -> Nat] /\ T \in SUBSET S
    BY <1>1
  <2>2. PICK i \in T : \A j \in T : size[i] <= size[j]
    <3> HIDE DEF S, T, size
    <3> QED BY <2>1, LeastOfSize
  <2>3. i # 0
    BY <1>1, <1>2, <1>3
  <2>4. i - 1 \in S /\ i - 1 \notin T
    <3>1. i - 1 \in S /\ size[i] = i /\ size[i - 1] = i - 1 /\ ~(i <= i - 1)
      BY <1>1, <2>3
    <3> HIDE DEF S, T, size
    <3> QED BY <2>2, <3>1
  <2>5. v[i - 1] = w[i - 1] /\ a[i] = b[i]
    BY <1>1, <2>3, <2>4
  <2>6. /\ v[i] = v[i - 1] * Base + a[i]
        /\ w[i] = w[i - 1] * Base + b[i]
    BY <1>2, <1>3, <2>3
  <2>7. v[i] = w[i]
    BY <2>5, <2>6, Zenon
  <2> QED BY <2>7
<1>5. PrefixLen \in S
  BY <1>1
<1> QED BY <1>2, <1>3, <1>4, <1>5
-----------------------------------------------------------------------------
\* Cutting sequences.
LEMMA DropProperties ==
    ASSUME NEW S, NEW s \in Seq(S), NEW n \in 0..Len(s)
    PROVE  /\ Drop(s, n) \in Seq(S)
           /\ Len(Drop(s, n)) = Len(s) - n
           /\ \A i \in 1..Len(s) - n : Drop(s, n)[i] = s[n + i]
           /\ SubSeq(s, 1, n) \in Seq(S)
           /\ Len(SubSeq(s, 1, n)) = n
           /\ \A i \in 1..n : SubSeq(s, 1, n)[i] = s[i]
<1>1. Len(s) \in Nat /\ \A i \in 1..Len(s) : s[i] \in S
  BY LenProperties, ElementOfSeq
<1>2. n \in Nat /\ n <= Len(s)
  BY <1>1
<1>3. /\ SubSeq(s, n + 1, Len(s)) \in Seq(S)
      /\ Len(SubSeq(s, n + 1, Len(s))) = IF n + 1 <= Len(s) THEN Len(s) - (n + 1) + 1 ELSE 0
      /\ \A i \in 1..Len(s) - (n + 1) + 1 : SubSeq(s, n + 1, Len(s))[i] = s[n + 1 + i - 1]
  <2>1. \A i \in n + 1 .. Len(s) : s[i] \in S
    BY <1>1, <1>2
  <2>2. n + 1 \in Int /\ Len(s) \in Int
    BY <1>1, <1>2
  <2> QED BY <2>1, <2>2, SubSeqProperties
<1>4. /\ SubSeq(s, 1, n) \in Seq(S)
      /\ Len(SubSeq(s, 1, n)) = IF 1 <= n THEN n - 1 + 1 ELSE 0
      /\ \A i \in 1..n - 1 + 1 : SubSeq(s, 1, n)[i] = s[1 + i - 1]
  <2>1. \A i \in 1..n : s[i] \in S
    BY <1>1, <1>2
  <2> QED BY <1>2, <2>1, SubSeqProperties
<1> QED BY <1>1, <1>2, <1>3, <1>4 DEF Drop

\* The two parts of a sequence that is cut make it up again.
LEMMA CutAndJoined ==
    ASSUME NEW S, NEW s \in Seq(S), NEW n \in 0..Len(s)
    PROVE  SubSeq(s, 1, n) \o Drop(s, n) = s
<1>1. Len(s) \in Nat /\ n \in Nat /\ n <= Len(s)
  BY LenProperties
<1>2. /\ Drop(s, n) \in Seq(S)
      /\ Len(Drop(s, n)) = Len(s) - n
      /\ \A i \in 1..Len(s) - n : Drop(s, n)[i] = s[n + i]
      /\ SubSeq(s, 1, n) \in Seq(S)
      /\ Len(SubSeq(s, 1, n)) = n
      /\ \A i \in 1..n : SubSeq(s, 1, n)[i] = s[i]
  BY DropProperties
<1> DEFINE a == SubSeq(s, 1, n)
           b == Drop(s, n)
<1>3. /\ a \o b \in Seq(S) /\ Len(a \o b) = Len(a) + Len(b)
      /\ \A i \in 1..Len(a) + Len(b) : (a \o b)[i] = IF i <= Len(a) THEN a[i] ELSE b[i - Len(a)]
  BY <1>2, ConcatProperties
<1> HIDE DEF a, b
<1>4. Len(a \o b) = Len(s)
  BY <1>1, <1>2, <1>3 DEF a, b
<1>5. \A i \in 1..Len(s) : (a \o b)[i] = s[i]
  <2> SUFFICES ASSUME NEW i \in 1..Len(s) PROVE (a \o b)[i] = s[i]
    OBVIOUS
  <2>1. (a \o b)[i] = IF i <= n THEN a[i] ELSE b[i - n]
    BY <1>1, <1>2, <1>3 DEF a, b
  <2>2. CASE i <= n
    BY <1>1, <1>2, <2>1, <2>2 DEF a
  <2>3. CASE ~(i <= n)
    <3>1. i - n \in 1..Len(s) - n /\ n + (i - n) = i
      BY <1>1, <2>3
    <3> QED BY <1>2, <2>1, <2>3, <3>1 DEF b
  <2> QED BY <2>2, <2>3
<1>6. a \o b = s
  BY <1>3, <1>4, <1>5, SeqEqual
<1> QED BY <1>6 DEF a, b

\* A cut inside the first of two sequences leaves the second alone.
LEMMA DropOfConcat ==
    ASSUME NEW S, NEW s \in Seq(S), NEW t \in Seq(S), NEW n \in 0..Len(s)
    PROVE  Drop(s \o t, n) = Drop(s, n) \o t
<1>1. Len(s) \in Nat /\ Len(t) \in Nat /\ n \in Nat /\ n <= Len(s)
  BY LenProperties
<1>2. /\ Drop(s, n) \in Seq(S) /\ Len(Drop(s, n)) = Len(s) - n
      /\ \A i \in 1..Len(s) - n : Drop(s, n)[i] = s[n + i]
  BY DropProperties
<1>3. /\ s \o t \in Seq(S) /\ Len(s \o t) = Len(s) + Len(t)
      /\ \A i \in 1..Len(s) + Len(t) : (s \o t)[i] = IF i <= Len(s) THEN s[i] ELSE t[i - Len(s)]
  BY ConcatProperties
<1>4. n \in 0..Len(s \o t)
  BY <1>1, <1>3
<1>5. /\ Drop(s \o t, n) \in Seq(S) /\ Len(Drop(s \o t, n)) = Len(s \o t) - n
      /\ \A i \in 1..Len(s \o t) - n : Drop(s \o t, n)[i] = (s \o t)[n + i]
  BY <1>3, <1>4, DropProperties
<1> DEFINE d == Drop(s, n)
           e == Drop(s \o t, n)
<1>6. /\ d \o t \in Seq(S) /\ Len(d \o t) = Len(d) + Len(t)
      /\ \A i \in 1..Len(d) + Len(t) : (d \o t)[i] = IF i <= Len(d) THEN d[i] ELSE t[i - Len(d)]
  BY <1>2, ConcatProperties
<1> HIDE DEF d, e
<1>7. Len(e) = Len(d \o t) /\ Len(e) = Len(s) + Len(t) - n
  BY <1>1, <1>2, <1>3, <1>5, <1>6 DEF d, e
<1>8. ASSUME NEW i \in 1..Len(e)
      PROVE  e[i] = (d \o t)[i]
  <2>1. /\ i \in Nat /\ 1 <= i /\ i <= Len(s) + Len(t) - n /\ n + i \in 1..Len(s) + Len(t)
    BY <1>1, <1>7
  <2>2. e[i] = IF n + i <= Len(s) THEN s[n + i] ELSE t[n + i - Len(s)]
    BY <1>1, <1>3, <1>5, <2>1 DEF e
  <2>3. (d \o t)[i] = IF i <= Len(s) - n THEN d[i] ELSE t[i - (Len(s) - n)]
    BY <1>1, <1>2, <1>6, <2>1 DEF d
  <2>4. CASE n + i <= Len(s)
    <3>1. i \in 1..Len(s) - n
      BY <1>1, <2>1, <2>4
    <3> QED BY <1>1, <1>2, <2>1, <2>2, <2>3, <2>4, <3>1 DEF d
  <2>5. CASE ~(n + i <= Len(s))
    <3>1. ~(i <= Len(s) - n) /\ n + i - Len(s) = i - (Len(s) - n)
      BY <1>1, <2>1, <2>5
    <3> QED BY <2>2, <2>3, <2>5, <3>1
  <2> QED BY <2>4, <2>5
<1>9. e = d \o t
  BY <1>5, <1>6, <1>7, <1>8, SeqEqual DEF e
<1> QED BY <1>9 DEF d, e

LEMMA DropAll ==
    ASSUME NEW S, NEW s \in Seq(S)
    PROVE  Drop(s, Len(s)) = <<>> /\ Drop(s, 0) = s
<1>1. Len(s) \in Nat
  BY LenProperties
<1>2. Drop(s, Len(s)) = <<>>
  BY <1>1, SubSeqEmpty DEF Drop
<1>3. Drop(s, 0) = s
  BY <1>1, SubSeqFull DEF Drop
<1> QED BY <1>2, <1>3
-----------------------------------------------------------------------------
\* Frames.

\* What Write appends for a payload.
Encoded(p) == Prefix(Len(p)) \o p

\* What HandlerParse takes for the payload.
PayloadOf(buf) == SubSeq(buf, PrefixLen + 1, PrefixLen + FrameLen(buf))

FrameEnd(buf) == PrefixLen + FrameLen(buf)

\* The prefix of a length is PrefixLen bytes.
LEMMA PrefixType ==
    ASSUME NEW n \in Nat
    PROVE  Prefix(n) \in Seq(Byte) /\ Len(Prefix(n)) = PrefixLen
<1>1. PrefixLen \in Nat /\ Base \in Nat \ {0}
  BY FramingAssumption
<1>2. ASSUME NEW i \in 1..PrefixLen
      PROVE  Shifted(n)[PrefixLen - i] % Base \in Byte
  <2>1. PrefixLen - i \in 0..PrefixLen
    BY <1>1
  <2>2. Shifted(n)[PrefixLen - i] \in Nat
    BY <2>1, ShiftedProperties
  <2> HIDE DEF Byte
  <2> QED BY <1>1, <2>2 DEF Byte
<1>3. Prefix(n) \in [1..PrefixLen -> Byte]
  BY <1>2 DEF Prefix
<1> QED BY <1>1, <1>3

\* A complete frame lies within the buffer, with what follows or without.
LEMMA CompleteProperties ==
    ASSUME NEW s \in Seq(Byte), NEW t \in Seq(Byte), Len(s) >= PrefixLen
    PROVE  /\ FrameLen(s) \in Nat
           /\ FrameLen(s \o t) = FrameLen(s)
           /\ IsComplete(s) =>
                 /\ IsComplete(s \o t)
                 /\ FrameEnd(s) \in 1..Len(s)
                 /\ PayloadOf(s) \in Seq(Byte)
                 /\ PayloadOf(s \o t) = PayloadOf(s)
                 /\ Drop(s, FrameEnd(s)) \in Seq(Byte)
                 /\ Len(Drop(s, FrameEnd(s))) < Len(s)
                 /\ Drop(s \o t, FrameEnd(s \o t)) = Drop(s, FrameEnd(s)) \o t
<1>1. /\ PrefixLen \in Nat \ {0} /\ Len(s) \in Nat /\ Len(t) \in Nat
      /\ \A i \in 1..Len(s) : s[i] \in Byte
  BY FramingAssumption, LenProperties, ElementOfSeq
<1>2. /\ s \o t \in Seq(Byte) /\ Len(s \o t) = Len(s) + Len(t)
      /\ \A i \in 1..Len(s) : (s \o t)[i] = s[i]
  <2>1. /\ s \o t \in Seq(Byte) /\ Len(s \o t) = Len(s) + Len(t)
        /\ \A i \in 1..Len(s) + Len(t) : (s \o t)[i] = IF i <= Len(s) THEN s[i] ELSE t[i - Len(s)]
    BY ConcatProperties
  <2> QED BY <1>1, <2>1
<1>3. \A i \in 1..PrefixLen : /\ s[i] \in Byte /\ (s \o t)[i] \in Byte
                              /\ s[i] = (s \o t)[i]
  BY <1>1, <1>2
<1>4. FrameLen(s) \in Nat /\ FrameLen(s \o t) = FrameLen(s)
  <2>1. FrameLen(s) \in Nat
    BY <1>3, FrameLenType
  <2>2. FrameLen(s) = FrameLen(s \o t)
    BY <1>3, FrameLenOfPrefix
  <2> QED BY <2>1, <2>2
<1>5. ASSUME IsComplete(s)
      PROVE  /\ IsComplete(s \o t)
             /\ FrameEnd(s) \in 1..Len(s)
             /\ FrameEnd(s \o t) = FrameEnd(s)
  BY <1>1, <1>2, <1>4, <1>5 DEF IsComplete, FrameEnd
<1>6. ASSUME IsComplete(s)
      PROVE  PayloadOf(s) \in Seq(Byte) /\ PayloadOf(s \o t) = PayloadOf(s)
  <2> DEFINE e == FrameEnd(s)
             b == PrefixLen + 1
  <2>1. b \in 1 .. Len(s) + 1 /\ e \in 1..Len(s) /\ PayloadOf(s) = SubSeq(s, b, e)
        /\ PayloadOf(s \o t) = SubSeq(s \o t, b, e)
    BY <1>1, <1>4, <1>5, <1>6 DEF FrameEnd, PayloadOf
  <2> HIDE DEF e, b
  <2>2. SubSeq(s, b, e) \in Seq(Byte)
    <3>1. b \in Int /\ e \in Int /\ \A i \in b..e : s[i] \in Byte
      BY <1>1, <2>1
    <3> QED BY <3>1, SubSeqProperties
  <2>3. CASE b <= e
    <3>1. b \in 1..Len(s)
      BY <1>1, <2>1, <2>3
    <3> QED BY <2>1, <2>2, <3>1, SubSeqOfConcat1
  <2>4. CASE e < b
    <3>1. b \in Int /\ e \in Int
      BY <1>1, <2>1
    <3>2. SubSeq(s, b, e) = <<>> /\ SubSeq(s \o t, b, e) = <<>>
      BY <2>4, <3>1, SubSeqEmpty
    <3> QED BY <2>1, <2>2, <3>2
  <2> QED BY <1>1, <2>1, <2>3, <2>4
<1>7. ASSUME IsComplete(s)
      PROVE  /\ Drop(s, FrameEnd(s)) \in Seq(Byte)
             /\ Len(Drop(s, FrameEnd(s))) < Len(s)
             /\ Drop(s \o t, FrameEnd(s \o t)) = Drop(s, FrameEnd(s)) \o t
  <2>1. FrameEnd(s) \in 0..Len(s) /\ FrameEnd(s) \in 1..Len(s)
    BY <1>1, <1>5, <1>7
  <2>2. Drop(s, FrameEnd(s)) \in Seq(Byte) /\ Len(Drop(s, FrameEnd(s))) = Len(s) - FrameEnd(s)
    BY <2>1, DropProperties
  <2>3. Drop(s \o t, FrameEnd(s)) = Drop(s, FrameEnd(s)) \o t
    BY <2>1, DropOfConcat
  <2> QED BY <1>1, <1>5, <1>7, <2>1, <2>2, <2>3
<1> QED BY <1>4, <1>5, <1>6, <1>7

\* What is read from the front of the bytes is what was written there.
LEMMA BytesAreRead ==
    ASSUME NEW p \in Seq(Byte), Shifted(Len(p))[PrefixLen] = 0, NEW t \in Seq(Byte)
    PROVE  /\ Len(p) \in Nat
           /\ Encoded(p) \in Seq(Byte) /\ Len(Encoded(p)) = PrefixLen + Len(p)
           /\ Encoded(p) # <<>>
           /\ Encoded(p) \o t \in Seq(Byte)
           /\ IsComplete(Encoded(p) \o t)
           /\ FrameLen(Encoded(p) \o t) = Len(p)
           /\ PayloadOf(Encoded(p) \o t) = p
           /\ Drop(Encoded(p) \o t, FrameEnd(Encoded(p) \o t)) = t
<1> DEFINE s == Encoded(p)
<1>1. PrefixLen \in Nat \ {0} /\ Len(p) \in Nat /\ Len(t) \in Nat
  BY FramingAssumption, LenProperties
<1>2. PICK x \in Seq(Byte) : x = Prefix(Len(p)) /\ Len(x) = PrefixLen
  BY <1>1, PrefixType
<1>3. /\ s \in Seq(Byte) /\ Len(s) = PrefixLen + Len(p) /\ s = x \o p
      /\ \A i \in 1..PrefixLen : s[i] = x[i]
  <2>1. /\ x \o p \in Seq(Byte) /\ Len(x \o p) = Len(x) + Len(p)
        /\ \A i \in 1..Len(x) + Len(p) : (x \o p)[i] = IF i <= Len(x) THEN x[i] ELSE p[i - Len(x)]
    BY ConcatProperties
  <2>2. s = x \o p
    BY <1>2 DEF Encoded
  <2> QED BY <1>1, <1>2, <2>1, <2>2
<1>4. s # <<>>
  BY <1>1, <1>3, EmptySeq
<1>5. FrameLen(s) = Len(p)
  BY <1>1, <1>2, <1>3, PrefixSaysLength, ZenonT(40)
<1> HIDE DEF s
<1>6. Len(s) >= PrefixLen /\ IsComplete(s) /\ FrameEnd(s) = Len(s)
  BY <1>1, <1>3, <1>5 DEF IsComplete, FrameEnd
<1>7. PayloadOf(s) = p
  <2>1. PayloadOf(s) = Drop(x \o p, PrefixLen)
    BY <1>3, <1>5 DEF PayloadOf, Drop
  <2>2. Drop(x, PrefixLen) = <<>>
    BY <1>2, DropAll
  <2>3. PrefixLen \in 0..Len(x)
    BY <1>1, <1>2
  <2>4. Drop(x \o p, PrefixLen) = <<>> \o p
    <3>1. Drop(x \o p, PrefixLen) = Drop(x, PrefixLen) \o p
      BY <2>3, DropOfConcat
    <3> QED BY <2>2, <3>1
  <2> QED BY <1>1, <2>1, <2>4, ConcatEmptySeq
<1>8. Drop(s, FrameEnd(s)) = <<>>
  BY <1>3, <1>6, DropAll
<1>9. /\ FrameLen(s \o t) = FrameLen(s) /\ IsComplete(s \o t)
      /\ PayloadOf(s \o t) = PayloadOf(s)
      /\ Drop(s \o t, FrameEnd(s \o t)) = Drop(s, FrameEnd(s)) \o t
  BY <1>3, <1>6, CompleteProperties
<1>10. <<>> \o t = t /\ s \o t \in Seq(Byte)
  BY <1>3, ConcatEmptySeq, ConcatProperties
<1> QED BY <1>1, <1>3, <1>4, <1>5, <1>7, <1>8, <1>9, <1>10 DEF s

\* What is written for a payload is read as one frame with that payload.
LEMMA EncodedIsRead ==
    ASSUME NEW p \in Payload, NEW t \in Seq(Byte)
    PROVE  /\ p \in Seq(Byte) /\ Len(p) \in Nat
           /\ Encoded(p) \in Seq(Byte) /\ Len(Encoded(p)) = PrefixLen + Len(p)
           /\ Encoded(p) # <<>>
           /\ Encoded(p) \o t \in Seq(Byte)
           /\ IsComplete(Encoded(p) \o t)
           /\ FrameLen(Encoded(p) \o t) = Len(p)
           /\ PayloadOf(Encoded(p) \o t) = p
           /\ Drop(Encoded(p) \o t, FrameEnd(Encoded(p) \o t)) = t
<1>1. p \in Seq(Byte) /\ Shifted(Len(p))[PrefixLen] = 0
  BY FramingAssumption
<1> QED BY <1>1, BytesAreRead

\* The bytes that are whole frames of payloads and nothing else: what is left
\* behind each frame, down to nothing, is in the same set.
FrameByFrame(S) == \A s \in S : s = <<>> \/ \E p \in Payload, t \in S : s = Encoded(p) \o t

WholeFrames == {s \in Seq(Byte) : \E S \in SUBSET Seq(Byte) : s \in S /\ FrameByFrame(S)}

\* The empty sequence is whole frames: none.
LEMMA NoFrames == <<>> \in WholeFrames
<1>1. <<>> \in Seq(Byte) /\ {<<>>} \in SUBSET Seq(Byte)
  OBVIOUS
<1>2. <<>> \in {<<>>} /\ FrameByFrame({<<>>})
  BY DEF FrameByFrame
<1> QED BY <1>1, <1>2 DEF WholeFrames

\* Whole frames that are not empty start with one, and go on with whole frames.
LEMMA FirstFrame ==
    ASSUME NEW s \in WholeFrames, s # <<>>
    PROVE  \E p \in Payload, t \in WholeFrames : s = Encoded(p) \o t
<1>1. PICK S \in SUBSET Seq(Byte) : s \in S /\ FrameByFrame(S)
  BY DEF WholeFrames
<1>2. PICK p \in Payload, t \in S : s = Encoded(p) \o t
  BY <1>1 DEF FrameByFrame
<1>3. t \in WholeFrames
  BY <1>1, <1>2 DEF WholeFrames
<1> QED BY <1>2, <1>3

\* A frame behind whole frames makes whole frames.
LEMMA LastFrame ==
    ASSUME NEW s \in WholeFrames, NEW p \in Payload
    PROVE  s \o Encoded(p) \in WholeFrames
<1>1. PICK S \in SUBSET Seq(Byte) : s \in S /\ FrameByFrame(S)
  BY DEF WholeFrames
<1>2. Encoded(p) \in Seq(Byte) /\ <<>> \in Seq(Byte)
  <2>1. <<>> \in Seq(Byte)
    OBVIOUS
  <2> QED BY <2>1, EncodedIsRead
<1> DEFINE R == {t \o Encoded(p) : t \in S} \cup {<<>>}
<1>3. R \in SUBSET Seq(Byte)
  BY <1>2, ConcatProperties, ZenonT(40)
<1>4. ASSUME NEW r \in R, r # <<>>
      PROVE  \E q \in Payload, u \in R : r = Encoded(q) \o u
  <2>1. PICK t \in S : r = t \o Encoded(p)
    BY <1>4
  <2>2. CASE t = <<>>
    <3>1. r = Encoded(p) \o <<>>
      BY <1>2, <2>1, <2>2, ConcatEmptySeq
    <3> QED BY <3>1
  <2>3. CASE t # <<>>
    <3>1. PICK q \in Payload, u \in S : t = Encoded(q) \o u
      BY <1>1, <2>3 DEF FrameByFrame
    <3>2. u \in Seq(Byte) /\ Encoded(q) \in Seq(Byte)
      BY EncodedIsRead
    <3>3. (Encoded(q) \o u) \o Encoded(p) = Encoded(q) \o (u \o Encoded(p))
      BY <1>2, <3>2, ConcatAssociative, SMTT(40)
    <3>4. u \o Encoded(p) \in R
      OBVIOUS
    <3> QED BY <2>1, <3>1, <3>3, <3>4
  <2> QED BY <2>2, <2>3
<1>5. FrameByFrame(R)
  BY <1>4 DEF FrameByFrame
<1>6. s \o Encoded(p) \in R
  BY <1>1
<1> HIDE DEF R
<1> QED BY <1>3, <1>5, <1>6 DEF WholeFrames
-----------------------------------------------------------------------------
\* What the handler would make of the bytes.
LEMMA FramesIsRecursive ==
    Frames = [bytes \in Seq(Byte) |->
                 IF IsComplete(bytes) THEN <<PayloadOf(bytes)>> \o Frames[Drop(bytes, FrameEnd(bytes))]
                                      ELSE <<>>]
<1> DEFINE Eq(f) == f = [bytes \in Seq(Byte) |->
                            IF IsComplete(bytes)
                              THEN <<PayloadOf(bytes)>> \o f[Drop(bytes, FrameEnd(bytes))]
                              ELSE <<>>]
           S == Seq(Byte)
           V == Seq(Seq(Byte))
           size == [s \in S |-> Len(s)]
           rest(s) == IF IsComplete(s) THEN Drop(s, FrameEnd(s)) ELSE s
           next == [s \in S |-> rest(s)]
           step == [s \in S |-> [v \in V |-> IF IsComplete(s) THEN <<PayloadOf(s)>> \o v ELSE <<>>]]
<1>1. ASSUME NEW s \in S, IsComplete(s)
      PROVE  /\ Drop(s, FrameEnd(s)) \in S /\ Len(Drop(s, FrameEnd(s))) < Len(s)
             /\ PayloadOf(s) \in Seq(Byte)
  <2>1. Len(s) >= PrefixLen
    BY <1>1 DEF IsComplete
  <2> QED BY <1>1, <2>1, CompleteProperties
<1>2. V # {} /\ size \in [S -> Nat] /\ next \in [S -> S]
  <2>1. \A s \in S : Len(s) \in Nat
    BY LenProperties
  <2>2. size \in [S -> Nat]
    <3> HIDE DEF S
    <3> QED BY <2>1
  <2>3. next \in [S -> S]
    <3>1. \A s \in S : rest(s) \in S
      <4> HIDE DEF S
      <4> QED BY <1>1
    <3> HIDE DEF S, rest
    <3> QED BY <3>1
  <2>4. <<>> \in V
    OBVIOUS
  <2> HIDE DEF S, V, size, next
  <2> QED BY <2>2, <2>3, <2>4
<1>3. step \in [S -> [V -> V]]
  <2>1. ASSUME NEW s \in S, NEW v \in V
        PROVE  (IF IsComplete(s) THEN <<PayloadOf(s)>> \o v ELSE <<>>) \in V
    <3>1. CASE IsComplete(s)
      <4>1. <<PayloadOf(s)>> \in V
        BY <1>1, <3>1
      <4>2. <<PayloadOf(s)>> \o v \in V
        BY <4>1, ConcatProperties
      <4> QED BY <3>1, <4>2
    <3>2. CASE ~IsComplete(s)
      BY <3>2
    <3> QED BY <3>1, <3>2
  <2> HIDE DEF S, V
  <2> QED BY <2>1
<1>4. WellFounded(S, V, size, next, step)
  <2> SUFFICES ASSUME NEW s \in S
               PROVE  \/ size[next[s]] < size[s]
                      \/ \A u, v \in V : step[s][u] = step[s][v]
    BY DEF WellFounded
  <2>1. CASE IsComplete(s)
    BY <1>1, <2>1
  <2>2. CASE ~IsComplete(s)
    BY <2>2
  <2> QED BY <2>1, <2>2
<1>5. PICK f \in [S -> V] : \A s \in S : f[s] = step[s][f[next[s]]]
  <2>1. HasSolution(S, V, next, step)
    <3> HIDE DEF S, V, size, next, step
    <3> QED BY <1>2, <1>3, <1>4, RecursionHasSolution
  <2> HIDE DEF S, V, size, next, step
  <2> QED BY <2>1 DEF HasSolution
<1>6. Eq(f)
  <2> DEFINE e(s) == IF IsComplete(s) THEN <<PayloadOf(s)>> \o f[Drop(s, FrameEnd(s))] ELSE <<>>
  <2>1. ASSUME NEW s \in S
        PROVE  f[s] = e(s)
    <3>1. f[s] = step[s][f[next[s]]] /\ next[s] \in S /\ f[next[s]] \in V
      <4> HIDE DEF S, V, next, step
      <4> QED BY <1>2, <1>5
    <3>2. f[s] = IF IsComplete(s) THEN <<PayloadOf(s)>> \o f[next[s]] ELSE <<>>
      <4> HIDE DEF S, V, next
      <4> QED BY <3>1
    <3>3. IsComplete(s) => next[s] = Drop(s, FrameEnd(s))
      <4> HIDE DEF S
      <4> QED OBVIOUS
    <3> HIDE DEF S, V, next, step
    <3> QED BY <3>2, <3>3
  <2>2. f = [s \in S |-> e(s)]
    <3> HIDE DEF S, V, e
    <3> QED BY <2>1
  <2> QED BY <2>2
<1>7. Frames = CHOOSE g : Eq(g)
  BY DEF Frames, PayloadOf, FrameEnd
<1>8. Eq(CHOOSE g : Eq(g))
  <2> HIDE DEF Eq
  <2> QED BY <1>6
<1> QED BY <1>7, <1>8

\* No bytes, no frame.
LEMMA FramesOfNothing == Frames[<<>>] = <<>>
<1>1. <<>> \in Seq(Byte) /\ ~IsComplete(<<>>)
  BY FramingAssumption DEF IsComplete
<1> QED BY <1>1, FramesIsRecursive

\* The frame in front is parsed first, whatever follows.
LEMMA FramesBehindFirst ==
    ASSUME NEW s \in Seq(Byte), NEW t \in Seq(Byte), IsComplete(s)
    PROVE  Frames[s \o t] = <<PayloadOf(s)>> \o Frames[Drop(s, FrameEnd(s)) \o t]
<1>1. Len(s) >= PrefixLen
  BY DEF IsComplete
<1>2. /\ IsComplete(s \o t) /\ PayloadOf(s \o t) = PayloadOf(s)
      /\ Drop(s \o t, FrameEnd(s \o t)) = Drop(s, FrameEnd(s)) \o t
  BY <1>1, CompleteProperties
<1>3. s \o t \in Seq(Byte)
  BY ConcatProperties
<1> DEFINE e(b) == IF IsComplete(b) THEN <<PayloadOf(b)>> \o Frames[Drop(b, FrameEnd(b))]
                                    ELSE <<>>
<1>4. Frames[s \o t] = e(s \o t)
  <2>1. Frames = [b \in Seq(Byte) |-> e(b)]
    BY FramesIsRecursive
  <2> HIDE DEF e
  <2> QED BY <1>3, <2>1
<1>5. e(s \o t) = <<PayloadOf(s \o t)>> \o Frames[Drop(s \o t, FrameEnd(s \o t))]
  BY <1>2
<1> HIDE DEF e
<1> QED BY <1>2, <1>4, <1>5

\* A payload written in front comes out first.
LEMMA FramesOfEncoded ==
    ASSUME NEW p \in Payload, NEW t \in Seq(Byte)
    PROVE  Frames[Encoded(p) \o t] = <<p>> \o Frames[t]
<1>1. PICK s \in Seq(Byte) : s = Encoded(p) \o t
  BY EncodedIsRead
<1>2. IsComplete(s) /\ PayloadOf(s) = p /\ Drop(s, FrameEnd(s)) = t /\ <<>> \in Seq(Byte)
  BY <1>1, EncodedIsRead
<1>3. s \o <<>> = s /\ t \o <<>> = t
  BY ConcatEmptySeq
<1>4. Frames[s \o <<>>] = <<p>> \o Frames[t \o <<>>]
  BY <1>2, FramesBehindFirst
<1> QED BY <1>1, <1>3, <1>4

\* A payload written behind whole frames comes out last.
LEMMA FramesOfWhole ==
    ASSUME NEW s \in WholeFrames
    PROVE  /\ Frames[s] \in Seq(Payload)
           /\ \A p \in Payload : Frames[s \o Encoded(p)] = Append(Frames[s], p)
<1> DEFINE S == WholeFrames
           Good(u) == /\ Frames[u] \in Seq(Payload)
                      /\ \A p \in Payload : Frames[u \o Encoded(p)] = Append(Frames[u], p)
           T == {u \in S : ~Good(u)}
           size == [u \in S |-> Len(u)]
<1> SUFFICES ASSUME T # {} PROVE FALSE
  OBVIOUS
<1>1. S \in SUBSET Seq(Byte) /\ \A u \in S : Len(u) \in Nat
  BY LenProperties DEF WholeFrames
<1>2. size \in [S -> Nat] /\ T \in SUBSET S
  <2> HIDE DEF S
  <2> QED BY <1>1
<1>3. PICK u \in T : \A v \in T : size[u] <= size[v]
  <2> HIDE DEF S, T, size
  <2> QED BY <1>2, LeastOfSize
<1>4. u \in S /\ u \in Seq(Byte) /\ ~Good(u)
  <2> HIDE DEF S, Good
  <2> QED BY <1>1
<1>5. CASE u = <<>>
  <2>1. ASSUME NEW p \in Payload
        PROVE  Frames[u \o Encoded(p)] = Append(Frames[u], p)
    <3>1. <<>> \in Seq(Byte)
      OBVIOUS
    <3>2. Encoded(p) \in Seq(Byte) /\ Frames[Encoded(p) \o <<>>] = <<p>> \o Frames[<<>>]
      BY <3>1, EncodedIsRead, FramesOfEncoded
    <3>3. Encoded(p) \o <<>> = Encoded(p) /\ <<>> \o Encoded(p) = Encoded(p)
      BY <3>2, ConcatEmptySeq
    <3>4. Frames[Encoded(p)] = <<p>> \o <<>>
      BY <3>2, <3>3, FramesOfNothing
    <3>5. <<p>> \o <<>> = Append(<<>>, p)
      OBVIOUS
    <3> QED BY <1>5, <3>3, <3>4, <3>5, FramesOfNothing
  <2>2. Frames[u] \in Seq(Payload)
    BY <1>5, FramesOfNothing
  <2> QED BY <1>4, <2>1, <2>2
<1>6. CASE u # <<>>
  <2>1. PICK q \in Payload, v \in S : u = Encoded(q) \o v
    BY <1>4, <1>6, FirstFrame
  <2>2. /\ v \in Seq(Byte) /\ Encoded(q) \in Seq(Byte) /\ Len(v) \in Nat
        /\ Len(Encoded(q)) \in Nat \ {0}
    <3>1. v \in Seq(Byte)
      BY <1>1
    <3> QED BY <1>1, <3>1, EncodedIsRead, EmptySeq
  <2>3. Len(u) = Len(Encoded(q)) + Len(v)
    BY <2>1, <2>2, ConcatProperties
  <2>4. Good(v)
    <3>1. v \notin T
      <4>1. size[u] = Len(u) /\ size[v] = Len(v)
        BY <1>4
      <4>2. ~(size[u] <= size[v])
        BY <2>2, <2>3, <4>1
      <4> HIDE DEF T, size
      <4> QED BY <1>3, <4>2
    <3> HIDE DEF S, Good
    <3> QED BY <3>1
  <2>5. Frames[u] = <<q>> \o Frames[v]
    BY <2>1, <2>2, FramesOfEncoded
  <2>6. <<q>> \in Seq(Payload) /\ Frames[v] \in Seq(Payload)
    BY <2>4
  <2>7. Frames[u] \in Seq(Payload)
    BY <2>5, <2>6, ConcatProperties
  <2>8. ASSUME NEW p \in Payload
        PROVE  Frames[u \o Encoded(p)] = Append(Frames[u], p)
    <3>1. Encoded(p) \in Seq(Byte)
      BY <2>2, EncodedIsRead
    <3>2. (Encoded(q) \o v) \o Encoded(p) = Encoded(q) \o (v \o Encoded(p))
      BY <2>2, <3>1, ConcatAssociative
    <3>3. v \o Encoded(p) \in Seq(Byte)
      BY <2>2, <3>1, ConcatProperties
    <3>4. Frames[Encoded(q) \o (v \o Encoded(p))] = <<q>> \o Frames[v \o Encoded(p)]
      BY <3>3, FramesOfEncoded
    <3>5. Frames[v \o Encoded(p)] = Append(Frames[v], p)
      BY <2>4
    <3>6. <<q>> \o Append(Frames[v], p) = Append(<<q>> \o Frames[v], p)
      BY <2>6, AppendBehindHand
    <3> QED BY <2>1, <2>5, <3>2, <3>4, <3>5, <3>6
  <2> QED BY <1>4, <2>7, <2>8
<1> QED BY <1>5, <1>6

\* The handler takes the first payload as it was written, and leaves whole
\* frames behind.
LEMMA TakesFirstFrame ==
    ASSUME NEW s \in Seq(Byte), NEW t \in Seq(Byte), s \o t \in WholeFrames, IsComplete(s)
    PROVE  /\ PayloadOf(s) \in Payload
           /\ Drop(s, FrameEnd(s)) \in Seq(Byte)
           /\ Drop(s, FrameEnd(s)) \o t \in WholeFrames
           /\ Frames[s \o t] = <<PayloadOf(s)>> \o Frames[Drop(s, FrameEnd(s)) \o t]
<1>1. Len(s) >= PrefixLen /\ PrefixLen \in Nat \ {0} /\ Len(s) \in Nat /\ Len(t) \in Nat
  BY FramingAssumption, LenProperties DEF IsComplete
<1>2. /\ IsComplete(s \o t) /\ PayloadOf(s \o t) = PayloadOf(s)
      /\ Drop(s, FrameEnd(s)) \in Seq(Byte)
      /\ Drop(s \o t, FrameEnd(s \o t)) = Drop(s, FrameEnd(s)) \o t
  BY <1>1, CompleteProperties
<1>3. s \o t # <<>>
  BY <1>1, ConcatEqualIffEmpty
<1>4. PICK p \in Payload, u \in WholeFrames : s \o t = Encoded(p) \o u
  BY <1>3, FirstFrame
<1>5. u \in Seq(Byte)
  BY DEF WholeFrames
<1>6. /\ PayloadOf(Encoded(p) \o u) = p
      /\ Drop(Encoded(p) \o u, FrameEnd(Encoded(p) \o u)) = u
  BY <1>5, EncodedIsRead
<1>7. Frames[s \o t] = <<PayloadOf(s)>> \o Frames[Drop(s, FrameEnd(s)) \o t]
  BY FramesBehindFirst
<1> QED BY <1>2, <1>4, <1>6, <1>7

\* What the handler cannot parse yet is shorter than the frame it belongs to.
LEMMA IncompleteIsShort ==
    ASSUME NEW s \in Seq(Byte), NEW t \in Seq(Byte), s \o t \in WholeFrames, ~IsComplete(s)
    PROVE  /\ s # <<>> => \E p \in Payload : Len(s) < PrefixLen + Len(p)
           /\ t = <<>> => s = <<>>
<1> SUFFICES ASSUME s # <<>>
             PROVE  t # <<>> /\ \E p \in Payload : Len(s) < PrefixLen + Len(p)
  OBVIOUS
<1>1. PrefixLen \in Nat \ {0} /\ Len(s) \in Nat
  BY FramingAssumption, LenProperties
<1>2. s \o t # <<>>
  BY ConcatEqualIffEmpty
<1>3. PICK p \in Payload, u \in WholeFrames : s \o t = Encoded(p) \o u
  BY <1>2, FirstFrame
<1>4. u \in Seq(Byte)
  BY DEF WholeFrames
<1>5. Len(p) \in Nat /\ IsComplete(Encoded(p) \o u) /\ FrameLen(Encoded(p) \o u) = Len(p)
  BY <1>4, EncodedIsRead
<1>6. t # <<>>
  <2>1. s \o <<>> = s
    BY ConcatEmptySeq
  <2> QED BY <1>3, <1>5, <2>1
<1>7. CASE Len(s) < PrefixLen
  BY <1>1, <1>5, <1>6, <1>7
<1>8. CASE ~(Len(s) < PrefixLen)
  <2>1. Len(s) >= PrefixLen
    BY <1>1, <1>8
  <2>2. FrameLen(s) = Len(p)
    BY <1>3, <1>5, <2>1, CompleteProperties, ZenonT(40)
  <2>3. Len(s) < PrefixLen + Len(p)
    BY <1>1, <1>5, <2>1, <2>2 DEF IsComplete
  <2> QED BY <1>6, <2>3
<1> QED BY <1>7, <1>8
-----------------------------------------------------------------------------
\* The inductive invariant: what is under way is whole frames, whoever has
\* their bytes.
Bytes == messageBuf \o pipe \o toWrite

FramingInv == /\ FramingTypeOK
              /\ Bytes \in WholeFrames
              /\ stream = "shutdown" => toWrite = <<>>
              /\ handler = "reading" => ~IsComplete(messageBuf)
              /\ handler = "ended" => stream # "open"

LEMMA FramingInitInv == FramingInit => FramingInv
<1> SUFFICES ASSUME FramingInit PROVE FramingInv
  OBVIOUS
<1>1. <<>> \in Seq(Byte) /\ <<>> \o <<>> = <<>>
  BY ConcatEmptySeq
<1>2. Bytes \in WholeFrames
  BY <1>1, NoFrames DEF Bytes, FramingInit
<1>3. FramingTypeOK
  BY FramingAssumption DEF FramingTypeOK, FramingInit
<1>4. ~IsComplete(<<>>)
  BY FramingAssumption DEF IsComplete
<1> QED BY <1>2, <1>3, <1>4 DEF FramingInv, FramingInit

\* What each action does to the bytes under way.
LEMMA BytesWritten ==
    ASSUME FramingTypeOK, NEW p \in Payload, Write(p)
    PROVE  toWrite' \in Seq(Byte) /\ Bytes' = Bytes \o Encoded(p)
<1>1. messageBuf \in Seq(Byte) /\ pipe \in Seq(Byte) /\ <<>> \in Seq(Byte)
  BY DEF FramingTypeOK
<1>2. Encoded(p) \in Seq(Byte)
  BY <1>1, EncodedIsRead
<1>3. messageBuf \o pipe \in Seq(Byte)
  BY <1>1, ConcatProperties
<1>4. (messageBuf \o pipe) \o <<>> = messageBuf \o pipe
  BY <1>3, ConcatEmptySeq
<1>5. /\ toWrite = <<>> /\ toWrite' = Encoded(p)
      /\ messageBuf' = messageBuf /\ pipe' = pipe
  BY DEF Write, Encoded
<1> QED BY <1>2, <1>4, <1>5 DEF Bytes

\* Where three pieces are joined first makes no difference.
LEMMA Regrouped ==
    \A a, b, c \in Seq(Byte) : (a \o b) \o c = a \o (b \o c)
BY ConcatAssociative

\* A flush moves the cut between writer and connection only.
LEMMA BytesFlushed ==
    ASSUME FramingTypeOK, Flush
    PROVE  /\ toWrite' \in Seq(Byte) /\ pipe' \in Seq(Byte) /\ Len(pipe') <= Window
           /\ Bytes' = Bytes
<1>1. /\ messageBuf \in Seq(Byte) /\ pipe \in Seq(Byte) /\ toWrite \in Seq(Byte)
  BY DEF FramingTypeOK
<1>l. Len(pipe) \in Nat /\ Len(toWrite) \in Nat
  BY <1>1, LenProperties
<1>2. PICK n \in 1..Len(toWrite) : /\ Len(pipe) + n <= Window
                                   /\ pipe' = pipe \o SubSeq(toWrite, 1, n)
                                   /\ toWrite' = Drop(toWrite, n)
  BY DEF Flush
<1>3. n \in 0..Len(toWrite) /\ n \in Nat
  BY <1>l
<1>4. PICK a \in Seq(Byte), b \in Seq(Byte) :
          a = SubSeq(toWrite, 1, n) /\ b = Drop(toWrite, n) /\ Len(a) = n
  BY <1>1, <1>3, DropProperties
<1>5. a \o b = toWrite
  BY <1>1, <1>3, <1>4, CutAndJoined
<1>6. messageBuf' = messageBuf /\ pipe' = pipe \o a /\ toWrite' = b
  BY <1>2, <1>4 DEF Flush
<1>7. /\ pipe \o a \in Seq(Byte) /\ Len(pipe \o a) = Len(pipe) + Len(a)
      /\ messageBuf \o pipe \in Seq(Byte)
  BY <1>1, ConcatProperties
<1>8. messageBuf \o (pipe \o a) = (messageBuf \o pipe) \o a
  BY <1>1, Regrouped, ZenonT(40)
<1>9. ((messageBuf \o pipe) \o a) \o b = (messageBuf \o pipe) \o (a \o b)
  BY <1>7, Regrouped
<1>10. Bytes' = Bytes
  BY <1>5, <1>6, <1>8, <1>9 DEF Bytes
<1> QED BY <1>2, <1>4, <1>6, <1>7, <1>10

\* A read moves the cut between connection and buffer only.
LEMMA BytesRead ==
    ASSUME FramingTypeOK, HandlerRead
    PROVE  /\ messageBuf' \in Seq(Byte) /\ pipe' \in Seq(Byte) /\ Len(pipe') <= Window
           /\ Bytes' = Bytes
<1>1. /\ messageBuf \in Seq(Byte) /\ pipe \in Seq(Byte) /\ toWrite \in Seq(Byte)
  BY DEF FramingTypeOK
<1>l. Len(pipe) \in Nat /\ Len(pipe) <= Window /\ Window \in Nat
  BY <1>1, FramingAssumption, LenProperties DEF FramingTypeOK
<1>2. PICK n \in 1..Len(pipe) : /\ messageBuf' = messageBuf \o SubSeq(pipe, 1, n)
                                /\ pipe' = Drop(pipe, n)
  BY DEF HandlerRead
<1>3. n \in 0..Len(pipe) /\ n \in Nat
  BY <1>l
<1>4. PICK a \in Seq(Byte), b \in Seq(Byte) :
          a = SubSeq(pipe, 1, n) /\ b = Drop(pipe, n) /\ Len(b) = Len(pipe) - n
  <2>1. /\ SubSeq(pipe, 1, n) \in Seq(Byte) /\ Drop(pipe, n) \in Seq(Byte)
        /\ Len(Drop(pipe, n)) = Len(pipe) - n
    BY <1>1, <1>3, DropProperties
  <2> QED BY <2>1
<1>5. a \o b = pipe
  BY <1>1, <1>3, <1>4, CutAndJoined
<1>6. messageBuf' = messageBuf \o a /\ pipe' = b /\ toWrite' = toWrite
  BY <1>2, <1>4 DEF HandlerRead
<1>7. messageBuf \o a \in Seq(Byte)
  BY <1>1, ConcatProperties
<1>8. (messageBuf \o a) \o b = messageBuf \o (a \o b)
  BY <1>1, Regrouped, ZenonT(40)
<1>9. Bytes' = Bytes
  BY <1>5, <1>6, <1>8 DEF Bytes
<1>10. Len(b) <= Window
  BY <1>l, <1>3, <1>4
<1> QED BY <1>6, <1>7, <1>9, <1>10

\* Parsing takes one whole frame from the front of all bytes.
LEMMA BytesParsed ==
    ASSUME FramingInv, HandlerParse
    PROVE  /\ PayloadOf(messageBuf) \in Payload
           /\ messageBuf' \in Seq(Byte)
           /\ received' = IF PayloadOf(messageBuf) \in Undecodable
                            THEN received ELSE Append(received, PayloadOf(messageBuf))
           /\ Bytes' \in WholeFrames
           /\ Frames[Bytes] = <<PayloadOf(messageBuf)>> \o Frames[Bytes']
<1>1. /\ messageBuf \in Seq(Byte) /\ pipe \in Seq(Byte) /\ toWrite \in Seq(Byte)
      /\ Bytes \in WholeFrames
  BY DEF FramingInv, FramingTypeOK
<1>2. PICK t \in Seq(Byte) : t = pipe \o toWrite
  BY <1>1, ConcatProperties
<1>3. PICK d : d = Drop(messageBuf, FrameEnd(messageBuf))
  OBVIOUS
<1>4. /\ IsComplete(messageBuf) /\ messageBuf' = d /\ pipe' = pipe /\ toWrite' = toWrite
      /\ received' = IF PayloadOf(messageBuf) \in Undecodable
                       THEN received ELSE Append(received, PayloadOf(messageBuf))
  BY <1>3 DEF HandlerParse, Drained, FrameEnd, PayloadOf
<1>5. Bytes = messageBuf \o t
  BY <1>1, <1>2, Regrouped, SMTT(40) DEF Bytes
<1>6. /\ PayloadOf(messageBuf) \in Payload /\ d \in Seq(Byte) /\ d \o t \in WholeFrames
      /\ Frames[messageBuf \o t] = <<PayloadOf(messageBuf)>> \o Frames[d \o t]
  BY <1>1, <1>3, <1>4, <1>5, TakesFirstFrame
<1>7. Bytes' = d \o t
  <2>1. (d \o pipe) \o toWrite = d \o (pipe \o toWrite)
    BY <1>1, <1>6, Regrouped, ZenonT(40)
  <2> QED BY <1>2, <1>4, <2>1 DEF Bytes
<1> QED BY <1>4, <1>5, <1>6, <1>7

\* A handler that ends leaves nothing.
LEMMA BytesForgotten ==
    ASSUME HandlerEnds
    PROVE  Bytes' = <<>>
<1>1. <<>> \in Seq(Byte)
  OBVIOUS
<1>2. <<>> \o <<>> = <<>>
  BY <1>1, ConcatEmptySeq
<1> QED BY <1>2 DEF HandlerEnds, Bytes
-----------------------------------------------------------------------------
LEMMA WriteKeepsInv ==
    ASSUME FramingInv, NEW p \in Payload, Write(p)
    PROVE  FramingInv'
<1>1. FramingTypeOK /\ Bytes \in WholeFrames
  BY DEF FramingInv
<1>2. toWrite' \in Seq(Byte) /\ Bytes' = Bytes \o Encoded(p)
  BY <1>1, BytesWritten
<1>3. Bytes' \in WholeFrames
  BY <1>1, <1>2, LastFrame
<1>4. /\ stream = "open"
      /\ UNCHANGED <<stream, pipe, handler, messageBuf, received>>
  BY DEF Write
<1>5. FramingTypeOK'
  BY <1>1, <1>2, <1>4 DEF FramingTypeOK
<1> QED BY <1>3, <1>4, <1>5 DEF FramingInv

LEMMA FlushKeepsInv ==
    ASSUME FramingInv, Flush
    PROVE  FramingInv'
<1>1. FramingTypeOK /\ Bytes \in WholeFrames
  BY DEF FramingInv
<1>2. /\ toWrite' \in Seq(Byte) /\ pipe' \in Seq(Byte) /\ Len(pipe') <= Window
      /\ Bytes' = Bytes
  BY <1>1, BytesFlushed
<1>3. stream = "open" /\ UNCHANGED <<stream, handler, messageBuf, received>>
  BY DEF Flush
<1>4. FramingTypeOK'
  BY <1>1, <1>2, <1>3 DEF FramingTypeOK
<1> QED BY <1>1, <1>2, <1>3, <1>4 DEF FramingInv

LEMMA HandlerReadKeepsInv ==
    ASSUME FramingInv, HandlerRead
    PROVE  FramingInv'
<1>1. FramingTypeOK /\ Bytes \in WholeFrames
  BY DEF FramingInv
<1>2. /\ messageBuf' \in Seq(Byte) /\ pipe' \in Seq(Byte) /\ Len(pipe') <= Window
      /\ Bytes' = Bytes
  BY <1>1, BytesRead
<1>3. handler' = "parsing" /\ UNCHANGED <<toWrite, stream, received>>
  BY DEF HandlerRead
<1>4. FramingTypeOK'
  BY <1>1, <1>2, <1>3 DEF FramingTypeOK
<1> QED BY <1>1, <1>2, <1>3, <1>4 DEF FramingInv

LEMMA HandlerParseKeepsInv ==
    ASSUME FramingInv, HandlerParse
    PROVE  FramingInv'
<1>1. FramingTypeOK
  BY DEF FramingInv
<1>2. /\ PayloadOf(messageBuf) \in Payload
      /\ messageBuf' \in Seq(Byte)
      /\ received' = IF PayloadOf(messageBuf) \in Undecodable
                       THEN received ELSE Append(received, PayloadOf(messageBuf))
      /\ Bytes' \in WholeFrames
  BY BytesParsed
<1>3. handler = "parsing" /\ UNCHANGED <<toWrite, stream, pipe, handler>>
  BY DEF HandlerParse
<1>4. received' \in Seq(Payload \ Undecodable)
  <2>1. received \in Seq(Payload \ Undecodable)
    BY <1>1 DEF FramingTypeOK
  <2>2. CASE PayloadOf(messageBuf) \in Undecodable
    BY <1>2, <2>1, <2>2
  <2>3. CASE PayloadOf(messageBuf) \notin Undecodable
    <3>1. PayloadOf(messageBuf) \in Payload \ Undecodable
      BY <1>2, <2>3
    <3>2. Append(received, PayloadOf(messageBuf)) \in Seq(Payload \ Undecodable)
      BY <2>1, <3>1, AppendProperties
    <3> QED BY <1>2, <2>3, <3>2
  <2> QED BY <2>2, <2>3
<1>5. FramingTypeOK'
  BY <1>1, <1>2, <1>3, <1>4 DEF FramingTypeOK
<1> QED BY <1>2, <1>3, <1>5 DEF FramingInv

LEMMA HandlerEndsKeepsInv ==
    ASSUME FramingInv, HandlerEnds
    PROVE  FramingInv'
<1>1. Bytes' \in WholeFrames
  BY BytesForgotten, NoFrames
<1>2. FramingTypeOK'
  <2>1. FramingTypeOK /\ <<>> \in Seq(Byte) /\ Len(<<>>) <= Window
    BY FramingAssumption DEF FramingInv
  <2>2. /\ handler' = "ended" /\ toWrite' = <<>> /\ pipe' = <<>> /\ messageBuf' = <<>>
        /\ UNCHANGED <<stream, received>>
    BY DEF HandlerEnds
  <2> QED BY <2>1, <2>2 DEF FramingTypeOK
<1> QED BY <1>1, <1>2 DEF FramingInv, HandlerEnds

\* The remaining actions do not touch the bytes.
LEMMA OthersKeepInv ==
    ASSUME FramingInv, StreamEnds \/ HandlerWaits \/ UNCHANGED framingVars
    PROVE  FramingInv'
<1>1. UNCHANGED <<toWrite, pipe, messageBuf, received>>
  BY DEF StreamEnds, HandlerWaits, framingVars
<1>2. Bytes' = Bytes
  BY <1>1 DEF Bytes
<1>3. CASE StreamEnds
  <2>1. /\ stream' \in {"shutdown", "dropped", "reset"} /\ handler' = handler
        /\ stream' = "shutdown" => toWrite = <<>>
    BY <1>3 DEF StreamEnds
  <2> QED BY <1>1, <1>2, <2>1 DEF FramingInv, FramingTypeOK
<1>4. CASE HandlerWaits
  BY <1>1, <1>2, <1>4 DEF HandlerWaits, ParsedAll, FramingInv, FramingTypeOK
<1>5. CASE UNCHANGED framingVars
  BY <1>2, <1>5 DEF framingVars, FramingInv, FramingTypeOK
<1> QED BY <1>3, <1>4, <1>5

LEMMA FramingNextInv == FramingInv /\ [FramingNext]_framingVars => FramingInv'
BY WriteKeepsInv, FlushKeepsInv, HandlerReadKeepsInv, HandlerParseKeepsInv,
   HandlerEndsKeepsInv, OthersKeepInv
DEF FramingNext, HandlerStep

\* At any moment the bytes at the handler, in the connection and at the writer
\* are together whole frames of payloads, and nothing else.
THEOREM FramingInvariant == FramingSpec => []FramingInv
<1>1. FramingSpec => FramingInit /\ [][FramingNext]_framingVars
  BY DEF FramingSpec
<1> QED BY <1>1, FramingInitInv, FramingNextInv, PTL

\* The connection holds no more than it can, and the handler receives nothing
\* but payloads that can be decoded.
THEOREM FramingTypeCorrect == FramingSpec => []FramingTypeOK
<1>1. FramingInv => FramingTypeOK
  BY DEF FramingInv
<1> QED BY <1>1, FramingInvariant, PTL

\* After an orderly shutdown of the client's stream no part of a frame is left
\* at the handler, wherever the bytes were cut.
THEOREM ShutdownNeverCutsAFrame == FramingSpec => []ShutdownLosesNothing
<1>1. ASSUME FramingInv, stream = "shutdown", handler = "reading", pipe = <<>>
      PROVE  messageBuf = <<>>
  <2>1. /\ messageBuf \in Seq(Byte) /\ <<>> \in Seq(Byte) /\ Bytes \in WholeFrames
        /\ ~IsComplete(messageBuf) /\ toWrite = <<>>
    BY <1>1 DEF FramingInv, FramingTypeOK
  <2>2. messageBuf \o <<>> = messageBuf
    BY <2>1, ConcatEmptySeq
  <2>3. messageBuf \o <<>> \in WholeFrames
    BY <1>1, <2>1, <2>2 DEF Bytes
  <2> QED BY <2>1, <2>3, IncompleteIsShort
<1>2. FramingInv => ShutdownLosesNothing
  BY <1>1 DEF ShutdownLosesNothing
<1> QED BY <1>2, FramingInvariant, PTL

\* Between two reads the handler's buffer holds less than one frame.
THEOREM BufferStaysBounded == FramingSpec => []BufferIsBounded
<1>1. ASSUME FramingInv, handler = "reading"
      PROVE  \E p \in Payload : Len(messageBuf) < PrefixLen + Len(p)
  <2>1. /\ messageBuf \in Seq(Byte) /\ pipe \in Seq(Byte) /\ toWrite \in Seq(Byte)
        /\ Bytes \in WholeFrames /\ ~IsComplete(messageBuf)
    BY <1>1 DEF FramingInv, FramingTypeOK
  <2>2. CASE messageBuf = <<>>
    <3>1. PICK p \in Payload : p \in Seq(Byte)
      BY FramingAssumption
    <3>2. Len(p) \in Nat /\ PrefixLen \in Nat \ {0}
      BY <3>1, LenProperties, FramingAssumption
    <3> QED BY <2>2, <3>1, <3>2
  <2>3. CASE messageBuf # <<>>
    <3>1. PICK t \in Seq(Byte) : t = pipe \o toWrite
      BY <2>1, ConcatProperties
    <3>2. messageBuf \o t \in WholeFrames
      BY <2>1, <3>1, Regrouped, ZenonT(40) DEF Bytes
    <3> QED BY <2>1, <2>3, <3>2, IncompleteIsShort
  <2> QED BY <2>2, <2>3
<1>2. FramingInv => BufferIsBounded
  BY <1>1 DEF BufferIsBounded
<1> QED BY <1>2, FramingInvariant, PTL
-----------------------------------------------------------------------------
\* The refinement mapping, as in Whole.
Pending == [c \in {"connection"} |-> Frames[Bytes]]

Delivered == [c \in {"connection"} |-> received]

Ended == IF handler = "ended" THEN {"connection"} ELSE {}

\* A write is the acceptance of a payload by the abstract queue.
LEMMA WriteRefines ==
    ASSUME FramingInv, NEW p \in Payload, Write(p)
    PROVE  Whole!FifoNext
<1>1. FramingTypeOK /\ Bytes \in WholeFrames
  BY DEF FramingInv
<1>2. Frames[Bytes'] = Append(Frames[Bytes], p)
  BY <1>1, BytesWritten, FramesOfWhole
<1>3. handler # "ended" /\ handler' = handler /\ received' = received
  BY DEF FramingInv, Write
<1>4. /\ "connection" \notin Ended
      /\ Pending' = [Pending EXCEPT !["connection"] = Append(@, p)]
      /\ Delivered' = Delivered /\ Ended' = Ended
  BY <1>2, <1>3 DEF Pending, Delivered, Ended
<1>5. Whole!Accept("connection", p)
  BY <1>4 DEF Whole!Accept, Pending, Delivered, Ended, Bytes
<1> QED BY <1>5 DEF Whole!FifoNext

\* A parsed frame is the abstract queue's delivery, or the loss of what cannot be decoded.
LEMMA ParseRefines ==
    ASSUME FramingInv, HandlerParse
    PROVE  Whole!FifoNext
<1>1. FramingTypeOK /\ Bytes \in WholeFrames
  BY DEF FramingInv
<1>2. PICK p \in Payload : p = PayloadOf(messageBuf)
  BY BytesParsed
<1>3. /\ received' = IF p \in Undecodable THEN received ELSE Append(received, p)
      /\ Bytes' \in WholeFrames
      /\ Frames[Bytes] = <<p>> \o Frames[Bytes']
  BY <1>2, BytesParsed
<1>4. Frames[Bytes'] \in Seq(Payload)
  BY <1>3, FramesOfWhole
<1>5. /\ Frames[Bytes] # <<>> /\ Head(Frames[Bytes]) = p
      /\ Tail(Frames[Bytes]) = Frames[Bytes']
  BY <1>3, <1>4, InHandIsHead
<1>6. handler' = handler
  BY DEF HandlerParse
<1>7. /\ Pending["connection"] # <<>> /\ Head(Pending["connection"]) = p
      /\ Pending' = [Pending EXCEPT !["connection"] = Tail(@)]
      /\ Ended' = Ended
  BY <1>5, <1>6 DEF Pending, Ended
<1>8. CASE p \in Undecodable
  <2>1. Delivered' = Delivered
    BY <1>3, <1>8 DEF Delivered
  <2>2. Whole!Lose("connection")
    BY <1>7, <1>8, <2>1 DEF Whole!Lose, Pending, Delivered, Ended, Bytes
  <2> QED BY <2>2 DEF Whole!FifoNext
<1>9. CASE p \notin Undecodable
  <2>1. Delivered' = [Delivered EXCEPT !["connection"] = Append(@, Head(Pending["connection"]))]
    BY <1>3, <1>7, <1>9 DEF Delivered
  <2>2. Whole!Deliver("connection")
    BY <1>7, <2>1 DEF Whole!Deliver, Pending, Delivered, Ended, Bytes
  <2> QED BY <2>2 DEF Whole!FifoNext
<1> QED BY <1>8, <1>9

\* The end of the handler is the end of the abstract connection.
LEMMA EndRefines ==
    ASSUME FramingInv, HandlerEnds
    PROVE  Whole!FifoNext
<1>1. Frames[Bytes'] = <<>>
  BY BytesForgotten, FramesOfNothing
<1>2. handler' = "ended" /\ received' = received
  BY DEF HandlerEnds
<1>3. /\ Pending' = [Pending EXCEPT !["connection"] = <<>>]
      /\ Delivered' = Delivered /\ Ended' = Ended \cup {"connection"}
  BY <1>1, <1>2 DEF Pending, Delivered, Ended
<1>4. Whole!End("connection")
  BY <1>3 DEF Whole!End, Pending, Delivered, Ended, Bytes
<1> QED BY <1>4 DEF Whole!FifoNext

\* No other step is seen by the abstract queue.
LEMMA OthersStutter ==
    ASSUME FramingInv,
           Flush \/ StreamEnds \/ HandlerRead \/ HandlerWaits \/ UNCHANGED framingVars
    PROVE  UNCHANGED Whole!fifoVars
<1>1. FramingTypeOK
  BY DEF FramingInv
<1>2. Bytes' = Bytes
  BY <1>1, BytesFlushed, BytesRead DEF StreamEnds, HandlerWaits, framingVars, Bytes
<1>3. received' = received /\ (handler' = "ended" <=> handler = "ended")
  BY DEF Flush, StreamEnds, HandlerRead, HandlerWaits, ParsedAll, framingVars
<1>4. Pending' = Pending /\ Delivered' = Delivered /\ Ended' = Ended
  BY <1>2, <1>3 DEF Pending, Delivered, Ended
<1> QED BY <1>4 DEF Whole!fifoVars, Pending, Delivered, Ended, Bytes

LEMMA FramingInitRefines == FramingInit => Whole!FifoInit
<1> SUFFICES ASSUME FramingInit PROVE Whole!FifoInit
  OBVIOUS
<1>1. <<>> \in Seq(Byte) /\ <<>> \o <<>> = <<>>
  BY ConcatEmptySeq
<1>2. Frames[messageBuf \o pipe \o toWrite] = <<>>
  BY <1>1, FramesOfNothing DEF FramingInit
<1> QED BY <1>2 DEF FramingInit, Whole!FifoInit

LEMMA FramingNextRefines ==
    FramingInv /\ [FramingNext]_framingVars => [Whole!FifoNext]_(Whole!fifoVars)
BY WriteRefines, ParseRefines, EndRefines, OthersStutter DEF FramingNext, HandlerStep

\* However writes and reads cut the bytes, the connection is a FIFO of whole
\* payloads, which loses one only because it cannot be decoded or with the
\* connection.
THEOREM FramingImplementsFifo == FramingSpec => ImplementsFrameFifo
<1>1. FramingSpec => FramingInit /\ [][FramingNext]_framingVars
  BY DEF FramingSpec
<1> QED BY <1>1, FramingInvariant, FramingInitRefines, FramingNextRefines, PTL
    DEF ImplementsFrameFifo, Whole!FifoSpec
=============================================================================
