------------------------- MODULE PacketQueue_proofs --------------------------
(***************************************************************************)
(* What the operators of PacketQueue return, for sequences of any length.   *)
(***************************************************************************)
EXTENDS PacketQueue, SequenceTheorems, WellFoundedInduction, TLAPS

(* A sequence over a set is one over every larger set.                      *)
LEMMA SeqOfLarger ==
  ASSUME NEW S, NEW T, S \subseteq T, NEW s \in Seq(S)
  PROVE  s \in Seq(T)
<1>1. Len(s) \in Nat /\ s = [i \in 1..Len(s) |-> s[i]]
  BY LenProperties
<1>2. \A i \in 1..Len(s) : s[i] \in T
  BY ElementOfSeq
<1> QED
  BY <1>1, <1>2

(* Take and Drop (the packets a loop of dequeue pops, and those it leaves)  *)
(* split a queue at position k.                                             *)
LEMMA TakeProperties ==
  ASSUME NEW S, NEW s \in Seq(S), NEW k \in 0..Len(s)
  PROVE  /\ Take(s, k) \in Seq(S)
         /\ Len(Take(s, k)) = k
         /\ \A i \in 1..k : Take(s, k)[i] = s[i]
<1>1. Len(s) \in Nat /\ \A i \in 1..k : s[i] \in S
  BY LenProperties, ElementOfSeq
<1> QED
  BY <1>1, SubSeqProperties, Z3 DEF Take

LEMMA DropProperties ==
  ASSUME NEW S, NEW s \in Seq(S), NEW k \in 0..Len(s)
  PROVE  /\ Drop(s, k) \in Seq(S)
         /\ Len(Drop(s, k)) = Len(s) - k
         /\ \A i \in 1..(Len(s) - k) : Drop(s, k)[i] = s[k + i]
<1>1. Len(s) \in Nat /\ \A i \in (k + 1)..Len(s) : s[i] \in S
  BY LenProperties, ElementOfSeq
<1>2. k + 1 \in Int /\ Len(s) \in Int
  BY <1>1
<1>3. /\ SubSeq(s, k + 1, Len(s)) \in Seq(S)
      /\ Len(SubSeq(s, k + 1, Len(s))) = IF k + 1 <= Len(s) THEN Len(s) - (k + 1) + 1 ELSE 0
      /\ \A i \in 1..(Len(s) - (k + 1) + 1) :
           SubSeq(s, k + 1, Len(s))[i] = s[(k + 1) + i - 1]
  BY <1>1, <1>2, SubSeqProperties
<1> QED
  BY <1>1, <1>3 DEF Drop

(* The members of a queue, and of the queues built from it.                 *)
LEMMA ElemsProperties ==
  ASSUME NEW S, NEW s \in Seq(S)
  PROVE  /\ Elems(s) \subseteq S
         /\ \A k \in 0..Len(s) : /\ Elems(Take(s, k)) \subseteq Elems(s)
                                 /\ Elems(Drop(s, k)) \subseteq Elems(s)
<1>1. Len(s) \in Nat
  BY LenProperties
<1>2. Elems(s) \subseteq S
  BY ElementOfSeq DEF Elems
<1>3. ASSUME NEW k \in 0..Len(s)
      PROVE  Elems(Take(s, k)) \subseteq Elems(s)
  BY <1>1, TakeProperties DEF Elems
<1>4. ASSUME NEW k \in 0..Len(s)
      PROVE  Elems(Drop(s, k)) \subseteq Elems(s)
  <2>1. /\ Len(Drop(s, k)) = Len(s) - k
        /\ \A i \in 1..(Len(s) - k) : Drop(s, k)[i] = s[k + i]
    BY DropProperties
  <2>2. \A i \in 1..(Len(s) - k) : k + i \in 1..Len(s)
    BY <1>1
  <2> QED
    BY <2>1, <2>2 DEF Elems
<1> QED
  BY <1>2, <1>3, <1>4

LEMMA ElemsConcat ==
  ASSUME NEW S, NEW s \in Seq(S), NEW t \in Seq(S)
  PROVE  Elems(s \o t) \subseteq Elems(s) \cup Elems(t)
<1>1. Len(s) \in Nat /\ Len(t) \in Nat
  BY LenProperties
<1>2. /\ Len(s \o t) = Len(s) + Len(t)
      /\ \A i \in 1..(Len(s) + Len(t)) :
           (s \o t)[i] = IF i <= Len(s) THEN s[i] ELSE t[i - Len(s)]
  BY ConcatProperties
<1> SUFFICES ASSUME NEW i \in 1..Len(s \o t)
             PROVE  (s \o t)[i] \in Elems(s) \cup Elems(t)
  BY DEF Elems
<1>3. CASE i <= Len(s)
  BY <1>1, <1>2, <1>3 DEF Elems
<1>4. CASE ~(i <= Len(s))
  BY <1>1, <1>2, <1>4 DEF Elems
<1> QED
  BY <1>3, <1>4

(* insertInOrder loses no entry and adds only the new one, wherever it      *)
(* goes.                                                                    *)
LEMMA InsertBehindProperties ==
  ASSUME NEW S, NEW cache \in Seq(S), NEW seq \in S, NEW i \in 0..Len(cache)
  PROVE  /\ InsertBehind(cache, seq, i) \in Seq(S)
         /\ Elems(InsertBehind(cache, seq, i)) \subseteq Elems(cache) \cup {seq}
<1> DEFINE front == Take(cache, i)
           back  == Drop(cache, i)
<1>1. front \in Seq(S) /\ back \in Seq(S) /\ <<seq>> \in Seq(S)
  BY TakeProperties, DropProperties
<1>2. front \o <<seq>> \in Seq(S) /\ (front \o <<seq>>) \o back \in Seq(S)
  BY <1>1, ConcatProperties
<1>3. Elems((front \o <<seq>>) \o back) \subseteq Elems(front) \cup Elems(<<seq>>) \cup Elems(back)
  BY <1>1, <1>2, ElemsConcat
<1>4. Elems(<<seq>>) = {seq}
  BY DEF Elems
<1> QED
  BY <1>2, <1>3, <1>4, ElemsProperties DEF InsertBehind

(* A non-empty set of naturals has a least member.                          *)
LEMMA LeastMember ==
  ASSUME NEW T, T \subseteq Nat, T # {}
  PROVE  \E x \in T : \A y \in T : x <= y
<1> DEFINE less == {ss \in Nat \X Nat : ss[1] < ss[2]}
<1>1. IsWellFoundedOn(less, Nat)
  BY NatLessThanWellFounded DEF OpToRel
<1>2. \E x \in T : \A y \in T : ~(<<y, x>> \in less)
  <2> HIDE DEF less
  <2> QED
    BY <1>1, WFMin
<1>3. \A x \in Nat, y \in Nat : y < x => <<y, x>> \in less
  OBVIOUS
<1> HIDE DEF less
<1>4. PICK x \in T : \A y \in T : ~(<<y, x>> \in less)
  BY <1>2
<1>5. ASSUME NEW y \in T
      PROVE  x <= y
  <2>1. x \in Nat /\ y \in Nat /\ ~(<<y, x>> \in less)
    BY <1>4
  <2>2. ~(y < x)
    BY <1>3, <2>1, Zenon
  <2> QED
    BY <2>1, <2>2
<1> QED
  BY <1>5

(* flushCache never passes a gap: every number between the packet that came *)
(* in and the new expected number is that of a cached packet, in a cache    *)
(* that may be out of order and hold copies.                                *)
LEMMA FlushCacheHasNoGap ==
  ASSUME NEW cache \in Seq(Nat), NEW expected \in Nat, NEW k, NEW next,
         FlushCache(expected, cache, k, next)
  PROVE  /\ k \in 0..Len(cache)
         /\ next \in Nat /\ next > expected
         /\ (expected + 1)..(next - 1) \subseteq Elems(Take(cache, k))
         /\ \A i \in 1..k : cache[i] < next
         /\ k < Len(cache) => cache[k + 1] > next
<1>1. k \in 0..Len(cache) /\ Len(cache) \in Nat
  BY LenProperties DEF FlushCache
<1> DEFINE popped == Elems(Take(cache, k))
<1>2. popped = {cache[i] : i \in 1..k} /\ popped \subseteq Nat
  <2>1. Len(Take(cache, k)) = k /\ \A i \in 1..k : Take(cache, k)[i] = cache[i]
    BY <1>1, TakeProperties
  <2>2. popped = {cache[i] : i \in 1..k}
    BY <2>1 DEF Elems
  <2>3. popped \subseteq Nat
    BY <1>1, <2>2, ElementOfSeq
  <2> QED
    BY <2>2, <2>3
<1>3. PICK top \in {expected} \cup popped : next = top + 1 /\ expected <= top
  BY DEF FlushCache
<1>4. next \in Nat /\ next > expected
  <2>1. top \in Nat
    BY <1>2, <1>3
  <2> HIDE DEF popped
  <2> QED
    BY <1>3, <2>1
<1>5. ASSUME NEW j \in (expected + 1)..(next - 1), j \notin popped
      PROVE  FALSE
  <2>0. j \in Nat /\ expected < j /\ j <= top
    BY <1>2, <1>3, <1>5
  <2> DEFINE above == {i \in 1..k : cache[i] > j}
  <2>1. above # {}
    BY <1>2, <1>3, <1>5, <2>0
  <2>2. PICK i \in above : \A y \in above : i <= y
    <3>1. above \subseteq Nat
      BY <1>1
    <3> HIDE DEF above
    <3> QED
      BY <2>1, <3>1, LeastMember
  <2>3. i \in 1..k /\ cache[i] > j /\ cache[i] \in Nat
    BY <1>2, <2>2
  <2>4. PICK t \in {expected} \cup Elems(Take(cache, i - 1)) : cache[i] <= t + 1
    BY <2>3 DEF FlushCache
  <2>5. Elems(Take(cache, i - 1)) = {cache[m] : m \in 1..(i - 1)}
    <3>1. i - 1 \in 0..Len(cache)
      BY <1>1, <2>3
    <3>2. /\ Len(Take(cache, i - 1)) = i - 1
          /\ \A m \in 1..(i - 1) : Take(cache, i - 1)[m] = cache[m]
      BY <3>1, TakeProperties
    <3> QED
      BY <3>2 DEF Elems
  <2>6. CASE t = expected
    BY <2>0, <2>3, <2>4, <2>6
  <2>7. CASE t \in Elems(Take(cache, i - 1))
    <3>1. PICK m \in 1..(i - 1) : t = cache[m]
      BY <2>5, <2>7
    <3>2. m \in 1..k /\ cache[m] \in popped /\ cache[m] \in Nat
      BY <1>1, <1>2, <2>3, <3>1
    <3>3. cache[m] > j
      BY <1>5, <2>0, <2>3, <2>4, <3>1, <3>2
    <3>4. m \in above /\ m < i
      BY <2>3, <3>1, <3>2, <3>3
    <3> QED
      BY <2>2, <2>3, <3>1, <3>2, <3>4
  <2> QED
    BY <2>4, <2>6, <2>7
<1>6. \A i \in 1..k : cache[i] < next
  <2>1. PICK t \in {expected} \cup popped : next = t + 1 /\ \A i \in 1..k : cache[i] <= t
    BY DEF FlushCache
  <2>2. t \in Nat /\ \A i \in 1..k : cache[i] \in Nat
    BY <1>1, <1>2, <2>1, ElementOfSeq
  <2> HIDE DEF popped
  <2> QED
    BY <2>1, <2>2
<1>7. k < Len(cache) => cache[k + 1] > next
  BY DEF FlushCache
<1> QED
  BY <1>1, <1>4, <1>5, <1>6, <1>7

-----------------------------------------------------------------------------
(* The operators that say what a loop returns, and the loop *)

(* A set with 0, and the successor of each of its members below N.          *)
LEMMA InductionUpTo ==
  ASSUME NEW N \in Nat, NEW T, 0 \in T, \A n \in 0..(N - 1) : n \in T => n + 1 \in T
  PROVE  0..N \subseteq T
<1> DEFINE bad == {n \in 0..N : n \notin T}
<1> SUFFICES ASSUME bad # {} PROVE FALSE
  OBVIOUS
<1>1. bad \subseteq Nat
  OBVIOUS
<1> HIDE DEF bad
<1>2. PICK n \in bad : \A m \in bad : n <= m
  <2>1. \E x \in bad : \A y \in bad : x <= y
    BY <1>1, LeastMember
  <2> QED
    BY <2>1
<1>3. n \in 0..N /\ n \notin T
  BY DEF bad
<1>4. n - 1 \in 0..(N - 1) /\ n - 1 \in 0..N /\ ~(n <= n - 1) /\ (n - 1) + 1 = n
  BY <1>3
<1>5. n - 1 \notin T
  BY <1>3, <1>4, Zenon
<1>6. n - 1 \in bad
  BY <1>4, <1>5 DEF bad
<1> QED
  BY <1>2, <1>4, <1>6

(* A loop: f[k] is what h makes of k and f[k - 1].                          *)
IsLoop(f, h, a, S, N) ==
  /\ f \in [0..N -> S] /\ f[0] = a
  /\ \A k \in 1..N : f[k] = h[<<k, f[k - 1]>>]

LEMMA LoopExists ==
  ASSUME NEW S, NEW a \in S, NEW h \in [Nat \X S -> S], NEW N \in Nat
  PROVE  \E f : IsLoop(f, h, a, S, N)
<1> DEFINE T == {n \in 0..N : \E f : IsLoop(f, h, a, S, n)}
<1>1. 0 \in T
  <2> DEFINE f == [k \in 0..0 |-> a]
  <2>1. f \in [0..0 -> S] /\ f[0] = a /\ 1..0 = {}
    OBVIOUS
  <2>2. IsLoop(f, h, a, S, 0)
    BY <2>1 DEF IsLoop
  <2> QED
    BY <2>2
<1>2. ASSUME NEW n \in 0..(N - 1), n \in T
      PROVE  n + 1 \in T
  <2>1. PICK f : IsLoop(f, h, a, S, n)
    BY <1>2
  <2> DEFINE g == [k \in 0..(n + 1) |-> IF k = n + 1 THEN h[<<n + 1, f[n]>>] ELSE f[k]]
  <2>2. n \in Nat /\ 0 \in 0..n /\ n \in 0..n /\ 0 # n + 1 /\ n + 1 \in Nat
    OBVIOUS
  <2>3. \A k \in 0..(n + 1) : k = n + 1 \/ k \in 0..n
    BY <2>2
  <2>4. f \in [0..n -> S] /\ f[0] = a
    BY <2>1 DEF IsLoop
  <2>5. f[n] \in S /\ h[<<n + 1, f[n]>>] \in S
    BY <2>2, <2>4
  <2>6. g \in [0..(n + 1) -> S]
    BY <2>2, <2>3, <2>4, <2>5
  <2>7. g[0] = a
    BY <2>2, <2>4
  <2>8. ASSUME NEW k \in 1..(n + 1)
        PROVE  g[k] = h[<<k, g[k - 1]>>]
    <3>1. k - 1 \in 0..(n + 1) /\ k - 1 # n + 1 /\ k \in 0..(n + 1)
      BY <2>2
    <3>2. g[k - 1] = f[k - 1]
      BY <3>1
    <3>3. CASE k = n + 1
      <4>1. k - 1 = n
        BY <2>2, <3>3
      <4> QED
        BY <3>1, <3>2, <3>3, <4>1
    <3>4. CASE k # n + 1
      <4>1. k \in 1..n
        BY <2>2, <3>4
      <4>2. g[k] = f[k]
        BY <3>1, <3>4
      <4>3. f[k] = h[<<k, f[k - 1]>>]
        BY <2>1, <4>1 DEF IsLoop
      <4> QED
        BY <3>2, <4>2, <4>3
    <3> QED
      BY <3>3, <3>4
  <2> HIDE DEF g
  <2>9. IsLoop(g, h, a, S, n + 1)
    BY <2>6, <2>7, <2>8 DEF IsLoop
  <2> QED
    BY <2>2, <2>9
<1> HIDE DEF T
<1>3. 0..N \subseteq T
  BY <1>1, <1>2, InductionUpTo
<1>4. N \in T
  BY <1>3
<1> QED
  BY <1>4 DEF T

(* newExpected is the function its definition describes: the definition     *)
(* chooses one, and a loop is one.                                          *)
LEMMA NewExpectedUnfolded ==
  ASSUME NEW cache \in Seq(Int), NEW expected \in Int
  PROVE  /\ NewExpected(expected, cache) \in [0..Len(cache) -> Int]
         /\ NewExpected(expected, cache)[0] = expected + 1
         /\ \A i \in 1..Len(cache) :
              NewExpected(expected, cache)[i] =
                IF cache[i] = NewExpected(expected, cache)[i - 1]
                THEN NewExpected(expected, cache)[i - 1] + 1 ELSE NewExpected(expected, cache)[i - 1]
<1> DEFINE h == [p \in Nat \X Int |-> IF cache[p[1]] = p[2] THEN p[2] + 1 ELSE p[2]]
           IsNew(f) == f = [i \in 0..Len(cache) |->
                         IF i = 0 THEN expected + 1
                         ELSE IF cache[i] = f[i - 1] THEN f[i - 1] + 1
                         ELSE f[i - 1]]
<1>1. PICK N \in Nat : N = Len(cache)
  BY LenProperties
<1>2. PICK f : IsLoop(f, h, expected + 1, Int, N)
  <2>1. expected + 1 \in Int /\ h \in [Nat \X Int -> Int]
    OBVIOUS
  <2> HIDE DEF h
  <2> QED
    BY <2>1, LoopExists
<1>3. ASSUME NEW i \in 1..N
      PROVE  f[i] = IF cache[i] = f[i - 1] THEN f[i - 1] + 1 ELSE f[i - 1]
  <2>1. i \in Nat /\ i - 1 \in 0..N
    OBVIOUS
  <2>2. f[i - 1] \in Int
    BY <1>2, <2>1 DEF IsLoop
  <2>3. f[i] = h[<<i, f[i - 1]>>]
    BY <1>2 DEF IsLoop
  <2> QED
    BY <2>1, <2>2, <2>3
<1>4. IsNew(f)
  <2> HIDE DEF h
  <2>1. f \in [0..N -> Int] /\ f[0] = expected + 1
    BY <1>2 DEF IsLoop
  <2>2. \A i \in 0..N : i # 0 => i \in 1..N
    OBVIOUS
  <2> QED
    BY <1>1, <1>3, <2>1, <2>2
<1>5. NewExpected(expected, cache) = CHOOSE g : IsNew(g)
  BY DEF NewExpected
<1> HIDE DEF IsNew
<1>6. IsNew(NewExpected(expected, cache))
  BY <1>4, <1>5
<1>7. PICK g : g = NewExpected(expected, cache)
  OBVIOUS
<1>8. g = [i \in 0..N |-> IF i = 0 THEN expected + 1
                          ELSE IF cache[i] = g[i - 1] THEN g[i - 1] + 1 ELSE g[i - 1]]
  BY <1>1, <1>6, <1>7 DEF IsNew
<1>9. g[0] = expected + 1 /\ \A i \in 1..N : g[i] = IF cache[i] = g[i - 1] THEN g[i - 1] + 1 ELSE g[i - 1]
  BY <1>8
<1>10. \A i \in 0..N : g[i] \in Int
  <2> DEFINE T == {i \in 0..N : g[i] \in Int}
  <2>1. 0 \in T
    BY <1>9
  <2>2. ASSUME NEW i \in 0..(N - 1), i \in T
        PROVE  i + 1 \in T
    <3>1. i + 1 \in 1..N /\ i + 1 \in 0..N /\ (i + 1) - 1 = i
      OBVIOUS
    <3>2. g[i + 1] = IF cache[i + 1] = g[i] THEN g[i] + 1 ELSE g[i]
      BY <1>9, <3>1
    <3> QED
      BY <2>2, <3>1, <3>2
  <2> HIDE DEF T
  <2>3. 0..N \subseteq T
    BY <2>1, <2>2, InductionUpTo
  <2> QED
    BY <2>3 DEF T
<1>11. g \in [0..N -> Int]
  BY <1>8, <1>10
<1> QED
  BY <1>1, <1>7, <1>9, <1>11

(* The entries that flushCache has popped, and what newExpected tells of    *)
(* them: it is one more than the largest number seen.                       *)
LEMMA NewExpectedIsTheTop ==
  ASSUME NEW cache \in Seq(Int), NEW expected \in Int,
         NEW N \in Nat, N = Len(cache), NEW f, f = NewExpected(expected, cache),
         NEW k \in 0..N, \A i \in 1..k : cache[i] <= f[i - 1]
  PROVE  /\ f[k] - 1 \in {expected} \cup {cache[i] : i \in 1..k}
         /\ expected <= f[k] - 1 /\ \A i \in 1..k : cache[i] <= f[k] - 1
<1> DEFINE T == {n \in 0..k : /\ f[n] - 1 \in {expected} \cup {cache[i] : i \in 1..n}
                              /\ expected <= f[n] - 1 /\ \A i \in 1..n : cache[i] <= f[n] - 1}
<1>1. /\ f \in [0..N -> Int] /\ f[0] = expected + 1
      /\ \A i \in 1..N : f[i] = IF cache[i] = f[i - 1] THEN f[i - 1] + 1 ELSE f[i - 1]
  BY NewExpectedUnfolded
<1>2. \A i \in 1..N : cache[i] \in Int
  BY ElementOfSeq
<1>3. 0 \in T
  BY <1>1
<1>4. ASSUME NEW n \in 0..(k - 1), n \in T
      PROVE  n + 1 \in T
  <2>1. n + 1 \in 1..k /\ n + 1 \in 1..N /\ (n + 1) - 1 = n /\ n + 1 \in 0..k /\ n \in 0..N
    OBVIOUS
  <2>2. f[n] \in Int /\ cache[n + 1] \in Int /\ cache[n + 1] <= f[n]
    BY <1>1, <1>2, <2>1
  <2>3. f[n + 1] = IF cache[n + 1] = f[n] THEN f[n] + 1 ELSE f[n]
    BY <1>1, <2>1
  <2>4. /\ f[n] - 1 \in {expected} \cup {cache[i] : i \in 1..n}
        /\ expected <= f[n] - 1 /\ \A i \in 1..n : cache[i] <= f[n] - 1
    BY <1>4
  <2>5. \A i \in 1..(n + 1) : i = n + 1 \/ i \in 1..n
    OBVIOUS
  <2>6. \A i \in 1..n : i \in 1..(n + 1) /\ cache[i] \in Int
    BY <1>2
  <2>7. CASE cache[n + 1] = f[n]
    <3>1. f[n + 1] = f[n] + 1
      BY <2>3, <2>7
    <3>2. f[n + 1] - 1 = cache[n + 1]
      BY <2>2, <2>7, <3>1
    <3>3. f[n + 1] - 1 \in {expected} \cup {cache[i] : i \in 1..(n + 1)}
      <4>1. n + 1 \in 1..(n + 1)
        BY <2>1
      <4> QED
        BY <3>2, <4>1
    <3>4. expected <= f[n + 1] - 1
      BY <2>2, <2>4, <3>1
    <3>5. ASSUME NEW i \in 1..(n + 1)
          PROVE  cache[i] <= f[n + 1] - 1
      <4>1. CASE i \in 1..n
        <5>1. cache[i] \in Int /\ cache[i] <= f[n] - 1
          BY <2>4, <2>6, <4>1
        <5> QED
          BY SMTT(30), <2>2, <3>1, <5>1
      <4>2. CASE i = n + 1
        BY <2>2, <2>7, <3>1, <4>2
      <4> QED
        BY <2>5, <4>1, <4>2
    <3> QED
      BY <2>1, <3>3, <3>4, <3>5
  <2>8. CASE cache[n + 1] # f[n]
    <3>1. f[n + 1] = f[n]
      BY <2>3, <2>8
    <3>2. cache[n + 1] <= f[n] - 1
      BY <2>2, <2>8
    <3>3. f[n + 1] - 1 \in {expected} \cup {cache[i] : i \in 1..(n + 1)}
      BY <2>4, <2>6, <3>1
    <3>4. ASSUME NEW i \in 1..(n + 1)
          PROVE  cache[i] <= f[n + 1] - 1
      <4>1. CASE i \in 1..n
        BY <2>4, <3>1, <4>1
      <4>2. CASE i = n + 1
        BY <3>1, <3>2, <4>2
      <4> QED
        BY <2>5, <4>1, <4>2
    <3> QED
      BY <2>1, <2>4, <3>1, <3>3, <3>4
  <2> QED
    BY <2>7, <2>8
<1> HIDE DEF T
<1>5. 0..k \subseteq T
  <2>1. k \in Nat
    OBVIOUS
  <2> QED
    BY <1>3, <1>4, <2>1, InductionUpTo
<1>6. k \in T
  BY <1>5
<1> QED
  BY <1>6 DEF T

LEMMA FlushCacheTops ==
  ASSUME NEW cache \in Seq(Int), NEW expected \in Int, NEW k \in 0..Len(cache), NEW next
  PROVE  FlushCache(expected, cache, k, next) <=>
           /\ \E top \in {expected} \cup {cache[i] : i \in 1..k} :
                next = top + 1 /\ expected <= top /\ \A i \in 1..k : cache[i] <= top
           /\ \A j \in 1..k : \E t \in {expected} \cup {cache[i] : i \in 1..(j - 1)} : cache[j] <= t + 1
           /\ k < Len(cache) => cache[k + 1] > next
<1>1. \A n \in 0..k : Elems(Take(cache, n)) = {cache[i] : i \in 1..n}
  <2> SUFFICES ASSUME NEW n \in 0..k
               PROVE  Elems(Take(cache, n)) = {cache[i] : i \in 1..n}
    OBVIOUS
  <2>1. n \in 0..Len(cache)
    BY LenProperties
  <2>2. Len(Take(cache, n)) = n /\ \A i \in 1..n : Take(cache, n)[i] = cache[i]
    BY <2>1, TakeProperties
  <2> QED
    BY <2>2 DEF Elems
<1>2. k \in 0..k /\ \A j \in 1..k : j - 1 \in 0..k
  BY LenProperties
<1>3. Elems(Take(cache, k)) = {cache[i] : i \in 1..k}
  BY <1>1, <1>2
<1>4. \A j \in 1..k : Elems(Take(cache, j - 1)) = {cache[i] : i \in 1..(j - 1)}
  BY <1>1, <1>2
<1> QED
  BY <1>3, <1>4 DEF FlushCache

(* flushCache: FlushCache, which says what the loop of flushCache returns   *)
(* without it, is what the loop computes, in every cache, sorted or not.    *)
THEOREM FlushCacheIsItsLoop ==
  ASSUME NEW cache \in Seq(Int), NEW expected \in Int, NEW k \in 0..Len(cache), NEW next \in Int
  PROVE  FlushCache(expected, cache, k, next) <=> FlushLoop(expected, cache, k, next)
<1>1. PICK N \in Nat : N = Len(cache)
  BY LenProperties
<1>2. PICK f : f = NewExpected(expected, cache)
  OBVIOUS
<1>3. /\ f \in [0..N -> Int] /\ f[0] = expected + 1
  BY <1>1, <1>2, NewExpectedUnfolded
<1>4. k \in 0..N
  BY <1>1
<1>5. \A i \in 1..k : cache[i] \in Int
  BY <1>1, <1>4, ElementOfSeq
<1> DEFINE Pops(n) == \A i \in 1..n : cache[i] <= f[i - 1]
           Top(n)  == /\ f[n] - 1 \in {expected} \cup {cache[i] : i \in 1..n}
                      /\ expected <= f[n] - 1 /\ \A i \in 1..n : cache[i] <= f[n] - 1
<1>6. ASSUME NEW n \in 0..k, Pops(n)
      PROVE  Top(n)
  <2>1. n \in 0..N
    BY <1>4
  <2> QED
    BY <1>1, <1>2, <1>6, <2>1, NewExpectedIsTheTop
<1>7. FlushLoop(expected, cache, k, next)
        <=> next = f[k] /\ Pops(k) /\ (k < Len(cache) => cache[k + 1] > next)
  BY <1>2 DEF FlushLoop
<1>8. ASSUME FlushLoop(expected, cache, k, next)
      PROVE  FlushCache(expected, cache, k, next)
  <2>1. next = f[k] /\ Pops(k) /\ (k < Len(cache) => cache[k + 1] > next)
    BY <1>7, <1>8
  <2>2. k \in 0..k /\ f[k] \in Int
    BY <1>3, <1>4
  <2>3. Top(k)
    BY <1>6, <2>1, <2>2
  <2>4. \E top \in {expected} \cup {cache[i] : i \in 1..k} :
          next = top + 1 /\ expected <= top /\ \A i \in 1..k : cache[i] <= top
    <3>1. next = (f[k] - 1) + 1
      BY <2>1, <2>2
    <3> QED
      BY <2>3, <3>1
  <2>5. ASSUME NEW j \in 1..k
        PROVE  \E t \in {expected} \cup {cache[i] : i \in 1..(j - 1)} : cache[j] <= t + 1
    <3>1. j - 1 \in 0..k /\ Pops(j - 1) /\ f[j - 1] \in Int /\ cache[j] <= f[j - 1]
      BY <1>3, <1>4, <2>1
    <3>2. Top(j - 1)
      BY <1>6, <3>1
    <3>3. cache[j] <= (f[j - 1] - 1) + 1
      BY <3>1
    <3> QED
      BY <3>2, <3>3
  <2> QED
    BY <2>1, <2>4, <2>5, FlushCacheTops
<1>9. ASSUME FlushCache(expected, cache, k, next)
      PROVE  FlushLoop(expected, cache, k, next)
  <2>1. /\ \E top \in {expected} \cup {cache[i] : i \in 1..k} :
             next = top + 1 /\ expected <= top /\ \A i \in 1..k : cache[i] <= top
        /\ \A j \in 1..k : \E t \in {expected} \cup {cache[i] : i \in 1..(j - 1)} : cache[j] <= t + 1
        /\ k < Len(cache) => cache[k + 1] > next
    BY <1>9, FlushCacheTops
  <2>2. Pops(k)
    <3> DEFINE T == {n \in 0..k : Pops(n)}
    <3>1. 0 \in T
      BY <1>4
    <3>2. ASSUME NEW n \in 0..(k - 1), n \in T
          PROVE  n + 1 \in T
      <4>1. n \in 0..k /\ n + 1 \in 1..k /\ n + 1 \in 0..k /\ (n + 1) - 1 = n /\ n \in 0..N
        BY <1>4
      <4>2. Pops(n)
        BY <3>2
      <4>3. Top(n)
        BY <1>6, <4>1, <4>2
      <4>4. PICK t \in {expected} \cup {cache[i] : i \in 1..n} : cache[n + 1] <= t + 1
        BY <2>1, <4>1
      <4>5. t \in Int /\ f[n] \in Int /\ cache[n + 1] \in Int
        BY <1>3, <1>5, <4>1, <4>4
      <4>6. t <= f[n] - 1
        BY <4>3, <4>4
      <4>7. cache[n + 1] <= f[n]
        BY <4>4, <4>5, <4>6
      <4>8. \A i \in 1..(n + 1) : i = n + 1 \/ i \in 1..n
        OBVIOUS
      <4>9. Pops(n + 1)
        BY <4>1, <4>2, <4>7, <4>8
      <4> QED
        BY <4>1, <4>9
    <3> HIDE DEF T
    <3>3. 0..k \subseteq T
      <4>1. k \in Nat
        BY <1>4
      <4> QED
        BY <3>1, <3>2, <4>1, InductionUpTo
    <3>4. k \in T
      BY <1>4, <3>3
    <3> QED
      BY <3>4 DEF T
  <2>3. k \in 0..k /\ f[k] \in Int
    BY <1>3, <1>4
  <2>4. Top(k)
    BY <1>6, <2>2, <2>3
  <2>5. next = f[k]
    <3>1. PICK top \in {expected} \cup {cache[i] : i \in 1..k} :
            next = top + 1 /\ expected <= top /\ \A i \in 1..k : cache[i] <= top
      BY <2>1
    <3>2. top \in Int
      BY <1>5, <3>1
    <3>3. top <= f[k] - 1
      BY <2>4, <3>1
    <3>4. f[k] - 1 <= top
      BY <2>4, <3>1
    <3> QED
      BY <2>3, <3>1, <3>2, <3>3, <3>4
  <2> QED
    BY <1>7, <2>1, <2>2, <2>5
<1> QED
  BY <1>8, <1>9

(* scan is the function its definition describes; the loop that shows it    *)
(* runs from the last entry to the first.                                   *)
LEMMA ScanUnfolded ==
  ASSUME NEW cache \in Seq(Int), NEW seq \in Int, NEW N \in Nat, N = Len(cache), N # 0
  PROVE  \E f : /\ Scan(cache, seq) = f[1] /\ f[N] = N
                /\ \A i \in 1..(N - 1) : f[i] = IF seq < cache[i + 1] THEN i ELSE f[i + 1]
<1> DEFINE h == [p \in Nat \X Nat |-> IF p[1] \in 1..(N - 1) /\ seq < cache[N - p[1] + 1] THEN N - p[1] ELSE p[2]]
           IsScan(f) == f = [i \in 1..Len(cache) |->
                          IF i = Len(cache) THEN i
                          ELSE IF seq < cache[i + 1] THEN i ELSE f[i + 1]]
<1>1. PICK g : IsLoop(g, h, N, Nat, N)
  <2>1. h \in [Nat \X Nat -> Nat]
    <3>1. \A m \in 1..(N - 1) : N - m \in Nat
      OBVIOUS
    <3> QED
      BY <3>1
  <2> HIDE DEF h
  <2> QED
    BY <2>1, LoopExists
<1> DEFINE f == [i \in 1..N |-> g[N - i]]
<1>2. f[N] = N
  <2>1. N \in 1..N /\ N - N = 0
    OBVIOUS
  <2>2. g[0] = N
    BY <1>1 DEF IsLoop
  <2> QED
    BY <2>1, <2>2
<1>3. ASSUME NEW i \in 1..N, i # N
      PROVE  f[i] = IF seq < cache[i + 1] THEN i ELSE f[i + 1]
  <2>1. PICK m \in 1..(N - 1) : m = N - i
    <3>1. N - i \in 1..(N - 1)
      BY <1>3
    <3> QED
      BY <3>1
  <2>2. m \in 1..N /\ m \in Nat /\ m - 1 \in 0..N /\ N - m = i /\ N - m + 1 = i + 1 /\ m - 1 = N - (i + 1) /\ i + 1 \in 1..N
    BY <1>3, <2>1
  <2>3. g[m - 1] \in Nat
    BY <1>1, <2>2 DEF IsLoop
  <2>4. g[m] = h[<<m, g[m - 1]>>]
    BY <1>1, <2>2 DEF IsLoop
  <2>5. h[<<m, g[m - 1]>>] = IF seq < cache[N - m + 1] THEN N - m ELSE g[m - 1]
    BY <2>1, <2>2, <2>3
  <2>6. f[i] = g[m] /\ f[i + 1] = g[m - 1]
    BY <2>1, <2>2
  <2> HIDE DEF f, h
  <2> QED
    BY <2>2, <2>4, <2>5, <2>6
<1>4. IsScan(f)
  <2>1. f = [i \in 1..N |-> f[i]]
    OBVIOUS
  <2> HIDE DEF f
  <2>2. \A i \in 1..N : f[i] = IF i = N THEN i ELSE IF seq < cache[i + 1] THEN i ELSE f[i + 1]
    BY <1>2, <1>3
  <2> QED
    BY <2>1, <2>2
<1>5. PICK s : s = CHOOSE e : IsScan(e)
  OBVIOUS
<1>6. Scan(cache, seq) = s[1]
  <2>1. cache # << >>
    BY EmptySeq
  <2> QED
    BY <1>5, <2>1 DEF Scan
<1> HIDE DEF IsScan, f
<1>7. IsScan(s)
  BY <1>4, <1>5
<1>8. s = [i \in 1..N |-> IF i = N THEN i ELSE IF seq < cache[i + 1] THEN i ELSE s[i + 1]]
  BY <1>7 DEF IsScan
<1>9. N \in 1..N /\ \A i \in 1..(N - 1) : i \in 1..N /\ i # N
  OBVIOUS
<1>10. s[N] = N
  BY <1>8, <1>9
<1>11. ASSUME NEW i \in 1..(N - 1)
       PROVE  s[i] = IF seq < cache[i + 1] THEN i ELSE s[i + 1]
  BY <1>8, <1>9
<1> QED
  BY ZenonT(30), <1>6, <1>10, <1>11

(* insertInOrder: InsertsBehind names the one entry at which the loop stops *)
(* to put the packet behind it, in every cache, sorted or not.              *)
THEOREM InsertsBehindIsItsLoop ==
  ASSUME NEW cache \in Seq(Int), NEW seq \in Int, NEW i \in 0..Len(cache)
  PROVE  InsertsBehind(cache, seq, i) <=> i = Scan(cache, seq)
<1>1. PICK N \in Nat : N = Len(cache)
  BY LenProperties
<1>2. \A j \in 1..N : cache[j] \in Int
  BY <1>1, ElementOfSeq
<1>3. CASE cache = << >>
  BY <1>3 DEF InsertsBehind, Scan
<1>4. CASE cache # << >>
  <2>1. N # 0
    BY <1>1, <1>4, EmptySeq
  <2>2. PICK f : /\ Scan(cache, seq) = f[1] /\ f[N] = N
                 /\ \A j \in 1..(N - 1) : f[j] = IF seq < cache[j + 1] THEN j ELSE f[j + 1]
    BY <1>1, <2>1, ScanUnfolded
  <2> DEFINE Stops(j, e) == /\ e \in j..N /\ \A m \in (j + 1)..e : cache[m] <= seq
                            /\ e < N => seq < cache[e + 1]
             T == {k \in 0..(N - 1) : Stops(N - k, f[N - k])}
  <2>3. 0 \in T
    <3>1. N - 0 = N /\ 0 \in 0..(N - 1) /\ N \in N..N /\ (N + 1)..N = {} /\ ~(N < N)
      BY <2>1
    <3> QED
      BY <2>2, <3>1
  <2>4. ASSUME NEW k \in 0..((N - 1) - 1), k \in T
        PROVE  k + 1 \in T
    <3>1. PICK j \in 1..(N - 1) : j = N - (k + 1)
      BY <2>1
    <3>2. /\ j + 1 = N - k /\ k + 1 \in 0..(N - 1) /\ j + 1 \in 1..N /\ j \in j..N
          /\ (j + 1)..j = {}
      BY <2>1, <3>1
    <3>3. Stops(j + 1, f[j + 1])
      BY <2>4, <3>2
    <3>4. f[j] = IF seq < cache[j + 1] THEN j ELSE f[j + 1]
      BY <2>2
    <3>5. cache[j + 1] \in Int
      BY <1>2, <3>2
    <3>6. Stops(j, f[j])
      <4>1. CASE seq < cache[j + 1]
        BY <3>2, <3>4, <4>1
      <4>2. CASE ~(seq < cache[j + 1])
        <5>1. cache[j + 1] <= seq /\ f[j] = f[j + 1]
          BY <3>4, <3>5, <4>2
        <5>2. PICK e \in (j + 1)..N : e = f[j + 1]
          BY <3>3
        <5>3. \A m \in (j + 1)..e : m = j + 1 \/ m \in ((j + 1) + 1)..e
          OBVIOUS
        <5>4. \A m \in ((j + 1) + 1)..e : cache[m] <= seq
          BY <3>3, <5>2
        <5>5. \A m \in (j + 1)..e : cache[m] <= seq
          BY <5>1, <5>3, <5>4
        <5>6. e \in j..N /\ (e < N => seq < cache[e + 1])
          BY <3>3, <5>2
        <5> QED
          BY <5>1, <5>2, <5>5, <5>6
      <4> QED
        BY <4>1, <4>2
    <3> QED
      BY <3>1, <3>2, <3>6
  <2>5. N - 1 \in Nat
    BY <2>1
  <2>6. N - 1 \in T
    <3> HIDE DEF T
    <3>1. 0..(N - 1) \subseteq T
      BY <2>3, <2>4, <2>5, InductionUpTo
    <3> QED
      BY <2>5, <3>1
  <2>7. PICK e \in 1..N : /\ e = Scan(cache, seq) /\ \A m \in 2..e : cache[m] <= seq
                          /\ e < N => seq < cache[e + 1]
    <3>1. N - (N - 1) = 1 /\ 1 + 1 = 2
      OBVIOUS
    <3>2. Stops(1, f[1])
      BY <2>6, <3>1
    <3> QED
      BY <2>2, <3>1, <3>2
  <2>8. InsertsBehind(cache, seq, i)
          <=> i \in 1..N /\ (\A m \in 2..i : cache[m] <= seq) /\ (i < N => seq < cache[i + 1])
    BY <1>1, <1>4 DEF InsertsBehind
  <2>9. ASSUME InsertsBehind(cache, seq, i), i < e
        PROVE  FALSE
    <3>1. i + 1 \in 2..e /\ i < N /\ i + 1 \in 1..N
      BY <2>8, <2>9
    <3> QED
      BY <1>2, <2>7, <2>8, <2>9, <3>1
  <2>10. ASSUME InsertsBehind(cache, seq, i), e < i
         PROVE  FALSE
    <3>1. e + 1 \in 2..i /\ e < N /\ e + 1 \in 1..N
      BY <2>8, <2>10
    <3> QED
      BY <1>2, <2>7, <2>8, <2>10, <3>1
  <2>11. i \in Int /\ e \in Int
    BY <1>1
  <2> QED
    BY <2>7, <2>8, <2>9, <2>10, <2>11
<1> QED
  BY <1>3, <1>4
=============================================================================
