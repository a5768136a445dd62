---------------------------- MODULE PacketQueue -----------------------------
(***************************************************************************)
(* The two containers of the Bittorrent client's transfers: the packet     *)
(* queue (project3/src/queue.c) and the cache of ACKs for packets that      *)
(* arrived early (project3/src/sortedPacketCache.c).  A DATA packet is its  *)
(* sequence number, a cached ACK the number it acknowledges.                *)
(*                                                                         *)
(* Every loop of the C code that pops while the head satisfies a condition  *)
(* is given by the number of iterations it makes.                           *)
(***************************************************************************)
EXTENDS Integers, Sequences

Drop(s, k) == SubSeq(s, k + 1, Len(s))

Take(s, k) == SubSeq(s, 1, k)

Elems(s) == {s[i] : i \in 1..Len(s)}

(* mergeAtFront: ins is spliced before base (and ins becomes empty).        *)
MergeAtBack(ins, base) == base \o ins                               \* mutant

MergeAtFront(ins, base) == ins \o base

(* "while (pkt != NULL && seq(pkt) <= bound) dequeue" pops k packets.        *)
PopsUpTo(s, bound, k) ==
  /\ k \in 0..Len(s)
  /\ \A i \in 1..k : s[i] <= bound
  /\ k < Len(s) => s[k + 1] > bound

(***************************************************************************)
(* insertInOrder puts the packet behind the i-th entry.  The scan compares  *)
(* seq with cur->next only, so the head is never compared.                  *)
(***************************************************************************)
InsertsSorted(cache, seq, i) ==                      \* mutant: the head is compared
  /\ i \in 0..Len(cache)
  /\ \A j \in 1..i : cache[j] <= seq
  /\ i < Len(cache) => seq < cache[i + 1]

InsertsBehind(cache, seq, i) ==
  IF cache = << >>
  THEN i = 0
  ELSE /\ i \in 1..Len(cache)
       /\ \A j \in 2..i : cache[j] <= seq
       /\ i < Len(cache) => seq < cache[i + 1]

(* The loop itself: it stops at the last entry, or at the first one whose   *)
(* successor is larger than seq.                                            *)
Scan(cache, seq) ==
  LET scan[i \in 1..Len(cache)] ==
        IF i = Len(cache) THEN i
        ELSE IF seq < cache[i + 1] THEN i ELSE scan[i + 1]
  IN IF cache = << >> THEN 0 ELSE scan[1]

InsertBehind(cache, seq, i) == Take(cache, i) \o <<seq>> \o Drop(cache, i)

(***************************************************************************)
(* flushCache(expected, ...) moves the first k cached ACKs to the send      *)
(* queue and returns next, the new expected number.  newExpected starts at  *)
(* expected + 1 and is always one more than the largest number seen: an     *)
(* entry equal to it advances it, a smaller one is popped and changes       *)
(* nothing, a larger one ends the loop.                                     *)
(***************************************************************************)
FlushPastGap(expected, cache, k, next) ==           \* mutant: no test for a gap
  /\ k = Len(cache)
  /\ next \in {t + 1 : t \in {expected} \cup Elems(cache)}
  /\ \A t \in {expected} \cup Elems(cache) : t < next

FlushOnlyNext(expected, cache, k, next) ==          \* mutant: tests == for <=
  /\ k \in 0..Len(cache)
  /\ next = expected + 1 + k
  /\ \A j \in 1..k : cache[j] = expected + j
  /\ k < Len(cache) => cache[k + 1] # next

FlushCache(expected, cache, k, next) ==
  /\ k \in 0..Len(cache)
  /\ \E top \in {expected} \cup Elems(Take(cache, k)) :
       /\ next = top + 1
       /\ expected <= top
       /\ \A i \in 1..k : cache[i] <= top
  /\ \A j \in 1..k : \E t \in {expected} \cup Elems(Take(cache, j - 1)) : cache[j] <= t + 1
  /\ k < Len(cache) => cache[k + 1] > next

(* The value of newExpected after i iterations of the loop.                 *)
NewExpected(expected, cache) ==
  LET newExpected[i \in 0..Len(cache)] ==
        IF i = 0 THEN expected + 1
        ELSE IF cache[i] = newExpected[i - 1] THEN newExpected[i - 1] + 1
        ELSE newExpected[i - 1]
  IN newExpected

(* The loop itself: it pops entries until one is above newExpected.         *)
FlushLoop(expected, cache, k, next) ==
  LET newExpected == NewExpected(expected, cache)
  IN /\ next = newExpected[k]
     /\ \A i \in 1..k : cache[i] <= newExpected[i - 1]
     /\ k < Len(cache) => cache[k + 1] > next
=============================================================================
