---------------------------- MODULE MCPacketQueue ----------------------------
(***************************************************************************)
(* The operators of PacketQueue that stand for a loop of                    *)
(* sortedPacketCache.c, compared with the loop itself on every cache that    *)
(* calls of insertInOrder and flushCache can build.                         *)
(***************************************************************************)
EXTENDS PacketQueue

CONSTANTS
  MaxSeq,        \* bound: the largest sequence number
  MaxLen         \* bound: the entries of the cache

VARIABLE cache

Init == cache = << >>

Insert ==
  /\ Len(cache) < MaxLen
  /\ \E seq \in 1..MaxSeq, i \in 0..Len(cache) :
       InsertsBehind(cache, seq, i) /\ cache' = InsertBehind(cache, seq, i)

Flush ==
  \E expected \in 0..MaxSeq, k \in 0..Len(cache), next \in 1..(MaxSeq + 1) :
    FlushCache(expected, cache, k, next) /\ cache' = Drop(cache, k)

Next == Insert \/ Flush

Spec == Init /\ [][Next]_cache

(* InsertsBehind names the one place where insertInOrder puts a packet, in  *)
(* caches that are out of order too (a packet below the head goes behind    *)
(* it).                                                                     *)
InsertIsTheLoop ==
  \A seq \in 1..MaxSeq, i \in 0..Len(cache) :
    InsertsBehind(cache, seq, i) <=> i = Scan(cache, seq)

(* FlushCache, which says what flushCache returns without its loop, is what *)
(* the loop computes: it pops entries until one is above newExpected.       *)
FlushCacheIsTheLoop ==
  \A expected \in 0..MaxSeq, k \in 0..Len(cache), next \in 1..(MaxSeq + MaxLen + 1) :
    FlushCache(expected, cache, k, next) <=> FlushLoop(expected, cache, k, next)

(* Both operators are what their loops compute, on every cache.             *)
OperatorsAreLoops == InsertIsTheLoop /\ FlushCacheIsTheLoop
=============================================================================
