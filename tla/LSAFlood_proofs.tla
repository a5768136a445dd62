--------------------------- MODULE LSAFlood_proofs ---------------------------
(***************************************************************************)
(* Theorems about LSAFlood, for any nodes, networks and scenarios: type     *)
(* correctness, that an older LSA never replaces a newer one, that flooding *)
(* is reliable, and that a network which has become quiet agrees.           *)
(*                                                                         *)
(* The third needs an invariant on what is under way.  Whatever waits in a   *)
(* pool or travels as an LSA was known to the node that sends it and to the *)
(* node it is about (LSAOK), an ACK speaks the truth about the node that    *)
(* sent it (PacketOK), and a configured neighbour is at distance 1 until it *)
(* is found down (DistancesOK).  So an ACK takes out of a pool only what    *)
(* its sender knows, nobody holds a higher number of a daemon than that     *)
(* daemon has itself unless it has restarted, and what is new goes to every *)
(* neighbour but the one it came from.                                      *)
(*                                                                         *)
(* The last adds what TTLs are good for (SpreadOK): of what is under way,   *)
(* the TTL and the number of the daemons that know it already are together  *)
(* more than InitTTL, so an LSA with its last hop behind it is known to     *)
(* InitTTL daemons and by the one that reads it.                            *)
(***************************************************************************)
EXTENDS LSAFlood, SequenceTheorems, FiniteSetTheorems, TLAPS

-----------------------------------------------------------------------------
(* The parts of the tables *)

Distances == {DOWN, 0, 1, 2, NULL}
Sent == [lsa : LSAs, hasRetran : BOOLEAN]
Pools == [Node -> Seq(Sent)]

(* TypeOK, with the pools as functions.                                     *)
TypeInv ==
  /\ scen \in ScenarioType
  /\ tRes \in [Node -> Resources]
  /\ distance \in [Node -> [Node -> Distances]]
  /\ lastLSA \in [Node -> [Node -> LSAs \cup {NULL}]]
  /\ ackPool \in [Node -> Pools]
  /\ list \in [Node -> SUBSET Packets] /\ net \subseteq Packets
  /\ restarted \subseteq Node /\ severed \subseteq Node \X Node

LEMMA TypeInvIsTypeOK == TypeInv => TypeOK
<1> SUFFICES ASSUME TypeInv PROVE TypeOK
  OBVIOUS
<1>1. \A n \in Node : ackPool[n] \in [Node -> Seq(Sent)]
  BY DEF TypeInv, Pools
<1>2. \A n, d \in Node : ackPool[n][d] \in Seq([lsa : LSAs, hasRetran : BOOLEAN])
  BY <1>1 DEF Sent
<1>3. distance \in [Node -> [Node -> {DOWN, 0, 1, 2, NULL}]]
  BY DEF TypeInv, Distances
<1> QED
  BY <1>2, <1>3 DEF TypeInv, TypeOK

LEMMA TTLs == InitTTL \in Nat /\ 1 < InitTTL
BY FloodAssumption

LEMMA ConfiguredType ==
  ASSUME scen \in ScenarioType, NEW n \in Node
  PROVE  ConfiguredDistance(n) \in [Node -> Distances]
BY DEF ConfiguredDistance, Distances

LEMMA SettledType ==
  ASSUME scen \in ScenarioType, NEW n \in Node, NEW m \in Node
  PROVE  SettledLSA(n, m) \in LSAs
<1>1. scen.nbr \in [Node -> SUBSET Node] /\ scen.resFile \in [Node -> SUBSET Nat]
  BY DEF ScenarioType
<1>2. InitTTL \in 0..InitTTL /\ InitTTL - 1 \in 0..InitTTL /\ 1 \in Nat
  BY TTLs
<1> QED
  BY <1>1, <1>2 DEF SettledLSA, LSAs

LEMMA LiveType ==
  ASSUME NEW dist
  PROVE  Live(dist) \subseteq Node
BY DEF Live

LEMMA QueuedType ==
  ASSUME NEW n \in Node, NEW dests \in SUBSET Node, NEW lsa \in LSAs
  PROVE  Queued(n, dests, lsa) \subseteq Packets
BY DEF Queued, Packets

LEMMA PooledType ==
  ASSUME NEW pools \in Pools, NEW dests \in SUBSET Node, NEW lsa \in LSAs
  PROVE  Pooled(pools, dests, lsa) \in Pools
<1>1. [lsa |-> lsa, hasRetran |-> FALSE] \in Sent
  BY DEF Sent
<1>2. \A d \in Node : pools[d] \in Seq(Sent)
  BY DEF Pools
<1>3. \A d \in Node : Append(pools[d], [lsa |-> lsa, hasRetran |-> FALSE]) \in Seq(Sent)
  BY <1>1, <1>2, AppendProperties
<1> QED
  BY <1>2, <1>3 DEF Pooled, Pools

LEMMA RemoveType ==
  ASSUME NEW s \in Seq(Sent), NEW i \in DOMAIN s
  PROVE  RemoveAt(s, i) \in Seq(Sent)
<1>1. Len(s) \in Nat /\ i \in 1..Len(s)
  BY LenProperties
<1>2. i - 1 \in Int /\ i + 1 \in Int /\ 1 \in Int /\ Len(s) \in Int
  BY <1>1
<1>3. (\A j \in 1..(i - 1) : s[j] \in Sent) /\ (\A j \in (i + 1)..Len(s) : s[j] \in Sent)
  BY <1>1, ElementOfSeq
<1>4. SubSeq(s, 1, i - 1) \in Seq(Sent)
  BY <1>2, <1>3, SubSeqProperties
<1>5. SubSeq(s, i + 1, Len(s)) \in Seq(Sent)
  BY <1>2, <1>3, SubSeqProperties
<1> QED
  BY <1>4, <1>5, ConcatProperties DEF RemoveAt

LEMMA EmptyPoolType == << >> \in Seq(Sent)
OBVIOUS

-----------------------------------------------------------------------------
(* Type correctness *)

LEMMA TypeInit == Init => TypeInv
<1> SUFFICES ASSUME Init PROVE TypeInv
  OBVIOUS
<1>1. scen \in ScenarioType
  BY FloodAssumption DEF Init
<1>2. \A n \in Node : ConfiguredDistance(n) \in [Node -> Distances]
  BY <1>1, ConfiguredType
<1>3. distance \in [Node -> [Node -> Distances]]
  <2>1. \A n, m \in Node : ConfiguredDistance(n)[m] \in Distances /\ 2 \in Distances
    BY <1>2 DEF Distances
  <2> QED
    BY <2>1 DEF Init
<1>4. \A n, m \in Node : SettledLSA(n, m) \in LSAs
  BY <1>1, SettledType
<1>5. lastLSA \in [Node -> [Node -> LSAs \cup {NULL}]]
  BY <1>4 DEF Init
<1>6. ackPool \in [Node -> Pools]
  BY EmptyPoolType DEF Init, Pools
<1>7. list \in [Node -> SUBSET Packets] /\ net \subseteq Packets
        /\ tRes \in [Node -> Resources] /\ restarted \subseteq Node /\ severed \subseteq Node \X Node
  <2>1. scen.resFile \in [Node -> SUBSET Nat]
    BY <1>1 DEF ScenarioType
  <2>2. \A n \in Node : LoadResourceTable(scen.resFile[n]) \in Resources
    BY <2>1 DEF LoadResourceTable, Resources
  <2> QED
    BY <2>2 DEF Init
<1> QED
  BY <1>1, <1>3, <1>5, <1>6, <1>7 DEF TypeInv

LEMMA UpdatesType ==
  ASSUME TypeInv, NEW pkt \in net, NEW dist \in [Node -> Distances],
         NEW last \in [Node -> LSAs \cup {NULL}], NEW dests \in SUBSET Node, NEW lsa \in LSAs,
         Updates(pkt, dist, last, dests, lsa)
  PROVE  TypeInv'
<1>1. pkt.to \in Node /\ pkt.from \in Node /\ pkt.lsa \in LSAs
  BY DEF TypeInv, Packets
<1>2. [pkt.lsa EXCEPT !.links = {}, !.objs = {}] \in LSAs
  <2>1. {} \in SUBSET Node /\ {} \in SUBSET Nat
    OBVIOUS
  <2> QED
    BY <1>1, <2>1 DEF LSAs
<1>3. [type |-> "ACK", from |-> pkt.to, to |-> pkt.from,
       lsa |-> [pkt.lsa EXCEPT !.links = {}, !.objs = {}]] \in Packets
  BY <1>1, <1>2 DEF Packets
<1>4. distance' \in [Node -> [Node -> Distances]]
  BY DEF Updates, TypeInv
<1>5. lastLSA' \in [Node -> [Node -> LSAs \cup {NULL}]]
  BY DEF Updates, TypeInv
<1>6. list' \in [Node -> SUBSET Packets]
  <2>1. Queued(pkt.to, dests, lsa) \subseteq Packets
    BY <1>1, QueuedType
  <2> QED
    BY <1>3, <2>1 DEF Updates, TypeInv
<1>7. ackPool' \in [Node -> Pools]
  <2>1. Pooled(ackPool[pkt.to], dests, lsa) \in Pools
    BY <1>1, PooledType DEF TypeInv
  <2> QED
    BY <2>1 DEF Updates, TypeInv
<1>8. severed' \subseteq Node \X Node
  BY <1>1 DEF Updates, TypeInv
<1>9. /\ scen' \in ScenarioType /\ tRes' \in [Node -> Resources]
      /\ net' \subseteq Packets /\ restarted' \subseteq Node
  BY DEF Updates, Reads, TypeInv
<1> QED
  BY <1>4, <1>5, <1>6, <1>7, <1>8, <1>9 DEF TypeInv

LEMMA ReceiveType ==
  ASSUME TypeInv, NEW pkt \in net, Receive(pkt)
  PROVE  TypeInv'
<1> DEFINE n == pkt.to
           m == pkt.lsa.sender
<1>1. n \in Node /\ pkt.from \in Node /\ pkt.lsa \in LSAs /\ m \in Node
  BY DEF TypeInv, Packets, LSAs
<1>2. distance[n] \in [Node -> Distances] /\ lastLSA[n] \in [Node -> LSAs \cup {NULL}]
  BY <1>1 DEF TypeInv
<1>3. Live(distance[n]) \subseteq Node
  BY LiveType
<1>4. {} \in SUBSET Node /\ {m} \in SUBSET Node
  BY <1>1
<1>5. CASE RecvAck(pkt)
  <2>1. ackPool[n] \in Pools /\ ackPool[n][pkt.from] \in Seq(Sent)
    BY <1>1 DEF TypeInv, Pools
  <2>2. \A i \in Acked(ackPool[n][pkt.from], pkt.lsa) :
          RemoveAt(ackPool[n][pkt.from], i) \in Seq(Sent)
    BY <2>1, RemoveType DEF Acked
  <2>3. ackPool' \in [Node -> Pools]
    <3>1. CASE UNCHANGED ackPool
      BY <3>1 DEF TypeInv
    <3>2. CASE ~UNCHANGED ackPool
      <4>1. PICK i \in Acked(ackPool[n][pkt.from], pkt.lsa) :
              ackPool' = [ackPool EXCEPT ![n][pkt.from] = RemoveAt(ackPool[n][pkt.from], i)]
        BY <1>5, <3>2 DEF RecvAck
      <4> DEFINE shorter == RemoveAt(ackPool[n][pkt.from], i)
      <4>2. shorter \in Seq(Sent)
        BY <2>2
      <4> HIDE DEF shorter
      <4>3. ackPool' = [ackPool EXCEPT ![n][pkt.from] = shorter]
        BY <4>1 DEF shorter
      <4>4. [ackPool[n] EXCEPT ![pkt.from] = shorter] \in Pools
        BY <1>1, <2>1, <4>2 DEF Pools
      <4> QED
        BY <1>1, <4>3, <4>4 DEF TypeInv
    <3> QED
      BY <3>1, <3>2
  <2> QED
    BY <1>5, <2>3 DEF RecvAck, Reads, TypeInv
<1>6. CASE RecvZero(pkt)
  <2>1. CASE distance[n][m] = 2
    <3>1. [distance[n] EXCEPT ![m] = NULL] \in [Node -> Distances]
      BY <1>2 DEF Distances
    <3>2. [lastLSA[n] EXCEPT ![m] = NULL] \in [Node -> LSAs \cup {NULL}]
      BY <1>2
    <3>3. Live(distance[n]) \ {pkt.from} \in SUBSET Node
      BY <1>3
    <3> QED
      BY <1>1, <1>6, <2>1, <3>1, <3>2, <3>3, UpdatesType DEF RecvZero
  <2>2. CASE distance[n][m] # 2
    BY <1>1, <1>2, <1>4, <1>6, <2>2, UpdatesType DEF RecvZero
  <2> QED
    BY <2>1, <2>2
<1>7. CASE RecvMineHigher(pkt)
  <2>1. lastLSA[n][n] \in LSAs /\ pkt.lsa.seq \in Nat
    BY <1>1, <1>2, <1>7 DEF RecvMineHigher, IsMine, IsHigher, IsKnown, Stored, LSAs
  <2>2. [lastLSA[n][n] EXCEPT !.seq = pkt.lsa.seq] \in LSAs
    BY <2>1 DEF LSAs
  <2>3. [lastLSA[n] EXCEPT ![n].seq = pkt.lsa.seq] \in [Node -> LSAs \cup {NULL}]
    BY <1>1, <1>2, <2>2
  <2> QED
    BY <1>1, <1>2, <1>4, <1>7, <2>3, UpdatesType DEF RecvMineHigher
<1>8. CASE RecvLower(pkt)
  <2>1. Stored(pkt) \in LSAs
    BY <1>1, <1>2, <1>8 DEF RecvLower, IsLower, IsKnown, Stored
  <2>2. [distance[n] EXCEPT ![m] = 1] \in [Node -> Distances]
    BY <1>2 DEF Distances
  <2>3. CASE m = pkt.from
    BY <1>1, <1>2, <1>4, <1>8, <2>1, <2>2, <2>3, UpdatesType DEF RecvLower
  <2>4. CASE m # pkt.from
    BY <1>1, <1>2, <1>4, <1>8, <2>4, UpdatesType DEF RecvLower
  <2> QED
    BY <2>3, <2>4
<1>9. CASE RecvNew(pkt)
  <2> DEFINE dist == [distance[n] EXCEPT ![m] = CASE @ = NULL -> 2 [] @ = DOWN -> 1 [] OTHER -> @]
  <2>1. dist \in [Node -> Distances]
    BY <1>1, <1>2 DEF Distances
  <2>2. [lastLSA[n] EXCEPT ![m] = pkt.lsa] \in [Node -> LSAs \cup {NULL}]
    BY <1>1, <1>2
  <2>3. Flooded(pkt, dist) \in SUBSET Node
    BY LiveType DEF Flooded
  <2>4. OneHopLess(pkt.lsa) \in LSAs
    <3>1. pkt.lsa.TTL \in 0..InitTTL /\ pkt.lsa.TTL # 0
      BY <1>1, <1>9 DEF RecvNew, IsNew, IsZero, IsLSA, LSAs
    <3>2. pkt.lsa.TTL - 1 \in 0..InitTTL
      BY <3>1, TTLs
    <3> QED
      BY <1>1, <3>2 DEF OneHopLess, LSAs
  <2>5. Updates(pkt, dist, [lastLSA[n] EXCEPT ![m] = pkt.lsa], Flooded(pkt, dist), OneHopLess(pkt.lsa))
    BY <1>9 DEF RecvNew
  <2> HIDE DEF dist
  <2> QED
    BY <2>1, <2>2, <2>3, <2>4, <2>5, UpdatesType
<1>10. CASE RecvHigher(pkt)
  <2>1. [lastLSA[n] EXCEPT ![m] = pkt.lsa] \in [Node -> LSAs \cup {NULL}]
    BY <1>1, <1>2
  <2>2. Flooded(pkt, distance[n]) \in SUBSET Node
    BY LiveType DEF Flooded
  <2>3. OneHopLess(pkt.lsa) \in LSAs
    <3>1. pkt.lsa.TTL \in 0..InitTTL /\ pkt.lsa.TTL # 0
      BY <1>1, <1>10 DEF RecvHigher, IsHigher, IsKnown, IsZero, IsLSA, LSAs
    <3>2. pkt.lsa.TTL - 1 \in 0..InitTTL
      BY <3>1, TTLs
    <3> QED
      BY <1>1, <3>2 DEF OneHopLess, LSAs
  <2> QED
    BY <1>2, <1>10, <2>1, <2>2, <2>3, UpdatesType DEF RecvHigher
<1>11. CASE RecvSame(pkt)
  BY <1>1, <1>2, <1>4, <1>11, UpdatesType DEF RecvSame
<1> QED
  BY <1>5, <1>6, <1>7, <1>8, <1>9, <1>10, <1>11 DEF Receive

LEMMA RetransmitType ==
  ASSUME TypeInv, NEW n \in Node, NEW d \in Node, Retransmit(n, d)
  PROVE  TypeInv'
<1> DEFINE pool == ackPool[n][d]
<1>1. ackPool[n] \in Pools /\ pool \in Seq(Sent) /\ Len(pool) \in Nat /\ DOMAIN pool = 1..Len(pool)
  BY LenProperties DEF TypeInv, Pools
<1>2. PICK k \in DOMAIN pool :
        /\ list' = [list EXCEPT ![n] =
             @ \cup {[type |-> "LSA", from |-> n, to |-> d, lsa |-> pool[i].lsa] : i \in ToRetransmit(pool, k)}]
        /\ \E at \in [1..Cardinality(ToRetransmit(pool, k)) -> ToRetransmit(pool, k)] :
             ackPool' = [ackPool EXCEPT ![n][d] =
               Marked(pool, ToRetransmit(pool, k))
                 \o [i \in 1..Cardinality(ToRetransmit(pool, k)) |-> [lsa |-> pool[at[i]].lsa, hasRetran |-> FALSE]]]
  BY DEF Retransmit
<1> DEFINE due == ToRetransmit(pool, k)
           num == Cardinality(due)
<1>3. due \subseteq 1..Len(pool) /\ due \subseteq 1..k
  BY <1>1 DEF ToRetransmit
<1>4. num \in Nat
  <2>1. IsFiniteSet(1..k)
    BY <1>1, FS_Interval
  <2> QED
    BY <1>3, <2>1, FS_Subset, FS_CardinalityType
<1>5. \A i \in 1..Len(pool) : pool[i] \in Sent /\ pool[i].lsa \in LSAs
  <2> HIDE DEF pool
  <2>1. \A i \in 1..Len(pool) : pool[i] \in Sent
    BY <1>1, ElementOfSeq
  <2> QED
    BY <2>1 DEF Sent
<1>6. list' \in [Node -> SUBSET Packets]
  <2>1. {[type |-> "LSA", from |-> n, to |-> d, lsa |-> pool[i].lsa] : i \in due} \subseteq Packets
    BY <1>3, <1>5 DEF Packets
  <2> QED
    BY <1>2, <2>1 DEF TypeInv
<1>7. Marked(pool, due) \in Seq(Sent)
  <2>1. \A i \in 1..Len(pool) :
          [lsa |-> pool[i].lsa, hasRetran |-> pool[i].hasRetran \/ i \in due] \in Sent
    BY <1>5 DEF Sent
  <2>2. Marked(pool, due) \in [1..Len(pool) -> Sent]
    BY <1>1, <2>1 DEF Marked
  <2> QED
    BY <1>1, <2>2
<1> HIDE DEF due, num
<1>8. PICK at \in [1..num -> due] :
        ackPool' = [ackPool EXCEPT ![n][d] =
          Marked(pool, due) \o [i \in 1..num |-> [lsa |-> pool[at[i]].lsa, hasRetran |-> FALSE]]]
  BY <1>2 DEF due, num
<1> DEFINE copies == [i \in 1..num |-> [lsa |-> pool[at[i]].lsa, hasRetran |-> FALSE]]
<1>9. copies \in Seq(Sent)
  <2>1. \A i \in 1..num : [lsa |-> pool[at[i]].lsa, hasRetran |-> FALSE] \in Sent
    BY <1>3, <1>5, <1>8 DEF Sent
  <2>2. copies \in [1..num -> Sent]
    BY <2>1
  <2> QED
    BY <1>4, <2>2
<1>10. Marked(pool, due) \o copies \in Seq(Sent)
  BY <1>7, <1>9, ConcatProperties
<1> HIDE DEF copies
<1>11. ackPool' \in [Node -> Pools]
  <2>1. ackPool' = [ackPool EXCEPT ![n][d] = Marked(pool, due) \o copies]
    BY <1>8 DEF copies
  <2> QED
    BY <1>10, <2>1 DEF TypeInv, Pools
<1> QED
  BY <1>6, <1>11 DEF Retransmit, history, TypeInv

LEMMA NeighborDownType ==
  ASSUME TypeInv, NEW n \in Node, NEW d \in Node, NeighborDown(n, d)
  PROVE  TypeInv'
<1> DEFINE dist  == [distance[n] EXCEPT ![d] = DOWN]
           known == lastLSA[n][d] # NULL
           lsa   == IF known THEN [lastLSA[n][d] EXCEPT !.TTL = 0] ELSE NULL
           dests == IF known THEN Live(dist) ELSE {}
<1>1. dist \in [Node -> Distances]
  BY DEF TypeInv, Distances
<1>2. known => lsa \in LSAs
  <2>1. known => lastLSA[n][d] \in LSAs
    BY DEF TypeInv
  <2>2. 0 \in 0..InitTTL
    BY TTLs
  <2> QED
    BY <2>1, <2>2 DEF LSAs
<1>3. dests \in SUBSET Node
  BY LiveType
<1>4. [ackPool[n] EXCEPT ![d] = << >>] \in Pools
  BY EmptyPoolType DEF TypeInv, Pools
<1>5. Pooled([ackPool[n] EXCEPT ![d] = << >>], dests, lsa) \in Pools
  <2>1. CASE known
    BY <1>2, <1>3, <1>4, <2>1, PooledType
  <2>2. CASE ~known
    <3>1. dests = {}
      BY <2>2
    <3> HIDE DEF dests
    <3> QED
      BY <1>4, <3>1 DEF Pooled, Pools
  <2> QED
    BY <2>1, <2>2
<1>6. Queued(n, dests, lsa) \subseteq Packets
  <2>1. CASE known
    BY <1>2, <1>3, <2>1, QueuedType
  <2>2. CASE ~known
    <3>1. dests = {}
      BY <2>2
    <3> HIDE DEF dests
    <3> QED
      BY <3>1 DEF Queued
  <2> QED
    BY <2>1, <2>2
<1>7. /\ distance' = [distance EXCEPT ![n] = dist]
      /\ ackPool' = [ackPool EXCEPT ![n] = Pooled([@ EXCEPT ![d] = << >>], dests, lsa)]
  BY DEF NeighborDown
<1>12. PICK pick \in RemovedFrom(list[n], ackPool[n][d]) :
         list' = [list EXCEPT ![n] = (@ \ {pick[i] : i \in DOMAIN pick}) \cup Queued(n, dests, lsa)]
  BY DEF NeighborDown
<1>13. UNCHANGED <<tRes, lastLSA, net, restarted>> /\ severed' = severed \cup {<<n, d>>}
  BY DEF NeighborDown
<1> HIDE DEF dist, known, lsa, dests
<1>8. distance' \in [Node -> [Node -> Distances]]
  BY <1>1, <1>7 DEF TypeInv
<1>9. ackPool' \in [Node -> Pools]
  BY <1>5, <1>7 DEF TypeInv
<1>10. list' \in [Node -> SUBSET Packets]
  BY <1>6, <1>12 DEF TypeInv
<1>11. scen' \in ScenarioType
  <2>1. scen' = [scen EXCEPT !.downs = @ \ {<<n, d>>}]
    BY DEF NeighborDown
  <2> QED
    BY <2>1 DEF TypeInv, ScenarioType
<1> QED
  BY <1>8, <1>9, <1>10, <1>11, <1>13 DEF TypeInv

LEMMA AdvertisesType ==
  ASSUME TypeInv, NEW n \in Node, NEW objs \in SUBSET Nat, Advertises(n, objs),
         scen' \in ScenarioType, tRes' \in [Node -> Resources]
  PROVE  TypeInv'
<1> DEFINE first == lastLSA[n][n] = NULL
           new   == [sender |-> n,
                     seq    |-> IF first THEN 0 ELSE lastLSA[n][n].seq + 1,
                     TTL    |-> IF first THEN InitTTL ELSE lastLSA[n][n].TTL,
                     links  |-> Live(distance[n]),
                     objs   |-> objs]
<1>1. ~first => lastLSA[n][n] \in LSAs
  BY DEF TypeInv
<1>2. Live(distance[n]) \in SUBSET Node
  BY LiveType
<1>3. new \in LSAs
  <2>1. (IF first THEN 0 ELSE lastLSA[n][n].seq + 1) \in Nat
    BY <1>1 DEF LSAs
  <2>2. (IF first THEN InitTTL ELSE lastLSA[n][n].TTL) \in 0..InitTTL
    BY <1>1, TTLs DEF LSAs
  <2> QED
    BY <1>2, <2>1, <2>2 DEF LSAs
<1>4. /\ lastLSA' = [lastLSA EXCEPT ![n][n] = new]
      /\ list' = [list EXCEPT ![n] = @ \cup Queued(n, Live(distance[n]), new)]
      /\ ackPool' = [ackPool EXCEPT ![n] = Pooled(@, Live(distance[n]), new)]
  BY DEF Advertises
<1> HIDE DEF new
<1>5. lastLSA' \in [Node -> [Node -> LSAs \cup {NULL}]]
  BY <1>3, <1>4 DEF TypeInv
<1>6. list' \in [Node -> SUBSET Packets]
  BY <1>2, <1>3, <1>4, QueuedType DEF TypeInv
<1>7. ackPool' \in [Node -> Pools]
  BY <1>2, <1>3, <1>4, PooledType DEF TypeInv
<1> QED
  BY <1>5, <1>6, <1>7 DEF Advertises, history, TypeInv

LEMMA NamesType ==
  ASSUME NEW res \in Resources, NEW objs \in Names(res)
  PROVE  objs \subseteq Nat
BY DEF Names, Resources

LEMMA NewAdvertisementType ==
  ASSUME TypeInv, NEW n \in Node, NewAdvertisement(n)
  PROVE  TypeInv'
<1>1. scen' \in ScenarioType
  <2>1. CASE UNCHANGED scen
    BY <2>1 DEF TypeInv
  <2>2. CASE scen.cycles[n] > 0 /\ scen' = [scen EXCEPT !.cycles[n] = @ - 1]
    <3>1. scen.cycles \in [Node -> Nat] /\ scen.cycles[n] - 1 \in Nat
      BY <2>2 DEF TypeInv, ScenarioType
    <3>2. [scen.cycles EXCEPT ![n] = @ - 1] \in [Node -> Nat]
      BY <3>1
    <3> QED
      BY <2>2, <3>2 DEF TypeInv, ScenarioType
  <2> QED
    BY <2>1, <2>2 DEF NewAdvertisement
<1>2. tRes[n] \in Resources /\ tRes' \in [Node -> Resources]
  BY DEF NewAdvertisement, TypeInv
<1>3. PICK objs \in Names(tRes[n]) : Advertises(n, objs)
  BY DEF NewAdvertisement
<1>4. objs \in SUBSET Nat
  BY <1>2, NamesType
<1> QED
  BY <1>1, <1>2, <1>3, <1>4, AdvertisesType

LEMMA InsertLocalResourceType ==
  ASSUME TypeInv, NEW n \in Node, InsertLocalResource(n)
  PROVE  TypeInv'
<1> DEFINE obj == scen.files[n]
<1>1. obj > 0 /\ scen' = [scen EXCEPT !.files[n] = @ - 1]
  BY DEF InsertLocalResource
<1>2. PICK res \in InsertResource(tRes[n], obj) : tRes' = [tRes EXCEPT ![n] = res]
  BY DEF InsertLocalResource
<1>3. PICK objs \in Names(tRes[n]) : Advertises(n, objs \cup {obj})
  BY DEF InsertLocalResource
<1>4. scen.files \in [Node -> Nat] /\ obj \in Nat
  BY DEF TypeInv, ScenarioType
<1>5. scen' \in ScenarioType
  <2>1. scen.files[n] - 1 \in Nat
    BY <1>1, <1>4
  <2>2. [scen.files EXCEPT ![n] = @ - 1] \in [Node -> Nat]
    BY <1>4, <2>1
  <2> QED
    BY <1>1, <2>2 DEF TypeInv, ScenarioType
<1> HIDE DEF obj
<1>6. tRes[n] \in Resources
  BY DEF TypeInv
<1>7. tRes' \in [Node -> Resources]
  <2>1. res \in Resources
    BY <1>2, <1>4, <1>6, NamesType DEF InsertResource, Resources
  <2> QED
    BY <1>2, <2>1 DEF TypeInv
<1>8. objs \cup {obj} \in SUBSET Nat
  BY <1>4, <1>6, NamesType
<1> QED
  BY <1>3, <1>5, <1>7, <1>8, AdvertisesType

LEMMA TypeStep == TypeInv /\ [Next]_vars => TypeInv'
<1> SUFFICES ASSUME TypeInv, [Next]_vars PROVE TypeInv'
  OBVIOUS
<1> USE DEF tables, history
<1>1. CASE UNCHANGED vars
  BY <1>1 DEF vars, TypeInv
<1>2. ASSUME NEW n \in Node, Write(n)
      PROVE  TypeInv'
  BY <1>2 DEF Write, TypeInv
<1>3. ASSUME NEW n \in Node, Restart(n)
      PROVE  TypeInv'
  <2>1. ConfiguredDistance(n) \in [Node -> Distances]
    BY ConfiguredType DEF TypeInv
  <2>2. [d \in Node |-> << >>] \in Pools
    BY EmptyPoolType DEF Pools
  <2>3. scen' \in ScenarioType
    BY <1>3 DEF Restart, TypeInv, ScenarioType
  <2>4. /\ distance' \in [Node -> [Node -> Distances]]
        /\ lastLSA' \in [Node -> [Node -> LSAs \cup {NULL}]]
        /\ ackPool' \in [Node -> Pools]
        /\ list' \in [Node -> SUBSET Packets]
    BY <1>3, <2>1, <2>2 DEF Restart, TypeInv
  <2>5. tRes' \in [Node -> Resources]
    <3>1. tRes[n] \in Resources /\ {} \in SUBSET Nat
      BY DEF TypeInv
    <3> QED
      BY <1>3, <3>1 DEF Restart, LoadResourceTable, TypeInv, Resources
  <2> QED
    BY <1>3, <2>3, <2>4, <2>5 DEF Restart, TypeInv
<1>4. ASSUME NEW pkt \in net, Lose(pkt)
      PROVE  TypeInv'
  <2>1. scen' \in ScenarioType
    <3>1. scen.losses \in Nat /\ scen.losses > 0
      BY <1>4 DEF Lose, TypeInv, ScenarioType
    <3>2. scen.losses - 1 \in Nat
      BY <3>1
    <3> QED
      BY <1>4, <3>2 DEF Lose, TypeInv, ScenarioType
  <2> QED
    BY <1>4, <2>1 DEF Lose, TypeInv
<1> QED
  BY <1>1, <1>2, <1>3, <1>4, NewAdvertisementType, InsertLocalResourceType, RetransmitType,
     NeighborDownType, ReceiveType
     DEF Next

LEMMA TypeInvHolds == Spec => []TypeInv
BY TypeInit, TypeStep, PTL DEF Spec

(* The variables of the daemons stay in their types, for any network: no    *)
(* TTL falls below 0 or rises above InitTTL, however LSAs are flooded.      *)
THEOREM FloodTypeCorrect == Spec => []TypeOK
<1> QED
  BY TypeInvHolds, TypeInvIsTypeOK, PTL

-----------------------------------------------------------------------------
(* An older LSA never replaces a newer one *)

NotOlder(new, old) == old # NULL /\ new # NULL => new.seq >= old.seq

LEMMA SameIsNotOlder ==
  ASSUME NEW x \in LSAs \cup {NULL}
  PROVE  NotOlder(x, x)
<1>1. x # NULL => x.seq \in Nat
  BY DEF LSAs
<1> QED
  BY <1>1 DEF NotOlder

(* Every branch of updateRoutingTableFromLSA replaces one entry at most.    *)
LEMMA UpdatesNotOlder ==
  ASSUME TypeInv, NEW pkt \in net, NEW dist, NEW last, NEW dests, NEW lsa,
         Updates(pkt, dist, last, dests, lsa),
         \A m \in Node : NotOlder(last[m], lastLSA[pkt.to][m])
  PROVE  \A n, m \in Node : NotOlder(lastLSA'[n][m], lastLSA[n][m])
<1>1. lastLSA' = [lastLSA EXCEPT ![pkt.to] = last] /\ pkt.to \in Node
  BY DEF Updates, TypeInv, Packets
<1> SUFFICES ASSUME NEW n \in Node, NEW m \in Node
             PROVE  NotOlder(lastLSA'[n][m], lastLSA[n][m])
  OBVIOUS
<1>2. CASE n = pkt.to
  <2>1. lastLSA'[n][m] = last[m]
    BY <1>1, <1>2 DEF TypeInv
  <2> QED
    BY <1>2, <2>1
<1>3. CASE n # pkt.to
  <2>1. lastLSA'[n][m] = lastLSA[n][m] /\ lastLSA[n][m] \in LSAs \cup {NULL}
    BY <1>1, <1>3 DEF TypeInv
  <2> QED
    BY <2>1, SameIsNotOlder
<1> QED
  BY <1>2, <1>3

LEMMA ReceiveNotOlder ==
  ASSUME TypeInv, NEW pkt \in net, Receive(pkt)
  PROVE  \A n, m \in Node : NotOlder(lastLSA'[n][m], lastLSA[n][m])
<1> DEFINE to   == pkt.to
           from == pkt.lsa.sender
<1>1. /\ to \in Node /\ from \in Node /\ pkt.lsa \in LSAs /\ pkt.lsa.seq \in Nat
      /\ lastLSA[to] \in [Node -> LSAs \cup {NULL}]
  BY DEF TypeInv, Packets, LSAs
<1>2. \A n, m \in Node : NotOlder(lastLSA[n][m], lastLSA[n][m])
  BY SameIsNotOlder DEF TypeInv
<1>3. CASE RecvAck(pkt)
  BY <1>2, <1>3 DEF RecvAck
<1>4. CASE RecvZero(pkt)
  <2>1. \A m \in Node : NotOlder([lastLSA[to] EXCEPT ![from] = NULL][m], lastLSA[to][m])
    BY <1>1, <1>2 DEF NotOlder
  <2> QED
    BY <1>1, <1>2, <1>4, <2>1, UpdatesNotOlder DEF RecvZero
<1>5. CASE RecvMineHigher(pkt)
  <2>1. lastLSA[to][to] \in LSAs /\ lastLSA[to][to].seq < pkt.lsa.seq
    BY <1>1, <1>5 DEF RecvMineHigher, IsMine, IsHigher, IsKnown, Stored
  <2>2. [lastLSA[to] EXCEPT ![to].seq = pkt.lsa.seq][to].seq = pkt.lsa.seq
    BY <1>1, <2>1 DEF LSAs
  <2>3. lastLSA[to][to].seq \in Nat
    BY <2>1 DEF LSAs
  <2>4. pkt.lsa.seq >= lastLSA[to][to].seq
    BY <1>1, <2>1, <2>3
  <2>5. \A m \in Node : NotOlder([lastLSA[to] EXCEPT ![to].seq = pkt.lsa.seq][m], lastLSA[to][m])
    <3>1. NotOlder([lastLSA[to] EXCEPT ![to].seq = pkt.lsa.seq][to], lastLSA[to][to])
      BY <2>2, <2>4 DEF NotOlder
    <3>2. \A m \in Node \ {to} : [lastLSA[to] EXCEPT ![to].seq = pkt.lsa.seq][m] = lastLSA[to][m]
      BY <1>1
    <3> QED
      BY <1>1, <1>2, <3>1, <3>2
  <2> QED
    BY <1>1, <1>5, <2>5, UpdatesNotOlder DEF RecvMineHigher
<1>6. CASE RecvLower(pkt)
  BY <1>1, <1>2, <1>6, UpdatesNotOlder DEF RecvLower
<1>7. CASE RecvNew(pkt)
  <2>1. lastLSA[to][from] = NULL
    BY <1>7 DEF RecvNew, IsNew, Stored
  <2>2. \A m \in Node : NotOlder([lastLSA[to] EXCEPT ![from] = pkt.lsa][m], lastLSA[to][m])
    BY <1>1, <1>2, <2>1 DEF NotOlder
  <2> QED
    BY <1>1, <1>7, <2>2, UpdatesNotOlder DEF RecvNew
<1>8. CASE RecvHigher(pkt)
  <2>1. lastLSA[to][from] \in LSAs /\ lastLSA[to][from].seq < pkt.lsa.seq
    BY <1>1, <1>8 DEF RecvHigher, IsHigher, IsKnown, Stored
  <2>2. lastLSA[to][from].seq \in Nat
    BY <2>1 DEF LSAs
  <2>3. NotOlder(pkt.lsa, lastLSA[to][from])
    BY <1>1, <2>1, <2>2 DEF NotOlder
  <2>4. \A m \in Node : NotOlder([lastLSA[to] EXCEPT ![from] = pkt.lsa][m], lastLSA[to][m])
    BY <1>1, <1>2, <2>3
  <2> QED
    BY <1>1, <1>8, <2>4, UpdatesNotOlder DEF RecvHigher
<1>9. CASE RecvSame(pkt)
  BY <1>1, <1>2, <1>9, UpdatesNotOlder DEF RecvSame
<1> QED
  BY <1>3, <1>4, <1>5, <1>6, <1>7, <1>8, <1>9 DEF Receive

LEMMA StepNotOlder ==
  ASSUME TypeInv, [Next]_vars
  PROVE  \A n, m \in Node : NotOlder(lastLSA'[n][m], lastLSA[n][m])
<1> USE DEF tables, history
<1>1. \A n, m \in Node : NotOlder(lastLSA[n][m], lastLSA[n][m])
  BY SameIsNotOlder DEF TypeInv
<1>2. CASE UNCHANGED lastLSA
  BY <1>1, <1>2
<1>3. ASSUME NEW p \in Node, NEW objs, Advertises(p, objs)
      PROVE  \A n, m \in Node : NotOlder(lastLSA'[n][m], lastLSA[n][m])
  <2> DEFINE first == lastLSA[p][p] = NULL
             new   == [sender |-> p,
                       seq    |-> IF first THEN 0 ELSE lastLSA[p][p].seq + 1,
                       TTL    |-> IF first THEN InitTTL ELSE lastLSA[p][p].TTL,
                       links  |-> Live(distance[p]),
                       objs   |-> objs]
  <2>1. /\ lastLSA' = [lastLSA EXCEPT ![p][p] = new]
        /\ new.seq = IF first THEN 0 ELSE lastLSA[p][p].seq + 1
    BY <1>3 DEF Advertises
  <2> HIDE DEF new
  <2>2. NotOlder(new, lastLSA[p][p])
    <3>1. lastLSA[p][p] # NULL => lastLSA[p][p].seq \in Nat
      BY DEF TypeInv, LSAs
    <3> QED
      BY <2>1, <3>1 DEF NotOlder
  <2> QED
    BY <1>1, <2>1, <2>2 DEF TypeInv
<1>4. ASSUME NEW p \in Node, Restart(p)
      PROVE  \A n, m \in Node : NotOlder(lastLSA'[n][m], lastLSA[n][m])
  <2>1. lastLSA' = [lastLSA EXCEPT ![p] = [m \in Node |-> NULL]]
    BY <1>4 DEF Restart
  <2>2. \A n, m \in Node : lastLSA'[n][m] = NULL \/ lastLSA'[n][m] = lastLSA[n][m]
    BY <2>1 DEF TypeInv
  <2> QED
    BY <1>1, <2>2 DEF NotOlder
<1>5. ASSUME NEW n \in Node, NEW d \in Node, Write(n) \/ Retransmit(n, d) \/ NeighborDown(n, d)
      PROVE  UNCHANGED lastLSA
  BY <1>5 DEF Write, Retransmit, NeighborDown
<1>6. ASSUME NEW pkt \in net, Lose(pkt)
      PROVE  UNCHANGED lastLSA
  BY <1>6 DEF Lose
<1>7. CASE UNCHANGED vars
  BY <1>2, <1>7 DEF vars
<1>8. ASSUME NEW p \in Node, NewAdvertisement(p) \/ InsertLocalResource(p)
      PROVE  \A n, m \in Node : NotOlder(lastLSA'[n][m], lastLSA[n][m])
  BY <1>3, <1>8 DEF NewAdvertisement, InsertLocalResource
<1> QED
  BY <1>2, <1>4, <1>5, <1>6, <1>7, <1>8, ReceiveNotOlder DEF Next

(* In whatever order LSAs, ACKs, losses, restarts and time-outs come, a     *)
(* daemon gives up what it knows of a node only for something newer, or     *)
(* when it is told that the node is down.                                   *)
THEOREM OlderNeverWinsHolds == Spec => OlderNeverWins
<1>1. TypeInv /\ [Next]_vars
        => [\A n, m \in Node :
              lastLSA[n][m] # NULL /\ lastLSA'[n][m] # NULL
                => lastLSA'[n][m].seq >= lastLSA[n][m].seq]_vars
  BY StepNotOlder DEF NotOlder
<1> QED
  BY <1>1, TypeInvHolds, PTL DEF Spec, OlderNeverWins

-----------------------------------------------------------------------------
(* Flooding is reliable *)

(* A node once knew what it has lost, or had removed, since.                *)
Knows(x, m, seq) == x \in restarted \/ <<x, m>> \in severed \/ Has(x, m, seq)

(* What a node may send of another: something it knows, and that the other  *)
(* itself knows; with TTL 0 only of one that it has removed.                *)
LSAOK(n, lsa) ==
  /\ Knows(n, lsa.sender, lsa.seq) /\ Knows(lsa.sender, lsa.sender, lsa.seq)
  /\ lsa.TTL = 0 => <<n, lsa.sender>> \in severed

(* What is acknowledged is known, unless the other side sent TTL 0.         *)
PacketOK(pkt) ==
  /\ pkt.from # pkt.to
  /\ IF pkt.type = "LSA" THEN LSAOK(pkt.from, pkt.lsa)
     ELSE \/ <<pkt.to, pkt.lsa.sender>> \in severed
          \/ Knows(pkt.from, pkt.lsa.sender, pkt.lsa.seq)

On(pool, lsa) == \E i \in DOMAIN pool : pool[i].lsa = lsa

Waiting(n, d, lsa) == On(ackPool[n][d], lsa)

Travels(pkt) == pkt \in net \/ \E n \in Node : pkt \in list[n]

DistancesOK ==
  \A n \in Node : /\ distance[n][n] = 0 /\ <<n, n>> \notin severed
                  /\ \A d \in scen.nbr[n] : d # n /\ (<<n, d>> \in severed \/ distance[n][d] = 1)

StoredOK(m, lsa) == lsa.sender = m /\ lsa.TTL > 0 /\ Knows(m, m, lsa.seq)

FloodInv ==
  /\ TypeInv
  /\ DistancesOK
  /\ \A n, m \in Node, lsa \in LSAs : lastLSA[n][m] = lsa => StoredOK(m, lsa)
  /\ \A n, d \in Node, lsa \in LSAs : Waiting(n, d, lsa) => d # n /\ LSAOK(n, lsa)
  /\ \A pkt \in Packets : Travels(pkt) => PacketOK(pkt)

(* For the LSA that n has of m, and its neighbour d.                        *)
Carried(n, d, m, seq) == \E lsa \in LSAs : Waiting(n, d, lsa) /\ lsa.sender = m /\ lsa.seq = seq

Exempt(n, d, m) ==
  \/ d \in restarted \/ (m = n /\ n \in restarted)
  \/ <<n, d>> \in severed \/ <<d, m>> \in severed \/ <<n, m>> \in severed

Reliable ==
  \A n, m, d \in Node, lsa \in LSAs :
    d \in scen.nbr[n] /\ ~Exempt(n, d, m) /\ lastLSA[n][m] = lsa /\ lsa.TTL > 1
      => Has(d, m, lsa.seq) \/ Carried(n, d, m, lsa.seq)

(* Pools *)

LEMMA OnAppend ==
  ASSUME NEW pool \in Seq(Sent), NEW new \in Sent, NEW l
  PROVE  On(Append(pool, new), l) <=> On(pool, l) \/ new.lsa = l
<1> DEFINE t == Append(pool, new)
<1>1. /\ Len(pool) \in Nat /\ DOMAIN pool = 1..Len(pool)
      /\ Len(t) = Len(pool) + 1 /\ DOMAIN t = 1..(Len(pool) + 1)
      /\ \A i \in 1..Len(pool) : t[i] = pool[i]
      /\ t[Len(pool) + 1] = new
  BY AppendProperties, LenProperties
<1> HIDE DEF t
<1>2. ASSUME On(pool, l)
      PROVE  On(t, l)
  <2>1. PICK i \in 1..Len(pool) : pool[i].lsa = l
    BY <1>1, <1>2 DEF On
  <2>2. i \in 1..(Len(pool) + 1)
    BY <1>1
  <2> QED
    BY <1>1, <2>1, <2>2 DEF On
<1>3. ASSUME new.lsa = l
      PROVE  On(t, l)
  <2>1. Len(pool) + 1 \in 1..(Len(pool) + 1)
    BY <1>1
  <2> QED
    BY <1>1, <1>3, <2>1 DEF On
<1>4. ASSUME On(t, l)
      PROVE  On(pool, l) \/ new.lsa = l
  <2>1. PICK i \in 1..(Len(pool) + 1) : t[i].lsa = l
    BY <1>1, <1>4 DEF On
  <2>2. i \in 1..Len(pool) \/ i = Len(pool) + 1
    BY <1>1
  <2> QED
    BY <1>1, <2>1, <2>2 DEF On
<1> QED
  BY <1>2, <1>3, <1>4 DEF t

LEMMA OnPooled ==
  ASSUME NEW pools \in Pools, NEW dests \in SUBSET Node, NEW lsa \in LSAs, NEW d \in Node, NEW l
  PROVE  On(Pooled(pools, dests, lsa)[d], l) <=> On(pools[d], l) \/ (d \in dests /\ lsa = l)
<1> DEFINE new == [lsa |-> lsa, hasRetran |-> FALSE]
<1>1. new \in Sent /\ new.lsa = lsa
  BY DEF Sent
<1>2. pools[d] \in Seq(Sent)
  BY DEF Pools
<1>3. Pooled(pools, dests, lsa)[d] = IF d \in dests THEN Append(pools[d], new) ELSE pools[d]
  BY DEF Pooled
<1> HIDE DEF new
<1> QED
  BY <1>1, <1>2, <1>3, OnAppend

LEMMA OnRemove ==
  ASSUME NEW pool \in Seq(Sent), NEW i \in DOMAIN pool, NEW l
  PROVE  /\ On(RemoveAt(pool, i), l) => On(pool, l)
         /\ On(pool, l) /\ pool[i].lsa # l => On(RemoveAt(pool, i), l)
<1> DEFINE n == Len(pool)
           t == RemoveAt(pool, i)
<1>1. n \in Nat /\ DOMAIN pool = 1..n /\ i \in 1..n
  BY LenProperties
<1>2. /\ SubSeq(pool, 1, i - 1) \in Seq(Sent) /\ Len(SubSeq(pool, 1, i - 1)) = i - 1
      /\ \A j \in 1..(i - 1) : SubSeq(pool, 1, i - 1)[j] = pool[j]
  <2>1. 1 \in Int /\ i - 1 \in Int /\ \A j \in 1..(i - 1) : pool[j] \in Sent
    BY <1>1, ElementOfSeq
  <2> QED
    BY <1>1, <2>1, SubSeqProperties
<1>3. /\ SubSeq(pool, i + 1, n) \in Seq(Sent) /\ Len(SubSeq(pool, i + 1, n)) = n - i
      /\ \A j \in 1..(n - i) : SubSeq(pool, i + 1, n)[j] = pool[i + j]
  <2> DEFINE b == SubSeq(pool, i + 1, n)
  <2>1. i + 1 \in Int /\ n \in Int /\ \A j \in (i + 1)..n : pool[j] \in Sent
    BY <1>1, ElementOfSeq
  <2>2. /\ b \in Seq(Sent)
        /\ Len(b) = IF i + 1 <= n THEN n - (i + 1) + 1 ELSE 0
        /\ \A j \in 1..(n - (i + 1) + 1) : b[j] = pool[(i + 1) + j - 1]
    BY <2>1, SubSeqProperties
  <2> HIDE DEF b
  <2>3. Len(b) = n - i
    BY <1>1, <2>2
  <2>4. ASSUME NEW j \in 1..(n - i)
        PROVE  b[j] = pool[i + j]
    <3>1. j \in 1..(n - (i + 1) + 1) /\ (i + 1) + j - 1 = i + j
      BY <1>1
    <3> QED
      BY <2>2, <3>1
  <2> QED
    BY <2>2, <2>3, <2>4 DEF b
<1>4. /\ t \in Seq(Sent) /\ Len(t) = n - 1
      /\ \A j \in 1..(n - 1) : t[j] = IF j < i THEN pool[j] ELSE pool[j + 1]
  <2> DEFINE a == SubSeq(pool, 1, i - 1)
             b == SubSeq(pool, i + 1, n)
  <2>1. a \in Seq(Sent) /\ b \in Seq(Sent) /\ Len(a) = i - 1 /\ Len(b) = n - i /\ t = a \o b
    BY <1>2, <1>3 DEF RemoveAt
  <2>2. /\ \A j \in 1..(i - 1) : a[j] = pool[j]
        /\ \A j \in 1..(n - i) : b[j] = pool[i + j]
    BY <1>2, <1>3
  <2> HIDE DEF a, b, n, t
  <2>3. /\ a \o b \in Seq(Sent) /\ Len(a \o b) = Len(a) + Len(b)
        /\ \A j \in 1..(Len(a) + Len(b)) : (a \o b)[j] = IF j <= Len(a) THEN a[j] ELSE b[j - Len(a)]
    BY <2>1, ConcatProperties
  <2>4. Len(a) + Len(b) = n - 1
    BY <1>1, <2>1
  <2>5. ASSUME NEW j \in 1..(n - 1)
        PROVE  t[j] = IF j < i THEN pool[j] ELSE pool[j + 1]
    <3>1. CASE j < i
      <4>1. j <= Len(a) /\ j \in 1..(i - 1)
        BY <1>1, <2>1, <3>1
      <4> QED
        BY <2>1, <2>2, <2>3, <2>4, <3>1, <4>1
    <3>2. CASE ~(j < i)
      <4>1. ~(j <= Len(a)) /\ j - Len(a) \in 1..(n - i) /\ i + (j - Len(a)) = j + 1
        BY <1>1, <2>1, <3>2
      <4> QED
        BY <2>1, <2>2, <2>3, <2>4, <3>2, <4>1
    <3> QED
      BY <3>1, <3>2
  <2> QED
    BY <2>1, <2>3, <2>4, <2>5
<1>5. DOMAIN t = 1..(n - 1)
  BY <1>4, LenProperties
<1> HIDE DEF n, t
<1>6. ASSUME On(t, l)
      PROVE  On(pool, l)
  <2>1. PICK j \in 1..(n - 1) : t[j].lsa = l
    BY <1>5, <1>6 DEF On
  <2>2. j \in 1..n /\ j + 1 \in 1..n
    BY <1>1
  <2> QED
    BY <1>1, <1>4, <2>1, <2>2 DEF On
<1>7. ASSUME On(pool, l), pool[i].lsa # l
      PROVE  On(t, l)
  <2>1. PICK j \in 1..n : pool[j].lsa = l
    BY <1>1, <1>7 DEF On
  <2>2. j # i
    BY <1>7, <2>1
  <2>3. CASE j < i
    <3>1. j \in 1..(n - 1)
      BY <1>1, <2>3
    <3> QED
      BY <1>4, <1>5, <2>1, <2>3, <3>1 DEF On
  <2>4. CASE ~(j < i)
    <3>1. j - 1 \in 1..(n - 1) /\ ~(j - 1 < i) /\ (j - 1) + 1 = j
      BY <1>1, <2>2, <2>4
    <3> QED
      BY <1>4, <1>5, <2>1, <3>1 DEF On
  <2> QED
    BY <2>3, <2>4
<1> QED
  BY <1>6, <1>7 DEF t

(* Marking a pool and adding copies of its members changes nothing here.    *)
(* The pool after a retransmission.                                         *)
Lengthened(pool, k, num, at) ==
  Marked(pool, ToRetransmit(pool, k))
    \o [i \in 1..num |-> [lsa |-> pool[at[i]].lsa, hasRetran |-> FALSE]]

LEMMA OnRetransmit ==
  ASSUME NEW pool \in Seq(Sent), NEW k \in DOMAIN pool, NEW num \in Nat,
         NEW at \in [1..num -> ToRetransmit(pool, k)], NEW l
  PROVE  On(Lengthened(pool, k, num, at), l) <=> On(pool, l)
<1> DEFINE due    == ToRetransmit(pool, k)
           n      == Len(pool)
           marked == Marked(pool, due)
           copies == [i \in 1..num |-> [lsa |-> pool[at[i]].lsa, hasRetran |-> FALSE]]
           t      == marked \o copies
<1>1. n \in Nat /\ DOMAIN pool = 1..n /\ k \in 1..n
  BY LenProperties
<1>2. due \subseteq 1..n
  BY <1>1 DEF ToRetransmit
<1>3. \A i \in 1..n : pool[i] \in Sent /\ pool[i].lsa \in LSAs
  <2>1. \A i \in 1..n : pool[i] \in Sent
    BY ElementOfSeq
  <2> QED
    BY <2>1 DEF Sent
<1>4. marked \in Seq(Sent) /\ Len(marked) = n /\ \A i \in 1..n : marked[i].lsa = pool[i].lsa
  <2>1. \A i \in 1..n : [lsa |-> pool[i].lsa, hasRetran |-> pool[i].hasRetran \/ i \in due] \in Sent
    BY <1>3 DEF Sent
  <2>2. marked \in [1..n -> Sent]
    BY <1>1, <2>1 DEF Marked
  <2>3. \A i \in 1..n : marked[i].lsa = pool[i].lsa
    BY <1>1 DEF Marked
  <2> QED
    BY <1>1, <2>2, <2>3
<1> HIDE DEF due
<1>5. /\ copies \in Seq(Sent) /\ Len(copies) = num
      /\ \A i \in 1..num : copies[i].lsa = pool[at[i]].lsa /\ at[i] \in 1..n
  <2>1. \A i \in 1..num : at[i] \in 1..n
    BY <1>2 DEF due
  <2>2. \A i \in 1..num : [lsa |-> pool[at[i]].lsa, hasRetran |-> FALSE] \in Sent
    BY <1>3, <2>1 DEF Sent
  <2>3. copies \in [1..num -> Sent]
    BY <2>2
  <2> QED
    BY <2>1, <2>3
<1> HIDE DEF marked, copies, n
<1>6. /\ Len(t) = n + num /\ DOMAIN t = 1..(n + num)
      /\ \A i \in 1..(n + num) : t[i] = IF i <= n THEN marked[i] ELSE copies[i - n]
  BY <1>4, <1>5, ConcatProperties, LenProperties
<1> HIDE DEF t
<1>7. ASSUME On(pool, l)
      PROVE  On(t, l)
  <2>1. PICK i \in 1..n : pool[i].lsa = l
    BY <1>1, <1>7 DEF On
  <2>2. i \in 1..(n + num) /\ i <= n
    BY <1>1
  <2> QED
    BY <1>4, <1>6, <2>1, <2>2 DEF On
<1>8. ASSUME On(t, l)
      PROVE  On(pool, l)
  <2>1. PICK i \in 1..(n + num) : t[i].lsa = l
    BY <1>6, <1>8 DEF On
  <2>2. CASE i <= n
    <3>1. i \in 1..n
      BY <1>1, <2>2
    <3> QED
      BY <1>1, <1>4, <1>6, <2>1, <2>2, <3>1 DEF On
  <2>3. CASE ~(i <= n)
    <3>1. i - n \in 1..num
      BY <1>1, <2>3
    <3>2. copies[i - n].lsa = l
      BY <1>6, <2>1, <2>3
    <3> QED
      BY <1>1, <1>5, <3>1, <3>2 DEF On
  <2> QED
    BY <2>2, <2>3
<1> QED
  BY <1>7, <1>8 DEF t, marked, copies, due, Lengthened

(* The pool holds the same LSAs after a retransmission.                     *)
LEMMA RetransmitKeeps ==
  ASSUME ackPool \in [Node -> Pools], NEW n \in Node, NEW d \in Node, Retransmit(n, d)
  PROVE  \E longer : /\ ackPool' = [ackPool EXCEPT ![n][d] = longer]
                     /\ \A l : On(longer, l) <=> On(ackPool[n][d], l)
<1> DEFINE pool == ackPool[n][d]
<1>1. pool \in Seq(Sent)
  BY DEF Pools
<1>2. PICK k \in DOMAIN pool :
        \E at \in [1..Cardinality(ToRetransmit(pool, k)) -> ToRetransmit(pool, k)] :
          ackPool' = [ackPool EXCEPT ![n][d] =
            Marked(pool, ToRetransmit(pool, k))
              \o [i \in 1..Cardinality(ToRetransmit(pool, k)) |-> [lsa |-> pool[at[i]].lsa, hasRetran |-> FALSE]]]
  BY DEF Retransmit
<1> DEFINE num == Cardinality(ToRetransmit(pool, k))
<1>3. num \in Nat
  <2>1. Len(pool) \in Nat /\ DOMAIN pool = 1..Len(pool) /\ ToRetransmit(pool, k) \subseteq 1..k
    BY <1>1, LenProperties DEF ToRetransmit
  <2>2. IsFiniteSet(1..k)
    BY <2>1, FS_Interval
  <2> QED
    BY <2>1, <2>2, FS_Subset, FS_CardinalityType
<1>4. PICK at \in [1..num -> ToRetransmit(pool, k)] :
        ackPool' = [ackPool EXCEPT ![n][d] = Lengthened(pool, k, num, at)]
  BY <1>2 DEF Lengthened
<1> HIDE DEF num
<1>5. \A l : On(Lengthened(pool, k, num, at), l) <=> On(pool, l)
  BY <1>1, <1>3, OnRetransmit
<1> QED
  BY <1>4, <1>5

(* What is never forgotten *)

LEMMA HistoryGrows ==
  ASSUME [Next]_vars
  PROVE  restarted \subseteq restarted' /\ severed \subseteq severed'
<1> USE DEF history
<1>1. CASE UNCHANGED vars
  BY <1>1 DEF vars
<1>2. ASSUME NEW n \in Node, NewAdvertisement(n) \/ InsertLocalResource(n) \/ Write(n) \/ Restart(n)
      PROVE  restarted \subseteq restarted' /\ severed \subseteq severed'
  BY <1>2 DEF NewAdvertisement, InsertLocalResource, Advertises, Write, Restart
<1>3. ASSUME NEW n \in Node, NEW d \in Node, Retransmit(n, d) \/ NeighborDown(n, d)
      PROVE  restarted \subseteq restarted' /\ severed \subseteq severed'
  BY <1>3 DEF Retransmit, NeighborDown
<1>4. ASSUME NEW pkt \in net, Receive(pkt) \/ Lose(pkt)
      PROVE  restarted \subseteq restarted' /\ severed \subseteq severed'
  BY <1>4 DEF Receive, RecvAck, RecvZero, RecvMineHigher, RecvLower, RecvNew, RecvHigher, RecvSame,
              Updates, Reads, Lose
<1> QED
  BY <1>1, <1>2, <1>3, <1>4 DEF Next

LEMMA NeighboursStay ==
  ASSUME TypeInv, [Next]_vars
  PROVE  scen'.nbr = scen.nbr
<1>1. scen \in ScenarioType
  BY DEF TypeInv
<1>2. ASSUME NEW n \in Node, NewAdvertisement(n)
      PROVE  scen'.nbr = scen.nbr
  <2>1. CASE UNCHANGED scen
    BY <2>1
  <2>2. CASE scen' = [scen EXCEPT !.cycles[n] = @ - 1]
    BY <1>1, <2>2 DEF ScenarioType
  <2> QED
    BY <1>2, <2>1, <2>2 DEF NewAdvertisement
<1>3. ASSUME NEW n \in Node, InsertLocalResource(n)
      PROVE  scen'.nbr = scen.nbr
  BY <1>1, <1>3 DEF InsertLocalResource, ScenarioType
<1>4. ASSUME NEW n \in Node, Restart(n)
      PROVE  scen'.nbr = scen.nbr
  BY <1>1, <1>4 DEF Restart, ScenarioType
<1>5. ASSUME NEW n \in Node, NEW d \in Node, NeighborDown(n, d)
      PROVE  scen'.nbr = scen.nbr
  BY <1>1, <1>5 DEF NeighborDown, ScenarioType
<1>6. ASSUME NEW n \in Node, NEW d \in Node, Write(n) \/ Retransmit(n, d)
      PROVE  scen'.nbr = scen.nbr
  BY <1>6 DEF Write, Retransmit
<1>7. ASSUME NEW pkt, Receive(pkt)
      PROVE  scen'.nbr = scen.nbr
  BY <1>7 DEF Receive, RecvAck, RecvZero, RecvMineHigher, RecvLower, RecvNew, RecvHigher, RecvSame,
              Updates, Reads
<1>8. ASSUME NEW pkt, Lose(pkt)
      PROVE  scen'.nbr = scen.nbr
  BY <1>1, <1>8 DEF Lose, ScenarioType
<1>9. CASE UNCHANGED vars
  BY <1>9 DEF vars
<1> QED
  BY <1>2, <1>3, <1>4, <1>5, <1>6, <1>7, <1>8, <1>9 DEF Next

(* What changes what a node has of another *)

LEMMA NotNull == \A lsa \in LSAs : lsa # NULL
BY FloodAssumption

LEMMA AdvertisesNew ==
  ASSUME TypeInv, NEW n \in Node, NewAdvertisement(n) \/ InsertLocalResource(n)
  PROVE  \E new \in LSAs :
           /\ new.sender = n
           /\ new.TTL = IF lastLSA[n][n] = NULL THEN InitTTL ELSE lastLSA[n][n].TTL
           /\ new.seq = IF lastLSA[n][n] = NULL THEN 0 ELSE lastLSA[n][n].seq + 1
           /\ lastLSA' = [lastLSA EXCEPT ![n][n] = new]
           /\ list' = [list EXCEPT ![n] = @ \cup Queued(n, Live(distance[n]), new)]
           /\ ackPool' = [ackPool EXCEPT ![n] = Pooled(@, Live(distance[n]), new)]
           /\ UNCHANGED <<distance, net, restarted, severed>>
<1> DEFINE first == lastLSA[n][n] = NULL
<1>1. PICK objs : objs \in SUBSET Nat /\ Advertises(n, objs)
  <2>1. tRes[n] \in Resources
    BY DEF TypeInv
  <2>2. CASE NewAdvertisement(n)
    BY <2>1, <2>2, NamesType DEF NewAdvertisement
  <2>3. CASE InsertLocalResource(n)
    <3>1. scen.files[n] \in Nat
      BY DEF TypeInv, ScenarioType
    <3>2. PICK objs \in Names(tRes[n]) : Advertises(n, objs \cup {scen.files[n]})
      BY <2>3 DEF InsertLocalResource
    <3>3. objs \cup {scen.files[n]} \in SUBSET Nat
      BY <2>1, <3>1, NamesType
    <3> QED
      BY <3>2, <3>3
  <2> QED
    BY <2>2, <2>3
<1> DEFINE new == [sender |-> n,
                   seq    |-> IF first THEN 0 ELSE lastLSA[n][n].seq + 1,
                   TTL    |-> IF first THEN InitTTL ELSE lastLSA[n][n].TTL,
                   links  |-> Live(distance[n]),
                   objs   |-> objs]
<1>2. ~first => lastLSA[n][n] \in LSAs
  BY DEF TypeInv
<1>3. Live(distance[n]) \in SUBSET Node
  BY LiveType
<1>4. new \in LSAs
  <2>1. (IF first THEN 0 ELSE lastLSA[n][n].seq + 1) \in Nat
    BY <1>2 DEF LSAs
  <2>2. (IF first THEN InitTTL ELSE lastLSA[n][n].TTL) \in 0..InitTTL
    BY <1>2, TTLs DEF LSAs
  <2> QED
    BY <1>1, <1>3, <2>1, <2>2 DEF LSAs
<1>5. /\ new.sender = n /\ new.TTL = IF first THEN InitTTL ELSE lastLSA[n][n].TTL
      /\ new.seq = IF first THEN 0 ELSE lastLSA[n][n].seq + 1
  OBVIOUS
<1>6. /\ lastLSA' = [lastLSA EXCEPT ![n][n] = new]
      /\ list' = [list EXCEPT ![n] = @ \cup Queued(n, Live(distance[n]), new)]
      /\ ackPool' = [ackPool EXCEPT ![n] = Pooled(@, Live(distance[n]), new)]
      /\ UNCHANGED <<distance, net, restarted, severed>>
  BY <1>1 DEF Advertises, history
<1> HIDE DEF new
<1> QED
  BY <1>4, <1>5, <1>6

Stores(pkt) == RecvNew(pkt) \/ RecvHigher(pkt)

LEMMA ReceiveStored ==
  ASSUME TypeInv, NEW pkt \in net, Receive(pkt), NEW n \in Node, NEW m \in Node,
         lastLSA'[n][m] # lastLSA[n][m]
  PROVE  /\ pkt.to = n /\ pkt.lsa.sender = m
         /\ \/ Stores(pkt) /\ lastLSA'[n][m] = pkt.lsa
            \/ RecvMineHigher(pkt) /\ lastLSA'[n][m] = [lastLSA[n][m] EXCEPT !.seq = pkt.lsa.seq]
            \/ RecvZero(pkt) /\ lastLSA'[n][m] = NULL /\ distance[n][m] = 2 /\ <<n, m>> \in severed'
<1> DEFINE to   == pkt.to
           from == pkt.lsa.sender
<1>1. /\ to \in Node /\ from \in Node /\ lastLSA \in [Node -> [Node -> LSAs \cup {NULL}]]
      /\ lastLSA[to] \in [Node -> LSAs \cup {NULL}] /\ distance[to] \in [Node -> Distances]
  BY DEF TypeInv, Packets, LSAs
<1>2. CASE RecvAck(pkt)
  BY <1>2 DEF RecvAck
<1>3. CASE RecvZero(pkt)
  <2>1. CASE distance[to][from] = 2
    <3>1. lastLSA' = [lastLSA EXCEPT ![to] = [lastLSA[to] EXCEPT ![from] = NULL]]
      BY <1>3, <2>1 DEF RecvZero, Updates
    <3>2. to = n /\ from = m /\ lastLSA'[n][m] = NULL
      BY <1>1, <3>1
    <3>3. /\ severed' = severed \cup {<<to, x>> : x \in {y \in Node : distance[to][y] # [distance[to] EXCEPT ![from] = NULL][y]
                                                              /\ [distance[to] EXCEPT ![from] = NULL][y] = NULL}}
      BY <1>3, <2>1 DEF RecvZero, Updates
    <3>4. [distance[to] EXCEPT ![from] = NULL][from] = NULL /\ distance[to][from] # NULL
      BY <1>1, <2>1, FloodAssumption
    <3>5. <<to, from>> \in severed'
      BY <1>1, <3>3, <3>4
    <3> QED
      BY <1>3, <2>1, <3>2, <3>5
  <2>2. CASE distance[to][from] # 2
    <3>1. lastLSA' = [lastLSA EXCEPT ![to] = lastLSA[to]]
      BY <1>3, <2>2 DEF RecvZero, Updates
    <3> QED
      BY <1>1, <3>1
  <2> QED
    BY <2>1, <2>2
<1>4. CASE RecvMineHigher(pkt)
  <2>1. lastLSA' = [lastLSA EXCEPT ![to] = [lastLSA[to] EXCEPT ![to].seq = pkt.lsa.seq]] /\ from = to
    BY <1>4 DEF RecvMineHigher, Updates, IsMine
  <2>2. [lastLSA[to] EXCEPT ![to].seq = pkt.lsa.seq][to] = [lastLSA[to][to] EXCEPT !.seq = pkt.lsa.seq]
    BY <1>1
  <2> QED
    BY <1>1, <1>4, <2>1, <2>2
<1>5. CASE RecvLower(pkt)
  <2>1. lastLSA' = [lastLSA EXCEPT ![to] = lastLSA[to]]
    BY <1>5 DEF RecvLower, Updates
  <2> QED
    BY <1>1, <2>1
<1>6. CASE Stores(pkt)
  <2>1. lastLSA' = [lastLSA EXCEPT ![to] = [lastLSA[to] EXCEPT ![from] = pkt.lsa]]
    BY <1>6 DEF Stores, RecvNew, RecvHigher, Updates
  <2> QED
    BY <1>1, <1>6, <2>1
<1>7. CASE RecvSame(pkt)
  <2>1. lastLSA' = [lastLSA EXCEPT ![to] = lastLSA[to]]
    BY <1>7 DEF RecvSame, Updates
  <2> QED
    BY <1>1, <2>1
<1> QED
  BY <1>2, <1>3, <1>4, <1>5, <1>6, <1>7 DEF Receive, Stores

(* The steps that change what n stores of m's LSAs.                         *)
Changes(n, m) ==
  \/ m = n /\ (NewAdvertisement(n) \/ InsertLocalResource(n)) /\ lastLSA'[n][m] # NULL
  \/ Restart(n) /\ lastLSA'[n][m] = NULL
  \/ \E pkt \in net :
       /\ Receive(pkt) /\ pkt.to = n /\ pkt.lsa.sender = m
       /\ \/ Stores(pkt) /\ lastLSA'[n][m] = pkt.lsa
          \/ RecvMineHigher(pkt) /\ lastLSA'[n][m] = [lastLSA[n][m] EXCEPT !.seq = pkt.lsa.seq]
          \/ RecvZero(pkt) /\ lastLSA'[n][m] = NULL /\ distance[n][m] = 2 /\ <<n, m>> \in severed'

LEMMA StoredStep ==
  ASSUME TypeInv, [Next]_vars, NEW n \in Node, NEW m \in Node, lastLSA'[n][m] # lastLSA[n][m]
  PROVE  Changes(n, m)
<1> USE DEF tables, history
<1>0. lastLSA \in [Node -> [Node -> LSAs \cup {NULL}]]
  BY DEF TypeInv
<1>1. ASSUME NEW p \in Node, NewAdvertisement(p) \/ InsertLocalResource(p)
      PROVE  m = n /\ n = p /\ lastLSA'[n][m] # NULL
  <2>1. PICK new \in LSAs : lastLSA' = [lastLSA EXCEPT ![p][p] = new]
    BY <1>1, AdvertisesNew
  <2> QED
    BY <1>0, <2>1, NotNull
<1>2. ASSUME NEW p \in Node, Restart(p)
      PROVE  p = n /\ lastLSA'[n][m] = NULL
  BY <1>0, <1>2 DEF Restart
<1>3. ASSUME NEW p \in Node, NEW d \in Node, Write(p) \/ Retransmit(p, d) \/ NeighborDown(p, d)
      PROVE  FALSE
  BY <1>3 DEF Write, Retransmit, NeighborDown
<1>4. ASSUME NEW pkt \in net, Lose(pkt)
      PROVE  FALSE
  BY <1>4 DEF Lose
<1>5. CASE UNCHANGED vars
  BY <1>5 DEF vars
<1>6. ASSUME NEW pkt \in net, Receive(pkt)
      PROVE  /\ pkt.to = n /\ pkt.lsa.sender = m
             /\ \/ Stores(pkt) /\ lastLSA'[n][m] = pkt.lsa
                \/ RecvMineHigher(pkt) /\ lastLSA'[n][m] = [lastLSA[n][m] EXCEPT !.seq = pkt.lsa.seq]
                \/ RecvZero(pkt) /\ lastLSA'[n][m] = NULL /\ distance[n][m] = 2 /\ <<n, m>> \in severed'
  BY <1>6, ReceiveStored
<1>7. CASE \E p \in Node : NewAdvertisement(p) \/ InsertLocalResource(p) \/ Restart(p)
  BY <1>1, <1>2, <1>7 DEF Changes
<1>8. CASE \E pkt \in net : Receive(pkt)
  BY <1>6, <1>8 DEF Changes
<1> QED
  BY <1>3, <1>4, <1>5, <1>7, <1>8 DEF Next

LEMMA KnowsStays ==
  ASSUME TypeInv, [Next]_vars, NEW x \in Node, NEW m \in Node, NEW seq \in Nat, Knows(x, m, seq)
  PROVE  Knows(x, m, seq)'
<1>1. CASE x \in restarted \/ <<x, m>> \in severed
  BY <1>1, HistoryGrows DEF Knows
<1>2. CASE Has(x, m, seq) /\ lastLSA'[x][m] # NULL
  <2>1. lastLSA'[x][m].seq >= lastLSA[x][m].seq
    BY <1>2, StepNotOlder DEF NotOlder, Has
  <2>2. lastLSA[x][m].seq \in Nat /\ lastLSA'[x][m].seq \in Nat
    <3>1. TypeInv'
      BY TypeStep
    <3> QED
      BY <1>2, <3>1 DEF TypeInv, LSAs, Has
  <2> QED
    BY <1>2, <2>1, <2>2 DEF Has, Knows
<1>3. CASE Has(x, m, seq) /\ lastLSA'[x][m] = NULL
  <2>1. lastLSA'[x][m] # lastLSA[x][m]
    BY <1>3 DEF Has
  <2>2. CASE Restart(x)
    BY <2>2 DEF Restart, Knows
  <2>3. ASSUME NEW pkt \in net, pkt.to = x, pkt.lsa.sender = m, RecvMineHigher(pkt),
               lastLSA'[x][m] = [lastLSA[x][m] EXCEPT !.seq = pkt.lsa.seq]
        PROVE  FALSE
    <3>1. lastLSA[x][m] \in LSAs /\ pkt.lsa.seq \in Nat
      BY <1>3 DEF Has, TypeInv, Packets, LSAs
    <3>2. [lastLSA[x][m] EXCEPT !.seq = pkt.lsa.seq] \in LSAs
      BY <3>1 DEF LSAs
    <3> QED
      BY <1>3, <2>3, <3>2, NotNull
  <2>4. \A pkt \in net : pkt.lsa # NULL
    BY NotNull DEF TypeInv, Packets
  <2>5. Changes(x, m)
    BY <2>1, StoredStep
  <2> QED
    BY <1>3, <2>2, <2>3, <2>4, <2>5 DEF Changes, Knows
<1> QED
  BY <1>1, <1>2, <1>3 DEF Knows

LEMMA LSAOKStays ==
  ASSUME TypeInv, [Next]_vars, NEW n \in Node, NEW lsa \in LSAs, LSAOK(n, lsa)
  PROVE  LSAOK(n, lsa)'
<1>1. lsa.sender \in Node /\ lsa.seq \in Nat
  BY DEF LSAs
<1>2. Knows(n, lsa.sender, lsa.seq)' /\ Knows(lsa.sender, lsa.sender, lsa.seq)'
  BY <1>1, KnowsStays DEF LSAOK
<1> QED
  BY <1>2, HistoryGrows DEF LSAOK

LEMMA PacketOKStays ==
  ASSUME TypeInv, [Next]_vars, NEW pkt \in Packets, PacketOK(pkt)
  PROVE  PacketOK(pkt)'
<1>1. pkt.from \in Node /\ pkt.lsa \in LSAs /\ pkt.lsa.sender \in Node /\ pkt.lsa.seq \in Nat
  BY DEF Packets, LSAs
<1>2. CASE pkt.type = "LSA"
  BY <1>1, <1>2, LSAOKStays DEF PacketOK
<1>3. CASE pkt.type # "LSA"
  BY <1>1, <1>3, KnowsStays, HistoryGrows DEF PacketOK
<1> QED
  BY <1>2, <1>3

(* The entries of the tables *)

LEMMA StoredOKStays ==
  ASSUME TypeInv, [Next]_vars, NEW m \in Node, NEW lsa \in LSAs, StoredOK(m, lsa)
  PROVE  StoredOK(m, lsa)'
<1>1. lsa.seq \in Nat
  BY DEF LSAs
<1> QED
  BY <1>1, KnowsStays DEF StoredOK

LEMMA TravellerOK ==
  ASSUME FloodInv, NEW pkt \in net
  PROVE  /\ pkt.from \in Node /\ pkt.to \in Node /\ pkt.from # pkt.to
         /\ pkt.lsa \in LSAs /\ pkt.lsa.sender \in Node /\ pkt.lsa.seq \in Nat /\ pkt.lsa.TTL \in Nat
         /\ PacketOK(pkt)
         /\ IsLSA(pkt) => LSAOK(pkt.from, pkt.lsa)
<1>1. pkt \in Packets /\ PacketOK(pkt)
  BY DEF FloodInv, TypeInv, Travels
<1> QED
  BY <1>1, TTLs DEF Packets, LSAs, PacketOK, IsLSA

LEMMA StoresLSA ==
  ASSUME FloodInv, NEW pkt \in net, Stores(pkt)
  PROVE  /\ IsLSA(pkt) /\ LSAOK(pkt.from, pkt.lsa) /\ pkt.lsa.TTL > 0
         /\ lastLSA' = [lastLSA EXCEPT ![pkt.to] = [@ EXCEPT ![pkt.lsa.sender] = pkt.lsa]]
<1>1. IsLSA(pkt) /\ ~IsZero(pkt)
  BY DEF Stores, RecvNew, RecvHigher, IsNew, IsHigher, IsKnown
<1>2. pkt.lsa.TTL > 0
  BY <1>1, TravellerOK DEF IsZero
<1>3. lastLSA' = [lastLSA EXCEPT ![pkt.to] = [@ EXCEPT ![pkt.lsa.sender] = pkt.lsa]]
  BY DEF Stores, RecvNew, RecvHigher, Updates
<1> QED
  BY <1>1, <1>2, <1>3, TravellerOK

(* Whatever comes into a table is something its sender knows.               *)
LEMMA StoredOKStep ==
  ASSUME FloodInv, [Next]_vars, NEW n \in Node, NEW m \in Node, NEW lsa \in LSAs, lastLSA'[n][m] = lsa
  PROVE  StoredOK(m, lsa)'
<1> USE DEF FloodInv
<1>1. lsa # NULL /\ lsa.seq \in Nat /\ lsa.TTL \in Nat
  BY NotNull, TTLs DEF LSAs
<1>2. lsa.seq >= lsa.seq
  BY <1>1
<1>3. CASE lastLSA[n][m] = lsa
  BY <1>3, StoredOKStays
<1>4. CASE lastLSA[n][m] # lsa
  <2>1. CASE m = n /\ (NewAdvertisement(n) \/ InsertLocalResource(n))
    <3>1. PICK new \in LSAs :
            /\ new.sender = n
            /\ new.TTL = IF lastLSA[n][n] = NULL THEN InitTTL ELSE lastLSA[n][n].TTL
            /\ lastLSA' = [lastLSA EXCEPT ![n][n] = new]
      BY <2>1, AdvertisesNew
    <3>2. lastLSA[n][n] # NULL => lastLSA[n][n].TTL > 0
      BY DEF TypeInv, StoredOK
    <3>3. lsa = new
      BY <2>1, <3>1 DEF TypeInv
    <3>4. lsa.TTL > 0
      BY <3>1, <3>2, <3>3, TTLs
    <3> QED
      BY <1>1, <1>2, <2>1, <3>1, <3>3, <3>4 DEF StoredOK, Knows, Has
  <2>2. ASSUME NEW pkt \in net, pkt.lsa.sender = m, Stores(pkt), lsa = pkt.lsa
        PROVE  StoredOK(m, lsa)'
    <3>1. LSAOK(pkt.from, pkt.lsa) /\ pkt.lsa.TTL > 0
      BY <2>2, StoresLSA
    <3>2. Knows(m, m, lsa.seq)'
      BY <1>1, <2>2, <3>1, KnowsStays DEF LSAOK
    <3> QED
      BY <2>2, <3>1, <3>2 DEF StoredOK
  <2>3. ASSUME NEW pkt \in net, pkt.to = n, pkt.lsa.sender = m, RecvMineHigher(pkt),
               lsa = [lastLSA[n][m] EXCEPT !.seq = pkt.lsa.seq]
        PROVE  StoredOK(m, lsa)'
    <3>1. n = m /\ lastLSA[n][m] \in LSAs
      BY <2>3 DEF RecvMineHigher, IsMine, IsHigher, IsKnown, Stored, TypeInv
    <3>2. StoredOK(m, lastLSA[n][m])
      BY <3>1
    <3>3. lsa.sender = m /\ lsa.TTL > 0
      BY <2>3, <3>1, <3>2 DEF StoredOK, LSAs
    <3> QED
      BY <1>1, <1>2, <3>1, <3>3 DEF StoredOK, Knows, Has
  <2>4. lastLSA'[n][m] # lastLSA[n][m]
    BY <1>4
  <2>5. Changes(n, m)
    BY <2>4, StoredStep
  <2> QED
    BY <1>1, <2>1, <2>2, <2>3, <2>5 DEF Changes
<1> QED
  BY <1>3, <1>4

(* The distances *)

LEMMA UpdatesDistances ==
  ASSUME FloodInv, [Next]_vars, NEW pkt \in net, NEW dist \in [Node -> Distances], NEW last, NEW dests, NEW lsa,
         Updates(pkt, dist, last, dests, lsa),
         dist[pkt.to] = 0, \A d \in Node : distance[pkt.to][d] = 1 => dist[d] = 1
  PROVE  DistancesOK'
<1> DEFINE to == pkt.to
<1>1. to \in Node
  BY TravellerOK
<1>2. /\ distance' = [distance EXCEPT ![to] = dist]
      /\ severed' = severed \cup {<<to, m>> : m \in {x \in Node : distance[to][x] # dist[x] /\ dist[x] = NULL}}
  BY DEF Updates
<1>3. scen'.nbr = scen.nbr /\ scen.nbr \in [Node -> SUBSET Node]
  BY NeighboursStay DEF FloodInv, TypeInv, ScenarioType
<1>4. distance \in [Node -> [Node -> Distances]]
  BY DEF FloodInv, TypeInv
<1> HIDE DEF to
<1>5. ASSUME NEW n \in Node
      PROVE  /\ distance'[n][n] = 0 /\ <<n, n>> \notin severed'
             /\ \A d \in scen.nbr[n] : d # n /\ (<<n, d>> \in severed' \/ distance'[n][d] = 1)
  <2>1. /\ distance[n][n] = 0 /\ <<n, n>> \notin severed
        /\ \A d \in scen.nbr[n] : d # n /\ (<<n, d>> \in severed \/ distance[n][d] = 1)
    BY DEF FloodInv, DistancesOK
  <2>2. CASE n = to
    <3>1. distance'[n] = dist
      BY <1>1, <1>2, <1>4, <2>2
    <3>2. \A d \in scen.nbr[n] : d \in Node
      BY <1>3
    <3>3. dist[n] = 0
      BY <2>2 DEF to
    <3>4. \A d \in Node : distance[n][d] = 1 => dist[d] = 1
      BY <2>2 DEF to
    <3>5. <<n, n>> \notin severed'
      BY <1>2, <2>1, <2>2, <3>3
    <3> QED
      BY <1>2, <2>1, <3>1, <3>2, <3>3, <3>4, <3>5
  <2>3. CASE n # to
    <3>1. distance'[n] = distance[n]
      BY <1>1, <1>2, <1>4, <2>3
    <3>2. <<n, n>> \notin severed'
      BY <1>2, <2>1, <2>3
    <3> QED
      BY <1>2, <2>1, <3>1, <3>2
  <2> QED
    BY <2>2, <2>3
<1> QED
  BY <1>3, <1>5 DEF DistancesOK

LEMMA ReceiveDistances ==
  ASSUME FloodInv, [Next]_vars, NEW pkt \in net, Receive(pkt)
  PROVE  DistancesOK'
<1> DEFINE n == pkt.to
           m == pkt.lsa.sender
<1>1. n \in Node /\ m \in Node /\ pkt.from # n
  BY TravellerOK
<1>2. distance[n] \in [Node -> Distances] /\ distance[n][n] = 0
  BY <1>1 DEF FloodInv, TypeInv, DistancesOK
<1>3. \A d \in Node : distance[n][d] = 1 => distance[n][d] = 1
  OBVIOUS
<1> HIDE DEF n, m
<1>4. CASE RecvAck(pkt)
  <2>1. UNCHANGED <<distance, severed>>
    BY <1>4 DEF RecvAck
  <2>2. scen'.nbr = scen.nbr
    BY NeighboursStay DEF FloodInv
  <2> QED
    BY <2>1, <2>2 DEF FloodInv, DistancesOK
<1>5. CASE RecvZero(pkt)
  <2>1. CASE distance[n][m] = 2
    <3> DEFINE dist == [distance[n] EXCEPT ![m] = NULL]
    <3>1. dist \in [Node -> Distances]
      BY <1>2 DEF Distances
    <3>2. dist[n] = 0 /\ \A d \in Node : distance[n][d] = 1 => dist[d] = 1
      BY <1>1, <1>2, <2>1
    <3>3. Updates(pkt, dist, [lastLSA[n] EXCEPT ![m] = NULL], Live(distance[n]) \ {pkt.from}, pkt.lsa)
      BY <1>5, <2>1 DEF RecvZero, n, m
    <3> HIDE DEF dist
    <3> QED
      BY <3>1, <3>2, <3>3, UpdatesDistances DEF n
  <2>2. CASE distance[n][m] # 2
    BY <1>2, <1>3, <1>5, <2>2, UpdatesDistances DEF RecvZero, n, m
  <2> QED
    BY <2>1, <2>2
<1>6. CASE RecvMineHigher(pkt)
  BY <1>2, <1>3, <1>6, UpdatesDistances DEF RecvMineHigher, n
<1>7. CASE RecvLower(pkt)
  <2>1. CASE m = pkt.from
    <3> DEFINE dist == [distance[n] EXCEPT ![m] = 1]
    <3>1. dist \in [Node -> Distances]
      BY <1>2 DEF Distances
    <3>2. dist[n] = 0 /\ \A d \in Node : distance[n][d] = 1 => dist[d] = 1
      BY <1>1, <1>2, <2>1
    <3>3. Updates(pkt, dist, lastLSA[n], {m}, Stored(pkt))
      BY <1>7, <2>1 DEF RecvLower, n, m
    <3> HIDE DEF dist
    <3> QED
      BY <3>1, <3>2, <3>3, UpdatesDistances DEF n
  <2>2. CASE m # pkt.from
    BY <1>2, <1>3, <1>7, <2>2, UpdatesDistances DEF RecvLower, n, m
  <2> QED
    BY <2>1, <2>2
<1>8. CASE RecvNew(pkt)
  <2> DEFINE dist == [distance[n] EXCEPT ![m] = CASE @ = NULL -> 2 [] @ = DOWN -> 1 [] OTHER -> @]
  <2>1. dist \in [Node -> Distances]
    BY <1>1, <1>2 DEF Distances
  <2>2. dist[n] = 0 /\ \A d \in Node : distance[n][d] = 1 => dist[d] = 1
    BY <1>1, <1>2, FloodAssumption DEF DOWN
  <2>3. Updates(pkt, dist, [lastLSA[n] EXCEPT ![m] = pkt.lsa], Flooded(pkt, dist), OneHopLess(pkt.lsa))
    BY <1>8 DEF RecvNew, n, m
  <2> HIDE DEF dist
  <2> QED
    BY <2>1, <2>2, <2>3, UpdatesDistances DEF n
<1>9. CASE RecvHigher(pkt)
  BY <1>2, <1>3, <1>9, UpdatesDistances DEF RecvHigher, n
<1>10. CASE RecvSame(pkt)
  BY <1>2, <1>3, <1>10, UpdatesDistances DEF RecvSame, n
<1> QED
  BY <1>4, <1>5, <1>6, <1>7, <1>8, <1>9, <1>10 DEF Receive

(* Every configured neighbour is at distance 1, until it is found down.     *)
LEMMA DistancesStep == FloodInv /\ [Next]_vars => DistancesOK'
<1> SUFFICES ASSUME FloodInv, [Next]_vars PROVE DistancesOK'
  OBVIOUS
<1> USE DEF history, tables
<1>1. scen'.nbr = scen.nbr /\ scen.nbr \in [Node -> SUBSET Node]
  BY NeighboursStay DEF FloodInv, TypeInv, ScenarioType
<1>2. distance \in [Node -> [Node -> Distances]] /\ DistancesOK
  BY DEF FloodInv, TypeInv
<1>3. CASE UNCHANGED <<distance, severed>>
  BY <1>1, <1>2, <1>3 DEF DistancesOK
<1>4. ASSUME NEW p \in Node, Restart(p)
      PROVE  DistancesOK'
  <2>1. distance' = [distance EXCEPT ![p] = ConfiguredDistance(p)] /\ severed' = severed
    BY <1>4 DEF Restart
  <2>2. ConfiguredDistance(p)[p] = 0 /\ \A d \in scen.nbr[p] : ConfiguredDistance(p)[d] = 1
    BY <1>1, <1>2 DEF ConfiguredDistance, DistancesOK
  <2>3. distance'[p] = ConfiguredDistance(p) /\ \A n \in Node \ {p} : distance'[n] = distance[n]
    BY <1>2, <2>1
  <2>4. ASSUME NEW n \in Node
        PROVE  distance'[n][n] = 0 /\ \A d \in scen.nbr[n] : <<n, d>> \in severed \/ distance'[n][d] = 1
    <3>1. CASE n = p
      BY <2>2, <2>3, <3>1
    <3>2. CASE n # p
      <4>1. distance'[n] = distance[n]
        BY <2>3, <3>2
      <4>2. distance[n][n] = 0 /\ \A d \in scen.nbr[n] : <<n, d>> \in severed \/ distance[n][d] = 1
        BY <1>2 DEF DistancesOK
      <4> QED
        BY <4>1, <4>2
    <3> QED
      BY <3>1, <3>2
  <2> QED
    BY <1>1, <1>2, <2>1, <2>4 DEF DistancesOK
<1>5. ASSUME NEW p \in Node, NEW q \in Node, NeighborDown(p, q)
      PROVE  DistancesOK'
  <2>1. /\ distance[p][q] = 1 /\ distance' = [distance EXCEPT ![p] = [@ EXCEPT ![q] = DOWN]]
        /\ severed' = severed \cup {<<p, q>>}
    BY <1>5 DEF NeighborDown
  <2>2. p # q
    <3>1. distance[p][p] = 0
      BY <1>2 DEF DistancesOK
    <3> QED
      BY <2>1, <3>1
  <2>3. \A n, d \in Node : distance'[n][d] = IF n = p /\ d = q THEN DOWN ELSE distance[n][d]
    BY <1>2, <2>1
  <2>4. ASSUME NEW n \in Node
        PROVE  distance'[n][n] = 0 /\ <<n, n>> \notin severed'
    <3>1. distance[n][n] = 0 /\ <<n, n>> \notin severed
      BY <1>2 DEF DistancesOK
    <3> QED
      BY <2>1, <2>2, <2>3, <3>1
  <2>5. ASSUME NEW n \in Node, NEW d \in scen.nbr[n]
        PROVE  d # n /\ (<<n, d>> \in severed' \/ distance'[n][d] = 1)
    <3>1. d \in Node /\ d # n /\ (<<n, d>> \in severed \/ distance[n][d] = 1)
      BY <1>1, <1>2 DEF DistancesOK
    <3> QED
      BY <2>1, <2>3, <3>1
  <2> QED
    BY <1>1, <2>4, <2>5 DEF DistancesOK
<1>6. ASSUME NEW p \in Node, NewAdvertisement(p) \/ InsertLocalResource(p) \/ Write(p)
      PROVE  UNCHANGED <<distance, severed>>
  BY <1>6 DEF NewAdvertisement, InsertLocalResource, Advertises, Write
<1>7. ASSUME NEW p \in Node, NEW q \in Node, Retransmit(p, q)
      PROVE  UNCHANGED <<distance, severed>>
  BY <1>7 DEF Retransmit
<1>8. ASSUME NEW pkt, Lose(pkt)
      PROVE  UNCHANGED <<distance, severed>>
  BY <1>8 DEF Lose
<1>9. UNCHANGED vars => UNCHANGED <<distance, severed>>
  BY DEF vars
<1> QED
  BY <1>3, <1>4, <1>5, <1>6, <1>7, <1>8, <1>9, ReceiveDistances DEF Next

(* The pools and the datagrams *)

LEMMA FloodInvFrom ==
  ASSUME FloodInv, [Next]_vars,
         \A n, d \in Node, lsa \in LSAs : Waiting(n, d, lsa)' => Waiting(n, d, lsa) \/ (d # n /\ LSAOK(n, lsa)'),
         \A pkt \in Packets : Travels(pkt)' => Travels(pkt) \/ PacketOK(pkt)'
  PROVE  FloodInv'
<1>1. TypeInv' /\ DistancesOK'
  BY TypeStep, DistancesStep DEF FloodInv
<1>2. \A n, m \in Node, lsa \in LSAs : lastLSA'[n][m] = lsa => StoredOK(m, lsa)'
  BY StoredOKStep
<1>3. ASSUME NEW n \in Node, NEW d \in Node, NEW lsa \in LSAs, Waiting(n, d, lsa)'
      PROVE  d # n /\ LSAOK(n, lsa)'
  <2>1. CASE Waiting(n, d, lsa)
    <3>1. TypeInv /\ d # n /\ LSAOK(n, lsa)
      BY <2>1 DEF FloodInv
    <3> QED
      BY <3>1, LSAOKStays
  <2> QED
    BY <1>3, <2>1
<1>4. ASSUME NEW pkt \in Packets, Travels(pkt)'
      PROVE  PacketOK(pkt)'
  <2>1. CASE Travels(pkt)
    <3>1. TypeInv /\ PacketOK(pkt)
      BY <2>1 DEF FloodInv
    <3> QED
      BY <3>1, PacketOKStays
  <2> QED
    BY <1>4, <2>1
<1> QED
  BY <1>1, <1>2, <1>3, <1>4 DEF FloodInv

LEMMA QueuedOK ==
  ASSUME NEW n \in Node, NEW dests \in SUBSET Node, NEW lsa \in LSAs, n \notin dests, NEW pkt \in Queued(n, dests, lsa)
  PROVE  LSAOK(n, lsa)' => PacketOK(pkt)'
<1>1. pkt.type = "LSA" /\ pkt.from = n /\ pkt.to # n /\ pkt.lsa = lsa
  BY DEF Queued
<1> QED
  BY <1>1 DEF PacketOK

(* An LSA is acknowledged, and sent on to dests.                            *)
LEMMA UpdatesKeeps ==
  ASSUME FloodInv, [Next]_vars, NEW pkt \in net, NEW dist, NEW last, NEW dests \in SUBSET Node, NEW lsa \in LSAs,
         Updates(pkt, dist, last, dests, lsa),
         pkt.to \notin dests, dests # {} => LSAOK(pkt.to, lsa)',
         <<pkt.from, pkt.lsa.sender>> \in severed' \/ Knows(pkt.to, pkt.lsa.sender, pkt.lsa.seq)'
  PROVE  FloodInv'
<1> DEFINE to  == pkt.to
           ack == [type |-> "ACK", from |-> to, to |-> pkt.from,
                   lsa |-> [pkt.lsa EXCEPT !.links = {}, !.objs = {}]]
<1>1. to \in Node /\ pkt.from # to /\ pkt.lsa \in LSAs
  BY TravellerOK
<1>2. /\ ackPool \in [Node -> Pools] /\ list \in [Node -> SUBSET Packets]
      /\ ackPool' = [ackPool EXCEPT ![to] = Pooled(@, dests, lsa)]
      /\ list' = [list EXCEPT ![to] = @ \cup {ack} \cup Queued(to, dests, lsa)]
      /\ net' = net \ {pkt}
  BY DEF FloodInv, TypeInv, Updates, Reads
<1>3. PacketOK(ack)'
  <2>1. ack.type = "ACK" /\ ack.from = to /\ ack.to = pkt.from
    OBVIOUS
  <2>2. ack.lsa.sender = pkt.lsa.sender /\ ack.lsa.seq = pkt.lsa.seq
    BY <1>1 DEF LSAs
  <2> HIDE DEF ack
  <2> QED
    BY <1>1, <2>1, <2>2 DEF PacketOK
<1> HIDE DEF ack, to
<1>4. ASSUME NEW n \in Node, NEW d \in Node, NEW l \in LSAs, Waiting(n, d, l)'
      PROVE  Waiting(n, d, l) \/ (d # n /\ LSAOK(n, l)')
  <2>1. CASE n = to
    <3>1. On(Pooled(ackPool[n], dests, lsa)[d], l)
      BY <1>1, <1>2, <1>4, <2>1 DEF Waiting
    <3>2. ackPool[n] \in Pools
      BY <1>2
    <3>3. On(ackPool[n][d], l) \/ (d \in dests /\ lsa = l)
      BY <3>1, <3>2, OnPooled
    <3> QED
      BY <2>1, <3>3 DEF Waiting, to
  <2>2. CASE n # to
    <3>1. ackPool'[n] = ackPool[n]
      BY <1>2, <2>2
    <3> QED
      BY <1>4, <3>1 DEF Waiting
  <2> QED
    BY <2>1, <2>2
<1>5. ASSUME NEW q \in Packets, Travels(q)'
      PROVE  Travels(q) \/ PacketOK(q)'
  <2>1. CASE q \in net'
    BY <1>2, <2>1 DEF Travels
  <2>2. CASE q \notin net'
    <3>1. PICK n \in Node : q \in list'[n]
      BY <1>5, <2>2 DEF Travels
    <3>2. q \in list[n] \/ q = ack \/ q \in Queued(to, dests, lsa)
      BY <1>2, <3>1
    <3>3. q \in Queued(to, dests, lsa) => PacketOK(q)'
      <4>1. CASE dests = {}
        BY <4>1 DEF Queued
      <4>2. CASE dests # {}
        BY <1>1, <4>2, QueuedOK DEF to
      <4> QED
        BY <4>1, <4>2
    <3> QED
      BY <1>3, <3>2, <3>3 DEF Travels
  <2> QED
    BY <2>1, <2>2
<1> QED
  BY <1>4, <1>5, FloodInvFrom

LEMMA HopsOK ==
  ASSUME FloodInv, [Next]_vars, NEW pkt \in net, Stores(pkt), NEW dist, pkt.to \notin Live(dist)
  PROVE  /\ OneHopLess(pkt.lsa) \in LSAs
         /\ OneHopLess(pkt.lsa).sender = pkt.lsa.sender /\ OneHopLess(pkt.lsa).seq = pkt.lsa.seq
         /\ Knows(pkt.to, pkt.lsa.sender, pkt.lsa.seq)'
         /\ pkt.to \notin Flooded(pkt, dist) /\ Flooded(pkt, dist) \in SUBSET Node
         /\ \A lsa \in LSAs : lsa = OneHopLess(pkt.lsa) /\ Flooded(pkt, dist) # {} => LSAOK(pkt.to, lsa)'
<1>1. /\ pkt.to \in Node /\ pkt.lsa \in LSAs /\ pkt.lsa.sender \in Node /\ pkt.lsa.seq \in Nat
      /\ pkt.lsa.TTL \in 0..InitTTL /\ pkt.lsa.TTL > 0
      /\ LSAOK(pkt.from, pkt.lsa)
  BY TravellerOK, StoresLSA DEF LSAs
<1>2. /\ OneHopLess(pkt.lsa) \in LSAs /\ OneHopLess(pkt.lsa).sender = pkt.lsa.sender
      /\ OneHopLess(pkt.lsa).seq = pkt.lsa.seq /\ OneHopLess(pkt.lsa).TTL = pkt.lsa.TTL - 1
  <2>1. pkt.lsa.TTL - 1 \in 0..InitTTL
    BY <1>1, TTLs
  <2> QED
    BY <1>1, <2>1 DEF OneHopLess, LSAs
<1>3. Knows(pkt.to, pkt.lsa.sender, pkt.lsa.seq)'
  <2>1. lastLSA'[pkt.to][pkt.lsa.sender] = pkt.lsa
    <3>1. lastLSA \in [Node -> [Node -> LSAs \cup {NULL}]]
      BY DEF FloodInv, TypeInv
    <3>2. lastLSA' = [lastLSA EXCEPT ![pkt.to] = [@ EXCEPT ![pkt.lsa.sender] = pkt.lsa]]
      BY StoresLSA
    <3> QED
      BY <1>1, <3>1, <3>2
  <2>2. pkt.lsa.seq >= pkt.lsa.seq /\ pkt.lsa # NULL
    BY <1>1, NotNull
  <2> QED
    BY <2>1, <2>2 DEF Knows, Has
<1>4. pkt.to \notin Flooded(pkt, dist) /\ Flooded(pkt, dist) \in SUBSET Node
  BY LiveType DEF Flooded
<1>5. ASSUME NEW lsa \in LSAs, lsa = OneHopLess(pkt.lsa), Flooded(pkt, dist) # {}
      PROVE  LSAOK(pkt.to, lsa)'
  <2>1. lsa.sender = pkt.lsa.sender /\ lsa.seq = pkt.lsa.seq /\ lsa.TTL = pkt.lsa.TTL - 1
    BY <1>2, <1>5
  <2>2. pkt.lsa.TTL > 1
    BY <1>5 DEF Flooded
  <2>3. lsa.TTL # 0
    BY <1>1, <2>1, <2>2
  <2>4. Knows(pkt.lsa.sender, pkt.lsa.sender, pkt.lsa.seq)'
    BY <1>1, KnowsStays DEF LSAOK, FloodInv
  <2> QED
    BY <1>3, <2>1, <2>3, <2>4 DEF LSAOK
<1> QED
  BY <1>2, <1>3, <1>4, <1>5

LEMMA RecvAckFlood ==
  ASSUME FloodInv, [Next]_vars, NEW pkt \in net, RecvAck(pkt)
  PROVE  FloodInv'
<1> DEFINE pool == ackPool[pkt.to][pkt.from]
<1>1. pkt.to \in Node /\ pkt.from \in Node
  BY TravellerOK
<1>2. ackPool \in [Node -> Pools] /\ pool \in Seq(Sent)
  BY <1>1 DEF FloodInv, TypeInv, Pools
<1>3. UNCHANGED list /\ net' = net \ {pkt}
  BY DEF RecvAck, Reads
<1>4. ASSUME NEW n \in Node, NEW d \in Node, NEW l \in LSAs, Waiting(n, d, l)'
      PROVE  Waiting(n, d, l)
  <2>1. CASE UNCHANGED ackPool
    BY <1>4, <2>1 DEF Waiting
  <2>2. CASE ~UNCHANGED ackPool
    <3>1. PICK i \in Acked(pool, pkt.lsa) : ackPool' = [ackPool EXCEPT ![pkt.to][pkt.from] = RemoveAt(pool, i)]
      BY <2>2 DEF RecvAck
    <3>2. i \in DOMAIN pool
      BY DEF Acked
    <3> DEFINE shorter == RemoveAt(pool, i)
    <3>3. On(shorter, l) => On(pool, l)
      BY <1>2, <3>2, OnRemove
    <3> HIDE DEF shorter
    <3>4. ackPool' = [ackPool EXCEPT ![pkt.to][pkt.from] = shorter]
      BY <3>1 DEF shorter
    <3>5. ackPool'[n][d] = IF n = pkt.to /\ d = pkt.from THEN shorter ELSE ackPool[n][d]
      BY <1>1, <1>2, <3>4 DEF Pools
    <3> QED
      BY <1>4, <3>3, <3>5 DEF Waiting
  <2> QED
    BY <2>1, <2>2
<1>5. \A q \in Packets : Travels(q)' => Travels(q)
  BY <1>3 DEF Travels
<1> QED
  BY <1>4, <1>5, FloodInvFrom

LEMMA RecvZeroFlood ==
  ASSUME FloodInv, [Next]_vars, NEW pkt \in net, RecvZero(pkt)
  PROVE  FloodInv'
<1> DEFINE n == pkt.to
           m == pkt.lsa.sender
<1>1. /\ n \in Node /\ m \in Node /\ pkt.from # n /\ pkt.lsa \in LSAs /\ pkt.lsa.seq \in Nat
      /\ LSAOK(pkt.from, pkt.lsa) /\ pkt.lsa.TTL = 0
  BY TravellerOK DEF RecvZero, IsZero
<1>2. <<pkt.from, m>> \in severed'
  BY <1>1, HistoryGrows DEF LSAOK
<1>3. distance[n] \in [Node -> Distances] /\ distance[n][n] = 0
  BY <1>1 DEF FloodInv, TypeInv, DistancesOK
<1> HIDE DEF n, m
<1>4. CASE distance[n][m] = 2
  <2> DEFINE dist  == [distance[n] EXCEPT ![m] = NULL]
             dests == Live(distance[n]) \ {pkt.from}
  <2>1. Updates(pkt, dist, [lastLSA[n] EXCEPT ![m] = NULL], dests, pkt.lsa)
    BY <1>4 DEF RecvZero, n, m
  <2>2. dests \in SUBSET Node /\ n \notin dests
    BY <1>3, LiveType DEF Live
  <2>3. dist[m] = NULL /\ distance[n][m] # dist[m]
    BY <1>1, <1>3, <1>4, FloodAssumption
  <2> HIDE DEF dist, dests
  <2>4. <<n, m>> \in severed'
    BY <1>1, <2>1, <2>3 DEF Updates, n
  <2>5. Knows(m, m, pkt.lsa.seq)'
    BY <1>1, KnowsStays DEF LSAOK, FloodInv, m
  <2>6. LSAOK(n, pkt.lsa)'
    BY <2>4, <2>5 DEF LSAOK, Knows, m
  <2> QED
    BY <1>1, <1>2, <2>1, <2>2, <2>6, UpdatesKeeps DEF n, m
<1>5. CASE distance[n][m] # 2
  <2>1. Updates(pkt, distance[n], lastLSA[n], {}, pkt.lsa)
    BY <1>5 DEF RecvZero, n, m
  <2>2. {} \in SUBSET Node
    OBVIOUS
  <2> QED
    BY <1>1, <1>2, <2>1, <2>2, UpdatesKeeps DEF m
<1> QED
  BY <1>4, <1>5

LEMMA RecvMineHigherFlood ==
  ASSUME FloodInv, [Next]_vars, NEW pkt \in net, RecvMineHigher(pkt)
  PROVE  FloodInv'
<1> DEFINE n == pkt.to
           last == [lastLSA[n] EXCEPT ![n].seq = pkt.lsa.seq]
<1>1. /\ n \in Node /\ pkt.lsa.sender = n /\ pkt.lsa \in LSAs /\ pkt.lsa.seq \in Nat
      /\ lastLSA[n][n] \in LSAs
  BY TravellerOK DEF RecvMineHigher, IsMine, IsHigher, IsKnown, Stored, FloodInv, TypeInv
<1>2. Updates(pkt, distance[n], last, {}, pkt.lsa)
  BY DEF RecvMineHigher
<1>3. lastLSA' = [lastLSA EXCEPT ![n] = last] /\ lastLSA \in [Node -> [Node -> LSAs \cup {NULL}]]
  BY DEF RecvMineHigher, Updates, FloodInv, TypeInv
<1>4. last[n] \in LSAs /\ last[n].seq = pkt.lsa.seq
  BY <1>1, <1>3 DEF LSAs
<1>5. lastLSA'[n] = last
  BY <1>1, <1>3
<1> HIDE DEF last, n
<1>6. pkt.lsa.seq >= pkt.lsa.seq
  BY <1>1
<1>7. Knows(n, n, pkt.lsa.seq)'
  BY <1>4, <1>5, <1>6, NotNull DEF Knows, Has
<1>8. {} \in SUBSET Node
  OBVIOUS
<1> QED
  BY <1>1, <1>2, <1>7, <1>8, UpdatesKeeps DEF n

LEMMA RecvLowerFlood ==
  ASSUME FloodInv, [Next]_vars, NEW pkt \in net, RecvLower(pkt)
  PROVE  FloodInv'
<1> DEFINE n == pkt.to
           m == pkt.lsa.sender
<1>1. n \in Node /\ m \in Node /\ pkt.from # n /\ pkt.lsa \in LSAs /\ pkt.lsa.seq \in Nat
  BY TravellerOK
<1>2. PICK l \in LSAs : l = lastLSA[n][m]
  BY <1>1 DEF RecvLower, IsLower, IsKnown, Stored, FloodInv, TypeInv
<1>3. l.seq \in Nat /\ l.TTL \in Nat /\ l.seq >= l.seq
  BY TTLs DEF LSAs
<1>4. Stored(pkt) = l /\ l.seq > pkt.lsa.seq
  BY <1>2 DEF RecvLower, IsLower, Stored
<1>5. l # NULL /\ l.seq >= pkt.lsa.seq
  BY <1>1, <1>3, <1>4, NotNull
<1> HIDE DEF n, m
<1>6. Knows(n, m, pkt.lsa.seq) /\ Knows(n, m, l.seq)
  BY <1>2, <1>3, <1>5 DEF Knows, Has
<1>7. Knows(n, m, pkt.lsa.seq)'
  BY <1>1, <1>6, KnowsStays DEF FloodInv
<1>8. LSAOK(n, l)'
  <2>1. StoredOK(m, l)
    BY <1>1, <1>2 DEF FloodInv
  <2>2. LSAOK(n, l)
    BY <1>3, <1>6, <2>1 DEF LSAOK, StoredOK
  <2> QED
    BY <1>1, <2>2, LSAOKStays DEF FloodInv
<1>9. CASE m = pkt.from
  <2>1. Updates(pkt, [distance[n] EXCEPT ![m] = 1], lastLSA[n], {m}, l)
    BY <1>4, <1>9 DEF RecvLower, n, m
  <2>2. {m} \in SUBSET Node /\ n \notin {m}
    BY <1>1, <1>9
  <2> QED
    BY <1>7, <1>8, <2>1, <2>2, UpdatesKeeps DEF n, m
<1>10. CASE m # pkt.from
  <2>1. Updates(pkt, distance[n], lastLSA[n], {}, pkt.lsa)
    BY <1>10 DEF RecvLower, n, m
  <2>2. {} \in SUBSET Node
    OBVIOUS
  <2> QED
    BY <1>1, <1>7, <2>1, <2>2, UpdatesKeeps DEF n, m
<1> QED
  BY <1>9, <1>10

LEMMA RecvNewFlood ==
  ASSUME FloodInv, [Next]_vars, NEW pkt \in net, RecvNew(pkt)
  PROVE  FloodInv'
<1> DEFINE n    == pkt.to
           m    == pkt.lsa.sender
           dist == [distance[n] EXCEPT ![m] = CASE @ = NULL -> 2 [] @ = DOWN -> 1 [] OTHER -> @]
<1>1. n \in Node /\ m \in Node
  BY TravellerOK
<1>2. distance[n] \in [Node -> Distances] /\ distance[n][n] = 0
  BY <1>1 DEF FloodInv, TypeInv, DistancesOK
<1>3. dist[n] = 0
  BY <1>1, <1>2, FloodAssumption DEF DOWN
<1>4. Updates(pkt, dist, [lastLSA[n] EXCEPT ![m] = pkt.lsa], Flooded(pkt, dist), OneHopLess(pkt.lsa))
  BY DEF RecvNew
<1> HIDE DEF dist, n, m
<1>5. n \notin Live(dist) /\ Stores(pkt)
  BY <1>3 DEF Live, Stores
<1>6. PICK l \in LSAs : l = OneHopLess(pkt.lsa)
  BY <1>5, HopsOK DEF n
<1>7. /\ Knows(n, m, pkt.lsa.seq)' /\ n \notin Flooded(pkt, dist)
      /\ Flooded(pkt, dist) \in SUBSET Node /\ (Flooded(pkt, dist) # {} => LSAOK(n, l)')
  BY <1>5, <1>6, HopsOK DEF n, m
<1>8. Updates(pkt, dist, [lastLSA[n] EXCEPT ![m] = pkt.lsa], Flooded(pkt, dist), l)
  BY <1>4, <1>6
<1> QED
  BY <1>7, <1>8, UpdatesKeeps DEF n, m

LEMMA RecvHigherFlood ==
  ASSUME FloodInv, [Next]_vars, NEW pkt \in net, RecvHigher(pkt)
  PROVE  FloodInv'
<1> DEFINE n    == pkt.to
           m    == pkt.lsa.sender
           dist == distance[n]
<1>1. n \in Node /\ m \in Node
  BY TravellerOK
<1>2. dist[n] = 0
  BY <1>1 DEF FloodInv, DistancesOK
<1>4. Updates(pkt, dist, [lastLSA[n] EXCEPT ![m] = pkt.lsa], Flooded(pkt, dist), OneHopLess(pkt.lsa))
  BY DEF RecvHigher
<1> HIDE DEF dist, n, m
<1>5. n \notin Live(dist) /\ Stores(pkt)
  BY <1>2 DEF Live, Stores
<1>6. PICK l \in LSAs : l = OneHopLess(pkt.lsa)
  BY <1>5, HopsOK DEF n
<1>7. /\ Knows(n, m, pkt.lsa.seq)' /\ n \notin Flooded(pkt, dist)
      /\ Flooded(pkt, dist) \in SUBSET Node /\ (Flooded(pkt, dist) # {} => LSAOK(n, l)')
  BY <1>5, <1>6, HopsOK DEF n, m
<1>8. Updates(pkt, dist, [lastLSA[n] EXCEPT ![m] = pkt.lsa], Flooded(pkt, dist), l)
  BY <1>4, <1>6
<1> QED
  BY <1>7, <1>8, UpdatesKeeps DEF n, m

LEMMA RecvSameFlood ==
  ASSUME FloodInv, [Next]_vars, NEW pkt \in net, RecvSame(pkt)
  PROVE  FloodInv'
<1> DEFINE n == pkt.to
           m == pkt.lsa.sender
<1>1. n \in Node /\ m \in Node /\ pkt.lsa \in LSAs /\ pkt.lsa.seq \in Nat
  BY TravellerOK
<1>2. lastLSA[n][m] # NULL /\ lastLSA[n][m].seq = pkt.lsa.seq
  BY DEF RecvSame, IsSame, IsKnown, Stored
<1>3. pkt.lsa.seq >= pkt.lsa.seq
  BY <1>1
<1> HIDE DEF n, m
<1>4. Knows(n, m, pkt.lsa.seq)'
  <2>1. Knows(n, m, pkt.lsa.seq)
    BY <1>2, <1>3 DEF Knows, Has
  <2> QED
    BY <1>1, <2>1, KnowsStays DEF FloodInv
<1>5. Updates(pkt, distance[n], lastLSA[n], {}, pkt.lsa) /\ {} \in SUBSET Node
  BY DEF RecvSame, n
<1> QED
  BY <1>1, <1>4, <1>5, UpdatesKeeps DEF n, m

LEMMA AdvertisesFlood ==
  ASSUME FloodInv, [Next]_vars, NEW n \in Node, NewAdvertisement(n) \/ InsertLocalResource(n)
  PROVE  FloodInv'
<1>1. PICK new \in LSAs :
        /\ new.sender = n
        /\ lastLSA' = [lastLSA EXCEPT ![n][n] = new]
        /\ list' = [list EXCEPT ![n] = @ \cup Queued(n, Live(distance[n]), new)]
        /\ ackPool' = [ackPool EXCEPT ![n] = Pooled(@, Live(distance[n]), new)]
        /\ UNCHANGED <<distance, net, restarted, severed>>
  BY AdvertisesNew DEF FloodInv
<1> DEFINE dests == Live(distance[n])
<1>2. dests \in SUBSET Node /\ n \notin dests
  <2>1. distance[n][n] = 0
    BY DEF FloodInv, DistancesOK
  <2> QED
    BY <2>1, LiveType DEF Live
<1> HIDE DEF dests
<1>3. LSAOK(n, new)'
  <2>1. lastLSA'[n][n] = new
    BY <1>1 DEF FloodInv, TypeInv
  <2>2. StoredOK(n, new)'
    BY <2>1, StoredOKStep
  <2>3. new.TTL # 0
    BY <2>2, TTLs DEF StoredOK, LSAs
  <2> QED
    BY <1>1, <2>2, <2>3 DEF LSAOK, StoredOK
<1>4. ASSUME NEW x \in Node, NEW d \in Node, NEW l \in LSAs, Waiting(x, d, l)'
      PROVE  Waiting(x, d, l) \/ (d # x /\ LSAOK(x, l)')
  <2>1. CASE x = n
    <3>1. ackPool[n] \in Pools /\ On(Pooled(ackPool[n], dests, new)[d], l)
      BY <1>1, <1>4, <2>1 DEF Waiting, FloodInv, TypeInv, dests
    <3>2. On(ackPool[n][d], l) \/ (d \in dests /\ new = l)
      BY <1>2, <3>1, OnPooled
    <3> QED
      BY <1>2, <1>3, <2>1, <3>2 DEF Waiting
  <2>2. CASE x # n
    <3>1. ackPool'[x] = ackPool[x]
      BY <1>1, <2>2 DEF FloodInv, TypeInv
    <3> QED
      BY <1>4, <3>1 DEF Waiting
  <2> QED
    BY <2>1, <2>2
<1>5. ASSUME NEW q \in Packets, Travels(q)'
      PROVE  Travels(q) \/ PacketOK(q)'
  <2>1. q \in Queued(n, dests, new) => PacketOK(q)'
    BY <1>2, <1>3, QueuedOK
  <2>2. q \notin Queued(n, dests, new) => Travels(q)
    BY <1>1, <1>5 DEF Travels, FloodInv, TypeInv, dests
  <2> QED
    BY <2>1, <2>2
<1> QED
  BY <1>4, <1>5, FloodInvFrom

LEMMA RetransmitFlood ==
  ASSUME FloodInv, [Next]_vars, NEW n \in Node, NEW d \in Node, Retransmit(n, d)
  PROVE  FloodInv'
<1> DEFINE pool == ackPool[n][d]
<1>1. pool \in Seq(Sent) /\ ackPool \in [Node -> Pools] /\ list \in [Node -> SUBSET Packets]
  BY DEF FloodInv, TypeInv, Pools
<1>2. PICK k \in DOMAIN pool :
        list' = [list EXCEPT ![n] =
          @ \cup {[type |-> "LSA", from |-> n, to |-> d, lsa |-> pool[i].lsa] : i \in ToRetransmit(pool, k)}]
  BY DEF Retransmit
<1> DEFINE due == ToRetransmit(pool, k)
<1>3. Len(pool) \in Nat /\ DOMAIN pool = 1..Len(pool)
  BY <1>1, LenProperties
<1>4. due \subseteq 1..k /\ due \subseteq DOMAIN pool
  BY <1>3 DEF ToRetransmit
<1>6. PICK longer : /\ ackPool' = [ackPool EXCEPT ![n][d] = longer]
                    /\ \A l : On(longer, l) <=> On(pool, l)
  BY <1>1, RetransmitKeeps
<1>7. \A l : On(longer, l) <=> On(pool, l)
  BY <1>6
<1>8. ackPool' = [ackPool EXCEPT ![n][d] = longer]
  BY <1>6
<1> HIDE DEF due
<1>9. \A x, y \in Node : ackPool'[x][y] = IF x = n /\ y = d THEN longer ELSE ackPool[x][y]
  BY <1>1, <1>8 DEF Pools
<1>10. ASSUME NEW x \in Node, NEW y \in Node, NEW l \in LSAs, Waiting(x, y, l)'
       PROVE  Waiting(x, y, l)
  BY <1>7, <1>9, <1>10 DEF Waiting
<1>11. ASSUME NEW q \in Packets, Travels(q)'
       PROVE  Travels(q) \/ PacketOK(q)'
  <2>1. CASE Travels(q)
    BY <2>1
  <2>2. CASE ~Travels(q)
    <3>1. net' = net /\ list' = [list EXCEPT ![n] =
             @ \cup {[type |-> "LSA", from |-> n, to |-> d, lsa |-> pool[i].lsa] : i \in due}]
      BY <1>2 DEF Retransmit, due
    <3>2. PICK i \in due : q = [type |-> "LSA", from |-> n, to |-> d, lsa |-> pool[i].lsa]
      BY <1>1, <1>11, <2>2, <3>1 DEF Travels
    <3>3. q.type = "LSA" /\ q.from = n /\ q.to = d /\ q.lsa = pool[i].lsa /\ q.lsa \in LSAs
      BY <3>2 DEF Packets
    <3>4. Waiting(n, d, q.lsa)
      BY <1>4, <3>3 DEF Waiting, On
    <3>5. d # n /\ LSAOK(n, q.lsa)
      BY <3>3, <3>4 DEF FloodInv
    <3>6. PacketOK(q)
      BY <3>3, <3>5 DEF PacketOK
    <3> QED
      BY <3>6, PacketOKStays DEF FloodInv
  <2> QED
    BY <2>1, <2>2
<1> QED
  BY <1>10, <1>11, FloodInvFrom

LEMMA NeighborDownFlood ==
  ASSUME FloodInv, [Next]_vars, NEW n \in Node, NEW d \in Node, NeighborDown(n, d)
  PROVE  FloodInv'
<1> DEFINE dist  == [distance[n] EXCEPT ![d] = DOWN]
           known == lastLSA[n][d] # NULL
           lsa   == IF known THEN [lastLSA[n][d] EXCEPT !.TTL = 0] ELSE NULL
           dests == IF known THEN Live(dist) ELSE {}
           empty == [ackPool[n] EXCEPT ![d] = << >>]
<1>1. /\ ackPool' = [ackPool EXCEPT ![n] = Pooled(empty, dests, lsa)]
      /\ <<n, d>> \in severed' /\ net' = net
      /\ distance[n][d] = 1
  BY DEF NeighborDown
<1>2. PICK pick \in RemovedFrom(list[n], ackPool[n][d]) :
         list' = [list EXCEPT ![n] = (@ \ {pick[i] : i \in DOMAIN pick}) \cup Queued(n, dests, lsa)]
  BY DEF NeighborDown
<1>3. distance[n] \in [Node -> Distances] /\ distance[n][n] = 0
  BY DEF FloodInv, TypeInv, DistancesOK
<1>4. dests \in SUBSET Node /\ n \notin dests
  <2>1. dist[n] # 1 /\ Live(dist) \subseteq Node
    BY <1>3, LiveType DEF DOWN
  <2> QED
    BY <2>1 DEF Live
<1>5. PICK zero : zero = lsa /\ (known => zero \in LSAs /\ LSAOK(n, zero)')
  <2>1. CASE ~known
    BY <2>1
  <2>2. CASE known
    <3>1. PICK l \in LSAs : lastLSA[n][d] = l
      BY <2>2 DEF FloodInv, TypeInv
    <3>2. PICK zero \in LSAs : zero = [l EXCEPT !.TTL = 0]
      <4>1. 0 \in 0..InitTTL
        BY TTLs
      <4> QED
        BY <4>1 DEF LSAs
    <3>3. zero.sender = l.sender /\ zero.seq = l.seq /\ l.seq \in Nat
      BY <3>2 DEF LSAs
    <3>4. StoredOK(d, l)
      BY <3>1 DEF FloodInv
    <3>5. Knows(d, d, l.seq)'
      BY <3>3, <3>4, KnowsStays DEF StoredOK, FloodInv
    <3>6. LSAOK(n, zero)'
      BY <1>1, <3>3, <3>4, <3>5 DEF LSAOK, Knows, StoredOK
    <3> QED
      BY <2>2, <3>1, <3>2, <3>6
  <2> QED
    BY <2>1, <2>2
<1>6. ~known => dests = {}
  OBVIOUS
<1>7. /\ ackPool' = [ackPool EXCEPT ![n] = Pooled(empty, dests, zero)]
      /\ list' = [list EXCEPT ![n] = (@ \ {pick[i] : i \in DOMAIN pick}) \cup Queued(n, dests, zero)]
  BY <1>1, <1>2, <1>5
<1>8. empty \in Pools /\ \A y \in Node : empty[y] = IF y = d THEN << >> ELSE ackPool[n][y]
  BY EmptyPoolType DEF FloodInv, TypeInv, Pools
<1> HIDE DEF empty, dests, known, lsa
<1>9. \A y \in Node, l \in LSAs : On(Pooled(empty, dests, zero)[y], l) => Waiting(n, y, l) \/ (y \in dests /\ zero = l)
  <2>1. \A y \in Node, l \in LSAs : On(empty[y], l) => Waiting(n, y, l)
    BY <1>8 DEF On, Waiting
  <2>2. CASE known
    <3>1. \A y \in Node, l \in LSAs : On(Pooled(empty, dests, zero)[y], l) <=> On(empty[y], l) \/ (y \in dests /\ zero = l)
      <4>1. zero \in LSAs /\ dests \in SUBSET Node /\ empty \in Pools
        BY <1>4, <1>5, <1>8, <2>2
      <4> QED
        BY <4>1, OnPooled
    <3> QED
      BY <2>1, <3>1
  <2>3. CASE ~known
    <3>1. \A y \in Node : Pooled(empty, dests, zero)[y] = empty[y]
      BY <1>6, <2>3 DEF Pooled
    <3> QED
      BY <2>1, <3>1
  <2> QED
    BY <2>2, <2>3
<1>10. ASSUME NEW x \in Node, NEW y \in Node, NEW l \in LSAs, Waiting(x, y, l)'
       PROVE  Waiting(x, y, l) \/ (y # x /\ LSAOK(x, l)')
  <2>1. CASE x = n
    <3>1. On(Pooled(empty, dests, zero)[y], l)
      BY <1>7, <1>10, <2>1 DEF Waiting, FloodInv, TypeInv
    <3>2. CASE Waiting(n, y, l)
      BY <2>1, <3>2
    <3>3. CASE y \in dests /\ zero = l
      BY <1>4, <1>5, <1>6, <2>1, <3>3
    <3> QED
      BY <1>9, <3>1, <3>2, <3>3
  <2>2. CASE x # n
    <3>1. ackPool'[x] = ackPool[x]
      BY <1>7, <2>2 DEF FloodInv, TypeInv
    <3> QED
      BY <1>10, <3>1 DEF Waiting
  <2> QED
    BY <2>1, <2>2
<1>11. ASSUME NEW q \in Packets, Travels(q)'
       PROVE  Travels(q) \/ PacketOK(q)'
  <2>1. CASE q \in Queued(n, dests, zero)
    <3>1. known
      BY <1>6, <2>1 DEF Queued
    <3> QED
      BY <1>4, <1>5, <2>1, <3>1, QueuedOK
  <2>2. CASE q \notin Queued(n, dests, zero)
    BY <1>1, <1>7, <1>11, <2>2 DEF Travels, FloodInv, TypeInv
  <2> QED
    BY <2>1, <2>2
<1> QED
  BY <1>10, <1>11, FloodInvFrom

LEMMA FloodInvStep == FloodInv /\ [Next]_vars => FloodInv'
<1> SUFFICES ASSUME FloodInv, [Next]_vars PROVE FloodInv'
  OBVIOUS
<1> USE DEF tables, history
<1>1. CASE UNCHANGED ackPool /\ (\A q \in Packets : Travels(q)' => Travels(q))
  BY <1>1, FloodInvFrom DEF Waiting
<1>2. ASSUME NEW n \in Node, Write(n)
      PROVE  UNCHANGED ackPool /\ \A q \in Packets : Travels(q)' => Travels(q)
  <2>1. UNCHANGED ackPool /\ (\A q \in net' : q \in net \/ q \in list[n]) /\ list' = [list EXCEPT ![n] = {}]
    BY <1>2 DEF Write
  <2> QED
    BY <2>1 DEF Travels, FloodInv, TypeInv
<1>3. ASSUME NEW pkt \in net, Lose(pkt)
      PROVE  UNCHANGED ackPool /\ \A q \in Packets : Travels(q)' => Travels(q)
  BY <1>3 DEF Lose, Travels
<1>4. UNCHANGED vars => UNCHANGED ackPool /\ \A q \in Packets : Travels(q)' => Travels(q)
  BY DEF vars, Travels
<1>5. ASSUME NEW n \in Node, Restart(n)
      PROVE  FloodInv'
  <2>1. /\ list' = [list EXCEPT ![n] = {}] /\ net' = net
        /\ ackPool' = [ackPool EXCEPT ![n] = [d \in Node |-> << >>]]
    BY <1>5 DEF Restart
  <2>2. \A q \in Packets : Travels(q)' => Travels(q)
    BY <2>1 DEF Travels, FloodInv, TypeInv
  <2>3. \A x, y \in Node : ackPool'[x][y] = IF x = n THEN << >> ELSE ackPool[x][y]
    BY <2>1 DEF FloodInv, TypeInv
  <2>4. ASSUME NEW x \in Node, NEW y \in Node, NEW l \in LSAs, Waiting(x, y, l)'
        PROVE  Waiting(x, y, l)
    <3>1. On(ackPool'[x][y], l)
      BY <2>4 DEF Waiting
    <3>2. x # n
      BY <2>3, <3>1 DEF On
    <3> QED
      BY <2>3, <3>1, <3>2 DEF Waiting
  <2> QED
    BY <2>2, <2>4, FloodInvFrom
<1>6. ASSUME NEW pkt \in net, Receive(pkt)
      PROVE  FloodInv'
  BY <1>6, RecvAckFlood, RecvZeroFlood, RecvMineHigherFlood, RecvLowerFlood, RecvNewFlood,
     RecvHigherFlood, RecvSameFlood DEF Receive
<1>7. ASSUME NEW n \in Node, NEW d \in Node, Retransmit(n, d) \/ NeighborDown(n, d)
      PROVE  FloodInv'
  BY <1>7, RetransmitFlood, NeighborDownFlood
<1>8. ASSUME NEW n \in Node, NewAdvertisement(n) \/ InsertLocalResource(n)
      PROVE  FloodInv'
  BY <1>8, AdvertisesFlood
<1> QED
  BY <1>1, <1>2, <1>3, <1>4, <1>5, <1>6, <1>7, <1>8 DEF Next

(* What leaves a pool *)

LEMMA PoolStep ==
  ASSUME FloodInv, [Next]_vars, NEW n \in Node, NEW d \in Node, NEW l \in LSAs,
         Waiting(n, d, l), ~Waiting(n, d, l)'
  PROVE  \/ Restart(n) \/ NeighborDown(n, d)
         \/ \E pkt \in net : /\ RecvAck(pkt) /\ pkt.to = n /\ pkt.from = d
                             /\ pkt.lsa.sender = l.sender /\ pkt.lsa.seq = l.seq
<1> USE DEF tables, history
<1>1. ackPool \in [Node -> Pools] /\ On(ackPool[n][d], l) /\ ~On(ackPool'[n][d], l)
  BY DEF FloodInv, TypeInv, Waiting
<1>2. ASSUME NEW x \in Node, NEW dests \in SUBSET Node, NEW lsa \in LSAs,
             ackPool' = [ackPool EXCEPT ![x] = Pooled(@, dests, lsa)]
      PROVE  FALSE
  <2>1. CASE x = n
    <3>1. ackPool[n] \in Pools /\ ackPool'[n] = Pooled(ackPool[n], dests, lsa)
      BY <1>1, <1>2, <2>1
    <3>2. On(Pooled(ackPool[n], dests, lsa)[d], l)
      BY <1>1, <3>1, OnPooled
    <3> QED
      BY <1>1, <3>1, <3>2
  <2>2. CASE x # n
    BY <1>1, <1>2, <2>2
  <2> QED
    BY <2>1, <2>2
<1>3. ackPool' # ackPool
  BY <1>1
<1>4. ASSUME NEW x \in Node, NewAdvertisement(x) \/ InsertLocalResource(x)
      PROVE  FALSE
  <2>1. PICK new \in LSAs : ackPool' = [ackPool EXCEPT ![x] = Pooled(@, Live(distance[x]), new)]
    BY <1>4, AdvertisesNew DEF FloodInv
  <2>2. Live(distance[x]) \in SUBSET Node
    BY LiveType
  <2> QED
    BY <1>2, <2>1, <2>2
<1>5. ASSUME NEW x \in Node, Restart(x)
      PROVE  Restart(n)
  <2>1. x = n
    BY <1>1, <1>5 DEF Restart
  <2> QED
    BY <1>5, <2>1
<1>6. ASSUME NEW x \in Node, NEW y \in Node, Retransmit(x, y)
      PROVE  FALSE
  <2> DEFINE pool == ackPool[x][y]
  <2>1. PICK longer : /\ ackPool' = [ackPool EXCEPT ![x][y] = longer]
                      /\ \A q : On(longer, q) <=> On(pool, q)
    BY <1>1, <1>6, RetransmitKeeps
  <2>5. \A q : On(longer, q) <=> On(pool, q)
    BY <2>1
  <2>6. ackPool' = [ackPool EXCEPT ![x][y] = longer]
    BY <2>1
  <2>7. ackPool'[n][d] = IF n = x /\ d = y THEN longer ELSE ackPool[n][d]
    BY <1>1, <2>6 DEF Pools
  <2> QED
    BY <1>1, <2>5, <2>7
<1>7. ASSUME NEW x \in Node, NEW y \in Node, NeighborDown(x, y)
      PROVE  NeighborDown(n, d)
  <2> DEFINE dist  == [distance[x] EXCEPT ![y] = DOWN]
             known == lastLSA[x][y] # NULL
             lsa   == IF known THEN [lastLSA[x][y] EXCEPT !.TTL = 0] ELSE NULL
             dests == IF known THEN Live(dist) ELSE {}
             empty == [ackPool[x] EXCEPT ![y] = << >>]
  <2>1. ackPool' = [ackPool EXCEPT ![x] = Pooled(empty, dests, lsa)]
    BY <1>7 DEF NeighborDown
  <2>2. dests \in SUBSET Node /\ (known => lsa \in LSAs) /\ (~known => dests = {})
    <3>1. 0 \in 0..InitTTL /\ (known => lastLSA[x][y] \in LSAs)
      BY TTLs DEF FloodInv, TypeInv
    <3> QED
      BY <3>1, LiveType DEF LSAs
  <2>3. empty \in Pools /\ \A z \in Node \ {y} : empty[z] = ackPool[x][z]
    BY <1>1, EmptyPoolType DEF Pools
  <2> HIDE DEF empty, dests, lsa, known
  <2>4. CASE x = n /\ y = d
    BY <1>7, <2>4
  <2>5. CASE x = n /\ y # d
    <3>1. On(empty[d], l)
      BY <1>1, <2>3, <2>5
    <3>2. On(Pooled(empty, dests, lsa)[d], l)
      <4>1. CASE known
        <5>1. On(Pooled(empty, dests, lsa)[d], l) <=> On(empty[d], l) \/ (d \in dests /\ lsa = l)
          BY <2>2, <2>3, <4>1, OnPooled
        <5> QED
          BY <3>1, <5>1
      <4>2. CASE ~known
        BY <2>2, <3>1, <4>2 DEF Pooled
      <4> QED
        BY <4>1, <4>2
    <3> QED
      BY <1>1, <2>1, <2>5, <3>2
  <2>6. CASE x # n
    BY <1>1, <2>1, <2>6
  <2> QED
    BY <2>4, <2>5, <2>6
<1>8. ASSUME NEW x \in Node, Write(x)
      PROVE  FALSE
  BY <1>3, <1>8 DEF Write
<1>9. ASSUME NEW pkt, Lose(pkt)
      PROVE  FALSE
  BY <1>3, <1>9 DEF Lose
<1>10. ASSUME NEW pkt \in net, RecvAck(pkt)
       PROVE  /\ pkt.to = n /\ pkt.from = d
              /\ pkt.lsa.sender = l.sender /\ pkt.lsa.seq = l.seq
  <2> DEFINE pool == ackPool[pkt.to][pkt.from]
  <2>1. PICK i \in Acked(pool, pkt.lsa) : ackPool' = [ackPool EXCEPT ![pkt.to][pkt.from] = RemoveAt(pool, i)]
    BY <1>3, <1>10 DEF RecvAck
  <2>2. i \in DOMAIN pool /\ pool[i].lsa.seq = pkt.lsa.seq /\ pool[i].lsa.sender = pkt.lsa.sender
    BY DEF Acked
  <2>3. pkt.to \in Node /\ pkt.from \in Node /\ pool \in Seq(Sent)
    BY <1>1, TravellerOK DEF Pools
  <2> DEFINE shorter == RemoveAt(pool, i)
  <2>4. On(pool, l) /\ pool[i].lsa # l => On(shorter, l)
    <3> HIDE DEF pool
    <3> QED
      BY <2>2, <2>3, OnRemove
  <2> HIDE DEF shorter
  <2>5. ackPool' = [ackPool EXCEPT ![pkt.to][pkt.from] = shorter]
    BY <2>1 DEF shorter
  <2>6. ackPool'[n][d] = IF n = pkt.to /\ d = pkt.from THEN shorter ELSE ackPool[n][d]
    BY <1>1, <2>3, <2>5 DEF Pools
  <2>7. pkt.to = n /\ pkt.from = d /\ pool[i].lsa = l
    BY <1>1, <2>4, <2>6
  <2> QED
    BY <2>2, <2>7
<1>11. ASSUME NEW pkt \in net, Receive(pkt), ~RecvAck(pkt)
       PROVE  FALSE
  <2>1. pkt.to \in Node
    BY TravellerOK
  <2>2. PICK dests, lsa : ackPool' = [ackPool EXCEPT ![pkt.to] = Pooled(@, dests, lsa)]
                          /\ dests \in SUBSET Node /\ (dests # {} => lsa \in LSAs)
    <3>1. CASE RecvZero(pkt)
      <4>1. {} \in SUBSET Node /\ Live(distance[pkt.to]) \ {pkt.from} \in SUBSET Node /\ pkt.lsa \in LSAs
        BY LiveType, TravellerOK
      <4> QED
        BY <3>1, <4>1 DEF RecvZero, Updates
    <3>2. CASE RecvMineHigher(pkt) \/ RecvSame(pkt)
      BY <3>2 DEF RecvMineHigher, RecvSame, Updates
    <3>3. CASE RecvLower(pkt)
      <4>1. pkt.lsa.sender \in Node /\ Stored(pkt) \in LSAs
        BY <3>3, TravellerOK DEF RecvLower, IsLower, IsKnown, Stored, FloodInv, TypeInv
      <4> QED
        BY <3>3, <4>1 DEF RecvLower, Updates
    <3>4. CASE Stores(pkt)
      <4>1. PICK dist : ackPool' = [ackPool EXCEPT ![pkt.to] = Pooled(@, Flooded(pkt, dist), OneHopLess(pkt.lsa))]
        BY <3>4 DEF Stores, RecvNew, RecvHigher, Updates
      <4>2. Flooded(pkt, dist) \in SUBSET Node /\ OneHopLess(pkt.lsa) \in LSAs
        <5>1. pkt.lsa \in LSAs /\ pkt.lsa.TTL \in 0..InitTTL /\ pkt.lsa.TTL > 0
          BY <3>4, TravellerOK, StoresLSA DEF LSAs
        <5>2. pkt.lsa.TTL - 1 \in 0..InitTTL
          BY <5>1, TTLs
        <5> QED
          BY <5>1, <5>2, LiveType DEF Flooded, OneHopLess, LSAs
      <4> QED
        BY <4>1, <4>2
    <3> QED
      BY <1>11, <3>1, <3>2, <3>3, <3>4 DEF Receive, Stores
  <2>3. CASE dests # {}
    BY <1>2, <2>1, <2>2, <2>3
  <2>4. CASE dests = {}
    <3>1. \A z \in Node : Pooled(ackPool[pkt.to], dests, lsa)[z] = ackPool[pkt.to][z]
      BY <2>4 DEF Pooled
    <3> QED
      BY <1>1, <2>1, <2>2, <3>1
  <2> QED
    BY <2>3, <2>4
<1>12. UNCHANGED vars => FALSE
  BY <1>3 DEF vars
<1>13. CASE \E x \in Node : NewAdvertisement(x) \/ InsertLocalResource(x) \/ Write(x) \/ Restart(x)
  BY <1>4, <1>5, <1>8, <1>13
<1>14. CASE \E x, y \in Node : Retransmit(x, y) \/ NeighborDown(x, y)
  BY <1>6, <1>7, <1>14
<1>15. CASE \E pkt \in net : Receive(pkt) \/ Lose(pkt)
  BY <1>9, <1>10, <1>11, <1>15
<1> QED
  BY <1>12, <1>13, <1>14, <1>15 DEF Next

LEMMA FloodInit == Init => FloodInv /\ Reliable
<1> SUFFICES ASSUME Init PROVE FloodInv /\ Reliable
  OBVIOUS
<1>1. TypeInv
  BY TypeInit
<1>2. /\ scen.nbr \in [Node -> SUBSET Node]
      /\ \A n, m \in Node : m \in scen.nbr[n] => n # m
  BY <1>1, FloodAssumption DEF Init, TypeInv, ScenarioType
<1>3. /\ \A n, m \in Node : distance[n][m] = IF scen.settled /\ m \notin scen.nbr[n] \cup {n} THEN 2
                                              ELSE ConfiguredDistance(n)[m]
      /\ \A n, m \in Node : lastLSA[n][m] = IF scen.settled THEN SettledLSA(n, m) ELSE NULL
      /\ \A n, d \in Node : ackPool[n][d] = << >>
      /\ \A n \in Node : list[n] = {}
      /\ net = {} /\ restarted = {} /\ severed = {}
  BY DEF Init
<1>4. DistancesOK
  <2>1. ASSUME NEW n \in Node
        PROVE  distance[n][n] = 0
    BY <1>3 DEF ConfiguredDistance
  <2>2. ASSUME NEW n \in Node, NEW d \in scen.nbr[n]
        PROVE  d # n /\ distance[n][d] = 1
    <3>1. d \in Node /\ d # n
      BY <1>2
    <3> QED
      BY <1>3, <3>1 DEF ConfiguredDistance
  <2> QED
    BY <1>3, <2>1, <2>2 DEF DistancesOK
<1>5. ASSUME NEW n \in Node, NEW m \in Node, NEW lsa \in LSAs, lastLSA[n][m] = lsa
      PROVE  scen.settled /\ lsa.sender = m /\ lsa.seq = 1 /\ lsa.TTL > 0
  <2>1. lastLSA[n][m] # NULL
    BY <1>5, NotNull
  <2>2. scen.settled /\ lsa = SettledLSA(n, m)
    BY <1>3, <1>5, <2>1
  <2> QED
    BY <2>2, TTLs DEF SettledLSA
<1>6. ASSUME NEW n \in Node, NEW m \in Node, scen.settled
      PROVE  Has(n, m, 1)
  <2>1. lastLSA[n][m] = SettledLSA(n, m)
    BY <1>3, <1>6
  <2>2. SettledLSA(n, m).seq = 1 /\ 1 >= 1
    BY DEF SettledLSA
  <2>3. lastLSA[n][m] # NULL
    <3>1. SettledLSA(n, m) \in LSAs
      BY <1>1, SettledType DEF TypeInv
    <3> QED
      BY <2>1, <3>1, NotNull
  <2> QED
    BY <2>1, <2>2, <2>3 DEF Has
<1>7. \A n, d \in Node, lsa \in LSAs : ~Waiting(n, d, lsa)
  BY <1>3 DEF Waiting, On
<1>8. \A pkt \in Packets : ~Travels(pkt)
  BY <1>3 DEF Travels
<1>9. \A n, m \in Node, lsa \in LSAs : lastLSA[n][m] = lsa => StoredOK(m, lsa)
  BY <1>5, <1>6 DEF StoredOK, Knows
<1>10. Reliable
  BY <1>5, <1>6 DEF Reliable
<1> QED
  BY <1>1, <1>4, <1>7, <1>8, <1>9, <1>10 DEF FloodInv

(* What was known stays known, or waits in the pool until its ACK says so.  *)
LEMMA StillReliable ==
  ASSUME FloodInv, Reliable, [Next]_vars, NEW n \in Node, NEW m \in Node, NEW d \in Node, NEW lsa \in LSAs,
         d \in scen.nbr[n], ~Exempt(n, d, m)', lastLSA'[n][m] = lsa, lsa.TTL > 1, lastLSA[n][m] = lsa
  PROVE  Knows(d, m, lsa.seq)' \/ Carried(n, d, m, lsa.seq)'
<1>1. ~Exempt(n, d, m) /\ lsa.seq \in Nat
  BY HistoryGrows DEF Exempt, LSAs
<1>2. CASE Has(d, m, lsa.seq)
  BY <1>1, <1>2, KnowsStays DEF Knows, FloodInv
<1>3. CASE Carried(n, d, m, lsa.seq)
  <2>1. PICK l \in LSAs : Waiting(n, d, l) /\ l.sender = m /\ l.seq = lsa.seq
    BY <1>3 DEF Carried
  <2>2. CASE Waiting(n, d, l)'
    BY <2>1, <2>2 DEF Carried
  <2>3. ~Restart(n)
    <3>1. lastLSA'[n][m] # NULL
      BY NotNull
    <3> QED
      BY <3>1 DEF Restart, FloodInv, TypeInv
  <2>4. ~NeighborDown(n, d)
    BY DEF NeighborDown, Exempt
  <2>5. ASSUME NEW pkt \in net, RecvAck(pkt), pkt.to = n, pkt.from = d,
               pkt.lsa.sender = l.sender, pkt.lsa.seq = l.seq
        PROVE  Knows(d, m, lsa.seq)'
    <3>1. PacketOK(pkt) /\ pkt.type = "ACK"
      BY <2>5, TravellerOK DEF RecvAck
    <3>2. <<n, m>> \in severed \/ Knows(d, m, lsa.seq)
      BY <2>1, <2>5, <3>1 DEF PacketOK
    <3>3. Knows(d, m, lsa.seq)
      BY <1>1, <3>2 DEF Exempt
    <3> QED
      BY <1>1, <3>3, KnowsStays DEF FloodInv
  <2> QED
    BY <2>1, <2>2, <2>3, <2>4, <2>5, PoolStep
<1> QED
  BY <1>1, <1>2, <1>3 DEF Reliable

(* What is pooled for a neighbour is carried.                               *)
LEMMA PooledIsCarried ==
  ASSUME TypeInv, NEW n \in Node, NEW d \in Node, NEW dests \in SUBSET Node, NEW l \in LSAs, d \in dests,
         ackPool' = [ackPool EXCEPT ![n] = Pooled(@, dests, l)]
  PROVE  Carried(n, d, l.sender, l.seq)'
<1>1. ackPool[n] \in Pools /\ ackPool'[n] = Pooled(ackPool[n], dests, l)
  BY DEF TypeInv
<1>2. On(Pooled(ackPool[n], dests, l)[d], l)
  BY <1>1, OnPooled
<1>3. On(ackPool'[n][d], l)
  BY <1>1, <1>2
<1>4. Waiting(n, d, l)'
  BY <1>3 DEF Waiting
<1> QED
  BY <1>4 DEF Carried

(* What is new to a daemon is sent to its neighbours.                       *)
LEMMA NewIsReliable ==
  ASSUME FloodInv, [Next]_vars, NEW n \in Node, NEW m \in Node, NEW d \in Node, NEW lsa \in LSAs,
         d \in scen.nbr[n], ~Exempt(n, d, m)', lastLSA'[n][m] = lsa, lsa.TTL > 1, lastLSA[n][m] # lsa
  PROVE  Knows(d, m, lsa.seq)' \/ Carried(n, d, m, lsa.seq)'
<1>1. ~Exempt(n, d, m) /\ lsa.seq \in Nat /\ lsa # NULL
  BY HistoryGrows, NotNull DEF Exempt, LSAs
<1>2. distance[n][d] = 1 /\ d # n
  BY <1>1 DEF FloodInv, DistancesOK, Exempt
<1>3. CASE m = n /\ (NewAdvertisement(n) \/ InsertLocalResource(n))
  <2>1. PICK new \in LSAs :
          /\ new.sender = n
          /\ lastLSA' = [lastLSA EXCEPT ![n][n] = new]
          /\ ackPool' = [ackPool EXCEPT ![n] = Pooled(@, Live(distance[n]), new)]
    BY <1>3, AdvertisesNew DEF FloodInv
  <2>2. new = lsa
    BY <1>3, <2>1 DEF FloodInv, TypeInv
  <2>3. Live(distance[n]) \in SUBSET Node /\ d \in Live(distance[n])
    BY <1>2, LiveType DEF Live
  <2>4. Carried(n, d, new.sender, new.seq)'
    BY <2>1, <2>3, PooledIsCarried DEF FloodInv
  <2> QED
    BY <1>3, <2>1, <2>2, <2>4
<1>4. ASSUME NEW pkt \in net, Stores(pkt), pkt.to = n, pkt.lsa.sender = m, lsa = pkt.lsa
      PROVE  Knows(d, m, lsa.seq)' \/ Carried(n, d, m, lsa.seq)'
  <2>1. CASE d = pkt.from
    <3>1. Knows(d, m, lsa.seq)
      BY <1>4, <2>1, StoresLSA DEF LSAOK
    <3> QED
      BY <1>1, <3>1, KnowsStays DEF FloodInv
  <2>2. CASE d # pkt.from
    <3>1. PICK dist : /\ dist[d] = 1 /\ pkt.to \notin Live(dist)
                      /\ ackPool' = [ackPool EXCEPT ![n] = Pooled(@, Flooded(pkt, dist), OneHopLess(pkt.lsa))]
      <4>1. distance[n] \in [Node -> Distances] /\ distance[n][n] = 0
        BY DEF FloodInv, TypeInv, DistancesOK
      <4>2. CASE RecvNew(pkt)
        <5> DEFINE dist == [distance[n] EXCEPT ![m] = CASE @ = NULL -> 2 [] @ = DOWN -> 1 [] OTHER -> @]
        <5>1. dist[d] = 1 /\ dist[n] = 0
          BY <1>2, <4>1, FloodAssumption DEF DOWN
        <5>2. ackPool' = [ackPool EXCEPT ![n] = Pooled(@, Flooded(pkt, dist), OneHopLess(pkt.lsa))]
          BY <1>4, <4>2 DEF RecvNew, Updates
        <5> HIDE DEF dist
        <5>3. pkt.to \notin Live(dist)
          BY <1>4, <5>1 DEF Live
        <5> QED
          BY <5>1, <5>2, <5>3
      <4>3. CASE RecvHigher(pkt)
        <5>1. ackPool' = [ackPool EXCEPT ![n] = Pooled(@, Flooded(pkt, distance[n]), OneHopLess(pkt.lsa))]
          BY <1>4, <4>3 DEF RecvHigher, Updates
        <5>2. n \notin Live(distance[n])
          BY <4>1 DEF Live
        <5> QED
          BY <1>2, <1>4, <5>1, <5>2
      <4> QED
        BY <1>4, <4>2, <4>3 DEF Stores
    <3>2. d \in Flooded(pkt, dist)
      BY <1>4, <2>2, <3>1 DEF Flooded, Live
    <3>3. /\ OneHopLess(pkt.lsa) \in LSAs /\ OneHopLess(pkt.lsa).sender = m
          /\ OneHopLess(pkt.lsa).seq = lsa.seq /\ Flooded(pkt, dist) \in SUBSET Node
      BY <1>4, <3>1, HopsOK
    <3>4. PICK l \in LSAs : l = OneHopLess(pkt.lsa)
      BY <3>3
    <3>5. ackPool' = [ackPool EXCEPT ![n] = Pooled(@, Flooded(pkt, dist), l)]
      BY <3>1, <3>4
    <3>6. Carried(n, d, l.sender, l.seq)'
      BY <3>2, <3>3, <3>5, PooledIsCarried DEF FloodInv
    <3> QED
      BY <3>3, <3>4, <3>6
  <2> QED
    BY <2>1, <2>2
<1>5. ASSUME NEW pkt \in net, pkt.to = n, pkt.lsa.sender = m, RecvMineHigher(pkt)
      PROVE  FALSE
  <2>1. /\ m = n /\ IsLSA(pkt) /\ lastLSA[n][n] \in LSAs /\ lastLSA[n][n].seq < pkt.lsa.seq
    BY <1>5 DEF RecvMineHigher, IsMine, IsHigher, IsKnown, Stored, FloodInv, TypeInv
  <2>2. Knows(n, n, pkt.lsa.seq) /\ pkt.lsa.seq \in Nat
    BY <1>5, <2>1, TravellerOK DEF LSAOK
  <2>3. Has(n, n, pkt.lsa.seq)
    BY <1>1, <2>1, <2>2 DEF Knows, Exempt
  <2>4. lastLSA[n][n].seq \in Nat /\ lastLSA[n][n].seq >= pkt.lsa.seq
    BY <2>1, <2>3 DEF Has, LSAs
  <2> QED
    BY <2>1, <2>2, <2>4
<1>6. lastLSA'[n][m] # lastLSA[n][m] /\ lastLSA'[n][m] # NULL /\ TypeInv
  BY <1>1 DEF FloodInv
<1>7. \/ m = n /\ (NewAdvertisement(n) \/ InsertLocalResource(n))
      \/ \E pkt \in net : /\ pkt.to = n /\ pkt.lsa.sender = m
                          /\ (Stores(pkt) /\ lsa = pkt.lsa) \/ RecvMineHigher(pkt)
  <2>1. Changes(n, m)
    BY <1>6, StoredStep
  <2> QED
    BY <1>6, <2>1 DEF Changes
<1> QED
  BY <1>3, <1>4, <1>5, <1>7

LEMMA EntryIsReliable ==
  ASSUME FloodInv, Reliable, [Next]_vars, NEW n \in Node, NEW m \in Node, NEW d \in Node, NEW lsa \in LSAs,
         d \in scen.nbr[n], ~Exempt(n, d, m)', lastLSA'[n][m] = lsa, lsa.TTL > 1
  PROVE  Has(d, m, lsa.seq)' \/ Carried(n, d, m, lsa.seq)'
<1>1. Knows(d, m, lsa.seq)' \/ Carried(n, d, m, lsa.seq)'
  BY StillReliable, NewIsReliable
<1>2. d \notin restarted' /\ <<d, m>> \notin severed'
  BY DEF Exempt
<1> QED
  BY <1>1, <1>2 DEF Knows

LEMMA ReliableStep == FloodInv /\ Reliable /\ [Next]_vars => Reliable'
<1> SUFFICES ASSUME FloodInv, Reliable, [Next]_vars PROVE Reliable'
  OBVIOUS
<1>1. scen'.nbr = scen.nbr
  BY NeighboursStay DEF FloodInv
<1> QED
  BY <1>1, EntryIsReliable DEF Reliable

LEMMA ReliableIsFloodIsReliable == FloodInv /\ Reliable => FloodIsReliable
<1> SUFFICES ASSUME FloodInv, Reliable, NEW n \in Node, NEW m \in Node, NEW d \in scen.nbr[n] \ restarted,
                    <<n, d>> \notin severed, <<d, m>> \notin severed, <<n, m>> \notin severed,
                    lastLSA[n][m] # NULL, lastLSA[n][m].TTL > 1, ~(m = n /\ n \in restarted)
             PROVE  Has(d, m, lastLSA[n][m].seq) \/ InPool(n, d, lastLSA[n][m])
  BY DEF FloodIsReliable
<1>1. PICK lsa \in LSAs : lastLSA[n][m] = lsa
  BY DEF FloodInv, TypeInv
<1>2. d \in Node
  BY DEF FloodInv, TypeInv, ScenarioType
<1>3. lsa.sender = m
  BY <1>1 DEF FloodInv, StoredOK
<1>4. Has(d, m, lsa.seq) \/ Carried(n, d, m, lsa.seq)
  BY <1>1, <1>2 DEF Reliable, Exempt
<1>5. ASSUME Carried(n, d, m, lsa.seq)
      PROVE  InPool(n, d, lsa)
  BY <1>3, <1>5 DEF Carried, Waiting, On, InPool
<1> QED
  BY <1>1, <1>4, <1>5

(* Flooding is reliable, in any network, whatever is lost, retransmitted,   *)
(* duplicated or reordered, and whoever restarts or is found down: what a   *)
(* daemon knows each of its neighbours knows as well, or the daemon still   *)
(* has it in the pool of that neighbour.                                    *)
THEOREM FloodIsReliableHolds == Spec => []FloodIsReliable
<1>1. FloodInv /\ Reliable /\ [Next]_vars => (FloodInv /\ Reliable)'
  BY FloodInvStep, ReliableStep
<1> QED
  BY <1>1, FloodInit, ReliableIsFloodIsReliable, PTL DEF Spec

-----------------------------------------------------------------------------
(* Agreement: what is sent on is what its node announced, and its TTL and   *)
(* the number of those that know it make up for each other                  *)

Calm == restarted = {} /\ severed = {}

(* The nodes that have the LSA of m with this number, or a newer one.       *)
Knowers(m, seq) == {x \in Node : Has(x, m, seq)}

(* Nobody makes up an LSA, nor changes one of the number its node is at.    *)
Announced(lsa) ==
  LET own == lastLSA[lsa.sender][lsa.sender]
  IN /\ Has(lsa.sender, lsa.sender, lsa.seq)
     /\ own.seq = lsa.seq => own.links = lsa.links /\ own.objs = lsa.objs

(* Each hop takes one from the TTL, and adds a node that knows the LSA.     *)
Fresh(lsa) == Announced(lsa) /\ lsa.TTL + Cardinality(Knowers(lsa.sender, lsa.seq)) > InitTTL

Entry(n, lsa) ==
  /\ Announced(lsa)
  /\ IF n = lsa.sender THEN lsa.TTL = InitTTL
     ELSE lsa.TTL + Cardinality(Knowers(lsa.sender, lsa.seq)) > InitTTL + 1

SpreadOK ==
  /\ \A n, m \in Node, lsa \in LSAs : lastLSA[n][m] = lsa => Entry(n, lsa)
  /\ \A n, d \in Node, lsa \in LSAs : Waiting(n, d, lsa) => Fresh(lsa)
  /\ \A pkt \in Packets : Travels(pkt) /\ pkt.type = "LSA" => Fresh(pkt.lsa)

SpreadInv == Calm => SpreadOK

LEMMA KnowersCount ==
  ASSUME NEW m \in Node, NEW seq \in Nat
  PROVE  /\ IsFiniteSet(Knowers(m, seq)) /\ Cardinality(Knowers(m, seq)) \in Nat
         /\ Knowers(m, seq) \subseteq Node
<1>1. Knowers(m, seq) \subseteq Node
  BY DEF Knowers
<1> QED
  BY <1>1, FiniteNetwork, FS_Subset, FS_CardinalityType

LEMMA KnowersGrow ==
  ASSUME TypeInv, [Next]_vars, Calm', NEW m \in Node, NEW seq \in Nat
  PROVE  /\ Knowers(m, seq) \subseteq Knowers(m, seq)'
         /\ IsFiniteSet(Knowers(m, seq)')
         /\ Cardinality(Knowers(m, seq)) \in Nat /\ Cardinality(Knowers(m, seq)') \in Nat
         /\ Cardinality(Knowers(m, seq)') >= Cardinality(Knowers(m, seq))
<1>1. ASSUME NEW x \in Knowers(m, seq)
      PROVE  x \in Knowers(m, seq)'
  <2>1. x \in Node /\ Knows(x, m, seq)
    BY DEF Knowers, Knows
  <2>2. Knows(x, m, seq)'
    BY <2>1, KnowsStays
  <2> QED
    BY <2>1, <2>2 DEF Knows, Knowers, Calm
<1>2. Knowers(m, seq)' \subseteq Node
  BY DEF Knowers
<1>3. IsFiniteSet(Knowers(m, seq)') /\ Cardinality(Knowers(m, seq)') \in Nat
  BY <1>2, FiniteNetwork, FS_Subset, FS_CardinalityType
<1>4. Cardinality(Knowers(m, seq)) <= Cardinality(Knowers(m, seq)') /\ Cardinality(Knowers(m, seq)) \in Nat
  <2>1. Knowers(m, seq) \in SUBSET Knowers(m, seq)'
    BY <1>1
  <2> QED
    BY <1>3, <2>1, FS_Subset, KnowersCount
<1> QED
  BY <1>1, <1>3, <1>4

(* In a calm network a node changes its own entry only by advertising.      *)
LEMMA OwnStep ==
  ASSUME FloodInv, [Next]_vars, Calm', NEW m \in Node, lastLSA'[m][m] # lastLSA[m][m],
         \A pkt \in net : IsLSA(pkt) => Has(pkt.lsa.sender, pkt.lsa.sender, pkt.lsa.seq)
  PROVE  NewAdvertisement(m) \/ InsertLocalResource(m)
<1>1. Changes(m, m)
  BY StoredStep DEF FloodInv
<1>2. ~Restart(m)
  BY DEF Restart, Calm
<1>3. ASSUME NEW pkt \in net, pkt.to = m, pkt.lsa.sender = m, Stores(pkt)
      PROVE  FALSE
  <2>1. IsLSA(pkt)
    BY <1>3, StoresLSA
  <2>2. lastLSA[m][m] # NULL
    BY <1>3, <2>1 DEF Has
  <2> QED
    BY <1>3, <2>2 DEF Stores, RecvNew, RecvHigher, IsNew, IsMine, Stored
<1>4. ASSUME NEW pkt \in net, pkt.to = m, pkt.lsa.sender = m, RecvMineHigher(pkt)
      PROVE  FALSE
  <2>1. /\ IsLSA(pkt) /\ lastLSA[m][m] \in LSAs /\ lastLSA[m][m].seq < pkt.lsa.seq
    BY <1>4 DEF RecvMineHigher, IsHigher, IsKnown, Stored, FloodInv, TypeInv
  <2>2. lastLSA[m][m].seq >= pkt.lsa.seq
    BY <1>4, <2>1 DEF Has
  <2>3. lastLSA[m][m].seq \in Nat /\ pkt.lsa.seq \in Nat
    BY <2>1, TravellerOK DEF LSAs
  <2> QED
    BY <2>1, <2>2, <2>3
<1> QED
  BY <1>1, <1>2, <1>3, <1>4 DEF Changes, Calm

LEMMA AnnouncedStays ==
  ASSUME FloodInv, SpreadOK, [Next]_vars, Calm', NEW lsa \in LSAs, Announced(lsa)
  PROVE  Announced(lsa)'
<1> DEFINE m == lsa.sender
<1>1. m \in Node /\ lsa.seq \in Nat
  BY DEF LSAs
<1>2. Has(m, m, lsa.seq) /\ lastLSA[m][m] \in LSAs /\ lastLSA[m][m].seq \in Nat
  BY <1>1 DEF Announced, Has, FloodInv, TypeInv, LSAs
<1>3. Has(m, m, lsa.seq)'
  <2>1. Knows(m, m, lsa.seq)'
    BY <1>1, <1>2, KnowsStays DEF Knows, FloodInv
  <2> QED
    BY <2>1 DEF Knows, Calm
<1>4. CASE lastLSA'[m][m] = lastLSA[m][m]
  BY <1>3, <1>4 DEF Announced
<1>5. CASE lastLSA'[m][m] # lastLSA[m][m]
  <2>1. \A pkt \in net : IsLSA(pkt) => Has(pkt.lsa.sender, pkt.lsa.sender, pkt.lsa.seq)
    BY DEF SpreadOK, Fresh, Announced, Travels, IsLSA, FloodInv, TypeInv
  <2>2. NewAdvertisement(m) \/ InsertLocalResource(m)
    BY <1>1, <1>5, <2>1, OwnStep
  <2>3. PICK new \in LSAs : /\ new.seq = IF lastLSA[m][m] = NULL THEN 0 ELSE lastLSA[m][m].seq + 1
                            /\ lastLSA' = [lastLSA EXCEPT ![m][m] = new]
    BY <1>1, <2>2, AdvertisesNew DEF FloodInv
  <2>4. lastLSA'[m][m] = new
    BY <1>1, <2>3 DEF FloodInv, TypeInv
  <2>5. lastLSA'[m][m].seq # lsa.seq
    <3>1. lastLSA[m][m].seq >= lsa.seq /\ new.seq = lastLSA[m][m].seq + 1
      BY <1>2, <2>3 DEF Has
    <3> QED
      BY <1>1, <1>2, <2>4, <3>1
  <2> QED
    BY <1>3, <2>5 DEF Announced
<1> QED
  BY <1>4, <1>5

LEMMA FreshStays ==
  ASSUME FloodInv, SpreadOK, [Next]_vars, Calm', NEW lsa \in LSAs, Fresh(lsa)
  PROVE  Fresh(lsa)'
<1>1. lsa.sender \in Node /\ lsa.seq \in Nat /\ lsa.TTL \in Nat /\ InitTTL \in Nat
  BY TTLs DEF LSAs
<1>2. Announced(lsa)'
  BY AnnouncedStays DEF Fresh
<1>3. /\ Cardinality(Knowers(lsa.sender, lsa.seq)) \in Nat /\ Cardinality(Knowers(lsa.sender, lsa.seq)') \in Nat
      /\ Cardinality(Knowers(lsa.sender, lsa.seq)') >= Cardinality(Knowers(lsa.sender, lsa.seq))
  BY <1>1, KnowersGrow DEF FloodInv
<1>4. lsa.TTL + Cardinality(Knowers(lsa.sender, lsa.seq)) > InitTTL
  BY DEF Fresh
<1>5. lsa.TTL + Cardinality(Knowers(lsa.sender, lsa.seq)') > InitTTL
  BY <1>1, <1>3, <1>4
<1> QED
  BY <1>2, <1>5 DEF Fresh

LEMMA EntryStays ==
  ASSUME FloodInv, SpreadOK, [Next]_vars, Calm', NEW n \in Node, NEW lsa \in LSAs, Entry(n, lsa)
  PROVE  Entry(n, lsa)'
<1>1. lsa.sender \in Node /\ lsa.seq \in Nat /\ lsa.TTL \in Nat /\ InitTTL \in Nat
  BY TTLs DEF LSAs
<1>2. Announced(lsa)'
  BY AnnouncedStays DEF Entry
<1>3. CASE n = lsa.sender
  BY <1>2, <1>3 DEF Entry
<1>4. CASE n # lsa.sender
  <2>1. /\ Cardinality(Knowers(lsa.sender, lsa.seq)) \in Nat /\ Cardinality(Knowers(lsa.sender, lsa.seq)') \in Nat
        /\ Cardinality(Knowers(lsa.sender, lsa.seq)') >= Cardinality(Knowers(lsa.sender, lsa.seq))
    BY <1>1, KnowersGrow DEF FloodInv
  <2>2. lsa.TTL + Cardinality(Knowers(lsa.sender, lsa.seq)) > InitTTL + 1
    BY <1>4 DEF Entry
  <2>3. lsa.TTL + Cardinality(Knowers(lsa.sender, lsa.seq)') > InitTTL + 1
    BY <1>1, <2>1, <2>2
  <2> QED
    BY <1>2, <1>4, <2>3 DEF Entry
<1> QED
  BY <1>3, <1>4

(* An LSA that arrives is new to the node that stores it.                   *)
LEMMA StoresFresh ==
  ASSUME FloodInv, SpreadOK, [Next]_vars, Calm', NEW pkt \in net, Stores(pkt)
  PROVE  /\ pkt.to # pkt.lsa.sender /\ Announced(pkt.lsa)'
         /\ pkt.lsa.TTL + Cardinality(Knowers(pkt.lsa.sender, pkt.lsa.seq)') > InitTTL + 1
<1> DEFINE n   == pkt.to
           m   == pkt.lsa.sender
           had == Knowers(m, pkt.lsa.seq)
           has == Knowers(m, pkt.lsa.seq)'
<1>1. /\ n \in Node /\ m \in Node /\ pkt.lsa \in LSAs /\ pkt.lsa.seq \in Nat /\ pkt.lsa.TTL \in Nat
      /\ InitTTL \in Nat
  BY TravellerOK, TTLs
<1>2. Fresh(pkt.lsa)
  BY StoresLSA DEF SpreadOK, Travels, IsLSA, FloodInv, TypeInv
<1>3. n # m
  <2>1. lastLSA[m][m] # NULL
    BY <1>2 DEF Fresh, Announced, Has
  <2> QED
    BY <2>1 DEF Stores, RecvNew, RecvHigher, IsNew, IsMine, Stored
<1>4. n \notin had
  <2>1. lastLSA[n][m] = NULL \/ lastLSA[n][m].seq < pkt.lsa.seq
    BY DEF Stores, RecvNew, RecvHigher, IsNew, IsHigher, Stored
  <2>2. ~Has(n, m, pkt.lsa.seq)
    <3>1. lastLSA[n][m] # NULL => lastLSA[n][m].seq \in Nat
      BY <1>1 DEF FloodInv, TypeInv, LSAs
    <3> QED
      BY <1>1, <2>1, <3>1 DEF Has
  <2> QED
    BY <2>2 DEF Knowers
<1>5. n \in has
  <2>1. lastLSA'[n][m] = pkt.lsa
    <3>1. lastLSA \in [Node -> [Node -> LSAs \cup {NULL}]]
      BY DEF FloodInv, TypeInv
    <3>2. lastLSA' = [lastLSA EXCEPT ![n] = [@ EXCEPT ![m] = pkt.lsa]]
      BY StoresLSA
    <3> QED
      BY <1>1, <3>1, <3>2
  <2>2. pkt.lsa.seq >= pkt.lsa.seq /\ pkt.lsa # NULL
    BY <1>1, NotNull
  <2> QED
    BY <1>1, <2>1, <2>2 DEF Knowers, Has
<1>6. had \subseteq has /\ IsFiniteSet(has) /\ Cardinality(had) \in Nat /\ Cardinality(has) \in Nat
  BY <1>1, KnowersGrow DEF FloodInv
<1>7. IsFiniteSet(had)
  BY <1>1, KnowersCount
<1>8. pkt.lsa.TTL + Cardinality(had) > InitTTL
  BY <1>2 DEF Fresh
<1> HIDE DEF had, has
<1>9. Cardinality(has) >= Cardinality(had) + 1
  <2>1. had \cup {n} \in SUBSET has
    BY <1>5, <1>6
  <2>2. Cardinality(had \cup {n}) = Cardinality(had) + 1
    BY <1>4, <1>7, FS_AddElement
  <2>3. Cardinality(had \cup {n}) <= Cardinality(has)
    BY <1>6, <2>1, FS_Subset
  <2> QED
    BY <1>6, <2>2, <2>3
<1>10. pkt.lsa.TTL + Cardinality(has) > InitTTL + 1
  BY <1>1, <1>6, <1>8, <1>9
<1>11. Announced(pkt.lsa)'
  BY <1>1, <1>2, AnnouncedStays DEF Fresh
<1> QED
  BY <1>3, <1>10, <1>11 DEF has

(* A node that advertises is where its LSA starts.                          *)
LEMMA OwnFresh ==
  ASSUME FloodInv, [Next]_vars, NEW n \in Node, NEW lsa \in LSAs,
         lastLSA'[n][n] = lsa, lsa.sender = n, lsa.TTL = InitTTL
  PROVE  Entry(n, lsa)' /\ Fresh(lsa)'
<1>1. lsa.seq \in Nat /\ lsa # NULL /\ InitTTL \in Nat
  BY NotNull, TTLs DEF LSAs
<1>2. lsa.seq >= lsa.seq
  BY <1>1
<1>3. Has(n, n, lsa.seq)'
  BY <1>1, <1>2 DEF Has
<1>4. Announced(lsa)'
  BY <1>3 DEF Announced
<1>5. Cardinality(Knowers(n, lsa.seq)') \in Nat /\ Cardinality(Knowers(n, lsa.seq)') >= 1
  <2> DEFINE has == Knowers(n, lsa.seq)'
  <2>1. has \subseteq Node /\ n \in has
    BY <1>3 DEF Knowers
  <2>2. IsFiniteSet(has) /\ Cardinality(has) \in Nat
    BY <2>1, FiniteNetwork, FS_Subset, FS_CardinalityType
  <2> HIDE DEF has
  <2>3. Cardinality(has) # 0
    BY <2>1, <2>2, FS_EmptySet
  <2>4. Cardinality(has) >= 1
    BY <2>2, <2>3
  <2> QED
    BY <2>2, <2>4 DEF has
<1>6. lsa.TTL + Cardinality(Knowers(n, lsa.seq)') > InitTTL
  BY <1>1, <1>5
<1> QED
  BY <1>4, <1>6 DEF Entry, Fresh

LEMMA AdvertisesFresh ==
  ASSUME FloodInv, SpreadOK, [Next]_vars, NEW n \in Node, NewAdvertisement(n) \/ InsertLocalResource(n)
  PROVE  \E new \in LSAs : /\ Entry(n, new)' /\ Fresh(new)' /\ new.sender = n
                           /\ lastLSA' = [lastLSA EXCEPT ![n][n] = new]
                           /\ list' = [list EXCEPT ![n] = @ \cup Queued(n, Live(distance[n]), new)]
                           /\ ackPool' = [ackPool EXCEPT ![n] = Pooled(@, Live(distance[n]), new)]
                           /\ UNCHANGED net
<1>1. PICK new \in LSAs :
        /\ new.sender = n
        /\ new.TTL = IF lastLSA[n][n] = NULL THEN InitTTL ELSE lastLSA[n][n].TTL
        /\ lastLSA' = [lastLSA EXCEPT ![n][n] = new]
        /\ list' = [list EXCEPT ![n] = @ \cup Queued(n, Live(distance[n]), new)]
        /\ ackPool' = [ackPool EXCEPT ![n] = Pooled(@, Live(distance[n]), new)]
        /\ UNCHANGED <<distance, net, restarted, severed>>
  BY AdvertisesNew DEF FloodInv
<1>2. new.TTL = InitTTL
  <2>1. CASE lastLSA[n][n] = NULL
    BY <1>1, <2>1
  <2>2. CASE lastLSA[n][n] # NULL
    <3>1. PICK own \in LSAs : lastLSA[n][n] = own
      BY <2>2 DEF FloodInv, TypeInv
    <3>2. Entry(n, own) /\ own.sender = n
      BY <3>1 DEF SpreadOK, FloodInv, StoredOK
    <3> QED
      BY <1>1, <2>2, <3>1, <3>2 DEF Entry
  <2> QED
    BY <2>1, <2>2
<1>3. lastLSA'[n][n] = new
  BY <1>1 DEF FloodInv, TypeInv
<1>4. Entry(n, new)' /\ Fresh(new)'
  BY <1>1, <1>2, <1>3, OwnFresh
<1> QED
  BY <1>1, <1>4

(* What comes into a table.                                                 *)
LEMMA EntryStep ==
  ASSUME FloodInv, SpreadOK, [Next]_vars, Calm', NEW n \in Node, NEW m \in Node, NEW lsa \in LSAs,
         lastLSA'[n][m] = lsa
  PROVE  Entry(n, lsa)'
<1>1. CASE lastLSA[n][m] = lsa
  BY <1>1, EntryStays DEF SpreadOK
<1>2. CASE lastLSA[n][m] # lsa
  <2>1. lsa # NULL
    BY NotNull
  <2>2. Changes(n, m)
    BY <1>2, StoredStep DEF FloodInv
  <2>3. CASE m = n /\ (NewAdvertisement(n) \/ InsertLocalResource(n))
    <3>1. PICK new \in LSAs : Entry(n, new)' /\ lastLSA' = [lastLSA EXCEPT ![n][n] = new]
      BY <2>3, AdvertisesFresh
    <3>2. lsa = new
      BY <2>3, <3>1 DEF FloodInv, TypeInv
    <3> QED
      BY <3>1, <3>2
  <2>4. ASSUME NEW pkt \in net, pkt.to = n, pkt.lsa.sender = m, Stores(pkt), lsa = pkt.lsa
        PROVE  Entry(n, lsa)'
    BY <2>4, StoresFresh DEF Entry
  <2>5. ASSUME NEW pkt \in net, pkt.to = n, pkt.lsa.sender = m, RecvMineHigher(pkt)
        PROVE  FALSE
    <3>1. n = m
      BY <2>5 DEF RecvMineHigher, IsMine
    <3>2. \A q \in net : IsLSA(q) => Has(q.lsa.sender, q.lsa.sender, q.lsa.seq)
      BY DEF SpreadOK, Fresh, Announced, Travels, IsLSA, FloodInv, TypeInv
    <3>3. IsLSA(pkt) /\ Has(m, m, pkt.lsa.seq)
      BY <2>5, <3>2 DEF RecvMineHigher, IsHigher, IsKnown
    <3>4. lastLSA[n][n].seq < pkt.lsa.seq /\ lastLSA[n][n] \in LSAs /\ pkt.lsa.seq \in Nat
      BY <2>5, TravellerOK DEF RecvMineHigher, IsHigher, IsMine, IsKnown, Stored, FloodInv, TypeInv
    <3>5. lastLSA[n][n].seq >= pkt.lsa.seq /\ lastLSA[n][n].seq \in Nat
      BY <3>1, <3>3, <3>4 DEF Has, LSAs
    <3> QED
      BY <3>4, <3>5
  <2> QED
    BY <2>1, <2>2, <2>3, <2>4, <2>5 DEF Changes
<1> QED
  BY <1>1, <1>2

LEMMA SpreadFrom ==
  ASSUME FloodInv, SpreadOK, [Next]_vars, Calm',
         \A n, d \in Node, lsa \in LSAs : Waiting(n, d, lsa)' => Waiting(n, d, lsa) \/ Fresh(lsa)',
         \A pkt \in Packets : Travels(pkt)' /\ pkt.type = "LSA" => Travels(pkt) \/ Fresh(pkt.lsa)'
  PROVE  SpreadOK'
<1>1. \A n, m \in Node, lsa \in LSAs : lastLSA'[n][m] = lsa => Entry(n, lsa)'
  BY EntryStep
<1>2. \A n, d \in Node, lsa \in LSAs : Waiting(n, d, lsa)' => Fresh(lsa)'
  BY FreshStays DEF SpreadOK
<1>3. ASSUME NEW pkt \in Packets, Travels(pkt)', pkt.type = "LSA"
      PROVE  Fresh(pkt.lsa)'
  <2>1. pkt.lsa \in LSAs
    BY DEF Packets
  <2> QED
    BY <1>3, <2>1, FreshStays DEF SpreadOK
<1> QED
  BY <1>1, <1>2, <1>3 DEF SpreadOK

(* An LSA is acknowledged, and sent on to dests.                            *)
LEMMA UpdatesSpread ==
  ASSUME FloodInv, SpreadOK, [Next]_vars, Calm',
         NEW pkt \in net, NEW dist, NEW last, NEW dests \in SUBSET Node, NEW lsa \in LSAs,
         Updates(pkt, dist, last, dests, lsa), dests # {} => Fresh(lsa)'
  PROVE  SpreadOK'
<1> DEFINE to == pkt.to
<1>1. to \in Node
  BY TravellerOK
<1>2. PICK ack : /\ ack.type = "ACK"
                 /\ list' = [list EXCEPT ![to] = @ \cup {ack} \cup Queued(to, dests, lsa)]
  BY DEF Updates
<1>3. /\ ackPool \in [Node -> Pools] /\ list \in [Node -> SUBSET Packets]
      /\ ackPool' = [ackPool EXCEPT ![to] = Pooled(@, dests, lsa)]
      /\ net' = net \ {pkt}
  BY DEF FloodInv, TypeInv, Updates, Reads
<1> HIDE DEF to
<1>4. ASSUME NEW n \in Node, NEW d \in Node, NEW l \in LSAs, Waiting(n, d, l)'
      PROVE  Waiting(n, d, l) \/ Fresh(l)'
  <2>1. CASE n = to
    <3>1. On(Pooled(ackPool[n], dests, lsa)[d], l) /\ ackPool[n] \in Pools
      BY <1>1, <1>3, <1>4, <2>1 DEF Waiting
    <3>2. On(ackPool[n][d], l) \/ (d \in dests /\ lsa = l)
      BY <3>1, OnPooled
    <3> QED
      BY <3>2 DEF Waiting
  <2>2. CASE n # to
    <3>1. ackPool'[n] = ackPool[n]
      BY <1>3, <2>2
    <3> QED
      BY <1>4, <3>1 DEF Waiting
  <2> QED
    BY <2>1, <2>2
<1>5. ASSUME NEW q \in Packets, Travels(q)', q.type = "LSA"
      PROVE  Travels(q) \/ Fresh(q.lsa)'
  <2>1. q \in net \/ q = ack \/ q \in Queued(to, dests, lsa) \/ \E n \in Node : q \in list[n]
    BY <1>1, <1>2, <1>3, <1>5 DEF Travels
  <2>2. q \in Queued(to, dests, lsa) => Fresh(q.lsa)'
    BY DEF Queued
  <2> QED
    BY <1>2, <1>5, <2>1, <2>2 DEF Travels
<1> QED
  BY <1>4, <1>5, SpreadFrom

LEMMA StoresSpread ==
  ASSUME FloodInv, SpreadOK, [Next]_vars, Calm', NEW pkt \in net, NEW dist, NEW last, Stores(pkt),
         Updates(pkt, dist, last, Flooded(pkt, dist), OneHopLess(pkt.lsa))
  PROVE  SpreadOK'
<1>1. /\ pkt.lsa \in LSAs /\ pkt.lsa.TTL \in 0..InitTTL /\ pkt.lsa.TTL \in Nat /\ pkt.lsa.TTL > 0 /\ InitTTL \in Nat
      /\ pkt.lsa.sender \in Node /\ pkt.lsa.seq \in Nat
  BY TravellerOK, StoresLSA, TTLs DEF LSAs
<1>2. PICK less \in LSAs : /\ less = OneHopLess(pkt.lsa) /\ less.TTL = pkt.lsa.TTL - 1
                           /\ less.sender = pkt.lsa.sender /\ less.seq = pkt.lsa.seq
                           /\ less.links = pkt.lsa.links /\ less.objs = pkt.lsa.objs
  <2>1. pkt.lsa.TTL - 1 \in 0..InitTTL
    BY <1>1
  <2> QED
    BY <1>1, <2>1 DEF OneHopLess, LSAs
<1>3. Fresh(less)'
  <2>1. /\ Announced(pkt.lsa)'
        /\ pkt.lsa.TTL + Cardinality(Knowers(pkt.lsa.sender, pkt.lsa.seq)') > InitTTL + 1
    BY StoresFresh
  <2>2. Announced(less)'
    BY <1>2, <2>1 DEF Announced
  <2>3. Cardinality(Knowers(pkt.lsa.sender, pkt.lsa.seq)') \in Nat
    BY <1>1, KnowersGrow DEF FloodInv
  <2>4. less.TTL + Cardinality(Knowers(pkt.lsa.sender, pkt.lsa.seq)') > InitTTL
    BY <1>1, <1>2, <2>1, <2>3
  <2> QED
    BY <1>2, <2>2, <2>4 DEF Fresh
<1>4. Flooded(pkt, dist) \in SUBSET Node
  BY LiveType DEF Flooded
<1>5. Updates(pkt, dist, last, Flooded(pkt, dist), less)
  BY <1>2
<1> QED
  BY <1>3, <1>4, <1>5, UpdatesSpread

LEMMA ReceiveSpread ==
  ASSUME FloodInv, SpreadOK, [Next]_vars, Calm', NEW pkt \in net, Receive(pkt)
  PROVE  SpreadOK'
<1>1. pkt.to \in Node /\ pkt.from \in Node /\ pkt.lsa \in LSAs /\ pkt.lsa.sender \in Node
  BY TravellerOK
<1>2. {} \in SUBSET Node /\ {pkt.lsa.sender} \in SUBSET Node
  BY <1>1
<1>3. CASE RecvAck(pkt)
  <2> DEFINE pool == ackPool[pkt.to][pkt.from]
  <2>1. ackPool \in [Node -> Pools] /\ pool \in Seq(Sent)
    BY <1>1 DEF FloodInv, TypeInv, Pools
  <2>2. ASSUME NEW n \in Node, NEW d \in Node, NEW l \in LSAs, Waiting(n, d, l)'
        PROVE  Waiting(n, d, l)
    <3>1. CASE UNCHANGED ackPool
      BY <2>2, <3>1 DEF Waiting
    <3>2. CASE ~UNCHANGED ackPool
      <4>1. PICK i \in Acked(pool, pkt.lsa) : ackPool' = [ackPool EXCEPT ![pkt.to][pkt.from] = RemoveAt(pool, i)]
        BY <1>3, <3>2 DEF RecvAck
      <4>2. i \in DOMAIN pool
        BY DEF Acked
      <4> DEFINE shorter == RemoveAt(pool, i)
      <4>3. On(shorter, l) => On(pool, l)
        BY <2>1, <4>2, OnRemove
      <4> HIDE DEF shorter
      <4>4. ackPool' = [ackPool EXCEPT ![pkt.to][pkt.from] = shorter]
        BY <4>1 DEF shorter
      <4>5. ackPool'[n][d] = IF n = pkt.to /\ d = pkt.from THEN shorter ELSE ackPool[n][d]
        BY <1>1, <2>1, <4>4 DEF Pools
      <4> QED
        BY <2>2, <4>3, <4>5 DEF Waiting
    <3> QED
      BY <3>1, <3>2
  <2>3. \A q \in Packets : Travels(q)' => Travels(q)
    BY <1>3 DEF RecvAck, Reads, Travels
  <2> QED
    BY <2>2, <2>3, SpreadFrom
<1>4. CASE RecvZero(pkt)
  <2>1. IsLSA(pkt) /\ pkt.lsa.TTL = 0
    BY <1>4 DEF RecvZero, IsZero
  <2>2. <<pkt.from, pkt.lsa.sender>> \in severed
    BY <2>1, TravellerOK DEF LSAOK
  <2> QED
    BY <2>2, HistoryGrows DEF Calm
<1>5. CASE RecvMineHigher(pkt)
  <2>1. PICK last : Updates(pkt, distance[pkt.to], last, {}, pkt.lsa)
    BY <1>5 DEF RecvMineHigher
  <2> QED
    BY <1>1, <1>2, <2>1, UpdatesSpread
<1>6. CASE RecvLower(pkt)
  <2>1. PICK l \in LSAs : l = Stored(pkt)
    BY <1>1, <1>6 DEF RecvLower, IsLower, IsKnown, Stored, FloodInv, TypeInv
  <2>2. Entry(pkt.to, l)'
    <3>1. lastLSA[pkt.to][pkt.lsa.sender] = l
      BY <2>1 DEF Stored
    <3> QED
      BY <1>1, <3>1, EntryStays DEF SpreadOK
  <2>3. CASE pkt.lsa.sender = pkt.from
    <3>1. PICK dist : Updates(pkt, dist, lastLSA[pkt.to], {pkt.lsa.sender}, l)
      BY <1>6, <2>1, <2>3 DEF RecvLower
    <3>2. l.sender = pkt.lsa.sender
      BY <1>1, <2>1 DEF Stored, FloodInv, StoredOK
    <3>3. pkt.to # l.sender
      BY <2>3, <3>2, TravellerOK
    <3>4. Fresh(l)'
      <4>1. /\ l.TTL \in Nat /\ InitTTL \in Nat /\ l.sender \in Node /\ l.seq \in Nat
        BY TTLs DEF LSAs
      <4>2. Cardinality(Knowers(l.sender, l.seq)') \in Nat
        BY <4>1, KnowersGrow DEF FloodInv
      <4>3. l.TTL + Cardinality(Knowers(l.sender, l.seq)') > InitTTL + 1
        BY <2>2, <3>3 DEF Entry
      <4>4. l.TTL + Cardinality(Knowers(l.sender, l.seq)') > InitTTL
        BY <4>1, <4>2, <4>3
      <4> QED
        BY <2>2, <4>4 DEF Entry, Fresh
    <3> QED
      BY <1>2, <3>1, <3>4, UpdatesSpread
  <2>4. CASE pkt.lsa.sender # pkt.from
    <3>1. Updates(pkt, distance[pkt.to], lastLSA[pkt.to], {}, pkt.lsa)
      BY <1>6, <2>4 DEF RecvLower
    <3> QED
      BY <1>1, <1>2, <3>1, UpdatesSpread
  <2> QED
    BY <2>3, <2>4
<1>7. CASE Stores(pkt)
  <2>1. PICK dist, last : Updates(pkt, dist, last, Flooded(pkt, dist), OneHopLess(pkt.lsa))
    BY <1>7 DEF Stores, RecvNew, RecvHigher
  <2> QED
    BY <1>7, <2>1, StoresSpread
<1>8. CASE RecvSame(pkt)
  <2>1. Updates(pkt, distance[pkt.to], lastLSA[pkt.to], {}, pkt.lsa)
    BY <1>8 DEF RecvSame
  <2> QED
    BY <1>1, <1>2, <2>1, UpdatesSpread
<1> QED
  BY <1>3, <1>4, <1>5, <1>6, <1>7, <1>8 DEF Receive, Stores

LEMMA AdvertisesSpread ==
  ASSUME FloodInv, SpreadOK, [Next]_vars, Calm', NEW n \in Node, NewAdvertisement(n) \/ InsertLocalResource(n)
  PROVE  SpreadOK'
<1> DEFINE dests == Live(distance[n])
<1>1. PICK new \in LSAs : /\ Fresh(new)'
                          /\ list' = [list EXCEPT ![n] = @ \cup Queued(n, dests, new)]
                          /\ ackPool' = [ackPool EXCEPT ![n] = Pooled(@, dests, new)]
                          /\ UNCHANGED net
  BY AdvertisesFresh
<1>2. dests \in SUBSET Node
  BY LiveType
<1> HIDE DEF dests
<1>3. ASSUME NEW x \in Node, NEW d \in Node, NEW l \in LSAs, Waiting(x, d, l)'
      PROVE  Waiting(x, d, l) \/ Fresh(l)'
  <2>1. CASE x = n
    <3>1. ackPool[n] \in Pools /\ On(Pooled(ackPool[n], dests, new)[d], l)
      BY <1>1, <1>3, <2>1 DEF Waiting, FloodInv, TypeInv
    <3>2. On(ackPool[n][d], l) \/ (d \in dests /\ new = l)
      BY <1>2, <3>1, OnPooled
    <3> QED
      BY <1>1, <2>1, <3>2 DEF Waiting
  <2>2. CASE x # n
    <3>1. ackPool'[x] = ackPool[x]
      BY <1>1, <2>2 DEF FloodInv, TypeInv
    <3> QED
      BY <1>3, <3>1 DEF Waiting
  <2> QED
    BY <2>1, <2>2
<1>4. ASSUME NEW q \in Packets, Travels(q)'
      PROVE  Travels(q) \/ Fresh(q.lsa)'
  <2>1. Travels(q) \/ q \in Queued(n, dests, new)
    BY <1>1, <1>4 DEF Travels, FloodInv, TypeInv
  <2>2. q \in Queued(n, dests, new) => q.lsa = new
    BY DEF Queued
  <2> QED
    BY <1>1, <2>1, <2>2
<1> QED
  BY <1>3, <1>4, SpreadFrom

LEMMA RetransmitSpread ==
  ASSUME FloodInv, SpreadOK, [Next]_vars, Calm', NEW n \in Node, NEW d \in Node, Retransmit(n, d)
  PROVE  SpreadOK'
<1> DEFINE pool == ackPool[n][d]
<1>1. pool \in Seq(Sent) /\ ackPool \in [Node -> Pools] /\ list \in [Node -> SUBSET Packets]
  BY DEF FloodInv, TypeInv, Pools
<1>2. Len(pool) \in Nat /\ DOMAIN pool = 1..Len(pool)
  BY <1>1, LenProperties
<1>3. PICK k \in DOMAIN pool :
        list' = [list EXCEPT ![n] =
          @ \cup {[type |-> "LSA", from |-> n, to |-> d, lsa |-> pool[i].lsa] : i \in ToRetransmit(pool, k)}]
  BY DEF Retransmit
<1>4. ToRetransmit(pool, k) \subseteq DOMAIN pool
  BY <1>2 DEF ToRetransmit
<1>5. PICK longer : /\ ackPool' = [ackPool EXCEPT ![n][d] = longer]
                    /\ \A l : On(longer, l) <=> On(pool, l)
  BY <1>1, RetransmitKeeps
<1>6. \A l : On(longer, l) <=> On(pool, l)
  BY <1>5
<1>7. \A x, y \in Node : ackPool'[x][y] = IF x = n /\ y = d THEN longer ELSE ackPool[x][y]
  BY <1>1, <1>5 DEF Pools
<1>8. ASSUME NEW x \in Node, NEW y \in Node, NEW l \in LSAs, Waiting(x, y, l)'
      PROVE  Waiting(x, y, l)
  BY <1>6, <1>7, <1>8 DEF Waiting
<1>9. ASSUME NEW q \in Packets, Travels(q)'
      PROVE  Travels(q) \/ Fresh(q.lsa)'
  <2>1. CASE Travels(q)
    BY <2>1
  <2>2. CASE ~Travels(q)
    <3>1. net' = net
      BY DEF Retransmit
    <3>2. PICK i \in ToRetransmit(pool, k) : q = [type |-> "LSA", from |-> n, to |-> d, lsa |-> pool[i].lsa]
      BY <1>1, <1>3, <1>9, <2>2, <3>1 DEF Travels
    <3>3. q.lsa = pool[i].lsa /\ q.lsa \in LSAs
      BY <3>2 DEF Packets
    <3>4. Waiting(n, d, q.lsa)
      BY <1>4, <3>3 DEF Waiting, On
    <3> QED
      BY <3>3, <3>4, FreshStays DEF SpreadOK
  <2> QED
    BY <2>1, <2>2
<1> QED
  BY <1>8, <1>9, SpreadFrom

LEMMA SpreadStep == FloodInv /\ SpreadInv /\ [Next]_vars => SpreadInv'
<1> SUFFICES ASSUME FloodInv, SpreadInv, [Next]_vars, Calm' PROVE SpreadOK'
  BY DEF SpreadInv
<1> USE DEF tables, history
<1>1. SpreadOK
  <2>1. Calm
    BY HistoryGrows DEF Calm
  <2> QED
    BY <2>1 DEF SpreadInv
<1>2. CASE UNCHANGED ackPool /\ (\A q \in Packets : Travels(q)' => Travels(q))
  BY <1>1, <1>2, SpreadFrom DEF Waiting
<1>3. ASSUME NEW n \in Node, Write(n)
      PROVE  UNCHANGED ackPool /\ \A q \in Packets : Travels(q)' => Travels(q)
  <2>1. UNCHANGED ackPool /\ (\A q \in net' : q \in net \/ q \in list[n]) /\ list' = [list EXCEPT ![n] = {}]
    BY <1>3 DEF Write
  <2> QED
    BY <2>1 DEF Travels, FloodInv, TypeInv
<1>4. ASSUME NEW pkt \in net, Lose(pkt)
      PROVE  UNCHANGED ackPool /\ \A q \in Packets : Travels(q)' => Travels(q)
  BY <1>4 DEF Lose, Travels
<1>5. UNCHANGED vars => UNCHANGED ackPool /\ \A q \in Packets : Travels(q)' => Travels(q)
  BY DEF vars, Travels
<1>6. ASSUME NEW n \in Node, NEW d \in Node, Restart(n) \/ NeighborDown(n, d)
      PROVE  FALSE
  BY <1>6 DEF Restart, NeighborDown, Calm
<1> QED
  BY <1>1, <1>2, <1>3, <1>4, <1>5, <1>6, ReceiveSpread, AdvertisesSpread, RetransmitSpread DEF Next

(* Two nodes, or three, are that many elements.                             *)
LEMMA TwoNodes ==
  ASSUME NEW x \in Node, NEW y \in Node, x # y
  PROVE  /\ IsFiniteSet({x, y}) /\ Cardinality({x, y}) = 2
         /\ Cardinality(Node) \in Nat /\ Cardinality(Node) >= 2
<1>1. IsFiniteSet({y}) /\ Cardinality({y}) = 1
  BY FS_Singleton
<1>2. IsFiniteSet({y} \cup {x}) /\ Cardinality({y} \cup {x}) = 1 + 1
  BY <1>1, FS_AddElement
<1>3. {y} \cup {x} = {x, y}
  OBVIOUS
<1>4. IsFiniteSet({x, y}) /\ Cardinality({x, y}) = 2
  BY <1>2, <1>3
<1>5. {x, y} \in SUBSET Node
  OBVIOUS
<1>6. Cardinality({x, y}) <= Cardinality(Node) /\ Cardinality(Node) \in Nat
  BY <1>5, FiniteNetwork, FS_Subset, FS_CardinalityType
<1> QED
  BY <1>4, <1>6

LEMMA ThreeNodes ==
  ASSUME NEW x \in Node, NEW y \in Node, NEW z \in Node, x # y, z # x, z # y
  PROVE  Cardinality(Node) \in Nat /\ Cardinality(Node) >= 3
<1>1. IsFiniteSet({x, y}) /\ Cardinality({x, y}) = 2
  BY TwoNodes
<1>2. z \notin {x, y}
  OBVIOUS
<1>3. Cardinality({x, y} \cup {z}) = 2 + 1
  BY <1>1, <1>2, FS_AddElement
<1>4. {x, y} \cup {z} \in SUBSET Node
  OBVIOUS
<1>5. Cardinality({x, y} \cup {z}) <= Cardinality(Node) /\ Cardinality(Node) \in Nat
  BY <1>4, FiniteNetwork, FS_Subset, FS_CardinalityType
<1> QED
  BY <1>3, <1>5

LEMMA SpreadInit == Init => SpreadInv
<1> SUFFICES ASSUME Init PROVE SpreadOK
  BY DEF SpreadInv
<1>1. TypeInv /\ InitTTL \in Nat
  BY TypeInit, TTLs
<1>2. /\ scen.nbr \in [Node -> SUBSET Node]
      /\ \A n, m \in Node : m \in scen.nbr[n] => n \in scen.nbr[m] /\ n # m
      /\ scen.settled => \A n, m \in Node : m = n \/ m \in scen.nbr[n] \/ scen.nbr[n] \cap scen.nbr[m] # {}
  BY <1>1, FloodAssumption DEF Init, TypeInv, ScenarioType
<1>3. \A n, m \in Node : lastLSA[n][m] = IF scen.settled THEN SettledLSA(n, m) ELSE NULL
  BY DEF Init
<1>4. (\A n, d \in Node, lsa \in LSAs : ~Waiting(n, d, lsa)) /\ (\A pkt \in Packets : ~Travels(pkt))
  BY DEF Init, Waiting, On, Travels
<1>5. ASSUME NEW n \in Node, NEW m \in Node, NEW lsa \in LSAs, lastLSA[n][m] = lsa
      PROVE  Entry(n, lsa)
  <2>1. lsa # NULL
    BY NotNull
  <2>2. scen.settled /\ lsa = SettledLSA(n, m)
    BY <1>3, <1>5, <2>1
  <2>3. \A x, y \in Node : lastLSA[x][y] = SettledLSA(x, y)
    BY <1>3, <2>2
  <2>4. \A x, y \in Node : SettledLSA(x, y) # NULL
    <3>1. \A x, y \in Node : lastLSA[x][y] \in LSAs \cup {NULL}
      BY <1>1 DEF TypeInv
    <3>2. \A x, y \in Node : SettledLSA(x, y) \in LSAs
      BY <1>1, SettledType DEF TypeInv
    <3> QED
      BY <3>2, NotNull
  <2>5. lsa.sender = m /\ lsa.seq = 1 /\ lsa.links = scen.nbr[m] /\ lsa.objs = scen.resFile[m]
    BY <2>2 DEF SettledLSA
  <2>6. \A x \in Node : Has(x, m, 1)
    <3>1. \A x \in Node : SettledLSA(x, m).seq = 1 /\ 1 >= 1
      BY DEF SettledLSA
    <3> QED
      BY <2>3, <2>4, <3>1 DEF Has
  <2>7. Announced(lsa)
    <3>1. lastLSA[m][m] = SettledLSA(m, m) /\ Has(m, m, 1)
      BY <2>3, <2>6
    <3>2. lastLSA[m][m].links = scen.nbr[m] /\ lastLSA[m][m].objs = scen.resFile[m]
      BY <3>1 DEF SettledLSA
    <3> QED
      BY <2>5, <3>1, <3>2 DEF Announced
  <2>8. CASE n = m
    BY <2>2, <2>5, <2>7, <2>8 DEF Entry, SettledLSA
  <2>9. CASE n # m
    <3> DEFINE k == Cardinality(Knowers(m, 1))
    <3>1. Knowers(m, 1) = Node
      BY <2>6 DEF Knowers
    <3>2. k = Cardinality(Node) /\ k \in Nat
      BY <3>1, FiniteNetwork, FS_CardinalityType
    <3>3. Cardinality(Node) >= 2
      BY <2>9, TwoNodes
    <3> HIDE DEF k
    <3>4. CASE m \in scen.nbr[n]
      <4>1. lsa.TTL = InitTTL
        BY <2>2, <3>4 DEF SettledLSA
      <4>2. lsa.TTL + k > InitTTL + 1
        BY <1>1, <3>2, <3>3, <4>1
      <4> QED
        BY <2>5, <2>7, <2>9, <4>2 DEF Entry, k
    <3>5. CASE m \notin scen.nbr[n]
      <4>1. PICK h \in Node : h \in scen.nbr[n] /\ h \in scen.nbr[m]
        BY <1>2, <2>2, <2>9, <3>5
      <4>2. h # n /\ h # m
        BY <1>2, <4>1
      <4>3. Cardinality(Node) >= 3
        BY <2>9, <4>2, ThreeNodes
      <4>4. lsa.TTL = InitTTL - 1
        BY <2>2, <2>9, <3>5 DEF SettledLSA
      <4>5. lsa.TTL + k > InitTTL + 1
        BY <1>1, <3>2, <4>3, <4>4
      <4> QED
        BY <2>5, <2>7, <2>9, <4>5 DEF Entry, k
    <3> QED
      BY <3>4, <3>5
  <2> QED
    BY <2>8, <2>9
<1> QED
  BY <1>4, <1>5 DEF SpreadOK

(* When no pool holds the last LSA of m any more, those that have it are    *)
(* closed under the links: each of them has a TTL left for its neighbours.  *)
LEMMA KnowersAreClosed ==
  ASSUME FloodInv, Reliable, SpreadOK, Calm, Cardinality(Node) <= InitTTL + 1,
         NEW m \in Node, NEW own \in LSAs, lastLSA[m][m] = own,
         \A x, d \in Node : ~InPool(x, d, own),
         NEW x \in Knowers(m, own.seq), NEW d \in scen.nbr[x]
  PROVE  d \in Knowers(m, own.seq)
<1>1. x \in Node /\ d \in Node /\ InitTTL \in Nat /\ 1 < InitTTL
  BY TTLs DEF Knowers, FloodInv, TypeInv, ScenarioType
<1>2. PICK l \in LSAs : lastLSA[x][m] = l
  BY <1>1 DEF Knowers, Has, FloodInv, TypeInv
<1>3. l.sender = m /\ l.seq = own.seq /\ own.sender = m
  <2>1. l.sender = m /\ own.sender = m
    BY <1>1, <1>2 DEF FloodInv, StoredOK
  <2>2. l.seq >= own.seq
    BY <1>2 DEF Knowers, Has
  <2>3. Announced(l)
    BY <1>1, <1>2 DEF SpreadOK, Entry
  <2>4. own.seq >= l.seq
    BY <2>1, <2>3 DEF Announced, Has
  <2>5. own.seq \in Nat /\ l.seq \in Nat
    BY DEF LSAs
  <2> QED
    BY <2>1, <2>2, <2>4, <2>5
<1> SUFFICES ASSUME d \notin Knowers(m, own.seq) PROVE FALSE
  OBVIOUS
<1>4. ~Has(d, m, l.seq)
  BY <1>1, <1>3 DEF Knowers
<1>5. l.TTL > 1
  <2>1. Entry(x, l)
    BY <1>1, <1>2 DEF SpreadOK
  <2>2. CASE x = m
    BY <1>1, <1>3, <2>1, <2>2 DEF Entry
  <2>3. CASE x # m
    <3> DEFINE has == Knowers(m, own.seq)
    <3>1. l.TTL + Cardinality(has) > InitTTL + 1
      BY <1>3, <2>1, <2>3 DEF Entry
    <3>2. own.seq \in Nat /\ l.TTL \in Nat
      BY TTLs DEF LSAs
    <3>3. has \in SUBSET (Node \ {d}) /\ Cardinality(has) \in Nat
      BY <3>2, KnowersCount
    <3> HIDE DEF has
    <3>4. /\ IsFiniteSet(Node \ {d}) /\ Cardinality(Node \ {d}) = Cardinality(Node) - 1
          /\ Cardinality(Node) \in Nat
      BY <1>1, FiniteNetwork, FS_RemoveElement, FS_CardinalityType
    <3>5. Cardinality(has) <= Cardinality(Node \ {d})
      BY <3>3, <3>4, FS_Subset
    <3> QED
      BY <1>1, <3>1, <3>2, <3>3, <3>4, <3>5
  <2> QED
    BY <2>2, <2>3
<1>6. Carried(x, d, m, l.seq)
  BY <1>1, <1>2, <1>4, <1>5 DEF Reliable, Exempt, Calm
<1>7. InPool(x, d, own)
  BY <1>3, <1>6 DEF Carried, Waiting, On, InPool
<1> QED
  BY <1>1, <1>7

LEMMA SpreadIsAgreed == FloodInv /\ Reliable /\ SpreadInv => AgreedWhenQuiet
<1> SUFFICES ASSUME FloodInv, Reliable, SpreadInv, Calm, Cardinality(Node) <= InitTTL + 1,
                    NEW m \in Node, lastLSA[m][m] # NULL, \A x, d \in Node : ~InPool(x, d, lastLSA[m][m]),
                    NEW n \in Connected(m)
             PROVE  Agrees(n, m)
  BY DEF AgreedWhenQuiet, Calm
<1>1. SpreadOK
  BY DEF SpreadInv
<1>2. PICK own \in LSAs : lastLSA[m][m] = own
  BY DEF FloodInv, TypeInv
<1>3. own.seq \in Nat /\ own.seq >= own.seq
  BY DEF LSAs
<1> DEFINE has == Knowers(m, own.seq)
<1>4. m \in has /\ has \in SUBSET Node
  BY <1>2, <1>3 DEF Knowers, Has
<1>5. \A x \in has : scen.nbr[x] \subseteq has
  BY <1>1, <1>2, KnowersAreClosed
<1> HIDE DEF has
<1>6. n \in has /\ n \in Node
  BY <1>4, <1>5 DEF Connected
<1>7. PICK l \in LSAs : lastLSA[n][m] = l
  BY <1>6 DEF has, Knowers, Has, FloodInv, TypeInv
<1>8. Announced(l) /\ l.sender = m
  BY <1>1, <1>6, <1>7 DEF SpreadOK, Entry, FloodInv, StoredOK
<1>9. l.seq = own.seq
  <2>1. l.seq >= own.seq
    BY <1>6, <1>7 DEF has, Knowers, Has
  <2>2. own.seq >= l.seq
    BY <1>2, <1>8 DEF Announced, Has
  <2>3. l.seq \in Nat
    BY DEF LSAs
  <2> QED
    BY <1>3, <2>1, <2>2, <2>3
<1>10. own.links = l.links /\ own.objs = l.objs
  BY <1>2, <1>8, <1>9 DEF Announced
<1> QED
  BY <1>2, <1>7, <1>9, <1>10, NotNull DEF Agrees

(* Any network of up to InitTTL + 1 daemons in which nobody restarts and    *)
(* nobody is found down agrees on a node as soon as nobody waits for an ACK *)
(* of its last LSA, whatever was lost, duplicated and reordered before.     *)
THEOREM AgreedWhenQuietHolds == Spec => []AgreedWhenQuiet
<1>1. FloodInv /\ Reliable /\ SpreadInv /\ [Next]_vars => (FloodInv /\ Reliable /\ SpreadInv)'
  BY FloodInvStep, ReliableStep, SpreadStep
<1> QED
  BY <1>1, FloodInit, SpreadInit, SpreadIsAgreed, PTL DEF Spec
=============================================================================
