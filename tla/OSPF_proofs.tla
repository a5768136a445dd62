----------------------------- MODULE OSPF_proofs ----------------------------
(***************************************************************************)
(* Dijkstra's loop of OSPF, for every number of nodes, matrix, list of IDs   *)
(* and first value of new_u: doOSPF leaves distances no edge can shorten,   *)
(* and the tree of the lowest IDs; these are the numbers of hops, and query *)
(* answers with the first hop to the nearest owner.                         *)
(***************************************************************************)
EXTENDS OSPF, FiniteSetTheorems, WellFoundedInduction, TLAPS

Unvisited == Nodes \ removedNodes

(* What the removed nodes know is final: their edges are relaxed, nobody    *)
(* left is nearer, and those left differ by one hop at most.                *)
EdgesRelaxed ==
  \A r \in removedNodes, v \in Nodes :
    Found(r) /\ (<<r, v>> \in matrix => dist[v] <= dist[r] + 1)

RemovedFirst == \A r \in removedNodes, v \in Unvisited : dist[r] <= dist[v]

OneHopApart == \A v, w \in Unvisited : Found(v) /\ Found(w) => dist[v] <= dist[w] + 1

(* While somebody is left who was found, u is the nearest of them.          *)
NextIsNearest ==
  \A v \in Unvisited : Found(v) => u \in Unvisited /\ Found(u) /\ dist[u] <= dist[v]

(* A node that was found hangs on the best of its removed neighbours.       *)
PreviousIsBest ==
  \A v \in Nodes \ {rootIdx} : Found(v) =>
    /\ previous[v] \in removedNodes
    /\ <<previous[v], v>> \in matrix /\ dist[v] = dist[previous[v]] + 1
    /\ \A w \in removedNodes : <<w, v>> \in matrix /\ dist[v] = dist[w] + 1 =>
         nodeList[previous[v]] <= nodeList[w]

(* While somebody is left who was found, iterations suffice for all who are *)
(* left; and their number bounds the distances.                             *)
EnoughIterations ==
  /\ (\E v \in Unvisited : Found(v)) => Cardinality(Unvisited) <= numRemaining
  /\ \A v \in Nodes : Found(v) => dist[v] <= NumNodes - numRemaining

LoopInv ==
  /\ dist[rootIdx] = 0
  /\ EdgesRelaxed /\ RemovedFirst /\ OneHopApart /\ NextIsNearest
  /\ PreviousIsBest /\ EnoughIterations

IInv == TypeOK /\ (pc = "loop" => LoopInv) /\ LocallyShortest

-----------------------------------------------------------------------------
(* There are finitely many nodes.                                           *)
LEMMA NodesFinite ==
  IsFiniteSet(Nodes) /\ Cardinality(Nodes) = NumNodes /\ Nodes \subseteq Int
<1>1. NumNodes \in Nat /\ NumNodes > 0
  BY OSPFAssumption
<1>2. IsFiniteSet(0..NumNodes - 1) /\ Cardinality(0..NumNodes - 1) = NumNodes
  <2>1. 0 \in Int /\ NumNodes - 1 \in Int
    BY <1>1
  <2>2. QED
    BY <1>1, <2>1, FS_Interval
<1>3. QED
  BY <1>1, <1>2 DEF Nodes

(* Before doOSPF has begun only the root is found.                          *)
LEMMA InitIInv == Init => IInv
<1> SUFFICES ASSUME Init PROVE IInv
  OBVIOUS
<1> USE OSPFAssumption
<1>1. TypeOK
  <2>1. matrix \subseteq Nodes \X Nodes
    BY DEF Init, Matrices, Connected
  <2>2. nodeList \in [Nodes -> Nat]
    BY DEF Init, NodeLists
  <2>3. QED
    BY <2>1, <2>2 DEF Init, TypeOK, UNDEFINED, Nodes
<1>2. EnoughIterations
  <2>1. Unvisited = Nodes
    BY DEF Init, Unvisited
  <2>2. Cardinality(Unvisited) <= numRemaining
    BY <2>1, NodesFinite DEF Init
  <2>3. QED
    BY <2>1, <2>2 DEF Init, EnoughIterations, Found
<1>3. LoopInv
  BY <1>2 DEF Init, LoopInv, EdgesRelaxed, RemovedFirst, OneHopApart, NextIsNearest,
              PreviousIsBest, Unvisited, Found, Nodes
<1>4. QED
  BY <1>1, <1>3 DEF IInv, Init, LocallyShortest

-----------------------------------------------------------------------------
(* An iteration does not change a distance that is final, and shortens      *)
(* others to one more than that of u.                                       *)
LEMMA Relaxed ==
  ASSUME TypeOK, Iterate
  PROVE  /\ u \in Nodes /\ Found(u) /\ dist[u] \in Nat
         /\ \A v \in Nodes :
              /\ dist[v] \in 0..INF
              /\ dist'[v] = IF IsNeighbor(v) /\ dist[u] + 1 < dist[v]
                            THEN dist[u] + 1 ELSE dist[v]
              /\ previous'[v] = RelaxedPrevious[v]
         /\ removedNodes' = removedNodes \cup {u}
         /\ inputs' = inputs
BY DEF TypeOK, Iterate, Found, RelaxedDist, Alt, RelaxedPrevious, inputs

(* The types are kept by an iteration.                                      *)
LEMMA IterateType ==
  ASSUME TypeOK, Iterate
  PROVE  TypeOK'
<1> USE OSPFAssumption
<1>1. dist' \in [Nodes -> 0..INF]
  <2>1. \A v \in Nodes : RelaxedDist[v] \in 0..INF
    BY DEF TypeOK, Iterate, RelaxedDist, Alt
  <2>2. QED
    BY <2>1 DEF Iterate, RelaxedDist
<1>2. previous' \in [Nodes -> Nodes \cup {UNDEFINED}]
  BY DEF TypeOK, Iterate, RelaxedPrevious
<1>3. new_u' \in 0..NumNodes
  <2>1. new_u' = new_u \/ new_u' \in Nodes
    BY DEF Iterate, Candidates
  <2>2. QED
    BY <2>1 DEF TypeOK, Nodes
<1>4. numRemaining' \in 0..NumNodes
  BY DEF TypeOK, Iterate, LoopAgain
<1>5. QED
  BY <1>1, <1>2, <1>3, <1>4 DEF TypeOK, Iterate, inputs

(* An iteration keeps LoopInv.  Either u is the nearest of those that are   *)
(* left, or it is removed once more, and nobody left was found.             *)
LEMMA IterateLoop ==
  ASSUME TypeOK, LoopInv, Iterate
  PROVE  LoopInv'
<1> USE OSPFAssumption
<1>u. u \in Nodes /\ Found(u) /\ dist[u] \in Nat
  BY Relaxed
<1>d. \A v \in Nodes :
        /\ dist[v] \in 0..INF
        /\ dist'[v] = IF IsNeighbor(v) /\ dist[u] + 1 < dist[v] THEN dist[u] + 1 ELSE dist[v]
  BY Relaxed
<1>r. removedNodes' = removedNodes \cup {u} /\ removedNodes \subseteq Nodes
  BY Relaxed DEF TypeOK
<1>i. matrix' = matrix /\ rootIdx' = rootIdx /\ nodeList' = nodeList
  BY Relaxed DEF inputs
<1>f. \A v \in Nodes : Found(v)' <=> dist'[v] # INF
  BY DEF Found
<1>l. u \in Unvisited => \A v \in Unvisited : dist[u] <= dist[v]
  <2> SUFFICES ASSUME u \in Unvisited, NEW v \in Unvisited PROVE dist[u] <= dist[v]
    OBVIOUS
  <2>1. CASE Found(v)
    BY <2>1 DEF LoopInv, NextIsNearest
  <2>2. CASE ~Found(v)
    BY <2>2, <1>u, <1>d DEF Found, Unvisited
  <2>3. QED
    BY <2>1, <2>2
<1>n. u \notin Unvisited => \A v \in Unvisited : ~Found(v) /\ ~IsNeighbor(v)
  <2> SUFFICES ASSUME u \notin Unvisited, NEW v \in Unvisited
               PROVE  ~Found(v) /\ ~IsNeighbor(v)
    OBVIOUS
  <2>1. ~Found(v)
    BY DEF LoopInv, NextIsNearest
  <2>2. u \in removedNodes
    BY <1>u DEF Unvisited
  <2>3. dist[u] + 1 < INF
    BY <1>u, <1>d DEF LoopInv, EnoughIterations, Iterate, LoopAgain, TypeOK
  <2>4. <<u, v>> \notin matrix
    BY <1>u, <1>d, <2>1, <2>2, <2>3 DEF LoopInv, EdgesRelaxed, Found, Unvisited
  <2>5. QED
    BY <2>1, <2>4 DEF IsNeighbor
<1>b. dist[u] + 1 < INF + 1 /\ dist[u] + 1 <= NumNodes - numRemaining' /\ dist[u] + 1 < INF
  BY <1>u, <1>d DEF LoopInv, EnoughIterations, Iterate, LoopAgain, TypeOK
<1>1. (dist[rootIdx] = 0)'
  <2>1. rootIdx \in Nodes /\ dist[rootIdx] = 0
    BY DEF TypeOK, LoopInv
  <2>2. QED
    BY <2>1, <1>d, <1>i, <1>u
<1>2. EdgesRelaxed'
  <2> SUFFICES ASSUME NEW r \in removedNodes', NEW v \in Nodes
               PROVE  Found(r)' /\ (<<r, v>> \in matrix' => dist'[v] <= dist'[r] + 1)
    BY DEF EdgesRelaxed, Found
  <2>0. dist'[r] = dist[r] /\ r \in Nodes
    BY <1>d, <1>r, <1>u DEF IsNeighbor
  <2>1. Found(r)
    BY <1>u, <1>r DEF LoopInv, EdgesRelaxed
  <2>2. Found(r)'
    BY <2>0, <2>1 DEF Found
  <2>3. dist'[v] <= dist[v]
    BY <1>d, <1>u
  <2>4. ASSUME <<r, v>> \in matrix PROVE dist'[v] <= dist[r] + 1
    <3>1. CASE r \in removedNodes
      <4>1. dist[v] <= dist[r] + 1
        BY <3>1, <2>4 DEF LoopInv, EdgesRelaxed
      <4>2. QED
        BY <4>1, <2>3, <1>d, <2>0, <1>u
    <3>2. CASE r = u /\ r \notin removedNodes
      <4>1. CASE v \in removedNodes
        <5>1. dist[v] <= dist[u]
          BY <4>1, <3>2, <1>u DEF LoopInv, RemovedFirst, Unvisited
        <5>2. QED
          BY <5>1, <2>3, <3>2, <1>d, <1>u
      <4>2. CASE v = u
        BY <4>2, <3>2, <2>3, <1>d, <1>u
      <4>3. CASE v \notin removedNodes \cup {u}
        <5>1. IsNeighbor(v)
          BY <4>3, <3>2, <2>4 DEF IsNeighbor
        <5>2. QED
          BY <5>1, <3>2, <1>d, <1>u
      <4>4. QED
        BY <4>1, <4>2, <4>3
    <3>3. QED
      BY <3>1, <3>2, <1>r
  <2>5. QED
    BY <2>0, <2>2, <2>4, <1>i
<1>3. RemovedFirst'
  <2> SUFFICES ASSUME NEW r \in removedNodes', NEW v \in Nodes \ removedNodes'
               PROVE  dist'[r] <= dist'[v]
    BY DEF RemovedFirst, Unvisited
  <2>0. dist'[r] = dist[r] /\ r \in Nodes /\ v \in Unvisited
    BY <1>d, <1>r, <1>u DEF IsNeighbor, Unvisited
  <2>1. CASE u \in Unvisited
    <3>1. dist[r] <= dist[u] /\ dist[u] <= dist[v]
      <4>1. CASE r \in removedNodes
        BY <4>1, <2>0, <2>1, <1>l DEF LoopInv, RemovedFirst
      <4>2. CASE r = u
        BY <4>2, <2>0, <2>1, <1>l, <1>u
      <4>3. QED
        BY <4>1, <4>2, <1>r
    <3>2. dist[u] <= dist'[v]
      BY <3>1, <2>0, <1>d, <1>u DEF Unvisited
    <3>3. QED
      BY <3>1, <3>2, <2>0, <1>d, <1>u DEF Unvisited
  <2>2. CASE u \notin Unvisited
    <3>1. r \in removedNodes
      BY <2>2, <1>r, <1>u DEF Unvisited
    <3>2. dist[r] <= dist[v] /\ dist'[v] = dist[v]
      BY <3>1, <2>0, <2>2, <1>n, <1>d DEF LoopInv, RemovedFirst, Unvisited
    <3>3. QED
      BY <3>2, <2>0
  <2>3. QED
    BY <2>1, <2>2
<1>4. OneHopApart'
  <2> SUFFICES ASSUME NEW v \in Nodes \ removedNodes', NEW w \in Nodes \ removedNodes',
                      dist'[v] # INF, dist'[w] # INF
               PROVE  dist'[v] <= dist'[w] + 1
    BY DEF OneHopApart, Unvisited, Found
  <2>0. v \in Unvisited /\ w \in Unvisited
    BY <1>r DEF Unvisited
  <2>1. CASE u \in Unvisited
    <3>1. dist[u] <= dist'[w]
      BY <2>0, <2>1, <1>l, <1>d, <1>u DEF Unvisited
    <3>2. dist'[v] <= dist[u] + 1
      <4>1. CASE Found(v)
        <5>1. dist[v] <= dist[u] + 1
          BY <4>1, <2>0, <2>1, <1>u DEF LoopInv, OneHopApart
        <5>2. QED
          BY <5>1, <1>d, <1>u
      <4>2. CASE ~Found(v)
        BY <4>2, <1>d, <1>u DEF Found
      <4>3. QED
        BY <4>1, <4>2
    <3>3. QED
      BY <3>1, <3>2, <1>d, <1>u
  <2>2. CASE u \notin Unvisited
    BY <2>2, <2>0, <1>n, <1>d DEF Found, Unvisited
  <2>3. QED
    BY <2>1, <2>2
<1>5. NextIsNearest'
  <2> SUFFICES ASSUME NEW v \in Nodes \ removedNodes', dist'[v] # INF
               PROVE  u' \in Nodes \ removedNodes' /\ dist'[u'] # INF /\ dist'[u'] <= dist'[v]
    BY DEF NextIsNearest, Unvisited, Found
  <2>1. \A w \in Nodes : dist'[w] \in 0..INF /\ RelaxedDist[w] = dist'[w]
    <3>1. dist' = RelaxedDist
      BY DEF Iterate
    <3>2. \A w \in Nodes : dist'[w] \in 0..INF
      BY IterateType DEF TypeOK
    <3>3. QED
      BY <3>1, <3>2
  <2>2. v \in Candidates
    BY <2>1, <1>r DEF Candidates
  <2>3. PICK w \in Candidates : IsLeast(w, Candidates) /\ new_u' = w
    BY <2>2 DEF Iterate
  <2>4. u' = w /\ w \in Nodes \ removedNodes' /\ dist'[w] # INF
    BY <2>1, <2>3, <1>r DEF Iterate, Candidates
  <2>5. dist'[w] <= dist'[v]
    BY <2>1, <2>2, <2>3, <2>4 DEF IsLeast
  <2>6. QED
    BY <2>4, <2>5
<1>6. PreviousIsBest'
  <2> SUFFICES ASSUME NEW v \in Nodes \ {rootIdx}, dist'[v] # INF
               PROVE  /\ previous'[v] \in removedNodes'
                      /\ <<previous'[v], v>> \in matrix
                      /\ dist'[v] = dist'[previous'[v]] + 1
                      /\ \A w \in removedNodes' : <<w, v>> \in matrix /\ dist'[v] = dist'[w] + 1 =>
                           nodeList[previous'[v]] <= nodeList[w]
    BY <1>i DEF PreviousIsBest, Found
  <2>a. \A w \in removedNodes' : w \in Nodes /\ dist'[w] = dist[w]
    BY <1>d, <1>r, <1>u DEF IsNeighbor
  <2>p. previous'[v] = IF /\ IsNeighbor(v)
                          /\ \/ dist[u] + 1 < dist[v]
                             \/ dist[u] + 1 = dist[v] /\ nodeList[u] < nodeList[previous[v]]
                       THEN u ELSE previous[v]
    BY Relaxed DEF RelaxedPrevious, Alt
  <2>o. Found(v) =>
          /\ previous[v] \in removedNodes
          /\ <<previous[v], v>> \in matrix /\ dist[v] = dist[previous[v]] + 1
          /\ \A w \in removedNodes : <<w, v>> \in matrix /\ dist[v] = dist[w] + 1 =>
               nodeList[previous[v]] <= nodeList[w]
    BY DEF LoopInv, PreviousIsBest
  <2>t. \A w \in Nodes : nodeList[w] \in Nat
    BY DEF TypeOK
  <2>1. CASE IsNeighbor(v) /\ dist[u] + 1 < dist[v]
    <3>1. previous'[v] = u /\ dist'[v] = dist[u] + 1
      BY <2>1, <2>p, <1>d
    <3>2. \A w \in removedNodes : <<w, v>> \in matrix => dist'[v] # dist[w] + 1
      BY <2>1, <3>1, <1>d, <1>u, <1>r DEF LoopInv, EdgesRelaxed
    <3>3. <<u, v>> \in matrix
      BY <2>1 DEF IsNeighbor
    <3>4. QED
      BY <3>1, <3>2, <3>3, <2>a, <2>t, <1>r, <1>u
  <2>2. CASE IsNeighbor(v) /\ dist[u] + 1 = dist[v]
    <3>1. dist'[v] = dist[v] /\ Found(v)
      BY <2>2, <1>d, <1>b DEF Found
    <3>2. <<u, v>> \in matrix
      BY <2>2 DEF IsNeighbor
    <3>3. previous'[v] = IF nodeList[u] < nodeList[previous[v]] THEN u ELSE previous[v]
      BY <2>2, <2>p, <1>u, <1>d
    <3>4. previous'[v] \in removedNodes' /\ <<previous'[v], v>> \in matrix
          /\ dist'[v] = dist'[previous'[v]] + 1
      BY <3>1, <3>2, <3>3, <2>2, <2>o, <2>a, <1>r
    <3>5. ASSUME NEW w \in removedNodes', <<w, v>> \in matrix, dist'[v] = dist'[w] + 1
          PROVE  nodeList[previous'[v]] <= nodeList[w]
      <4>1. dist[v] = dist[w] + 1
        BY <3>5, <3>1, <2>a
      <4>2. w = u \/ nodeList[previous[v]] <= nodeList[w]
        BY <4>1, <3>1, <3>5, <2>o, <1>r
      <4>3. previous[v] \in Nodes /\ w \in Nodes /\ u \in Nodes
        BY <3>1, <2>o, <2>a, <1>r, <1>u
      <4>4. QED
        BY <4>2, <4>3, <3>3, <2>t
    <3>6. QED
      BY <3>4, <3>5
  <2>3. CASE ~IsNeighbor(v) \/ dist[u] + 1 > dist[v]
    <3>1. previous'[v] = previous[v] /\ dist'[v] = dist[v] /\ Found(v)
      BY <2>3, <2>p, <1>d, <1>u DEF Found
    <3>2. <<u, v>> \in matrix => dist[v] # dist[u] + 1 \/ u \in removedNodes
      <4>1. CASE v \in removedNodes /\ u \in Unvisited
        BY <4>1, <1>u, <1>d DEF LoopInv, RemovedFirst
      <4>2. CASE v = u
        BY <4>2, <1>u
      <4>3. CASE v \notin removedNodes \cup {u}
        BY <4>3, <2>3, <1>u, <1>d DEF IsNeighbor
      <4>4. QED
        BY <4>1, <4>2, <4>3, <1>u DEF Unvisited
    <3>3. QED
      BY <3>1, <3>2, <2>o, <2>a, <1>r
  <2>4. QED
    BY <2>1, <2>2, <2>3, <1>d, <1>u
<1>7. EnoughIterations'
  <2>1. Unvisited' = Unvisited \ {u}
    BY <1>r DEF Unvisited
  <2>2. IsFiniteSet(Unvisited)
    <3>1. Unvisited \in SUBSET Nodes
      BY DEF Unvisited
    <3>2. QED
      BY <3>1, NodesFinite, FS_Subset
  <2>3. Cardinality(Unvisited) \in Nat
    BY <2>2, FS_CardinalityType
  <2>4. Cardinality(Unvisited') = IF u \in Unvisited THEN Cardinality(Unvisited) - 1
                                                    ELSE Cardinality(Unvisited)
    BY <2>1, <2>2, FS_RemoveElement
  <2>5. ASSUME NEW v \in Nodes \ removedNodes', dist'[v] # INF
        PROVE  Cardinality(Unvisited') <= numRemaining'
    <3>1. u \in Unvisited
      BY <2>5, <1>n, <1>d, <1>r DEF Found, Unvisited
    <3>2. Cardinality(Unvisited) <= numRemaining
      BY <3>1, <1>u DEF LoopInv, EnoughIterations
    <3>3. numRemaining \in Nat /\ numRemaining' = numRemaining - 1
      BY DEF Iterate, LoopAgain, TypeOK
    <3>4. QED
      BY <3>1, <3>2, <3>3, <2>3, <2>4
  <2>6. ASSUME NEW v \in Nodes, dist'[v] # INF PROVE dist'[v] <= NumNodes - numRemaining'
    BY <2>6, <1>b, <1>d, <1>u DEF LoopInv, EnoughIterations, Iterate, LoopAgain, TypeOK, Found
  <2>7. QED
    <3>1. (\E v \in Nodes \ removedNodes' : dist'[v] # INF) =>
            Cardinality(Unvisited') <= numRemaining'
      BY <2>5
    <3>2. QED
      BY <2>6, <3>1, NodesFinite DEF EnoughIterations, Found, Unvisited
<1>8. QED
  BY <1>1, <1>2, <1>3, <1>4, <1>5, <1>6, <1>7 DEF LoopInv

-----------------------------------------------------------------------------
(* When nobody left was found, the removed nodes are all that were, and     *)
(* what LoopInv says of them is LocallyShortest.                            *)
LEMMA LoopEnds ==
  ASSUME TypeOK, LoopInv, \A v \in Unvisited : ~Found(v), inputs' = inputs,
         dist' = dist, previous' = previous
  PROVE  LocallyShortest'
<1>1. \A v \in Nodes : Found(v) => v \in removedNodes
  BY DEF Unvisited
<1>2. \A v, w \in Nodes : Found(v) /\ <<v, w>> \in matrix => dist[w] <= dist[v] + 1
  BY <1>1 DEF LoopInv, EdgesRelaxed
<1>3. ASSUME NEW v \in Nodes \ {rootIdx}, Found(v)
      PROVE  /\ previous[v] \in Nodes
             /\ <<previous[v], v>> \in matrix /\ dist[v] = dist[previous[v]] + 1
             /\ \A w \in Nodes : <<w, v>> \in matrix /\ dist[v] = dist[w] + 1 =>
                  nodeList[previous[v]] <= nodeList[w]
  <2>1. \A w \in Nodes : dist[v] = dist[w] + 1 => w \in removedNodes
    <3>1. \A w \in Nodes : dist[w] \in 0..INF
      BY DEF TypeOK
    <3>2. \A w \in Nodes : dist[v] = dist[w] + 1 => Found(w)
      BY <3>1, OSPFAssumption DEF Found
    <3>3. QED
      BY <1>1, <3>2
  <2>2. QED
    BY <1>3, <2>1 DEF LoopInv, PreviousIsBest, TypeOK
<1>4. dist[rootIdx] = 0
  BY DEF LoopInv
<1>5. QED
  BY <1>2, <1>3, <1>4 DEF LocallyShortest, Found, inputs

(* Every step keeps IInv.                                                   *)
LEMMA NextIInv == IInv /\ [Next]_vars => IInv'
<1> SUFFICES ASSUME IInv, [Next]_vars PROVE IInv'
  OBVIOUS
<1>1. CASE Iterate
  <2>1. TypeOK'
    BY <1>1, IterateType DEF IInv
  <2>2. LoopInv'
    BY <1>1, IterateLoop DEF IInv, Iterate
  <2>3. pc' = "loop"
    BY <1>1 DEF Iterate
  <2>4. QED
    BY <2>1, <2>2, <2>3 DEF IInv, LocallyShortest
<1>2. CASE Finish
  <2>1. TypeOK'
    BY <1>2 DEF IInv, TypeOK, Finish, inputs
  <2>2. TypeOK /\ LoopInv /\ inputs' = inputs /\ dist' = dist /\ previous' = previous
    BY <1>2 DEF IInv, Finish, inputs
  <2>3. \A v \in Unvisited : ~Found(v)
    <3>1. CASE numRemaining = 0
      <4>1. IsFiniteSet(Unvisited)
        <5>1. Unvisited \in SUBSET Nodes
          BY DEF Unvisited
        <5>2. QED
          BY <5>1, NodesFinite, FS_Subset
      <4>2. Cardinality(Unvisited) \in Nat /\ (Cardinality(Unvisited) = 0 => Unvisited = {})
        BY <4>1, FS_CardinalityType, FS_EmptySet
      <4>3. QED
        BY <4>2, <3>1, <2>2 DEF LoopInv, EnoughIterations
    <3>2. CASE u \in Nodes /\ dist[u] = INF
      BY <3>2, <2>2 DEF LoopInv, NextIsNearest, Found
    <3>3. QED
      BY <3>1, <3>2, <1>2, <2>2 DEF Finish, LoopAgain, TypeOK
  <2>4. LocallyShortest'
    BY <2>2, <2>3, LoopEnds
  <2>5. QED
    BY <2>1, <2>4, <1>2 DEF IInv, Finish
<1>3. CASE LeaveArray
  <2>1. TypeOK'
    BY <1>3 DEF IInv, TypeOK, LeaveArray, inputs
  <2>2. TypeOK /\ LoopInv /\ inputs' = inputs /\ dist' = dist /\ previous' = previous
    BY <1>3 DEF IInv, LeaveArray, inputs
  <2>3. \A v \in Unvisited : ~Found(v)
    BY <1>3, <2>2 DEF LeaveArray, LoopInv, NextIsNearest, Unvisited
  <2>4. LocallyShortest'
    BY <2>2, <2>3, LoopEnds
  <2>5. QED
    BY <2>1, <2>4, <1>3 DEF IInv, LeaveArray
<1>4. CASE Answer
  BY <1>4 DEF IInv, TypeOK, Answer, inputs, LocallyShortest, Found
<1>5. CASE UNCHANGED vars
  BY <1>5 DEF IInv, TypeOK, vars, inputs, LocallyShortest, LoopInv, EdgesRelaxed, RemovedFirst,
              OneHopApart, NextIsNearest, PreviousIsBest, EnoughIterations, Unvisited, Found
<1>6. QED
  BY <1>1, <1>2, <1>3, <1>4, <1>5 DEF Next

(* The invariant holds in every state.                                      *)
LEMMA Invariant == Spec => []IInv
BY InitIInv, NextIInv, PTL DEF Spec

(* The variables stay in their types.  In particular numRemaining, which    *)
(* counts iterations and not nodes, never falls below zero.                 *)
THEOREM OSPFTypeCorrect == Spec => []TypeOK
<1>1. IInv => TypeOK
  BY DEF IInv
<1>2. QED
  BY Invariant, <1>1, PTL

(* When doOSPF ends, no edge is shorter than the distances it has found,    *)
(* and previous is the tree of the lowest IDs.                              *)
THEOREM LocallyShortestHolds == Spec => []LocallyShortest
<1>1. IInv => LocallyShortest
  BY DEF IInv
<1>2. QED
  BY Invariant, <1>1, PTL
-----------------------------------------------------------------------------
(* Induction: < is well-founded, so a set of numbers has a least element.   *)
LEMMA LeastElement ==
  ASSUME NEW S \in SUBSET Nat, S # {}
  PROVE  \E n \in S : \A m \in S : n <= m
<1> DEFINE Less == OpToRel(<, Nat)
<1>1. \A m, n \in Nat : m < n => <<m, n>> \in Less
  BY DEF OpToRel
<1>2. IsWellFoundedOn(Less, Nat)
  BY NatLessThanWellFounded
<1> HIDE DEF Less
<1>3. PICK n \in S : \A m \in S : <<m, n>> \notin Less
  BY <1>2, WFMin, Zenon
<1>4. ASSUME NEW m \in S
      PROVE  n <= m
  <2>1. m \in Nat /\ n \in Nat
    OBVIOUS
  <2>2. ~(m < n)
    BY <1>1, <1>3, <2>1
  <2> QED
    BY <2>1, <2>2
<1> QED
  BY <1>4

(* A set with 0, and the successor of each of its numbers, is Nat.          *)
LEMMA Induction ==
  ASSUME NEW S \in SUBSET Nat, 0 \in S, \A n \in S : n + 1 \in S
  PROVE  S = Nat
<1> SUFFICES ASSUME S # Nat PROVE FALSE
  OBVIOUS
<1>1. Nat \ S \in SUBSET Nat /\ Nat \ S # {}
  OBVIOUS
<1>2. PICK n \in Nat \ S : \A m \in Nat \ S : n <= m
  BY <1>1, LeastElement
<1>3. n - 1 \in S
  BY <1>2
<1> QED
  BY <1>2, <1>3

(* f[k] is h, applied k times to a.                                         *)
IsIteration(f, h, a, S, N) ==
  /\ f \in [0..N -> S] /\ f[0] = a
  /\ \A k \in 0..N : k # 0 => f[k] = h[f[k - 1]]

(* There is such a function for each N.                                     *)
LEMMA Iteration ==
  ASSUME NEW S, NEW a \in S, NEW h \in [S -> S], NEW N \in Nat
  PROVE  \E f : IsIteration(f, h, a, S, N)
<1> DEFINE I == {n \in Nat : \E f : IsIteration(f, h, a, S, n)}
<1>1. 0 \in I
  <2> DEFINE f == [k \in 0..0 |-> a]
  <2>1. f \in [0..0 -> S] /\ f[0] = a /\ \A k \in 0..0 : k = 0
    OBVIOUS
  <2>2. IsIteration(f, h, a, S, 0)
    BY <2>1 DEF IsIteration
  <2> QED
    BY <2>2
<1>2. ASSUME NEW n \in I
      PROVE  n + 1 \in I
  <2>1. PICK f : IsIteration(f, h, a, S, n)
    OBVIOUS
  <2> DEFINE g == [k \in 0..(n + 1) |-> IF k = n + 1 THEN h[f[n]] ELSE f[k]]
  <2>2. n \in Nat /\ 0 \in 0..n /\ n \in 0..n
    OBVIOUS
  <2>3. \A k \in 0..(n + 1) : k = n + 1 \/ k \in 0..n
    BY <2>2
  <2>4. g \in [0..(n + 1) -> S]
    BY <2>1, <2>2, <2>3 DEF IsIteration
  <2>5. g[0] = a
    BY <2>1, <2>2 DEF IsIteration
  <2>6. ASSUME NEW k \in 0..(n + 1), k # 0
        PROVE  g[k] = h[g[k - 1]]
    <3>1. k - 1 \in 0..n /\ k - 1 # n + 1 /\ k - 1 \in 0..(n + 1)
      BY <2>2, <2>6
    <3>2. g[k - 1] = f[k - 1]
      BY <3>1
    <3>3. CASE k = n + 1
      <4>1. k - 1 = n
        BY <2>2, <3>3
      <4> QED
        BY <3>2, <3>3, <4>1
    <3>4. CASE k # n + 1
      <4>1. k \in 0..n
        BY <2>3, <3>4
      <4>2. g[k] = f[k]
        BY <3>4
      <4> QED
        BY <2>1, <2>6, <3>2, <4>1, <4>2 DEF IsIteration
    <3> QED
      BY <3>3, <3>4
  <2>7. IsIteration(g, h, a, S, n + 1)
    BY <2>4, <2>5, <2>6 DEF IsIteration
  <2> QED
    BY <2>2, <2>7
<1>3. I = Nat
  <2>1. I \in SUBSET Nat
    OBVIOUS
  <2> HIDE DEF I
  <2> QED
    BY <1>1, <1>2, <2>1, Induction
<1> QED
  BY <1>3

(* Within and Walk are the functions that their definitions describe: each  *)
(* chooses a function with an equation, and an iteration satisfies it.      *)
LEMMA WithinUnfolded ==
  Within = [k \in 0..NumNodes |->
              IF k = 0 THEN {rootIdx}
              ELSE {w \in Nodes : \E v \in Within[k - 1] : <<v, w>> \in matrix}]
<1> DEFINE Sets == SUBSET ({rootIdx} \cup Nodes)
           next == [V \in Sets |-> {w \in Nodes : \E v \in V : <<v, w>> \in matrix}]
           IsWithin(f) == f = [k \in 0..NumNodes |->
              IF k = 0 THEN {rootIdx}
              ELSE {w \in Nodes : \E v \in f[k - 1] : <<v, w>> \in matrix}]
<1>1. NumNodes \in Nat
  BY OSPFAssumption
<1>2. PICK f : IsIteration(f, next, {rootIdx}, Sets, NumNodes)
  <2>1. {rootIdx} \in Sets /\ next \in [Sets -> Sets]
    OBVIOUS
  <2> HIDE DEF next, Sets
  <2> QED
    BY <1>1, <2>1, Iteration
<1>3. ASSUME NEW k \in 0..NumNodes, k # 0
      PROVE  f[k] = {w \in Nodes : \E v \in f[k - 1] : <<v, w>> \in matrix}
  <2>1. k - 1 \in 0..NumNodes
    BY <1>1, <1>3
  <2>2. f[k - 1] \in Sets
    BY <1>2, <2>1 DEF IsIteration
  <2>3. f[k] = next[f[k - 1]]
    BY <1>2, <1>3 DEF IsIteration
  <2> QED
    BY <2>2, <2>3
<1>4. IsWithin(f)
  <2> HIDE DEF Sets, next
  <2> QED
    BY <1>2, <1>3 DEF IsIteration
<1>5. Within = CHOOSE f_1 : IsWithin(f_1)
  BY DEF Within
<1> HIDE DEF IsWithin
<1>6. IsWithin(Within)
  BY <1>4, <1>5
<1> QED
  BY <1>6 DEF IsWithin

LEMMA WalkUnfolded ==
  ASSUME NEW target \in Nodes, TypeOK
  PROVE  Walk(target) = [k \in 0..NumNodes |->
           IF k = 0 THEN target
           ELSE IF Walk(target)[k - 1] = UNDEFINED THEN UNDEFINED
                ELSE previous[Walk(target)[k - 1]]]
<1> DEFINE Places == Nodes \cup {UNDEFINED}
           next == [x \in Places |-> IF x = UNDEFINED THEN UNDEFINED ELSE previous[x]]
           IsWalk(f) == f = [k \in 0..NumNodes |->
              IF k = 0 THEN target
              ELSE IF f[k - 1] = UNDEFINED THEN UNDEFINED ELSE previous[f[k - 1]]]
<1>1. NumNodes \in Nat
  BY OSPFAssumption
<1>2. PICK f : IsIteration(f, next, target, Places, NumNodes)
  <2>1. target \in Places /\ next \in [Places -> Places]
    BY DEF TypeOK
  <2> HIDE DEF next, Places
  <2> QED
    BY <1>1, <2>1, Iteration
<1>3. ASSUME NEW k \in 0..NumNodes, k # 0
      PROVE  f[k] = IF f[k - 1] = UNDEFINED THEN UNDEFINED ELSE previous[f[k - 1]]
  <2>1. k - 1 \in 0..NumNodes
    BY <1>1, <1>3
  <2>2. f[k - 1] \in Places
    BY <1>2, <2>1 DEF IsIteration
  <2>3. f[k] = next[f[k - 1]]
    BY <1>2, <1>3 DEF IsIteration
  <2> QED
    BY <2>2, <2>3
<1>4. IsWalk(f)
  <2> HIDE DEF Places, next
  <2> QED
    BY <1>2, <1>3 DEF IsIteration
<1>5. Walk(target) = CHOOSE f_1 : IsWalk(f_1)
  BY DEF Walk
<1> HIDE DEF IsWalk
<1>6. IsWalk(Walk(target))
  BY <1>4, <1>5
<1> QED
  BY <1>6 DEF IsWalk

-----------------------------------------------------------------------------
(* What query answers, as Answer chooses it.                                *)
Choice ==
  LET nearest == Nearest({Query(target) : target \in owners})
  IN IF owners = {} THEN NULL
     ELSE (CHOOSE r \in nearest : \A s \in nearest : r.nextHop >= s.nextHop).nextHop

(* What query relies on beside LocallyShortest.  That a node is connected   *)
(* to itself makes the nodes within k hops grow with k; that nothing is     *)
(* before the root ends the walk.                                           *)
QueryInv ==
  /\ \A v \in Nodes : <<v, v>> \in matrix /\ nodeList[v] <= NumNodes
  /\ rootIdx \notin owners /\ previous[rootIdx] = UNDEFINED
  /\ pc # "loop" => \A v \in Nodes : Found(v) => dist[v] <= NumNodes
  /\ pc = "done" => answer = Choice

LEMMA InitQueryInv == Init => QueryInv
<1> SUFFICES ASSUME Init PROVE QueryInv
  OBVIOUS
<1>1. \A v \in Nodes : <<v, v>> \in matrix
  BY DEF Init, Matrices, Connected
<1>2. \A v \in Nodes : nodeList[v] <= NumNodes
  BY OSPFAssumption DEF Init, NodeLists
<1> QED
  BY <1>1, <1>2 DEF Init, QueryInv

LEMMA NextQueryInv == IInv /\ QueryInv /\ [Next]_vars => QueryInv'
<1> SUFFICES ASSUME IInv, QueryInv, [Next]_vars PROVE QueryInv'
  OBVIOUS
<1> USE OSPFAssumption
<1>t. TypeOK
  BY DEF IInv
<1>1. CASE Iterate
  <2>1. rootIdx \in Nodes /\ u \in Nodes /\ dist[u] \in Nat /\ dist[rootIdx] = 0
    BY <1>1, <1>t, Relaxed DEF IInv, TypeOK, Iterate, LoopInv
  <2>2. previous'[rootIdx] = UNDEFINED
    BY <1>1, <1>t, <2>1, Relaxed DEF RelaxedPrevious, Alt, QueryInv
  <2>3. pc' = "loop" /\ inputs' = inputs
    BY <1>1 DEF Iterate
  <2> QED
    BY <2>2, <2>3 DEF QueryInv, inputs
<1>2. CASE Finish \/ LeaveArray
  <2>1. LoopInv /\ inputs' = inputs /\ dist' = dist /\ previous' = previous /\ pc' # "done"
    BY <1>2 DEF IInv, Finish, LeaveArray
  <2>2. \A v \in Nodes : Found(v) => dist[v] <= NumNodes
    BY <1>t, <2>1 DEF LoopInv, EnoughIterations, TypeOK
  <2> QED
    BY <2>1, <2>2 DEF QueryInv, inputs, Found
<1>3. CASE Answer
  <2>1. inputs' = inputs /\ dist' = dist /\ previous' = previous /\ pc = "query"
    BY <1>3 DEF Answer
  <2>2. answer' = Choice
    BY <1>3 DEF Answer, Choice
  <2>3. Choice' = Choice
    BY <2>1 DEF Choice, Nearest, Query, Walk, inputs
  <2> QED
    BY <2>1, <2>2, <2>3 DEF QueryInv, inputs, Found
<1>4. CASE UNCHANGED vars
  <2>1. Choice' = Choice
    BY <1>4 DEF Choice, Nearest, Query, Walk, vars, inputs
  <2> QED
    BY <1>4, <2>1 DEF QueryInv, vars, inputs, Found
<1> QED
  BY <1>1, <1>2, <1>3, <1>4 DEF Next

-----------------------------------------------------------------------------
(* When doOSPF has ended, the nodes within k hops are those of a distance   *)
(* of at most k.                                                            *)
LEMMA WithinIsDist ==
  ASSUME TypeOK, LocallyShortest, QueryInv, pc \in {"query", "done"}
  PROVE  \A k \in 0..NumNodes : Within[k] = {v \in Nodes : dist[v] <= k}
<1> USE OSPFAssumption
<1> DEFINE I == {n \in Nat : n <= NumNodes => Within[n] = {v \in Nodes : dist[v] <= n}}
<1>t. /\ \A v \in Nodes : dist[v] \in Nat /\ <<v, v>> \in matrix
      /\ rootIdx \in Nodes /\ NumNodes \in Nat /\ INF \in Nat /\ NumNodes < INF
  BY DEF TypeOK, QueryInv
<1>s. /\ dist[rootIdx] = 0
      /\ \A v, w \in Nodes : Found(v) /\ <<v, w>> \in matrix => dist[w] <= dist[v] + 1
      /\ \A v \in Nodes \ {rootIdx} : Found(v) =>
           /\ previous[v] \in Nodes
           /\ <<previous[v], v>> \in matrix /\ dist[v] = dist[previous[v]] + 1
  BY DEF LocallyShortest
<1>1. 0 \in I
  <2>1. Within[0] = {rootIdx}
    BY WithinUnfolded, <1>t
  <2>2. \A v \in Nodes : dist[v] <= 0 <=> v = rootIdx
    <3> SUFFICES ASSUME NEW v \in Nodes \ {rootIdx} PROVE ~(dist[v] <= 0)
      BY <1>t, <1>s
    <3>1. CASE Found(v)
      <4>1. previous[v] \in Nodes /\ dist[v] = dist[previous[v]] + 1
        BY <3>1, <1>s
      <4>2. dist[previous[v]] \in Nat
        BY <4>1, <1>t
      <4> QED
        BY <4>1, <4>2
    <3>2. CASE ~Found(v)
      BY <3>2, <1>t DEF Found
    <3> QED
      BY <3>1, <3>2
  <2> QED
    BY <2>1, <2>2, <1>t
<1>2. ASSUME NEW n \in I
      PROVE  n + 1 \in I
  <2> SUFFICES ASSUME n + 1 <= NumNodes
               PROVE  Within[n + 1] = {v \in Nodes : dist[v] <= n + 1}
    OBVIOUS
  <2>1. Within[n] = {v \in Nodes : dist[v] <= n} /\ n \in 0..NumNodes /\ n < INF
    BY <1>t
  <2>2. Within[n + 1] = {w \in Nodes : \E v \in Within[n] : <<v, w>> \in matrix}
    <3>1. n + 1 \in 0..NumNodes /\ n + 1 # 0 /\ (n + 1) - 1 = n
      BY <1>t, <2>1
    <3> QED
      BY ZenonT(30), <3>1, WithinUnfolded
  <2>3. ASSUME NEW w \in Nodes, NEW v \in Within[n], <<v, w>> \in matrix
        PROVE  dist[w] <= n + 1
    <3>1. v \in Nodes /\ dist[v] <= n
      BY <2>1
    <3>2. Found(v)
      BY <3>1, <2>1, <1>t DEF Found
    <3>3. dist[w] <= dist[v] + 1
      BY <3>1, <3>2, <2>3, <1>s
    <3>4. dist[v] \in Nat /\ dist[w] \in Nat /\ n \in Nat
      BY <3>1, <1>t
    <3> QED
      BY <3>1, <3>3, <3>4
  <2>4. ASSUME NEW w \in Nodes, dist[w] <= n + 1
        PROVE  \E v \in Within[n] : <<v, w>> \in matrix
    <3>1. CASE dist[w] <= n
      BY <3>1, <2>1, <1>t
    <3>2. CASE dist[w] = n + 1
      <4>1. w # rootIdx /\ Found(w)
        BY <3>2, <2>1, <1>t, <1>s DEF Found
      <4>2. previous[w] \in Within[n]
        <5>1. previous[w] \in Nodes /\ dist[w] = dist[previous[w]] + 1
          BY <4>1, <1>s
        <5>2. dist[previous[w]] <= n
          <6>1. dist[previous[w]] \in Nat /\ n \in Nat
            BY <5>1, <1>t
          <6> QED
            BY <6>1, <5>1, <3>2
        <5> QED
          BY <5>1, <5>2, <2>1
      <4> QED
        BY <4>1, <4>2, <1>s
    <3>3. dist[w] <= n \/ dist[w] = n + 1
      <4>1. dist[w] \in Nat /\ n \in Nat
        BY <1>t
      <4> QED
        BY <4>1, <2>4
    <3> QED
      BY <3>1, <3>2, <3>3
  <2> QED
    BY <2>2, <2>3, <2>4
<1>3. I = Nat
  <2>1. I \in SUBSET Nat
    OBVIOUS
  <2> HIDE DEF I
  <2> QED
    BY <1>1, <1>2, <2>1, Induction
<1> QED
  BY <1>3

(* A node can be reached if and only if it was found, and the distance is   *)
(* the number of hops.                                                      *)
LEMMA DistIsHops ==
  ASSUME TypeOK, LocallyShortest, QueryInv, pc \in {"query", "done"}, NEW v \in Nodes
  PROVE  /\ v \in Reachable <=> Found(v)
         /\ Found(v) => Hops(v) = dist[v] /\ dist[v] \in 0..NumNodes
<1> USE OSPFAssumption
<1>1. dist[v] \in 0..INF /\ (Found(v) => dist[v] <= NumNodes) /\ NumNodes \in 0..NumNodes
  BY DEF TypeOK, QueryInv
<1>2. \A k \in 0..NumNodes : v \in Within[k] <=> dist[v] <= k
  BY WithinIsDist
<1>3. v \in Reachable <=> Found(v)
  BY <1>1, <1>2 DEF Reachable, Found
<1>4. ASSUME Found(v)
      PROVE  Hops(v) = dist[v]
  <2> DEFINE First(k) == v \in Within[k] /\ \A j \in 0..k - 1 : v \notin Within[j]
  <2>1. dist[v] \in 0..NumNodes
    BY <1>1, <1>4
  <2>2. First(dist[v])
    BY <1>2, <2>1
  <2>3. ASSUME NEW k \in 0..NumNodes, First(k)
        PROVE  k = dist[v]
    <3>1. dist[v] <= k
      BY <1>2, <2>3
    <3>2. ~(dist[v] < k)
      <4>1. dist[v] < k => dist[v] \in 0..k - 1
        BY <2>1
      <4> QED
        BY <4>1, <2>1, <2>3, <1>2
    <3> QED
      BY <3>1, <3>2, <2>1
  <2>4. Hops(v) = CHOOSE k \in 0..NumNodes : First(k)
    BY DEF Hops
  <2> HIDE DEF First
  <2> QED
    BY <2>1, <2>2, <2>3, <2>4
<1> QED
  BY <1>1, <1>3, <1>4

(* The walk back is one hop nearer to the root with every step, ends there, *)
(* and leaves it for nowhere.                                               *)
LEMMA WalkIsAPath ==
  ASSUME TypeOK, LocallyShortest, QueryInv, pc \in {"query", "done"},
         NEW v \in Nodes, Found(v)
  PROVE  \A k \in 0..NumNodes :
           IF k <= dist[v] THEN /\ Walk(v)[k] \in Nodes /\ Found(Walk(v)[k])
                                /\ dist[Walk(v)[k]] = dist[v] - k
                           ELSE Walk(v)[k] = UNDEFINED
<1> USE OSPFAssumption
<1> DEFINE back == Walk(v)
           OnPath(k) == IF k <= dist[v] THEN back[k] \in Nodes /\ Found(back[k])
                                             /\ dist[back[k]] = dist[v] - k
                                        ELSE back[k] = UNDEFINED
           I == {n \in Nat : n <= NumNodes => OnPath(n)}
<1>t. /\ \A w \in Nodes : dist[w] \in Nat
      /\ NumNodes \in Nat /\ dist[v] \in Nat /\ previous[rootIdx] = UNDEFINED
  BY DEF TypeOK, QueryInv
<1>s. /\ dist[rootIdx] = 0
      /\ \A w \in Nodes \ {rootIdx} : Found(w) =>
           previous[w] \in Nodes /\ dist[w] = dist[previous[w]] + 1
  BY DEF LocallyShortest
<1>w. /\ back[0] = v
      /\ \A k \in 0..NumNodes : k # 0 =>
           back[k] = IF back[k - 1] = UNDEFINED THEN UNDEFINED ELSE previous[back[k - 1]]
  <2>1. 0 \in 0..NumNodes
    BY <1>t
  <2>2. back = [k \in 0..NumNodes |->
           IF k = 0 THEN v
           ELSE IF back[k - 1] = UNDEFINED THEN UNDEFINED ELSE previous[back[k - 1]]]
    BY WalkUnfolded
  <2> HIDE DEF back
  <2> QED
    BY <2>1, <2>2
<1> HIDE DEF back
<1>f. \A w \in Nodes : dist[w] < dist[v] => Found(w)
  <2>1. \A w \in Nodes : dist[w] \in 0..INF
    BY DEF TypeOK
  <2> QED
    BY <2>1 DEF Found
<1>1. 0 \in I
  BY <1>t, <1>w
<1>2. ASSUME NEW n \in I
      PROVE  n + 1 \in I
  <2> SUFFICES ASSUME n + 1 <= NumNodes
               PROVE  OnPath(n + 1)
    OBVIOUS
  <2>1. n \in Nat /\ n + 1 \in 0..NumNodes /\ n + 1 # 0 /\ (n + 1) - 1 = n /\ n <= NumNodes
    BY <1>t
  <2>2. OnPath(n)
    BY <2>1
  <2>3. back[n + 1] = IF back[n] = UNDEFINED THEN UNDEFINED ELSE previous[back[n]]
    BY <1>w, <2>1
  <2>n. \A w \in Nodes : w # UNDEFINED
    BY NodesFinite DEF Nodes, UNDEFINED
  <2>4. CASE n > dist[v]
    BY <2>1, <2>2, <2>3, <2>4, <1>t
  <2>5. CASE n = dist[v]
    <3>1. back[n] \in Nodes /\ Found(back[n]) /\ dist[back[n]] = 0
      BY <2>1, <2>2, <2>5, <1>t
    <3>2. back[n] = rootIdx
      <4> SUFFICES ASSUME back[n] # rootIdx PROVE FALSE
        OBVIOUS
      <4>1. previous[back[n]] \in Nodes /\ dist[back[n]] = dist[previous[back[n]]] + 1
        BY <3>1, <1>s
      <4>2. dist[previous[back[n]]] \in Nat
        BY <4>1, <1>t
      <4> QED
        BY <4>1, <4>2, <3>1
    <3>3. back[n + 1] = UNDEFINED
      BY <2>3, <3>2, <1>t
    <3> QED
      BY <3>3, <2>1, <2>5, <1>t
  <2>6. CASE n < dist[v]
    <3>1. back[n] \in Nodes /\ Found(back[n]) /\ dist[back[n]] = dist[v] - n
      BY <2>1, <2>2, <2>6, <1>t
    <3>2. back[n] # rootIdx
      BY <3>1, <2>1, <2>6, <1>s, <1>t
    <3>3. back[n + 1] \in Nodes /\ dist[back[n]] = dist[back[n + 1]] + 1
      BY <2>3, <2>n, <3>1, <3>2, <1>s
    <3>4. dist[back[n + 1]] \in Nat
      BY <3>3, <1>t
    <3>5. dist[back[n + 1]] = dist[v] - (n + 1)
      BY <3>1, <3>3, <3>4, <2>1, <1>t
    <3>6. Found(back[n + 1])
      BY <3>3, <3>4, <3>5, <2>1, <1>t, <1>f
    <3> QED
      BY <3>3, <3>5, <3>6, <2>1, <2>6, <1>t
  <2> QED
    BY <2>1, <2>4, <2>5, <2>6, <1>t
<1>3. I = Nat
  <2>1. I \in SUBSET Nat
    OBVIOUS
  <2> HIDE DEF I
  <2> QED
    BY <1>1, <1>2, <2>1, Induction
<1> QED
  BY <1>3 DEF back

(* So query stops at the root, after as many steps as the distance, and the *)
(* node before it is a neighbour of the root.                               *)
LEMMA QueryFound ==
  ASSUME TypeOK, LocallyShortest, QueryInv, pc \in {"query", "done"},
         NEW v \in Nodes \ {rootIdx}, Found(v)
  PROVE  /\ Query(v).distance = dist[v]
         /\ Query(v).nextHop \in 0..NumNodes
         /\ \E n \in Nodes : nodeList[n] = Query(v).nextHop /\ <<rootIdx, n>> \in matrix
<1> USE OSPFAssumption
<1> DEFINE steps == {k \in 1..NumNodes : Walk(v)[k] = rootIdx}
           first == Walk(v)[dist[v] - 1]
<1>t. /\ \A w \in Nodes : dist[w] \in Nat /\ w # UNDEFINED
      /\ NumNodes \in Nat /\ dist[v] \in Nat /\ rootIdx \in Nodes /\ dist[v] <= NumNodes
  BY NodesFinite DEF TypeOK, QueryInv, Nodes, UNDEFINED
<1>s. /\ dist[rootIdx] = 0
      /\ \A w \in Nodes \ {rootIdx} : Found(w) =>
           /\ previous[w] \in Nodes /\ <<previous[w], w>> \in matrix
           /\ dist[w] = dist[previous[w]] + 1
  BY DEF LocallyShortest
<1>p. \A k \in 0..NumNodes :
           IF k <= dist[v] THEN /\ Walk(v)[k] \in Nodes /\ Found(Walk(v)[k])
                                /\ dist[Walk(v)[k]] = dist[v] - k
                           ELSE Walk(v)[k] = UNDEFINED
  BY WalkIsAPath
<1>0. \A w \in Nodes : Found(w) /\ dist[w] = 0 => w = rootIdx
  <2> SUFFICES ASSUME NEW w \in Nodes \ {rootIdx}, Found(w), dist[w] = 0 PROVE FALSE
    OBVIOUS
  <2>1. previous[w] \in Nodes /\ dist[w] = dist[previous[w]] + 1
    BY <1>s
  <2>2. dist[previous[w]] \in Nat
    BY <2>1, <1>t
  <2> QED
    BY <2>1, <2>2
<1>1. dist[v] \in 1..NumNodes
  <2>1. dist[v] # 0
    BY <1>0
  <2> QED
    BY <2>1, <1>t
<1>2. steps = {dist[v]}
  <2>1. ASSUME NEW k \in 1..NumNodes
        PROVE  Walk(v)[k] = rootIdx <=> k = dist[v]
    <3>1. k \in 0..NumNodes /\ k \in Nat
      BY <1>t
    <3>2. CASE k < dist[v]
      <4>1. dist[Walk(v)[k]] = dist[v] - k
        BY <3>1, <3>2, <1>p, <1>t
      <4> QED
        BY <4>1, <3>1, <3>2, <1>s, <1>t
    <3>3. CASE k = dist[v]
      BY <3>1, <3>3, <1>p, <1>0, <1>t
    <3>4. CASE k > dist[v]
      BY <3>1, <3>4, <1>p, <1>t
    <3> QED
      BY <3>1, <3>2, <3>3, <3>4, <1>t
  <2> QED
    BY <2>1, <1>1
<1>3. Query(v) = [nextHop |-> nodeList[first], distance |-> dist[v]]
  <2>1. Query(v) = IF steps = {} THEN [nextHop |-> nodeList[v], distance |-> -1]
                   ELSE LET k == CHOOSE k \in steps : TRUE
                        IN [nextHop |-> nodeList[Walk(v)[k - 1]], distance |-> k]
    BY DEF Query
  <2>2. (CHOOSE k \in steps : TRUE) = dist[v] /\ steps # {}
    <3> HIDE DEF steps
    <3> QED
      BY <1>2
  <2> HIDE DEF steps
  <2> QED
    BY <2>1, <2>2
<1>4. first \in Nodes /\ Found(first) /\ dist[first] = 1
  <2>1. dist[v] - 1 \in 0..NumNodes /\ dist[v] - 1 <= dist[v] /\ dist[v] - (dist[v] - 1) = 1
    BY <1>1
  <2> QED
    BY <2>1, <1>p
<1> HIDE DEF first
<1>5. <<rootIdx, first>> \in matrix
  <2>1. previous[first] \in Nodes /\ <<previous[first], first>> \in matrix
        /\ dist[first] = dist[previous[first]] + 1
    BY <1>4, <1>s
  <2>2. dist[previous[first]] = 0
    BY <2>1, <1>4, <1>t
  <2>3. Found(previous[first])
    BY <2>2 DEF Found
  <2> QED
    BY <2>1, <2>2, <2>3, <1>0
<1>6. nodeList[first] \in 0..NumNodes
  <2>1. nodeList[first] \in Nat /\ nodeList[first] <= NumNodes
    BY <1>4 DEF TypeOK, QueryInv
  <2> QED
    BY <2>1, <1>t
<1> QED
  BY <1>3, <1>4, <1>5, <1>6

LEMMA QueriesShortest ==
  ASSUME TypeOK, LocallyShortest, QueryInv
  PROVE  QueriesAreShortest
<1> SUFFICES ASSUME pc = "query", NEW v \in Nodes \ {rootIdx}
             PROVE  IF v \in Reachable
                    THEN /\ dist[v] = Hops(v)
                         /\ Query(v).distance = Hops(v)
                         /\ \E n \in Nodes :
                              nodeList[n] = Query(v).nextHop /\ <<rootIdx, n>> \in matrix
                    ELSE dist[v] = INF
  BY DEF QueriesAreShortest
<1>1. (v \in Reachable <=> Found(v)) /\ (Found(v) => Hops(v) = dist[v])
  BY DistIsHops
<1>2. Found(v) => /\ Query(v).distance = dist[v]
                  /\ \E n \in Nodes : nodeList[n] = Query(v).nextHop /\ <<rootIdx, n>> \in matrix
  BY QueryFound
<1> QED
  BY <1>1, <1>2 DEF Found

(* The nearest of the results exist, and so does the highest next hop.      *)
LEMMA ChoiceIsNearest ==
  ASSUME TypeOK, LocallyShortest, QueryInv, pc \in {"query", "done"},
         owners # {}, owners \subseteq Reachable
  PROVE  \E o \in owners : /\ Choice = Query(o).nextHop
                           /\ \A p \in owners : Hops(o) <= Hops(p)
<1> DEFINE results == {Query(target) : target \in owners}
           nearest == Nearest(results)
           Highest(r) == \A s \in nearest : r.nextHop >= s.nextHop
<1>1. \A o \in owners : /\ Query(o).distance = Hops(o) /\ Hops(o) \in Nat
                        /\ Query(o).nextHop \in 0..NumNodes
  <2> SUFFICES ASSUME NEW o \in owners
               PROVE  /\ Query(o).distance = Hops(o) /\ Hops(o) \in Nat
                      /\ Query(o).nextHop \in 0..NumNodes
    OBVIOUS
  <2>1. o \in Nodes \ {rootIdx} /\ o \in Reachable
    BY DEF TypeOK, QueryInv
  <2>2. Found(o) /\ Hops(o) = dist[o] /\ dist[o] \in 0..NumNodes
    BY <2>1, DistIsHops
  <2>3. Query(o).distance = dist[o] /\ Query(o).nextHop \in 0..NumNodes
    BY <2>1, <2>2, QueryFound
  <2> QED
    BY <2>2, <2>3
<1>2. PICK o \in owners : \A p \in owners : Hops(o) <= Hops(p)
  <2> DEFINE H == {Hops(p) : p \in owners}
  <2>1. H \in SUBSET Nat /\ H # {}
    BY <1>1
  <2>2. PICK n \in H : \A m \in H : n <= m
    <3> HIDE DEF H
    <3> QED
      BY <2>1, LeastElement
  <2> QED
    BY <2>2
<1>3. Query(o) \in nearest
  BY <1>1, <1>2 DEF Nearest
<1>4. \A r \in nearest : \E p \in owners : r = Query(p) /\ \A q \in owners : Hops(p) <= Hops(q)
  BY <1>1 DEF Nearest
<1>5. PICK r \in nearest : Highest(r)
  <2> DEFINE B == {NumNodes - s.nextHop : s \in nearest}
  <2>1. \A s \in nearest : s.nextHop \in 0..NumNodes
    BY <1>1, <1>4
  <2>2. NumNodes \in Nat
    BY OSPFAssumption
  <2>3. B \in SUBSET Nat /\ B # {}
    <3>1. \A s \in nearest : NumNodes - s.nextHop \in Nat
      BY <2>1, <2>2
    <3> HIDE DEF nearest
    <3> QED
      BY <3>1, <1>3
  <2>4. PICK n \in B : \A m \in B : n <= m
    <3> HIDE DEF B
    <3> QED
      BY <2>3, LeastElement
  <2>5. PICK s \in nearest : n = NumNodes - s.nextHop
    BY <2>4
  <2>6. ASSUME NEW x \in nearest
        PROVE  s.nextHop >= x.nextHop
    <3>1. NumNodes - s.nextHop <= NumNodes - x.nextHop
      BY <2>4, <2>5
    <3>2. s.nextHop \in 0..NumNodes /\ x.nextHop \in 0..NumNodes
      BY <2>1
    <3> QED
      BY <3>1, <3>2, <2>2
  <2> QED
    BY <2>6
<1>6. Choice = (CHOOSE x \in nearest : Highest(x)).nextHop
  BY DEF Choice
<1>7. (CHOOSE x \in nearest : Highest(x)) \in nearest
  <2> HIDE DEF Highest, nearest
  <2> QED
    BY <1>5
<1> QED
  BY <1>4, <1>6, <1>7

LEMMA QueryInvariant == Spec => [](IInv /\ QueryInv)
<1>1. IInv /\ QueryInv /\ [Next]_vars => (IInv /\ QueryInv)'
  BY NextIInv, NextQueryInv
<1>2. Init => IInv /\ QueryInv
  BY InitIInv, InitQueryInv
<1> QED
  BY <1>1, <1>2, PTL DEF Spec

(* Every distance that doOSPF leaves is the number of hops, INF for what    *)
(* cannot be reached, and query walks back along previous to a neighbour of *)
(* the root that begins a shortest path.                                    *)
THEOREM QueriesAreShortestHolds == Spec => []QueriesAreShortest
<1>1. IInv /\ QueryInv => QueriesAreShortest
  BY QueriesShortest DEF IInv
<1> QED
  BY <1>1, QueryInvariant, PTL

(* getRoutingInfo answers with the first hop to an owner that is at least   *)
(* as near as every other.                                                  *)
THEOREM NearestOwnerHolds == Spec => []NearestOwner
<1>1. IInv /\ QueryInv => NearestOwner
  <2> SUFFICES ASSUME IInv, QueryInv, pc = "done", owners # {}, owners \subseteq Reachable
               PROVE  \E o \in owners : /\ answer = Query(o).nextHop
                                        /\ \A p \in owners : Hops(o) <= Hops(p)
    BY DEF NearestOwner
  <2>1. TypeOK /\ LocallyShortest /\ pc \in {"query", "done"} /\ answer = Choice
    BY DEF IInv, QueryInv
  <2> QED
    BY <2>1, ChoiceIsNearest
<1> QED
  BY <1>1, QueryInvariant, PTL
=============================================================================
