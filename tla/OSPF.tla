-------------------------------- MODULE OSPF --------------------------------
(***************************************************************************)
(* Where is an object (project2/src): getRoutingInfo makes a matrix of the  *)
(* nodes it has heard of, updateShortestPath runs Dijkstra's algorithm from *)
(* this node (OSPF.c), query walks back along the paths it has found, and   *)
(* the next hop to the nearest owner is the answer given to Flask.          *)
(*                                                                         *)
(* A node is its index in nodeList.  An iteration of doOSPF is an action.   *)
(*                                                                         *)
(* new_u of doOSPF is not initialized: it is whatever its stack slot holds, *)
(* an index of the arrays or not (NumNodes stands for all that are not).    *)
(***************************************************************************)
EXTENDS Integers, FiniteSets

CONSTANTS
  NumNodes,      \* numNode, of the nodes that are up and not expired
  INF,           \* 65535
  NULL

ASSUME OSPFAssumption == NumNodes \in Nat \ {0} /\ INF \in Nat /\ NumNodes < INF

UNDEFINED == -1

Nodes == 0..NumNodes - 1

VARIABLES
  matrix,        \* the pairs of nodes that are connected
  nodeList,      \* the ID of each node
  rootIdx,       \* this node
  owners,        \* queryList: the nodes whose LSA names the object
  dist, previous, removedNodes, numRemaining,
  u, new_u,
  pc,            \* "loop" in doOSPF, "query" behind it, "done"; "undefined"
  answer         \* nextID, NULL when nobody owns the object

inputs == <<matrix, nodeList, rootIdx, owners>>
vars == <<inputs, dist, previous, removedNodes, numRemaining, u, new_u, pc, answer>>

-----------------------------------------------------------------------------
(* setMatrixConnected for each link that a node announces; a node is        *)
(* connected to itself.  Where the link leads to a node that is not listed, *)
(* idx2 is not initialized and has what the call before has left there: the *)
(* link before it of the same node, or the node itself.                     *)
Connected(links) ==
  {e \in Nodes \X Nodes : e[1] = e[2] \/ e[2] \in links[e[1]] \/ e[1] \in links[e[2]]}

Matrices == {Connected(links) : links \in [Nodes -> SUBSET Nodes]}

(* IDs matter only by their order.                                          *)
NodeLists == {list \in [Nodes -> 1..NumNodes] : \A v, w \in Nodes : v # w => list[v] # list[w]}

(* What this node owns itself is answered before.                           *)
Init ==
  /\ matrix \in Matrices /\ nodeList \in NodeLists
  /\ rootIdx \in Nodes /\ owners \in SUBSET (Nodes \ {rootIdx})
  /\ dist = [v \in Nodes |-> IF v = rootIdx THEN 0 ELSE INF]
  /\ previous = [v \in Nodes |-> UNDEFINED]
  /\ removedNodes = {} /\ numRemaining = NumNodes
  /\ u = rootIdx /\ new_u \in 0..NumNodes
  /\ pc = "loop" /\ answer = NULL

-----------------------------------------------------------------------------
(* doOSPF *)

LoopAgain == numRemaining > 0

IsNeighbor(v) == v \notin removedNodes \cup {u} /\ <<u, v>> \in matrix

Alt == dist[u] + 1

RelaxedDistAlways ==         \* mutant: alt is not compared
  [v \in Nodes |-> IF IsNeighbor(v) THEN Alt ELSE dist[v]]

RelaxedDist == [v \in Nodes |-> IF IsNeighbor(v) /\ Alt < dist[v] THEN Alt ELSE dist[v]]

RelaxedPreviousFirst ==      \* mutant: without the test on the IDs
  [v \in Nodes |-> IF IsNeighbor(v) /\ Alt < dist[v] THEN u ELSE previous[v]]

(* Of two ways of the same length, the one over the lower ID.               *)
RelaxedPrevious ==
  [v \in Nodes |->
     IF /\ IsNeighbor(v)
        /\ \/ Alt < dist[v]
           \/ Alt = dist[v] /\ nodeList[u] < nodeList[previous[v]]
     THEN u ELSE previous[v]]

(* v has the least distance of S, and the lowest index of those.            *)
IsLeast(v, S) ==
  \A w \in S : RelaxedDist[v] < RelaxedDist[w] \/ (RelaxedDist[v] = RelaxedDist[w] /\ v <= w)

Candidates == {v \in Nodes \ (removedNodes \cup {u}) : RelaxedDist[v] < INF}

(* Where there is no candidate, new_u stays what it was.                    *)
Iterate ==
  /\ pc = "loop" /\ LoopAgain
  /\ u \in Nodes /\ dist[u] # INF
  /\ removedNodes' = removedNodes \cup {u}
  /\ numRemaining' = numRemaining - 1
  /\ dist' = RelaxedDist /\ previous' = RelaxedPrevious
  /\ \/ Candidates = {} /\ new_u' = new_u
     \/ \E v \in Candidates : IsLeast(v, Candidates) /\ new_u' = v
  /\ u' = new_u'
  /\ UNCHANGED <<inputs, pc, answer>>

Finish ==
  /\ pc = "loop"
  /\ ~LoopAgain \/ (u \in Nodes /\ dist[u] = INF)
  /\ pc' = "query"
  /\ UNCHANGED <<inputs, dist, previous, removedNodes, numRemaining, u, new_u, answer>>

(* dist[u] lies outside of the array: when it is INF by chance the loop     *)
(* ends, else the memory behind removedNodes is written.                    *)
LeaveArray ==
  /\ pc = "loop" /\ LoopAgain /\ u \notin Nodes
  /\ pc' \in {"query", "undefined"}
  /\ UNCHANGED <<inputs, dist, previous, removedNodes, numRemaining, u, new_u, answer>>

-----------------------------------------------------------------------------
(* query, and the choice of getRoutingInfo *)

(* The node that is k steps back from the target.                           *)
Walk(target) ==
  LET back[k \in 0..NumNodes] ==
        IF k = 0 THEN target
        ELSE IF back[k - 1] = UNDEFINED THEN UNDEFINED ELSE previous[back[k - 1]]
  IN back

(* Next hop and distance; -1 for no route, and the target itself for the    *)
(* next hop, which query has then not written.                              *)
Query(target) ==
  LET back  == Walk(target)
      steps == {k \in 1..NumNodes : back[k] = rootIdx}
  IN IF steps = {}
     THEN [nextHop |-> nodeList[target], distance |-> -1]
     ELSE LET k == CHOOSE k \in steps : TRUE
          IN [nextHop |-> nodeList[back[k - 1]], distance |-> k]

NearestAny(results) == results      \* mutant: minDistance is not compared

Nearest(results) == {r \in results : \A s \in results : r.distance <= s.distance}

(* Of the nearest, the one with the highest ID of its next hop.             *)
Answer ==
  /\ pc = "query" /\ pc' = "done"
  /\ LET nearest == Nearest({Query(target) : target \in owners})
     IN answer' = IF owners = {} THEN NULL
                  ELSE (CHOOSE r \in nearest : \A s \in nearest : r.nextHop >= s.nextHop).nextHop
  /\ UNCHANGED <<inputs, dist, previous, removedNodes, numRemaining, u, new_u>>

-----------------------------------------------------------------------------
Next == Iterate \/ Finish \/ LeaveArray \/ Answer

Spec == Init /\ [][Next]_vars

-----------------------------------------------------------------------------
(* Properties *)

(* The values the variables may take.                                       *)
TypeOK ==
  /\ matrix \subseteq Nodes \X Nodes
  /\ nodeList \in [Nodes -> Nat]
  /\ rootIdx \in Nodes /\ owners \subseteq Nodes
  /\ dist \in [Nodes -> 0..INF]
  /\ previous \in [Nodes -> Nodes \cup {UNDEFINED}]
  /\ removedNodes \subseteq Nodes /\ numRemaining \in 0..NumNodes
  /\ u \in 0..NumNodes /\ new_u \in 0..NumNodes
  /\ pc \in {"loop", "query", "done", "undefined"}

Found(v) == dist[v] # INF

(* When doOSPF has ended, no edge is shorter than the distances found, and  *)
(* each node hangs on that of its nearer neighbours which has the lowest    *)
(* ID, whatever the order of the list and the first value of new_u.         *)
LocallyShortest ==
  pc \in {"query", "done"} =>
    /\ dist[rootIdx] = 0
    /\ \A v, w \in Nodes : Found(v) /\ <<v, w>> \in matrix => dist[w] <= dist[v] + 1
    /\ \A v \in Nodes \ {rootIdx} : Found(v) =>
         /\ previous[v] \in Nodes
         /\ <<previous[v], v>> \in matrix /\ dist[v] = dist[previous[v]] + 1
         /\ \A w \in Nodes : <<w, v>> \in matrix /\ dist[v] = dist[w] + 1 =>
              nodeList[previous[v]] <= nodeList[w]

(* The nodes within k hops of the root, and the hops to a node.             *)
Within ==
  LET within[k \in 0..NumNodes] ==
        IF k = 0 THEN {rootIdx}
        ELSE {w \in Nodes : \E v \in within[k - 1] : <<v, w>> \in matrix}
  IN within

Reachable == Within[NumNodes]

Hops(v) == CHOOSE k \in 0..NumNodes : v \in Within[k] /\ \A j \in 0..k - 1 : v \notin Within[j]

(* The distances are the lengths of shortest paths, and query finds a first *)
(* hop on one of them: it never walks round in a circle.                    *)
QueriesAreShortest ==
  pc = "query" =>
    \A v \in Nodes \ {rootIdx} :
      IF v \in Reachable
      THEN /\ dist[v] = Hops(v)
           /\ Query(v).distance = Hops(v)
           /\ \E n \in Nodes : nodeList[n] = Query(v).nextHop /\ <<rootIdx, n>> \in matrix
      ELSE dist[v] = INF

(* Where all owners can be reached, the answer is the first hop to one than *)
(* which no owner is nearer.                                                *)
NearestOwner ==
  pc = "done" /\ owners # {} /\ owners \subseteq Reachable =>
    \E o \in owners : /\ answer = Query(o).nextHop
                      /\ \A p \in owners : Hops(o) <= Hops(p)
=============================================================================
