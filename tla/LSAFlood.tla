------------------------------ MODULE LSAFlood ------------------------------
(***************************************************************************)
(* The routing daemons of project 2 (routingTable.c, with the UDP half of   *)
(* connHandler.c): link-state advertisements with sequence numbers, flooded *)
(* to the neighbours, acknowledged, retransmitted; neighbours that do not   *)
(* acknowledge are down; a daemon that restarts catches up.                 *)
(*                                                                         *)
(* A daemon is one thread.  A round reads a datagram if there is one,       *)
(* advertises, retransmits and expires when the clock says so, and writes   *)
(* its list if the list was not empty before the round.  Only datagrams     *)
(* connect the daemons, and a round in which nothing was read and no time   *)
(* has come changes nothing; so each of these is an action, at any time.    *)
(*                                                                         *)
(* list is a set: it is written as a whole.  isDown and isExpired are left  *)
(* out, since only getRoutingInfo reads them.                               *)
(*                                                                         *)
(* A daemon without objects dies before it has sent anything (IsDead).  A    *)
(* line of a resource file of which the name reads as empty, which another  *)
(* ADDFILE may write and a restart load, kills it as well: left out, by the  *)
(* assumption that a daemon that restarts is given one object at most.      *)
(***************************************************************************)
EXTENDS Integers, Sequences, FiniteSets

CONSTANTS
  Node,
  Scenarios,     \* the networks, and the bounds on what happens to them
  InitTTL,       \* 32
  NULL

(* The neighbours in the configuration of each node; whether the daemons    *)
(* have run for long, or are being started; what is in the resource files;  *)
(* how many cycles end at a node, and how many objects Flask adds there;    *)
(* who restarts, which neighbour may be found down by whom; how many        *)
(* datagrams get lost; and up to which size an ackPool is retransmitted     *)
(* although nothing was lost.                                               *)
ScenarioType ==
  [nbr : [Node -> SUBSET Node], settled : BOOLEAN, resFile : [Node -> SUBSET Nat],
   cycles : [Node -> Nat], files : [Node -> Nat],
   restarts : SUBSET Node, downs : SUBSET (Node \X Node), losses : Nat, maxPool : Nat]

LSAs == [sender : Node, seq : Nat, TTL : 0..InitTTL, links : SUBSET Node, objs : SUBSET Nat]
Packets == [type : {"LSA", "ACK"}, from : Node, to : Node, lsa : LSAs]

(* A settled network is one in which no node is further than two hops away, *)
(* and none is dead.                                                        *)
ASSUME FloodAssumption ==
  /\ Scenarios \subseteq ScenarioType
  /\ \A s \in Scenarios : \A n, m \in Node :
       /\ m \in s.nbr[n] => n \in s.nbr[m] /\ n # m
       /\ s.settled => m = n \/ m \in s.nbr[n] \/ s.nbr[n] \cap s.nbr[m] # {}
       /\ s.settled => s.resFile[n] # {}
       /\ n \in s.restarts => s.files[n] <= 1
  /\ InitTTL \in Nat \ {0, 1}
  /\ NULL \notin Int /\ NULL \notin LSAs

ASSUME FiniteNetwork == IsFiniteSet(Node)

DOWN == -1       \* the distance of a neighbour that was found down

(* tRes and resFile.  The objects that were loaded have their names.  The   *)
(* names of those that Flask has added since were freed (flaskADDResponse): *)
(* whenever such a name is read it may be right, or something else, which   *)
(* is nobody's object.                                                      *)
Resources == [loaded : SUBSET Nat, freed : SUBSET Nat, resFile : SUBSET Nat]

(* What the names in a table may read as.                                   *)
Names(res) == {res.loaded \cup right : right \in SUBSET res.freed}

LoadResourceTable(resFile) == [loaded |-> resFile, freed |-> {}, resFile |-> resFile]

(* The file is written again as a whole, the new name freed later.          *)
InsertResource(res, obj) ==
  {[loaded |-> res.loaded, freed |-> res.freed \cup {obj}, resFile |-> written \cup {obj}] :
     written \in Names(res)}

VARIABLES
  scen,          \* the scenario, its numbers counted down
  tRes,          \* the resource table of each node, and its file
  distance,      \* of each entry of the routing tables; NULL where there is none
  lastLSA,
  ackPool,       \* what each node has sent to each neighbour, and has no ACK for
  list,          \* LSAList: what each node will write
  net,           \* the datagrams under way
  restarted,     \* history: the daemons that have restarted
  severed        \* history: <<n, d>>: n has found d down, or removed it

history == <<restarted, severed>>
tables == <<distance, lastLSA, ackPool>>
vars == <<scen, tRes, tables, list, net, history>>

(* loadRoutingTable                                                         *)
ConfiguredDistance(n) ==
  [m \in Node |-> IF m = n THEN 0 ELSE IF m \in scen.nbr[n] THEN 1 ELSE NULL]

(* What a node has of another when nothing happens any more.                *)
SettledLSA(n, m) ==
  [sender |-> m, seq |-> 1, links |-> scen.nbr[m], objs |-> scen.resFile[m],
   TTL |-> IF m \in scen.nbr[n] \cup {n} THEN InitTTL ELSE InitTTL - 1]

Init ==
  /\ scen \in Scenarios
  /\ tRes = [n \in Node |-> LoadResourceTable(scen.resFile[n])]
  /\ distance = [n \in Node |->
       [m \in Node |-> IF scen.settled /\ m \notin scen.nbr[n] \cup {n} THEN 2
                                                                  ELSE ConfiguredDistance(n)[m]]]
  /\ lastLSA = [n \in Node |->
       [m \in Node |-> IF scen.settled THEN SettledLSA(n, m) ELSE NULL]]
  /\ ackPool = [n \in Node |-> [d \in Node |-> << >>]]
  /\ list = [n \in Node |-> {}]
  /\ net = {} /\ restarted = {} /\ severed = {}

-----------------------------------------------------------------------------
(* addLSAWithDest and addLSAWithOneDest: into the list, and the ackPools    *)

Live(dist) == {d \in Node : dist[d] = 1}

Queued(n, dests, lsa) == {[type |-> "LSA", from |-> n, to |-> d, lsa |-> lsa] : d \in dests}

Pooled(pools, dests, lsa) ==
  [d \in Node |-> IF d \in dests THEN Append(pools[d], [lsa |-> lsa, hasRetran |-> FALSE])
                                 ELSE pools[d]]

(* newAdvertisement: the first one, or the next.                            *)
Advertises(n, objs) ==
  LET first == lastLSA[n][n] = NULL
      new   == [sender |-> n,
                seq    |-> IF first THEN 0 ELSE lastLSA[n][n].seq + 1,
                TTL    |-> IF first THEN InitTTL ELSE lastLSA[n][n].TTL,
                links  |-> Live(distance[n]),
                objs   |-> objs]
  IN /\ lastLSA' = [lastLSA EXCEPT ![n][n] = new]
     /\ list' = [list EXCEPT ![n] = @ \cup Queued(n, Live(distance[n]), new)]
     /\ ackPool' = [ackPool EXCEPT ![n] = Pooled(@, Live(distance[n]), new)]
     /\ UNCHANGED <<distance, net, history>>

(* The first advertisement of a daemon without objects: listObj is NULL,    *)
(* copyList reads from it for the first neighbour, and the daemon dies, at   *)
(* the latest in the round in which it reads its first datagram.  Nothing   *)
(* is ever written.                                                         *)
IsDead(n) == lastLSA[n][n] = NULL /\ tRes[n].loaded = {} /\ Live(distance[n]) # {}

(* getLSAFromRoutingTable advertises what it never has, and when a cycle    *)
(* ends.                                                                    *)
NewAdvertisement(n) ==
  /\ ~IsDead(n)
  /\ \/ lastLSA[n][n] = NULL /\ UNCHANGED scen
     \/ /\ lastLSA[n][n] # NULL /\ scen.cycles[n] > 0
        /\ scen' = [scen EXCEPT !.cycles[n] = @ - 1]
  /\ \E objs \in Names(tRes[n]) : Advertises(n, objs)
  /\ UNCHANGED tRes

(* ADDFILE of Flask: the object is inserted, the file written, an           *)
(* advertisement triggered, and the name freed.  (A client is served from   *)
(* the round on after it was accepted, so this node has advertised.)        *)
InsertLocalResource(n) ==
  LET obj == scen.files[n]
  IN /\ lastLSA[n][n] # NULL
     /\ obj > 0 /\ scen' = [scen EXCEPT !.files[n] = @ - 1]
     /\ \E res \in InsertResource(tRes[n], obj) : tRes' = [tRes EXCEPT ![n] = res]
     /\ \E objs \in Names(tRes[n]) : Advertises(n, objs \cup {obj})

-----------------------------------------------------------------------------
(* updateRoutingTableFromLSA *)

(* The round that begins with the first datagram advertises first.          *)
Reads(pkt) ==
  /\ pkt \in net
  /\ lastLSA[pkt.to][pkt.to] # NULL \/ list[pkt.to] = {}
  /\ net' = net \ {pkt}
  /\ UNCHANGED <<scen, tRes, restarted>>

AckedAnySender(pool, lsa) ==     \* mutant: senderID is not compared
  {i \in DOMAIN pool : pool[i].lsa.seq = lsa.seq}

Acked(pool, lsa) ==
  {i \in DOMAIN pool : pool[i].lsa.seq = lsa.seq /\ pool[i].lsa.sender = lsa.sender}

RemoveAt(s, i) == SubSeq(s, 1, i - 1) \o SubSeq(s, i + 1, Len(s))

(* An ACK checks in the first copy.                                         *)
RecvAck(pkt) ==
  LET pool == ackPool[pkt.to][pkt.from]
      hits == Acked(pool, pkt.lsa)
  IN /\ pkt.type = "ACK" /\ Reads(pkt)
     /\ \/ hits = {} /\ UNCHANGED ackPool
        \/ \E i \in hits : /\ \A j \in hits : i <= j
                           /\ ackPool' = [ackPool EXCEPT ![pkt.to][pkt.from] = RemoveAt(pool, i)]
     /\ UNCHANGED <<distance, lastLSA, list, severed>>

(* Any LSA is acknowledged; dist and last are the table behind it, and lsa  *)
(* is sent to dests.                                                        *)
Updates(pkt, dist, last, dests, lsa) ==
  LET n   == pkt.to
      ack == [type |-> "ACK", from |-> n, to |-> pkt.from,
              lsa |-> [pkt.lsa EXCEPT !.links = {}, !.objs = {}]]
  IN /\ Reads(pkt)
     /\ distance' = [distance EXCEPT ![n] = dist]
     /\ lastLSA' = [lastLSA EXCEPT ![n] = last]
     /\ list' = [list EXCEPT ![n] = @ \cup {ack} \cup Queued(n, dests, lsa)]
     /\ ackPool' = [ackPool EXCEPT ![n] = Pooled(@, dests, lsa)]
     /\ severed' = severed \cup {<<n, m>> : m \in {x \in Node : distance[n][x] # dist[x] /\ dist[x] = NULL}}

Stored(pkt) == lastLSA[pkt.to][pkt.lsa.sender]

IsLSA(pkt) == pkt.type = "LSA"
IsZero(pkt) == IsLSA(pkt) /\ pkt.lsa.TTL = 0
IsNew(pkt) == IsLSA(pkt) /\ ~IsZero(pkt) /\ Stored(pkt) = NULL
IsKnown(pkt) == IsLSA(pkt) /\ ~IsZero(pkt) /\ Stored(pkt) # NULL
IsHigherAlways(pkt) == IsKnown(pkt)      \* mutant: the numbers are not compared
IsHigher(pkt) == IsKnown(pkt) /\ Stored(pkt).seq < pkt.lsa.seq
IsSame(pkt) == IsKnown(pkt) /\ Stored(pkt).seq = pkt.lsa.seq
IsLower(pkt) == IsKnown(pkt) /\ Stored(pkt).seq > pkt.lsa.seq
IsMine(pkt) == pkt.lsa.sender = pkt.to

(* Somebody has found the sender down.  It is removed unless it is a        *)
(* neighbour.                                                               *)
RecvZero(pkt) ==
  LET n == pkt.to
      m == pkt.lsa.sender
  IN /\ IsZero(pkt)
     /\ IF distance[n][m] = 2
        THEN Updates(pkt, [distance[n] EXCEPT ![m] = NULL], [lastLSA[n] EXCEPT ![m] = NULL],
                     Live(distance[n]) \ {pkt.from}, pkt.lsa)
        ELSE Updates(pkt, distance[n], lastLSA[n], {}, pkt.lsa)

RecvMineHigherIgnored(pkt) ==    \* mutant: the number is not taken over
  /\ IsMine(pkt) /\ IsHigher(pkt)
  /\ Updates(pkt, distance[pkt.to], lastLSA[pkt.to], {}, pkt.lsa)

(* This node has restarted, and catches up with its number.                 *)
RecvMineHigher(pkt) ==
  /\ IsMine(pkt) /\ IsHigher(pkt)
  /\ Updates(pkt, distance[pkt.to], [lastLSA[pkt.to] EXCEPT ![pkt.to].seq = pkt.lsa.seq],
             {}, pkt.lsa)

(* The neighbour that sends it has restarted: its last LSA is sent back.    *)
RecvLower(pkt) ==
  LET n == pkt.to
      m == pkt.lsa.sender
  IN /\ IsLower(pkt)
     /\ IF m = pkt.from
        THEN Updates(pkt, [distance[n] EXCEPT ![m] = 1], lastLSA[n], {m}, Stored(pkt))
        ELSE Updates(pkt, distance[n], lastLSA[n], {}, pkt.lsa)

OneHopMore(lsa) == [lsa EXCEPT !.TTL = @ + 1]    \* mutant: the other way

OneHopLess(lsa) == [lsa EXCEPT !.TTL = @ - 1]

FloodedLate(pkt, dist) ==        \* mutant: one hop too early
  IF pkt.lsa.TTL > 2 THEN Live(dist) \ {pkt.from} ELSE {}

Flooded(pkt, dist) == IF pkt.lsa.TTL > 1 THEN Live(dist) \ {pkt.from} ELSE {}

RecvNew(pkt) ==
  LET n    == pkt.to
      m    == pkt.lsa.sender
      dist == [distance[n] EXCEPT ![m] = CASE @ = NULL -> 2 [] @ = DOWN -> 1 [] OTHER -> @]
  IN /\ IsNew(pkt)
     /\ Updates(pkt, dist, [lastLSA[n] EXCEPT ![m] = pkt.lsa], Flooded(pkt, dist),
                OneHopLess(pkt.lsa))

RecvHigherUnflooded(pkt) ==      \* mutant: addLSAWithDest is missing
  LET n == pkt.to
  IN /\ IsHigher(pkt) /\ ~IsMine(pkt)
     /\ Updates(pkt, distance[n], [lastLSA[n] EXCEPT ![pkt.lsa.sender] = pkt.lsa], {}, pkt.lsa)

RecvHigher(pkt) ==
  LET n == pkt.to
  IN /\ IsHigher(pkt) /\ ~IsMine(pkt)
     /\ Updates(pkt, distance[n], [lastLSA[n] EXCEPT ![pkt.lsa.sender] = pkt.lsa],
                Flooded(pkt, distance[n]), OneHopLess(pkt.lsa))

RecvSame(pkt) ==
  /\ IsSame(pkt)
  /\ Updates(pkt, distance[pkt.to], lastLSA[pkt.to], {}, pkt.lsa)

Receive(pkt) ==
  \/ RecvAck(pkt) \/ RecvZero(pkt) \/ RecvMineHigher(pkt) \/ RecvLower(pkt)
  \/ RecvNew(pkt) \/ RecvHigher(pkt) \/ RecvSame(pkt)

-----------------------------------------------------------------------------
(* checkNeighborDown, which is called behind newAdvertisement *)

RetransmitMarked(pool, k) ==     \* mutant: retransmits the LSA that was retransmitted
  {i \in 1..k : pool[i].hasRetran}

ToRetransmit(pool, k) == {i \in 1..k : ~pool[i].hasRetran}

Marked(pool, due) ==
  [i \in DOMAIN pool |-> [lsa |-> pool[i].lsa, hasRetran |-> pool[i].hasRetran \/ i \in due]]

UnderWay(n, d, lsa) ==
  \E pkt \in list[n] \cup net \cup list[d] :
    /\ {pkt.from, pkt.to} = {n, d}
    /\ pkt.lsa.sender = lsa.sender /\ pkt.lsa.seq = lsa.seq

(* retranTimeout is over for the first k of a pool: those of them that were *)
(* not are retransmitted, each once, as LSAs of their own.  (While neither  *)
(* the LSA nor its ACK is lost, only until the pool holds maxPool.)         *)
Retransmit(n, d) ==
  /\ lastLSA[n][n] # NULL /\ distance[n][d] = 1
  /\ \E k \in DOMAIN ackPool[n][d] :
       LET pool == ackPool[n][d]
           due  == ToRetransmit(pool, k)
           num  == Cardinality(due)
       IN /\ due # {}
          /\ \/ Len(pool) + num <= scen.maxPool
             \/ \A i \in due : ~UnderWay(n, d, pool[i].lsa)
          /\ \E at \in [1..num -> due] :
               /\ \A i, j \in 1..num : i < j => at[i] < at[j]
               /\ ackPool' = [ackPool EXCEPT ![n][d] =
                    Marked(pool, due) \o [i \in 1..num |-> [lsa |-> pool[at[i]].lsa, hasRetran |-> FALSE]]]
          /\ list' = [list EXCEPT ![n] =
               @ \cup {[type |-> "LSA", from |-> n, to |-> d, lsa |-> pool[i].lsa] : i \in due}]
  /\ UNCHANGED <<scen, tRes, distance, lastLSA, net, history>>

(* compareLSA is 1 for what is equal, and checkNeighborDown looks for 0: it *)
(* finds an LSA or ACK that differs from the one in the pool.               *)
Differs(item, lsa) ==
  \/ item.type = "ACK"
  \/ item.lsa.sender # lsa.sender \/ item.lsa.seq # lsa.seq \/ item.lsa.TTL # lsa.TTL

(* What is removed of a list, one for each LSA of the pool if there is one. *)
RemovedFrom(items, pool) ==
  {pick \in [DOMAIN pool -> items \cup {NULL}] :
     \A i \in DOMAIN pool :
       LET others == {q \in items \ {pick[j] : j \in 1..i - 1} : Differs(q, pool[i].lsa)}
       IN IF others = {} THEN pick[i] = NULL ELSE pick[i] \in others}

(* neighborTimeout is over for the first of a pool, which was retransmitted *)
(* long before.                                                             *)
NeighborDown(n, d) ==
  /\ <<n, d>> \in scen.downs /\ scen' = [scen EXCEPT !.downs = @ \ {<<n, d>>}]
  /\ lastLSA[n][n] # NULL /\ distance[n][d] = 1
  /\ ackPool[n][d] # << >> /\ Head(ackPool[n][d]).hasRetran
  /\ LET dist  == [distance[n] EXCEPT ![d] = DOWN]
         known == lastLSA[n][d] # NULL
         lsa   == IF known THEN [lastLSA[n][d] EXCEPT !.TTL = 0] ELSE NULL
         dests == IF known THEN Live(dist) ELSE {}
     IN /\ distance' = [distance EXCEPT ![n] = dist]
        /\ ackPool' = [ackPool EXCEPT ![n] = Pooled([@ EXCEPT ![d] = << >>], dests, lsa)]
        /\ \E pick \in RemovedFrom(list[n], ackPool[n][d]) :
             list' = [list EXCEPT ![n] =
                        (@ \ {pick[i] : i \in DOMAIN pick}) \cup Queued(n, dests, lsa)]
  /\ severed' = severed \cup {<<n, d>>}
  /\ UNCHANGED <<tRes, lastLSA, net, restarted>>

-----------------------------------------------------------------------------
(* writeConnectionHandler.  An LSA in the list whose object in the ackPool  *)
(* was freed is read after it was freed: it is sent as it was, or not.      *)
Freed(n) ==
  {q \in list[n] : q.type = "LSA" /\ \A i \in DOMAIN ackPool[n][q.to] : ackPool[n][q.to][i].lsa # q.lsa}

Write(n) ==
  /\ list[n] # {} /\ lastLSA[n][n] # NULL
  /\ \E gone \in SUBSET Freed(n) : net' = net \cup (list[n] \ gone)
  /\ list' = [list EXCEPT ![n] = {}]
  /\ UNCHANGED <<scen, tRes, tables, history>>

(* sendto would block, which is not looked at before the LSA is removed, or *)
(* the datagram gets lost.                                                  *)
Lose(pkt) ==
  /\ scen.losses > 0 /\ scen' = [scen EXCEPT !.losses = @ - 1]
  /\ net' = net \ {pkt}
  /\ UNCHANGED <<tRes, tables, list, history>>

(* The daemon is killed, and started again: by hand, so what it had sent    *)
(* itself has arrived by then, or never will.                               *)
Restart(n) ==
  /\ n \in scen.restarts /\ scen' = [scen EXCEPT !.restarts = @ \ {n}]
  /\ \A pkt \in net : pkt.from # n
  /\ distance' = [distance EXCEPT ![n] = ConfiguredDistance(n)]
  /\ lastLSA' = [lastLSA EXCEPT ![n] = [m \in Node |-> NULL]]
  /\ ackPool' = [ackPool EXCEPT ![n] = [d \in Node |-> << >>]]
  /\ list' = [list EXCEPT ![n] = {}]
  /\ tRes' = [tRes EXCEPT ![n] = LoadResourceTable(@.resFile)]
  /\ restarted' = restarted \cup {n}
  /\ UNCHANGED <<net, severed>>

Next ==
  \/ \E n \in Node : NewAdvertisement(n) \/ InsertLocalResource(n) \/ Write(n) \/ Restart(n)
  \/ \E n, d \in Node : Retransmit(n, d) \/ NeighborDown(n, d)
  \/ \E pkt \in net : Receive(pkt) \/ Lose(pkt)

Spec == Init /\ [][Next]_vars

(* select returns every two seconds and each round writes what it can; a    *)
(* datagram that is not lost arrives; the clock reaches retranTimeout.      *)
FairSpec ==
  /\ Spec
  /\ \A n \in Node :
       /\ WF_vars(Write(n)) /\ WF_vars(lastLSA[n][n] = NULL /\ NewAdvertisement(n))
       /\ \A d \in Node : WF_vars(Retransmit(n, d))
       /\ \A from, m \in Node :
            WF_vars(\E pkt \in net : pkt.from = from /\ pkt.to = n /\ pkt.lsa.sender = m /\ Receive(pkt))

-----------------------------------------------------------------------------
(* Properties *)

(* The values the variables may take.                                       *)
TypeOK ==
  /\ scen \in ScenarioType
  /\ tRes \in [Node -> Resources]
  /\ distance \in [Node -> [Node -> {DOWN, 0, 1, 2, NULL}]]
  /\ lastLSA \in [Node -> [Node -> LSAs \cup {NULL}]]
  /\ \A n, d \in Node : ackPool[n][d] \in Seq([lsa : LSAs, hasRetran : BOOLEAN])
  /\ list \in [Node -> SUBSET Packets] /\ net \subseteq Packets
  /\ restarted \subseteq Node /\ severed \subseteq Node \X Node

Has(n, m, seq) == lastLSA[n][m] # NULL /\ lastLSA[n][m].seq >= seq

InPool(n, d, lsa) ==
  \E i \in DOMAIN ackPool[n][d] :
    ackPool[n][d][i].lsa.sender = lsa.sender /\ ackPool[n][d][i].lsa.seq = lsa.seq

(* Flooding is reliable: whatever is lost, and in whatever order numbers    *)
(* arrive, what a node knows its neighbours know as well, or it still waits *)
(* for their ACK and will send it again.  (Not the neighbours it has found  *)
(* down, nor those that have lost their tables, nor of a node that one of   *)
(* the two has found down or was told is down; nor the number that a        *)
(* restarted node has caught up with, nor what came with its last hop,      *)
(* which are not flooded.)                                                  *)
FloodIsReliable ==
  \A n, m \in Node : \A d \in scen.nbr[n] \ restarted :
    /\ <<n, d>> \notin severed /\ <<d, m>> \notin severed /\ <<n, m>> \notin severed
    /\ lastLSA[n][m] # NULL /\ lastLSA[n][m].TTL > 1 /\ ~(m = n /\ n \in restarted)
    => Has(d, m, lastLSA[n][m].seq) \/ InPool(n, d, lastLSA[n][m])

(* An older LSA never replaces a newer one.                                 *)
OlderNeverWins ==
  [][\A n, m \in Node :
       lastLSA[n][m] # NULL /\ lastLSA'[n][m] # NULL => lastLSA'[n][m].seq >= lastLSA[n][m].seq]_vars

Agrees(n, m) ==
  /\ lastLSA[n][m] # NULL /\ lastLSA[m][m] # NULL
  /\ lastLSA[n][m].seq = lastLSA[m][m].seq
  /\ lastLSA[n][m].links = lastLSA[m][m].links
  /\ lastLSA[n][m].objs = lastLSA[m][m].objs

(* The nodes that links connect with m.                                     *)
Connected(m) ==
  {n \in Node : \A S \in SUBSET Node : m \in S /\ (\A x \in S : scen.nbr[x] \subseteq S) => n \in S}

(* While no daemon has restarted and none was found down: when nobody waits *)
(* any more for an ACK of the last LSA of a node, the whole network agrees  *)
(* on that node, on its links and on its objects.  So the TTL is never used *)
(* up before everybody has the LSA, no ACK stands for an LSA that its       *)
(* sender does not have, and no two LSAs of the same number differ.  (In    *)
(* networks of up to InitTTL + 1 daemons: in a longer line the last one is  *)
(* not reached.)                                                            *)
AgreedWhenQuiet ==
  restarted = {} /\ severed = {} /\ Cardinality(Node) <= InitTTL + 1 =>
    \A m \in Node :
      lastLSA[m][m] # NULL /\ (\A x, d \in Node : ~InPool(x, d, lastLSA[m][m]))
        => \A n \in Connected(m) : Agrees(n, m)

Agree == \A n, m \in Node : Agrees(n, m)

NoneIsDead == \A n \in Node : ~IsDead(n)

(* When no daemon restarts, none is found down and none dies for want of an *)
(* object, all tables agree in the end, on the links and on the objects,    *)
(* whatever is lost in between and whichever way ADDFILE and the end of a   *)
(* cycle follow each other.                                                 *)
TablesConverge == [](restarted = {} /\ severed = {} /\ NoneIsDead) => <>[]Agree

(* tests.txt:26: a daemon that was killed and started again catches up: in  *)
(* the end no other has a higher number of it than it has itself, else its  *)
(* next advertisements would be taken for old ones.  (Unless a neighbour is *)
(* yet to be found down after that, or a daemon dies for want of an object.)*)
CatchesUp ==
  [](NoneIsDead /\ (restarted # {} => scen.downs = {}))
    => <>[](\A n, m \in Node : lastLSA[n][m] # NULL => Has(m, m, lastLSA[n][m].seq))
=============================================================================
