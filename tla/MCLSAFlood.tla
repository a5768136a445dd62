----------------------------- MODULE MCLSAFlood -----------------------------
(***************************************************************************)
(* The networks of LSAFlood that TLC tries.                                 *)
(***************************************************************************)
EXTENDS LSAFlood

Scenario(links, settled, empty, cycles, files, restarts, downs, losses, maxPool) ==
  [nbr |-> [n \in Node |-> {m \in Node : {n, m} \in links}], settled |-> settled,
   resFile |-> [n \in Node |-> IF n \in empty THEN {} ELSE {0}],
   cycles |-> [n \in Node |-> IF n \in cycles THEN 1 ELSE 0],
   files |-> [n \in Node |-> IF n \in files THEN 1 ELSE 0], restarts |-> restarts,
   downs |-> downs, losses |-> losses, maxPool |-> maxPool]

Line == {{1, 2}, {2, 3}}
Ring == {{1, 2}, {2, 3}, {1, 3}}

(* A start, also with a daemon without objects, which is found down; an     *)
(* advertisement and a datagram lost on the way; an object added while a    *)
(* cycle ends; a neighbour found down, in a line and in a ring; restarts at *)
(* an end of the line, in the middle while an object is added, and in a     *)
(* ring.                                                                    *)
MCScenarios ==
  {Scenario(Line, FALSE, {}, {}, {}, {}, {}, 0, 0),
   Scenario(Line, FALSE, {3}, {}, {}, {}, {<<2, 3>>}, 0, 2),
   Scenario(Ring, TRUE, {}, {1}, {}, {}, {}, 1, 0),
   Scenario(Line, TRUE, {}, {1}, {1}, {}, {}, 0, 0),
   Scenario(Line, TRUE, {}, {1}, {}, {}, {<<2, 1>>}, 1, 2),
   Scenario(Line, TRUE, {}, {}, {1}, {}, {<<2, 3>>}, 0, 2),
   Scenario(Ring, TRUE, {}, {1}, {}, {}, {<<1, 2>>}, 1, 0),
   Scenario(Line, TRUE, {}, {1, 2}, {}, {3}, {}, 0, 0),
   Scenario(Line, TRUE, {}, {}, {1}, {2}, {}, 0, 0),
   Scenario(Ring, TRUE, {}, {}, {}, {1}, {}, 0, 0)}
=============================================================================
