----------------------------- MODULE ZmqBridge ------------------------------
(***************************************************************************)
(* The ZeroMQ bridge (project3/src/zmqBridge.c):                            *)
(*   SUB --> UDP1 ("server") --> UDP2 ("client") --> PUB                     *)
(* in one process and one poll loop.  A message read from SUB is cut into   *)
(* pieces; the server sends one piece at a time and waits for its ACK; the  *)
(* client puts the pieces together and hands the whole message to PUB.      *)
(*                                                                         *)
(* A round of startBridge polls once and then runs the handlers of the      *)
(* items that were reported, in a fixed order: what zmq_poll saw may have   *)
(* been changed by an earlier handler of the round when a later one runs.   *)
(*                                                                         *)
(* A message is a sequence of bytes.  Both UDP sockets are on the loopback  *)
(* interface, with at most one datagram on each: they lose nothing.         *)
(* zmq_send is taken to succeed.                                            *)
(***************************************************************************)
EXTENDS Naturals, Sequences

CONSTANTS
  Messages,      \* what publishers may send to SUB
  DataSize,      \* DATASIZE, the bytes of a message in a datagram
  MaxMessages,   \* bound: the messages read from SUB
  NULL           \* a pointer to nothing

Pieces == [id : Nat, allSize : Nat, data : Seq(Nat)]      \* dataPacket
Partials == [size : Nat, data : Seq(Nat)]                 \* dataChunk, of the client

ASSUME BridgeAssumption ==
  /\ \A m \in Messages : m \in Seq(Nat)
  /\ DataSize \in Nat \ {0}
  /\ MaxMessages \in Nat
  /\ NULL \notin Nat /\ NULL \notin Pieces /\ NULL \notin Seq(Pieces) /\ NULL \notin Partials

VARIABLES
  revents,       \* what the poll reported and has not been handled yet
  subq,          \* messages read and not begun
  outDC,         \* the pieces of the current message still to send, or NULL
  waitACK,       \* the piece that waits for its ACK, or NULL
  sendUDP,       \* ACKs in the receive buffer of the server's socket
  recvUDP,       \* pieces in the receive buffer of the client's socket
  inDC,          \* the message that is being put together, or NULL
  outACK,        \* the id to acknowledge, or NULL
  pubq,          \* messages put together and not published
  accepted,      \* history: the messages read from SUB
  published      \* history: the messages handed to PUB

serverVars == <<subq, outDC, waitACK, accepted>>
clientVars == <<inDC, outACK, pubq, published>>
vars == <<revents, serverVars, sendUDP, recvUDP, clientVars>>

Init ==
  /\ revents = {}
  /\ subq = << >> /\ outDC = NULL /\ waitACK = NULL
  /\ sendUDP = << >> /\ recvUDP = << >>
  /\ inDC = NULL /\ outACK = NULL /\ pubq = << >>
  /\ accepted = << >> /\ published = << >>

-----------------------------------------------------------------------------
(* The poll: the items that startBridge asks for and that are ready.        *)

Handlers == {"SUB", "PUB", "SData", "SAck", "CData", "CAck"}

(* The order in which startBridge looks at what was reported.               *)
Place == [SUB |-> 1, PUB |-> 2, SData |-> 3, SAck |-> 4, CData |-> 5, CAck |-> 6]

ReadyWhileWaiting(h) ==     \* mutant: "test && waitACK == NULL" is missing
  CASE h = "SUB"   -> FALSE
    [] h = "PUB"   -> pubq # << >>
    [] h = "SData" -> outDC # NULL \/ subq # << >>
    [] h = "SAck"  -> waitACK # NULL /\ sendUDP # << >>
    [] h = "CData" -> recvUDP # << >>
    [] h = "CAck"  -> outACK # NULL

(* Of the items other than SUB, on which a message may come at any time.    *)
Ready(h) ==
  CASE h = "SUB"   -> FALSE
    [] h = "PUB"   -> pubq # << >>
    [] h = "SData" -> (outDC # NULL \/ subq # << >>) /\ waitACK = NULL
    [] h = "SAck"  -> waitACK # NULL /\ sendUDP # << >>
    [] h = "CData" -> recvUDP # << >>
    [] h = "CAck"  -> outACK # NULL

Poll ==
  /\ revents = {}
  /\ \/ revents' = {h \in Handlers : Ready(h)}
     \/ /\ Len(accepted) < MaxMessages
        /\ revents' = {"SUB"} \cup {h \in Handlers : Ready(h)}
  /\ revents' # {}
  /\ UNCHANGED <<serverVars, sendUDP, recvUDP, clientVars>>

Runs(h) ==
  /\ h \in revents
  /\ \A g \in revents : Place[h] <= Place[g]
  /\ revents' = revents \ {h}

-----------------------------------------------------------------------------
(* The server side *)

HandleSUB ==
  /\ Runs("SUB")
  /\ \E m \in Messages :
       /\ subq' = Append(subq, m)
       /\ accepted' = Append(accepted, m)
  /\ UNCHANGED <<outDC, waitACK, sendUDP, recvUDP, clientVars>>

(* chunkifyDC: full pieces, and a shorter one for what is left over.        *)
NumChunkWhole(m) == Len(m) \div DataSize        \* mutant: what is left over is forgotten

NumChunk(m) ==
  Len(m) \div DataSize + (IF Len(m) % DataSize > 0 THEN 1 ELSE 0)

Piece(m, id) ==
  LET last == id = NumChunk(m) - 1 /\ Len(m) % DataSize > 0
      size == IF last THEN Len(m) % DataSize ELSE DataSize
  IN [id |-> id, allSize |-> Len(m),
      data |-> SubSeq(m, id * DataSize + 1, id * DataSize + size)]

ChunkifyDC(m) == [i \in 1..NumChunk(m) |-> Piece(m, i - 1)]

(* It begins the next message when there is none, and sends the next piece, *)
(* or finds that the message has no more.                                   *)
HandleServerData ==
  /\ Runs("SData")
  /\ IF outDC = NULL /\ subq = << >>
     THEN UNCHANGED <<subq, outDC, waitACK, recvUDP>>
     ELSE LET pieces == IF outDC = NULL THEN ChunkifyDC(Head(subq)) ELSE outDC
          IN /\ subq' = IF outDC = NULL THEN Tail(subq) ELSE subq
             /\ IF waitACK # NULL
                THEN outDC' = pieces /\ UNCHANGED <<waitACK, recvUDP>>
                ELSE IF pieces = << >>
                THEN outDC' = NULL /\ UNCHANGED <<waitACK, recvUDP>>
                ELSE /\ outDC' = Tail(pieces)
                     /\ waitACK' = Head(pieces)
                     /\ recvUDP' = Append(recvUDP, Head(pieces))
  /\ UNCHANGED <<accepted, sendUDP, clientVars>>

HandleServerACKKeeps ==     \* mutant: waitACK = NULL is missing
  /\ Runs("SAck")
  /\ sendUDP # << >>
  /\ sendUDP' = Tail(sendUDP)
  /\ UNCHANGED <<waitACK, subq, outDC, accepted, recvUDP, clientVars>>

(* recvfrom blocks while there is no datagram.                              *)
HandleServerACK ==
  /\ Runs("SAck")
  /\ IF waitACK = NULL
     THEN UNCHANGED <<waitACK, sendUDP>>
     ELSE /\ sendUDP # << >>
          /\ sendUDP' = Tail(sendUDP)
          /\ waitACK' = IF Head(sendUDP) = waitACK.id THEN NULL ELSE waitACK
  /\ UNCHANGED <<subq, outDC, accepted, recvUDP, clientVars>>

-----------------------------------------------------------------------------
(* The client side *)

HandleClientData ==
  /\ Runs("CData")
  /\ recvUDP # << >>
  /\ recvUDP' = Tail(recvUDP)
  /\ LET pkt  == Head(recvUDP)
         dc   == IF inDC = NULL THEN [size |-> pkt.allSize, data |-> << >>] ELSE inDC
         data == dc.data \o pkt.data
     IN /\ outACK' = pkt.id
        /\ IF Len(data) = dc.size
           THEN pubq' = Append(pubq, data) /\ inDC' = NULL
           ELSE inDC' = [size |-> dc.size, data |-> data] /\ UNCHANGED pubq
  /\ UNCHANGED <<serverVars, sendUDP, published>>

HandleClientACKAgain ==     \* mutant: outACK = NULL is missing
  /\ Runs("CAck")
  /\ sendUDP' = IF outACK = NULL THEN sendUDP ELSE Append(sendUDP, outACK)
  /\ UNCHANGED <<outACK, serverVars, recvUDP, inDC, pubq, published>>

HandleClientACK ==
  /\ Runs("CAck")
  /\ sendUDP' = IF outACK = NULL THEN sendUDP ELSE Append(sendUDP, outACK)
  /\ outACK' = NULL
  /\ UNCHANGED <<serverVars, recvUDP, inDC, pubq, published>>

HandlePUB ==
  /\ Runs("PUB")
  /\ IF pubq = << >>
     THEN UNCHANGED <<pubq, published>>
     ELSE pubq' = Tail(pubq) /\ published' = Append(published, Head(pubq))
  /\ UNCHANGED <<serverVars, sendUDP, recvUDP, inDC, outACK>>

-----------------------------------------------------------------------------
Next ==
  \/ Poll
  \/ HandleSUB \/ HandlePUB \/ HandleServerData \/ HandleServerACK
  \/ HandleClientData \/ HandleClientACK

Spec == Init /\ [][Next]_vars

(* The loop of startBridge does not stop, except in zmq_poll.               *)
FairSpec == Spec /\ WF_vars(Next)

-----------------------------------------------------------------------------
(* Properties *)

(* The values the variables may take.                                       *)
TypeOK ==
  /\ revents \subseteq Handlers
  /\ subq \in Seq(Messages)
  /\ outDC = NULL \/ outDC \in Seq(Pieces)
  /\ waitACK = NULL \/ waitACK \in Pieces
  /\ sendUDP \in Seq(Nat) /\ recvUDP \in Seq(Pieces)
  /\ inDC = NULL \/ inDC \in Partials
  /\ outACK = NULL \/ outACK \in Nat
  /\ pubq \in Seq(Seq(Nat))
  /\ accepted \in Seq(Messages) /\ published \in Seq(Seq(Nat))

(* The two sides move in lock-step: while the server waits for an ACK,      *)
(* exactly one of the piece, the ACK to be sent and the ACK under way       *)
(* exists, and it is the one it waits for; otherwise none of them does.  So *)
(* no ACK is replaced before it is sent, and none is ill-formed.            *)
LockStep ==
  IF waitACK = NULL
  THEN recvUDP = << >> /\ outACK = NULL /\ sendUDP = << >>
  ELSE \/ recvUDP = <<waitACK>> /\ outACK = NULL /\ sendUDP = << >>
       \/ recvUDP = << >> /\ outACK = waitACK.id /\ sendUDP = << >>
       \/ recvUDP = << >> /\ outACK = NULL /\ sendUDP = <<waitACK.id>>

(* What zmq_poll has reported still holds when the handler runs: no handler *)
(* earlier in the round takes away what a later one was called for, so that *)
(* no recvfrom blocks the loop and no handler finds nothing to do.          *)
ReportStillHolds ==
  /\ "PUB" \in revents => pubq # << >>
  /\ "SData" \in revents => waitACK = NULL /\ (outDC # NULL \/ subq # << >>)
  /\ "SAck" \in revents => waitACK # NULL /\ sendUDP # << >>
  /\ "CData" \in revents => recvUDP # << >>
  /\ "CAck" \in revents => outACK # NULL

Abstract == INSTANCE Channel

(* zmq_poll waits without end, so it must not be entered with work left     *)
(* that none of the events asked for stands for: when it finds nothing      *)
(* ready, every message that was read is published.                         *)
SleepsWhenDone ==
  revents = {} /\ (\A h \in Handlers : ~Ready(h)) => published = Abstract!NonEmpty(accepted)

(* What the poll tells the loop is right.  Not too much: what was reported  *)
(* still holds when its handler runs.  Not too little: the loop sleeps only *)
(* with everything published.                                               *)
ReportsAreRight == ReportStillHolds /\ SleepsWhenDone

(* The bridge is a channel: messages of any size come out whole, once each  *)
(* and in order, and pieces of different messages are never put together.   *)
Implements == Abstract!Spec

(* Every message that is read is published in the end.                      *)
AllPublished ==
  \A n \in 1..MaxMessages : Len(Abstract!NonEmpty(accepted)) >= n ~> Len(published) >= n
=============================================================================
