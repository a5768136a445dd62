----------------------------- MODULE UploadPool -----------------------------
(***************************************************************************)
(* The uploading half of one peer of the Bittorrent client                  *)
(* (project3/src/peer.c): which GETs it accepts, and how the uploads to     *)
(* several peers share the connections that numConnUp counts.  It is the    *)
(* side of ChunkTransfer's uploader that involves more than one transfer;   *)
(* the congestion control is left to that module, and an ACK opens the      *)
(* window to any size from 2 (expandWindow comes first) to MaxWindow.       *)
(*                                                                         *)
(* An iteration of peer_run handles at most one packet and then visits      *)
(* every peer in flushUpload (in any order, here).  The other peers are     *)
(* the environment: a GET may come at any time, also repeated or while a    *)
(* chunk is being sent; an ACK, if something was sent, may be of any        *)
(* packet ever sent to that peer, however late.  connected is the           *)
(* downloading half's (DownloadPool); here it changes at any time.  The     *)
(* halves also share initWindows: a chunk that is completed from a peer     *)
(* moves the window of the upload to the same peer back to the start.       *)
(***************************************************************************)
EXTENDS PacketQueue, FiniteSets

CONSTANTS
  Peers,         \* the other peers of peerInfo
  NumPkt,        \* BT_CHUNK_SIZE / PACKET_DATA_SIZE + 1, the packets of a chunk
  InitAvail,     \* the lastPacketAvailable of initSendWindow
  MaxWindow,     \* bound: the window the congestion control opens
  MaxTimeouts,   \* the consecutive timeouts that close a connection
  MaxConns       \* the values of the option -m

ASSUME PeersAssumption == IsFiniteSet(Peers)
ASSUME UploadAssumption ==
  /\ InitAvail \in Nat \ {0} /\ MaxWindow \in Nat \ {0, 1}
  /\ NumPkt \in Nat /\ NumPkt > InitAvail
  /\ MaxTimeouts \in Nat \ {0} /\ MaxConns \subseteq Nat

Packets == 1..NumPkt

VARIABLES
  maxConn,              \* set by init
  numConnUp,
  dataQueue, ackWaitQueue, lastPacketAcked, lastPacketAvailable, timeoutCount, \* uploadPool[]
  connected,            \* downloadPool[].connected
  phase, todo,          \* the place in the iteration; the peers still to visit
  sent,                 \* the packets ever sent to each peer
  on,                   \* history: the peers with a GET accepted, not finished or closed
  jumped,               \* history: those whose latest GET cut short the one before
  reset,                \* history: those whose window a download moved back, not yet forward
  leaked,               \* history: a GET was counted that no end will give back
  early                 \* history: an upload was ended by the final ACK of one before

windowVars == <<lastPacketAcked, lastPacketAvailable>>
queueVars  == <<dataQueue, ackWaitQueue>>
history    == <<on, jumped, reset, leaked, early>>
vars == <<maxConn, numConnUp, queueVars, windowVars, timeoutCount, connected, phase, todo, sent,
          history>>

WholeChunk == [i \in 1..NumPkt |-> i]

Init ==
  /\ maxConn \in MaxConns /\ numConnUp = 0
  /\ dataQueue = [q \in Peers |-> << >>] /\ ackWaitQueue = [q \in Peers |-> << >>]
  /\ lastPacketAcked = [q \in Peers |-> 0]
  /\ lastPacketAvailable = [q \in Peers |-> InitAvail]
  /\ timeoutCount = [q \in Peers |-> 0]
  /\ connected = [q \in Peers |-> FALSE]
  /\ phase = "poll" /\ todo = {}
  /\ sent = [q \in Peers |-> {}]
  /\ on = {} /\ jumped = {} /\ reset = {} /\ leaked = FALSE /\ early = FALSE

InitSendWindow(q) ==
  /\ lastPacketAcked' = [lastPacketAcked EXCEPT ![q] = 0]
  /\ lastPacketAvailable' = [lastPacketAvailable EXCEPT ![q] = InitAvail]

-----------------------------------------------------------------------------
(* The packet of the iteration *)

Handled == phase = "poll" /\ phase' = "upload" /\ todo' = Peers

NoPacket ==
  /\ Handled
  /\ UNCHANGED <<maxConn, numConnUp, queueVars, windowVars, timeoutCount, connected, sent, history>>

(* A packet that is freed twice (peer.c:198 or 218, and 247): the process   *)
(* goes on, or is aborted by the allocator.                                 *)
FreedTwice == phase = "poll" /\ phase' \in {"upload", "crashed"} /\ todo' = Peers

(* GET: denied when the connections are used up.                            *)
GetDenied(q) ==
  /\ FreedTwice
  /\ numConnUp = maxConn
  /\ UNCHANGED <<maxConn, numConnUp, queueVars, windowVars, timeoutCount, connected, sent, history>>

(* Counted, and then refused, since this peer downloads from q.             *)
GetRefused(q) ==
  /\ FreedTwice
  /\ numConnUp # maxConn
  /\ connected[q]
  /\ numConnUp' = numConnUp + 1
  /\ leaked' = TRUE
  /\ UNCHANGED <<maxConn, queueVars, windowVars, timeoutCount, connected, sent, on, jumped, reset,
                 early>>

(* Accepted, for a chunk of masterChunk: what waits for an ACK is given up, *)
(* and the packets of the chunk are queued behind what is not sent yet.     *)
GetAccepted(q) ==
  /\ Handled
  /\ numConnUp # maxConn
  /\ ~connected[q]
  /\ numConnUp' = numConnUp + 1
  /\ ackWaitQueue' = [ackWaitQueue EXCEPT ![q] = << >>]
  /\ dataQueue' = [dataQueue EXCEPT ![q] = @ \o WholeChunk]
  /\ InitSendWindow(q)
  /\ on' = on \cup {q}
  /\ jumped' = IF dataQueue[q] = << >> THEN jumped \ {q} ELSE jumped \cup {q}
  /\ reset' = reset \ {q}
  /\ leaked' = (leaked \/ q \in on)
  /\ UNCHANGED <<maxConn, timeoutCount, connected, sent, early>>

(* The same for a hash that masterChunk does not have: newPacketDATA queues *)
(* nothing, so nothing gives the connection back, and an upload that is on  *)
(* loses what it waits for.                                                 *)
GetUnknown(q) ==
  /\ Handled
  /\ numConnUp # maxConn
  /\ ~connected[q]
  /\ numConnUp' = numConnUp + 1
  /\ ackWaitQueue' = [ackWaitQueue EXCEPT ![q] = << >>]
  /\ InitSendWindow(q)
  /\ jumped' = jumped \cup (on \cap {q})
  /\ leaked' = TRUE
  /\ UNCHANGED <<maxConn, dataQueue, timeoutCount, connected, sent, on, reset, early>>

(* updateACKQueue: any ACK restarts the count of timeouts.                  *)
RecvAck(q, ack) ==
  /\ Handled
  /\ ack \in UNION {0..n : n \in sent[q]}
  /\ timeoutCount' = [timeoutCount EXCEPT ![q] = 0]
  /\ UNCHANGED <<maxConn, connected, sent>>

IsNew(q, ack) == ackWaitQueue[q] # << >> /\ ack >= Head(ackWaitQueue[q])

Pops(q, ack) ==
  \E k \in 1..Len(ackWaitQueue[q]) :
    /\ PopsUpTo(ackWaitQueue[q], ack, k)
    /\ ackWaitQueue' = [ackWaitQueue EXCEPT ![q] = Drop(@, k)]

AckAdvancesNoUpdate(q, ack) ==       \* mutant: updateSendWindow is not called
  /\ RecvAck(q, ack)
  /\ IsNew(q, ack) /\ ack # NumPkt
  /\ Pops(q, ack)
  /\ lastPacketAcked' = [lastPacketAcked EXCEPT ![q] = ack]
  /\ UNCHANGED <<numConnUp, dataQueue, lastPacketAvailable, history>>

AckAdvances(q, ack) ==
  /\ RecvAck(q, ack)
  /\ IsNew(q, ack) /\ ack # NumPkt
  /\ Pops(q, ack)
  /\ lastPacketAcked' = [lastPacketAcked EXCEPT ![q] = ack]
  /\ \E window \in 2..MaxWindow :
       lastPacketAvailable' = [lastPacketAvailable EXCEPT ![q] = ack + window]
  /\ reset' = reset \ {q}
  /\ UNCHANGED <<numConnUp, dataQueue, on, jumped, leaked, early>>

AckFinishesAlways(q, ack) ==         \* mutant: also when nothing waits for the ACK
  /\ RecvAck(q, ack)
  /\ ack = NumPkt
  /\ ackWaitQueue' = [ackWaitQueue EXCEPT ![q] = << >>]
  /\ numConnUp' = numConnUp - 1
  /\ InitSendWindow(q)
  /\ on' = on \ {q} /\ reset' = reset \ {q}
  /\ UNCHANGED <<dataQueue, jumped, leaked, early>>

(* The last packet's ACK gives the connection back, also when it comes late *)
(* and that packet is not even sent of the chunk that is on.                *)
IsLate(q) == ackWaitQueue[q][Len(ackWaitQueue[q])] # NumPkt

AckFinishes(q, ack) ==
  /\ RecvAck(q, ack)
  /\ IsNew(q, ack) /\ ack = NumPkt
  /\ IsLate(q) => ~early               \* bound: it happens once
  /\ Pops(q, ack)
  /\ numConnUp' = numConnUp - 1
  /\ InitSendWindow(q)
  /\ on' = on \ {q} /\ reset' = reset \ {q}
  /\ early' = (early \/ IsLate(q))
  /\ UNCHANGED <<dataQueue, jumped, leaked>>

(* An ACK of nothing that waits: ignored, or the one duplicate too many.    *)
AckIgnored(q, ack) ==
  /\ RecvAck(q, ack)
  /\ ~IsNew(q, ack)
  /\ UNCHANGED <<numConnUp, queueVars, windowVars, history>>

AckRetransmits(q, ack) ==
  /\ RecvAck(q, ack)
  /\ ackWaitQueue[q] # << >> /\ ~IsNew(q, ack) /\ ack = lastPacketAcked[q]
  /\ dataQueue' = [dataQueue EXCEPT ![q] = MergeAtFront(ackWaitQueue[q], @)]
  /\ ackWaitQueue' = [ackWaitQueue EXCEPT ![q] = << >>]
  /\ UNCHANGED <<numConnUp, windowVars, history>>

-----------------------------------------------------------------------------
(* flushUpload, at peer q *)

Visit(q) ==
  /\ phase = "upload" /\ q \in todo
  /\ todo' = todo \ {q}
  /\ phase' = IF todo' = {} THEN "poll" ELSE "upload"

(* The send loop, over the queues d (to send) and w (sent).                 *)
SendWindow(q, d, w) ==
  \E k \in 0..Len(d) :
    /\ PopsUpTo(d, lastPacketAvailable[q], k)
    /\ dataQueue' = [dataQueue EXCEPT ![q] = Drop(d, k)]
    /\ ackWaitQueue' = [ackWaitQueue EXCEPT ![q] = w \o Take(d, k)]
    /\ sent' = [sent EXCEPT ![q] = @ \cup Elems(Take(d, k))]

Send(q) ==
  /\ Visit(q)
  /\ SendWindow(q, dataQueue[q], ackWaitQueue[q])
  /\ UNCHANGED <<maxConn, numConnUp, windowVars, timeoutCount, connected, history>>

DataTimeoutAtBack(q) ==              \* mutant: retransmits queued behind the rest
  /\ Visit(q)
  /\ ackWaitQueue[q] # << >>
  /\ timeoutCount[q] + 1 # MaxTimeouts
  /\ timeoutCount' = [timeoutCount EXCEPT ![q] = @ + 1]
  /\ SendWindow(q, MergeAtBack(ackWaitQueue[q], dataQueue[q]), << >>)
  /\ UNCHANGED <<maxConn, numConnUp, windowVars, connected, history>>

DataTimeoutUnlimited(q) ==           \* mutant: no test for the last timeout
  /\ Visit(q)
  /\ ackWaitQueue[q] # << >>
  /\ timeoutCount' = [timeoutCount EXCEPT ![q] = @ + 1]
  /\ SendWindow(q, MergeAtFront(ackWaitQueue[q], dataQueue[q]), << >>)
  /\ UNCHANGED <<maxConn, numConnUp, windowVars, connected, history>>

DataTimeout(q) ==
  /\ Visit(q)
  /\ ackWaitQueue[q] # << >>
  /\ timeoutCount[q] + 1 # MaxTimeouts
  /\ timeoutCount' = [timeoutCount EXCEPT ![q] = @ + 1]
  /\ SendWindow(q, MergeAtFront(ackWaitQueue[q], dataQueue[q]), << >>)
  /\ UNCHANGED <<maxConn, numConnUp, windowVars, connected, history>>

CleanUpConnUp(q) ==
  /\ InitSendWindow(q)
  /\ dataQueue' = [dataQueue EXCEPT ![q] = << >>]
  /\ ackWaitQueue' = [ackWaitQueue EXCEPT ![q] = << >>]
  /\ timeoutCount' = [timeoutCount EXCEPT ![q] = 0]

CloseUploadKeepsCount(q) ==          \* mutant: numConnUp-- is missing
  /\ Visit(q)
  /\ ackWaitQueue[q] # << >>
  /\ timeoutCount[q] + 1 = MaxTimeouts
  /\ CleanUpConnUp(q)
  /\ on' = on \ {q} /\ jumped' = jumped \ {q} /\ reset' = reset \ {q}
  /\ UNCHANGED <<maxConn, numConnUp, connected, sent, leaked, early>>

(* The last timeout in a row.                                               *)
CloseUpload(q) ==
  /\ Visit(q)
  /\ ackWaitQueue[q] # << >>
  /\ timeoutCount[q] + 1 = MaxTimeouts
  /\ numConnUp' = numConnUp - 1
  /\ CleanUpConnUp(q)
  /\ on' = on \ {q} /\ jumped' = jumped \ {q} /\ reset' = reset \ {q}
  /\ UNCHANGED <<maxConn, connected, sent, leaked, early>>

-----------------------------------------------------------------------------
(* The downloading half: flushDownload opens the connection to q whether    *)
(* or not q is being served, or gives it up.                                *)
DownloadOpens(q) ==
  /\ phase = "poll" /\ ~connected[q]
  /\ connected' = [connected EXCEPT ![q] = TRUE]
  /\ UNCHANGED <<maxConn, numConnUp, queueVars, windowVars, timeoutCount, phase, todo, sent, history>>

DownloadGivesUp(q) ==
  /\ phase = "poll" /\ connected[q]
  /\ connected' = [connected EXCEPT ![q] = FALSE]
  /\ UNCHANGED <<maxConn, numConnUp, queueVars, windowVars, timeoutCount, phase, todo, sent, history>>

(* The DATA that completes a chunk, also one given up before: initWindows   *)
(* takes both windows, the second is that of the upload to q.               *)
DownloadCompletes(q) ==
  /\ Handled
  /\ connected' = [connected EXCEPT ![q] = FALSE]
  /\ InitSendWindow(q)
  /\ reset' = reset \cup (on \cap {q})
  /\ UNCHANGED <<maxConn, numConnUp, queueVars, timeoutCount, sent, on, jumped, leaked, early>>

RecvGet(q) == GetDenied(q) \/ GetRefused(q) \/ GetAccepted(q) \/ GetUnknown(q)

UpdateACKQueue(q, ack) ==
  AckAdvances(q, ack) \/ AckFinishes(q, ack) \/ AckIgnored(q, ack) \/ AckRetransmits(q, ack)

FlushUpload(q) == Send(q) \/ DataTimeout(q) \/ CloseUpload(q)

Next ==
  \/ NoPacket
  \/ \E q \in Peers :
       \/ RecvGet(q)
       \/ \E ack \in 0..NumPkt : UpdateACKQueue(q, ack)
       \/ FlushUpload(q)
       \/ DownloadOpens(q) \/ DownloadGivesUp(q) \/ DownloadCompletes(q)

Spec == Init /\ [][Next]_vars

-----------------------------------------------------------------------------
(* Properties *)

(* The values every variable of the peer may take.                          *)
TypeOK ==
  /\ maxConn \in MaxConns
  /\ numConnUp \in Int
  /\ dataQueue \in [Peers -> Seq(Packets)] /\ ackWaitQueue \in [Peers -> Seq(Packets)]
  /\ lastPacketAcked \in [Peers -> 0..(NumPkt - 1)]
  /\ lastPacketAvailable \in [Peers -> 1..(NumPkt + MaxWindow)]
  /\ timeoutCount \in [Peers -> 0..(MaxTimeouts - 1)]
  /\ connected \in [Peers -> BOOLEAN]
  /\ phase \in {"poll", "upload", "crashed"} /\ todo \in SUBSET Peers
  /\ sent \in [Peers -> SUBSET Packets]
  /\ on \in SUBSET Peers /\ jumped \in SUBSET Peers /\ reset \in SUBSET Peers
  /\ leaked \in BOOLEAN /\ early \in BOOLEAN

Sending == {q \in Peers : ackWaitQueue[q] # << >>}

(* No more than maxConn uploads have packets under way, although GETs are   *)
(* refused after they are counted, repeated ones and ones of chunks this    *)
(* peer does not have are counted as well, a download moves windows, and a  *)
(* final ACK may come twice or after a timeout closed the upload.  Only one *)
(* that is so late that it ends the next upload breaks it: what is left of  *)
(* that chunk may lie within the window, and is sent without being counted. *)
LimitIsKept == numConnUp <= maxConn /\ (~early => Cardinality(Sending) <= numConnUp)

(* numConnUp is the number of accepted GETs that were not finished or       *)
(* closed, as long as no GET was refused because of a download, none came   *)
(* for a peer that was still being served or for a chunk this peer does not *)
(* have, and no final ACK ended the next upload: nothing else takes a       *)
(* connection that no upload has, or gives one back that was not taken.     *)
CountIsExact == ~leaked /\ ~early => numConnUp = Cardinality(on)

(* An upload that is on always has a packet that waits for its ACK, hence a *)
(* timer, unless its window was moved back to the start behind its packets: *)
(* by a later GET of the same peer while something was queued, or by a      *)
(* chunk completed from that peer, until the next ACK that advances.  Then  *)
(* what is put back for a retransmit may lie beyond the window, and nothing *)
(* ever sends it or closes the upload.                                      *)
NoStall == phase = "poll" => \A q \in on \ (jumped \cup reset) : ackWaitQueue[q] # << >>

(* What is queued for a peer is the rest of a chunk and then whole chunks,  *)
(* whatever GETs, retransmits and ACKs came in between: a packet is         *)
(* followed by the next one, or the last one by the first of a new chunk.   *)
WholeChunksFollow ==
  \A q \in Peers :
    LET s == ackWaitQueue[q] \o dataQueue[q]
    IN  /\ \A i \in 1..(Len(s) - 1) : s[i + 1] = (IF s[i] = NumPkt THEN 1 ELSE s[i] + 1)
        /\ s # << >> => s[Len(s)] = NumPkt
=============================================================================
