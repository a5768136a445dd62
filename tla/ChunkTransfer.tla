--------------------------- MODULE ChunkTransfer ----------------------------
(***************************************************************************)
(* The transfer of one chunk between an uploading and a downloading peer of *)
(* the Bittorrent client (project3/src/peer.c, with window.c, connPool.c,   *)
(* queue.c, sortedPacketCache.c and congestCtrl.c), from the moment the     *)
(* uploader has accepted the GET.                                           *)
(*                                                                         *)
(* Each peer is one thread.  An iteration of peer_run handles at most one   *)
(* packet and then flushes its queues; the two phases of an iteration are   *)
(* separate actions here ("poll" may be followed by a packet's handler,     *)
(* "flush" must be followed by the flush), so the other peer and the        *)
(* network interleave with both.  A select() that times out after one       *)
(* second flushes without a packet: only a timer can make that flush do     *)
(* anything, so it appears as the timer actions.                            *)
(*                                                                         *)
(* The network is UDP: a packet under way is delivered at any later moment, *)
(* after later ones, or twice, or is lost.  (Every ACK widens the window,   *)
(* so the duplicates are bounded by DupWindow.)  Timers are not clocked:    *)
(* one may expire whenever it runs.                                         *)
(* spiffy_sendto is taken to succeed, and the chunk is one of several of    *)
(* the GET, at index 0, so that updateGetChunk does not end the GET.        *)
(***************************************************************************)
EXTENDS CongestCtrl, PacketQueue, Integers, Sequences

CONSTANTS
  NumPkt,        \* BT_CHUNK_SIZE / PACKET_DATA_SIZE + 1, the packets of a chunk
  InitAvail,     \* the lastPacketAvailable of initSendWindow
  MaxAhead,      \* INIT_THRESH again, as the distance an early packet may have
  MaxDuplicate,  \* MAX_DUPLICATE, the duplicate ACKs that trigger a retransmit
  MaxTimeouts,   \* the consecutive timeouts that close a connection
  MaxCache,      \* bound: the entries with which the cache takes no more copies
  DupWindow      \* bound: the network duplicates while the window is smaller

ASSUME TransferAssumption ==
  /\ NumPkt \in Nat \ {0}
  /\ InitAvail \in Nat \ {0}
  /\ MaxAhead \in Nat \ {0}
  /\ MaxDuplicate \in Nat \ {0}
  /\ MaxTimeouts \in Nat \ {0}
  /\ MaxCache \in Nat
  /\ DupWindow \in Nat

Packets == 1..NumPkt

Unfetched == 0   \* the values of fetchState (chunkList.h)
Fetched   == 1
Fetching  == 2

VARIABLES
  (* the uploading peer: uploadPool[] *)
  dataQueue,          \* packets to send
  ackWaitQueue,       \* packets sent and not acknowledged
  sw,                 \* sendWindow
  upTimeouts,         \* connUp.timeoutCount
  numConnUp,          \* the global count of uploads, of which this is the only one
  upload,             \* how the upload ended: the two places where numConnUp--
  upPhase,
  (* the downloading peer: downloadPool[] *)
  nextPacketExpected, \* of recvWindow
  cache,              \* ACKs of packets that came early
  ackSendQueue,       \* ACKs to send
  downTimeouts,       \* connDown.timeoutCount
  state,              \* connDown.state: 0 ready for next, 1 downloading
  numConnDown,        \* the global count of downloads, of which this is the only one
  fetchState,         \* of the chunk, in getChunk
  written,            \* the packets written to the file
  downPhase,
  (* the network *)
  dataNet, ackNet     \* DATA and ACK packets under way

upVars   == <<dataQueue, ackWaitQueue, sw, upTimeouts, numConnUp, upload>>
downVars == <<nextPacketExpected, cache, ackSendQueue, downTimeouts, state, numConnDown,
              fetchState, written>>
vars     == <<upVars, upPhase, downVars, downPhase, dataNet, ackNet>>

-----------------------------------------------------------------------------
InitSendWindow ==
  [lastPacketAcked |-> 0, lastPacketAvailable |-> InitAvail, dupCount |-> 0,
   ctrl |-> InitCongestCtrler]

(* The GET was sent (state 1) and accepted: newPacketDATA has queued the    *)
(* whole chunk and the uploader is about to flush.                          *)
Init ==
  /\ dataQueue = [i \in 1..NumPkt |-> i]
  /\ ackWaitQueue = << >>
  /\ sw = InitSendWindow
  /\ upTimeouts = 0 /\ numConnUp = 1 /\ upload = "sending" /\ upPhase = "flush"
  /\ nextPacketExpected = 1
  /\ cache = << >> /\ ackSendQueue = << >>
  /\ downTimeouts = 0 /\ state = 1 /\ numConnDown = 1 /\ fetchState = Fetching
  /\ written = {} /\ downPhase = "poll"
  /\ dataNet = {} /\ ackNet = {}

-----------------------------------------------------------------------------
(* The uploading peer *)

(* updateACKQueue: every ACK, even one that is old or repeated, widens the  *)
(* window and restarts the count of timeouts.                               *)
Expanded == ExpandWindow(sw.ctrl)

WindowWith(dupCount, ctrl) ==
  [lastPacketAcked |-> sw.lastPacketAcked, lastPacketAvailable |-> sw.lastPacketAvailable,
   dupCount |-> dupCount, ctrl |-> ctrl]

AckAdvancesNoUpdate(ack) ==            \* mutant: updateSendWindow is not called
  /\ ackWaitQueue # << >>
  /\ ack >= Head(ackWaitQueue)
  /\ ackWaitQueue' = SelectSeq(ackWaitQueue, LAMBDA seq : seq > ack)
  /\ IF ack = NumPkt
     THEN sw' = InitSendWindow /\ numConnUp' = numConnUp - 1 /\ upload' = "finished"
     ELSE /\ sw' = [lastPacketAcked |-> ack,
                    lastPacketAvailable |-> sw.lastPacketAvailable,
                    dupCount |-> 0, ctrl |-> Expanded]
          /\ UNCHANGED <<numConnUp, upload>>
  /\ UNCHANGED dataQueue

(* It acknowledges the head of the wait queue, and everything up to ack.    *)
AckAdvances(ack) ==
  /\ ackWaitQueue # << >>
  /\ ack >= Head(ackWaitQueue)
  /\ \E k \in 1..Len(ackWaitQueue) :
       /\ PopsUpTo(ackWaitQueue, ack, k)
       /\ ackWaitQueue' = Drop(ackWaitQueue, k)
  /\ IF ack = NumPkt
     THEN /\ sw' = InitSendWindow
          /\ numConnUp' = numConnUp - 1
          /\ upload' = "finished"
     ELSE /\ sw' = [lastPacketAcked |-> ack,
                    lastPacketAvailable |-> ack + Expanded.windowSize,
                    dupCount |-> 0, ctrl |-> Expanded]
          /\ UNCHANGED <<numConnUp, upload>>
  /\ UNCHANGED dataQueue

AckRepeatsUnreset(ack) ==           \* mutant: dupCount = 0 is missing
  /\ ackWaitQueue # << >>
  /\ ack < Head(ackWaitQueue)
  /\ ack = sw.lastPacketAcked
  /\ sw' = WindowWith(sw.dupCount + 1, Expanded)
  /\ IF sw'.dupCount = MaxDuplicate
     THEN dataQueue' = MergeAtFront(ackWaitQueue, dataQueue) /\ ackWaitQueue' = << >>
     ELSE UNCHANGED <<dataQueue, ackWaitQueue>>
  /\ UNCHANGED <<numConnUp, upload>>

(* It repeats the last one: MAX_DUPLICATE of them retransmit at once.       *)
AckRepeats(ack) ==
  /\ ackWaitQueue # << >>
  /\ ack < Head(ackWaitQueue)
  /\ ack = sw.lastPacketAcked
  /\ IF sw.dupCount + 1 = MaxDuplicate
     THEN /\ dataQueue' = MergeAtFront(ackWaitQueue, dataQueue)
          /\ ackWaitQueue' = << >>
          /\ sw' = WindowWith(0, ShrinkWindow(Expanded))
     ELSE /\ sw' = WindowWith(sw.dupCount + 1, Expanded)
          /\ UNCHANGED <<dataQueue, ackWaitQueue>>
  /\ UNCHANGED <<numConnUp, upload>>

(* It is older than the last one, or nothing waits for an ACK.              *)
AckIgnored(ack) ==
  /\ ackWaitQueue # << >> => ack < Head(ackWaitQueue) /\ ack # sw.lastPacketAcked
  /\ sw' = WindowWith(sw.dupCount, Expanded)
  /\ UNCHANGED <<dataQueue, ackWaitQueue, numConnUp, upload>>

UpdateACKQueue(ack) ==
  /\ upTimeouts' = 0
  /\ AckAdvances(ack) \/ AckRepeats(ack) \/ AckIgnored(ack)

(* The copies of a packet that the network makes.                           *)
MayDuplicate == sw.ctrl.windowSize < DupWindow /\ numConnDown = 1

RecvAck(ack) ==
  /\ upPhase = "poll" /\ upPhase' = "flush"
  /\ ack \in ackNet
  /\ \/ ackNet' = ackNet \ {ack}
     \/ MayDuplicate /\ UNCHANGED ackNet
  /\ UpdateACKQueue(ack)
  /\ UNCHANGED <<downVars, downPhase, dataNet>>

(* The send loop of flushUpload, over the queues q (to send) and w (sent).  *)
SendWindow(q, w) ==
  \E k \in 0..Len(q) :
    /\ PopsUpTo(q, sw.lastPacketAvailable, k)
    /\ dataNet' = dataNet \cup Elems(Take(q, k))
    /\ ackWaitQueue' = w \o Take(q, k)
    /\ dataQueue' = Drop(q, k)

FlushUpload ==
  /\ upPhase = "flush" /\ upPhase' = "poll"
  /\ SendWindow(dataQueue, ackWaitQueue)
  /\ UNCHANGED <<sw, upTimeouts, numConnUp, upload, downVars, downPhase, ackNet>>

DataTimeoutUncounted ==             \* mutant: timeoutCount++ is missing
  /\ ackWaitQueue # << >>
  /\ SendWindow(MergeAtFront(ackWaitQueue, dataQueue), << >>)
  /\ sw' = [sw EXCEPT !.ctrl = ShrinkWindow(@)]
  /\ upPhase' = "poll"
  /\ UNCHANGED <<upTimeouts, numConnUp, upload, downVars, downPhase, ackNet>>

(* The oldest packet sent has waited too long: everything sent is sent      *)
(* again, as far as the window's edge, which the shrinking does not move.   *)
DataTimeout ==
  /\ ackWaitQueue # << >>
  /\ upTimeouts + 1 # MaxTimeouts
  /\ upTimeouts' = upTimeouts + 1
  /\ SendWindow(MergeAtFront(ackWaitQueue, dataQueue), << >>)
  /\ sw' = [sw EXCEPT !.ctrl = ShrinkWindow(@)]
  /\ upPhase' = "poll"
  /\ UNCHANGED <<numConnUp, upload, downVars, downPhase, ackNet>>

(* It has for the last time: cleanUpConnUp.                                 *)
CloseUpload ==
  /\ ackWaitQueue # << >>
  /\ upTimeouts + 1 = MaxTimeouts
  /\ numConnUp' = numConnUp - 1
  /\ upload' = IF upload = "sending" THEN "closed" ELSE upload
  /\ sw' = InitSendWindow
  /\ dataQueue' = << >> /\ ackWaitQueue' = << >> /\ upTimeouts' = 0
  /\ upPhase' = "poll"
  /\ UNCHANGED <<downVars, downPhase, dataNet, ackNet>>

-----------------------------------------------------------------------------
(* The downloading peer *)

(* updateGetSingleChunk, case by case.  A packet that is not behind the     *)
(* next expected one is written to the file, whatever else happens to it.   *)

(* Early, within the distance allowed: its ACK is kept for later, and the   *)
(* last packet in order is acknowledged again.  (A copy of a cached packet  *)
(* is cached once more, without end; past MaxCache entries it is not, here.) *)
DataEarly(seq) ==
  /\ seq > nextPacketExpected
  /\ seq - nextPacketExpected <= MaxAhead
  /\ IF Len(cache) >= MaxCache /\ seq \in Elems(cache)
     THEN UNCHANGED cache
     ELSE \E i \in 0..Len(cache) :
            /\ InsertsBehind(cache, seq, i)
            /\ cache' = InsertBehind(cache, seq, i)
  /\ ackSendQueue' = Append(ackSendQueue, nextPacketExpected - 1)
  /\ written' = written \cup {seq}
  /\ UNCHANGED <<nextPacketExpected, state, numConnDown, fetchState>>

DataInOrderEndsEarly(seq) ==        \* mutant: >= N for > N
  /\ seq = nextPacketExpected
  /\ \E k \in 0..Len(cache) : \E next \in (seq + 1)..(NumPkt + 1) :
       /\ FlushCache(seq, cache, k, next)
       /\ ackSendQueue' = ackSendQueue \o <<seq>> \o Take(cache, k)
       /\ cache' = Drop(cache, k)
       /\ IF next >= NumPkt
          THEN /\ fetchState' = Fetched /\ state' = 0 /\ nextPacketExpected' = 1
               /\ numConnDown' = numConnDown - 1
          ELSE /\ nextPacketExpected' = next
               /\ UNCHANGED <<fetchState, state, numConnDown>>
  /\ written' = written \cup {seq}

(* In order: acknowledged with the cached ones it makes contiguous.  Past   *)
(* the last packet the chunk is fetched and the windows start afresh.       *)
DataInOrder(seq) ==
  /\ seq = nextPacketExpected
  /\ \E k \in 0..Len(cache) : \E next \in (seq + 1)..(NumPkt + 1) :
       /\ FlushCache(seq, cache, k, next)
       /\ ackSendQueue' = ackSendQueue \o <<seq>> \o Take(cache, k)
       /\ cache' = Drop(cache, k)
       /\ IF next > NumPkt
          THEN /\ fetchState' = Fetched
               /\ state' = 0
               /\ nextPacketExpected' = 1
               /\ numConnDown' = numConnDown - 1
          ELSE /\ nextPacketExpected' = next
               /\ UNCHANGED <<fetchState, state, numConnDown>>
  /\ written' = written \cup {seq}

(* Too far ahead to be cached: written, and not acknowledged.               *)
DataTooFar(seq) ==
  /\ seq > nextPacketExpected
  /\ seq - nextPacketExpected > MaxAhead
  /\ written' = written \cup {seq}
  /\ UNCHANGED <<nextPacketExpected, cache, ackSendQueue, state, numConnDown, fetchState>>

(* Behind: only acknowledged, with its own number.                          *)
DataBehind(seq) ==
  /\ seq < nextPacketExpected
  /\ ackSendQueue' = Append(ackSendQueue, seq)
  /\ UNCHANGED <<nextPacketExpected, cache, state, numConnDown, fetchState, written>>

UpdateGetSingleChunk(seq) ==
  /\ downTimeouts' = 0
  /\ DataEarly(seq) \/ DataInOrder(seq) \/ DataTooFar(seq) \/ DataBehind(seq)

RecvData(seq) ==
  /\ downPhase = "poll" /\ downPhase' = "flush"
  /\ seq \in dataNet
  /\ \/ dataNet' = dataNet \ {seq}
     \/ MayDuplicate /\ UNCHANGED dataNet
  /\ UpdateGetSingleChunk(seq)
  /\ UNCHANGED <<upVars, upPhase, ackNet>>

(* The ACK loop of flushDownload.  After each ACK it sends, it dequeues     *)
(* twice and goes on with the second packet: it sends the first, the second *)
(* and then every other one, and the queue is empty in the end.             *)
SentAcks == {ackSendQueue[i] : i \in {j \in 1..Len(ackSendQueue) : j = 1 \/ j % 2 = 0}}

FlushAcks ==
  /\ ackNet' = ackNet \cup SentAcks
  /\ ackSendQueue' = << >>
  /\ downPhase' = "poll"

FlushDownload ==
  /\ downPhase = "flush"
  /\ FlushAcks
  /\ UNCHANGED <<nextPacketExpected, cache, downTimeouts, state, numConnDown, fetchState,
                 written, upVars, upPhase, dataNet>>

(* The GET's timer, restarted by each expiry, never by a packet.            *)
GetTimeout ==
  /\ state = 1
  /\ downTimeouts + 1 # MaxTimeouts
  /\ downTimeouts' = downTimeouts + 1
  /\ FlushAcks
  /\ UNCHANGED <<nextPacketExpected, cache, state, numConnDown, fetchState, written,
                 upVars, upPhase, dataNet>>

(* Its last expiry: the chunk is free to be fetched elsewhere and           *)
(* cleanUpConnDown resets the connection, all but the cache.                *)
DropDownload ==
  /\ state = 1
  /\ downTimeouts + 1 = MaxTimeouts
  /\ FlushAcks
  /\ fetchState' = Unfetched
  /\ state' = 0 /\ downTimeouts' = 0 /\ nextPacketExpected' = 1
  /\ numConnDown' = numConnDown - 1
  /\ UNCHANGED <<cache, written, upVars, upPhase, dataNet>>

-----------------------------------------------------------------------------
(* A packet is lost instead of being delivered: while a peer is busy, what  *)
(* it has been sent waits.                                                  *)
LosePacket ==
  /\ \/ downPhase = "poll" /\ UNCHANGED ackNet
        /\ \E seq \in dataNet : dataNet' = dataNet \ {seq}
     \/ upPhase = "poll" /\ UNCHANGED dataNet
        /\ \E ack \in ackNet : ackNet' = ackNet \ {ack}
  /\ UNCHANGED <<upVars, upPhase, downVars, downPhase>>

Next ==
  \/ \E ack \in ackNet : RecvAck(ack)
  \/ FlushUpload \/ DataTimeout \/ CloseUpload
  \/ \E seq \in dataNet : RecvData(seq)
  \/ FlushDownload \/ GetTimeout \/ DropDownload
  \/ LosePacket

Spec == Init /\ [][Next]_vars

(***************************************************************************)
(* Fairness: the loop of peer_run never stops (select waits a second at     *)
(* most), so a flush follows every handler and a timer that stays armed is  *)
(* found expired; a DATA packet that is sent again and again arrives, and  *)
(* of the ACKs that are sent again and again some arrive.                   *)
(***************************************************************************)
Fairness ==
  /\ WF_vars(FlushUpload) /\ WF_vars(FlushDownload)
  /\ WF_vars(DataTimeout \/ CloseUpload)
  /\ SF_vars(\E ack \in ackNet : RecvAck(ack))
  /\ \A seq \in Packets : SF_vars(RecvData(seq))

FairSpec == Spec /\ Fairness

(***************************************************************************)
(* The same, of the transfers that the downloader keeps, and in which none  *)
(* of the packets 1..MaxAhead + 1 arrives after the chunk is complete.      *)
(* (There are 354 packets and MaxAhead is 64: such a packet would be some   *)
(* 290 packets late.  Either way the downloader is at the start of the      *)
(* chunk again and answers what the uploader repeats with an ACK that says  *)
(* nothing and restarts the uploader's count of timeouts, for ever.)        *)
(***************************************************************************)
Kept ==
  /\ fetchState' # Unfetched
  /\ fetchState' = Fetched => nextPacketExpected' = 1 /\ cache' = << >>

KeptSpec == Init /\ [][Next /\ Kept]_vars /\ Fairness

-----------------------------------------------------------------------------
(* Properties *)

SendWindowType ==
  [lastPacketAcked : 0..NumPkt, lastPacketAvailable : Nat, dupCount : 0..(MaxDuplicate - 1),
   ctrl : CtrlType]

(* The values every variable of the two peers and the network may take.     *)
TypeOK ==
  /\ dataQueue \in Seq(Packets) /\ ackWaitQueue \in Seq(Packets)
  /\ sw \in SendWindowType
  /\ upTimeouts \in 0..(MaxTimeouts - 1)
  /\ numConnUp \in Int /\ upload \in {"sending", "finished", "closed"}
  /\ nextPacketExpected \in Packets
  /\ cache \in Seq(Packets) /\ ackSendQueue \in Seq(0..NumPkt)
  /\ downTimeouts \in 0..(MaxTimeouts - 1) /\ state \in {0, 1}
  /\ numConnDown \in Int /\ fetchState \in {Unfetched, Fetched, Fetching}
  /\ written \in SUBSET Packets
  /\ upPhase \in {"poll", "flush"} /\ downPhase \in {"poll", "flush"}
  /\ dataNet \in SUBSET Packets /\ ackNet \in SUBSET (0..NumPkt)

(* The packets the uploader holds no longer are the first ones.             *)
Released == NumPkt - Len(ackWaitQueue) - Len(dataQueue)

(* Whatever the order of retransmits, the two queues together are the rest  *)
(* of the chunk in order: mergeAtFront in updateACKQueue and flushUpload    *)
(* neither loses, repeats nor reorders a packet.                            *)
QueuesAreTheRest ==
  /\ Released >= 0
  /\ \A i \in 1..Len(ackWaitQueue) : ackWaitQueue[i] = Released + i
  /\ \A i \in 1..Len(dataQueue) : dataQueue[i] = Released + Len(ackWaitQueue) + i

(* updateACKQueue frees a packet, and moves lastPacketAcked over it, only   *)
(* when it is in the downloader's file: an ACK, waiting to be sent or under *)
(* way, covers no packet that did not arrive, however many timeouts,        *)
(* retransmits and early arrivals came before it.                           *)
AckedIsWritten ==
  /\ upload # "closed" => 1..Released \subseteq written
  /\ upload = "sending" => 1..sw.lastPacketAcked \subseteq written
  /\ \A ack \in ackNet \cup Elems(ackSendQueue) : 1..ack \subseteq written

(* The uploader never waits for nothing: when an iteration of peer_run has  *)
(* ended and the upload is on, a packet waits for its ACK, so that          *)
(* flushUpload has a timer to look at.  (The window's edge moves back, for  *)
(* example on the first ACK, so this is not the window's doing alone.)      *)
NoStall == upPhase = "poll" /\ upload = "sending" => ackWaitQueue # << >>

(* The congestion controller keeps the relation between window and          *)
(* threshold that expandWindow's tests for equality need.                   *)
CongestionOK == CtrlOK(sw.ctrl)

(* A chunk that is fetched leaves nothing in the cache for the next one.    *)
FetchedEmptiesCache == [][fetchState' = Fetched /\ fetchState # Fetched => cache' = << >>]_vars

(* The transfer implements the abstract one: in particular the chunk is     *)
(* declared fetched, and the upload finished, only with the file complete.  *)
Abstract == INSTANCE ReliableTransfer WITH received <- written

Implements == Abstract!Spec

(* Whatever is lost, the uploader is done with the chunk in the end:        *)
(* retransmits go on until the final ACK, or until the connection is        *)
(* closed, but not for ever.                                                *)
UploadEnds == <>(upload # "sending")
=============================================================================
