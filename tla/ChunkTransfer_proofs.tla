------------------------ MODULE ChunkTransfer_proofs -------------------------
(***************************************************************************)
(* Theorems about ChunkTransfer, for every value of its constants.          *)
(***************************************************************************)
EXTENDS ChunkTransfer, PacketQueue_proofs

-----------------------------------------------------------------------------
(* The congestion controller *)

(* expandWindow and shrinkWindow return a controller, and one that is in    *)
(* order if they get one that is.                                           *)
LEMMA CtrlSteps ==
  /\ InitCongestCtrler \in CtrlType /\ CtrlOK(InitCongestCtrler)
  /\ \A c \in CtrlType :
       /\ ExpandWindow(c) \in CtrlType /\ (CtrlOK(c) => CtrlOK(ExpandWindow(c)))
       /\ ShrinkWindow(c) \in CtrlType /\ (CtrlOK(c) => CtrlOK(ShrinkWindow(c)))
<1>1. InitCongestCtrler \in CtrlType /\ CtrlOK(InitCongestCtrler)
  BY InitThreshAssumption DEF InitCongestCtrler, CtrlType, Modes, CtrlOK
<1>2. ASSUME NEW c \in CtrlType
      PROVE  ExpandWindow(c) \in CtrlType /\ (CtrlOK(c) => CtrlOK(ExpandWindow(c)))
  <2>1. CASE c.mode = "SLOW_START"
    BY <2>1 DEF ExpandWindow, SlowStartStep, CtrlType, Modes, CtrlOK
  <2>2. CASE c.mode = "CONGEST_AVOID"
    <3>1. CASE c.slowInc + 1 = c.windowSize
      BY <2>2, <3>1 DEF ExpandWindow, CongestAvoidStep, CtrlType, Modes, CtrlOK
    <3>2. CASE c.slowInc + 1 # c.windowSize
      BY <2>2, <3>2 DEF ExpandWindow, CongestAvoidStep, CtrlType, Modes, CtrlOK
    <3> QED
      BY <3>1, <3>2
  <2> QED
    BY <2>1, <2>2 DEF CtrlType, Modes
<1>3. ASSUME NEW c \in CtrlType
      PROVE  ShrinkWindow(c) \in CtrlType /\ CtrlOK(ShrinkWindow(c))
  BY DEF ShrinkWindow, CtrlType, Modes, CtrlOK
<1> QED
  BY <1>1, <1>2, <1>3

-----------------------------------------------------------------------------
(* Types *)

(* Init establishes the types.                                              *)
LEMMA InitSendWindowType == InitSendWindow \in SendWindowType /\ CtrlOK(InitSendWindow.ctrl)
  BY CtrlSteps, TransferAssumption DEF InitSendWindow, SendWindowType

LEMMA InitTypeOK == Init => TypeOK
<1> SUFFICES ASSUME Init PROVE TypeOK
  OBVIOUS
<1>1. dataQueue \in Seq(Packets)
  BY TransferAssumption DEF Init, Packets
<1>2. sw \in SendWindowType
  BY InitSendWindowType DEF Init
<1> QED
  BY <1>1, <1>2, TransferAssumption DEF Init, TypeOK, Packets, Unfetched, Fetched, Fetching

(* The send loop moves packets from one queue to the other and to the       *)
(* network.                                                                 *)
LEMMA SendWindowTypes ==
  ASSUME NEW q \in Seq(Packets), NEW w \in Seq(Packets), SendWindow(q, w),
         dataNet \in SUBSET Packets
  PROVE  /\ dataQueue' \in Seq(Packets) /\ ackWaitQueue' \in Seq(Packets)
         /\ dataNet' \in SUBSET Packets
<1>1. PICK k \in 0..Len(q) :
        /\ dataNet' = dataNet \cup Elems(Take(q, k))
        /\ ackWaitQueue' = w \o Take(q, k)
        /\ dataQueue' = Drop(q, k)
  BY DEF SendWindow
<1>2. Take(q, k) \in Seq(Packets) /\ Drop(q, k) \in Seq(Packets)
  BY TakeProperties, DropProperties
<1>3. Elems(Take(q, k)) \subseteq Packets
  BY <1>2, ElemsProperties
<1> QED
  BY <1>1, <1>2, <1>3, ConcatProperties

LEMMA WindowWithType ==
  ASSUME sw \in SendWindowType, NEW d \in 0..(MaxDuplicate - 1), NEW c \in CtrlType
  PROVE  WindowWith(d, c) \in SendWindowType
BY DEF WindowWith, SendWindowType

(* updateACKQueue keeps the types of the uploader's state.                  *)
LEMMA UpdateACKQueueTypes ==
  ASSUME TypeOK, NEW ack \in 0..NumPkt, UpdateACKQueue(ack)
  PROVE  /\ dataQueue' \in Seq(Packets) /\ ackWaitQueue' \in Seq(Packets)
         /\ sw' \in SendWindowType
         /\ upTimeouts' \in 0..(MaxTimeouts - 1)
         /\ numConnUp' \in Int /\ upload' \in {"sending", "finished", "closed"}
<1> USE DEF TypeOK
<1>0. upTimeouts' \in 0..(MaxTimeouts - 1)
  BY TransferAssumption DEF UpdateACKQueue
<1>1. Expanded \in CtrlType /\ Expanded.windowSize \in Nat /\ ShrinkWindow(Expanded) \in CtrlType
  <2>1. sw.ctrl \in CtrlType
    BY DEF SendWindowType
  <2>2. Expanded \in CtrlType
    BY <2>1, CtrlSteps DEF Expanded
  <2> QED
    BY <2>2, CtrlSteps DEF CtrlType
<1>2. CASE AckAdvances(ack)
  <2>1. ackWaitQueue' \in Seq(Packets)
    BY <1>2, DropProperties DEF AckAdvances
  <2>2. sw' \in SendWindowType
    <3>1. CASE ack = NumPkt
      BY <1>2, <3>1, InitSendWindowType DEF AckAdvances
    <3>2. CASE ack # NumPkt
      <4>1. ack + Expanded.windowSize \in Nat /\ 0 \in 0..(MaxDuplicate - 1)
        BY <1>1, TransferAssumption
      <4> QED
        BY SMTT(30), <1>1, <1>2, <3>2, <4>1 DEF AckAdvances, SendWindowType
    <3> QED
      BY <3>1, <3>2
  <2> QED
    BY <1>0, <1>2, <2>1, <2>2 DEF AckAdvances
<1>3. CASE AckRepeats(ack)
  <2>1. dataQueue' \in Seq(Packets) /\ ackWaitQueue' \in Seq(Packets)
    <3>1. MergeAtFront(ackWaitQueue, dataQueue) \in Seq(Packets) /\ << >> \in Seq(Packets)
      BY ConcatProperties, EmptySeq DEF MergeAtFront
    <3> QED
      BY <1>3, <3>1 DEF AckRepeats
  <2>2. sw' \in SendWindowType
    <3>1. CASE sw.dupCount + 1 = MaxDuplicate
      BY <1>1, <1>3, <3>1, WindowWithType, TransferAssumption DEF AckRepeats
    <3>2. CASE sw.dupCount + 1 # MaxDuplicate
      <4>1. sw.dupCount + 1 \in 0..(MaxDuplicate - 1)
        BY <3>2, TransferAssumption DEF SendWindowType
      <4> QED
        BY <1>1, <1>3, <3>2, <4>1, WindowWithType DEF AckRepeats
    <3> QED
      BY <3>1, <3>2
  <2> QED
    BY <1>0, <1>3, <2>1, <2>2 DEF AckRepeats
<1>4. CASE AckIgnored(ack)
  <2>1. sw.dupCount \in 0..(MaxDuplicate - 1)
    BY DEF SendWindowType
  <2>2. sw' \in SendWindowType
    BY <1>1, <1>4, <2>1, WindowWithType DEF AckIgnored
  <2> QED
    BY <1>0, <1>4, <2>2 DEF AckIgnored
<1> QED
  BY <1>2, <1>3, <1>4 DEF UpdateACKQueue

(* updateGetSingleChunk keeps the types of the downloader's state.          *)
LEMMA UpdateGetSingleChunkTypes ==
  ASSUME TypeOK, NEW seq \in Packets, UpdateGetSingleChunk(seq)
  PROVE  /\ nextPacketExpected' \in Packets
         /\ cache' \in Seq(Packets) /\ ackSendQueue' \in Seq(0..NumPkt)
         /\ downTimeouts' \in 0..(MaxTimeouts - 1) /\ state' \in {0, 1}
         /\ numConnDown' \in Int /\ fetchState' \in {Unfetched, Fetched, Fetching}
         /\ written' \in SUBSET Packets
<1> USE DEF TypeOK
<1>0. downTimeouts' \in 0..(MaxTimeouts - 1)
  BY TransferAssumption DEF UpdateGetSingleChunk
<1>1. CASE DataEarly(seq)
  <2>1. cache' \in Seq(Packets)
    BY <1>1, InsertBehindProperties DEF DataEarly
  <2>2. ackSendQueue' \in Seq(0..NumPkt)
    <3>1. nextPacketExpected - 1 \in 0..NumPkt
      BY TransferAssumption DEF Packets
    <3> QED
      BY <1>1, <3>1, AppendProperties DEF DataEarly
  <2> QED
    BY <1>0, <1>1, <2>1, <2>2 DEF DataEarly
<1>2. CASE DataInOrder(seq)
  <2>1. PICK k \in 0..Len(cache), next \in (seq + 1)..(NumPkt + 1) :
          /\ ackSendQueue' = ackSendQueue \o <<seq>> \o Take(cache, k)
          /\ cache' = Drop(cache, k)
          /\ IF next > NumPkt
             THEN /\ fetchState' = Fetched
                  /\ state' = 0
                  /\ nextPacketExpected' = 1
                  /\ numConnDown' = numConnDown - 1
             ELSE /\ nextPacketExpected' = next
                  /\ UNCHANGED <<fetchState, state, numConnDown>>
    BY <1>2 DEF DataInOrder
  <2>2. cache' \in Seq(Packets) /\ Take(cache, k) \in Seq(Packets)
    BY <2>1, TakeProperties, DropProperties
  <2>3. Packets \subseteq 0..NumPkt
    BY TransferAssumption DEF Packets
  <2>4. Take(cache, k) \in Seq(0..NumPkt) /\ <<seq>> \in Seq(0..NumPkt)
    <3>1. Take(cache, k) \in Seq(0..NumPkt)
      BY <2>2, <2>3, SeqOfLarger
    <3>2. seq \in 0..NumPkt
      BY <2>3
    <3> QED
      BY <3>1, <3>2
  <2>5. ackSendQueue' \in Seq(0..NumPkt)
    BY <2>1, <2>4, ConcatProperties
  <2>6. nextPacketExpected' \in Packets
    BY <2>1, TransferAssumption DEF Packets
  <2>7. written' \in SUBSET Packets
    BY <1>2 DEF DataInOrder
  <2> QED
    BY SMTT(30), <1>0, <2>1, <2>2, <2>5, <2>6, <2>7
<1>3. CASE DataTooFar(seq)
  BY <1>0, <1>3 DEF DataTooFar
<1>4. CASE DataBehind(seq)
  <2>1. seq \in 0..NumPkt
    BY TransferAssumption DEF Packets
  <2> QED
    BY <1>0, <1>4, <2>1, AppendProperties DEF DataBehind
<1> QED
  BY <1>1, <1>2, <1>3, <1>4 DEF UpdateGetSingleChunk

LEMMA FlushAcksTypes ==
  ASSUME TypeOK, FlushAcks
  PROVE  /\ ackSendQueue' \in Seq(0..NumPkt) /\ ackNet' \in SUBSET (0..NumPkt)
         /\ downPhase' \in {"poll", "flush"}
         /\ ackNet' \subseteq ackNet \cup Elems(ackSendQueue)
<1>1. SentAcks \subseteq Elems(ackSendQueue)
  BY DEF SentAcks, Elems
<1>2. Elems(ackSendQueue) \subseteq 0..NumPkt
  BY ElemsProperties DEF TypeOK
<1>3. ackNet' = ackNet \cup SentAcks /\ ackSendQueue' = << >> /\ downPhase' = "poll"
  BY DEF FlushAcks
<1>4. ackNet \in SUBSET (0..NumPkt) /\ << >> \in Seq(0..NumPkt)
  BY EmptySeq DEF TypeOK
<1> QED
  BY <1>1, <1>2, <1>3, <1>4

LEMMA NextTypeOK == TypeOK /\ [Next]_vars => TypeOK'
<1> SUFFICES ASSUME TypeOK, [Next]_vars PROVE TypeOK'
  OBVIOUS
<1> USE DEF TypeOK
<1>1. ASSUME NEW ack \in ackNet, RecvAck(ack) PROVE TypeOK'
  BY <1>1, UpdateACKQueueTypes DEF RecvAck, downVars
<1>2. CASE FlushUpload
  BY <1>2, SendWindowTypes DEF FlushUpload, downVars
<1>3. CASE DataTimeout
  <2>1. MergeAtFront(ackWaitQueue, dataQueue) \in Seq(Packets) /\ << >> \in Seq(Packets)
    BY ConcatProperties, EmptySeq DEF MergeAtFront
  <2>2. sw' \in SendWindowType
    <3>1. ShrinkWindow(sw.ctrl) \in CtrlType
      BY CtrlSteps DEF SendWindowType
    <3> QED
      BY <1>3, <3>1 DEF DataTimeout, SendWindowType
  <2>3. upTimeouts' \in 0..(MaxTimeouts - 1)
    BY SMTT(30), <1>3, TransferAssumption DEF DataTimeout
  <2>4. /\ dataQueue' \in Seq(Packets) /\ ackWaitQueue' \in Seq(Packets)
        /\ dataNet' \in SUBSET Packets
    BY <1>3, <2>1, SendWindowTypes DEF DataTimeout
  <2> QED
    BY <1>3, <2>2, <2>3, <2>4 DEF DataTimeout, downVars
<1>4. CASE CloseUpload
  BY <1>4, InitSendWindowType, TransferAssumption DEF CloseUpload, downVars
<1>5. ASSUME NEW seq \in dataNet, RecvData(seq) PROVE TypeOK'
  BY <1>5, UpdateGetSingleChunkTypes DEF RecvData, upVars
<1>6. CASE FlushDownload
  BY <1>6, FlushAcksTypes DEF FlushDownload, upVars
<1>7. CASE GetTimeout
  <2>1. downTimeouts' \in 0..(MaxTimeouts - 1)
    BY <1>7, TransferAssumption DEF GetTimeout
  <2> QED
    BY <1>7, <2>1, FlushAcksTypes DEF GetTimeout, upVars
<1>8. CASE DropDownload
  BY <1>8, FlushAcksTypes, TransferAssumption DEF DropDownload, upVars, Packets
<1>9. CASE LosePacket
  BY <1>9 DEF LosePacket, upVars, downVars
<1>10. CASE UNCHANGED vars
  BY <1>10 DEF vars, upVars, downVars
<1> QED
  BY <1>1, <1>2, <1>3, <1>4, <1>5, <1>6, <1>7, <1>8, <1>9, <1>10 DEF Next

(* Every variable of the two peers and the network keeps its type, for a    *)
(* chunk, a window and limits of any size.                                  *)
THEOREM TypeCorrect == Spec => []TypeOK
<1>1. Init => TypeOK
  BY InitTypeOK
<1>2. TypeOK /\ [Next]_vars => TypeOK'
  BY NextTypeOK
<1> QED
  BY <1>1, <1>2, PTL DEF Spec

-----------------------------------------------------------------------------
(* The inductive invariant *)

(* While the upload is on, the packets let go were all acknowledged, the    *)
(* final one was not, and the window is open beyond the last ACK; once it   *)
(* is closed, nothing is left to send.                                      *)
WindowIsOpen ==
  /\ upload = "closed" => dataQueue = << >> /\ ackWaitQueue = << >>
  /\ upload = "sending" => /\ Released <= sw.lastPacketAcked
                           /\ sw.lastPacketAcked < NumPkt
                           /\ sw.lastPacketAcked < sw.lastPacketAvailable

(* What the downloader counts as received is in the file, and so is         *)
(* everything once either side is done.                                     *)
CountedIsWritten ==
  /\ 1..(nextPacketExpected - 1) \subseteq written
  /\ Elems(cache) \subseteq written
  /\ upload = "finished" => written = Packets
  /\ fetchState = Fetched => written = Packets

(* A connection that downloads has a chunk in state Fetching.               *)
DownloadIsOn == state = 1 => fetchState = Fetching

IInv ==
  /\ TypeOK
  /\ CongestionOK
  /\ QueuesAreTheRest
  /\ AckedIsWritten
  /\ NoStall
  /\ WindowIsOpen
  /\ CountedIsWritten
  /\ DownloadIsOn

LEMMA InitIInv == Init => IInv
<1> SUFFICES ASSUME Init PROVE IInv
  OBVIOUS
<1>1. TypeOK
  BY InitTypeOK
<1>2. CongestionOK
  BY InitSendWindowType DEF Init, CongestionOK
<1>3. Len(dataQueue) = NumPkt /\ Len(ackWaitQueue) = 0 /\ \A i \in 1..NumPkt : dataQueue[i] = i
  BY TransferAssumption DEF Init
<1>4. Released = 0 /\ QueuesAreTheRest
  BY <1>3, TransferAssumption DEF QueuesAreTheRest, Released
<1>5. Elems(cache) = {} /\ Elems(ackSendQueue) = {}
  BY DEF Init, Elems
<1>6. AckedIsWritten
  BY <1>4, <1>5 DEF Init, AckedIsWritten, InitSendWindow
<1>7. NoStall
  BY DEF Init, NoStall
<1>8. WindowIsOpen
  BY <1>4, TransferAssumption DEF Init, WindowIsOpen, InitSendWindow
<1>9. CountedIsWritten
  BY <1>5 DEF Init, CountedIsWritten, Fetched, Fetching
<1>10. DownloadIsOn
  BY DEF Init, DownloadIsOn
<1> QED
  BY <1>1, <1>2, <1>4, <1>6, <1>7, <1>8, <1>9, <1>10 DEF IInv

(* The send loop, over queues q and w that hold the packets after the R-th  *)
(* in order, keeps them in order; and it leaves a packet waiting if one     *)
(* waited before or the first one lies in the window.                       *)
LEMMA SendWindowKeepsOrder ==
  ASSUME NEW q \in Seq(Packets), NEW w \in Seq(Packets), SendWindow(q, w),
         NEW R \in Nat, R = NumPkt - Len(w) - Len(q),
         \A i \in 1..Len(w) : w[i] = R + i,
         \A i \in 1..Len(q) : q[i] = R + Len(w) + i,
         sw.lastPacketAvailable \in Nat
  PROVE  /\ QueuesAreTheRest' /\ Released' = R
         /\ w # << >> => ackWaitQueue' # << >>
         /\ q # << >> /\ R + Len(w) < sw.lastPacketAvailable => ackWaitQueue' # << >>
<1>1. PICK k \in 0..Len(q) :
        /\ PopsUpTo(q, sw.lastPacketAvailable, k)
        /\ ackWaitQueue' = w \o Take(q, k)
        /\ dataQueue' = Drop(q, k)
  BY DEF SendWindow
<1>2. Len(q) \in Nat /\ Len(w) \in Nat
  BY LenProperties
<1>3. /\ Take(q, k) \in Seq(Packets) /\ Len(Take(q, k)) = k
      /\ \A i \in 1..k : Take(q, k)[i] = q[i]
  BY TakeProperties
<1>4. /\ Len(dataQueue') = Len(q) - k
      /\ \A i \in 1..(Len(q) - k) : dataQueue'[i] = q[k + i]
  <2>1. /\ Len(Drop(q, k)) = Len(q) - k
        /\ \A i \in 1..(Len(q) - k) : Drop(q, k)[i] = q[k + i]
    BY DropProperties
  <2> QED
    BY <1>1, <2>1
<1>5. /\ Len(ackWaitQueue') = Len(w) + k
      /\ \A i \in 1..(Len(w) + k) :
           ackWaitQueue'[i] = IF i <= Len(w) THEN w[i] ELSE Take(q, k)[i - Len(w)]
  BY <1>1, <1>3, ConcatProperties
<1>6. Released' = R
  BY <1>2, <1>4, <1>5, TransferAssumption DEF Released
<1>7. ASSUME NEW i \in 1..Len(ackWaitQueue')
      PROVE  ackWaitQueue'[i] = R + i
  <2>1. CASE i <= Len(w)
    BY <1>2, <1>5, <1>7, <2>1
  <2>2. CASE ~(i <= Len(w))
    <3>1. i - Len(w) \in 1..k
      BY <1>2, <1>5, <1>7, <2>2
    <3>2. ackWaitQueue'[i] = q[i - Len(w)]
      BY <1>3, <1>5, <1>7, <2>2, <3>1
    <3>3. q[i - Len(w)] = R + Len(w) + (i - Len(w))
      BY <1>2, <3>1
    <3> QED
      BY <1>2, <3>1, <3>2, <3>3
  <2> QED
    BY <2>1, <2>2
<1>8. ASSUME NEW i \in 1..Len(dataQueue')
      PROVE  dataQueue'[i] = R + Len(ackWaitQueue') + i
  <2>1. k + i \in 1..Len(q) /\ dataQueue'[i] = q[k + i]
    BY <1>2, <1>4, <1>8
  <2>2. q[k + i] = R + Len(w) + (k + i)
    BY <2>1
  <2> QED
    BY <1>2, <1>5, <2>1, <2>2
<1>9. QueuesAreTheRest'
  BY <1>6, <1>7, <1>8 DEF QueuesAreTheRest
<1>10. w # << >> => ackWaitQueue' # << >>
  BY <1>2, <1>5, EmptySeq
<1>11. ASSUME q # << >>, R + Len(w) < sw.lastPacketAvailable
       PROVE  ackWaitQueue' # << >>
  <2>1. Len(q) >= 1
    BY <1>2, <1>11, EmptySeq
  <2>2. q[1] = R + Len(w) + 1
    BY <1>2, <2>1
  <2>3. k # 0
    BY <1>1, <1>2, <1>11, <2>1, <2>2 DEF PopsUpTo
  <2> QED
    BY <1>2, <1>5, <2>3
<1> QED
  BY <1>6, <1>9, <1>10, <1>11

(* mergeAtFront: the packets that waited come back, in front.               *)
LEMMA MergeKeepsOrder ==
  ASSUME TypeOK, QueuesAreTheRest
  PROVE  LET q == MergeAtFront(ackWaitQueue, dataQueue)
         IN /\ q \in Seq(Packets)
            /\ Len(q) = Len(ackWaitQueue) + Len(dataQueue)
            /\ \A i \in 1..Len(q) : q[i] = Released + i
<1>1. Len(ackWaitQueue) \in Nat /\ Len(dataQueue) \in Nat
  BY LenProperties DEF TypeOK
<1> DEFINE q == MergeAtFront(ackWaitQueue, dataQueue)
<1>2. /\ q \in Seq(Packets)
      /\ Len(q) = Len(ackWaitQueue) + Len(dataQueue)
      /\ \A i \in 1..(Len(ackWaitQueue) + Len(dataQueue)) :
           q[i] = IF i <= Len(ackWaitQueue) THEN ackWaitQueue[i]
                  ELSE dataQueue[i - Len(ackWaitQueue)]
  BY ConcatProperties DEF TypeOK, MergeAtFront
<1>3. ASSUME NEW i \in 1..Len(q)
      PROVE  q[i] = Released + i
  <2>0. Released \in Int
    BY <1>1, TransferAssumption DEF Released
  <2> HIDE DEF q
  <2>1. CASE i <= Len(ackWaitQueue)
    BY <1>1, <1>2, <2>1 DEF QueuesAreTheRest
  <2>2. CASE ~(i <= Len(ackWaitQueue))
    <3>1. i - Len(ackWaitQueue) \in 1..Len(dataQueue)
      BY <1>1, <1>2, <2>2
    <3>2. q[i] = dataQueue[i - Len(ackWaitQueue)]
      BY <1>2, <2>2
    <3>3. dataQueue[i - Len(ackWaitQueue)] = Released + Len(ackWaitQueue) + (i - Len(ackWaitQueue))
      BY <3>1 DEF QueuesAreTheRest
    <3> QED
      BY <1>1, <2>0, <3>1, <3>2, <3>3
  <2> QED
    BY <2>1, <2>2
<1> QED
  BY <1>2, <1>3

(* A handler of the uploader keeps what the invariant says of it.           *)
LEMMA UpdateACKQueueKeepsIInv ==
  ASSUME IInv, NEW ack \in ackNet, UpdateACKQueue(ack), UNCHANGED written
  PROVE  /\ CongestionOK' /\ QueuesAreTheRest' /\ WindowIsOpen'
         /\ upload' # "closed" => 1..Released' \subseteq written'
         /\ upload' = "sending" => 1..sw'.lastPacketAcked \subseteq written'
         /\ upload' = "finished" => written' = Packets
<1>0. /\ TypeOK /\ CongestionOK /\ QueuesAreTheRest /\ WindowIsOpen
      /\ AckedIsWritten /\ CountedIsWritten
  BY DEF IInv
<1>1. /\ Len(ackWaitQueue) \in Nat /\ Len(dataQueue) \in Nat
      /\ Released \in Nat /\ Released <= NumPkt
  BY <1>0, LenProperties, TransferAssumption DEF TypeOK, QueuesAreTheRest, Released
<1>2. ack \in 0..NumPkt /\ 1..ack \subseteq written
  BY <1>0 DEF TypeOK, AckedIsWritten
<1>3. sw.ctrl \in CtrlType
  BY <1>0 DEF TypeOK, SendWindowType
<1>4. Expanded \in CtrlType /\ CtrlOK(Expanded) /\ CtrlOK(ShrinkWindow(Expanded))
  BY <1>0, <1>3, CtrlSteps DEF Expanded, CongestionOK
<1>5. CASE AckAdvances(ack)
  <2>1. PICK k \in 1..Len(ackWaitQueue) :
          PopsUpTo(ackWaitQueue, ack, k) /\ ackWaitQueue' = Drop(ackWaitQueue, k)
    BY <1>5 DEF AckAdvances
  <2>2. /\ Len(ackWaitQueue') = Len(ackWaitQueue) - k
        /\ \A i \in 1..(Len(ackWaitQueue) - k) : ackWaitQueue'[i] = ackWaitQueue[k + i]
    <3>1. k \in 0..Len(ackWaitQueue) /\ ackWaitQueue \in Seq(Packets)
      BY <1>0, <1>1, <2>1 DEF TypeOK
    <3>2. /\ Len(Drop(ackWaitQueue, k)) = Len(ackWaitQueue) - k
          /\ \A i \in 1..(Len(ackWaitQueue) - k) :
               Drop(ackWaitQueue, k)[i] = ackWaitQueue[k + i]
      BY <3>1, DropProperties
    <3> QED
      BY <2>1, <3>2
  <2>3. Released' = Released + k /\ dataQueue' = dataQueue
    BY <1>1, <1>5, <2>2, TransferAssumption DEF AckAdvances, Released
  <2>4. Released + k <= ack
    <3>1. ackWaitQueue[k] <= ack
      BY <1>1, <2>1 DEF PopsUpTo
    <3> QED
      BY <1>0, <1>1, <2>1, <3>1 DEF QueuesAreTheRest
  <2>5. 1..Released' \subseteq written'
    BY <1>1, <1>2, <2>3, <2>4
  <2>6. QueuesAreTheRest'
    <3>1. \A i \in 1..Len(ackWaitQueue') : ackWaitQueue'[i] = Released' + i
      BY <1>0, <1>1, <2>1, <2>2, <2>3 DEF QueuesAreTheRest
    <3>2. \A i \in 1..Len(dataQueue') : dataQueue'[i] = Released' + Len(ackWaitQueue') + i
      BY <1>0, <1>1, <2>1, <2>2, <2>3 DEF QueuesAreTheRest
    <3> QED
      BY <1>1, <2>1, <2>3, <3>1, <3>2 DEF QueuesAreTheRest
  <2>7. upload # "closed"
    BY <1>0, <1>5 DEF AckAdvances, WindowIsOpen
  <2>8. CASE ack = NumPkt
    <3>1. sw' = InitSendWindow /\ upload' = "finished"
      BY <1>5, <2>8 DEF AckAdvances
    <3>2. written' = Packets
      BY <1>0, <1>2, <2>8 DEF TypeOK, Packets
    <3> QED
      BY <2>5, <2>6, <3>1, <3>2, InitSendWindowType DEF CongestionOK, WindowIsOpen
  <2>9. CASE ack # NumPkt
    <3>1. /\ sw' = [lastPacketAcked |-> ack,
                    lastPacketAvailable |-> ack + Expanded.windowSize,
                    dupCount |-> 0, ctrl |-> Expanded]
          /\ upload' = upload
      BY <1>5, <2>9 DEF AckAdvances
    <3>2. Expanded.windowSize \in Nat /\ Expanded.windowSize >= 1
      BY <1>4 DEF CtrlType, CtrlOK
    <3>3. WindowIsOpen'
      BY <1>2, <2>3, <2>4, <2>7, <2>9, <3>1, <3>2, TransferAssumption DEF WindowIsOpen
    <3>4. upload' = "finished" => written' = Packets
      BY <1>0, <3>1 DEF CountedIsWritten
    <3> QED
      BY <1>2, <1>4, <2>5, <2>6, <3>1, <3>3, <3>4 DEF CongestionOK
  <2> QED
    BY <2>8, <2>9
<1>6. CASE AckRepeats(ack)
  <2>1. /\ sw'.lastPacketAcked = sw.lastPacketAcked
        /\ sw'.lastPacketAvailable = sw.lastPacketAvailable
        /\ upload' = upload
        /\ sw'.ctrl \in {Expanded, ShrinkWindow(Expanded)}
    BY <1>6 DEF AckRepeats, WindowWith
  <2>2. Released' = Released /\ QueuesAreTheRest'
    <3>1. CASE sw.dupCount + 1 = MaxDuplicate
      <4>1. dataQueue' = MergeAtFront(ackWaitQueue, dataQueue) /\ ackWaitQueue' = << >>
        BY <1>6, <3>1 DEF AckRepeats
      <4>2. /\ Len(dataQueue') = Len(ackWaitQueue) + Len(dataQueue)
            /\ \A i \in 1..Len(dataQueue') : dataQueue'[i] = Released + i
            /\ Len(ackWaitQueue') = 0
        BY <1>0, <4>1, MergeKeepsOrder, EmptySeq
      <4>3. Released' = Released
        BY <1>1, <4>2, TransferAssumption DEF Released
      <4> QED
        BY <1>1, <4>2, <4>3 DEF QueuesAreTheRest
    <3>2. CASE sw.dupCount + 1 # MaxDuplicate
      BY <1>0, <1>6, <3>2 DEF AckRepeats, QueuesAreTheRest, Released
    <3> QED
      BY <3>1, <3>2
  <2>3. WindowIsOpen'
    BY <1>0, <1>6, <2>1, <2>2 DEF WindowIsOpen, AckRepeats
  <2> QED
    BY <1>0, <1>4, <2>1, <2>2, <2>3 DEF CongestionOK, AckedIsWritten, CountedIsWritten
<1>7. CASE AckIgnored(ack)
  <2>1. /\ sw'.lastPacketAcked = sw.lastPacketAcked
        /\ sw'.lastPacketAvailable = sw.lastPacketAvailable
        /\ sw'.ctrl = Expanded
        /\ UNCHANGED <<dataQueue, ackWaitQueue, upload>>
    BY <1>7 DEF AckIgnored, WindowWith
  <2>2. Released' = Released /\ QueuesAreTheRest' /\ WindowIsOpen'
    BY <1>0, <2>1 DEF WindowIsOpen, QueuesAreTheRest, Released
  <2> QED
    BY <1>0, <1>4, <2>1, <2>2 DEF CongestionOK, AckedIsWritten, CountedIsWritten
<1> QED
  BY <1>5, <1>6, <1>7 DEF UpdateACKQueue

(* So does a handler of the downloader, which only adds to the file.        *)
LEMMA UpdateGetSingleChunkKeepsIInv ==
  ASSUME IInv, NEW seq \in Packets, UpdateGetSingleChunk(seq)
  PROVE  /\ written \subseteq written' /\ written' \in SUBSET Packets
         /\ \A ack \in Elems(ackSendQueue') : 1..ack \subseteq written'
         /\ 1..(nextPacketExpected' - 1) \subseteq written'
         /\ Elems(cache') \subseteq written'
         /\ fetchState' = Fetched => written' = Packets
         /\ \/ UNCHANGED fetchState
            \/ fetchState' = Fetched /\ cache' = << >>
<1>0. TypeOK /\ AckedIsWritten /\ CountedIsWritten
  BY DEF IInv
<1>1. /\ nextPacketExpected \in Packets /\ cache \in Seq(Packets)
      /\ ackSendQueue \in Seq(0..NumPkt) /\ written \in SUBSET Packets
      /\ seq \in 1..NumPkt /\ Packets \subseteq Nat
  BY <1>0, TransferAssumption DEF TypeOK, Packets
<1>2. written' \in SUBSET Packets
  BY <1>0, UpdateGetSingleChunkTypes
<1>3. \A ack \in Elems(ackSendQueue) : 1..ack \subseteq written
  BY <1>0 DEF AckedIsWritten
<1>4. /\ 1..(nextPacketExpected - 1) \subseteq written /\ Elems(cache) \subseteq written
      /\ fetchState = Fetched => written = Packets
  BY <1>0 DEF CountedIsWritten
<1>5. ASSUME NEW a \in 0..NumPkt, ackSendQueue' = Append(ackSendQueue, a),
             1..a \subseteq written', written \subseteq written'
      PROVE  \A ack \in Elems(ackSendQueue') : 1..ack \subseteq written'
  <2>1. /\ Len(ackSendQueue) \in Nat /\ Len(ackSendQueue') = Len(ackSendQueue) + 1
        /\ \A i \in 1..Len(ackSendQueue) : ackSendQueue'[i] = ackSendQueue[i]
        /\ ackSendQueue'[Len(ackSendQueue) + 1] = a
    BY <1>1, <1>5, AppendProperties, LenProperties
  <2>2. Elems(ackSendQueue') \subseteq Elems(ackSendQueue) \cup {a}
    BY <2>1 DEF Elems
  <2> QED
    BY <1>3, <1>5, <2>2
<1>6. CASE DataEarly(seq)
  <2>1. /\ written' = written \cup {seq}
        /\ nextPacketExpected' = nextPacketExpected /\ fetchState' = fetchState
        /\ ackSendQueue' = Append(ackSendQueue, nextPacketExpected - 1)
    BY <1>6 DEF DataEarly
  <2>2. nextPacketExpected - 1 \in 0..NumPkt
    BY <1>1, TransferAssumption DEF Packets
  <2>3. Elems(cache') \subseteq Elems(cache) \cup {seq}
    BY <1>1, <1>6, InsertBehindProperties DEF DataEarly
  <2>4. \A ack \in Elems(ackSendQueue') : 1..ack \subseteq written'
    BY <1>4, <1>5, <2>1, <2>2
  <2>5. fetchState' = Fetched => written' = Packets
    BY <1>2, <1>4, <2>1
  <2> QED
    BY <1>2, <1>4, <2>1, <2>3, <2>4, <2>5
<1>7. CASE DataInOrder(seq)
  <2>1. PICK k \in 0..Len(cache), next \in (seq + 1)..(NumPkt + 1) :
          /\ FlushCache(seq, cache, k, next)
          /\ ackSendQueue' = ackSendQueue \o <<seq>> \o Take(cache, k)
          /\ cache' = Drop(cache, k)
          /\ IF next > NumPkt
             THEN /\ fetchState' = Fetched
                  /\ state' = 0
                  /\ nextPacketExpected' = 1
                  /\ numConnDown' = numConnDown - 1
             ELSE /\ nextPacketExpected' = next
                  /\ UNCHANGED <<fetchState, state, numConnDown>>
    BY <1>7 DEF DataInOrder
  <2>2. seq = nextPacketExpected /\ written' = written \cup {seq}
    BY <1>7 DEF DataInOrder
  <2>3. cache \in Seq(Nat) /\ seq \in Nat /\ Len(cache) \in Nat
    BY <1>1, SeqOfLarger, LenProperties
  <2>4. /\ (seq + 1)..(next - 1) \subseteq Elems(Take(cache, k))
        /\ \A i \in 1..k : cache[i] < next
        /\ k < Len(cache) => cache[k + 1] > next
    BY <2>1, <2>3, FlushCacheHasNoGap
  <2>5. Elems(Take(cache, k)) \subseteq written /\ Elems(cache') \subseteq written
    BY <1>1, <1>4, <2>1, ElemsProperties
  <2>6. 1..(next - 1) \subseteq written'
    <3>1. \A p \in 1..(next - 1) : p \in 1..(nextPacketExpected - 1) \/ p = seq
                                   \/ p \in (seq + 1)..(next - 1)
      BY <1>1, <2>1, <2>2
    <3> QED
      BY <1>4, <2>2, <2>4, <2>5, <3>1
  <2>7. \A ack \in Elems(ackSendQueue') : 1..ack \subseteq written'
    <3>1. /\ Take(cache, k) \in Seq(Nat) /\ <<seq>> \in Seq(Nat) /\ ackSendQueue \in Seq(Nat)
          /\ Len(Take(cache, k)) = k /\ \A i \in 1..k : Take(cache, k)[i] = cache[i]
      <4>1. ackSendQueue \in Seq(Nat)
        <5>1. 0..NumPkt \subseteq Nat
          BY TransferAssumption
        <5> QED
          BY <1>1, <5>1, SeqOfLarger
      <4>2. <<seq>> \in Seq(Nat)
        BY <2>3
      <4> QED
        BY <2>3, <4>1, <4>2, TakeProperties
    <3>2. Elems(ackSendQueue') \subseteq Elems(ackSendQueue) \cup {seq} \cup Elems(Take(cache, k))
      <4>1. ackSendQueue \o <<seq>> \in Seq(Nat)
        BY <3>1, ConcatProperties
      <4>2. Elems((ackSendQueue \o <<seq>>) \o Take(cache, k))
              \subseteq Elems(ackSendQueue) \cup Elems(<<seq>>) \cup Elems(Take(cache, k))
        BY <3>1, <4>1, ElemsConcat
      <4>3. Elems(<<seq>>) = {seq}
        BY DEF Elems
      <4> QED
        BY <2>1, <4>2, <4>3
    <3>3. \A a \in {seq} \cup Elems(Take(cache, k)) : a \in Nat /\ a < next
      <4>1. Elems(Take(cache, k)) = {cache[i] : i \in 1..k}
        BY <3>1 DEF Elems
      <4>2. \A i \in 1..k : cache[i] \in Nat
        BY <2>1, <2>3, ElementOfSeq
      <4> QED
        BY <2>1, <2>3, <2>4, <4>1, <4>2
    <3>4. \A a \in {seq} \cup Elems(Take(cache, k)) : 1..a \subseteq written'
      <4>1. next \in Int
        BY <2>1, <2>3, TransferAssumption
      <4>2. ASSUME NEW a \in Nat, a < next
            PROVE  1..a \subseteq 1..(next - 1)
        BY <4>1, <4>2
      <4> QED
        BY <2>6, <3>3, <4>2
    <3> QED
      BY <1>3, <2>2, <3>2, <3>4
  <2>8. CASE next > NumPkt
    <3>1. next = NumPkt + 1 /\ nextPacketExpected' = 1 /\ fetchState' = Fetched
      BY <2>1, <2>8, TransferAssumption
    <3>2. written' = Packets
      <4>1. next - 1 = NumPkt
        BY <3>1, TransferAssumption
      <4> QED
        BY <1>2, <2>6, <4>1 DEF Packets
    <3>3. cache' = << >>
      <4>1. ~(k < Len(cache))
        <5>1. SUFFICES ASSUME k < Len(cache) PROVE FALSE
          OBVIOUS
        <5>2. k + 1 \in 1..Len(cache)
          BY <2>3, <5>1
        <5>3. cache[k + 1] \in 1..NumPkt
          BY <1>1, <5>2, ElementOfSeq DEF Packets
        <5> QED
          BY <2>4, <3>1, <5>1, <5>3, TransferAssumption
      <4>2. k = Len(cache)
        BY <2>3, <4>1
      <4>3. Len(Drop(cache, k)) = 0 /\ Drop(cache, k) \in Seq(Packets)
        BY <1>1, <2>3, <4>2, DropProperties
      <4> QED
        BY <2>1, <4>3, EmptySeq
    <3> QED
      BY <1>2, <2>2, <2>5, <2>7, <3>1, <3>2, <3>3
  <2>9. CASE ~(next > NumPkt)
    <3>1. nextPacketExpected' = next /\ fetchState' = fetchState
      BY <2>1, <2>9
    <3>2. fetchState' = Fetched => written' = Packets
      BY <1>2, <1>4, <2>2, <3>1
    <3> QED
      BY <1>2, <2>2, <2>5, <2>6, <2>7, <3>1, <3>2
  <2> QED
    BY <2>8, <2>9
<1>8. CASE DataTooFar(seq)
  <2>1. /\ written' = written \cup {seq}
        /\ UNCHANGED <<nextPacketExpected, cache, ackSendQueue, fetchState>>
    BY <1>8 DEF DataTooFar
  <2> QED
    BY <1>2, <1>3, <1>4, <2>1
<1>9. CASE DataBehind(seq)
  <2>1. /\ UNCHANGED <<nextPacketExpected, cache, fetchState, written>>
        /\ seq < nextPacketExpected /\ ackSendQueue' = Append(ackSendQueue, seq)
    BY <1>9 DEF DataBehind
  <2>2. seq \in 0..NumPkt /\ 1..seq \subseteq written'
    BY <1>1, <1>4, <2>1
  <2>3. \A ack \in Elems(ackSendQueue') : 1..ack \subseteq written'
    BY <1>5, <2>1, <2>2
  <2> QED
    BY <1>2, <1>4, <2>1, <2>3
<1> QED
  BY <1>6, <1>7, <1>8, <1>9 DEF UpdateGetSingleChunk

(* The uploader's part of the invariant reads none of the downloader's      *)
(* variables but the file, which only grows; and conversely.                *)
UploaderUnchanged == UNCHANGED <<dataQueue, ackWaitQueue, sw, upload, upPhase>>

LEMMA UploaderUntouched ==
  ASSUME IInv, UploaderUnchanged, written \subseteq written', written' \in SUBSET Packets
  PROVE  /\ CongestionOK' /\ QueuesAreTheRest' /\ NoStall' /\ WindowIsOpen'
         /\ upload' # "closed" => 1..Released' \subseteq written'
         /\ upload' = "sending" => 1..sw'.lastPacketAcked \subseteq written'
         /\ upload' = "finished" => written' = Packets
<1>1. /\ Released' = Released
      /\ CongestionOK' /\ QueuesAreTheRest' /\ NoStall' /\ WindowIsOpen'
  BY DEF IInv, UploaderUnchanged, CongestionOK, QueuesAreTheRest, NoStall, WindowIsOpen, Released
<1>2. upload' = upload /\ sw' = sw
  BY DEF UploaderUnchanged
<1>3. /\ upload # "closed" => 1..Released \subseteq written
      /\ upload = "sending" => 1..sw.lastPacketAcked \subseteq written
      /\ upload = "finished" => written = Packets
  BY DEF IInv, AckedIsWritten, CountedIsWritten
<1> QED
  BY <1>1, <1>2, <1>3

LEMMA NextDownloadIsOn == DownloadIsOn /\ [Next]_vars => DownloadIsOn'
<1> SUFFICES ASSUME DownloadIsOn, [Next]_vars PROVE DownloadIsOn'
  OBVIOUS
<1> USE DEF DownloadIsOn
<1>1. ASSUME NEW seq \in dataNet, RecvData(seq) PROVE DownloadIsOn'
  <2>1. CASE DataInOrder(seq)
    BY <2>1 DEF DataInOrder
  <2>2. CASE DataEarly(seq) \/ DataTooFar(seq) \/ DataBehind(seq)
    BY <2>2 DEF DataEarly, DataTooFar, DataBehind
  <2> QED
    BY <1>1, <2>1, <2>2 DEF RecvData, UpdateGetSingleChunk
<1>2. CASE (\E ack \in ackNet : RecvAck(ack)) \/ FlushUpload \/ DataTimeout \/ CloseUpload
  BY <1>2 DEF RecvAck, FlushUpload, DataTimeout, CloseUpload, downVars
<1>3. CASE FlushDownload \/ GetTimeout \/ DropDownload
  BY <1>3 DEF FlushDownload, GetTimeout, DropDownload
<1>4. CASE LosePacket \/ UNCHANGED vars
  BY <1>4 DEF LosePacket, vars, downVars
<1> QED
  BY <1>1, <1>2, <1>3, <1>4 DEF Next

LEMMA NextIInv == IInv /\ [Next]_vars => IInv'
<1> SUFFICES ASSUME IInv, [Next]_vars PROVE IInv'
  OBVIOUS
<1>0. /\ TypeOK /\ CongestionOK /\ QueuesAreTheRest /\ WindowIsOpen /\ NoStall
      /\ AckedIsWritten /\ CountedIsWritten /\ TypeOK' /\ DownloadIsOn'
  BY NextTypeOK, NextDownloadIsOn DEF IInv
<1>a. /\ Len(ackWaitQueue) \in Nat /\ Len(dataQueue) \in Nat /\ Released \in Nat
      /\ sw.lastPacketAcked \in Nat /\ sw.lastPacketAvailable \in Nat
      /\ sw.ctrl \in CtrlType
  BY <1>0, LenProperties, TransferAssumption
     DEF TypeOK, SendWindowType, QueuesAreTheRest, Released
<1>b. /\ \A ack \in ackNet \cup Elems(ackSendQueue) : 1..ack \subseteq written
      /\ upload # "closed" => 1..Released \subseteq written
      /\ upload = "sending" => 1..sw.lastPacketAcked \subseteq written
      /\ 1..(nextPacketExpected - 1) \subseteq written /\ Elems(cache) \subseteq written
      /\ upload = "finished" => written = Packets
      /\ fetchState = Fetched => written = Packets
      /\ written \in SUBSET Packets
  BY <1>0 DEF AckedIsWritten, CountedIsWritten, TypeOK
<1>1. ASSUME NEW ack \in ackNet, RecvAck(ack) PROVE IInv'
  <2>1. /\ UpdateACKQueue(ack) /\ ackNet' \subseteq ackNet /\ upPhase' = "flush"
        /\ UNCHANGED <<nextPacketExpected, cache, ackSendQueue, fetchState, written>>
    BY <1>1 DEF RecvAck, downVars
  <2>2. /\ CongestionOK' /\ QueuesAreTheRest' /\ WindowIsOpen'
        /\ upload' # "closed" => 1..Released' \subseteq written'
        /\ upload' = "sending" => 1..sw'.lastPacketAcked \subseteq written'
        /\ upload' = "finished" => written' = Packets
    BY <2>1, UpdateACKQueueKeepsIInv
  <2>3. NoStall'
    BY <2>1 DEF NoStall
  <2>4. AckedIsWritten'
    BY <1>b, <2>1, <2>2 DEF AckedIsWritten
  <2>5. CountedIsWritten'
    BY <1>b, <2>1, <2>2 DEF CountedIsWritten
  <2> QED
    BY <1>0, <2>2, <2>3, <2>4, <2>5 DEF IInv
<1>2. CASE FlushUpload
  <2>1. /\ SendWindow(dataQueue, ackWaitQueue)
        /\ UNCHANGED <<sw, upload, ackNet, nextPacketExpected, cache, ackSendQueue,
                       fetchState, written>>
    BY <1>2 DEF FlushUpload, downVars
  <2>2. /\ QueuesAreTheRest' /\ Released' = Released
        /\ ackWaitQueue # << >> => ackWaitQueue' # << >>
        /\ dataQueue # << >> /\ Released + Len(ackWaitQueue) < sw.lastPacketAvailable
             => ackWaitQueue' # << >>
    <3>1. /\ dataQueue \in Seq(Packets) /\ ackWaitQueue \in Seq(Packets)
          /\ Released = NumPkt - Len(ackWaitQueue) - Len(dataQueue)
          /\ \A i \in 1..Len(ackWaitQueue) : ackWaitQueue[i] = Released + i
          /\ \A i \in 1..Len(dataQueue) : dataQueue[i] = Released + Len(ackWaitQueue) + i
      BY <1>0 DEF TypeOK, Released, QueuesAreTheRest
    <3> HIDE DEF Released
    <3> QED
      BY <1>a, <2>1, <3>1, SendWindowKeepsOrder
  <2>3. NoStall'
    <3>1. SUFFICES ASSUME upload = "sending", ackWaitQueue = << >>
                   PROVE  ackWaitQueue' # << >>
      BY <2>1, <2>2 DEF NoStall
    <3>2. Released < NumPkt /\ Released < sw.lastPacketAvailable
      BY <1>0, <1>a, <3>1, TransferAssumption DEF WindowIsOpen
    <3>3. Len(ackWaitQueue) = 0
      BY <3>1, EmptySeq
    <3>4. dataQueue # << >>
      BY <1>a, <3>2, <3>3, EmptySeq, TransferAssumption DEF Released
    <3> QED
      BY <1>a, <2>2, <3>2, <3>3, <3>4
  <2>4. WindowIsOpen'
    <3>1. upload = "closed" => dataQueue' = << >> /\ ackWaitQueue' = << >>
      <4>1. SUFFICES ASSUME upload = "closed"
                     PROVE  dataQueue' = << >> /\ ackWaitQueue' = << >>
        OBVIOUS
      <4>2. Len(dataQueue) = 0 /\ Len(ackWaitQueue) = 0
        BY <1>0, <4>1, EmptySeq DEF WindowIsOpen
      <4>3. dataQueue' \in Seq(Packets) /\ ackWaitQueue' \in Seq(Packets)
        BY <1>0 DEF TypeOK
      <4>4. NumPkt - Len(ackWaitQueue') - Len(dataQueue') = NumPkt - 0 - 0
        BY <2>2, <4>2 DEF Released
      <4>5. Len(dataQueue') = 0 /\ Len(ackWaitQueue') = 0
        BY <4>3, <4>4, LenProperties, TransferAssumption
      <4> QED
        BY <4>3, <4>5, EmptySeq
    <3> QED
      BY <1>0, <2>1, <2>2, <3>1 DEF WindowIsOpen
  <2>5. CongestionOK'
    BY <1>0, <2>1 DEF CongestionOK
  <2>6. AckedIsWritten'
    BY <1>b, <2>1, <2>2 DEF AckedIsWritten
  <2>7. CountedIsWritten'
    BY <1>b, <2>1 DEF CountedIsWritten
  <2> QED
    BY <1>0, <2>2, <2>3, <2>4, <2>5, <2>6, <2>7 DEF IInv
<1>3. CASE DataTimeout
  <2> DEFINE q == MergeAtFront(ackWaitQueue, dataQueue)
  <2>1. /\ SendWindow(q, << >>) /\ ackWaitQueue # << >>
        /\ sw'.lastPacketAcked = sw.lastPacketAcked
        /\ sw'.lastPacketAvailable = sw.lastPacketAvailable
        /\ sw'.ctrl = ShrinkWindow(sw.ctrl)
        /\ UNCHANGED <<upload, ackNet, nextPacketExpected, cache, ackSendQueue,
                       fetchState, written>>
    BY <1>0, <1>3 DEF DataTimeout, downVars, TypeOK, SendWindowType
  <2>2. /\ q \in Seq(Packets) /\ Len(q) = Len(ackWaitQueue) + Len(dataQueue)
        /\ \A i \in 1..Len(q) : q[i] = Released + i
    BY <1>0, MergeKeepsOrder
  <2>3. << >> \in Seq(Packets) /\ Len(<< >>) = 0
    BY EmptySeq
  <2>4. Len(q) > 0 /\ q # << >>
    BY <1>a, <2>1, <2>2, <2>3, EmptySeq
  <2>5. /\ QueuesAreTheRest' /\ Released' = Released
        /\ Released + 0 < sw.lastPacketAvailable => ackWaitQueue' # << >>
    <3> DEFINE w == << >>
    <3>1. w \in Seq(Packets) /\ Len(w) = 0 /\ SendWindow(q, w)
      BY <2>1, <2>3
    <3>2. Released = NumPkt - Len(w) - Len(q)
      BY <1>a, <2>2, <3>1, TransferAssumption DEF Released
    <3> HIDE DEF q, w, Released
    <3>3. /\ \A i \in 1..Len(w) : w[i] = Released + i
          /\ \A i \in 1..Len(q) : q[i] = Released + Len(w) + i
      BY <1>a, <2>2, <3>1
    <3>4. /\ QueuesAreTheRest' /\ Released' = Released
          /\ q # << >> /\ Released + Len(w) < sw.lastPacketAvailable => ackWaitQueue' # << >>
      <4>1. q \in Seq(Packets) /\ Released \in Nat /\ sw.lastPacketAvailable \in Nat
        BY <1>a, <2>2
      <4> QED
        BY ZenonT(30), <3>1, <3>2, <3>3, <4>1, SendWindowKeepsOrder
    <3> QED
      BY <2>4, <3>1, <3>4
  <2>6. upload # "closed"
    BY <1>0, <2>1 DEF WindowIsOpen
  <2>7. NoStall'
    BY <1>0, <1>a, <2>1, <2>5, <2>6 DEF NoStall, WindowIsOpen
  <2>8. WindowIsOpen'
    BY <1>0, <2>1, <2>5, <2>6 DEF WindowIsOpen
  <2>9. CongestionOK'
    BY <1>0, <1>a, <2>1, CtrlSteps DEF CongestionOK
  <2>10. AckedIsWritten'
    BY <1>b, <2>1, <2>5 DEF AckedIsWritten
  <2>11. CountedIsWritten'
    BY <1>b, <2>1 DEF CountedIsWritten
  <2> QED
    BY <1>0, <2>5, <2>7, <2>8, <2>9, <2>10, <2>11 DEF IInv
<1>4. CASE CloseUpload
  <2>1. /\ dataQueue' = << >> /\ ackWaitQueue' = << >> /\ sw' = InitSendWindow
        /\ upload' = (IF upload = "sending" THEN "closed" ELSE upload)
        /\ ackWaitQueue # << >>
        /\ UNCHANGED <<ackNet, nextPacketExpected, cache, ackSendQueue, fetchState, written>>
    BY <1>4 DEF CloseUpload, downVars
  <2>2. Len(dataQueue') = 0 /\ Len(ackWaitQueue') = 0 /\ Released' = NumPkt
    BY <2>1, EmptySeq, TransferAssumption DEF Released
  <2>3. upload' \in {"finished", "closed"} /\ (upload' = "finished" => upload = "finished")
    BY <1>0, <2>1 DEF TypeOK
  <2>4. QueuesAreTheRest'
    BY <2>2, TransferAssumption DEF QueuesAreTheRest
  <2>5. WindowIsOpen' /\ NoStall'
    BY <2>1, <2>3 DEF WindowIsOpen, NoStall
  <2>6. CongestionOK'
    BY <2>1, InitSendWindowType DEF CongestionOK
  <2>7. AckedIsWritten'
    BY <1>b, <2>1, <2>2, <2>3 DEF AckedIsWritten, Packets
  <2>8. CountedIsWritten'
    BY <1>b, <2>1, <2>3 DEF CountedIsWritten
  <2> QED
    BY <1>0, <2>4, <2>5, <2>6, <2>7, <2>8 DEF IInv
<1>5. ASSUME NEW seq \in dataNet, RecvData(seq) PROVE IInv'
  <2>1. UpdateGetSingleChunk(seq) /\ UploaderUnchanged /\ ackNet' = ackNet
    BY <1>5 DEF RecvData, upVars, UploaderUnchanged
  <2>2. seq \in Packets
    BY <1>0 DEF TypeOK
  <2>3. /\ written \subseteq written' /\ written' \in SUBSET Packets
        /\ \A ack \in Elems(ackSendQueue') : 1..ack \subseteq written'
        /\ 1..(nextPacketExpected' - 1) \subseteq written'
        /\ Elems(cache') \subseteq written'
        /\ fetchState' = Fetched => written' = Packets
    BY <2>1, <2>2, UpdateGetSingleChunkKeepsIInv
  <2>4. /\ CongestionOK' /\ QueuesAreTheRest' /\ NoStall' /\ WindowIsOpen'
        /\ upload' # "closed" => 1..Released' \subseteq written'
        /\ upload' = "sending" => 1..sw'.lastPacketAcked \subseteq written'
        /\ upload' = "finished" => written' = Packets
    BY <2>1, <2>3, UploaderUntouched
  <2>5. AckedIsWritten'
    BY <1>b, <2>1, <2>3, <2>4 DEF AckedIsWritten
  <2>6. CountedIsWritten'
    BY <2>3, <2>4 DEF CountedIsWritten
  <2> QED
    BY <1>0, <2>4, <2>5, <2>6 DEF IInv
<1>6. ASSUME FlushAcks, UploaderUnchanged, UNCHANGED <<cache, written>>,
             nextPacketExpected' \in {1, nextPacketExpected},
             fetchState' \in {Unfetched, fetchState}
      PROVE  IInv'
  <2>1. /\ CongestionOK' /\ QueuesAreTheRest' /\ NoStall' /\ WindowIsOpen'
        /\ upload' # "closed" => 1..Released' \subseteq written'
        /\ upload' = "sending" => 1..sw'.lastPacketAcked \subseteq written'
        /\ upload' = "finished" => written' = Packets
    BY <1>6, <1>b, UploaderUntouched
  <2>2. ackNet' \subseteq ackNet \cup Elems(ackSendQueue) /\ Elems(ackSendQueue') = {}
    BY <1>0, <1>6, FlushAcksTypes DEF FlushAcks, Elems
  <2>3. AckedIsWritten'
    BY <1>6, <1>b, <2>1, <2>2 DEF AckedIsWritten
  <2>4. 1..(nextPacketExpected' - 1) \subseteq written'
    <3>1. CASE nextPacketExpected' = 1
      BY <3>1
    <3>2. CASE nextPacketExpected' = nextPacketExpected
      BY <1>6, <1>b, <3>2
    <3> QED
      BY <1>6, <3>1, <3>2
  <2>5. CountedIsWritten'
    <3>1. fetchState' = Fetched => fetchState = Fetched
      BY <1>6 DEF Unfetched, Fetched
    <3> QED
      BY <1>6, <1>b, <2>1, <2>4, <3>1 DEF CountedIsWritten
  <2> QED
    BY <1>0, <2>1, <2>3, <2>5 DEF IInv
<1>7. CASE FlushDownload
  BY <1>6, <1>7 DEF FlushDownload, upVars, UploaderUnchanged
<1>8. CASE GetTimeout
  BY <1>6, <1>8 DEF GetTimeout, upVars, UploaderUnchanged
<1>9. CASE DropDownload
  BY <1>6, <1>9 DEF DropDownload, upVars, UploaderUnchanged
<1>10. ASSUME ackNet' \subseteq ackNet, UploaderUnchanged, UNCHANGED downVars
       PROVE  IInv'
  <2>1. /\ CongestionOK' /\ QueuesAreTheRest' /\ NoStall' /\ WindowIsOpen'
        /\ upload' # "closed" => 1..Released' \subseteq written'
        /\ upload' = "sending" => 1..sw'.lastPacketAcked \subseteq written'
        /\ upload' = "finished" => written' = Packets
    BY <1>10, <1>b, UploaderUntouched DEF downVars
  <2>2. UNCHANGED <<nextPacketExpected, cache, ackSendQueue, fetchState, written>>
    BY <1>10 DEF downVars
  <2>3. AckedIsWritten'
    BY <1>10, <1>b, <2>1, <2>2 DEF AckedIsWritten
  <2>4. CountedIsWritten'
    BY <1>b, <2>1, <2>2 DEF CountedIsWritten
  <2> QED
    BY <1>0, <2>1, <2>3, <2>4 DEF IInv
<1>11. CASE LosePacket
  BY <1>10, <1>11 DEF LosePacket, upVars, UploaderUnchanged
<1>12. CASE UNCHANGED vars
  BY <1>10, <1>12 DEF vars, upVars, UploaderUnchanged
<1> QED
  BY <1>1, <1>2, <1>3, <1>4, <1>5, <1>7, <1>8, <1>9, <1>11, <1>12 DEF Next

LEMMA InvariantHolds == Spec => []IInv
<1>1. Init => IInv
  BY InitIInv
<1>2. IInv /\ [Next]_vars => IInv'
  BY NextIInv
<1> QED
  BY <1>1, <1>2, PTL DEF Spec

-----------------------------------------------------------------------------
(* The safety properties *)

(* The uploader lets go of a packet, and the window moves over it, only     *)
(* when it is in the downloader's file.                                     *)
THEOREM AckedIsWrittenHolds == Spec => []AckedIsWritten
<1>1. IInv => AckedIsWritten
  BY DEF IInv
<1> QED
  BY <1>1, InvariantHolds, PTL

(* The two queues of the uploader are always the rest of the chunk, in      *)
(* order.                                                                   *)
THEOREM QueuesAreTheRestHolds == Spec => []QueuesAreTheRest
<1>1. IInv => QueuesAreTheRest
  BY DEF IInv
<1> QED
  BY <1>1, InvariantHolds, PTL

(* After every iteration of peer_run, an upload that is on has a packet     *)
(* that waits for its ACK, and so a timer.                                  *)
THEOREM NoStallHolds == Spec => []NoStall
<1>1. IInv => NoStall
  BY DEF IInv
<1> QED
  BY <1>1, InvariantHolds, PTL

(* The window and the threshold stay in the relation that the tests for     *)
(* equality of expandWindow need.                                           *)
THEOREM CongestionOKHolds == Spec => []CongestionOK
<1>1. IInv => CongestionOK
  BY DEF IInv
<1> QED
  BY <1>1, InvariantHolds, PTL

(* A chunk that is fetched leaves no ACK in the cache for the next one.     *)
THEOREM FetchedEmptiesCacheHolds == Spec => FetchedEmptiesCache
<1>1. IInv /\ [Next]_vars => [fetchState' = Fetched /\ fetchState # Fetched => cache' = << >>]_vars
  <2> SUFFICES ASSUME IInv, Next, fetchState' = Fetched, fetchState # Fetched
               PROVE  cache' = << >>
    BY DEF vars
  <2>1. ASSUME NEW seq \in dataNet, RecvData(seq) PROVE cache' = << >>
    BY <2>1, UpdateGetSingleChunkKeepsIInv DEF RecvData, IInv, TypeOK
  <2>2. CASE \E ack \in ackNet : RecvAck(ack)
    BY <2>2 DEF RecvAck, downVars
  <2>3. CASE FlushUpload \/ DataTimeout \/ CloseUpload
    BY <2>3 DEF FlushUpload, DataTimeout, CloseUpload, downVars
  <2>4. CASE FlushDownload \/ GetTimeout \/ DropDownload
    BY <2>4 DEF FlushDownload, GetTimeout, DropDownload, Unfetched, Fetched
  <2>5. CASE LosePacket
    BY <2>5 DEF LosePacket, downVars
  <2> QED
    BY <2>1, <2>2, <2>3, <2>4, <2>5 DEF Next
<1> QED
  BY <1>1, InvariantHolds, PTL DEF Spec, FetchedEmptiesCache

(* The transfer, with its windows, queues, retransmissions and network,     *)
(* implements the reliable transfer of ReliableTransfer: the chunk is       *)
(* declared fetched, and the upload finished, only with the file complete.  *)
THEOREM TransferImplementsReliableTransfer == Spec => Implements
<1>1. Init => Abstract!Init
  BY DEF Init, Abstract!Init, Fetching, Abstract!Fetching
<1>2. IInv /\ IInv' /\ [Next]_vars => [Abstract!Next]_(Abstract!vars)
  <2> SUFFICES ASSUME IInv, IInv', [Next]_vars
               PROVE  Abstract!Next \/ UNCHANGED Abstract!vars
    BY DEF Abstract!vars
  <2> USE DEF Abstract!vars, Abstract!Next
  <2>1. ASSUME NEW ack \in ackNet, RecvAck(ack)
        PROVE  Abstract!Next \/ UNCHANGED Abstract!vars
    <3>1. UNCHANGED <<written, fetchState>> /\ UpdateACKQueue(ack)
      BY <2>1 DEF RecvAck, downVars
    <3>2. CASE upload' = upload
      BY <3>1, <3>2
    <3>3. CASE upload' # upload
      <4>1. upload' = "finished" /\ ackWaitQueue # << >>
        BY <3>1, <3>3 DEF UpdateACKQueue, AckAdvances, AckRepeats, AckIgnored
      <4>2. upload = "sending"
        BY <3>3, <4>1 DEF IInv, TypeOK, WindowIsOpen
      <4>3. written = Packets
        BY <3>1, <4>1 DEF IInv, CountedIsWritten
      <4> QED
        BY <3>1, <4>1, <4>2, <4>3 DEF Abstract!FinishUpload, Packets, Abstract!Packets
    <3> QED
      BY <3>2, <3>3
  <2>2. CASE FlushUpload \/ DataTimeout
    BY <2>2 DEF FlushUpload, DataTimeout, downVars
  <2>3. CASE CloseUpload
    BY <2>3 DEF CloseUpload, downVars, Abstract!GiveUpUpload
  <2>4. ASSUME NEW seq \in dataNet, RecvData(seq)
        PROVE  Abstract!Next
    <3>1. /\ written \subseteq written' /\ written' \in SUBSET Packets
          /\ fetchState' = Fetched => written' = Packets
          /\ UNCHANGED fetchState \/ fetchState' = Fetched
      BY <2>4, UpdateGetSingleChunkKeepsIInv DEF RecvData, IInv, TypeOK
    <3>2. upload' = upload
      BY <2>4 DEF RecvData, upVars
    <3> QED
      BY <3>1, <3>2 DEF Abstract!Arrive, Packets, Abstract!Packets, Fetched, Abstract!Fetched
  <2>5. CASE FlushDownload \/ GetTimeout
    BY <2>5 DEF FlushDownload, GetTimeout, upVars
  <2>6. CASE DropDownload
    <3>1. fetchState' = Unfetched /\ UNCHANGED <<written, upload>>
      BY <2>6 DEF DropDownload, upVars
    <3>2. state = 1 => fetchState = Fetching
      BY DEF IInv, DownloadIsOn
    <3> QED
      BY <2>6, <3>1, <3>2 DEF DropDownload, Abstract!GiveUpDownload, Fetching,
         Abstract!Fetching, Unfetched, Abstract!Unfetched
  <2>7. CASE LosePacket
    BY <2>7 DEF LosePacket, upVars, downVars
  <2>8. CASE UNCHANGED vars
    BY <2>8 DEF vars, upVars, downVars
  <2> QED
    BY <2>1, <2>2, <2>3, <2>4, <2>5, <2>6, <2>7, <2>8 DEF Next
<1> QED
  BY <1>1, <1>2, InvariantHolds, PTL DEF Spec, Implements, Abstract!Spec
=============================================================================
