-------------------------- MODULE UploadPool_proofs --------------------------
(***************************************************************************)
(* Theorems about UploadPool, for any peers, sizes of chunk and window, and *)
(* limits: type correctness, that whole chunks follow one another in the    *)
(* queues, that the count of connections is exact and its limit kept, and   *)
(* that no upload is left without a timer.                                  *)
(***************************************************************************)
EXTENDS UploadPool, PacketQueue_proofs, FiniteSetTheorems

-----------------------------------------------------------------------------
(* Types *)

LEMMA Sizes ==
  /\ NumPkt \in Nat /\ InitAvail \in Nat /\ MaxWindow \in Nat /\ MaxTimeouts \in Nat
  /\ 0 < InitAvail /\ InitAvail < NumPkt /\ 1 < MaxWindow /\ 0 < MaxTimeouts
BY UploadAssumption

LEMMA WholeChunkType ==
  WholeChunk \in Seq(Packets) /\ Len(WholeChunk) = NumPkt /\ WholeChunk # << >>
    /\ \A i \in 1..NumPkt : WholeChunk[i] = i
<1>1. WholeChunk \in [1..NumPkt -> Packets]
  BY DEF WholeChunk, Packets
<1> QED
  BY <1>1, Sizes DEF WholeChunk

LEMMA EmptyType == << >> \in Seq(Packets)
OBVIOUS

LEMMA InitWindowType ==
  ASSUME TypeOK, NEW q \in Peers, InitSendWindow(q)
  PROVE  /\ lastPacketAcked' \in [Peers -> 0..(NumPkt - 1)]
         /\ lastPacketAvailable' \in [Peers -> 1..(NumPkt + MaxWindow)]
<1>1. 0 \in 0..(NumPkt - 1) /\ InitAvail \in 1..(NumPkt + MaxWindow)
  BY Sizes
<1> QED
  BY <1>1 DEF TypeOK, InitSendWindow

LEMMA VisitType ==
  ASSUME TypeOK, NEW q \in Peers, Visit(q)
  PROVE  phase' \in {"poll", "upload", "crashed"} /\ todo' \in SUBSET Peers
BY DEF TypeOK, Visit

LEMMA SendWindowType ==
  ASSUME TypeOK, NEW q \in Peers, NEW d \in Seq(Packets), NEW w \in Seq(Packets),
         SendWindow(q, d, w)
  PROVE  /\ dataQueue' \in [Peers -> Seq(Packets)]
         /\ ackWaitQueue' \in [Peers -> Seq(Packets)]
         /\ sent' \in [Peers -> SUBSET Packets]
<1>1. PICK k \in 0..Len(d) :
        /\ dataQueue' = [dataQueue EXCEPT ![q] = Drop(d, k)]
        /\ ackWaitQueue' = [ackWaitQueue EXCEPT ![q] = w \o Take(d, k)]
        /\ sent' = [sent EXCEPT ![q] = @ \cup Elems(Take(d, k))]
  BY DEF SendWindow
<1>2. Drop(d, k) \in Seq(Packets) /\ Take(d, k) \in Seq(Packets)
  BY DropProperties, TakeProperties
<1>3. w \o Take(d, k) \in Seq(Packets)
  BY <1>2
<1>4. Elems(Take(d, k)) \subseteq Packets
  BY <1>2, ElemsProperties
<1> QED
  BY <1>1, <1>2, <1>3, <1>4 DEF TypeOK

LEMMA PopsType ==
  ASSUME TypeOK, NEW q \in Peers, NEW ack, Pops(q, ack)
  PROVE  ackWaitQueue' \in [Peers -> Seq(Packets)]
<1>1. PICK k \in 1..Len(ackWaitQueue[q]) :
        ackWaitQueue' = [ackWaitQueue EXCEPT ![q] = Drop(@, k)]
  BY DEF Pops
<1>2. ackWaitQueue[q] \in Seq(Packets) /\ k \in 0..Len(ackWaitQueue[q])
  BY LenProperties DEF TypeOK
<1>3. Drop(ackWaitQueue[q], k) \in Seq(Packets)
  BY <1>2, DropProperties
<1> QED
  BY <1>1, <1>3 DEF TypeOK

LEMMA MergeType ==
  ASSUME NEW a \in Seq(Packets), NEW d \in Seq(Packets)
  PROVE  MergeAtFront(a, d) \in Seq(Packets)
BY DEF MergeAtFront

LEMMA TypeInit == Init => TypeOK
<1> SUFFICES ASSUME Init PROVE TypeOK
  OBVIOUS
<1>1. /\ lastPacketAcked \in [Peers -> 0..(NumPkt - 1)]
      /\ lastPacketAvailable \in [Peers -> 1..(NumPkt + MaxWindow)]
      /\ timeoutCount \in [Peers -> 0..(MaxTimeouts - 1)]
  BY Sizes DEF Init
<1>2. /\ dataQueue \in [Peers -> Seq(Packets)] /\ ackWaitQueue \in [Peers -> Seq(Packets)]
      /\ sent \in [Peers -> SUBSET Packets] /\ connected \in [Peers -> BOOLEAN]
  BY EmptyType DEF Init
<1>3. maxConn \in MaxConns /\ numConnUp \in Int
  BY DEF Init
<1>4. phase \in {"poll", "upload", "crashed"} /\ todo \in SUBSET Peers
  BY DEF Init
<1>5. /\ on \in SUBSET Peers /\ jumped \in SUBSET Peers /\ reset \in SUBSET Peers
      /\ leaked \in BOOLEAN /\ early \in BOOLEAN
  BY DEF Init
<1> QED
  BY <1>1, <1>2, <1>3, <1>4, <1>5 DEF TypeOK

LEMMA TypeStep == TypeOK /\ [Next]_vars => TypeOK'
<1> SUFFICES ASSUME TypeOK, [Next]_vars PROVE TypeOK'
  OBVIOUS
<1> USE DEF queueVars, windowVars, history
<1>1. CASE UNCHANGED vars
  BY <1>1 DEF vars, TypeOK
<1>2. CASE NoPacket
  BY <1>2 DEF NoPacket, Handled, TypeOK
<1>3. ASSUME NEW q \in Peers, GetDenied(q) \/ GetRefused(q)
      PROVE  TypeOK'
  <2>1. /\ numConnUp' \in Int
        /\ phase' \in {"poll", "upload", "crashed"} /\ todo' \in SUBSET Peers
    BY <1>3 DEF GetDenied, GetRefused, FreedTwice, TypeOK
  <2>2. leaked' \in BOOLEAN /\ UNCHANGED <<maxConn, queueVars, windowVars, timeoutCount, connected, sent,
                                          on, jumped, reset, early>>
    BY <1>3 DEF GetDenied, GetRefused, TypeOK
  <2> QED
    BY <2>1, <2>2 DEF TypeOK
<1>4. ASSUME NEW q \in Peers, GetAccepted(q)
      PROVE  TypeOK'
  <2>1. dataQueue[q] \o WholeChunk \in Seq(Packets)
    BY WholeChunkType DEF TypeOK
  <2>2. dataQueue' \in [Peers -> Seq(Packets)] /\ ackWaitQueue' \in [Peers -> Seq(Packets)]
    BY <1>4, <2>1, EmptyType DEF GetAccepted, TypeOK
  <2>3. /\ lastPacketAcked' \in [Peers -> 0..(NumPkt - 1)]
        /\ lastPacketAvailable' \in [Peers -> 1..(NumPkt + MaxWindow)]
    BY <1>4, InitWindowType DEF GetAccepted
  <2>4. /\ numConnUp' \in Int /\ on' \in SUBSET Peers /\ jumped' \in SUBSET Peers
        /\ reset' \in SUBSET Peers /\ leaked' \in BOOLEAN
    BY <1>4 DEF GetAccepted, TypeOK
  <2> QED
    BY <1>4, <2>2, <2>3, <2>4 DEF GetAccepted, Handled, TypeOK
<1>5. ASSUME NEW q \in Peers, NEW ack \in 0..NumPkt, UpdateACKQueue(q, ack)
      PROVE  TypeOK'
  <2>1. RecvAck(q, ack)
    BY <1>5 DEF UpdateACKQueue, AckAdvances, AckFinishes, AckIgnored, AckRetransmits
  <2>2. /\ timeoutCount' \in [Peers -> 0..(MaxTimeouts - 1)]
        /\ phase' \in {"poll", "upload", "crashed"} /\ todo' \in SUBSET Peers
        /\ UNCHANGED <<maxConn, connected, sent>>
    BY <2>1, Sizes DEF RecvAck, Handled, TypeOK
  <2>3. CASE AckAdvances(q, ack)
    <3>1. ackWaitQueue' \in [Peers -> Seq(Packets)]
      BY <2>3, PopsType DEF AckAdvances
    <3>2. ack \in 0..(NumPkt - 1)
      BY <2>3, Sizes DEF AckAdvances
    <3>3. lastPacketAcked' \in [Peers -> 0..(NumPkt - 1)]
      BY <2>3, <3>2 DEF AckAdvances, TypeOK
    <3>4. PICK window \in 2..MaxWindow :
            lastPacketAvailable' = [lastPacketAvailable EXCEPT ![q] = ack + window]
      BY <2>3 DEF AckAdvances
    <3>5. ack + window \in 1..(NumPkt + MaxWindow)
      BY <3>2, Sizes
    <3>6. lastPacketAvailable' \in [Peers -> 1..(NumPkt + MaxWindow)]
      BY <3>4, <3>5 DEF TypeOK
    <3>7. reset' \in SUBSET Peers
      BY <2>3 DEF AckAdvances, TypeOK
    <3> QED
      BY <2>2, <2>3, <3>1, <3>3, <3>6, <3>7 DEF AckAdvances, TypeOK
  <2>4. CASE AckFinishes(q, ack)
    <3>1. ackWaitQueue' \in [Peers -> Seq(Packets)]
      BY <2>4, PopsType DEF AckFinishes
    <3>2. /\ lastPacketAcked' \in [Peers -> 0..(NumPkt - 1)]
          /\ lastPacketAvailable' \in [Peers -> 1..(NumPkt + MaxWindow)]
      BY <2>4, InitWindowType DEF AckFinishes
    <3>3. /\ numConnUp' \in Int /\ on' \in SUBSET Peers /\ reset' \in SUBSET Peers
          /\ early' \in BOOLEAN
      BY <2>4 DEF AckFinishes, TypeOK
    <3> QED
      BY <2>2, <2>4, <3>1, <3>2, <3>3 DEF AckFinishes, TypeOK
  <2>5. CASE AckIgnored(q, ack)
    BY <2>2, <2>5 DEF AckIgnored, TypeOK
  <2>6. CASE AckRetransmits(q, ack)
    <3>1. MergeAtFront(ackWaitQueue[q], dataQueue[q]) \in Seq(Packets)
      BY MergeType DEF TypeOK
    <3>2. dataQueue' \in [Peers -> Seq(Packets)] /\ ackWaitQueue' \in [Peers -> Seq(Packets)]
      BY <2>6, <3>1, EmptyType DEF AckRetransmits, TypeOK
    <3> QED
      BY <2>2, <2>6, <3>2 DEF AckRetransmits, TypeOK
  <2> QED
    BY <1>5, <2>3, <2>4, <2>5, <2>6 DEF UpdateACKQueue
<1>6. ASSUME NEW q \in Peers, Send(q)
      PROVE  TypeOK'
  <2>1. /\ dataQueue' \in [Peers -> Seq(Packets)] /\ ackWaitQueue' \in [Peers -> Seq(Packets)]
        /\ sent' \in [Peers -> SUBSET Packets]
    BY <1>6, SendWindowType DEF Send, TypeOK
  <2> QED
    BY <1>6, <2>1, VisitType DEF Send, TypeOK
<1>7. ASSUME NEW q \in Peers, DataTimeout(q)
      PROVE  TypeOK'
  <2>1. MergeAtFront(ackWaitQueue[q], dataQueue[q]) \in Seq(Packets)
    BY MergeType DEF TypeOK
  <2>2. /\ dataQueue' \in [Peers -> Seq(Packets)] /\ ackWaitQueue' \in [Peers -> Seq(Packets)]
        /\ sent' \in [Peers -> SUBSET Packets]
    BY <1>7, <2>1, EmptyType, SendWindowType DEF DataTimeout
  <2>3. timeoutCount' \in [Peers -> 0..(MaxTimeouts - 1)]
    BY <1>7, Sizes DEF DataTimeout, TypeOK
  <2> QED
    BY <1>7, <2>2, <2>3, VisitType DEF DataTimeout, TypeOK
<1>8. ASSUME NEW q \in Peers, CloseUpload(q)
      PROVE  TypeOK'
  <2>1. /\ lastPacketAcked' \in [Peers -> 0..(NumPkt - 1)]
        /\ lastPacketAvailable' \in [Peers -> 1..(NumPkt + MaxWindow)]
    BY <1>8, InitWindowType DEF CloseUpload, CleanUpConnUp
  <2>2. /\ dataQueue' \in [Peers -> Seq(Packets)] /\ ackWaitQueue' \in [Peers -> Seq(Packets)]
        /\ timeoutCount' \in [Peers -> 0..(MaxTimeouts - 1)]
    BY <1>8, EmptyType, Sizes DEF CloseUpload, CleanUpConnUp, TypeOK
  <2>3. /\ numConnUp' \in Int /\ on' \in SUBSET Peers /\ jumped' \in SUBSET Peers
        /\ reset' \in SUBSET Peers
    BY <1>8 DEF CloseUpload, TypeOK
  <2> QED
    BY <1>8, <2>1, <2>2, <2>3, VisitType DEF CloseUpload, TypeOK
<1>9. ASSUME NEW q \in Peers, DownloadOpens(q) \/ DownloadGivesUp(q)
      PROVE  TypeOK'
  BY <1>9 DEF DownloadOpens, DownloadGivesUp, TypeOK
<1>10. ASSUME NEW q \in Peers, DownloadCompletes(q)
       PROVE  TypeOK'
  <2>1. /\ lastPacketAcked' \in [Peers -> 0..(NumPkt - 1)]
        /\ lastPacketAvailable' \in [Peers -> 1..(NumPkt + MaxWindow)]
    BY <1>10, InitWindowType DEF DownloadCompletes
  <2>2. connected' \in [Peers -> BOOLEAN] /\ reset' \in SUBSET Peers
    BY <1>10 DEF DownloadCompletes, TypeOK
  <2> QED
    BY <1>10, <2>1, <2>2 DEF DownloadCompletes, Handled, TypeOK
<1>11. ASSUME NEW q \in Peers, GetUnknown(q)
       PROVE  TypeOK'
  <2>1. /\ lastPacketAcked' \in [Peers -> 0..(NumPkt - 1)]
        /\ lastPacketAvailable' \in [Peers -> 1..(NumPkt + MaxWindow)]
    BY <1>11, InitWindowType DEF GetUnknown
  <2>2. ackWaitQueue' \in [Peers -> Seq(Packets)]
    BY <1>11, EmptyType DEF GetUnknown, TypeOK
  <2>3. numConnUp' \in Int /\ jumped' \in SUBSET Peers /\ leaked' \in BOOLEAN
    BY <1>11 DEF GetUnknown, TypeOK
  <2> QED
    BY <1>11, <2>1, <2>2, <2>3 DEF GetUnknown, Handled, TypeOK
<1> QED
  BY <1>1, <1>2, <1>3, <1>4, <1>5, <1>6, <1>7, <1>8, <1>9, <1>10, <1>11 DEF Next, RecvGet, FlushUpload

(* The variables of the uploader stay in their types, for any sizes.        *)
THEOREM UploadTypeCorrect == Spec => []TypeOK
<1> QED
  BY TypeInit, TypeStep, PTL DEF Spec

-----------------------------------------------------------------------------
(* What the queues of a peer hold together, and how a step changes it *)

Waits(q) == ackWaitQueue[q] \o dataQueue[q]

LEMMA WaitsType ==
  ASSUME TypeOK, NEW q \in Peers
  PROVE  /\ ackWaitQueue[q] \in Seq(Packets) /\ dataQueue[q] \in Seq(Packets)
         /\ Waits(q) \in Seq(Packets)
         /\ Len(ackWaitQueue[q]) \in Nat /\ Len(dataQueue[q]) \in Nat /\ Len(Waits(q)) \in Nat
         /\ Len(Waits(q)) = Len(ackWaitQueue[q]) + Len(dataQueue[q])
<1>1. ackWaitQueue[q] \in Seq(Packets) /\ dataQueue[q] \in Seq(Packets)
  BY DEF TypeOK
<1> QED
  BY <1>1, ConcatProperties, LenProperties DEF Waits

LEMMA WaitsLengths ==
  ASSUME TypeOK, NEW q \in Peers
  PROVE  /\ Len(ackWaitQueue[q]) \in 0..Len(Waits(q))
         /\ 1..Len(ackWaitQueue[q]) \subseteq 1..Len(Waits(q))
         /\ 1..Len(ackWaitQueue[q]) \subseteq 0..Len(Waits(q))
         /\ Len(Waits(q)) = Len(ackWaitQueue[q]) => dataQueue[q] = << >>
         /\ Len(Waits(q)) = 0 => dataQueue[q] = << >> /\ ackWaitQueue[q] = << >>
         /\ \A i \in 1..Len(ackWaitQueue[q]) : Waits(q)[i] = ackWaitQueue[q][i]
<1>1. /\ ackWaitQueue[q] \in Seq(Packets) /\ dataQueue[q] \in Seq(Packets)
      /\ Len(ackWaitQueue[q]) \in Nat /\ Len(dataQueue[q]) \in Nat /\ Len(Waits(q)) \in Nat
      /\ Len(Waits(q)) = Len(ackWaitQueue[q]) + Len(dataQueue[q])
  BY WaitsType
<1>2. \A a, b, c \in Nat :
        c = a + b => /\ a \in 0..c /\ 1..a \subseteq 1..c /\ 1..a \subseteq 0..c
                     /\ (c = a => b = 0) /\ (c = 0 => a = 0 /\ b = 0)
                     /\ \A i \in 1..a : i \in 1..(a + b) /\ i <= a
  OBVIOUS
<1>3. /\ Len(ackWaitQueue[q]) = 0 => ackWaitQueue[q] = << >>
      /\ Len(dataQueue[q]) = 0 => dataQueue[q] = << >>
  BY <1>1, EmptySeq
<1>4. \A i \in 1..(Len(ackWaitQueue[q]) + Len(dataQueue[q])) :
        Waits(q)[i] = IF i <= Len(ackWaitQueue[q]) THEN ackWaitQueue[q][i]
                      ELSE dataQueue[q][i - Len(ackWaitQueue[q])]
  BY <1>1, ConcatProperties DEF Waits
<1> DEFINE a == Len(ackWaitQueue[q])
           b == Len(dataQueue[q])
           c == Len(Waits(q))
<1>5. a \in Nat /\ b \in Nat /\ c \in Nat /\ c = a + b
  BY <1>1
<1>6. \A i \in 1..(a + b) : Waits(q)[i] = IF i <= a THEN ackWaitQueue[q][i] ELSE dataQueue[q][i - a]
  BY <1>4
<1>7. (a = 0 => ackWaitQueue[q] = << >>) /\ (b = 0 => dataQueue[q] = << >>)
  BY <1>3
<1> HIDE DEF a, b, c
<1>8. /\ a \in 0..c /\ 1..a \subseteq 1..c /\ 1..a \subseteq 0..c
      /\ (c = a => b = 0) /\ (c = 0 => a = 0 /\ b = 0)
      /\ \A i \in 1..a : i \in 1..(a + b) /\ i <= a
  BY <1>2, <1>5
<1>9. \A i \in 1..a : Waits(q)[i] = ackWaitQueue[q][i]
  BY <1>6, <1>8
<1> QED
  BY <1>7, <1>8, <1>9, Zenon DEF a, b, c

LEMMA TakeThenDrop ==
  ASSUME NEW d \in Seq(Packets), NEW w \in Seq(Packets), NEW k \in 0..Len(d)
  PROVE  (w \o Take(d, k)) \o Drop(d, k) = w \o d
<1>1. Take(d, k) \in Seq(Packets) /\ Drop(d, k) \in Seq(Packets)
  BY TakeProperties, DropProperties
<1>2. (w \o Take(d, k)) \o Drop(d, k) = w \o (Take(d, k) \o Drop(d, k))
  BY <1>1, ConcatAssociative
<1>3. Len(d) \in Nat
  BY LenProperties
<1>4. Take(d, k) \o Drop(d, k) = SubSeq(d, 1, Len(d))
  <2>1. k \in (1 - 1)..Len(d) /\ Len(d) \in k..Len(d) /\ 1 \in 1..(Len(d) + 1)
    BY <1>3
  <2> QED
    BY <2>1, ConcatAdjacentSubSeq DEF Take, Drop
<1>5. SubSeq(d, 1, Len(d)) = d
  BY SubSeqFull
<1> QED
  BY <1>2, <1>4, <1>5

LEMMA DropOfFirst ==
  ASSUME NEW w \in Seq(Packets), NEW d \in Seq(Packets), NEW k \in 0..Len(w)
  PROVE  Drop(w, k) \o d = Drop(w \o d, k)
<1> DEFINE s == Drop(w, k) \o d
           t == Drop(w \o d, k)
<1>1. Len(w) \in Nat /\ Len(d) \in Nat
  BY LenProperties
<1>2. /\ w \o d \in Seq(Packets) /\ Len(w \o d) = Len(w) + Len(d)
      /\ \A i \in 1..(Len(w) + Len(d)) : (w \o d)[i] = IF i <= Len(w) THEN w[i] ELSE d[i - Len(w)]
  BY ConcatProperties
<1>3. k \in 0..Len(w \o d)
  BY <1>1, <1>2
<1>4. /\ t \in Seq(Packets) /\ Len(t) = Len(w) + Len(d) - k
      /\ \A i \in 1..(Len(w) + Len(d) - k) : t[i] = (w \o d)[k + i]
  <2> DEFINE c == w \o d
  <2>1. c \in Seq(Packets) /\ k \in 0..Len(c) /\ Len(c) = Len(w) + Len(d)
    BY <1>2, <1>3
  <2> HIDE DEF c
  <2>2. /\ Drop(c, k) \in Seq(Packets) /\ Len(Drop(c, k)) = Len(c) - k
        /\ \A i \in 1..(Len(c) - k) : Drop(c, k)[i] = c[k + i]
    BY <2>1, DropProperties
  <2>3. /\ Drop(c, k) \in Seq(Packets) /\ Len(Drop(c, k)) = Len(w) + Len(d) - k
        /\ \A i \in 1..(Len(w) + Len(d) - k) : Drop(c, k)[i] = c[k + i]
    BY <2>1, <2>2
  <2> QED
    BY <2>3 DEF c
<1>5. /\ Drop(w, k) \in Seq(Packets) /\ Len(Drop(w, k)) = Len(w) - k
      /\ \A i \in 1..(Len(w) - k) : Drop(w, k)[i] = w[k + i]
  BY DropProperties
<1>6. /\ s \in Seq(Packets) /\ Len(s) = Len(w) - k + Len(d)
      /\ \A i \in 1..(Len(w) - k + Len(d)) :
           s[i] = IF i <= Len(w) - k THEN Drop(w, k)[i] ELSE d[i - (Len(w) - k)]
  <2> DEFINE r == Drop(w, k)
  <2>1. r \in Seq(Packets) /\ Len(r) = Len(w) - k
    BY <1>5
  <2> HIDE DEF r
  <2>2. /\ r \o d \in Seq(Packets) /\ Len(r \o d) = Len(r) + Len(d)
        /\ \A i \in 1..(Len(r) + Len(d)) : (r \o d)[i] = IF i <= Len(r) THEN r[i] ELSE d[i - Len(r)]
    BY <2>1, ConcatProperties
  <2> QED
    BY <2>1, <2>2, Zenon DEF r
<1> HIDE DEF s, t
<1>7. ASSUME NEW i \in 1..Len(s)
      PROVE  s[i] = t[i]
  <2>0. i \in 1..(Len(w) - k + Len(d)) /\ i \in 1..(Len(w) + Len(d) - k)
    BY <1>1, <1>6
  <2>1. t[i] = (w \o d)[k + i] /\ k + i \in 1..(Len(w) + Len(d))
    BY <1>1, <1>4, <2>0
  <2>2. CASE i <= Len(w) - k
    <3>1. i \in 1..(Len(w) - k) /\ k + i <= Len(w)
      BY <1>1, <2>2, <2>0
    <3>2. s[i] = w[k + i]
      BY <1>5, <1>6, <2>0, <2>2, <3>1
    <3>3. (w \o d)[k + i] = w[k + i]
      BY <1>2, <2>1, <3>1
    <3> QED
      BY <2>1, <3>2, <3>3
  <2>3. CASE ~(i <= Len(w) - k)
    <3>1. ~(k + i <= Len(w)) /\ (k + i) - Len(w) = i - (Len(w) - k)
      BY <1>1, <2>3, <2>0
    <3>2. s[i] = d[i - (Len(w) - k)]
      BY <1>6, <2>0, <2>3
    <3>3. (w \o d)[k + i] = d[(k + i) - Len(w)]
      BY <1>2, <2>1, <3>1
    <3> QED
      BY <2>1, <3>1, <3>2, <3>3
  <2> QED
    BY <2>2, <2>3
<1>8. Len(s) = Len(t)
  BY <1>1, <1>4, <1>6
<1>9. s = t
  BY <1>4, <1>6, <1>7, <1>8, SeqEqual
<1> QED
  BY <1>9 DEF s, t

(* The send loop moves packets between the queues.                          *)
LEMMA SendWindowWaits ==
  ASSUME TypeOK, NEW q \in Peers, NEW d \in Seq(Packets), NEW w \in Seq(Packets),
         SendWindow(q, d, w)
  PROVE  /\ Waits(q)' = w \o d
         /\ \A r \in Peers \ {q} : Waits(r)' = Waits(r)
<1>1. PICK k \in 0..Len(d) :
        /\ dataQueue' = [dataQueue EXCEPT ![q] = Drop(d, k)]
        /\ ackWaitQueue' = [ackWaitQueue EXCEPT ![q] = w \o Take(d, k)]
  BY DEF SendWindow
<1>2. dataQueue'[q] = Drop(d, k) /\ ackWaitQueue'[q] = w \o Take(d, k)
  BY <1>1 DEF TypeOK
<1>3. \A r \in Peers \ {q} : dataQueue'[r] = dataQueue[r] /\ ackWaitQueue'[r] = ackWaitQueue[r]
  BY <1>1 DEF TypeOK
<1>4. Waits(q)' = w \o d
  <2>1. Waits(q)' = (w \o Take(d, k)) \o Drop(d, k)
    BY <1>2 DEF Waits
  <2> QED
    BY <2>1, TakeThenDrop
<1> QED
  BY <1>3, <1>4 DEF Waits

LEMMA PopsWaits ==
  ASSUME TypeOK, NEW q \in Peers, NEW ack, Pops(q, ack), UNCHANGED dataQueue
  PROVE  /\ \E k \in 1..Len(ackWaitQueue[q]) : Waits(q)' = Drop(Waits(q), k)
         /\ \A r \in Peers \ {q} : Waits(r)' = Waits(r)
<1>1. PICK k \in 1..Len(ackWaitQueue[q]) :
        ackWaitQueue' = [ackWaitQueue EXCEPT ![q] = Drop(@, k)]
  BY DEF Pops
<1>2. ackWaitQueue'[q] = Drop(ackWaitQueue[q], k)
  BY <1>1 DEF TypeOK
<1>3. \A r \in Peers \ {q} : ackWaitQueue'[r] = ackWaitQueue[r]
  BY <1>1 DEF TypeOK
<1>4. k \in 0..Len(ackWaitQueue[q])
  BY WaitsType
<1>5. Waits(q)' = Drop(Waits(q), k)
  <2>1. Drop(ackWaitQueue[q], k) \o dataQueue[q] = Drop(ackWaitQueue[q] \o dataQueue[q], k)
    BY <1>4, DropOfFirst, WaitsType
  <2>2. ackWaitQueue'[q] \o dataQueue'[q] = Drop(ackWaitQueue[q], k) \o dataQueue[q]
    BY <1>2
  <2> QED
    BY <2>1, <2>2 DEF Waits
<1> QED
  BY <1>3, <1>5 DEF Waits

(* What of a peer's packets is not sent.                                    *)
LEMMA DataIsDrop ==
  ASSUME TypeOK, NEW q \in Peers
  PROVE  dataQueue[q] = Drop(Waits(q), Len(ackWaitQueue[q]))
<1>1. Len(ackWaitQueue[q]) \in 0..Len(ackWaitQueue[q])
  BY WaitsType
<1>2. Drop(ackWaitQueue[q], Len(ackWaitQueue[q])) \o dataQueue[q]
        = Drop(Waits(q), Len(ackWaitQueue[q]))
  BY <1>1, DropOfFirst, WaitsType DEF Waits
<1>3. Drop(ackWaitQueue[q], Len(ackWaitQueue[q])) = << >>
  <2>1. Len(ackWaitQueue[q]) + 1 \in Int /\ Len(ackWaitQueue[q]) \in Int
          /\ Len(ackWaitQueue[q]) < Len(ackWaitQueue[q]) + 1
    BY WaitsType
  <2> QED
    BY <2>1, SubSeqEmpty DEF Drop
<1>4. << >> \o dataQueue[q] = dataQueue[q]
  BY WaitsType, ConcatEmptySeq
<1> QED
  BY <1>2, <1>3, <1>4

(* A GET of an unknown hash drops what waits for an ACK.                    *)
LEMMA UnknownDrops ==
  ASSUME TypeOK, NEW p \in Peers, NEW q \in Peers, GetUnknown(p)
  PROVE  IF p = q THEN \/ Waits(q)' = Waits(q)
                       \/ \E k \in 1..Len(ackWaitQueue[q]) : Waits(q)' = Drop(Waits(q), k)
         ELSE Waits(q)' = Waits(q)
<1>1. ackWaitQueue'[p] = << >> /\ dataQueue' = dataQueue
  BY DEF GetUnknown, TypeOK
<1>2. p # q => ackWaitQueue'[q] = ackWaitQueue[q]
  BY DEF GetUnknown, TypeOK
<1>3. Waits(p)' = dataQueue[p]
  BY <1>1, WaitsType, ConcatEmptySeq DEF Waits
<1>4. Waits(p)' = Drop(Waits(p), Len(ackWaitQueue[p]))
  BY <1>3, DataIsDrop
<1>5. CASE ackWaitQueue[p] = << >>
  <2>1. Waits(p) = dataQueue[p]
    BY <1>5, WaitsType, ConcatEmptySeq DEF Waits
  <2> QED
    BY <1>1, <1>2, <1>3, <2>1 DEF Waits
<1>6. CASE ackWaitQueue[p] # << >>
  <2>1. Len(ackWaitQueue[p]) \in 1..Len(ackWaitQueue[p])
    <3>1. Len(ackWaitQueue[p]) # 0 /\ Len(ackWaitQueue[p]) \in Nat
      BY <1>6, WaitsType, EmptySeq
    <3> QED
      BY <3>1
  <2> QED
    BY <1>1, <1>2, <1>4, <2>1 DEF Waits
<1> QED
  BY <1>5, <1>6

(* A step leaves the packets of a peer as they are, drops those that were   *)
(* acknowledged, drops those that wait and adds a chunk, or drops all.      *)
LEMMA WaitsStep ==
  ASSUME TypeOK, [Next]_vars, NEW q \in Peers
  PROVE  \/ Waits(q)' = Waits(q)
         \/ \E k \in 1..Len(ackWaitQueue[q]) : Waits(q)' = Drop(Waits(q), k)
         \/ GetAccepted(q) /\ Waits(q)' = dataQueue[q] \o WholeChunk
         \/ CloseUpload(q) /\ Waits(q)' = << >>
<1> USE DEF queueVars
<1>1. CASE UNCHANGED queueVars
  BY <1>1 DEF Waits
<1>2. ASSUME NEW p \in Peers, GetAccepted(p)
      PROVE  IF p = q THEN Waits(q)' = dataQueue[q] \o WholeChunk ELSE Waits(q)' = Waits(q)
  <2>1. dataQueue'[p] = dataQueue[p] \o WholeChunk /\ ackWaitQueue'[p] = << >>
    BY <1>2 DEF GetAccepted, TypeOK
  <2>2. p # q => dataQueue'[q] = dataQueue[q] /\ ackWaitQueue'[q] = ackWaitQueue[q]
    BY <1>2 DEF GetAccepted, TypeOK
  <2>3. dataQueue[p] \o WholeChunk \in Seq(Packets)
    BY WaitsType, WholeChunkType, ConcatProperties
  <2>4. << >> \o (dataQueue[p] \o WholeChunk) = dataQueue[p] \o WholeChunk
    BY <2>3, ConcatEmptySeq
  <2> QED
    BY <2>1, <2>2, <2>4 DEF Waits
<1>3. ASSUME NEW p \in Peers, NEW ack \in 0..NumPkt, AckAdvances(p, ack) \/ AckFinishes(p, ack)
      PROVE  \/ Waits(q)' = Waits(q)
             \/ \E k \in 1..Len(ackWaitQueue[q]) : Waits(q)' = Drop(Waits(q), k)
  BY <1>3, PopsWaits DEF AckAdvances, AckFinishes
<1>4. ASSUME NEW p \in Peers, NEW ack \in 0..NumPkt, AckRetransmits(p, ack)
      PROVE  Waits(q)' = Waits(q)
  <2>1. dataQueue'[p] = Waits(p) /\ ackWaitQueue'[p] = << >>
    BY <1>4 DEF AckRetransmits, MergeAtFront, Waits, TypeOK
  <2>2. p # q => dataQueue'[q] = dataQueue[q] /\ ackWaitQueue'[q] = ackWaitQueue[q]
    BY <1>4 DEF AckRetransmits, TypeOK
  <2>3. << >> \o Waits(p) = Waits(p)
    BY WaitsType, ConcatEmptySeq
  <2> QED
    BY <2>1, <2>2, <2>3 DEF Waits
<1>5. ASSUME NEW p \in Peers, Send(p)
      PROVE  Waits(q)' = Waits(q)
  <2>1. SendWindow(p, dataQueue[p], ackWaitQueue[p])
    BY <1>5 DEF Send
  <2>2. Waits(p)' = Waits(p) /\ \A r \in Peers \ {p} : Waits(r)' = Waits(r)
    BY <2>1, WaitsType, SendWindowWaits DEF Waits
  <2> QED
    BY <2>2
<1>6. ASSUME NEW p \in Peers, DataTimeout(p)
      PROVE  Waits(q)' = Waits(q)
  <2>1. SendWindow(p, Waits(p), << >>)
    BY <1>6 DEF DataTimeout, MergeAtFront, Waits
  <2>2. Waits(p)' = << >> \o Waits(p) /\ \A r \in Peers \ {p} : Waits(r)' = Waits(r)
    BY <2>1, WaitsType, EmptyType, SendWindowWaits
  <2>3. << >> \o Waits(p) = Waits(p)
    BY WaitsType, ConcatEmptySeq
  <2> QED
    BY <2>2, <2>3
<1>7. ASSUME NEW p \in Peers, CloseUpload(p)
      PROVE  IF p = q THEN Waits(q)' = << >> ELSE Waits(q)' = Waits(q)
  <2>1. dataQueue'[p] = << >> /\ ackWaitQueue'[p] = << >>
    BY <1>7 DEF CloseUpload, CleanUpConnUp, TypeOK
  <2>2. p # q => dataQueue'[q] = dataQueue[q] /\ ackWaitQueue'[q] = ackWaitQueue[q]
    BY <1>7 DEF CloseUpload, CleanUpConnUp, TypeOK
  <2>3. << >> \o << >> = << >>
    BY EmptyType, ConcatEmptySeq
  <2> QED
    BY <2>1, <2>2, <2>3 DEF Waits
<1>8. \/ UNCHANGED queueVars
      \/ \E p \in Peers :
           \/ GetAccepted(p) \/ GetUnknown(p) \/ Send(p) \/ DataTimeout(p) \/ CloseUpload(p)
           \/ \E ack \in 0..NumPkt :
                AckAdvances(p, ack) \/ AckFinishes(p, ack) \/ AckRetransmits(p, ack)
  <2>1. CASE UNCHANGED vars
    BY <2>1 DEF vars
  <2>2. CASE NoPacket
    BY <2>2 DEF NoPacket
  <2>3. ASSUME NEW p \in Peers,
               RecvGet(p) \/ DownloadOpens(p) \/ DownloadGivesUp(p) \/ DownloadCompletes(p)
        PROVE  UNCHANGED queueVars \/ GetAccepted(p) \/ GetUnknown(p)
    BY <2>3 DEF RecvGet, GetDenied, GetRefused, DownloadOpens, DownloadGivesUp, DownloadCompletes
  <2>4. ASSUME NEW p \in Peers, NEW ack \in 0..NumPkt, UpdateACKQueue(p, ack)
        PROVE  UNCHANGED queueVars \/ AckAdvances(p, ack) \/ AckFinishes(p, ack)
                 \/ AckRetransmits(p, ack)
    BY <2>4 DEF UpdateACKQueue, AckIgnored
  <2> QED
    BY <2>1, <2>2, <2>3, <2>4 DEF Next, FlushUpload
<1> QED
  BY <1>1, <1>2, <1>3, <1>4, <1>5, <1>6, <1>7, <1>8, UnknownDrops

-----------------------------------------------------------------------------
(* Whole chunks follow one another *)

Follows(s) ==
  /\ \A i \in 1..(Len(s) - 1) : s[i + 1] = (IF s[i] = NumPkt THEN 1 ELSE s[i] + 1)
  /\ s # << >> => s[Len(s)] = NumPkt

LEMMA FollowsEveryPeer == WholeChunksFollow <=> \A q \in Peers : Follows(Waits(q))
BY DEF WholeChunksFollow, Follows, Waits

LEMMA FollowsDrop ==
  ASSUME NEW s \in Seq(Packets), Follows(s), NEW k \in 0..Len(s)
  PROVE  Follows(Drop(s, k))
<1> DEFINE t == Drop(s, k)
<1>1. Len(s) \in Nat
  BY LenProperties
<1>2. /\ t \in Seq(Packets) /\ Len(t) = Len(s) - k
      /\ \A i \in 1..(Len(s) - k) : t[i] = s[k + i]
  BY DropProperties
<1> HIDE DEF t
<1>3. ASSUME NEW i \in 1..(Len(t) - 1)
      PROVE  t[i + 1] = (IF t[i] = NumPkt THEN 1 ELSE t[i] + 1)
  <2>1. /\ i \in 1..(Len(s) - k) /\ i + 1 \in 1..(Len(s) - k) /\ k + i \in 1..(Len(s) - 1)
        /\ k + (i + 1) = (k + i) + 1
    BY <1>1, <1>2
  <2>2. t[i] = s[k + i] /\ t[i + 1] = s[k + (i + 1)]
    BY <1>2, <2>1
  <2> QED
    <3>1. s[(k + i) + 1] = (IF s[k + i] = NumPkt THEN 1 ELSE s[k + i] + 1)
      BY <2>1 DEF Follows
    <3> QED
      BY <2>1, <2>2, <3>1
<1>4. ASSUME t # << >>
      PROVE  t[Len(t)] = NumPkt
  <2>1. Len(t) # 0
    BY <1>2, <1>4, EmptySeq
  <2>2. Len(t) \in 1..(Len(s) - k) /\ k + Len(t) = Len(s) /\ s # << >>
    BY <1>1, <1>2, <2>1
  <2> QED
    BY <1>2, <2>2 DEF Follows
<1> QED
  BY <1>3, <1>4 DEF Follows, t

LEMMA FollowsConcat ==
  ASSUME NEW s \in Seq(Packets), Follows(s)
  PROVE  Follows(s \o WholeChunk)
<1> DEFINE t == s \o WholeChunk
<1>1. /\ Len(s) \in Nat /\ NumPkt \in Nat /\ 0 < NumPkt
      /\ WholeChunk \in Seq(Packets) /\ Len(WholeChunk) = NumPkt
      /\ \A i \in 1..NumPkt : WholeChunk[i] = i
  BY LenProperties, Sizes, WholeChunkType
<1>2. /\ t \in Seq(Packets) /\ Len(t) = Len(s) + NumPkt
      /\ \A i \in 1..(Len(s) + NumPkt) :
           t[i] = IF i <= Len(s) THEN s[i] ELSE WholeChunk[i - Len(s)]
  <2>1. /\ t \in Seq(Packets) /\ Len(t) = Len(s) + Len(WholeChunk)
        /\ \A i \in 1..(Len(s) + Len(WholeChunk)) :
             t[i] = IF i <= Len(s) THEN s[i] ELSE WholeChunk[i - Len(s)]
    BY <1>1, ConcatProperties
  <2> QED
    BY <1>1, <2>1
<1> HIDE DEF t
<1>3. ASSUME NEW i \in 1..(Len(s) + NumPkt), i > Len(s)
      PROVE  t[i] = i - Len(s)
  <2>1. i - Len(s) \in 1..NumPkt /\ ~(i <= Len(s))
    BY <1>1, <1>3
  <2> QED
    BY <1>1, <1>2, <2>1
<1>4. ASSUME NEW i \in 1..(Len(t) - 1)
      PROVE  t[i + 1] = (IF t[i] = NumPkt THEN 1 ELSE t[i] + 1)
  <2>0. i \in 1..(Len(s) + NumPkt) /\ i + 1 \in 1..(Len(s) + NumPkt)
    BY <1>1, <1>2
  <2>1. CASE i < Len(s)
    <3>1. i \in 1..(Len(s) - 1) /\ i <= Len(s) /\ i + 1 <= Len(s)
      BY <1>1, <2>1
    <3>2. t[i] = s[i] /\ t[i + 1] = s[i + 1]
      BY <1>2, <2>0, <3>1
    <3> QED
      BY <3>1, <3>2 DEF Follows
  <2>2. CASE i = Len(s)
    <3>1. t[i] = s[Len(s)] /\ s # << >>
      BY <1>1, <1>2, <2>0, <2>2
    <3>2. t[i + 1] = 1
      BY <1>1, <1>3, <2>0, <2>2
    <3> QED
      BY <3>1, <3>2 DEF Follows
  <2>3. CASE i > Len(s)
    <3>1. t[i] = i - Len(s)
      BY <1>3, <2>0, <2>3
    <3>2. t[i + 1] = (i + 1) - Len(s)
      BY <1>1, <1>3, <2>0, <2>3
    <3>3. i - Len(s) # NumPkt /\ (i + 1) - Len(s) = (i - Len(s)) + 1
      BY <1>1, <1>2
    <3> QED
      BY <3>1, <3>2, <3>3
  <2> QED
    BY <1>1, <2>1, <2>2, <2>3
<1>5. t[Len(t)] = NumPkt
  <2>1. Len(t) \in 1..(Len(s) + NumPkt) /\ Len(t) > Len(s) /\ Len(t) - Len(s) = NumPkt
    BY <1>1, <1>2
  <2> QED
    BY <1>3, <2>1
<1> QED
  BY <1>4, <1>5 DEF Follows, t

LEMMA FollowsEmpty == Follows(<< >>)
<1>1. Len(<< >>) = 0
  BY EmptySeq
<1> QED
  BY <1>1 DEF Follows

LEMMA FollowsInit == Init => WholeChunksFollow
<1> SUFFICES ASSUME Init, NEW q \in Peers PROVE Follows(Waits(q))
  BY FollowsEveryPeer
<1>1. Waits(q) = << >>
  BY EmptyType, ConcatEmptySeq DEF Init, Waits
<1> QED
  BY <1>1, FollowsEmpty

LEMMA FollowsStep == TypeOK /\ WholeChunksFollow /\ [Next]_vars => WholeChunksFollow'
<1> SUFFICES ASSUME TypeOK, WholeChunksFollow, [Next]_vars, NEW q \in Peers
             PROVE  Follows(Waits(q)')
  BY DEF WholeChunksFollow, Follows, Waits
<1>0. Follows(Waits(q)) /\ Waits(q) \in Seq(Packets)
  BY FollowsEveryPeer, WaitsType
<1>1. CASE Waits(q)' = Waits(q)
  BY <1>0, <1>1
<1>2. ASSUME NEW k \in 1..Len(ackWaitQueue[q]), Waits(q)' = Drop(Waits(q), k)
      PROVE  Follows(Waits(q)')
  <2>1. k \in 0..Len(Waits(q))
    BY WaitsLengths
  <2> QED
    BY <1>0, <1>2, <2>1, FollowsDrop
<1>3. CASE Waits(q)' = dataQueue[q] \o WholeChunk
  <2>1. Len(ackWaitQueue[q]) \in 0..Len(Waits(q))
    BY WaitsLengths
  <2>2. Follows(dataQueue[q])
    BY <1>0, <2>1, FollowsDrop, DataIsDrop
  <2> QED
    BY <1>3, <2>2, WaitsType, FollowsConcat
<1>4. CASE Waits(q)' = << >>
  BY <1>4, FollowsEmpty
<1> QED
  BY <1>1, <1>2, <1>3, <1>4, WaitsStep

(* The queues of a peer hold the rest of a chunk and whole chunks behind    *)
(* it, whatever GETs, ACKs and timeouts came in between.                    *)
THEOREM WholeChunksFollowHolds == Spec => []WholeChunksFollow
<1>1. TypeOK /\ WholeChunksFollow /\ [Next]_vars => (TypeOK /\ WholeChunksFollow)'
  BY TypeStep, FollowsStep
<1> QED
  BY <1>1, TypeInit, FollowsInit, PTL DEF Spec

-----------------------------------------------------------------------------
(* The rest of one chunk *)

Rest(s) == \A i \in 1..Len(s) : s[i] = NumPkt - Len(s) + i

LEMMA RestDrop ==
  ASSUME NEW s \in Seq(Packets), Rest(s), NEW k \in 0..Len(s)
  PROVE  Rest(Drop(s, k))
<1> DEFINE t == Drop(s, k)
<1>1. Len(s) \in Nat /\ NumPkt \in Nat
  BY LenProperties, Sizes
<1>2. /\ t \in Seq(Packets) /\ Len(t) = Len(s) - k
      /\ \A i \in 1..(Len(s) - k) : t[i] = s[k + i]
  BY DropProperties
<1> HIDE DEF t
<1>3. ASSUME NEW i \in 1..Len(t)
      PROVE  t[i] = NumPkt - Len(t) + i
  <2>1. i \in 1..(Len(s) - k) /\ k + i \in 1..Len(s)
    BY <1>1, <1>2
  <2>2. t[i] = s[k + i] /\ s[k + i] = NumPkt - Len(s) + (k + i)
    BY <1>2, <2>1 DEF Rest
  <2> QED
    BY <1>1, <1>2, <2>1, <2>2
<1> QED
  BY <1>3 DEF Rest, t

LEMMA RestEmpty == Rest(<< >>)
<1>1. Len(<< >>) = 0
  BY EmptySeq
<1> QED
  BY <1>1 DEF Rest

LEMMA RestWhole == Rest(WholeChunk)
BY WholeChunkType, Sizes DEF Rest

LEMMA EmptyIffZero ==
  ASSUME NEW s \in Seq(Packets)
  PROVE  s = << >> <=> Len(s) = 0
BY EmptySeq, LenProperties

(* A chunk that finds nothing queued is all that waits.                     *)
LEMMA FreshChunk ==
  ASSUME TypeOK, NEW q \in Peers, dataQueue[q] = << >>
  PROVE  dataQueue[q] \o WholeChunk = WholeChunk
BY WholeChunkType, ConcatEmptySeq

LEMMA CloseEmpties ==
  ASSUME TypeOK, NEW q \in Peers, CloseUpload(q)
  PROVE  Waits(q)' = << >>
<1>1. dataQueue'[q] = << >> /\ ackWaitQueue'[q] = << >>
  BY DEF CloseUpload, CleanUpConnUp, TypeOK
<1>2. << >> \o << >> = << >>
  BY EmptyType, ConcatEmptySeq
<1> QED
  BY <1>1, <1>2 DEF Waits

(* The final ACK leaves nothing, if it is not late.                         *)
LEMMA FinishEmpties ==
  ASSUME TypeOK, NEW q \in Peers, NEW ack, AckFinishes(q, ack), ~early', Rest(Waits(q))
  PROVE  Waits(q)' = << >>
<1> DEFINE aw == ackWaitQueue[q]
           n  == Len(aw)
<1>1. /\ aw \in Seq(Packets) /\ n \in Nat /\ Len(Waits(q)) \in Nat /\ NumPkt \in Nat
  BY WaitsType, Sizes
<1>2. aw # << >> /\ aw[n] = NumPkt /\ ack = NumPkt
  BY DEF AckFinishes, IsNew, IsLate
<1>3. n \in 1..n
  BY <1>1, <1>2, EmptyIffZero
<1>4. Waits(q)[n] = aw[n] /\ n \in 1..Len(Waits(q))
  BY <1>3, WaitsLengths
<1>5. Len(Waits(q)) = n
  <2>1. NumPkt = NumPkt - Len(Waits(q)) + n
    BY <1>2, <1>4 DEF Rest
  <2>2. \A x, y, z \in Nat : x = x - y + z => y = z
    OBVIOUS
  <2> HIDE DEF n
  <2> QED
    BY <1>1, <2>1, <2>2
<1>6. PICK k \in 1..n : PopsUpTo(aw, ack, k) /\ ackWaitQueue' = [ackWaitQueue EXCEPT ![q] = Drop(@, k)]
  BY DEF AckFinishes, Pops
<1>7. k = n
  <2>1. SUFFICES ASSUME k < n PROVE FALSE
    BY <1>1
  <2>2. aw[k + 1] > NumPkt /\ k + 1 \in 1..n
    BY <1>1, <1>2, <1>6, <2>1 DEF PopsUpTo
  <2>3. aw[k + 1] \in Packets
    BY <1>1, <2>2, ElementOfSeq
  <2> QED
    BY <1>1, <2>2, <2>3 DEF Packets
<1>8. ackWaitQueue'[q] = Drop(aw, n) /\ dataQueue'[q] = dataQueue[q]
  BY <1>6, <1>7 DEF TypeOK, AckFinishes
<1>9. dataQueue[q] = << >>
  BY <1>5, WaitsLengths
<1>10. Drop(aw, n) = << >>
  <2>1. n + 1 \in Int /\ n \in Int /\ n < n + 1
    BY <1>1
  <2> QED
    BY <2>1, SubSeqEmpty DEF Drop
<1>11. << >> \o << >> = << >>
  BY EmptyType, ConcatEmptySeq
<1> QED
  BY <1>8, <1>9, <1>10, <1>11 DEF Waits

-----------------------------------------------------------------------------
(* The count of connections *)

(* An upload that is not on has nothing queued, and one that is on nothing  *)
(* but the rest of its chunk: so what ends an upload ends one that is on,   *)
(* and a GET finds nothing queued.                                          *)
CountInv ==
  ~leaked /\ ~early =>
    /\ numConnUp = Cardinality(on)
    /\ \A q \in Peers : Rest(Waits(q)) /\ (q \notin on => Waits(q) = << >>)

LEMMA CountInit == Init => CountInv
<1> SUFFICES ASSUME Init
             PROVE  numConnUp = Cardinality(on) /\ \A q \in Peers : Waits(q) = << >>
  BY RestEmpty DEF CountInv
<1>1. \A q \in Peers : Waits(q) = << >>
  BY EmptyType, ConcatEmptySeq DEF Init, Waits
<1>2. Cardinality(on) = 0 /\ numConnUp = 0
  BY FS_EmptySet DEF Init
<1> QED
  BY <1>1, <1>2

LEMMA LeavesOn ==
  ASSUME TypeOK, [Next]_vars, NEW q \in Peers, q \in on, q \notin on'
  PROVE  CloseUpload(q) \/ \E ack \in 0..NumPkt : AckFinishes(q, ack)
<1> USE DEF history
<1>1. on' # on
  OBVIOUS
<1>2. PICK p \in Peers : \/ GetAccepted(p) \/ CloseUpload(p)
                         \/ \E ack \in 0..NumPkt : AckFinishes(p, ack)
  BY <1>1 DEF Next, vars, NoPacket, RecvGet, GetDenied, GetRefused, UpdateACKQueue, AckAdvances,
              AckIgnored, AckRetransmits, FlushUpload, Send, DataTimeout, GetUnknown, DownloadOpens,
              DownloadGivesUp, DownloadCompletes
<1>3. p = q /\ ~GetAccepted(p)
  BY <1>2 DEF GetAccepted, CloseUpload, AckFinishes
<1> QED
  BY <1>2, <1>3

LEMMA NeverForgotten ==
  ASSUME TypeOK, [Next]_vars
  PROVE  (leaked => leaked') /\ (early => early')
<1> USE DEF history
<1>1. CASE UNCHANGED vars
  BY <1>1 DEF vars
<1>2. CASE NoPacket
  BY <1>2 DEF NoPacket
<1>3. ASSUME NEW q \in Peers,
             RecvGet(q) \/ DownloadOpens(q) \/ DownloadGivesUp(q) \/ DownloadCompletes(q)
      PROVE  (leaked => leaked') /\ (early => early')
  <2>1. CASE GetDenied(q) \/ GetRefused(q) \/ GetUnknown(q)
    BY <2>1 DEF GetDenied, GetRefused, GetUnknown
  <2>3. CASE DownloadOpens(q) \/ DownloadGivesUp(q) \/ DownloadCompletes(q)
    BY <2>3 DEF DownloadOpens, DownloadGivesUp, DownloadCompletes
  <2>2. CASE GetAccepted(q)
    BY <2>2, Zenon DEF GetAccepted
  <2> QED
    BY <1>3, <2>1, <2>2, <2>3 DEF RecvGet
<1>4. ASSUME NEW q \in Peers, NEW ack \in 0..NumPkt, UpdateACKQueue(q, ack)
      PROVE  (leaked => leaked') /\ (early => early')
  <2>1. CASE AckAdvances(q, ack) \/ AckIgnored(q, ack) \/ AckRetransmits(q, ack)
    BY <2>1 DEF AckAdvances, AckIgnored, AckRetransmits
  <2>2. CASE AckFinishes(q, ack)
    BY <2>2, Zenon DEF AckFinishes
  <2> QED
    BY <1>4, <2>1, <2>2 DEF UpdateACKQueue
<1>5. ASSUME NEW q \in Peers, FlushUpload(q)
      PROVE  (leaked => leaked') /\ (early => early')
  BY <1>5 DEF FlushUpload, Send, DataTimeout, CloseUpload
<1> QED
  BY <1>1, <1>2, <1>3, <1>4, <1>5 DEF Next

LEMMA RestStep ==
  ASSUME TypeOK, [Next]_vars, NEW q \in Peers, ~leaked', ~early',
         Rest(Waits(q)), q \notin on => Waits(q) = << >>
  PROVE  Rest(Waits(q)') /\ (q \notin on' => Waits(q)' = << >>)
<1>0. Waits(q) \in Seq(Packets) /\ Len(Waits(q)) \in Nat
  BY WaitsType
<1>1. ASSUME q \in on, q \notin on'
      PROVE  Waits(q)' = << >>
  BY <1>1, LeavesOn, CloseEmpties, FinishEmpties
<1>2. CASE Waits(q)' = Waits(q)
  BY <1>1, <1>2
<1>3. ASSUME NEW k \in 1..Len(ackWaitQueue[q]), Waits(q)' = Drop(Waits(q), k)
      PROVE  Rest(Waits(q)') /\ (q \notin on' => Waits(q)' = << >>)
  <2>1. k \in 0..Len(Waits(q)) /\ Len(Waits(q)) # 0
    <3>1. k \in 1..Len(Waits(q)) /\ k \in 0..Len(Waits(q))
      BY WaitsLengths
    <3> QED
      BY <1>0, <3>1
  <2>2. Rest(Waits(q)')
    BY <1>0, <1>3, <2>1, RestDrop
  <2>3. q \in on
    BY <1>0, <2>1, EmptyIffZero
  <2> QED
    BY <1>1, <2>2, <2>3
<1>4. CASE GetAccepted(q) /\ Waits(q)' = dataQueue[q] \o WholeChunk
  <2>1. q \notin on /\ q \in on'
    BY <1>4 DEF GetAccepted, TypeOK
  <2>2. Len(Waits(q)) = 0
    BY <1>0, <2>1, EmptyIffZero
  <2>4. dataQueue[q] = << >>
    BY <2>2, WaitsLengths
  <2> QED
    BY <1>4, <2>1, <2>4, FreshChunk, RestWhole
<1>5. CASE Waits(q)' = << >>
  BY <1>5, RestEmpty
<1> QED
  BY <1>2, <1>3, <1>4, <1>5, WaitsStep

LEMMA WaitingIsOn ==
  ASSUME TypeOK, NEW q \in Peers, ackWaitQueue[q] # << >>, q \notin on => Waits(q) = << >>
  PROVE  q \in on
<1>1. /\ ackWaitQueue[q] \in Seq(Packets) /\ dataQueue[q] \in Seq(Packets)
  BY WaitsType
<1>2. Waits(q) # << >>
  BY <1>1, ConcatEqualIffEmpty DEF Waits
<1> QED
  BY <1>2

LEMMA CountStep == TypeOK /\ CountInv /\ [Next]_vars => CountInv'
<1> SUFFICES ASSUME TypeOK, CountInv, [Next]_vars, ~leaked', ~early'
             PROVE  /\ numConnUp' = Cardinality(on')
                    /\ \A q \in Peers : Rest(Waits(q)') /\ (q \notin on' => Waits(q)' = << >>)
  BY DEF CountInv, Rest, Waits
<1> USE DEF history
<1>1. /\ numConnUp = Cardinality(on)
      /\ \A q \in Peers : Rest(Waits(q)) /\ (q \notin on => Waits(q) = << >>)
  BY NeverForgotten DEF CountInv
<1>2. \A q \in Peers : Rest(Waits(q)') /\ (q \notin on' => Waits(q)' = << >>)
  BY <1>1, RestStep
<1>3. IsFiniteSet(on) /\ Cardinality(on) \in Nat
  BY PeersAssumption, FS_Subset, FS_CardinalityType DEF TypeOK
<1>4. ASSUME UNCHANGED <<on, numConnUp>>
      PROVE  numConnUp' = Cardinality(on')
  BY <1>1, <1>4
<1>5. ASSUME NEW q \in Peers, GetAccepted(q)
      PROVE  numConnUp' = Cardinality(on')
  <2>1. q \notin on /\ on' = on \cup {q} /\ numConnUp' = numConnUp + 1
    BY <1>5 DEF GetAccepted, TypeOK
  <2> QED
    BY <1>1, <1>3, <2>1, FS_AddElement
<1>6. ASSUME NEW q \in Peers, NEW ack \in 0..NumPkt, CloseUpload(q) \/ AckFinishes(q, ack)
      PROVE  numConnUp' = Cardinality(on')
  <2>1. ackWaitQueue[q] # << >> /\ on' = on \ {q} /\ numConnUp' = numConnUp - 1
    BY <1>6 DEF CloseUpload, AckFinishes, IsNew
  <2>2. q \in on
    BY <1>1, <2>1, WaitingIsOn
  <2>3. Cardinality(on \ {q}) = Cardinality(on) - 1
    BY <1>3, <2>2, FS_RemoveElement
  <2> QED
    BY <1>1, <2>1, <2>3
<1>7. ASSUME NEW q \in Peers, GetRefused(q) \/ GetUnknown(q)
      PROVE  FALSE
  BY <1>7 DEF GetRefused, GetUnknown
<1>8. \/ UNCHANGED <<on, numConnUp>>
      \/ \E q \in Peers : \/ GetAccepted(q) \/ GetRefused(q) \/ GetUnknown(q)
                          \/ \E ack \in 0..NumPkt : CloseUpload(q) \/ AckFinishes(q, ack)
  <2>1. 0 \in 0..NumPkt
    BY Sizes
  <2>2. CASE UNCHANGED vars
    BY <2>2 DEF vars
  <2>3. CASE NoPacket
    BY <2>3 DEF NoPacket
  <2>4. ASSUME NEW q \in Peers,
               RecvGet(q) \/ DownloadOpens(q) \/ DownloadGivesUp(q) \/ DownloadCompletes(q)
        PROVE  UNCHANGED <<on, numConnUp>> \/ GetAccepted(q) \/ GetRefused(q) \/ GetUnknown(q)
    BY <2>4 DEF RecvGet, GetDenied, DownloadOpens, DownloadGivesUp, DownloadCompletes
  <2>5. ASSUME NEW q \in Peers, NEW ack \in 0..NumPkt, UpdateACKQueue(q, ack)
        PROVE  UNCHANGED <<on, numConnUp>> \/ AckFinishes(q, ack)
    BY <2>5 DEF UpdateACKQueue, AckAdvances, AckIgnored, AckRetransmits
  <2>6. ASSUME NEW q \in Peers, FlushUpload(q)
        PROVE  UNCHANGED <<on, numConnUp>> \/ CloseUpload(q)
    BY <2>6 DEF FlushUpload, Send, DataTimeout
  <2> QED
    BY <2>1, <2>2, <2>3, <2>4, <2>5, <2>6 DEF Next
<1>9. numConnUp' = Cardinality(on')
  BY <1>4, <1>5, <1>6, <1>7, <1>8
<1> QED
  BY <1>2, <1>9

(* Nothing but a GET refused because of a download, a GET for a peer that   *)
(* is being served, a GET of a chunk that this peer does not have and a     *)
(* final ACK that is late makes numConnUp differ from the uploads that are  *)
(* on, for any number of peers.                                             *)
THEOREM CountIsExactHolds == Spec => []CountIsExact
<1>1. TypeOK /\ CountInv /\ [Next]_vars => (TypeOK /\ CountInv)'
  BY TypeStep, CountStep
<1>2. CountInv => CountIsExact
  BY DEF CountInv, CountIsExact
<1> QED
  BY <1>1, <1>2, TypeInit, CountInit, PTL DEF Spec

-----------------------------------------------------------------------------
(* No upload is left without a timer *)

(* What an upload that is on has to send is the rest of a chunk, and begins *)
(* within its window unless a download moved that back; so when nothing     *)
(* waits for an ACK, its turn in flushUpload is still to come.              *)
InWindow(q) ==
  /\ Waits(q)[1] <= lastPacketAvailable[q]
  /\ ackWaitQueue[q] = << >> => phase = "upload" /\ q \in todo

HasWork(q) ==
  /\ Rest(Waits(q)) /\ Waits(q) # << >>
  /\ q \notin reset => InWindow(q)

StallInv == \A q \in on \ jumped : HasWork(q)

LEMMA SendsSome ==
  ASSUME TypeOK, NEW q \in Peers, NEW d \in Seq(Packets), NEW w \in Seq(Packets),
         SendWindow(q, d, w), w \o d # << >>, (w \o d)[1] <= lastPacketAvailable[q]
  PROVE  ackWaitQueue'[q] # << >>
<1>1. PICK k \in 0..Len(d) :
        /\ PopsUpTo(d, lastPacketAvailable[q], k)
        /\ ackWaitQueue' = [ackWaitQueue EXCEPT ![q] = w \o Take(d, k)]
  BY DEF SendWindow
<1>2. ackWaitQueue'[q] = w \o Take(d, k)
  BY <1>1 DEF TypeOK
<1>3. Take(d, k) \in Seq(Packets) /\ Len(Take(d, k)) = k /\ Len(d) \in Nat
  BY TakeProperties, LenProperties
<1>4. CASE w # << >>
  BY <1>2, <1>3, <1>4, ConcatEqualIffEmpty
<1>5. CASE w = << >>
  <2>1. w \o d = d
    BY <1>5, ConcatEmptySeq
  <2>2. d # << >> /\ d[1] <= lastPacketAvailable[q]
    BY <2>1
  <2>3. 0 < Len(d) /\ d[1] \in Int /\ lastPacketAvailable[q] \in Int
    <3>1. Len(d) # 0
      BY <2>2, EmptyIffZero
    <3>2. 1 \in 1..Len(d)
      BY <1>3, <3>1
    <3>3. d[1] \in Packets
      BY <3>2, ElementOfSeq
    <3>4. lastPacketAvailable[q] \in 1..(NumPkt + MaxWindow)
      BY DEF TypeOK
    <3> QED
      BY <1>3, <3>1, <3>3, <3>4, Sizes DEF Packets
  <2>4. k # 0
    <3>1. SUFFICES ASSUME k = 0 PROVE FALSE
      OBVIOUS
    <3>2. d[1] > lastPacketAvailable[q]
      BY <1>1, <2>3, <3>1 DEF PopsUpTo
    <3> QED
      BY <2>2, <2>3, <3>2
  <2>5. Take(d, k) # << >>
    BY <1>3, <2>4, EmptyIffZero
  <2> QED
    BY <1>2, <1>3, <2>5, ConcatEqualIffEmpty
<1> QED
  BY <1>4, <1>5

(* An upload whose queues and window a step leaves alone, or whose window a *)
(* download moves back.                                                     *)
LEMMA WorkKept ==
  ASSUME NEW q \in Peers, HasWork(q), Waits(q)' = Waits(q),
         q \notin reset' =>
           /\ q \notin reset /\ lastPacketAvailable'[q] = lastPacketAvailable[q]
           /\ ackWaitQueue'[q] = << >> => phase' = "upload" /\ q \in todo'
  PROVE  HasWork(q)'
<1> DEFINE s == Waits(q)
<1>1. s' = s /\ Rest(s) /\ s # << >>
  BY DEF HasWork
<1>2. Rest(s)' <=> Rest(s')
  BY DEF Rest
<1>3. s'[1] = s[1]
  BY <1>1
<1>4. ASSUME q \notin reset'
      PROVE  InWindow(q)'
  <2>1. s[1] <= lastPacketAvailable[q]
    BY <1>4 DEF HasWork, InWindow
  <2> QED
    BY <1>3, <1>4, <2>1 DEF InWindow
<1> QED
  BY <1>1, <1>2, <1>4 DEF HasWork

LEMMA StallInit == Init => StallInv
BY DEF Init, StallInv

(* The step of peer p leaves what peer q has.                               *)
LEMMA OthersKept ==
  ASSUME TypeOK, [Next]_vars, NEW p \in Peers, NEW q \in Peers \ {p},
         NEW ack \in 0..NumPkt,
         GetAccepted(p) \/ GetUnknown(p) \/ UpdateACKQueue(p, ack) \/ FlushUpload(p)
  PROVE  /\ Waits(q)' = Waits(q) /\ ackWaitQueue'[q] = ackWaitQueue[q]
         /\ lastPacketAvailable'[q] = lastPacketAvailable[q]
         /\ q \in on' \ jumped' => q \in on \ jumped
         /\ q \in reset' <=> q \in reset
         /\ phase = "upload" /\ q \in todo => phase' = "upload" /\ q \in todo'
         /\ phase = "poll" => phase' = "upload" /\ q \in todo'
<1> USE DEF queueVars, windowVars, history
<1>1. CASE GetAccepted(p)
  BY <1>1 DEF GetAccepted, InitSendWindow, Handled, Waits, TypeOK
<1>4. CASE GetUnknown(p)
  BY <1>4 DEF GetUnknown, InitSendWindow, Handled, Waits, TypeOK
<1>2. CASE UpdateACKQueue(p, ack)
  <2>1. RecvAck(p, ack) /\ phase = "poll" /\ phase' = "upload" /\ q \in todo'
    BY <1>2 DEF UpdateACKQueue, AckAdvances, AckFinishes, AckIgnored, AckRetransmits, RecvAck,
                Handled
  <2>2. CASE AckAdvances(p, ack)
    <3>1. Waits(q)' = Waits(q)
      BY <2>2, PopsWaits DEF AckAdvances
    <3>2. ackWaitQueue'[q] = ackWaitQueue[q]
      BY <2>2 DEF AckAdvances, Pops, TypeOK
    <3>3. /\ lastPacketAvailable'[q] = lastPacketAvailable[q] /\ on' = on /\ jumped' = jumped
          /\ q \in reset' <=> q \in reset
      BY <2>2 DEF AckAdvances, TypeOK
    <3> QED
      BY <2>1, <3>1, <3>2, <3>3
  <2>3. CASE AckFinishes(p, ack)
    <3>1. Waits(q)' = Waits(q)
      BY <2>3, PopsWaits DEF AckFinishes
    <3>2. ackWaitQueue'[q] = ackWaitQueue[q]
      BY <2>3 DEF AckFinishes, Pops, TypeOK
    <3>3. /\ lastPacketAvailable'[q] = lastPacketAvailable[q] /\ on' \subseteq on
          /\ jumped' = jumped /\ (q \in reset' <=> q \in reset)
      BY <2>3 DEF AckFinishes, InitSendWindow, TypeOK
    <3> QED
      BY <2>1, <3>1, <3>2, <3>3
  <2>4. CASE AckIgnored(p, ack)
    BY <2>1, <2>4 DEF AckIgnored, Waits
  <2>5. CASE AckRetransmits(p, ack)
    BY <2>1, <2>5 DEF AckRetransmits, Waits, TypeOK
  <2> QED
    BY <1>2, <2>2, <2>3, <2>4, <2>5 DEF UpdateACKQueue
<1>3. CASE FlushUpload(p)
  <2>1. /\ phase = "upload"
        /\ q \in todo => phase' = "upload" /\ q \in todo'
    BY <1>3 DEF FlushUpload, Send, DataTimeout, CloseUpload, Visit
  <2>2. CASE Send(p)
    <3>1. SendWindow(p, dataQueue[p], ackWaitQueue[p])
      BY <2>2 DEF Send
    <3>2. Waits(q)' = Waits(q)
      BY <3>1, SendWindowWaits, WaitsType
    <3>3. ackWaitQueue'[q] = ackWaitQueue[q]
      BY <3>1 DEF SendWindow, TypeOK
    <3> QED
      BY <2>1, <2>2, <3>2, <3>3 DEF Send
  <2>3. CASE DataTimeout(p)
    <3>1. SendWindow(p, Waits(p), << >>)
      BY <2>3 DEF DataTimeout, MergeAtFront, Waits
    <3>2. Waits(q)' = Waits(q)
      BY <3>1, SendWindowWaits, WaitsType, EmptyType
    <3>3. ackWaitQueue'[q] = ackWaitQueue[q]
      BY <3>1 DEF SendWindow, TypeOK
    <3> QED
      BY <2>1, <2>3, <3>2, <3>3 DEF DataTimeout
  <2>4. CASE CloseUpload(p)
    BY <2>1, <2>4 DEF CloseUpload, CleanUpConnUp, InitSendWindow, Waits, TypeOK
  <2> QED
    BY <1>3, <2>2, <2>3, <2>4 DEF FlushUpload
<1> QED
  BY <1>1, <1>2, <1>3, <1>4

(* An ACK that is not the last opens the window to the first packet left.   *)
LEMMA AdvanceKeepsWork ==
  ASSUME TypeOK, NEW q \in Peers, NEW ack \in 0..NumPkt, AckAdvances(q, ack), HasWork(q)
  PROVE  HasWork(q)'
<1> DEFINE aw == ackWaitQueue[q]
           s  == Waits(q)
<1>1. /\ aw \in Seq(Packets) /\ Len(aw) \in Nat /\ s \in Seq(Packets) /\ Len(s) \in Nat
      /\ NumPkt \in Nat
  BY WaitsType, Sizes
<1>2. PICK k \in 1..Len(aw) :
        PopsUpTo(aw, ack, k) /\ ackWaitQueue' = [ackWaitQueue EXCEPT ![q] = Drop(@, k)]
  BY DEF AckAdvances, Pops
<1>3. k \in 1..Len(s) /\ k \in 0..Len(s) /\ s[k] = aw[k] /\ k \in 0..Len(aw)
  BY <1>1, <1>2, WaitsLengths
<1>4. s[k] = NumPkt - Len(s) + k /\ s[k] <= ack /\ ack < NumPkt
  <2>1. s[k] = NumPkt - Len(s) + k
    BY <1>3 DEF HasWork, Rest
  <2>2. aw[k] <= ack
    BY <1>2 DEF PopsUpTo
  <2>3. ack < NumPkt
    BY <1>1 DEF AckAdvances
  <2> QED
    BY <1>3, <2>1, <2>2, <2>3
<1>5. Waits(q)' = Drop(s, k)
  <2>1. ackWaitQueue'[q] = Drop(aw, k) /\ dataQueue'[q] = dataQueue[q]
    BY <1>2 DEF TypeOK, AckAdvances
  <2> QED
    BY <1>3, <2>1, DropOfFirst, WaitsType DEF Waits
<1> HIDE DEF s, aw
<1>6. k < Len(s)
  <2>1. \A n, l, j \in Nat : n - l + j <= ack /\ ack < n => j < l
    BY DEF Packets
  <2> QED
    BY <1>1, <1>3, <1>4, <2>1
<1> DEFINE u == Drop(s, k)
<1>7. /\ u \in Seq(Packets) /\ Len(u) = Len(s) - k
      /\ \A i \in 1..(Len(s) - k) : u[i] = s[k + i]
  BY <1>1, <1>3, DropProperties
<1>8. Rest(u)
  BY <1>1, <1>3, RestDrop DEF HasWork, s
<1> HIDE DEF u
<1>9. u # << >>
  BY <1>1, <1>3, <1>6, <1>7, EmptySeq
<1>10. u[1] <= ack + 1
  <2>1. 1 \in 1..Len(u)
    BY <1>1, <1>3, <1>6, <1>7
  <2>2. u[1] = NumPkt - Len(u) + 1
    BY <1>8, <2>1 DEF Rest
  <2> QED
    BY <1>1, <1>3, <1>4, <1>7, <2>2
<1>11. PICK window \in 2..MaxWindow : lastPacketAvailable'[q] = ack + window
  BY DEF AckAdvances, TypeOK
<1>12. u[1] <= lastPacketAvailable'[q]
  <2>1. u[1] \in Packets
    <3>1. 1 \in 1..Len(u)
      BY <1>1, <1>3, <1>6, <1>7
    <3> QED
      BY <1>7, <3>1, ElementOfSeq
  <2>2. window \in Int /\ 2 <= window
    BY Sizes
  <2> QED
    BY <1>10, <1>11, <2>1, <2>2, Sizes DEF Packets
<1>13. phase' = "upload" /\ q \in todo'
  BY DEF AckAdvances, RecvAck, Handled
<1>14. Waits(q)' = u
  BY <1>5 DEF u
<1>15. Rest(Waits(q))'
  BY <1>8, <1>14 DEF Rest
<1> QED
  BY <1>9, <1>12, <1>13, <1>14, <1>15 DEF HasWork, InWindow

LEMMA StallStep == TypeOK /\ StallInv /\ [Next]_vars => StallInv'
<1> SUFFICES ASSUME TypeOK, StallInv, [Next]_vars PROVE StallInv'
  OBVIOUS
<1>10. on' \subseteq Peers
  <2>1. TypeOK'
    BY TypeStep
  <2> QED
    BY <2>1 DEF TypeOK
<1> SUFFICES ASSUME NEW q \in Peers, q \in on' \ jumped'
             PROVE  HasWork(q)'
  BY <1>10 DEF StallInv, HasWork, InWindow, Rest, Waits
<1> USE DEF queueVars, windowVars, history
<1>0. q \in on \ jumped => HasWork(q)
  BY DEF StallInv
<1>1. ASSUME NEW p \in Peers, p # q, NEW ack \in 0..NumPkt,
             GetAccepted(p) \/ GetUnknown(p) \/ UpdateACKQueue(p, ack) \/ FlushUpload(p)
      PROVE  HasWork(q)'
  <2>1. /\ Waits(q)' = Waits(q) /\ ackWaitQueue'[q] = ackWaitQueue[q]
        /\ lastPacketAvailable'[q] = lastPacketAvailable[q]
        /\ q \in on \ jumped /\ (q \in reset' <=> q \in reset)
        /\ phase = "upload" /\ q \in todo => phase' = "upload" /\ q \in todo'
    BY <1>1, OthersKept
  <2>2. q \notin reset /\ ackWaitQueue'[q] = << >> => phase' = "upload" /\ q \in todo'
    BY <1>0, <2>1 DEF HasWork, InWindow
  <2> QED
    BY <1>0, <2>1, <2>2, WorkKept
<1>2. CASE UNCHANGED vars
  <2>1. /\ Waits(q)' = Waits(q) /\ ackWaitQueue'[q] = ackWaitQueue[q] /\ q \in on \ jumped
        /\ lastPacketAvailable'[q] = lastPacketAvailable[q] /\ phase' = phase /\ todo' = todo
        /\ reset' = reset
    BY <1>2 DEF vars, Waits
  <2>2. q \notin reset /\ ackWaitQueue'[q] = << >> => phase' = "upload" /\ q \in todo'
    BY <1>0, <2>1 DEF HasWork, InWindow
  <2> QED
    BY <1>0, <2>1, <2>2, WorkKept
<1>3. ASSUME NEW p \in Peers,
             NoPacket \/ GetDenied(p) \/ GetRefused(p) \/ DownloadOpens(p) \/ DownloadGivesUp(p)
      PROVE  HasWork(q)'
  <2>1. /\ Waits(q)' = Waits(q) /\ ackWaitQueue'[q] = ackWaitQueue[q] /\ q \in on \ jumped
        /\ lastPacketAvailable'[q] = lastPacketAvailable[q] /\ phase = "poll" /\ reset' = reset
    BY <1>3 DEF NoPacket, Handled, GetDenied, GetRefused, FreedTwice, DownloadOpens,
                DownloadGivesUp, Waits
  <2>2. q \notin reset => ackWaitQueue[q] # << >>
    BY <1>0, <2>1 DEF HasWork, InWindow
  <2> QED
    BY <1>0, <2>1, <2>2, WorkKept
<1>4. CASE GetAccepted(q)
  <2>1. dataQueue[q] = << >>
    BY <1>4 DEF GetAccepted, TypeOK
  <2>2. dataQueue'[q] = WholeChunk /\ ackWaitQueue'[q] = << >>
    BY <1>4, <2>1, FreshChunk DEF GetAccepted, TypeOK
  <2>3. Waits(q)' = WholeChunk
    BY <2>2, WholeChunkType, ConcatEmptySeq DEF Waits
  <2>4. lastPacketAvailable'[q] = InitAvail /\ phase' = "upload" /\ q \in todo'
    BY <1>4 DEF GetAccepted, InitSendWindow, Handled, TypeOK
  <2>5. WholeChunk[1] <= InitAvail
    <3>1. 1 \in 1..NumPkt /\ 1 <= InitAvail
      BY Sizes
    <3> QED
      BY <3>1, WholeChunkType
  <2>6. Rest(Waits(q))'
    BY <2>3, RestWhole DEF Rest
  <2> QED
    BY <2>3, <2>4, <2>5, <2>6, WholeChunkType DEF HasWork, InWindow
<1>5. ASSUME NEW ack \in 0..NumPkt, UpdateACKQueue(q, ack)
      PROVE  HasWork(q)'
  <2>1. phase' = "upload" /\ q \in todo'
    BY <1>5 DEF UpdateACKQueue, AckAdvances, AckFinishes, AckIgnored, AckRetransmits, RecvAck,
                Handled
  <2>2. CASE AckAdvances(q, ack)
    <3>1. q \in on \ jumped
      BY <2>2 DEF AckAdvances
    <3> QED
      BY <1>0, <2>2, <3>1, AdvanceKeepsWork
  <2>3. CASE AckFinishes(q, ack)
    BY <2>3 DEF AckFinishes
  <2>4. CASE AckIgnored(q, ack)
    <3>1. /\ q \in on \ jumped /\ Waits(q)' = Waits(q)
          /\ lastPacketAvailable'[q] = lastPacketAvailable[q] /\ reset' = reset
      BY <2>4 DEF AckIgnored, Waits
    <3> QED
      BY <1>0, <2>1, <3>1, WorkKept
  <2>5. CASE AckRetransmits(q, ack)
    <3>1. /\ q \in on \ jumped /\ lastPacketAvailable'[q] = lastPacketAvailable[q]
          /\ reset' = reset
      BY <2>5 DEF AckRetransmits
    <3>2. dataQueue'[q] = Waits(q) /\ ackWaitQueue'[q] = << >>
      BY <2>5 DEF AckRetransmits, MergeAtFront, Waits, TypeOK
    <3>3. Waits(q)' = Waits(q)
      BY <3>2, WaitsType, ConcatEmptySeq DEF Waits
    <3> QED
      BY <1>0, <2>1, <3>1, <3>3, WorkKept
  <2> QED
    BY <1>5, <2>2, <2>3, <2>4, <2>5 DEF UpdateACKQueue
<1>6. CASE Send(q)
  <2>1. /\ q \in on \ jumped /\ SendWindow(q, dataQueue[q], ackWaitQueue[q])
        /\ lastPacketAvailable'[q] = lastPacketAvailable[q] /\ reset' = reset
    BY <1>6 DEF Send
  <2>2. Waits(q)' = Waits(q)
    BY <2>1, SendWindowWaits, WaitsType DEF Waits
  <2>3. q \notin reset => ackWaitQueue'[q] # << >>
    BY <1>0, <2>1, SendsSome, WaitsType DEF HasWork, InWindow, Waits
  <2> QED
    BY <1>0, <2>1, <2>2, <2>3, WorkKept
<1>7. CASE DataTimeout(q)
  <2>1. /\ q \in on \ jumped /\ SendWindow(q, Waits(q), << >>)
        /\ lastPacketAvailable'[q] = lastPacketAvailable[q] /\ reset' = reset
    BY <1>7 DEF DataTimeout, MergeAtFront, Waits
  <2>2. << >> \o Waits(q) = Waits(q)
    BY WaitsType, ConcatEmptySeq
  <2>3. Waits(q)' = Waits(q)
    BY <2>1, <2>2, SendWindowWaits, WaitsType, EmptyType
  <2>4. q \notin reset => ackWaitQueue'[q] # << >>
    BY <1>0, <2>1, <2>2, SendsSome, WaitsType, EmptyType DEF HasWork, InWindow
  <2> QED
    BY <1>0, <2>1, <2>3, <2>4, WorkKept
<1>8. CASE CloseUpload(q)
  BY <1>8 DEF CloseUpload
<1>9. 0 \in 0..NumPkt
  BY Sizes
<1>11. CASE GetUnknown(q)
  <2>1. on' = on /\ jumped' = jumped \cup (on \cap {q})
    BY <1>11 DEF GetUnknown
  <2> QED
    BY <2>1
<1>12. ASSUME NEW p \in Peers, DownloadCompletes(p)
       PROVE  HasWork(q)'
  <2>1. /\ Waits(q)' = Waits(q) /\ q \in on \ jumped /\ phase = "poll"
        /\ phase' = "upload" /\ q \in todo' /\ reset' = reset \cup (on \cap {p})
    BY <1>12 DEF DownloadCompletes, Handled, Waits
  <2>2. p # q => lastPacketAvailable'[q] = lastPacketAvailable[q]
    BY <1>12 DEF DownloadCompletes, InitSendWindow, TypeOK
  <2> QED
    BY <1>0, <2>1, <2>2, WorkKept
<1> QED
  BY <1>1, <1>2, <1>3, <1>4, <1>5, <1>6, <1>7, <1>8, <1>9, <1>11, <1>12 DEF Next, RecvGet, FlushUpload

(* An upload always has a packet that waits for its ACK, and so a timer,    *)
(* unless a GET that cut short the one before, or a chunk completed from    *)
(* the same peer, moved its window back behind what it has to send.         *)
THEOREM NoStallHolds == Spec => []NoStall
<1>1. TypeOK /\ StallInv /\ [Next]_vars => (TypeOK /\ StallInv)'
  BY TypeStep, StallStep
<1>2. StallInv => NoStall
  BY DEF StallInv, HasWork, InWindow, NoStall
<1> QED
  BY <1>1, <1>2, TypeInit, StallInit, PTL DEF Spec

-----------------------------------------------------------------------------
(* The limit *)

(* Every chunk that is queued for a peer, or the rest of one, ends with its *)
(* last packet, and some accepted GET counted it.  The ends are numbered    *)
(* from the back: popping the front moves none of them.                     *)
EndsOf(s) == {j \in Nat : j < Len(s) /\ s[Len(s) - j] = NumPkt}

ChunkEnds == {e \in Peers \X Nat : e[2] \in EndsOf(Waits(e[1]))}

(* What is not sent yet is counted too, so every end that is reached gives  *)
(* back what was taken for it.                                              *)
LimitInv ==
  ~early => IsFiniteSet(ChunkEnds) /\ Cardinality(ChunkEnds) <= numConnUp

LEMMA EndsOfDrop ==
  ASSUME NEW s \in Seq(Packets), NEW k \in 0..Len(s)
  PROVE  /\ EndsOf(Drop(s, k)) \subseteq EndsOf(s)
         /\ Len(s) - k \notin EndsOf(Drop(s, k))
<1>1. Len(s) \in Nat
  BY LenProperties
<1>2. /\ Len(Drop(s, k)) = Len(s) - k
      /\ \A i \in 1..(Len(s) - k) : Drop(s, k)[i] = s[k + i]
  BY DropProperties
<1>3. ASSUME NEW j \in EndsOf(Drop(s, k))
      PROVE  j \in EndsOf(s)
  <2>1. j \in Nat /\ j < Len(s) - k /\ Drop(s, k)[(Len(s) - k) - j] = NumPkt
    BY <1>2 DEF EndsOf
  <2>2. (Len(s) - k) - j \in 1..(Len(s) - k) /\ k + ((Len(s) - k) - j) = Len(s) - j /\ j < Len(s)
    BY <1>1, <2>1
  <2>3. s[Len(s) - j] = NumPkt
    BY <1>2, <2>1, <2>2
  <2> QED
    BY <2>1, <2>2, <2>3 DEF EndsOf
<1>4. Len(s) - k \notin EndsOf(Drop(s, k))
  BY <1>1, <1>2 DEF EndsOf
<1> QED
  BY <1>3, <1>4

LEMMA EndsOfConcat ==
  ASSUME NEW s \in Seq(Packets), NEW j \in EndsOf(s \o WholeChunk)
  PROVE  j = 0 \/ \E i \in EndsOf(s) : j = i + NumPkt
<1> DEFINE t == s \o WholeChunk
<1>1. Len(s) \in Nat /\ NumPkt \in Nat /\ 0 < NumPkt
  BY LenProperties, Sizes
<1>2. /\ Len(t) = Len(s) + NumPkt
      /\ \A i \in 1..(Len(s) + NumPkt) :
           t[i] = IF i <= Len(s) THEN s[i] ELSE WholeChunk[i - Len(s)]
  BY ConcatProperties, WholeChunkType
<1>3. j \in Nat /\ j < Len(t) /\ t[Len(t) - j] = NumPkt
  BY DEF EndsOf
<1> HIDE DEF t
<1>4. /\ j < Len(s) + NumPkt /\ (Len(s) + NumPkt) - j \in 1..(Len(s) + NumPkt)
      /\ t[(Len(s) + NumPkt) - j] = NumPkt
  BY <1>1, <1>2, <1>3
<1>5. CASE j < NumPkt
  <2>1. NumPkt - j \in 1..NumPkt /\ ((Len(s) + NumPkt) - j) - Len(s) = NumPkt - j
        /\ ~((Len(s) + NumPkt) - j <= Len(s))
    BY <1>1, <1>3, <1>5
  <2>2. NumPkt - j = NumPkt
    BY <1>2, <1>4, <2>1, WholeChunkType
  <2> QED
    BY <1>1, <1>3, <2>2
<1>6. CASE ~(j < NumPkt)
  <2>1. /\ j - NumPkt \in Nat /\ j - NumPkt < Len(s) /\ (Len(s) + NumPkt) - j <= Len(s)
        /\ (Len(s) + NumPkt) - j = Len(s) - (j - NumPkt) /\ j = (j - NumPkt) + NumPkt
    BY <1>1, <1>3, <1>4, <1>6
  <2>2. s[Len(s) - (j - NumPkt)] = NumPkt
    BY <1>2, <1>4, <2>1
  <2>3. j - NumPkt \in EndsOf(s)
    BY <2>1, <2>2 DEF EndsOf
  <2> QED
    BY <2>1, <2>3
<1> QED
  BY <1>5, <1>6

(* A peer that anything is queued for has an end.                           *)
LEMMA LastIsEnd ==
  ASSUME NEW s \in Seq(Packets), Follows(s), s # << >>
  PROVE  0 \in EndsOf(s)
<1>1. Len(s) \in Nat /\ 0 < Len(s) /\ Len(s) - 0 = Len(s)
  BY LenProperties, EmptySeq
<1> QED
  BY <1>1 DEF EndsOf, Follows

LEMMA NoEnds == EndsOf(<< >>) = {}
<1>1. Len(<< >>) = 0
  BY EmptySeq
<1> QED
  BY <1>1 DEF EndsOf

LEMMA ImageIsNoLarger ==
  ASSUME NEW S, IsFiniteSet(S), NEW f, NEW T, \A t \in T : \E x \in S : f[x] = t
  PROVE  /\ IsFiniteSet(T)
         /\ Cardinality(T) \in Nat /\ Cardinality(S) \in Nat /\ Cardinality(T) <= Cardinality(S)
<1> DEFINE R == {x \in S : f[x] \in T}
           g == [x \in R |-> f[x]]
<1>1. IsFiniteSet(R) /\ Cardinality(R) <= Cardinality(S)
  <2>1. R \in SUBSET S
    OBVIOUS
  <2> HIDE DEF R
  <2> QED
    BY <2>1, FS_Subset
<1>2. g \in Surjection(R, T)
  BY DEF Surjection
<1> HIDE DEF R, g
<1>3. IsFiniteSet(T) /\ Cardinality(T) <= Cardinality(R)
  BY <1>1, <1>2, FS_Surjection
<1>4. Cardinality(T) \in Nat /\ Cardinality(S) \in Nat /\ Cardinality(R) \in Nat
  BY <1>1, <1>3, FS_CardinalityType
<1> QED
  BY <1>1, <1>3, <1>4

LEMMA LimitInit == Init => LimitInv
<1> SUFFICES ASSUME Init PROVE LimitInv
  OBVIOUS
<1>1. \A q \in Peers : Waits(q) = << >>
  BY EmptyType, ConcatEmptySeq DEF Init, Waits
<1>2. ChunkEnds = {}
  BY <1>1, NoEnds DEF ChunkEnds
<1>3. numConnUp = 0
  BY DEF Init
<1> QED
  BY <1>2, <1>3, FS_EmptySet DEF LimitInv

(* No step but an accepted GET adds an end.                                 *)
LEMMA EndsShrink ==
  ASSUME TypeOK, [Next]_vars, NEW q \in Peers, ~GetAccepted(q)
  PROVE  EndsOf(Waits(q)') \subseteq EndsOf(Waits(q))
<1>0. Waits(q) \in Seq(Packets)
  BY WaitsType
<1>1. ASSUME NEW k \in 1..Len(ackWaitQueue[q]), Waits(q)' = Drop(Waits(q), k)
      PROVE  EndsOf(Waits(q)') \subseteq EndsOf(Waits(q))
  <2>1. k \in 0..Len(Waits(q))
    BY WaitsLengths
  <2> QED
    BY <1>0, <1>1, <2>1, EndsOfDrop
<1> QED
  BY <1>1, WaitsStep, NoEnds

(* What gives a connection back takes an end away.                          *)
LEMMA EndReached ==
  ASSUME TypeOK, WholeChunksFollow, [Next]_vars, ~early', NEW q \in Peers,
         CloseUpload(q) \/ \E ack \in 0..NumPkt : AckFinishes(q, ack)
  PROVE  \E j \in EndsOf(Waits(q)) : j \notin EndsOf(Waits(q)')
<1> DEFINE aw == ackWaitQueue[q]
<1>0. /\ Waits(q) \in Seq(Packets) /\ aw \in Seq(Packets) /\ Len(aw) \in Nat
      /\ Len(Waits(q)) \in Nat /\ NumPkt \in Nat /\ Follows(Waits(q))
  BY WaitsType, Sizes, FollowsEveryPeer
<1>1. CASE CloseUpload(q)
  <2>1. aw # << >>
    BY <1>1 DEF CloseUpload
  <2>2. Waits(q) # << >>
    BY <2>1, WaitsType, ConcatEqualIffEmpty DEF Waits
  <2> QED
    BY <1>0, <1>1, <2>2, LastIsEnd, CloseEmpties, NoEnds
<1>2. ASSUME NEW ack \in 0..NumPkt, AckFinishes(q, ack)
      PROVE  \E j \in EndsOf(Waits(q)) : j \notin EndsOf(Waits(q)')
  <2>1. aw # << >> /\ aw[Len(aw)] = NumPkt /\ ack = NumPkt
    BY <1>2 DEF AckFinishes, IsNew, IsLate
  <2>2. Len(aw) \in 1..Len(aw)
    BY <1>0, <2>1, EmptyIffZero
  <2>3. Waits(q)[Len(aw)] = NumPkt /\ Len(aw) \in 1..Len(Waits(q)) /\ Len(aw) \in 0..Len(Waits(q))
    BY <2>1, <2>2, WaitsLengths
  <2>4. PICK k \in 1..Len(aw) :
          PopsUpTo(aw, ack, k) /\ ackWaitQueue' = [ackWaitQueue EXCEPT ![q] = Drop(@, k)]
    BY <1>2 DEF AckFinishes, Pops
  <2>5. k = Len(aw)
    <3>1. SUFFICES ASSUME k < Len(aw) PROVE FALSE
      BY <1>0
    <3>2. aw[k + 1] > NumPkt /\ k + 1 \in 1..Len(aw)
      BY <1>0, <2>1, <2>4, <3>1 DEF PopsUpTo
    <3>3. aw[k + 1] \in Packets
      BY <1>0, <3>2, ElementOfSeq
    <3> QED
      BY <1>0, <3>2, <3>3 DEF Packets
  <2>6. Waits(q)' = Drop(Waits(q), Len(aw))
    <3>1. ackWaitQueue'[q] = Drop(aw, Len(aw)) /\ dataQueue'[q] = dataQueue[q]
      BY <1>2, <2>4, <2>5 DEF TypeOK, AckFinishes
    <3>2. Len(aw) \in 0..Len(aw)
      BY <2>2, <1>0
    <3> QED
      BY <3>1, <3>2, DropOfFirst, WaitsType DEF Waits
  <2> HIDE DEF aw
  <2>7. Len(Waits(q)) - Len(aw) \notin EndsOf(Waits(q)')
    BY <1>0, <2>3, <2>6, EndsOfDrop
  <2>8. Len(Waits(q)) - Len(aw) \in EndsOf(Waits(q))
    <3>1. /\ Len(Waits(q)) - Len(aw) \in Nat /\ Len(Waits(q)) - Len(aw) < Len(Waits(q))
          /\ Len(Waits(q)) - (Len(Waits(q)) - Len(aw)) = Len(aw)
      BY <1>0, <2>3
    <3> QED
      BY <2>3, <3>1 DEF EndsOf
  <2> QED
    BY <2>7, <2>8
<1> QED
  BY <1>1, <1>2

(* numConnUp falls only at an end, and by one.                              *)
LEMMA CountFalls ==
  ASSUME TypeOK, [Next]_vars
  PROVE  \/ numConnUp' = numConnUp \/ numConnUp' = numConnUp + 1
         \/ /\ numConnUp' = numConnUp - 1
            /\ \E q \in Peers : CloseUpload(q) \/ \E ack \in 0..NumPkt : AckFinishes(q, ack)
BY DEF Next, vars, NoPacket, RecvGet, GetDenied, GetRefused, GetAccepted, UpdateACKQueue, AckAdvances,
       AckFinishes, AckIgnored, AckRetransmits, FlushUpload, Send, DataTimeout, CloseUpload,
       GetUnknown, DownloadOpens, DownloadGivesUp, DownloadCompletes

(* An accepted GET counts the one chunk that it queues.                     *)
LEMMA AcceptedIsCounted ==
  ASSUME TypeOK, [Next]_vars, LimitInv, ~early, NEW p \in Peers, GetAccepted(p)
  PROVE  IsFiniteSet(ChunkEnds') /\ Cardinality(ChunkEnds') <= numConnUp'
<1> DEFINE S == ChunkEnds
           f == [e \in S |-> IF e[1] = p THEN <<p, e[2] + NumPkt>> ELSE e]
           T == {f[e] : e \in S}
<1>1. IsFiniteSet(S) /\ Cardinality(S) <= numConnUp /\ numConnUp \in Int
  BY DEF LimitInv, TypeOK
<1>2. numConnUp' = numConnUp + 1 /\ 0 \in 0..NumPkt
  BY Sizes DEF GetAccepted
<1>3. \A q \in Peers \ {p} : Waits(q)' = Waits(q)
  BY <1>2, OthersKept
<1>4. Waits(p)' = dataQueue[p] \o WholeChunk
  <2>1. dataQueue'[p] = dataQueue[p] \o WholeChunk /\ ackWaitQueue'[p] = << >>
    BY DEF GetAccepted, TypeOK
  <2>2. dataQueue[p] \o WholeChunk \in Seq(Packets)
    BY WaitsType, WholeChunkType, ConcatProperties
  <2> QED
    BY <2>1, <2>2, ConcatEmptySeq DEF Waits
<1>5. EndsOf(dataQueue[p]) \subseteq EndsOf(Waits(p))
  <2>1. Len(ackWaitQueue[p]) \in 0..Len(Waits(p))
    BY WaitsLengths
  <2>2. EndsOf(Drop(Waits(p), Len(ackWaitQueue[p]))) \subseteq EndsOf(Waits(p))
    BY <2>1, WaitsType, EndsOfDrop
  <2> QED
    BY <2>2, DataIsDrop
<1>6. ASSUME NEW e \in ChunkEnds'
      PROVE  e \in T \cup {<<p, 0>>}
  <2>1. PICK q \in Peers : \E j \in Nat : e = <<q, j>> /\ j \in EndsOf(Waits(q)')
    BY DEF ChunkEnds
  <2>2. PICK j \in Nat : e = <<q, j>> /\ j \in EndsOf(Waits(q)')
    BY <2>1
  <2>3. CASE q # p
    <3>1. <<q, j>> \in S
      BY <1>3, <2>2, <2>3 DEF ChunkEnds
    <3>2. f[<<q, j>>] = <<q, j>>
      BY <2>3, <3>1
    <3> QED
      BY <2>2, <3>1, <3>2
  <2>4. CASE q = p
    <3>1. j = 0 \/ \E i \in EndsOf(dataQueue[p]) : j = i + NumPkt
      <4>1. j \in EndsOf(dataQueue[p] \o WholeChunk) /\ dataQueue[p] \in Seq(Packets)
        BY <1>4, <2>2, <2>4, WaitsType
      <4> QED
        BY <4>1, EndsOfConcat
    <3>2. ASSUME NEW i \in EndsOf(dataQueue[p]), j = i + NumPkt
          PROVE  e \in T
      <4>1. <<p, i>> \in S
        BY <1>5 DEF ChunkEnds, EndsOf
      <4>2. f[<<p, i>>] = <<p, i + NumPkt>>
        BY <4>1
      <4> QED
        BY <2>2, <2>4, <3>2, <4>1, <4>2
    <3> QED
      BY <2>2, <2>4, <3>1, <3>2
  <2> QED
    BY <2>3, <2>4
<1>7. \A t \in T : \E x \in S : f[x] = t
  OBVIOUS
<1> HIDE DEF S, f, T
<1>8. IsFiniteSet(T) /\ Cardinality(T) \in Nat /\ Cardinality(S) \in Nat
        /\ Cardinality(T) <= Cardinality(S)
  BY <1>1, <1>7, ImageIsNoLarger
<1>9. /\ IsFiniteSet(T \cup {<<p, 0>>})
      /\ Cardinality(T \cup {<<p, 0>>}) <= Cardinality(T) + 1
  <2>1. PICK x : x = <<p, 0>>
    OBVIOUS
  <2>2. /\ IsFiniteSet(T \cup {x})
        /\ Cardinality(T \cup {x}) = IF x \in T THEN Cardinality(T) ELSE Cardinality(T) + 1
    BY <1>8, FS_AddElement
  <2> QED
    BY <1>8, <2>1, <2>2
<1>10. IsFiniteSet(ChunkEnds') /\ Cardinality(ChunkEnds') <= Cardinality(T \cup {<<p, 0>>})
  <2>1. ChunkEnds' \in SUBSET (T \cup {<<p, 0>>})
    BY <1>6
  <2> QED
    BY <1>9, <2>1, FS_Subset
<1>11. Cardinality(ChunkEnds') \in Nat /\ Cardinality(T \cup {<<p, 0>>}) \in Nat
  BY <1>9, <1>10, FS_CardinalityType
<1> QED
  BY <1>1, <1>2, <1>8, <1>9, <1>10, <1>11

LEMMA LimitStep == TypeOK /\ WholeChunksFollow /\ LimitInv /\ [Next]_vars => LimitInv'
<1> SUFFICES ASSUME TypeOK, WholeChunksFollow, LimitInv, [Next]_vars, ~early'
             PROVE  IsFiniteSet(ChunkEnds') /\ Cardinality(ChunkEnds') <= numConnUp'
  BY DEF LimitInv
<1>1. ~early
  BY NeverForgotten
<1>2. IsFiniteSet(ChunkEnds) /\ Cardinality(ChunkEnds) <= numConnUp /\ numConnUp \in Int
        /\ Cardinality(ChunkEnds) \in Nat
  BY <1>1, FS_CardinalityType DEF LimitInv, TypeOK
<1>3. CASE \E q \in Peers : GetAccepted(q)
  BY <1>1, <1>3, AcceptedIsCounted
<1>4. CASE ~\E q \in Peers : GetAccepted(q)
  <2>1. ChunkEnds' \subseteq ChunkEnds
    BY <1>4, EndsShrink DEF ChunkEnds
  <2>2. IsFiniteSet(ChunkEnds') /\ Cardinality(ChunkEnds') <= Cardinality(ChunkEnds)
    BY <1>2, <2>1, FS_Subset
  <2>3. Cardinality(ChunkEnds') \in Nat
    BY <2>2, FS_CardinalityType
  <2>4. CASE numConnUp' = numConnUp \/ numConnUp' = numConnUp + 1
    BY <1>2, <2>2, <2>3, <2>4
  <2>5. ASSUME NEW q \in Peers, numConnUp' = numConnUp - 1,
               CloseUpload(q) \/ \E ack \in 0..NumPkt : AckFinishes(q, ack)
        PROVE  Cardinality(ChunkEnds') <= numConnUp'
    <3>1. PICK j \in EndsOf(Waits(q)) : j \notin EndsOf(Waits(q)')
      BY <2>5, EndReached
    <3>2. <<q, j>> \in ChunkEnds /\ <<q, j>> \notin ChunkEnds'
      BY <3>1 DEF ChunkEnds, EndsOf
    <3>3. ChunkEnds' \in SUBSET (ChunkEnds \ {<<q, j>>})
      BY <2>1, <3>2
    <3>4. /\ IsFiniteSet(ChunkEnds \ {<<q, j>>})
          /\ Cardinality(ChunkEnds \ {<<q, j>>}) = Cardinality(ChunkEnds) - 1
      BY <1>2, <3>2, FS_RemoveElement
    <3>5. Cardinality(ChunkEnds') <= Cardinality(ChunkEnds \ {<<q, j>>})
      BY <3>3, <3>4, FS_Subset
    <3> QED
      BY <1>2, <2>3, <2>5, <3>4, <3>5
  <2> QED
    BY <2>2, <2>4, <2>5, CountFalls
<1> QED
  BY <1>3, <1>4

(* A GET is accepted only below the limit.                                  *)
LEMMA BelowLimitStep ==
  TypeOK /\ numConnUp <= maxConn /\ [Next]_vars => (numConnUp <= maxConn)'
<1> SUFFICES ASSUME TypeOK, numConnUp <= maxConn, [Next]_vars PROVE numConnUp' <= maxConn'
  OBVIOUS
<1>1. maxConn' = maxConn /\ numConnUp \in Int /\ maxConn \in Nat
  BY UploadAssumption
  DEF Next, vars, NoPacket, RecvGet, GetDenied, GetRefused, GetAccepted, UpdateACKQueue, AckAdvances,
      AckFinishes, AckIgnored, AckRetransmits, RecvAck, FlushUpload, Send, DataTimeout, CloseUpload,
      GetUnknown, DownloadOpens, DownloadGivesUp, DownloadCompletes, TypeOK
<1>2. \/ numConnUp' = numConnUp \/ numConnUp' = numConnUp - 1
      \/ numConnUp' = numConnUp + 1 /\ numConnUp # maxConn
  BY DEF Next, vars, NoPacket, RecvGet, GetDenied, GetRefused, GetAccepted, UpdateACKQueue, AckAdvances,
         AckFinishes, AckIgnored, AckRetransmits, FlushUpload, Send, DataTimeout, CloseUpload,
         GetUnknown, DownloadOpens, DownloadGivesUp, DownloadCompletes
<1> QED
  BY <1>1, <1>2

(* A peer with packets under way has an end.                                *)
LEMMA SendingIsCounted ==
  ASSUME TypeOK, WholeChunksFollow, LimitInv, ~early
  PROVE  Cardinality(Sending) <= numConnUp
<1> DEFINE S == ChunkEnds
           f == [e \in S |-> e[1]]
<1>1. IsFiniteSet(S) /\ Cardinality(S) <= numConnUp /\ numConnUp \in Int
  BY DEF LimitInv, TypeOK
<1>2. ASSUME NEW q \in Sending
      PROVE  \E e \in S : f[e] = q
  <2>1. q \in Peers /\ ackWaitQueue[q] # << >>
    BY DEF Sending
  <2>2. Waits(q) # << >> /\ Waits(q) \in Seq(Packets) /\ Follows(Waits(q))
    <3>1. ackWaitQueue[q] \in Seq(Packets) /\ dataQueue[q] \in Seq(Packets)
      BY <2>1, WaitsType
    <3>2. Waits(q) # << >>
      BY <2>1, <3>1, ConcatEqualIffEmpty DEF Waits
    <3> QED
      BY <2>1, <3>2, WaitsType, FollowsEveryPeer
  <2>3. <<q, 0>> \in S
    BY <2>1, <2>2, LastIsEnd DEF ChunkEnds
  <2> QED
    BY <2>3
<1> HIDE DEF S, f
<1> QED
  BY <1>1, <1>2, ImageIsNoLarger

(* numConnUp never passes maxConn, and until a final ACK ends the upload    *)
(* after its own, no more peers than it counts have packets under way, for  *)
(* any number of peers and whatever GETs were refused, repeated or denied.  *)
THEOREM LimitIsKeptHolds == Spec => []LimitIsKept
<1> DEFINE Inv == TypeOK /\ WholeChunksFollow /\ LimitInv /\ numConnUp <= maxConn
<1>1. Init => Inv
  <2>1. Init => numConnUp <= maxConn
    BY UploadAssumption DEF Init
  <2> QED
    BY <2>1, TypeInit, FollowsInit, LimitInit
<1>2. Inv /\ [Next]_vars => Inv'
  BY TypeStep, FollowsStep, LimitStep, BelowLimitStep
<1>3. Inv => LimitIsKept
  BY SendingIsCounted DEF LimitIsKept
<1> QED
  BY <1>1, <1>2, <1>3, PTL DEF Spec
=============================================================================
