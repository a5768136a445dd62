------------------------- MODULE DownloadPool_proofs -------------------------
(***************************************************************************)
(* Theorems about DownloadPool, for any peers, chunks, lists and limits:    *)
(* type correctness; that the timer of a GET is there when it is read; that *)
(* a chunk is claimed by one peer; that the connections are counted; that   *)
(* the user is listened to only when nothing is fetched; and that what is   *)
(* fetched stays fetched.                                                   *)
(***************************************************************************)
EXTENDS DownloadPool, FiniteSetTheorems, TLAPS

-----------------------------------------------------------------------------
(* Types *)

LEMMA ListType ==
  ASSUME NEW l \in Requests \cup {<< >>}
  PROVE  l \in Seq(Chunks) /\ DOMAIN l \subseteq Idx
<1>1. l \in Seq(Chunks)
  <2>1. << >> \in Seq(Chunks)
    OBVIOUS
  <2> QED
    BY <2>1, RequestsAssumption
<1>2. CASE l \in Requests
  BY <1>2, <1>1 DEF Idx
<1>3. CASE l = << >>
  BY <1>3, <1>1 DEF Idx
<1> QED
  BY <1>1, <1>2, <1>3

LEMMA InOrderType ==
  ASSUME NEW S, NEW s \in Seq(S), NEW P \in SUBSET DOMAIN s, NEW t \in InOrder(s, P)
  PROVE  t \in Seq(S)
<1> DEFINE n == Cardinality(P)
<1>1. n \in Nat
  <2>1. DOMAIN s = 1..Len(s) /\ Len(s) \in Nat
    OBVIOUS
  <2>2. IsFiniteSet(DOMAIN s)
    BY <2>1, FS_Interval
  <2> QED
    BY <2>2, FS_Subset, FS_CardinalityType
<1>2. PICK f \in [1..n -> P] : t = [i \in 1..n |-> s[f[i]]]
  BY DEF InOrder
<1> HIDE DEF n
<1>3. \A i \in 1..n : s[f[i]] \in S
  BY <1>2
<1>4. t \in [1..n -> S]
  BY <1>2, <1>3
<1> QED
  BY <1>1, <1>4

LEMMA WithWhohasType ==
  ASSUME NEW queue \in Seq(PacketType), NEW l \in Seq(Chunks), NEW fs,
         NEW queue2 \in WithWhohas(queue, l, fs)
  PROVE  queue2 \in Seq(PacketType)
<1>1. Listed(l, fs) \in SUBSET DOMAIN l
  BY DEF Listed, Needed
<1>2. ASSUME NEW hashes \in InOrder(l, Listed(l, fs))
      PROVE  Whohas(hashes) \in PacketType
  <2>1. hashes \in Seq(Chunks)
    BY <1>1, InOrderType
  <2> QED
    BY <2>1 DEF Whohas, PacketType
<1> HIDE DEF PacketType
<1> QED
  BY <1>2 DEF WithWhohas

LEMMA GetsType ==
  ASSUME NEW hashes \in Seq(Chunks), NEW gets \in NewPacketGET(hashes)
  PROVE  gets \in Seq(Chunks)
BY InOrderType DEF NewPacketGET

LEMMA AnswersType ==
  ASSUME TypeOK
  PROVE  Answers \in SUBSET (Peers \X Seq(Chunks))
<1>1. ASSUME NEW q \in Peers, NEW i \in DOMAIN nonCongestQueue,
             NEW t \in InOrder(nonCongestQueue[i].hashes, Owned(q, nonCongestQueue[i].hashes))
      PROVE  t \in Seq(Chunks)
  <2>1. nonCongestQueue[i] \in PacketType
    BY DEF TypeOK
  <2>2. nonCongestQueue[i].hashes \in Seq(Chunks)
    BY <2>1 DEF PacketType
  <2>3. Owned(q, nonCongestQueue[i].hashes) \in SUBSET DOMAIN nonCongestQueue[i].hashes
    BY DEF Owned
  <2> QED
    BY <2>2, <2>3, InOrderType
<1> QED
  BY <1>1 DEF Answers

(* What cleanUpConnDown leaves behind.                                      *)
LEMMA CleanUpType ==
  ASSUME TypeOK, NEW q \in Peers, CleanUpConnDown(q)
  PROVE  /\ state' \in [Peers -> {Ready, Downloading, Waiting}]
         /\ curChunkID' \in [Peers -> Idx]
         /\ connected' \in [Peers -> BOOLEAN]
         /\ timeoutCount' \in [Peers -> 0..(MaxTimeouts - 1)]
         /\ getQueue' \in [Peers -> Seq(Chunks)]
         /\ timeoutQueue' \in [Peers -> Seq(Chunks)]
<1>1. 0 \in 0..(MaxTimeouts - 1)
  BY BoundsAssumption
<1>2. 1 \in Idx /\ << >> \in Seq(Chunks)
  <2>1. << >> \in Seq(Chunks)
    OBVIOUS
  <2> QED
    BY <2>1 DEF Idx
<1>3. /\ curChunkID' \in [Peers -> Idx]
      /\ timeoutCount' \in [Peers -> 0..(MaxTimeouts - 1)]
  BY <1>1, <1>2 DEF TypeOK, CleanUpConnDown
<1> QED
  BY <1>2, <1>3 DEF TypeOK, CleanUpConnDown

LEMMA UpdateGetChunkType ==
  ASSUME TypeOK, NEW fs \in [Idx -> {Unfetched, Fetched, Fetching}], UpdateGetChunk(fs)
  PROVE  /\ fetchState' \in [Idx -> {Unfetched, Fetched, Fetching}]
         /\ getChunk' \in Requests \cup {<< >>} /\ idle' \in {0, 1}
<1>1. CASE \E i \in DOMAIN getChunk : fs[i] # Fetched
  BY <1>1 DEF TypeOK, UpdateGetChunk
<1>2. CASE ~(\E i \in DOMAIN getChunk : fs[i] # Fetched)
  <2>1. fetchState' = [i \in Idx |-> Unfetched] /\ getChunk' = << >> /\ idle' = 1
    BY <1>2 DEF UpdateGetChunk
  <2> QED
    BY <2>1
<1> QED
  BY <1>1, <1>2

LEMMA EndDownloadType ==
  ASSUME TypeOK, NEW q \in Peers, EndDownload(q)
  PROVE  /\ state' \in [Peers -> {Ready, Downloading, Waiting}]
         /\ connected' \in [Peers -> BOOLEAN]
         /\ timeoutCount' \in [Peers -> 0..(MaxTimeouts - 1)]
         /\ timeoutQueue' \in [Peers -> Seq(Chunks)]
         /\ numConnDown' \in Int
<1>1. 0 \in 0..(MaxTimeouts - 1)
  BY BoundsAssumption
<1>2. timeoutCount' \in [Peers -> 0..(MaxTimeouts - 1)]
  BY <1>1 DEF TypeOK, EndDownload
<1> QED
  BY <1>2 DEF TypeOK, EndDownload

LEMMA CompletedType ==
  ASSUME TypeOK, NEW q \in Peers
  PROVE  Completed(q) \in [Idx -> {Unfetched, Fetched, Fetching}]
BY DEF TypeOK, Completed

LEMMA TypeInit == Init => TypeOK
<1> SUFFICES ASSUME Init PROVE TypeOK
  OBVIOUS
<1>1. 0 \in 0..(MaxTimeouts - 1) /\ 1 \in Idx /\ << >> \in Seq(PacketType) /\ << >> \in Seq(Chunks)
  <2>1. << >> \in Seq(PacketType) /\ << >> \in Seq(Chunks)
    OBVIOUS
  <2> QED
    BY <2>1, BoundsAssumption DEF Idx
<1>2. timeoutCount \in [Peers -> 0..(MaxTimeouts - 1)] /\ curChunkID \in [Peers -> Idx]
  BY <1>1 DEF Init
<1>3. nonCongestQueue \in Seq(PacketType)
  BY <1>1 DEF Init
<1>4. /\ getChunk \in Requests \cup {<< >>} /\ idle \in {0, 1} /\ numConnDown \in Int
      /\ fetchState \in [Idx -> {Unfetched, Fetched, Fetching}]
      /\ state \in [Peers -> {Ready, Downloading, Waiting}]
  BY DEF Init
<1>5. /\ connected \in [Peers -> BOOLEAN]
      /\ getQueue \in [Peers -> Seq(Chunks)]
      /\ timeoutQueue \in [Peers -> Seq(Chunks)]
  BY <1>1 DEF Init
<1>6. /\ maxConn \in MaxConns
      /\ phase \in {"poll", "input", "queue", "download", "crashed"} /\ todo \in SUBSET Peers
      /\ answers \in SUBSET (Peers \X Seq(Chunks)) /\ asked \in SUBSET Peers
      /\ unsent \in SUBSET Idx /\ stray \in BOOLEAN
  BY DEF Init
<1> QED
  BY <1>2, <1>3, <1>4, <1>5, <1>6 DEF TypeOK

LEMMA VisitType ==
  ASSUME TypeOK, NEW q \in Peers, Visit(q)
  PROVE  /\ phase' \in {"poll", "input", "queue", "download", "crashed"}
         /\ todo' \in SUBSET Peers
BY DEF TypeOK, Visit

LEMMA TypeStep == TypeOK /\ [Next]_vars => TypeOK'
<1> SUFFICES ASSUME TypeOK, [Next]_vars PROVE TypeOK'
  OBVIOUS
<1> USE DEF poolVars, listVars, netVars
<1>1. CASE UNCHANGED vars
  BY <1>1 DEF vars, TypeOK
<1>2. CASE NoPacket
  BY <1>2 DEF NoPacket, Handled, TypeOK
<1>3. ASSUME NEW hashes \in SUBSET Chunks, RecvWhohas(hashes)
      PROVE  TypeOK'
  <2>1. NewPacketIHAVE(hashes) \in PacketType
    BY DEF NewPacketIHAVE, Null, Ihave, PacketType
  <2> HIDE DEF PacketType
  <2>2. nonCongestQueue' \in Seq(PacketType)
    BY <1>3, <2>1 DEF RecvWhohas, TypeOK
  <2> QED
    BY <1>3, <2>2 DEF RecvWhohas, Handled, TypeOK
<1>4. ASSUME NEW a \in answers, RecvIhave(a[1], a[2])
      PROVE  TypeOK'
  <2>1. a[1] \in Peers /\ a[2] \in Seq(Chunks)
    BY DEF TypeOK
  <2>2. PICK gets \in NewPacketGET(a[2]) : getQueue' = [getQueue EXCEPT ![a[1]] = @ \o gets]
    BY <1>4 DEF RecvIhave
  <2>3. gets \in Seq(Chunks)
    BY <2>1, GetsType
  <2>4. getQueue' \in [Peers -> Seq(Chunks)]
    BY <2>1, <2>2, <2>3 DEF TypeOK
  <2> QED
    BY <1>4, <2>4 DEF RecvIhave, Handled, TypeOK
<1>5. ASSUME NEW q \in Peers, RecvData(q)
      PROVE  TypeOK'
  <2>1. timeoutCount' \in [Peers -> 0..(MaxTimeouts - 1)]
    BY <1>5, BoundsAssumption DEF RecvData, TypeOK
  <2> QED
    BY <1>5, <2>1 DEF RecvData, Handled, TypeOK
<1>6. ASSUME NEW q \in Peers, CompleteChunk(q) \/ CompleteStray(q)
      PROVE  TypeOK'
  <2>1. EndDownload(q) /\ UpdateGetChunk(Completed(q)) /\ Handled
    BY <1>6 DEF CompleteChunk, CompleteStray
  <2>2. /\ state' \in [Peers -> {Ready, Downloading, Waiting}]
        /\ connected' \in [Peers -> BOOLEAN]
        /\ timeoutCount' \in [Peers -> 0..(MaxTimeouts - 1)]
        /\ timeoutQueue' \in [Peers -> Seq(Chunks)]
        /\ numConnDown' \in Int
    BY <2>1, EndDownloadType
  <2>3. /\ fetchState' \in [Idx -> {Unfetched, Fetched, Fetching}]
        /\ getChunk' \in Requests \cup {<< >>} /\ idle' \in {0, 1}
    BY <2>1, CompletedType, UpdateGetChunkType
  <2>4. UNCHANGED <<maxConn, nonCongestQueue, curChunkID, getQueue, todo, answers, asked, unsent>>
    BY <1>6 DEF CompleteChunk, CompleteStray
  <2>5. stray' \in BOOLEAN
    BY <1>6 DEF CompleteChunk, CompleteStray, TypeOK
  <2>6. phase' \in {"poll", "input", "queue", "download", "crashed"}
    BY <2>1 DEF Handled
  <2> QED
    BY <2>2, <2>3, <2>4, <2>5, <2>6 DEF TypeOK
<1>7. ASSUME NEW q \in Peers, CompleteNothing(q)
      PROVE  TypeOK'
  BY <1>7 DEF CompleteNothing, TypeOK
<1>8. ASSUME NEW request \in Requests, UserGet(request)
      PROVE  TypeOK'
  <2>1. nonCongestQueue' \in Seq(PacketType)
    BY <1>8, ListType, WithWhohasType DEF UserGet, TypeOK
  <2> QED
    BY <1>8, <2>1 DEF UserGet, FillChunkList, TypeOK
<1>9. CASE FlushQueue
  <2>1. phase' \in {"poll", "input", "queue", "download", "crashed"} /\ todo' \in SUBSET Peers
    BY <1>9 DEF FlushQueue, FlushNothing, FlushAll, FlushNull, Visiting, TypeOK
  <2>2. nonCongestQueue' \in Seq(PacketType)
    <3> HIDE DEF PacketType
    <3>1. nonCongestQueue \in Seq(PacketType) /\ << >> \in Seq(PacketType)
      BY DEF TypeOK
    <3>2. nonCongestQueue # << >> => Tail(nonCongestQueue) \in Seq(PacketType)
      BY <3>1
    <3> QED
      BY <1>9, <3>1, <3>2 DEF FlushQueue, FlushNothing, FlushAll, FlushNull
  <2>3. answers' \in SUBSET (Peers \X Seq(Chunks))
    BY <1>9, AnswersType DEF FlushQueue, FlushNothing, FlushAll, FlushNull, TypeOK
  <2>4. UNCHANGED <<maxConn, listVars, poolVars, asked, unsent, stray>>
    BY <1>9 DEF FlushQueue, FlushNothing, FlushAll, FlushNull
  <2> QED
    BY <2>1, <2>2, <2>3, <2>4 DEF TypeOK
<1>10. ASSUME NEW q \in Peers, NothingToGet(q)
       PROVE  TypeOK'
  <2>1. getQueue' \in [Peers -> Seq(Chunks)]
    BY <1>10 DEF NothingToGet, TypeOK
  <2> QED
    BY <1>10, <2>1, VisitType DEF NothingToGet, TypeOK
<1>11. ASSUME NEW q \in Peers, SendGet(q)
       PROVE  TypeOK'
  <2>1. PICK k \in DOMAIN getQueue[q], i \in DOMAIN getChunk, first \in DOMAIN getChunk :
          /\ getQueue' = [getQueue EXCEPT ![q] = RestOfGets(q, k)]
          /\ fetchState' = [fetchState EXCEPT ![i] = Fetching]
          /\ curChunkID' = [curChunkID EXCEPT ![q] = first]
          /\ timeoutQueue' = [timeoutQueue EXCEPT ![q] = Append(@, getChunk[i])]
    BY <1>11 DEF SendGet
  <2>2. i \in Idx /\ first \in Idx /\ getChunk[i] \in Chunks
    BY ListType DEF TypeOK
  <2>3. RestOfGets(q, k) \in Seq(Chunks)
    <3>1. getQueue[q] \in Seq(Chunks)
      BY DEF TypeOK
    <3> QED
      BY <3>1 DEF RestOfGets
  <2>4. getQueue' \in [Peers -> Seq(Chunks)] /\ timeoutQueue' \in [Peers -> Seq(Chunks)]
    BY <2>1, <2>2, <2>3 DEF TypeOK
  <2>5. /\ fetchState' \in [Idx -> {Unfetched, Fetched, Fetching}]
        /\ curChunkID' \in [Peers -> Idx]
    BY <2>1, <2>2 DEF TypeOK
  <2>6. /\ state' \in [Peers -> {Ready, Downloading, Waiting}]
        /\ connected' \in [Peers -> BOOLEAN]
        /\ numConnDown' \in Int /\ asked' \in SUBSET Peers
    BY <1>11 DEF SendGet, TypeOK
  <2>7. UNCHANGED <<maxConn, idle, getChunk, nonCongestQueue, timeoutCount, answers, unsent, stray>>
    BY <1>11 DEF SendGet
  <2>8. Visit(q)
    BY <1>11 DEF SendGet
  <2> QED
    BY <2>4, <2>5, <2>6, <2>7, <2>8, VisitType DEF TypeOK
<1>12. ASSUME NEW q \in Peers, SendGetFails(q)
       PROVE  TypeOK'
  <2>1. PICK i \in DOMAIN getChunk :
          /\ fetchState' = [fetchState EXCEPT ![i] = Fetching]
          /\ unsent' = unsent \cup {i}
    BY <1>12 DEF SendGetFails
  <2>2. i \in Idx
    BY ListType DEF TypeOK
  <2>3. unsent' \in SUBSET Idx /\ fetchState' \in [Idx -> {Unfetched, Fetched, Fetching}]
    BY <2>1, <2>2 DEF TypeOK
  <2>4. nonCongestQueue' \in Seq(PacketType)
    BY <1>12, ListType, WithWhohasType DEF SendGetFails, TypeOK
  <2> QED
    BY <1>12, <2>3, <2>4, CleanUpType DEF SendGetFails, TypeOK
<1>13. ASSUME NEW q \in Peers, NoConnection(q)
       PROVE  TypeOK'
  <2>1. PICK k \in DOMAIN getQueue[q] : getQueue' = [getQueue EXCEPT ![q] = RestOfGets(q, k)]
    BY <1>13 DEF NoConnection
  <2>2. RestOfGets(q, k) \in Seq(Chunks)
    <3>1. getQueue[q] \in Seq(Chunks)
      BY DEF TypeOK
    <3> QED
      BY <3>1 DEF RestOfGets
  <2>3. getQueue' \in [Peers -> Seq(Chunks)]
    BY <2>1, <2>2 DEF TypeOK
  <2> QED
    BY <1>13, <2>3, VisitType DEF NoConnection, TypeOK
<1>14. ASSUME NEW q \in Peers, KeepWaiting(q)
       PROVE  TypeOK'
  BY <1>14, VisitType DEF KeepWaiting, TypeOK
<1>15. ASSUME NEW q \in Peers, GetTimeout(q)
       PROVE  TypeOK'
  <2>1. timeoutCount' \in [Peers -> 0..(MaxTimeouts - 1)]
    BY <1>15, BoundsAssumption DEF GetTimeout, TypeOK
  <2> QED
    BY <1>15, <2>1, VisitType DEF GetTimeout, TypeOK
<1>16. ASSUME NEW q \in Peers, GiveUp(q)
       PROVE  TypeOK'
  <2>1. fetchState' \in [Idx -> {Unfetched, Fetched, Fetching}]
    BY <1>16 DEF GiveUp, TypeOK
  <2>2. nonCongestQueue' \in Seq(PacketType)
    BY <1>16, ListType, WithWhohasType DEF GiveUp, TypeOK
  <2>3. CleanUpConnDown(q) /\ Visit(q)
    BY <1>16 DEF GiveUp
  <2>4. /\ state' \in [Peers -> {Ready, Downloading, Waiting}]
        /\ curChunkID' \in [Peers -> Idx]
        /\ connected' \in [Peers -> BOOLEAN]
        /\ timeoutCount' \in [Peers -> 0..(MaxTimeouts - 1)]
        /\ getQueue' \in [Peers -> Seq(Chunks)]
        /\ timeoutQueue' \in [Peers -> Seq(Chunks)]
    BY <2>3, CleanUpType
  <2>5. /\ phase' \in {"poll", "input", "queue", "download", "crashed"}
        /\ todo' \in SUBSET Peers
    BY <2>3, VisitType
  <2>6. numConnDown' \in Int
    BY <1>16 DEF GiveUp, TypeOK
  <2>7. UNCHANGED <<maxConn, idle, getChunk, netVars>>
    BY <1>16 DEF GiveUp
  <2> QED
    BY <2>1, <2>2, <2>4, <2>5, <2>6, <2>7 DEF TypeOK
<1> QED
  BY <1>1, <1>2, <1>3, <1>4, <1>5, <1>6, <1>7, <1>8, <1>9, <1>10, <1>11, <1>12, <1>13, <1>14,
     <1>15, <1>16 DEF Next, FlushDownload

(* The variables of the peer stay in their types, whatever comes in, and    *)
(* for any peers, lists and limits.                                         *)
THEOREM DownloadTypeCorrect == Spec => []TypeOK
<1> QED
  BY TypeInit, TypeStep, PTL DEF Spec

-----------------------------------------------------------------------------
(* The timer of a GET *)

LEMMA TimerInit == Init => TimerHasGet
BY DEF Init, TimerHasGet, Ready, Downloading

LEMMA CleanUpTimer ==
  ASSUME TypeOK, TimerHasGet, NEW q \in Peers, CleanUpConnDown(q)
  PROVE  TimerHasGet'
BY DEF TypeOK, TimerHasGet, CleanUpConnDown, Ready, Downloading

LEMMA TimerStep == TypeOK /\ TimerHasGet /\ [Next]_vars => TimerHasGet'
<1> SUFFICES ASSUME TypeOK, TimerHasGet, [Next]_vars PROVE TimerHasGet'
  OBVIOUS
<1> DEFINE timerVars == <<state, connected, timeoutQueue>>
<1>1. ASSUME UNCHANGED timerVars
      PROVE  TimerHasGet'
  BY <1>1 DEF TimerHasGet
<1>2. CASE UNCHANGED vars
  BY <1>1, <1>2 DEF vars, poolVars
<1>3. CASE NoPacket
  BY <1>1, <1>3 DEF NoPacket, poolVars
<1>4. ASSUME NEW hashes \in SUBSET Chunks, RecvWhohas(hashes)
      PROVE  TimerHasGet'
  BY <1>1, <1>4 DEF RecvWhohas, poolVars
<1>5. ASSUME NEW a \in answers, RecvIhave(a[1], a[2])
      PROVE  TimerHasGet'
  BY <1>1, <1>5 DEF RecvIhave
<1>6. ASSUME NEW q \in Peers, RecvData(q)
      PROVE  TimerHasGet'
  BY <1>1, <1>6 DEF RecvData
<1>7. ASSUME NEW q \in Peers, CompleteChunk(q) \/ CompleteStray(q)
      PROVE  TimerHasGet'
  <2>1. EndDownload(q)
    BY <1>7 DEF CompleteChunk, CompleteStray
  <2> QED
    BY <2>1 DEF EndDownload, TypeOK, TimerHasGet, Ready, Downloading
<1>8. ASSUME NEW q \in Peers, CompleteNothing(q)
      PROVE  TimerHasGet'
  BY <1>1, <1>8 DEF CompleteNothing, poolVars
<1>9. ASSUME NEW request \in Requests, UserGet(request)
      PROVE  TimerHasGet'
  BY <1>1, <1>9 DEF UserGet, poolVars
<1>10. CASE FlushQueue
  BY <1>1, <1>10 DEF FlushQueue, FlushNothing, FlushAll, FlushNull, poolVars
<1>11. ASSUME NEW q \in Peers, NothingToGet(q) \/ KeepWaiting(q) \/ GetTimeout(q)
       PROVE  TimerHasGet'
  BY <1>1, <1>11 DEF NothingToGet, KeepWaiting, GetTimeout, poolVars
<1>12. ASSUME NEW q \in Peers, SendGet(q)
       PROVE  TimerHasGet'
  <2>1. PICK i \in DOMAIN getChunk :
          timeoutQueue' = [timeoutQueue EXCEPT ![q] = Append(@, getChunk[i])]
    BY <1>12 DEF SendGet
  <2>2. /\ state[q] = Ready
        /\ state' = [state EXCEPT ![q] = Downloading]
        /\ connected' = [connected EXCEPT ![q] = TRUE]
    BY <1>12 DEF SendGet
  <2>3. timeoutQueue[q] = << >>
    BY <2>2 DEF TimerHasGet, Ready, Downloading
  <2>4. timeoutQueue'[q] = <<getChunk[i]>>
    BY <2>1, <2>3 DEF TypeOK
  <2>5. Len(timeoutQueue'[q]) = 1
    BY <2>4
  <2>6. \A r \in Peers \ {q} : timeoutQueue'[r] = timeoutQueue[r] /\ connected'[r] = connected[r]
                                 /\ state'[r] = state[r]
    BY <2>1, <2>2 DEF TypeOK
  <2>7. connected'[q] /\ state'[q] = Downloading
    BY <2>2 DEF TypeOK
  <2> QED
    BY <2>5, <2>6, <2>7 DEF TimerHasGet
<1>13. ASSUME NEW q \in Peers, SendGetFails(q) \/ GiveUp(q)
       PROVE  TimerHasGet'
  BY <1>13, CleanUpTimer DEF SendGetFails, GiveUp
<1>14. ASSUME NEW q \in Peers, NoConnection(q)
       PROVE  TimerHasGet'
  <2>1. /\ state[q] = Ready /\ state' = [state EXCEPT ![q] = Waiting]
        /\ UNCHANGED <<connected, timeoutQueue>>
    BY <1>14 DEF NoConnection
  <2> QED
    BY <2>1 DEF TypeOK, TimerHasGet, Ready, Downloading, Waiting
<1> QED
  BY <1>2, <1>3, <1>4, <1>5, <1>6, <1>7, <1>8, <1>9, <1>10, <1>11, <1>12, <1>13, <1>14
     DEF Next, FlushDownload

(* Whatever completes, expires or fails: when flushDownload reads the timer *)
(* of a GET, the GET is there.                                              *)
THEOREM TimerHasGetHolds == Spec => []TimerHasGet
<1> QED
  BY TypeInit, TypeStep, TimerInit, TimerStep, PTL DEF Spec

-----------------------------------------------------------------------------
(* Who fetches what, in a list without repeats.  The invariant behind       *)
(* ClaimsAreExclusive and QuietWhenIdle adds that a chunk whose GET could   *)
(* not be sent is claimed for good; that while the user is listened to no   *)
(* GET is left over from the list before: a new list would find it at the   *)
(* next visit; and that only the first place of a hash is ever fetched, so  *)
(* that a list with a repeated hash is never fetched completely.            *)

Claimed ==
  /\ \A q \in Downloads :
       /\ curChunkID[q] \in DOMAIN getChunk
       /\ timeoutQueue[q] = <<getChunk[curChunkID[q]]>>
       /\ fetchState[curChunkID[q]] = Fetching
       /\ curChunkID[q] \notin unsent
  /\ \A q, r \in Downloads : curChunkID[q] = curChunkID[r] => q = r
  /\ \A i \in Idx : fetchState[i] = Fetching =>
       i \in unsent \/ \E q \in Downloads : curChunkID[q] = i

Quiet ==
  idle = 1 => Downloads = {} /\ unsent = {} /\ \A i \in Idx : fetchState[i] = Unfetched

UnsentIsClaimed == \A i \in unsent : i \in DOMAIN getChunk /\ fetchState[i] = Fetching

FirstPlace(i) ==
  i \in DOMAIN getChunk /\ \A j \in 1..(i - 1) : getChunk[j] # getChunk[i]

Firsts ==
  /\ \A q \in Downloads : FirstPlace(curChunkID[q])
  /\ \A i \in Idx : fetchState[i] = Fetched => FirstPlace(i)

ToBeDrained(q) ==
  /\ getChunk = << >>
  /\ phase \in {"queue", "crashed"} \/ (phase = "download" /\ q \in todo)

QueuesAreDrained ==
  idle = 1 =>
    \A q \in Peers : state[q] = Ready /\ getQueue[q] # << >> => ToBeDrained(q)

ClaimInv ==
  ~stray => /\ Firsts /\ Quiet /\ QueuesAreDrained
            /\ NoRepeats => Claimed /\ UnsentIsClaimed

LEMMA ClaimInit == Init => ClaimInv
<1> SUFFICES ASSUME Init
             PROVE  Firsts /\ Quiet /\ QueuesAreDrained /\ Claimed /\ UnsentIsClaimed
  BY DEF ClaimInv
<1>1. Downloads = {} /\ \A i \in Idx : fetchState[i] = Unfetched
  BY DEF Init, Downloads
<1>2. unsent = {} /\ \A q \in Peers : getQueue[q] = << >>
  BY DEF Init
<1>3. Firsts /\ Claimed /\ Quiet /\ UnsentIsClaimed
  BY <1>1, <1>2 DEF Firsts, Claimed, Quiet, UnsentIsClaimed, Unfetched, Fetched, Fetching
<1>4. QueuesAreDrained
  BY <1>2 DEF QueuesAreDrained
<1> QED
  BY <1>3, <1>4

(* What all parts but QueuesAreDrained are about.                           *)
claimVars == <<idle, getChunk, fetchState, curChunkID, connected, timeoutQueue, unsent>>

LEMMA ClaimsUnchanged ==
  ASSUME UNCHANGED claimVars
  PROVE  /\ Firsts => Firsts'
         /\ Quiet => Quiet'
         /\ (NoRepeats => Claimed /\ UnsentIsClaimed)
              => (NoRepeats => Claimed /\ UnsentIsClaimed)'
<1>1. Downloads' = Downloads
  BY DEF claimVars, Downloads
<1>2. Firsts => Firsts'
  BY <1>1 DEF Firsts, FirstPlace, claimVars
<1>3. Quiet => Quiet'
  BY <1>1 DEF Quiet, claimVars
<1>4. (NoRepeats' => NoRepeats) /\ (Claimed => Claimed') /\ (UnsentIsClaimed => UnsentIsClaimed')
  BY <1>1 DEF NoRepeats, Claimed, UnsentIsClaimed, claimVars
<1> QED
  BY <1>2, <1>3, <1>4

(* In a list without repeats every place is the first of its hash, and a    *)
(* list of which all places are first has no repeats.                       *)
LEMMA FirstIsOnly ==
  ASSUME TypeOK, NoRepeats, NEW i \in DOMAIN getChunk, NEW first \in DOMAIN getChunk,
         IsFirst(first, getChunk[i])
  PROVE  first = i
BY DEF NoRepeats, IsFirst

LEMMA FirstsHaveNoRepeats ==
  ASSUME TypeOK, \A i \in DOMAIN getChunk : FirstPlace(i)
  PROVE  NoRepeats
<1>1. getChunk \in Seq(Chunks)
  BY ListType DEF TypeOK
<1>2. DOMAIN getChunk = 1..Len(getChunk)
  BY <1>1
<1>3. ASSUME NEW i \in DOMAIN getChunk, NEW j \in DOMAIN getChunk, getChunk[i] = getChunk[j]
      PROVE  ~(i < j)
  <2>1. i < j => i \in 1..(j - 1)
    BY <1>2
  <2> QED
    BY <1>3, <2>1 DEF FirstPlace
<1> QED
  BY <1>2, <1>3 DEF NoRepeats

(* The peer that is not connected any more leaves the claims of the others. *)
LEMMA DownloadsWithout ==
  ASSUME TypeOK, NEW q \in Peers, connected' = [connected EXCEPT ![q] = FALSE]
  PROVE  Downloads' = Downloads \ {q}
BY DEF TypeOK, Downloads

LEMMA DownloadsWith ==
  ASSUME TypeOK, NEW q \in Peers, connected' = [connected EXCEPT ![q] = TRUE]
  PROVE  Downloads' = Downloads \cup {q}
BY DEF TypeOK, Downloads

LEMMA ClaimSendGet ==
  ASSUME TypeOK, TimerHasGet, NoRepeats, Claimed, UnsentIsClaimed,
         NEW q \in Peers, SendGet(q)
  PROVE  Claimed' /\ UnsentIsClaimed'
<1>1. PICK k \in DOMAIN getQueue[q], i \in DOMAIN getChunk :
        /\ FirstGet(q, k, i)
        /\ fetchState' = [fetchState EXCEPT ![i] = Fetching]
        /\ curChunkID' = [curChunkID EXCEPT ![q] = i]
        /\ timeoutQueue' = [timeoutQueue EXCEPT ![q] = Append(@, getChunk[i])]
  BY FirstIsOnly DEF SendGet
<1>2. /\ state[q] = Ready /\ UNCHANGED <<getChunk, unsent>>
      /\ connected' = [connected EXCEPT ![q] = TRUE]
  BY DEF SendGet
<1>3. i \in Idx /\ fetchState[i] = Unfetched
  BY <1>1, ListType DEF TypeOK, FirstGet
<1>4. timeoutQueue[q] = << >> /\ q \notin Downloads
  BY <1>2 DEF TimerHasGet, Ready, Downloading, Downloads
<1>5. i \notin unsent /\ \A r \in Downloads : curChunkID[r] # i
  BY <1>3 DEF Claimed, UnsentIsClaimed, Unfetched, Fetching
<1>8. Downloads' = Downloads \cup {q}
  BY <1>2, DownloadsWith
<1>9. Claimed'
  <2>1. /\ curChunkID'[q] = i /\ timeoutQueue'[q] = <<getChunk[i]>>
        /\ fetchState'[i] = Fetching
    BY <1>1, <1>3, <1>4 DEF TypeOK
  <2>2. \A r \in Downloads : /\ curChunkID'[r] = curChunkID[r]
                             /\ timeoutQueue'[r] = timeoutQueue[r]
    BY <1>1, <1>4 DEF TypeOK, Downloads
  <2>3. \A j \in Idx \ {i} : fetchState'[j] = fetchState[j]
    BY <1>1 DEF TypeOK
  <2>4. \A r \in Downloads : curChunkID[r] \in Idx
    BY DEF TypeOK, Downloads
  <2>5. \A r \in Downloads' :
          /\ curChunkID'[r] \in DOMAIN getChunk'
          /\ timeoutQueue'[r] = <<getChunk'[curChunkID'[r]]>>
          /\ fetchState'[curChunkID'[r]] = Fetching
          /\ curChunkID'[r] \notin unsent'
    BY <1>2, <1>5, <1>8, <2>1, <2>2, <2>3, <2>4 DEF Claimed
  <2>6. \A r, t \in Downloads' : curChunkID'[r] = curChunkID'[t] => r = t
    BY <1>5, <1>8, <2>1, <2>2 DEF Claimed
  <2>7. \A j \in Idx : fetchState'[j] = Fetching =>
          j \in unsent' \/ \E r \in Downloads' : curChunkID'[r] = j
    BY <1>2, <1>8, <2>1, <2>2, <2>3 DEF Claimed
  <2> QED
    BY <2>5, <2>6, <2>7 DEF Claimed
<1>11. UnsentIsClaimed'
  BY <1>1, <1>2, <1>5, ListType DEF UnsentIsClaimed, TypeOK
<1> QED
  BY <1>9, <1>11

LEMMA ClaimSendGetFails ==
  ASSUME TypeOK, TimerHasGet, NoRepeats, Claimed, UnsentIsClaimed,
         NEW q \in Peers, SendGetFails(q)
  PROVE  Claimed' /\ UnsentIsClaimed'
<1>1. PICK k \in DOMAIN getQueue[q], i \in DOMAIN getChunk :
        /\ FirstGet(q, k, i)
        /\ fetchState' = [fetchState EXCEPT ![i] = Fetching]
        /\ unsent' = unsent \cup {i}
  BY DEF SendGetFails
<1>2. /\ state[q] = Ready /\ UNCHANGED getChunk
      /\ connected' = [connected EXCEPT ![q] = FALSE]
      /\ curChunkID' = [curChunkID EXCEPT ![q] = 1]
      /\ timeoutQueue' = [timeoutQueue EXCEPT ![q] = << >>]
  BY DEF SendGetFails, CleanUpConnDown
<1>3. i \in Idx /\ fetchState[i] = Unfetched
  BY <1>1, ListType DEF TypeOK, FirstGet
<1>4. q \notin Downloads
  BY <1>2 DEF TimerHasGet, Ready, Downloading, Downloads
<1>5. \A r \in Downloads : curChunkID[r] # i
  BY <1>3 DEF Claimed, Unfetched, Fetching
<1>8. Downloads' = Downloads
  BY <1>2, <1>4, DownloadsWithout
<1>9. Claimed'
  <2>1. \A r \in Downloads : /\ curChunkID'[r] = curChunkID[r] /\ curChunkID[r] \in Idx
                             /\ timeoutQueue'[r] = timeoutQueue[r]
    BY <1>2, <1>4 DEF TypeOK, Downloads
  <2>2. fetchState'[i] = Fetching /\ \A j \in Idx \ {i} : fetchState'[j] = fetchState[j]
    BY <1>1, <1>3 DEF TypeOK
  <2> QED
    BY <1>1, <1>2, <1>5, <1>8, <2>1, <2>2 DEF Claimed
<1>11. UnsentIsClaimed'
  BY <1>1, <1>2, <1>3, ListType DEF UnsentIsClaimed, TypeOK
<1> QED
  BY <1>9, <1>11

LEMMA ClaimGiveUp ==
  ASSUME TypeOK, TimerHasGet, NoRepeats, Claimed, UnsentIsClaimed,
         NEW q \in Peers, GiveUp(q)
  PROVE  Claimed' /\ UnsentIsClaimed'
<1> DEFINE c == curChunkID[q]
<1>1. /\ state[q] = Downloading /\ UNCHANGED <<getChunk, unsent>>
      /\ connected' = [connected EXCEPT ![q] = FALSE]
      /\ curChunkID' = [curChunkID EXCEPT ![q] = 1]
      /\ timeoutQueue' = [timeoutQueue EXCEPT ![q] = << >>]
      /\ fetchState' = [fetchState EXCEPT ![c] = Unfetched]
  BY DEF GiveUp, CleanUpConnDown, netVars
<1>2. q \in Downloads
  BY <1>1 DEF TimerHasGet, Downloads
<1>4. /\ c \in Idx /\ c \notin unsent
      /\ \A r \in Downloads \ {q} : curChunkID[r] # c
  BY <1>2 DEF Claimed, TypeOK
<1>5. Downloads' = Downloads \ {q}
  BY <1>1, DownloadsWithout
<1>6. Claimed'
  <2>1. \A r \in Downloads \ {q} :
          /\ curChunkID'[r] = curChunkID[r] /\ curChunkID[r] \in Idx
          /\ timeoutQueue'[r] = timeoutQueue[r]
    BY <1>1 DEF TypeOK, Downloads
  <2>2. fetchState'[c] = Unfetched /\ \A j \in Idx \ {c} : fetchState'[j] = fetchState[j]
    BY <1>1, <1>4 DEF TypeOK
  <2> HIDE DEF c
  <2>3. \A r \in Downloads' :
          /\ curChunkID'[r] \in DOMAIN getChunk'
          /\ timeoutQueue'[r] = <<getChunk'[curChunkID'[r]]>>
          /\ fetchState'[curChunkID'[r]] = Fetching
          /\ curChunkID'[r] \notin unsent'
    BY <1>1, <1>4, <1>5, <2>1, <2>2 DEF Claimed
  <2>4. \A r, t \in Downloads' : curChunkID'[r] = curChunkID'[t] => r = t
    BY <1>5, <2>1 DEF Claimed
  <2>5. \A j \in Idx : fetchState'[j] = Fetching =>
          j \in unsent' \/ \E r \in Downloads' : curChunkID'[r] = j
    <3> SUFFICES ASSUME NEW j \in Idx, fetchState'[j] = Fetching, j \notin unsent
                 PROVE  \E r \in Downloads' : curChunkID'[r] = j
      BY <1>1
    <3>1. j # c /\ fetchState[j] = Fetching
      BY <1>4, <2>2 DEF Unfetched, Fetching
    <3>2. PICK r \in Downloads : curChunkID[r] = j
      BY <3>1 DEF Claimed
    <3>3. r # q
      BY <3>1, <3>2 DEF c
    <3> QED
      BY <1>5, <2>1, <3>2, <3>3
  <2> QED
    BY <2>3, <2>4, <2>5 DEF Claimed
<1>8. UnsentIsClaimed'
  BY <1>1, <1>4, ListType DEF UnsentIsClaimed, TypeOK
<1> QED
  BY <1>6, <1>8

LEMMA ClaimCompleteChunk ==
  ASSUME TypeOK, TimerHasGet, NoRepeats, Claimed, UnsentIsClaimed,
         NEW q \in Peers, CompleteChunk(q)
  PROVE  /\ Claimed' /\ UnsentIsClaimed'
         /\ getChunk' = << >> => Downloads' = {} /\ unsent' = {}
<1> DEFINE c == curChunkID[q]
<1>1. /\ connected[q] /\ getChunk # << >> /\ UNCHANGED <<curChunkID, unsent>>
      /\ connected' = [connected EXCEPT ![q] = FALSE]
      /\ timeoutQueue' = [timeoutQueue EXCEPT ![q] = << >>]
      /\ UpdateGetChunk(Completed(q))
  BY DEF CompleteChunk, EndDownload, netVars
<1>2. q \in Downloads
  BY <1>1 DEF Downloads
<1>4. /\ c \in Idx /\ c \in DOMAIN getChunk /\ c \notin unsent
      /\ \A r \in Downloads \ {q} : curChunkID[r] # c
  BY <1>2 DEF Claimed, TypeOK
<1>5. Downloads' = Downloads \ {q}
  BY <1>1, DownloadsWithout
<1>6. Completed(q)[c] = Fetched /\ \A j \in Idx \ {c} : Completed(q)[j] = fetchState[j]
  BY <1>4 DEF Completed, TypeOK
<1>7. \A r \in Downloads \ {q} :
        /\ curChunkID'[r] = curChunkID[r] /\ curChunkID[r] \in Idx
        /\ timeoutQueue'[r] = timeoutQueue[r]
  BY <1>1 DEF TypeOK, Downloads
<1> HIDE DEF c
<1>8. \A r \in Downloads \ {q} :
        curChunkID[r] \in DOMAIN getChunk /\ Completed(q)[curChunkID[r]] = Fetching
  BY <1>4, <1>6, <1>7 DEF Claimed
<1>9. \A j \in unsent : j \in DOMAIN getChunk /\ Completed(q)[j] = Fetching
  BY <1>4, <1>6, ListType DEF UnsentIsClaimed, TypeOK
<1>10. CASE \E i \in DOMAIN getChunk : Completed(q)[i] # Fetched
  <2>1. fetchState' = Completed(q) /\ UNCHANGED <<getChunk, idle>>
    BY <1>1, <1>10 DEF UpdateGetChunk
  <2>2. \A r \in Downloads' :
          /\ curChunkID'[r] \in DOMAIN getChunk'
          /\ timeoutQueue'[r] = <<getChunk'[curChunkID'[r]]>>
          /\ fetchState'[curChunkID'[r]] = Fetching
          /\ curChunkID'[r] \notin unsent'
    BY <1>1, <1>5, <1>7, <1>8, <2>1 DEF Claimed
  <2>3. \A r, t \in Downloads' : curChunkID'[r] = curChunkID'[t] => r = t
    BY <1>5, <1>7 DEF Claimed
  <2>4. \A j \in Idx : fetchState'[j] = Fetching =>
          j \in unsent' \/ \E r \in Downloads' : curChunkID'[r] = j
    <3> SUFFICES ASSUME NEW j \in Idx, fetchState'[j] = Fetching, j \notin unsent
                 PROVE  \E r \in Downloads' : curChunkID'[r] = j
      BY <1>1
    <3>1. j # c /\ fetchState[j] = Fetching
      BY <1>6, <2>1 DEF Fetched, Fetching
    <3>2. PICK r \in Downloads : curChunkID[r] = j
      BY <3>1 DEF Claimed
    <3>3. r # q
      BY <3>1, <3>2 DEF c
    <3> QED
      BY <1>5, <1>7, <3>2, <3>3
  <2>5. Claimed'
    BY <2>2, <2>3, <2>4 DEF Claimed
  <2>6. UnsentIsClaimed'
    BY <1>1, <1>9, <2>1 DEF UnsentIsClaimed
  <2> QED
    BY <1>1, <2>1, <2>5, <2>6
<1>11. CASE \A i \in DOMAIN getChunk : Completed(q)[i] = Fetched
  <2>1. fetchState' = [i \in Idx |-> Unfetched] /\ getChunk' = << >> /\ idle' = 1
    BY <1>1, <1>11 DEF UpdateGetChunk
  <2>2. Downloads' = {} /\ unsent' = {}
    BY <1>1, <1>5, <1>8, <1>9, <1>11 DEF Fetched, Fetching
  <2>3. \A i \in Idx : fetchState'[i] = Unfetched
    BY <2>1
  <2>4. Claimed' /\ UnsentIsClaimed'
    BY <2>2, <2>3 DEF Claimed, UnsentIsClaimed, Unfetched, Fetching
  <2> QED
    BY <2>2, <2>4
<1> QED
  BY <1>10, <1>11

LEMMA ClaimUserGet ==
  ASSUME TypeOK, Quiet, QueuesAreDrained, NEW request \in Requests, UserGet(request)
  PROVE  Firsts' /\ Quiet' /\ QueuesAreDrained' /\ Claimed' /\ UnsentIsClaimed'
<1>1. /\ phase = "input" /\ idle = 1
      /\ UNCHANGED <<idle, fetchState, unsent, state, curChunkID, connected, timeoutQueue,
                     getQueue>>
  BY DEF UserGet, FillChunkList, poolVars, netVars
<1>2. Downloads = {} /\ unsent = {} /\ \A i \in Idx : fetchState[i] = Unfetched
  BY <1>1 DEF Quiet
<1>3. Downloads' = {}
  BY <1>1, <1>2 DEF Downloads
<1>4. Firsts' /\ Claimed' /\ Quiet' /\ UnsentIsClaimed'
  BY <1>1, <1>2, <1>3 DEF Firsts, Claimed, Quiet, UnsentIsClaimed, Unfetched, Fetched, Fetching
<1>5. \A q \in Peers : ~(state[q] = Ready /\ getQueue[q] # << >>)
  BY <1>1 DEF QueuesAreDrained, ToBeDrained
<1>6. QueuesAreDrained'
  BY <1>1, <1>5 DEF QueuesAreDrained
<1> QED
  BY <1>4, <1>6

(* Only the first place of a hash is fetched, and the user is not listened  *)
(* to while one is, whatever the list repeats.                              *)
LEMMA FirstsVisit ==
  ASSUME TypeOK, TimerHasGet, Firsts, Quiet, QueuesAreDrained,
         NEW q \in Peers, SendGet(q) \/ SendGetFails(q) \/ GiveUp(q)
  PROVE  Firsts' /\ idle' # 1
<1>1. UNCHANGED <<idle, getChunk>>
  BY DEF SendGet, SendGetFails, GiveUp
<1>2. idle # 1
  <2>1. CASE SendGet(q) \/ SendGetFails(q)
    <3>1. /\ state[q] = Ready
          /\ \E k \in DOMAIN getQueue[q] : \E i \in DOMAIN getChunk : TRUE
      BY <2>1 DEF SendGet, SendGetFails
    <3>2. getQueue[q] # << >> /\ getChunk # << >>
      BY <3>1
    <3> QED
      BY <3>1, <3>2 DEF QueuesAreDrained, ToBeDrained
  <2>2. CASE GiveUp(q)
    <3>1. q \in Downloads
      BY <2>2 DEF GiveUp, TimerHasGet, Downloads
    <3> QED
      BY <3>1 DEF Quiet
  <2> QED
    BY <2>1, <2>2
<1>3. ASSUME NEW i \in Idx, fetchState'[i] = Fetched
      PROVE  fetchState[i] = Fetched
  <2>1. CASE SendGet(q) \/ SendGetFails(q)
    <3>1. PICK j \in DOMAIN getChunk : fetchState' = [fetchState EXCEPT ![j] = Fetching]
      BY <2>1 DEF SendGet, SendGetFails
    <3> QED
      BY <1>3, <3>1 DEF TypeOK, Fetching, Fetched
  <2>2. CASE GiveUp(q)
    <3>1. fetchState' = [fetchState EXCEPT ![curChunkID[q]] = Unfetched]
      BY <2>2 DEF GiveUp
    <3> QED
      BY <1>3, <3>1 DEF TypeOK, Unfetched, Fetched
  <2> QED
    BY <2>1, <2>2
<1>4. ASSUME NEW r \in Downloads'
      PROVE  FirstPlace(curChunkID'[r])
  <2>1. CASE SendGet(q)
    <3>1. PICK i \in DOMAIN getChunk, first \in DOMAIN getChunk :
            IsFirst(first, getChunk[i]) /\ curChunkID' = [curChunkID EXCEPT ![q] = first]
      BY <2>1 DEF SendGet
    <3>2. Downloads' = Downloads \cup {q}
      BY <2>1, DownloadsWith DEF SendGet
    <3>3. FirstPlace(first)
      BY <3>1 DEF IsFirst, FirstPlace
    <3> QED
      BY <3>1, <3>2, <3>3 DEF Firsts, TypeOK, Downloads
  <2>2. CASE SendGetFails(q) \/ GiveUp(q)
    <3>1. CleanUpConnDown(q)
      BY <2>2 DEF SendGetFails, GiveUp
    <3>2. Downloads' = Downloads \ {q}
      BY <3>1, DownloadsWithout DEF CleanUpConnDown
    <3>3. curChunkID'[r] = curChunkID[r]
      BY <1>4, <3>1, <3>2 DEF CleanUpConnDown, TypeOK, Downloads
    <3> QED
      BY <1>4, <3>2, <3>3 DEF Firsts
  <2> QED
    BY <2>1, <2>2
<1>5. \A i : FirstPlace(i)' <=> FirstPlace(i)
  BY <1>1 DEF FirstPlace
<1>6. Firsts'
  BY <1>3, <1>4, <1>5 DEF Firsts, FirstPlace
<1> QED
  BY <1>1, <1>2, <1>6

(* The last chunk that is missing completes a list without repeats only.    *)
LEMMA FirstsCompleteChunk ==
  ASSUME TypeOK, Firsts, Quiet, NEW q \in Peers, CompleteChunk(q)
  PROVE  /\ idle # 1
         /\ \/ UNCHANGED <<getChunk, idle>> /\ Firsts'
            \/ /\ getChunk' = << >> /\ idle' = 1 /\ phase' = "queue"
               /\ \A i \in Idx : fetchState'[i] = Unfetched
               /\ NoRepeats
<1>1. /\ connected[q] /\ Handled /\ UNCHANGED curChunkID
      /\ connected' = [connected EXCEPT ![q] = FALSE]
      /\ UpdateGetChunk(Completed(q))
  BY DEF CompleteChunk, EndDownload
<1>2. q \in Downloads /\ idle # 1
  BY <1>1 DEF Downloads, Quiet
<1>3. phase' = "queue"
  BY <1>1, <1>2 DEF Handled
<1>4. curChunkID[q] \in Idx /\ FirstPlace(curChunkID[q])
  BY <1>2 DEF Firsts, TypeOK
<1>5. \A i \in Idx : Completed(q)[i] = Fetched => FirstPlace(i)
  BY <1>4 DEF Completed, Firsts, TypeOK
<1>6. CASE \E i \in DOMAIN getChunk : Completed(q)[i] # Fetched
  <2>1. fetchState' = Completed(q) /\ UNCHANGED <<getChunk, idle>>
    BY <1>1, <1>6 DEF UpdateGetChunk
  <2>2. Downloads' \subseteq Downloads
    BY <1>1, DownloadsWithout
  <2>3. \A i : FirstPlace(i)' <=> FirstPlace(i)
    BY <2>1 DEF FirstPlace
  <2>4. \A r \in Downloads' : FirstPlace(curChunkID'[r])
    BY <1>1, <2>2 DEF Firsts
  <2>5. Firsts'
    BY <1>5, <2>1, <2>3, <2>4 DEF Firsts, FirstPlace
  <2> QED
    BY <1>2, <2>1, <2>5
<1>7. CASE \A i \in DOMAIN getChunk : Completed(q)[i] = Fetched
  <2>1. fetchState' = [i \in Idx |-> Unfetched] /\ getChunk' = << >> /\ idle' = 1
    BY <1>1, <1>7 DEF UpdateGetChunk
  <2>2. \A i \in DOMAIN getChunk : FirstPlace(i)
    BY <1>5, <1>7, ListType DEF TypeOK
  <2>3. NoRepeats
    BY <2>2, FirstsHaveNoRepeats
  <2> QED
    BY <1>2, <1>3, <2>1, <2>3
<1> QED
  BY <1>6, <1>7

(* A visit that leaves the claims.                                          *)
LEMMA ClaimVisit ==
  ASSUME TypeOK, QueuesAreDrained, NEW q \in Peers, Visit(q),
         UNCHANGED <<idle, getChunk>>,
         \A r \in Peers \ {q} : state'[r] = state[r] /\ getQueue'[r] = getQueue[r],
         ~(state'[q] = Ready /\ getQueue'[q] # << >>)
  PROVE  QueuesAreDrained'
<1> SUFFICES ASSUME idle = 1, NEW r \in Peers, state'[r] = Ready, getQueue'[r] # << >>
             PROVE  ToBeDrained(r)'
  BY DEF QueuesAreDrained
<1>1. r # q
  OBVIOUS
<1>2. ToBeDrained(r)
  BY <1>1 DEF QueuesAreDrained
<1>3. phase = "download" /\ r \in todo
  BY <1>2 DEF Visit, ToBeDrained
<1>4. r \in todo' /\ phase' = "download"
  BY <1>1, <1>3 DEF Visit
<1> QED
  BY <1>2, <1>4 DEF ToBeDrained

LEMMA ClaimStep == TypeOK /\ TimerHasGet /\ ClaimInv /\ [Next]_vars => ClaimInv'
<1> SUFFICES ASSUME TypeOK, TimerHasGet, ClaimInv, [Next]_vars, ~stray'
             PROVE  ClaimInv'
  BY DEF ClaimInv
<1>1. ~stray
  BY DEF Next, vars, netVars, NoPacket, RecvWhohas, RecvIhave, RecvData, CompleteChunk,
         CompleteStray, CompleteNothing, UserGet, FlushQueue, FlushNothing, FlushAll, FlushNull,
         FlushDownload, NothingToGet, SendGet, SendGetFails, NoConnection, KeepWaiting,
         GetTimeout, GiveUp
<1>2. Firsts /\ Quiet /\ QueuesAreDrained /\ (NoRepeats => Claimed /\ UnsentIsClaimed)
  BY <1>1 DEF ClaimInv
<1>3. ASSUME UNCHANGED claimVars, QueuesAreDrained'
      PROVE  ClaimInv'
  BY <1>2, <1>3, ClaimsUnchanged DEF ClaimInv
<1>4. ASSUME UNCHANGED claimVars, Handled, UNCHANGED <<state, getQueue>>
      PROVE  ClaimInv'
  <2>1. QueuesAreDrained'
    BY <1>2, <1>4 DEF QueuesAreDrained, ToBeDrained, Handled, claimVars
  <2> QED
    BY <1>3, <1>4, <2>1
<1>5. CASE UNCHANGED vars
  <2>1. UNCHANGED claimVars /\ UNCHANGED <<state, getQueue, phase, todo>>
    BY <1>5 DEF vars, claimVars, listVars, poolVars, netVars
  <2>2. QueuesAreDrained'
    BY <1>2, <2>1 DEF QueuesAreDrained, ToBeDrained, claimVars
  <2> QED
    BY <1>3, <2>1, <2>2
<1>6. ASSUME NoPacket \/ (\E hashes \in SUBSET Chunks : RecvWhohas(hashes))
               \/ (\E q \in Peers : RecvData(q))
      PROVE  ClaimInv'
  <2>1. UNCHANGED claimVars /\ Handled /\ UNCHANGED <<state, getQueue>>
    BY <1>6 DEF NoPacket, RecvWhohas, RecvData, claimVars, listVars, poolVars, netVars
  <2> QED
    BY <1>4, <2>1
<1>7. ASSUME NEW a \in answers, RecvIhave(a[1], a[2])
      PROVE  ClaimInv'
  <2>1. /\ idle' = 0
        /\ UNCHANGED <<getChunk, fetchState, curChunkID, connected, timeoutQueue, unsent>>
    BY <1>7 DEF RecvIhave
  <2>2. Downloads' = Downloads
    BY <2>1 DEF Downloads
  <2>3. Firsts'
    BY <1>2, <2>1, <2>2 DEF Firsts, FirstPlace
  <2>4. NoRepeats' => Claimed' /\ UnsentIsClaimed'
    BY <1>2, <2>1, <2>2 DEF NoRepeats, Claimed, UnsentIsClaimed
  <2> QED
    BY <2>1, <2>3, <2>4 DEF ClaimInv, Quiet, QueuesAreDrained
<1>8. ASSUME NEW q \in Peers, CompleteChunk(q)
      PROVE  ClaimInv'
  <2>1. NoRepeats => /\ Claimed' /\ UnsentIsClaimed'
                     /\ getChunk' = << >> => Downloads' = {} /\ unsent' = {}
    BY <1>2, <1>8, ClaimCompleteChunk
  <2>2. CASE UNCHANGED <<getChunk, idle>> /\ Firsts' /\ idle # 1
    <3>1. NoRepeats' => Claimed' /\ UnsentIsClaimed'
      BY <2>1, <2>2 DEF NoRepeats
    <3> QED
      BY <2>2, <3>1 DEF ClaimInv, Quiet, QueuesAreDrained
  <2>3. CASE /\ getChunk' = << >> /\ idle' = 1 /\ phase' = "queue"
             /\ \A i \in Idx : fetchState'[i] = Unfetched
             /\ NoRepeats
    <3>1. Downloads' = {} /\ unsent' = {} /\ Claimed' /\ UnsentIsClaimed'
      BY <2>1, <2>3
    <3>2. Firsts' /\ Quiet'
      BY <2>3, <3>1 DEF Firsts, Quiet, Unfetched, Fetched
    <3>3. QueuesAreDrained'
      BY <2>3 DEF QueuesAreDrained, ToBeDrained
    <3> QED
      BY <3>1, <3>2, <3>3 DEF ClaimInv
  <2> QED
    BY <1>2, <1>8, <2>2, <2>3, FirstsCompleteChunk
<1>9. ASSUME NEW q \in Peers, CompleteStray(q) \/ CompleteNothing(q)
      PROVE  FALSE
  BY <1>9 DEF CompleteStray, CompleteNothing
<1>10. ASSUME NEW request \in Requests, UserGet(request)
       PROVE  ClaimInv'
  BY <1>2, <1>10, ClaimUserGet DEF ClaimInv
<1>11. CASE FlushQueue
  <2>1. UNCHANGED claimVars /\ UNCHANGED <<state, getQueue>> /\ InFlush
    BY <1>11 DEF FlushQueue, FlushNothing, FlushAll, FlushNull, claimVars, listVars, poolVars,
                 netVars
  <2>2. phase' = "crashed" \/ (phase' = (IF Peers = {} THEN "poll" ELSE "download") /\ todo' = Peers)
    BY <1>11 DEF FlushQueue, FlushNothing, FlushAll, FlushNull, Visiting
  <2>3. QueuesAreDrained'
    BY <1>2, <2>1, <2>2 DEF QueuesAreDrained, ToBeDrained, claimVars, InFlush
  <2> QED
    BY <1>3, <2>1, <2>3
<1>12. ASSUME NEW q \in Peers, NothingToGet(q) \/ NoConnection(q) \/ KeepWaiting(q) \/ GetTimeout(q)
       PROVE  ClaimInv'
  <2>1. UNCHANGED claimVars /\ Visit(q)
    BY <1>12 DEF NothingToGet, NoConnection, KeepWaiting, GetTimeout, claimVars, listVars,
                 poolVars, netVars
  <2>2. /\ \A r \in Peers \ {q} : state'[r] = state[r] /\ getQueue'[r] = getQueue[r]
        /\ ~(state'[q] = Ready /\ getQueue'[q] # << >>)
    BY <1>12 DEF NothingToGet, NoConnection, KeepWaiting, GetTimeout, poolVars, TypeOK, Ready,
                 Downloading, Waiting
  <2>3. QueuesAreDrained'
    BY <1>2, <2>1, <2>2, ClaimVisit DEF claimVars
  <2> QED
    BY <1>3, <2>1, <2>3
<1>13. ASSUME NEW q \in Peers, SendGet(q) \/ SendGetFails(q) \/ GiveUp(q)
       PROVE  ClaimInv'
  <2>1. Firsts' /\ idle' # 1
    BY <1>2, <1>13, FirstsVisit
  <2>2. NoRepeats' => NoRepeats
    BY <1>13 DEF SendGet, SendGetFails, GiveUp, NoRepeats
  <2>3. NoRepeats => Claimed' /\ UnsentIsClaimed'
    BY <1>2, <1>13, ClaimSendGet, ClaimSendGetFails, ClaimGiveUp
  <2> QED
    BY <2>1, <2>2, <2>3 DEF ClaimInv, Quiet, QueuesAreDrained
<1> QED
  BY <1>5, <1>6, <1>7, <1>8, <1>9, <1>10, <1>11, <1>12, <1>13 DEF Next, FlushDownload

LEMMA ClaimInvHolds == Spec => [](TypeOK /\ TimerHasGet /\ ClaimInv)
<1> QED
  BY TypeInit, TypeStep, TimerInit, TimerStep, ClaimInit, ClaimStep, PTL DEF Spec

(* For any number of peers and chunks, and any list that names no chunk     *)
(* twice, no chunk is fetched from two peers, and none is left in the state *)
(* "fetching" but those whose GET failed.                                   *)
THEOREM ClaimsAreExclusiveHolds == Spec => []ClaimsAreExclusive
<1>1. ClaimInv => ClaimsAreExclusive
  BY DEF ClaimInv, Claimed, ClaimsAreExclusive
<1> QED
  BY <1>1, ClaimInvHolds, PTL

(* The user's line is never read while a download is on, whatever the list  *)
(* repeats.                                                                 *)
THEOREM QuietWhenIdleHolds == Spec => []QuietWhenIdle
<1>1. ClaimInv => QuietWhenIdle
  BY DEF ClaimInv, Quiet, QuietWhenIdle
<1> QED
  BY <1>1, ClaimInvHolds, PTL

-----------------------------------------------------------------------------
(* The limit *)

LEMMA DownloadsFinite == IsFiniteSet(Downloads) /\ Cardinality(Downloads) \in Nat
<1>1. Downloads \subseteq Peers
  BY DEF Downloads
<1>2. IsFiniteSet(Downloads)
  BY <1>1, PeersAssumption, FS_Subset
<1> QED
  BY <1>2, FS_CardinalityType

LEMMA LimitInit == Init => LimitIsKept
<1> SUFFICES ASSUME Init PROVE numConnDown = Cardinality(Downloads) /\ numConnDown <= maxConn
  BY DEF LimitIsKept
<1>1. Downloads = {} /\ numConnDown = 0 /\ maxConn \in Nat
  BY BoundsAssumption DEF Init, Downloads
<1> QED
  BY <1>1, FS_EmptySet

LEMMA LimitStep == TypeOK /\ TimerHasGet /\ LimitIsKept /\ [Next]_vars => LimitIsKept'
<1> SUFFICES ASSUME TypeOK, TimerHasGet, LimitIsKept, [Next]_vars, ~stray'
             PROVE  numConnDown' = Cardinality(Downloads') /\ numConnDown' <= maxConn'
  BY DEF LimitIsKept
<1>1. ~stray /\ UNCHANGED maxConn
  BY DEF Next, vars, netVars, NoPacket, RecvWhohas, RecvIhave, RecvData, CompleteChunk,
         CompleteStray, CompleteNothing, UserGet, FlushQueue, FlushNothing, FlushAll, FlushNull,
         FlushDownload, NothingToGet, SendGet, SendGetFails, NoConnection, KeepWaiting,
         GetTimeout, GiveUp
<1>2. numConnDown = Cardinality(Downloads) /\ numConnDown <= maxConn /\ maxConn \in Nat
  BY <1>1, BoundsAssumption DEF LimitIsKept, TypeOK
<1>3. CASE UNCHANGED <<connected, numConnDown>>
  BY <1>1, <1>2, <1>3 DEF Downloads
<1>4. ASSUME NEW q \in Peers, CompleteChunk(q) \/ GiveUp(q)
      PROVE  numConnDown' = Cardinality(Downloads') /\ numConnDown' <= maxConn'
  <2>1. /\ connected' = [connected EXCEPT ![q] = FALSE] /\ numConnDown' = numConnDown - 1
        /\ connected[q]
    BY <1>4 DEF CompleteChunk, EndDownload, GiveUp, CleanUpConnDown, TimerHasGet
  <2>2. Downloads' = Downloads \ {q} /\ q \in Downloads
    BY <2>1, DownloadsWithout DEF Downloads
  <2>3. Cardinality(Downloads') = Cardinality(Downloads) - 1
    BY <2>2, DownloadsFinite, FS_RemoveElement
  <2> QED
    BY <1>1, <1>2, <2>1, <2>3, DownloadsFinite
<1>5. ASSUME NEW q \in Peers, SendGet(q)
      PROVE  numConnDown' = Cardinality(Downloads') /\ numConnDown' <= maxConn'
  <2>1. /\ connected' = [connected EXCEPT ![q] = TRUE] /\ numConnDown' = numConnDown + 1
        /\ numConnDown < maxConn /\ state[q] = Ready
    BY <1>5 DEF SendGet
  <2>2. Downloads' = Downloads \cup {q}
    BY <2>1, DownloadsWith
  <2>3. q \notin Downloads
    BY <2>1 DEF Downloads, TimerHasGet, Ready, Downloading
  <2>4. Cardinality(Downloads') = Cardinality(Downloads) + 1
    BY <2>2, <2>3, DownloadsFinite, FS_AddElement
  <2> QED
    BY <1>1, <1>2, <2>1, <2>4, DownloadsFinite
<1>6. ASSUME NEW q \in Peers, SendGetFails(q)
      PROVE  numConnDown' = Cardinality(Downloads') /\ numConnDown' <= maxConn'
  <2>1. /\ connected' = [connected EXCEPT ![q] = FALSE] /\ numConnDown' = numConnDown
        /\ state[q] = Ready
    BY <1>6 DEF SendGetFails, CleanUpConnDown
  <2>2. Downloads' = Downloads
    BY <2>1, DownloadsWithout DEF Downloads, TimerHasGet, Ready, Downloading
  <2> QED
    BY <1>1, <1>2, <2>1, <2>2
<1>7. ASSUME NEW q \in Peers, CompleteStray(q) \/ CompleteNothing(q)
      PROVE  FALSE
  BY <1>7 DEF CompleteStray, CompleteNothing
<1> QED
  BY <1>3, <1>4, <1>5, <1>6, <1>7
     DEF Next, vars, poolVars, NoPacket, RecvWhohas, RecvIhave, RecvData, UserGet, FlushQueue,
         FlushNothing, FlushAll, FlushNull, FlushDownload, NothingToGet, NoConnection,
         KeepWaiting, GetTimeout

(* The counter of connections is exact, and the limit kept, for any limit.  *)
THEOREM DownloadLimitIsKept == Spec => []LimitIsKept
<1> QED
  BY TypeInit, TypeStep, TimerInit, TimerStep, LimitInit, LimitStep, PTL DEF Spec

-----------------------------------------------------------------------------
(* What is fetched stays fetched *)

LEMMA FetchedStep ==
  TypeOK /\ TimerHasGet /\ ClaimInv /\ [Next]_vars =>
    (~stray' /\ NoRepeats => \A i \in Idx :
       fetchState[i] = Fetched => fetchState'[i] = Fetched \/ getChunk' = << >>)
<1> SUFFICES ASSUME TypeOK, TimerHasGet, ClaimInv, [Next]_vars, ~stray', NoRepeats,
                    NEW i \in Idx, fetchState[i] = Fetched
             PROVE  fetchState'[i] = Fetched \/ getChunk' = << >>
  OBVIOUS
<1>1. ASSUME NEW q \in Peers, CompleteChunk(q)
      PROVE  fetchState'[i] = Fetched \/ getChunk' = << >>
  <2>1. Completed(q)[i] = Fetched
    BY DEF Completed, TypeOK
  <2> QED
    BY <1>1, <2>1 DEF CompleteChunk, UpdateGetChunk
<1>2. ASSUME NEW q \in Peers, GiveUp(q)
      PROVE  fetchState'[i] = Fetched
  <2>1. fetchState[curChunkID[q]] = Fetching
    <3>1. q \in Downloads /\ ~stray
      BY <1>2 DEF TimerHasGet, Downloads, GiveUp, netVars
    <3> QED
      BY <3>1 DEF ClaimInv, Claimed
  <2>2. fetchState' = [fetchState EXCEPT ![curChunkID[q]] = Unfetched]
    BY <1>2 DEF GiveUp
  <2> QED
    BY <2>1, <2>2 DEF TypeOK, Fetched, Fetching
<1>3. ASSUME NEW q \in Peers, SendGet(q) \/ SendGetFails(q)
      PROVE  fetchState'[i] = Fetched
  <2>1. PICK j \in DOMAIN getChunk :
          fetchState[j] = Unfetched /\ fetchState' = [fetchState EXCEPT ![j] = Fetching]
    BY <1>3 DEF SendGet, SendGetFails, FirstGet
  <2> QED
    BY <2>1 DEF TypeOK, Unfetched, Fetched
<1>4. ASSUME NEW q \in Peers, CompleteStray(q) \/ CompleteNothing(q)
      PROVE  FALSE
  BY <1>4 DEF CompleteStray, CompleteNothing
<1>5. CASE UNCHANGED fetchState
  BY <1>5
<1> QED
  BY <1>1, <1>2, <1>3, <1>4, <1>5
     DEF Next, vars, listVars, NoPacket, RecvWhohas, RecvIhave, RecvData, UserGet, FillChunkList,
         FlushQueue, FlushNothing, FlushAll, FlushNull, FlushDownload, NothingToGet,
         NoConnection, KeepWaiting, GetTimeout

(* In a list that names no chunk twice, no chunk once fetched is fetched    *)
(* again before the list is complete.                                       *)
THEOREM FetchedStaysHolds == Spec => FetchedStays
<1>1. TypeOK /\ TimerHasGet /\ ClaimInv /\ [Next]_vars =>
        [~stray' /\ NoRepeats => \A i \in Idx :
           fetchState[i] = Fetched => fetchState'[i] = Fetched \/ getChunk' = << >>]_vars
  BY FetchedStep
<1> QED
  BY <1>1, ClaimInvHolds, PTL DEF Spec, FetchedStays
=============================================================================
