-------------------------- MODULE ZmqBridge_proofs --------------------------
(***************************************************************************)
(* Theorems about ZmqBridge, for messages and datagrams of any size: type   *)
(* correctness, the lock-step of the two sides, that what the poll reports  *)
(* still holds when its handler runs and is all there is to do, and that    *)
(* the bridge implements Channel.  The last two rest on InOrder, which says *)
(* where the message in transit and the pieces of it are.                   *)
(***************************************************************************)
EXTENDS ZmqBridge, SequenceTheorems, WellFoundedInduction, TLAPS

-----------------------------------------------------------------------------
(* Pieces *)

(* Full pieces fit into the message: chunkifyDC reads no byte behind it.    *)
LEMMA FullPieceFits ==
  ASSUME NEW size \in Nat, NEW id \in Nat, id < size \div DataSize
  PROVE  id * DataSize + DataSize <= size
<1> DEFINE q == size \div DataSize
<1>1. DataSize \in Nat /\ DataSize > 0
  BY BridgeAssumption
<1>2. q \in Nat /\ size = DataSize * q + (size % DataSize) /\ size % DataSize \in Nat
  BY <1>1
<1>3. id + 1 <= q
  BY <1>2
<1>4. (id + 1) * DataSize <= q * DataSize
  BY <1>1, <1>2, <1>3
<1> QED
  BY <1>1, <1>2, <1>4

LEMMA AppendType ==
  ASSUME NEW S, NEW s \in Seq(S), NEW e \in S
  PROVE  Append(s, e) \in Seq(S)
OBVIOUS

LEMMA SubSeqType ==
  ASSUME NEW m \in Seq(Nat), NEW from \in Nat, NEW n \in Nat, from + n <= Len(m)
  PROVE  SubSeq(m, from + 1, from + n) \in Seq(Nat)
<1>1. \A i \in (from + 1)..(from + n) : m[i] \in Nat
  OBVIOUS
<1> QED
  BY <1>1

LEMMA PieceType ==
  ASSUME NEW m \in Seq(Nat), NEW id \in Nat, id < NumChunk(m)
  PROVE  Piece(m, id) \in Pieces
<1> DEFINE last == id = NumChunk(m) - 1 /\ Len(m) % DataSize > 0
           size == IF last THEN Len(m) % DataSize ELSE DataSize
           q == Len(m) \div DataSize
           r == Len(m) % DataSize
<1>1. DataSize \in Nat /\ DataSize > 0 /\ Len(m) \in Nat
  BY BridgeAssumption
<1>2. q \in Nat /\ r \in Nat /\ Len(m) = DataSize * q + r
  BY <1>1
<1>3. size \in Nat /\ id * DataSize \in Nat
  BY <1>1, <1>2
<1>4. id * DataSize + size <= Len(m)
  <2>1. CASE last
    <3>1. NumChunk(m) = q + 1
      BY <2>1, <1>2 DEF NumChunk
    <3>2. id = q
      BY <2>1, <3>1, <1>2
    <3> QED
      BY <2>1, <3>2, <1>1, <1>2
  <2>2. CASE ~last
    <3>1. id < q
      BY <2>2, <1>1, <1>2 DEF NumChunk
    <3> QED
      BY <2>2, <3>1, <1>1, FullPieceFits
  <2> QED
    BY <2>1, <2>2
<1>5. SubSeq(m, id * DataSize + 1, id * DataSize + size) \in Seq(Nat)
  <2> HIDE DEF size
  <2> QED
    BY <1>3, <1>4, SubSeqType
<1>6. Piece(m, id) = [id |-> id, allSize |-> Len(m),
                     data |-> SubSeq(m, id * DataSize + 1, id * DataSize + size)]
  BY DEF Piece
<1> HIDE DEF size
<1> QED
  BY <1>1, <1>5, <1>6 DEF Pieces

LEMMA ChunkifyType ==
  ASSUME NEW m \in Seq(Nat)
  PROVE  ChunkifyDC(m) \in Seq(Pieces)
<1>1. NumChunk(m) \in Nat
  BY BridgeAssumption DEF NumChunk
<1>2. \A i \in 1..NumChunk(m) : Piece(m, i - 1) \in Pieces
  BY <1>1, PieceType
<1> QED
  BY <1>1, <1>2 DEF ChunkifyDC

-----------------------------------------------------------------------------
(* Type correctness *)

LEMMA NextTypeOK == TypeOK /\ [Next]_vars => TypeOK'
<1> SUFFICES ASSUME TypeOK, [Next]_vars PROVE TypeOK'
  OBVIOUS
<1> USE DEF serverVars, clientVars
<1>1. CASE UNCHANGED vars
  BY <1>1 DEF TypeOK, vars
<1>2. CASE Poll
  BY <1>2 DEF TypeOK, Poll, Handlers
<1>3. CASE HandleSUB
  BY <1>3 DEF TypeOK, HandleSUB, Runs
<1>4. CASE HandlePUB
  <2>1. /\ revents' \subseteq Handlers
        /\ UNCHANGED <<serverVars, sendUDP, recvUDP, inDC, outACK>>
    BY <1>4 DEF TypeOK, HandlePUB, Runs
  <2>2. pubq' \in Seq(Seq(Nat)) /\ published' \in Seq(Seq(Nat))
    <3>1. CASE pubq = << >>
      BY <1>4, <3>1 DEF TypeOK, HandlePUB
    <3>2. CASE pubq # << >>
      <4>1. Tail(pubq) \in Seq(Seq(Nat)) /\ Head(pubq) \in Seq(Nat)
        BY <3>2 DEF TypeOK
      <4> QED
        <5>1. published \in Seq(Seq(Nat))
          BY DEF TypeOK
        <5>2. Append(published, Head(pubq)) \in Seq(Seq(Nat))
          BY <4>1, <5>1, AppendType
        <5> QED
          BY <1>4, <3>2, <4>1, <5>2 DEF HandlePUB
    <3> QED
      BY <3>1, <3>2
  <2> QED
    BY <2>1, <2>2 DEF TypeOK
<1>5. CASE HandleServerData
  <2> DEFINE pieces == IF outDC = NULL THEN ChunkifyDC(Head(subq)) ELSE outDC
  <2>1. CASE outDC = NULL /\ subq = << >>
    BY <1>5, <2>1 DEF TypeOK, HandleServerData, Runs
  <2>2. CASE ~(outDC = NULL /\ subq = << >>)
    <3>1. pieces \in Seq(Pieces)
      BY <2>2, ChunkifyType, BridgeAssumption DEF TypeOK
    <3>a. /\ revents' \subseteq Handlers
          /\ UNCHANGED <<accepted, sendUDP, inDC, outACK, pubq, published>>
      BY <1>5 DEF TypeOK, HandleServerData, Runs
    <3>b. subq' = IF outDC = NULL THEN Tail(subq) ELSE subq
      BY <1>5, <2>2 DEF HandleServerData
    <3>c. subq' \in Seq(Messages)
      BY <2>2, <3>b DEF TypeOK
    <3>2. /\ revents' \subseteq Handlers
          /\ subq' \in Seq(Messages)
          /\ UNCHANGED <<accepted, sendUDP, inDC, outACK, pubq, published>>
      BY <3>a, <3>c
    <3>3. CASE waitACK # NULL
      BY <1>5, <2>2, <3>1, <3>2, <3>3 DEF TypeOK, HandleServerData
    <3>4. CASE waitACK = NULL /\ pieces = << >>
      BY <1>5, <2>2, <3>1, <3>2, <3>4 DEF TypeOK, HandleServerData
    <3>5. CASE waitACK = NULL /\ pieces # << >>
      <4>1. outDC' = Tail(pieces) /\ waitACK' = Head(pieces) /\ recvUDP' = Append(recvUDP, Head(pieces))
        BY <1>5, <2>2, <3>5 DEF HandleServerData
      <4>2. Tail(pieces) \in Seq(Pieces) /\ Head(pieces) \in Pieces
        BY <3>1, <3>5
      <4> HIDE DEF pieces
      <4> QED
        BY <4>1, <4>2, <3>2 DEF TypeOK
    <3> QED
      BY <3>3, <3>4, <3>5
  <2> QED
    BY <2>1, <2>2
<1>6. CASE HandleServerACK
  <2>1. /\ revents' \subseteq Handlers
        /\ UNCHANGED <<subq, outDC, accepted, recvUDP, clientVars>>
    BY <1>6 DEF TypeOK, HandleServerACK, Runs
  <2>2. sendUDP' \in Seq(Nat)
    <3>1. CASE waitACK = NULL
      BY <1>6, <3>1 DEF TypeOK, HandleServerACK
    <3>2. CASE waitACK # NULL
      <4>1. sendUDP # << >> /\ sendUDP' = Tail(sendUDP)
        BY <1>6, <3>2 DEF HandleServerACK
      <4>2. sendUDP \in Seq(Nat)
        BY DEF TypeOK
      <4> QED
        BY <4>1, <4>2
    <3> QED
      BY <3>1, <3>2
  <2>3. waitACK' = NULL \/ waitACK' \in Pieces
    BY <1>6 DEF TypeOK, HandleServerACK
  <2> QED
    BY <2>1, <2>2, <2>3 DEF TypeOK
<1>7. CASE HandleClientData
  <2> DEFINE pkt  == Head(recvUDP)
             dc   == IF inDC = NULL THEN [size |-> pkt.allSize, data |-> << >>] ELSE inDC
             data == dc.data \o pkt.data
  <2>1. pkt \in Pieces
    BY <1>7 DEF TypeOK, HandleClientData
  <2>2. dc \in Partials
    BY <2>1 DEF TypeOK, Pieces, Partials
  <2>3. data \in Seq(Nat) /\ dc.size \in Nat /\ pkt.id \in Nat
    BY <2>1, <2>2 DEF Pieces, Partials
  <2>4. /\ outACK' = pkt.id
        /\ \/ pubq' = Append(pubq, data) /\ inDC' = NULL
           \/ inDC' = [size |-> dc.size, data |-> data] /\ UNCHANGED pubq
    BY <1>7 DEF HandleClientData
  <2>5. /\ revents' \subseteq Handlers /\ recvUDP' \in Seq(Pieces)
        /\ UNCHANGED <<serverVars, sendUDP, published>>
    BY <1>7 DEF TypeOK, HandleClientData, Runs
  <2> HIDE DEF pkt, dc, data
  <2>6. /\ pubq' \in Seq(Seq(Nat))
        /\ inDC' = NULL \/ inDC' \in Partials
    <3>1. pubq \in Seq(Seq(Nat))
      BY DEF TypeOK
    <3>2. Append(pubq, data) \in Seq(Seq(Nat))
      BY <2>3, <3>1, AppendType
    <3>3. [size |-> dc.size, data |-> data] \in Partials
      BY <2>3 DEF Partials
    <3> QED
      BY <2>4, <3>1, <3>2, <3>3
  <2> QED
    BY <2>3, <2>4, <2>5, <2>6 DEF TypeOK
<1>8. CASE HandleClientACK
  BY <1>8 DEF TypeOK, HandleClientACK, Runs
<1> QED
  BY <1>1, <1>2, <1>3, <1>4, <1>5, <1>6, <1>7, <1>8 DEF Next

(* Every variable of the bridge stays in its type, whatever the sizes of    *)
(* the messages and of a datagram; chunkifyDC reads within the message.     *)
THEOREM BridgeTypeCorrect == Spec => []TypeOK
<1>1. Init => TypeOK
  BY DEF Init, TypeOK, serverVars, clientVars
<1> QED
  BY <1>1, NextTypeOK, PTL DEF Spec

-----------------------------------------------------------------------------
(* Lock-step, and what the poll has reported.  Neither is inductive without *)
(* the other: a handler keeps the two sides in step because what it was     *)
(* called for is still there, and it is there because the other side has    *)
(* not moved meanwhile.                                                     *)

IInv == TypeOK /\ LockStep /\ ReportStillHolds

LEMMA InitIInv == Init => IInv
  BY DEF Init, IInv, TypeOK, LockStep, ReportStillHolds, serverVars, clientVars

LEMMA NextLockStep == IInv /\ [Next]_vars => LockStep'
<1> SUFFICES ASSUME IInv, [Next]_vars PROVE LockStep'
  OBVIOUS
<1> USE DEF serverVars, clientVars
<1>t. TypeOK /\ LockStep /\ ReportStillHolds
  BY DEF IInv
<1>n. NULL \notin Nat /\ NULL \notin Pieces
  BY BridgeAssumption
<1>1. CASE UNCHANGED <<waitACK, recvUDP, outACK, sendUDP>>
  BY <1>1, <1>t DEF LockStep
<1>2. CASE HandleServerData
  <2>1. waitACK = NULL /\ recvUDP = << >> /\ outACK = NULL /\ sendUDP = << >>
    BY <1>2, <1>t DEF HandleServerData, Runs, ReportStillHolds, LockStep
  <2>2. UNCHANGED <<outACK, sendUDP>>
    BY <1>2 DEF HandleServerData
  <2>3. CASE UNCHANGED <<waitACK, recvUDP>>
    BY <1>1, <2>2, <2>3
  <2>4. CASE ~UNCHANGED <<waitACK, recvUDP>>
    <3>1. recvUDP' = Append(recvUDP, waitACK')
      BY <1>2, <2>1, <2>4 DEF HandleServerData
    <3>2. recvUDP' = <<waitACK'>>
      BY <2>1, <3>1
    <3>3. TypeOK'
      BY <1>t, NextTypeOK
    <3>4. waitACK' # NULL
      BY <1>n, <3>2, <3>3 DEF TypeOK
    <3> QED
      BY <2>1, <2>2, <3>2, <3>4 DEF LockStep
  <2> QED
    BY <2>3, <2>4
<1>3. CASE HandleServerACK
  <2>1. waitACK # NULL /\ sendUDP # << >>
    BY <1>3, <1>t DEF HandleServerACK, Runs, ReportStillHolds
  <2>2. recvUDP = << >> /\ outACK = NULL /\ sendUDP = <<waitACK.id>>
    BY <1>t, <2>1 DEF LockStep
  <2>3. sendUDP' = << >> /\ waitACK' = NULL /\ UNCHANGED <<recvUDP, outACK>>
    BY <1>3, <2>1, <2>2 DEF HandleServerACK
  <2> QED
    BY <2>2, <2>3 DEF LockStep
<1>4. CASE HandleClientData
  <2>1. recvUDP # << >>
    BY <1>4 DEF HandleClientData
  <2>2. waitACK # NULL /\ recvUDP = <<waitACK>> /\ outACK = NULL /\ sendUDP = << >>
    BY <1>t, <2>1 DEF LockStep
  <2>3. recvUDP' = << >> /\ outACK' = waitACK.id /\ UNCHANGED <<waitACK, sendUDP>>
    BY <1>4, <2>2 DEF HandleClientData
  <2> QED
    BY <2>2, <2>3 DEF LockStep
<1>5. CASE HandleClientACK
  <2>1. outACK # NULL
    BY <1>5, <1>t DEF HandleClientACK, Runs, ReportStillHolds
  <2>2. waitACK # NULL /\ recvUDP = << >> /\ outACK = waitACK.id /\ sendUDP = << >>
    BY <1>t, <2>1 DEF LockStep
  <2>3. sendUDP' = <<waitACK.id>> /\ outACK' = NULL /\ UNCHANGED <<waitACK, recvUDP>>
    BY <1>5, <2>1, <2>2 DEF HandleClientACK
  <2> QED
    BY <2>2, <2>3 DEF LockStep
<1>6. CASE UNCHANGED vars \/ Poll \/ HandleSUB \/ HandlePUB
  BY <1>1, <1>6 DEF vars, Poll, HandleSUB, HandlePUB
<1> QED
  BY <1>2, <1>3, <1>4, <1>5, <1>6 DEF Next

LEMMA NextReportStillHolds == IInv /\ [Next]_vars => ReportStillHolds'
<1> SUFFICES ASSUME IInv, [Next]_vars PROVE ReportStillHolds'
  OBVIOUS
<1> USE DEF serverVars, clientVars
<1>t. TypeOK /\ LockStep /\ ReportStillHolds
  BY DEF IInv
<1>n. NULL \notin Nat /\ NULL \notin Pieces
  BY BridgeAssumption
<1>1. CASE UNCHANGED vars
  BY <1>1, <1>t DEF vars, ReportStillHolds
<1>2. CASE Poll
  BY <1>2 DEF Poll, Ready, ReportStillHolds
<1>3. CASE HandleSUB
  <2>1. ASSUME NEW m \in Messages PROVE Append(subq, m) # << >>
    <3>1. subq \in Seq(Messages)
      BY <1>t DEF TypeOK
    <3>2. Len(Append(subq, m)) = Len(subq) + 1 /\ Len(subq) \in Nat
      BY <3>1
    <3> QED
      BY <3>2
  <2> QED
    BY <1>3, <2>1, <1>t DEF HandleSUB, Runs, ReportStillHolds
<1>4. CASE HandlePUB
  BY <1>4, <1>t DEF HandlePUB, Runs, ReportStillHolds
<1>5. CASE HandleServerData
  <2>1. waitACK = NULL /\ recvUDP = << >> /\ outACK = NULL /\ sendUDP = << >>
    BY <1>5, <1>t DEF HandleServerData, Runs, ReportStillHolds, LockStep
  <2>2. revents' = revents \ {"SData"} /\ UNCHANGED pubq
    BY <1>5 DEF HandleServerData, Runs
  <2>3. "SAck" \notin revents /\ "CData" \notin revents /\ "CAck" \notin revents
    BY <1>t, <2>1 DEF ReportStillHolds
  <2> QED
    BY <1>t, <2>2, <2>3 DEF ReportStillHolds
<1>6. CASE HandleServerACK
  <2>1. waitACK # NULL /\ recvUDP = << >> /\ outACK = NULL
    BY <1>6, <1>t DEF HandleServerACK, Runs, ReportStillHolds, LockStep
  <2>2. revents' = revents \ {"SAck"} /\ UNCHANGED pubq
    BY <1>6 DEF HandleServerACK, Runs
  <2>3. "SData" \notin revents /\ "CData" \notin revents /\ "CAck" \notin revents
    BY <1>t, <2>1 DEF ReportStillHolds
  <2> QED
    BY <1>t, <2>2, <2>3 DEF ReportStillHolds
<1>7. CASE HandleClientData
  <2>1. waitACK # NULL /\ outACK = NULL /\ sendUDP = << >>
    BY <1>7, <1>t DEF HandleClientData, LockStep
  <2>2. revents' = revents \ {"CData"}
    BY <1>7 DEF HandleClientData, Runs
  <2>3. "SData" \notin revents /\ "SAck" \notin revents /\ "CAck" \notin revents
    BY <1>t, <2>1 DEF ReportStillHolds
  <2>4. "PUB" \notin revents
    BY <1>7 DEF HandleClientData, Runs, Place
  <2> QED
    BY <2>2, <2>3, <2>4 DEF ReportStillHolds
<1>8. CASE HandleClientACK
  <2>1. outACK # NULL
    BY <1>8, <1>t DEF HandleClientACK, Runs, ReportStillHolds
  <2>2. waitACK # NULL /\ recvUDP = << >> /\ sendUDP = << >>
    BY <1>t, <2>1 DEF LockStep
  <2>3. revents' = revents \ {"CAck"} /\ UNCHANGED pubq
    BY <1>8 DEF HandleClientACK, Runs
  <2>4. "SData" \notin revents /\ "SAck" \notin revents /\ "CData" \notin revents
    BY <1>t, <2>2 DEF ReportStillHolds
  <2> QED
    BY <1>t, <2>3, <2>4 DEF ReportStillHolds
<1> QED
  BY <1>1, <1>2, <1>3, <1>4, <1>5, <1>6, <1>7, <1>8 DEF Next

LEMMA InvariantHolds == Spec => []IInv
<1>1. IInv /\ [Next]_vars => IInv'
  BY NextTypeOK, NextLockStep, NextReportStillHolds DEF IInv
<1> QED
  BY <1>1, InitIInv, PTL DEF Spec

(* The server and the client side of the bridge stay in lock-step: one      *)
(* piece or one ACK at most exists, and it is the one that is waited for.   *)
THEOREM LockStepHolds == Spec => []LockStep
<1>1. IInv => LockStep
  BY DEF IInv
<1> QED
  BY <1>1, InvariantHolds, PTL

-----------------------------------------------------------------------------
(* Induction: < is well-founded, so a set of numbers has a least element.   *)
LEMMA LeastElement ==
  ASSUME NEW S \in SUBSET Nat, S # {}
  PROVE  \E n \in S : \A m \in S : n <= m
<1> DEFINE Less == OpToRel(<, Nat)
<1>1. \A m, n \in Nat : m < n => <<m, n>> \in Less
  BY DEF OpToRel
<1>2. IsWellFoundedOn(Less, Nat)
  BY NatLessThanWellFounded
<1> HIDE DEF Less
<1>3. PICK n \in S : \A m \in S : <<m, n>> \notin Less
  BY <1>2, WFMin, Zenon
<1>4. ASSUME NEW m \in S
      PROVE  n <= m
  <2>1. m \in Nat /\ n \in Nat
    OBVIOUS
  <2>2. ~(m < n)
    BY <1>1, <1>3, <2>1
  <2> QED
    BY <2>1, <2>2
<1> QED
  BY <1>4

(* A set with 0, and the successor of each of its numbers, is Nat.          *)
LEMMA Induction ==
  ASSUME NEW S \in SUBSET Nat, 0 \in S, \A n \in S : n + 1 \in S
  PROVE  S = Nat
<1> SUFFICES ASSUME S # Nat PROVE FALSE
  OBVIOUS
<1>1. Nat \ S \in SUBSET Nat /\ Nat \ S # {}
  OBVIOUS
<1>2. PICK n \in Nat \ S : \A m \in Nat \ S : n <= m
  BY <1>1, LeastElement
<1>3. n - 1 \in S
  BY <1>2
<1> QED
  BY <1>2, <1>3

(* NonEmpty chooses a function with an equation; there is one, by induction *)
(* over the length.                                                         *)
NonEmptyOf(msgs, f) ==
  f = [n \in 0..Len(msgs) |->
         IF n = 0 THEN << >>
         ELSE IF msgs[n] = << >> THEN f[n - 1] ELSE Append(f[n - 1], msgs[n])]

NonEmptyUpTo(msgs, N, f) ==
  /\ f \in [0..N -> Seq(Seq(Nat))] /\ f[0] = << >>
  /\ \A n \in 1..N : f[n] = IF msgs[n] = << >> THEN f[n - 1] ELSE Append(f[n - 1], msgs[n])

LEMMA NonEmptyExists ==
  ASSUME NEW msgs \in Seq(Seq(Nat)), NEW N \in 0..Len(msgs)
  PROVE  \E f : NonEmptyUpTo(msgs, N, f)
<1> DEFINE I == {n \in Nat : n <= Len(msgs) => \E f : NonEmptyUpTo(msgs, n, f)}
<1>1. 0 \in I
  <2> DEFINE f == [n \in 0..0 |-> << >>]
  <2>1. << >> \in Seq(Seq(Nat))
    OBVIOUS
  <2>2. f \in [0..0 -> Seq(Seq(Nat))] /\ f[0] = << >> /\ \A n \in 1..0 : FALSE
    BY <2>1
  <2>3. NonEmptyUpTo(msgs, 0, f)
    BY <2>2 DEF NonEmptyUpTo
  <2> QED
    BY <2>3
<1>2. ASSUME NEW n \in I
      PROVE  n + 1 \in I
  <2> SUFFICES ASSUME n + 1 <= Len(msgs)
               PROVE  \E f : NonEmptyUpTo(msgs, n + 1, f)
    OBVIOUS
  <2>1. n \in Nat /\ n <= Len(msgs) /\ 0 \in 0..n /\ n \in 0..n /\ n + 1 \in 1..Len(msgs)
    OBVIOUS
  <2>2. PICK f : NonEmptyUpTo(msgs, n, f)
    BY <2>1
  <2> DEFINE last == IF msgs[n + 1] = << >> THEN f[n] ELSE Append(f[n], msgs[n + 1])
             g == [k \in 0..(n + 1) |-> IF k = n + 1 THEN last ELSE f[k]]
  <2>3. last \in Seq(Seq(Nat))
    <3>1. msgs[n + 1] \in Seq(Nat) /\ f[n] \in Seq(Seq(Nat))
      BY <2>1, <2>2, ElementOfSeq DEF NonEmptyUpTo
    <3>2. Append(f[n], msgs[n + 1]) \in Seq(Seq(Nat))
      BY <3>1, AppendType
    <3> QED
      BY <3>1, <3>2
  <2> HIDE DEF last
  <2>4. \A k \in 0..(n + 1) : k = n + 1 \/ k \in 0..n
    BY <2>1
  <2>5. g \in [0..(n + 1) -> Seq(Seq(Nat))] /\ g[0] = << >>
    BY <2>1, <2>2, <2>3, <2>4 DEF NonEmptyUpTo
  <2>6. ASSUME NEW k \in 1..(n + 1)
        PROVE  g[k] = IF msgs[k] = << >> THEN g[k - 1] ELSE Append(g[k - 1], msgs[k])
    <3>1. k - 1 \in 0..n /\ k - 1 # n + 1 /\ k - 1 \in 0..(n + 1) /\ k \in 0..(n + 1)
      BY <2>1
    <3>2. g[k - 1] = f[k - 1]
      BY <3>1
    <3>3. CASE k = n + 1
      <4>1. g[k] = last /\ k - 1 = n
        BY <2>1, <3>1, <3>3
      <4> QED
        BY <3>2, <3>3, <4>1 DEF last
    <3>4. CASE k # n + 1
      <4>1. k \in 1..n /\ g[k] = f[k]
        BY <2>1, <3>1, <3>4
      <4> QED
        BY <2>2, <3>2, <4>1 DEF NonEmptyUpTo
    <3> QED
      BY <3>3, <3>4
  <2>7. NonEmptyUpTo(msgs, n + 1, g)
    BY <2>5, <2>6 DEF NonEmptyUpTo
  <2> QED
    BY <2>7
<1>3. I = Nat
  <2>1. I \in SUBSET Nat
    OBVIOUS
  <2> HIDE DEF I
  <2> QED
    BY <1>1, <1>2, <2>1, Induction
<1> QED
  BY <1>3

(* The function that NonEmpty is the last value of.                         *)
Kept(msgs) == CHOOSE f : NonEmptyOf(msgs, f)

LEMMA KeptUnfolded ==
  ASSUME NEW msgs \in Seq(Seq(Nat))
  PROVE  /\ Abstract!NonEmpty(msgs) = Kept(msgs)[Len(msgs)]
         /\ Kept(msgs)[0] = << >>
         /\ \A n \in 1..Len(msgs) :
              Kept(msgs)[n] = IF msgs[n] = << >> THEN Kept(msgs)[n - 1]
                              ELSE Append(Kept(msgs)[n - 1], msgs[n])
<1>1. Len(msgs) \in Nat
  OBVIOUS
<1>2. PICK f : NonEmptyUpTo(msgs, Len(msgs), f)
  BY <1>1, NonEmptyExists
<1>3. NonEmptyOf(msgs, f)
  <2>1. f = [n \in 0..Len(msgs) |-> f[n]]
    BY <1>2 DEF NonEmptyUpTo
  <2>2. \A n \in 0..Len(msgs) :
          f[n] = IF n = 0 THEN << >>
                 ELSE IF msgs[n] = << >> THEN f[n - 1] ELSE Append(f[n - 1], msgs[n])
    <3>1. \A n \in 0..Len(msgs) : n = 0 \/ n \in 1..Len(msgs)
      BY <1>1
    <3> QED
      BY <1>2, <3>1 DEF NonEmptyUpTo
  <2> QED
    BY <2>1, <2>2 DEF NonEmptyOf
<1>4. NonEmptyOf(msgs, Kept(msgs))
  BY <1>3 DEF Kept
<1>5. Abstract!NonEmpty(msgs) = Kept(msgs)[Len(msgs)]
  BY DEF Abstract!NonEmpty, Kept, NonEmptyOf
<1> HIDE DEF Kept
<1>6. 0 \in 0..Len(msgs) /\ \A n \in 1..Len(msgs) : n \in 0..Len(msgs) /\ n # 0
  BY <1>1
<1>7. \A n \in 0..Len(msgs) :
        Kept(msgs)[n] = IF n = 0 THEN << >>
                        ELSE IF msgs[n] = << >> THEN Kept(msgs)[n - 1]
                        ELSE Append(Kept(msgs)[n - 1], msgs[n])
  BY <1>4 DEF NonEmptyOf
<1> QED
  BY <1>5, <1>6, <1>7

(* Only the messages up to n count for the n-th value.                      *)
LEMMA KeptOfPrefix ==
  ASSUME NEW msgs \in Seq(Seq(Nat)), NEW m \in Seq(Nat)
  PROVE  \A n \in 0..Len(msgs) : Kept(Append(msgs, m))[n] = Kept(msgs)[n]
<1> DEFINE longer == Append(msgs, m)
           I == {n \in Nat : n <= Len(msgs) => Kept(longer)[n] = Kept(msgs)[n]}
<1>1. /\ longer \in Seq(Seq(Nat)) /\ Len(longer) = Len(msgs) + 1 /\ Len(msgs) \in Nat
      /\ \A n \in 1..Len(msgs) : longer[n] = msgs[n]
  BY AppendProperties
<1> HIDE DEF longer
<1>2. 0 \in I
  BY <1>1, KeptUnfolded
<1>3. ASSUME NEW n \in I
      PROVE  n + 1 \in I
  <2> SUFFICES ASSUME n + 1 <= Len(msgs)
               PROVE  Kept(longer)[n + 1] = Kept(msgs)[n + 1]
    OBVIOUS
  <2>1. n + 1 \in 1..Len(msgs) /\ n + 1 \in 1..Len(longer) /\ (n + 1) - 1 = n
    BY <1>1
  <2>2. Kept(longer)[n] = Kept(msgs)[n]
    BY <1>1
  <2>3. Kept(longer)[n + 1] = IF longer[n + 1] = << >> THEN Kept(longer)[n]
                              ELSE Append(Kept(longer)[n], longer[n + 1])
    BY <1>1, <2>1, KeptUnfolded
  <2>4. Kept(msgs)[n + 1] = IF msgs[n + 1] = << >> THEN Kept(msgs)[n]
                            ELSE Append(Kept(msgs)[n], msgs[n + 1])
    BY <2>1, KeptUnfolded
  <2> QED
    BY <1>1, <2>1, <2>2, <2>3, <2>4
<1>4. I = Nat
  <2>1. I \in SUBSET Nat
    OBVIOUS
  <2> HIDE DEF I
  <2> QED
    BY <1>2, <1>3, <2>1, Induction
<1> QED
  BY SMTT(30), <1>4 DEF longer

(* One message more.                                                        *)
LEMMA NonEmptyAppend ==
  ASSUME NEW msgs \in Seq(Seq(Nat)), NEW m \in Seq(Nat)
  PROVE  Abstract!NonEmpty(Append(msgs, m)) =
           IF m = << >> THEN Abstract!NonEmpty(msgs) ELSE Append(Abstract!NonEmpty(msgs), m)
<1> DEFINE longer == Append(msgs, m)
           n == Len(msgs) + 1
<1>1. /\ longer \in Seq(Seq(Nat)) /\ Len(longer) = n /\ Len(msgs) \in Nat /\ longer[n] = m
  BY AppendProperties
<1>2. n \in 1..Len(longer) /\ n - 1 = Len(msgs) /\ Len(msgs) \in 0..Len(msgs)
  BY <1>1
<1>3. Kept(longer)[Len(msgs)] = Abstract!NonEmpty(msgs)
  <2>1. Kept(longer)[Len(msgs)] = Kept(msgs)[Len(msgs)]
    BY <1>2, KeptOfPrefix
  <2> QED
    BY <2>1, KeptUnfolded
<1> HIDE DEF longer
<1>4. Kept(longer)[n] = IF longer[n] = << >> THEN Kept(longer)[n - 1]
                        ELSE Append(Kept(longer)[n - 1], longer[n])
  BY <1>1, <1>2, KeptUnfolded
<1>5. Abstract!NonEmpty(longer) = Kept(longer)[n]
  BY <1>1, KeptUnfolded
<1> QED
  BY <1>1, <1>2, <1>3, <1>4, <1>5 DEF longer

LEMMA NonEmptyOfNone == Abstract!NonEmpty(<< >>) = << >>
<1>1. << >> \in Seq(Seq(Nat)) /\ Len(<< >>) = 0
  OBVIOUS
<1> QED
  BY <1>1, KeptUnfolded

LEMMA ConcatAppend ==
  ASSUME NEW S, NEW a \in Seq(S), NEW b \in Seq(S), NEW e \in S
  PROVE  a \o Append(b, e) = Append(a \o b, e)
<1>1. <<e>> \in Seq(S) /\ a \o b \in Seq(S)
  BY ConcatProperties
<1>2. Append(a \o b, e) = (a \o b) \o <<e>> /\ Append(b, e) = b \o <<e>>
  BY <1>1, AppendIsConcat
<1>3. (a \o b) \o <<e>> = a \o (b \o <<e>>)
  BY <1>1, ConcatAssociative
<1> QED
  BY <1>2, <1>3

(* By induction over the length of the second sequence.                     *)
LEMMA NonEmptyConcat ==
  ASSUME NEW s \in Seq(Seq(Nat)), NEW t \in Seq(Seq(Nat))
  PROVE  /\ Abstract!NonEmpty(t) \in Seq(Seq(Nat))
         /\ Abstract!NonEmpty(s \o t) = Abstract!NonEmpty(s) \o Abstract!NonEmpty(t)
<1> DEFINE M == Seq(Nat)
           Splits(r) == \A x \in Seq(M) :
             /\ Abstract!NonEmpty(r) \in Seq(M)
             /\ Abstract!NonEmpty(x) \in Seq(M) =>
                  Abstract!NonEmpty(x \o r) = Abstract!NonEmpty(x) \o Abstract!NonEmpty(r)
           I == {n \in Nat : \A r \in Seq(M) : Len(r) = n => Splits(r)}
<1>1. 0 \in I
  <2> SUFFICES ASSUME NEW r \in Seq(M), Len(r) = 0, NEW x \in Seq(M)
               PROVE  /\ Abstract!NonEmpty(r) \in Seq(M)
                      /\ Abstract!NonEmpty(x) \in Seq(M) =>
                          Abstract!NonEmpty(x \o r) = Abstract!NonEmpty(x) \o Abstract!NonEmpty(r)
    OBVIOUS
  <2>1. r = << >>
    BY EmptySeq
  <2>2. Abstract!NonEmpty(r) = << >> /\ << >> \in Seq(M)
    BY <2>1, NonEmptyOfNone
  <2>3. x \o r = x
    BY <2>1, ConcatEmptySeq
  <2>4. Abstract!NonEmpty(x) \in Seq(M) => Abstract!NonEmpty(x) \o << >> = Abstract!NonEmpty(x)
    BY ConcatEmptySeq
  <2> QED
    BY <2>2, <2>3, <2>4
<1>2. ASSUME NEW n \in I
      PROVE  n + 1 \in I
  <2> SUFFICES ASSUME NEW r \in Seq(M), Len(r) = n + 1
               PROVE  Splits(r)
    <3>1. n + 1 \in Nat
      OBVIOUS
    <3> HIDE DEF Splits
    <3> QED
      BY <3>1
  <2> SUFFICES ASSUME NEW x \in Seq(M)
               PROVE  /\ Abstract!NonEmpty(r) \in Seq(M)
                      /\ Abstract!NonEmpty(x) \in Seq(M) =>
                          Abstract!NonEmpty(x \o r) = Abstract!NonEmpty(x) \o Abstract!NonEmpty(r)
    OBVIOUS
  <2>1. r # << >>
    BY EmptySeq
  <2>2. PICK y \in Seq(M), m \in M : r = Append(y, m)
    BY <2>1, SequenceEmptyOrAppend
  <2>3. Len(y) = n
    <3>1. Len(r) = Len(y) + 1 /\ Len(y) \in Nat
      BY <2>2, AppendProperties
    <3> QED
      BY <3>1
  <2>4. Splits(y)
    BY <2>3
  <2>5. Abstract!NonEmpty(r) = IF m = << >> THEN Abstract!NonEmpty(y)
                               ELSE Append(Abstract!NonEmpty(y), m)
    BY <2>2, NonEmptyAppend
  <2>6. Abstract!NonEmpty(y) \in Seq(M)
    BY <2>4
  <2>7. Abstract!NonEmpty(r) \in Seq(M)
    <3>1. Append(Abstract!NonEmpty(y), m) \in Seq(M)
      BY <2>6, AppendProperties
    <3> QED
      BY <2>5, <2>6, <3>1
  <2>8. ASSUME Abstract!NonEmpty(x) \in Seq(M)
        PROVE  Abstract!NonEmpty(x \o r) = Abstract!NonEmpty(x) \o Abstract!NonEmpty(r)
    <3>1. x \o r = Append(x \o y, m) /\ x \o y \in Seq(M)
      <4>1. x \o Append(y, m) = Append(x \o y, m)
        BY SMTT(30), ConcatAppend
      <4>2. x \o y \in Seq(M)
        BY ConcatProperties
      <4> QED
        BY <2>2, <4>1, <4>2
    <3>2. Abstract!NonEmpty(x \o r) = IF m = << >> THEN Abstract!NonEmpty(x \o y)
                                      ELSE Append(Abstract!NonEmpty(x \o y), m)
      <4> DEFINE z == x \o y
      <4>1. z \in Seq(Seq(Nat)) /\ m \in Seq(Nat) /\ x \o r = Append(z, m)
        BY <3>1
      <4> HIDE DEF z
      <4>2. Abstract!NonEmpty(Append(z, m)) = IF m = << >> THEN Abstract!NonEmpty(z)
                                              ELSE Append(Abstract!NonEmpty(z), m)
        BY <4>1, NonEmptyAppend
      <4> QED
        BY <4>1, <4>2 DEF z
    <3>3. Abstract!NonEmpty(x \o y) = Abstract!NonEmpty(x) \o Abstract!NonEmpty(y)
      BY <2>4, <2>8
    <3>4. Append(Abstract!NonEmpty(x) \o Abstract!NonEmpty(y), m) =
            Abstract!NonEmpty(x) \o Append(Abstract!NonEmpty(y), m)
      <4> DEFINE a == Abstract!NonEmpty(x)
                 b == Abstract!NonEmpty(y)
      <4>1. a \in Seq(M) /\ b \in Seq(M) /\ m \in M
        BY <2>6, <2>8
      <4> HIDE DEF a, b, M
      <4>2. a \o Append(b, m) = Append(a \o b, m)
        BY <4>1, ConcatAppend
      <4> QED
        BY <4>2 DEF a, b
    <3> QED
      BY <2>5, <3>2, <3>3, <3>4
  <2> QED
    BY <2>7, <2>8
<1>3. I = Nat
  <2>1. I \in SUBSET Nat
    OBVIOUS
  <2> HIDE DEF I
  <2> QED
    BY <1>1, <1>2, <2>1, Induction
<1>4. \A r \in Seq(M) : Splits(r)
  <2>1. \A r \in Seq(M) : Len(r) \in Nat
    OBVIOUS
  <2> HIDE DEF Splits
  <2> QED
    BY <1>3, <2>1
<1> QED
  BY <1>4
-----------------------------------------------------------------------------
(* The bridge is a channel.  Of the message in transit, i pieces have been  *)
(* sent and d of them have arrived: either the message lies before the      *)
(* client, and is the next to be published after those in pubq, or all of   *)
(* it has arrived and is the last one in pubq.                              *)
PiecesFrom(m, i) == [j \in 1..NumChunk(m) - i |-> Piece(m, i + j - 1)]

InTransit(m, i, d) ==
  LET n == NumChunk(m)
  IN /\ i \in 1..n /\ d \in {i - 1, i}
     /\ outDC = PiecesFrom(m, i)
     /\ recvUDP = IF d = i THEN << >> ELSE <<Piece(m, i - 1)>>
     /\ inDC = IF d \in 1..n - 1 THEN [size |-> Len(m), data |-> SubSeq(m, 1, d * DataSize)]
                                 ELSE NULL
     /\ Abstract!NonEmpty(accepted) =
          (published \o pubq) \o ((IF d = n THEN << >> ELSE <<m>>) \o Abstract!NonEmpty(subq))

InOrder ==
  IF outDC = NULL
  THEN /\ recvUDP = << >> /\ inDC = NULL
       /\ Abstract!NonEmpty(accepted) = (published \o pubq) \o Abstract!NonEmpty(subq)
  ELSE \E m \in Messages : \E i, d \in 0..Len(m) : InTransit(m, i, d)

(* Piece d of a message ends where piece d + 1 begins, or is the last one   *)
(* and ends with the message.                                               *)
LEMMA PieceEnds ==
  ASSUME NEW m \in Seq(Nat), NEW d \in Nat, d < NumChunk(m)
  PROVE  \E e \in Nat :
           /\ Piece(m, d).data = SubSeq(m, d * DataSize + 1, e)
           /\ Piece(m, d).id = d /\ Piece(m, d).allSize = Len(m)
           /\ d * DataSize <= e /\ e <= Len(m)
           /\ IF d = NumChunk(m) - 1 THEN e = Len(m) ELSE e = (d + 1) * DataSize /\ e < Len(m)
<1> DEFINE q == Len(m) \div DataSize
           r == Len(m) % DataSize
           n == NumChunk(m)
           size == IF d = n - 1 /\ r > 0 THEN r ELSE DataSize
           e == d * DataSize + size
<1>1. DataSize \in Nat /\ DataSize > 0 /\ Len(m) \in Nat
  BY BridgeAssumption
<1>2. q \in Nat /\ r \in Nat /\ Len(m) = DataSize * q + r /\ r < DataSize
  BY <1>1
<1>3. n = q + (IF r > 0 THEN 1 ELSE 0)
  BY DEF NumChunk
<1>4. Piece(m, d) = [id |-> d, allSize |-> Len(m), data |-> SubSeq(m, d * DataSize + 1, e)]
  BY DEF Piece
<1> HIDE DEF q, r, n
<1>5. d * DataSize \in Nat /\ size \in Nat /\ e \in Nat /\ d * DataSize <= e
  BY <1>1, <1>2
<1>6. ASSUME d = n - 1
      PROVE  e = Len(m)
  <2>1. CASE r > 0
    <3>1. d = q /\ size = r
      BY <1>2, <1>3, <1>6, <2>1
    <3> QED
      BY <1>1, <1>2, <3>1
  <2>2. CASE ~(r > 0)
    <3>1. d + 1 = q /\ size = DataSize /\ r = 0
      BY <1>2, <1>3, <1>6, <2>2
    <3>2. (d + 1) * DataSize = d * DataSize + DataSize
      BY <1>1
    <3> QED
      BY <1>1, <1>2, <1>5, <3>1, <3>2
  <2> QED
    BY <2>1, <2>2
<1>7. ASSUME d # n - 1
      PROVE  e = (d + 1) * DataSize /\ e < Len(m)
  <2>1. size = DataSize
    BY <1>7
  <2>2. (d + 1) * DataSize = d * DataSize + DataSize
    BY <1>1
  <2>3. e = (d + 1) * DataSize
    BY <2>1, <2>2
  <2>4. d + 1 < n
    BY <1>2, <1>3, <1>7 DEF n
  <2>5. CASE r > 0
    <3>1. d + 1 <= q
      BY <1>2, <1>3, <2>4, <2>5
    <3>2. (d + 1) * DataSize <= q * DataSize
      BY <1>1, <1>2, <3>1
    <3> QED
      BY <1>1, <1>2, <2>3, <2>5, <3>2
  <2>6. CASE ~(r > 0)
    <3>1. d + 2 <= q /\ r = 0
      BY <1>2, <1>3, <2>4, <2>6
    <3>2. (d + 2) * DataSize <= q * DataSize
      BY <1>1, <1>2, <3>1
    <3>3. (d + 2) * DataSize = (d + 1) * DataSize + DataSize /\ (d + 1) * DataSize \in Nat
      BY <1>1
    <3> QED
      BY <1>1, <1>2, <2>3, <3>1, <3>2, <3>3
  <2> QED
    BY <2>5, <2>6
<1> HIDE DEF e
<1>8. e <= Len(m)
  BY <1>1, <1>5, <1>6, <1>7
<1>9. /\ Piece(m, d).data = SubSeq(m, d * DataSize + 1, e)
      /\ Piece(m, d).id = d /\ Piece(m, d).allSize = Len(m)
  <2> DEFINE data == SubSeq(m, d * DataSize + 1, e)
  <2>1. Piece(m, d) = [id |-> d, allSize |-> Len(m), data |-> data]
    BY <1>4
  <2> HIDE DEF data
  <2>2. Piece(m, d).data = data /\ Piece(m, d).id = d /\ Piece(m, d).allSize = Len(m)
    BY <2>1
  <2> QED
    BY <2>2 DEF data
<1>10. e \in Nat /\ d * DataSize <= e /\ e <= Len(m)
  BY <1>5, <1>8
<1>11. IF d = NumChunk(m) - 1 THEN e = Len(m) ELSE e = (d + 1) * DataSize /\ e < Len(m)
  BY <1>6, <1>7 DEF n
<1> QED
  BY <1>9, <1>10, <1>11

(* No more pieces than bytes, and none only for the empty message.          *)
LEMMA NumChunkBounds ==
  ASSUME NEW m \in Seq(Nat)
  PROVE  /\ NumChunk(m) \in Nat /\ NumChunk(m) <= Len(m)
         /\ NumChunk(m) = 0 <=> m = << >>
<1> DEFINE q == Len(m) \div DataSize
           r == Len(m) % DataSize
<1>1. DataSize \in Nat /\ DataSize > 0 /\ Len(m) \in Nat
  BY BridgeAssumption
<1>2. q \in Nat /\ r \in Nat /\ Len(m) = DataSize * q + r /\ r < DataSize
  BY <1>1
<1>3. NumChunk(m) = q + (IF r > 0 THEN 1 ELSE 0)
  BY DEF NumChunk
<1>4. Len(m) = 0 <=> m = << >>
  BY EmptySeq
<1> HIDE DEF q, r
<1>5. q <= DataSize * q
  BY <1>1, <1>2
<1>6. q = 0 => DataSize * q = 0
  BY <1>1
<1> QED
  BY <1>1, <1>2, <1>3, <1>4, <1>5, <1>6

(* The client puts piece d behind those that it has.                        *)
LEMMA PieceFits ==
  ASSUME NEW m \in Seq(Nat), NEW d \in Nat, d < NumChunk(m)
  PROVE  LET have == SubSeq(m, 1, d * DataSize) \o Piece(m, d).data
         IN IF d = NumChunk(m) - 1 THEN have = m
            ELSE have = SubSeq(m, 1, (d + 1) * DataSize) /\ Len(have) # Len(m)
<1>1. PICK e \in Nat :
           /\ Piece(m, d).data = SubSeq(m, d * DataSize + 1, e)
           /\ Piece(m, d).id = d /\ Piece(m, d).allSize = Len(m)
           /\ d * DataSize <= e /\ e <= Len(m)
           /\ IF d = NumChunk(m) - 1 THEN e = Len(m) ELSE e = (d + 1) * DataSize /\ e < Len(m)
  BY PieceEnds
<1>2. DataSize \in Nat /\ d * DataSize \in Nat /\ Len(m) \in Nat
  BY BridgeAssumption
<1>3. SubSeq(m, 1, d * DataSize) \o SubSeq(m, d * DataSize + 1, e) = SubSeq(m, 1, e)
  <2> DEFINE k == d * DataSize
  <2>1. 1 \in 1..Len(m) + 1 /\ k \in 1 - 1..Len(m) /\ e \in k..Len(m)
    BY <1>1, <1>2
  <2> HIDE DEF k
  <2>2. SubSeq(m, 1, k) \o SubSeq(m, k + 1, e) = SubSeq(m, 1, e)
    BY <2>1, ConcatAdjacentSubSeq
  <2> QED
    BY <2>2 DEF k
<1>4. SubSeq(m, 1, Len(m)) = m
  BY SubSeqFull
<1>5. Len(SubSeq(m, 1, e)) = e
  BY <1>1, <1>2
<1>6. SubSeq(m, 1, d * DataSize) \o Piece(m, d).data = SubSeq(m, 1, e)
  BY <1>1, <1>3
<1>7. CASE d = NumChunk(m) - 1
  <2>1. e = Len(m)
    BY <1>1, <1>7
  <2> QED
    BY <1>4, <1>6, <1>7, <2>1
<1>8. CASE d # NumChunk(m) - 1
  <2>1. e = (d + 1) * DataSize /\ e < Len(m)
    BY <1>1, <1>8
  <2>2. Len(SubSeq(m, 1, e)) # Len(m)
    BY <1>2, <1>5, <2>1
  <2> QED
    BY <1>6, <1>8, <2>1, <2>2
<1> QED
  BY <1>7, <1>8

(* One message of the sequence is published, or has arrived.                *)
LEMMA HeadMoves ==
  ASSUME NEW S, NEW p \in Seq(S), NEW q \in Seq(S), q # << >>
  PROVE  Append(p, Head(q)) \o Tail(q) = p \o q
<1>1. Head(q) \in S /\ Tail(q) \in Seq(S) /\ <<Head(q)>> \in Seq(S)
  BY HeadTailProperties
<1>2. q = <<Head(q)>> \o Tail(q)
  OBVIOUS
<1>3. Append(p, Head(q)) = p \o <<Head(q)>>
  BY <1>1, AppendIsConcat
<1>4. (p \o <<Head(q)>>) \o Tail(q) = p \o (<<Head(q)>> \o Tail(q))
  BY <1>1, ConcatAssociative
<1> QED
  BY <1>2, <1>3, <1>4

(* The first message is empty or is in transit.                             *)
LEMMA NonEmptyHead ==
  ASSUME NEW msgs \in Seq(Seq(Nat)), msgs # << >>
  PROVE  Abstract!NonEmpty(msgs) =
           (IF Head(msgs) = << >> THEN << >> ELSE <<Head(msgs)>>)
             \o Abstract!NonEmpty(Tail(msgs))
<1> DEFINE m == Head(msgs)
           rest == Tail(msgs)
<1>1. m \in Seq(Nat) /\ rest \in Seq(Seq(Nat))
  BY HeadTailProperties
<1>2. msgs = <<m>> \o rest /\ <<m>> = Append(<< >>, m) /\ << >> \in Seq(Seq(Nat))
  OBVIOUS
<1> HIDE DEF m, rest
<1>3. <<m>> \in Seq(Seq(Nat))
  BY <1>1
<1>4. Abstract!NonEmpty(<<m>> \o rest) = Abstract!NonEmpty(<<m>>) \o Abstract!NonEmpty(rest)
  <2> DEFINE first == <<m>>
  <2>1. first \in Seq(Seq(Nat))
    BY <1>3
  <2> HIDE DEF first
  <2>2. Abstract!NonEmpty(first \o rest) = Abstract!NonEmpty(first) \o Abstract!NonEmpty(rest)
    BY <1>1, <2>1, NonEmptyConcat
  <2> QED
    BY <2>2 DEF first
<1>5. Abstract!NonEmpty(Append(<< >>, m)) =
        IF m = << >> THEN Abstract!NonEmpty(<< >>) ELSE Append(Abstract!NonEmpty(<< >>), m)
  BY <1>1, <1>2, NonEmptyAppend
<1>6. Abstract!NonEmpty(<<m>>) = IF m = << >> THEN << >> ELSE <<m>>
  BY <1>2, <1>5, NonEmptyOfNone
<1> QED
  BY <1>2, <1>4, <1>6 DEF m, rest

-----------------------------------------------------------------------------
(* InOrder is kept *)

LEMMA InOrderUnmoved ==
  ASSUME InOrder, UNCHANGED <<outDC, recvUDP, inDC, accepted, subq>>,
         published' \o pubq' = published \o pubq
  PROVE  InOrder'
BY DEF InOrder, InTransit

LEMMA SequenceTypes ==
  ASSUME TypeOK
  PROVE  /\ accepted \in Seq(Seq(Nat)) /\ subq \in Seq(Seq(Nat))
         /\ published \in Seq(Seq(Nat)) /\ pubq \in Seq(Seq(Nat))
         /\ published \o pubq \in Seq(Seq(Nat))
         /\ Abstract!NonEmpty(subq) \in Seq(Seq(Nat))
         /\ Abstract!NonEmpty(accepted) \in Seq(Seq(Nat))
<1>1. Messages \subseteq Seq(Nat)
  BY BridgeAssumption
<1>2. accepted \in Seq(Messages) /\ subq \in Seq(Messages)
  BY DEF TypeOK
<1>3. accepted \in Seq(Seq(Nat)) /\ subq \in Seq(Seq(Nat))
  BY <1>1, <1>2, SeqMonotonic
<1>4. published \in Seq(Seq(Nat)) /\ pubq \in Seq(Seq(Nat))
  BY DEF TypeOK
<1>5. published \o pubq \in Seq(Seq(Nat))
  BY <1>4, ConcatProperties
<1>6. Abstract!NonEmpty(subq) \in Seq(Seq(Nat)) /\ Abstract!NonEmpty(accepted) \in Seq(Seq(Nat))
  BY <1>3, NonEmptyConcat
<1> QED
  BY <1>3, <1>4, <1>5, <1>6

LEMMA SUBInOrder ==
  ASSUME TypeOK, InOrder, HandleSUB
  PROVE  InOrder'
<1> DEFINE M == Seq(Nat)
           all == Abstract!NonEmpty(accepted)
           waiting == Abstract!NonEmpty(subq)
           out == published \o pubq
<1>1. PICK m \in Messages : subq' = Append(subq, m) /\ accepted' = Append(accepted, m)
  BY DEF HandleSUB
<1>2. m \in M /\ all \in Seq(M) /\ waiting \in Seq(M) /\ out \in Seq(M)
  BY SequenceTypes, BridgeAssumption
<1>3. /\ Abstract!NonEmpty(accepted') = IF m = << >> THEN all ELSE Append(all, m)
      /\ Abstract!NonEmpty(subq') = IF m = << >> THEN waiting ELSE Append(waiting, m)
  BY <1>1, <1>2, SequenceTypes, NonEmptyAppend
<1>4. UNCHANGED <<outDC, recvUDP, inDC, published, pubq>>
  BY DEF HandleSUB, clientVars
<1> HIDE DEF M, all, waiting, out
<1>5. ASSUME NEW x \in Seq(M), all = out \o (x \o waiting)
      PROVE  Abstract!NonEmpty(accepted') = out \o (x \o Abstract!NonEmpty(subq'))
  <2>1. x \o waiting \in Seq(M)
    BY <1>2, ConcatProperties
  <2>2. out \o Append(x \o waiting, m) = Append(out \o (x \o waiting), m)
    BY <1>2, <2>1, ConcatAppend
  <2>3. x \o Append(waiting, m) = Append(x \o waiting, m)
    BY <1>2, ConcatAppend
  <2> QED
    BY <1>3, <1>5, <2>2, <2>3
<1>6. ASSUME all = out \o waiting
      PROVE  Abstract!NonEmpty(accepted') = out \o Abstract!NonEmpty(subq')
  <2>1. out \o Append(waiting, m) = Append(out \o waiting, m)
    BY <1>2, ConcatAppend
  <2> QED
    BY <1>3, <1>6, <2>1
<1>7. \A y \in Messages : << >> \in Seq(M) /\ <<y>> \in Seq(M)
  BY BridgeAssumption DEF M
<1>8. CASE outDC = NULL
  BY <1>4, <1>6, <1>8 DEF InOrder, all, waiting, out
<1>9. CASE outDC # NULL
  <2>1. PICK y \in Messages : \E i, d \in 0..Len(y) : InTransit(y, i, d)
    BY <1>9 DEF InOrder
  <2>0. PICK i, d \in 0..Len(y) : InTransit(y, i, d)
    BY <2>1
  <2> DEFINE x == IF d = NumChunk(y) THEN << >> ELSE <<y>>
  <2>2. x \in Seq(M) /\ all = out \o (x \o waiting)
    BY <1>7, <2>0 DEF InTransit, all, waiting, out
  <2> HIDE DEF x
  <2>3. Abstract!NonEmpty(accepted') = out \o (x \o Abstract!NonEmpty(subq'))
    BY <1>5, <2>2
  <2>4. InTransit(y, i, d)'
    BY <1>4, <2>0, <2>3 DEF InTransit, out, x
  <2> QED
    BY <1>4, <1>9, <2>4 DEF InOrder
<1> QED
  BY <1>8, <1>9

LEMMA PUBInOrder ==
  ASSUME TypeOK, InOrder, HandlePUB
  PROVE  InOrder'
<1>1. published \in Seq(Seq(Nat)) /\ pubq \in Seq(Seq(Nat))
  BY DEF TypeOK
<1>2. UNCHANGED <<outDC, recvUDP, inDC, accepted, subq>>
  BY DEF HandlePUB, serverVars
<1>3. published' \o pubq' = published \o pubq
  <2>1. CASE pubq = << >>
    BY <2>1 DEF HandlePUB
  <2>2. CASE pubq # << >>
    <3>1. pubq' = Tail(pubq) /\ published' = Append(published, Head(pubq))
      BY <2>2 DEF HandlePUB
    <3> QED
      BY <1>1, <2>2, <3>1, HeadMoves
  <2> QED
    BY <2>1, <2>2
<1> QED
  BY <1>2, <1>3, InOrderUnmoved

LEMMA FunctionIsSeq ==
  ASSUME NEW S, NEW n \in Nat, NEW f \in [1..n -> S]
  PROVE  f \in Seq(S) /\ Len(f) = n
OBVIOUS

(* The first of the pieces that are left, and the others.                   *)
LEMMA PiecesLeft ==
  ASSUME NEW m \in Seq(Nat), NEW i \in 0..NumChunk(m)
  PROVE  /\ PiecesFrom(m, i) \in Seq(Pieces)
         /\ i = NumChunk(m) => PiecesFrom(m, i) = << >>
         /\ i < NumChunk(m) => /\ PiecesFrom(m, i) # << >>
                              /\ Head(PiecesFrom(m, i)) = Piece(m, i)
                              /\ Tail(PiecesFrom(m, i)) = PiecesFrom(m, i + 1)
<1> DEFINE n == NumChunk(m)
           s == PiecesFrom(m, i)
           t == PiecesFrom(m, i + 1)
<1>1. n \in Nat /\ i \in Nat /\ i <= n
  BY NumChunkBounds
<1>2. \A k \in Nat : k < n => Piece(m, k) \in Pieces
  BY PieceType
<1> HIDE DEF n
<1>3. s \in [1..n - i -> Pieces] /\ n - i \in Nat
  <2>1. \A j \in 1..n - i : i + j - 1 \in Nat /\ i + j - 1 < n
    BY <1>1
  <2> QED
    BY <1>1, <1>2, <2>1 DEF PiecesFrom, n
<1>4. s \in Seq(Pieces) /\ Len(s) = n - i
  <2> HIDE DEF s
  <2> QED
    BY <1>3, FunctionIsSeq
<1>5. CASE i = n
  <2>1. s = << >>
    BY <1>1, <1>4, <1>5, EmptySeq
  <2> QED
    BY <1>1, <1>4, <1>5, <2>1 DEF n
<1>6. CASE i < n
  <2>1. t \in [1..n - (i + 1) -> Pieces] /\ n - (i + 1) \in Nat
    <3>1. \A j \in 1..n - (i + 1) : (i + 1) + j - 1 \in Nat /\ (i + 1) + j - 1 < n
      BY <1>1
    <3>2. n - (i + 1) \in Nat
      BY <1>1, <1>6
    <3> QED
      BY <1>2, <3>1, <3>2 DEF PiecesFrom, n
  <2>2. t \in Seq(Pieces) /\ Len(t) = n - (i + 1)
    <3> HIDE DEF t
    <3> QED
      BY <2>1, FunctionIsSeq
  <2>3. ASSUME NEW j \in 1..n - (i + 1)
        PROVE  t[j] = s[j + 1]
    <3>1. j + 1 \in 1..n - i /\ i + (j + 1) - 1 = (i + 1) + j - 1
      BY <1>1
    <3> QED
      BY <3>1 DEF PiecesFrom, n
  <2>4. s # << >> /\ Head(s) = s[1] /\ s[1] = Piece(m, i)
    <3>1. 1 \in 1..n - i /\ i + 1 - 1 = i
      BY <1>1, <1>6
    <3>2. s[1] = Piece(m, i)
      BY <3>1 DEF PiecesFrom, n
    <3>3. s # << >>
      BY <1>1, <1>4, <1>6, EmptySeq
    <3> HIDE DEF s
    <3>4. Head(s) = s[1]
      BY <1>4, <3>3
    <3> QED
      BY <3>2, <3>3, <3>4
  <2> HIDE DEF s, t
  <2>5. /\ Tail(s) \in Seq(Pieces) /\ Len(Tail(s)) = Len(s) - 1
        /\ \A j \in 1..Len(Tail(s)) : Tail(s)[j] = s[j + 1]
    BY <1>4, <2>4, HeadTailProperties
  <2>6. Len(Tail(s)) = n - (i + 1)
    BY <1>1, <1>4, <2>5
  <2>7. \A j \in 1..Len(Tail(s)) : Tail(s)[j] = t[j]
    BY <2>3, <2>5, <2>6
  <2>8. Tail(s) = t
    BY <2>2, <2>5, <2>6, <2>7, SeqEqual
  <2> QED
    BY <1>4, <1>6, <2>4, <2>8 DEF s, t, n
<1> QED
  BY <1>1, <1>5, <1>6 DEF n

(* Either the next piece of the message in transit is sent, or the next     *)
(* message is begun; the empty one has no piece.                            *)
LEMMA ServerDataInOrder ==
  ASSUME TypeOK, LockStep, ReportStillHolds, InOrder, HandleServerData
  PROVE  InOrder'
<1> DEFINE M == Seq(Nat)
           all == Abstract!NonEmpty(accepted)
           out == published \o pubq
<1>1. /\ waitACK = NULL /\ recvUDP = << >> /\ (outDC # NULL \/ subq # << >>)
      /\ UNCHANGED <<accepted, inDC, pubq, published>>
  BY DEF HandleServerData, Runs, ReportStillHolds, LockStep, clientVars
<1>2. CASE outDC # NULL
  <2>0. PICK m \in Messages : \E i, d \in 0..Len(m) : InTransit(m, i, d)
    BY <1>2 DEF InOrder
  <2>1. PICK i, d \in 0..Len(m) : InTransit(m, i, d)
    BY <2>0
  <2> DEFINE n == NumChunk(m)
  <2>2. m \in Seq(Nat) /\ n \in Nat /\ n <= Len(m) /\ Len(m) \in Nat /\ i \in 1..n
    BY <2>1, NumChunkBounds, BridgeAssumption DEF InTransit
  <2>3. d = i
    <3>1. <<Piece(m, i - 1)>> # << >>
      OBVIOUS
    <3> QED
      BY <1>1, <2>1, <3>1 DEF InTransit
  <2>4. /\ outDC = PiecesFrom(m, i) /\ i \in 0..n
        /\ inDC = IF d \in 1..n - 1 THEN [size |-> Len(m), data |-> SubSeq(m, 1, d * DataSize)]
                                     ELSE NULL
        /\ all = out \o ((IF d = n THEN << >> ELSE <<m>>) \o Abstract!NonEmpty(subq))
    BY <2>1, <2>2 DEF InTransit
  <2>5. subq' = subq /\ IF outDC = << >> THEN outDC' = NULL /\ UNCHANGED recvUDP
                        ELSE outDC' = Tail(outDC) /\ recvUDP' = Append(recvUDP, Head(outDC))
    BY <1>1, <1>2 DEF HandleServerData
  <2> HIDE DEF n
  <2>6. CASE i = n
    <3>1. outDC = << >>
      BY <2>2, <2>4, <2>6, PiecesLeft DEF n
    <3>2. inDC = NULL /\ all = out \o (<< >> \o Abstract!NonEmpty(subq))
      BY <2>2, <2>3, <2>4, <2>6
    <3>3. all = out \o Abstract!NonEmpty(subq)
      BY <3>2, SequenceTypes, ConcatEmptySeq
    <3> QED
      BY <1>1, <2>5, <3>1, <3>2, <3>3 DEF InOrder
  <2>7. CASE i # n
    <3>1. i < n
      BY <2>2, <2>7
    <3>2. outDC # << >> /\ Head(outDC) = Piece(m, i) /\ Tail(outDC) = PiecesFrom(m, i + 1)
      BY <2>2, <2>4, <3>1, PiecesLeft DEF n
    <3>3. recvUDP' = <<Piece(m, i)>> /\ outDC' = PiecesFrom(m, i + 1)
      BY SMTT(30), <1>1, <2>5, <3>2
    <3>4. i + 1 \in 1..n /\ (i + 1) - 1 = i /\ i + 1 # i /\ i + 1 \in 0..Len(m)
      BY <2>2, <3>1
    <3>5. InTransit(m, i + 1, i)'
      BY <1>1, <2>3, <2>4, <2>5, <3>3, <3>4 DEF InTransit, n
    <3>6. outDC' # NULL
      BY <2>2, <3>3, <3>4, PiecesLeft, BridgeAssumption DEF n
    <3>7. \E i_1, d_1 \in 0..Len(m) : InTransit(m, i_1, d_1)'
      BY <3>4, <3>5
    <3> QED
      BY <3>6, <3>7 DEF InOrder
  <2> QED
    BY <2>6, <2>7
<1>3. CASE outDC = NULL
  <2>0. PICK m : m = Head(subq)
    OBVIOUS
  <2> DEFINE n == NumChunk(m)
             rest == Abstract!NonEmpty(Tail(subq))
  <2>1. subq # << >> /\ m \in Messages /\ m \in M /\ subq \in Seq(M) /\ Tail(subq) \in Seq(M)
    BY <1>1, <1>3, <2>0, BridgeAssumption, SequenceTypes, HeadTailProperties DEF TypeOK
  <2>2. n \in Nat /\ n <= Len(m) /\ Len(m) \in Nat /\ (n = 0 <=> m = << >>) /\ 0 \in 0..n
    BY <2>1, NumChunkBounds
  <2>3. inDC = NULL /\ all = out \o Abstract!NonEmpty(subq)
    BY <1>3 DEF InOrder
  <2>4. Abstract!NonEmpty(subq) = (IF m = << >> THEN << >> ELSE <<m>>) \o rest
    BY <2>0, <2>1, NonEmptyHead
  <2>5. subq' = Tail(subq)
    BY <1>1, <1>3 DEF HandleServerData
  <2>6. IF PiecesFrom(m, 0) = << >> THEN outDC' = NULL /\ UNCHANGED recvUDP
        ELSE /\ outDC' = Tail(PiecesFrom(m, 0))
             /\ recvUDP' = Append(recvUDP, Head(PiecesFrom(m, 0)))
    <3>1. ChunkifyDC(m) = PiecesFrom(m, 0)
      BY <2>1, <2>2 DEF ChunkifyDC, PiecesFrom
    <3> QED
      BY <1>1, <1>3, <2>0, <3>1 DEF HandleServerData
  <2>7. rest \in Seq(M)
    BY <2>1, NonEmptyConcat
  <2> HIDE DEF n
  <2>8. CASE n = 0
    <3>1. PiecesFrom(m, 0) = << >> /\ m = << >>
      BY <2>1, <2>2, <2>8, PiecesLeft DEF n
    <3>2. << >> \o rest = rest
      BY <2>7, ConcatEmptySeq
    <3> QED
      BY <1>1, <2>3, <2>4, <2>5, <2>6, <3>1, <3>2 DEF InOrder
  <2>9. CASE n # 0
    <3>1. 0 < n /\ m # << >>
      BY <2>2, <2>9
    <3>2. /\ PiecesFrom(m, 0) # << >> /\ Head(PiecesFrom(m, 0)) = Piece(m, 0)
          /\ Tail(PiecesFrom(m, 0)) = PiecesFrom(m, 1)
      BY <2>1, <2>2, <3>1, PiecesLeft DEF n
    <3>3. recvUDP' = <<Piece(m, 0)>> /\ outDC' = PiecesFrom(m, 1)
      BY <1>1, <2>6, <3>2
    <3>4. 1 \in 1..n /\ 1 - 1 = 0 /\ 1 \in 0..Len(m) /\ 0 \in 0..Len(m) /\ 0 \notin 1..n - 1
      BY <2>2, <3>1
    <3>5. InTransit(m, 1, 0)'
      <4>1. all = out \o (<<m>> \o rest)
        BY <2>3, <2>4, <3>1
      <4>2. Abstract!NonEmpty(accepted') =
              (published' \o pubq') \o ((IF 0 = n THEN << >> ELSE <<m>>) \o Abstract!NonEmpty(subq'))
        BY <1>1, <2>5, <2>9, <4>1
      <4>3. inDC' = NULL /\ 0 \in {1 - 1, 1} /\ 0 # 1
        BY <1>1, <2>3
      <4> HIDE DEF rest
      <4> QED
        BY <3>3, <3>4, <4>2, <4>3 DEF InTransit, n
    <3>6. outDC' # NULL
      <4>1. 1 \in 0..n
        BY <2>2, <3>4
      <4> QED
        BY <2>1, <3>3, <4>1, PiecesLeft, BridgeAssumption DEF n
    <3>7. \E i, d \in 0..Len(m) : InTransit(m, i, d)'
      BY <3>4, <3>5
    <3> QED
      BY <2>1, <3>6, <3>7 DEF InOrder
  <2> QED
    BY <2>8, <2>9
<1> QED
  BY <1>2, <1>3

(* The client puts the piece behind the others of its message; with the     *)
(* last one the message moves behind those that wait for PUB.               *)
LEMMA ClientDataInOrder ==
  ASSUME TypeOK, InOrder, HandleClientData
  PROVE  InOrder'
<1> DEFINE M == Seq(Nat)
           all == Abstract!NonEmpty(accepted)
           waiting == Abstract!NonEmpty(subq)
<1>1. /\ recvUDP # << >> /\ recvUDP' = Tail(recvUDP)
      /\ UNCHANGED <<subq, outDC, waitACK, accepted, sendUDP, published>>
  BY DEF HandleClientData, serverVars
<1>2. outDC # NULL
  BY <1>1 DEF InOrder
<1>3. PICK m \in Messages : \E i, d \in 0..Len(m) : InTransit(m, i, d)
  BY <1>2 DEF InOrder
<1>4. PICK i, d \in 0..Len(m) : InTransit(m, i, d)
  BY <1>3
<1> DEFINE n == NumChunk(m)
           have == SubSeq(m, 1, d * DataSize) \o Piece(m, d).data
<1>5. m \in Seq(Nat) /\ n \in Nat /\ n <= Len(m) /\ Len(m) \in Nat /\ i \in 1..n
  BY <1>4, NumChunkBounds, BridgeAssumption DEF InTransit
<1>6. d # i /\ d = i - 1 /\ recvUDP = <<Piece(m, d)>> /\ outDC = PiecesFrom(m, i)
  BY <1>1, <1>4 DEF InTransit
<1>7. /\ inDC = IF d \in 1..n - 1 THEN [size |-> Len(m), data |-> SubSeq(m, 1, d * DataSize)]
                                  ELSE NULL
      /\ all = (published \o pubq) \o ((IF d = n THEN << >> ELSE <<m>>) \o waiting)
  BY <1>4 DEF InTransit
<1>8. d \in Nat /\ d < n /\ d # n /\ d + 1 = i
  BY <1>5, <1>6
<1>9. /\ Head(recvUDP) = Piece(m, d) /\ recvUDP' = << >>
      /\ Piece(m, d).allSize = Len(m) /\ Piece(m, d).id = d
  <2>1. Piece(m, d).allSize = Len(m) /\ Piece(m, d).id = d
    BY <1>5, <1>8, PieceEnds
  <2> QED
    BY <1>1, <1>6, <2>1
<1> HIDE DEF n
<1>10. IF inDC = NULL THEN SubSeq(m, 1, d * DataSize) = << >>
       ELSE inDC.size = Len(m) /\ inDC.data = SubSeq(m, 1, d * DataSize)
  <2>1. CASE d = 0
    <3>1. inDC = NULL
      BY <1>7, <2>1
    <3>2. d * DataSize = 0
      BY <2>1, BridgeAssumption
    <3>3. SubSeq(m, 1, 0) = << >>
      BY SubSeqEmpty
    <3> QED
      BY <3>1, <3>2, <3>3
  <2>2. CASE d # 0
    <3>1. inDC = [size |-> Len(m), data |-> SubSeq(m, 1, d * DataSize)]
      BY <1>5, <1>7, <1>8, <2>2
    <3>2. inDC # NULL
      <4>1. inDC = NULL \/ inDC \in Partials
        BY DEF TypeOK
      <4>2. d * DataSize \in Nat /\ d * DataSize <= Len(m)
        <5>1. PICK e \in Nat : d * DataSize <= e /\ e <= Len(m)
          BY <1>5, <1>8, PieceEnds DEF n
        <5> QED
          BY <5>1, <1>5, <1>8, BridgeAssumption
      <4>3. SubSeq(m, 1, d * DataSize) \in Seq(Nat)
        BY <1>5, <4>2
      <4>4. inDC \in Partials
        BY <1>5, <3>1, <4>3 DEF Partials
      <4> QED
        BY <4>4, BridgeAssumption
    <3> DEFINE data == SubSeq(m, 1, d * DataSize)
    <3>3. inDC = [size |-> Len(m), data |-> data]
      BY <3>1
    <3> HIDE DEF data
    <3>4. inDC.size = Len(m) /\ inDC.data = data
      BY <3>3
    <3> QED
      BY <3>2, <3>4 DEF data
  <2> QED
    BY <2>1, <2>2
<1>11. IF Len(have) = Len(m) THEN pubq' = Append(pubq, have) /\ inDC' = NULL
       ELSE inDC' = [size |-> Len(m), data |-> have] /\ UNCHANGED pubq
  <2> DEFINE pkt == Head(recvUDP)
             dc == IF inDC = NULL THEN [size |-> pkt.allSize, data |-> << >>] ELSE inDC
  <2>1. dc.size = Len(m) /\ dc.data = SubSeq(m, 1, d * DataSize)
    BY <1>9, <1>10
  <2>2. IF Len(dc.data \o pkt.data) = dc.size
        THEN pubq' = Append(pubq, dc.data \o pkt.data) /\ inDC' = NULL
        ELSE inDC' = [size |-> dc.size, data |-> dc.data \o pkt.data] /\ UNCHANGED pubq
    BY DEF HandleClientData
  <2>3. pkt = Piece(m, d)
    BY <1>9
  <2> HIDE DEF dc, pkt
  <2> QED
    BY <2>1, <2>2, <2>3
<1>12. IF d = n - 1 THEN have = m
       ELSE have = SubSeq(m, 1, (d + 1) * DataSize) /\ Len(have) # Len(m)
  BY <1>5, <1>8, PieceFits DEF n
<1> HIDE DEF have
<1>13. CASE d = n - 1
  <2>1. pubq' = Append(pubq, m) /\ inDC' = NULL
    BY <1>11, <1>12, <1>13
  <2>2. all = (published \o pubq) \o (<<m>> \o waiting)
    BY <1>7, <1>8
  <2>3. (published \o pubq) \o (<<m>> \o waiting) =
          (published \o Append(pubq, m)) \o (<< >> \o waiting)
    <3>1. /\ published \in Seq(M) /\ pubq \in Seq(M) /\ waiting \in Seq(M) /\ m \in M
      BY <1>5, SequenceTypes
    <3> HIDE DEF M, waiting
    <3>2. (published \o Append(pubq, m)) \o waiting = (published \o pubq) \o (<<m>> \o waiting)
      <4>1. PICK p \in Seq(M) : p = published
        BY <3>1
      <4>2. PICK q \in Seq(M) : q = pubq
        BY <3>1
      <4>3. PICK w \in Seq(M) : w = waiting
        BY <3>1
      <4>4. (p \o Append(q, m)) \o w = (p \o q) \o (<<m>> \o w)
        <5>1. p \o Append(q, m) = Append(p \o q, m)
          BY SMTT(30), <3>1, ConcatAppend
        <5>2. p \o q \in Seq(M) /\ <<m>> \in Seq(M)
          BY <3>1, ConcatProperties
        <5>3. Append(p \o q, m) = (p \o q) \o <<m>>
          BY <3>1, <5>2, AppendIsConcat
        <5>4. ((p \o q) \o <<m>>) \o w = (p \o q) \o (<<m>> \o w)
          BY <5>2, ConcatAssociative
        <5> QED
          BY <5>1, <5>3, <5>4
      <4> QED
        BY <4>1, <4>2, <4>3, <4>4
    <3>3. << >> \o waiting = waiting
      BY <3>1, ConcatEmptySeq
    <3> QED
      BY <3>2, <3>3
  <2>4. Abstract!NonEmpty(accepted') =
          (published' \o pubq') \o (<< >> \o Abstract!NonEmpty(subq'))
    BY <1>1, <2>1, <2>2, <2>3
  <2>5. i = n /\ i \notin 1..n - 1 /\ i \in 1..n /\ i \in {i - 1, i}
    BY <1>5, <1>6, <1>13
  <2>6. InTransit(m, i, i)'
    <3> HIDE DEF waiting, all
    <3> QED
      BY <1>1, <1>6, <1>9, <2>1, <2>4, <2>5 DEF InTransit, n
  <2>7. \E j, e \in 0..Len(m) : InTransit(m, j, e)'
    BY <2>6
  <2> QED
    BY <1>1, <1>2, <2>7 DEF InOrder
<1>14. CASE d # n - 1
  <2>1. inDC' = [size |-> Len(m), data |-> SubSeq(m, 1, i * DataSize)] /\ UNCHANGED pubq
    BY <1>8, <1>11, <1>12, <1>14
  <2>2. i \in 1..n - 1 /\ i # n /\ i \in 1..n /\ i \in {i - 1, i}
    BY <1>5, <1>6, <1>14
  <2>3. Abstract!NonEmpty(accepted') =
          (published' \o pubq') \o (<<m>> \o Abstract!NonEmpty(subq'))
    BY <1>1, <1>7, <1>8, <2>1
  <2>4. InTransit(m, i, i)'
    <3> HIDE DEF waiting, all
    <3> QED
      BY <1>1, <1>6, <1>9, <2>1, <2>2, <2>3 DEF InTransit, n
  <2>5. \E j, e \in 0..Len(m) : InTransit(m, j, e)'
    BY <2>4
  <2> QED
    BY <1>1, <1>2, <2>5 DEF InOrder
<1> QED
  BY <1>13, <1>14

LEMMA NextInOrder == IInv /\ InOrder /\ [Next]_vars => InOrder'
<1> SUFFICES ASSUME IInv, InOrder, [Next]_vars PROVE InOrder'
  OBVIOUS
<1>1. TypeOK /\ LockStep /\ ReportStillHolds
  BY DEF IInv
<1>2. CASE UNCHANGED vars \/ Poll \/ HandleServerACK \/ HandleClientACK
  <2>1. UNCHANGED <<outDC, recvUDP, inDC, accepted, subq, published, pubq>>
    BY <1>2 DEF vars, serverVars, clientVars, Poll, HandleServerACK, HandleClientACK
  <2> QED
    BY <2>1, InOrderUnmoved
<1> QED
  BY <1>1, <1>2, SUBInOrder, PUBInOrder, ServerDataInOrder, ClientDataInOrder DEF Next

LEMMA InOrderHolds == Spec => [](IInv /\ InOrder)
<1>1. Init => InOrder
  <2>1. << >> \o << >> = << >>
    OBVIOUS
  <2> QED
    BY <2>1, NonEmptyOfNone DEF Init, InOrder
<1>2. IInv /\ InOrder /\ [Next]_vars => (IInv /\ InOrder)'
  BY NextTypeOK, NextLockStep, NextReportStillHolds, NextInOrder DEF IInv
<1> QED
  BY <1>1, <1>2, InitIInv, PTL DEF Spec

(* When nothing is ready, nothing is under way: an ACK that the server      *)
(* waits for would be on one of the sockets, or waiting to be sent.         *)
LEMMA NothingReady ==
  ASSUME IInv, InOrder, \A h \in Handlers : ~Ready(h)
  PROVE  published = Abstract!NonEmpty(accepted)
<1>1. /\ pubq = << >> /\ recvUDP = << >> /\ outACK = NULL
      /\ waitACK # NULL => sendUDP = << >>
      /\ waitACK = NULL => outDC = NULL /\ subq = << >>
  BY DEF Handlers, Ready
<1>2. waitACK = NULL
  <2>1. ASSUME waitACK # NULL
        PROVE  FALSE
    <3>1. recvUDP = <<waitACK>> \/ outACK = waitACK.id \/ sendUDP = <<waitACK.id>>
      BY <2>1 DEF IInv, LockStep
    <3>2. waitACK.id \in Nat
      BY <2>1 DEF IInv, TypeOK, Pieces
    <3>3. outACK # waitACK.id
      BY <1>1, <3>2, BridgeAssumption
    <3>4. recvUDP # <<waitACK>> /\ sendUDP # <<waitACK.id>>
      BY <1>1, <2>1
    <3> QED
      BY <3>1, <3>3, <3>4
  <2> QED
    BY <2>1
<1>3. Abstract!NonEmpty(accepted) = (published \o pubq) \o Abstract!NonEmpty(subq)
  BY <1>1, <1>2 DEF InOrder
<1>4. published \in Seq(Seq(Nat)) /\ pubq = << >> /\ Abstract!NonEmpty(subq) = << >>
  BY <1>1, <1>2, NonEmptyOfNone DEF IInv, TypeOK
<1> QED
  BY <1>3, <1>4, ConcatEmptySeq

(* What the poll reports is right, for messages and pieces of any size: no  *)
(* handler of a round finds that an earlier one has taken away what it was  *)
(* called for, so the loop never blocks in recvfrom; and it sleeps in       *)
(* zmq_poll only when all that was read is published.                       *)
THEOREM ReportsAreRightHolds == Spec => []ReportsAreRight
<1>1. IInv /\ InOrder => ReportsAreRight
  BY NothingReady DEF IInv, ReportsAreRight, SleepsWhenDone
<1> QED
  BY <1>1, InOrderHolds, PTL

-----------------------------------------------------------------------------
(* Refinement *)

(* What is published next is the next non-empty message that was read.      *)
LEMMA PublishesNext ==
  ASSUME TypeOK, InOrder, pubq # << >>
  PROVE  /\ Len(published) < Len(Abstract!NonEmpty(accepted))
         /\ Abstract!NonEmpty(accepted)[Len(published) + 1] = Head(pubq)
<1> DEFINE M == Seq(Nat)
<1>1. /\ published \in Seq(M) /\ pubq \in Seq(M) /\ published \o pubq \in Seq(M)
      /\ Abstract!NonEmpty(subq) \in Seq(M)
  BY SequenceTypes
<1>2. PICK x \in Seq(M) : Abstract!NonEmpty(accepted) = (published \o pubq) \o x
  <2>1. CASE outDC = NULL
    BY <1>1, <2>1 DEF InOrder
  <2>2. CASE outDC # NULL
    <3>1. PICK m \in Messages : \E i, d \in 0..Len(m) : InTransit(m, i, d)
      BY <2>2 DEF InOrder
    <3>2. PICK i, d \in 0..Len(m) : InTransit(m, i, d)
      BY <3>1
    <3> DEFINE y == IF d = NumChunk(m) THEN << >> ELSE <<m>>
    <3>3. y \in Seq(M)
      BY BridgeAssumption
    <3>4. Abstract!NonEmpty(accepted) = (published \o pubq) \o (y \o Abstract!NonEmpty(subq))
      BY <3>2 DEF InTransit
    <3> HIDE DEF y, M
    <3>5. y \o Abstract!NonEmpty(subq) \in Seq(M)
      BY <1>1, <3>3, ConcatProperties
    <3> QED
      BY <3>4, <3>5
  <2> QED
    BY <2>1, <2>2
<1> DEFINE out == published \o pubq
<1> HIDE DEF M
<1>3. Len(published) \in Nat /\ Len(pubq) \in Nat \ {0} /\ Len(x) \in Nat
  BY <1>1, EmptySeq, LenProperties
<1>4. /\ Len(out) = Len(published) + Len(pubq)
      /\ out[Len(published) + 1] = pubq[1]
  <2>1. \A j \in 1..Len(published) + Len(pubq) :
          (published \o pubq)[j] = IF j <= Len(published) THEN published[j]
                                   ELSE pubq[j - Len(published)]
    BY <1>1, ConcatProperties
  <2>2. Len(published \o pubq) = Len(published) + Len(pubq)
    BY <1>1, ConcatProperties
  <2>3. /\ Len(published) + 1 \in 1..Len(published) + Len(pubq)
        /\ ~(Len(published) + 1 <= Len(published))
        /\ (Len(published) + 1) - Len(published) = 1
    BY <1>3
  <2> QED
    BY <2>1, <2>2, <2>3
<1> HIDE DEF out
<1>5. out \in Seq(M)
  BY <1>1 DEF out
<1>6. /\ Len(out \o x) = Len(out) + Len(x)
      /\ \A j \in 1..Len(out) + Len(x) :
           (out \o x)[j] = IF j <= Len(out) THEN out[j] ELSE x[j - Len(out)]
  BY <1>5, ConcatProperties
<1>7. /\ Len(published) + 1 \in 1..Len(out) + Len(x) /\ Len(published) + 1 <= Len(out)
      /\ Len(published) < Len(out) + Len(x)
  BY <1>3, <1>4
<1>8. Head(pubq) = pubq[1]
  BY <1>1
<1> QED
  BY <1>2, <1>4, <1>6, <1>7, <1>8 DEF out

(* The bridge implements the channel: messages of any size come out whole,  *)
(* once each and in order.  HandleSUB is its Accept and HandlePUB its       *)
(* Publish; every other step is a stutter.                                  *)
THEOREM BridgeIsChannel == Spec => Implements
<1>1. Init => Abstract!Init
  BY DEF Init, Abstract!Init
<1>2. IInv /\ InOrder /\ [Next]_vars => [Abstract!Next]_(Abstract!vars)
  <2> SUFFICES ASSUME IInv, InOrder, [Next]_vars
               PROVE  [Abstract!Next]_(Abstract!vars)
    OBVIOUS
  <2>1. CASE HandleSUB
    <3>1. Abstract!Accept
      BY <2>1 DEF HandleSUB, clientVars, Abstract!Accept
    <3> QED
      BY <3>1 DEF Abstract!Next
  <2>2. CASE HandlePUB
    <3>1. pubq # << >> /\ published' = Append(published, Head(pubq)) /\ UNCHANGED accepted
      BY <2>2 DEF HandlePUB, Runs, IInv, ReportStillHolds, serverVars
    <3>2. Abstract!Publish
      BY <3>1, PublishesNext DEF IInv, Abstract!Publish
    <3> QED
      BY <3>2 DEF Abstract!Next
  <2>3. CASE ~(HandleSUB \/ HandlePUB)
    <3>1. UNCHANGED <<accepted, published>>
      BY <2>3 DEF Next, vars, serverVars, clientVars, Poll, HandleServerData, HandleServerACK,
                  HandleClientData, HandleClientACK
    <3> QED
      BY <3>1 DEF Abstract!vars
  <2> QED
    BY <2>1, <2>2, <2>3
<1> QED
  BY <1>1, <1>2, InOrderHolds, PTL DEF Spec, Implements, Abstract!Spec
=============================================================================
