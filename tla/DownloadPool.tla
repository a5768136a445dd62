---------------------------- MODULE DownloadPool ----------------------------
(***************************************************************************)
(* The downloading half of one peer of the Bittorrent client                *)
(* (project3/src/peer.c, packet.c, connPool.c): how the chunks the user     *)
(* asks for are searched with WHOHAS, claimed on IHAVE, asked for with GET   *)
(* from one peer at a time, and given up and searched again.  What happens  *)
(* inside the transfer of a chunk is ChunkTransfer's subject; here a DATA    *)
(* packet either completes the chunk its connection stands at or does not.  *)
(*                                                                         *)
(* The peer is one thread.  An iteration of peer_run is                     *)
(*   poll      one packet is handled, or a second passes without one        *)
(*   input     a line of the user, read only while idle is 1                *)
(*   queue     flushQueue sends the WHOHAS and IHAVE packets                *)
(*   download  flushDownload visits every peer (in any order, here)         *)
(* Every other peer q answers a WHOHAS as newPacketIHAVE does, from the      *)
(* chunks Owns[q]; the answer may be late, or never come.  DATA may come at *)
(* any time after q was once asked, so also when the download is given up.  *)
(* Timers are not clocked: one may expire whenever it is looked at.         *)
(***************************************************************************)
EXTENDS Integers, Sequences, FiniteSets

CONSTANTS
  Peers,        \* the other peers of peerInfo
  Chunks,       \* the hashes of masterChunk
  HasChunks,    \* those in hasChunk
  Owns,         \* Owns[q]: those in the hasChunk of peer q
  Requests,     \* the chunk lists the user may ask for
  MaxHash,      \* MAX_HASH_PER_PACKET
  MaxTimeouts,  \* the expiries of a GET's timer that end a download
  MaxConns,     \* the values of the option -m
  MaxGets       \* bound: the length to which a getQueue may grow

ASSUME PeersAssumption == IsFiniteSet(Peers)
ASSUME ChunksAssumption ==
  /\ IsFiniteSet(Chunks)             \* there are at most MAX_NUM_CHUNK
  /\ HasChunks \subseteq Chunks
  /\ Owns \in [Peers -> SUBSET Chunks]
ASSUME RequestsAssumption == Requests \subseteq Seq(Chunks) \ {<< >>}
ASSUME BoundsAssumption ==
  /\ MaxHash \in Nat \ {0} /\ MaxTimeouts \in Nat \ {0} /\ MaxConns \subseteq Nat

Idx == {1} \cup (UNION {DOMAIN r : r \in Requests})  \* places in a list; 1 is the code's 0

Unfetched == 0   \* fetchState (chunkList.h)
Fetched   == 1
Fetching  == 2

Ready == 0       \* connDown.state (connPool.h)
Downloading == 1
Waiting == 2

VARIABLES
  maxConn,          \* set by init
  idle,             \* is the user listened to?
  getChunk,         \* getChunk.list: the hashes asked for; << >> when nothing is
  fetchState,       \* getChunk.list[].fetchState; it outlives the list
  nonCongestQueue,  \* WHOHAS and IHAVE packets to send, and NULLs
  state, curChunkID, connected, timeoutCount, getQueue, timeoutQueue,  \* downloadPool[]
  numConnDown,
  phase, todo,      \* the place in the iteration; the peers still to visit
  answers,          \* IHAVE packets under way: <<peer, hashes>>
  asked,            \* the peers that were ever sent a GET
  unsent,           \* history: the places whose GET could not be sent
  stray             \* history: DATA completed a chunk on a closed connection

poolVars == <<state, curChunkID, connected, timeoutCount, getQueue, timeoutQueue, numConnDown>>
listVars == <<idle, getChunk, fetchState>>
netVars  == <<answers, asked, unsent, stray>>
vars     == <<maxConn, listVars, nonCongestQueue, poolVars, phase, todo, netVars>>

-----------------------------------------------------------------------------
(* What is in an IHAVE of this peer is read by others only.                 *)
Whohas(hashes) == [type |-> "WHOHAS", hashes |-> hashes]
Ihave == [type |-> "IHAVE", hashes |-> << >>]
Null  == [type |-> "NULL", hashes |-> << >>]

(* The elements of s at the places P, in their order: one sequence.         *)
InOrder(s, P) ==
  LET n == Cardinality(P)
  IN  {[i \in 1..n |-> s[f[i]]] :
         f \in {g \in [1..n -> P] : \A i, j \in 1..n : i < j => g[i] < g[j]}}

(* What newPacketWHOHAS lists, from the list l with the states fs: what is  *)
(* not fetched and not owned, first come first listed, as far as the        *)
(* packets' places go (the packets are taken as one).  The last packet gets *)
(* l's length modulo MaxHash of them: none at all when MaxHash divides it.  *)
Needed(l, fs) == {i \in DOMAIN l : fs[i] # Fetched /\ l[i] \notin HasChunks}

Places(n) == IF n % MaxHash = 0 THEN n - MaxHash ELSE n

Listed(l, fs) ==
  {j \in Needed(l, fs) : Cardinality({k \in Needed(l, fs) : k <= j}) <= Places(Len(l))}

WithWhohas(queue, l, fs) ==
  IF Listed(l, fs) = {} THEN {queue}
  ELSE {Append(queue, Whohas(hashes)) : hashes \in InOrder(l, Listed(l, fs))}

(* searchHash(hash, &getChunk, 0) and searchHash(hash, &getChunk, -1): a    *)
(* hash may be in the list twice.                                           *)
IsUnfetched(h) == \E i \in DOMAIN getChunk : getChunk[i] = h /\ fetchState[i] = Unfetched

IsFirst(i, h) == getChunk[i] = h /\ \A j \in 1..(i - 1) : getChunk[j] # h

Init ==
  /\ maxConn \in MaxConns
  /\ idle = 1 /\ getChunk = << >> /\ fetchState = [i \in Idx |-> Unfetched]
  /\ nonCongestQueue = << >>
  /\ state = [q \in Peers |-> Ready]
  /\ curChunkID = [q \in Peers |-> 1]
  /\ connected = [q \in Peers |-> FALSE]
  /\ timeoutCount = [q \in Peers |-> 0]
  /\ getQueue = [q \in Peers |-> << >>] /\ timeoutQueue = [q \in Peers |-> << >>]
  /\ numConnDown = 0
  /\ phase = "poll" /\ todo = {}
  /\ answers = {} /\ asked = {}
  /\ unsent = {} /\ stray = FALSE

-----------------------------------------------------------------------------
(* The packet of the iteration *)

(* select() had stdin in its set only if idle was 1 when it was called.     *)
Handled == phase = "poll" /\ phase' = IF idle = 1 THEN "input" ELSE "queue"

NoPacket ==
  /\ Handled
  /\ UNCHANGED <<maxConn, listVars, nonCongestQueue, poolVars, todo, netVars>>

(* It is NULL when the peer owns nothing of what is asked, and the NULL is  *)
(* queued like a packet.                                                    *)
NewPacketIHAVE(hashes) == IF hashes \cap HasChunks = {} THEN Null ELSE Ihave

RecvWhohas(hashes) ==
  /\ Handled
  /\ nonCongestQueue' = Append(nonCongestQueue, NewPacketIHAVE(hashes))
  /\ UNCHANGED <<maxConn, listVars, poolVars, todo, netVars>>

(* newPacketGET: a GET for every hash in the packet of which the first place *)
(* in the list is neither fetched nor being fetched.                        *)
NewPacketGET(hashes) ==
  InOrder(hashes, {k \in DOMAIN hashes :
                     \E i \in DOMAIN getChunk :
                       IsFirst(i, hashes[k]) /\ fetchState[i] = Unfetched})

RecvIhave(q, hashes) ==
  /\ Handled
  /\ answers' = answers \ {<<q, hashes>>}
  /\ \E gets \in NewPacketGET(hashes) :
       /\ Len(getQueue[q] \o gets) <= MaxGets
       /\ getQueue' = [getQueue EXCEPT ![q] = @ \o gets]
  /\ idle' = 0
  /\ UNCHANGED <<maxConn, getChunk, fetchState, nonCongestQueue, state, curChunkID, connected,
                 timeoutCount, timeoutQueue, numConnDown, todo, asked, unsent, stray>>

(* DATA that does not complete a chunk restarts the count of expiries.      *)
RecvData(q) ==
  /\ Handled
  /\ q \in asked
  /\ timeoutCount' = [timeoutCount EXCEPT ![q] = 0]
  /\ UNCHANGED <<maxConn, listVars, nonCongestQueue, state, curChunkID, connected, getQueue,
                 timeoutQueue, numConnDown, todo, netVars>>

(* DATA that does: updateGetSingleChunk returns 1, whether the connection   *)
(* is open or not.                                                          *)
EndDownload(q) ==
  /\ state' = [state EXCEPT ![q] = Ready]
  /\ timeoutCount' = [timeoutCount EXCEPT ![q] = 0]
  /\ timeoutQueue' = [timeoutQueue EXCEPT ![q] = << >>]
  /\ connected' = [connected EXCEPT ![q] = FALSE]
  /\ numConnDown' = numConnDown - 1

UpdateGetChunkEarly(fs) ==           \* mutant: what is being fetched counts as fetched
  IF \E i \in DOMAIN getChunk : fs[i] = Unfetched
  THEN fetchState' = fs /\ UNCHANGED <<getChunk, idle>>
  ELSE fetchState' = [i \in Idx |-> Unfetched] /\ getChunk' = << >> /\ idle' = 1

UpdateGetChunk(fs) ==
  IF \E i \in DOMAIN getChunk : fs[i] # Fetched
  THEN fetchState' = fs /\ UNCHANGED <<getChunk, idle>>
  ELSE fetchState' = [i \in Idx |-> Unfetched] /\ getChunk' = << >> /\ idle' = 1

Completed(q) == [fetchState EXCEPT ![curChunkID[q]] = Fetched]

CompleteChunk(q) ==
  /\ Handled
  /\ connected[q] /\ getChunk # << >>
  /\ EndDownload(q)
  /\ UpdateGetChunk(Completed(q))
  /\ UNCHANGED <<maxConn, nonCongestQueue, curChunkID, getQueue, todo, netVars>>

(* The connection was given up, the window and curChunkID reset, and the    *)
(* uploader has sent the whole chunk all the same.                          *)
CompleteStray(q) ==
  /\ Handled
  /\ q \in asked /\ ~connected[q] /\ getChunk # << >>
  /\ ~stray                            \* bound: it happens once
  /\ EndDownload(q)
  /\ UpdateGetChunk(Completed(q))
  /\ stray' = TRUE
  /\ UNCHANGED <<maxConn, nonCongestQueue, curChunkID, getQueue, todo, answers, asked,
                 unsent>>

(* With nothing asked for, "all fetched" holds and fclose gets a NULL.      *)
CompleteNothing(q) ==
  /\ phase = "poll" /\ phase' = "crashed"
  /\ q \in asked /\ getChunk = << >>
  /\ stray' = TRUE
  /\ UNCHANGED <<maxConn, listVars, nonCongestQueue, poolVars, todo, answers, asked, unsent>>

-----------------------------------------------------------------------------
(* The user's line, and flushQueue *)

(* It clears the size of a pointer, and so leaves every fetchState.         *)
FillChunkList(request) == getChunk' = request /\ UNCHANGED fetchState

(* process_get                                                              *)
UserGet(request) ==
  /\ phase = "input" /\ phase' = "queue"
  /\ idle = 1
  /\ FillChunkList(request)
  /\ nonCongestQueue' \in WithWhohas(nonCongestQueue, request, fetchState)
  /\ UNCHANGED <<maxConn, idle, poolVars, todo, netVars>>

InFlush == phase \in {"input", "queue"}

Visiting == phase' = (IF Peers = {} THEN "poll" ELSE "download") /\ todo' = Peers

(* The first dequeue finds nothing, or a NULL: the rest has to wait.        *)
FlushNothing ==
  /\ InFlush /\ Visiting
  /\ nonCongestQueue # << >> => Head(nonCongestQueue) = Null
  /\ nonCongestQueue' = IF nonCongestQueue = << >> THEN << >> ELSE Tail(nonCongestQueue)
  /\ UNCHANGED <<maxConn, listVars, poolVars, netVars>>

NoNulls == \A i \in DOMAIN nonCongestQueue : nonCongestQueue[i] # Null

Owned(q, hashes) == {k \in DOMAIN hashes : hashes[k] \in Owns[q]}

Answers ==
  UNION {{q} \X (InOrder(hashes, Owned(q, hashes)) \ {<< >>}) :
           q \in Peers, hashes \in {nonCongestQueue[i].hashes : i \in DOMAIN nonCongestQueue}}

FlushAll ==
  /\ InFlush /\ Visiting
  /\ nonCongestQueue # << >> /\ NoNulls
  /\ nonCongestQueue' = << >>
  /\ answers' = answers \cup Answers
  /\ UNCHANGED <<maxConn, listVars, poolVars, asked, unsent, stray>>

(* A NULL behind a packet is dereferenced.                                  *)
FlushNull ==
  /\ InFlush /\ phase' = "crashed"
  /\ nonCongestQueue # << >> /\ Head(nonCongestQueue) # Null /\ ~NoNulls
  /\ UNCHANGED <<maxConn, listVars, nonCongestQueue, poolVars, todo, netVars>>

-----------------------------------------------------------------------------
(* flushDownload, at peer q *)

Visit(q) ==
  /\ phase = "download" /\ q \in todo
  /\ todo' = todo \ {q}
  /\ phase' = IF todo' = {} THEN "poll" ELSE "download"

NothingToGet(q) ==
  /\ Visit(q)
  /\ state[q] = Ready
  /\ \A i \in DOMAIN getQueue[q] : ~IsUnfetched(getQueue[q][i])
  /\ getQueue' = [getQueue EXCEPT ![q] = << >>]
  /\ UNCHANGED <<maxConn, listVars, nonCongestQueue, state, curChunkID, connected, timeoutCount,
                 timeoutQueue, numConnDown, netVars>>

(* The k-th GET of the queue is the first with an unfetched place, of which *)
(* i is the first; the GETs before it are freed.                            *)
FirstGetUnchecked(q, k, i) ==        \* mutant: fetchState is not looked at
  /\ k = 1 /\ k \in DOMAIN getQueue[q]
  /\ IsFirst(i, getQueue[q][k])

FirstGet(q, k, i) ==
  /\ k \in DOMAIN getQueue[q]
  /\ \A j \in 1..(k - 1) : ~IsUnfetched(getQueue[q][j])
  /\ getChunk[i] = getQueue[q][k] /\ fetchState[i] = Unfetched
  /\ \A j \in 1..(i - 1) : getChunk[j] = getChunk[i] => fetchState[j] # Unfetched

RestOfGets(q, k) == SubSeq(getQueue[q], k + 1, Len(getQueue[q]))

(* The place that is claimed is i; the one that the data goes to, and that  *)
(* is fetched or given up later, is the first with the hash.                *)
SendGet(q) ==
  /\ Visit(q)
  /\ state[q] = Ready
  /\ numConnDown < maxConn
  /\ \E k \in DOMAIN getQueue[q], i, first \in DOMAIN getChunk :
       /\ FirstGet(q, k, i) /\ IsFirst(first, getChunk[i])
       /\ getQueue' = [getQueue EXCEPT ![q] = RestOfGets(q, k)]
       /\ fetchState' = [fetchState EXCEPT ![i] = Fetching]
       /\ curChunkID' = [curChunkID EXCEPT ![q] = first]
       /\ timeoutQueue' = [timeoutQueue EXCEPT ![q] = Append(@, getChunk[i])]
  /\ connected' = [connected EXCEPT ![q] = TRUE]
  /\ numConnDown' = numConnDown + 1
  /\ state' = [state EXCEPT ![q] = Downloading]
  /\ asked' = asked \cup {q}
  /\ UNCHANGED <<maxConn, idle, getChunk, nonCongestQueue, timeoutCount, answers, unsent,
                 stray>>

CleanUpKeepsTimer(q) ==              \* mutant: the timeoutQueue is not cleared
  /\ state' = [state EXCEPT ![q] = Ready]
  /\ curChunkID' = [curChunkID EXCEPT ![q] = 1]
  /\ connected' = [connected EXCEPT ![q] = FALSE]
  /\ timeoutCount' = [timeoutCount EXCEPT ![q] = 0]
  /\ getQueue' = [getQueue EXCEPT ![q] = << >>]
  /\ UNCHANGED timeoutQueue

(* cleanUpConnDown                                                          *)
CleanUpConnDown(q) ==
  /\ state' = [state EXCEPT ![q] = Ready]
  /\ curChunkID' = [curChunkID EXCEPT ![q] = 1]
  /\ connected' = [connected EXCEPT ![q] = FALSE]
  /\ timeoutCount' = [timeoutCount EXCEPT ![q] = 0]
  /\ getQueue' = [getQueue EXCEPT ![q] = << >>]
  /\ timeoutQueue' = [timeoutQueue EXCEPT ![q] = << >>]

(* sendto fails: searched again, but the chunk stays claimed; the visit of  *)
(* the other peers is left out.                                             *)
SendGetFails(q) ==
  /\ phase = "download" /\ q \in todo /\ phase' = "poll" /\ todo' = {}
  /\ state[q] = Ready
  /\ numConnDown < maxConn
  /\ \E k \in DOMAIN getQueue[q], i \in DOMAIN getChunk :
       /\ FirstGet(q, k, i)
       /\ fetchState' = [fetchState EXCEPT ![i] = Fetching]
       /\ unsent' = unsent \cup {i}
  /\ nonCongestQueue' \in WithWhohas(nonCongestQueue, getChunk, fetchState')
  /\ CleanUpConnDown(q)
  /\ UNCHANGED <<maxConn, idle, getChunk, numConnDown, answers, asked, stray>>

(* All connections are taken: the GET is dropped, and nothing but DATA of   *)
(* an older download takes q out of this state.                             *)
NoConnection(q) ==
  /\ Visit(q)
  /\ state[q] = Ready
  /\ numConnDown >= maxConn
  /\ \E k \in DOMAIN getQueue[q], i \in DOMAIN getChunk :
       /\ FirstGet(q, k, i)
       /\ getQueue' = [getQueue EXCEPT ![q] = RestOfGets(q, k)]
  /\ state' = [state EXCEPT ![q] = Waiting]
  /\ UNCHANGED <<maxConn, listVars, nonCongestQueue, curChunkID, connected, timeoutCount,
                 timeoutQueue, numConnDown, netVars>>

KeepWaiting(q) ==
  /\ Visit(q)
  /\ state[q] # Ready
  /\ UNCHANGED <<maxConn, listVars, nonCongestQueue, poolVars, netVars>>

GetTimeoutUnlimited(q) ==            \* mutant: no test for the third expiry
  /\ Visit(q)
  /\ state[q] = Downloading
  /\ timeoutCount' = [timeoutCount EXCEPT ![q] = @ + 1]
  /\ UNCHANGED <<maxConn, listVars, nonCongestQueue, state, curChunkID, connected, getQueue,
                 timeoutQueue, numConnDown, netVars>>

GetTimeoutGivesBack(q) ==            \* mutant: numConnDown-- on every expiry
  /\ Visit(q)
  /\ state[q] = Downloading
  /\ timeoutCount[q] + 1 # MaxTimeouts
  /\ timeoutCount' = [timeoutCount EXCEPT ![q] = @ + 1]
  /\ numConnDown' = numConnDown - 1
  /\ UNCHANGED <<maxConn, listVars, nonCongestQueue, state, curChunkID, connected, getQueue,
                 timeoutQueue, netVars>>

GetTimeout(q) ==
  /\ Visit(q)
  /\ state[q] = Downloading
  /\ timeoutCount[q] + 1 # MaxTimeouts
  /\ timeoutCount' = [timeoutCount EXCEPT ![q] = @ + 1]
  /\ UNCHANGED <<maxConn, listVars, nonCongestQueue, state, curChunkID, connected, getQueue,
                 timeoutQueue, numConnDown, netVars>>

GiveUpQuietly(q) ==                  \* mutant: newPacketWHOHAS is missing
  /\ Visit(q)
  /\ state[q] = Downloading
  /\ timeoutCount[q] + 1 = MaxTimeouts
  /\ fetchState' = [fetchState EXCEPT ![curChunkID[q]] = Unfetched]
  /\ CleanUpConnDown(q)
  /\ numConnDown' = numConnDown - 1
  /\ UNCHANGED <<maxConn, idle, getChunk, nonCongestQueue, netVars>>

GiveUpLate(q) ==                     \* mutant: cleanUpConnDown before fetchState = 0
  /\ Visit(q)
  /\ state[q] = Downloading
  /\ timeoutCount[q] + 1 = MaxTimeouts
  /\ CleanUpConnDown(q)
  /\ fetchState' = [fetchState EXCEPT ![curChunkID'[q]] = Unfetched]
  /\ nonCongestQueue' \in WithWhohas(nonCongestQueue, getChunk, fetchState')
  /\ numConnDown' = numConnDown - 1
  /\ UNCHANGED <<maxConn, idle, getChunk, netVars>>

(* The last expiry: the chunk is free again and everything not fetched is   *)
(* searched again.                                                          *)
GiveUp(q) ==
  /\ Visit(q)
  /\ state[q] = Downloading
  /\ timeoutCount[q] + 1 = MaxTimeouts
  /\ fetchState' = [fetchState EXCEPT ![curChunkID[q]] = Unfetched]
  /\ nonCongestQueue' \in WithWhohas(nonCongestQueue, getChunk, fetchState')
  /\ CleanUpConnDown(q)
  /\ numConnDown' = numConnDown - 1
  /\ UNCHANGED <<maxConn, idle, getChunk, netVars>>

-----------------------------------------------------------------------------
FlushQueue == FlushNothing \/ FlushAll \/ FlushNull

FlushDownload(q) ==
  \/ NothingToGet(q) \/ SendGet(q) \/ SendGetFails(q) \/ NoConnection(q)
  \/ KeepWaiting(q) \/ GetTimeout(q) \/ GiveUp(q)

Next ==
  \/ NoPacket
  \/ \E hashes \in SUBSET Chunks : RecvWhohas(hashes)
  \/ \E a \in answers : RecvIhave(a[1], a[2])
  \/ \E q \in Peers : RecvData(q) \/ CompleteChunk(q) \/ CompleteStray(q) \/ CompleteNothing(q)
  \/ \E request \in Requests : UserGet(request)
  \/ FlushQueue
  \/ \E q \in Peers : FlushDownload(q)

Spec == Init /\ [][Next]_vars

(***************************************************************************)
(* Fairness: the loop of peer_run does not stop, and the network and the    *)
(* other peers are fair: while IHAVEs of a peer are under way one arrives,   *)
(* and a peer that is asked again and again delivers a chunk in the end.    *)
(* Nothing is assumed of the user, or of the timers.                        *)
(***************************************************************************)
Fairness ==
  /\ WF_vars(NoPacket) /\ WF_vars(FlushQueue)
  /\ \A q \in Peers :
       /\ WF_vars(FlushDownload(q)) /\ SF_vars(CompleteChunk(q))
       /\ SF_vars(\E a \in answers : a[1] = q /\ RecvIhave(q, a[2]))

FairSpec == Spec /\ Fairness

-----------------------------------------------------------------------------
(* Properties *)

PacketType == [type : {"WHOHAS", "IHAVE", "NULL"}, hashes : Seq(Chunks)]

(* The values every variable of the peer may take.                          *)
TypeOK ==
  /\ maxConn \in MaxConns /\ idle \in {0, 1}
  /\ getChunk \in Requests \cup {<< >>}
  /\ fetchState \in [Idx -> {Unfetched, Fetched, Fetching}]
  /\ nonCongestQueue \in Seq(PacketType)
  /\ state \in [Peers -> {Ready, Downloading, Waiting}]
  /\ curChunkID \in [Peers -> Idx]
  /\ connected \in [Peers -> BOOLEAN]
  /\ timeoutCount \in [Peers -> 0..(MaxTimeouts - 1)]
  /\ getQueue \in [Peers -> Seq(Chunks)]
  /\ timeoutQueue \in [Peers -> Seq(Chunks)]
  /\ numConnDown \in Int
  /\ phase \in {"poll", "input", "queue", "download", "crashed"} /\ todo \in SUBSET Peers
  /\ answers \in SUBSET (Peers \X Seq(Chunks)) /\ asked \in SUBSET Peers
  /\ unsent \in SUBSET Idx /\ stray \in BOOLEAN

(* The GET whose timer flushDownload reads without a test for NULL          *)
(* (peer.c:650) is there: state 1, the flag connected and the timeoutQueue   *)
(* go together, whatever completed, expired or failed in between.           *)
TimerHasGet ==
  \A q \in Peers :
    /\ connected[q] <=> state[q] = Downloading
    /\ connected[q] <=> Len(timeoutQueue[q]) = 1
    /\ ~connected[q] => timeoutQueue[q] = << >>

Downloads == {q \in Peers : connected[q]}

(* "Max # of downloads" (bt_parse.c:47): numConnDown, which is counted up   *)
(* and down in three handlers, is the number of connected peers and never   *)
(* above maxConn, as long as no chunk completes on a closed connection.     *)
LimitIsKept == ~stray => numConnDown = Cardinality(Downloads) /\ numConnDown <= maxConn

(* A list that names no chunk twice, which fillChunkList does not check.    *)
NoRepeats == \A i, j \in DOMAIN getChunk : getChunk[i] = getChunk[j] => i = j

(* A chunk is fetched from one peer at a time: every chunk in the state     *)
(* "fetching" is the chunk of exactly one connected peer, of which the GET  *)
(* in the timeoutQueue asks for it; only one whose GET could not be sent    *)
(* is nobody's.  With a hash twice in the list it is not so: the second     *)
(* GET claims the second place and fetches into the first (peer.c:590, 617).*)
ClaimsAreExclusive ==
  ~stray /\ NoRepeats =>
    /\ \A q \in Downloads :
         /\ curChunkID[q] \in DOMAIN getChunk
         /\ timeoutQueue[q] = <<getChunk[curChunkID[q]]>>
         /\ fetchState[curChunkID[q]] = Fetching
         /\ curChunkID[q] \notin unsent
    /\ \A q, r \in Downloads : curChunkID[q] = curChunkID[r] => q = r
    /\ \A i \in Idx : fetchState[i] = Fetching =>
         i \in unsent \/ \E q \in Downloads : curChunkID[q] = i

(* The user is listened to only when nothing is being fetched, so that a    *)
(* new list never replaces one that a download still points into, also with *)
(* a hash twice in the list (which then is never fetched completely, and    *)
(* the user never listened to again).                                       *)
QuietWhenIdle ==
  idle = 1 /\ ~stray => Downloads = {} /\ \A i \in Idx : fetchState[i] = Unfetched

(* What is fetched stays fetched until the whole list is, if no hash is in  *)
(* it twice: giving up the second GET of one unfetches the first.           *)
FetchedStays ==
  [][~stray' /\ NoRepeats => \A i \in Idx :
       fetchState[i] = Fetched => fetchState'[i] = Fetched \/ getChunk' = << >>]_vars

(* The chunks that wait to be fetched and that some peer has.               *)
Wanted ==
  {getChunk[i] : i \in {j \in DOMAIN getChunk :
     fetchState[j] # Fetched /\ getChunk[j] \notin HasChunks
       /\ \E q \in Peers : getChunk[j] \in Owns[q]}}

(* What the code does not recover from: a GET that could not be sent or     *)
(* that found no free connection, DATA of a closed connection, a NULL in    *)
(* flushQueue, a hash twice in the list; and a lost IHAVE, which the        *)
(* fairness excludes.                                                       *)
Untroubled ==
  /\ unsent = {} /\ ~stray /\ phase # "crashed" /\ NoRepeats
  /\ \A q \in Peers : state[q] # Waiting

(* Otherwise every chunk that some peer has is fetched in the end (or the   *)
(* user has asked for others): each download given up is searched again,    *)
(* and no chunk is left in the state "fetching" with nobody fetching it.    *)
EveryChunkIsFetched ==
  []Untroubled => \A c \in Chunks : c \in Wanted ~> c \notin Wanted
=============================================================================
