# Networking projects (CMU 15-441): specification and proofs

The repository holds three C programs, each a single-threaded `select` loop:

* **project 1, Liso**: an HTTP/1.1 server with TLS and CGI (`src/project1`);
* **project 2, routed**: an OSPF-like link-state routing daemon beside a Flask
  server (`src/project2`);
* **project 3, a Bittorrent client** with reliable transfer and congestion
  control over UDP, and a bridge for ZeroMQ sockets (`src/project3`).

This directory is the TLA+ development kept beside them. Modelled and model-checked are:
of project 3 the transfer of a chunk, the downloading and the uploading half of a peer
with several chunks and peers, and the ZeroMQ bridge; of project 2 routing and the
flooding of its link states; of project 1 the life of an HTTP connection. Their safety
properties are proved for every value of the constants.

## Inventory

| component | state | operations | interacts with | what makes it correct |
|---|---|---|---|---|
| congestion control (`congestCtrl.c`) | `mode`, `windowSize`, `ssthresh`, `slowInc` | `expandWindow`, `shrinkWindow` | called on each ACK and loss | the tests for equality never step over the threshold |
| queue, ACK cache (`queue.c`, `sortedPacketCache.c`) | linked lists of packets | `enqueue`, `dequeue`, `mergeAtFront`; `insertInOrder`, `flushCache` | the transfer | order kept by merging; no gap jumped by a flush |
| chunk transfer (`peer.c`, `window.c`, `connPool.c`) | per peer `connUp` (two queues, send window, timeout count) and `connDown` (receive window, cache, ACK queue, state), `numConnUp/Down`, `fetchState` | handlers of DATA and ACK, `flushUpload`, `flushDownload`, timers | the other peer, over UDP | nothing freed before it has arrived; a chunk declared fetched is whole; no stall; uploads end |
| session, downloading half (`peer.c`, `packet.c`, `connPool.c`) | `getChunk` with its `fetchState`s, `idle`, `downloadPool` (GET queue, timer's GET, state, `connected`), `numConnDown`, the WHOHAS/IHAVE queue | WHOHAS and IHAVE handlers, the user's GET, `flushQueue`, `flushDownload`, giving up | all peers, the user, the transfer | a chunk is fetched from one peer at a time, and every chunk in the end; connections are counted; nothing in use is replaced |
| session, uploading half (`peer.c`) | `uploadPool` (two queues, window), `numConnUp` | GET handler, ACKs, `flushUpload`, clean-up | all peers, the transfer | connections are given back; whole chunks in order; no upload without a timer |
| ZeroMQ bridge (`zmqBridge.c`) | one message in pieces, "waiting for ACK" flag | six handlers of one poll loop | publisher, subscriber, UDP | messages published whole, once, in order |
| routing (`OSPF.c`, `routingTable.c`, `LSA.c`, `routingEngine.c`) | LSA list, ackPool, routing table with neighbour states | receive LSA/ACK, flood, cycle timers, neighbour down, Dijkstra | other daemons over UDP, Flask | tables converge; old LSAs never win; shortest paths |
| resources (`resourceTable.c`, `flaskParser.c`) | names of the local objects and their paths, the file they are kept in | `GETRD`, `ADDFILE` | routing, Flask | what is added is announced everywhere; nearest owner answered |
| HTTP connection (`selectEngine.c`, `connHandler.c`, `connObj.c`, `httpParser.c`, `httpResponder.c`) | read and write buffer, parser state, response cursor, `wbStatus`, CGI pipe | read, process, pipe and write handler, in that order per round | clients, CGI programs, files | one response per request, in order; every request answered |

What is hard to test in them (loss, duplication and reordering of datagrams;
timers that race late packets; two hosts restarting; buffers that are exactly
full; connections reused with left-over state) is listed, line by line, under
"hazards" in `PROJECT.json`.

## Modules

| module | stands for |
|---|---|
| `CongestCtrl` | `congestCtrl.c`: operators on the controller's record |
| `PacketQueue` | `queue.c`, `sortedPacketCache.c`: operators on sequences; each C loop that pops while a test holds is the number of its iterations |
| `ReliableTransfer` | abstract specification: packets reach the file in any order; "fetched" and "finished" only when all are there; either side may give up |
| `ChunkTransfer` | the two peers of one transfer, the timers and the network |
| `DownloadPool` | the downloading half of one peer: several chunks, several peers |
| `UploadPool` | the uploading half of one peer: several peers that ask it |
| `Channel` | abstract specification: a FIFO channel that drops empty messages |
| `ZmqBridge` | `zmqBridge.c`: the poll, its six handlers, the cutting of messages |
| `OSPF` | `OSPF.c` and `getRoutingInfo`: Dijkstra's loop, `query`, the choice of an owner |
| `LSAFlood` | `routingTable.c`, `resourceTable.c`, `ADDFILE` and the UDP half of the engine: flooding between several daemons |
| `HttpConn` | one connection of Liso through the round of `selectEngine.c` |
| `MC...` | the instances TLC runs, and what builds their inputs (`MCPacketQueue`: the caches on which the operators are compared with the C loops) |
| `..._proofs` | theorems, for TLAPS |

How they fit together: `ChunkTransfer` EXTENDS `CongestCtrl` and `PacketQueue`, and follows
one chunk between two peers, packet by packet on both sides. `DownloadPool` and
`UploadPool` are the two halves of a peer beside many of them. `DownloadPool` sees of a
transfer what `ReliableTransfer` promises (DATA that completes the chunk, DATA that does
not, or nothing any more), which `ChunkTransfer` is proved to implement; `UploadPool` uses
`PacketQueue` and leaves the congestion control open. Each is the other's environment.
`ZmqBridge` implements `Channel`. `OSPF` computes on the table that `LSAFlood` distributes.

Names are the code's where TLA+ allows it, and each operator or action carries
the lines it stands for under "map" in `PROJECT.json`. Definitions marked
`mutant` are plausible bugs: with each put in the place of what it mutates, the
property listed with it fails, so that no property holds whatever the code does.

### ChunkTransfer and the code

The uploader's `dataQueue`, `ackWaitQueue`, `sw` (`sendWindow`), `upTimeouts`
(`connUp.timeoutCount`) and the downloader's `nextPacketExpected`, `cache`,
`ackSendQueue`, `downTimeouts`, `state` are the fields of `uploadPool[]` and
`downloadPool[]`; `written` is the file. A packet is its sequence number.
`upload` records which of the two places that decrement `numConnUp` ended the
upload first; it is history and guards nothing.

Each peer is one thread. An iteration of `peer_run` handles at most one packet
and then flushes: the variables `upPhase` and `downPhase` say which half comes
next, so the other peer and the network act between the halves, which is all
the interleaving two processes have. An iteration whose `select` timed out can
only matter through a timer and is the timer's action (`DataTimeout`,
`CloseUpload`, `GetTimeout`, `DropDownload`).

* `RecvAck` is `updateACKQueue`, split by its tests (`AckAdvances`,
  `AckRepeats`, `AckIgnored`);
* `RecvData` is `updateGetSingleChunk` (`DataEarly`, `DataInOrder`,
  `DataTooFar`, `DataBehind`) with the clean-up after it in `handlePacket`;
* `FlushUpload`, `DataTimeout`, `CloseUpload` are `flushUpload` without and with an
  expired timer;
* `FlushAcks` is the ACK loop of `flushDownload`, which sends the first queued
  ACK, the second and every other one after it;
* packets under way are sets: delivered at any time, in any order, lost
  (`LosePacket`), or delivered and kept (`MayDuplicate`).

Timers are not clocked: an armed one may expire whenever it runs. Left out:
`spiffy_sendto` failing, the content of packets, and everything the session
does before the GET is accepted and after the chunk has ended, which are in the
next two modules.

### DownloadPool and the code

`phase` is the place in an iteration of `peer_run`: `poll` (one packet, or a second without
one), `input` (a line of the user, if `idle` was 1 when `select` was called), `queue`
(`flushQueue`), `download` (`flushDownload` visits every peer; `todo` are those it has
not visited). `getChunk` is the list of hashes, `fetchState` the states beside it, which
are kept apart because `fillChunkList` replaces the list and clears only the first eight
bytes of it; the other variables are the fields of `downloadPool[]`.

* `RecvWhohas`, `RecvIhave`, `RecvData`, `CompleteChunk` are branches of `handlePacket`.
  `CompleteStray` and `CompleteNothing` are `CompleteChunk` on a connection that is closed:
  the uploader sends a chunk that was given up all the same, while another list is
  asked for, or none (`fclose` of a NULL: the process ends);
* `NewPacketIHAVE` and `NewPacketGET` are the packets that are made of a packet;
  `WithWhohas` is `newPacketWHOHAS`, with the number of hashes it puts into the last one
  (`Places`);
* `FlushNothing`, `FlushAll`, `FlushNull` are `flushQueue`, by what is queued: nothing or
  a NULL first, packets only, a NULL behind a packet (dereferenced, the process ends);
* the user's list is a sequence, in which a hash may be twice: `IsUnfetched` and `IsFirst` are
  the two ways `searchHash` is called. A GET claims the first *unfetched* place with its hash
  (peer.c:590) and fetches into the *first* place with it (617);
* `NothingToGet`, `SendGet`, `SendGetFails`, `NoConnection`, `KeepWaiting`, `GetTimeout`,
  `GiveUp` are `flushDownload` at one peer. `CleanUpConnDown` is `cleanUpConnDown`. The
  order of the visits is the code's loop over the IDs; here any order.

The other peers answer a WHOHAS with what they own, late or never (`answers` is a set: equal
answers are one). `asked` are those that were ever sent a GET: their DATA may
come at any time. `unsent` and `stray` record what the code does not recover from;
properties say what holds until then. Left out: the ACKs and the cache (ChunkTransfer),
`sendto` failing for anything but a GET, and that a WHOHAS of more than `MaxHash` hashes is
several packets, of which some may be answered and others lost.

### UploadPool and the code

`phase` is `poll` (one packet) or `upload` (`flushUpload` visits every peer). The
queues, the window and `timeoutCount` are the fields of `uploadPool[]`.

* `GetDenied`, `GetRefused`, `GetAccepted`, `GetUnknown` are the GET handler: the connections
  are used up; counted and then refused, since this peer downloads from the one that asks;
  accepted; accepted for a hash that `masterChunk` does not have, so that it is counted, what
  waits is given up and nothing is queued (packet.c:197-199). The first two free the packet, and `handlePacket` frees it again at its
  end (`FreedTwice`: the process goes on, or the allocator stops it);
* `AckAdvances`, `AckFinishes`, `AckIgnored`, `AckRetransmits` are `updateACKQueue`. An ACK
  may be of anything that was ever sent to that peer, however late; the window
  it opens has any size from 2 to `MaxWindow` (`expandWindow` comes first, `CongestCtrl`
  says by how much);
* `Send`, `DataTimeout`, `CloseUpload` are `flushUpload` at one peer;
* `DownloadOpens`, `DownloadGivesUp`, `DownloadCompletes` are the downloading half at the same
  peer. When it completes a chunk, `initWindows` moves the window of the *upload* to that peer
  back to the start, too (peer.c:334): packets sent beyond it that a timeout puts back
  (517) are then not sent again, nothing waits for an ACK, and no timer is left.

`on` are the peers with an upload (a GET accepted that was not finished or closed),
`jumped` those whose GET found packets of the chunk before in the `dataQueue` (or asked for an
unknown chunk while one was on), `reset` those whose window a completed download moved back
and no new ACK has moved on since, `leaked` and
`early` whether a connection was counted that nothing gives back, or one given back for an
upload that had not ended. They are history and guard nothing but a bound (`early` happens
once).

### ZmqBridge and the code

`revents` is what `zmq_poll` reported and has not been handled: `Poll` takes a
snapshot (at least one item, `Ready` for each is the `events` that `startBridge`
sets and the state of the socket), and the six handlers run in the order of the
loop, each on what the earlier ones left. A message is a sequence of bytes;
`Pieces` are the `dataPacket`s that `chunkifyDC` makes of it. Both UDP sockets are
on the loopback interface with at most one datagram each, so they lose nothing, and
`zmq_send` is taken to succeed.

### OSPF and the code

An iteration of `doOSPF` is `Iterate`; `Finish` is the end of its loop, `Query` walks
back along `previous`, and `Answer` is the choice that `getRoutingInfo` makes of the
owners. The inputs are every matrix that `setMatrixConnected` can build, every order of
IDs, every root. `new_u` is read before it is written when nothing but the root can be
reached: it starts as any number, and one that is no index (`NumNodes`) leads out of the
arrays (`LeaveArray`, where undefined behaviour begins and the model stops). The
stale `idx2` of `setMatrixConnected` (a link to a node that is not listed) was
followed by hand: it connects a node to itself or repeats the link before it, which
changes no path.

### LSAFlood and the code

Several daemons, each one thread: `distance`, `lastLSA` and `ackPool` are the
fields of their `routingEntry`s, `list` is `LSAList`, `net` the datagrams under way. A
round of `listenSocket` reads at most one datagram, advertises, looks at the
timers and writes; since only datagrams connect the daemons, the parts are actions.

* `Receive` is `updateRoutingTableFromLSA`, one action per branch; any LSA is
  acknowledged first (`Updates`);
* `NewAdvertisement` is `newAdvertisement` as each round calls it; `InsertLocalResource` is
  `ADDFILE`: the object is inserted, the file written, an advertisement triggered;
* `tRes` is the resource table. `flaskADDResponse` frees the name that the table keeps, so
  the name of an object added since the start may read right or as anything (`freed`,
  `Names`) whenever an LSA or the file is filled with it; a restart loads the file
  (`LoadResourceTable`). `objs` of an LSA are the names that read right;
* a daemon without an object and with a neighbour dies at its first advertisement: `newLSA` leaves
  `listObj` NULL (LSA.c:48), `LSAfromLSA` hands it to `copyList` (LSA.c:144), which reads
  through it (linkedList.c:30). Such a daemon does nothing (`IsDead`); the scenario says which
  names each file holds at the start (`resFile`);
* `Retransmit` and `NeighborDown` are
  the two branches of `checkNeighborDown`. Time stamps are left out: the LSAs that
  are due are the first ones of a pool, since they were appended in order;
* `compareLSA` is 1 for what is equal, and `checkNeighborDown` compares with 0: an LSA
  or ACK that *differs* is taken off the list (`RemovedFrom`);
* an LSA in the list and its copy in the `ackPool` are one object. When an ACK or
  `checkNeighborDown` frees it before it is written, `Write` reads freed memory: the
  LSA is sent as it was, or not at all (`Freed`);
* `Lose` drops a datagram, or is a `sendto` that would block; `Restart` is a daemon killed and started again by hand, which
  takes longer than one of its datagrams is under way.

Equal datagrams under way are one: a loss loses all copies. Left out: `expireOldLSA` (sets
a mark that only `getRoutingInfo` reads), packets that are no LSA, a line of the file that
cannot be parsed (from a name that was freed: the daemon then crashes when it
advertises; no scenario restarts a daemon after a second ADDFILE, which would write such a
line), and a `sendto` that fails for good (it closes the daemon's UDP socket). After one
that would block the rest of the list is written in the next round; in the model it is written
with the LSA that is lost, and may take as long to arrive.

Seen in the model and not stated as a property: after one lost ACK a daemon
retransmits the LSA for ever, because each retransmission puts a copy of its own into
the pool and each ACK takes out only one; and a neighbour that was found down and
restarts is known to be up only by an LSA with a *lower* number, so when the
stored number is 0 it stays down (equal numbers are ignored).

### HttpConn and the code

`phase` is the place in a round: `select`, then for the connection `read`, `process`
(with `parse` and `respond`), `pipe`, `write`, `remove`. `ready` is what `select`
reported, and is *not* looked at again when a handler has changed the
connection, as in `handlePool`. A byte stands for a line of text, for CR, LF or content.
`readBuffer` keeps the bytes behind what was received (an earlier request's, or
`junk` where memory was never written), because `nextToken` looks one byte too
far. A byte of a response carries the number of the response and how many bytes
follow, so that order and completeness can be told. The CGI program prints into a
pipe of `PipeSize`, and blocks when it is full. A POST may be for a file or a program
(`IsPost`).

SIGPIPE is neither ignored nor caught (daemonize.c:53-55), and kills the *whole server*
(`SigPipe`, `phase = "killed"`): in the `send` to a client that has left (connHandler.c:158),
also when the read handler has closed the connection in the same round and `handlePool`
calls the write handler all the same; and in the write of a request's content to a program
that has ended without reading it (httpResponder.c:121). The send may also fail with an error
(a connection that is reset shows ECONNRESET first), which closes the one connection.

Left out: TLS (the handshake, and records that `SSL_read` holds back), `read` failing on
a pipe, `execve` failing in the child, `accept` and the table of connections (other
connections show as rounds in which nothing of this one is ready), content that is longer
than the pipe to a program (the server then waits until the program reads), and one kind of
request: a POST with Content-Length 0 whose header ends the buffer stays in
state `content` and is not answered before something else arrives.

## Runs

| run | instance | shows |
|---|---|---|
| `transfer_safety` | 4 packets, first window 1, threshold 2, early distance 2, retransmit after 2 repeated ACKs, close after 2 timeouts | type, the invariants below, refinement of `ReliableTransfer` |
| `transfer_live` | 4 packets, first window 2, no duplicates | `UploadEnds` under fairness |
| `packet_queue` | numbers up to 6, caches up to 5 entries | the operators of `PacketQueue` are the C loops (`OperatorsAreLoops`) |
| `download_pool` | 2 peers, a list of 2 chunks that one peer has and of which the other has one, or one of these chunks twice; 1 or 2 connections, 2 expiries, GET queues up to 2 | `TimerHasGet`, `LimitIsKept`, `ClaimsAreExclusive`, `QuietWhenIdle`, `FetchedStays`, and under fairness `EveryChunkIsFetched` |
| `null_packet` | the same, 1 connection | *violated*: no crash with two clients (tests.txt:5) |
| `upload_pool` | 2 peers (up to their exchange), 6 packets, first window 4, later 2 or 3, 1 or 2 connections, 2 timeouts | `LimitIsKept`, `CountIsExact`, `NoStall`, `WholeChunksFollow` |
| `bridge` | 4 messages of 0 to 4 bytes, 2 bytes to a piece | `LockStep`, `ReportsAreRight`; it is a `Channel` (`Implements`); everything is published |
| `ospf` | every graph of 4 nodes, order of IDs, root, owners, first `new_u` | `LocallyShortest`, `QueriesAreShortest`, `NearestOwner` |
| `lsa_flood` | 3 daemons, `InitTTL` 2, 10 scenarios | `FloodIsReliable`, `AgreedWhenQuiet`, `OlderNeverWins`, `TablesConverge`, `CatchesUp` |
| `http_conn` | 13 clients, buffers of 4 bytes, responses of 4 and 5, pipe of 2 | `ResponsesInOrder`, `CloseIsEarned`, `NothingIsLeft`, `AllAnswered`, `ClosedIsRemoved` |
| `http_split` | one client, the same request twice | *violated*: a well-formed request is served (readme.txt:41) |
| `http_leaves` | a program, and the client leaves | *violated*: a closed connection is removed (readme.txt:35) |

**Transfer.** `QueuesAreTheRest` (the two queues are the rest of the chunk, in order),
`AckedIsWritten` (what is freed or acknowledged has arrived), `NoStall` (an upload that is
on has an armed timer), `CongestionOK`; the action property `FetchedEmptiesCache`; and
`Implements`. The real constants are 354 packets (the code's
`BT_CHUNK_SIZE / PACKET_DATA_SIZE + 1`), a first window of 7, threshold and early distance
64 (`INIT_THRESH`), retransmit after 3 repeated ACKs, close after 3 timeouts.
Four packets leave room for a packet sent, one early, one too far ahead and one not sent;
two repeated ACKs and two timeouts are the smallest numbers that tell a counter from a flag.
`MaxCache` bounds the copies of an early packet in the cache and `DupWindow` the
window up to which the network duplicates (each ACK widens the window, so copies of ACKs
without end make it grow without end). The safety properties are proved for every value of the
constants.

**Downloads.** Two peers that have one chunk in common are the least with a chunk that both
are asked for, a chunk that only one has, and a list in which one is fetched while the
other is claimed; one connection makes a peer find none free, two make none. With a
list of two and at most three hashes to a packet, `Places` cuts nothing off; that it
does when 74 divides the length of the list is listed as a hazard. `MaxGets` bounds what
late IHAVEs pile up. `LimitIsKept` and the two after it hold until DATA completes a chunk on
a closed connection (`stray`): from then on `numConnDown` is one too low, for ever.
`ClaimsAreExclusive` excepts the chunk whose GET could not be sent: `fetchState` stays
2, the WHOHAS that follows lists it, and the IHAVE that answers is ignored.
A list with a hash twice is checked like the others: `TimerHasGet`, `LimitIsKept` and
`QuietWhenIdle` hold with it. `ClaimsAreExclusive`, `FetchedStays` and `EveryChunkIsFetched` say
openly that they are for lists without one (`NoRepeats`): two GETs may fetch into the same
place, giving one up unfetches what the other has brought, and the second place stays claimed, so
that the list is never done. To keep the instance small, a list with a repeat is only the
first one asked for and is not replaced (`OneKindOfList` in `MCDownloadPool`); the theorems
have no such restriction.

**Uploads.** With a first window of 4 of 6 packets, something is sent, waits, and is
behind the window at once, which a GET that jumps its queue needs; the real window of 7 of 354
is the same case. Two peers share one connection or take two. `CountIsExact` holds until a GET is
counted that nothing gives back, or a final ACK is so late that the next upload to that peer
is on: the code takes it for that one's, gives its connection back and resets its
window, so that the rest of its chunk is sent without being counted (peer.c:278). A GET that is
counted and not given back is one that is refused, one that repeats a GET still being served,
or one for an unknown chunk. `NoStall` excepts the two ways in which a window moves back behind what was
sent (`jumped`, `reset`), and the second only until an ACK moves it on. The peers are
interchangeable and all properties are invariants, so TLC keeps one state of each pair.

**Bridge.** `ReportsAreRight`: what `zmq_poll` reported still holds when the handler runs
(`ReportStillHolds`), and it waits only when all is published (`SleepsWhenDone`). The messages are the sizes at which the cutting can go wrong: empty, less
than a piece, one piece, a piece and a rest, two pieces. Four of them are one under
way, one queued on each side, and one to come.

**Shortest paths.** Four nodes are the least with two ways of the same length to a
third, and something that is not reached.

**Flooding.** A line (the middle has to pass LSAs on) and a ring (LSAs meet their own
copies), with: a start, also with one daemon that has no object, dies of it and is found down; an advertisement with a datagram lost; an object added while a cycle
ends; a neighbour found down by timeout while it is alive, with and without a loss, and
while an object is added; restarts at the end of the line, in its middle, and in the ring, two
of them while others advertise or add an object. A scenario
begins at a start or in a settled network (tables agree, nothing under way). `InitTTL` is 2
instead of 32: the least with which three daemons reach each other, so that a TTL that is
counted wrongly cuts the line. (In a line of four, `InitTTL + 2` daemons, the last one is not
reached: TLC finds `AgreedWhenQuiet` without its bound violated there.) `maxPool` bounds
what is retransmitted although nothing was lost. Not covered: a daemon killed, found down and
restarted in one behaviour, and two losses together with a restart, which are too large.
`TablesConverge` is for behaviours without restart and neighbour found down, in which no
daemon dies for want of an object (`NoneIsDead`; tests.txt:8 asks for no segfault, but only of
what it tests); `CatchesUp` for those in which no neighbour is found down after the restart, nor
a daemon dead. Neither says that a living neighbour is not announced down: the code may do it
after any restart or late ACK (routingTable.c:606). It is about these
scenarios: a daemon that reads an old LSA of its own before it has advertised anything takes it over
with the TTL it came with, and with 1 left does not pass it on (`RecvNew`), so that it may stay behind
(TLC finds it in a ring of three with `InitTTL` 3 and two advertisements on their way at the restart;
the real 32 needs a way of 30 hops).
`FloodIsReliable` (what a daemon knows, its neighbours know or it still has in their pool) excepts
what the code does not flood: an LSA with its last hop behind it (TTL 1), and anything about or
from a node that is found down or was told to be: its pools are then given up.
`AgreedWhenQuiet` (when nobody waits any more for an ACK of a daemon's last LSA, all that are
connected to it agree on its links and objects) is the safety half of `TablesConverge`: what
is left to liveness is that pools get empty.

**HTTP.** Requests that are pipelined, carry content, start programs, are wrong, are
too long, or are followed by the end of the connection, cut into packets in every
way. With a buffer of four bytes and responses of four and five, a response just fills
the buffer or exceeds it by one; programs print nothing, less than a buffer, more than a
buffer, and more than a pipe. A program that prints nothing has an answer without a byte, so
`ResponsesInOrder` lets its number be skipped (`Follows`), and `Answered` takes a later answer
for its own; both hold in the code because nothing else can be skipped.
`AllAnswered` holds with three exceptions, which are in its statement and which the
clients of the run reach: an earlier answer ended the connection; the server was killed by a
program that does not read its content; and a program whose output fills the buffer of a
kept-alive connection, which is never sent (`OutputIsStuck`: `wbStatus` is still `doneRes`, so
`select` does not watch for writing, connObj.c:150). `ClosedIsRemoved` holds unless the server
is killed. Left out of `http_conn` are two kinds of clients for which they fail otherwise: one that leaves while a program prints more
than the pipe holds (`http_leaves`), and one whose POST has Content-Length 0 and a header that
ends the buffer.

**Deadlock** is checked for `packet_queue` only: in the others nothing is left to do
when the transfer, the connection or the bounded input is over. That nothing waits
for ever before that is what the liveness properties and `NoStall` say.

**Fairness.**
`transfer_live`: `peer_run` never stops and `select` waits a second at most, so a
flush follows each handler and an armed timer is found expired (weak fairness of the
flushes and of the DATA timer). The network is fair-lossy: a DATA packet that is sent again
and again is received, and so is some ACK when ACKs are sent again and again (strong
fairness). `KeptSpec` restricts the check to transfers that the downloader does not
drop, and in which none of the packets 1 to `MaxAhead + 1` arrives when the chunk is
complete; in both cases the downloader stands at the start of the chunk again, answers
with ACK 0, and each such ACK restarts the uploader's count of timeouts (peer.c:262), so it
need not end. That is listed as a hazard (peer.c:345); what the stray packets do to the
downloader is in `DownloadPool`.
`download_pool`: `peer_run` goes round (weak fairness of a round without a packet, of
`flushQueue` and of each visit), a peer whose IHAVE is under way again and again is heard (strong
fairness, for each peer), and a peer that is asked again
and again delivers the chunk in the end (strong fairness). Nothing is assumed of the user
or of the timers. `EveryChunkIsFetched` is for behaviours in which nothing happens that the
code does not recover from (`Untroubled`).
`bridge`: the loop runs on while anything can be handled (weak fairness of `Next`).
`lsa_flood`: `select` returns every two seconds and each round writes what it can (weak
fairness of `Write`, of the first advertisement and of `Retransmit`), and a datagram that is
not lost arrives (weak fairness of `Receive`).
`http_conn`: a round ends (weak fairness of the handlers); what stays ready is reported in
the end and a socket takes what is sent in the end (strong fairness); a program prints
when its pipe has room (weak fairness). A client that stays sends all its bytes.

## Proofs

**`ChunkTransfer_proofs`**, for every chunk size, window, threshold and bound
allowed by `TransferAssumption` and `InitThreshAssumption`:

* `TypeCorrect`: `Spec => []TypeOK`;
* `AckedIsWrittenHolds`, `QueuesAreTheRestHolds`, `NoStallHolds`, `CongestionOKHolds`;
* `FetchedEmptiesCacheHolds`, an action property;
* `TransferImplementsReliableTransfer`: `Spec => Implements`.

The argument is one inductive invariant, `IInv`: the four invariants and
`TypeOK`, with three facts that they need.

* `WindowIsOpen`: what keeps `NoStall`. When the window's edge moves back, the next
  packet to send is still inside it, because the edge is past the last ACK that
  advanced and the queues are the rest of the chunk behind it;
* `CountedIsWritten`: everything below `nextPacketExpected`, and every cached
  number, is in the file. It is what makes an ACK safe when it is sent;
* `DownloadIsOn`: `state`, `fetchState` and the expected number agree, which the
  refinement needs for the step that drops the download.

`IInv` without its last part was checked by TLC on the instance of `transfer_safety`
before it was proved. `NextIInv` has a step for each action. The lemmas below it are about the
operators: `FlushCacheHasNoGap` (what `flushCache` calls contiguous is), `MergeKeepsOrder`,
`SendWindowKeepsOrder`, `CtrlSteps` (both steps of the controller keep
`CtrlOK`). The refinement mapping is `received <- written`; the other two variables
have the same names on both levels.

**`PacketQueue_proofs`** holds the lemmas on queues that `ChunkTransfer_proofs` and
`UploadPool_proofs` share, and two theorems for every cache, sorted or not:
`InsertsBehindIsItsLoop` and `FlushCacheIsItsLoop` say that the operators which describe the
result of `insertInOrder` and `flushCache` without a loop are what the loops compute
(`Scan`, `FlushLoop`). The run `packet_queue` checks the same of small caches (`OperatorsAreLoops`). The theorems
about transfers rest on these operators. The loops are recursive functions, and a proof about one has three parts: a function that satisfies
its equation exists (`LoopExists`), so the function that the definition chooses satisfies
it, too (`NewExpectedUnfolded`, `ScanUnfolded`), and what it computes follows by induction,
which is derived from the well-foundedness of < (`InductionUpTo`), because the library's induction
theorems take an operator as a parameter.

**`ZmqBridge_proofs`**, for messages and pieces of any size: `BridgeTypeCorrect`,
`LockStepHolds`, `ReportsAreRightHolds`, `BridgeIsChannel`. `TypeOK`, `LockStep` and `ReportStillHolds` are inductive
together: `LockStep` says where the one piece or ACK is, from which it follows that no handler
empties what a later one of the round was called for, and that every ACK finds the piece it
is for. The refinement adds `InOrder`: what was published, the message in transit and what is
still queued are, without the empty ones, what was read, in its order. The message in
transit is put together from its pieces (`Partials`): those that have arrived, that are under way
and that are still queued are the pieces of one message from first to last. So a step that moves a
piece stutters on `Channel`, and the one that completes a message is its `Receive`.
`SleepsWhenDone`, the second half of `ReportsAreRight`, follows from both (`NothingReady`): when
nothing is ready no queue holds anything, and an ACK that is waited for would be in one; so
what was read is what is published. It is the safety half of `AllPublished`.

**`OSPF_proofs`**, for any number of nodes: `OSPFTypeCorrect`, `LocallyShortestHolds`,
`QueriesAreShortestHolds`, `NearestOwnerHolds`. The loop invariant `LoopInv`: nodes are removed
in the order of their distance (`RemovedFirst`), the edges of removed nodes are relaxed
(`EdgesRelaxed`), what is found and not removed is at most one hop behind
(`OneHopApart`, `NextIsNearest`), `previous` is the best of the removed neighbours
(`PreviousIsBest`), and as many iterations are left as nodes (`EnoughIterations`, over
the cardinality of the removed nodes). That the distances are lengths of *shortest* paths is an
induction along a path: `Within[k]`, the nodes that k steps reach, are those at distance k at
most, and the walk over `previous` that `query` makes ends at a neighbour of the root. Both are
recursive functions, unfolded as above (`WithinUnfolded`, `WalkUnfolded`).

**`DownloadPool_proofs`**, for any peers, chunks, lists and limits: `DownloadTypeCorrect`,
`TimerHasGetHolds`, `ClaimsAreExclusiveHolds`, `QuietWhenIdleHolds`, `DownloadLimitIsKept`,
`FetchedStaysHolds`. `TimerHasGet` is inductive with `TypeOK`. The others follow from `ClaimInv`,
which adds two facts: a chunk whose GET could not be sent is claimed for good
(`UnsentIsClaimed`), and while the user is listened to no GET is left over from the list
before (`QueuesAreDrained`): it would be found at the next visit, with a list in which it
may mean another chunk. Lists may name a hash twice, so `ClaimInv` has two layers: for any list, that
downloads stand at the first place with their hash, and only such places are fetched (`Firsts`), so that a list with a repeat is never completed and `idle` stays 0
(`FirstsHaveNoRepeats`, `FirstsCompleteChunk`); and, for a list without a repeat, that claims
are exclusive. That the limit is kept is counted over `Downloads`, with a
lemma on a connection more and one on a connection less.

**`UploadPool_proofs`**, for any peers, chunk size, windows and limits: `UploadTypeCorrect`,
`WholeChunksFollowHolds`, `CountIsExactHolds`, `LimitIsKeptHolds`, `NoStallHolds`. The lemma they share is
`WaitsStep`: what a step does to `Waits(q)`, the packets sent and those to be sent in one sequence.
It stays, loses some at the front, gets a whole chunk behind what is not sent, or is
emptied. `WholeChunksFollow` is inductive by itself. `CountInv` adds that a peer with an
upload has the rest of one chunk in its queues and one without has nothing, so that what
ends an upload ends one that is on. `LimitInv` counts ends of chunks
instead of uploads: every chunk in a peer's queues, also those of a GET that came while another
was served, ends once in them (`ChunkEnds`), each accepted GET adds one end and takes one
connection, and each connection that is given back takes an end away; a peer with packets under
way has an end, so there are no more such peers than `numConnUp`. `StallInv` says of an upload that is on that its rest begins
within the window, and that its turn is still to come when nothing waits for an ACK; of one
whose window a download has moved back (`reset`), that the next ACK that advances brings it
within the window again.

**`LSAFlood_proofs`**, for any network and scenario: `FloodTypeCorrect`,
`OlderNeverWinsHolds` (an action property: no step replaces a stored LSA by an older one),
`FloodIsReliableHolds` and `AgreedWhenQuietHolds`. `FloodIsReliable` needs `FloodInv`, which is about what is under way: an LSA in a
pool, a list or a datagram was known to the node that sends it and to the node it is about
(`LSAOK`), an ACK speaks the truth about the node that sent it (`PacketOK`), a configured neighbour is
at distance 1 until it is found down (`DistancesOK`), and what is stored is such an LSA
(`StoredOK`). So an ACK takes out of a pool only what its sender knows, and an LSA that is
ignored as old is known already. `PoolStep` says what each action may take out of a pool;
`StillReliable` follows for what is known before the step, `NewIsReliable` for what the step stores.

`AgreedWhenQuiet` adds `SpreadOK`, for behaviours without a restart or a neighbour found down.
First, nobody makes up an LSA: what is stored, queued or under way is what its sender
announced, the same links and objects when the sender is still at that number (`Announced`).
Second, TTL and spread make up for each other: the TTL of what is queued or under way
and the number of daemons that know it (`Knowers`) are together more than `InitTTL` (`Fresh`), and more than
`InitTTL + 1` for what a daemon other than the sender has stored. A hop takes one from the TTL
and adds one to the knowers, which is the count in `StoresFresh`; all other steps
only let knowers grow (`KnowersGrow`). So a daemon whose stored LSA has TTL 1, which
it does not flood, is one of `InitTTL + 1` that know it, which are all; and one with a
higher TTL has, by `FloodIsReliable`, neighbours that know it once the pools are empty. Either way the
knowers are closed under links and contain all that are connected (`KnowersAreClosed`).
The cardinalities need a finite network (`FiniteNetwork`).

**`HttpConn_proofs`**, for any clients, buffers, pipes and sizes of responses:
`TypeCorrect`, `NothingIsLeftHolds`, `CloseIsEarnedHolds`, `ResponsesInOrderHolds`. The type
invariant (`TypeInv`) adds to `TypeOK` what the parser relies on: what is parsed lies within what
was read, and content is counted only against a length that was given. The other three rest on
`ConnInv`, which reads the state of the response off the last byte that has gone into the write
buffer: while a file's response is under way, that byte is of it and as many bytes follow as are
left (`FileResponse`); a program's is either not begun, and the response before is complete, or
as many bytes follow as the program has still to print or the pipe still holds
(`ProgramResponse`); without a response the last one is complete, did not end the connection, and
nothing of it is left in `writeBuffer`, `CGIout` or `wbStatus` (`NoResponse`). `Chain` is the lemma
on sequences that both kinds share: bytes that follow those of the one before, or their own,
keep the order of the whole output. `NothingIsLeft` adds to `CleanBetween` that the server waits for
nothing but the client only when all it has received is answered (`SleepsWhenDone`), the safety half of
`AllAnswered`. It needs `WatchInv`: a program is watched until its end is seen, and a request that is
parsed has a response. (A program whose output fills the buffer of a kept-alive connection
is watched, too, and yet nothing moves: that `select` reports something does not mean that
a handler can use it, which is what `AllAnswered` is for.)

Assumptions on constants are those that TLC evaluates in the runs. `FiniteNetwork` says that the
daemons are finitely many. Three say only that a model
value is none of the values it is told from: `BridgeAssumption`, `FloodAssumption` (`NULL` is no LSA) and
`HttpAssumption` (`NULL` is no response), as NULL is no pointer to one in the code.

Only model-checked:

* liveness (`UploadEnds`, `EveryChunkIsFetched`, `AllPublished`, `TablesConverge`,
  `CatchesUp`, `AllAnswered`, `ClosedIsRemoved`): fairness and ENABLED are beyond the prover.

Every other property that the passing runs check is a theorem: by its name, or, for
`OperatorsAreLoops` of `packet_queue`, as the two theorems about the operators that it compares. TLC shows
besides that their hypotheses are met: the interesting states are reached, and each property
fails with a bug put in.

No module with theorems reaches a RECURSIVE operator, which the prover cannot use.

## Findings

* `src/project3/tests.txt:5` has two clients run without a segfault; the NULL that
  `newPacketIHAVE` answers when there is nothing to offer is queued like a packet, and
  dereferenced when a packet lies before it (`null_packet`).
* `src/project1/readme.txt:41` says a line is parsed up to its CR LF; `nextToken` looks behind
  what was received, and with a request that is cut between the two a stale LF ends the line:
  400 BAD REQUEST (`http_split`).
* `src/project1/readme.txt:35` says a closed socket is removed; the server waits for the
  program before it closes its pipe, and both wait for ever (`http_leaves`).

Other places where the code is not what a document says. They are in the models, and no run
is kept for them:

* `src/project3/readme.txt:26` says the cached ACKs are sent; `flushDownload` (peer.c:579)
  dequeues twice for each ACK it sends, and drops the third, the fifth, ...
  (`FlushAcks`).
* `src/project3/readme.txt:35` allows one direction between two hosts at a time; the handler of a
  GET tests it (209), the sending of one (594) does not (`DownloadOpens` at any time).
* `src/project2/readme.txt:15` says the resource table stores my file information; `ADDFILE`
  frees the name it has just stored (flaskParser.c:68), and the next advertisement may list
  anything in its place (`Names`).
* `routingTable.c:146` says that a daemon which hears its own LSA after a restart does not flood; that
  branch is for a higher number only, and one that has not advertised yet takes the LSA
  for a new one, floods it, and keeps its TTL for its next ones (`RecvNew`).
* `OSPF.h:36` says the distance becomes INF where there is no route; `query` stores -1, and an
  owner that cannot be reached is taken for the nearest (`NearestOwner` says what is answered
  all the same).
* `src/project1/readme.txt:34` says a socket whose buffer is not empty is watched for
  writing; on a kept-alive connection the output of a program is not, because `wbStatus` is
  still that of the response before (connObj.c:150; `OutputIsStuck`).
* `src/project2/tests.txt:8` has daemons run without a segfault; one whose resource file is empty
  segfaults at its first advertisement (LSA.c:144; `IsDead`).

Also seen, and contradicting no document: an IHAVE that comes when the list is fetched sets `idle`
to 0, and the user is not listened to until another list ends, which needs the user; a
GET that finds no free connection leaves its peer in state 2, out of which only a stray
chunk leads; a list with a hash twice is never done; a GET for an unknown chunk takes a connection for good; a
chunk completed from a peer may stall the upload to it; a client that leaves may kill the
server by SIGPIPE; and the late final ACK described under **Uploads**.

## Plan

Done: `ChunkTransfer` with its refinement, `DownloadPool`, `UploadPool`, `ZmqBridge`, `OSPF`,
`LSAFlood`, `HttpConn`, in this order of importance for each project. What would come next:

1. proofs: what is left to the safety properties is how components fit: that the peer
   `DownloadPool` sees keeps to `ReliableTransfer`, and an abstract specification of a response
   stream that `HttpConn` implements. Of the liveness properties, `TablesConverge`, `AllPublished` and
   `AllAnswered` have a proved safety half (`AgreedWhenQuiet`, and `SleepsWhenDone` twice); `CatchesUp` has
   none, since it fails with TTLs that are used up;
2. models: the expiry of LSAs and a restart of the node that added an object in `LSAFlood`; two
   connections of Liso, for descriptor numbers that are used again in one round
   (selectEngine.c:118).

## Not modelled

* Bytes and text: SHA-1 and the chunk-file tools, parsing of configuration and input, HTTP
  header text, the formats of packets and LSAs, debugging output and logging.
* The operating system: TLS, daemonisation, files, `accept` and the table of connections; `sendto`
  failing for anything but a GET (a DATA packet or an ACK is then put back out of order, a
  WHOHAS freed after it was queued, peer.c:534, 575, 700).
* What the cache of one chunk leaves behind for the next on the same connection
  (`cleanUpConnDown` does not empty it): two chunks packet by packet are too large for TLC.
* Code without protocol state: the Flask server, the demo programs, the network simulator,
  linked lists (sequences here), and of `flaskParser.c` and `resourceTable.c` the parsing
  and the local search.
