-------------------------- MODULE ReliableTransfer --------------------------
(***************************************************************************)
(* What the transfer of one chunk promises, with no windows, queues, ACKs   *)
(* or network: packets reach the file of the downloading peer in any order; *)
(* the chunk is declared fetched, and the upload finished, only when every  *)
(* packet is there; either side may give up instead.                        *)
(***************************************************************************)
EXTENDS Naturals

CONSTANT NumPkt

Packets == 1..NumPkt

Unfetched == 0               \* the values of fetchState (chunkList.h)
Fetched   == 1
Fetching  == 2

VARIABLES received,          \* the packets that have reached the file
          fetchState,        \* the downloading peer's view of the chunk
          upload             \* "sending", "finished" or "closed"

vars == <<received, fetchState, upload>>

TypeOK ==
  /\ received \in SUBSET Packets
  /\ fetchState \in {Unfetched, Fetched, Fetching}
  /\ upload \in {"sending", "finished", "closed"}

Init == received = {} /\ fetchState = Fetching /\ upload = "sending"

(* Packets arrive, even after the download was given up.                    *)
Arrive ==
  /\ received' \in SUBSET Packets
  /\ received \subseteq received'
  /\ \/ UNCHANGED fetchState
     \/ received' = Packets /\ fetchState' = Fetched
  /\ UNCHANGED upload

GiveUpDownload ==
  /\ fetchState = Fetching
  /\ fetchState' = Unfetched
  /\ UNCHANGED <<received, upload>>

FinishUpload ==
  /\ upload = "sending"
  /\ received = Packets
  /\ upload' = "finished"
  /\ UNCHANGED <<received, fetchState>>

GiveUpUpload ==
  /\ upload = "sending"
  /\ upload' = "closed"
  /\ UNCHANGED <<received, fetchState>>

Next == Arrive \/ GiveUpDownload \/ FinishUpload \/ GiveUpUpload

Spec == Init /\ [][Next]_vars
=============================================================================
