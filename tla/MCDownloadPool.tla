--------------------------- MODULE MCDownloadPool ---------------------------
(***************************************************************************)
(* DownloadPool for TLC: the user asks for two chunks, of which one peer    *)
(* owns both and the other the second, or for the second twice; a third     *)
(* chunk is this peer's own.                                                *)
(***************************************************************************)
EXTENDS DownloadPool, TLC

CONSTANTS p, q, c1, c2, c3

MCPeers == {p, q}
MCChunks == {c1, c2, c3}
MCHas == {c3}
MCOwns == (p :> {c1, c2}) @@ (q :> {c2})
MCRequests == {<<c1, c2>>, <<c2, c2>>}

(* The list with a hash twice is only asked for first and never replaced,   *)
(* so that what is left of one list does not meet the other.                *)
OneKindOfList ==
  getChunk' # getChunk /\ ~(NoRepeats /\ NoRepeats') => getChunk = << >> /\ asked = {}

MCSpec == Init /\ [][Next /\ OneKindOfList]_vars /\ Fairness

(* tests.txt: "Run two clients and check for any segfaults and error".      *)
(* flushQueue reads the destination of every packet it takes off the queue: *)
(* none may be the NULL that stands for "I have none of these".             *)
PacketsAreNotNull ==
  InFlush /\ nonCongestQueue # << >> /\ Head(nonCongestQueue) # Null => NoNulls
=============================================================================
