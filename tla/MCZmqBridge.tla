----------------------------- MODULE MCZmqBridge ----------------------------
(***************************************************************************)
(* ZmqBridge for TLC.  With two bytes to a datagram, the messages are the   *)
(* sizes at which chunkifyDC could go wrong: empty, less than a piece, one  *)
(* piece, a piece and a rest, two pieces.                                   *)
(***************************************************************************)
EXTENDS ZmqBridge

MCMessages == {<< >>, <<1>>, <<2, 1>>, <<1, 2, 3>>, <<3, 1, 2, 1>>}
=============================================================================
