---------------------------- MODULE MCUploadPool ----------------------------
(***************************************************************************)
(* UploadPool for TLC: two peers that ask for chunks.  Nothing tells them   *)
(* apart, and all the properties are invariants, so one order of the two is *)
(* enough.                                                                  *)
(***************************************************************************)
EXTENDS UploadPool, TLC

CONSTANTS p, q

MCPeers == {p, q}
MCSymmetry == Permutations(MCPeers)
=============================================================================
