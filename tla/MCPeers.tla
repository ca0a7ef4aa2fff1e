------------------------------ MODULE MCPeers ------------------------------
(* Instances of Peers for TLC.  A temporal property is checked, so there   *)
(* is no symmetry.                                                         *)
EXTENDS Peers, TLC
=============================================================================
