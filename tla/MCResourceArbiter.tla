-------------------------- MODULE MCResourceArbiter --------------------------
(* Instances of ResourceArbiter for TLC.                                   *)
EXTENDS ResourceArbiter, TLC

Symmetry == Permutations(Thread) \cup Permutations(Resource)
=============================================================================
