----------------------------- MODULE MCNonceClock ----------------------------
(* Instances of NonceClock for TLC.                                         *)
EXTENDS NonceClock, TLC
Symmetric == Permutations(Calls)
=============================================================================
