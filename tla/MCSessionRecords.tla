-------------------------- MODULE MCSessionRecords ---------------------------
(* SessionRecords on a small instance.                                     *)
EXTENDS SessionRecords, TLC
Symmetry == Permutations(Name) \cup Permutations(Request)
=============================================================================
