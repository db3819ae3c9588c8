---------------------------- MODULE MCPaneStream ----------------------------
(* Instances of PaneStream: one viewer is enough, since viewers do not meet. *)
EXTENDS PaneStream, TLC

Symmetry == Permutations(Backend) \cup Permutations(Op)
=============================================================================
