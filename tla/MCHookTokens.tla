---- MODULE MCHookTokens ----
(* Instances of HookTokens: one or two tmux names, two created ids.  A ring of *)
(* one entry (the code keeps four) can overflow within the tokens minted.      *)
EXTENDS HookTokens, TLC

Symmetry == Permutations(SesId) \cup Permutations(Name)
====
