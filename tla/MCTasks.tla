------------------------------- MODULE MCTasks -------------------------------
(* Tasks for TLC: which closure or upvalue object is which does not matter. *)
EXTENDS Tasks, TLC

Symmetry == Permutations(Closures) \cup Permutations(Upvalues)
=============================================================================
