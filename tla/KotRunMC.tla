------------------------------ MODULE KotRunMC ------------------------------
(* Instances of KotRun: model values are enough. *)
EXTENDS KotRun, TLC

Alike == Permutations(Orders) \cup Permutations(RunClicks)
=============================================================================
