-------------------------- MODULE TrainStatusCacheMC --------------------------
(* Instances of TrainStatusCache: model values are enough. *)
EXTENDS TrainStatusCache, TLC
=============================================================================
