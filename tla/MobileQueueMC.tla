--------------------------- MODULE MobileQueueMC ---------------------------
(* Instances of MobileQueue: model values are enough. *)
EXTENDS MobileQueue, TLC
=============================================================================
