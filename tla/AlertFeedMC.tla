---------------------------- MODULE AlertFeedMC ----------------------------
(* Instances of AlertFeed: model values are enough. *)
EXTENDS AlertFeed, TLC
=============================================================================
