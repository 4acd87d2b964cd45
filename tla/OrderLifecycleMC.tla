-------------------------- MODULE OrderLifecycleMC --------------------------
(* Small instances of OrderLifecycle for TLC. *)
EXTENDS OrderLifecycle, TLC

CONSTANTS r1, r2, k1, k2, zoop

\* r1 carries for one outlet, r2 for both.
Attached == (r1 :> {k1}) @@ (r2 :> {k1, k2})
OneOutlet == [r \in Riders |-> {k1}]

FromZoop == [o \in Orders |-> zoop]
=============================================================================
