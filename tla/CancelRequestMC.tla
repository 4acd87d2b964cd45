-------------------------- MODULE CancelRequestMC --------------------------
(* Constants of the instances of CancelRequest that TLC checks. *)
EXTENDS CancelRequest, TLC

CONSTANTS o1, manager, caller, admin

MCRoleOf == manager :> "STORE_MANAGER" @@ caller :> "TELECALLER" @@ admin :> "ADMIN"
MCOverrideTargets == {"PREPARED", "ON_HOLD"}
=============================================================================
