----------------------------- MODULE MailSyncMC -----------------------------
(* Constants of the instances of MailSync that TLC checks. *)
EXTENDS MailSync, TLC

CONSTANTS r1, r2

MCRefOf == <<r1, r2>>
=============================================================================
