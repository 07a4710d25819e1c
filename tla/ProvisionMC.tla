------------------------------ MODULE ProvisionMC -----------------------------
(* Provision on two devices, or one. *)
EXTENDS Provision, TLC

CONSTANTS d1, d2, b1, b2, b3

TwoDevices == (d1 :> b1) @@ (d2 :> b2)
=============================================================================
