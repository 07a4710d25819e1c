------------------------------- MODULE DeviceTold -------------------------------
(***************************************************************************)
(* What the commands that write a device say of it, of three that share no *)
(* state: the plan of a provision and the row it leaves, the read-back of  *)
(* what was written, and the sync of the peers.                            *)
(***************************************************************************)
EXTENDS DevicePlan, Readback, PeerSync

(* What a command says of the device it wrote is so: nothing is left to do *)
(* and the row is true, a confirmed field is held, and a quiet sync left   *)
(* the fleet pinned.                                                       *)
DeviceIsAsTold == PlanIsRight /\ ReadbackIsTrue /\ PeersAreSynced
=============================================================================
