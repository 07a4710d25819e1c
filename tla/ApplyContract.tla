---------------------------- MODULE ApplyContract ----------------------------
(***************************************************************************)
(* What a caller of apply_plan may rely on about the keypair it passed: an *)
(* outcome that does not count security as attempted means the key never   *)
(* left the host, and only an outcome the device was read back for - it    *)
(* then holds the key - carries a record for the database.  Once the call  *)
(* has ended the device no longer changes.                                 *)
(***************************************************************************)

VARIABLES
  regenerates,  \* the plan writes a new keypair
  phase,        \* running, unsent, uncertain, recorded, raised
  exposed,      \* the security section left the host
  holds         \* the device holds the new keypair

cvars == <<regenerates, phase, exposed, holds>>

Init == /\ regenerates \in BOOLEAN
        /\ phase = "running" /\ exposed = FALSE /\ holds = FALSE

Send == /\ phase = "running" /\ exposed' = TRUE
        /\ holds' \in {holds, regenerates}
        /\ UNCHANGED <<regenerates, phase>>

End(p) ==
  /\ phase = "running" /\ phase' = p
  /\ p = "unsent" => ~exposed
  /\ p = "uncertain" => exposed
  /\ p = "recorded" => regenerates = holds
  /\ UNCHANGED <<regenerates, exposed, holds>>

Next == Send \/ \E p \in {"unsent", "uncertain", "recorded", "raised"} : End(p)

Spec == Init /\ [][Next]_cvars
=============================================================================
