------------------------------- MODULE CopiesMC -------------------------------
(***************************************************************************)
(* The two safety copies of the database, each in behaviours of its own:   *)
(* the timestamped backups, and the known-good copy with its sidecar.      *)
(***************************************************************************)
EXTENDS Backups, KnownGood

VARIABLE part

copiesVars == <<part, vars, copyVars>>

PartInit ==
  /\ part \in {"backups", "known good"} /\ Init /\ CopyInit
  /\ part = "backups" => copy = Absent

PartNext ==
  /\ part' = part
  /\ \/ part = "backups" /\ Next /\ UNCHANGED copyVars
     \/ part = "known good" /\ CopyNext /\ UNCHANGED vars

(* CopyFairSpec's fairness, for the behaviours that are about the copy;    *)
(* the backups need none.                                                  *)
CopyPart(A) == part = "known good" /\ A

PartSpec ==
  /\ PartInit /\ [][PartNext]_copiesVars
  /\ \A p \in Commands : /\ WF_copyVars(CopyPart(Refresh(p)))
                         /\ WF_copyVars(CopyPart(GiveUp(p)))
                         /\ SF_copyVars(CopyPart(Load(p)))

(* The copy catches up with the database (Heals, refresh_known_good).      *)
CopyHeals == part = "known good" => Heals
=============================================================================
