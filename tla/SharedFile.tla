------------------------------ MODULE SharedFile ------------------------------
(***************************************************************************)
(* What mesh commands promise each other about the database file: one at a *)
(* time owns it, a save only ever adds to what the file holds - unless     *)
(* another program wrote the file after the owner last looked at it - and  *)
(* nothing but a restore replaces its content outright.                    *)
(***************************************************************************)
CONSTANTS Procs, Edits, None

VARIABLES
  content,  \* the edits the file holds
  owner,    \* <<process, purpose>> of the command that owns the file, or None
  outside   \* another program wrote it since the owner last looked

svars == <<content, owner, outside>>

Purposes == {"save", "restore"}

Init == content \in SUBSET Edits /\ owner = None /\ outside \in BOOLEAN

Begin == /\ owner = None
         /\ owner' \in Procs \X Purposes
         /\ UNCHANGED <<content, outside>>

Look == /\ owner \in Procs \X {"save"}
        /\ outside' = FALSE
        /\ UNCHANGED <<content, owner>>

Commit == /\ owner \in Procs \X {"save"}
          /\ content' \in SUBSET Edits
          /\ outside \/ content \subseteq content'
          /\ UNCHANGED <<owner, outside>>

Restore == /\ owner \in Procs \X {"restore"}
           /\ content' \in SUBSET Edits
           /\ UNCHANGED <<owner, outside>>

End == owner' = None /\ UNCHANGED <<content, outside>>

OutsideWrite == /\ content' \in SUBSET Edits
                /\ outside' = TRUE
                /\ UNCHANGED owner

Next == Begin \/ Look \/ Commit \/ Restore \/ End \/ OutsideWrite

Spec == Init /\ [][Next]_svars
=============================================================================
