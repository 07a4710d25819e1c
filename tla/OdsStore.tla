------------------------------- MODULE OdsStore -------------------------------
(***************************************************************************)
(* The ODS database file and the commands that write it: sessions opened   *)
(* with open_database(for_write=True) or (must_exist=False) in             *)
(* cli/common.py, OdsDatabase in db/ods.py, `mesh db restore`, `mesh db    *)
(* backup` (cli/db_cmd.py), the cross-process lock in db/locking.py and    *)
(* atomic_write in db/atomic_writer.py.  A spreadsheet program (LibreOffice *)
(* in the docs; external) opens and saves the same file without the lock.  *)
(*                                                                         *)
(* A file's content is the set of edits it carries.  A version of the file *)
(* has an identity (device, inode, mtime, size) of its own.  Loading and   *)
(* replacing are single steps: the read is of one open file, the write is  *)
(* one os.replace.  Backups are not pruned here.                           *)
(***************************************************************************)
EXTENDS Naturals, FiniteSets

CONSTANTS
  Procs,           \* mesh commands, each run any number of times
  MaxEdits,        \* bounds the edits mesh commands make
  MaxOutsideSaves, \* bounds the saves of the other program
  MaxRestores,     \* bounds the restores
  MaxFaults,       \* bounds kills and failed writes
  None             \* no holder

ASSUME BoundsAssumption ==
  /\ MaxEdits \in Nat /\ MaxOutsideSaves \in Nat
  /\ MaxRestores \in Nat /\ MaxFaults \in Nat
ASSUME ProcsAssumption == None \notin Procs \X {"save", "restore"}

MeshEdits    == {"mesh"} \X (1..MaxEdits)
OutsideEdits == {"outside"} \X (1..MaxOutsideSaves)
Edits        == MeshEdits \cup OutsideEdits
Contents     == SUBSET Edits
Files        == [present : BOOLEAN, content : Contents, version : Nat]

VARIABLES
  (* On disk. *)
  file,       \* the database
  backups,    \* contents of the timestamped backups
  lock,       \* <<process, purpose>> holding the flock, or None
  (* Each command. *)
  pc, purpose,
  view,       \* the file as the session last observed it
  mem,        \* the session's rows; for a restore, the backup's
  (* The other program. *)
  opened,     \* content it has open
  outside,    \* it wrote the file since the last check of a save
  (* Bookkeeping. *)
  made, outsideSaves, restores, faults,
  everSaved,  \* edits that were on the file at some time
  dropped,    \* edits a save of the other program removed from it
  unseen      \* its edits saved between a command's backup and its replace

diskVars    == <<file, backups>>
sessionVars == <<pc, purpose, view, mem, lock>>
outsideVars == <<opened, outside>>
counters    == <<made, outsideSaves, restores, faults>>
history     == <<everSaved, dropped, unseen>>
vars == <<diskVars, sessionVars, outsideVars, counters, history>>

NoFile == [present |-> FALSE, content |-> {}, version |-> 0]

Init ==
  /\ file \in [present : BOOLEAN, content : {{}}, version : {0}]
  /\ backups = {} /\ lock = None
  /\ pc = [p \in Procs |-> "idle"] /\ purpose = [p \in Procs |-> "save"]
  /\ view = [p \in Procs |-> NoFile] /\ mem = [p \in Procs |-> {}]
  /\ opened = {} /\ outside = FALSE
  /\ made = 0 /\ outsideSaves = 0 /\ restores = 0 /\ faults = 0
  /\ everSaved = {} /\ dropped = {} /\ unseen = {}

Fault == faults < MaxFaults /\ faults' = faults + 1

Goto(p, label) == pc' = [pc EXCEPT ![p] = label]

(* The command ends: what it had in memory is gone. *)
EndProcess(p) ==
  /\ Goto(p, "idle") /\ purpose' = [purpose EXCEPT ![p] = "save"]
  /\ view' = [view EXCEPT ![p] = NoFile] /\ mem' = [mem EXCEPT ![p] = {}]

(* A new version of the file: other identity, whatever the content. *)
Written(content) == [present |-> TRUE, content |-> content, version |-> file.version + 1]

-----------------------------------------------------------------------------
(* The lock: polled until it is free or the deadline passes, released by   *)
(* the end of the process however it comes.                                *)

OpenForWrite(p) ==
  /\ pc[p] = "idle"
  /\ Goto(p, "locking")
  /\ UNCHANGED <<diskVars, purpose, lock, view, mem, outsideVars, counters, history>>

(* db_restore: the backup is named, and the prompt answered, before the lock. *)
StartRestore(p) ==
  /\ pc[p] = "idle" /\ restores < MaxRestores
  /\ restores' = restores + 1
  /\ \E content \in backups : mem' = [mem EXCEPT ![p] = content]
  /\ Goto(p, "locking") /\ purpose' = [purpose EXCEPT ![p] = "restore"]
  /\ UNCHANGED <<diskVars, lock, view, outsideVars, made, outsideSaves, faults,
                 history>>

Unlocked == TRUE
LockFree == lock = None

Lock(p) ==
  /\ pc[p] = "locking" /\ LockFree
  /\ lock' = <<p, purpose[p]>>
  /\ Goto(p, IF purpose[p] = "restore" THEN "restoring" ELSE "locked")
  /\ UNCHANGED <<diskVars, purpose, view, mem, outsideVars, counters, history>>

(* DatabaseLockedError, once the deadline has passed. *)
LockTimesOut(p) ==
  /\ pc[p] = "locking" /\ lock # None
  /\ EndProcess(p)
  /\ UNCHANGED <<diskVars, lock, outsideVars, counters, history>>

Close(p) ==
  /\ pc[p] \in {"locked", "loaded", "edited", "closing"}
  /\ EndProcess(p) /\ lock' = None
  /\ UNCHANGED <<diskVars, outsideVars, counters, history>>

-----------------------------------------------------------------------------
(* A session: create when missing, load, change rows, save. *)

(* create_empty: only with must_exist=False, and only under the lock. *)
CreateEmpty(p) ==
  /\ pc[p] = "locked" /\ ~file.present
  /\ file' = Written({})
  /\ UNCHANGED <<backups, sessionVars, outsideVars, counters, history>>

Load(p) ==
  /\ pc[p] = "locked" /\ file.present
  /\ view' = [view EXCEPT ![p] = file] /\ mem' = [mem EXCEPT ![p] = file.content]
  /\ Goto(p, "loaded")
  /\ UNCHANGED <<diskVars, purpose, lock, outsideVars, counters, history>>

Edit(p) ==
  /\ pc[p] = "loaded" /\ made < MaxEdits
  /\ made' = made + 1
  /\ mem' = [mem EXCEPT ![p] = @ \cup {<<"mesh", made'>>}]
  /\ Goto(p, "edited")
  /\ UNCHANGED <<diskVars, purpose, view, lock, outsideVars, outsideSaves,
                 restores, faults, history>>

(* _check_not_concurrently_modified: the identity, else the content hash.  *)
AnyVersion(p) == TRUE
SameVersion(p) ==
  /\ file.present
  /\ file.version = view[p].version \/ file.content = view[p].content

CheckUnmodified(p) ==
  /\ pc[p] = "edited"
  /\ IF SameVersion(p) THEN Goto(p, "checked") /\ outside' = FALSE
                       ELSE Goto(p, "closing") /\ UNCHANGED outside
  /\ UNCHANGED <<diskVars, purpose, view, mem, lock, opened, counters, history>>

(* atomic_write: a backup of the current file, then the replace. *)
NextStep(p) == IF pc[p] = "checked" THEN "backedUp" ELSE "restoreBackedUp"

SkipBackup(p) ==
  /\ pc[p] \in {"checked", "restoring"}
  /\ Goto(p, NextStep(p))
  /\ UNCHANGED <<diskVars, purpose, view, mem, lock, outsideVars, counters, history>>

CreateBackup(p) ==
  /\ pc[p] \in {"checked", "restoring"}
  /\ backups' = (IF file.present THEN backups \cup {file.content} ELSE backups)
  /\ Goto(p, NextStep(p))
  /\ UNCHANGED <<file, purpose, view, mem, lock, outsideVars, counters, history>>

(* What a later save of the session is checked against is what this one wrote. *)
Replace(p) ==
  /\ pc[p] \in {"backedUp", "restoreBackedUp"}
  /\ file' = Written(mem[p])
  /\ view' = [view EXCEPT ![p] = file']
  /\ everSaved' = everSaved \cup mem[p]
  /\ Goto(p, IF pc[p] = "backedUp" THEN "loaded" ELSE "closing")
  /\ UNCHANGED <<backups, purpose, mem, lock, outsideVars, counters, dropped, unseen>>

(* AtomicWriteError before the replace: the file is untouched. *)
SaveFails(p) ==
  /\ pc[p] \in {"checked", "backedUp", "restoring", "restoreBackedUp"} /\ Fault
  /\ Goto(p, "closing")
  /\ UNCHANGED <<diskVars, purpose, view, mem, lock, outsideVars, made,
                 outsideSaves, restores, history>>

(* A kill anywhere: the operating system drops the flock. *)
Kill(p) ==
  /\ pc[p] # "idle" /\ Fault
  /\ EndProcess(p)
  /\ lock' = (IF lock = <<p, purpose[p]>> THEN None ELSE lock)
  /\ UNCHANGED <<diskVars, outsideVars, made,
                 outsideSaves, restores, history>>

(* mesh db backup takes no lock. *)
DbBackup ==
  /\ file.present /\ file.content \notin backups
  /\ backups' = backups \cup {file.content}
  /\ UNCHANGED <<file, sessionVars, outsideVars, counters, history>>

-----------------------------------------------------------------------------
(* The other program opens the file, and saves what it has open, with or   *)
(* without an edit of its own, whatever happened to the file since.        *)

OutsideOpen ==
  /\ file.present /\ opened # file.content /\ outsideSaves < MaxOutsideSaves
  /\ opened' = file.content
  /\ UNCHANGED <<diskVars, sessionVars, outside, counters, history>>

OutsideSave ==
  /\ file.present /\ outsideSaves < MaxOutsideSaves
  /\ outsideSaves' = outsideSaves + 1
  /\ LET edit == <<"outside", outsideSaves'>> IN
     \E own \in {{}, {edit}} :
       /\ file' = Written(opened \cup own) /\ opened' = opened \cup own
       /\ everSaved' = everSaved \cup own
       /\ dropped' = dropped \cup (file.content \ (opened \cup own))
       /\ unseen' = (IF \E p \in Procs : pc[p] \in {"backedUp", "restoreBackedUp"}
                     THEN unseen \cup opened \cup own ELSE unseen)
  /\ outside' = TRUE
  /\ UNCHANGED <<backups, sessionVars, made, restores, faults>>

-----------------------------------------------------------------------------
Waiting(p) == Lock(p) \/ LockTimesOut(p)

Session(p) ==
  \/ OpenForWrite(p) \/ StartRestore(p) \/ Waiting(p) \/ Close(p)
  \/ CreateEmpty(p) \/ Load(p) \/ Edit(p)
  \/ CheckUnmodified(p) \/ CreateBackup(p) \/ Replace(p)
  \/ SaveFails(p) \/ Kill(p)

Next == (\E p \in Procs : Session(p)) \/ DbBackup \/ OutsideOpen \/ OutsideSave

Spec == Init /\ [][Next]_vars

-----------------------------------------------------------------------------
Labels == {"idle", "locking", "locked", "loaded", "edited", "checked", "backedUp",
           "restoring", "restoreBackedUp", "closing"}

TypeOK ==
  /\ file \in Files /\ backups \subseteq Contents
  /\ lock \in {None} \cup (Procs \X {"save", "restore"})
  /\ pc \in [Procs -> Labels] /\ purpose \in [Procs -> {"save", "restore"}]
  /\ view \in [Procs -> Files] /\ mem \in [Procs -> Contents]
  /\ opened \in Contents /\ outside \in BOOLEAN
  /\ made \in 0..MaxEdits /\ outsideSaves \in 0..MaxOutsideSaves
  /\ restores \in 0..MaxRestores /\ faults \in 0..MaxFaults
  /\ file.content \cup opened \cup (UNION backups) \subseteq everSaved
  /\ everSaved \in Contents /\ dropped \in Contents /\ unseen \in Contents

(* A command past the lock holds it, and no other command does. *)
Holding(p) == pc[p] \notin {"idle", "locking"}
LockHeld == \A p \in Procs : Holding(p) => lock = <<p, purpose[p]>>

(* A save that passed its check, and that no other program overtook, holds *)
(* everything the file does: this is what makes the save an addition.      *)
CheckedIsCurrent ==
  \A p \in Procs : pc[p] \in {"checked", "backedUp"} /\ ~outside =>
    file.present /\ file.content \subseteq mem[p]

(* Whatever was ever saved is on the file or in a backup: only a save of   *)
(* the other program loses edits, its own included when it falls between a *)
(* command's backup and its replace (save()'s docstring: the check "only   *)
(* narrows that race window to milliseconds; it does not close it").       *)
Recoverable ==
  everSaved \subseteq file.content \cup (UNION backups) \cup dropped \cup unseen

(* Mesh commands never undo one another's saves. *)
Shared == INSTANCE SharedFile WITH content <- file.content, owner <- lock
KeepsSharedFile == Shared!Spec
=============================================================================
