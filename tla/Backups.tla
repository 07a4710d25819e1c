-------------------------------- MODULE Backups --------------------------------
(***************************************************************************)
(* Timestamped backups (db/backups.py): a save backs up the database under *)
(* the cross-process lock before it replaces it (module OdsStore), `mesh   *)
(* db backup` takes no lock.  Each chooses a name past the newest backup,  *)
(* copies the file, claims the name, and prunes to the retention, all in   *)
(* steps others fall between.  The clock may stand anywhere: it is read    *)
(* once a backup and may have been set back since the last one.            *)
(*                                                                         *)
(* The database's content is the number of times it was replaced, which    *)
(* also stands for its mtime; other programs that write it are left to     *)
(* OdsStore.  A listing of the directory is one step.  Temporary files are *)
(* no backups - their names do not match - and are left out.               *)
(***************************************************************************)
EXTENDS Naturals, FiniteSets

CONSTANTS
  Procs,       \* mesh commands, each run any number of times
  Retention,   \* backups to keep, 0 to keep all
  Clock,       \* times the system clock may show
  MaxSaves,    \* bounds the saves
  MaxBackups,  \* bounds the backups created
  MaxFaults,   \* bounds kills, failed copies and failed deletions
  None         \* no holder of the lock, no backup of one's own

ASSUME BoundsAssumption ==
  /\ Retention \in Nat /\ Clock \subseteq Nat
  /\ MaxSaves \in Nat /\ MaxBackups \in Nat /\ MaxFaults \in Nat
ASSUME NoneAssumption == None \notin Procs

(* BackupInfo: the timestamp and collision suffix of the name, the copied  *)
(* content; and, for the record, the how-manieth to be claimed it is and   *)
(* how many were claimed when its name was chosen.                         *)
Backup == [when : Nat, suffix : Nat, content : Nat, nth : Nat, begun : Nat]

VARIABLES
  target,   \* the database's content, 0 before its first save
  dir,      \* the backup directory
  lock,     \* the save holding the database lock, or None
  pc,       \* the step of each command
  draft,    \* the backup each command is making
  mine,     \* the backup it claimed a name for, or None
  doomed,   \* the backups its prune has yet to delete
  claimed,  \* how many backups were ever claimed
  faults

vars == <<target, dir, lock, pc, draft, mine, doomed, claimed, faults>>

NoDraft == [when |-> 0, suffix |-> 0, content |-> 0, nth |-> 0, begun |-> 0]

Init ==
  /\ target = 0 /\ dir = {} /\ lock = None /\ claimed = 0 /\ faults = 0
  /\ pc = [p \in Procs |-> "idle"] /\ draft = [p \in Procs |-> NoDraft]
  /\ mine = [p \in Procs |-> None] /\ doomed = [p \in Procs |-> {}]

Fault == faults < MaxFaults /\ faults' = faults + 1
Goto(p, label) == pc' = [pc EXCEPT ![p] = label]

(* create_backup returns or raises: a save goes on to the replace, or not. *)
Leave(p, label) ==
  /\ Goto(p, label)
  /\ draft' = [draft EXCEPT ![p] = NoDraft]
  /\ mine' = [mine EXCEPT ![p] = None] /\ doomed' = [doomed EXCEPT ![p] = {}]

Return(p) ==
  IF lock = p THEN Leave(p, "replacing") /\ UNCHANGED lock
              ELSE Leave(p, "idle") /\ UNCHANGED lock

End(p) == Leave(p, "idle") /\ lock' = (IF lock = p THEN None ELSE lock)

-----------------------------------------------------------------------------
InFlight   == {p \in Procs : pc[p] \in {"naming", "copying", "copied"}}
MayBackUp  == claimed + Cardinality(InFlight) < MaxBackups

(* A first save has nothing to back up. *)
StartSave(p) ==
  /\ pc[p] = "idle" /\ lock = None /\ target < MaxSaves
  /\ target # 0 => MayBackUp
  /\ lock' = p
  /\ Goto(p, IF target = 0 THEN "replacing" ELSE "naming")
  /\ UNCHANGED <<target, dir, draft, mine, doomed, claimed, faults>>

DbBackup(p) ==
  /\ pc[p] = "idle" /\ target # 0 /\ MayBackUp
  /\ Goto(p, "naming")
  /\ UNCHANGED <<target, dir, lock, draft, mine, doomed, claimed, faults>>

(* _monotonic_backup_time: the clock, unless some backup is not older. *)
ClockTimes(now) == {now}
NextTimes(now)  ==
  IF \A b \in dir : b.when < now THEN {now}
  ELSE {b.when + 1 : b \in {c \in dir : \A d \in dir : d.when <= c.when}}

ChooseName(p) ==
  /\ pc[p] = "naming"
  /\ \E now \in Clock : \E when \in NextTimes(now) :
       draft' = [draft EXCEPT ![p] = [when |-> when, suffix |-> 0, content |-> 0,
                                      nth |-> 0, begun |-> claimed]]
  /\ Goto(p, "copying")
  /\ UNCHANGED <<target, dir, lock, mine, doomed, claimed, faults>>

(* shutil.copy2 into a temporary file: of the one file it opened. *)
Copy(p) ==
  /\ pc[p] = "copying"
  /\ draft' = [draft EXCEPT ![p] = [when |-> draft[p].when, suffix |-> 0,
                                    content |-> target, nth |-> 0,
                                    begun |-> draft[p].begun]]
  /\ Goto(p, "copied")
  /\ UNCHANGED <<target, dir, lock, mine, doomed, claimed, faults>>

(* The directory knows a backup by its name: one that was pruned leaves its *)
(* name to the next, and a deletion is of whatever then has it.            *)
SameName(b, c) == b.when = c.when /\ b.suffix = c.suffix
IsMine(p, b)   == SameName(b, mine[p])
MineIsThere(p) == \E b \in dir : IsMine(p, b)

(* _claim_backup_path: linked into the first free name, never over one. *)
Taken(when, n)     == \E b \in dir : b.when = when /\ b.suffix = n

Claim(p) ==
  /\ pc[p] = "copied"
  /\ \E n \in 0..MaxBackups :
       /\ ~Taken(draft[p].when, n)
       /\ \A m \in 0..MaxBackups : m < n => Taken(draft[p].when, m)
       /\ mine' = [mine EXCEPT ![p] =
                     [when |-> draft[p].when, suffix |-> n, content |-> draft[p].content,
                      nth |-> claimed + 1, begun |-> draft[p].begun]]
  /\ dir' = dir \cup {mine'[p]} /\ claimed' = claimed + 1
  /\ Goto(p, "claimed")
  /\ UNCHANGED <<target, lock, draft, doomed, faults>>

(* destination.stat() fails, with no AtomicWriteError, if another's prune  *)
(* was faster.                                                             *)
Stat(p) ==
  /\ pc[p] = "claimed"
  /\ IF MineIsThere(p)
     THEN Goto(p, "listing") /\ UNCHANGED <<lock, draft, mine, doomed>>
     ELSE End(p)
  /\ UNCHANGED <<target, dir, claimed, faults>>

-----------------------------------------------------------------------------
(* prune_backups *)

(* _backup_sort_key *)
Later(b, c) == b.when > c.when \/ (b.when = c.when /\ b.content > c.content)

NewestFirst(gone, kept) == \A b \in gone, c \in kept : ~Later(c, b)
OldestFirst(gone, kept) == \A b \in gone, c \in kept : ~Later(b, c)

(* keep counts towards the retention. *)
OneMore(p)   == Retention
Survivors(p) == IF MineIsThere(p) THEN Retention - 1 ELSE Retention

Others(p) == {b \in dir : ~IsMine(p, b)}

(* The survivors: one's own and the newest others; ties fall either way. *)
ListForPrune(p) ==
  /\ pc[p] = "listing"
  /\ IF Retention = 0 THEN Return(p)
     ELSE /\ \E gone \in SUBSET Others(p) :
               LET kept == Others(p) \ gone IN
               /\ Cardinality(kept) <= Survivors(p)
               /\ gone # {} => Cardinality(kept) = Survivors(p)
               /\ OldestFirst(gone, kept)
               /\ doomed' = [doomed EXCEPT ![p] = gone]
          /\ Goto(p, "pruning")
          /\ UNCHANGED <<lock, draft, mine>>
  /\ UNCHANGED <<target, dir, claimed, faults>>

(* The newest of the doomed goes first; one already gone is passed over. *)
Delete(p) ==
  /\ pc[p] = "pruning"
  /\ \E b \in doomed[p] :
       /\ \A c \in doomed[p] : ~Later(c, b)
       /\ dir' = {c \in dir : ~SameName(b, c)} /\ doomed' = [doomed EXCEPT ![p] = @ \ {b}]
  /\ UNCHANGED <<target, lock, pc, draft, mine, claimed, faults>>

Pruned(p) ==
  /\ pc[p] = "pruning" /\ doomed[p] = {}
  /\ Return(p)
  /\ UNCHANGED <<target, dir, claimed, faults>>

(* A failure to prune is logged, never raised. *)
PruneFails(p) ==
  /\ pc[p] = "pruning" /\ doomed[p] # {} /\ Fault
  /\ Return(p)
  /\ UNCHANGED <<target, dir, claimed>>

Replace(p) ==
  /\ pc[p] = "replacing"
  /\ target' = target + 1
  /\ End(p)
  /\ UNCHANGED <<dir, claimed, faults>>

(* A kill anywhere, or a failed copy, claim or replace. *)
Fails(p) ==
  /\ pc[p] # "idle" /\ Fault
  /\ End(p)
  /\ UNCHANGED <<target, dir, claimed>>

Command(p) ==
  \/ StartSave(p) \/ DbBackup(p) \/ ChooseName(p) \/ Copy(p) \/ Claim(p) \/ Stat(p)
  \/ ListForPrune(p) \/ Delete(p) \/ Pruned(p) \/ PruneFails(p) \/ Replace(p) \/ Fails(p)

(* Commands need not be run again; none rests in the middle. *)
Rest == (\A p \in Procs : pc[p] = "idle") /\ UNCHANGED vars

Next == (\E p \in Procs : Command(p)) \/ Rest

Spec == Init /\ [][Next]_vars

-----------------------------------------------------------------------------
Labels == {"idle", "naming", "copying", "copied", "claimed", "listing", "pruning",
           "replacing"}

TypeOK ==
  /\ target \in Nat /\ claimed \in Nat /\ faults \in 0..MaxFaults
  /\ dir \subseteq Backup /\ lock \in Procs \cup {None}
  /\ pc \in [Procs -> Labels] /\ draft \in [Procs -> Backup]
  /\ mine \in [Procs -> Backup \cup {None}] /\ doomed \in [Procs -> SUBSET Backup]
  /\ \A b, c \in dir : b.when = c.when /\ b.suffix = c.suffix => b = c

(* A save that is about to replace the database has a backup of what it    *)
(* replaces, other commands' prunes notwithstanding.                       *)
ReplacedIsBackedUp ==
  \A p \in Procs : pc[p] = "replacing" /\ target # 0 =>
    \E b \in dir : b.content = target

(* "Retention keeps the most recently created backups" (docs/database.md), *)
(* wherever the clock stands: no prune chooses a backup and keeps one that *)
(* was complete before that one was begun, unless it is its own.           *)
Preceded(c, b) == c.nth <= b.begun
KeepsTheLatest ==
  \A p \in Procs : \A b \in doomed[p], c \in dir \ doomed[p] :
    ~IsMine(p, c) => ~Preceded(c, b)

(* When no command runs, none failed, no more than the retention is left.  *)
QuietMeansPruned ==
  (\A p \in Procs : pc[p] = "idle") /\ faults = 0 /\ Retention # 0 =>
    Cardinality(dir) <= Retention
=============================================================================
