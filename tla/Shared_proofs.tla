---------------------------- MODULE Shared_proofs -----------------------------
(***************************************************************************)
(* Proofs about the files that mesh commands share: OdsStore, the file of  *)
(* the database -- its invariants, and that it keeps the promises of       *)
(* SharedFile, for any number of commands, edits and restores; Registry,   *)
(* the Nodes and Keys sheets in it -- that no sequence of commands changes *)
(* what a row says of its node's admin keys; RelayMemory, what is          *)
(* remembered of a region without a lock -- that no relay is credited by   *)
(* mistake; RegionSearch and RegionList, the regions of lorastats and the  *)
(* file that lists them -- that a search ends at the freshest record.      *)
(***************************************************************************)
EXTENDS OdsStore, Registry, RelayMemory, RegionList, FiniteSetTheorems, SequenceTheorems,
        WellFoundedInduction, TLAPS

(* The purpose of a command is that of its steps. *)
RightPurpose ==
  \A p \in Procs :
    /\ pc[p] \in {"idle", "locked", "loaded", "edited", "checked", "backedUp"}
         => purpose[p] = "save"
    /\ pc[p] \in {"restoring", "restoreBackedUp"} => purpose[p] = "restore"

(* A session's rows extend the version it observed; a version of the file  *)
(* newer than that one has a higher number.                                *)
ViewIsPast ==
  \A p \in Procs : pc[p] \in {"loaded", "edited", "checked", "backedUp"} =>
    /\ view[p].version <= file.version
    /\ view[p].version = file.version => view[p].content = file.content
    /\ view[p].content \subseteq mem[p]

(* A database that does not exist holds nothing. *)
AbsentIsEmpty == file.present \/ file.content = {}

IInv == /\ TypeOK /\ LockHeld /\ RightPurpose
        /\ ViewIsPast /\ CheckedIsCurrent /\ AbsentIsEmpty

-----------------------------------------------------------------------------
(* TypeOK is inductive on its own, action by action. *)

LEMMA InitType == Init => TypeOK
<1> SUFFICES ASSUME Init PROVE TypeOK
  OBVIOUS
<1> USE DEF Init
<1>1. file \in Files /\ file.content = {}
  BY DEF Files, Contents
<1>2. view \in [Procs -> Files] /\ mem \in [Procs -> Contents]
  <2>1. NoFile \in Files /\ {} \in Contents
    BY DEF NoFile, Files, Contents
  <2> QED
    BY <2>1
<1>3. made \in 0..MaxEdits /\ outsideSaves \in 0..MaxOutsideSaves
      /\ restores \in 0..MaxRestores /\ faults \in 0..MaxFaults
  BY BoundsAssumption
<1>4. file.content \cup opened \cup (UNION backups) \subseteq everSaved
  BY <1>1
<1>5. opened \in Contents /\ everSaved \in Contents /\ dropped \in Contents
      /\ unseen \in Contents /\ backups \subseteq Contents
  BY DEF Contents
<1> QED
  BY <1>1, <1>2, <1>3, <1>4, <1>5 DEF TypeOK, Labels

LEMMA TypeStep == TypeOK /\ [Next]_vars => TypeOK'
<1> SUFFICES ASSUME TypeOK, [Next]_vars PROVE TypeOK'
  OBVIOUS
<1> USE DEF TypeOK
<1>a. NoFile \in Files /\ {} \in Contents
  BY DEF NoFile, Files, Contents
<1>b. ASSUME NEW c \in Contents PROVE Written(c) \in Files /\ Written(c).content = c
  BY DEF Written, Files
<1>c. file.content \in Contents
  BY DEF Files
<1>1. ASSUME NEW p \in Procs, OpenForWrite(p) PROVE TypeOK'
  BY <1>1 DEF OpenForWrite, Goto, Labels, diskVars, outsideVars, counters, history
<1>2. ASSUME NEW p \in Procs, StartRestore(p) PROVE TypeOK'
  <2>1. restores' \in 0..MaxRestores
    BY <1>2, BoundsAssumption DEF StartRestore
  <2>2. mem' \in [Procs -> Contents]
    BY <1>2 DEF StartRestore
  <2> QED
    BY <1>2, <2>1, <2>2 DEF StartRestore, Goto, Labels, diskVars, outsideVars, history
<1>3. ASSUME NEW p \in Procs, Lock(p) PROVE TypeOK'
  BY <1>3 DEF Lock, Goto, Labels, diskVars, outsideVars, counters, history
<1>4. ASSUME NEW p \in Procs, LockTimesOut(p) PROVE TypeOK'
  BY <1>4, <1>a DEF LockTimesOut, EndProcess, Goto, Labels, diskVars, outsideVars,
    counters, history
<1>5. ASSUME NEW p \in Procs, Close(p) PROVE TypeOK'
  BY <1>5, <1>a DEF Close, EndProcess, Goto, Labels, diskVars, outsideVars,
    counters, history
<1>6. ASSUME NEW p \in Procs, CreateEmpty(p) PROVE TypeOK'
  <2>1. file' \in Files /\ file'.content = {}
    BY <1>6, <1>a, <1>b DEF CreateEmpty
  <2> QED
    BY <1>6, <2>1 DEF CreateEmpty, sessionVars, outsideVars, counters, history
<1>7. ASSUME NEW p \in Procs, Load(p) PROVE TypeOK'
  BY <1>7, <1>c DEF Load, Goto, Labels, diskVars, outsideVars, counters, history
<1>8. ASSUME NEW p \in Procs, Edit(p) PROVE TypeOK'
  <2>1. made' \in 1..MaxEdits
    BY <1>8, BoundsAssumption DEF Edit
  <2>2. mem' \in [Procs -> Contents]
    BY <1>8, <2>1 DEF Edit, Contents, Edits, MeshEdits
  <2> QED
    BY <1>8, <2>1, <2>2 DEF Edit, Goto, Labels, diskVars, outsideVars, history
<1>9. ASSUME NEW p \in Procs, CheckUnmodified(p) PROVE TypeOK'
  BY <1>9 DEF CheckUnmodified, Goto, Labels, diskVars, counters, history
<1>10. ASSUME NEW p \in Procs, CreateBackup(p) PROVE TypeOK'
  <2>1. backups' \subseteq Contents /\ (UNION backups') \subseteq everSaved
    BY <1>10, <1>c DEF CreateBackup
  <2> QED
    BY <1>10, <2>1 DEF CreateBackup, NextStep, Goto, Labels, outsideVars, counters, history
<1>11. ASSUME NEW p \in Procs, Replace(p) PROVE TypeOK'
  <2>1. file' \in Files /\ file'.content = mem[p]
    BY <1>11, <1>b DEF Replace
  <2>2. everSaved' \in Contents /\ mem[p] \subseteq everSaved' /\ everSaved \subseteq everSaved'
    BY <1>11 DEF Replace, Contents
  <2> QED
    BY <1>11, <2>1, <2>2 DEF Replace, Goto, Labels, outsideVars, counters
<1>12. ASSUME NEW p \in Procs, SaveFails(p) PROVE TypeOK'
  <2>1. faults' \in 0..MaxFaults
    BY <1>12, BoundsAssumption DEF SaveFails, Fault
  <2> QED
    BY <1>12, <2>1 DEF SaveFails, Goto, Labels, diskVars, outsideVars, history
<1>13. ASSUME NEW p \in Procs, Kill(p) PROVE TypeOK'
  <2>1. faults' \in 0..MaxFaults
    BY <1>13, BoundsAssumption DEF Kill, Fault
  <2> QED
    BY <1>13, <2>1, <1>a DEF Kill, EndProcess, Goto, Labels, diskVars, outsideVars, history
<1>14. CASE DbBackup
  <2>1. backups' \subseteq Contents /\ (UNION backups') \subseteq everSaved
    BY <1>14, <1>c DEF DbBackup
  <2> QED
    BY <1>14, <2>1 DEF DbBackup, sessionVars, outsideVars, counters, history
<1>15. CASE OutsideOpen
  BY <1>15, <1>c DEF OutsideOpen, diskVars, sessionVars, counters, history
<1>16. CASE OutsideSave
  <2>1. outsideSaves' \in 1..MaxOutsideSaves
    BY <1>16, BoundsAssumption DEF OutsideSave
  <2>2. PICK own \in {{}, {<<"outside", outsideSaves'>>}} :
          /\ file' = Written(opened \cup own) /\ opened' = opened \cup own
          /\ everSaved' = everSaved \cup own
          /\ dropped' = dropped \cup (file.content \ (opened \cup own))
          /\ unseen' = (IF \E p \in Procs : pc[p] \in {"backedUp", "restoreBackedUp"}
                        THEN unseen \cup opened \cup own ELSE unseen)
    BY <1>16 DEF OutsideSave
  <2>3. own \in Contents
    BY <2>1, <2>2 DEF Contents, Edits, OutsideEdits
  <2>4. opened \cup own \in Contents
    BY <2>3 DEF Contents
  <2>5. file' \in Files /\ file'.content = opened \cup own
    BY <2>2, <2>4, <1>b
  <2>6. everSaved' \in Contents /\ dropped' \in Contents /\ unseen' \in Contents
        /\ opened' \in Contents
    BY <2>2, <2>3, <1>c DEF Contents
  <2>7. file'.content \cup opened' \cup (UNION backups') \subseteq everSaved'
    BY <1>16, <2>2, <2>5 DEF OutsideSave
  <2>8. /\ backups' = backups /\ UNCHANGED sessionVars /\ outside' = TRUE
        /\ UNCHANGED <<made, restores, faults>>
    BY <1>16 DEF OutsideSave
  <2> QED
    BY <2>1, <2>5, <2>6, <2>7, <2>8 DEF sessionVars
<1>17. CASE UNCHANGED vars
  BY <1>17 DEF vars, diskVars, sessionVars, outsideVars, counters, history
<1> QED
  BY <1>1, <1>2, <1>3, <1>4, <1>5, <1>6, <1>7, <1>8, <1>9, <1>10, <1>11, <1>12,
     <1>13, <1>14, <1>15, <1>16, <1>17 DEF Next, Session, Waiting

(* Every variable keeps its type: nothing is backed up that was never on   *)
(* the file, whatever the number of commands (db/ods.py, db/backups.py).   *)
THEOREM TypeCorrect == Spec => []TypeOK
<1>1. Init => TypeOK
  BY InitType
<1>2. TypeOK /\ [Next]_vars => TypeOK'
  BY TypeStep
<1> QED
  BY <1>1, <1>2, PTL DEF Spec

-----------------------------------------------------------------------------
(* The inductive invariant: the lock makes a command's check, backup and   *)
(* replace one step to the others, so ViewIsPast turns a passed check into *)
(* CheckedIsCurrent and nothing but the other program can undo it.         *)

LEMMA OneHolder ==
  ASSUME LockHeld, NEW p \in Procs, NEW q \in Procs, Holding(p), Holding(q)
  PROVE  p = q
BY DEF LockHeld

LEMMA FreeMeansNoHolder ==
  ASSUME TypeOK, LockHeld, lock = None, NEW p \in Procs
  PROVE  ~Holding(p)
BY ProcsAssumption DEF LockHeld, TypeOK

(* The steps of one command leave the labels and the purposes of the rest. *)
LEMMA OthersStay ==
  ASSUME TypeOK, NEW p \in Procs, Session(p), NEW q \in Procs, q # p
  PROVE  pc'[q] = pc[q] /\ purpose'[q] = purpose[q] /\ view'[q] = view[q] /\ mem'[q] = mem[q]
BY DEF TypeOK, Session, Waiting, OpenForWrite, StartRestore, Lock, LockTimesOut, Close,
  CreateEmpty, Load, Edit, CheckUnmodified, CreateBackup, Replace, SaveFails, Kill,
  EndProcess, Goto, sessionVars

(* The steps outside the commands leave them all. *)
LEMMA OutsideStays ==
  ASSUME DbBackup \/ OutsideOpen \/ OutsideSave \/ UNCHANGED vars
  PROVE  UNCHANGED sessionVars
BY DEF DbBackup, OutsideOpen, OutsideSave, vars

LEMMA InitInvariant == Init => IInv
<1> SUFFICES ASSUME Init PROVE IInv
  OBVIOUS
<1>1. TypeOK
  BY InitType
<1>2. LockHeld /\ RightPurpose /\ ViewIsPast /\ CheckedIsCurrent
  BY DEF Init, LockHeld, Holding, RightPurpose, ViewIsPast, CheckedIsCurrent
<1>3. AbsentIsEmpty
  BY DEF Init, AbsentIsEmpty
<1> QED
  BY <1>1, <1>2, <1>3 DEF IInv

LEMMA LockStep == TypeOK /\ LockHeld /\ [Next]_vars => LockHeld'
<1> SUFFICES ASSUME TypeOK, LockHeld, [Next]_vars, NEW q \in Procs, Holding(q)'
             PROVE  lock' = <<q, purpose'[q]>>
  BY DEF LockHeld
<1>1. ASSUME NEW p \in Procs, Session(p) PROVE lock' = <<q, purpose'[q]>>
  <2>1. CASE q # p
    <3>1. Holding(q) /\ lock = <<q, purpose[q]>> /\ purpose'[q] = purpose[q]
      BY <1>1, <2>1, OthersStay DEF Holding, LockHeld
    <3>2. ~Holding(p) /\ lock # None /\ lock # <<p, purpose[p]>>
      BY <2>1, <3>1, OneHolder, FreeMeansNoHolder
    <3> QED
      BY <1>1, <3>1, <3>2 DEF Session, Waiting, OpenForWrite, StartRestore, Lock, LockFree,
        LockTimesOut, Close, CreateEmpty, Load, Edit, CheckUnmodified, CreateBackup,
        Replace, SaveFails, Kill, Holding, sessionVars
  <2>2. CASE q = p
    <3>1. CASE Lock(p)
      BY <2>2, <3>1 DEF Lock
    <3>2. CASE OpenForWrite(p) \/ StartRestore(p) \/ LockTimesOut(p) \/ Close(p) \/ Kill(p)
      BY <2>2, <3>2 DEF OpenForWrite, StartRestore, LockTimesOut, Close, Kill, EndProcess,
        Goto, Holding, TypeOK
    <3>3. CASE CreateEmpty(p) \/ Load(p) \/ Edit(p) \/ CheckUnmodified(p)
               \/ CreateBackup(p) \/ Replace(p) \/ SaveFails(p)
      BY <2>2, <3>3 DEF CreateEmpty, Load, Edit, CheckUnmodified, CreateBackup, Replace,
        SaveFails, LockHeld, Holding, sessionVars
    <3> QED
      BY <1>1, <3>1, <3>2, <3>3 DEF Session, Waiting
  <2> QED
    BY <2>1, <2>2
<1>2. ASSUME UNCHANGED sessionVars PROVE lock' = <<q, purpose'[q]>>
  BY <1>2 DEF LockHeld, Holding, sessionVars
<1> QED
  BY <1>1, <1>2, OutsideStays DEF Next

LEMMA PurposeStep == TypeOK /\ RightPurpose /\ [Next]_vars => RightPurpose'
<1> SUFFICES ASSUME TypeOK, RightPurpose, [Next]_vars PROVE RightPurpose'
  OBVIOUS
<1>1. ASSUME NEW p \in Procs, Session(p) PROVE RightPurpose'
  <2>1. ASSUME NEW q \in Procs, q # p
        PROVE pc'[q] = pc[q] /\ purpose'[q] = purpose[q]
    BY <1>1, <2>1, OthersStay
  <2>2. /\ pc'[p] \in {"idle", "locked", "loaded", "edited", "checked", "backedUp"}
             => purpose'[p] = "save"
        /\ pc'[p] \in {"restoring", "restoreBackedUp"} => purpose'[p] = "restore"
    BY <1>1 DEF TypeOK, RightPurpose, Session, Waiting, OpenForWrite, StartRestore, Lock,
      LockTimesOut, Close, CreateEmpty, Load, Edit, CheckUnmodified, CreateBackup,
      NextStep, Replace, SaveFails, Kill, EndProcess, Goto, sessionVars
  <2> QED
    BY <2>1, <2>2 DEF RightPurpose
<1>2. ASSUME UNCHANGED sessionVars PROVE RightPurpose'
  BY <1>2 DEF RightPurpose, sessionVars
<1> QED
  BY <1>1, <1>2, OutsideStays DEF Next

(* Every write gives the file a version no session has seen. *)
LEMMA VersionGrows ==
  ASSUME TypeOK, [Next]_vars
  PROVE  \/ file' = file
         \/ file'.version = file.version + 1
<1> USE DEF Written
<1>1. ASSUME NEW p \in Procs, Session(p)
      PROVE  file' = file \/ file'.version = file.version + 1
  BY <1>1 DEF Session, Waiting, OpenForWrite, StartRestore, Lock, LockTimesOut, Close,
    CreateEmpty, Load, Edit, CheckUnmodified, CreateBackup, Replace, SaveFails, Kill, diskVars
<1>2. ASSUME DbBackup \/ OutsideOpen \/ OutsideSave \/ UNCHANGED vars
      PROVE  file' = file \/ file'.version = file.version + 1
  BY <1>2 DEF DbBackup, OutsideOpen, OutsideSave, vars, diskVars
<1> QED
  BY <1>1, <1>2 DEF Next

LEMMA ViewStep == TypeOK /\ ViewIsPast /\ [Next]_vars => ViewIsPast'
<1> SUFFICES ASSUME TypeOK, ViewIsPast, [Next]_vars, NEW q \in Procs,
                    pc'[q] \in {"loaded", "edited", "checked", "backedUp"}
             PROVE  /\ view'[q].version <= file'.version
                    /\ view'[q].version = file'.version => view'[q].content = file'.content
                    /\ view'[q].content \subseteq mem'[q]
  BY DEF ViewIsPast
<1>a. file.version \in Nat /\ view[q].version \in Nat
  BY DEF TypeOK, Files
<1>1. ASSUME pc'[q] = pc[q] \/ pc[q] \in {"loaded", "edited", "checked"},
             view'[q] = view[q], mem[q] \subseteq mem'[q]
      PROVE  /\ view'[q].version <= file'.version
             /\ view'[q].version = file'.version => view'[q].content = file'.content
             /\ view'[q].content \subseteq mem'[q]
  <2>1. /\ view[q].version <= file.version
        /\ view[q].version = file.version => view[q].content = file.content
        /\ view[q].content \subseteq mem[q]
    BY <1>1 DEF ViewIsPast
  <2>2. CASE file' = file
    BY <1>1, <2>1, <2>2
  <2>3. CASE file'.version = file.version + 1
    BY <1>1, <1>a, <2>1, <2>3
  <2> QED
    BY <2>2, <2>3, VersionGrows
<1>2. ASSUME NEW p \in Procs, Session(p), q # p
      PROVE  pc'[q] = pc[q] /\ view'[q] = view[q] /\ mem[q] \subseteq mem'[q]
  BY <1>2, OthersStay
<1>3. CASE Load(q)
  BY <1>3, <1>a DEF Load, TypeOK, diskVars
<1>4. CASE Replace(q)
  <2>1. file' = Written(mem[q]) /\ view'[q] = file' /\ mem'[q] = mem[q]
    BY <1>4 DEF Replace, TypeOK
  <2> QED
    BY <2>1, <1>a DEF Written
<1>5. CASE Edit(q) \/ CheckUnmodified(q) \/ CreateBackup(q)
  <2>1. pc[q] \in {"loaded", "edited", "checked"} /\ view'[q] = view[q]
    BY <1>5 DEF Edit, CheckUnmodified, CreateBackup, NextStep, Goto, TypeOK
  <2>2. mem[q] \subseteq mem'[q]
    BY <1>5 DEF Edit, CheckUnmodified, CreateBackup, TypeOK
  <2> QED
    BY <1>1, <2>1, <2>2
<1>6. ASSUME \/ OpenForWrite(q) \/ StartRestore(q) \/ Waiting(q) \/ Close(q)
             \/ CreateEmpty(q) \/ SaveFails(q) \/ Kill(q)
      PROVE  FALSE
  BY <1>6 DEF OpenForWrite, StartRestore, Waiting, Lock, LockTimesOut, Close, CreateEmpty,
    SaveFails, Kill, EndProcess, Goto, TypeOK, sessionVars
<1>7. ASSUME UNCHANGED sessionVars
      PROVE  pc'[q] = pc[q] /\ view'[q] = view[q] /\ mem[q] \subseteq mem'[q]
  BY <1>7 DEF sessionVars
<1> QED
  BY <1>1, <1>2, <1>3, <1>4, <1>5, <1>6, <1>7, OutsideStays DEF Next, Session

LEMMA AbsentStep == TypeOK /\ AbsentIsEmpty /\ [Next]_vars => AbsentIsEmpty'
BY DEF AbsentIsEmpty, Next, Session, Waiting, OpenForWrite, StartRestore, Lock,
  LockTimesOut, Close, CreateEmpty, Load, Edit, CheckUnmodified, CreateBackup, Replace,
  SaveFails, Kill, DbBackup, OutsideOpen, OutsideSave, Written, vars, diskVars

(* Only the other program, or the command that holds the lock, gets        *)
(* between a command's check and its replace.                              *)
LEMMA CheckedStep ==
  TypeOK /\ LockHeld /\ ViewIsPast /\ CheckedIsCurrent /\ [Next]_vars => CheckedIsCurrent'
<1> SUFFICES ASSUME TypeOK, LockHeld, ViewIsPast, CheckedIsCurrent, [Next]_vars,
                    NEW q \in Procs, pc'[q] \in {"checked", "backedUp"}, ~outside'
             PROVE  file'.present /\ file'.content \subseteq mem'[q]
  BY DEF CheckedIsCurrent
<1>1. ASSUME pc[q] \in {"checked", "backedUp"}, ~outside,
             file' = file, mem'[q] = mem[q]
      PROVE  file'.present /\ file'.content \subseteq mem'[q]
  BY <1>1 DEF CheckedIsCurrent
<1>2. ASSUME NEW p \in Procs, Session(p), q # p
      PROVE  file'.present /\ file'.content \subseteq mem'[q]
  <2>1. pc[q] = pc'[q] /\ mem'[q] = mem[q]
    BY <1>2, OthersStay
  <2>2. ~Holding(p)
    BY <1>2, <2>1, OneHolder DEF Holding
  <2>3. file' = file /\ outside' = outside
    BY <1>2, <2>2 DEF Holding, Session, Waiting, OpenForWrite, StartRestore, Lock,
      LockTimesOut, Close, CreateEmpty, Load, Edit, CheckUnmodified, CreateBackup, Replace,
      SaveFails, Kill, diskVars, outsideVars
  <2> QED
    BY <1>1, <2>1, <2>3
<1>3. CASE CheckUnmodified(q)
  <2>1. /\ pc[q] = "edited" /\ SameVersion(q)
        /\ file' = file /\ mem' = mem
    BY <1>3 DEF CheckUnmodified, Goto, TypeOK, diskVars
  <2> QED
    BY <2>1 DEF SameVersion, ViewIsPast
<1>4. CASE CreateBackup(q)
  <2>1. pc[q] = "checked"
    BY <1>4 DEF CreateBackup, NextStep, Goto, TypeOK
  <2> QED
    BY <1>1, <1>4, <2>1 DEF CreateBackup, outsideVars
<1>5. ASSUME \/ OpenForWrite(q) \/ StartRestore(q) \/ Waiting(q) \/ Close(q)
             \/ CreateEmpty(q) \/ Load(q) \/ Edit(q) \/ Replace(q) \/ SaveFails(q) \/ Kill(q)
      PROVE  FALSE
  BY <1>5 DEF OpenForWrite, StartRestore, Waiting, Lock, LockTimesOut, Close, CreateEmpty,
    Load, Edit, Replace, SaveFails, Kill, EndProcess, Goto, TypeOK, sessionVars
<1>6. CASE DbBackup \/ OutsideOpen \/ UNCHANGED vars
  BY <1>1, <1>6 DEF DbBackup, OutsideOpen, vars, diskVars, sessionVars, outsideVars
<1>7. CASE OutsideSave
  BY <1>7 DEF OutsideSave
<1> QED
  BY <1>2, <1>3, <1>4, <1>5, <1>6, <1>7 DEF Next, Session

LEMMA Invariance == Spec => []IInv
<1>1. Init => IInv
  BY InitInvariant
<1>2. IInv /\ [Next]_vars => IInv'
  BY TypeStep, LockStep, PurposeStep, ViewStep, CheckedStep, AbsentStep DEF IInv
<1> QED
  BY <1>1, <1>2, PTL DEF Spec

(* Mutual exclusion, kills and timeouts included: a command past the lock  *)
(* holds it and no other does (exclusive_lock in db/locking.py).           *)
THEOREM MutualExclusion == Spec => []LockHeld
<1>1. IInv => LockHeld
  BY DEF IInv
<1> QED
  BY <1>1, Invariance, PTL

(* A save that passed _check_not_concurrently_modified has lost nothing    *)
(* any other command wrote (OdsDatabase.save in db/ods.py).                *)
THEOREM SaveIsCurrent == Spec => []CheckedIsCurrent
<1>1. IInv => CheckedIsCurrent
  BY DEF IInv
<1> QED
  BY <1>1, Invariance, PTL

-----------------------------------------------------------------------------
(* What a save replaces is in a backup, or the other program slipped it in *)
(* after the backup was made.                                              *)
BackupHasIt ==
  \A p \in Procs : pc[p] \in {"backedUp", "restoreBackedUp"} =>
    file.content \subseteq (UNION backups) \cup unseen

LEMMA BackupStep == IInv /\ BackupHasIt /\ [Next]_vars => BackupHasIt'
<1> SUFFICES ASSUME IInv, BackupHasIt, [Next]_vars,
                    NEW q \in Procs, pc'[q] \in {"backedUp", "restoreBackedUp"}
             PROVE  file'.content \subseteq (UNION backups') \cup unseen'
  BY DEF BackupHasIt
<1> USE DEF IInv
<1>1. ASSUME pc[q] \in {"backedUp", "restoreBackedUp"}, file' = file,
             backups \subseteq backups', unseen' = unseen
      PROVE  file'.content \subseteq (UNION backups') \cup unseen'
  BY <1>1 DEF BackupHasIt
<1>2. ASSUME NEW p \in Procs, Session(p), q # p
      PROVE  file'.content \subseteq (UNION backups') \cup unseen'
  <2>1. pc[q] = pc'[q]
    BY <1>2, OthersStay
  <2>2. ~Holding(p)
    BY <1>2, <2>1, OneHolder DEF Holding
  <2>3. file' = file /\ backups' = backups /\ unseen' = unseen
    BY <1>2, <2>2 DEF Holding, Session, Waiting, OpenForWrite, StartRestore, Lock,
      LockTimesOut, Close, CreateEmpty, Load, Edit, CheckUnmodified, CreateBackup, Replace,
      SaveFails, Kill, diskVars, history
  <2> QED
    BY <1>1, <2>1, <2>3
<1>3. CASE CreateBackup(q)
  <2>1. file' = file /\ (file.present => file.content \in backups')
    BY <1>3 DEF CreateBackup
  <2> QED
    BY <2>1 DEF AbsentIsEmpty
<1>4. ASSUME \/ OpenForWrite(q) \/ StartRestore(q) \/ Waiting(q) \/ Close(q)
             \/ CreateEmpty(q) \/ Load(q) \/ Edit(q) \/ CheckUnmodified(q) \/ Replace(q)
             \/ SaveFails(q) \/ Kill(q)
      PROVE  FALSE
  BY <1>4 DEF OpenForWrite, StartRestore, Waiting, Lock, LockTimesOut, Close, CreateEmpty,
    Load, Edit, CheckUnmodified, Replace, SaveFails, Kill, EndProcess, Goto, TypeOK, sessionVars
<1>5. CASE DbBackup \/ OutsideOpen \/ UNCHANGED vars
  BY <1>1, <1>5 DEF DbBackup, OutsideOpen, vars, diskVars, sessionVars, history
<1>6. CASE OutsideSave
  <2>1. pc[q] \in {"backedUp", "restoreBackedUp"}
    BY <1>6 DEF OutsideSave, sessionVars
  <2>2. PICK own : file' = Written(opened \cup own) /\ unseen' = unseen \cup opened \cup own
    BY <1>6, <2>1 DEF OutsideSave
  <2> QED
    BY <2>2 DEF Written
<1> QED
  BY <1>2, <1>3, <1>4, <1>5, <1>6 DEF Next, Session

LEMMA RecoverableStep ==
  IInv /\ BackupHasIt /\ Recoverable /\ [Next]_vars => Recoverable'
<1> SUFFICES ASSUME IInv, BackupHasIt, Recoverable, [Next]_vars PROVE Recoverable'
  OBVIOUS
<1> USE DEF IInv, Recoverable
<1>1. ASSUME NEW p \in Procs, Replace(p) PROVE Recoverable'
  <2>1. /\ file'.content = mem[p] /\ everSaved' = everSaved \cup mem[p]
        /\ UNCHANGED <<backups, dropped, unseen>>
    BY <1>1 DEF Replace, Written
  <2>2. file.content \subseteq (UNION backups) \cup unseen
    BY <1>1 DEF Replace, BackupHasIt
  <2> QED
    BY <2>1, <2>2
<1>2. ASSUME NEW p \in Procs, CreateEmpty(p) PROVE Recoverable'
  BY <1>2 DEF CreateEmpty, Written, AbsentIsEmpty, history
<1>3. ASSUME file' = file, backups \subseteq backups', UNCHANGED history PROVE Recoverable'
  BY <1>3 DEF history
<1>4. ASSUME NEW p \in Procs,
             \/ OpenForWrite(p) \/ StartRestore(p) \/ Waiting(p) \/ Close(p) \/ Load(p)
             \/ Edit(p) \/ CheckUnmodified(p) \/ CreateBackup(p) \/ SaveFails(p) \/ Kill(p)
      PROVE  file' = file /\ backups \subseteq backups' /\ UNCHANGED history
  BY <1>4 DEF OpenForWrite, StartRestore, Waiting, Lock, LockTimesOut, Close, Load, Edit,
    CheckUnmodified, CreateBackup, SaveFails, Kill, diskVars
<1>5. ASSUME DbBackup \/ OutsideOpen \/ UNCHANGED vars
      PROVE  file' = file /\ backups \subseteq backups' /\ UNCHANGED history
  BY <1>5 DEF DbBackup, OutsideOpen, vars, diskVars
<1>6. CASE OutsideSave
  <2>1. PICK own : /\ file' = Written(opened \cup own)
                   /\ everSaved' = everSaved \cup own
                   /\ dropped' = dropped \cup (file.content \ (opened \cup own))
                   /\ unseen \subseteq unseen' /\ backups' = backups
    BY <1>6 DEF OutsideSave
  <2> QED
    BY <2>1 DEF Written
<1> QED
  BY <1>1, <1>2, <1>3, <1>4, <1>5, <1>6 DEF Next, Session

(* No sequence of saves, restores, kills and failed writes loses what was  *)
(* once on the file: create_backup precedes every os.replace under the     *)
(* lock (db/atomic_writer.py), and backups are not pruned here.            *)
THEOREM NothingLost == Spec => []Recoverable
<1>1. Init => BackupHasIt /\ Recoverable
  BY DEF Init, BackupHasIt, Recoverable
<1> QED
  BY <1>1, Invariance, BackupStep, RecoverableStep, PTL DEF Spec

-----------------------------------------------------------------------------
(* OdsStore implements SharedFile: the steps that take, use and leave the  *)
(* lock are its Begin, Look, Commit, Restore and End, everything else that *)
(* a command does stutters.                                                *)

LEMMA InitMaps == Init => Shared!Init
BY DEF Init, Shared!Init, Contents

LEMMA Owner ==
  ASSUME LockHeld, RightPurpose, NEW p \in Procs
  PROVE  /\ pc[p] \in {"locked", "loaded", "edited", "checked", "backedUp"}
              => lock \in Procs \X {"save"}
         /\ pc[p] \in {"restoring", "restoreBackedUp"} => lock \in Procs \X {"restore"}
BY DEF LockHeld, RightPurpose, Holding

LEMMA StepMaps == IInv /\ IInv' /\ [Next]_vars => [Shared!Next]_(Shared!svars)
<1> SUFFICES ASSUME IInv, IInv', [Next]_vars
             PROVE  Shared!Next \/ UNCHANGED Shared!svars
  OBVIOUS
<1> USE DEF IInv
<1>a. file.content \in SUBSET Edits /\ file'.content \in SUBSET Edits
  BY DEF TypeOK, Files, Contents
<1>1. ASSUME NEW p \in Procs, Lock(p) PROVE Shared!Begin
  BY <1>1 DEF Lock, LockFree, Shared!Begin, Shared!Purposes, TypeOK, diskVars, outsideVars
<1>2. ASSUME NEW p \in Procs, Close(p) PROVE Shared!End
  BY <1>2 DEF Close, Shared!End, diskVars, outsideVars
<1>3. ASSUME NEW p \in Procs, CreateEmpty(p) PROVE UNCHANGED Shared!svars
  BY <1>3 DEF CreateEmpty, Written, AbsentIsEmpty, Shared!svars, sessionVars, outsideVars
<1>4. ASSUME NEW p \in Procs, CheckUnmodified(p) PROVE Shared!Look \/ UNCHANGED Shared!svars
  BY <1>4, Owner DEF CheckUnmodified, Shared!Look, Shared!svars, diskVars
<1>5. ASSUME NEW p \in Procs, Replace(p) PROVE Shared!Commit \/ Shared!Restore
  <2>1. file'.content = mem[p] /\ UNCHANGED <<lock, outside>>
    BY <1>5 DEF Replace, Written, outsideVars
  <2>2. CASE pc[p] = "backedUp"
    BY <1>a, <2>1, <2>2, Owner DEF Shared!Commit, CheckedIsCurrent
  <2>3. CASE pc[p] = "restoreBackedUp"
    BY <1>a, <2>1, <2>3, Owner DEF Shared!Restore
  <2> QED
    BY <1>5, <2>2, <2>3 DEF Replace
<1>6. ASSUME NEW p \in Procs, Kill(p) PROVE Shared!End \/ UNCHANGED Shared!svars
  BY <1>6 DEF Kill, Shared!End, Shared!svars, diskVars, outsideVars
<1>7. ASSUME NEW p \in Procs,
             \/ OpenForWrite(p) \/ StartRestore(p) \/ LockTimesOut(p) \/ Load(p)
             \/ Edit(p) \/ CreateBackup(p) \/ SaveFails(p)
      PROVE  UNCHANGED Shared!svars
  BY <1>7 DEF OpenForWrite, StartRestore, LockTimesOut, Load, Edit, CreateBackup, SaveFails,
    Shared!svars, diskVars, outsideVars
<1>8. CASE OutsideSave
  <2>1. outside' = TRUE /\ lock' = lock
    BY <1>8 DEF OutsideSave, sessionVars
  <2>2. Shared!OutsideWrite
    BY <1>a, <2>1 DEF Shared!OutsideWrite
  <2> QED
    BY <2>2 DEF Shared!Next
<1>9. CASE DbBackup \/ OutsideOpen \/ UNCHANGED vars
  BY <1>9 DEF DbBackup, OutsideOpen, vars, diskVars, sessionVars, outsideVars, Shared!svars
<1> QED
  BY <1>1, <1>2, <1>3, <1>4, <1>5, <1>6, <1>7, <1>8, <1>9
     DEF Next, Session, Waiting, Shared!Next

(* However many mesh commands run, none undoes another's save: only a      *)
(* restore, or a write after the other program's, removes what the file    *)
(* held (cli/common.py, cli/db_cmd.py, db/ods.py, db/locking.py).          *)
THEOREM KeepsTheFile == Spec => KeepsSharedFile
<1> QED
  BY Invariance, InitMaps, StepMaps, PTL DEF Spec, KeepsSharedFile, Shared!Spec

-----------------------------------------------------------------------------
(* A fold over a finite set exists: c takes an element out of each set, g  *)
(* adds it to what the rest came to, and what a set may come to is in W.   *)
IsFold(f, t, c, g, base, W) ==
  /\ f = [s \in SUBSET t |-> IF s = {} THEN base ELSE g[<<c[s], f[s \ {c[s]}]>>]]
  /\ \A s \in SUBSET t : f[s] \in W[s]

LEMMA LeastSubset ==
  ASSUME NEW S, IsFiniteSet(S), NEW T, T \subseteq SUBSET S, T # {}
  PROVE  \E t \in T : \A u \in SUBSET t : u # t => u \notin T
<1>1. IsWellFoundedOn(StrictSubsetOrdering(S), SUBSET S)
  BY FS_StrictSubsetOrderingWellFounded, FS_FiniteSubsetsOfFinite
<1>2. PICK t \in T : \A u \in T : <<u, t>> \notin StrictSubsetOrdering(S)
  BY <1>1, WFMin
<1>3. ASSUME NEW u \in SUBSET t, u # t, u \in T PROVE FALSE
  <2>1. <<u, t>> \in (SUBSET S) \X (SUBSET S)
    BY <1>3
  <2> QED
    BY <1>2, <1>3, <2>1 DEF StrictSubsetOrdering
<1> QED
  BY <1>2, <1>3

LEMMA FoldsAgree ==
  ASSUME NEW S, IsFiniteSet(S), NEW c, NEW g, NEW base, NEW W,
         \A s \in SUBSET S : s # {} => c[s] \in s,
         NEW t1 \in SUBSET S, NEW t2 \in SUBSET S, NEW f1, NEW f2,
         IsFold(f1, t1, c, g, base, W), IsFold(f2, t2, c, g, base, W)
  PROVE  \A s \in SUBSET (t1 \cap t2) : f1[s] = f2[s]
<1> DEFINE Bad == {s \in SUBSET (t1 \cap t2) : f1[s] # f2[s]}
<1> SUFFICES ASSUME Bad # {} PROVE FALSE
  OBVIOUS
<1>1. PICK s \in Bad : \A u \in SUBSET s : u # s => u \notin Bad
  <2>1. Bad \subseteq SUBSET S
    OBVIOUS
  <2> HIDE DEF Bad
  <2> QED
    BY <2>1, LeastSubset
<1>2. s \in SUBSET t1 /\ s \in SUBSET t2 /\ s \in SUBSET S /\ f1[s] # f2[s]
  OBVIOUS
<1>3. /\ f1[s] = IF s = {} THEN base ELSE g[<<c[s], f1[s \ {c[s]}]>>]
      /\ f2[s] = IF s = {} THEN base ELSE g[<<c[s], f2[s \ {c[s]}]>>]
  BY <1>2 DEF IsFold
<1>4. s # {} /\ c[s] \in s
  BY <1>2, <1>3
<1>5. f1[s \ {c[s]}] = f2[s \ {c[s]}]
  BY <1>1, <1>2, <1>4
<1> QED
  BY <1>2, <1>3, <1>4, <1>5

LEMMA FoldExists ==
  ASSUME NEW S, IsFiniteSet(S), NEW c, NEW g, NEW base, NEW W,
         \A s \in SUBSET S : s # {} => c[s] \in s,
         base \in W[{}],
         \A s \in SUBSET S : s # {} => \A v \in W[s \ {c[s]}] : g[<<c[s], v>>] \in W[s]
  PROVE  \E f : IsFold(f, S, c, g, base, W)
<1> DEFINE Bad == {t \in SUBSET S : ~\E f : IsFold(f, t, c, g, base, W)}
<1> SUFFICES ASSUME Bad # {} PROVE FALSE
  OBVIOUS
<1>1. PICK t \in Bad : \A u \in SUBSET t : u # t => u \notin Bad
  <2>1. Bad \subseteq SUBSET S
    OBVIOUS
  <2> HIDE DEF Bad
  <2> QED
    BY <2>1, LeastSubset
<1>2. t \in SUBSET S /\ ~\E f : IsFold(f, t, c, g, base, W)
  OBVIOUS
<1>3. \A u \in SUBSET t : u # t => \E f : IsFold(f, u, c, g, base, W)
  BY <1>1, <1>2
<1> HIDE DEF Bad
<1> DEFINE H(u) == CHOOSE f : IsFold(f, u, c, g, base, W)
<1>4. \A u \in SUBSET t : u # t => IsFold(H(u), u, c, g, base, W)
  BY <1>3
<1>5. \A u \in SUBSET t : u # t => \A s \in SUBSET u : H(u)[s] = H(s)[s]
  <2> SUFFICES ASSUME NEW u \in SUBSET t, u # t, NEW s \in SUBSET u
               PROVE  H(u)[s] = H(s)[s]
    OBVIOUS
  <2>1. IsFold(H(u), u, c, g, base, W) /\ IsFold(H(s), s, c, g, base, W)
    BY <1>4
  <2>2. u \in SUBSET S /\ s \in SUBSET S /\ s \in SUBSET (u \cap s)
    BY <1>2
  <2> HIDE DEF H
  <2> QED
    BY <2>1, <2>2, FoldsAgree
<1> HIDE DEF H
<1> DEFINE f == [s \in SUBSET t |->
             IF s # t THEN H(s)[s] ELSE IF s = {} THEN base ELSE g[<<c[t], H(t \ {c[t]})[t \ {c[t]}]>>]]
<1>6. ASSUME NEW s \in SUBSET t
      PROVE  /\ f[s] = IF s = {} THEN base ELSE g[<<c[s], f[s \ {c[s]}]>>]
             /\ f[s] \in W[s]
  <2>1. s # {} => c[s] \in s /\ s \ {c[s]} \in SUBSET t /\ s \ {c[s]} # t /\ s \ {c[s]} # s
    BY <1>2
  <2>2. CASE s # t
    <3>1. IsFold(H(s), s, c, g, base, W) /\ s \in SUBSET s
      BY <1>4, <2>2
    <3>2. H(s)[s] = (IF s = {} THEN base ELSE g[<<c[s], H(s)[s \ {c[s]}]>>]) /\ H(s)[s] \in W[s]
      BY <3>1 DEF IsFold
    <3>3. s # {} => H(s)[s \ {c[s]}] = H(s \ {c[s]})[s \ {c[s]}]
      BY <1>5, <2>1, <2>2
    <3> QED
      BY <2>1, <2>2, <3>2, <3>3
  <2>3. CASE s = t /\ t = {}
    BY <2>3
  <2>4. CASE s = t /\ t # {}
    <3>1. f[t \ {c[t]}] = H(t \ {c[t]})[t \ {c[t]}]
      BY <2>1, <2>4
    <3>2. H(t \ {c[t]})[t \ {c[t]}] \in W[t \ {c[t]}]
      <4>1. IsFold(H(t \ {c[t]}), t \ {c[t]}, c, g, base, W)
        BY <1>4, <2>1, <2>4
      <4> QED
        BY <4>1 DEF IsFold
    <3> QED
      BY <1>2, <2>4, <3>1, <3>2
  <2> QED
    BY <2>2, <2>3, <2>4
<1>7. f = [s \in SUBSET t |-> IF s = {} THEN base ELSE g[<<c[s], f[s \ {c[s]}]>>]]
  <2> DEFINE e == [s \in SUBSET t |-> IF s = {} THEN base ELSE g[<<c[s], f[s \ {c[s]}]>>]]
  <2>1. \A s \in SUBSET t : f[s] = e[s]
    BY <1>6
  <2>2. f = [s \in SUBSET t |-> f[s]] /\ e = [s \in SUBSET t |-> e[s]]
    OBVIOUS
  <2> HIDE DEF f, e
  <2>3. f = e
    BY <2>1, <2>2
  <2> QED
    BY <2>3 DEF e
<1> HIDE DEF f
<1>8. IsFold(f, t, c, g, base, W)
  BY <1>6, <1>7 DEF IsFold
<1> QED
  BY <1>2, <1>8

LEMMA RegisteredIs ==
  ASSUME NEW admins, IsFiniteSet(admins), NEW d, NEW W,
         [db |-> d, refs |-> {}, minted |-> TRUE] \in W[{}],
         \A s \in SUBSET admins : \A k \in s : \A v \in W[s \ {k}] : RegisterObservedKey(k, v) \in W[s]
  PROVE  Registered(d, admins) \in W[admins]
<1> DEFINE base == [db |-> d, refs |-> {}, minted |-> TRUE]
           c == [s \in SUBSET admins |-> CHOOSE k \in s : TRUE]
           V == UNION {W[s] : s \in SUBSET admins}
           g == [p \in admins \X V |-> RegisterObservedKey(p[1], p[2])]
           Filed(iter) == iter = [s \in SUBSET admins |->
             IF s = {} THEN base ELSE RegisterObservedKey(CHOOSE k \in s : TRUE, iter[s \ {CHOOSE k \in s : TRUE}])]
<1>1. \A s \in SUBSET admins : s # {} => c[s] = (CHOOSE k \in s : TRUE) /\ c[s] \in s
  OBVIOUS
<1>2. ASSUME NEW s \in SUBSET admins, s # {}, NEW v \in W[s \ {c[s]}]
      PROVE  g[<<c[s], v>>] = RegisterObservedKey(c[s], v) /\ g[<<c[s], v>>] \in W[s]
  <2>1. c[s] \in s /\ s \ {c[s]} \in SUBSET admins
    BY <1>1, <1>2
  <2>2. v \in V /\ c[s] \in admins
    BY <1>2, <2>1
  <2> HIDE DEF V, c
  <2>3. g[<<c[s], v>>] = RegisterObservedKey(c[s], v)
    BY <2>2
  <2> QED
    BY <2>1, <2>3
<1>3. \E iter : Filed(iter)
  <2>1. \A s \in SUBSET admins : s # {} => c[s] \in s
    BY <1>1
  <2>2. \A s \in SUBSET admins : s # {} => \A v \in W[s \ {c[s]}] : g[<<c[s], v>>] \in W[s]
    BY <1>2
  <2>3. base \in W[{}]
    OBVIOUS
  <2> HIDE DEF c, g, base
  <2>4. PICK f : IsFold(f, admins, c, g, base, W)
    BY <2>1, <2>2, <2>3, FoldExists
  <2> DEFINE e == [s \in SUBSET admins |->
       IF s = {} THEN base ELSE RegisterObservedKey(CHOOSE k \in s : TRUE, f[s \ {CHOOSE k \in s : TRUE}])]
  <2>5. ASSUME NEW s \in SUBSET admins
        PROVE  f[s] = e[s]
    <3>1. f[s] = IF s = {} THEN base ELSE g[<<c[s], f[s \ {c[s]}]>>]
      BY <2>4 DEF IsFold
    <3>2. s # {} => f[s \ {c[s]}] \in W[s \ {c[s]}]
      BY <2>4 DEF IsFold
    <3> QED
      BY <1>1, <1>2, <3>1, <3>2
  <2>6. f = [s \in SUBSET admins |-> f[s]]
    BY <2>4 DEF IsFold
  <2>7. f = e
    BY <2>5, <2>6
  <2> QED
    BY <2>7
<1> DEFINE iter == CHOOSE it : Filed(it)
<1>4. Registered(d, admins) = iter[admins]
  BY DEF Registered, FoldSet, MapThenFoldSet
<1>5. Filed(iter)
  BY <1>3
<1> HIDE DEF iter
<1>6. \A s \in SUBSET admins : iter[s] \in W[s]
  <2> DEFINE Bad == {s \in SUBSET admins : iter[s] \notin W[s]}
  <2> SUFFICES ASSUME Bad # {} PROVE FALSE
    OBVIOUS
  <2>1. PICK s \in Bad : \A u \in SUBSET s : u # s => u \notin Bad
    <3>1. Bad \subseteq SUBSET admins
      OBVIOUS
    <3> HIDE DEF Bad
    <3> QED
      BY <3>1, LeastSubset
  <2>2. s \in SUBSET admins /\ iter[s] \notin W[s]
    OBVIOUS
  <2> DEFINE k == CHOOSE x \in s : TRUE
  <2>3. iter[s] = IF s = {} THEN base ELSE RegisterObservedKey(k, iter[s \ {k}])
    BY <1>5, <2>2
  <2>4. s # {}
    BY <2>2, <2>3
  <2>5. k \in s
    BY <2>4
  <2>6. iter[s \ {k}] \in W[s \ {k}]
    BY <2>1, <2>2, <2>5
  <2> QED
    BY <2>2, <2>3, <2>4, <2>5, <2>6
<1> QED
  BY <1>4, <1>6

-----------------------------------------------------------------------------
(* Databases, and what holds of one whatever the devices. *)
KeyFiles == [Owners -> Keys \cup {NoOne}]
Db    == [pub : KeyFiles, priv : KeyFiles, rows : [Ids -> Row \cup {NoOne}]]

Alone(d) == \A o \in Observed, p \in Owners : d.pub[o] # NoOne /\ d.pub[p] = d.pub[o] => p = o
Bare(d)  == \A o \in Observed : d.priv[o] = NoOne

Names(d, m)        == d.rows[m].authorized
Clean(d, m)        == \A o \in Names(d, m) : d.pub[o] # NoOne
Resolved(d, m, X)  == \A o \in Names(d, m) : d.pub[o] # NoOne \/ o \in X

SameFate(r, q) == r.management = q.management /\ r.archived = q.archived

LEMMA OwnersAre ==
  /\ Ids \subseteq Owners /\ AdminRefs \subseteq Owners /\ Observed \subseteq Owners
  /\ \A o \in Owners : o \in Ids \/ o \in AdminRefs \/ o \in Observed
  /\ \A o \in Ids \cup AdminRefs : o \notin Observed
  /\ \A o \in Ids : o \notin AdminRefs
  /\ NoOne \notin Keys /\ NoOne \notin Owners /\ NoOne \notin Row
BY RegistryAssumption DEF Owners

LEMMA DbIs ==
  ASSUME NEW d \in Db
  PROVE  /\ d.pub \in KeyFiles /\ d.priv \in KeyFiles /\ d.rows \in [Ids -> Row \cup {NoOne}]
         /\ \A o \in Owners : d.pub[o] \in Keys \cup {NoOne} /\ d.priv[o] \in Keys \cup {NoOne}
         /\ \A m \in Ids : HasRow(d, m) =>
              /\ d.rows[m] \in Row
              /\ Names(d, m) \subseteq Owners /\ d.rows[m].unregistered \subseteq Keys
BY DEF Db, KeyFiles, HasRow, Row, Names

(* What adopt_canonical_ref keeps: the keys of every row, under other names. *)
LEMMA FollowKeeps ==
  ASSUME NEW d \in Db, NEW k \in Keys, NEW owner \in Owners \ Observed, d.pub[owner] = k
  PROVE  LET e == AdoptCanonicalRef(d, k, owner) IN
         /\ e \in Db /\ e.priv = d.priv
         /\ \A o \in Owners : e.pub[o] = IF o \in Observed /\ d.pub[o] = k THEN NoOne ELSE d.pub[o]
         /\ \A m \in Ids :
              /\ HasRow(e, m) <=> HasRow(d, m)
              /\ HasRow(d, m) =>
                   /\ NamedBy(e, m) = NamedBy(d, m)
                   /\ \A o \in Names(e, m) : o = owner \/ (o \in Names(d, m) /\ e.pub[o] = d.pub[o])
                   /\ SameFate(e.rows[m], d.rows[m])
<1> DEFINE stale == Holders(d, k) \cap Observed
           Follow(row) ==
             IF row.authorized \cap stale = {} /\ k \notin row.unregistered THEN row
             ELSE [row EXCEPT !.authorized = (@ \ stale) \cup {owner}, !.unregistered = @ \ {k}]
           rows == [i \in Ids |-> IF HasRow(d, i) THEN Follow(d.rows[i]) ELSE NoOne]
           pub == [o \in Owners |-> IF o \in stale THEN NoOne ELSE d.pub[o]]
           e == AdoptCanonicalRef(d, k, owner)
<1>1. e = [d EXCEPT !.rows = rows, !.pub = pub]
  BY DEF AdoptCanonicalRef
<1>2. stale = {o \in Observed : d.pub[o] = k} /\ stale \subseteq Owners
  BY OwnersAre DEF Holders
<1>3. ASSUME NEW row \in Row
      PROVE  /\ Follow(row) \in Row
             /\ \A o \in Follow(row).authorized : o = owner \/ (o \in row.authorized /\ o \notin stale)
             /\ {pub[o] : o \in Follow(row).authorized} \cup Follow(row).unregistered
                  = {d.pub[o] : o \in row.authorized} \cup row.unregistered
             /\ SameFate(Follow(row), row)
  <2> HIDE DEF stale, pub
  <2>0. /\ row.authorized \subseteq Owners /\ row.unregistered \subseteq Keys
        /\ owner \in Owners /\ owner \notin stale
        /\ \A o \in Owners : pub[o] = IF o \in stale THEN NoOne ELSE d.pub[o]
        /\ \A o \in stale : d.pub[o] = k
    BY <1>2, OwnersAre DEF Row, pub
  <2>1. CASE row.authorized \cap stale = {} /\ k \notin row.unregistered
    <3>1. Follow(row) = row
      BY <2>1
    <3>2. {pub[o] : o \in row.authorized} = {d.pub[o] : o \in row.authorized}
      BY <2>0, <2>1
    <3> QED
      BY <2>0, <2>1, <3>1, <3>2 DEF SameFate
  <2>2. CASE ~(row.authorized \cap stale = {} /\ k \notin row.unregistered)
    <3>1. Follow(row) = [row EXCEPT !.authorized = (row.authorized \ stale) \cup {owner},
                                    !.unregistered = row.unregistered \ {k}]
      BY <2>2
    <3> HIDE DEF Follow
    <3>2. /\ Follow(row).authorized = (row.authorized \ stale) \cup {owner}
          /\ Follow(row).unregistered = row.unregistered \ {k} /\ Follow(row) \in Row
          /\ SameFate(Follow(row), row)
      <4> DEFINE au == (row.authorized \ stale) \cup {owner}
                 un == row.unregistered \ {k}
      <4>1. au \in SUBSET Owners /\ un \in SUBSET Keys
        BY <2>0
      <4> HIDE DEF au, un
      <4>2. Follow(row) = [row EXCEPT !.authorized = au, !.unregistered = un]
        BY <3>1 DEF au, un
      <4>3. /\ Follow(row).authorized = au /\ Follow(row).unregistered = un
            /\ Follow(row) \in Row /\ SameFate(Follow(row), row)
        BY <4>1, <4>2 DEF Row, SameFate
      <4> QED
        BY <4>3 DEF au, un
    <3> DEFINE A == row.authorized
               U == row.unregistered
               Then == {pub[o] : o \in (A \ stale) \cup {owner}} \cup (U \ {k})
               Before == {d.pub[o] : o \in A} \cup U
    <3>3. pub[owner] = k
      BY <2>0
    <3>4. k \in Then /\ k \in Before
      <4>1. k \in {pub[o] : o \in (A \ stale) \cup {owner}}
        BY <3>3
      <4>2. CASE k \in U
        BY <4>1, <4>2
      <4>3. CASE k \notin U
        <5>1. PICK o \in A : o \in stale
          BY <2>2, <4>3
        <5>2. d.pub[o] = k
          BY <2>0, <5>1
        <5> QED
          BY <4>1, <5>1, <5>2
      <4> QED
        BY <4>2, <4>3
    <3>5. Then \subseteq Before
      <4>1. ASSUME NEW o \in A \ stale PROVE pub[o] \in Before
        <5>1. pub[o] = d.pub[o]
          BY <2>0
        <5> QED
          BY <5>1
      <4> QED
        BY <3>3, <3>4, <4>1
    <3>6. Before \subseteq Then
      <4>1. ASSUME NEW o \in A PROVE d.pub[o] \in Then
        <5>1. CASE o \in stale
          BY <2>0, <3>4, <5>1
        <5>2. CASE o \notin stale
          <6>1. pub[o] = d.pub[o]
            BY <2>0, <5>2
          <6> QED
            BY <5>2, <6>1
        <5> QED
          BY <5>1, <5>2
      <4>2. ASSUME NEW x \in U PROVE x \in Then
        BY <3>4
      <4> QED
        BY <4>1, <4>2
    <3>7. Then = Before
      BY <3>5, <3>6
    <3> QED
      BY <3>2, <3>7
  <2> QED
    BY <2>1, <2>2
<1>4. /\ d = [pub |-> d.pub, priv |-> d.priv, rows |-> d.rows]
      /\ e.pub = pub /\ e.priv = d.priv /\ e.rows = rows
      /\ e = [pub |-> pub, priv |-> d.priv, rows |-> rows]
  BY <1>1 DEF Db
<1>5. \A m \in Ids : HasRow(d, m) => rows[m] = Follow(d.rows[m]) /\ d.rows[m] \in Row
  BY DbIs
<1>6. rows \in [Ids -> Row \cup {NoOne}] /\ pub \in KeyFiles
  <2>1. \A m \in Ids : rows[m] \in Row \cup {NoOne}
    BY <1>3, <1>5
  <2>2. \A o \in Owners : pub[o] \in Keys \cup {NoOne}
    BY DbIs
  <2> QED
    BY <2>1, <2>2 DEF KeyFiles
<1>7. e \in Db
  BY <1>4, <1>6, DbIs DEF Db
<1>8. \A o \in Owners : e.pub[o] = IF o \in Observed /\ d.pub[o] = k THEN NoOne ELSE d.pub[o]
  BY <1>2, <1>4
<1>9. ASSUME NEW m \in Ids
      PROVE  /\ HasRow(e, m) <=> HasRow(d, m)
             /\ HasRow(d, m) =>
                  /\ NamedBy(e, m) = NamedBy(d, m)
                  /\ \A o \in Names(e, m) : o = owner \/ (o \in Names(d, m) /\ e.pub[o] = d.pub[o])
                  /\ SameFate(e.rows[m], d.rows[m])
  <2> HIDE DEF stale, Follow, e
  <2>1. CASE HasRow(d, m)
    <3>1. e.rows[m] = Follow(d.rows[m]) /\ d.rows[m] \in Row /\ Follow(d.rows[m]) \in Row
      BY <1>3, <1>4, <1>5, <2>1
    <3>2. HasRow(e, m)
      BY <3>1, OwnersAre DEF HasRow
    <3>3. \A o \in Names(d, m) : o \in Owners /\ (o \notin stale => e.pub[o] = d.pub[o])
      BY <1>4, <2>1, DbIs
    <3>4. Names(e, m) = Follow(d.rows[m]).authorized
      BY <3>1 DEF Names
    <3>5. NamedBy(e, m) = {pub[o] : o \in Follow(d.rows[m]).authorized} \cup Follow(d.rows[m]).unregistered
      BY <1>4, <3>1 DEF NamedBy
    <3>6. NamedBy(e, m) = NamedBy(d, m)
      BY <1>3, <3>1, <3>5 DEF NamedBy
    <3>7. \A o \in Names(e, m) : o = owner \/ (o \in Names(d, m) /\ e.pub[o] = d.pub[o])
      BY <1>3, <3>1, <3>3, <3>4 DEF Names
    <3>8. SameFate(e.rows[m], d.rows[m])
      BY <1>3, <3>1
    <3> QED
      BY <2>1, <3>2, <3>6, <3>7, <3>8
  <2>2. CASE ~HasRow(d, m)
    BY <1>4, <2>2 DEF HasRow
  <2> QED
    BY <2>1, <2>2
<1> QED
  BY <1>4, <1>7, <1>8, <1>9

LEMMA PreferredHolds ==
  ASSUME NEW holders, holders # {}
  PROVE  Preferred(holders) \in holders
<1> DEFINE P(o) == /\ holders \cap AdminRefs # {} => o \in AdminRefs
                   /\ holders \ Observed # {} => o \notin Observed
<1>1. \E o \in holders : P(o)
  <2>1. CASE holders \cap AdminRefs # {}
    <3>1. PICK o \in holders : o \in AdminRefs
      BY <2>1
    <3>2. o \notin Observed
      BY <3>1, OwnersAre
    <3> QED
      BY <3>1, <3>2
  <2>2. CASE holders \cap AdminRefs = {} /\ holders \ Observed # {}
    BY <2>2
  <2>3. CASE holders \cap AdminRefs = {} /\ holders \ Observed = {}
    BY <2>3
  <2> QED
    BY <2>1, <2>2, <2>3
<1> QED
  BY <1>1 DEF Preferred

(* What registering keys, one after the other, has come to: nothing moves, *)
(* and the references are those of the keys done, all of them if minted.   *)
Filings(d, s) ==
  {f \in [db : Db, refs : SUBSET Owners, minted : BOOLEAN] :
     /\ f.db.rows = d.rows /\ f.db.priv = d.priv /\ Alone(f.db)
     /\ \A o \in Owners : f.db.pub[o] = d.pub[o] \/ (d.pub[o] = NoOne /\ o \in Observed)
     /\ \A r \in f.refs : f.db.pub[r] \in s
     /\ f.minted => \A k \in s : \E r \in f.refs : f.db.pub[r] = k}

LEMMA RegisterOne ==
  ASSUME NEW d \in Db, NEW s \in SUBSET Keys, NEW k \in s, NEW f \in Filings(d, s \ {k})
  PROVE  RegisterObservedKey(k, f) \in Filings(d, s)
<1> DEFINE ref == RefFor(f.db, k)
           g == RegisterObservedKey(k, f)
<1>1. /\ f \in [db : Db, refs : SUBSET Owners, minted : BOOLEAN]
      /\ f.db.rows = d.rows /\ f.db.priv = d.priv /\ Alone(f.db)
      /\ \A o \in Owners : f.db.pub[o] = d.pub[o] \/ (d.pub[o] = NoOne /\ o \in Observed)
      /\ \A r \in f.refs : f.db.pub[r] \in s \ {k}
      /\ f.minted => \A x \in s \ {k} : \E r \in f.refs : f.db.pub[r] = x
      /\ f.db \in Db /\ f.refs \subseteq Owners
  BY DEF Filings
<1>2. \/ ref = NoOne
      \/ ref \in Owners /\ f.db.pub[ref] = k
      \/ ref \in Observed /\ f.db.pub[ref] = NoOne /\ Holders(f.db, k) = {}
  <2>1. CASE Holders(f.db, k) # {}
    <3>1. ref \in Holders(f.db, k)
      BY <2>1, PreferredHolds DEF RefFor
    <3> QED
      BY <3>1 DEF Holders
  <2>2. CASE Holders(f.db, k) = {}
    <3>1. Short[k] \in Observed /\ Wide[k] \in Observed
      BY RegistryAssumption
    <3> QED
      BY <2>2, <3>1 DEF RefFor
  <2> QED
    BY <2>1, <2>2
<1>3. CASE ref = NoOne
  <2>1. g = [f EXCEPT !.minted = FALSE]
    BY <1>3 DEF RegisterObservedKey
  <2>2. /\ g \in [db : Db, refs : SUBSET Owners, minted : BOOLEAN]
        /\ g.db = f.db /\ g.refs = f.refs /\ g.minted = FALSE
    BY <1>1, <2>1
  <2> HIDE DEF g
  <2>3. g \in Filings(d, s)
    BY <1>1, <2>2 DEF Filings
  <2> QED
    BY <2>3 DEF g
<1>4. CASE ref # NoOne
  <2> DEFINE pub == [f.db.pub EXCEPT ![ref] = k]
  <2>1. ref \in Owners
    BY <1>2, <1>4, OwnersAre
  <2>2. g = [f EXCEPT !.db.pub[ref] = k, !.refs = @ \cup {ref}]
    BY <1>4 DEF RegisterObservedKey
  <2>3. /\ pub \in KeyFiles
        /\ \A o \in Owners : pub[o] = IF o = ref THEN k ELSE f.db.pub[o]
    BY <1>1, <2>1, DbIs DEF KeyFiles
  <2>4. /\ f.db = [pub |-> f.db.pub, priv |-> f.db.priv, rows |-> f.db.rows]
        /\ f = [db |-> f.db, refs |-> f.refs, minted |-> f.minted]
    BY <1>1 DEF Db
  <2> HIDE DEF ref
  <2>5. g = [db |-> [pub |-> pub, priv |-> f.db.priv, rows |-> f.db.rows],
             refs |-> f.refs \cup {ref}, minted |-> f.minted]
    <3> HIDE DEF g
    <3> QED
      BY <2>2, <2>4
  <2> HIDE DEF g, pub
  <2>6. [pub |-> pub, priv |-> f.db.priv, rows |-> f.db.rows] \in Db
    BY <1>1, <2>3 DEF Db
  <2>7. /\ g \in [db : Db, refs : SUBSET Owners, minted : BOOLEAN]
        /\ g.db.pub = pub /\ g.db.priv = f.db.priv /\ g.db.rows = f.db.rows
        /\ g.refs = f.refs \cup {ref} /\ g.minted = f.minted
    BY <1>1, <2>1, <2>5, <2>6
  <2>8. \A o \in Owners : f.db.pub[o] # NoOne => pub[o] = f.db.pub[o]
    BY <1>2, <1>4, <2>3
  <2>9. \A o \in Owners : pub[o] = d.pub[o] \/ (d.pub[o] = NoOne /\ o \in Observed)
    <3>1. CASE f.db.pub[ref] = k
      BY <1>1, <2>3, <3>1
    <3>2. CASE ref \in Observed /\ f.db.pub[ref] = NoOne
      BY <1>1, <2>3, <3>2
    <3> QED
      BY <1>2, <1>4, <3>1, <3>2
  <2>10. Alone(g.db)
    <3> SUFFICES ASSUME NEW o \in Observed, NEW p \in Owners, pub[o] # NoOne, pub[p] = pub[o], p # o
                 PROVE  FALSE
      BY <2>7 DEF Alone
    <3>1. o \in Owners
      BY OwnersAre
    <3>2. CASE f.db.pub[ref] = k
      <4>1. f.db.pub[o] = pub[o] /\ f.db.pub[p] = pub[p]
        BY <2>3, <3>1, <3>2
      <4> QED
        BY <1>1, <4>1 DEF Alone
    <3>3. CASE Holders(f.db, k) = {}
      <4>1. \A x \in Owners : f.db.pub[x] # k
        BY <3>3 DEF Holders
      <4> QED
        BY <1>1, <2>3, <3>1, <4>1 DEF Alone
    <3> QED
      BY <1>2, <1>4, <3>2, <3>3
  <2>11. \A r \in g.refs : pub[r] \in s
    <3>1. pub[ref] = k
      BY <2>1, <2>3
    <3>2. ASSUME NEW r \in f.refs PROVE pub[r] \in s
      BY <1>1, <2>3, <3>1
    <3> QED
      BY <2>7, <3>1, <3>2
  <2>12. g.minted => \A x \in s : \E r \in g.refs : pub[r] = x
    <3> SUFFICES ASSUME g.minted, NEW x \in s PROVE \E r \in g.refs : pub[r] = x
      OBVIOUS
    <3>1. CASE x = k
      BY <2>1, <2>3, <2>7, <3>1
    <3>2. CASE x # k
      <4>1. PICK r \in f.refs : f.db.pub[r] = x
        BY <1>1, <2>7, <3>2
      <4>2. r \in Owners /\ x # NoOne
        BY <1>1, OwnersAre
      <4>3. pub[r] = x
        BY <2>8, <4>1, <4>2
      <4> QED
        BY <2>7, <4>3
    <3> QED
      BY <3>1, <3>2
  <2>13. g \in Filings(d, s)
    BY <1>1, <2>7, <2>9, <2>10, <2>11, <2>12 DEF Filings
  <2> QED
    BY <2>13 DEF g
<1> QED
  BY <1>3, <1>4

LEMMA RegistersThem ==
  ASSUME NEW d \in Db, Alone(d), NEW admins \in SUBSET Keys
  PROVE  Registered(d, admins) \in Filings(d, admins)
<1> DEFINE W == [s \in SUBSET admins |-> Filings(d, s)]
<1>1. IsFiniteSet(admins)
  BY RegistryAssumption, FS_Subset
<1>2. [db |-> d, refs |-> {}, minted |-> TRUE] \in W[{}]
  BY DEF Filings
<1>3. ASSUME NEW s \in SUBSET admins, NEW k \in s, NEW v \in W[s \ {k}]
      PROVE  RegisterObservedKey(k, v) \in W[s]
  <2>1. s \in SUBSET Keys /\ s \ {k} \in SUBSET admins
    OBVIOUS
  <2>2. v \in Filings(d, s \ {k})
    BY <2>1
  <2> QED
    BY <2>1, <2>2, RegisterOne
<1> HIDE DEF W
<1>4. Registered(d, admins) \in W[admins]
  BY <1>1, <1>2, <1>3, RegisteredIs
<1> QED
  BY <1>4 DEF W

(* A reference is given a key, and what had that key's observed owner      *)
(* follows: what `admin import`, an adoption and an alias do.              *)
Keyed(d, o, k, p) ==
  [pub |-> [d.pub EXCEPT ![o] = k], priv |-> [d.priv EXCEPT ![o] = p], rows |-> d.rows]

Rekeyed(d, o, k, p) == AdoptCanonicalRef(Keyed(d, o, k, p), k, o)

LEMMA KeyedIs ==
  ASSUME NEW d \in Db, NEW i \in Owners, NEW k \in Keys, NEW p \in Keys \cup {NoOne}
  PROVE  LET e == Keyed(d, i, k, p) IN
         /\ e \in Db /\ e.rows = d.rows
         /\ \A o \in Owners : e.pub[o] = IF o = i THEN k ELSE d.pub[o]
         /\ \A o \in Owners : e.priv[o] = IF o = i THEN p ELSE d.priv[o]
<1> DEFINE pub == [d.pub EXCEPT ![i] = k]
           priv == [d.priv EXCEPT ![i] = p]
<1>1. /\ pub \in KeyFiles /\ priv \in KeyFiles
      /\ \A o \in Owners : pub[o] = IF o = i THEN k ELSE d.pub[o]
      /\ \A o \in Owners : priv[o] = IF o = i THEN p ELSE d.priv[o]
  BY DbIs DEF KeyFiles
<1>2. d.rows \in [Ids -> Row \cup {NoOne}]
  BY DbIs
<1>3. Keyed(d, i, k, p) = [pub |-> pub, priv |-> priv, rows |-> d.rows]
  BY DEF Keyed
<1> HIDE DEF pub, priv
<1> QED
  BY <1>1, <1>2, <1>3 DEF Db

LEMMA RekeyedIs ==
  ASSUME NEW d \in Db, NEW i \in Owners \ Observed, NEW k \in Keys, NEW p \in Keys \cup {NoOne}
  PROVE  LET e == Rekeyed(d, i, k, p) IN
         /\ e \in Db
         /\ \A o \in Owners : e.pub[o] = IF o = i THEN k
                                         ELSE IF o \in Observed /\ d.pub[o] = k THEN NoOne
                                         ELSE d.pub[o]
         /\ \A o \in Owners : e.priv[o] = IF o = i THEN p ELSE d.priv[o]
         /\ Alone(d) => Alone(e)
         /\ \A m \in Ids :
              /\ HasRow(e, m) <=> HasRow(d, m)
              /\ HasRow(d, m) =>
                   /\ SameFate(e.rows[m], d.rows[m])
                   /\ \A o \in Names(e, m) : o = i \/ (o \in Names(d, m) /\ e.pub[o] = d.pub[o])
                   /\ Clean(d, m) /\ (i \in Names(d, m) => d.pub[i] = k)
                        => NamedBy(e, m) = NamedBy(d, m) /\ Clean(e, m)
<1> DEFINE own == Keyed(d, i, k, p)
           e == Rekeyed(d, i, k, p)
<1>1. /\ own \in Db /\ own.rows = d.rows
      /\ \A o \in Owners : own.pub[o] = IF o = i THEN k ELSE d.pub[o]
      /\ \A o \in Owners : own.priv[o] = IF o = i THEN p ELSE d.priv[o]
  BY KeyedIs
<1> HIDE DEF own
<1>2. /\ e = AdoptCanonicalRef(own, k, i)
      /\ e \in Db /\ e.priv = own.priv
      /\ \A o \in Owners : e.pub[o] = IF o \in Observed /\ own.pub[o] = k THEN NoOne ELSE own.pub[o]
      /\ \A m \in Ids :
           /\ HasRow(e, m) <=> HasRow(own, m)
           /\ HasRow(own, m) =>
                /\ NamedBy(e, m) = NamedBy(own, m)
                /\ \A o \in Names(e, m) : o = i \/ (o \in Names(own, m) /\ e.pub[o] = own.pub[o])
                /\ SameFate(e.rows[m], own.rows[m])
  <2>1. e = AdoptCanonicalRef(own, k, i)
    BY DEF Rekeyed, own
  <2>2. own.pub[i] = k
    BY <1>1
  <2> QED
    BY <1>1, <2>1, <2>2, FollowKeeps
<1> HIDE DEF e
<1>3. \A o \in Owners : e.pub[o] = IF o = i THEN k
                                   ELSE IF o \in Observed /\ d.pub[o] = k THEN NoOne ELSE d.pub[o]
  BY <1>1, <1>2
<1>4. Alone(d) => Alone(e)
  <2> SUFFICES ASSUME Alone(d), NEW o \in Observed, NEW q \in Owners, e.pub[o] # NoOne, e.pub[q] = e.pub[o]
               PROVE  q = o
    BY DEF Alone
  <2>1. o \in Owners /\ o # i
    BY OwnersAre
  <2>2. e.pub[o] = d.pub[o] /\ d.pub[o] # k
    BY <1>3, <2>1
  <2>3. e.pub[q] = d.pub[q]
    BY <1>3, <2>2
  <2> QED
    BY <2>2, <2>3 DEF Alone
<1>5. ASSUME NEW m \in Ids
      PROVE  /\ HasRow(e, m) <=> HasRow(d, m)
             /\ HasRow(d, m) =>
                  /\ SameFate(e.rows[m], d.rows[m])
                  /\ \A o \in Names(e, m) : o = i \/ (o \in Names(d, m) /\ e.pub[o] = d.pub[o])
                  /\ Clean(d, m) /\ (i \in Names(d, m) => d.pub[i] = k)
                       => NamedBy(e, m) = NamedBy(d, m) /\ Clean(e, m)
  <2>1. HasRow(own, m) <=> HasRow(d, m)
    BY <1>1 DEF HasRow
  <2>2. Names(own, m) = Names(d, m) /\ own.rows[m] = d.rows[m]
    BY <1>1 DEF Names
  <2> SUFFICES ASSUME HasRow(d, m)
               PROVE  /\ SameFate(e.rows[m], d.rows[m])
                      /\ \A o \in Names(e, m) : o = i \/ (o \in Names(d, m) /\ e.pub[o] = d.pub[o])
                      /\ Clean(d, m) /\ (i \in Names(d, m) => d.pub[i] = k)
                           => NamedBy(e, m) = NamedBy(d, m) /\ Clean(e, m)
    BY <1>2, <2>1
  <2>3. Names(d, m) \subseteq Owners /\ Names(e, m) \subseteq Owners
    BY <1>2, <2>1, DbIs
  <2>4. \A o \in Names(e, m) : o = i \/ (o \in Names(d, m) /\ e.pub[o] = d.pub[o])
    BY <1>1, <1>2, <2>1, <2>2, <2>3
  <2>5. ASSUME Clean(d, m), i \in Names(d, m) => d.pub[i] = k
        PROVE  NamedBy(e, m) = NamedBy(d, m) /\ Clean(e, m)
    <3>1. \A o \in Names(d, m) : own.pub[o] = d.pub[o]
      BY <1>1, <2>3, <2>5
    <3>2. NamedBy(own, m) = NamedBy(d, m)
      BY <2>2, <3>1 DEF NamedBy, Names
    <3>3. Clean(e, m)
      <4>1. e.pub[i] = k /\ k # NoOne
        BY <1>3, OwnersAre
      <4> QED
        BY <2>4, <2>5, <4>1 DEF Clean
    <3> QED
      BY <1>2, <2>1, <3>2, <3>3
  <2> QED
    BY <1>2, <2>1, <2>2, <2>4, <2>5
<1>6. e \in Db /\ \A o \in Owners : e.priv[o] = IF o = i THEN p ELSE d.priv[o]
  BY <1>1, <1>2
<1> QED
  BY <1>3, <1>4, <1>5, <1>6 DEF e

-----------------------------------------------------------------------------
(* What holds between any two commands.  A row that no operation was       *)
(* allowed to change names keys, and only those it was written for; an id  *)
(* that has no row has nothing filed that a new row could take over.       *)
RegistryTypes ==
  /\ device \in [Devices -> [id : Ids, key : Keys, admins : SUBSET Keys, derives : BOOLEAN]]
  /\ template \in Templates /\ db \in Db
  /\ told \in [Ids -> SUBSET Keys] /\ repointed \subseteq Ids

GapsAreEmpty == \A m \in Ids : ~HasRow(db, m) => db.priv[m] = NoOne /\ told[m] = {}

RegistryInv ==
  /\ RegistryTypes /\ Alone(db) /\ Bare(db) /\ GapsAreEmpty
  /\ RefsResolve /\ PrivatesMatch /\ RowsKeepTheirMeaning

LEMMA MeantRowsAreClean ==
  ASSUME RegistryInv, NEW m \in Ids \ repointed, HasRow(db, m)
  PROVE  Clean(db, m) /\ NamedBy(db, m) = told[m]
<1>1. NamedBy(db, m) = told[m] /\ told[m] \in SUBSET Keys
  BY DEF RegistryInv, RegistryTypes, RowsKeepTheirMeaning
<1>2. \A o \in Names(db, m) : db.pub[o] \in NamedBy(db, m)
  BY DEF Names, NamedBy
<1> QED
  BY <1>1, <1>2, OwnersAre DEF Clean

LEMMA InUseIs ==
  ASSUME RegistryInv
  PROVE  /\ InUse(db) \subseteq Owners
         /\ template \subseteq AdminRefs
         /\ \A m \in Ids : Governs(db, m) => Names(db, m) \subseteq InUse(db)
<1>1. template \subseteq AdminRefs
  BY RegistryAssumption DEF RegistryInv, RegistryTypes
<1>2. \A m \in Ids : Governs(db, m) => Names(db, m) \subseteq Owners
  BY DbIs DEF RegistryInv, RegistryTypes, Governs
<1> QED
  BY <1>1, <1>2, OwnersAre DEF InUse, Names

(* A node whose key no managed row and no template names: the rows that    *)
(* name it are those that nothing protects.                                *)
LEMMA NamersAreUnprotected ==
  ASSUME RegistryInv, NEW i \in Ids, NodeKeyAdminRefs(db, i) = {},
         NEW m \in Ids, HasRow(db, m), i \in Names(db, m), Clean(db, m)
  PROVE  m \in Unprotected(i) /\ db.pub[i] # NoOne
<1>1. db.pub[i] # NoOne
  BY DEF Clean
<1>2. i \in Holders(db, db.pub[i])
  BY OwnersAre DEF Holders
<1>3. i \notin InUse(db)
  BY <1>1, <1>2 DEF NodeKeyAdminRefs
<1>4. ~Governs(db, m)
  BY <1>3, InUseIs
<1> QED
  BY <1>1, <1>4 DEF Unprotected, Names

LEMMA InitIsSound == RegistryInit => RegistryInv
<1> SUFFICES ASSUME RegistryInit PROVE RegistryInv
  OBVIOUS
<1> USE DEF RegistryInit
<1>1. /\ \A o \in Owners : db.pub[o] = NoOne /\ db.priv[o] = NoOne
      /\ db.pub \in KeyFiles /\ db.priv \in KeyFiles
  BY DEF KeyFiles
<1>2. ASSUME NEW m \in Ids
      PROVE  /\ db.rows[m] \in Row \cup {NoOne}
             /\ HasRow(db, m) => Names(db, m) = {} /\ NamedBy(db, m) = Legacy[m]
             /\ ~HasRow(db, m) => Legacy[m] = {}
  <2> DEFINE row == [management |-> "observed", archived |-> FALSE,
                     authorized |-> {}, unregistered |-> Legacy[m]]
  <2>1. db.rows[m] = IF Legacy[m] = {} THEN NoOne ELSE row
    OBVIOUS
  <2>2. row \in Row
    BY RegistryAssumption DEF Row
  <2>3. row # NoOne
    BY <2>2, OwnersAre
  <2> QED
    BY <2>1, <2>2, <2>3 DEF HasRow, Names, NamedBy
<1>3. db \in Db
  <2>1. db.rows = [m \in Ids |-> db.rows[m]]
    OBVIOUS
  <2>2. db.rows \in [Ids -> Row \cup {NoOne}]
    BY <1>2, <2>1
  <2> QED
    BY <1>1, <2>2 DEF Db
<1>4. RegistryTypes
  BY <1>3, RegistryAssumption DEF RegistryTypes
<1>5. Alone(db) /\ Bare(db) /\ GapsAreEmpty
  BY <1>1, <1>2, OwnersAre DEF Alone, Bare, GapsAreEmpty
<1>6. RefsResolve /\ PrivatesMatch /\ RowsKeepTheirMeaning
  BY <1>1, <1>2 DEF RefsResolve, PrivatesMatch, RowsKeepTheirMeaning, Names
<1> QED
  BY <1>4, <1>5, <1>6 DEF RegistryInv

(* What other hands do leaves the two sheets alone. *)
LEMMA OthersKeep ==
  ASSUME RegistryInv, UNCHANGED <<db, told, repointed, overwritten, strays>>,
         template' \in Templates,
         device' \in [Devices -> [id : Ids, key : Keys, admins : SUBSET Keys, derives : BOOLEAN]]
  PROVE  RegistryInv'
BY DEF RegistryInv, RegistryTypes, GapsAreEmpty, RefsResolve, PrivatesMatch, RowsKeepTheirMeaning,
       Alone, Bare, HasRow, NamedBy, Holders

LEMMA ForgetKeeps ==
  ASSUME RegistryInv, NEW i \in Ids, DbForget(i)
  PROVE  RegistryInv' /\ db'.pub = db.pub
<1> DEFINE row == [db.rows[i] EXCEPT !.archived = TRUE]
           rows == [db.rows EXCEPT ![i] = row]
<1>1. db \in Db /\ HasRow(db, i)
  BY DEF RegistryInv, RegistryTypes, DbForget
<1>2. db' = [db EXCEPT !.rows = rows]
  BY DEF DbForget
<1>3. /\ row \in Row /\ row # NoOne
      /\ row.authorized = db.rows[i].authorized /\ row.unregistered = db.rows[i].unregistered
  <2>1. db.rows[i] \in Row
    BY <1>1, DbIs
  <2>2. row \in Row /\ row.authorized = db.rows[i].authorized /\ row.unregistered = db.rows[i].unregistered
    BY <2>1 DEF Row
  <2> QED
    BY <2>2, OwnersAre
<1> HIDE DEF row
<1>4. /\ rows \in [Ids -> Row \cup {NoOne}]
      /\ \A m \in Ids : rows[m] = IF m = i THEN row ELSE db.rows[m]
  BY <1>1, <1>3, DbIs
<1> HIDE DEF rows
<1>5. db' \in Db /\ db'.pub = db.pub /\ db'.priv = db.priv /\ db'.rows = rows
  BY <1>1, <1>2, <1>4 DEF Db
<1>6. ASSUME NEW m \in Ids
      PROVE  /\ HasRow(db', m) <=> HasRow(db, m)
             /\ HasRow(db, m) => /\ db'.rows[m].authorized = db.rows[m].authorized
                                 /\ NamedBy(db', m) = NamedBy(db, m)
  BY <1>1, <1>3, <1>4, <1>5 DEF HasRow, NamedBy
<1>7. UNCHANGED <<device, template, told, repointed, overwritten, strays>>
  BY DEF DbForget
<1>8. RegistryTypes'
  BY <1>5, <1>7 DEF RegistryInv, RegistryTypes
<1>9. (Alone(db) /\ Bare(db) /\ PrivatesMatch)'
  BY <1>5, <1>7 DEF RegistryInv, Alone, Bare, PrivatesMatch
<1>10. GapsAreEmpty'
  BY <1>5, <1>6, <1>7 DEF RegistryInv, GapsAreEmpty
<1>11. RefsResolve'
  BY <1>5, <1>6, <1>7 DEF RegistryInv, RefsResolve
<1>12. RowsKeepTheirMeaning'
  BY <1>6, <1>7 DEF RegistryInv, RowsKeepTheirMeaning
<1> QED
  BY <1>5, <1>8, <1>9, <1>10, <1>11, <1>12 DEF RegistryInv

AdminKeysStay ==
  \A o \in InUse(db) :
    db.pub[o] # NoOne /\ IsRecorded(db.pub, db.pub[o]) => IsRecorded(db'.pub, db.pub[o])

LEMMA ImportKeeps ==
  ASSUME RegistryInv, NEW ref \in AdminRefs \cup Ids, NEW k \in Keys, AdminImport(ref, k)
  PROVE  RegistryInv' /\ (Overwrites \/ AdminKeysStay)
<1>1. db \in Db /\ ref \in Owners \ Observed /\ db.priv[ref] \in Keys \cup {NoOne}
  BY OwnersAre, DbIs DEF RegistryInv, RegistryTypes
<1>2. db' = Rekeyed(db, ref, k, db.priv[ref])
  <2>1. db = [pub |-> db.pub, priv |-> db.priv, rows |-> db.rows] /\ db.priv \in KeyFiles
    BY <1>1 DEF Db
  <2>2. [db.priv EXCEPT ![ref] = db.priv[ref]] = db.priv
    BY <1>1, <2>1 DEF KeyFiles
  <2>3. [db EXCEPT !.pub[ref] = k] = [pub |-> [db.pub EXCEPT ![ref] = k], priv |-> db.priv, rows |-> db.rows]
    BY <2>1
  <2>4. [db EXCEPT !.pub[ref] = k] = Keyed(db, ref, k, db.priv[ref])
    BY <2>2, <2>3 DEF Keyed
  <2> QED
    BY <2>4 DEF AdminImport, Rekeyed
<1>3. /\ db' \in Db
      /\ \A o \in Owners : db'.pub[o] = IF o = ref THEN k
                                        ELSE IF o \in Observed /\ db.pub[o] = k THEN NoOne
                                        ELSE db.pub[o]
      /\ \A o \in Owners : db'.priv[o] = IF o = ref THEN db.priv[ref] ELSE db.priv[o]
      /\ Alone(db) => Alone(db')
      /\ \A m \in Ids :
           /\ HasRow(db', m) <=> HasRow(db, m)
           /\ HasRow(db, m) =>
                /\ \A o \in Names(db', m) : o = ref \/ (o \in Names(db, m) /\ db'.pub[o] = db.pub[o])
                /\ Clean(db, m) /\ (ref \in Names(db, m) => db.pub[ref] = k)
                     => NamedBy(db', m) = NamedBy(db, m) /\ Clean(db', m)
  BY <1>1, <1>2, RekeyedIs
<1>4. /\ UNCHANGED <<device, template, told, strays>>
      /\ overwritten' = IF db.pub[ref] = NoOne THEN overwritten ELSE overwritten \cup {ref}
      /\ repointed' = repointed \cup
           IF db.pub[ref] = NoOne THEN {}
           ELSE {i \in Ids : HasRow(db, i) /\ ref \in db.rows[i].authorized}
      /\ db.pub[ref] # k
  BY DEF AdminImport
<1>5. RegistryTypes'
  BY <1>3, <1>4 DEF RegistryInv, RegistryTypes
<1>6. (Alone(db) /\ Bare(db))'
  <2>1. \A o \in Observed : db'.priv[o] = NoOne
    BY <1>1, <1>3, OwnersAre DEF RegistryInv, Bare
  <2>2. Alone(db')
    BY <1>3 DEF RegistryInv
  <2> QED
    BY <2>1, <2>2 DEF Alone, Bare
<1>7. GapsAreEmpty'
  BY <1>1, <1>3, <1>4, OwnersAre DEF RegistryInv, GapsAreEmpty
<1>8. RefsResolve'
  <2> SUFFICES ASSUME NEW m \in Ids, HasRow(db', m), NEW o \in Names(db', m)
               PROVE  db'.pub[o] # NoOne \/ o \in strays'
    BY DEF RefsResolve, Names
  <2>1. CASE o = ref
    BY <1>1, <1>3, <2>1, OwnersAre
  <2>2. CASE o # ref
    <3>1. o \in Names(db, m) /\ HasRow(db, m) /\ db'.pub[o] = db.pub[o]
      BY <1>3, <2>2
    <3> QED
      BY <1>4, <3>1 DEF RegistryInv, RefsResolve, Names
  <2> QED
    BY <2>1, <2>2
<1>9. PrivatesMatch'
  <2> SUFFICES ASSUME NEW o \in Owners, o \notin overwritten'
               PROVE  db'.priv[o] \in {NoOne, db'.pub[o]}
    BY DEF PrivatesMatch
  <2>1. o \notin overwritten /\ db.priv[o] \in {NoOne, db.pub[o]} /\ db'.priv[o] = db.priv[o]
    BY <1>3, <1>4 DEF RegistryInv, PrivatesMatch
  <2>2. CASE o = ref
    BY <1>4, <2>1, <2>2
  <2>3. CASE o \in Observed
    BY <2>1, <2>3 DEF RegistryInv, Bare
  <2>4. CASE o # ref /\ o \notin Observed
    BY <1>3, <2>1, <2>4
  <2> QED
    BY <2>2, <2>3, <2>4
<1>10. RowsKeepTheirMeaning'
  <2> SUFFICES ASSUME NEW m \in Ids, m \notin repointed', HasRow(db', m)
               PROVE  NamedBy(db', m) = told[m]
    BY <1>4 DEF RowsKeepTheirMeaning
  <2>1. m \notin repointed /\ HasRow(db, m)
    BY <1>3, <1>4
  <2>2. Clean(db, m) /\ NamedBy(db, m) = told[m]
    BY <2>1, MeantRowsAreClean
  <2>3. ref \notin Names(db, m)
    BY <1>4, <2>1, <2>2 DEF Clean, Names
  <2> QED
    BY <1>3, <2>1, <2>2, <2>3
<1>11. Overwrites \/ AdminKeysStay
  <2>1. CASE db.pub[ref] # NoOne
    BY <1>1, <2>1 DEF Overwrites
  <2>2. CASE db.pub[ref] = NoOne
    <3> SUFFICES ASSUME NEW o \in InUse(db), db.pub[o] # NoOne, NEW n \in Ids, db.pub[n] = db.pub[o]
                 PROVE  db'.pub[n] = db.pub[o]
      BY DEF AdminKeysStay, IsRecorded
    <3> QED
      BY <1>3, <2>2, OwnersAre
  <2> QED
    BY <2>1, <2>2
<1> QED
  BY <1>5, <1>6, <1>7, <1>8, <1>9, <1>10, <1>11 DEF RegistryInv

LEMMA AdoptionIs ==
  ASSUME db \in Db, Alone(db), NEW i \in Ids, NEW k \in Keys, NEW proven \in BOOLEAN,
         NEW admins \in SUBSET Keys
  PROVE  LET f == PersistAdoption(i, k, proven, admins)
             e == f.db
         IN
         /\ e \in Db /\ Alone(e)
         /\ \A o \in Owners \ Observed : e.pub[o] = IF o = i THEN k ELSE db.pub[o]
         /\ \A o \in Owners : e.priv[o] = IF o = i /\ proven THEN k ELSE db.priv[o]
         /\ HasRow(e, i) /\ \A o \in Names(e, i) : e.pub[o] # NoOne
         /\ f.minted => NamedBy(e, i) = admins
         /\ \A m \in Ids \ {i} :
              /\ HasRow(e, m) <=> HasRow(db, m)
              /\ HasRow(db, m) =>
                   /\ \A o \in Names(e, m) : e.pub[o] # NoOne \/ (o \in Names(db, m) /\ db.pub[o] = NoOne)
                   /\ Clean(db, m) /\ (i \in Names(db, m) => db.pub[i] = k) => NamedBy(e, m) = NamedBy(db, m)
<1> DEFINE p == IF proven THEN k ELSE db.priv[i]
           c == Rekeyed(db, i, k, p)
           f == Registered(c, admins)
           row == AdoptedRow(f.refs)
           e == PersistAdoption(i, k, proven, admins).db
<1>1. i \in Owners \ Observed /\ p \in Keys \cup {NoOne}
  BY OwnersAre, DbIs
<1>2. PersistAdoption(i, k, proven, admins) = [f EXCEPT !.db.rows[i] = row]
  <2> DEFINE A == [db.pub EXCEPT ![i] = k]
             m == [db EXCEPT !.pub[i] = k]
  <2>1. db = [pub |-> db.pub, priv |-> db.priv, rows |-> db.rows]
    BY DEF Db
  <2>2. m = [pub |-> A, priv |-> db.priv, rows |-> db.rows]
    BY <2>1
  <2>3. [db EXCEPT !.pub[i] = k, !.priv[i] = IF proven THEN k ELSE @] = [m EXCEPT !.priv[i] = p]
    BY <2>2
  <2>4. [m EXCEPT !.priv[i] = p] = Keyed(db, i, k, p)
    <3> HIDE DEF m, A, p
    <3>1. [m EXCEPT !.priv[i] = p] = [pub |-> A, priv |-> [db.priv EXCEPT ![i] = p], rows |-> db.rows]
      BY <2>2
    <3> QED
      BY <3>1 DEF Keyed, A
  <2>5. [db EXCEPT !.pub[i] = k, !.priv[i] = IF proven THEN k ELSE @] = Keyed(db, i, k, p)
    BY <2>3, <2>4
  <2> QED
    BY <2>5 DEF PersistAdoption, Rekeyed
<1> HIDE DEF p
<1>3. /\ c \in Db /\ Alone(c)
      /\ \A o \in Owners : c.pub[o] = IF o = i THEN k
                                      ELSE IF o \in Observed /\ db.pub[o] = k THEN NoOne
                                      ELSE db.pub[o]
      /\ \A o \in Owners : c.priv[o] = IF o = i THEN p ELSE db.priv[o]
      /\ \A m \in Ids :
           /\ HasRow(c, m) <=> HasRow(db, m)
           /\ HasRow(db, m) =>
                /\ \A o \in Names(c, m) : o = i \/ (o \in Names(db, m) /\ c.pub[o] = db.pub[o])
                /\ Clean(db, m) /\ (i \in Names(db, m) => db.pub[i] = k)
                     => NamedBy(c, m) = NamedBy(db, m) /\ Clean(c, m)
  BY <1>1, RekeyedIs
<1> HIDE DEF c
<1>4. /\ f \in [db : Db, refs : SUBSET Owners, minted : BOOLEAN]
      /\ f.db.rows = c.rows /\ f.db.priv = c.priv /\ Alone(f.db)
      /\ \A o \in Owners : f.db.pub[o] = c.pub[o] \/ (c.pub[o] = NoOne /\ o \in Observed)
      /\ \A r \in f.refs : f.db.pub[r] \in admins
      /\ f.minted => \A x \in admins : \E r \in f.refs : f.db.pub[r] = x
      /\ f.db \in Db /\ f.refs \subseteq Owners
  <2>1. f \in Filings(c, admins)
    BY <1>3, RegistersThem
  <2> HIDE DEF f
  <2> QED
    BY <2>1 DEF Filings
<1> HIDE DEF f
<1> DEFINE rows == [f.db.rows EXCEPT ![i] = row]
<1>5. /\ row \in Row /\ row # NoOne
      /\ row.authorized = f.refs /\ row.unregistered = {}
  <2>1. row \in Row /\ row.authorized = f.refs /\ row.unregistered = {}
    BY <1>4 DEF Row, AdoptedRow
  <2> QED
    BY <2>1, OwnersAre
<1> HIDE DEF row
<1>6. /\ rows \in [Ids -> Row \cup {NoOne}]
      /\ \A m \in Ids : rows[m] = IF m = i THEN row ELSE c.rows[m]
  BY <1>4, <1>5, DbIs
<1>7. /\ PersistAdoption(i, k, proven, admins).minted = f.minted
      /\ e = [pub |-> f.db.pub, priv |-> f.db.priv, rows |-> rows]
  <2>1. f.db = [pub |-> f.db.pub, priv |-> f.db.priv, rows |-> f.db.rows]
    BY <1>4 DEF Db
  <2>2. f = [db |-> f.db, refs |-> f.refs, minted |-> f.minted]
    BY <1>4
  <2>3. [f EXCEPT !.db.rows[i] = row]
          = [db |-> [pub |-> f.db.pub, priv |-> f.db.priv, rows |-> rows],
             refs |-> f.refs, minted |-> f.minted]
    BY <2>1, <2>2
  <2> QED
    BY <1>2, <2>3
<1> HIDE DEF rows
<1>8. /\ e.pub = f.db.pub /\ e.priv = f.db.priv /\ e.rows = rows /\ e \in Db
  BY <1>4, <1>6, <1>7, DbIs DEF Db
<1> HIDE DEF e
<1>9. \A o \in Owners \ Observed : e.pub[o] = IF o = i THEN k ELSE db.pub[o]
  BY <1>3, <1>4, <1>8
<1>10. \A o \in Owners : e.priv[o] = IF o = i /\ proven THEN k ELSE db.priv[o]
  BY <1>3, <1>4, <1>8 DEF p
<1>11. \A o \in Owners : c.pub[o] # NoOne => e.pub[o] = c.pub[o]
  BY <1>4, <1>8
<1>12. Alone(e)
  BY <1>4, <1>8 DEF Alone
<1>13. /\ HasRow(e, i) /\ Names(e, i) = f.refs
       /\ \A o \in Names(e, i) : e.pub[o] # NoOne
       /\ f.minted => NamedBy(e, i) = admins
  <2>1. e.rows[i] = row
    BY <1>6, <1>8
  <2>2. HasRow(e, i) /\ Names(e, i) = f.refs /\ NamedBy(e, i) = {f.db.pub[r] : r \in f.refs}
    BY <1>5, <1>8, <2>1 DEF HasRow, Names, NamedBy
  <2>3. \A r \in f.refs : f.db.pub[r] # NoOne
    BY <1>4, OwnersAre
  <2>4. f.minted => {f.db.pub[r] : r \in f.refs} = admins
    BY <1>4
  <2> QED
    BY <1>8, <2>2, <2>3, <2>4
<1>14. ASSUME NEW m \in Ids \ {i}
       PROVE  /\ HasRow(e, m) <=> HasRow(db, m)
              /\ HasRow(db, m) =>
                   /\ \A o \in Names(e, m) : e.pub[o] # NoOne \/ (o \in Names(db, m) /\ db.pub[o] = NoOne)
                   /\ Clean(db, m) /\ (i \in Names(db, m) => db.pub[i] = k) => NamedBy(e, m) = NamedBy(db, m)
  <2>1. e.rows[m] = c.rows[m]
    BY <1>6, <1>8
  <2>2. (HasRow(e, m) <=> HasRow(db, m)) /\ Names(e, m) = Names(c, m)
    BY <1>3, <2>1 DEF HasRow, Names
  <2> SUFFICES ASSUME HasRow(db, m)
               PROVE  /\ \A o \in Names(e, m) : e.pub[o] # NoOne \/ (o \in Names(db, m) /\ db.pub[o] = NoOne)
                      /\ Clean(db, m) /\ (i \in Names(db, m) => db.pub[i] = k) => NamedBy(e, m) = NamedBy(db, m)
    BY <2>2
  <2>3. Names(c, m) \subseteq Owners
    BY <1>3, DbIs
  <2>4. ASSUME NEW o \in Names(e, m), e.pub[o] = NoOne
        PROVE  o \in Names(db, m) /\ db.pub[o] = NoOne
    <3>1. o \in Owners /\ c.pub[o] = NoOne /\ o \in Names(c, m)
      BY <1>11, <2>2, <2>3, <2>4
    <3>2. o # i
      BY <1>1, <1>3, <3>1, OwnersAre
    <3> QED
      BY <1>3, <3>1, <3>2
  <2>5. ASSUME Clean(db, m), i \in Names(db, m) => db.pub[i] = k
        PROVE  NamedBy(e, m) = NamedBy(db, m)
    <3>1. NamedBy(c, m) = NamedBy(db, m) /\ Clean(c, m)
      BY <1>3, <2>5
    <3>2. \A o \in Names(c, m) : e.pub[o] = c.pub[o]
      BY <1>11, <2>3, <3>1 DEF Clean
    <3>3. NamedBy(e, m) = NamedBy(c, m)
      BY <2>1, <3>2 DEF NamedBy, Names
    <3> QED
      BY <3>1, <3>3
  <2> QED
    BY <2>4, <2>5
<1>15. PersistAdoption(i, k, proven, admins).minted => NamedBy(e, i) = admins
  BY <1>7, <1>13
<1> QED
  BY <1>8, <1>9, <1>10, <1>12, <1>13, <1>14, <1>15 DEF e

LEMMA AdoptKeeps ==
  ASSUME RegistryInv, NEW x \in Devices, NEW shows \in {"none", "unproven", "proven"}, Adopt(x, shows)
  PROVE  RegistryInv' /\ AdminKeysStay
<1> DEFINE i == device[x].id
           k == device[x].key
           admins == device[x].admins
           f == PersistAdoption(i, k, shows = "proven", admins)
<1>1. /\ i \in Ids /\ k \in Keys /\ admins \in SUBSET Keys /\ db \in Db /\ Alone(db)
      /\ i \in Owners \ Observed /\ k # NoOne
  BY OwnersAre DEF RegistryInv, RegistryTypes
<1>2. /\ ~RefusesRotation(i, k, shows) /\ ~LeavesStalePrivate(i, k, shows)
      /\ f.minted /\ db' = f.db
      /\ told' = [told EXCEPT ![i] = admins]
      /\ repointed' = (repointed \cup IF db.pub[i] \in {NoOne, k} THEN {} ELSE Unprotected(i)) \ {i}
      /\ overwritten' = IF shows = "proven" THEN overwritten \ {i} ELSE overwritten
      /\ UNCHANGED <<device, template, strays>>
  BY DEF Adopt, Writes, Rekeys
<1>3. /\ db' \in Db /\ Alone(db')
      /\ \A o \in Owners \ Observed : db'.pub[o] = IF o = i THEN k ELSE db.pub[o]
      /\ \A o \in Owners : db'.priv[o] = IF o = i /\ shows = "proven" THEN k ELSE db.priv[o]
      /\ HasRow(db', i) /\ \A o \in Names(db', i) : db'.pub[o] # NoOne
      /\ NamedBy(db', i) = admins
      /\ \A m \in Ids \ {i} :
           /\ HasRow(db', m) <=> HasRow(db, m)
           /\ HasRow(db, m) =>
                /\ \A o \in Names(db', m) : db'.pub[o] # NoOne \/ (o \in Names(db, m) /\ db.pub[o] = NoOne)
                /\ Clean(db, m) /\ (i \in Names(db, m) => db.pub[i] = k) => NamedBy(db', m) = NamedBy(db, m)
  <2> DEFINE proven == shows = "proven"
  <2>1. proven \in BOOLEAN
    OBVIOUS
  <2> HIDE DEF i, k, admins, proven
  <2>2. /\ f.db \in Db /\ Alone(f.db)
        /\ \A o \in Owners \ Observed : f.db.pub[o] = IF o = i THEN k ELSE db.pub[o]
        /\ \A o \in Owners : f.db.priv[o] = IF o = i /\ proven THEN k ELSE db.priv[o]
        /\ HasRow(f.db, i) /\ \A o \in Names(f.db, i) : f.db.pub[o] # NoOne
        /\ f.minted => NamedBy(f.db, i) = admins
        /\ \A m \in Ids \ {i} :
             /\ HasRow(f.db, m) <=> HasRow(db, m)
             /\ HasRow(db, m) =>
                  /\ \A o \in Names(f.db, m) : f.db.pub[o] # NoOne \/ (o \in Names(db, m) /\ db.pub[o] = NoOne)
                  /\ Clean(db, m) /\ (i \in Names(db, m) => db.pub[i] = k) => NamedBy(f.db, m) = NamedBy(db, m)
    <3>1. f = PersistAdoption(i, k, proven, admins)
      BY DEF proven
    <3> HIDE DEF f
    <3> QED
      BY <1>1, <2>1, <3>1, AdoptionIs
  <2> HIDE DEF f
  <2> QED
    BY <1>2, <2>2 DEF proven
<1> HIDE DEF i, k, admins, f
<1>4. db.pub[i] # k => NodeKeyAdminRefs(db, i) = {}
  BY <1>2 DEF RefusesRotation, WouldRotate
<1>5. RegistryTypes'
  <2>1. told' \in [Ids -> SUBSET Keys]
    BY <1>1, <1>2 DEF RegistryInv, RegistryTypes
  <2>2. repointed' \subseteq Ids
    BY <1>2 DEF RegistryInv, RegistryTypes, Unprotected
  <2> QED
    BY <1>2, <1>3, <2>1, <2>2 DEF RegistryInv, RegistryTypes
<1>6. Bare(db')
  BY <1>1, <1>3, OwnersAre DEF RegistryInv, Bare
<1>7. GapsAreEmpty'
  <2> SUFFICES ASSUME NEW m \in Ids, ~HasRow(db', m)
               PROVE  db'.priv[m] = NoOne /\ told'[m] = {}
    BY DEF GapsAreEmpty
  <2>1. m # i /\ ~HasRow(db, m)
    BY <1>3
  <2> QED
    BY <1>2, <1>3, <2>1, OwnersAre DEF RegistryInv, RegistryTypes, GapsAreEmpty
<1>8. RefsResolve'
  <2> SUFFICES ASSUME NEW m \in Ids, HasRow(db', m), NEW o \in Names(db', m)
               PROVE  db'.pub[o] # NoOne \/ o \in strays'
    BY DEF RefsResolve, Names
  <2>1. CASE m = i
    BY <1>3, <2>1
  <2>2. CASE m # i
    BY <1>2, <1>3, <2>2 DEF RegistryInv, RefsResolve, Names
  <2> QED
    BY <2>1, <2>2
<1>9. PrivatesMatch'
  <2> SUFFICES ASSUME NEW o \in Owners, o \notin overwritten'
               PROVE  db'.priv[o] \in {NoOne, db'.pub[o]}
    BY DEF PrivatesMatch
  <2>1. CASE o = i
    BY <1>1, <1>2, <1>3, <2>1 DEF LeavesStalePrivate
  <2>2. CASE o \in Observed
    BY <1>6, <2>2 DEF Bare
  <2>3. CASE o # i /\ o \notin Observed
    <3>1. o \notin overwritten
      BY <1>2, <2>3
    <3> QED
      BY <1>3, <2>3, <3>1 DEF RegistryInv, PrivatesMatch
  <2> QED
    BY <2>1, <2>2, <2>3
<1>10. RowsKeepTheirMeaning'
  <2> SUFFICES ASSUME NEW m \in Ids, m \notin repointed', HasRow(db', m)
               PROVE  NamedBy(db', m) = told'[m]
    BY DEF RowsKeepTheirMeaning
  <2>1. CASE m = i
    BY <1>1, <1>2, <1>3, <2>1 DEF RegistryInv, RegistryTypes
  <2>2. CASE m # i
    <3>1. m \notin repointed /\ HasRow(db, m) /\ told'[m] = told[m]
      BY <1>2, <1>3, <2>2 DEF RegistryInv, RegistryTypes
    <3>2. Clean(db, m) /\ NamedBy(db, m) = told[m]
      BY <3>1, MeantRowsAreClean
    <3>3. i \in Names(db, m) => db.pub[i] = k
      <4> SUFFICES ASSUME i \in Names(db, m), db.pub[i] # k PROVE FALSE
        OBVIOUS
      <4>1. m \in Unprotected(i) /\ db.pub[i] # NoOne
        BY <1>1, <1>4, <3>1, <3>2, NamersAreUnprotected
      <4> QED
        BY <1>2, <2>2, <4>1
    <3> QED
      BY <1>3, <2>2, <3>1, <3>2, <3>3
  <2> QED
    BY <2>1, <2>2
<1>11. AdminKeysStay
  <2> SUFFICES ASSUME NEW o \in InUse(db), db.pub[o] # NoOne, NEW n \in Ids, db.pub[n] = db.pub[o]
               PROVE  db'.pub[n] = db.pub[o]
    BY DEF AdminKeysStay, IsRecorded
  <2>1. n \in Owners \ Observed /\ o \in Owners
    BY InUseIs, OwnersAre
  <2>2. CASE n = i
    <3>1. o \in NodeKeyAdminRefs(db, i)
      BY <2>1, <2>2 DEF NodeKeyAdminRefs, Holders
    <3> QED
      BY <1>3, <1>4, <2>1, <2>2, <3>1
  <2>3. CASE n # i
    BY <1>3, <2>1, <2>3
  <2> QED
    BY <2>2, <2>3
<1> QED
  BY <1>3, <1>5, <1>6, <1>7, <1>8, <1>9, <1>10, <1>11 DEF RegistryInv, Alone

-----------------------------------------------------------------------------
(* A row takes a free id, and every reference to the old one follows.      *)
LEMMA MovedIs ==
  ASSUME NEW d \in Db, NEW old \in Ids, NEW new \in Ids, old # new, HasRow(d, old), IsFree(d, new)
  PROVE  LET e == RenumberRows(d, old, new)
             Before(m) == IF m = new THEN old ELSE m
         IN
         /\ e \in Db /\ ~HasRow(e, old)
         /\ \A o \in Owners :
              /\ e.pub[o] = IF o = new THEN d.pub[old] ELSE IF o = old THEN NoOne ELSE d.pub[o]
              /\ e.priv[o] = IF o = new THEN d.priv[old] ELSE IF o = old THEN NoOne ELSE d.priv[o]
         /\ Alone(d) => Alone(e)
         /\ \A m \in Ids \ {old} :
              /\ HasRow(e, m) <=> HasRow(d, Before(m))
              /\ HasRow(e, m) =>
                   /\ SameFate(e.rows[m], d.rows[Before(m)])
                   /\ e.rows[m].unregistered = d.rows[Before(m)].unregistered
                   /\ old \notin Names(e, m)
                   /\ \A o \in Names(e, m) :
                        \/ o \in Names(d, Before(m))
                        \/ o = new /\ old \in Names(d, Before(m))
                   /\ Clean(d, Before(m)) => NamedBy(e, m) = NamedBy(d, Before(m)) /\ Clean(e, m)
<1> DEFINE Moved(f) == [o \in DOMAIN f |-> IF o = new THEN f[old] ELSE IF o = old THEN NoOne ELSE f[o]]
           Renamed(row) ==
             IF row = NoOne \/ old \notin row.authorized THEN row
             ELSE [row EXCEPT !.authorized = (@ \ {old}) \cup {new}]
           rows == [i \in Ids |-> Renamed(Moved(d.rows)[i])]
           e == RenumberRows(d, old, new)
           Before(m) == IF m = new THEN old ELSE m
<1>1. e = [pub |-> Moved(d.pub), priv |-> Moved(d.priv), rows |-> rows]
  BY DEF RenumberRows
<1>2. /\ d.pub \in KeyFiles /\ d.priv \in KeyFiles /\ d.rows \in [Ids -> Row \cup {NoOne}]
      /\ old \in Owners /\ new \in Owners /\ old \notin Observed /\ new \notin Observed
      /\ ~HasRow(d, new) /\ d.pub[new] = NoOne /\ d.priv[new] = NoOne
      /\ NoOne \notin Row
  BY DbIs, OwnersAre DEF IsFree
<1>3. /\ Moved(d.pub) \in KeyFiles /\ Moved(d.priv) \in KeyFiles
      /\ \A o \in Owners :
           /\ Moved(d.pub)[o] = IF o = new THEN d.pub[old] ELSE IF o = old THEN NoOne ELSE d.pub[o]
           /\ Moved(d.priv)[o] = IF o = new THEN d.priv[old] ELSE IF o = old THEN NoOne ELSE d.priv[o]
  BY <1>2 DEF KeyFiles
<1>4. \A m \in Ids : Moved(d.rows)[m] = IF m = old THEN NoOne ELSE d.rows[Before(m)]
  BY <1>2
<1>5. ASSUME NEW row \in Row
      PROVE  /\ Renamed(row) \in Row /\ SameFate(Renamed(row), row)
             /\ Renamed(row).unregistered = row.unregistered
             /\ Renamed(row).authorized
                  = IF old \in row.authorized THEN (row.authorized \ {old}) \cup {new} ELSE row.authorized
  <2>1. row # NoOne
    BY <1>2
  <2>2. CASE old \notin row.authorized
    BY <2>1, <2>2 DEF SameFate
  <2>3. CASE old \in row.authorized
    <3> DEFINE au == (row.authorized \ {old}) \cup {new}
    <3>1. Renamed(row) = [row EXCEPT !.authorized = au]
      BY <2>1, <2>3
    <3>2. au \in SUBSET Owners
      BY <1>2 DEF Row
    <3> HIDE DEF au, Renamed
    <3>3. /\ Renamed(row) \in Row /\ SameFate(Renamed(row), row) /\ Renamed(row).authorized = au
          /\ Renamed(row).unregistered = row.unregistered
      BY <3>1, <3>2 DEF Row, SameFate
    <3> QED
      BY <2>3, <3>3 DEF au
  <2> QED
    BY <2>2, <2>3
<1>6. \A m \in Ids : rows[m] = IF m = old \/ ~HasRow(d, Before(m)) THEN NoOne ELSE Renamed(d.rows[Before(m)])
  <2> SUFFICES ASSUME NEW m \in Ids
               PROVE  rows[m] = IF m = old \/ ~HasRow(d, Before(m)) THEN NoOne ELSE Renamed(d.rows[Before(m)])
    OBVIOUS
  <2>1. rows[m] = Renamed(Moved(d.rows)[m])
    OBVIOUS
  <2>2. Renamed(NoOne) = NoOne
    OBVIOUS
  <2> HIDE DEF Renamed, Moved, rows
  <2> QED
    BY <1>4, <2>1, <2>2 DEF HasRow
<1> HIDE DEF Moved, Renamed, rows
<1>7. ASSUME NEW m \in Ids, m # old, HasRow(d, Before(m))
      PROVE  d.rows[Before(m)] \in Row /\ rows[m] = Renamed(d.rows[Before(m)]) /\ rows[m] \in Row
  <2>1. d.rows[Before(m)] \in Row
    BY <1>2, <1>7, DbIs
  <2> QED
    BY <1>5, <1>6, <1>7, <2>1
<1>8. rows \in [Ids -> Row \cup {NoOne}]
  <2>1. \A m \in Ids : rows[m] \in Row \cup {NoOne}
    BY <1>6, <1>7
  <2>2. rows = [m \in Ids |-> rows[m]]
    BY DEF rows
  <2> QED
    BY <2>1, <2>2
<1>9. e \in Db /\ e.pub = Moved(d.pub) /\ e.priv = Moved(d.priv) /\ e.rows = rows
  BY <1>1, <1>3, <1>8 DEF Db
<1> HIDE DEF e
<1>10. \A o \in Owners :
         /\ e.pub[o] = IF o = new THEN d.pub[old] ELSE IF o = old THEN NoOne ELSE d.pub[o]
         /\ e.priv[o] = IF o = new THEN d.priv[old] ELSE IF o = old THEN NoOne ELSE d.priv[o]
  BY <1>3, <1>9
<1>11. Alone(d) => Alone(e)
  <2> SUFFICES ASSUME Alone(d), NEW o \in Observed, NEW q \in Owners, e.pub[o] # NoOne, e.pub[q] = e.pub[o]
               PROVE  q = o
    BY DEF Alone
  <2>1. o \in Owners /\ e.pub[o] = d.pub[o]
    BY <1>2, <1>10, OwnersAre
  <2>2. q # old
    BY <1>2, <1>10
  <2>3. q # new
    BY <1>2, <1>10, <2>1 DEF Alone
  <2> QED
    BY <1>10, <2>1, <2>2, <2>3 DEF Alone
<1>12. ~HasRow(e, old)
  BY <1>6, <1>9 DEF HasRow
<1>13. ASSUME NEW m \in Ids \ {old}
       PROVE  /\ HasRow(e, m) <=> HasRow(d, Before(m))
              /\ HasRow(e, m) =>
                   /\ SameFate(e.rows[m], d.rows[Before(m)])
                   /\ e.rows[m].unregistered = d.rows[Before(m)].unregistered
                   /\ old \notin Names(e, m)
                   /\ \A o \in Names(e, m) :
                        \/ o \in Names(d, Before(m))
                        \/ o = new /\ old \in Names(d, Before(m))
                   /\ Clean(d, Before(m)) => NamedBy(e, m) = NamedBy(d, Before(m)) /\ Clean(e, m)
  <2>1. CASE ~HasRow(d, Before(m))
    BY <1>6, <1>9, <2>1 DEF HasRow
  <2>2. CASE HasRow(d, Before(m))
    <3> DEFINE row == d.rows[Before(m)]
               A == row.authorized
    <3>1. row \in Row /\ e.rows[m] = Renamed(row) /\ e.rows[m] \in Row
      BY <1>7, <1>9, <2>2
    <3>2. /\ HasRow(e, m) /\ SameFate(e.rows[m], row) /\ e.rows[m].unregistered = row.unregistered
          /\ Names(e, m) = IF old \in A THEN (A \ {old}) \cup {new} ELSE A
          /\ Names(d, Before(m)) = A /\ A \subseteq Owners
      <4>1. HasRow(e, m) /\ A \subseteq Owners
        BY <1>2, <3>1 DEF HasRow, Row
      <4>2. Names(d, Before(m)) = A
        BY DEF Names
      <4> HIDE DEF row
      <4>3. /\ SameFate(e.rows[m], row) /\ e.rows[m].unregistered = row.unregistered
            /\ Names(e, m) = IF old \in A THEN (A \ {old}) \cup {new} ELSE A
        BY <1>5, <3>1 DEF Names
      <4> QED
        BY <4>1, <4>2, <4>3 DEF row
    <3> HIDE DEF row, A, Before
    <3>3. /\ old \notin Names(e, m)
          /\ \A o \in Names(e, m) : o \in A \/ (o = new /\ old \in A)
      BY <3>2
    <3>4. ASSUME Clean(d, Before(m))
          PROVE  NamedBy(e, m) = NamedBy(d, Before(m)) /\ Clean(e, m)
      <4>1. \A o \in A : d.pub[o] # NoOne /\ o \in Owners
        BY <3>2, <3>4 DEF Clean
      <4>2. \A o \in A : o # old => e.pub[o] = d.pub[o]
        BY <1>2, <1>10, <4>1
      <4>3. old \in A => e.pub[new] = d.pub[old] /\ d.pub[old] # NoOne
        BY <1>2, <1>10, <4>1
      <4>4. {e.pub[o] : o \in Names(e, m)} = {d.pub[o] : o \in A}
        <5>1. CASE old \notin A
          BY <3>2, <4>2, <5>1
        <5>2. CASE old \in A
          <6>1. \A o \in A \ {old} : e.pub[o] = d.pub[o]
            BY <4>2
          <6>2. {e.pub[o] : o \in (A \ {old}) \cup {new}} = {e.pub[o] : o \in A \ {old}} \cup {e.pub[new]}
            OBVIOUS
          <6>3. {d.pub[o] : o \in A} = {d.pub[o] : o \in A \ {old}} \cup {d.pub[old]}
            BY <5>2
          <6>4. {e.pub[o] : o \in A \ {old}} = {d.pub[o] : o \in A \ {old}}
            BY <6>1
          <6> QED
            BY <3>2, <4>3, <5>2, <6>2, <6>3, <6>4
        <5> QED
          BY <5>1, <5>2
      <4>5. Clean(e, m)
        BY <3>2, <4>1, <4>2, <4>3 DEF Clean
      <4>6. NamedBy(e, m) = {e.pub[o] : o \in Names(e, m)} \cup row.unregistered
        BY <3>2 DEF NamedBy, Names
      <4>7. NamedBy(d, Before(m)) = {d.pub[o] : o \in A} \cup row.unregistered
        BY DEF NamedBy, A, row
      <4> QED
        BY <4>4, <4>5, <4>6, <4>7
    <3>5. SameFate(e.rows[m], d.rows[Before(m)]) /\ e.rows[m].unregistered = d.rows[Before(m)].unregistered
      BY <3>2 DEF row
    <3> QED
      BY <2>2, <3>2, <3>3, <3>4, <3>5
  <2> QED
    BY <2>1, <2>2
<1> QED
  BY <1>9, <1>10, <1>11, <1>12, <1>13 DEF e

LEMMA RenumberKeeps ==
  ASSUME RegistryInv, NEW old \in Ids, NEW new \in Ids, DbRenumber(old, new)
  PROVE  RegistryInv' /\ AdminKeysStay
<1> DEFINE Before(m) == IF m = new THEN old ELSE m
<1>1. /\ db \in Db /\ Alone(db) /\ old # new /\ HasRow(db, old) /\ IsFree(db, new)
      /\ old \in Owners \ Observed /\ new \in Owners \ Observed
      /\ ~HasRow(db, new) /\ db.pub[new] = NoOne /\ db.priv[new] = NoOne
  BY OwnersAre DEF RegistryInv, RegistryTypes, DbRenumber, IsFree
<1>2. /\ db' = RenumberRows(db, old, new)
      /\ told' = [told EXCEPT ![new] = told[old], ![old] = {}]
      /\ repointed' = Move(repointed, old, new) /\ overwritten' = Move(overwritten, old, new)
      /\ strays' = Move(strays, old, new)
      /\ UNCHANGED <<device, template>>
  BY DEF DbRenumber
<1>3. /\ db' \in Db /\ ~HasRow(db', old) /\ Alone(db')
      /\ \A o \in Owners :
           /\ db'.pub[o] = IF o = new THEN db.pub[old] ELSE IF o = old THEN NoOne ELSE db.pub[o]
           /\ db'.priv[o] = IF o = new THEN db.priv[old] ELSE IF o = old THEN NoOne ELSE db.priv[o]
      /\ \A m \in Ids \ {old} :
           /\ HasRow(db', m) <=> HasRow(db, Before(m))
           /\ HasRow(db', m) =>
                /\ old \notin Names(db', m)
                /\ \A o \in Names(db', m) :
                     \/ o \in Names(db, Before(m))
                     \/ o = new /\ old \in Names(db, Before(m))
                /\ Clean(db, Before(m)) => NamedBy(db', m) = NamedBy(db, Before(m)) /\ Clean(db', m)
  BY <1>1, <1>2, MovedIs
<1>4. \A m \in Ids \ {old} : Before(m) \in Ids /\ told'[m] = told[Before(m)]
  BY <1>1, <1>2 DEF RegistryInv, RegistryTypes
<1>5. told'[old] = {} /\ told' \in [Ids -> SUBSET Keys] /\ repointed' \subseteq Ids
  BY <1>1, <1>2 DEF RegistryInv, RegistryTypes, Move
<1>6. RegistryTypes'
  BY <1>2, <1>3, <1>5 DEF RegistryInv, RegistryTypes
<1>7. Bare(db')
  BY <1>1, <1>3, OwnersAre DEF RegistryInv, Bare
<1>8. GapsAreEmpty'
  <2> SUFFICES ASSUME NEW m \in Ids, ~HasRow(db', m)
               PROVE  db'.priv[m] = NoOne /\ told'[m] = {}
    BY DEF GapsAreEmpty
  <2>1. CASE m = old
    BY <1>1, <1>3, <1>5, <2>1
  <2>2. CASE m # old
    <3>1. m # new /\ ~HasRow(db, m)
      BY <1>1, <1>3, <2>2
    <3> QED
      BY <1>3, <1>4, <2>2, <3>1, OwnersAre DEF RegistryInv, GapsAreEmpty
  <2> QED
    BY <2>1, <2>2
<1>9. RefsResolve'
  <2> SUFFICES ASSUME NEW m \in Ids, HasRow(db', m), NEW o \in Names(db', m)
               PROVE  db'.pub[o] # NoOne \/ o \in strays'
    BY DEF RefsResolve, Names
  <2>0. m # old /\ o # old /\ o \in Owners /\ Before(m) \in Ids /\ HasRow(db, Before(m))
    BY <1>3, <1>4, DbIs
  <2> HIDE DEF Before
  <2>1. CASE o = new /\ old \in Names(db, Before(m))
    <3>1. db.pub[old] # NoOne \/ old \in strays
      BY <2>0, <2>1 DEF RegistryInv, RefsResolve, Names
    <3> QED
      BY <1>2, <1>3, <2>0, <2>1, <3>1 DEF Move
  <2>2. CASE o \in Names(db, Before(m))
    <3>1. db.pub[o] # NoOne \/ o \in strays
      BY <2>0, <2>2 DEF RegistryInv, RefsResolve, Names
    <3>2. o \in strays => o \in strays'
      BY <1>2, <2>0 DEF Move
    <3> QED
      BY <1>1, <1>3, <2>0, <3>1, <3>2
  <2> QED
    BY <1>3, <2>0, <2>1, <2>2
<1>10. PrivatesMatch'
  <2> SUFFICES ASSUME NEW o \in Owners, o \notin overwritten'
               PROVE  db'.priv[o] \in {NoOne, db'.pub[o]}
    BY DEF PrivatesMatch
  <2>1. CASE o = new
    <3>1. old \notin overwritten
      BY <1>2, <2>1 DEF Move
    <3> QED
      BY <1>1, <1>3, <2>1, <3>1 DEF RegistryInv, PrivatesMatch
  <2>2. CASE o = old
    BY <1>1, <1>3, <2>2
  <2>3. CASE o # new /\ o # old
    <3>1. o \notin overwritten
      BY <1>2, <2>3 DEF Move
    <3> QED
      BY <1>3, <2>3, <3>1 DEF RegistryInv, PrivatesMatch
  <2> QED
    BY <2>1, <2>2, <2>3
<1>11. RowsKeepTheirMeaning'
  <2> SUFFICES ASSUME NEW m \in Ids, m \notin repointed', HasRow(db', m)
               PROVE  NamedBy(db', m) = told'[m]
    BY DEF RowsKeepTheirMeaning
  <2>1. m # old /\ Before(m) \in Ids /\ HasRow(db, Before(m)) /\ told'[m] = told[Before(m)]
    BY <1>3, <1>4
  <2>2. Before(m) \notin repointed
    BY <1>2, <2>1 DEF Move
  <2>3. Clean(db, Before(m)) /\ NamedBy(db, Before(m)) = told[Before(m)]
    BY <2>1, <2>2, MeantRowsAreClean
  <2> HIDE DEF Before
  <2> QED
    BY <1>3, <2>1, <2>3
<1>12. AdminKeysStay
  <2> SUFFICES ASSUME NEW o \in InUse(db), db.pub[o] # NoOne, NEW n \in Ids, db.pub[n] = db.pub[o]
               PROVE  IsRecorded(db'.pub, db.pub[o])
    BY DEF AdminKeysStay, IsRecorded
  <2>1. n # new /\ n \in Owners
    BY <1>1, OwnersAre
  <2>2. CASE n = old
    <3>1. db'.pub[new] = db.pub[o]
      BY <1>1, <1>3, <2>2
    <3> QED
      BY <3>1 DEF IsRecorded
  <2>3. CASE n # old
    <3>1. db'.pub[n] = db.pub[o]
      BY <1>3, <2>1, <2>3
    <3> QED
      BY <3>1 DEF IsRecorded
  <2> QED
    BY <2>2, <2>3
<1> QED
  BY <1>3, <1>6, <1>7, <1>8, <1>9, <1>10, <1>11, <1>12 DEF RegistryInv, Alone

-----------------------------------------------------------------------------
(* What a provision records: an alias for the node's key, and its row.     *)
LEMMA AliasIs ==
  ASSUME NEW d \in Db, NEW i \in Ids, NEW alias \in AdminRefs \cup {NoOne}, NEW k \in Keys,
         d.pub[i] = k, \A o \in Observed : d.pub[o] # k
  PROVE  LET e == WithAlias(d, i, alias) IN
         /\ e \in Db /\ (Alone(d) => Alone(e))
         /\ \A o \in Owners : e.pub[o] = IF o = alias THEN k ELSE d.pub[o]
         /\ \A o \in Owners : e.priv[o] = IF o = alias /\ d.priv[i] # NoOne THEN d.priv[i] ELSE d.priv[o]
         /\ \A m \in Ids :
              /\ HasRow(e, m) <=> HasRow(d, m)
              /\ HasRow(d, m) =>
                   /\ \A o \in Names(e, m) : o = alias \/ o \in Names(d, m)
                   /\ Clean(d, m) /\ (alias \in Names(d, m) => d.pub[alias] = k)
                        => NamedBy(e, m) = NamedBy(d, m)
<1>1. i \in Owners /\ d.priv[i] \in Keys \cup {NoOne} /\ NoOne \notin Owners
  BY OwnersAre, DbIs
<1>2. CASE alias = NoOne
  <2>1. WithAlias(d, i, alias) = d
    BY <1>2 DEF WithAlias
  <2>2. \A o \in Owners : o # alias
    BY <1>1, <1>2
  <2> QED
    BY <2>1, <2>2
<1>3. CASE alias # NoOne
  <2> DEFINE q == IF d.priv[i] = NoOne THEN d.priv[alias] ELSE d.priv[i]
             e == WithAlias(d, i, alias)
  <2>1. alias \in Owners \ Observed /\ q \in Keys \cup {NoOne}
    BY <1>1, <1>3, OwnersAre, DbIs
  <2>2. e = Rekeyed(d, alias, k, q)
    <3> DEFINE A == [d.pub EXCEPT ![alias] = k]
               m == [d EXCEPT !.pub[alias] = k]
    <3>1. d = [pub |-> d.pub, priv |-> d.priv, rows |-> d.rows]
      BY DEF Db
    <3>2. m = [pub |-> A, priv |-> d.priv, rows |-> d.rows]
      BY <3>1
    <3>3. [d EXCEPT !.pub[alias] = d.pub[i], !.priv[alias] = IF d.priv[i] = NoOne THEN @ ELSE d.priv[i]]
            = [m EXCEPT !.priv[alias] = q]
      BY <3>2
    <3>4. [m EXCEPT !.priv[alias] = q] = Keyed(d, alias, k, q)
      <4> HIDE DEF m, A, q
      <4>1. [m EXCEPT !.priv[alias] = q] = [pub |-> A, priv |-> [d.priv EXCEPT ![alias] = q], rows |-> d.rows]
        BY <3>2
      <4> QED
        BY <4>1 DEF Keyed, A
    <3>5. [d EXCEPT !.pub[alias] = d.pub[i], !.priv[alias] = IF d.priv[i] = NoOne THEN @ ELSE d.priv[i]]
            = Keyed(d, alias, k, q)
      BY <3>3, <3>4
    <3> QED
      BY <1>3, <3>5 DEF WithAlias, Rekeyed
  <2> HIDE DEF q, e
  <2>3. /\ e \in Db
        /\ \A o \in Owners : e.pub[o] = IF o = alias THEN k
                                        ELSE IF o \in Observed /\ d.pub[o] = k THEN NoOne
                                        ELSE d.pub[o]
        /\ \A o \in Owners : e.priv[o] = IF o = alias THEN q ELSE d.priv[o]
        /\ Alone(d) => Alone(e)
        /\ \A m \in Ids :
             /\ HasRow(e, m) <=> HasRow(d, m)
             /\ HasRow(d, m) =>
                  /\ \A o \in Names(e, m) : o = alias \/ (o \in Names(d, m) /\ e.pub[o] = d.pub[o])
                  /\ Clean(d, m) /\ (alias \in Names(d, m) => d.pub[alias] = k)
                       => NamedBy(e, m) = NamedBy(d, m) /\ Clean(e, m)
    BY <2>1, <2>2, RekeyedIs
  <2>4. \A o \in Owners : e.pub[o] = IF o = alias THEN k ELSE d.pub[o]
    BY <2>3
  <2>5. \A o \in Owners : e.priv[o] = IF o = alias /\ d.priv[i] # NoOne THEN d.priv[i] ELSE d.priv[o]
    BY <2>3 DEF q
  <2> QED
    BY <2>3, <2>4, <2>5 DEF e
<1> QED
  BY <1>2, <1>3

LEMMA RowIs ==
  ASSUME db \in Db, template \subseteq Owners, NEW d \in Db, NEW i \in Ids, NEW j \in Ids
  PROVE  LET e == WithRow(d, i, j) IN
         /\ e \in Db /\ e.pub = d.pub /\ e.priv = d.priv
         /\ HasRow(e, j) /\ e.rows[j].unregistered = Leftover(i)
         /\ Names(e, j) = IF template # {} THEN template
                          ELSE IF HasRow(db, i) THEN Names(db, i) ELSE {}
         /\ \A m \in Ids \ {j} : e.rows[m] = d.rows[m]
<1> DEFINE none == [management |-> "template", archived |-> FALSE, authorized |-> {}, unregistered |-> {}]
           base == IF HasRow(db, i) THEN db.rows[i] ELSE none
           au == IF template = {} THEN base.authorized ELSE template
           row == [base EXCEPT !.management = "template", !.authorized = au]
           rows == [d.rows EXCEPT ![j] = row]
           e == WithRow(d, i, j)
<1>1. /\ base \in Row /\ base.unregistered = Leftover(i)
      /\ base.authorized = IF HasRow(db, i) THEN Names(db, i) ELSE {}
  <2>1. CASE HasRow(db, i)
    BY <2>1, DbIs DEF Leftover, Names
  <2>2. CASE ~HasRow(db, i)
    BY <2>2 DEF Leftover, Row
  <2> QED
    BY <2>1, <2>2
<1>2. e = [d EXCEPT !.rows[j] = row]
  BY DEF WithRow
<1> HIDE DEF base
<1>3. au \in SUBSET Owners
  BY <1>1 DEF Row
<1> HIDE DEF au
<1>4. row \in Row /\ row.authorized = au /\ row.unregistered = base.unregistered
  BY <1>1, <1>3 DEF Row
<1> HIDE DEF row
<1>5. /\ rows \in [Ids -> Row \cup {NoOne}]
      /\ \A m \in Ids : rows[m] = IF m = j THEN row ELSE d.rows[m]
  BY <1>4, DbIs
<1>6. e \in Db /\ e.pub = d.pub /\ e.priv = d.priv /\ e.rows = rows
  <2>1. d = [pub |-> d.pub, priv |-> d.priv, rows |-> d.rows] /\ d.pub \in KeyFiles /\ d.priv \in KeyFiles
    BY DEF Db
  <2>2. e = [pub |-> d.pub, priv |-> d.priv, rows |-> rows]
    BY <1>2, <2>1
  <2> HIDE DEF e, rows
  <2> QED
    BY <1>5, <2>1, <2>2 DEF Db
<1> HIDE DEF e, rows
<1>7. HasRow(e, j) /\ e.rows[j].unregistered = Leftover(i) /\ Names(e, j) = au
  BY <1>1, <1>4, <1>5, <1>6, OwnersAre DEF HasRow, Names
<1>8. au = IF template # {} THEN template ELSE IF HasRow(db, i) THEN Names(db, i) ELSE {}
  BY <1>1 DEF au
<1> QED
  BY <1>5, <1>6, <1>7, <1>8 DEF e

LEMMA RecordIs ==
  ASSUME db \in Db, template \subseteq Owners, NEW d \in Db, NEW i \in Ids, NEW j \in Ids,
         NEW alias \in AdminRefs \cup {NoOne}, NEW k \in Keys,
         d.pub[j] = k, \A o \in Observed : d.pub[o] # k
  PROVE  LET e == WithRow(WithAlias(d, j, alias), i, j) IN
         /\ e \in Db /\ (Alone(d) => Alone(e))
         /\ \A o \in Owners : e.pub[o] = IF o = alias THEN k ELSE d.pub[o]
         /\ \A o \in Owners : e.priv[o] = IF o = alias /\ d.priv[j] # NoOne THEN d.priv[j] ELSE d.priv[o]
         /\ HasRow(e, j) /\ e.rows[j].unregistered = Leftover(i)
         /\ Names(e, j) = IF template # {} THEN template
                          ELSE IF HasRow(db, i) THEN Names(db, i) ELSE {}
         /\ \A m \in Ids \ {j} :
              /\ HasRow(e, m) <=> HasRow(d, m)
              /\ HasRow(d, m) =>
                   /\ \A o \in Names(e, m) : o = alias \/ o \in Names(d, m)
                   /\ Clean(d, m) /\ (alias \in Names(d, m) => d.pub[alias] = k)
                        => NamedBy(e, m) = NamedBy(d, m)
<1> DEFINE a == WithAlias(d, j, alias)
           e == WithRow(a, i, j)
<1>1. /\ a \in Db /\ (Alone(d) => Alone(a))
      /\ \A o \in Owners : a.pub[o] = IF o = alias THEN k ELSE d.pub[o]
      /\ \A o \in Owners : a.priv[o] = IF o = alias /\ d.priv[j] # NoOne THEN d.priv[j] ELSE d.priv[o]
      /\ \A m \in Ids :
           /\ HasRow(a, m) <=> HasRow(d, m)
           /\ HasRow(d, m) =>
                /\ \A o \in Names(a, m) : o = alias \/ o \in Names(d, m)
                /\ Clean(d, m) /\ (alias \in Names(d, m) => d.pub[alias] = k)
                     => NamedBy(a, m) = NamedBy(d, m)
  BY AliasIs
<1> HIDE DEF a
<1>2. /\ e \in Db /\ e.pub = a.pub /\ e.priv = a.priv
      /\ HasRow(e, j) /\ e.rows[j].unregistered = Leftover(i)
      /\ Names(e, j) = IF template # {} THEN template
                       ELSE IF HasRow(db, i) THEN Names(db, i) ELSE {}
      /\ \A m \in Ids \ {j} : e.rows[m] = a.rows[m]
  BY <1>1, RowIs
<1> HIDE DEF e
<1>3. \A m \in Ids \ {j} : /\ HasRow(e, m) <=> HasRow(a, m)
                           /\ Names(e, m) = Names(a, m) /\ NamedBy(e, m) = NamedBy(a, m)
  BY <1>2 DEF HasRow, Names, NamedBy
<1>4. Alone(d) => Alone(e)
  BY <1>1, <1>2 DEF Alone
<1> QED
  BY <1>1, <1>2, <1>3, <1>4 DEF a, e

(* The row a provision writes says what the plan says, if the keys that it *)
(* names are what they were.                                               *)
LEMMA PlannedRow ==
  ASSUME RegistryInv, NEW i \in Ids, NEW j \in Ids, NEW e,
         e.rows[j].unregistered = Leftover(i),
         Names(e, j) = IF template # {} THEN template ELSE IF HasRow(db, i) THEN Names(db, i) ELSE {},
         \A o \in template : e.pub[o] = db.pub[o],
         template = {} /\ HasRow(db, i) =>
           i \notin repointed /\ \A o \in Names(db, i) : e.pub[o] = db.pub[o]
  PROVE  NamedBy(e, j) = PlannedFor(i)
<1>1. NamedBy(e, j) = {e.pub[o] : o \in Names(e, j)} \cup Leftover(i)
  BY DEF NamedBy, Names
<1>2. CASE template # {}
  <2>1. {e.pub[o] : o \in template} = {db.pub[o] : o \in template}
    OBVIOUS
  <2> QED
    BY <1>1, <1>2, <2>1 DEF PlannedFor, AppliedAdmins
<1>3. CASE template = {} /\ HasRow(db, i)
  <2>1. {e.pub[o] : o \in Names(db, i)} = {db.pub[o] : o \in Names(db, i)}
    BY <1>3
  <2>2. NamedBy(e, j) = NamedBy(db, i)
    BY <1>1, <1>3, <2>1 DEF NamedBy, Names, Leftover
  <2>3. NamedBy(db, i) = told[i]
    BY <1>3, MeantRowsAreClean
  <2> QED
    BY <1>3, <2>2, <2>3 DEF PlannedFor
<1>4. CASE template = {} /\ ~HasRow(db, i)
  <2>1. NamedBy(e, j) = {}
    BY <1>1, <1>4 DEF Leftover
  <2>2. told[i] = {}
    BY <1>4 DEF RegistryInv, GapsAreEmpty
  <2> QED
    BY <1>4, <2>1, <2>2 DEF PlannedFor
<1> QED
  BY <1>2, <1>3, <1>4

LEMMA CapturedIs ==
  ASSUME NEW d \in Db, NEW i \in Ids, NEW k \in Keys
  PROVE  LET e == Captured(d, i, k) IN
         /\ e \in Db /\ e.pub = d.pub /\ e.rows = d.rows
         /\ \A o \in Owners : \/ e.priv[o] = d.priv[o]
                              \/ e.priv[o] = k /\ d.pub[o] = k /\ (o = i \/ d.priv[o] # NoOne)
<1> DEFINE stale == {o \in Holders(d, k) \ {i} : d.priv[o] \notin {NoOne, k}}
           priv == [o \in Owners |-> IF o \in stale \cup {i} THEN k ELSE d.priv[o]]
           e == Captured(d, i, k)
<1>1. CASE d.pub[i] # k
  BY <1>1 DEF Captured
<1>2. CASE d.pub[i] = k
  <2>1. priv \in KeyFiles
    BY DbIs DEF KeyFiles
  <2>2. d = [pub |-> d.pub, priv |-> d.priv, rows |-> d.rows]
    BY DEF Db
  <2>3. e = [d EXCEPT !.priv = priv]
    BY <1>2 DEF Captured
  <2>4. \A o \in Owners : \/ priv[o] = d.priv[o]
                          \/ priv[o] = k /\ d.pub[o] = k /\ (o = i \/ d.priv[o] # NoOne)
    BY <1>2 DEF Holders
  <2> HIDE DEF priv, e
  <2>5. e = [pub |-> d.pub, priv |-> priv, rows |-> d.rows]
    BY <2>2, <2>3
  <2>6. e \in Db /\ e.pub = d.pub /\ e.rows = d.rows /\ e.priv = priv
    BY <2>1, <2>5, DbIs DEF Db
  <2> QED
    BY <2>4, <2>6 DEF e
<1> QED
  BY <1>1, <1>2

LEMMA AppliedIs ==
  ASSUME RegistryInv, \A o \in template : db.pub[o] # NoOne, NEW i \in Ids
  PROVE  /\ \A admins \in SUBSET Keys : AppliedAdmins(admins) \in SUBSET Keys
         /\ PlannedFor(i) \in SUBSET Keys
<1>1. db \in Db /\ told \in [Ids -> SUBSET Keys]
  BY DEF RegistryInv, RegistryTypes
<1>2. {db.pub[o] : o \in template} \subseteq Keys
  BY <1>1, InUseIs, OwnersAre, DbIs
<1>3. Leftover(i) \subseteq Keys
  BY <1>1, DbIs DEF Leftover
<1> QED
  BY <1>1, <1>2, <1>3 DEF AppliedAdmins, PlannedFor

LEMMA KeepingKeeps ==
  ASSUME RegistryInv, NEW x \in Managed, NEW alias \in AdminRefs \cup {NoOne}, ProvisionKeeping(x, alias)
  PROVE  RegistryInv' /\ AdminKeysStay
<1> DEFINE live == device[x]
           i == live.id
           k == live.key
           takes == TakesOver(live)
           keyed == IF takes THEN [db EXCEPT !.pub[i] = k, !.priv[i] = k] ELSE db
           e == Recorded(i, k, takes, alias)
<1>1. /\ live \in [id : Ids, key : Keys, admins : SUBSET Keys, derives : BOOLEAN]
      /\ i \in Ids /\ k \in Keys /\ db \in Db /\ Alone(db) /\ Bare(db)
      /\ i \in Owners \ Observed /\ k # NoOne
      /\ template \subseteq Owners /\ template \subseteq AdminRefs
      /\ x \in Devices
  <2>1. x \in Devices
    BY RegistryAssumption
  <2>2. template \subseteq AdminRefs
    BY InUseIs
  <2> QED
    BY <2>1, <2>2, OwnersAre DEF RegistryInv, RegistryTypes
<1>2. /\ \A o \in template : db.pub[o] # NoOne
      /\ takes => ~RotationRefused(live, alias)
      /\ ~AliasRefused(live, alias, FALSE)
      /\ db' \in {e, Captured(e, i, k)}
      /\ device' = [device EXCEPT ![x].admins = AppliedAdmins(@)]
      /\ told' = [told EXCEPT ![i] = PlannedFor(i)]
      /\ repointed' = (repointed \cup IF db.pub[i] \in {NoOne, k} THEN {} ELSE Unprotected(i))
                       \ IF template = {} THEN {} ELSE {i}
      /\ overwritten' = IF takes THEN overwritten \ {i, alias}
                        ELSE overwritten \cup IF i \in overwritten THEN {alias} \ {NoOne} ELSE {}
      /\ UNCHANGED <<template, strays, events>>
      /\ ~KeyIsShared(live)
  BY DEF ProvisionKeeping, Writes
<1>3. takes <=> db.pub[i] # k
  BY DEF TakesOver
<1>4. \A o \in Observed : db.pub[o] # k
  <2> SUFFICES ASSUME NEW o \in Observed, db.pub[o] = k PROVE FALSE
    OBVIOUS
  <2>1. o \in Owners /\ o # alias /\ o # i /\ o \in Holders(db, k)
    BY <1>1, OwnersAre DEF Holders
  <2>2. CASE ~takes
    BY <1>1, <1>3, <2>1, <2>2 DEF Alone
  <2>3. CASE takes
    <3>1. IdentityConflicts(live, alias) = {}
      BY <1>2, <2>3 DEF RotationRefused
    <3>2. o \notin Holders(db, db.pub[i])
      BY <1>3, <2>3 DEF Holders
    <3> QED
      BY <2>1, <3>1, <3>2 DEF IdentityConflicts
  <2> QED
    BY <2>2, <2>3
<1>5. takes => NodeKeyAdminRefs(db, i) = {}
  BY <1>2 DEF RotationRefused
<1>6. alias # NoOne => db.pub[alias] \in {NoOne, k}
  BY <1>2 DEF AliasRefused
<1> HIDE DEF live
<1>7. /\ keyed \in Db /\ keyed.rows = db.rows
      /\ \A o \in Owners : keyed.pub[o] = IF o = i THEN k ELSE db.pub[o]
      /\ \A o \in Owners : keyed.priv[o] = IF o = i /\ takes THEN k ELSE db.priv[o]
  <2> HIDE DEF takes, i, k
  <2>1. CASE ~takes
    BY <1>1, <1>3, <2>1
  <2>2. CASE takes
    <3> DEFINE A == [db.pub EXCEPT ![i] = k]
               m == [db EXCEPT !.pub[i] = k]
    <3>1. db = [pub |-> db.pub, priv |-> db.priv, rows |-> db.rows]
      BY <1>1 DEF Db
    <3>2. m = [pub |-> A, priv |-> db.priv, rows |-> db.rows]
      BY <3>1
    <3>3. keyed = [m EXCEPT !.priv[i] = k]
      BY <2>2
    <3>4. [m EXCEPT !.priv[i] = k] = Keyed(db, i, k, k)
      <4> HIDE DEF m, A
      <4>1. [m EXCEPT !.priv[i] = k] = [pub |-> A, priv |-> [db.priv EXCEPT ![i] = k], rows |-> db.rows]
        BY <3>2
      <4> QED
        BY <4>1 DEF Keyed, A
    <3>5. keyed = Keyed(db, i, k, k)
      BY <3>3, <3>4
    <3> HIDE DEF keyed
    <3> QED
      BY <1>1, <2>2, <3>5, KeyedIs
  <2> QED
    BY <2>1, <2>2
<1>8. e = WithRow(WithAlias(keyed, i, alias), i, i)
  BY DEF Recorded
<1> HIDE DEF keyed, i, k, takes
<1>9. Alone(keyed)
  <2> SUFFICES ASSUME NEW o \in Observed, NEW q \in Owners, keyed.pub[o] # NoOne, keyed.pub[q] = keyed.pub[o]
               PROVE  q = o
    BY DEF Alone
  <2>1. o \in Owners /\ keyed.pub[o] = db.pub[o] /\ db.pub[o] # k
    BY <1>1, <1>4, <1>7, OwnersAre
  <2>2. q # i
    BY <1>7, <2>1
  <2> QED
    BY <1>1, <1>7, <2>1, <2>2 DEF Alone
<1>10. /\ e \in Db /\ Alone(e)
       /\ \A o \in Owners : e.pub[o] = IF o = alias THEN k ELSE keyed.pub[o]
       /\ \A o \in Owners : e.priv[o] = IF o = alias /\ keyed.priv[i] # NoOne THEN keyed.priv[i] ELSE keyed.priv[o]
       /\ HasRow(e, i) /\ e.rows[i].unregistered = Leftover(i)
       /\ Names(e, i) = IF template # {} THEN template ELSE IF HasRow(db, i) THEN Names(db, i) ELSE {}
       /\ \A m \in Ids \ {i} :
            /\ HasRow(e, m) <=> HasRow(keyed, m)
            /\ HasRow(keyed, m) =>
                 /\ \A o \in Names(e, m) : o = alias \/ o \in Names(keyed, m)
                 /\ Clean(keyed, m) /\ (alias \in Names(keyed, m) => keyed.pub[alias] = k)
                      => NamedBy(e, m) = NamedBy(keyed, m)
  <2>1. keyed.pub[i] = k /\ \A o \in Observed : keyed.pub[o] # k
    BY <1>1, <1>4, <1>7, OwnersAre
  <2>2. LET r == WithRow(WithAlias(keyed, i, alias), i, i) IN
        /\ r \in Db /\ (Alone(keyed) => Alone(r))
        /\ \A o \in Owners : r.pub[o] = IF o = alias THEN k ELSE keyed.pub[o]
        /\ \A o \in Owners : r.priv[o] = IF o = alias /\ keyed.priv[i] # NoOne THEN keyed.priv[i] ELSE keyed.priv[o]
        /\ HasRow(r, i) /\ r.rows[i].unregistered = Leftover(i)
        /\ Names(r, i) = IF template # {} THEN template ELSE IF HasRow(db, i) THEN Names(db, i) ELSE {}
        /\ \A m \in Ids \ {i} :
             /\ HasRow(r, m) <=> HasRow(keyed, m)
             /\ HasRow(keyed, m) =>
                  /\ \A o \in Names(r, m) : o = alias \/ o \in Names(keyed, m)
                  /\ Clean(keyed, m) /\ (alias \in Names(keyed, m) => keyed.pub[alias] = k)
                       => NamedBy(r, m) = NamedBy(keyed, m)
    BY <1>1, <1>7, <2>1, RecordIs
  <2> HIDE DEF e
  <2> QED
    BY <1>8, <1>9, <2>2
<1> HIDE DEF e
<1>11. /\ db' \in Db /\ db'.pub = e.pub /\ db'.rows = e.rows
       /\ \A o \in Owners : \/ db'.priv[o] = e.priv[o]
                            \/ db'.priv[o] = k /\ e.pub[o] = k /\ (o = i \/ e.priv[o] # NoOne)
  <2>1. CASE db' = e
    BY <1>10, <2>1
  <2>2. CASE db' = Captured(e, i, k)
    BY <1>1, <1>10, <2>2, CapturedIs
  <2> QED
    BY <1>2, <2>1, <2>2
<1>12. \A m \in Ids : /\ HasRow(db', m) <=> HasRow(e, m)
                      /\ Names(db', m) = Names(e, m) /\ NamedBy(db', m) = NamedBy(e, m)
  BY <1>11 DEF HasRow, Names, NamedBy
<1>13. \A m \in Ids : (HasRow(keyed, m) <=> HasRow(db, m)) /\ Names(keyed, m) = Names(db, m)
  BY <1>7 DEF HasRow, Names
<1>14. alias \notin Ids /\ alias \notin Observed /\ i # alias
  BY <1>1, OwnersAre
<1>15. RegistryTypes'
  <2>1. AppliedAdmins(live.admins) \in SUBSET Keys /\ PlannedFor(i) \in SUBSET Keys
    BY <1>1, <1>2, AppliedIs
  <2>2. told' \in [Ids -> SUBSET Keys]
    BY <1>1, <1>2, <2>1 DEF RegistryInv, RegistryTypes
  <2>3. device' \in [Devices -> [id : Ids, key : Keys, admins : SUBSET Keys, derives : BOOLEAN]]
    <3>1. [live EXCEPT !.admins = AppliedAdmins(live.admins)]
            \in [id : Ids, key : Keys, admins : SUBSET Keys, derives : BOOLEAN]
      BY <1>1, <2>1
    <3>2. device' = [device EXCEPT ![x] = [live EXCEPT !.admins = AppliedAdmins(live.admins)]]
      BY <1>2 DEF live
    <3> QED
      BY <1>1, <3>1, <3>2 DEF RegistryInv, RegistryTypes
  <2>4. repointed' \subseteq Ids
    BY <1>2 DEF RegistryInv, RegistryTypes, Unprotected
  <2> QED
    BY <1>2, <1>11, <2>2, <2>3, <2>4 DEF RegistryInv, RegistryTypes
<1>16. Alone(db')
  BY <1>10, <1>11 DEF Alone
<1>17. Bare(db')
  <2> SUFFICES ASSUME NEW o \in Observed PROVE db'.priv[o] = NoOne
    BY DEF Bare
  <2>1. o \in Owners /\ o # i /\ o # alias
    BY <1>1, <1>14, OwnersAre
  <2>2. e.priv[o] = NoOne
    BY <1>1, <1>7, <1>10, <2>1 DEF Bare
  <2> QED
    BY <1>11, <2>1, <2>2
<1>18. GapsAreEmpty'
  <2> SUFFICES ASSUME NEW m \in Ids, ~HasRow(db', m)
               PROVE  db'.priv[m] = NoOne /\ told'[m] = {}
    BY DEF GapsAreEmpty
  <2>1. m # i /\ ~HasRow(db, m) /\ m \in Owners /\ m # alias
    BY <1>10, <1>12, <1>13, <1>14, OwnersAre
  <2>2. e.priv[m] = NoOne
    BY <1>7, <1>10, <2>1 DEF RegistryInv, GapsAreEmpty
  <2>3. told'[m] = {}
    BY <1>2, <2>1 DEF RegistryInv, RegistryTypes, GapsAreEmpty
  <2> QED
    BY <1>11, <2>1, <2>2, <2>3
<1>19. \A o \in Owners : e.pub[o] = k \/ e.pub[o] = db.pub[o]
  BY <1>7, <1>10
<1>20. RefsResolve'
  <2> SUFFICES ASSUME NEW m \in Ids, HasRow(db', m), NEW o \in Names(db', m)
               PROVE  db'.pub[o] # NoOne \/ o \in strays'
    BY DEF RefsResolve, Names
  <2>1. o \in Owners
    BY <1>11, DbIs
  <2>2. o = alias \/ db.pub[o] # NoOne \/ o \in strays
    <3>1. CASE m = i /\ template # {}
      BY <1>2, <1>10, <1>12, <3>1
    <3>2. CASE m = i /\ template = {}
      BY <1>10, <1>12, <3>2 DEF RegistryInv, RefsResolve, Names
    <3>3. CASE m # i
      <4>1. HasRow(db, m) /\ (o = alias \/ o \in Names(db, m))
        BY <1>10, <1>12, <1>13, <3>3
      <4> QED
        BY <4>1 DEF RegistryInv, RefsResolve, Names
    <3> QED
      BY <3>1, <3>2, <3>3
  <2> QED
    BY <1>1, <1>2, <1>10, <1>11, <1>19, <2>1, <2>2
<1>21. PrivatesMatch'
  <2> SUFFICES ASSUME NEW o \in Owners, o \notin overwritten'
               PROVE  db'.priv[o] \in {NoOne, db'.pub[o]}
    BY DEF PrivatesMatch
  <2>0. \A q \in Owners : q \in overwritten \/ db.priv[q] \in {NoOne, db.pub[q]}
    BY DEF RegistryInv, PrivatesMatch
  <2>1. e.priv[o] \in {NoOne, e.pub[o]}
    <3>1. CASE takes /\ o \in {i, alias}
      BY <1>1, <1>7, <1>10, <1>14, <3>1
    <3>2. CASE takes /\ o \notin {i, alias}
      BY <1>2, <1>7, <1>10, <2>0, <3>2
    <3>3. CASE ~takes /\ o = alias
      <4>1. alias # NoOne /\ i \notin overwritten /\ o \notin overwritten
        BY <1>2, <3>3, OwnersAre
      <4>2. db.priv[i] \in {NoOne, k} /\ db.priv[o] \in {NoOne, k}
        BY <1>1, <1>3, <1>6, <2>0, <3>3, <4>1
      <4> QED
        BY <1>1, <1>7, <1>10, <3>3, <4>2
    <3>4. CASE ~takes /\ o # alias
      <4>1. o \notin overwritten /\ keyed.pub[o] = db.pub[o]
        BY <1>2, <1>3, <1>7, <3>4
      <4> QED
        BY <1>7, <1>10, <2>0, <3>4, <4>1
    <3> QED
      BY <3>1, <3>2, <3>3, <3>4
  <2> QED
    BY <1>11, <2>1
<1>22. ASSUME NEW m \in Ids, m \notin repointed', m = i => template = {}, HasRow(db, m)
       PROVE  /\ m \notin repointed /\ Clean(db, m) /\ NamedBy(db, m) = told[m]
              /\ i \in Names(db, m) => db.pub[i] = k
              /\ alias \in Names(db, m) => db.pub[alias] = k
  <2>1. m \notin repointed
    BY <1>2, <1>22
  <2>2. Clean(db, m) /\ NamedBy(db, m) = told[m]
    BY <1>22, <2>1, MeantRowsAreClean
  <2>3. ASSUME i \in Names(db, m), db.pub[i] # k PROVE FALSE
    <3>1. m \in Unprotected(i) /\ db.pub[i] # NoOne
      BY <1>1, <1>3, <1>5, <1>22, <2>2, <2>3, NamersAreUnprotected
    <3> QED
      BY <1>2, <1>22, <2>3, <3>1
  <2>4. ASSUME alias \in Names(db, m) PROVE db.pub[alias] = k
    <3>1. db.pub[alias] # NoOne /\ alias \in Owners
      BY <1>1, <1>22, <2>2, <2>4, DbIs DEF Clean
    <3> QED
      BY <1>6, <3>1, OwnersAre
  <2> QED
    BY <2>1, <2>2, <2>3, <2>4
<1>23. RowsKeepTheirMeaning'
  <2> SUFFICES ASSUME NEW m \in Ids, m \notin repointed', HasRow(db', m)
               PROVE  NamedBy(db', m) = told'[m]
    BY DEF RowsKeepTheirMeaning
  <2>1. CASE m = i
    <3>1. \A o \in template : e.pub[o] = db.pub[o]
      <4> SUFFICES ASSUME NEW o \in template PROVE e.pub[o] = db.pub[o]
        OBVIOUS
      <4>1. o \in Owners /\ o # i /\ db.pub[o] # NoOne
        BY <1>1, <1>2, OwnersAre
      <4> QED
        BY <1>6, <1>7, <1>10, <4>1, OwnersAre
    <3>2. ASSUME template = {}, HasRow(db, i)
          PROVE  i \notin repointed /\ \A o \in Names(db, i) : e.pub[o] = db.pub[o]
      <4>1. /\ i \notin repointed
            /\ i \in Names(db, i) => db.pub[i] = k
            /\ alias \in Names(db, i) => db.pub[alias] = k
        BY <1>22, <2>1, <3>2
      <4>2. Names(db, i) \subseteq Owners
        BY <1>1, <3>2, DbIs
      <4> QED
        BY <1>7, <1>10, <4>1, <4>2
    <3>3. NamedBy(e, i) = PlannedFor(i)
      BY <1>1, <1>10, <3>1, <3>2, PlannedRow
    <3> QED
      BY <1>2, <1>12, <2>1, <3>3 DEF RegistryInv, RegistryTypes
  <2>2. CASE m # i
    <3>1. HasRow(db, m) /\ told'[m] = told[m]
      BY <1>2, <1>10, <1>12, <1>13, <2>2 DEF RegistryInv, RegistryTypes
    <3>2. /\ Clean(db, m) /\ NamedBy(db, m) = told[m]
          /\ i \in Names(db, m) => db.pub[i] = k
          /\ alias \in Names(db, m) => db.pub[alias] = k
      BY <1>22, <2>2, <3>1
    <3>3. Names(db, m) \subseteq Owners
      BY <1>1, <3>1, DbIs
    <3>4. \A o \in Names(db, m) : keyed.pub[o] = db.pub[o]
      BY <1>7, <3>2, <3>3
    <3>5. Clean(keyed, m) /\ (alias \in Names(keyed, m) => keyed.pub[alias] = k)
      BY <1>13, <3>2, <3>4 DEF Clean
    <3>6. NamedBy(keyed, m) = NamedBy(db, m)
      BY <1>7, <3>4 DEF NamedBy, Names
    <3>7. NamedBy(e, m) = NamedBy(keyed, m)
      BY <1>10, <1>13, <2>2, <3>1, <3>5
    <3> QED
      BY <1>12, <3>1, <3>2, <3>6, <3>7
  <2> QED
    BY <2>1, <2>2
<1>24. AdminKeysStay
  <2> SUFFICES ASSUME NEW o \in InUse(db), db.pub[o] # NoOne, NEW n \in Ids, db.pub[n] = db.pub[o]
               PROVE  db'.pub[n] = db.pub[o]
    BY DEF AdminKeysStay, IsRecorded
  <2>1. n \in Owners /\ o \in Owners /\ n # alias
    BY <1>14, InUseIs, OwnersAre
  <2>2. CASE n = i
    <3>1. o \in NodeKeyAdminRefs(db, i)
      BY <2>1, <2>2 DEF NodeKeyAdminRefs, Holders
    <3> QED
      BY <1>3, <1>5, <1>7, <1>10, <1>11, <2>1, <2>2, <3>1
  <2>3. CASE n # i
    BY <1>7, <1>10, <1>11, <2>1, <2>3
  <2> QED
    BY <2>2, <2>3
<1> QED
  BY <1>15, <1>16, <1>17, <1>18, <1>20, <1>21, <1>23, <1>24 DEF RegistryInv, Alone, Bare

(* The device has a fresh key, under a new id if firmware derives it: its  *)
(* row, if there is one, has moved there.                                  *)
LEMMA RegeneratedIs ==
  ASSUME NEW d \in Db, Alone(d), NEW i \in Ids, NEW j \in Ids, i # j => IsFree(d, j),
         NEW k \in Keys, Holders(d, k) = {}
  PROVE  LET moves == i # j /\ HasRow(d, i)
             moved == IF moves THEN RenumberRows(d, i, j) ELSE d
             e == [moved EXCEPT !.pub[j] = k, !.priv[j] = k]
         IN
         /\ e \in Db /\ Alone(e) /\ \A o \in Observed : e.pub[o] # k
         /\ \A o \in Owners :
              /\ e.pub[o] = IF o = j THEN k ELSE IF moves /\ o = i THEN NoOne ELSE d.pub[o]
              /\ e.priv[o] = IF o = j THEN k ELSE IF moves /\ o = i THEN NoOne ELSE d.priv[o]
         /\ \A m \in Ids \ {j} :
              /\ HasRow(e, m) <=> HasRow(d, m) /\ ~(moves /\ m = i)
              /\ HasRow(e, m) =>
                   /\ moves => i \notin Names(e, m)
                   /\ \A o \in Names(e, m) : o = j \/ o \in Names(d, m)
                   /\ Clean(d, m) /\ i \notin Names(d, m) => NamedBy(e, m) = NamedBy(d, m) /\ Clean(e, m)
<1> DEFINE moves == i # j /\ HasRow(d, i)
           moved == IF moves THEN RenumberRows(d, i, j) ELSE d
           e == [moved EXCEPT !.pub[j] = k, !.priv[j] = k]
<1>1. i \in Owners \ Observed /\ j \in Owners \ Observed /\ k # NoOne
  BY OwnersAre
<1>2. i # j => d.pub[j] = NoOne
  BY DEF IsFree
<1>3. /\ moved \in Db /\ Alone(moved)
      /\ \A o \in Owners :
           /\ moved.pub[o] = IF moves /\ o = j THEN d.pub[i] ELSE IF moves /\ o = i THEN NoOne ELSE d.pub[o]
           /\ moved.priv[o] = IF moves /\ o = j THEN d.priv[i] ELSE IF moves /\ o = i THEN NoOne ELSE d.priv[o]
      /\ \A m \in Ids \ {j} :
           /\ HasRow(moved, m) <=> HasRow(d, m) /\ ~(moves /\ m = i)
           /\ HasRow(moved, m) =>
                /\ moves => i \notin Names(moved, m)
                /\ \A o \in Names(moved, m) : o \in Names(d, m) \/ (o = j /\ i \in Names(d, m))
                /\ Clean(d, m) => NamedBy(moved, m) = NamedBy(d, m) /\ Clean(moved, m)
  <2>1. CASE ~moves
    BY <2>1
  <2>2. CASE moves
    <3> DEFINE r == RenumberRows(d, i, j)
               Before(m) == IF m = j THEN i ELSE m
    <3>1. /\ r \in Db /\ ~HasRow(r, i)
          /\ \A o \in Owners :
               /\ r.pub[o] = IF o = j THEN d.pub[i] ELSE IF o = i THEN NoOne ELSE d.pub[o]
               /\ r.priv[o] = IF o = j THEN d.priv[i] ELSE IF o = i THEN NoOne ELSE d.priv[o]
          /\ Alone(d) => Alone(r)
          /\ \A m \in Ids \ {i} :
               /\ HasRow(r, m) <=> HasRow(d, Before(m))
               /\ HasRow(r, m) =>
                    /\ i \notin Names(r, m)
                    /\ \A o \in Names(r, m) :
                         \/ o \in Names(d, Before(m))
                         \/ o = j /\ i \in Names(d, Before(m))
                    /\ Clean(d, Before(m)) => NamedBy(r, m) = NamedBy(d, Before(m)) /\ Clean(r, m)
      BY <2>2, MovedIs
    <3>2. \A m \in Ids \ {j} : Before(m) = m
      OBVIOUS
    <3>3. moved = r
      BY <2>2
    <3> HIDE DEF r, Before, moved
    <3> QED
      BY <2>2, <3>1, <3>2, <3>3
  <2> QED
    BY <2>1, <2>2
<1>4. e = Keyed(moved, j, k, k)
  <2> HIDE DEF moved, moves
  <2> DEFINE A == [moved.pub EXCEPT ![j] = k]
             n == [moved EXCEPT !.pub[j] = k]
  <2>1. moved = [pub |-> moved.pub, priv |-> moved.priv, rows |-> moved.rows]
    BY <1>3 DEF Db
  <2>2. n = [pub |-> A, priv |-> moved.priv, rows |-> moved.rows]
    BY <2>1
  <2>3. e = [n EXCEPT !.priv[j] = k]
    OBVIOUS
  <2>4. [n EXCEPT !.priv[j] = k] = Keyed(moved, j, k, k)
    <3> HIDE DEF n, A
    <3>1. [n EXCEPT !.priv[j] = k] = [pub |-> A, priv |-> [moved.priv EXCEPT ![j] = k], rows |-> moved.rows]
      BY <2>2
    <3> QED
      BY <3>1 DEF Keyed, A
  <2> QED
    BY <2>3, <2>4
<1> HIDE DEF moved, e
<1>5. /\ e \in Db /\ e.rows = moved.rows
      /\ \A o \in Owners : e.pub[o] = IF o = j THEN k ELSE moved.pub[o]
      /\ \A o \in Owners : e.priv[o] = IF o = j THEN k ELSE moved.priv[o]
  BY <1>1, <1>3, <1>4, KeyedIs
<1>6. \A o \in Owners :
        /\ e.pub[o] = IF o = j THEN k ELSE IF moves /\ o = i THEN NoOne ELSE d.pub[o]
        /\ e.priv[o] = IF o = j THEN k ELSE IF moves /\ o = i THEN NoOne ELSE d.priv[o]
  BY <1>3, <1>5
<1> HIDE DEF moves
<1>7. \A o \in Observed : o \in Owners /\ e.pub[o] # k /\ e.pub[o] = d.pub[o]
  <2> SUFFICES ASSUME NEW o \in Observed PROVE o \in Owners /\ e.pub[o] # k /\ e.pub[o] = d.pub[o]
    OBVIOUS
  <2>1. o \in Owners /\ o # i /\ o # j
    BY <1>1, OwnersAre
  <2>2. d.pub[o] # k
    BY <2>1 DEF Holders
  <2> QED
    BY <1>6, <2>1, <2>2
<1>8. Alone(e)
  <2> SUFFICES ASSUME NEW o \in Observed, NEW q \in Owners, e.pub[o] # NoOne, e.pub[q] = e.pub[o]
               PROVE  q = o
    BY DEF Alone
  <2>1. e.pub[o] = d.pub[o] /\ e.pub[o] # k
    BY <1>7
  <2>2. e.pub[q] = d.pub[q]
    BY <1>6, <2>1
  <2> QED
    BY <2>1, <2>2 DEF Alone
<1>9. ASSUME NEW m \in Ids \ {j}
      PROVE  /\ HasRow(e, m) <=> HasRow(d, m) /\ ~(moves /\ m = i)
             /\ HasRow(e, m) =>
                  /\ moves => i \notin Names(e, m)
                  /\ \A o \in Names(e, m) : o = j \/ o \in Names(d, m)
                  /\ Clean(d, m) /\ i \notin Names(d, m) => NamedBy(e, m) = NamedBy(d, m) /\ Clean(e, m)
  <2>1. (HasRow(e, m) <=> HasRow(moved, m)) /\ Names(e, m) = Names(moved, m)
    BY <1>5 DEF HasRow, Names
  <2>2. ASSUME HasRow(moved, m), Clean(d, m), i \notin Names(d, m)
        PROVE  NamedBy(e, m) = NamedBy(d, m) /\ Clean(e, m)
    <3>1. NamedBy(moved, m) = NamedBy(d, m) /\ Clean(moved, m)
      BY <1>3, <2>2
    <3>2. j \notin Names(moved, m)
      <4>1. j \in Names(moved, m) => j \in Names(d, m)
        BY <1>3, <2>2
      <4>2. j \notin Names(d, m)
        BY <1>2, <2>2 DEF Clean
      <4> QED
        BY <4>1, <4>2
    <3>3. Names(moved, m) \subseteq Owners
      BY <1>3, <2>2, DbIs
    <3>4. \A o \in Names(moved, m) : e.pub[o] = moved.pub[o]
      BY <1>5, <3>2, <3>3
    <3>5. NamedBy(e, m) = NamedBy(moved, m)
      BY <1>5, <3>4 DEF NamedBy, Names
    <3> QED
      BY <2>1, <3>1, <3>4, <3>5 DEF Clean
  <2> QED
    BY <1>3, <2>1, <2>2
<1> QED
  BY <1>5, <1>6, <1>7, <1>8, <1>9 DEF e, moved, moves

LEMMA RegeneratingKeeps ==
  ASSUME RegistryInv, NEW x \in Managed, NEW alias \in AdminRefs \cup {NoOne}, NEW k \in FreshKeys,
         ProvisionRegenerating(x, alias, k)
  PROVE  RegistryInv' /\ AdminKeysStay
<1> DEFINE live == device[x]
           i == live.id
           j == IF live.derives THEN DerivedId[k] ELSE i
           moves == i # j /\ HasRow(db, i)
           moved == IF moves THEN RenumberRows(db, i, j) ELSE db
           keyed == [moved EXCEPT !.pub[j] = k, !.priv[j] = k]
           e == WithRow(WithAlias(keyed, j, alias), i, j)
<1>1. /\ live \in [id : Ids, key : Keys, admins : SUBSET Keys, derives : BOOLEAN]
      /\ i \in Ids /\ j \in Ids /\ k \in Keys /\ db \in Db /\ Alone(db) /\ Bare(db)
      /\ i \in Owners \ Observed /\ j \in Owners \ Observed /\ k # NoOne
      /\ template \subseteq Owners /\ template \subseteq AdminRefs
      /\ x \in Devices
  <2>1. x \in Devices /\ k \in Keys /\ DerivedId[k] \in Ids
    BY RegistryAssumption
  <2>2. template \subseteq AdminRefs
    BY InUseIs
  <2> QED
    BY <2>1, <2>2, OwnersAre DEF RegistryInv, RegistryTypes
<1>2. /\ \A o \in template : db.pub[o] # NoOne
      /\ Holders(db, k) = {}
      /\ ~RotationRefused(live, alias) /\ ~AliasRefused(live, alias, TRUE)
      /\ i # j => IsFree(db, j)
      /\ db' = e
      /\ strays' = strays \cup IF i # j /\ SelfNamed(i) THEN {i} ELSE {}
      /\ device' = [device EXCEPT ![x] =
                     [live EXCEPT !.id = j, !.key = k, !.admins = AppliedAdmins(live.admins)]]
      /\ told' = [told EXCEPT ![i] = IF i = j THEN @ ELSE {}, ![j] = PlannedFor(i)]
      /\ repointed' = Move(repointed \cup IF db.pub[i] = NoOne THEN {} ELSE Unprotected(i), i, j)
                        \ IF template = {} THEN {} ELSE {j}
      /\ overwritten' = Move(overwritten, i, j) \ {j, alias}
      /\ UNCHANGED <<template, events>>
  BY DEF ProvisionRegenerating
<1>3. NodeKeyAdminRefs(db, i) = {} /\ (alias # NoOne => db.pub[alias] = NoOne)
  BY <1>2 DEF RotationRefused, AliasRefused
<1>4. /\ keyed \in Db /\ Alone(keyed) /\ \A o \in Observed : keyed.pub[o] # k
      /\ \A o \in Owners :
           /\ keyed.pub[o] = IF o = j THEN k ELSE IF moves /\ o = i THEN NoOne ELSE db.pub[o]
           /\ keyed.priv[o] = IF o = j THEN k ELSE IF moves /\ o = i THEN NoOne ELSE db.priv[o]
      /\ \A m \in Ids \ {j} :
           /\ HasRow(keyed, m) <=> HasRow(db, m) /\ ~(moves /\ m = i)
           /\ HasRow(keyed, m) =>
                /\ moves => i \notin Names(keyed, m)
                /\ \A o \in Names(keyed, m) : o = j \/ o \in Names(db, m)
                /\ Clean(db, m) /\ i \notin Names(db, m) => NamedBy(keyed, m) = NamedBy(db, m) /\ Clean(keyed, m)
  <2> HIDE DEF i, j, live
  <2> QED
    BY <1>1, <1>2, RegeneratedIs
<1> HIDE DEF keyed
<1>5. /\ e \in Db /\ Alone(e)
      /\ \A o \in Owners : e.pub[o] = IF o = alias THEN k ELSE keyed.pub[o]
      /\ \A o \in Owners : e.priv[o] = IF o = alias THEN k ELSE keyed.priv[o]
      /\ HasRow(e, j) /\ e.rows[j].unregistered = Leftover(i)
      /\ Names(e, j) = IF template # {} THEN template ELSE IF HasRow(db, i) THEN Names(db, i) ELSE {}
      /\ \A m \in Ids \ {j} :
           /\ HasRow(e, m) <=> HasRow(keyed, m)
           /\ HasRow(keyed, m) =>
                /\ \A o \in Names(e, m) : o = alias \/ o \in Names(keyed, m)
                /\ Clean(keyed, m) /\ (alias \in Names(keyed, m) => keyed.pub[alias] = k)
                     => NamedBy(e, m) = NamedBy(keyed, m)
  <2> HIDE DEF i, j, live, moves
  <2>1. keyed.pub[j] = k /\ keyed.priv[j] = k
    BY <1>1, <1>4
  <2>2. /\ e \in Db /\ (Alone(keyed) => Alone(e))
        /\ \A o \in Owners : e.pub[o] = IF o = alias THEN k ELSE keyed.pub[o]
        /\ \A o \in Owners : e.priv[o] = IF o = alias /\ keyed.priv[j] # NoOne THEN keyed.priv[j] ELSE keyed.priv[o]
        /\ HasRow(e, j) /\ e.rows[j].unregistered = Leftover(i)
        /\ Names(e, j) = IF template # {} THEN template ELSE IF HasRow(db, i) THEN Names(db, i) ELSE {}
        /\ \A m \in Ids \ {j} :
             /\ HasRow(e, m) <=> HasRow(keyed, m)
             /\ HasRow(keyed, m) =>
                  /\ \A o \in Names(e, m) : o = alias \/ o \in Names(keyed, m)
                  /\ Clean(keyed, m) /\ (alias \in Names(keyed, m) => keyed.pub[alias] = k)
                       => NamedBy(e, m) = NamedBy(keyed, m)
    BY <1>1, <1>4, <2>1, RecordIs
  <2> HIDE DEF e
  <2> QED
    BY <1>1, <1>4, <2>1, <2>2
<1> HIDE DEF e, i, j, live
<1>6. alias \notin Ids /\ alias \notin Observed /\ alias # i /\ alias # j
  BY <1>1, OwnersAre
<1>7. i # j => db.pub[j] = NoOne /\ ~HasRow(db, j)
  BY <1>2 DEF IsFree
<1>8. PlannedFor(i) \in SUBSET Keys /\ AppliedAdmins(live.admins) \in SUBSET Keys
  BY <1>1, <1>2, AppliedIs
<1>9. /\ told' \in [Ids -> SUBSET Keys]
      /\ \A m \in Ids : told'[m] = IF m = j THEN PlannedFor(i) ELSE IF m = i THEN {} ELSE told[m]
  BY <1>1, <1>2, <1>8 DEF RegistryInv, RegistryTypes
<1>10. RegistryTypes'
  <2>1. device' \in [Devices -> [id : Ids, key : Keys, admins : SUBSET Keys, derives : BOOLEAN]]
    <3> DEFINE new == [live EXCEPT !.id = j, !.key = k, !.admins = AppliedAdmins(live.admins)]
    <3>1. new \in [id : Ids, key : Keys, admins : SUBSET Keys, derives : BOOLEAN]
      <4> DEFINE renamed == [live EXCEPT !.id = j]
                 rekeyed == [renamed EXCEPT !.key = k]
      <4>1. renamed \in [id : Ids, key : Keys, admins : SUBSET Keys, derives : BOOLEAN]
        BY <1>1
      <4> HIDE DEF renamed
      <4>2. rekeyed \in [id : Ids, key : Keys, admins : SUBSET Keys, derives : BOOLEAN]
        BY <1>1, <4>1
      <4> HIDE DEF rekeyed
      <4>3. [rekeyed EXCEPT !.admins = AppliedAdmins(live.admins)]
              \in [id : Ids, key : Keys, admins : SUBSET Keys, derives : BOOLEAN]
        BY <1>8, <4>2
      <4> QED
        BY <4>3 DEF rekeyed, renamed
    <3>2. device' = [device EXCEPT ![x] = new]
      BY <1>2
    <3> HIDE DEF new
    <3> QED
      BY <1>1, <3>1, <3>2 DEF RegistryInv, RegistryTypes
  <2>2. repointed' \subseteq Ids
    BY <1>1, <1>2 DEF RegistryInv, RegistryTypes, Unprotected, Move
  <2> QED
    BY <1>2, <1>5, <1>9, <2>1, <2>2 DEF RegistryInv, RegistryTypes
<1>11. Bare(db')
  <2> SUFFICES ASSUME NEW o \in Observed PROVE e.priv[o] = NoOne
    BY <1>2 DEF Bare
  <2>1. o \in Owners /\ o # j /\ o # i /\ o # alias
    BY <1>1, <1>6, OwnersAre
  <2> QED
    BY <1>1, <1>4, <1>5, <2>1 DEF Bare
<1>12. GapsAreEmpty'
  <2> SUFFICES ASSUME NEW m \in Ids, ~HasRow(e, m)
               PROVE  e.priv[m] = NoOne /\ told'[m] = {}
    BY <1>2 DEF GapsAreEmpty
  <2>1. m # j /\ m # alias /\ m \in Owners /\ ~HasRow(keyed, m)
    BY <1>5, <1>6, OwnersAre
  <2>2. (moves /\ m = i) \/ ~HasRow(db, m)
    BY <1>4, <2>1
  <2> QED
    BY <1>4, <1>5, <1>9, <2>1, <2>2 DEF RegistryInv, GapsAreEmpty
<1>13. \A o \in Owners : e.pub[o] = k \/ (moves /\ o = i) \/ e.pub[o] = db.pub[o]
  BY <1>4, <1>5
<1>14. RefsResolve'
  <2> SUFFICES ASSUME NEW m \in Ids, HasRow(e, m), NEW o \in Names(e, m)
               PROVE  e.pub[o] # NoOne \/ o \in strays'
    BY <1>2 DEF RefsResolve, Names
  <2>1. o \in Owners
    BY <1>5, DbIs
  <2>2. CASE m = j /\ template # {}
    <3>1. db.pub[o] # NoOne /\ o # i
      BY <1>1, <1>2, <1>5, <2>2, OwnersAre
    <3> QED
      BY <1>1, <1>13, <2>1, <3>1
  <2>3. CASE m = j /\ template = {}
    <3>1. HasRow(db, i) /\ o \in Names(db, i)
      BY <1>5, <2>3
    <3>2. db.pub[o] # NoOne \/ o \in strays
      BY <1>1, <3>1 DEF RegistryInv, RefsResolve, Names
    <3>3. moves /\ o = i => i \in strays'
      BY <1>2, <2>3, <3>1 DEF SelfNamed, Names, moves
    <3> QED
      BY <1>1, <1>2, <1>13, <2>1, <3>2, <3>3
  <2>4. CASE m # j
    <3>1. HasRow(keyed, m) /\ (o = alias \/ o \in Names(keyed, m))
      BY <1>5, <2>4
    <3>2. o = alias \/ o = j \/ (o \in Names(db, m) /\ HasRow(db, m) /\ ~(moves /\ o = i))
      BY <1>4, <2>4, <3>1
    <3>3. o \in {alias, j} => e.pub[o] = k
      BY <1>1, <1>4, <1>5, <2>1
    <3>4. o \in Names(db, m) /\ HasRow(db, m) => db.pub[o] # NoOne \/ o \in strays
      BY DEF RegistryInv, RefsResolve, Names
    <3> QED
      BY <1>1, <1>2, <1>13, <2>1, <3>2, <3>3, <3>4
  <2> QED
    BY <2>2, <2>3, <2>4
<1>15. PrivatesMatch'
  <2> SUFFICES ASSUME NEW o \in Owners, o \notin overwritten'
               PROVE  e.priv[o] \in {NoOne, e.pub[o]}
    BY <1>2 DEF PrivatesMatch
  <2>1. CASE o \in {j, alias}
    BY <1>4, <1>5, <2>1
  <2>2. CASE o \notin {j, alias} /\ moves /\ o = i
    BY <1>4, <1>5, <2>2
  <2>3. CASE o \notin {j, alias} /\ ~moves /\ o = i
    <3>1. ~HasRow(db, i)
      BY <2>3 DEF moves
    <3>2. db.priv[i] = NoOne
      BY <1>1, <3>1 DEF RegistryInv, GapsAreEmpty
    <3> QED
      BY <1>4, <1>5, <2>3, <3>2
  <2>4. CASE o \notin {j, alias} /\ o # i
    <3>1. o \notin overwritten
      BY <1>2, <2>4 DEF Move
    <3> QED
      BY <1>4, <1>5, <2>4, <3>1 DEF RegistryInv, PrivatesMatch
  <2> QED
    BY <2>1, <2>2, <2>3, <2>4
<1>16. ASSUME NEW m \in Ids, HasRow(db, m), m \notin repointed,
              m \notin IF db.pub[i] = NoOne THEN {} ELSE Unprotected(i)
       PROVE  /\ Clean(db, m) /\ NamedBy(db, m) = told[m] /\ Names(db, m) \subseteq Owners
              /\ i \notin Names(db, m) /\ alias \notin Names(db, m)
  <2>1. Clean(db, m) /\ NamedBy(db, m) = told[m] /\ Names(db, m) \subseteq Owners
    BY <1>1, <1>16, MeantRowsAreClean, DbIs
  <2>2. ASSUME i \in Names(db, m) PROVE FALSE
    <3>1. m \in Unprotected(i) /\ db.pub[i] # NoOne
      BY <1>1, <1>3, <1>16, <2>1, <2>2, NamersAreUnprotected
    <3> QED
      BY <1>16, <3>1
  <2>3. ASSUME alias \in Names(db, m) PROVE FALSE
    <3>1. alias # NoOne
      BY <2>1, <2>3, OwnersAre
    <3> QED
      BY <1>3, <2>1, <2>3, <3>1 DEF Clean
  <2> QED
    BY <2>1, <2>2, <2>3
<1>17. RowsKeepTheirMeaning'
  <2> SUFFICES ASSUME NEW m \in Ids, m \notin repointed', HasRow(e, m)
               PROVE  NamedBy(e, m) = told'[m]
    BY <1>2 DEF RowsKeepTheirMeaning
  <2> DEFINE Set == repointed \cup IF db.pub[i] = NoOne THEN {} ELSE Unprotected(i)
  <2>1. repointed' = Move(Set, i, j) \ IF template = {} THEN {} ELSE {j}
    BY <1>2
  <2> HIDE DEF Set
  <2>2. CASE m = j
    <3>1. \A o \in template : e.pub[o] = db.pub[o]
      <4> SUFFICES ASSUME NEW o \in template PROVE e.pub[o] = db.pub[o]
        OBVIOUS
      <4>1. o \in Owners /\ o # i /\ o # j /\ db.pub[o] # NoOne
        BY <1>1, <1>2, OwnersAre
      <4>2. o # alias
        BY <1>3, <4>1, OwnersAre
      <4> QED
        BY <1>4, <1>5, <4>1, <4>2
    <3>2. ASSUME template = {}, HasRow(db, i)
          PROVE  i \notin repointed /\ \A o \in Names(db, i) : e.pub[o] = db.pub[o]
      <4>1. i \notin Set
        BY <2>1, <2>2, <3>2 DEF Move
      <4>2. /\ i \notin repointed /\ Clean(db, i) /\ Names(db, i) \subseteq Owners
            /\ i \notin Names(db, i) /\ alias \notin Names(db, i)
        BY <1>1, <1>16, <3>2, <4>1 DEF Set
      <4>3. j \notin Names(db, i)
        BY <1>7, <4>2 DEF Clean
      <4> QED
        BY <1>4, <1>5, <4>2, <4>3
    <3>3. NamedBy(e, j) = PlannedFor(i)
      BY <1>1, <1>5, <3>1, <3>2, PlannedRow
    <3> QED
      BY <1>9, <2>2, <3>3
  <2>3. CASE m # j
    <3>1. HasRow(keyed, m) /\ HasRow(db, m) /\ ~(moves /\ m = i)
      BY <1>4, <1>5, <2>3
    <3>2. m # i
      BY <2>3, <3>1 DEF moves
    <3>3. m \notin Set
      BY <2>1, <2>3, <3>2 DEF Move
    <3>4. /\ Clean(db, m) /\ NamedBy(db, m) = told[m]
          /\ i \notin Names(db, m) /\ alias \notin Names(db, m)
      BY <1>16, <3>1, <3>3 DEF Set
    <3>5. NamedBy(keyed, m) = NamedBy(db, m) /\ Clean(keyed, m) /\ alias \notin Names(keyed, m)
      BY <1>4, <1>6, <2>3, <3>1, <3>4
    <3>6. NamedBy(e, m) = NamedBy(keyed, m)
      BY <1>5, <2>3, <3>1, <3>5
    <3> QED
      BY <1>9, <2>3, <3>2, <3>4, <3>5, <3>6
  <2> QED
    BY <2>2, <2>3
<1>18. AdminKeysStay
  <2> SUFFICES ASSUME NEW o \in InUse(db), db.pub[o] # NoOne, NEW n \in Ids, db.pub[n] = db.pub[o]
               PROVE  e.pub[n] = db.pub[o]
    BY <1>2 DEF AdminKeysStay, IsRecorded
  <2>1. n \in Owners /\ o \in Owners /\ n # alias
    BY <1>6, InUseIs, OwnersAre
  <2>2. n # i
    <3> SUFFICES ASSUME n = i PROVE FALSE
      OBVIOUS
    <3>1. o \in NodeKeyAdminRefs(db, i)
      BY <2>1 DEF NodeKeyAdminRefs, Holders
    <3> QED
      BY <1>3, <3>1
  <2>3. n # j
    BY <1>7, <2>2
  <2> QED
    BY <1>4, <1>5, <2>1, <2>2, <2>3
<1>19. Alone(db')
  BY <1>2, <1>5
<1> QED
  BY <1>10, <1>11, <1>12, <1>14, <1>15, <1>17, <1>18, <1>19 DEF RegistryInv, Alone, Bare

-----------------------------------------------------------------------------
LEMMA StepKeeps ==
  ASSUME RegistryInv, RegistryNext
  PROVE  RegistryInv' /\ (Overwrites \/ AdminKeysStay)
<1> DEFINE Lives == [id : Ids, key : Keys, admins : SUBSET Keys, derives : BOOLEAN]
<1>0. /\ device \in [Devices -> Lives] /\ template \in Templates /\ OtherKeys \subseteq Keys
      /\ AdminSets \subseteq SUBSET Keys /\ DerivedId \in [Keys -> Ids]
  BY RegistryAssumption DEF RegistryInv, RegistryTypes
<1>1. ASSUME NEW x \in Devices, NEW shows \in {"none", "unproven", "proven"}, Adopt(x, shows)
      PROVE  RegistryInv' /\ AdminKeysStay
  BY <1>1, AdoptKeeps
<1>2. ASSUME NEW x \in Managed, NEW alias \in AdminRefs \cup {NoOne}, ProvisionKeeping(x, alias)
      PROVE  RegistryInv' /\ AdminKeysStay
  BY <1>2, KeepingKeeps
<1>3. ASSUME NEW x \in Managed, NEW alias \in AdminRefs \cup {NoOne}, NEW k \in FreshKeys,
             ProvisionRegenerating(x, alias, k)
      PROVE  RegistryInv' /\ AdminKeysStay
  BY <1>3, RegeneratingKeeps
<1>4. ASSUME NEW ref \in AdminRefs \cup Ids, NEW k \in Keys, AdminImport(ref, k)
      PROVE  RegistryInv' /\ (Overwrites \/ AdminKeysStay)
  BY <1>4, ImportKeeps
<1>5. ASSUME NEW i \in Ids, DbForget(i)
      PROVE  RegistryInv' /\ AdminKeysStay
  BY <1>5, ForgetKeeps DEF AdminKeysStay
<1>6. ASSUME NEW i \in Ids, NEW j \in Ids, DbRenumber(i, j)
      PROVE  RegistryInv' /\ AdminKeysStay
  BY <1>6, RenumberKeeps
<1>7. ASSUME NEW x \in Devices, NEW k \in OtherKeys, KeyChanges(x, k)
      PROVE  RegistryInv' /\ AdminKeysStay
  <2> DEFINE id == IF device[x].derives THEN DerivedId[k] ELSE device[x].id
             keyed == [device[x] EXCEPT !.key = k]
             new == [keyed EXCEPT !.id = id]
  <2>1. keyed \in Lives /\ id \in Ids
    BY <1>0, <1>7
  <2>2. new \in Lives
    <3> HIDE DEF keyed, id
    <3> QED
      BY <2>1
  <2>3. device' = [device EXCEPT ![x] = new]
    BY <1>7 DEF KeyChanges
  <2> HIDE DEF new
  <2>4. device' \in [Devices -> Lives]
    BY <1>0, <2>2, <2>3
  <2>5. UNCHANGED <<template, db, told, repointed, overwritten, strays>>
    BY <1>7 DEF KeyChanges
  <2> QED
    BY <1>0, <2>4, <2>5, OthersKeep DEF AdminKeysStay
<1>8. ASSUME NEW x \in Devices, NEW keys \in AdminSets, AdminsChange(x, keys)
      PROVE  RegistryInv' /\ AdminKeysStay
  <2>1. [device[x] EXCEPT !.admins = keys] \in Lives
    BY <1>0, <1>8
  <2>2. device' = [device EXCEPT ![x] = [device[x] EXCEPT !.admins = keys]]
    BY <1>8 DEF AdminsChange
  <2>3. device' \in [Devices -> Lives]
    BY <1>0, <2>1, <2>2
  <2>4. UNCHANGED <<template, db, told, repointed, overwritten, strays>>
    BY <1>8 DEF AdminsChange
  <2> QED
    BY <1>0, <2>3, <2>4, OthersKeep DEF AdminKeysStay
<1>9. ASSUME NEW x \in Devices, Upgrades(x)
      PROVE  RegistryInv' /\ AdminKeysStay
  <2> DEFINE derived == [device[x] EXCEPT !.derives = TRUE]
             id == DerivedId[device[x].key]
             new == [derived EXCEPT !.id = id]
  <2>0. device[x] \in Lives
    BY <1>0
  <2>1. derived \in Lives /\ id \in Ids
    BY <1>0, <2>0
  <2>2. new \in Lives
    <3> HIDE DEF derived, id
    <3> QED
      BY <2>1
  <2>3. device' = [device EXCEPT ![x] = new]
    BY <1>9 DEF Upgrades
  <2> HIDE DEF new
  <2>4. device' \in [Devices -> Lives]
    BY <1>0, <2>2, <2>3
  <2>5. UNCHANGED <<template, db, told, repointed, overwritten, strays>>
    BY <1>9 DEF Upgrades
  <2> QED
    BY <1>0, <2>4, <2>5, OthersKeep DEF AdminKeysStay
<1>10. ASSUME NEW names \in Templates, TemplateChanges(names)
       PROVE  RegistryInv' /\ AdminKeysStay
  BY <1>0, <1>10, OthersKeep DEF TemplateChanges, AdminKeysStay
<1> QED
  BY <1>1, <1>2, <1>3, <1>4, <1>5, <1>6, <1>7, <1>8, <1>9, <1>10 DEF RegistryNext

LEMMA StutterKeeps ==
  ASSUME RegistryInv, UNCHANGED registryVars
  PROVE  RegistryInv'
BY OthersKeep DEF registryVars, RegistryInv, RegistryTypes

LEMMA InvIsSound == RegistryInv => RegistryIsSound
<1> SUFFICES ASSUME RegistryInv PROVE RegistryIsSound
  OBVIOUS
<1>1. RegistryTypeOK
  <2>1. db \in Db
    BY DEF RegistryInv, RegistryTypes
  <2>2. \A m \in Ids : HasRow(db, m) => db.rows[m] \in Row
    BY <2>1, DbIs
  <2>3. db.pub \in KeyFiles /\ db.priv \in KeyFiles
    BY <2>1, DbIs
  <2> QED
    BY <2>2, <2>3 DEF RegistryTypeOK, RegistryInv, RegistryTypes, KeyFiles
<1>2. ObservedIsAlone
  <2> SUFFICES ASSUME NEW o \in Observed, db.pub[o] # NoOne PROVE Holders(db, db.pub[o]) = {o}
    BY DEF ObservedIsAlone
  <2>1. o \in Owners
    BY OwnersAre
  <2>2. \A p \in Owners : db.pub[p] = db.pub[o] => p = o
    BY DEF RegistryInv, Alone
  <2> QED
    BY <2>1, <2>2 DEF Holders
<1> QED
  BY <1>1, <1>2 DEF RegistryIsSound, RegistryInv

(* The Nodes and Keys sheets stay sound, whatever the commands, the        *)
(* devices and the other hands do, in any order and number.                *)
THEOREM RegistryStaysSound == RegistrySpec => []RegistryIsSound
<1>1. RegistryInit => RegistryInv
  BY InitIsSound
<1>2. RegistryInv /\ [RegistryNext]_registryVars => RegistryInv'
  BY StepKeeps, StutterKeeps
<1>3. RegistryInv => RegistryIsSound
  BY InvIsSound
<1> QED
  BY <1>1, <1>2, <1>3, PTL DEF RegistrySpec

(* No adopt, provision, renumber or forget takes an admin key in use from  *)
(* the node it is recorded for: node_key_admin_refs guards every way in.   *)
THEOREM AdminKeysAreGuarded == RegistrySpec => AdminKeysKeepTheirNode
<1>1. RegistryInit => RegistryInv
  BY InitIsSound
<1>2. RegistryInv /\ [RegistryNext]_registryVars => RegistryInv'
  BY StepKeeps, StutterKeeps
<1> DEFINE Keeps == Overwrites \/ AdminKeysStay
<1>3. RegistryInv /\ [RegistryNext]_registryVars => [Keeps]_registryVars
  BY StepKeeps
<1>4. AdminKeysKeepTheirNode <=> [][Keeps]_registryVars
  BY DEF AdminKeysKeepTheirNode, AdminKeysStay
<1> QED
  BY <1>1, <1>2, <1>3, <1>4, PTL DEF RegistrySpec

-----------------------------------------------------------------------------
(* What a sum over gateways comes to: nothing over none, and over others   *)
(* that of all but one of them and its own.                                *)
IsTotal(f, G, h) ==
  /\ f \in [SUBSET G -> Nat] /\ f[{}] = 0
  /\ \A s \in SUBSET G : s # {} => \E x \in s : f[s] = f[s \ {x}] + h[x]

LEMMA TotalIs ==
  ASSUME NEW G, IsFiniteSet(G), NEW h \in [G -> Nat]
  PROVE  \E f : IsTotal(f, G, h) /\ \A S \in SUBSET G : SumOver(h, S) = f[S]
<1> DEFINE c == [s \in SUBSET G |-> CHOOSE x \in s : TRUE]
           g == [p \in G \X Nat |-> p[2] + h[p[1]]]
           W == [s \in SUBSET G |-> Nat]
           Adds(iter, S) == iter = [s \in SUBSET S |->
             IF s = {} THEN 0 ELSE iter[s \ {CHOOSE x \in s : TRUE}] + h[CHOOSE x \in s : TRUE]]
<1>1. \A s \in SUBSET G : s # {} => c[s] = (CHOOSE x \in s : TRUE) /\ c[s] \in s
  OBVIOUS
<1>2. \A x \in G : \A n \in Nat : g[<<x, n>>] = n + h[x] /\ g[<<x, n>>] \in Nat
  OBVIOUS
<1> HIDE DEF c, g
<1>3. PICK f : IsFold(f, G, c, g, 0, W)
  <2>1. \A s \in SUBSET G : s # {} => c[s] \in s
    BY <1>1
  <2>2. \A s \in SUBSET G : s # {} => \A v \in W[s \ {c[s]}] : g[<<c[s], v>>] \in W[s]
    BY <1>1, <1>2
  <2>3. 0 \in W[{}]
    OBVIOUS
  <2> HIDE DEF W
  <2> QED
    BY <2>1, <2>2, <2>3, FoldExists
<1>4. \A s \in SUBSET G :
        /\ f[s] \in Nat
        /\ f[s] = IF s = {} THEN 0 ELSE f[s \ {CHOOSE x \in s : TRUE}] + h[CHOOSE x \in s : TRUE]
  <2> TAKE s \in SUBSET G
  <2>1. f[s] \in Nat /\ f[s \ {c[s]}] \in Nat
    BY <1>3 DEF IsFold
  <2>2. f[s] = IF s = {} THEN 0 ELSE g[<<c[s], f[s \ {c[s]}]>>]
    BY <1>3 DEF IsFold
  <2> QED
    BY <1>1, <1>2, <2>1, <2>2
<1>5. IsTotal(f, G, h)
  <2>1. f \in [SUBSET G -> Nat]
    <3>1. f = [s \in SUBSET G |-> f[s]]
      BY <1>3 DEF IsFold
    <3> QED
      BY <1>4, <3>1
  <2>2. ASSUME NEW s \in SUBSET G, s # {} PROVE \E x \in s : f[s] = f[s \ {x}] + h[x]
    <3> DEFINE x == CHOOSE x \in s : TRUE
    <3>1. x \in s
      BY <2>2
    <3>2. f[s] = f[s \ {x}] + h[x]
      BY <1>4, <2>2
    <3> QED
      BY <3>1, <3>2
  <2> QED
    BY <1>4, <2>1, <2>2 DEF IsTotal
<1>6. ASSUME NEW S \in SUBSET G PROVE SumOver(h, S) = f[S]
  <2>1. \E iter : Adds(iter, S)
    <3> DEFINE e == [s \in SUBSET S |-> f[s]]
    <3>1. \A s \in SUBSET S : s # {} => s \ {CHOOSE x \in s : TRUE} \in SUBSET S
      OBVIOUS
    <3>2. Adds(e, S)
      BY <1>4, <3>1
    <3> QED
      BY <3>2
  <2> DEFINE iter == CHOOSE it : Adds(it, S)
  <2>2. SumOver(h, S) = iter[S]
    BY DEF SumOver, FoldSet, MapThenFoldSet
  <2>3. Adds(iter, S)
    BY <2>1
  <2> HIDE DEF iter
  <2>4. \A s \in SUBSET S : iter[s] = f[s]
    <3> DEFINE Bad == {s \in SUBSET S : iter[s] # f[s]}
    <3> SUFFICES ASSUME Bad # {} PROVE FALSE
      OBVIOUS
    <3>1. PICK s \in Bad : \A u \in SUBSET s : u # s => u \notin Bad
      <4>1. Bad \subseteq SUBSET S /\ IsFiniteSet(S)
        BY FS_Subset
      <4> HIDE DEF Bad
      <4> QED
        BY <4>1, LeastSubset
    <3>2. s \in SUBSET S /\ s \in SUBSET G /\ iter[s] # f[s]
      OBVIOUS
    <3> DEFINE x == CHOOSE x \in s : TRUE
    <3>3. iter[s] = IF s = {} THEN 0 ELSE iter[s \ {x}] + h[x]
      BY <2>3, <3>2
    <3>4. f[s] = IF s = {} THEN 0 ELSE f[s \ {x}] + h[x]
      BY <1>4, <3>2
    <3>5. s # {} => iter[s \ {x}] = f[s \ {x}]
      BY <3>1, <3>2
    <3> QED
      BY <3>2, <3>3, <3>4, <3>5
  <2> QED
    BY <2>2, <2>4
<1> QED
  BY <1>5, <1>6

(* It does not matter which gateway is counted last. *)
LEMMA AnyLast ==
  ASSUME NEW G, IsFiniteSet(G), NEW h \in [G -> Nat], NEW f, IsTotal(f, G, h)
  PROVE  \A s \in SUBSET G : \A x \in s : f[s] = f[s \ {x}] + h[x]
<1> DEFINE Bad == {s \in SUBSET G : \E x \in s : f[s] # f[s \ {x}] + h[x]}
<1> SUFFICES ASSUME Bad # {} PROVE FALSE
  OBVIOUS
<1>1. PICK s \in Bad : \A u \in SUBSET s : u # s => u \notin Bad
  <2>1. Bad \subseteq SUBSET G
    OBVIOUS
  <2> HIDE DEF Bad
  <2> QED
    BY <2>1, LeastSubset
<1>2. s \in SUBSET G
  OBVIOUS
<1>3. PICK x \in s : f[s] # f[s \ {x}] + h[x]
  OBVIOUS
<1>4. PICK y \in s : f[s] = f[s \ {y}] + h[y]
  BY <1>2, <1>3 DEF IsTotal
<1>5. x # y
  BY <1>3, <1>4
<1>6. f[s \ {y}] = f[(s \ {y}) \ {x}] + h[x]
  BY <1>1, <1>2, <1>5
<1>7. f[s \ {x}] = f[(s \ {x}) \ {y}] + h[y]
  BY <1>1, <1>2, <1>5
<1>8. (s \ {y}) \ {x} = (s \ {x}) \ {y}
  OBVIOUS
<1>9. f[(s \ {x}) \ {y}] \in Nat /\ h[x] \in Nat /\ h[y] \in Nat
  BY <1>2 DEF IsTotal
<1> DEFINE n == f[(s \ {x}) \ {y}]
<1>10. f[s] = (n + h[x]) + h[y] /\ f[s \ {x}] + h[x] = (n + h[y]) + h[x]
  BY <1>4, <1>6, <1>7, <1>8
<1> HIDE DEF n
<1>11. n \in Nat
  BY <1>9 DEF n
<1> QED
  BY <1>3, <1>9, <1>10, <1>11

LEMMA TotalGrows ==
  ASSUME NEW G, IsFiniteSet(G), NEW h \in [G -> Nat], NEW S \in SUBSET G
  PROVE  SumOver(h, S) \in Nat /\ SumOver(h, G) \in Nat /\ SumOver(h, S) <= SumOver(h, G)
<1>1. PICK f : IsTotal(f, G, h) /\ \A s \in SUBSET G : SumOver(h, s) = f[s]
  BY TotalIs
<1>2. \A s \in SUBSET G : \A x \in s : f[s] = f[s \ {x}] + h[x]
  <2>1. IsTotal(f, G, h) /\ IsFiniteSet(G) /\ h \in [G -> Nat]
    BY <1>1
  <2>2. ASSUME NEW s \in SUBSET G, NEW x \in s PROVE f[s] = f[s \ {x}] + h[x]
    BY <2>1, AnyLast, SMTT(30)
  <2> QED
    BY <2>2
<1>3. \A s \in SUBSET G : f[s] \in Nat
  BY <1>1 DEF IsTotal
<1> DEFINE Bad == {s \in SUBSET G : S \subseteq s /\ f[S] > f[s]}
<1>4. Bad = {}
  <2> SUFFICES ASSUME Bad # {} PROVE FALSE
    OBVIOUS
  <2>1. PICK s \in Bad : \A u \in SUBSET s : u # s => u \notin Bad
    <3>1. Bad \subseteq SUBSET G
      OBVIOUS
    <3> HIDE DEF Bad
    <3> QED
      BY <3>1, LeastSubset
  <2>2. s \in SUBSET G /\ S \subseteq s /\ f[S] > f[s]
    OBVIOUS
  <2>3. PICK x \in s : x \notin S
    <3>1. s # S
      BY <1>3, <2>2
    <3> QED
      BY <2>2, <3>1
  <2>4. S \subseteq s \ {x} /\ s \ {x} \in SUBSET G /\ s \ {x} \notin Bad
    BY <2>1, <2>2, <2>3
  <2>5. f[S] <= f[s \ {x}]
    BY <1>3, <2>4
  <2>6. f[s] = f[s \ {x}] + h[x] /\ h[x] \in Nat
    BY <1>2, <2>2
  <2> QED
    BY <1>3, <2>2, <2>4, <2>5, <2>6
<1> QED
  BY <1>1, <1>3, <1>4

-----------------------------------------------------------------------------
LEMMA WindowFacts ==
  ASSUME NEW w \in Windows
  PROVE  /\ w.relayed \in [Gates -> Nat] /\ w.heard \subseteq Relays
         /\ w.gap \in [Relays -> [Gates -> Nat \cup {Nobody}]]
         /\ Candidates(w) \subseteq Relays
<1>1. w \in Window
  BY RelayMemoryAssumption
<1> QED
  BY <1>1 DEF Window, Candidates

(* No coverage is more than what was relayed, and distances are whole and  *)
(* part of it.                                                             *)
LEMMA ScoreTypes ==
  ASSUME NEW w \in Windows, NEW c \in Relays
  PROVE  /\ Coverage(w, c) \in Nat /\ Relayed(w, Gates) \in Nat
         /\ Coverage(w, c) <= Relayed(w, Gates)
         /\ Weights(w, c) \in Nat /\ Weighted(w, c) \in Nat
<1>1. /\ w.relayed \in [Gates -> Nat] /\ IsFiniteSet(Gates)
      /\ w.gap \in [Relays -> [Gates -> Nat \cup {Nobody}]]
  BY WindowFacts, RelayMemoryAssumption
<1>2. Common(w, c) \in SUBSET Gates /\ Weighing(w, c) \in SUBSET Gates
  BY DEF Common, Weighing
<1>3. IsFiniteSet(Weighing(w, c))
  BY <1>1, <1>2, FS_Subset
<1>4. \A g \in Weighing(w, c) : Weight(w, g) \in Nat /\ w.gap[c][g] \in Nat
  BY <1>1, <1>2, RelayMemoryAssumption DEF Weight, Weighing
<1> DEFINE h == [g \in Weighing(w, c) |-> Weight(w, g)]
           k == [g \in Weighing(w, c) |-> Weight(w, g) * w.gap[c][g]]
<1>5. h \in [Weighing(w, c) -> Nat]
  BY <1>4
<1>6. k \in [Weighing(w, c) -> Nat]
  <2>1. ASSUME NEW g \in Weighing(w, c) PROVE Weight(w, g) * w.gap[c][g] \in Nat
    <3>1. Weight(w, g) \in Nat /\ w.gap[c][g] \in Nat
      BY <1>4
    <3> QED
      BY <3>1
  <2> QED
    BY <2>1
<1>7. Weights(w, c) = SumOver(h, Weighing(w, c)) /\ Weighted(w, c) = SumOver(k, Weighing(w, c))
  BY DEF Weights, Weighted
<1> HIDE DEF h, k
<1>8. SumOver(h, Weighing(w, c)) \in Nat /\ SumOver(k, Weighing(w, c)) \in Nat
  <2>1. Weighing(w, c) \in SUBSET Weighing(w, c)
    OBVIOUS
  <2> QED
    BY <1>3, <1>5, <1>6, <2>1, TotalGrows
<1>9. /\ SumOver(w.relayed, Common(w, c)) \in Nat /\ SumOver(w.relayed, Gates) \in Nat
      /\ SumOver(w.relayed, Common(w, c)) <= SumOver(w.relayed, Gates)
  BY <1>1, <1>2, TotalGrows
<1> QED
  BY <1>7, <1>8, <1>9 DEF Coverage, Relayed

LEMMA TwiceFarther ==
  ASSUME NEW p \in Nat, NEW q \in Nat, NEW s \in Nat, NEW t \in Nat, NEW d \in Nat,
         d > 0, q > 0, t > 0, p * t >= (s + d * t) * q, s * q >= (p + d * q) * t
  PROVE  FALSE
<1>1. (s + d * t) * q = s * q + d * t * q /\ (p + d * q) * t = p * t + d * q * t
  OBVIOUS
<1>2. q * t \in Nat /\ q * t > 0 /\ p * t \in Nat /\ s * q \in Nat
  OBVIOUS
<1>3. d * t * q = d * (q * t) /\ d * q * t = d * (q * t)
  OBVIOUS
<1> DEFINE m == q * t  pt == p * t  sq == s * q
<1>4. d * m \in Nat /\ d * m > 0
  BY <1>2
<1> DEFINE dm == d * m
<1>5. pt >= sq + dm /\ sq >= pt + dm
  BY <1>1, <1>3
<1>6. dm \in Nat /\ dm > 0 /\ pt \in Nat /\ sq \in Nat
  BY <1>2, <1>4
<1> HIDE DEF m, pt, sq, dm
<1> QED
  BY <1>5, <1>6

(* The half of what is relayed that one covers leaves no third of its own  *)
(* to another that covers half; and two cannot each be the farther.        *)
LEMMA SoleHigh == HighIsSole
<1> SUFFICES ASSUME NEW v \in Verdicts, v.confidence = "high" PROVE v.rivals = {}
  BY DEF HighIsSole
<1>1. PICK w \in Windows :
        v \in IF Candidates(w) = {} THEN {NoCandidate} ELSE {Verdict(w, b) : b \in Firsts(w)}
  BY DEF Verdicts
<1>2. Candidates(w) # {}
  BY <1>1 DEF NoCandidate
<1>3. PICK b \in Firsts(w) : v = Verdict(w, b)
  BY <1>1, <1>2
<1>4. b \in Candidates(w) /\ Label(w, b) = "high"
  BY <1>3 DEF Firsts, Verdict
<1>5. /\ Covers(w, b) /\ HasDistance(w, b)
      /\ \A c \in Candidates(w) \ {b} : Outclassed(w, c, b)
  BY <1>4 DEF Label, IsClose
<1>6. ASSUME NEW c \in Candidates(w) \ {b} PROVE Label(w, c) = "ambiguous"
  <2>1. b \in Relays /\ c \in Relays /\ b \in Candidates(w) \ {c}
    BY <1>4, WindowFacts
  <2> DEFINE R == Relayed(w, Gates)
  <2>2. /\ R \in Nat /\ Coverage(w, b) \in Nat /\ Coverage(w, c) \in Nat
        /\ Coverage(w, b) <= R /\ Coverage(w, c) <= R
        /\ Weights(w, b) \in Nat /\ Weighted(w, b) \in Nat
        /\ Weights(w, c) \in Nat /\ Weighted(w, c) \in Nat
    BY <2>1, ScoreTypes
  <2>3. 2 * Coverage(w, b) >= R
    BY <1>5 DEF Covers
  <2>4. ~(3 * Coverage(w, b) < Coverage(w, c))
    BY <2>2, <2>3
  <2>5. Covers(w, c) => HasDistance(w, c) /\ Farther(w, c, b, Margin)
    <3> SUFFICES ASSUME 2 * Coverage(w, c) >= R
                 PROVE  HasDistance(w, c) /\ Farther(w, c, b, Margin)
      BY DEF Covers
    <3>1. ~(3 * Coverage(w, c) < Coverage(w, b))
      BY <2>2
    <3> QED
      BY <1>5, <3>1 DEF Outclassed
  <2>6. Covers(w, c) => ~Outclassed(w, b, c)
    <3> SUFFICES ASSUME HasDistance(w, c), Farther(w, c, b, Margin), Farther(w, b, c, Margin)
                 PROVE  FALSE
      BY <2>4, <2>5 DEF Outclassed
    <3>1. Weights(w, b) > 0 /\ Weights(w, c) > 0 /\ Margin \in Nat /\ Margin > 0
      BY <1>5, RelayMemoryAssumption DEF HasDistance
    <3>2. /\ Weighted(w, c) * Weights(w, b)
               >= (Weighted(w, b) + Margin * Weights(w, b)) * Weights(w, c)
          /\ Weighted(w, b) * Weights(w, c)
               >= (Weighted(w, c) + Margin * Weights(w, c)) * Weights(w, b)
      BY DEF Farther
    <3> QED
      BY <2>2, <3>1, <3>2, TwiceFarther
  <2>7. ~\A d \in Candidates(w) \ {c} : 3 * Coverage(w, d) < Coverage(w, c)
    BY <2>1, <2>4
  <2> QED
    BY <2>1, <2>6, <2>7 DEF Label
<1> QED
  BY <1>3, <1>6 DEF Verdict

-----------------------------------------------------------------------------
Entry   == [node : Relays, time : Ticks]
Verdict4 == [confidence : {"high", "medium", "ambiguous", "unknown"},
             node : Relays \cup {Nobody}, candidates : SUBSET Relays, rivals : SUBSET Relays]
Result  == [confidence : {"high", "medium", "ambiguous", "unknown"},
            node : Relays \cup {Nobody}, learned : Ticks \cup {Nobody}]
Glance  == [seen : Ticks \cup {Nobody}, prior : Entry \cup {Nobody},
            result : Result \cup {Nobody}, named : BOOLEAN]

MemoryTypes ==
  /\ tick \in Ticks /\ fetched \in Ticks \cup {Nobody} /\ learned \in Entry \cup {Nobody}
  /\ at \in [Runs -> {"out", "seen", "resolved", "writing"}]
  /\ glance \in [Runs -> Glance] /\ sure \in SUBSET Entry /\ raced \in BOOLEAN

(* What a run is sure of it was sure of as of a fetch it saw, and it is    *)
(* about to write only what is newer than what it read, if that was not    *)
(* too old to be read.                                                     *)
Holds(r) ==
  LET g == glance[r] IN
  /\ at[r] \in {"resolved", "writing"} /\ g.result.confidence = "high" /\ g.seen # Nobody =>
       [node |-> g.result.node, time |-> g.seen] \in sure
  /\ at[r] = "writing" =>
       /\ g.result.confidence = "high" /\ g.seen # Nobody
       /\ g.prior = Nobody \/ g.prior.time < g.seen \/ tick - g.prior.time > MaxAge

MemoryInv == MemoryTypes /\ MemoryHasEvidence /\ NamedIsHeard /\ \A r \in Runs : Holds(r)

LEMMA VerdictTypes ==
  ASSUME NEW v \in Verdicts
  PROVE  /\ v \in Verdict4
         /\ v.node # Nobody => v.node \in v.candidates
         /\ v.confidence = "high" => v.node # Nobody
<1>1. PICK w \in Windows :
        v \in IF Candidates(w) = {} THEN {NoCandidate} ELSE {Verdict(w, b) : b \in Firsts(w)}
  BY DEF Verdicts
<1>2. Candidates(w) \subseteq Relays
  BY WindowFacts
<1>3. CASE v = NoCandidate
  BY <1>3 DEF NoCandidate, Verdict4
<1>4. CASE \E b \in Firsts(w) : v = Verdict(w, b)
  <2>1. PICK b \in Firsts(w) : v = Verdict(w, b)
    BY <1>4
  <2>2. b \in Candidates(w) /\ b \in Relays /\ b # Nobody
    BY <1>2, RelayMemoryAssumption DEF Firsts
  <2>3. Label(w, b) \in {"high", "medium", "ambiguous", "unknown"}
    BY DEF Label
  <2> HIDE DEF Label
  <2> QED
    BY <1>2, <2>1, <2>2, <2>3 DEF Verdict, Verdict4
<1> QED
  BY <1>1, <1>3, <1>4

LEMMA ResolveFacts ==
  ASSUME NEW v \in Verdicts, NEW prior \in Entry \cup {Nobody}
  PROVE  LET meant == Resolve(v, prior) IN
         /\ meant \in Result
         /\ meant.node # Nobody => meant.node \in v.candidates
         /\ meant.learned # Nobody => prior # Nobody /\ prior = [node |-> meant.node, time |-> meant.learned]
         /\ meant.confidence = "high" => meant.node \in Relays
<1>1. /\ v \in Verdict4
      /\ v.node # Nobody => v.node \in v.candidates
      /\ v.confidence = "high" => v.node # Nobody
  BY VerdictTypes
<1>2. CASE v.confidence = "ambiguous" /\ prior # Nobody /\ prior.node \in v.candidates
  BY <1>1, <1>2 DEF Resolve, Result, Verdict4, Entry
<1>3. CASE ~(v.confidence = "ambiguous" /\ prior # Nobody /\ prior.node \in v.candidates)
  <2>1. Resolve(v, prior) = [confidence |-> v.confidence, node |-> v.node, learned |-> Nobody]
    BY <1>3 DEF Resolve
  <2>2. v.confidence \in {"high", "medium", "ambiguous", "unknown"} /\ v.node \in Relays \cup {Nobody}
    BY <1>1 DEF Verdict4
  <2> QED
    BY <1>1, <2>1, <2>2 DEF Result
<1> QED
  BY <1>2, <1>3

LEMMA MemoryStarts == MemoryInit => MemoryInv
<1> SUFFICES ASSUME MemoryInit PROVE MemoryInv
  OBVIOUS
<1>1. 0 \in Ticks
  BY RelayMemoryAssumption DEF Ticks
<1>2. NoView \in Glance
  BY DEF NoView, Glance
<1> QED
  BY <1>1, <1>2 DEF MemoryInit, MemoryInv, MemoryTypes, MemoryHasEvidence, NamedIsHeard, Holds, NoView

LEMMA MemoryStep == MemoryInv /\ [MemoryNext]_memoryVars => MemoryInv'
<1> SUFFICES ASSUME MemoryInv, [MemoryNext]_memoryVars PROVE MemoryInv'
  OBVIOUS
<1> USE DEF MemoryInv
<1>1. NoView \in Glance
  BY DEF NoView, Glance
<1>2. ASSUME NEW r \in Runs, Look(r) PROVE MemoryInv'
  BY <1>1, <1>2 DEF Look, Step, NoView, Glance, MemoryTypes, MemoryHasEvidence, NamedIsHeard, Holds
<1>3. ASSUME NEW r \in Runs, ResolveWindow(r) PROVE MemoryInv'
  <2>1. PICK v \in Verdicts :
          /\ glance' = [glance EXCEPT ![r].result = Resolve(v, Current),
                                      ![r].named = Resolve(v, Current).node \in v.candidates]
          /\ sure' = IF Resolve(v, Current).confidence = "high" /\ glance[r].seen # Nobody
                     THEN sure \cup {[node |-> Resolve(v, Current).node, time |-> glance[r].seen]} ELSE sure
    BY <1>3 DEF ResolveWindow
  <2> DEFINE meant == Resolve(v, Current)
  <2>2. Current \in Entry \cup {Nobody} /\ (Current # Nobody => Current \in sure)
    BY DEF Current, MemoryTypes, MemoryHasEvidence
  <2>3. /\ meant \in Result
        /\ meant.node # Nobody => meant.node \in v.candidates
        /\ meant.learned # Nobody => [node |-> meant.node, time |-> meant.learned] \in sure
        /\ meant.confidence = "high" => meant.node \in Relays
    BY <2>2, ResolveFacts
  <2>4. /\ at[r] = "seen" /\ at' = [at EXCEPT ![r] = "resolved"]
        /\ UNCHANGED <<tick, fetched, learned, raced>>
    BY <1>3 DEF ResolveWindow, Step
  <2> HIDE DEF meant
  <2>5. /\ glance' = [glance EXCEPT ![r].result = meant, ![r].named = meant.node \in v.candidates]
        /\ sure' = IF meant.confidence = "high" /\ glance[r].seen # Nobody
                   THEN sure \cup {[node |-> meant.node, time |-> glance[r].seen]} ELSE sure
    BY <2>1 DEF meant
  <2>6. sure \subseteq sure' /\ sure' \in SUBSET Entry
    BY <2>3, <2>5 DEF MemoryTypes, Entry, Glance
  <2>7. /\ glance'[r].result = meant /\ glance'[r].named = (meant.node \in v.candidates)
        /\ glance'[r].seen = glance[r].seen /\ glance'[r] \in Glance
        /\ \A p \in Runs \ {r} : glance'[p] = glance[p]
        /\ glance' \in [Runs -> Glance]
    <3>1. glance[r] \in Glance /\ glance \in [Runs -> Glance]
      BY DEF MemoryTypes
    <3>2. (meant.node \in v.candidates) \in BOOLEAN
      OBVIOUS
    <3> DEFINE n == [glance[r] EXCEPT !.result = meant, !.named = meant.node \in v.candidates]
    <3>3. /\ n \in Glance /\ n.result = meant /\ n.named = (meant.node \in v.candidates)
          /\ n.seen = glance[r].seen
      BY <2>3, <3>1, <3>2 DEF Glance
    <3>4. glance' = [glance EXCEPT ![r] = n]
      BY <2>5, <3>1
    <3> HIDE DEF n
    <3> QED
      BY <3>1, <3>3, <3>4
  <2>8. MemoryTypes' /\ MemoryHasEvidence'
    BY <2>4, <2>6, <2>7 DEF MemoryTypes, MemoryHasEvidence
  <2>9. NamedIsHeard'
    <3> SUFFICES ASSUME NEW p \in Runs, glance'[p].result # Nobody, glance'[p].result.node # Nobody
                 PROVE  /\ glance'[p].named
                        /\ glance'[p].result.learned # Nobody =>
                             [node |-> glance'[p].result.node,
                              time |-> glance'[p].result.learned] \in sure'
      BY DEF NamedIsHeard
    <3>1. CASE p = r
      BY <2>3, <2>6, <2>7, <3>1
    <3>2. CASE p # r
      BY <2>6, <2>7, <3>2 DEF NamedIsHeard
    <3> QED
      BY <3>1, <3>2
  <2>10. ASSUME NEW p \in Runs PROVE Holds(p)'
    <3>1. CASE p = r
      <4>1. at'[p] = "resolved"
        BY <2>4, <3>1 DEF MemoryTypes
      <4>2. meant.confidence = "high" /\ glance[r].seen # Nobody =>
              [node |-> meant.node, time |-> glance[r].seen] \in sure'
        BY <2>5
      <4> QED
        BY <2>7, <3>1, <4>1, <4>2 DEF Holds
    <3>2. CASE p # r
      <4>1. at'[p] = at[p] /\ glance'[p] = glance[p]
        BY <2>4, <2>7, <3>2 DEF MemoryTypes
      <4> QED
        BY <2>4, <2>6, <4>1 DEF Holds
    <3> QED
      BY <3>1, <3>2
  <2> QED
    BY <2>8, <2>9, <2>10
<1>4. ASSUME NEW r \in Runs, Recall(r) PROVE MemoryInv'
  <2>1. at[r] = "resolved" /\ UNCHANGED <<tick, fetched, learned, sure, raced>>
    BY <1>4 DEF Recall
  <2>2. CASE Done(r)
    BY <1>1, <2>1, <2>2 DEF Done, Step, NoView, MemoryTypes, MemoryHasEvidence, NamedIsHeard, Holds
  <2>3. CASE /\ glance[r].seen # Nobody /\ IsSure(glance[r].result) /\ IsNewer(glance[r].seen)
             /\ glance' = [glance EXCEPT ![r].prior = learned] /\ Step(r, "writing")
    <3> DEFINE n == [glance[r] EXCEPT !.prior = learned]
    <3>1. glance[r] \in Glance /\ glance \in [Runs -> Glance] /\ learned \in Entry \cup {Nobody}
      BY DEF MemoryTypes
    <3>2. /\ n \in Glance /\ n.prior = learned /\ n.seen = glance[r].seen
          /\ n.result = glance[r].result /\ n.named = glance[r].named
      BY <3>1 DEF Glance
    <3>3. glance' = [glance EXCEPT ![r] = n]
      BY <2>3, <3>1
    <3> HIDE DEF n
    <3>4. learned = Nobody \/ learned.time < glance[r].seen \/ tick - learned.time > MaxAge
      BY <2>3 DEF IsNewer, Current
    <3> QED
      BY <2>1, <2>3, <3>1, <3>2, <3>3, <3>4
         DEF IsSure, Step, MemoryTypes, MemoryHasEvidence, NamedIsHeard, Holds
  <2> QED
    BY <1>4, <2>2, <2>3 DEF Recall
<1>5. ASSUME NEW r \in Runs, Remember(r) PROVE MemoryInv'
  BY <1>1, <1>5 DEF Remember, Done, Step, NoView, Glance, Entry,
     MemoryTypes, MemoryHasEvidence, NamedIsHeard, Holds
<1>6. ASSUME NEW r \in Runs, RememberFails(r) PROVE MemoryInv'
  BY <1>1, <1>6 DEF RememberFails, Done, Step, NoView, Glance, Entry,
     MemoryTypes, MemoryHasEvidence, NamedIsHeard, Holds
<1>7. CASE Fetch
  BY <1>7 DEF Fetch, MemoryTypes, MemoryHasEvidence, NamedIsHeard, Holds
<1>8. CASE Pass
  <2>1. tick \in Nat /\ tick' = tick + 1 /\ tick' \in Ticks /\ MaxAge \in Nat
    BY <1>8, RelayMemoryAssumption DEF Pass, MemoryTypes, Ticks
  <2>2. \A n \in Ticks : tick - n > MaxAge => tick' - n > MaxAge
    BY <2>1 DEF Ticks
  <2>3. \A p \in Runs : glance[p].prior # Nobody => glance[p].prior.time \in Ticks
    BY DEF MemoryTypes, Glance, Entry
  <2> QED
    BY <1>8, <2>1, <2>2, <2>3 DEF Pass, MemoryTypes, MemoryHasEvidence, NamedIsHeard, Holds
<1>9. CASE UNCHANGED memoryVars
  BY <1>9 DEF memoryVars, MemoryTypes, MemoryHasEvidence, NamedIsHeard, Holds
<1> QED
  BY <1>2, <1>3, <1>4, <1>5, <1>6, <1>7, <1>8, <1>9 DEF MemoryNext

LEMMA NewerStays ==
  MemoryInv /\ [MemoryNext]_memoryVars =>
    [Current # Nobody /\ learned' # Nobody /\ ~raced' => learned'.time >= learned.time]_memoryVars
<1> SUFFICES ASSUME MemoryInv, MemoryNext, Current # Nobody, ~raced'
             PROVE  learned'.time >= learned.time
  BY DEF memoryVars
<1>1. learned # Nobody /\ ~(tick - learned.time > MaxAge) /\ learned.time \in Ticks
  BY DEF Current, MemoryInv, MemoryTypes, Entry
<1>2. CASE learned' = learned
  BY <1>1, <1>2 DEF Ticks
<1>3. ASSUME NEW r \in Runs, Remember(r) PROVE learned'.time >= learned.time
  <2>1. learned = glance[r].prior /\ learned'.time = glance[r].seen /\ at[r] = "writing"
    BY <1>3 DEF Remember
  <2>2. glance[r].seen # Nobody /\ glance[r].prior.time < glance[r].seen
    BY <1>1, <2>1 DEF MemoryInv, Holds
  <2>3. glance[r].seen \in Ticks
    BY <2>2 DEF MemoryInv, MemoryTypes, Glance
  <2> QED
    BY <1>1, <2>1, <2>2, <2>3 DEF Ticks
<1> QED
  BY <1>2, <1>3 DEF MemoryNext, Look, ResolveWindow, Recall, RememberFails, Fetch, Pass

(* A relay byte is credited to the node that certainly relayed it, however *)
(* many runs share the memory, and a newer sight of a byte is not lost to  *)
(* an older one (network/resolve.py, network/store.py).                    *)
THEOREM RelaysStayRight == MemorySpec => RelaysAreRight
<1>1. MemoryInv => RelaysAreCredited
  BY SoleHigh DEF MemoryInv, RelaysAreCredited
<1> QED
  BY <1>1, MemoryStarts, MemoryStep, NewerStays, PTL DEF MemorySpec, RelaysAreRight, KeepsTheNewer
-----------------------------------------------------------------------------
(* RegionSearch and RegionList: what a lookup has asked so far.            *)
Unasked == {ahead[i] : i \in DOMAIN ahead}

Bests    == [region : Regions \cup {Nowhere}, date : Dates \cup {Nowhere}]
Ends     == {"none", "memo", "searched", "undated", "cut short", "raised"}
Outcomes == [found : Bests, how : Ends, from : Regions \cup {Nowhere}]

SearchTypes ==
  /\ records \in [Regions -> Dates \cup {Nowhere}] /\ memo \in Regions \cup {Nowhere}
  /\ phase \in {"idle", "memo", "status", "others", "noting"}
  /\ found \in Bests /\ ahead \in Seq(Regions) /\ asked \in Nat /\ outcome \in Outcomes

(* What is found is a record that a region has. *)
IsRecord(best) == best.region \in Regions /\ best.date = records[best.region] /\ best.date # Nowhere
FoundIsThere == phase # "idle" => found = Nothing \/ IsRecord(found)

(* The best so far is stale, every region but those still to ask was asked,*)
(* and none had a later record than the best, nor one that ends the search.*)
NoneLater ==
  /\ found # Nothing => IsStale(found.date)
  /\ \A r \in Regions \ Unasked :
       /\ ~IsLater(records[r], found.date) /\ records[r] \notin {"today", "undated"}
       /\ found = Nothing => records[r] = Nowhere

(* The search ended at a record of today, or at one without a date.        *)
EndedEarly ==
  /\ ahead = <<>> /\ found # Nothing
  /\ outcome.how = "undated" \/ (outcome.how = "none" /\ found.date = "today")

(* What each phase of a lookup knows. *)
MemoPhase   == memo # Nowhere /\ asked = 0 /\ found = Nothing /\ outcome.how = "none"
StatusPhase ==
  /\ found = Nothing /\ outcome.how = "none"
  /\ IF memo = Nowhere THEN asked = 0 ELSE records[memo] = Nowhere /\ asked <= 1
OthersPhase ==
  /\ asked + Len(ahead) <= 1 + Len(RegionOrder)
  /\ EndedEarly \/ (NoneLater /\ outcome.how = "none")
NotingPhase ==
  \/ outcome.how = "cut short" /\ found # Nothing
  \/ outcome.how = "none" /\ found = Nothing /\ \A r \in Regions : records[r] = Nowhere

SearchInv ==
  /\ SearchTypes /\ FoundIsThere /\ SearchIsRight
  /\ phase = "memo" => MemoPhase
  /\ phase = "status" => StatusPhase
  /\ phase = "others" => OthersPhase
  /\ phase = "noting" => NotingPhase

-----------------------------------------------------------------------------
LEMMA OutcomesAre ==
  /\ Nothing \in Bests /\ Nothing.region = Nowhere /\ Nothing.date = Nowhere
  /\ \A b \in Bests, h \in Ends, f \in Regions \cup {Nowhere} :
        LET o == [found |-> b, how |-> h, from |-> f]
        IN o \in Outcomes /\ o.found = b /\ o.how = h
  /\ \A o \in Outcomes, h \in Ends :
        LET n == [o EXCEPT !.how = h]
        IN n \in Outcomes /\ n.how = h /\ n.found = o.found
  /\ \A o \in Outcomes : o.found \in Bests /\ o.how \in Ends
  /\ \A b \in Bests : b.region \in Regions \cup {Nowhere} /\ b.date \in Dates \cup {Nowhere}
BY DEF Bests, Ends, Outcomes, Nothing

LEMMA DatesAre ==
  /\ Nowhere \notin Regions /\ Nowhere \notin Dates
  /\ \A d, e \in Dates \cup {Nowhere} :
       /\ ~IsLater(d, Nowhere) /\ ~IsLater(Nowhere, d) /\ ~IsLater(d, d)
       /\ IsLater(d, e) => d \in Dates /\ e \in {"yesterday", "longago"}
       /\ d = "today" /\ IsStale(e) => IsLater(d, e)
       /\ IsStale(d) = (d \in {"yesterday", "longago"})
       /\ ~IsStale(d) => d \in {Nowhere, "today", "undated"}
       /\ d \in {"today", "undated"} => d # Nowhere /\ ~IsStale(d)
  /\ \A d, e, f \in Dates \cup {Nowhere} :
       /\ IsLater(d, e) /\ IsLater(e, f) => IsLater(d, f)
       /\ ~IsLater(d, e) /\ IsLater(f, e) => ~IsLater(d, f)
BY RegionSearchAssumption DEF Dates, IsLater, IsStale

LEMMA WithoutIs ==
  ASSUME NEW region \in Regions \cup {Nowhere}
  PROVE  /\ Without(region) \in Seq(Regions)
         /\ Len(Without(region)) = IF region = Nowhere THEN Len(RegionOrder) ELSE Len(RegionOrder) - 1
         /\ \A r \in Regions : r # region => \E i \in DOMAIN Without(region) : Without(region)[i] = r
<1> DEFINE n == Len(RegionOrder)
<1>1. /\ RegionOrder \in Seq(Regions) /\ n \in Nat /\ n >= 2 /\ DOMAIN RegionOrder = 1..n
      /\ \A i \in 1..n : RegionOrder[i] \in Regions
  BY RegionSearchAssumption
<1>2. \A r \in Regions : \E i \in 1..n : RegionOrder[i] = r
  BY DEF Regions
<1>3. CASE region = Nowhere
  BY <1>1, <1>2, <1>3 DEF Without
<1>4. CASE region # Nowhere
  <2> DEFINE spot == CHOOSE i \in DOMAIN RegionOrder : RegionOrder[i] = region
             w  == [i \in 1..(n - 1) |-> RegionOrder[IF i < spot THEN i ELSE i + 1]]
  <2>1. Without(region) = w
    BY <1>4 DEF Without
  <2>2. spot \in 1..n /\ RegionOrder[spot] = region
    BY <1>1, <1>2, <1>4
  <2> HIDE DEF spot
  <2>3. \A i \in 1..(n - 1) : w[i] \in Regions
    BY <1>1, <2>2
  <2>4. w \in Seq(Regions) /\ Len(w) = n - 1 /\ DOMAIN w = 1..(n - 1)
    BY <1>1, <2>3
  <2>5. ASSUME NEW r \in Regions, r # region PROVE \E i \in 1..(n - 1) : w[i] = r
    <3>1. PICK j \in 1..n : RegionOrder[j] = r
      BY <1>2
    <3>2. CASE j < spot
      <4>1. j \in 1..(n - 1) /\ w[j] = r
        BY <1>1, <2>2, <3>1, <3>2
      <4> QED
        BY <4>1
    <3>3. CASE ~(j < spot)
      <4>1. j > spot
        BY <1>1, <2>2, <2>5, <3>1, <3>3
      <4>2. j - 1 \in 1..(n - 1) /\ ~(j - 1 < spot) /\ (j - 1) + 1 = j
        BY <1>1, <2>2, <4>1
      <4>3. w[j - 1] = RegionOrder[(j - 1) + 1]
        BY <4>2
      <4> QED
        BY <3>1, <4>2, <4>3
    <3> QED
      BY <3>2, <3>3
  <2> HIDE DEF w
  <2> QED
    BY <1>4, <2>1, <2>4, <2>5
<1> QED
  BY <1>3, <1>4

(* Asking the next region. *)
LEMMA HeadAndTail ==
  ASSUME NEW S, NEW s \in Seq(S), s # <<>>
  PROVE  /\ Head(s) \in S /\ Tail(s) \in Seq(S) /\ Len(Tail(s)) = Len(s) - 1 /\ Len(s) \in Nat
         /\ Len(s) >= 1
         /\ {s[i] : i \in DOMAIN s} = {Head(s)} \cup {Tail(s)[i] : i \in DOMAIN Tail(s)}
<1>1. /\ Len(s) \in Nat /\ Len(s) >= 1 /\ DOMAIN s = 1..Len(s)
      /\ Tail(s) \in Seq(S) /\ Len(Tail(s)) = Len(s) - 1 /\ DOMAIN Tail(s) = 1..(Len(s) - 1)
      /\ Head(s) = s[1] /\ Head(s) \in S
  BY EmptySeq, HeadTailProperties
<1>2. \A i \in 1..(Len(s) - 1) : Tail(s)[i] = s[i + 1]
  BY <1>1
<1>3. ASSUME NEW i \in DOMAIN s PROVE s[i] \in {Head(s)} \cup {Tail(s)[j] : j \in DOMAIN Tail(s)}
  <2>1. CASE i = 1
    BY <1>1, <2>1
  <2>2. CASE i # 1
    <3>1. i - 1 \in 1..(Len(s) - 1) /\ (i - 1) + 1 = i
      BY <1>1, <2>2
    <3>2. Tail(s)[i - 1] = s[i]
      BY <1>2, <3>1
    <3> QED
      BY <1>1, <3>1, <3>2
  <2> QED
    BY <2>1, <2>2
<1>4. \A j \in DOMAIN Tail(s) : j + 1 \in DOMAIN s /\ Tail(s)[j] = s[j + 1]
  BY <1>1, <1>2
<1>5. 1 \in DOMAIN s
  BY <1>1
<1> DEFINE all == {s[i] : i \in DOMAIN s}
           rest == {Tail(s)[i] : i \in DOMAIN Tail(s)}
<1>6. all \subseteq {Head(s)} \cup rest
  BY <1>3
<1>7. rest \subseteq all
  BY <1>4
<1>8. Head(s) \in all
  BY <1>1, <1>5
<1> HIDE DEF all, rest
<1>9. all = {Head(s)} \cup rest
  BY <1>6, <1>7, <1>8
<1> QED
  BY <1>1, <1>9 DEF all, rest

LEMMA FresherIs ==
  ASSUME SearchInv, phase # "idle", NEW region \in Regions
  PROVE  /\ Better(region) \in Bests
         /\ Better(region) = Nothing \/ IsRecord(Better(region))
         /\ Better(region) = IF records[region] # Nowhere /\ (found = Nothing \/ IsLater(records[region], found.date))
                             THEN At(region) ELSE found
         /\ At(region).region = region /\ At(region).date = records[region] /\ At(region) # Nothing
         /\ records[region] \in Dates \cup {Nowhere}
<1>1. region # Nowhere /\ records[region] \in Dates \cup {Nowhere}
  BY DatesAre DEF SearchInv, SearchTypes
<1>2. At(region).region = region /\ At(region).date = records[region] /\ At(region) # Nothing
  BY <1>1 DEF At, Nothing
<1>3. Better(region) = IF records[region] # Nowhere /\ (found = Nothing \/ IsLater(records[region], found.date))
                       THEN At(region) ELSE found
  BY <1>2 DEF Better, Fresher
<1>4. At(region) \in Bests
  BY <1>1 DEF At, Bests
<1>5. found \in Bests /\ (found = Nothing \/ IsRecord(found))
  BY DEF SearchInv, SearchTypes, FoundIsThere
<1>6. records[region] # Nowhere => IsRecord(At(region))
  BY <1>2 DEF IsRecord
<1>7. CASE records[region] # Nowhere /\ (found = Nothing \/ IsLater(records[region], found.date))
  BY <1>1, <1>2, <1>3, <1>4, <1>6, <1>7
<1>8. CASE ~(records[region] # Nowhere /\ (found = Nothing \/ IsLater(records[region], found.date)))
  BY <1>1, <1>2, <1>3, <1>5, <1>8
<1> QED
  BY <1>7, <1>8

(* What the initial state and the events between two lookups leave. *)
LEMMA IdleIs ==
  ASSUME SearchTypes', phase' = "idle", asked' <= 1 + Len(RegionOrder),
         outcome'.how \in {"none", "raised"}
  PROVE  SearchInv'
BY DEF SearchInv, FoundIsThere, SearchIsRight, Searched

LEMMA SearchStarts == SearchInit => SearchInv
<1> SUFFICES ASSUME SearchInit PROVE SearchInv
  OBVIOUS
<1>1. <<>> \in Seq(Regions) /\ Len(RegionOrder) \in Nat
  BY RegionSearchAssumption
<1>2. outcome \in Outcomes /\ outcome.how = "none"
  BY OutcomesAre DEF SearchInit, Ends
<1>3. SearchTypes
  BY <1>1, <1>2, OutcomesAre DEF SearchInit, SearchTypes
<1>4. SearchIsRight /\ FoundIsThere
  BY <1>1, <1>2 DEF SearchInit, SearchIsRight, Searched, FoundIsThere
<1> QED
  BY <1>3, <1>4 DEF SearchInv, SearchInit

LEMMA BetweenKeeps == SearchInv /\ (NodeIsHeard \/ MemoChanges) => SearchInv'
<1> SUFFICES ASSUME SearchInv, NodeIsHeard \/ MemoChanges PROVE SearchInv'
  OBVIOUS
<1>1. outcome' \in Outcomes /\ outcome'.how = "none"
  BY DEF NodeIsHeard, MemoChanges, SearchInv, SearchTypes, Outcomes, Ends
<1>2. records' \in [Regions -> Dates \cup {Nowhere}]
  BY DEF NodeIsHeard, MemoChanges, SearchInv, SearchTypes
<1>3. /\ memo' \in Regions \cup {Nowhere} /\ phase' = "idle"
      /\ UNCHANGED <<found, ahead, asked>>
  BY DEF NodeIsHeard, MemoChanges, SearchInv, SearchTypes
<1>4. SearchTypes'
  BY <1>1, <1>2, <1>3 DEF SearchInv, SearchTypes
<1>5. asked' <= 1 + Len(RegionOrder)
  BY <1>3 DEF SearchInv, SearchIsRight
<1> QED
  BY <1>1, <1>3, <1>4, <1>5, IdleIs

LEMMA BeginKeeps == SearchInv /\ Begin => SearchInv'
<1> SUFFICES ASSUME SearchInv, Begin PROVE SearchInv'
  OBVIOUS
<1>1. outcome' \in Outcomes /\ outcome'.how = "none"
  BY OutcomesAre DEF Begin, SearchInv, SearchTypes, Ends
<1>2. /\ UNCHANGED <<records, memo>> /\ found' = Nothing /\ asked' = 0
      /\ phase' = IF memo = Nowhere THEN "status" ELSE "memo"
      /\ memo \in Regions \cup {Nowhere}
  BY DEF Begin, SearchInv, SearchTypes
<1>3. ahead' \in Seq(Regions)
  BY RegionSearchAssumption DEF Begin, SearchInv, SearchTypes
<1>4. Len(RegionOrder) \in Nat
  BY RegionSearchAssumption
<1>5. SearchTypes'
  BY <1>1, <1>2, <1>3, OutcomesAre DEF SearchInv, SearchTypes
<1>6. SearchIsRight' /\ FoundIsThere'
  BY <1>1, <1>2, <1>4 DEF SearchIsRight, Searched, FoundIsThere
<1>7. CASE memo = Nowhere
  BY <1>1, <1>2, <1>5, <1>6, <1>7 DEF SearchInv, StatusPhase
<1>8. CASE memo # Nowhere
  BY <1>1, <1>2, <1>5, <1>6, <1>8 DEF SearchInv, MemoPhase
<1> QED
  BY <1>7, <1>8

LEMMA AskMemoKeeps == SearchInv /\ AskMemo => SearchInv'
<1> SUFFICES ASSUME SearchInv, AskMemo PROVE SearchInv'
  OBVIOUS
<1> DEFINE best == Better(memo)
<1>1. /\ phase = "memo" /\ found' = best /\ asked' = asked + 1 /\ UNCHANGED <<records, memo>>
      /\ memo \in Regions /\ asked = 0 /\ found = Nothing /\ outcome.how = "none"
      /\ outcome \in Outcomes
  BY DEF AskMemo, SearchInv, SearchTypes, MemoPhase
<1>2. /\ best \in Bests /\ (best = Nothing \/ IsRecord(best))
      /\ best = IF records[memo] # Nowhere THEN At(memo) ELSE Nothing
      /\ At(memo).region = memo /\ At(memo).date = records[memo] /\ At(memo) # Nothing
      /\ records[memo] \in Dates \cup {Nowhere}
  BY <1>1, FresherIs
<1>3. /\ <<>> \in Seq(Regions) /\ Len(<<>>) = 0 /\ Len(RegionOrder) \in Nat /\ Len(RegionOrder) >= 2
      /\ asked' = 1
  BY <1>1, RegionSearchAssumption
<1>4. /\ Without(memo) \in Seq(Regions) /\ Len(Without(memo)) = Len(RegionOrder) - 1
      /\ \A r \in Regions : r # memo => \E i \in DOMAIN Without(memo) : Without(memo)[i] = r
  BY <1>1, WithoutIs, DatesAre
<1> HIDE DEF best
<1>5. SearchTypes' /\ (phase' = "idle" => outcome'.how = "memo" /\ outcome'.found = best)
                   /\ (phase' # "idle" => outcome' = outcome)
  <2>1. outcome' = outcome \/ outcome' = [found |-> best, how |-> "memo", from |-> memo]
    BY <1>1 DEF AskMemo, best
  <2>2. outcome' \in Outcomes
    <3>1. best \in Bests /\ memo \in Regions \cup {Nowhere} /\ "memo" \in Ends
      BY <1>1, <1>2 DEF Ends
    <3>2. [found |-> best, how |-> "memo", from |-> memo] \in Outcomes
      BY <3>1 DEF Outcomes
    <3> QED
      BY <1>1, <2>1, <3>2
  <2>3. ahead' \in Seq(Regions) /\ phase' \in {"idle", "memo", "status", "others", "noting"}
    BY <1>3, <1>4 DEF AskMemo
  <2>4. SearchTypes'
    BY <1>1, <1>2, <1>3, <2>2, <2>3 DEF SearchInv, SearchTypes
  <2>5. (phase' = "idle" => outcome' = [found |-> best, how |-> "memo", from |-> memo])
        /\ (phase' # "idle" => outcome' = outcome)
    BY DEF AskMemo, best
  <2> QED
    BY <2>4, <2>5
<1>6. FoundIsThere'
  BY <1>1, <1>2 DEF FoundIsThere, IsRecord
<1>7. CASE best # Nothing /\ ~IsStale(best.date)
  <2>1. phase' = "idle"
    BY <1>7 DEF AskMemo, best
  <2>2. best.region = memo /\ best.date = records[memo] /\ best.date \in Dates
    BY <1>2, <1>7
  <2>3. memo \in Held' /\ (\A r \in Regions : records'[r] = records[r])
    BY <1>1, <2>2, DatesAre DEF Held
  <2>4. (outcome'.found = Nothing) = (Held' = {})
    BY <1>5, <1>7, <2>1, <2>3
  <2>5. outcome'.how = "memo" /\ outcome'.found = best /\ memo' = outcome'.found.region /\ asked' <= 1 + Len(RegionOrder)
    BY <1>1, <1>3, <1>5, <2>1, <2>2
  <2>6. SearchIsRight'
    BY <1>7, <2>1, <2>4, <2>5 DEF SearchIsRight, Searched
  <2> QED
    BY <2>1, <1>5, <1>6, <2>6 DEF SearchInv
<1>8. CASE best = Nothing
  <2>1. phase' = "status"
    BY <1>8 DEF AskMemo, best
  <2>2. records[memo] = Nowhere
    BY <1>2, <1>8
  <2>3. SearchIsRight' /\ StatusPhase'
    BY <1>1, <1>3, <1>5, <1>8, <2>1, <2>2, DatesAre DEF SearchIsRight, Searched, StatusPhase
  <2> QED
    BY <1>5, <1>6, <2>1, <2>3 DEF SearchInv
<1>9. CASE best # Nothing /\ IsStale(best.date)
  <2>1. phase' = "others" /\ ahead' = Without(memo) /\ outcome' = outcome
    BY <1>9 DEF AskMemo, best
  <2>2. best.region = memo /\ best.date = records[memo]
    BY <1>2, <1>9
  <2>3. \A r \in Regions \ Unasked' : r = memo
    BY <1>4, <2>1 DEF Unasked
  <2>4. NoneLater'
    BY <1>1, <1>2, <1>9, <2>2, <2>3, DatesAre DEF NoneLater
  <2>5. SearchIsRight' /\ OthersPhase'
    BY <1>1, <1>3, <1>4, <2>1, <2>4 DEF SearchIsRight, Searched, OthersPhase
  <2> QED
    BY <1>5, <1>6, <2>1, <2>5 DEF SearchInv
<1> QED
  BY <1>7, <1>8, <1>9

LEMMA AskStatusKeeps == SearchInv /\ AskStatus => SearchInv'
<1> SUFFICES ASSUME SearchInv, AskStatus PROVE SearchInv'
  OBVIOUS
<1>1. /\ phase = "status" /\ asked' = asked + 1 /\ UNCHANGED <<records, memo, found, outcome>>
      /\ found = Nothing /\ outcome.how = "none" /\ memo \in Regions \cup {Nowhere} /\ asked \in Nat
      /\ IF memo = Nowhere THEN asked = 0 ELSE records[memo] = Nowhere /\ asked <= 1
  BY DEF AskStatus, SearchInv, SearchTypes, StatusPhase
<1>2. <<>> \in Seq(Regions) /\ Len(RegionOrder) \in Nat /\ Len(RegionOrder) >= 2
  BY RegionSearchAssumption
<1>3. /\ Without(memo) \in Seq(Regions)
      /\ Len(Without(memo)) = IF memo = Nowhere THEN Len(RegionOrder) ELSE Len(RegionOrder) - 1
      /\ \A r \in Regions : r # memo => \E i \in DOMAIN Without(memo) : Without(memo)[i] = r
  BY <1>1, WithoutIs
<1>4. SearchTypes' /\ FoundIsThere' /\ phase' \in {"others", "noting"}
  <2>1. phase' \in {"others", "noting"} /\ ahead' \in Seq(Regions)
    BY <1>2, <1>3 DEF AskStatus
  <2>2. asked' \in Nat
    BY <1>1
  <2>3. SearchTypes'
    BY <1>1, <2>1, <2>2 DEF SearchInv, SearchTypes
  <2> QED
    BY <1>1, <2>1, <2>3 DEF FoundIsThere
<1>5. asked + 1 <= 1 + Len(RegionOrder)
  BY <1>1, <1>2
<1>6. SearchIsRight'
  BY <1>1, <1>4, <1>5 DEF SearchIsRight, Searched
<1>7. CASE phase' = "others" /\ ahead' = Without(memo)
  <2>1. \A r \in Regions \ Unasked' : r = memo /\ records[memo] = Nowhere
    BY <1>1, <1>3, <1>7, DatesAre DEF Unasked
  <2>2. NoneLater'
    BY <1>1, <2>1, DatesAre, OutcomesAre DEF NoneLater
  <2>3. asked' + Len(ahead') <= 1 + Len(RegionOrder)
    <3>1. CASE memo = Nowhere
      BY <1>1, <1>2, <1>3, <1>7, <3>1
    <3>2. CASE memo # Nowhere
      BY <1>1, <1>2, <1>3, <1>7, <3>2
    <3> QED
      BY <3>1, <3>2
  <2>4. OthersPhase'
    BY <1>1, <2>2, <2>3 DEF OthersPhase
  <2> QED
    BY <1>4, <1>6, <1>7, <2>4 DEF SearchInv
<1>8. CASE (\A r \in Regions : records[r] = Nowhere) /\ phase' = "noting"
  BY <1>1, <1>4, <1>6, <1>8 DEF SearchInv, NotingPhase
<1> QED
  BY <1>7, <1>8 DEF AskStatus

LEMMA AskNextKeeps == SearchInv /\ AskNext => SearchInv'
<1> SUFFICES ASSUME SearchInv, AskNext PROVE SearchInv'
  OBVIOUS
<1> DEFINE region == Head(ahead)
           fresh == records[region] # Nowhere /\ ~IsStale(records[region])
<1>1. /\ phase = "others" /\ ahead # <<>> /\ asked' = asked + 1 /\ UNCHANGED <<records, memo, phase>>
      /\ found' = Better(region) /\ ahead' = IF fresh THEN <<>> ELSE Tail(ahead)
      /\ outcome' = IF records[region] = "undated" THEN [outcome EXCEPT !.how = "undated"] ELSE outcome
  BY DEF AskNext
<1>2. /\ region \in Regions /\ Tail(ahead) \in Seq(Regions) /\ Len(Tail(ahead)) = Len(ahead) - 1
      /\ Len(ahead) \in Nat /\ Len(ahead) >= 1
      /\ Unasked = {region} \cup {Tail(ahead)[i] : i \in DOMAIN Tail(ahead)}
  BY <1>1, HeadAndTail DEF SearchInv, SearchTypes, Unasked
<1>3. /\ NoneLater /\ outcome.how = "none" /\ asked + Len(ahead) <= 1 + Len(RegionOrder)
      /\ found = Nothing \/ IsRecord(found)
      /\ found \in Bests /\ outcome \in Outcomes
  BY <1>1 DEF SearchInv, SearchTypes, OthersPhase, EndedEarly, FoundIsThere
<1>4. <<>> \in Seq(Regions) /\ Len(<<>>) = 0 /\ Len(RegionOrder) \in Nat /\ asked \in Nat
  BY RegionSearchAssumption DEF SearchInv, SearchTypes
<1> HIDE DEF region
<1>5. /\ found' \in Bests /\ (found' = Nothing \/ IsRecord(found'))
      /\ found' = IF records[region] # Nowhere /\ (found = Nothing \/ IsLater(records[region], found.date))
                  THEN At(region) ELSE found
      /\ At(region).date = records[region] /\ At(region) # Nothing
      /\ records[region] \in Dates \cup {Nowhere}
  <2>1. phase # "idle"
    BY <1>1
  <2> QED
    BY <1>1, <1>2, <2>1, FresherIs
<1>6. outcome' \in Outcomes /\ (outcome'.how = IF records[region] = "undated" THEN "undated" ELSE "none")
  BY <1>1, <1>3 DEF Outcomes, Ends
<1>7. SearchTypes'
  <2>1. ahead' \in Seq(Regions)
    BY <1>1, <1>2, <1>4
  <2> QED
    BY <1>1, <1>4, <1>5, <1>6, <2>1 DEF SearchInv, SearchTypes
<1>8. FoundIsThere'
  BY <1>1, <1>5 DEF FoundIsThere, IsRecord
<1>9. asked' <= 1 + Len(RegionOrder) /\ asked' + Len(ahead') <= 1 + Len(RegionOrder)
  BY <1>1, <1>2, <1>3, <1>4
<1>10. SearchIsRight'
  BY <1>1, <1>9 DEF SearchIsRight, Searched
<1>11. found \in Bests /\ found.date \in Dates \cup {Nowhere} /\ (found # Nothing => IsStale(found.date))
  BY <1>3, OutcomesAre DEF NoneLater
<1>12. CASE fresh
  <2>1. records[region] \in {"today", "undated"}
    BY <1>5, <1>12, DatesAre
  <2>2. found' # Nothing
    BY <1>5, <1>12
  <2>3. records[region] = "today" => found'.date = "today"
    BY <1>5, <1>11, <1>12, DatesAre
  <2>4. EndedEarly'
    BY <1>1, <1>6, <1>12, <2>1, <2>2, <2>3 DEF EndedEarly
  <2> QED
    BY <1>1, <1>7, <1>8, <1>9, <1>10, <2>4 DEF SearchInv, OthersPhase
<1>13. CASE ~fresh
  <2>1. records[region] = Nowhere \/ IsStale(records[region])
    BY <1>13
  <2>2. records[region] \notin {"today", "undated"} /\ outcome' = outcome
    BY <1>1, <1>5, <2>1, DatesAre
  <2>3. \A r \in Regions \ Unasked' : r = region \/ r \in Regions \ Unasked
    BY <1>1, <1>2, <1>13 DEF Unasked
  <2>4. found' # Nothing => IsStale(found'.date)
    BY <1>5, <1>11, <2>1
  <2>5. ASSUME NEW r \in Regions \ Unasked'
        PROVE  /\ ~IsLater(records[r], found'.date) /\ records[r] \notin {"today", "undated"}
               /\ found' = Nothing => records[r] = Nowhere
    <3>1. records[r] \in Dates \cup {Nowhere}
      BY DEF SearchInv, SearchTypes
    <3>2. CASE r = region
      <4>1. CASE found' = At(region)
        BY <1>5, <2>2, <3>1, <3>2, <4>1, DatesAre
      <4>2. CASE found' = found /\ (records[region] = Nowhere \/ (found # Nothing /\ ~IsLater(records[region], found.date)))
        BY <1>5, <1>11, <2>2, <3>1, <3>2, <4>2, DatesAre
      <4> QED
        BY <1>5, <4>1, <4>2
    <3>3. CASE r \in Regions \ Unasked
      <4>1. /\ ~IsLater(records[r], found.date) /\ records[r] \notin {"today", "undated"}
            /\ found = Nothing => records[r] = Nowhere
        BY <1>3, <3>3 DEF NoneLater
      <4>2. CASE found' = found
        BY <4>1, <4>2
      <4>3. CASE found' = At(region) /\ found = Nothing
        BY <1>5, <3>1, <4>1, <4>3, DatesAre
      <4>4. CASE found' = At(region) /\ IsLater(records[region], found.date)
        BY <1>5, <1>11, <3>1, <4>1, <4>4, DatesAre
      <4> QED
        BY <1>5, <4>2, <4>3, <4>4
    <3> QED
      BY <2>3, <3>2, <3>3
  <2>6. NoneLater'
    BY <1>1, <2>4, <2>5 DEF NoneLater
  <2> QED
    BY <1>1, <1>3, <1>7, <1>8, <1>9, <1>10, <2>2, <2>6 DEF SearchInv, OthersPhase
<1> QED
  BY <1>12, <1>13

LEMMA FailsKeeps == SearchInv /\ Fails => SearchInv'
<1> SUFFICES ASSUME SearchInv, Fails PROVE SearchInv'
  OBVIOUS
<1>1. /\ asked' = asked + 1 /\ ahead' = <<>> /\ UNCHANGED <<records, memo, found>>
      /\ phase \in {"memo", "status", "others"} /\ (phase = "others" => ahead # <<>>)
      /\ found \in Bests /\ outcome \in Outcomes /\ memo \in Regions \cup {Nowhere}
  BY DEF Fails, SearchInv, SearchTypes
<1>2. <<>> \in Seq(Regions) /\ Len(RegionOrder) \in Nat /\ Len(RegionOrder) >= 2 /\ asked \in Nat
  BY RegionSearchAssumption DEF SearchInv, SearchTypes
<1>3. asked' <= 1 + Len(RegionOrder)
  <2>1. CASE phase = "memo"
    BY <1>1, <1>2, <2>1 DEF SearchInv, MemoPhase
  <2>2. CASE phase = "status"
    <3>1. asked <= 1
      BY <1>2, <2>2 DEF SearchInv, StatusPhase
    <3> QED
      BY <1>1, <1>2, <3>1
  <2>3. CASE phase = "others"
    <3>1. Len(ahead) \in Nat /\ Len(ahead) >= 1
      BY <1>1, <2>3, HeadAndTail DEF SearchInv, SearchTypes
    <3>2. asked + Len(ahead) <= 1 + Len(RegionOrder)
      BY <2>3 DEF SearchInv, OthersPhase
    <3> QED
      BY <1>1, <1>2, <3>1, <3>2
  <2> QED
    BY <1>1, <2>1, <2>2, <2>3
<1>4. CASE found = Nothing
  <2>1. phase' = "idle" /\ outcome' = [found |-> found, how |-> "raised", from |-> memo]
    BY <1>4 DEF Fails, Ended
  <2>2. outcome' \in Outcomes /\ outcome'.how = "raised"
    BY <1>1, <2>1 DEF Outcomes, Ends
  <2>3. SearchTypes'
    <3>1. ahead' \in Seq(Regions) /\ asked' \in Nat
      BY <1>1, <1>2
    <3> QED
      BY <1>1, <2>1, <2>2, <3>1 DEF SearchInv, SearchTypes
  <2> QED
    BY <1>3, <2>1, <2>2, <2>3, IdleIs
<1>5. CASE found # Nothing
  <2>1. phase' = "noting" /\ outcome' = [outcome EXCEPT !.how = "cut short"]
    BY <1>5 DEF Fails
  <2>2. outcome' \in Outcomes /\ outcome'.how = "cut short"
    BY <1>1, <2>1 DEF Outcomes, Ends
  <2>3. SearchTypes'
    <3>1. ahead' \in Seq(Regions) /\ asked' \in Nat
      BY <1>1, <1>2
    <3> QED
      BY <1>1, <2>1, <2>2, <3>1 DEF SearchInv, SearchTypes
  <2>4. FoundIsThere' /\ SearchIsRight'
    BY <1>1, <1>3, <2>1 DEF SearchInv, FoundIsThere, IsRecord, SearchIsRight, Searched
  <2> QED
    BY <1>1, <1>5, <2>1, <2>2, <2>3, <2>4 DEF SearchInv, NotingPhase
<1> QED
  BY <1>4, <1>5

LEMMA NoteKeeps == SearchInv /\ Note => SearchInv'
<1> SUFFICES ASSUME SearchInv, Note PROVE SearchInv'
  OBVIOUS
<1> DEFINE how == IF outcome.how = "none" THEN "searched" ELSE outcome.how
<1>1. /\ phase = "noting" \/ (phase = "others" /\ ahead = <<>>)
      /\ phase' = "idle" /\ memo' = found.region /\ UNCHANGED <<records, found, ahead, asked>>
      /\ outcome' = [outcome EXCEPT !.found = found, !.how = how]
      /\ found \in Bests /\ outcome \in Outcomes
      /\ found = Nothing \/ IsRecord(found)
  BY DEF Note, Remembered, SearchInv, SearchTypes, FoundIsThere
<1>2. outcome' \in Outcomes /\ outcome'.found = found /\ outcome'.how = how
  BY <1>1 DEF Outcomes, Ends
<1>3. memo' \in Regions \cup {Nowhere}
  BY <1>1, OutcomesAre
<1>4. SearchTypes' /\ FoundIsThere'
  BY <1>1, <1>2, <1>3 DEF SearchInv, SearchTypes, FoundIsThere
<1>5. asked' <= 1 + Len(RegionOrder)
  BY <1>1 DEF SearchInv, SearchIsRight
<1>6. found.date \in Dates \cup {Nowhere} /\ (\A r \in Regions : records[r] \in Dates \cup {Nowhere})
  BY <1>1, OutcomesAre DEF SearchInv, SearchTypes
<1> HIDE DEF how
<1>7. ASSUME how # "cut short"
      PROVE  /\ found = Nothing <=> \A r \in Regions : records[r] = Nowhere
             /\ \A r \in Regions : records[r] = "today" /\ how # "undated" => ~IsStale(found.date)
             /\ \A r \in Regions : IsStale(found.date) => ~IsLater(records[r], found.date) \/ how = "undated"
  <2>1. found # Nothing => IsRecord(found) /\ ~(\A r \in Regions : records[r] = Nowhere)
    BY <1>1 DEF IsRecord
  <2>2. CASE phase = "noting"
    <3>1. how = "searched" /\ found = Nothing /\ \A r \in Regions : records[r] = Nowhere
      BY <1>7, <2>2 DEF SearchInv, NotingPhase, how
    <3> QED
      BY <3>1, DatesAre, OutcomesAre
  <2>3. CASE phase = "others" /\ EndedEarly
    <3>1. found # Nothing /\ (how = "undated" \/ found.date = "today")
      BY <2>3 DEF EndedEarly, how
    <3> QED
      BY <1>6, <2>1, <3>1, DatesAre
  <2>4. CASE phase = "others" /\ ahead = <<>> /\ NoneLater
    <3>1. Unasked = {}
      BY <2>4 DEF Unasked
    <3>2. \A r \in Regions :
            /\ ~IsLater(records[r], found.date) /\ records[r] \notin {"today", "undated"}
            /\ found = Nothing => records[r] = Nowhere
      BY <2>4, <3>1 DEF NoneLater
    <3> QED
      BY <2>1, <3>2
  <2> QED
    BY <1>1, <2>2, <2>3, <2>4 DEF SearchInv, OthersPhase
<1>8. SearchIsRight'
  <2>1. Held' = {r \in Regions : records[r] # Nowhere}
    BY <1>1 DEF Held
  <2>2. how # "cut short" => (found = Nothing) = (Held' = {})
    BY <1>7, <2>1
  <2> QED
    BY <1>1, <1>2, <1>5, <1>7, <2>1, <2>2 DEF SearchIsRight, Searched
<1> QED
  BY <1>1, <1>4, <1>8 DEF SearchInv

(* However the memo, the node and the requests go, a lookup that is not    *)
(* cut short ends at the freshest record there is (lorastats.py's search   *)
(* and region_memo.py).                                                    *)
LEMMA SearchStaysRight == SearchSpec => []SearchIsRight
<1>1. SearchInit => SearchInv
  BY SearchStarts
<1>2. SearchInv /\ [SearchNext]_searchVars => SearchInv'
  <2> SUFFICES ASSUME SearchInv, [SearchNext]_searchVars PROVE SearchInv'
    OBVIOUS
  <2>1. CASE UNCHANGED searchVars
    BY <2>1 DEF searchVars, SearchInv, SearchTypes, FoundIsThere, IsRecord, SearchIsRight, Searched, Held,
                MemoPhase, StatusPhase, OthersPhase, NotingPhase, EndedEarly, NoneLater, Unasked
  <2> QED
    BY <2>1, BetweenKeeps, BeginKeeps, AskMemoKeeps, AskStatusKeeps, AskNextKeeps, FailsKeeps, NoteKeeps
       DEF SearchNext
<1>3. SearchInv => SearchIsRight
  BY DEF SearchInv
<1> QED
  BY <1>1, <1>2, <1>3, PTL DEF SearchSpec

(* Unless two readers cross, the page is never asked for too soon          *)
(* (lorastats_regions.py).                                                 *)
LEMMA ListStaysSpared == ListSpec => []ListIsSpared
<1>1. ListInit => ListIsSpared
  BY DEF ListInit, ListIsSpared
<1>2. ListIsSpared /\ [ListNext]_listVars => ListIsSpared'
  <2> SUFFICES ASSUME ListIsSpared, [ListNext]_listVars, ~crossed' PROVE ~nagged' /\ list' = tries'
    BY DEF ListIsSpared
  <2>1. ASSUME NEW r \in Readers, NEW forced \in BOOLEAN, Request(r, forced)
        PROVE  ~nagged' /\ list' = tries'
    <3>1. ~nagged /\ list = tries /\ UNCHANGED <<list, tries>>
      BY <2>1 DEF ListIsSpared, Request
    <3>2. ~forced => ~Recent(list.fetched, Week) /\ ~Recent(list.tried, Day)
      BY <2>1 DEF Request, TriedLately
    <3>3. nagged' = (nagged \/ (~forced /\ (Recent(tries.fetched, Week) \/ Recent(tries.tried, Day))))
      BY <2>1 DEF Request
    <3> QED
      BY <3>1, <3>2, <3>3
  <2>2. ASSUME NEW r \in Readers, Listed(r) PROVE ~nagged' /\ list' = tries'
    BY <2>2 DEF ListIsSpared, Listed, Answered
  <2>3. ASSUME NEW r \in Readers, Failed(r) PROVE ~nagged' /\ list' = tries'
    BY <2>3 DEF ListIsSpared, Failed, Answered, Tried
  <2>4. CASE NextDay \/ UNCHANGED listVars \/ \E r \in Readers : Unrecorded(r)
    BY <2>4 DEF ListIsSpared, NextDay, listVars, Unrecorded, Answered
  <2> QED
    BY <2>1, <2>2, <2>3, <2>4 DEF ListNext
<1> QED
  BY <1>1, <1>2, PTL DEF ListSpec

(* However the memo, the node, the requests and the readers of the list    *)
(* go: a search ends at the freshest record at the least cost, and the     *)
(* page that lists the regions is spared (lorastats.py, region_memo.py,    *)
(* lorastats_regions.py).                                                  *)
THEOREM RegionsStayAsked == SearchSpec /\ ListSpec => []RegionsAreAsked
<1>1. SearchIsRight /\ ListIsSpared => RegionsAreAsked
  BY DEF RegionsAreAsked
<1> QED
  BY <1>1, SearchStaysRight, ListStaysSpared, PTL

===============================================================================
