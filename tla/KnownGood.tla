------------------------------ MODULE KnownGood ------------------------------
(***************************************************************************)
(* The known-good copy (db/known_good.py): one safety copy of the database *)
(* and a sidecar naming its source and hash, refreshed by every successful *)
(* load - most take no lock, `mesh status --watch` loads for ever - and by *)
(* every save and restore, which hold the database lock (module OdsStore). *)
(* Each refresh is several steps: loads and saves interleave with it, any  *)
(* of them may be killed or fail in it, and other programs save the same   *)
(* file, sometimes with content no load accepts.                           *)
(*                                                                         *)
(* A content stands for its bytes and its hash; all are of one size, the   *)
(* worst case for a comparison of (mtime, size).  The database has one     *)
(* name here: copies under older spellings are not modelled.               *)
(***************************************************************************)
EXTENDS Naturals

CONSTANTS
  Commands,     \* mesh commands, each run any number of times
  Broken,       \* contents no load accepts
  MaxVersions,  \* bounds the writes of the file, and so its contents
  MaxMishaps,   \* bounds kills, failed refreshes and foreign copies
  Absent        \* no copy, no sidecar, no holder of the lock

Foreign  == MaxVersions + 1   \* another database's content
OwnTime  == MaxVersions + 1   \* an mtime this database never has
Contents == 0..Foreign
Versions == 0..MaxVersions
File     == [content : Contents, version : Versions, inode : Versions, mtime : Versions]
KeptCopy == [content : Contents, version : Versions, mtime : Versions \cup {OwnTime}]
Sidecar  == [ours : BOOLEAN, hash : Contents]

ASSUME CopyBounds       == MaxVersions \in Nat /\ MaxMishaps \in Nat
ASSUME AbsentAssumption == Absent \notin Commands \cup KeptCopy \cup Sidecar
ASSUME BrokenAssumption == Broken \subseteq 1..MaxVersions

VARIABLES
  file,     \* the database: its content, the number of writes so far, fstat
  copy,     \* the copy, and the version of the file it was read from, or Absent
  sidecar,  \* whether it names this database, and the hash, or Absent
  holder,   \* the command holding the database lock, or Absent
  step,     \* the step of each command
  read,     \* the content and fstat each command's refresh was called with
  loaded,   \* contents this database was loaded with, cleanly
  mishaps

copyVars == <<file, copy, sidecar, holder, step, read, loaded, mishaps>>

(* A directory copied or renamed wholesale carries another database's copy; *)
(* an older meshprovision wrote no sidecar.                                *)
CopyInit ==
  /\ file = [content |-> 0, version |-> 0, inode |-> 0, mtime |-> 0]
  /\ \/ copy = Absent /\ sidecar = Absent
     \/ /\ copy = [content |-> Foreign, version |-> 0, mtime |-> 0]
        /\ sidecar \in {Absent, [ours |-> FALSE, hash |-> Foreign]}
  /\ holder = Absent /\ step = [p \in Commands |-> "idle"]
  /\ read = [p \in Commands |-> file] /\ loaded = {} /\ mishaps = 0

Mishap == mishaps < MaxMishaps /\ mishaps' = mishaps + 1
CopyGoto(p, label) == step' = [step EXCEPT ![p] = label]

(* The command leaves refresh_known_good, and the lock with it if it had it. *)
CopyLeave(p) == CopyGoto(p, "idle") /\ holder' = (IF holder = p THEN Absent ELSE holder)

(* Every write is a new inode with a later mtime. *)
NewFile(content) ==
  LET next == file.version + 1 IN
  [content |-> content, version |-> next, inode |-> next, mtime |-> next]

CanWrite == file.version < MaxVersions

-----------------------------------------------------------------------------
(* Loading and writing the database. *)

(* _read_and_parse: bytes and fstat of one open file, then validation. *)
LoadsCleanly(content) == content \notin Broken

Load(p) ==
  /\ step[p] = "idle" /\ LoadsCleanly(file.content)
  /\ read' = [read EXCEPT ![p] = file] /\ loaded' = loaded \cup {file.content}
  /\ CopyGoto(p, "loaded")
  /\ UNCHANGED <<file, copy, sidecar, holder, mishaps>>

(* OdsDatabase.save, under the lock: new content that was checked to load. *)
(* The load of the same command is a Load; module OdsStore keeps its lock. *)
Save(p) ==
  /\ step[p] = "idle" /\ holder = Absent /\ CanWrite
  /\ file.version + 1 \notin Broken
  /\ LoadsCleanly(file.content)
  /\ file' = NewFile(file.version + 1)
  /\ read' = [read EXCEPT ![p] = file'] /\ loaded' = loaded \cup {file'.content}
  /\ holder' = p /\ CopyGoto(p, "loaded")
  /\ UNCHANGED <<copy, sidecar, mishaps>>

(* known_good_status *)
AnyHash      == sidecar # Absent /\ sidecar.ours
HashMatches  == sidecar # Absent /\ sidecar.ours /\ sidecar.hash = copy.content
Verified     == copy # Absent /\ HashMatches

(* `mesh db restore --known-good`: the provenance is looked at before the  *)
(* prompt, the copy is read - and must load - after it, as it then is.     *)
ChooseKnownGood(p) ==
  /\ step[p] = "idle" /\ CanWrite /\ Verified
  /\ CopyGoto(p, "prompt")
  /\ UNCHANGED <<file, copy, sidecar, holder, read, loaded, mishaps>>

RestoreKnownGood(p) ==
  /\ step[p] = "prompt" /\ holder = Absent /\ CanWrite
  /\ copy # Absent /\ LoadsCleanly(copy.content)
  /\ file' = NewFile(copy.content)
  /\ read' = [read EXCEPT ![p] = file'] /\ loaded' = loaded \cup {file'.content}
  /\ holder' = p /\ CopyGoto(p, "loaded")
  /\ UNCHANGED <<copy, sidecar, mishaps>>

GiveUp(p) ==
  /\ step[p] = "prompt" /\ CopyLeave(p)
  /\ UNCHANGED <<file, copy, sidecar, read, loaded, mishaps>>

-----------------------------------------------------------------------------
(* refresh_known_good, step by step. *)

(* The fast path: mtime and size, then the sidecar's source and hash. *)
CurrentButForHash(p) ==
  copy # Absent /\ copy.mtime = read[p].mtime /\ sidecar # Absent /\ sidecar.ours
Current(p) ==
  /\ copy # Absent /\ copy.mtime = read[p].mtime
  /\ sidecar # Absent /\ sidecar.ours /\ sidecar.hash = read[p].content

FastPath(p) ==
  /\ step[p] = "loaded" /\ Current(p)
  /\ CopyLeave(p)
  /\ UNCHANGED <<file, copy, sidecar, read, loaded, mishaps>>

WriteTemp(p) ==
  /\ step[p] = "loaded" /\ ~Current(p)
  /\ CopyGoto(p, "written")
  /\ UNCHANGED <<file, copy, sidecar, holder, read, loaded, mishaps>>

(* _superseded: the file moved on, and the copy is of what it moved on to. *)
Superseded(p) ==
  /\ copy # Absent
  /\ <<file.inode, file.mtime>> # <<read[p].inode, read[p].mtime>>
  /\ copy.mtime = file.mtime

CheckSuperseded(p) ==
  /\ step[p] = "written"
  /\ IF Superseded(p) THEN CopyLeave(p) ELSE CopyGoto(p, "replacing") /\ UNCHANGED holder
  /\ UNCHANGED <<file, copy, sidecar, read, loaded, mishaps>>

ReplaceCopy(p) ==
  /\ step[p] = "replacing"
  /\ copy' = [content |-> read[p].content, version |-> read[p].version,
              mtime |-> read[p].mtime]
  /\ CopyGoto(p, "copied")
  /\ UNCHANGED <<file, sidecar, holder, read, loaded, mishaps>>

WriteSidecar(p) ==
  /\ step[p] = "copied"
  /\ sidecar' = [ours |-> TRUE, hash |-> read[p].content]
  /\ CopyLeave(p)
  /\ UNCHANGED <<file, copy, read, loaded, mishaps>>

(* A kill, or any OSError: refresh_known_good logs it and never raises. *)
RefreshFails(p) ==
  /\ step[p] # "idle" /\ Mishap
  /\ CopyLeave(p)
  /\ UNCHANGED <<file, copy, sidecar, read, loaded>>

-----------------------------------------------------------------------------
(* Others.  A save of another program may be broken, be made in place, and *)
(* keep the mtime (cp -p, rsync -t); somebody overwrites the copy.         *)
OutsideSave ==
  /\ CanWrite
  /\ \E inode \in {file.inode, file.version + 1}, mtime \in {file.mtime, file.version + 1} :
       file' = [NewFile(file.version + 1) EXCEPT !.inode = inode, !.mtime = mtime]
  /\ UNCHANGED <<copy, sidecar, holder, step, read, loaded, mishaps>>

OverwriteCopy ==
  /\ copy # Absent /\ Mishap
  /\ copy' = [content |-> Foreign, version |-> copy.version, mtime |-> OwnTime]
  /\ UNCHANGED <<file, sidecar, holder, step, read, loaded>>

Refresh(p) ==
  FastPath(p) \/ WriteTemp(p) \/ CheckSuperseded(p) \/ ReplaceCopy(p) \/ WriteSidecar(p)

CopyCommand(p) ==
  \/ Load(p) \/ Save(p) \/ ChooseKnownGood(p) \/ RestoreKnownGood(p) \/ GiveUp(p)
  \/ Refresh(p) \/ RefreshFails(p)

(* Commands may simply never be run again; none rests in mid-refresh. *)
CopyRest == (\A p \in Commands : step[p] = "idle") /\ UNCHANGED copyVars

CopyNext == (\E p \in Commands : CopyCommand(p)) \/ OutsideSave \/ OverwriteCopy \/ CopyRest

CopySpec == CopyInit /\ [][CopyNext]_copyVars

(* A refresh goes on to its end, a prompt is answered some day, and the    *)
(* database keeps being loaded.                                            *)
CopyFairSpec ==
  /\ CopySpec
  /\ \A p \in Commands :
       WF_copyVars(Refresh(p)) /\ WF_copyVars(GiveUp(p)) /\ SF_copyVars(Load(p))

-----------------------------------------------------------------------------
CopyLabels == {"idle", "loaded", "written", "replacing", "copied", "prompt"}

CopyTypeOK ==
  /\ file \in File /\ copy \in KeptCopy \cup {Absent} /\ sidecar \in Sidecar \cup {Absent}
  /\ holder \in Commands \cup {Absent} /\ step \in [Commands -> CopyLabels]
  /\ read \in [Commands -> File]
  /\ loaded \subseteq Contents \ Broken /\ mishaps \in 0..MaxMishaps

(* What `mesh db restore --known-good` is offered loaded cleanly, from this *)
(* very database, at some time: neither a write that landed after the      *)
(* validation, nor a torn refresh, nor somebody else's copy is "verified". *)
VerifiedIsOurs == Verified => copy.content \in loaded

(* However refreshes interleave and whatever kills them, a database that   *)
(* loads and keeps being loaded has its own content as a verified copy in  *)
(* the end.  This needs the last write to have had an mtime of its own:    *)
(* the fast path compares the source and the sidecar with what was read,   *)
(* never the copy, and two refreshes of contents of one mtime and size can *)
(* leave the older copy under the newer sidecar for ever.                  *)
Mirrored == Verified /\ copy.content = file.content
Heals    == <>[](LoadsCleanly(file.content) /\ file.mtime = file.version => Mirrored)
=============================================================================
