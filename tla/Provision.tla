------------------------------ MODULE Provision ------------------------------
(***************************************************************************)
(* Key custody across runs: `mesh provision` (cli/provision.py,            *)
(* cli/provision_apply.py, provisioning/persist.py) with the write-ahead   *)
(* pending keypairs (db/pending_keys.py), `mesh db renumber`, and what     *)
(* happens to devices between runs.  A run may be killed between any two   *)
(* of its steps, the database save and the device writes may fail.  Runs   *)
(* exclude each other: each holds the database lock from its load to its   *)
(* end (module OdsStore).                                                  *)
(*                                                                         *)
(* A save is one step (module OdsStore), apply_plan is its contract        *)
(* (module ApplyPlan), a keypair is one value, and a key doubles as the    *)
(* node id firmware 2.8 derives from it.  Devices always report their key, *)
(* no row is archived or observed, no admin alias is named, and admin      *)
(* references are those of the rows, not of the template.                  *)
(***************************************************************************)
EXTENDS Naturals, FiniteSets

CONSTANTS
  Devices,      \* a device, standing also for the node id it was built with
  FreshKeys,    \* keypairs generate_keypair may return
  DeviceKeys,   \* keypairs devices make themselves
  BuiltInKey,   \* the key each device starts with
  Weak,         \* devices whose old firmware made a weak key (CVE-2025-52464)
  AdminIds,     \* ids whose key some row authorizes as an admin key
  MayForce,     \* operators use --force-regenerate-key
  NamesVanish,  \* a device (with no admin keys) may report empty names for a while
  MaxFaults     \* bounds failed writes and saves, kills and forced runs, together

None == "none"
Keys == FreshKeys \cup DeviceKeys
Ids  == Devices \cup Keys

ASSUME KeysAssumption ==
  /\ Devices \cap Keys = {} /\ FreshKeys \cap DeviceKeys = {}
  /\ None \notin Ids
ASSUME BuiltInKeyAssumption ==
  /\ BuiltInKey \in [Devices -> DeviceKeys]
  /\ \A d, e \in Devices : BuiltInKey[d] = BuiltInKey[e] => d = e
ASSUME OptionsAssumption ==
  /\ Weak \subseteq Devices /\ AdminIds \subseteq Ids
  /\ MayForce \in BOOLEAN /\ NamesVanish \in BOOLEAN /\ MaxFaults \in Nat

VARIABLES
  (* The devices. *)
  id,         \* node id a device reports
  key,        \* keypair it holds
  derives,    \* devices on firmware >= 2.8: id derived from the key
  factory,    \* devices with factory-default names and no admin keys
  (* The database and its pending-keypair files. *)
  rows,       \* ids with a Nodes row
  keyRow,     \* id -> keypair in the Keys sheet, or None
  generated,  \* ids whose key rows say origin GENERATED
  admins,     \* ids authorized as admin keys
  pending,    \* id -> keypair in that id's pending file, or None
  (* The run. *)
  pc, dev, liveId, liveKey,
  decision,   \* of plan_node_keypair: none, regenerate, adopt
  recovered,  \* the device holds the pending keypair found for it
  owner,      \* the id that pending keypair is filed under, or None
  keypair,    \* what the run records, or None
  phase, exposed, holds,  \* see ApplyContract
  (* Bookkeeping. *)
  minted,     \* keys made so far, by generate_keypair or by a device
  rowOf,      \* id -> the device its row was made for, or None
  waived,     \* keys an operator asked to replace with --force-regenerate-key
  strayed,    \* devices whose key some step left without a record
  faults

deviceVars == <<id, key, derives, factory>>
dbVars     == <<rows, keyRow, generated, admins, rowOf>>
planVars   == <<dev, liveId, liveKey, decision, recovered, owner>>
applyVars  == <<phase, exposed, holds>>
counters   == <<minted, waived, strayed, faults>>
vars == <<deviceVars, dbVars, pending, pc, planVars, keypair, applyVars, counters>>

Apply == INSTANCE ApplyContract WITH regenerates <- decision = "regenerate"

Init ==
  /\ id = [d \in Devices |-> d] /\ key = BuiltInKey
  /\ derives = {} /\ factory \in SUBSET Devices
  /\ rows = {} /\ keyRow = [i \in Ids |-> None] /\ generated = {}
  /\ admins = AdminIds /\ rowOf = [i \in Ids |-> None]
  /\ pending = [i \in Ids |-> None]
  /\ pc = "idle" /\ dev \in Devices /\ liveId = dev /\ liveKey = BuiltInKey[dev]
  /\ decision = "none" /\ recovered = FALSE /\ owner = None /\ keypair = None
  /\ phase = "running" /\ exposed = FALSE /\ holds = FALSE
  /\ minted = {BuiltInKey[d] : d \in Devices} /\ waived = {} /\ strayed = {} /\ faults = 0

Fault == faults < MaxFaults /\ faults' = faults + 1

-----------------------------------------------------------------------------
(* Reading the device and the database (_gather_plan_inputs, build_plan).  *)

HasRow(d) == id[d] \in rows
Holders(k) == {i \in Ids : keyRow[i] = k}

(* refuse_renumbered: the row of another id, found by the key. *)
Renumbered(d) ==
  /\ id[d] = key[d]
  /\ Cardinality(Holders(key[d]) \ {id[d]}) = 1
  /\ \A i \in Holders(key[d]) \ {id[d]} : i \in rows

(* find_pending_holding and renumbered_pending: a file of another id. *)
HeldElsewhere(d) ==
  IF id[d] = key[d] THEN {i \in Ids : pending[i] = key[d]} ELSE {}

(* _load_pending: the id's own file, else, without a row, one found by key. *)
PendingIds(d) ==
  IF pending[id[d]] # None THEN {id[d]}
  ELSE IF HasRow(d) \/ HeldElsewhere(d) = {} THEN {None} ELSE HeldElsewhere(d)

(* NodeRenumberedError: the row must be moved first (mesh db renumber). *)
MoveFirst(d, o) ==
  \/ ~HasRow(d) /\ Renumbered(d)
  \/ o \in rows \ {id[d]}

CompromisedAnyway(d, isPending) ==
  \/ d \in Weak \ derives
  \/ Holders(key[d]) \ {id[d]} # {}

(* is_host_generated_key, or the pending keypair: spared from the weak-key *)
(* audit's firmware window, not from its duplicate check.                  *)
RecordedAsGenerated(d) == keyRow[id[d]] = key[d] /\ id[d] \in generated
Compromised(d, isPending) ==
  \/ d \in Weak \ derives /\ ~(RecordedAsGenerated(d) \/ isPending)
  \/ Holders(key[d]) \ {id[d]} # {}

(* plan_node_keypair, in the order of its branches. *)
Decide(d, force, looksFactory, isPending) ==
  IF \/ force
     \/ looksFactory /\ ~HasRow(d)
     \/ Compromised(d, isPending)
  THEN "regenerate"
  ELSE IF isPending \/ keyRow[id[d]] # key[d] THEN "adopt" ELSE "none"

(* node_key_admin_refs and the identity check: a key other ids or admin    *)
(* references rest on is neither rotated nor adopted.                      *)
NoAdminRefs(d) == {}
AdminRefs(d) ==
  {i \in admins : keyRow[i] # None /\ keyRow[i] = keyRow[id[d]]}
    \cup (Holders(key[d]) \ (IF keyRow[id[d]] = key[d] THEN Ids ELSE {}))

(* --force-regenerate-key gives up the key the device holds. *)
ForceOrNot(d, force) ==
  IF force THEN Fault /\ waived' = waived \cup {key[d]}
           ELSE UNCHANGED <<waived, faults>>

Gather(d) ==
  /\ pc = "idle"
  /\ \E force \in (IF MayForce THEN BOOLEAN ELSE {FALSE}),
        looksFactory \in BOOLEAN, o \in PendingIds(d) :
       LET isPending == o # None /\ pending[o] = key[d] IN
       /\ looksFactory <=> d \in factory \/ (NamesVanish /\ looksFactory)
       /\ ~MoveFirst(d, o)
       /\ decision' = Decide(d, force, looksFactory, isPending)
       /\ decision' # "none" => AdminRefs(d) = {}
       /\ decision' = "regenerate" => FreshKeys \ minted # {}
       /\ recovered' = isPending /\ owner' = o
       /\ ForceOrNot(d, force)
  /\ pc' = "planned" /\ dev' = d /\ liveId' = id[d] /\ liveKey' = key[d]
  /\ UNCHANGED <<deviceVars, dbVars, pending, keypair, applyVars, minted, strayed>>

-----------------------------------------------------------------------------
(* select_keypair and the write-ahead: before any device write. *)

UseLiveKey ==
  /\ pc = "planned" /\ decision # "regenerate"
  /\ keypair' = (IF decision = "adopt" THEN liveKey ELSE None)
  /\ pc' = "applying"
  /\ UNCHANGED <<deviceVars, dbVars, pending, planVars, applyVars, counters>>

(* The next draw of generate_keypair; which one it is tells nothing apart. *)
NextDraw == CHOOSE k \in FreshKeys \ minted : TRUE

(* The device's key is recorded in the file about to be replaced alone:    *)
(* only a forced run gives it up, and strands the device until its end.    *)
GivesUpKey == pending[liveId] = liveKey /\ keyRow[liveId] # liveKey

(* write_pending replaces whatever the id's file held. *)
WriteAhead ==
  /\ pc = "planned" /\ decision = "regenerate"
  /\ keypair' = NextDraw /\ minted' = minted \cup {NextDraw}
  /\ pending' = [pending EXCEPT ![liveId] = NextDraw]
  /\ strayed' = strayed \cup {d \in {dev} : GivesUpKey}
  /\ pc' = "applying"
  /\ UNCHANGED <<deviceVars, dbVars, planVars, applyVars, waived, faults>>

(* apply_plan, by its contract: the names land, then the key is sent and   *)
(* lands - renumbering a firmware 2.8 device - or not, and the call ends.  *)
ApplyNames ==
  /\ pc = "applying" /\ phase = "running" /\ ~exposed /\ dev \in factory
  /\ factory' = factory \ {dev}
  /\ UNCHANGED <<id, key, derives, dbVars, pending, pc, planVars, keypair,
                 applyVars, counters>>

ApplySend ==
  /\ pc = "applying" /\ decision = "regenerate" /\ ~exposed /\ dev \notin factory
  /\ UNCHANGED planVars
  /\ Apply!Send
  /\ IF holds'
     THEN /\ key' = [key EXCEPT ![dev] = keypair]
          /\ id' = (IF dev \in derives THEN [id EXCEPT ![dev] = keypair] ELSE id)
          /\ UNCHANGED faults
     ELSE UNCHANGED <<id, key>> /\ Fault
  /\ UNCHANGED <<derives, factory, dbVars, pending, pc, keypair, minted, waived, strayed>>

ApplyEnd(p) ==
  /\ pc = "applying" /\ UNCHANGED planVars
  /\ Apply!End(p)
  /\ p = "recorded" => dev \notin factory
  /\ IF p = "recorded" \/ (exposed /\ ~holds) THEN UNCHANGED faults ELSE Fault
  /\ pc' = "ended"
  /\ UNCHANGED <<deviceVars, dbVars, pending, keypair, minted, waived, strayed>>

-----------------------------------------------------------------------------
(* persist_result and what follows it. *)

EndRun ==
  /\ pc' = "idle" /\ keypair' = None
  /\ phase' = "running" /\ exposed' = FALSE /\ holds' = FALSE
  /\ decision' = "none" /\ recovered' = FALSE /\ owner' = None
  /\ UNCHANGED <<dev, liveId, liveKey>>

(* renumber_rows: what is filed under the old id is filed under the new. *)
MoveId(f, old, new) ==
  [f EXCEPT ![new] = f[old], ![old] = IF old = new THEN f[old] ELSE None]

Rename(S, old, new)  == IF old \in S THEN (S \ {old}) \cup {new} ELSE S

(* check_new_id *)
IsFree(new) == new \notin rows /\ keyRow[new] = None

PlanId  == liveId
SavedId == id[dev]

(* node_key_origin: GENERATED, or CAPTURED from the device. *)
OriginGenerated == decision = "regenerate" \/ recovered

(* The row follows a proven renumber, then the keypair and the row are     *)
(* upserted under the id the device now reports.                           *)
Persist ==
  /\ pc = "ended" /\ phase = "recorded"
  /\ SavedId = liveId \/ IsFree(SavedId)
  /\ LET new == SavedId
         keysMoved == MoveId(keyRow, liveId, new)
         genMoved  == Rename(generated, liveId, new) IN
     /\ rows' = Rename(rows, liveId, new) \cup {new}
     /\ rowOf' = [MoveId(rowOf, liveId, new) EXCEPT ![new] = dev]
     /\ admins' = (IF liveId \in rows THEN Rename(admins, liveId, new) ELSE admins)
     /\ IF keypair = None
        THEN keyRow' = keysMoved /\ generated' = genMoved
        ELSE /\ keyRow' = [keysMoved EXCEPT ![new] = keypair]
             /\ generated' = (IF OriginGenerated THEN genMoved \cup {new}
                                                 ELSE genMoved \ {new})
  /\ pc' = "persisted"
  /\ UNCHANGED <<deviceVars, pending, planVars, keypair, applyVars, counters>>

(* AtomicWriteError: the pending file stays. *)
PersistFails ==
  /\ pc = "ended" /\ phase = "recorded"
  /\ Fault /\ EndRun
  /\ UNCHANGED <<deviceVars, dbVars, pending, minted, waived, strayed>>

(* clear_pending under the plan's id, then under the id the recovered file *)
(* was found at.                                                           *)
ClearPending ==
  /\ pc = "persisted"
  /\ pending' = [pending EXCEPT ![liveId] = None]
  /\ pc' = "cleared"
  /\ UNCHANGED <<deviceVars, dbVars, planVars, keypair, applyVars, counters>>

ClearOwnerPending ==
  /\ pc = "cleared"
  /\ pending' = (IF owner = None THEN pending ELSE [pending EXCEPT ![owner] = None])
  /\ EndRun
  /\ UNCHANGED <<deviceVars, dbVars, counters>>

(* Not persisted: the pending keypair goes only if it never left the host. *)
ClearAlways(p) == TRUE
ClearUnsent(p) == p = "unsent"

NotPersisted ==
  /\ pc = "ended" /\ phase # "recorded"
  /\ pending' = (IF decision = "regenerate" /\ ClearUnsent(phase)
                 THEN [pending EXCEPT ![liveId] = None] ELSE pending)
  /\ EndRun
  /\ UNCHANGED <<deviceVars, dbVars, counters>>

-----------------------------------------------------------------------------
(* `mesh db renumber OLD NEW`, run as a refusal tells the operator to: NEW  *)
(* is the id a device now reports.                                         *)

(* check_renumber without --force *)
ProvenByRecordedKey(old, new) == keyRow[old] = new /\ Holders(new) = {old}
Proven(old, new) ==
  \/ pending[old] = new
  \/ keyRow[old] = new /\ Holders(new) = {old}

DbRenumber(old, new) ==
  /\ pc = "idle"
  /\ old \in rows /\ new # old /\ \E d \in Devices : id[d] = new
  /\ IsFree(new) /\ pending[new] = None
  /\ Proven(old, new)
  /\ rows' = Rename(rows, old, new) /\ rowOf' = MoveId(rowOf, old, new)
  /\ admins' = Rename(admins, old, new)
  /\ keyRow' = MoveId(keyRow, old, new) /\ generated' = Rename(generated, old, new)
  /\ IF pending[old] = None
     THEN UNCHANGED <<pc, liveId, owner>>
     ELSE pc' = "moving" /\ liveId' = new /\ owner' = old
  /\ UNCHANGED <<deviceVars, pending, dev, liveKey, decision, recovered, keypair,
                 applyVars, counters>>

(* move_pending, after the save: written under NEW, then cleared under OLD. *)
CopyPending ==
  /\ pc = "moving" /\ pc' = "copied"
  /\ pending' = [pending EXCEPT ![liveId] = pending[owner]]
  /\ UNCHANGED <<deviceVars, dbVars, planVars, keypair, applyVars, counters>>

DropPending ==
  /\ pc = "copied"
  /\ pending' = [pending EXCEPT ![owner] = None]
  /\ EndRun
  /\ UNCHANGED <<deviceVars, dbVars, counters>>

-----------------------------------------------------------------------------
(* A kill, a declined confirmation, a failed write-ahead or pending move:  *)
(* only memory is lost.                                                    *)
Kill ==
  /\ pc # "idle" /\ Fault /\ EndRun
  /\ UNCHANGED <<deviceVars, dbVars, pending, minted, waived, strayed>>

(* Between runs: firmware 2.8 renumbers a device from its key; the owner   *)
(* of an older one gives it a new key of its own.                          *)
Upgrade(d) ==
  /\ pc = "idle" /\ d \notin derives
  /\ derives' = derives \cup {d} /\ id' = [id EXCEPT ![d] = key[d]]
  /\ UNCHANGED <<key, factory, dbVars, pending, pc, planVars, keypair,
                 applyVars, counters>>

SelfRekey(d, k) ==
  /\ pc = "idle" /\ d \notin derives
  /\ k \notin minted /\ minted' = minted \cup {k}
  /\ key' = [key EXCEPT ![d] = k] /\ strayed' = strayed \cup {d}
  /\ UNCHANGED <<id, derives, factory, dbVars, pending, pc, planVars, keypair,
                 applyVars, waived, faults>>

HostStep ==
  \/ UseLiveKey \/ WriteAhead \/ ApplyNames \/ ApplySend
  \/ \E p \in {"unsent", "uncertain", "recorded", "raised"} : ApplyEnd(p)
  \/ Persist \/ PersistFails \/ ClearPending \/ ClearOwnerPending \/ NotPersisted
  \/ CopyPending \/ DropPending

Environment ==
  \E d \in Devices : Upgrade(d) \/ \E k \in DeviceKeys : SelfRekey(d, k)

(* A refused run changes nothing. *)
Refused == pc = "idle" /\ UNCHANGED vars

Next ==
  \/ HostStep \/ Kill \/ Environment \/ Refused
  \/ \E d \in Devices : Gather(d)
  \/ \E old, new \in Ids : DbRenumber(old, new)

Spec == Init /\ [][Next]_vars

(* The host keeps executing, and the operator keeps provisioning every     *)
(* device and running the `mesh db renumber` a refusal names.              *)
FairSpec ==
  /\ Spec /\ WF_vars(HostStep)
  /\ \A d \in Devices : SF_vars(Gather(d))
  /\ SF_vars(\E old, new \in Ids : DbRenumber(old, new))

-----------------------------------------------------------------------------
TypeOK ==
  /\ id \in [Devices -> Ids] /\ key \in [Devices -> Keys]
  /\ derives \subseteq Devices /\ factory \subseteq Devices
  /\ rows \subseteq Ids /\ keyRow \in [Ids -> Keys \cup {None}]
  /\ generated \subseteq Ids /\ admins \subseteq Ids
  /\ pending \in [Ids -> Keys \cup {None}]
  /\ rowOf \in [Ids -> Devices \cup {None}]
  /\ rows = {i \in Ids : rowOf[i] # None}
  /\ pc \in {"idle", "planned", "applying", "ended", "persisted", "cleared",
             "moving", "copied"}
  /\ dev \in Devices /\ liveId \in Ids /\ liveKey \in Keys
  /\ decision \in {"none", "regenerate", "adopt"} /\ recovered \in BOOLEAN
  /\ owner \in Ids \cup {None} /\ keypair \in Keys \cup {None}
  /\ phase \in {"running", "unsent", "uncertain", "recorded", "raised"}
  /\ exposed \in BOOLEAN /\ holds \in BOOLEAN
  /\ minted \subseteq Keys /\ waived \subseteq Keys
  /\ strayed \subseteq Devices /\ faults \in 0..MaxFaults

(* A key this program generated and a device holds is recorded - in the    *)
(* Keys sheet or in a pending file - through every interruption, unless    *)
(* the operator asked to replace it (db/pending_keys.py: "recovers it      *)
(* automatically instead of losing the key").                              *)
Recorded(k) == \E i \in Ids : k \in {keyRow[i], pending[i]}
Custody == \A d \in Devices : key[d] \in FreshKeys \ waived => Recorded(key[d])

(* ... "or spuriously regenerating it again": no run decides to replace a  *)
(* key this program generated unless it was asked to.                      *)
NoSpuriousRegeneration ==
  pc = "planned" /\ decision = "regenerate" => liveKey \notin FreshKeys \ waived

(* Origin GENERATED exempts a key from the weak-firmware audit, so it is   *)
(* never recorded of a key the device made itself.                         *)
GeneratedMeansMinted == \A i \in generated : keyRow[i] \in FreshKeys

(* What a run saved is what the device holds, under the id it reports,     *)
(* also when the write itself renumbered it.                               *)
SavedIsHeld ==
  GeneratedMeansMinted /\ (pc \in {"persisted", "cleared"} =>
    /\ id[dev] \in rows /\ rowOf[id[dev]] = dev
    /\ keyRow[id[dev]] = key[dev])

(* No interruption or renumbering leaves one device with two rows, unless  *)
(* its key was changed by other means, or its one record given up by a     *)
(* forced run.                                                             *)
OneRowPerDevice ==
  \A i, j \in rows : rowOf[i] = rowOf[j] /\ i # j => rowOf[i] \in strayed

(* The rows are of the devices: they have the types of a sheet, a saved    *)
(* one tells the device's own id and key, and no device has two.           *)
RowsAreTrue == TypeOK /\ SavedIsHeld /\ OneRowPerDevice

(* A key that backs an admin reference stays recorded under a reference    *)
(* that rows authorize, and its device keeps it: no flag overrides this.   *)
AdminKeyKept ==
  \A i \in admins : keyRow[i] # None =>
    /\ \E j \in admins' : keyRow'[j] = keyRow[i]
    /\ \A d \in Devices : pc # "idle" /\ key[d] = keyRow[i] => key'[d] = key[d]
AdminKeysSurvive == [][AdminKeyKept]_vars

(* However runs are interrupted and devices renumbered, provisioning again *)
(* and again ends with every device's key recorded under the id it         *)
(* reports, or refused for an admin key: no two refusals wait on another.  *)
Agreed(d)  == HasRow(d) /\ keyRow[id[d]] = key[d]
Converges  == <>[](\A d \in Devices : Agreed(d) \/ AdminRefs(d) # {})
=============================================================================
