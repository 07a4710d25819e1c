--------------------------- MODULE Provision_proofs ---------------------------
(***************************************************************************)
(* Proofs about Provision, for any devices, keys, options and number of    *)
(* faults; about PeerSync, the nodes it tells a device of, for any fleet   *)
(* and anything that a device may hear; about Connecting, how it came to   *)
(* that device, for any options and whatever is plugged in and out; about  *)
(* DevicePlan, what it decides to change of it, for any device, row and    *)
(* template; and about Readback, what it says of it then, for any plan and *)
(* whatever of it the device took.                                         *)
(***************************************************************************)
EXTENDS Provision, DeviceTold, Connecting, SequenceTheorems, FiniteSetTheorems,
        WellFoundedInduction, TLAPS

-----------------------------------------------------------------------------
(* TypeOK.  Rename and MoveId file under one id what was filed under       *)
(* another, so a row and the device it was made for move together.         *)

LEMMA NoneIsNoId ==
  /\ None \notin Ids /\ None \notin Keys /\ None \notin Devices
  /\ Keys \subseteq Ids /\ Devices \subseteq Ids
  /\ FreshKeys \subseteq Keys /\ DeviceKeys \subseteq Keys
BY KeysAssumption DEF Ids, Keys

LEMMA MoveIdIs ==
  ASSUME NEW V, NEW f \in [Ids -> V], None \in V, NEW old \in Ids, NEW new \in Ids
  PROVE  /\ MoveId(f, old, new) \in [Ids -> V]
         /\ MoveId(f, old, new)[new] = f[old]
         /\ old # new => MoveId(f, old, new)[old] = None
         /\ \A i \in Ids : i # old /\ i # new => MoveId(f, old, new)[i] = f[i]
BY DEF MoveId

LEMMA RenameIs ==
  ASSUME NEW S \in SUBSET Ids, NEW old \in Ids, NEW new \in Ids
  PROVE  /\ Rename(S, old, new) \in SUBSET Ids
         /\ old \in S => new \in Rename(S, old, new)
         /\ old \in S /\ old # new => old \notin Rename(S, old, new)
         /\ old \notin S => Rename(S, old, new) = S
         /\ \A i \in Ids : i # old /\ i # new => (i \in Rename(S, old, new) <=> i \in S)
BY DEF Rename

LEMMA NextDrawIs ==
  ASSUME FreshKeys \ minted # {}
  PROVE  NextDraw \in FreshKeys /\ NextDraw \notin minted
BY DEF NextDraw

RunType ==
  /\ decision = "regenerate" => /\ pc = "planned" => FreshKeys \ minted # {}
                                /\ pc = "applying" => keypair \in Keys
  /\ pc \in {"moving", "copied"} => owner \in Ids

LEMMA InitType == Init => TypeOK /\ RunType
<1> SUFFICES ASSUME Init PROVE TypeOK /\ RunType
  OBVIOUS
<1> USE NoneIsNoId, KeysAssumption, BuiltInKeyAssumption, OptionsAssumption DEF Init
<1>1. id \in [Devices -> Ids] /\ key \in [Devices -> Keys]
  BY DEF Ids, Keys
<1>2. keyRow \in [Ids -> Keys \cup {None}] /\ pending \in [Ids -> Keys \cup {None}]
  OBVIOUS
<1>3. rowOf \in [Ids -> Devices \cup {None}] /\ rows = {i \in Ids : rowOf[i] # None}
  OBVIOUS
<1>4. minted \subseteq Keys /\ faults \in 0..MaxFaults
  BY DEF Keys
<1>5. dev \in Devices /\ liveId \in Ids /\ liveKey \in Keys /\ factory \subseteq Devices
  BY DEF Ids, Keys
<1> QED
  BY <1>1, <1>2, <1>3, <1>4, <1>5 DEF TypeOK, RunType

LEMMA RowsMove ==
  ASSUME TypeOK, NEW old \in Ids, NEW new \in Ids, old \in rows \/ old = new
  PROVE  /\ MoveId(rowOf, old, new) \in [Ids -> Devices \cup {None}]
         /\ new \notin rows \ {old} => 
              Rename(rows, old, new) = {i \in Ids : MoveId(rowOf, old, new)[i] # None}
BY NoneIsNoId DEF TypeOK, MoveId, Rename

LEMMA FaultType ==
  ASSUME faults \in 0..MaxFaults, Fault \/ faults' = faults
  PROVE  faults' \in 0..MaxFaults
BY OptionsAssumption DEF Fault

LEMMA TypeStep == TypeOK /\ RunType /\ [Next]_vars => TypeOK' /\ RunType'
<1> SUFFICES ASSUME TypeOK, RunType, [Next]_vars PROVE TypeOK' /\ RunType'
  OBVIOUS
<1> USE DEF TypeOK, RunType, deviceVars, dbVars, planVars, applyVars, counters
<1>0. None \notin Ids /\ Keys \subseteq Ids /\ Devices \subseteq Ids /\ FreshKeys \subseteq Keys
      /\ DeviceKeys \subseteq Keys
  BY NoneIsNoId
<1>1. ASSUME NEW d \in Devices, Gather(d) PROVE TypeOK' /\ RunType'
  <2>1. PICK force \in BOOLEAN, looksFactory \in BOOLEAN, o \in PendingIds(d) :
          /\ decision' = Decide(d, force, looksFactory, o # None /\ pending[o] = key[d])
          /\ decision' = "regenerate" => FreshKeys \ minted # {}
          /\ recovered' = (o # None /\ pending[o] = key[d]) /\ owner' = o
          /\ ForceOrNot(d, force)
    BY <1>1, OptionsAssumption DEF Gather
  <2>2. owner' \in Ids \cup {None}
    BY <2>1 DEF PendingIds, HeldElsewhere
  <2>3. waived' \subseteq Keys /\ faults' \in 0..MaxFaults
    BY <2>1, FaultType DEF ForceOrNot
  <2>4. decision' \in {"none", "regenerate", "adopt"} /\ recovered' \in BOOLEAN
    BY <2>1 DEF Decide
  <2> QED
    BY <1>1, <2>1, <2>2, <2>3, <2>4 DEF Gather
<1>2. CASE UseLiveKey
  BY <1>2 DEF UseLiveKey
<1>3. CASE WriteAhead
  <2>1. NextDraw \in Keys
    BY <1>0, <1>3, NextDrawIs DEF WriteAhead
  <2> QED
    BY <1>3, <2>1 DEF WriteAhead
<1>4. CASE ApplyNames
  BY <1>4 DEF ApplyNames
<1>5. CASE ApplySend
  <2>1. /\ holds' \in BOOLEAN /\ exposed' = TRUE /\ phase' = phase
        /\ faults' \in 0..MaxFaults
    BY <1>5, FaultType DEF ApplySend, Apply!Send
  <2>2. keypair \in Keys \/ ~holds'
    BY <1>5 DEF ApplySend
  <2>3. key' \in [Devices -> Keys] /\ id' \in [Devices -> Ids]
    <3>1. CASE holds'
      BY <1>0, <1>5, <2>2, <3>1 DEF ApplySend
    <3>2. CASE ~holds'
      BY <1>5, <3>2 DEF ApplySend
    <3> QED
      BY <3>1, <3>2
  <2> QED
    BY <1>5, <2>1, <2>3 DEF ApplySend
<1>6. ASSUME NEW p \in {"unsent", "uncertain", "recorded", "raised"}, ApplyEnd(p)
      PROVE  TypeOK' /\ RunType'
  BY <1>6, FaultType DEF ApplyEnd, Apply!End
<1>7. CASE Persist
  <2> DEFINE new == SavedId
  <2>1. new \in Ids /\ new \notin rows \ {liveId}
    BY <1>7 DEF Persist, SavedId, IsFree
  <2>2. rowOf' \in [Ids -> Devices \cup {None}] /\ rows' = {i \in Ids : rowOf'[i] # None}
    BY <1>0, <1>7, <2>1, MoveIdIs DEF Persist, MoveId, Rename
  <2>3. keyRow' \in [Ids -> Keys \cup {None}]
    <3>1. MoveId(keyRow, liveId, new) \in [Ids -> Keys \cup {None}]
      BY <2>1, MoveIdIs
    <3> QED
      BY <1>7, <3>1 DEF Persist
  <2>4. generated' \subseteq Ids /\ admins' \subseteq Ids
    BY <1>7, <2>1, RenameIs DEF Persist
  <2> QED
    BY <1>7, <2>2, <2>3, <2>4 DEF Persist
<1>8. CASE PersistFails \/ Kill
  BY <1>8, FaultType DEF PersistFails, Kill, EndRun
<1>9. CASE ClearPending \/ ClearOwnerPending \/ NotPersisted
  <2>1. pending' \in [Ids -> Keys \cup {None}]
    BY <1>9 DEF ClearPending, ClearOwnerPending, NotPersisted
  <2>2. CASE ClearPending
    BY <2>1, <2>2 DEF ClearPending
  <2>3. CASE ClearOwnerPending
    BY <2>1, <2>3 DEF ClearOwnerPending, EndRun
  <2>4. CASE NotPersisted
    BY <2>1, <2>4 DEF NotPersisted, EndRun
  <2> QED
    BY <1>9, <2>2, <2>3, <2>4
<1>10. CASE CopyPending \/ DropPending
  <2>1. pending' \in [Ids -> Keys \cup {None}]
    BY <1>10 DEF CopyPending, DropPending
  <2>2. CASE CopyPending
    BY <2>1, <2>2 DEF CopyPending
  <2>3. CASE DropPending
    BY <2>1, <2>3 DEF DropPending, EndRun
  <2> QED
    BY <1>10, <2>2, <2>3
<1>11. ASSUME NEW old \in Ids, NEW new \in Ids, DbRenumber(old, new)
       PROVE  TypeOK' /\ RunType'
  <2>1. rowOf' \in [Ids -> Devices \cup {None}] /\ rows' = {i \in Ids : rowOf'[i] # None}
    BY <1>11, RowsMove DEF DbRenumber, IsFree
  <2>2. keyRow' \in [Ids -> Keys \cup {None}]
    BY <1>11, MoveIdIs DEF DbRenumber
  <2>3. generated' \subseteq Ids /\ admins' \subseteq Ids
    BY <1>11, RenameIs DEF DbRenumber
  <2> QED
    BY <1>11, <2>1, <2>2, <2>3 DEF DbRenumber
<1>12. ASSUME NEW d \in Devices, Upgrade(d) PROVE TypeOK' /\ RunType'
  BY <1>0, <1>12 DEF Upgrade
<1>13. ASSUME NEW d \in Devices, NEW k \in DeviceKeys, SelfRekey(d, k)
       PROVE  TypeOK' /\ RunType'
  BY <1>0, <1>13 DEF SelfRekey
<1>14. CASE UNCHANGED vars
  BY <1>14 DEF vars
<1> QED
  BY <1>1, <1>2, <1>3, <1>4, <1>5, <1>6, <1>7, <1>8, <1>9, <1>10, <1>11, <1>12, <1>13, <1>14
     DEF Next, HostStep, Environment, Refused

LEMMA TypeInvariance == Spec => [](TypeOK /\ RunType)
BY InitType, TypeStep, PTL DEF Spec

(* Every variable keeps its type, a database row among them: a row is at   *)
(* an id exactly when it was made for some device.                         *)
THEOREM TypeCorrect == Spec => []TypeOK
BY TypeInvariance, PTL

-----------------------------------------------------------------------------
(* Keys and ids.  Every key in sight was made, and a key serves as an id   *)
(* only once a device of firmware 2.8 reports it.                          *)

InRun   == pc \in {"planned", "applying", "ended", "persisted", "cleared"}
Moving  == pc \in {"moving", "copied"}
Used(i) == pending[i] # None \/ keyRow[i] # None \/ i \in rows
Known   == Devices \cup minted

MintedInv ==
  /\ \A d \in Devices : key[d] \in minted
  /\ \A i \in Ids : /\ keyRow[i] # None => keyRow[i] \in minted
                    /\ pending[i] # None => pending[i] \in minted \cap FreshKeys
                    /\ Used(i) => i \in Known
  /\ keypair # None => keypair \in minted
  /\ decision = "regenerate" /\ pc = "applying" => keypair \in FreshKeys
  /\ pc # "idle" => liveId \in Known
  /\ owner # None => owner \in Known
  /\ waived \subseteq minted
  /\ InRun => liveKey \in minted

IdsInv == \A d \in Devices : id[d] = IF d \in derives THEN key[d] ELSE d

NamesInv == TypeOK /\ RunType /\ MintedInv /\ IdsInv

(* What a step decides and does, stated apart from how.                    *)
LEMMA GatherIs ==
  ASSUME TypeOK, NEW d \in Devices, Gather(d)
  PROVE  /\ pc = "idle" /\ pc' = "planned" /\ dev' = d /\ liveId' = id[d] /\ liveKey' = key[d]
         /\ UNCHANGED <<deviceVars, dbVars, pending, keypair, applyVars, minted, strayed>>
         /\ decision' # "none" => AdminRefs(d) = {}
         /\ decision' = "none" => keyRow[id[d]] = key[d]
         /\ recovered' <=> owner' # None /\ pending[owner'] = key[d]
         /\ owner' \in PendingIds(d) /\ ~MoveFirst(d, owner')
         /\ waived \subseteq waived' /\ waived' \subseteq waived \cup {key[d]}
<1>1. PICK force \in BOOLEAN, looksFactory \in BOOLEAN, o \in PendingIds(d) :
        /\ ~MoveFirst(d, o)
        /\ decision' = Decide(d, force, looksFactory, o # None /\ pending[o] = key[d])
        /\ decision' # "none" => AdminRefs(d) = {}
        /\ recovered' = (o # None /\ pending[o] = key[d]) /\ owner' = o
        /\ ForceOrNot(d, force)
  BY OptionsAssumption DEF Gather
<1>2. decision' = "none" => keyRow[id[d]] = key[d]
  BY <1>1 DEF Decide
<1>3. waived \subseteq waived' /\ waived' \subseteq waived \cup {key[d]}
  BY <1>1 DEF ForceOrNot
<1>4. /\ pc = "idle" /\ pc' = "planned" /\ dev' = d /\ liveId' = id[d] /\ liveKey' = key[d]
      /\ UNCHANGED <<deviceVars, dbVars, pending, keypair, applyVars, minted, strayed>>
  BY DEF Gather
<1> QED
  BY <1>1, <1>2, <1>3, <1>4

LEMMA OwnerIs ==
  ASSUME TypeOK, NEW d \in Devices, NEW o \in PendingIds(d), o # None
  PROVE  /\ o \in Ids /\ pending[o] # None
         /\ o = id[d] \/ pending[o] = key[d]
<1>1. id[d] \in Ids /\ key[d] # None
  BY NoneIsNoId DEF TypeOK
<1>2. CASE pending[id[d]] # None
  BY <1>1, <1>2 DEF PendingIds
<1>3. CASE pending[id[d]] = None
  <2>1. PendingIds(d) \subseteq {None} \cup {i \in Ids : pending[i] = key[d]}
    BY <1>3 DEF PendingIds, HeldElsewhere
  <2> QED
    BY <1>1, <2>1
<1> QED
  BY <1>2, <1>3

LEMMA PersistIs ==
  ASSUME TypeOK, Persist
  PROVE  /\ id[dev] \in Ids /\ (id[dev] = liveId \/ IsFree(id[dev]))
         /\ rowOf'[id[dev]] = dev /\ id[dev] \in rows'
         /\ keyRow'[id[dev]] = IF keypair = None THEN keyRow[liveId] ELSE keypair
         /\ liveId # id[dev] => /\ rowOf'[liveId] = None /\ keyRow'[liveId] = None
                                /\ liveId \notin rows'
         /\ \A i \in Ids : i # liveId /\ i # id[dev] =>
              /\ rowOf'[i] = rowOf[i] /\ keyRow'[i] = keyRow[i]
              /\ i \in rows' <=> i \in rows
         /\ UNCHANGED <<deviceVars, pending, planVars, keypair, applyVars, counters>>
<1> DEFINE new == id[dev]
<1> USE DEF TypeOK
<1>1. new \in Ids /\ liveId \in Ids /\ (new = liveId \/ IsFree(new))
  BY DEF Persist, SavedId
<1>2. /\ rowOf' = [MoveId(rowOf, liveId, new) EXCEPT ![new] = dev]
      /\ rows' = Rename(rows, liveId, new) \cup {new}
      /\ keyRow' = IF keypair = None THEN MoveId(keyRow, liveId, new)
                   ELSE [MoveId(keyRow, liveId, new) EXCEPT ![new] = keypair]
  BY DEF Persist, SavedId
<1>3. UNCHANGED <<deviceVars, pending, planVars, keypair, applyVars, counters>>
  BY DEF Persist
<1>4. /\ MoveId(rowOf, liveId, new) \in [Ids -> Devices \cup {None}]
      /\ MoveId(keyRow, liveId, new) \in [Ids -> Keys \cup {None}]
  BY <1>1, MoveIdIs
<1> HIDE DEF new
<1>5. /\ rowOf'[new] = dev /\ new \in rows'
      /\ keyRow'[new] = IF keypair = None THEN keyRow[liveId] ELSE keypair
  BY <1>1, <1>2, <1>4 DEF MoveId
<1>6. liveId # new => rowOf'[liveId] = None /\ keyRow'[liveId] = None /\ liveId \notin rows'
  BY <1>1, <1>2, <1>4 DEF MoveId, Rename
<1>7. \A i \in Ids : i # liveId /\ i # new =>
        /\ rowOf'[i] = rowOf[i] /\ keyRow'[i] = keyRow[i]
        /\ i \in rows' <=> i \in rows
  BY <1>1, <1>2, <1>4 DEF MoveId, Rename
<1> QED
  BY <1>1, <1>3, <1>5, <1>6, <1>7 DEF new

LEMMA RenumberIs ==
  ASSUME TypeOK, NEW old \in Ids, NEW new \in Ids, DbRenumber(old, new)
  PROVE  /\ rowOf'[new] = rowOf[old] /\ keyRow'[new] = keyRow[old] /\ new \in rows'
         /\ rowOf'[old] = None /\ keyRow'[old] = None /\ old \notin rows'
         /\ \A i \in Ids : i # old /\ i # new =>
              /\ rowOf'[i] = rowOf[i] /\ keyRow'[i] = keyRow[i]
              /\ i \in rows' <=> i \in rows
         /\ UNCHANGED <<deviceVars, pending, dev, liveKey, decision, recovered, keypair,
                        applyVars, counters>>
<1> USE DEF TypeOK
<1>1. /\ rowOf' = MoveId(rowOf, old, new) /\ rows' = Rename(rows, old, new)
      /\ keyRow' = MoveId(keyRow, old, new) /\ old \in rows /\ new # old
  BY DEF DbRenumber
<1>2. UNCHANGED <<deviceVars, pending, dev, liveKey, decision, recovered, keypair,
                  applyVars, counters>>
  BY DEF DbRenumber
<1> QED
  BY <1>1, <1>2 DEF MoveId, Rename

LEMMA NamesStep == NamesInv /\ TypeOK' /\ RunType' /\ [Next]_vars => NamesInv'
<1> SUFFICES ASSUME NamesInv, TypeOK', RunType', [Next]_vars PROVE MintedInv' /\ IdsInv'
  BY DEF NamesInv
<1> USE DEF NamesInv, TypeOK, InRun, Known
<1> USE DEF deviceVars, dbVars, planVars, applyVars, counters
<1>0. None \notin Ids /\ Keys \subseteq Ids /\ Devices \subseteq Ids /\ FreshKeys \subseteq Keys
      /\ None \notin minted /\ None \notin Known /\ None \notin Keys
  BY NoneIsNoId
<1>a. \A d \in Devices : id[d] \in Known
  BY DEF IdsInv, MintedInv
<1>1. ASSUME NEW d \in Devices, Gather(d) PROVE MintedInv' /\ IdsInv'
  <2>1. /\ pc' = "planned" /\ liveId' = id[d] /\ liveKey' = key[d]
        /\ UNCHANGED <<deviceVars, dbVars, pending, keypair, minted>>
        /\ waived' \subseteq waived \cup {key[d]}
    BY <1>1, GatherIs
  <2>2. owner' # None => owner' \in Known
    BY <1>0, <1>1, GatherIs, OwnerIs DEF MintedInv, Used
  <2> QED
    BY <1>a, <2>1, <2>2 DEF MintedInv, IdsInv, Used
<1>2. CASE UseLiveKey
  BY <1>2 DEF UseLiveKey, MintedInv, IdsInv, Used
<1>3. CASE WriteAhead
  <2>1. /\ NextDraw \in FreshKeys /\ minted' = minted \cup {NextDraw} /\ keypair' = NextDraw
        /\ pending' = [pending EXCEPT ![liveId] = NextDraw]
        /\ pc' = "applying" /\ liveId \in Known
        /\ UNCHANGED <<deviceVars, dbVars, planVars, waived>>
    BY <1>3, NextDrawIs DEF WriteAhead, RunType, MintedInv
  <2>2. \A i \in Ids : /\ pending'[i] # None => pending'[i] \in minted' \cap FreshKeys
                       /\ Used(i)' => i \in Known'
    BY <2>1 DEF MintedInv, Used
  <2>3. /\ \A d \in Devices : key'[d] \in minted'
        /\ \A i \in Ids : keyRow'[i] # None => keyRow'[i] \in minted'
        /\ liveKey' \in minted' /\ liveId' \in Known' /\ keypair' \in minted'
        /\ waived' \subseteq minted' /\ (owner' # None => owner' \in Known')
    BY <1>3, <2>1 DEF MintedInv, WriteAhead
  <2> QED
    BY <2>1, <2>2, <2>3 DEF MintedInv, IdsInv
<1>4. CASE ApplyNames
  BY <1>4 DEF ApplyNames, MintedInv, IdsInv, Used
<1>5. CASE ApplySend
  <2>1. /\ pc = "applying" /\ decision = "regenerate" /\ keypair \in minted
        /\ UNCHANGED <<derives, dbVars, pending, pc, keypair, minted, planVars, waived>>
    BY <1>0, <1>5 DEF ApplySend, MintedInv
  <2>2. CASE holds'
    BY <1>5, <2>1, <2>2 DEF ApplySend, MintedInv, IdsInv, Used
  <2>3. CASE ~holds'
    BY <1>5, <2>1, <2>3 DEF ApplySend, MintedInv, IdsInv, Used
  <2> QED
    BY <2>2, <2>3
<1>6. ASSUME NEW p \in {"unsent", "uncertain", "recorded", "raised"}, ApplyEnd(p)
      PROVE  MintedInv' /\ IdsInv'
  BY <1>6 DEF ApplyEnd, Apply!End, MintedInv, IdsInv, Used
<1>7. CASE Persist
  <2>1. /\ id[dev] \in Known /\ liveId \in Known /\ keypair \in minted \cup {None}
        /\ pc' = "persisted" /\ pc = "ended"
    BY <1>7, <1>a DEF Persist, MintedInv
  <2>2. UNCHANGED <<deviceVars, pending, planVars, keypair, minted, waived>>
    BY <1>7, PersistIs
  <2>3. \A i \in Ids : /\ keyRow'[i] # None => keyRow'[i] \in minted
                       /\ Used(i)' => i \in Known
    BY <1>7, <2>1, <2>2, PersistIs DEF MintedInv, Used
  <2>4. /\ \A d \in Devices : key'[d] \in minted'
        /\ \A i \in Ids : pending'[i] # None => pending'[i] \in minted' \cap FreshKeys
        /\ keypair' # None => keypair' \in minted'
        /\ liveKey' \in minted' /\ liveId' \in Known' /\ waived' \subseteq minted'
        /\ owner' # None => owner' \in Known'
    BY <2>1, <2>2 DEF MintedInv
  <2> QED
    BY <2>1, <2>2, <2>3, <2>4 DEF MintedInv, IdsInv
<1>8. CASE PersistFails \/ Kill
  BY <1>8 DEF PersistFails, Kill, EndRun, MintedInv, IdsInv, Used
<1>9. CASE ClearPending \/ ClearOwnerPending \/ NotPersisted \/ DropPending
  <2>1. /\ \A i \in Ids : pending'[i] \in {pending[i], None}
        /\ keypair' \in {keypair, None} /\ pc' \in {"idle", "cleared"}
        /\ UNCHANGED <<deviceVars, dbVars, minted, waived, liveId, liveKey>>
        /\ owner' \in {owner, None}
        /\ pc' = "cleared" => pc = "persisted"
    BY <1>9 DEF ClearPending, ClearOwnerPending, NotPersisted, DropPending, EndRun
  <2> QED
    BY <2>1 DEF MintedInv, IdsInv, Used
<1>10. CASE CopyPending
  <2>1. /\ \A i \in Ids : pending'[i] = IF i = liveId THEN pending[owner] ELSE pending[i]
        /\ pc = "moving" /\ pc' = "copied" /\ owner \in Ids
        /\ UNCHANGED <<deviceVars, dbVars, minted, waived, liveId, liveKey, owner, keypair>>
    BY <1>10 DEF CopyPending, RunType
  <2> QED
    BY <2>1 DEF MintedInv, IdsInv, Used
<1>11. ASSUME NEW old \in Ids, NEW new \in Ids, DbRenumber(old, new)
       PROVE  MintedInv' /\ IdsInv'
  <2>1. /\ new \in Known /\ old \in Known
        /\ pc' \in {"idle", "moving"}
        /\ pc' = "moving" => liveId' = new
        /\ owner' \in {owner, old}
    BY <1>11, <1>a DEF DbRenumber, MintedInv, Used
  <2>2. UNCHANGED <<deviceVars, pending, keypair, minted, waived>>
    BY <1>11, RenumberIs
  <2>3. \A i \in Ids : /\ keyRow'[i] # None => keyRow'[i] \in minted
                       /\ Used(i)' => i \in Known
    BY <1>11, <2>1, <2>2, RenumberIs DEF MintedInv, Used
  <2> QED
    BY <2>1, <2>2, <2>3 DEF MintedInv, IdsInv
<1>12. ASSUME NEW d \in Devices, Upgrade(d) PROVE MintedInv' /\ IdsInv'
  BY <1>12 DEF Upgrade, MintedInv, IdsInv, Used
<1>13. ASSUME NEW d \in Devices, NEW k \in DeviceKeys, SelfRekey(d, k)
       PROVE  MintedInv' /\ IdsInv'
  BY <1>13 DEF SelfRekey, MintedInv, IdsInv, Used
<1>14. CASE UNCHANGED vars
  BY <1>14 DEF vars, MintedInv, IdsInv, Used
<1> QED
  BY <1>1, <1>2, <1>3, <1>4, <1>5, <1>6, <1>7, <1>8, <1>9, <1>10, <1>11, <1>12, <1>13, <1>14
     DEF Next, HostStep, Environment, Refused

LEMMA NamesInvariance == Spec => []NamesInv
<1>1. Init => MintedInv /\ IdsInv
  <2> SUFFICES ASSUME Init PROVE MintedInv /\ IdsInv
    OBVIOUS
  <2>1. \A i \in Ids : keyRow[i] = None /\ pending[i] = None /\ i \notin rows
    BY DEF Init
  <2> QED
    BY <2>1 DEF Init, MintedInv, IdsInv, Used, InRun
<1>2. TypeOK /\ RunType /\ MintedInv /\ IdsInv <=> NamesInv
  BY DEF NamesInv
<1> QED
  BY <1>1, <1>2, NamesStep, TypeInvariance, PTL DEF Spec

-----------------------------------------------------------------------------
(* The run.  What it decided from what it read stays true of the database  *)
(* and the device until it is saved; the key it made is nobody's but the   *)
(* device's, and is in the pending file it is recovered from.              *)

Untouched == phase = "running" /\ ~exposed /\ ~holds /\ keypair = None

(* AdminRefs(dev) = {}, as _gather_plan_inputs found it. *)
NoRefs ==
  /\ \A i \in admins : keyRow[i] # None => keyRow[i] # keyRow[liveId]
  /\ keyRow[liveId] # liveKey => \A i \in Ids : keyRow[i] # liveKey

DeviceAsRead  == key[dev] = liveKey /\ id[dev] = liveId
DeviceIsGiven == key[dev] = keypair /\ decision = "regenerate"

NewKeyIsNew ==
  /\ keypair \in FreshKeys \ waived /\ keypair # liveKey /\ ~Used(keypair)
  /\ pending[liveId] = keypair
  /\ \A i \in Ids : keyRow[i] # keypair /\ (pending[i] = keypair => i = liveId)

SavedRow ==
  id[dev] \in rows /\ rowOf[id[dev]] = dev /\ keyRow[id[dev]] = key[dev]

RunInv ==
  /\ pc \in {"idle", "planned", "moving", "copied"} => Untouched
  /\ pc \in {"planned", "applying", "ended"} =>
       /\ IF holds THEN DeviceIsGiven ELSE DeviceAsRead
       /\ ~exposed => ~holds
       /\ IF decision = "none" THEN keyRow[liveId] = liveKey ELSE NoRefs
       /\ recovered => liveKey \in FreshKeys
  /\ pc \in {"applying", "ended"} =>
       /\ decision = "none" => keypair = None
       /\ decision = "adopt" => keypair = liveKey
       /\ decision = "regenerate" => NewKeyIsNew
  /\ pc = "ended" =>
       /\ phase = "unsent" => ~exposed
       /\ phase = "recorded" => (decision = "regenerate" <=> holds)
  /\ pc \in {"persisted", "cleared"} => SavedRow
  /\ Moving => owner # liveId
  /\ pc = "moving" => pending[liveId] = None
  /\ pc = "copied" => pending[liveId] = pending[owner]

LEMMA RunStep == NamesInv /\ RunInv /\ TypeOK' /\ [Next]_vars => RunInv'
<1> SUFFICES ASSUME NamesInv, RunInv, TypeOK', [Next]_vars PROVE RunInv'
  OBVIOUS
<1> USE DEF NamesInv, TypeOK, Moving
<1> USE DEF deviceVars, dbVars, planVars, applyVars, counters
<1>0. /\ None \notin Ids /\ Keys \subseteq Ids /\ Devices \subseteq Ids
      /\ FreshKeys \subseteq Keys /\ None \notin Keys
  BY NoneIsNoId
<1>1. ASSUME NEW d \in Devices, Gather(d) PROVE RunInv'
  <2>1. /\ pc = "idle" /\ pc' = "planned" /\ dev' = d /\ liveId' = id[d] /\ liveKey' = key[d]
        /\ UNCHANGED <<deviceVars, dbVars, pending, keypair, applyVars, minted, strayed>>
        /\ decision' # "none" => AdminRefs(d) = {}
        /\ decision' = "none" => keyRow[id[d]] = key[d]
        /\ recovered' <=> owner' # None /\ pending[owner'] = key[d]
        /\ owner' \in Ids \cup {None}
    BY <1>1, GatherIs
  <2>2. recovered' => key[d] \in FreshKeys
    BY <1>0, <2>1 DEF MintedInv
  <2>3. decision' # "none" => NoRefs'
    BY <2>1 DEF AdminRefs, NoRefs, Holders
  <2> QED
    BY <2>1, <2>2, <2>3 DEF RunInv, Untouched, DeviceAsRead
<1>2. CASE UseLiveKey
  <2>1. /\ pc = "planned" /\ pc' = "applying" /\ decision # "regenerate"
        /\ keypair' = IF decision = "adopt" THEN liveKey ELSE None
        /\ UNCHANGED <<deviceVars, dbVars, pending, planVars, applyVars, counters>>
    BY <1>2 DEF UseLiveKey
  <2> QED
    BY <2>1 DEF RunInv, Untouched, DeviceAsRead, NoRefs
<1>3. CASE WriteAhead
  <2>1. /\ pc = "planned" /\ pc' = "applying" /\ decision = "regenerate"
        /\ NextDraw \in FreshKeys /\ NextDraw \notin minted /\ keypair' = NextDraw
        /\ pending' = [pending EXCEPT ![liveId] = NextDraw]
        /\ UNCHANGED <<deviceVars, dbVars, planVars, applyVars, waived>>
    BY <1>3, NextDrawIs DEF WriteAhead, RunType
  <2>2. /\ liveKey \in minted /\ waived \subseteq minted /\ liveId # NextDraw
        /\ \A i \in Ids : pending[i] # NextDraw /\ keyRow[i] # NextDraw
        /\ ~Used(NextDraw) /\ NextDraw \in Ids
    <3>1. NextDraw \in Ids /\ NextDraw \notin Known /\ NextDraw # None
      BY <1>0, <2>1, KeysAssumption DEF Known, Keys
    <3> QED
      BY <2>1, <3>1 DEF MintedInv, InRun
  <2>3. NewKeyIsNew'
    BY <1>0, <2>1, <2>2 DEF NewKeyIsNew, Used
  <2> QED
    BY <2>1, <2>3 DEF RunInv, Untouched, DeviceAsRead, NoRefs
<1>4. CASE ApplyNames
  BY <1>4 DEF ApplyNames, RunInv, Untouched, DeviceAsRead, DeviceIsGiven, NoRefs, NewKeyIsNew, Used
<1>5. CASE ApplySend
  <2>1. /\ pc = "applying" /\ pc' = pc /\ exposed' = TRUE /\ holds' \in {holds, TRUE}
        /\ phase' = phase /\ decision = "regenerate" /\ ~exposed /\ keypair \in Keys
        /\ UNCHANGED <<derives, dbVars, pending, keypair, minted, waived, planVars>>
    BY <1>5 DEF ApplySend, Apply!Send, RunType
  <2>2. IF holds' THEN DeviceIsGiven' ELSE DeviceAsRead'
    <3>1. CASE holds'
      BY <1>5, <2>1, <3>1 DEF ApplySend, DeviceIsGiven
    <3>2. CASE ~holds'
      BY <1>5, <2>1, <3>2 DEF ApplySend, RunInv, DeviceAsRead
    <3> QED
      BY <3>1, <3>2
  <2>3. NoRefs' /\ NewKeyIsNew'
    BY <2>1 DEF RunInv, NoRefs, NewKeyIsNew, Used
  <2> QED
    BY <2>1, <2>2, <2>3 DEF RunInv
<1>6. ASSUME NEW p \in {"unsent", "uncertain", "recorded", "raised"}, ApplyEnd(p)
      PROVE  RunInv'
  <2>1. /\ pc = "applying" /\ pc' = "ended" /\ phase' = p
        /\ p = "unsent" => ~exposed
        /\ p = "recorded" => (decision = "regenerate") = holds
        /\ UNCHANGED <<deviceVars, dbVars, pending, planVars, keypair, exposed, holds, minted, waived>>
    BY <1>6 DEF ApplyEnd, Apply!End
  <2> QED
    BY <2>1 DEF RunInv, DeviceAsRead, DeviceIsGiven, NoRefs, NewKeyIsNew, Used
<1>7. CASE Persist
  <2>1. /\ pc = "ended" /\ pc' = "persisted" /\ phase = "recorded"
        /\ UNCHANGED <<deviceVars, dev>>
    BY <1>7 DEF Persist
  <2>2. keyRow'[id[dev]] = key[dev]
    <3>1. keyRow'[id[dev]] = IF keypair = None THEN keyRow[liveId] ELSE keypair
      BY <1>7, PersistIs
    <3>2. CASE decision = "regenerate"
      BY <1>0, <2>1, <3>1, <3>2 DEF RunInv, DeviceIsGiven, NewKeyIsNew
    <3>3. CASE decision # "regenerate"
      BY <1>0, <2>1, <3>1, <3>3 DEF RunInv, DeviceAsRead
    <3> QED
      BY <3>2, <3>3
  <2>3. SavedRow'
    BY <1>7, <2>1, <2>2, PersistIs DEF SavedRow
  <2> QED
    BY <2>1, <2>3 DEF RunInv
<1>8. ASSUME EndRun PROVE RunInv'
  BY <1>8 DEF EndRun, RunInv, Untouched
<1>9. CASE PersistFails \/ Kill \/ ClearOwnerPending \/ NotPersisted \/ DropPending
  BY <1>8, <1>9 DEF PersistFails, Kill, ClearOwnerPending, NotPersisted, DropPending
<1>10. CASE ClearPending
  BY <1>10 DEF ClearPending, RunInv, SavedRow
<1>11. CASE CopyPending
  BY <1>11 DEF CopyPending, RunInv, Untouched, RunType
<1>12. ASSUME NEW old \in Ids, NEW new \in Ids, DbRenumber(old, new) PROVE RunInv'
  <2>1. /\ pc = "idle" /\ UNCHANGED <<keypair, applyVars, pending>> /\ pending[new] = None
        /\ \/ pc' = "idle"
           \/ pc' = "moving" /\ liveId' = new /\ owner' = old /\ new # old
    BY <1>12 DEF DbRenumber
  <2> QED
    BY <2>1 DEF RunInv, Untouched
<1>13. ASSUME pc = "idle", pc' = "idle", UNCHANGED <<keypair, applyVars>> PROVE RunInv'
  BY <1>13 DEF RunInv, Untouched
<1>14. ASSUME NEW d \in Devices, Upgrade(d) \/ \E k \in DeviceKeys : SelfRekey(d, k)
       PROVE  RunInv'
  BY <1>13, <1>14 DEF Upgrade, SelfRekey
<1>15. CASE UNCHANGED vars
  BY <1>15 DEF vars, RunInv, Untouched, DeviceAsRead, DeviceIsGiven, NoRefs, NewKeyIsNew, SavedRow,
    Used
<1> QED
  BY <1>1, <1>2, <1>3, <1>4, <1>5, <1>6, <1>7, <1>9, <1>10, <1>11, <1>12, <1>14, <1>15
     DEF Next, HostStep, Environment, Refused

RunsInv == NamesInv /\ RunInv

LEMMA RunsInvariance == Spec => []RunsInv
<1>1. Init => RunInv
  BY DEF Init, RunInv, Untouched, Moving
<1>2. NamesInv /\ RunInv <=> RunsInv
  BY DEF RunsInv
<1> QED
  BY <1>1, <1>2, RunStep, NamesInvariance, TypeCorrect, PTL DEF Spec

-----------------------------------------------------------------------------
(* Admin keys.  A run that keeps or replaces a key has found no admin      *)
(* reference resting on the node's recorded key, nor another row on the    *)
(* key it holds, and both stay so until it saves.                          *)

LEMMA AdminKeyStep == RunsInv /\ [Next]_vars => AdminKeyKept
<1> SUFFICES ASSUME RunsInv, [Next]_vars, NEW i \in admins, keyRow[i] # None
             PROVE  /\ \E j \in admins' : keyRow'[j] = keyRow[i]
                    /\ \A d \in Devices : pc # "idle" /\ key[d] = keyRow[i] => key'[d] = key[d]
  BY DEF AdminKeyKept
<1> USE DEF RunsInv, NamesInv, TypeOK
<1> USE DEF deviceVars, dbVars, planVars, applyVars, counters
<1>1. ASSUME admins' = admins, keyRow' = keyRow, pc # "idle" => key' = key
      PROVE  /\ \E j \in admins' : keyRow'[j] = keyRow[i]
             /\ \A d \in Devices : pc # "idle" /\ key[d] = keyRow[i] => key'[d] = key[d]
  BY <1>1
<1>2. CASE ApplySend
  <2>1. /\ admins' = admins /\ keyRow' = keyRow /\ pc = "applying" /\ ~exposed
        /\ decision = "regenerate"
        /\ key' = key \/ key' = [key EXCEPT ![dev] = keypair]
    BY <1>2 DEF ApplySend
  <2>2. key[dev] # keyRow[i]
    <3>1. key[dev] = liveKey /\ NoRefs
      BY <2>1 DEF RunInv, DeviceAsRead
    <3> QED
      BY <3>1 DEF NoRefs
  <2> QED
    BY <2>1, <2>2
<1>3. CASE Persist
  <2>1. /\ pc = "ended" /\ key' = key /\ liveId \in Ids /\ id[dev] \in Ids
        /\ admins' = IF liveId \in rows THEN Rename(admins, liveId, id[dev]) ELSE admins
        /\ phase = "recorded"
    BY <1>3 DEF Persist, SavedId
  <2>2. CASE decision = "none"
    <3>1. keypair = None /\ id[dev] = liveId
      BY <2>1, <2>2 DEF RunInv, DeviceAsRead, DeviceIsGiven
    <3> QED
      BY <1>3, <2>1, <3>1, PersistIs DEF Rename
  <2>3. CASE decision # "none"
    <3>1. i # liveId
      BY <2>1, <2>3 DEF RunInv, NoRefs
    <3>2. i # id[dev]
      BY <1>3, <3>1, PersistIs DEF IsFree
    <3> QED
      BY <1>3, <2>1, <3>1, <3>2, PersistIs DEF Rename
  <2> QED
    BY <2>2, <2>3
<1>4. ASSUME NEW old \in Ids, NEW new \in Ids, DbRenumber(old, new)
      PROVE  \E j \in admins' : keyRow'[j] = keyRow[i]
  <2>1. admins' = Rename(admins, old, new) /\ i # new
    BY <1>4 DEF DbRenumber, IsFree
  <2>2. CASE i = old
    BY <1>4, <2>1, <2>2, RenumberIs DEF Rename
  <2>3. CASE i # old
    BY <1>4, <2>1, <2>3, RenumberIs DEF Rename
  <2> QED
    BY <2>2, <2>3
<1>5. ASSUME NEW old \in Ids, NEW new \in Ids, DbRenumber(old, new) PROVE pc = "idle"
  BY <1>5 DEF DbRenumber
<1>6. ASSUME NEW d \in Devices, Gather(d) \/ Upgrade(d) \/ \E k \in DeviceKeys : SelfRekey(d, k)
      PROVE  admins' = admins /\ keyRow' = keyRow /\ pc = "idle"
  BY <1>6 DEF Gather, Upgrade, SelfRekey
<1>7. CASE \/ UseLiveKey \/ WriteAhead \/ ApplyNames
           \/ \E p \in {"unsent", "uncertain", "recorded", "raised"} : ApplyEnd(p)
           \/ PersistFails \/ ClearPending \/ ClearOwnerPending \/ NotPersisted
           \/ CopyPending \/ DropPending \/ Kill \/ UNCHANGED vars
  BY <1>1, <1>7
     DEF UseLiveKey, WriteAhead, ApplyNames, ApplyEnd, PersistFails, ClearPending,
         ClearOwnerPending, NotPersisted, CopyPending, DropPending, Kill, vars
<1> QED
  BY <1>1, <1>2, <1>3, <1>4, <1>5, <1>6, <1>7 DEF Next, HostStep, Environment, Refused

(* No step leaves an admin reference without the key recorded under it, or *)
(* replaces that key on a device a run works on, forced or not             *)
(* (provisioning/compute.py refuses both).                                 *)
THEOREM AdminKeysAreKept == Spec => AdminKeysSurvive
BY AdminKeyStep, RunsInvariance, PTL DEF Spec, AdminKeysSurvive

-----------------------------------------------------------------------------
(* No key is recorded under two ids. *)

OneHolder == \A i, j \in Ids : keyRow[i] = keyRow[j] /\ keyRow[i] # None => i = j

LEMMA HolderStep == RunsInv /\ OneHolder /\ [Next]_vars => OneHolder'
<1> SUFFICES ASSUME RunsInv, OneHolder, [Next]_vars PROVE OneHolder'
  OBVIOUS
<1> USE DEF RunsInv, NamesInv, TypeOK
<1> USE DEF deviceVars, dbVars, planVars, applyVars, counters
<1>1. CASE keyRow' = keyRow
  BY <1>1 DEF OneHolder
<1>2. CASE Persist
  <2> DEFINE saved == IF keypair = None THEN keyRow[liveId] ELSE keypair
  <2>1. pc = "ended"
    BY <1>2 DEF Persist
  <2>2. saved # None => \A i \in Ids : keyRow[i] = saved => i = liveId
    <3>1. CASE decision = "none"
      BY <2>1, <3>1 DEF RunInv, OneHolder
    <3>2. CASE decision = "adopt"
      BY <2>1, <3>2 DEF RunInv, NoRefs, OneHolder
    <3>3. CASE decision = "regenerate"
      BY <2>1, <3>3, NoneIsNoId DEF RunInv, NewKeyIsNew
    <3> QED
      BY <3>1, <3>2, <3>3
  <2>3. /\ keyRow'[id[dev]] = saved
        /\ liveId # id[dev] => keyRow'[liveId] = None
        /\ \A i \in Ids : i # liveId /\ i # id[dev] => keyRow'[i] = keyRow[i]
    BY <1>2, PersistIs
  <2> HIDE DEF saved
  <2> QED
    BY <2>2, <2>3 DEF OneHolder
<1>3. ASSUME NEW old \in Ids, NEW new \in Ids, DbRenumber(old, new) PROVE OneHolder'
  <2>1. /\ keyRow'[new] = keyRow[old] /\ keyRow'[old] = None
        /\ \A i \in Ids : i # old /\ i # new => keyRow'[i] = keyRow[i]
    BY <1>3, RenumberIs
  <2> QED
    BY <2>1 DEF OneHolder
<1>4. Persist \/ (\E old, new \in Ids : DbRenumber(old, new)) \/ keyRow' = keyRow
  BY DEF Next, HostStep, Environment, Refused, Gather, Upgrade, SelfRekey, UseLiveKey, WriteAhead,
    ApplyNames, ApplySend, ApplyEnd, PersistFails, ClearPending, ClearOwnerPending, NotPersisted,
    CopyPending, DropPending, Kill, vars
<1> QED
  BY <1>1, <1>2, <1>3, <1>4

LEMMA HolderInvariance == Spec => [](RunsInv /\ OneHolder)
<1>1. Init => OneHolder
  BY DEF Init, OneHolder
<1> QED
  BY <1>1, HolderStep, RunsInvariance, PTL DEF Spec

-----------------------------------------------------------------------------
(* Whose is what.  Every key is some device's own: the device holds it, or *)
(* held it, or is about to.  An id is the device's that was built with it  *)
(* or derived it from a key of its own, and all that is filed under an id  *)
(* is of the id's device.                                                  *)

OwnerOf(own, i) == IF i \in Devices THEN i ELSE own[i]

FiledIsOwn(own) ==
  \A i \in Ids : /\ keyRow[i] # None => own[keyRow[i]] = OwnerOf(own, i)
                 /\ pending[i] # None => own[pending[i]] = OwnerOf(own, i)
                 /\ i \in rows => rowOf[i] = OwnerOf(own, i)

ReportedId(own) ==
  \A i \in Keys : Used(i) \/ (pc # "idle" /\ i = liveId) => own[i] \in derives

RunIsOf(own) ==
  /\ OwnerOf(own, liveId) = dev /\ own[liveKey] = dev
  /\ keypair # None => own[keypair] = dev
  /\ owner # None => OwnerOf(own, owner) = dev

(* The rows are already at the new id when a move of its file begins. *)
MoveIsOf(own) ==
  /\ OwnerOf(own, liveId) = OwnerOf(own, owner)
  /\ liveId \in rows \cap Keys /\ \E d \in Devices : id[d] = liveId

Affinity(own) ==
  /\ \A d \in Devices : own[key[d]] = d
  /\ FiledIsOwn(own) /\ ReportedId(own)
  /\ InRun => RunIsOf(own)
  /\ Moving => MoveIsOf(own)

HasAffinity == \E own \in [Keys -> Devices] : Affinity(own)

LEMMA OwnIds ==
  ASSUME RunsInv, NEW own \in [Keys -> Devices], Affinity(own), NEW d \in Devices
  PROVE  /\ OwnerOf(own, id[d]) = d /\ id[d] \in Ids
         /\ id[d] \in Keys => d \in derives
<1>1. id[d] = (IF d \in derives THEN key[d] ELSE d) /\ key[d] \in Keys /\ own[key[d]] = d
  BY DEF RunsInv, NamesInv, TypeOK, IdsInv, Affinity
<1> QED
  BY <1>1, KeysAssumption, NoneIsNoId DEF OwnerOf

(* A key not made yet may become any device's. *)
LEMMA OwnExtends ==
  ASSUME RunsInv, NEW own \in [Keys -> Devices], Affinity(own),
         NEW k \in Keys, k \notin minted, NEW e \in Devices
  PROVE  Affinity([own EXCEPT ![k] = e])
<1> DEFINE new == [own EXCEPT ![k] = e]
<1> USE DEF RunsInv, NamesInv, TypeOK
<1>0. /\ k \notin Known /\ k \notin Devices
      /\ \A j \in Keys : j # k => new[j] = own[j]
      /\ \A i \in Known : OwnerOf(new, i) = OwnerOf(own, i)
  <2>1. k \notin Devices /\ Known \subseteq Devices \cup Keys
    BY KeysAssumption DEF Known
  <2> QED
    BY <2>1 DEF OwnerOf, Known
<1> HIDE DEF new
<1>1. \A d \in Devices : new[key[d]] = d
  BY <1>0 DEF MintedInv, Affinity
<1>2. FiledIsOwn(new)
  <2> SUFFICES ASSUME NEW i \in Ids
               PROVE  /\ keyRow[i] # None => new[keyRow[i]] = OwnerOf(new, i)
                      /\ pending[i] # None => new[pending[i]] = OwnerOf(new, i)
                      /\ i \in rows => rowOf[i] = OwnerOf(new, i)
    BY DEF FiledIsOwn
  <2>1. Used(i) => OwnerOf(new, i) = OwnerOf(own, i)
    BY <1>0 DEF MintedInv
  <2>2. /\ keyRow[i] # None => keyRow[i] # k /\ keyRow[i] \in Keys
        /\ pending[i] # None => pending[i] # k /\ pending[i] \in Keys
    BY DEF MintedInv
  <2> QED
    BY <1>0, <2>1, <2>2 DEF Affinity, FiledIsOwn, Used
<1>3. ReportedId(new)
  BY <1>0, NoneIsNoId DEF MintedInv, Affinity, ReportedId
<1>4. InRun => RunIsOf(new)
  <2> SUFFICES ASSUME InRun PROVE RunIsOf(new)
    OBVIOUS
  <2>1. /\ liveId \in Known /\ liveKey \in minted /\ (owner # None => owner \in Known)
        /\ keypair # None => keypair \in minted
        /\ RunIsOf(own)
    BY DEF MintedInv, InRun, Affinity
  <2> QED
    BY <1>0, <2>1 DEF RunIsOf
<1>5. Moving => MoveIsOf(new)
  BY <1>0, NoneIsNoId DEF MintedInv, Moving, Affinity, MoveIsOf, RunType
<1> QED
  BY <1>1, <1>2, <1>3, <1>4, <1>5 DEF new, Affinity

LEMMA AffinityStep ==
  ASSUME RunsInv, TypeOK', Next, NEW own \in [Keys -> Devices], Affinity(own),
         WriteAhead => own[NextDraw] = dev,
         \A d \in Devices, k \in DeviceKeys : SelfRekey(d, k) => own[k] = d
  PROVE  Affinity(own)'
<1> USE DEF RunsInv, NamesInv, TypeOK
<1> USE DEF deviceVars, dbVars, planVars, applyVars, counters
<1>0. /\ None \notin Ids /\ Keys \subseteq Ids /\ Devices \subseteq Ids
      /\ FreshKeys \subseteq Keys /\ None \notin Keys /\ Devices \cap Keys = {}
  BY NoneIsNoId, KeysAssumption
<1>1. ASSUME NEW d \in Devices, Gather(d) PROVE Affinity(own)'
  <2>1. /\ pc = "idle" /\ pc' = "planned" /\ dev' = d /\ liveId' = id[d] /\ liveKey' = key[d]
        /\ UNCHANGED <<deviceVars, dbVars, pending, keypair>>
        /\ owner' # None => /\ owner' \in Ids /\ pending[owner'] # None
                            /\ owner' = id[d] \/ pending[owner'] = key[d]
        /\ keypair = None
    BY <1>1, GatherIs, OwnerIs DEF RunInv, Untouched
  <2>2. OwnerOf(own, id[d]) = d /\ (id[d] \in Keys => d \in derives) /\ own[key[d]] = d
    BY OwnIds DEF Affinity
  <2>3. owner' # None => OwnerOf(own, owner') = d
    BY <2>1, <2>2 DEF Affinity, FiledIsOwn
  <2>4. FiledIsOwn(own)'
    BY <2>1 DEF Affinity, FiledIsOwn, OwnerOf
  <2>5. ReportedId(own)'
    BY <1>0, <2>1, <2>2 DEF Affinity, ReportedId, Used, OwnerOf
  <2> QED
    BY <2>1, <2>2, <2>3, <2>4, <2>5 DEF Affinity, RunIsOf, Moving, OwnerOf
<1>2. CASE UseLiveKey
  <2>1. /\ pc = "planned" /\ pc' = "applying" /\ keypair' \in {liveKey, None}
        /\ UNCHANGED <<deviceVars, dbVars, pending, planVars>>
    BY <1>2 DEF UseLiveKey
  <2> QED
    BY <2>1 DEF Affinity, FiledIsOwn, ReportedId, RunIsOf, Used, OwnerOf, InRun, Moving
<1>3. CASE WriteAhead
  <2>1. /\ pc = "planned" /\ pc' = "applying" /\ keypair' = NextDraw
        /\ pending' = [pending EXCEPT ![liveId] = NextDraw]
        /\ UNCHANGED <<deviceVars, dbVars, planVars>> /\ own[NextDraw] = dev
        /\ RunIsOf(own)
    BY <1>3 DEF WriteAhead, Affinity, InRun
  <2>2. FiledIsOwn(own)'
    BY <2>1 DEF Affinity, FiledIsOwn, RunIsOf, OwnerOf
  <2>3. ReportedId(own)'
    BY <2>1 DEF Affinity, ReportedId, Used
  <2> QED
    BY <2>1, <2>2, <2>3 DEF Affinity, RunIsOf, Moving, OwnerOf
<1>4. CASE ApplyNames
  BY <1>4 DEF ApplyNames, Affinity, FiledIsOwn, ReportedId, RunIsOf, MoveIsOf, Used, OwnerOf,
    InRun, Moving
<1>5. CASE ApplySend
  <2>1. /\ pc = "applying" /\ keypair \in Keys
        /\ UNCHANGED <<derives, dbVars, pending, pc, keypair, planVars>>
        /\ key' = key \/ key' = [key EXCEPT ![dev] = keypair]
    BY <1>5 DEF ApplySend, RunType
  <2>2. RunIsOf(own) /\ own[keypair] = dev
    BY <1>0, <2>1 DEF Affinity, InRun, RunIsOf
  <2>3. ASSUME NEW d \in Devices PROVE own[key'[d]] = d
    <3>1. key'[d] = key[d] \/ (d = dev /\ key'[d] = keypair)
      BY <2>1
    <3> QED
      BY <2>2, <3>1 DEF Affinity
  <2> QED
    BY <2>1, <2>2, <2>3 DEF Affinity, FiledIsOwn, ReportedId, RunIsOf, Used, OwnerOf, Moving
<1>6. ASSUME NEW p \in {"unsent", "uncertain", "recorded", "raised"}, ApplyEnd(p)
      PROVE  Affinity(own)'
  BY <1>6 DEF ApplyEnd, Affinity, FiledIsOwn, ReportedId, RunIsOf, Used, OwnerOf, InRun, Moving
<1>7. CASE Persist
  <2>1. /\ pc = "ended" /\ pc' = "persisted" /\ id[dev] \in Ids
        /\ UNCHANGED <<deviceVars, pending, planVars, keypair>>
    BY <1>7, PersistIs DEF Persist
  <2>2. /\ OwnerOf(own, id[dev]) = dev /\ (id[dev] \in Keys => dev \in derives)
        /\ RunIsOf(own)
    BY <2>1, OwnIds DEF Affinity, InRun
  <2>3. /\ keyRow'[id[dev]] \in {keypair, keyRow[liveId]} \ {None} \/ keyRow'[id[dev]] = None
        /\ rowOf'[id[dev]] = dev
    BY <1>7, PersistIs
  <2>4. \A i \in Ids : i # id[dev] =>
          /\ keyRow'[i] \in {keyRow[i], None}
          /\ i \in rows' => i \in rows /\ rowOf'[i] = rowOf[i]
    BY <1>7, PersistIs
  <2>5. FiledIsOwn(own)'
    <3> SUFFICES ASSUME NEW i \in Ids
                 PROVE  /\ keyRow'[i] # None => own[keyRow'[i]] = OwnerOf(own, i)
                        /\ pending'[i] # None => own[pending'[i]] = OwnerOf(own, i)
                        /\ i \in rows' => rowOf'[i] = OwnerOf(own, i)
      BY DEF FiledIsOwn, OwnerOf
    <3>1. CASE i = id[dev]
      BY <2>1, <2>2, <2>3, <3>1 DEF Affinity, FiledIsOwn, RunIsOf
    <3>2. CASE i # id[dev]
      BY <2>1, <2>4, <3>2 DEF Affinity, FiledIsOwn
    <3> QED
      BY <3>1, <3>2
  <2>6. ReportedId(own)'
    <3> SUFFICES ASSUME NEW i \in Keys, Used(i)' \/ i = liveId PROVE own[i] \in derives
      BY <2>1 DEF ReportedId
    <3>1. i = id[dev] \/ i = liveId \/ Used(i)
      BY <1>0, <2>1, <2>4 DEF Used
    <3> QED
      BY <1>0, <2>1, <2>2, <3>1 DEF Affinity, ReportedId, OwnerOf
  <2> QED
    BY <2>1, <2>2, <2>5, <2>6 DEF Affinity, RunIsOf, OwnerOf, Moving
<1>8. CASE PersistFails \/ Kill
  BY <1>8 DEF PersistFails, Kill, EndRun, Affinity, FiledIsOwn, ReportedId, Used, OwnerOf, InRun,
    Moving
<1>9. CASE ClearPending \/ ClearOwnerPending \/ NotPersisted \/ DropPending
  <2>1. /\ \A i \in Ids : pending'[i] \in {pending[i], None}
        /\ UNCHANGED <<deviceVars, dbVars, liveId, liveKey, dev>>
        /\ \/ pc' = "idle"
           \/ pc = "persisted" /\ pc' = "cleared" /\ UNCHANGED <<owner, keypair>>
    BY <1>9 DEF ClearPending, ClearOwnerPending, NotPersisted, DropPending, EndRun
  <2>2. FiledIsOwn(own)'
    <3>1. ASSUME NEW i \in Ids PROVE pending'[i] # None => own[pending'[i]] = OwnerOf(own, i)
      BY <2>1 DEF Affinity, FiledIsOwn
    <3> QED
      BY <2>1, <3>1 DEF Affinity, FiledIsOwn, OwnerOf
  <2>3. ReportedId(own)'
    <3>1. \A i \in Keys : Used(i)' => Used(i)
      BY <1>0, <2>1 DEF Used
    <3> QED
      BY <2>1, <3>1 DEF Affinity, ReportedId
  <2> QED
    BY <2>1, <2>2, <2>3 DEF Affinity, RunIsOf, OwnerOf, InRun, Moving
<1>10. CASE CopyPending
  <2>1. /\ \A i \in Ids : pending'[i] = IF i = liveId THEN pending[owner] ELSE pending[i]
        /\ pc = "moving" /\ pc' = "copied" /\ owner \in Ids
        /\ UNCHANGED <<deviceVars, dbVars, liveId, owner>> /\ MoveIsOf(own)
    BY <1>10 DEF CopyPending, RunType, Affinity, Moving
  <2>2. FiledIsOwn(own)'
    <3>1. ASSUME NEW i \in Ids PROVE pending'[i] # None => own[pending'[i]] = OwnerOf(own, i)
      BY <2>1 DEF Affinity, FiledIsOwn, MoveIsOf
    <3> QED
      BY <2>1, <3>1 DEF Affinity, FiledIsOwn, OwnerOf
  <2>3. ReportedId(own)'
    <3>1. \A i \in Keys : Used(i)' => i = liveId \/ Used(i)
      BY <1>0, <2>1 DEF Used
    <3> QED
      BY <2>1, <3>1 DEF Affinity, ReportedId
  <2> QED
    BY <2>1, <2>2, <2>3 DEF Affinity, MoveIsOf, OwnerOf, InRun
<1>11. ASSUME NEW old \in Ids, NEW new \in Ids, DbRenumber(old, new) PROVE Affinity(own)'
  <2>1. PICK d \in Devices : id[d] = new
    BY <1>11 DEF DbRenumber
  <2>2. /\ pc = "idle" /\ old \in rows /\ Proven(old, new)
        /\ \/ pc' = "idle"
           \/ pc' = "moving" /\ liveId' = new /\ owner' = old
    BY <1>11 DEF DbRenumber
  <2>3. new \in Keys /\ own[new] = OwnerOf(own, old) /\ own[new] \in derives
    <3>1. new \in Keys /\ own[new] = OwnerOf(own, old)
      BY <1>0, <2>2 DEF Proven, Affinity, FiledIsOwn
    <3>2. d \in derives /\ key[d] = new
      BY <1>0, <2>1, <3>1 DEF IdsInv
    <3> QED
      BY <3>1, <3>2 DEF Affinity
  <2>4. UNCHANGED <<deviceVars, pending>> /\ new \in rows'
    BY <1>11, RenumberIs
  <2>5. FiledIsOwn(own)'
    <3> SUFFICES ASSUME NEW i \in Ids
                 PROVE  /\ keyRow'[i] # None => own[keyRow'[i]] = OwnerOf(own, i)
                        /\ pending'[i] # None => own[pending'[i]] = OwnerOf(own, i)
                        /\ i \in rows' => rowOf'[i] = OwnerOf(own, i)
      BY DEF FiledIsOwn, OwnerOf
    <3>1. pending'[i] # None => own[pending'[i]] = OwnerOf(own, i)
      BY <2>4 DEF Affinity, FiledIsOwn
    <3>2. OwnerOf(own, new) = OwnerOf(own, old)
      BY <1>0, <2>3 DEF OwnerOf
    <3>3. CASE i \in {old, new}
      BY <1>11, <2>2, <3>1, <3>2, <3>3, RenumberIs DEF Affinity, FiledIsOwn
    <3>4. CASE i \notin {old, new}
      BY <1>11, <3>1, <3>4, RenumberIs DEF Affinity, FiledIsOwn
    <3> QED
      BY <3>3, <3>4
  <2>6. ReportedId(own)'
    <3>1. \A i \in Keys : Used(i)' => i = new \/ Used(i)
      BY <1>0, <1>11, <2>4, RenumberIs DEF Used
    <3> QED
      BY <2>2, <2>3, <2>4, <3>1 DEF Affinity, ReportedId
  <2>7. Moving' => MoveIsOf(own)'
    BY <1>0, <2>1, <2>2, <2>3, <2>4 DEF Moving, MoveIsOf, OwnerOf
  <2> QED
    BY <2>2, <2>4, <2>5, <2>6, <2>7 DEF Affinity, InRun
<1>12. ASSUME NEW d \in Devices, Upgrade(d) PROVE Affinity(own)'
  BY <1>12 DEF Upgrade, Affinity, FiledIsOwn, ReportedId, Used, OwnerOf, InRun, Moving
<1>13. ASSUME NEW d \in Devices, NEW k \in DeviceKeys, SelfRekey(d, k) PROVE Affinity(own)'
  <2>1. /\ pc = "idle" /\ own[k] = d
        /\ \A e \in Devices : key'[e] = key[e] \/ (e = d /\ key'[e] = k)
        /\ UNCHANGED <<derives, dbVars, pending, pc>>
    BY <1>13 DEF SelfRekey
  <2>2. \A e \in Devices : own[key'[e]] = e
    BY <2>1 DEF Affinity
  <2> QED
    BY <2>1, <2>2 DEF Affinity, FiledIsOwn, ReportedId, Used, OwnerOf, InRun, Moving
<1>14. CASE UNCHANGED vars
  BY <1>14 DEF vars, Affinity, FiledIsOwn, ReportedId, RunIsOf, MoveIsOf, Used, OwnerOf, InRun,
    Moving
<1> QED
  BY <1>1, <1>2, <1>3, <1>4, <1>5, <1>6, <1>7, <1>8, <1>9, <1>10, <1>11, <1>12, <1>13, <1>14
     DEF Next, HostStep, Environment, Refused

(* No key changes hands: whose each is can be told before a step already,  *)
(* a new key's device with it.                                             *)
OwnedAlong == \E own \in [Keys -> Devices] : Affinity(own) /\ Affinity(own)'

LEMMA OwnStep == RunsInv /\ HasAffinity /\ TypeOK' /\ [Next]_vars => OwnedAlong
<1> SUFFICES ASSUME RunsInv, TypeOK', [Next]_vars, HasAffinity PROVE OwnedAlong
  OBVIOUS
<1>1. PICK own \in [Keys -> Devices] : Affinity(own)
  BY DEF HasAffinity
<1>2. CASE UNCHANGED vars
  BY <1>1, <1>2 DEF vars, deviceVars, dbVars, planVars, applyVars, counters, OwnedAlong,
    Affinity, FiledIsOwn, ReportedId, RunIsOf, MoveIsOf, Used, OwnerOf, InRun, Moving
<1>3. CASE Next /\ WriteAhead
  <2>1. PICK k \in FreshKeys : k = NextDraw /\ k \notin minted
    BY <1>3, NextDrawIs DEF WriteAhead, RunsInv, NamesInv, RunType
  <2>2. PICK e \in Devices : e = dev
    BY DEF RunsInv, NamesInv, TypeOK
  <2> DEFINE new == [own EXCEPT ![k] = e]
  <2>3. k \in Keys /\ new \in [Keys -> Devices] /\ new[k] = e
    BY <2>1, NoneIsNoId
  <2>4. Affinity(new)
    BY <1>1, <2>1, <2>3, OwnExtends
  <2>5. \A d \in Devices, j \in DeviceKeys : ~SelfRekey(d, j)
    BY <1>3 DEF WriteAhead, SelfRekey
  <2> HIDE DEF new
  <2>6. Affinity(new)'
    BY <1>3, <2>1, <2>2, <2>3, <2>4, <2>5, AffinityStep
  <2> QED
    BY <2>3, <2>4, <2>6 DEF OwnedAlong
<1>4. ASSUME Next, NEW e \in Devices, NEW k \in DeviceKeys, SelfRekey(e, k) PROVE OwnedAlong
  <2> DEFINE new == [own EXCEPT ![k] = e]
  <2>1. k \in Keys /\ k \notin minted /\ new \in [Keys -> Devices] /\ new[k] = e
    BY <1>4, NoneIsNoId DEF SelfRekey
  <2>2. Affinity(new)
    BY <1>1, <2>1, OwnExtends
  <2>3. ~WriteAhead
    BY <1>4 DEF WriteAhead, SelfRekey
  <2>4. ASSUME NEW d \in Devices, NEW j \in DeviceKeys, SelfRekey(d, j) PROVE d = e /\ j = k
    <3>1. key' = [key EXCEPT ![e] = k] /\ key' = [key EXCEPT ![d] = j]
          /\ key \in [Devices -> Keys] /\ k \notin minted /\ j \notin minted
          /\ \A c \in Devices : key[c] \in minted
      BY <1>4, <2>4 DEF SelfRekey, RunsInv, NamesInv, TypeOK, MintedInv
    <3> QED
      BY <3>1
  <2> HIDE DEF new
  <2>5. Affinity(new)'
    BY <1>4, <2>1, <2>2, <2>3, <2>4, AffinityStep
  <2> QED
    BY <2>1, <2>2, <2>5 DEF OwnedAlong
<1>5. ASSUME Next, ~WriteAhead, \A e \in Devices, k \in DeviceKeys : ~SelfRekey(e, k)
      PROVE  OwnedAlong
  <2>1. Affinity(own)'
    BY <1>1, <1>5, AffinityStep
  <2> QED
    BY <1>1, <2>1 DEF OwnedAlong
<1> QED
  BY <1>2, <1>3, <1>4, <1>5

LEMMA AffinityInvariance == Spec => [](RunsInv /\ OneHolder /\ HasAffinity)
<1>1. Init => HasAffinity
  <2> SUFFICES ASSUME Init PROVE HasAffinity
    OBVIOUS
  <2> DEFINE own == [k \in Keys |-> IF \E d \in Devices : BuiltInKey[d] = k
                                    THEN CHOOSE d \in Devices : BuiltInKey[d] = k ELSE dev]
  <2>1. \A d \in Devices : BuiltInKey[d] \in Keys /\ own[BuiltInKey[d]] = d
    <3> TAKE d \in Devices
    <3>1. BuiltInKey[d] \in Keys
      BY BuiltInKeyAssumption DEF Keys
    <3>2. (CHOOSE e \in Devices : BuiltInKey[e] = BuiltInKey[d]) = d
      BY BuiltInKeyAssumption
    <3> QED
      BY <3>1, <3>2
  <2>2. own \in [Keys -> Devices]
    BY DEF Init
  <2> HIDE DEF own
  <2>3. /\ key = BuiltInKey /\ pc = "idle" /\ rows = {}
        /\ \A i \in Ids : keyRow[i] = None /\ pending[i] = None
    BY DEF Init
  <2>4. FiledIsOwn(own) /\ ReportedId(own)
    BY <2>3, NoneIsNoId DEF FiledIsOwn, ReportedId, Used
  <2>5. Affinity(own)
    BY <2>1, <2>3, <2>4 DEF Affinity, InRun, Moving
  <2> QED
    BY <2>2, <2>5 DEF HasAffinity
<1>2. RunsInv /\ HasAffinity /\ TypeOK' /\ [Next]_vars => HasAffinity'
  BY OwnStep DEF OwnedAlong, HasAffinity
<1> QED
  BY <1>1, <1>2, HolderInvariance, TypeCorrect, PTL DEF Spec

-----------------------------------------------------------------------------
(* RowsAreTrue.  A row whose key the device made is never called           *)
(* GENERATED: what is recorded as generated was drawn by generate_keypair, *)
(* or recovered from the pending file only a draw is written to.           *)

LEMMA OriginStep == RunsInv /\ GeneratedMeansMinted /\ [Next]_vars => GeneratedMeansMinted'
<1> SUFFICES ASSUME RunsInv, GeneratedMeansMinted, [Next]_vars PROVE GeneratedMeansMinted'
  OBVIOUS
<1> USE DEF RunsInv, NamesInv, TypeOK
<1> USE DEF deviceVars, dbVars, planVars, applyVars, counters
<1>1. CASE keyRow' = keyRow /\ generated' = generated
  BY <1>1 DEF GeneratedMeansMinted
<1>2. CASE Persist
  <2>1. /\ pc = "ended" /\ id[dev] \in Ids
        /\ id[dev] = liveId \/ (IsFree(id[dev]) /\ id[dev] \notin generated)
    BY <1>2, NoneIsNoId, PersistIs DEF Persist, IsFree, GeneratedMeansMinted
  <2>2. generated' = IF keypair = None THEN Rename(generated, liveId, id[dev])
                     ELSE IF OriginGenerated THEN Rename(generated, liveId, id[dev]) \cup {id[dev]}
                     ELSE Rename(generated, liveId, id[dev]) \ {id[dev]}
    BY <1>2 DEF Persist, SavedId
  <2>3. keypair # None /\ OriginGenerated => keypair \in FreshKeys
    BY <2>1 DEF RunInv, NewKeyIsNew, OriginGenerated
  <2>4. ASSUME NEW i \in generated', i = id[dev] PROVE keyRow'[i] \in FreshKeys
    <3>1. CASE keypair = None
      <4>1. liveId \in generated
        BY <2>1, <2>2, <2>4, <3>1 DEF Rename
      <4> QED
        BY <1>2, <2>4, <3>1, <4>1, PersistIs DEF GeneratedMeansMinted
    <3>2. CASE keypair # None
      BY <1>2, <2>2, <2>3, <2>4, <3>2, PersistIs
    <3> QED
      BY <3>1, <3>2
  <2>5. ASSUME NEW i \in generated', i # id[dev] PROVE keyRow'[i] \in FreshKeys
    <3>1. i \in generated /\ i # liveId
      BY <2>2, <2>5 DEF Rename
    <3> QED
      BY <1>2, <2>5, <3>1, PersistIs DEF GeneratedMeansMinted
  <2> QED
    BY <2>4, <2>5 DEF GeneratedMeansMinted
<1>3. ASSUME NEW old \in Ids, NEW new \in Ids, DbRenumber(old, new) PROVE GeneratedMeansMinted'
  <2>1. generated' = Rename(generated, old, new) /\ new # old /\ new \notin generated
    BY <1>3, NoneIsNoId DEF DbRenumber, IsFree, GeneratedMeansMinted
  <2>2. ASSUME NEW i \in generated' PROVE keyRow'[i] \in FreshKeys
    <3>1. CASE i = new
      BY <1>3, <2>1, <2>2, <3>1, RenumberIs DEF GeneratedMeansMinted, Rename
    <3>2. CASE i # new
      BY <1>3, <2>1, <2>2, <3>2, RenumberIs DEF GeneratedMeansMinted, Rename
    <3> QED
      BY <3>1, <3>2
  <2> QED
    BY <2>2 DEF GeneratedMeansMinted
<1>4. \/ Persist \/ \E old, new \in Ids : DbRenumber(old, new)
      \/ keyRow' = keyRow /\ generated' = generated
  BY DEF Next, HostStep, Environment, Refused, Gather, Upgrade, SelfRekey, UseLiveKey, WriteAhead,
    ApplyNames, ApplySend, ApplyEnd, PersistFails, ClearPending, ClearOwnerPending, NotPersisted,
    CopyPending, DropPending, Kill, vars
<1> QED
  BY <1>1, <1>2, <1>3, <1>4

(* A device's row is under the id it reports, or can be found again: by    *)
(* the key recorded in it, or by the pending file at its id.               *)
Findable(d, j) ==
  /\ d \in derives /\ id[d] \notin rows
  /\ \/ keyRow[j] = key[d]
     \/ /\ pending[j] = key[d] /\ pending[id[d]] = None
        /\ \A i \in Ids : pending[i] = key[d] => i = j

RowFound(d) == \A j \in rows : rowOf[j] = d => j = id[d] \/ Findable(d, j)

(* Before a device derives its id, its key is recorded under it. *)
RowTells(d) == d \notin derives /\ d \in rows => key[d] \in {keyRow[d], pending[d]}

OneRow(d) == \A i, j \in rows : rowOf[i] = d /\ rowOf[j] = d => i = j

RowOf(d) == RowFound(d) /\ RowTells(d) /\ OneRow(d)

(* A run works on the one row of its device, or on none. *)
OnlyRow ==
  pc \in {"planned", "applying", "ended"} /\ dev \notin strayed =>
    \A j \in rows : rowOf[j] = dev => j = liveId

RowInv == (\A d \in Devices \ strayed : RowOf(d)) /\ OnlyRow

(* A lost row is found, or the run refused (refuse_renumbered,             *)
(* renumbered_pending).                                                    *)
LEMMA FoundOrRefused ==
  ASSUME RunsInv, OneHolder, NEW d \in Devices, NEW j \in rows, Findable(d, j),
         NEW o \in PendingIds(d)
  PROVE  MoveFirst(d, o)
<1> USE DEF RunsInv, NamesInv, TypeOK
<1>1. /\ id[d] = key[d] /\ id[d] \notin rows /\ j # id[d] /\ key[d] \in Keys /\ key[d] # None
      /\ j \in Ids
  BY NoneIsNoId DEF Findable, IdsInv
<1>2. CASE keyRow[j] = key[d]
  <2>1. Holders(key[d]) \ {id[d]} = {j}
    BY <1>1, <1>2 DEF Holders, OneHolder
  <2>2. Cardinality({j}) = 1
    BY FS_Singleton
  <2> QED
    BY <1>1, <2>1, <2>2 DEF MoveFirst, Renumbered, HasRow
<1>3. CASE keyRow[j] # key[d]
  <2>1. HeldElsewhere(d) = {j}
    <3>1. pending[j] = key[d] /\ \A i \in Ids : pending[i] = key[d] => i = j
      BY <1>1, <1>3 DEF Findable
    <3> QED
      BY <1>1, <1>3, <3>1 DEF HeldElsewhere
  <2>2. o = j
    BY <1>1, <1>3, <2>1 DEF PendingIds, HasRow, Findable
  <2> QED
    BY <1>1, <2>2 DEF MoveFirst
<1> QED
  BY <1>2, <1>3 DEF Findable

(* What a step leaves as it is. *)
KeptAt(i) ==
  /\ keyRow'[i] = keyRow[i] /\ rowOf'[i] = rowOf[i] /\ pending'[i] = pending[i]
  /\ i \in rows' <=> i \in rows

Unmoved(d) == id'[d] = id[d] /\ key'[d] = key[d] /\ (d \in derives' <=> d \in derives)

LEMMA RowKept ==
  ASSUME RunsInv, TypeOK', NEW own \in [Keys -> Devices], Affinity(own), Affinity(own)',
         NEW d \in Devices, RowOf(d), Unmoved(d),
         \A i \in Ids : OwnerOf(own, i) = d => KeptAt(i)
  PROVE  RowOf(d)'
<1> USE DEF RunsInv, NamesInv, TypeOK
<1>1. OwnerOf(own, id[d]) = d /\ id[d] \in Ids /\ OwnerOf(own, d) = d /\ d \in Ids
  BY OwnIds, NoneIsNoId DEF OwnerOf
<1>2. ASSUME NEW i \in Ids
      PROVE  /\ i \in rows' => rowOf'[i] = OwnerOf(own, i)
             /\ pending'[i] = key[d] => OwnerOf(own, i) = d
  BY NoneIsNoId DEF Affinity, FiledIsOwn, OwnerOf, Unmoved
<1>3. \A j \in rows' : rowOf'[j] = d => j \in rows /\ rowOf[j] = d /\ KeptAt(j)
  BY <1>2 DEF KeptAt
<1>4. KeptAt(id[d]) /\ KeptAt(d)
  BY <1>1
<1>5. ASSUME NEW j \in rows', rowOf'[j] = d, Findable(d, j) PROVE Findable(d, j)'
  <2>1. d \in derives' /\ id'[d] \notin rows'
    BY <1>4, <1>5 DEF Findable, Unmoved, KeptAt
  <2>2. CASE keyRow[j] = key[d]
    BY <1>3, <1>5, <2>1, <2>2 DEF Findable, Unmoved, KeptAt
  <2>3. CASE keyRow[j] # key[d]
    <3>1. /\ pending'[j] = key'[d] /\ pending'[id'[d]] = None
          /\ \A i \in Ids : pending[i] = key[d] => i = j
      BY <1>3, <1>4, <1>5, <2>3 DEF Findable, Unmoved, KeptAt
    <3>2. \A i \in Ids : pending'[i] = key'[d] => i = j
      BY <1>2, <3>1 DEF Unmoved, KeptAt
    <3> QED
      BY <2>1, <3>1, <3>2 DEF Findable
  <2> QED
    BY <2>2, <2>3
<1>6. RowFound(d)'
  BY <1>3, <1>5 DEF RowOf, RowFound, Unmoved
<1>7. RowTells(d)'
  BY <1>4 DEF RowOf, RowTells, Unmoved, KeptAt
<1>8. OneRow(d)'
  BY <1>3 DEF RowOf, OneRow
<1> QED
  BY <1>6, <1>7, <1>8 DEF RowOf

(* The steps of a run touch only what is its device's. *)
LEMMA RowStep ==
  ASSUME RunsInv, OneHolder, TypeOK', RunsInv', RowInv, [Next]_vars,
         NEW own \in [Keys -> Devices], Affinity(own), Affinity(own)'
  PROVE  RowInv'
<1> USE DEF RunsInv, NamesInv, TypeOK
<1> USE DEF deviceVars, dbVars, planVars, applyVars, counters
<1>0. /\ None \notin Ids /\ Keys \subseteq Ids /\ Devices \subseteq Ids
      /\ FreshKeys \subseteq Keys /\ None \notin Keys /\ Devices \cap Keys = {}
  BY NoneIsNoId, KeysAssumption
<1>a. PICK me \in Devices : me = dev
  OBVIOUS
<1>1. ASSUME NEW e \in Devices, strayed \subseteq strayed',
             \A d \in Devices \ {e} : Unmoved(d),
             \A i \in Ids : OwnerOf(own, i) # e => KeptAt(i),
             e \notin strayed' => RowOf(e)'
      PROVE  \A d \in Devices \ strayed' : RowOf(d)'
  <2> SUFFICES ASSUME NEW d \in Devices \ strayed', d # e PROVE RowOf(d)'
    BY <1>1
  <2>1. RowOf(d) /\ Unmoved(d) /\ \A i \in Ids : OwnerOf(own, i) = d => KeptAt(i)
    BY <1>1 DEF RowInv
  <2> QED
    BY <2>1, RowKept
<1>2. ASSUME NEW d \in Devices, Gather(d) PROVE RowInv'
  <2>1. /\ UNCHANGED <<deviceVars, dbVars, pending, strayed>> /\ dev' = d /\ liveId' = id[d]
        /\ owner' \in PendingIds(d) /\ ~MoveFirst(d, owner')
    BY <1>2, GatherIs
  <2>2. \A j \in rows : ~Findable(d, j)
    BY <2>1, FoundOrRefused
  <2>3. OnlyRow'
    BY <2>1, <2>2 DEF RowInv, RowOf, RowFound, OnlyRow
  <2> QED
    BY <2>1, <2>3 DEF RowInv, RowOf, RowFound, RowTells, OneRow, Findable
<1>3. ASSUME UNCHANGED <<id, key, derives, dbVars, pending, strayed>>,
             \/ pc' \notin {"planned", "applying", "ended"}
             \/ pc \in {"planned", "applying", "ended"} /\ UNCHANGED <<dev, liveId>>
      PROVE  RowInv'
  BY <1>3 DEF RowInv, RowOf, RowFound, RowTells, OneRow, Findable, OnlyRow
<1>4. CASE \/ UseLiveKey \/ ApplyNames
           \/ \E p \in {"unsent", "uncertain", "recorded", "raised"} : ApplyEnd(p)
           \/ PersistFails \/ Kill
  BY <1>3, <1>4 DEF UseLiveKey, ApplyNames, ApplyEnd, PersistFails, Kill, EndRun
<1>5. CASE WriteAhead
  <2>1. /\ pc = "planned" /\ pc' = "applying"
        /\ NextDraw \in FreshKeys /\ pending' = [pending EXCEPT ![liveId] = NextDraw]
        /\ strayed' = strayed \cup {d \in {dev} : GivesUpKey}
        /\ UNCHANGED <<deviceVars, dbVars, planVars>>
        /\ key[dev] = liveKey /\ id[dev] = liveId /\ OwnerOf(own, liveId) = dev
    BY <1>5, NextDrawIs DEF WriteAhead, RunInv, RunType, Untouched, DeviceAsRead, Affinity, InRun,
       RunIsOf
  <2>2. ASSUME me \notin strayed' PROVE RowOf(me)'
    <3>1. me \notin strayed /\ ~GivesUpKey /\ RowOf(me)
      BY <1>a, <2>1, <2>2 DEF RowInv
    <3>2. \A j \in rows' : rowOf'[j] = me => j = id'[me]
      BY <1>a, <2>1, <3>1 DEF RowInv, OnlyRow
    <3>3. RowTells(me)'
      <4> SUFFICES ASSUME me \notin derives, me \in rows PROVE keyRow[me] = key[me]
        BY <1>a, <2>1 DEF RowTells
      <4>1. id[me] = me
        BY DEF IdsInv
      <4> QED
        BY <1>a, <2>1, <3>1, <4>1 DEF RowOf, RowTells, GivesUpKey
    <3> QED
      BY <2>1, <3>2, <3>3 DEF RowOf, RowFound, OneRow
  <2>3. \A d \in Devices \ strayed' : RowOf(d)'
    BY <1>1, <1>a, <2>1, <2>2 DEF Unmoved, KeptAt
  <2>4. OnlyRow'
    BY <2>1 DEF RowInv, OnlyRow
  <2> QED
    BY <2>1, <2>3, <2>4 DEF RowInv
<1>6. CASE ApplySend
  <2>1. /\ pc = "applying" /\ pc' = pc /\ decision = "regenerate" /\ ~exposed
        /\ UNCHANGED <<derives, dbVars, pending, keypair, strayed, planVars>>
        /\ OwnerOf(own, liveId) = dev /\ liveId \in Ids
    BY <1>6 DEF ApplySend, Affinity, InRun, RunIsOf
  <2>2. /\ key[dev] = liveKey /\ id[dev] = liveId /\ NewKeyIsNew
    BY <2>1 DEF RunInv, DeviceAsRead
  <2>3. CASE ~holds'
    BY <1>3, <1>6, <2>1, <2>3 DEF ApplySend
  <2>4. CASE holds'
    <3>1. /\ key' = [key EXCEPT ![dev] = keypair]
          /\ id' = (IF dev \in derives THEN [id EXCEPT ![dev] = keypair] ELSE id)
      BY <1>6, <2>4 DEF ApplySend
    <3>2. keypair \in Ids /\ keypair \notin rows /\ pending[keypair] = None
      BY <1>0, <2>2 DEF NewKeyIsNew, Used
    <3>3. ASSUME me \notin strayed' PROVE RowOf(me)'
      <4>1. \A j \in rows' : rowOf'[j] = me => j = liveId
        BY <1>a, <2>1, <3>3 DEF RowInv, OnlyRow
      <4>2. RowFound(me)'
        <5>1. CASE me \in derives
          <6>1. ASSUME NEW j \in Ids, j = liveId PROVE Findable(me, j)'
            BY <1>a, <2>1, <2>2, <3>1, <3>2, <5>1, <6>1 DEF Findable, NewKeyIsNew
          <6> QED
            BY <1>a, <4>1, <6>1 DEF RowFound
        <5>2. CASE me \notin derives
          BY <1>a, <2>2, <3>1, <4>1, <5>2 DEF RowFound
        <5> QED
          BY <1>a, <5>1, <5>2
      <4>3. RowTells(me)'
        <5>1. me \notin derives => me = liveId
          BY <1>a, <2>2 DEF IdsInv
        <5> QED
          BY <1>a, <2>1, <2>2, <3>1, <5>1 DEF RowTells, NewKeyIsNew
      <4> QED
        BY <1>a, <4>1, <4>2, <4>3 DEF RowOf, OneRow
    <3>4. (\A d \in Devices \ {me} : Unmoved(d)) /\ (\A i \in Ids : KeptAt(i))
      BY <1>a, <2>1, <3>1 DEF Unmoved, KeptAt
    <3>5. \A d \in Devices \ strayed' : RowOf(d)'
      BY <1>1, <1>a, <2>1, <3>3, <3>4
    <3>6. OnlyRow'
      BY <2>1 DEF RowInv, OnlyRow
    <3> QED
      BY <3>5, <3>6 DEF RowInv
  <2> QED
    BY <2>3, <2>4
<1>7. CASE Persist
  <2>1. /\ pc = "ended" /\ pc' = "persisted"
        /\ UNCHANGED <<deviceVars, pending, planVars, keypair, strayed>>
        /\ OwnerOf(own, liveId) = dev /\ OwnerOf(own, id[dev]) = dev /\ id[dev] \in Ids
    BY <1>7, PersistIs, OwnIds DEF Persist, Affinity, InRun, RunIsOf
  <2>2. SavedRow'
    BY <2>1 DEF RunInv
  <2>3. ASSUME me \notin strayed' PROVE RowOf(me)'
    <3>1. \A j \in rows' : rowOf'[j] = me => j = id'[me]
      BY <1>a, <1>7, <2>1, <2>3, PersistIs DEF RowInv, OnlyRow
    <3>2. RowTells(me)'
      BY <1>a, <2>1, <2>2 DEF RowTells, SavedRow, IdsInv
    <3> QED
      BY <1>a, <3>1, <3>2 DEF RowOf, RowFound, OneRow
  <2>4. \A i \in Ids : OwnerOf(own, i) # me => KeptAt(i)
    BY <1>7, <1>a, <2>1, PersistIs DEF KeptAt
  <2>5. \A d \in Devices \ strayed' : RowOf(d)'
    BY <1>1, <1>a, <2>1, <2>3, <2>4 DEF Unmoved
  <2> QED
    BY <2>1, <2>5 DEF RowInv, OnlyRow
<1>8. ASSUME NEW i \in Ids, NEW e \in Devices, OwnerOf(own, i) = e,
             UNCHANGED <<deviceVars, dbVars, strayed>>,
             \A j \in Ids : j # i => pending'[j] = pending[j],
             id[e] \in rows, OnlyRow',
             e \notin derives /\ e \in rows => key[e] \in {keyRow[e], pending'[e]}
      PROVE  RowInv'
  <2>1. ASSUME e \notin strayed' PROVE RowOf(e)'
    <3>1. RowOf(e) /\ rowOf[id[e]] = e
      BY <1>8, <2>1, OwnIds DEF RowInv, Affinity, FiledIsOwn
    <3>2. \A j \in rows' : rowOf'[j] = e => j = id'[e]
      BY <1>8, <3>1 DEF RowOf, OneRow
    <3> QED
      BY <1>8, <3>1, <3>2 DEF RowOf, RowFound, RowTells, OneRow
  <2>2. \A j \in Ids : OwnerOf(own, j) # e => KeptAt(j)
    BY <1>8 DEF KeptAt
  <2>3. \A d \in Devices \ strayed' : RowOf(d)'
    BY <1>1, <1>8, <2>1, <2>2 DEF Unmoved
  <2> QED
    BY <1>8, <2>3 DEF RowInv
<1>9. CASE ClearPending \/ ClearOwnerPending
  <2>1. /\ pc \in {"persisted", "cleared"} /\ pc' \in {"cleared", "idle"}
        /\ UNCHANGED <<deviceVars, dbVars, strayed>>
        /\ SavedRow /\ RunIsOf(own)
    BY <1>9 DEF ClearPending, ClearOwnerPending, EndRun, RunInv, Affinity, InRun
  <2>2. PICK i \in Ids : /\ OwnerOf(own, i) = dev
                         /\ \A j \in Ids : j # i => pending'[j] = pending[j]
    <3>1. CASE ClearPending \/ owner # None
      BY <1>9, <2>1, <3>1 DEF ClearPending, ClearOwnerPending, RunIsOf
    <3>2. CASE ClearOwnerPending /\ owner = None
      BY <2>1, <3>2 DEF ClearOwnerPending, RunIsOf
    <3> QED
      BY <1>9, <3>1, <3>2
  <2>3. id[dev] \in rows /\ OnlyRow' /\ (dev \notin derives => keyRow[dev] = key[dev])
    BY <2>1 DEF SavedRow, OnlyRow, IdsInv
  <2>4. OwnerOf(own, i) = dev /\ dev \in Devices
    BY <2>2
  <2> QED
    BY <1>8, <2>1, <2>2, <2>3, <2>4
<1>10. CASE NotPersisted
  <2>1. /\ pc = "ended" /\ pc' = "idle" /\ phase # "recorded"
        /\ UNCHANGED <<deviceVars, dbVars, strayed>>
        /\ RunIsOf(own) /\ liveId \in Ids
    BY <1>10 DEF NotPersisted, EndRun, Affinity, InRun
  <2>2. CASE pending' = pending
    BY <1>3, <2>1, <2>2
  <2>3. CASE pending' # pending
    <3>1. /\ decision = "regenerate" /\ phase = "unsent"
          /\ pending' = [pending EXCEPT ![liveId] = None]
      BY <1>10, <2>3 DEF NotPersisted, ClearUnsent
    <3>2. key[dev] = liveKey /\ id[dev] = liveId /\ NewKeyIsNew
      BY <2>1, <3>1 DEF RunInv, DeviceAsRead
    <3>3. ASSUME me \notin strayed' PROVE RowOf(me)'
      <4>1. RowOf(me) /\ \A j \in rows' : rowOf'[j] = me => j = id'[me]
        BY <1>a, <2>1, <3>2, <3>3 DEF RowInv, OnlyRow
      <4>2. me \notin derives => me = liveId
        BY <1>a, <3>2 DEF IdsInv
      <4>3. RowTells(me)'
        BY <1>a, <2>1, <3>2, <4>1, <4>2 DEF RowOf, RowTells, NewKeyIsNew
      <4> QED
        BY <1>a, <4>1, <4>3 DEF RowOf, RowFound, OneRow
    <3>4. \A i \in Ids : OwnerOf(own, i) # me => KeptAt(i)
      BY <1>a, <2>1, <3>1 DEF KeptAt, RunIsOf
    <3>5. \A d \in Devices \ strayed' : RowOf(d)'
      BY <1>1, <1>a, <2>1, <3>3, <3>4 DEF Unmoved
    <3> QED
      BY <2>1, <3>5 DEF RowInv, OnlyRow
  <2> QED
    BY <2>2, <2>3
<1>11. CASE CopyPending \/ DropPending
  <2>1. /\ Moving /\ pc' \in {"copied", "idle"} /\ owner \in Ids /\ MoveIsOf(own)
        /\ UNCHANGED <<deviceVars, dbVars, strayed>>
        /\ \/ \A j \in Ids : j # liveId => pending'[j] = pending[j]
           \/ \A j \in Ids : j # owner => pending'[j] = pending[j]
    BY <1>11 DEF CopyPending, DropPending, EndRun, Moving, RunType, Affinity
  <2>2. PICK e \in Devices : id[e] = liveId
    BY <2>1 DEF MoveIsOf
  <2>3. OwnerOf(own, liveId) = e /\ OwnerOf(own, owner) = e /\ id[e] \in rows
    BY <2>1, <2>2, OwnIds DEF MoveIsOf
  <2>4. e \in derives
    BY <2>1, <2>2, OwnIds DEF MoveIsOf
  <2> QED
    BY <1>8, <2>1, <2>3, <2>4 DEF OnlyRow
<1>12. ASSUME NEW old \in Ids, NEW new \in Ids, DbRenumber(old, new) PROVE RowInv'
  <2>1. /\ pc' \in {"idle", "moving"} /\ UNCHANGED <<deviceVars, pending, strayed>>
    BY <1>12, RenumberIs DEF DbRenumber
  <2>2. PICK e \in Devices : id[e] = new
    BY <1>12 DEF DbRenumber
  <2>3. new \in Keys /\ own[new] = OwnerOf(own, old) /\ old \in rows /\ new # old
    BY <1>0, <1>12 DEF DbRenumber, Proven, Affinity, FiledIsOwn
  <2>4. e \in derives /\ OwnerOf(own, new) = e /\ OwnerOf(own, old) = e /\ rowOf[old] = e
    <3>1. OwnerOf(own, new) = e /\ (new \in Keys => e \in derives)
      BY <2>2, OwnIds
    <3>2. OwnerOf(own, new) = own[new]
      BY <1>0, <2>3 DEF OwnerOf
    <3>3. rowOf[old] = OwnerOf(own, old)
      BY <2>3 DEF Affinity, FiledIsOwn
    <3> QED
      BY <2>3, <3>1, <3>2, <3>3
  <2>r. /\ old \notin rows'
        /\ \A i \in Ids : i # old /\ i # new =>
             rowOf'[i] = rowOf[i] /\ (i \in rows' <=> i \in rows)
    <3> TypeOK
      OBVIOUS
    <3> HIDE DEF RunsInv, NamesInv, TypeOK, deviceVars, dbVars, planVars, applyVars, counters
    <3> QED
      BY <1>12, RenumberIs
  <2>5. ASSUME e \notin strayed' PROVE RowOf(e)'
    <3>1. ASSUME NEW j \in rows', rowOf'[j] = e, j # new PROVE FALSE
      <4>0. j \in Ids
        BY <3>1
      <4>1. j # old
        BY <2>r, <3>1
      <4>2. j \in rows /\ rowOf[j] = e
        BY <2>r, <3>1, <4>0, <4>1
      <4>3. OneRow(e)
        BY <2>1, <2>5 DEF RowInv, RowOf
      <4> QED
        BY <2>3, <2>4, <4>1, <4>2, <4>3 DEF OneRow
    <3> QED
      BY <2>1, <2>2, <2>4, <3>1 DEF RowOf, RowFound, OneRow, RowTells
  <2>6. ASSUME NEW i \in Ids, OwnerOf(own, i) # e PROVE KeptAt(i)
    <3>1. i # old /\ i # new
      BY <2>4, <2>6
    <3> QED
      BY <1>12, <2>1, <3>1, RenumberIs DEF KeptAt
  <2>7. \A d \in Devices \ strayed' : RowOf(d)'
    BY <1>1, <2>1, <2>5, <2>6 DEF Unmoved
  <2> QED
    BY <2>1, <2>7 DEF RowInv, OnlyRow
<1>13. ASSUME NEW e \in Devices, Upgrade(e) PROVE RowInv'
  <2>1. /\ pc = "idle" /\ pc' = "idle" /\ e \notin derives /\ derives' = derives \cup {e}
        /\ id' = [id EXCEPT ![e] = key[e]]
        /\ UNCHANGED <<key, dbVars, pending, strayed>>
    BY <1>13 DEF Upgrade
  <2>2. ASSUME e \notin strayed' PROVE RowOf(e)'
    <3>1. RowOf(e) /\ id[e] = e /\ key[e] \in Keys
      BY <2>1, <2>2 DEF RowInv, IdsInv
    <3>2. \A j \in rows : rowOf[j] = e => j = e
      BY <2>1, <3>1 DEF RowOf, RowFound, Findable
    <3>3. \A i \in Keys : Used(i) => own[i] # e
      BY <2>1 DEF Affinity, ReportedId
    <3>4. ~Used(key[e])
      BY <3>1, <3>3 DEF Affinity
    <3>5. \A i \in Ids : pending[i] = key[e] => i = e
      <4> SUFFICES ASSUME NEW i \in Ids, pending[i] = key[e], i # e PROVE FALSE
        OBVIOUS
      <4>1. own[key[e]] = e /\ own[key[e]] = OwnerOf(own, i) /\ Used(i)
        BY <1>0, <3>1 DEF Affinity, FiledIsOwn, Used
      <4> QED
        BY <3>3, <4>1 DEF OwnerOf, Ids
    <3>6. ASSUME e \in rows PROVE Findable(e, e)'
      <4>1. key[e] \in {keyRow[e], pending[e]}
        BY <2>1, <3>1, <3>6 DEF RowOf, RowTells
      <4>2. e \in derives' /\ id'[e] = key[e] /\ key[e] \notin rows /\ pending[key[e]] = None
        BY <2>1, <3>4 DEF Used
      <4> QED
        BY <2>1, <3>5, <4>1, <4>2 DEF Findable
    <3>7. RowFound(e)'
      BY <2>1, <3>2, <3>6 DEF RowFound
    <3> QED
      BY <2>1, <3>1, <3>7 DEF RowOf, RowTells, OneRow
  <2>3. (\A d \in Devices \ {e} : Unmoved(d)) /\ (\A i \in Ids : KeptAt(i))
    BY <2>1 DEF Unmoved, KeptAt
  <2>4. \A d \in Devices \ strayed' : RowOf(d)'
    BY <1>1, <2>1, <2>2, <2>3
  <2> QED
    BY <2>1, <2>4 DEF RowInv, OnlyRow
<1>14. ASSUME NEW e \in Devices, NEW k \in DeviceKeys, SelfRekey(e, k) PROVE RowInv'
  <2>1. /\ pc' = "idle" /\ strayed' = strayed \cup {e} /\ key' = [key EXCEPT ![e] = k]
        /\ UNCHANGED <<id, derives, dbVars, pending>>
    BY <1>14 DEF SelfRekey
  <2>2. (\A d \in Devices \ {e} : Unmoved(d)) /\ (\A i \in Ids : KeptAt(i))
    BY <2>1 DEF Unmoved, KeptAt
  <2>3. \A d \in Devices \ strayed' : RowOf(d)'
    BY <1>1, <2>1, <2>2
  <2> QED
    BY <2>1, <2>3 DEF RowInv, OnlyRow
<1>15. CASE UNCHANGED vars
  BY <1>15 DEF vars, RowInv, RowOf, RowFound, RowTells, OneRow, Findable, OnlyRow
<1> QED
  BY <1>2, <1>4, <1>5, <1>6, <1>7, <1>9, <1>10, <1>11, <1>12, <1>13, <1>14, <1>15
     DEF Next, HostStep, Environment, Refused

LEMMA RowInvariance == Spec => [](RowInv /\ GeneratedMeansMinted)
<1>1. Init => RowInv /\ GeneratedMeansMinted
  BY DEF Init, RowInv, RowOf, RowFound, RowTells, OneRow, OnlyRow, GeneratedMeansMinted
<1>2. RunsInv /\ OneHolder /\ RowInv /\ TypeOK' /\ RunsInv' /\ [Next]_vars /\ OwnedAlong
      => RowInv'
  BY RowStep DEF OwnedAlong
<1>3. RunsInv => TypeOK
  BY DEF RunsInv, NamesInv
<1> QED
  BY <1>1, <1>2, <1>3, OwnStep, OriginStep, AffinityInvariance, PTL DEF Spec

(* Whatever is interrupted, refused, forced or renumbered, the rows have   *)
(* the types of a sheet, GENERATED marks only keys generate_keypair drew,  *)
(* a saved run's row tells the id and key its device has, and a device has *)
(* two rows only if its key went unrecorded before (persist_result,        *)
(* refuse_renumbered, renumber_rows).                                      *)
THEOREM RowsStayTrue == Spec => []RowsAreTrue
<1>1. RunsInv /\ RowInv /\ GeneratedMeansMinted => RowsAreTrue
  <2> SUFFICES ASSUME RunsInv, RowInv, GeneratedMeansMinted PROVE SavedIsHeld /\ OneRowPerDevice
    BY DEF RowsAreTrue, RunsInv, NamesInv
  <2>1. SavedIsHeld
    BY DEF RunsInv, RunInv, SavedRow, SavedIsHeld
  <2>2. OneRowPerDevice
    <3> SUFFICES ASSUME NEW i \in rows, NEW j \in rows, rowOf[i] = rowOf[j], i # j,
                        rowOf[i] \notin strayed
                 PROVE  FALSE
      BY DEF OneRowPerDevice
    <3>1. rowOf[i] \in Devices
      BY DEF RunsInv, NamesInv, TypeOK
    <3> QED
      BY <3>1 DEF RowInv, RowOf, OneRow
  <2> QED
    BY <2>1, <2>2
<1> QED
  BY <1>1, RowInvariance, RunsInvariance, PTL

-----------------------------------------------------------------------------
(* Custody, of devices whose names are what they report: the one way to a  *)
(* spurious regeneration is a device that looks factory-fresh and is not.  *)

Ours == FreshKeys \ waived

FactoryInv == \A d \in Devices : key[d] \in FreshKeys => d \notin factory

(* A generated key stays exempt from the weak-firmware audit. *)
OriginKept ==
  \A d \in Devices \ derives : keyRow[d] = key[d] /\ key[d] \in Ours => d \in generated

(* ... also when an interrupted run's keypair is adopted by a later one. *)
AdoptedIsRecovered ==
  pc \in {"planned", "applying", "ended"} /\ decision = "adopt" /\ liveKey \in Ours
    /\ dev \notin derives => recovered

CustodyInv ==
  /\ FactoryInv /\ OriginKept /\ AdoptedIsRecovered
  /\ Custody /\ NoSpuriousRegeneration

(* Without firmware 2.8 a device's key is recorded under its one id. *)
LEMMA RecordedAtItsId ==
  ASSUME RunsInv, NEW own \in [Keys -> Devices], Affinity(own),
         NEW d \in Devices \ derives, Recorded(key[d])
  PROVE  id[d] = d /\ key[d] \in {keyRow[d], pending[d]}
<1> USE DEF RunsInv, NamesInv, TypeOK
<1>1. PICK i \in Ids : key[d] \in {keyRow[i], pending[i]}
  BY DEF Recorded
<1>2. own[key[d]] = d /\ key[d] # None
  BY NoneIsNoId DEF Affinity
<1>3. OwnerOf(own, i) = d /\ Used(i)
  BY <1>1, <1>2 DEF Affinity, FiledIsOwn, Used
<1>4. i = d
  BY <1>3 DEF OwnerOf, Affinity, ReportedId, Ids
<1> QED
  BY <1>1, <1>4 DEF IdsInv

(* What plan_node_keypair decides of a key this program generated. *)
LEMMA OursIsSpared ==
  ASSUME ~NamesVanish, RunsInv, OneHolder, HasAffinity, CustodyInv,
         NEW d \in Devices, Gather(d), key[d] \in FreshKeys \ waived'
  PROVE  /\ decision' # "regenerate"
         /\ decision' = "adopt" /\ d \notin derives => recovered'
<1> USE DEF RunsInv, NamesInv, TypeOK
<1>1. PICK force \in BOOLEAN, looksFactory \in BOOLEAN, o \in PendingIds(d) :
        /\ looksFactory <=> d \in factory \/ (NamesVanish /\ looksFactory)
        /\ decision' = Decide(d, force, looksFactory, o # None /\ pending[o] = key[d])
        /\ decision' # "none" => AdminRefs(d) = {}
        /\ recovered' = (o # None /\ pending[o] = key[d])
        /\ ForceOrNot(d, force)
  BY OptionsAssumption DEF Gather
<1>2. PICK own \in [Keys -> Devices] : Affinity(own)
  BY DEF HasAffinity
<1>3. ~force /\ key[d] \in Ours
  BY <1>1 DEF ForceOrNot, Ours
<1>4. ~looksFactory
  BY <1>1, <1>3 DEF CustodyInv, FactoryInv, Ours
<1>5. ASSUME d \notin derives
      PROVE  /\ keyRow[id[d]] = key[d] => RecordedAsGenerated(d)
             /\ keyRow[id[d]] # key[d] => o # None /\ pending[o] = key[d]
  <2>1. Recorded(key[d])
    BY <1>3 DEF CustodyInv, Custody, Ours
  <2>2. id[d] = d /\ key[d] \in {keyRow[d], pending[d]} /\ key[d] # None
    BY <1>2, <1>5, <2>1, NoneIsNoId, RecordedAtItsId
  <2>3. keyRow[d] = key[d] => d \in generated
    BY <1>3, <1>5 DEF CustodyInv, OriginKept
  <2>4. keyRow[d] # key[d] => o = d /\ pending[d] = key[d] /\ d # None
    BY <1>1, <2>2, NoneIsNoId DEF PendingIds
  <2> QED
    BY <2>2, <2>3, <2>4 DEF RecordedAsGenerated
<1>6. ASSUME AdminRefs(d) = {} PROVE Holders(key[d]) \ {id[d]} = {}
  <2>1. CASE keyRow[id[d]] = key[d]
    BY <2>1, NoneIsNoId DEF Holders, OneHolder
  <2>2. CASE keyRow[id[d]] # key[d]
    BY <1>6, <2>2 DEF AdminRefs
  <2> QED
    BY <2>1, <2>2
<1>7. decision' # "regenerate"
  <2> SUFFICES ASSUME decision' = "regenerate" PROVE FALSE
    OBVIOUS
  <2>1. Compromised(d, o # None /\ pending[o] = key[d])
    BY <1>1, <1>3, <1>4 DEF Decide
  <2>2. d \notin derives /\ ~(RecordedAsGenerated(d) \/ (o # None /\ pending[o] = key[d]))
    BY <1>1, <1>6, <2>1 DEF Compromised
  <2> QED
    BY <1>5, <2>2
<1>8. decision' = "adopt" /\ d \notin derives => recovered'
  <2> SUFFICES ASSUME decision' = "adopt", d \notin derives PROVE o # None /\ pending[o] = key[d]
    BY <1>1
  <2>1. (o # None /\ pending[o] = key[d]) \/ keyRow[id[d]] # key[d]
    BY <1>1 DEF Decide
  <2> QED
    BY <1>5, <2>1
<1> QED
  BY <1>7, <1>8

LEMMA CustodyStep ==
  ASSUME ~NamesVanish, RunsInv, OneHolder, HasAffinity, CustodyInv, TypeOK', RunsInv',
         [Next]_vars
  PROVE  CustodyInv'
<1> USE DEF RunsInv, NamesInv, TypeOK, CustodyInv
<1> USE DEF deviceVars, dbVars, planVars, applyVars, counters
<1>0. /\ None \notin Ids /\ Keys \subseteq Ids /\ Devices \subseteq Ids
      /\ FreshKeys \subseteq Keys /\ None \notin Keys /\ Devices \cap Keys = {}
      /\ FreshKeys \cap DeviceKeys = {}
  BY NoneIsNoId, KeysAssumption
<1>a. PICK own \in [Keys -> Devices] : Affinity(own)
  BY DEF HasAffinity
<1>1. ASSUME NEW d \in Devices, Gather(d) PROVE CustodyInv'
  <2>1. /\ pc' = "planned" /\ dev' = d /\ liveKey' = key[d]
        /\ UNCHANGED <<deviceVars, dbVars, pending>> /\ waived \subseteq waived'
    BY <1>1, GatherIs
  <2>2. Ours' \subseteq Ours
    BY <2>1 DEF Ours
  <2>3. key[d] \in Ours' => /\ decision' # "regenerate"
                            /\ decision' = "adopt" /\ d \notin derives => recovered'
    BY <1>1, OursIsSpared DEF Ours
  <2>4. AdoptedIsRecovered' /\ NoSpuriousRegeneration'
    BY <2>1, <2>3 DEF AdoptedIsRecovered, NoSpuriousRegeneration, Ours
  <2>5. FactoryInv' /\ OriginKept'
    BY <2>1, <2>2 DEF FactoryInv, OriginKept
  <2>6. Custody'
    BY <2>1 DEF Custody, Recorded
  <2> QED
    BY <2>4, <2>5, <2>6
<1>2. ASSUME UNCHANGED <<id, key, derives, keyRow, generated, waived>>,
             factory' \subseteq factory,
             \A i \in Ids : pending'[i] # pending[i] =>
               \A d \in Devices : key[d] \in Ours /\ pending[i] = key[d] => Recorded(key[d])',
             pc' # "planned" \/ UNCHANGED <<pc, decision, liveKey>>,
             \/ pc' \notin {"planned", "applying", "ended"}
             \/ /\ pc \in {"planned", "applying", "ended"}
                /\ UNCHANGED <<decision, liveKey, recovered, dev>>
      PROVE  CustodyInv'
  <2>1. FactoryInv' /\ OriginKept' /\ AdoptedIsRecovered' /\ NoSpuriousRegeneration'
    BY <1>2 DEF FactoryInv, OriginKept, AdoptedIsRecovered, NoSpuriousRegeneration, Ours
  <2>2. ASSUME NEW d \in Devices, key[d] \in Ours PROVE Recorded(key[d])'
    <3>1. PICK i \in Ids : key[d] \in {keyRow[i], pending[i]}
      BY <2>2 DEF Custody, Recorded, Ours
    <3>2. CASE key[d] \in {keyRow'[i], pending'[i]}
      BY <1>2, <3>2 DEF Recorded
    <3>3. CASE key[d] \notin {keyRow'[i], pending'[i]}
      BY <1>2, <2>2, <3>1, <3>3
    <3> QED
      BY <3>2, <3>3
  <2>3. Custody'
    BY <1>2, <2>2 DEF Custody, Ours, Recorded
  <2> QED
    BY <2>1, <2>3
<1>3. CASE \/ UseLiveKey \/ ApplyNames
           \/ \E p \in {"unsent", "uncertain", "recorded", "raised"} : ApplyEnd(p)
           \/ PersistFails \/ Kill
  BY <1>2, <1>3 DEF UseLiveKey, ApplyNames, ApplyEnd, PersistFails, Kill, EndRun
<1>4. CASE WriteAhead
  <2>1. /\ pc = "planned" /\ pc' = "applying" /\ decision = "regenerate"
        /\ pending' = [pending EXCEPT ![liveId] = NextDraw]
        /\ UNCHANGED <<deviceVars, dbVars, planVars, waived>>
        /\ RunIsOf(own) /\ key[dev] = liveKey
    BY <1>4, <1>a DEF WriteAhead, RunInv, DeviceAsRead, Untouched, Affinity, InRun
  <2>2. liveKey \notin Ours
    BY <2>1 DEF NoSpuriousRegeneration, Ours
  <2>3. ASSUME NEW d \in Devices, pending[liveId] = key[d] PROVE d = dev
    BY <1>a, <2>1, <2>3, NoneIsNoId DEF Affinity, FiledIsOwn, RunIsOf
  <2> QED
    BY <1>2, <2>1, <2>2, <2>3
<1>5. CASE ApplySend
  <2>1. /\ pc = "applying" /\ pc' = pc /\ decision = "regenerate" /\ ~exposed
        /\ dev \notin factory
        /\ UNCHANGED <<derives, factory, dbVars, pending, keypair, waived, planVars>>
    BY <1>5 DEF ApplySend
  <2>2. NewKeyIsNew
    BY <2>1 DEF RunInv
  <2>3. \A d \in Devices : key'[d] = key[d] \/ (d = dev /\ key'[d] = keypair)
    BY <1>5 DEF ApplySend
  <2>4. Custody'
    <3>1. ASSUME NEW d \in Devices, key'[d] \in Ours PROVE Recorded(key[d])'
      <4>1. CASE key'[d] = key[d]
        BY <2>1, <3>1, <4>1 DEF Custody, Recorded, Ours
      <4>2. CASE key'[d] # key[d]
        BY <2>1, <2>2, <2>3, <4>2 DEF Recorded, NewKeyIsNew
      <4> QED
        BY <4>1, <4>2
    <3> QED
      BY <2>1, <3>1 DEF Custody, Ours
  <2>5. FactoryInv'
    BY <2>1, <2>3 DEF FactoryInv
  <2>6. OriginKept'
    BY <1>0, <2>1, <2>2, <2>3 DEF OriginKept, Ours, NewKeyIsNew
  <2> QED
    BY <2>1, <2>4, <2>5, <2>6 DEF AdoptedIsRecovered, NoSpuriousRegeneration, Ours
<1>6. CASE Persist
  <2>1. /\ pc = "ended" /\ pc' = "persisted" /\ id[dev] \in Ids /\ RunIsOf(own)
        /\ UNCHANGED <<deviceVars, pending, planVars, keypair, waived>>
        /\ OwnerOf(own, id[dev]) = dev
    BY <1>6, <1>a, PersistIs, OwnIds DEF Persist, Affinity, InRun
  <2>2. SavedRow'
    BY <2>1 DEF RunInv
  <2>3. ASSUME NEW i \in Ids, OwnerOf(own, i) # dev PROVE keyRow'[i] = keyRow[i]
    BY <1>6, <2>1, <2>3, PersistIs DEF RunIsOf
  <2>4. ASSUME NEW d \in Devices, key[d] \in Ours PROVE Recorded(key[d])'
    <3>1. CASE d = dev
      BY <2>1, <2>2, <3>1 DEF Recorded, SavedRow
    <3>2. CASE d # dev
      <4>1. PICK i \in Ids : key[d] \in {keyRow[i], pending[i]}
        BY <2>4 DEF Custody, Recorded, Ours
      <4>2. OwnerOf(own, i) = d
        BY <1>0, <1>a, <4>1 DEF Affinity, FiledIsOwn
      <4> QED
        BY <2>1, <2>3, <3>2, <4>1, <4>2 DEF Recorded
    <3> QED
      BY <3>1, <3>2
  <2>5. Custody'
    BY <2>1, <2>4 DEF Custody, Ours
  <2>6. OriginKept'
    <3> SUFFICES ASSUME NEW d \in Devices \ derives, keyRow'[d] = key[d], key[d] \in Ours
                 PROVE  d \in generated'
      BY <2>1 DEF OriginKept, Ours
    <3>1. generated' = IF keypair = None THEN Rename(generated, liveId, id[dev])
                       ELSE IF OriginGenerated
                            THEN Rename(generated, liveId, id[dev]) \cup {id[dev]}
                            ELSE Rename(generated, liveId, id[dev]) \ {id[dev]}
      BY <1>6 DEF Persist, SavedId
    <3>2. CASE d = dev
      <4>1. id[dev] = dev
        BY <3>2 DEF IdsInv
      <4>2. CASE decision = "none"
        <5>1. keypair = None /\ liveId = dev /\ keyRow[liveId] = liveKey /\ key[dev] = liveKey
          BY <2>1, <4>1, <4>2 DEF RunInv, DeviceAsRead, DeviceIsGiven
        <5> QED
          BY <3>1, <3>2, <4>1, <5>1 DEF OriginKept, Rename
      <4>3. CASE decision # "none"
        <5>1. keypair # None
          BY <1>0, <2>1, <4>3 DEF RunInv, NewKeyIsNew
        <5>2. OriginGenerated
          BY <2>1, <3>2, <4>3 DEF OriginGenerated, AdoptedIsRecovered, RunInv, DeviceAsRead,
             DeviceIsGiven
        <5> QED
          BY <3>1, <3>2, <4>1, <5>1, <5>2
      <4> QED
        BY <4>2, <4>3
    <3>3. CASE d # dev
      <4>1. OwnerOf(own, d) = d /\ d \in Ids
        BY <1>0 DEF OwnerOf
      <4>2. d # liveId /\ d # id[dev] /\ keyRow'[d] = keyRow[d]
        BY <2>1, <2>3, <3>3, <4>1 DEF RunIsOf
      <4> QED
        BY <3>1, <4>2 DEF OriginKept, Rename
    <3> QED
      BY <3>2, <3>3
  <2> QED
    BY <2>1, <2>5, <2>6 DEF FactoryInv, AdoptedIsRecovered, NoSpuriousRegeneration
<1>7. CASE ClearPending \/ ClearOwnerPending
  <2>1. /\ pc \in {"persisted", "cleared"} /\ pc' \in {"cleared", "idle"}
        /\ UNCHANGED <<deviceVars, dbVars, waived>> /\ SavedRow /\ RunIsOf(own)
        /\ \A i \in Ids : pending'[i] # pending[i] => OwnerOf(own, i) = dev
    BY <1>7, <1>a DEF ClearPending, ClearOwnerPending, EndRun, RunInv, Affinity, InRun, RunIsOf
  <2>2. ASSUME NEW i \in Ids, pending'[i] # pending[i], NEW d \in Devices, pending[i] = key[d]
        PROVE  Recorded(key[d])'
    <3>1. d = dev
      BY <1>0, <1>a, <2>1, <2>2 DEF Affinity, FiledIsOwn
    <3> QED
      BY <2>1, <3>1 DEF SavedRow, Recorded
  <2> QED
    BY <1>2, <2>1, <2>2
<1>8. CASE NotPersisted
  <2>1. /\ pc = "ended" /\ pc' = "idle"
        /\ UNCHANGED <<deviceVars, dbVars, waived>> /\ RunIsOf(own)
    BY <1>8, <1>a DEF NotPersisted, EndRun, Affinity, InRun
  <2>2. ASSUME NEW i \in Ids, pending'[i] # pending[i], NEW d \in Devices, pending[i] = key[d]
        PROVE  FALSE
    <3>1. decision = "regenerate" /\ phase = "unsent" /\ i = liveId
      BY <1>8, <2>2 DEF NotPersisted, ClearUnsent
    <3>2. key[dev] = liveKey /\ NewKeyIsNew
      BY <2>1, <3>1 DEF RunInv, DeviceAsRead
    <3>3. d = dev
      BY <1>0, <1>a, <2>1, <2>2, <3>1 DEF Affinity, FiledIsOwn, RunIsOf
    <3> QED
      BY <2>2, <3>1, <3>2, <3>3 DEF NewKeyIsNew
  <2> QED
    BY <1>2, <2>1, <2>2
<1>9. CASE CopyPending
  <2>1. /\ pc = "moving" /\ pc' = "copied" /\ pending[liveId] = None
        /\ pending' = [pending EXCEPT ![liveId] = pending[owner]]
        /\ UNCHANGED <<deviceVars, dbVars, waived>>
    BY <1>9 DEF CopyPending, RunInv
  <2>2. ASSUME NEW i \in Ids, pending'[i] # pending[i], NEW d \in Devices, pending[i] = key[d]
        PROVE  FALSE
    BY <1>0, <2>1, <2>2
  <2> QED
    BY <1>2, <2>1, <2>2
<1>10. CASE DropPending
  <2>1. /\ pc = "copied" /\ pc' = "idle" /\ pending[liveId] = pending[owner] /\ owner # liveId
        /\ pending' = [pending EXCEPT ![owner] = None]
        /\ UNCHANGED <<deviceVars, dbVars, waived>>
    BY <1>10 DEF DropPending, EndRun, RunInv, Moving
  <2>2. ASSUME NEW i \in Ids, pending'[i] # pending[i], NEW d \in Devices, pending[i] = key[d]
        PROVE  Recorded(key[d])'
    <3>1. i = owner /\ pending'[liveId] = key[d] /\ key'[d] = key[d]
      BY <2>1, <2>2
    <3> QED
      BY <3>1 DEF Recorded
  <2> QED
    BY <1>2, <2>1, <2>2
<1>11. ASSUME NEW old \in Ids, NEW new \in Ids, DbRenumber(old, new) PROVE CustodyInv'
  <2>1. /\ pc' \in {"idle", "moving"} /\ keyRow[new] = None /\ new # old
        /\ generated' = Rename(generated, old, new)
        /\ UNCHANGED <<deviceVars, pending, waived>>
    BY <1>11, RenumberIs DEF DbRenumber, IsFree
  <2>2. \E e \in Devices : id[e] = new
    BY <1>11 DEF DbRenumber
  <2>3. new \in Keys
    BY <1>0, <1>11 DEF DbRenumber, Proven
  <2>r. /\ keyRow'[new] = keyRow[old] /\ keyRow'[old] = None
        /\ \A i \in Ids : i # old /\ i # new => keyRow'[i] = keyRow[i]
    <3> TypeOK
      OBVIOUS
    <3> HIDE DEF RunsInv, NamesInv, TypeOK, CustodyInv, deviceVars, dbVars, planVars,
                 applyVars, counters
    <3> QED
      BY <1>11, RenumberIs
  <2>4. ASSUME NEW d \in Devices, key[d] \in Ours PROVE Recorded(key[d])'
    <3>1. PICK i \in Ids : key[d] \in {keyRow[i], pending[i]}
      BY <2>4 DEF Custody, Recorded, Ours
    <3>2. CASE pending[i] = key[d]
      BY <2>1, <3>2 DEF Recorded
    <3>3. CASE keyRow[i] = key[d]
      <4>1. i # new
        BY <1>0, <2>1, <3>3
      <4>2. keyRow'[IF i = old THEN new ELSE i] = key[d]
        BY <2>r, <3>3, <4>1
      <4> QED
        BY <2>1, <4>2 DEF Recorded
    <3> QED
      BY <3>1, <3>2, <3>3
  <2>5. OriginKept'
    <3> SUFFICES ASSUME NEW d \in Devices \ derives, keyRow'[d] = key[d], key[d] \in Ours
                 PROVE  d \in generated'
      BY <2>1 DEF OriginKept, Ours
    <3>0. d \in Ids /\ d # new /\ key[d] # None
      BY <1>0, <2>3
    <3>1. d # old
      BY <2>r, <3>0
    <3>2. keyRow'[d] = keyRow[d]
      BY <2>r, <3>0, <3>1
    <3> QED
      BY <2>1, <3>0, <3>1, <3>2 DEF OriginKept, Rename
  <2>6. Custody'
    BY <2>1, <2>4 DEF Custody, Ours
  <2> QED
    BY <2>1, <2>5, <2>6 DEF FactoryInv, AdoptedIsRecovered, NoSpuriousRegeneration
<1>12. ASSUME NEW d \in Devices, Upgrade(d) PROVE CustodyInv'
  BY <1>12 DEF Upgrade, FactoryInv, OriginKept, AdoptedIsRecovered, Custody, Recorded,
    NoSpuriousRegeneration, Ours
<1>13. ASSUME NEW d \in Devices, NEW k \in DeviceKeys, SelfRekey(d, k) PROVE CustodyInv'
  <2>1. /\ pc' = "idle" /\ UNCHANGED <<derives, factory, dbVars, pending, waived>>
        /\ \A e \in Devices : key'[e] = key[e] \/ (e = d /\ key'[e] \notin FreshKeys)
    BY <1>0, <1>13 DEF SelfRekey
  <2> QED
    BY <2>1 DEF FactoryInv, OriginKept, AdoptedIsRecovered, Custody, Recorded,
      NoSpuriousRegeneration, Ours
<1>14. CASE UNCHANGED vars
  BY <1>14 DEF vars, FactoryInv, OriginKept, AdoptedIsRecovered, Custody, Recorded,
    NoSpuriousRegeneration, Ours
<1> QED
  BY <1>1, <1>3, <1>4, <1>5, <1>6, <1>7, <1>8, <1>9, <1>10, <1>11, <1>12, <1>13, <1>14
     DEF Next, HostStep, Environment, Refused

LEMMA CustodyInvariance ==
  ASSUME ~NamesVanish
  PROVE  Spec => []CustodyInv
<1>1. Init => CustodyInv
  BY BuiltInKeyAssumption, KeysAssumption
     DEF Init, CustodyInv, FactoryInv, OriginKept, AdoptedIsRecovered, Custody, Recorded,
         NoSpuriousRegeneration, Ours
<1>2. /\ RunsInv /\ OneHolder /\ HasAffinity /\ CustodyInv
      /\ TypeOK' /\ RunsInv'
      /\ [Next]_vars
      => CustodyInv'
  BY CustodyStep
<1>3. RunsInv => TypeOK
  BY DEF RunsInv, NamesInv
<1> QED
  BY <1>1, <1>2, <1>3, AffinityInvariance, PTL DEF Spec

(* While no device reports empty names it does not have, a key this        *)
(* program generated and a device holds stays recorded in the Keys sheet   *)
(* or a pending file (db/pending_keys.py), however writes, saves and runs  *)
(* are interrupted, unless an operator asked to replace it.                *)
THEOREM KeysStayInCustody ==
  ASSUME ~NamesVanish
  PROVE  Spec => []Custody
BY CustodyInvariance, PTL DEF CustodyInv

(* ... and no run decides, unasked, to replace such a key.                 *)
THEOREM NoKeyIsReplacedUnasked ==
  ASSUME ~NamesVanish
  PROVE  Spec => []NoSpuriousRegeneration
BY CustodyInvariance, PTL DEF CustodyInv

-----------------------------------------------------------------------------
AnyKey == PeerKeys \cup {NoKey}
Heard  == [known : BOOLEAN, key : AnyKey, pinned : BOOLEAN]
APlan  == [add : SUBSET Peers, pin : SUBSET Peers, unpin : SUBSET Peers]
ASync  == [step : {"idle", "writing", "reported"}, prune : BOOLEAN, readsBack : BOOLEAN,
           plan : APlan, left : APlan, failed : BOOLEAN, remaining : BOOLEAN,
           saw : [Peers -> Heard], began : Nat]

PeerTypeOK ==
  /\ fleetRows \in [active : SUBSET Peers, archived : SUBSET Peers, key : [Peers -> AnyKey]]
  /\ held \in [Peers -> Heard] /\ sync \in ASync /\ heardOf \in Nat

(* A device that has a key for a node knows the node.                      *)
KeyIsKnown == \A p \in Peers : /\ held[p].key # NoKey => held[p].known
                               /\ sync.saw[p].key # NoKey => sync.saw[p].known

(* A run that writes carries out the plan for what it saw.                 *)
PlanIsKept ==
  sync.step = "writing" =>
    /\ sync.plan # NoPlan /\ sync.plan = PlanPeers(sync.saw, sync.prune)
    /\ sync.left.add \subseteq sync.plan.add /\ sync.left.pin \subseteq sync.plan.pin
    /\ sync.began <= heardOf

(* The device is as the run saw it, but for what the plan adds and pins.   *)
OnlyAsPlanned ==
  sync.step = "writing" /\ heardOf = sync.began =>
    \A p \in Peers :
      /\ \/ held[p].key = sync.saw[p].key
         \/ sync.saw[p].key = NoKey /\ p \in sync.plan.add /\ held[p].key = fleetRows.key[p]
      /\ held[p].pinned => sync.saw[p].pinned \/ p \in sync.plan.pin

(* A quiet run has seen a device that it would do nothing to.              *)
QuietIsDone ==
  sync.step = "reported" /\ ~ReportsFailure /\ (sync.readsBack \/ sync.plan = NoPlan) =>
    PlanPeers(sync.saw, sync.prune) = NoPlan

PeerInv == PeerTypeOK /\ KeyIsKnown /\ PlanIsKept /\ OnlyAsPlanned /\ QuietIsDone

-----------------------------------------------------------------------------
LEMMA PlanType ==
  ASSUME PeerTypeOK, NEW now \in [Peers -> Heard], NEW prune \in BOOLEAN
  PROVE  PlanPeers(now, prune) \in APlan
BY DEF PeerTypeOK, PlanPeers, APlan, Concerned, Lacking

LEMMA NoPlanType == NoPlan \in APlan /\ Unheard \in Heard
BY DEF NoPlan, APlan, Unheard, Heard, AnyKey

LEMMA InitPeerInv == PeersInit => PeerInv
<1>. SUFFICES ASSUME PeersInit PROVE PeerInv
  OBVIOUS
<1>1. /\ sync = Resting /\ Resting.saw = [p \in Peers |-> Unheard] /\ Resting.step = "idle"
      /\ held = [p \in Peers |-> Unheard]
  BY DEF PeersInit, Resting
<1>2. PeerTypeOK
  BY <1>1, NoPlanType, PeerSyncAssumption DEF PeersInit, Resting, PeerTypeOK, ASync, AnyKey
<1>3. KeyIsKnown
  BY <1>1 DEF KeyIsKnown, Unheard
<1>. QED  BY <1>1, <1>2, <1>3 DEF PeerInv, PlanIsKept, OnlyAsPlanned, QuietIsDone

LEMMA BeginKeeps ==
  ASSUME PeerInv, NEW prune \in BOOLEAN, NEW readsBack \in BOOLEAN, Begin(prune, readsBack)
  PROVE  PeerInv'
<1>. DEFINE change == PlanPeers(held, prune)
<1>1. change \in APlan
  BY PlanType DEF PeerInv, PeerTypeOK
<1>2. UNCHANGED <<fleetRows, held, heardOf>>
  BY DEF Begin
<1>3. sync' = [step |-> IF change = NoPlan THEN "reported" ELSE "writing", prune |-> prune,
               readsBack |-> readsBack, plan |-> change, left |-> change, failed |-> FALSE,
               remaining |-> FALSE, saw |-> held, began |-> heardOf]
  BY DEF Begin, Resting
<1>4. change = PlanPeers(sync.saw, sync.prune)'
  <2>1. sync'.saw = held /\ sync'.prune = prune
    BY <1>3
  <2>. QED  BY <1>2, <2>1 DEF PlanPeers, Concerned, Lacking, Screened, Differs, IsShared
<1>. HIDE DEF change
<1>5. PeerTypeOK'
  BY <1>1, <1>2, <1>3 DEF PeerInv, PeerTypeOK, ASync
<1>6. KeyIsKnown'
  BY <1>2, <1>3 DEF PeerInv, KeyIsKnown
<1>7. PlanIsKept' /\ OnlyAsPlanned' /\ QuietIsDone'
  BY <1>2, <1>3, <1>4 DEF PeerInv, PeerTypeOK, PlanIsKept, OnlyAsPlanned, QuietIsDone
<1>. QED  BY <1>5, <1>6, <1>7 DEF PeerInv

(* What a run plans depends on nothing but the rows and what it saw.       *)
LEMMA PlanStays ==
  ASSUME UNCHANGED fleetRows, sync'.saw = sync.saw, sync'.prune = sync.prune
  PROVE  PlanPeers(sync.saw, sync.prune)' = PlanPeers(sync.saw, sync.prune)
BY DEF PlanPeers, Concerned, Lacking, Screened, Differs, IsShared

(* A message is sent, or not: less is left, and the device is as planned.  *)
LEMMA MessageKeeps ==
  ASSUME PeerInv, sync.step = "writing", UNCHANGED <<fleetRows, heardOf>>,
         NEW left \in APlan, NEW failed \in BOOLEAN,
         sync' = [sync EXCEPT !.left = left, !.failed = failed],
         left.add \subseteq sync.left.add, left.pin \subseteq sync.left.pin,
         held' \in [Peers -> Heard],
         \A p \in Peers :
           /\ \/ held'[p].key = held[p].key
              \/ held[p].key = NoKey /\ p \in sync.left.add /\ held'[p].key = fleetRows.key[p]
           /\ held'[p].key # NoKey => held'[p].known
           /\ held'[p].pinned => held[p].pinned \/ p \in sync.left.pin
  PROVE  PeerInv'
<1>1. /\ sync'.step = "writing" /\ sync'.plan = sync.plan /\ sync'.saw = sync.saw
      /\ sync'.left = left /\ sync'.began = sync.began /\ sync'.prune = sync.prune
  BY DEF PeerInv, PeerTypeOK, ASync
<1>2. PeerTypeOK'
  BY DEF PeerInv, PeerTypeOK, ASync
<1>3. KeyIsKnown'
  BY <1>1 DEF PeerInv, KeyIsKnown
<1>4. PlanIsKept'
  BY <1>1, PlanStays DEF PeerInv, PlanIsKept
<1>5. OnlyAsPlanned'
  BY <1>1 DEF PeerInv, PlanIsKept, OnlyAsPlanned
<1>6. QuietIsDone'
  BY <1>1 DEF QuietIsDone
<1>. QED  BY <1>2, <1>3, <1>4, <1>5, <1>6 DEF PeerInv

(* Nothing but its pin, its contact or nothing of one node changes.        *)
LEMMA SendKeeps ==
  ASSUME PeerInv, NEW p \in Peers,
         AddContact(p) \/ SetFavorite(p) \/ RemoveFavorite(p) \/ Dropped(p) \/ SendFails(p)
  PROVE  PeerInv'
<1>. USE DEF Contact, Pin, Unpin, Sent
<1>1. UNCHANGED <<fleetRows, heardOf>> /\ sync.step = "writing"
  BY DEF AddContact, SetFavorite, RemoveFavorite, Dropped, SendFails
<1>2. /\ held \in [Peers -> Heard] /\ sync \in ASync /\ fleetRows.key[p] \in AnyKey
      /\ sync.left \in APlan /\ held[p] \in Heard
  BY DEF PeerInv, PeerTypeOK, ASync
<1>3. \A q \in Peers : held[q].key # NoKey => held[q].known
  BY DEF PeerInv, KeyIsKnown
<1>4. PICK left \in APlan, failed \in BOOLEAN :
        /\ sync' = [sync EXCEPT !.left = left, !.failed = failed]
        /\ left.add \subseteq sync.left.add /\ left.pin \subseteq sync.left.pin
  <2>. DEFINE Departs(left, failed) ==
         /\ left \in APlan /\ failed \in BOOLEAN
         /\ sync' = [sync EXCEPT !.left = left, !.failed = failed]
         /\ left.add \subseteq sync.left.add /\ left.pin \subseteq sync.left.pin
  <2>1. ASSUME Sent("add", p)  PROVE Departs([sync.left EXCEPT !.add = @ \ {p}], sync.failed)
    BY <1>2, <2>1 DEF ASync, APlan
  <2>2. ASSUME Sent("pin", p)  PROVE Departs([sync.left EXCEPT !.pin = @ \ {p}], sync.failed)
    BY <1>2, <2>2 DEF ASync, APlan
  <2>3. ASSUME Sent("unpin", p)  PROVE Departs([sync.left EXCEPT !.unpin = @ \ {p}], sync.failed)
    BY <1>2, <2>3 DEF ASync, APlan
  <2>4. ASSUME SendFails(p), Unpin(p)
        PROVE  Departs([sync.left EXCEPT !.unpin = @ \ {p}], TRUE)
    BY <1>2, <2>4 DEF ASync, APlan, SendFails
  <2>5. ASSUME SendFails(p), ~Unpin(p)
        PROVE  Departs([[sync.left EXCEPT !.add = @ \ {p}] EXCEPT !.pin = @ \ {p}], TRUE)
    BY <1>2, <2>5 DEF ASync, APlan, SendFails
  <2>6. Sent("add", p) \/ Sent("pin", p) \/ Sent("unpin", p) \/ SendFails(p)
    BY DEF AddContact, SetFavorite, RemoveFavorite, Dropped
  <2>7. \E left, failed : Departs(left, failed)
    <3>. HIDE DEF Departs, Sent, Unpin
    <3>. QED  BY <2>1, <2>2, <2>3, <2>4, <2>5, <2>6
  <2>. QED  BY <2>7
<1>5. /\ held' \in [Peers -> Heard]
      /\ \A q \in Peers :
           /\ \/ held'[q].key = held[q].key
              \/ held[q].key = NoKey /\ q \in sync.left.add /\ held'[q].key = fleetRows.key[q]
           /\ held'[q].key # NoKey => held'[q].known
           /\ held'[q].pinned => held[q].pinned \/ q \in sync.left.pin
  <2>1. CASE held' = held
    BY <1>2, <1>3, <2>1
  <2>2. CASE AddContact(p)
    <3>1. /\ p \in sync.left.add
          /\ held' = [held EXCEPT ![p] =
               [known |-> TRUE, pinned |-> held[p].pinned,
                key |-> IF held[p].key = NoKey THEN fleetRows.key[p] ELSE held[p].key]]
      BY <2>2 DEF AddContact
    <3>. QED  BY <1>2, <1>3, <3>1 DEF Heard, AnyKey
  <2>3. CASE SetFavorite(p)
    <3>1. p \in sync.left.pin /\ held' = [held EXCEPT ![p].pinned = held[p].pinned \/ held[p].known]
      BY <2>3 DEF SetFavorite
    <3>. QED  BY <1>2, <1>3, <3>1 DEF Heard
  <2>4. CASE RemoveFavorite(p)
    <3>1. held' = [held EXCEPT ![p].pinned = FALSE]
      BY <2>4 DEF RemoveFavorite
    <3>. QED  BY <1>2, <1>3, <3>1 DEF Heard
  <2>. QED  BY <2>1, <2>2, <2>3, <2>4 DEF Dropped, SendFails
<1>. QED  BY <1>1, <1>4, <1>5, MessageKeeps

LEMMA ReportKeeps == ASSUME PeerInv, Report PROVE PeerInv'
<1>. DEFINE saw == IF sync.readsBack THEN held ELSE sync.saw
            remaining == sync.readsBack /\ PlanPeers(held, sync.prune) # NoPlan
<1>1. /\ UNCHANGED <<fleetRows, held, heardOf>> /\ sync.step = "writing"
      /\ sync' = [sync EXCEPT !.step = "reported", !.saw = saw, !.remaining = remaining]
  BY DEF Report
<1>2. /\ sync'.step = "reported" /\ sync'.saw = saw /\ sync'.remaining = remaining
      /\ sync'.plan = sync.plan /\ sync'.readsBack = sync.readsBack /\ sync'.prune = sync.prune
      /\ sync.readsBack \in BOOLEAN
  BY <1>1 DEF PeerInv, PeerTypeOK, ASync
<1>3. PeerTypeOK'
  BY <1>1 DEF PeerInv, PeerTypeOK, ASync
<1>4. KeyIsKnown'
  BY <1>1, <1>2 DEF PeerInv, KeyIsKnown
<1>5. QuietIsDone'
  <2>. SUFFICES ASSUME ~remaining, sync.readsBack \/ sync.plan = NoPlan
                PROVE  PlanPeers(sync.saw, sync.prune)' = NoPlan
    BY <1>2 DEF QuietIsDone, ReportsFailure
  <2>1. sync.readsBack /\ PlanPeers(held, sync.prune) = NoPlan /\ saw = held
    BY <1>1 DEF PeerInv, PlanIsKept
  <2>2. sync'.saw = held /\ sync'.prune = sync.prune /\ UNCHANGED fleetRows
    BY <1>1, <1>2, <2>1
  <2>3. PlanPeers(sync.saw, sync.prune)' = PlanPeers(held, sync.prune)
    BY <2>2 DEF PlanPeers, Concerned, Lacking, Screened, Differs, IsShared
  <2>. QED  BY <2>1, <2>3
<1>6. PlanIsKept' /\ OnlyAsPlanned'
  BY <1>2 DEF PlanIsKept, OnlyAsPlanned
<1>. QED  BY <1>3, <1>4, <1>5, <1>6 DEF PeerInv

(* The device hears or forgets: what the run planned no longer binds it.   *)
LEMMA HearingKeeps ==
  ASSUME PeerInv, NEW p \in Peers, Hears(p) \/ Forgets(p)
  PROVE  PeerInv'
<1>1. UNCHANGED <<fleetRows, sync>> /\ heardOf' = heardOf + 1
  BY DEF Hears, Forgets
<1>2. held \in [Peers -> Heard] /\ heardOf \in Nat /\ sync.began \in Nat
  BY DEF PeerInv, PeerTypeOK, ASync
<1>3. /\ held' \in [Peers -> Heard]
      /\ \A q \in Peers : held'[q].key # NoKey => held'[q].known
  <2>1. CASE Hears(p)
    <3>1. PICK k \in AnyKey : held' = [held EXCEPT ![p].known = TRUE, ![p].key = k]
      BY <2>1 DEF Hears, AnyKey
    <3>. QED  BY <1>2, <3>1 DEF Heard, PeerInv, KeyIsKnown
  <2>2. CASE Forgets(p)
    BY <1>2, <2>2, NoPlanType DEF Forgets, Unheard, PeerInv, KeyIsKnown
  <2>. QED  BY <2>1, <2>2
<1>4. PeerTypeOK' /\ KeyIsKnown'
  BY <1>1, <1>2, <1>3 DEF PeerInv, PeerTypeOK, KeyIsKnown
<1>5. PlanIsKept' /\ QuietIsDone'
  BY <1>1, <1>2, PlanStays DEF PeerInv, PlanIsKept, QuietIsDone, ReportsFailure
<1>6. OnlyAsPlanned'
  BY <1>1, <1>2 DEF PeerInv, PlanIsKept, OnlyAsPlanned
<1>. QED  BY <1>4, <1>5, <1>6 DEF PeerInv

LEMMA ArchiveKeeps ==
  ASSUME PeerInv, NEW p \in Peers, ArchivePeer(p)
  PROVE  PeerInv'
<1>1. /\ sync' = [sync EXCEPT !.step = "idle"] /\ UNCHANGED <<held, heardOf>>
      /\ fleetRows' = [fleetRows EXCEPT !.active = @ \ {p}, !.archived = @ \cup {p}]
  BY DEF ArchivePeer
<1>2. sync'.step = "idle" /\ sync'.saw = sync.saw
  BY <1>1 DEF PeerInv, PeerTypeOK, ASync
<1>3. PeerTypeOK' /\ KeyIsKnown'
  BY <1>1, <1>2 DEF PeerInv, PeerTypeOK, ASync, KeyIsKnown
<1>. QED  BY <1>2, <1>3 DEF PeerInv, PlanIsKept, OnlyAsPlanned, QuietIsDone

LEMMA NextPeerInv == PeerInv /\ [PeersNext]_peerVars => PeerInv'
<1>. SUFFICES ASSUME PeerInv, [PeersNext]_peerVars  PROVE PeerInv'
  OBVIOUS
<1>1. CASE UNCHANGED peerVars
  BY <1>1, PlanStays DEF peerVars, PeerInv, PeerTypeOK, KeyIsKnown, PlanIsKept, OnlyAsPlanned,
     QuietIsDone, ReportsFailure
<1>2. CASE \E prune, readsBack \in BOOLEAN : Begin(prune, readsBack)
  BY <1>2, BeginKeeps
<1>3. CASE \E p \in Peers : \/ AddContact(p) \/ SetFavorite(p) \/ RemoveFavorite(p)
                            \/ Dropped(p) \/ SendFails(p)
  BY <1>3, SendKeeps
<1>4. CASE \E p \in Peers : Hears(p) \/ Forgets(p)
  BY <1>4, HearingKeeps
<1>5. CASE \E p \in Peers : ArchivePeer(p)
  BY <1>5, ArchiveKeeps
<1>. QED  BY <1>1, <1>2, <1>3, <1>4, <1>5, ReportKeeps DEF PeersNext

LEMMA QuietRunSynced == PeerInv => QuietMeansSynced
<1>. SUFFICES ASSUME PeerInv, sync.step = "reported", ~ReportsFailure,
                     sync.readsBack \/ sync.plan = NoPlan,
                     NEW p \in Peers \ {Own}
              PROVE  /\ p \in fleetRows.active /\ Trusted(p, fleetRows.key[p])
                          /\ sync.saw[p].key \in {NoKey, fleetRows.key[p]} =>
                          sync.saw[p] = [known |-> TRUE, key |-> fleetRows.key[p], pinned |-> TRUE]
                     /\ sync.prune /\ p \in fleetRows.archived => ~sync.saw[p].pinned
  BY DEF QuietMeansSynced
<1>1. PlanPeers(sync.saw, sync.prune) = NoPlan
  BY DEF PeerInv, QuietIsDone
<1>2. /\ Lacking(sync.saw) = {}
      /\ \A q \in Concerned(sync.saw) : sync.saw[q].known => sync.saw[q].pinned
      /\ sync.prune => \A q \in fleetRows.archived \ {Own} : ~sync.saw[q].pinned
  BY <1>1 DEF PlanPeers, NoPlan
<1>3. sync.saw[p] \in Heard /\ (sync.saw[p].key # NoKey => sync.saw[p].known)
  BY DEF PeerInv, PeerTypeOK, ASync, KeyIsKnown
<1>4. ASSUME p \in fleetRows.active, Trusted(p, fleetRows.key[p]),
             sync.saw[p].key \in {NoKey, fleetRows.key[p]}
      PROVE  sync.saw[p] = [known |-> TRUE, key |-> fleetRows.key[p], pinned |-> TRUE]
  <2>1. fleetRows.key[p] # NoKey /\ ~Screened(p, sync.saw) /\ ~Differs(p, sync.saw)
    BY <1>4, PeerSyncAssumption DEF Trusted, Screened, Differs
  <2>2. p \in Concerned(sync.saw)
    BY <1>4, <2>1 DEF Concerned
  <2>3. sync.saw[p].key = fleetRows.key[p]
    BY <1>2, <1>4, <2>1, <2>2 DEF Lacking
  <2>. QED  BY <1>2, <1>3, <2>1, <2>2, <2>3 DEF Heard
<1>5. sync.prune /\ p \in fleetRows.archived => ~sync.saw[p].pinned
  BY <1>2
<1>. QED  BY <1>4, <1>5

LEMMA PinnedKeySound == PeerInv => PinsAreSound
<1>. SUFFICES ASSUME PeerInv, sync.step = "writing", heardOf = sync.began, NEW p \in Peers
              PROVE  LET saw == sync.saw[p]  now == held[p] IN
                     /\ saw.key # NoKey => now.key = saw.key
                     /\ now.pinned /\ ~saw.pinned =>
                          /\ p \in fleetRows.active \ {Own}
                          /\ now.key # NoKey => Trusted(p, now.key) /\ \A q \in Peers \ {p} :
                               now.key = fleetRows.key[p] \/ sync.saw[q].key # now.key
  BY DEF PinsAreSound
<1>1. /\ \/ held[p].key = sync.saw[p].key
         \/ sync.saw[p].key = NoKey /\ p \in sync.plan.add /\ held[p].key = fleetRows.key[p]
      /\ held[p].pinned => sync.saw[p].pinned \/ p \in sync.plan.pin
  BY DEF PeerInv, OnlyAsPlanned
<1>2. /\ sync.plan.add = Lacking(sync.saw)
      /\ sync.plan.pin \subseteq Concerned(sync.saw)
  BY DEF PeerInv, PlanIsKept, PlanPeers
<1>3. /\ held[p].key \in AnyKey /\ fleetRows.key[p] \in AnyKey /\ sync.saw[p].key \in AnyKey
  BY DEF PeerInv, PeerTypeOK, ASync, Heard
<1>4. ASSUME held[p].pinned, ~sync.saw[p].pinned
      PROVE  /\ p \in fleetRows.active \ {Own}
             /\ held[p].key # NoKey => Trusted(p, held[p].key) /\ \A q \in Peers \ {p} :
                  held[p].key = fleetRows.key[p] \/ sync.saw[q].key # held[p].key
  <2>1. p \in fleetRows.active \ {Own} /\ ~Screened(p, sync.saw) /\ ~Differs(p, sync.saw)
    BY <1>1, <1>2, <1>4 DEF Concerned
  <2>2. CASE fleetRows.key[p] # NoKey
    <3>1. Trusted(p, fleetRows.key[p])
      BY <1>3, <2>1, <2>2 DEF Screened, Trusted, AnyKey
    <3>2. held[p].key # NoKey => held[p].key = fleetRows.key[p]
      BY <1>1, <2>1, <2>2 DEF Differs
    <3>. QED  BY <2>1, <3>1, <3>2
  <2>3. CASE fleetRows.key[p] = NoKey
    <3>1. held[p].key = sync.saw[p].key
      BY <1>1, <2>3
    <3>. QED  BY <1>3, <2>1, <2>3, <3>1 DEF Screened, Trusted, AnyKey
  <2>. QED  BY <2>2, <2>3
<1>. QED  BY <1>1, <1>4

(* Whatever the device hears and forgets meanwhile and whichever messages  *)
(* fail or are dropped: a run of `mesh peers` that ends quietly has left   *)
(* the fleet pinned, and none pins a key that could be somebody else's.    *)
THEOREM PeersStaySynced == PeersSpec => []PeersAreSynced
<1>1. PeersSpec => []PeerInv
  BY InitPeerInv, NextPeerInv, PTL DEF PeersSpec
<1>2. PeerInv => PeersAreSynced
  BY QuietRunSynced, PinnedKeySound DEF PeersAreSynced
<1>. QED  BY <1>1, <1>2, PTL

-----------------------------------------------------------------------------
(* Connecting.  What was listed and asked fits the options (Asks), so what *)
(* select_backend makes of it does (SelectIs), and the device that was     *)
(* picked stays so (Picks); a device that was opened is not left before    *)
(* its close has begun (Closes).                                           *)

OptionSet == [interface : {Nobody, "serial", "ble", "tcp"}, port : Ports \cup {Nobody},
              address : Radios \cup {Nobody}, host : Texts \cup {Nobody},
              scan : BOOLEAN, interactive : BOOLEAN]
Targets == Ports \cup Radios \cup {ParseTcpTarget(text) : text \in Texts}
AnyDevice == [transport : {"serial", "ble", "tcp"}, at : Targets]
ConnectSteps == {"idle", "list", "confirm", "scan", "type", "select", "choose", "connect", "working",
                 "closing", "ended"}

CommandSet ==
  [step : ConnectSteps, opts : OptionSet \cup {Nobody}, ports : Seq(Ports), radios : Seq(Radios),
   scanned : BOOLEAN, asked : SUBSET {"scan", "host", "device"}, choice : Seq(AnyDevice),
   device : AnyDevice \cup {Nobody}, opened : BOOLEAN,
   outcome : {Nobody, "ok", "failed", "connect", "no device"}, closing : {"no", "runs", "done"},
   waited : 0..CloseTimeout]

(* What a choice of device says of it, as NeverAGuess. *)
Fits(opts, ports, radios, device) ==
  /\ opts.interface # Nobody => device.transport = opts.interface
  /\ NamedTargets(opts) = {"port"} => device = Device("serial", opts.port)
  /\ NamedTargets(opts) = {"address"} => device = Device("ble", opts.address)
  /\ NamedTargets(opts) = {"host"} => device.transport = "tcp"
  /\ NamedTargets(opts) = {} =>
       /\ device \in Of("serial", ports) \cup Of("ble", radios)
       /\ \A p \in Probes : device # Device("serial", p)
       /\ opts.scan /\ opts.interface = Nobody => device.transport = "ble"
       /\ device.transport = "ble" => ports = <<>>
Only(ports, radios, device) ==
  {d \in Of("serial", ports) \cup Of("ble", radios) : d.transport = device.transport} = {device}

(* Which lists a command has, by its options. *)
ListsFit(opts, ports, radios) ==
  /\ opts.interface # Nobody /\ NamedTargets(opts) # {} => ports = <<>> /\ radios = <<>>
  /\ opts.interface \in {"ble", "tcp"} => ports = <<>>
  /\ opts.interface \in {"serial", "tcp"} => radios = <<>>
  /\ opts.scan /\ opts.interface = Nobody => ports = <<>>
  /\ \A i \in DOMAIN ports : ports[i] \notin Probes

-----------------------------------------------------------------------------
LEMMA OptionsAre ==
  ASSUME NEW opts \in OptionSet
  PROVE  /\ opts.interface \in {Nobody, "serial", "ble", "tcp"}
         /\ opts.scan \in BOOLEAN /\ opts.interactive \in BOOLEAN
         /\ Nobody \notin {"serial", "ble", "tcp"} /\ Nobody \notin Texts
         /\ NamedTargets(opts) \subseteq {"port", "address", "host"}
         /\ "port" \in NamedTargets(opts) <=> opts.port # Nobody
         /\ "address" \in NamedTargets(opts) <=> opts.address # Nobody
         /\ "host" \in NamedTargets(opts) <=> opts.host # Nobody
BY ConnectingAssumption DEF OptionSet, NamedTargets

LEMMA FewNamed ==
  ASSUME NEW opts \in OptionSet
  PROVE  ~(Cardinality(NamedTargets(opts)) > 1) =>
           NamedTargets(opts) \in {{}, {"port"}, {"address"}, {"host"}}
<1> DEFINE named == NamedTargets(opts)
<1>1. named \subseteq {"port", "address", "host"}
  BY OptionsAre
<1>2. ASSUME NEW a \in named, NEW b \in named, a # b PROVE Cardinality(named) > 1
  <2>1. IsFiniteSet({"port", "address", "host"})
    <3>1. IsFiniteSet({"port"})
      BY FS_Singleton
    <3>2. IsFiniteSet({"port"} \cup {"address"})
      BY <3>1, FS_AddElement
    <3>3. IsFiniteSet(({"port"} \cup {"address"}) \cup {"host"})
      BY <3>2, FS_AddElement
    <3>4. ({"port"} \cup {"address"}) \cup {"host"} = {"port", "address", "host"}
      OBVIOUS
    <3> QED
      BY <3>3, <3>4
  <2>2. IsFiniteSet(named)
    BY <1>1, <2>1, FS_Subset
  <2>3. {a, b} \subseteq named
    BY <1>2
  <2>4. Cardinality({a, b}) = 2
    <3>1. IsFiniteSet({a}) /\ Cardinality({a}) = 1
      BY FS_Singleton
    <3>2. Cardinality({a} \cup {b}) = Cardinality({a}) + 1
      BY <1>2, <3>1, FS_AddElement
    <3>3. {a} \cup {b} = {a, b}
      OBVIOUS
    <3> QED
      BY <3>1, <3>2, <3>3
  <2>5. Cardinality({a, b}) <= Cardinality(named) /\ Cardinality(named) \in Nat
    BY <2>2, <2>3, FS_Subset, FS_CardinalityType
  <2> QED
    BY <2>4, <2>5
<1> HIDE DEF named
<1>3. ASSUME ~(Cardinality(named) > 1) PROVE named \in {{}, {"port"}, {"address"}, {"host"}}
  <2>1. \A a, b \in named : a = b
    BY <1>2, <1>3
  <2> QED
    BY <1>1, <2>1
<1> QED
  BY <1>3 DEF named

(* Among takes from its list, and the only one of it at once. *)
LEMMA AmongIs ==
  ASSUME NEW transport, NEW S, NEW list \in Seq(S), NEW forced \in BOOLEAN
  PROVE  LET a == Among(transport, list, forced) IN
         /\ a.how = "use" => /\ Len(list) = 1 /\ a.list[1] = Device(transport, list[1])
                             /\ Of(transport, list) = {a.list[1]}
         /\ a.how = "choose" => /\ a.list \in [DOMAIN list -> {Device(transport, d) : d \in S}]
                                /\ Len(a.list) = Len(list) /\ a.list \in Seq({Device(transport, d) : d \in S})
                                /\ ~forced /\ list # <<>>
                                /\ \A i \in DOMAIN a.list : i \in DOMAIN list /\ a.list[i] = Device(transport, list[i])
         /\ a.how \in {"use", "choose", "refuse"}
<1> DEFINE devices == [i \in DOMAIN list |-> Device(transport, list[i])]
<1>1. Len(list) \in Nat /\ DOMAIN list = 1..Len(list) /\ \A i \in DOMAIN list : list[i] \in S
  OBVIOUS
<1>2. /\ devices \in [DOMAIN list -> {Device(transport, d) : d \in S}]
      /\ \A i \in DOMAIN list : devices[i] = Device(transport, list[i])
  BY <1>1
<1>3. devices \in Seq({Device(transport, d) : d \in S}) /\ Len(devices) = Len(list) /\ DOMAIN devices = DOMAIN list
  BY <1>1, <1>2
<1> HIDE DEF devices
<1>4. CASE Len(list) = 1
  <2>1. Among(transport, list, forced) = [how |-> "use", list |-> <<devices[1]>>]
    BY <1>4 DEF Among, devices, Use
  <2>2. DOMAIN list = {1}
    BY <1>1, <1>4
  <2>3. Of(transport, list) = {Device(transport, list[1])}
    BY <2>2 DEF Of, ToSet
  <2>4. devices[1] = Device(transport, list[1])
    BY <1>2, <2>2
  <2> QED
    BY <1>4, <2>1, <2>3, <2>4
<1>5. CASE Len(list) # 1 /\ (list = <<>> \/ forced)
  BY <1>5 DEF Among, Refuse
<1>6. CASE Len(list) # 1 /\ ~(list = <<>> \/ forced)
  <2>1. Among(transport, list, forced) = [how |-> "choose", list |-> devices]
    BY <1>6 DEF Among, devices, Choose
  <2> QED
    BY <1>2, <1>3, <1>6, <2>1
<1> QED
  BY <1>4, <1>5, <1>6

LEMMA DevicesAre ==
  ASSUME NEW opts \in OptionSet
  PROVE  /\ \A t \in {"serial", "ble", "tcp"}, a \in Targets :
              Device(t, a) \in AnyDevice /\ Device(t, a).transport = t /\ Device(t, a).at = a
         /\ opts.port # Nobody => opts.port \in Targets
         /\ opts.address # Nobody => opts.address \in Targets
         /\ opts.host # Nobody => ParseTcpTarget(opts.host) \in Targets
         /\ Ports \subseteq Targets /\ Radios \subseteq Targets
BY DEF OptionSet, Device, AnyDevice, Targets

LEMMA SelectIs ==
  ASSUME NEW opts \in OptionSet, NEW ports \in Seq(Ports), NEW radios \in Seq(Radios),
         ListsFit(opts, ports, radios)
  PROVE  LET selected == SelectBackend(opts, ports, radios) IN
         /\ selected.how = "use" =>
              /\ selected.list[1] \in AnyDevice /\ Fits(opts, ports, radios, selected.list[1])
              /\ NamedTargets(opts) = {} => Only(ports, radios, selected.list[1])
         /\ selected.how = "choose" =>
              /\ selected.list \in Seq(AnyDevice)
              /\ \A i \in DOMAIN selected.list : Fits(opts, ports, radios, selected.list[i])
<1> DEFINE named == NamedTargets(opts)
<1>1. /\ opts.interface \in {Nobody, "serial", "ble", "tcp"}
      /\ opts.scan \in BOOLEAN
      /\ Nobody \notin {"serial", "ble", "tcp"}
      /\ named \subseteq {"port", "address", "host"}
      /\ "port" \in named <=> opts.port # Nobody
      /\ "address" \in named <=> opts.address # Nobody
      /\ "host" \in named <=> opts.host # Nobody
  BY OptionsAre
<1>2. \A a \in Targets : /\ Device("serial", a) \in AnyDevice /\ Device("serial", a).transport = "serial"
                         /\ Device("ble", a) \in AnyDevice /\ Device("ble", a).transport = "ble"
                         /\ Device("tcp", a) \in AnyDevice /\ Device("tcp", a).transport = "tcp"
  BY DevicesAre
<1>3. \A p \in Ports : p \in Targets
  BY DevicesAre
<1>4. \A r \in Radios : r \in Targets
  BY DevicesAre
<1>5. /\ DOMAIN ports = 1..Len(ports) /\ \A i \in DOMAIN ports : ports[i] \in Ports
      /\ DOMAIN radios = 1..Len(radios) /\ \A i \in DOMAIN radios : radios[i] \in Radios
      /\ Len(ports) \in Nat /\ Len(radios) \in Nat
  OBVIOUS
<1> DEFINE Good(d) == d \in AnyDevice /\ Fits(opts, ports, radios, d)
<1>6. ASSUME opts.port # Nobody, named = {"port"}, opts.interface \in {Nobody, "serial"}
      PROVE  Good(Device("serial", opts.port))
  <2>1. {"port"} # {} /\ {"port"} # {"address"} /\ {"port"} # {"host"}
    OBVIOUS
  <2>2. opts.port \in Targets
    BY <1>6, DevicesAre
  <2>3. Device("serial", opts.port) \in AnyDevice /\ Device("serial", opts.port).transport = "serial"
    BY <1>2, <2>2
  <2> QED
    BY <1>1, <1>6, <2>1, <2>3 DEF Fits
<1>7. ASSUME opts.address # Nobody, named = {"address"}, opts.interface \in {Nobody, "ble"}
      PROVE  Good(Device("ble", opts.address))
  <2>1. {"address"} # {} /\ {"address"} # {"port"} /\ {"address"} # {"host"}
    OBVIOUS
  <2> QED
    BY <1>1, <1>2, <1>7, <2>1, DevicesAre DEF Fits
<1>8. ASSUME opts.host # Nobody, named = {"host"}, opts.interface \in {Nobody, "tcp"}
      PROVE  Good(Device("tcp", ParseTcpTarget(opts.host)))
  <2>1. {"host"} # {} /\ {"host"} # {"port"} /\ {"host"} # {"address"}
    OBVIOUS
  <2> QED
    BY <1>1, <1>2, <1>8, <2>1, DevicesAre DEF Fits
<1>9. ASSUME named = {}, NEW i \in DOMAIN ports, opts.interface \in {Nobody, "serial"}
      PROVE  Good(Device("serial", ports[i]))
  <2>1. ports[i] \in Ports /\ ports[i] \notin Probes /\ ports # <<>>
    BY <1>5, <1>9 DEF ListsFit
  <2>2. Device("serial", ports[i]) \in Of("serial", ports)
    BY DEF Of, ToSet
  <2>3. \A p \in Probes : Device("serial", ports[i]) # Device("serial", p)
    BY <2>1 DEF Device
  <2>4. ~(opts.scan /\ opts.interface = Nobody)
    BY <2>1 DEF ListsFit
  <2> QED
    BY <1>1, <1>2, <1>3, <1>9, <2>1, <2>2, <2>3, <2>4 DEF Fits
<1>10. ASSUME named = {}, NEW i \in DOMAIN radios, opts.interface \in {Nobody, "ble"}, ports = <<>>
       PROVE  Good(Device("ble", radios[i]))
  <2>1. radios[i] \in Radios
    BY <1>5, <1>10
  <2>2. Device("ble", radios[i]) \in Of("ble", radios)
    BY DEF Of, ToSet
  <2>3. \A p \in Probes : Device("ble", radios[i]) # Device("serial", p)
    BY DEF Device
  <2> QED
    BY <1>1, <1>2, <1>4, <1>10, <2>1, <2>2, <2>3 DEF Fits
<1>11. ASSUME Len(ports) = 1, Of("serial", ports) = {Device("serial", ports[1])}
       PROVE  Only(ports, radios, Device("serial", ports[1]))
  <2>1. \A d \in Of("ble", radios) : d.transport = "ble"
    BY DEF Of, Device
  <2>2. Device("serial", ports[1]).transport = "serial"
    BY DEF Device
  <2> QED
    BY <1>11, <2>1, <2>2 DEF Only
<1>12. ASSUME Len(radios) = 1, Of("ble", radios) = {Device("ble", radios[1])}
       PROVE  Only(ports, radios, Device("ble", radios[1]))
  <2>1. \A d \in Of("serial", ports) : d.transport = "serial"
    BY DEF Of, Device
  <2>2. Device("ble", radios[1]).transport = "ble"
    BY DEF Device
  <2> QED
    BY <1>12, <2>1, <2>2 DEF Only
<1> DEFINE selected == SelectBackend(opts, ports, radios)
           Right(s) == /\ s.how = "use" => Good(s.list[1]) /\ (named = {} => Only(ports, radios, s.list[1]))
                       /\ s.how = "choose" =>
                            s.list \in Seq(AnyDevice) /\ \A i \in DOMAIN s.list : Fits(opts, ports, radios, s.list[i])
<1>13. ASSUME NEW d, Good(d), named # {} PROVE Right(Use(d))
  BY <1>13 DEF Use
<1>14. Right(Refuse)
  BY DEF Refuse
<1>15. ASSUME named = {}, opts.interface \in {Nobody, "serial"}, NEW f \in BOOLEAN
       PROVE  Right(Among("serial", ports, f))
  <2> DEFINE a == Among("serial", ports, f)
             Serials == {Device("serial", d) : d \in Ports}
  <2>1. /\ a.how = "use" => /\ Len(ports) = 1 /\ a.list[1] = Device("serial", ports[1])
                            /\ Of("serial", ports) = {a.list[1]}
        /\ a.how = "choose" => /\ a.list \in Seq(Serials)
                               /\ \A i \in DOMAIN a.list : i \in DOMAIN ports /\ a.list[i] = Device("serial", ports[i])
    BY AmongIs
  <2> SUFFICES Right(a)
    OBVIOUS
  <2> HIDE DEF a
  <2>2. CASE a.how = "use"
    <3>1. Len(ports) = 1
      BY <2>1, <2>2
    <3>2. 1 \in DOMAIN ports
      BY <1>5, <3>1
    <3> QED
      BY <1>9, <1>11, <1>15, <2>1, <2>2, <3>1, <3>2
  <2>3. CASE a.how = "choose"
    <3>1. Serials \subseteq AnyDevice
      BY <1>2, <1>3
    <3>2. a.list \in Seq(AnyDevice)
      BY <2>1, <2>3, <3>1
    <3>3. \A i \in DOMAIN a.list : Fits(opts, ports, radios, a.list[i])
      BY <1>9, <1>15, <2>1, <2>3
    <3> QED
      BY <2>3, <3>2, <3>3
  <2>4. CASE a.how \notin {"use", "choose"}
    BY <2>4
  <2> QED
    BY <2>2, <2>3, <2>4
<1>16. ASSUME named = {}, opts.interface \in {Nobody, "ble"}, ports = <<>>, NEW f \in BOOLEAN
       PROVE  Right(Among("ble", radios, f))
  <2> DEFINE a == Among("ble", radios, f)
             Bles == {Device("ble", d) : d \in Radios}
  <2>1. /\ a.how = "use" => /\ Len(radios) = 1 /\ a.list[1] = Device("ble", radios[1])
                            /\ Of("ble", radios) = {a.list[1]}
        /\ a.how = "choose" => /\ a.list \in Seq(Bles)
                               /\ \A i \in DOMAIN a.list : i \in DOMAIN radios /\ a.list[i] = Device("ble", radios[i])
    BY AmongIs
  <2> SUFFICES Right(a)
    OBVIOUS
  <2> HIDE DEF a
  <2>2. CASE a.how = "use"
    <3>1. Len(radios) = 1
      BY <2>1, <2>2
    <3>2. 1 \in DOMAIN radios
      BY <1>5, <3>1
    <3> QED
      BY <1>10, <1>12, <1>16, <2>1, <2>2, <3>1, <3>2
  <2>3. CASE a.how = "choose"
    <3>1. Bles \subseteq AnyDevice
      BY <1>2, <1>4
    <3>2. a.list \in Seq(AnyDevice)
      BY <2>1, <2>3, <3>1
    <3>3. \A i \in DOMAIN a.list : Fits(opts, ports, radios, a.list[i])
      BY <1>10, <1>16, <2>1, <2>3
    <3> QED
      BY <2>3, <3>2, <3>3
  <2>4. CASE a.how \notin {"use", "choose"}
    BY <2>4
  <2> QED
    BY <2>2, <2>3, <2>4
<1>17. ASSUME opts.host # Nobody, named = {"host"}, opts.interface \in {Nobody, "tcp"}
       PROVE  Right(ByHost(opts.host))
  BY <1>8, <1>13, <1>14, <1>17 DEF ByHost
<1>18. ASSUME NEW t PROVE Right(Among(t, <<>>, TRUE))
  <2>1. Among(t, <<>>, TRUE) = Refuse
    BY DEF Among
  <2> QED
    BY <1>14, <2>1
<1> HIDE DEF Good
<1>19. ASSUME Cardinality(named) > 1 PROVE Right(selected)
  <2>1. selected = Refuse
    BY <1>19 DEF SelectBackend
  <2> QED
    BY <1>14, <2>1
<1>20. ASSUME ~(Cardinality(named) > 1) PROVE Right(selected)
  <2>1. named \in {{}, {"port"}, {"address"}, {"host"}}
    BY <1>20, FewNamed
  <2>2. named # {} /\ opts.interface # Nobody => ports = <<>> /\ radios = <<>>
    BY DEF ListsFit
  <2>3. /\ opts.port # Nobody => named = {"port"}
        /\ opts.address # Nobody => named = {"address"}
        /\ opts.host # Nobody => named = {"host"}
        /\ opts.port = Nobody /\ opts.address = Nobody /\ opts.host = Nobody => named = {}
    BY <1>1, <2>1
  <2> HIDE DEF named, Right
  <2>4. CASE opts.interface = "serial"
    <3>1. selected = IF opts.port # Nobody THEN Use(Device("serial", opts.port)) ELSE Among("serial", ports, TRUE)
      BY <1>1, <1>20, <2>4 DEF SelectBackend, SelectForced, named
    <3>2. CASE opts.port # Nobody
      <4>1. Good(Device("serial", opts.port)) /\ named # {}
        BY <1>6, <2>3, <2>4, <3>2
      <4> QED
        BY <1>13, <3>1, <3>2, <4>1
    <3>3. CASE opts.port = Nobody /\ named = {}
      BY <1>15, <2>4, <3>1, <3>3
    <3>4. CASE opts.port = Nobody /\ named # {}
      <4>1. ports = <<>>
        BY <1>1, <2>2, <2>4, <3>4
      <4> QED
        BY <1>18, <3>1, <3>4, <4>1
    <3> QED
      BY <3>2, <3>3, <3>4
  <2>5. CASE opts.interface = "ble"
    <3>1. selected = IF opts.address # Nobody THEN Use(Device("ble", opts.address)) ELSE Among("ble", radios, TRUE)
      BY <1>1, <1>20, <2>5 DEF SelectBackend, SelectForced, named
    <3>2. ports = <<>>
      BY <2>5 DEF ListsFit
    <3>3. CASE opts.address # Nobody
      <4>1. Good(Device("ble", opts.address)) /\ named # {}
        BY <1>7, <2>3, <2>5, <3>3
      <4> QED
        BY <1>13, <3>1, <3>3, <4>1
    <3>4. CASE opts.address = Nobody /\ named = {}
      BY <1>16, <2>5, <3>1, <3>2, <3>4
    <3>5. CASE opts.address = Nobody /\ named # {}
      <4>1. radios = <<>>
        BY <1>1, <2>2, <2>5, <3>5
      <4> QED
        BY <1>18, <3>1, <3>5, <4>1
    <3> QED
      BY <3>3, <3>4, <3>5
  <2>6. CASE opts.interface = "tcp"
    <3>1. selected = IF opts.host # Nobody THEN ByHost(opts.host) ELSE Refuse
      BY <1>1, <1>20, <2>6 DEF SelectBackend, SelectForced, named
    <3>2. CASE opts.host # Nobody
      BY <1>17, <2>3, <2>6, <3>1, <3>2
    <3>3. CASE opts.host = Nobody
      BY <1>14, <3>1, <3>3
    <3> QED
      BY <3>2, <3>3
  <2>7. CASE opts.interface = Nobody
    <3>1. selected = IF opts.port # Nobody THEN Use(Device("serial", opts.port))
                     ELSE IF opts.address # Nobody THEN Use(Device("ble", opts.address))
                     ELSE IF opts.host # Nobody THEN ByHost(opts.host)
                     ELSE IF ports # <<>> THEN Among("serial", ports, FALSE)
                     ELSE Among("ble", radios, FALSE)
      BY <1>1, <1>20, <2>7 DEF SelectBackend, named
    <3>2. CASE opts.port # Nobody
      <4>1. Good(Device("serial", opts.port)) /\ named # {}
        BY <1>6, <2>3, <2>7, <3>2
      <4> QED
        BY <1>13, <3>1, <3>2, <4>1
    <3>3. CASE opts.port = Nobody /\ opts.address # Nobody
      <4>1. Good(Device("ble", opts.address)) /\ named # {}
        BY <1>7, <2>3, <2>7, <3>3
      <4> QED
        BY <1>13, <3>1, <3>3, <4>1
    <3>4. CASE opts.port = Nobody /\ opts.address = Nobody /\ opts.host # Nobody
      BY <1>17, <2>3, <2>7, <3>1, <3>4
    <3>5. CASE opts.port = Nobody /\ opts.address = Nobody /\ opts.host = Nobody /\ ports # <<>>
      BY <1>15, <2>3, <2>7, <3>1, <3>5
    <3>6. CASE opts.port = Nobody /\ opts.address = Nobody /\ opts.host = Nobody /\ ports = <<>>
      BY <1>16, <2>3, <2>7, <3>1, <3>6
    <3> QED
      BY <3>2, <3>3, <3>4, <3>5, <3>6
  <2> QED
    BY <1>1, <2>4, <2>5, <2>6, <2>7
<1> QED
  BY <1>19, <1>20 DEF Good
-----------------------------------------------------------------------------
Later == {"connect", "working", "closing", "ended"}

(* What every step of a command has made sure of. *)
Asks(c) ==
  LET opts == c.opts IN
  /\ opts \in OptionSet /\ ListsFit(opts, c.ports, c.radios)
  /\ c.step \in {"list", "confirm", "scan", "type"} =>
       NamedTargets(opts) = {} /\ c.ports = <<>> /\ c.radios = <<>>
  /\ c.step = "list" => opts.interface \in {Nobody, "serial"} /\ ~(opts.interface = Nobody /\ opts.scan)
  /\ c.step = "scan" => opts.interface \in {Nobody, "ble"}
  /\ c.step \in {"confirm", "type"} \/ "scan" \in c.asked => opts.interface = Nobody
  /\ c.step \in {"confirm", "type", "choose"} => opts.interactive
  /\ ~opts.interactive => c.asked = {}
  /\ c.step = "choose" => \A i \in DOMAIN c.choice : Fits(opts, c.ports, c.radios, c.choice[i])
Picks(c) ==
  c.device # Nobody =>
    /\ c.step \in Later /\ Fits(c.opts, c.ports, c.radios, c.device)
    /\ NamedTargets(c.opts) = {} => "device" \in c.asked \/ Only(c.ports, c.radios, c.device)
Closes(c) ==
  /\ c.opened => c.step \in {"working", "closing", "ended"}
  /\ c.step = "closing" \/ (c.step = "ended" /\ c.opened) => c.outcome \in {"ok", "failed"} /\ c.closing # "no"

SoundCommand(c) ==
  /\ c \in CommandSet
  /\ c.step = "idle" => c = Quiet
  /\ c.step # "idle" => Asks(c)
  /\ Picks(c) /\ Closes(c)

ConnectInv == attached \in SUBSET Ports /\ inRange \in SUBSET Radios /\ SoundCommand(command)

LEMMA QuietIs == SoundCommand(Quiet)
<1>1. <<>> \in Seq(Ports) /\ <<>> \in Seq(Radios) /\ <<>> \in Seq(AnyDevice) /\ 0 \in 0..CloseTimeout
  BY ConnectingAssumption
<1>2. Quiet \in CommandSet
  BY <1>1 DEF Quiet, CommandSet, ConnectSteps
<1> QED
  BY <1>2 DEF Quiet, SoundCommand, Picks, Closes

LEMMA SortedIs ==
  ASSUME NEW S, NEW T \in SUBSET S, IsFiniteSet(S), NEW Before(_, _), NEW list \in Sorted(T, Before)
  PROVE  list \in Seq(S) /\ \A i \in DOMAIN list : list[i] \in T
<1>1. Cardinality(T) \in Nat
  BY FS_Subset, FS_CardinalityType
<1>2. list \in [1..Cardinality(T) -> T]
  BY DEF Sorted, SetToSeqs
<1> QED
  BY <1>1, <1>2

LEMMA StartSound ==
  ASSUME SoundCommand(command), NEW opts \in Options, Start(opts) PROVE SoundCommand(command')
<1>1. opts \in OptionSet
  BY ConnectingAssumption DEF OptionSet
<1>2. command = Quiet
  BY DEF Start, SoundCommand
<1> DEFINE step == IF NamedTargets(opts) # {} \/ opts.interface = "tcp" THEN "select"
                   ELSE IF opts.interface = "ble" \/ (opts.interface = Nobody /\ opts.scan) THEN "scan"
                   ELSE "list"
<1>3. command' = [Quiet EXCEPT !.opts = opts, !.step = step]
  BY <1>2 DEF Start
<1>4. step \in ConnectSteps \ {"idle"}
  BY DEF ConnectSteps
<1>5. command' \in CommandSet
  BY <1>1, <1>3, <1>4, QuietIs DEF SoundCommand, CommandSet
<1>6. /\ command'.opts = opts /\ command'.step = step /\ command'.ports = <<>> /\ command'.radios = <<>>
      /\ command'.asked = {} /\ command'.device = Nobody /\ command'.opened = FALSE
  BY <1>3 DEF Quiet
<1>7. ListsFit(opts, <<>>, <<>>)
  BY DEF ListsFit
<1>8. step \in {"select", "scan", "list"} /\ opts.interface \in {Nobody, "serial", "ble", "tcp"}
  BY <1>1, OptionsAre
<1>9. Asks(command')
  <2>1. step \in {"list", "scan"} => NamedTargets(opts) = {} /\ opts.interface # "tcp"
    OBVIOUS
  <2>2. step = "scan" => opts.interface \in {Nobody, "ble"}
    OBVIOUS
  <2>3. step = "list" => opts.interface \in {Nobody, "serial"} /\ ~(opts.interface = Nobody /\ opts.scan)
    BY <1>8
  <2> HIDE DEF step
  <2> QED
    BY <1>1, <1>6, <1>7, <1>8, <2>1, <2>2, <2>3 DEF Asks
<1> HIDE DEF step
<1> QED
  BY <1>4, <1>5, <1>6, <1>8, <1>9 DEF SoundCommand, Picks, Closes

(* A step that only looks for devices keeps what they were chosen by. *)
LEMMA LookSound ==
  ASSUME NEW c \in CommandSet, NEW n \in CommandSet, Closes(c), Picks(c),
         c.step \notin Later, n.step # "idle", n.device = c.device, n.opened = c.opened, Asks(n),
         n.step \notin {"working", "closing", "ended"}
  PROVE  SoundCommand(n)
<1>1. c.device = Nobody /\ c.opened = FALSE
  BY DEF Picks, Closes, Later, CommandSet
<1> QED
  BY <1>1 DEF SoundCommand, Picks, Closes

LEMMA ListPortsSound ==
  ASSUME ConnectInv, ListPorts PROVE SoundCommand(command')
<1>1. PICK found \in SerialPorts(attached) :
        command' = [command EXCEPT !.ports = found,
          !.step = IF command.opts.interface = Nobody /\ found = <<>> /\ command.opts.interactive
                   THEN "confirm" ELSE "select"]
  BY DEF ListPorts
<1> DEFINE step == IF command.opts.interface = Nobody /\ found = <<>> /\ command.opts.interactive
                   THEN "confirm" ELSE "select"
<1>2. found \in Seq(Ports) /\ \A i \in DOMAIN found : found[i] \in attached \ Probes
  BY SortedIs, ConnectingAssumption DEF SerialPorts, ConnectInv
<1>3. /\ command \in CommandSet /\ command.step = "list" /\ Asks(command) /\ Closes(command) /\ Picks(command)
  BY DEF ListPorts, ConnectInv, SoundCommand
<1>4. step \in {"confirm", "select"} /\ (step = "confirm" =>
        command.opts.interface = Nobody /\ found = <<>> /\ command.opts.interactive)
  OBVIOUS
<1>5. command' = [command EXCEPT !.ports = found, !.step = step]
  BY <1>1
<1> HIDE DEF step
<1>6. /\ command' \in CommandSet /\ command'.ports = found /\ command'.step = step
      /\ command'.opts = command.opts /\ command'.radios = command.radios /\ command'.asked = command.asked
      /\ command'.device = command.device /\ command'.opened = command.opened
  BY <1>2, <1>3, <1>4, <1>5 DEF CommandSet, ConnectSteps
<1>7. /\ command.opts \in OptionSet /\ NamedTargets(command.opts) = {} /\ command.radios = <<>>
      /\ command.opts.interface \in {Nobody, "serial"}
      /\ ~(command.opts.interface = Nobody /\ command.opts.scan)
      /\ ~command.opts.interactive => command.asked = {}
      /\ "scan" \in command.asked => command.opts.interface = Nobody
  BY <1>3 DEF Asks
<1>8. ListsFit(command.opts, found, <<>>)
  BY <1>2, <1>7, OptionsAre DEF ListsFit
<1>9. Asks(command')
  BY <1>4, <1>6, <1>7, <1>8 DEF Asks
<1> QED
  BY <1>3, <1>4, <1>6, <1>9, LookSound DEF Later

LEMMA ConfirmSound ==
  ASSUME ConnectInv, NEW answer \in BOOLEAN, Confirm(answer) PROVE SoundCommand(command')
<1> DEFINE step == IF answer THEN "scan" ELSE "type"
<1>1. /\ command \in CommandSet /\ command.step = "confirm" /\ Asks(command) /\ Closes(command) /\ Picks(command)
  BY DEF Confirm, ConnectInv, SoundCommand
<1>2. command' = [command EXCEPT !.asked = command.asked \cup {"scan"}, !.step = step]
  BY <1>1 DEF Confirm
<1>3. step \in {"scan", "type"}
  OBVIOUS
<1> HIDE DEF step
<1>4. /\ command' \in CommandSet /\ command'.step = step /\ command'.asked = command.asked \cup {"scan"}
      /\ command'.opts = command.opts /\ command'.radios = command.radios /\ command'.ports = command.ports
      /\ command'.device = command.device /\ command'.opened = command.opened
  BY <1>1, <1>2, <1>3 DEF CommandSet, ConnectSteps
<1>5. Asks(command')
  BY <1>1, <1>3, <1>4 DEF Asks
<1> QED
  BY <1>1, <1>3, <1>4, <1>5, LookSound DEF Later

LEMMA ScanSound ==
  ASSUME ConnectInv, Scan PROVE SoundCommand(command')
<1>1. PICK found \in BleDevices(inRange) :
        command' = [command EXCEPT !.radios = found, !.scanned = TRUE,
          !.step = IF found = <<>> /\ "scan" \in command.asked THEN "type" ELSE "select"]
  BY DEF Scan
<1> DEFINE step == IF found = <<>> /\ "scan" \in command.asked THEN "type" ELSE "select"
<1>2. found \in Seq(Radios)
  <2>1. inRange \cap Advertise \in SUBSET Radios /\ IsFiniteSet(Radios)
    BY ConnectingAssumption DEF ConnectInv
  <2> QED
    BY <2>1, SortedIs DEF BleDevices
<1>3. /\ command \in CommandSet /\ command.step = "scan" /\ Asks(command) /\ Closes(command) /\ Picks(command)
  BY DEF Scan, ConnectInv, SoundCommand
<1>4. step \in {"type", "select"} /\ (step = "type" => found = <<>> /\ "scan" \in command.asked)
  OBVIOUS
<1>5. command' = [command EXCEPT !.radios = found, !.scanned = TRUE, !.step = step]
  BY <1>1
<1> HIDE DEF step
<1>6. /\ command' \in CommandSet /\ command'.radios = found /\ command'.step = step
      /\ command'.opts = command.opts /\ command'.ports = command.ports /\ command'.asked = command.asked
      /\ command'.device = command.device /\ command'.opened = command.opened
  BY <1>2, <1>3, <1>4, <1>5 DEF CommandSet, ConnectSteps
<1>7. /\ command.opts \in OptionSet /\ NamedTargets(command.opts) = {} /\ command.ports = <<>>
      /\ command.opts.interface \in {Nobody, "ble"}
      /\ ~command.opts.interactive => command.asked = {}
      /\ "scan" \in command.asked => command.opts.interface = Nobody
  BY <1>3 DEF Asks
<1>8. ListsFit(command.opts, <<>>, found)
  BY <1>7, OptionsAre DEF ListsFit
<1>9. Asks(command')
  BY <1>4, <1>6, <1>7, <1>8 DEF Asks
<1> QED
  BY <1>3, <1>4, <1>6, <1>9, LookSound DEF Later

LEMMA TypeHostSound ==
  ASSUME ConnectInv, NEW text \in Texts \cup {<<>>}, TypeHost(text) PROVE SoundCommand(command')
<1>1. /\ command \in CommandSet /\ command.step = "type" /\ Asks(command) /\ Closes(command) /\ Picks(command)
  BY DEF TypeHost, ConnectInv, SoundCommand
<1>2. command.opts \in OptionSet
  BY <1>1 DEF Asks
<1> DEFINE host == IF text = <<>> THEN command.opts.host ELSE text
           opts == [command.opts EXCEPT !.host = host]
<1>3. opts \in OptionSet /\ opts.interface = command.opts.interface /\ opts.interactive = command.opts.interactive
  BY <1>2 DEF OptionSet
<1>4. command' = [command EXCEPT !.asked = command.asked \cup {"host"}, !.step = "select", !.opts = opts]
  BY <1>1, <1>2 DEF TypeHost, CommandSet, OptionSet
<1> HIDE DEF opts
<1>5. /\ command' \in CommandSet /\ command'.step = "select" /\ command'.asked = command.asked \cup {"host"}
      /\ command'.opts = opts /\ command'.radios = command.radios /\ command'.ports = command.ports
      /\ command'.device = command.device /\ command'.opened = command.opened
  BY <1>1, <1>3, <1>4 DEF CommandSet, ConnectSteps
<1>6. /\ command.opts.interface = Nobody /\ command.opts.interactive
      /\ command.ports = <<>> /\ command.radios = <<>>
  BY <1>1 DEF Asks
<1>7. Nobody \notin {"serial", "ble", "tcp"}
  BY ConnectingAssumption
<1>8. ListsFit(opts, <<>>, <<>>)
  BY DEF ListsFit
<1>9. Asks(command')
  BY <1>3, <1>5, <1>6, <1>8 DEF Asks
<1> QED
  BY <1>1, <1>5, <1>9, LookSound DEF Later

LEMMA SelectSound ==
  ASSUME ConnectInv, Select PROVE SoundCommand(command')
<1> DEFINE selected == SelectBackend(command.opts, command.ports, command.radios)
<1>1. /\ command \in CommandSet /\ command.step = "select" /\ Asks(command) /\ Closes(command) /\ Picks(command)
  BY DEF Select, ConnectInv, SoundCommand
<1>2. /\ command.opts \in OptionSet /\ ListsFit(command.opts, command.ports, command.radios)
      /\ command.ports \in Seq(Ports) /\ command.radios \in Seq(Radios)
      /\ command.device = Nobody /\ command.opened = FALSE
      /\ ~command.opts.interactive => command.asked = {}
      /\ "scan" \in command.asked => command.opts.interface = Nobody
  BY <1>1 DEF Asks, CommandSet, Picks, Closes, Later
<1>3. /\ selected.how = "use" =>
           /\ selected.list[1] \in AnyDevice /\ Fits(command.opts, command.ports, command.radios, selected.list[1])
           /\ NamedTargets(command.opts) = {} => Only(command.ports, command.radios, selected.list[1])
      /\ selected.how = "choose" =>
           /\ selected.list \in Seq(AnyDevice)
           /\ \A i \in DOMAIN selected.list : Fits(command.opts, command.ports, command.radios, selected.list[i])
  BY <1>2, SelectIs
<1>4. \/ selected.how = "use" /\ command' = [command EXCEPT !.device = selected.list[1], !.step = "connect"]
      \/ /\ selected.how = "choose" /\ command.opts.interactive
         /\ command' = [command EXCEPT !.choice = selected.list, !.step = "choose"]
      \/ command' = [command EXCEPT !.step = "ended", !.outcome = "no device"]
  BY DEF Select, Fail
<1> HIDE DEF selected
<1>5. CASE selected.how = "use" /\ command' = [command EXCEPT !.device = selected.list[1], !.step = "connect"]
  <2>1. /\ command' \in CommandSet /\ command'.step = "connect" /\ command'.device = selected.list[1]
        /\ command'.opts = command.opts /\ command'.radios = command.radios /\ command'.ports = command.ports
        /\ command'.asked = command.asked /\ command'.opened = FALSE
    BY <1>1, <1>2, <1>3, <1>5 DEF CommandSet, ConnectSteps
  <2>2. Asks(command')
    BY <1>2, <2>1 DEF Asks
  <2>3. Picks(command') /\ Closes(command')
    BY <1>3, <1>5, <2>1 DEF Picks, Closes, Later
  <2> QED
    BY <2>1, <2>2, <2>3 DEF SoundCommand
<1>6. CASE /\ selected.how = "choose" /\ command.opts.interactive
           /\ command' = [command EXCEPT !.choice = selected.list, !.step = "choose"]
  <2>1. /\ command' \in CommandSet /\ command'.step = "choose" /\ command'.device = Nobody
        /\ command'.opts = command.opts /\ command'.radios = command.radios /\ command'.ports = command.ports
        /\ command'.asked = command.asked /\ command'.opened = FALSE /\ command'.choice = selected.list
    BY <1>1, <1>2, <1>3, <1>6 DEF CommandSet, ConnectSteps
  <2>2. Asks(command')
    BY <1>2, <1>3, <1>6, <2>1 DEF Asks
  <2>3. Picks(command') /\ Closes(command')
    BY <2>1 DEF Picks, Closes
  <2> QED
    BY <2>1, <2>2, <2>3 DEF SoundCommand
<1>7. CASE command' = [command EXCEPT !.step = "ended", !.outcome = "no device"]
  <2>1. /\ command' \in CommandSet /\ command'.step = "ended" /\ command'.device = Nobody
        /\ command'.opts = command.opts /\ command'.radios = command.radios /\ command'.ports = command.ports
        /\ command'.asked = command.asked /\ command'.opened = FALSE
    BY <1>1, <1>2, <1>7 DEF CommandSet, ConnectSteps
  <2>2. Asks(command')
    BY <1>2, <2>1 DEF Asks
  <2>3. Picks(command') /\ Closes(command')
    BY <2>1 DEF Picks, Closes
  <2> QED
    BY <2>1, <2>2, <2>3 DEF SoundCommand
<1> QED
  BY <1>4, <1>5, <1>6, <1>7

LEMMA ChoosesSound ==
  ASSUME ConnectInv, NEW index, Chooses(index) PROVE SoundCommand(command')
<1>1. /\ command \in CommandSet /\ command.step = "choose" /\ Asks(command) /\ Closes(command)
      /\ index \in DOMAIN command.choice
  BY DEF Chooses, ConnectInv, SoundCommand
<1>2. command.choice \in Seq(AnyDevice) /\ command.choice[index] \in AnyDevice
  <2>1. command.choice \in Seq(AnyDevice)
    BY <1>1 DEF CommandSet
  <2>2. index \in 1..Len(command.choice)
    BY <1>1, <2>1
  <2> QED
    BY <2>1, <2>2, ElementOfSeq
<1>3. command' = [command EXCEPT !.asked = command.asked \cup {"device"}, !.device = command.choice[index],
                                 !.step = "connect"]
  BY <1>1 DEF Chooses
<1>4. /\ command' \in CommandSet /\ command'.step = "connect" /\ command'.device = command.choice[index]
      /\ command'.opts = command.opts /\ command'.radios = command.radios /\ command'.ports = command.ports
      /\ command'.asked = command.asked \cup {"device"} /\ command'.opened = command.opened
  BY <1>1, <1>2, <1>3 DEF CommandSet, ConnectSteps
<1>5. /\ Asks(command') /\ Fits(command.opts, command.ports, command.radios, command.choice[index])
  BY <1>1, <1>4 DEF Asks
<1>6. command.opened = FALSE
  BY <1>1 DEF Closes, CommandSet
<1>7. Picks(command') /\ Closes(command')
  BY <1>4, <1>5, <1>6 DEF Picks, Closes, Later
<1> QED
  BY <1>4, <1>5, <1>7 DEF SoundCommand

(* The steps that open and close a device change nothing of the choice. *)
LEMMA AfterSound ==
  ASSUME ConnectInv,
         LookupFails \/ Connect \/ ConnectFails \/ (\E how \in {"ok", "failed"} : Works(how))
           \/ CloseEnds \/ Waits \/ Leaves
  PROVE  SoundCommand(command')
<1>1. command \in CommandSet /\ Closes(command) /\ Picks(command) /\ (command.step # "idle" => Asks(command))
      /\ (command.step = "idle" => command = Quiet)
  BY DEF ConnectInv, SoundCommand
<1> DEFINE Same(n) == /\ n.opts = command.opts /\ n.radios = command.radios /\ n.ports = command.ports
                      /\ n.asked = command.asked /\ n.device = command.device
<1>2. ASSUME Same(command'), command' \in CommandSet, command.step # "idle", Closes(command'),
             command'.step \in {"working", "closing", "ended"}
      PROVE  SoundCommand(command')
  <2>1. Asks(command')
    BY <1>1, <1>2 DEF Asks
  <2>2. Picks(command')
    BY <1>1, <1>2 DEF Picks, Later
  <2> QED
    BY <1>2, <2>1, <2>2 DEF SoundCommand
<1>3. CASE LookupFails \/ ConnectFails
  <2>1. PICK error \in {"no device", "connect"} : command' = [command EXCEPT !.step = "ended", !.outcome = error]
    BY <1>3 DEF LookupFails, ConnectFails, Fail
  <2>2. command.step \in {"list", "scan", "connect"}
    BY <1>3 DEF LookupFails, ConnectFails
  <2>3. /\ Same(command') /\ command' \in CommandSet /\ command'.step = "ended" /\ command'.opened = command.opened
    BY <1>1, <2>1 DEF CommandSet, ConnectSteps
  <2>4. Closes(command')
    BY <1>1, <2>2, <2>3 DEF Closes
  <2> QED
    BY <1>2, <2>2, <2>3, <2>4
<1>4. CASE Connect
  <2>1. command.step = "connect" /\ command' = [command EXCEPT !.step = "working", !.opened = TRUE]
    BY <1>4 DEF Connect
  <2>2. Same(command') /\ command' \in CommandSet /\ command'.step = "working"
    BY <1>1, <2>1 DEF CommandSet, ConnectSteps
  <2>3. Closes(command')
    BY <2>2 DEF Closes
  <2> QED
    BY <1>2, <2>1, <2>2, <2>3
<1>5. CASE \E how \in {"ok", "failed"} : Works(how)
  <2>1. PICK how \in {"ok", "failed"} :
          command' = [command EXCEPT !.step = "closing", !.outcome = how, !.closing = "runs"]
    BY <1>5 DEF Works
  <2>2. command.step = "working"
    BY <1>5 DEF Works
  <2>3. /\ Same(command') /\ command' \in CommandSet /\ command'.step = "closing"
        /\ command'.outcome = how /\ command'.closing = "runs"
    BY <1>1, <2>1 DEF CommandSet, ConnectSteps
  <2>4. Closes(command')
    BY <2>3 DEF Closes
  <2> QED
    BY <1>2, <2>2, <2>3, <2>4
<1>6. CASE Waits
  <2>1. /\ command.step = "closing" /\ command' = [command EXCEPT !.waited = command.waited + 1]
        /\ command.waited < CloseTimeout /\ command.waited \in 0..CloseTimeout /\ CloseTimeout \in Nat
    BY <1>1, <1>6, ConnectingAssumption DEF Waits, CommandSet
  <2>2. command.waited + 1 \in 0..CloseTimeout
    BY <2>1
  <2>3. /\ Same(command') /\ command' \in CommandSet /\ command'.step = "closing"
        /\ command'.outcome = command.outcome /\ command'.closing = command.closing
    BY <1>1, <2>1, <2>2 DEF CommandSet
  <2>4. Closes(command')
    BY <1>1, <2>1, <2>3 DEF Closes
  <2> QED
    BY <1>2, <2>1, <2>3, <2>4
<1>7. CASE Leaves
  <2>1. command.step = "closing" /\ command' = [command EXCEPT !.step = "ended"]
    BY <1>7 DEF Leaves
  <2>2. /\ Same(command') /\ command' \in CommandSet /\ command'.step = "ended"
        /\ command'.outcome = command.outcome /\ command'.closing = command.closing
    BY <1>1, <2>1 DEF CommandSet, ConnectSteps
  <2>3. Closes(command')
    BY <1>1, <2>1, <2>2 DEF Closes
  <2> QED
    BY <1>2, <2>1, <2>2, <2>3
<1>8. CASE CloseEnds
  <2>1. command.closing = "runs" /\ command' = [command EXCEPT !.closing = "done"]
    BY <1>8 DEF CloseEnds
  <2>2. /\ Same(command') /\ command' \in CommandSet /\ command'.step = command.step
        /\ command'.outcome = command.outcome /\ command'.closing = "done" /\ command'.opened = command.opened
        /\ command'.choice = command.choice
    BY <1>1, <2>1 DEF CommandSet
  <2>3. command.step # "idle"
    BY <1>1, <2>1 DEF Quiet
  <2>4. Asks(command')
    BY <1>1, <2>2, <2>3 DEF Asks
  <2>5. Picks(command') /\ Closes(command')
    BY <1>1, <2>2 DEF Picks, Closes
  <2> QED
    BY <2>2, <2>3, <2>4, <2>5 DEF SoundCommand
<1> QED
  BY <1>3, <1>4, <1>5, <1>6, <1>7, <1>8

LEMMA ConnectInvariance == ConnectSpec => []ConnectInv
<1>1. ConnectInit => ConnectInv
  BY QuietIs DEF ConnectInit, ConnectInv
<1>2. ConnectInv /\ [ConnectNext]_connectVars => ConnectInv'
  <2> SUFFICES ASSUME ConnectInv, [ConnectNext]_connectVars PROVE ConnectInv'
    OBVIOUS
  <2>1. attached' \in SUBSET Ports /\ inRange' \in SUBSET Radios
    BY DEF ConnectInv, ConnectNext, connectVars, Start, ListPorts, Scan, LookupFails, Select, Connect, ConnectFails,
           Confirm, TypeHost, Chooses, Works, CloseEnds, Waits, Leaves, Moves
  <2>2. CASE UNCHANGED connectVars \/ Moves
    BY <2>1, <2>2 DEF ConnectInv, connectVars, Moves
  <2>3. ASSUME NEW opts \in Options, Start(opts) PROVE SoundCommand(command')
    BY <2>3, StartSound DEF ConnectInv
  <2> QED
    BY <2>1, <2>2, <2>3, ListPortsSound, ScanSound, AfterSound, SelectSound, ConfirmSound, TypeHostSound, ChoosesSound
       DEF ConnectInv, ConnectNext
<1> QED
  BY <1>1, <1>2, PTL DEF ConnectSpec

LEMMA ChoiceIsTold ==
  ASSUME ConnectInv PROVE NeverAGuess /\ CloseNeverHides
<1>1. command \in CommandSet /\ Picks(command) /\ Closes(command) /\ (command.step # "idle" => Asks(command))
  BY DEF ConnectInv, SoundCommand
<1>2. CloseNeverHides
  <2>1. command.waited \in 0..CloseTimeout
    BY <1>1 DEF CommandSet
  <2>2. command.waited <= CloseTimeout
    BY <2>1, ConnectingAssumption
  <2> QED
    BY <1>1, <2>2 DEF CloseNeverHides, Closes
<1>3. ASSUME command.device # Nobody PROVE NeverAGuess
  <2>1. command.step # "idle"
    BY <1>1, <1>3 DEF Picks, Later
  <2>2. /\ Fits(command.opts, command.ports, command.radios, command.device)
        /\ NamedTargets(command.opts) = {} =>
              "device" \in command.asked \/ Only(command.ports, command.radios, command.device)
        /\ ~command.opts.interactive => command.asked = {}
    BY <1>1, <1>3, <2>1 DEF Picks, Asks
  <2> QED
    BY <2>2 DEF NeverAGuess, Fits, Only
<1> QED
  BY <1>2, <1>3 DEF NeverAGuess

-----------------------------------------------------------------------------
(* TargetsAreExact.  What parse_tcp_target accepts is a host of words and  *)
(* a port; with brackets around a colon, the last colon of its text is the *)
(* one before the port.                                                    *)

LEMMA LeastIs ==
  ASSUME NEW n \in Nat, NEW S \in SUBSET (1..n), S # {} PROVE Min(S) \in S
<1>1. S \subseteq Nat
  OBVIOUS
<1>2. PICK x \in S : \A y \in S : ~(<<y, x>> \in OpToRel(<, Nat))
  BY <1>1, NatLessThanWellFounded, WFMin
<1>3. ASSUME NEW y \in S PROVE x <= y
  <2>1. x \in Nat /\ y \in Nat /\ <<y, x>> \in Nat \X Nat
    BY <1>1, <1>2
  <2>2. ~(y < x)
    BY <1>2, <2>1 DEF OpToRel
  <2> QED
    BY <2>1, <2>2
<1> QED
  BY <1>2, <1>3 DEF Min

(* The greatest is what the least number above all is. *)
LEMMA GreatestOf ==
  ASSUME NEW n \in Nat, NEW S \in SUBSET (0..n), S # {}
  PROVE  Max(S) \in S /\ \A y \in S : y <= Max(S)
<1> DEFINE Above == {k \in 0..n : \A y \in S : y <= k}
<1>0. S \subseteq 0..n /\ \E y \in S : y \in 0..n
  OBVIOUS
<1>1. Above \in SUBSET (0..n) /\ n \in Above
  <2>1. n \in 0..n /\ \A y \in S : y <= n
    BY <1>0
  <2> QED
    BY <2>1
<1>2. PICK k \in Above : \A m \in Above : ~(<<m, k>> \in OpToRel(<, Nat))
  <2>1. Above \subseteq Nat /\ Above # {}
    BY <1>1
  <2> QED
    BY <2>1, NatLessThanWellFounded, WFMin
<1>3. ASSUME NEW m \in Above PROVE k <= m
  <2> HIDE DEF Above
  <2>0. k \in 0..n /\ m \in 0..n
    BY <1>1, <1>2
  <2>1. k \in Nat /\ m \in Nat /\ <<m, k>> \in Nat \X Nat
    BY <2>0
  <2>2. ~(m < k)
    BY <1>2, <2>1 DEF OpToRel
  <2> QED
    BY <2>1, <2>2
<1>4. k \in S
  <2> SUFFICES ASSUME k \notin S PROVE FALSE
    OBVIOUS
  <2>1. PICK s \in S : s \in 0..n
    BY <1>0
  <2>2. k \in 0..n /\ \A y \in S : y \in 0..n /\ y <= k /\ y # k
    BY <1>0, <1>2
  <2>3. s <= k - 1 /\ k - 1 \in 0..n
    BY <2>1, <2>2
  <2>4. \A y \in S : y <= k - 1
    BY <2>2
  <2>5. k - 1 \in Above
    BY <2>3, <2>4
  <2>6. k <= k - 1
    BY <1>3, <2>5
  <2> QED
    BY <2>2, <2>6
<1>5. Max(S) \in S /\ \A y \in S : Max(S) >= y
  <2>1. \A y \in S : k >= y
    BY <1>0, <1>2
  <2> QED
    BY <1>4, <2>1 DEF Max
<1> QED
  BY <1>0, <1>5

(* ReadbackIsTrue.  What is kept of a name that does not fit, BytesOf      *)
(* counts; what is taken for a float, the tolerance; what is taken for     *)
(* admin keys in another order, a bijection.                               *)

LEMMA GreatestIs ==
  ASSUME NEW n \in Nat, NEW S \in SUBSET (1..n), S # {} PROVE Max(S) \in S
<1>1. S \in SUBSET (0..n)
  OBVIOUS
<1> QED
  BY <1>1, GreatestOf

-----------------------------------------------------------------------------
LEMMA WordsAre ==
  /\ \A text \in Texts \cup Addresses : text \in Seq(Words)
  /\ \A word \in HostNames \cup DOMAIN PortNumber : word \in Words /\ word \notin {"[", "]", ":"}
BY WordsAssumption DEF Marks

(* A host there can be has no brackets, and with a colon it is an address. *)
LEMMA HostsAre ==
  ASSUME NEW host \in Seq(Words), ValidHost(host)
  PROVE  /\ host # <<>> /\ \A i \in DOMAIN host : host[i] \notin {"[", "]"}
         /\ HostIn(host) = host
<1>1. CASE host \in Addresses
  <2>1. host # <<>> /\ \A i \in DOMAIN host : host[i] \notin {"[", "]"}
    BY <1>1, WordsAssumption
  <2>2. 1 \in DOMAIN host
    BY <2>1
  <2> QED
    BY <2>1, <2>2 DEF HostIn
<1>2. CASE Len(host) = 1 /\ host[1] \in HostNames
  <2>1. host # <<>> /\ DOMAIN host = {1} /\ host[1] \notin {"[", "]"}
    BY <1>2, WordsAre
  <2> QED
    BY <1>2, <2>1 DEF HostIn
<1> QED
  BY <1>1, <1>2 DEF ValidHost

IsTarget(target) ==
  target # Nobody =>
    target \in [host : {host \in Seq(Words) : ValidHost(host)}, port : 1..MaxPort]

LEMMA TargetIs ==
  ASSUME NEW host \in Seq(Words), NEW port
  PROVE  /\ IsTarget(Target(host, port))
         /\ ValidHost(host) /\ port \in 1..MaxPort => Target(host, port) = [host |-> host, port |-> port]
<1>1. HostIn(host) \in Seq(Words)
  BY SubSeqProperties DEF HostIn
<1>2. IsTarget(Target(host, port))
  BY <1>1 DEF Target, IsTarget
<1>3. ASSUME ValidHost(host), port \in 1..MaxPort
      PROVE  Target(host, port) = [host |-> host, port |-> port]
  BY <1>3, HostsAre DEF Target
<1> QED
  BY <1>2, <1>3

LEMMA ParsedIs ==
  ASSUME NEW text \in Seq(Words) PROVE IsTarget(ParseTcpTarget(text))
<1>1. Len(text) \in Nat /\ \A i \in 1..Len(text) : text[i] \in Words
  OBVIOUS
<1>2. \A mark : Positions(text, mark) \in SUBSET (1..Len(text))
  BY DEF Positions
<1>3. ASSUME NEW i \in 1..2, NEW j \in 1..Len(text) PROVE SubSeq(text, i, j - 1) \in Seq(Words)
  BY <1>1, <1>3, SubSeqProperties
<1>4. IsTarget(Nobody)
  BY DEF IsTarget
<1>5. ASSUME Positions(text, ":") # {} PROVE IsTarget(AtLastColon(text))
  <2> DEFINE spot == Max(Positions(text, ":"))
  <2>1. spot \in 1..Len(text)
    BY <1>1, <1>2, <1>5, GreatestIs
  <2>2. AtLastColon(text) = Target(SubSeq(text, 1, spot - 1), PortIn(From(text, spot + 1)))
    BY DEF AtLastColon
  <2> HIDE DEF spot
  <2>3. SubSeq(text, 1, spot - 1) \in Seq(Words)
    BY <1>3, <2>1
  <2> QED
    BY <2>2, <2>3, TargetIs
<1>6. IsTarget(InBrackets(text))
  <2> DEFINE closing == Min(Positions(text, "]"))
             host    == SubSeq(text, 2, closing - 1)
  <2>1. CASE Positions(text, "]") = {}
    BY <1>4, <2>1 DEF InBrackets
  <2>2. CASE Positions(text, "]") # {}
    <3>1. closing \in 1..Len(text)
      BY <1>1, <1>2, <2>2, LeastIs
    <3>2. host \in Seq(Words)
      <4> HIDE DEF closing
      <4> QED
        BY <1>3, <3>1
    <3>3. InBrackets(text) \in {Target(host, DefaultPort), Target(host, PortIn(From(text, closing + 2))), Nobody}
      BY <2>2 DEF InBrackets
    <3> HIDE DEF host, closing
    <3> QED
      BY <1>4, <3>2, <3>3, TargetIs
  <2> QED
    BY <2>1, <2>2
<1>7. IsTarget(Target(text, DefaultPort))
  BY TargetIs
<1> QED
  BY <1>4, <1>5, <1>6, <1>7 DEF ParseTcpTarget

LEMMA PortInIs ==
  ASSUME NEW digits \in DOMAIN PortNumber PROVE PortIn(<<digits>>) = PortNumber[digits]
BY DEF PortIn

LEMMA AloneIs ==
  ASSUME NEW n \in Nat, NEW i \in 1..n PROVE Min({i}) = i /\ Max({i}) = i
<1>1. {i} \in SUBSET (1..n) /\ {i} # {}
  OBVIOUS
<1>2. Min({i}) \in {i} /\ Max({i}) \in {i}
  BY <1>1, LeastIs, GreatestIs
<1> QED
  BY <1>2

LEMMA OnlyIs ==
  ASSUME NEW S, NEW s \in Seq(S), Len(s) = 1, NEW x \in S, s[1] = x PROVE s = <<x>>
<1>1. <<x>> \in Seq(S) /\ Len(<<x>>) = 1 /\ <<x>>[1] = x
  OBVIOUS
<1>2. \A i \in 1..1 : i = 1
  OBVIOUS
<1> QED
  BY <1>1, <1>2, SeqEqual

(* An address with colons is shown in brackets. *)
LEMMA BracketsReadBack ==
  ASSUME NEW host \in Seq(Words), ValidHost(host), NEW digits \in DOMAIN PortNumber,
         PortNumber[digits] \in 1..MaxPort
  PROVE  ParseTcpTarget(<<"[">> \o host \o <<"]", ":", digits>>) = [host |-> host, port |-> PortNumber[digits]]
<1> DEFINE n == Len(host)
           text == <<"[">> \o host \o <<"]", ":", digits>>
<1>1. digits \in Words /\ digits \notin {"[", "]", ":"}
  BY WordsAre
<1>2. /\ n \in Nat /\ \A i \in 1..n : host[i] \in Words /\ host[i] # "]"
  BY HostsAre
<1>3. "[" \in Words /\ "]" \in Words /\ ":" \in Words
  BY WordsAssumption DEF Marks
<1>4. /\ text \in Seq(Words) /\ Len(text) = n + 4 /\ text[1] = "["
      /\ \A i \in 1..n : text[i + 1] = host[i]
      /\ text[n + 2] = "]" /\ text[n + 3] = ":" /\ text[n + 4] = digits
  <2>1. /\ <<"[">> \o host \in Seq(Words) /\ Len(<<"[">> \o host) = n + 1
        /\ (<<"[">> \o host)[1] = "[" /\ \A i \in 1..n : (<<"[">> \o host)[i + 1] = host[i]
    BY <1>2, <1>3
  <2>2. <<"]", ":", digits>> \in Seq(Words) /\ Len(<<"]", ":", digits>>) = 3
    BY <1>1, <1>3
  <2> QED
    BY <1>2, <2>1, <2>2
<1>5. \A i \in 1..(n + 4) : i = 1 \/ i = n + 2 \/ i = n + 3 \/ i = n + 4 \/ i - 1 \in 1..n
  BY <1>2
<1>6. \A i \in 1..(n + 4) : text[i] = "]" <=> i = n + 2
  <2> SUFFICES ASSUME NEW i \in 1..(n + 4), i # n + 2 PROVE text[i] # "]"
    BY <1>4
  <2>1. CASE i - 1 \in 1..n
    BY <1>2, <1>4, <2>1
  <2>2. CASE i = 1 \/ i = n + 3 \/ i = n + 4
    BY <1>1, <1>4, <2>2
  <2> QED
    BY <1>5, <2>1, <2>2
<1> HIDE DEF text
<1>7. Positions(text, "]") = {n + 2}
  BY <1>2, <1>4, <1>6 DEF Positions
<1>8. Min(Positions(text, "]")) = n + 2
  BY <1>2, <1>7, AloneIs, n + 4 \in Nat, n + 2 \in 1..(n + 4)
<1>9. SubSeq(text, 2, n + 1) = host
  <2>1. /\ SubSeq(text, 2, n + 1) \in Seq(Words) /\ Len(SubSeq(text, 2, n + 1)) = n
        /\ \A i \in 1..n : SubSeq(text, 2, n + 1)[i] = text[i + 1]
    BY <1>2, <1>4
  <2> QED
    BY <1>4, <2>1, SeqEqual
<1>10. From(text, n + 4) = <<digits>>
  <2> DEFINE rest == SubSeq(text, n + 4, n + 4)
  <2>1. rest \in Seq(Words) /\ Len(rest) = 1 /\ rest[1] = digits
    BY <1>2, <1>4
  <2> HIDE DEF rest
  <2>2. rest = <<digits>>
    BY <1>1, <2>1, OnlyIs
  <2> USE DEF rest
  <2> QED
    BY <1>4, <2>2 DEF From
<1>11. /\ n + 2 - 1 = n + 1 /\ n + 2 + 1 = n + 3 /\ n + 2 + 2 = n + 4 /\ n + 2 # n + 4
  BY <1>2
<1>12. InBrackets(text) = Target(host, PortNumber[digits])
  <2> DEFINE closing == Min(Positions(text, "]"))
  <2>1. closing = n + 2 /\ Positions(text, "]") # {}
    BY <1>7, <1>8
  <2>2. closing - 1 = n + 1 /\ closing + 1 = n + 3 /\ closing + 2 = n + 4 /\ closing # Len(text)
    BY <1>4, <1>11, <2>1
  <2>3. InBrackets(text) = IF closing = Len(text) THEN Target(SubSeq(text, 2, closing - 1), DefaultPort)
                           ELSE IF text[closing + 1] = ":"
                                THEN Target(SubSeq(text, 2, closing - 1), PortIn(From(text, closing + 2)))
                                ELSE Nobody
    BY <2>1 DEF InBrackets
  <2> HIDE DEF closing
  <2>4. InBrackets(text) = Target(SubSeq(text, 2, n + 1), PortIn(From(text, n + 4)))
    BY <1>4, <2>2, <2>3
  <2> QED
    BY <1>9, <1>10, <2>4, PortInIs
<1>13. ParseTcpTarget(text) = InBrackets(text)
  BY <1>2, <1>4 DEF ParseTcpTarget
<1> QED
  BY <1>12, <1>13, TargetIs DEF text

LEMMA PlainReadsBack ==
  ASSUME NEW host \in Seq(Words), ValidHost(host), NEW digits \in DOMAIN PortNumber,
         PortNumber[digits] \in 1..MaxPort, Positions(host, ":") = {}
  PROVE  ParseTcpTarget(host \o <<":", digits>>) = [host |-> host, port |-> PortNumber[digits]]
<1> DEFINE n == Len(host)
           text == host \o <<":", digits>>
<1>1. digits \in Words /\ digits \notin {"[", "]", ":"}
  BY WordsAre
<1>2. /\ n \in Nat /\ n > 0 /\ host[1] # "[" /\ \A i \in 1..n : host[i] \in Words /\ host[i] # ":"
  BY HostsAre DEF Positions
<1>3. ":" \in Words
  BY WordsAssumption DEF Marks
<1>4. /\ text \in Seq(Words) /\ Len(text) = n + 2 /\ \A i \in 1..n : text[i] = host[i]
      /\ text[n + 1] = ":" /\ text[n + 2] = digits
  <2>1. <<":", digits>> \in Seq(Words) /\ Len(<<":", digits>>) = 2
    BY <1>1, <1>3
  <2> QED
    BY <1>2, <2>1
<1>5. \A i \in 1..(n + 2) : text[i] = ":" <=> i = n + 1
  <2> SUFFICES ASSUME NEW i \in 1..(n + 2), i # n + 1 PROVE text[i] # ":"
    BY <1>4
  <2>1. i \in 1..n \/ i = n + 2
    BY <1>2
  <2> QED
    BY <1>1, <1>2, <1>4, <2>1
<1> HIDE DEF text
<1>6. Positions(text, ":") = {n + 1} /\ DOMAIN text = 1..(n + 2)
  BY <1>2, <1>4, <1>5 DEF Positions
<1>7. text \notin Addresses
  <2>1. n + 1 \in DOMAIN text /\ ~(\E j \in DOMAIN text : text[j] = ":" /\ j # n + 1)
    BY <1>2, <1>5, <1>6
  <2> QED
    BY <1>4, <2>1, WordsAssumption
<1>8. Max(Positions(text, ":")) = n + 1
  BY <1>2, <1>6, AloneIs, n + 2 \in Nat, n + 1 \in 1..(n + 2)
<1>9. SubSeq(text, 1, n) = host
  <2>1. /\ SubSeq(text, 1, n) \in Seq(Words) /\ Len(SubSeq(text, 1, n)) = n
        /\ \A i \in 1..n : SubSeq(text, 1, n)[i] = text[i]
    BY <1>2, <1>4
  <2> QED
    BY <1>4, <2>1, SeqEqual
<1>10. From(text, n + 2) = <<digits>>
  <2> DEFINE rest == SubSeq(text, n + 2, n + 2)
  <2>1. rest \in Seq(Words) /\ Len(rest) = 1 /\ rest[1] = digits
    BY <1>2, <1>4
  <2> HIDE DEF rest
  <2>2. rest = <<digits>>
    BY <1>1, <2>1, OnlyIs
  <2> USE DEF rest
  <2> QED
    BY <1>4, <2>2 DEF From
<1>11. n + 1 - 1 = n /\ n + 1 + 1 = n + 2
  BY <1>2
<1>12. AtLastColon(text) = Target(host, PortNumber[digits])
  <2>1. AtLastColon(text) = Target(SubSeq(text, 1, n + 1 - 1), PortIn(From(text, n + 1 + 1)))
    BY <1>8 DEF AtLastColon
  <2> QED
    BY <1>9, <1>10, <1>11, <2>1, PortInIs
<1>13. text # <<>> /\ text[1] # "["
  BY <1>2, <1>4
<1>14. ParseTcpTarget(text) = AtLastColon(text)
  BY <1>6, <1>7, <1>13 DEF ParseTcpTarget
<1> QED
  BY <1>12, <1>14, TargetIs DEF text

LEMMA TargetsReadBack == TargetsAreExact
<1> SUFFICES ASSUME NEW text \in Texts
             PROVE  LET target == ParseTcpTarget(text) IN
                    /\ target # Nobody =>
                         /\ target.port \in 1..MaxPort /\ ValidHost(target.host)
                         /\ \A digits \in DOMAIN PortNumber :
                              PortNumber[digits] = target.port => ParseTcpTarget(Shown(target, digits)) = target
                    /\ text \in Addresses => target = [host |-> text, port |-> DefaultPort]
  BY DEF TargetsAreExact
<1>1. text \in Seq(Words)
  BY WordsAre
<1>2. ASSUME text \in Addresses PROVE ParseTcpTarget(text) = [host |-> text, port |-> DefaultPort]
  <2>1. ValidHost(text) /\ DefaultPort \in 1..MaxPort
    BY <1>2, ConnectingAssumption DEF ValidHost
  <2>2. text # <<>> /\ text[1] # "["
    BY <1>1, <2>1, HostsAre
  <2>3. ParseTcpTarget(text) = Target(text, DefaultPort)
    BY <1>2, <2>2 DEF ParseTcpTarget
  <2> QED
    BY <1>1, <2>1, <2>3, TargetIs
<1>3. ASSUME NEW target, target = ParseTcpTarget(text), target # Nobody
      PROVE  /\ target.port \in 1..MaxPort /\ ValidHost(target.host)
             /\ \A digits \in DOMAIN PortNumber :
                  PortNumber[digits] = target.port => ParseTcpTarget(Shown(target, digits)) = target
  <2>1. target \in [host : {host \in Seq(Words) : ValidHost(host)}, port : 1..MaxPort]
    BY <1>1, <1>3, ParsedIs DEF IsTarget
  <2>2. /\ target.host \in Seq(Words) /\ ValidHost(target.host) /\ target.port \in 1..MaxPort
        /\ target = [host |-> target.host, port |-> target.port]
    BY <2>1
  <2>3. ASSUME NEW digits \in DOMAIN PortNumber, PortNumber[digits] = target.port
        PROVE  ParseTcpTarget(Shown(target, digits)) = target
    BY <2>2, <2>3, BracketsReadBack, PlainReadsBack DEF Shown
  <2> QED
    BY <2>2, <2>3
<1> QED
  BY <1>2, <1>3

(* ConnectsAsTold: the device a command opens is the one its options name, *)
(* the only one found, or the one the operator pointed at; it is closed    *)
(* within the timeout without hiding what the command came to; and a TCP   *)
(* target is shown as a text that means it again.                          *)
THEOREM ConnectionStaysTold == ConnectSpec => []ConnectsAsTold
<1>1. ConnectInv => ConnectsAsTold
  BY ChoiceIsTold, TargetsReadBack DEF ConnectsAsTold
<1> QED
  BY <1>1, ConnectInvariance, PTL

-----------------------------------------------------------------------------
(* PlanIsRight.  What is planned again of what a run left is computed from *)
(* what that run computed: field for field, nothing is left to change.     *)

LEMMA SetupIs ==
  ASSUME NEW s \in Setups
  PROVE  /\ LiveFields \subseteq DOMAIN s.live /\ Modules \subseteq DOMAIN s.live.modules
         /\ s.live.admins \in [AdminKeys -> Nat] /\ DOMAIN s.template.fields \subseteq DOMAIN s.live.fields
         /\ Named(s.template.admins) \subseteq AdminNodes
         /\ s.template.admins # <<>> <=> Named(s.template.admins) # {}
         /\ s.opts.pin # Nothing /\ RecordOf(s) # Nothing
         /\ {s.live.managed, s.live.private, s.live.flawed, s.template.managed, s.opts.force,
             s.opts.recovered, s.opts.allowWeak, s.opts.allowLockdown} \subseteq BOOLEAN
         /\ s.row # Nothing => s.row.generated \in BOOLEAN
<1>1. s.template.admins \in Seq(AdminNodes)
  BY SetupsAssumption
<1> DEFINE given == s.template.admins
<1>2. /\ Named(given) \subseteq AdminNodes
      /\ given # <<>> <=> Named(given) # {}
  <2> HIDE DEF given
  <2>1. given \in Seq(AdminNodes)
    BY <1>1 DEF given
  <2>2. Len(given) \in Nat /\ \A i \in 1..Len(given) : given[i] \in AdminNodes
    BY <2>1
  <2>3. given # <<>> <=> Len(given) > 0
    BY <2>1, EmptySeq
  <2>4. Len(given) > 0 => given[1] \in Named(given)
    BY <2>2 DEF Named
  <2>5. Named(given) \subseteq AdminNodes /\ (Named(given) # {} => Len(given) > 0)
    BY <2>2 DEF Named
  <2> QED
    BY <2>3, <2>4, <2>5
<1> QED
  BY <1>2, SetupsAssumption, RowAssumption

(* What the device is after the changes.                                      *)
LEMMA AfterIs ==
  ASSUME NEW s \in Setups
  PROVE  LET live == s.live  changes == PlanOf(s)  after == After(s) IN
         /\ after.silent = changes.silent /\ after.pin = PinOf(s.row, s.opts)
         /\ after.channel = IF changes.channel THEN s.template.channel ELSE live.channel
         /\ after.adminChannel = FALSE /\ after.hasPolicy = live.hasPolicy
         /\ after.policy = IF "policy" \in changes.security THEN s.template.policy ELSE live.policy
         /\ after.managed = Lockdown(live, s.template, s.opts)
         /\ after.key = IF changes.key = "regenerate" THEN NewKey ELSE live.key
         /\ after.private = TRUE /\ after.flawed = live.flawed /\ after.admins = changes.admins
         /\ after.fields =
              [f \in DOMAIN live.fields |-> IF f \in changes.fields THEN s.template.fields[f] ELSE live.fields[f]]
         /\ after.modules =
              [m \in DOMAIN live.modules |->
                 IF m \in changes.toggles THEN s.template.options[m] ELSE live.modules[m]]
BY SetupIs DEF After, Applied, LiveFields

(* What its row is.                                                        *)
LEMMA RecordedIs ==
  ASSUME NEW s \in Setups
  PROVE  LET changes == PlanOf(s)  after == After(s)  row == RecordOf(s) IN
         /\ row.short = Stripped[after.short] /\ row.long = Stripped[after.long]
         /\ row.key = after.key
         /\ row.generated = (changes.key = "regenerate" \/ s.opts.recovered
                               \/ (changes.key = "keep" /\ s.row.generated))
         /\ row.pin = IF changes.pin THEN PinOf(s.row, s.opts)
                      ELSE IF s.row = Nothing THEN Nothing ELSE s.row.pin
         /\ s.template.admins # <<>> => row.admins = Authorized(s.template, s.opts)
BY DEF RecordOf, ToRecord, RecordedName

(* What the plan was.                                                      *)
LEMMA PlanIs ==
  ASSUME NEW s
  PROVE  LET live == s.live  changes == PlanOf(s) IN
         /\ changes.silent = IF s.template.silent = Nothing THEN live.silent ELSE s.template.silent
         /\ changes.fields = Diff(s.template.fields, live.fields)
         /\ changes.toggles = Toggles(live, s.template)
         /\ changes.pin = PinDiffers(live, s.row, s.opts)
         /\ changes.channel = ChannelDiffers(live, s.template)
         /\ changes.security = SecurityFields(live, s.template, s.opts)
         /\ changes.key = KeyDecision(live, s.row, s.opts)
         /\ changes.admins = DesiredAdmins(live, s.template, s.opts)
BY DEF PlanOf, BuildPlan

(* The admin keys a plan asks for: asked of the device that has them, they *)
(* are the same.                                                           *)
LEMMA AdminsAre ==
  ASSUME NEW s \in Setups
  PROVE  LET allowed == DesiredAdmins(s.live, s.template, s.opts)
             named  == Named(s.template.admins) IN
         /\ allowed \in [AdminKeys -> Nat]
         /\ DesiredAdmins(After(s), s.template, s.opts) = allowed
         /\ \A k \in AdminKeys : allowed[k] > 0 =>
              /\ k \notin UnusableKeys /\ (k \in WeakKeys => s.opts.allowWeak)
              /\ k \in WeakKeys => \E r \in named : KeyOf[r] = k
         /\ \A r \in named : KeyOf[r] \notin WeakKeys => allowed[KeyOf[r]] > 0
         /\ s.template.admins # <<>> =>
              {KeyOf[r] : r \in Authorized(s.template, s.opts)} = {k \in AdminKeys : allowed[k] > 0}
<1> DEFINE allowed == DesiredAdmins(s.live, s.template, s.opts)
           named  == Named(s.template.admins)
           given  == Authorized(s.template, s.opts)
<1>1. /\ s.live.admins \in [AdminKeys -> Nat] /\ named \subseteq AdminNodes
      /\ s.template.admins # <<>> <=> named # {}
  BY SetupIs
<1>2. KeyOf \in [AdminNodes -> AdminKeys] /\ UnusableKeys \subseteq WeakKeys
  BY DevicePlanAssumption
<1>3. given = {r \in named : KeyOf[r] \notin WeakKeys \/ (s.opts.allowWeak /\ KeyOf[r] \notin UnusableKeys)}
  BY DEF Authorized
<1>4. CASE s.template.admins = <<>>
  <2>1. allowed = [k \in AdminKeys |-> IF k \in WeakKeys THEN 0 ELSE s.live.admins[k]]
    BY <1>4 DEF DesiredAdmins
  <2>2. DesiredAdmins(After(s), s.template, s.opts)
          = [k \in AdminKeys |-> IF k \in WeakKeys THEN 0 ELSE After(s).admins[k]]
    BY <1>4 DEF DesiredAdmins
  <2>3. After(s).admins = allowed
    BY AfterIs, PlanIs
  <2> HIDE DEF allowed
  <2>4. DesiredAdmins(After(s), s.template, s.opts) = allowed
    BY <2>1, <2>2, <2>3
  <2>5. allowed \in [AdminKeys -> Nat] /\ \A k \in AdminKeys : allowed[k] > 0 => k \notin WeakKeys
    BY <1>1, <2>1
  <2> QED
    BY <1>1, <1>2, <1>4, <2>4, <2>5 DEF allowed
<1>5. CASE s.template.admins # <<>>
  <2>1. allowed = [k \in AdminKeys |-> IF \E r \in given : KeyOf[r] = k THEN 1 ELSE 0]
    BY <1>5 DEF DesiredAdmins
  <2>2. DesiredAdmins(After(s), s.template, s.opts) = allowed
    BY <1>5 DEF DesiredAdmins
  <2> HIDE DEF allowed, given, named
  <2>3. allowed \in [AdminKeys -> Nat] /\ \A k \in AdminKeys : allowed[k] > 0 <=> \E r \in given : KeyOf[r] = k
    BY <2>1
  <2>4. \A r \in given : r \in named /\ KeyOf[r] \in AdminKeys
    BY <1>1, <1>2, <1>3
  <2>5. {KeyOf[r] : r \in given} = {k \in AdminKeys : allowed[k] > 0}
    BY <2>3, <2>4
  <2>6. \A k \in AdminKeys : allowed[k] > 0 =>
              /\ k \notin UnusableKeys /\ (k \in WeakKeys => s.opts.allowWeak)
              /\ k \in WeakKeys => \E r \in named : KeyOf[r] = k
    BY <1>2, <1>3, <2>3
  <2>7. \A r \in named : KeyOf[r] \notin WeakKeys => allowed[KeyOf[r]] > 0
    BY <1>1, <1>2, <1>3, <2>3
  <2> QED
    BY <2>2, <2>3, <2>5, <2>6, <2>7 DEF allowed, given, named
<1> QED
  BY <1>4, <1>5

(* A key that is kept is sound: nobody has it, and where the firmware      *)
(* makes poor ones, this program made it.                                  *)
LEMMA KeyIs ==
  ASSUME NEW s \in Setups
  PROVE  /\ After(s).key = RecordOf(s).key /\ After(s).key # Nothing
         /\ After(s).key \notin WeakKeys \cup FleetKeys
         /\ After(s).flawed => RecordOf(s).generated
<1> DEFINE choice == KeyDecision(s.live, s.row, s.opts)
<1>1. /\ After(s).key = IF choice = "regenerate" THEN NewKey ELSE s.live.key
      /\ RecordOf(s).key = After(s).key /\ After(s).flawed = s.live.flawed
      /\ RecordOf(s).generated = (choice = "regenerate" \/ s.opts.recovered
                                    \/ (choice = "keep" /\ s.row.generated))
  <2>1. PlanOf(s).key = choice
    BY PlanIs
  <2> HIDE DEF choice
  <2>2. /\ After(s).key = IF choice = "regenerate" THEN NewKey ELSE s.live.key
        /\ After(s).flawed = s.live.flawed
    BY <2>1, AfterIs
  <2>3. /\ RecordOf(s).key = After(s).key
        /\ RecordOf(s).generated = (choice = "regenerate" \/ s.opts.recovered
                                      \/ (choice = "keep" /\ s.row.generated))
    BY <2>1, RecordedIs
  <2> QED
    BY <2>2, <2>3
<1>2. CASE choice = "regenerate"
  BY <1>1, <1>2, DevicePlanAssumption
<1>3. CASE choice # "regenerate"
  <2>1. /\ s.live.key # Nothing /\ ~NodeKeyCompromised(s.live, s.row, s.opts)
        /\ ~s.opts.recovered /\ s.row # Nothing /\ s.row.key = s.live.key => choice = "keep"
    BY <1>3 DEF KeyDecision
  <2>2. s.live.key \notin WeakKeys \cup FleetKeys
    BY <2>1 DEF NodeKeyCompromised
  <2>3. s.live.flawed => s.opts.recovered \/ (choice = "keep" /\ s.row.generated)
    BY <2>1 DEF NodeKeyCompromised, HostGenerated
  <2> HIDE DEF choice
  <2>4. After(s).flawed => RecordOf(s).generated
    BY <1>1, <2>3
  <2> QED
    BY <1>1, <1>3, <2>1, <2>2, <2>4
<1> QED
  BY <1>2, <1>3

(* The options of the second run.                                          *)
AgainFor(s) ==
  [s.opts EXCEPT !.force = FALSE, !.short = Nothing, !.long = Nothing, !.recovered = FALSE]

LEMMA KeyStays ==
  ASSUME NEW s \in Setups
  PROVE  KeyDecision(After(s), RecordOf(s), AgainFor(s)) = "keep"
<1> DEFINE live == After(s)
           row  == RecordOf(s)
           opts == AgainFor(s)
<1>1. opts.force = FALSE /\ opts.recovered = FALSE
  BY DEF AgainFor
<1>2. row # Nothing /\ live.private = TRUE
  BY SetupIs, AfterIs
<1>3. /\ live.key = row.key /\ live.key # Nothing /\ live.key \notin WeakKeys \cup FleetKeys
      /\ live.flawed => row.generated
  BY KeyIs
<1> HIDE DEF live, row, opts
<1>4. Classify(live, row) # "factory"
  BY <1>2 DEF Classify
<1>5. ~NodeKeyCompromised(live, row, opts)
  BY <1>2, <1>3 DEF NodeKeyCompromised, HostGenerated
<1>6. KeyDecision(live, row, opts) = "keep"
  BY <1>1, <1>2, <1>3, <1>4, <1>5 DEF KeyDecision
<1> QED
  BY <1>6 DEF live, row, opts

(* A name recorded without the white space around it is the live one.      *)
LEMMA NamesStay ==
  ASSUME NEW s \in Setups
  PROVE  LET changes == BuildPlan(After(s), RecordOf(s), s.template, AgainFor(s)) IN
         changes.short = After(s).short /\ changes.long = After(s).long
<1> DEFINE live == After(s)
           row  == RecordOf(s)
           opts == AgainFor(s)
<1>1. opts.short = Nothing /\ opts.long = Nothing
  BY DEF AgainFor
<1>2. row # Nothing /\ row.short = Stripped[live.short] /\ row.long = Stripped[live.long]
  BY SetupIs, RecordedIs
<1>3. row["short"] = row.short /\ row["long"] = row.long /\ live["short"] = live.short /\ live["long"] = live.long
  OBVIOUS
<1> HIDE DEF live, row, opts
<1>4. /\ DesiredName(opts.short, row, live, "short") = live.short
      /\ DesiredName(opts.long, row, live, "long") = live.long
  BY <1>1, <1>2, <1>3 DEF DesiredName, NameOrLive
<1>5. LET changes == BuildPlan(live, row, s.template, opts) IN
      changes.short = live.short /\ changes.long = live.long
  BY <1>4 DEF BuildPlan
<1> QED
  BY <1>5 DEF live, row, opts

(* What differed was written, and the lockdown asked for is in force.      *)
LEMMA FieldsStay ==
  ASSUME NEW s \in Setups
  PROVE  /\ Diff(s.template.fields, After(s).fields) = {}
         /\ Toggles(After(s), s.template) = {}
         /\ ~ChannelDiffers(After(s), s.template)
         /\ SecurityFields(After(s), s.template, AgainFor(s)) = {}
<1> DEFINE live == After(s)
           changes == PlanOf(s)
           wanted == s.template.fields
           options == s.template.options
<1>1. Diff(wanted, live.fields) = {}
  <2>1. changes.fields = Diff(wanted, s.live.fields)
    BY PlanIs
  <2>2. live.fields = [f \in DOMAIN s.live.fields |-> IF f \in changes.fields THEN wanted[f] ELSE s.live.fields[f]]
    BY AfterIs
  <2>3. DOMAIN wanted \subseteq DOMAIN s.live.fields
    BY SetupIs
  <2> HIDE DEF live, changes, wanted
  <2>4. ASSUME NEW f \in DOMAIN wanted
        PROVE  live.fields[f] = wanted[f]
    BY <2>1, <2>2, <2>3 DEF Diff
  <2> QED
    BY <2>4 DEF Diff
<1>2. Toggles(live, s.template) = {}
  <2>1. changes.toggles = {m \in DOMAIN options \cap Modules : s.live.modules[m] \notin {Nothing, options[m]}}
    BY PlanIs DEF Toggles
  <2>2. live.modules = [m \in DOMAIN s.live.modules |-> IF m \in changes.toggles THEN options[m] ELSE s.live.modules[m]]
    BY AfterIs
  <2>3. Modules \subseteq DOMAIN s.live.modules
    BY SetupIs
  <2>4. Toggles(live, s.template) = {m \in DOMAIN options \cap Modules : live.modules[m] \notin {Nothing, options[m]}}
    BY DEF Toggles
  <2> HIDE DEF live, changes, options
  <2>5. \A m \in DOMAIN options \cap Modules : live.modules[m] \in {Nothing, options[m]}
    BY <2>1, <2>2, <2>3
  <2> QED
    BY <2>4, <2>5
<1>3. ~ChannelDiffers(live, s.template)
  <2>1. changes.channel = ChannelDiffers(s.live, s.template)
    BY PlanIs
  <2>2. live.channel = IF changes.channel THEN s.template.channel ELSE s.live.channel
    BY AfterIs
  <2> HIDE DEF live, changes
  <2> QED
    BY <2>1, <2>2 DEF ChannelDiffers
<1>4. SecurityFields(live, s.template, AgainFor(s)) = {}
  <2> DEFINE opts == AgainFor(s)
  <2>1. opts.allowLockdown = s.opts.allowLockdown
    BY DEF AgainFor
  <2>2. /\ live.adminChannel = FALSE /\ live.hasPolicy = s.live.hasPolicy
        /\ live.policy = IF "policy" \in changes.security THEN s.template.policy ELSE s.live.policy
        /\ live.managed = Lockdown(s.live, s.template, s.opts)
    BY AfterIs
  <2>3. changes.security = SecurityFields(s.live, s.template, s.opts)
    BY PlanIs
  <2>4. /\ {s.template.managed, s.opts.allowLockdown, s.live.managed} \subseteq BOOLEAN
    BY SetupIs
  <2> HIDE DEF live, changes, opts
  <2>5. live.managed = Lockdown(live, s.template, opts)
    BY <2>1, <2>2, <2>4 DEF Lockdown
  <2>6. "policy" \notin changes.security =>
           ~(s.template.policy # Nothing /\ s.live.hasPolicy /\ s.template.policy # s.live.policy)
    BY <2>3 DEF SecurityFields
  <2>7. ~(s.template.policy # Nothing /\ live.hasPolicy /\ s.template.policy # live.policy)
    BY <2>2, <2>6
  <2>8. SecurityFields(live, s.template, opts) = {}
    BY <2>2, <2>5, <2>7 DEF SecurityFields
  <2> QED
    BY <2>8 DEF live, opts
<1> QED
  BY <1>1, <1>2, <1>3, <1>4

(* The PIN is recorded when it is written.  One that was drawn for a node  *)
(* without any may be the one it has: then none is.                        *)
LEMMA PinStays ==
  ASSUME NEW s \in Setups
  PROVE  LET live == After(s)  row == RecordOf(s) IN
         /\ row.pin = live.pin \/ (row.pin = Nothing /\ s.opts.pin = s.live.pin)
         /\ ~PinDiffers(live, row, AgainFor(s))
<1> DEFINE live == After(s)
           row  == RecordOf(s)
           opts == AgainFor(s)
           changes == PlanOf(s)
<1>1. opts.pin = s.opts.pin
  BY DEF AgainFor
<1>2. row # Nothing /\ s.opts.pin # Nothing
  BY SetupIs
<1>3. changes.pin = (s.live.pin # PinOf(s.row, s.opts))
  BY PlanIs DEF PinDiffers
<1>4. live.pin = PinOf(s.row, s.opts)
  BY AfterIs
<1>5. row.pin = IF changes.pin THEN PinOf(s.row, s.opts)
                ELSE IF s.row = Nothing THEN Nothing ELSE s.row.pin
  BY RecordedIs
<1> HIDE DEF live, row, opts, changes
<1>6. PinOf(s.row, s.opts) # Nothing
  BY <1>2 DEF PinOf
<1>7. CASE changes.pin
  <2>1. row.pin = live.pin
    BY <1>4, <1>5, <1>7
  <2>2. PinOf(row, opts) = live.pin
    BY <1>2, <1>4, <1>6, <2>1 DEF PinOf
  <2> QED
    BY <2>1, <2>2 DEF PinDiffers, live, row, opts
<1>8. CASE ~changes.pin
  <2>1. s.live.pin = live.pin
    BY <1>3, <1>4, <1>8
  <2>2. row.pin = IF s.row = Nothing THEN Nothing ELSE s.row.pin
    BY <1>5, <1>8
  <2>3. PinOf(row, opts) = PinOf(s.row, s.opts)
    BY <1>1, <1>2, <2>2 DEF PinOf
  <2>4. row.pin = live.pin \/ (row.pin = Nothing /\ s.opts.pin = s.live.pin)
    BY <1>4, <2>1, <2>2 DEF PinOf
  <2> QED
    BY <1>4, <2>3, <2>4 DEF PinDiffers, live, row, opts
<1> QED
  BY <1>7, <1>8

RefusedAt(s) == PlanRefused(s.live, s.row, s.template, s.opts)

LEMMA AgainAccepted ==
  ASSUME NEW s \in Setups, ~RefusedAt(s)
  PROVE  ~PlanRefused(After(s), RecordOf(s), s.template, AgainFor(s))
<1>1. ~TooMany(s.template) /\ ~LockdownRefused(s.live, s.template, s.opts)
  BY DEF RefusedAt, PlanRefused
<1>2. ~KeyRefused(After(s), RecordOf(s), AgainFor(s))
  BY KeyStays DEF KeyRefused
<1> DEFINE opts == AgainFor(s)
<1>3. DesiredAdmins(After(s), s.template, opts) = DesiredAdmins(s.live, s.template, s.opts)
  <2>1. DesiredAdmins(After(s), s.template, s.opts) = DesiredAdmins(s.live, s.template, s.opts)
    BY AdminsAre
  <2>2. opts.allowWeak = s.opts.allowWeak
    BY DEF AgainFor
  <2> HIDE DEF opts
  <2>3. DesiredAdmins(After(s), s.template, opts) = DesiredAdmins(After(s), s.template, s.opts)
    BY <2>2 DEF DesiredAdmins, Authorized
  <2> QED
    BY <2>1, <2>3
<1>4. ~LockdownRefused(After(s), s.template, opts)
  BY <1>1, <1>3 DEF LockdownRefused
<1> QED
  BY <1>1, <1>2, <1>4 DEF PlanRefused

LEMMA SecondIsEmpty ==
  ASSUME NEW s \in Setups
  PROVE  IsEmpty(BuildPlan(After(s), RecordOf(s), s.template, AgainFor(s)), After(s))
<1> DEFINE live == After(s)
           row  == RecordOf(s)
           opts == AgainFor(s)
           changes == BuildPlan(live, row, s.template, opts)
<1>1. changes.short = live.short /\ changes.long = live.long
  BY NamesStay
<1>2. /\ changes.silent = IF s.template.silent = Nothing THEN live.silent ELSE s.template.silent
      /\ changes.fields = Diff(s.template.fields, live.fields)
      /\ changes.toggles = Toggles(live, s.template)
      /\ changes.pin = PinDiffers(live, row, opts)
      /\ changes.channel = ChannelDiffers(live, s.template)
      /\ changes.security = SecurityFields(live, s.template, opts)
      /\ changes.key = KeyDecision(live, row, opts)
      /\ changes.admins = DesiredAdmins(live, s.template, opts)
  BY DEF BuildPlan
<1>3. live.silent = IF s.template.silent = Nothing THEN s.live.silent ELSE s.template.silent
  BY AfterIs, PlanIs
<1>4. changes.fields = {} /\ changes.toggles = {} /\ ~changes.channel /\ changes.security = {}
  BY <1>2, FieldsStay
<1>5. ~changes.pin
  BY <1>2, PinStays
<1>6. changes.key = "keep"
  BY <1>2, KeyStays
<1>7. changes.admins = live.admins
  <2>1. live.admins = DesiredAdmins(s.live, s.template, s.opts)
    BY AfterIs, PlanIs
  <2>2. DesiredAdmins(live, s.template, s.opts) = DesiredAdmins(s.live, s.template, s.opts)
    BY AdminsAre
  <2>3. opts.allowWeak = s.opts.allowWeak
    BY DEF AgainFor
  <2> HIDE DEF opts, live
  <2>4. DesiredAdmins(live, s.template, opts) = DesiredAdmins(live, s.template, s.opts)
    BY <2>3 DEF DesiredAdmins, Authorized
  <2> QED
    BY <1>2, <2>1, <2>2, <2>4
<1> HIDE DEF live, row, opts, changes
<1>8. changes.silent = live.silent
  BY <1>2, <1>3
<1>9. IsEmpty(changes, live)
  BY <1>1, <1>4, <1>5, <1>6, <1>7, <1>8 DEF IsEmpty
<1> QED
  BY <1>9 DEF live, row, opts, changes

(* LockdownIsSafe and RowIsTrue, of what a run leaves.                     *)
ManagedSafely(s) ==
  /\ After(s).managed =>
       /\ \E r \in Named(s.template.admins) \cap WithPrivate : After(s).admins[KeyOf[r]] > 0
       /\ \A k \in WeakKeys \cap AdminKeys : After(s).admins[k] = 0
  /\ After(s).managed /\ ~s.live.managed => s.opts.allowLockdown
  /\ s.live.managed /\ s.template.managed => After(s).managed

LEMMA ManagedIsSafe ==
  ASSUME NEW s \in Setups, ~RefusedAt(s)
  PROVE  ManagedSafely(s)
<1>1. /\ After(s).managed = Lockdown(s.live, s.template, s.opts)
      /\ After(s).admins = DesiredAdmins(s.live, s.template, s.opts)
  BY AfterIs, PlanIs
<1>2. ~LockdownRefused(s.live, s.template, s.opts)
  BY DEF RefusedAt, PlanRefused
<1>3. {s.template.managed, s.opts.allowLockdown, s.live.managed} \subseteq BOOLEAN
  BY SetupIs
<1> DEFINE allowed == DesiredAdmins(s.live, s.template, s.opts)
           named  == Named(s.template.admins)
<1>4. /\ allowed \in [AdminKeys -> Nat]
      /\ \A k \in AdminKeys : allowed[k] > 0 => (k \in WeakKeys => \E r \in named : KeyOf[r] = k)
      /\ \A r \in named : KeyOf[r] \notin WeakKeys => allowed[KeyOf[r]] > 0
  BY AdminsAre
<1>5. s.template.managed =>
         /\ \A r \in named : KeyOf[r] \notin WeakKeys
         /\ named \cap WithPrivate # {}
  BY <1>2 DEF LockdownRefused
<1> HIDE DEF allowed, named
<1>6. s.template.managed => \E r \in named \cap WithPrivate : allowed[KeyOf[r]] > 0
  BY <1>4, <1>5
<1>7. s.template.managed => \A k \in WeakKeys \cap AdminKeys : allowed[k] = 0
  BY <1>4, <1>5
<1>8. Lockdown(s.live, s.template, s.opts) <=>
         s.template.managed /\ (s.opts.allowLockdown \/ s.live.managed)
  BY DEF Lockdown
<1> QED
  BY <1>1, <1>3, <1>6, <1>7, <1>8 DEF ManagedSafely, allowed, named

RowTrue(s) ==
  LET live == After(s)  row == RecordOf(s) IN
  /\ s.template.admins # <<>> =>
       {KeyOf[r] : r \in row.admins} = {k \in AdminKeys : live.admins[k] > 0}
  /\ \A k \in AdminKeys : live.admins[k] > 0 => k \notin UnusableKeys
  /\ \A k \in AdminKeys \cap WeakKeys : live.admins[k] > 0 => s.opts.allowWeak
  /\ row.key = live.key /\ live.key \notin WeakKeys \cup FleetKeys
  /\ live.flawed => row.generated

LEMMA RecordIsTrue ==
  ASSUME NEW s \in Setups
  PROVE  RowTrue(s)
<1>1. After(s).admins = DesiredAdmins(s.live, s.template, s.opts)
  BY AfterIs, PlanIs
<1>2. s.template.admins # <<>> => RecordOf(s).admins = Authorized(s.template, s.opts)
  BY RecordedIs
<1>3. s.template.admins # <<>> =>
        {KeyOf[r] : r \in RecordOf(s).admins} = {k \in AdminKeys : After(s).admins[k] > 0}
  BY <1>1, <1>2, AdminsAre
<1>4. \A k \in AdminKeys : After(s).admins[k] > 0 =>
         k \notin UnusableKeys /\ (k \in WeakKeys => s.opts.allowWeak)
  BY <1>1, AdminsAre
<1> QED
  BY <1>3, <1>4, KeyIs DEF RowTrue

(* What the run came to, of the setup it was given.                        *)
OutcomeOf(s) == IF RefusedAt(s) THEN [refused |-> TRUE]
                ELSE [refused |-> FALSE, live |-> After(s), row |-> RecordOf(s)]

PlanInv == setup \in Setups /\ outcome \in {Nothing, OutcomeOf(setup)}

LEMMA PlanInvariance == PlanSpec => []PlanInv
<1>1. PlanInit => PlanInv
  BY DEF PlanInit, PlanStart, PlanInv
<1>2. PlanInv /\ [PlanNext]_outcomeVars => PlanInv'
  BY DEF PlanInv, PlanNext, RunProvision, outcomeVars, OutcomeOf, RefusedAt
<1> QED
  BY <1>1, <1>2, PTL DEF PlanSpec

LEMMA OutcomeIsRight == PlanInv => PlanIsRight
<1> SUFFICES ASSUME PlanInv, outcome # Nothing, ~outcome.refused
             PROVE  PlanSettles /\ LockdownIsSafe /\ RowIsTrue
  BY DEF PlanIsRight
<1>1. setup \in Setups /\ outcome = OutcomeOf(setup)
  BY DEF PlanInv
<1>2. ~RefusedAt(setup) /\ outcome.live = After(setup) /\ outcome.row = RecordOf(setup)
  BY <1>1 DEF OutcomeOf
<1>3. PlanSettles
  BY <1>1, <1>2, PinStays, AgainAccepted, SecondIsEmpty DEF PlanSettles, Again, AgainFor
<1>4. LockdownIsSafe
  BY <1>1, <1>2, ManagedIsSafe DEF LockdownIsSafe, ManagedSafely
<1>5. RowIsTrue
  BY <1>1, <1>2, RecordIsTrue DEF RowIsTrue, RowTrue
<1> QED
  BY <1>3, <1>4, <1>5

(* A provision that succeeded leaves a device, and a row of it, of which a *)
(* second has nothing to change and nothing to refuse; which nobody is     *)
(* locked out of; and whose key and admin keys are as recorded and sound.  *)
THEOREM PlanStaysRight == PlanSpec => []PlanIsRight
BY PlanInvariance, OutcomeIsRight, PTL

-----------------------------------------------------------------------------
Chars == 1..(MaxCut + 1)

LEMMA BytesAre ==
  ASSUME NEW name \in Seq(Chars)
  PROVE  IsFiniteSet(BytesOf(name)) /\ Bytes(name) \in Nat
<1>1. Len(name) \in Nat /\ MaxCut \in Nat
  BY ReadbackAssumption
<1>2. IsFiniteSet(1..Len(name)) /\ IsFiniteSet(1..(MaxCut + 1))
  BY <1>1, FS_Interval
<1>3. IsFiniteSet((1..Len(name)) \X (1..(MaxCut + 1)))
  BY <1>2, FS_Product
<1>4. BytesOf(name) \in SUBSET ((1..Len(name)) \X (1..(MaxCut + 1)))
  BY DEF BytesOf
<1> QED
  BY <1>3, <1>4, FS_Subset, FS_CardinalityType DEF Bytes

(* The first characters of a name.                                         *)
LEMMA StartIs ==
  ASSUME NEW name \in Seq(Chars), NEW n \in 0..Len(name)
  PROVE  /\ SubSeq(name, 1, n) \in Seq(Chars) /\ Len(SubSeq(name, 1, n)) = n
         /\ \A i \in 1..n : SubSeq(name, 1, n)[i] = name[i]
<1>1. n \in Nat /\ Len(name) \in Nat
  OBVIOUS
<1> QED
  BY <1>1

(* A character more is at most so many bytes more.                         *)
LEMMA CharMore ==
  ASSUME NEW name \in Seq(Chars), NEW n \in 0..(Len(name) - 1)
  PROVE  Bytes(SubSeq(name, 1, n + 1)) <= Bytes(SubSeq(name, 1, n)) + MaxCut + 1
<1> DEFINE s == SubSeq(name, 1, n)
           t == SubSeq(name, 1, n + 1)
           last == {n + 1} \X (1..(MaxCut + 1))
<1>1. /\ n \in 0..Len(name) /\ n + 1 \in 0..Len(name) /\ n \in Nat /\ MaxCut \in Nat
  BY ReadbackAssumption
<1>2. /\ s \in Seq(Chars) /\ Len(s) = n /\ \A i \in 1..n : s[i] = name[i]
      /\ t \in Seq(Chars) /\ Len(t) = n + 1 /\ \A i \in 1..(n + 1) : t[i] = name[i]
  BY <1>1, StartIs
<1> HIDE DEF s, t
<1>3. IsFiniteSet(last) /\ Cardinality(last) = MaxCut + 1
  <2>1. IsFiniteSet(1..(MaxCut + 1)) /\ Cardinality(1..(MaxCut + 1)) = MaxCut + 1
    <3> DEFINE e == MaxCut + 1
    <3>1. 1 \in Int /\ e \in Int /\ ~(1 > e) /\ e - 1 + 1 = e
      BY <1>1
    <3> HIDE DEF e
    <3>2. IsFiniteSet(1..e) /\ Cardinality(1..e) = IF 1 > e THEN 0 ELSE e - 1 + 1
      BY <3>1, FS_Interval
    <3>3. Cardinality(1..e) = e
      BY <3>1, <3>2
    <3> QED
      BY <3>2, <3>3 DEF e
  <2>2. IsFiniteSet({n + 1}) /\ Cardinality({n + 1}) = 1
    BY FS_Singleton
  <2>3. IsFiniteSet(last) /\ Cardinality(last) = 1 * Cardinality(1..(MaxCut + 1))
    BY <2>1, <2>2, FS_Product
  <2> QED
    BY <1>1, <2>1, <2>3
<1>4. BytesOf(t) \in SUBSET (BytesOf(s) \cup last)
  <2>1. ASSUME NEW at \in BytesOf(t) PROVE at \in BytesOf(s) \cup last
    <3>1. /\ at \in (1..(n + 1)) \X (1..(MaxCut + 1)) /\ at[2] <= t[at[1]]
      BY <1>2 DEF BytesOf
    <3>2. CASE at[1] = n + 1
      BY <3>1, <3>2
    <3>3. CASE at[1] # n + 1
      <4>1. at[1] \in 1..n /\ at \in (1..n) \X (1..(MaxCut + 1))
        BY <1>1, <3>1, <3>3
      <4>2. t[at[1]] = s[at[1]]
        BY <1>1, <1>2, <4>1
      <4> QED
        BY <1>2, <3>1, <4>1, <4>2 DEF BytesOf
    <3> QED
      BY <3>2, <3>3
  <2> QED
    BY <2>1
<1> HIDE DEF last
<1>5. /\ IsFiniteSet(BytesOf(s)) /\ Cardinality(BytesOf(s)) \in Nat
      /\ Cardinality(BytesOf(t)) \in Nat
  BY <1>2, BytesAre DEF Bytes
<1>6. /\ IsFiniteSet(BytesOf(s) \cup last) /\ IsFiniteSet(BytesOf(s) \cap last)
      /\ Cardinality(BytesOf(s) \cup last)
           = Cardinality(BytesOf(s)) + Cardinality(last) - Cardinality(BytesOf(s) \cap last)
  BY <1>3, <1>5, FS_Union, FS_Intersection
<1>7. Cardinality(BytesOf(s) \cap last) \in Nat /\ Cardinality(BytesOf(s) \cup last) \in Nat
  BY <1>6, FS_CardinalityType
<1>8. Cardinality(BytesOf(t)) <= Cardinality(BytesOf(s) \cup last)
  BY <1>4, <1>6, FS_Subset
<1> QED
  BY <1>1, <1>3, <1>5, <1>6, <1>7, <1>8 DEF Bytes, s, t

(* What is kept of a name that is too long is most of what there is room   *)
(* for, and so is taken for a cut.                                         *)
LEMMA KeptIs ==
  ASSUME NEW name \in Seq(Chars), NEW f \in DOMAIN NameLimit, Bytes(name) > NameLimit[f]
  PROVE  Kept(name, NameLimit[f]) # <<>> /\ IsFirmwareTruncation(name, Kept(name, NameLimit[f]), f)
<1> DEFINE room == NameLimit[f]
           fitting == {n \in 0..Len(name) : Bytes(SubSeq(name, 1, n)) <= room}
           m == Max(fitting)
           s == SubSeq(name, 1, m)
<1>1. room \in Nat /\ MaxCut \in Nat /\ room > MaxCut /\ Len(name) \in Nat
  BY ReadbackAssumption
<1>2. Kept(name, room) = s
  <2>1. Bytes(name) \in Nat
    BY BytesAre
  <2>2. ~(Bytes(name) <= room)
    BY <1>1, <2>1
  <2> QED
    BY <2>2 DEF Kept
<1>3. 0 \in fitting
  <2>1. SubSeq(name, 1, 0) \in Seq(Chars) /\ Len(SubSeq(name, 1, 0)) = 0
    BY <1>1, StartIs
  <2>2. BytesOf(SubSeq(name, 1, 0)) = {}
    BY <2>1 DEF BytesOf
  <2>3. Bytes(SubSeq(name, 1, 0)) = 0
    BY <2>2, FS_EmptySet DEF Bytes
  <2> QED
    BY <1>1, <2>3
<1>4. m \in fitting /\ \A y \in fitting : y <= m
  <2>1. fitting \in SUBSET (0..Len(name)) /\ fitting # {}
    BY <1>3
  <2> HIDE DEF fitting
  <2> QED
    BY <1>1, <2>1, GreatestOf
<1> HIDE DEF m
<1>5. m \in 0..Len(name) /\ Bytes(s) <= room
  BY <1>4
<1>6. /\ s \in Seq(Chars) /\ Len(s) = m /\ \A i \in 1..m : s[i] = name[i]
      /\ SubSeq(name, 1, Len(name)) = name
  BY <1>1, <1>5, StartIs
<1>7. m < Len(name)
  <2>1. ASSUME m = Len(name) PROVE FALSE
    <3>1. s = name
      BY <1>6, <2>1
    <3>2. Bytes(name) \in Nat
      BY BytesAre
    <3> HIDE DEF s
    <3> QED
      BY <1>1, <1>5, <3>1, <3>2
  <2> QED
    BY <1>1, <1>5, <2>1
<1>8. Bytes(SubSeq(name, 1, m + 1)) > room
  <2>1. m + 1 \in 0..Len(name) /\ ~(m + 1 <= m)
    BY <1>1, <1>5, <1>7
  <2>2. ~(Bytes(SubSeq(name, 1, m + 1)) <= room)
    BY <1>4, <2>1
  <2>3. Bytes(SubSeq(name, 1, m + 1)) \in Nat
    BY <2>1, StartIs, BytesAre
  <2> QED
    BY <1>1, <2>2, <2>3
<1>9. Bytes(SubSeq(name, 1, m + 1)) <= Bytes(s) + MaxCut + 1
  BY <1>1, <1>5, <1>7, CharMore
<1>10. Bytes(s) \in Nat /\ Bytes(name) \in Nat /\ Bytes(SubSeq(name, 1, m + 1)) \in Nat
  <2>1. m + 1 \in 0..Len(name)
    BY <1>1, <1>5, <1>7
  <2> QED
    BY <1>6, <2>1, StartIs, BytesAre
<1>11. room - MaxCut <= Bytes(s) /\ Bytes(s) < Bytes(name) /\ Bytes(s) > 0
  BY <1>1, <1>5, <1>8, <1>9, <1>10
<1>12. s # <<>>
  <2>1. s = <<>> => BytesOf(s) = {}
    <3>1. Len(<<>>) = 0 /\ 1..0 = {}
      OBVIOUS
    <3> QED
      BY <3>1 DEF BytesOf
  <2>2. s = <<>> => Bytes(s) = 0
    BY <2>1, FS_EmptySet DEF Bytes
  <2> QED
    BY <1>11, <2>2
<1>13. IsPrefix(s, name)
  <2>1. Len(s) <= Len(name) /\ SubSeq(s, 1, Len(s)) = s
    BY <1>1, <1>6, <1>7
  <2> QED
    BY <1>6, <2>1 DEF IsPrefix
<1> QED
  BY <1>2, <1>11, <1>12, <1>13 DEF IsFirmwareTruncation

SameOften(a, b) ==
  \A k \in ToSet(a) \cup ToSet(b) :
    Cardinality({i \in DOMAIN a : a[i] = k}) = Cardinality({i \in DOMAIN b : b[i] = k})

(* What agrees in how often each key occurs agrees but for the order.      *)
LEMMA Reordered ==
  ASSUME NEW a, NEW b, IsFiniteSet(DOMAIN a), IsFiniteSet(DOMAIN b), SameOften(a, b)
  PROVE  \E order \in Bijection(DOMAIN a, DOMAIN b) : \A i \in DOMAIN a : b[order[i]] = a[i]
<1> DEFINE A(k) == {i \in DOMAIN a : a[i] = k}
           B(k) == {i \in DOMAIN b : b[i] = k}
           g(k) == CHOOSE f \in Bijection(A(k), B(k)) : TRUE
           order == [i \in DOMAIN a |-> g(a[i])[i]]
<1>1. ASSUME NEW k \in ToSet(a) \cup ToSet(b)
      PROVE  g(k) \in Bijection(A(k), B(k))
  <2>1. A(k) \in SUBSET DOMAIN a /\ B(k) \in SUBSET DOMAIN b
    OBVIOUS
  <2>2. IsFiniteSet(A(k)) /\ IsFiniteSet(B(k))
    BY <2>1, FS_Subset
  <2>3. Cardinality(A(k)) = Cardinality(B(k))
    BY DEF SameOften
  <2> HIDE DEF A, B
  <2>4. ExistsBijection(A(k), B(k))
    BY <2>2, <2>3, FS_SameCardinalityBij
  <2> QED
    BY <2>4 DEF ExistsBijection
<1> HIDE DEF g
<1>2. ASSUME NEW k \in ToSet(a) \cup ToSet(b)
      PROVE  /\ g(k) \in [A(k) -> B(k)]
             /\ \A i, j \in A(k) : g(k)[i] = g(k)[j] => i = j
             /\ \A l \in B(k) : \E i \in A(k) : g(k)[i] = l
  <2> HIDE DEF A, B
  <2> QED
    BY <1>1 DEF Bijection, Injection, Surjection, IsInjective
<1>3. \A i \in DOMAIN a : a[i] \in ToSet(a) \cup ToSet(b)
  BY DEF ToSet
<1>4. \A j \in DOMAIN b : b[j] \in ToSet(a) \cup ToSet(b)
  BY DEF ToSet
<1>5. ASSUME NEW i \in DOMAIN a PROVE order[i] \in DOMAIN b /\ b[order[i]] = a[i]
  <2>1. i \in A(a[i]) /\ order[i] = g(a[i])[i]
    OBVIOUS
  <2>2. g(a[i]) \in [A(a[i]) -> B(a[i])]
    BY <1>2, <1>3
  <2>3. order[i] \in B(a[i])
    BY <2>1, <2>2
  <2> QED
    BY <2>3
<1>6. ASSUME NEW i \in DOMAIN a, NEW j \in DOMAIN a, order[i] = order[j] PROVE i = j
  <2>1. a[i] = a[j]
    BY <1>5, <1>6
  <2>2. i \in A(a[i]) /\ j \in A(a[i]) /\ g(a[i])[i] = g(a[i])[j]
    BY <1>6, <2>1
  <2> QED
    BY <1>2, <1>3, <2>2
<1>7. ASSUME NEW l \in DOMAIN b PROVE \E i \in DOMAIN a : order[i] = l
  <2>1. PICK i \in A(b[l]) : g(b[l])[i] = l
    BY <1>2, <1>4
  <2>2. i \in DOMAIN a /\ a[i] = b[l]
    OBVIOUS
  <2> QED
    BY <2>1, <2>2
<1>8. order \in Bijection(DOMAIN a, DOMAIN b)
  <2>1. order \in [DOMAIN a -> DOMAIN b]
    BY <1>5
  <2> HIDE DEF order
  <2> QED
    BY <1>6, <1>7, <2>1 DEF Bijection, Injection, Surjection, IsInjective
<1> QED
  BY <1>5, <1>8

-----------------------------------------------------------------------------
(* Each verdict is one of its kind.                                        *)
NameVerdict(v) == \E f \in DOMAIN plan.names :
  v = VerifyName(f, plan.names[f], shown.names[f], plan.readBack)
SilentVerdict(v) ==
  v = VerdictOn("owner", "is_unmessagable", shown.silent = plan.silent \/ ~plan.readBack)
FieldVerdict(v) == \E f \in DOMAIN plan.fields :
  /\ f[1] \in plan.attempted
  /\ v = VerdictOn(f[1], f[2], ValuesEqual(shown.fields[f], plan.fields[f]))
KeyVerdict(v) ==
  /\ "security" \in plan.attempted \/ plan.keys = "adopt"
  /\ v = VerifyKeyMaterial(plan.keypair, shown.key, shown.nodedb)
AdminVerdict(v) ==
  /\ "security" \in plan.attempted /\ plan.admins # NoValue
  /\ v = VerifyAdminKeys(plan.admins, shown.admins)

LEMMA VerdictsAre ==
  ASSUME NEW v \in VerifyPlan(plan, shown)
  PROVE  NameVerdict(v) \/ SilentVerdict(v) \/ FieldVerdict(v) \/ KeyVerdict(v) \/ AdminVerdict(v)
BY DEF VerifyPlan, NameVerdict, SilentVerdict, FieldVerdict, KeyVerdict, AdminVerdict

(* A name of the owner is no flag of it, and a field no key.               *)
LEMMA PartsDiffer ==
  ASSUME plan \in Plans
  PROVE  /\ \A f \in DOMAIN plan.names : f # "is_unmessagable"
         /\ \A f \in DOMAIN plan.fields :
              /\ f = <<f[1], f[2]>> /\ f[1] # "owner"
              /\ f # <<"security", "public_key">> /\ f # <<"security", "admin_key">>
         /\ "owner" # "security" /\ "public_key" # "admin_key"
<1>1. /\ DOMAIN plan.names \subseteq DOMAIN NameLimit /\ "is_unmessagable" \notin DOMAIN NameLimit
  BY PlansAssumption, ReadbackAssumption
<1>2. \A f \in DOMAIN plan.fields : f = <<f[1], f[2]>> /\ f[1] # "owner" /\ f \notin KeyFields
  BY PlansAssumption
<1> QED
  BY <1>1, <1>2 DEF KeyFields

(* What is shown is a device's, and the verdicts are those on it.          *)
ReadInv ==
  /\ plan \in Plans /\ (shown = NoValue => verdicts = NoValue)
  /\ shown # NoValue => List(shown.admins)
  /\ verdicts # NoValue => verdicts = VerifyPlan(plan, shown)

LEMMA ReverseIs == ASSUME NEW s, List(s) PROVE List(Reverse(s))
<1>1. s \in Seq(ToSet(s)) /\ Len(s) \in Nat /\ DOMAIN s = 1..Len(s)
  BY DEF List
<1>2. \A i \in 1..Len(s) : Len(s) - i + 1 \in 1..Len(s)
  BY <1>1
<1> DEFINE r == Reverse(s)
<1>3. DOMAIN r = 1..Len(s) /\ r = [i \in 1..Len(s) |-> r[i]]
  BY DEF Reverse
<1> HIDE DEF r
<1>4. \A i \in 1..Len(s) : r[i] \in ToSet(r)
  BY <1>3 DEF ToSet
<1>5. r \in [1..Len(s) -> ToSet(r)]
  BY <1>3, <1>4
<1>6. r \in Seq(ToSet(r))
  BY <1>1, <1>5
<1> QED
  BY <1>6 DEF List, r

LEMMA ReadInvariance == ReadbackSpec => []ReadInv
<1>1. ReadbackInit => ReadInv
  BY DEF ReadbackInit, ReadbackStart, ReadInv
<1>2. ReadInv /\ [ReadbackNext]_readVars => ReadInv'
  <2> SUFFICES ASSUME ReadInv, [ReadbackNext]_readVars PROVE ReadInv'
    OBVIOUS
  <2>1. CASE Write
    <3>1. /\ UNCHANGED <<plan, verdicts>> /\ shown = NoValue
          /\ shown'.admins \in {plan.before.admins} \cup
               (IF plan.admins = NoValue THEN {} ELSE {plan.admins, Reverse(plan.admins)})
      BY <2>1 DEF Write
    <3>2. List(plan.before.admins) /\ (plan.admins # NoValue => List(plan.admins))
      BY PlansAssumption DEF ReadInv
    <3>3. List(shown'.admins)
      BY <3>1, <3>2, ReverseIs
    <3> QED
      BY <3>1, <3>3 DEF ReadInv, List
  <2>2. CASE JudgeAll
    BY <2>2 DEF JudgeAll, ReadInv, List
  <2>3. CASE UNCHANGED readVars
    BY <2>3 DEF readVars, ReadInv, List, VerifyPlan
  <2> QED
    BY <2>1, <2>2, <2>3 DEF ReadbackNext
<1> QED
  BY <1>1, <1>2, PTL DEF ReadbackSpec

LEMMA ListIsFinite == ASSUME NEW s, List(s) PROVE IsFiniteSet(DOMAIN s)
<1>1. Len(s) \in Nat /\ DOMAIN s = 1..Len(s)
  BY DEF List
<1> QED
  BY <1>1, FS_Interval

(* What is equal but for a float's precision is equal without a float.     *)
LEMMA EqualIs ==
  ASSUME NEW current, NEW desired, ValuesEqual(current, desired),
         "float" \notin {current.kind, desired.kind}
  PROVE  current = desired
<1>1. {current.kind, desired.kind} \notin {{"float"}, {"int", "float"}}
  <2>1. \A S \in {{"float"}, {"int", "float"}} : "float" \in S
    OBVIOUS
  <2> QED
    BY <2>1
<1> QED
  BY <1>1 DEF ValuesEqual

(* What the wire makes of a value is taken for it.                         *)
LEMMA WireIs ==
  ASSUME plan \in Plans, NEW f \in DOMAIN plan.fields
  PROVE  ValuesEqual(OverTheWire(plan.fields[f]), plan.fields[f])
<1> DEFINE v == plan.fields[f]
           w == OverTheWire(v)
<1>1. ASSUME v.kind # "float" PROVE ValuesEqual(w, v)
  <2>1. w = v
    BY <1>1 DEF OverTheWire
  <2>2. {v.kind, v.kind} \notin {{"float"}, {"int", "float"}}
    <3>1. {v.kind, v.kind} = {"float"} => v.kind = "float"
      OBVIOUS
    <3>2. {v.kind, v.kind} = {"int", "float"} => v.kind = "float"
      OBVIOUS
    <3> QED
      BY <1>1, <3>1, <3>2
  <2> HIDE DEF v, w
  <2> QED
    BY <2>1, <2>2 DEF ValuesEqual
<1>2. ASSUME v.kind = "float" PROVE ValuesEqual(w, v)
  <2>1. /\ v.value \in Nat /\ (v.value % FloatStep) * RelTol <= v.value
        /\ FloatStep \in Nat /\ FloatStep > 0 /\ RelTol \in Nat /\ RelTol > 0
    BY <1>2, PlansAssumption, ReadbackAssumption
  <2>2. PICK r : r = v.value % FloatStep
    OBVIOUS
  <2>3. r \in Nat /\ r * RelTol <= v.value
    BY <2>1, <2>2
  <2>4. w = [v EXCEPT !.value = v.value - r]
    BY <1>2, <2>2 DEF OverTheWire
  <2>5. w.kind = v.kind /\ w.value = v.value - r
    BY <2>4
  <2>6. {w.kind, v.kind} = {"float"}
    BY <1>2, <2>5
  <2> HIDE DEF v, w
  <2>7. (IF w.value - v.value < 0 THEN -(w.value - v.value) ELSE w.value - v.value) = r
    BY <2>1, <2>3, <2>5
  <2>8. (IF w.value > v.value THEN w.value ELSE v.value) = v.value
    BY <2>1, <2>3, <2>5
  <2>9. {w.kind, v.kind} \in {{"float"}, {"int", "float"}}
    BY <2>6
  <2> QED
    BY <2>3, <2>7, <2>8, <2>9 DEF ValuesEqual
<1> QED
  BY <1>1, <1>2

(* A confirmed name is the device's, or the start of one that is too long. *)
LEMMA ConfirmedName ==
  ASSUME NEW f, NEW desired, NEW actual, NEW readBack,
         VerifyName(f, desired, actual, readBack).status = "CONFIRMED", readBack
  PROVE  \/ actual = desired
         \/ Bytes(desired) > NameLimit[f] /\ actual # <<>> /\ IsPrefix(actual, desired)
<1>1. actual = desired \/ ~readBack \/ (actual # <<>> /\ IsFirmwareTruncation(desired, actual, f))
  BY DEF VerifyName, VerdictOn, Verdict
<1> QED
  BY <1>1 DEF IsFirmwareTruncation

(* The three parts of ReadbackIsTrue, verdict by verdict.                  *)
LEMMA ConfirmedHolds == ReadInv /\ verdicts # NoValue => ConfirmedIsHeld
<1> SUFFICES ASSUME ReadInv, verdicts # NoValue, NEW v \in verdicts, v.status = "CONFIRMED",
                    plan.readBack
             PROVE
    /\ v.section = "owner" /\ v.field \in DOMAIN plan.names =>
         \/ shown.names[v.field] = plan.names[v.field]
         \/ /\ Bytes(plan.names[v.field]) > NameLimit[v.field]
            /\ shown.names[v.field] # <<>> /\ IsPrefix(shown.names[v.field], plan.names[v.field])
    /\ v.section = "owner" /\ v.field = "is_unmessagable" => shown.silent = plan.silent
    /\ <<v.section, v.field>> \in DOMAIN plan.fields =>
         LET f == <<v.section, v.field>> IN
         "float" \notin {shown.fields[f].kind, plan.fields[f].kind} => shown.fields[f] = plan.fields[f]
    /\ <<v.section, v.field>> = <<"security", "public_key">> =>
         {shown.key, shown.nodedb} \subseteq {plan.keypair, NoValue}
    /\ <<v.section, v.field>> = <<"security", "admin_key">> =>
         \E order \in Bijection(DOMAIN plan.admins, DOMAIN shown.admins) :
           \A i \in DOMAIN plan.admins : shown.admins[order[i]] = plan.admins[i]
  BY DEF ConfirmedIsHeld
<1>1. plan \in Plans /\ v \in VerifyPlan(plan, shown) /\ List(shown.admins)
  BY DEF ReadInv
<1>2. CASE NameVerdict(v)
  <2>1. PICK f \in DOMAIN plan.names : v = VerifyName(f, plan.names[f], shown.names[f], plan.readBack)
    BY <1>2 DEF NameVerdict
  <2>2. v.section = "owner" /\ v.field = f /\ f # "is_unmessagable"
    BY <1>1, <2>1, PartsDiffer DEF VerifyName, VerdictOn, Verdict
  <2>3. /\ <<v.section, v.field>> \notin DOMAIN plan.fields
        /\ v.section # "security"
    BY <1>1, <2>2, PartsDiffer
  <2>4. \/ shown.names[f] = plan.names[f]
        \/ /\ Bytes(plan.names[f]) > NameLimit[f]
           /\ shown.names[f] # <<>> /\ IsPrefix(shown.names[f], plan.names[f])
    BY <2>1, ConfirmedName
  <2> QED
    BY <2>2, <2>3, <2>4
<1>3. CASE SilentVerdict(v)
  <2>1. v.section = "owner" /\ v.field = "is_unmessagable" /\ shown.silent = plan.silent
    BY <1>3 DEF SilentVerdict, VerdictOn, Verdict
  <2>2. /\ <<v.section, v.field>> \notin DOMAIN plan.fields
        /\ v.section # "security" /\ v.field \notin DOMAIN plan.names
    BY <1>1, <2>1, PartsDiffer
  <2> QED
    BY <2>1, <2>2
<1>4. CASE FieldVerdict(v)
  <2>1. PICK f \in DOMAIN plan.fields :
          v = VerdictOn(f[1], f[2], ValuesEqual(shown.fields[f], plan.fields[f]))
    BY <1>4 DEF FieldVerdict
  <2>2. v.section = f[1] /\ v.field = f[2] /\ ValuesEqual(shown.fields[f], plan.fields[f])
    BY <2>1 DEF VerdictOn, Verdict
  <2>3. /\ <<v.section, v.field>> = f /\ v.section # "owner"
        /\ f # <<"security", "public_key">> /\ f # <<"security", "admin_key">>
    BY <1>1, <2>2, PartsDiffer
  <2>4. "float" \notin {shown.fields[f].kind, plan.fields[f].kind} => shown.fields[f] = plan.fields[f]
    BY <2>2, EqualIs
  <2> QED
    BY <2>3, <2>4
<1>5. CASE KeyVerdict(v)
  <2>1. /\ v.section = "security" /\ v.field = "public_key"
        /\ shown.key = plan.keypair /\ shown.nodedb \in {NoValue, plan.keypair}
    BY <1>5 DEF KeyVerdict, VerifyKeyMaterial, VerdictOn, Verdict
  <2>2. <<v.section, v.field>> \notin DOMAIN plan.fields /\ v.section # "owner" /\ v.field # "admin_key"
    BY <1>1, <2>1, PartsDiffer
  <2> QED
    BY <2>1, <2>2
<1>6. CASE AdminVerdict(v)
  <2>1. /\ v.section = "security" /\ v.field = "admin_key" /\ plan.admins # NoValue
        /\ SameOften(plan.admins, shown.admins)
    BY <1>6 DEF AdminVerdict, VerifyAdminKeys, VerdictOn, Verdict, SameOften
  <2>2. <<v.section, v.field>> \notin DOMAIN plan.fields /\ v.section # "owner" /\ v.field # "public_key"
    BY <1>1, <2>1, PartsDiffer
  <2>3. IsFiniteSet(DOMAIN plan.admins) /\ IsFiniteSet(DOMAIN shown.admins)
    BY <1>1, <2>1, ListIsFinite, PlansAssumption
  <2>4. \E order \in Bijection(DOMAIN plan.admins, DOMAIN shown.admins) :
          \A i \in DOMAIN plan.admins : shown.admins[order[i]] = plan.admins[i]
    BY <2>1, <2>3, Reordered
  <2> QED
    BY <2>1, <2>2, <2>4
<1> QED
  BY <1>1, <1>2, <1>3, <1>4, <1>5, <1>6, VerdictsAre

LEMMA TakenHolds == ReadInv /\ verdicts # NoValue => TakenIsConfirmed
<1> SUFFICES ASSUME ReadInv, verdicts # NoValue, NEW v \in verdicts, v.status = "UNCONFIRMED"
             PROVE
    /\ v.section = "owner" /\ v.field \in DOMAIN plan.names =>
         shown.names[v.field] # Kept(plan.names[v.field], NameLimit[v.field])
    /\ <<v.section, v.field>> \in DOMAIN plan.fields =>
         shown.fields[<<v.section, v.field>>] # OverTheWire(plan.fields[<<v.section, v.field>>])
  BY DEF TakenIsConfirmed
<1>1. plan \in Plans /\ v \in VerifyPlan(plan, shown)
  BY DEF ReadInv
<1>2. CASE NameVerdict(v)
  <2>1. PICK f \in DOMAIN plan.names : v = VerifyName(f, plan.names[f], shown.names[f], plan.readBack)
    BY <1>2 DEF NameVerdict
  <2>2. /\ v.section = "owner" /\ v.field = f /\ shown.names[f] # plan.names[f]
        /\ ~(shown.names[f] # <<>> /\ IsFirmwareTruncation(plan.names[f], shown.names[f], f))
    BY <2>1 DEF VerifyName, VerdictOn, Verdict
  <2>3. <<v.section, v.field>> \notin DOMAIN plan.fields
    BY <1>1, <2>2, PartsDiffer
  <2>4. f \in DOMAIN NameLimit /\ plan.names[f] \in Seq(Chars) /\ NameLimit[f] \in Nat
    BY <1>1, PlansAssumption, ReadbackAssumption DEF Chars
  <2>5. Bytes(plan.names[f]) \in Nat
    BY <2>4, BytesAre
  <2>6. CASE Bytes(plan.names[f]) <= NameLimit[f]
    BY <2>2, <2>3, <2>6 DEF Kept
  <2>7. CASE Bytes(plan.names[f]) > NameLimit[f]
    BY <2>2, <2>3, <2>4, <2>7, KeptIs
  <2> QED
    BY <2>4, <2>5, <2>6, <2>7
<1>3. CASE FieldVerdict(v)
  <2>1. PICK f \in DOMAIN plan.fields :
          v = VerdictOn(f[1], f[2], ValuesEqual(shown.fields[f], plan.fields[f]))
    BY <1>3 DEF FieldVerdict
  <2>2. v.section = f[1] /\ v.field = f[2] /\ ~ValuesEqual(shown.fields[f], plan.fields[f])
    BY <2>1 DEF VerdictOn, Verdict
  <2>3. <<v.section, v.field>> = f /\ v.section # "owner"
    BY <1>1, <2>2, PartsDiffer
  <2>4. shown.fields[f] # OverTheWire(plan.fields[f])
    BY <1>1, <2>2, WireIs
  <2> QED
    BY <2>3, <2>4
<1>4. CASE SilentVerdict(v) \/ KeyVerdict(v) \/ AdminVerdict(v)
  <2>1. \/ v.section = "owner" /\ v.field = "is_unmessagable"
        \/ v.section = "security" /\ v.field \in {"public_key", "admin_key"}
    BY <1>4 DEF SilentVerdict, KeyVerdict, AdminVerdict, VerifyKeyMaterial, VerifyAdminKeys, VerdictOn,
       Verdict
  <2> QED
    BY <1>1, <2>1, PartsDiffer
<1> QED
  BY <1>1, <1>2, <1>3, <1>4, VerdictsAre

LEMMA SentHolds == ReadInv /\ verdicts # NoValue => SentIsJudged
<1> SUFFICES ASSUME ReadInv, verdicts # NoValue PROVE SentIsJudged
  OBVIOUS
<1> DEFINE judged == {<<v.section, v.field>> : v \in verdicts}
<1>1. plan \in Plans /\ verdicts = VerifyPlan(plan, shown)
  BY DEF ReadInv
<1>2. ASSUME NEW v \in verdicts
      PROVE  v.section = "owner" \/ v.section \in plan.attempted \/ plan.keys = "adopt"
  <2>1. NameVerdict(v) \/ SilentVerdict(v) => v.section = "owner"
    BY DEF NameVerdict, SilentVerdict, VerifyName, VerdictOn, Verdict
  <2>2. FieldVerdict(v) => v.section \in plan.attempted
    BY DEF FieldVerdict, VerdictOn, Verdict
  <2>3. KeyVerdict(v) \/ AdminVerdict(v) => v.section \in plan.attempted \/ plan.keys = "adopt"
    BY DEF KeyVerdict, AdminVerdict, VerifyKeyMaterial, VerifyAdminKeys, VerdictOn, Verdict
  <2> QED
    BY <1>1, <2>1, <2>2, <2>3, VerdictsAre
<1>3. ASSUME NEW f \in DOMAIN plan.names PROVE <<"owner", f>> \in judged
  <2> DEFINE v == VerifyName(f, plan.names[f], shown.names[f], plan.readBack)
  <2>1. v \in verdicts
    BY <1>1 DEF VerifyPlan
  <2>2. v.section = "owner" /\ v.field = f
    BY DEF VerifyName, VerdictOn, Verdict
  <2> HIDE DEF v
  <2> QED
    BY <2>1, <2>2
<1>4. ASSUME NEW f \in DOMAIN plan.fields, f[1] \in plan.attempted PROVE f \in judged
  <2> DEFINE v == VerdictOn(f[1], f[2], ValuesEqual(shown.fields[f], plan.fields[f]))
  <2>1. v \in verdicts
    BY <1>1, <1>4 DEF VerifyPlan
  <2>2. v.section = f[1] /\ v.field = f[2]
    BY DEF VerdictOn, Verdict
  <2>3. f = <<f[1], f[2]>>
    BY <1>1, PartsDiffer
  <2> HIDE DEF v
  <2> QED
    BY <2>1, <2>2, <2>3
<1>5. ASSUME "security" \in plan.attempted, plan.keypair # NoValue, plan.keys # "keep"
      PROVE  <<"security", "public_key">> \in judged
  <2> DEFINE v == VerifyKeyMaterial(plan.keypair, shown.key, shown.nodedb)
  <2>1. plan.keys \in {"regenerate", "adopt"}
    BY <1>1, <1>5, PlansAssumption
  <2>2. v \in verdicts
    BY <1>1, <1>5, <2>1 DEF VerifyPlan
  <2>3. v.section = "security" /\ v.field = "public_key"
    BY DEF VerifyKeyMaterial, VerdictOn, Verdict
  <2> HIDE DEF v
  <2> QED
    BY <2>2, <2>3
<1>6. ASSUME "security" \in plan.attempted, plan.admins # NoValue
      PROVE  <<"security", "admin_key">> \in judged
  <2> DEFINE v == VerifyAdminKeys(plan.admins, shown.admins)
  <2>1. v \in verdicts
    BY <1>1, <1>6 DEF VerifyPlan
  <2>2. v.section = "security" /\ v.field = "admin_key"
    BY DEF VerifyAdminKeys, VerdictOn, Verdict
  <2> HIDE DEF v
  <2> QED
    BY <2>1, <2>2
<1>7. \A f \in judged : f[1] = "owner" \/ f[1] \in plan.attempted \/ plan.keys = "adopt"
  BY <1>2
<1> HIDE DEF judged
<1>8. judged = {<<v.section, v.field>> : v \in verdicts}
  BY DEF judged
<1> QED
  BY <1>3, <1>4, <1>5, <1>6, <1>7, <1>8 DEF SentIsJudged

(* What the read-back of a plan confirms is on the device, what the device *)
(* took it confirms, and it judges what was sent and nothing else: for any *)
(* plan, any names and values, and whatever of them was lost.              *)
THEOREM ReadbackStaysTrue == ReadbackSpec => []ReadbackIsTrue
<1>1. ReadInv => ReadbackIsTrue
  BY ConfirmedHolds, TakenHolds, SentHolds DEF ReadbackIsTrue
<1> QED
  BY <1>1, ReadInvariance, PTL

(* What a command says of the device it wrote is so, of plan, read-back    *)
(* and sync alike.                                                         *)
THEOREM DeviceStaysAsTold == PlanSpec /\ ReadbackSpec /\ PeersSpec => []DeviceIsAsTold
<1>1. PlanIsRight /\ ReadbackIsTrue /\ PeersAreSynced => DeviceIsAsTold
  BY DEF DeviceIsAsTold
<1> QED
  BY <1>1, PlanStaysRight, ReadbackStaysTrue, PeersStaySynced, PTL
=============================================================================
