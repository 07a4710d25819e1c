------------------------------ MODULE Registry ------------------------------
(***************************************************************************)
(* The Nodes and Keys sheets as the commands that write them leave them:   *)
(* `mesh adopt`, `mesh provision` and `mesh admin bootstrap`, `mesh admin  *)
(* import`, `mesh db renumber`, `mesh db forget`, in any order, over       *)
(* devices whose keys and admin keys also change by other hands.  A row    *)
(* names admin keys by reference; what this module asks is whether those   *)
(* references go on meaning the keys they were written for.                *)
(*                                                                         *)
(* A command holds the database lock from its load to its one save         *)
(* (modules OdsStore, Provision), so it is one action: it saves all it     *)
(* changed, or it refuses and saves nothing.  What --force, --enroll,      *)
(* --allow-alias and the prompts let through is the operator's choice.     *)
(* A key stands for its keypair, lists of references are sets, and a plan  *)
(* that is applied is confirmed.                                           *)
(***************************************************************************)
EXTENDS Naturals, FiniteSets, FiniteSetsExt

CONSTANTS
  Devices,
  Managed,     \* those operators provision; the others they may adopt
  Ids,         \* node ids
  Keys,
  FreshKeys,   \* those generate_keypair returns
  FirstId, FirstKey,  \* what each device starts with
  DerivedId,   \* the id firmware 2.8 derives from a key
  AdminRefs,   \* references operators choose
  Short, Wide, \* the observed owner of a key: 8 and 16 characters of its digest
  Templates,   \* what template.admin_nodes may be edited to: at first, nobody
  OtherKeys,   \* keys a device may get by other means
  AdminSets,   \* the admin keys a device may be given by hand
  Legacy,      \* keys an old row lists as unregistered
  NoOne,       \* no key, no owner, no row
  MaxEvents    \* bounds imports, forgets, renumbers and what other hands do

Observed == {Short[k] : k \in Keys} \cup {Wide[k] : k \in Keys}
Owners   == Ids \cup AdminRefs \cup Observed

(* What a row says of its node's admin keys. *)
Row == [management : {"observed", "template"}, archived : BOOLEAN,
        authorized : SUBSET Owners, unregistered : SUBSET Keys]

ASSUME RegistryAssumption ==
  /\ Managed \subseteq Devices
  /\ IsFiniteSet(Keys) /\ FreshKeys \cup OtherKeys \subseteq Keys
  /\ FirstKey \in [Devices -> Keys \ FreshKeys]
  /\ FirstId \in [Devices -> Ids] /\ DerivedId \in [Keys -> Ids]
  /\ Short \in [Keys -> Observed] /\ Wide \in [Keys -> Observed]
  /\ {} \in Templates /\ Templates \subseteq SUBSET AdminRefs /\ AdminSets \subseteq SUBSET Keys
  /\ Legacy \in [Ids -> SUBSET Keys]
  /\ NoOne \notin Keys \cup Owners \cup Row /\ MaxEvents \in Nat
  /\ Ids \cap AdminRefs = {} /\ (Ids \cup AdminRefs) \cap Observed = {}

VARIABLES
  device,    \* [id, key, admins, derives] of each device
  template,  \* its admin_nodes
  db,        \* [pub, priv, rows], see RegistryTypeOK
  (* Bookkeeping. *)
  told,        \* the admin keys each row was last written for
  repointed,   \* rows that name a key an operation was allowed to change
  overwritten, \* owners whose key `admin import --overwrite` replaced
  strays,      \* ids whose own row kept naming them when a provision moved it,
               \* as renumbering has renamed them since
  events

registryVars == <<device, template, db, told, repointed, overwritten, strays, events>>

-----------------------------------------------------------------------------
(* The Keys sheet. *)
Holders(d, k) == {o \in Owners : d.pub[o] = k}
HasRow(d, i) == d.rows[i] # NoOne
NamedBy(d, i) == {d.pub[o] : o \in d.rows[i].authorized} \cup d.rows[i].unregistered

(* match_admin_key_refs: a name first, then a node id, then an observed    *)
(* owner.                                                                  *)
Preferred(holders) ==
  CHOOSE o \in holders :
    /\ holders \cap AdminRefs # {} => o \in AdminRefs
    /\ holders \ Observed # {} => o \notin Observed

(* register_observed_key: the reference the key has, or a minted one.      *)
RefFor(d, k) ==
  IF Holders(d, k) # {} THEN Preferred(Holders(d, k))
  ELSE IF d.pub[Short[k]] = NoOne THEN Short[k]
  ELSE IF d.pub[Wide[k]] = NoOne THEN Wide[k]
  ELSE NoOne

RegisterObservedKey(k, filed) ==
  LET ref == RefFor(filed.db, k) IN
  IF ref = NoOne THEN [filed EXCEPT !.minted = FALSE]
  ELSE [filed EXCEPT !.db.pub[ref] = k, !.refs = @ \cup {ref}]

Registered(d, admins) ==
  FoldSet(RegisterObservedKey, [db |-> d, refs |-> {}, minted |-> TRUE], admins)

(* As if only the rows in force were rewritten. *)
AdoptOnActiveRows(d, k, owner) ==
  LET stale == Holders(d, k) \cap Observed
      Follow(row) ==
        [row EXCEPT !.authorized = IF @ \cap stale = {} THEN @ ELSE (@ \ stale) \cup {owner}]
  IN [d EXCEPT !.rows = [i \in Ids |-> IF ~HasRow(d, i) \/ d.rows[i].archived THEN d.rows[i]
                                       ELSE Follow(d.rows[i])],
               !.pub = [o \in Owners |-> IF o \in stale THEN NoOne ELSE @[o]]]

(* adopt_canonical_ref: a key's owner is known; every row that names it by *)
(* an observed reference, or lists it as unregistered, follows.            *)
AdoptCanonicalRef(d, k, owner) ==
  LET stale == Holders(d, k) \cap Observed
      Follow(row) ==
        IF row.authorized \cap stale = {} /\ k \notin row.unregistered THEN row
        ELSE [row EXCEPT !.authorized = (@ \ stale) \cup {owner}, !.unregistered = @ \ {k}]
  IN [d EXCEPT !.rows = [i \in Ids |-> IF HasRow(d, i) THEN Follow(d.rows[i]) ELSE NoOne],
               !.pub = [o \in Owners |-> IF o \in stale THEN NoOne ELSE @[o]]]

(* A row whose authorized keys meshprovision has written. *)
Governs(d, i) == HasRow(d, i) /\ ~d.rows[i].archived /\ d.rows[i].management = "template"

InUse(d) == template \cup UNION {d.rows[i].authorized : i \in {j \in Ids : Governs(d, j)}}

(* As if a key were only in use under the node's own reference. *)
OwnRefInUse(d, i) == IF d.pub[i] = NoOne THEN {} ELSE {i} \cap InUse(d)

(* node_key_admin_refs: the admin references a node's recorded key backs.  *)
NodeKeyAdminRefs(d, i) ==
  IF d.pub[i] = NoOne THEN {} ELSE Holders(d, d.pub[i]) \cap InUse(d)

(* renumbered_row: a device of an unknown id is a known row's, by its key. *)
RenumberedRow(d, live) ==
  LET holders == (Holders(d, live.key) \cap Ids) \ {live.id} IN
  IF /\ DerivedId[live.key] = live.id /\ Cardinality(holders) = 1
     /\ \A i \in holders : HasRow(d, i) /\ ~d.rows[i].archived
  THEN holders ELSE {}

IsKnownOrNew(d, live) == HasRow(d, live.id) \/ RenumberedRow(d, live) = {}
IsArchived(d, i) == HasRow(d, i) /\ d.rows[i].archived

RegistryInit ==
  /\ device = [x \in Devices |->
                [id |-> FirstId[x], key |-> FirstKey[x], admins |-> {}, derives |-> FALSE]]
  /\ template = {}
  /\ db = [pub |-> [o \in Owners |-> NoOne], priv |-> [o \in Owners |-> NoOne],
           rows |-> [i \in Ids |->
             IF Legacy[i] = {} THEN NoOne
             ELSE [management |-> "observed", archived |-> FALSE,
                   authorized |-> {}, unregistered |-> Legacy[i]]]]
  /\ told = Legacy /\ repointed = {} /\ overwritten = {} /\ strays = {}
  /\ events = 0

-----------------------------------------------------------------------------
(* What a row is written for, and the rows whose meaning an operation may  *)
(* change: those that name the key of a node that has another now, and     *)
(* that nothing protects.                                                  *)
Unprotected(owner) ==
  {i \in Ids : HasRow(db, i) /\ ~Governs(db, i) /\ owner \in db.rows[i].authorized}

Writes(i, keys) == told' = [told EXCEPT ![i] = keys]
Rekeys(i, k) ==
  repointed' = (repointed \cup IF db.pub[i] \in {NoOne, k} THEN {} ELSE Unprotected(i)) \ {i}

(* adopt_would_rotate_admin_key, and check_stale_private_key: an adopt     *)
(* that cannot prove the device's private key does not leave another's.    *)
WouldRotate(i, k, shows) ==
  \/ db.pub[i] # k
  \/ shows = "unproven" /\ db.priv[i] # NoOne
LeavesStalePrivate(i, k, shows) == shows # "proven" /\ db.priv[i] \notin {NoOne, k}

(* _refuse_admin_key_rotation *)
RefusesRotation(i, k, shows) == NodeKeyAdminRefs(db, i) # {} /\ WouldRotate(i, k, shows)

(* Nothing of a row but its admin keys is kept; it is observed from now on. *)
AdoptedRow(refs) ==
  [management |-> "observed", archived |-> FALSE, authorized |-> refs, unregistered |-> {}]

(* The device's own key first, under its id, then its admin keys. *)
PersistAdoption(i, k, proven, admins) ==
  LET own   == [db EXCEPT !.pub[i] = k, !.priv[i] = IF proven THEN k ELSE @]
      filed == Registered(AdoptCanonicalRef(own, k, i), admins)
  IN [filed EXCEPT !.db.rows[i] = AdoptedRow(filed.refs)]

(* mesh adopt, from the device or from a backup of it. *)
Adopt(x, shows) ==
  LET i == device[x].id  k == device[x].key
      adopted == PersistAdoption(i, k, shows = "proven", device[x].admins)
  IN /\ IsKnownOrNew(db, device[x]) /\ ~IsArchived(db, i)
     /\ ~RefusesRotation(i, k, shows) /\ ~LeavesStalePrivate(i, k, shows)
     /\ adopted.minted
     /\ db' = adopted.db
     /\ Writes(i, device[x].admins) /\ Rekeys(i, k)
     /\ overwritten' = IF shows = "proven" THEN overwritten \ {i} ELSE overwritten
     /\ UNCHANGED <<device, template, strays, events>>

Happens == events < MaxEvents /\ events' = events + 1

(* mesh admin import REF=KEY, with --overwrite where the reference exists. *)
AdminImport(ref, k) ==
  /\ Happens /\ db.pub[ref] # k
  /\ db' = AdoptCanonicalRef([db EXCEPT !.pub[ref] = k], k, ref)
  /\ overwritten' = IF db.pub[ref] = NoOne THEN overwritten ELSE overwritten \cup {ref}
  /\ repointed' = repointed \cup
       IF db.pub[ref] = NoOne THEN {}
       ELSE {i \in Ids : HasRow(db, i) /\ ref \in db.rows[i].authorized}
  /\ UNCHANGED <<device, template, told, strays>>

(* mesh db forget *)
DbForget(i) ==
  /\ Happens /\ HasRow(db, i) /\ ~db.rows[i].archived
  /\ db' = [db EXCEPT !.rows[i].archived = TRUE]
  /\ UNCHANGED <<device, template, told, repointed, overwritten, strays>>

-----------------------------------------------------------------------------
(* check_new_id and renumber_rows. *)
IsFree(d, i) == ~HasRow(d, i) /\ d.pub[i] = NoOne /\ d.priv[i] = NoOne

RenumberRows(d, old, new) ==
  LET Moved(f) == [o \in DOMAIN f |-> IF o = new THEN f[old] ELSE IF o = old THEN NoOne ELSE f[o]]
      Renamed(row) ==
        IF row = NoOne \/ old \notin row.authorized THEN row
        ELSE [row EXCEPT !.authorized = (@ \ {old}) \cup {new}]
  IN [pub |-> Moved(d.pub), priv |-> Moved(d.priv),
      rows |-> [i \in Ids |-> Renamed(Moved(d.rows)[i])]]

Move(set, old, new) == IF old \in set THEN (set \ {old}) \cup {new} ELSE set

(* mesh db renumber; --force takes the operator's word for the move.       *)
DbRenumber(old, new) ==
  /\ Happens /\ HasRow(db, old) /\ ~db.rows[old].archived /\ old # new /\ IsFree(db, new)
  /\ db' = RenumberRows(db, old, new)
  /\ told' = [told EXCEPT ![new] = told[old], ![old] = {}]
  /\ repointed' = Move(repointed, old, new) /\ overwritten' = Move(overwritten, old, new)
  /\ strays' = Move(strays, old, new)
  /\ UNCHANGED <<device, template>>

-----------------------------------------------------------------------------
(* mesh provision.  plan_node_keypair: a key that is not proven, or shared *)
(* with another node, or given up (a factory node, --force-regenerate-key) *)
(* is replaced; one the database does not have is taken over.              *)
KeyIsShared(live) == (Holders(db, live.key) \cap Ids) \ {live.id} # {}
TakesOver(live) == db.pub[live.id] # live.key

(* identity_conflict_refs: others' references to the key the device shows. *)
IdentityConflicts(live, alias) ==
  LET own    == IF db.pub[live.id] = NoOne THEN {} ELSE Holders(db, db.pub[live.id])
      exempt == IF db.pub[live.id] = NoOne THEN {alias} ELSE {}
  IN Holders(db, live.key) \ (own \cup exempt)

RotationRefused(live, alias) ==
  NodeKeyAdminRefs(db, live.id) \cup IdentityConflicts(live, alias) # {}

(* alias_would_rotate_admin_key *)
AliasRefused(live, alias, regenerates) ==
  /\ alias # NoOne /\ db.pub[alias] # NoOne
  /\ regenerates \/ db.pub[alias] # live.key

(* plan_admin_key_material: the template's, or the device's as they are. *)
AppliedAdmins(admins) == IF template = {} THEN admins ELSE {db.pub[o] : o \in template}

(* What the plan writes the row for: keys it lists as unregistered stay.   *)
Leftover(i) == IF HasRow(db, i) THEN db.rows[i].unregistered ELSE {}
PlannedFor(i) == IF template = {} THEN told[i] ELSE AppliedAdmins({}) \cup Leftover(i)

(* fresh_node_keypair: its id is nobody's. *)
TakenIds == {i \in Ids : ~IsFree(db, i)} \cup {device[x].id : x \in Devices}

(* register_admin_alias files what the run records, or what the node has.  *)
WithAlias(d, i, alias) ==
  IF alias = NoOne THEN d
  ELSE AdoptCanonicalRef(
         [d EXCEPT !.pub[alias] = d.pub[i],
                   !.priv[alias] = IF d.priv[i] = NoOne THEN @ ELSE d.priv[i]],
         d.pub[i], alias)

(* to_record and persist_result: the row as it was read, with the plan's   *)
(* references, over whatever the alias or a new id made of it.             *)
WithRow(d, read, i) ==
  LET base == IF HasRow(db, read) THEN db.rows[read]
              ELSE [management |-> "template", archived |-> FALSE,
                    authorized |-> {}, unregistered |-> {}]
  IN [d EXCEPT !.rows[i] =
       [base EXCEPT !.management = "template",
                    !.authorized = IF template = {} THEN @ ELSE template]]

(* capture_proven_private_key: a private key the device proves fills what  *)
(* is missing or stale; a save of its own, which may fail.                 *)
Captured(d, i, k) ==
  LET stale == {o \in Holders(d, k) \ {i} : d.priv[o] \notin {NoOne, k}} IN
  IF d.pub[i] # k THEN d
  ELSE [d EXCEPT !.priv = [o \in Owners |-> IF o \in stale \cup {i} THEN k ELSE @[o]]]

Recorded(i, k, takes, alias) ==
  LET keyed == IF takes THEN [db EXCEPT !.pub[i] = k, !.priv[i] = k] ELSE db
  IN WithRow(WithAlias(keyed, i, alias), i, i)

(* The device's own key stays, or the database takes it over. *)
ProvisionKeeping(x, alias) ==
  LET live == device[x]  i == live.id  takes == TakesOver(live)
      recorded == Recorded(i, live.key, takes, alias)
  IN /\ IsKnownOrNew(db, live) /\ ~IsArchived(db, i)
     /\ \A o \in template : db.pub[o] # NoOne
     /\ ~KeyIsShared(live)
     /\ takes => ~RotationRefused(live, alias)
     /\ ~AliasRefused(live, alias, FALSE)
     /\ db' \in {recorded, Captured(recorded, i, live.key)}
     /\ device' = [device EXCEPT ![x].admins = AppliedAdmins(@)]
     /\ Writes(i, PlannedFor(i))
     /\ repointed' = (repointed \cup IF db.pub[i] \in {NoOne, live.key} THEN {} ELSE Unprotected(i))
                       \ IF template = {} THEN {} ELSE {i}
     /\ overwritten' = IF takes THEN overwritten \ {i, alias}
                       ELSE overwritten \cup IF i \in overwritten THEN {alias} \ {NoOne} ELSE {}
     /\ UNCHANGED <<template, strays, events>>

(* A row that names the key it is losing, and that the plan leaves alone. *)
SelfNamed(i) == template = {} /\ HasRow(db, i) /\ i \in db.rows[i].authorized

(* The device is given a fresh key, and on firmware 2.8 a new id. *)
ProvisionRegenerating(x, alias, k) ==
  LET live == device[x]  i == live.id
      j    == IF live.derives THEN DerivedId[k] ELSE i
      moved == IF i # j /\ HasRow(db, i) THEN RenumberRows(db, i, j) ELSE db
      keyed == [moved EXCEPT !.pub[j] = k, !.priv[j] = k]
  IN /\ IsKnownOrNew(db, live) /\ ~IsArchived(db, i)
     /\ \A o \in template : db.pub[o] # NoOne
     /\ k \in FreshKeys /\ Holders(db, k) = {} /\ DerivedId[k] \notin TakenIds \ {i}
     /\ \A y \in Devices : device[y].key # k
     /\ ~RotationRefused(live, alias) /\ ~AliasRefused(live, alias, TRUE)
     /\ i # j => IsFree(db, j)
     /\ db' = WithRow(WithAlias(keyed, j, alias), i, j)
     /\ strays' = strays \cup IF i # j /\ SelfNamed(i) THEN {i} ELSE {}
     /\ device' = [device EXCEPT ![x] =
                     [live EXCEPT !.id = j, !.key = k, !.admins = AppliedAdmins(live.admins)]]
     /\ told' = [told EXCEPT ![i] = IF i = j THEN @ ELSE {},
                             ![j] = PlannedFor(i)]
     /\ repointed' = Move(repointed \cup IF db.pub[i] = NoOne THEN {} ELSE Unprotected(i), i, j)
                       \ IF template = {} THEN {} ELSE {j}
     /\ overwritten' = Move(overwritten, i, j) \ {j, alias}
     /\ UNCHANGED <<template, events>>

-----------------------------------------------------------------------------
(* What other hands do: a factory reset or another tool changes a device's *)
(* key or admin keys, firmware 2.8 derives its id, the template is edited. *)
KeyChanges(x, k) ==
  /\ Happens /\ k # device[x].key
  /\ device' = [device EXCEPT ![x] =
       [@ EXCEPT !.key = k, !.id = IF device[x].derives THEN DerivedId[k] ELSE device[x].id]]
  /\ UNCHANGED <<template, db, told, repointed, overwritten, strays>>

AdminsChange(x, keys) ==
  /\ Happens /\ keys # device[x].admins
  /\ device' = [device EXCEPT ![x].admins = keys]
  /\ UNCHANGED <<template, db, told, repointed, overwritten, strays>>

Upgrades(x) ==
  /\ Happens /\ ~device[x].derives
  /\ device' = [device EXCEPT ![x] = [@ EXCEPT !.derives = TRUE, !.id = DerivedId[device[x].key]]]
  /\ UNCHANGED <<template, db, told, repointed, overwritten, strays>>

TemplateChanges(names) ==
  /\ Happens /\ template' = names /\ names # template
  /\ UNCHANGED <<device, db, told, repointed, overwritten, strays>>

RegistryNext ==
  \/ \E x \in Devices :
       \E shows \in {"none", "unproven", "proven"} : Adopt(x, shows)
  \/ \E x \in Managed, alias \in AdminRefs \cup {NoOne} :
       \/ ProvisionKeeping(x, alias)
       \/ \E k \in FreshKeys : ProvisionRegenerating(x, alias, k)
  \/ \E ref \in AdminRefs \cup Ids, k \in Keys : AdminImport(ref, k)
  \/ \E i \in Ids : DbForget(i) \/ \E j \in Ids : DbRenumber(i, j)
  \/ \E x \in Devices :
       \/ \E k \in OtherKeys : KeyChanges(x, k)
       \/ \E keys \in AdminSets : AdminsChange(x, keys)
       \/ Upgrades(x)
  \/ \E names \in Templates : TemplateChanges(names)

RegistrySpec == RegistryInit /\ [][RegistryNext]_registryVars

-----------------------------------------------------------------------------
RegistryTypeOK ==
  /\ device \in [Devices -> [id : Ids, key : Keys, admins : SUBSET Keys, derives : BOOLEAN]]
  /\ template \in Templates
  /\ db.pub \in [Owners -> Keys \cup {NoOne}] /\ db.priv \in [Owners -> Keys \cup {NoOne}]
  /\ \A i \in Ids : HasRow(db, i) => db.rows[i] \in Row

(* Every reference of a row names a key, but for the one the finding names. *)
RefsResolve ==
  \A i \in Ids : HasRow(db, i) =>
    \A o \in db.rows[i].authorized : db.pub[o] # NoOne \/ o \in strays

(* A key with an observed owner has no other: nothing is registered twice. *)
ObservedIsAlone ==
  \A o \in Observed : db.pub[o] # NoOne => Holders(db, db.pub[o]) = {o}

PrivatesMatch ==
  \A o \in Owners : db.priv[o] \in {NoOne, db.pub[o]} \/ o \in overwritten

(* What a row says of a device's admin keys goes on being what it said     *)
(* when it was written: keys get owners, owners get new ids and rows are   *)
(* archived, and only an overwrite, or a new key of a node that no managed *)
(* row and no template names, changes what a reference means.              *)
RowsKeepTheirMeaning ==
  \A i \in Ids \ repointed : HasRow(db, i) => NamedBy(db, i) = told[i]

(* No sequence of commands leaves a reference that names nothing or        *)
(* another key than it did, one key registered both as somebody's and as   *)
(* nobody's, or a private key filed beside a public key it does not make,  *)
(* but by an explicit overwrite.                                           *)
RegistryIsSound ==
  RegistryTypeOK /\ RefsResolve /\ ObservedIsAlone /\ PrivatesMatch /\ RowsKeepTheirMeaning

(* An admin key in use that the database records as a node's own stays so: *)
(* no adopt, provision, renumber or forget files another key over it, and  *)
(* only an overwriting import may.                                         *)
IsRecorded(pub, k) == \E i \in Ids : pub[i] = k
Overwrites == \E ref \in Owners \ Observed, k \in Keys : db.pub[ref] # NoOne /\ AdminImport(ref, k)
AdminKeysKeepTheirNode ==
  [][Overwrites \/ \A o \in InUse(db) :
       db.pub[o] # NoOne /\ IsRecorded(db.pub, db.pub[o]) => IsRecorded(db'.pub, db.pub[o])]_registryVars

(* The renumber a provision follows, "as `mesh db renumber` would move"    *)
(* the row: every reference of every row names a key (docs/commands.md).   *)
NoRefIsLost ==
  \A i \in Ids : HasRow(db, i) => \A o \in db.rows[i].authorized : db.pub[o] # NoOne
=============================================================================
