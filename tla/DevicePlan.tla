------------------------------ MODULE DevicePlan ------------------------------
(***************************************************************************)
(* What `mesh provision` decides to change of a node, and what it records  *)
(* (provisioning/plan.py, plan_security.py, plan_admin_keys.py,            *)
(* ChangePlan, classify): the plan is computed from the live device, its   *)
(* row and the template.  Here it is then applied as a whole and recorded; *)
(* what becomes of a plan that fails halfway is ApplyPlan's matter.        *)
(*                                                                         *)
(* Fields of the config sections and of telemetry and neighbor_info are    *)
(* compared alike; which reboot, and all warnings, are left out.           *)
(***************************************************************************)
EXTENDS Integers, Sequences, FiniteSets

CONSTANTS
  Modules,       \* the modules with an "enabled" field some firmware has
  AdminNodes,     \* admin nodes a template may name
  AdminKeys, KeyOf,    \* their keys; two may have the same
  WithPrivate, Mismatched,  \* refs with a private key row, and those it does not fit
  WeakKeys, UnusableKeys,   \* of all keys: no flag allows the second
  FleetKeys,     \* keys of other nodes of the database
  NewKey,        \* what this program generates
  MaxAdminKeys,  \* slots of the firmware
  FactoryNames, Stripped, Truncated,  \* names: without white space, as firmware keeps them
  Setups,        \* devices, rows, templates and options, see PlanInit
  Nothing        \* no value

ASSUME DevicePlanAssumption ==
  /\ KeyOf \in [AdminNodes -> AdminKeys] /\ Mismatched \subseteq AdminNodes \ WithPrivate
  /\ UnusableKeys \subseteq WeakKeys /\ NewKey \notin WeakKeys \cup FleetKeys
  /\ MaxAdminKeys \in Nat \ {0}
  /\ NewKey # Nothing

(* What LiveConfig has, and of what kind what the properties tell apart is.*)
LiveFields ==
  {"short", "long", "silent", "fields", "modules", "pin", "channel", "adminChannel", "hasPolicy",
   "policy", "managed", "key", "private", "flawed", "admins"}

ASSUME SetupsAssumption ==
  \A s \in Setups :
    /\ LiveFields \subseteq DOMAIN s.live /\ Modules \subseteq DOMAIN s.live.modules
    /\ s.live.admins \in [AdminKeys -> Nat] /\ s.template.admins \in Seq(AdminNodes)
    /\ DOMAIN s.template.fields \subseteq DOMAIN s.live.fields /\ s.opts.pin # Nothing
    /\ {"force", "short", "long", "recovered"} \subseteq DOMAIN s.opts
    /\ {s.live.managed, s.live.private, s.live.flawed, s.template.managed, s.opts.force,
        s.opts.recovered, s.opts.allowWeak, s.opts.allowLockdown} \subseteq BOOLEAN
    /\ s.row # Nothing => s.row.generated \in BOOLEAN

VARIABLES setup, outcome

outcomeVars == <<setup, outcome>>

Named(s) == {s[n] : n \in 1..Len(s)}

-----------------------------------------------------------------------------
(* detect.classify *)
Classify(live, row) ==
  IF row # Nothing THEN "provisioned"
  ELSE IF ~live.managed /\ {live.short, live.long} \subseteq FactoryNames
          /\ \A k \in AdminKeys : live.admins[k] = 0 THEN "factory"
  ELSE "foreign"

(* pipeline.is_host_generated_key, or a pending keypair that matches. *)
HostGenerated(live, row, opts) ==
  \/ opts.recovered
  \/ row # Nothing /\ row.generated /\ row.key = live.key /\ live.private

(* audit_node_key: of the firmware's weakness a generated key is free. *)
NodeKeyCompromised(live, row, opts) ==
  /\ live.key # Nothing
  /\ \/ live.key \in WeakKeys \cup FleetKeys
     \/ live.flawed /\ ~HostGenerated(live, row, opts)

(* plan_node_keypair *)
KeyDecision(live, row, opts) ==
  LET recorded == IF row = Nothing THEN Nothing ELSE row.key IN
  IF \/ opts.force \/ Classify(live, row) = "factory"
     \/ live.key = Nothing \/ ~live.private \/ NodeKeyCompromised(live, row, opts)
  THEN "regenerate"
  ELSE IF opts.recovered \/ recorded # live.key THEN "adopt" ELSE "keep"

KeyRefused(live, row, opts) == opts.backs /\ KeyDecision(live, row, opts) # "keep"

-----------------------------------------------------------------------------
(* plan_admin_key_material: how often each key is on the device. *)
Authorized(template, opts) ==
  {r \in Named(template.admins) :
     KeyOf[r] \notin WeakKeys \/ (opts.allowWeak /\ KeyOf[r] \notin UnusableKeys)}

DesiredAdmins(live, template, opts) ==
  IF template.admins = <<>>
  THEN [k \in AdminKeys |-> IF k \in WeakKeys THEN 0 ELSE live.admins[k]]
  ELSE [k \in AdminKeys |-> IF \E r \in Authorized(template, opts) : KeyOf[r] = k THEN 1 ELSE 0]

TooMany(template) == Len(template.admins) > MaxAdminKeys

(* evaluate_lockdown *)
Lockdown(live, template, opts) ==
  template.managed /\ (opts.allowLockdown \/ live.managed)

LockdownRefused(live, template, opts) ==
  /\ template.managed
  /\ \/ \E r \in Named(template.admins) : KeyOf[r] \in WeakKeys
     \/ \A k \in AdminKeys : DesiredAdmins(live, template, opts)[k] = 0
     \/ Named(template.admins) \cap Mismatched # {}
     \/ Named(template.admins) \cap WithPrivate = {}

-----------------------------------------------------------------------------
(* The PIN of the row, or one drawn for this run. *)
PinOf(row, opts) == IF row = Nothing \/ row.pin = Nothing THEN opts.pin ELSE row.pin

(* build_plan *)
Diff(desired, current) == {f \in DOMAIN desired : current[f] # desired[f]}

(* _db_name_or_live *)
NameOrLive(recorded, live) == IF recorded \in {Nothing, Stripped[live]} THEN live ELSE recorded

DesiredName(wanted, row, live, which) ==
  IF wanted # Nothing THEN wanted
  ELSE NameOrLive(IF row = Nothing THEN Nothing ELSE row[which], live[which])

(* _plan_module_sections: modules this firmware does not have are skipped. *)
Toggles(live, template) ==
  {m \in DOMAIN template.options \cap Modules : live.modules[m] \notin {Nothing, template.options[m]}}

(* _plan_bluetooth_section, _plan_default_channel_section *)
PinDiffers(live, row, opts) == live.pin # PinOf(row, opts)
ChannelDiffers(live, template) ==
  template.channel # Nothing /\ live.channel # Nothing /\ template.channel # live.channel

(* plan_security_section's own fields; admin_channel_enabled is forced. *)
SecurityFields(live, template, opts) ==
  {f \in {"adminChannel", "policy", "managed"} :
     CASE f = "adminChannel" -> live.adminChannel
       [] f = "policy" -> /\ template.policy # Nothing /\ live.hasPolicy
                          /\ template.policy # live.policy
       [] f = "managed" -> live.managed # Lockdown(live, template, opts)}

BuildPlan(live, row, template, opts) ==
  [short    |-> DesiredName(opts.short, row, live, "short"),
   long     |-> DesiredName(opts.long, row, live, "long"),
   silent   |-> IF template.silent = Nothing THEN live.silent ELSE template.silent,
   fields   |-> Diff(template.fields, live.fields),
   toggles  |-> Toggles(live, template),
   pin      |-> PinDiffers(live, row, opts),
   channel  |-> ChannelDiffers(live, template),
   security |-> SecurityFields(live, template, opts),
   key      |-> KeyDecision(live, row, opts),
   admins   |-> DesiredAdmins(live, template, opts)]

PlanRefused(live, row, template, opts) ==
  TooMany(template) \/ KeyRefused(live, row, opts) \/ LockdownRefused(live, template, opts)

IsEmpty(plan, live) ==
  /\ plan.short = live.short /\ plan.long = live.long /\ plan.silent = live.silent
  /\ plan.fields = {} /\ plan.toggles = {} /\ ~plan.pin /\ ~plan.channel
  /\ plan.security = {} /\ plan.key = "keep" /\ plan.admins = live.admins

-----------------------------------------------------------------------------
(* The device, external: it keeps what is written, and of a long name the  *)
(* start.                                                                  *)
Applied(live, row, template, opts, plan) ==
  [live EXCEPT
     !.short = IF plan.short = live.short THEN @ ELSE Truncated[plan.short],
     !.long  = IF plan.long = live.long THEN @ ELSE Truncated[plan.long],
     !.silent = plan.silent,
     !.fields = [f \in DOMAIN @ |-> IF f \in plan.fields THEN template.fields[f] ELSE @[f]],
     !.modules = [m \in DOMAIN @ |-> IF m \in plan.toggles THEN template.options[m] ELSE @[m]],
     !.pin = PinOf(row, opts),
     !.channel = IF plan.channel THEN template.channel ELSE @,
     !.adminChannel = FALSE,
     !.policy = IF "policy" \in plan.security THEN template.policy ELSE @,
     !.managed = Lockdown(live, template, opts),
     !.key = IF plan.key = "regenerate" THEN NewKey ELSE @,
     !.private = TRUE,
     !.admins = plan.admins]

(* As if the names asked for were those the device has now. *)
RecordedAsAsked(plan, live, name, which) == plan[which]
RecordedName(plan, live, name, which) == name

(* ChangePlan.to_record, with the names the device has after the write,    *)
(* and the key persist_result records.                                     *)
ToRecord(row, live, template, opts, plan, after) ==
  LET before  == IF row = Nothing THEN {} ELSE row.admins
      weak    == {k \in AdminKeys : live.admins[k] > 0 /\ k \in WeakKeys}
  IN [short |-> Stripped[RecordedName(plan, live, after.short, "short")],
      long  |-> Stripped[RecordedName(plan, live, after.long, "long")],
      key   |-> after.key,
      generated |-> \/ plan.key = "regenerate" \/ opts.recovered
                    \/ plan.key = "keep" /\ row.generated,
      pin   |-> IF plan.pin THEN PinOf(row, opts) ELSE IF row = Nothing THEN Nothing ELSE row.pin,
      admins |-> IF template.admins # <<>> THEN Authorized(template, opts)
                 ELSE {r \in before : KeyOf[r] \notin weak}]

PlanOf(s)   == BuildPlan(s.live, s.row, s.template, s.opts)
After(s)    == Applied(s.live, s.row, s.template, s.opts, PlanOf(s))
RecordOf(s) == ToRecord(s.row, s.live, s.template, s.opts, PlanOf(s), After(s))

(* A row is something.                                                     *)
ASSUME RowAssumption == \A s \in Setups : RecordOf(s) # Nothing

PlanStart(given) == setup = given /\ outcome = Nothing
PlanInit == \E given \in Setups : PlanStart(given)

RunProvision ==
  /\ outcome = Nothing
  /\ outcome' = IF PlanRefused(setup.live, setup.row, setup.template, setup.opts)
                THEN [refused |-> TRUE]
                ELSE [refused |-> FALSE, live |-> After(setup), row |-> RecordOf(setup)]
  /\ UNCHANGED setup

PlanNext == RunProvision

PlanSpec == PlanInit /\ [][PlanNext]_outcomeVars

-----------------------------------------------------------------------------
Again ==
  [setup.opts EXCEPT !.force = FALSE, !.short = Nothing, !.long = Nothing, !.recovered = FALSE]

(* A run that succeeded leaves nothing to do for the next one: whatever    *)
(* the device, the row and the template were, the plan of a second run is  *)
(* accepted and empty.  The row has the PIN, unless the one that was drawn *)
(* for a node without any happened to be the one it had.                   *)
PlanSettles ==
  LET live == outcome.live  row == outcome.row
  IN /\ row.pin = live.pin \/ (row.pin = Nothing /\ setup.opts.pin = setup.live.pin)
     /\ ~PlanRefused(live, row, setup.template, Again)
     /\ IsEmpty(BuildPlan(live, row, setup.template, Again), live)

(* A node is only ever managed by somebody who can administer it: an       *)
(* administrator of the template whose private key is recorded and fits is *)
(* on the device, and no key that failed the audit.  It is locked only     *)
(* when allowed, and not unlocked by a run without the flag.               *)
LockdownIsSafe ==
  /\ outcome.live.managed =>
       /\ \E r \in Named(setup.template.admins) \cap WithPrivate :
            outcome.live.admins[KeyOf[r]] > 0
       /\ \A k \in WeakKeys \cap AdminKeys : outcome.live.admins[k] = 0
  /\ outcome.live.managed /\ ~setup.live.managed => setup.opts.allowLockdown
  /\ setup.live.managed /\ setup.template.managed => outcome.live.managed

(* The row names the administrators of the device, and the node's own key, *)
(* which is sound: nobody knows it from elsewhere.                         *)
RowIsTrue ==
  LET live == outcome.live  row == outcome.row IN
  /\ setup.template.admins # <<>> =>
       {KeyOf[r] : r \in row.admins} = {k \in AdminKeys : live.admins[k] > 0}
  /\ \A k \in AdminKeys : live.admins[k] > 0 => k \notin UnusableKeys
  /\ \A k \in AdminKeys \cap WeakKeys : live.admins[k] > 0 => setup.opts.allowWeak
  /\ row.key = live.key /\ live.key \notin WeakKeys \cup FleetKeys
  /\ live.flawed => row.generated

PlanIsRight ==
  outcome # Nothing /\ ~outcome.refused => PlanSettles /\ LockdownIsSafe /\ RowIsTrue
=============================================================================
