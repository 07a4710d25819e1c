------------------------------- MODULE Readback -------------------------------
(***************************************************************************)
(* What `mesh provision` makes of a device it reads back after a write     *)
(* (provisioning/readback.py, values_equal in plan_types.py): the device   *)
(* takes the plan as its firmware does, and every field the run wrote is   *)
(* judged.  That a name is cut, a float loses precision and a key shows in *)
(* one view only are the device's doing; when the read-back fails or meets *)
(* another device is ApplyPlan's matter.                                   *)
(*                                                                         *)
(* A name is the byte widths of its characters, prefixes telling names     *)
(* apart; a value has a kind and a number.  How results read is left out.  *)
(***************************************************************************)
EXTENDS Integers, Sequences, FiniteSets, SequencesExt

CONSTANTS
  NameLimit,     \* bytes the firmware keeps of each name
  MaxCut,        \* _UTF8_MAX_CUT_BYTES
  RelTol,        \* one part in so many makes no difference to a float
  FloatStep,     \* the wire's floats lose less, and less than that part
  Plans,         \* see Write
  NoValue, Garbled  \* no value, and a key that does not decode

ASSUME ReadbackAssumption ==
  /\ \A f \in DOMAIN NameLimit : NameLimit[f] \in Nat /\ NameLimit[f] > MaxCut
  /\ MaxCut \in Nat /\ RelTol \in Nat \ {0} /\ FloatStep \in Nat \ {0}
  /\ "is_unmessagable" \notin DOMAIN NameLimit

KeyFields == {<<"security", "public_key">>, <<"security", "admin_key">>}
List(s) == s \in Seq(ToSet(s))

(* What a plan says: names that the firmware limits, of characters of at   *)
(* most MaxCut + 1 bytes; values of fields of sections, but for the owner  *)
(* and the keys, of which none loses more on the wire than RelTol tells.   *)
ASSUME PlansAssumption ==
  \A p \in Plans :
    /\ DOMAIN p.names \subseteq DOMAIN NameLimit
    /\ \A f \in DOMAIN p.names : p.names[f] \in Seq(1..(MaxCut + 1))
    /\ \A f \in DOMAIN p.fields :
         /\ f = <<f[1], f[2]>> /\ f[1] # "owner" /\ f \notin KeyFields
         /\ {"kind", "value"} \subseteq DOMAIN p.fields[f]
         /\ p.fields[f].kind = "float" =>
              /\ p.fields[f].value \in Nat
              /\ (p.fields[f].value % FloatStep) * RelTol <= p.fields[f].value
    /\ p.keys \in {"keep", "adopt", "regenerate"}
    /\ List(p.before.admins) /\ (p.admins # NoValue => List(p.admins))

VARIABLES
  plan,          \* what was to be written, and which sections were sent
  shown,         \* the device as it is read back; NoValue before
  verdicts       \* the results of verify_plan; NoValue before

readVars == <<plan, shown, verdicts>>

Verdict(section, field, status) == [section |-> section, field |-> field, status |-> status]
VerdictOn(section, field, good) == Verdict(section, field, IF good THEN "CONFIRMED" ELSE "UNCONFIRMED")

(* Of each character its bytes.                                            *)
BytesOf(name) == {at \in (1..Len(name)) \X (1..(MaxCut + 1)) : at[2] <= name[at[1]]}
Bytes(name)   == Cardinality(BytesOf(name))

-----------------------------------------------------------------------------
(* As if any start of a name were what firmware keeps of it.               *)
IsAStart(desired, actual, field) ==
  IsPrefix(actual, desired) /\ NameLimit[field] - MaxCut <= Bytes(actual)

(* _is_firmware_truncation *)
IsFirmwareTruncation(desired, actual, field) ==
  /\ IsPrefix(actual, desired)
  /\ Bytes(desired) > NameLimit[field]
  /\ NameLimit[field] - MaxCut <= Bytes(actual) /\ Bytes(actual) < Bytes(desired)

(* _verify_name: without a read-back the interface's own copy proves nothing. *)
VerifyName(field, desired, actual, readBack) ==
  VerdictOn("owner", field,
    actual = desired \/ ~readBack \/ (actual # <<>> /\ IsFirmwareTruncation(desired, actual, field)))

(* values_equal: numbers of which one is a float agree but for precision. *)
ValuesEqual(current, desired) ==
  IF {current.kind, desired.kind} \in {{"float"}, {"int", "float"}}
  THEN LET gap == current.value - desired.value
           most == IF current.value > desired.value THEN current.value ELSE desired.value
       IN (IF gap < 0 THEN -gap ELSE gap) * RelTol <= most
  ELSE current = desired

(* _verify_key_material: both views, where there is a second. *)
VerifyKeyMaterial(keypair, local, nodedb) ==
  VerdictOn("security", "public_key", local = keypair /\ nodedb \in {NoValue, keypair})

(* _verify_admin_keys: in any order, but as often. *)
VerifyAdminKeys(desired, actual) ==
  VerdictOn("security", "admin_key",
    /\ Len(desired) = Len(actual)
    /\ \A k \in ToSet(desired) \cup ToSet(actual) :
         Cardinality({i \in DOMAIN desired : desired[i] = k}) =
         Cardinality({i \in DOMAIN actual : actual[i] = k}))

(* verify_plan *)
VerifyPlan(p, device) ==
  {VerifyName(f, p.names[f], device.names[f], p.readBack) : f \in DOMAIN p.names} \cup
  {VerdictOn("owner", "is_unmessagable", device.silent = p.silent \/ ~p.readBack) :
     x \in {p.silent} \ {NoValue}} \cup
  {VerdictOn(f[1], f[2], ValuesEqual(device.fields[f], p.fields[f])) :
     f \in {g \in DOMAIN p.fields : g[1] \in p.attempted}} \cup
  {VerifyKeyMaterial(p.keypair, device.key, device.nodedb) :
     x \in {p.keys} \cap (IF p.keypair = NoValue THEN {}
                          ELSE IF "security" \in p.attempted THEN {"regenerate", "adopt"}
                          ELSE {"adopt"})} \cup
  {VerifyAdminKeys(p.admins, device.admins) :
     x \in {p.admins} \ (IF "security" \in p.attempted THEN {NoValue} ELSE {p.admins})}

-----------------------------------------------------------------------------
(* The firmware keeps the whole characters of a name it has room for.      *)
Kept(name, room) ==
  IF Bytes(name) <= room THEN name
  ELSE SubSeq(name, 1, Max({n \in 0..Len(name) : Bytes(SubSeq(name, 1, n)) <= room}))

OverTheWire(v) ==
  IF v.kind = "float" THEN [v EXCEPT !.value = @ - (@ % FloatStep)] ELSE v

(* What the device may show where a write is taken, and where it is lost.  *)
(* setOwner changes nothing in the interface's own copy of the owner.      *)
Write ==
  /\ shown = NoValue
  /\ \E lostNames \in SUBSET DOMAIN plan.names, lostFields \in SUBSET DOMAIN plan.fields,
        silent \in {plan.silent, plan.before.silent},
        key \in {plan.keypair, plan.before.key}, nodedb \in {plan.keypair, plan.before.key, NoValue, Garbled},
        admins \in {plan.before.admins} \cup
                   (IF plan.admins = NoValue THEN {} ELSE {plan.admins, Reverse(plan.admins)}) :
       /\ lostFields \in {{}} \cup {{f} : f \in DOMAIN plan.fields} \cup {DOMAIN plan.fields}
       /\ shown' =
            [names |-> [f \in DOMAIN plan.names |->
                          IF f \in lostNames \/ ~plan.readBack THEN plan.before.names[f]
                          ELSE Kept(plan.names[f], NameLimit[f])],
             silent |-> IF plan.readBack THEN silent ELSE plan.before.silent,
             fields |-> [f \in DOMAIN plan.fields |->
                           IF f \in lostFields \/ f[1] \notin plan.attempted
                           THEN plan.before.fields[f] ELSE OverTheWire(plan.fields[f])],
             key |-> key, nodedb |-> nodedb, admins |-> admins]
  /\ UNCHANGED <<plan, verdicts>>

JudgeAll ==
  /\ shown # NoValue /\ verdicts = NoValue
  /\ verdicts' = VerifyPlan(plan, shown)
  /\ UNCHANGED <<plan, shown>>

ReadbackStart(p) == plan = p /\ shown = NoValue /\ verdicts = NoValue
ReadbackInit == \E p \in Plans : ReadbackStart(p)
ReadbackNext == Write \/ JudgeAll

ReadbackSpec == ReadbackInit /\ [][ReadbackNext]_readVars

-----------------------------------------------------------------------------
(* Nothing the device refused passes: what is confirmed after a read-back  *)
(* is on the device, but for what its firmware cut off a name that is too  *)
(* long and off a float, and a keypair is so in every view there is.       *)
ConfirmedIsHeld ==
  \A v \in verdicts : v.status = "CONFIRMED" /\ plan.readBack =>
    /\ v.section = "owner" /\ v.field \in DOMAIN plan.names =>
         \/ shown.names[v.field] = plan.names[v.field]
         \/ /\ Bytes(plan.names[v.field]) > NameLimit[v.field]
            /\ shown.names[v.field] # <<>> /\ IsPrefix(shown.names[v.field], plan.names[v.field])
    /\ v.section = "owner" /\ v.field = "is_unmessagable" => shown.silent = plan.silent
    /\ <<v.section, v.field>> \in DOMAIN plan.fields =>
         LET f == <<v.section, v.field>> IN
         "float" \notin {shown.fields[f].kind, plan.fields[f].kind} => shown.fields[f] = plan.fields[f]
    /\ <<v.section, v.field>> = <<"security", "public_key">> =>
         {shown.key, shown.nodedb} \subseteq {plan.keypair, NoValue}
    /\ <<v.section, v.field>> = <<"security", "admin_key">> =>
         \E order \in Bijection(DOMAIN plan.admins, DOMAIN shown.admins) :
           \A i \in DOMAIN plan.admins : shown.admins[order[i]] = plan.admins[i]

(* Nothing the device took is doubted, however its firmware keeps it.      *)
TakenIsConfirmed ==
  \A v \in verdicts : v.status = "UNCONFIRMED" =>
    /\ v.section = "owner" /\ v.field \in DOMAIN plan.names =>
         shown.names[v.field] # Kept(plan.names[v.field], NameLimit[v.field])
    /\ <<v.section, v.field>> \in DOMAIN plan.fields =>
         shown.fields[<<v.section, v.field>>] # OverTheWire(plan.fields[<<v.section, v.field>>])

(* A section that was never sent gets no verdict, neither does a key that  *)
(* was to be generated in it; every other part of the plan gets one.       *)
SentIsJudged ==
  LET judged == {<<v.section, v.field>> : v \in verdicts} IN
  /\ \A f \in judged : f[1] = "owner" \/ f[1] \in plan.attempted \/ plan.keys = "adopt"
  /\ \A f \in DOMAIN plan.names : <<"owner", f>> \in judged
  /\ \A f \in DOMAIN plan.fields : f[1] \in plan.attempted => f \in judged
  /\ "security" \in plan.attempted =>
       /\ plan.keypair # NoValue /\ plan.keys # "keep" => <<"security", "public_key">> \in judged
       /\ plan.admins # NoValue => <<"security", "admin_key">> \in judged

(* The read-back tells the truth of the device, whatever it took.          *)
ReadbackIsTrue == verdicts # NoValue => ConfirmedIsHeld /\ TakenIsConfirmed /\ SentIsJudged
=============================================================================
