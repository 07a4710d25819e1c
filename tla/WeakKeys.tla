------------------------------- MODULE WeakKeys -------------------------------
(***************************************************************************)
(* The audit of a node's keys (crypto/weakkeys.py): the structure of the   *)
(* bytes, the blocklist, a private key against its public one, the         *)
(* firmware that made the pair and the other nodes' keys; and the file the *)
(* blocklist is read from (crypto/known_bad_keys.py), the first there is   *)
(* of several places, cached under its time and size while an editor       *)
(* rewrites it.                                                            *)
(*                                                                         *)
(* A key is a short sequence of narrow bytes.                              *)
(***************************************************************************)
EXTENDS Integers, Sequences, FiniteSets, FiniteSetsExt

CONSTANTS
  KeySize, ByteBits,
  LowWeight, HighWeight, MinDistinct,
  SmallOrder,    \* the degenerate points of the curve
  PublicOf,      \* the public key a private key has, a function
  VulnerableMin, FixedMin,  \* the firmwares that cloned keys
  Places,        \* where the blocklist may be, in the order looked at
  Entries,       \* what it may list
  Nodes,         \* what may be audited, see AuditNode
  MaxListEdits,  \* bounds the edits of a blocklist
  Absent, Unparsed  \* nothing, and a version that cannot be parsed

ByteValues == 0..(2^ByteBits - 1)
RawKeys       == [1..KeySize -> ByteValues]

(* A blocklist file: what it lists, since when, the sizes it had then.     *)
Listing == [entries : Entries, time : Nat, sizes : SUBSET Nat]

ASSUME WeakKeysAssumption ==
  /\ KeySize \in Nat /\ KeySize >= 2 /\ ByteBits \in Nat \ {0}
  /\ SmallOrder \subseteq RawKeys /\ [i \in 1..KeySize |-> 0] \in SmallOrder
  /\ {LowWeight, HighWeight, MinDistinct, VulnerableMin, FixedMin} \subseteq Nat
  /\ LowWeight + HighWeight = KeySize * ByteBits /\ LowWeight < HighWeight
  /\ Len(Places) \in Nat /\ Absent \notin Listing
  /\ (\A entries \in Entries : IsFiniteSet(entries))

ASSUME NodesAssumption ==
  \A node \in Nodes :
    /\ {node.public, node.private} \subseteq RawKeys \cup {Absent} /\ Absent \notin RawKeys
    /\ node.firmware \in Nat \cup {Absent, Unparsed} /\ {Absent, Unparsed} \cap Nat = {}
    /\ IsFiniteSet(DOMAIN node.fleet) /\ \A r \in DOMAIN node.fleet : node.fleet[r] # Absent

(* What a power is, as far as a byte goes: no prover knows.               *)
ASSUME PowersAssumption ==
  \A b \in 1..ByteBits : 2^b \in Nat /\ 2^b = 2 * 2^(b - 1)

VARIABLES
  lists,   \* each place's file: a listing or Absent
  memo,    \* the process's cache, by place, time and size
  audit,   \* the audit under way: its step, node, place, stamp, list, findings
  since,   \* what the file it reads has listed since the audit began
  edits

auditVars == <<lists, memo, audit, since, edits>>

-----------------------------------------------------------------------------
(* The structure of one key. *)
Distinct(raw)        == {raw[i] : i \in DOMAIN raw}
IsAllZero(raw)       == \A i \in DOMAIN raw : raw[i] = 0
IsRepeatedByte(raw)  == Len(raw) >= 2 /\ Cardinality(Distinct(raw)) = 1

(* As if a run stopped at the last value of a byte. *)
RunWithin(raw) ==
  \E step \in {1, -1} : \A i \in 1..(Len(raw) - 1) : raw[i + 1] - raw[i] = step

IsMonotonicRun(raw) ==
  LET deltas == {(raw[i + 1] - raw[i]) % 2^ByteBits : i \in 1..(Len(raw) - 1)} IN
  Len(raw) >= 2 /\ deltas \in {{1}, {2^ByteBits - 1}}

HammingWeight(raw) ==
  Cardinality({bit \in (DOMAIN raw) \X (0..(ByteBits - 1)) :
                 (raw[bit[1]] \div 2^bit[2]) % 2 = 1})

IsUnbalanced(raw) == HammingWeight(raw) < LowWeight \/ HammingWeight(raw) > HighWeight
IsLowEntropy(raw) == IsUnbalanced(raw) \/ Cardinality(Distinct(raw)) < MinDistinct

FoundIf(check, severity, holds) == IF holds THEN {[check |-> check, severity |-> severity]} ELSE {}

(* One finding for each check that fails, all of them critical but few     *)
(* distinct bytes of an ordinary weight.                                   *)
StructuralFindings(raw, isPublic) ==
  FoundIf("all zero", "critical", IsAllZero(raw))
    \cup FoundIf("small order", "critical", isPublic /\ raw \in SmallOrder)
    \cup FoundIf("repeated byte", "critical", IsRepeatedByte(raw))
    \cup FoundIf("monotonic", "critical", IsMonotonicRun(raw))
    \cup FoundIf("low entropy", IF IsUnbalanced(raw) THEN "critical" ELSE "warning", IsLowEntropy(raw))

AuditKey(raw, isPublic, bad) ==
  IF raw = Absent THEN {}
  ELSE StructuralFindings(raw, isPublic) \cup FoundIf("blocklist", "critical", raw \in bad)

AuditKeypair(private, public, bad) ==
  AuditKey(private, FALSE, bad) \cup AuditKey(public, TRUE, bad)
    \cup FoundIf("consistency", "critical",
               private # Absent /\ public # Absent /\ PublicOf[private] # public)

(* A version is a number here, and one that cannot be parsed is none. *)
FirmwareFindings(version) ==
  IF version = Unparsed THEN FoundIf("firmware", "warning", TRUE)
  ELSE FoundIf("firmware", "critical",
             version # Absent /\ VulnerableMin <= version /\ version < FixedMin)

SameKeyAs(ref, public, fleet) == {r \in DOMAIN fleet \ {ref} : fleet[r] = public}

AuditNode(node, bad) ==
  AuditKeypair(node.private, node.public, bad) \cup FirmwareFindings(node.firmware)
    \cup FoundIf("duplicate", "critical",
               node.public # Absent /\ SameKeyAs(node.ref, node.public, node.fleet) # {})

(* find_duplicate_public_keys, of the whole fleet at once. *)
FindDuplicates(fleet) ==
  LET Sharing(r) == {s \in DOMAIN fleet : fleet[s] = fleet[r]} IN
  [r \in {s \in DOMAIN fleet : Cardinality(Sharing(s)) > 1} |-> Sharing(r) \ {r}]

Compromised(findings) == \E f \in findings : f.severity = "critical"
Overridable(findings) ==
  ~\E f \in findings : f.severity = "critical" /\ f.check \in {"all zero", "small order"}

-----------------------------------------------------------------------------
(* default_known_bad_keys_path, load_known_bad_keys *)
Unused == [step |-> "idle", node |-> Absent, env |-> Absent, place |-> Absent, stamp |-> Absent,
           bad |-> {}, findings |-> {}, twice |-> FALSE]

File(entries, time, sizes) ==
  [entries |-> entries, time |-> time, sizes |-> sizes \cup {Cardinality(entries)}]

There(place) == lists[place] # Absent
Stamp(place) == <<place, lists[place].time, Cardinality(lists[place].entries)>>

PlaceOf(env) ==
  IF env # Absent THEN env
  ELSE LET there == {n \in 1..Len(Places) : There(Places[n])} IN
       IF there = {} THEN Absent ELSE Places[Min(there)]

(* The node is not looked at before the list is there. *)
Judged(bad) ==
  \E node \in Nodes :
    audit' = [audit EXCEPT !.step = "judged", !.node = node, !.bad = bad,
                           !.findings = AuditNode(node, bad)]

StartAudit(env) ==
  /\ audit.step \in {"judged", "refused"}
  /\ audit' = [Unused EXCEPT !.env = env, !.step = "locate", !.twice = audit.twice]
  /\ since' = {} /\ UNCHANGED <<lists, memo, edits>>

(* A place named by the environment must exist, the others need not. *)
Locate ==
  /\ audit.step = "locate" /\ UNCHANGED <<lists, memo, edits>>
  /\ LET place == PlaceOf(audit.env) IN
     CASE place = Absent -> Judged(SmallOrder) /\ UNCHANGED since
       [] place # Absent /\ ~There(place) ->
            audit' = [audit EXCEPT !.step = "refused"] /\ UNCHANGED since
       [] OTHER -> /\ audit' = [audit EXCEPT !.step = "stat", !.place = place]
                   /\ since' = {lists[place].entries}

Stat ==
  /\ audit.step = "stat" /\ There(audit.place) /\ UNCHANGED <<lists, memo, since, edits>>
  /\ LET stamp == Stamp(audit.place) IN
     IF stamp \in DOMAIN memo THEN Judged(memo[stamp])
     ELSE audit' = [audit EXCEPT !.step = "read", !.stamp = stamp]

(* A line that is no key refuses the whole file. *)
Read ==
  /\ audit.step = "read" /\ There(audit.place) /\ UNCHANGED <<lists, since, edits>>
  /\ LET entries == lists[audit.place].entries
         bad     == (entries \cap RawKeys) \cup SmallOrder
     IN IF entries \subseteq RawKeys
        THEN /\ memo' = [s \in DOMAIN memo \cup {audit.stamp} |->
                           IF s = audit.stamp THEN bad ELSE memo[s]]
             /\ Judged(bad)
        ELSE audit' = [audit EXCEPT !.step = "refused"] /\ UNCHANGED memo

(* The file went away: before it is looked at none is used, later that is  *)
(* an error.                                                               *)
Gone ==
  /\ audit.step \in {"stat", "read"} /\ ~There(audit.place)
  /\ IF audit.step = "stat" THEN Judged(SmallOrder) ELSE audit' = [audit EXCEPT !.step = "refused"]
  /\ UNCHANGED <<lists, memo, since, edits>>

(* An editor, external: each rewrite has a time of its own or, within the  *)
(* file system's resolution, that of the one before.  "twice" is that a    *)
(* file came to a time and a size it had had already.  What it writes      *)
(* between two audits it writes before the later one looks.                *)
ListEdits == audit.step \in {"locate", "stat", "read"} /\ edits < MaxListEdits /\ edits' = edits + 1

Rewrite(place, entries, later) ==
  /\ ListEdits /\ (There(place) \/ later)
  /\ lists' = [lists EXCEPT ![place] =
                 IF later THEN File(entries, edits + 1, {})
                 ELSE File(entries, lists[place].time, lists[place].sizes)]
  /\ since' = IF place = audit.place THEN since \cup {entries} ELSE since
  /\ audit' = [audit EXCEPT !.twice =
                 @ \/ (~later /\ Cardinality(entries) \in lists[place].sizes)]
  /\ UNCHANGED memo

Delete(place) ==
  /\ ListEdits /\ There(place)
  /\ lists' = [lists EXCEPT ![place] = Absent]
  /\ since' = IF place = audit.place THEN since \cup {{}} ELSE since
  /\ UNCHANGED <<memo, audit>>

PlaceNames == {Places[n] : n \in 1..Len(Places)}

AuditInit ==
  /\ lists \in [PlaceNames -> {Absent} \cup {File(entries, 0, {}) : entries \in Entries}]
  /\ memo = << >> /\ since = {} /\ edits = 0
  /\ audit = [Unused EXCEPT !.step = "locate"]

AuditNext ==
  \/ \E env \in PlaceNames \cup {Absent} : StartAudit(env)
  \/ Locate \/ Stat \/ Read \/ Gone
  \/ \E place \in PlaceNames :
       Delete(place) \/ \E entries \in Entries, later \in BOOLEAN : Rewrite(place, entries, later)

AuditSpec == AuditInit /\ [][AuditNext]_auditVars

-----------------------------------------------------------------------------
(* A run written from its first byte on, round the end of the values.      *)
RunFrom(first, step) == [i \in 1..KeySize |-> (first + step * (i - 1)) % 2^ByteBits]
Complement(raw) == [i \in DOMAIN raw |-> 2^ByteBits - 1 - raw[i]]

(* A key nobody can trust: a run of steps 1, 0 or -1 or one of too few or  *)
(* too many bits, in whichever way it came to be.                          *)
Untrusted(raw) ==
  \/ \E first \in ByteValues, step \in {-1, 0, 1} : raw = RunFrom(first, step)
  \/ Min({HammingWeight(raw), HammingWeight(Complement(raw))}) < LowWeight

(* Of all keys exactly those and the degenerate points are compromised by  *)
(* their structure: a key of few distinct bytes is not, and a private key  *)
(* is none for being a point.                                              *)
StructureIsJudged ==
  \A raw \in RawKeys :
    /\ Compromised(StructuralFindings(raw, TRUE)) <=> Untrusted(raw) \/ raw \in SmallOrder
    /\ Compromised(StructuralFindings(raw, FALSE)) <=> Untrusted(raw)

(* A node's keys are compromised by their structure, the list, each other, *)
(* the firmware or the fleet, and by nothing else; and what no flag may    *)
(* authorize is exactly what no private key can match.                     *)
KeyIsJudged ==
  LET node == audit.node  findings == audit.findings
      given == {node.public, node.private} \ {Absent}
  IN /\ Compromised(findings) <=>
          \/ \E raw \in given : Untrusted(raw) \/ raw \in audit.bad
          \/ Absent \notin {node.public, node.private} /\ PublicOf[node.private] # node.public
          \/ \E version \in VulnerableMin..(FixedMin - 1) : node.firmware = version
          \/ \E r \in DOMAIN node.fleet \ {node.ref} : node.fleet[r] = node.public
     /\ Overridable(findings) <=>
          node.public \notin SmallOrder /\ (node.private = Absent \/ ~IsAllZero(node.private))

(* The check of one node against the fleet and the one of the fleet at     *)
(* once agree, and to share a key is mutual.                               *)
DuplicatesAgree ==
  LET fleet == audit.node.fleet  pairs == FindDuplicates(fleet) IN
  \A r, s \in DOMAIN fleet :
    /\ (s \in SameKeyAs(r, fleet[r], fleet)) = (r \in SameKeyAs(s, fleet[s], fleet))
    /\ (s \in SameKeyAs(r, fleet[r], fleet)) = (r \in DOMAIN pairs /\ s \in pairs[r])

(* The degenerate points are always blocked, and what else was is what the *)
(* file listed at some time since the audit began, unless a file came to a *)
(* time and a size it had had before.                                      *)
ListIsCurrent ==
  /\ SmallOrder \subseteq audit.bad
  /\ audit.place # Absent /\ ~audit.twice =>
       \E entries \in since : audit.bad = (entries \cap RawKeys) \cup SmallOrder

AuditsAreRight ==
  /\ audit.step = "judged" => KeyIsJudged /\ DuplicatesAgree /\ ListIsCurrent
  /\ audit.step = "locate" /\ edits = 0 => StructureIsJudged
===============================================================================
