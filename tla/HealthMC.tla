-------------------------------- MODULE HealthMC --------------------------------
(***************************************************************************)
(* What `mesh health` and `mesh status` rest on and say, in three parts,   *)
(* each in behaviours of its own: the history files for two commands and   *)
(* three nodes, more than the cap; the report on one node for every sight  *)
(* of a few families; and that on a fleet of three, likewise.              *)
(***************************************************************************)
EXTENDS HistoryStore, NodeHealth, TLC

CONSTANTS
  n1, n2, n3, loranet, lorastats, tak, hidden, nm, om, g1, g2, m1, m2, m3, gx,
  router, mute, slow, fast

VARIABLE part

AllNodes     == {n1, n2, n3}
SomeFleets   == {{n1, n2}, {n3}}
SomeTraffics == {{1, 2}}
Alike == Permutations(Procs)

-----------------------------------------------------------------------------
(* A sight: three or four hours heard of those the history covers; what    *)
(* two sources answer, fail to or answer in part; up to four readings.     *)
SomePriority  == <<loranet, lorastats>>
SomeLookBacks == <<1, 2, 6>>

NoSight ==
  [now |-> 12, obs |-> <<>>, failed |-> {}, incomplete |-> {}, history |-> {},
   override |-> Unknown, configured |-> Unknown, readings |-> 0 :> 1,
   record |-> [role |-> Unknown, name |-> om, kept |-> TRUE, managed |-> FALSE]]
SeenAt(t) ==
  [seen |-> t, role |-> Unknown, name |-> Unknown, battery |-> Unknown, metricsAt |-> Unknown,
   heardBy |-> Unknown]
HeardIn(hours, covered) ==
  {[hour |-> t, receptions |-> IF t \in hours THEN 1 ELSE 0] : t \in covered \cup hours}

HistorySights ==
  {[NoSight EXCEPT !.history = HeardIn(hours, covered), !.obs = lorastats :> SeenAt(Max(hours)),
                   !.record.role = r[1], !.record.managed = r[2], !.configured = 60] :
     hours \in UNION {kSubset(n, 2..12) : n \in {1, 3, 4}},
     covered \in {2..12, 4..10, {4, 6, 8, 10, 12}}, r \in {<<Unknown, TRUE>>, <<hidden, FALSE>>}}
SomeObservation ==
  {[seen |-> t, role |-> r, name |-> IF r = tak THEN nm ELSE Unknown, battery |-> b,
    metricsAt |-> IF b = Unknown THEN Unknown ELSE t,
    heardBy |-> IF b = Unknown THEN Unknown ELSE {<<g1, 11>>, <<g2, 8>>}] :
     t \in {Unknown, 2, 8, 12}, r \in {Unknown, tak}, b \in {Unknown, 50}}
SourceSights ==
  {[NoSight EXCEPT !.obs = o, !.failed = {loranet, lorastats} \ (DOMAIN o \cup up),
                   !.incomplete = up, !.record.kept = m] :
     o \in UNION {[up -> SomeObservation] : up \in SUBSET {loranet, lorastats}},
     up \in {{}, {lorastats}}, m \in BOOLEAN}
TrendSights ==
  {[NoSight EXCEPT !.readings = r, !.override = i] : i \in {240, 720},
     r \in UNION {[times -> {1, 3, 5}] : times \in UNION {kSubset(n, 0..5) : n \in 0..4}}}
SomeSights == HistorySights \cup SourceSights \cup TrendSights

-----------------------------------------------------------------------------
(* A fleet: one node and its silences or its batteries, or three nodes     *)
(* that are each other's gateways and relays, two with the same byte.      *)
SomeRelayByte == m1 :> 1 @@ m2 :> 2 @@ m3 :> 1
SomeAirtime   == slow :> 8 @@ fast :> 1

InHourOf(t, n) ==
  [hour |-> t, receptions |-> n, gateways |-> IF n = 0 THEN {} ELSE {gx},
   relays |-> 1 :> 0 @@ 2 :> 0, positions |-> 3 * n]
NoHistory ==
  [hours |-> {}, telemetry |-> {}, boots |-> {}, hops |-> Unknown, checked |-> FALSE,
   role |-> Unknown, lastHeard |-> Unknown]
Quiet ==
  [sight |-> NoSight, history |-> NoHistory, regional |-> 1, preset |-> slow, online |-> 9,
   refreshFailed |-> FALSE]
WithOthers(known) ==
  [fetched |-> TRUE, of |-> [id \in {m1, m2, m3} |-> IF id = m1 THEN known ELSE Quiet]]

Silences ==
  {WithOthers([Quiet EXCEPT
     !.sight.obs = IF t = Unknown THEN <<>> ELSE lorastats :> SeenAt(t), !.sight.override = o,
     !.sight.history = HeardIn(heardIn \cap {3, 4, 5}, {3, 4, 5}), !.sight.record.role = hidden,
     !.history.hours = {InHourOf(u, IF u \in heardIn THEN 1 ELSE 0) : u \in covered},
     !.history.lastHeard = IF heardIn \cap covered = {} THEN Unknown ELSE Max(heardIn \cap covered)]) :
     t \in {Unknown, 4, 9, 12}, o \in {Unknown, 480}, heardIn \in SUBSET {3, 4, 5, 7, 9, 11},
     covered \in {{}, 3..12, {3, 4, 5, 9, 10, 11, 12}}}
Point(t, y) == [time |-> t, battery |-> y, busy |-> IF y = 5 THEN 50 ELSE Unknown]
Batteries ==
  {WithOthers([Quiet EXCEPT
     !.sight.obs = IF y = Unknown THEN <<>>
                   ELSE lorastats :> [SeenAt(11) EXCEPT !.battery = y, !.metricsAt = 11],
     !.history.boots = {3, 5}, !.history.hops = [samples |-> 2, start |-> 7, most |-> 3],
     !.regional = 2,
     !.history.telemetry = {Point(2, at[1]), Point(7, at[2]), Point(10, at[3]), Point(12, at[4])}]) :
     y \in {Unknown, 15, 101}, at \in [1..4 -> {5, 15, 60, 101, Unknown}]}
HeardBy(gates, through, role) ==
  [Quiet EXCEPT
     !.sight.obs = lorastats :> [SeenAt(12) EXCEPT !.role = role],
     !.history.hours = {[InHourOf(11, through[1] + through[2]) EXCEPT
                          !.gateways = gates, !.relays = 1 :> through[1] @@ 2 :> through[2]]},
     !.history.lastHeard = 11]
Reliances ==
  {[fetched |-> TRUE,
    of |-> m1 :> HeardBy(x1, y1, router) @@ m2 :> HeardBy(x2, y2, mute) @@ m3 :> HeardBy(x3, y3, mute)] :
     x1 \in {{m1}, {gx}}, y1 \in {<<1, 0>>, <<2, 0>>, <<0, 2>>, <<1, 1>>},
     x2 \in SUBSET {m1, m3, gx}, y2 \in {<<1, 0>>, <<2, 0>>, <<0, 2>>, <<1, 1>>},
     x3 \in {{m1}, {m2}, {m2, gx}, {m3}}, y3 \in {<<2, 0>>, <<0, 2>>}}
NotFetched == [fetched |-> FALSE, of |-> [id \in {m1, m2, m3} |-> Quiet]]
SomeFleetViews == Silences \cup Batteries \cup Reliances \cup {NotFetched}

-----------------------------------------------------------------------------
PartInit ==
  /\ part \in {"files", "status", "health"}
  /\ Init
  /\ IF part = "status" THEN StatusInit ELSE StatusStart(NoSight)
  /\ IF part = "health" THEN HealthInit ELSE HealthStart(NotFetched)

PartNext ==
  /\ part' = part
  /\ \/ part = "files" /\ Next /\ UNCHANGED <<statusVars, healthVars>>
     \/ part = "status" /\ StatusNext /\ UNCHANGED <<vars, healthVars>>
     \/ part = "health" /\ HealthNext /\ UNCHANGED <<vars, statusVars>>

PartSpec == PartInit /\ [][PartNext]_<<part, vars, statusVars, healthVars>>
=============================================================================
