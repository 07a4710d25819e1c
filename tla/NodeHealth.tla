------------------------------ MODULE NodeHealth ------------------------------
(***************************************************************************)
(* `mesh health` of the nodes of a fleet (health/metrics.py, rules.py,     *)
(* report.py): from the hours of its history and the status found before   *)
(* that history was refreshed, each node gets metrics, findings, a         *)
(* verdict, how much the others rely on it, and advice.                    *)
(*                                                                         *)
(* A history is the hours it covers, each with what was received of the    *)
(* node, and the node's own reports of its telemetry.  The numbers of the  *)
(* rules are the code's or scaled down with the hours; radio levels, ports *)
(* and positions, which no rule judges, are left out.                      *)
(***************************************************************************)
EXTENDS NodeStatus

CONSTANTS
  FleetNodes, Gateways,   \* ours, and all that uplink: ours may be among them
  Bytes, RelayByte,       \* relay bytes, and that of each node of ours
  WindowHours,            \* hours of history judged
  BatteryFresh,           \* hours a battery reading is judged
  TrendPoints, TrendSpan, \* what a battery trend is computed from
  MinReceptions, RebootsWarn, SilenceWarn,
  RouterRoles, Mute,      \* the roles that rebroadcast for all, and for none
  HopSamples, DefaultHops, MinRouterGateways,
  LongPresets, CrowdedFrom,  \* slow presets, and the nodes they are too slow for
  Airtime, ReferenceAirtime, \* of a packet, of each preset and of the usual one
  FleetViews              \* what there may be to know of the fleet

ASSUME HealthAssumption ==
  /\ FleetNodes \subseteq Gateways /\ RelayByte \in [FleetNodes -> Bytes] /\ Bytes \subseteq Nat
  /\ TrendPoints >= 2 /\ MinReceptions > 0 /\ RebootsWarn > 0 /\ SilenceWarn > 0
  /\ IsFiniteSet(FleetNodes) /\ {BatteryFresh, WindowHours, MinReceptions, ReferenceAirtime} \subseteq Nat
  /\ BatteryFresh <= WindowHours /\ \A p \in DOMAIN Airtime : Airtime[p] \in Nat
  /\ Unknown \notin [latest : Nat, time : Int, draining : BOOLEAN]

(* A history has one entry for an hour, and one report for a time.         *)
HistoryIs(history) ==
  /\ history.lastHeard \in Int \cup {Unknown}
  /\ IsFiniteSet(history.hours) /\ IsFiniteSet(history.telemetry)
  /\ \A b \in history.hours :
       b.hour \in Int /\ b.positions \in Nat /\ \A c \in history.hours : c.hour = b.hour => c = b
  /\ \A p \in history.telemetry :
       /\ p.time \in Int /\ p.battery \in Nat \cup {Unknown}
       /\ \A q \in history.telemetry : q.time = p.time => q = p

FleetIs(known) ==
  \A id \in FleetNodes :
    /\ SightIs(known[id].sight) /\ HistoryIs(known[id].history) /\ known[id].regional \in 1..3
    /\ \A other \in FleetNodes : known[other].sight.now = known[id].sight.now

ASSUME ViewsAssumption == \A view \in FleetViews : FleetIs(view.of)

VARIABLES fleet, health

healthVars == <<fleet, health>>

-----------------------------------------------------------------------------
(* health/metrics.py *)
Sum(items, Of(_)) == MapThenSumSet(Of, items)
Powered == 101

(* _longest_silence: consecutive covered hours without a reception. *)
Run(hours, t) == {u \in hours : t <= u /\ t .. u \subseteq hours}

LongestSilence(buckets) ==
  LET quiet == {b.hour : b \in {c \in buckets : c.receptions = 0}} IN
  IF quiet = {} THEN 0 ELSE Max({Cardinality(Run(quiet, t)) : t \in quiet})

(* Every battery level as twice the change a day it would take, from the  *)
(* least squares' slope.                                                  *)
Draining(points) ==
  LET n == Cardinality(points)
      T(p) == p.time  V(p) == p.battery  TV(p) == p.time * p.battery  TT(p) == p.time * p.time
      rise == n * Sum(points, TV) - Sum(points, T) * Sum(points, V)
      run  == n * Sum(points, TT) - Sum(points, T) * Sum(points, T)
  IN n >= TrendPoints /\ Max({p.time : p \in points}) - Min({p.time : p \in points}) >= TrendSpan
       /\ run > 0 /\ 24 * rise <= -10 * run

BatteryLevels(telemetry) ==
  {p \in telemetry : p.battery # Unknown /\ p.battery > 0 /\ p.battery < Powered}

BatteryTrend(telemetry) ==
  LET levels == BatteryLevels(telemetry) IN
  IF levels = {} THEN Unknown
  ELSE LET latest == CHOOSE p \in levels : \A q \in levels : q.time <= p.time
       IN [latest |-> latest.battery, time |-> latest.time, draining |-> Draining(levels)]

PoweredTime(telemetry) ==
  LET times == {p.time : p \in {q \in telemetry : q.battery # Unknown /\ q.battery >= Powered}}
  IN IF times = {} THEN Unknown ELSE Max(times)

(* _relays: the busiest byte, the lowest of those, and whose it may be. *)
TopRelay(id, buckets) ==
  LET Through(y) == LET At(b) == b.relays[y] IN Sum(buckets, At)
      relayed == Sum(Bytes, Through)
      top == CHOOSE y \in Bytes : \A z \in Bytes :
               Through(z) < Through(y) \/ (Through(z) = Through(y) /\ y <= z)
  IN IF relayed = 0 THEN [relayed |-> 0, count |-> 0, candidates |-> {}]
     ELSE [relayed |-> relayed, count |-> Through(top),
           candidates |-> {m \in FleetNodes \ {id} : RelayByte[m] = top}]

ComputeMetrics(id, history, now) ==
  LET start == now - WindowHours
      buckets == {b \in history.hours : start <= b.hour /\ b.hour <= now}
      telemetry == {p \in history.telemetry : start <= p.time /\ p.time <= now}
      busy == {p \in telemetry : p.busy # Unknown}
      Receptions(b) == b.receptions  Busy(p) == p.busy  Positions(b) == b.positions
      gateways == {g \in Gateways : \E b \in buckets : g \in b.gateways}
  IN [covered |-> Cardinality(buckets), receptions |-> Sum(buckets, Receptions),
      positions |-> Sum(buckets, Positions),
      silence |-> LongestSilence(buckets), lastHeard |-> history.lastHeard,
      gateways |-> gateways, others |-> gateways \ {id}, uplinksItself |-> id \in gateways,
      relay |-> TopRelay(id, buckets),
      battery |-> BatteryTrend(telemetry), poweredTime |-> PoweredTime(telemetry),
      busy |-> [sum |-> Sum(busy, Busy), samples |-> Cardinality(busy)],
      boots |-> Cardinality({t \in history.boots : start <= t /\ t <= now}),
      hops |-> history.hops, checked |-> history.checked]

-----------------------------------------------------------------------------
(* health/rules.py *)
Finding(code, severity) == [code |-> code, severity |-> severity]

(* battery_reading: the newest fresh one of the history's level, the       *)
(* history's external power and the status sources'; the higher on a tie.  *)
BatteryReadings(metrics, node) ==
  (IF metrics.battery = Unknown THEN {} ELSE {[time |-> metrics.battery.time, level |-> metrics.battery.latest]})
  \cup (IF metrics.poweredTime = Unknown THEN {} ELSE {[time |-> metrics.poweredTime, level |-> Powered]})
  \cup (IF node.battery \in {Unknown, 0} \/ node.batteryTime = Unknown THEN {}
        ELSE {[time |-> node.batteryTime, level |-> node.battery]})

Newest(readings) ==
  CHOOSE r \in readings : \A q \in readings :
    q.time < r.time \/ (q.time = r.time /\ q.level <= r.level)

CurrentBattery(metrics, node, now) ==
  LET fresh == {r \in BatteryReadings(metrics, node) :
                  (now - r.time) * HourUnits <= Max({BatteryFresh * HourUnits, node.thresholds.stale})}
  IN IF fresh = {} THEN Unknown ELSE Newest(fresh).level

BySilence(hours, node) ==
  IF hours * HourUnits > node.thresholds.offline THEN "crit"
  ELSE IF hours * HourUnits > node.thresholds.stale THEN "warn" ELSE "none"

Silence(metrics, node, now) ==
  LET heard == {metrics.lastHeard, node.lastSeen} \ {Unknown} IN
  IF heard # {} THEN {Finding("silent", BySilence(now - Max(heard), node))} \ {Finding("silent", "none")}
  ELSE IF metrics.covered = 0 THEN {Finding("no_data", "unknown")}
  ELSE LET by == BySilence(metrics.covered, node)
       IN {Finding("never_heard", IF by = "none" THEN "unknown" ELSE by)}

BatteryFindings(metrics, node, now) ==
  LET level == CurrentBattery(metrics, node, now)
      low == IF level = Unknown \/ level > 20 THEN {}
             ELSE {Finding("battery_low", IF level <= 10 THEN "crit" ELSE "warn")}
      plugged == level # Unknown /\ level >= Powered
  IN low \cup IF ~plugged /\ metrics.battery # Unknown /\ metrics.battery.draining
              THEN {Finding("battery_draining", "warn")} ELSE {}

Utilization(mean, code, warn, crit) ==
  IF mean.samples = 0 \/ mean.sum <= warn * mean.samples THEN {}
  ELSE {Finding(code, IF mean.sum > crit * mean.samples THEN "crit" ELSE "warn")}

SingleGateway(metrics) ==
  IF /\ metrics.receptions >= MinReceptions
     /\ Cardinality(metrics.others) = 1 \/ (metrics.others = {} /\ metrics.uplinksItself)
  THEN {Finding("single_gateway", "warn")} ELSE {}

SilenceRun(node) ==
  Max({SilenceWarn, (5 * node.cadence.interval + HourUnits - 1) \div HourUnits})

Assess(metrics, node, now) ==
  Silence(metrics, node, now) \cup BatteryFindings(metrics, node, now) \cup SingleGateway(metrics)
    \cup (IF metrics.boots >= RebootsWarn THEN {Finding("reboots", "warn")} ELSE {})
    \cup Utilization(metrics.busy, "channel_busy", 25, 40)
    \cup (IF metrics.silence >= SilenceRun(node) THEN {Finding("silent_hours", "warn")} ELSE {})

Verdict(findings) ==
  LET found == {f.severity : f \in findings} IN
  IF "crit" \in found THEN "crit" ELSE IF "warn" \in found THEN "warn"
  ELSE IF "unknown" \in found THEN "unknown" ELSE "ok"

(* rank_importance *)
(* As if a byte several nodes may have were each of theirs. *)
MayDependOn(metrics, id) ==
  /\ metrics.relay.relayed >= MinReceptions /\ 2 * metrics.relay.count >= metrics.relay.relayed
  /\ id \in metrics.relay.candidates

DependsOn(metrics, id) ==
  /\ metrics.relay.relayed >= MinReceptions /\ 2 * metrics.relay.count >= metrics.relay.relayed
  /\ metrics.relay.candidates = {id}

ScoreLevel(score) == IF score >= 5 THEN 3 ELSE IF score >= 2 THEN 2 ELSE 1

RankImportance(id, metrics, role, regional) ==
  LET others     == FleetNodes \ {id}
      uplinked   == {m \in others : id \in metrics[m].gateways}
      sole       == {m \in others : metrics[m].receptions >= MinReceptions /\ metrics[m].gateways = {id}}
      dependents == {m \in others : DependsOn(metrics[m], id)}
      gateway    == metrics[id].uplinksItself \/ uplinked # {} \/ metrics[id].checked
      score == (IF gateway THEN 3 ELSE 0) + 3 * Cardinality(sole) + 2 * Cardinality(dependents)
                 + (IF role \in RouterRoles THEN 1 ELSE 0)
  IN [sole |-> sole, dependents |-> dependents, level |-> Max({ScoreLevel(score), regional})]

(* chatty_limit: as much airtime as twice an hour takes on the usual       *)
(* preset, but one an hour is never too much and six always are.           *)
IsChatty(packets, covered, preset) ==
  LET airtime == IF preset \in DOMAIN Airtime THEN Airtime[preset] ELSE ReferenceAirtime IN
  \/ packets > 6 * covered
  \/ packets > covered /\ packets * airtime > 2 * ReferenceAirtime * covered

Advise(metrics, role, preset, online, importance) ==
  {code \in {"hop_limit", "position_interval", "preset_congested", "mute_relay",
             "router_placement", "relay_concentration"} :
    CASE code = "hop_limit" ->
           /\ metrics.hops # Unknown /\ metrics.hops.samples >= HopSamples
           /\ metrics.hops.start > Max({DefaultHops, metrics.hops.most + 1})
      [] code = "position_interval" -> IsChatty(metrics.positions, metrics.covered, preset)
      [] code = "preset_congested" ->
           preset \in LongPresets /\ online # Unknown /\ online > CrowdedFrom
      [] code = "mute_relay" -> role = Mute /\ importance.dependents # {}
      [] code = "router_placement" ->
           /\ role \in RouterRoles /\ metrics.receptions >= MinReceptions
           /\ Cardinality(metrics.others) < MinRouterGateways
      [] code = "relay_concentration" ->
           metrics.relay.relayed >= MinReceptions /\ 5 * metrics.relay.count >= 4 * metrics.relay.relayed}

-----------------------------------------------------------------------------
(* health/report.py *)
HoursOf(history) == {[hour |-> b.hour, receptions |-> b.receptions] : b \in history.hours}

(* with_learned_cadence, for the history the refresh gave. *)
Rejudged(node, known, now) ==
  LET learned == LearnedInterval(HoursOf(known.history), now)
      cadence == ResolveCadence([override |-> Unknown, learned |-> learned, configured |-> Unknown], node.role)
      thresholds == AvailabilityThresholds(cadence.interval)
  IN IF learned = Unknown \/ node.cadence.from = "override" THEN node
     ELSE [node EXCEPT !.cadence = cadence, !.thresholds = thresholds,
                       !.availability = ClassifyAge(node.age, thresholds)]

RoleOf(node, known) ==
  Or(node.role, Or(known.history.role, known.sight.record.role))

NodeHealth(id, known, metrics, now) ==
  LET before == MergeObservations(known[id].sight.obs, known[id].sight.record, now, CadenceHint(known[id].sight))
      node == Rejudged(before, known[id], now)
      role == RoleOf(node, known[id])
      findings == Assess(metrics[id], node, now)
      importance == RankImportance(id, metrics, role, known[id].regional)
  IN [node |-> node, findings |-> findings, verdict |-> Verdict(findings), importance |-> importance,
      advice |-> Advise(metrics[id], role, known[id].preset, known[id].online, importance)]

ExitsDegraded(healths, known, fetched) ==
  \/ \E id \in FleetNodes : healths[id].verdict = "crit"
  \/ fetched /\ \E id \in FleetNodes : healths[id].verdict = "unknown" /\ healths[id].node.inDatabase
  \/ \E id \in FleetNodes : known[id].sight.failed # {} \/ known[id].refreshFailed

(* Without --no-fetch; with it no source is asked and no history is renewed. *)
AssessNodes(known, fetched) ==
  LET now == known[CHOOSE id \in FleetNodes : TRUE].sight.now
      metrics == [id \in FleetNodes |-> ComputeMetrics(id, known[id].history, now)]
      healths == [id \in FleetNodes |-> NodeHealth(id, known, metrics, now)]
  IN [nodes |-> healths, metrics |-> metrics, now |-> now, degraded |-> ExitsDegraded(healths, known, fetched)]

HealthStart(known) == fleet = known /\ health = Unknown
HealthInit == \E known \in FleetViews : HealthStart(known)

RunHealth == health = Unknown /\ health' = AssessNodes(fleet.of, fleet.fetched) /\ UNCHANGED fleet

HealthNext == RunHealth

HealthSpec == HealthInit /\ [][HealthNext]_healthVars

-----------------------------------------------------------------------------
Severity == [none |-> 0, ok |-> 0, unknown |-> 1, warn |-> 2, crit |-> 3]
SilenceFound(id) ==
  Max({0} \cup {Severity[f.severity] : f \in {g \in health.nodes[id].findings : g.code = "silent"}})

(* `mesh health` calls no node silent that `mesh status` calls online, and *)
(* calls one critical whenever it is offline and no history heard it       *)
(* later: the two never contradict each other.                             *)
AgreesWithStatus ==
  \A id \in FleetNodes :
    LET node == health.nodes[id].node  later == fleet.of[id].history.lastHeard
        last == later = Unknown \/ (node.lastSeen # Unknown /\ later <= node.lastSeen)
    IN /\ node.availability = "online" => SilenceFound(id) = 0
       /\ SilenceFound(id) = 3 /\ node.lastSeen # Unknown => node.availability = "offline"
       /\ node.availability = "offline" /\ last => health.nodes[id].verdict = "crit"

(* A node judged again after a refresh is judged as a status that starts   *)
(* from the refreshed history judges it.                                   *)
RejudgedAsNew ==
  \A id \in FleetNodes :
    LET known == fleet.of[id].sight
        anew == [known EXCEPT !.history = HoursOf(fleet.of[id].history)]
    IN LearnedInterval(anew.history, known.now) # Unknown =>
         health.nodes[id].node = MergeObservations(known.obs, known.record, known.now, CadenceHint(anew))

(* No run of covered hours is longer and silent, and one of that length    *)
(* is; hours that were not asked about are not silent.                     *)
SilenceIsCovered ==
  \A id \in FleetNodes :
    LET n == health.metrics[id].silence
        quiet == {b.hour : b \in {c \in fleet.of[id].history.hours :
                    c.receptions = 0 /\ health.now - WindowHours <= c.hour /\ c.hour <= health.now}}
    IN \A length \in 1 .. Cardinality(quiet) :
         (\E t \in quiet : t .. (t + length - 1) \subseteq quiet) <=> length <= n

(* A node whose newest fresh reading is external power is not said to be   *)
(* low or draining, and one whose newest is a low level is.                *)
BatteryIsCurrent ==
  \A id \in FleetNodes :
    LET fresh == {p \in fleet.of[id].history.telemetry :
                    p.battery # Unknown /\ p.battery > 0 /\ health.now - p.time <= BatteryFresh /\ p.time <= health.now}
        codes == {f.code : f \in health.nodes[id].findings}
        last == {p \in fresh : \A q \in fresh : q.time <= p.time}
    IN fresh # {} /\ DOMAIN fleet.of[id].sight.obs = {} =>
         /\ \A p \in last : p.battery >= Powered => codes \cap {"battery_low", "battery_draining"} = {}
         /\ \A p \in last : p.battery <= 20 => "battery_low" \in codes

(* A node whose packets only one node of ours uplinks makes that one of    *)
(* high importance, and nobody depends on two relays.                      *)
ReliedOnIsImportant ==
  /\ \A id, m \in FleetNodes :
       /\ id # m /\ health.metrics[m].gateways = {id} /\ health.metrics[m].receptions >= MinReceptions
       => health.nodes[id].importance.level = 3
  /\ \A id, m \in FleetNodes :
       id # m => health.nodes[id].importance.dependents \cap health.nodes[m].importance.dependents = {}

(* A faster preset never affords fewer packets. *)
FasterAffordsMore ==
  \A id \in FleetNodes : \A p, q \in DOMAIN Airtime :
    LET metrics == health.metrics[id] IN
    Airtime[p] <= Airtime[q] /\ IsChatty(metrics.positions, metrics.covered, p)
      => IsChatty(metrics.positions, metrics.covered, q)

(* What `mesh health` says of a fleet, over every history it may have.     *)
HealthIsRight ==
  health # Unknown =>
    /\ AgreesWithStatus /\ RejudgedAsNew /\ SilenceIsCovered /\ BatteryIsCurrent /\ ReliedOnIsImportant
    /\ FasterAffordsMore
    /\ ~health.degraded =>
         \A id \in FleetNodes :
           /\ health.nodes[id].verdict # "crit"
           /\ health.nodes[id].verdict = "unknown" /\ fleet.fetched => ~health.nodes[id].node.inDatabase
=============================================================================
