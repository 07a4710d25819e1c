------------------------------ MODULE NodeStatus ------------------------------
(***************************************************************************)
(* `mesh status` of one node: what several data sources and the database   *)
(* say of it is merged field by field (status/merge.py), the interval it   *)
(* is expected at is overridden, learned, configured or its role's         *)
(* (status/cadence.py), the age of its last sign of life against that      *)
(* interval makes it online, stale or offline, a reading is compared with  *)
(* the ones before it (status/trend.py), and a report with anything wrong  *)
(* in it ends with its own exit code (status/report.py).                   *)
(*                                                                         *)
(* Hours are whole, and an interval counts units of them, fine enough for  *)
(* its mean over a few gaps and a quarter of it.                           *)
(***************************************************************************)
EXTENDS Integers, Sequences, FiniteSets, FiniteSetsExt

CONSTANTS
  Priority,      \* the data sources, the one that takes precedence first
  HourUnits,     \* units of an hour
  LearnWindow,   \* hours of history an interval is learned from
  MinHeard,      \* fewest hours heard it is learned from
  Tak, Silent,   \* the roles with intervals of their own
  DefaultInterval, TakInterval, MinInterval, MaxInterval,
  StaleFloor, OfflineFloor,
  LookBacks,     \* the windows of the gateways that heard the node
  BaselineWindow, Epsilon,  \* of a metric, see MetricTrend
  Sights,        \* what there may be to know of the node, see StatusInit
  Unknown        \* no value

Sources == {Priority[n] : n \in 1..Len(Priority)}

ASSUME StatusAssumption ==
  /\ Len(Priority) = Cardinality(Sources) /\ Tak \cap Silent = {}
  /\ HourUnits \in Nat \ {0} /\ HourUnits % 4 = 0
  /\ 0 < MinInterval /\ MinInterval <= DefaultInterval /\ DefaultInterval <= TakInterval
  /\ TakInterval <= MaxInterval /\ 0 < StaleFloor /\ StaleFloor < OfflineFloor
  /\ MinHeard \in Nat /\ MinHeard >= 2
  /\ {LearnWindow, DefaultInterval, TakInterval, MinInterval, MaxInterval, StaleFloor, OfflineFloor,
      BaselineWindow, Epsilon} \subseteq Nat
  /\ Epsilon > 0 /\ Unknown \notin Int
  /\ LookBacks \in Seq(Nat) /\ \A n \in 2..Len(LookBacks) : LookBacks[n - 1] <= LookBacks[n]

(* What there is to know of a node: times are numbers, a history and a     *)
(* series have one entry for each.                                         *)
SightIs(from) ==
  /\ DOMAIN from = {"now", "obs", "failed", "incomplete", "history", "override", "configured", "readings",
                    "record"}
  /\ from.now \in Int
  /\ from.override \in Nat \cup {Unknown} /\ from.configured \in Nat \cup {Unknown}
  /\ DOMAIN from.obs \subseteq Sources
  /\ \A x \in DOMAIN from.obs :
       /\ from.obs[x].seen \in Int \cup {Unknown}
       /\ from.obs[x].heardBy # Unknown =>
            IsFiniteSet(from.obs[x].heardBy) /\ \A g \in from.obs[x].heardBy : g[2] \in Int
  /\ IsFiniteSet(from.history)
  /\ \A h \in from.history : h.hour \in Int /\ \A i \in from.history : i.hour = h.hour => i = h
  /\ IsFiniteSet(DOMAIN from.readings) /\ DOMAIN from.readings \subseteq Int
  /\ from.readings \in [DOMAIN from.readings -> Int]

ASSUME SightsAssumption == \A from \in Sights : SightIs(from)

VARIABLES sight, shown

statusVars == <<sight, shown>>

-----------------------------------------------------------------------------
(* status/cadence.py *)
Capped(interval) == Min({interval, MaxInterval})

RoleInterval(role) ==
  IF role \in Silent THEN MaxInterval ELSE IF role \in Tak THEN TakInterval ELSE DefaultInterval

TemplateInterval(configured, role) ==
  IF configured = 0 \/ role \in Silent THEN RoleInterval(role)
  ELSE Capped(Max({configured, MinInterval}))

(* As if every hour the history covers were one the node could be heard in. *)
UpToNow(hours, heard) == {h \in hours : Min(heard) < h.hour}

(* The hours the gaps between those it was heard in take up.               *)
Spanned(hours, heard) == {h \in hours : Min(heard) < h.hour /\ h.hour <= Max(heard)}

LearnedInterval(history, now) ==
  LET covered == {h \in history : now - LearnWindow <= h.hour /\ h.hour <= now}
      heard   == {h.hour : h \in {c \in covered : c.receptions > 0}}
  IN IF Cardinality(heard) < MinHeard THEN Unknown
     ELSE Capped((Cardinality(Spanned(covered, heard)) * HourUnits) \div (Cardinality(heard) - 1))

ResolveCadence(hint, role) ==
  IF hint.override # Unknown THEN [interval |-> Capped(hint.override), from |-> "override"]
  ELSE IF hint.learned # Unknown THEN [interval |-> Capped(hint.learned), from |-> "history"]
  ELSE IF hint.configured # Unknown THEN [interval |-> Capped(hint.configured), from |-> "template"]
  ELSE [interval |-> RoleInterval(role), from |-> "role"]

(* Two missed, five missed, and a quarter of an interval late. *)
AvailabilityThresholds(interval) ==
  [stale   |-> Max({StaleFloor, 2 * interval + interval \div 4}),
   offline |-> Max({OfflineFloor, 5 * interval + interval \div 4})]

ClassifyAge(age, thresholds) ==
  CASE age = Unknown -> "unknown"
    [] age # Unknown /\ age * HourUnits <= thresholds.stale -> "online"
    [] age # Unknown /\ age * HourUnits > thresholds.offline -> "offline"
    [] OTHER -> "stale"

-----------------------------------------------------------------------------
(* status/merge.py: telemetry of the source that takes precedence, what    *)
(* the node is of the one that saw it last.                                *)
Rank(x) == CHOOSE n \in 1..Len(Priority) : Priority[n] = x

SeenAfter(obs, x, y) ==
  obs[x].seen # Unknown /\ (obs[y].seen = Unknown \/ obs[x].seen > obs[y].seen)

ByPriority(obs, x, y) == Rank(x) < Rank(y)
ByRecency(obs, x, y)  == SeenAfter(obs, x, y) \/ (~SeenAfter(obs, y, x) /\ Rank(x) < Rank(y))

FirstKnown(obs, field, Before(_, _, _)) ==
  LET known == {x \in DOMAIN obs : obs[x][field] # Unknown} IN
  IF known = {} THEN Unknown
  ELSE obs[CHOOSE x \in known : \A y \in known \ {x} : Before(obs, x, y)][field]

Or(value, otherwise) == IF value = Unknown THEN otherwise ELSE value

PickLastSeen(obs) == FirstKnown(obs, "seen", ByRecency)

(* How many gateways heard the node within each window. *)
SeenByCounts(obs, now) ==
  LET seen == FirstKnown(obs, "heardBy", ByPriority) IN
  IF seen = Unknown THEN Unknown
  ELSE [n \in 1..Len(LookBacks) |-> Cardinality({g \in seen : now - g[2] <= LookBacks[n]})]

MergeObservations(obs, record, now, hint) ==
  LET seen       == PickLastSeen(obs)
      role       == FirstKnown(obs, "role", ByRecency)
      age        == IF seen = Unknown THEN Unknown ELSE now - seen
      cadence    == ResolveCadence(hint, Or(role, record.role))
      thresholds == AvailabilityThresholds(cadence.interval)
  IN [role |-> role, lastSeen |-> seen, age |-> age, cadence |-> cadence, thresholds |-> thresholds,
      availability |-> ClassifyAge(age, thresholds),
      name         |-> Or(FirstKnown(obs, "name", ByRecency), record.name),
      battery      |-> FirstKnown(obs, "battery", ByPriority),
      batteryTime  |-> FirstKnown(obs, "metricsAt", ByPriority),
      seenBy       |-> SeenByCounts(obs, now),
      inDatabase   |-> record.kept]

(* _cadence_hints: a template speaks for the nodes it manages. *)
CadenceHint(from) ==
  [override   |-> from.override,
   learned    |-> IF from.override = Unknown THEN LearnedInterval(from.history, from.now) ELSE Unknown,
   configured |-> IF from.record.managed /\ from.configured # Unknown
                  THEN TemplateInterval(from.configured, from.record.role) ELSE Unknown]

-----------------------------------------------------------------------------
(* status/trend.py: the newest reading against the median of those within  *)
(* the window before it, or the one before it if none was missed since.    *)
Median2(times, of) ==
  LET n == Cardinality(times)
      Below(t) == Cardinality({u \in times : of[u] < of[t] \/ (of[u] = of[t] /\ u < t)})
      At(m) == of[CHOOSE t \in times : Below(t) = m]
  IN At((n - 1) \div 2) + At(n \div 2)

Previous(times, t) == Max({u \in times : u < t})

IsAdjacent(times, newest, expected) ==
  LET last    == Max(times)
      later   == times \ {Min(times)}
      gap     == [t \in later |-> t - Previous(times, t)]
      typical == IF later = {} THEN 2 * expected ELSE Median2(later, gap) * HourUnits
  IN 4 * (newest - last) * HourUnits <= 3 * typical

MetricTrend(series, expected) ==
  LET newest   == Max(DOMAIN series)
      earlier  == DOMAIN series \ {newest}
      recent   == {t \in earlier : newest - BaselineWindow <= t}
      baseline == IF recent # {} THEN recent ELSE {Max(earlier)}
      change   == 2 * series[newest] - Median2(baseline, series)
  IN IF DOMAIN series = {} \/ earlier = {} \/ (recent = {} /\ ~IsAdjacent(earlier, newest, expected)) THEN "none"
     ELSE IF change < 2 * Epsilon /\ -change < 2 * Epsilon THEN "flat"
     ELSE IF change > 0 THEN "up" ELSE "down"

-----------------------------------------------------------------------------
(* status/report.py *)
IsDegraded(from, node, failOnOffline) ==
  \/ from.failed # {}
  \/ from.incomplete # {}
  \/ failOnOffline /\ node.availability = "offline"
  \/ failOnOffline /\ node.availability = "unknown" /\ node.inDatabase

BuildReport(from) ==
  LET node == MergeObservations(from.obs, from.record, from.now, CadenceHint(from)) IN
  [node |-> node, trend |-> MetricTrend(from.readings, node.cadence.interval),
   degraded |-> IsDegraded(from, node, TRUE)]

StatusStart(known) == sight = known /\ shown = Unknown
StatusInit == \E known \in Sights : StatusStart(known)

RunStatus == shown = Unknown /\ shown' = BuildReport(sight) /\ UNCHANGED sight

StatusNext == RunStatus

StatusSpec == StatusInit /\ [][StatusNext]_statusVars

-----------------------------------------------------------------------------
Better == [online |-> 3, stale |-> 2, offline |-> 1, unknown |-> 0]
HeardHours == {h.hour : h \in {c \in sight.history : c.receptions > 0}}
GapsOf(hours) == {t - Previous(hours, t) : t \in hours \ {Min(hours)}}

(* A node that keeps reporting at one interval is online, whatever hours   *)
(* before it the history does not cover, and one silent for longer than    *)
(* six of its longest gaps is offline unless it is not late yet by the     *)
(* floor: an outage never hides itself in what is learned.                 *)
JudgedByItsGaps ==
  LET hours == HeardHours IN
  sight.override = Unknown /\ Cardinality(hours) >= MinHeard
    /\ (\A t \in hours : sight.now - LearnWindow <= t) /\ shown.node.lastSeen = Max(hours) =>
    LET age == sight.now - Max(hours)  gaps == GapsOf(hours) IN
    /\ /\ Cardinality(gaps) = 1 /\ age <= 2 * Max(gaps)
       /\ \A t \in Min(hours)..Max(hours) : \E h \in sight.history : h.hour = t
       /\ Max(gaps) * HourUnits <= MaxInterval
       => shown.node.availability = "online"
    /\ age > 6 * Max(gaps) /\ age * HourUnits > OfflineFloor
       => shown.node.availability = "offline"

(* No source makes the node look less alive than another alone would, at   *)
(* the same interval, and a value shown is one a source reported.          *)
SourcesOnlyAdd ==
  \A x \in DOMAIN sight.obs :
    LET alone == MergeObservations([y \in {x} |-> sight.obs[y]], sight.record, sight.now, CadenceHint(sight))
    IN /\ alone.cadence = shown.node.cadence
            => Better[shown.node.availability] >= Better[alone.availability]
       /\ alone.battery # Unknown => shown.node.battery # Unknown
       /\ \A n \in 2..Len(LookBacks) :
            shown.node.seenBy # Unknown => shown.node.seenBy[n - 1] <= shown.node.seenBy[n]

(* An arrow up is a reading above most of those it is compared with, and   *)
(* no arrow is drawn from one that is followed by a gap no other gap has.  *)
TrendsAreRight ==
  LET times == DOMAIN sight.readings  newest == Max(times)
      recent == {t \in times \ {newest} : newest - BaselineWindow <= t}
      Under == {t \in recent : sight.readings[t] < sight.readings[newest]}
      Over  == {t \in recent : sight.readings[t] > sight.readings[newest]}
  IN times # {} =>
     /\ recent # {} => /\ shown.trend = "up" => 2 * Cardinality(Under) >= Cardinality(recent)
                       /\ shown.trend = "down" => 2 * Cardinality(Over) >= Cardinality(recent)
     /\ recent = {} /\ Cardinality(times) >= 3 /\ shown.trend # "none"
          => newest - Previous(times, newest) <= 2 * Max(GapsOf(times \ {newest}))

(* What `mesh status` shows and how it ends: quietly only if every source  *)
(* answered in full and nobody of the database is offline or unseen.       *)
EndsQuietly ==
  ~shown.degraded =>
    /\ sight.failed = {} /\ sight.incomplete = {}
    /\ sight.record.kept => shown.node.availability \in {"online", "stale"}

StatusIsRight ==
  shown # Unknown => JudgedByItsGaps /\ SourcesOnlyAdd /\ TrendsAreRight /\ EndsQuietly
=============================================================================
