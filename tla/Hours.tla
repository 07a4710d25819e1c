--------------------------------- MODULE Hours ---------------------------------
(***************************************************************************)
(* The hour buckets of network/buckets.py and health/history.py: what a    *)
(* refresh makes of the rows lorastats returned, merging it into the       *)
(* stored hours, and the retention.  Both stores keep an hour as a count   *)
(* of what was heard in it; here an hour holds the ticks in which          *)
(* something was heard, and until when it was asked for.                   *)
(*                                                                         *)
(* Time is in ticks, an hour is named by its first tick as in the code.    *)
(* One clock serves all and only moves on, so that nothing is ever in the  *)
(* future and FUTURE_SKEW_SECONDS is zero.  A packet is one reception.     *)
(***************************************************************************)
EXTENDS Integers, FiniteSets

CONSTANTS
  HourTicks,   \* ticks of an hour
  DayHours,    \* hours of a day
  Assumed,     \* ASSUMED_LORASTATS_RETENTION_SECONDS
  Retention,   \* NETWORK_RETENTION_SECONDS, HISTORY_RETENTION_SECONDS
  MaxTime,     \* bounds the clock
  None         \* nothing stored, never

ASSUME HoursAssumption ==
  /\ HourTicks \in Nat \ {0} /\ DayHours \in Nat \ {0}
  /\ Assumed \in Nat /\ Retention \in Nat /\ MaxTime \in Nat
  /\ None \notin Nat

Time == 0..MaxTime
Later(a, b)   == IF a = None THEN b ELSE IF b = None \/ a >= b THEN a ELSE b
Earlier(a, b) == IF a <= b THEN a ELSE b

FloorHour(t) == (t \div HourTicks) * HourTicks
InHour(h)    == h..(h + HourTicks - 1)
FloorDay(t)  == (t \div (HourTicks * DayHours)) * (HourTicks * DayHours)
InDay(d)     == d..(d + HourTicks * DayHours - 1)

HourStarts == {FloorHour(t) : t \in Time}
DayStarts  == {FloorDay(t) : t \in Time}

Bucket  == [seen : SUBSET Time, asof : Time]
HoursType == [HourStarts -> Bucket \cup {None}]
NoHours == [h \in HourStarts |-> None]
Stored(hours) == {h \in HourStarts : hours[h] # None}

(* The bucket of an hour that was asked for when it was over. *)
Complete(h, bucket) == bucket.asof >= h + HourTicks

-----------------------------------------------------------------------------
(* lorastats, as the code uses it: it holds what was heard from the hour   *)
(* "gone" on, and answers with the rows from a given time on.              *)
Answer(heard, gone, asked) == {t \in heard : t >= gone /\ t >= asked}

(* SINCE_MARGIN_SECONDS: a refresh asks from one hour before "since". *)
Asked(since) == IF since = None THEN 0 ELSE since - HourTicks

(* As if the hour of the previous refresh had been over. *)
SinceTheNext(previous, now) ==
  IF previous = None THEN None ELSE FloorHour(Earlier(previous, now)) + HourTicks

(* replace_from, and the first lines of RegionRefresher._fetch. *)
Since(previous, now) ==
  IF previous = None THEN None ELSE FloorHour(Earlier(previous, now))

(* answered_hours: the hours an answer speaks for, silent ones included. *)
FirstAnswered(rows, since, at) ==
  LET firstHeard == FloorHour(CHOOSE t \in rows : \A u \in rows : t <= u)
      held       == FloorHour(at - Assumed) + HourTicks
  IN IF since = None
     THEN IF rows = {} THEN FloorHour(at) + HourTicks ELSE firstHeard
     ELSE LET from == IF rows = {} THEN held ELSE Earlier(held, firstHeard)
          IN IF since >= from THEN since ELSE from

(* As if lorastats held everything since the previous refresh. *)
AllHoursSince(rows, since, at) ==
  {h \in HourStarts : since # None /\ since <= h /\ h <= FloorHour(at)}

AnsweredHours(rows, since, at) ==
  {h \in HourStarts : FirstAnswered(rows, since, at) <= h /\ h <= FloorHour(at)}

(* summarize *)
Summarize(rows, since, at) ==
  LET kept == IF since = None THEN rows ELSE {t \in rows : t >= since}
      hours == {FloorHour(t) : t \in kept} \cup AnsweredHours(rows, since, at)
  IN [h \in HourStarts |-> IF h \in hours
                           THEN [seen |-> kept \cap InHour(h), asof |-> at]
                           ELSE None]

Merge(old, new) == [h \in HourStarts |-> IF new[h] # None THEN new[h] ELSE old[h]]

InRetention(h, now) == FloorHour(now - Retention) <= h /\ h <= FloorHour(now)
Prune(hours, now) ==
  [h \in HourStarts |-> IF InRetention(h, now) THEN hours[h] ELSE None]

(* Both stores drop the oldest hours of a file that is too large. *)
DropOldest(hours, n) ==
  [h \in HourStarts |->
     IF Cardinality({g \in Stored(hours) : g < h}) < n THEN None ELSE hours[h]]

-----------------------------------------------------------------------------
(* What may be in a store of what was heard: an hour holds exactly what    *)
(* was heard in it until it was asked for, so a silent hour was silent.    *)
IsTrue(hours, heard) ==
  \A h \in Stored(hours) :
    /\ h <= hours[h].asof
    /\ hours[h].seen = {t \in heard \cap InHour(h) : t <= hours[h].asof}
=============================================================================
