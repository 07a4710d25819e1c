------------------------------ MODULE RegionStore ------------------------------
(***************************************************************************)
(* The traffic of each region in one file per day (network/store.py), as   *)
(* network/refresh.py fills it: processes that share a cache directory,    *)
(* without a lock, each ask lorastats for a region that is due, merge the  *)
(* hours it answered into the day files, one after the other, record when  *)
(* they asked, and sweep what is expired or beyond the bounds.             *)
(*                                                                         *)
(* A file is replaced in one step or, when that fails, not at all.  A day  *)
(* file is the region's hours of that day; its size is their number, and   *)
(* it is there when it has one.  What is heard is the same in all regions. *)
(***************************************************************************)
EXTENDS Hours

CONSTANTS
  Procs,        \* mesh commands
  Regions,
  Traffics,     \* when something may be heard: a few sets of times
  Interval,     \* NETWORK_REFRESH_INTERVAL_SECONDS, or the forced one
  DayMax,       \* DAY_MAX_BYTES
  RegionMax,    \* REGION_MAX_BYTES
  TotalMax,     \* STORE_MAX_TOTAL_BYTES
  MaxRefreshes, \* bounds the refreshes
  MaxFaults     \* bounds the kinds of faults of one run

ASSUME RegionStoreAssumption ==
  /\ Procs # {} /\ Regions # {} /\ IsFiniteSet(Regions)
  /\ Traffics \subseteq SUBSET Time /\ Traffics # {}
  /\ {Interval, DayMax, RegionMax, TotalMax, MaxRefreshes, MaxFaults} \subseteq Nat
  /\ DayMax > 0

VARIABLES
  clock,
  traffic,    \* when something is heard
  gone,       \* lorastats deleted what was heard before this hour
  hours,      \* the hours in each region's day files
  state,      \* state.json of each region: when it was fetched and written, or None
  pc,         \* the step of each process
  job,        \* its refresh, or None
  refreshes,  \* how many were begun
  newest,     \* for the record: the last time any written hour was asked for
  excused,    \* the hours that were not answered, or whose file failed to be written
  dropped,    \* the hours that a bound of the store took
  overlapped, \* the hours that had begun when a region was asked for while
              \* another refresh of it had yet to write its hours
  faults      \* what failed so far

vars == <<clock, traffic, gone, hours, state, pc, job, refreshes, newest, excused, dropped, overlapped, faults>>
world  == <<clock, traffic, gone>>
files  == <<hours, state>>
record == <<newest, excused, dropped, overlapped>>

heard == {t \in traffic : t <= clock}

Goto(p, label) == pc' = [pc EXCEPT ![p] = label]
Region(p) == job[p].region
First(days) == CHOOSE d \in days : \A e \in days : d <= e
Day(p)    == First(job[p].days)
OfDay(d, all) == [h \in HourStarts |-> IF h \in InDay(d) THEN all[h] ELSE None]
DaysOf(all)   == {FloorDay(h) : h \in Stored(all)}
SizeOf(all)   == Cardinality(Stored(all))

MayFail == Cardinality(faults) < MaxFaults

Init ==
  /\ clock = 0 /\ traffic \in Traffics /\ gone = 0 /\ refreshes = 0 /\ faults = {}
  /\ hours = [r \in Regions |-> NoHours] /\ state = [r \in Regions |-> None]
  /\ pc = [p \in Procs |-> "idle"] /\ job = [p \in Procs |-> None]
  /\ newest = [r \in Regions |-> NoHours] /\ excused = [r \in Regions |-> {}]
  /\ dropped = [r \in Regions |-> {}] /\ overlapped = [r \in Regions |-> {}]

-----------------------------------------------------------------------------
(* RegionRefresher *)

FetchedAt(r) == IF state[r] = None THEN None ELSE state[r].fetched

Due(r) == FetchedAt(r) # None => clock - FetchedAt(r) >= Interval

(* What a refresh asked for of a region is not all in its files yet. *)
Writing(p)   == pc[p] \in {"answered", "reading", "merging"}
InRefresh(r) == \E p \in Procs : Writing(p) /\ Region(p) = r

(* _due and _fetch; the request is answered at once, stored later.  Not to *)
(* answer an hour leaves what is stored of it as it is, for good.          *)
Ask(p, r) ==
  /\ pc[p] = "idle" /\ Due(r) /\ refreshes < MaxRefreshes
  /\ LET since == Since(FetchedAt(r), clock)
         rows  == Answer(heard, gone, Asked(since))
         new   == Summarize(rows, since, clock)
     IN /\ job' = [job EXCEPT ![p] =
                     [region |-> r, at |-> clock, now |-> clock, new |-> new, days |-> {},
                      read |-> NoHours, previous |-> None, doomed |-> {}, dead |-> {}]]
        /\ excused' = [excused EXCEPT ![r] = @ \cup
             {h \in HourStarts \ Stored(new) :
                h <= FloorHour(clock) /\ (since = None \/ h >= since)}]
  /\ overlapped' = [overlapped EXCEPT ![r] =
       @ \cup {h \in HourStarts : InRefresh(r) /\ h <= clock}]
  /\ refreshes' = refreshes + 1
  /\ Goto(p, "answered")
  /\ UNCHANGED <<world, files, newest, dropped, faults>>

(* A request that fails stores nothing. *)
Fails(p) ==
  /\ pc[p] = "answered"
  /\ Goto(p, "idle") /\ job' = [job EXCEPT ![p] = None]
  /\ UNCHANGED <<world, files, refreshes, record, faults>>

-----------------------------------------------------------------------------
(* RegionStore.update *)

(* The hours to store, by day, and the first day file; then one after the  *)
(* other.                                                                  *)
Begin(p) ==
  /\ pc[p] = "answered"
  /\ LET new == Prune(job[p].new, clock)
         days == DaysOf(new)
     IN /\ job' = [job EXCEPT ![p].now = clock, ![p].new = new, ![p].days = days,
                              ![p].read = IF days = {} THEN NoHours
                                          ELSE OfDay(First(days), hours[Region(p)])]
        /\ Goto(p, IF days = {} THEN "recording" ELSE "merging")
  /\ UNCHANGED <<world, files, refreshes, record, faults>>

ReadDay(p) ==
  /\ pc[p] = "reading"
  /\ job' = [job EXCEPT ![p].read = OfDay(Day(p), hours[Region(p)])]
  /\ Goto(p, "merging")
  /\ UNCHANGED <<world, files, refreshes, record, faults>>

(* On to the next day file; what is no longer needed is forgotten. *)
NextDay(p) ==
  LET left == job[p].days \ {Day(p)}
  IN /\ job' = [job EXCEPT ![p].days = left, ![p].read = NoHours,
                            ![p].new = IF left = {} THEN NoHours ELSE @]
     /\ Goto(p, IF left = {} THEN "recording" ELSE "reading")

(* The hours of a refresh are its own, the others are kept. *)
DayMerged(old, new) == Merge(old, new)

Updated(p) == Prune(DayMerged(job[p].read, OfDay(Day(p), job[p].new)), job[p].now)

(* Without DAY_MAX_BYTES. *)
Whole(day) == day

Fitting(day) == IF SizeOf(day) > DayMax THEN DropOldest(day, SizeOf(day) - DayMax) ELSE day

WriteDay(p) ==
  /\ pc[p] = "merging"
  /\ LET r == Region(p)
         updated == Updated(p)
         written == Fitting(updated)
     IN /\ hours' = [hours EXCEPT ![r] =
              [h \in HourStarts |-> IF h \in InDay(Day(p)) THEN written[h] ELSE @[h]]]
        /\ newest' = [newest EXCEPT ![r] =
              [h \in HourStarts |-> IF h \in Stored(updated)
                                    THEN Later(@[h], updated[h].asof) ELSE @[h]]]
        /\ dropped' = [dropped EXCEPT ![r] = (@ \cup Stored(updated)) \ Stored(written)]
  /\ NextDay(p)
  /\ UNCHANGED <<world, state, refreshes, excused, overlapped, faults>>

(* write_json never raises: the update goes on. *)
WriteDayFails(p) ==
  /\ pc[p] = "merging" /\ MayFail
  /\ faults' = faults \cup {"day"}
  /\ excused' = [excused EXCEPT ![Region(p)] = @ \cup (InDay(Day(p)) \cap Stored(job[p].new))]
  /\ NextDay(p)
  /\ UNCHANGED <<world, files, refreshes, newest, dropped, overlapped>>

ReadState(p) ==
  /\ pc[p] = "recording"
  /\ job' = [job EXCEPT ![p].previous = FetchedAt(Region(p))]
  /\ Goto(p, "stating")
  /\ UNCHANGED <<world, files, refreshes, record, faults>>

Stated(p) ==
  /\ Goto(p, "listing")
  /\ job' = [job EXCEPT ![p].at = job[p].now, ![p].previous = None]

(* The newer of the two fetches is recorded. *)
WriteState(p) ==
  /\ pc[p] = "stating"
  /\ state' = [state EXCEPT ![Region(p)] =
       [fetched |-> Later(job[p].previous, job[p].at), written |-> clock]]
  /\ Stated(p)
  /\ UNCHANGED <<world, hours, refreshes, record, faults>>

WriteStateFails(p) ==
  /\ pc[p] = "stating" /\ MayFail
  /\ faults' = faults \cup {"state"}
  /\ Stated(p)
  /\ UNCHANGED <<world, files, refreshes, record>>

-----------------------------------------------------------------------------
(* _sweep *)

Refreshed(r) == IF state[r] = None THEN 0 ELSE state[r].written
Cutoff(now)  == now - Retention
Expired(d, now) == d + HourTicks * DayHours <= Cutoff(now)

From(r, d) == Cardinality({h \in Stored(hours[r]) : h >= d})

(* The days of a region that its own bound leaves: the newest that fit. *)
Fits(r, now) ==
  {d \in DaysOf(hours[r]) : ~Expired(d, now) /\ From(r, d) <= RegionMax}

(* The regions in an order of the sort by refresh time, equal times in any *)
(* order, since the directory lists them in any.                           *)
Orders ==
  {o \in [Regions -> 1..Cardinality(Regions)] :
     \A r, s \in Regions : /\ r # s => o[r] # o[s]
                           /\ Refreshed(r) < Refreshed(s) => o[r] < o[s]}

SumSizes(rs, now) == Cardinality(UNION {
  {<<r, h>> : h \in {g \in Stored(hours[r]) : FloorDay(g) \in Fits(r, now)}} : r \in rs})

(* What the total bound leaves of a region: its newest days, as long as    *)
(* they fit beside everything the regions after it in the order have.      *)
Stays(order, r, d, now) ==
  LET after == {s \in Regions : order[s] > order[r]}
      ours  == Cardinality({h \in Stored(hours[r]) :
                              h >= d /\ FloorDay(h) \in Fits(r, now)})
  IN d \in Fits(r, now) /\ SumSizes(after, now) + ours <= TotalMax

DoomedDays(order, now) ==
  UNION {{<<r, d>> : d \in {e \in DaysOf(hours[r]) : ~Stays(order, r, e, now)}} : r \in Regions}

DeadRegions(doomed, now) ==
  {r \in Regions : /\ \A d \in DaysOf(hours[r]) : <<r, d>> \in doomed
                   /\ Refreshed(r) <= Cutoff(now)}

ListFiles(p) ==
  /\ pc[p] = "listing"
  /\ \E order \in Orders :
       LET doomed == DoomedDays(order, job[p].now)
       IN job' = [job EXCEPT ![p].doomed = doomed,
                             ![p].dead = DeadRegions(doomed, job[p].now)]
  /\ Goto(p, "sweeping")
  /\ UNCHANGED <<world, files, refreshes, record, faults>>

(* What was listed is deleted, also when another process has written it    *)
(* since; a dead region goes with all that is in it.                       *)
Swept(p, r, h) == r \in job[p].dead \/ <<r, FloorDay(h)>> \in job[p].doomed

Sweep(p) ==
  /\ pc[p] = "sweeping"
  /\ hours' = [r \in Regions |-> [h \in HourStarts |->
       IF Swept(p, r, h) THEN None ELSE hours[r][h]]]
  /\ dropped' = [r \in Regions |-> dropped[r] \cup {h \in Stored(hours[r]) : Swept(p, r, h)}]
  /\ state' = [r \in Regions |-> IF r \in job[p].dead THEN None ELSE state[r]]
  /\ Goto(p, "idle") /\ job' = [job EXCEPT ![p] = None]
  /\ UNCHANGED <<world, refreshes, newest, excused, overlapped, faults>>

-----------------------------------------------------------------------------
Kill(p) ==
  /\ pc[p] \notin {"idle", "answered"} /\ MayFail
  /\ Goto(p, "idle") /\ job' = [job EXCEPT ![p] = None]
  /\ faults' = faults \cup {"kill"}
  /\ UNCHANGED <<world, files, refreshes, record>>

Tick ==
  /\ clock < MaxTime
  /\ clock' = clock + 1
  /\ UNCHANGED <<traffic, gone, files, pc, job, refreshes, record, faults>>

(* lorastats deletes its oldest hours, those of the assumed retention not. *)
Forget ==
  /\ gone <= clock - Assumed
  /\ gone' = gone + HourTicks
  /\ UNCHANGED <<clock, traffic, files, pc, job, refreshes, record, faults>>

Next ==
  \/ \E p \in Procs :
       \/ \E r \in Regions : Ask(p, r)
       \/ Fails(p) \/ Begin(p) \/ ReadDay(p) \/ WriteDay(p) \/ WriteDayFails(p)
       \/ ReadState(p) \/ WriteState(p) \/ WriteStateFails(p)
       \/ ListFiles(p) \/ Sweep(p) \/ Kill(p)
  \/ Tick \/ Forget

Spec == Init /\ [][Next]_vars

-----------------------------------------------------------------------------
JobType ==
  [region : Regions, at : Time, now : Time, new : HoursType, days : SUBSET DayStarts,
   read : HoursType, previous : Time \cup {None},
   doomed : SUBSET (Regions \X DayStarts), dead : SUBSET Regions]
ASSUME JobAssumption == None \notin JobType
Steps == {"idle", "answered", "reading", "merging", "recording", "stating", "listing", "sweeping"}

TypeOK ==
  /\ clock \in Time /\ traffic \in Traffics /\ gone \in Nat
  /\ refreshes \in 0..MaxRefreshes /\ faults \subseteq {"kill", "day", "state"}
  /\ hours \in [Regions -> HoursType]
  /\ state \in [Regions -> [fetched : Time, written : Time] \cup {None}]
  /\ pc \in [Procs -> Steps] /\ job \in [Procs -> JobType \cup {None}]
  /\ \A p \in Procs : pc[p] = "idle" <=> job[p] = None
  /\ newest \in [Regions -> [HourStarts -> Time \cup {None}]]
  /\ excused \in [Regions -> SUBSET HourStarts]
  /\ dropped \in [Regions -> SUBSET HourStarts]
  /\ overlapped \in [Regions -> SUBSET HourStarts]

(* Whatever the processes do at once, and whatever fails, a stored hour    *)
(* holds what was heard in it until it was asked for: an hour is stored as *)
(* silent only when lorastats still held it (answered_hours) and no hour   *)
(* is half asked for (floor_hour in _fetch).                               *)
StoredIsTrue == \A r \in Regions : IsTrue(hours[r], heard)

(* An hour within the retention that no refresh will ask for again, that   *)
(* was answered and whose file could be written: it is stored as a whole,  *)
(* unless a bound of the store has taken it.  So it is as long as one      *)
(* refresh of the region comes after the other.  An hour that had begun    *)
(* when two ran at once was written as a whole by one of them; what the    *)
(* other left of it is another matter: see BothLeaveAll.                   *)
Settled(r, h) ==
  /\ state[r] # None /\ h < FloorHour(state[r].fetched)
  /\ InRetention(h, clock) /\ h \notin excused[r]

WholeOrDropped(r, h) ==
  IF hours[r][h] = None THEN h \in dropped[r] ELSE Complete(h, hours[r][h])

WrittenWhole(r, h) == newest[r][h] # None /\ newest[r][h] >= h + HourTicks

SettledIsComplete ==
  \A r \in Regions, h \in HourStarts :
    Settled(r, h) => \/ WholeOrDropped(r, h)
                     \/ h \in overlapped[r] /\ WrittenWhole(r, h)

(* What the module of the store says of itself: "two processes refreshing  *)
(* the same region at once both leave a complete store".  When all are     *)
(* done, an hour may still be half counted or not counted at all: a        *)
(* refresh replaces what is stored of its hours, or writes the day as it   *)
(* read it, also when another has stored since what it asked for later,    *)
(* and the recorded fetch stays the newer of the two, so that nobody asks  *)
(* for the hour again.                                                     *)
BothLeaveAll ==
  (\A p \in Procs : pc[p] = "idle") =>
    \A r \in Regions, h \in HourStarts : Settled(r, h) => WholeOrDropped(r, h)

(* The stored hours are what was heard: nothing else, and nothing missing  *)
(* that nobody will ask for again; and everything has its type.            *)
HoursAreRight == TypeOK /\ StoredIsTrue /\ SettledIsComplete

(* When nobody is at work and nobody was killed, the bounds hold: however  *)
(* the sweeps interleave, the last to list sees what all have written; and *)
(* no day file is ever larger than the largest that is read (_write_day).  *)
QuietMeansBounded ==
  /\ \A r \in Regions, d \in DayStarts : SizeOf(OfDay(d, hours[r])) <= DayMax
  /\ "kill" \notin faults /\ (\A p \in Procs : pc[p] = "idle") =>
       /\ \A r \in Regions : SizeOf(hours[r]) <= RegionMax
       /\ Cardinality(UNION {{<<r, h>> : h \in Stored(hours[r])} : r \in Regions}) <= TotalMax
=============================================================================
