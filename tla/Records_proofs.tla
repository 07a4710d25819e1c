---------------------------- MODULE Records_proofs ----------------------------
(***************************************************************************)
(* Theorems about what mesh keeps in files and reads back, the parts of    *)
(* module RecordsMC: module RegionStore, for any number of processes,      *)
(* regions and refreshes, any traffic, bounds and lengths of the hour, the *)
(* day and the retentions; module DbVerify, for any databases; and module  *)
(* Loranet, for any dumps.                                                 *)
(***************************************************************************)
EXTENDS RegionStore, DbVerify, Loranet, Hours_proofs, FiniteSetTheorems

(* What is stored of an hour of a region need not be asked for again: some *)
(* refresh wrote it that asked when it was over, or it has its excuse, or  *)
(* it is past the retention.  This stays so whatever is deleted since.     *)
Covered(r, h) ==
  \/ h \in excused[r]
  \/ h < FloorHour(clock - Retention)
  \/ newest[r][h] # None /\ newest[r][h] >= h + HourTicks

CoveredTo(r, t) == \A h \in HourStarts : h < FloorHour(t) => Covered(r, h)

(* The stored hours are true.                                              *)
HoursInv == \A r \in Regions : Sound(hours[r], traffic, clock)

(* No refresh asks again for the hours before the recorded one.            *)
StateInv ==
  \A r \in Regions : state[r] # None =>
    state[r].fetched <= clock /\ CoveredTo(r, state[r].fetched)

(* A refresh has true hours in hand, those it answered of the hours it     *)
(* asked for; what it has yet to write is in the days it has yet to write; *)
(* when all are written, the time it asked may be recorded.                *)
InHand(p, h) == /\ h \in Stored(job[p].new)
                /\ pc[p] # "answered" => FloorDay(h) \in job[p].days

JobInv(p) ==
  /\ pc[p] # "idle" =>
       /\ job[p].at <= job[p].now /\ job[p].now <= clock
       /\ Sound(job[p].new, traffic, clock) /\ Sound(job[p].read, traffic, clock)
  /\ Writing(p) =>
       /\ \A h \in Stored(job[p].new) : job[p].new[h].asof = job[p].at
       /\ \A h \in HourStarts : h < FloorHour(job[p].at) =>
            Covered(Region(p), h) \/ InHand(p, h)
  /\ pc[p] \in {"reading", "merging"} => job[p].days # {}
  /\ pc[p] = "merging" => \A h \in Stored(job[p].read) : h \in InDay(Day(p))
  /\ pc[p] \in {"recording", "stating"} => CoveredTo(Region(p), job[p].at)
  /\ pc[p] = "stating" /\ job[p].previous # None =>
       job[p].previous <= clock /\ CoveredTo(Region(p), job[p].previous)

IInv ==
  /\ TypeOK /\ GoneBy(gone, clock)
  /\ HoursInv /\ StateInv
  /\ \A p \in Procs : JobInv(p)

-----------------------------------------------------------------------------
(* Days, as FloorHour for hours.                                           *)
LEMMA DayTicks == HourTicks * DayHours \in Nat /\ HourTicks * DayHours > 0
<1>1. \A a, b \in Nat \ {0} : a * b \in Nat /\ a * b > 0
  OBVIOUS
<1>. QED  BY <1>1, HoursAssumption

LEMMA QuotientIs ==
  ASSUME NEW n \in Nat, n > 0, NEW t \in Nat
  PROVE  /\ (t \div n) * n \in Nat /\ (t \div n) * n <= t
         /\ t < (t \div n) * n + n
OBVIOUS

LEMMA FloorDayIs ==
  ASSUME NEW h \in HourStarts
  PROVE  FloorDay(h) \in DayStarts /\ h \in InDay(FloorDay(h))
<1>. DEFINE n == HourTicks * DayHours
<1>1. n \in Nat /\ n > 0
  BY DayTicks
<1>2. h \in Time /\ h \in Nat
  BY HourStartsAre
<1>3. FloorDay(h) = (h \div n) * n /\ InDay(FloorDay(h)) = FloorDay(h)..(FloorDay(h) + n - 1)
  BY DEF FloorDay, InDay
<1>. HIDE DEF n
<1>4. FloorDay(h) \in Nat /\ FloorDay(h) <= h /\ h < FloorDay(h) + n
  BY <1>1, <1>2, <1>3, QuotientIs
<1>5. FloorDay(h) \in DayStarts
  BY <1>2 DEF DayStarts
<1>. QED  BY <1>1, <1>2, <1>3, <1>4, <1>5

LEMMA DayStartsAre == DayStarts \subseteq Nat
<1>. SUFFICES ASSUME NEW t \in Time  PROVE FloorDay(t) \in Nat
  BY DEF DayStarts
<1>. DEFINE n == HourTicks * DayHours
<1>1. n \in Nat /\ n > 0 /\ t \in Nat
  BY DayTicks DEF Time
<1>2. FloorDay(t) = (t \div n) * n
  BY DEF FloorDay
<1>. HIDE DEF n
<1>. QED  BY <1>1, <1>2, QuotientIs

LEMMA FirstIs ==
  ASSUME NEW days \in SUBSET DayStarts, days # {}
  PROVE  First(days) \in days
BY Earliest, DayStartsAre DEF First

LEMMA OfDayIsSound ==
  ASSUME NEW all \in HoursType, NEW t, NEW now, Sound(all, t, now), NEW d
  PROVE  /\ OfDay(d, all) \in HoursType /\ Sound(OfDay(d, all), t, now)
         /\ \A h \in Stored(OfDay(d, all)) : h \in InDay(d) /\ h \in Stored(all)
         /\ \A h \in HourStarts : h \in InDay(d) => OfDay(d, all)[h] = all[h]
<1>1. OfDay(d, all) \in HoursType
  BY DEF HoursType, OfDay
<1>2. \A h \in HourStarts : OfDay(d, all)[h] = IF h \in InDay(d) THEN all[h] ELSE None
  BY DEF OfDay
<1>. QED  BY <1>1, <1>2 DEF Stored, Sound

LEMMA DaysOfAre ==
  ASSUME NEW all
  PROVE  /\ DaysOf(all) \in SUBSET DayStarts
         /\ \A h \in Stored(all) : FloorDay(h) \in DaysOf(all)
BY FloorDayIs DEF DaysOf, Stored

LEMMA FittingIsSound ==
  ASSUME NEW day \in HoursType, NEW t, NEW now, Sound(day, t, now)
  PROVE  /\ Fitting(day) \in HoursType /\ Sound(Fitting(day), t, now)
         /\ \A h \in HourStarts : Fitting(day)[h] \in {None, day[h]}
BY DropIsSound DEF Fitting

LEMMA LaterIs ==
  ASSUME NEW a \in Time \cup {None}, NEW b \in Time
  PROVE  Later(a, b) \in Time /\ (a # None => Later(a, b) >= a) /\ Later(a, b) >= b
                              /\ (Later(a, b) = a \/ Later(a, b) = b)
BY NoneIsNoBucket DEF Later, Time

-----------------------------------------------------------------------------
LEMMA InitIInv == Init => IInv
<1>. SUFFICES ASSUME Init  PROVE IInv
  OBVIOUS
<1>1. 0 \in Time /\ NoHours \in HoursType /\ Stored(NoHours) = {}
  BY NoHoursAreSound, HoursAssumption DEF Time
<1>2. NoHours \in [HourStarts -> Time \cup {None}]
  BY DEF NoHours
<1>3. TypeOK
  BY <1>1, <1>2, RegionStoreAssumption DEF Init, TypeOK, Steps
<1>4. GoneBy(gone, clock)
  BY ZeroIsAligned DEF Init, GoneBy
<1>5. HoursInv
  BY <1>1, NoHoursAreSound DEF Init, HoursInv
<1>6. StateInv /\ \A p \in Procs : JobInv(p)
  BY DEF Init, StateInv, JobInv, Writing
<1>. QED  BY <1>3, <1>4, <1>5, <1>6 DEF IInv

(* What is covered stays covered while the clock and the record move on.   *)
LEMMA CoveredStays ==
  ASSUME TypeOK, TypeOK', clock <= clock',
         NEW r \in Regions, NEW h \in HourStarts, Covered(r, h), excused[r] \subseteq excused'[r],
         newest[r][h] # None => newest'[r][h] # None /\ newest[r][h] <= newest'[r][h]
  PROVE  Covered(r, h)'
<1>1. clock \in Nat /\ clock' \in Nat /\ h \in Nat
  BY HourStartsAre DEF TypeOK, Time
<1>2. CASE h \in excused[r]
  BY <1>2 DEF Covered
<1>3. CASE h < FloorHour(clock - Retention)
  <2>1. FloorHour(clock - Retention) <= FloorHour(clock' - Retention)
    BY <1>1, FloorHourMoves, HoursAssumption
  <2>2. FloorHour(clock - Retention) \in Int /\ FloorHour(clock' - Retention) \in Int
    BY <1>1, FloorHourIs, HoursAssumption
  <2>. QED  BY <1>1, <1>3, <2>1, <2>2 DEF Covered
<1>4. CASE newest[r][h] # None /\ newest[r][h] >= h + HourTicks
  <2>1. newest[r][h] \in Nat /\ newest'[r][h] \in Nat
    BY <1>4 DEF TypeOK, Time
  <2>. QED  BY <1>1, <1>4, <2>1, Ticks DEF Covered
<1>. QED  BY <1>2, <1>3, <1>4 DEF Covered

(* So a process that does nothing keeps its part of the invariant.         *)
Onward == /\ TypeOK /\ TypeOK' /\ clock <= clock' /\ traffic' = traffic
          /\ \A r \in Regions, h \in HourStarts : Covered(r, h) => Covered(r, h)'

LEMMA JobWaits ==
  ASSUME Onward, NEW p \in Procs, JobInv(p), pc'[p] = pc[p], job'[p] = job[p]
  PROVE  JobInv(p)'
<1>1. CASE pc[p] = "idle"
  BY <1>1 DEF JobInv, Writing
<1>2. CASE pc[p] # "idle"
  <2>1. job[p] \in JobType /\ Region(p) \in Regions
    BY <1>2 DEF Onward, TypeOK, JobType, Region
  <2>2. clock \in Nat /\ clock' \in Nat /\ job[p].now \in Nat /\ clock <= clock'
    BY <2>1 DEF Onward, TypeOK, JobType, Time
  <2>3. /\ job[p].new \in HoursType /\ job[p].read \in HoursType
        /\ job[p].previous # None => job[p].previous \in Nat
    BY <2>1 DEF JobType, Time
  <2>4. /\ job'[p].at <= job'[p].now /\ job'[p].now <= clock'
        /\ Sound(job'[p].new, traffic', clock') /\ Sound(job'[p].read, traffic', clock')
    BY <1>2, <2>2, <2>3, SoundLater DEF JobInv, Onward
  <2>5. \A h \in HourStarts : Covered(Region(p), h) => Covered(Region(p), h)'
    BY <2>1 DEF Onward, Region
  <2>6. \A h \in HourStarts : InHand(p, h) => InHand(p, h)'
    BY DEF InHand
  <2>. HIDE DEF InHand
  <2>7. (Writing(p))' <=> Writing(p)
    BY DEF Writing
  <2>8. Region(p)' = Region(p) /\ Day(p)' = Day(p)
    BY DEF Region, Day
  <2>9. \A t : CoveredTo(Region(p), t) => CoveredTo(Region(p), t)'
    BY <2>5, <2>8 DEF CoveredTo
  <2>. QED
    BY <1>2, <2>2, <2>3, <2>4, <2>5, <2>6, <2>7, <2>8, <2>9 DEF JobInv, CoveredTo
<1>. QED  BY <1>1, <1>2

(* A step of one process.                                                  *)
LEMMA ProcessStep ==
  ASSUME IInv, Onward, NEW p \in Procs, UNCHANGED <<clock, gone>>,
         \A q \in Procs : q # p => pc'[q] = pc[q] /\ job'[q] = job[q],
         HoursInv', StateInv', JobInv(p)'
  PROVE  IInv'
<1>1. \A q \in Procs : JobInv(q)'
  <2>1. SUFFICES ASSUME NEW q \in Procs, q # p  PROVE JobInv(q)'
    OBVIOUS
  <2>2. JobInv(q)
    BY DEF IInv
  <2>. QED  BY <2>1, <2>2, JobWaits
<1>. QED  BY <1>1 DEF IInv, Onward

LEMMA StateStays ==
  ASSUME IInv, Onward, UNCHANGED <<clock, state>>
  PROVE  StateInv'
<1>1. SUFFICES ASSUME NEW r \in Regions, state[r] # None
               PROVE  state[r].fetched <= clock /\ CoveredTo(r, state[r].fetched)'
  BY DEF StateInv, CoveredTo, Covered
<1>. QED  BY <1>1 DEF IInv, StateInv, CoveredTo, Onward

(* A step of one process that only changes its own work.                   *)
LEMMA JobStep ==
  ASSUME IInv, NEW p \in Procs, NEW l \in Steps, NEW j \in JobType \cup {None},
         l = "idle" <=> j = None,
         pc' = [pc EXCEPT ![p] = l], job' = [job EXCEPT ![p] = j],
         UNCHANGED <<world, files, record>>, refreshes' \in 0..MaxRefreshes,
         faults' \subseteq {"kill", "day", "state"}, JobInv(p)'
  PROVE  IInv'
<1>1. UNCHANGED <<clock, traffic, gone, hours, state, newest, excused, dropped, overlapped>>
  BY DEF world, files, record
<1>2. TypeOK'
  BY <1>1, NoneIsNoBucket DEF IInv, TypeOK
<1>3. \A r \in Regions, h \in HourStarts : Covered(r, h) => Covered(r, h)'
  BY <1>1 DEF Covered
<1>4. clock \in Nat
  BY DEF IInv, TypeOK, Time
<1>5. Onward
  BY <1>1, <1>2, <1>3, <1>4 DEF Onward, IInv
<1>6. HoursInv'
  BY <1>1 DEF IInv, HoursInv
<1>7. StateInv'
  BY <1>1, <1>5, StateStays
<1>8. \A q \in Procs : q # p => pc'[q] = pc[q] /\ job'[q] = job[q]
  BY DEF IInv, TypeOK
<1>. QED  BY <1>1, <1>5, <1>6, <1>7, <1>8, ProcessStep

(* A process that stops has no part in the invariant.                      *)
LEMMA IdleInv ==
  ASSUME NEW p \in Procs, pc[p] = "idle"
  PROVE  JobInv(p)
BY DEF JobInv, Writing

LEMMA JobIs ==
  ASSUME TypeOK, NEW p \in Procs, pc[p] # "idle"
  PROVE  /\ job[p] \in JobType /\ Region(p) \in Regions /\ Region(p) = job[p].region
         /\ job[p].at \in Nat /\ job[p].now \in Nat /\ clock \in Nat
         /\ job[p].at \in Time /\ job[p].now \in Time
         /\ job[p].new \in HoursType /\ job[p].read \in HoursType
         /\ job[p].days \in SUBSET DayStarts
BY DEF TypeOK, JobType, Region, Time

-----------------------------------------------------------------------------
LEMMA AskKeeps ==
  ASSUME IInv, NEW p \in Procs, NEW r \in Regions, Ask(p, r)
  PROVE  IInv'
<1>. DEFINE since == Since(FetchedAt(r), clock)
            rows  == Answer(heard, gone, Asked(since))
            new   == Summarize(rows, since, clock)
            j == [region |-> r, at |-> clock, now |-> clock, new |-> new, days |-> {},
                  read |-> NoHours, previous |-> None, doomed |-> {}, dead |-> {}]
            missed == {h \in HourStarts \ Stored(new) :
                         h <= FloorHour(clock) /\ (since = None \/ h >= since)}
            begun == {h \in HourStarts : InRefresh(r) /\ h <= clock}
<1>1. /\ pc[p] = "idle" /\ refreshes < MaxRefreshes
      /\ job' = [job EXCEPT ![p] = j]
      /\ excused' = [excused EXCEPT ![r] = @ \cup missed]
      /\ overlapped' = [overlapped EXCEPT ![r] = @ \cup begun]
      /\ refreshes' = refreshes + 1
      /\ pc' = [pc EXCEPT ![p] = "answered"]
      /\ UNCHANGED <<clock, traffic, gone, hours, state, newest, dropped, faults>>
  BY DEF Ask, Goto, world, files
<1>2. TypeOK /\ clock \in Time /\ clock \in Nat /\ traffic \in SUBSET Time
  BY RegionStoreAssumption DEF IInv, TypeOK, Time
<1>3. /\ since \in Nat \cup {None}
      /\ since # None => /\ Aligned(since) /\ state[r] # None
                         /\ since = FloorHour(state[r].fetched)
  <2>1. CASE state[r] = None
    BY <2>1 DEF Since, FetchedAt
  <2>2. CASE state[r] # None
    <3>1. state[r].fetched \in Time /\ state[r].fetched <= clock
      BY <1>2, <2>2 DEF TypeOK, IInv, StateInv
    <3>2. state[r].fetched # None /\ Earlier(state[r].fetched, clock) = state[r].fetched
      BY <1>2, <3>1, NoneIsNoBucket DEF Earlier
    <3>3. since = FloorHour(state[r].fetched)
      BY <2>2, <3>2 DEF Since, FetchedAt
    <3>4. FloorHour(state[r].fetched) \in HourStarts
      BY <3>1 DEF HourStarts
    <3>. QED  BY <2>2, <3>3, <3>4, HourStartsAre
  <2>. QED  BY <2>1, <2>2
<1>0. begun \subseteq HourStarts
  OBVIOUS
<1>. HIDE DEF since, begun
<1>4. /\ new \in HoursType /\ Sound(new, traffic, clock)
      /\ \A h \in Stored(new) : new[h].asof = clock
  <2>1. /\ GoneBy(gone, clock) /\ heard = {t \in traffic : t <= clock}
        /\ clock \in Time /\ traffic \in SUBSET Time
        /\ since \in Nat \cup {None} /\ (since # None => Aligned(since))
    BY <1>2, <1>3 DEF heard, IInv
  <2>. HIDE DEF j, missed
  <2>2. new \in HoursType /\ Sound(new, traffic, clock)
    BY <2>1, SummaryIsSound
  <2>3. \A h \in Stored(new) : new[h].asof = clock
    BY SummaryBears
  <2>. QED  BY <2>2, <2>3
<1>. HIDE DEF new
<1>5. j \in JobType
  BY <1>2, <1>4, NoHoursAreSound DEF JobType
<1>6. /\ j.region = r /\ j.at = clock /\ j.now = clock /\ j.new = new /\ j.read = NoHours
      /\ j # None
  BY <1>5, JobAssumption
<1>. HIDE DEF j, missed
<1>7. job'[p] = j /\ pc'[p] = "answered"
  BY <1>1, <1>2 DEF TypeOK
<1>8. missed \subseteq HourStarts
  BY DEF missed
<1>9. TypeOK'
  <2>1. refreshes' \in 0..MaxRefreshes
    BY <1>1, <1>2, RegionStoreAssumption DEF TypeOK
  <2>2. excused' \in [Regions -> SUBSET HourStarts] /\ overlapped' \in [Regions -> SUBSET HourStarts]
    BY <1>0, <1>1, <1>2, <1>8 DEF TypeOK
  <2>3. pc' \in [Procs -> Steps] /\ job' \in [Procs -> JobType \cup {None}]
    BY <1>1, <1>2, <1>5 DEF TypeOK, Steps
  <2>4. \A q \in Procs : pc'[q] = "idle" <=> job'[q] = None
    BY <1>1, <1>2, <1>6, <1>7 DEF TypeOK
  <2>. QED  BY <1>1, <1>2, <2>1, <2>2, <2>3, <2>4 DEF TypeOK
<1>10. Onward
  <2>1. \A s \in Regions : excused[s] \subseteq excused'[s]
    BY <1>1, <1>2 DEF TypeOK
  <2>. QED
    BY <1>1, <1>2, <1>9, <2>1 DEF Onward, Covered
<1>11. HoursInv'
  BY <1>1 DEF IInv, HoursInv
<1>12. StateInv'
  BY <1>1, <1>10, StateStays
<1>13. JobInv(p)'
  <2>1. (Writing(p))' /\ Region(p)' = r
    BY <1>6, <1>7 DEF Writing, Region
  <2>2. Sound(NoHours, traffic, clock)
    BY NoHoursAreSound
  <2>3. ASSUME NEW h \in HourStarts, h < FloorHour(clock), h \notin Stored(new)
        PROVE  Covered(r, h)'
    <3>1. CASE since = None \/ h >= since
      <4>1. h \in missed
        BY <1>2, <2>3, <3>1, HourStartsAre, FloorHourIs DEF missed
      <4>2. h \in excused'[r]
        BY <1>1, <1>2, <4>1 DEF TypeOK
      <4>. QED  BY <4>2 DEF Covered
    <3>2. CASE ~(since = None \/ h >= since)
      <4>1. state[r] # None /\ h < FloorHour(state[r].fetched)
        BY <1>3, <3>2, HourStartsAre
      <4>2. Covered(r, h)
        BY <2>3, <4>1 DEF IInv, StateInv, CoveredTo
      <4>. QED  BY <1>10, <4>2, <2>3 DEF Onward
    <3>. QED  BY <3>1, <3>2
  <2>4. \A h \in HourStarts : h < FloorHour(clock) => Covered(r, h)' \/ InHand(p, h)'
    BY <1>6, <1>7, <2>3 DEF InHand
  <2>. HIDE DEF InHand
  <2>. QED  BY <1>1, <1>2, <1>4, <1>6, <1>7, <2>1, <2>2, <2>4 DEF JobInv
<1>14. \A q \in Procs : q # p => pc'[q] = pc[q] /\ job'[q] = job[q]
  BY <1>1, <1>2 DEF TypeOK
<1>. QED  BY <1>1, <1>10, <1>11, <1>12, <1>13, <1>14, ProcessStep

LEMMA IdleKeeps ==
  ASSUME NEW p \in Procs, pc'[p] = "idle"
  PROVE  JobInv(p)'
BY DEF JobInv, Writing

(* An hour before the last that was asked for is either still to be kept,  *)
(* or past the retention for good.                                         *)
LEMMA KeptOrCovered ==
  ASSUME TypeOK, NEW r \in Regions, NEW h \in HourStarts, NEW at \in Nat, NEW now \in Nat,
         at <= now, now <= clock, h < FloorHour(at)
  PROVE  Covered(r, h) \/ InRetention(h, now)
<1>1. clock \in Nat /\ h \in Nat
  BY HourStartsAre DEF TypeOK, Time
<1>2. FloorHour(at) <= FloorHour(now)
  BY FloorHourMoves
<1>3. FloorHour(now - Retention) <= FloorHour(clock - Retention)
  BY <1>1, FloorHourMoves, HoursAssumption
<1>4. /\ FloorHour(at) \in Int /\ FloorHour(now) \in Int /\ FloorHour(now - Retention) \in Int
      /\ FloorHour(clock - Retention) \in Int
  BY <1>1, FloorHourIs, HoursAssumption
<1>. QED  BY <1>1, <1>2, <1>3, <1>4 DEF InRetention, Covered

LEMMA BeginKeeps ==
  ASSUME IInv, NEW p \in Procs, Begin(p)
  PROVE  IInv'
<1>. DEFINE new  == Prune(job[p].new, clock)
            days == DaysOf(new)
            read == IF days = {} THEN NoHours ELSE OfDay(First(days), hours[Region(p)])
            l    == IF days = {} THEN "recording" ELSE "merging"
            j    == [job[p] EXCEPT !.now = clock, !.new = new, !.days = days, !.read = read]
<1>1. /\ pc[p] = "answered" /\ TypeOK /\ JobInv(p)
      /\ UNCHANGED <<world, files, refreshes, record, faults>>
      /\ pc' = [pc EXCEPT ![p] = l]
  BY DEF Begin, Goto, IInv
<1>2. /\ job[p] \in JobType /\ Region(p) \in Regions
      /\ job[p].at \in Nat /\ job[p].now \in Nat /\ clock \in Nat /\ clock \in Time
      /\ job[p].new \in HoursType
  BY <1>1, JobIs DEF TypeOK
<1>3. job' = [job EXCEPT ![p] = j]
  BY <1>1, <1>2 DEF Begin, TypeOK, JobType
<1>4. /\ new \in HoursType /\ Sound(new, traffic, clock)
      /\ \A h \in HourStarts :
           new[h] = IF InRetention(h, clock) THEN job[p].new[h] ELSE None
  <2>1. Sound(job[p].new, traffic, clock)
    BY <1>1 DEF JobInv
  <2>. HIDE DEF days, read, j
  <2>2. PICK had \in HoursType : had = job[p].new
    BY <1>2
  <2>3. Sound(had, traffic, clock)
    BY <2>1, <2>2
  <2>4. new = Prune(had, clock)
    BY <2>2
  <2>. HIDE DEF new
  <2>5. /\ Prune(had, clock) \in HoursType
        /\ Sound(Prune(had, clock), traffic, clock)
        /\ \A h \in HourStarts :
             Prune(had, clock)[h] = IF InRetention(h, clock) THEN had[h] ELSE None
    BY <2>3, PruneIsSound
  <2>. QED  BY <2>2, <2>4, <2>5
<1>. HIDE DEF new
<1>5. days \in SUBSET DayStarts /\ \A h \in Stored(new) : FloorDay(h) \in days
  BY DaysOfAre
<1>. HIDE DEF days
<1>6. /\ read \in HoursType /\ Sound(read, traffic, clock)
      /\ days # {} => \A h \in Stored(read) : h \in InDay(First(days))
  <2>1. CASE days = {}
    BY <2>1, NoHoursAreSound
  <2>2. CASE days # {}
    <3>1. hours[Region(p)] \in HoursType /\ Sound(hours[Region(p)], traffic, clock)
      BY <1>1, <1>2 DEF TypeOK, IInv, HoursInv
    <3>. QED  BY <2>2, <3>1, OfDayIsSound
  <2>. QED  BY <2>1, <2>2
<1>. HIDE DEF read
<1>7. j \in JobType
  BY <1>2, <1>4, <1>5, <1>6 DEF JobType
<1>8. /\ j.at = job[p].at /\ j.now = clock /\ j.new = new /\ j.days = days /\ j.read = read
      /\ j.region = job[p].region
  BY <1>2 DEF JobType
<1>. HIDE DEF j
<1>9. job'[p] = j /\ pc'[p] = l
  BY <1>1, <1>3 DEF TypeOK
<1>10. JobInv(p)'
  <2>1. UNCHANGED <<clock, traffic, newest, excused>>
    BY <1>1 DEF world, record
  <2>2. Region(p)' = Region(p)
    BY <1>8, <1>9 DEF Region
  <2>3. \A h \in HourStarts : Covered(Region(p), h)' <=> Covered(Region(p), h)
    BY <2>1, <2>2 DEF Covered
  <2>4. \A h \in Stored(new) : new[h].asof = job[p].at
    BY <1>1, <1>4 DEF Stored, JobInv, Writing
  <2>5. ASSUME NEW h \in HourStarts, h < FloorHour(job[p].at)
        PROVE  Covered(Region(p), h) \/ (h \in Stored(new) /\ FloorDay(h) \in days)
    <3>1. Covered(Region(p), h) \/ h \in Stored(job[p].new)
      BY <1>1, <2>5 DEF JobInv, Writing, InHand
    <3>2. Covered(Region(p), h) \/ InRetention(h, clock)
      BY <1>1, <1>2, <2>5, KeptOrCovered DEF JobInv
    <3>. QED  BY <1>4, <1>5, <3>1, <3>2 DEF Stored
  <2>6. job'[p].at <= job'[p].now /\ job'[p].now <= clock'
    BY <1>1, <1>2, <1>8, <1>9, <2>1 DEF JobInv
  <2>7. Sound(job'[p].new, traffic', clock') /\ Sound(job'[p].read, traffic', clock')
    BY <1>4, <1>6, <1>8, <1>9, <2>1
  <2>8. \A h \in HourStarts : h < FloorHour(job'[p].at) =>
          Covered(Region(p), h)' \/ (h \in Stored(job'[p].new) /\ FloorDay(h) \in job'[p].days)
    BY <1>8, <1>9, <2>3, <2>5
  <2>9. CASE days = {}
    <3>1. CoveredTo(Region(p), job[p].at)'
      BY <1>8, <1>9, <2>2, <2>8, <2>9 DEF CoveredTo
    <3>. QED  BY <1>9, <2>6, <2>7, <2>9, <3>1 DEF JobInv, Writing
  <2>10. CASE days # {}
    <3>1. Day(p)' = First(days)
      BY <1>8, <1>9 DEF Day
    <3>2. \A h \in HourStarts : h < FloorHour(job'[p].at) =>
            Covered(Region(p), h)' \/ InHand(p, h)'
      BY <2>8 DEF InHand
    <3>. HIDE DEF InHand
    <3>. QED
      BY <1>6, <1>8, <1>9, <2>4, <2>6, <2>7, <2>10, <3>1, <3>2 DEF JobInv, Writing
  <2>. QED  BY <2>9, <2>10
<1>11. l \in Steps /\ l # "idle" /\ j # None
  BY <1>7, JobAssumption DEF Steps
<1>. HIDE DEF l
<1>. QED  BY <1>1, <1>3, <1>7, <1>10, <1>11, JobStep DEF TypeOK

LEMMA ReadDayKeeps ==
  ASSUME IInv, NEW p \in Procs, ReadDay(p)
  PROVE  IInv'
<1>. DEFINE read == OfDay(Day(p), hours[Region(p)])
            j    == [job[p] EXCEPT !.read = read]
<1>1. /\ pc[p] = "reading" /\ TypeOK /\ JobInv(p)
      /\ UNCHANGED <<world, files, refreshes, record, faults>>
      /\ pc' = [pc EXCEPT ![p] = "merging"]
  BY DEF ReadDay, Goto, IInv
<1>2. job[p] \in JobType /\ Region(p) \in Regions
  BY <1>1, JobIs
<1>3. job' = [job EXCEPT ![p] = j]
  BY <1>1, <1>2 DEF ReadDay, TypeOK, JobType
<1>4. /\ read \in HoursType /\ Sound(read, traffic, clock)
      /\ \A h \in Stored(read) : h \in InDay(Day(p))
  <2>1. hours[Region(p)] \in HoursType /\ Sound(hours[Region(p)], traffic, clock)
    BY <1>1, <1>2 DEF TypeOK, IInv, HoursInv
  <2>. QED  BY <2>1, OfDayIsSound
<1>. HIDE DEF read
<1>5. j \in JobType
  BY <1>2, <1>4 DEF JobType
<1>6. /\ j.at = job[p].at /\ j.now = job[p].now /\ j.new = job[p].new /\ j.days = job[p].days
      /\ j.read = read /\ j.region = job[p].region
  BY <1>2 DEF JobType
<1>. HIDE DEF j
<1>7. job'[p] = j /\ pc'[p] = "merging"
  BY <1>1, <1>3 DEF TypeOK
<1>8. JobInv(p)'
  <2>1. UNCHANGED <<clock, traffic, newest, excused>>
    BY <1>1 DEF world, record
  <2>2. Region(p)' = Region(p) /\ Day(p)' = Day(p)
    BY <1>6, <1>7 DEF Region, Day
  <2>3. \A h \in HourStarts : Covered(Region(p), h)' <=> Covered(Region(p), h)
    BY <2>1, <2>2 DEF Covered
  <2>4. \A h \in HourStarts : InHand(p, h)' <=> InHand(p, h)
    BY <1>1, <1>6, <1>7 DEF InHand
  <2>. HIDE DEF InHand
  <2>. QED
    BY <1>1, <1>4, <1>6, <1>7, <2>1, <2>2, <2>3, <2>4 DEF JobInv, Writing
<1>. QED  BY <1>1, <1>3, <1>5, <1>8, JobStep, JobAssumption DEF Steps, TypeOK, IInv

LEMMA ReadStateKeeps ==
  ASSUME IInv, NEW p \in Procs, ReadState(p)
  PROVE  IInv'
<1>. DEFINE previous == FetchedAt(Region(p))
            j == [job[p] EXCEPT !.previous = previous]
<1>1. /\ pc[p] = "recording" /\ TypeOK /\ JobInv(p)
      /\ UNCHANGED <<world, files, refreshes, record, faults>>
      /\ pc' = [pc EXCEPT ![p] = "stating"]
  BY DEF ReadState, Goto, IInv
<1>2. job[p] \in JobType /\ Region(p) \in Regions
  BY <1>1, JobIs
<1>3. job' = [job EXCEPT ![p] = j]
  BY <1>1, <1>2 DEF ReadState, TypeOK, JobType
<1>4. /\ previous \in Time \cup {None}
      /\ previous # None => previous <= clock /\ CoveredTo(Region(p), previous)
  <2>1. CASE state[Region(p)] = None
    BY <2>1 DEF FetchedAt
  <2>2. CASE state[Region(p)] # None
    BY <1>1, <1>2, <2>2 DEF FetchedAt, TypeOK, IInv, StateInv
  <2>. QED  BY <2>1, <2>2
<1>. HIDE DEF previous
<1>5. j \in JobType
  BY <1>2, <1>4 DEF JobType
<1>6. /\ j.at = job[p].at /\ j.now = job[p].now /\ j.new = job[p].new
      /\ j.read = job[p].read /\ j.region = job[p].region /\ j.previous = previous
  BY <1>2 DEF JobType
<1>. HIDE DEF j
<1>7. job'[p] = j /\ pc'[p] = "stating"
  BY <1>1, <1>3 DEF TypeOK
<1>8. JobInv(p)'
  <2>1. UNCHANGED <<clock, traffic, newest, excused>>
    BY <1>1 DEF world, record
  <2>2. Region(p)' = Region(p)
    BY <1>6, <1>7 DEF Region
  <2>3. \A t : CoveredTo(Region(p), t) => CoveredTo(Region(p), t)'
    BY <2>1, <2>2 DEF Covered, CoveredTo
  <2>4. CoveredTo(Region(p), job[p].at)
    BY <1>1 DEF JobInv
  <2>5. CoveredTo(Region(p), job[p].at)'
    BY <1>6, <1>7, <2>2, <2>3, <2>4 DEF CoveredTo
  <2>6. previous # None => CoveredTo(Region(p), job[p].previous)'
    BY <1>4, <1>6, <1>7, <2>2, <2>3 DEF CoveredTo
  <2>. HIDE DEF CoveredTo
  <2>. QED
    BY <1>1, <1>4, <1>6, <1>7, <2>1, <2>5, <2>6 DEF JobInv, Writing
<1>. QED  BY <1>1, <1>3, <1>5, <1>8, JobStep, JobAssumption DEF Steps, TypeOK, IInv

(* What a day's write leaves to do: the days that are left, and in hand    *)
(* what belongs to them.                                                   *)
Left(p)  == job[p].days \ {Day(p)}
Still(p) == IF Left(p) = {} THEN NoHours ELSE job[p].new

LEMMA NextDayTypes ==
  ASSUME TypeOK, NEW p \in Procs, pc[p] = "merging", NextDay(p)
  PROVE  /\ pc' \in [Procs -> Steps] /\ job' \in [Procs -> JobType \cup {None}]
         /\ \A q \in Procs : pc'[q] = "idle" <=> job'[q] = None
         /\ \A q \in Procs : q # p => pc'[q] = pc[q] /\ job'[q] = job[q]
         /\ Region(p)' = Region(p)
         /\ pc'[p] = IF Left(p) = {} THEN "recording" ELSE "reading"
         /\ job'[p].at = job[p].at /\ job'[p].now = job[p].now
         /\ job'[p].days = Left(p) /\ job'[p].read = NoHours /\ job'[p].new = Still(p)
<1>. DEFINE l == IF Left(p) = {} THEN "recording" ELSE "reading"
            j == [job[p] EXCEPT !.days = Left(p), !.read = NoHours, !.new = Still(p)]
<1>1. /\ job[p] \in JobType /\ job[p].new \in HoursType
      /\ job[p].days \in SUBSET DayStarts
  BY JobIs
<1>2. pc' = [pc EXCEPT ![p] = l] /\ job' = [job EXCEPT ![p] = j]
  BY <1>1 DEF NextDay, Goto, TypeOK, JobType, Left, Still
<1>3. /\ Left(p) \in SUBSET DayStarts /\ Still(p) \in HoursType /\ NoHours \in HoursType
      /\ l \in Steps /\ l # "idle"
  BY <1>1, NoHoursAreSound DEF Left, Still, Steps
<1>4. j \in JobType
  BY <1>1, <1>3 DEF JobType
<1>5. /\ j.at = job[p].at /\ j.now = job[p].now /\ j.new = Still(p) /\ j.read = NoHours
      /\ j.days = Left(p) /\ j.region = job[p].region
  BY <1>1 DEF JobType
<1>6. j # None
  BY <1>4, JobAssumption
<1>. HIDE DEF j, l
<1>7. job'[p] = j /\ pc'[p] = l
  BY <1>2 DEF TypeOK
<1>8. \A q \in Procs : q # p => pc'[q] = pc[q] /\ job'[q] = job[q]
  BY <1>2 DEF TypeOK
<1>9. pc' \in [Procs -> Steps] /\ job' \in [Procs -> JobType \cup {None}]
  BY <1>2, <1>3, <1>4 DEF TypeOK
<1>10. \A q \in Procs : pc'[q] = "idle" <=> job'[q] = None
  BY <1>3, <1>6, <1>7, <1>8 DEF TypeOK
<1>11. Region(p)' = Region(p)
  BY <1>5, <1>7 DEF Region
<1>. QED  BY <1>5, <1>7, <1>8, <1>9, <1>10, <1>11 DEF l

LEMMA NextDayKeeps ==
  ASSUME IInv, NEW p \in Procs, pc[p] = "merging", NextDay(p),
         Onward, UNCHANGED <<clock, traffic>>,
         \A h \in HourStarts :
           h \in Stored(job[p].new) /\ h < FloorHour(job[p].at) /\ FloorDay(h) = Day(p)
             => Covered(Region(p), h)'
  PROVE  JobInv(p)'
<1>1. TypeOK /\ JobInv(p)
  BY DEF IInv
<1>2. /\ Region(p) \in Regions /\ Region(p)' = Region(p)
      /\ pc'[p] = IF Left(p) = {} THEN "recording" ELSE "reading"
      /\ job'[p].at = job[p].at /\ job'[p].now = job[p].now
      /\ job'[p].days = Left(p) /\ job'[p].read = NoHours /\ job'[p].new = Still(p)
  BY <1>1, JobIs, NextDayTypes
<1>3. Sound(Still(p), traffic, clock) /\ Sound(NoHours, traffic, clock)
  BY <1>1, NoHoursAreSound DEF JobInv, Still
<1>4. \A h \in Stored(Still(p)) : Still(p)[h].asof = job[p].at
  BY <1>1, NoHoursAreSound DEF JobInv, Writing, Still
<1>5. ASSUME NEW h \in HourStarts, h < FloorHour(job[p].at)
      PROVE  Covered(Region(p), h)' \/ (h \in Stored(Still(p)) /\ FloorDay(h) \in Left(p))
  <2>1. Covered(Region(p), h) \/ (h \in Stored(job[p].new) /\ FloorDay(h) \in job[p].days)
    BY <1>1, <1>5 DEF JobInv, Writing, InHand
  <2>2. CASE Covered(Region(p), h)
    <3>1. PICK r \in Regions : r = Region(p)
      BY <1>2
    <3>2. Covered(r, h)'
      BY <2>2, <3>1 DEF Onward
    <3>. QED  BY <1>2, <3>1, <3>2 DEF Covered
  <2>3. CASE h \in Stored(job[p].new) /\ FloorDay(h) \in job[p].days
    BY <1>5, <2>3 DEF Left, Still
  <2>. QED  BY <2>1, <2>2, <2>3
<1>6. job'[p].at <= job'[p].now /\ job'[p].now <= clock'
  BY <1>1, <1>2 DEF JobInv
<1>7. Sound(job'[p].new, traffic', clock') /\ Sound(job'[p].read, traffic', clock')
  BY <1>2, <1>3
<1>8. CASE Left(p) = {}
  <2>1. CoveredTo(Region(p), job[p].at)'
    BY <1>2, <1>5, <1>8 DEF CoveredTo
  <2>. QED  BY <1>2, <1>6, <1>7, <1>8, <2>1 DEF JobInv, Writing
<1>9. CASE Left(p) # {}
  <2>1. \A h \in HourStarts : h < FloorHour(job'[p].at) =>
          Covered(Region(p), h)' \/ InHand(p, h)'
    BY <1>2, <1>5 DEF InHand
  <2>. HIDE DEF InHand
  <2>. QED  BY <1>2, <1>4, <1>6, <1>7, <1>9, <2>1 DEF JobInv, Writing
<1>. QED  BY <1>8, <1>9

(* The hours of the day as they will be, all of them true.                 *)
LEMMA UpdatedIs ==
  ASSUME IInv, NEW p \in Procs, pc[p] = "merging"
  PROVE  /\ Updated(p) \in HoursType /\ Sound(Updated(p), traffic, clock)
         /\ \A h \in Stored(Updated(p)) : h \in HourStarts /\ h \in InDay(Day(p))
         /\ \A h \in HourStarts :
              h \in Stored(job[p].new) /\ h \in InDay(Day(p)) /\ InRetention(h, job[p].now)
                => h \in Stored(Updated(p)) /\ Updated(p)[h] = job[p].new[h]
         /\ \A h \in HourStarts : h \in InDay(Day(p)) =>
              Updated(p)[h] = IF ~InRetention(h, job[p].now) THEN None
                              ELSE IF job[p].new[h] # None THEN job[p].new[h]
                              ELSE job[p].read[h]
<1>. DEFINE day    == OfDay(Day(p), job[p].new)
            merged == Merge(job[p].read, day)
<1>1. TypeOK /\ JobInv(p)
  BY DEF IInv
<1>2. /\ job[p].new \in HoursType /\ job[p].read \in HoursType
      /\ Sound(job[p].new, traffic, clock) /\ Sound(job[p].read, traffic, clock)
      /\ \A h \in Stored(job[p].read) : h \in InDay(Day(p))
  BY <1>1, JobIs DEF JobInv
<1>3. /\ day \in HoursType /\ Sound(day, traffic, clock)
      /\ \A h \in Stored(day) : h \in InDay(Day(p))
      /\ \A h \in HourStarts : h \in InDay(Day(p)) => day[h] = job[p].new[h]
  BY <1>2, OfDayIsSound
<1>. HIDE DEF day
<1>4. /\ merged \in HoursType /\ Sound(merged, traffic, clock)
      /\ \A h \in HourStarts : merged[h] = IF day[h] # None THEN day[h] ELSE job[p].read[h]
  <2>1. merged \in HoursType /\ Sound(merged, traffic, clock)
    BY <1>2, <1>3, MergeIsSound
  <2>. QED  BY <2>1 DEF Merge
<1>5. Updated(p) = Prune(merged, job[p].now)
  BY DEF Updated, DayMerged, day
<1>. HIDE DEF merged
<1>6. /\ Updated(p) \in HoursType /\ Sound(Updated(p), traffic, clock)
      /\ \A h \in HourStarts :
           Updated(p)[h] = IF InRetention(h, job[p].now) THEN merged[h] ELSE None
  BY <1>4, <1>5, PruneIsSound
<1>. QED  BY <1>2, <1>3, <1>4, <1>6 DEF Stored

LEMMA WriteDayKeeps ==
  ASSUME IInv, NEW p \in Procs, WriteDay(p)
  PROVE  IInv'
<1>0. PICK r \in Regions : r = Region(p)
  BY JobIs DEF WriteDay, IInv
<1>. DEFINE updated == Updated(p)
            written == Fitting(updated)
            Newest(h) == IF h \in Stored(updated) THEN Later(newest[r][h], updated[h].asof)
                         ELSE newest[r][h]
            Hour(h) == IF h \in InDay(Day(p)) THEN written[h] ELSE hours[r][h]
<1>1. /\ pc[p] = "merging" /\ TypeOK /\ JobInv(p) /\ NextDay(p)
      /\ hours' = [hours EXCEPT ![r] = [h \in HourStarts |-> Hour(h)]]
      /\ newest' = [newest EXCEPT ![r] = [h \in HourStarts |-> Newest(h)]]
      /\ dropped' = [dropped EXCEPT ![r] = (@ \cup Stored(updated)) \ Stored(written)]
      /\ UNCHANGED <<clock, traffic, gone, state, refreshes, excused, overlapped, faults>>
  BY <1>0 DEF WriteDay, IInv, TypeOK, world
<1>2. /\ r \in Regions /\ job[p].at \in Nat /\ job[p].now \in Nat
      /\ clock \in Nat
      /\ job[p].new \in HoursType
  BY <1>1, JobIs
<1>3. /\ updated \in HoursType /\ Sound(updated, traffic, clock)
      /\ \A h \in Stored(updated) : h \in HourStarts /\ h \in InDay(Day(p))
      /\ \A h \in HourStarts :
           h \in Stored(job[p].new) /\ h \in InDay(Day(p)) /\ InRetention(h, job[p].now)
             => h \in Stored(updated) /\ updated[h] = job[p].new[h]
  BY <1>1, UpdatedIs
<1>. HIDE DEF updated
<1>4. /\ written \in HoursType /\ Sound(written, traffic, clock)
      /\ \A h \in HourStarts : written[h] \in {None, updated[h]}
  BY <1>3, FittingIsSound
<1>. HIDE DEF written
<1>5. \A h \in Stored(updated) : updated[h].asof \in Time
  BY <1>3 DEF HoursType, Bucket, Stored
<1>6. \A h \in HourStarts : newest[r][h] \in Time \cup {None}
  BY <1>1, <1>2 DEF TypeOK
<1>7. \A h \in HourStarts :
        /\ Newest(h) \in Time \cup {None}
        /\ newest[r][h] # None => Newest(h) # None /\ newest[r][h] <= Newest(h)
        /\ h \in Stored(updated) => Newest(h) # None /\ updated[h].asof <= Newest(h)
  <2>1. SUFFICES ASSUME NEW h \in HourStarts
                 PROVE  /\ Newest(h) \in Time \cup {None}
                        /\ newest[r][h] # None => Newest(h) # None /\ newest[r][h] <= Newest(h)
                        /\ h \in Stored(updated) => Newest(h) # None /\ updated[h].asof <= Newest(h)
    OBVIOUS
  <2>2. CASE h \in Stored(updated)
    <3>1. Newest(h) = Later(newest[r][h], updated[h].asof)
      BY <2>2
    <3>2. newest[r][h] \in Time \cup {None} /\ updated[h].asof \in Time
      BY <1>5, <1>6, <2>2
    <3>. HIDE DEF Newest
    <3>. QED  BY <2>2, <3>1, <3>2, LaterIs, NoneIsNoBucket
  <2>3. CASE h \notin Stored(updated)
    <3>1. Newest(h) = newest[r][h]
      BY <2>3
    <3>. HIDE DEF Newest
    <3>. QED  BY <1>6, <2>3, <3>1, NoneIsNoBucket DEF Time
  <2>. QED  BY <2>2, <2>3
<1>8. \A h \in HourStarts :
        /\ Hour(h) \in Bucket \cup {None}
        /\ Hour(h) # None => \/ h \in Stored(updated) /\ Hour(h) = updated[h]
                             \/ /\ h \in Stored(hours[r]) /\ Hour(h) = hours[r][h]
                                /\ h \notin Stored(updated)
  BY <1>1, <1>2, <1>3, <1>4 DEF TypeOK, HoursType, Stored
<1>. HIDE DEF Newest, Hour
<1>9. /\ \A h \in HourStarts : newest'[r][h] = Newest(h) /\ hours'[r][h] = Hour(h)
      /\ \A s \in Regions : s # r => newest'[s] = newest[s] /\ hours'[s] = hours[s]
  BY <1>1, <1>2 DEF TypeOK
<1>10. /\ hours' \in [Regions -> HoursType] /\ dropped' \in [Regions -> SUBSET HourStarts]
       /\ newest' \in [Regions -> [HourStarts -> Time \cup {None}]]
  <2>1. /\ [h \in HourStarts |-> Hour(h)] \in HoursType
        /\ [h \in HourStarts |-> Newest(h)] \in [HourStarts -> Time \cup {None}]
    BY <1>7, <1>8 DEF HoursType
  <2>2. Stored(updated) \subseteq HourStarts
    BY <1>3
  <2>. QED  BY <1>1, <1>2, <2>1, <2>2 DEF TypeOK
<1>11. Onward /\ TypeOK'
  <2>1. pc' \in [Procs -> Steps] /\ job' \in [Procs -> JobType \cup {None}]
        /\ \A q \in Procs : pc'[q] = "idle" <=> job'[q] = None
    BY <1>1, NextDayTypes
  <2>2. TypeOK'
    BY <1>1, <1>10, <2>1 DEF TypeOK
  <2>3. ASSUME NEW s \in Regions, NEW h \in HourStarts, Covered(s, h)
        PROVE  Covered(s, h)'
    <3>1. /\ excused[s] \subseteq excused'[s]
          /\ newest[s][h] # None => newest'[s][h] # None /\ newest[s][h] <= newest'[s][h]
      <4>1. newest[s][h] # None => newest[s][h] \in Nat
        BY <1>1 DEF TypeOK, Time
      <4>2. newest[s][h] # None => newest'[s][h] # None /\ newest[s][h] <= newest'[s][h]
        BY <1>7, <1>9, <4>1
      <4>. QED  BY <1>1, <4>2
    <3>. QED  BY <1>1, <1>2, <2>2, <2>3, <3>1, CoveredStays
  <2>. QED  BY <1>1, <1>2, <2>2, <2>3 DEF Onward
<1>12. HoursInv'
  <2>1. SUFFICES ASSUME NEW s \in Regions, NEW h \in HourStarts, hours'[s][h] # None
                 PROVE  Right(h, hours'[s][h], traffic, clock)
    BY <1>1 DEF HoursInv, Sound, Stored
  <2>2. CASE s # r
    BY <1>9, <2>1, <2>2 DEF IInv, HoursInv, Sound, Stored
  <2>3. CASE s = r /\ h \in Stored(updated) /\ Hour(h) = updated[h]
    BY <1>3, <1>9, <2>3 DEF Sound
  <2>4. CASE s = r /\ h \in Stored(hours[r]) /\ Hour(h) = hours[r][h]
    BY <1>9, <2>4 DEF IInv, HoursInv, Sound
  <2>. QED  BY <1>8, <1>9, <2>1, <2>2, <2>3, <2>4
<1>13. ASSUME NEW h \in HourStarts, h \in Stored(job[p].new), h < FloorHour(job[p].at),
              FloorDay(h) = Day(p)
       PROVE  Covered(r, h)'
  <2>1. h \in InDay(Day(p)) /\ h \in Nat /\ h + HourTicks <= job[p].at
    BY <1>2, <1>13, FloorDayIs, HourStartsAre, NotBefore
  <2>2. CASE Covered(r, h)
    BY <1>2, <1>11, <2>2 DEF Onward
  <2>3. CASE InRetention(h, job[p].now)
    <3>1. h \in Stored(updated) /\ updated[h].asof = job[p].at
      BY <1>1, <1>3, <1>13, <2>1, <2>3 DEF JobInv, Writing
    <3>2. newest'[r][h] # None /\ job[p].at <= newest'[r][h] /\ newest'[r][h] \in Nat
      BY <1>7, <1>9, <3>1 DEF Time
    <3>. QED  BY <1>2, <2>1, <3>2, Ticks DEF Covered
  <2>. QED  BY <1>1, <1>2, <1>13, <2>2, <2>3, KeptOrCovered DEF JobInv
<1>14. /\ JobInv(p)'
       /\ \A q \in Procs : q # p => pc'[q] = pc[q] /\ job'[q] = job[q]
  <2>1. Region(p)' = Region(p)
    BY <1>1, NextDayTypes
  <2>2. \A h \in HourStarts :
          h \in Stored(job[p].new) /\ h < FloorHour(job[p].at) /\ FloorDay(h) = Day(p)
            => Covered(Region(p), h)'
    BY <1>0, <1>13, <2>1 DEF Covered
  <2>. QED  BY <1>1, <1>11, <2>2, NextDayTypes, NextDayKeeps
<1>15. StateInv'
  BY <1>1, <1>11, StateStays
<1>. QED  BY <1>1, <1>11, <1>12, <1>14, <1>15, ProcessStep

LEMMA WriteDayFailsKeeps ==
  ASSUME IInv, NEW p \in Procs, WriteDayFails(p)
  PROVE  IInv'
<1>0. PICK r \in Regions : r = Region(p)
  BY JobIs DEF WriteDayFails, IInv
<1>. DEFINE lost == InDay(Day(p)) \cap Stored(job[p].new)
<1>1. /\ pc[p] = "merging" /\ TypeOK /\ JobInv(p) /\ NextDay(p)
      /\ excused' = [excused EXCEPT ![r] = @ \cup lost]
      /\ faults' = faults \cup {"day"}
      /\ UNCHANGED <<clock, traffic, gone, hours, state, refreshes, newest, dropped, overlapped>>
  BY <1>0 DEF WriteDayFails, IInv, world, files
<1>2. lost \subseteq HourStarts
  BY DEF Stored
<1>. HIDE DEF lost
<1>3. /\ \A s \in Regions : excused[s] \subseteq excused'[s]
      /\ lost \subseteq excused'[r]
      /\ excused' \in [Regions -> SUBSET HourStarts]
  BY <1>1, <1>2 DEF TypeOK
<1>4. TypeOK'
  <2>1. pc' \in [Procs -> Steps] /\ job' \in [Procs -> JobType \cup {None}]
        /\ \A q \in Procs : pc'[q] = "idle" <=> job'[q] = None
    BY <1>1, NextDayTypes
  <2>. QED  BY <1>1, <1>3, <2>1 DEF TypeOK
<1>5. Onward
  BY <1>1, <1>3, <1>4 DEF Onward, Covered, TypeOK, Time
<1>6. HoursInv'
  BY <1>1, <1>3 DEF IInv, HoursInv
<1>7. Region(p)' = Region(p)
  BY <1>1, NextDayTypes
<1>8. \A h \in HourStarts :
        h \in Stored(job[p].new) /\ h < FloorHour(job[p].at) /\ FloorDay(h) = Day(p)
          => Covered(Region(p), h)'
  BY <1>0, <1>3, <1>7, FloorDayIs DEF lost, Covered
<1>9. /\ JobInv(p)'
      /\ \A q \in Procs : q # p => pc'[q] = pc[q] /\ job'[q] = job[q]
  BY <1>1, <1>5, <1>8, NextDayTypes, NextDayKeeps
<1>10. StateInv'
  BY <1>1, <1>5, StateStays
<1>. QED  BY <1>1, <1>5, <1>6, <1>9, <1>10, ProcessStep

-----------------------------------------------------------------------------
LEMMA StatedTypes ==
  ASSUME TypeOK, NEW p \in Procs, pc[p] = "stating", Stated(p)
  PROVE  /\ pc' \in [Procs -> Steps] /\ job' \in [Procs -> JobType \cup {None}]
         /\ \A q \in Procs : pc'[q] = "idle" <=> job'[q] = None
         /\ \A q \in Procs : q # p => pc'[q] = pc[q] /\ job'[q] = job[q]
         /\ pc'[p] = "listing"
         /\ job'[p].at = job[p].now /\ job'[p].now = job[p].now
         /\ job'[p].new = job[p].new /\ job'[p].read = job[p].read
         /\ Region(p)' = Region(p)
<1>. DEFINE j == [job[p] EXCEPT !.at = job[p].now, !.previous = None]
<1>1. job[p] \in JobType /\ job[p].now \in Time
  BY JobIs
<1>2. pc' = [pc EXCEPT ![p] = "listing"] /\ job' = [job EXCEPT ![p] = j]
  BY <1>1 DEF Stated, Goto, TypeOK, JobType
<1>3. j \in JobType
  BY <1>1 DEF JobType
<1>4. /\ j.at = job[p].now /\ j.now = job[p].now /\ j.new = job[p].new /\ j.read = job[p].read
      /\ j # None /\ j.region = job[p].region
  BY <1>1, <1>3, JobAssumption DEF JobType
<1>. HIDE DEF j
<1>5. job'[p] = j /\ pc'[p] = "listing"
  BY <1>2 DEF TypeOK
<1>6. \A q \in Procs : q # p => pc'[q] = pc[q] /\ job'[q] = job[q]
  BY <1>2 DEF TypeOK
<1>7. pc' \in [Procs -> Steps] /\ job' \in [Procs -> JobType \cup {None}]
  BY <1>2, <1>3 DEF TypeOK, Steps
<1>8. \A q \in Procs : pc'[q] = "idle" <=> job'[q] = None
  BY <1>4, <1>5, <1>6 DEF TypeOK
<1>9. Region(p)' = Region(p)
  BY <1>4, <1>5 DEF Region
<1>. QED  BY <1>4, <1>5, <1>6, <1>7, <1>8, <1>9

(* With the hours written, or not, only the sweep is left.                 *)
LEMMA StatedKeeps ==
  ASSUME IInv, NEW p \in Procs, pc[p] = "stating", Stated(p), UNCHANGED <<clock, traffic>>
  PROVE  JobInv(p)'
<1>1. TypeOK /\ JobInv(p)
  BY DEF IInv
<1>2. job[p].now \in Nat /\ clock \in Nat
  BY <1>1, JobIs
<1>. QED  BY <1>1, <1>2, StatedTypes DEF JobInv, Writing

LEMMA WriteStateKeeps ==
  ASSUME IInv, NEW p \in Procs, WriteState(p)
  PROVE  IInv'
<1>0. PICK r \in Regions : r = Region(p)
  BY JobIs DEF WriteState, IInv
<1>. DEFINE fetched == Later(job[p].previous, job[p].at)
<1>1. /\ pc[p] = "stating" /\ TypeOK /\ JobInv(p) /\ Stated(p)
      /\ state' = [state EXCEPT ![r] = [fetched |-> fetched, written |-> clock]]
      /\ UNCHANGED <<clock, traffic, gone, hours, refreshes, newest, excused, dropped, overlapped, faults>>
  BY <1>0 DEF WriteState, IInv, world, record
<1>2. /\ job[p].previous \in Time \cup {None} /\ job[p].at \in Time /\ job[p].at <= clock
      /\ clock \in Time
  <2>1. job[p] \in JobType
    BY <1>1, JobIs
  <2>. QED  BY <1>1, <2>1 DEF JobType, TypeOK, JobInv, Time
<1>3. /\ fetched \in Time /\ (fetched = job[p].previous \/ fetched = job[p].at)
  BY <1>2, LaterIs
<1>. HIDE DEF fetched
<1>4. fetched <= clock /\ CoveredTo(r, fetched)
  <2>1. CoveredTo(r, job[p].at)
    BY <1>0, <1>1 DEF JobInv
  <2>2. job[p].previous # None => job[p].previous <= clock /\ CoveredTo(r, job[p].previous)
    BY <1>0, <1>1 DEF JobInv
  <2>. QED  BY <1>2, <1>3, <2>1, <2>2, NoneIsNoBucket
<1>5. TypeOK'
  <2>1. pc' \in [Procs -> Steps] /\ job' \in [Procs -> JobType \cup {None}]
        /\ \A q \in Procs : pc'[q] = "idle" <=> job'[q] = None
    BY <1>1, StatedTypes
  <2>2. state' \in [Regions -> [fetched : Time, written : Time] \cup {None}]
    BY <1>1, <1>2, <1>3 DEF TypeOK
  <2>. QED  BY <1>1, <2>1, <2>2 DEF TypeOK
<1>6. Onward
  BY <1>1, <1>5 DEF Onward, Covered, TypeOK, Time
<1>7. HoursInv'
  BY <1>1 DEF IInv, HoursInv
<1>8. StateInv'
  <2>1. SUFFICES ASSUME NEW s \in Regions, state'[s] # None
                 PROVE  state'[s].fetched <= clock /\ CoveredTo(s, state'[s].fetched)
    BY <1>1 DEF StateInv, CoveredTo, Covered
  <2>2. CASE s = r
    <3>1. state'[s].fetched = fetched
      BY <1>1, <2>2 DEF TypeOK
    <3>. QED  BY <1>4, <2>2, <3>1
  <2>3. CASE s # r
    <3>1. state'[s] = state[s]
      BY <1>1, <2>3 DEF TypeOK
    <3>. QED  BY <2>1, <3>1 DEF IInv, StateInv
  <2>. QED  BY <2>2, <2>3
<1>9. /\ JobInv(p)'
      /\ \A q \in Procs : q # p => pc'[q] = pc[q] /\ job'[q] = job[q]
  BY <1>1, StatedTypes, StatedKeeps
<1>. QED  BY <1>1, <1>6, <1>7, <1>8, <1>9, ProcessStep

LEMMA WriteStateFailsKeeps ==
  ASSUME IInv, NEW p \in Procs, WriteStateFails(p)
  PROVE  IInv'
<1>1. /\ pc[p] = "stating" /\ TypeOK /\ Stated(p) /\ faults' = faults \cup {"state"}
      /\ UNCHANGED <<clock, traffic, gone, hours, state, refreshes, newest, excused, dropped, overlapped>>
  BY DEF WriteStateFails, IInv, world, files, record
<1>2. TypeOK'
  <2>1. pc' \in [Procs -> Steps] /\ job' \in [Procs -> JobType \cup {None}]
        /\ \A q \in Procs : pc'[q] = "idle" <=> job'[q] = None
    BY <1>1, StatedTypes
  <2>. QED  BY <1>1, <2>1 DEF TypeOK
<1>3. Onward
  BY <1>1, <1>2 DEF Onward, Covered, TypeOK, Time
<1>4. HoursInv'
  BY <1>1 DEF IInv, HoursInv
<1>5. StateInv'
  BY <1>1, <1>3, StateStays
<1>6. /\ JobInv(p)'
      /\ \A q \in Procs : q # p => pc'[q] = pc[q] /\ job'[q] = job[q]
  BY <1>1, StatedTypes, StatedKeeps
<1>. QED  BY <1>1, <1>3, <1>4, <1>5, <1>6, ProcessStep

LEMMA ListFilesKeeps ==
  ASSUME IInv, NEW p \in Procs, ListFiles(p)
  PROVE  IInv'
<1>1. PICK doomed, dead :
        /\ doomed \subseteq Regions \X DayStarts /\ dead \subseteq Regions
        /\ job' = [job EXCEPT ![p] = [job[p] EXCEPT !.doomed = doomed, !.dead = dead]]
  <2>1. PICK order \in Orders :
          LET doomed == DoomedDays(order, job[p].now)
          IN job' = [job EXCEPT ![p].doomed = doomed,
                                ![p].dead = DeadRegions(doomed, job[p].now)]
    BY DEF ListFiles
  <2>. DEFINE doomed == DoomedDays(order, job[p].now)
              dead == DeadRegions(doomed, job[p].now)
  <2>2. doomed \subseteq Regions \X DayStarts
    BY DaysOfAre DEF DoomedDays
  <2>3. dead \subseteq Regions
    BY DEF DeadRegions
  <2>4. job[p] \in JobType
    BY JobIs DEF ListFiles, IInv
  <2>5. job' = [job EXCEPT ![p] = [job[p] EXCEPT !.doomed = doomed, !.dead = dead]]
    <3>1. job' = [job EXCEPT ![p].doomed = doomed, ![p].dead = dead]
      BY <2>1
    <3>. HIDE DEF doomed, dead
    <3>. QED  BY <2>4, <3>1 DEF JobType, IInv, TypeOK
  <2>. HIDE DEF doomed, dead
  <2>. QED  BY <2>2, <2>3, <2>5
<1>. DEFINE j == [job[p] EXCEPT !.doomed = doomed, !.dead = dead]
<1>2. /\ pc[p] = "listing" /\ TypeOK /\ JobInv(p)
      /\ pc' = [pc EXCEPT ![p] = "sweeping"]
      /\ UNCHANGED <<world, files, refreshes, record, faults>>
  BY DEF ListFiles, Goto, IInv
<1>3. job[p] \in JobType
  BY <1>2, JobIs
<1>4. j \in JobType
  BY <1>1, <1>3 DEF JobType
<1>5. /\ j.at = job[p].at /\ j.now = job[p].now /\ j.new = job[p].new /\ j.read = job[p].read
  BY <1>3 DEF JobType
<1>. HIDE DEF j
<1>6. job' = [job EXCEPT ![p] = j]
  BY <1>1 DEF j
<1>7. job'[p] = j /\ pc'[p] = "sweeping"
  BY <1>2, <1>6 DEF TypeOK
<1>8. JobInv(p)'
  BY <1>2, <1>5, <1>7 DEF JobInv, Writing, world
<1>. QED  BY <1>2, <1>4, <1>6, <1>8, JobStep, JobAssumption DEF Steps, TypeOK, IInv

LEMMA SweepKeeps ==
  ASSUME IInv, NEW p \in Procs, Sweep(p)
  PROVE  IInv'
<1>1. /\ pc[p] = "sweeping" /\ TypeOK
      /\ pc' = [pc EXCEPT ![p] = "idle"] /\ job' = [job EXCEPT ![p] = None]
      /\ dropped' = [r \in Regions |-> dropped[r] \cup {h \in Stored(hours[r]) : Swept(p, r, h)}]
      /\ UNCHANGED <<clock, traffic, gone, refreshes, newest, excused, overlapped, faults>>
  BY DEF Sweep, Goto, IInv, world
<1>2. \A r \in Regions : state'[r] \in {None, state[r]}
  BY DEF Sweep
<1>3. /\ hours' \in [Regions -> HoursType]
      /\ \A r \in Regions, h \in HourStarts : hours'[r][h] \in {None, hours[r][h]}
  BY <1>1 DEF Sweep, TypeOK, HoursType
<1>4. TypeOK'
  <2>1. /\ pc' \in [Procs -> Steps] /\ job' \in [Procs -> JobType \cup {None}]
        /\ \A q \in Procs : pc'[q] = "idle" <=> job'[q] = None
    BY <1>1 DEF TypeOK, Steps
  <2>2. state' \in [Regions -> [fetched : Time, written : Time] \cup {None}]
    BY <1>1, <1>2 DEF Sweep, TypeOK
  <2>3. dropped' \in [Regions -> SUBSET HourStarts]
    BY <1>1 DEF TypeOK, Stored
  <2>. QED  BY <1>1, <1>3, <2>1, <2>2, <2>3 DEF TypeOK
<1>5. Onward
  BY <1>1, <1>4 DEF Onward, Covered, TypeOK, Time
<1>6. HoursInv'
  <2>1. SUFFICES ASSUME NEW r \in Regions, NEW h \in HourStarts, hours'[r][h] # None
                 PROVE  Right(h, hours'[r][h], traffic, clock)
    BY <1>1 DEF HoursInv, Sound, Stored
  <2>. QED  BY <1>3, <2>1 DEF IInv, HoursInv, Sound, Stored
<1>7. StateInv'
  <2>1. SUFFICES ASSUME NEW r \in Regions, state'[r] # None
                 PROVE  state'[r].fetched <= clock /\ CoveredTo(r, state'[r].fetched)
    BY <1>1 DEF StateInv, CoveredTo, Covered
  <2>. QED  BY <1>2, <2>1 DEF IInv, StateInv
<1>8. JobInv(p)'
  BY <1>1, IdleKeeps DEF TypeOK
<1>9. \A q \in Procs : q # p => pc'[q] = pc[q] /\ job'[q] = job[q]
  BY <1>1 DEF TypeOK
<1>. QED  BY <1>1, <1>5, <1>6, <1>7, <1>8, <1>9, ProcessStep

LEMMA StopKeeps ==
  ASSUME IInv, NEW p \in Procs, Fails(p) \/ Kill(p)
  PROVE  IInv'
<1>1. /\ TypeOK /\ faults' \subseteq {"kill", "day", "state"} /\ refreshes' \in 0..MaxRefreshes
      /\ pc' = [pc EXCEPT ![p] = "idle"] /\ job' = [job EXCEPT ![p] = None]
      /\ UNCHANGED <<world, files, record>>
  BY DEF Fails, Kill, Goto, IInv, TypeOK
<1>2. JobInv(p)'
  BY <1>1, IdleKeeps DEF TypeOK
<1>. QED  BY <1>1, <1>2, JobStep DEF Steps

-----------------------------------------------------------------------------
(* The hour lorastats last forgot is older than what it is assumed to keep. *)
LEMMA GoneLater ==
  ASSUME NEW g, NEW now \in Time, NEW then \in Time, now <= then, GoneBy(g, now)
  PROVE  GoneBy(g, then)
<1>1. /\ now - Assumed \in Int /\ then - Assumed \in Int /\ now - Assumed <= then - Assumed
  BY HoursAssumption DEF Time
<1>2. FloorHour(now - Assumed) <= FloorHour(then - Assumed)
  BY <1>1, FloorHourMoves
<1>3. FloorHour(now - Assumed) \in Int /\ FloorHour(then - Assumed) \in Int
  BY <1>1, FloorHourIs
<1>. QED  BY <1>2, <1>3, Ticks DEF GoneBy

LEMMA TickKeeps ==
  ASSUME IInv, Tick
  PROVE  IInv'
<1>1. /\ TypeOK /\ clock \in Time /\ clock' \in Time /\ clock <= clock'
      /\ UNCHANGED <<traffic, gone, hours, state, pc, job, refreshes, newest, excused, dropped, overlapped, faults>>
  BY HoursAssumption DEF Tick, IInv, TypeOK, Time, files, record
<1>2. TypeOK'
  BY <1>1 DEF TypeOK
<1>3. Onward
  <2>1. \A r \in Regions, h \in HourStarts : newest[r][h] # None => newest[r][h] \in Nat
    BY <1>1 DEF TypeOK, Time
  <2>2. ASSUME NEW r \in Regions, NEW h \in HourStarts, Covered(r, h)
        PROVE  Covered(r, h)'
    BY <1>1, <1>2, <2>1, <2>2, CoveredStays
  <2>. QED  BY <1>1, <1>2, <2>2 DEF Onward
<1>4. GoneBy(gone, clock)'
  BY <1>1, GoneLater DEF IInv
<1>5. HoursInv'
  <2>1. ASSUME NEW r \in Regions
        PROVE  Sound(hours[r], traffic, clock')
    BY <1>1, SoundLater DEF TypeOK, IInv, HoursInv, Time
  <2>. QED  BY <1>1, <2>1 DEF IInv, HoursInv
<1>6. StateInv'
  <2>1. ASSUME NEW r \in Regions, state[r] # None
        PROVE  state[r].fetched <= clock' /\ CoveredTo(r, state[r].fetched)'
    <3>1. state[r].fetched \in Time /\ state[r].fetched <= clock /\ CoveredTo(r, state[r].fetched)
      BY <1>1, <2>1 DEF TypeOK, IInv, StateInv
    <3>. QED  BY <1>1, <1>3, <3>1 DEF Onward, CoveredTo, Time
  <2>. QED  BY <1>1, <2>1 DEF StateInv, CoveredTo, Covered
<1>7. \A p \in Procs : JobInv(p)'
  BY <1>1, <1>3, JobWaits DEF IInv
<1>. QED  BY <1>2, <1>4, <1>5, <1>6, <1>7 DEF IInv

LEMMA ForgetKeeps ==
  ASSUME IInv, Forget
  PROVE  IInv'
<1>1. /\ TypeOK /\ gone \in Nat /\ clock \in Time /\ gone <= clock - Assumed /\ gone' = gone + HourTicks
      /\ UNCHANGED <<clock, traffic, hours, state, pc, job, refreshes, newest, excused, dropped, overlapped, faults>>
  BY DEF Forget, IInv, TypeOK, files, record
<1>2. TypeOK'
  BY <1>1, Ticks DEF TypeOK
<1>3. Onward
  BY <1>1, <1>2 DEF Onward, Covered, TypeOK, Time
<1>4. GoneBy(gone, clock)'
  <2>1. Aligned(gone) /\ clock - Assumed \in Int
    BY <1>1, HoursAssumption DEF IInv, GoneBy, Time
  <2>2. gone <= FloorHour(clock - Assumed) /\ FloorHour(clock - Assumed) \in Int
    BY <1>1, <2>1, NotBefore, FloorHourIs
  <2>3. Aligned(gone') /\ gone' <= FloorHour(clock - Assumed) + HourTicks
    BY <1>1, <2>1, <2>2, AlignedMoves, Ticks
  <2>4. gone' \in Nat
    BY <1>1, Ticks
  <2>5. GoneBy(gone', clock)
    BY <2>3, <2>4 DEF GoneBy
  <2>. QED  BY <1>1, <2>5
<1>5. HoursInv' /\ StateInv'
  BY <1>1, <1>3, StateStays DEF IInv, HoursInv
<1>6. \A p \in Procs : JobInv(p)'
  BY <1>1, <1>3, JobWaits DEF IInv
<1>. QED  BY <1>2, <1>4, <1>5, <1>6 DEF IInv

-----------------------------------------------------------------------------
LEMMA StutterKeeps ==
  ASSUME IInv, UNCHANGED vars
  PROVE  IInv'
<1>1. /\ TypeOK' /\ GoneBy(gone, clock)' /\ HoursInv'
      /\ UNCHANGED <<clock, traffic, state, pc, job, newest, excused, dropped, overlapped>>
  BY DEF IInv, vars, TypeOK, GoneBy, HoursInv
<1>2. Onward
  BY <1>1 DEF Onward, Covered, IInv, TypeOK, Time
<1>3. StateInv' /\ \A p \in Procs : JobInv(p)'
  BY <1>1, <1>2, StateStays, JobWaits DEF IInv
<1>. QED  BY <1>1, <1>3 DEF IInv

LEMMA NextKeeps ==
  ASSUME IInv, [Next]_vars
  PROVE  IInv'
<1>1. CASE Tick
  BY <1>1, TickKeeps
<1>2. CASE Forget
  BY <1>2, ForgetKeeps
<1>3. CASE UNCHANGED vars
  BY <1>3, StutterKeeps
<1>4. ASSUME NEW p \in Procs,
             \/ \E r \in Regions : Ask(p, r)
             \/ Fails(p) \/ Begin(p) \/ ReadDay(p) \/ WriteDay(p) \/ WriteDayFails(p)
             \/ ReadState(p) \/ WriteState(p) \/ WriteStateFails(p)
             \/ ListFiles(p) \/ Sweep(p) \/ Kill(p)
      PROVE  IInv'
  BY <1>4, AskKeeps, StopKeeps, BeginKeeps, ReadDayKeeps, WriteDayKeeps, WriteDayFailsKeeps,
     ReadStateKeeps, WriteStateKeeps, WriteStateFailsKeeps, ListFilesKeeps, SweepKeeps
<1>. QED  BY <1>1, <1>2, <1>3, <1>4 DEF Next

LEMMA Invariance == Spec => []IInv
<1>. QED  BY InitIInv, NextKeeps, PTL DEF Spec

(* Every reachable state has the types of the model.                       *)
THEOREM TypeCorrect == Spec => []TypeOK
<1>1. IInv => TypeOK
  BY DEF IInv
<1>. QED  BY <1>1, Invariance, PTL

-----------------------------------------------------------------------------
(* What is stored of an hour that had not begun when two refreshes of its  *)
(* region ran at once: the newest of what was ever written of it, unless a *)
(* bound took it or it is past the retention.  For that, a refresh at work *)
(* has the region to itself, or has nothing of the hour in hand: nothing   *)
(* newer than what it asked for was written meanwhile, and what it read of *)
(* the day is what is stored, or was when a sweep deleted it.              *)
NewestInv ==
  \A r \in Regions, h \in HourStarts : newest[r][h] # None =>
    h <= newest[r][h] /\ newest[r][h] <= clock

Kept(r, h) ==
  /\ hours[r][h] # None => newest[r][h] = hours[r][h].asof
  /\ newest[r][h] # None =>
       hours[r][h] # None \/ h \in dropped[r] \/ h < FloorHour(clock - Retention)

KeptInv == \A r \in Regions, h \in HourStarts : h \notin overlapped[r] => Kept(r, h)

Alone(p, q, r, h) ==
  q # p /\ Writing(q) /\ Region(q) = r => newest[r][h] = None /\ job[p].at < h

ReadAsStored(p, r, h) ==
  pc[p] = "merging" /\ h \in InDay(Day(p)) =>
    /\ hours[r][h] # None => job[p].read[h] = hours[r][h]
    /\ job[p].read[h] # None => newest[r][h] = job[p].read[h].asof

Turn(p, r, h) ==
  Writing(p) /\ Region(p) = r /\ h \notin overlapped[r] =>
    /\ newest[r][h] # None => newest[r][h] <= job[p].at
    /\ \A q \in Procs : Alone(p, q, r, h)
    /\ ReadAsStored(p, r, h)

TurnInv == \A p \in Procs, r \in Regions, h \in HourStarts : Turn(p, r, h)

TInv == NewestInv /\ KeptInv /\ TurnInv

LEMMA InitTInv == Init => TInv
BY DEF Init, TInv, NewestInv, KeptInv, Kept, TurnInv, Turn, Writing, NoHours

LEMMA BucketIsNotNone ==
  ASSUME TypeOK, NEW r \in Regions, NEW h \in HourStarts
  PROVE  /\ newest[r][h] # None => newest[r][h] \in Nat
         /\ hours[r][h] # None => hours[r][h].asof \in Nat /\ hours[r][h].asof # None
BY NoneIsNoBucket DEF TypeOK, HoursType, Bucket, Time

(* A step that writes no hour, and asks for none: each refresh goes on     *)
(* with what it has, or stops, or reads a day as it is stored.             *)
Proceeds(p) ==
  /\ (Writing(p))' => Writing(p) /\ Region(p)' = Region(p) /\ job'[p].at = job[p].at
  /\ pc'[p] = "merging" => \A h \in HourStarts : h \in InDay(Day(p))' =>
       \/ job'[p].read[h] = hours'[Region(p)][h]
       \/ pc[p] = "merging" /\ h \in InDay(Day(p)) /\ job'[p].read[h] = job[p].read[h]

LEMMA TurnsGoOn ==
  ASSUME IInv, IInv', TInv, clock <= clock', UNCHANGED <<newest, overlapped>>,
         \A r \in Regions : dropped[r] \subseteq dropped'[r],
         \A r \in Regions, h \in HourStarts :
           hours'[r][h] = hours[r][h] \/ (hours'[r][h] = None /\ h \in dropped'[r]),
         \A p \in Procs : Proceeds(p)
  PROVE  TInv'
<1>1. TypeOK /\ TypeOK' /\ clock \in Nat /\ clock' \in Nat
  BY DEF IInv, TypeOK, Time
<1>2. NewestInv'
  BY <1>1, BucketIsNotNone, HourStartsAre DEF TInv, NewestInv
<1>3. KeptInv'
  <2>1. SUFFICES ASSUME NEW r \in Regions, NEW h \in HourStarts, h \notin overlapped[r]
                 PROVE  Kept(r, h)'
    BY DEF KeptInv
  <2>2. Kept(r, h)
    BY <2>1 DEF TInv, KeptInv
  <2>3. h < FloorHour(clock - Retention) => h < FloorHour(clock' - Retention)
    <3>1. FloorHour(clock - Retention) <= FloorHour(clock' - Retention)
      BY <1>1, FloorHourMoves, HoursAssumption
    <3>2. FloorHour(clock - Retention) \in Int /\ FloorHour(clock' - Retention) \in Int
      BY <1>1, FloorHourIs, HoursAssumption
    <3>. QED  BY <3>1, <3>2, HourStartsAre
  <2>. QED  BY <2>2, <2>3 DEF Kept
<1>4. TurnInv'
  <2>1. SUFFICES ASSUME NEW p \in Procs, NEW r \in Regions, NEW h \in HourStarts,
                        (Writing(p))', Region(p)' = r, h \notin overlapped[r]
                 PROVE  /\ newest[r][h] # None => newest[r][h] <= job'[p].at
                        /\ \A q \in Procs : Alone(p, q, r, h)'
                        /\ ReadAsStored(p, r, h)'
    BY DEF TurnInv, Turn
  <2>2. Proceeds(p) /\ Turn(p, r, h)
    BY DEF TInv, TurnInv
  <2>3. /\ Writing(p) /\ Region(p) = r /\ job'[p].at = job[p].at
        /\ newest[r][h] # None => newest[r][h] <= job[p].at
        /\ ReadAsStored(p, r, h)
    BY <2>1, <2>2 DEF Proceeds, Turn
  <2>4. ASSUME NEW q \in Procs  PROVE Alone(p, q, r, h)'
    <3>1. Alone(p, q, r, h) /\ Proceeds(q)
      BY <2>1, <2>2, <2>3 DEF Turn
    <3>. QED  BY <2>3, <3>1 DEF Alone, Proceeds
  <2>5. ReadAsStored(p, r, h)'
    <3>1. SUFFICES ASSUME pc'[p] = "merging", h \in InDay(Day(p))'
                   PROVE  /\ hours'[r][h] # None => job'[p].read[h] = hours'[r][h]
                          /\ job'[p].read[h] # None => newest[r][h] = job'[p].read[h].asof
      BY DEF ReadAsStored
    <3>2. CASE job'[p].read[h] = hours'[r][h]
      <4>1. Kept(r, h)'
        BY <1>3, <2>1 DEF KeptInv
      <4>. QED  BY <3>2, <4>1 DEF Kept
    <3>3. CASE pc[p] = "merging" /\ h \in InDay(Day(p)) /\ job'[p].read[h] = job[p].read[h]
      BY <2>3, <3>3 DEF ReadAsStored
    <3>. QED  BY <2>2, <2>3, <3>1, <3>2, <3>3 DEF Proceeds
  <2>. QED  BY <2>3, <2>4, <2>5
<1>. QED  BY <1>2, <1>3, <1>4 DEF TInv

(* A process that stays where it is, or stops writing, proceeds.           *)
LEMMA WaitsProceeds ==
  ASSUME NEW p \in Procs, (pc'[p] = pc[p] /\ job'[p] = job[p]) \/ ~(Writing(p))'
  PROVE  Proceeds(p)
BY DEF Proceeds, Writing, Region, Day

LEMMA OwnStep ==
  ASSUME TypeOK, NEW p \in Procs,
         \/ Fails(p) \/ Begin(p) \/ ReadDay(p) \/ WriteDayFails(p) \/ ReadState(p)
         \/ WriteState(p) \/ WriteStateFails(p) \/ ListFiles(p) \/ Sweep(p) \/ Kill(p)
  PROVE  \A q \in Procs : q # p => pc'[q] = pc[q] /\ job'[q] = job[q]
BY DEF TypeOK, Fails, Begin, ReadDay, WriteDayFails, NextDay, ReadState, WriteState,
       WriteStateFails, Stated, ListFiles, Sweep, Kill, Goto

(* The day read is the day stored.                                         *)
LEMMA BeginProceeds ==
  ASSUME TypeOK, NEW p \in Procs, Begin(p)
  PROVE  Proceeds(p)
<1>. DEFINE new  == Prune(job[p].new, clock)
            days == DaysOf(new)
            read == IF days = {} THEN NoHours ELSE OfDay(First(days), hours[Region(p)])
<1>1. job[p] \in JobType /\ pc[p] = "answered"
  BY JobIs DEF Begin
<1>. HIDE DEF days
<1>2. /\ pc'[p] = IF days = {} THEN "recording" ELSE "merging"
      /\ job'[p].days = days /\ job'[p].read = read /\ job'[p].at = job[p].at
      /\ job'[p].region = job[p].region /\ hours' = hours
  BY <1>1 DEF Begin, Goto, TypeOK, JobType, files, days
<1>. QED  BY <1>1, <1>2 DEF Proceeds, Writing, Region, Day, OfDay

LEMMA ReadDayProceeds ==
  ASSUME TypeOK, NEW p \in Procs, ReadDay(p)
  PROVE  Proceeds(p)
<1>1. job[p] \in JobType /\ pc[p] = "reading"
  BY JobIs DEF ReadDay
<1>2. /\ pc'[p] = "merging" /\ hours' = hours
      /\ job'[p] = [job[p] EXCEPT !.read = OfDay(Day(p), hours[Region(p)])]
  BY <1>1 DEF ReadDay, Goto, TypeOK, files
<1>3. /\ job'[p].days = job[p].days /\ job'[p].at = job[p].at
      /\ job'[p].region = job[p].region /\ job'[p].read = OfDay(Day(p), hours[Region(p)])
  BY <1>1, <1>2 DEF JobType
<1>. QED  BY <1>1, <1>2, <1>3 DEF Proceeds, Writing, Region, Day, OfDay

LEMMA StepProceeds ==
  ASSUME TypeOK, NEW p \in Procs,
         \/ Fails(p) \/ Begin(p) \/ ReadDay(p) \/ WriteDayFails(p) \/ ReadState(p)
         \/ WriteState(p) \/ WriteStateFails(p) \/ ListFiles(p) \/ Sweep(p) \/ Kill(p)
  PROVE  Proceeds(p)
<1>1. CASE WriteDayFails(p)
  <2>1. /\ Writing(p) /\ Region(p)' = Region(p) /\ job'[p].at = job[p].at /\ pc'[p] # "merging"
    BY <1>1, NextDayTypes DEF WriteDayFails, Writing
  <2>. QED  BY <2>1 DEF Proceeds
<1>2. CASE Fails(p) \/ ReadState(p) \/ WriteState(p) \/ WriteStateFails(p)
           \/ ListFiles(p) \/ Sweep(p) \/ Kill(p)
  <2>1. ~(Writing(p))'
    BY <1>2 DEF TypeOK, Writing, Fails, ReadState, WriteState, WriteStateFails, Stated,
                ListFiles, Sweep, Kill, Goto
  <2>. QED  BY <2>1, WaitsProceeds
<1>. QED  BY <1>1, <1>2, BeginProceeds, ReadDayProceeds

LEMMA QuietStepKeeps ==
  ASSUME IInv, IInv', TInv, NEW p \in Procs,
         \/ Fails(p) \/ Begin(p) \/ ReadDay(p) \/ WriteDayFails(p) \/ ReadState(p)
         \/ WriteState(p) \/ WriteStateFails(p) \/ ListFiles(p) \/ Sweep(p) \/ Kill(p)
  PROVE  TInv'
<1>1. TypeOK /\ clock \in Nat
  BY DEF IInv, TypeOK, Time
<1>2. \A q \in Procs : Proceeds(q)
  BY <1>1, OwnStep, StepProceeds, WaitsProceeds
<1>3. UNCHANGED <<clock, newest, overlapped>>
  BY DEF Fails, Begin, ReadDay, WriteDayFails, ReadState, WriteState, WriteStateFails,
         ListFiles, Sweep, Kill, world, record
<1>4. CASE Sweep(p)
  <2>1. /\ hours' = [r \in Regions |-> [h \in HourStarts |->
             IF Swept(p, r, h) THEN None ELSE hours[r][h]]]
        /\ dropped' = [r \in Regions |-> dropped[r] \cup {h \in Stored(hours[r]) : Swept(p, r, h)}]
    BY <1>4 DEF Sweep
  <2>2. ASSUME NEW r \in Regions, NEW h \in HourStarts
        PROVE  hours'[r][h] = hours[r][h] \/ (hours'[r][h] = None /\ h \in dropped'[r])
    <3>1. hours'[r][h] = IF Swept(p, r, h) THEN None ELSE hours[r][h]
      BY <2>1
    <3>2. dropped'[r] = dropped[r] \cup {g \in Stored(hours[r]) : Swept(p, r, g)}
      BY <2>1
    <3>. QED  BY <3>1, <3>2 DEF Stored
  <2>3. \A r \in Regions : dropped[r] \subseteq dropped'[r]
    BY <2>1
  <2>. QED  BY <1>1, <1>2, <1>3, <2>2, <2>3, TurnsGoOn
<1>5. CASE ~Sweep(p)
  <2>1. UNCHANGED <<hours, dropped>>
    BY <1>5 DEF Fails, Begin, ReadDay, WriteDayFails, ReadState, WriteState, WriteStateFails,
                ListFiles, Kill, files, record
  <2>2. \A r \in Regions, h \in HourStarts : hours'[r][h] = hours[r][h]
    BY <2>1
  <2>3. clock <= clock' /\ \A r \in Regions : dropped[r] \subseteq dropped'[r]
    BY <1>1, <1>3, <2>1
  <2>. QED  BY <1>2, <1>3, <2>2, <2>3, TurnsGoOn
<1>. QED  BY <1>4, <1>5

LEMMA ClockStepKeeps ==
  ASSUME IInv, IInv', TInv, Tick \/ Forget \/ UNCHANGED vars
  PROVE  TInv'
<1>1. /\ clock <= clock' /\ UNCHANGED <<hours, pc, job, newest, dropped, overlapped>>
  BY DEF IInv, TypeOK, Time, Tick, Forget, vars, files, record
<1>2. \A q \in Procs : Proceeds(q)
  BY <1>1, WaitsProceeds
<1>3. \A r \in Regions, h \in HourStarts : hours'[r][h] = hours[r][h]
  BY <1>1
<1>4. \A r \in Regions : dropped[r] \subseteq dropped'[r]
  BY <1>1
<1>. QED  BY <1>1, <1>2, <1>3, <1>4, TurnsGoOn

(* Who asks while another is at work finds all hours begun that either has *)
(* or will have in hand.                                                   *)
LEMMA AskKeepsTurns ==
  ASSUME IInv, IInv', TInv, NEW p \in Procs, NEW r \in Regions, Ask(p, r)
  PROVE  TInv'
<1>0. /\ TypeOK /\ pc[p] = "idle" /\ pc' = [pc EXCEPT ![p] = "answered"]
      /\ \E j : job' = [job EXCEPT ![p] = j]
  BY DEF Ask, Goto, IInv
<1>1. /\ TypeOK /\ TypeOK' /\ clock \in Nat /\ pc[p] = "idle" /\ pc'[p] = "answered"
      /\ \A q \in Procs : q # p => pc'[q] = pc[q] /\ job'[q] = job[q]
      /\ UNCHANGED <<clock, hours, newest, dropped>>
      /\ overlapped' = [overlapped EXCEPT ![r] = @ \cup {h \in HourStarts : InRefresh(r) /\ h <= clock}]
  <2>4. TypeOK' /\ clock \in Nat
    BY DEF IInv, TypeOK, Time
  <2>1. UNCHANGED <<clock, hours, newest, dropped>>
    BY DEF Ask, world, files
  <2>3. overlapped' = [overlapped EXCEPT ![r] = @ \cup {h \in HourStarts : InRefresh(r) /\ h <= clock}]
    BY DEF Ask
  <2>2. /\ pc'[p] = "answered"
        /\ \A q \in Procs : q # p => pc'[q] = pc[q] /\ job'[q] = job[q]
    BY <1>0 DEF TypeOK
  <2>. QED  BY <1>0, <2>1, <2>2, <2>3, <2>4
<1>2. job'[p].region = r /\ job'[p].at = clock
  <2>1. PICK new : job' = [job EXCEPT ![p] =
                     [region |-> r, at |-> clock, now |-> clock, new |-> new, days |-> {},
                      read |-> NoHours, previous |-> None, doomed |-> {}, dead |-> {}]]
    BY DEF Ask
  <2>. QED  BY <1>1, <2>1 DEF TypeOK
<1>3. /\ \A s \in Regions : overlapped[s] \subseteq overlapped'[s]
      /\ \A h \in HourStarts : InRefresh(r) /\ h <= clock => h \in overlapped'[r]
  BY <1>1 DEF TypeOK
<1>4. NewestInv' /\ KeptInv'
  BY <1>1, <1>3 DEF TInv, NewestInv, KeptInv, Kept
<1>5. ASSUME NEW h \in HourStarts, h \notin overlapped'[r], InRefresh(r)
      PROVE  newest[r][h] = None /\ clock < h
  <2>1. clock < h
    BY <1>1, <1>3, <1>5, HourStartsAre
  <2>. QED  BY <1>1, <2>1, BucketIsNotNone, HourStartsAre DEF TInv, NewestInv
<1>6. TurnInv'
  <2>1. SUFFICES ASSUME NEW q \in Procs, NEW s \in Regions, NEW h \in HourStarts,
                        (Writing(q))', Region(q)' = s, h \notin overlapped'[s]
                 PROVE  /\ newest[s][h] # None => newest[s][h] <= job'[q].at
                        /\ \A o \in Procs : Alone(q, o, s, h)'
                        /\ ReadAsStored(q, s, h)'
    BY <1>1 DEF TurnInv, Turn
  <2>2. CASE q = p
    <3>1. s = r
      BY <1>2, <2>1, <2>2 DEF Region
    <3>2. newest[s][h] # None => newest[s][h] <= job'[q].at
      BY <1>2, <2>2 DEF TInv, NewestInv
    <3>3. ASSUME NEW o \in Procs  PROVE Alone(q, o, s, h)'
      <4>1. SUFFICES ASSUME o # p, Writing(o), Region(o) = r
                     PROVE  newest[r][h] = None /\ clock < h
        BY <1>1, <1>2, <2>2, <3>1 DEF Alone, Writing, Region
      <4>. QED  BY <1>5, <2>1, <3>1, <4>1 DEF InRefresh
    <3>. QED  BY <1>1, <2>2, <3>2, <3>3 DEF ReadAsStored
  <2>3. CASE q # p
    <3>1. /\ Writing(q) /\ Region(q) = s /\ h \notin overlapped[s] /\ job'[q] = job[q]
          /\ pc'[q] = pc[q]
      BY <1>1, <1>3, <2>1, <2>3 DEF Writing, Region
    <3>2. /\ newest[s][h] # None => newest[s][h] <= job[q].at
          /\ \A o \in Procs : Alone(q, o, s, h)
          /\ ReadAsStored(q, s, h)
      BY <3>1 DEF TInv, TurnInv, Turn
    <3>3. ASSUME NEW o \in Procs  PROVE Alone(q, o, s, h)'
      <4>1. CASE o = p
        <5>1. SUFFICES ASSUME s = r  PROVE newest[r][h] = None /\ job[q].at < h
          BY <1>1, <1>2, <3>1, <4>1 DEF Alone, Region
        <5>2. newest[r][h] = None /\ clock < h
          BY <1>5, <2>1, <3>1, <5>1 DEF InRefresh
        <5>3. job[q].at <= job[q].now /\ job[q].now <= clock /\ job[q].at \in Nat /\ job[q].now \in Nat
          BY <1>1, <3>1, JobIs DEF IInv, JobInv, Writing
        <5>. QED  BY <1>1, <5>2, <5>3, HourStartsAre
      <4>2. CASE o # p
        BY <1>1, <3>1, <3>2, <4>2 DEF Alone, Writing, Region
      <4>. QED  BY <4>1, <4>2
    <3>4. ReadAsStored(q, s, h)'
      BY <1>1, <3>1, <3>2 DEF ReadAsStored, Day
    <3>. QED  BY <3>1, <3>2, <3>3, <3>4
  <2>. QED  BY <2>2, <2>3
<1>. QED  BY <1>4, <1>6 DEF TInv

(* What a refresh writes of an hour is the newest there is of it.          *)
LEMMA UpdatedIsNewest ==
  ASSUME IInv, TInv, NEW p \in Procs, pc[p] = "merging", NEW r \in Regions, r = Region(p),
         NEW h \in HourStarts, h \in InDay(Day(p)), h \notin overlapped[r]
  PROVE  /\ Updated(p)[h] # None =>
              /\ Updated(p)[h].asof \in Nat /\ h <= Updated(p)[h].asof
              /\ Updated(p)[h].asof <= job[p].at /\ Updated(p)[h].asof <= clock
              /\ newest[r][h] # None => newest[r][h] <= Updated(p)[h].asof
         /\ Updated(p)[h] = None /\ newest[r][h] # None =>
              h \in dropped[r] \/ h < FloorHour(clock - Retention)
         /\ \A q \in Procs : q # p /\ Writing(q) /\ Region(q) = r => Updated(p)[h] = None
<1>1. /\ TypeOK /\ JobInv(p) /\ Turn(p, r, h) /\ Kept(r, h) /\ clock \in Nat
      /\ job[p].at \in Nat /\ job[p].now \in Nat
      /\ job[p].new \in HoursType /\ job[p].read \in HoursType
  BY JobIs DEF IInv, TInv, TurnInv, KeptInv
<1>2. /\ newest[r][h] # None => newest[r][h] <= job[p].at
      /\ hours[r][h] # None => job[p].read[h] = hours[r][h]
      /\ job[p].read[h] # None => newest[r][h] = job[p].read[h].asof
      /\ \A q \in Procs : Alone(p, q, r, h)
  BY <1>1 DEF Turn, ReadAsStored, Writing
<1>3. /\ job[p].at <= job[p].now /\ job[p].now <= clock
      /\ Sound(job[p].new, traffic, clock) /\ Sound(job[p].read, traffic, clock)
      /\ \A g \in Stored(job[p].new) : job[p].new[g].asof = job[p].at
  BY <1>1 DEF JobInv, Writing
<1>4. Updated(p)[h] = IF ~InRetention(h, job[p].now) THEN None
                      ELSE IF job[p].new[h] # None THEN job[p].new[h]
                      ELSE job[p].read[h]
  BY UpdatedIs
<1>5. /\ job[p].new[h] # None => job[p].new[h].asof = job[p].at /\ h <= job[p].at
      /\ job[p].read[h] # None =>
           job[p].read[h].asof \in Nat /\ h <= job[p].read[h].asof /\ job[p].read[h].asof <= clock
  <2>1. job[p].new[h] # None => h \in Stored(job[p].new)
    BY DEF Stored
  <2>2. job[p].read[h] # None => h \in Stored(job[p].read) /\ job[p].read[h] \in Bucket
    BY <1>1, StoredIs
  <2>. QED  BY <1>3, <2>1, <2>2 DEF Sound, Right, Bucket, Time
<1>6. newest[r][h] # None => newest[r][h] \in Nat /\ h <= newest[r][h]
  BY <1>1, BucketIsNotNone DEF TInv, NewestInv
<1>7. job[p].read[h] # None => newest[r][h] # None
  BY <1>2, <1>5, NoneIsNoBucket
<1>8. ASSUME Updated(p)[h] # None
      PROVE  /\ Updated(p)[h].asof \in Nat /\ h <= Updated(p)[h].asof
             /\ Updated(p)[h].asof <= job[p].at /\ Updated(p)[h].asof <= clock
             /\ newest[r][h] # None => newest[r][h] <= Updated(p)[h].asof
  <2>1. CASE Updated(p)[h] = job[p].new[h]
    BY <1>1, <1>2, <1>3, <1>5, <1>8, <2>1
  <2>2. CASE Updated(p)[h] = job[p].read[h]
    BY <1>1, <1>2, <1>3, <1>5, <1>6, <1>7, <1>8, <2>2
  <2>. QED  BY <1>4, <1>8, <2>1, <2>2
<1>9. ASSUME Updated(p)[h] = None, newest[r][h] # None
      PROVE  h \in dropped[r] \/ h < FloorHour(clock - Retention)
  <2>1. SUFFICES ASSUME hours[r][h] # None  PROVE h < FloorHour(clock - Retention)
    BY <1>1, <1>9 DEF Kept
  <2>2. ~InRetention(h, job[p].now)
    BY <1>2, <1>4, <1>9, <2>1
  <2>3. h <= FloorHour(job[p].now)
    BY <1>1, <1>2, <1>3, <1>6, <1>9, HourStartsAre, NotBefore
  <2>4. FloorHour(job[p].now - Retention) <= FloorHour(clock - Retention)
    BY <1>1, <1>3, FloorHourMoves, HoursAssumption
  <2>5. FloorHour(job[p].now - Retention) \in Int /\ FloorHour(clock - Retention) \in Int
    BY <1>1, FloorHourIs, HoursAssumption
  <2>. QED  BY <2>2, <2>3, <2>4, <2>5, HourStartsAre DEF InRetention
<1>10. ASSUME NEW q \in Procs, q # p, Writing(q), Region(q) = r
       PROVE  Updated(p)[h] = None
  <2>1. newest[r][h] = None /\ job[p].at < h
    BY <1>2, <1>10 DEF Alone
  <2>2. job[p].new[h] = None /\ job[p].read[h] = None
    BY <1>1, <1>5, <1>7, <2>1, HourStartsAre
  <2>. QED  BY <1>4, <2>2
<1>. QED  BY <1>8, <1>9, <1>10

LEMMA WriteDayKeepsTurns ==
  ASSUME IInv, IInv', TInv, NEW p \in Procs, WriteDay(p)
  PROVE  TInv'
<1>0. PICK r \in Regions : r = Region(p)
  BY JobIs DEF WriteDay, IInv
<1>. DEFINE updated == Updated(p)
            written == Fitting(updated)
<1>1. /\ pc[p] = "merging" /\ TypeOK /\ TypeOK' /\ NextDay(p) /\ clock \in Nat
      /\ hours' = [hours EXCEPT ![r] =
           [h \in HourStarts |-> IF h \in InDay(Day(p)) THEN written[h] ELSE @[h]]]
      /\ newest' = [newest EXCEPT ![r] =
           [h \in HourStarts |-> IF h \in Stored(updated) THEN Later(@[h], updated[h].asof) ELSE @[h]]]
      /\ dropped' = [dropped EXCEPT ![r] = (@ \cup Stored(updated)) \ Stored(written)]
      /\ UNCHANGED <<clock, overlapped>>
  BY <1>0 DEF WriteDay, IInv, TypeOK, Time, world
<1>2. /\ updated \in HoursType /\ Sound(updated, traffic, clock)
      /\ \A h \in Stored(updated) : h \in HourStarts /\ h \in InDay(Day(p))
  BY <1>1, UpdatedIs
<1>. HIDE DEF updated
<1>3. \A h \in HourStarts : written[h] \in {None, updated[h]}
  BY <1>2, FittingIsSound
<1>. HIDE DEF written
<1>4. \A s \in Regions : s # r =>
        hours'[s] = hours[s] /\ newest'[s] = newest[s] /\ dropped'[s] = dropped[s]
  BY <1>1 DEF TypeOK
<1>5. \A h \in HourStarts :
        /\ updated[h] # None =>
             /\ h \in InDay(Day(p)) /\ newest'[r][h] = Later(newest[r][h], updated[h].asof)
             /\ hours'[r][h] = updated[h] \/ (hours'[r][h] = None /\ h \in dropped'[r])
        /\ updated[h] = None =>
             /\ newest'[r][h] = newest[r][h] /\ (h \in dropped[r] => h \in dropped'[r])
             /\ hours'[r][h] = IF h \in InDay(Day(p)) THEN None ELSE hours[r][h]
  <2>1. TAKE h \in HourStarts
  <2>2. /\ newest'[r][h] = IF h \in Stored(updated) THEN Later(newest[r][h], updated[h].asof)
                           ELSE newest[r][h]
        /\ hours'[r][h] = IF h \in InDay(Day(p)) THEN written[h] ELSE hours[r][h]
        /\ dropped'[r] = (dropped[r] \cup Stored(updated)) \ Stored(written)
    BY <1>0, <1>1, JobIs DEF TypeOK
  <2>3. /\ h \in Stored(updated) <=> updated[h] # None
        /\ h \in Stored(written) <=> written[h] # None
    BY DEF Stored
  <2>4. updated[h] # None => h \in InDay(Day(p))
    BY <1>2, <2>3
  <2>5. written[h] = None \/ written[h] = updated[h]
    BY <1>3
  <2>. QED  BY <2>2, <2>3, <2>4, <2>5
<1>6. NewestInv'
  <2>1. SUFFICES ASSUME NEW s \in Regions, NEW h \in HourStarts, newest'[s][h] # None
                 PROVE  h <= newest'[s][h] /\ newest'[s][h] <= clock
    BY <1>1 DEF NewestInv
  <2>2. newest[s][h] # None => h <= newest[s][h] /\ newest[s][h] <= clock
    BY DEF TInv, NewestInv
  <2>3. CASE s = r /\ updated[h] # None
    <3>1. h <= updated[h].asof /\ updated[h].asof <= clock
      BY <1>2, <2>3 DEF Sound, Right, Stored
    <3>2. newest'[r][h] = newest[r][h] \/ newest'[r][h] = updated[h].asof
      BY <1>5, <2>3 DEF Later
    <3>. QED  BY <2>1, <2>2, <2>3, <3>1, <3>2
  <2>. QED  BY <1>4, <1>5, <2>1, <2>2, <2>3
<1>7. ASSUME NEW h \in HourStarts, h \in InDay(Day(p)), h \notin overlapped[r]
      PROVE  /\ updated[h] # None =>
                  newest'[r][h] = updated[h].asof /\ updated[h].asof <= job[p].at
             /\ updated[h] = None /\ newest[r][h] # None =>
                  h \in dropped[r] \/ h < FloorHour(clock - Retention)
             /\ \A q \in Procs : q # p /\ Writing(q) /\ Region(q) = r => updated[h] = None
  <2>1. /\ updated[h] # None =>
             /\ updated[h].asof \in Nat /\ updated[h].asof <= job[p].at
             /\ newest[r][h] # None => newest[r][h] <= updated[h].asof
        /\ updated[h] = None /\ newest[r][h] # None =>
             h \in dropped[r] \/ h < FloorHour(clock - Retention)
        /\ \A q \in Procs : q # p /\ Writing(q) /\ Region(q) = r => updated[h] = None
    BY <1>0, <1>1, <1>7, UpdatedIsNewest DEF updated
  <2>2. newest[r][h] # None => newest[r][h] \in Nat
    BY <1>1, BucketIsNotNone
  <2>3. updated[h] # None => Later(newest[r][h], updated[h].asof) = updated[h].asof
    BY <2>1, <2>2, NoneIsNoBucket DEF Later
  <2>. QED  BY <1>5, <2>1, <2>3
<1>8. KeptInv'
  <2>1. SUFFICES ASSUME NEW s \in Regions, NEW h \in HourStarts, h \notin overlapped[s]
                 PROVE  Kept(s, h)'
    BY <1>1 DEF KeptInv
  <2>2. Kept(s, h)
    BY <2>1 DEF TInv, KeptInv
  <2>3. CASE s # r
    BY <1>1, <1>4, <2>2, <2>3 DEF Kept
  <2>4. CASE s = r /\ h \notin InDay(Day(p))
    BY <1>1, <1>5, <2>2, <2>4 DEF Kept
  <2>5. CASE s = r /\ h \in InDay(Day(p)) /\ updated[h] # None
    BY <1>5, <1>7, <2>1, <2>5 DEF Kept
  <2>6. CASE s = r /\ h \in InDay(Day(p)) /\ updated[h] = None
    BY <1>1, <1>5, <1>7, <2>1, <2>6 DEF Kept
  <2>. QED  BY <2>3, <2>4, <2>5, <2>6
<1>9. /\ pc'[p] # "merging" /\ Region(p)' = r /\ job'[p].at = job[p].at
      /\ \A q \in Procs : q # p => pc'[q] = pc[q] /\ job'[q] = job[q]
  BY <1>0, <1>1, NextDayTypes
<1>10. TurnInv'
  <2>1. SUFFICES ASSUME NEW q \in Procs, NEW s \in Regions, NEW h \in HourStarts,
                        (Writing(q))', Region(q)' = s, h \notin overlapped[s]
                 PROVE  /\ newest'[s][h] # None => newest'[s][h] <= job'[q].at
                        /\ \A o \in Procs : Alone(q, o, s, h)'
                        /\ ReadAsStored(q, s, h)'
    BY <1>1 DEF TurnInv, Turn
  <2>2. Writing(q) /\ Region(q) = s /\ job'[q].at = job[q].at
    BY <1>0, <1>1, <1>9, <2>1 DEF Writing, Region
  <2>3. /\ newest[s][h] # None => newest[s][h] <= job[q].at
        /\ \A o \in Procs : Alone(q, o, s, h)
        /\ ReadAsStored(q, s, h)
    BY <2>1, <2>2 DEF TInv, TurnInv, Turn
  <2>4. ASSUME NEW o \in Procs, o # p, Writing(o), Region(o) = r, s = r
        PROVE  updated[h] = None /\ newest'[r][h] = newest[r][h]
    <3>1. updated[h] = None
      BY <1>5, <1>7, <2>1, <2>4
    <3>. QED  BY <1>5, <3>1
  <2>5. newest'[s][h] # None => newest'[s][h] <= job'[q].at
    <3>1. CASE s # r
      BY <1>4, <2>2, <2>3, <3>1
    <3>2. CASE s = r /\ q # p
      BY <2>2, <2>3, <2>4, <3>2
    <3>3. CASE s = r /\ q = p
      BY <1>5, <1>7, <2>1, <2>2, <2>3, <3>3
    <3>. QED  BY <3>1, <3>2, <3>3
  <2>6. ASSUME NEW o \in Procs  PROVE Alone(q, o, s, h)'
    <3>1. SUFFICES ASSUME o # q, (Writing(o))', Region(o)' = s
                   PROVE  newest'[s][h] = None /\ job'[q].at < h
      BY DEF Alone
    <3>2. Writing(o) /\ Region(o) = s
      BY <1>0, <1>1, <1>9, <3>1 DEF Writing, Region
    <3>3. newest[s][h] = None /\ job[q].at < h
      BY <2>3, <3>1, <3>2 DEF Alone
    <3>4. newest'[s][h] = newest[s][h]
      BY <1>4, <2>2, <2>4, <3>1, <3>2
    <3>. QED  BY <2>2, <3>3, <3>4
  <2>7. ReadAsStored(q, s, h)'
    <3>1. SUFFICES ASSUME q # p, pc[q] = "merging", h \in InDay(Day(q))
                   PROVE  /\ hours'[s][h] # None => job[q].read[h] = hours'[s][h]
                          /\ job[q].read[h] # None => newest'[s][h] = job[q].read[h].asof
      BY <1>9 DEF ReadAsStored, Day
    <3>2. /\ hours[s][h] # None => job[q].read[h] = hours[s][h]
          /\ job[q].read[h] # None => newest[s][h] = job[q].read[h].asof
      BY <2>3, <3>1 DEF ReadAsStored
    <3>3. CASE s # r
      BY <1>4, <3>2, <3>3
    <3>4. CASE s = r
      BY <1>5, <2>2, <2>4, <3>1, <3>2, <3>4
    <3>. QED  BY <3>3, <3>4
  <2>. QED  BY <2>5, <2>6, <2>7
<1>. QED  BY <1>6, <1>8, <1>10 DEF TInv

LEMMA TurnsInvariance == Spec => []TInv
<1>1. ASSUME IInv, IInv', TInv, [Next]_vars  PROVE TInv'
  <2>1. CASE Tick \/ Forget \/ UNCHANGED vars
    BY <1>1, <2>1, ClockStepKeeps
  <2>2. ASSUME NEW p \in Procs, NEW r \in Regions, Ask(p, r)  PROVE TInv'
    BY <1>1, <2>2, AskKeepsTurns
  <2>3. ASSUME NEW p \in Procs, WriteDay(p)  PROVE TInv'
    BY <1>1, <2>3, WriteDayKeepsTurns
  <2>4. ASSUME NEW p \in Procs,
               \/ Fails(p) \/ Begin(p) \/ ReadDay(p) \/ WriteDayFails(p) \/ ReadState(p)
               \/ WriteState(p) \/ WriteStateFails(p) \/ ListFiles(p) \/ Sweep(p) \/ Kill(p)
        PROVE  TInv'
    BY <1>1, <2>4, QuietStepKeeps
  <2>. QED  BY <1>1, <2>1, <2>2, <2>3, <2>4 DEF Next
<1>. QED  BY <1>1, InitTInv, Invariance, PTL DEF Spec

(* The stored hours of network/store.py are what was heard and nothing     *)
(* else, and of an hour that was answered, could be written and will not   *)
(* be asked for again all is there or a bound of the store took it, if it  *)
(* had not begun when two refreshes of its region ran at once, however the *)
(* refreshes otherwise interleave, fail or are killed.  If it had begun,   *)
(* it was written as a whole, but may have been overwritten: see           *)
(* BothLeaveAll.                                                           *)
THEOREM HoursStayRight == Spec => []HoursAreRight
<1>1. ASSUME IInv, TInv  PROVE HoursAreRight
  <2>1. TypeOK /\ clock \in Time /\ clock \in Nat /\ traffic \in SUBSET Time
    BY <1>1, RegionStoreAssumption DEF IInv, TypeOK, Time
  <2>2. StoredIsTrue
    BY <1>1, <2>1, SoundIsTrue DEF StoredIsTrue, IInv, HoursInv, TypeOK, heard
  <2>3. ASSUME NEW r \in Regions, NEW h \in HourStarts, Settled(r, h)
        PROVE  WholeOrDropped(r, h) \/ (h \in overlapped[r] /\ WrittenWhole(r, h))
    <3>1. Covered(r, h)
      BY <1>1, <2>3 DEF IInv, StateInv, CoveredTo, Settled
    <3>2. ~(h < FloorHour(clock - Retention))
      <4>1. FloorHour(clock - Retention) <= h /\ FloorHour(clock - Retention) \in Int
        BY <2>1, <2>3, FloorHourIs, HoursAssumption DEF Settled, InRetention
      <4>. QED  BY <4>1, HourStartsAre
    <3>3. WrittenWhole(r, h)
      BY <2>3, <3>1, <3>2 DEF Covered, Settled, WrittenWhole
    <3>4. ASSUME h \notin overlapped[r]  PROVE WholeOrDropped(r, h)
      <4>1. Kept(r, h)
        BY <1>1, <3>4 DEF TInv, KeptInv
      <4>. QED  BY <3>2, <3>3, <4>1 DEF Kept, WrittenWhole, WholeOrDropped, Complete
    <3>. QED  BY <3>3, <3>4
  <2>. QED  BY <2>1, <2>2, <2>3 DEF HoursAreRight, SettledIsComplete
<1>. QED  BY <1>1, Invariance, TurnsInvariance, PTL

-----------------------------------------------------------------------------
(* A process that has hours to write, or wrote some, lists the region      *)
(* later; what it listed as doomed is deleted later.                       *)
Unlisted(p) == pc[p] \in {"reading", "merging", "recording", "stating", "listing"}
Unswept(p, r, h) ==
  pc[p] = "sweeping" /\ (r \in job[p].dead \/ <<r, FloorDay(h)>> \in job[p].doomed)

(* The stored hours of a region nobody has yet to deal with.               *)
Tidy(r) ==
  {h \in Stored(hours[r]) : \A p \in Procs : /\ Unlisted(p) => Region(p) # r
                                             /\ ~Unswept(p, r, h)}

Tagged(T) == UNION {{<<r, h>> : h \in T[r]} : r \in Regions}
AllTidy   == [r \in Regions |-> Tidy(r)]

TidyFits == "kill" \notin faults =>
  /\ \A r \in Regions : Cardinality(Tidy(r)) <= RegionMax
  /\ Cardinality(Tagged(AllTidy)) <= TotalMax

DaysFit == \A r \in Regions, d \in DayStarts : SizeOf(OfDay(d, hours[r])) <= DayMax

HourSets == [Regions -> SUBSET HourStarts]

LEMMA TaggedIs ==
  ASSUME NEW T \in HourSets
  PROVE  /\ Tagged(T) = {x \in Regions \X HourStarts : x[2] \in T[x[1]]}
         /\ IsFiniteSet(Tagged(T)) /\ Cardinality(Tagged(T)) \in Nat
<1>1. Tagged(T) = {x \in Regions \X HourStarts : x[2] \in T[x[1]]}
  <2>1. ASSUME NEW x, x \in Tagged(T)
        PROVE  x \in Regions \X HourStarts /\ x[2] \in T[x[1]]
    BY <2>1 DEF Tagged, HourSets
  <2>2. ASSUME NEW x \in Regions \X HourStarts, x[2] \in T[x[1]]
        PROVE  x \in Tagged(T)
    <3>1. x[1] \in Regions /\ x = <<x[1], x[2]>>
      OBVIOUS
    <3>2. x \in {<<x[1], h>> : h \in T[x[1]]}
      BY <2>2, <3>1
    <3>. QED  BY <3>1, <3>2 DEF Tagged
  <2>. QED  BY <2>1, <2>2
<1>2. IsFiniteSet(Regions \X HourStarts)
  BY HourStartsAreFinite, RegionStoreAssumption, FS_Product
<1>3. Tagged(T) \in SUBSET (Regions \X HourStarts)
  BY <1>1
<1>. QED  BY <1>1, <1>2, <1>3, SubsetCounts

(* Fewer hours take no more room.                                          *)
LEMMA FewerFit ==
  ASSUME NEW S \in HourSets, NEW T \in HourSets, \A r \in Regions : S[r] \subseteq T[r]
  PROVE  /\ \A r \in Regions : Cardinality(S[r]) <= Cardinality(T[r])
         /\ Cardinality(Tagged(S)) <= Cardinality(Tagged(T))
<1>1. \A r \in Regions : Cardinality(S[r]) <= Cardinality(T[r])
  <2>1. ASSUME NEW r \in Regions  PROVE Cardinality(S[r]) <= Cardinality(T[r])
    <3>1. T[r] \in SUBSET HourStarts /\ S[r] \in SUBSET T[r]
      BY DEF HourSets
    <3>. QED  BY <3>1, HourStartsAreFinite, SubsetCounts
  <2>. QED  BY <2>1
<1>2. Tagged(S) \in SUBSET Tagged(T)
  BY TaggedIs
<1>. QED  BY <1>1, <1>2, TaggedIs, SubsetCounts

LEMMA CountsAreNat ==
  ASSUME NEW T \in HourSets
  PROVE  \A r \in Regions : IsFiniteSet(T[r]) /\ Cardinality(T[r]) \in Nat
<1>1. ASSUME NEW r \in Regions  PROVE IsFiniteSet(T[r]) /\ Cardinality(T[r]) \in Nat
  <2>1. T[r] \in SUBSET HourStarts
    BY DEF HourSets
  <2>. QED  BY <2>1, HourStartsAreFinite, SubsetCounts
<1>. QED  BY <1>1

LEMMA AllTidyIs == AllTidy \in HourSets /\ \A r \in Regions : AllTidy[r] = Tidy(r)
BY DEF AllTidy, HourSets, Tidy, Stored

(* The bounds stay when nothing becomes tidy.                              *)
LEMMA LessStaysTidy ==
  ASSUME TidyFits, faults \subseteq faults',
         \A r \in Regions : Tidy(r)' \subseteq Tidy(r)
  PROVE  TidyFits'
<1>1. AllTidy' \in HourSets /\ \A r \in Regions : AllTidy'[r] = Tidy(r)'
  BY DEF AllTidy, HourSets, Tidy, Stored
<1>2. PICK S \in HourSets : S = AllTidy'
  BY <1>1
<1>3. /\ \A r \in Regions : Cardinality(S[r]) <= Cardinality(AllTidy[r])
      /\ Cardinality(Tagged(S)) <= Cardinality(Tagged(AllTidy))
  <2>1. \A r \in Regions : S[r] \subseteq AllTidy[r]
    BY <1>1, <1>2, AllTidyIs
  <2>. QED  BY <2>1, AllTidyIs, FewerFit
<1>4. /\ \A r \in Regions : /\ Cardinality(S[r]) \in Nat /\ Cardinality(AllTidy[r]) \in Nat
      /\ Cardinality(Tagged(S)) \in Nat /\ Cardinality(Tagged(AllTidy)) \in Nat
      /\ RegionMax \in Nat /\ TotalMax \in Nat
  BY AllTidyIs, TaggedIs, CountsAreNat, RegionStoreAssumption
<1>5. Tagged(S) = Tagged(AllTidy)'
  BY <1>2 DEF Tagged
<1>6. \A r \in Regions : S[r] = Tidy(r)' /\ AllTidy[r] = Tidy(r)
  BY <1>1, <1>2, AllTidyIs
<1>7. SUFFICES ASSUME "kill" \notin faults'
               PROVE  /\ \A r \in Regions : Cardinality(S[r]) <= RegionMax
                      /\ Cardinality(Tagged(S)) <= TotalMax
  BY <1>5, <1>6 DEF TidyFits
<1>8. /\ \A r \in Regions : Cardinality(AllTidy[r]) <= RegionMax
      /\ Cardinality(Tagged(AllTidy)) <= TotalMax
  BY <1>6, <1>7 DEF TidyFits
<1>. QED  BY <1>3, <1>4, <1>8

(* What a listing leaves undoomed fits: of a region, what its oldest day   *)
(* that stays still fitted with all after it; and of all of them, what the *)
(* oldest day of the first region that keeps one fitted beside the others. *)
LEMMA ListedFits ==
  ASSUME NEW order \in Orders, NEW now, NEW K \in HourSets,
         \A r \in Regions : \A h \in K[r] :
           h \in Stored(hours[r]) /\ <<r, FloorDay(h)>> \notin DoomedDays(order, now)
  PROVE  /\ \A r \in Regions : Cardinality(K[r]) <= RegionMax
         /\ Cardinality(Tagged(K)) <= TotalMax
<1>. DEFINE Fit(r) == {g \in Stored(hours[r]) : FloorDay(g) \in Fits(r, now)}
            Ours(r, d) == {h \in Stored(hours[r]) : h >= d /\ FloorDay(h) \in Fits(r, now)}
            After(r) == {s \in Regions : order[s] > order[r]}
<1>1. ASSUME NEW r \in Regions, NEW h \in K[r]
      PROVE  /\ Stays(order, r, FloorDay(h), now) /\ FloorDay(h) \in Fits(r, now)
             /\ From(r, FloorDay(h)) <= RegionMax /\ h \in Stored(hours[r])
  <2>1. FloorDay(h) \in DaysOf(hours[r])
    BY <1>1, DaysOfAre
  <2>2. Stays(order, r, FloorDay(h), now)
    BY <1>1, <2>1 DEF DoomedDays
  <2>3. FloorDay(h) \in Fits(r, now)
    BY <2>2 DEF Stays
  <2>. QED  BY <1>1, <2>2, <2>3 DEF Fits
<1>2. ASSUME NEW r \in Regions, K[r] # {}
      PROVE  \E m \in K[r] : \A h \in K[r] : FloorDay(m) <= h
  <2>1. K[r] \in SUBSET HourStarts
    BY DEF HourSets
  <2>2. K[r] \in SUBSET Nat
    BY <2>1, HourStartsAre
  <2>3. PICK m \in K[r] : \A h \in K[r] : m <= h
    BY <1>2, <2>2, Earliest
  <2>4. FloorDay(m) \in Nat /\ FloorDay(m) <= m /\ m \in Nat
    <3>1. FloorDay(m) \in DayStarts /\ m \in InDay(FloorDay(m)) /\ m \in HourStarts
      BY <2>1, FloorDayIs
    <3>2. FloorDay(m) \in Nat /\ m \in Nat
      BY <2>2, <3>1, DayStartsAre
    <3>. QED  BY <3>1, <3>2 DEF InDay
  <2>. QED  BY <2>2, <2>3, <2>4
<1>3. ASSUME NEW r \in Regions  PROVE Cardinality(K[r]) <= RegionMax
  <2>1. CASE K[r] = {}
    BY <2>1, FS_EmptySet, RegionStoreAssumption
  <2>2. CASE K[r] # {}
    <3>1. PICK m \in K[r] : \A h \in K[r] : FloorDay(m) <= h
      BY <1>2, <2>2
    <3>. DEFINE S == {h \in Stored(hours[r]) : h >= FloorDay(m)}
    <3>2. K[r] \in SUBSET S /\ S \in SUBSET Stored(hours[r])
      <4>1. \A h \in K[r] : h \in Stored(hours[r]) /\ h \in Nat /\ FloorDay(m) \in Nat
        BY <1>1, HourStartsAre, FloorDayIs, DayStartsAre DEF Stored
      <4>. QED  BY <3>1, <4>1
    <3>3. Cardinality(S) <= RegionMax
      BY <1>1 DEF From
    <3>. HIDE DEF S
    <3>4. IsFiniteSet(S) /\ Cardinality(S) \in Nat
      BY <3>2, StoredCounts, SubsetCounts
    <3>5. Cardinality(K[r]) \in Nat /\ Cardinality(K[r]) <= Cardinality(S)
      BY <3>2, <3>4, SubsetCounts
    <3>. QED  BY <3>3, <3>4, <3>5, RegionStoreAssumption
  <2>. QED  BY <2>1, <2>2
<1>4. CASE \A r \in Regions : K[r] = {}
  <2>1. Tagged(K) = {}
    BY <1>4 DEF Tagged
  <2>. QED  BY <1>3, <2>1, FS_EmptySet, RegionStoreAssumption
<1>5. CASE \E r \in Regions : K[r] # {}
  <2>. DEFINE Some == {r \in Regions : K[r] # {}}
              Places == {order[r] : r \in Some}
  <2>1. /\ \A r \in Regions : order[r] \in Nat
        /\ \A r, s \in Regions : r # s => order[r] # order[s]
    <3>1. Cardinality(Regions) \in Nat
      BY RegionStoreAssumption, FS_CardinalityType
    <3>. QED  BY <3>1 DEF Orders
  <2>2. PICK r \in Some : \A s \in Some : order[r] <= order[s]
    <3>1. Places \in SUBSET Nat /\ Places # {}
      BY <1>5, <2>1
    <3>2. PICK n \in Places : \A k \in Places : n <= k
      BY <3>1, Earliest
    <3>. QED  BY <3>2
  <2>3. PICK m \in K[r] : \A h \in K[r] : FloorDay(m) <= h
    BY <1>2, <2>2
  <2>. DEFINE O == Ours(r, FloorDay(m))
              A == [s \in Regions |-> IF s \in After(r) THEN Fit(s) ELSE {}]
  <2>4. SumSizes(After(r), now) + Cardinality(O) <= TotalMax
    BY <1>1, <2>2 DEF Stays
  <2>5. A \in HourSets
    BY DEF HourSets, Stored
  <2>6. SumSizes(After(r), now) = Cardinality(Tagged(A))
    <3>1. Tagged(A) = UNION {{<<s, h>> : h \in Fit(s)} : s \in After(r)}
      BY DEF Tagged
    <3>. QED  BY <3>1 DEF SumSizes
  <2>7. Tagged(K) \subseteq Tagged(A) \cup {<<r, h>> : h \in O}
    <3>1. ASSUME NEW s \in Regions, NEW h \in K[s]
          PROVE  <<s, h>> \in Tagged(A) \cup {<<r, g>> : g \in O}
      <4>1. h \in Fit(s) /\ h \in HourStarts
        BY <1>1, <3>1 DEF Stored
      <4>2. CASE s = r
        <5>1. h \in O
          <6>1. h \in Nat /\ FloorDay(m) \in Nat /\ FloorDay(m) <= h
            BY <1>1, <2>2, <2>3, <4>1, <4>2, HourStartsAre, FloorDayIs, DayStartsAre DEF Stored
          <6>. QED  BY <4>1, <4>2, <6>1
        <5>. QED  BY <4>2, <5>1
      <4>3. CASE s # r
        <5>1. order[s] > order[r]
          BY <2>1, <2>2, <3>1, <4>3
        <5>2. h \in A[s]
          BY <4>1, <5>1
        <5>. QED  BY <2>5, <4>1, <5>2, TaggedIs
      <4>. QED  BY <4>2, <4>3
    <3>. QED  BY <3>1 DEF Tagged
  <2>8. O \in SUBSET Stored(hours[r])
    OBVIOUS
  <2>. HIDE DEF A, O
  <2>9. /\ IsFiniteSet(O) /\ Cardinality(O) \in Nat
        /\ IsFiniteSet(Tagged(A)) /\ Cardinality(Tagged(A)) \in Nat
    BY <2>5, <2>8, StoredCounts, SubsetCounts, TaggedIs
  <2>. DEFINE P == {<<r, h>> : h \in O}
  <2>10. IsFiniteSet(P) /\ Cardinality(P) \in Nat /\ Cardinality(P) <= Cardinality(O)
    BY <2>9, TaggedCounts
  <2>. HIDE DEF P
  <2>11. /\ IsFiniteSet(Tagged(A) \cup P)
         /\ Cardinality(Tagged(A) \cup P)
              = Cardinality(Tagged(A)) + Cardinality(P) - Cardinality(Tagged(A) \cap P)
    BY <2>9, <2>10, FS_Union
  <2>12. Cardinality(Tagged(A) \cap P) \in Nat
    BY <2>9, FS_Intersection, FS_CardinalityType
  <2>13. /\ Cardinality(Tagged(K)) \in Nat
         /\ Cardinality(Tagged(K)) <= Cardinality(Tagged(A) \cup P)
    <3>1. Tagged(K) \in SUBSET (Tagged(A) \cup P)
      BY <2>7 DEF P
    <3>. QED  BY <2>11, <3>1, SubsetCounts
  <2>14. Cardinality(Tagged(K)) <= TotalMax
    BY <2>4, <2>6, <2>9, <2>10, <2>11, <2>12, <2>13, RegionStoreAssumption
  <2>. QED  BY <1>3, <2>14
<1>. QED  BY <1>4, <1>5

-----------------------------------------------------------------------------
LEMMA QuotientIsOnly ==
  ASSUME NEW n \in Nat, n > 0, NEW k \in Int, NEW h \in Nat, k * n <= h, h < k * n + n
  PROVE  h \div n = k
<1>. DEFINE q == h \div n
<1>1. q \in Int /\ q * n <= h /\ h < q * n + n /\ q * n \in Int /\ k * n \in Int
  BY QuotientIs
<1>. HIDE DEF q
<1>2. \A i, j \in Int : i <= j => i * n <= j * n
  OBVIOUS
<1>3. (q + 1) * n = q * n + n /\ (k + 1) * n = k * n + n
  BY <1>1
<1>4. ~(q < k)
  <2>1. SUFFICES ASSUME q < k  PROVE FALSE
    OBVIOUS
  <2>2. q + 1 <= k /\ q + 1 \in Int
    BY <1>1, <2>1
  <2>3. (q + 1) * n <= k * n
    BY <1>2, <2>2
  <2>. QED  BY <1>1, <1>3, <2>3
<1>5. ~(k < q)
  <2>1. SUFFICES ASSUME k < q  PROVE FALSE
    OBVIOUS
  <2>2. k + 1 <= q /\ k + 1 \in Int
    BY <1>1, <2>1
  <2>3. (k + 1) * n <= q * n
    BY <1>1, <1>2, <2>2
  <2>. QED  BY <1>1, <1>3, <2>3
<1>. QED  BY <1>1, <1>4, <1>5 DEF q

LEMMA SameDay ==
  ASSUME NEW d \in DayStarts, NEW h \in HourStarts, h \in InDay(d)
  PROVE  FloorDay(h) = d
<1>. DEFINE n == HourTicks * DayHours
<1>1. PICK t \in Time : d = FloorDay(t)
  BY DEF DayStarts
<1>2. n \in Nat /\ n > 0 /\ h \in Nat /\ t \in Nat
  BY DayTicks, HourStartsAre DEF Time
<1>3. d = (t \div n) * n /\ FloorDay(h) = (h \div n) * n /\ h \in d..(d + n - 1)
  BY <1>1 DEF FloorDay, InDay
<1>. HIDE DEF n
<1>4. t \div n \in Int /\ d \in Nat
  BY <1>2, <1>3, QuotientIs
<1>5. d <= h /\ h < d + n
  BY <1>2, <1>3, <1>4
<1>6. PICK k \in Int : k = t \div n /\ d = k * n
  BY <1>3, <1>4
<1>. QED  BY <1>2, <1>3, <1>5, <1>6, QuotientIsOnly

(* _write_day drops as many of the oldest hours as are too many.           *)
LEMMA FittingFits ==
  ASSUME NEW day \in HoursType
  PROVE  SizeOf(Fitting(day)) <= DayMax
<1>1. SizeOf(day) \in Nat /\ DayMax \in Nat
  BY StoredCounts, RegionStoreAssumption DEF SizeOf
<1>2. CASE SizeOf(day) > DayMax
  <2>1. PICK n \in Nat : n = SizeOf(day) - DayMax /\ n <= Cardinality(Stored(day))
    BY <1>1, <1>2 DEF SizeOf
  <2>2. Cardinality(Stored(DropOldest(day, n))) <= Cardinality(Stored(day)) - n
    BY <2>1, OldestAreDropped
  <2>3. Cardinality(Stored(DropOldest(day, n))) \in Nat
    BY StoredCounts
  <2>. QED  BY <1>1, <1>2, <2>1, <2>2, <2>3 DEF SizeOf, Fitting
<1>. QED  BY <1>1, <1>2 DEF Fitting

(* A day that has no other hours than another has no more.                 *)
LEMMA DaySizes ==
  ASSUME NEW a, NEW b, \A h \in HourStarts : a[h] # None => b[h] # None
  PROVE  SizeOf(a) <= SizeOf(b) /\ SizeOf(a) \in Nat /\ SizeOf(b) \in Nat
<1>1. Stored(a) \in SUBSET Stored(b)
  BY DEF Stored
<1>. QED  BY <1>1, StoredCounts, SubsetCounts DEF SizeOf

LEMMA DaysStayFit ==
  ASSUME DaysFit,
         \A r \in Regions, h \in HourStarts : hours'[r][h] # None => hours[r][h] # None
  PROVE  DaysFit'
<1>1. ASSUME NEW r \in Regions, NEW d \in DayStarts
      PROVE  SizeOf(OfDay(d, hours'[r])) <= DayMax
  <2>1. /\ SizeOf(OfDay(d, hours'[r])) <= SizeOf(OfDay(d, hours[r]))
        /\ SizeOf(OfDay(d, hours'[r])) \in Nat /\ SizeOf(OfDay(d, hours[r])) \in Nat
    <3>1. \A h \in HourStarts :
            OfDay(d, hours'[r])[h] # None => OfDay(d, hours[r])[h] # None
      BY DEF OfDay
    <3>. QED  BY <3>1, DaySizes
  <2>2. SizeOf(OfDay(d, hours[r])) <= DayMax
    BY DEF DaysFit
  <2>. QED  BY <2>1, <2>2, RegionStoreAssumption
<1>. QED  BY <1>1 DEF DaysFit, OfDay, SizeOf, Stored

LEMMA WriteDayFits ==
  ASSUME IInv, DaysFit, NEW p \in Procs, WriteDay(p)
  PROVE  DaysFit'
<1>0. PICK s \in Regions : s = Region(p)
  BY JobIs DEF WriteDay, IInv
<1>. DEFINE written == Fitting(Updated(p))
<1>1. /\ TypeOK /\ pc[p] = "merging"
      /\ hours' = [hours EXCEPT ![s] =
           [h \in HourStarts |-> IF h \in InDay(Day(p)) THEN written[h] ELSE hours[s][h]]]
  BY <1>0 DEF WriteDay, IInv, TypeOK
<1>2. SizeOf(written) <= DayMax
  BY <1>1, UpdatedIs, FittingFits
<1>3. Day(p) \in DayStarts
  <2>1. JobInv(p) /\ job[p].days \in SUBSET DayStarts
    BY <1>1, JobIs DEF IInv
  <2>2. job[p].days # {}
    BY <1>1, <2>1 DEF JobInv
  <2>. QED  BY <2>1, <2>2, FirstIs DEF Day
<1>. HIDE DEF written
<1>4. ASSUME NEW r \in Regions, NEW d \in DayStarts
      PROVE  SizeOf(OfDay(d, hours'[r])) <= DayMax
  <2>1. CASE r = s /\ d = Day(p)
    <3>1. \A h \in HourStarts : OfDay(d, hours'[r])[h] # None => written[h] # None
      BY <1>1, <2>1 DEF OfDay, TypeOK
    <3>2. /\ SizeOf(OfDay(d, hours'[r])) <= SizeOf(written)
          /\ SizeOf(OfDay(d, hours'[r])) \in Nat /\ SizeOf(written) \in Nat
      BY <3>1, DaySizes
    <3>. QED  BY <1>2, <3>2, RegionStoreAssumption
  <2>2. CASE ~(r = s /\ d = Day(p))
    <3>1. \A h \in HourStarts : OfDay(d, hours'[r])[h] = OfDay(d, hours[r])[h]
      BY <1>1, <1>3, <2>2, SameDay DEF OfDay, TypeOK
    <3>2. SizeOf(OfDay(d, hours'[r])) = SizeOf(OfDay(d, hours[r]))
      BY <3>1 DEF SizeOf, Stored
    <3>. QED  BY <3>2 DEF DaysFit
  <2>. QED  BY <2>1, <2>2
<1>. QED  BY <1>4 DEF DaysFit, OfDay, SizeOf, Stored

-----------------------------------------------------------------------------
(* A step of a process that has listed nothing lets nothing become tidy.   *)
LEMMA TidyWaits ==
  ASSUME TidyFits, faults \subseteq faults', NEW p \in Procs,
         \A q \in Procs : q # p => pc'[q] = pc[q] /\ job'[q] = job[q],
         Unlisted(p) => Unlisted(p)' /\ Region(p)' = Region(p),
         \A r \in Regions, h \in HourStarts :
           /\ Unswept(p, r, h) => hours'[r][h] = None
           /\ hours'[r][h] # None =>
                hours[r][h] # None \/ (Unlisted(p)' /\ Region(p)' = r)
  PROVE  TidyFits'
<1>1. ASSUME NEW r \in Regions, NEW h \in Tidy(r)'
      PROVE  h \in Tidy(r)
  <2>1. /\ h \in HourStarts /\ hours'[r][h] # None
        /\ Unlisted(p)' => Region(p)' # r
        /\ \A q \in Procs : q # p => (Unlisted(q) => Region(q) # r) /\ ~Unswept(q, r, h)
    BY <1>1 DEF Tidy, Stored, Unlisted, Unswept, Region
  <2>2. hours[r][h] # None /\ (Unlisted(p) => Region(p) # r) /\ ~Unswept(p, r, h)
    BY <2>1
  <2>. QED  BY <2>1, <2>2 DEF Tidy, Stored
<1>2. \A r \in Regions : Tidy(r)' \subseteq Tidy(r)
  BY <1>1
<1>. QED  BY <1>2, LessStaysTidy

LEMMA OthersWait ==
  ASSUME TypeOK, NEW p \in Procs,
         \/ \E r \in Regions : Ask(p, r)
         \/ Fails(p) \/ Begin(p) \/ ReadDay(p) \/ WriteDay(p) \/ WriteDayFails(p)
         \/ ReadState(p) \/ WriteState(p) \/ WriteStateFails(p)
         \/ ListFiles(p) \/ Sweep(p) \/ Kill(p)
  PROVE  \A q \in Procs : q # p => pc'[q] = pc[q] /\ job'[q] = job[q]
<1>1. \E l : pc' = [pc EXCEPT ![p] = l]
  BY DEF Ask, Fails, Begin, ReadDay, WriteDay, WriteDayFails, NextDay, ReadState, WriteState,
         WriteStateFails, Stated, ListFiles, Sweep, Kill, Goto
<1>2. \E x : job' = [job EXCEPT ![p] = x]
  BY DEF Ask, Fails, Begin, ReadDay, WriteDay, WriteDayFails, NextDay, ReadState, WriteState,
         WriteStateFails, Stated, ListFiles, Sweep, Kill, Goto
<1>. QED  BY <1>1, <1>2 DEF TypeOK

LEMMA RegionStays ==
  ASSUME TypeOK, NEW p \in Procs,
         \/ ReadDay(p) \/ WriteDay(p) \/ WriteDayFails(p)
         \/ ReadState(p) \/ WriteState(p) \/ WriteStateFails(p)
  PROVE  Unlisted(p)' /\ Region(p)' = Region(p)
<1>1. CASE ReadDay(p)
  <2>1. pc[p] = "reading" /\ pc'[p] = "merging" /\ job[p] \in JobType
    BY <1>1, JobIs DEF ReadDay, Goto, TypeOK
  <2>2. PICK x : job' = [job EXCEPT ![p].read = x]
    BY <1>1 DEF ReadDay
  <2>3. job'[p].region = job[p].region
    BY <2>1, <2>2 DEF TypeOK, JobType
  <2>. QED  BY <2>1, <2>3 DEF Unlisted, Region
<1>2. CASE ReadState(p)
  <2>1. pc[p] = "recording" /\ pc'[p] = "stating" /\ job[p] \in JobType
    BY <1>2, JobIs DEF ReadState, Goto, TypeOK
  <2>2. PICK x : job' = [job EXCEPT ![p].previous = x]
    BY <1>2 DEF ReadState
  <2>3. job'[p].region = job[p].region
    BY <2>1, <2>2 DEF TypeOK, JobType
  <2>. QED  BY <2>1, <2>3 DEF Unlisted, Region
<1>3. CASE WriteDay(p) \/ WriteDayFails(p)
  <2>1. pc[p] = "merging" /\ NextDay(p)
    BY <1>3 DEF WriteDay, WriteDayFails
  <2>. QED  BY <2>1, NextDayTypes DEF Unlisted
<1>4. CASE WriteState(p) \/ WriteStateFails(p)
  <2>1. pc[p] = "stating" /\ Stated(p)
    BY <1>4 DEF WriteState, WriteStateFails
  <2>. QED  BY <2>1, StatedTypes DEF Unlisted
<1>. QED  BY <1>1, <1>2, <1>3, <1>4

LEMMA ListFilesTidies ==
  ASSUME TypeOK, TidyFits, NEW p \in Procs, ListFiles(p)
  PROVE  TidyFits'
<1>1. /\ pc[p] = "listing" /\ pc'[p] = "sweeping" /\ job[p] \in JobType
      /\ UNCHANGED <<hours, faults>>
  BY JobIs DEF ListFiles, Goto, TypeOK, files
<1>2. PICK order \in Orders :
        job'[p].doomed = DoomedDays(order, job[p].now)
  <2>1. PICK order \in Orders :
          LET doomed == DoomedDays(order, job[p].now)
          IN job' = [job EXCEPT ![p].doomed = doomed,
                                ![p].dead = DeadRegions(doomed, job[p].now)]
    BY DEF ListFiles
  <2>. DEFINE doomed == DoomedDays(order, job[p].now)
              dead == DeadRegions(doomed, job[p].now)
  <2>2. job' = [job EXCEPT ![p].doomed = doomed, ![p].dead = dead]
    BY <2>1
  <2>. HIDE DEF doomed, dead
  <2>3. job'[p].doomed = doomed
    BY <1>1, <2>2 DEF TypeOK, JobType
  <2>. QED  BY <2>3 DEF doomed
<1>3. /\ AllTidy' \in HourSets /\ \A r \in Regions : AllTidy'[r] = Tidy(r)'
  BY DEF AllTidy, HourSets, Tidy, Stored
<1>4. PICK K \in HourSets : K = AllTidy'
  BY <1>3
<1>5. ASSUME NEW r \in Regions, NEW h \in K[r]
      PROVE  h \in Stored(hours[r]) /\ <<r, FloorDay(h)>> \notin DoomedDays(order, job[p].now)
  <2>1. h \in Tidy(r)'
    BY <1>3, <1>4, <1>5
  <2>2. h \in HourStarts /\ hours'[r][h] # None /\ ~Unswept(p, r, h)'
    BY <2>1 DEF Tidy, Stored
  <2>. QED  BY <1>1, <1>2, <2>2 DEF Unswept, Stored
<1>6. /\ \A r \in Regions : Cardinality(K[r]) <= RegionMax
      /\ Cardinality(Tagged(K)) <= TotalMax
  BY <1>5, ListedFits
<1>. QED  BY <1>3, <1>4, <1>6 DEF TidyFits, Tagged

Bounds == DaysFit /\ TidyFits

LEMMA BoundsStay ==
  ASSUME IInv, Bounds, [Next]_vars
  PROVE  Bounds'
<1>1. TypeOK /\ DaysFit /\ TidyFits
  BY DEF IInv, Bounds
<1>2. CASE UNCHANGED <<hours, pc, job, faults>>
  <2>1. \A r \in Regions : Tidy(r)' = Tidy(r)
    BY <1>2 DEF Tidy, Stored, Unlisted, Unswept, Region
  <2>2. DaysFit'
    BY <1>1, <1>2, DaysStayFit
  <2>3. TidyFits'
    BY <1>1, <1>2, <2>1, LessStaysTidy
  <2>. QED  BY <2>2, <2>3 DEF Bounds
<1>3. CASE Tick \/ Forget \/ UNCHANGED vars
  BY <1>2, <1>3 DEF Tick, Forget, vars, files
<1>4. ASSUME NEW p \in Procs,
             \/ \E r \in Regions : Ask(p, r)
             \/ Fails(p) \/ Begin(p)
      PROVE  Bounds'
  <2>1. UNCHANGED <<hours, faults>> /\ pc[p] \in {"idle", "answered"}
    BY <1>4 DEF Ask, Fails, Begin, files
  <2>2. DaysFit'
    BY <1>1, <2>1, DaysStayFit
  <2>3. \A q \in Procs : q # p => pc'[q] = pc[q] /\ job'[q] = job[q]
    BY <1>1, <1>4, OthersWait
  <2>4. TidyFits'
    BY <1>1, <2>1, <2>3, TidyWaits DEF Unlisted, Unswept
  <2>. QED  BY <2>2, <2>4 DEF Bounds
<1>5. ASSUME NEW p \in Procs,
             \/ ReadDay(p) \/ WriteDayFails(p)
             \/ ReadState(p) \/ WriteState(p) \/ WriteStateFails(p)
      PROVE  Bounds'
  <2>1. hours' = hours /\ faults \subseteq faults' /\ pc[p] # "sweeping"
    BY <1>5 DEF ReadDay, WriteDayFails, ReadState, WriteState, WriteStateFails, files
  <2>2. DaysFit'
    BY <1>1, <2>1, DaysStayFit
  <2>3. \A q \in Procs : q # p => pc'[q] = pc[q] /\ job'[q] = job[q]
    BY <1>1, <1>5, OthersWait
  <2>4. Unlisted(p)' /\ Region(p)' = Region(p)
    BY <1>1, <1>5, RegionStays
  <2>5. TidyFits'
    BY <1>1, <2>1, <2>3, <2>4, TidyWaits DEF Unswept
  <2>. QED  BY <2>2, <2>5 DEF Bounds
<1>6. ASSUME NEW p \in Procs, WriteDay(p)
      PROVE  Bounds'
  <2>1. faults' = faults /\ pc[p] # "sweeping"
    BY <1>6 DEF WriteDay
  <2>2. DaysFit'
    BY <1>1, <1>6, WriteDayFits
  <2>3. \A q \in Procs : q # p => pc'[q] = pc[q] /\ job'[q] = job[q]
    BY <1>1, <1>6, OthersWait
  <2>4. Unlisted(p)' /\ Region(p)' = Region(p)
    BY <1>1, <1>6, RegionStays
  <2>5. ASSUME NEW r \in Regions, r # Region(p)  PROVE hours'[r] = hours[r]
    BY <1>1, <1>6, <2>5 DEF WriteDay, TypeOK
  <2>6. TidyFits'
    BY <1>1, <2>1, <2>3, <2>4, <2>5, TidyWaits DEF Unswept
  <2>. QED  BY <2>2, <2>6 DEF Bounds
<1>7. ASSUME NEW p \in Procs, ListFiles(p)
      PROVE  Bounds'
  <2>1. hours' = hours
    BY <1>7 DEF ListFiles, files
  <2>2. DaysFit'
    BY <1>1, <2>1, DaysStayFit
  <2>. QED  BY <1>1, <1>7, <2>2, ListFilesTidies DEF Bounds
<1>8. ASSUME NEW p \in Procs, Sweep(p)
      PROVE  Bounds'
  <2>1. /\ faults' = faults /\ pc[p] = "sweeping"
        /\ \A r \in Regions, h \in HourStarts :
             hours'[r][h] = IF r \in job[p].dead \/ <<r, FloorDay(h)>> \in job[p].doomed
                            THEN None ELSE hours[r][h]
    BY <1>8 DEF Sweep, Swept
  <2>2. DaysFit'
    BY <1>1, <2>1, DaysStayFit
  <2>3. \A q \in Procs : q # p => pc'[q] = pc[q] /\ job'[q] = job[q]
    BY <1>1, <1>8, OthersWait
  <2>4. TidyFits'
    BY <1>1, <2>1, <2>3, TidyWaits DEF Unlisted, Unswept
  <2>. QED  BY <2>2, <2>4 DEF Bounds
<1>9. ASSUME NEW p \in Procs, Kill(p)
      PROVE  Bounds'
  <2>1. hours' = hours /\ "kill" \in faults'
    BY <1>9 DEF Kill, files
  <2>2. DaysFit'
    BY <1>1, <2>1, DaysStayFit
  <2>. QED  BY <2>1, <2>2 DEF Bounds, TidyFits
<1>. QED  BY <1>3, <1>4, <1>5, <1>6, <1>7, <1>8, <1>9 DEF Next

LEMMA InitBounds == Init => Bounds
<1>. SUFFICES ASSUME Init  PROVE Bounds
  OBVIOUS
<1>1. \A r \in Regions : hours[r] = NoHours /\ Stored(NoHours) = {}
  BY NoHoursAreSound DEF Init
<1>2. \A d : Stored(OfDay(d, NoHours)) = {}
  BY DEF Stored, OfDay, NoHours
<1>0. Cardinality({}) <= DayMax /\ Cardinality({}) <= RegionMax /\ Cardinality({}) <= TotalMax
  <2>1. Cardinality({}) = 0
    BY FS_EmptySet
  <2>. QED  BY <2>1, RegionStoreAssumption
<1>3. DaysFit
  <2>1. \A r \in Regions, d \in DayStarts : Stored(OfDay(d, hours[r])) = {}
    BY <1>1, <1>2
  <2>. QED  BY <1>0, <2>1 DEF DaysFit, SizeOf
<1>4. \A r \in Regions : Tidy(r) = {}
  BY <1>1 DEF Tidy
<1>5. Tagged(AllTidy) = {}
  BY <1>4 DEF Tagged, AllTidy
<1>6. TidyFits
  BY <1>0, <1>4, <1>5 DEF TidyFits
<1>. QED  BY <1>3, <1>6 DEF Bounds

(* Whenever nobody is at work and nobody was killed, the regions and the   *)
(* whole store are within their bounds, however the writes and sweeps of   *)
(* the processes interleaved; and no day file is ever larger than what is  *)
(* read of one.                                                            *)
THEOREM QuietIsBounded == Spec => []QuietMeansBounded
<1>1. ASSUME Bounds  PROVE QuietMeansBounded
  <2>1. SUFFICES ASSUME "kill" \notin faults, \A p \in Procs : pc[p] = "idle"
                 PROVE  /\ \A r \in Regions : SizeOf(hours[r]) <= RegionMax
                        /\ Cardinality(UNION {{<<r, h>> : h \in Stored(hours[r])} : r \in Regions})
                             <= TotalMax
    BY <1>1 DEF Bounds, DaysFit, QuietMeansBounded
  <2>2. \A r \in Regions : Tidy(r) = Stored(hours[r])
    BY <2>1 DEF Tidy, Unlisted, Unswept
  <2>3. Tagged(AllTidy) = UNION {{<<r, h>> : h \in Stored(hours[r])} : r \in Regions}
    BY <2>2 DEF Tagged, AllTidy
  <2>. QED  BY <1>1, <2>1, <2>2, <2>3 DEF Bounds, TidyFits, SizeOf
<1>. QED  BY <1>1, InitBounds, BoundsStay, InitIInv, NextKeeps, PTL DEF Spec
-----------------------------------------------------------------------------
(* `mesh db verify`, for databases of any size.  What is verified is one   *)
(* of the databases, and what is reported is what the checks find in it.   *)
Verified == sheets \in Databases /\ report \in {NotVerified, VerifyDatabase}

LEMMA TwoAreTwo ==
  ASSUME NEW S, IsFiniteSet(S), NEW a \in S, NEW b \in S, a # b
  PROVE  Cardinality(S) \in Nat /\ Cardinality(S) >= 2
<1>1. IsFiniteSet({a}) /\ Cardinality({a}) = 1
  BY FS_Singleton
<1>2. IsFiniteSet({a} \cup {b}) /\ Cardinality({a} \cup {b}) = Cardinality({a}) + 1
  BY <1>1, FS_AddElement
<1>3. {a} \cup {b} \in SUBSET S
  OBVIOUS
<1>4. Cardinality({a} \cup {b}) <= Cardinality(S)
  BY <1>3, FS_Subset
<1>. QED  BY <1>1, <1>2, <1>4, FS_CardinalityType

LEMMA TwoAreThere ==
  ASSUME NEW S, IsFiniteSet(S), Cardinality(S) >= 2
  PROVE  \E a, b \in S : a # b
<1>1. SUFFICES ASSUME \A a, b \in S : a = b  PROVE FALSE
  OBVIOUS
<1>0. Cardinality(S) \in Nat
  BY FS_CardinalityType
<1>2. CASE S = {}
  <2>1. Cardinality({}) = 0
    BY FS_EmptySet
  <2>. QED  BY <1>2, <2>1
<1>3. CASE S # {}
  <2>1. PICK a \in S : TRUE
    BY <1>3
  <2>2. S = {a}
    BY <1>1, <2>1
  <2>. QED  BY <2>2, FS_Singleton
<1>. QED  BY <1>2, <1>3

LEMMA FirstsAreFinite ==
  ASSUME NEW S, IsFiniteSet(S)
  PROVE  IsFiniteSet({ref[1] : ref \in S})
<1>. DEFINE T == {ref[1] : ref \in S}
            f == [ref \in S |-> ref[1]]
<1>1. f \in Surjection(S, T)
  BY DEF Surjection
<1>. HIDE DEF f, T
<1>2. IsFiniteSet(T)
  BY <1>1, FS_Surjection
<1>. QED  BY <1>2 DEF T

LEMMA ValuesAreFinite ==
  ASSUME NEW S, IsFiniteSet(S), NEW g
  PROVE  IsFiniteSet({g[ref] : ref \in S})
<1>. DEFINE T == {g[ref] : ref \in S}
            f == [ref \in S |-> g[ref]]
<1>1. f \in Surjection(S, T)
  BY DEF Surjection
<1>. HIDE DEF f, T
<1>2. IsFiniteSet(T)
  BY <1>1, FS_Surjection
<1>. QED  BY <1>2 DEF T

(* The sheets of a database: references are pairs of an owner and a type.  *)
LEMMA SheetsAre ==
  ASSUME sheets \in Databases
  PROVE  /\ IsFiniteSet(InNodesSheet) /\ InNodesSheet \subseteq FleetIds
         /\ IsFiniteSet(PublicRefs) /\ PublicRefs \subseteq DOMAIN sheets.keys
         /\ \A ref \in DOMAIN sheets.keys : sheets.keys[ref] \in Materials
         /\ \A ref \in PublicRefs : ref = Public(ref[1])
         /\ \A o : Found(Public(o)) => Public(o) \in PublicRefs
<1>1. /\ IsFiniteSet(DOMAIN sheets.keys)
      /\ DOMAIN sheets.keys \subseteq Owners \X {"pub", "priv"}
  BY DatabaseAssumption
<1>2. PublicRefs \in SUBSET (DOMAIN sheets.keys)
  BY DEF PublicRefs
<1>3. IsFiniteSet(PublicRefs)
  BY <1>1, <1>2, FS_Subset
<1>4. ASSUME NEW ref \in PublicRefs  PROVE ref = Public(ref[1])
  <2>1. ref \in Owners \X {"pub", "priv"} /\ ref[2] = "pub"
    BY <1>1 DEF PublicRefs
  <2>. QED  BY <2>1 DEF Public
<1>5. \A o : Found(Public(o)) => Public(o) \in PublicRefs
  BY DEF Found, Public, PublicRefs
<1>. QED  BY <1>2, <1>3, <1>4, <1>5, DatabaseAssumption DEF InNodesSheet

(* The references that share a key, for each key that some share.          *)
Sharing(m) == {ref \in PublicRefs : sheets.keys[ref] = m}
Shared     == {m \in Materials : Cardinality(Sharing(m)) > 1}

LEMMA SharingIs ==
  ASSUME sheets \in Databases
  PROVE  /\ \A m : IsFiniteSet(Sharing(m)) /\ Cardinality(Sharing(m)) \in Nat
         /\ \A m : Cardinality(Sharing(m)) > 1 <=>
              \E r, q \in PublicRefs : r # q /\ sheets.keys[r] = m /\ sheets.keys[q] = m
         /\ SharingGroups = {Sharing(m) : m \in Shared}
<1>1. ASSUME NEW m  PROVE IsFiniteSet(Sharing(m)) /\ Cardinality(Sharing(m)) \in Nat
  <2>1. Sharing(m) \in SUBSET PublicRefs
    BY DEF Sharing
  <2>. QED  BY <2>1, SheetsAre, FS_Subset, FS_CardinalityType
<1>2. ASSUME NEW m, Cardinality(Sharing(m)) > 1
      PROVE  \E r, q \in PublicRefs : r # q /\ sheets.keys[r] = m /\ sheets.keys[q] = m
  <2>1. PICK r, q \in Sharing(m) : r # q
    BY <1>1, <1>2, TwoAreThere
  <2>. QED  BY <2>1 DEF Sharing
<1>3. ASSUME NEW m, NEW r \in PublicRefs, NEW q \in PublicRefs,
             r # q, sheets.keys[r] = m, sheets.keys[q] = m
      PROVE  Cardinality(Sharing(m)) > 1
  <2>1. r \in Sharing(m) /\ q \in Sharing(m)
    BY <1>3 DEF Sharing
  <2>2. Cardinality(Sharing(m)) >= 2
    BY <1>1, <1>3, <2>1, TwoAreTwo
  <2>. QED  BY <1>1, <2>2
<1>4. SharingGroups = {Sharing(m) : m \in Shared}
  BY DEF SharingGroups, Sharing, Shared
<1>. QED  BY <1>1, <1>2, <1>3, <1>4

(* The problem that a shared key is.                                       *)
DuplicateOf(m) ==
  IF Cardinality(DistinctNodes(Sharing(m))) >= 2
  THEN Problem("duplicate_public_key", "critical", Sharing(m))
  ELSE Problem("alias_public_key", "warning", Sharing(m))

LEMMA DuplicatesAre ==
  ASSUME sheets \in Databases
  PROVE  DuplicateKeys = {DuplicateOf(m) : m \in Shared}
BY SharingIs DEF DuplicateKeys, DuplicateOf

(* A check reports problems of its own kinds.                              *)
Tells(problems, kinds) ==
  \A q \in problems : \E kind \in kinds : \E severity, of : q = Problem(kind, severity, of)

LEMMA KindsAre ==
  ASSUME NEW problems, NEW kinds, Tells(problems, kinds)
  PROVE  \A q \in problems : q.kind \in kinds
BY DEF Tells, Problem

LEMMA ReportedDuplicates ==
  ASSUME sheets \in Databases, report = VerifyDatabase
  PROVE  {p \in report : p.kind \in {"duplicate_public_key", "alias_public_key"}} = DuplicateKeys
<1>1. ASSUME NEW p \in VerifyDatabase, p.kind \in {"duplicate_public_key", "alias_public_key"}
      PROVE  p \in DuplicateKeys
  <2>1. \A q \in TemplateUnavailable : q.kind \in {"template_unavailable"}
    <3>1. Tells(TemplateUnavailable, {"template_unavailable"})
      BY DEF Tells, TemplateUnavailable
    <3>. QED  BY <3>1, KindsAre
  <2>2. \A q \in OpenToOthers : q.kind \in {"insecure_permissions"}
    <3>1. Tells(OpenToOthers, {"insecure_permissions"})
      BY DEF Tells, OpenToOthers
    <3>. QED  BY <3>1, KindsAre
  <2>3. \A q \in LoadWarnings : q.kind \in {"coerced_cell", "integrity_warning"}
    <3>1. Tells(LoadWarnings, {"coerced_cell", "integrity_warning"})
      BY DEF Tells, LoadWarnings
    <3>. QED  BY <3>1, KindsAre
  <2>4. \A q \in UnresolvedAdminRefs : q.kind \in {"unresolved_admin_ref"}
    <3>1. Tells(UnresolvedAdminRefs, {"unresolved_admin_ref"})
      BY DEF Tells, UnresolvedAdminRefs
    <3>. QED  BY <3>1, KindsAre
  <2>5. \A q \in UnresolvedTemplateRefs : q.kind \in {"unresolved_template_ref"}
    <3>1. Tells(UnresolvedTemplateRefs, {"unresolved_template_ref"})
      BY DEF Tells, UnresolvedTemplateRefs
    <3>. QED  BY <3>1, KindsAre
  <2>6. \A q \in WeakKeyProblems : q.kind \in {"weak_key"}
    <3>1. Tells(WeakKeyProblems, {"weak_key"})
      BY DEF Tells, WeakKeyProblems
    <3>. QED  BY <3>1, KindsAre
  <2>7. \A q \in MismatchedPairs : q.kind \in {"admin_key_mismatch"}
    <3>1. Tells(MismatchedPairs, {"admin_key_mismatch"})
      BY DEF Tells, MismatchedPairs
    <3>. QED  BY <3>1, KindsAre
  <2>8. \A q \in NonCanonicalOwners : q.kind \in {"non_canonical_node_owner"}
    <3>1. Tells(NonCanonicalOwners, {"non_canonical_node_owner"})
      BY DEF Tells, NonCanonicalOwners
    <3>. QED  BY <3>1, KindsAre
  <2>9. \A q \in SharedObservedRefs : q.kind \in {"unimported_admin_key"}
    <3>1. Tells(SharedObservedRefs, {"unimported_admin_key"})
      BY DEF Tells, SharedObservedRefs
    <3>. QED  BY <3>1, KindsAre
  <2>10. \A q \in SharedUnregistered : q.kind \in {"unimported_admin_key"}
    <3>1. Tells(SharedUnregistered, {"unimported_admin_key"})
      BY DEF Tells, SharedUnregistered
    <3>. QED  BY <3>1, KindsAre
  <2>11. \/ p \in TemplateUnavailable \/ p \in OpenToOthers \/ p \in LoadWarnings
         \/ p \in UnresolvedAdminRefs \/ p \in UnresolvedTemplateRefs \/ p \in WeakKeyProblems
         \/ p \in MismatchedPairs \/ p \in NonCanonicalOwners \/ p \in DuplicateKeys
         \/ p \in SharedObservedRefs \/ p \in SharedUnregistered
    BY DEF VerifyDatabase
  <2>. QED
    BY <1>1, <2>1, <2>2, <2>3, <2>4, <2>5, <2>6, <2>7, <2>8, <2>9, <2>10, <2>11
<1>2. ASSUME NEW p \in DuplicateKeys
      PROVE  p \in VerifyDatabase /\ p.kind \in {"duplicate_public_key", "alias_public_key"}
  <2>1. p \in VerifyDatabase
    BY DEF VerifyDatabase
  <2>2. p.kind \in {"duplicate_public_key", "alias_public_key"}
    BY DEF DuplicateKeys, Problem
  <2>. QED  BY <2>1, <2>2
<1>. QED  BY <1>1, <1>2

(* A key of two nodes is shared, and told as a duplicate.                  *)
LEMMA TwoNodesAre ==
  ASSUME sheets \in Databases
  PROVE  /\ \A m : IsFiniteSet(DistinctNodes(Sharing(m)))
         /\ TwoNodesOneKey <=> \E m \in Shared : Cardinality(DistinctNodes(Sharing(m))) >= 2
<1>1. ASSUME NEW m  PROVE IsFiniteSet(DistinctNodes(Sharing(m)))
  <2>1. IsFiniteSet({ref[1] : ref \in Sharing(m)})
    BY SharingIs, FirstsAreFinite
  <2>2. DistinctNodes(Sharing(m)) \in SUBSET {ref[1] : ref \in Sharing(m)}
    BY DEF DistinctNodes, NodeOwners
  <2>. QED  BY <2>1, <2>2, FS_Subset
<1>2. ASSUME TwoNodesOneKey
      PROVE  \E m \in Shared : Cardinality(DistinctNodes(Sharing(m))) >= 2
  <2>1. PICK a \in FleetIds, b \in FleetIds :
               /\ a # b /\ Found(Public(a)) /\ Found(Public(b))
               /\ sheets.keys[Public(a)] = sheets.keys[Public(b)]
    BY <1>2 DEF TwoNodesOneKey, Found
  <2>. DEFINE m == sheets.keys[Public(a)]
  <2>2. Public(a) \in Sharing(m) /\ Public(b) \in Sharing(m) /\ m \in Materials
    BY <2>1, SheetsAre DEF Sharing, Found
  <2>3. Public(a) # Public(b) /\ Public(a)[1] = a /\ Public(b)[1] = b
    BY <2>1 DEF Public
  <2>4. a \in DistinctNodes(Sharing(m)) /\ b \in DistinctNodes(Sharing(m))
    BY <2>1, <2>2, <2>3 DEF DistinctNodes, NodeOwners, IsCanonicalOwner
  <2>5. Cardinality(DistinctNodes(Sharing(m))) >= 2
    BY <1>1, <2>1, <2>4, TwoAreTwo
  <2>6. m \in Shared
    BY <2>2, <2>3, SharingIs DEF Shared, Sharing
  <2>. QED  BY <2>5, <2>6
<1>3. ASSUME NEW m \in Shared, Cardinality(DistinctNodes(Sharing(m))) >= 2
      PROVE  TwoNodesOneKey
  <2>1. PICK a, b \in DistinctNodes(Sharing(m)) : a # b
    BY <1>1, <1>3, TwoAreThere
  <2>2. \A c \in DistinctNodes(Sharing(m)) : /\ c \in FleetIds
                                             /\ Public(c) \in DOMAIN sheets.keys
                                             /\ sheets.keys[Public(c)] = m
    BY SheetsAre DEF DistinctNodes, NodeOwners, IsCanonicalOwner, Sharing
  <2>. QED  BY <2>1, <2>2 DEF TwoNodesOneKey
<1>. QED  BY <1>1, <1>2, <1>3

-----------------------------------------------------------------------------
LEMMA OkMeansNothing ==
  ASSUME ExitCode(TRUE) = "OK", NEW p \in report
  PROVE  p.severity \notin {"critical", "error", "warning"}
BY DEF ExitCode, HasSeverity

LEMMA OkMeansNoError ==
  ASSUME NEW p \in report, p.severity \in {"critical", "error"}
  PROVE  ExitCode(FALSE) # "OK"
BY DEF ExitCode, HasSeverity

LEMMA CleanIsSound ==
  ASSUME sheets \in Databases, report = VerifyDatabase
  PROVE  CleanMeansSound
<1>1. SUFFICES ASSUME ExitCode(TRUE) = "OK"
               PROVE  /\ \A id \in InNodesSheet : \A ref \in sheets.nodes[id].authorized : Found(ref)
                      /\ sheets.template \notin {BrokenTemplate}
                      /\ \A o \in TemplateRefs : Found(Public(o))
                      /\ \A o \in {r[1] : r \in DOMAIN sheets.keys} :
                            {Public(o), Private(o)} \subseteq DOMAIN sheets.keys
                                => sheets.keys[Public(o)] = sheets.keys[Private(o)]
                      /\ \A r, q \in PublicRefs : sheets.keys[r] = sheets.keys[q] => r = q
                      /\ \A m \in Materials : ListedAs(m) # {} =>
                            Cardinality(ListedAs(m) \cup AuthorizedAs(m)) = 1
  BY DEF CleanMeansSound
<1>2. \A p \in VerifyDatabase : p.severity \notin {"critical", "error", "warning"}
  BY <1>1, OkMeansNothing
<1>3. ASSUME NEW id \in InNodesSheet, NEW ref \in sheets.nodes[id].authorized  PROVE Found(ref)
  <2>1. SUFFICES ASSUME ~Found(ref)  PROVE FALSE
    OBVIOUS
  <2>2. Problem("unresolved_admin_ref", "error", {id}) \in UnresolvedAdminRefs
    BY <2>1 DEF UnresolvedAdminRefs, MissingRefs
  <2>. QED  BY <1>2, <2>2 DEF VerifyDatabase, Problem
<1>4. sheets.template # BrokenTemplate
  <2>1. SUFFICES ASSUME sheets.template = BrokenTemplate  PROVE FALSE
    OBVIOUS
  <2>2. Problem("template_unavailable", "warning", {}) \in TemplateUnavailable
    BY <2>1 DEF TemplateUnavailable
  <2>. QED  BY <1>2, <2>2 DEF VerifyDatabase, Problem
<1>5. ASSUME NEW o \in TemplateRefs  PROVE Found(Public(o))
  <2>1. SUFFICES ASSUME ~Found(Public(o))  PROVE FALSE
    OBVIOUS
  <2>2. Problem("unresolved_template_ref", "error", {o}) \in UnresolvedTemplateRefs
    BY <2>1 DEF UnresolvedTemplateRefs
  <2>. QED  BY <1>2, <2>2 DEF VerifyDatabase, Problem
<1>6. ASSUME NEW o, {Public(o), Private(o)} \subseteq DOMAIN sheets.keys
      PROVE  sheets.keys[Public(o)] = sheets.keys[Private(o)]
  <2>1. SUFFICES ASSUME sheets.keys[Public(o)] # sheets.keys[Private(o)]  PROVE FALSE
    OBVIOUS
  <2>2. Private(o)[1] = o /\ Private(o)[2] = "priv"
    BY DEF Private
  <2>3. Found(Public(o)) /\ PrivateMismatch(o)
    BY <1>6, <2>1 DEF PrivateMismatch, HasPrivate, Found
  <2>4. Problem("admin_key_mismatch", "critical", {Private(o)}) \in MismatchedPairs
    BY <1>6, <2>2, <2>3 DEF MismatchedPairs
  <2>. QED  BY <1>2, <2>4 DEF VerifyDatabase, Problem
<1>7. ASSUME NEW r \in PublicRefs, NEW q \in PublicRefs, sheets.keys[r] = sheets.keys[q]
      PROVE  r = q
  <2>1. SUFFICES ASSUME r # q  PROVE FALSE
    OBVIOUS
  <2>2. sheets.keys[r] \in Shared
    BY <1>7, <2>1, SharingIs, SheetsAre DEF Shared
  <2>3. DuplicateOf(sheets.keys[r]) \in VerifyDatabase
    BY <2>2, DuplicatesAre DEF VerifyDatabase
  <2>4. DuplicateOf(sheets.keys[r]).severity \in {"critical", "warning"}
    BY DEF DuplicateOf, Problem
  <2>. QED  BY <1>2, <2>3, <2>4
<1>8. ASSUME NEW m \in Materials, ListedAs(m) # {}
      PROVE  Cardinality(ListedAs(m) \cup AuthorizedAs(m)) = 1
  <2>. DEFINE S == ListedAs(m) \cup AuthorizedAs(m)
  <2>1. S \in SUBSET InNodesSheet
    BY DEF ListedAs, AuthorizedAs
  <2>2. IsFiniteSet(S) /\ Cardinality(S) \in Nat
    BY <2>1, SheetsAre, FS_Subset, FS_CardinalityType
  <2>3. Cardinality(S) # 0
    BY <1>8, <2>2, FS_EmptySet
  <2>4. ~(Cardinality(S) >= 2)
    <3>1. SUFFICES ASSUME Cardinality(S) >= 2  PROVE FALSE
      OBVIOUS
    <3>2. Problem("unimported_admin_key", "warning", S) \in SharedUnregistered
      BY <1>8, <3>1 DEF SharedUnregistered
    <3>. QED  BY <1>2, <3>2 DEF VerifyDatabase, Problem
  <2>. QED  BY <2>2, <2>3, <2>4
<1>. QED  BY <1>3, <1>4, <1>5, <1>6, <1>7, <1>8

LEMMA RefusalsAreTold ==
  ASSUME sheets \in Databases, report = VerifyDatabase
  PROVE  RefusalsAreForetold
<1>1. SUFFICES ASSUME NEW id \in InNodesSheet, NEW o \in SpelledAs(id), Found(Public(o)),
                      ProvisionRefuses(id, sheets.keys[Public(o)])
               PROVE  ExitCode(FALSE) # "OK"
  BY DEF RefusalsAreForetold
<1>2. CASE o \in DOMAIN CanonicalOf /\ CanonicalOf[o] = id
  <2>1. Public(o)[1] = o /\ Public(o) \in DOMAIN sheets.keys
    BY <1>1 DEF Public, Found
  <2>2. Problem("non_canonical_node_owner", "error", {Public(o)}) \in NonCanonicalOwners
    BY <1>2, <2>1 DEF NonCanonicalOwners
  <2>3. Problem("non_canonical_node_owner", "error", {Public(o)}) \in report
    BY <2>2 DEF VerifyDatabase
  <2>4. Problem("non_canonical_node_owner", "error", {Public(o)}).severity = "error"
    BY DEF Problem
  <2>. QED  BY <2>3, <2>4, OkMeansNoError
<1>3. CASE o = id
  <2>1. PICK ref \in PublicRefs : /\ sheets.keys[ref] = sheets.keys[Public(id)]
                                  /\ ref[1] \in FleetIds /\ ref[1] # id
    BY <1>1, <1>3 DEF ProvisionRefuses, IsCanonicalOwner
  <2>2. TwoNodesOneKey
    <3>1. id \in FleetIds /\ ref = Public(ref[1])
      BY SheetsAre
    <3>2. ref \in DOMAIN sheets.keys /\ Public(id) \in DOMAIN sheets.keys
      BY <1>1, <1>3, SheetsAre DEF Found
    <3>. QED  BY <2>1, <3>1, <3>2 DEF TwoNodesOneKey
  <2>3. PICK m \in Shared : Cardinality(DistinctNodes(Sharing(m))) >= 2
    BY <2>2, TwoNodesAre
  <2>4. DuplicateOf(m) \in report /\ DuplicateOf(m).severity = "critical"
    BY <2>3, DuplicatesAre DEF VerifyDatabase, DuplicateOf, Problem
  <2>. QED  BY <2>4, OkMeansNoError
<1>. QED  BY <1>2, <1>3 DEF SpelledAs

LEMMA ClonesAreTold ==
  ASSUME sheets \in Databases, report = VerifyDatabase
  PROVE  CloningIsTold
<1>. DEFINE told == {p \in report : p.kind \in {"duplicate_public_key", "alias_public_key"}}
<1>1. told = {DuplicateOf(m) : m \in Shared}
  BY ReportedDuplicates, DuplicatesAre
<1>2. \A m : /\ DuplicateOf(m).kind = "duplicate_public_key" <=>
                  Cardinality(DistinctNodes(Sharing(m))) >= 2
             /\ DuplicateOf(m).of = Sharing(m)
             /\ DuplicateOf(m).kind = "duplicate_public_key" => DuplicateOf(m).severity = "critical"
  BY DEF DuplicateOf, Problem
<1>3. (\E p \in report : p.kind = "duplicate_public_key") <=> TwoNodesOneKey
  <2>1. (\E p \in report : p.kind = "duplicate_public_key")
          <=> \E p \in told : p.kind = "duplicate_public_key"
    OBVIOUS
  <2>. QED  BY <1>1, <1>2, <2>1, TwoNodesAre
<1>4. ASSUME TwoNodesOneKey  PROVE ExitCode(FALSE) = "CRYPTO"
  <2>1. PICK m \in Shared : DuplicateOf(m).severity = "critical"
    BY <1>2, <1>4, TwoNodesAre
  <2>2. DuplicateOf(m) \in report
    BY <1>1, <2>1
  <2>. QED  BY <2>1, <2>2 DEF ExitCode, HasSeverity
<1>5. Shared = {m \in Materials :
                  \E r, q \in PublicRefs : r # q /\ sheets.keys[r] = m /\ sheets.keys[q] = m}
  BY SharingIs DEF Shared
<1>6. Cardinality(told) = Cardinality(Shared)
  <2>1. IsFiniteSet(Shared)
    <3>1. IsFiniteSet({sheets.keys[ref] : ref \in PublicRefs})
      BY SheetsAre, ValuesAreFinite
    <3>2. Shared \in SUBSET {sheets.keys[ref] : ref \in PublicRefs}
      BY <1>5
    <3>. QED  BY <3>1, <3>2, FS_Subset
  <2>. DEFINE f == [m \in Shared |-> DuplicateOf(m)]
  <2>2. \A m \in Shared : \E r \in Sharing(m) : sheets.keys[r] = m
    BY <1>5 DEF Sharing
  <2>3. \A m, n \in Shared : Sharing(m) = Sharing(n) => m = n
    BY <2>2 DEF Sharing
  <2>4. \A m, n \in Shared : f[m] = f[n] => m = n
    BY <1>2, <2>3
  <2>5. f \in Bijection(Shared, told)
    <3>. HIDE DEF told
    <3>1. f \in [Shared -> told] /\ \A p \in told : \E m \in Shared : f[m] = p
      BY <1>1
    <3>. HIDE DEF f
    <3>2. IsInjective(f)
      BY <2>4, <3>1 DEF IsInjective
    <3>. QED  BY <3>1, <3>2 DEF Bijection, Injection, Surjection
  <2>6. ExistsBijection(Shared, told)
    BY <2>5 DEF ExistsBijection
  <2>. HIDE DEF told, f
  <2>. QED  BY <2>1, <2>6, FS_Bijection
<1>. QED  BY <1>3, <1>4, <1>5, <1>6 DEF CloningIsTold

(* A verification answers for the fleet, however large: no problem at all  *)
(* means that every reference resolves, every pair fits and no key is two  *)
(* nodes'; a refusal of provision is foretold; clones raise the alarm, and *)
(* aliases do not.                                                         *)
THEOREM VerifyAnswers == VerifySpec => []VerifyIsRight
<1>1. VerifyInit => Verified
  BY DEF VerifyInit, VerifyStart, Verified
<1>2. Verified /\ [VerifyNext]_verifyVars => Verified'
  <2>1. SUFFICES ASSUME Verified, [VerifyNext]_verifyVars  PROVE Verified'
    OBVIOUS
  <2>2. UNCHANGED sheets => VerifyDatabase' = VerifyDatabase
    BY DEF VerifyDatabase, Problem, TemplateUnavailable, OpenToOthers, LoadWarnings,
       UnresolvedAdminRefs, UnresolvedTemplateRefs, WeakKeyProblems, MismatchedPairs,
       NonCanonicalOwners, SharedObservedRefs, SharedUnregistered, DuplicateKeys,
       MissingRefs, InNodesSheet, Found, TemplateRefs, Public, Private, PrivateMismatch,
       HasPrivate, SharingGroups, PublicRefs, DistinctNodes, NodeOwners, AuthorizedOn,
       ListedAs, AuthorizedAs, IsCanonicalOwner, IsObservedRef
  <2>3. UNCHANGED sheets /\ report' \in {report, VerifyDatabase}
    BY <2>1 DEF VerifyNext, Verify, verifyVars
  <2>. QED  BY <2>1, <2>2, <2>3 DEF Verified
<1>3. Verified => VerifyIsRight
  BY CleanIsSound, RefusalsAreTold, ClonesAreTold DEF Verified, VerifyIsRight
<1>. QED  BY <1>1, <1>2, <1>3, PTL DEF VerifySpec


-----------------------------------------------------------------------------
(* What is made of one entry of loranet's dump, and of one of its lists.    *)
(* Of some times the latest exists, if there is any. *)
Times == (1..MaxEpoch) \cup {Missing}

LEMMA LatestIs ==
  ASSUME NEW S \in SUBSET Times, NEW x \in S, x # Missing
  PROVE  Latest(S) \in S \ {Missing} /\ \A y \in S \ {Missing} : Latest(S) >= y
<1> DEFINE T == {MaxEpoch - y : y \in S \ {Missing}}
<1>1. MaxEpoch \in Nat /\ S \ {Missing} \subseteq 1..MaxEpoch
  BY LoranetAssumption DEF Times
<1>2. T \subseteq Nat /\ T # {}
  BY <1>1
<1>3. PICK t \in T : \A u \in T : ~(<<u, t>> \in OpToRel(<, Nat))
  <2> HIDE DEF T
  <2> QED
    BY <1>2, NatLessThanWellFounded, WFMin
<1>4. PICK l \in S \ {Missing} : t = MaxEpoch - l
  BY <1>3
<1>5. ASSUME NEW y \in S \ {Missing}
      PROVE  l >= y
  <2>1. MaxEpoch - y \in T
    OBVIOUS
  <2>2. ~(<<MaxEpoch - y, t>> \in OpToRel(<, Nat))
    BY <1>3, <2>1
  <2>3. MaxEpoch - y \in Nat /\ t \in Nat
    BY <1>2, <1>3, <2>1
  <2>4. ~(MaxEpoch - y < t)
    BY <2>2, <2>3 DEF OpToRel
  <2> QED
    BY <1>1, <1>4, <2>4
<1>6. Latest(S) = Max(S \ {Missing})
  BY DEF Latest
<1> QED
  BY <1>4, <1>5, <1>6 DEF Max

(* Two sets of times none of which is later than all of the other's have   *)
(* one latest.                                                             *)
LEMMA LatestIsOne ==
  ASSUME NEW S \in SUBSET Times, NEW T \in SUBSET Times,
         \A x \in S \ {Missing} : \E y \in T \ {Missing} : x <= y,
         \A y \in T \ {Missing} : \E x \in S \ {Missing} : y <= x
  PROVE  Latest(S) = Latest(T)
<1>1. CASE S \subseteq {Missing}
  BY <1>1 DEF Latest
<1>2. CASE T \subseteq {Missing}
  BY <1>2 DEF Latest
<1>3. CASE ~(S \subseteq {Missing}) /\ ~(T \subseteq {Missing})
  <2>1. Latest(S) \in S \ {Missing} /\ \A y \in S \ {Missing} : Latest(S) >= y
    BY <1>3, LatestIs
  <2>2. Latest(T) \in T \ {Missing} /\ \A y \in T \ {Missing} : Latest(T) >= y
    BY <1>3, LatestIs
  <2>3. S \ {Missing} \subseteq Nat /\ T \ {Missing} \subseteq Nat
    <3>1. S \ {Missing} \subseteq 1..MaxEpoch /\ T \ {Missing} \subseteq 1..MaxEpoch
      BY DEF Times
    <3> QED
      BY <3>1
  <2> QED
    BY <2>1, <2>2, <2>3
<1> QED
  BY <1>1, <1>2, <1>3

LEMMA EpochIs ==
  ASSUME NEW v
  PROVE  Epoch(v) \in Times /\ (Epoch(v) # Missing => Epoch(v) = v) /\ Epoch(Garbled) = Missing
BY LoranetAssumption DEF Epoch, Times

(* Everything a node was heard doing tells when it was last seen.          *)
LEMMA LastSeenIs ==
  ASSUME NEW node, NEW e
  PROVE  LET n == ParseNode(node, e) IN
         n.lastSeen = Latest({Epoch(e.metrics), Epoch(e.mapReport), n.uplink}
                               \cup {n.heardAt[t] : t \in DOMAIN n.heardAt})
<1> DEFINE H == Heard(e.seenBy)
           G == GatewaysIn(e.seenBy, node)
           U == TimesAt(e.seenBy, H \ G)
           A == {u \in G : Epoch(e.seenBy[u]) # Missing}
           B == {e.seenBy[t] : t \in A}
           E == {Epoch(e.metrics), Epoch(e.mapReport)}
<1>1. TimesAt(e.seenBy, H) \subseteq Times /\ U \subseteq Times /\ E \subseteq Times
  BY EpochIs DEF TimesAt
<1>2. B = TimesAt(e.seenBy, G) \ {Missing}
  BY EpochIs DEF TimesAt
<1>3. TimesAt(e.seenBy, H) \subseteq U \cup B \cup {Missing} /\ U \cup B \subseteq TimesAt(e.seenBy, H)
  BY <1>2 DEF TimesAt, GatewaysIn
<1>4. /\ ParseNode(node, e).lastSeen = Latest(TimesAt(e.seenBy, H) \cup E)
      /\ ParseNode(node, e).uplink = Latest(U)
      /\ ParseNode(node, e).heardAt = [t \in A |-> e.seenBy[t]]
  BY DEF ParseNode
<1>5. {ParseNode(node, e).heardAt[t] : t \in DOMAIN ParseNode(node, e).heardAt} = B
  BY <1>4
<1>6. Latest(U) \in Times /\ (Latest(U) # Missing => Latest(U) \in U)
      /\ \A x \in U \ {Missing} : x <= Latest(U) /\ Latest(U) # Missing
  <2>1. CASE U \subseteq {Missing}
    <3>1. Latest(U) = Missing
      BY <2>1 DEF Latest
    <3> QED
      BY <2>1, <3>1 DEF Times
  <2>2. CASE ~(U \subseteq {Missing})
    <3>1. Latest(U) \in U \ {Missing} /\ \A y \in U \ {Missing} : Latest(U) >= y
      BY <1>1, <2>2, LatestIs
    <3>2. U \ {Missing} \subseteq Nat
      BY <1>1, LoranetAssumption DEF Times
    <3> QED
      BY <1>1, <3>1, <3>2
  <2> QED
    BY <2>1, <2>2
<1> HIDE DEF H, G, U, A, B, E
<1>7. Latest(TimesAt(e.seenBy, H) \cup E) = Latest(E \cup {Latest(U)} \cup B)
  <2> DEFINE S == TimesAt(e.seenBy, H) \cup E
             T == E \cup {Latest(U)} \cup B
  <2>1. S \subseteq Times /\ T \subseteq Times
    BY <1>1, <1>3, <1>6
  <2>2. \A x \in Times \ {Missing} : x <= x
    BY LoranetAssumption DEF Times
  <2>3. \A x \in S \ {Missing} : \E y \in T \ {Missing} : x <= y
    BY <1>3, <1>6, <2>1, <2>2
  <2>4. \A y \in T \ {Missing} : \E x \in S \ {Missing} : y <= x
    BY <1>3, <1>6, <2>1, <2>2
  <2> HIDE DEF S, T
  <2>5. Latest(S) = Latest(T)
    BY <2>1, <2>3, <2>4, LatestIsOne
  <2> QED
    BY <2>5 DEF S, T
<1>8. {Epoch(e.metrics), Epoch(e.mapReport), Latest(U)} \cup B = E \cup {Latest(U)} \cup B
  BY DEF E
<1> QED
  BY <1>4, <1>5, <1>7, <1>8

FieldsCostThemselves(k, e) ==
  \A f \in {"metrics", "role", "battery", "latitude", "longitude"} :
    LET bad == ParseNode(k, [e EXCEPT ![f] = Garbled]) IN
    /\ bad[f] = Missing
    /\ \A g \in DOMAIN ParseNode(k, e) \ {f, "lastSeen"} :
         {f, g} # {"latitude", "longitude"} => bad[g] = ParseNode(k, e)[g]

(* A field nobody can read costs that field.                               *)
LEMMA BadFieldCostsItself ==
  ASSUME NEW k, NEW e, IsEntry(e)
  PROVE  FieldsCostThemselves(k, e)
<1>1. Epoch(Garbled) = Missing /\ RoleOf(Garbled) = Missing /\ Plain(Garbled) = Missing
      /\ Degrees(Garbled, LatitudeLimit) = Missing /\ Degrees(Garbled, LongitudeLimit) = Missing
  <2>1. LatitudeLimit \in Nat /\ LongitudeLimit \in Nat /\ Garbled \notin Int
    BY LoranetAssumption
  <2>2. Garbled \notin -LatitudeLimit..LatitudeLimit /\ Garbled \notin -LongitudeLimit..LongitudeLimit
    BY <2>1
  <2> QED
    BY <2>2, EpochIs DEF RoleOf, Plain, Degrees
<1> SUFFICES ASSUME NEW f \in {"metrics", "role", "battery", "latitude", "longitude"}
             PROVE  LET bad == ParseNode(k, [e EXCEPT ![f] = Garbled]) IN
                    /\ bad[f] = Missing
                    /\ \A g \in DOMAIN ParseNode(k, e) \ {f, "lastSeen"} :
                         {f, g} # {"latitude", "longitude"} => bad[g] = ParseNode(k, e)[g]
  BY DEF FieldsCostThemselves
<1> DEFINE c == [e EXCEPT ![f] = Garbled]
<1>2. c[f] = Garbled /\ \A g \in EntryFields : g # f => c[g] = e[g]
  BY DEF IsEntry, EntryFields
<1> HIDE DEF c
<1>3. c.seenBy = e.seenBy
  BY <1>2 DEF EntryFields
<1>4. /\ ParseNode(k, c)[f] = Missing
      /\ \A g \in DOMAIN ParseNode(k, e) \ {f, "lastSeen"} :
           {f, g} # {"latitude", "longitude"} => ParseNode(k, c)[g] = ParseNode(k, e)[g]
  <2>1. CASE f = "metrics"
    BY <1>1, <1>2, <1>3, <2>1 DEF ParseNode, EntryFields
  <2>2. CASE f = "role"
    BY <1>1, <1>2, <1>3, <2>2 DEF ParseNode, EntryFields
  <2>3. CASE f = "battery"
    BY <1>1, <1>2, <1>3, <2>3 DEF ParseNode, EntryFields
  <2>4. CASE f = "latitude"
    BY <1>1, <1>2, <1>3, <2>4 DEF ParseNode, EntryFields
  <2>5. CASE f = "longitude"
    BY <1>1, <1>2, <1>3, <2>5 DEF ParseNode, EntryFields
  <2> QED
    BY <2>1, <2>2, <2>3, <2>4, <2>5
<1> QED
  BY <1>4 DEF c

(* Coercions counts what could not be read.                                *)
LEMMA NoneCoerced ==
  ASSUME NEW e, Coercions(e) = 0
  PROVE  ~SeenByFails(e.seenBy)
<1> DEFINE F == {f \in {"metrics", "mapReport"} : Failed(e[f], Epoch(e[f]))}
                  \cup {f \in {"role", "battery"} : e[f] = Garbled}
                  \cup {f \in {"latitude"} : Failed(e[f], Degrees(e[f], LatitudeLimit))}
                  \cup {f \in {"longitude"} : Failed(e[f], Degrees(e[f], LongitudeLimit))}
                  \cup {f \in {"seenBy"} : SeenByFails(e[f])}
           N == {} \cup {"metrics"} \cup {"mapReport"} \cup {"role"} \cup {"battery"}
                  \cup {"latitude"} \cup {"longitude"} \cup {"seenBy"}
<1>1. IsFiniteSet(N)
  <2>1. \A S, x : IsFiniteSet(S) => IsFiniteSet(S \cup {x})
    BY FS_AddElement
  <2>2. IsFiniteSet({} \cup {"metrics"} \cup {"mapReport"} \cup {"role"} \cup {"battery"})
    BY <2>1, FS_EmptySet, Zenon
  <2> QED
    BY <2>1, <2>2, Zenon
<1>2. F \in SUBSET N
  OBVIOUS
<1>3. IsFiniteSet(F)
  <2> HIDE DEF F, N
  <2> QED
    BY <1>1, <1>2, FS_Subset
<1>4. Cardinality(F) = 0
  BY DEF Coercions
<1>5. F = {}
  <2> HIDE DEF F
  <2> QED
    BY <1>3, <1>4, FS_EmptySet
<1> QED
  BY <1>5

(* parse_node, of any entry.                                               *)
LEMMA NodeIsRight ==
  ASSUME NEW k, NEW e, IsEntry(e)
  PROVE  LET n == ParseNode(k, e) IN
         /\ \A t \in DOMAIN n.heardAt : t[2] \notin {k, MapEnd}
         /\ n.count # Missing => Cardinality(DOMAIN n.heardAt) <= n.count
         /\ ~(n.latitude = 0 /\ n.longitude = 0)
         /\ Coercions(e) = 0 /\ IsObject(e.seenBy) => Cardinality(DOMAIN n.heardAt) = n.count
<1> DEFINE n == ParseNode(k, e)
           G == GatewaysIn(e.seenBy, k)
           A == {u \in G : Epoch(e.seenBy[u]) # Missing}
<1>1. /\ n.heardAt = [t \in A |-> e.seenBy[t]]
      /\ n.count = IF IsObject(e.seenBy) THEN Cardinality(G) ELSE Missing
  BY DEF ParseNode
<1>2. DOMAIN n.heardAt = A
  BY <1>1
<1>3. \A t \in A : t[2] \notin {k, MapEnd}
  BY DEF GatewaysIn, Heard
<1>4. IsFiniteSet(G)
  <2>1. CASE IsObject(e.seenBy)
    <3>1. G \in SUBSET (DOMAIN e.seenBy)
      BY <2>1 DEF GatewaysIn, Heard
    <3> QED
      BY <2>1, <3>1, FS_Subset DEF IsEntry
  <2>2. CASE ~IsObject(e.seenBy)
    BY <2>2, FS_EmptySet DEF GatewaysIn, Heard
  <2> QED
    BY <2>1, <2>2
<1>5. Cardinality(A) <= Cardinality(G)
  BY <1>4, FS_Subset
<1>6. ~(n.latitude = 0 /\ n.longitude = 0)
  <2>1. Missing # 0
    BY LoranetAssumption
  <2> QED
    BY <2>1 DEF ParseNode
<1>7. ASSUME Coercions(e) = 0, IsObject(e.seenBy)
      PROVE  A = G
  <2>1. Missing \notin TimesAt(e.seenBy, Heard(e.seenBy))
    BY <1>7, NoneCoerced DEF SeenByFails
  <2> QED
    BY <2>1 DEF TimesAt, GatewaysIn
<1> HIDE DEF n, G, A
<1>8. /\ n.count # Missing => Cardinality(DOMAIN n.heardAt) <= n.count
      /\ Coercions(e) = 0 /\ IsObject(e.seenBy) => Cardinality(DOMAIN n.heardAt) = n.count
  BY <1>1, <1>2, <1>5, <1>7
<1> QED
  BY <1>2, <1>3, <1>6, <1>8 DEF n

(* Of some places in order, those up to the k-th are k.                    *)
LEMMA NthIs ==
  ASSUME NEW U \in SUBSET Nat, IsFiniteSet(U), NEW k \in 1..Cardinality(U)
  PROVE  Nth(k, U) \in U
<1> DEFINE Rank(i) == Cardinality({j \in U : j <= i})
           R == {Rank(i) : i \in U}
<1>1. \A i \in U : IsFiniteSet({j \in U : j <= i}) /\ Rank(i) \in 1..Cardinality(U)
  <2>1. SUFFICES ASSUME NEW i \in U
                 PROVE  IsFiniteSet({j \in U : j <= i}) /\ Rank(i) \in 1..Cardinality(U)
    OBVIOUS
  <2> DEFINE V == {j \in U : j <= i}
  <2>2. V \in SUBSET U /\ i \in V
    OBVIOUS
  <2> HIDE DEF V
  <2>3. IsFiniteSet(V) /\ Cardinality(V) <= Cardinality(U)
    BY <2>2, FS_Subset
  <2>4. Cardinality(V) \in Nat /\ Cardinality(U) \in Nat /\ Cardinality(V) # 0
    BY <2>2, <2>3, FS_CardinalityType, FS_EmptySet
  <2> QED
    BY <2>3, <2>4 DEF V
<1>2. \A i, j \in U : i < j => Rank(i) < Rank(j)
  <2>1. SUFFICES ASSUME NEW i \in U, NEW j \in U, i < j
                 PROVE  Rank(i) < Rank(j)
    OBVIOUS
  <2> DEFINE V == {l \in U : l <= i}
             W == {l \in U : l <= j}
  <2>2. IsFiniteSet(W) /\ IsFiniteSet(V)
    BY <1>1
  <2>3. V \in SUBSET W /\ j \in W /\ j \notin V
    <3>1. \A l \in U : l \in Nat /\ (l <= i => l <= j)
      BY <2>1
    <3>2. i \in Nat /\ j \in Nat /\ j <= j /\ ~(j <= i)
      BY <2>1
    <3> QED
      BY <2>1, <3>1, <3>2
  <2> HIDE DEF V, W
  <2>4. Cardinality(V) <= Cardinality(W) /\ Cardinality(V) # Cardinality(W)
    BY <2>2, <2>3, FS_Subset
  <2>5. Cardinality(V) \in Nat /\ Cardinality(W) \in Nat
    BY <2>2, FS_CardinalityType
  <2>6. Cardinality(V) < Cardinality(W)
    BY <2>4, <2>5
  <2> QED
    BY <2>6 DEF V, W
<1>3. \A i, j \in U : Rank(i) = Rank(j) => i = j
  <2>1. SUFFICES ASSUME NEW i \in U, NEW j \in U, Rank(i) = Rank(j), i < j
                 PROVE  FALSE
    <3> HIDE DEF Rank
    <3> QED
      OBVIOUS
  <2>2. Rank(i) < Rank(j) /\ Rank(i) \in 1..Cardinality(U)
    BY <1>1, <1>2, <2>1
  <2> HIDE DEF Rank
  <2> QED
    BY <2>1, <2>2
<1> HIDE DEF Rank
<1>4. IsFiniteSet(R) /\ Cardinality(R) = Cardinality(U)
  <2> DEFINE f == [i \in U |-> Rank(i)]
  <2>1. f \in Bijection(U, R)
    BY <1>3 DEF Bijection, Injection, Surjection, IsInjective
  <2> QED
    BY <2>1, FS_Bijection DEF ExistsBijection
<1>5. R = 1..Cardinality(U)
  <2>1. Cardinality(U) \in Nat
    BY FS_CardinalityType
  <2>2. IsFiniteSet(1..Cardinality(U)) /\ Cardinality(1..Cardinality(U)) = Cardinality(U)
    BY <2>1, FS_Interval
  <2>3. R \in SUBSET (1..Cardinality(U))
    BY <1>1
  <2> HIDE DEF R
  <2> QED
    BY <1>4, <2>2, <2>3, FS_Subset
<1>6. PICK i \in U : Rank(i) = k
  BY <1>5
<1> QED
  BY <1>6 DEF Nth, Rank

(* parse_neighbors, of any list.                                           *)
LEMMA NeighborsAreRight ==
  ASSUME NEW payload, IsObject(payload) => /\ Len(payload) \in Nat
                                           /\ DOMAIN payload = 1..Len(payload)
  PROVE  LET got == ParseNeighbors(payload) IN
         got # <<>> => /\ Len(got) \in 1..MaxNeighbors
                       /\ \A i \in DOMAIN got : got[i].node \in Listed /\ got[i].updated \in 1..MaxEpoch
<1> DEFINE U == IF IsObject(payload) THEN {i \in DOMAIN payload : IsNeighbor(payload[i])} ELSE {}
           m == Min({Cardinality(U), MaxNeighbors})
           got == ParseNeighbors(payload)
<1>1. got = [k \in 1..m |-> Neighbor(payload[Nth(k, U)])]
  BY DEF ParseNeighbors
<1>2. U \in SUBSET Nat /\ IsFiniteSet(U) /\ Cardinality(U) \in Nat
  <2>1. U \in SUBSET Nat /\ IsFiniteSet(U)
    <3>1. CASE IsObject(payload)
      <4>1. U \in SUBSET (1..Len(payload)) /\ Len(payload) \in Nat
        BY <3>1
      <4>2. IsFiniteSet(1..Len(payload))
        BY <4>1, FS_Interval
      <4> HIDE DEF U
      <4>3. IsFiniteSet(U)
        BY <4>1, <4>2, FS_Subset
      <4> QED
        BY <4>1, <4>3
    <3>2. CASE ~IsObject(payload)
      BY <3>2, FS_EmptySet
    <3> QED
      BY <3>1, <3>2
  <2> HIDE DEF U
  <2> QED
    BY <2>1, FS_CardinalityType
<1>3. \A i \in U : IsObject(payload) /\ IsNeighbor(payload[i])
  OBVIOUS
<1> HIDE DEF U
<1>4. m \in Nat /\ m <= Cardinality(U) /\ m <= MaxNeighbors
  <2>1. MaxNeighbors \in Nat
    BY LoranetAssumption
  <2>2. \E x \in {Cardinality(U), MaxNeighbors} : \A y \in {Cardinality(U), MaxNeighbors} : x <= y
    BY <1>2, <2>1
  <2>3. /\ m \in {Cardinality(U), MaxNeighbors}
        /\ \A y \in {Cardinality(U), MaxNeighbors} : m <= y
    BY <2>2 DEF Min
  <2> QED
    BY <1>2, <2>1, <2>3
<1> HIDE DEF m, got
<1>5. DOMAIN got = 1..m /\ Len(got) = m
  BY <1>1, <1>4
<1>6. ASSUME got # <<>>
      PROVE  m # 0
  BY <1>1, <1>6
<1>7. ASSUME NEW i \in 1..m
      PROVE  got[i].node \in Listed /\ got[i].updated \in 1..MaxEpoch
  <2>1. i \in 1..Cardinality(U)
    BY <1>2, <1>4
  <2> DEFINE p == payload[Nth(i, U)]
  <2>2. IsNeighbor(p)
    BY <1>2, <1>3, <2>1, NthIs
  <2>3. got[i].node = p.node /\ got[i].updated = UpdatedAt(p.updated)
    BY <1>1 DEF Neighbor
  <2>4. UpdatedAt(p.updated) # Missing => UpdatedAt(p.updated) \in 1..MaxEpoch
    BY DEF UpdatedAt, Epoch
  <2> QED
    BY <2>2, <2>3, <2>4 DEF IsNeighbor
<1>8. MaxNeighbors \in Nat
  BY LoranetAssumption
<1> QED
  BY <1>4, <1>5, <1>6, <1>7, <1>8 DEF got

-----------------------------------------------------------------------------
(* loranet's dump, for any dumps, ids and bounds.  When something was       *)
(* downloaded is past, what the cache holds is the latest that was sound   *)
(* or was thrown out by one that was not, and what a source and an answer  *)
(* say is of a download.                                                   *)
DownloadedIn(ds, at) == \E d \in ds : d.at = at

HasRead(ds, s) == IsDump(s.index) /\ DownloadedIn(ds, s.indexAt)

TimesInv ==
  /\ time \in Nat
  /\ \A d \in downloads : d.at \in Nat /\ d.at <= time
  /\ response # Missing => response.at \in Nat /\ response.at <= time

CacheInv ==
  \A d \in downloads : d.sound =>
    \/ response # Missing /\ response.at >= d.at
    \/ \E f \in downloads : ~f.sound /\ f.at >= d.at

SourceInv == source = [index |-> source.index, indexAt |-> source.indexAt, asOf |-> source.asOf]

LEMMA FloorOfBoth == Floor \in Nat
<1>1. PICK m \in {Ttl, MinTtl} : \A y \in {Ttl, MinTtl} : m >= y
  <2>1. Ttl \in Nat /\ MinTtl \in Nat
    BY LoranetAssumption
  <2>2. CASE Ttl >= MinTtl
    BY <2>1, <2>2
  <2>3. CASE MinTtl >= Ttl
    BY <2>1, <2>3
  <2> QED
    BY <2>1, <2>2, <2>3
<1>2. Floor \in {Ttl, MinTtl}
  BY <1>1 DEF Floor, Max
<1> QED
  BY <1>2, LoranetAssumption

(* What a call that needs a dump gets: what is cached, or one of now. *)
LEMMA DownloadIs ==
  ASSUME TimesInv, NEW up, NEW force, Download(up, force) # Missing
  PROVE  LET got == Download(up, force) IN
         /\ got.at \in Nat /\ got.at <= time
         /\ \/ got = response /\ ~force
            \/ /\ got.at = time
               /\ ~force => response = Missing \/ time - response.at > Floor
BY FloorOfBoth DEF Download, Fresh, TimesInv


(* What a call does but for its answer. *)
Effect(up, force, asOf) ==
  IF source.index # Missing /\ ~force
  THEN source' = FromMemo /\ UNCHANGED <<response, downloads>>
  ELSE LET got == Download(up, force) IN
       /\ downloads' = IF got # Missing /\ (force \/ got # response)
                       THEN downloads \cup {[at |-> time, forced |-> force, sound |-> IsDump(got.dump)]}
                       ELSE downloads
       /\ IF got = Missing
          THEN source' = [source EXCEPT !.asOf = asOf] /\ UNCHANGED response
          ELSE IF IsDump(got.dump)
          THEN /\ source' = [index |-> got.dump, indexAt |-> Oldest(asOf, got.at),
                             asOf |-> Oldest(asOf, got.at)]
               /\ response' = got
          ELSE /\ source' = [source EXCEPT !.asOf = Oldest(asOf, got.at)] /\ response' = Missing

(* Of the cache, the source and the downloads nothing becomes untrue. *)
SoFarInv ==
  /\ TimesInv /\ CacheInv /\ SourceInv /\ ServiceIsSpared
  /\ response # Missing => IsDump(response.dump) /\ DownloadedIn(downloads, response.at)
  /\ HasRead(downloads, source) \/ source.index = Missing

LEMMA MemoStays ==
  ASSUME SoFarInv, UNCHANGED <<time, response, downloads>>,
         source' = [source EXCEPT !.asOf = source'.asOf]
  PROVE  SoFarInv' /\ source'.index = source.index /\ source'.indexAt = source.indexAt
<1>1. /\ source'.index = source.index /\ source'.indexAt = source.indexAt
      /\ SourceInv'
  BY DEF SoFarInv, SourceInv
<1>2. TimesInv' /\ CacheInv' /\ ServiceIsSpared'
  BY DEF SoFarInv, TimesInv, CacheInv, ServiceIsSpared
<1> QED
  BY <1>1, <1>2 DEF SoFarInv, DownloadedIn, HasRead

LEMMA DownloadedNow ==
  ASSUME SoFarInv, NEW force, NEW sound, UNCHANGED time,
         force \/ response = Missing \/ time - response.at > Floor,
         downloads' = downloads \cup {[at |-> time, forced |-> force, sound |-> sound]}
  PROVE  /\ ServiceIsSpared' /\ DownloadedIn(downloads', time)
         /\ \A d \in downloads' : d.at \in Nat /\ d.at <= time
         /\ \A at : DownloadedIn(downloads, at) => DownloadedIn(downloads', at)
<1> DEFINE now == [at |-> time, forced |-> force, sound |-> sound]
<1>1. now.at = time /\ now.forced = force /\ now.sound = sound /\ time \in Nat /\ Floor \in Nat
  BY FloorOfBoth DEF SoFarInv, TimesInv
<1>2. \A d \in downloads : d.at \in Nat /\ d.at <= time
  BY DEF SoFarInv, TimesInv
<1>3. now \in downloads' /\ downloads \subseteq downloads' /\ downloads' \subseteq downloads \cup {now}
  OBVIOUS
<1> HIDE DEF now
<1>4. ASSUME NEW d \in downloads', NEW e \in downloads',
             d.sound, ~e.forced, d.at < e.at, e.at <= d.at + Floor
      PROVE  \E f \in downloads' : ~f.sound /\ d.at <= f.at /\ f.at <= e.at
  <2>1. d \in downloads
    BY <1>1, <1>2, <1>3, <1>4
  <2>2. CASE e \in downloads
    BY <1>3, <1>4, <2>1, <2>2 DEF SoFarInv, ServiceIsSpared
  <2>3. CASE e = now
    <3>1. response = Missing \/ time - response.at > Floor
      BY <1>1, <1>4, <2>3
    <3>2. response # Missing => response.at \in Nat
      BY DEF SoFarInv, TimesInv
    <3>3. ~(response # Missing /\ response.at >= d.at)
      BY <1>1, <1>2, <1>4, <2>1, <2>3, <3>1, <3>2
    <3>4. PICK f \in downloads : ~f.sound /\ f.at >= d.at
      BY <1>4, <2>1, <3>3 DEF SoFarInv, CacheInv
    <3> QED
      BY <1>1, <1>2, <1>3, <2>1, <2>3, <3>4
  <2> QED
    BY <1>3, <2>2, <2>3
<1> QED
  BY <1>1, <1>2, <1>3, <1>4 DEF ServiceIsSpared, DownloadedIn

(* A call that needs a dump and gets none. *)
NoDump(up, force) ==
  /\ source.index = Missing \/ force
  /\ Download(up, force) = Missing \/ ~IsDump(Download(up, force).dump)

(* Whatever a call finds, the cache, the source and the downloads agree. *)
LEMMA EffectKeeps ==
  ASSUME SoFarInv, NEW up, NEW force \in BOOLEAN, NEW asOf, Effect(up, force, asOf), UNCHANGED time,
         asOf = Missing \/ (source.index # Missing /\ ~force)
  PROVE  SoFarInv' /\ (NoDump(up, force) \/ HasRead(downloads', source'))
<1> DEFINE got == Download(up, force)
           now == [at |-> time, forced |-> force, sound |-> IsDump(got.dump)]
<1>1. CASE source.index # Missing /\ ~force
  <2>1. source' = [source EXCEPT !.asOf = source'.asOf] /\ UNCHANGED <<response, downloads>>
    BY <1>1 DEF Effect, FromMemo, SoFarInv, SourceInv
  <2> QED
    BY <1>1, <2>1, MemoStays DEF SoFarInv, HasRead
<1>2. CASE ~(source.index # Missing /\ ~force) /\ got = Missing
  <2>1. source' = [source EXCEPT !.asOf = source'.asOf] /\ UNCHANGED <<response, downloads>>
    BY <1>2 DEF Effect, SoFarInv, SourceInv
  <2> QED
    BY <1>2, <2>1, MemoStays DEF NoDump
<1>3. CASE ~(source.index # Missing /\ ~force) /\ got # Missing
  <2>1. /\ got.at \in Nat /\ got.at <= time /\ time \in Nat
        /\ \/ got = response /\ ~force
           \/ got.at = time /\ (force \/ response = Missing \/ time - response.at > Floor)
    BY <1>3, DownloadIs DEF SoFarInv, TimesInv
  <2>2. /\ downloads' = IF force \/ got # response THEN downloads \cup {now} ELSE downloads
        /\ IF IsDump(got.dump)
           THEN /\ source' = [index |-> got.dump, indexAt |-> got.at, asOf |-> got.at]
                /\ response' = got
           ELSE /\ source' = [source EXCEPT !.asOf = got.at]
                /\ response' = Missing
    BY <1>3 DEF Effect, Oldest
  <2>3. SourceInv'
    BY <2>2 DEF SourceInv, SoFarInv
  <2>4. CASE got = response /\ ~force
    <3>1. IsDump(got.dump) /\ DownloadedIn(downloads, got.at) /\ UNCHANGED <<response, downloads>>
      BY <1>3, <2>2, <2>4 DEF SoFarInv
    <3>2. source'.index = got.dump /\ source'.indexAt = got.at
      BY <2>2, <3>1
    <3>3. TimesInv' /\ CacheInv' /\ ServiceIsSpared'
      BY <3>1 DEF SoFarInv, TimesInv, CacheInv, ServiceIsSpared
    <3> QED
      BY <1>3, <2>3, <2>4, <3>1, <3>2, <3>3 DEF SoFarInv, HasRead
  <2>5. CASE ~(got = response /\ ~force)
    <3>1. /\ got.at = time /\ (force \/ response = Missing \/ time - response.at > Floor)
          /\ downloads' = downloads \cup {now}
      BY <2>1, <2>2, <2>5
    <3>2. /\ ServiceIsSpared' /\ DownloadedIn(downloads', time)
          /\ \A d \in downloads' : d.at \in Nat /\ d.at <= time
          /\ \A at : DownloadedIn(downloads, at) => DownloadedIn(downloads', at)
      BY <3>1, DownloadedNow
    <3>3. now \in downloads' /\ now.at = time /\ now.sound = IsDump(got.dump)
      BY <3>1
    <3>4. TimesInv'
      BY <1>3, <2>1, <2>2, <3>1, <3>2 DEF TimesInv
    <3>5. CacheInv'
      <4>1. CASE IsDump(got.dump)
        BY <1>3, <2>2, <3>1, <3>2, <4>1 DEF CacheInv
      <4>2. CASE ~IsDump(got.dump)
        BY <3>2, <3>3, <4>2 DEF CacheInv
      <4> QED
        BY <4>1, <4>2
    <3>6. response' # Missing => IsDump(response'.dump) /\ DownloadedIn(downloads', response'.at)
      BY <2>2, <3>1, <3>2
    <3>7. /\ HasRead(downloads', source') \/ source'.index = Missing
          /\ HasRead(downloads', source') \/ ~IsDump(got.dump)
      <4>1. CASE IsDump(got.dump)
        BY <2>2, <3>1, <3>2, <4>1 DEF HasRead
      <4>2. CASE ~IsDump(got.dump)
        <5>1. source'.index = source.index /\ source'.indexAt = source.indexAt
          BY <2>2, <4>2 DEF SoFarInv, SourceInv
        <5> QED
          BY <3>2, <4>2, <5>1 DEF SoFarInv, HasRead
      <4> QED
        BY <4>1, <4>2
    <3> QED
      BY <1>3, <2>3, <3>2, <3>4, <3>5, <3>6, <3>7 DEF SoFarInv, NoDump
  <2> QED
    BY <2>4, <2>5
<1> QED
  BY <1>1, <1>2, <1>3

(* An answer that gives nodes is of the dump the source has read, and dated *)
(* as that is.                                                             *)
AnswerIsOf(said, s) ==
  said # Missing /\ said.kind = "nodes" =>
    said = Parsed(s.index, said.keys, s.indexAt)

AnswerInv ==
  /\ AnswerIsOf(answer, source)
  /\ answer # Missing /\ answer.kind = "nodes" =>
       HasRead(downloads, source) /\ answer.keys \subseteq DOMAIN source.index
  /\ answer # Missing /\ answer.kind = "lists" =>
       source.index # Missing /\ answer = Lists(source.index)

LEMMA ParsedSays ==
  ASSUME NEW index, NEW keys, NEW asOf
  PROVE  LET p == Parsed(index, keys, asOf) IN
         p.kind = "nodes" /\ p.asOf = asOf /\ p.keys = keys
BY DEF Parsed

LEMMA FetchKeeps ==
  ASSUME SoFarInv, NEW up, NEW force \in BOOLEAN, NEW keys, Effect(up, force, Missing), UNCHANGED time,
         IF NoDump(up, force) THEN answer' = Failure
         ELSE /\ answer' = Parsed(source'.index, keys, source'.indexAt)
              /\ keys \subseteq DOMAIN source'.index
  PROVE  SoFarInv' /\ AnswerInv'
<1>1. SoFarInv' /\ (NoDump(up, force) \/ HasRead(downloads', source'))
  BY EffectKeeps
<1>2. CASE NoDump(up, force)
  <2>1. answer'.kind # "nodes" /\ answer'.kind # "lists"
    BY <1>2 DEF Failure
  <2> QED
    BY <1>1, <2>1 DEF AnswerInv, AnswerIsOf
<1>3. CASE ~NoDump(up, force)
  <2>1. answer'.kind = "nodes" /\ answer'.keys = keys
    BY <1>3, ParsedSays
  <2> QED
    BY <1>1, <1>3, <2>1 DEF AnswerInv, AnswerIsOf
<1> QED
  BY <1>2, <1>3

(* The calls, the fates of a source, and what happens meanwhile. *)
LEMMA FetchNodesKeeps ==
  ASSUME SoFarInv, FetchNodes
  PROVE  SoFarInv' /\ AnswerInv'
<1>1. PICK up \in BOOLEAN, force \in BOOLEAN :
        Reads(up, force, Missing,
              LAMBDA index, asOf : Parsed(index, AskedIds \cap DOMAIN index, asOf))
  BY DEF FetchNodes
<1>2. Effect(up, force, Missing) /\ UNCHANGED time
  BY <1>1 DEF Reads, Effect, FetchNodes, Counts
<1>3. IF NoDump(up, force) THEN answer' = Failure
      ELSE answer' = Parsed(source'.index, AskedIds \cap DOMAIN source'.index, source'.indexAt)
  <2>1. CASE source.index # Missing /\ ~force
    <3>1. answer' = Parsed(source.index, AskedIds \cap DOMAIN source.index, FromMemo.asOf)
          /\ source' = FromMemo
      BY <1>1, <2>1 DEF Reads
    <3>2. FromMemo.asOf = source.indexAt /\ FromMemo.index = source.index /\ FromMemo.indexAt = source.indexAt
      BY DEF FromMemo, SoFarInv, SourceInv
    <3> QED
      BY <2>1, <3>1, <3>2 DEF NoDump
  <2>2. CASE ~(source.index # Missing /\ ~force)
    BY <1>1, <2>2 DEF Reads, NoDump, Oldest
  <2> QED
    BY <2>1, <2>2
<1> QED
  BY <1>2, <1>3, FetchKeeps

LEMMA FetchAllKeeps ==
  ASSUME SoFarInv, FetchAll
  PROVE  SoFarInv' /\ AnswerInv'
<1>1. PICK up \in BOOLEAN, force \in BOOLEAN :
        ~force /\ Reads(up, force, Missing, 
                        LAMBDA index, asOf : Parsed(index, DOMAIN index, asOf))
  BY DEF FetchAll
<1>2. Effect(up, force, Missing) /\ UNCHANGED time
  BY <1>1 DEF Reads, Effect, FetchAll, Counts
<1>3. IF NoDump(up, force) THEN answer' = Failure
      ELSE answer' = Parsed(source'.index, DOMAIN source'.index, source'.indexAt)
  <2>1. source.index = Missing
    BY DEF FetchAll, NewSource
  <2>2. ~(source.index # Missing /\ ~force)
    BY <2>1
  <2> QED
    BY <1>1, <2>2 DEF Reads, NoDump, Oldest
<1> QED
  BY <1>2, <1>3, FetchKeeps

LEMMA ReportedNeighborsKeeps ==
  ASSUME SoFarInv, ReportedNeighbors
  PROVE  SoFarInv' /\ AnswerInv'
<1>1. PICK up \in BOOLEAN : Reads(up, FALSE, source.asOf, LAMBDA index, asOf : Lists(index))
  BY DEF ReportedNeighbors
<1>2. Effect(up, FALSE, source.asOf) /\ UNCHANGED time /\ source.index # Missing
  BY <1>1 DEF Reads, Effect, ReportedNeighbors, Counts
<1>3. SoFarInv'
  BY <1>2, EffectKeeps
<1>4. answer' = Lists(source.index)
  BY <1>1, <1>2 DEF Reads
<1>5. answer'.kind # "nodes" /\ source'.index = source.index
  BY <1>1, <1>2, <1>4 DEF Lists, Reads, FromMemo, SoFarInv, SourceInv
<1> QED
  BY <1>2, <1>3, <1>4, <1>5 DEF AnswerInv, AnswerIsOf

LEMMA RenewKeeps ==
  ASSUME SoFarInv, Renew
  PROVE  SoFarInv' /\ AnswerInv'
<1>1. SourceInv' /\ source'.index = Missing
  BY DEF Renew, NewSource, SourceInv
<1>2. TimesInv' /\ CacheInv' /\ ServiceIsSpared' /\ UNCHANGED <<response, downloads>>
  BY DEF Renew, SoFarInv, TimesInv, CacheInv, ServiceIsSpared
<1> QED
  BY <1>1, <1>2 DEF SoFarInv, AnswerInv, AnswerIsOf, Renew

LEMMA MeanwhileKeeps ==
  ASSUME SoFarInv, AnswerInv, Publish \/ TimePasses \/ UNCHANGED loranetVars
  PROVE  SoFarInv' /\ AnswerInv'
<1>1. UNCHANGED <<response, source, answer, downloads>>
  BY DEF Publish, TimePasses, loranetVars
<1>2. time' \in Nat /\ time' >= time /\ time \in Nat
  BY DEF Publish, TimePasses, loranetVars, SoFarInv, TimesInv
<1>3. TimesInv'
  BY <1>1, <1>2 DEF SoFarInv, TimesInv
<1>4. CacheInv' /\ SourceInv' /\ ServiceIsSpared' /\ AnswerInv'
  BY <1>1 DEF SoFarInv, CacheInv, SourceInv, ServiceIsSpared, AnswerInv, AnswerIsOf
<1> QED
  BY <1>1, <1>3, <1>4 DEF SoFarInv

LEMMA LoranetInvHolds == LoranetSpec => [](SoFarInv /\ AnswerInv)
<1>1. LoranetInit => SoFarInv /\ AnswerInv
  BY DEF LoranetInit, LoranetStart, NewSource, SoFarInv, TimesInv, CacheInv, SourceInv,
         ServiceIsSpared, AnswerInv, AnswerIsOf
<1>2. SoFarInv /\ AnswerInv /\ [LoranetNext]_loranetVars => (SoFarInv /\ AnswerInv)'
  BY FetchNodesKeeps, FetchAllKeeps, ReportedNeighborsKeeps, RenewKeeps, MeanwhileKeeps
     DEF LoranetNext
<1> QED
  BY <1>1, <1>2, PTL DEF LoranetSpec

(* What is shown is of one dump that was downloaded, and as old.           *)
LEMMA AgeIsRight ==
  ASSUME SoFarInv, AnswerInv
  PROVE  AgeIsTold /\ ServiceIsSpared
<1>1. ServiceIsSpared
  BY DEF SoFarInv
<1>2. /\ response # Missing => IsDump(response.dump) /\ \E d \in downloads : d.at = response.at
      /\ source.index # Missing =>
           IsDump(source.index) /\ \E d \in downloads : d.at = source.indexAt
  BY DEF SoFarInv, HasRead, DownloadedIn
<1>3. ASSUME answer # Missing, answer.kind = "nodes"
      PROVE  /\ answer.asOf = source.indexAt
             /\ \E d \in downloads : d.at = answer.asOf
             /\ answer = Parsed(source.index, answer.keys, answer.asOf)
  <2>1. answer = Parsed(source.index, answer.keys, source.indexAt) /\ HasRead(downloads, source)
    BY <1>3 DEF AnswerInv, AnswerIsOf
  <2>2. answer.asOf = source.indexAt
    BY <2>1, ParsedSays
  <2> QED
    BY <2>1, <2>2 DEF HasRead, DownloadedIn
<1> QED
  BY <1>1, <1>2, <1>3 DEF AgeIsTold

(* Every dump that is served, cached or read is one that was published.    *)
PublishedInv ==
  /\ serving \in Seq(Published) /\ serving # <<>>
  /\ response # Missing => response.dump \in Published
  /\ source.index # Missing => source.index \in Published
  /\ answer # Missing /\ answer.kind = "nodes" => source.index # Missing

LEMMA EffectOfPublished ==
  ASSUME SoFarInv, PublishedInv, NEW up, NEW force \in BOOLEAN, NEW asOf, Effect(up, force, asOf),
         UNCHANGED serving, NoDump(up, force) => answer' = Failure
  PROVE  PublishedInv'
<1> DEFINE got == Download(up, force)
<1>1. got # Missing => got.dump \in Published
  <2>1. serving[1] \in Published
    BY DEF PublishedInv
  <2> QED
    BY <2>1 DEF Download, PublishedInv
<1>2. source' = [source EXCEPT !.asOf = source'.asOf] => source'.index = source.index
  BY DEF SoFarInv, SourceInv
<1>3. /\ source' = [source EXCEPT !.asOf = source'.asOf] \/ (got # Missing /\ source'.index = got.dump)
      /\ response' \in {response, Missing} \/ (got # Missing /\ response' = got)
  BY DEF Effect, FromMemo, SoFarInv, SourceInv
<1>4. NoDump(up, force) \/ source'.index # Missing
  <2>1. SUFFICES ASSUME ~NoDump(up, force), ~(source.index # Missing /\ ~force)
                 PROVE  source'.index # Missing
    BY DEF Effect, FromMemo, SoFarInv, SourceInv
  <2>2. got # Missing /\ source'.index = got.dump
    BY <2>1 DEF Effect, NoDump
  <2> QED
    BY <1>1, <2>2, ServingsAssumption
<1>5. NoDump(up, force) => answer'.kind # "nodes"
  BY DEF Failure
<1> HIDE DEF got
<1> QED
  BY <1>1, <1>2, <1>3, <1>4, <1>5 DEF PublishedInv

LEMMA PublishedKept == LoranetSpec => []PublishedInv
<1>1. LoranetInit => PublishedInv
  BY ServingsAssumption DEF LoranetInit, LoranetStart, NewSource, PublishedInv
<1>2. SoFarInv /\ PublishedInv /\ [LoranetNext]_loranetVars => PublishedInv'
  <2> SUFFICES ASSUME SoFarInv, PublishedInv, [LoranetNext]_loranetVars  PROVE PublishedInv'
    OBVIOUS
  <2>1. CASE FetchNodes
    <3>1. PICK up \in BOOLEAN, force \in BOOLEAN :
            Effect(up, force, Missing) /\ (NoDump(up, force) => answer' = Failure)
      BY <2>1 DEF FetchNodes, Reads, Effect, NoDump
    <3> QED
      BY <2>1, <3>1, EffectOfPublished DEF FetchNodes, Counts
  <2>2. CASE FetchAll
    <3>1. PICK up \in BOOLEAN :
            Effect(up, FALSE, Missing) /\ (NoDump(up, FALSE) => answer' = Failure)
      BY <2>2 DEF FetchAll, Reads, Effect, NoDump
    <3> QED
      BY <2>2, <3>1, EffectOfPublished DEF FetchAll, Counts
  <2>3. CASE ReportedNeighbors
    <3>1. PICK up \in BOOLEAN :
            Effect(up, FALSE, source.asOf) /\ (NoDump(up, FALSE) => answer' = Failure)
      BY <2>3 DEF ReportedNeighbors, Reads, Effect, NoDump
    <3> QED
      BY <2>3, <3>1, EffectOfPublished DEF ReportedNeighbors, Counts
  <2>4. CASE Renew
    BY <2>4 DEF Renew, NewSource, PublishedInv
  <2>5. CASE Publish
    <3>1. Tail(serving) \in Seq(Published) /\ Tail(serving) # <<>>
      <4> DEFINE before == Len(serving)
                 after  == Len(Tail(serving))
      <4>1. serving \in Seq(Published) /\ before \in Nat /\ before > 1
        BY <2>5 DEF Publish, PublishedInv
      <4>2. Tail(serving) \in Seq(Published) /\ after = before - 1
        BY <4>1
      <4>3. after # 0
        <5> HIDE DEF before, after
        <5> QED
          BY <4>1, <4>2
      <4>4. Len(<<>>) = 0
        OBVIOUS
      <4> QED
        BY <4>2, <4>3, <4>4, Zenon
    <3> QED
      BY <2>5, <3>1 DEF Publish, PublishedInv
  <2>6. CASE TimePasses \/ UNCHANGED loranetVars
    BY <2>6 DEF TimePasses, loranetVars, PublishedInv
  <2> QED
    BY <2>1, <2>2, <2>3, <2>4, <2>5, <2>6 DEF LoranetNext
<1> QED
  BY <1>1, <1>2, LoranetInvHolds, PTL DEF LoranetSpec

(* Of every entry the answer says what can be read, and counts the others. *)
LEMMA EntriesOfPublished ==
  ASSUME AnswerInv, PublishedInv
  PROVE  EntriesAreRight
<1>1. SUFFICES ASSUME answer # Missing, answer.kind = "nodes"
               PROVE  EntriesAreRight
  BY DEF EntriesAreRight
<1> DEFINE index == source.index
           keys  == answer.keys
           lost  == Skips(index, keys)
<1>2. /\ answer = Parsed(index, keys, source.indexAt)
      /\ IsDump(index) /\ keys \subseteq DOMAIN index
  BY <1>1 DEF AnswerInv, AnswerIsOf, HasRead
<1>3. /\ answer.skipped = Cardinality(lost)
      /\ answer.nodes = [k \in keys \ lost |-> ParseNode(k, index[k])]
  BY <1>2 DEF Parsed
<1>4. index \in Published \ {Garbled}
  BY <1>1, <1>2 DEF PublishedInv, IsDump
<1>5. IsFiniteSet(keys) /\ \A k \in keys \ lost : IsEntry(index[k])
  <2>1. IsFiniteSet(DOMAIN index) /\ \A k \in DOMAIN index : IsObject(index[k]) => IsEntry(index[k])
    BY <1>4, ServingsAssumption
  <2>2. \A k \in keys \ lost : IsObject(index[k])
    BY DEF Skips
  <2>3. IsFiniteSet(keys)
    BY <1>2, <2>1, FS_Subset
  <2> QED
    BY <1>2, <2>1, <2>2, <2>3
<1>6. lost \subseteq keys
  BY DEF Skips
<1> HIDE DEF index, keys, lost
<1>7. Cardinality(lost) + Cardinality(keys \ lost) = Cardinality(keys)
  <2>1. /\ IsFiniteSet(lost) /\ IsFiniteSet(keys \ lost)
        /\ lost \cup (keys \ lost) = keys /\ lost \cap (keys \ lost) = {}
    BY <1>5, <1>6, FS_Subset
  <2>2. Cardinality(lost \cap (keys \ lost)) = 0
    BY <2>1, FS_EmptySet
  <2>3. Cardinality(lost \cup (keys \ lost))
          = Cardinality(lost) + Cardinality(keys \ lost) - Cardinality(lost \cap (keys \ lost))
    BY <2>1, FS_Union
  <2>4. Cardinality(lost) \in Nat /\ Cardinality(keys \ lost) \in Nat
    BY <2>1, FS_CardinalityType
  <2> QED
    BY <2>1, <2>2, <2>3, <2>4
<1>8. ASSUME NEW k \in DOMAIN answer.nodes
      PROVE  LET e == index[k]
                 n == answer.nodes[k]
                 said == {Epoch(e.metrics), Epoch(e.mapReport), n.uplink}
                           \cup {n.heardAt[t] : t \in DOMAIN n.heardAt} IN
             /\ n.lastSeen = Latest(said)
             /\ \A t \in DOMAIN n.heardAt : t[2] \notin {k, MapEnd}
             /\ n.count # Missing => Cardinality(DOMAIN n.heardAt) <= n.count
             /\ ~(n.latitude = 0 /\ n.longitude = 0)
             /\ Coercions(e) = 0 /\ IsObject(e.seenBy) => Cardinality(DOMAIN n.heardAt) = n.count
             /\ \A f \in {"metrics", "role", "battery", "latitude", "longitude"} :
                  LET bad == ParseNode(k, [e EXCEPT ![f] = Garbled]) IN
                  /\ bad[f] = Missing
                  /\ \A g \in DOMAIN n \ {f, "lastSeen"} :
                       {f, g} # {"latitude", "longitude"} => bad[g] = n[g]
  <2>1. answer.nodes[k] = ParseNode(k, index[k]) /\ IsEntry(index[k])
    BY <1>3, <1>5
  <2> DEFINE e == index[k]
  <2> HIDE DEF e
  <2>2. IsEntry(e) /\ answer.nodes[k] = ParseNode(k, e)
    BY <2>1 DEF e
  <2>3. answer.nodes[k].lastSeen
          = Latest({Epoch(e.metrics), Epoch(e.mapReport), answer.nodes[k].uplink}
                     \cup {answer.nodes[k].heardAt[t] : t \in DOMAIN answer.nodes[k].heardAt})
    BY <2>2, LastSeenIs
  <2>4. /\ \A t \in DOMAIN answer.nodes[k].heardAt : t[2] \notin {k, MapEnd}
        /\ answer.nodes[k].count # Missing =>
             Cardinality(DOMAIN answer.nodes[k].heardAt) <= answer.nodes[k].count
        /\ ~(answer.nodes[k].latitude = 0 /\ answer.nodes[k].longitude = 0)
        /\ Coercions(e) = 0 /\ IsObject(e.seenBy) =>
             Cardinality(DOMAIN answer.nodes[k].heardAt) = answer.nodes[k].count
    BY <2>2, NodeIsRight
  <2>5. FieldsCostThemselves(k, e)
    BY <2>2, BadFieldCostsItself
  <2>6. \A f \in {"metrics", "role", "battery", "latitude", "longitude"} :
          LET bad == ParseNode(k, [e EXCEPT ![f] = Garbled]) IN
          /\ bad[f] = Missing
          /\ \A g \in DOMAIN answer.nodes[k] \ {f, "lastSeen"} :
               {f, g} # {"latitude", "longitude"} => bad[g] = answer.nodes[k][g]
    BY <2>2, <2>5, Zenon DEF FieldsCostThemselves
  <2> QED
    BY <2>3, <2>4, <2>6 DEF e
<1> QED
  BY <1>3, <1>7, <1>8 DEF EntriesAreRight, index, keys

LEMMA ListsOfPublished ==
  ASSUME SoFarInv, AnswerInv, PublishedInv
  PROVE  ListsAreRight
<1>1. SUFFICES ASSUME answer # Missing, answer.kind = "lists"
               PROVE  ListsAreRight
  BY DEF ListsAreRight
<1>2. source.index # Missing /\ answer = Lists(source.index) /\ source.index \in Published
  BY <1>1 DEF AnswerInv, PublishedInv
<1>3. ASSUME NEW k \in DOMAIN answer.lists
      PROVE  /\ Len(answer.lists[k]) \in 1..MaxNeighbors
             /\ \A i \in DOMAIN answer.lists[k] :
                  answer.lists[k][i].node \in Listed /\ answer.lists[k][i].updated \in 1..MaxEpoch
  <2>1. /\ k \in DOMAIN source.index /\ IsObject(source.index[k])
        /\ answer.lists[k] = ParseNeighbors(source.index[k].neighbors)
        /\ ParseNeighbors(source.index[k].neighbors) # <<>>
    BY <1>2, <1>3 DEF Lists
  <2>2. IsEntry(source.index[k])
    <3>1. source.index # Garbled
      BY <1>2 DEF SoFarInv, HasRead, IsDump
    <3> QED
      BY <1>2, <2>1, <3>1, ServingsAssumption
  <2> QED
    BY <2>1, <2>2, NeighborsAreRight DEF IsEntry
<1> QED
  BY <1>1, <1>2, <1>3 DEF ListsAreRight

(* What is shown of loranet's dump is as old as it is said to be, is of one *)
(* dump that was downloaded, and comes without asking the service more      *)
(* often than it allows (datasources/loranet.py: raw_index, fetch_nodes).   *)
(* An entry or a field that cannot be read costs itself only, and nothing  *)
(* is invented (parse_node, parse_neighbors).                              *)
THEOREM LoranetStaysTold == LoranetSpec => []LoranetIsTold
<1>1. SoFarInv /\ AnswerInv /\ PublishedInv => LoranetIsTold
  BY AgeIsRight, EntriesOfPublished, ListsOfPublished DEF LoranetIsTold
<1> QED
  BY <1>1, LoranetInvHolds, PublishedKept, PTL
=============================================================================
