-------------------------- MODULE HistoryStore_proofs --------------------------
(***************************************************************************)
(* Theorems about module HistoryStore, for any number of commands, nodes   *)
(* and refreshes, any fleets, traffic and bounds, and any lengths of the   *)
(* hour, the day and the retentions; and about what is said from those     *)
(* hours, by modules NodeStatus and NodeHealth, for any sights, histories  *)
(* and fleets and any windows and limits.                                  *)
(***************************************************************************)
EXTENDS HistoryStore, NodeHealth, Hours_proofs

(* What is stored of an hour of a node need not be asked for again: some   *)
(* refresh wrote it that asked when it was over, or lorastats did not      *)
(* answer it, or it is past the retention.                                 *)
Covered(n, h) ==
  \/ h \in excused[n]
  \/ h < FloorHour(clock - Retention)
  \/ newest[n][h] # None /\ newest[n][h] >= h + HourTicks

CoveredTo(n, t) == \A h \in HourStarts : h < FloorHour(t) => Covered(n, h)

(* A file holds true hours; before its last refresh all was written once.  *)
FileInv(n) == file[n] # None =>
  /\ Sound(file[n].hours, traffic, clock)
  /\ file[n].fetched # None => file[n].fetched <= clock /\ CoveredTo(n, file[n].fetched)

(* A command works on its own fleet and deletes none of that.              *)
WorkInv(p) ==
  /\ pc[p] = "idle" => wrote[p] = {}
  /\ pc[p] # "idle" =>
       /\ job[p].left \subseteq job[p].fleet /\ wrote[p] \subseteq job[p].fleet
       /\ job[p].doomed \cap job[p].fleet = {}
  /\ pc[p] \in {"answered", "merging", "listing"} => job[p].node \in job[p].fleet

(* It has true hours in hand, those it asked for that lorastats answered,  *)
(* and the file as it once was.                                            *)
Answered(p) ==
  /\ Sound(job[p].new, traffic, clock)
  /\ job[p].at = None => Stored(job[p].new) = {}
  /\ job[p].at # None =>
       /\ job[p].at <= clock
       /\ \A h \in Stored(job[p].new) : job[p].new[h].asof = job[p].at
       /\ \A h \in HourStarts :
            h < FloorHour(job[p].at) => Covered(job[p].node, h) \/ h \in Stored(job[p].new)

HasRead(p) ==
  /\ job[p].now # None /\ job[p].now <= clock
  /\ job[p].read \in [hours : HoursType, fetched : Moment]
  /\ job[p].at # None => job[p].at <= job[p].now
  /\ Sound(job[p].read.hours, traffic, clock)
  /\ job[p].read.fetched # None =>
       job[p].read.fetched <= clock /\ CoveredTo(job[p].node, job[p].read.fetched)

JobInv(p) ==
  /\ WorkInv(p)
  /\ pc[p] = "next" => job[p].at = None /\ job[p].new = NoHours
  /\ pc[p] \in {"answered", "merging"} => Answered(p)
  /\ pc[p] = "merging" => HasRead(p)

IInv ==
  /\ TypeOK /\ GoneBy(gone, clock)
  /\ \A n \in Nodes : FileInv(n)
  /\ \A p \in Procs : JobInv(p)

-----------------------------------------------------------------------------
LEMMA LaterIs ==
  ASSUME NEW a \in Moment, NEW b \in Moment
  PROVE  /\ Later(a, b) \in Moment /\ (Later(a, b) = a \/ Later(a, b) = b)
         /\ b # None => Later(a, b) \in Time /\ Later(a, b) >= b
         /\ a # None => Later(a, b) \in Time /\ Later(a, b) >= a
BY NoneIsNoBucket DEF Later, Time, Moment

LEMMA FittingIsSound ==
  ASSUME NEW hours \in HoursType, NEW t, NEW now, Sound(hours, t, now)
  PROVE  /\ Fitting(hours) \in HoursType /\ Sound(Fitting(hours), t, now)
         /\ \A h \in HourStarts : Fitting(hours)[h] \in {None, hours[h]}
BY DropIsSound DEF Fitting

LEMMA NoWorkIs ==
  ASSUME NEW crew \in Fleets
  PROVE  NoWork(crew) \in JobType
BY NoHoursAreSound, HistoryStoreAssumption DEF NoWork, JobType, Moment

(* The work of a command, with its fields typed.                           *)
LEMMA JobIs ==
  ASSUME TypeOK, NEW p \in Procs, pc[p] # "idle"
  PROVE  /\ job[p] \in JobType /\ job[p].fleet \in Fleets /\ job[p].fleet \in SUBSET Nodes
         /\ job[p].left \in SUBSET Nodes /\ job[p].at \in Moment /\ job[p].now \in Moment
         /\ job[p].new \in HoursType /\ clock \in Time /\ clock \in Nat
BY HistoryStoreAssumption DEF TypeOK, JobType, Time

(* Command p goes on to a step with some work.                             *)
Moved(p, l, j) == pc' = [pc EXCEPT ![p] = l] /\ job' = [job EXCEPT ![p] = j]

LEMMA MovedIs ==
  ASSUME TypeOK, NEW p \in Procs, NEW l \in Steps, NEW j \in JobType \cup {None},
         l = "idle" <=> j = None, Moved(p, l, j)
  PROVE  /\ pc' \in [Procs -> Steps] /\ job' \in [Procs -> JobType \cup {None}]
         /\ \A q \in Procs : pc'[q] = "idle" <=> job'[q] = None
         /\ \A q \in Procs : q # p => pc'[q] = pc[q] /\ job'[q] = job[q]
         /\ pc'[p] = l /\ job'[p] = j
BY DEF TypeOK, Moved

(* What is covered stays covered while the clock and the record move on.   *)
LEMMA CoveredStays ==
  ASSUME TypeOK, TypeOK', clock <= clock',
         NEW n \in Nodes, NEW h \in HourStarts, Covered(n, h), excused[n] \subseteq excused'[n],
         newest[n][h] # None => newest'[n][h] # None /\ newest[n][h] <= newest'[n][h]
  PROVE  Covered(n, h)'
<1>1. clock \in Nat /\ clock' \in Nat /\ h \in Nat
  BY HourStartsAre DEF TypeOK, Time
<1>2. CASE h \in excused[n]
  BY <1>2 DEF Covered
<1>3. CASE h < FloorHour(clock - Retention)
  <2>1. FloorHour(clock - Retention) <= FloorHour(clock' - Retention)
    BY <1>1, FloorHourMoves, HoursAssumption
  <2>2. FloorHour(clock - Retention) \in Int /\ FloorHour(clock' - Retention) \in Int
    BY <1>1, FloorHourIs, HoursAssumption
  <2>. QED  BY <1>1, <1>3, <2>1, <2>2 DEF Covered
<1>4. CASE newest[n][h] # None /\ newest[n][h] >= h + HourTicks
  <2>1. newest[n][h] \in Nat /\ newest'[n][h] \in Nat
    BY <1>4 DEF TypeOK, Time, Moment
  <2>. QED  BY <1>1, <1>4, <2>1, Ticks DEF Covered
<1>. QED  BY <1>2, <1>3, <1>4 DEF Covered

Onward == /\ TypeOK /\ TypeOK' /\ clock <= clock' /\ traffic' = traffic
          /\ \A n \in Nodes, h \in HourStarts : Covered(n, h) => Covered(n, h)'

(* A command that does nothing keeps its part of the invariant.            *)
LEMMA JobWaits ==
  ASSUME Onward, NEW p \in Procs, JobInv(p), pc'[p] = pc[p], job'[p] = job[p],
         wrote'[p] \subseteq wrote[p]
  PROVE  JobInv(p)'
<1>1. WorkInv(p)'
  BY DEF JobInv, WorkInv
<1>2. CASE pc[p] \notin {"answered", "merging"}
  BY <1>1, <1>2 DEF JobInv
<1>3. CASE pc[p] \in {"answered", "merging"}
  <2>1. PICK n \in Nodes : n = job[p].node
    BY <1>3, JobIs DEF JobInv, WorkInv, Onward
  <2>2. /\ job[p].at \in Moment /\ job[p].now \in Moment /\ job[p].new \in HoursType
        /\ clock \in Nat /\ clock' \in Nat /\ clock <= clock' /\ traffic' = traffic
    BY <1>3, JobIs DEF Onward, TypeOK, Time
  <2>3. \A t \in Moment : t # None /\ t <= clock => t <= clock'
    BY <2>2, NoneIsNoBucket DEF Moment, Time
  <2>4. \A h \in HourStarts : Covered(n, h) => Covered(n, h)'
    BY DEF Onward
  <2>5. Answered(p)'
    <3>1. Answered(p)
      BY <1>3 DEF JobInv
    <3>2. Sound(job[p].new, traffic', clock')
      BY <2>2, <3>1, SoundLater DEF Answered
    <3>3. \A h \in HourStarts : Covered(job[p].node, h) => Covered(job[p].node, h)'
      BY <2>1, <2>4 DEF Covered
    <3>. QED  BY <2>2, <2>3, <3>1, <3>2, <3>3 DEF Answered
  <2>6. CASE pc[p] = "merging"
    <3>1. HasRead(p)
      BY <2>6 DEF JobInv
    <3>2. Sound(job[p].read.hours, traffic', clock')
      BY <2>2, <3>1, SoundLater DEF HasRead
    <3>3. PICK t \in Moment : t = job[p].read.fetched
      BY <2>2, <3>1 DEF HasRead
    <3>4. t # None => t <= clock' /\ CoveredTo(n, t)'
      BY <2>1, <2>3, <2>4, <3>1, <3>3 DEF HasRead, CoveredTo
    <3>5. job[p].read.fetched # None => CoveredTo(job[p].node, job[p].read.fetched)'
      BY <2>1, <3>3, <3>4 DEF CoveredTo, Covered
    <3>6. HasRead(p)'
      BY <2>2, <2>3, <3>1, <3>2, <3>3, <3>4, <3>5 DEF HasRead
    <3>. QED  BY <1>1, <2>5, <2>6, <3>6 DEF JobInv
  <2>. QED  BY <1>1, <1>3, <2>5, <2>6 DEF JobInv
<1>. QED  BY <1>2, <1>3

(* A file that is not written keeps its part, or is gone.                  *)
LEMMA FileWaits ==
  ASSUME Onward, NEW n \in Nodes, FileInv(n), file'[n] \in {None, file[n]}
  PROVE  FileInv(n)'
<1>. SUFFICES ASSUME file'[n] # None  PROVE FileInv(n)'
  BY DEF FileInv
<1>1. /\ file[n] # None /\ file'[n] = file[n] /\ file[n].hours \in HoursType
      /\ file[n].fetched \in Moment /\ clock \in Nat /\ clock' \in Nat
      /\ clock <= clock' /\ traffic' = traffic
  BY DEF Onward, TypeOK, History, Time
<1>2. Sound(file[n].hours, traffic', clock')
  BY <1>1, SoundLater DEF FileInv
<1>3. file[n].fetched # None => file[n].fetched <= clock'
  BY <1>1, NoneIsNoBucket DEF FileInv, Moment, Time
<1>4. PICK t \in Moment : t = file[n].fetched
  BY <1>1
<1>5. t # None => CoveredTo(n, t)'
  BY <1>1, <1>4 DEF FileInv, CoveredTo, Onward
<1>6. t # None => CoveredTo(n, file[n].fetched)'
  BY <1>1, <1>4, <1>5 DEF CoveredTo
<1>. QED  BY <1>1, <1>2, <1>3, <1>4, <1>6 DEF FileInv

(* A step of one command.                                                  *)
LEMMA CommandStep ==
  ASSUME IInv, Onward, NEW p \in Procs, UNCHANGED <<clock, gone>>,
         \A q \in Procs : q # p => /\ pc'[q] = pc[q] /\ job'[q] = job[q]
                                   /\ wrote'[q] \subseteq wrote[q],
         \A n \in Nodes : FileInv(n)', JobInv(p)'
  PROVE  IInv'
<1>1. \A q \in Procs : JobInv(q)'
  <2>1. SUFFICES ASSUME NEW q \in Procs, q # p  PROVE JobInv(q)'
    OBVIOUS
  <2>2. JobInv(q)
    BY DEF IInv
  <2>. QED  BY <2>1, <2>2, JobWaits
<1>. QED  BY <1>1 DEF IInv, Onward

(* A step of one command that changes its own work, and no file.           *)
LEMMA OwnStep ==
  ASSUME IInv, NEW p \in Procs, NEW l \in Steps, NEW j \in JobType \cup {None},
         l = "idle" <=> j = None, Moved(p, l, j),
         UNCHANGED <<world, file, newest>>,
         excused' \in [Nodes -> SUBSET HourStarts],
         dropped' \in [Nodes -> SUBSET HourStarts],
         overlapped' \in [Nodes -> SUBSET HourStarts],
         \A n \in Nodes : excused[n] \subseteq excused'[n],
         wrote' \in [Procs -> SUBSET Nodes],
         \A q \in Procs : q # p => wrote'[q] = wrote[q],
         refreshes' \in 0..MaxRefreshes, faults' \subseteq {"write", "kill"},
         JobInv(p)'
  PROVE  IInv'
<1>1. UNCHANGED <<clock, traffic, gone, file, newest>> /\ TypeOK
  BY DEF world, IInv
<1>2. /\ pc' \in [Procs -> Steps] /\ job' \in [Procs -> JobType \cup {None}]
      /\ \A q \in Procs : pc'[q] = "idle" <=> job'[q] = None
      /\ \A q \in Procs : q # p => pc'[q] = pc[q] /\ job'[q] = job[q]
  BY <1>1, MovedIs
<1>3. TypeOK'
  BY <1>1, <1>2 DEF TypeOK
<1>4. Onward
  BY <1>1, <1>3 DEF Onward, Covered, TypeOK, Time
<1>5. \A n \in Nodes : FileInv(n)'
  BY <1>1, <1>4, FileWaits DEF IInv
<1>. QED  BY <1>1, <1>2, <1>4, <1>5, CommandStep

(* A command that stops has no part in the invariant.                      *)
LEMMA IdleKeeps ==
  ASSUME NEW p \in Procs, pc'[p] = "idle", wrote'[p] = {}
  PROVE  JobInv(p)'
BY DEF JobInv, WorkInv

-----------------------------------------------------------------------------
LEMMA InitIInv == Init => IInv
<1>. SUFFICES ASSUME Init  PROVE IInv
  OBVIOUS
<1>1. 0 \in Time /\ NoHours \in [HourStarts -> Moment]
  BY HoursAssumption DEF Time, NoHours, Moment
<1>2. TypeOK
  BY <1>1, HistoryStoreAssumption DEF Init, TypeOK, Steps
<1>3. GoneBy(gone, clock)
  BY ZeroIsAligned DEF Init, GoneBy
<1>4. (\A n \in Nodes : FileInv(n)) /\ \A p \in Procs : JobInv(p)
  BY DEF Init, FileInv, JobInv, WorkInv
<1>. QED  BY <1>2, <1>3, <1>4 DEF IInv

LEMMA StartKeeps ==
  ASSUME IInv, NEW p \in Procs, Start(p)
  PROVE  IInv'
<1>1. PICK crew \in Fleets : job' = [job EXCEPT ![p] = NoWork(crew)]
  BY DEF Start
<1>2. /\ pc[p] = "idle" /\ TypeOK /\ JobInv(p) /\ pc' = [pc EXCEPT ![p] = "next"]
      /\ UNCHANGED <<world, file, refreshes, newest, excused, dropped, overlapped, wrote, faults>>
  BY DEF Start, Goto, IInv, record
<1>3. PICK j \in JobType : j = NoWork(crew)
  BY NoWorkIs
<1>4. /\ j.fleet = crew /\ j.left = crew /\ j.doomed = {} /\ j.at = None /\ j.new = NoHours
      /\ j # None
  BY <1>3, NoneAssumption DEF NoWork
<1>5. Moved(p, "next", j)
  BY <1>1, <1>2, <1>3 DEF Moved
<1>6. pc'[p] = "next" /\ job'[p] = j
  BY <1>2, <1>5 DEF Moved, TypeOK
<1>7. JobInv(p)'
  BY <1>2, <1>4, <1>6 DEF JobInv, WorkInv
<1>. QED  BY <1>2, <1>4, <1>5, <1>7, OwnStep DEF Steps, TypeOK

LEMMA OverlapIs ==
  ASSUME TypeOK, NEW n \in Nodes, Overlap(n)
  PROVE  /\ overlapped' \in [Nodes -> SUBSET HourStarts]
         /\ \A m \in Nodes : overlapped[m] \subseteq overlapped'[m]
         /\ \A h \in HourStarts : InRefresh(n) /\ h <= clock => h \in overlapped'[n]
BY DEF TypeOK, Overlap

LEMMA AskKeeps ==
  ASSUME IInv, NEW p \in Procs, Ask(p)
  PROVE  IInv'
<1>0. PICK n \in job[p].left :
        LET since == Since(FetchedAt(n), clock)
            new   == Summarize(Answer(heard, gone, Asked(since)), since, clock)
        IN /\ job' = [job EXCEPT ![p].left = @ \ {n}, ![p].node = n,
                                 ![p].at = clock, ![p].new = new]
           /\ excused' = [excused EXCEPT ![n] = @ \cup
                {h \in HourStarts \ Stored(new) :
                   h <= FloorHour(clock) /\ (since = None \/ h >= since)}]
           /\ Overlap(n)
  BY DEF Ask
<1>. DEFINE since == Since(FetchedAt(n), clock)
            rows  == Answer(heard, gone, Asked(since))
            new   == Summarize(rows, since, clock)
            j == [job[p] EXCEPT !.left = job[p].left \ {n}, !.node = n, !.at = clock, !.new = new]
            missed == {h \in HourStarts \ Stored(new) :
                         h <= FloorHour(clock) /\ (since = None \/ h >= since)}
<1>1. /\ pc[p] = "next" /\ TypeOK /\ JobInv(p) /\ refreshes < MaxRefreshes
      /\ job' = [job EXCEPT ![p].left = @ \ {n}, ![p].node = n, ![p].at = clock, ![p].new = new]
      /\ excused' = [excused EXCEPT ![n] = @ \cup missed]
      /\ refreshes' = refreshes + 1
      /\ pc' = [pc EXCEPT ![p] = "answered"]
      /\ Overlap(n)
      /\ UNCHANGED <<world, file, newest, dropped, wrote, faults>>
  BY <1>0 DEF Ask, Goto, IInv
<1>2. /\ clock \in Time /\ clock \in Nat /\ traffic \in SUBSET Time
      /\ job[p] \in JobType /\ job[p].left \in SUBSET Nodes /\ n \in Nodes /\ FileInv(n)
  BY <1>1, JobIs, HistoryStoreAssumption DEF IInv, TypeOK, Time
<1>3. /\ since \in Nat \cup {None}
      /\ since # None => /\ Aligned(since) /\ file[n] # None /\ file[n].fetched # None
                         /\ since = FloorHour(file[n].fetched)
  <2>1. CASE FetchedAt(n) = None
    BY <2>1 DEF Since
  <2>2. CASE FetchedAt(n) # None
    <3>1. /\ file[n] # None /\ file[n].fetched = FetchedAt(n)
          /\ file[n].fetched \in Time /\ file[n].fetched <= clock
      BY <1>1, <1>2, <2>2 DEF FetchedAt, TypeOK, FileInv, History, Moment
    <3>2. Earlier(file[n].fetched, clock) = file[n].fetched
      BY <1>2, <3>1 DEF Earlier
    <3>3. since = FloorHour(file[n].fetched)
      BY <2>2, <3>1, <3>2 DEF Since
    <3>4. FloorHour(file[n].fetched) \in HourStarts
      BY <3>1 DEF HourStarts
    <3>. QED  BY <2>2, <3>1, <3>3, <3>4, HourStartsAre
  <2>. QED  BY <2>1, <2>2
<1>. HIDE DEF since
<1>4. /\ new \in HoursType /\ Sound(new, traffic, clock)
      /\ \A h \in Stored(new) : new[h].asof = clock
  <2>1. /\ GoneBy(gone, clock) /\ heard = {t \in traffic : t <= clock}
        /\ clock \in Time /\ traffic \in SUBSET Time
        /\ since \in Nat \cup {None} /\ (since # None => Aligned(since))
    BY <1>2, <1>3 DEF heard, IInv
  <2>. HIDE DEF j, missed
  <2>2. new \in HoursType /\ Sound(new, traffic, clock)
    BY <2>1, SummaryIsSound
  <2>. HIDE DEF rows
  <2>3. \A h \in Stored(new) : new[h].asof = clock
    BY SummaryBears
  <2>. QED  BY <2>2, <2>3
<1>. HIDE DEF new
<1>5. j \in JobType
  BY <1>2, <1>4 DEF JobType, Moment
<1>6. /\ j.fleet = job[p].fleet /\ j.left = job[p].left \ {n} /\ j.node = n /\ j.at = clock
      /\ j.new = new /\ j.doomed = job[p].doomed /\ j # None
  BY <1>2, <1>5, NoneAssumption DEF JobType
<1>7. Moved(p, "answered", j)
  BY <1>1, <1>2 DEF Moved, TypeOK, JobType
<1>. HIDE DEF j, missed
<1>8. job'[p] = j /\ pc'[p] = "answered"
  BY <1>1, <1>7 DEF TypeOK, Moved
<1>9. missed \subseteq HourStarts
  BY DEF missed
<1>10. /\ excused' \in [Nodes -> SUBSET HourStarts]
       /\ \A m \in Nodes : excused[m] \subseteq excused'[m]
       /\ missed \subseteq excused'[n]
  BY <1>1, <1>2, <1>9 DEF TypeOK
<1>11. JobInv(p)'
  <2>1. WorkInv(p)'
    BY <1>1, <1>6, <1>8 DEF JobInv, WorkInv
  <2>2. ASSUME NEW h \in HourStarts, h < FloorHour(clock), h \notin Stored(new)
        PROVE  Covered(n, h)'
    <3>1. CASE since = None \/ h >= since
      <4>1. h \in missed
        BY <1>2, <2>2, <3>1, HourStartsAre, FloorHourIs DEF missed
      <4>. QED  BY <1>10, <4>1 DEF Covered
    <3>2. CASE ~(since = None \/ h >= since)
      <4>1. file[n] # None /\ file[n].fetched # None /\ h < FloorHour(file[n].fetched)
        BY <1>3, <3>2, HourStartsAre
      <4>2. Covered(n, h)
        BY <1>2, <2>2, <4>1 DEF FileInv, CoveredTo
      <4>. QED  BY <1>1, <1>10, <4>2 DEF Covered, world
    <3>. QED  BY <3>1, <3>2
  <2>3. UNCHANGED <<clock, traffic>>
    BY <1>1 DEF world
  <2>4. \A h \in HourStarts : h < FloorHour(clock) =>
          Covered(job[p].node, h)' \/ h \in Stored(new)
    BY <1>6, <1>8, <2>2 DEF Covered
  <2>5. clock # None /\ clock <= clock
    BY <1>2, NoneIsNoBucket
  <2>6. Answered(p)'
    BY <1>4, <1>6, <1>8, <2>3, <2>4, <2>5 DEF Answered
  <2>. QED  BY <1>8, <2>1, <2>6 DEF JobInv
<1>12. refreshes' \in 0..MaxRefreshes /\ faults' \subseteq {"write", "kill"}
       /\ wrote' \in [Procs -> SUBSET Nodes]
       /\ dropped' \in [Nodes -> SUBSET HourStarts]
       /\ overlapped' \in [Nodes -> SUBSET HourStarts]
  BY <1>1, <1>2, OverlapIs, HistoryStoreAssumption DEF TypeOK
<1>. QED  BY <1>1, <1>5, <1>6, <1>7, <1>10, <1>11, <1>12, OwnStep DEF Steps

LEMMA NoteKeeps ==
  ASSUME IInv, NEW p \in Procs, Note(p)
  PROVE  IInv'
<1>0. PICK n \in job[p].left :
        job' = [job EXCEPT ![p].left = @ \ {n}, ![p].node = n] /\ Overlap(n)
  BY DEF Note
<1>. DEFINE j == [job[p] EXCEPT !.left = job[p].left \ {n}, !.node = n]
<1>1. /\ pc[p] = "next" /\ TypeOK /\ JobInv(p) /\ refreshes < MaxRefreshes
      /\ refreshes' = refreshes + 1
      /\ pc' = [pc EXCEPT ![p] = "answered"]
      /\ UNCHANGED <<world, file, newest, excused, dropped, wrote, faults>>
  BY DEF Note, Goto, IInv
<1>2. job[p] \in JobType /\ job[p].left \in SUBSET Nodes /\ n \in Nodes
  BY <1>1, JobIs
<1>3. j \in JobType
  BY <1>2 DEF JobType
<1>4. /\ j.fleet = job[p].fleet /\ j.left = job[p].left \ {n} /\ j.node = n
      /\ j.at = job[p].at /\ j.new = job[p].new /\ j.doomed = job[p].doomed /\ j # None
  BY <1>2, <1>3, NoneAssumption DEF JobType
<1>5. Moved(p, "answered", j)
  BY <1>0, <1>1, <1>2 DEF Moved, TypeOK, JobType
<1>. HIDE DEF j
<1>6. job'[p] = j /\ pc'[p] = "answered"
  BY <1>1, <1>5 DEF TypeOK, Moved
<1>7. JobInv(p)'
  <2>1. WorkInv(p)'
    BY <1>1, <1>4, <1>6 DEF JobInv, WorkInv
  <2>2. job[p].at = None /\ job[p].new = NoHours
    BY <1>1 DEF JobInv
  <2>3. Answered(p)'
    BY <1>1, <1>4, <1>6, <2>2, NoHoursAreSound DEF Answered, world
  <2>. QED  BY <1>6, <2>1, <2>3 DEF JobInv
<1>8. refreshes' \in 0..MaxRefreshes /\ overlapped' \in [Nodes -> SUBSET HourStarts]
  BY <1>0, <1>1, <1>2, OverlapIs, HistoryStoreAssumption DEF TypeOK
<1>. QED  BY <1>1, <1>3, <1>4, <1>5, <1>7, <1>8, OwnStep DEF Steps, TypeOK

LEMMA StopKeeps ==
  ASSUME IInv, NEW p \in Procs, Finish(p) \/ Kill(p)
  PROVE  IInv'
<1>1. /\ TypeOK /\ Moved(p, "idle", None)
      /\ wrote' = [wrote EXCEPT ![p] = {}] /\ faults' \subseteq {"write", "kill"}
      /\ UNCHANGED <<world, file, refreshes, newest, excused, dropped, overlapped>>
  BY DEF Finish, Kill, Goto, Moved, IInv, TypeOK, record
<1>2. pc'[p] = "idle" /\ wrote'[p] = {} /\ wrote' \in [Procs -> SUBSET Nodes]
      /\ \A q \in Procs : q # p => wrote'[q] = wrote[q]
  BY <1>1 DEF Moved, TypeOK
<1>3. JobInv(p)'
  BY <1>2, IdleKeeps
<1>. QED  BY <1>1, <1>2, <1>3, OwnStep DEF Steps, TypeOK

LEMMA ReadFileKeeps ==
  ASSUME IInv, NEW p \in Procs, ReadFile(p)
  PROVE  IInv'
<1>0. PICK n \in Nodes : n = job[p].node
  BY JobIs DEF ReadFile, IInv, JobInv, WorkInv
<1>. DEFINE read == Loaded(n)
            j == [job[p] EXCEPT !.now = clock, !.read = read]
<1>1. /\ pc[p] = "answered" /\ TypeOK /\ JobInv(p) /\ FileInv(n)
      /\ pc' = [pc EXCEPT ![p] = "merging"]
      /\ UNCHANGED <<world, file, refreshes, newest, excused, dropped, overlapped, wrote, faults>>
      /\ job' = [job EXCEPT ![p].now = clock, ![p].read = read]
  BY <1>0 DEF ReadFile, Goto, IInv, record
<1>2. /\ job[p] \in JobType /\ clock \in Time /\ clock \in Nat /\ job[p].at \in Moment
  BY <1>1, JobIs
<1>3. /\ read \in [hours : HoursType, fetched : Moment]
      /\ Sound(read.hours, traffic, clock)
      /\ read.fetched # None => read.fetched <= clock /\ CoveredTo(n, read.fetched)
  <2>1. CASE file[n] = None
    <3>1. read = [hours |-> NoHours, fetched |-> None]
      BY <2>1 DEF Loaded
    <3>. QED  BY <3>1, NoHoursAreSound DEF Moment
  <2>2. CASE file[n] # None
    <3>1. file[n] \in History /\ file[n].hours \in HoursType /\ file[n].fetched \in Moment
      BY <1>1, <2>2 DEF TypeOK, History
    <3>2. read = [hours |-> Prune(file[n].hours, clock), fetched |-> file[n].fetched]
      BY <2>2 DEF Loaded
    <3>3. /\ Prune(file[n].hours, clock) \in HoursType
          /\ Sound(Prune(file[n].hours, clock), traffic, clock)
      BY <1>1, <2>2, <3>1, PruneIsSound DEF FileInv
    <3>. QED  BY <1>1, <2>2, <3>1, <3>2, <3>3 DEF FileInv
  <2>. QED  BY <2>1, <2>2
<1>. HIDE DEF read
<1>4. j \in JobType
  BY <1>2, <1>3 DEF JobType, Moment
<1>5. /\ j.fleet = job[p].fleet /\ j.left = job[p].left /\ j.node = job[p].node
      /\ j.at = job[p].at /\ j.new = job[p].new /\ j.doomed = job[p].doomed
      /\ j.now = clock /\ j.read = read /\ j # None
  BY <1>2, <1>4, NoneAssumption DEF JobType
<1>6. Moved(p, "merging", j)
  BY <1>1, <1>2 DEF Moved, TypeOK, JobType
<1>. HIDE DEF j
<1>7. job'[p] = j /\ pc'[p] = "merging"
  BY <1>1, <1>6 DEF TypeOK, Moved
<1>8. JobInv(p)'
  <2>1. WorkInv(p)'
    BY <1>1, <1>5, <1>7 DEF JobInv, WorkInv
  <2>2. UNCHANGED <<clock, traffic, newest, excused>>
    BY <1>1 DEF world
  <2>3. Answered(p)
    BY <1>1 DEF JobInv
  <2>4. \A h \in HourStarts : Covered(job[p].node, h) => Covered(job[p].node, h)'
    BY <1>5, <1>7, <2>2 DEF Covered
  <2>5. Answered(p)'
    BY <1>5, <1>7, <2>2, <2>3, <2>4 DEF Answered
  <2>7. read.fetched # None => CoveredTo(job[p].node, job[p].read.fetched)'
    <3>1. PICK t \in Moment : t = read.fetched
      BY <1>3
    <3>2. t # None => CoveredTo(n, t)'
      BY <1>3, <2>2, <3>1 DEF CoveredTo, Covered
    <3>. QED  BY <1>0, <1>5, <1>7, <3>1, <3>2 DEF CoveredTo, Covered
  <2>8. HasRead(p)'
    BY <1>2, <1>3, <1>5, <1>7, <2>2, <2>3, <2>7, NoneIsNoBucket DEF HasRead, Answered
  <2>. QED  BY <1>7, <2>1, <2>5, <2>8 DEF JobInv
<1>. QED  BY <1>1, <1>4, <1>5, <1>6, <1>8, OwnStep DEF Steps, TypeOK

-----------------------------------------------------------------------------
(* Once the file is written, or not, only the sweep is left.               *)
LEMMA SweptIs ==
  ASSUME TypeOK, NEW p \in Procs, pc[p] = "merging", Swept(p)
  PROVE  \E j \in JobType :
           /\ Moved(p, "listing", j) /\ j # None
           /\ j.fleet = job[p].fleet /\ j.left = job[p].left /\ j.node = job[p].node
           /\ j.now = job[p].now /\ j.doomed = job[p].doomed
<1>. DEFINE j == [job[p] EXCEPT !.at = None, !.new = NoHours, !.read = None]
<1>1. job[p] \in JobType
  BY JobIs
<1>2. j \in JobType
  BY <1>1, NoHoursAreSound DEF JobType, Moment
<1>3. /\ j.fleet = job[p].fleet /\ j.left = job[p].left /\ j.node = job[p].node
      /\ j.now = job[p].now /\ j.doomed = job[p].doomed
  BY <1>1 DEF JobType
<1>4. Moved(p, "listing", j)
  BY <1>1 DEF Swept, Goto, Moved, TypeOK, JobType
<1>. HIDE DEF j
<1>. QED  BY <1>2, <1>3, <1>4, NoneAssumption

(* What the write of a file that was answered and read again leaves.       *)
LEMMA UpdatedIs ==
  ASSUME IInv, NEW p \in Procs, pc[p] = "merging"
  PROVE  /\ Updated(p) \in HoursType /\ Sound(Updated(p), traffic, clock)
         /\ \A h \in HourStarts :
              Updated(p)[h] = IF ~InRetention(h, job[p].now) THEN None
                              ELSE IF job[p].new[h] # None THEN job[p].new[h]
                              ELSE job[p].read.hours[h]
<1>. DEFINE merged == Merge(job[p].read.hours, job[p].new)
<1>1. TypeOK /\ Answered(p) /\ HasRead(p)
  BY DEF IInv, JobInv
<1>2. /\ job[p].new \in HoursType /\ job[p].read.hours \in HoursType
      /\ Sound(job[p].new, traffic, clock) /\ Sound(job[p].read.hours, traffic, clock)
  BY <1>1, JobIs DEF Answered, HasRead
<1>3. merged \in HoursType /\ Sound(merged, traffic, clock)
  BY <1>2, MergeIsSound
<1>6. \A h \in HourStarts :
        merged[h] = IF job[p].new[h] # None THEN job[p].new[h] ELSE job[p].read.hours[h]
  BY <1>2 DEF Merge, Stored
<1>4. Updated(p) = Prune(merged, job[p].now)
  BY DEF Updated
<1>. HIDE DEF merged
<1>5. /\ Updated(p) \in HoursType /\ Sound(Updated(p), traffic, clock)
      /\ \A h \in HourStarts :
           Updated(p)[h] = IF InRetention(h, job[p].now) THEN merged[h] ELSE None
  BY <1>3, <1>4, PruneIsSound
<1>. QED  BY <1>5, <1>6

(* An hour that is over and not kept is past the retention.                *)
LEMMA KeptOrPast ==
  ASSUME NEW h \in HourStarts, NEW at \in Nat, NEW now \in Nat, NEW then \in Nat,
         at <= now, now <= then, h < FloorHour(at)
  PROVE  InRetention(h, now) \/ h < FloorHour(then - Retention)
<1>1. /\ now - Retention \in Int /\ then - Retention \in Int /\ now - Retention <= then - Retention
      /\ h \in Nat
  BY HoursAssumption, HourStartsAre
<1>2. FloorHour(at) <= FloorHour(now) /\ FloorHour(now - Retention) <= FloorHour(then - Retention)
  BY <1>1, FloorHourMoves
<1>3. /\ FloorHour(at) \in Int /\ FloorHour(now) \in Int
      /\ FloorHour(now - Retention) \in Int /\ FloorHour(then - Retention) \in Int
  BY <1>1, FloorHourIs
<1>. QED  BY <1>1, <1>2, <1>3 DEF InRetention

LEMMA WriteFileKeeps ==
  ASSUME IInv, NEW p \in Procs, WriteFile(p)
  PROVE  IInv'
<1>0. PICK n \in Nodes : n = job[p].node
  BY JobIs DEF WriteFile, IInv, JobInv, WorkInv
<1>. DEFINE updated == Updated(p)
            LastOf(h) == IF h \in Stored(updated) THEN Later(newest[n][h], updated[h].asof)
                         ELSE newest[n][h]
            kept == Fitting(updated)
            fetched == Later(job[p].read.fetched, job[p].at)
            record_n == [hours |-> kept, fetched |-> fetched, written |-> clock]
<1>1. /\ pc[p] = "merging" /\ TypeOK /\ JobInv(p) /\ Swept(p)
      /\ file' = [file EXCEPT ![n] = record_n]
      /\ newest' = [newest EXCEPT ![n] = [h \in HourStarts |-> LastOf(h)]]
      /\ dropped' = [dropped EXCEPT ![n] = (@ \cup Stored(updated)) \ Stored(kept)]
      /\ wrote' = [wrote EXCEPT ![p] = @ \cup {n}]
      /\ UNCHANGED <<clock, traffic, gone, refreshes, excused, overlapped, faults>>
  BY <1>0 DEF WriteFile, IInv, TypeOK, world
<1>2. /\ n \in Nodes /\ job[p].at \in Moment /\ job[p].now \in Nat /\ job[p].now <= clock
      /\ clock \in Time /\ clock \in Nat /\ job[p].new \in HoursType
      /\ job[p].read.fetched \in Moment /\ Answered(p) /\ HasRead(p)
  BY <1>1, JobIs DEF JobInv, HasRead, Moment, Time
<1>3. /\ updated \in HoursType /\ Sound(updated, traffic, clock)
      /\ \A h \in HourStarts :
           h \in Stored(job[p].new) /\ InRetention(h, job[p].now)
             => h \in Stored(updated) /\ updated[h] = job[p].new[h]
  BY <1>1, UpdatedIs DEF Stored
<1>. HIDE DEF updated
<1>4. /\ kept \in HoursType /\ Sound(kept, traffic, clock)
      /\ \A h \in HourStarts : kept[h] \in {None, updated[h]}
  BY <1>3, FittingIsSound
<1>. HIDE DEF kept
<1>5. /\ fetched \in Moment
      /\ fetched = job[p].read.fetched \/ fetched = job[p].at
  BY <1>2, LaterIs
<1>. HIDE DEF fetched
<1>6. \A h \in Stored(updated) : updated[h].asof \in Time
  BY <1>3 DEF HoursType, Bucket, Stored
<1>7. \A h \in HourStarts : newest[n][h] \in Moment
  BY <1>1, <1>2 DEF TypeOK
<1>8. \A h \in HourStarts :
        /\ LastOf(h) \in Moment
        /\ newest[n][h] # None => LastOf(h) # None /\ newest[n][h] <= LastOf(h)
        /\ h \in Stored(updated) => LastOf(h) # None /\ updated[h].asof <= LastOf(h)
  <2>1. SUFFICES ASSUME NEW h \in HourStarts
                 PROVE  /\ LastOf(h) \in Moment
                        /\ newest[n][h] # None => LastOf(h) # None /\ newest[n][h] <= LastOf(h)
                        /\ h \in Stored(updated) => LastOf(h) # None /\ updated[h].asof <= LastOf(h)
    OBVIOUS
  <2>2. CASE h \in Stored(updated)
    <3>1. LastOf(h) = Later(newest[n][h], updated[h].asof)
      BY <2>2
    <3>2. /\ newest[n][h] \in Moment /\ updated[h].asof \in Time
          /\ updated[h].asof \in Moment /\ updated[h].asof # None
      BY <1>6, <1>7, <2>2, NoneIsNoBucket DEF Moment
    <3>. HIDE DEF LastOf
    <3>4. LastOf(h) # None /\ LastOf(h) \in Time /\ LastOf(h) \in Moment
      BY <3>1, <3>2, LaterIs, NoneIsNoBucket
    <3>5. /\ newest[n][h] # None => newest[n][h] <= LastOf(h)
          /\ updated[h].asof <= LastOf(h)
      BY <3>1, <3>2, LaterIs
    <3>. QED  BY <3>4, <3>5
  <2>3. CASE h \notin Stored(updated)
    <3>1. LastOf(h) = newest[n][h]
      BY <2>3
    <3>. HIDE DEF LastOf
    <3>. QED  BY <1>7, <2>3, <3>1 DEF Moment, Time
  <2>. QED  BY <2>2, <2>3
<1>. HIDE DEF LastOf
<1>9. /\ \A h \in HourStarts : newest'[n][h] = LastOf(h)
      /\ file'[n] = record_n
      /\ \A m \in Nodes : m # n => newest'[m] = newest[m] /\ file'[m] = file[m]
  BY <1>1, <1>2 DEF TypeOK
<1>10. PICK j \in JobType :
         /\ Moved(p, "listing", j) /\ j # None
         /\ j.fleet = job[p].fleet /\ j.left = job[p].left /\ j.node = job[p].node
         /\ j.now = job[p].now /\ j.doomed = job[p].doomed
  BY <1>1, SweptIs
<1>11. /\ pc' \in [Procs -> Steps] /\ job' \in [Procs -> JobType \cup {None}]
       /\ \A q \in Procs : pc'[q] = "idle" <=> job'[q] = None
       /\ \A q \in Procs : q # p => pc'[q] = pc[q] /\ job'[q] = job[q]
       /\ pc'[p] = "listing" /\ job'[p] = j
  BY <1>1, <1>10, MovedIs DEF Steps
<1>12. TypeOK'
  <2>1. record_n \in History
    BY <1>2, <1>4, <1>5 DEF History
  <2>. HIDE DEF record_n
  <2>2. file' \in [Nodes -> History \cup {None}]
    BY <1>1, <2>1 DEF TypeOK
  <2>3. newest' \in [Nodes -> [HourStarts -> Moment]]
    <3>1. [h \in HourStarts |-> LastOf(h)] \in [HourStarts -> Moment]
      BY <1>8
    <3>. QED  BY <1>1, <3>1 DEF TypeOK
  <2>4. dropped' \in [Nodes -> SUBSET HourStarts] /\ wrote' \in [Procs -> SUBSET Nodes]
    BY <1>1 DEF TypeOK, Stored
  <2>. QED  BY <1>1, <1>11, <2>2, <2>3, <2>4 DEF TypeOK
<1>13. Onward
  <2>1. ASSUME NEW m \in Nodes, NEW h \in HourStarts, Covered(m, h)
        PROVE  Covered(m, h)'
    <3>1. newest[m][h] # None => newest'[m][h] # None /\ newest[m][h] <= newest'[m][h]
      <4>1. newest[m][h] # None => newest[m][h] \in Nat
        BY <1>1 DEF TypeOK, Time, Moment
      <4>. QED  BY <1>8, <1>9, <4>1
    <3>2. excused[m] \subseteq excused'[m]
      BY <1>1
    <3>. QED  BY <1>1, <1>2, <1>12, <2>1, <3>1, <3>2, CoveredStays
  <2>. QED  BY <1>1, <1>2, <1>12, <2>1 DEF Onward
<1>19. PICK t \in Moment : t = fetched
  BY <1>5
<1>14. t # None => t <= clock /\ CoveredTo(n, t)'
  <2>1. ASSUME t = job[p].read.fetched, t # None
        PROVE  t <= clock /\ CoveredTo(n, t)'
    <3>1. t <= clock /\ CoveredTo(n, t)
      BY <1>0, <1>2, <2>1 DEF HasRead
    <3>2. \A h \in HourStarts : h < FloorHour(t) => Covered(n, h)'
      BY <1>13, <3>1 DEF CoveredTo, Onward
    <3>. QED  BY <3>1, <3>2 DEF CoveredTo
  <2>2. ASSUME t = job[p].at, t # None
        PROVE  t <= clock /\ CoveredTo(n, t)'
    <3>1. /\ t \in Nat /\ t <= clock /\ t <= job[p].now
          /\ \A h \in Stored(job[p].new) : job[p].new[h].asof = t
          /\ \A h \in HourStarts : h < FloorHour(t) => Covered(n, h) \/ h \in Stored(job[p].new)
      BY <1>0, <1>2, <2>2 DEF Answered, HasRead, Moment, Time
    <3>2. ASSUME NEW h \in HourStarts, h < FloorHour(t)
          PROVE  Covered(n, h)'
      <4>1. h \in Nat /\ h + HourTicks <= t
        BY <3>1, <3>2, HourStartsAre, NotBefore
      <4>2. CASE Covered(n, h)
        BY <1>13, <4>2 DEF Onward
      <4>3. CASE h \in Stored(job[p].new) /\ InRetention(h, job[p].now)
        <5>1. h \in Stored(updated) /\ updated[h].asof = t
          BY <1>3, <3>1, <4>3
        <5>2. newest'[n][h] # None /\ t <= newest'[n][h] /\ newest'[n][h] \in Nat
          BY <1>8, <1>9, <5>1 DEF Time, Moment
        <5>. QED  BY <3>1, <4>1, <5>2, Ticks DEF Covered
      <4>4. CASE h < FloorHour(clock - Retention)
        BY <1>1, <4>4 DEF Covered
      <4>. QED  BY <1>2, <3>1, <3>2, <4>2, <4>3, <4>4, KeptOrPast
    <3>. QED  BY <3>1, <3>2 DEF CoveredTo
  <2>. QED  BY <1>5, <1>19, <2>1, <2>2
<1>15. \A m \in Nodes : FileInv(m)'
  <2>1. FileInv(n)'
    <3>1. /\ file'[n].hours = kept /\ file'[n].fetched = fetched
      BY <1>9
    <3>3. Sound(kept, traffic', clock')
      BY <1>1, <1>4
    <3>6. file'[n].fetched # None => file'[n].fetched <= clock' /\ CoveredTo(n, file[n].fetched)'
      BY <1>1, <1>14, <1>19, <3>1 DEF CoveredTo
    <3>. QED  BY <3>1, <3>3, <3>6 DEF FileInv
  <2>2. ASSUME NEW m \in Nodes, m # n  PROVE FileInv(m)'
    BY <1>9, <1>13, <2>2, FileWaits DEF IInv
  <2>. QED  BY <2>1, <2>2
<1>16. JobInv(p)'
  <2>1. WorkInv(p)'
    BY <1>0, <1>1, <1>10, <1>11 DEF JobInv, WorkInv, TypeOK
  <2>. QED  BY <1>11, <2>1 DEF JobInv
<1>17. \A q \in Procs : q # p => wrote'[q] \subseteq wrote[q]
  BY <1>1 DEF TypeOK
<1>. QED  BY <1>1, <1>11, <1>13, <1>15, <1>16, <1>17, CommandStep

LEMMA WriteFailsKeeps ==
  ASSUME IInv, NEW p \in Procs, WriteFails(p)
  PROVE  IInv'
<1>1. /\ pc[p] = "merging" /\ TypeOK /\ JobInv(p) /\ Swept(p)
      /\ faults' = faults \cup {"write"}
      /\ UNCHANGED <<world, file, refreshes, newest, excused, dropped, overlapped, wrote>>
  BY DEF WriteFails, IInv, record
<1>2. PICK j \in JobType :
        /\ Moved(p, "listing", j) /\ j # None
        /\ j.fleet = job[p].fleet /\ j.left = job[p].left /\ j.node = job[p].node
        /\ j.now = job[p].now /\ j.doomed = job[p].doomed
  BY <1>1, SweptIs
<1>3. pc'[p] = "listing" /\ job'[p] = j
  BY <1>1, <1>2, MovedIs DEF Steps
<1>4. JobInv(p)'
  BY <1>1, <1>2, <1>3 DEF JobInv, WorkInv
<1>. QED  BY <1>1, <1>2, <1>4, OwnStep DEF Steps, TypeOK

(* The sweep spares the files of the command's own fleet.                  *)
LEMMA ListFilesKeeps ==
  ASSUME IInv, NEW p \in Procs, ListFiles(p)
  PROVE  IInv'
<1>1. PICK order \in Orders(FilesThere \ Keep(p)) :
        job' = [job EXCEPT ![p].doomed = Doomed(p, order)]
  BY DEF ListFiles
<1>. DEFINE doomed == Doomed(p, order)
            j == [job[p] EXCEPT !.doomed = doomed]
<1>2. /\ pc[p] = "listing" /\ TypeOK /\ JobInv(p)
      /\ pc' = [pc EXCEPT ![p] = "sweeping"]
      /\ UNCHANGED <<world, file, refreshes, newest, excused, dropped, overlapped, wrote, faults>>
  BY DEF ListFiles, Goto, IInv, record
<1>3. job[p] \in JobType
  BY <1>2, JobIs
<1>4. doomed \subseteq Nodes /\ doomed \cap job[p].fleet = {}
  BY DEF Doomed, Orders, FilesThere, Keep
<1>. HIDE DEF doomed
<1>5. j \in JobType
  BY <1>3, <1>4 DEF JobType
<1>6. j.fleet = job[p].fleet /\ j.left = job[p].left /\ j.doomed = doomed /\ j # None
  BY <1>3, <1>5, NoneAssumption DEF JobType
<1>7. Moved(p, "sweeping", j)
  <2>1. job' = [job EXCEPT ![p].doomed = doomed]
    BY <1>1 DEF doomed
  <2>. QED  BY <1>2, <1>3, <2>1 DEF Moved, TypeOK, JobType
<1>. HIDE DEF j
<1>8. job'[p] = j /\ pc'[p] = "sweeping"
  BY <1>2, <1>7 DEF TypeOK, Moved
<1>9. JobInv(p)'
  BY <1>2, <1>4, <1>6, <1>8 DEF JobInv, WorkInv
<1>. QED  BY <1>2, <1>5, <1>6, <1>7, <1>9, OwnStep DEF Steps, TypeOK

LEMMA SweepKeeps ==
  ASSUME IInv, NEW p \in Procs, Sweep(p)
  PROVE  IInv'
<1>. DEFINE j == [NoWork(job[p].fleet) EXCEPT !.left = job[p].left]
<1>1. /\ pc[p] = "sweeping" /\ TypeOK /\ JobInv(p) /\ Moved(p, "next", j)
      /\ file' = [n \in Nodes |-> IF n \in job[p].doomed THEN None ELSE file[n]]
      /\ wrote' = [q \in Procs |-> IF q = p THEN wrote[q] ELSE wrote[q] \ job[p].doomed]
      /\ UNCHANGED <<clock, traffic, gone, refreshes, newest, excused, overlapped, faults>>
  BY DEF Sweep, Goto, Moved, IInv, TypeOK, world
<1>2. job[p].left \in SUBSET Nodes /\ NoWork(job[p].fleet) \in JobType /\ clock \in Nat
  BY <1>1, JobIs, NoWorkIs
<1>3. j \in JobType
  BY <1>2 DEF JobType
<1>4. /\ j.fleet = job[p].fleet /\ j.left = job[p].left /\ j.at = None /\ j.new = NoHours
      /\ j.doomed = {} /\ j # None
  BY <1>3, NoneAssumption DEF NoWork
<1>. HIDE DEF j
<1>5. /\ pc' \in [Procs -> Steps] /\ job' \in [Procs -> JobType \cup {None}]
      /\ \A q \in Procs : pc'[q] = "idle" <=> job'[q] = None
      /\ \A q \in Procs : q # p => pc'[q] = pc[q] /\ job'[q] = job[q]
      /\ pc'[p] = "next" /\ job'[p] = j
  BY <1>1, <1>3, <1>4, MovedIs DEF Steps
<1>6. /\ \A n \in Nodes : file'[n] \in {None, file[n]}
      /\ \A q \in Procs : wrote'[q] \subseteq wrote[q]
  BY <1>1
<1>7. TypeOK'
  <2>1. file' \in [Nodes -> History \cup {None}] /\ wrote' \in [Procs -> SUBSET Nodes]
    BY <1>1 DEF TypeOK
  <2>2. dropped' \in [Nodes -> SUBSET HourStarts]
    BY <1>1 DEF Sweep, TypeOK
  <2>. QED  BY <1>1, <1>5, <2>1, <2>2 DEF TypeOK
<1>8. Onward
  BY <1>1, <1>2, <1>7 DEF Onward, Covered
<1>9. \A n \in Nodes : FileInv(n)'
  BY <1>1, <1>6, <1>8, FileWaits DEF IInv
<1>10. JobInv(p)'
  BY <1>1, <1>4, <1>5, <1>6 DEF JobInv, WorkInv
<1>. QED  BY <1>1, <1>5, <1>6, <1>8, <1>9, <1>10, CommandStep

-----------------------------------------------------------------------------
(* The hour lorastats last forgot is older than what it is assumed to keep. *)
LEMMA GoneLater ==
  ASSUME NEW g, NEW now \in Time, NEW then \in Time, now <= then, GoneBy(g, now)
  PROVE  GoneBy(g, then)
<1>1. /\ now - Assumed \in Int /\ then - Assumed \in Int /\ now - Assumed <= then - Assumed
  BY HoursAssumption DEF Time
<1>2. FloorHour(now - Assumed) <= FloorHour(then - Assumed)
  BY <1>1, FloorHourMoves
<1>3. FloorHour(now - Assumed) \in Int /\ FloorHour(then - Assumed) \in Int
  BY <1>1, FloorHourIs
<1>. QED  BY <1>2, <1>3, Ticks DEF GoneBy

(* A step of no command.                                                   *)
LEMMA WorldStep ==
  ASSUME IInv, TypeOK', clock <= clock', GoneBy(gone, clock)',
         UNCHANGED <<traffic, file, pc, job, record, wrote>>
  PROVE  IInv'
<1>1. TypeOK /\ UNCHANGED <<newest, excused>>
  BY DEF IInv, record
<1>2. Onward
  <2>1. ASSUME NEW n \in Nodes, NEW h \in HourStarts, Covered(n, h)
        PROVE  Covered(n, h)'
    <3>1. newest[n][h] # None => newest[n][h] \in Nat
      BY <1>1 DEF TypeOK, Time, Moment
    <3>. QED  BY <1>1, <2>1, <3>1, CoveredStays
  <2>. QED  BY <1>1, <2>1 DEF Onward
<1>3. \A n \in Nodes : FileInv(n)'
  BY <1>1, <1>2, FileWaits DEF IInv
<1>4. \A p \in Procs : JobInv(p)'
  BY <1>2, JobWaits DEF IInv
<1>. QED  BY <1>3, <1>4 DEF IInv

LEMMA TickKeeps ==
  ASSUME IInv, Tick
  PROVE  IInv'
<1>1. /\ TypeOK /\ clock \in Time /\ clock' \in Time /\ clock <= clock'
      /\ UNCHANGED <<traffic, gone, file, pc, job, refreshes, record, wrote, faults>>
  BY HoursAssumption DEF Tick, IInv, TypeOK, Time
<1>2. TypeOK'
  BY <1>1 DEF TypeOK, record
<1>3. GoneBy(gone, clock)'
  BY <1>1, GoneLater DEF IInv
<1>. QED  BY <1>1, <1>2, <1>3, WorldStep

LEMMA ForgetKeeps ==
  ASSUME IInv, Forget
  PROVE  IInv'
<1>1. /\ TypeOK /\ gone \in Nat /\ clock \in Time /\ gone <= clock - Assumed
      /\ gone' = gone + HourTicks
      /\ UNCHANGED <<clock, traffic, file, pc, job, refreshes, record, wrote, faults>>
  BY DEF Forget, IInv, TypeOK
<1>2. TypeOK'
  BY <1>1, Ticks DEF TypeOK, record
<1>3. GoneBy(gone, clock)'
  <2>1. Aligned(gone) /\ clock - Assumed \in Int
    BY <1>1, HoursAssumption DEF IInv, GoneBy, Time
  <2>2. gone <= FloorHour(clock - Assumed) /\ FloorHour(clock - Assumed) \in Int
    BY <1>1, <2>1, NotBefore, FloorHourIs
  <2>3. Aligned(gone') /\ gone' <= FloorHour(clock - Assumed) + HourTicks
    BY <1>1, <2>1, <2>2, AlignedMoves, Ticks
  <2>4. gone' \in Nat
    BY <1>1, Ticks
  <2>5. GoneBy(gone', clock)
    BY <2>3, <2>4 DEF GoneBy
  <2>. QED  BY <1>1, <2>5
<1>4. clock <= clock'
  BY <1>1 DEF Time
<1>. QED  BY <1>1, <1>2, <1>3, <1>4, WorldStep

LEMMA StutterKeeps ==
  ASSUME IInv, UNCHANGED vars
  PROVE  IInv'
<1>1. /\ TypeOK' /\ GoneBy(gone, clock)' /\ clock \in Nat /\ clock' = clock
      /\ UNCHANGED <<traffic, file, pc, job, record, wrote>>
  BY DEF IInv, vars, TypeOK, GoneBy, record, Time
<1>. QED  BY <1>1, WorldStep

LEMMA NextKeeps ==
  ASSUME IInv, [Next]_vars
  PROVE  IInv'
<1>1. CASE Tick
  BY <1>1, TickKeeps
<1>2. CASE Forget
  BY <1>2, ForgetKeeps
<1>3. CASE UNCHANGED vars
  BY <1>3, StutterKeeps
<1>4. ASSUME NEW p \in Procs,
             \/ Start(p) \/ Ask(p) \/ Note(p) \/ Finish(p)
             \/ ReadFile(p) \/ WriteFile(p) \/ WriteFails(p)
             \/ ListFiles(p) \/ Sweep(p) \/ Kill(p)
      PROVE  IInv'
  BY <1>4, StartKeeps, AskKeeps, NoteKeeps, StopKeeps, ReadFileKeeps, WriteFileKeeps,
     WriteFailsKeeps, ListFilesKeeps, SweepKeeps
<1>. QED  BY <1>1, <1>2, <1>3, <1>4 DEF Next

LEMMA Invariance == Spec => []IInv
<1>. QED  BY InitIInv, NextKeeps, PTL DEF Spec

(* Every reachable state has the types of the model.                       *)
THEOREM TypeCorrect == Spec => []TypeOK
<1>1. IInv => TypeOK
  BY DEF IInv
<1>. QED  BY <1>1, Invariance, PTL

(* What is stored of an hour that had not begun when two updates of its    *)
(* node ran at once: the newest of what was ever written of it, unless a   *)
(* bound took it or it is past the retention.  For that, a command at work *)
(* has the node to itself, or has nothing of the hour in hand: nothing     *)
(* newer than what it asked for was written meanwhile, and what it read of *)
(* the file is what is stored, or was when a sweep deleted it.             *)
StoredHour(n, h) == IF file[n] = None THEN None ELSE file[n].hours[h]

NewestInv ==
  \A n \in Nodes, h \in HourStarts : newest[n][h] # None =>
    h <= newest[n][h] /\ newest[n][h] <= clock

Kept(n, h) ==
  /\ StoredHour(n, h) # None => newest[n][h] = StoredHour(n, h).asof
  /\ newest[n][h] # None =>
       StoredHour(n, h) # None \/ h \in dropped[n] \/ h < FloorHour(clock - Retention)

KeptInv == \A n \in Nodes, h \in HourStarts : h \notin overlapped[n] => Kept(n, h)

Alone(p, q, n, h) ==
  q # p /\ Writing(q) /\ job[q].node = n => newest[n][h] = None /\ job[p].new[h] = None

ReadAsStored(p, n, h) ==
  pc[p] = "merging" =>
    /\ newest[n][h] # None => newest[n][h] <= job[p].now
    /\ StoredHour(n, h) # None =>
         \/ job[p].read.hours[h] = StoredHour(n, h)
         \/ h < FloorHour(job[p].now - Retention)
    /\ job[p].read.hours[h] # None => newest[n][h] = job[p].read.hours[h].asof

Turn(p, n, h) ==
  Writing(p) /\ job[p].node = n /\ h \notin overlapped[n] =>
    /\ newest[n][h] # None /\ job[p].at # None => newest[n][h] <= job[p].at
    /\ \A q \in Procs : Alone(p, q, n, h)
    /\ ReadAsStored(p, n, h)

TurnInv == \A p \in Procs, n \in Nodes, h \in HourStarts : Turn(p, n, h)

TInv == NewestInv /\ KeptInv /\ TurnInv

LEMMA InitTInv == Init => TInv
BY DEF Init, TInv, NewestInv, KeptInv, Kept, StoredHour, TurnInv, Turn, Writing, NoHours

LEMMA BucketIsNotNone ==
  ASSUME TypeOK, NEW n \in Nodes, NEW h \in HourStarts
  PROVE  /\ newest[n][h] # None => newest[n][h] \in Nat
         /\ StoredHour(n, h) # None =>
              StoredHour(n, h).asof \in Nat /\ StoredHour(n, h).asof # None
BY NoneIsNoBucket DEF TypeOK, StoredHour, History, HoursType, Bucket, Time, Moment

(* A step that writes no hour, and begins no update: each command goes on  *)
(* with what it has, or stops, or reads a file as it is stored.            *)
Reads(p) ==
  /\ job'[p].now = clock'
  /\ \A h \in HourStarts :
       job'[p].read.hours[h] = IF InRetention(h, clock') THEN StoredHour(job[p].node, h)' ELSE None

Proceeds(p) ==
  /\ (Writing(p))' =>
       /\ Writing(p) /\ job'[p].node = job[p].node
       /\ job'[p].at = job[p].at /\ job'[p].new = job[p].new
  /\ pc'[p] = "merging" =>
       \/ Reads(p)
       \/ pc[p] = "merging" /\ job'[p].read = job[p].read /\ job'[p].now = job[p].now

(* An hour that is kept has begun, so when it is not in the retention it   *)
(* is past it.                                                             *)
LEMMA KeptBegan ==
  ASSUME NEW h \in HourStarts, NEW last \in Nat, NEW now \in Nat, h <= last, last <= now,
         ~InRetention(h, now)
  PROVE  h < FloorHour(now - Retention)
<1>1. h <= FloorHour(now)
  BY HourStartsAre, NotBefore
<1>2. FloorHour(now - Retention) \in Int
  BY FloorHourIs, HoursAssumption
<1>. QED  BY <1>1, <1>2, HourStartsAre DEF InRetention

LEMMA TurnsGoOn ==
  ASSUME IInv, IInv', TInv, clock <= clock', UNCHANGED <<newest, overlapped>>,
         \A n \in Nodes : dropped[n] \subseteq dropped'[n],
         \A n \in Nodes, h \in HourStarts :
           \/ StoredHour(n, h)' = StoredHour(n, h)
           \/ (StoredHour(n, h)' = None /\ h \in dropped'[n]),
         \A p \in Procs : Proceeds(p)
  PROVE  TInv'
<1>1. TypeOK /\ TypeOK' /\ clock \in Nat /\ clock' \in Nat
  BY DEF IInv, TypeOK, Time
<1>2. NewestInv'
  BY <1>1, BucketIsNotNone, HourStartsAre DEF TInv, NewestInv
<1>3. KeptInv'
  <2>1. SUFFICES ASSUME NEW n \in Nodes, NEW h \in HourStarts, h \notin overlapped[n]
                 PROVE  Kept(n, h)'
    BY DEF KeptInv
  <2>2. Kept(n, h)
    BY <2>1 DEF TInv, KeptInv
  <2>3. h < FloorHour(clock - Retention) => h < FloorHour(clock' - Retention)
    <3>1. FloorHour(clock - Retention) <= FloorHour(clock' - Retention)
      BY <1>1, FloorHourMoves, HoursAssumption
    <3>2. FloorHour(clock - Retention) \in Int /\ FloorHour(clock' - Retention) \in Int
      BY <1>1, FloorHourIs, HoursAssumption
    <3>. QED  BY <3>1, <3>2, HourStartsAre
  <2>. QED  BY <2>2, <2>3 DEF Kept
<1>4. TurnInv'
  <2>1. SUFFICES ASSUME NEW p \in Procs, NEW n \in Nodes, NEW h \in HourStarts,
                        (Writing(p))', job'[p].node = n, h \notin overlapped[n]
                 PROVE  /\ newest[n][h] # None /\ job'[p].at # None => newest[n][h] <= job'[p].at
                        /\ \A q \in Procs : Alone(p, q, n, h)'
                        /\ ReadAsStored(p, n, h)'
    BY DEF TurnInv, Turn
  <2>2. Proceeds(p) /\ Turn(p, n, h)
    BY DEF TInv, TurnInv
  <2>3. /\ Writing(p) /\ job[p].node = n /\ job'[p].at = job[p].at /\ job'[p].new = job[p].new
        /\ newest[n][h] # None /\ job[p].at # None => newest[n][h] <= job[p].at
        /\ ReadAsStored(p, n, h)
    BY <2>1, <2>2 DEF Proceeds, Turn
  <2>4. ASSUME NEW q \in Procs  PROVE Alone(p, q, n, h)'
    <3>1. Alone(p, q, n, h) /\ Proceeds(q)
      BY <2>1, <2>2, <2>3 DEF Turn
    <3>. QED  BY <2>3, <3>1 DEF Alone, Proceeds
  <2>5. ReadAsStored(p, n, h)'
    <3>1. SUFFICES ASSUME pc'[p] = "merging"
                   PROVE  /\ newest[n][h] # None => newest[n][h] <= job'[p].now
                          /\ StoredHour(n, h)' # None =>
                               \/ job'[p].read.hours[h] = StoredHour(n, h)'
                               \/ h < FloorHour(job'[p].now - Retention)
                          /\ job'[p].read.hours[h] # None => newest[n][h] = job'[p].read.hours[h].asof
      BY DEF ReadAsStored
    <3>2. CASE Reads(p)
      <4>1. Kept(n, h)' /\ job'[p].now = clock'
            /\ job'[p].read.hours[h] = IF InRetention(h, clock') THEN StoredHour(n, h)' ELSE None
        <5>1. Kept(n, h)'
          BY <1>3, <2>1 DEF KeptInv
        <5>. QED  BY <2>1, <3>2, <5>1 DEF Reads
      <4>2. newest[n][h] # None => newest[n][h] <= clock'
        BY <1>2 DEF NewestInv
      <4>3. StoredHour(n, h)' # None => newest[n][h] # None
        BY <1>1, <4>1, BucketIsNotNone DEF Kept
      <4>4. newest[n][h] # None /\ ~InRetention(h, clock') => h < FloorHour(clock' - Retention)
        BY <1>1, <1>2, BucketIsNotNone, KeptBegan DEF NewestInv
      <4>. QED  BY <4>1, <4>2, <4>3, <4>4 DEF Kept
    <3>3. CASE pc[p] = "merging" /\ job'[p].read = job[p].read /\ job'[p].now = job[p].now
      BY <2>3, <3>3 DEF ReadAsStored
    <3>. QED  BY <2>2, <3>1, <3>2, <3>3 DEF Proceeds
  <2>. QED  BY <2>3, <2>4, <2>5
<1>. QED  BY <1>2, <1>3, <1>4 DEF TInv

(* A command that stays where it is, or has nothing to write, proceeds.    *)
LEMMA WaitsProceeds ==
  ASSUME NEW p \in Procs, (pc'[p] = pc[p] /\ job'[p] = job[p]) \/ ~(Writing(p))'
  PROVE  Proceeds(p)
BY DEF Proceeds, Writing

LEMMA OthersWait ==
  ASSUME TypeOK, NEW p \in Procs,
         \/ Start(p) \/ Ask(p) \/ Note(p) \/ Finish(p)
         \/ ReadFile(p) \/ WriteFile(p) \/ WriteFails(p)
         \/ ListFiles(p) \/ Sweep(p) \/ Kill(p)
  PROVE  \A q \in Procs : q # p => pc'[q] = pc[q] /\ job'[q] = job[q]
BY DEF TypeOK, Start, Ask, Note, Finish, ReadFile, WriteFile, WriteFails, Swept, ListFiles, Sweep,
       Kill, Goto

(* What is read is what is stored, but for what is past the retention.     *)
LEMMA ReadFileProceeds ==
  ASSUME TypeOK, NEW p \in Procs, ReadFile(p)
  PROVE  Proceeds(p)
<1>1. job[p] \in JobType /\ pc[p] = "answered"
  BY JobIs DEF ReadFile
<1>2. /\ pc'[p] = "merging" /\ UNCHANGED <<clock, file>>
      /\ job'[p] = [job[p] EXCEPT !.now = clock, !.read = Loaded(job[p].node)]
  BY <1>1 DEF ReadFile, Goto, TypeOK, world
<1>3. /\ job'[p].node = job[p].node /\ job'[p].at = job[p].at /\ job'[p].new = job[p].new
      /\ job'[p].now = clock /\ job'[p].read = Loaded(job[p].node)
  BY <1>1, <1>2 DEF JobType
<1>4. ASSUME NEW h \in HourStarts
      PROVE  Loaded(job[p].node).hours[h]
               = IF InRetention(h, clock) THEN StoredHour(job[p].node, h) ELSE None
  BY DEF Loaded, StoredHour, NoHours, Prune
<1>. QED  BY <1>1, <1>2, <1>3, <1>4 DEF Proceeds, Reads, Writing, StoredHour

LEMMA QuietStepKeeps ==
  ASSUME IInv, IInv', TInv, NEW p \in Procs,
         \/ Start(p) \/ Finish(p) \/ ReadFile(p) \/ WriteFails(p)
         \/ ListFiles(p) \/ Sweep(p) \/ Kill(p)
  PROVE  TInv'
<1>1. TypeOK /\ clock \in Nat
  BY DEF IInv, TypeOK, Time
<1>2. \A q \in Procs : Proceeds(q)
  <2>1. CASE ReadFile(p)
    BY <1>1, <2>1, OthersWait, ReadFileProceeds, WaitsProceeds
  <2>2. CASE Start(p) \/ Finish(p) \/ WriteFails(p) \/ ListFiles(p) \/ Sweep(p) \/ Kill(p)
    <3>1. ~(Writing(p))'
      BY <1>1, <2>2 DEF TypeOK, Writing, Start, Finish, WriteFails, Swept, ListFiles, Sweep, Kill, Goto
    <3>. QED  BY <1>1, <3>1, OthersWait, WaitsProceeds
  <2>. QED  BY <2>1, <2>2
<1>3. UNCHANGED <<clock, newest, overlapped>>
  BY DEF Start, Finish, ReadFile, WriteFails, ListFiles, Sweep, Kill, world, record
<1>4. CASE Sweep(p)
  <2>1. /\ file' = [n \in Nodes |-> IF n \in job[p].doomed THEN None ELSE file[n]]
        /\ dropped' = [n \in Nodes |-> dropped[n] \cup
             {h \in HourStarts : n \in job[p].doomed \cap FilesThere /\ file[n].hours[h] # None}]
    BY <1>4 DEF Sweep
  <2>2. ASSUME NEW n \in Nodes, NEW h \in HourStarts
        PROVE  \/ StoredHour(n, h)' = StoredHour(n, h)
               \/ (StoredHour(n, h)' = None /\ h \in dropped'[n])
    <3>1. file'[n] = IF n \in job[p].doomed THEN None ELSE file[n]
      BY <2>1
    <3>2. dropped'[n] = dropped[n] \cup
            {g \in HourStarts : n \in job[p].doomed \cap FilesThere /\ file[n].hours[g] # None}
      BY <2>1
    <3>3. CASE n \in job[p].doomed
      BY <3>1, <3>2, <3>3 DEF StoredHour, FilesThere
    <3>4. CASE n \notin job[p].doomed
      BY <3>1, <3>4 DEF StoredHour
    <3>. QED  BY <3>3, <3>4
  <2>3. \A n \in Nodes : dropped[n] \subseteq dropped'[n]
    BY <2>1
  <2>. QED  BY <1>1, <1>2, <1>3, <2>2, <2>3, TurnsGoOn
<1>5. CASE ~Sweep(p)
  <2>1. UNCHANGED <<file, dropped>>
    BY <1>5 DEF Start, Finish, ReadFile, WriteFails, ListFiles, Kill, record
  <2>2. \A n \in Nodes, h \in HourStarts : StoredHour(n, h)' = StoredHour(n, h)
    BY <2>1 DEF StoredHour
  <2>3. clock <= clock' /\ \A n \in Nodes : dropped[n] \subseteq dropped'[n]
    BY <1>1, <1>3, <2>1
  <2>. QED  BY <1>2, <1>3, <2>2, <2>3, TurnsGoOn
<1>. QED  BY <1>4, <1>5

LEMMA ClockStepKeeps ==
  ASSUME IInv, IInv', TInv, Tick \/ Forget \/ UNCHANGED vars
  PROVE  TInv'
<1>1. /\ clock <= clock' /\ UNCHANGED <<file, pc, job, newest, dropped, overlapped>>
  BY DEF IInv, TypeOK, Time, Tick, Forget, vars, record
<1>2. \A q \in Procs : Proceeds(q)
  BY <1>1, WaitsProceeds
<1>3. \A n \in Nodes, h \in HourStarts : StoredHour(n, h)' = StoredHour(n, h)
  BY <1>1 DEF StoredHour
<1>4. \A n \in Nodes : dropped[n] \subseteq dropped'[n]
  BY <1>1
<1>. QED  BY <1>1, <1>2, <1>3, <1>4, TurnsGoOn

(* Nothing is heard of an hour that has not begun.                         *)
LEMMA NothingBefore ==
  ASSUME NEW hours \in HoursType, NEW t, NEW now \in Nat, Sound(hours, t, now),
         NEW h \in HourStarts, now < h
  PROVE  hours[h] = None
<1>1. ASSUME hours[h] # None  PROVE FALSE
  <2>1. h \in Stored(hours) /\ hours[h] \in Bucket
    BY <1>1, StoredIs
  <2>2. h <= hours[h].asof /\ hours[h].asof <= now
    BY <2>1 DEF Sound, Right
  <2>. QED  BY <2>1, <2>2, HourStartsAre DEF Bucket, Time
<1>. QED  BY <1>1

LEMMA NothingYet ==
  ASSUME IInv, NEW p \in Procs, Writing(p), NEW h \in HourStarts, clock < h
  PROVE  job[p].new[h] = None
<1>1. Sound(job[p].new, traffic, clock) /\ job[p].new \in HoursType /\ clock \in Nat
  BY JobIs DEF IInv, JobInv, Answered, Writing
<1>. QED  BY <1>1, NothingBefore

(* Who begins while another is at work finds all hours begun that either   *)
(* has or will have in hand.                                               *)
LEMMA BeginKeepsTurns ==
  ASSUME IInv, IInv', TInv, NEW p \in Procs, Ask(p) \/ Note(p)
  PROVE  TInv'
<1>1. /\ TypeOK /\ TypeOK' /\ clock \in Nat /\ pc[p] = "next" /\ job[p] \in JobType
      /\ job[p].left \in SUBSET Nodes
  <2>1. TypeOK /\ TypeOK' /\ clock \in Nat
    BY DEF IInv, TypeOK, Time
  <2>. QED  BY <2>1, JobIs DEF Ask, Note
<1>2. /\ UNCHANGED <<clock, file, newest, dropped>> /\ pc' = [pc EXCEPT ![p] = "answered"]
  BY DEF Ask, Note, Goto, world
<1>3. PICK n \in Nodes :
        /\ Overlap(n) /\ job'[p].node = n
        /\ job'[p].at \in {clock, job[p].at}
        /\ \A q \in Procs : q # p => job'[q] = job[q]
  <2>1. CASE Ask(p)
    <3>1. PICK n \in job[p].left :
            /\ \E new : job' = [job EXCEPT ![p].left = @ \ {n}, ![p].node = n,
                                           ![p].at = clock, ![p].new = new]
            /\ Overlap(n)
      BY <2>1 DEF Ask
    <3>. QED  BY <1>1, <3>1 DEF TypeOK, JobType
  <2>2. CASE Note(p)
    <3>1. PICK n \in job[p].left :
            job' = [job EXCEPT ![p].left = @ \ {n}, ![p].node = n] /\ Overlap(n)
      BY <2>2 DEF Note
    <3>. QED  BY <1>1, <3>1 DEF TypeOK, JobType
  <2>. QED  BY <2>1, <2>2
<1>4. /\ pc'[p] = "answered"
      /\ \A q \in Procs : q # p => pc'[q] = pc[q] /\ job'[q] = job[q]
      /\ job'[p].at \in {clock, None}
  <2>1. job[p].at = None
    BY <1>1 DEF IInv, JobInv
  <2>. QED  BY <1>1, <1>2, <1>3, <2>1 DEF TypeOK
<1>5. /\ \A m \in Nodes : overlapped[m] \subseteq overlapped'[m]
      /\ \A h \in HourStarts : InRefresh(n) /\ h <= clock => h \in overlapped'[n]
  BY <1>1, <1>3, OverlapIs
<1>6. \A m \in Nodes, h \in HourStarts : StoredHour(m, h)' = StoredHour(m, h)
  BY <1>2 DEF StoredHour
<1>7. NewestInv' /\ KeptInv'
  BY <1>2, <1>5, <1>6 DEF TInv, NewestInv, KeptInv, Kept
<1>8. ASSUME NEW h \in HourStarts, h \notin overlapped'[n], InRefresh(n)
      PROVE  newest[n][h] = None /\ clock < h
  <2>1. clock < h
    BY <1>1, <1>5, <1>8, HourStartsAre
  <2>. QED  BY <1>1, <2>1, BucketIsNotNone, HourStartsAre DEF TInv, NewestInv
<1>9. TurnInv'
  <2>1. SUFFICES ASSUME NEW q \in Procs, NEW m \in Nodes, NEW h \in HourStarts,
                        (Writing(q))', job'[q].node = m, h \notin overlapped'[m]
                 PROVE  /\ newest[m][h] # None /\ job'[q].at # None => newest[m][h] <= job'[q].at
                        /\ \A o \in Procs : Alone(q, o, m, h)'
                        /\ ReadAsStored(q, m, h)'
    BY <1>2 DEF TurnInv, Turn
  <2>2. CASE q = p
    <3>1. m = n
      BY <1>3, <2>1, <2>2
    <3>2. newest[m][h] # None /\ job'[q].at # None => newest[m][h] <= job'[q].at
      BY <1>4, <2>2 DEF TInv, NewestInv
    <3>3. ASSUME NEW o \in Procs  PROVE Alone(q, o, m, h)'
      <4>1. SUFFICES ASSUME o # p, Writing(o), job[o].node = n
                     PROVE  newest[n][h] = None /\ job'[p].new[h] = None
        BY <1>2, <1>4, <2>2, <3>1 DEF Alone, Writing
      <4>2. newest[n][h] = None /\ clock < h
        BY <1>8, <2>1, <3>1, <4>1 DEF InRefresh
      <4>3. job'[p].new[h] = None
        <5>1. job'[p] \in JobType
          BY <1>1, <1>4 DEF TypeOK
        <5>2. Sound(job'[p].new, traffic', clock') /\ job'[p].new \in HoursType
          BY <1>4, <5>1 DEF IInv, JobInv, Answered, JobType
        <5>. QED  BY <1>1, <1>2, <4>2, <5>2, NothingBefore
      <4>. QED  BY <4>2, <4>3
    <3>. QED  BY <1>4, <2>2, <3>2, <3>3 DEF ReadAsStored
  <2>3. CASE q # p
    <3>1. /\ Writing(q) /\ job[q].node = m /\ h \notin overlapped[m] /\ job'[q] = job[q]
          /\ pc'[q] = pc[q]
      BY <1>4, <1>5, <2>1, <2>3 DEF Writing
    <3>2. /\ newest[m][h] # None /\ job[q].at # None => newest[m][h] <= job[q].at
          /\ \A o \in Procs : Alone(q, o, m, h)
          /\ ReadAsStored(q, m, h)
      BY <3>1 DEF TInv, TurnInv, Turn
    <3>3. ASSUME NEW o \in Procs  PROVE Alone(q, o, m, h)'
      <4>1. CASE o = p
        <5>1. SUFFICES ASSUME m = n  PROVE newest[n][h] = None /\ job[q].new[h] = None
          BY <1>2, <1>3, <3>1, <4>1 DEF Alone
        <5>2. newest[n][h] = None /\ clock < h
          BY <1>8, <2>1, <3>1, <5>1 DEF InRefresh
        <5>. QED  BY <3>1, <5>2, NothingYet
      <4>2. CASE o # p
        BY <1>2, <1>4, <3>1, <3>2, <4>2 DEF Alone, Writing
      <4>. QED  BY <4>1, <4>2
    <3>4. ReadAsStored(q, m, h)'
      BY <1>2, <1>6, <3>1, <3>2 DEF ReadAsStored
    <3>. QED  BY <3>1, <3>2, <3>3, <3>4
  <2>. QED  BY <2>2, <2>3
<1>. QED  BY <1>7, <1>9 DEF TInv

(* What a command writes of an hour is the newest there is of it.          *)
LEMMA UpdatedIsNewest ==
  ASSUME IInv, TInv, NEW p \in Procs, pc[p] = "merging", NEW n \in Nodes, n = job[p].node,
         NEW h \in HourStarts, h \notin overlapped[n]
  PROVE  /\ Updated(p)[h] # None =>
              /\ Updated(p)[h].asof \in Nat /\ h <= Updated(p)[h].asof
              /\ Updated(p)[h].asof <= clock
              /\ newest[n][h] # None => newest[n][h] <= Updated(p)[h].asof
         /\ Updated(p)[h] = None /\ newest[n][h] # None =>
              h \in dropped[n] \/ h < FloorHour(clock - Retention)
         /\ \A q \in Procs : q # p /\ Writing(q) /\ job[q].node = n => Updated(p)[h] = None
<1>1. /\ TypeOK /\ Answered(p) /\ HasRead(p) /\ Turn(p, n, h) /\ Kept(n, h) /\ clock \in Nat
      /\ job[p].at \in Moment /\ job[p].now \in Nat /\ job[p].now <= clock
      /\ job[p].new \in HoursType /\ job[p].read.hours \in HoursType
  BY JobIs DEF IInv, JobInv, HasRead, TInv, TurnInv, KeptInv, Moment, Time
<1>2. /\ newest[n][h] # None /\ job[p].at # None => newest[n][h] <= job[p].at
      /\ newest[n][h] # None => newest[n][h] <= job[p].now
      /\ StoredHour(n, h) # None =>
           job[p].read.hours[h] = StoredHour(n, h) \/ h < FloorHour(job[p].now - Retention)
      /\ job[p].read.hours[h] # None => newest[n][h] = job[p].read.hours[h].asof
      /\ \A q \in Procs : Alone(p, q, n, h)
  BY <1>1 DEF Turn, ReadAsStored, Writing
<1>4. Updated(p)[h] = IF ~InRetention(h, job[p].now) THEN None
                      ELSE IF job[p].new[h] # None THEN job[p].new[h]
                      ELSE job[p].read.hours[h]
  BY UpdatedIs
<1>5. /\ job[p].new[h] # None =>
           /\ job[p].at # None /\ job[p].new[h].asof = job[p].at /\ job[p].new[h].asof \in Nat
           /\ h <= job[p].new[h].asof /\ job[p].new[h].asof <= clock
      /\ job[p].read.hours[h] # None =>
           /\ job[p].read.hours[h].asof \in Nat
           /\ h <= job[p].read.hours[h].asof /\ job[p].read.hours[h].asof <= clock
  <2>1. job[p].new[h] # None => h \in Stored(job[p].new) /\ job[p].new[h] \in Bucket
    BY <1>1, StoredIs
  <2>2. job[p].read.hours[h] # None =>
          h \in Stored(job[p].read.hours) /\ job[p].read.hours[h] \in Bucket
    BY <1>1, StoredIs
  <2>3. /\ \A g \in Stored(job[p].new) : job[p].at # None /\ job[p].new[g].asof = job[p].at
        /\ Sound(job[p].new, traffic, clock) /\ Sound(job[p].read.hours, traffic, clock)
    BY <1>1 DEF Answered, HasRead
  <2>. QED  BY <2>1, <2>2, <2>3 DEF Sound, Right, Bucket, Time
<1>6. newest[n][h] # None => newest[n][h] \in Nat /\ h <= newest[n][h]
  BY <1>1, BucketIsNotNone DEF TInv, NewestInv
<1>7. job[p].read.hours[h] # None => newest[n][h] # None
  BY <1>2, <1>5, NoneIsNoBucket
<1>8. ASSUME Updated(p)[h] # None
      PROVE  /\ Updated(p)[h].asof \in Nat /\ h <= Updated(p)[h].asof
             /\ Updated(p)[h].asof <= clock
             /\ newest[n][h] # None => newest[n][h] <= Updated(p)[h].asof
  <2>1. CASE Updated(p)[h] = job[p].new[h]
    BY <1>2, <1>5, <1>8, <2>1
  <2>2. CASE Updated(p)[h] = job[p].read.hours[h]
    BY <1>2, <1>5, <1>6, <1>7, <1>8, <2>2
  <2>. QED  BY <1>4, <1>8, <2>1, <2>2
<1>9. ASSUME Updated(p)[h] = None, newest[n][h] # None
      PROVE  h \in dropped[n] \/ h < FloorHour(clock - Retention)
  <2>1. SUFFICES ASSUME StoredHour(n, h) # None  PROVE h < FloorHour(clock - Retention)
    BY <1>1, <1>9 DEF Kept
  <2>2. ~InRetention(h, job[p].now) \/ h < FloorHour(job[p].now - Retention)
    BY <1>2, <1>4, <1>9, <2>1
  <2>3. h <= FloorHour(job[p].now)
    BY <1>1, <1>2, <1>6, <1>9, HourStartsAre, NotBefore
  <2>4. FloorHour(job[p].now - Retention) <= FloorHour(clock - Retention)
    BY <1>1, FloorHourMoves, HoursAssumption
  <2>5. FloorHour(job[p].now - Retention) \in Int /\ FloorHour(clock - Retention) \in Int
    BY <1>1, FloorHourIs, HoursAssumption
  <2>. QED  BY <2>2, <2>3, <2>4, <2>5, HourStartsAre DEF InRetention
<1>10. ASSUME NEW q \in Procs, q # p, Writing(q), job[q].node = n
       PROVE  Updated(p)[h] = None
  BY <1>2, <1>4, <1>7, <1>10 DEF Alone
<1>. QED  BY <1>8, <1>9, <1>10

LEMMA WriteFileKeepsTurns ==
  ASSUME IInv, IInv', TInv, NEW p \in Procs, WriteFile(p)
  PROVE  TInv'
<1>0. PICK n \in Nodes : n = job[p].node
  BY JobIs DEF WriteFile, IInv, JobInv, WorkInv
<1>. DEFINE updated == Updated(p)
            fitting == Fitting(updated)
<1>1. /\ pc[p] = "merging" /\ TypeOK /\ TypeOK' /\ Swept(p) /\ clock \in Nat
      /\ newest' = [newest EXCEPT ![n] =
           [h \in HourStarts |-> IF h \in Stored(updated) THEN Later(@[h], updated[h].asof) ELSE @[h]]]
      /\ dropped' = [dropped EXCEPT ![n] = (@ \cup Stored(updated)) \ Stored(fitting)]
      /\ UNCHANGED <<clock, overlapped>>
  BY <1>0 DEF WriteFile, IInv, TypeOK, Time, world
<1>2. /\ file'[n] # None /\ file'[n].hours = fitting
      /\ \A m \in Nodes : m # n => file'[m] = file[m]
  <2>. DEFINE new == [hours |-> fitting, fetched |-> Later(job[p].read.fetched, job[p].at),
                      written |-> clock]
  <2>1. file' = [file EXCEPT ![n] = new]
    BY <1>0 DEF WriteFile
  <2>2. file'[n] = new /\ \A m \in Nodes : m # n => file'[m] = file[m]
    BY <1>0, <1>1, <2>1 DEF TypeOK
  <2>3. job[p] \in JobType /\ HasRead(p) /\ clock \in Time
    BY <1>1, JobIs DEF IInv, JobInv
  <2>4. new \in History
    <3>1. updated \in HoursType /\ Sound(updated, traffic, clock)
      BY <1>1, UpdatedIs
    <3>2. fitting \in HoursType
      BY <3>1, FittingIsSound
    <3>3. Later(job[p].read.fetched, job[p].at) \in Moment
      BY <2>3, LaterIs DEF HasRead, JobType
    <3>. QED  BY <2>3, <3>2, <3>3 DEF History
  <2>. QED  BY <2>2, <2>4, NoneAssumption
<1>3. updated \in HoursType /\ Sound(updated, traffic, clock)
  BY <1>1, UpdatedIs
<1>. HIDE DEF updated
<1>4. \A h \in HourStarts : fitting[h] \in {None, updated[h]}
  BY <1>3, FittingIsSound
<1>. HIDE DEF fitting
<1>5. \A m \in Nodes : m # n =>
        /\ newest'[m] = newest[m] /\ dropped'[m] = dropped[m]
        /\ \A h \in HourStarts : StoredHour(m, h)' = StoredHour(m, h)
  BY <1>1, <1>2 DEF TypeOK, StoredHour
<1>6. \A h \in HourStarts :
        /\ updated[h] # None =>
             /\ newest'[n][h] = Later(newest[n][h], updated[h].asof)
             /\ \/ StoredHour(n, h)' = updated[h]
                \/ (StoredHour(n, h)' = None /\ h \in dropped'[n])
        /\ updated[h] = None =>
             /\ newest'[n][h] = newest[n][h] /\ (h \in dropped[n] => h \in dropped'[n])
             /\ StoredHour(n, h)' = None
  <2>1. TAKE h \in HourStarts
  <2>2. /\ newest'[n][h] = IF h \in Stored(updated) THEN Later(newest[n][h], updated[h].asof)
                           ELSE newest[n][h]
        /\ dropped'[n] = (dropped[n] \cup Stored(updated)) \ Stored(fitting)
    BY <1>0, <1>1 DEF TypeOK
  <2>3. StoredHour(n, h)' = fitting[h]
    BY <1>2 DEF StoredHour
  <2>4. /\ h \in Stored(updated) <=> updated[h] # None
        /\ h \in Stored(fitting) <=> fitting[h] # None
    BY DEF Stored
  <2>5. fitting[h] = None \/ fitting[h] = updated[h]
    BY <1>4
  <2>. QED  BY <2>2, <2>3, <2>4, <2>5
<1>7. NewestInv'
  <2>1. SUFFICES ASSUME NEW m \in Nodes, NEW h \in HourStarts, newest'[m][h] # None
                 PROVE  h <= newest'[m][h] /\ newest'[m][h] <= clock
    BY <1>1 DEF NewestInv
  <2>2. newest[m][h] # None => h <= newest[m][h] /\ newest[m][h] <= clock
    BY DEF TInv, NewestInv
  <2>3. CASE m = n /\ updated[h] # None
    <3>1. h <= updated[h].asof /\ updated[h].asof <= clock
      BY <1>3, <2>3 DEF Sound, Right, Stored
    <3>2. newest'[n][h] = newest[n][h] \/ newest'[n][h] = updated[h].asof
      BY <1>6, <2>3 DEF Later
    <3>. QED  BY <2>1, <2>2, <2>3, <3>1, <3>2
  <2>. QED  BY <1>5, <1>6, <2>1, <2>2, <2>3
<1>8. ASSUME NEW h \in HourStarts, h \notin overlapped[n]
      PROVE  /\ updated[h] # None => newest'[n][h] = updated[h].asof
             /\ updated[h] = None /\ newest[n][h] # None =>
                  h \in dropped[n] \/ h < FloorHour(clock - Retention)
             /\ \A q \in Procs : q # p /\ Writing(q) /\ job[q].node = n => updated[h] = None
  <2>1. /\ updated[h] # None =>
             /\ updated[h].asof \in Nat
             /\ newest[n][h] # None => newest[n][h] <= updated[h].asof
        /\ updated[h] = None /\ newest[n][h] # None =>
             h \in dropped[n] \/ h < FloorHour(clock - Retention)
        /\ \A q \in Procs : q # p /\ Writing(q) /\ job[q].node = n => updated[h] = None
    BY <1>0, <1>1, <1>8, UpdatedIsNewest DEF updated
  <2>2. newest[n][h] # None => newest[n][h] \in Nat
    BY <1>1, BucketIsNotNone
  <2>3. updated[h] # None => Later(newest[n][h], updated[h].asof) = updated[h].asof
    BY <2>1, <2>2, NoneIsNoBucket DEF Later
  <2>. QED  BY <1>6, <2>1, <2>3
<1>9. KeptInv'
  <2>1. SUFFICES ASSUME NEW m \in Nodes, NEW h \in HourStarts, h \notin overlapped[m]
                 PROVE  Kept(m, h)'
    BY <1>1 DEF KeptInv
  <2>2. Kept(m, h)
    BY <2>1 DEF TInv, KeptInv
  <2>3. CASE m # n
    BY <1>1, <1>5, <2>2, <2>3 DEF Kept
  <2>4. CASE m = n /\ updated[h] # None
    BY <1>6, <1>8, <2>1, <2>4 DEF Kept
  <2>5. CASE m = n /\ updated[h] = None
    BY <1>1, <1>6, <1>8, <2>1, <2>5 DEF Kept
  <2>. QED  BY <2>3, <2>4, <2>5
<1>10. /\ ~(Writing(p))'
       /\ \A q \in Procs : q # p => pc'[q] = pc[q] /\ job'[q] = job[q]
  BY <1>1 DEF Swept, Goto, TypeOK, Writing
<1>11. TurnInv'
  <2>1. SUFFICES ASSUME NEW q \in Procs, NEW m \in Nodes, NEW h \in HourStarts,
                        (Writing(q))', job'[q].node = m, h \notin overlapped[m]
                 PROVE  /\ newest'[m][h] # None /\ job'[q].at # None => newest'[m][h] <= job'[q].at
                        /\ \A o \in Procs : Alone(q, o, m, h)'
                        /\ ReadAsStored(q, m, h)'
    BY <1>1 DEF TurnInv, Turn
  <2>2. q # p /\ Writing(q) /\ job[q].node = m /\ job'[q] = job[q] /\ pc'[q] = pc[q]
    BY <1>10, <2>1 DEF Writing
  <2>3. /\ newest[m][h] # None /\ job[q].at # None => newest[m][h] <= job[q].at
        /\ \A o \in Procs : Alone(q, o, m, h)
        /\ ReadAsStored(q, m, h)
    BY <2>1, <2>2 DEF TInv, TurnInv, Turn
  <2>4. newest'[m][h] = newest[m][h]
    <3>1. CASE m # n
      BY <1>5, <3>1
    <3>2. CASE m = n
      <4>1. updated[h] = None
        BY <1>8, <2>1, <2>2, <3>2
      <4>. QED  BY <1>6, <3>2, <4>1
    <3>. QED  BY <3>1, <3>2
  <2>5. StoredHour(m, h)' = StoredHour(m, h) \/ StoredHour(m, h)' = None
    <3>1. CASE m # n
      BY <1>5, <3>1
    <3>2. CASE m = n
      <4>1. updated[h] = None
        BY <1>8, <2>1, <2>2, <3>2
      <4>. QED  BY <1>6, <3>2, <4>1
    <3>. QED  BY <3>1, <3>2
  <2>6. ASSUME NEW o \in Procs  PROVE Alone(q, o, m, h)'
    <3>1. SUFFICES ASSUME o # q, (Writing(o))', job'[o].node = m
                   PROVE  newest'[m][h] = None /\ job'[q].new[h] = None
      BY DEF Alone
    <3>2. Writing(o) /\ job[o].node = m
      BY <1>10, <3>1 DEF Writing
    <3>. QED  BY <2>2, <2>3, <2>4, <3>1, <3>2 DEF Alone
  <2>7. ReadAsStored(q, m, h)'
    BY <2>2, <2>3, <2>4, <2>5 DEF ReadAsStored
  <2>. QED  BY <2>2, <2>3, <2>4, <2>6, <2>7
<1>. QED  BY <1>7, <1>9, <1>11 DEF TInv

LEMMA TurnsInvariance == Spec => []TInv
<1>1. ASSUME IInv, IInv', TInv, [Next]_vars  PROVE TInv'
  <2>1. CASE Tick \/ Forget \/ UNCHANGED vars
    BY <1>1, <2>1, ClockStepKeeps
  <2>2. ASSUME NEW p \in Procs, Ask(p) \/ Note(p)  PROVE TInv'
    BY <1>1, <2>2, BeginKeepsTurns
  <2>3. ASSUME NEW p \in Procs, WriteFile(p)  PROVE TInv'
    BY <1>1, <2>3, WriteFileKeepsTurns
  <2>4. ASSUME NEW p \in Procs,
               \/ Start(p) \/ Finish(p) \/ ReadFile(p) \/ WriteFails(p)
               \/ ListFiles(p) \/ Sweep(p) \/ Kill(p)
        PROVE  TInv'
    BY <1>1, <2>4, QuietStepKeeps
  <2>. QED  BY <1>1, <2>1, <2>2, <2>3, <2>4 DEF Next
<1>. QED  BY <1>1, InitTInv, Invariance, PTL DEF Spec

(* The hours in the files of health/store.py are what was heard and        *)
(* nothing else, and of an hour that was answered and will not be asked    *)
(* for again all is there or a bound of the store took it, if it had not   *)
(* begun when two updates of its node ran at once, however the commands    *)
(* otherwise interleave, fail or are killed.  If it had begun, it was      *)
(* written as a whole, but may have been overwritten: see BothLeaveAll.    *)
THEOREM HoursStayRight == Spec => []HoursAreRight
<1>1. ASSUME IInv, TInv  PROVE HoursAreRight
  <2>1. TypeOK /\ clock \in Time /\ clock \in Nat /\ traffic \in SUBSET Time
    BY <1>1, HistoryStoreAssumption DEF IInv, TypeOK, Time
  <2>2. ASSUME NEW n \in FilesThere
        PROVE  /\ n \in Nodes /\ file[n] # None /\ FileInv(n)
               /\ file[n].hours \in HoursType /\ file[n].fetched \in Moment
    BY <1>1, <2>1 DEF FilesThere, IInv, TypeOK, History
  <2>3. StoredIsTrue
    BY <2>1, <2>2, SoundIsTrue DEF StoredIsTrue, FileInv, heard
  <2>4. ASSUME NEW n \in FilesThere, NEW h \in HourStarts, Settled(n, h)
        PROVE  WholeOrDropped(n, h) \/ (h \in overlapped[n] /\ WrittenWhole(n, h))
    <3>1. Covered(n, h) /\ n \in Nodes /\ file[n] # None
      BY <2>2, <2>4 DEF FileInv, CoveredTo, Settled
    <3>2. ~(h < FloorHour(clock - Retention))
      <4>1. FloorHour(clock - Retention) <= h /\ FloorHour(clock - Retention) \in Int
        BY <2>1, <2>4, FloorHourIs, HoursAssumption DEF Settled, InRetention
      <4>. QED  BY <4>1, HourStartsAre
    <3>3. WrittenWhole(n, h)
      BY <2>4, <3>1, <3>2 DEF Covered, Settled, WrittenWhole
    <3>4. ASSUME h \notin overlapped[n]  PROVE WholeOrDropped(n, h)
      <4>1. Kept(n, h)
        BY <1>1, <3>1, <3>4 DEF TInv, KeptInv
      <4>. QED  BY <3>1, <3>2, <3>3, <4>1 DEF Kept, StoredHour, WrittenWhole, WholeOrDropped, Complete
    <3>. QED  BY <3>3, <3>4
  <2>. QED  BY <2>1, <2>3, <2>4 DEF HoursAreRight, SettledIsComplete
<1>. QED  BY <1>1, Invariance, TurnsInvariance, PTL

-----------------------------------------------------------------------------
(* _drop_oldest_day leaves a file that fits, or one without hours.         *)
LEMMA FittingFits ==
  ASSUME NEW hours \in HoursType
  PROVE  SizeOf(Fitting(hours)) <= MaxOf(FileMax, 1)
<1>. DEFINE C == Cardinality(HourStarts)
            Drop(k) == DropOldest(hours, k * DayHours)
            Enough(k) == SizeOf(Drop(k)) <= FileMax \/ k = C
            S == {k \in 0..C : Enough(k)}
<1>1. C \in Nat /\ FileMax \in Nat /\ DayHours \in Nat \ {0}
  BY HourStartsAreFinite, FS_CardinalityType, HistoryStoreAssumption, HoursAssumption
<1>2. \A k : SizeOf(Drop(k)) \in Nat
  BY StoredCounts DEF SizeOf
<1>. HIDE DEF C, Drop
<1>3. PICK k \in 0..C : Enough(k) /\ \A j \in 0..(k - 1) : SizeOf(Drop(j)) > FileMax
  <2>1. S \in SUBSET Nat /\ C \in S
    BY <1>1
  <2>2. PICK m \in S : \A u \in S : m <= u
    <3>. HIDE DEF S
    <3>. QED  BY <2>1, Earliest
  <2>3. ASSUME NEW j \in 0..(m - 1)  PROVE SizeOf(Drop(j)) > FileMax
    <3>1. j \in 0..C /\ j \notin S
      BY <1>1, <2>2
    <3>. QED  BY <1>1, <1>2, <3>1
  <2>. QED  BY <2>2, <2>3
<1>4. PICK n \in 0..C : Enough(n) /\ Fitting(hours) = Drop(n)
  <2>. DEFINE n == CHOOSE i \in 0..C :
                      Enough(i) /\ \A j \in 0..(i - 1) : SizeOf(Drop(j)) > FileMax
  <2>1. n \in 0..C /\ Enough(n)
    BY <1>3
  <2>2. Fitting(hours) = Drop(n)
    BY DEF Fitting, C, Drop
  <2>. HIDE DEF n
  <2>. QED  BY <2>1, <2>2
<1>5. CASE SizeOf(Drop(n)) <= FileMax
  BY <1>1, <1>2, <1>4, <1>5 DEF MaxOf
<1>6. CASE n = C
  <2>1. ASSUME NEW h \in HourStarts  PROVE Drop(n)[h] = None
    <3>. DEFINE B == {g \in Stored(hours) : g < h}
    <3>1. B \in SUBSET (HourStarts \ {h})
      BY HourStartsAre DEF Stored
    <3>2. IsFiniteSet(HourStarts \ {h}) /\ Cardinality(HourStarts \ {h}) = C - 1
      BY HourStartsAreFinite, FS_RemoveElement DEF C
    <3>. HIDE DEF B
    <3>3. Cardinality(B) \in Nat /\ Cardinality(B) <= C - 1
      BY <3>1, <3>2, SubsetCounts
    <3>4. n * DayHours >= C /\ n * DayHours \in Nat
      BY <1>1, <1>6
    <3>5. Cardinality(B) < n * DayHours
      BY <1>1, <3>3, <3>4
    <3>. QED  BY <3>5 DEF Drop, DropOldest, B
  <2>2. Stored(Drop(n)) = {}
    BY <2>1 DEF Stored
  <2>3. Cardinality(Stored(Drop(n))) = 0
    BY <2>2, FS_EmptySet
  <2>. QED  BY <1>1, <1>4, <2>3 DEF SizeOf, MaxOf
<1>. QED  BY <1>4, <1>5, <1>6

-----------------------------------------------------------------------------
(* The stored hours of some files.                                         *)
Cells(ns) == {x \in Nodes \X HourStarts : x[1] \in ns /\ file[x[1]].hours[x[2]] # None}

LEMMA TotalIs ==
  ASSUME NEW ns \in SUBSET Nodes
  PROVE  /\ TotalSize(ns) = Cardinality(ns) + Cardinality(Cells(ns))
         /\ IsFiniteSet(ns) /\ Cardinality(ns) \in Nat
         /\ IsFiniteSet(Cells(ns)) /\ Cardinality(Cells(ns)) \in Nat
<1>. DEFINE U == UNION {{<<n, h>> : h \in Stored(file[n].hours)} : n \in ns}
<1>1. U = Cells(ns)
  <2>1. ASSUME NEW x \in U  PROVE x \in Cells(ns)
    <3>1. PICK n \in ns : x \in {<<n, h>> : h \in Stored(file[n].hours)}
      OBVIOUS
    <3>2. PICK h \in Stored(file[n].hours) : x = <<n, h>>
      BY <3>1
    <3>. QED  BY <3>2 DEF Cells, Stored
  <2>2. ASSUME NEW x \in Cells(ns)  PROVE x \in U
    <3>1. x = <<x[1], x[2]>> /\ x[1] \in ns /\ x[2] \in Stored(file[x[1]].hours)
      BY DEF Cells, Stored
    <3>2. x \in {<<x[1], h>> : h \in Stored(file[x[1]].hours)}
      BY <3>1
    <3>. QED  BY <3>1, <3>2
  <2>. QED  BY <2>1, <2>2
<1>2. IsFiniteSet(Nodes \X HourStarts)
  BY HourStartsAreFinite, HistoryStoreAssumption, FS_Product
<1>3. Cells(ns) \in SUBSET (Nodes \X HourStarts)
  BY DEF Cells
<1>4. IsFiniteSet(ns) /\ Cardinality(ns) \in Nat
  BY HistoryStoreAssumption, SubsetCounts
<1>. QED  BY <1>1, <1>2, <1>3, <1>4, SubsetCounts DEF TotalSize

(* What is left of some files when others are not counted.                 *)
LEMMA LeftFits ==
  ASSUME NEW T \in SUBSET Nodes, NEW B \in SUBSET T, NEW K \in SUBSET (T \ B)
  PROVE  /\ Cardinality(K) <= Cardinality(T) - Cardinality(B)
         /\ TotalSize(K) <= TotalSize(T) - TotalSize(B)
         /\ Cardinality(K) \in Nat /\ Cardinality(T) \in Nat /\ Cardinality(B) \in Nat
         /\ TotalSize(K) \in Nat /\ TotalSize(T) \in Nat /\ TotalSize(B) \in Nat
<1>1. K \in SUBSET Nodes /\ B \in SUBSET Nodes
  OBVIOUS
<1>2. /\ IsFiniteSet(T) /\ Cardinality(T) \in Nat /\ Cardinality(B) \in Nat
      /\ Cardinality(K) \in Nat
      /\ IsFiniteSet(Cells(T)) /\ Cardinality(Cells(T)) \in Nat
      /\ Cardinality(Cells(B)) \in Nat /\ Cardinality(Cells(K)) \in Nat
      /\ TotalSize(K) = Cardinality(K) + Cardinality(Cells(K))
      /\ TotalSize(T) = Cardinality(T) + Cardinality(Cells(T))
      /\ TotalSize(B) = Cardinality(B) + Cardinality(Cells(B))
  BY <1>1, TotalIs
<1>3. \A V : IsFiniteSet(V) => \A W \in SUBSET V :
        /\ IsFiniteSet(V \ W)
        /\ Cardinality(V \ W) = Cardinality(V) - Cardinality(W)
  <2>1. SUFFICES ASSUME NEW V, IsFiniteSet(V), NEW W \in SUBSET V
                 PROVE  /\ IsFiniteSet(V \ W)
                        /\ Cardinality(V \ W) = Cardinality(V) - Cardinality(W)
    OBVIOUS
  <2>2. V \cap W = W
    OBVIOUS
  <2>. QED  BY <2>1, <2>2, FS_Difference
<1>4. /\ IsFiniteSet(T \ B) /\ Cardinality(T \ B) = Cardinality(T) - Cardinality(B)
  BY <1>2, <1>3
<1>5. Cells(B) \in SUBSET Cells(T) /\ Cells(K) \in SUBSET (Cells(T) \ Cells(B))
  BY DEF Cells
<1>6. /\ IsFiniteSet(Cells(T) \ Cells(B))
      /\ Cardinality(Cells(T) \ Cells(B)) = Cardinality(Cells(T)) - Cardinality(Cells(B))
  BY <1>2, <1>3, <1>5
<1>7. Cardinality(K) <= Cardinality(T \ B)
  BY <1>4, SubsetCounts
<1>8. Cardinality(Cells(K)) <= Cardinality(Cells(T) \ Cells(B))
  BY <1>5, <1>6, SubsetCounts
<1>. QED  BY <1>2, <1>4, <1>6, <1>7, <1>8

(* The files nobody has yet to deal with: a command that wrote a file, or  *)
(* failed to, lists them all later, and deletes later what it listed.      *)
Unlisted(p, n) == pc[p] = "listing" /\ job[p].node = n
Unswept(p, n)  == pc[p] = "sweeping" /\ n \in job[p].doomed
Tidy == {n \in FilesThere : \A p \in Procs : ~Unlisted(p, n) /\ ~Unswept(p, n)}

Few(ns)   == \/ Cardinality(ns) <= MaxNodes
             \/ \E crew \in Fleets : Cardinality(ns) <= Cardinality(crew) + Spare
Small(ns) == \/ TotalSize(ns) <= TotalMax
             \/ \E crew \in Fleets : ns \subseteq crew

TidyFits == "kill" \notin faults => Few(Tidy) /\ Small(Tidy)

LEMMA FewerFit ==
  ASSUME NEW T \in SUBSET Nodes, NEW K \in SUBSET T, Few(T), Small(T)
  PROVE  Few(K) /\ Small(K)
<1>1. PICK B \in SUBSET T : B = {}
  OBVIOUS
<1>2. TotalSize(B) \in Nat /\ Cardinality(B) \in Nat
      /\ Cardinality(K) <= Cardinality(T) - Cardinality(B)
      /\ TotalSize(K) <= TotalSize(T) - TotalSize(B)
      /\ Cardinality(K) \in Nat /\ Cardinality(T) \in Nat
      /\ TotalSize(K) \in Nat /\ TotalSize(T) \in Nat
  BY <1>1, LeftFits
<1>3. \A crew \in Fleets : Cardinality(crew) \in Nat
  <2>1. ASSUME NEW crew \in Fleets  PROVE Cardinality(crew) \in Nat
    <3>1. crew \in SUBSET Nodes
      BY HistoryStoreAssumption
    <3>. QED  BY <3>1, TotalIs
  <2>. QED  BY <2>1
<1>4. MaxNodes \in Nat /\ Spare \in Nat /\ TotalMax \in Nat
  BY HistoryStoreAssumption
<1>5. Few(K)
  BY <1>2, <1>3, <1>4 DEF Few
<1>6. Small(K)
  BY <1>2, <1>4 DEF Small
<1>. QED  BY <1>5, <1>6

(* The bounds stay when nothing becomes tidy.                              *)
LEMMA LessStaysTidy ==
  ASSUME TidyFits, faults \subseteq faults', Tidy' \subseteq Tidy,
         \A n \in Tidy' : file'[n] = file[n]
  PROVE  TidyFits'
<1>1. Tidy \in SUBSET Nodes
  BY DEF Tidy, FilesThere
<1>2. PICK K \in SUBSET Tidy : K = Tidy'
  OBVIOUS
<1>3. SUFFICES ASSUME "kill" \notin faults'  PROVE (Few(Tidy) /\ Small(Tidy))'
  BY DEF TidyFits
<1>4. Few(K) /\ Small(K)
  BY <1>1, <1>3, FewerFit DEF TidyFits
<1>5. TotalSize(Tidy)' = TotalSize(K)
  <2>1. {{<<n, h>> : h \in Stored(file'[n].hours)} : n \in K}
          = {{<<n, h>> : h \in Stored(file[n].hours)} : n \in K}
    BY <1>2
  <2>. QED  BY <1>2, <2>1 DEF TotalSize
<1>. QED  BY <1>2, <1>4, <1>5 DEF Few, Small

(* What a listing leaves undoomed fits: with the oldest file it leaves, of *)
(* those that are not the fleet's, went nothing but what is doomed.        *)
LEMMA ListedFits ==
  ASSUME NEW p \in Procs, Keep(p) = job[p].fleet, job[p].fleet \in Fleets,
         NEW order \in Orders(FilesThere \ Keep(p)),
         NEW K \in SUBSET FilesThere, K \cap Doomed(p, order) = {}
  PROVE  Few(K) /\ Small(K)
<1>. DEFINE crew == job[p].fleet
            Before(n) == {m \in FilesThere \ crew : order[m] < order[n]}
<1>1. /\ crew \in Fleets /\ crew \in SUBSET Nodes /\ FilesThere \in SUBSET Nodes
      /\ DOMAIN order = FilesThere \ crew
  BY HistoryStoreAssumption DEF FilesThere, Orders
<1>2. /\ MaxNodes \in Nat /\ Spare \in Nat /\ TotalMax \in Nat
      /\ Cardinality(crew) \in Nat /\ IsFiniteSet(crew)
      /\ Cap(p) = MaxOf(MaxNodes, Cardinality(crew) + Spare)
  BY <1>1, TotalIs, HistoryStoreAssumption DEF Cap
<1>3. CASE K \subseteq crew
  <2>1. Cardinality(K) \in Nat /\ Cardinality(K) <= Cardinality(crew)
    BY <1>2, <1>3, SubsetCounts
  <2>. QED  BY <1>1, <1>2, <1>3, <2>1 DEF Few, Small
<1>4. CASE ~(K \subseteq crew)
  <2>. DEFINE Places == {order[n] : n \in K \ crew}
  <2>1. \A n \in FilesThere \ crew : order[n] \in Nat
    <3>1. FilesThere \ crew \in SUBSET Nodes
      BY <1>1
    <3>2. Cardinality(FilesThere \ crew) \in Nat
      BY <3>1, TotalIs
    <3>. QED  BY <3>2 DEF Orders
  <2>2. PICK m \in K \ crew : \A n \in K \ crew : order[m] <= order[n]
    <3>1. Places \in SUBSET Nat /\ Places # {}
      BY <1>4, <2>1
    <3>2. PICK i \in Places : \A k \in Places : i <= k
      BY <3>1, Earliest
    <3>. QED  BY <3>2
  <2>3. PICK B \in SUBSET FilesThere : B = Before(m)
    OBVIOUS
  <2>4. /\ ~(Cardinality(FilesThere) - Cardinality(B) > Cap(p))
        /\ ~(TotalSize(FilesThere) - TotalSize(B) > TotalMax)
    BY <1>1, <2>2, <2>3 DEF Doomed
  <2>5. K \in SUBSET (FilesThere \ B)
    <3>1. ASSUME NEW n \in K, n \in B  PROVE FALSE
      <4>1. n \in K \ crew /\ order[n] < order[m]
        BY <2>3, <3>1
      <4>. QED  BY <2>1, <2>2, <4>1
    <3>. QED  BY <3>1
  <2>6. /\ Cardinality(K) <= Cardinality(FilesThere) - Cardinality(B)
        /\ TotalSize(K) <= TotalSize(FilesThere) - TotalSize(B)
        /\ Cardinality(K) \in Nat /\ Cardinality(FilesThere) \in Nat /\ Cardinality(B) \in Nat
        /\ TotalSize(K) \in Nat /\ TotalSize(FilesThere) \in Nat /\ TotalSize(B) \in Nat
    BY <1>1, <2>5, LeftFits
  <2>7. Cardinality(K) <= MaxNodes \/ Cardinality(K) <= Cardinality(crew) + Spare
    BY <1>2, <2>4, <2>6 DEF MaxOf
  <2>. QED  BY <1>1, <1>2, <2>4, <2>6, <2>7 DEF Few, Small
<1>. QED  BY <1>3, <1>4

(* A step of a command that has listed nothing lets nothing become tidy.   *)
LEMMA TidyWaits ==
  ASSUME TypeOK, TidyFits, faults \subseteq faults', NEW p \in Procs,
         \A q \in Procs : q # p => pc'[q] = pc[q] /\ job'[q] = job[q],
         \A n \in Nodes : Unlisted(p, n) => Unlisted(p, n)',
         \A n \in Nodes : Unswept(p, n) => file'[n] = None,
         \A n \in Nodes : file'[n] \in {None, file[n]} \/ Unlisted(p, n)'
  PROVE  TidyFits'
<1>1. ASSUME NEW n \in Tidy'
      PROVE  n \in Tidy /\ file'[n] = file[n]
  <2>1. /\ n \in Nodes /\ file'[n] # None /\ ~Unlisted(p, n)'
        /\ \A q \in Procs : q # p => ~Unlisted(q, n) /\ ~Unswept(q, n)
    BY <1>1 DEF Tidy, FilesThere, Unlisted, Unswept
  <2>2. file'[n] = file[n] /\ ~Unlisted(p, n) /\ ~Unswept(p, n)
    BY <2>1
  <2>. QED  BY <2>1, <2>2 DEF Tidy, FilesThere
<1>2. Tidy' \subseteq Tidy /\ \A n \in Tidy' : file'[n] = file[n]
  BY <1>1
<1>. QED  BY <1>2, LessStaysTidy

LEMMA ListFilesTidies ==
  ASSUME IInv, NEW p \in Procs, ListFiles(p)
  PROVE  TidyFits'
<1>1. /\ TypeOK /\ JobInv(p) /\ pc[p] = "listing" /\ pc' = [pc EXCEPT ![p] = "sweeping"]
      /\ UNCHANGED <<file, faults>>
  BY DEF ListFiles, Goto, IInv
<1>2. /\ job[p] \in JobType /\ job[p].fleet \in Fleets /\ pc'[p] = "sweeping"
      /\ Keep(p) = job[p].fleet
  BY <1>1, JobIs DEF JobInv, WorkInv, Keep, TypeOK
<1>3. PICK order \in Orders(FilesThere \ Keep(p)) :
        job' = [job EXCEPT ![p].doomed = Doomed(p, order)]
  BY DEF ListFiles
<1>4. job'[p].doomed = Doomed(p, order)
  <2>. DEFINE doomed == Doomed(p, order)
  <2>. HIDE DEF doomed
  <2>1. job' = [job EXCEPT ![p].doomed = doomed]
    BY <1>3 DEF doomed
  <2>2. job'[p].doomed = doomed
    BY <1>1, <1>2, <2>1 DEF TypeOK, JobType
  <2>. QED  BY <2>2 DEF doomed
<1>5. PICK K \in SUBSET FilesThere : K = Tidy'
  BY <1>1 DEF Tidy, FilesThere
<1>6. K \cap Doomed(p, order) = {}
  <2>1. \A n \in K : ~(n \in job'[p].doomed)
    BY <1>2, <1>5 DEF Tidy, Unswept
  <2>. QED  BY <1>4, <2>1
<1>7. Few(K) /\ Small(K)
  BY <1>2, <1>6, ListedFits
<1>8. TotalSize(Tidy)' = TotalSize(K)
  BY <1>1, <1>5 DEF TotalSize
<1>. QED  BY <1>5, <1>7, <1>8 DEF TidyFits, Few, Small

Bounds == FilesFit /\ FleetIsKept /\ TidyFits

LEMMA WriteFileBounds ==
  ASSUME IInv, Bounds, NEW p \in Procs, WriteFile(p)
  PROVE  Bounds'
<1>0. PICK n \in Nodes : n = job[p].node
  BY JobIs DEF WriteFile, IInv, JobInv, WorkInv
<1>1. PICK f \in History : f.hours = Fitting(Updated(p)) /\ file' = [file EXCEPT ![n] = f]
  <2>. DEFINE kept == Fitting(Updated(p))
              fetched == Later(job[p].read.fetched, job[p].at)
              f == [hours |-> kept, fetched |-> fetched, written |-> clock]
  <2>1. TypeOK /\ pc[p] = "merging" /\ HasRead(p)
    BY DEF WriteFile, IInv, JobInv
  <2>2. kept \in HoursType
    BY <2>1, UpdatedIs, FittingIsSound
  <2>3. fetched \in Moment /\ clock \in Time
    BY <2>1, JobIs, LaterIs DEF HasRead
  <2>4. file' = [file EXCEPT ![n] = f]
    BY <1>0 DEF WriteFile
  <2>. HIDE DEF kept, fetched
  <2>5. f \in History /\ f.hours = kept
    BY <2>2, <2>3 DEF History
  <2>. QED  BY <2>4, <2>5 DEF kept
<1>2. /\ TypeOK /\ TypeOK' /\ pc[p] = "merging" /\ Swept(p) /\ faults' = faults
      /\ wrote' = [wrote EXCEPT ![p] = @ \cup {n}]
  BY <1>0, WriteFileKeeps DEF WriteFile, IInv
<1>3. SizeOf(f.hours) <= MaxOf(FileMax, 1)
  BY <1>1, <1>2, UpdatedIs, FittingFits
<1>. DEFINE m == MaxOf(FileMax, 1)
<1>. HIDE DEF m
<1>4. file'[n] = f /\ \A k \in Nodes : k # n => file'[k] = file[k]
  BY <1>1, <1>2 DEF TypeOK
<1>5. FilesFit'
  <2>1. ASSUME NEW k \in Nodes, file'[k] # None  PROVE SizeOf(file'[k].hours) <= m
    <3>1. CASE k = n
      BY <1>3, <1>4, <3>1 DEF m
    <3>2. CASE k # n
      BY <1>4, <2>1, <3>2 DEF Bounds, FilesFit, FilesThere, m
    <3>. QED  BY <3>1, <3>2
  <2>. QED  BY <2>1 DEF FilesFit, FilesThere, m, SizeOf, Stored
<1>6. n \in FilesThere' /\ FilesThere \subseteq FilesThere'
  BY <1>4, NoneAssumption DEF FilesThere
<1>7. FleetIsKept'
  BY <1>2, <1>6 DEF FleetIsKept, Bounds, TypeOK
<1>8. TidyFits'
  <2>1. PICK j \in JobType : Moved(p, "listing", j) /\ j.node = n
    BY <1>0, <1>2, SweptIs
  <2>2. pc'[p] = "listing" /\ job'[p].node = n
    BY <1>2, <2>1 DEF Moved, TypeOK
  <2>3. \A q \in Procs : q # p => pc'[q] = pc[q] /\ job'[q] = job[q]
    BY <1>2, OthersWait
  <2>4. TidyFits /\ faults \subseteq faults'
    BY <1>2 DEF Bounds
  <2>5. /\ \A k \in Nodes : ~Unlisted(p, k) /\ ~Unswept(p, k)
        /\ Unlisted(p, n)'
    BY <1>2, <2>2 DEF Unlisted, Unswept
  <2>6. \A k \in Nodes : file'[k] \in {None, file[k]} \/ Unlisted(p, k)'
    BY <1>4, <2>5
  <2>. QED  BY <1>2, <2>3, <2>4, <2>5, <2>6, TidyWaits
<1>. QED  BY <1>5, <1>7, <1>8 DEF Bounds

LEMMA SweepBounds ==
  ASSUME IInv, Bounds, NEW p \in Procs, Sweep(p)
  PROVE  Bounds'
<1>1. /\ TypeOK /\ JobInv(p) /\ pc[p] = "sweeping" /\ faults' = faults
      /\ pc' = [pc EXCEPT ![p] = "next"]
      /\ \A n \in Nodes : file'[n] = IF n \in job[p].doomed THEN None ELSE file[n]
      /\ \A q \in Procs : wrote'[q] = IF q = p THEN wrote[q] ELSE wrote[q] \ job[p].doomed
  BY DEF Sweep, Goto, IInv
<1>2. FilesFit'
  BY <1>1 DEF Bounds, FilesFit, FilesThere, SizeOf, Stored
<1>3. FleetIsKept'
  <2>1. ASSUME NEW q \in Procs  PROVE wrote'[q] \subseteq FilesThere'
    <3>0. wrote[q] \subseteq FilesThere
      BY DEF Bounds, FleetIsKept
    <3>1. wrote'[q] \subseteq wrote[q] /\ wrote'[q] \cap job[p].doomed = {}
      <4>1. CASE q = p
        BY <1>1, <4>1 DEF JobInv, WorkInv
      <4>2. CASE q # p
        BY <1>1, <4>2
      <4>. QED  BY <4>1, <4>2
    <3>. QED  BY <1>1, <3>0, <3>1 DEF FilesThere
  <2>. QED  BY <2>1 DEF FleetIsKept
<1>4. TidyFits'
  <2>1. \A q \in Procs : q # p => pc'[q] = pc[q] /\ job'[q] = job[q]
    BY <1>1, OthersWait
  <2>2. TidyFits /\ faults \subseteq faults'
    BY <1>1 DEF Bounds
  <2>3. /\ \A n \in Nodes : ~Unlisted(p, n) /\ (Unswept(p, n) => file'[n] = None)
        /\ \A n \in Nodes : file'[n] \in {None, file[n]}
    BY <1>1 DEF Unlisted, Unswept
  <2>. QED  BY <1>1, <2>1, <2>2, <2>3, TidyWaits
<1>. QED  BY <1>2, <1>3, <1>4 DEF Bounds

LEMMA BoundsStay ==
  ASSUME IInv, Bounds, [Next]_vars
  PROVE  Bounds'
<1>1. TypeOK /\ FilesFit /\ FleetIsKept /\ TidyFits
  BY DEF IInv, Bounds
<1>2. ASSUME file' = file, \A p \in Procs : wrote'[p] \subseteq wrote[p]
      PROVE  FilesFit' /\ FleetIsKept'
  BY <1>1, <1>2 DEF FilesFit, FleetIsKept, FilesThere, SizeOf, Stored
<1>3. CASE Tick \/ Forget \/ UNCHANGED vars
  <2>1. UNCHANGED <<file, pc, job, wrote, faults>>
    BY <1>3 DEF Tick, Forget, vars
  <2>2. Tidy' = Tidy
    BY <2>1 DEF Tidy, FilesThere, Unlisted, Unswept
  <2>3. TidyFits'
    BY <1>1, <2>1, <2>2, LessStaysTidy
  <2>. QED  BY <1>2, <2>1, <2>3 DEF Bounds
<1>4. ASSUME NEW p \in Procs,
             \/ Start(p) \/ Ask(p) \/ Note(p) \/ Finish(p) \/ ReadFile(p)
      PROVE  Bounds'
  <2>1. /\ pc[p] \in {"idle", "next", "answered"} /\ UNCHANGED <<file, faults>>
        /\ \A q \in Procs : wrote'[q] \subseteq wrote[q]
    BY <1>1, <1>4 DEF Start, Ask, Note, Finish, ReadFile, TypeOK
  <2>2. \A q \in Procs : q # p => pc'[q] = pc[q] /\ job'[q] = job[q]
    BY <1>1, <1>4, OthersWait
  <2>3. \A n \in Nodes : ~Unlisted(p, n) /\ ~Unswept(p, n)
    BY <2>1 DEF Unlisted, Unswept
  <2>4. TidyFits'
    BY <1>1, <2>1, <2>2, <2>3, TidyWaits
  <2>. QED  BY <1>2, <2>1, <2>4 DEF Bounds
<1>5. ASSUME NEW p \in Procs, WriteFails(p)
      PROVE  Bounds'
  <2>1. /\ pc[p] = "merging" /\ UNCHANGED <<file, wrote>> /\ faults \subseteq faults'
    BY <1>5 DEF WriteFails
  <2>2. \A q \in Procs : q # p => pc'[q] = pc[q] /\ job'[q] = job[q]
    BY <1>1, <1>5, OthersWait
  <2>3. \A n \in Nodes : ~Unlisted(p, n) /\ ~Unswept(p, n)
    BY <2>1 DEF Unlisted, Unswept
  <2>4. TidyFits'
    BY <1>1, <2>1, <2>2, <2>3, TidyWaits
  <2>. QED  BY <1>2, <2>1, <2>4 DEF Bounds
<1>6. ASSUME NEW p \in Procs, ListFiles(p)
      PROVE  Bounds'
  <2>1. UNCHANGED <<file, wrote>>
    BY <1>6 DEF ListFiles
  <2>. QED  BY <1>2, <1>6, <2>1, ListFilesTidies DEF Bounds
<1>7. ASSUME NEW p \in Procs, Kill(p)
      PROVE  Bounds'
  <2>1. /\ file' = file /\ "kill" \in faults'
        /\ \A q \in Procs : wrote'[q] \subseteq wrote[q]
    BY <1>1, <1>7 DEF Kill, TypeOK
  <2>. QED  BY <1>2, <2>1 DEF Bounds, TidyFits
<1>. QED  BY <1>3, <1>4, <1>5, <1>6, <1>7, WriteFileBounds, SweepBounds DEF Next

LEMMA InitBounds == Init => Bounds
<1>. SUFFICES ASSUME Init  PROVE Bounds
  OBVIOUS
<1>1. FilesThere = {} /\ Tidy = {}
  BY DEF Init, FilesThere, Tidy
<1>2. FilesFit /\ FleetIsKept
  BY <1>1 DEF FilesFit, FleetIsKept, Init
<1>3. PICK E \in SUBSET Nodes : E = {}
  OBVIOUS
<1>4. Cardinality(E) = 0 /\ Cardinality(Cells(E)) = 0 /\ TotalSize(E) = 0
  <2>1. Cells(E) = {}
    BY <1>3 DEF Cells
  <2>2. Cardinality(E) = 0 /\ Cardinality(Cells(E)) = 0
    BY <1>3, <2>1, FS_EmptySet
  <2>. QED  BY <2>2, TotalIs
<1>5. Few(E) /\ Small(E)
  BY <1>4, HistoryStoreAssumption DEF Few, Small
<1>. QED  BY <1>1, <1>2, <1>3, <1>5 DEF Bounds, TidyFits

(* The sweeps of health/store.py delete enough and not too much: no file   *)
(* outgrows what is read of one, what a command wrote stays until it ends  *)
(* or another deletes it, and when nobody is at work and nobody was killed *)
(* the files are within the cap and the total, or a fleet needs them.      *)
THEOREM SweepsStayRight == Spec => []SweepsAreRight
<1>1. ASSUME Bounds  PROVE SweepsAreRight
  <2>1. ASSUME \A p \in Procs : pc[p] = "idle"  PROVE Tidy = FilesThere
    BY <2>1 DEF Tidy, Unlisted, Unswept
  <2>2. QuietMeansBounded
    BY <1>1, <2>1 DEF QuietMeansBounded, Bounds, TidyFits, Few, Small
  <2>. QED  BY <1>1, <2>2 DEF Bounds, SweepsAreRight
<1>. QED  BY <1>1, InitBounds, BoundsStay, InitIInv, NextKeeps, PTL DEF Spec

-----------------------------------------------------------------------------
(* `mesh status`.                                                          *)

(* Numbers of which the next is in a set with each are all in it.          *)
LEMMA ByInduction ==
  ASSUME NEW S, 0 \in S, \A n \in Nat : n \in S => n + 1 \in S
  PROVE  Nat \subseteq S
<1>. DEFINE T == Nat \ S
            R == OpToRel(<, Nat)
<1>. SUFFICES ASSUME T # {}  PROVE FALSE
  OBVIOUS
<1>1. IsWellFoundedOn(R, Nat)
  BY NatLessThanWellFounded
<1>2. PICK m \in T : \A n \in T : <<n, m>> \notin R
  <2>. HIDE DEF R, T
  <2>1. T \subseteq Nat
    BY DEF T
  <2>. QED  BY <1>1, <2>1, WFMin
<1>3. m \in Nat /\ m # 0 /\ m - 1 \in Nat /\ m - 1 < m
  OBVIOUS
<1>4. <<m - 1, m>> \in R
  BY <1>3 DEF OpToRel
<1>5. m - 1 \in S
  BY <1>2, <1>3, <1>4
<1>. QED  BY <1>3, <1>5

(* Of some numbers one is the greatest, and one the least.                 *)
LEMMA Extremes ==
  ASSUME NEW S \in SUBSET Int, IsFiniteSet(S), S # {}
  PROVE  /\ Max(S) \in S /\ \A y \in S : y <= Max(S)
         /\ Min(S) \in S /\ \A y \in S : Min(S) <= y
<1> DEFINE Has(T) == /\ \E x \in T : \A y \in T : x >= y
                     /\ \E x \in T : \A y \in T : x <= y
           Good == {n \in Nat : \A T \in SUBSET Int :
                      IsFiniteSet(T) /\ Cardinality(T) = n + 1 => Has(T)}
<1>1. 0 \in Good
  <2> SUFFICES ASSUME NEW T \in SUBSET Int, IsFiniteSet(T), Cardinality(T) = 1  PROVE Has(T)
    OBVIOUS
  <2>1. PICK x : T = {x}
    BY FS_Singleton
  <2> QED
    BY <2>1
<1>2. ASSUME NEW n \in Nat, n \in Good  PROVE n + 1 \in Good
  <2> SUFFICES ASSUME NEW T \in SUBSET Int, IsFiniteSet(T), Cardinality(T) = n + 2  PROVE Has(T)
    OBVIOUS
  <2>1. T # {}
    BY FS_EmptySet
  <2>2. PICK x \in T : TRUE
    BY <2>1
  <2> DEFINE Rest == T \ {x}
  <2>3. Rest \in SUBSET Int /\ IsFiniteSet(Rest) /\ Cardinality(Rest) = n + 1
    BY <2>2, FS_RemoveElement
  <2>4. Has(Rest)
    BY <1>2, <2>3
  <2>5. PICK a \in Rest, b \in Rest : \A y \in Rest : a >= y /\ b <= y
    BY <2>4
  <2>6. T = Rest \cup {x} /\ x \in Int /\ a \in Int /\ b \in Int
    BY <2>2
  <2>7. \E z \in T : \A y \in T : z >= y
    <3>1. CASE x >= a
      BY <2>5, <2>6, <3>1
    <3>2. CASE ~(x >= a)
      BY <2>5, <2>6, <3>2
    <3> QED
      BY <3>1, <3>2
  <2>8. \E z \in T : \A y \in T : z <= y
    <3>1. CASE x <= b
      BY <2>5, <2>6, <3>1
    <3>2. CASE ~(x <= b)
      BY <2>5, <2>6, <3>2
    <3> QED
      BY <3>1, <3>2
  <2> QED
    BY <2>7, <2>8
<1> HIDE DEF Good
<1>3. Nat \subseteq Good
  BY <1>1, <1>2, ByInduction
<1>4. Cardinality(S) \in Nat /\ Cardinality(S) # 0
  BY FS_CardinalityType, FS_EmptySet
<1>5. Cardinality(S) - 1 \in Good
  BY <1>3, <1>4
<1>6. Has(S)
  BY <1>4, <1>5 DEF Good
<1>7. Max(S) \in S /\ \A y \in S : Max(S) >= y
  BY <1>6 DEF Max
<1>8. Min(S) \in S /\ \A y \in S : Min(S) <= y
  BY <1>6 DEF Min
<1> QED
  BY <1>7, <1>8

(* The hours before one, and what is next to it.                           *)
LEMMA PreviousIs ==
  ASSUME NEW H \in SUBSET Int, IsFiniteSet(H), NEW t \in H, t # Min(H)
  PROVE  Previous(H, t) \in H /\ Previous(H, t) < t /\ \A u \in H : u < t => u <= Previous(H, t)
<1> DEFINE Before == {u \in H : u < t}
<1>1. Before \in SUBSET Int /\ IsFiniteSet(Before)
  BY FS_Subset
<1>2. Min(H) \in Before
  <2>1. H # {}
    OBVIOUS
  <2>2. Min(H) \in H /\ Min(H) <= t
    BY <2>1, Extremes
  <2>3. Min(H) \in Int /\ t \in Int
    BY <2>2
  <2> QED
    BY <2>2, <2>3
<1>3. Max(Before) \in Before /\ \A y \in Before : y <= Max(Before)
  BY <1>1, <1>2, Extremes
<1>4. Previous(H, t) = Max(Before)
  BY DEF Previous
<1> QED
  BY <1>3, <1>4

(* How far some hours reach, by the gaps between them.                     *)
LEMMA Reach ==
  ASSUME NEW g \in Int, NEW H \in SUBSET Int, IsFiniteSet(H), H # {}
  PROVE  /\ (\A t \in H \ {Min(H)} : t - Previous(H, t) >= g)
              => Max(H) - Min(H) >= g * (Cardinality(H) - 1)
         /\ (\A t \in H \ {Min(H)} : t - Previous(H, t) <= g)
              => Max(H) - Min(H) <= g * (Cardinality(H) - 1)
<1> DEFINE Wide(T)   == \A t \in T \ {Min(T)} : t - Previous(T, t) >= g
           Narrow(T) == \A t \in T \ {Min(T)} : t - Previous(T, t) <= g
           Good == {n \in Nat : \A T \in SUBSET Int :
                      IsFiniteSet(T) /\ Cardinality(T) = n + 1 =>
                        /\ Wide(T) => Max(T) - Min(T) >= g * n
                        /\ Narrow(T) => Max(T) - Min(T) <= g * n}
<1>1. 0 \in Good
  <2> SUFFICES ASSUME NEW T \in SUBSET Int, IsFiniteSet(T), Cardinality(T) = 1
               PROVE  Max(T) - Min(T) = g * 0
    OBVIOUS
  <2>1. PICK x : T = {x}
    BY FS_Singleton
  <2>2. Max(T) = x /\ Min(T) = x /\ x \in Int
    BY <2>1, Extremes
  <2> QED
    BY <2>2
<1>2. ASSUME NEW n \in Nat, n \in Good  PROVE n + 1 \in Good
  <2> SUFFICES ASSUME NEW T \in SUBSET Int, IsFiniteSet(T), Cardinality(T) = n + 2
               PROVE  /\ Wide(T) => Max(T) - Min(T) >= g * (n + 1)
                      /\ Narrow(T) => Max(T) - Min(T) <= g * (n + 1)
    OBVIOUS
  <2> DEFINE last == Max(T)
             Rest == T \ {last}
  <2>1. T # {}
    BY FS_EmptySet
  <2>2. last \in T /\ (\A y \in T : y <= last) /\ Min(T) \in T /\ \A y \in T : Min(T) <= y
    BY <2>1, Extremes
  <2> HIDE DEF last
  <2>3. Rest \in SUBSET Int /\ IsFiniteSet(Rest) /\ Cardinality(Rest) = n + 1
    BY <2>2, FS_RemoveElement
  <2>4. Rest # {}
    BY <2>3, FS_EmptySet
  <2>5. Max(Rest) \in Rest /\ (\A y \in Rest : y <= Max(Rest)) /\ Min(Rest) \in Rest /\ \A y \in Rest : Min(Rest) <= y
    BY <2>3, <2>4, Extremes
  <2>6. last \in Int /\ Max(Rest) \in Int /\ Min(Rest) \in Int /\ Min(T) \in Int
    BY <2>2, <2>5
  <2>7. Min(Rest) = Min(T) /\ last # Min(T)
    <3>1. Max(Rest) < last
      BY <2>2, <2>5, <2>6
    <3>2. Min(T) \in Rest
      BY <2>2, <2>5, <2>6, <3>1
    <3> QED
      BY <2>2, <2>5, <2>6, <3>2
  <2>8. Previous(T, last) = Max(Rest)
    <3>1. \A u \in T : u \in Int /\ (u < last <=> u # last)
      BY <2>2, <2>6
    <3>2. {u \in T : u < last} = Rest
      BY <3>1
    <3> QED
      BY <3>2 DEF Previous
  <2>9. ASSUME NEW t \in Rest \ {Min(Rest)}  PROVE t \in T \ {Min(T)} /\ Previous(Rest, t) = Previous(T, t)
    <3>1. t \in T \ {Min(T)} /\ t < last
      BY <2>2, <2>6, <2>7
    <3>2. {u \in T : u < t} = {u \in Rest : u < t}
      BY <2>6, <3>1
    <3> QED
      BY <3>1, <3>2 DEF Previous
  <2>10. /\ Wide(T) => Wide(Rest) /\ last - Max(Rest) >= g
         /\ Narrow(T) => Narrow(Rest) /\ last - Max(Rest) <= g
    BY <2>2, <2>7, <2>8, <2>9
  <2>11. /\ Wide(Rest) => Max(Rest) - Min(Rest) >= g * n
         /\ Narrow(Rest) => Max(Rest) - Min(Rest) <= g * n
    BY <1>2, <2>3
  <2> HIDE DEF Wide, Narrow, Rest
  <2>12. g * (n + 1) = g * n + g /\ g * n \in Int
    OBVIOUS
  <2>13. /\ Wide(T) => last - Min(T) >= g * (n + 1)
         /\ Narrow(T) => last - Min(T) <= g * (n + 1)
    BY <2>6, <2>7, <2>10, <2>11, <2>12
  <2> QED
    BY <2>13 DEF last
<1> HIDE DEF Good
<1>3. Nat \subseteq Good
  BY <1>1, <1>2, ByInduction
<1>4. Cardinality(H) \in Nat /\ Cardinality(H) # 0
  BY FS_CardinalityType, FS_EmptySet
<1>5. Cardinality(H) - 1 \in Good
  BY <1>3, <1>4
<1> QED
  BY <1>4, <1>5 DEF Good

(* What a quotient is at most, and at least.                               *)
LEMMA Quotient ==
  ASSUME NEW a \in Nat, NEW k \in Nat, k > 0, NEW c \in Nat
  PROVE  /\ a \div k \in Nat
         /\ a <= c * k => a \div k <= c
         /\ a >= c * k => a \div k >= c
<1>1. PICK q \in Nat, r \in Nat : a \div k = q /\ a = k * q + r /\ r < k
  <2>1. a \div k \in Nat /\ a % k \in Nat /\ a % k < k /\ a = k * (a \div k) + (a % k)
    OBVIOUS
  <2> QED
    BY <2>1
<1>2. ASSUME q >= c + 1  PROVE k * q >= c * k + k
  BY <1>1, <1>2
<1>3. ASSUME q + 1 <= c  PROVE c * k >= k * q + k
  BY <1>1, <1>3
<1> QED
  BY <1>1, <1>2, <1>3

-----------------------------------------------------------------------------
(* The hours a node was hearing in, of those its history covers.             *)
HoursHeard(history) == {h.hour : h \in {c \in history : c.receptions > 0}}

LEMMA HoursHeardAre ==
  ASSUME NEW from, SightIs(from)
  PROVE  HoursHeard(from.history) \in SUBSET Int /\ IsFiniteSet(HoursHeard(from.history))
<1> DEFINE with == {c \in from.history : c.receptions > 0}
           f == [h \in with |-> h.hour]
<1>1. with \in SUBSET from.history /\ IsFiniteSet(with)
  BY FS_Subset DEF SightIs
<1>2. f \in Surjection(with, HoursHeard(from.history))
  BY DEF Surjection, HoursHeard
<1> HIDE DEF f
<1>3. IsFiniteSet(HoursHeard(from.history))
  BY <1>1, <1>2, FS_Surjection
<1>4. HoursHeard(from.history) \in SUBSET Int
  BY <1>1 DEF HoursHeard, SightIs
<1> QED
  BY <1>3, <1>4

(* As many hours are covered after the first hearing one up to the last as   *)
(* there are at most, and exactly so many if all are.                      *)
LEMMA SpannedIs ==
  ASSUME NEW from, SightIs(from), NEW covered \in SUBSET from.history,
         NEW hearing \in SUBSET Int, IsFiniteSet(hearing), hearing # {}
  PROVE  LET spanned == Spanned(covered, hearing) IN
         /\ Cardinality(spanned) \in Nat /\ Cardinality(spanned) <= Max(hearing) - Min(hearing)
         /\ (\A t \in Min(hearing)..Max(hearing) : \E h \in covered : h.hour = t)
              => Cardinality(spanned) = Max(hearing) - Min(hearing)
<1> DEFINE lo == Min(hearing)  hi == Max(hearing)
           spanned == Spanned(covered, hearing)
           f == [h \in spanned |-> h.hour]
<1>1. lo \in Int /\ hi \in Int /\ lo <= hi
  BY Extremes
<1> HIDE DEF lo, hi
<1>2. spanned = {h \in covered : lo < h.hour /\ h.hour <= hi}
  BY DEF Spanned, lo, hi
<1>3. \A h \in spanned : h \in from.history /\ h.hour \in Int /\ lo < h.hour /\ h.hour <= hi
  BY <1>2 DEF SightIs
<1> HIDE DEF spanned
<1>4. f \in [spanned -> (lo + 1)..hi]
  BY <1>1, <1>3
<1>5. \A h, i \in spanned : h.hour = i.hour => h = i
  BY <1>3 DEF SightIs
<1>6. IsInjective(f)
  BY <1>5 DEF IsInjective
<1>7. f \in Injection(spanned, (lo + 1)..hi)
  BY <1>4, <1>6 DEF Injection
<1>8. IsFiniteSet((lo + 1)..hi) /\ Cardinality((lo + 1)..hi) = hi - lo
  <2>1. lo + 1 \in Int /\ (IF lo + 1 > hi THEN 0 ELSE hi - (lo + 1) + 1) = hi - lo
    BY <1>1
  <2>2. /\ IsFiniteSet((lo + 1)..hi)
        /\ Cardinality((lo + 1)..hi) = IF lo + 1 > hi THEN 0 ELSE hi - (lo + 1) + 1
    BY <1>1, <2>1, FS_Interval
  <2> QED
    BY <2>1, <2>2
<1>9. /\ IsFiniteSet(spanned) /\ Cardinality(spanned) <= hi - lo
      /\ f \in Surjection(spanned, (lo + 1)..hi) => Cardinality(spanned) = hi - lo
  BY <1>7, <1>8, FS_Injection
<1>10. Cardinality(spanned) \in Nat
  BY <1>9, FS_CardinalityType
<1>11. ASSUME \A t \in lo..hi : \E h \in covered : h.hour = t
       PROVE  f \in Surjection(spanned, (lo + 1)..hi)
  <2>1. \A t \in (lo + 1)..hi : \E h \in spanned : f[h] = t
    BY <1>1, <1>2, <1>11
  <2> QED
    BY <1>4, <2>1 DEF Surjection
<1> QED
  BY <1>9, <1>10, <1>11 DEF lo, hi, spanned

(* What is learned is at most the longest gap, and at least the shortest   *)
(* if the history covers all the hours between.                            *)
LEMMA LearnedIs ==
  ASSUME NEW from, SightIs(from), NEW hours, hours = HoursHeard(from.history),
         Cardinality(hours) >= MinHeard, \A t \in hours : from.now - LearnWindow <= t,
         Max(hours) <= from.now
  PROVE  LET learned == LearnedInterval(from.history, from.now) IN
         /\ learned \in Nat /\ learned <= MaxInterval
         /\ \A gap \in Nat : (\A t \in hours \ {Min(hours)} : t - Previous(hours, t) <= gap)
              => learned <= gap * HourUnits
         /\ \A gap \in Nat :
              /\ \A t \in hours \ {Min(hours)} : t - Previous(hours, t) >= gap
              /\ \A t \in Min(hours)..Max(hours) : \E h \in from.history : h.hour = t
              /\ gap * HourUnits <= MaxInterval
              => learned >= gap * HourUnits
<1> DEFINE covered == {h \in from.history : from.now - LearnWindow <= h.hour /\ h.hour <= from.now}
           count == Cardinality(hours) - 1
           spanned == Cardinality(Spanned(covered, hours))
           mean == (spanned * HourUnits) \div count
           learned == LearnedInterval(from.history, from.now)
<1>1. hours \in SUBSET Int /\ IsFiniteSet(hours) /\ Cardinality(hours) \in Nat
  BY HoursHeardAre, FS_CardinalityType
<1>2. hours # {} /\ count \in Nat /\ count > 0
  BY <1>1, FS_EmptySet, StatusAssumption
<1>3. /\ Max(hours) \in hours /\ \A y \in hours : y <= Max(hours)
      /\ Min(hours) \in hours /\ \A y \in hours : Min(hours) <= y
  BY <1>1, <1>2, Extremes
<1>4. from.now \in Int /\ LearnWindow \in Nat /\ HourUnits \in Nat /\ HourUnits > 0 /\ MaxInterval \in Nat
  BY StatusAssumption DEF SightIs
<1>5. {h.hour : h \in {c \in covered : c.receptions > 0}} = hours
  <2>1. \A t \in hours : t \in Int /\ t <= from.now
    BY <1>1, <1>3, <1>4
  <2>2. \A t \in hours : \E c \in covered : c.receptions > 0 /\ c.hour = t
    BY <2>1 DEF HoursHeard
  <2>3. \A c \in covered : c.receptions > 0 => c.hour \in hours
    BY DEF HoursHeard
  <2> QED
    BY <2>2, <2>3
<1>6. learned = Capped(mean)
  <2>1. ~(Cardinality(hours) < MinHeard)
    BY <1>1, StatusAssumption
  <2> QED
    BY <1>5, <2>1 DEF LearnedInterval
<1>7. /\ spanned \in Nat /\ spanned <= Max(hours) - Min(hours)
      /\ (\A t \in Min(hours)..Max(hours) : \E h \in covered : h.hour = t)
           => spanned = Max(hours) - Min(hours)
  BY <1>1, <1>2, SpannedIs
<1>8. ASSUME \A t \in Min(hours)..Max(hours) : \E h \in from.history : h.hour = t
      PROVE  \A t \in Min(hours)..Max(hours) : \E h \in covered : h.hour = t
  <2> SUFFICES ASSUME NEW t \in Min(hours)..Max(hours)  PROVE \E h \in covered : h.hour = t
    OBVIOUS
  <2>1. PICK h \in from.history : h.hour = t
    BY <1>8
  <2>2. Min(hours) \in Int /\ Max(hours) \in Int /\ from.now - LearnWindow <= Min(hours)
    BY <1>1, <1>3
  <2>3. from.now - LearnWindow <= t /\ t <= from.now
    BY <1>4, <2>2
  <2> QED
    BY <2>1, <2>3
<1> HIDE DEF covered, spanned, count, learned
<1> DEFINE units == spanned * HourUnits
<1>9. units \in Nat
  BY <1>4, <1>7
<1>10. \A gap \in Nat :
         /\ spanned <= gap * count => units <= (gap * HourUnits) * count
         /\ spanned >= gap * count => units >= (gap * HourUnits) * count
  <2> TAKE gap \in Nat
  <2>1. gap * count \in Nat
    BY <1>2
  <2>2. (gap * HourUnits) * count = (gap * count) * HourUnits
    BY <1>2, <1>4
  <2>3. \A m \in Nat : (spanned <= m => spanned * HourUnits <= m * HourUnits)
                         /\ (spanned >= m => spanned * HourUnits >= m * HourUnits)
    BY <1>4, <1>7
  <2> QED
    BY <2>1, <2>2, <2>3
<1>11. \A gap \in Nat : gap * HourUnits \in Nat
  BY <1>4
<1> HIDE DEF units
<1>12. /\ units \div count \in Nat
       /\ \A c \in Nat : /\ units <= c * count => units \div count <= c
                         /\ units >= c * count => units \div count >= c
  BY <1>2, <1>9, Quotient
<1>13. mean = units \div count
  BY DEF units
<1> HIDE DEF mean
<1>14. mean \in Nat /\ learned \in Nat /\ learned <= mean /\ learned <= MaxInterval
       /\ (learned = mean \/ learned = MaxInterval)
  <2>1. mean \in Nat
    BY <1>12, <1>13
  <2>2. {mean, MaxInterval} \in SUBSET Int /\ IsFiniteSet({mean, MaxInterval})
    <3>1. IsFiniteSet({mean}) /\ {mean} \cup {MaxInterval} = {mean, MaxInterval}
      BY FS_Singleton
    <3> QED
      BY <1>4, <2>1, <3>1, FS_AddElement
  <2>3. Min({mean, MaxInterval}) \in {mean, MaxInterval}
        /\ \A y \in {mean, MaxInterval} : Min({mean, MaxInterval}) <= y
    BY <2>2, Extremes
  <2>4. learned = Min({mean, MaxInterval})
    BY <1>6 DEF Capped
  <2> QED
    BY <1>4, <2>1, <2>3, <2>4
<1>15. ASSUME NEW gap \in Nat, \A t \in hours \ {Min(hours)} : t - Previous(hours, t) <= gap
       PROVE  learned <= gap * HourUnits
  <2>1. Max(hours) - Min(hours) <= gap * count
    BY <1>1, <1>2, <1>15, Reach DEF count
  <2>2. gap * count \in Nat /\ Max(hours) \in Int /\ Min(hours) \in Int
    BY <1>1, <1>2, <1>3
  <2>3. spanned <= gap * count
    BY <1>7, <2>1, <2>2
  <2>4. mean <= gap * HourUnits
    BY <1>10, <1>11, <1>12, <1>13, <2>3
  <2> QED
    BY <1>11, <1>14, <2>4
<1>16. ASSUME NEW gap \in Nat, gap * HourUnits <= MaxInterval,
              \A t \in hours \ {Min(hours)} : t - Previous(hours, t) >= gap,
              \A t \in Min(hours)..Max(hours) : \E h \in from.history : h.hour = t
       PROVE  learned >= gap * HourUnits
  <2>1. Max(hours) - Min(hours) >= gap * count
    BY <1>1, <1>2, <1>16, Reach DEF count
  <2>2. spanned = Max(hours) - Min(hours)
    BY <1>7, <1>8, <1>16
  <2>3. mean >= gap * HourUnits
    BY <1>10, <1>11, <1>12, <1>13, <2>1, <2>2
  <2> QED
    BY <1>11, <1>14, <1>16, <2>3
<1> QED
  BY <1>14, <1>15, <1>16 DEF learned

-----------------------------------------------------------------------------
LEMMA PairIs ==
  ASSUME NEW a \in Int, NEW b \in Int
  PROVE  /\ Max({a, b}) = IF a >= b THEN a ELSE b
         /\ Min({a, b}) = IF a <= b THEN a ELSE b
<1>1. IsFiniteSet({a, b})
  <2>1. IsFiniteSet({a}) /\ {a} \cup {b} = {a, b}
    BY FS_Singleton
  <2> QED
    BY <2>1, FS_AddElement
<1>2. {a, b} \in SUBSET Int /\ {a, b} # {}
  OBVIOUS
<1>3. /\ Max({a, b}) \in {a, b} /\ \A y \in {a, b} : y <= Max({a, b})
      /\ Min({a, b}) \in {a, b} /\ \A y \in {a, b} : Min({a, b}) <= y
  BY <1>1, <1>2, Extremes
<1> QED
  BY <1>3

(* A cap leaves what is no more.                                           *)
LEMMA CappedIs ==
  ASSUME NEW i \in Nat
  PROVE  Capped(i) \in Nat /\ (i <= MaxInterval => Capped(i) = i)
<1>1. MaxInterval \in Nat
  BY StatusAssumption
<1>2. Min({i, MaxInterval}) = IF i <= MaxInterval THEN i ELSE MaxInterval
  BY <1>1, PairIs
<1> QED
  BY <1>1, <1>2 DEF Capped

(* An interval that is learned is one.                                     *)
LEMMA LearnedType ==
  ASSUME NEW from, SightIs(from)
  PROVE  LearnedInterval(from.history, from.now) \in Nat \cup {Unknown}
<1> DEFINE covered == {h \in from.history : from.now - LearnWindow <= h.hour /\ h.hour <= from.now}
           hearing == HoursHeard(covered)
           spanned == Cardinality(Spanned(covered, hearing))
           mean == (spanned * HourUnits) \div (Cardinality(hearing) - 1)
<1>1. hearing \in SUBSET Int /\ IsFiniteSet(hearing) /\ Cardinality(hearing) \in Nat
  <2>1. HoursHeard(from.history) \in SUBSET Int /\ IsFiniteSet(HoursHeard(from.history))
    BY HoursHeardAre
  <2>2. hearing \in SUBSET HoursHeard(from.history)
    BY DEF HoursHeard
  <2> HIDE DEF hearing
  <2> QED
    BY <2>1, <2>2, FS_Subset, FS_CardinalityType
<1>2. LearnedInterval(from.history, from.now)
        = IF Cardinality(hearing) < MinHeard THEN Unknown ELSE Capped(mean)
  BY DEF LearnedInterval, HoursHeard
<1>3. covered \in SUBSET from.history
  OBVIOUS
<1> HIDE DEF covered, hearing
<1>4. CASE ~(Cardinality(hearing) < MinHeard)
  <2>1. hearing # {} /\ Cardinality(hearing) - 1 \in Nat /\ Cardinality(hearing) - 1 > 0
    BY <1>1, <1>4, FS_EmptySet, StatusAssumption
  <2>2. spanned \in Nat
    BY <1>1, <1>3, <2>1, SpannedIs
  <2> HIDE DEF spanned
  <2>3. spanned * HourUnits \in Nat
    BY <2>2, StatusAssumption
  <2>4. mean \in Nat
    BY <2>1, <2>3, Quotient
  <2> HIDE DEF mean
  <2> QED
    BY <1>2, <1>4, <2>4, CappedIs
<1> QED
  BY <1>2, <1>4

(* There is always an interval.                                            *)
LEMMA IntervalIs ==
  ASSUME NEW from, SightIs(from), NEW role
  PROVE  /\ ResolveCadence(CadenceHint(from), role).interval \in Nat
         /\ from.override = Unknown =>
              LET learned == LearnedInterval(from.history, from.now) IN
              learned # Unknown => ResolveCadence(CadenceHint(from), role).interval = Capped(learned)
<1> DEFINE hint == CadenceHint(from)
           learned == LearnedInterval(from.history, from.now)
<1>1. learned \in Nat \cup {Unknown}
  BY LearnedType
<1> HIDE DEF learned
<1>2. /\ hint.override = from.override
      /\ hint.learned = IF from.override = Unknown THEN learned ELSE Unknown
      /\ hint.configured = IF from.record.managed /\ from.configured # Unknown
                           THEN TemplateInterval(from.configured, from.record.role) ELSE Unknown
  BY DEF CadenceHint, learned
<1>3. \A r : RoleInterval(r) \in Nat
  BY StatusAssumption DEF RoleInterval
<1>4. hint.configured \in Nat \cup {Unknown}
  <2>1. CASE from.record.managed /\ from.configured # Unknown
    <3>1. from.configured \in Nat /\ MinInterval \in Nat
      BY <2>1, StatusAssumption DEF SightIs
    <3>2. Max({from.configured, MinInterval}) \in Nat
      BY <3>1, PairIs
    <3> QED
      BY <1>2, <1>3, <2>1, <3>2, CappedIs DEF TemplateInterval
  <2> QED
    BY <1>2, <2>1
<1>5. hint.override \in Nat \cup {Unknown} /\ hint.learned \in Nat \cup {Unknown}
  BY <1>1, <1>2 DEF SightIs
<1> HIDE DEF hint
<1>6. ResolveCadence(hint, role).interval \in Nat
  BY <1>3, <1>4, <1>5, CappedIs DEF ResolveCadence
<1>7. from.override = Unknown /\ learned # Unknown => ResolveCadence(hint, role).interval = Capped(learned)
  BY <1>2 DEF ResolveCadence
<1> QED
  BY <1>6, <1>7 DEF hint, learned

(* When a node is online and when it is offline.                           *)
LEMMA ClassIs ==
  ASSUME NEW age \in Int, NEW interval \in Nat
  PROVE  LET thresholds == AvailabilityThresholds(interval)
             class == ClassifyAge(age, thresholds) IN
         /\ thresholds.stale \in Nat /\ thresholds.offline \in Nat /\ thresholds.stale <= thresholds.offline
         /\ class = IF age * HourUnits <= thresholds.stale THEN "online"
                    ELSE IF age * HourUnits > thresholds.offline THEN "offline" ELSE "stale"
         /\ age <= 0 \/ age * HourUnits <= 2 * interval => class = "online"
         /\ age * HourUnits > OfflineFloor /\ age * HourUnits > 6 * interval => class = "offline"
<1> DEFINE quarter == interval \div 4
           thresholds == AvailabilityThresholds(interval)
           units == age * HourUnits
<1>1. quarter \in Nat /\ quarter <= interval
  OBVIOUS
<1> HIDE DEF quarter
<1>2. StaleFloor \in Nat /\ OfflineFloor \in Nat /\ StaleFloor < OfflineFloor /\ HourUnits \in Nat
  BY StatusAssumption
<1>3. /\ thresholds.stale = Max({StaleFloor, 2 * interval + quarter})
      /\ thresholds.offline = Max({OfflineFloor, 5 * interval + quarter})
  BY DEF AvailabilityThresholds, quarter
<1> HIDE DEF thresholds
<1>4. /\ thresholds.stale = IF StaleFloor >= 2 * interval + quarter THEN StaleFloor ELSE 2 * interval + quarter
      /\ thresholds.offline =
           IF OfflineFloor >= 5 * interval + quarter THEN OfflineFloor ELSE 5 * interval + quarter
  BY <1>1, <1>2, <1>3, PairIs
<1>5. thresholds.stale \in Nat /\ thresholds.offline \in Nat /\ thresholds.stale <= thresholds.offline
  BY <1>1, <1>2, <1>4
<1>6. units \in Int /\ (age <= 0 => units <= 0) /\ age # Unknown
  BY <1>2, StatusAssumption
<1> HIDE DEF units
<1>7. ClassifyAge(age, thresholds) = IF units <= thresholds.stale THEN "online"
                                     ELSE IF units > thresholds.offline THEN "offline" ELSE "stale"
  <2>1. ClassifyAge(age, thresholds)
          = CASE age = Unknown -> "unknown"
              [] age # Unknown /\ units <= thresholds.stale -> "online"
              [] age # Unknown /\ units > thresholds.offline -> "offline"
              [] OTHER -> "stale"
    BY DEF ClassifyAge, units
  <2>2. ~(units <= thresholds.stale /\ units > thresholds.offline)
    BY <1>5, <1>6
  <2> QED
    BY <1>6, <2>1, <2>2
<1>8. age <= 0 \/ units <= 2 * interval => units <= thresholds.stale
  BY <1>1, <1>2, <1>4, <1>6
<1>9. units > OfflineFloor /\ units > 6 * interval
        => ~(units <= thresholds.stale) /\ units > thresholds.offline
  BY <1>1, <1>2, <1>4, <1>6
<1> QED
  BY <1>5, <1>7, <1>8, <1>9 DEF units, thresholds

(* What is shown of a node, by its last sign of life.                      *)
LEMMA ShownIs ==
  ASSUME NEW from, SightIs(from), NEW obs
  PROVE  LET node == MergeObservations(obs, from.record, from.now, CadenceHint(from))
             seen == PickLastSeen(obs) IN
         /\ node.lastSeen = seen /\ node.inDatabase = from.record.kept
         /\ node.battery = FirstKnown(obs, "battery", ByPriority)
         /\ node.seenBy = SeenByCounts(obs, from.now)
         /\ node.cadence.interval \in Nat
         /\ node.thresholds = AvailabilityThresholds(node.cadence.interval)
         /\ node.cadence = ResolveCadence(CadenceHint(from), Or(node.role, from.record.role))
         /\ node.availability = IF seen = Unknown THEN "unknown"
              ELSE ClassifyAge(from.now - seen, AvailabilityThresholds(node.cadence.interval))
<1> DEFINE node == MergeObservations(obs, from.record, from.now, CadenceHint(from))
           seen == PickLastSeen(obs)
<1>1. /\ node.lastSeen = seen /\ node.inDatabase = from.record.kept
      /\ node.battery = FirstKnown(obs, "battery", ByPriority)
      /\ node.seenBy = SeenByCounts(obs, from.now)
      /\ node.cadence = ResolveCadence(CadenceHint(from), Or(node.role, from.record.role))
      /\ node.thresholds = AvailabilityThresholds(node.cadence.interval)
      /\ node.availability = ClassifyAge(IF seen = Unknown THEN Unknown ELSE from.now - seen,
                                         AvailabilityThresholds(node.cadence.interval))
  BY DEF MergeObservations
<1> HIDE DEF node, seen
<1>2. node.cadence.interval \in Nat
  BY <1>1, IntervalIs
<1>3. ASSUME NEW thresholds  PROVE ClassifyAge(Unknown, thresholds) = "unknown"
  BY DEF ClassifyAge
<1> QED
  BY <1>1, <1>2, <1>3 DEF node, seen

(* Of a node heard at one interval, or silent for many, it is so.          *)
LEMMA GapsJudge ==
  ASSUME SightIs(sight), shown = BuildReport(sight)
  PROVE  JudgedByItsGaps
<1> DEFINE hours == HeardHours
           node == shown.node
           gaps == GapsOf(hours)
           age == sight.now - Max(hours)
<1>1. node = MergeObservations(sight.obs, sight.record, sight.now, CadenceHint(sight))
  BY DEF BuildReport
<1> SUFFICES ASSUME sight.override = Unknown, Cardinality(hours) >= MinHeard,
                    \A t \in hours : sight.now - LearnWindow <= t, node.lastSeen = Max(hours)
             PROVE  /\ /\ Cardinality(gaps) = 1 /\ age <= 2 * Max(gaps)
                       /\ \A t \in Min(hours)..Max(hours) : \E h \in sight.history : h.hour = t
                       /\ Max(gaps) * HourUnits <= MaxInterval
                       => node.availability = "online"
                    /\ age > 6 * Max(gaps) /\ age * HourUnits > OfflineFloor
                       => node.availability = "offline"
  BY DEF JudgedByItsGaps
<1> DEFINE interval == node.cadence.interval
<1> HIDE DEF node
<1>2. hours = HoursHeard(sight.history)
  BY DEF HeardHours, HoursHeard
<1>3. hours \in SUBSET Int /\ IsFiniteSet(hours) /\ Cardinality(hours) \in Nat
  BY <1>2, HoursHeardAre, FS_CardinalityType
<1> HIDE DEF hours
<1>4. Cardinality(hours) >= 2 /\ hours # {}
  <2>1. MinHeard \in Nat /\ MinHeard >= 2
    BY StatusAssumption
  <2>2. Cardinality(hours) >= 2
    BY <1>3, <2>1
  <2> QED
    BY <2>2, FS_EmptySet
<1>5. /\ Max(hours) \in hours /\ \A y \in hours : y <= Max(hours)
      /\ Min(hours) \in hours /\ \A y \in hours : Min(hours) <= y
  BY <1>3, <1>4, Extremes
<1>6. hours \ {Min(hours)} # {}
  <2>1. Cardinality(hours \ {Min(hours)}) = Cardinality(hours) - 1
    BY <1>3, <1>5, FS_RemoveElement
  <2> QED
    BY <1>3, <1>4, <2>1, FS_EmptySet
<1> DEFINE f == [t \in hours \ {Min(hours)} |-> t - Previous(hours, t)]
<1>7. \A t \in hours \ {Min(hours)} : f[t] \in Nat /\ f[t] > 0 /\ f[t] = t - Previous(hours, t)
  <2> SUFFICES ASSUME NEW t \in hours \ {Min(hours)}  PROVE f[t] \in Nat /\ f[t] > 0
    OBVIOUS
  <2>1. Previous(hours, t) \in hours /\ Previous(hours, t) < t
    BY <1>3, PreviousIs
  <2>2. t \in Int /\ Previous(hours, t) \in Int
    BY <1>3, <2>1
  <2> QED
    BY <2>1, <2>2
<1>8. gaps \in SUBSET Nat /\ IsFiniteSet(gaps) /\ gaps # {}
      /\ \A t \in hours \ {Min(hours)} : f[t] \in gaps
  <2>1. gaps = {f[t] : t \in hours \ {Min(hours)}}
    BY DEF GapsOf
  <2>2. IsFiniteSet(hours \ {Min(hours)})
    BY <1>3, FS_RemoveElement
  <2>3. f \in Surjection(hours \ {Min(hours)}, gaps)
    BY <2>1 DEF Surjection
  <2> HIDE DEF f, gaps
  <2>4. IsFiniteSet(gaps)
    BY <2>2, <2>3, FS_Surjection
  <2> QED
    BY <1>6, <1>7, <2>1, <2>4
<1> HIDE DEF f, gaps
<1>9. Max(gaps) \in gaps /\ Max(gaps) \in Nat /\ \A y \in gaps : y <= Max(gaps)
  <2>1. gaps \in SUBSET Int
    BY <1>8
  <2>2. Max(gaps) \in gaps /\ \A y \in gaps : y <= Max(gaps)
    BY <1>8, <2>1, Extremes
  <2> QED
    BY <1>8, <2>2
<1>10. sight.now \in Int /\ HourUnits \in Nat /\ HourUnits > 0 /\ Max(hours) \in Int /\ age \in Int
  <2>1. sight.now \in Int
    BY DEF SightIs
  <2>2. HourUnits \in Nat /\ HourUnits > 0
    BY StatusAssumption
  <2>3. Max(hours) \in Int
    BY <1>3, <1>5
  <2> QED
    BY <2>1, <2>2, <2>3
<1>11. interval \in Nat /\ node.availability = ClassifyAge(age, AvailabilityThresholds(interval))
  <2>1. Max(hours) # Unknown
    BY <1>10, StatusAssumption
  <2> QED
    BY <1>1, <2>1, ShownIs
<1>12. ASSUME Max(hours) <= sight.now
       PROVE  interval = LearnedInterval(sight.history, sight.now)
  <2>1. /\ LearnedInterval(sight.history, sight.now) \in Nat
        /\ LearnedInterval(sight.history, sight.now) <= MaxInterval
    BY <1>2, <1>12, LearnedIs
  <2>2. LearnedInterval(sight.history, sight.now) # Unknown
    BY <2>1, StatusAssumption
  <2>3. interval = Capped(LearnedInterval(sight.history, sight.now))
    BY <1>1, <2>2, ShownIs, IntervalIs
  <2> QED
    BY <2>1, <2>3, CappedIs
<1>13. /\ age <= 0 \/ age * HourUnits <= 2 * interval => node.availability = "online"
       /\ age * HourUnits > OfflineFloor /\ age * HourUnits > 6 * interval => node.availability = "offline"
  BY <1>10, <1>11, ClassIs
<1> HIDE DEF interval
<1>14. ASSUME Cardinality(gaps) = 1, age <= 2 * Max(gaps), Max(gaps) * HourUnits <= MaxInterval,
              \A t \in Min(hours)..Max(hours) : \E h \in sight.history : h.hour = t
       PROVE  node.availability = "online"
  <2>1. CASE age <= 0
    BY <1>13, <2>1
  <2>2. CASE age > 0
    <3>1. Max(hours) <= sight.now
      BY <1>10, <2>2
    <3>2. gaps = {Max(gaps)}
      BY <1>8, <1>9, <1>14, FS_Singleton
    <3>3. \A t \in hours \ {Min(hours)} : t - Previous(hours, t) >= Max(gaps)
      BY <1>7, <1>8, <1>9, <3>2
    <3>4. interval >= Max(gaps) * HourUnits
      BY <1>2, <1>9, <1>12, <1>14, <3>1, <3>3, LearnedIs
    <3>5. age * HourUnits <= 2 * (Max(gaps) * HourUnits)
      <4>1. \A a \in Int, b \in Int : a <= 2 * b => a * HourUnits <= 2 * (b * HourUnits)
        BY <1>10
      <4> QED
        BY <1>9, <1>10, <1>14, <4>1
    <3>6. Max(gaps) * HourUnits \in Nat /\ age * HourUnits \in Int
      BY <1>9, <1>10
    <3> QED
      BY <1>11, <1>13, <3>4, <3>5, <3>6 DEF interval
  <2> QED
    BY <1>10, <2>1, <2>2
<1>15. ASSUME age > 6 * Max(gaps), age * HourUnits > OfflineFloor
       PROVE  node.availability = "offline"
  <2>1. Max(hours) <= sight.now
    BY <1>9, <1>10, <1>15
  <2>2. \A t \in hours \ {Min(hours)} : t - Previous(hours, t) <= Max(gaps)
    BY <1>7, <1>8, <1>9
  <2>3. interval <= Max(gaps) * HourUnits
    BY <1>2, <1>9, <1>12, <2>1, <2>2, LearnedIs
  <2>4. age * HourUnits > 6 * (Max(gaps) * HourUnits)
    <3>1. \A a \in Int, b \in Int : a > 6 * b => a * HourUnits > 6 * (b * HourUnits)
      BY <1>10
    <3> QED
      BY <1>9, <1>10, <1>15, <3>1
  <2>5. Max(gaps) * HourUnits \in Nat /\ age * HourUnits \in Int
    BY <1>9, <1>10
  <2> QED
    BY <1>11, <1>13, <1>15, <2>3, <2>4, <2>5 DEF interval
<1> QED
  BY <1>14, <1>15

-----------------------------------------------------------------------------
(* Of some sources one comes before the rest.                              *)
LEMMA FirstSource ==
  ASSUME NEW S \in SUBSET Sources, S # {}
  PROVE  \E x \in S : \A y \in S \ {x} : Rank(x) < Rank(y)
<1>1. \A x \in Sources : Rank(x) \in 1..Len(Priority) /\ Priority[Rank(x)] = x
  BY DEF Sources, Rank
<1> DEFINE ranks == {Rank(x) : x \in S}
<1>2. ranks \in SUBSET (1..Len(Priority)) /\ ranks # {}
  BY <1>1
<1>3. Len(Priority) \in Int
  BY StatusAssumption
<1>4. ranks \in SUBSET Int /\ IsFiniteSet(ranks)
  <2>1. IsFiniteSet(1..Len(Priority))
    BY <1>3, FS_Interval
  <2>2. 1..Len(Priority) \subseteq Int
    BY <1>3
  <2> HIDE DEF ranks
  <2> QED
    BY <1>2, <2>1, <2>2, FS_Subset
<1>5. Min(ranks) \in ranks /\ \A r \in ranks : Min(ranks) <= r
  <2> HIDE DEF ranks
  <2> QED
    BY <1>2, <1>4, Extremes
<1>6. PICK x \in S : Rank(x) = Min(ranks)
  BY <1>5
<1>7. ASSUME NEW y \in S \ {x}  PROVE Rank(x) < Rank(y)
  <2>1. Rank(y) \in ranks /\ Rank(x) \in ranks
    OBVIOUS
  <2>2. Rank(x) <= Rank(y) /\ Rank(x) # Rank(y)
    BY <1>1, <1>5, <1>6, <2>1
  <2>3. Rank(x) \in Int /\ Rank(y) \in Int
    BY <1>1, <1>3
  <2> QED
    BY <2>2, <2>3
<1> QED
  BY <1>7

(* A source that knows something is enough.                                *)
LEMMA ByPriorityIs ==
  ASSUME NEW obs, DOMAIN obs \subseteq Sources, NEW field,
         NEW x \in DOMAIN obs, obs[x][field] # Unknown
  PROVE  FirstKnown(obs, field, ByPriority) # Unknown
<1> DEFINE known == {y \in DOMAIN obs : obs[y][field] # Unknown}
           first == CHOOSE y \in known : \A z \in known \ {y} : ByPriority(obs, y, z)
<1>1. known \in SUBSET Sources /\ known # {}
  OBVIOUS
<1>2. \E y \in known : \A z \in known \ {y} : ByPriority(obs, y, z)
  BY <1>1, FirstSource DEF ByPriority
<1>3. first \in known
  BY <1>2
<1>4. FirstKnown(obs, field, ByPriority) = obs[first][field]
  BY <1>1 DEF FirstKnown
<1> HIDE DEF first
<1> QED
  BY <1>3, <1>4

(* A value shown is a source's.                                            *)
LEMMA ByPriorityKnows ==
  ASSUME NEW obs, DOMAIN obs \subseteq Sources, NEW field, FirstKnown(obs, field, ByPriority) # Unknown
  PROVE  \E x \in DOMAIN obs : obs[x][field] # Unknown /\ FirstKnown(obs, field, ByPriority) = obs[x][field]
<1> DEFINE known == {y \in DOMAIN obs : obs[y][field] # Unknown}
           first == CHOOSE y \in known : \A z \in known \ {y} : ByPriority(obs, y, z)
<1>1. known # {} /\ FirstKnown(obs, field, ByPriority) = obs[first][field]
  BY DEF FirstKnown
<1>2. \E y \in known : \A z \in known \ {y} : ByPriority(obs, y, z)
  BY <1>1, FirstSource DEF ByPriority
<1>3. first \in known
  BY <1>2
<1> HIDE DEF first
<1> QED
  BY <1>1, <1>3

(* The last sign of life is the last any source reports.                   *)
LEMMA LastSeenIs ==
  ASSUME NEW obs, DOMAIN obs \subseteq Sources, \A x \in DOMAIN obs : obs[x].seen \in Int \cup {Unknown}
  PROVE  /\ PickLastSeen(obs) \in Int \cup {Unknown}
         /\ \A x \in DOMAIN obs : obs[x].seen # Unknown =>
              PickLastSeen(obs) \in Int /\ obs[x].seen <= PickLastSeen(obs)
<1> DEFINE known == {y \in DOMAIN obs : obs[y].seen # Unknown}
           first == CHOOSE y \in known : \A z \in known \ {y} : ByRecency(obs, y, z)
           times == {obs[y].seen : y \in known}
           latest == {y \in known : obs[y].seen = Max(times)}
<1>1. CASE known = {}
  BY <1>1 DEF PickLastSeen, FirstKnown
<1>2. CASE known # {}
  <2>1. IsFiniteSet(known)
    <3>1. IsFiniteSet(1..Len(Priority))
      BY FS_Interval, StatusAssumption
    <3>2. IsFiniteSet(Sources)
      <4> DEFINE f == [n \in 1..Len(Priority) |-> Priority[n]]
      <4>1. f \in Surjection(1..Len(Priority), Sources)
        BY DEF Surjection, Sources
      <4> HIDE DEF f
      <4> QED
        BY <3>1, <4>1, FS_Surjection
    <3> QED
      BY <3>2, FS_Subset
  <2>2. IsFiniteSet(times) /\ times \in SUBSET Int /\ times # {}
    <3> DEFINE f == [y \in known |-> obs[y].seen]
    <3>1. f \in Surjection(known, times)
      BY DEF Surjection
    <3>2. times \in SUBSET Int /\ times # {}
      BY <1>2
    <3> HIDE DEF f, known, times
    <3> QED
      BY <2>1, <3>1, <3>2, FS_Surjection
  <2>3. Max(times) \in times /\ \A t \in times : t <= Max(times)
    <3> HIDE DEF times
    <3> QED
      BY <2>2, Extremes
  <2>4. Max(times) \in Int /\ \A y \in known : obs[y].seen <= Max(times) /\ obs[y].seen \in Int
    BY <2>2, <2>3
  <2>5. latest \in SUBSET Sources /\ latest # {} /\ latest \subseteq known
    BY <2>3
  <2> DEFINE greatest == Max(times)
  <2>6. \A y \in known : (y \in latest <=> obs[y].seen = greatest) /\ obs[y].seen <= greatest
    BY <2>4
  <2>7. PICK x \in latest : \A y \in latest \ {x} : Rank(x) < Rank(y)
    BY <2>5, FirstSource
  <2> HIDE DEF latest, greatest
  <2>8. greatest \in Int
    BY <2>4 DEF greatest
  <2>9. \A y \in known \ {x} : ByRecency(obs, x, y)
    <3> SUFFICES ASSUME NEW y \in known \ {x}  PROVE ByRecency(obs, x, y)
      OBVIOUS
    <3>1. x \in known /\ obs[x].seen = greatest /\ obs[y].seen \in Int /\ obs[y].seen <= greatest
          /\ obs[y].seen # Unknown /\ obs[x].seen # Unknown
      BY <2>4, <2>5, <2>6
    <3>2. CASE y \in latest
      <4>1. obs[y].seen = greatest
        BY <2>6, <3>2
      <4> QED
        BY <2>7, <2>8, <3>1, <3>2, <4>1 DEF ByRecency, SeenAfter
    <3>3. CASE y \notin latest
      <4>1. obs[y].seen < greatest
        BY <2>6, <2>8, <3>1, <3>3
      <4> QED
        BY <2>8, <3>1, <4>1 DEF ByRecency, SeenAfter
    <3> QED
      BY <3>2, <3>3
  <2>10. first \in known /\ \A z \in known \ {first} : ByRecency(obs, first, z)
    <3>1. \E y \in known : \A z \in known \ {y} : ByRecency(obs, y, z)
      BY <2>5, <2>9
    <3> QED
      BY <3>1
  <2>11. PickLastSeen(obs) = obs[first].seen
    BY <1>2 DEF PickLastSeen, FirstKnown
  <2> HIDE DEF first
  <2>12. \A z \in known : obs[z].seen <= obs[first].seen
    <3> SUFFICES ASSUME NEW z \in known \ {first}  PROVE obs[z].seen <= obs[first].seen
      BY <2>4, <2>10
    <3>1. ByRecency(obs, first, z) /\ obs[z].seen \in Int /\ obs[first].seen \in Int
          /\ obs[z].seen # Unknown /\ obs[first].seen # Unknown
      BY <2>4, <2>10
    <3> QED
      BY <3>1 DEF ByRecency, SeenAfter
  <2>13. obs[first].seen \in Int
    BY <2>4, <2>10
  <2> QED
    BY <2>11, <2>12, <2>13
<1> QED
  BY <1>1, <1>2

(* Another source makes a node no less alive, and hides no value.          *)
LEMMA SourcesAdd ==
  ASSUME SightIs(sight), shown = BuildReport(sight)
  PROVE  SourcesOnlyAdd
<1> DEFINE node == shown.node
<1>1. node = MergeObservations(sight.obs, sight.record, sight.now, CadenceHint(sight))
  BY DEF BuildReport
<1>2. /\ DOMAIN sight.obs \subseteq Sources /\ sight.now \in Int
      /\ \A x \in DOMAIN sight.obs :
           /\ sight.obs[x].seen \in Int \cup {Unknown}
           /\ sight.obs[x].heardBy # Unknown =>
                IsFiniteSet(sight.obs[x].heardBy) /\ \A g \in sight.obs[x].heardBy : g[2] \in Int
  BY DEF SightIs
<1> SUFFICES ASSUME NEW x \in DOMAIN sight.obs
             PROVE  LET alone == MergeObservations([y \in {x} |-> sight.obs[y]], sight.record, sight.now,
                                                   CadenceHint(sight))
                    IN /\ alone.cadence = node.cadence
                            => Better[node.availability] >= Better[alone.availability]
                       /\ alone.battery # Unknown => node.battery # Unknown
                       /\ \A n \in 2..Len(LookBacks) :
                            node.seenBy # Unknown => node.seenBy[n - 1] <= node.seenBy[n]
  BY DEF SourcesOnlyAdd
<1> DEFINE obs == [y \in {x} |-> sight.obs[y]]
           alone == MergeObservations(obs, sight.record, sight.now, CadenceHint(sight))
<1>3. DOMAIN obs = {x} /\ obs[x] = sight.obs[x]
  OBVIOUS
<1> HIDE DEF node, obs
<1>4. alone.battery # Unknown => node.battery # Unknown
  <2>1. alone.battery = FirstKnown(obs, "battery", ByPriority)
        /\ node.battery = FirstKnown(sight.obs, "battery", ByPriority)
    BY <1>1, ShownIs
  <2>2. alone.battery # Unknown => sight.obs[x]["battery"] # Unknown
    BY <1>2, <1>3, <2>1, ByPriorityKnows
  <2> QED
    BY <1>2, <2>1, <2>2, ByPriorityIs
<1>5. ASSUME NEW n \in 2..Len(LookBacks), node.seenBy # Unknown
      PROVE  node.seenBy[n - 1] <= node.seenBy[n]
  <2> DEFINE seen == FirstKnown(sight.obs, "heardBy", ByPriority)
             Within(m) == {g \in seen : sight.now - g[2] <= LookBacks[m]}
  <2>1. node.seenBy = IF seen = Unknown THEN Unknown
                      ELSE [m \in 1..Len(LookBacks) |-> Cardinality(Within(m))]
    <3>1. node.seenBy = SeenByCounts(sight.obs, sight.now)
      BY <1>1, ShownIs
    <3> QED
      BY <3>1 DEF SeenByCounts
  <2>2. IsFiniteSet(seen) /\ \A g \in seen : g[2] \in Int
    <3>1. PICK y \in DOMAIN sight.obs : sight.obs[y]["heardBy"] # Unknown /\ seen = sight.obs[y]["heardBy"]
      BY <1>2, <1>5, <2>1, ByPriorityKnows
    <3> QED
      BY <1>2, <3>1
  <2> HIDE DEF seen
  <2>3. LookBacks \in Seq(Nat) /\ LookBacks[n - 1] <= LookBacks[n] /\ Len(LookBacks) \in Nat
    BY StatusAssumption
  <2>4. LookBacks[n - 1] \in Nat /\ LookBacks[n] \in Nat /\ n \in 1..Len(LookBacks) /\ n - 1 \in 1..Len(LookBacks)
    BY <2>3
  <2>5. Within(n - 1) \in SUBSET Within(n)
    BY <1>2, <2>2, <2>3, <2>4
  <2>6. IsFiniteSet(Within(n))
    BY <2>2, FS_Subset
  <2>7. Cardinality(Within(n - 1)) <= Cardinality(Within(n))
    <3> HIDE DEF Within
    <3> QED
      BY <2>5, <2>6, FS_Subset
  <2> HIDE DEF Within
  <2> QED
    BY <1>5, <2>1, <2>4, <2>7
<1>6. ASSUME alone.cadence = node.cadence
      PROVE  Better[node.availability] >= Better[alone.availability]
  <2> DEFINE seen == PickLastSeen(sight.obs)
             own == PickLastSeen(obs)
             interval == node.cadence.interval
             Class(t) == ClassifyAge(sight.now - t, AvailabilityThresholds(interval))
  <2>1. /\ node.availability = IF seen = Unknown THEN "unknown" ELSE Class(seen)
        /\ alone.availability = IF own = Unknown THEN "unknown" ELSE Class(own)
        /\ interval \in Nat
    BY <1>1, <1>6, ShownIs
  <2>2. /\ seen \in Int \cup {Unknown} /\ own \in Int \cup {Unknown}
        /\ sight.obs[x].seen # Unknown => seen \in Int /\ sight.obs[x].seen <= seen
    <3>1. /\ DOMAIN obs \subseteq Sources
          /\ \A y \in DOMAIN obs : obs[y].seen \in Int \cup {Unknown}
      BY <1>2, <1>3
    <3> QED
      BY <1>2, <3>1, LastSeenIs
  <2>3. own = Unknown \/ own = sight.obs[x].seen
    <3> DEFINE known == {y \in DOMAIN obs : obs[y]["seen"] # Unknown}
    <3>1. known = {} \/ known = {x}
      BY <1>3
    <3>2. (CHOOSE y \in {x} : \A z \in {x} \ {y} : ByRecency(obs, y, z)) = x
      OBVIOUS
    <3>3. own = IF known = {} THEN Unknown
                ELSE obs[CHOOSE y \in known : \A z \in known \ {y} : ByRecency(obs, y, z)]["seen"]
      BY DEF PickLastSeen, FirstKnown
    <3> HIDE DEF known
    <3> QED
      BY <1>3, <3>1, <3>2, <3>3
  <2> HIDE DEF seen, own, interval
  <2>4. \A t \in Int : LET age == sight.now - t  th == AvailabilityThresholds(interval) IN
          /\ th.stale \in Nat /\ th.offline \in Nat /\ th.stale <= th.offline
          /\ Class(t) = IF age * HourUnits <= th.stale THEN "online"
                        ELSE IF age * HourUnits > th.offline THEN "offline" ELSE "stale"
    BY <1>2, <2>1, ClassIs
  <2> HIDE DEF Class
  <2>5. \A t, u \in Int : t <= u => (sight.now - u) * HourUnits <= (sight.now - t) * HourUnits
                                      /\ (sight.now - u) * HourUnits \in Int /\ (sight.now - t) * HourUnits \in Int
    <3>1. HourUnits \in Nat
      BY StatusAssumption
    <3>2. \A a, b \in Int : a <= b => a * HourUnits <= b * HourUnits
      BY <3>1
    <3> QED
      BY <1>2, <3>1, <3>2
  <2>6. /\ Better["online"] = 3 /\ Better["stale"] = 2 /\ Better["offline"] = 1 /\ Better["unknown"] = 0
    BY DEF Better
  <2>7. CASE own = Unknown
    <3>1. alone.availability = "unknown"
      BY <2>1, <2>7
    <3>2. node.availability \in {"online", "stale", "offline", "unknown"}
      BY <2>1, <2>2, <2>4
    <3> QED
      BY <2>6, <3>1, <3>2
  <2>8. CASE own # Unknown
    <3>1. own \in Int /\ seen \in Int /\ own <= seen /\ own # Unknown /\ seen # Unknown
      BY <2>2, <2>3, <2>8, StatusAssumption
    <3>2. node.availability = Class(seen) /\ alone.availability = Class(own)
      BY <2>1, <3>1
    <3> QED
      BY <2>4, <2>5, <2>6, <3>1, <3>2
  <2> QED
    BY <2>7, <2>8
<1> QED
  BY <1>4, <1>5, <1>6 DEF obs

-----------------------------------------------------------------------------
(* Readings in the order of their values, those of one value in time.      *)
Lower(times, of, t) == {u \in times : of[u] < of[t] \/ (of[u] = of[t] /\ u < t)}

(* Of as many readings as there are, one has any number of them before it. *)
LEMMA SomeHasBelow ==
  ASSUME NEW times \in SUBSET Int, IsFiniteSet(times), NEW of, \A t \in times : of[t] \in Int,
         NEW m \in 0..(Cardinality(times) - 1)
  PROVE  \E t \in times : Cardinality(Lower(times, of, t)) = m
<1> DEFINE n == Cardinality(times)
           f == [t \in times |-> Cardinality(Lower(times, of, t))]
<1>1. n \in Nat
  BY FS_CardinalityType
<1>2. ASSUME NEW t \in times
      PROVE  /\ IsFiniteSet(Lower(times, of, t)) /\ Cardinality(Lower(times, of, t)) \in Nat
             /\ Lower(times, of, t) \in SUBSET (times \ {t})
             /\ Cardinality(Lower(times, of, t)) \in 0..(n - 1)
  <2>1. Lower(times, of, t) \in SUBSET (times \ {t})
    BY DEF Lower
  <2>2. IsFiniteSet(times \ {t}) /\ Cardinality(times \ {t}) = n - 1
    BY FS_RemoveElement
  <2>3. IsFiniteSet(Lower(times, of, t)) /\ Cardinality(Lower(times, of, t)) <= n - 1
    BY <2>1, <2>2, FS_Subset
  <2>4. Cardinality(Lower(times, of, t)) \in Nat
    BY <2>3, FS_CardinalityType
  <2> QED
    BY <1>1, <2>1, <2>3, <2>4
<1>3. ASSUME NEW t \in times, NEW u \in times, of[t] < of[u] \/ (of[t] = of[u] /\ t < u)
      PROVE  Cardinality(Lower(times, of, t)) < Cardinality(Lower(times, of, u))
  <2>1. Lower(times, of, t) \cup {t} \in SUBSET Lower(times, of, u)
    <3> SUFFICES ASSUME NEW w \in times, w \in Lower(times, of, t) \cup {t}
                 PROVE  of[w] < of[u] \/ (of[w] = of[u] /\ w < u)
      BY DEF Lower
    <3>1. w = t \/ of[w] < of[t] \/ (of[w] = of[t] /\ w < t)
      BY DEF Lower
    <3>2. of[w] \in Int /\ of[t] \in Int /\ of[u] \in Int /\ w \in Int /\ t \in Int /\ u \in Int
      OBVIOUS
    <3> QED
      BY <1>3, <3>1, <3>2
  <2>2. t \notin Lower(times, of, t)
    BY <1>2
  <2>3. /\ IsFiniteSet(Lower(times, of, t) \cup {t})
        /\ Cardinality(Lower(times, of, t) \cup {t}) = Cardinality(Lower(times, of, t)) + 1
    BY <1>2, <2>2, FS_AddElement
  <2>4. Cardinality(Lower(times, of, t) \cup {t}) <= Cardinality(Lower(times, of, u))
    BY <1>2, <2>1, FS_Subset
  <2>5. Cardinality(Lower(times, of, t)) \in Nat /\ Cardinality(Lower(times, of, u)) \in Nat
    BY <1>2
  <2> QED
    BY <2>3, <2>4, <2>5
<1>4. \A t, u \in times : f[t] = f[u] => t = u
  <2> SUFFICES ASSUME NEW t \in times, NEW u \in times, t # u  PROVE f[t] # f[u]
    OBVIOUS
  <2>1. f[t] \in Nat /\ f[u] \in Nat
    BY <1>2
  <2>2. \/ of[t] < of[u] \/ (of[t] = of[u] /\ t < u)
        \/ of[u] < of[t] \/ (of[u] = of[t] /\ u < t)
    OBVIOUS
  <2>3. f[t] < f[u] \/ f[u] < f[t]
    BY <1>3, <2>2
  <2> QED
    BY <2>1, <2>3
<1>5. f \in [times -> 0..(n - 1)]
  BY <1>2
<1>6. f \in Injection(times, 0..(n - 1))
  <2> HIDE DEF f
  <2> QED
    BY <1>4, <1>5 DEF Injection, IsInjective
<1>7. IsFiniteSet(0..(n - 1)) /\ Cardinality(0..(n - 1)) = n
  <2>1. n - 1 \in Int /\ (IF 0 > n - 1 THEN 0 ELSE n - 1 - 0 + 1) = n
    BY <1>1
  <2>2. /\ IsFiniteSet(0..(n - 1))
        /\ Cardinality(0..(n - 1)) = IF 0 > n - 1 THEN 0 ELSE n - 1 - 0 + 1
    BY <2>1, FS_Interval
  <2> QED
    BY <2>1, <2>2
<1>8. f \in Surjection(times, 0..(n - 1))
  <2> HIDE DEF f
  <2> QED
    BY <1>6, <1>7, FS_Injection
<1>9. \E t \in times : f[t] = m
  <2> HIDE DEF f
  <2> QED
    BY <1>8 DEF Surjection
<1> QED
  BY <1>9

(* The median lies between two readings, half of them at most below the    *)
(* one and half of them at most above the other.                           *)
LEMMA MedianIs ==
  ASSUME NEW times \in SUBSET Int, IsFiniteSet(times), times # {},
         NEW of, \A t \in times : of[t] \in Int
  PROVE  \E t, u \in times :
           /\ Median2(times, of) = of[t] + of[u] /\ of[t] <= of[u]
           /\ 2 * Cardinality({w \in times : of[w] <= of[t]}) >= Cardinality(times)
           /\ 2 * Cardinality({w \in times : of[w] >= of[u]}) >= Cardinality(times)
<1> DEFINE n == Cardinality(times)
           Below(t) == Cardinality(Lower(times, of, t))
           At(m) == CHOOSE t \in times : Below(t) = m
           lo == (n - 1) \div 2
           hi == n \div 2
<1>1. n \in Nat /\ n > 0
  BY FS_CardinalityType, FS_EmptySet
<1>2. Median2(times, of) = of[At(lo)] + of[At(hi)]
  BY DEF Median2, Lower
<1> HIDE DEF n
<1>3. /\ lo \in 0..(n - 1) /\ hi \in 0..(n - 1) /\ lo <= hi
      /\ 2 * (lo + 1) >= n /\ 2 * (n - hi) >= n
  BY <1>1
<1> DEFINE t == At(lo)  u == At(hi)
<1>4. t \in times /\ Below(t) = lo /\ u \in times /\ Below(u) = hi
  <2>1. (\E w \in times : Below(w) = lo) /\ \E w \in times : Below(w) = hi
    <3> HIDE DEF lo, hi
    <3> QED
      BY <1>3, SomeHasBelow DEF n
  <2> HIDE DEF lo, hi, Below
  <2> QED
    BY <2>1
<1> HIDE DEF t, u, lo, hi
<1>5. of[t] \in Int /\ of[u] \in Int /\ \A w \in times : IsFiniteSet(Lower(times, of, w))
  <2>1. \A w \in times : Lower(times, of, w) \in SUBSET times
    BY DEF Lower
  <2> QED
    BY <1>4, <2>1, FS_Subset
<1>6. of[t] <= of[u]
  <2> SUFFICES ASSUME of[u] < of[t]  PROVE FALSE
    BY <1>5
  <2>1. Lower(times, of, u) \cup {u} \in SUBSET Lower(times, of, t)
    <3> SUFFICES ASSUME NEW w \in times, w \in Lower(times, of, u) \cup {u}  PROVE of[w] < of[t]
      BY <1>4 DEF Lower
    <3>1. w = u \/ of[w] < of[u] \/ of[w] = of[u]
      BY DEF Lower
    <3> QED
      BY <1>5, <3>1
  <2>2. u \notin Lower(times, of, u)
    BY <1>4, <1>5 DEF Lower
  <2>3. Cardinality(Lower(times, of, u) \cup {u}) = hi + 1
    BY <1>4, <1>5, <2>2, FS_AddElement
  <2>4. Cardinality(Lower(times, of, u) \cup {u}) <= lo
    BY <1>4, <1>5, <2>1, FS_Subset
  <2> QED
    BY <1>1, <1>3, <2>3, <2>4
<1>7. Cardinality({w \in times : of[w] <= of[t]}) >= lo + 1
  <2>1. t \notin Lower(times, of, t)
    BY <1>4, <1>5 DEF Lower
  <2>2. Cardinality(Lower(times, of, t) \cup {t}) = lo + 1
    BY <1>4, <1>5, <2>1, FS_AddElement
  <2>3. Lower(times, of, t) \cup {t} \in SUBSET {w \in times : of[w] <= of[t]}
    <3> SUFFICES ASSUME NEW w \in times, w \in Lower(times, of, t) \cup {t}  PROVE of[w] <= of[t]
      BY <1>4 DEF Lower
    <3>1. w = t \/ of[w] < of[t] \/ of[w] = of[t]
      BY DEF Lower
    <3> QED
      BY <1>5, <3>1
  <2>4. IsFiniteSet({w \in times : of[w] <= of[t]})
    BY FS_Subset
  <2>5. lo + 1 <= Cardinality({w \in times : of[w] <= of[t]})
    BY <2>2, <2>3, <2>4, FS_Subset
  <2> QED
    BY <2>5
<1>8. Cardinality({w \in times : of[w] >= of[u]}) >= n - hi
  <2>1. Cardinality(times \ Lower(times, of, u)) = n - hi
    <3>1. times \cap Lower(times, of, u) = Lower(times, of, u)
      BY DEF Lower
    <3> QED
      BY <1>4, <3>1, FS_Difference DEF n
  <2>2. times \ Lower(times, of, u) \in SUBSET {w \in times : of[w] >= of[u]}
    <3> SUFFICES ASSUME NEW w \in times, w \notin Lower(times, of, u)  PROVE of[w] >= of[u]
      OBVIOUS
    <3>1. ~(of[w] < of[u])
      BY DEF Lower
    <3> QED
      BY <1>5, <3>1
  <2>3. IsFiniteSet({w \in times : of[w] >= of[u]})
    BY FS_Subset
  <2>4. n - hi <= Cardinality({w \in times : of[w] >= of[u]})
    BY <2>1, <2>2, <2>3, FS_Subset
  <2> QED
    BY <2>4
<1>9. /\ Cardinality({w \in times : of[w] <= of[t]}) \in Nat
      /\ Cardinality({w \in times : of[w] >= of[u]}) \in Nat
  <2>1. IsFiniteSet({w \in times : of[w] <= of[t]}) /\ IsFiniteSet({w \in times : of[w] >= of[u]})
    BY FS_Subset
  <2> QED
    BY <2>1, FS_CardinalityType
<1>10. /\ 2 * Cardinality({w \in times : of[w] <= of[t]}) >= n
       /\ 2 * Cardinality({w \in times : of[w] >= of[u]}) >= n
  BY <1>1, <1>3, <1>7, <1>8, <1>9
<1> QED
  BY <1>2, <1>4, <1>6, <1>10 DEF n, t, u, lo, hi

(* An arrow follows most readings, and none bridges a gap.                 *)
LEMMA TrendsFollow ==
  ASSUME SightIs(sight), shown = BuildReport(sight)
  PROVE  TrendsAreRight
<1> DEFINE readings == sight.readings
           times == DOMAIN readings
           latest == Max(times)
           earlier == times \ {latest}
           recent == {t \in earlier : latest - BaselineWindow <= t}
           expected == shown.node.cadence.interval
           change == 2 * readings[latest] - Median2(recent, readings)
<1>a. times = {} => TrendsAreRight
  BY DEF TrendsAreRight
<1> SUFFICES ASSUME times # {}  PROVE TrendsAreRight
  BY <1>a
<1>1. /\ IsFiniteSet(times) /\ times \in SUBSET Int /\ times # {} /\ \A t \in times : readings[t] \in Int
  BY DEF SightIs
<1>2. shown.trend = MetricTrend(readings, expected)
  BY DEF BuildReport
<1> HIDE DEF expected, readings
<1>3. Epsilon \in Nat /\ Epsilon > 0 /\ HourUnits \in Nat /\ HourUnits > 0 /\ BaselineWindow \in Nat
  BY StatusAssumption
<1> DEFINE trend == MetricTrend(readings, expected)
<1>4. /\ recent # {} => trend = IF change < 2 * Epsilon /\ -change < 2 * Epsilon THEN "flat"
                                ELSE IF change > 0 THEN "up" ELSE "down"
      /\ recent = {} /\ trend # "none" => earlier # {} /\ IsAdjacent(earlier, latest, expected)
  BY DEF MetricTrend
<1> HIDE DEF times, trend
<1>5. latest \in times /\ \A y \in times : y <= latest
  BY <1>1, Extremes
<1> HIDE DEF latest
<1>6. IsFiniteSet(earlier) /\ earlier \in SUBSET Int /\ recent \in SUBSET earlier
  BY <1>1, FS_RemoveElement
<1>7. IsFiniteSet(recent) /\ recent \in SUBSET Int
  <2> HIDE DEF earlier, recent
  <2> QED
    BY <1>6, FS_Subset
<1> DEFINE Under == {t \in recent : readings[t] < readings[latest]}
           Over  == {t \in recent : readings[t] > readings[latest]}
<1>8. ASSUME recent # {}
      PROVE  /\ trend = "up" => 2 * Cardinality(Under) >= Cardinality(recent)
             /\ trend = "down" => 2 * Cardinality(Over) >= Cardinality(recent)
  <2>1. \A t \in recent : readings[t] \in Int
    BY <1>1
  <2>2. readings[latest] \in Int
    BY <1>1, <1>5
  <2>3. trend = IF change < 2 * Epsilon /\ -change < 2 * Epsilon THEN "flat"
                ELSE IF change > 0 THEN "up" ELSE "down"
    BY <1>4, <1>8
  <2> DEFINE value == readings[latest]
  <2>4. Under = {t \in recent : readings[t] < value} /\ Over = {t \in recent : readings[t] > value}
        /\ change = 2 * value - Median2(recent, readings) /\ value \in Int
    BY <2>2
  <2> HIDE DEF recent, Under, Over, change, value
  <2>5. PICK t \in recent, u \in recent :
           /\ Median2(recent, readings) = readings[t] + readings[u] /\ readings[t] <= readings[u]
           /\ 2 * Cardinality({w \in recent : readings[w] <= readings[t]}) >= Cardinality(recent)
           /\ 2 * Cardinality({w \in recent : readings[w] >= readings[u]}) >= Cardinality(recent)
    BY <1>7, <1>8, <2>1, MedianIs
  <2>6. readings[t] \in Int /\ readings[u] \in Int /\ change = 2 * value - (readings[t] + readings[u])
    BY <2>1, <2>4, <2>5
  <2>7. IsFiniteSet(Under) /\ IsFiniteSet(Over)
    BY <1>7, <2>4, FS_Subset
  <2>8. /\ Cardinality(Under) \in Nat /\ Cardinality(Over) \in Nat /\ Cardinality(recent) \in Nat
    BY <1>7, <2>7, FS_CardinalityType
  <2>9. ASSUME trend = "up"  PROVE 2 * Cardinality(Under) >= Cardinality(recent)
    <3> DEFINE lowest == {w \in recent : readings[w] <= readings[t]}
    <3>1. readings[t] < value
      BY <1>3, <2>3, <2>4, <2>5, <2>6, <2>9
    <3>2. lowest \in SUBSET Under
      BY <2>1, <2>4, <2>6, <3>1
    <3>3. Cardinality(lowest) <= Cardinality(Under) /\ IsFiniteSet(lowest)
      <4> HIDE DEF lowest
      <4> QED
        BY <2>7, <3>2, FS_Subset
    <3>4. Cardinality(lowest) \in Nat
      BY <3>3, FS_CardinalityType
    <3>5. 2 * Cardinality(lowest) >= Cardinality(recent)
      BY <2>5
    <3> HIDE DEF lowest
    <3> QED
      BY <2>8, <3>3, <3>4, <3>5
  <2>10. ASSUME trend = "down"  PROVE 2 * Cardinality(Over) >= Cardinality(recent)
    <3> DEFINE highest == {w \in recent : readings[w] >= readings[u]}
    <3>1. readings[u] > value
      BY <1>3, <2>3, <2>4, <2>5, <2>6, <2>10
    <3>2. highest \in SUBSET Over
      BY <2>1, <2>4, <2>6, <3>1
    <3>3. Cardinality(highest) <= Cardinality(Over) /\ IsFiniteSet(highest)
      <4> HIDE DEF highest
      <4> QED
        BY <2>7, <3>2, FS_Subset
    <3>4. Cardinality(highest) \in Nat
      BY <3>3, FS_CardinalityType
    <3>5. 2 * Cardinality(highest) >= Cardinality(recent)
      BY <2>5
    <3> HIDE DEF highest
    <3> QED
      BY <2>8, <3>3, <3>4, <3>5
  <2> QED
    BY <2>9, <2>10
<1>9. ASSUME recent = {}, Cardinality(times) >= 3, trend # "none"
      PROVE  latest - Previous(times, latest) <= 2 * Max(GapsOf(earlier))
  <2> DEFINE last == Max(earlier)
             later == earlier \ {Min(earlier)}
             gap == [t \in later |-> t - Previous(earlier, t)]
             gaps == GapsOf(earlier)
  <2>1. Cardinality(times) \in Nat /\ Cardinality(earlier) = Cardinality(times) - 1
    BY <1>1, <1>5, FS_RemoveElement, FS_CardinalityType
  <2>2. earlier # {}
    <3>1. Cardinality(earlier) # 0
      BY <1>9, <2>1
    <3> HIDE DEF earlier
    <3> QED
      BY <3>1, FS_EmptySet
  <2>3. /\ IsAdjacent(earlier, latest, expected)
    BY <1>4, <1>9
  <2>4. last = Previous(times, latest)
    <3>1. \A t \in times : t \in Int /\ (t < latest <=> t # latest)
      BY <1>1, <1>5
    <3>2. earlier = {u \in times : u < latest}
      BY <3>1
    <3> QED
      BY <3>2 DEF Previous
  <2> HIDE DEF earlier
  <2>5. last \in earlier /\ last \in Int /\ latest \in Int /\ Min(earlier) \in earlier
    BY <1>1, <1>5, <1>6, <2>2, Extremes
  <2>6. IsFiniteSet(later) /\ later # {} /\ later \in SUBSET Int
    <3>1. IsFiniteSet(later) /\ Cardinality(later) = Cardinality(earlier) - 1
      BY <1>6, <2>5, FS_RemoveElement
    <3>2. Cardinality(later) # 0
      BY <1>9, <2>1, <3>1
    <3>3. later # {}
      BY <3>2, FS_EmptySet
    <3> QED
      BY <1>6, <3>1, <3>3
  <2>7. 4 * (latest - last) * HourUnits <= 3 * (Median2(later, gap) * HourUnits)
    BY <2>3, <2>6 DEF IsAdjacent
  <2>8. \A t \in later : gap[t] \in Int /\ gap[t] = t - Previous(earlier, t)
    <3> SUFFICES ASSUME NEW t \in later  PROVE gap[t] \in Int
      OBVIOUS
    <3>1. Previous(earlier, t) \in earlier
      BY <1>6, PreviousIs
    <3>2. t \in Int /\ Previous(earlier, t) \in Int
      BY <1>6, <3>1
    <3> QED
      BY <3>2
  <2>9. gaps = {gap[t] : t \in later}
    BY <2>8 DEF GapsOf
  <2>10. IsFiniteSet(gaps) /\ gaps \in SUBSET Int /\ \A t \in later : gap[t] \in gaps
    <3>1. gap \in Surjection(later, gaps)
      BY <2>9 DEF Surjection
    <3>2. gaps \in SUBSET Int /\ \A t \in later : gap[t] \in gaps
      BY <2>8, <2>9
    <3> HIDE DEF gap, gaps, later
    <3> QED
      BY <2>6, <3>1, <3>2, FS_Surjection
  <2> HIDE DEF gap, gaps, later, last
  <2>11. PICK t \in later, u \in later : Median2(later, gap) = gap[t] + gap[u]
    BY <2>6, <2>8, MedianIs
  <2>12. gaps # {} /\ gap[t] \in gaps /\ gap[u] \in gaps
    BY <2>10, <2>11
  <2>13. Max(gaps) \in gaps /\ gap[t] <= Max(gaps) /\ gap[u] <= Max(gaps)
    BY <2>10, <2>12, Extremes
  <2>14. Max(gaps) \in Int /\ gap[t] \in Int /\ gap[u] \in Int
    BY <2>10, <2>12, <2>13
  <2>15. 4 * (latest - last) <= 3 * (gap[t] + gap[u])
    <3>1. \A a, b \in Int : 4 * a * HourUnits <= 3 * (b * HourUnits) => 4 * a <= 3 * b
      <4> TAKE a \in Int, b \in Int
      <4>1. 4 * a * HourUnits = (4 * a) * HourUnits /\ 3 * (b * HourUnits) = (3 * b) * HourUnits
        BY <1>3
      <4>2. \A c, d \in Int : c * HourUnits <= d * HourUnits => c <= d
        BY <1>3
      <4> QED
        BY <4>1, <4>2
    <3>2. latest - last \in Int /\ gap[t] + gap[u] \in Int
      BY <2>5, <2>14
    <3> QED
      BY <2>7, <2>11, <3>1, <3>2
  <2>16. latest - last <= 2 * Max(gaps)
    <3>1. 4 * (latest - last) <= 6 * Max(gaps)
      BY <2>5, <2>13, <2>14, <2>15
    <3>2. CASE Max(gaps) >= 0
      BY <2>5, <2>14, <3>1, <3>2
    <3>3. CASE Max(gaps) < 0
      <4>1. last <= latest
        BY <1>5, <2>5 DEF earlier
      <4> QED
        BY <2>5, <2>14, <3>1, <3>3, <4>1
    <3> QED
      BY <2>14, <3>2, <3>3
  <2> QED
    BY <2>4, <2>16 DEF gaps, last
<1> QED
  BY <1>2, <1>8, <1>9 DEF TrendsAreRight, readings, times, latest, trend

-----------------------------------------------------------------------------
(* A quiet end means what it says.                                         *)
LEMMA QuietIsSound ==
  ASSUME SightIs(sight), shown = BuildReport(sight)
  PROVE  EndsQuietly
<1> DEFINE node == shown.node
           seen == PickLastSeen(sight.obs)
<1>1. /\ node = MergeObservations(sight.obs, sight.record, sight.now, CadenceHint(sight))
      /\ shown.degraded = IsDegraded(sight, node, TRUE)
  BY DEF BuildReport
<1> HIDE DEF node
<1>2. /\ node.inDatabase = sight.record.kept /\ node.cadence.interval \in Nat
      /\ node.availability = IF seen = Unknown THEN "unknown"
           ELSE ClassifyAge(sight.now - seen, AvailabilityThresholds(node.cadence.interval))
  BY <1>1, ShownIs
<1>3. seen \in Int \cup {Unknown} /\ sight.now \in Int
  BY LastSeenIs DEF SightIs
<1> HIDE DEF seen
<1>4. node.availability \in {"online", "stale", "offline", "unknown"}
  <2>1. CASE seen # Unknown
    <3>1. sight.now - seen \in Int
      BY <1>3, <2>1
    <3> QED
      BY <1>2, <2>1, <3>1, ClassIs
  <2> QED
    BY <1>2, <2>1
<1>5. ASSUME ~shown.degraded
      PROVE  /\ sight.failed = {} /\ sight.incomplete = {} /\ node.availability # "offline"
             /\ sight.record.kept => node.availability # "unknown"
  BY <1>1, <1>2, <1>5 DEF IsDegraded
<1> QED
  BY <1>4, <1>5 DEF EndsQuietly, node

(* Nothing is shown but the report of what there is to know.               *)
Reported == SightIs(sight) /\ (shown # Unknown => shown = BuildReport(sight))

(* `mesh status` judges a node by its own gaps, its sources only add, its  *)
(* arrows follow the readings, and its quiet end is sound: for any hours,  *)
(* sources and readings, any window and any intervals.                     *)
THEOREM StatusStaysRight == StatusSpec => []StatusIsRight
<1>1. StatusInit => Reported
  BY SightsAssumption DEF StatusInit, StatusStart, Reported
<1>2. Reported /\ [StatusNext]_statusVars => Reported'
  <2> SUFFICES ASSUME Reported, [StatusNext]_statusVars  PROVE Reported'
    OBVIOUS
  <2>1. CASE StatusNext
    BY <2>1 DEF StatusNext, RunStatus, Reported
  <2>2. CASE UNCHANGED statusVars
    BY <2>2 DEF statusVars, Reported
  <2> QED
    BY <2>1, <2>2
<1>3. Reported => StatusIsRight
  BY GapsJudge, SourcesAdd, TrendsFollow, QuietIsSound DEF Reported, StatusIsRight
<1> QED
  BY <1>1, <1>2, <1>3, PTL DEF StatusSpec

-----------------------------------------------------------------------------
(* `mesh health`.                                                          *)

(* The positions of some hours, summed one hour after the other.           *)
Positions(b) == b.positions
SomeOf(s) == CHOOSE b \in s : TRUE
Summed(g, s) == IF s = {} THEN 0 ELSE Positions(SomeOf(s)) + g[s \ {SomeOf(s)}]

LEMMA SumIs ==
  ASSUME NEW S
  PROVE  Sum(S, Positions) = (CHOOSE g : g = [s \in SUBSET S |-> Summed(g, s)])[S]
BY DEF Sum, MapThenSumSet, MapThenFoldSet, Summed, SomeOf, Positions

(* They are a number.                                                      *)
LEMMA PositionsCount ==
  ASSUME NEW S, IsFiniteSet(S), \A b \in S : b.positions \in Nat
  PROVE  Sum(S, Positions) \in Nat
<1> DEFINE Upto(n) == {s \in SUBSET S : Cardinality(s) <= n}
           Good == {n \in Nat : \E g \in [Upto(n) -> Nat] : \A s \in Upto(n) : g[s] = Summed(g, s)}
<1>1. ASSUME NEW s \in SUBSET S
      PROVE  /\ IsFiniteSet(s) /\ Cardinality(s) \in Nat /\ (Cardinality(s) = 0 <=> s = {})
             /\ s # {} => /\ SomeOf(s) \in s /\ Positions(SomeOf(s)) \in Nat
                          /\ s \ {SomeOf(s)} \in SUBSET S
                          /\ Cardinality(s \ {SomeOf(s)}) = Cardinality(s) - 1
  <2>1. IsFiniteSet(s) /\ Cardinality(s) \in Nat /\ (Cardinality(s) = 0 <=> s = {})
    BY FS_Subset, FS_CardinalityType, FS_EmptySet
  <2>2. ASSUME s # {}  PROVE SomeOf(s) \in s
    BY <2>2 DEF SomeOf
  <2>3. ASSUME s # {}  PROVE Cardinality(s \ {SomeOf(s)}) = Cardinality(s) - 1
    BY <2>1, <2>2, <2>3, FS_RemoveElement
  <2> QED
    BY <2>1, <2>2, <2>3 DEF Positions
<1>2. 0 \in Good
  <2> DEFINE g == [s \in Upto(0) |-> 0]
  <2>1. \A s \in Upto(0) : s = {}
    <3> SUFFICES ASSUME NEW s \in SUBSET S, Cardinality(s) <= 0  PROVE s = {}
      OBVIOUS
    <3>1. Cardinality(s) \in Nat /\ (Cardinality(s) = 0 <=> s = {})
      BY <1>1
    <3> QED
      BY <3>1
  <2>2. g \in [Upto(0) -> Nat] /\ \A s \in Upto(0) : g[s] = Summed(g, s)
    BY <2>1 DEF Summed
  <2> HIDE DEF g, Upto
  <2> QED
    BY <2>2
<1>3. ASSUME NEW n \in Nat, n \in Good  PROVE n + 1 \in Good
  <2>1. PICK g \in [Upto(n) -> Nat] : \A s \in Upto(n) : g[s] = Summed(g, s)
    BY <1>3
  <2> DEFINE h == [s \in Upto(n + 1) |-> Summed(g, s)]
  <2>2. \A s \in Upto(n + 1) : s # {} => s \ {SomeOf(s)} \in Upto(n)
    BY <1>1
  <2>3. \A s \in Upto(n) : s \in Upto(n + 1)
    <3> SUFFICES ASSUME NEW s \in SUBSET S, Cardinality(s) <= n  PROVE Cardinality(s) <= n + 1
      OBVIOUS
    <3>1. Cardinality(s) \in Nat
      BY <1>1
    <3> QED
      BY <3>1
  <2>4. ASSUME NEW s \in Upto(n + 1)  PROVE h[s] \in Nat /\ h[s] = Summed(h, s)
    <3>1. CASE s = {}
      BY <3>1 DEF Summed
    <3>2. CASE s # {}
      <4> DEFINE rest == s \ {SomeOf(s)}
      <4>1. rest \in Upto(n) /\ rest \in Upto(n + 1) /\ Positions(SomeOf(s)) \in Nat
        BY <1>1, <2>2, <2>3, <3>2
      <4>2. h[s] = Positions(SomeOf(s)) + g[rest] /\ Summed(h, s) = Positions(SomeOf(s)) + h[rest]
        BY <3>2 DEF Summed
      <4> HIDE DEF rest, Upto
      <4>3. h[rest] = g[rest] /\ g[rest] \in Nat
        BY <2>1, <4>1
      <4> QED
        BY <4>1, <4>2, <4>3
    <3> QED
      BY <3>1, <3>2
  <2>5. h \in [Upto(n + 1) -> Nat]
    <3> HIDE DEF Upto
    <3> QED
      BY <2>4
  <2> HIDE DEF h, Upto
  <2> QED
    BY <2>4, <2>5
<1> HIDE DEF Good
<1>4. Cardinality(S) \in Good /\ Cardinality(S) \in Nat
  <2>1. Nat \subseteq Good
    BY <1>2, <1>3, ByInduction
  <2> QED
    BY <1>1, <2>1
<1>5. Upto(Cardinality(S)) = SUBSET S
  BY FS_Subset
<1>6. PICK g \in [SUBSET S -> Nat] : \A s \in SUBSET S : g[s] = Summed(g, s)
  BY <1>4, <1>5 DEF Good
<1> DEFINE sum == CHOOSE f : f = [s \in SUBSET S |-> Summed(f, s)]
<1>7. sum = [s \in SUBSET S |-> Summed(sum, s)]
  <2>1. g = [s \in SUBSET S |-> Summed(g, s)]
    BY <1>6
  <2> QED
    BY <2>1
<1> HIDE DEF sum
<1> DEFINE Fine == {n \in Nat : \A s \in Upto(n) : sum[s] \in Nat}
<1>8. 0 \in Fine
  <2>1. \A s \in Upto(0) : s = {}
    <3> SUFFICES ASSUME NEW s \in SUBSET S, Cardinality(s) <= 0  PROVE s = {}
      OBVIOUS
    <3>1. Cardinality(s) \in Nat /\ (Cardinality(s) = 0 <=> s = {})
      BY <1>1
    <3> QED
      BY <3>1
  <2> QED
    BY <1>7, <2>1 DEF Summed
<1>9. ASSUME NEW n \in Nat, n \in Fine  PROVE n + 1 \in Fine
  <2> SUFFICES ASSUME NEW s \in Upto(n + 1)  PROVE sum[s] \in Nat
    OBVIOUS
  <2>1. sum[s] = Summed(sum, s)
    BY <1>7
  <2>2. CASE s = {}
    BY <2>1, <2>2 DEF Summed
  <2>3. CASE s # {}
    <3>1. s \ {SomeOf(s)} \in Upto(n) /\ Positions(SomeOf(s)) \in Nat
      BY <1>1, <2>3
    <3>2. sum[s \ {SomeOf(s)}] \in Nat
      BY <1>9, <3>1
    <3> QED
      BY <2>1, <2>3, <3>1, <3>2 DEF Summed
  <2> QED
    BY <2>2, <2>3
<1> HIDE DEF Fine
<1>10. Cardinality(S) \in Fine
  <2>1. Nat \subseteq Fine
    BY <1>8, <1>9, ByInduction
  <2> QED
    BY <1>4, <2>1
<1>11. sum[S] \in Nat
  BY <1>5, <1>10 DEF Fine
<1> QED
  BY <1>11, SumIs DEF sum

(* What is assessed of a node: at one time for all, from its own history,  *)
(* by what status shows of it unless the history says otherwise.           *)
LEMMA NodesAre ==
  ASSUME FleetIs(fleet.of), health = AssessNodes(fleet.of, fleet.fetched), NEW id \in FleetNodes
  PROVE  LET known == fleet.of[id]  now == known.sight.now IN
         /\ health.now = now
         /\ health.metrics[id] = ComputeMetrics(id, known.history, now)
         /\ health.nodes[id] = NodeHealth(id, fleet.of, health.metrics, now)
<1> DEFINE some == CHOOSE n \in FleetNodes : TRUE
           at == fleet.of[some].sight.now
           metrics == [n \in FleetNodes |-> ComputeMetrics(n, fleet.of[n].history, at)]
           nodes == [n \in FleetNodes |-> NodeHealth(n, fleet.of, metrics, at)]
<1>1. some \in FleetNodes
  OBVIOUS
<1>2. at = fleet.of[id].sight.now
  <2> HIDE DEF some
  <2> QED
    BY <1>1 DEF FleetIs
<1>3. health = [nodes |-> nodes, metrics |-> metrics, now |-> at,
                degraded |-> ExitsDegraded(nodes, fleet.of, fleet.fetched)]
  BY DEF AssessNodes
<1> HIDE DEF at
<1>4. health.now = at /\ health.metrics = metrics /\ health.nodes = nodes
  <2> HIDE DEF nodes, metrics
  <2> QED
    BY <1>3
<1> QED
  BY <1>2, <1>4

(* The history as a status that starts from it knows it.                   *)
Anew(known) == [known.sight EXCEPT !.history = HoursOf(known.history)]

LEMMA AnewIs ==
  ASSUME NEW known, SightIs(known.sight), HistoryIs(known.history)
  PROVE  /\ SightIs(Anew(known)) /\ Anew(known).history = HoursOf(known.history)
         /\ Anew(known).now = known.sight.now /\ Anew(known).override = known.sight.override
         /\ Anew(known).configured = known.sight.configured /\ Anew(known).record = known.sight.record
<1> DEFINE from == known.sight  history == known.history  hours == HoursOf(history)  anew == Anew(known)
           f == [b \in history.hours |-> [hour |-> b.hour, receptions |-> b.receptions]]
<1>1. \A b \in history.hours :
        b.hour \in Int /\ \A c \in history.hours : c.hour = b.hour => c = b
  BY DEF HistoryIs
<1>2. hours = {[hour |-> b.hour, receptions |-> b.receptions] : b \in history.hours}
  BY DEF HoursOf
<1>3. IsFiniteSet(hours)
  <2>1. f \in Surjection(history.hours, hours)
    BY <1>2 DEF Surjection
  <2>2. IsFiniteSet(history.hours)
    BY DEF HistoryIs
  <2> HIDE DEF f, hours
  <2> QED
    BY <2>1, <2>2, FS_Surjection
<1>4. \A h \in hours : h.hour \in Int /\ \A i \in hours : i.hour = h.hour => i = h
  <2> SUFFICES ASSUME NEW h \in hours, NEW i \in hours  PROVE h.hour \in Int /\ (i.hour = h.hour => i = h)
    OBVIOUS
  <2>1. PICK b \in history.hours : h = [hour |-> b.hour, receptions |-> b.receptions]
    BY <1>2
  <2>2. PICK c \in history.hours : i = [hour |-> c.hour, receptions |-> c.receptions]
    BY <1>2
  <2> QED
    BY <1>1, <2>1, <2>2
<1> HIDE DEF hours
<1>5. /\ DOMAIN anew = DOMAIN from /\ anew.history = hours
      /\ anew.now = from.now /\ anew.obs = from.obs /\ anew.override = from.override
      /\ anew.configured = from.configured /\ anew.readings = from.readings /\ anew.record = from.record
  BY DEF Anew, SightIs, hours
<1> HIDE DEF anew
<1>6. SightIs(anew)
  BY <1>3, <1>4, <1>5 DEF SightIs
<1> QED
  BY <1>5, <1>6 DEF anew, hours

(* What is shown of a node.                                                *)
Observed(role, seen, age, c, t, v, name, battery, at, by, kept) ==
  [role |-> role, lastSeen |-> seen, age |-> age, cadence |-> c, thresholds |-> t, availability |-> v,
   name |-> name, battery |-> battery, batteryTime |-> at, seenBy |-> by, inDatabase |-> kept]

JudgedBy(node, d, u, w) == [node EXCEPT !.cadence = d, !.thresholds = u, !.availability = w]

LEMMA AreReplaced ==
  ASSUME NEW role, NEW seen, NEW age, NEW c, NEW t, NEW v, NEW name, NEW battery, NEW at, NEW by, NEW kept,
         NEW d, NEW u, NEW w
  PROVE  JudgedBy(Observed(role, seen, age, c, t, v, name, battery, at, by, kept), d, u, w)
         = Observed(role, seen, age, d, u, w, name, battery, at, by, kept)
<1> DEFINE before == Observed(role, seen, age, c, t, v, name, battery, at, by, kept)
           fields == {"role", "lastSeen", "age", "cadence", "thresholds", "availability", "name", "battery",
                      "batteryTime", "seenBy", "inDatabase"}
           after == [x \in fields |-> IF x = "availability" THEN w ELSE IF x = "thresholds" THEN u
                                      ELSE IF x = "cadence" THEN d ELSE before[x]]
<1>1. DOMAIN before = fields
  BY DEF Observed
<1>2. JudgedBy(before, d, u, w) = after
  <2> HIDE DEF before
  <2> QED
    BY <1>1 DEF JudgedBy
<1>3. Observed(role, seen, age, d, u, w, name, battery, at, by, kept) = after
  BY DEF Observed
<1> QED
  BY <1>2, <1>3

(* A node that is judged again is judged as one that starts anew.          *)
LEMMA JudgedAnew ==
  ASSUME NEW known, SightIs(known.sight), HistoryIs(known.history)
  PROVE  LET from == known.sight
             before == MergeObservations(from.obs, from.record, from.now, CadenceHint(from)) IN
         Rejudged(before, known, from.now) =
           IF LearnedInterval(HoursOf(known.history), from.now) = Unknown THEN before
           ELSE MergeObservations(from.obs, from.record, from.now, CadenceHint(Anew(known)))
<1> DEFINE from == known.sight
           hint == CadenceHint(from)
           again == CadenceHint(Anew(known))
           before == MergeObservations(from.obs, from.record, from.now, hint)
           learned == LearnedInterval(HoursOf(known.history), from.now)
           alone == [override |-> Unknown, learned |-> learned, configured |-> Unknown]
<1>1. /\ hint.override = from.override /\ again.override = from.override
      /\ hint.learned = IF from.override = Unknown THEN LearnedInterval(from.history, from.now) ELSE Unknown
      /\ again.learned = IF from.override = Unknown THEN learned ELSE Unknown
      /\ hint = [override |-> hint.override, learned |-> hint.learned, configured |-> hint.configured]
      /\ again = [override |-> again.override, learned |-> again.learned, configured |-> hint.configured]
  BY AnewIs DEF CadenceHint
<1> HIDE DEF learned, hint, again, from
<1> DEFINE role == FirstKnown(from.obs, "role", ByRecency)
           seen == PickLastSeen(from.obs)
           age == IF seen = Unknown THEN Unknown ELSE from.now - seen
           name == Or(FirstKnown(from.obs, "name", ByRecency), from.record.name)
           battery == FirstKnown(from.obs, "battery", ByPriority)
           time == FirstKnown(from.obs, "metricsAt", ByPriority)
           by == SeenByCounts(from.obs, from.now)
           Of(c) == LET t == AvailabilityThresholds(c.interval) IN
             Observed(role, seen, age, c, t, ClassifyAge(age, t), name, battery, time, by, from.record.kept)
<1>2. \A h : MergeObservations(from.obs, from.record, from.now, h)
               = Of(ResolveCadence(h, Or(role, from.record.role)))
  BY DEF MergeObservations, Observed
<1> HIDE DEF role, seen, age, name, battery, time, by
<1>3. \A c : Of(c).cadence = c /\ Of(c).age = age /\ Of(c).role = role
  BY DEF Observed
<1>4. \A c, d : LET t == AvailabilityThresholds(d.interval) IN
        JudgedBy(Of(c), d, t, ClassifyAge(age, t)) = Of(d)
  BY AreReplaced
<1> HIDE DEF Of
<1>5. ASSUME learned = Unknown  PROVE Rejudged(before, known, from.now) = before
  BY <1>5 DEF Rejudged, learned
<1>6. ASSUME learned # Unknown, from.override # Unknown
      PROVE  Rejudged(before, known, from.now) = before /\ hint = again
  <2>1. before.cadence.from = "override"
    <3>1. before.cadence = ResolveCadence(hint, Or(role, from.record.role))
      BY <1>2, <1>3
    <3> QED
      BY <1>1, <1>6, <3>1 DEF ResolveCadence
  <2>2. hint.learned = again.learned /\ hint.override = again.override
    BY <1>1, <1>6
  <2> QED
    BY <1>1, <2>1, <2>2 DEF Rejudged
<1>7. ASSUME learned # Unknown, from.override = Unknown
      PROVE  Rejudged(before, known, from.now) = MergeObservations(from.obs, from.record, from.now, again)
  <2> DEFINE cadence == [interval |-> Capped(learned), from |-> "history"]
             t == AvailabilityThresholds(cadence.interval)
  <2>1. \A r : ResolveCadence(again, r) = cadence /\ ResolveCadence(alone, r) = cadence
    BY <1>1, <1>7 DEF ResolveCadence
  <2>2. before.cadence.from # "override" /\ before.age = age
    <3>1. before.cadence = ResolveCadence(hint, Or(role, from.record.role)) /\ before.age = age
      BY <1>2, <1>3
    <3> QED
      BY <1>1, <1>7, <3>1 DEF ResolveCadence
  <2>3. Rejudged(before, known, from.now)
          = JudgedBy(before, cadence, t, ClassifyAge(age, t))
    BY <1>7, <2>1, <2>2 DEF Rejudged, JudgedBy, learned
  <2> HIDE DEF cadence
  <2>4. Rejudged(before, known, from.now) = Of(cadence)
    <3>1. before = Of(ResolveCadence(hint, Or(role, from.record.role)))
      BY <1>2
    <3> HIDE DEF before
    <3> QED
      BY <1>4, <2>3, <3>1
  <2> QED
    BY <1>2, <2>1, <2>4
<1> QED
  BY <1>5, <1>6, <1>7 DEF learned, hint, again, from

(* What is judged of a node, by its last sign of life.                     *)
LEMMA JudgedIs ==
  ASSUME NEW known, SightIs(known.sight), HistoryIs(known.history)
  PROVE  LET from == known.sight
             before == MergeObservations(from.obs, from.record, from.now, CadenceHint(from))
             node == Rejudged(before, known, from.now)
             seen == PickLastSeen(from.obs) IN
         /\ node.lastSeen = seen /\ seen \in Int \cup {Unknown}
         /\ node.battery = FirstKnown(from.obs, "battery", ByPriority)
         /\ \E interval \in Nat : node.thresholds = AvailabilityThresholds(interval)
         /\ node.availability = IF seen = Unknown THEN "unknown" ELSE ClassifyAge(from.now - seen, node.thresholds)
<1> DEFINE from == known.sight
           anew == Anew(known)
           before == MergeObservations(from.obs, from.record, from.now, CadenceHint(from))
           again == MergeObservations(from.obs, from.record, from.now, CadenceHint(anew))
           node == Rejudged(before, known, from.now)
           seen == PickLastSeen(from.obs)
           Judged(n) ==
             /\ n.lastSeen = seen /\ n.battery = FirstKnown(from.obs, "battery", ByPriority)
             /\ n.thresholds = AvailabilityThresholds(n.cadence.interval) /\ n.cadence.interval \in Nat
             /\ n.availability = IF seen = Unknown THEN "unknown" ELSE ClassifyAge(from.now - seen, n.thresholds)
<1>1. node = before \/ node = again
  BY JudgedAnew
<1>2. SightIs(anew) /\ anew.record = from.record /\ anew.now = from.now
  BY AnewIs
<1>3. Judged(before)
  <2> HIDE DEF seen
  <2> QED
    BY ShownIs DEF seen
<1>4. Judged(again)
  <2>1. again = MergeObservations(from.obs, anew.record, anew.now, CadenceHint(anew))
    BY <1>2
  <2> HIDE DEF again, anew, seen
  <2> QED
    BY <1>2, <2>1, ShownIs DEF seen
<1>5. seen \in Int \cup {Unknown}
  BY LastSeenIs DEF SightIs
<1> HIDE DEF before, again, node, seen
<1>6. Judged(node)
  BY <1>1, <1>3, <1>4
<1> HIDE DEF from
<1> QED
  BY <1>5, <1>6 DEF before, node, seen, from

(* Nothing else is called silent.                                          *)
LEMMA SilentOnly ==
  ASSUME NEW metrics, NEW node, NEW now, NEW f \in Assess(metrics, node, now)
  PROVE  /\ f.code = "silent" => f \in Silence(metrics, node, now)
         /\ f.code \in {"battery_low", "battery_draining"} => f \in BatteryFindings(metrics, node, now)
<1>1. f \in Silence(metrics, node, now) => f.code \in {"silent", "no_data", "never_heard"}
  BY DEF Silence, Finding
<1>2. f \in BatteryFindings(metrics, node, now) => f.code \in {"battery_low", "battery_draining"}
  BY DEF BatteryFindings, Finding
<1>3. f \in SingleGateway(metrics) => f.code = "single_gateway"
  BY DEF SingleGateway, Finding
<1>4. f \in Utilization(metrics.busy, "channel_busy", 25, 40) => f.code = "channel_busy"
  BY DEF Utilization, Finding
<1> QED
  BY <1>1, <1>2, <1>3, <1>4 DEF Assess, Finding

(* The silence found is that since the last sign of life, of either kind.  *)
LEMMA SilenceIs ==
  ASSUME NEW metrics, metrics.lastHeard \in Int \cup {Unknown}, NEW node, node.lastSeen \in Int \cup {Unknown},
         NEW now \in Int, NEW interval \in Nat, node.thresholds = AvailabilityThresholds(interval)
  PROVE  LET silent == {Severity[f.severity] : f \in {g \in Assess(metrics, node, now) : g.code = "silent"}}
             found == Max({0} \cup silent)
             alive == {metrics.lastHeard, node.lastSeen} \ {Unknown} IN
         /\ alive = {} => found = 0
         /\ alive # {} =>
              LET units == (now - Max(alive)) * HourUnits IN
              /\ Max(alive) \in alive /\ units \in Int
              /\ node.lastSeen # Unknown => node.lastSeen <= Max(alive)
              /\ found = 0 => units <= node.thresholds.offline
              /\ units <= node.thresholds.stale => found = 0
              /\ found = 3 => units > node.thresholds.offline
              /\ units > node.thresholds.offline => Verdict(Assess(metrics, node, now)) = "crit"
<1> DEFINE findings == Assess(metrics, node, now)
           since == Silence(metrics, node, now)
           silent == {Severity[f.severity] : f \in {g \in findings : g.code = "silent"}}
           found == Max({0} \cup silent)
           alive == {metrics.lastHeard, node.lastSeen} \ {Unknown}
<1>1. {g \in findings : g.code = "silent"} = {g \in since : g.code = "silent"}
  BY SilentOnly DEF Assess
<1>2. since \subseteq findings
  BY DEF Assess
<1> HIDE DEF findings
<1>3. Max({0}) = 0
  <2>1. {0, 0} = {0}
    OBVIOUS
  <2> QED
    BY <2>1, PairIs
<1>4. CASE alive = {}
  <2>1. \A g \in since : g.code # "silent"
    BY <1>4 DEF Silence, Finding
  <2>2. {0} \cup silent = {0}
    BY <1>1, <2>1
  <2> QED
    BY <1>3, <1>4, <2>2 DEF findings
<1>5. CASE alive # {}
  <2> DEFINE last == Max(alive)
             units == (now - last) * HourUnits
             by == BySilence(now - last, node)
             stale == node.thresholds.stale
             offline == node.thresholds.offline
  <2>1. alive \in SUBSET Int /\ IsFiniteSet(alive)
    <3>1. IsFiniteSet({metrics.lastHeard})
      BY FS_Singleton
    <3>2. IsFiniteSet({metrics.lastHeard} \cup {node.lastSeen})
      BY <3>1, FS_AddElement
    <3>3. {metrics.lastHeard} \cup {node.lastSeen} = {metrics.lastHeard, node.lastSeen}
      OBVIOUS
    <3> QED
      BY <3>2, <3>3, FS_Subset
  <2>2. last \in alive /\ last \in Int /\ \A y \in alive : y <= last
    <3> HIDE DEF alive
    <3> QED
      BY <1>5, <2>1, Extremes
  <2>3. units \in Int
    BY <2>2, StatusAssumption
  <2>4. stale \in Nat /\ offline \in Nat /\ stale <= offline
    <3>1. /\ AvailabilityThresholds(interval).stale \in Nat /\ AvailabilityThresholds(interval).offline \in Nat
          /\ AvailabilityThresholds(interval).stale <= AvailabilityThresholds(interval).offline
      BY ClassIs
    <3> QED
      BY <3>1
  <2>5. by = IF units > offline THEN "crit" ELSE IF units > stale THEN "warn" ELSE "none"
    BY DEF BySilence
  <2>6. since = {Finding("silent", by)} \ {Finding("silent", "none")}
    BY <1>5 DEF Silence
  <2>7. node.lastSeen # Unknown => node.lastSeen <= last
    BY <2>2
  <2> HIDE DEF last, by, units, since, alive
  <2>8. ASSUME by = "none"  PROVE found = 0
    <3>1. since = {}
      BY <2>6, <2>8
    <3>2. {0} \cup silent = {0}
      BY <1>1, <3>1
    <3> QED
      BY <1>3, <3>2
  <2>9. ASSUME by # "none"
        PROVE  found = Severity[by] /\ Finding("silent", by) \in findings
    <3>1. Finding("silent", by) # Finding("silent", "none")
      <4>1. Finding("silent", by).severity = by /\ Finding("silent", "none").severity = "none"
        BY DEF Finding
      <4> QED
        BY <2>9, <4>1
    <3>2. since = {Finding("silent", by)}
      BY <2>6, <3>1
    <3>3. Finding("silent", by).code = "silent" /\ Finding("silent", by).severity = by
      BY DEF Finding
    <3>4. silent = {Severity[by]}
      BY <1>1, <3>2, <3>3
    <3>5. Severity[by] \in Nat
      BY <2>5, <2>9 DEF Severity
    <3>6. {0} \cup silent = {0, Severity[by]}
      BY <3>4
    <3>7. Max({0, Severity[by]}) = Severity[by]
      BY <3>5, PairIs
    <3> QED
      BY <1>2, <3>2, <3>6, <3>7
  <2> HIDE DEF found
  <2>10. Severity["warn"] = 2 /\ Severity["crit"] = 3
    BY DEF Severity
  <2>11. /\ found = 0 => units <= offline
         /\ units <= stale => found = 0
         /\ found = 3 => units > offline
    BY <2>3, <2>4, <2>5, <2>8, <2>9, <2>10
  <2>12. ASSUME units > offline  PROVE Verdict(findings) = "crit"
    <3>1. Finding("silent", "crit") \in findings
      BY <2>5, <2>9, <2>12
    <3>2. Finding("silent", "crit").severity = "crit"
      BY DEF Finding
    <3> QED
      BY <3>1, <3>2 DEF Verdict
  <2> QED
    BY <1>5, <2>2, <2>3, <2>7, <2>11, <2>12 DEF last, units, found, findings, alive
<1> QED
  BY <1>4, <1>5

-----------------------------------------------------------------------------
(* What is computed of the window.                                         *)
Window(history, now) == {b \in history.hours : now - WindowHours <= b.hour /\ b.hour <= now}
Points(history, now) == {p \in history.telemetry : now - WindowHours <= p.time /\ p.time <= now}

LEMMA MetricsAre ==
  ASSUME NEW id, NEW history, NEW now
  PROVE  LET metrics == ComputeMetrics(id, history, now)  buckets == Window(history, now)
             gateways == {g \in Gateways : \E b \in buckets : g \in b.gateways} IN
         /\ metrics.covered = Cardinality(buckets) /\ metrics.positions = Sum(buckets, Positions)
         /\ metrics.silence = LongestSilence(buckets) /\ metrics.lastHeard = history.lastHeard
         /\ metrics.gateways = gateways /\ metrics.uplinksItself = (id \in gateways)
         /\ metrics.battery = BatteryTrend(Points(history, now))
         /\ metrics.poweredTime = PoweredTime(Points(history, now))
BY DEF ComputeMetrics, Window, Points, Sum, MapThenSumSet, MapThenFoldSet, Positions

-----------------------------------------------------------------------------
(* What `mesh health` assessed of the fleet.                               *)
Assessed == FleetIs(fleet.of) /\ health = AssessNodes(fleet.of, fleet.fetched)

(* It judges no node otherwise than `mesh status`.                         *)
LEMMA StatusAgrees ==
  ASSUME Assessed
  PROVE  AgreesWithStatus
<1> SUFFICES ASSUME NEW id \in FleetNodes
             PROVE  LET node == health.nodes[id].node  later == fleet.of[id].history.lastHeard
                        last == later = Unknown \/ (node.lastSeen # Unknown /\ later <= node.lastSeen)
                    IN /\ node.availability = "online" => SilenceFound(id) = 0
                       /\ SilenceFound(id) = 3 /\ node.lastSeen # Unknown => node.availability = "offline"
                       /\ node.availability = "offline" /\ last => health.nodes[id].verdict = "crit"
  BY DEF AgreesWithStatus
<1> DEFINE known == fleet.of[id]
           from == known.sight
           now == from.now
           metrics == health.metrics[id]
           before == MergeObservations(from.obs, from.record, now, CadenceHint(from))
           node == Rejudged(before, known, now)
           findings == Assess(metrics, node, now)
           seen == PickLastSeen(from.obs)
           later == known.history.lastHeard
           alive == {later, seen} \ {Unknown}
           units == (now - Max(alive)) * HourUnits
<1>1. SightIs(from) /\ HistoryIs(known.history) /\ now \in Int /\ later \in Int \cup {Unknown}
  BY DEF Assessed, FleetIs, SightIs, HistoryIs
<1>2. /\ metrics = ComputeMetrics(id, known.history, now)
      /\ health.nodes[id] = NodeHealth(id, fleet.of, health.metrics, now)
  BY NodesAre DEF Assessed
<1>3. /\ health.nodes[id].node = node /\ health.nodes[id].findings = findings
      /\ health.nodes[id].verdict = Verdict(findings)
  BY <1>2 DEF NodeHealth
<1>4. metrics.lastHeard = later
  BY <1>2, MetricsAre
<1>5. /\ node.lastSeen = seen /\ seen \in Int \cup {Unknown}
      /\ \E interval \in Nat : node.thresholds = AvailabilityThresholds(interval)
      /\ node.availability = IF seen = Unknown THEN "unknown" ELSE ClassifyAge(now - seen, node.thresholds)
  BY <1>1, JudgedIs
<1>6. PICK interval \in Nat : node.thresholds = AvailabilityThresholds(interval)
  BY <1>5
<1>7. SilenceFound(id) = Max({0} \cup {Severity[f.severity] : f \in {g \in findings : g.code = "silent"}})
  BY <1>3 DEF SilenceFound
<1> HIDE DEF node, seen, later, known, metrics, now
<1>8. /\ alive = {} => SilenceFound(id) = 0
      /\ alive # {} =>
           /\ Max(alive) \in alive /\ units \in Int /\ (seen # Unknown => seen <= Max(alive))
           /\ units <= node.thresholds.stale => SilenceFound(id) = 0
           /\ SilenceFound(id) = 3 => units > node.thresholds.offline
           /\ units > node.thresholds.offline => Verdict(findings) = "crit"
  <2> DEFINE signs == {metrics.lastHeard, node.lastSeen} \ {Unknown}
             since == (now - Max(signs)) * HourUnits
  <2>1. metrics.lastHeard \in Int \cup {Unknown} /\ node.lastSeen \in Int \cup {Unknown}
    BY <1>1, <1>4, <1>5
  <2>2. /\ signs = {} => SilenceFound(id) = 0
        /\ signs # {} =>
             /\ Max(signs) \in signs /\ since \in Int /\ (node.lastSeen # Unknown => node.lastSeen <= Max(signs))
             /\ since <= node.thresholds.stale => SilenceFound(id) = 0
             /\ SilenceFound(id) = 3 => since > node.thresholds.offline
             /\ since > node.thresholds.offline => Verdict(findings) = "crit"
    <3> HIDE DEF SilenceFound
    <3> QED
      BY <1>1, <1>6, <1>7, <2>1, SilenceIs
  <2>3. signs = alive /\ node.lastSeen = seen
    BY <1>4, <1>5
  <2> HIDE DEF signs, alive
  <2> QED
    BY <2>2, <2>3
<1> HIDE DEF findings
<1>9. CASE seen = Unknown
  BY <1>3, <1>5, <1>9
<1>10. CASE seen # Unknown
  <2> DEFINE age == (now - seen) * HourUnits
             stale == node.thresholds.stale
             offline == node.thresholds.offline
  <2>1. seen \in Int /\ alive # {} /\ HourUnits \in Nat
    BY <1>5, <1>10, StatusAssumption
  <2>2. /\ stale \in Nat /\ offline \in Nat /\ stale <= offline
        /\ node.availability = IF age <= stale THEN "online" ELSE IF age > offline THEN "offline" ELSE "stale"
    <3>1. now - seen \in Int
      BY <1>1, <2>1
    <3> QED
      BY <1>5, <1>6, <1>10, <3>1, ClassIs
  <2>3. Max(alive) \in Int /\ seen <= Max(alive) /\ units \in Int /\ age \in Int
    BY <1>1, <1>5, <1>8, <1>10, <2>1
  <2>4. units <= age
    <3>1. \A a, b \in Int : a <= b => a * HourUnits <= b * HourUnits
      BY <2>1
    <3>2. now - Max(alive) <= now - seen /\ now - Max(alive) \in Int /\ now - seen \in Int
      BY <1>1, <2>1, <2>3
    <3> QED
      BY <3>1, <3>2
  <2>5. ASSUME later = Unknown \/ later <= seen  PROVE units = age
    <3>1. Max(alive) = seen \/ (Max(alive) = later /\ later # Unknown)
      BY <1>8, <2>1
    <3>2. Max(alive) = seen
      <4> DEFINE last == Max(alive)
      <4>1. last = seen \/ (last = later /\ later <= seen)
        BY <2>5, <3>1
      <4>2. last \in Int /\ seen <= last
        BY <2>3
      <4> HIDE DEF last
      <4> QED
        BY <2>1, <4>1, <4>2 DEF last
    <3> QED
      BY <3>2
  <2> HIDE DEF units, age, stale, offline
  <2>6. /\ node.availability = "online" => units <= stale
        /\ units > offline => node.availability = "offline"
        /\ node.availability = "offline" => age > offline
    BY <2>2, <2>3, <2>4
  <2>7. /\ units <= stale => SilenceFound(id) = 0
        /\ SilenceFound(id) = 3 => units > offline
        /\ units > offline => Verdict(findings) = "crit"
    BY <1>8, <2>1 DEF stale, offline
  <2> QED
    BY <1>3, <1>5, <2>5, <2>6, <2>7 DEF known, later
<1> QED
  BY <1>9, <1>10

(* It judges a node again as a status that starts from what it fetched.    *)
LEMMA AnewAgrees ==
  ASSUME Assessed
  PROVE  RejudgedAsNew
<1> SUFFICES ASSUME NEW id \in FleetNodes,
                    LearnedInterval(HoursOf(fleet.of[id].history), fleet.of[id].sight.now) # Unknown
             PROVE  LET known == fleet.of[id].sight IN
                    health.nodes[id].node
                      = MergeObservations(known.obs, known.record, known.now, CadenceHint(Anew(fleet.of[id])))
  <2>1. ASSUME NEW id \in FleetNodes
        PROVE  Anew(fleet.of[id]).history = HoursOf(fleet.of[id].history)
    BY AnewIs DEF Assessed, FleetIs
  <2> QED
    BY <2>1 DEF RejudgedAsNew, Anew
<1> DEFINE known == fleet.of[id]
           from == known.sight
           before == MergeObservations(from.obs, from.record, from.now, CadenceHint(from))
<1>1. SightIs(from) /\ HistoryIs(known.history)
  BY DEF Assessed, FleetIs
<1>2. health.nodes[id].node = Rejudged(before, known, from.now)
  <2>1. health.nodes[id] = NodeHealth(id, fleet.of, health.metrics, from.now)
    BY NodesAre DEF Assessed
  <2> QED
    BY <2>1 DEF NodeHealth
<1> QED
  BY <1>1, <1>2, JudgedAnew

(* How long a run of hours is, by how many there are of it.                *)
LEMMA RunIs ==
  ASSUME NEW quiet \in SUBSET Int, IsFiniteSet(quiet), NEW t \in quiet, NEW length \in Nat, length > 0
  PROVE  /\ Cardinality(Run(quiet, t)) \in Nat
         /\ t .. (t + length - 1) \subseteq quiet <=> length <= Cardinality(Run(quiet, t))
<1> DEFINE run == Run(quiet, t)
           last == t + length - 1
<1>1. t \in Int /\ last \in Int /\ t <= last
  OBVIOUS
<1>2. run \in SUBSET quiet /\ IsFiniteSet(run)
  <2>1. run \in SUBSET quiet
    BY DEF Run
  <2> HIDE DEF run
  <2> QED
    BY <2>1, FS_Subset
<1>3. Cardinality(run) \in Nat
  <2> HIDE DEF run
  <2> QED
    BY <1>2, FS_CardinalityType
<1>4. \A a, b \in Int : a <= b + 1 => IsFiniteSet(a..b) /\ Cardinality(a..b) = b - a + 1
  <2> TAKE a \in Int, b \in Int
  <2>1. IsFiniteSet(a..b) /\ Cardinality(a..b) = IF a > b THEN 0 ELSE b - a + 1
    BY FS_Interval
  <2> QED
    BY <2>1
<1>5. ASSUME t..last \subseteq quiet  PROVE length <= Cardinality(run)
  <2>1. t..last \in SUBSET run
    <3> SUFFICES ASSUME NEW u \in t..last  PROVE u \in quiet /\ t <= u /\ t..u \subseteq quiet
      BY DEF Run
    <3>1. u \in Int /\ t <= u /\ u <= last
      BY <1>1
    <3>2. t..u \subseteq t..last
      BY <1>1, <3>1
    <3> QED
      BY <1>5, <3>1, <3>2
  <2>2. Cardinality(t..last) = length
    BY <1>1, <1>4
  <2> HIDE DEF run, last
  <2> QED
    BY <1>2, <2>1, <2>2, FS_Subset
<1>6. ASSUME NEW v \in t..last, v \notin quiet  PROVE Cardinality(run) < length
  <2>1. v \in Int /\ t <= v /\ v <= last
    BY <1>1
  <2>2. run \in SUBSET (t..(v - 1))
    <3> SUFFICES ASSUME NEW u \in quiet, t <= u, t..u \subseteq quiet  PROVE u \in t..(v - 1)
      BY DEF Run
    <3>1. u \in Int /\ v \notin t..u
      BY <1>6
    <3> QED
      BY <1>1, <2>1, <3>1
  <2>3. IsFiniteSet(t..(v - 1)) /\ Cardinality(t..(v - 1)) = v - t
    BY <1>1, <1>4, <2>1
  <2>4. Cardinality(run) <= v - t
    <3> DEFINE before == t..(v - 1)
    <3>1. run \in SUBSET before /\ IsFiniteSet(before) /\ Cardinality(before) = v - t
      BY <2>2, <2>3
    <3> HIDE DEF run, before
    <3>2. Cardinality(run) <= Cardinality(before)
      BY <3>1, FS_Subset
    <3> QED
      BY <3>1, <3>2
  <2> HIDE DEF run
  <2> QED
    BY <1>1, <1>3, <2>1, <2>4
<1> HIDE DEF run
<1> QED
  BY <1>1, <1>3, <1>5, <1>6 DEF run

(* The longest silence is a run of quiet hours, and no run is longer.      *)
LEMMA SilenceCovered ==
  ASSUME Assessed
  PROVE  SilenceIsCovered
<1> SUFFICES ASSUME NEW id \in FleetNodes,
                    NEW quiet, quiet = {b.hour : b \in {c \in fleet.of[id].history.hours :
                      c.receptions = 0 /\ health.now - WindowHours <= c.hour /\ c.hour <= health.now}},
                    NEW length \in 1 .. Cardinality(quiet)
             PROVE  (\E t \in quiet : t .. (t + length - 1) \subseteq quiet)
                      <=> length <= health.metrics[id].silence
  BY DEF SilenceIsCovered
<1> DEFINE history == fleet.of[id].history
           now == fleet.of[id].sight.now
           buckets == Window(history, now)
           runs == {Cardinality(Run(quiet, t)) : t \in quiet}
<1>1. health.now = now /\ health.metrics[id].silence = LongestSilence(buckets)
  <2>1. health.now = now /\ health.metrics[id] = ComputeMetrics(id, history, now)
    BY NodesAre DEF Assessed
  <2> QED
    BY <2>1, MetricsAre
<1>2. HistoryIs(history)
  BY DEF Assessed, FleetIs
<1> HIDE DEF history, now
<1>3. quiet = {b.hour : b \in {c \in buckets : c.receptions = 0}}
  BY <1>1 DEF Window, history, now
<1>4. quiet \in SUBSET Int /\ IsFiniteSet(quiet)
  <2> DEFINE silent == {c \in buckets : c.receptions = 0}
             f == [b \in silent |-> b.hour]
  <2>1. silent \in SUBSET history.hours
    BY DEF Window
  <2>2. IsFiniteSet(silent)
    BY <1>2, <2>1, FS_Subset DEF HistoryIs
  <2>3. f \in Surjection(silent, quiet)
    BY <1>3 DEF Surjection
  <2>4. quiet \in SUBSET Int
    BY <1>2, <1>3, <2>1 DEF HistoryIs
  <2> HIDE DEF f, silent
  <2> QED
    BY <2>2, <2>3, <2>4, FS_Surjection
<1>5. quiet # {} /\ length \in Nat /\ length > 0
  BY <1>4, FS_EmptySet
<1>6. health.metrics[id].silence = Max(runs)
  <2> DEFINE hours == {b.hour : b \in {c \in buckets : c.receptions = 0}}
  <2>1. LongestSilence(buckets) = IF hours = {} THEN 0 ELSE Max({Cardinality(Run(hours, t)) : t \in hours})
    BY DEF LongestSilence
  <2>2. hours = quiet
    BY <1>3
  <2> HIDE DEF hours
  <2> QED
    BY <1>1, <1>5, <2>1, <2>2
<1>7. \A t \in quiet : /\ Cardinality(Run(quiet, t)) \in Nat
                       /\ t .. (t + length - 1) \subseteq quiet <=> length <= Cardinality(Run(quiet, t))
  BY <1>4, <1>5, RunIs
<1>8. runs \in SUBSET Int /\ IsFiniteSet(runs) /\ runs # {}
  <2> DEFINE f == [t \in quiet |-> Cardinality(Run(quiet, t))]
  <2>1. f \in Surjection(quiet, runs)
    BY DEF Surjection
  <2>2. runs \in SUBSET Int
    <3> SUFFICES ASSUME NEW t \in quiet  PROVE Cardinality(Run(quiet, t)) \in Int
      OBVIOUS
    <3> QED
      BY <1>7
  <2>3. runs # {}
    BY <1>5
  <2> HIDE DEF f, runs
  <2> QED
    BY <1>4, <2>1, <2>2, <2>3, FS_Surjection
<1>9. Max(runs) \in runs /\ \A n \in runs : n <= Max(runs)
  <2> HIDE DEF runs
  <2> QED
    BY <1>8, Extremes
<1> DEFINE longest == Max(runs)
<1>10. /\ longest \in Nat /\ \A t \in quiet : Cardinality(Run(quiet, t)) <= longest
       /\ \E t \in quiet : longest = Cardinality(Run(quiet, t))
  BY <1>7, <1>9
<1> HIDE DEF longest
<1>11. (\E t \in quiet : length <= Cardinality(Run(quiet, t))) <=> length <= longest
  <2>1. ASSUME NEW t \in quiet, length <= Cardinality(Run(quiet, t))  PROVE length <= longest
    BY <1>5, <1>7, <1>10, <2>1
  <2> QED
    BY <1>10, <2>1
<1> QED
  BY <1>6, <1>7, <1>11 DEF longest

-----------------------------------------------------------------------------
(* Of some reports one is the last.                                        *)
LEMMA LatestIs ==
  ASSUME NEW S, IsFiniteSet(S), S # {}, \A p \in S : p.time \in Int
  PROVE  LET times == {p.time : p \in S} IN
         /\ Max(times) \in Int /\ (\A p \in S : p.time <= Max(times)) /\ \E p \in S : p.time = Max(times)
<1> DEFINE times == {p.time : p \in S}
           f == [p \in S |-> p.time]
<1>1. f \in Surjection(S, times) /\ times \in SUBSET Int /\ times # {}
  BY DEF Surjection
<1>2. IsFiniteSet(times)
  <2> HIDE DEF f, times
  <2> QED
    BY <1>1, FS_Surjection
<1>3. Max(times) \in times /\ \A t \in times : t <= Max(times)
  <2> HIDE DEF times
  <2> QED
    BY <1>1, <1>2, Extremes
<1> QED
  BY <1>1, <1>3

(* The newest of some readings, when they differ in time.                  *)
LEMMA NewestIs ==
  ASSUME NEW S, NEW r \in S, r.level \in Int, \A q \in S : q.time \in Int /\ (q # r => q.time < r.time)
  PROVE  Newest(S) = r
<1> DEFINE P(x) == \A q \in S : q.time < x.time \/ (q.time = x.time /\ q.level <= x.level)
<1>1. P(r)
  OBVIOUS
<1>2. ASSUME NEW x \in S, P(x)  PROVE x = r
  <2>1. r.time < x.time \/ r.time = x.time
    BY <1>2
  <2>2. r.time \in Int /\ x.time \in Int
    OBVIOUS
  <2> QED
    BY <2>1, <2>2
<1>3. Newest(S) = CHOOSE x \in S : P(x)
  BY DEF Newest
<1> HIDE DEF P
<1> QED
  BY <1>1, <1>2, <1>3

(* A report of the battery is not judged by one that is older.             *)
LEMMA BatteryCurrent ==
  ASSUME Assessed
  PROVE  BatteryIsCurrent
<1> DEFINE Fresh(id) == {p \in fleet.of[id].history.telemetry :
             p.battery # Unknown /\ p.battery > 0 /\ health.now - p.time <= BatteryFresh /\ p.time <= health.now}
<1> SUFFICES ASSUME NEW id \in FleetNodes, DOMAIN fleet.of[id].sight.obs = {},
                    NEW p \in Fresh(id), \A q \in Fresh(id) : q.time <= p.time
             PROVE  LET codes == {f.code : f \in health.nodes[id].findings} IN
                    /\ p.battery >= Powered => codes \cap {"battery_low", "battery_draining"} = {}
                    /\ p.battery <= 20 => "battery_low" \in codes
  BY DEF BatteryIsCurrent
<1> DEFINE known == fleet.of[id]
           history == known.history
           from == known.sight
           now == from.now
           metrics == health.metrics[id]
           before == MergeObservations(from.obs, from.record, now, CadenceHint(from))
           node == Rejudged(before, known, now)
           findings == Assess(metrics, node, now)
           points == Points(history, now)
           levels == BatteryLevels(points)
           powered == {q \in points : q.battery # Unknown /\ q.battery >= Powered}
           readings == BatteryReadings(metrics, node)
           horizon == Max({BatteryFresh * HourUnits, node.thresholds.stale})
           fresh == {r \in readings : (now - r.time) * HourUnits <= horizon}
<1>1. SightIs(from) /\ HistoryIs(history) /\ now \in Int
  BY DEF Assessed, FleetIs, SightIs
<1>2. /\ health.now = now /\ metrics = ComputeMetrics(id, history, now)
      /\ health.nodes[id] = NodeHealth(id, fleet.of, health.metrics, now)
  BY NodesAre DEF Assessed
<1>3. health.nodes[id].findings = findings
  BY <1>2 DEF NodeHealth
<1>4. metrics.battery = BatteryTrend(points) /\ metrics.poweredTime = PoweredTime(points)
  BY <1>2, MetricsAre
<1>5. /\ node.battery = Unknown
      /\ \E interval \in Nat : node.thresholds = AvailabilityThresholds(interval)
  <2>1. FirstKnown(from.obs, "battery", ByPriority) = Unknown
    BY DEF FirstKnown
  <2>2. /\ node.battery = FirstKnown(from.obs, "battery", ByPriority)
        /\ \E interval \in Nat : node.thresholds = AvailabilityThresholds(interval)
    BY <1>1, JudgedIs
  <2> QED
    BY <2>1, <2>2
<1> HIDE DEF node, metrics, history, now
<1>6. /\ BatteryFresh \in Nat /\ WindowHours \in Nat /\ BatteryFresh <= WindowHours
      /\ HourUnits \in Nat /\ HourUnits > 0 /\ Unknown \notin Int
  <2>1. BatteryFresh \in Nat /\ WindowHours \in Nat /\ BatteryFresh <= WindowHours
    BY HealthAssumption
  <2>2. HourUnits \in Nat /\ HourUnits > 0 /\ Unknown \notin Int
    BY StatusAssumption
  <2> QED
    BY <2>1, <2>2
<1>7. /\ IsFiniteSet(points) /\ points \in SUBSET history.telemetry
      /\ \A q \in points : q.time \in Int /\ q.time <= now /\ q.battery \in Nat \cup {Unknown}
      /\ \A q, r \in points : q.time = r.time => q = r
  <2>1. points \in SUBSET history.telemetry /\ \A q \in points : q.time <= now
    BY DEF Points
  <2> HIDE DEF points
  <2>2. IsFiniteSet(history.telemetry)
    BY <1>1 DEF HistoryIs
  <2>3. IsFiniteSet(points)
    BY <2>1, <2>2, FS_Subset
  <2>4. \A q \in history.telemetry : /\ q.time \in Int /\ q.battery \in Nat \cup {Unknown}
                                     /\ \A r \in history.telemetry : r.time = q.time => r = q
    BY <1>1 DEF HistoryIs
  <2> QED
    BY <2>1, <2>3, <2>4
<1>8. p \in history.telemetry /\ p.battery # Unknown /\ p.battery > 0 /\ now - p.time <= BatteryFresh /\ p.time <= now
  BY <1>2 DEF history
<1>9. p \in points /\ p.time \in Int /\ p.battery \in Nat
  <2>1. p.time \in Int /\ p.battery \in Nat
    BY <1>1, <1>8 DEF HistoryIs
  <2>2. now - WindowHours <= p.time
    BY <1>1, <1>6, <1>8, <2>1
  <2> QED
    BY <1>8, <2>1, <2>2 DEF Points
<1>10. ASSUME NEW q \in points, q.battery # Unknown, q.battery > 0
       PROVE  q.time <= p.time
  <2>1. q \in history.telemetry /\ q.time \in Int /\ q.time <= now
    BY <1>7
  <2>2. CASE now - q.time <= BatteryFresh
    BY <1>2, <1>10, <2>1, <2>2 DEF history
  <2>3. CASE ~(now - q.time <= BatteryFresh)
    BY <1>1, <1>6, <1>8, <1>9, <2>1, <2>3
  <2> QED
    BY <2>2, <2>3
<1> HIDE DEF points
<1>11. /\ levels = {} => metrics.battery = Unknown
       /\ levels # {} => /\ metrics.battery # Unknown
                         /\ \E q \in levels : /\ metrics.battery.latest = q.battery /\ metrics.battery.time = q.time
                                              /\ \A r \in levels : r.time <= q.time
  <2> DEFINE latest == CHOOSE q \in levels : \A r \in levels : r.time <= q.time
  <2>1. metrics.battery = IF levels = {} THEN Unknown
          ELSE [latest |-> latest.battery, time |-> latest.time, draining |-> Draining(levels)]
    BY <1>4 DEF BatteryTrend
  <2>2. ASSUME levels # {}  PROVE latest \in levels /\ \A r \in levels : r.time <= latest.time
    <3>1. IsFiniteSet(levels) /\ \A q \in levels : q.time \in Int
      BY <1>7, FS_Subset DEF BatteryLevels
    <3>2. \E q \in levels : \A r \in levels : r.time <= q.time
      <4> HIDE DEF levels
      <4>1. /\ Max({q.time : q \in levels}) \in Int
            /\ \A q \in levels : q.time <= Max({r.time : r \in levels})
            /\ \E q \in levels : q.time = Max({r.time : r \in levels})
        BY <2>2, <3>1, LatestIs
      <4> QED
        BY <4>1
    <3> HIDE DEF levels
    <3> QED
      BY <3>2
  <2>3. levels # {} => metrics.battery # Unknown
    <3>1. Draining(levels) \in BOOLEAN
      BY DEF Draining
    <3>2. \A q \in levels : q.battery \in Nat /\ q.time \in Int
      BY <1>7 DEF BatteryLevels
    <3> HIDE DEF levels, latest
    <3>3. levels # {} => metrics.battery \in [latest : Nat, time : Int, draining : BOOLEAN]
      BY <2>1, <2>2, <3>1, <3>2
    <3> QED
      BY <3>3, HealthAssumption
  <2> HIDE DEF levels, latest
  <2> QED
    BY <2>1, <2>2, <2>3
<1>12. /\ powered = {} => metrics.poweredTime = Unknown
       /\ powered # {} => /\ metrics.poweredTime \in Int /\ \E q \in powered : q.time = metrics.poweredTime
                          /\ \A q \in powered : q.time <= metrics.poweredTime
  <2> DEFINE times == {q.time : q \in powered}
  <2>1. metrics.poweredTime = IF times = {} THEN Unknown ELSE Max(times)
    BY <1>4 DEF PoweredTime
  <2>2. powered = {} <=> times = {}
    OBVIOUS
  <2>3. IsFiniteSet(powered) /\ \A q \in powered : q.time \in Int
    BY <1>7, FS_Subset
  <2> HIDE DEF powered
  <2>4. powered # {} => /\ Max(times) \in Int /\ (\A q \in powered : q.time <= Max(times))
                        /\ \E q \in powered : q.time = Max(times)
    BY <2>3, LatestIs
  <2> HIDE DEF times
  <2> QED
    BY <2>1, <2>2, <2>4
<1>13. readings = (IF metrics.battery = Unknown THEN {}
                   ELSE {[time |-> metrics.battery.time, level |-> metrics.battery.latest]})
                  \cup (IF metrics.poweredTime = Unknown THEN {}
                        ELSE {[time |-> metrics.poweredTime, level |-> Powered]})
  BY <1>5 DEF BatteryReadings
<1>14. (now - p.time) * HourUnits <= horizon
  <2>1. PICK interval \in Nat : node.thresholds = AvailabilityThresholds(interval)
    BY <1>5
  <2>2. node.thresholds.stale \in Nat
    <3>1. AvailabilityThresholds(interval).stale \in Nat
      BY ClassIs
    <3> QED
      BY <2>1, <3>1
  <2> DEFINE limit == BatteryFresh * HourUnits
  <2>3. limit \in Int /\ (now - p.time) * HourUnits <= limit /\ (now - p.time) * HourUnits \in Int
    <3>1. \A a, b \in Int : a <= b => a * HourUnits <= b * HourUnits
      BY <1>6
    <3>2. now - p.time \in Int /\ BatteryFresh \in Int
      BY <1>1, <1>6, <1>9
    <3> QED
      BY <1>6, <1>8, <3>1, <3>2
  <2> HIDE DEF limit
  <2>4. Max({limit, node.thresholds.stale}) = IF limit >= node.thresholds.stale THEN limit ELSE node.thresholds.stale
    BY <2>2, <2>3, PairIs
  <2> QED
    BY <2>2, <2>3, <2>4 DEF limit
<1>15. CurrentBattery(metrics, node, now) = IF fresh = {} THEN Unknown ELSE Newest(fresh).level
  BY DEF CurrentBattery
<1>16. \A q \in levels : q \in points /\ q.battery # Unknown /\ q.battery > 0 /\ q.battery < Powered
  BY DEF BatteryLevels
<1> HIDE DEF horizon
<1>17. CASE p.battery >= Powered
  <2> DEFINE plugged == [time |-> p.time, level |-> Powered]
  <2>1. p \in powered /\ metrics.poweredTime = p.time
    <3>1. p \in powered
      BY <1>8, <1>9, <1>17
    <3>2. \A q \in powered : q \in points /\ q.battery # Unknown /\ q.battery > 0
      BY <1>7 DEF Powered
    <3>3. \A q \in powered : q.time <= p.time
      BY <1>10, <3>2
    <3> HIDE DEF powered
    <3>4. PICK q \in powered : q.time = metrics.poweredTime
      BY <1>12, <3>1
    <3>5. metrics.poweredTime \in Int /\ p.time <= metrics.poweredTime /\ metrics.poweredTime <= p.time
      BY <1>12, <3>1, <3>3, <3>4
    <3> QED
      BY <1>9, <3>1, <3>5
  <2>2. \A q \in levels : q.time \in Int /\ q.time < p.time
    <3> SUFFICES ASSUME NEW q \in levels  PROVE q.time \in Int /\ q.time < p.time
      OBVIOUS
    <3>1. q \in points /\ q.battery # Unknown /\ q.battery > 0 /\ q.battery < Powered /\ q.battery \in Nat
      BY <1>7, <1>16
    <3>2. q.time \in Int /\ q.time <= p.time
      BY <1>7, <1>10, <3>1
    <3>3. q # p
      BY <1>9, <1>17, <3>1 DEF Powered
    <3>4. q.time # p.time
      BY <1>7, <1>9, <3>1, <3>3
    <3> QED
      BY <1>9, <3>2, <3>4
  <2> HIDE DEF levels, readings
  <2>3. plugged \in fresh
    <3>1. p.time # Unknown
      BY <1>6, <1>9
    <3>2. plugged \in readings
      BY <1>13, <2>1, <3>1
    <3> QED
      BY <1>14, <3>2
  <2>4. \A r \in fresh : r.time \in Int /\ (r # plugged => r.time < plugged.time)
    <3> SUFFICES ASSUME NEW r \in readings, r # plugged  PROVE r.time \in Int /\ r.time < p.time
      BY <1>9
    <3>1. metrics.battery # Unknown /\ r = [time |-> metrics.battery.time, level |-> metrics.battery.latest]
      BY <1>13, <2>1
    <3>2. \E q \in levels : metrics.battery.time = q.time
      BY <1>11, <3>1
    <3> QED
      BY <2>2, <3>1, <3>2
  <2> HIDE DEF fresh
  <2>5. Newest(fresh) = plugged
    <3>1. plugged.level \in Int
      BY DEF Powered
    <3> HIDE DEF plugged
    <3> QED
      BY <2>3, <2>4, <3>1, NewestIs
  <2>6. CurrentBattery(metrics, node, now) = 101
    BY <1>15, <2>3, <2>5 DEF Powered
  <2>7. BatteryFindings(metrics, node, now) = {}
    <3>1. 101 # Unknown
      BY <1>6
    <3> QED
      BY <2>6, <3>1 DEF BatteryFindings, Powered
  <2>8. \A f \in findings : f.code \notin {"battery_low", "battery_draining"}
    <3> SUFFICES ASSUME NEW f \in findings, f.code \in {"battery_low", "battery_draining"}  PROVE FALSE
      OBVIOUS
    <3>1. f \in BatteryFindings(metrics, node, now)
      BY SilentOnly
    <3> QED
      BY <2>7, <3>1
  <2> QED
    BY <1>3, <1>9, <1>17, <2>8 DEF Powered
<1>18. CASE p.battery <= 20
  <2> DEFINE low == [time |-> p.time, level |-> p.battery]
  <2>1. p \in levels
    BY <1>8, <1>9, <1>18 DEF BatteryLevels, Powered
  <2>2. metrics.battery # Unknown /\ metrics.battery.time = p.time /\ metrics.battery.latest = p.battery
    <3>1. metrics.battery # Unknown
      BY <1>11, <2>1
    <3>2. PICK q \in levels : /\ metrics.battery.latest = q.battery /\ metrics.battery.time = q.time
                               /\ \A r \in levels : r.time <= q.time
      BY <1>11, <2>1
    <3>3. q \in points /\ q.time <= p.time /\ p.time <= q.time /\ q.time \in Int
      BY <1>7, <1>10, <1>16, <2>1, <3>2
    <3>4. q = p
      BY <1>7, <1>9, <3>3
    <3> QED
      BY <3>1, <3>2, <3>4
  <2>3. \A q \in powered : q.time \in Int /\ q.time < p.time
    <3> SUFFICES ASSUME NEW q \in powered  PROVE q.time \in Int /\ q.time < p.time
      OBVIOUS
    <3>1. q \in points /\ q.battery # Unknown /\ q.battery >= Powered /\ q.battery \in Nat
      BY <1>7
    <3>2. q.time \in Int /\ q.time <= p.time
      BY <1>7, <1>10, <3>1 DEF Powered
    <3>3. q # p
      BY <1>9, <1>18, <3>1 DEF Powered
    <3>4. q.time # p.time
      BY <1>7, <1>9, <3>1, <3>3
    <3> QED
      BY <1>9, <3>2, <3>4
  <2> HIDE DEF levels, readings, powered
  <2>4. low \in fresh
    <3>1. low \in readings
      BY <1>13, <2>2
    <3> QED
      BY <1>14, <3>1
  <2>5. \A r \in fresh : r.time \in Int /\ (r # low => r.time < low.time)
    <3> SUFFICES ASSUME NEW r \in readings, r # low  PROVE r.time \in Int /\ r.time < p.time
      BY <1>9
    <3>1. metrics.poweredTime # Unknown /\ r = [time |-> metrics.poweredTime, level |-> Powered]
      BY <1>13, <2>2
    <3>2. \E q \in powered : metrics.poweredTime = q.time
      BY <1>12, <3>1
    <3> QED
      BY <2>3, <3>1, <3>2
  <2> HIDE DEF fresh
  <2>6. Newest(fresh) = low
    <3>1. low.level \in Int
      BY <1>9
    <3> HIDE DEF low
    <3> QED
      BY <2>4, <2>5, <3>1, NewestIs
  <2>7. CurrentBattery(metrics, node, now) = p.battery
    BY <1>15, <2>4, <2>6
  <2>8. \E f \in BatteryFindings(metrics, node, now) : f.code = "battery_low"
    <3>1. ~(p.battery = Unknown \/ p.battery > 20)
      BY <1>8, <1>9, <1>18
    <3> DEFINE severity == IF p.battery <= 10 THEN "crit" ELSE "warn"
    <3>2. Finding("battery_low", severity) \in BatteryFindings(metrics, node, now)
      BY <2>7, <3>1 DEF BatteryFindings
    <3>3. Finding("battery_low", severity).code = "battery_low"
      BY DEF Finding
    <3> QED
      BY <3>2, <3>3
  <2>9. BatteryFindings(metrics, node, now) \subseteq findings
    BY DEF Assess
  <2> QED
    BY <1>3, <1>9, <1>18, <2>8, <2>9 DEF Powered
<1> QED
  BY <1>17, <1>18

-----------------------------------------------------------------------------
(* The only one that uplinks a node is important, and no node depends on   *)
(* two relays.                                                             *)
LEMMA ReliedOn ==
  ASSUME Assessed
  PROVE  ReliedOnIsImportant
<1> DEFINE Rank1(id, role) == RankImportance(id, health.metrics, role, fleet.of[id].regional)
<1>1. ASSUME NEW id \in FleetNodes
      PROVE  \E role : health.nodes[id].importance = Rank1(id, role)
  <2>1. health.nodes[id] = NodeHealth(id, fleet.of, health.metrics, fleet.of[id].sight.now)
    BY NodesAre DEF Assessed
  <2> QED
    BY <2>1 DEF NodeHealth
<1>2. \A id \in FleetNodes : fleet.of[id].regional \in 1..3
  BY DEF Assessed, FleetIs
<1>3. IsFiniteSet(FleetNodes)
  BY HealthAssumption
<1>4. \A id \in FleetNodes : \A role :
        Rank1(id, role).dependents = {m \in FleetNodes \ {id} : DependsOn(health.metrics[m], id)}
  BY DEF RankImportance
<1>5. ASSUME NEW id \in FleetNodes, NEW m \in FleetNodes, id # m, health.metrics[m].gateways = {id},
             health.metrics[m].receptions >= MinReceptions
      PROVE  health.nodes[id].importance.level = 3
  <2>1. PICK role : health.nodes[id].importance = Rank1(id, role)
    BY <1>1
  <2> DEFINE others     == FleetNodes \ {id}
             metrics    == health.metrics
             uplinked   == {n \in others : id \in metrics[n].gateways}
             sole       == {n \in others : metrics[n].receptions >= MinReceptions /\ metrics[n].gateways = {id}}
             dependents == {n \in others : DependsOn(metrics[n], id)}
             gateway    == metrics[id].uplinksItself \/ uplinked # {} \/ metrics[id].checked
             score == (IF gateway THEN 3 ELSE 0) + 3 * Cardinality(sole) + 2 * Cardinality(dependents)
                        + (IF role \in RouterRoles THEN 1 ELSE 0)
             regional == fleet.of[id].regional
  <2>2. Rank1(id, role).level = Max({ScoreLevel(score), regional})
    BY DEF RankImportance
  <2>3. m \in sole /\ gateway
    BY <1>5
  <2>4. IsFiniteSet(sole) /\ IsFiniteSet(dependents)
    <3>1. sole \in SUBSET FleetNodes /\ dependents \in SUBSET FleetNodes
      OBVIOUS
    <3> HIDE DEF sole, dependents
    <3> QED
      BY <1>3, <3>1, FS_Subset
  <2> HIDE DEF sole, dependents, gateway, regional
  <2>5. Cardinality(sole) \in Nat /\ Cardinality(sole) # 0 /\ Cardinality(dependents) \in Nat
    BY <2>3, <2>4, FS_CardinalityType, FS_EmptySet
  <2>6. score >= 5
    BY <2>3, <2>5
  <2> HIDE DEF score
  <2>7. ScoreLevel(score) = 3 /\ regional \in 1..3
    BY <1>2, <2>6 DEF ScoreLevel, regional
  <2>8. Max({3, regional}) = 3
    BY <2>7, PairIs
  <2> QED
    BY <2>1, <2>2, <2>7, <2>8 DEF regional
<1>6. ASSUME NEW id \in FleetNodes, NEW m \in FleetNodes, id # m
      PROVE  health.nodes[id].importance.dependents \cap health.nodes[m].importance.dependents = {}
  <2>1. /\ health.nodes[id].importance.dependents = {n \in FleetNodes \ {id} : DependsOn(health.metrics[n], id)}
        /\ health.nodes[m].importance.dependents = {n \in FleetNodes \ {m} : DependsOn(health.metrics[n], m)}
    BY <1>1, <1>4
  <2>2. \A n : ~(DependsOn(health.metrics[n], id) /\ DependsOn(health.metrics[n], m))
    BY <1>6 DEF DependsOn
  <2> QED
    BY <2>1, <2>2
<1> QED
  BY <1>5, <1>6 DEF ReliedOnIsImportant

(* What airtime allows grows with the speed.                               *)
LEMMA FasterAffords ==
  ASSUME Assessed
  PROVE  FasterAffordsMore
<1> SUFFICES ASSUME NEW id \in FleetNodes, NEW p \in DOMAIN Airtime, NEW q \in DOMAIN Airtime,
                    Airtime[p] <= Airtime[q],
                    IsChatty(health.metrics[id].positions, health.metrics[id].covered, p)
             PROVE  IsChatty(health.metrics[id].positions, health.metrics[id].covered, q)
  BY DEF FasterAffordsMore
<1> DEFINE history == fleet.of[id].history
           buckets == Window(history, fleet.of[id].sight.now)
           packets == health.metrics[id].positions
           covered == health.metrics[id].covered
<1>1. packets = Sum(buckets, Positions) /\ covered = Cardinality(buckets)
  <2>1. health.metrics[id] = ComputeMetrics(id, history, fleet.of[id].sight.now)
    BY NodesAre DEF Assessed
  <2> QED
    BY <2>1, MetricsAre
<1>2. IsFiniteSet(buckets) /\ \A b \in buckets : b.positions \in Nat
  <2>1. HistoryIs(history)
    BY DEF Assessed, FleetIs
  <2>2. buckets \in SUBSET history.hours
    BY DEF Window
  <2> HIDE DEF history, buckets
  <2> QED
    BY <2>1, <2>2, FS_Subset DEF HistoryIs
<1>3. packets \in Nat
  <2> HIDE DEF buckets, packets
  <2> QED
    BY <1>1, <1>2, PositionsCount
<1> HIDE DEF packets, covered
<1>4. Airtime[p] \in Nat /\ Airtime[q] \in Nat /\ ReferenceAirtime \in Nat
  BY HealthAssumption
<1>5. packets * Airtime[p] <= packets * Airtime[q]
  BY <1>3, <1>4
<1>6. covered \in Nat
  <2> HIDE DEF buckets, covered
  <2> QED
    BY <1>1, <1>2, FS_CardinalityType
<1> DEFINE slow == packets * Airtime[p]
           fast == packets * Airtime[q]
           limit == 2 * ReferenceAirtime * covered
           Chatty(airtime) == packets > 6 * covered \/ (packets > covered /\ airtime > limit)
<1>7. slow \in Nat /\ fast \in Nat /\ limit \in Nat
  <2>1. \A a, b \in Nat : a * b \in Nat
    OBVIOUS
  <2> QED
    BY <1>3, <1>4, <1>6, <2>1
<1>8. /\ IsChatty(packets, covered, p) = Chatty(slow)
      /\ IsChatty(packets, covered, q) = Chatty(fast)
  BY DEF IsChatty
<1>9. slow <= fast
  BY <1>5
<1> HIDE DEF slow, fast, limit
<1>10. Chatty(slow) => Chatty(fast)
  BY <1>7, <1>9
<1> HIDE DEF Chatty
<1> QED
  BY <1>8, <1>10 DEF packets, covered

(* A quiet end means nobody is in a critical state, and nobody we have in  *)
(* the database in an unknown one.                                         *)
LEMMA QuietHealth ==
  ASSUME Assessed, ~health.degraded, NEW id \in FleetNodes
  PROVE  /\ health.nodes[id].verdict # "crit"
         /\ health.nodes[id].verdict = "unknown" /\ fleet.fetched => ~health.nodes[id].node.inDatabase
<1>1. health.degraded = ExitsDegraded(health.nodes, fleet.of, fleet.fetched)
  BY DEF Assessed, AssessNodes
<1> QED
  BY <1>1 DEF ExitsDegraded

(* Nothing is said of the fleet but what was assessed.                     *)
Said == FleetIs(fleet.of) /\ (health # Unknown => health = AssessNodes(fleet.of, fleet.fetched))

(* What `mesh health` says agrees with `mesh status`, before and after the *)
(* refresh; its silences, batteries and relays are those of the histories; *)
(* and its quiet end is sound: for any fleet, any histories, any window    *)
(* and any presets.                                                        *)
THEOREM HealthStaysRight == HealthSpec => []HealthIsRight
<1>1. HealthInit => Said
  BY ViewsAssumption DEF HealthInit, HealthStart, Said
<1>2. Said /\ [HealthNext]_healthVars => Said'
  <2> SUFFICES ASSUME Said, [HealthNext]_healthVars  PROVE Said'
    OBVIOUS
  <2>1. CASE HealthNext
    BY <2>1 DEF HealthNext, RunHealth, Said
  <2>2. CASE UNCHANGED healthVars
    BY <2>2 DEF healthVars, Said
  <2> QED
    BY <2>1, <2>2
<1>3. Said => HealthIsRight
  <2> SUFFICES ASSUME Assessed  PROVE HealthIsRight
    BY DEF Said, Assessed, HealthIsRight
  <2>1. AgreesWithStatus /\ RejudgedAsNew /\ SilenceIsCovered
    BY StatusAgrees, AnewAgrees, SilenceCovered
  <2>2. BatteryIsCurrent /\ ReliedOnIsImportant /\ FasterAffordsMore
    BY BatteryCurrent, ReliedOn, FasterAffords
  <2> QED
    BY <2>1, <2>2, QuietHealth DEF HealthIsRight
<1> QED
  BY <1>1, <1>2, <1>3, PTL DEF HealthSpec
=============================================================================
