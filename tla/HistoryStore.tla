----------------------------- MODULE HistoryStore -----------------------------
(***************************************************************************)
(* Each node's history in one file (health/store.py), as health/refresh.py *)
(* fills it: a command takes its nodes one after the other; one that is    *)
(* due is asked for, its file is read again, the hours are merged into it  *)
(* and it is replaced, and the sweep deletes files beyond the bounds, but  *)
(* none of the nodes this command refreshes.  There is no lock.            *)
(*                                                                         *)
(* Unlike the network store a file holds the hours and the time of the     *)
(* last refresh.  A file's size is one more than the number of its hours;  *)
(* the series kept beside the hours follow them.  What is heard is the     *)
(* same for all nodes.                                                     *)
(***************************************************************************)
EXTENDS Hours

CONSTANTS
  Procs,        \* mesh commands
  Nodes,
  Fleets,       \* what a command may refresh: sets of nodes
  Traffics,     \* when something may be heard: a few sets of times
  Interval,     \* REFRESH_INTERVAL_SECONDS, or another
  FileMax,      \* HISTORY_MAX_FILE_BYTES
  MaxNodes,     \* HISTORY_MAX_NODES
  Spare,        \* HISTORY_SPARE_NODES
  TotalMax,     \* HISTORY_MAX_TOTAL_BYTES
  MaxRefreshes, \* bounds the refreshes
  MaxFaults     \* bounds the kinds of faults of one run

ASSUME HistoryStoreAssumption ==
  /\ Procs # {} /\ Nodes # {} /\ IsFiniteSet(Nodes) /\ Fleets \subseteq SUBSET Nodes
  /\ Traffics \subseteq SUBSET Time /\ Traffics # {}
  /\ {Interval, FileMax, MaxNodes, Spare, TotalMax, MaxRefreshes, MaxFaults} \subseteq Nat

VARIABLES
  clock,
  traffic,    \* when something is heard
  gone,       \* lorastats deleted what was heard before this hour
  file,       \* each node's file, or None: hours, refreshed when, written when
  pc,         \* the step of each command
  job,        \* its work, or None
  refreshes,  \* how many updates were begun
  newest,     \* for the record: the last time any written hour was asked for
  excused,    \* the hours lorastats did not answer
  dropped,    \* the hours that a bound of the store took
  overlapped, \* the hours that had begun when an update of a node began while
              \* another had yet to write its file
  wrote,      \* the nodes a command wrote, but for those another deleted
  faults      \* what failed so far

vars == <<clock, traffic, gone, file, pc, job, refreshes, newest, excused, dropped, overlapped,
          wrote, faults>>
world  == <<clock, traffic, gone>>
record == <<newest, excused, dropped, overlapped>>

heard == {t \in traffic : t <= clock}
Goto(p, label) == pc' = [pc EXCEPT ![p] = label]
MayFail == Cardinality(faults) < MaxFaults
MaxOf(a, b) == IF a > b THEN a ELSE b

SizeOf(hours) == 1 + Cardinality(Stored(hours))
FilesThere    == {n \in Nodes : file[n] # None}
TotalSize(ns) == Cardinality(ns) + Cardinality(UNION {
                   {<<n, h>> : h \in Stored(file[n].hours)} : n \in ns})

NoWork(fleet) ==
  [fleet |-> fleet, left |-> fleet, node |-> None, at |-> None, now |-> None,
   new |-> NoHours, read |-> None, doomed |-> {}]

Init ==
  /\ clock = 0 /\ traffic \in Traffics /\ gone = 0 /\ refreshes = 0 /\ faults = {}
  /\ file = [n \in Nodes |-> None]
  /\ pc = [p \in Procs |-> "idle"] /\ job = [p \in Procs |-> None]
  /\ newest = [n \in Nodes |-> NoHours]
  /\ excused = [n \in Nodes |-> {}]
  /\ dropped = [n \in Nodes |-> {}] /\ overlapped = [n \in Nodes |-> {}]
  /\ wrote = [p \in Procs |-> {}]

-----------------------------------------------------------------------------
(* HealthRefresher.refresh *)

Start(p) ==
  /\ pc[p] = "idle" /\ refreshes < MaxRefreshes
  /\ \E fleet \in Fleets : job' = [job EXCEPT ![p] = NoWork(fleet)]
  /\ Goto(p, "next")
  /\ UNCHANGED <<world, file, refreshes, record, wrote, faults>>

FetchedAt(n) == IF file[n] = None THEN None ELSE file[n].fetched
Due(n) == FetchedAt(n) # None => clock - FetchedAt(n) >= Interval

(* What a command has in hand for a node is not in its file yet. *)
Writing(p)   == pc[p] \in {"answered", "merging"}
InRefresh(n) == \E p \in Procs : Writing(p) /\ job[p].node = n

Overlap(n) == overlapped' = [overlapped EXCEPT ![n] =
                @ \cup {h \in HourStarts : InRefresh(n) /\ h <= clock}]

(* _fetch; the request is answered at once, stored later. *)
Ask(p) ==
  /\ pc[p] = "next" /\ refreshes < MaxRefreshes
  /\ \E n \in job[p].left :
       LET since == Since(FetchedAt(n), clock)
           new   == Summarize(Answer(heard, gone, Asked(since)), since, clock)
       IN /\ Due(n)
          /\ job' = [job EXCEPT ![p].left = @ \ {n}, ![p].node = n,
                                ![p].at = clock, ![p].new = new]
          /\ excused' = [excused EXCEPT ![n] = @ \cup
               {h \in HourStarts \ Stored(new) :
                  h <= FloorHour(clock) /\ (since = None \/ h >= since)}]
          /\ Overlap(n)
  /\ refreshes' = refreshes + 1
  /\ Goto(p, "answered")
  /\ UNCHANGED <<world, file, newest, dropped, wrote, faults>>

(* A boot time or a gateway check is recorded without asking. *)
Note(p) ==
  /\ pc[p] = "next" /\ refreshes < MaxRefreshes
  /\ \E n \in job[p].left :
       /\ job' = [job EXCEPT ![p].left = @ \ {n}, ![p].node = n]
       /\ Overlap(n)
  /\ refreshes' = refreshes + 1
  /\ Goto(p, "answered")
  /\ UNCHANGED <<world, file, newest, excused, dropped, wrote, faults>>

(* The nodes left are not due, have no region, or their requests failed -  *)
(* all that follow when lorastats is down: none of that changes a file.    *)
Finish(p) ==
  /\ pc[p] = "next"
  /\ Goto(p, "idle")
  /\ job' = [job EXCEPT ![p] = None] /\ wrote' = [wrote EXCEPT ![p] = {}]
  /\ UNCHANGED <<world, file, refreshes, record, faults>>

-----------------------------------------------------------------------------
(* HistoryStore.update *)

Loaded(n) == IF file[n] = None THEN [hours |-> NoHours, fetched |-> None]
             ELSE [hours |-> Prune(file[n].hours, clock), fetched |-> file[n].fetched]

ReadFile(p) ==
  /\ pc[p] = "answered"
  /\ job' = [job EXCEPT ![p].now = clock, ![p].read = Loaded(job[p].node)]
  /\ Goto(p, "merging")
  /\ UNCHANGED <<world, file, refreshes, record, wrote, faults>>

(* Without HISTORY_MAX_FILE_BYTES. *)
Whole(hours) == hours

(* _drop_oldest_day, as often as it takes. *)
Fitting(hours) ==
  LET n == CHOOSE k \in 0..Cardinality(HourStarts) :
             /\ SizeOf(DropOldest(hours, k * DayHours)) <= FileMax \/ k = Cardinality(HourStarts)
             /\ \A j \in 0..(k - 1) : SizeOf(DropOldest(hours, j * DayHours)) > FileMax
  IN DropOldest(hours, n * DayHours)

Updated(p) == Prune(Merge(job[p].read.hours, job[p].new), job[p].now)

(* The nodes whose files this command's sweep leaves alone. *)
JustThisOne(p) == {job[p].node}
Keep(p) == job[p].fleet \cup {job[p].node}

Swept(p) ==
  /\ Goto(p, "listing")
  /\ job' = [job EXCEPT ![p].at = None, ![p].new = NoHours, ![p].read = None]

WriteFile(p) ==
  /\ pc[p] = "merging"
  /\ LET n == job[p].node
         updated == Updated(p)
         fitting == Fitting(updated)
     IN /\ file' = [file EXCEPT ![n] =
              [hours |-> fitting, fetched |-> Later(job[p].read.fetched, job[p].at),
               written |-> clock]]
        /\ newest' = [newest EXCEPT ![n] =
              [h \in HourStarts |-> IF h \in Stored(updated)
                                    THEN Later(@[h], updated[h].asof) ELSE @[h]]]
        /\ dropped' = [dropped EXCEPT ![n] = (@ \cup Stored(updated)) \ Stored(fitting)]
        /\ wrote' = [wrote EXCEPT ![p] = @ \cup {n}]
  /\ Swept(p)
  /\ UNCHANGED <<world, refreshes, excused, overlapped, faults>>

WriteFails(p) ==
  /\ pc[p] = "merging" /\ MayFail
  /\ faults' = faults \cup {"write"}
  /\ Swept(p)
  /\ UNCHANGED <<world, file, refreshes, record, wrote>>

-----------------------------------------------------------------------------
(* _sweep: the files that are not kept, the least recently written first,  *)
(* files written at the same time in any order.                            *)
Orders(ns) ==
  {o \in [ns -> 1..Cardinality(ns)] :
     \A m, n \in ns : /\ m # n => o[m] # o[n]
                      /\ file[m].written < file[n].written => o[m] < o[n]}

Cap(p) == MaxOf(MaxNodes, Cardinality(Keep(p)) + Spare)

Doomed(p, order) ==
  {n \in DOMAIN order :
     LET before == {m \in DOMAIN order : order[m] < order[n]}
     IN \/ file[n].written < job[p].now - Retention
        \/ Cardinality(FilesThere) - Cardinality(before) > Cap(p)
        \/ TotalSize(FilesThere) - TotalSize(before) > TotalMax}

ListFiles(p) ==
  /\ pc[p] = "listing"
  /\ \E order \in Orders(FilesThere \ Keep(p)) :
       job' = [job EXCEPT ![p].doomed = Doomed(p, order)]
  /\ Goto(p, "sweeping")
  /\ UNCHANGED <<world, file, refreshes, record, wrote, faults>>

Sweep(p) ==
  /\ pc[p] = "sweeping"
  /\ file' = [n \in Nodes |-> IF n \in job[p].doomed THEN None ELSE file[n]]
  /\ dropped' = [n \in Nodes |-> dropped[n] \cup
       {h \in HourStarts : n \in job[p].doomed \cap FilesThere /\ file[n].hours[h] # None}]
  /\ wrote' = [q \in Procs |-> IF q = p THEN wrote[q] ELSE wrote[q] \ job[p].doomed]
  /\ Goto(p, "next")
  /\ job' = [job EXCEPT ![p] = [NoWork(@.fleet) EXCEPT !.left = job[p].left]]
  /\ UNCHANGED <<world, refreshes, newest, excused, overlapped, faults>>

-----------------------------------------------------------------------------
Kill(p) ==
  /\ pc[p] \in {"merging", "listing", "sweeping"} /\ MayFail
  /\ Goto(p, "idle")
  /\ job' = [job EXCEPT ![p] = None] /\ wrote' = [wrote EXCEPT ![p] = {}]
  /\ faults' = faults \cup {"kill"}
  /\ UNCHANGED <<world, file, refreshes, record>>

Tick ==
  /\ clock < MaxTime
  /\ clock' = clock + 1
  /\ UNCHANGED <<traffic, gone, file, pc, job, refreshes, record, wrote, faults>>

(* lorastats deletes its oldest hours, those of the assumed retention not. *)
Forget ==
  /\ gone <= clock - Assumed
  /\ gone' = gone + HourTicks
  /\ UNCHANGED <<clock, traffic, file, pc, job, refreshes, record, wrote, faults>>

Next ==
  \/ \E p \in Procs :
       \/ Start(p) \/ Ask(p) \/ Note(p) \/ Finish(p)
       \/ ReadFile(p) \/ WriteFile(p) \/ WriteFails(p)
       \/ ListFiles(p) \/ Sweep(p) \/ Kill(p)
  \/ Tick \/ Forget

Spec == Init /\ [][Next]_vars

-----------------------------------------------------------------------------
Moment    == Time \cup {None}
History   == [hours : HoursType, fetched : Moment, written : Time]
JobType ==
  [fleet : Fleets, left : SUBSET Nodes, node : Nodes \cup {None}, at : Moment, now : Moment,
   new : HoursType, read : [hours : HoursType, fetched : Moment] \cup {None},
   doomed : SUBSET Nodes]
Steps == {"idle", "next", "answered", "merging", "listing", "sweeping"}
ASSUME NoneAssumption == None \notin JobType \cup History

TypeOK ==
  /\ clock \in Time /\ traffic \in Traffics /\ gone \in Nat
  /\ refreshes \in 0..MaxRefreshes /\ faults \subseteq {"write", "kill"}
  /\ file \in [Nodes -> History \cup {None}]
  /\ pc \in [Procs -> Steps] /\ job \in [Procs -> JobType \cup {None}]
  /\ \A p \in Procs : pc[p] = "idle" <=> job[p] = None
  /\ newest \in [Nodes -> [HourStarts -> Moment]]
  /\ excused \in [Nodes -> SUBSET HourStarts]
  /\ dropped \in [Nodes -> SUBSET HourStarts]
  /\ overlapped \in [Nodes -> SUBSET HourStarts]
  /\ wrote \in [Procs -> SUBSET Nodes]

(* Whatever the commands do at once, a stored hour holds what was heard in *)
(* it until it was asked for; an hour is stored as silent only when        *)
(* lorastats still held it (answered_hours).                               *)
StoredIsTrue == \A n \in FilesThere : IsTrue(file[n].hours, heard)

(* An hour within the retention that no refresh will ask for again, and    *)
(* that was answered: it is stored as a whole, unless a bound of the store *)
(* has taken it.  So it is as long as one update of the node comes after   *)
(* the other.  An hour that had begun when two ran at once was written as  *)
(* a whole by one of them; what the other left of it is another matter:    *)
(* see BothLeaveAll.                                                       *)
Settled(n, h) ==
  /\ file[n].fetched # None /\ h < FloorHour(file[n].fetched) /\ InRetention(h, clock)
  /\ h \notin excused[n]

WholeOrDropped(n, h) ==
  IF file[n].hours[h] = None THEN h \in dropped[n] ELSE Complete(h, file[n].hours[h])

WrittenWhole(n, h) == newest[n][h] # None /\ newest[n][h] >= h + HourTicks

SettledIsComplete ==
  \A n \in FilesThere, h \in HourStarts :
    Settled(n, h) => \/ WholeOrDropped(n, h)
                     \/ h \in overlapped[n] /\ WrittenWhole(n, h)

(* What the module of the store says of itself: "two processes refreshing  *)
(* the same node at once both leave a complete history; at worst one       *)
(* refresh's data is fetched again".  When all are done, an hour may still *)
(* be half counted or not counted at all: a refresh replaces what is       *)
(* stored of its hours, or writes the file as it read it, also when        *)
(* another has stored since what it asked for later, and the newer of the  *)
(* two fetches is recorded, so that nobody asks for the hour again.        *)
BothLeaveAll ==
  (\A p \in Procs : pc[p] = "idle") =>
    \A n \in FilesThere, h \in HourStarts : Settled(n, h) => WholeOrDropped(n, h)

(* The stored hours are what was heard: nothing else, and nothing missing  *)
(* that nobody will ask for again; and everything has its type.            *)
HoursAreRight == TypeOK /\ StoredIsTrue /\ SettledIsComplete

(* A fleet larger than the cap keeps every history: what a command wrote   *)
(* stays at least until it ends, unless another command deletes it.        *)
FleetIsKept == \A p \in Procs : wrote[p] \subseteq FilesThere

(* When no command is at work and none was killed, the files are no more   *)
(* than the cap of the largest fleet, and take no more than the total      *)
(* unless those of one fleet need it.                                      *)
QuietMeansBounded ==
  "kill" \notin faults /\ (\A p \in Procs : pc[p] = "idle") =>
    /\ \/ Cardinality(FilesThere) <= MaxNodes
       \/ \E fleet \in Fleets : Cardinality(FilesThere) <= Cardinality(fleet) + Spare
    /\ \/ TotalSize(FilesThere) <= TotalMax
       \/ \E fleet \in Fleets : FilesThere \subseteq fleet

(* No file is larger than the largest that is read, as long as that has    *)
(* room for the rest of a history.                                         *)
FilesFit == \A n \in FilesThere : SizeOf(file[n].hours) <= MaxOf(FileMax, 1)

(* The sweeps delete enough, and never a history that was just written.    *)
SweepsAreRight == FilesFit /\ FleetIsKept /\ QuietMeansBounded
=============================================================================
