-------------------------------- MODULE KeyScan --------------------------------
(***************************************************************************)
(* The keys a region's nodes advertise: what refreshes make of the packets *)
(* heard (observe, merge_seen of network/keys.py), where they keep it      *)
(* (network/keystore.py), and what the scan says of it (scan_keys): whose  *)
(* key is in use by two devices, which one moved to another id.            *)
(*                                                                         *)
(* A refresh writes the time of the fetch before the keys, without a lock, *)
(* so the keys of one that ends between are not asked for again.  There is *)
(* one clock; the limits on hours and bytes of keys.json are not reached.  *)
(***************************************************************************)
EXTENDS Integers, Sequences, FiniteSets, SequencesExt

CONSTANTS
  Scanners,   \* processes that refresh the region
  Ids,        \* node ids
  Digests,    \* public keys
  IdsOf,      \* the ids that a key derives: a function from keys
  Ours,       \* of our nodes, the key the database holds
  Histories,  \* what may be heard: sets of adverts, one at a time
  HourLength, \* ticks of an hour
  LastMoment, \* bounds the clock
  MaxFetches, \* bounds the refreshes
  Never       \* no time, no file read

Moments == 0..LastMoment
Advert  == [node : Ids, digest : Digests, time : Moments]

ASSUME KeyScanAssumption ==
  /\ Scanners # {} /\ IdsOf \in [Digests -> SUBSET Ids]
  /\ DOMAIN Ours \subseteq Ids /\ \A n \in DOMAIN Ours : Ours[n] \in Digests
  /\ Histories \subseteq SUBSET Advert /\ Histories # {}
  /\ HourLength \in Nat \ {0} /\ LastMoment \in Nat /\ MaxFetches \in Nat /\ Never \notin Nat

VARIABLES
  moment,
  adverts,   \* everything that is ever heard
  lastFetch, \* state.json
  kept,      \* keys.json: a set of sightings
  stage,     \* the step of each process
  work,      \* what it fetched, when, and the file it read
  fetches,
  missed,    \* for the record: the keys of a refresh were never written
  overwrote    \* that a refresh wrote over what it had not read

scanVars == <<moment, adverts, lastFetch, kept, stage, work, fetches, missed, overwrote>>

-----------------------------------------------------------------------------
(* observe and merge_seen: a sighting of a key under an id *)

Hour(t)    == (t \div HourLength) * HourLength
Least(s)   == CHOOSE x \in s : \A y \in s : x <= y
Greatest(s) == CHOOSE x \in s : \A y \in s : x >= y
Derived(s) == s.node \in IdsOf[s.digest]

Sighting(node, digest, times) ==
  [node |-> node, digest |-> digest, first |-> Least(times), last |-> Greatest(times),
   hours |-> {Hour(t) : t \in times}]

Times(rows, node, digest) == {a.time : a \in {b \in rows : b.node = node /\ b.digest = digest}}

Observe(rows) ==
  {Sighting(k[1], k[2], Times(rows, k[1], k[2])) : k \in {<<a.node, a.digest>> : a \in rows}}

MergeSeen(old, new) ==
  [old EXCEPT !.first = Least({@, new.first}), !.last = Greatest({@, new.last}),
              !.hours = @ \cup new.hours]

SameKey(s, t) == s.node = t.node /\ s.digest = t.digest

(* KeyStore.update *)
Updated(stored, new) ==
  {s \in stored : \A t \in new : ~SameKey(s, t)}
    \cup {t \in new : \A s \in stored : ~SameKey(s, t)}
    \cup {MergeSeen(p[1], p[2]) : p \in {q \in stored \X new : SameKey(q[1], q[2])}}

-----------------------------------------------------------------------------
(* scan_keys *)

(* _within *)
Clipped(s, start) ==
  [s EXCEPT !.first = Greatest({@, start}), !.hours = {h \in @ : h >= Hour(start)}]
InWindow(seen, start) == {Clipped(s, start) : s \in {t \in seen : t.last >= start}}

Finding(kind, severity, digest, nodes) ==
  [kind |-> kind, severity |-> severity, digest |-> digest, nodes |-> nodes]

(* _migrated_to: the full sightings count, not those of the window. *)
MigratedTo(entry, heard) ==
  heard # {} /\ Derived(entry) /\ \A old \in heard : old.last < entry.first

OurKeyFindings(seen, window, mine) ==
  LET heard == {s \in seen : s.node = mine}
  IN {LET full == CHOOSE s \in seen : SameKey(s, e)
      IN IF MigratedTo(full, heard)
         THEN Finding("migration", "info", e.digest, {mine, e.node})
         ELSE Finding("our-key-elsewhere", "critical", e.digest, {mine, e.node}) :
        e \in {w \in window : w.digest = Ours[mine] /\ w.node # mine}}

(* A key heard last before ours was heard first is our old one. *)
OurIdFindings(window, mine) ==
  LET own     == {e \in window : e.node = mine}
      rekeyed == {e.first : e \in {o \in own : o.digest = Ours[mine]}}
      severity == IF mine \in IdsOf[Ours[mine]] THEN "critical" ELSE "warning"
  IN {Finding("our-id-other-key", severity, e.digest, {mine}) :
        e \in {o \in own : o.digest # Ours[mine]
                           /\ (rekeyed = {} \/ o.last >= Least(rekeyed))}}

NodesOf(entries) == {e.node : e \in entries}

(* _concurrent: heard in a common hour, or alternating. *)
Meet(a, b) ==
  /\ a.node # b.node /\ a.first <= b.last /\ b.first <= a.last
  /\ a.hours \cap b.hours # {}

(* As if it were enough never to be heard in one hour. *)
MeetOnly(entries) == \E a, b \in entries : Meet(a, b)

Events(entries) ==
  SetToSortSeq(UNION {{<<h, e.first, e.node>> : h \in e.hours} : e \in entries},
               LAMBDA x, y : x[1] < y[1] \/ (x[1] = y[1] /\ x[2] < y[2]))

Switches(events) == Cardinality({i \in 1..(Len(events) - 1) : events[i][3] # events[i + 1][3]})

Concurrent(entries) ==
  MeetOnly(entries) \/ Switches(Events(entries)) > Cardinality(NodesOf(entries)) - 1

(* _classify *)
Classify(digest, entries) ==
  LET newest  == CHOOSE e \in entries : \A f \in entries : f.first <= e.first
      earlier == {e \in entries : e.node # newest.node}
  IN IF Concurrent(entries) THEN Finding("clone", "critical", digest, NodesOf(entries))
     ELSE IF {e \in entries : Derived(e)} = {newest} /\ \A e \in earlier : e.last < newest.first
     THEN Finding("migration", "info", digest, NodesOf(entries))
     ELSE Finding("handover", "warning", digest, NodesOf(entries))

OurKeys == {Ours[n] : n \in DOMAIN Ours}

SharedFindings(window) ==
  LET of(d) == {e \in window : e.digest = d}
  IN {Classify(d, of(d)) : d \in {e \in Digests \ OurKeys : Cardinality(NodesOf(of(e))) >= 2}}

(* _changed_keys *)
ChangedFindings(window) ==
  LET of(n) == {e \in window : e.node = n}
      newest(n) == CHOOSE e \in of(n) : \A f \in of(n) : f.last <= e.last
      lost(n) == ~Derived(newest(n)) /\ \E e \in of(n) \ {newest(n)} : Derived(e)
  IN {Finding("key-changed", IF lost(n) THEN "critical" ELSE "warning", newest(n).digest, {n}) :
        n \in {m \in Ids \ DOMAIN Ours : Cardinality(of(m)) >= 2}}

Findings(seen, start) ==
  LET window == InWindow(seen, start)
  IN UNION {OurKeyFindings(seen, window, m) \cup OurIdFindings(window, m) : m \in DOMAIN Ours}
       \cup SharedFindings(window) \cup ChangedFindings(window)

-----------------------------------------------------------------------------
(* RegionRefresher._fetch and KeyStore.update *)

Moves(p, label) == stage' = [stage EXCEPT ![p] = label]
NoWork == [rows |-> {}, file |-> Never]

ScanStart(history) ==
  /\ moment = 0 /\ adverts = history /\ lastFetch = Never /\ kept = {}
  /\ stage = [p \in Scanners |-> "idle"] /\ work = [p \in Scanners |-> NoWork]
  /\ fetches = 0 /\ missed = FALSE /\ overwrote = FALSE

ScanInit == \E history \in Histories : ScanStart(history)

(* lorastats answers what it heard since an hour before the last fetch's.  *)
Asks(p) ==
  /\ stage[p] = "idle" /\ fetches < MaxFetches
  /\ LET since == IF lastFetch = Never THEN 0 ELSE Hour(lastFetch) - HourLength
     IN work' = [work EXCEPT ![p].rows =
                   Observe({a \in adverts : since <= a.time /\ a.time <= moment})]
  /\ fetches' = fetches + 1
  /\ lastFetch' = moment
  /\ Moves(p, "stored")
  /\ UNCHANGED <<moment, adverts, kept, missed, overwrote>>

ReadsKeys(p) ==
  /\ stage[p] = "stored"
  /\ IF work[p].rows = {} THEN Moves(p, "idle") /\ work' = work
     ELSE Moves(p, "merging") /\ work' = [work EXCEPT ![p].file = kept]
  /\ UNCHANGED <<moment, adverts, lastFetch, kept, fetches, missed, overwrote>>

WritesKeys(p) ==
  /\ stage[p] = "merging"
  /\ kept' = Updated(work[p].file, work[p].rows)
  /\ overwrote' = (overwrote \/ kept # work[p].file)
  /\ work' = [work EXCEPT ![p] = NoWork] /\ Moves(p, "idle")
  /\ UNCHANGED <<moment, adverts, lastFetch, fetches, missed>>

(* Killed, or the file could not be written. *)
Drops(p) ==
  /\ stage[p] \in {"stored", "merging"}
  /\ work' = [work EXCEPT ![p] = NoWork] /\ Moves(p, "idle")
  /\ missed' = TRUE
  /\ UNCHANGED <<moment, adverts, lastFetch, kept, fetches, overwrote>>

Passes ==
  /\ moment < LastMoment
  /\ moment' = moment + 1
  /\ UNCHANGED <<adverts, lastFetch, kept, stage, work, fetches, missed, overwrote>>

ScanNext ==
  \/ \E p \in Scanners : Asks(p) \/ ReadsKeys(p) \/ WritesKeys(p) \/ Drops(p)
  \/ Passes

ScanSpec == ScanInit /\ [][ScanNext]_scanVars

-----------------------------------------------------------------------------
(* What was heard, against what the scan says. *)

AtRest == lastFetch # Never /\ ~missed /\ \A p \in Scanners : stage[p] = "idle"
Quiet  == AtRest /\ ~overwrote
Heard == {a \in adverts : a.time <= lastFetch}

(* All adverts of one id come before all of the other. *)
Before(rows, d, a, b) == \A s \in Times(rows, a, d), t \in Times(rows, b, d) : s < t
Apart(rows, d, a, b)  == Before(rows, d, a, b) \/ Before(rows, d, b, a)

Kinds(start, d) == {f.kind : f \in {g \in Findings(kept, start) : g.digest = d}}

(* No sighting is ever made up, whatever is lost. *)
SightingsAreHeard ==
  \A s \in kept : \E r \in Observe(Heard) :
    SameKey(r, s) /\ r.first <= s.first /\ s.last <= r.last /\ s.hours \subseteq r.hours

(* Sightings keep no times but the first and the last and the hours, and   *)
(* that is enough: a key heard of two ids in turn within the window is a   *)
(* clone, and one that changed hands once never is.                        *)
ClonesAreFound ==
  Quiet => \A start \in Moments, d \in Digests \ OurKeys :
    LET recent == {a \in Heard : a.time >= start}
    IN /\ (\E a, b \in Ids : a # b /\ ~Apart(recent, d, a, b)) => "clone" \in Kinds(start, d)
       /\ "clone" \in Kinds(start, d) => \E a, b \in Ids : a # b /\ ~Apart(Heard, d, a, b)

(* Our key on another id is critical whatever the window, unless that id   *)
(* is derived from it and ours fell silent before.                         *)
OurKeyIsGuarded ==
  Quiet => \A start \in Moments : \A n \in DOMAIN Ours : \A m \in Ids \ {n} :
    (\E a \in Heard : a.node = m /\ a.digest = Ours[n] /\ a.time >= start) =>
      LET moved == /\ m \in IdsOf[Ours[n]] /\ \E a \in Heard : a.node = n
                   /\ \A a, b \in Heard : a.node = n /\ b.node = m /\ b.digest = Ours[n]
                                            => a.time < b.time
      IN Finding(IF moved THEN "migration" ELSE "our-key-elsewhere",
                 IF moved THEN "info" ELSE "critical", Ours[n], {n, m}) \in Findings(kept, start)

(* Refreshes that do not cross leave of the margins that they hear again   *)
(* what one refresh of everything would have left.                         *)
SightingsAreKept == Quiet => kept = Observe(Heard)

(* Nothing that was heard is lost to two refreshes at once: network/       *)
(* keystore.py says that "two processes both leave their sightings".  One  *)
(* writes over what the other wrote since it read the file, and but for an *)
(* hour's margin nothing of that is asked for again.                       *)
BothLeaveTheirs ==
  AtRest => \A r \in Observe({a \in Heard : a.time < Hour(lastFetch) - HourLength}) :
    \E s \in kept : SameKey(r, s) /\ r.hours \subseteq s.hours

(* The scan says of the keys what was heard of them. *)
ScanIsRight == SightingsAreHeard /\ SightingsAreKept /\ ClonesAreFound /\ OurKeyIsGuarded
=============================================================================
