------------------------------ MODULE RelayMemory ------------------------------
(***************************************************************************)
(* Which node a relay byte stands for (network/resolve.py), and the memory *)
(* of it that every `mesh network` of a region reads and writes without a  *)
(* lock (learned_relays, remember_relays of network/store.py): a run takes *)
(* the time of the last fetch, scores the nodes whose id ends in the byte  *)
(* by the window's receptions, asks the memory when that is ambiguous, and *)
(* remembers what it was sure of as of that fetch.                         *)
(*                                                                         *)
(* There is one byte.  A run may look at any of the windows, as --days and *)
(* --no-fetch let it.  A coverage or a distance is a pair, part and whole. *)
(***************************************************************************)
EXTENDS Integers, FiniteSets, FiniteSetsExt

CONSTANTS
  Runs,        \* the commands at work at once
  Relays,      \* the nodes whose id ends in the byte
  Gates,       \* the gateways
  Windows,     \* what is known of the byte: see Window
  MaxAge,      \* LEARNED_RELAY_MAX_AGE_SECONDS
  CloseDb,     \* RESOLVE_MAX_DISTANCE_DB
  Margin,      \* RESOLVE_DISTANCE_MARGIN_DB
  Measured,    \* RESOLVE_MIN_GATEWAY_RECEPTIONS
  MaxWeight,   \* RESOLVE_MAX_GATEWAY_WEIGHT
  LastTick,    \* bounds the clock
  Nobody       \* no node, no time, no distance

(* The receptions relayed by the byte at each gateway, and of each node    *)
(* heard how far its own direct ones are from those, in dB, Nobody where   *)
(* none were heard; "mute" advertised CLIENT_MUTE.                         *)
Ticks == 0..LastTick
Window == [relayed : [Gates -> Nat], heard : SUBSET Relays, mute : SUBSET Relays,
           gap : [Relays -> [Gates -> Nat \cup {Nobody}]]]

ASSUME RelayMemoryAssumption ==
  /\ Runs # {} /\ Windows # {} /\ Nobody \notin Relays \cup Nat
  /\ Windows \subseteq Window /\ IsFiniteSet(Gates)
  /\ {MaxAge, CloseDb, Margin, Measured, MaxWeight, LastTick} \subseteq Nat /\ Margin > 0

VARIABLES
  tick,
  fetched,   \* state.json: when the region was last fetched, or Nobody
  learned,   \* relays.json: the byte's node and time, or Nobody
  at,        \* the step of each run
  glance,    \* what it holds
  sure,      \* for the record: the nodes resolved high, and as of when
  raced      \* that a run wrote over an entry it had not read

memoryVars == <<tick, fetched, learned, at, glance, sure, raced>>

-----------------------------------------------------------------------------
(* resolve_relays *)

(* relay_candidates and resolve_window *)
Candidates(w) == w.heard \ w.mute

SumOver(h, gates) == FoldSet(LAMBDA g, n : n + h[g], 0, gates)
Relayed(w, gates) == SumOver(w.relayed, gates)

(* _score: the gateways that hear the candidate, or are it. *)
Common(w, c)   == {g \in Gates : w.relayed[g] > 0 /\ (w.gap[c][g] # Nobody \/ g = c)}
Coverage(w, c) == Relayed(w, Common(w, c))
Weighing(w, c) == {g \in Common(w, c) \ {c} : w.gap[c][g] # Nobody /\ w.relayed[g] >= Measured}
Weight(w, g)   == IF w.relayed[g] < MaxWeight THEN w.relayed[g] ELSE MaxWeight
Weights(w, c)  == SumOver([g \in Weighing(w, c) |-> Weight(w, g)], Weighing(w, c))
Weighted(w, c) ==
  SumOver([g \in Weighing(w, c) |-> Weight(w, g) * w.gap[c][g]], Weighing(w, c))

HasDistance(w, c) == Weights(w, c) > 0
Covers(w, c)      == 2 * Coverage(w, c) >= Relayed(w, Gates)
IsClose(w, c)     == HasDistance(w, c) /\ Weighted(w, c) <= CloseDb * Weights(w, c)

(* The distance of c is at least that of b and d more. *)
Farther(w, c, b, d) ==
  Weighted(w, c) * Weights(w, b) >= (Weighted(w, b) + d * Weights(w, b)) * Weights(w, c)

(* _rank, but for the order of the names: b comes not after c. *)
NotAfter(w, b, c) ==
  LET sameSide == Covers(w, b) = Covers(w, c)
      nearer   == IF HasDistance(w, b) /\ HasDistance(w, c) THEN Farther(w, c, b, 0)
                  ELSE HasDistance(w, b) \/ ~HasDistance(w, c)
      equal    == IF HasDistance(w, b) /\ HasDistance(w, c)
                  THEN Farther(w, c, b, 0) /\ Farther(w, b, c, 0)
                  ELSE HasDistance(w, b) = HasDistance(w, c)
  IN IF sameSide THEN nearer /\ (equal => Coverage(w, b) >= Coverage(w, c))
     ELSE Covers(w, b)

Firsts(w) == {b \in Candidates(w) : \A c \in Candidates(w) : NotAfter(w, b, c)}

(* _outclassed *)
Outclassed(w, c, b) ==
  \/ 3 * Coverage(w, c) < Coverage(w, b)
  \/ HasDistance(w, c) /\ HasDistance(w, b) /\ Farther(w, c, b, Margin)

(* _label *)
Label(w, b) ==
  LET others == Candidates(w) \ {b}
      alone  == \A c \in others : 3 * Coverage(w, c) < Coverage(w, b)
  IN IF Covers(w, b) /\ IsClose(w, b) /\ \A c \in others : Outclassed(w, c, b) THEN "high"
     ELSE IF others = {} /\ (~HasDistance(w, b) \/ IsClose(w, b)) THEN "medium"
     ELSE IF Covers(w, b) /\ alone /\ ~HasDistance(w, b) THEN "medium"
     ELSE "ambiguous"

(* What the receptions of a window say, ranked first or not: and who else  *)
(* would be named if it were ranked first.                                 *)
Verdict(w, b) ==
  [confidence |-> Label(w, b), node |-> IF Label(w, b) = "ambiguous" THEN Nobody ELSE b,
   candidates |-> Candidates(w),
   rivals |-> {c \in Candidates(w) \ {b} : Label(w, c) # "ambiguous"}]

NoCandidate == [confidence |-> "unknown", node |-> Nobody, candidates |-> {},
                rivals |-> {}]

Verdicts ==
  UNION {IF Candidates(w) = {} THEN {NoCandidate} ELSE {Verdict(w, b) : b \in Firsts(w)} :
           w \in Windows}

(* _resolve: an ambiguous byte may have been learned. *)
Resolve(verdict, prior) ==
  IF verdict.confidence = "ambiguous" /\ prior # Nobody /\ prior.node \in verdict.candidates
  THEN [confidence |-> "medium", node |-> prior.node, learned |-> prior.time]
  ELSE [confidence |-> verdict.confidence, node |-> verdict.node, learned |-> Nobody]

-----------------------------------------------------------------------------
(* The memory *)

(* learned_relays *)
Current == IF learned # Nobody /\ tick - learned.time > MaxAge THEN Nobody ELSE learned

Step(r, label) == at' = [at EXCEPT ![r] = label]
NoView == [seen |-> Nobody, prior |-> Nobody, result |-> Nobody, named |-> FALSE]

MemoryInit ==
  /\ tick = 0 /\ fetched = Nobody /\ learned = Nobody /\ sure = {} /\ raced = FALSE
  /\ at = [r \in Runs |-> "out"] /\ glance = [r \in Runs |-> NoView]

(* A refresh, of this run or of another. *)
Fetch ==
  /\ fetched # tick
  /\ fetched' = tick
  /\ UNCHANGED <<tick, learned, at, glance, sure, raced>>

(* _region of network/report.py *)
Look(r) ==
  /\ at[r] = "out"
  /\ glance' = [glance EXCEPT ![r] = [NoView EXCEPT !.seen = fetched]]
  /\ Step(r, "seen")
  /\ UNCHANGED <<tick, fetched, learned, sure, raced>>

(* The window's receptions and the memory are read after the fetch time.   *)
ResolveWindow(r) ==
  /\ at[r] = "seen"
  /\ \E verdict \in Verdicts :
       LET result == Resolve(verdict, Current)
       IN /\ glance' = [glance EXCEPT ![r].result = result,
                                 ![r].named = result.node \in verdict.candidates]
          /\ sure' = IF result.confidence = "high" /\ glance[r].seen # Nobody
                     THEN sure \cup {[node |-> result.node, time |-> glance[r].seen]} ELSE sure
  /\ Step(r, "resolved")
  /\ UNCHANGED <<tick, fetched, learned, raced>>

(* As if whatever names a node were remembered. *)
Named(result) == result.node # Nobody
IsSure(result) == result.confidence = "high"

Done(r) == Step(r, "out") /\ glance' = [glance EXCEPT ![r] = NoView]

(* As if an entry were replaced by that of another fetch. *)
IsAnother(seen) == Current # Nobody => Current.time # seen
IsNewer(seen)   == Current # Nobody => Current.time < seen

(* remember_relays: what is newer stays, and an unchanged memory is not    *)
(* written.                                                                *)
Recall(r) ==
  /\ at[r] = "resolved"
  /\ LET seen == glance[r].seen
     IN IF seen # Nobody /\ IsSure(glance[r].result) /\ IsNewer(seen)
        THEN /\ glance' = [glance EXCEPT ![r].prior = learned]
             /\ Step(r, "writing")
        ELSE Done(r)
  /\ UNCHANGED <<tick, fetched, learned, sure, raced>>

Remember(r) ==
  /\ at[r] = "writing"
  /\ learned' = [node |-> glance[r].result.node, time |-> glance[r].seen]
  /\ raced' = (raced \/ learned # glance[r].prior)
  /\ Done(r)
  /\ UNCHANGED <<tick, fetched, sure>>

RememberFails(r) ==
  /\ at[r] = "writing"
  /\ Done(r)
  /\ UNCHANGED <<tick, fetched, learned, sure, raced>>

Pass ==
  /\ tick < LastTick
  /\ tick' = tick + 1
  /\ UNCHANGED <<fetched, learned, at, glance, sure, raced>>

MemoryNext ==
  \/ \E r \in Runs : \/ Look(r) \/ ResolveWindow(r) \/ Recall(r)
                     \/ Remember(r) \/ RememberFails(r)
  \/ Fetch \/ Pass

MemorySpec == MemoryInit /\ [][MemoryNext]_memoryVars

-----------------------------------------------------------------------------
(* What is remembered was once resolved high from receptions alone, by a   *)
(* run that had seen the region fetched then: neither a byte named from    *)
(* the memory nor a second look at old data ever renews the memory.        *)
MemoryHasEvidence == learned # Nobody => learned \in sure

(* A byte is named only for a node heard in the window that did not say it *)
(* repeats nothing, and from the memory only within its age.               *)
NamedIsHeard ==
  \A r \in Runs : LET found == glance[r].result IN
    found # Nobody /\ found.node # Nobody =>
      /\ glance[r].named
      /\ found.learned # Nobody => [node |-> found.node, time |-> found.learned] \in sure

(* A high resolution leaves no choice: no other candidate, ranked first,   *)
(* would be named from the same receptions.                                *)
HighIsSole == \A v \in Verdicts : v.confidence = "high" => v.rivals = {}

(* No node is credited with traffic by mistake. *)
RelaysAreCredited == MemoryHasEvidence /\ NamedIsHeard /\ HighIsSole

(* An entry within its age is never replaced by an older one, unless a run *)
(* wrote over an entry written after it had read the memory.               *)
KeepsTheNewer ==
  [][Current # Nobody /\ learned' # Nobody /\ ~raced' => learned'.time >= learned.time]_memoryVars

(* What the memory of relays says: a relay is credited with what it        *)
(* certainly relayed, and a newer sight is not lost to an older one.       *)
RelaysAreRight == []RelaysAreCredited /\ KeepsTheNewer
=============================================================================
