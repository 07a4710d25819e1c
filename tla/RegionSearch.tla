----------------------------- MODULE RegionSearch -----------------------------
(***************************************************************************)
(* Finding a node's record among lorastats' regions, each of which answers *)
(* only for nodes it has heard (datasources/lorastats.py): the region the  *)
(* memo names first (datasources/region_memo.py), then whether the node is *)
(* known at all, then the others in order until one is fresh.  A node      *)
(* moves, and leaves its old record behind.                                *)
(*                                                                         *)
(* One lookup after another; a request may fail at any point, and another  *)
(* run may change or outlive the memo's entry between two lookups.         *)
(***************************************************************************)
EXTENDS Naturals, Sequences, FiniteSets

CONSTANTS
  RegionOrder, \* the configured or listed regions, in order: two or more
  Nowhere      \* no region, no record

Regions == {RegionOrder[i] : i \in 1..Len(RegionOrder)}

(* A region's record of the node: how long ago it was heard there.         *)
Dates == {"today", "yesterday", "longago", "undated"}

ASSUME RegionSearchAssumption ==
  /\ Nowhere \notin Regions \cup Dates
  /\ RegionOrder \in Seq(Regions) /\ Len(RegionOrder) >= 2
  /\ Cardinality(Regions) = Len(RegionOrder)

VARIABLES
  records,  \* of each region
  memo,     \* the region the node was last found in
  phase,    \* of the lookup
  found,    \* the best record so far and its region
  ahead,    \* the regions still to ask, in order
  asked,    \* how many requests the lookup has made
  outcome   \* of the last lookup, and what it met

searchVars == <<records, memo, phase, found, ahead, asked, outcome>>

-----------------------------------------------------------------------------
Nothing == [region |-> Nowhere, date |-> Nowhere]
At(region) == [region |-> region, date |-> records[region]]

(* _is_stale *)
IsStale(date) == date \in {"yesterday", "longago"}

(* As if the last record won. *)
LastOne(first, second) == IF second = Nothing THEN first ELSE second

(* _fresher: the first on a tie or an unknown time. *)
IsLater(date, than) ==
  \/ date = "today" /\ than \in {"yesterday", "longago"}
  \/ date = "yesterday" /\ than = "longago"
Fresher(first, second) ==
  IF first = Nothing \/ (second # Nothing /\ IsLater(second.date, first.date)) THEN second ELSE first

Better(region) == IF records[region] = Nowhere THEN found ELSE Fresher(found, At(region))

Without(region) ==
  IF region = Nowhere THEN RegionOrder
  ELSE LET at == CHOOSE i \in DOMAIN RegionOrder : RegionOrder[i] = region
       IN [i \in 1..(Len(RegionOrder) - 1) |-> RegionOrder[IF i < at THEN i ELSE i + 1]]
Ended(how) == [found |-> found, how |-> how, from |-> memo]

SearchInit ==
  /\ records = [r \in Regions |-> Nowhere] /\ memo = Nowhere /\ phase = "idle"
  /\ found = Nothing /\ ahead = <<>> /\ asked = 0
  /\ outcome = [found |-> Nothing, how |-> "none", from |-> Nowhere]

(* The node is heard somewhere, or its records age. *)
NodeIsHeard ==
  /\ phase = "idle"
  /\ \E r \in Regions, d \in Dates \cup {Nowhere} : records' = [records EXCEPT ![r] = d]
  /\ outcome' = [outcome EXCEPT !.how = "none"]
  /\ UNCHANGED <<memo, phase, found, ahead, asked>>

(* Another run remembers or forgets, or the entry grows too old. *)
MemoChanges ==
  /\ phase = "idle"
  /\ memo' \in Regions \cup {Nowhere}
  /\ outcome' = [outcome EXCEPT !.how = "none"]
  /\ UNCHANGED <<records, phase, found, ahead, asked>>

(* fetch_node, _search_learning *)
Begin ==
  /\ phase = "idle"
  /\ found' = Nothing /\ asked' = 0
  /\ ahead' = IF memo = Nowhere THEN <<>> ELSE <<memo>>
  /\ phase' = IF memo = Nowhere THEN "status" ELSE "memo"
  /\ outcome' = [found |-> Nothing, how |-> "none", from |-> memo]
  /\ UNCHANGED <<records, memo>>

AskMemo ==
  /\ phase = "memo"
  /\ LET best == Better(memo)
     IN /\ found' = best
        /\ asked' = asked + 1
        /\ IF best # Nothing /\ ~IsStale(best.date)
           THEN /\ phase' = "idle" /\ ahead' = <<>>
                /\ outcome' = [found |-> best, how |-> "memo", from |-> memo]
           ELSE /\ phase' = IF best = Nothing THEN "status" ELSE "others"
                /\ ahead' = IF best = Nothing THEN <<>> ELSE Without(memo)
                /\ outcome' = outcome
  /\ UNCHANGED <<records, memo>>

(* lorastats knows every node that a region has a record of. *)
AskStatus ==
  /\ phase = "status"
  /\ asked' = asked + 1
  /\ \/ phase' = "others" /\ ahead' = Without(memo)
     \/ /\ \A r \in Regions : records[r] = Nowhere
        /\ phase' = "noting" /\ ahead' = <<>>
  /\ UNCHANGED <<records, memo, found, outcome>>

AskNext ==
  /\ phase = "others" /\ ahead # <<>>
  /\ LET region == Head(ahead)
         fresh  == records[region] # Nowhere /\ ~IsStale(records[region])
     IN /\ found' = Better(region)
        /\ ahead' = IF fresh THEN <<>> ELSE Tail(ahead)
        /\ outcome' = IF records[region] = "undated" THEN [outcome EXCEPT !.how = "undated"] ELSE outcome
  /\ asked' = asked + 1
  /\ UNCHANGED <<records, memo, phase>>

(* A request fails: the best record so far is used, if there is one. *)
Fails ==
  /\ phase \in {"memo", "status", "others"} /\ (phase = "others" => ahead # <<>>)
  /\ asked' = asked + 1
  /\ IF found = Nothing
     THEN phase' = "idle" /\ outcome' = Ended("raised")
     ELSE phase' = "noting" /\ outcome' = [outcome EXCEPT !.how = "cut short"]
  /\ ahead' = <<>>
  /\ UNCHANGED <<records, memo, found>>

(* The memo forgets a node it did not find, and follows one that moved. *)
Remembered(region) == region

Note ==
  /\ phase = "noting" \/ (phase = "others" /\ ahead = <<>>)
  /\ memo' = Remembered(found.region)
  /\ phase' = "idle"
  /\ outcome' = [outcome EXCEPT !.found = found, !.how = IF @ = "none" THEN "searched" ELSE @]
  /\ UNCHANGED <<records, found, ahead, asked>>

SearchNext ==
  NodeIsHeard \/ MemoChanges \/ Begin \/ AskMemo \/ AskStatus \/ AskNext \/ Fails \/ Note

SearchSpec == SearchInit /\ [][SearchNext]_searchVars

-----------------------------------------------------------------------------
Searched == phase = "idle" /\ outcome.how \in {"memo", "searched", "undated", "cut short"}
Held == {r \in Regions : records[r] # Nowhere}

(* Whatever the memo says and wherever the node has been, a lookup that is *)
(* not cut short returns a record exactly when a region has one; one that  *)
(* is not stale when there is one, unless a record without a date ended    *)
(* the search; otherwise the latest; and the memo is left naming its       *)
(* region.  It never costs more than a request for each region and one     *)
(* for the status.                                                         *)
SearchIsRight ==
  /\ asked <= 1 + Len(RegionOrder)
  /\ Searched /\ outcome.how # "cut short" =>
       /\ (outcome.found = Nothing) = (Held = {})
       /\ \A r \in Held : records[r] = "today" /\ outcome.how # "undated"
                            => ~IsStale(outcome.found.date)
       /\ \A r \in Held : IsStale(outcome.found.date) => ~IsLater(records[r], outcome.found.date)
                            \/ outcome.how = "undated"
  /\ Searched => memo = outcome.found.region
=============================================================================
