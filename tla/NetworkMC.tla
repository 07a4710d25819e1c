------------------------------- MODULE NetworkMC -------------------------------
(***************************************************************************)
(* The parts of `mesh network` that share nothing but a region, each in    *)
(* behaviours of its own: in a behaviour one part is at work, and nothing  *)
(* has happened in the others.                                             *)
(***************************************************************************)
EXTENDS RelayGraph, RelayMemory, KeyScan, RegionTraffic, RegionList, TLC

CONSTANTS a, b, c, d, e, x, y, g1, g2, p1, p2, i1, i2, i3, k1, k2, n1, n2, n3, bx, by, r1, r2, r3

VARIABLE part

vars == <<part, graphVars, memoryVars, scanVars, trafficVars, searchVars, listVars>>

-----------------------------------------------------------------------------
(* The cuts of the regions of four nodes with at most one report, and the  *)
(* ways of a fifth node in the regions of five where it has two neighbours *)
(* and there are two gateways or more, the least in which a way has to be  *)
(* undone; up to the names of the four.                                    *)
Few == [pair \in Pairs |-> "few"]
NoRegion == [evidence |-> Few, gateways |-> {}, source |-> None]
Linked(links) == [pair \in Pairs |-> IF pair \in links THEN "enough" ELSE "few"]
AmongFour == {pair \in Pairs : e \notin pair}
SomeGateways == {{}, {a}, {a, b}, {a, b, c}, {a, b, c, d}}
Cuts ==
  {[evidence |-> told @@ Linked(links), gateways |-> g, source |-> None] :
     links \in SUBSET AmongFour, g \in SomeGateways,
     told \in {{a, b} :> "few", {a, b} :> "told", {c, d} :> "told"}}
Ways5 ==
  {[evidence |-> Linked(links \cup {{e, n} : n \in near}), gateways |-> g, source |-> e] :
     links \in SUBSET AmongFour, near \in {{a, b}, {a, b, c}, {a, b, c, d}},
     g \in {{a, b}, {b, c}, {c, d}, {a, b, c}, {b, c, d}, {a, b, c, d}}}
SomeInputs == Cuts \cup Ways5

(* At one gateway a byte was heard twice, at the other once or often.      *)
SomeWindows ==
  {[relayed |-> [g \in Gates |-> IF g = g1 THEN 2 ELSE n], heard |-> h, mute |-> m, gap |-> far] :
    n \in {1, 7}, h \in SUBSET Relays, m \in {{}} \cup {{r} : r \in Relays},
    far \in [Relays -> [Gates -> {Nobody, 0, 8}]]}

(* Two keys that both derive one of three ids, ours the id of neither.     *)
SomeIdsOf == (k1 :> {i2}) @@ (k2 :> {i2})
SomeOurs  == (i1 :> k1)
HeardAt(t) == {advert \in Advert : advert.time = t}
SomeHistories ==
  {{s, t, u} : s \in HeardAt(0), t \in HeardAt(2), u \in HeardAt(5)}
    \cup {{s} : s \in HeardAt(3)}

(* Two packets, one of which two gateways hear, across an hour's end, or   *)
(* one gateway twice; each row of it is encrypted or tells of a link.      *)
SomeBytes    == (n1 :> bx) @@ (n2 :> by) @@ (n3 :> by)
SomeResolved == (bx :> n1) @@ (by :> n2)
Uplinks(origins, i, times, relays, hops, links) ==
  {[origin |-> o, id |-> i, gateway |-> g, time |-> t, relay |-> r, hops |-> h, link |-> l] :
     o \in origins, g \in {n1, n2}, t \in times, r \in relays, h \in hops, l \in links}
SomeBroadcasts ==
  {broadcast \in
     {{s, t, u} : s \in Uplinks({n3}, 1, {1}, {bx, by}, {1}, {Encrypted, {n1, n2}}),
                  t \in Uplinks({n3}, 1, {1, 3}, {bx, by, NoByte}, {0, 1}, {Encrypted, {n1, n2}}),
                  u \in Uplinks({n1}, 2, {0, 3}, {bx, by}, {1}, {{n1, n2}})
                          \cup Uplinks({n3}, 2, {0, 3}, {bx, by}, {1}, {{}})} :
     \A r, s \in broadcast :
       SamePacket(r, s) /\ r.gateway = s.gateway /\ r.time = s.time => r = s}

SomeOrder == <<r1, r2, r3>>

Alike == Permutations({p1, p2}) \cup Permutations({x, y})


-----------------------------------------------------------------------------
Init ==
  /\ part \in {"graph", "memory", "keys", "traffic", "search", "list"}
  /\ IF part = "graph" THEN GraphInit ELSE GraphStart(NoRegion)
  /\ IF part = "keys" THEN ScanInit ELSE ScanStart({})
  /\ IF part = "traffic" THEN TrafficInit ELSE TrafficStart({})
  /\ MemoryInit /\ SearchInit /\ ListInit

Next ==
  /\ part' = part
  /\ \/ /\ part = "graph" /\ GraphNext
        /\ UNCHANGED <<memoryVars, scanVars, trafficVars, searchVars, listVars>>
     \/ /\ part = "memory" /\ MemoryNext
        /\ UNCHANGED <<graphVars, scanVars, trafficVars, searchVars, listVars>>
     \/ /\ part = "keys" /\ ScanNext
        /\ UNCHANGED <<graphVars, memoryVars, trafficVars, searchVars, listVars>>
     \/ /\ part = "traffic" /\ TrafficNext
        /\ UNCHANGED <<graphVars, memoryVars, scanVars, searchVars, listVars>>
     \/ /\ part = "search" /\ SearchNext
        /\ UNCHANGED <<graphVars, memoryVars, scanVars, trafficVars, listVars>>
     \/ /\ part = "list" /\ ListNext
        /\ UNCHANGED <<graphVars, memoryVars, scanVars, trafficVars, searchVars>>

Spec == Init /\ [][Next]_vars

-----------------------------------------------------------------------------
(* What `mesh network graph` draws: a cut stands for all that only it      *)
(* holds together, and as many paths as there are share no node.           *)
GraphIsRight == CutsAreExact /\ PathsAreDisjoint

(* What is counted of a region's receptions, keys and packets alike.       *)
CountsAreRight == ScanIsRight /\ TrafficIsRight
=============================================================================
