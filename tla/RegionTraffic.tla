---------------------------- MODULE RegionTraffic ----------------------------
(***************************************************************************)
(* A region's traffic: how refreshes count the rows lorastats returns      *)
(* (network/rawpackets.py, network/buckets.py) hour by hour, and what the  *)
(* views make of the sum (network/relays.py, network/impact.py): how much  *)
(* each relay carries, and who depends on a node or on all of ours.        *)
(*                                                                         *)
(* A row is one gateway's uplink of a packet, which may be encrypted; the  *)
(* others of a packet hold the same payload.  Hour by hour a traffic is a  *)
(* bag: how often each thing was counted.  Radio levels are left out, and  *)
(* module Hours has the retention and the hours in which nothing is heard. *)
(***************************************************************************)
EXTENDS Integers, FiniteSets, FiniteSetsExt, Bags

CONSTANTS
  Stations,     \* nodes
  ByteOf,       \* the relay byte of each
  NoByte,       \* no relay byte; resolved to no node
  Resolved,     \* the node each byte stands for (network/resolve.py)
  OurStations,
  Broadcasts,   \* what may be heard: sets of rows
  Span,         \* SINCE_MARGIN_SECONDS, an hour
  LastTime,     \* bounds the clock
  MaxRefreshes, \* bounds the refreshes
  MinRelayed,   \* MIN_RELAYED
  MinEvents,    \* SOLE_FIRST_HOP_MIN_EVENTS
  MinPackets,   \* ONLY_GATEWAY_MIN_PACKETS
  HighCarried,  \* HIGH_CARRIED and MEDIUM_CARRIED, in percent
  MediumCarried,
  Encrypted,    \* the payload of a row that its gateway could not decode
  Unfetched     \* no time

Bytes == {ByteOf[s] : s \in Stations}
Row   == [origin : Stations, id : Nat, gateway : Stations, time : 0..LastTime,
          relay : Bytes \cup {NoByte}, hops : Nat \cup {NoByte},
          link : {{}, Encrypted} \cup kSubset(2, Stations)]  \* {} tells of no link
SamePacket(r, s) == r.origin = s.origin /\ r.id = s.id

ASSUME RegionTrafficAssumption ==
  /\ NoByte \notin Bytes \cup Stations \cup Nat /\ Unfetched \notin Nat
  /\ OurStations \subseteq Stations /\ \A linked \in SUBSET Stations : Encrypted # linked
  /\ \A broadcast \in Broadcasts :
       /\ broadcast \subseteq Row
       /\ \A r, s \in broadcast : SamePacket(r, s) =>
            /\ r.link = s.link \/ Encrypted \in {r.link, s.link}
            /\ r.gateway = s.gateway /\ r.time = s.time => r = s
  /\ \A b \in Bytes : Resolved[b] = NoByte \/ ByteOf[Resolved[b]] = b
  /\ Span \in Nat \ {0} /\ {LastTime, MaxRefreshes, MinRelayed, MinEvents, MinPackets} \subseteq Nat

VARIABLES
  rows,       \* everything ever heard
  refreshed,  \* when the region was last fetched
  traffic,    \* of each hour, and until when it was asked for
  refreshes

trafficVars == <<rows, refreshed, traffic, refreshes>>

-----------------------------------------------------------------------------
(* parse_raw and _HourBuilder *)

HourFrom(t) == (t \div Span) * Span
HourTimes   == {HourFrom(t) : t \in 0..LastTime}

(* A gateway counts once per packet; lorastats answers oldest first. *)
Receptions(answer) ==
  {r \in answer : ~\E s \in answer : SamePacket(r, s) /\ s.gateway = r.gateway /\ s.time < r.time}
Packets(answer) == {{s \in Receptions(answer) : SamePacket(r, s)} : r \in answer}

StartOf(p) == Min({r.time : r \in p})
IsRelayed(r) == r.relay \notin {NoByte, ByteOf[r.origin]}
IsDirect(r)  == r.relay = ByteOf[r.origin] /\ r.hops \in {0, NoByte}

(* _add_reception *)
CountedOf(r) ==
  IF r.relay = NoByte THEN {<<"unrelayed">>}
  ELSE IF IsRelayed(r)
  THEN {<<"relayed", r.relay, r.gateway>>, <<"last", r.origin, r.relay>>}
         \cup (IF r.hops = 1 THEN {<<"first", r.origin, r.relay>>} ELSE {})
  ELSE IF IsDirect(r) THEN {<<"direct", r.origin, r.gateway>>} ELSE {}

SoleRelay(p) == {b \in Bytes : \A r \in p : IsRelayed(r) /\ r.relay = b}
OnlyGateway(p) == {g \in Stations : \A r \in p : r.gateway = g}

(* add_packet *)
CountedAs(p) ==
  LET o == (CHOOSE r \in p : TRUE).origin
  IN {<<"packets", o>>} \cup {<<"sole", o, b>> : b \in SoleRelay(p)}
       \cup {<<"only", o, g>> : g \in OnlyGateway(p)}

TallyPackets(packets) ==
  LET heard == UNION packets
      things == UNION ({CountedAs(p) : p \in packets} \cup {CountedOf(r) : r \in heard})
  IN [x \in things |-> Cardinality({p \in packets : x \in CountedAs(p)})
                         + Cardinality({r \in heard : x \in CountedOf(r)})]

(* _collect_extras: the payload of a packet is read once, from its first   *)
(* decoded row, and has that row's time.                                   *)
Decoded(p)  == {r \in p : r.link # Encrypted}
ReadFrom(p) == CHOOSE r \in Decoded(p) : \A s \in Decoded(p) : r.time <= s.time
LinksTold(packets) == {ReadFrom(p) : p \in {q \in packets : Decoded(q) # {} /\ ReadFrom(q).link # {}}}

(* add_edge *)
TallyReports(reports) ==
  [x \in {<<"edge", r.link>> : r \in reports} |-> Cardinality({r \in reports : r.link = x[2]})]

-----------------------------------------------------------------------------
(* RegionRefresher._fetch, summarize and merge *)

(* As if the rows of the margin were packets of their own. *)
FirstInTime(p, since) == {r \in p : r.time >= since} # {}
StartsIn(p, since) == StartOf(p) >= since

TrafficStart(broadcast) ==
  /\ rows = broadcast /\ refreshed = Unfetched /\ refreshes = 0
  /\ traffic = [h \in HourTimes |-> [counts |-> EmptyBag, asof |-> Unfetched]]

TrafficInit == \E broadcast \in Broadcasts : TrafficStart(broadcast)

InSpan(h, t) == HourFrom(t) = h
Tally(h, packets, reports) ==
  TallyPackets({p \in packets : InSpan(h, StartOf(p))})
    (+) TallyReports({r \in reports : InSpan(h, r.time)})

Refresh(now) ==
  /\ refreshes < MaxRefreshes /\ (refreshed # Unfetched => now > refreshed)
  /\ LET since   == IF refreshed = Unfetched THEN 0 ELSE HourFrom(refreshed)
         answer  == {r \in rows : since - Span <= r.time /\ r.time <= now}
         packets == {p \in Packets(answer) : StartsIn(p, since)}
         reports == {r \in LinksTold(Packets(answer)) : r.time >= since}
     IN traffic' = [h \in HourTimes |->
                      IF \/ since <= h /\ h <= now
                         \/ \E p \in packets : InSpan(h, StartOf(p))
                      THEN [counts |-> Tally(h, packets, reports), asof |-> now] ELSE traffic[h]]
  /\ refreshed' = now
  /\ refreshes' = refreshes + 1
  /\ UNCHANGED rows

TrafficNext == \E now \in 0..LastTime : Refresh(now)

TrafficSpec == TrafficInit /\ [][TrafficNext]_trafficVars

-----------------------------------------------------------------------------
(* The views *)

(* combine *)
Combined == FoldSet(LAMBDA h, sum : traffic[h].counts (+) sum, EmptyBag, HourTimes)

Count(t, thing)    == CopiesIn(thing, t)
Total(t, things)   == FoldSet(LAMBDA x, n : n + Count(t, x), 0, things)
RelayedVia(t, via) == Total(t, {<<"relayed", b, g>> : b \in via, g \in Stations})
LastVia(t, o, via) == Total(t, {<<"last", o, b>> : b \in via})
AtGateway(t, g, via) == Total(t, {<<"relayed", b, g>> : b \in via})

(* first_hops, and the sole one *)
SoleFirstHop(t, o) ==
  LET direct == Total(t, {<<"direct", o, g>> : g \in Stations})
      firsts(s) == Total(t, {<<"first", o, b>> : b \in {c \in Bytes : Resolved[c] = s}})
      events == direct + Total(t, {<<"first", o, b>> : b \in Bytes})
  IN {s \in Stations : direct = 0 /\ events >= MinEvents /\ 10 * firsts(s) >= 9 * events
                       /\ firsts(s) > 0}

Everyone(t) ==
  {s \in Stations : \/ Count(t, <<"packets", s>>) > 0 \/ LastVia(t, s, Bytes) > 0
                    \/ AtGateway(t, s, Bytes) > 0
                    \/ \E o \in Stations : Count(t, <<"only", o, s>>) > 0}

(* _reliance, _relying: who gets that share through the bytes. *)
Relying(t, via, others, part, whole) ==
  LET judged(all, through) == all >= MinRelayed /\ whole * through >= part * all
  IN {<<"origin", o>> : o \in
        {s \in others : judged(LastVia(t, s, Bytes), LastVia(t, s, via))}}
     \cup {<<"gateway", g>> : g \in
        {s \in others : judged(AtGateway(t, s, Bytes), AtGateway(t, s, via))}}

(* _only_gateway *)
UplinkedBy(t, o, gateways) == Total(t, {<<"only", o, g>> : g \in gateways})
OnlyGatewayFor(t, gateways, others) ==
  {o \in others : LET all == Count(t, <<"packets", o>>)
                  IN all >= MinPackets /\ 2 * UplinkedBy(t, o, gateways) >= all}

(* Over the relayed receptions of the region, in percent. *)
Carries(t, via, percent) ==
  LET all == RelayedVia(t, Bytes)
  IN all > 0 /\ 100 * RelayedVia(t, via) >= percent * all

(* What depends on some nodes together: the packets that the bytes of the  *)
(* nodes relayed alone are credited to the nodes they resolve to.          *)
Impact(t, nodes, others) ==
  LET via == {b \in Bytes : Resolved[b] \in nodes}
  IN [carried |-> RelayedVia(t, via),
      half    |-> Relying(t, via, others, 1, 2),
      most    |-> Relying(t, via, others, 4, 5),
      sole    |-> Total(t, {<<"sole", o, b>> : o \in others, b \in via}),
      only    |-> OnlyGatewayFor(t, nodes, others)]

(* fleet_impact, and node_impact: the others of one of ours are not ours. *)
FleetImpact(t) == Impact(t, OurStations, Everyone(t) \ OurStations)
Others(t, n)   == Everyone(t) \ (IF n \in OurStations THEN OurStations ELSE {n})
NodeImpact(t, n) == Impact(t, {n}, Others(t, n))

(* _level *)
Level(t, n) ==
  LET impact == NodeImpact(t, n)
      via    == {b \in Bytes : Resolved[b] = n}
      first  == {o \in Others(t, n) : n \in SoleFirstHop(t, o)}
  IN IF impact.most # {} \/ impact.only # {} \/ first # {} \/ Carries(t, via, HighCarried)
     THEN "high"
     ELSE IF impact.half # {} \/ Carries(t, via, MediumCarried) THEN "medium"
     ELSE "low"

-----------------------------------------------------------------------------
(* Each hour counts, of every packet first heard in it, once what had been *)
(* heard of it when the hour was last asked for, and every link told in a  *)
(* packet first decoded in it, whatever the margins of the requests repeat *)
(* and wherever a packet straddles two hours.                              *)
CountsAreExact ==
  \A h \in HourTimes : traffic[h].asof # Unfetched =>
    LET packets == Packets({r \in rows : r.time <= traffic[h].asof})
        told(l) == {p \in packets : \E r \in p : /\ r.link = l /\ InSpan(h, r.time)
                                               /\ \A s \in p : s.time < r.time => s.link = Encrypted}
        links == {l \in {r.link : r \in rows} \ {{}, Encrypted} : told(l) # {}}
    IN traffic[h].counts = TallyPackets({p \in packets : InSpan(h, StartOf(p))})
                             (+) [x \in {<<"edge", l>> : l \in links} |-> Cardinality(told(x[2]))]

(* What had been heard of the packets when their hours were last asked     *)
(* for; what is heard of a packet after that is never counted.             *)
Known ==
  {r \in rows : LET h == HourFrom(Min({s.time : s \in {q \in rows : SamePacket(q, r)}}))
                IN traffic[h].asof # Unfetched /\ r.time <= traffic[h].asof}
PacketsOf(nodes) == {p \in Packets(Known) : \A r \in p : r.origin \in nodes}

(* The packets of some nodes of which nothing is heard when others are off *)
(* the air: neither what these uplinked nor what they relayed last is left. *)
Lost(nodes, off) ==
  {p \in PacketsOf(nodes) :
     \A r \in p : r.gateway \in off \/ (IsRelayed(r) /\ Resolved[r.relay] \in off)}

(* An impact never claims a packet that was heard another way, a node is   *)
(* not credited with the byte of another, and what our nodes carry         *)
(* together is what each carries.                                          *)
ImpactIsEarned ==
  refreshed # Unfetched =>
  LET t == Combined
      lost(nodes, off) == Cardinality(Lost(nodes, off))
  IN /\ \A n \in Stations :
          LET impact == NodeImpact(t, n)
          IN /\ impact.sole <= lost(Others(t, n), {n})
             /\ \A o \in impact.only : 2 * lost({o}, {n}) >= Cardinality(PacketsOf({o}))
             /\ Resolved[ByteOf[n]] # n /\ impact.only = {} => Level(t, n) = "low"
     /\ FleetImpact(t).sole <= lost(Stations \ OurStations, OurStations)
     /\ FleetImpact(t).carried =
          FoldSet(LAMBDA n, sum : NodeImpact(t, n).carried + sum, 0, OurStations)

(* The traffic of a region is counted right, and so is what depends on whom. *)
TrafficIsRight == CountsAreExact /\ ImpactIsEarned
=============================================================================
