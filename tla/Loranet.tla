-------------------------------- MODULE Loranet --------------------------------
(***************************************************************************)
(* The dump of all nodes that loranet publishes, as the commands read it   *)
(* (datasources/loranet.py, base.py, the coercions of models.py): through  *)
(* the HTTP cache, once per source object, every entry parsed on its own.  *)
(* `mesh status` makes a source for each poll and forces only the first,   *)
(* `mesh network` asks one source for nodes, then for neighbour lists, and *)
(* `mesh adopt` reads every entry.                                         *)
(*                                                                         *)
(* A field is Missing, Garbled or a number; what type it should have had,  *)
(* text coercion and fields that are only copied are left out.  Two        *)
(* commands that use the cache at once are HttpCache's matter.             *)
(***************************************************************************)
EXTENDS Integers, Sequences, FiniteSets, FiniteSetsExt

CONSTANTS
  Listed,        \* ids that decimal keys of a dump stand for; other keys are not
  AskedIds,         \* the ids a command asks for
  MapEnd,        \* how the topic of map reports ends; others end in a gateway
  RoleNames,     \* the roles known, as they are named
  LongTexts,     \* texts too long to keep
  MaxEpoch,      \* later times cannot be shown
  Above,         \* _MILLISECONDS_ABOVE, in units of which a second has Millis
  Millis, LatitudeLimit, LongitudeLimit, MaxNeighbors,
  Ttl, MinTtl,   \* of the client, LORANET_MIN_TTL_SECONDS
  Servings,      \* pairs of dumps, published one after the other; no objects
                 \* are Garbled
  LastTime, MaxReads,
  Missing, Garbled

ASSUME LoranetAssumption ==
  /\ {MaxEpoch, Above, Millis, LatitudeLimit, LongitudeLimit, MaxNeighbors} \subseteq Nat
  /\ {Ttl, MinTtl, LastTime, MaxReads} \subseteq Nat
  /\ MinTtl > 0 /\ Millis > 0 /\ AskedIds \subseteq Listed
  /\ Missing # Garbled /\ Missing \notin Int /\ Garbled \notin Int

(* A dump is an object of entries, an entry one of these fields, of which  *)
(* some are objects themselves and the neighbours have an order.           *)
IsObject(raw) == raw \notin {Missing, Garbled}
EntryFields == {"seenBy", "metrics", "mapReport", "latitude", "longitude", "role", "battery", "neighbors"}
IsEntry(e) ==
  /\ DOMAIN e = EntryFields
  /\ IsObject(e.seenBy) => IsFiniteSet(DOMAIN e.seenBy)
  /\ IsObject(e.neighbors) => Len(e.neighbors) \in Nat /\ DOMAIN e.neighbors = 1..Len(e.neighbors)

Published == UNION {{s[i] : i \in DOMAIN s} : s \in Servings}

ASSUME ServingsAssumption ==
  /\ Servings \subseteq Seq(Published) /\ <<>> \notin Servings /\ Missing \notin Published
  /\ \A d \in Published \ {Garbled} :
       IsFiniteSet(DOMAIN d) /\ \A k \in DOMAIN d : IsObject(d[k]) => IsEntry(d[k])

VARIABLES
  time, serving,
  response,      \* the cached one: the dump and when it was fetched, or Missing
  source,        \* the command's LoranetSource: index, indexAt, asOf
  answer,        \* what the last call returned, Missing before
  reads,         \* calls so far
  downloads      \* when, whether forced, and whether a dump came

loranetVars == <<time, serving, response, source, answer, reads, downloads>>

-----------------------------------------------------------------------------
(* parse_epoch, e7_to_degrees, and the enum fields: a text nobody knows is  *)
(* kept if short.                                                          *)
Epoch(v)          == IF v \in 1..MaxEpoch THEN v ELSE Missing
Degrees(v, limit) == IF v \in -limit..limit THEN v ELSE Missing
RoleOf(v)         == IF v = Garbled \/ v \in LongTexts THEN Missing
                     ELSE IF v \in DOMAIN RoleNames THEN RoleNames[v] ELSE v
Plain(v)          == IF v = Garbled THEN Missing ELSE v

(* CoercionTracker.coerce: there, but of no use. *)
Failed(raw, got) == raw # Missing /\ got = Missing

Latest(times) == IF times \subseteq {Missing} THEN Missing ELSE Max(times \ {Missing})

(* _parse_seen_by: a topic is its root and its last part. *)
Heard(raw)      == IF IsObject(raw) THEN {t \in DOMAIN raw : t[2] # MapEnd} ELSE {}
GatewaysIn(raw, node) == {t \in Heard(raw) : t[2] # node}
TimesAt(raw, topics) == {Epoch(raw[t]) : t \in topics}
SeenByFails(raw) == raw = Garbled \/ Missing \in TimesAt(raw, Heard(raw))

(* parse_node *)
ParseNode(node, e) ==
  LET gates == GatewaysIn(e.seenBy, node)
      nowhere == Degrees(e.latitude, LatitudeLimit) = 0 /\ Degrees(e.longitude, LongitudeLimit) = 0 IN
  [count     |-> IF IsObject(e.seenBy) THEN Cardinality(gates) ELSE Missing,
   heardAt   |-> [t \in {u \in gates : Epoch(e.seenBy[u]) # Missing} |-> e.seenBy[t]],
   uplink    |-> Latest(TimesAt(e.seenBy, Heard(e.seenBy) \ gates)),
   lastSeen  |-> Latest(TimesAt(e.seenBy, Heard(e.seenBy)) \cup {Epoch(e.metrics), Epoch(e.mapReport)}),
   metrics   |-> Epoch(e.metrics),
   latitude  |-> IF nowhere THEN Missing ELSE Degrees(e.latitude, LatitudeLimit),
   longitude |-> IF nowhere THEN Missing ELSE Degrees(e.longitude, LongitudeLimit),
   role      |-> RoleOf(e.role),
   battery   |-> Plain(e.battery)]

Coercions(e) ==
  Cardinality({f \in {"metrics", "mapReport"} : Failed(e[f], Epoch(e[f]))}
         \cup {f \in {"role", "battery"} : e[f] = Garbled}
         \cup {f \in {"latitude"} : Failed(e[f], Degrees(e[f], LatitudeLimit))}
         \cup {f \in {"longitude"} : Failed(e[f], Degrees(e[f], LongitudeLimit))}
         \cup {f \in {"seenBy"} : SeenByFails(e[f])})

(* parse_neighbors: usable entries in their order, up to a limit; a time   *)
(* too large for seconds is in milliseconds.                               *)
UpdatedAt(v) ==
  IF v = Garbled THEN Missing
  ELSE Epoch(IF v > Above THEN v \div Millis ELSE v)
IsNeighbor(n) == n # Garbled /\ n.node \in Listed /\ UpdatedAt(n.updated) # Missing
Neighbor(n)   == [node |-> n.node, snr |-> Plain(n.snr), updated |-> UpdatedAt(n.updated)]
Nth(k, places) == CHOOSE i \in places : Cardinality({j \in places : j <= i}) = k

ParseNeighbors(payload) ==
  LET usable == IF IsObject(payload) THEN {i \in DOMAIN payload : IsNeighbor(payload[i])} ELSE {} IN
  [k \in 1..Min({Cardinality(usable), MaxNeighbors}) |-> Neighbor(payload[Nth(k, usable)])]

-----------------------------------------------------------------------------
(* _check_dump_shape *)
IsDump(index) == index # Garbled /\ DOMAIN index \cap Listed # {}

Fresh(r, ttl) == r # Missing /\ time - r.at <= ttl

Floor == Max({Ttl, MinTtl})

(* fetch_all, fetch_nodes: the results and what they count. *)
Skips(index, keys) == keys \ {k \in keys \cap Listed : IsObject(index[k])}
Parsed(index, keys, asOf) ==
  LET kept == keys \ Skips(index, keys) IN
  [kind |-> "nodes", asOf |-> asOf, keys |-> keys,
   nodes |-> [k \in kept |-> ParseNode(k, index[k])],
   skipped |-> Cardinality(Skips(index, keys)),
   coercions |-> MapThenSumSet(LAMBDA k : Coercions(index[k]), kept)]

Lists(index) ==
  [kind |-> "lists",
   lists |-> [k \in {j \in AskedIds \cap DOMAIN index :
                       IsObject(index[j]) /\ ParseNeighbors(index[j].neighbors) # <<>>} |->
                ParseNeighbors(index[k].neighbors)]]

Failure == [kind |-> "failed"]
NewSource == [index |-> Missing, indexAt |-> Missing, asOf |-> Missing]

Oldest(asOf, at) == IF asOf = Missing \/ at < asOf THEN at ELSE asOf

(* As if nothing were fetched. *)
FromMemoUndated == [source EXCEPT !.asOf = Missing]

(* raw_index on the memo: as of when it was fetched. *)
FromMemo == [source EXCEPT !.asOf = source.indexAt]

(* raw_index and get_json, asOf being what the source had before: the memo *)
(* if there is one, else the cache if fresh enough, else a download, which *)
(* fails if the service is not up.  A dump that is none leaves the cache.   *)
Download(up, force) ==
  IF ~force /\ Fresh(response, Floor) THEN response
  ELSE IF up THEN [dump |-> serving[1], at |-> time] ELSE Missing

Reads(up, force, asOf, result(_, _)) ==
  IF source.index # Missing /\ ~force
  THEN /\ source' = FromMemo
       /\ answer' = result(source.index, FromMemo.asOf)
       /\ UNCHANGED <<response, downloads>>
  ELSE LET got == Download(up, force) IN
       /\ downloads' = IF got # Missing /\ (force \/ got # response)
                       THEN downloads \cup {[at |-> time, forced |-> force, sound |-> IsDump(got.dump)]} ELSE downloads
       /\ IF got = Missing
          THEN /\ source' = [source EXCEPT !.asOf = asOf]
               /\ answer' = Failure /\ UNCHANGED response
          ELSE IF IsDump(got.dump)
          THEN /\ source' = [index |-> got.dump, indexAt |-> Oldest(asOf, got.at), asOf |-> Oldest(asOf, got.at)]
               /\ answer' = result(got.dump, Oldest(asOf, got.at))
               /\ response' = got
          ELSE /\ source' = [source EXCEPT !.asOf = Oldest(asOf, got.at)]
               /\ answer' = Failure /\ response' = Missing

Counts == reads < MaxReads /\ reads' = reads + 1 /\ UNCHANGED <<time, serving>>

(* fetch_nodes, after _begin_fetch *)
FetchNodes ==
  /\ Counts
  /\ \E up \in BOOLEAN, force \in BOOLEAN :
       /\ force => source = NewSource
       /\ Reads(up, force, Missing, LAMBDA index, asOf : Parsed(index, AskedIds \cap DOMAIN index, asOf))

(* fetch_all, of a source of its own *)
FetchAll ==
  /\ Counts /\ source = NewSource
  /\ \E up \in BOOLEAN :
       Reads(up, FALSE, Missing, LAMBDA index, asOf : Parsed(index, DOMAIN index, asOf))

(* reported_neighbors, once the same source has given its nodes *)
ReportedNeighbors ==
  /\ Counts /\ source.index # Missing
  /\ \E up \in BOOLEAN : Reads(up, FALSE, source.asOf, LAMBDA index, asOf : Lists(index))

(* The next poll, or the next command *)
Renew ==
  /\ source # NewSource /\ source' = NewSource /\ answer' = Missing
  /\ UNCHANGED <<time, serving, response, reads, downloads>>

Publish ==
  /\ Len(serving) > 1 /\ serving' = Tail(serving)
  /\ UNCHANGED <<time, response, source, answer, reads, downloads>>

TimePasses ==
  /\ time < LastTime /\ time' = time + 1
  /\ UNCHANGED <<serving, response, source, answer, reads, downloads>>

LoranetStart(s) ==
  /\ time = 1 /\ serving = s /\ response = Missing /\ source = NewSource
  /\ answer = Missing /\ reads = 0 /\ downloads = {}

LoranetInit == \E s \in Servings : LoranetStart(s)
LoranetNext == FetchNodes \/ FetchAll \/ ReportedNeighbors \/ Renew \/ Publish \/ TimePasses

LoranetSpec == LoranetInit /\ [][LoranetNext]_loranetVars

-----------------------------------------------------------------------------
(* What is shown is as old as it is said to be, and a source holds on to   *)
(* the one dump it has read; nothing that is no dump stays in the cache.   *)
AgeIsTold ==
  /\ response # Missing => IsDump(response.dump) /\ \E d \in downloads : d.at = response.at
  /\ source.index # Missing => IsDump(source.index) /\ \E d \in downloads : d.at = source.indexAt
  /\ answer # Missing /\ answer.kind = "nodes" =>
       /\ answer.asOf = source.indexAt
       /\ \E d \in downloads : d.at = answer.asOf
       /\ answer = Parsed(source.index, answer.keys, answer.asOf)

(* Unless it is forced to, no command downloads the dump again before the  *)
(* shortest time allowed is over, but after one that was no dump.          *)
ServiceIsSpared ==
  \A d, e \in downloads :
    d.sound /\ ~e.forced /\ d.at < e.at /\ e.at <= d.at + Floor =>
      \E f \in downloads : ~f.sound /\ d.at <= f.at /\ f.at <= e.at

(* An entry nobody can read costs that entry, a field that field.  A node  *)
(* is not its own neighbour, its map report is nobody's reception, but all *)
(* it was heard doing tells when it was last seen.                         *)
EntriesAreRight ==
  answer # Missing /\ answer.kind = "nodes" =>
    /\ answer.skipped + Cardinality(DOMAIN answer.nodes) = Cardinality(answer.keys)
    /\ \A k \in DOMAIN answer.nodes :
         LET e == source.index[k]
             n == answer.nodes[k]
             said == {Epoch(e.metrics), Epoch(e.mapReport), n.uplink} \cup {n.heardAt[t] : t \in DOMAIN n.heardAt} IN
         /\ n.lastSeen = Latest(said)
         /\ \A t \in DOMAIN n.heardAt : t[2] \notin {k, MapEnd}
         /\ n.count # Missing => Cardinality(DOMAIN n.heardAt) <= n.count
         /\ ~(n.latitude = 0 /\ n.longitude = 0)
         /\ Coercions(e) = 0 /\ IsObject(e.seenBy) => Cardinality(DOMAIN n.heardAt) = n.count
         /\ \A f \in {"metrics", "role", "battery", "latitude", "longitude"} :
              LET bad == ParseNode(k, [e EXCEPT ![f] = Garbled]) IN
              /\ bad[f] = Missing
              /\ \A g \in DOMAIN n \ {f, "lastSeen"} :
                   {f, g} # {"latitude", "longitude"} => bad[g] = n[g]

(* The neighbour lists are those of the dump the nodes were read from, and *)
(* hold only nodes, at times that can be shown.                            *)
ListsAreRight ==
  answer # Missing /\ answer.kind = "lists" =>
    /\ source.index # Missing /\ answer = Lists(source.index)
    /\ \A k \in DOMAIN answer.lists :
         /\ Len(answer.lists[k]) \in 1..MaxNeighbors
         /\ \A i \in DOMAIN answer.lists[k] :
              answer.lists[k][i].node \in Listed /\ answer.lists[k][i].updated \in 1..MaxEpoch

(* What `mesh` says of loranet is what loranet said, and when.             *)
LoranetIsTold == AgeIsTold /\ ServiceIsSpared /\ EntriesAreRight /\ ListsAreRight
=============================================================================
