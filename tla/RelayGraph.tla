------------------------------ MODULE RelayGraph ------------------------------
(***************************************************************************)
(* The relay graph of a region (network/graph.py): which links the         *)
(* evidence of a window keeps, the depth-first search from MQTT that finds *)
(* what each node's removal cuts off, and the augmenting paths that count  *)
(* the vertex-disjoint ways of a node to MQTT.                             *)
(*                                                                         *)
(* One search runs on one graph chosen at the start, loranet's neighbour   *)
(* reports added to what was observed.  Neighbours are met in any order,   *)
(* as the code walks sets.                                                 *)
(***************************************************************************)
EXTENDS Naturals, Sequences, FiniteSets

CONSTANTS
  Nodes,
  MQTT,      \* the virtual node every gateway is joined to
  MaxPaths,  \* MAX_PATHS
  None,      \* no parent; no node whose ways are counted
  Inputs     \* the regions and sources looked at

Ends  == Nodes \cup {MQTT}
Pairs == {e \in SUBSET Nodes : Cardinality(e) = 2}
MinOf(a, b) == IF a < b THEN a ELSE b

(* What a window shows of two nodes: too few receptions, enough of them or *)
(* an explicit link, or only a report of loranet.                          *)
Evidence == {"few", "enough", "told"}

ASSUME RelayGraphAssumption ==
  /\ MQTT \notin Nodes /\ None \notin Nodes \cup {MQTT} /\ MaxPaths \in Nat
  /\ Inputs \subseteq [evidence : [Pairs -> Evidence], gateways : SUBSET Nodes,
                       source : Nodes \cup {None}]

VARIABLES
  evidence,  \* of each pair of nodes
  gateways,  \* the nodes that uplinked something
  source,    \* the node whose ways to MQTT are counted, None for the cuts
  order,     \* _cut_subtrees: the nodes in discovery order
  low,       \* the earliest node each reaches
  stack,     \* the search: node, parent, neighbours not looked at yet
  cutOff,    \* the runs of the order each node cuts off
  open,      \* _disjoint_paths: the arcs with residual capacity
  parent,    \* _augment: how each half was reached
  frontier,  \* the halves reached last
  paths      \* the ways found, and whether there may be more

graphVars == <<evidence, gateways, source, order, low, stack, cutOff,
          open, parent, frontier, paths>>
input  == <<evidence, gateways, source>>
search == <<order, low, stack, cutOff>>
flow   == <<open, parent, frontier, paths>>

-----------------------------------------------------------------------------
(* The graph *)

(* _kept, for both kinds of evidence: a gateway is joined from one packet. *)
Observed == {e \in Pairs : evidence[e] = "enough"} \cup {{g, MQTT} : g \in gateways}
InGraph(edges) == UNION edges \ {MQTT}

(* The reports of any two nodes. *)

(* _loranet_pairs: the node set never grows. *)
Reports == {e \in Pairs : evidence[e] = "told" /\ e \subseteq InGraph(Observed)}

(* _merged *)
Edges == Observed \cup Reports
Adjacent(n) == {m \in Ends : m # n /\ {m, n} \in Edges}

-----------------------------------------------------------------------------
(* _cut_subtrees *)

Discovered == {order[i] : i \in 1..Len(order)}
Index(n)   == CHOOSE i \in 1..Len(order) : order[i] = n
Top        == stack[Len(stack)]
Frame(n, from) == [node |-> n, parent |-> from, left |-> Adjacent(n)]
Past(n) == [stack EXCEPT ![Len(stack)].left = @ \ {n}]

Discover ==
  /\ stack # <<>>
  /\ \E n \in Top.left \ Discovered :
       /\ order' = Append(order, n)
       /\ low' = [low EXCEPT ![n] = Len(order) + 1]
       /\ stack' = Append(Past(n), Frame(n, Top.node))
  /\ UNCHANGED <<input, cutOff, flow>>

(* The parent counts too. *)
LookBack ==
  /\ stack # <<>>
  /\ \E n \in Top.left \cap Discovered :
       /\ low' = [low EXCEPT ![Top.node] = MinOf(@, Index(n))]
       /\ stack' = Past(n)
  /\ UNCHANGED <<input, order, cutOff, flow>>

(* As if the node a subtree returns to did not cut it off. *)
ReachesPast(n, from) == low[n] > Index(from)
CutBy(n, from) == low[n] >= Index(from)

Leave ==
  /\ stack # <<>> /\ Top.left = {}
  /\ LET n == Top.node
         from == Top.parent
     IN /\ low' = IF from = None THEN low ELSE [low EXCEPT ![from] = MinOf(@, low[n])]
        /\ cutOff' = IF from \notin {None, MQTT} /\ CutBy(n, from)
                     THEN cutOff \cup {[node |-> from, first |-> Index(n), end |-> Len(order)]}
                     ELSE cutOff
  /\ stack' = SubSeq(stack, 1, Len(stack) - 1)
  /\ UNCHANGED <<input, order, flow>>

(* _cut_vertices, before it leaves out the barely observed. *)
CutsOff(n) == UNION {{order[i] : i \in c.first..c.end} : c \in {d \in cutOff : d.node = n}}

-----------------------------------------------------------------------------
(* _disjoint_paths: every node but the two ends is split into two halves.  *)

In(n)  == IF n \in {source, MQTT} THEN <<n, "whole">> ELSE <<n, "in">>
Out(n) == IF n \in {source, MQTT} THEN <<n, "whole">> ELSE <<n, "out">>
Halves == {In(n) : n \in Ends} \cup {Out(n) : n \in Ends}

Arcs ==
  {<<In(n), Out(n)>> : n \in Ends \ {source, MQTT}}
    \cup {<<Out(n), In(m)>> : <<n, m>> \in {p \in Ends \X Ends : p[2] \in Adjacent(p[1])}}

From == In(source)
To   == In(MQTT)
Residual(x) == {y \in Halves : <<x, y>> \in open}
Reached     == {x \in Halves : parent[x] # None}

(* One more layer of the breadth-first search: each half newly reached has *)
(* one of those that lead to it as its parent.                             *)
Widen ==
  /\ paths.more /\ To \notin Reached
  /\ LET next == UNION {Residual(x) : x \in frontier} \ Reached
     IN /\ next # {}
        /\ \E choice \in [next -> frontier] :
             /\ \A y \in next : y \in Residual(choice[y])
             /\ parent' = [x \in Halves |-> IF x \in next THEN choice[x] ELSE parent[x]]
        /\ frontier' = next
  /\ UNCHANGED <<input, search, open, paths>>

Unreached == [x \in Halves |-> IF x = From THEN From ELSE None]

(* The way back from MQTT along the parents. *)
Way ==
  LET back[k \in Nat] == IF k = 0 THEN To ELSE parent[back[k - 1]]
      long == CHOOSE k \in 1..Cardinality(Halves) :
                back[k] = From /\ \A j \in 1..(k - 1) : back[j] # From
  IN {<<back[k], back[k - 1]>> : k \in 1..long}

(* No arc but the one from MQTT straight to the source, which no way       *)
(* takes, ever has a capacity above one.                                   *)
Pushed(way) == (open \ way) \cup {<<arc[2], arc[1]>> : arc \in way}

Push ==
  /\ paths.more /\ To \in Reached
  /\ open' = Pushed(Way)
  /\ paths' = [found |-> paths.found + 1, more |-> paths.found + 1 < MaxPaths]
  /\ parent' = Unreached /\ frontier' = {From}
  /\ UNCHANGED <<input, search>>

NoMore ==
  /\ paths.more /\ To \notin Reached
  /\ UNION {Residual(x) : x \in frontier} \subseteq Reached
  /\ paths' = [paths EXCEPT !.more = FALSE]
  /\ parent' = Unreached /\ frontier' = {From}
  /\ UNCHANGED <<input, search, open>>

-----------------------------------------------------------------------------
GraphStart(region) ==
  /\ evidence = region.evidence /\ gateways = region.gateways /\ source = region.source
  /\ order = <<MQTT>> /\ low = [n \in Ends |-> 1] /\ cutOff = {}
  /\ stack = IF source = None THEN <<Frame(MQTT, None)>> ELSE <<>>
  /\ open = IF source = None THEN {} ELSE Arcs
  /\ parent = IF source = None THEN <<>> ELSE Unreached
  /\ frontier = {From}
  /\ paths = [found |-> 0, more |-> source # None /\ MaxPaths > 0]

GraphInit ==
  /\ \E region \in Inputs : GraphStart(region)
  /\ {MQTT, source} \ {None} \subseteq UNION Edges

GraphNext == Discover \/ LookBack \/ Leave \/ Widen \/ Push \/ NoMore

GraphSpec == GraphInit /\ [][GraphNext]_graphVars

-----------------------------------------------------------------------------
(* What the searches are to find. *)

(* The nodes joined to MQTT when some are removed. *)
Joined(edges, without) ==
  LET step(s) == s \cup {n \in Nodes \ without : \E m \in s : {m, n} \in edges}
      near[k \in Nat] == IF k = 0 THEN {MQTT} ELSE step(near[k - 1])
  IN near[Cardinality(Nodes)]

Loses(edges, n) == (Joined(edges, {}) \ Joined(edges, {n})) \ {n}

(* The fewest nodes that separate the source from MQTT, the link between   *)
(* the two apart.                                                          *)
Separated(cut) == source \notin Joined(Edges \ {{source, MQTT}}, cut)
Ways ==
  LET direct == IF {source, MQTT} \in Edges THEN 1 ELSE 0
      cuts   == {cut \in SUBSET (Nodes \ {source}) : Separated(cut)}
      least  == CHOOSE k \in 0..Cardinality(Nodes) :
                  /\ \E cut \in cuts : Cardinality(cut) = k
                  /\ \A cut \in cuts : Cardinality(cut) >= k
  IN direct + least

CutsDone  == source = None /\ stack = <<>>
PathsDone == source # None /\ ~paths.more

(* Whatever the order in which neighbours are met, the one search from     *)
(* MQTT finds for every node exactly what its removal cuts off, and a      *)
(* subtree is a run of the discovery order (_cut_subtrees).  Loranet's     *)
(* reports never show a node the observations do not have, and never make  *)
(* a node cut off one that was joined without them.                        *)
CutsAreExact ==
  CutsDone =>
    /\ \A n \in Nodes : CutsOff(n) = Loses(Edges, n)
    /\ InGraph(Edges) = InGraph(Observed)
    /\ \A n \in Nodes : Joined(Observed, {}) \cap CutsOff(n) \subseteq Loses(Observed, n)

(* Whatever shortest ways are augmented, the count is the most             *)
(* vertex-disjoint ways of the source to MQTT, by Menger's theorem the     *)
(* fewest nodes that separate the two, up to MAX_PATHS (_disjoint_paths).  *)
PathsAreDisjoint == PathsDone => paths.found = MinOf(MaxPaths, Ways)
=============================================================================
