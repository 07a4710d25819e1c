------------------------------- MODULE PeerSync -------------------------------
(***************************************************************************)
(* `mesh peers` and the last step of `mesh provision`                      *)
(* (provisioning/peers.py, cli/peers_sync.py): the fleet's nodes are       *)
(* compared with the nodes the device knows, one message each gives it a   *)
(* contact or pins it, an archived one is unpinned, and the device is read *)
(* again.  A message may fail, or be dropped unnoticed; meanwhile the      *)
(* device hears nodes and forgets those that are not pinned.               *)
(***************************************************************************)
EXTENDS Integers, FiniteSets, FiniteSetsExt

CONSTANTS
  Peers, Own,    \* numbers of nodes, and of the device
  PeerKeys, WeakPeerKeys,
  FleetRows,     \* what the database may say: [active, archived, key]
  MaxHeard,      \* bounds what the device hears and forgets
  NoKey

ASSUME PeerSyncAssumption ==
  /\ Peers \subseteq Int /\ Own \in Peers /\ WeakPeerKeys \subseteq PeerKeys /\ NoKey \notin PeerKeys
  /\ FleetRows \subseteq [active : SUBSET Peers, archived : SUBSET Peers,
                          key : [Peers -> PeerKeys \cup {NoKey}]]

VARIABLES
  fleetRows, \* the database
  held,      \* what the device knows of each node: whether, its key, whether pinned
  sync,      \* the run: its step, its options, its plan, what it read, what failed
  heardOf    \* how often the device heard or forgot a node

peerVars == <<fleetRows, held, sync, heardOf>>

Unheard == [known |-> FALSE, key |-> NoKey, pinned |-> FALSE]
NoPlan  == [add |-> {}, pin |-> {}, unpin |-> {}]
Resting == [step |-> "idle", prune |-> FALSE, readsBack |-> TRUE, plan |-> NoPlan, left |-> NoPlan,
            failed |-> FALSE, remaining |-> FALSE, saw |-> [p \in Peers |-> Unheard],
            began |-> 0]

-----------------------------------------------------------------------------
(* screen_contacts, screen_held_keys: no key that fails the audit or that  *)
(* another node has, be it recorded or known to the device.                *)
IsShared(p, k) == \E q \in Peers \ {p} : fleetRows.key[q] = k

(* As if only what the database records were audited. *)
ScreenedByRecord(p, now) ==
  LET recorded == fleetRows.key[p] IN
  recorded # NoKey /\ (recorded \in WeakPeerKeys \/ IsShared(p, recorded))

Screened(p, now) ==
  LET recorded == fleetRows.key[p]  k == now[p].key IN
  IF recorded # NoKey THEN recorded \in WeakPeerKeys \/ IsShared(p, recorded)
  ELSE k # NoKey /\ (k \in WeakPeerKeys \/ IsShared(p, k) \/ \E q \in Peers \ {p} : now[q].key = k)

-----------------------------------------------------------------------------
(* plan_peers *)
Differs(p, now) == fleetRows.key[p] # NoKey /\ now[p].key \notin {NoKey, fleetRows.key[p]}

Concerned(now) ==
  {p \in fleetRows.active \ {Own} : ~Screened(p, now) /\ ~Differs(p, now)}

Lacking(now) == {p \in Concerned(now) : fleetRows.key[p] # NoKey /\ now[p].key = NoKey}

PlanPeers(now, prune) ==
  [add   |-> Lacking(now),
   pin   |-> {p \in Concerned(now) : (now[p].known \/ p \in Lacking(now)) /\ ~now[p].pinned},
   unpin |-> IF prune THEN {p \in fleetRows.archived \ {Own} : now[p].pinned} ELSE {}]

(* run_peers up to the first message. *)
Begin(prune, readsBack) ==
  /\ sync.step \in {"idle", "reported"}
  /\ sync' = [Resting EXCEPT
       !.prune = prune, !.readsBack = readsBack, !.saw = held, !.began = heardOf,
       !.plan = PlanPeers(held, prune), !.left = PlanPeers(held, prune),
       !.step = IF PlanPeers(held, prune) = NoPlan THEN "reported" ELSE "writing"]
  /\ UNCHANGED <<fleetRows, held, heardOf>>

(* apply_peers, node by node; a message that raises ends those of its node *)
Contact(p) == sync.step = "writing" /\ p \in sync.left.add /\ p = Min(sync.left.add \cup sync.left.pin)
Pin(p)     == /\ sync.step = "writing" /\ p \in sync.left.pin \ sync.left.add
              /\ p = Min(sync.left.add \cup sync.left.pin)
Unpin(p)   == sync.step = "writing" /\ sync.left.add \cup sync.left.pin = {} /\ p = Min(sync.left.unpin)

Sent(field, p) == sync' = [sync EXCEPT !.left[field] = @ \ {p}]

AddContact(p) ==
  /\ Contact(p)
  /\ held' = [held EXCEPT ![p] = [known |-> TRUE, pinned |-> @.pinned,
                                  key |-> IF @.key = NoKey THEN fleetRows.key[p] ELSE @.key]]
  /\ Sent("add", p) /\ UNCHANGED <<fleetRows, heardOf>>

SetFavorite(p) ==
  /\ Pin(p)
  /\ held' = [held EXCEPT ![p].pinned = @ \/ held[p].known]
  /\ Sent("pin", p) /\ UNCHANGED <<fleetRows, heardOf>>

RemoveFavorite(p) ==
  /\ sync.left.unpin # {} /\ Unpin(p)
  /\ held' = [held EXCEPT ![p].pinned = FALSE]
  /\ Sent("unpin", p) /\ UNCHANGED <<fleetRows, heardOf>>

(* The firmware accepted the message and did nothing. *)
Dropped(p) ==
  /\ \/ Contact(p) /\ Sent("add", p)
     \/ Pin(p) /\ Sent("pin", p)
     \/ sync.left.unpin # {} /\ Unpin(p) /\ Sent("unpin", p)
  /\ UNCHANGED <<fleetRows, held, heardOf>>

SendFails(p) ==
  /\ \/ Contact(p) \/ Pin(p) \/ (sync.left.unpin # {} /\ Unpin(p))
  /\ sync' = IF Unpin(p) THEN [sync EXCEPT !.failed = TRUE, !.left.unpin = @ \ {p}]
              ELSE [sync EXCEPT !.failed = TRUE, !.left.add = @ \ {p}, !.left.pin = @ \ {p}]
  /\ UNCHANGED <<fleetRows, held, heardOf>>

(* _remaining_after, and the report. *)
Report ==
  /\ sync.step = "writing" /\ sync.left = NoPlan
  /\ sync' = [sync EXCEPT !.step = "reported",
       !.saw = IF sync.readsBack THEN held ELSE @,
       !.remaining = sync.readsBack /\ PlanPeers(held, sync.prune) # NoPlan]
  /\ UNCHANGED <<fleetRows, held, heardOf>>

(* PeersReport.exit_code is not zero. *)
ReportsFailure == sync.failed \/ sync.remaining

-----------------------------------------------------------------------------
(* The device, external. *)
Hears(p) ==
  /\ heardOf < MaxHeard /\ heardOf' = heardOf + 1
  /\ held[p].key = NoKey /\ p # Own
  /\ \E k \in PeerKeys \cup {NoKey} : held' = [held EXCEPT ![p].known = TRUE, ![p].key = k]
  /\ UNCHANGED <<fleetRows, sync>>

Forgets(p) ==
  /\ heardOf < MaxHeard /\ heardOf' = heardOf + 1
  /\ held[p].known /\ ~held[p].pinned /\ p # Own
  /\ held' = [held EXCEPT ![p] = Unheard]
  /\ UNCHANGED <<fleetRows, sync>>

PeersInit ==
  /\ fleetRows \in FleetRows /\ heardOf = 0 /\ sync = Resting
  /\ held \in [Peers -> {Unheard}]

(* Archiving a node unpins it nowhere. *)
ArchivePeer(p) ==
  /\ sync.step \in {"idle", "reported"} /\ p \in fleetRows.active \ {Own}
  /\ fleetRows' = [fleetRows EXCEPT !.active = @ \ {p}, !.archived = @ \cup {p}]
  /\ sync' = [sync EXCEPT !.step = "idle"] /\ UNCHANGED <<held, heardOf>>

PeersNext ==
  \/ \E prune, readsBack \in BOOLEAN : Begin(prune, readsBack)
  \/ \E p \in Peers :
       \/ AddContact(p) \/ SetFavorite(p) \/ RemoveFavorite(p)
       \/ Dropped(p) \/ SendFails(p) \/ Hears(p) \/ Forgets(p) \/ ArchivePeer(p)
  \/ Report

PeersSpec == PeersInit /\ [][PeersNext]_peerVars

-----------------------------------------------------------------------------
Trusted(p, k) == k \in PeerKeys \ WeakPeerKeys /\ ~IsShared(p, k)

(* A run that ends quietly has left every node of the fleet with a sound   *)
(* key on the device, pinned, unless the device has another key for it,    *)
(* and has pinned no archived one, as far as the device was read.          *)
QuietMeansSynced ==
  sync.step = "reported" /\ ~ReportsFailure /\ (sync.readsBack \/ sync.plan = NoPlan) =>
    \A p \in Peers \ {Own} :
      LET saw == sync.saw[p]  recorded == fleetRows.key[p] IN
      /\ p \in fleetRows.active /\ Trusted(p, recorded) /\ saw.key \in {NoKey, recorded} =>
           saw = [known |-> TRUE, key |-> recorded, pinned |-> TRUE]
      /\ sync.prune /\ p \in fleetRows.archived => ~saw.pinned

(* As long as the device hears nothing new during the run, a run pins no   *)
(* key but a sound one that nobody else has, and replaces none it knows.   *)
PinsAreSound ==
  sync.step = "writing" /\ heardOf = sync.began =>
    \A p \in Peers :
      LET saw == sync.saw[p]  now == held[p] IN
      /\ saw.key # NoKey => now.key = saw.key
      /\ now.pinned /\ ~saw.pinned =>
           /\ p \in fleetRows.active \ {Own}
           /\ now.key # NoKey => Trusted(p, now.key) /\ \A q \in Peers \ {p} :
                now.key = fleetRows.key[p] \/ sync.saw[q].key # now.key

(* No node the database has no key for is pinned with a key that fails the *)
(* audit or is another's: never, says provisioning/peers.py.  The run      *)
(* screens what the device held when it was read, and pins what it holds   *)
(* by then.                                                                *)
PinsAreScreened ==
  \A p \in Peers : Pin(p) /\ fleetRows.key[p] = NoKey => ~Screened(p, held)

PeersAreSynced == QuietMeansSynced /\ PinsAreSound
=============================================================================
