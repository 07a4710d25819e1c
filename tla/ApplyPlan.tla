------------------------------ MODULE ApplyPlan ------------------------------
(***************************************************************************)
(* One call of provisioning/apply.py apply_plan: a change plan is written  *)
(* to a device over a session, read back, and turned into an outcome.      *)
(* Every call into the device library may raise, the bytes of a call that  *)
(* raised may or may not have arrived, the firmware may drop a value it    *)
(* was sent, the device may reboot at any moment, another device may       *)
(* answer a reconnect, and Ctrl-C may strike between any two steps.        *)
(*                                                                         *)
(* The values of fields are abstracted: a device either durably holds what *)
(* the plan wants of an item or it does not.  The write order inside the   *)
(* config and module sections is left open, that of default_channel and    *)
(* security is the code's.                                                 *)
(***************************************************************************)
EXTENDS Naturals, FiniteSets

CONSTANTS
  Devices,         \* the devices that may answer on the session's transport
  Target,          \* the one the plan was built for
  ConfigSections,  \* config and module sections, all but the two below
  MaxTries         \* ReconnectingSession.attempts

ASSUME TargetAssumption   == Target \in Devices
ASSUME SectionsAssumption ==
  ConfigSections \cap {"owner", "default_channel", "security", "<verify>"} = {}
ASSUME TriesAssumption    == MaxTries \in Nat \ {0}

Sections == ConfigSections \cup {"default_channel", "security"}
Items    == Sections \cup {"owner"}
Statuses == {"CONFIRMED", "UNCONFIRMED", "FAILED", "SKIPPED"}
Results  == [section : Items \cup {"<verify>"}, status : Statuses]

VARIABLES
  plan,       \* what build_plan decided (ChangePlan), and the dry_run argument
  readsBack,  \* session.reads_back: ReconnectingSession, or InPlaceSession
  pc,         \* the next step of apply_plan
  todo,       \* sections of the current write pass not yet handled
  stop,       \* stop_reason is not None
  attempted,  \* sections whose write call was made
  results,    \* the WriteResults so far
  tries,      \* failed connects of the current refresh()
  conn,       \* the device the open interface talks to
  mem,        \* sections the interface's own copy shows as the plan wants
  outcome,    \* running, raised, stopped (no record), recorded
  recordId,   \* the node id in the outcome's record
  (* The devices. *)
  txOpen,     \* a settings transaction is open on the device
  staged,     \* items it holds in memory only
  saved,      \* items it holds durably
  newKey,     \* it holds the keypair this run generated
  reports,    \* its node id: its own, the key-derived one, or yet another
  (* History. *)
  sent,       \* <<device, item>> pairs put on the wire
  closed      \* commitSettingsTransaction was called

deviceVars == <<txOpen, staged, saved, newKey, reports>>
hostVars   == <<pc, todo, stop, attempted, results, tries, conn, mem,
                outcome, recordId, sent, closed>>
vars       == <<plan, readsBack, hostVars, deviceVars>>

-----------------------------------------------------------------------------
(* The plan. *)

PlannedItems    == plan.sections \cup (IF plan.owner THEN {"owner"} ELSE {})
EmptyPlan       == PlannedItems = {} /\ plan.keys = "none"
NeedsTx         == plan.owner \/ plan.sections \cap ConfigSections # {}
DeferSecurity   == NeedsTx /\ "security" \in plan.sections /\ readsBack
Deferred        == IF DeferSecurity
                   THEN plan.sections \cap {"default_channel", "security"}
                   ELSE {}
SectionsToWrite == plan.sections \ Deferred

Plans == { p \in [owner : BOOLEAN, sections : SUBSET Sections,
                  keys : {"none", "regenerate", "adopt"}, dryRun : BOOLEAN] :
             p.keys = "regenerate" => "security" \in p.sections }

(* default_channel after every other section, security last of all. *)
IsNext(s) ==
  /\ s \in todo
  /\ s = "default_channel" => todo \cap ConfigSections = {}
  /\ s = "security" => todo = {"security"}

Mark(items, status) == [section : items, status : {status}]
Stopped(more) == /\ results' = results \cup more
                 /\ outcome' = "stopped"
                 /\ pc' = "done"
VerifyFailed == Mark({"<verify>"}, "FAILED")

-----------------------------------------------------------------------------
(* The device's side of a call: it may act on it, wholly or in part, or not. *)

NoEffect == UNCHANGED deviceVars

(* A new key becomes the device's own at once; firmware 2.8 then reports   *)
(* the id derived from it, or an id nobody expected.                       *)
TakeKey(d) ==
  /\ newKey' = [newKey EXCEPT ![d] = TRUE]
  /\ \E id \in {"own", "derived", "other"} :
       reports' = [reports EXCEPT ![d] = id]

TakeItem(d, x) ==
  /\ IF txOpen[d] /\ x # "default_channel"
     THEN /\ staged' = [staged EXCEPT ![d] = @ \cup {x}]
          /\ UNCHANGED saved
     ELSE /\ saved' = [saved EXCEPT ![d] = @ \cup {x}]
          /\ UNCHANGED staged
  /\ UNCHANGED txOpen

Receive(d, x) ==
  \/ NoEffect
  \/ TakeItem(d, x) /\ UNCHANGED <<newKey, reports>>
  \/ /\ x = "security" /\ plan.keys = "regenerate"
     /\ TakeKey(d)
     /\ TakeItem(d, x) \/ UNCHANGED <<txOpen, staged, saved>>

(* Committing saves what was staged and reboots. *)
ReceiveCommit(d) ==
  /\ saved'  = [saved EXCEPT ![d] = @ \cup staged[d]]
  /\ staged' = [staged EXCEPT ![d] = {}]
  /\ txOpen' = [txOpen EXCEPT ![d] = FALSE]
  /\ UNCHANGED <<newKey, reports>>

Reboot(d) ==
  /\ staged[d] # {} \/ txOpen[d]
  /\ staged' = [staged EXCEPT ![d] = {}]
  /\ txOpen' = [txOpen EXCEPT ![d] = FALSE]
  /\ UNCHANGED <<plan, readsBack, hostVars, saved, newKey, reports>>

-----------------------------------------------------------------------------
(* The steps of apply_plan. *)

Init ==
  /\ plan \in Plans
  /\ readsBack \in (IF plan.keys = "regenerate" THEN {TRUE} ELSE BOOLEAN)
  /\ pc = "start" /\ outcome = "running" /\ recordId = "own"
  /\ todo = {} /\ stop = FALSE /\ attempted = {} /\ results = {}
  /\ tries = 0 /\ conn = Target /\ mem = {}
  /\ txOpen  = [d \in Devices |-> FALSE]
  /\ staged  = [d \in Devices |-> {}]
  /\ saved   = [d \in Devices |-> {}]
  /\ newKey  = [d \in Devices |-> FALSE]
  /\ reports = [d \in Devices |-> "own"]
  /\ sent = {} /\ closed = FALSE

(* An empty plan is a certain outcome; a dry run skips everything. *)
ReturnAtOnce ==
  /\ pc = "start" /\ (EmptyPlan \/ plan.dryRun)
  /\ pc' = "done"
  /\ outcome' = IF EmptyPlan /\ ~plan.dryRun THEN "recorded" ELSE "stopped"
  /\ results' = Mark(PlannedItems, "SKIPPED")
  /\ UNCHANGED <<plan, readsBack, todo, stop, attempted, tries, conn, mem,
                 recordId, sent, closed, deviceVars>>

StartUntransacted ==
  /\ pc = "start" /\ ~EmptyPlan /\ ~plan.dryRun /\ ~NeedsTx
  /\ pc' = "write" /\ todo' = SectionsToWrite
  /\ UNCHANGED <<plan, readsBack, stop, attempted, results, tries, conn, mem,
                 outcome, recordId, sent, closed, deviceVars>>

(* beginSettingsTransaction: returned, or raised with or without effect. *)
Begins == ~EmptyPlan /\ ~plan.dryRun /\ NeedsTx

BeginTransaction ==
  /\ pc = "start" /\ Begins
  /\ \/ /\ txOpen' = [txOpen EXCEPT ![conn] = TRUE]
        /\ pc' = (IF plan.owner THEN "name" ELSE "write")
        /\ todo' = SectionsToWrite
        /\ UNCHANGED <<results, outcome>>
     \/ /\ txOpen' \in {txOpen, [txOpen EXCEPT ![conn] = TRUE]}
        /\ Stopped(VerifyFailed \cup Mark(PlannedItems, "SKIPPED"))
        /\ UNCHANGED todo
  /\ UNCHANGED <<plan, readsBack, stop, attempted, tries, conn, mem, recordId,
                 sent, closed, staged, saved, newKey, reports>>

(* Node.setOwner: refused before any I/O, raised, or returned. *)
RunNamePhase ==
  /\ pc = "name"
  /\ pc' = "write"
  /\ \/ /\ sent' = sent \cup {<<conn, "owner">>}
        /\ Receive(conn, "owner")
        /\ \/ UNCHANGED <<results, stop>>
           \/ results' = results \cup Mark({"owner"}, "FAILED") /\ stop' = TRUE
     \/ /\ results' = results \cup Mark({"owner"}, "FAILED") /\ stop' = TRUE
        /\ UNCHANGED <<sent, deviceVars>>
  /\ UNCHANGED <<plan, readsBack, todo, attempted, tries, conn, mem, outcome,
                 recordId, closed>>

(* _write_in_order, one section: skipped once anything failed, refused     *)
(* before any I/O, or put on the wire by a call that raised or returned.   *)
Skip(s) ==
  /\ stop
  /\ results' = results \cup Mark({s}, "SKIPPED")
  /\ UNCHANGED <<stop, attempted, mem, sent, deviceVars>>

Refuse(s) ==
  /\ ~stop /\ stop' = TRUE
  /\ results' = results \cup Mark({s}, "FAILED")
  /\ UNCHANGED <<attempted, mem, sent, deviceVars>>

SendUncounted(s) ==
  /\ ~stop /\ stop' = TRUE
  /\ results' = results \cup Mark({s}, "FAILED")
  /\ sent' = sent \cup {<<conn, s>>} /\ Receive(conn, s)
  /\ UNCHANGED <<attempted, mem>>

SendRaised(s) ==
  /\ ~stop /\ stop' = TRUE
  /\ results' = results \cup Mark({s}, "FAILED")
  /\ attempted' = attempted \cup {s}
  /\ sent' = sent \cup {<<conn, s>>} /\ Receive(conn, s)
  /\ UNCHANGED mem

SendReturned(s) ==
  /\ ~stop
  /\ attempted' = attempted \cup {s}
  /\ sent' = sent \cup {<<conn, s>>} /\ Receive(conn, s)
  /\ mem' = mem \cup {s}
  /\ UNCHANGED <<results, stop>>

WriteSection(s) ==
  /\ pc \in {"write", "deferred"} /\ IsNext(s)
  /\ todo' = todo \ {s}
  /\ Skip(s) \/ Refuse(s) \/ SendRaised(s) \/ SendReturned(s)
  /\ UNCHANGED <<plan, readsBack, pc, tries, conn, outcome, recordId, closed>>

FinishWrites ==
  /\ pc \in {"write", "deferred"} /\ todo = {}
  /\ pc' = (IF pc = "write" /\ NeedsTx THEN "commit" ELSE "verify")
  /\ UNCHANGED <<plan, readsBack, todo, stop, attempted, results, tries, conn,
                 mem, outcome, recordId, sent, closed, deviceVars>>

InterruptWithoutFinally ==
  /\ pc \notin {"done", "abort"}
  /\ pc' = "done" /\ outcome' = "raised"
  /\ UNCHANGED <<plan, readsBack, todo, stop, attempted, results, tries, conn,
                 mem, recordId, sent, closed, deviceVars>>

(* Ctrl-C.  Once a transaction is open the finally clause commits it before *)
(* the exception leaves apply_plan; in the commit call itself, it was made. *)
(* In the begin call the device may open a transaction nothing closes.     *)
Interrupt ==
  /\ pc \notin {"done", "abort"}
  /\ IF pc \in {"name", "write", "commit"} /\ NeedsTx
     THEN pc' = "abort" /\ UNCHANGED outcome
     ELSE pc' = "done" /\ outcome' = "raised"
  /\ \/ UNCHANGED txOpen
     \/ pc = "start" /\ Begins /\ txOpen' = [txOpen EXCEPT ![conn] = TRUE]
  /\ UNCHANGED <<plan, readsBack, todo, stop, attempted, results, tries, conn,
                 mem, recordId, sent, closed, staged, saved, newKey, reports>>

CommitWhileRaising ==
  /\ pc = "abort"
  /\ ReceiveCommit(conn) \/ NoEffect
  /\ pc' = "done" /\ outcome' = "raised" /\ closed' = TRUE
  /\ UNCHANGED <<plan, readsBack, todo, stop, attempted, results, tries, conn,
                 mem, recordId, sent>>

ContinueAnyway == Deferred # {}
ContinueAfterCommit == Deferred # {} /\ ~stop

(* A commit that returned: what was deferred is next, unless stopped. *)
CommitReturned ==
  /\ pc = "commit"
  /\ ReceiveCommit(conn)
  /\ closed' = TRUE
  /\ IF ContinueAfterCommit
     THEN pc' = "reconnect" /\ todo' = Deferred /\ UNCHANGED results
     ELSE /\ pc' = "verify"
          /\ results' = results \cup Mark(Deferred, "SKIPPED")
          /\ UNCHANGED todo
  /\ UNCHANGED <<plan, readsBack, stop, attempted, tries, conn, mem, outcome,
                 recordId, sent>>

(* _unconfirmed_after_failed_commit and what was deferred. *)

AfterFailedCommit ==
  LET delivered == attempted \cup (PlannedItems \cap {"owner"}) IN
  Mark(delivered \ {r.section : r \in results}, "UNCONFIRMED")
    \cup Mark(Deferred, "SKIPPED")

(* A commit that raised: all that was sent is uncertain. *)
CommitRaised ==
  /\ pc = "commit"
  /\ ReceiveCommit(conn) \/ NoEffect
  /\ closed' = TRUE
  /\ Stopped(VerifyFailed \cup AfterFailedCommit)
  /\ UNCHANGED <<plan, readsBack, todo, stop, attempted, tries, conn, mem,
                 recordId, sent>>

-----------------------------------------------------------------------------
(* session.refresh(): a reconnecting session retries its connect and any   *)
(* device on the transport may answer; an in-place one keeps its interface. *)

Reconnecting == pc \in {"reconnect", "verify"}

StopBeforeDeferred == Stopped(VerifyFailed \cup Mark(Deferred, "SKIPPED"))

TryForever == (tries + 1) % MaxTries
NextTry == tries + 1
OutOfTries == tries' >= MaxTries

ConnectFails ==
  /\ Reconnecting /\ readsBack
  /\ tries' = NextTry
  /\ IF ~OutOfTries THEN UNCHANGED <<pc, results, outcome>>
     ELSE IF pc = "reconnect" THEN StopBeforeDeferred ELSE Stopped(VerifyFailed)
  /\ UNCHANGED <<plan, readsBack, todo, stop, attempted, conn, mem, recordId,
                 sent, closed, deviceVars>>

Connects(d) ==
  /\ Reconnecting
  /\ readsBack \/ d = conn
  /\ conn' = d /\ tries' = 0
  /\ mem' = (IF readsBack THEN {} ELSE mem)
  /\ pc' = (IF pc = "reconnect" THEN "identify" ELSE "readback")
  /\ UNCHANGED <<plan, readsBack, todo, stop, attempted, results, outcome,
                 recordId, sent, closed, deviceVars>>

AnyNode  == TRUE
SameNode == conn = Target /\ reports[conn] = "own"

(* read_node_id before anything deferred is sent, with a clean stop_reason. *)
Identify ==
  /\ pc = "identify"
  /\ \/ SameNode /\ pc' = "deferred" /\ stop' = FALSE /\ UNCHANGED <<results, outcome>>
     \/ StopBeforeDeferred /\ UNCHANGED stop
  /\ UNCHANGED <<plan, readsBack, todo, attempted, tries, conn, mem,
                 recordId, sent, closed, deviceVars>>

(* _proven_renumber: another id, but our key and the id derived from it. *)
ProvenRenumber == plan.keys = "regenerate" /\ newKey[conn] /\ reports[conn] = "derived"

(* What the read-back shows of an item: the device's memory, or, in place, *)
(* the interface's own copy, which setOwner never updates.                 *)
Shows(x) ==
  IF readsBack THEN x \in saved[conn] \cup staged[conn] ELSE x = "owner" \/ x \in mem

(* _verify_key_material, given what the node database says of the key. *)
KeyConfirmed(nodedb) ==
  /\ nodedb # "stale"
  /\ plan.keys = "regenerate" => newKey[conn]

KeyResult(nodedb) ==
  IF plan.keys = "adopt" \/ (plan.keys = "regenerate" /\ "security" \in attempted)
  THEN Mark({"security"}, IF KeyConfirmed(nodedb) THEN "CONFIRMED" ELSE "UNCONFIRMED")
  ELSE {}

(* verify_plan: the owner fields always, a section only when attempted. *)
VerifyPlan(nodedb) ==
  LET checked == attempted \cup (PlannedItems \cap {"owner"}) IN
  Mark({x \in checked : Shows(x)}, "CONFIRMED") \cup
  Mark({x \in checked : ~Shows(x)}, "UNCONFIRMED") \cup KeyResult(nodedb)

Certain(rs) == \A r \in rs : r.status \in {"CONFIRMED", "SKIPPED"}

(* _verify_after_apply: the read-back fails, shows another node, or is     *)
(* compared with the plan; only a certain result carries a record.         *)
ReadBack ==
  /\ pc = "readback"
  /\ pc' = "done"
  /\ \/ /\ results' = results \cup VerifyFailed
        /\ outcome' = "stopped" /\ UNCHANGED recordId
     \/ /\ SameNode \/ ProvenRenumber
        /\ \E nodedb \in {"absent", "match", "stale"} :
             results' = results \cup VerifyPlan(nodedb)
        /\ outcome' = (IF Certain(results') THEN "recorded" ELSE "stopped")
        /\ recordId' = reports[conn]
  /\ UNCHANGED <<plan, readsBack, todo, stop, attempted, tries, conn, mem,
                 sent, closed, deviceVars>>

-----------------------------------------------------------------------------
Step ==
  \/ ReturnAtOnce \/ StartUntransacted \/ BeginTransaction \/ RunNamePhase
  \/ \E s \in Sections : WriteSection(s)
  \/ FinishWrites \/ CommitWhileRaising \/ CommitReturned \/ CommitRaised
  \/ ConnectFails
  \/ \E d \in Devices : Connects(d)
  \/ Identify \/ ReadBack

Done == pc = "done" /\ UNCHANGED vars

Next == Step \/ Interrupt \/ (\E d \in Devices : Reboot(d)) \/ Done

Spec == Init /\ [][Next]_vars

(* The host keeps executing: every library call returns or raises. *)
FairSpec == Spec /\ WF_vars(Step)

-----------------------------------------------------------------------------
TypeOK ==
  /\ plan \in Plans /\ readsBack \in BOOLEAN
  /\ pc \in {"start", "name", "write", "commit", "abort", "reconnect",
             "identify", "deferred", "verify", "readback", "done"}
  /\ todo \subseteq Sections /\ stop \in BOOLEAN
  /\ attempted \subseteq Sections /\ results \subseteq Results
  /\ tries \in 0..MaxTries /\ conn \in Devices /\ mem \subseteq Sections
  /\ outcome \in {"running", "raised", "stopped", "recorded"}
  /\ recordId \in {"own", "derived", "other"}
  /\ txOpen \in [Devices -> BOOLEAN]
  /\ staged \in [Devices -> SUBSET Items] /\ saved \in [Devices -> SUBSET Items]
  /\ newKey \in [Devices -> BOOLEAN]
  /\ reports \in [Devices -> {"own", "derived", "other"}]
  /\ sent \subseteq Devices \X Items /\ closed \in BOOLEAN

Finished == pc = "done"
WasSent(x) == \E d \in Devices : <<d, x>> \in sent

(* No byte of the plan ever reaches another device, whoever answers a      *)
(* reconnect: the identity check precedes everything deferred past it.     *)
OnlyTargetWritten == \A w \in sent : w[1] = Target

(* "The new keypair was never sent to the device; nothing to recover"      *)
(* (cli/provision_apply.py, which then deletes the pending keypair): true  *)
(* of every outcome that does not count security as attempted.             *)
UnattemptedMeansKeyless ==
  Finished /\ outcome # "raised" /\ "security" \notin attempted
    => \A d \in Devices : ~newKey[d]

(* A SKIPPED result is the truth: its section was never put on the wire.   *)
SkippedMeansUnsent ==
  \A r \in results : r.status = "SKIPPED" => ~WasSent(r.section)

(* Every way out accounts for what never reached the device: an unsent     *)
(* item is listed SKIPPED or FAILED, and a sent one without a result of    *)
(* its own is covered by a failed "<verify>".                              *)
EverythingAccounted ==
  Finished /\ outcome \in {"stopped", "recorded"} =>
    \A x \in PlannedItems :
      LET own == {r.status : r \in {q \in results : q.section = x}} IN
      IF WasSent(x) THEN own # {} \/ VerifyFailed \subseteq results
                    ELSE own \cap {"SKIPPED", "FAILED"} # {}

(* security may lock the node against every later write, so it leaves the  *)
(* host only after every other item was sent, none of them failed, and -   *)
(* when it was deferred - the transaction is closed.                       *)
SecurityLast ==
  WasSent("security") =>
    /\ \A x \in PlannedItems : WasSent(x)
    /\ \A r \in results : r.status = "FAILED" => r.section \in {"security", "<verify>"}
    /\ DeferSecurity => closed

(* A record is only made of what the target durably holds: every planned   *)
(* value, the new key, under the id it now reports.                        *)
RecordedMeansHeld ==
  outcome = "recorded" /\ readsBack /\ ~EmptyPlan =>
    /\ conn = Target /\ recordId = reports[Target]
    /\ plan.keys = "regenerate" => newKey[Target]
    /\ (plan.sections \cup (PlannedItems \cap {"owner"})) \subseteq saved[Target]

(* What a call reports is what happened to the device: no planned item is  *)
(* passed over in silence or said not to be sent when it was, no key is    *)
(* said to be held or not held wrongly, and what is recorded is durable.   *)
ReportIsTrue ==
  /\ SkippedMeansUnsent /\ EverythingAccounted
  /\ UnattemptedMeansKeyless /\ RecordedMeansHeld

(* Once apply_plan has written inside a transaction it does not end, not   *)
(* even by an exception, without having called commit.                     *)
TransactionClosed ==
  Finished /\ NeedsTx /\ sent # {} => closed

(* The contract callers rely on: an outcome without a record leaves the    *)
(* key "unsent" or "uncertain" by security_attempted.                      *)
Phase ==
  IF outcome # "stopped" THEN outcome
  ELSE IF "security" \in attempted THEN "uncertain" ELSE "unsent"

Contract == INSTANCE ApplyContract WITH
  regenerates <- plan.keys = "regenerate", phase <- Phase,
  exposed <- WasSent("security"), holds <- newKey[Target]

KeepsContract == Contract!Spec

(* Every call ends: retries are bounded and no step waits on another. *)
Terminates == <>Finished
=============================================================================
