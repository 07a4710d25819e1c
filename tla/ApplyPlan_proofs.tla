---------------------------- MODULE ApplyPlan_proofs ----------------------------
(***************************************************************************)
(* Proofs about ApplyPlan, for any devices, sections and number of tries.  *)
(***************************************************************************)
EXTENDS ApplyPlan, TLAPS

-----------------------------------------------------------------------------
(* TypeOK.  That tries stays in its range needs TriesLeft: the last failed *)
(* connect ends the call.  The device's side of a call comes first.        *)

TriesLeft == pc # "done" => tries < MaxTries

DeviceTypeOK ==
  /\ txOpen \in [Devices -> BOOLEAN]
  /\ staged \in [Devices -> SUBSET Items] /\ saved \in [Devices -> SUBSET Items]
  /\ newKey \in [Devices -> BOOLEAN]
  /\ reports \in [Devices -> {"own", "derived", "other"}]

LEMMA ReceiveType ==
  ASSUME DeviceTypeOK, NEW d \in Devices, NEW x \in Items, Receive(d, x)
  PROVE  DeviceTypeOK'
<1> USE DEF DeviceTypeOK
<1>1. CASE NoEffect
  BY <1>1 DEF NoEffect, deviceVars
<1>2. ASSUME TakeItem(d, x)
      PROVE  /\ txOpen' \in [Devices -> BOOLEAN]
             /\ staged' \in [Devices -> SUBSET Items] /\ saved' \in [Devices -> SUBSET Items]
  BY <1>2 DEF TakeItem
<1>3. ASSUME TakeKey(d)
      PROVE  /\ newKey' \in [Devices -> BOOLEAN]
             /\ reports' \in [Devices -> {"own", "derived", "other"}]
  BY <1>3 DEF TakeKey
<1>4. CASE TakeItem(d, x) /\ UNCHANGED <<newKey, reports>>
  BY <1>2, <1>4
<1>5. CASE TakeKey(d) /\ (TakeItem(d, x) \/ UNCHANGED <<txOpen, staged, saved>>)
  BY <1>2, <1>3, <1>5
<1> QED
  BY <1>1, <1>4, <1>5 DEF Receive

LEMMA CallType ==
  ASSUME DeviceTypeOK, NEW x \in Items, conn \in Devices, Receive(conn, x) \/ UNCHANGED deviceVars
  PROVE  DeviceTypeOK'
BY ReceiveType DEF DeviceTypeOK, deviceVars

LEMMA CommitType ==
  ASSUME DeviceTypeOK, NEW d \in Devices, ReceiveCommit(d) \/ NoEffect
  PROVE  DeviceTypeOK'
<1> USE DEF DeviceTypeOK
<1>1. CASE ReceiveCommit(d)
  <2>1. txOpen' \in [Devices -> BOOLEAN] /\ newKey' = newKey /\ reports' = reports
    BY <1>1 DEF ReceiveCommit
  <2>2. staged' \in [Devices -> SUBSET Items]
    BY <1>1 DEF ReceiveCommit
  <2>3. saved' \in [Devices -> SUBSET Items]
    BY <1>1 DEF ReceiveCommit
  <2> QED
    BY <2>1, <2>2, <2>3
<1>2. CASE NoEffect
  BY <1>2 DEF NoEffect, deviceVars
<1> QED
  BY <1>1, <1>2

LEMMA PlanItems ==
  ASSUME plan \in Plans
  PROVE  /\ PlannedItems \subseteq Items /\ Deferred \subseteq Sections
         /\ SectionsToWrite \subseteq Sections
BY DEF Plans, PlannedItems, Deferred, SectionsToWrite, Items

LEMMA Marked ==
  ASSUME NEW X \in SUBSET (Items \cup {"<verify>"}), NEW status \in Statuses
  PROVE  Mark(X, status) \subseteq Results
BY DEF Mark, Results

LEMMA InitType == Init => TypeOK
<1> SUFFICES ASSUME Init PROVE TypeOK
  OBVIOUS
<1>1. tries \in 0..MaxTries
  BY TriesAssumption DEF Init
<1>2. readsBack \in BOOLEAN
  BY DEF Init
<1> QED
  BY <1>1, <1>2, TargetAssumption DEF Init, TypeOK

LEMMA TriesStep == TypeOK /\ TriesLeft /\ [Next]_vars => TriesLeft'
<1> SUFFICES ASSUME TypeOK, TriesLeft, [Next]_vars PROVE TriesLeft'
  OBVIOUS
<1> USE DEF TypeOK, TriesLeft
<1>1. CASE ConnectFails
  BY <1>1, TriesAssumption
     DEF ConnectFails, Reconnecting, NextTry, OutOfTries, StopBeforeDeferred, Stopped
<1>2. ASSUME NEW d \in Devices, Connects(d) PROVE TriesLeft'
  BY <1>2, TriesAssumption DEF Connects
<1>3. ASSUME NEW s \in Sections, WriteSection(s) PROVE TriesLeft'
  BY <1>3 DEF WriteSection
<1>4. CASE ReturnAtOnce \/ StartUntransacted \/ BeginTransaction \/ RunNamePhase
  BY <1>4 DEF ReturnAtOnce, StartUntransacted, BeginTransaction, RunNamePhase
<1>5. CASE FinishWrites \/ CommitWhileRaising \/ CommitReturned \/ CommitRaised
           \/ Identify \/ ReadBack \/ Interrupt
  BY <1>5 DEF FinishWrites, CommitWhileRaising, CommitReturned, CommitRaised, Identify,
    ReadBack, Interrupt
<1>6. ASSUME NEW d \in Devices, Reboot(d) PROVE TriesLeft'
  BY <1>6 DEF Reboot, hostVars
<1>7. CASE UNCHANGED vars
  BY <1>7 DEF vars, hostVars
<1> QED
  BY <1>1, <1>2, <1>3, <1>4, <1>5, <1>6, <1>7 DEF Next, Step, Done

LEMMA TypeStep == TypeOK /\ TriesLeft /\ [Next]_vars => TypeOK'
<1> SUFFICES ASSUME TypeOK, TriesLeft, [Next]_vars PROVE TypeOK'
  OBVIOUS
<1> USE DEF TypeOK, deviceVars, Stopped
<1>a. DeviceTypeOK
  BY DEF DeviceTypeOK
<1>b. /\ PlannedItems \subseteq Items /\ Deferred \subseteq Sections
      /\ SectionsToWrite \subseteq Sections /\ Sections \subseteq Items
  BY PlanItems DEF Items
<1>c. /\ VerifyFailed \subseteq Results /\ Mark(Deferred, "SKIPPED") \subseteq Results
      /\ Mark(PlannedItems, "SKIPPED") \subseteq Results
  BY <1>b, Marked DEF VerifyFailed, Statuses
<1>1. CASE ReturnAtOnce
  BY <1>1, <1>c DEF ReturnAtOnce
<1>2. CASE StartUntransacted
  BY <1>2, <1>b DEF StartUntransacted
<1>3. CASE BeginTransaction
  BY <1>3, <1>b, <1>c DEF BeginTransaction
<1>4. CASE RunNamePhase
  <2>1. Mark({"owner"}, "FAILED") \subseteq Results
    BY Marked DEF Statuses, Items
  <2>2. results' \subseteq Results /\ sent' \subseteq Devices \X Items
    BY <1>4, <2>1 DEF RunNamePhase, Items
  <2>4. stop' \in BOOLEAN
    BY <1>4 DEF RunNamePhase
  <2>3. DeviceTypeOK'
    <3>1. Receive(conn, "owner") \/ UNCHANGED deviceVars
      BY <1>4 DEF RunNamePhase
    <3> QED
      BY <3>1, <1>a, CallType DEF Items
  <2> QED
    BY <1>4, <2>2, <2>3, <2>4 DEF RunNamePhase, DeviceTypeOK
<1>5. ASSUME NEW s \in Sections, WriteSection(s) PROVE TypeOK'
  <2>1. Mark({s}, "FAILED") \subseteq Results /\ Mark({s}, "SKIPPED") \subseteq Results
    BY <1>b, Marked DEF Statuses
  <2>2. results' \subseteq Results
    BY <1>5, <2>1 DEF WriteSection, Skip, Refuse, SendRaised, SendReturned
  <2>5. attempted' \subseteq Sections /\ mem' \subseteq Sections
    BY <1>5 DEF WriteSection, Skip, Refuse, SendRaised, SendReturned
  <2>6. sent' \subseteq Devices \X Items
    <3>1. sent' = sent \/ sent' = sent \cup {<<conn, s>>}
      BY <1>5 DEF WriteSection, Skip, Refuse, SendRaised, SendReturned
    <3> QED
      BY <3>1, <1>b
  <2>4. stop' \in BOOLEAN
    BY <1>5 DEF WriteSection, Skip, Refuse, SendRaised, SendReturned
  <2>3. DeviceTypeOK'
    <3>1. Receive(conn, s) \/ UNCHANGED deviceVars
      BY <1>5 DEF WriteSection, Skip, Refuse, SendRaised, SendReturned
    <3> QED
      BY <3>1, <1>a, <1>b, CallType
  <2> QED
    BY <1>5, <2>2, <2>3, <2>4, <2>5, <2>6 DEF WriteSection, DeviceTypeOK
<1>6. CASE FinishWrites
  BY <1>6 DEF FinishWrites
<1>7. CASE CommitWhileRaising
  <2>1. DeviceTypeOK'
    BY <1>7, <1>a, CommitType DEF CommitWhileRaising
  <2> QED
    BY <1>7, <2>1 DEF CommitWhileRaising, DeviceTypeOK
<1>8. CASE CommitReturned
  <2>1. DeviceTypeOK'
    BY <1>8, <1>a, CommitType DEF CommitReturned
  <2>2. results' \subseteq Results /\ todo' \subseteq Sections /\ pc' \in {"reconnect", "verify"}
    BY <1>8, <1>b, <1>c DEF CommitReturned
  <2> QED
    BY <1>8, <2>1, <2>2 DEF CommitReturned, DeviceTypeOK
<1>9. CASE CommitRaised
  <2>1. DeviceTypeOK'
    BY <1>9, <1>a, CommitType DEF CommitRaised
  <2>2. AfterFailedCommit \subseteq Results
    <3>1. attempted \cup (PlannedItems \cap {"owner"}) \subseteq Items
      BY <1>b
    <3> QED
      BY <3>1, <1>c, Marked DEF AfterFailedCommit, Statuses
  <2>3. results' \subseteq Results
    BY <1>9, <2>2, <1>c DEF CommitRaised
  <2> QED
    BY <1>9, <2>1, <2>3 DEF CommitRaised, DeviceTypeOK
<1>10. CASE ConnectFails
  <2>1. tries' \in 0..MaxTries
    <3>1. tries < MaxTries
      BY <1>10 DEF ConnectFails, Reconnecting, TriesLeft
    <3> QED
      BY <1>10, <3>1, TriesAssumption DEF ConnectFails, NextTry
  <2>2. /\ results' \subseteq Results /\ pc' \in {pc, "done"}
        /\ outcome' \in {outcome, "stopped"}
    BY <1>10, <1>c DEF ConnectFails, StopBeforeDeferred
  <2> QED
    BY <1>10, <2>1, <2>2 DEF ConnectFails
<1>11. ASSUME NEW d \in Devices, Connects(d) PROVE TypeOK'
  BY <1>11, TriesAssumption DEF Connects
<1>12. CASE Identify
  BY <1>12, <1>c DEF Identify, StopBeforeDeferred
<1>13. CASE ReadBack
  <2>1. ASSUME NEW nodedb PROVE VerifyPlan(nodedb) \subseteq Results
    <3>1. KeyResult(nodedb) \subseteq Results
      BY Marked DEF KeyResult, Statuses, Items, Sections
    <3>2. attempted \cup (PlannedItems \cap {"owner"}) \subseteq Items
      BY <1>b
    <3> QED
      BY <3>1, <3>2, Marked DEF VerifyPlan, Statuses
  <2>2. /\ results' \subseteq Results /\ outcome' \in {"stopped", "recorded"}
        /\ recordId' \in {"own", "derived", "other"}
    BY <1>13, <1>c, <2>1 DEF ReadBack
  <2> QED
    BY <1>13, <2>2 DEF ReadBack
<1>14. CASE Interrupt
  BY <1>14 DEF Interrupt
<1>15. ASSUME NEW d \in Devices, Reboot(d) PROVE TypeOK'
  BY <1>15 DEF Reboot, hostVars
<1>16. CASE UNCHANGED vars
  BY <1>16 DEF vars, hostVars
<1> QED
  BY <1>1, <1>2, <1>3, <1>4, <1>5, <1>6, <1>7, <1>8, <1>9, <1>10, <1>11, <1>12,
     <1>13, <1>14, <1>15, <1>16 DEF Next, Step, Done

LEMMA TypeInvariance == Spec => [](TypeOK /\ TriesLeft)
<1>1. Init => TriesLeft
  BY TriesAssumption DEF Init, TriesLeft
<1> QED
  BY <1>1, InitType, TypeStep, TriesStep, PTL DEF Spec

(* Every variable keeps its type; the number of failed connects of one     *)
(* refresh() never passes the session's attempts (apply_session.py).       *)
THEOREM TypeCorrect == Spec => []TypeOK
BY TypeInvariance, PTL

-----------------------------------------------------------------------------
(* Who is written to.  Up to the commit the session still has the          *)
(* interface it was given, and Identify alone leads to the deferred writes. *)

ConnIsTarget ==
  pc \in {"start", "name", "write", "commit", "reconnect", "deferred"} => conn = Target

LEMMA TargetStep ==
  ConnIsTarget /\ OnlyTargetWritten /\ [Next]_vars => ConnIsTarget' /\ OnlyTargetWritten'
<1> SUFFICES ASSUME ConnIsTarget, OnlyTargetWritten, [Next]_vars
             PROVE  ConnIsTarget' /\ OnlyTargetWritten'
  OBVIOUS
<1> USE DEF ConnIsTarget, OnlyTargetWritten, Stopped
<1>1. CASE ReturnAtOnce \/ StartUntransacted \/ BeginTransaction
  BY <1>1 DEF ReturnAtOnce, StartUntransacted, BeginTransaction
<1>2. CASE RunNamePhase
  <2>1. conn' = conn /\ conn = Target /\ (sent' = sent \/ sent' = sent \cup {<<conn, "owner">>})
    BY <1>2 DEF RunNamePhase
  <2> QED
    BY <2>1
<1>3. ASSUME NEW s \in Sections, WriteSection(s)
      PROVE  ConnIsTarget' /\ OnlyTargetWritten'
  <2>1. /\ conn' = conn /\ conn = Target /\ pc' = pc
        /\ sent' = sent \/ sent' = sent \cup {<<conn, s>>}
    BY <1>3 DEF WriteSection, Skip, Refuse, SendRaised, SendReturned
  <2> QED
    BY <2>1
<1>4. CASE FinishWrites \/ CommitWhileRaising \/ CommitReturned \/ CommitRaised
  BY <1>4 DEF FinishWrites, CommitWhileRaising, CommitReturned, CommitRaised
<1>5. CASE ConnectFails
  BY <1>5 DEF ConnectFails, StopBeforeDeferred
<1>6. ASSUME NEW d \in Devices, Connects(d)
      PROVE  ConnIsTarget' /\ OnlyTargetWritten'
  BY <1>6 DEF Connects
<1>7. CASE Identify \/ ReadBack \/ Interrupt
  BY <1>7 DEF Identify, SameNode, StopBeforeDeferred, ReadBack, Interrupt
<1>8. ASSUME NEW d \in Devices, Reboot(d)
      PROVE  ConnIsTarget' /\ OnlyTargetWritten'
  BY <1>8 DEF Reboot, hostVars
<1>9. CASE UNCHANGED vars
  BY <1>9 DEF vars, hostVars
<1> QED
  BY <1>1, <1>2, <1>3, <1>4, <1>5, <1>6, <1>7, <1>8, <1>9 DEF Next, Step, Done

(* Nothing is ever sent to another device than the plan's, whoever answers *)
(* a reconnect (apply_plan's identity check before the deferred writes).   *)
THEOREM TargetOnly == Spec => []OnlyTargetWritten
<1>1. Init => ConnIsTarget /\ OnlyTargetWritten
  BY DEF Init, ConnIsTarget, OnlyTargetWritten
<1> QED
  BY <1>1, TargetStep, PTL DEF Spec

-----------------------------------------------------------------------------
(* The transaction.  Before commit is called the program is in the region  *)
(* of the try statement whose finally clause calls it.                     *)

OpenInside ==
  NeedsTx /\ ~closed =>
    /\ pc \in {"start", "name", "write", "commit", "abort", "done"}
    /\ pc \in {"start", "done"} => sent = {}

LEMMA OpenStep == OpenInside /\ [Next]_vars => OpenInside'
<1> SUFFICES ASSUME OpenInside, [Next]_vars PROVE OpenInside'
  OBVIOUS
<1> USE DEF OpenInside, NeedsTx, Stopped
<1>1. CASE ReturnAtOnce \/ StartUntransacted \/ BeginTransaction \/ RunNamePhase
  BY <1>1 DEF ReturnAtOnce, StartUntransacted, BeginTransaction, RunNamePhase
<1>2. ASSUME NEW s \in Sections, WriteSection(s) PROVE OpenInside'
  BY <1>2 DEF WriteSection
<1>3. CASE FinishWrites \/ CommitWhileRaising \/ CommitReturned \/ CommitRaised
  BY <1>3 DEF FinishWrites, CommitWhileRaising, CommitReturned, CommitRaised
<1>4. CASE ConnectFails \/ Identify \/ ReadBack
  BY <1>4 DEF ConnectFails, Reconnecting, Identify, ReadBack
<1>5. ASSUME NEW d \in Devices, Connects(d) PROVE OpenInside'
  BY <1>5 DEF Connects, Reconnecting
<1>6. CASE Interrupt
  BY <1>6 DEF Interrupt
<1>7. ASSUME NEW d \in Devices, Reboot(d) PROVE OpenInside'
  BY <1>7 DEF Reboot, hostVars
<1>8. CASE UNCHANGED vars
  BY <1>8 DEF vars, hostVars
<1> QED
  BY <1>1, <1>2, <1>3, <1>4, <1>5, <1>6, <1>7, <1>8 DEF Next, Step, Done

(* However apply_plan ends, Ctrl-C included, a transaction something was   *)
(* written in has been committed.                                          *)
THEOREM AlwaysCommitted == Spec => []TransactionClosed
<1>1. Init => OpenInside
  BY DEF Init, OpenInside
<1>2. OpenInside => TransactionClosed
  BY DEF OpenInside, TransactionClosed, Finished
<1> QED
  BY <1>1, <1>2, OpenStep, PTL DEF Spec

-----------------------------------------------------------------------------
(* SKIPPED tells the truth: what is still to be written, now or after the  *)
(* commit, was not sent and is not reported, so marking it SKIPPED, or     *)
(* sending it, cannot contradict an earlier result.                        *)

ToWriteLater == IF pc \in {"start", "name", "write", "commit"} THEN Deferred ELSE {}
InPass       == pc \in {"write", "reconnect", "identify", "deferred"}
Skipped(x)   == \E r \in results : r.section = x /\ r.status = "SKIPPED"

Untouched ==
  /\ pc \in {"start", "name"} => sent = {} /\ results = {} /\ todo \subseteq SectionsToWrite
  /\ pc = "write" => todo \subseteq SectionsToWrite
  /\ pc \in {"reconnect", "identify"} => todo = Deferred
  /\ \A x \in ToWriteLater : ~WasSent(x)
  /\ InPass => \A x \in todo : ~WasSent(x) /\ ~Skipped(x)
  /\ pc \in {"write", "commit"} /\ ~stop => \A x \in Items : ~Skipped(x)

SkippedInv == TypeOK /\ Untouched /\ SkippedMeansUnsent

LEMMA MarkIs ==
  ASSUME NEW X, NEW status, NEW r
  PROVE  r \in Mark(X, status) => r.section \in X /\ r.status = status
BY DEF Mark

(* A step that sends nothing keeps the truth if what it marks was unsent.  *)
LEMMA Truthful ==
  ASSUME SkippedMeansUnsent, sent' = sent,
         \A r \in results' : r \in results \/ r.status # "SKIPPED" \/ ~WasSent(r.section)
  PROVE  SkippedMeansUnsent'
BY DEF SkippedMeansUnsent, WasSent

LEMMA SkippedStep == SkippedInv /\ TypeOK' /\ [Next]_vars => SkippedInv'
<1> SUFFICES ASSUME SkippedInv, TypeOK', [Next]_vars
             PROVE  Untouched' /\ SkippedMeansUnsent'
  BY DEF SkippedInv
<1> USE DEF SkippedInv, ToWriteLater, InPass
<1>a. /\ Deferred \subseteq Sections /\ SectionsToWrite \cap Deferred = {}
      /\ "owner" \notin Sections /\ Sections \subseteq Items
      /\ "<verify>" \notin Items
  BY PlanItems, SectionsAssumption DEF TypeOK, SectionsToWrite, Sections, Items
<1>b. plan' = plan /\ readsBack' = readsBack
  BY DEF Next, Step, Done, ReturnAtOnce, StartUntransacted, BeginTransaction, RunNamePhase,
    WriteSection, FinishWrites, CommitWhileRaising, CommitReturned, CommitRaised,
    ConnectFails, Connects, Identify, ReadBack, Interrupt, Reboot, vars
<1>c. Deferred' = Deferred /\ SectionsToWrite' = SectionsToWrite
  BY <1>b DEF Deferred, SectionsToWrite, DeferSecurity, NeedsTx
<1>1. CASE ReturnAtOnce
  <2>1. pc' = "done" /\ sent' = {} /\ sent = {} /\ results' = Mark(PlannedItems, "SKIPPED")
    BY <1>1 DEF ReturnAtOnce, Untouched
  <2> QED
    BY <2>1 DEF Untouched, SkippedMeansUnsent, WasSent
<1>2. CASE StartUntransacted
  <2>1. /\ pc' = "write" /\ todo' = SectionsToWrite /\ sent' = {} /\ results' = {}
    BY <1>2 DEF StartUntransacted, Untouched
  <2> QED
    BY <1>c, <2>1 DEF Untouched, SkippedMeansUnsent, WasSent, Skipped
<1>3. CASE BeginTransaction
  <2>1. sent' = {} /\ sent = {} /\ results = {}
    BY <1>3 DEF BeginTransaction, Untouched
  <2>2. CASE pc' \in {"name", "write"} /\ todo' = SectionsToWrite /\ results' = results
    BY <1>c, <2>1, <2>2 DEF Untouched, SkippedMeansUnsent, WasSent, Skipped
  <2>3. CASE pc' = "done"
    BY <2>1, <2>3 DEF Untouched, SkippedMeansUnsent, WasSent
  <2> QED
    BY <1>3, <2>2, <2>3 DEF BeginTransaction, Stopped
<1>4. CASE RunNamePhase
  <2>1. /\ pc' = "write" /\ todo' = todo /\ todo \subseteq SectionsToWrite
        /\ sent' = {} \/ sent' = {<<conn, "owner">>}
        /\ results' = {} \/ results' = Mark({"owner"}, "FAILED")
    BY <1>4 DEF RunNamePhase, Untouched
  <2>2. \A r \in results' : r.status # "SKIPPED"
    BY <2>1, MarkIs
  <2>3. \A x \in Sections : ~WasSent(x)'
    <3>1. ASSUME NEW x \in Sections, NEW d \in Devices, <<d, x>> \in sent' PROVE FALSE
      <4>1. <<d, x>> = <<conn, "owner">>
        BY <2>1, <3>1
      <4>2. x = "owner"
        BY <4>1
      <4> QED
        BY <1>a, <4>2
    <3> QED
      BY <3>1 DEF WasSent
  <2>4. \A x : ~Skipped(x)'
    BY <2>2 DEF Skipped
  <2>5. todo' \subseteq Sections /\ Deferred' \subseteq Sections
    BY <1>a, <1>c, <2>1 DEF SectionsToWrite, TypeOK
  <2>6. SkippedMeansUnsent'
    BY <2>2 DEF SkippedMeansUnsent
  <2>7. pc' = "write" /\ todo' \subseteq SectionsToWrite'
    BY <1>c, <2>1
  <2> QED
    BY <2>3, <2>4, <2>5, <2>6, <2>7 DEF Untouched
<1>5. ASSUME NEW s \in Sections, WriteSection(s) PROVE Untouched' /\ SkippedMeansUnsent'
  <2>1. /\ pc \in {"write", "deferred"} /\ pc' = pc /\ s \in todo /\ todo' = todo \ {s}
        /\ ~WasSent(s) /\ ~Skipped(s)
    BY <1>5 DEF WriteSection, IsNext, Untouched
  <2>2. ASSUME NEW x, x # s, WasSent(x)' PROVE WasSent(x)
    <3>1. sent' = sent \/ sent' = sent \cup {<<conn, s>>}
      BY <1>5 DEF WriteSection, Skip, Refuse, SendRaised, SendReturned
    <3> QED
      BY <2>2, <3>1 DEF WasSent
  <2>3. CASE Skip(s)
    <3>1. stop' /\ sent' = sent /\ results' = results \cup Mark({s}, "SKIPPED")
      BY <2>3 DEF Skip
    <3>2. ASSUME NEW x, x # s, Skipped(x)' PROVE Skipped(x)
      BY <3>1, <3>2, MarkIs DEF Skipped
    <3>3. SkippedMeansUnsent'
      BY <2>1, <3>1, MarkIs, Truthful
    <3>4. \A x \in todo' : ~WasSent(x)' /\ ~Skipped(x)'
      BY <2>1, <2>2, <3>2 DEF Untouched
    <3>5. \A x \in ToWriteLater' : ~WasSent(x)'
      BY <1>a, <1>c, <2>1, <2>2 DEF Untouched
    <3> QED
      BY <1>c, <2>1, <3>1, <3>3, <3>4, <3>5 DEF Untouched
  <2>4. CASE Refuse(s) \/ SendRaised(s) \/ SendReturned(s)
    <3>1. ~stop /\ \A r \in results' : r \in results \/ r.status # "SKIPPED"
      BY <2>4, MarkIs DEF Refuse, SendRaised, SendReturned
    <3>2. ASSUME NEW x, Skipped(x)' PROVE Skipped(x)
      BY <3>1, <3>2 DEF Skipped
    <3>3. SkippedMeansUnsent'
      BY <2>1, <2>2, <3>1 DEF SkippedMeansUnsent, Skipped
    <3>4. \A x \in todo' : ~WasSent(x)' /\ ~Skipped(x)'
      BY <2>1, <2>2, <3>2 DEF Untouched
    <3>5. \A x \in ToWriteLater' : ~WasSent(x)'
      BY <1>a, <1>c, <2>1, <2>2 DEF Untouched
    <3>6. pc' \in {"write", "commit"} => \A x \in Items : ~Skipped(x)'
      BY <2>1, <3>1, <3>2 DEF Untouched
    <3> QED
      BY <1>c, <2>1, <3>3, <3>4, <3>5, <3>6 DEF Untouched
  <2> QED
    BY <1>5, <2>3, <2>4 DEF WriteSection
<1>6. CASE FinishWrites
  <2>1. /\ pc \in {"write", "deferred"} /\ pc' \in {"commit", "verify"}
        /\ pc' = "commit" => pc = "write"
        /\ UNCHANGED <<sent, results, stop>>
    BY <1>6 DEF FinishWrites
  <2> QED
    BY <1>c, <2>1, Truthful DEF Untouched, WasSent, Skipped
<1>7. CASE CommitWhileRaising
  <2>1. pc' = "done" /\ UNCHANGED <<sent, results>>
    BY <1>7 DEF CommitWhileRaising
  <2> QED
    BY <2>1, Truthful DEF Untouched
<1>8. CASE CommitReturned
  <2>1. /\ pc = "commit" /\ sent' = sent /\ stop' = stop
        /\ \/ ~stop /\ pc' = "reconnect" /\ todo' = Deferred /\ results' = results
           \/ pc' = "verify" /\ results' = results \cup Mark(Deferred, "SKIPPED")
    BY <1>8 DEF CommitReturned, ContinueAfterCommit
  <2>2. \A x \in Deferred : ~WasSent(x)
    BY <2>1 DEF Untouched
  <2>3. SkippedMeansUnsent'
    BY <2>1, <2>2, MarkIs, Truthful
  <2>4. CASE pc' = "reconnect"
    <3>1. \A x \in Deferred : ~Skipped(x)'
      BY <1>a, <2>1, <2>4 DEF Untouched, Skipped
    <3> QED
      BY <1>c, <2>1, <2>2, <2>3, <2>4, <3>1 DEF Untouched, WasSent
  <2>5. CASE pc' = "verify"
    BY <2>3, <2>5 DEF Untouched
  <2> QED
    BY <2>1, <2>4, <2>5
<1>9. CASE CommitRaised
  <2>1. /\ pc = "commit" /\ pc' = "done" /\ sent' = sent
        /\ results' = results \cup VerifyFailed \cup AfterFailedCommit
    BY <1>9 DEF CommitRaised, Stopped
  <2>2. \A r \in AfterFailedCommit : r.status # "SKIPPED" \/ r.section \in Deferred
    BY MarkIs DEF AfterFailedCommit
  <2>3. \A r \in VerifyFailed : r.status # "SKIPPED"
    BY MarkIs DEF VerifyFailed
  <2>4. \A x \in Deferred : ~WasSent(x)
    BY <2>1 DEF Untouched
  <2> QED
    BY <2>1, <2>2, <2>3, <2>4, Truthful DEF Untouched
<1>10. ASSUME pc \in {"reconnect", "identify"}, StopBeforeDeferred, sent' = sent
       PROVE  Untouched' /\ SkippedMeansUnsent'
  <2>1. pc' = "done" /\ results' = results \cup (VerifyFailed \cup Mark(Deferred, "SKIPPED"))
    BY <1>10 DEF StopBeforeDeferred, Stopped
  <2>2. \A x \in Deferred : ~WasSent(x)
    BY <1>10 DEF Untouched
  <2>3. \A r \in VerifyFailed : r.status # "SKIPPED"
    BY MarkIs DEF VerifyFailed
  <2> QED
    BY <1>10, <2>1, <2>2, <2>3, MarkIs, Truthful DEF Untouched
<1>11. ASSUME pc' \in {pc, "done"}, UNCHANGED <<sent, results, todo, stop>>
       PROVE  Untouched' /\ SkippedMeansUnsent'
  BY <1>11, <1>c, Truthful DEF Untouched, WasSent, Skipped
<1>12. CASE ConnectFails
  <2>1. CASE OutOfTries /\ pc # "reconnect"
    <3>1. pc' = "done" /\ sent' = sent /\ results' = results \cup VerifyFailed
      BY <1>12, <2>1 DEF ConnectFails, Stopped
    <3>2. \A r \in VerifyFailed : r.status # "SKIPPED"
      BY MarkIs DEF VerifyFailed
    <3> QED
      BY <3>1, <3>2, Truthful DEF Untouched
  <2>2. CASE OutOfTries /\ pc = "reconnect"
    BY <1>10, <1>12, <2>2 DEF ConnectFails
  <2>3. CASE ~OutOfTries
    BY <1>11, <1>12, <2>3 DEF ConnectFails
  <2> QED
    BY <2>1, <2>2, <2>3
<1>13. ASSUME NEW d \in Devices, Connects(d) PROVE Untouched' /\ SkippedMeansUnsent'
  <2>1. /\ pc' = (IF pc = "reconnect" THEN "identify" ELSE "readback")
        /\ UNCHANGED <<sent, results, todo, stop>>
    BY <1>13 DEF Connects
  <2> QED
    BY <1>c, <2>1, Truthful DEF Untouched, WasSent, Skipped
<1>14. CASE Identify
  <2>1. CASE pc' = "deferred" /\ results' = results
    <3>1. pc = "identify" /\ UNCHANGED <<sent, results, todo>>
      BY <1>14, <2>1 DEF Identify
    <3> QED
      BY <2>1, <3>1, Truthful DEF Untouched, WasSent, Skipped
  <2> QED
    BY <1>10, <1>14, <2>1 DEF Identify
<1>15. CASE ReadBack
  <2>1. ASSUME NEW nodedb, NEW r \in VerifyPlan(nodedb) PROVE r.status # "SKIPPED"
    BY MarkIs DEF VerifyPlan, KeyResult
  <2>2. \A r \in VerifyFailed : r.status # "SKIPPED"
    BY MarkIs DEF VerifyFailed
  <2>3. /\ pc' = "done" /\ sent' = sent
        /\ \A r \in results' : r \in results \/ r.status # "SKIPPED"
    BY <1>15, <2>1, <2>2 DEF ReadBack
  <2> QED
    BY <2>3, Truthful DEF Untouched
<1>16. CASE Interrupt
  <2>1. pc' \in {"abort", "done"} /\ UNCHANGED <<sent, results>>
    BY <1>16 DEF Interrupt
  <2> QED
    BY <2>1, Truthful DEF Untouched
<1>17. ASSUME NEW d \in Devices, Reboot(d) PROVE Untouched' /\ SkippedMeansUnsent'
  BY <1>11, <1>17 DEF Reboot, hostVars
<1>18. CASE UNCHANGED vars
  BY <1>11, <1>18 DEF vars, hostVars
<1> QED
  BY <1>1, <1>2, <1>3, <1>4, <1>5, <1>6, <1>7, <1>8, <1>9, <1>12, <1>13, <1>14, <1>15,
     <1>16, <1>17, <1>18 DEF Next, Step, Done

(* A section reported SKIPPED was never put on the wire, before or after   *)
(* the report (_skip_unwritten and every other early end of apply_plan).   *)
THEOREM SkippedIsUnsent == Spec => []SkippedMeansUnsent
<1>1. Init => Untouched /\ SkippedMeansUnsent
  BY DEF Init, Untouched, SkippedMeansUnsent, ToWriteLater, InPass, WasSent
<1>2. SkippedInv => SkippedMeansUnsent
  BY DEF SkippedInv
<1>3. TypeOK /\ Untouched /\ SkippedMeansUnsent <=> SkippedInv
  BY DEF SkippedInv
<1> QED
  BY <1>1, <1>2, <1>3, SkippedStep, TypeCorrect, PTL DEF Spec
-----------------------------------------------------------------------------
(* What the report rests on: who sent what, and that an outcome is the end. *)

OnlyEndedHasOutcome == outcome = "running" <=> pc # "done"
AttemptedIsSent     == \A x \in Sections : x \in attempted <=> WasSent(x)
KeyWasSent ==
  \A d \in Devices : newKey[d] => plan.keys = "regenerate" /\ <<d, "security">> \in sent
KeyNeedsReadBack ==
  plan.keys = "regenerate" => readsBack /\ "security" \in plan.sections

SendingInv == TypeOK /\ OnlyEndedHasOutcome /\ AttemptedIsSent /\ KeyWasSent /\ KeyNeedsReadBack

LEMMA PlanFixed ==
  ASSUME [Next]_vars
  PROVE  /\ plan' = plan /\ readsBack' = readsBack
         /\ PlannedItems' = PlannedItems /\ NeedsTx' = NeedsTx /\ EmptyPlan' = EmptyPlan
         /\ DeferSecurity' = DeferSecurity
         /\ Deferred' = Deferred /\ SectionsToWrite' = SectionsToWrite
<1>1. plan' = plan /\ readsBack' = readsBack
  BY DEF Next, Step, Done, ReturnAtOnce, StartUntransacted, BeginTransaction, RunNamePhase,
    WriteSection, FinishWrites, CommitWhileRaising, CommitReturned, CommitRaised,
    ConnectFails, Connects, Identify, ReadBack, Interrupt, Reboot, vars
<1> QED
  BY <1>1 DEF PlannedItems, NeedsTx, EmptyPlan, Deferred, SectionsToWrite, DeferSecurity

(* What a call puts on the wire, one item at a time. *)
LEMMA OneMoreSent ==
  ASSUME NEW d, NEW s, sent' = sent \/ sent' = sent \cup {<<d, s>>}, NEW x
  PROVE  /\ WasSent(x) => WasSent(x)'
         /\ x # s => (WasSent(x)' <=> WasSent(x))
BY DEF WasSent

LEMMA KeyReceived ==
  ASSUME NEW d \in Devices, NEW x, Receive(d, x), DeviceTypeOK
  PROVE  \A e \in Devices :
           newKey'[e] => newKey[e] \/ (e = d /\ x = "security" /\ plan.keys = "regenerate")
<1>1. CASE TakeKey(d) /\ x = "security" /\ plan.keys = "regenerate"
  BY <1>1 DEF TakeKey, DeviceTypeOK
<1>2. CASE UNCHANGED newKey
  BY <1>2
<1> QED
  BY <1>1, <1>2 DEF Receive, NoEffect, deviceVars

LEMMA SendingStep == SendingInv /\ TypeOK' /\ [Next]_vars => SendingInv'
<1> SUFFICES ASSUME SendingInv, TypeOK', [Next]_vars
             PROVE  OnlyEndedHasOutcome' /\ AttemptedIsSent' /\ KeyWasSent' /\ KeyNeedsReadBack'
  BY DEF SendingInv
<1> USE DEF SendingInv
<1>a. KeyNeedsReadBack'
  BY PlanFixed DEF KeyNeedsReadBack
<1>b. DeviceTypeOK /\ plan' = plan /\ conn \in Devices
  BY PlanFixed DEF TypeOK, DeviceTypeOK
<1>c. "owner" \notin Sections
  BY SectionsAssumption DEF Sections
<1>1. ASSUME UNCHANGED <<attempted, sent, newKey>>
      PROVE  AttemptedIsSent' /\ KeyWasSent'
  BY <1>1, <1>b DEF AttemptedIsSent, KeyWasSent, WasSent
<1>2. CASE ReturnAtOnce
  BY <1>a, <1>1, <1>2 DEF ReturnAtOnce, OnlyEndedHasOutcome, deviceVars
<1>3. CASE StartUntransacted \/ FinishWrites \/ BeginTransaction
  BY <1>a, <1>1, <1>3
     DEF StartUntransacted, FinishWrites, BeginTransaction, Stopped, OnlyEndedHasOutcome, deviceVars
<1>4. CASE RunNamePhase
  <2>1. OnlyEndedHasOutcome'
    BY <1>4 DEF RunNamePhase, OnlyEndedHasOutcome
  <2>2. /\ attempted' = attempted
        /\ sent' = sent \/ sent' = sent \cup {<<conn, "owner">>}
    BY <1>4 DEF RunNamePhase
  <2>3. AttemptedIsSent'
    BY <1>c, <2>2, OneMoreSent DEF AttemptedIsSent
  <2>4. ASSUME UNCHANGED deviceVars PROVE KeyWasSent'
    BY <1>b, <2>2, <2>4 DEF deviceVars, KeyWasSent
  <2>5. ASSUME Receive(conn, "owner") PROVE KeyWasSent'
    <3>1. \A d \in Devices : newKey'[d] => newKey[d]
      BY <1>b, <2>5, KeyReceived
    <3> QED
      BY <1>b, <2>2, <3>1 DEF KeyWasSent
  <2> QED
    BY <1>4, <1>a, <2>1, <2>3, <2>4, <2>5 DEF RunNamePhase
<1>5. ASSUME NEW s \in Sections, WriteSection(s)
      PROVE  OnlyEndedHasOutcome' /\ AttemptedIsSent' /\ KeyWasSent'
  <2>1. OnlyEndedHasOutcome'
    BY <1>5 DEF WriteSection, OnlyEndedHasOutcome
  <2>2. CASE Skip(s) \/ Refuse(s)
    BY <1>1, <2>1, <2>2 DEF Skip, Refuse, deviceVars
  <2>3. CASE SendRaised(s) \/ SendReturned(s)
    <3>1. /\ attempted' = attempted \cup {s} /\ sent' = sent \cup {<<conn, s>>}
          /\ Receive(conn, s)
      BY <2>3 DEF SendRaised, SendReturned
    <3>2. WasSent(s)'
      BY <1>b, <3>1 DEF WasSent
    <3>3. AttemptedIsSent'
      BY <3>1, <3>2, OneMoreSent DEF AttemptedIsSent
    <3>4. KeyWasSent'
      BY <1>b, <3>1, KeyReceived DEF KeyWasSent
    <3> QED
      BY <2>1, <3>3, <3>4
  <2> QED
    BY <1>5, <2>2, <2>3 DEF WriteSection
<1>6. CASE CommitWhileRaising \/ CommitReturned \/ CommitRaised
  BY <1>a, <1>1, <1>6
     DEF CommitWhileRaising, CommitReturned, CommitRaised, ReceiveCommit, NoEffect, deviceVars,
         Stopped, OnlyEndedHasOutcome
<1>7. CASE ConnectFails
  BY <1>a, <1>1, <1>7 DEF ConnectFails, Reconnecting, StopBeforeDeferred, Stopped, deviceVars,
    OnlyEndedHasOutcome
<1>8. ASSUME NEW d \in Devices, Connects(d)
      PROVE  OnlyEndedHasOutcome' /\ AttemptedIsSent' /\ KeyWasSent'
  BY <1>1, <1>8 DEF Connects, Reconnecting, deviceVars, OnlyEndedHasOutcome
<1>9. CASE Identify \/ ReadBack \/ Interrupt
  BY <1>a, <1>1, <1>9 DEF Identify, ReadBack, Interrupt, StopBeforeDeferred, Stopped, deviceVars,
    OnlyEndedHasOutcome
<1>10. ASSUME NEW d \in Devices, Reboot(d)
       PROVE  OnlyEndedHasOutcome' /\ AttemptedIsSent' /\ KeyWasSent'
  BY <1>1, <1>10 DEF Reboot, hostVars, OnlyEndedHasOutcome
<1>11. CASE UNCHANGED vars
  BY <1>a, <1>1, <1>11 DEF vars, hostVars, deviceVars, OnlyEndedHasOutcome
<1> QED
  BY <1>a, <1>2, <1>3, <1>4, <1>5, <1>6, <1>7, <1>8, <1>9, <1>10, <1>11 DEF Next, Step, Done

LEMMA SendingInvariance == Spec => []SendingInv
<1>1. Init => OnlyEndedHasOutcome /\ AttemptedIsSent /\ KeyWasSent /\ KeyNeedsReadBack
  BY DEF Init, Plans, OnlyEndedHasOutcome, AttemptedIsSent, KeyWasSent, KeyNeedsReadBack, WasSent
<1>2. TypeOK /\ OnlyEndedHasOutcome /\ AttemptedIsSent /\ KeyWasSent /\ KeyNeedsReadBack
        <=> SendingInv
  BY DEF SendingInv
<1> QED
  BY <1>1, <1>2, SendingStep, TypeCorrect, PTL DEF Spec

(* A call that does not count security as attempted leaves no device with  *)
(* the new key (provision_apply.py: "was never sent to the device; nothing *)
(* to recover"): the caller may drop the pending keypair.                  *)
THEOREM KeylessUnlessAttempted == Spec => []UnattemptedMeansKeyless
<1>1. SendingInv => UnattemptedMeansKeyless
  <2> SUFFICES ASSUME SendingInv, "security" \notin attempted, NEW d \in Devices, newKey[d]
               PROVE  FALSE
    BY DEF UnattemptedMeansKeyless
  <2>1. WasSent("security")
    BY DEF SendingInv, KeyWasSent, WasSent
  <2> QED
    BY <2>1 DEF SendingInv, AttemptedIsSent, Sections
<1> QED
  BY <1>1, SendingInvariance, PTL

-----------------------------------------------------------------------------
(* What is still ahead of a call.  A planned item is ahead, was sent, or    *)
(* has a result that says why not; what was skipped was skipped because     *)
(* another item failed.                                                     *)

Failed(x) == \E r \in results : r.section = x /\ r.status = "FAILED"

Underway == pc \notin {"start", "abort", "done"}
Ahead ==
  IF pc = "name" THEN {"owner"} \cup todo \cup Deferred
  ELSE IF pc = "write" THEN todo \cup Deferred
  ELSE IF pc = "commit" THEN Deferred
  ELSE IF pc \in {"reconnect", "identify", "deferred"} THEN todo ELSE {}

NoneMissed ==
  Underway => \A x \in PlannedItems : x \in Ahead \/ WasSent(x) \/ Failed(x) \/ Skipped(x)

StopHasFailed ==
  pc # "done" /\ (stop \/ \E x \in Items : Skipped(x)) => \E x \in Items : Failed(x)

NotStopped ==
  /\ pc \in {"start", "name", "reconnect", "identify"} => ~stop
  /\ pc \in {"reconnect", "identify"} => Deferred # {}
  /\ Underway /\ ~stop /\ pc \notin {"verify", "readback"} => results = {}

AheadInv == SkippedInv /\ NoneMissed /\ StopHasFailed /\ NotStopped

LEMMA MarkHas ==
  ASSUME NEW X, NEW status, NEW x \in X
  PROVE  \E r \in Mark(X, status) : r.section = x /\ r.status = status
<1>1. [section |-> x, status |-> status] \in Mark(X, status)
  BY DEF Mark
<1> QED
  BY <1>1

(* A step that adds to the results keeps what they say. *)
LEMMA ResultsKept ==
  ASSUME results \subseteq results', NEW x
  PROVE  (Failed(x) => Failed(x)') /\ (Skipped(x) => Skipped(x)')
BY DEF Failed, Skipped

LEMMA PlanSplit ==
  ASSUME plan \in Plans
  PROVE  /\ PlannedItems = plan.sections \cup (IF plan.owner THEN {"owner"} ELSE {})
         /\ plan.sections = SectionsToWrite \cup Deferred
         /\ ~NeedsTx => Deferred = {} /\ ~plan.owner
BY DEF PlannedItems, SectionsToWrite, Deferred, DeferSecurity, NeedsTx

LEMMA AheadStep == AheadInv /\ SkippedInv' /\ [Next]_vars => AheadInv'
<1> SUFFICES ASSUME AheadInv, SkippedInv', [Next]_vars
             PROVE  NoneMissed' /\ StopHasFailed' /\ NotStopped'
  BY DEF AheadInv
<1> USE DEF AheadInv, Underway
<1>a. /\ PlannedItems' = PlannedItems /\ Deferred' = Deferred
      /\ SectionsToWrite' = SectionsToWrite
  BY PlanFixed
<1>b. /\ plan \in Plans /\ PlannedItems \subseteq Items /\ Deferred \subseteq Sections
      /\ "owner" \in Items
  BY PlanItems DEF SkippedInv, TypeOK, Items
<1>0. ASSUME pc' = "done" \/ (pc' = "abort" /\ pc # "done" /\ UNCHANGED <<results, stop>>)
      PROVE  NoneMissed' /\ StopHasFailed' /\ NotStopped'
  BY <1>0 DEF NoneMissed, StopHasFailed, NotStopped, Failed, Skipped
<1>1. CASE ReturnAtOnce
  BY <1>0, <1>1 DEF ReturnAtOnce
<1>2. CASE StartUntransacted
  <2>1. /\ pc' = "write" /\ todo' = SectionsToWrite /\ ~NeedsTx
        /\ pc = "start" /\ UNCHANGED <<stop, results>> /\ ~stop /\ results = {}
    BY <1>2 DEF StartUntransacted, NotStopped, SkippedInv, Untouched
  <2> QED
    BY <1>a, <1>b, <2>1, PlanSplit
       DEF NoneMissed, Ahead, StopHasFailed, NotStopped, Failed, Skipped
<1>3. CASE BeginTransaction
  <2>1. CASE pc' = "done"
    BY <1>0, <2>1
  <2>2. CASE pc' # "done"
    <3>1. /\ pc' = (IF plan.owner THEN "name" ELSE "write") /\ todo' = SectionsToWrite
          /\ pc = "start" /\ UNCHANGED <<stop, results>> /\ ~stop /\ results = {}
      BY <1>3, <2>2 DEF BeginTransaction, Stopped, NotStopped, SkippedInv, Untouched
    <3> QED
      BY <1>a, <1>b, <3>1, PlanSplit
         DEF NoneMissed, Ahead, StopHasFailed, NotStopped, Failed, Skipped
  <2> QED
    BY <2>1, <2>2
<1>4. CASE RunNamePhase
  <2>1. /\ pc = "name" /\ pc' = "write" /\ todo' = todo /\ results = {} /\ ~stop
    BY <1>4 DEF RunNamePhase, NotStopped, SkippedInv, Untouched
  <2>2. \A x : WasSent(x) => WasSent(x)'
    BY <1>4, OneMoreSent DEF RunNamePhase
  <2>3. \A x \in PlannedItems \ {"owner"} : x \in Ahead' \/ WasSent(x)'
    BY <1>a, <2>1, <2>2 DEF NoneMissed, Ahead, Failed, Skipped
  <2>4. CASE results' = Mark({"owner"}, "FAILED") /\ stop'
    <3>1. Failed("owner")' /\ \A x : ~Skipped(x)'
      BY <2>4, MarkHas, MarkIs DEF Failed, Skipped
    <3> QED
      BY <1>a, <1>b, <2>1, <2>3, <2>4, <3>1 DEF NoneMissed, StopHasFailed, NotStopped
  <2>5. CASE results' = {} /\ ~stop' /\ sent' = sent \cup {<<conn, "owner">>}
    <3>1. WasSent("owner")'
      BY <2>5 DEF WasSent, SkippedInv, TypeOK
    <3> QED
      BY <1>a, <2>1, <2>3, <2>5, <3>1 DEF NoneMissed, StopHasFailed, NotStopped, Skipped
  <2> QED
    BY <1>4, <2>1, <2>4, <2>5 DEF RunNamePhase
<1>5. ASSUME NEW s \in Sections, WriteSection(s)
      PROVE  NoneMissed' /\ StopHasFailed' /\ NotStopped'
  <2>1. /\ pc \in {"write", "deferred"} /\ pc' = pc /\ s \in todo /\ todo' = todo \ {s}
        /\ results \subseteq results'
    BY <1>5 DEF WriteSection, IsNext, Skip, Refuse, SendRaised, SendReturned
  <2>2. \A x : (Failed(x) => Failed(x)') /\ (Skipped(x) => Skipped(x)')
    BY <2>1, ResultsKept
  <2>3. \A x : WasSent(x) => WasSent(x)'
    BY <1>5, OneMoreSent DEF WriteSection, Skip, Refuse, SendRaised, SendReturned
  <2>4. \A x \in PlannedItems \ {s} : x \in Ahead' \/ WasSent(x)' \/ Failed(x)' \/ Skipped(x)'
    BY <1>a, <2>1, <2>2, <2>3 DEF NoneMissed, Ahead
  <2>5. CASE Skip(s)
    <3>1. stop /\ stop' /\ \E x \in Items : Failed(x)'
      BY <2>1, <2>2, <2>5 DEF Skip, StopHasFailed
    <3>2. Skipped(s)'
      BY <2>5, MarkHas DEF Skip, Skipped
    <3> QED
      BY <1>a, <2>1, <2>4, <3>1, <3>2 DEF NoneMissed, StopHasFailed, NotStopped
  <2>6. CASE Refuse(s) \/ SendRaised(s)
    <3>1. stop' /\ Failed(s)'
      BY <2>6, MarkHas DEF Refuse, SendRaised, Failed
    <3> QED
      BY <1>a, <2>1, <2>4, <3>1 DEF NoneMissed, StopHasFailed, NotStopped, Items
  <2>7. CASE SendReturned(s)
    <3>1. WasSent(s)' /\ UNCHANGED <<stop, results>>
      BY <2>7 DEF SendReturned, WasSent, SkippedInv, TypeOK
    <3> QED
      BY <1>a, <2>1, <2>4, <3>1 DEF NoneMissed, StopHasFailed, NotStopped, Failed, Skipped
  <2> QED
    BY <1>5, <2>5, <2>6, <2>7 DEF WriteSection
<1>6. CASE FinishWrites
  <2>1. /\ todo = {} /\ UNCHANGED <<results, stop, sent>>
        /\ \/ pc = "write" /\ NeedsTx /\ pc' = "commit"
           \/ pc = "write" /\ ~NeedsTx /\ pc' = "verify"
           \/ pc = "deferred" /\ pc' = "verify"
    BY <1>6 DEF FinishWrites
  <2>2. pc = "write" /\ ~NeedsTx => Deferred = {}
    BY <1>b, PlanSplit
  <2> QED
    BY <1>a, <2>1, <2>2
       DEF NoneMissed, Ahead, StopHasFailed, NotStopped, Failed, Skipped, WasSent
<1>7. CASE CommitWhileRaising \/ CommitRaised
  BY <1>0, <1>7 DEF CommitWhileRaising, CommitRaised, Stopped
<1>8. CASE CommitReturned
  <2>1. CASE pc' = "reconnect"
    <3>1. /\ pc = "commit" /\ ~stop /\ todo' = Deferred /\ Deferred # {}
          /\ UNCHANGED <<results, stop, sent>>
      BY <1>8, <2>1 DEF CommitReturned, ContinueAfterCommit
    <3> QED
      BY <1>a, <2>1, <3>1
         DEF NoneMissed, Ahead, StopHasFailed, NotStopped, Failed, Skipped, WasSent
  <2>2. CASE pc' = "verify"
    <3>1. /\ pc = "commit" /\ UNCHANGED <<stop, sent>>
          /\ stop \/ Deferred = {}
          /\ results' = results \cup Mark(Deferred, "SKIPPED")
      BY <1>8, <2>2 DEF CommitReturned, ContinueAfterCommit
    <3>2. \A x : (Failed(x) => Failed(x)') /\ (Skipped(x) => Skipped(x)')
      BY <3>1, ResultsKept
    <3>3. \A x \in Deferred : Skipped(x)'
      BY <3>1, MarkHas DEF Skipped
    <3>4. NoneMissed'
      BY <1>a, <3>1, <3>2, <3>3 DEF NoneMissed, Ahead, WasSent
    <3>5. StopHasFailed'
      <4>1. CASE stop
        BY <3>1, <3>2, <4>1 DEF StopHasFailed
      <4>2. CASE Deferred = {}
        BY <3>1, <4>2, MarkIs, <3>2 DEF StopHasFailed, Skipped
      <4> QED
        BY <3>1, <4>1, <4>2
    <3> QED
      BY <2>2, <3>4, <3>5 DEF NotStopped
  <2> QED
    BY <1>8, <2>1, <2>2 DEF CommitReturned
<1>9. ASSUME UNCHANGED <<results, stop, todo, sent>>, pc' \notin {"start", "name"},
             \/ pc' = pc
             \/ pc = "reconnect" /\ pc' = "identify"
             \/ pc = "identify" /\ pc' = "deferred"
             \/ pc = "verify" /\ pc' = "readback"
      PROVE  NoneMissed' /\ StopHasFailed' /\ NotStopped'
  BY <1>9, <1>a DEF NoneMissed, Ahead, StopHasFailed, NotStopped, Failed, Skipped, WasSent
<1>10. CASE ConnectFails
  <2>1. pc' \in {pc, "done"}
    BY <1>10 DEF ConnectFails, StopBeforeDeferred, Stopped
  <2>2. CASE pc' = pc
    BY <1>9, <1>10, <2>2 DEF ConnectFails, Reconnecting, StopBeforeDeferred, Stopped
  <2> QED
    BY <1>0, <2>1, <2>2
<1>11. ASSUME NEW d \in Devices, Connects(d)
       PROVE  NoneMissed' /\ StopHasFailed' /\ NotStopped'
  BY <1>9, <1>11 DEF Connects, Reconnecting
<1>12. CASE Identify
  <2>1. CASE pc' = "deferred"
    BY <1>9, <1>12, <2>1 DEF Identify, NotStopped, SkippedInv, TypeOK, StopBeforeDeferred, Stopped
  <2> QED
    BY <1>0, <1>12, <2>1 DEF Identify, StopBeforeDeferred, Stopped
<1>13. CASE ReadBack \/ Interrupt
  BY <1>0, <1>13 DEF ReadBack, Interrupt
<1>14. CASE UNCHANGED <<pc, results, stop, todo, sent>>
  BY <1>a, <1>14 DEF NoneMissed, Ahead, StopHasFailed, NotStopped, Failed, Skipped, WasSent
<1>15. ASSUME NEW d \in Devices, Reboot(d)
       PROVE  NoneMissed' /\ StopHasFailed' /\ NotStopped'
  BY <1>14, <1>15 DEF Reboot, hostVars
<1>16. CASE UNCHANGED vars
  BY <1>14, <1>16 DEF vars, hostVars
<1> QED
  BY <1>1, <1>2, <1>3, <1>4, <1>5, <1>6, <1>7, <1>8, <1>10, <1>11, <1>12, <1>13, <1>15, <1>16
     DEF Next, Step, Done

LEMMA AheadInvariance == Spec => []AheadInv
<1>1. Init => NoneMissed /\ StopHasFailed /\ NotStopped
  BY DEF Init, NoneMissed, StopHasFailed, NotStopped, Underway, Skipped
<1>2. Init => SkippedInv
  BY InitType DEF Init, SkippedInv, Untouched, SkippedMeansUnsent, ToWriteLater, InPass, WasSent
<1>3. SkippedInv /\ NoneMissed /\ StopHasFailed /\ NotStopped <=> AheadInv
  BY DEF AheadInv
<1>4. AheadInv => SkippedInv
  BY DEF AheadInv
<1> QED
  BY <1>1, <1>2, <1>3, <1>4, AheadStep, SkippedStep, TypeCorrect, PTL DEF Spec

-----------------------------------------------------------------------------
(* security last of all. *)

NothingAfterSecurity == WasSent("security") /\ pc \in {"write", "deferred"} => todo = {}
SecurityInv == AheadInv /\ OpenInside /\ NothingAfterSecurity /\ SecurityLast

LEMMA SecurityStep == SecurityInv /\ AheadInv' /\ OpenInside' /\ [Next]_vars => SecurityInv'
<1> SUFFICES ASSUME SecurityInv, AheadInv', OpenInside', [Next]_vars
             PROVE  NothingAfterSecurity' /\ SecurityLast'
  BY DEF SecurityInv
<1> USE DEF SecurityInv, AheadInv, SkippedInv
<1>a. /\ PlannedItems' = PlannedItems /\ DeferSecurity' = DeferSecurity
      /\ Deferred' = Deferred /\ SectionsToWrite' = SectionsToWrite
  BY PlanFixed
<1>b. Deferred # {} => DeferSecurity /\ "security" \in Deferred
  BY DEF Deferred, DeferSecurity
<1>c. PlannedItems = {x \in Items : x \in PlannedItems} /\ "owner" \notin Sections
  BY PlanItems, SectionsAssumption DEF TypeOK, Sections
<1>1. ASSUME sent' = sent, closed => closed',
             \A r \in results' : \/ r \in results \/ r.status # "FAILED"
                                 \/ r.section = "<verify>"
      PROVE  SecurityLast'
  BY <1>1, <1>a DEF SecurityLast, WasSent
<1>v. \A r \in VerifyFailed : r.section = "<verify>"
  BY MarkIs DEF VerifyFailed
<1>s. \A X : \A r \in Mark(X, "SKIPPED") \cup Mark(X, "UNCONFIRMED") \cup Mark(X, "CONFIRMED") :
        r.status # "FAILED"
  BY MarkIs
<1>2. CASE pc \in {"start", "name"}
  <2>1. sent = {} /\ "security" # "owner"
    BY <1>2 DEF Untouched
  <2>2. \A w \in sent' : w[2] = "owner"
    BY <1>2, <2>1
       DEF Next, Step, Done, ReturnAtOnce, StartUntransacted, BeginTransaction, RunNamePhase,
           WriteSection, FinishWrites, CommitWhileRaising, CommitReturned, CommitRaised,
           ConnectFails, Reconnecting, Connects, Identify, ReadBack, Interrupt, Reboot, vars,
           hostVars
  <2>3. ~WasSent("security")'
    BY <2>1, <2>2 DEF WasSent
  <2> QED
    BY <2>3 DEF NothingAfterSecurity, SecurityLast
<1>3. ASSUME NEW s \in Sections, WriteSection(s)
      PROVE  NothingAfterSecurity' /\ SecurityLast'
  <2>1. /\ pc \in {"write", "deferred"} /\ pc' = pc /\ s \in todo /\ todo' = todo \ {s}
        /\ s = "security" => todo = {"security"}
        /\ closed' = closed
    BY <1>3 DEF WriteSection, IsNext
  <2>2. ~WasSent("security")
    BY <2>1 DEF NothingAfterSecurity
  <2>3. sent' = sent \/ sent' = sent \cup {<<conn, s>>}
    BY <1>3 DEF WriteSection, Skip, Refuse, SendRaised, SendReturned
  <2>4. CASE ~WasSent("security")'
    BY <2>4 DEF NothingAfterSecurity, SecurityLast
  <2>5. CASE WasSent("security")'
    <3>1. s = "security" /\ todo' = {} /\ todo = {"security"}
      <4>1. s = "security"
        BY <2>2, <2>3, <2>5 DEF WasSent
      <4> QED
        BY <2>1, <4>1
    <3>2. SendRaised(s) \/ SendReturned(s)
      BY <1>3, <2>2, <2>5 DEF WriteSection, Skip, Refuse, WasSent
    <3>3. results = {}
      BY <2>1, <3>2 DEF SendRaised, SendReturned, NotStopped, Underway
    <3>4. pc = "write" => Deferred = {} /\ ~DeferSecurity
      <4>1. pc = "write" => "security" \in plan.sections /\ "security" \notin Deferred
        BY <3>1 DEF Untouched, SectionsToWrite
      <4> QED
        BY <1>b, <4>1 DEF Deferred
    <3>5. \A x \in PlannedItems : WasSent(x)'
      <4>1. \A x \in PlannedItems : x = "security" \/ WasSent(x)
        BY <2>1, <3>1, <3>3, <3>4 DEF NoneMissed, Underway, Ahead, Failed, Skipped
      <4> QED
        BY <2>3, <2>5, <4>1, OneMoreSent
    <3>6. DeferSecurity => closed'
      BY <2>1, <3>4 DEF OpenInside, DeferSecurity
    <3>7. \A r \in results' : r.section = "security"
      BY <3>1, <3>2, <3>3, MarkIs DEF SendRaised, SendReturned
    <3> QED
      BY <1>a, <3>1, <3>5, <3>6, <3>7 DEF NothingAfterSecurity, SecurityLast
  <2> QED
    BY <2>4, <2>5
<1>4. ASSUME pc \notin {"start", "name"}, \A s \in Sections : ~WriteSection(s)
      PROVE  NothingAfterSecurity' /\ SecurityLast'
  <2>1. sent' = sent /\ (closed => closed')
    BY <1>4 DEF Next, Step, Done, ReturnAtOnce, StartUntransacted, BeginTransaction,
      RunNamePhase, FinishWrites, CommitWhileRaising, CommitReturned, CommitRaised,
      ConnectFails, Connects, Identify, ReadBack, Interrupt, Reboot, vars, hostVars
  <2>2. NothingAfterSecurity'
    <3>1. CASE pc \in {"write", "deferred"} /\ todo' = todo
      BY <2>1, <3>1 DEF NothingAfterSecurity, WasSent
    <3>2. CASE Identify /\ pc' = "deferred"
      <4>1. todo' = Deferred /\ \A x \in Deferred : ~WasSent(x)
        BY <3>2 DEF Identify, Untouched, InPass
      <4> QED
        BY <1>b, <2>1, <4>1 DEF NothingAfterSecurity, WasSent
    <3>3. CASE pc' \notin {"write", "deferred"}
      BY <3>3 DEF NothingAfterSecurity
    <3>4. \/ pc' = pc /\ todo' = todo
          \/ pc' \notin {"write", "deferred"}
          \/ Identify /\ pc' = "deferred"
      BY <1>4 DEF Next, Step, Done, ReturnAtOnce, StartUntransacted, BeginTransaction,
        RunNamePhase, FinishWrites, CommitWhileRaising, CommitReturned, CommitRaised,
        ConnectFails, StopBeforeDeferred, Stopped, Connects, Identify, ReadBack, Interrupt,
        Reboot, vars, hostVars
    <3> QED
      BY <3>1, <3>2, <3>3, <3>4
  <2>3. \A r \in results' : r \in results \/ r.status # "FAILED" \/ r.section = "<verify>"
    <3>1. CASE FinishWrites \/ CommitWhileRaising \/ Interrupt \/ UNCHANGED vars
      BY <3>1 DEF FinishWrites, CommitWhileRaising, Interrupt, vars, hostVars
    <3>2. CASE CommitReturned
      BY <1>s, <3>2 DEF CommitReturned
    <3>3. CASE CommitRaised
      BY <1>s, <1>v, <3>3 DEF CommitRaised, Stopped, AfterFailedCommit
    <3>4. CASE ConnectFails
      BY <1>s, <1>v, <3>4 DEF ConnectFails, StopBeforeDeferred, Stopped
    <3>5. CASE Identify
      BY <1>s, <1>v, <3>5 DEF Identify, StopBeforeDeferred, Stopped
    <3>6. CASE ReadBack
      <4>1. ASSUME NEW nodedb, NEW r \in VerifyPlan(nodedb) PROVE r.status # "FAILED"
        BY MarkIs DEF VerifyPlan, KeyResult
      <4> QED
        BY <1>v, <3>6, <4>1 DEF ReadBack
    <3>7. ASSUME NEW d \in Devices, Connects(d) \/ Reboot(d) PROVE results' = results
      BY <3>7 DEF Connects, Reboot, hostVars
    <3> QED
      BY <1>4, <3>1, <3>2, <3>3, <3>4, <3>5, <3>6, <3>7
         DEF Next, Step, Done, ReturnAtOnce, StartUntransacted, BeginTransaction, RunNamePhase
  <2> QED
    BY <1>1, <2>1, <2>2, <2>3
<1> QED
  BY <1>2, <1>3, <1>4

(* The security section, which may lock the node against later writes,     *)
(* leaves the host only after every other planned item did, none failed,   *)
(* and a transaction it was deferred past is closed (apply_plan's two      *)
(* passes of _write_in_order).                                             *)
THEOREM SecurityIsLast == Spec => []SecurityLast
<1>1. Init => OpenInside /\ NothingAfterSecurity /\ SecurityLast
  BY DEF Init, OpenInside, NothingAfterSecurity, SecurityLast, WasSent
<1>2. AheadInv /\ OpenInside /\ NothingAfterSecurity /\ SecurityLast <=> SecurityInv
  BY DEF SecurityInv
<1> QED
  BY <1>1, <1>2, SecurityStep, OpenStep, AheadInvariance, PTL DEF Spec

-----------------------------------------------------------------------------
(* Every way out accounts for every planned item. *)

HasResult(x) == \E r \in results : r.section = x
AccountedFor(x) ==
  /\ WasSent(x) => HasResult(x) \/ VerifyFailed \subseteq results
  /\ ~WasSent(x) => Failed(x) \/ Skipped(x)

Accounted ==
  pc = "done" /\ outcome \in {"stopped", "recorded"} => \A x \in PlannedItems : AccountedFor(x)

LEMMA AccountedIs == EverythingAccounted <=> Accounted
<1> SUFFICES ASSUME NEW x \in PlannedItems
             PROVE  LET own == {r.status : r \in {q \in results : q.section = x}} IN
                    (IF WasSent(x) THEN own # {} \/ VerifyFailed \subseteq results
                                   ELSE own \cap {"SKIPPED", "FAILED"} # {})
                    <=> AccountedFor(x)
  BY DEF EverythingAccounted, Accounted, Finished
<1> DEFINE own == {r.status : r \in {q \in results : q.section = x}}
<1>1. own # {} <=> HasResult(x)
  BY DEF HasResult
<1>2. own \cap {"SKIPPED", "FAILED"} # {} <=> Failed(x) \/ Skipped(x)
  BY DEF Failed, Skipped
<1> QED
  BY <1>1, <1>2 DEF AccountedFor

EndedInv == AheadInv /\ SendingInv /\ Accounted

LEMMA AccountedStep ==
  EndedInv /\ AheadInv' /\ SendingInv' /\ [Next]_vars => EndedInv'
<1> SUFFICES ASSUME EndedInv, SendingInv', [Next]_vars, pc' = "done",
                    outcome' \in {"stopped", "recorded"}, NEW x \in PlannedItems
             PROVE  AccountedFor(x)'
  BY PlanFixed DEF EndedInv, Accounted
<1> USE DEF EndedInv
<1>a. PlannedItems \subseteq Items /\ Deferred \subseteq Sections
  BY PlanItems DEF SendingInv, TypeOK
<1>1. CASE pc = "done"
  <2>1. UNCHANGED <<outcome, results, sent>>
    BY <1>1 DEF Next, Step, Done, ReturnAtOnce, StartUntransacted, BeginTransaction,
      RunNamePhase, WriteSection, FinishWrites, CommitWhileRaising, CommitReturned,
      CommitRaised, ConnectFails, Reconnecting, Connects, Identify, ReadBack, Interrupt,
      Reboot, vars, hostVars
  <2>2. AccountedFor(x)
    BY <1>1, <2>1 DEF Accounted
  <2> QED
    BY <2>1, <2>2 DEF AccountedFor, HasResult, Failed, Skipped, WasSent, VerifyFailed, Mark
<1>2. ASSUME pc # "done", sent' = sent, WasSent(x) => VerifyFailed \subseteq results',
             results \subseteq results', \A y \in Ahead : Skipped(y)', Underway
      PROVE  AccountedFor(x)'
  <2>1. x \in Ahead \/ WasSent(x) \/ Failed(x)' \/ Skipped(x)'
    BY <1>2, ResultsKept DEF AheadInv, NoneMissed
  <2>2. WasSent(x)' <=> WasSent(x)
    BY <1>2 DEF WasSent
  <2>3. VerifyFailed' = VerifyFailed
    BY DEF VerifyFailed, Mark
  <2> QED
    BY <1>2, <2>1, <2>2, <2>3 DEF AccountedFor
<1>3. CASE ReturnAtOnce \/ BeginTransaction
  <2>1. sent' = {}
    BY <1>3 DEF ReturnAtOnce, BeginTransaction, AheadInv, SkippedInv, Untouched
  <2>2. Mark(PlannedItems, "SKIPPED") \subseteq results'
    BY <1>3 DEF ReturnAtOnce, BeginTransaction, Stopped
  <2>3. Skipped(x)'
    BY <2>2, MarkHas DEF Skipped
  <2> QED
    BY <2>1, <2>3 DEF AccountedFor, WasSent
<1>4. CASE CommitRaised
  <2>1. /\ pc = "commit" /\ sent' = sent /\ VerifyFailed \subseteq results'
        /\ Mark(Deferred, "SKIPPED") \subseteq results' /\ results \subseteq results'
    BY <1>4 DEF CommitRaised, Stopped, AfterFailedCommit
  <2>2. \A y \in Deferred : Skipped(y)'
    BY <2>1, MarkHas DEF Skipped
  <2> QED
    BY <1>2, <2>1, <2>2 DEF Ahead, Underway
<1>5. ASSUME pc \in {"reconnect", "identify"}, sent' = sent, StopBeforeDeferred
      PROVE  AccountedFor(x)'
  <2>1. /\ todo = Deferred /\ VerifyFailed \subseteq results'
        /\ Mark(Deferred, "SKIPPED") \subseteq results' /\ results \subseteq results'
    BY <1>5 DEF StopBeforeDeferred, Stopped, AheadInv, SkippedInv, Untouched
  <2>2. \A y \in Deferred : Skipped(y)'
    BY <2>1, MarkHas DEF Skipped
  <2> QED
    BY <1>2, <1>5, <2>1, <2>2 DEF Ahead, Underway
<1>6. ASSUME pc \in {"verify", "readback"}, sent' = sent, results' = results \cup VerifyFailed
      PROVE  AccountedFor(x)'
  BY <1>2, <1>6 DEF Ahead, Underway
<1>7. CASE ConnectFails
  BY <1>1, <1>5, <1>6, <1>7 DEF ConnectFails, Reconnecting, Stopped
<1>8. CASE Identify
  BY <1>5, <1>8 DEF Identify
<1>9. CASE ReadBack
  <2>1. CASE results' = results \cup VerifyFailed
    BY <1>6, <1>9, <2>1 DEF ReadBack
  <2>2. ASSUME NEW nodedb, results' = results \cup VerifyPlan(nodedb)
        PROVE  AccountedFor(x)'
    <3>1. pc = "readback" /\ sent' = sent
      BY <1>9 DEF ReadBack
    <3>2. WasSent(x) \/ Failed(x)' \/ Skipped(x)'
      BY <2>2, <3>1, ResultsKept DEF AheadInv, NoneMissed, Underway, Ahead
    <3>3. ASSUME WasSent(x) PROVE HasResult(x)'
      <4>1. x \in attempted \cup (PlannedItems \cap {"owner"})
        BY <1>a, <3>3 DEF SendingInv, AttemptedIsSent, Items
      <4>2. \E r \in VerifyPlan(nodedb) : r.section = x
        <5> DEFINE checked == attempted \cup (PlannedItems \cap {"owner"})
                   shown   == {y \in checked : Shows(y)}
                   hidden  == {y \in checked : ~Shows(y)}
        <5>1. x \in shown \/ x \in hidden
          BY <4>1
        <5> HIDE DEF checked, shown, hidden
        <5>2. \E r \in Mark(shown, "CONFIRMED") \cup Mark(hidden, "UNCONFIRMED") : r.section = x
          BY <5>1, MarkHas
        <5> QED
          BY <5>2 DEF VerifyPlan, checked, shown, hidden
      <4> QED
        BY <2>2, <4>2 DEF HasResult
    <3> QED
      BY <3>1, <3>2, <3>3 DEF AccountedFor, WasSent
  <2> QED
    BY <1>9, <2>1, <2>2 DEF ReadBack
<1>10. pc # "done" => ReturnAtOnce \/ BeginTransaction \/ CommitRaised \/ ConnectFails
                      \/ Identify \/ ReadBack
  <2>1. ASSUME NEW d \in Devices, Connects(d) \/ Reboot(d) PROVE pc = "done"
    BY <2>1 DEF Connects, Reboot, hostVars
  <2>2. ASSUME NEW s \in Sections, WriteSection(s) PROVE pc = "done"
    BY <2>2 DEF WriteSection
  <2> QED
    BY <2>1, <2>2 DEF Next, Step, Done, StartUntransacted, RunNamePhase, FinishWrites,
      CommitWhileRaising, CommitReturned, Interrupt, vars, hostVars
<1> QED
  BY <1>1, <1>3, <1>4, <1>7, <1>8, <1>9, <1>10

LEMMA AccountedInvariance == Spec => []EndedInv
<1>1. Init => Accounted
  BY DEF Init, Accounted
<1>2. AheadInv /\ SendingInv /\ Accounted <=> EndedInv
  BY DEF EndedInv
<1> QED
  BY <1>1, <1>2, AccountedStep, AheadInvariance, SendingInvariance, PTL DEF Spec

-----------------------------------------------------------------------------
(* A record.  Once the commit returned, or when there is no transaction,   *)
(* the target holds nothing in memory only, so what is read back of it is  *)
(* what it durably holds; a certain result leaves no planned item unsent.  *)

AfterCommit == pc \in {"reconnect", "identify", "deferred", "verify", "readback"}
NoneStaged  == ~txOpen[Target] /\ staged[Target] = {}
Settled     == AfterCommit \/ ~NeedsTx => NoneStaged

LEMMA ReceiveSettled ==
  ASSUME DeviceTypeOK, NEW d \in Devices, NEW x,
         Receive(d, x) \/ UNCHANGED deviceVars, NoneStaged
  PROVE  NoneStaged'
<1>1. CASE UNCHANGED <<txOpen, staged>>
  BY <1>1 DEF NoneStaged
<1>2. CASE TakeItem(d, x)
  BY <1>2, TargetAssumption DEF TakeItem, NoneStaged, DeviceTypeOK
<1> QED
  BY <1>1, <1>2 DEF Receive, NoEffect, deviceVars

LEMMA SettledStep == TypeOK /\ ConnIsTarget /\ Settled /\ [Next]_vars => Settled'
<1> SUFFICES ASSUME TypeOK, ConnIsTarget, Settled, [Next]_vars,
                    AfterCommit' \/ ~NeedsTx
             PROVE  NoneStaged'
  BY PlanFixed DEF Settled
<1>a. DeviceTypeOK /\ conn \in Devices
  BY DEF TypeOK, DeviceTypeOK
<1>1. ASSUME UNCHANGED <<txOpen, staged>>, AfterCommit \/ ~NeedsTx
      PROVE  NoneStaged'
  BY <1>1 DEF Settled, NoneStaged
<1>2. CASE ReturnAtOnce \/ StartUntransacted \/ BeginTransaction
  BY <1>1, <1>2 DEF ReturnAtOnce, StartUntransacted, BeginTransaction, Begins, AfterCommit,
    Stopped, deviceVars
<1>3. CASE RunNamePhase
  BY <1>3, <1>a, ReceiveSettled DEF RunNamePhase, AfterCommit, Settled
<1>4. ASSUME NEW s \in Sections, WriteSection(s) PROVE NoneStaged'
  <2>1. pc' = pc /\ (Receive(conn, s) \/ UNCHANGED deviceVars)
    BY <1>4 DEF WriteSection, Skip, Refuse, SendRaised, SendReturned
  <2> QED
    BY <1>a, <2>1, ReceiveSettled DEF AfterCommit, Settled
<1>5. CASE FinishWrites
  BY <1>1, <1>5 DEF FinishWrites, AfterCommit, deviceVars
<1>6. ASSUME ReceiveCommit(Target) PROVE NoneStaged'
  BY <1>6, <1>a, TargetAssumption DEF ReceiveCommit, NoneStaged, DeviceTypeOK
<1>7. CASE CommitReturned
  BY <1>6, <1>7 DEF CommitReturned, ConnIsTarget
<1>8. CASE CommitWhileRaising \/ CommitRaised
  <2>1. ~NeedsTx /\ (ReceiveCommit(conn) \/ NoEffect)
    BY <1>8 DEF CommitWhileRaising, CommitRaised, Stopped, AfterCommit
  <2>2. CASE ReceiveCommit(conn)
    BY <1>a, <2>1, <2>2 DEF Settled, ReceiveCommit, NoneStaged, DeviceTypeOK
  <2> QED
    BY <1>1, <2>1, <2>2 DEF NoEffect, deviceVars
<1>9. CASE ConnectFails
  BY <1>1, <1>9 DEF ConnectFails, StopBeforeDeferred, Stopped, Reconnecting, AfterCommit, deviceVars
<1>10. ASSUME NEW d \in Devices, Connects(d) PROVE NoneStaged'
  BY <1>1, <1>10 DEF Connects, Reconnecting, AfterCommit, deviceVars
<1>11. CASE Identify \/ ReadBack
  BY <1>1, <1>11 DEF Identify, ReadBack, AfterCommit, deviceVars
<1>12. CASE Interrupt
  BY <1>1, <1>12 DEF Interrupt, Begins, AfterCommit
<1>13. ASSUME NEW d \in Devices, Reboot(d) PROVE NoneStaged'
  <2>1. AfterCommit \/ ~NeedsTx
    BY <1>13 DEF Reboot, hostVars, AfterCommit
  <2> QED
    BY <1>13, <1>a, <2>1 DEF Settled, Reboot, NoneStaged, DeviceTypeOK
<1>14. CASE UNCHANGED vars
  BY <1>1, <1>14 DEF vars, hostVars, deviceVars, AfterCommit
<1> QED
  BY <1>2, <1>3, <1>4, <1>5, <1>7, <1>8, <1>9, <1>10, <1>11, <1>12, <1>13, <1>14
     DEF Next, Step, Done

RecordInv ==
  EndedInv /\ ConnIsTarget /\ OnlyTargetWritten /\ Settled /\ RecordedMeansHeld

(* What a certain read-back says. *)
LEMMA CertainIsHeld ==
  ASSUME RecordInv, pc = "readback", SameNode \/ ProvenRenumber, NEW nodedb,
         Certain(results \cup VerifyPlan(nodedb)), readsBack
  PROVE  /\ conn = Target /\ PlannedItems \subseteq saved[Target]
         /\ plan.keys = "regenerate" => newKey[Target]
<1> USE DEF RecordInv, EndedInv, AheadInv, SendingInv
<1>a. PlannedItems \subseteq Items /\ "security" \in Sections
  BY PlanItems DEF TypeOK, Sections
<1>1. conn = Target
  <2>1. CASE ProvenRenumber
    <3>1. <<conn, "security">> \in sent
      BY <2>1 DEF ProvenRenumber, KeyWasSent, TypeOK
    <3> QED
      BY <3>1 DEF OnlyTargetWritten
  <2> QED
    BY <2>1 DEF SameNode
<1>2. \A x : ~Failed(x)
  BY DEF Certain, Failed
<1>3. \A x \in Items : ~Skipped(x)
  BY <1>2 DEF StopHasFailed
<1>4. \A x \in PlannedItems : WasSent(x)
  BY <1>a, <1>2, <1>3 DEF NoneMissed, Underway, Ahead
<1>5. \A x \in PlannedItems : x \in attempted \cup (PlannedItems \cap {"owner"})
  BY <1>a, <1>4 DEF AttemptedIsSent, Items
<1>6. ASSUME NEW x \in PlannedItems PROVE Shows(x)
  <2> DEFINE hidden == {y \in attempted \cup (PlannedItems \cap {"owner"}) : ~Shows(y)}
  <2>1. Mark(hidden, "UNCONFIRMED") \subseteq VerifyPlan(nodedb)
    BY DEF VerifyPlan
  <2> SUFFICES ASSUME x \in hidden PROVE FALSE
    BY <1>5
  <2> HIDE DEF hidden
  <2>2. \E r \in Mark(hidden, "UNCONFIRMED") : r.status = "UNCONFIRMED"
    BY MarkHas
  <2> QED
    BY <2>1, <2>2 DEF Certain
<1>7. PlannedItems \subseteq saved[Target]
  BY <1>1, <1>6 DEF Shows, Settled, AfterCommit, NoneStaged
<1>8. ASSUME plan.keys = "regenerate" PROVE newKey[Target]
  <2>1. "security" \in attempted
    BY <1>8, <1>a, <1>4 DEF KeyNeedsReadBack, AttemptedIsSent, PlannedItems
  <2>2. CASE ~KeyConfirmed(nodedb)
    <3>1. Mark({"security"}, "UNCONFIRMED") \subseteq VerifyPlan(nodedb)
      BY <1>8, <2>1, <2>2 DEF VerifyPlan, KeyResult
    <3>2. \E r \in Mark({"security"}, "UNCONFIRMED") : r.status = "UNCONFIRMED"
      BY MarkHas
    <3> QED
      BY <3>1, <3>2 DEF Certain
  <2> QED
    BY <1>1, <1>8, <2>2 DEF KeyConfirmed
<1> QED
  BY <1>1, <1>7, <1>8

LEMMA EndIsFinal ==
  ASSUME [Next]_vars, pc = "done"
  PROVE  /\ UNCHANGED <<pc, outcome, results, sent, attempted, conn, recordId>>
         /\ UNCHANGED <<saved, newKey, reports>>
BY DEF Next, Step, Done, ReturnAtOnce, StartUntransacted, BeginTransaction,
   RunNamePhase, WriteSection, FinishWrites, CommitWhileRaising, CommitReturned,
   CommitRaised, ConnectFails, Reconnecting, Connects, Identify, ReadBack, Interrupt,
   Reboot, vars, hostVars, deviceVars

LEMMA RecordedStep ==
  RecordInv /\ EndedInv' /\ ConnIsTarget' /\ OnlyTargetWritten' /\ Settled' /\ [Next]_vars
    => RecordInv'
<1> SUFFICES ASSUME RecordInv, [Next]_vars, outcome' = "recorded", readsBack, ~EmptyPlan
             PROVE  /\ conn' = Target /\ recordId' = reports'[Target]
                    /\ plan.keys = "regenerate" => newKey'[Target]
                    /\ PlannedItems \subseteq saved'[Target]
  BY PlanFixed DEF RecordInv, RecordedMeansHeld, PlannedItems
<1>1. CASE pc = "done"
  <2>1. UNCHANGED <<outcome, conn, recordId, saved, newKey, reports>>
    BY <1>1, EndIsFinal
  <2>2. plan.sections \cup (PlannedItems \cap {"owner"}) = PlannedItems
    BY DEF PlannedItems
  <2> QED
    BY <2>1, <2>2 DEF RecordInv, RecordedMeansHeld
<1>2. CASE pc # "done"
  <2>1. outcome # "recorded"
    BY <1>2 DEF RecordInv, EndedInv, SendingInv, OnlyEndedHasOutcome
  <2>2. ReadBack
    <3>1. ASSUME NEW d \in Devices, Connects(d) \/ Reboot(d) PROVE FALSE
      BY <2>1, <3>1 DEF Connects, Reboot, hostVars
    <3>2. ASSUME NEW s \in Sections, WriteSection(s) PROVE FALSE
      BY <2>1, <3>2 DEF WriteSection
    <3> QED
      BY <2>1, <3>1, <3>2 DEF Next, Step, Done, ReturnAtOnce, StartUntransacted,
        BeginTransaction, RunNamePhase, FinishWrites, CommitWhileRaising, CommitReturned,
        CommitRaised, ConnectFails, StopBeforeDeferred, Identify, Stopped, Interrupt, vars, hostVars
  <2>3. PICK nodedb : results' = results \cup VerifyPlan(nodedb) /\ Certain(results')
    BY <2>2 DEF ReadBack
  <2>4. /\ conn' = conn /\ recordId' = reports[conn]
        /\ SameNode \/ ProvenRenumber
        /\ UNCHANGED <<saved, newKey, reports>> /\ pc = "readback"
    BY <2>2 DEF ReadBack, deviceVars
  <2> QED
    <3>1. /\ conn = Target /\ PlannedItems \subseteq saved[Target]
          /\ plan.keys = "regenerate" => newKey[Target]
      BY <2>3, <2>4, CertainIsHeld
    <3> QED
      BY <2>4, <3>1
<1> QED
  BY <1>1, <1>2

LEMMA RecordedInvariance == Spec => []RecordInv
<1>1. Init => ConnIsTarget /\ OnlyTargetWritten /\ Settled /\ RecordedMeansHeld
  BY TargetAssumption DEF Init, ConnIsTarget, OnlyTargetWritten, Settled, NoneStaged, RecordedMeansHeld
<1>2. EndedInv /\ ConnIsTarget /\ OnlyTargetWritten /\ Settled /\ RecordedMeansHeld <=> RecordInv
  BY DEF RecordInv
<1> QED
  BY <1>1, <1>2, RecordedStep, SettledStep, TargetStep, TypeCorrect, AccountedInvariance, PTL
     DEF Spec

(* What a call of apply_plan reports is what happened to the device: see   *)
(* the four parts of ReportIsTrue.  This is the property a caller's        *)
(* handling of every ApplyOutcome rests on.                                *)
THEOREM TheReportIsTrue == Spec => []ReportIsTrue
<1>1. EndedInv => EverythingAccounted
  BY AccountedIs DEF EndedInv
<1>2. RecordInv => EndedInv /\ RecordedMeansHeld
  BY DEF RecordInv
<1>3. SkippedMeansUnsent /\ EverythingAccounted /\ UnattemptedMeansKeyless /\ RecordedMeansHeld
        => ReportIsTrue
  BY DEF ReportIsTrue
<1> QED
  BY <1>1, <1>2, <1>3, SkippedIsUnsent, KeylessUnlessAttempted, RecordedInvariance, PTL

-----------------------------------------------------------------------------
(* The contract.  Sending the security section is Contract!Send, the step  *)
(* that ends the call is Contract!End, and every other step changes        *)
(* nothing a caller relies on.                                             *)

LEMMA ContractStep == RecordInv /\ RecordInv' /\ [Next]_vars => [Contract!Next]_(Contract!cvars)
<1> SUFFICES ASSUME RecordInv, RecordInv', [Next]_vars
             PROVE  Contract!Next \/ UNCHANGED Contract!cvars
  OBVIOUS
<1> DEFINE regenerates == plan.keys = "regenerate"
<1>a. /\ SendingInv /\ SendingInv' /\ RecordedMeansHeld'
      /\ plan' = plan /\ readsBack' = readsBack /\ EmptyPlan' = EmptyPlan
  BY PlanFixed DEF RecordInv, EndedInv
<1>b. /\ newKey[Target] \in BOOLEAN /\ DeviceTypeOK /\ conn \in Devices
      /\ "security" \in Sections /\ "owner" # "security"
  BY <1>a, TargetAssumption DEF SendingInv, TypeOK, DeviceTypeOK, Sections
<1>1. ASSUME UNCHANGED <<sent, newKey>>, Phase' = Phase PROVE UNCHANGED Contract!cvars
  BY <1>1, <1>a DEF Contract!cvars, WasSent
<1>2. CASE pc = "done"
  <2>1. UNCHANGED <<outcome, attempted, sent, newKey>>
    BY <1>2, EndIsFinal
  <2> QED
    BY <1>1, <2>1 DEF Phase
<1>3. CASE pc # "done" /\ pc' = "done"
  <2>1. sent' = sent /\ newKey' = newKey
    <3>1. ASSUME NEW d \in Devices, Connects(d) \/ Reboot(d) PROVE FALSE
      BY <1>3, <3>1 DEF Connects, Reboot, hostVars
    <3>2. ASSUME NEW s \in Sections, WriteSection(s) PROVE FALSE
      BY <1>3, <3>2 DEF WriteSection
    <3> QED
      BY <1>3, <3>1, <3>2 DEF Next, Step, Done, ReturnAtOnce, StartUntransacted,
        BeginTransaction, RunNamePhase, FinishWrites, CommitWhileRaising, CommitReturned,
        CommitRaised, ConnectFails, Identify, ReadBack, Interrupt, vars, hostVars, deviceVars,
        ReceiveCommit, NoEffect
  <2>2. /\ Phase = "running"
        /\ Phase' \in {"unsent", "uncertain", "recorded", "raised"}
    BY <1>3, <1>a DEF Phase, SendingInv, OnlyEndedHasOutcome, TypeOK
  <2>3. (Phase' = "unsent" => ~WasSent("security")) /\ (Phase' = "uncertain" => WasSent("security"))
    <3>1. "security" \in attempted' <=> WasSent("security")'
      BY <1>a, <1>b DEF SendingInv, AttemptedIsSent
    <3>2. WasSent("security")' <=> WasSent("security")
      BY <2>1 DEF WasSent
    <3>3. outcome' \in {"running", "raised", "stopped", "recorded"}
      BY <1>a DEF SendingInv, TypeOK
    <3> QED
      BY <3>1, <3>2, <3>3 DEF Phase
  <2>4. ASSUME Phase' = "recorded" PROVE regenerates = newKey[Target]
    <3>1. outcome' = "recorded"
      BY <2>4 DEF Phase
    <3>2. newKey[Target] => regenerates
      BY <1>a, TargetAssumption DEF SendingInv, KeyWasSent
    <3>3. regenerates => newKey[Target]
      BY <1>a, <2>1, <3>1 DEF RecordedMeansHeld, SendingInv, KeyNeedsReadBack, EmptyPlan
    <3> QED
      BY <1>b, <3>2, <3>3
  <2>5. WasSent("security")' = WasSent("security")
    BY <2>1 DEF WasSent
  <2>6. Contract!End(Phase')
    BY <1>a, <2>1, <2>2, <2>3, <2>4, <2>5 DEF Contract!End
  <2> QED
    BY <2>2, <2>6 DEF Contract!Next
<1>4. CASE pc # "done" /\ pc' # "done"
  <2>1. Phase = "running" /\ Phase' = "running"
    BY <1>4, <1>a DEF SendingInv, OnlyEndedHasOutcome, Phase
  <2>2. CASE RunNamePhase
    <3>1. UNCHANGED newKey
      BY <1>b, <2>2 DEF RunNamePhase, Receive, NoEffect, deviceVars
    <3>2. WasSent("security")' <=> WasSent("security")
      BY <1>b, <2>2, OneMoreSent DEF RunNamePhase
    <3> QED
      BY <1>a, <2>1, <3>1, <3>2 DEF Contract!cvars, WasSent
  <2>3. ASSUME NEW s \in Sections, WriteSection(s)
        PROVE  Contract!Next \/ UNCHANGED Contract!cvars
    <3>1. CASE UNCHANGED <<sent, newKey>>
      BY <1>1, <2>1, <3>1
    <3>2. CASE sent' = sent \cup {<<conn, s>>} /\ Receive(conn, s) /\ s # "security"
      <4>1. UNCHANGED newKey
        BY <3>2 DEF Receive, NoEffect, deviceVars
      <4>2. WasSent("security")' <=> WasSent("security")
        BY <3>2, OneMoreSent
      <4> QED
        BY <1>a, <2>1, <4>1, <4>2 DEF Contract!cvars, WasSent
    <3>3. CASE sent' = sent \cup {<<conn, s>>} /\ Receive(conn, s) /\ s = "security"
      <4>1. WasSent("security")'
        BY <1>b, <3>3 DEF WasSent
      <4>2. newKey'[Target] \in {newKey[Target], regenerates}
        BY <1>b, <3>3, TargetAssumption
           DEF Receive, NoEffect, deviceVars, TakeKey, DeviceTypeOK
      <4> QED
        BY <1>a, <2>1, <4>1, <4>2 DEF Contract!Next, Contract!Send, WasSent
    <3> QED
      BY <2>3, <3>1, <3>2, <3>3
         DEF WriteSection, Skip, Refuse, SendRaised, SendReturned, deviceVars
  <2>4. CASE UNCHANGED <<sent, newKey>>
    BY <1>1, <2>1, <2>4
  <2>5. ASSUME NEW d \in Devices, Connects(d) \/ Reboot(d) PROVE UNCHANGED <<sent, newKey>>
    BY <2>5 DEF Connects, Reboot, hostVars, deviceVars
  <2> QED
    BY <2>2, <2>3, <2>4, <2>5 DEF Next, Step, Done, ReturnAtOnce, StartUntransacted,
      BeginTransaction, FinishWrites, CommitWhileRaising, CommitReturned,
      CommitRaised, ConnectFails, Identify, ReadBack, Interrupt, vars, hostVars, deviceVars,
      ReceiveCommit, NoEffect
<1> QED
  BY <1>2, <1>3, <1>4

(* apply_plan implements ApplyContract: its callers may decide what to do  *)
(* with the pending keypair from security_attempted and the record alone.  *)
THEOREM ImplementsContract == Spec => KeepsContract
<1>1. Init => Contract!Init
  <2> SUFFICES ASSUME Init PROVE Contract!Init
    OBVIOUS
  <2>1. Phase = "running" /\ ~WasSent("security") /\ newKey[Target] = FALSE
    BY TargetAssumption DEF Init, Phase, WasSent
  <2> QED
    BY <2>1 DEF Contract!Init, WasSent
<1> QED
  BY <1>1, ContractStep, RecordedInvariance, PTL DEF Spec, KeepsContract, Contract!Spec
=============================================================================
