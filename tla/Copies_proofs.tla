------------------------------ MODULE Copies_proofs ------------------------------
(***************************************************************************)
(* Theorems about the safety copies of the database.  The first part is    *)
(* about module Backups, for any number of commands and backups and any    *)
(* clock; the second about module KnownGood, for any number of commands,   *)
(* writes, kills and foreign copies.  The two share nothing: every name    *)
(* of KnownGood's is its own.                                              *)
(***************************************************************************)
EXTENDS Backups, KnownGood, FiniteSetTheorems, WellFoundedInduction, TLAPS

(* What holds between backups, the drafts of others and the clock: the     *)
(* names of backups follow their order of creation wherever one was        *)
(* complete before the other was begun.                                    *)
Counted  == /\ \A b \in dir : b.begun < b.nth /\ b.nth <= claimed
            /\ \A p \in Procs : draft[p].begun <= claimed
            /\ \A p \in Procs : \A b \in doomed[p] : b.begun <= claimed

InOrder  == \A b, c \in dir : Preceded(c, b) => c.when < b.when

DraftLast == \A p \in Procs : pc[p] \in {"copying", "copied"} =>
               \A c \in dir : Preceded(c, draft[p]) => c.when < draft[p].when

OnlyPruning == \A p \in Procs : pc[p] # "pruning" => doomed[p] = {}

IInv == TypeOK /\ Counted /\ InOrder /\ DraftLast /\ OnlyPruning /\ KeepsTheLatest

-----------------------------------------------------------------------------
LEMMA NoDraftType == NoDraft \in Backup
BY DEF NoDraft, Backup

(* Init satisfies the invariant: there is no backup yet.                   *)
LEMMA InitIInv == Init => IInv
BY NoDraftType, BoundsAssumption
DEF Init, IInv, TypeOK, Counted, InOrder, DraftLast, OnlyPruning, KeepsTheLatest, NoDraft, Labels

(* Leaving create_backup changes the caller's own step and locals only,    *)
(* and forgets what it had still to delete.                                *)
LEMMA LeaveKeeps ==
  ASSUME IInv, NEW p \in Procs, NEW label \in {"idle", "replacing"}, Leave(p, label),
         lock' \in Procs \cup {None}, target' \in Nat, faults' \in 0..MaxFaults,
         UNCHANGED <<dir, claimed>>
  PROVE  IInv'
<1>1. /\ pc' = [pc EXCEPT ![p] = label]
      /\ draft' = [draft EXCEPT ![p] = NoDraft]
      /\ mine' = [mine EXCEPT ![p] = None]
      /\ doomed' = [doomed EXCEPT ![p] = {}]
  BY DEF Leave, Goto
<1>2. TypeOK'
  BY <1>1, NoDraftType DEF IInv, TypeOK, Labels
<1>3. \A q \in Procs : q # p => pc'[q] = pc[q] /\ draft'[q] = draft[q]
                               /\ mine'[q] = mine[q] /\ doomed'[q] = doomed[q]
  BY <1>1 DEF IInv, TypeOK
<1>4. pc'[p] = label /\ draft'[p] = NoDraft /\ doomed'[p] = {}
  BY <1>1 DEF IInv, TypeOK
<1>5. Counted'
  BY <1>3, <1>4 DEF IInv, TypeOK, Counted, NoDraft
<1>6. InOrder' /\ DraftLast' /\ OnlyPruning'
  BY <1>3, <1>4 DEF IInv, InOrder, DraftLast, OnlyPruning, Preceded
<1>7. KeepsTheLatest'
  BY <1>3, <1>4 DEF IInv, KeepsTheLatest, Preceded, IsMine, SameName
<1>. QED  BY <1>2, <1>5, <1>6, <1>7 DEF IInv

LEMMA ReturnKeeps ==
  ASSUME IInv, NEW p \in Procs, Return(p), faults' \in 0..MaxFaults,
         UNCHANGED <<target, dir, claimed>>
  PROVE  IInv'
BY LeaveKeeps DEF Return, IInv, TypeOK

LEMMA EndKeeps ==
  ASSUME IInv, NEW p \in Procs, End(p), target' \in Nat, faults' \in 0..MaxFaults,
         UNCHANGED <<dir, claimed>>
  PROVE  IInv'
BY LeaveKeeps DEF End, IInv, TypeOK

(* A step of one command within create_backup that adds no backup: what    *)
(* is there, and what others do, stays in order if its own draft does.     *)
LEMMA StepKeeps ==
  ASSUME IInv, NEW p \in Procs, NEW label \in Labels, Goto(p, label),
         NEW d \in Backup, draft' = [draft EXCEPT ![p] = d], d.begun <= claimed,
         label \in {"copying", "copied"} =>
           \A c \in dir : Preceded(c, d) => c.when < d.when,
         doomed[p] = {}, lock' \in Procs \cup {None},
         UNCHANGED <<target, dir, mine, doomed, claimed, faults>>
  PROVE  IInv'
<1>1. pc' = [pc EXCEPT ![p] = label]
  BY DEF Goto
<1>2. TypeOK'
  BY <1>1 DEF IInv, TypeOK
<1>3. Counted'
  BY DEF IInv, TypeOK, Counted
<1>4. InOrder' /\ KeepsTheLatest'
  BY DEF IInv, InOrder, KeepsTheLatest, Preceded, IsMine, SameName
<1>5. DraftLast'
  <2>1. SUFFICES ASSUME NEW q \in Procs, pc'[q] \in {"copying", "copied"},
                        NEW c \in dir, Preceded(c, draft'[q])
                 PROVE  c.when < draft'[q].when
    BY DEF DraftLast, Preceded
  <2>2. CASE q = p
    BY <1>1, <2>1, <2>2 DEF IInv, TypeOK
  <2>3. CASE q # p
    BY <1>1, <2>1, <2>3 DEF IInv, TypeOK, DraftLast
  <2>. QED  BY <2>2, <2>3
<1>6. OnlyPruning'
  BY <1>1 DEF IInv, TypeOK, OnlyPruning
<1>. QED  BY <1>2, <1>3, <1>4, <1>5, <1>6 DEF IInv

(* A backup that is claimed gets a free name; it comes after all that was  *)
(* there when its name was chosen, and precedes nothing begun before.      *)
LEMMA ClaimKeeps ==
  ASSUME IInv, NEW p \in Procs, Claim(p)
  PROVE  IInv'
<1>1. PICK n \in 0..MaxBackups :
        /\ ~Taken(draft[p].when, n)
        /\ mine' = [mine EXCEPT ![p] =
                      [when |-> draft[p].when, suffix |-> n, content |-> draft[p].content,
                       nth |-> claimed + 1, begun |-> draft[p].begun]]
  BY DEF Claim
<1>. DEFINE new == [when |-> draft[p].when, suffix |-> n, content |-> draft[p].content,
                    nth |-> claimed + 1, begun |-> draft[p].begun]
<1>2. /\ pc[p] = "copied" /\ pc' = [pc EXCEPT ![p] = "claimed"]
      /\ UNCHANGED <<target, lock, draft, doomed, faults>>
      /\ claimed' = claimed + 1 /\ claimed \in Nat
  BY DEF Claim, Goto, IInv, TypeOK
<1>3. new \in Backup
  BY <1>2, BoundsAssumption DEF IInv, TypeOK, Backup
<1>4. mine' = [mine EXCEPT ![p] = new] /\ dir' = dir \cup {new}
  BY <1>1 DEF Claim, IInv, TypeOK
<1>5. /\ new.when = draft[p].when /\ new.suffix = n /\ new.nth = claimed + 1
      /\ new.begun = draft[p].begun /\ draft[p].begun <= claimed
  BY DEF IInv, Counted
<1>6. doomed[p] = {}
  BY <1>2 DEF IInv, OnlyPruning
<1>. HIDE DEF new
<1>7. TypeOK'
  <2>1. \A b \in dir : ~(b.when = new.when /\ b.suffix = new.suffix)
    BY <1>1, <1>5 DEF Taken
  <2>. QED  BY <1>2, <1>3, <1>4, <2>1 DEF IInv, TypeOK, Labels
<1>8. Counted'
  <2>1. \A b \in dir' : b.begun < b.nth /\ b.nth <= claimed'
    BY <1>2, <1>3, <1>4, <1>5 DEF IInv, TypeOK, Counted, Backup
  <2>2. \A q \in Procs : draft'[q].begun <= claimed'
    BY <1>2 DEF IInv, TypeOK, Counted, Backup
  <2>3. \A q \in Procs : \A b \in doomed'[q] : b.begun <= claimed'
    BY <1>2 DEF IInv, TypeOK, Counted, Backup
  <2>. QED  BY <2>1, <2>2, <2>3 DEF Counted
<1>9. \A b \in Backup : b.begun <= claimed => ~Preceded(new, b)
  BY <1>2, <1>5 DEF Preceded, Backup
<1>10. InOrder'
  <2>1. SUFFICES ASSUME NEW b \in dir', NEW c \in dir', Preceded(c, b)
                 PROVE  c.when < b.when
    BY DEF InOrder, Preceded
  <2>2. c \in dir
    <3>1. b \in Backup /\ b.begun <= claimed
      BY <1>2, <1>3, <1>4, <1>5 DEF IInv, TypeOK, Counted, Backup
    <3>. QED  BY <1>4, <1>9, <2>1, <3>1
  <2>3. CASE b \in dir
    BY <2>1, <2>2, <2>3 DEF IInv, InOrder
  <2>4. CASE b = new
    BY <1>2, <1>5, <2>1, <2>2, <2>4 DEF IInv, DraftLast, Preceded
  <2>. QED  BY <1>4, <2>3, <2>4
<1>11. DraftLast'
  <2>1. SUFFICES ASSUME NEW q \in Procs, pc'[q] \in {"copying", "copied"},
                        NEW c \in dir', Preceded(c, draft[q])
                 PROVE  c.when < draft[q].when
    BY <1>2 DEF DraftLast, Preceded
  <2>2. q # p /\ pc'[q] = pc[q]
    BY <1>2, <2>1 DEF IInv, TypeOK
  <2>3. c \in dir
    BY <1>4, <1>9, <2>1 DEF IInv, TypeOK, Counted
  <2>. QED  BY <2>1, <2>2, <2>3 DEF IInv, DraftLast
<1>12. OnlyPruning'
  BY <1>2, <1>6 DEF IInv, TypeOK, OnlyPruning
<1>13. KeepsTheLatest'
  <2>1. SUFFICES ASSUME NEW q \in Procs, NEW b \in doomed[q], NEW c \in dir' \ doomed[q],
                        ~(IsMine(q, c))', Preceded(c, b)
                 PROVE  FALSE
    BY <1>2 DEF KeepsTheLatest, Preceded
  <2>2. q # p /\ mine'[q] = mine[q]
    BY <1>4, <1>6 DEF IInv, TypeOK
  <2>3. c \in dir
    BY <1>4, <1>9, <2>1 DEF IInv, TypeOK, Counted
  <2>4. ~IsMine(q, c)
    BY <2>1, <2>2 DEF IsMine, SameName
  <2>. QED  BY <2>1, <2>3, <2>4 DEF IInv, KeepsTheLatest
<1>. QED  BY <1>7, <1>8, <1>10, <1>11, <1>12, <1>13 DEF IInv

(* The prune takes the oldest names, and names follow creation.            *)
LEMMA ListKeeps ==
  ASSUME IInv, NEW p \in Procs, ListForPrune(p)
  PROVE  IInv'
<1>1. CASE Retention = 0
  BY <1>1, ReturnKeeps DEF ListForPrune, IInv, TypeOK
<1>2. CASE Retention # 0
  <2>1. PICK gone \in SUBSET Others(p) :
          /\ OldestFirst(gone, Others(p) \ gone)
          /\ doomed' = [doomed EXCEPT ![p] = gone]
    BY <1>2 DEF ListForPrune
  <2>2. /\ pc' = [pc EXCEPT ![p] = "pruning"]
        /\ UNCHANGED <<target, dir, lock, draft, mine, claimed, faults>>
    BY <1>2 DEF ListForPrune, Goto
  <2>3. gone \subseteq dir
    BY DEF Others
  <2>4. TypeOK'
    BY <2>1, <2>2, <2>3 DEF IInv, TypeOK, Labels
  <2>5. Counted'
    <3>1. \A b \in gone : b.begun <= claimed
      BY <2>3 DEF IInv, TypeOK, Counted, Backup
    <3>. QED  BY <2>1, <2>2, <3>1 DEF IInv, TypeOK, Counted
  <2>6. InOrder' /\ DraftLast' /\ OnlyPruning'
    BY <2>1, <2>2 DEF IInv, TypeOK, InOrder, DraftLast, OnlyPruning, Preceded
  <2>7. KeepsTheLatest'
    <3>1. SUFFICES ASSUME NEW q \in Procs, NEW b \in doomed'[q], NEW c \in dir \ doomed'[q],
                          ~IsMine(q, c), Preceded(c, b)
                   PROVE  FALSE
      BY <2>2 DEF KeepsTheLatest, Preceded, IsMine, SameName
    <3>2. CASE q # p
      BY <2>1, <3>1, <3>2 DEF IInv, TypeOK, KeepsTheLatest
    <3>3. CASE q = p
      <4>1. b \in gone /\ c \in Others(p) \ gone
        BY <2>1, <3>1, <3>3 DEF IInv, TypeOK, Others
      <4>2. ~Later(b, c) /\ c.when < b.when
        BY <2>1, <2>3, <3>1, <4>1 DEF OldestFirst, IInv, InOrder, Others
      <4>3. b.when > c.when
        BY <2>3, <4>1, <4>2 DEF IInv, TypeOK, Backup, Others
      <4>. QED  BY <4>2, <4>3 DEF Later
    <3>. QED  BY <3>2, <3>3
  <2>. QED  BY <2>4, <2>5, <2>6, <2>7 DEF IInv
<1>. QED  BY <1>1, <1>2

(* A deletion only takes from what is there.                               *)
LEMMA DeleteKeeps ==
  ASSUME IInv, NEW p \in Procs, Delete(p)
  PROVE  IInv'
<1>1. PICK b \in doomed[p] : /\ dir' = {c \in dir : ~SameName(b, c)}
                             /\ doomed' = [doomed EXCEPT ![p] = @ \ {b}]
  BY DEF Delete
<1>2. /\ pc[p] = "pruning"
      /\ UNCHANGED <<target, lock, pc, draft, mine, claimed, faults>>
  BY DEF Delete
<1>3. dir' \subseteq dir /\ b \notin dir'
  BY <1>1 DEF SameName
<1>4. TypeOK' /\ Counted' /\ OnlyPruning'
  BY <1>1, <1>2, <1>3 DEF IInv, TypeOK, Counted, OnlyPruning
<1>5. InOrder' /\ DraftLast'
  BY <1>2, <1>3 DEF IInv, InOrder, DraftLast, Preceded
<1>6. KeepsTheLatest'
  <2>1. \A q \in Procs : doomed'[q] \subseteq doomed[q] /\ doomed[q] \subseteq doomed'[q] \cup {b}
    BY <1>1 DEF IInv, TypeOK
  <2>. QED  BY <1>2, <1>3, <2>1 DEF IInv, KeepsTheLatest, Preceded, IsMine, SameName
<1>. QED  BY <1>4, <1>5, <1>6 DEF IInv

(* The clock's time is taken only when every backup there is older.        *)
LEMMA TimeIsLast ==
  ASSUME IInv, NEW now \in Clock, NEW when \in NextTimes(now)
  PROVE  when \in Nat /\ \A c \in dir : c.when < when
<1>1. \A c \in dir : c.when \in Nat
  BY DEF IInv, TypeOK, Backup
<1>2. CASE \A c \in dir : c.when < now
  BY <1>2, BoundsAssumption DEF NextTimes
<1>3. CASE ~(\A c \in dir : c.when < now)
  <2>1. PICK b \in dir : when = b.when + 1 /\ \A d \in dir : d.when <= b.when
    BY <1>3 DEF NextTimes
  <2>. QED  BY <1>1, <2>1
<1>. QED  BY <1>2, <1>3

(* Every step of a command preserves the invariant.                        *)
LEMMA NextIInv == IInv /\ [Next]_vars => IInv'
<1>. SUFFICES ASSUME IInv, [Next]_vars  PROVE IInv'
  OBVIOUS
<1>1. ASSUME NEW p \in Procs, Command(p)
      PROVE  IInv'
  <2>. faults \in Nat /\ MaxFaults \in Nat
    BY BoundsAssumption DEF IInv, TypeOK
  <2>1. draft[p] \in Backup /\ draft[p].begun <= claimed
    BY DEF IInv, TypeOK, Counted
  <2>2. draft = [draft EXCEPT ![p] = draft[p]]
    BY DEF IInv, TypeOK
  <2>3. CASE StartSave(p)
    <3>1. doomed[p] = {}
      BY <2>3 DEF StartSave, IInv, OnlyPruning
    <3>2. \E label \in {"replacing", "naming"} : Goto(p, label)
      BY <2>3 DEF StartSave
    <3>. QED  BY <2>1, <2>2, <2>3, <3>1, <3>2, StepKeeps DEF StartSave, Labels
  <2>4. CASE DbBackup(p)
    <3>1. doomed[p] = {}
      BY <2>4 DEF DbBackup, IInv, OnlyPruning
    <3>. QED  BY <2>1, <2>2, <2>4, <3>1, StepKeeps DEF DbBackup, Labels, IInv, TypeOK
  <2>5. CASE ChooseName(p)
    <3>0. PICK now \in Clock : \E when \in NextTimes(now) :
            draft' = [draft EXCEPT ![p] = [when |-> when, suffix |-> 0, content |-> 0,
                                           nth |-> 0, begun |-> claimed]]
      BY <2>5 DEF ChooseName
    <3>1. PICK when \in NextTimes(now) :
            draft' = [draft EXCEPT ![p] = [when |-> when, suffix |-> 0, content |-> 0,
                                           nth |-> 0, begun |-> claimed]]
      BY <3>0
    <3>2. when \in Nat /\ \A c \in dir : c.when < when
      BY TimeIsLast
    <3>. DEFINE d == [when |-> when, suffix |-> 0, content |-> 0, nth |-> 0, begun |-> claimed]
    <3>3. d \in Backup /\ d.when = when /\ d.begun <= claimed
      BY <3>2 DEF Backup, IInv, TypeOK
    <3>4. doomed[p] = {}
      BY <2>5 DEF ChooseName, IInv, OnlyPruning
    <3>5. /\ Goto(p, "copying") /\ lock' \in Procs \cup {None}
          /\ UNCHANGED <<target, dir, mine, doomed, claimed, faults>>
      BY <2>5 DEF ChooseName, IInv, TypeOK
    <3>6. draft' = [draft EXCEPT ![p] = d]
      BY <3>1
    <3>. HIDE DEF d
    <3>. QED  BY <3>2, <3>3, <3>4, <3>5, <3>6, StepKeeps DEF Labels
  <2>6. CASE Copy(p)
    <3>. DEFINE d == [when |-> draft[p].when, suffix |-> 0, content |-> target, nth |-> 0,
                      begun |-> draft[p].begun]
    <3>1. /\ d \in Backup /\ d.begun <= claimed
          /\ d.when = draft[p].when /\ d.begun = draft[p].begun
      BY <2>1 DEF Backup, IInv, TypeOK
    <3>2. doomed[p] = {} /\ \A c \in dir : Preceded(c, draft[p]) => c.when < draft[p].when
      BY <2>6 DEF Copy, IInv, OnlyPruning, DraftLast
    <3>3. /\ Goto(p, "copied") /\ lock' \in Procs \cup {None}
          /\ UNCHANGED <<target, dir, mine, doomed, claimed, faults>>
          /\ draft' = [draft EXCEPT ![p] = d]
      BY <2>6 DEF Copy, IInv, TypeOK
    <3>. HIDE DEF d
    <3>. QED  BY <3>1, <3>2, <3>3, StepKeeps DEF Labels, Preceded
  <2>7. CASE Claim(p)
    BY <2>7, ClaimKeeps
  <2>8. CASE Stat(p)
    <3>1. CASE MineIsThere(p)
      <4>1. doomed[p] = {}
        BY <2>8 DEF Stat, IInv, OnlyPruning
      <4>. QED  BY <2>1, <2>2, <2>8, <3>1, <4>1, StepKeeps DEF Stat, Labels, IInv, TypeOK
    <3>2. CASE ~MineIsThere(p)
      BY <2>8, <3>2, EndKeeps DEF Stat, IInv, TypeOK
    <3>. QED  BY <3>1, <3>2
  <2>9. CASE ListForPrune(p)
    BY <2>9, ListKeeps
  <2>10. CASE Delete(p)
    BY <2>10, DeleteKeeps
  <2>11. CASE Pruned(p)
    BY <2>11, ReturnKeeps DEF Pruned, IInv, TypeOK
  <2>12. CASE PruneFails(p)
    <3>1. faults' \in 0..MaxFaults
      BY <2>12 DEF PruneFails, Fault
    <3>. QED  BY <2>12, <3>1, ReturnKeeps DEF PruneFails
  <2>13. CASE Replace(p)
    <3>1. target' \in Nat
      BY <2>13 DEF Replace, IInv, TypeOK
    <3>. QED  BY <2>13, <3>1, EndKeeps DEF Replace, IInv, TypeOK
  <2>14. CASE Fails(p)
    <3>1. faults' \in 0..MaxFaults
      BY <2>14 DEF Fails, Fault
    <3>. QED  BY <2>14, <3>1, EndKeeps DEF Fails, IInv, TypeOK
  <2>. QED
    BY <1>1, <2>3, <2>4, <2>5, <2>6, <2>7, <2>8, <2>9, <2>10, <2>11, <2>12, <2>13, <2>14
    DEF Command
<1>2. CASE UNCHANGED vars
  BY <1>2 DEF vars, IInv, TypeOK, Counted, InOrder, DraftLast, OnlyPruning, KeepsTheLatest,
              Preceded, IsMine, SameName
<1>. QED  BY <1>1, <1>2 DEF Next, Rest

-----------------------------------------------------------------------------
LEMMA Invariance == Spec => []IInv
BY InitIInv, NextIInv, PTL DEF Spec

(* Types, and no two backups ever have one name: claiming a name never     *)
(* replaces a backup (_claim_backup_path).                                 *)
THEOREM TypeCorrect == Spec => []TypeOK
<1>1. IInv => TypeOK
  BY DEF IInv
<1>. QED  BY Invariance, <1>1, PTL

(* No prune chooses a backup and keeps one that was complete before it was *)
(* begun, wherever the clock stands (_monotonic_backup_time).              *)
THEOREM LatestKept == Spec => []KeepsTheLatest
<1>1. IInv => KeepsTheLatest
  BY DEF IInv
<1>. QED  BY Invariance, <1>1, PTL

-----------------------------------------------------------------------------
(* The retention.  A backup is settled once no command owes its deletion   *)
(* and none that claimed it has still to prune: only these are bounded, a  *)
(* backup at a time may be more between its claim and its command's prune. *)
IsDoomed(b) == \E p \in Procs : \E c \in doomed[p] : SameName(c, b)
IsOwned(b)  == \E p \in Procs : pc[p] \in {"claimed", "listing"} /\ IsMine(p, b)
Settled     == {b \in dir : ~IsDoomed(b) /\ ~IsOwned(b)}

Bounded == faults = 0 /\ Retention # 0 => Cardinality(Settled) <= Retention

PrunedInv == IsFiniteSet(dir) /\ Bounded

(* A step that settles no further backup keeps the bound.                  *)
LEMMA NoneSettled ==
  ASSUME IInv, PrunedInv, IsFiniteSet(dir'), Settled' \subseteq Settled, faults' = faults
  PROVE  PrunedInv'
<1>1. IsFiniteSet(Settled)
  BY FS_Subset DEF PrunedInv, Settled
<1>2. Cardinality(Settled') <= Cardinality(Settled) /\ IsFiniteSet(Settled')
  BY <1>1, FS_Subset
<1>3. Cardinality(Settled) \in Nat /\ Cardinality(Settled') \in Nat /\ Retention \in Nat
  BY <1>1, <1>2, FS_CardinalityType, BoundsAssumption
<1>. QED  BY <1>2, <1>3 DEF PrunedInv, Bounded

(* Nor does a step that fails a command: nothing is claimed any more.      *)
LEMMA FaultKeepsPruned ==
  ASSUME IInv, PrunedInv, Fault, UNCHANGED dir
  PROVE  PrunedInv'
BY DEF IInv, TypeOK, PrunedInv, Bounded, Fault

(* A command whose backup is not, or no longer, waiting for its prune, and *)
(* that owes no deletion, settles none by any step that leaves the         *)
(* directory alone.                                                        *)
LEMMA StepSettlesNone ==
  ASSUME IInv, NEW p \in Procs, UNCHANGED dir,
         doomed[p] = {} /\ (pc[p] \in {"claimed", "listing"} => ~MineIsThere(p)),
         \A q \in Procs : q # p => pc'[q] = pc[q] /\ mine'[q] = mine[q]
                                  /\ doomed'[q] = doomed[q]
  PROVE  Settled' \subseteq Settled
<1>1. SUFFICES ASSUME NEW b \in dir, ~IsDoomed(b)', ~IsOwned(b)'
               PROVE  ~IsDoomed(b) /\ ~IsOwned(b)
  BY DEF Settled
<1>2. ~IsDoomed(b)
  BY <1>1 DEF IsDoomed, SameName
<1>3. ~IsOwned(b)
  BY <1>1 DEF IsOwned, IsMine, SameName, MineIsThere
<1>. QED  BY <1>2, <1>3

(* The new backup is its command's own, and what others own stays theirs.  *)
LEMMA ClaimSettlesNone ==
  ASSUME IInv, NEW p \in Procs, Claim(p), IsFiniteSet(dir)
  PROVE  IsFiniteSet(dir') /\ Settled' \subseteq Settled
<1>1. /\ pc[p] = "copied" /\ pc' = [pc EXCEPT ![p] = "claimed"]
      /\ dir' = dir \cup {mine'[p]} /\ doomed' = doomed
  BY DEF Claim, Goto
<1>2. \A q \in Procs : q # p => mine'[q] = mine[q]
  BY DEF Claim, IInv, TypeOK
<1>3. IsFiniteSet(dir')
  BY <1>1, FS_AddElement
<1>4. SUFFICES ASSUME NEW b \in dir', ~IsDoomed(b)', ~IsOwned(b)'
               PROVE  b \in dir /\ ~IsDoomed(b) /\ ~IsOwned(b)
  BY <1>3 DEF Settled
<1>5. pc'[p] = "claimed" /\ \A q \in Procs : q # p => pc'[q] = pc[q]
  BY <1>1 DEF IInv, TypeOK
<1>6. b # mine'[p]
  BY <1>4, <1>5 DEF IsOwned, IsMine, SameName
<1>7. ~IsDoomed(b)
  BY <1>1, <1>4 DEF IsDoomed, SameName
<1>8. ~IsOwned(b)
  BY <1>1, <1>2, <1>4, <1>5 DEF IsOwned, IsMine, SameName
<1>. QED  BY <1>1, <1>6, <1>7, <1>8

(* The prune leaves its own backup and the survivors: no more together     *)
(* than the retention.  What is settled then is among them.                *)
LEMMA ListLeavesTheRetention ==
  ASSUME IInv, NEW p \in Procs, ListForPrune(p), Retention # 0, IsFiniteSet(dir)
  PROVE  Cardinality(Settled') <= Retention
<1>1. PICK gone \in SUBSET Others(p) :
        /\ Cardinality(Others(p) \ gone) <= Survivors(p)
        /\ doomed' = [doomed EXCEPT ![p] = gone]
  BY DEF ListForPrune
<1>2. UNCHANGED <<dir, mine>> /\ doomed'[p] = gone
  BY <1>1 DEF ListForPrune, IInv, TypeOK
<1>. DEFINE kept == Others(p) \ gone
            own  == {b \in dir : IsMine(p, b)}
<1>3. /\ IsFiniteSet(kept) /\ Cardinality(kept) \in Nat
      /\ Cardinality(kept) <= Survivors(p)
  BY <1>1, FS_Subset, FS_CardinalityType DEF Others
<1>4. Settled' \subseteq kept \cup own
  BY <1>2 DEF Settled, IsDoomed, SameName, Others
<1>5. CASE MineIsThere(p)
  <2>1. PICK m \in dir : IsMine(p, m)
    BY <1>5 DEF MineIsThere
  <2>2. own = {m}
    BY <2>1 DEF IInv, TypeOK, IsMine, SameName
  <2>3. IsFiniteSet(kept \cup {m}) /\ Cardinality(kept \cup {m}) <= Cardinality(kept) + 1
    <3>. HIDE DEF kept
    <3>1. /\ IsFiniteSet(kept \cup {m})
          /\ Cardinality(kept \cup {m})
               = IF m \in kept THEN Cardinality(kept) ELSE Cardinality(kept) + 1
      BY <1>3, FS_AddElement
    <3>. QED  BY <1>3, <3>1
  <2>4. Cardinality(kept \cup {m}) \in Nat
    BY <2>3, FS_CardinalityType
  <2>5. IsFiniteSet(Settled') /\ Cardinality(Settled') <= Cardinality(kept \cup {m})
    BY <1>4, <2>2, <2>3, FS_Subset
  <2>6. Cardinality(Settled') \in Nat
    BY <2>5, FS_CardinalityType
  <2>. QED
    BY <1>3, <1>5, <2>3, <2>4, <2>5, <2>6, BoundsAssumption DEF Survivors
<1>6. CASE ~MineIsThere(p)
  <2>1. own = {}
    BY <1>6 DEF MineIsThere
  <2>2. IsFiniteSet(Settled') /\ Cardinality(Settled') <= Cardinality(kept)
    BY <1>3, <1>4, <2>1, FS_Subset
  <2>3. Cardinality(Settled') \in Nat
    BY <2>2, FS_CardinalityType
  <2>. QED  BY <1>3, <1>6, <2>2, <2>3, BoundsAssumption DEF Survivors
<1>. QED  BY <1>5, <1>6

(* A deletion takes the name away with the debt: whoever owed the deletion *)
(* of a backup that is still there owes it still.                          *)
LEMMA DeleteSettlesNone ==
  ASSUME IInv, NEW p \in Procs, Delete(p), IsFiniteSet(dir)
  PROVE  IsFiniteSet(dir') /\ Settled' \subseteq Settled
<1>1. PICK b \in doomed[p] : /\ dir' = {c \in dir : ~SameName(b, c)}
                             /\ doomed' = [doomed EXCEPT ![p] = @ \ {b}]
  BY DEF Delete
<1>2. UNCHANGED <<pc, mine>>
  BY DEF Delete
<1>3. IsFiniteSet(dir')
  BY <1>1, FS_Subset
<1>4. SUFFICES ASSUME NEW c \in dir', ~IsDoomed(c)', ~IsOwned(c)'
               PROVE  c \in dir /\ ~IsDoomed(c) /\ ~IsOwned(c)
  BY <1>3 DEF Settled
<1>5. c \in dir /\ ~SameName(b, c)
  BY <1>1, <1>4
<1>6. ~IsDoomed(c)
  <2>1. SUFFICES ASSUME NEW q \in Procs, NEW d \in doomed[q], SameName(d, c)
                 PROVE  FALSE
    BY DEF IsDoomed
  <2>2. d \in doomed'[q]
    BY <1>1, <1>5, <2>1 DEF IInv, TypeOK
  <2>. QED  BY <1>4, <2>1, <2>2 DEF IsDoomed, SameName
<1>7. ~IsOwned(c)
  BY <1>2, <1>4 DEF IsOwned, IsMine, SameName
<1>. QED  BY <1>5, <1>6, <1>7

(* Leaving create_backup forgets the caller's backup and its debts only.   *)
LEMMA LeaveIsOwn ==
  ASSUME IInv, NEW p \in Procs, NEW label \in {"idle", "replacing"}, Leave(p, label)
  PROVE  \A q \in Procs : q # p => pc'[q] = pc[q] /\ mine'[q] = mine[q]
                                  /\ doomed'[q] = doomed[q]
BY DEF Leave, Goto, IInv, TypeOK

LEMMA NextPrunedInv == IInv /\ PrunedInv /\ [Next]_vars => PrunedInv'
<1>. SUFFICES ASSUME IInv, PrunedInv, [Next]_vars  PROVE PrunedInv'
  OBVIOUS
<1>1. ASSUME NEW p \in Procs, Command(p)
      PROVE  PrunedInv'
  <2>. IsFiniteSet(dir)
    BY DEF PrunedInv
  <2>1. ASSUME \/ StartSave(p) \/ DbBackup(p) \/ ChooseName(p) \/ Copy(p)
        PROVE  PrunedInv'
    <3>1. /\ pc[p] \in {"idle", "naming", "copying"}
          /\ UNCHANGED <<dir, mine, doomed, faults>>
          /\ \E label \in Labels : Goto(p, label)
      BY <2>1 DEF StartSave, DbBackup, ChooseName, Copy, Labels
    <3>2. /\ doomed[p] = {}
          /\ \A q \in Procs : q # p => pc'[q] = pc[q]
      BY <3>1 DEF Goto, IInv, TypeOK, OnlyPruning
    <3>3. Settled' \subseteq Settled
      BY <3>1, <3>2, StepSettlesNone
    <3>. QED  BY <3>1, <3>3, NoneSettled
  <2>2. CASE Claim(p)
    BY <2>2, ClaimSettlesNone, NoneSettled DEF Claim
  <2>3. CASE Stat(p)
    <3>1. pc[p] = "claimed" /\ doomed[p] = {} /\ UNCHANGED <<dir, faults>>
      BY <2>3 DEF Stat, IInv, OnlyPruning
    <3>2. CASE MineIsThere(p)
      <4>1. pc' = [pc EXCEPT ![p] = "listing"] /\ UNCHANGED <<mine, doomed>>
        BY <2>3, <3>2 DEF Stat, Goto
      <4>2. \A q \in Procs : pc[q] \in {"claimed", "listing"}
                              => pc'[q] \in {"claimed", "listing"}
        BY <4>1 DEF IInv, TypeOK
      <4>3. Settled' \subseteq Settled
        BY <3>1, <4>1, <4>2 DEF Settled, IsDoomed, IsOwned, IsMine, SameName
      <4>. QED  BY <3>1, <4>3, NoneSettled
    <3>3. CASE ~MineIsThere(p)
      <4>1. Leave(p, "idle")
        BY <2>3, <3>3 DEF Stat, End
      <4>2. Settled' \subseteq Settled
        BY <3>1, <3>3, <4>1, LeaveIsOwn, StepSettlesNone
      <4>. QED  BY <3>1, <4>2, NoneSettled
    <3>. QED  BY <3>2, <3>3
  <2>4. CASE ListForPrune(p)
    <3>1. UNCHANGED <<dir, faults>>
      BY <2>4 DEF ListForPrune
    <3>2. CASE Retention = 0
      BY <3>1, <3>2 DEF PrunedInv, Bounded
    <3>3. CASE Retention # 0
      BY <2>4, <3>1, <3>3, ListLeavesTheRetention DEF PrunedInv, Bounded
    <3>. QED  BY <3>2, <3>3
  <2>5. CASE Delete(p)
    BY <2>5, DeleteSettlesNone, NoneSettled DEF Delete
  <2>6. ASSUME Pruned(p) \/ Replace(p)
        PROVE  PrunedInv'
    <3>1. /\ pc[p] \in {"pruning", "replacing"} /\ doomed[p] = {}
          /\ UNCHANGED <<dir, faults>>
      BY <2>6 DEF Pruned, Replace, IInv, OnlyPruning
    <3>2. \E label \in {"idle", "replacing"} : Leave(p, label)
      BY <2>6 DEF Pruned, Replace, Return, End
    <3>3. Settled' \subseteq Settled
      BY <3>1, <3>2, LeaveIsOwn, StepSettlesNone
    <3>. QED  BY <3>1, <3>3, NoneSettled
  <2>7. ASSUME PruneFails(p) \/ Fails(p)
        PROVE  PrunedInv'
    BY <2>7, FaultKeepsPruned DEF PruneFails, Fails
  <2>. QED  BY <1>1, <2>1, <2>2, <2>3, <2>4, <2>5, <2>6, <2>7 DEF Command
<1>2. CASE UNCHANGED vars
  <2>1. Settled' = Settled
    BY <1>2 DEF vars, Settled, IsDoomed, IsOwned, IsMine, SameName
  <2>. QED  BY <1>2, <2>1 DEF vars, PrunedInv, Bounded
<1>. QED  BY <1>1, <1>2 DEF Next, Rest

LEMMA InitPrunedInv == Init => PrunedInv
<1>1. SUFFICES ASSUME Init  PROVE PrunedInv
  OBVIOUS
<1>2. dir = {} /\ Settled = {}
  BY <1>1 DEF Init, Settled
<1>. QED  BY <1>2, FS_EmptySet, BoundsAssumption DEF PrunedInv, Bounded

(* Once no command runs and none has failed, the retention's number of     *)
(* backups is left or fewer, however many commands pruned at once.         *)
THEOREM QuietIsPruned == Spec => []QuietMeansPruned
<1>1. Init => PrunedInv
  BY InitPrunedInv
<1>2. IInv /\ PrunedInv => QuietMeansPruned
  <2>1. SUFFICES ASSUME IInv, PrunedInv, \A p \in Procs : pc[p] = "idle"
                 PROVE  Settled = dir
    BY DEF QuietMeansPruned, PrunedInv, Bounded
  <2>. QED  BY <2>1 DEF Settled, IsDoomed, IsOwned, IInv, OnlyPruning
<1>. QED  BY <1>1, <1>2, NextPrunedInv, Invariance, PTL DEF Spec

-----------------------------------------------------------------------------
(* A save replaces nothing that is not backed up.                          *)
Flying == {q \in Procs : pc[q] \in {"copying", "copied"}}

(* At the time of the m-th claim: the backups that had been begun and not  *)
(* yet claimed; the commands whose backup is still being made; and those   *)
(* that have claimed theirs and not yet returned.  Each is a command's.    *)
HasClaimed(q) == pc[q] \in {"claimed", "listing", "pruning"}

Busy(m)     == {b \in dir : b.begun <= m /\ m < b.nth}
Drafting(m) == {q \in Flying : draft[q].begun <= m}
Done(m)     == {q \in Procs : HasClaimed(q) /\ mine[q].nth <= m}

Crowd ==
  \A m \in Nat : Cardinality(Busy(m)) + Cardinality(Drafting(m)) + Cardinality(Done(m))
                   <= Cardinality(Procs)

MarksOf(q) ==
  /\ HasClaimed(q) => /\ mine[q] \in Backup /\ mine[q].nth <= claimed
                      /\ \A b \in dir : IsMine(q, b) => mine[q].nth <= b.nth
  /\ pc[q] = "replacing" => lock = q
Marks == \A q \in Procs : MarksOf(q)

(* What is to be deleted has a name before w, or before some name in F.    *)
Spared(D, F, w) ==
  \A r \in Procs : \A x \in D[r] : x.when < w \/ \E f \in F : x.when < f.when
NewestSpared == Spared(doomed, dir, 0)

(* The backups of the database as it is, and the commands making one.      *)
UpToDate       == {b \in dir : b.content = target}
ToBeCurrent(q) == pc[q] = "copying" \/ draft[q].content = target

Older == /\ \A b \in dir : b.content <= target
         /\ \A q \in Flying : draft[q].content <= target

(* n backups were claimed when the database was last replaced.             *)
Marked(n) ==
  /\ n <= claimed
  /\ \A b \in UpToDate : n < b.nth
  /\ \A b \in dir \ UpToDate : b.begun <= n
  /\ \A q \in Flying : ToBeCurrent(q) \/ draft[q].begun <= n

(* The save p goes on with a backup of what it replaces: its own, or one   *)
(* as new; w is the name it chose.                                         *)
Guarded(n, w, p) ==
  /\ \A b \in dir : b.nth <= n => b.when < w
  /\ p \in Flying => w <= draft[p].when /\ ToBeCurrent(p)
  /\ p \notin Flying => \E f \in UpToDate : w <= f.when
  /\ Spared(doomed, UpToDate, w)

Secured(n) ==
  \A p \in Procs : lock = p /\ target # 0 /\ pc[p] # "naming" =>
    \E w \in Nat : Guarded(n, w, p)

Backed == \E n \in Nat : Marked(n) /\ Secured(n)

BackedInv == Crowd /\ Marks /\ NewestSpared /\ Older /\ Backed

(* There are not more commands than the retention.                         *)
Roomy == IsFiniteSet(Procs) /\ (Retention = 0 \/ Cardinality(Procs) <= Retention)

-----------------------------------------------------------------------------
LEMMA Fields ==
  ASSUME IInv
  PROVE  /\ claimed \in Nat /\ target \in Nat
         /\ \A b \in dir : /\ b.when \in Nat /\ b.content \in Nat
                           /\ b.nth \in Nat /\ b.begun \in Nat
                           /\ b.begun < b.nth /\ b.nth <= claimed
         /\ \A q \in Procs : /\ draft[q].when \in Nat /\ draft[q].content \in Nat
                             /\ draft[q].begun \in Nat /\ draft[q].begun <= claimed
         /\ \A q \in Procs : \A x \in doomed[q] : x.when \in Nat
<1>1. /\ claimed \in Nat /\ target \in Nat /\ dir \subseteq Backup
      /\ \A q \in Procs : draft[q] \in Backup /\ doomed[q] \subseteq Backup
  BY DEF IInv, TypeOK
<1>2. \A b \in Backup : /\ b.when \in Nat /\ b.content \in Nat
                        /\ b.nth \in Nat /\ b.begun \in Nat
  BY DEF Backup
<1>3. /\ \A b \in dir : b.begun < b.nth /\ b.nth <= claimed
      /\ \A q \in Procs : draft[q].begun <= claimed
  BY DEF IInv, Counted
<1>. QED  BY <1>1, <1>2, <1>3

(* Of some backups, one was begun last.                                    *)
LEMMA LastBegun ==
  ASSUME IInv, NEW X \in SUBSET dir, X # {}
  PROVE  \E x \in X : \A y \in X : y.begun <= x.begun
<1>. DEFINE T == {claimed - x.begun : x \in X}
<1>1. claimed \in Nat /\ \A x \in X : x.begun \in Nat /\ x.begun <= claimed
  BY Fields
<1>2. T \subseteq Nat /\ T # {}
  BY <1>1
<1>3. PICK t \in T : \A u \in T : ~(<<u, t>> \in OpToRel(<, Nat))
  <2>. HIDE DEF T
  <2>. QED  BY <1>2, NatLessThanWellFounded, WFMin
<1>4. PICK x \in X : t = claimed - x.begun
  BY <1>3
<1>5. ASSUME NEW y \in X
      PROVE  y.begun <= x.begun
  <2>1. claimed - y.begun \in T
    OBVIOUS
  <2>2. ~(<<claimed - y.begun, t>> \in OpToRel(<, Nat))
    BY <1>3, <2>1
  <2>3. claimed - y.begun \in Nat /\ t \in Nat
    BY <1>2, <1>3, <2>1
  <2>4. ~(claimed - y.begun < t)
    BY <2>2, <2>3 DEF OpToRel
  <2>. QED  BY <1>1, <1>4, <2>4
<1>. QED  BY <1>5

LEMMA CrowdSets ==
  ASSUME PrunedInv, IsFiniteSet(Procs), NEW m
  PROVE  /\ IsFiniteSet(Busy(m)) /\ Cardinality(Busy(m)) \in Nat
         /\ IsFiniteSet(Drafting(m)) /\ Cardinality(Drafting(m)) \in Nat
         /\ IsFiniteSet(Done(m)) /\ Cardinality(Done(m)) \in Nat
         /\ Cardinality(Procs) \in Nat
<1>1. /\ Busy(m) \in SUBSET dir /\ IsFiniteSet(dir)
      /\ Drafting(m) \in SUBSET Procs /\ Done(m) \in SUBSET Procs
  BY DEF Busy, Drafting, Done, Flying, PrunedInv
<1>2. IsFiniteSet(Busy(m)) /\ IsFiniteSet(Drafting(m)) /\ IsFiniteSet(Done(m))
  BY <1>1, FS_Subset
<1>. QED  BY <1>2, FS_CardinalityType

(* Backups each of which was begun before any other was claimed were being *)
(* made at one time, when the last of them was begun.                      *)
LEMMA Overlapping ==
  ASSUME IInv, PrunedInv, Crowd, IsFiniteSet(Procs),
         NEW X \in SUBSET dir, X # {}, \A x, y \in X : x.begun < y.nth
  PROVE  \E x \in X : /\ \A y \in X : y.begun <= x.begun
                      /\ Cardinality(X) + Cardinality(Done(x.begun)) <= Cardinality(Procs)
<1>1. PICK x \in X : \A y \in X : y.begun <= x.begun
  BY LastBegun
<1>. DEFINE m == x.begun
<1>2. m \in Nat
  BY Fields
<1>3. X \in SUBSET Busy(m)
  BY <1>1 DEF Busy
<1>. HIDE DEF m
<1>4. /\ IsFiniteSet(Busy(m)) /\ Cardinality(Busy(m)) \in Nat
      /\ Cardinality(Drafting(m)) \in Nat /\ Cardinality(Done(m)) \in Nat
      /\ Cardinality(Procs) \in Nat
  BY CrowdSets
<1>5. Cardinality(X) <= Cardinality(Busy(m)) /\ IsFiniteSet(X)
  BY <1>3, <1>4, FS_Subset
<1>6. Cardinality(X) \in Nat
  BY <1>5, FS_CardinalityType
<1>7. Cardinality(Busy(m)) + Cardinality(Drafting(m)) + Cardinality(Done(m)) <= Cardinality(Procs)
  BY <1>2 DEF Crowd
<1>8. Cardinality(X) + Cardinality(Done(m)) <= Cardinality(Procs)
  BY <1>4, <1>5, <1>6, <1>7
<1>. QED  BY <1>1, <1>8 DEF m

(* With as much room, no prune takes the newest of F, nor a name past all  *)
(* of F: what it would keep was all being made at once, and its own too.   *)
LEMMA PruneSpares ==
  ASSUME IInv, PrunedInv, Crowd, Marks, Roomy, Retention # 0,
         NEW p \in Procs, pc[p] = "listing",
         NEW gone \in SUBSET Others(p), OldestFirst(gone, Others(p) \ gone),
         Cardinality(Others(p) \ gone) = Survivors(p),
         NEW F \in SUBSET dir, NEW n \in Nat, NEW w \in Nat,
         \A b \in F : n < b.nth,
         \A b \in dir \ F : b.begun <= n,
         \A b \in dir : b.nth <= n => b.when < w,
         NEW x \in gone, w <= x.when, \A f \in F : f.when <= x.when
  PROVE  FALSE
<1>. DEFINE kept == Others(p) \ gone
            X    == kept \cup {x}
<1>1. \A y \in X : y \in Others(p) /\ y \in dir /\ x.when <= y.when
  <2>1. \A y \in X : y \in Others(p) /\ y \in dir
    BY DEF Others
  <2>2. \A y \in kept : ~(x.when > y.when)
    BY DEF OldestFirst, Later
  <2>. QED  BY <2>1, <2>2, Fields
<1>2. \A y \in X : n < y.nth
  <2>1. SUFFICES ASSUME NEW y \in X, y.nth <= n  PROVE FALSE
    BY <1>1, Fields
  <2>2. y.when < w
    BY <1>1, <2>1
  <2>. QED  BY <1>1, <2>2, Fields
<1>3. \A y \in X, o \in dir : o.begun < y.nth
  <2>1. SUFFICES ASSUME NEW y \in X, NEW o \in dir, y.nth <= o.begun  PROVE FALSE
    BY <1>1, Fields
  <2>2. y.when < o.when
    BY <1>1, <2>1 DEF IInv, InOrder, Preceded
  <2>3. o \notin F
    BY <1>1, <2>2, Fields
  <2>4. o.begun <= n
    BY <2>3
  <2>. QED  BY <1>1, <1>2, <2>1, <2>4, Fields
<1>4. /\ IsFiniteSet(X) /\ X \in SUBSET dir /\ X # {}
      /\ Cardinality(X) = Survivors(p) + 1
      /\ Cardinality(X) \in Nat
  <2>1. IsFiniteSet(kept) /\ x \notin kept
    BY FS_Subset DEF PrunedInv, Others
  <2>2. IsFiniteSet(X) /\ Cardinality(X) = Cardinality(kept) + 1
    <3>. HIDE DEF kept
    <3>. QED  BY <2>1, FS_AddElement
  <2>3. Cardinality(X) \in Nat
    BY <2>2, FS_CardinalityType
  <2>. QED  BY <1>1, <2>2, <2>3
<1>5. IsFiniteSet(Procs) /\ Cardinality(Procs) <= Retention /\ Retention \in Nat \ {0}
      /\ Cardinality(Procs) \in Nat
  BY FS_CardinalityType, BoundsAssumption DEF Roomy
<1>6. PICK l \in X : /\ \A y \in X : y.begun <= l.begun
                     /\ Cardinality(X) + Cardinality(Done(l.begun)) <= Cardinality(Procs)
  <2>. HIDE DEF X
  <2>1. \A y, z \in X : y.begun < z.nth
    BY <1>1, <1>3
  <2>. QED  BY <1>4, <1>5, <2>1, Overlapping
<1>. HIDE DEF X
<1>7. IsFiniteSet(Done(l.begun)) /\ Cardinality(Done(l.begun)) \in Nat
  BY <1>5, CrowdSets
<1>8. CASE ~MineIsThere(p)
  BY <1>4, <1>5, <1>6, <1>7, <1>8 DEF Survivors
<1>9. CASE MineIsThere(p)
  <2>1. PICK o \in dir : IsMine(p, o)
    BY <1>9 DEF MineIsThere
  <2>2. /\ HasClaimed(p) /\ mine[p].nth <= o.nth /\ mine[p].nth \in Nat
        /\ Cardinality(X) = Retention
    BY <1>4, <1>5, <1>9, <2>1 DEF Marks, MarksOf, HasClaimed, Survivors, Backup
  <2>3. CASE mine[p].nth <= l.begun
    <3>1. p \in Done(l.begun)
      BY <2>2, <2>3 DEF Done
    <3>2. Cardinality(Done(l.begun)) # 0
      BY <1>7, <3>1, FS_EmptySet
    <3>. QED  BY <1>5, <1>6, <1>7, <2>2, <3>2
  <2>4. CASE ~(mine[p].nth <= l.begun)
    <3>1. l.begun < o.nth /\ l.begun \in Nat /\ o.begun < o.nth /\ o.nth \in Nat
      BY <1>1, <2>2, <2>4, Fields
    <3>2. o \notin X
      BY <1>1, <2>1 DEF Others
    <3>3. \A y, z \in X \cup {o} : y.begun < z.nth
      <4>1. \A y \in X \cup {o}, z \in X : y.begun < z.nth
        BY <1>1, <1>3
      <4>2. \A y \in X : y.begun < o.nth
        BY <1>1, <1>6, <3>1, Fields
      <4>. QED  BY <3>1, <4>1, <4>2
    <3>4. IsFiniteSet(X \cup {o}) /\ Cardinality(X \cup {o}) = Retention + 1
      BY <1>4, <2>2, <3>2, FS_AddElement
    <3>5. PICK k \in X \cup {o} :
            Cardinality(X \cup {o}) + Cardinality(Done(k.begun)) <= Cardinality(Procs)
      <4>1. X \cup {o} \in SUBSET dir /\ X \cup {o} # {}
        BY <1>4, <2>1
      <4>. QED  BY <1>5, <3>3, <4>1, Overlapping
    <3>6. Cardinality(Done(k.begun)) \in Nat
      BY <1>5, CrowdSets
    <3>. QED  BY <1>5, <3>4, <3>5, <3>6
  <2>. QED  BY <2>3, <2>4
<1>. QED  BY <1>8, <1>9

(* So every prune leaves F its newest, or nothing that matters.            *)
LEMMA ListSpares ==
  ASSUME IInv, PrunedInv, Crowd, Marks, Roomy, NEW p \in Procs, ListForPrune(p),
         NEW F \in SUBSET dir, NEW n \in Nat, NEW w \in Nat,
         \A b \in F : n < b.nth,
         \A b \in dir \ F : b.begun <= n,
         \A b \in dir : b.nth <= n => b.when < w,
         Spared(doomed, F, w)
  PROVE  Spared(doomed', F, w)
<1>1. CASE Retention = 0
  <2>1. doomed' = [doomed EXCEPT ![p] = {}]
    BY <1>1 DEF ListForPrune, Return, Leave
  <2>. QED  BY <2>1 DEF Spared, IInv, TypeOK
<1>2. CASE Retention # 0
  <2>1. PICK gone \in SUBSET Others(p) :
          /\ gone # {} => Cardinality(Others(p) \ gone) = Survivors(p)
          /\ OldestFirst(gone, Others(p) \ gone)
          /\ doomed' = [doomed EXCEPT ![p] = gone]
    BY <1>2 DEF ListForPrune
  <2>2. pc[p] = "listing"
    BY DEF ListForPrune
  <2>3. ASSUME NEW x \in gone
        PROVE  x.when < w \/ \E f \in F : x.when < f.when
    <3>1. SUFFICES ASSUME w <= x.when, \A f \in F : f.when <= x.when  PROVE FALSE
      BY Fields DEF Others
    <3>. QED  BY <1>2, <2>1, <2>2, <3>1, PruneSpares
  <2>. QED  BY <2>1, <2>3 DEF Spared, IInv, TypeOK
<1>. QED  BY <1>1, <1>2

(* And a deletion of one of F leaves F a newer one.                        *)
LEMMA DeleteSpares ==
  ASSUME IInv, NEW p \in Procs, Delete(p),
         NEW F \in SUBSET dir, NEW w \in Nat, Spared(doomed, F, w)
  PROVE  /\ Spared(doomed', F \cap dir', w)
         /\ (\E f \in F : w <= f.when) => \E f \in F \cap dir' : w <= f.when
<1>1. PICK b \in doomed[p] : /\ dir' = {c \in dir : ~SameName(b, c)}
                             /\ doomed' = [doomed EXCEPT ![p] = @ \ {b}]
  BY DEF Delete
<1>2. \A r \in Procs : doomed'[r] \subseteq doomed[r]
  BY <1>1 DEF IInv, TypeOK
<1>3. b.when \in Nat /\ \A f \in F : f.when \in Nat
  BY Fields
<1>4. \A f \in F : f \in dir' \/ f.when = b.when
  BY <1>1 DEF SameName
<1>5. b.when < w \/ \E f \in F \cap dir' : b.when < f.when
  <2>1. b.when < w \/ \E f \in F : b.when < f.when
    BY DEF Spared
  <2>. QED  BY <1>3, <1>4, <2>1
<1>6. Spared(doomed', F \cap dir', w)
  <2>1. SUFFICES ASSUME NEW r \in Procs, NEW x \in doomed[r]
                 PROVE  x.when < w \/ \E f \in F \cap dir' : x.when < f.when
    BY <1>2 DEF Spared
  <2>2. x.when \in Nat
    BY Fields
  <2>3. CASE x.when < w
    BY <2>3
  <2>4. CASE \E f \in F : x.when < f.when
    <3>1. PICK f \in F : x.when < f.when
      BY <2>4
    <3>. QED  BY <1>3, <1>4, <1>5, <2>2, <3>1
  <2>. QED  BY <2>3, <2>4 DEF Spared
<1>7. ASSUME NEW f \in F, w <= f.when
      PROVE  \E g \in F \cap dir' : w <= g.when
  BY <1>3, <1>4, <1>5, <1>7
<1>. QED  BY <1>6, <1>7

-----------------------------------------------------------------------------
(* What a step of one command leaves the others, and what it may add.      *)
LEMMA StepIsOwn ==
  ASSUME IInv, NEW p \in Procs, Command(p)
  PROVE  /\ \A q \in Procs : q # p => /\ pc'[q] = pc[q] /\ mine'[q] = mine[q]
                                      /\ doomed'[q] = doomed[q] /\ draft'[q] = draft[q]
                                      /\ lock' = q <=> lock = q
         /\ ~Claim(p) => dir' \subseteq dir /\ claimed' = claimed
         /\ ~Delete(p) => dir \subseteq dir'
         /\ ~Replace(p) => target' = target
         /\ ~ListForPrune(p) => doomed'[p] \subseteq doomed[p]
<1>. DEFINE Own == \A q \in Procs : q # p => /\ pc'[q] = pc[q] /\ mine'[q] = mine[q]
                                            /\ doomed'[q] = doomed[q] /\ draft'[q] = draft[q]
            Lock == \A q \in Procs : q # p => (lock' = q <=> lock = q)
<1>1. /\ pc \in [Procs -> Labels] /\ draft \in [Procs -> Backup]
      /\ mine \in [Procs -> Backup \cup {None}] /\ doomed \in [Procs -> SUBSET Backup]
      /\ \A q \in Procs : q # None
  BY NoneAssumption DEF IInv, TypeOK
<1>2. ASSUME NEW label, Leave(p, label)
      PROVE  Own /\ doomed'[p] \subseteq doomed[p]
  BY <1>1, <1>2 DEF Leave, Goto
<1>3. ASSUME Return(p)
      PROVE  Own /\ Lock /\ doomed'[p] \subseteq doomed[p]
  BY <1>2, <1>3 DEF Return
<1>4. ASSUME End(p)
      PROVE  Own /\ Lock /\ doomed'[p] \subseteq doomed[p]
  BY <1>1, <1>2, <1>4 DEF End
<1>5. Own /\ Lock /\ (~ListForPrune(p) => doomed'[p] \subseteq doomed[p])
  <2>1. CASE StartSave(p)
    BY <1>1, <2>1 DEF StartSave, Goto
  <2>2. CASE DbBackup(p)
    BY <1>1, <2>2 DEF DbBackup, Goto
  <2>3. CASE ChooseName(p)
    BY <1>1, <2>3 DEF ChooseName, Goto
  <2>4. CASE Copy(p)
    BY <1>1, <2>4 DEF Copy, Goto
  <2>5. CASE Claim(p)
    BY <1>1, <2>5 DEF Claim, Goto
  <2>6. CASE Stat(p)
    BY <1>1, <1>4, <2>6 DEF Stat, Goto
  <2>7. CASE ListForPrune(p)
    BY <1>1, <1>3, <2>7 DEF ListForPrune, Goto
  <2>8. CASE Delete(p)
    BY <1>1, <2>8 DEF Delete
  <2>9. CASE Pruned(p)
    BY <1>3, <2>9 DEF Pruned
  <2>10. CASE PruneFails(p)
    BY <1>3, <2>10 DEF PruneFails
  <2>11. CASE Replace(p)
    BY <1>4, <2>11 DEF Replace
  <2>12. CASE Fails(p)
    BY <1>4, <2>12 DEF Fails
  <2>. QED
    BY <2>1, <2>2, <2>3, <2>4, <2>5, <2>6, <2>7, <2>8, <2>9, <2>10, <2>11, <2>12 DEF Command
<1>6. ~Claim(p) => dir' \subseteq dir /\ claimed' = claimed
  BY DEF Command, StartSave, DbBackup, ChooseName, Copy, Stat, ListForPrune, Delete, Pruned,
         PruneFails, Replace, Fails
<1>7. ~Delete(p) => dir \subseteq dir'
  BY DEF Command, StartSave, DbBackup, ChooseName, Copy, Claim, Stat, ListForPrune, Pruned,
         PruneFails, Replace, Fails
<1>8. ~Replace(p) => target' = target
  BY DEF Command, StartSave, DbBackup, ChooseName, Copy, Claim, Stat, ListForPrune, Delete,
         Pruned, PruneFails, Fails
<1>. QED  BY <1>5, <1>6, <1>7, <1>8

(* The backup a claim makes.                                               *)
LEMMA ClaimMakes ==
  ASSUME IInv, NEW p \in Procs, Claim(p)
  PROVE  \E new :
           /\ new.when = draft[p].when /\ new.content = draft[p].content
           /\ new.nth = claimed + 1 /\ new.begun = draft[p].begun
           /\ mine'[p] = new /\ dir' = dir \cup {new} /\ new \in Backup
           /\ claimed' = claimed + 1 /\ pc[p] = "copied" /\ pc'[p] = "claimed"
           /\ UNCHANGED <<target, lock, draft, doomed>>
           /\ \A b \in dir : ~SameName(b, new)
<1>1. PICK n \in 0..MaxBackups :
        /\ ~Taken(draft[p].when, n)
        /\ mine' = [mine EXCEPT ![p] =
                      [when |-> draft[p].when, suffix |-> n, content |-> draft[p].content,
                       nth |-> claimed + 1, begun |-> draft[p].begun]]
  BY DEF Claim
<1>. DEFINE new == [when |-> draft[p].when, suffix |-> n, content |-> draft[p].content,
                    nth |-> claimed + 1, begun |-> draft[p].begun]
<1>2. mine'[p] = new /\ dir' = dir \cup {mine'[p]} /\ claimed' = claimed + 1
      /\ pc[p] = "copied" /\ pc'[p] = "claimed" /\ UNCHANGED <<target, lock, draft, doomed>>
  BY <1>1 DEF Claim, Goto, IInv, TypeOK
<1>3. /\ new.when = draft[p].when /\ new.suffix = n /\ new.content = draft[p].content
      /\ new.nth = claimed + 1 /\ new.begun = draft[p].begun
      /\ new \in Backup
  BY BoundsAssumption DEF IInv, TypeOK, Backup
<1>. HIDE DEF new
<1>4. \A b \in dir : ~SameName(b, new)
  BY <1>1, <1>3 DEF Taken, SameName
<1>. QED  BY <1>2, <1>3, <1>4

LEMMA NextMarks ==
  ASSUME IInv, IInv', Marks, NEW p \in Procs, Command(p)
  PROVE  Marks'
<1>1. /\ pc \in [Procs -> Labels] /\ mine \in [Procs -> Backup \cup {None}]
      /\ mine' \in [Procs -> Backup \cup {None}] /\ claimed \in Nat
  BY DEF IInv, TypeOK
<1>2. ASSUME NEW q \in Procs, q # p
      PROVE  MarksOf(q)'
  <2>1. /\ MarksOf(q) /\ pc'[q] = pc[q] /\ mine'[q] = mine[q] /\ (lock' = q <=> lock = q)
    BY <1>2, StepIsOwn DEF Marks
  <2>2. CASE Claim(p)
    <3>1. PICK new : /\ new.nth = claimed + 1 /\ dir' = dir \cup {new}
                     /\ claimed' = claimed + 1 /\ new \in Backup
      BY <2>2, ClaimMakes
    <3>2. HasClaimed(q) => mine[q].nth \in Nat
      BY <2>1 DEF MarksOf, Backup
    <3>. QED  BY <1>1, <2>1, <3>1, <3>2 DEF MarksOf, HasClaimed, IsMine, SameName
  <2>3. CASE ~Claim(p)
    <3>1. dir' \subseteq dir /\ claimed' = claimed
      BY <2>3, StepIsOwn
    <3>. QED  BY <2>1, <3>1 DEF MarksOf, HasClaimed, IsMine, SameName
  <2>. QED  BY <2>2, <2>3
<1>3. ASSUME NEW label \in {"idle", "replacing"}, Leave(p, label), label = "replacing" => lock' = p
      PROVE  MarksOf(p)'
  BY <1>1, <1>3 DEF Leave, Goto, MarksOf, HasClaimed
<1>4. ASSUME Return(p)
      PROVE  MarksOf(p)'
  BY <1>3, <1>4 DEF Return
<1>5. ASSUME End(p)
      PROVE  MarksOf(p)'
  BY <1>3, <1>5 DEF End
<1>6. ASSUME mine' = mine, pc'[p] \in {"naming", "copying", "copied"}
             \/ (pc'[p] = "replacing" /\ lock' = p)
      PROVE  MarksOf(p)'
  BY <1>6 DEF MarksOf, HasClaimed
<1>7. ASSUME mine' = mine, HasClaimed(p), pc'[p] \in {"listing", "pruning"},
             dir' \subseteq dir, claimed' = claimed
      PROVE  MarksOf(p)'
  BY <1>7 DEF Marks, MarksOf, HasClaimed, IsMine, SameName
<1>8. MarksOf(p)'
  <2>1. CASE StartSave(p)
    BY <1>1, <1>6, <2>1 DEF StartSave, Goto
  <2>2. CASE DbBackup(p)
    BY <1>1, <1>6, <2>2 DEF DbBackup, Goto
  <2>3. CASE ChooseName(p)
    BY <1>1, <1>6, <2>3 DEF ChooseName, Goto
  <2>4. CASE Copy(p)
    BY <1>1, <1>6, <2>4 DEF Copy, Goto
  <2>5. CASE Claim(p)
    <3>1. PICK new : /\ new.nth = claimed + 1 /\ mine'[p] = new /\ dir' = dir \cup {new}
                     /\ claimed' = claimed + 1 /\ new \in Backup
                     /\ \A b \in dir : ~SameName(b, new) /\ pc'[p] = "claimed"
      BY <2>5, ClaimMakes
    <3>2. new.nth <= claimed'
      BY <1>1, <3>1
    <3>3. pc'[p] = "claimed"
      BY <2>5, ClaimMakes
    <3>. QED  BY <1>1, <3>1, <3>2, <3>3 DEF MarksOf, HasClaimed, IsMine, SameName
  <2>6. CASE Stat(p)
    BY <1>1, <1>5, <1>7, <2>6 DEF Stat, Goto, HasClaimed
  <2>7. CASE ListForPrune(p)
    BY <1>1, <1>4, <1>7, <2>7 DEF ListForPrune, Goto, HasClaimed
  <2>8. CASE Delete(p)
    BY <1>1, <1>7, <2>8 DEF Delete, HasClaimed
  <2>9. CASE Pruned(p)
    BY <1>4, <2>9 DEF Pruned
  <2>10. CASE PruneFails(p)
    BY <1>4, <2>10 DEF PruneFails
  <2>11. CASE Replace(p)
    BY <1>5, <2>11 DEF Replace
  <2>12. CASE Fails(p)
    BY <1>5, <2>12 DEF Fails
  <2>. QED
    BY <2>1, <2>2, <2>3, <2>4, <2>5, <2>6, <2>7, <2>8, <2>9, <2>10, <2>11, <2>12 DEF Command
<1>. QED  BY <1>2, <1>8 DEF Marks

(* At a claim that is yet to come every backup there is has been claimed.  *)
CrowdToCome ==
  \A m \in Nat : claimed <= m =>
    Cardinality(Busy(m)) + Cardinality(Drafting(m)) + Cardinality(Done(m)) <= Cardinality(Procs)

LEMMA NoneYetToCome == IInv /\ PrunedInv /\ IsFiniteSet(Procs) => CrowdToCome
<1>0. SUFFICES ASSUME IInv, PrunedInv, IsFiniteSet(Procs), NEW m \in Nat, claimed <= m
               PROVE  Cardinality(Busy(m)) + Cardinality(Drafting(m)) + Cardinality(Done(m))
                        <= Cardinality(Procs)
  BY DEF CrowdToCome
<1>1. Busy(m) = {}
  BY <1>0, Fields DEF Busy
<1>2. /\ Drafting(m) \cup Done(m) \in SUBSET Procs
      /\ Drafting(m) \cap Done(m) = {}
  BY DEF Drafting, Done, Flying, HasClaimed
<1>3. /\ IsFiniteSet(Drafting(m)) /\ Cardinality(Drafting(m)) \in Nat
      /\ IsFiniteSet(Done(m)) /\ Cardinality(Done(m)) \in Nat
      /\ Cardinality(Procs) \in Nat
  BY <1>0, CrowdSets
<1>4. Cardinality(Drafting(m) \cup Done(m)) = Cardinality(Drafting(m)) + Cardinality(Done(m))
  <2>1. Cardinality(Drafting(m) \cap Done(m)) = 0
    BY <1>2, FS_EmptySet
  <2>2. Cardinality(Drafting(m) \cup Done(m))
          = Cardinality(Drafting(m)) + Cardinality(Done(m)) - Cardinality(Drafting(m) \cap Done(m))
    BY <1>3, FS_Union
  <2>. QED  BY <1>3, <2>1, <2>2
<1>5. Cardinality(Drafting(m) \cup Done(m)) <= Cardinality(Procs)
  BY <1>0, <1>2, FS_Subset
<1>6. Cardinality(Busy(m)) = 0
  BY <1>1, FS_EmptySet
<1>. QED  BY <1>3, <1>4, <1>5, <1>6

(* A command is making a backup after two of its steps only.              *)
LEMMA OnlyThenFlying ==
  ASSUME IInv, NEW p \in Procs, Command(p), p \in Flying'
  PROVE  ChooseName(p) \/ Copy(p)
<1>1. pc \in [Procs -> Labels] /\ pc'[p] \in {"copying", "copied"}
  BY DEF IInv, TypeOK, Flying
<1>2. ASSUME NEW label \in {"idle", "replacing"}, Leave(p, label)
      PROVE  FALSE
  BY <1>1, <1>2 DEF Leave, Goto
<1>3. ~(StartSave(p) \/ DbBackup(p) \/ Claim(p) \/ Stat(p) \/ ListForPrune(p) \/ Delete(p))
  BY <1>1, <1>2 DEF StartSave, DbBackup, Claim, Stat, ListForPrune, Delete, Goto, End, Return
<1>4. ~(Pruned(p) \/ PruneFails(p) \/ Replace(p) \/ Fails(p))
  BY <1>2 DEF Pruned, PruneFails, Replace, Fails, End, Return
<1>. QED  BY <1>3, <1>4 DEF Command

(* Seen from any claim in the past, a step makes the crowd no larger: a    *)
(* claim makes a backup of a draft.                                        *)
LEMMA NextCrowd ==
  ASSUME IInv, IInv', PrunedInv, PrunedInv', IsFiniteSet(Procs), Marks, Crowd,
         NEW p \in Procs, Command(p)
  PROVE  Crowd'
<1>1. SUFFICES ASSUME NEW m \in Nat
               PROVE  (Cardinality(Busy(m)) + Cardinality(Drafting(m)) + Cardinality(Done(m))
                         <= Cardinality(Procs))'
  BY DEF Crowd
<1>2. CASE claimed' <= m
  <2>1. IsFiniteSet(Procs)'
    OBVIOUS
  <2>2. CrowdToCome'
    BY <2>1, NoneYetToCome, PTL
  <2>. QED  BY <1>2, <2>2 DEF CrowdToCome
<1>3. CASE ~(claimed' <= m)
  <2>1. /\ claimed \in Nat /\ claimed' \in Nat
        /\ pc \in [Procs -> Labels] /\ draft \in [Procs -> Backup]
        /\ mine \in [Procs -> Backup \cup {None}]
    BY DEF IInv, TypeOK
  <2>2. /\ IsFiniteSet(Busy(m)) /\ Cardinality(Busy(m)) \in Nat
        /\ IsFiniteSet(Drafting(m)) /\ Cardinality(Drafting(m)) \in Nat
        /\ IsFiniteSet(Done(m)) /\ Cardinality(Done(m)) \in Nat
        /\ Cardinality(Procs) \in Nat
    BY CrowdSets
  <2>3. Cardinality(Busy(m)) + Cardinality(Drafting(m)) + Cardinality(Done(m))
          <= Cardinality(Procs)
    BY DEF Crowd
  <2>4. CASE Claim(p)
    <3>1. PICK new : /\ new.nth = claimed + 1 /\ new.begun = draft[p].begun
                     /\ mine'[p] = new /\ dir' = dir \cup {new} /\ new \in Backup
                     /\ claimed' = claimed + 1 /\ pc[p] = "copied" /\ pc'[p] = "claimed"
                     /\ draft' = draft
      BY <2>4, ClaimMakes
    <3>2. \A q \in Procs : q # p => pc'[q] = pc[q] /\ mine'[q] = mine[q]
      BY StepIsOwn
    <3>3. Done(m)' = Done(m)
      BY <1>3, <2>1, <3>1, <3>2 DEF Done, HasClaimed
    <3>4. Drafting(m)' = Drafting(m) \ {p}
      BY <2>1, <3>1, <3>2 DEF Drafting, Flying
    <3>5. p \in Drafting(m) <=> draft[p].begun <= m
      BY <3>1 DEF Drafting, Flying
    <3>6. CASE draft[p].begun <= m
      <4>1. Busy(m)' = Busy(m) \cup {new}
        BY <1>3, <2>1, <3>1, <3>6 DEF Busy
      <4>2. Cardinality(Busy(m)') <= Cardinality(Busy(m)) + 1
        <5>1. Cardinality(Busy(m) \cup {new})
                = IF new \in Busy(m) THEN Cardinality(Busy(m)) ELSE Cardinality(Busy(m)) + 1
          BY <2>2, FS_AddElement
        <5>. QED  BY <2>2, <4>1, <5>1
      <4>3. Cardinality(Drafting(m)') = Cardinality(Drafting(m)) - 1
        BY <2>2, <3>4, <3>5, <3>6, FS_RemoveElement
      <4>4. Cardinality(Busy(m)') \in Nat /\ Cardinality(Drafting(m)') \in Nat
        BY <2>2, <3>4, <4>1, FS_AddElement, FS_RemoveElement, FS_CardinalityType
      <4>. QED  BY <2>2, <2>3, <3>3, <4>2, <4>3, <4>4
    <3>7. CASE ~(draft[p].begun <= m)
      <4>1. Busy(m)' = Busy(m)
        BY <3>1, <3>7 DEF Busy
      <4>2. Drafting(m)' = Drafting(m)
        BY <3>4, <3>5, <3>7
      <4>. QED  BY <2>3, <3>3, <4>1, <4>2
    <3>. QED  BY <3>6, <3>7
  <2>5. CASE ~Claim(p)
    <3>1. dir' \subseteq dir /\ claimed' = claimed
      BY <2>5, StepIsOwn
    <3>2. \A q \in Procs : q # p => pc'[q] = pc[q] /\ mine'[q] = mine[q] /\ draft'[q] = draft[q]
      BY StepIsOwn
    <3>3. Busy(m)' \in SUBSET Busy(m)
      BY <3>1 DEF Busy
    <3>4. p \in Drafting(m)' => p \in Drafting(m)
      <4>1. SUFFICES ASSUME pc'[p] \in {"copying", "copied"}, draft'[p].begun <= m
                     PROVE  p \in Drafting(m)
        BY DEF Drafting, Flying
      <4>2. ~ChooseName(p)
        BY <1>3, <2>1, <3>1, <4>1 DEF ChooseName
      <4>3. Copy(p)
        BY <4>1, <4>2, OnlyThenFlying DEF Flying
      <4>. QED  BY <2>1, <4>1, <4>3 DEF Copy, Drafting, Flying
    <3>5. p \in Done(m)' => p \in Done(m)
      <4>1. SUFFICES ASSUME HasClaimed(p)', mine'[p].nth <= m
                     PROVE  p \in Done(m)
        BY DEF Done
      <4>2. ASSUME NEW label \in {"idle", "replacing"}, Leave(p, label)
            PROVE  FALSE
        BY <2>1, <4>1, <4>2 DEF Leave, Goto, HasClaimed
      <4>3. ~(StartSave(p) \/ DbBackup(p) \/ ChooseName(p) \/ Copy(p))
        BY <2>1, <4>1 DEF StartSave, DbBackup, ChooseName, Copy, Goto, HasClaimed
      <4>4. CASE Stat(p) \/ ListForPrune(p) \/ Delete(p)
        <5>1. mine' = mine /\ HasClaimed(p)
          BY <4>2, <4>4 DEF Stat, ListForPrune, Delete, End, Return, HasClaimed
        <5>. QED  BY <4>1, <5>1 DEF Done
      <4>5. ~(Pruned(p) \/ PruneFails(p) \/ Replace(p) \/ Fails(p))
        BY <4>2 DEF Pruned, PruneFails, Replace, Fails, End, Return
      <4>. QED  BY <2>5, <4>3, <4>4, <4>5 DEF Command
    <3>6. Drafting(m)' \in SUBSET Drafting(m) /\ Done(m)' \in SUBSET Done(m)
      BY <3>2, <3>4, <3>5 DEF Drafting, Done, Flying, HasClaimed
    <3>7. /\ Cardinality(Busy(m)') <= Cardinality(Busy(m))
          /\ Cardinality(Drafting(m)') <= Cardinality(Drafting(m))
          /\ Cardinality(Done(m)') <= Cardinality(Done(m))
          /\ IsFiniteSet(Busy(m)') /\ IsFiniteSet(Drafting(m)') /\ IsFiniteSet(Done(m)')
      BY <2>2, <3>3, <3>6, FS_Subset
    <3>8. /\ Cardinality(Busy(m)') \in Nat /\ Cardinality(Drafting(m)') \in Nat
          /\ Cardinality(Done(m)') \in Nat
      BY <3>7, FS_CardinalityType
    <3>. QED  BY <2>2, <2>3, <3>7, <3>8
  <2>. QED  BY <2>4, <2>5
<1>. QED  BY <1>2, <1>3

LEMMA NextNewest ==
  ASSUME IInv, PrunedInv, Crowd, Marks, Roomy, NewestSpared, NEW p \in Procs, Command(p)
  PROVE  NewestSpared'
<1>1. CASE ListForPrune(p)
  <2>1. /\ \A b \in dir : 0 < b.nth
        /\ \A b \in dir : b.nth <= 0 => b.when < 0
    BY Fields
  <2>2. dir' = dir
    BY <1>1 DEF ListForPrune
  <2>3. \A b \in dir \ dir : b.begun <= 0
    OBVIOUS
  <2>4. Spared(doomed', dir, 0)
    BY <1>1, <2>1, <2>3, ListSpares DEF NewestSpared
  <2>. QED  BY <2>2, <2>4 DEF NewestSpared, Spared
<1>2. CASE Delete(p)
  <2>1. dir' \subseteq dir
    BY <1>2 DEF Delete
  <2>2. Spared(doomed', dir \cap dir', 0)
    BY <1>2, DeleteSpares DEF NewestSpared
  <2>. QED  BY <2>1, <2>2 DEF NewestSpared, Spared
<1>3. CASE ~ListForPrune(p) /\ ~Delete(p)
  <2>1. /\ dir \subseteq dir'
        /\ \A q \in Procs : doomed'[q] \subseteq doomed[q]
    BY <1>3, StepIsOwn
  <2>. QED  BY <2>1 DEF NewestSpared, Spared
<1>. QED  BY <1>1, <1>2, <1>3

LEMMA NextOlder ==
  ASSUME IInv, Older, NEW p \in Procs, Command(p)
  PROVE  Older'
<1>1. target \in Nat /\ (target' = target \/ target' = target + 1)
  BY StepIsOwn DEF Replace, IInv, TypeOK
<1>2. \A b \in dir' : b.content <= target'
  <2>1. CASE Claim(p)
    <3>1. PICK new : /\ new.content = draft[p].content /\ dir' = dir \cup {new}
                     /\ pc[p] = "copied" /\ target' = target
      BY <2>1, ClaimMakes
    <3>. QED  BY <3>1 DEF Older, Flying
  <2>2. CASE ~Claim(p)
    BY <1>1, <2>2, StepIsOwn, Fields DEF Older
  <2>. QED  BY <2>1, <2>2
<1>3. ASSUME NEW q \in Procs, q \in Flying'
      PROVE  draft'[q].content <= target'
  <2>1. CASE q # p
    <3>1. q \in Flying /\ draft'[q] = draft[q]
      BY <1>3, <2>1, StepIsOwn DEF Flying
    <3>. QED  BY <1>1, <3>1, Fields DEF Older
  <2>2. CASE q = p
    <3>1. ChooseName(p) \/ Copy(p)
      BY <1>3, <2>2, OnlyThenFlying
    <3>2. draft'[p].content \in {0, target} /\ target' = target
      BY <3>1 DEF ChooseName, Copy, IInv, TypeOK
    <3>. QED  BY <1>1, <2>2, <3>2
  <2>. QED  BY <2>1, <2>2
<1>. QED  BY <1>2, <1>3 DEF Older, Flying

(* Until it is replaced, the database's backups are those claimed after n. *)
LEMMA NextMarked ==
  ASSUME IInv, NEW n \in Nat, Marked(n), NEW p \in Procs, Command(p), ~Replace(p)
  PROVE  /\ Marked(n)'
         /\ \A b \in dir' : b \in dir \/ n < b.nth
<1>1. target' = target /\ claimed \in Nat /\ n <= claimed
  BY StepIsOwn DEF IInv, TypeOK, Marked
<1>2. ASSUME NEW q \in Procs, q \in Flying'
      PROVE  ToBeCurrent(q)' \/ draft'[q].begun <= n
  <2>1. CASE q # p
    BY <1>1, <1>2, <2>1, StepIsOwn DEF Marked, Flying, ToBeCurrent
  <2>2. CASE q = p
    <3>1. ChooseName(p) \/ Copy(p)
      BY <1>2, <2>2, OnlyThenFlying
    <3>. QED  BY <1>1, <2>2, <3>1 DEF ChooseName, Copy, Goto, ToBeCurrent, IInv, TypeOK
  <2>. QED  BY <2>1, <2>2
<1>3. CASE Claim(p)
  <2>1. PICK new : /\ new.content = draft[p].content /\ new.nth = claimed + 1
                   /\ new.begun = draft[p].begun /\ dir' = dir \cup {new}
                   /\ claimed' = claimed + 1 /\ pc[p] = "copied"
    BY <1>3, ClaimMakes
  <2>2. n < new.nth /\ n <= claimed'
    BY <1>1, <2>1
  <2>3. new.content = target \/ new.begun <= n
    BY <2>1 DEF Marked, Flying, ToBeCurrent
  <2>. QED  BY <1>1, <1>2, <2>1, <2>2, <2>3 DEF Marked, UpToDate, Flying
<1>4. CASE ~Claim(p)
  <2>1. dir' \subseteq dir /\ claimed' = claimed
    BY <1>4, StepIsOwn
  <2>. QED  BY <1>1, <1>2, <2>1 DEF Marked, UpToDate, Flying
<1>. QED  BY <1>3, <1>4

(* And once a save has chosen the name w, one as new as w is spared.       *)
LEMMA NextSpared ==
  ASSUME IInv, PrunedInv, Crowd, Marks, Roomy,
         NEW n \in Nat, Marked(n), NEW p \in Procs, Command(p), ~Replace(p),
         NEW w \in Nat, \A b \in dir : b.nth <= n => b.when < w, Spared(doomed, UpToDate, w)
  PROVE  /\ (\A b \in dir : b.nth <= n => b.when < w)'
         /\ Spared(doomed, UpToDate, w)'
         /\ (\E f \in UpToDate : w <= f.when) => (\E f \in UpToDate : w <= f.when)'
<1>1. target' = target
  BY StepIsOwn
<1>2. ASSUME NEW b \in dir', b.nth <= n
      PROVE  b.when < w
  <2>1. b \in dir
    <3>1. n \in Nat /\ (b \in dir \/ n < b.nth)
      BY NextMarked
    <3>2. CASE ~Claim(p)
      BY <3>2, StepIsOwn
    <3>3. CASE Claim(p)
      <4>1. PICK new : new.nth = claimed + 1 /\ dir' = dir \cup {new}
        BY <3>3, ClaimMakes
      <4>. QED  BY <1>2, <4>1, Fields DEF Marked
    <3>. QED  BY <3>2, <3>3
  <2>. QED  BY <1>2, <2>1
<1>3. CASE ListForPrune(p)
  <2>1. UpToDate \in SUBSET dir
    BY DEF UpToDate
  <2>2. Spared(doomed', UpToDate, w)
    BY <1>3, <2>1, ListSpares DEF Marked
  <2>3. UpToDate' = UpToDate
    BY <1>1, <1>3 DEF ListForPrune, UpToDate
  <2>. QED  BY <1>2, <2>2, <2>3 DEF Spared
<1>4. CASE Delete(p)
  <2>1. UpToDate \in SUBSET dir
    BY DEF UpToDate
  <2>2. /\ Spared(doomed', UpToDate \cap dir', w)
        /\ (\E f \in UpToDate : w <= f.when) => \E f \in UpToDate \cap dir' : w <= f.when
    BY <1>4, <2>1, DeleteSpares
  <2>3. UpToDate' = UpToDate \cap dir'
    BY <1>1, <1>4 DEF Delete, UpToDate
  <2>. QED  BY <1>2, <2>2, <2>3 DEF Spared
<1>5. CASE ~ListForPrune(p) /\ ~Delete(p)
  <2>1. /\ UpToDate \subseteq UpToDate'
        /\ \A q \in Procs : doomed'[q] \subseteq doomed[q]
    BY <1>1, <1>5, StepIsOwn DEF UpToDate
  <2>. QED  BY <1>2, <2>1 DEF Spared
<1>. QED  BY <1>3, <1>4, <1>5

LEMMA NextSecured ==
  ASSUME IInv, IInv', PrunedInv, Crowd, Marks, Roomy, NewestSpared,
         NEW n \in Nat, Marked(n), Secured(n), NEW p \in Procs, Command(p), ~Replace(p)
  PROVE  Secured(n)'
<1>1. SUFFICES ASSUME NEW q \in Procs, lock' = q, target' # 0, pc'[q] # "naming"
               PROVE  \E w \in Nat : Guarded(n, w, q)'
  BY DEF Secured
<1>2. target' = target /\ pc \in [Procs -> Labels] /\ draft \in [Procs -> Backup] /\ q # None
  BY StepIsOwn, NoneAssumption DEF IInv, TypeOK
<1>3. ASSUME lock = q, pc[q] # "naming", q \in Flying, q \in Flying',
             draft'[q].when = draft[q].when, ToBeCurrent(q)'
      PROVE  \E w \in Nat : Guarded(n, w, q)'
  <2>1. PICK w \in Nat : Guarded(n, w, q)
    BY <1>1, <1>2, <1>3 DEF Secured
  <2>2. /\ (\A b \in dir : b.nth <= n => b.when < w)'
        /\ Spared(doomed, UpToDate, w)'
    BY <2>1, NextSpared DEF Guarded
  <2>3. w <= draft'[q].when
    BY <1>3, <2>1 DEF Guarded
  <2>. QED  BY <1>3, <2>2, <2>3 DEF Guarded
<1>4. ASSUME lock = q, pc[q] # "naming", q \notin Flying, q \notin Flying'
      PROVE  \E w \in Nat : Guarded(n, w, q)'
  <2>1. PICK w \in Nat : Guarded(n, w, q)
    BY <1>1, <1>2, <1>4 DEF Secured
  <2>2. /\ (\A b \in dir : b.nth <= n => b.when < w)'
        /\ Spared(doomed, UpToDate, w)'
        /\ (\E f \in UpToDate : w <= f.when)'
    BY <1>4, <2>1, NextSpared DEF Guarded
  <2>. QED  BY <1>4, <2>2 DEF Guarded
<1>5. CASE q # p
  <2>1. /\ lock = q /\ pc'[q] = pc[q] /\ draft'[q] = draft[q]
        /\ (q \in Flying <=> q \in Flying')
    BY <1>1, <1>5, StepIsOwn DEF Flying
  <2>2. CASE q \in Flying
    <3>1. ToBeCurrent(q)
      BY <1>1, <1>2, <2>1, <2>2 DEF Secured, Guarded
    <3>2. ToBeCurrent(q)'
      BY <1>2, <2>1, <3>1 DEF ToBeCurrent
    <3>. QED  BY <1>1, <1>3, <2>1, <2>2, <3>2
  <2>3. CASE q \notin Flying
    BY <1>1, <1>4, <2>1, <2>3
  <2>. QED  BY <2>2, <2>3
<1>6. CASE q = p
  <2>1. CASE ChooseName(p)
    <3>1. PICK now \in Clock : \E when \in NextTimes(now) :
            draft' = [draft EXCEPT ![p] = [when |-> when, suffix |-> 0, content |-> 0,
                                           nth |-> 0, begun |-> claimed]]
      BY <2>1 DEF ChooseName
    <3>2. PICK when \in NextTimes(now) :
            draft' = [draft EXCEPT ![p] = [when |-> when, suffix |-> 0, content |-> 0,
                                           nth |-> 0, begun |-> claimed]]
      BY <3>1
    <3>3. when \in Nat /\ \A c \in dir : c.when < when
      BY TimeIsLast
    <3>4. /\ draft'[p].when = when /\ pc'[p] = "copying" /\ UNCHANGED <<dir, doomed>>
          /\ p \in Flying'
      BY <1>2, <2>1, <3>2 DEF ChooseName, Goto, Flying
    <3>5. Spared(doomed', UpToDate', when)
      <4>1. SUFFICES ASSUME NEW r \in Procs, NEW x \in doomed[r]
                     PROVE  x.when < when
        BY <3>4 DEF Spared
      <4>2. PICK f \in dir : x.when < f.when
        BY Fields DEF NewestSpared, Spared
      <4>. QED  BY <3>3, <4>2, Fields
    <3>6. Guarded(n, when, p)'
      BY <3>3, <3>4, <3>5 DEF Guarded, ToBeCurrent, Spared
    <3>. QED  BY <1>6, <3>3, <3>6
  <2>2. CASE Copy(p)
    <3>1. /\ lock = p /\ pc[p] = "copying" /\ pc'[p] = "copied"
          /\ draft'[p].when = draft[p].when /\ draft'[p].content = target'
      BY <1>1, <1>2, <1>6, <2>2 DEF Copy, Goto
    <3>. QED  BY <1>3, <1>6, <3>1 DEF Flying, ToBeCurrent
  <2>3. CASE Claim(p)
    <3>1. PICK new : /\ new.when = draft[p].when /\ new.content = draft[p].content
                     /\ dir' = dir \cup {new} /\ pc[p] = "copied" /\ pc'[p] = "claimed"
                     /\ UNCHANGED <<target, lock, draft, doomed>>
      BY <2>3, ClaimMakes
    <3>2. PICK w \in Nat : Guarded(n, w, p)
      BY <1>1, <1>2, <1>6, <3>1 DEF Secured
    <3>3. w <= new.when /\ new \in UpToDate'
      BY <3>1, <3>2 DEF Guarded, Flying, ToBeCurrent, UpToDate
    <3>4. /\ (\A b \in dir : b.nth <= n => b.when < w)'
          /\ Spared(doomed, UpToDate, w)'
      BY <3>2, NextSpared DEF Guarded
    <3>5. p \notin Flying'
      BY <3>1 DEF Flying
    <3>6. Guarded(n, w, p)'
      BY <3>3, <3>4, <3>5 DEF Guarded
    <3>. QED  BY <1>6, <3>6
  <2>4. ~(StartSave(p) \/ DbBackup(p) \/ Fails(p))
    BY <1>1, <1>2, <1>6 DEF StartSave, DbBackup, Fails, End, Goto
  <2>5. CASE Stat(p) \/ ListForPrune(p) \/ Delete(p) \/ Pruned(p) \/ PruneFails(p)
    <3>1. /\ pc[p] \in {"claimed", "listing", "pruning"}
          /\ lock = p
      BY <1>1, <1>2, <1>6, <2>5 DEF Stat, ListForPrune, Delete, Pruned, PruneFails, End, Return
    <3>2. p \notin Flying /\ pc[p] # "naming"
      BY <3>1 DEF Flying
    <3>3. p \notin Flying'
      BY <3>1, OnlyThenFlying DEF ChooseName, Copy
    <3>. QED  BY <1>4, <1>6, <3>1, <3>2, <3>3
  <2>. QED  BY <2>1, <2>2, <2>3, <2>4, <2>5 DEF Command
<1>. QED  BY <1>5, <1>6

LEMMA NextBacked ==
  ASSUME IInv, IInv', PrunedInv, Crowd, Marks, Roomy, NewestSpared, Older, Backed,
         NEW p \in Procs, Command(p)
  PROVE  Backed'
<1>1. PICK n \in Nat : Marked(n) /\ Secured(n)
  BY DEF Backed
<1>2. CASE ~Replace(p)
  BY <1>1, <1>2, NextMarked, NextSecured DEF Backed
<1>3. CASE Replace(p)
  <2>1. /\ claimed \in Nat /\ UNCHANGED <<dir, claimed>> /\ target' = target + 1
        /\ p \notin Flying' /\ lock = p
    BY <1>3, OnlyThenFlying DEF Replace, ChooseName, Copy, Marks, MarksOf, IInv, TypeOK
  <2>2. UpToDate' = {}
    BY <2>1, Fields DEF UpToDate, Older
  <2>3. \A b \in dir : b.begun <= claimed
    BY Fields
  <2>4. \A q \in Flying' : draft'[q].begun <= claimed
    BY <2>1, StepIsOwn, Fields DEF Flying
  <2>5. Marked(claimed)'
    BY <2>1, <2>2, <2>3, <2>4 DEF Marked
  <2>6. lock' = None
    BY <1>3, <2>1 DEF Replace, End
  <2>7. Secured(claimed)'
    BY <2>6, NoneAssumption DEF Secured
  <2>. QED  BY <2>1, <2>5, <2>7 DEF Backed
<1>. QED  BY <1>2, <1>3

LEMMA NextBackedInv ==
  Roomy /\ IInv /\ IInv' /\ PrunedInv /\ PrunedInv' /\ BackedInv /\ [Next]_vars => BackedInv'
<1>. SUFFICES ASSUME Roomy, IInv, IInv', PrunedInv, PrunedInv', BackedInv, [Next]_vars
              PROVE  BackedInv'
  OBVIOUS
<1>1. ASSUME NEW p \in Procs, Command(p)
      PROVE  BackedInv'
  BY <1>1, NextCrowd, NextMarks, NextNewest, NextOlder, NextBacked DEF BackedInv, Roomy
<1>2. CASE UNCHANGED vars
  BY <1>2 DEF vars, BackedInv, Crowd, Busy, Drafting, Flying, Done, HasClaimed, Marks, MarksOf,
              IsMine, SameName, NewestSpared, Spared, Older, Backed, Marked, UpToDate,
              ToBeCurrent, Secured, Guarded
<1>. QED  BY <1>1, <1>2 DEF Next, Rest

LEMMA InitBackedInv == Roomy /\ Init => BackedInv
<1>. SUFFICES ASSUME Roomy, Init  PROVE BackedInv
  OBVIOUS
<1>1. \A m : Busy(m) = {} /\ Drafting(m) = {} /\ Done(m) = {}
  BY DEF Init, Busy, Drafting, Flying, Done, HasClaimed
<1>2. Cardinality({}) = 0 /\ Cardinality(Procs) \in Nat
  BY FS_EmptySet, FS_CardinalityType DEF Roomy
<1>3. Crowd
  BY <1>1, <1>2 DEF Crowd
<1>4. Marks
  BY DEF Init, Marks, MarksOf, HasClaimed
<1>5. NewestSpared /\ Older
  BY DEF Init, NewestSpared, Spared, Older, Flying
<1>6. Marked(0) /\ Secured(0)
  BY DEF Init, Marked, Secured, UpToDate, Flying
<1>. QED  BY <1>3, <1>4, <1>5, <1>6 DEF BackedInv, Backed

(* Where no more commands run at once than the retention keeps, a save     *)
(* never replaces the database without a backup of what it replaces, other *)
(* commands' prunes, kills and any clock notwithstanding (OdsStore's save, *)
(* create_backup, prune_backups).                                          *)
THEOREM SavesAreBackedUp ==
  ASSUME IsFiniteSet(Procs), Retention = 0 \/ Cardinality(Procs) <= Retention
  PROVE  Spec => []ReplacedIsBackedUp
<1>1. Roomy
  BY DEF Roomy
<1>2. Init => BackedInv /\ PrunedInv
  BY <1>1, InitBackedInv, InitPrunedInv
<1>3. IInv /\ IInv' /\ PrunedInv /\ BackedInv /\ [Next]_vars => PrunedInv' /\ BackedInv'
  BY <1>1, NextPrunedInv, NextBackedInv
<1>4. BackedInv => ReplacedIsBackedUp
  BY DEF BackedInv, Backed, Secured, Guarded, Marks, MarksOf, Flying, UpToDate, ReplacedIsBackedUp
<1>. QED  BY <1>2, <1>3, <1>4, Invariance, PTL DEF Spec

-----------------------------------------------------------------------------
(* The known-good copy.                                                    *)
Refreshing == {"loaded", "written", "replacing", "copied"}

(* A refresh works on content that was validated. *)
ReadIsLoaded == \A p \in Commands : step[p] \in Refreshing => read[p].content \in loaded

(* So does whatever sidecar names this database. *)
SidecarIsLoaded == sidecar # Absent => (sidecar.ours => sidecar.hash \in loaded)

OursInv == CopyTypeOK /\ ReadIsLoaded /\ SidecarIsLoaded

-----------------------------------------------------------------------------
LEMMA NewFileType ==
  ASSUME CopyTypeOK, CanWrite, NEW c \in Contents
  PROVE  NewFile(c) \in File /\ NewFile(c).content = c
BY CopyBounds DEF CopyTypeOK, CanWrite, NewFile, File, Versions

LEMMA CopyInitType ==
  CopyInit => CopyTypeOK
<1> SUFFICES ASSUME CopyInit PROVE CopyTypeOK
  OBVIOUS
<1> USE CopyBounds, AbsentAssumption, BrokenAssumption DEF CopyInit
<1>1. file \in File
  BY DEF File, Contents, Foreign, Versions
<1>2. copy \in KeptCopy \cup {Absent}
  BY DEF KeptCopy, Contents, Foreign, Versions
<1>3. sidecar \in Sidecar \cup {Absent}
  <2>1. Foreign \in Contents /\ FALSE \in BOOLEAN
    BY DEF Contents, Foreign
  <2>2. [ours |-> FALSE, hash |-> Foreign] \in Sidecar
    BY <2>1 DEF Sidecar
  <2> QED
    BY <2>2
<1>4. step \in [Commands -> CopyLabels] /\ read \in [Commands -> File]
  BY <1>1 DEF CopyLabels
<1> QED
  BY <1>1, <1>2, <1>3, <1>4 DEF CopyTypeOK

LEMMA CopyTypeStep ==
  CopyTypeOK /\ [CopyNext]_copyVars => CopyTypeOK'
<1> SUFFICES ASSUME CopyTypeOK, [CopyNext]_copyVars PROVE CopyTypeOK'
  OBVIOUS
<1> USE DEF CopyTypeOK
<1>c. file.content \in Contents /\ file.version \in Versions
  BY DEF File
<1>1. ASSUME NEW p \in Commands, Load(p) PROVE CopyTypeOK'
  <2>1. loaded' \subseteq Contents \ Broken
    BY <1>1, <1>c DEF Load, LoadsCleanly
  <2> QED
    BY <1>1, <2>1 DEF Load, CopyGoto, CopyLabels
<1>2. ASSUME NEW p \in Commands, Save(p) PROVE CopyTypeOK'
  <2>1. file.version + 1 \in Contents \ Broken
    BY <1>2, <1>c, CopyBounds DEF Save, Contents, Versions, Foreign
  <2>2. file' \in File /\ file'.content \in Contents \ Broken
    BY <1>2, <2>1, NewFileType DEF Save
  <2> QED
    BY <1>2, <2>2 DEF Save, CopyGoto, CopyLabels
<1>3. ASSUME NEW p \in Commands, ChooseKnownGood(p) PROVE CopyTypeOK'
  BY <1>3 DEF ChooseKnownGood, CopyGoto, CopyLabels
<1>4. ASSUME NEW p \in Commands, RestoreKnownGood(p) PROVE CopyTypeOK'
  <2>1. copy.content \in Contents \ Broken
    BY <1>4 DEF RestoreKnownGood, LoadsCleanly, KeptCopy
  <2>2. file' \in File /\ file'.content \in Contents \ Broken
    BY <1>4, <2>1, NewFileType DEF RestoreKnownGood
  <2> QED
    BY <1>4, <2>2 DEF RestoreKnownGood, CopyGoto, CopyLabels
<1>5. ASSUME NEW p \in Commands, GiveUp(p) PROVE CopyTypeOK'
  BY <1>5 DEF GiveUp, CopyLeave, CopyGoto, CopyLabels
<1>6. ASSUME NEW p \in Commands, FastPath(p) PROVE CopyTypeOK'
  BY <1>6 DEF FastPath, CopyLeave, CopyGoto, CopyLabels
<1>7. ASSUME NEW p \in Commands, WriteTemp(p) PROVE CopyTypeOK'
  BY <1>7 DEF WriteTemp, CopyGoto, CopyLabels
<1>8. ASSUME NEW p \in Commands, CheckSuperseded(p) PROVE CopyTypeOK'
  BY <1>8 DEF CheckSuperseded, CopyLeave, CopyGoto, CopyLabels
<1>9. ASSUME NEW p \in Commands, ReplaceCopy(p) PROVE CopyTypeOK'
  <2>1. copy' \in KeptCopy
    BY <1>9 DEF ReplaceCopy, KeptCopy, File
  <2> QED
    BY <1>9, <2>1 DEF ReplaceCopy, CopyGoto, CopyLabels
<1>10. ASSUME NEW p \in Commands, WriteSidecar(p) PROVE CopyTypeOK'
  <2>1. sidecar' \in Sidecar
    BY <1>10 DEF WriteSidecar, Sidecar, File
  <2> QED
    BY <1>10, <2>1 DEF WriteSidecar, CopyLeave, CopyGoto, CopyLabels
<1>11. ASSUME NEW p \in Commands, RefreshFails(p) PROVE CopyTypeOK'
  <2>1. mishaps' \in 0..MaxMishaps
    BY <1>11, CopyBounds DEF RefreshFails, Mishap
  <2> QED
    BY <1>11, <2>1 DEF RefreshFails, CopyLeave, CopyGoto, CopyLabels
<1>12. CASE OutsideSave
  <2>1. file.version + 1 \in Contents /\ file.version + 1 \in Versions
    BY <1>12, <1>c, CopyBounds
    DEF OutsideSave, CanWrite, Contents, Versions, Foreign
  <2>2. PICK inode \in {file.inode, file.version + 1},
             mtime \in {file.mtime, file.version + 1} :
          file' = [NewFile(file.version + 1) EXCEPT !.inode = inode, !.mtime = mtime]
    BY <1>12 DEF OutsideSave
  <2>3. inode \in Versions /\ mtime \in Versions
    BY <2>1 DEF File
  <2>4. file' \in File
    BY <2>1, <2>2, <2>3 DEF NewFile, File
  <2> QED
    BY <1>12, <2>4 DEF OutsideSave
<1>13. CASE OverwriteCopy
  <2>1. mishaps' \in 0..MaxMishaps
    BY <1>13, CopyBounds DEF OverwriteCopy, Mishap
  <2>2. Foreign \in Contents
    BY CopyBounds DEF Contents, Foreign
  <2>3. copy' \in KeptCopy
    BY <1>13, <2>2 DEF OverwriteCopy, KeptCopy
  <2> QED
    BY <1>13, <2>1, <2>3 DEF OverwriteCopy
<1>14. CASE CopyRest
  BY <1>14 DEF CopyRest, copyVars
<1>15. CASE UNCHANGED copyVars
  BY <1>15 DEF copyVars
<1> QED
  BY <1>1, <1>2, <1>3, <1>4, <1>5, <1>6, <1>7, <1>8, <1>9, <1>10, <1>11, <1>12,
     <1>13, <1>14, <1>15 DEF CopyNext, CopyCommand, Refresh

(* The file, copy, sidecar, lock, pc, read, loaded and faults of every     *)
(* reachable state are what they are declared to be; what this database    *)
(* was loaded with is never broken.                                        *)
THEOREM CopyTypeCorrect ==
  CopySpec => []CopyTypeOK
<1>1. CopyInit => CopyTypeOK
  BY CopyInitType
<1>2. CopyTypeOK /\ [CopyNext]_copyVars => CopyTypeOK'
  BY CopyTypeStep
<1> QED
  BY <1>1, <1>2, PTL DEF CopySpec

-----------------------------------------------------------------------------
(* Only a load, a save or a restore sets what a refresh works on, and each *)
(* of them records it as loaded; only a refresh writes a sidecar.          *)
LEMMA OursStep ==
  OursInv /\ [CopyNext]_copyVars => OursInv'
<1> SUFFICES ASSUME OursInv, [CopyNext]_copyVars PROVE OursInv'
  OBVIOUS
<1>t. CopyTypeOK /\ CopyTypeOK'
  BY CopyTypeStep DEF OursInv
<1>n. Absent \notin Sidecar
  BY AbsentAssumption
<1> SUFFICES ReadIsLoaded' /\ SidecarIsLoaded'
  BY <1>t DEF OursInv
<1> USE <1>t DEF OursInv, CopyTypeOK, ReadIsLoaded, SidecarIsLoaded, Refreshing
<1>1. ASSUME NEW p \in Commands, Load(p) PROVE ReadIsLoaded' /\ SidecarIsLoaded'
  BY <1>1 DEF Load, CopyGoto
<1>2. ASSUME NEW p \in Commands, Save(p) PROVE ReadIsLoaded' /\ SidecarIsLoaded'
  BY <1>2 DEF Save, CopyGoto
<1>3. ASSUME NEW p \in Commands, ChooseKnownGood(p) PROVE ReadIsLoaded' /\ SidecarIsLoaded'
  BY <1>3 DEF ChooseKnownGood, CopyGoto
<1>4. ASSUME NEW p \in Commands, RestoreKnownGood(p) PROVE ReadIsLoaded' /\ SidecarIsLoaded'
  BY <1>4 DEF RestoreKnownGood, CopyGoto
<1>5. ASSUME NEW p \in Commands, GiveUp(p) PROVE ReadIsLoaded' /\ SidecarIsLoaded'
  BY <1>5 DEF GiveUp, CopyLeave, CopyGoto
<1>6. ASSUME NEW p \in Commands, FastPath(p) PROVE ReadIsLoaded' /\ SidecarIsLoaded'
  BY <1>6 DEF FastPath, CopyLeave, CopyGoto
<1>7. ASSUME NEW p \in Commands, WriteTemp(p) PROVE ReadIsLoaded' /\ SidecarIsLoaded'
  BY <1>7 DEF WriteTemp, CopyGoto
<1>8. ASSUME NEW p \in Commands, CheckSuperseded(p)
      PROVE  ReadIsLoaded' /\ SidecarIsLoaded'
  BY <1>8 DEF CheckSuperseded, CopyLeave, CopyGoto
<1>9. ASSUME NEW p \in Commands, ReplaceCopy(p) PROVE ReadIsLoaded' /\ SidecarIsLoaded'
  BY <1>9 DEF ReplaceCopy, CopyGoto
<1>10. ASSUME NEW p \in Commands, WriteSidecar(p) PROVE ReadIsLoaded' /\ SidecarIsLoaded'
  <2>1. read[p].content \in loaded
    BY <1>10 DEF WriteSidecar
  <2> QED
    BY <1>10, <2>1 DEF WriteSidecar, CopyLeave, CopyGoto
<1>11. ASSUME NEW p \in Commands, RefreshFails(p) PROVE ReadIsLoaded' /\ SidecarIsLoaded'
  BY <1>11 DEF RefreshFails, CopyLeave, CopyGoto
<1>12. CASE OutsideSave
  BY <1>12 DEF OutsideSave
<1>13. CASE OverwriteCopy
  BY <1>13 DEF OverwriteCopy
<1>14. CASE CopyRest
  BY <1>14 DEF CopyRest, copyVars
<1>15. CASE UNCHANGED copyVars
  BY <1>15 DEF copyVars
<1> QED
  BY <1>1, <1>2, <1>3, <1>4, <1>5, <1>6, <1>7, <1>8, <1>9, <1>10, <1>11, <1>12,
     <1>13, <1>14, <1>15 DEF CopyNext, CopyCommand, Refresh

LEMMA VerifiedFollows == OursInv => VerifiedIsOurs
BY DEF OursInv, SidecarIsLoaded, VerifiedIsOurs, Verified, HashMatches

(* Whatever interleaves, is killed or is overwritten, a copy shown as      *)
(* verified - known_good_status, and so `mesh db restore --known-good` -   *)
(* holds content that this very database was cleanly loaded with.          *)
THEOREM VerifiedWasLoaded ==
  CopySpec => []VerifiedIsOurs
<1>1. CopyInit => OursInv
  <2>1. CopyInit => ReadIsLoaded
    BY DEF CopyInit, ReadIsLoaded, Refreshing
  <2>2. CopyInit => SidecarIsLoaded
    BY DEF CopyInit, SidecarIsLoaded
  <2> QED
    BY <2>1, <2>2, CopyInitType DEF OursInv
<1>2. OursInv /\ [CopyNext]_copyVars => OursInv'
  BY OursStep
<1>3. OursInv => VerifiedIsOurs
  BY VerifiedFollows
<1> QED
  BY <1>1, <1>2, <1>3, PTL DEF CopySpec
=============================================================================
