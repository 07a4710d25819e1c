---------------------------- MODULE Caches_proofs -----------------------------
(***************************************************************************)
(* Proofs about what is remembered of what was read: HttpCache, for any    *)
(* number of commands and hosts, any TTL, any answers; and WeakKeys, the   *)
(* known bad keys of a file, remembered as of its time and size, for any   *)
(* places, lists and fleets.                                               *)
(***************************************************************************)
EXTENDS HttpCache, WeakKeys, FiniteSetTheorems, WellFoundedInduction, TLAPS

(* A command inside a call has one, and holds a response while it stores   *)
(* and judges it.                                                          *)
Shape == \A p \in Procs :
  /\ pc[p] # "idle" => call[p] # None
  /\ pc[p] \in {"storing", "judging"} <=> resp[p] # None

(* An instance knows of every cool-down it was told, but for one that has  *)
(* ended; it has none to run of the host that it is asking.                *)
Remembers == \A p \in Procs :
  /\ \A h \in Hosts : told[p][h] <= own[p][h] \/ told[p][h] <= now
  /\ pc[p] \in {"waiting", "backing_off"} => told[p][call[p].host] <= now

(* So does the file, of those stored.                                      *)
FileKeeps == \A h \in Hosts : kept[h] <= file[h] \/ kept[h] <= now

CoolInv == TypeOK /\ Shape /\ Remembers /\ FileKeeps

(* A body is numbered when it is received.  Until it is written only its   *)
(* receiver has it, and from then on it is in no other host's entry.       *)
Numbered ==
  /\ \A n \in dropped : n <= fetches
  /\ \A h \in Hosts : entry[h] # None => entry[h].nth <= fetches
  /\ \A p \in Procs : resp[p] # None => resp[p].nth <= fetches

NotWritten == \A p \in Procs : pc[p] = "storing" =>
  /\ resp[p].nth \notin dropped
  /\ \A h \in Hosts : entry[h] # None => entry[h].nth # resp[p].nth
  /\ \A q \in Procs \ {p} : resp[q] # None => resp[q].nth # resp[p].nth

OneHost ==
  /\ \A g, h \in Hosts : entry[g] # None /\ entry[h] # None
                           /\ entry[g].nth = entry[h].nth => g = h
  /\ \A p \in Procs, h \in Hosts : resp[p] # None /\ entry[h] # None
       /\ entry[h].nth = resp[p].nth => call[p] # None /\ h = call[p].host

DroppedIsGone == \A h \in Hosts : entry[h] # None => entry[h].nth \notin dropped

BodyInv == TypeOK /\ Shape /\ Numbered /\ NotWritten /\ OneHost /\ DroppedIsGone

-----------------------------------------------------------------------------
(* Types and shape                                                         *)

Typed == TypeOK /\ Shape

LEMMA PlainType ==
  ASSUME NEW h \in Hosts, NEW accept \in BOOLEAN
  PROVE  Plain(h) \in ACall /\ [Plain(h) EXCEPT !.accept = accept] \in ACall
BY HttpAssumption DEF Plain, ACall

LEMMA InitTyped == Init => Typed
BY DEF Init, Typed, TypeOK, Shape, Labels, Zero

(* What a request of a command that is idle does to its own variables.     *)
LEMMA RequestTyped ==
  ASSUME Typed, NEW p \in Procs, NEW h \in Hosts, NEW accept \in BOOLEAN,
         NEW label \in {"waiting", "judging"}, Request(p, h, accept, label),
         resp' \in [Procs -> Response \cup {None}],
         label = "judging" <=> resp'[p] # None,
         \A q \in Procs : q # p => resp'[q] = resp[q]
  PROVE  Typed'
<1>1. [Plain(h) EXCEPT !.accept = accept] \in ACall  BY PlainType
<1>2. TypeOK'  BY <1>1 DEF Request, Goto, memory, Typed, TypeOK, Labels
<1>3. Shape'   BY <1>1, HttpAssumption DEF Request, Goto, Typed, TypeOK, Shape
<1>. QED  BY <1>2, <1>3 DEF Typed

(* The end of a call, whatever it did to the files and the clock.          *)
LEMMA EndTyped ==
  ASSUME Typed, NEW p \in Procs, End(p)
  PROVE  /\ Shape'
         /\ pc' \in [Procs -> Labels] /\ call' \in [Procs -> ACall \cup {None}]
         /\ resp' \in [Procs -> Response \cup {None}]
         /\ seen' \in [Procs -> [Hosts -> Nat]]
BY DEF End, Goto, Typed, TypeOK, Shape, Labels, Zero

LEMMA TypedStep == Typed /\ [Next]_vars => Typed'
<1>. SUFFICES ASSUME Typed, [Next]_vars PROVE Typed'
  OBVIOUS
<1>. USE DEF Typed
<1>1. ASSUME NEW p \in Procs, NEW h \in Hosts, NEW accept \in BOOLEAN, Hit(p, h, accept)
      PROVE  Typed'
  <2>1. entry[h] \in Response /\ entry[h] # None
    BY <1>1, HttpAssumption DEF Hit, Serves, TypeOK
  <2>2. /\ resp' \in [Procs -> Response \cup {None}] /\ resp'[p] # None
        /\ \A q \in Procs : q # p => resp'[q] = resp[q]
    BY <1>1, <2>1 DEF Hit, TypeOK
  <2>. QED  BY <1>1, <2>2, RequestTyped DEF Hit
<1>2. ASSUME NEW p \in Procs, NEW h \in Hosts, NEW accept \in BOOLEAN,
             NEW refresh \in BOOLEAN, Ask(p, h, accept, refresh)
      PROVE  Typed'
  <2>1. resp'[p] = None /\ UNCHANGED resp
    BY <1>2 DEF Ask, Request, Shape
  <2>. QED  BY <1>2, <2>1, RequestTyped DEF Ask, TypeOK
<1>3. ASSUME NEW p \in Procs, Retry(p) PROVE Typed'
  <2>1. call[p] \in ACall /\ call[p].attempt < MaxRetries
    BY <1>3 DEF Retry, MayRetry, TypeOK, Shape
  <2>2. [call[p] EXCEPT !.attempt = @ + 1] \in ACall
    BY <2>1, HttpAssumption DEF ACall
  <2>3. /\ call' = [call EXCEPT ![p] = [call[p] EXCEPT !.attempt = @ + 1]]
        /\ pc' = [pc EXCEPT ![p] = "backing_off"]
    BY <1>3 DEF Retry, Goto
  <2>4. TypeOK'  BY <1>3, <2>2, <2>3 DEF Retry, TypeOK, Labels, record
  <2>5. Shape'   BY <1>3, <2>2, <2>3, HttpAssumption DEF Retry, TypeOK, Shape
  <2>. QED  BY <2>4, <2>5
<1>4. ASSUME NEW p \in Procs, AskAgain(p) PROVE Typed'
  BY <1>4 DEF AskAgain, Goto, TypeOK, Shape, Labels, record
<1>5. ASSUME NEW p \in Procs, GiveUp(p) \/ PersistFails(p) \/ UseBody(p) \/ EvictFails(p)
      PROVE  Typed'
  BY <1>5, EndTyped DEF GiveUp, PersistFails, UseBody, EvictFails, TypeOK, record
<1>6. ASSUME NEW p \in Procs, Fetched(p) PROVE Typed'
  <2>1. Host(p) \in Hosts  BY <1>6 DEF Fetched, Host, TypeOK, Shape, ACall
  <2>2. PICK status \in Statuses, usable \in BOOLEAN :
          resp' = [resp EXCEPT ![p] = [nth |-> fetches + 1, status |-> status,
                                       at |-> now, usable |-> usable]]
    BY <1>6 DEF Fetched
  <2>3. [nth |-> fetches + 1, status |-> status, at |-> now, usable |-> usable] \in Response
    BY DEF Response, TypeOK
  <2>4. Plain(Host(p)) \in ACall  BY <2>1, PlainType
  <2>5. TypeOK'
    BY <1>6, <2>2, <2>3, <2>4 DEF Fetched, Answered, Goto, TypeOK, Labels, record
  <2>6. Shape'
    BY <1>6, <2>2, <2>3, <2>4, HttpAssumption DEF Fetched, Answered, Goto, TypeOK, Shape
  <2>. QED  BY <2>5, <2>6
<1>7. ASSUME NEW p \in Procs, RateLimited(p) PROVE Typed'
  <2>1. Host(p) \in Hosts  BY <1>7 DEF RateLimited, Host, TypeOK, Shape, ACall
  <2>2. Plain(Host(p)) \in ACall  BY <2>1, PlainType
  <2>3. PICK delay \in Delays :
          /\ own' = [own EXCEPT ![p][Host(p)] = now + MinOf(delay, MaxCooldown)]
          /\ told' = [told EXCEPT ![p][Host(p)] = MaxOf(@, now + MinOf(delay, MaxCooldown))]
    BY <1>7 DEF RateLimited
  <2>4. now + MinOf(delay, MaxCooldown) \in Nat
    BY HttpAssumption DEF MinOf, TypeOK
  <2>5. own' \in [Procs -> [Hosts -> Nat]] /\ told' \in [Procs -> [Hosts -> Nat]]
    BY <2>1, <2>3, <2>4 DEF TypeOK, MaxOf
  <2>6. [h \in Hosts |-> Running(h)] \in [Hosts -> Nat]
    BY DEF Running, TypeOK
  <2>7. TypeOK'
    BY <1>7, <2>2, <2>5, <2>6 DEF RateLimited, Answered, Goto, TypeOK, Labels
  <2>8. Shape'
    BY <1>7, <2>2, HttpAssumption DEF RateLimited, Answered, Goto, TypeOK, Shape
  <2>. QED  BY <2>7, <2>8
<1>8. ASSUME NEW p \in Procs, Persist(p) PROVE Typed'
  <2>1. file' \in [Hosts -> Nat] /\ kept' \in [Hosts -> Nat]
    BY <1>8 DEF Persist, Merged, StillKept, MaxOf, MinOf, TypeOK
  <2>. QED  BY <1>8, <2>1, EndTyped DEF Persist, TypeOK, memory
<1>9. ASSUME NEW p \in Procs, WriteEntry(p) \/ KeepNothing(p) PROVE Typed'
  BY <1>9 DEF WriteEntry, KeepNothing, Goto, TypeOK, Shape, Labels, record
<1>10. ASSUME NEW p \in Procs, Evict(p) PROVE Typed'
  <2>1. resp[p] \in Response  BY <1>10 DEF Evict, TypeOK, Shape
  <2>2. dropped' \subseteq Nat  BY <1>10, <2>1 DEF Evict, TypeOK, Response
  <2>3. entry' \in [Hosts -> Response \cup {None}]
    BY <1>10 DEF Evict, WithoutEntry, TypeOK
  <2>. QED  BY <1>10, <2>2, <2>3, EndTyped DEF Evict, TypeOK, memory
<1>11. ASSUME NEW p \in Procs, Restart(p) PROVE Typed'
  <2>1. own' \in [Procs -> [Hosts -> Nat]] /\ told' \in [Procs -> [Hosts -> Nat]]
    BY <1>11 DEF Restart, Zero, TypeOK
  <2>. QED  BY <1>11, <2>1, EndTyped DEF Restart, TypeOK
<1>12. CASE Tick
  BY <1>12 DEF Tick, TypeOK, Shape, record
<1>13. ASSUME NEW h \in Hosts, Lose(h) PROVE Typed'
  BY <1>13 DEF Lose, TypeOK, Shape, record
<1>14. CASE UNCHANGED vars
  BY <1>14 DEF vars, TypeOK, Shape
<1>. QED
  BY <1>1, <1>2, <1>3, <1>4, <1>5, <1>6, <1>7, <1>8, <1>9, <1>10, <1>11, <1>12, <1>13, <1>14
  DEF Next, Call, Proceed

(* Every variable of the cache and its commands keeps its type, and no     *)
(* call goes over its retries.                                             *)
THEOREM TypeCorrect == Spec => []TypeOK
<1>1. Typed => TypeOK  BY DEF Typed
<1>. QED  BY <1>1, InitTyped, TypedStep, PTL DEF Spec

-----------------------------------------------------------------------------
(* Cool-downs                                                              *)

LEMMA InitCool == Init => CoolInv
BY InitTyped DEF Init, Typed, CoolInv, TypeOK, Remembers, FileKeeps, Zero

(* A step that changes no cool-down keeps those invariants, if it asks     *)
(* nobody or one whom it was not told to wait for.                         *)
LEMMA CoolSame ==
  ASSUME CoolInv, TypeOK', now' \in Nat, now <= now', UNCHANGED <<file, own, told, kept>>,
         \A p \in Procs : pc'[p] \in {"waiting", "backing_off"} =>
           \/ pc[p] \in {"waiting", "backing_off"} /\ call'[p].host = call[p].host
           \/ call'[p].host \in Hosts /\ told[p][call'[p].host] <= now,
         \A p \in Procs : pc[p] \in {"waiting", "backing_off"} => call[p].host \in Hosts
  PROVE  Remembers' /\ FileKeeps'
<1>1. FileKeeps'  BY DEF CoolInv, TypeOK, FileKeeps
<1>2. \A p \in Procs, h \in Hosts : told[p][h] \in Nat /\ own[p][h] \in Nat
  BY DEF CoolInv, TypeOK
<1>3. \A p \in Procs, h \in Hosts : told'[p][h] <= own'[p][h] \/ told'[p][h] <= now'
  BY <1>2 DEF CoolInv, TypeOK, Remembers
<1>4. ASSUME NEW p \in Procs, pc'[p] \in {"waiting", "backing_off"}
      PROVE  told'[p][call'[p].host] <= now'
  <2>1. call'[p].host \in Hosts /\ told[p][call'[p].host] <= now
    <3>1. CASE pc[p] \in {"waiting", "backing_off"} /\ call'[p].host = call[p].host
      BY <3>1 DEF CoolInv, Remembers
    <3>. QED  BY <1>4, <3>1
  <2>2. told'[p][call'[p].host] = told[p][call'[p].host] /\ now \in Nat
    BY DEF CoolInv, TypeOK
  <2>. QED  BY <1>2, <2>1, <2>2
<1>. QED  BY <1>1, <1>3, <1>4 DEF Remembers

(* Who is asked next was not told to wait, and no stored cool-down of it   *)
(* that was not lost is running.                                           *)
LEMMA AskAllowed ==
  ASSUME CoolInv, NEW p \in Procs, NEW h \in Hosts, CoolingUntil(p, h) <= now
  PROVE  told[p][h] <= now /\ kept[h] <= now
<1>1. /\ told[p][h] \in Nat /\ own[p][h] \in Nat /\ kept[h] \in Nat
      /\ file[h] \in Nat /\ now \in Nat
  BY DEF CoolInv, TypeOK
<1>. QED  BY <1>1 DEF CoolInv, Remembers, FileKeeps, CoolingUntil, MaxOf

LEMMA CallHost ==
  ASSUME Typed, NEW p \in Procs, pc[p] # "idle"
  PROVE  call[p] \in ACall /\ Host(p) \in Hosts
BY DEF Typed, TypeOK, Shape, Host, ACall

LEMMA CoolStep == CoolInv /\ [Next]_vars => CoolInv'
<1>. SUFFICES ASSUME CoolInv, [Next]_vars PROVE CoolInv'
  OBVIOUS
<1>0. Typed /\ Typed'  BY TypedStep DEF CoolInv, Typed
<1>a. \A p \in Procs : pc[p] \in {"waiting", "backing_off"} => call[p].host \in Hosts
  BY <1>0, CallHost DEF Host
<1>b. TypeOK /\ TypeOK' /\ now \in Nat  BY <1>0 DEF Typed, TypeOK
<1>. SUFFICES Remembers' /\ FileKeeps'
  BY <1>0 DEF CoolInv, Typed
<1>1. ASSUME NEW p \in Procs, NEW h \in Hosts, NEW accept \in BOOLEAN, Hit(p, h, accept)
      PROVE  Remembers' /\ FileKeeps'
  <2>1. \A q \in Procs : pc'[q] \in {"waiting", "backing_off"} =>
          pc[q] \in {"waiting", "backing_off"} /\ call'[q] = call[q]
    BY <1>1, <1>b DEF Hit, Request, Goto, TypeOK
  <2>. QED  BY <1>1, <1>a, <1>b, <2>1, CoolSame DEF Hit, Request, memory
<1>2. ASSUME NEW p \in Procs, NEW h \in Hosts, NEW accept \in BOOLEAN,
             NEW refresh \in BOOLEAN, Ask(p, h, accept, refresh)
      PROVE  Remembers' /\ FileKeeps'
  <2>1. \A q \in Procs : q # p => pc'[q] = pc[q] /\ call'[q] = call[q]
    BY <1>2, <1>b DEF Ask, Request, Goto, TypeOK
  <2>2. call'[p].host = h
    BY <1>2, <1>b DEF Ask, Request, TypeOK, Plain
  <2>3. told[p][h] <= now
    BY <1>2, AskAllowed DEF Ask
  <2>. QED  BY <1>2, <1>a, <1>b, <2>1, <2>2, <2>3, CoolSame DEF Ask, Request, memory
<1>3. ASSUME NEW p \in Procs, Retry(p) PROVE Remembers' /\ FileKeeps'
  <2>1. call[p] \in ACall  BY <1>0, <1>3, CallHost DEF Retry
  <2>2. /\ call'[p].host = call[p].host /\ pc[p] = "waiting"
        /\ \A q \in Procs : q # p => pc'[q] = pc[q] /\ call'[q] = call[q]
    BY <1>3, <1>b, <2>1 DEF Retry, Goto, TypeOK, ACall
  <2>. QED  BY <1>3, <1>a, <1>b, <2>2, CoolSame DEF Retry, record
<1>4. ASSUME NEW p \in Procs, AskAgain(p) PROVE Remembers' /\ FileKeeps'
  <2>1. /\ call' = call /\ pc[p] = "backing_off"
        /\ \A q \in Procs : q # p => pc'[q] = pc[q]
    BY <1>4, <1>b DEF AskAgain, Goto, TypeOK
  <2>. QED  BY <1>4, <1>a, <1>b, <2>1, CoolSame DEF AskAgain, record
<1>5. ASSUME NEW p \in Procs,
             \/ GiveUp(p) \/ PersistFails(p) \/ UseBody(p) \/ EvictFails(p) \/ Evict(p)
      PROVE  Remembers' /\ FileKeeps'
  <2>1. \A q \in Procs : pc'[q] \in {"waiting", "backing_off"} =>
          pc[q] \in {"waiting", "backing_off"} /\ call'[q] = call[q]
    BY <1>5, <1>b DEF GiveUp, PersistFails, UseBody, EvictFails, Evict, End, Goto, TypeOK
  <2>2. UNCHANGED <<now, file, own, told, kept>>
    BY <1>5 DEF GiveUp, PersistFails, UseBody, EvictFails, Evict, record, memory
  <2>. QED  BY <1>a, <1>b, <2>1, <2>2, CoolSame
<1>6. ASSUME NEW p \in Procs, Fetched(p) \/ WriteEntry(p) \/ KeepNothing(p)
      PROVE  Remembers' /\ FileKeeps'
  <2>1. \A q \in Procs : pc'[q] \in {"waiting", "backing_off"} =>
          pc[q] \in {"waiting", "backing_off"} /\ call'[q] = call[q]
    BY <1>6, <1>b DEF Fetched, WriteEntry, KeepNothing, Answered, Goto, TypeOK
  <2>2. UNCHANGED <<now, file, own, told, kept>>
    BY <1>6 DEF Fetched, WriteEntry, KeepNothing, record
  <2>. QED  BY <1>a, <1>b, <2>1, <2>2, CoolSame
<1>7. ASSUME NEW p \in Procs, RateLimited(p) PROVE Remembers' /\ FileKeeps'
  <2>1. Host(p) \in Hosts /\ told[p][Host(p)] <= now /\ pc[p] = "waiting"
    BY <1>0, <1>7, CallHost DEF RateLimited, CoolInv, Remembers, Host
  <2>2. PICK delay \in Delays :
          /\ own' = [own EXCEPT ![p][Host(p)] = now + MinOf(delay, MaxCooldown)]
          /\ told' = [told EXCEPT ![p][Host(p)] = MaxOf(@, now + MinOf(delay, MaxCooldown))]
    BY <1>7 DEF RateLimited
  <2>3. now + MinOf(delay, MaxCooldown) \in Nat /\ now <= now + MinOf(delay, MaxCooldown)
    BY <1>b, HttpAssumption DEF MinOf
  <2>4. told'[p][Host(p)] <= own'[p][Host(p)]
    BY <1>b, <2>1, <2>2, <2>3 DEF TypeOK, MaxOf
  <2>5. \A q \in Procs, h \in Hosts : q # p \/ h # Host(p) =>
          told'[q][h] = told[q][h] /\ own'[q][h] = own[q][h]
    BY <1>b, <2>2 DEF TypeOK
  <2>6. pc'[p] = "persisting" /\ \A q \in Procs : q # p => pc'[q] = pc[q] /\ call'[q] = call[q]
    BY <1>7, <1>b DEF RateLimited, Answered, Goto, TypeOK
  <2>7. now' = now /\ file' = file /\ kept' = kept
    BY <1>7 DEF RateLimited
  <2>8. \A q \in Procs : q # p => told'[q] = told[q]
    BY <1>b, <2>2 DEF TypeOK
  <2>9. Remembers'
    BY <2>4, <2>5, <2>6, <2>7, <2>8 DEF CoolInv, Remembers
  <2>. QED  BY <2>7, <2>9 DEF CoolInv, FileKeeps
<1>8. ASSUME NEW p \in Procs, Persist(p) PROVE Remembers' /\ FileKeeps'
  <2>1. Host(p) \in Hosts  BY <1>0, <1>8, CallHost DEF Persist
  <2>2. \A h \in Hosts : own[p][h] \in Nat /\ seen[p][h] \in Nat /\ kept[h] \in Nat
    BY <1>b DEF TypeOK
  <2>3. FileKeeps'
    BY <1>8, <2>1, <2>2 DEF Persist, Merged, StillKept, MaxOf, MinOf, FileKeeps
  <2>4. \A q \in Procs : pc'[q] \in {"waiting", "backing_off"} =>
          pc[q] \in {"waiting", "backing_off"} /\ call'[q] = call[q]
    BY <1>8, <1>b DEF Persist, End, Goto, TypeOK
  <2>5. UNCHANGED <<now, own, told>>  BY <1>8 DEF Persist, memory
  <2>. QED  BY <2>3, <2>4, <2>5 DEF CoolInv, Remembers
<1>9. ASSUME NEW p \in Procs, Restart(p) PROVE Remembers' /\ FileKeeps'
  <2>1. /\ told'[p] = Zero /\ pc'[p] = "idle"
        /\ \A q \in Procs : q # p => /\ told'[q] = told[q] /\ own'[q] = own[q]
                                     /\ pc'[q] = pc[q] /\ call'[q] = call[q]
    BY <1>9, <1>b DEF Restart, End, Goto, TypeOK
  <2>2. UNCHANGED <<now, file, kept>>  BY <1>9 DEF Restart
  <2>3. Remembers'  BY <1>b, <2>1, <2>2 DEF CoolInv, Remembers, Zero
  <2>. QED  BY <2>2, <2>3 DEF CoolInv, FileKeeps
<1>10. CASE Tick
  <2>1. now <= now' /\ now' \in Nat  BY <1>10, <1>b DEF Tick
  <2>. QED  BY <1>10, <1>a, <1>b, <2>1, CoolSame DEF Tick, record
<1>11. ASSUME NEW h \in Hosts, Lose(h) PROVE Remembers' /\ FileKeeps'
  BY <1>11, <1>a, <1>b, CoolSame DEF Lose, record
<1>12. CASE UNCHANGED vars
  BY <1>12, <1>a, <1>b, CoolSame DEF vars
<1>. QED
  BY <1>1, <1>2, <1>3, <1>4, <1>5, <1>6, <1>7, <1>8, <1>9, <1>10, <1>11, <1>12
  DEF Next, Call, Proceed

(* Only a first request leaves idle for waiting, only a retry comes from   *)
(* backing off: whom either asks it may ask.                               *)
LEMMA AskStep ==
  ASSUME CoolInv, Next, NEW p \in Procs, Asks(p)
  PROVE  /\ told[p][call'[p].host] <= now
         /\ pc[p] = "idle" => kept[call'[p].host] <= now
<1>0. TypeOK /\ Typed  BY DEF CoolInv, Typed
<1>1. CASE \E h \in Hosts, accept, refresh \in BOOLEAN : Ask(p, h, accept, refresh)
  <2>1. PICK h \in Hosts, accept \in BOOLEAN : 
          CoolingUntil(p, h) <= now /\ Request(p, h, accept, "waiting")
    BY <1>1 DEF Ask
  <2>2. call'[p].host = h  BY <1>0, <2>1 DEF Request, TypeOK, Plain
  <2>. QED  BY <2>1, <2>2, AskAllowed
<1>2. CASE AskAgain(p)
  BY <1>2 DEF AskAgain, CoolInv, Remembers
<1>3. ASSUME NEW q \in Procs, Asks(p), Call(q) \/ Proceed(q) \/ Restart(q)
      PROVE  \/ \E h \in Hosts, accept, refresh \in BOOLEAN : Ask(p, h, accept, refresh)
             \/ AskAgain(p)
  <2>1. CASE q = p
    BY <1>0, <1>3, <2>1
    DEF Asks, Call, Proceed, Restart, Hit, Request, Retry, GiveUp, Fetched, RateLimited, Persist,
        PersistFails, WriteEntry, KeepNothing, UseBody, Evict, EvictFails, End, Goto, TypeOK
  <2>2. CASE q # p
    BY <1>0, <1>3, <2>2
    DEF Asks, Call, Proceed, Restart, Hit, Ask, AskAgain, Request, Retry, GiveUp, Fetched,
        RateLimited, Persist, PersistFails, WriteEntry, KeepNothing, UseBody, Evict, EvictFails,
        End, Goto, TypeOK
  <2>. QED  BY <2>1, <2>2
<1>4. ~Tick /\ \A h \in Hosts : ~Lose(h)
  BY DEF Asks, Tick, Lose
<1>. QED  BY <1>1, <1>2, <1>3, <1>4 DEF Next

(* No instance asks a host it was told not to, and no call begins to ask   *)
(* one whose stored cool-down runs and was not lost.                       *)
THEOREM CooldownKept == Spec => CooldownHonoured
<1>1. CoolInv /\ [Next]_vars =>
        [\A p \in Procs : Asks(p) =>
           /\ told[p][call'[p].host] <= now
           /\ pc[p] = "idle" => kept[call'[p].host] <= now]_vars
  BY AskStep
<1>. QED  BY <1>1, InitCool, CoolStep, PTL DEF Spec, CooldownHonoured

-----------------------------------------------------------------------------
(* Bodies                                                                  *)

LEMMA InitBody == Init => BodyInv
BY InitTyped DEF Init, Typed, BodyInv, Shape, TypeOK, Numbered, NotWritten, OneHost, DroppedIsGone

LEMMA BodyTypes ==
  ASSUME Typed
  PROVE  /\ fetches \in Nat
         /\ \A n \in dropped : n \in Nat
         /\ \A h \in Hosts : entry[h] # None => entry[h] \in Response /\ entry[h].nth \in Nat
         /\ \A p \in Procs : resp[p] # None => resp[p] \in Response /\ resp[p].nth \in Nat
BY DEF Typed, TypeOK, Response

(* A step that at most forgets entries and responses keeps the invariant.  *)
LEMMA BodyForgets ==
  ASSUME BodyInv, Typed', UNCHANGED <<fetches, dropped>>,
         \A h \in Hosts : entry'[h] = None \/ entry'[h] = entry[h],
         \A p \in Procs : \/ resp'[p] = None
                         \/ /\ resp'[p] = resp[p] /\ call'[p] = call[p]
                            /\ pc'[p] = "storing" => pc[p] = "storing"
  PROVE  BodyInv'
<1>1. \A p \in Procs : pc'[p] = "storing" => resp'[p] # None
  BY DEF Typed, Shape
<1>2. Numbered'    BY DEF BodyInv, Numbered
<1>3. NotWritten'  BY <1>1 DEF BodyInv, NotWritten
<1>4. OneHost'     BY DEF BodyInv, OneHost
<1>5. DroppedIsGone'        BY DEF BodyInv, DroppedIsGone
<1>. QED  BY <1>2, <1>3, <1>4, <1>5 DEF BodyInv, Typed

LEMMA HitBody ==
  ASSUME BodyInv, Typed', NEW p \in Procs, NEW h \in Hosts, NEW accept \in BOOLEAN,
         Hit(p, h, accept)
  PROVE  BodyInv'
<1>0. Typed  BY DEF BodyInv, Typed
<1>1. /\ entry[h] # None /\ resp'[p] = entry[h] /\ pc'[p] = "judging"
      /\ call'[p] # None /\ call'[p].host = h
  BY <1>0, PlainType, HttpAssumption DEF Hit, Serves, Request, Goto, Typed, TypeOK, Plain
<1>2. /\ \A q \in Procs : q # p => resp'[q] = resp[q] /\ pc'[q] = pc[q] /\ call'[q] = call[q]
      /\ UNCHANGED <<entry, fetches, dropped>>
  BY <1>0 DEF Hit, Request, Goto, Typed, TypeOK
<1>3. Numbered'    BY <1>1, <1>2 DEF BodyInv, Numbered
<1>4. NotWritten'  BY <1>1, <1>2 DEF BodyInv, NotWritten
<1>5. OneHost'     BY <1>1, <1>2 DEF BodyInv, OneHost
<1>6. DroppedIsGone'        BY <1>2 DEF BodyInv, DroppedIsGone
<1>. QED  BY <1>3, <1>4, <1>5, <1>6 DEF BodyInv, Typed

LEMMA FetchedBody ==
  ASSUME BodyInv, Typed', NEW p \in Procs, Fetched(p)
  PROVE  BodyInv'
<1>0. Typed  BY DEF BodyInv, Typed
<1>1. resp'[p] # None /\ resp'[p].nth = fetches + 1 /\ fetches' = fetches + 1
  BY <1>0, HttpAssumption DEF Fetched, Typed, TypeOK, Shape, Goto
<1>2. /\ \A q \in Procs : q # p => resp'[q] = resp[q] /\ pc'[q] = pc[q] /\ call'[q] = call[q]
      /\ UNCHANGED <<entry, dropped>>
  BY <1>0 DEF Fetched, Goto, Answered, record, Typed, TypeOK
<1>3. /\ \A n \in dropped : n # fetches + 1
      /\ \A h \in Hosts : entry[h] # None => entry[h].nth # fetches + 1
      /\ \A q \in Procs : resp[q] # None => resp[q].nth # fetches + 1
  BY <1>0, BodyTypes DEF BodyInv, Numbered
<1>4. Numbered'
  BY <1>0, <1>1, <1>2, BodyTypes DEF BodyInv, Numbered
<1>5. \A q \in Procs : pc[q] = "storing" => resp[q] # None
  BY <1>0 DEF Typed, Shape
<1>6. NotWritten'
  BY <1>1, <1>2, <1>3, <1>5 DEF BodyInv, NotWritten
<1>7. OneHost'     BY <1>1, <1>2, <1>3 DEF BodyInv, OneHost
<1>8. DroppedIsGone'        BY <1>2 DEF BodyInv, DroppedIsGone
<1>. QED  BY <1>4, <1>6, <1>7, <1>8 DEF BodyInv, Typed

LEMMA WriteBody ==
  ASSUME BodyInv, Typed', NEW p \in Procs, WriteEntry(p)
  PROVE  BodyInv'
<1>0. Typed  BY DEF BodyInv, Typed
<1>1. /\ pc[p] = "storing" /\ pc'[p] = "judging" /\ resp[p] # None /\ call[p] # None
      /\ Host(p) \in Hosts /\ entry'[Host(p)] = resp[p]
  BY <1>0, CallHost DEF WriteEntry, Goto, Typed, TypeOK, Shape
<1>2. /\ \A q \in Procs : q # p => pc'[q] = pc[q]
      /\ \A h \in Hosts : h # Host(p) => entry'[h] = entry[h]
      /\ UNCHANGED <<resp, call, fetches, dropped>>
  BY <1>0 DEF WriteEntry, Goto, record, Typed, TypeOK
<1>3. /\ resp[p].nth \notin dropped
      /\ \A h \in Hosts : entry[h] # None => entry[h].nth # resp[p].nth
      /\ \A q \in Procs \ {p} : resp[q] # None => resp[q].nth # resp[p].nth
  BY <1>1 DEF BodyInv, NotWritten
<1>4. \A q \in Procs : pc[q] = "storing" => resp[q] # None
  BY <1>0 DEF Typed, Shape
<1>5. Numbered'    BY <1>1, <1>2 DEF BodyInv, Numbered
<1>6. NotWritten'  BY <1>1, <1>2, <1>3, <1>4 DEF BodyInv, NotWritten
<1>7. OneHost'
  <2>1. \A g, h \in Hosts : entry'[g] # None /\ entry'[h] # None
                             /\ entry'[g].nth = entry'[h].nth => g = h
    BY <1>1, <1>2, <1>3 DEF BodyInv, OneHost
  <2>2. ASSUME NEW q \in Procs, NEW h \in Hosts, resp'[q] # None, entry'[h] # None,
               entry'[h].nth = resp'[q].nth
        PROVE  call'[q] # None /\ h = call'[q].host
    <3>1. CASE h = Host(p)
      BY <1>1, <1>2, <1>3, <2>2, <3>1 DEF Host
    <3>2. CASE h # Host(p)
      BY <1>1, <1>2, <2>2, <3>2 DEF BodyInv, OneHost
    <3>. QED  BY <3>1, <3>2
  <2>. QED  BY <2>1, <2>2 DEF OneHost
<1>8. DroppedIsGone'        BY <1>1, <1>2, <1>3 DEF BodyInv, DroppedIsGone
<1>. QED  BY <1>5, <1>6, <1>7, <1>8 DEF BodyInv, Typed

LEMMA EvictBody ==
  ASSUME BodyInv, Typed', NEW p \in Procs, Evict(p)
  PROVE  BodyInv'
<1>0. Typed  BY DEF BodyInv, Typed
<1>1. /\ pc[p] = "judging" /\ resp[p] # None /\ Host(p) \in Hosts
      /\ entry'[Host(p)] = None /\ resp'[p] = None
  BY <1>0, CallHost DEF Evict, WithoutEntry, End, Typed, TypeOK, Shape
<1>2. /\ \A q \in Procs : q # p => pc'[q] = pc[q] /\ resp'[q] = resp[q] /\ call'[q] = call[q]
      /\ \A h \in Hosts : h # Host(p) => entry'[h] = entry[h]
      /\ fetches' = fetches /\ dropped' = dropped \cup {resp[p].nth}
  BY <1>0 DEF Evict, End, Goto, Typed, TypeOK
<1>3. \A q \in Procs : pc'[q] = "storing" => q # p
  BY <1>1 DEF Typed, Shape
<1>4. Numbered'    BY <1>1, <1>2 DEF BodyInv, Numbered
<1>5. NotWritten'  BY <1>1, <1>2, <1>3 DEF BodyInv, NotWritten
<1>6. OneHost'     BY <1>1, <1>2 DEF BodyInv, OneHost
<1>7. \A h \in Hosts : h # Host(p) /\ entry[h] # None => entry[h].nth # resp[p].nth
  BY <1>1 DEF BodyInv, OneHost, Host
<1>8. DroppedIsGone'        BY <1>1, <1>2, <1>7 DEF BodyInv, DroppedIsGone
<1>. QED  BY <1>4, <1>5, <1>6, <1>8 DEF BodyInv, Typed

LEMMA BodyStep == BodyInv /\ [Next]_vars => BodyInv'
<1>. SUFFICES ASSUME BodyInv, [Next]_vars PROVE BodyInv'
  OBVIOUS
<1>0. Typed /\ Typed'  BY TypedStep DEF BodyInv, Typed
<1>1. ASSUME NEW p \in Procs, NEW h \in Hosts, NEW accept \in BOOLEAN,
             NEW refresh \in BOOLEAN, Ask(p, h, accept, refresh)
      PROVE  BodyInv'
  <2>1. resp'[p] = None /\ \A q \in Procs : q # p => pc'[q] = pc[q] /\ call'[q] = call[q]
    BY <1>0, <1>1 DEF Ask, Request, Goto, Typed, TypeOK, Shape
  <2>. QED  BY <1>0, <1>1, <2>1, BodyForgets DEF Ask, Request
<1>2. ASSUME NEW p \in Procs, Retry(p) \/ AskAgain(p) PROVE BodyInv'
  <2>1. /\ resp'[p] = None /\ UNCHANGED <<resp, entry, fetches, dropped>>
        /\ \A q \in Procs : q # p => pc'[q] = pc[q] /\ call'[q] = call[q]
    BY <1>0, <1>2 DEF Retry, AskAgain, Goto, record, Typed, TypeOK, Shape
  <2>. QED  BY <1>0, <2>1, BodyForgets
<1>3. ASSUME NEW p \in Procs,
             \/ GiveUp(p) \/ PersistFails(p) \/ UseBody(p) \/ EvictFails(p) \/ Persist(p)
             \/ Restart(p)
      PROVE  BodyInv'
  <2>1. End(p) /\ UNCHANGED <<entry, fetches, dropped>>
    BY <1>3 DEF GiveUp, PersistFails, UseBody, EvictFails, Persist, Restart, record
  <2>2. /\ resp'[p] = None
        /\ \A q \in Procs : q # p => pc'[q] = pc[q] /\ call'[q] = call[q] /\ resp'[q] = resp[q]
    BY <1>0, <2>1 DEF End, Goto, Typed, TypeOK
  <2>. QED  BY <1>0, <2>1, <2>2, BodyForgets
<1>4. ASSUME NEW p \in Procs, RateLimited(p) PROVE BodyInv'
  <2>1. /\ resp'[p] = None /\ UNCHANGED <<resp, entry, fetches, dropped>>
        /\ \A q \in Procs : q # p => pc'[q] = pc[q] /\ call'[q] = call[q]
    BY <1>0, <1>4 DEF RateLimited, Answered, Goto, Typed, TypeOK, Shape
  <2>. QED  BY <1>0, <2>1, BodyForgets
<1>5. ASSUME NEW p \in Procs, KeepNothing(p) PROVE BodyInv'
  <2>1. /\ UNCHANGED <<resp, call, entry, fetches, dropped>> /\ pc[p] = "storing"
        /\ \A q \in Procs : q # p => pc'[q] = pc[q]
    BY <1>0, <1>5 DEF KeepNothing, Goto, record, Typed, TypeOK
  <2>. QED  BY <1>0, <2>1, BodyForgets
<1>6. ASSUME NEW h \in Hosts, Lose(h) PROVE BodyInv'
  <2>1. \A g \in Hosts : entry'[g] = None \/ entry'[g] = entry[g]
    BY <1>0, <1>6 DEF Lose, Typed, TypeOK
  <2>. QED  BY <1>0, <1>6, <2>1, BodyForgets DEF Lose, record
<1>7. CASE Tick \/ UNCHANGED vars
  <2>1. UNCHANGED <<pc, resp, call, entry, fetches, dropped>>
    BY <1>7 DEF Tick, vars, record
  <2>. QED  BY <1>0, <2>1, BodyForgets
<1>. QED
  BY <1>0, <1>1, <1>2, <1>3, <1>4, <1>5, <1>6, <1>7, HitBody, FetchedBody, WriteBody, EvictBody
  DEF Next, Call, Proceed

(* A hit is of an entry that serves the call.                              *)
LEMMA HitStep ==
  ASSUME BodyInv, Next, NEW p \in Procs, Hits(p)
  PROVE  /\ resp'[p].status = "ok" \/ call'[p].accept
         /\ now <= resp'[p].at + TTL
         /\ resp'[p].nth \notin dropped
<1>0. Typed  BY DEF BodyInv, Typed
<1>1. ASSUME NEW q \in Procs, Call(q) \/ Proceed(q) \/ Restart(q)
      PROVE  \E h \in Hosts, accept \in BOOLEAN : Hit(p, h, accept)
  <2>1. CASE q = p
    BY <1>0, <1>1, <2>1
    DEF Hits, Call, Proceed, Restart, Ask, AskAgain, Request, Retry, GiveUp, Fetched, RateLimited,
        Persist, PersistFails, WriteEntry, KeepNothing, UseBody, Evict, EvictFails, End, Goto,
        Typed, TypeOK
  <2>2. CASE q # p
    BY <1>0, <1>1, <2>2
    DEF Hits, Call, Proceed, Restart, Hit, Ask, AskAgain, Request, Retry, GiveUp, Fetched,
        RateLimited, Persist, PersistFails, WriteEntry, KeepNothing, UseBody, Evict, EvictFails,
        End, Goto, Typed, TypeOK
  <2>. QED  BY <2>1, <2>2
<1>2. PICK h \in Hosts, accept \in BOOLEAN : Hit(p, h, accept)
  BY <1>1 DEF Hits, Next, Tick, Lose
<1>3. /\ entry[h] # None /\ entry[h] \in Response /\ resp'[p] = entry[h]
      /\ call'[p].accept = accept
  BY <1>0, <1>2 DEF Hit, Serves, Request, Typed, TypeOK, Plain
<1>4. entry[h].at \in Nat /\ now \in Nat  BY <1>0, <1>3 DEF Response, Typed, TypeOK
<1>5. resp'[p].status = "ok" \/ call'[p].accept
  BY <1>2, <1>3 DEF Hit, Serves, Answers
<1>6. now <= resp'[p].at + TTL
  BY <1>2, <1>3, <1>4, HttpAssumption DEF Hit, Serves, IsFresh
<1>7. resp'[p].nth \notin dropped
  BY <1>3 DEF BodyInv, DroppedIsGone
<1>. QED  BY <1>5, <1>6, <1>7

(* What is served from the cache answers the call, is fresh, and was never *)
(* evicted before.                                                         *)
THEOREM ServedUsable == Spec => ServedIsUsable
<1>1. BodyInv /\ [Next]_vars =>
        [\A p \in Procs : Hits(p) =>
           /\ resp'[p].status = "ok" \/ call'[p].accept
           /\ now <= resp'[p].at + TTL
           /\ resp'[p].nth \notin dropped]_vars
  BY HitStep
<1>. QED  BY <1>1, InitBody, BodyStep, PTL DEF Spec, ServedIsUsable

-----------------------------------------------------------------------------
Checks     == {"all zero", "small order", "repeated byte", "monotonic", "low entropy",
               "blocklist", "consistency", "firmware", "duplicate"}
Severities == {"critical", "warning"}
Finding    == [check : Checks, severity : Severities]
Stamps  == PlaceNames \X Nat \X Nat
Steps   == {"idle", "locate", "stat", "read", "judged", "refused"}

AuditTypeOK ==
  /\ lists \in [PlaceNames -> Listing \cup {Absent}] /\ edits \in Nat
  /\ DOMAIN memo \subseteq Stamps
  /\ audit \in [step : Steps, node : Nodes \cup {Absent}, env : PlaceNames \cup {Absent},
                place : PlaceNames \cup {Absent}, stamp : Stamps \cup {Absent},
                bad : SUBSET RawKeys, findings : SUBSET Finding, twice : BOOLEAN]

(* What an audit is to block if a place's file is as it is now.            *)
Blocked(place) == (lists[place].entries \cap RawKeys) \cup SmallOrder

(* A file has had the size it has, and is no newer than the last edit.     *)
SizesAreKept ==
  \A place \in PlaceNames : There(place) =>
    Cardinality(lists[place].entries) \in lists[place].sizes /\ lists[place].time <= edits

(* A stamp was a file's: of no later edit, and of a size it had, if it     *)
(* still has that time.                                                    *)
WasSeen(stamp) ==
  /\ stamp[2] <= edits
  /\ There(stamp[1]) /\ lists[stamp[1]].time = stamp[2] => stamp[3] \in lists[stamp[1]].sizes

StampsWereSeen ==
  /\ \A stamp \in DOMAIN memo : WasSeen(stamp) /\ memo[stamp] \in SUBSET RawKeys
                                  /\ SmallOrder \subseteq memo[stamp]
  /\ audit.step = "read" =>
       audit.stamp \in Stamps /\ WasSeen(audit.stamp) /\ audit.stamp[1] = audit.place

(* The cache has what a file lists, unless some file came back to a stamp. *)
MemoIsTrue ==
  ~audit.twice =>
    \A place \in PlaceNames :
      There(place) /\ Stamp(place) \in DOMAIN memo => memo[Stamp(place)] = Blocked(place)

(* What the file of the audit lists, if anything, it has since it began.   *)
SinceIsKept ==
  /\ audit.step = "locate" => audit.place = Absent
  /\ audit.step \in {"stat", "read"} =>
       /\ audit.place \in PlaceNames
       /\ (IF There(audit.place) THEN lists[audit.place].entries ELSE {}) \in since

JudgedRight == audit.step = "judged" =>
  /\ audit.node \in Nodes /\ audit.findings = AuditNode(audit.node, audit.bad)
  /\ ListIsCurrent

ListInv ==
  AuditTypeOK /\ SizesAreKept /\ StampsWereSeen /\ MemoIsTrue /\ SinceIsKept /\ JudgedRight

-----------------------------------------------------------------------------
LEMMA SizeType == \A entries \in Entries : Cardinality(entries) \in Nat
BY WeakKeysAssumption, FS_CardinalityType

LEMMA FileType ==
  ASSUME NEW entries \in Entries, NEW time \in Nat, NEW sizes \in SUBSET Nat
  PROVE  /\ File(entries, time, sizes) \in Listing /\ File(entries, time, sizes) # Absent
         /\ File(entries, time, sizes).sizes = sizes \cup {Cardinality(entries)}
         /\ File(entries, time, sizes).entries = entries
         /\ File(entries, time, sizes).time = time
<1>1. Cardinality(entries) \in Nat
  BY SizeType
<1>2. File(entries, time, sizes) \in Listing
  BY <1>1 DEF File, Listing
<1>. QED  BY <1>2, WeakKeysAssumption DEF File

LEMMA FirstPlace ==
  ASSUME NEW there \in SUBSET (1..Len(Places)), there # {}
  PROVE  Min(there) \in there
<1>. DEFINE R == {e \in Nat \X Nat : e[1] < e[2]}
<1>1. IsWellFoundedOn(R, Nat)
  BY NatLessThanWellFounded DEF OpToRel
<1>2. there \subseteq Nat
  BY WeakKeysAssumption
<1>3. PICK m \in there : \A n \in there : <<n, m>> \notin R
  <2>. HIDE DEF R
  <2>. QED  BY <1>1, <1>2, WFMin
<1>4. \A n \in Nat, m0 \in Nat : n < m0 => <<n, m0>> \in R
  OBVIOUS
<1>5. \A n \in there : m <= n
  <2>. HIDE DEF R
  <2>1. \A n \in there : ~(n < m)
    BY <1>2, <1>3, <1>4
  <2>. QED  BY <1>2, <2>1
<1>. QED  BY <1>5 DEF Min

LEMMA PlaceType ==
  ASSUME NEW env \in PlaceNames \cup {Absent}
  PROVE  PlaceOf(env) \in PlaceNames \cup {Absent}
<1>. DEFINE there == {n \in 1..Len(Places) : There(Places[n])}
<1>1. there # {} => Min(there) \in 1..Len(Places)
  BY FirstPlace
<1>. QED  BY <1>1 DEF PlaceOf, PlaceNames

LEMMA FoundType ==
  ASSUME NEW check \in Checks, NEW severity \in Severities, NEW holds
  PROVE  FoundIf(check, severity, holds) \in SUBSET Finding
BY DEF FoundIf, Finding

LEMMA KeyFindings ==
  ASSUME NEW raw, NEW isPublic, NEW bad
  PROVE  AuditKey(raw, isPublic, bad) \in SUBSET Finding
<1>1. StructuralFindings(raw, isPublic) \in SUBSET Finding
  BY FoundType DEF StructuralFindings, Checks, Severities
<1>. QED  BY <1>1, FoundType DEF AuditKey, Checks, Severities

LEMMA FindingsType ==
  ASSUME NEW node, NEW bad
  PROVE  AuditNode(node, bad) \in SUBSET Finding
<1>. USE DEF Checks, Severities
<1>1. AuditKeypair(node.private, node.public, bad) \in SUBSET Finding
  BY KeyFindings, FoundType DEF AuditKeypair
<1>2. FirmwareFindings(node.firmware) \in SUBSET Finding
  BY FoundType DEF FirmwareFindings
<1>. QED  BY <1>1, <1>2, FoundType DEF AuditNode

LEMMA InitListInv == AuditInit => ListInv
<1>. SUFFICES ASSUME AuditInit  PROVE ListInv
  OBVIOUS
<1>. USE DEF AuditInit, Unused
<1>1. \A entries \in Entries : File(entries, 0, {}) \in Listing
  BY FileType
<1>2. lists \in [PlaceNames -> Listing \cup {Absent}]
  BY <1>1
<1>3. DOMAIN memo = {}
  OBVIOUS
<1>4. AuditTypeOK
  BY <1>2, <1>3 DEF AuditTypeOK, Steps
<1>5. SizesAreKept
  <2>. SUFFICES ASSUME NEW place \in PlaceNames, There(place)
                PROVE  Cardinality(lists[place].entries) \in lists[place].sizes
                         /\ lists[place].time <= edits
    BY DEF SizesAreKept
  <2>1. PICK entries \in Entries : lists[place] = File(entries, 0, {})
    BY DEF There
  <2>2. /\ File(entries, 0, {}).sizes = {Cardinality(entries)}
        /\ File(entries, 0, {}).entries = entries /\ File(entries, 0, {}).time = 0
    BY DEF File
  <2>. QED  BY <2>1, <2>2
<1>. QED  BY <1>3, <1>4, <1>5
          DEF ListInv, StampsWereSeen, MemoIsTrue, SinceIsKept, JudgedRight

(* What an audit does that leaves the files alone keeps of the invariant   *)
(* all but what is about the audit.                                        *)
LEMMA FilesKept ==
  ASSUME ListInv, UNCHANGED <<lists, edits>>
  PROVE  /\ SizesAreKept'
         /\ \A place : (There(place) <=> There(place)') /\ Blocked(place)' = Blocked(place)
                         /\ Stamp(place)' = Stamp(place)
         /\ \A stamp : WasSeen(stamp) <=> WasSeen(stamp)'
BY DEF ListInv, SizesAreKept, There, Blocked, Stamp, WasSeen

(* An audit that ends with a list that contains the degenerate points.     *)
LEMMA JudgedKeeps ==
  ASSUME ListInv, UNCHANGED <<lists, memo, since, edits>>, NEW bad \in SUBSET RawKeys, Judged(bad),
         SmallOrder \subseteq bad,
         audit.place # Absent /\ ~audit.twice =>
           \E entries \in since : bad = (entries \cap RawKeys) \cup SmallOrder
  PROVE  ListInv'
<1>1. PICK node \in Nodes :
        audit' = [audit EXCEPT !.step = "judged", !.node = node, !.bad = bad,
                               !.findings = AuditNode(node, bad)]
  BY DEF Judged
<1>2. AuditTypeOK'
  BY <1>1, FindingsType DEF ListInv, AuditTypeOK, Steps
<1>3. /\ audit'.step = "judged" /\ audit'.node = node /\ audit'.bad = bad
      /\ audit'.findings = AuditNode(node, bad)
      /\ audit'.place = audit.place /\ audit'.twice = audit.twice
  BY <1>1 DEF ListInv, AuditTypeOK
<1>4. SizesAreKept' /\ StampsWereSeen' /\ MemoIsTrue'
  BY <1>3, FilesKept DEF ListInv, StampsWereSeen, MemoIsTrue
<1>5. SinceIsKept' /\ JudgedRight'
  BY <1>3 DEF SinceIsKept, JudgedRight, ListIsCurrent
<1>. QED  BY <1>2, <1>4, <1>5 DEF ListInv

(* Nothing an audit does but reading and being judged changes what the     *)
(* cache has.                                                              *)
LEMMA RefusedKeeps ==
  ASSUME ListInv, UNCHANGED <<lists, memo, since, edits>>,
         audit' = [audit EXCEPT !.step = "refused"]
  PROVE  ListInv'
<1>1. AuditTypeOK'
  BY DEF ListInv, AuditTypeOK, Steps
<1>2. audit'.step = "refused" /\ audit'.twice = audit.twice
  BY DEF ListInv, AuditTypeOK
<1>. QED  BY <1>1, <1>2, FilesKept
          DEF ListInv, StampsWereSeen, MemoIsTrue, SinceIsKept, JudgedRight

LEMMA StartKeeps ==
  ASSUME ListInv, NEW env \in PlaceNames \cup {Absent}, StartAudit(env)
  PROVE  ListInv'
<1>. USE DEF StartAudit
<1>1. AuditTypeOK'
  BY DEF ListInv, AuditTypeOK, Steps, Unused
<1>2. audit'.step = "locate" /\ audit'.twice = audit.twice /\ audit'.place = Absent
  BY DEF ListInv, AuditTypeOK, Unused
<1>. QED  BY <1>1, <1>2, FilesKept
          DEF ListInv, StampsWereSeen, MemoIsTrue, SinceIsKept, JudgedRight

LEMMA LocateKeeps == ASSUME ListInv, Locate PROVE ListInv'
<1>. DEFINE place == PlaceOf(audit.env)
<1>1. place \in PlaceNames \cup {Absent} /\ audit.place = Absent /\ audit.step = "locate"
  BY PlaceType DEF ListInv, AuditTypeOK, SinceIsKept, Locate
<1>2. CASE place = Absent
  <2>1. Judged(SmallOrder) /\ UNCHANGED <<lists, memo, since, edits>>
    BY <1>2 DEF Locate
  <2>. QED  BY <1>1, <2>1, JudgedKeeps, WeakKeysAssumption
<1>3. CASE place # Absent /\ ~There(place)
  BY <1>3, RefusedKeeps DEF Locate
<1>4. CASE place # Absent /\ There(place)
  <2>1. /\ audit' = [audit EXCEPT !.step = "stat", !.place = place]
        /\ since' = {lists[place].entries} /\ UNCHANGED <<lists, memo, edits>>
    BY <1>4 DEF Locate
  <2>2. AuditTypeOK'
    BY <1>1, <2>1 DEF ListInv, AuditTypeOK, Steps
  <2>3. audit'.step = "stat" /\ audit'.place = place /\ audit'.twice = audit.twice
    BY <2>1 DEF ListInv, AuditTypeOK
  <2>. HIDE DEF place
  <2>4. SinceIsKept'
    BY <1>1, <1>4, <2>1, <2>3 DEF SinceIsKept, There
  <2>. QED  BY <2>1, <2>2, <2>3, <2>4, FilesKept
            DEF ListInv, StampsWereSeen, MemoIsTrue, JudgedRight
<1>. QED  BY <1>2, <1>3, <1>4

(* The stamp of a file that is there.                                      *)
LEMMA StampOfFile ==
  ASSUME ListInv, NEW place \in PlaceNames, There(place)
  PROVE  /\ lists[place] \in Listing
         /\ Stamp(place) \in Stamps /\ WasSeen(Stamp(place)) /\ Stamp(place)[1] = place
         /\ Blocked(place) \in SUBSET RawKeys /\ SmallOrder \subseteq Blocked(place)
<1>1. lists[place] \in Listing
  BY DEF ListInv, AuditTypeOK, There
<1>2. Cardinality(lists[place].entries) \in Nat
  BY <1>1, SizeType DEF Listing
<1>. QED  BY <1>1, <1>2, WeakKeysAssumption
          DEF ListInv, SizesAreKept, Stamp, Stamps, WasSeen, Blocked, Listing

LEMMA StatKeeps == ASSUME ListInv, Stat PROVE ListInv'
<1>. DEFINE place == audit.place
            stamp == Stamp(place)
<1>1. /\ place \in PlaceNames /\ There(place) /\ lists[place].entries \in since
      /\ UNCHANGED <<lists, memo, since, edits>>
  BY DEF Stat, ListInv, SinceIsKept
<1>2. stamp \in Stamps /\ WasSeen(stamp) /\ stamp[1] = place
  BY <1>1, StampOfFile
<1>3. CASE stamp \in DOMAIN memo
  <2>1. Judged(memo[stamp])
    BY <1>3 DEF Stat
  <2>2. memo[stamp] \in SUBSET RawKeys /\ SmallOrder \subseteq memo[stamp]
    BY <1>3 DEF ListInv, StampsWereSeen
  <2>3. ~audit.twice => memo[stamp] = Blocked(place)
    BY <1>1, <1>3 DEF ListInv, MemoIsTrue
  <2>4. ~audit.twice => \E entries \in since : memo[stamp] = (entries \cap RawKeys) \cup SmallOrder
    BY <1>1, <2>3 DEF Blocked
  <2>. HIDE DEF stamp
  <2>. QED  BY <1>1, <2>1, <2>2, <2>4, JudgedKeeps
<1>4. CASE stamp \notin DOMAIN memo
  <2>1. audit' = [audit EXCEPT !.step = "read", !.stamp = stamp]
    BY <1>4 DEF Stat
  <2>. HIDE DEF stamp
  <2>2. AuditTypeOK'
    BY <1>1, <1>2, <2>1 DEF ListInv, AuditTypeOK, Steps
  <2>3. /\ audit'.step = "read" /\ audit'.stamp = stamp
        /\ audit'.place = place /\ audit'.twice = audit.twice
    BY <2>1 DEF ListInv, AuditTypeOK
  <2>4. SizesAreKept' /\ StampsWereSeen' /\ MemoIsTrue'
    BY <1>1, <1>2, <2>3, FilesKept DEF ListInv, StampsWereSeen, MemoIsTrue
  <2>5. SinceIsKept' /\ JudgedRight'
    BY <1>1, <2>3 DEF SinceIsKept, JudgedRight, There
  <2>. QED  BY <2>2, <2>4, <2>5 DEF ListInv
<1>. QED  BY <1>3, <1>4

LEMMA ReadKeeps == ASSUME ListInv, Read PROVE ListInv'
<1>. DEFINE place   == audit.place
            entries == lists[place].entries
            bad     == (entries \cap RawKeys) \cup SmallOrder
<1>1. /\ place \in PlaceNames /\ There(place) /\ entries \in since
      /\ UNCHANGED <<lists, since, edits>>
      /\ audit.stamp \in Stamps /\ WasSeen(audit.stamp) /\ audit.stamp[1] = place
  BY DEF Read, ListInv, SinceIsKept, StampsWereSeen
<1>2. CASE ~(entries \subseteq RawKeys)
  <2>1. audit' = [audit EXCEPT !.step = "refused"] /\ UNCHANGED memo
    BY <1>2 DEF Read
  <2>. QED  BY <1>1, <2>1, RefusedKeeps
<1>3. CASE entries \subseteq RawKeys
  <2>1. /\ memo' = [s \in DOMAIN memo \cup {audit.stamp} |->
                      IF s = audit.stamp THEN bad ELSE memo[s]]
        /\ Judged(bad)
    BY <1>3 DEF Read
  <2>2. PICK node \in Nodes :
          audit' = [audit EXCEPT !.step = "judged", !.node = node, !.bad = bad,
                                 !.findings = AuditNode(node, bad)]
    BY <2>1 DEF Judged
  <2>3. bad \in SUBSET RawKeys /\ SmallOrder \subseteq bad /\ bad = Blocked(place)
    BY WeakKeysAssumption DEF Blocked
  <2>. HIDE DEF bad
  <2>4. AuditTypeOK'
    BY <1>1, <2>1, <2>2, <2>3, FindingsType DEF ListInv, AuditTypeOK, Steps
  <2>5. /\ audit'.step = "judged" /\ audit'.node = node /\ audit'.bad = bad
        /\ audit'.findings = AuditNode(node, bad)
        /\ audit'.place = place /\ audit'.twice = audit.twice
    BY <2>2 DEF ListInv, AuditTypeOK
  <2>6. \A s \in DOMAIN memo' :
          IF s = audit.stamp THEN memo'[s] = bad ELSE s \in DOMAIN memo /\ memo'[s] = memo[s]
    BY <2>1
  <2>7. StampsWereSeen'
    BY <1>1, <2>3, <2>5, <2>6, FilesKept DEF ListInv, StampsWereSeen
  <2>8. MemoIsTrue'
    <3>. SUFFICES ASSUME ~audit.twice, NEW other \in PlaceNames, There(other),
                         Stamp(other) \in DOMAIN memo'
                  PROVE  memo'[Stamp(other)] = Blocked(other)
      BY <1>1, <2>5, FilesKept DEF MemoIsTrue
    <3>1. CASE Stamp(other) = audit.stamp
      <4>1. other = place
        BY <1>1, <3>1, StampOfFile
      <4>. QED  BY <2>3, <2>6, <3>1, <4>1
    <3>2. CASE Stamp(other) # audit.stamp
      BY <2>6, <3>2 DEF ListInv, MemoIsTrue
    <3>. QED  BY <3>1, <3>2
  <2>9. SizesAreKept' /\ SinceIsKept'
    BY <1>1, <2>5, FilesKept DEF SinceIsKept
  <2>10. JudgedRight'
    BY <1>1, <2>3, <2>5 DEF JudgedRight, ListIsCurrent, Blocked
  <2>. QED  BY <2>4, <2>7, <2>8, <2>9, <2>10 DEF ListInv
<1>. QED  BY <1>2, <1>3

LEMMA GoneKeeps == ASSUME ListInv, Gone PROVE ListInv'
<1>1. UNCHANGED <<lists, memo, since, edits>> /\ ~There(audit.place)
  BY DEF Gone
<1>2. CASE audit.step = "stat"
  <2>1. {} \in since
    BY <1>1, <1>2 DEF ListInv, SinceIsKept
  <2>2. SmallOrder = ({} \cap RawKeys) \cup SmallOrder
    OBVIOUS
  <2>3. Judged(SmallOrder)
    BY <1>2 DEF Gone
  <2>. QED  BY <1>1, <2>1, <2>2, <2>3, JudgedKeeps, WeakKeysAssumption
<1>3. CASE audit.step = "read"
  BY <1>1, <1>3, RefusedKeeps DEF Gone
<1>. QED  BY <1>2, <1>3 DEF Gone

(* A rewrite: a later one makes a time no stamp has, another adds a size;  *)
(* unless that one was had before, no stamp of the cache is the file's.    *)
LEMMA RewriteKeeps ==
  ASSUME ListInv, NEW place \in PlaceNames, NEW entries \in Entries, NEW later \in BOOLEAN,
         Rewrite(place, entries, later)
  PROVE  ListInv'
<1>. DEFINE size  == Cardinality(entries)
            time  == IF later THEN edits + 1 ELSE lists[place].time
            sizes == IF later THEN {} ELSE lists[place].sizes
<1>1. ~later => There(place) /\ lists[place] \in Listing
                  /\ lists[place].time \in Nat /\ lists[place].sizes \in SUBSET Nat
                  /\ lists[place].time <= edits
  BY DEF Rewrite, ListInv, SizesAreKept, AuditTypeOK, There, Listing
<1>2. edits \in Nat /\ edits' = edits + 1 /\ audit.step \in {"locate", "stat", "read"}
  BY DEF Rewrite, ListEdits, ListInv, AuditTypeOK
<1>3. time \in Nat /\ sizes \in SUBSET Nat /\ time <= edits'
  BY <1>1, <1>2
<1>4. lists' = [lists EXCEPT ![place] = File(entries, time, sizes)]
  BY DEF Rewrite
<1>. HIDE DEF time, sizes
<1>5. /\ File(entries, time, sizes) \in Listing /\ File(entries, time, sizes) # Absent
      /\ File(entries, time, sizes).sizes = sizes \cup {size}
      /\ File(entries, time, sizes).entries = entries /\ File(entries, time, sizes).time = time
  <2>1. time \in Nat /\ sizes \in SUBSET Nat
    BY <1>3
  <2>2. \A t \in Nat : \A n \in SUBSET Nat :
          /\ File(entries, t, n) \in Listing /\ File(entries, t, n) # Absent
          /\ File(entries, t, n).sizes = n \cup {size}
          /\ File(entries, t, n).entries = entries /\ File(entries, t, n).time = t
    BY FileType
  <2>. HIDE DEF size
  <2>. QED  BY <2>1, <2>2
<1>. HIDE DEF size
<1>6. /\ lists' \in [PlaceNames -> Listing \cup {Absent}]
      /\ lists'[place] = File(entries, time, sizes)
      /\ \A other \in PlaceNames \ {place} : lists'[other] = lists[other]
  BY <1>4, <1>5 DEF ListInv, AuditTypeOK
<1>7. /\ There(place)' /\ lists'[place].entries = entries
      /\ lists'[place].time = time /\ lists'[place].sizes = sizes \cup {size}
  BY <1>5, <1>6 DEF There
<1>8. /\ audit' = [audit EXCEPT !.twice = audit.twice \/ (~later /\ size \in lists[place].sizes)]
      /\ memo' = memo /\ since' = IF place = audit.place THEN since \cup {entries} ELSE since
  BY DEF Rewrite, size
<1>9. /\ audit'.step = audit.step /\ audit'.place = audit.place /\ audit'.stamp = audit.stamp
      /\ ~audit'.twice => ~audit.twice /\ (later \/ size \notin lists[place].sizes)
  BY <1>8 DEF ListInv, AuditTypeOK
<1>10. AuditTypeOK'
  <2>1. audit' \in [step : Steps, node : Nodes \cup {Absent}, env : PlaceNames \cup {Absent},
                    place : PlaceNames \cup {Absent}, stamp : Stamps \cup {Absent},
                    bad : SUBSET RawKeys, findings : SUBSET Finding, twice : BOOLEAN]
    BY <1>8 DEF ListInv, AuditTypeOK
  <2>. QED  BY <1>2, <1>6, <1>8, <2>1 DEF ListInv, AuditTypeOK
<1>11. SizesAreKept'
  <2>. SUFFICES ASSUME NEW other \in PlaceNames, There(other)'
                PROVE  Cardinality(lists'[other].entries) \in lists'[other].sizes
                         /\ lists'[other].time <= edits'
    BY DEF SizesAreKept
  <2>1. CASE other = place
    BY <1>3, <1>7, <2>1 DEF size
  <2>2. CASE other # place
    <3>1. lists[other] \in Listing /\ lists'[other] = lists[other] /\ There(other)
      BY <1>6, <2>2 DEF There, ListInv, AuditTypeOK
    <3>2. lists[other].time \in Nat
      BY <3>1 DEF Listing
    <3>. QED  BY <1>2, <3>1, <3>2 DEF ListInv, SizesAreKept
  <2>. QED  BY <2>1, <2>2
<1>12. ASSUME NEW stamp \in Stamps, WasSeen(stamp)  PROVE WasSeen(stamp)'
  <2>1. stamp[1] \in PlaceNames /\ stamp[2] \in Nat
    BY DEF Stamps
  <2>2. stamp[2] <= edits'
    BY <1>2, <1>12, <2>1 DEF WasSeen
  <2>3. CASE stamp[1] = place
    <3>1. CASE later
      <4>1. time = edits + 1
        BY <3>1 DEF time
      <4>2. stamp[2] # time
        BY <1>2, <1>12, <2>1, <4>1 DEF WasSeen
      <4>. QED  BY <1>7, <2>2, <2>3, <4>2 DEF WasSeen
    <3>2. CASE ~later
      <4>1. time = lists[place].time /\ sizes = lists[place].sizes /\ There(place)
        BY <1>1, <3>2 DEF time, sizes
      <4>. QED  BY <1>7, <1>12, <2>2, <2>3, <4>1 DEF WasSeen
    <3>. QED  BY <3>1, <3>2
  <2>4. CASE stamp[1] # place
    BY <1>6, <1>12, <2>1, <2>2, <2>4 DEF WasSeen, There
  <2>. QED  BY <2>3, <2>4
<1>13. StampsWereSeen'
  BY <1>8, <1>9, <1>12 DEF ListInv, AuditTypeOK, StampsWereSeen
<1>14. MemoIsTrue'
  <2>. SUFFICES ASSUME ~audit'.twice, NEW other \in PlaceNames, There(other)',
                       Stamp(other)' \in DOMAIN memo
                PROVE  memo[Stamp(other)'] = Blocked(other)'
    BY <1>8 DEF MemoIsTrue
  <2>1. CASE other = place
    <3>1. Stamp(other)' = <<place, time, size>>
      BY <1>7, <2>1 DEF Stamp, size
    <3>2. WasSeen(<<place, time, size>>)
      BY <3>1 DEF ListInv, StampsWereSeen
    <3>3. CASE later
      <4>1. time = edits + 1
        BY <3>3 DEF time
      <4>. QED  BY <1>2, <3>2, <4>1 DEF WasSeen
    <3>4. CASE ~later
      <4>1. time = lists[place].time /\ There(place) /\ size \notin lists[place].sizes
        BY <1>1, <1>9, <3>4 DEF time
      <4>. QED  BY <3>2, <4>1 DEF WasSeen
    <3>. QED  BY <3>3, <3>4
  <2>2. CASE other # place
    <3>1. lists'[other] = lists[other]
      BY <1>6, <2>2
    <3>2. There(other) /\ Stamp(other)' = Stamp(other) /\ Blocked(other)' = Blocked(other)
      BY <3>1 DEF There, Stamp, Blocked
    <3>. QED  BY <1>9, <3>2 DEF ListInv, MemoIsTrue
  <2>. QED  BY <2>1, <2>2
<1>15. SinceIsKept'
  <2>. SUFFICES ASSUME audit.step \in {"stat", "read"}
                PROVE  (IF There(audit.place)' THEN lists'[audit.place].entries ELSE {}) \in since'
    BY <1>9 DEF SinceIsKept, ListInv, There
  <2>1. CASE audit.place = place
    BY <1>7, <1>8, <2>1
  <2>2. CASE audit.place # place
    <3>1. audit.place \in PlaceNames /\ lists'[audit.place] = lists[audit.place] /\ since' = since
      BY <1>6, <1>8, <2>2 DEF ListInv, SinceIsKept
    <3>2. There(audit.place)' <=> There(audit.place)
      BY <1>9, <3>1 DEF There
    <3>3. (IF There(audit.place) THEN lists[audit.place].entries ELSE {}) \in since
      BY DEF ListInv, SinceIsKept
    <3>. QED  BY <3>1, <3>2, <3>3
  <2>. QED  BY <2>1, <2>2
<1>16. JudgedRight'
  BY <1>2, <1>9 DEF JudgedRight
<1>. QED  BY <1>10, <1>11, <1>13, <1>14, <1>15, <1>16 DEF ListInv

LEMMA DeleteKeeps ==
  ASSUME ListInv, NEW place \in PlaceNames, Delete(place)
  PROVE  ListInv'
<1>1. /\ edits \in Nat /\ edits' = edits + 1 /\ audit.step \in {"locate", "stat", "read"}
      /\ lists' = [lists EXCEPT ![place] = Absent] /\ UNCHANGED <<memo, audit>>
      /\ since' = IF place = audit.place THEN since \cup {{}} ELSE since
  BY DEF Delete, ListEdits, ListInv, AuditTypeOK
<1>2. /\ lists' \in [PlaceNames -> Listing \cup {Absent}] /\ ~There(place)'
      /\ \A other \in PlaceNames \ {place} : lists'[other] = lists[other]
  BY <1>1 DEF ListInv, AuditTypeOK, There
<1>3. \A other \in PlaceNames : There(other)' =>
        /\ There(other) /\ lists'[other] = lists[other] /\ lists[other].time \in Nat
        /\ Stamp(other)' = Stamp(other) /\ Blocked(other)' = Blocked(other)
  BY <1>2 DEF There, Stamp, Blocked, ListInv, AuditTypeOK, Listing
<1>4. AuditTypeOK'
  BY <1>1, <1>2 DEF ListInv, AuditTypeOK
<1>5. SizesAreKept'
  BY <1>1, <1>3 DEF ListInv, SizesAreKept
<1>6. ASSUME NEW stamp \in Stamps, WasSeen(stamp)  PROVE WasSeen(stamp)'
  <2>1. stamp[1] \in PlaceNames /\ stamp[2] \in Nat
    BY DEF Stamps
  <2>. QED  BY <1>1, <1>3, <1>6, <2>1 DEF WasSeen
<1>7. StampsWereSeen'
  BY <1>1, <1>6 DEF ListInv, AuditTypeOK, StampsWereSeen
<1>8. MemoIsTrue'
  BY <1>1, <1>3 DEF ListInv, MemoIsTrue
<1>9. SinceIsKept'
  <2>. SUFFICES ASSUME audit.step \in {"stat", "read"}
                PROVE  (IF There(audit.place)' THEN lists'[audit.place].entries ELSE {}) \in since'
    BY <1>1 DEF SinceIsKept, ListInv, There
  <2>1. CASE audit.place = place
    BY <1>1, <1>2, <2>1
  <2>2. CASE audit.place # place
    <3>1. audit.place \in PlaceNames /\ lists'[audit.place] = lists[audit.place] /\ since' = since
      BY <1>1, <1>2, <2>2 DEF ListInv, SinceIsKept
    <3>2. There(audit.place)' <=> There(audit.place)
      BY <1>1, <3>1 DEF There
    <3>3. (IF There(audit.place) THEN lists[audit.place].entries ELSE {}) \in since
      BY DEF ListInv, SinceIsKept
    <3>. QED  BY <3>1, <3>2, <3>3
  <2>. QED  BY <2>1, <2>2
<1>10. JudgedRight'
  BY <1>1 DEF JudgedRight
<1>. QED  BY <1>4, <1>5, <1>7, <1>8, <1>9, <1>10 DEF ListInv

LEMMA NextListInv == ListInv /\ [AuditNext]_auditVars => ListInv'
<1>. SUFFICES ASSUME ListInv, [AuditNext]_auditVars  PROVE ListInv'
  OBVIOUS
<1>1. CASE UNCHANGED auditVars
  BY <1>1, FilesKept DEF auditVars, ListInv, AuditTypeOK, StampsWereSeen, MemoIsTrue, SinceIsKept,
     JudgedRight, ListIsCurrent
<1>2. CASE \E env \in PlaceNames \cup {Absent} : StartAudit(env)
  BY <1>2, StartKeeps
<1>3. CASE \E place \in PlaceNames : Delete(place)
  BY <1>3, DeleteKeeps
<1>4. CASE \E place \in PlaceNames, entries \in Entries, later \in BOOLEAN :
             Rewrite(place, entries, later)
  BY <1>4, RewriteKeeps
<1>. QED
  BY <1>1, <1>2, <1>3, <1>4, LocateKeeps, StatKeeps, ReadKeeps, GoneKeeps DEF AuditNext

LEMMA ListInvariance == AuditSpec => []ListInv
BY InitListInv, NextListInv, PTL DEF AuditSpec

-----------------------------------------------------------------------------
(* Who shares a key, of the whole fleet at once.                           *)
LEMMA Sharers ==
  ASSUME NEW fleet, IsFiniteSet(DOMAIN fleet), NEW r \in DOMAIN fleet, NEW s \in DOMAIN fleet
  PROVE  LET pairs == FindDuplicates(fleet) IN
         (r \in DOMAIN pairs /\ s \in pairs[r]) <=> (s # r /\ fleet[s] = fleet[r])
<1>. DEFINE Sharing(q) == {t \in DOMAIN fleet : fleet[t] = fleet[q]}
            pairs == FindDuplicates(fleet)
<1>1. IsFiniteSet(Sharing(r)) /\ Cardinality(Sharing(r)) \in Nat
  BY FS_Subset, FS_CardinalityType
<1>2. pairs = [q \in {t \in DOMAIN fleet : Cardinality(Sharing(t)) > 1} |-> Sharing(q) \ {q}]
  BY DEF FindDuplicates
<1>. HIDE DEF pairs
<1>3. ASSUME r \in DOMAIN pairs, s \in pairs[r]  PROVE s # r /\ fleet[s] = fleet[r]
  BY <1>2, <1>3
<1>4. ASSUME s # r, fleet[s] = fleet[r]  PROVE r \in DOMAIN pairs /\ s \in pairs[r]
  <2>1. r \in Sharing(r) /\ s \in Sharing(r)
    BY <1>4
  <2>. HIDE DEF Sharing
  <2>2. Cardinality(Sharing(r)) # 0
    BY <1>1, <2>1, FS_EmptySet
  <2>3. Cardinality(Sharing(r)) # 1
    BY <1>1, <1>4, <2>1, FS_Singleton
  <2>4. Cardinality(Sharing(r)) > 1
    BY <1>1, <2>2, <2>3
  <2>. QED  BY <1>2, <1>4, <2>1, <2>4
<1>. QED  BY <1>3, <1>4 DEF pairs

(* Bytes and bits                                                          *)

(* Numbers of which the next is in a set with each are all in it.          *)
LEMMA ByInduction ==
  ASSUME NEW S, 0 \in S, \A n \in Nat : n \in S => n + 1 \in S
  PROVE  Nat \subseteq S
<1>. DEFINE T == Nat \ S
            R == OpToRel(<, Nat)
<1>. SUFFICES ASSUME T # {}  PROVE FALSE
  OBVIOUS
<1>1. IsWellFoundedOn(R, Nat)
  BY NatLessThanWellFounded
<1>2. PICK m \in T : \A n \in T : <<n, m>> \notin R
  <2>. HIDE DEF R, T
  <2>1. T \subseteq Nat
    BY DEF T
  <2>. QED  BY <1>1, <2>1, WFMin
<1>3. m \in Nat /\ m # 0 /\ m - 1 \in Nat /\ m - 1 < m
  OBVIOUS
<1>4. <<m - 1, m>> \in R
  BY <1>3 DEF OpToRel
<1>5. m - 1 \in S
  BY <1>2, <1>3, <1>4
<1>. QED  BY <1>3, <1>5

(* Every power within a byte is positive.                                  *)
LEMMA PowerIs == \A b \in 0..ByteBits : 2^b \in Nat /\ 2^b > 0
<1>. DEFINE S == {b \in Nat : b <= ByteBits => 2^b \in Nat /\ 2^b > 0}
<1>1. 0 \in S
  OBVIOUS
<1>2. ASSUME NEW n \in Nat, n \in S  PROVE n + 1 \in S
  <2>1. SUFFICES ASSUME n + 1 <= ByteBits  PROVE 2^(n + 1) \in Nat /\ 2^(n + 1) > 0
    OBVIOUS
  <2>2. 2^n \in Nat /\ 2^n > 0
    BY <1>2, <2>1, WeakKeysAssumption
  <2>3. n + 1 \in 1..ByteBits /\ (n + 1) - 1 = n
    BY <2>1, WeakKeysAssumption
  <2>4. 2^(n + 1) = 2 * 2^n
    BY <2>3, PowersAssumption
  <2>. QED  BY <2>2, <2>4
<1>3. Nat \subseteq S
  <2>. HIDE DEF S
  <2>. QED  BY <1>1, <1>2, ByInduction
<1>. QED  BY <1>3, WeakKeysAssumption

(* Above a bit there are twice as many values of the higher ones.          *)
LEMMA BitsAbove ==
  ASSUME NEW b \in 0..(ByteBits - 1)
  PROVE  \E q \in Nat : q > 0 /\ 2^ByteBits = 2^b * (2 * q)
<1>. DEFINE P(c) == \E q \in Nat : q > 0 /\ 2^ByteBits = 2^c * (2 * q)
            S == {n \in Nat : n < ByteBits => P(ByteBits - 1 - n)}
<1>1. 0 \in S
  <2>1. ByteBits \in 1..ByteBits /\ ByteBits - 1 - 0 = ByteBits - 1 /\ ByteBits - 1 \in 0..ByteBits
    BY WeakKeysAssumption
  <2>2. 2^ByteBits = 2 * 2^(ByteBits - 1) /\ 2^(ByteBits - 1) \in Nat
    BY <2>1, PowersAssumption, PowerIs
  <2>3. 2^ByteBits = 2^(ByteBits - 1) * (2 * 1)
    BY <2>2
  <2>. QED  BY <2>1, <2>3
<1>2. ASSUME NEW n \in Nat, n \in S  PROVE n + 1 \in S
  <2>1. SUFFICES ASSUME n + 1 < ByteBits  PROVE P(ByteBits - 1 - (n + 1))
    OBVIOUS
  <2>. DEFINE c == ByteBits - 1 - n
  <2>2. c \in 1..ByteBits /\ c - 1 = ByteBits - 1 - (n + 1) /\ c - 1 \in 0..ByteBits
    BY <2>1, WeakKeysAssumption
  <2>3. PICK q \in Nat : q > 0 /\ 2^ByteBits = 2^c * (2 * q)
    BY <1>2, <2>1, WeakKeysAssumption
  <2>. HIDE DEF c
  <2>4. 2^c = 2 * 2^(c - 1) /\ 2^(c - 1) \in Nat
    BY <2>2, PowersAssumption, PowerIs
  <2>5. \A x \in Nat : (2 * x) * (2 * q) = x * (2 * (2 * q))
    OBVIOUS
  <2>6. 2^ByteBits = 2^(c - 1) * (2 * (2 * q)) /\ 2 * q \in Nat /\ 2 * q > 0
    BY <2>3, <2>4, <2>5
  <2>. QED  BY <2>2, <2>6
<1>3. Nat \subseteq S
  <2>. HIDE DEF S
  <2>. QED  BY <1>1, <1>2, ByInduction
<1>4. /\ ByteBits - 1 - b \in Nat /\ ByteBits - 1 - b < ByteBits
      /\ ByteBits - 1 - (ByteBits - 1 - b) = b
  BY WeakKeysAssumption
<1>. QED  BY <1>3, <1>4

(* A number is its quotient and its remainder.                             *)
LEMMA DivisionIs ==
  ASSUME NEW x \in Int, NEW m \in Nat, m > 0
  PROVE  \E d \in Int, r \in 0..(m - 1) : d = x \div m /\ r = x % m /\ x = m * d + r
<1>1. PICK d, r : d = x \div m /\ r = x % m
  OBVIOUS
<1>2. x = m * d + r /\ d \in Int /\ r \in 0..(m - 1)
  BY <1>1
<1>. QED  BY <1>1, <1>2

(* A bit of a byte.                                                        *)
Bit(v, b) == (v \div 2^b) % 2

(* Counted from the other end, a byte has the other bits.                  *)
LEMMA OtherBits ==
  ASSUME NEW v \in ByteValues, NEW b \in 0..(ByteBits - 1)
  PROVE  /\ Bit(v, b) \in {0, 1}
         /\ (2^ByteBits - 1 - v) \in ByteValues
         /\ Bit(2^ByteBits - 1 - v, b) = 1 - Bit(v, b)
<1>1. PICK q \in Nat : q > 0 /\ 2^ByteBits = 2^b * (2 * q)
  BY BitsAbove
<1>. DEFINE p == 2^b
            m == 2^ByteBits
<1>2. p \in Nat /\ p > 0 /\ m \in Nat /\ v \in Nat /\ v < m
  BY PowerIs, WeakKeysAssumption DEF ByteValues
<1>3. m = p * (2 * q)
  BY <1>1
<1>4. m - 1 - v \in ByteValues
  BY <1>2 DEF ByteValues
<1>. HIDE DEF p, m
<1>. DEFINE d == v \div p
            r == v % p
<1>5. d \in Nat /\ r \in 0..(p - 1) /\ v = p * d + r
  BY <1>2
<1>. HIDE DEF d, r
<1>6. m - 1 - v = p * ((2 * q) - 1 - d) + (p - 1 - r)
  BY <1>2, <1>3, <1>5
<1>. DEFINE e == (2 * q) - 1 - d
            s == p - 1 - r
<1>7. s \in 0..(p - 1) /\ e \in Int
  BY <1>2, <1>5
<1>8. (m - 1 - v) \div p = e
  <2>. HIDE DEF e, s
  <2>1. m - 1 - v = p * e + s
    BY <1>6 DEF e, s
  <2>2. (p * e + s) \div p = e
    BY <1>2, <1>7
  <2>. QED  BY <2>1, <2>2
<1>9. PICK h \in Nat, t \in {0, 1} : d = 2 * h + t
  <2>1. PICK h \in Int, t \in 0..(2 - 1) : d = 2 * h + t
    BY <1>5, DivisionIs
  <2>. QED  BY <1>5, <2>1
<1>10. e = 2 * (q - 1 - h) + (1 - t) /\ q - 1 - h \in Int
  BY <1>1, <1>9
<1>. HIDE DEF e
<1>11. Bit(v, b) = t /\ Bit(m - 1 - v, b) = 1 - t
  <2>1. \A g \in Int, u \in {0, 1} : (2 * g + u) % 2 = u
    OBVIOUS
  <2>2. Bit(v, b) = d % 2
    BY DEF Bit, p, d
  <2>3. Bit(m - 1 - v, b) = ((m - 1 - v) \div p) % 2
    BY DEF Bit, p
  <2>4. Bit(m - 1 - v, b) = e % 2
    BY <1>8, <2>3, Zenon
  <2>5. d % 2 = t
    BY <1>9, <2>1
  <2>6. e % 2 = 1 - t
    <3>1. 1 - t \in {0, 1}
      OBVIOUS
    <3>. QED  BY <1>10, <2>1, <3>1
  <2>. QED  BY <2>2, <2>4, <2>5, <2>6, Zenon
<1>. QED  BY <1>4, <1>11 DEF m

-----------------------------------------------------------------------------
(* The places of a key's bits, and those that are set.                     *)
AllBits == (1..KeySize) \X (0..(ByteBits - 1))
Ones(raw) == {bit \in AllBits : Bit(raw[bit[1]], bit[2]) = 1}

(* A key has finitely many bits.                                           *)
LEMMA BitsAre == IsFiniteSet(AllBits) /\ Cardinality(AllBits) = KeySize * ByteBits
<1>1. /\ IsFiniteSet(1..KeySize) /\ Cardinality(1..KeySize) = KeySize
      /\ IsFiniteSet(0..(ByteBits - 1)) /\ Cardinality(0..(ByteBits - 1)) = ByteBits
  <2>1. 1 \in Int /\ 0 \in Int /\ KeySize \in Int /\ ByteBits - 1 \in Int /\ KeySize >= 1 /\ ByteBits - 1 >= 0
    BY WeakKeysAssumption
  <2>2. /\ Cardinality(1..KeySize) = KeySize - 1 + 1
        /\ Cardinality(0..(ByteBits - 1)) = (ByteBits - 1) - 0 + 1
        /\ IsFiniteSet(1..KeySize) /\ IsFiniteSet(0..(ByteBits - 1))
    BY <2>1, FS_Interval
  <2>. QED  BY <2>2, WeakKeysAssumption
<1>. DEFINE A == 1..KeySize
            B == 0..(ByteBits - 1)
<1>. HIDE DEF A, B
<1>2. IsFiniteSet(A \X B) /\ Cardinality(A \X B) = Cardinality(A) * Cardinality(B)
  BY <1>1, FS_Product DEF A, B
<1>. QED  BY <1>1, <1>2 DEF AllBits, A, B

(* Its weight counts those that are set.                                   *)
LEMMA WeightIs ==
  ASSUME NEW raw \in RawKeys
  PROVE  /\ HammingWeight(raw) = Cardinality(Ones(raw)) /\ Len(raw) = KeySize
         /\ HammingWeight(raw) \in Nat
<1>1. DOMAIN raw = 1..KeySize /\ Len(raw) = KeySize
  BY WeakKeysAssumption DEF RawKeys
<1>2. HammingWeight(raw) = Cardinality(Ones(raw))
  BY <1>1 DEF HammingWeight, Ones, AllBits, Bit
<1>3. Ones(raw) \in SUBSET AllBits
  BY DEF Ones
<1>4. Cardinality(Ones(raw)) \in Nat
  BY <1>3, BitsAre, FS_Subset, FS_CardinalityType
<1>. QED  BY <1>1, <1>2, <1>4

(* A key and its complement have all bits between them.                    *)
LEMMA WeightsAddUp ==
  ASSUME NEW raw \in RawKeys
  PROVE  /\ Complement(raw) \in RawKeys
         /\ HammingWeight(raw) + HammingWeight(Complement(raw)) = KeySize * ByteBits
<1>. DEFINE c == Complement(raw)
<1>1. /\ DOMAIN raw = 1..KeySize /\ \A i \in 1..KeySize : raw[i] \in ByteValues
      /\ c = [i \in 1..KeySize |-> 2^ByteBits - 1 - raw[i]]
  BY DEF RawKeys, Complement
<1>2. c \in RawKeys
  <2>1. 0 \in 0..(ByteBits - 1)
    BY WeakKeysAssumption
  <2>2. \A i \in 1..KeySize : 2^ByteBits - 1 - raw[i] \in ByteValues
    BY <1>1, <2>1, OtherBits
  <2>. QED  BY <1>1, <2>2 DEF RawKeys
<1>3. Ones(c) = AllBits \ Ones(raw)
  <2>1. \A i \in 1..KeySize, b \in 0..(ByteBits - 1) :
          Bit(c[i], b) = 1 - Bit(raw[i], b) /\ Bit(raw[i], b) \in {0, 1}
    BY <1>1, OtherBits
  <2>. HIDE DEF c
  <2>2. \A i \in 1..KeySize, b \in 0..(ByteBits - 1) : Bit(c[i], b) = 1 <=> ~(Bit(raw[i], b) = 1)
    BY <2>1
  <2>3. \A bit \in AllBits : Bit(c[bit[1]], bit[2]) = 1 <=> ~(Bit(raw[bit[1]], bit[2]) = 1)
    BY <2>2 DEF AllBits
  <2>. QED  BY <2>3 DEF Ones
<1>. HIDE DEF c
<1>4. Ones(raw) \in SUBSET AllBits /\ AllBits \cap Ones(raw) = Ones(raw)
  BY DEF Ones
<1>5. Cardinality(AllBits \ Ones(raw)) = Cardinality(AllBits) - Cardinality(Ones(raw))
  <2>1. IsFiniteSet(Ones(raw)) /\ IsFiniteSet(AllBits)
    BY <1>4, BitsAre, FS_Subset
  <2>2. Cardinality(AllBits \ Ones(raw)) = Cardinality(AllBits) - Cardinality(AllBits \cap Ones(raw))
    BY <2>1, FS_Difference
  <2>. QED  BY <1>4, <2>2
<1>6. Cardinality(Ones(raw)) \in Nat /\ Cardinality(AllBits) = KeySize * ByteBits /\ KeySize * ByteBits \in Nat
  BY BitsAre, WeightIs, WeakKeysAssumption
<1>7. HammingWeight(raw) = Cardinality(Ones(raw)) /\ HammingWeight(c) = Cardinality(Ones(c))
  BY <1>2, WeightIs
<1>8. HammingWeight(raw) + HammingWeight(c) = KeySize * ByteBits
  <2>. DEFINE x == Cardinality(Ones(raw))
              n == Cardinality(AllBits)
  <2>1. HammingWeight(c) = n - x /\ HammingWeight(raw) = x
    BY <1>3, <1>5, <1>7
  <2>2. x \in Nat /\ n \in Nat /\ n = KeySize * ByteBits
    BY <1>6
  <2>. HIDE DEF x, n
  <2>3. x + (n - x) = n
    BY <2>2
  <2>. QED  BY <2>1, <2>2, <2>3
<1>. QED
  BY <1>2, <1>8 DEF c

(* The least of two is below what either is below.                         *)
LEMMA MinOfTwo ==
  ASSUME NEW x \in Nat, NEW y \in Nat
  PROVE  \A w \in Nat : Min({x, y}) < w <=> x < w \/ y < w
<1>1. Min({x, y}) \in {x, y} /\ \A z \in {x, y} : Min({x, y}) <= z
  <2>1. \E z \in {x, y} : \A u \in {x, y} : z <= u
    BY x <= y \/ y <= x
  <2>. QED  BY <2>1 DEF Min
<1>. HIDE DEF Min
<1>. QED  BY <1>1

(* Too many bits are too few of the complement.                            *)
LEMMA UnbalancedIs ==
  ASSUME NEW raw \in RawKeys
  PROVE  IsUnbalanced(raw) <=> Min({HammingWeight(raw), HammingWeight(Complement(raw))}) < LowWeight
<1>. DEFINE x == HammingWeight(raw)
            y == HammingWeight(Complement(raw))
<1>1. x \in Nat /\ y \in Nat /\ x + y = KeySize * ByteBits
  BY WeightIs, WeightsAddUp
<1>2. LowWeight \in Nat /\ HighWeight \in Nat /\ LowWeight + HighWeight = KeySize * ByteBits
  BY WeakKeysAssumption
<1>3. IsUnbalanced(raw) <=> x < LowWeight \/ x > HighWeight
  BY DEF IsUnbalanced
<1>. HIDE DEF x, y
<1>4. x > HighWeight <=> y < LowWeight
  BY <1>1, <1>2
<1>5. Min({x, y}) < LowWeight <=> x < LowWeight \/ y < LowWeight
  BY <1>1, <1>2, MinOfTwo
<1>. QED  BY <1>3, <1>4, <1>5 DEF x, y

-----------------------------------------------------------------------------
(* A sum within a byte, and what a step of one makes of a byte.            *)
LEMMA SizeOfByte == 2^ByteBits \in Nat /\ 2^ByteBits >= 2 /\ ByteValues = 0..(2^ByteBits - 1)
<1>1. ByteBits - 1 \in 0..ByteBits /\ ByteBits \in 1..ByteBits
  BY WeakKeysAssumption
<1>2. 2^(ByteBits - 1) \in Nat /\ 2^(ByteBits - 1) > 0 /\ 2^ByteBits = 2 * 2^(ByteBits - 1)
  BY <1>1, PowerIs, PowersAssumption
<1>. QED  BY <1>2 DEF ByteValues

(* What a quotient leaves is the remainder.                                *)
LEMMA RemainderIs ==
  ASSUME NEW m \in Nat, m > 0, NEW q \in Int, NEW r \in 0..(m - 1), NEW x, x = m * q + r
  PROVE  x % m = r
OBVIOUS

(* What a byte keeps of a number, and how it counts.                       *)
Byte(x) == x % 2^ByteBits

LEMMA BytesAre ==
  /\ \A x \in Int : Byte(x) \in ByteValues
  /\ \A x \in ByteValues : Byte(x) = x /\ x \in Int
  /\ \A x, y \in Int : Byte(Byte(x) + y) = Byte(x + y)
  /\ \A v, w \in ByteValues : \A s \in {1, -1} : Byte(w - v) = Byte(s) <=> w = Byte(v + s)
  /\ Byte(1) = 1 /\ Byte(-1) = 2^ByteBits - 1
<1>. DEFINE m == 2^ByteBits
<1>1. m \in Nat /\ m >= 2 /\ ByteValues = 0..(m - 1)
  BY SizeOfByte
<1>. HIDE DEF m
<1>2. ASSUME NEW x \in Int  PROVE \E q \in Int : x = m * q + Byte(x) /\ Byte(x) \in 0..(m - 1)
  <2>1. PICK d \in Int, r \in 0..(m - 1) : d = x \div m /\ r = x % m /\ x = m * d + r
    BY <1>1, DivisionIs
  <2>2. x = m * d + r /\ d \in Int /\ r \in 0..(m - 1)
    BY <2>1
  <2>3. r = Byte(x)
    BY <2>1, Zenon DEF Byte, m
  <2>. QED  BY <2>2, <2>3
<1>3. ASSUME NEW x \in Int, NEW q \in Int, NEW r \in 0..(m - 1), x = m * q + r
      PROVE  Byte(x) = r
  <2>1. x % m = r
    BY <1>1, <1>3, RemainderIs
  <2>. QED  BY <2>1, Zenon DEF Byte, m
<1>4. ASSUME NEW x \in 0..(m - 1)  PROVE Byte(x) = x
  <2>1. x = m * 0 + x /\ 0 \in Int /\ x \in Int
    BY <1>1
  <2>. QED  BY <1>3, <2>1
<1>5. ASSUME NEW x \in Int, NEW y \in Int  PROVE Byte(Byte(x) + y) = Byte(x + y)
  <2>1. PICK q \in Int : x = m * q + Byte(x) /\ Byte(x) \in 0..(m - 1)
    BY <1>2
  <2>2. PICK k \in Int : x + y = m * k + Byte(x + y) /\ Byte(x + y) \in 0..(m - 1)
    BY <1>2
  <2>3. Byte(x) \in Int /\ Byte(x + y) \in Int
    BY <1>1, <2>1, <2>2
  <2>4. Byte(x) + y = m * k - m * q + Byte(x + y) /\ m * (k - q) = m * k - m * q
    BY <1>1, <2>1, <2>2, <2>3
  <2>5. Byte(x) + y = m * (k - q) + Byte(x + y) /\ k - q \in Int /\ Byte(x) + y \in Int
    BY <1>1, <2>3, <2>4
  <2>. QED  BY <1>3, <2>2, <2>5
<1>9. Byte(1) = 1 /\ Byte(-1) = m - 1
  <2>1. 1 \in 0..(m - 1) /\ -1 = m * (-1) + (m - 1) /\ m - 1 \in 0..(m - 1)
    BY <1>1
  <2>. QED  BY <1>3, <1>4, <2>1
<1>6. ASSUME NEW v \in 0..(m - 1), NEW w \in 0..(m - 1), NEW s \in {1, -1}
      PROVE  Byte(w - v) = Byte(s) <=> w = Byte(v + s)
  <2>2. Byte(w - v) = IF w >= v THEN w - v ELSE w - v + m
    <3>1. w >= v => w - v \in 0..(m - 1)
      BY <1>1
    <3>2. w < v => w - v = m * (-1) + (w - v + m) /\ w - v + m \in 0..(m - 1) /\ w - v \in Int
      BY <1>1
    <3>3. w >= v \/ w < v
      BY <1>1
    <3>. QED  BY <1>3, <1>4, <3>1, <3>2, <3>3
  <2>3. Byte(v + s) = IF v + s < 0 THEN m - 1 ELSE IF v + s = m THEN 0 ELSE v + s
    <3>1. CASE v + s < 0
      <4>1. v + s = m * (-1) + (m - 1) /\ m - 1 \in 0..(m - 1) /\ v + s \in Int
        BY <1>1, <3>1
      <4>. QED  BY <1>3, <3>1, <4>1
    <3>2. CASE v + s = m
      <4>1. v + s = m * 1 + 0 /\ 0 \in 0..(m - 1) /\ v + s \in Int /\ ~(v + s < 0)
        BY <1>1, <3>2
      <4>. QED  BY <1>3, <3>2, <4>1
    <3>3. CASE ~(v + s < 0) /\ v + s # m
      <4>1. v + s \in 0..(m - 1)
        BY <1>1, <3>3
      <4>. QED  BY <1>4, <3>3, <4>1
    <3>. QED  BY <3>1, <3>2, <3>3
  <2>4. w >= v \/ w < v
    BY <1>1
  <2>5. CASE s = 1
    BY <1>1, <1>9, <2>2, <2>3, <2>4, <2>5
  <2>6. CASE s = -1
    BY <1>1, <1>9, <2>2, <2>3, <2>4, <2>6
  <2>. QED  BY <2>5, <2>6
<1>7. \A x \in Int : Byte(x) \in ByteValues
  BY <1>1, <1>2
<1>8. \A x \in ByteValues : Byte(x) = x /\ x \in Int
  BY <1>1, <1>4
<1>. QED  BY <1>1, <1>5, <1>6, <1>7, <1>8, <1>9 DEF m

(* What is written from its first byte on, each a step further.            *)
LEMMA RunIs ==
  ASSUME NEW raw \in RawKeys, NEW s \in {-1, 0, 1}
  PROVE  (\E first \in ByteValues : raw = RunFrom(first, s))
           <=> \A i \in 1..(KeySize - 1) : raw[i + 1] = Byte(raw[i] + s)
<1>. DEFINE m == 2^ByteBits
<1>1. m \in Nat /\ m >= 2 /\ ByteValues = 0..(m - 1) /\ KeySize \in Nat /\ KeySize >= 2
  BY SizeOfByte, WeakKeysAssumption
<1>2. raw = [i \in 1..KeySize |-> raw[i]] /\ \A i \in 1..KeySize : raw[i] \in 0..(m - 1)
  BY <1>1 DEF RawKeys
<1>. HIDE DEF m
<1>3. ASSUME NEW first \in ByteValues, raw = RunFrom(first, s), NEW i \in 1..(KeySize - 1)
      PROVE  raw[i + 1] = Byte(raw[i] + s)
  <2>1. i \in 1..KeySize /\ i + 1 \in 1..KeySize /\ first \in Int /\ i - 1 \in Int
    BY <1>1
  <2>2. raw[i] = Byte(first + s * (i - 1)) /\ raw[i + 1] = Byte(first + s * (i + 1 - 1))
    BY <1>3, <2>1 DEF RunFrom, Byte
  <2>3. s * (i + 1 - 1) = s * (i - 1) + s /\ s * (i - 1) \in Int /\ s \in Int
    BY <2>1
  <2>. DEFINE x == first + s * (i - 1)
  <2>4. x \in Int /\ first + s * (i + 1 - 1) = x + s
    BY <2>1, <2>3
  <2>. HIDE DEF x
  <2>5. Byte(Byte(x) + s) = Byte(x + s)
    BY <1>1, <2>3, <2>4, BytesAre
  <2>. QED  BY <2>2, <2>4, <2>5 DEF x
<1>4. ASSUME \A i \in 1..(KeySize - 1) : raw[i + 1] = Byte(raw[i] + s)
      PROVE  raw[1] \in ByteValues /\ raw = RunFrom(raw[1], s)
  <2>. DEFINE first == raw[1]
              S == {n \in Nat : n < KeySize => raw[n + 1] = Byte(first + s * n)}
  <2>1. first \in 0..(m - 1) /\ first \in Int
    BY <1>1, <1>2
  <2>2. 0 \in S
    <3>1. first + s * 0 = first
      BY <2>1
    <3>2. Byte(first) = first
      BY <1>1, <2>1, BytesAre
    <3>. QED  BY <3>1, <3>2
  <2>3. ASSUME NEW n \in Nat, n \in S  PROVE n + 1 \in S
    <3>1. SUFFICES ASSUME n + 1 < KeySize  PROVE raw[n + 1 + 1] = Byte(first + s * (n + 1))
      OBVIOUS
    <3>2. n + 1 \in 1..(KeySize - 1) /\ raw[n + 1] = Byte(first + s * n)
      BY <1>1, <2>3, <3>1
    <3>3. raw[n + 1 + 1] = Byte(raw[n + 1] + s)
      BY <1>4, <3>2
    <3>. DEFINE x == first + s * n
    <3>4. x \in Int /\ s \in Int /\ first + s * (n + 1) = x + s
      BY <2>1
    <3>. HIDE DEF x
    <3>5. Byte(Byte(x) + s) = Byte(x + s)
      BY <1>1, <3>4, BytesAre
    <3>. QED  BY <3>2, <3>3, <3>4, <3>5 DEF x
  <2>4. Nat \subseteq S
    <3>. HIDE DEF S
    <3>. QED  BY <2>2, <2>3, ByInduction
  <2>5. ASSUME NEW i \in 1..KeySize  PROVE raw[i] = Byte(first + s * (i - 1))
    <3>1. i - 1 \in Nat /\ i - 1 < KeySize /\ (i - 1) + 1 = i
      BY <1>1
    <3>. QED  BY <2>4, <3>1
  <2>. QED  BY <1>1, <1>2, <2>1, <2>5 DEF RunFrom, Byte
<1>. QED  BY <1>3, <1>4 DEF m

(* A key each of whose bytes is a step from the one before.                *)
Steady(raw, s) == \A i \in 1..(KeySize - 1) : raw[i + 1] = Byte(raw[i] + s)

(* One distinct byte, or one distance, is such a step.                     *)
LEMMA RepeatedIs ==
  ASSUME NEW raw \in RawKeys
  PROVE  IsRepeatedByte(raw) <=> Steady(raw, 0)
<1>1. /\ DOMAIN raw = 1..KeySize /\ Len(raw) >= 2 /\ 1 \in 1..KeySize
      /\ \A i \in 1..KeySize : raw[i] \in ByteValues
  <2>1. DOMAIN raw = 1..KeySize /\ \A i \in 1..KeySize : raw[i] \in ByteValues
    BY DEF RawKeys
  <2>. QED  BY <2>1, WeightIs, WeakKeysAssumption
<1>2. IsRepeatedByte(raw) <=> \E x : Distinct(raw) = {x}
  <2>1. IsFiniteSet(ByteValues)
    BY SizeOfByte, FS_Interval
  <2>2. IsFiniteSet(Distinct(raw))
    <3>1. Distinct(raw) \in SUBSET ByteValues
      BY <1>1 DEF Distinct
    <3>. QED  BY <2>1, <3>1, FS_Subset
  <2>. QED  BY <1>1, <2>2, FS_Singleton DEF IsRepeatedByte
<1>3. ASSUME NEW x, Distinct(raw) = {x}  PROVE Steady(raw, 0)
  <2>1. \A i \in 1..KeySize : raw[i] = x
    BY <1>1, <1>3 DEF Distinct
  <2>2. x \in ByteValues
    BY <1>1, <2>1
  <2>3. Byte(x + 0) = x
    BY <2>2, BytesAre
  <2>4. \A i \in 1..(KeySize - 1) : i \in 1..KeySize /\ i + 1 \in 1..KeySize
    BY WeakKeysAssumption
  <2>. QED  BY <2>1, <2>3, <2>4 DEF Steady
<1>4. ASSUME Steady(raw, 0)  PROVE \E x : Distinct(raw) = {x}
  <2>1. PICK x \in ByteValues : raw = RunFrom(x, 0)
    BY <1>4, RunIs DEF Steady
  <2>2. x \in Int /\ Byte(x) = x
    BY BytesAre
  <2>3. \A i \in 1..KeySize : x + 0 * (i - 1) = x
    BY <2>2
  <2>4. \A i \in 1..KeySize : raw[i] = x
    BY <2>1, <2>2, <2>3 DEF RunFrom, Byte
  <2>5. Distinct(raw) = {x}
    BY <1>1, <2>4 DEF Distinct
  <2>. QED  BY <2>5
<1>. QED  BY <1>2, <1>3, <1>4

LEMMA MonotonicIs ==
  ASSUME NEW raw \in RawKeys
  PROVE  IsMonotonicRun(raw) <=> Steady(raw, 1) \/ Steady(raw, -1)
<1>. DEFINE deltas == {Byte(raw[i + 1] - raw[i]) : i \in 1..(KeySize - 1)}
<1>1. Len(raw) = KeySize /\ KeySize >= 2 /\ KeySize \in Nat
  BY WeightIs, WeakKeysAssumption
<1>2. IsMonotonicRun(raw) <=> deltas \in {{1}, {2^ByteBits - 1}}
  BY <1>1 DEF IsMonotonicRun, Byte
<1>3. Byte(1) = 1 /\ Byte(-1) = 2^ByteBits - 1
  BY BytesAre
<1>4. ASSUME NEW s \in {1, -1}
      PROVE  deltas = {Byte(s)} <=> Steady(raw, s)
  <2>1. 1 \in 1..(KeySize - 1)
    BY <1>1
  <2>2. deltas = {Byte(s)} <=> \A i \in 1..(KeySize - 1) : Byte(raw[i + 1] - raw[i]) = Byte(s)
    BY <2>1
  <2>3. \A i \in 1..(KeySize - 1) : raw[i] \in ByteValues /\ raw[i + 1] \in ByteValues
    BY <1>1 DEF RawKeys
  <2>4. \A i \in 1..(KeySize - 1) :
          Byte(raw[i + 1] - raw[i]) = Byte(s) <=> raw[i + 1] = Byte(raw[i] + s)
    BY <2>3, BytesAre
  <2>. HIDE DEF deltas
  <2>. QED  BY <2>2, <2>4 DEF Steady
<1>. HIDE DEF deltas
<1>5. deltas = {Byte(1)} <=> Steady(raw, 1)
  BY <1>4
<1>6. deltas = {Byte(-1)} <=> Steady(raw, -1)
  BY <1>4
<1>. QED  BY <1>2, <1>3, <1>5, <1>6

(* The three checks of the code find what nobody can trust.                *)
LEMMA UntrustedIs ==
  ASSUME NEW raw \in RawKeys
  PROVE  Untrusted(raw) <=> IsRepeatedByte(raw) \/ IsMonotonicRun(raw) \/ IsUnbalanced(raw)
<1>1. \A s \in {-1, 0, 1} : (\E first \in ByteValues : raw = RunFrom(first, s)) <=> Steady(raw, s)
  BY RunIs DEF Steady
<1>2. (\E first \in ByteValues, s \in {-1, 0, 1} : raw = RunFrom(first, s))
        <=> Steady(raw, -1) \/ Steady(raw, 0) \/ Steady(raw, 1)
  BY <1>1
<1>. QED  BY <1>2, RepeatedIs, MonotonicIs, UnbalancedIs DEF Untrusted

(* What is zero throughout is a degenerate point and a run.                *)
LEMMA ZerosAre ==
  ASSUME NEW raw \in RawKeys, IsAllZero(raw)
  PROVE  raw \in SmallOrder /\ IsRepeatedByte(raw)
<1>1. raw = [i \in 1..KeySize |-> 0]
  BY DEF RawKeys, IsAllZero
<1>2. Byte(0 + 0) = 0
  BY BytesAre, SizeOfByte
<1>3. \A i \in 1..(KeySize - 1) : i \in 1..KeySize /\ i + 1 \in 1..KeySize
  BY WeakKeysAssumption
<1>4. Steady(raw, 0)
  BY <1>1, <1>2, <1>3 DEF Steady
<1>. QED  BY <1>1, <1>4, RepeatedIs, WeakKeysAssumption

(* What no flag may authorize.                                             *)
Fatal(findings) == ~Overridable(findings)

(* What a single finding says.                                             *)
LEMMA WarningIs ==
  ASSUME NEW check
  PROVE  LET found == {[check |-> check, severity |-> "warning"]} IN ~Compromised(found) /\ ~Fatal(found)
BY DEF Compromised, Fatal, Overridable

LEMMA OneFinding ==
  ASSUME NEW check, NEW severity
  PROVE  LET found == {[check |-> check, severity |-> severity]} IN
         /\ Compromised(found) <=> severity = "critical"
         /\ Fatal(found) <=> severity = "critical" /\ check \in {"all zero", "small order"}
         /\ ~Compromised({}) /\ ~Fatal({})
BY DEF Compromised, Fatal, Overridable

(* What the structure of a key says of it: of all it finds, what           *)
(* compromises it, and what no flag may authorize.                         *)
LEMMA StructureIs ==
  ASSUME NEW raw \in RawKeys, NEW isPublic \in BOOLEAN
  PROVE  Compromised(StructuralFindings(raw, isPublic))
           <=> Untrusted(raw) \/ (isPublic /\ raw \in SmallOrder)
<1>. DEFINE A == FoundIf("all zero", "critical", IsAllZero(raw))
            B == FoundIf("small order", "critical", isPublic /\ raw \in SmallOrder)
            C == FoundIf("repeated byte", "critical", IsRepeatedByte(raw))
            D == FoundIf("monotonic", "critical", IsMonotonicRun(raw))
            E == FoundIf("low entropy", IF IsUnbalanced(raw) THEN "critical" ELSE "warning",
                         IsLowEntropy(raw))
<1>1. StructuralFindings(raw, isPublic) = A \cup B \cup C \cup D \cup E
  BY DEF StructuralFindings
<1>2. Compromised(A) <=> IsAllZero(raw)
  BY OneFinding DEF FoundIf
<1>3. Compromised(B) <=> isPublic /\ raw \in SmallOrder
  BY OneFinding DEF FoundIf
<1>4. Compromised(C) <=> IsRepeatedByte(raw)
  BY OneFinding DEF FoundIf
<1>5. Compromised(D) <=> IsMonotonicRun(raw)
  BY OneFinding DEF FoundIf
<1>6. Compromised(E) <=> IsUnbalanced(raw)
  <2>1. CASE IsUnbalanced(raw)
    <3>1. E = {[check |-> "low entropy", severity |-> "critical"]}
      BY <2>1 DEF FoundIf, IsLowEntropy
    <3>. HIDE DEF E
    <3>. QED  BY <2>1, <3>1, OneFinding
  <2>2. CASE ~IsUnbalanced(raw)
    <3>1. E = {[check |-> "low entropy", severity |-> "warning"]} \/ E = {}
      BY <2>2 DEF FoundIf
    <3>2. ~Compromised({[check |-> "low entropy", severity |-> "warning"]})
      BY WarningIs
    <3>3. ~Compromised({})
      BY DEF Compromised
    <3>. HIDE DEF E
    <3>. QED  BY <2>2, <3>1, <3>2, <3>3
  <2>. QED  BY <2>1, <2>2
<1>. HIDE DEF A, B, C, D, E
<1>7. Compromised(A \cup B \cup C \cup D \cup E)
        <=> Compromised(A) \/ Compromised(B) \/ Compromised(C) \/ Compromised(D) \/ Compromised(E)
  BY DEF Compromised
<1>8. IsAllZero(raw) => IsRepeatedByte(raw)
  BY ZerosAre
<1>. QED  BY <1>1, <1>2, <1>3, <1>4, <1>5, <1>6, <1>7, <1>8, UntrustedIs

LEMMA StructureHolds == StructureIsJudged
BY StructureIs DEF StructureIsJudged

LEMMA FatalStructure ==
  ASSUME NEW raw \in RawKeys, NEW isPublic \in BOOLEAN
  PROVE  Fatal(StructuralFindings(raw, isPublic))
           <=> IsAllZero(raw) \/ (isPublic /\ raw \in SmallOrder)
<1>. DEFINE A == FoundIf("all zero", "critical", IsAllZero(raw))
            B == FoundIf("small order", "critical", isPublic /\ raw \in SmallOrder)
            C == FoundIf("repeated byte", "critical", IsRepeatedByte(raw))
            D == FoundIf("monotonic", "critical", IsMonotonicRun(raw))
            E == FoundIf("low entropy", IF IsUnbalanced(raw) THEN "critical" ELSE "warning",
                         IsLowEntropy(raw))
<1>1. StructuralFindings(raw, isPublic) = A \cup B \cup C \cup D \cup E
  BY DEF StructuralFindings
<1>2. Fatal(A) <=> IsAllZero(raw)
  BY OneFinding DEF FoundIf
<1>3. Fatal(B) <=> isPublic /\ raw \in SmallOrder
  BY OneFinding DEF FoundIf
<1>4. ~Fatal(C) /\ ~Fatal(D) /\ ~Fatal(E)
  BY OneFinding DEF FoundIf
<1>. HIDE DEF A, B, C, D, E
<1>5. Fatal(A \cup B \cup C \cup D \cup E) <=> Fatal(A) \/ Fatal(B) \/ Fatal(C) \/ Fatal(D) \/ Fatal(E)
  BY DEF Fatal, Overridable
<1>. QED  BY <1>1, <1>2, <1>3, <1>4, <1>5

(* Of one key, where the degenerate points are blocked.                    *)
LEMMA KeyIs ==
  ASSUME NEW raw \in RawKeys \cup {Absent}, NEW isPublic \in BOOLEAN, NEW bad, SmallOrder \subseteq bad,
         Absent \notin RawKeys
  PROVE  /\ Compromised(AuditKey(raw, isPublic, bad)) <=> raw # Absent /\ (Untrusted(raw) \/ raw \in bad)
         /\ Fatal(AuditKey(raw, isPublic, bad))
              <=> raw # Absent /\ (IsAllZero(raw) \/ (isPublic /\ raw \in SmallOrder))
<1>1. CASE raw = Absent
  <2>1. AuditKey(raw, isPublic, bad) = {}
    BY <1>1 DEF AuditKey
  <2>. QED  BY <1>1, <2>1 DEF Compromised, Fatal, Overridable
<1>2. CASE raw # Absent
  <2>. DEFINE S == StructuralFindings(raw, isPublic)
              T == FoundIf("blocklist", "critical", raw \in bad)
  <2>1. AuditKey(raw, isPublic, bad) = S \cup T /\ raw \in RawKeys
    BY <1>2 DEF AuditKey
  <2>2. (Compromised(T) <=> raw \in bad) /\ ~Fatal(T)
    BY OneFinding DEF FoundIf
  <2>. HIDE DEF S, T
  <2>3. /\ Compromised(S \cup T) <=> Compromised(S) \/ Compromised(T)
        /\ Fatal(S \cup T) <=> Fatal(S) \/ Fatal(T)
    BY DEF Compromised, Fatal, Overridable
  <2>4. /\ Compromised(S) <=> Untrusted(raw) \/ (isPublic /\ raw \in SmallOrder)
        /\ Fatal(S) <=> IsAllZero(raw) \/ (isPublic /\ raw \in SmallOrder)
    BY <2>1, StructureIs, FatalStructure DEF S
  <2>. QED  BY <1>2, <2>1, <2>2, <2>3, <2>4
<1>. QED  BY <1>1, <1>2

(* An audit finds what is wrong with a node's keys, and nothing else.      *)
LEMMA AuditIs ==
  ASSUME NEW node \in Nodes, NEW bad, SmallOrder \subseteq bad
  PROVE  LET found == AuditNode(node, bad) IN
         /\ Compromised(found) <=>
              \/ \E raw \in {node.public, node.private} \ {Absent} : Untrusted(raw) \/ raw \in bad
              \/ Absent \notin {node.public, node.private} /\ PublicOf[node.private] # node.public
              \/ \E version \in VulnerableMin..(FixedMin - 1) : node.firmware = version
              \/ \E r \in DOMAIN node.fleet \ {node.ref} : node.fleet[r] = node.public
         /\ Fatal(found) <=>
              \/ node.private # Absent /\ IsAllZero(node.private)
              \/ node.public \in SmallOrder
<1>. DEFINE P == AuditKey(node.private, FALSE, bad)
            Q == AuditKey(node.public, TRUE, bad)
            R == FoundIf("consistency", "critical",
                   node.private # Absent /\ node.public # Absent /\ PublicOf[node.private] # node.public)
            S == FirmwareFindings(node.firmware)
            T == FoundIf("duplicate", "critical",
                   node.public # Absent /\ SameKeyAs(node.ref, node.public, node.fleet) # {})
<1>1. AuditNode(node, bad) = P \cup Q \cup R \cup S \cup T
  BY DEF AuditNode, AuditKeypair
<1>2. /\ node.private \in RawKeys \cup {Absent} /\ node.public \in RawKeys \cup {Absent}
      /\ Absent \notin RawKeys
  BY NodesAssumption
<1>3. /\ Compromised(P) <=> node.private # Absent /\ (Untrusted(node.private) \/ node.private \in bad)
      /\ Fatal(P) <=> node.private # Absent /\ IsAllZero(node.private)
  BY <1>2, KeyIs
<1>4. /\ Compromised(Q) <=> node.public # Absent /\ (Untrusted(node.public) \/ node.public \in bad)
      /\ Fatal(Q) <=> node.public # Absent /\ (IsAllZero(node.public) \/ node.public \in SmallOrder)
  BY <1>2, KeyIs
<1>5. /\ Compromised(R) <=>
           node.private # Absent /\ node.public # Absent /\ PublicOf[node.private] # node.public
      /\ ~Fatal(R)
  BY OneFinding DEF FoundIf
<1>6. /\ Compromised(S) <=> \E version \in VulnerableMin..(FixedMin - 1) : node.firmware = version
      /\ ~Fatal(S)
  <2>. DEFINE f == node.firmware
              cloned == \E version \in VulnerableMin..(FixedMin - 1) : f = version
  <2>1. /\ f \in Nat \cup {Absent, Unparsed} /\ Absent \notin Nat /\ Unparsed \notin Nat
        /\ VulnerableMin \in Nat /\ FixedMin \in Nat
    BY NodesAssumption, WeakKeysAssumption
  <2>2. \A version \in VulnerableMin..(FixedMin - 1) : version \in Nat
    BY <2>1
  <2>3. CASE f = Unparsed
    <3>1. S = {[check |-> "firmware", severity |-> "warning"]} /\ ~cloned
      BY <2>1, <2>2, <2>3 DEF FirmwareFindings, FoundIf
    <3>. HIDE DEF S, cloned
    <3>. QED  BY <3>1, WarningIs DEF cloned
  <2>4. CASE f = Absent /\ f # Unparsed
    <3>1. S = {} /\ ~cloned
      BY <2>1, <2>2, <2>4 DEF FirmwareFindings, FoundIf
    <3>. HIDE DEF S, cloned
    <3>. QED  BY <3>1, OneFinding DEF cloned
  <2>5. CASE f \in Nat
    <3>1. cloned <=> VulnerableMin <= f /\ f < FixedMin
      BY <2>1, <2>5
    <3>2. S = IF VulnerableMin <= f /\ f < FixedMin
              THEN {[check |-> "firmware", severity |-> "critical"]} ELSE {}
      BY <2>1, <2>5 DEF FirmwareFindings, FoundIf
    <3>3. S = IF cloned THEN {[check |-> "firmware", severity |-> "critical"]} ELSE {}
      BY <3>1, <3>2
    <3>. HIDE DEF S, cloned
    <3>. QED  BY <3>3, OneFinding DEF cloned
  <2>. QED  BY <2>1, <2>3, <2>4, <2>5
<1>7. /\ Compromised(T) <=> \E r \in DOMAIN node.fleet \ {node.ref} : node.fleet[r] = node.public
      /\ ~Fatal(T)
  <2>1. \A r \in DOMAIN node.fleet : node.fleet[r] # Absent
    BY NodesAssumption
  <2>2. (node.public # Absent /\ SameKeyAs(node.ref, node.public, node.fleet) # {})
          <=> \E r \in DOMAIN node.fleet \ {node.ref} : node.fleet[r] = node.public
    BY <2>1 DEF SameKeyAs
  <2>. QED  BY <2>2, OneFinding DEF FoundIf
<1>. HIDE DEF P, Q, R, S, T
<1>8. /\ Compromised(P \cup Q \cup R \cup S \cup T)
           <=> Compromised(P) \/ Compromised(Q) \/ Compromised(R) \/ Compromised(S) \/ Compromised(T)
      /\ Fatal(P \cup Q \cup R \cup S \cup T)
           <=> Fatal(P) \/ Fatal(Q) \/ Fatal(R) \/ Fatal(S) \/ Fatal(T)
  BY DEF Compromised, Fatal, Overridable
<1>9. /\ IsAllZero(node.public) /\ node.public # Absent => node.public \in SmallOrder
      /\ node.public \in SmallOrder => node.public # Absent
  BY <1>2, ZerosAre, WeakKeysAssumption
<1>. QED
  BY <1>1, <1>3, <1>4, <1>5, <1>6, <1>7, <1>8, <1>9

LEMMA KeyIsJudgedRight ==
  ASSUME audit.node \in Nodes, audit.findings = AuditNode(audit.node, audit.bad),
         SmallOrder \subseteq audit.bad
  PROVE  KeyIsJudged
BY AuditIs DEF KeyIsJudged, Fatal

-----------------------------------------------------------------------------
(* An audit that judges has found the duplicates that a look at the whole  *)
(* fleet finds, and blocks what the blocklist listed at some time since it *)
(* began, by way of whatever the process cached of files that an editor    *)
(* rewrote and deleted meanwhile, unless one came back to a time and a     *)
(* size it had had (crypto/known_bad_keys.py, crypto/weakkeys.py).         *)
THEOREM BlocklistIsCurrent ==
  AuditSpec => [](audit.step = "judged" => DuplicatesAgree /\ ListIsCurrent)
<1>1. ASSUME ListInv, audit.step = "judged"  PROVE DuplicatesAgree /\ ListIsCurrent
  <2>1. IsFiniteSet(DOMAIN audit.node.fleet) /\ ListIsCurrent
    BY <1>1, NodesAssumption DEF ListInv, JudgedRight
  <2>2. DuplicatesAgree
    BY <2>1, Sharers DEF DuplicatesAgree, SameKeyAs
  <2>. QED  BY <2>1, <2>2
<1>. QED  BY <1>1, ListInvariance, PTL

(* An audit that judges, of any node and any list, finds a key compromised *)
(* for what it is, what is blocked, its partner, its firmware or its fleet *)
(* and for nothing else, and lets no flag authorize what no private key    *)
(* can match; and of all keys the structure condemns the runs, those of    *)
(* too few or too many bits and the degenerate points, and no other        *)
(* (crypto/weakkeys.py).                                                   *)
THEOREM AuditsStayRight == AuditSpec => []AuditsAreRight
<1>1. ASSUME ListInv, audit.step = "judged"  PROVE KeyIsJudged /\ ListIsCurrent
  <2>1. /\ audit.node \in Nodes /\ audit.findings = AuditNode(audit.node, audit.bad)
        /\ ListIsCurrent
    BY <1>1 DEF ListInv, JudgedRight
  <2>2. SmallOrder \subseteq audit.bad
    BY <2>1 DEF ListIsCurrent
  <2>. QED  BY <2>1, <2>2, KeyIsJudgedRight
<1>2. ListInv /\ (audit.step = "judged" => DuplicatesAgree /\ ListIsCurrent) => AuditsAreRight
  BY <1>1, StructureHolds DEF AuditsAreRight
<1>. QED  BY <1>2, ListInvariance, BlocklistIsCurrent, PTL

(* The variables of an audit have their types (crypto/known_bad_keys.py). *)
THEOREM AuditTypeCorrect == AuditSpec => []AuditTypeOK
BY ListInvariance, PTL DEF ListInv
===============================================================================
