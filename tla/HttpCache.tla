------------------------------- MODULE HttpCache -------------------------------
(***************************************************************************)
(* The HTTP cache (cache/http.py) as the data sources call it              *)
(* (datasources/base.py): commands that share one cache directory look up  *)
(* an entry, fetch it with retries when it is not fresh, store it, and     *)
(* drop a body they cannot use.  A host that answers 429 is not asked      *)
(* again for a while: the instance remembers it, and a file without a lock *)
(* tells the others.                                                       *)
(*                                                                         *)
(* One URL of each host stands for all of them.  An entry or the file is   *)
(* replaced in one step (os.replace).  The clock only moves on, so the     *)
(* tests for a time in the future never bite; nor does the limit of 16     *)
(* hosts, the program asks fewer.  Redirects belong to their request.      *)
(* Nobody deletes the cool-down file by hand.                              *)
(***************************************************************************)
EXTENDS Naturals, FiniteSets

CONSTANTS
  Procs,        \* mesh commands that share a cache directory
  Hosts,
  TTL,          \* how long an entry stays fresh
  MaxRetries,   \* retries of one call
  Delays,       \* the Retry-After of a 429; one of them the default for none
  MaxCooldown,  \* _RATE_LIMIT_MAX_COOLDOWN_SECONDS
  MaxTime,      \* bounds the clock
  MaxFetches,   \* bounds the bodies received
  None          \* no entry

Statuses == {"ok", "accepted"}   \* 2xx, and one only some calls accept
Response == [nth : Nat, status : Statuses, at : Nat, usable : BOOLEAN]
ACall    == [host : Hosts, accept : BOOLEAN, attempt : 0..MaxRetries]
Zero     == [h \in Hosts |-> 0]

ASSUME HttpAssumption ==
  /\ TTL \in Nat /\ MaxRetries \in Nat /\ MaxCooldown \in Nat
  /\ MaxTime \in Nat /\ MaxFetches \in Nat /\ Delays \subseteq Nat
  /\ Hosts # {} /\ None \notin Response /\ None \notin ACall

VARIABLES
  now,      \* the clock
  entry,    \* the entry file of each host: a response or None
  file,     \* rate_limits.json: when each host's cool-down ends
  own,      \* _cooldown_until of each instance
  pc,       \* the step of each command
  call,     \* its call, or None: host, does it accept the other status, attempt
  resp,     \* the response it holds, or None
  seen,     \* the running cool-downs it read before it adds its own
  fetches,  \* how many bodies were received
  told,     \* for the record: the longest cool-down each instance was told
  kept,     \* the longest stored for each host, but for those lost to a race
  dropped   \* the bodies found unusable and evicted

vars == <<now, entry, file, own, pc, call, resp, seen, fetches, told, kept, dropped>>
memory == <<own, told>>
record == <<told, kept, dropped>>

MaxOf(a, b) == IF a > b THEN a ELSE b
MinOf(a, b) == IF a < b THEN a ELSE b
Goto(p, label) == pc' = [pc EXCEPT ![p] = label]
Host(p) == call[p].host

(* What a call asked for no longer matters once it is answered. *)
Plain(h)    == [host |-> h, accept |-> FALSE, attempt |-> 0]
Answered(p) == call' = [call EXCEPT ![p] = Plain(Host(p))]

(* The call returns or raises, and forgets. *)
End(p) ==
  /\ Goto(p, "idle")
  /\ call' = [call EXCEPT ![p] = None] /\ resp' = [resp EXCEPT ![p] = None]
  /\ seen' = [seen EXCEPT ![p] = Zero]

Init ==
  /\ now = 0 /\ fetches = 0 /\ dropped = {}
  /\ entry = [h \in Hosts |-> None] /\ file = Zero /\ kept = Zero
  /\ own = [p \in Procs |-> Zero] /\ told = [p \in Procs |-> Zero]
  /\ seen = [p \in Procs |-> Zero]
  /\ pc = [p \in Procs |-> "idle"]
  /\ call = [p \in Procs |-> None] /\ resp = [p \in Procs |-> None]

-----------------------------------------------------------------------------
(* request *)

Answers(status, accept) == status = "ok" \/ accept

IsFresh(r) == now - r.at <= TTL
Serves(h, accept) ==
  entry[h] # None /\ Answers(entry[h].status, accept) /\ IsFresh(entry[h])

(* A call with force_refresh misses whatever the entry. *)
Request(p, h, accept, label) ==
  /\ pc[p] = "idle"
  /\ call' = [call EXCEPT ![p] = [Plain(h) EXCEPT !.accept = accept]]
  /\ Goto(p, label)
  /\ UNCHANGED <<now, entry, file, memory, seen, fetches, kept, dropped>>

Hit(p, h, accept) ==
  /\ Serves(h, accept)
  /\ resp' = [resp EXCEPT ![p] = entry[h]]
  /\ Request(p, h, accept, "judging")

CoolingUntil(p, h) == MaxOf(own[p][h], file[h])

(* _refuse_while_rate_limited, and the first request: nothing waits from   *)
(* the lookup on.  A call that is refused changes nothing.                 *)
Ask(p, h, accept, refresh) ==
  /\ refresh \/ ~Serves(h, accept)
  /\ CoolingUntil(p, h) <= now
  /\ Request(p, h, accept, "waiting") /\ UNCHANGED resp

-----------------------------------------------------------------------------
(* _fetch_with_retry *)

MayRetry(n)     == n < MaxRetries

(* A 5xx or a transport error, and retries are left: _backoff. *)
Retry(p) ==
  /\ pc[p] = "waiting" /\ MayRetry(call[p].attempt)
  /\ call' = [call EXCEPT ![p].attempt = @ + 1]
  /\ Goto(p, "backing_off")
  /\ UNCHANGED <<now, entry, file, own, resp, seen, fetches, record>>

AskAgain(p) ==
  /\ pc[p] = "backing_off"
  /\ Goto(p, "waiting")
  /\ UNCHANGED <<now, entry, file, own, call, resp, seen, fetches, record>>

(* Any other error, or the last retry: a call may allow fewer. *)
GiveUp(p) ==
  /\ pc[p] = "waiting"
  /\ End(p)
  /\ UNCHANGED <<now, entry, file, own, fetches, record>>

Fetched(p) ==
  /\ pc[p] = "waiting" /\ fetches < MaxFetches
  /\ \E status \in Statuses, usable \in BOOLEAN :
       /\ Answers(status, call[p].accept)
       /\ resp' = [resp EXCEPT ![p] = [nth |-> fetches + 1, status |-> status,
                                       at |-> now, usable |-> usable]]
  /\ fetches' = fetches + 1
  /\ Goto(p, "storing")
  /\ Answered(p)
  /\ UNCHANGED <<now, entry, file, own, seen, record>>

(* _valid_cooldowns *)
Running(h) == IF file[h] > now THEN file[h] ELSE 0

(* _start_rate_limit_cooldown, to the read in _persist_cooldown. *)
RateLimited(p) ==
  /\ pc[p] = "waiting"
  /\ \E delay \in Delays :
       LET until == now + MinOf(delay, MaxCooldown) IN
       /\ own' = [own EXCEPT ![p][Host(p)] = until]
       /\ told' = [told EXCEPT ![p][Host(p)] = MaxOf(@, until)]
  /\ seen' = [seen EXCEPT ![p] = [h \in Hosts |-> Running(h)]]
  /\ Goto(p, "persisting")
  /\ Answered(p)
  /\ UNCHANGED <<now, entry, file, resp, fetches, kept, dropped>>

OnlyMine(p, h) == IF h = Host(p) THEN own[p][h] ELSE 0
Merged(p, h)   == IF h = Host(p) THEN MaxOf(own[p][h], seen[p][h]) ELSE seen[p][h]

(* What another instance stored between the read and the write is lost. *)
StillKept(p, h) == MinOf(kept[h], seen[p][h])

Persist(p) ==
  /\ pc[p] = "persisting"
  /\ file' = [h \in Hosts |-> Merged(p, h)]
  /\ kept' = [h \in Hosts |-> IF h = Host(p) THEN MaxOf(own[p][h], StillKept(p, h))
                              ELSE StillKept(p, h)]
  /\ End(p)
  /\ UNCHANGED <<now, entry, memory, fetches, dropped>>

(* write_json never raises. *)
PersistFails(p) ==
  /\ pc[p] = "persisting"
  /\ End(p)
  /\ UNCHANGED <<now, entry, file, own, fetches, record>>

-----------------------------------------------------------------------------
WriteEntry(p) ==
  /\ pc[p] = "storing"
  /\ entry' = [entry EXCEPT ![Host(p)] = resp[p]]
  /\ Goto(p, "judging")
  /\ UNCHANGED <<now, file, own, call, resp, seen, fetches, record>>

(* store=False, or the write failed: the response is returned all the same. *)
KeepNothing(p) ==
  /\ pc[p] = "storing"
  /\ Goto(p, "judging")
  /\ UNCHANGED <<now, entry, file, own, call, resp, seen, fetches, record>>

(* get_json: the body parses and is valid, or its entry is evicted. *)
UseBody(p) ==
  /\ pc[p] = "judging" /\ resp[p].usable
  /\ End(p)
  /\ UNCHANGED <<now, entry, file, own, fetches, record>>

Left(h)         == entry[h]
WithoutEntry(h) == None

Evict(p) ==
  /\ pc[p] = "judging" /\ ~resp[p].usable
  /\ entry' = [entry EXCEPT ![Host(p)] = WithoutEntry(Host(p))]
  /\ dropped' = dropped \cup {resp[p].nth}
  /\ End(p)
  /\ UNCHANGED <<now, file, memory, fetches, kept>>

(* evict never raises. *)
EvictFails(p) ==
  /\ pc[p] = "judging" /\ ~resp[p].usable
  /\ End(p)
  /\ UNCHANGED <<now, entry, file, own, fetches, record>>

-----------------------------------------------------------------------------
(* The command ends or is killed; the next one is a new instance. *)
Restart(p) ==
  /\ End(p)
  /\ own' = [own EXCEPT ![p] = Zero] /\ told' = [told EXCEPT ![p] = Zero]
  /\ UNCHANGED <<now, entry, file, fetches, kept, dropped>>

Tick ==
  /\ now < MaxTime /\ now' = now + 1
  /\ UNCHANGED <<entry, file, own, pc, call, resp, seen, fetches, record>>

(* An entry is deleted, or cannot be read: a call that finds it so misses  *)
(* and removes it, or what is there by then.                               *)
Lose(h) ==
  /\ entry[h] # None /\ entry' = [entry EXCEPT ![h] = None]
  /\ UNCHANGED <<now, file, own, pc, call, resp, seen, fetches, record>>

Call(p) ==
  \E h \in Hosts, accept \in BOOLEAN :
    \/ Hit(p, h, accept)
    \/ \E refresh \in BOOLEAN : Ask(p, h, accept, refresh)

Proceed(p) ==
  \/ Retry(p) \/ AskAgain(p) \/ GiveUp(p)
  \/ Fetched(p) \/ RateLimited(p) \/ Persist(p) \/ PersistFails(p)
  \/ WriteEntry(p) \/ KeepNothing(p) \/ UseBody(p)
  \/ Evict(p) \/ EvictFails(p)

Next ==
  \/ \E p \in Procs : Call(p) \/ Proceed(p) \/ Restart(p)
  \/ \E h \in Hosts : Lose(h)
  \/ Tick

Spec == Init /\ [][Next]_vars

-----------------------------------------------------------------------------
Labels == {"idle", "waiting", "backing_off", "persisting", "storing", "judging"}

TypeOK ==
  /\ now \in Nat /\ fetches \in Nat /\ dropped \subseteq Nat
  /\ entry \in [Hosts -> Response \cup {None}]
  /\ file \in [Hosts -> Nat] /\ kept \in [Hosts -> Nat]
  /\ own \in [Procs -> [Hosts -> Nat]] /\ told \in [Procs -> [Hosts -> Nat]]
  /\ seen \in [Procs -> [Hosts -> Nat]]
  /\ pc \in [Procs -> Labels] /\ resp \in [Procs -> Response \cup {None}]
  /\ call \in [Procs -> ACall \cup {None}]

Asks(p)  == pc[p] # "waiting" /\ pc'[p] = "waiting"
Hits(p)  == pc[p] = "idle" /\ pc'[p] = "judging"

(* A host that answered 429 is not asked again by the instance it told,    *)
(* in a call or a retry, even if the cool-down could not be stored; and no *)
(* call of any instance begins to ask it while a cool-down stored for it   *)
(* runs, across restarts and other hosts' 429s, unless it was lost to a    *)
(* race (_refuse_while_rate_limited, _persist_cooldown).        *)
CooldownHonoured ==
  [][\A p \in Procs : Asks(p) =>
       /\ told[p][call'[p].host] <= now
       /\ pc[p] = "idle" => kept[call'[p].host] <= now]_vars

(* What a call is served from the cache answers it, was fetched no longer  *)
(* than the TTL ago, and is no body that was evicted before: the write     *)
(* comes before the judgement, so a rejected body never comes back         *)
(* (request, get_json).                                                    *)
ServedIsUsable ==
  [][\A p \in Procs : Hits(p) =>
       /\ resp'[p].status = "ok" \/ call'[p].accept
       /\ now <= resp'[p].at + TTL
       /\ resp'[p].nth \notin dropped]_vars
=============================================================================
