------------------------------ MODULE RegionList ------------------------------
(***************************************************************************)
(* The list of the regions that are searched for a node                    *)
(* (datasources/lorastats_regions.py): kept in a file that every `mesh`    *)
(* command without configured regions reads, and read anew from a page of  *)
(* lorastats.pl that is to be requested as seldom as can be: a list serves *)
(* a week, and after a failed request the page is left alone for a day.    *)
(* Nothing locks the file.                                                 *)
(***************************************************************************)
EXTENDS Integers, RegionSearch

CONSTANTS
  Readers,  \* the commands at work at once
  Week,     \* REGION_LIST_TTL_SECONDS
  Day,      \* REGION_LIST_RETRY_SECONDS
  LastDay,  \* bounds the clock
  Unset     \* no list, no time

ASSUME RegionListAssumption ==
  Readers # {} /\ {Week, Day, LastDay} \subseteq Nat /\ Unset \notin Nat

VARIABLES
  day,
  list,    \* the file: when its list was fetched, when a request failed
  place,   \* the step of each reader
  held,    \* the file it read, and when
  tries,   \* for the record: when a request last named the regions, or failed
  crossed, \* that a reader wrote over what it had not read
  nagged   \* that the page was requested within a day or a week of one

listVars == <<day, list, place, held, tries, crossed, nagged>>

NoList  == [fetched |-> Unset, tried |-> Unset]
NotHeld == [file |-> NoList, day |-> 0]

(* _recent; the clock never runs back. *)
Recent(then, window) == then # Unset /\ day - window <= then

ListInit ==
  /\ day = 0 /\ list = NoList /\ tries = NoList /\ crossed = FALSE /\ nagged = FALSE
  /\ place = [r \in Readers |-> "out"] /\ held = [r \in Readers |-> NotHeld]

TriedLately == Recent(list.tried, Day)

(* RegionList._load: unless the file serves, the page is requested.        *)
Request(r, forced) ==
  /\ place[r] = "out"
  /\ ~forced => ~Recent(list.fetched, Week) /\ ~TriedLately
  /\ held' = [held EXCEPT ![r] = [file |-> list, day |-> day]]
  /\ place' = [place EXCEPT ![r] = "asking"]
  /\ nagged' = (nagged \/ (~forced /\ (Recent(tries.fetched, Week) \/ Recent(tries.tried, Day))))
  /\ UNCHANGED <<day, list, tries, crossed>>

Answered(r) ==
  /\ place[r] = "asking"
  /\ place' = [place EXCEPT ![r] = "out"]
  /\ held' = [held EXCEPT ![r] = NotHeld]
  /\ UNCHANGED <<day, nagged>>

Listed(r) ==
  /\ Answered(r)
  /\ list' = [fetched |-> held[r].day, tried |-> Unset]
  /\ tries' = [fetched |-> held[r].day, tried |-> Unset]
  /\ crossed' = (crossed \/ list # held[r].file)

Tried(r) == [held[r].file EXCEPT !.tried = held[r].day]

Failed(r) ==
  /\ Answered(r)
  /\ list' = Tried(r)
  /\ tries' = [tries EXCEPT !.tried = held[r].day]
  /\ crossed' = (crossed \/ list # held[r].file)

(* Refused for the sake of another process's 429, killed, or the file      *)
(* could not be written: nothing is recorded.                              *)
Unrecorded(r) == Answered(r) /\ UNCHANGED <<list, tries, crossed>>

NextDay ==
  /\ day < LastDay
  /\ day' = day + 1
  /\ UNCHANGED <<list, place, held, tries, crossed, nagged>>

ListNext ==
  \/ \E r \in Readers : \/ (\E forced \in BOOLEAN : Request(r, forced))
                        \/ Listed(r) \/ Failed(r) \/ Unrecorded(r)
  \/ NextDay

ListSpec == ListInit /\ [][ListNext]_listVars

-----------------------------------------------------------------------------
(* Unless two readers cross, the page is not requested within a week of a  *)
(* request that named the regions, nor within a day of one that failed,    *)
(* but where --refresh-regions asks for it; and the file keeps the latest  *)
(* list through every failure.                                             *)
ListIsSpared == ~crossed => ~nagged /\ list = tries

(* The page is never requested within a week of a request that named the   *)
(* regions, nor within a day of one that failed: "at most once per" week,  *)
(* and "not again for" a day "by any process", says datasources/           *)
(* lorastats_regions.py.  A reader whose request fails writes the file it  *)
(* had read over the list another has stored meanwhile.                    *)
PageIsSpared == ~nagged

(* What is asked of lorastats, and how often, to find a region: a search   *)
(* ends at the freshest record, and the list's page is spared.             *)
RegionsAreAsked == SearchIsRight /\ ListIsSpared
=============================================================================
