------------------------------- MODULE NodeNames -------------------------------
(***************************************************************************)
(* The names nodes are given (name_pattern.py, db/nodes.py, allocate_names *)
(* in provisioning/pipeline.py): a pattern renders an index as a name, and *)
(* a run takes the first index whose name no active row uses, compared     *)
(* without regard to case.  Names also come in as they are, by adoption or *)
(* by hand; a row is archived and back; the template changes.              *)
(*                                                                         *)
(* A name is a sequence of characters, a pattern one of characters and     *)
(* slots.                                                                  *)
(***************************************************************************)
EXTENDS Integers, FiniteSets, SequencesExt

CONSTANTS
  NamedNodes,
  Slot,
  Folded,       \* each character without its case
  Schemes,      \* templates: a short and a long pattern and an alphabet
  OtherNames,   \* names nodes come with, pairs of a short and a long one
  MaxNamings    \* bounds the steps

ASSUME NodeNamesAssumption ==
  \A t \in Schemes :
    /\ Len(t.alphabet) > 0 /\ Slot \notin ToSet(t.alphabet)
    /\ \A m, n \in 1..Len(t.alphabet) :
         Folded[t.alphabet[m]] = Folded[t.alphabet[n]] => m = n  \* _validate_alphabet_case_folding

VARIABLES
  named,   \* the row of each node: its names, whether it is archived; or no row
  given,   \* the last allocation: by which scheme, to whom, what, beside which names
  namings

namesVars == <<named, given, namings>>

NoRow    == [row |-> "none"]
NotGiven == [of |-> "none"]

-----------------------------------------------------------------------------
(* PatternSpec *)
SlotsOf(pattern) == {n \in 1..Len(pattern) : pattern[n] = Slot}
Base(t) == Len(t.alphabet)
Capacity(t, pattern) == Base(t) ^ Cardinality(SlotsOf(pattern))

(* The slots after one give the weight of its digit. *)
Weight(t, pattern, n) == Base(t) ^ Cardinality({m \in SlotsOf(pattern) : m > n})

Render(t, pattern, index) ==
  [n \in 1..Len(pattern) |->
     IF n \in SlotsOf(pattern)
     THEN t.alphabet[((index \div Weight(t, pattern, n)) % Base(t)) + 1] ELSE pattern[n]]

Matches(t, pattern, name) ==
  /\ Len(name) = Len(pattern)
  /\ \A n \in 1..Len(name) :
       IF n \in SlotsOf(pattern) THEN name[n] \in ToSet(t.alphabet) ELSE name[n] = pattern[n]

(* parse_index of a name that matches. *)
ParseIndex(t, pattern, name) ==
  LET Part(n) == (CHOOSE d \in 1..Base(t) : t.alphabet[d] = name[n]) - 1
  IN FoldFunctionOnSet(+, 0, [n \in SlotsOf(pattern) |-> Part(n) * Weight(t, pattern, n)], SlotsOf(pattern))

-----------------------------------------------------------------------------
(* NodeRepository.used_short_names, used_long_names, find_next_free_name *)
Active == {i \in NamedNodes : named[i] # NoRow /\ ~named[i].archived}

Fold(name) == [n \in 1..Len(name) |-> Folded[name[n]]]

Used(which) == {named[i][which] : i \in Active}

(* As if names that differ in case differed.                               *)
FreeInCase(t, which) ==
  {index \in 0..(Capacity(t, t[which]) - 1) : Render(t, t[which], index) \notin Used(which)}

Free(t, which) ==
  LET taken == {Fold(name) : name \in Used(which)} IN
  {index \in 0..(Capacity(t, t[which]) - 1) : Fold(Render(t, t[which], index)) \notin taken}

(* ensure_capacity_available, or no index is free: both end alike.         *)
Exhausted(t, which) ==
  \/ Cardinality({name \in Used(which) : Matches(t, t[which], name)}) >= Capacity(t, t[which])
  \/ Free(t, which) = {}

NextFree(t, which) == CHOOSE index \in Free(t, which) : \A other \in Free(t, which) : index <= other

(* allocate_names *)
Keeps(t, i) == named[i] # NoRow /\ Matches(t, t.short, named[i].short) /\ Matches(t, t.long, named[i].long)

LongIndexFits(t, index) ==
  index < Capacity(t, t.long) /\ index \in Free(t, "long")

AllocatedNames(t) ==
  LET index == NextFree(t, "short")
  IN <<Render(t, t.short, index),
       Render(t, t.long, IF LongIndexFits(t, index) THEN index ELSE NextFree(t, "long"))>>

Refusal(t) ==
  Exhausted(t, "short") \/ (~LongIndexFits(t, NextFree(t, "short")) /\ Exhausted(t, "long"))

(* `mesh provision` of a new node, or with --rename; not of an archived.   *)
Allocate(t, i) ==
  /\ named[i] # NoRow => ~named[i].archived
  /\ namings < MaxNamings /\ namings' = namings + 1
  /\ LET beside == [short |-> Used("short"), long |-> Used("long")] IN
     IF Keeps(t, i)
     THEN /\ given' = [of |-> i, by |-> t, kept |-> TRUE, refused |-> FALSE, beside |-> beside]
          /\ UNCHANGED named
     ELSE IF Refusal(t)
     THEN /\ given' = [of |-> i, by |-> t, kept |-> FALSE, refused |-> TRUE, beside |-> beside]
          /\ UNCHANGED named
     ELSE /\ given' = [of |-> i, by |-> t, kept |-> FALSE, refused |-> FALSE, beside |-> beside]
          /\ named' = [named EXCEPT ![i] =
               [short |-> AllocatedNames(t)[1], long |-> AllocatedNames(t)[2], archived |-> FALSE]]

(* A row by `mesh adopt`, or edited by hand. *)
ComesNamed(i, names) ==
  /\ namings < MaxNamings /\ namings' = namings + 1
  /\ named' = [named EXCEPT ![i] = [short |-> names[1], long |-> names[2], archived |-> FALSE]]
  /\ given' = NotGiven

(* `mesh db forget`; the way back is by hand. *)
Archive(i, whether) ==
  /\ named[i] # NoRow /\ named[i].archived # whether
  /\ namings < MaxNamings /\ namings' = namings + 1
  /\ named' = [named EXCEPT ![i].archived = whether]
  /\ given' = NotGiven

NamesInit == named = [i \in NamedNodes |-> NoRow] /\ given = NotGiven /\ namings = 0

NamesNext ==
  \E i \in NamedNodes :
    \/ \E t \in Schemes : Allocate(t, i)
    \/ \E names \in OtherNames : ComesNamed(i, names)
    \/ \E whether \in BOOLEAN : Archive(i, whether)

-----------------------------------------------------------------------------
(* Every index has its name and every name its index, also without regard  *)
(* to case: what a pattern counts as its capacity it can give.             *)
PatternsAreExact ==
  \A t \in Schemes : \A which \in {"short", "long"} :
    LET indices == 0..(Capacity(t, t[which]) - 1)
        names   == {Render(t, t[which], index) : index \in indices}
    IN /\ Cardinality({Fold(name) : name \in names}) = Cardinality(indices)
       /\ \A index \in indices :
            /\ Matches(t, t[which], Render(t, t[which], index))
            /\ ParseIndex(t, t[which], Render(t, t[which], index)) = index

(* No name is given that an active row has in any case, and none refused   *)
(* while the patterns still have one nobody has; a node that already has   *)
(* names of the patterns keeps them.                                       *)
NamesAreFree ==
  given # NotGiven =>
    LET t == given.by
        Left(which) == {index \in 0..(Capacity(t, t[which]) - 1) :
          \A name \in given.beside[which] :
            Fold(name) # Fold(Render(t, t[which], index))}
    IN /\ given.refused => Left("short") = {} \/ Left("long") = {}
       /\ ~given.refused /\ ~given.kept => \A which \in {"short", "long"} :
            /\ \A name \in given.beside[which] : Fold(name) # Fold(named[given.of][which])
            /\ Matches(t, t[which], named[given.of][which])

NamesAreRight == PatternsAreExact /\ NamesAreFree
=============================================================================
