----------------------------- MODULE Hours_proofs -----------------------------
(***************************************************************************)
(* Lemmas about module Hours, for hours, days and retentions of any        *)
(* length: what floor_hour does, that every operation on stored hours      *)
(* keeps them true - and that the answer of lorastats makes true ones -    *)
(* and how many hours are left when the oldest are dropped.                *)
(***************************************************************************)
EXTENDS Hours, FiniteSetTheorems, WellFoundedInduction, TLAPS

Aligned(h) == \E k \in Int : h = k * HourTicks

LEMMA Ticks == HourTicks \in Nat /\ HourTicks > 0
BY HoursAssumption

LEMMA Multiples ==
  ASSUME NEW j \in Int, NEW k \in Int, j <= k
  PROVE  j * HourTicks <= k * HourTicks
BY Ticks

LEMMA NextMultiple ==
  ASSUME NEW k \in Int
  PROVE  (k + 1) * HourTicks = k * HourTicks + HourTicks /\ k * HourTicks \in Int
BY Ticks

(* floor_hour: the first tick of the hour a time is in.                    *)
LEMMA FloorHourIs ==
  ASSUME NEW t \in Int
  PROVE  /\ FloorHour(t) \in Int /\ Aligned(FloorHour(t))
         /\ FloorHour(t) <= t /\ t < FloorHour(t) + HourTicks
BY Ticks DEF FloorHour, Aligned

LEMMA HoursApart ==
  ASSUME NEW g, NEW h, Aligned(g), Aligned(h), g < h
  PROVE  g + HourTicks <= h /\ g \in Int /\ h \in Int
<1>1. PICK j \in Int : g = j * HourTicks
  BY DEF Aligned
<1>2. PICK k \in Int : h = k * HourTicks
  BY DEF Aligned
<1>3. j < k
  BY <1>1, <1>2, Multiples
<1>4. (j + 1) * HourTicks <= k * HourTicks
  BY <1>3, Multiples
<1>. QED  BY <1>1, <1>2, <1>4, NextMultiple

LEMMA SameHour ==
  ASSUME NEW h, Aligned(h), NEW t \in Int, h <= t, t < h + HourTicks
  PROVE  FloorHour(t) = h
<1>1. h \in Int
  BY Ticks DEF Aligned
<1>2. ~(FloorHour(t) < h)
  BY <1>1, HoursApart, FloorHourIs, Ticks
<1>3. ~(h < FloorHour(t))
  BY <1>1, HoursApart, FloorHourIs, Ticks
<1>. QED  BY <1>1, <1>2, <1>3, FloorHourIs

LEMMA NotBefore ==
  ASSUME NEW h, Aligned(h), NEW t \in Int
  PROVE  /\ h \in Int
         /\ h <= t => h <= FloorHour(t)
         /\ h < FloorHour(t) => h + HourTicks <= t
<1>1. h \in Int
  BY Ticks DEF Aligned
<1>2. ASSUME h <= t  PROVE h <= FloorHour(t)
  <2>1. SUFFICES ASSUME FloorHour(t) < h  PROVE FALSE
    BY <1>1, FloorHourIs
  <2>2. FloorHour(t) + HourTicks <= h
    BY <2>1, HoursApart, FloorHourIs
  <2>. QED  BY <1>1, <1>2, <2>2, FloorHourIs, Ticks
<1>3. ASSUME h < FloorHour(t)  PROVE h + HourTicks <= t
  <2>1. h + HourTicks <= FloorHour(t)
    BY <1>3, HoursApart, FloorHourIs
  <2>. QED  BY <1>1, <2>1, FloorHourIs, Ticks
<1>. QED  BY <1>1, <1>2, <1>3

LEMMA FloorHourMoves ==
  ASSUME NEW s \in Int, NEW t \in Int, s <= t
  PROVE  FloorHour(s) <= FloorHour(t)
BY NotBefore, FloorHourIs

LEMMA AlignedMoves ==
  ASSUME NEW h, Aligned(h)
  PROVE  Aligned(h + HourTicks) /\ Aligned(h - HourTicks)
<1>1. PICK k \in Int : h = k * HourTicks
  BY DEF Aligned
<1>2. h + HourTicks = (k + 1) * HourTicks /\ h - HourTicks = (k - 1) * HourTicks
  BY <1>1, Ticks
<1>. QED  BY <1>2 DEF Aligned

LEMMA ZeroIsAligned == Aligned(0)
BY Ticks DEF Aligned

LEMMA HourStartsAre ==
  ASSUME NEW h \in HourStarts
  PROVE  Aligned(h) /\ h \in Time /\ h \in Nat
<1>1. PICK t \in Time : h = FloorHour(t)
  BY DEF HourStarts
<1>2. 0 <= FloorHour(t)
  BY NotBefore, ZeroIsAligned DEF Time
<1>3. FloorHour(t) \in Int /\ FloorHour(t) <= t /\ Aligned(FloorHour(t))
  BY FloorHourIs DEF Time
<1>. QED  BY <1>1, <1>2, <1>3, HoursAssumption DEF Time

(* The earliest of some times, as the code finds it with min.              *)
LEMMA Earliest ==
  ASSUME NEW S \in SUBSET Nat, S # {}
  PROVE  LET m == CHOOSE t \in S : \A u \in S : t <= u IN m \in S /\ \A u \in S : m <= u
<1>. DEFINE R == {e \in Nat \X Nat : e[1] < e[2]}
<1>1. IsWellFoundedOn(R, Nat)
  BY NatLessThanWellFounded DEF OpToRel
<1>2. PICK m \in S : \A u \in S : <<u, m>> \notin R
  <2>. HIDE DEF R
  <2>. QED  BY <1>1, WFMin
<1>3. \A u \in S : u < m => <<u, m>> \in R
  OBVIOUS
<1>4. ASSUME NEW u \in S  PROVE m <= u
  <2>1. ~(u < m)
    <3>. HIDE DEF R
    <3>. QED  BY <1>2, <1>3
  <2>2. u \in Nat /\ m \in Nat
    OBVIOUS
  <2>. QED  BY <2>1, <2>2
<1>. QED  BY <1>4

-----------------------------------------------------------------------------
(* What a stored hour may say at a time: all that was heard in it until it *)
(* was asked for, which is not in the future.                              *)
Right(h, bucket, traffic, now) ==
  /\ h <= bucket.asof /\ bucket.asof <= now
  /\ bucket.seen = {t \in traffic \cap InHour(h) : t <= bucket.asof}

Sound(hours, traffic, now) == \A h \in Stored(hours) : Right(h, hours[h], traffic, now)

(* lorastats deletes whole hours, and none of the assumed retention.       *)
GoneBy(gone, now) ==
  /\ gone \in Nat /\ Aligned(gone)
  /\ gone = 0 \/ gone <= FloorHour(now - Assumed) + HourTicks

LEMMA NoneIsNoBucket == None \notin Nat /\ None \notin Time
BY HoursAssumption DEF Time

LEMMA StoredIs ==
  ASSUME NEW hours \in HoursType, NEW h \in HourStarts, hours[h] # None
  PROVE  h \in Stored(hours) /\ hours[h] \in Bucket
BY DEF HoursType, Stored

(* A true hour stays true as time goes on.                                 *)
LEMMA SoundLater ==
  ASSUME NEW hours \in HoursType, NEW traffic, NEW now \in Int, NEW then \in Int,
         now <= then, Sound(hours, traffic, now)
  PROVE  Sound(hours, traffic, then)
BY DEF Sound, Right, Stored, HoursType, Bucket, Time

(* True hours are true, in the words of the model.                         *)
LEMMA SoundIsTrue ==
  ASSUME NEW hours \in HoursType, NEW traffic \in SUBSET Time, NEW now \in Time,
         Sound(hours, traffic, now)
  PROVE  IsTrue(hours, {t \in traffic : t <= now})
BY DEF Sound, Right, IsTrue, Stored, HoursType, Bucket, Time

LEMMA NoHoursAreSound ==
  ASSUME NEW traffic, NEW now
  PROVE  NoHours \in HoursType /\ Stored(NoHours) = {} /\ Sound(NoHours, traffic, now)
BY DEF NoHours, HoursType, Stored, Sound

LEMMA MergeIsSound ==
  ASSUME NEW old \in HoursType, NEW new \in HoursType, NEW traffic, NEW now,
         Sound(old, traffic, now), Sound(new, traffic, now)
  PROVE  /\ Merge(old, new) \in HoursType
         /\ Sound(Merge(old, new), traffic, now)
         /\ \A h \in Stored(new) : Merge(old, new)[h] = new[h]
<1>1. Merge(old, new) \in HoursType
  BY DEF HoursType, Merge
<1>2. \A h \in HourStarts : Merge(old, new)[h] = IF new[h] # None THEN new[h] ELSE old[h]
  BY DEF Merge
<1>. QED  BY <1>1, <1>2 DEF Stored, Sound

LEMMA PruneIsSound ==
  ASSUME NEW hours \in HoursType, NEW traffic, NEW now, NEW then, Sound(hours, traffic, now)
  PROVE  /\ Prune(hours, then) \in HoursType
         /\ Sound(Prune(hours, then), traffic, now)
         /\ \A h \in HourStarts :
              Prune(hours, then)[h] = IF InRetention(h, then) THEN hours[h] ELSE None
<1>1. Prune(hours, then) \in HoursType
  BY DEF HoursType, Prune
<1>2. \A h \in HourStarts :
        Prune(hours, then)[h] = IF InRetention(h, then) THEN hours[h] ELSE None
  BY DEF Prune
<1>. QED  BY <1>1, <1>2 DEF Stored, Sound

LEMMA DropIsSound ==
  ASSUME NEW hours \in HoursType, NEW traffic, NEW now, NEW n, Sound(hours, traffic, now)
  PROVE  /\ DropOldest(hours, n) \in HoursType
         /\ Sound(DropOldest(hours, n), traffic, now)
         /\ \A h \in HourStarts : DropOldest(hours, n)[h] \in {None, hours[h]}
<1>1. DropOldest(hours, n) \in HoursType
  BY DEF HoursType, DropOldest
<1>2. \A h \in HourStarts : DropOldest(hours, n)[h] \in {None, hours[h]}
  BY DEF DropOldest
<1>. QED  BY <1>1, <1>2 DEF Stored, Sound

(* The hours an answer speaks for are hours lorastats still held, from     *)
(* where it was asked on (answered_hours).                                 *)
LEMMA AnsweredAreHeld ==
  ASSUME NEW at \in Time, NEW gone, GoneBy(gone, at), NEW heard \in SUBSET Time,
         NEW since \in Nat \cup {None}, NEW h \in HourStarts,
         h \in AnsweredHours(Answer(heard, gone, Asked(since)), since, at)
  PROVE  gone <= h /\ (since # None => since <= h) /\ h <= FloorHour(at)
<1>. DEFINE rows       == Answer(heard, gone, Asked(since))
            firstHeard == FloorHour(CHOOSE t \in rows : \A u \in rows : t <= u)
            held       == FloorHour(at - Assumed) + HourTicks
<1>1. FirstAnswered(rows, since, at) <= h /\ h <= FloorHour(at) /\ h \in Nat
  BY HourStartsAre DEF AnsweredHours
<1>2. gone \in Nat /\ Aligned(gone) /\ (gone = 0 \/ gone <= held)
  BY DEF GoneBy
<1>3. /\ FloorHour(at) \in Int /\ held \in Int
      /\ HourTicks \in Nat /\ HourTicks > 0
  BY FloorHourIs, Ticks, HoursAssumption DEF Time
<1>4. ASSUME rows # {}
      PROVE  firstHeard \in Int /\ gone <= firstHeard
  <2>1. rows \in SUBSET Nat
    <3>1. Time \subseteq Nat /\ rows \subseteq heard
      BY DEF Answer, Time
    <3>. QED  BY <3>1
  <2>2. PICK m \in rows : m = CHOOSE t \in rows : \A u \in rows : t <= u
    BY <1>4, <2>1, Earliest
  <2>3. m \in Nat /\ gone <= m
    BY <2>1, <2>2 DEF Answer
  <2>. QED  BY <1>2, <2>2, <2>3, NotBefore, FloorHourIs
<1>5. CASE since = None
  <2>1. rows # {}
    BY <1>1, <1>3, <1>5 DEF FirstAnswered
  <2>2. firstHeard <= h
    BY <1>1, <1>5, <2>1 DEF FirstAnswered
  <2>. QED  BY <1>1, <1>2, <1>4, <1>5, <2>1, <2>2
<1>6. CASE since # None
  <2>. DEFINE from == IF rows = {} THEN held ELSE Earlier(held, firstHeard)
  <2>1. since \in Nat /\ from \in Int /\ (gone = 0 \/ gone <= from)
    BY <1>2, <1>3, <1>4, <1>6 DEF Earlier
  <2>2. (IF since >= from THEN since ELSE from) <= h
    BY <1>1, <1>6 DEF FirstAnswered
  <2>. HIDE DEF from
  <2>. QED  BY <1>1, <1>2, <2>1, <2>2
<1>. QED  BY <1>5, <1>6

(* A refresh's hours bear the time it asked.                               *)
LEMMA SummaryBears ==
  ASSUME NEW rows, NEW since, NEW now, NEW h \in Stored(Summarize(rows, since, now))
  PROVE  Summarize(rows, since, now)[h].asof = now
BY DEF Summarize, Stored

(* A refresh's hours hold all that was heard in them so far: none is half  *)
(* asked for, and none half deleted.                                       *)
LEMMA SummaryIsSound ==
  ASSUME NEW now \in Time, NEW gone, GoneBy(gone, now), NEW traffic \in SUBSET Time,
         NEW heard, heard = {t \in traffic : t <= now},
         NEW since \in Nat \cup {None}, since # None => Aligned(since)
  PROVE  LET new == Summarize(Answer(heard, gone, Asked(since)), since, now) IN
         /\ new \in HoursType /\ Sound(new, traffic, now)
         /\ \A h \in Stored(new) : new[h].asof = now
<1>. DEFINE new  == Summarize(Answer(heard, gone, Asked(since)), since, now)
            rows == Answer(heard, gone, Asked(since))
            kept == IF since = None THEN rows ELSE {t \in rows : t >= since}
            hours == {FloorHour(t) : t \in kept} \cup AnsweredHours(rows, since, now)
<1>0. /\ Time \subseteq Nat /\ heard \subseteq Time /\ now \in Nat /\ gone \in Nat
      /\ HourTicks \in Nat
  <2>1. Time \subseteq Nat /\ now \in Nat
    BY HoursAssumption DEF Time
  <2>2. heard \subseteq Time
    OBVIOUS
  <2>. QED  BY <2>1, <2>2, Ticks DEF GoneBy
<1>1. \A t : t \in kept <=> t \in heard /\ t >= gone /\ (since # None => t >= since)
  <2>1. rows = {t \in heard : t >= gone /\ t >= Asked(since)}
    BY DEF Answer
  <2>. HIDE DEF rows
  <2>2. CASE since = None
    <3>1. kept = rows /\ Asked(since) = 0
      BY <2>2 DEF Asked
    <3>2. \A t \in heard : t >= Asked(since)
      BY <1>0, <3>1
    <3>. HIDE DEF kept
    <3>. QED  BY <2>1, <2>2, <3>1, <3>2
  <2>3. CASE since # None
    <3>1. since \in Nat /\ Asked(since) = since - HourTicks
      BY <2>3 DEF Asked
    <3>2. \A t \in Nat : t >= since => t >= Asked(since)
      BY <1>0, <3>1
    <3>3. kept = {t \in rows : t >= since}
      BY <2>3
    <3>. HIDE DEF kept
    <3>. QED  BY <1>0, <2>1, <2>3, <3>2, <3>3
  <2>. QED  BY <2>2, <2>3
<1>2. heard \subseteq Time /\ kept \subseteq Time
  BY <1>1
<1>3. gone \in Nat /\ Aligned(gone)
  BY DEF GoneBy
<1>4. ASSUME NEW h \in HourStarts, h \in hours
      PROVE  gone <= h /\ (since # None => since <= h) /\ h <= FloorHour(now)
  <2>1. CASE h \in AnsweredHours(rows, since, now)
    BY <1>2, <2>1, AnsweredAreHeld
  <2>2. CASE h \in {FloorHour(t) : t \in kept}
    <3>1. PICK t \in kept : h = FloorHour(t)
      BY <2>2
    <3>2. t \in Nat /\ now \in Nat /\ t <= now
      BY <1>1, <1>2 DEF Time
    <3>3. gone <= h
      BY <1>1, <1>3, <3>1, <3>2, NotBefore
    <3>4. since # None => since <= h
      BY <1>1, <3>1, <3>2, NotBefore
    <3>5. h <= FloorHour(now)
      BY <3>1, <3>2, FloorHourMoves
    <3>. QED  BY <3>3, <3>4, <3>5
  <2>. QED  BY <1>4, <2>1, <2>2
<1>. HIDE DEF hours
<1>5. new = [h \in HourStarts |-> IF h \in hours THEN [seen |-> kept \cap InHour(h), asof |-> now]
                                 ELSE None]
  BY DEF Summarize, hours
<1>. HIDE DEF kept, rows, new
<1>6. new \in HoursType
  BY <1>2, <1>5 DEF HoursType, Bucket
<1>7. \A h \in Stored(new) : /\ h \in HourStarts /\ h \in hours
                             /\ new[h].seen = kept \cap InHour(h) /\ new[h].asof = now
  <2>1. SUFFICES ASSUME NEW h \in HourStarts, new[h] # None
                 PROVE  h \in hours /\ new[h].seen = kept \cap InHour(h) /\ new[h].asof = now
    BY DEF Stored
  <2>2. h \in hours
    BY <1>5, <2>1
  <2>3. new[h] = [seen |-> kept \cap InHour(h), asof |-> now]
    BY <1>5, <2>2
  <2>. QED  BY <2>2, <2>3
<1>8. ASSUME NEW h \in Stored(new)
      PROVE  Right(h, new[h], traffic, now) /\ new[h].asof = now
  <2>0. h \in HourStarts /\ h \in hours /\ h \in Nat
    BY <1>7, HourStartsAre
  <2>1. h \in Nat /\ gone <= h /\ (since # None => since <= h) /\ h <= now
    BY <1>4, <2>0, FloorHourIs DEF Time
  <2>2. \A t \in InHour(h) : t \in kept <=> t \in traffic /\ t <= now
    BY <1>1, <1>3, <2>1, Ticks DEF InHour
  <2>3. new[h].seen = kept \cap InHour(h) /\ new[h].asof = now
    BY <1>7
  <2>4. new[h].seen = {t \in traffic \cap InHour(h) : t <= new[h].asof}
    BY <2>2, <2>3
  <2>. QED  BY <1>0, <2>1, <2>3, <2>4 DEF Right
<1>9. Sound(new, traffic, now) /\ \A h \in Stored(new) : new[h].asof = now
  BY <1>8 DEF Sound
<1>. QED  BY <1>6, <1>9 DEF new

-----------------------------------------------------------------------------
LEMMA SubsetCounts ==
  ASSUME NEW S, IsFiniteSet(S), NEW T \in SUBSET S
  PROVE  /\ IsFiniteSet(T) /\ Cardinality(T) \in Nat /\ Cardinality(S) \in Nat
         /\ Cardinality(T) <= Cardinality(S)
BY FS_Subset, FS_CardinalityType

LEMMA HourStartsAreFinite == IsFiniteSet(HourStarts)
<1>1. IsFiniteSet(0..MaxTime)
  BY FS_Interval, HoursAssumption
<1>2. HourStarts \in SUBSET (0..MaxTime)
  BY HourStartsAre DEF Time
<1>. QED  BY <1>1, <1>2, FS_Subset

LEMMA StoredCounts ==
  ASSUME NEW hours
  PROVE  IsFiniteSet(Stored(hours)) /\ Cardinality(Stored(hours)) \in Nat
<1>1. Stored(hours) \in SUBSET HourStarts
  BY DEF Stored
<1>. QED  BY <1>1, HourStartsAreFinite, SubsetCounts

(* _drop_oldest_hours: when hours are dropped, those before the first that *)
(* is kept are at least as many as were to be dropped.                     *)
LEMMA OldestAreDropped ==
  ASSUME NEW hours \in HoursType, NEW n \in Nat, n <= Cardinality(Stored(hours))
  PROVE  Cardinality(Stored(DropOldest(hours, n))) <= Cardinality(Stored(hours)) - n
<1>. DEFINE S == Stored(hours)
            K == Stored(DropOldest(hours, n))
            Before(h) == {g \in S : g < h}
<1>1. K \in SUBSET S /\ \A h \in K : ~(Cardinality(Before(h)) < n)
  BY DEF DropOldest, Stored
<1>2. IsFiniteSet(S) /\ Cardinality(S) \in Nat /\ S \in SUBSET Nat
  BY StoredCounts, HourStartsAre DEF Stored
<1>. HIDE DEF S, K
<1>3. CASE K = {}
  BY <1>2, <1>3, FS_EmptySet DEF S, K
<1>4. CASE K # {}
  <2>1. PICK m \in K : \A h \in K : m <= h
    BY <1>1, <1>2, <1>4, Earliest
  <2>2. /\ Before(m) \in SUBSET S /\ Before(m) \cap K = {}
        /\ S \ Before(m) \in SUBSET S /\ K \in SUBSET (S \ Before(m))
    <3>1. m \in Nat /\ K \in SUBSET Nat
      BY <1>1, <1>2
    <3>2. \A h \in K : h \notin Before(m)
      BY <2>1, <3>1
    <3>. QED  BY <1>1, <3>2
  <2>3. /\ Cardinality(Before(m)) \in Nat /\ Cardinality(K) \in Nat
        /\ Cardinality(K) <= Cardinality(S \ Before(m)) /\ Cardinality(S \ Before(m)) \in Nat
    BY <1>2, <2>2, SubsetCounts
  <2>4. /\ S \cap Before(m) = Before(m)
        /\ Cardinality(S \ Before(m)) = Cardinality(S) - Cardinality(S \cap Before(m))
    BY <1>2, FS_Difference
  <2>5. Cardinality(Before(m)) >= n
    BY <1>1, <2>1, <2>3
  <2>. QED  BY <1>2, <2>3, <2>4, <2>5 DEF S, K
<1>. QED  BY <1>3, <1>4

(* The pairs of one thing with some hours are no more than the hours.      *)
LEMMA TaggedCounts ==
  ASSUME NEW r, NEW S, IsFiniteSet(S)
  PROVE  /\ IsFiniteSet({<<r, h>> : h \in S})
         /\ Cardinality({<<r, h>> : h \in S}) \in Nat
         /\ Cardinality({<<r, h>> : h \in S}) <= Cardinality(S)
<1>. DEFINE T == {<<r, h>> : h \in S}
            f == [h \in S |-> <<r, h>>]
<1>1. f \in Surjection(S, T)
  BY DEF Surjection
<1>. HIDE DEF f, T
<1>. QED  BY <1>1, FS_Surjection, FS_CardinalityType DEF T
=============================================================================
