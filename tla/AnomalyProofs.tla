----------------------------- MODULE AnomalyProofs -----------------------------
(***************************************************************************)
(* What inject() makes of a stream, proved for every known-good chain, any *)
(* lags, delays and leads of the ranges in use, and any number of          *)
(* anomalies.                                                              *)
(*                                                                         *)
(* The argument. Until the copies are made every event has an id of its    *)
(* own and a drift no larger than a lag and a delay, no smaller than the   *)
(* lead of a skewed clock (Mild); and the loop over the events meets each  *)
(* of them as the lifecycle produced it (Pristine), so a change is made    *)
(* once and labelled. A copy shares the id of its original alone and       *)
(* arrives later; so the order of arrival is total, and sorting puts the   *)
(* copy behind it. Sorting moves the events and changes none               *)
(* (SortedMoves): the place of an event is the number of events that are   *)
(* earlier (RankGrows).                                                    *)
(***************************************************************************)
EXTENDS Anomalies, FiniteSetTheorems, SequenceTheorems, TLAPS

Orders(R, I) ==
    /\ \A i \in I : <<i, i>> \notin R
    /\ \A i, j, k \in I : <<i, j>> \in R /\ <<j, k>> \in R => <<i, k>> \in R
    /\ \A i, j \in I : i # j => <<i, j>> \in R \/ <<j, i>> \in R

Below(i, I, R) == {j \in I : <<j, i>> \in R}

LEMMA RankGrows ==
    ASSUME NEW I, IsFiniteSet(I), NEW R, Orders(R, I)
    PROVE  /\ Cardinality(I) \in Nat
           /\ \A i \in I : Cardinality(Below(i, I, R)) \in 0 .. Cardinality(I) - 1
           /\ \A i, j \in I : <<i, j>> \in R =>
                 Cardinality(Below(i, I, R)) < Cardinality(Below(j, I, R))
<1>1. Cardinality(I) \in Nat
  BY FS_CardinalityType
<1>2. ASSUME NEW i \in I
      PROVE  /\ IsFiniteSet(Below(i, I, R)) /\ Cardinality(Below(i, I, R)) \in Nat
             /\ Cardinality(Below(i, I, R)) < Cardinality(I)
  <2>1. Below(i, I, R) \in SUBSET I /\ Below(i, I, R) # I
    BY DEF Below, Orders
  <2>2. /\ IsFiniteSet(Below(i, I, R)) /\ Cardinality(Below(i, I, R)) <= Cardinality(I)
        /\ Cardinality(I) # Cardinality(Below(i, I, R))
    BY <2>1, FS_Subset
  <2>3. Cardinality(Below(i, I, R)) \in Nat
    BY <2>2, FS_CardinalityType
  <2> QED BY <1>1, <2>2, <2>3
<1>3. ASSUME NEW i \in I, NEW j \in I, <<i, j>> \in R
      PROVE  Cardinality(Below(i, I, R)) < Cardinality(Below(j, I, R))
  <2>1. Below(i, I, R) \in SUBSET Below(j, I, R)
    BY <1>3 DEF Below, Orders
  <2>2. Below(i, I, R) # Below(j, I, R)
    BY <1>3 DEF Below, Orders
  <2>3. /\ Cardinality(Below(i, I, R)) <= Cardinality(Below(j, I, R))
        /\ Cardinality(Below(i, I, R)) # Cardinality(Below(j, I, R))
    BY <1>2, <2>1, <2>2, FS_Subset
  <2> QED BY <1>2, <2>3
<1> QED BY <1>1, <1>2, <1>3

LEMMA ArrangedIsOrdered ==
    ASSUME NEW I, IsFiniteSet(I), NEW R, Orders(R, I)
    PROVE  /\ Cardinality(I) \in Nat /\ Arranged(I, R) \in [1 .. Cardinality(I) -> I]
           /\ \A k \in 1 .. Cardinality(I) : Arranged(I, R)[k] \in I
           /\ \A i \in I : \E k \in 1 .. Cardinality(I) : Arranged(I, R)[k] = i
           /\ \A k, l \in 1 .. Cardinality(I) :
                 k < l <=> <<Arranged(I, R)[k], Arranged(I, R)[l]>> \in R
<1> DEFINE n       == Cardinality(I)
           rank(i) == Cardinality(Below(i, I, R))
           f       == [i \in I |-> rank(i)]
           a       == Arranged(I, R)
<1>1. /\ n \in Nat /\ \A i \in I : rank(i) \in 0 .. n - 1
      /\ \A i, j \in I : <<i, j>> \in R => rank(i) < rank(j)
  BY RankGrows
<1> HIDE DEF n, rank
<1>2. ASSUME NEW i \in I, NEW j \in I, rank(i) = rank(j) PROVE i = j
  <2>1. <<i, j>> \notin R /\ <<j, i>> \notin R
    BY <1>1, <1>2
  <2> QED BY <2>1 DEF Orders
<1>21. f \in Injection(I, 0 .. n - 1)
  <2>1. f \in [I -> 0 .. n - 1]
    BY <1>1
  <2>2. ASSUME NEW i \in I, NEW j \in I, f[i] = f[j] PROVE i = j
    BY <1>2, <2>2
  <2> QED BY <2>1, <2>2 DEF Injection, IsInjective
<1>3. f \in Surjection(I, 0 .. n - 1)
  <2>1. IsFiniteSet(0 .. n - 1) /\ Cardinality(0 .. n - 1) = n
    BY <1>1, FS_Interval
  <2> QED BY <1>21, <2>1, FS_Injection DEF n
<1>4. \A k \in 1 .. n : \E i \in I : rank(i) = k - 1
  <2> SUFFICES ASSUME NEW k \in 1 .. n PROVE \E i \in I : rank(i) = k - 1
    OBVIOUS
  <2>1. k - 1 \in 0 .. n - 1
    BY <1>1
  <2>2. PICK i \in I : f[i] = k - 1
    BY <1>3, <2>1 DEF Surjection
  <2> QED BY <2>2
<1>5. a = [k \in 1 .. n |-> CHOOSE i \in I : rank(i) = k - 1]
  BY DEF a, Arranged, n, rank, Below
<1> HIDE DEF a, f
<1>6. \A k \in 1 .. n : a[k] \in I /\ rank(a[k]) = k - 1
  BY <1>4, <1>5
<1>7. ASSUME NEW i \in I PROVE \E k \in 1 .. n : a[k] = i
  <2>1. rank(i) + 1 \in 1 .. n
    BY <1>1
  <2>2. rank(a[rank(i) + 1]) = (rank(i) + 1) - 1 /\ a[rank(i) + 1] \in I
    BY <1>6, <2>1
  <2>3. a[rank(i) + 1] = i
    BY <1>1, <1>2, <2>2
  <2> QED BY <2>1, <2>3
<1>8. ASSUME NEW k \in 1 .. n, NEW l \in 1 .. n
      PROVE  k < l <=> <<a[k], a[l]>> \in R
  <2>1. /\ a[k] \in I /\ a[l] \in I /\ rank(a[k]) = k - 1 /\ rank(a[l]) = l - 1
    BY <1>6
  <2>2. CASE <<a[k], a[l]>> \in R
    BY <1>1, <2>1, <2>2
  <2>3. CASE <<a[l], a[k]>> \in R
    <3>1. l < k
      BY <1>1, <2>1, <2>3
    <3> QED BY <2>1, <2>3, <3>1, <1>1 DEF Orders
  <2>4. CASE a[k] = a[l]
    BY <1>1, <2>1, <2>4 DEF Orders
  <2> QED BY <2>1, <2>2, <2>3, <2>4 DEF Orders
<1>9. a \in [1 .. n -> I]
  BY <1>5, <1>6
<1> QED BY <1>1, <1>6, <1>7, <1>8, <1>9 DEF a, n

\* The positions in I, from the first on.
LEMMA InPlaceAscends ==
    ASSUME NEW I, IsFiniteSet(I), I \subseteq Nat
    PROVE  /\ Cardinality(I) \in Nat /\ InPlace(I) \in [1 .. Cardinality(I) -> I]
           /\ Len(InPlace(I)) = Cardinality(I)
           /\ \A k \in 1 .. Cardinality(I) : InPlace(I)[k] \in I
           /\ \A i \in I : \E k \in 1 .. Cardinality(I) : InPlace(I)[k] = i
           /\ \A k, l \in 1 .. Cardinality(I) : k # l => InPlace(I)[k] # InPlace(I)[l]
<1> DEFINE R == {p \in I \X I : p[1] < p[2]}
<1>1. \A i, j \in I : <<i, j>> \in R <=> i < j
  OBVIOUS
<1> HIDE DEF R
<1>2. Orders(R, I)
  BY <1>1 DEF Orders
<1>3. /\ Cardinality(I) \in Nat /\ Arranged(I, R) \in [1 .. Cardinality(I) -> I]
      /\ \A k \in 1 .. Cardinality(I) : Arranged(I, R)[k] \in I
      /\ \A i \in I : \E k \in 1 .. Cardinality(I) : Arranged(I, R)[k] = i
      /\ \A k, l \in 1 .. Cardinality(I) :
            k < l <=> <<Arranged(I, R)[k], Arranged(I, R)[l]>> \in R
  BY <1>2, ArrangedIsOrdered
<1>4. InPlace(I) = Arranged(I, R)
  BY DEF InPlace, R
<1> HIDE DEF R
<1>5. ASSUME NEW k \in 1 .. Cardinality(I), NEW l \in 1 .. Cardinality(I), k # l
      PROVE  InPlace(I)[k] # InPlace(I)[l]
  <2>1. k < l \/ l < k
    BY <1>3, <1>5
  <2>2. <<InPlace(I)[k], InPlace(I)[l]>> \in R \/ <<InPlace(I)[l], InPlace(I)[k]>> \in R
    BY <1>3, <1>4, <2>1
  <2> QED BY <1>2, <1>3, <1>4, <2>2 DEF Orders
<1>6. Len(InPlace(I)) = Cardinality(I)
  BY <1>3, <1>4, LenProperties DEF InPlace
<1> QED BY <1>3, <1>4, <1>5, <1>6

Labels == {"orphan_source_dropped", "late_arrival", "out_of_order", "clock_skew", "malformed",
           "malformed_json", "duplicate"}

Event == [id : Nat, type : STRING, key : STRING, correlation : STRING, ts : Int, ingested : Int,
          wellFormed : BOOLEAN, tags : SUBSET Labels]

Drift(e)  == e.ingested - e.ts
IsCopy(e) == "duplicate" \in e.tags

\* The drift of a lag and a delay, or the lead of a skewed clock; and that of a copy.
Mild(e)    == Drift(e) \in -280 .. 5412
Bounded(e) == Drift(e) \in -280 .. 5457

\* What the lifecycle produced, but for the label of an orphaned trip.
Pristine(e) == Drift(e) \in 0 .. 12 /\ e.wellFormed /\ e.tags \subseteq {"orphan_source_dropped"}

\* Damaged on purpose only, and no label, no change.
Labelled(e, origin) ==
    /\ "malformed" \notin e.tags => e.wellFormed /\ "malformed_json" \notin e.tags
    /\ e.tags = {} => e \in ToSet(origin)

StreamOK ==
    /\ phase \in {"orphan", "mutate", "write"}
    /\ good \in Seq(Event) /\ events \in Seq(Event) /\ at \in 1 .. Len(events) + 1
    /\ report \in [Counters -> Nat] /\ Drawn(report) <= MaxAnomalies

Accounted == Len(events) = Len(good) - report.orphaned_trips + report.duplicates

\* An event and its copy share their id, and nothing else does.
Distinct(es) ==
    \A i, j \in DOMAIN es : es[i].id = es[j].id /\ (IsCopy(es[i]) <=> IsCopy(es[j])) => i = j

\* No copy yet, and nothing has happened to the events the loop has not come to.
BeforeCopies ==
    phase # "write" =>
        /\ report.duplicates = 0
        /\ \A i \in DOMAIN events :
              /\ Mild(events[i]) /\ ~ IsCopy(events[i])
              /\ i >= at => Pristine(events[i])

BeforeOrphans ==
    phase = "orphan" =>
        /\ events = good /\ report.orphaned_trips = 0 /\ at = 1
        /\ \A i \in DOMAIN events : events[i].tags = {}

Emitted ==
    phase = "write" =>
        /\ \A i \in DOMAIN events : Bounded(events[i])
        /\ CopyFollowsOriginal

AnomalyInv ==
    /\ StreamOK /\ Accounted /\ Distinct(events) /\ (\A i \in DOMAIN events : Labelled(events[i], good))
    /\ BeforeOrphans /\ BeforeCopies /\ Emitted

\* The order of arrival is one when no two events share arrival and id.
Unambiguous(es) ==
    \A i, j \in DOMAIN es : i # j => es[i].ingested # es[j].ingested \/ es[i].id # es[j].id

LEMMA EventFields ==
    \A e \in Event : /\ e.id \in Nat /\ e.ts \in Int /\ e.ingested \in Int
                     /\ e.wellFormed \in BOOLEAN /\ e.tags \subseteq Labels
BY DEF Event

LEMMA EarlierOrders ==
    ASSUME NEW es \in Seq(Event), Unambiguous(es)
    PROVE  /\ Orders(Earlier(es), DOMAIN es)
           /\ \A i, j \in DOMAIN es : <<i, j>> \in Earlier(es) <=>
                 \/ es[i].ingested < es[j].ingested
                 \/ es[i].ingested = es[j].ingested /\ es[i].id < es[j].id
<1>1. \A i \in DOMAIN es : es[i].ingested \in Int /\ es[i].id \in Nat
  <2>1. \A i \in DOMAIN es : es[i] \in Event
    OBVIOUS
  <2> QED BY <2>1, EventFields
<1>2. \A i, j \in DOMAIN es : <<i, j>> \in Earlier(es) <=>
         \/ es[i].ingested < es[j].ingested
         \/ es[i].ingested = es[j].ingested /\ es[i].id < es[j].id
  BY DEF Earlier
<1>3. \A i \in DOMAIN es : <<i, i>> \notin Earlier(es)
  BY <1>1, <1>2
<1>4. ASSUME NEW i \in DOMAIN es, NEW j \in DOMAIN es, NEW k \in DOMAIN es,
             <<i, j>> \in Earlier(es), <<j, k>> \in Earlier(es)
      PROVE  <<i, k>> \in Earlier(es)
  <2>1. /\ es[i].ingested \in Int /\ es[j].ingested \in Int /\ es[k].ingested \in Int
        /\ es[i].id \in Nat /\ es[j].id \in Nat /\ es[k].id \in Nat
    BY <1>1
  <2>2. /\ \/ es[i].ingested < es[j].ingested
           \/ es[i].ingested = es[j].ingested /\ es[i].id < es[j].id
        /\ \/ es[j].ingested < es[k].ingested
           \/ es[j].ingested = es[k].ingested /\ es[j].id < es[k].id
    BY <1>2, <1>4
  <2>3. \/ es[i].ingested < es[k].ingested
        \/ es[i].ingested = es[k].ingested /\ es[i].id < es[k].id
    BY <2>1, <2>2
  <2> QED BY <1>2, <2>3
<1>5. \A i, j \in DOMAIN es : i # j => <<i, j>> \in Earlier(es) \/ <<j, i>> \in Earlier(es)
  BY <1>1, <1>2 DEF Unambiguous
<1> QED BY <1>2, <1>3, <1>4, <1>5 DEF Orders

(***************************************************************************)
(* Sorting moves every event to one place, and an earlier one before it.   *)
(***************************************************************************)
LEMMA SortedMoves ==
    ASSUME NEW es \in Seq(Event), Unambiguous(es)
    PROVE  /\ Sorted(es) \in Seq(Event) /\ Len(Sorted(es)) = Len(es)
           /\ \E p \in [1 .. Len(es) -> 1 .. Len(es)] :
                 /\ \A k \in 1 .. Len(es) : Sorted(es)[k] = es[p[k]]
                 /\ \A i \in 1 .. Len(es) : \E k \in 1 .. Len(es) : p[k] = i
                 /\ \A k, l \in 1 .. Len(es) : p[k] = p[l] => k = l
                 /\ \A k, l \in 1 .. Len(es) :
                       es[p[k]].ingested < es[p[l]].ingested => k < l
<1> DEFINE I == DOMAIN es
           n == Len(es)
           p == Arranged(I, Earlier(es))
<1>1. I = 1 .. n /\ n \in Nat /\ IsFiniteSet(I) /\ Cardinality(I) = n
  <2>1. I = 1 .. n /\ n \in Nat
    BY LenProperties
  <2>2. IsFiniteSet(1 .. n) /\ Cardinality(1 .. n) = n
    BY <2>1, FS_Interval
  <2> QED BY <2>1, <2>2
<1>2. Orders(Earlier(es), I)
  BY EarlierOrders
<1>3. /\ p \in [1 .. n -> 1 .. n]
      /\ \A k \in 1 .. n : p[k] \in 1 .. n
      /\ \A i \in 1 .. n : \E k \in 1 .. n : p[k] = i
      /\ \A k, l \in 1 .. n : k < l <=> <<p[k], p[l]>> \in Earlier(es)
  <2>1. /\ p \in [1 .. Cardinality(I) -> I]
        /\ \A k \in 1 .. Cardinality(I) : p[k] \in I
        /\ \A i \in I : \E k \in 1 .. Cardinality(I) : p[k] = i
        /\ \A k, l \in 1 .. Cardinality(I) : k < l <=> <<p[k], p[l]>> \in Earlier(es)
    BY <1>1, <1>2, ArrangedIsOrdered
  <2> HIDE DEF p, I
  <2> QED BY <1>1, <2>1
<1>4. Sorted(es) = [k \in 1 .. n |-> es[p[k]]]
  BY <1>3 DEF Sorted
<1> HIDE DEF p
<1>6. Sorted(es) \in Seq(Event) /\ Len(Sorted(es)) = n
  <2>1. \A k \in 1 .. n : es[p[k]] \in Event
    BY <1>1, <1>3
  <2> QED BY <1>1, <1>4, <2>1, IsASeq
<1>7. ASSUME NEW k \in 1 .. n, NEW l \in 1 .. n, p[k] = p[l] PROVE k = l
  <2>1. <<p[k], p[l]>> \notin Earlier(es) /\ <<p[l], p[k]>> \notin Earlier(es)
    BY <1>1, <1>2, <1>3, <1>7 DEF Orders
  <2> QED BY <1>1, <1>3, <2>1
<1>8. ASSUME NEW k \in 1 .. n, NEW l \in 1 .. n, es[p[k]].ingested < es[p[l]].ingested
      PROVE  k < l
  <2>1. <<p[k], p[l]>> \in Earlier(es)
    BY <1>1, <1>3, <1>8, EarlierOrders
  <2> QED BY <1>3, <2>1
<1> QED BY <1>1, <1>3, <1>4, <1>6, <1>7, <1>8

LEMMA DriftsNest ==
    ASSUME NEW e \in Event
    PROVE  (Pristine(e) => Mild(e)) /\ (Mild(e) => Bounded(e))
BY DEF Pristine, Mild, Bounded

CopyOf(e, moment) == Tag([e EXCEPT !.ingested = moment], {"duplicate"})

\* Sorting keeps the events, and puts a copy after its original.
LEMMA SortedKeeps ==
    ASSUME NEW es \in Seq(Event), Unambiguous(es), Distinct(es),
           \A i \in DOMAIN es : IsCopy(es[i]) =>
               \E j \in DOMAIN es :
                   es[j].ingested < es[i].ingested /\ es[i] = CopyOf(es[j], es[i].ingested)
    PROVE  /\ Sorted(es) \in Seq(Event) /\ Len(Sorted(es)) = Len(es)
           /\ \A k \in DOMAIN Sorted(es) : \E i \in DOMAIN es : Sorted(es)[k] = es[i]
           /\ Distinct(Sorted(es))
           /\ \A k \in DOMAIN Sorted(es) : IsCopy(Sorted(es)[k]) =>
                 \E l \in 1 .. k - 1 : Sorted(es)[k] = CopyOf(Sorted(es)[l], Sorted(es)[k].ingested)
<1> DEFINE S == Sorted(es)
           n == Len(es)
<1>1. S \in Seq(Event) /\ Len(S) = n /\ n \in Nat /\ DOMAIN es = 1 .. n /\ DOMAIN S = 1 .. n
  BY SortedMoves, LenProperties
<1>2. PICK p \in [1 .. n -> 1 .. n] :
        /\ \A k \in 1 .. n : S[k] = es[p[k]]
        /\ \A i \in 1 .. n : \E k \in 1 .. n : p[k] = i
        /\ \A k, l \in 1 .. n : p[k] = p[l] => k = l
        /\ \A k, l \in 1 .. n : es[p[k]].ingested < es[p[l]].ingested => k < l
  BY SortedMoves
<1> HIDE DEF S, n
<1>3. \A k \in 1 .. n : p[k] \in 1 .. n
  BY <1>2
<1>4. \A k \in 1 .. n : \E i \in 1 .. n : S[k] = es[i]
  BY <1>2, <1>3
<1>5. Distinct(S)
  <2> SUFFICES ASSUME NEW k \in 1 .. n, NEW l \in 1 .. n, S[k].id = S[l].id,
                      IsCopy(S[k]) <=> IsCopy(S[l])
               PROVE  k = l
    BY <1>1 DEF Distinct
  <2>1. S[k] = es[p[k]] /\ S[l] = es[p[l]] /\ p[k] \in DOMAIN es /\ p[l] \in DOMAIN es
    BY <1>1, <1>2, <1>3
  <2>2. es[p[k]].id = es[p[l]].id /\ (IsCopy(es[p[k]]) <=> IsCopy(es[p[l]]))
    BY <2>1
  <2>3. p[k] = p[l]
    BY <2>1, <2>2 DEF Distinct
  <2> QED BY <1>2, <2>3
<1>6. ASSUME NEW k \in 1 .. n, IsCopy(S[k])
      PROVE  \E l \in 1 .. k - 1 : S[k] = CopyOf(S[l], S[k].ingested)
  <2>1. PICK j \in 1 .. n : es[j].ingested < es[p[k]].ingested
                            /\ es[p[k]] = CopyOf(es[j], es[p[k]].ingested)
    BY <1>1, <1>2, <1>3, <1>6
  <2>2. PICK l \in 1 .. n : p[l] = j
    BY <1>2
  <2>3. l < k
    BY <1>2, <2>1, <2>2
  <2>4. l \in 1 .. k - 1
    BY <1>1, <2>3
  <2>5. S[k] = CopyOf(S[l], S[k].ingested)
    BY <1>2, <2>1, <2>2
  <2> QED BY <2>4, <2>5
<1> QED BY <1>1, <1>4, <1>5, <1>6 DEF S, n

--------------------------------------------------------------------------------
(* The steps of inject() *)

LEMMA CountTo ==
    ASSUME NEW n \in Nat
    PROVE  IsFiniteSet(1 .. n) /\ Cardinality(1 .. n) = n
BY FS_Interval

LEMMA AnomalyTypes ==
    ASSUME AnomalyInv
    PROVE  /\ Len(events) \in Nat /\ DOMAIN events = 1 .. Len(events)
           /\ IsFiniteSet(DOMAIN events) /\ Cardinality(DOMAIN events) = Len(events)
           /\ \A i \in DOMAIN events : events[i] \in Event
           /\ Len(good) \in Nat
<1>1. events \in Seq(Event) /\ good \in Seq(Event)
  BY DEF AnomalyInv, StreamOK
<1>2. /\ Len(events) \in Nat /\ DOMAIN events = 1 .. Len(events) /\ Len(good) \in Nat
      /\ \A i \in DOMAIN events : events[i] \in Event
  BY <1>1, LenProperties, ElementOfSeq
<1> HIDE DEF AnomalyInv
<1>3. IsFiniteSet(1 .. Len(events)) /\ Cardinality(1 .. Len(events)) = Len(events)
  BY <1>2, CountTo
<1> QED BY <1>2, <1>3

LEMMA AnomalyStarts == AnomalyInit => AnomalyInv
<1> SUFFICES ASSUME AnomalyInit PROVE AnomalyInv
  OBVIOUS
<1>1. PICK lag \in [DOMAIN Chain -> Lags] : good = [i \in DOMAIN Chain |-> Known(Chain[i], lag[i])]
  BY DEF AnomalyInit
<1>2. /\ phase = "orphan" /\ at = 1 /\ events = good /\ report = [c \in Counters |-> 0]
  BY DEF AnomalyInit
<1> DEFINE n == Len(Chain)
           Origin == [id : Nat, type : STRING, key : STRING, correlation : STRING, ts : Int]
<1>0. Chain \in Seq(Origin) /\ Lags \subseteq 0 .. 12
  BY AnomalyAssumption DEF AnomalyAssumption
<1>01. \A e \in Origin : /\ e.id \in Nat /\ e.type \in STRING /\ e.key \in STRING
                        /\ e.correlation \in STRING /\ e.ts \in Int
  OBVIOUS
<1> HIDE DEF Origin
<1>3. n \in Nat /\ DOMAIN Chain = 1 .. n /\ \A i \in 1 .. n : Chain[i] \in Origin
  BY <1>0, LenProperties, ElementOfSeq
<1> HIDE DEF n
<1>4. ASSUME NEW i \in 1 .. n
      PROVE  /\ good[i] \in Event /\ good[i].tags = {} /\ good[i].wellFormed
             /\ Drift(good[i]) \in 0 .. 12 /\ good[i].id = Chain[i].id
  <2>2. /\ Chain[i].id \in Nat /\ Chain[i].type \in STRING /\ Chain[i].key \in STRING
        /\ Chain[i].correlation \in STRING /\ Chain[i].ts \in Int
    BY <1>01, <1>3
  <2>3. lag[i] \in 0 .. 12
    BY <1>0, <1>1, <1>3
  <2>4. good[i] = Known(Chain[i], lag[i])
    BY <1>1, <1>3
  <2>5. /\ good[i].ts = Chain[i].ts /\ good[i].ingested = Chain[i].ts + lag[i]
        /\ good[i].tags = {} /\ good[i].wellFormed /\ good[i].id = Chain[i].id
    BY <2>4 DEF Known
  <2>6. good[i] \in Event
    BY <2>2, <2>3, <2>4 DEF Known, Event
  <2>7. Drift(good[i]) \in 0 .. 12
    BY <2>2, <2>3, <2>5 DEF Drift
  <2> QED BY <2>5, <2>6, <2>7
<1>5. good \in Seq(Event) /\ Len(good) = n /\ DOMAIN good = 1 .. n
  <2>1. good = [i \in 1 .. n |-> good[i]]
    BY <1>1, <1>3
  <2> QED BY <1>3, <1>4, <2>1, IsASeq
<1>6. StreamOK
  BY <1>2, <1>3, <1>5, AnomalyAssumption DEF StreamOK, Counters, Drawn, AnomalyAssumption
<1>7. Accounted
  BY <1>2, <1>3, <1>5 DEF Accounted, Counters
<1>8. Distinct(events)
  <2>1. \A i, j \in DOMAIN Chain : Chain[i].id = Chain[j].id => i = j
    BY AnomalyAssumption DEF AnomalyAssumption
  <2> QED BY <1>2, <1>3, <1>4, <1>5, <2>1 DEF Distinct
<1>9. \A i \in DOMAIN events : Labelled(events[i], good)
  <2> SUFFICES ASSUME NEW i \in 1 .. n PROVE Labelled(good[i], good)
    BY <1>2, <1>5
  <2>1. good[i] \in ToSet(good)
    BY <1>5 DEF ToSet
  <2> QED BY <1>4, <2>1 DEF Labelled
<1>10. BeforeOrphans
  BY <1>2, <1>4, <1>5 DEF BeforeOrphans, Counters
<1>11. BeforeCopies
  <2>1. \A i \in 1 .. n : Pristine(good[i]) /\ ~ IsCopy(good[i])
    BY <1>4 DEF Pristine, IsCopy
  <2> QED BY <1>2, <1>4, <1>5, <2>1, DriftsNest DEF BeforeCopies, Counters
<1>12. Emitted
  BY <1>2 DEF Emitted
<1> QED BY <1>6, <1>7, <1>8, <1>9, <1>10, <1>11, <1>12 DEF AnomalyInv

LEMMA CountAdds ==
    ASSUME report \in [Counters -> Nat], NEW D \in SUBSET Counters, NEW hit \in [D -> Nat], Count(hit)
    PROVE  /\ report' \in [Counters -> Nat] /\ Drawn(report') <= MaxAnomalies
           /\ \A c \in Counters : report'[c] = report[c] + (IF c \in D THEN hit[c] ELSE 0)
BY DEF Count

LEMMA InjectedOnce ==
    ASSUME AnomalyInv, phase # "write"
    PROVE  Unambiguous(events) /\ \A i \in DOMAIN events : ~ IsCopy(events[i])
BY DEF AnomalyInv, BeforeCopies, Distinct, Unambiguous

LEMMA DisabledKeeps == AnomalyInv /\ Disabled => AnomalyInv'
<1> SUFFICES ASSUME AnomalyInv, Disabled PROVE AnomalyInv'
  OBVIOUS
<1>1. /\ phase = "orphan" /\ phase' = "write" /\ events' = Sorted(events)
      /\ UNCHANGED <<good, at, report>>
  BY DEF Disabled
<1>2. Unambiguous(events) /\ \A i \in DOMAIN events : ~ IsCopy(events[i])
  BY <1>1, InjectedOnce
<1>3. events \in Seq(Event) /\ Distinct(events)
  BY DEF AnomalyInv, StreamOK
<1>4. /\ events' \in Seq(Event) /\ Len(events') = Len(events)
      /\ \A k \in DOMAIN events' : \E i \in DOMAIN events : events'[k] = events[i]
      /\ Distinct(events')
  BY <1>1, <1>2, <1>3, SortedKeeps
<1>5. StreamOK'
  BY <1>1, <1>4 DEF AnomalyInv, StreamOK
<1>6. Accounted'
  BY <1>1, <1>4 DEF AnomalyInv, Accounted
<1>7. \A k \in DOMAIN events' : Labelled(events'[k], good')
  <2>1. \A i \in DOMAIN events : Labelled(events[i], good)
    BY DEF AnomalyInv
  <2> QED BY <1>1, <1>4, <2>1
<1>8. BeforeOrphans' /\ BeforeCopies'
  BY <1>1 DEF BeforeOrphans, BeforeCopies
<1>9. Emitted'
  <2>1. \A i \in DOMAIN events : Bounded(events[i])
    <3>1. \A i \in DOMAIN events : Mild(events[i])
      BY <1>1 DEF AnomalyInv, BeforeCopies
    <3> QED BY <3>1, AnomalyTypes, DriftsNest
  <2>2. ASSUME NEW k \in DOMAIN events' PROVE Bounded(events'[k])
    <3>1. PICK i \in DOMAIN events : events'[k] = events[i]
      BY <1>4
    <3> QED BY <2>1, <3>1
  <2>3. CopyFollowsOriginal'
    BY <1>2, <1>4 DEF CopyFollowsOriginal, IsCopy
  <2> QED BY <2>2, <2>3 DEF Emitted
<1> QED BY <1>4, <1>5, <1>6, <1>7, <1>8, <1>9 DEF AnomalyInv

\* A label other than "duplicate" leaves everything else as it is.
LEMMA TagKeeps ==
    ASSUME NEW e \in Event, NEW labels \in SUBSET Labels
    PROVE  /\ Tag(e, labels) \in Event /\ Tag(e, labels).tags = e.tags \cup labels
           /\ Tag(e, labels).id = e.id /\ Tag(e, labels).wellFormed = e.wellFormed
           /\ Tag(e, labels).ts = e.ts /\ Tag(e, labels).ingested = e.ingested
BY DEF Tag, Event

LEMMA OrphanKeeps ==
    ASSUME AnomalyInv, NEW targets, Orphan(targets)
    PROVE  AnomalyInv'
<1> DEFINE IsDropped(e) == e.correlation \in targets /\ e.type = "RideRequested"
           Label(e) == IF e.correlation \in targets THEN Tag(e, {"orphan_source_dropped"}) ELSE e
           I        == {i \in DOMAIN events : ~ IsDropped(events[i])}
           kept     == InPlace(I)
           m        == Cardinality(I)
           n        == Len(events)
<1>1. /\ phase = "orphan" /\ phase' = "mutate"
      /\ events' = [k \in DOMAIN kept |-> Label(events[kept[k]])]
      /\ Count([orphaned_trips |-> n - Len(kept)])
      /\ UNCHANGED <<good, at>>
  BY DEF Orphan
<1>2. n \in Nat /\ DOMAIN events = 1 .. n /\ I \subseteq 1 .. n /\ \A i \in 1 .. n : events[i] \in Event
  BY AnomalyTypes
<1>3. IsFiniteSet(1 .. n) /\ Cardinality(1 .. n) = n
  BY <1>2, AnomalyTypes
<1>4. IsFiniteSet(I) /\ m <= n /\ I \subseteq Nat
  BY <1>2, <1>3, FS_Subset
<1> HIDE DEF I, n
<1>5. /\ m \in Nat /\ DOMAIN kept = 1 .. m /\ Len(kept) = m
      /\ \A k \in 1 .. m : kept[k] \in I
      /\ \A k, l \in 1 .. m : k # l => kept[k] # kept[l]
  BY <1>4, InPlaceAscends
<1> HIDE DEF kept, m
<1>6. ASSUME NEW k \in 1 .. m
      PROVE  /\ kept[k] \in 1 .. n /\ events'[k] = Label(events[kept[k]])
             /\ events[kept[k]] \in Event
  BY <1>1, <1>2, <1>5
<1>7. \A i \in 1 .. n : /\ events[i].tags = {} /\ Pristine(events[i])
                        /\ events[i] \in ToSet(good)
  <2>1. events = good /\ at = 1 /\ \A i \in 1 .. n : events[i].tags = {}
    BY <1>1, <1>2 DEF AnomalyInv, BeforeOrphans
  <2> QED BY <1>1, <1>2, <2>1 DEF AnomalyInv, BeforeCopies, ToSet
<1>8. ASSUME NEW k \in 1 .. m
      PROVE  /\ events'[k] \in Event /\ events'[k].id = events[kept[k]].id
             /\ Pristine(events'[k]) /\ ~ IsCopy(events'[k])
             /\ events'[k].tags = {} => events'[k] = events[kept[k]]
  <2> DEFINE e == events[kept[k]]
             d == events'[k]
  <2>1. e \in Event /\ e.tags = {} /\ Pristine(e) /\ d = Label(e)
    BY <1>6, <1>7
  <2>2. CASE e.correlation \in targets
    <3>1. d = Tag(e, {"orphan_source_dropped"})
      BY <2>1, <2>2
    <3>2. {"orphan_source_dropped"} \in SUBSET Labels
      BY DEF Labels
    <3>3. /\ d \in Event /\ d.tags = {"orphan_source_dropped"} /\ d.id = e.id
          /\ d.wellFormed = e.wellFormed /\ d.ts = e.ts /\ d.ingested = e.ingested
      BY <2>1, <3>1, <3>2, TagKeeps
    <3> QED BY <2>1, <3>3 DEF Pristine, Drift, IsCopy
  <2>3. CASE e.correlation \notin targets
    BY <2>1, <2>3 DEF IsCopy
  <2> QED BY <2>2, <2>3
<1>9. events' \in Seq(Event) /\ Len(events') = m /\ DOMAIN events' = 1 .. m
  <2>1. events' = [k \in 1 .. m |-> events'[k]]
    BY <1>1, <1>5
  <2> QED BY <1>5, <1>8, <2>1, IsASeq
<1>10. /\ report' \in [Counters -> Nat] /\ Drawn(report') <= MaxAnomalies
       /\ report'.orphaned_trips = n - m /\ report'.duplicates = 0
  <2>1. Len(kept) = m
    BY <1>5
  <2>2. [orphaned_trips |-> n - Len(kept)] \in [{"orphaned_trips"} -> Nat]
    BY <1>2, <1>4, <1>5, <2>1
  <2>3. /\ report \in [Counters -> Nat] /\ report.orphaned_trips = 0 /\ report.duplicates = 0
        /\ {"orphaned_trips"} \subseteq Counters
        /\ "orphaned_trips" \in Counters /\ "duplicates" \in Counters
    BY <1>1 DEF AnomalyInv, StreamOK, BeforeOrphans, BeforeCopies, Counters
  <2>4. /\ report' \in [Counters -> Nat] /\ Drawn(report') <= MaxAnomalies
        /\ \A c \in Counters : report'[c] = report[c] +
              (IF c \in {"orphaned_trips"} THEN [orphaned_trips |-> n - Len(kept)][c] ELSE 0)
    BY <1>1, <2>2, <2>3, CountAdds
  <2> QED BY <1>2, <1>5, <2>1, <2>3, <2>4
<1>11. Len(events) = Len(good)
  BY <1>1 DEF AnomalyInv, BeforeOrphans
<1>12. StreamOK'
  BY <1>1, <1>5, <1>9, <1>10 DEF AnomalyInv, StreamOK, BeforeOrphans
<1>13. Accounted'
  BY <1>1, <1>2, <1>5, <1>9, <1>10, <1>11 DEF Accounted, n
<1>14. Distinct(events')
  <2> SUFFICES ASSUME NEW k \in 1 .. m, NEW l \in 1 .. m, events'[k].id = events'[l].id PROVE k = l
    BY <1>9 DEF Distinct
  <2>1. events[kept[k]].id = events[kept[l]].id
    BY <1>8
  <2>2. kept[k] \in DOMAIN events /\ kept[l] \in DOMAIN events
    BY <1>2, <1>6
  <2>3. ~ IsCopy(events[kept[k]]) /\ ~ IsCopy(events[kept[l]])
    BY <1>1, <2>2, InjectedOnce
  <2>4. kept[k] = kept[l]
    BY <2>1, <2>2, <2>3 DEF AnomalyInv, Distinct
  <2> QED BY <1>5, <2>4
<1>15. \A k \in DOMAIN events' : Labelled(events'[k], good')
  <2> SUFFICES ASSUME NEW k \in 1 .. m PROVE Labelled(events'[k], good')
    BY <1>9
  <2>1. events'[k].tags = {} => events'[k] \in ToSet(good)
    BY <1>6, <1>7, <1>8
  <2> QED BY <1>1, <1>8, <2>1 DEF Labelled, Pristine
<1>16. BeforeOrphans'
  BY <1>1 DEF BeforeOrphans
<1>17. BeforeCopies'
  <2>1. \A k \in 1 .. m : Mild(events'[k])
    BY <1>8, DriftsNest
  <2> QED BY <1>8, <1>9, <1>10, <2>1 DEF BeforeCopies
<1>18. Emitted'
  BY <1>1 DEF Emitted
<1> QED BY <1>12, <1>13, <1>14, <1>15, <1>16, <1>17, <1>18 DEF AnomalyInv

Late     == {"late_arrival", "out_of_order"}
Damages  == {"none", "json", "payload", "harmless"}
Drawable(kind, delay, lead, damage) ==
    /\ kind = "on_time" \/ (kind \in Late /\ delay \in 0 .. 5400)
    /\ lead \in 0 .. 280 /\ damage \in Damages

LEMMA DelaysAdd ==
    ASSUME NEW a \in Int, NEW b \in Int, NEW c \in 0 .. 5400, a - b \in 0 .. 12
    PROVE  (a + c) - b \in 0 .. 5412
OBVIOUS

LEMMA ArrivalSet ==
    ASSUME NEW e \in Event, NEW v \in Int, NEW y, y = [e EXCEPT !.ingested = v]
    PROVE  /\ y \in Event /\ y.id = e.id /\ y.wellFormed = e.wellFormed /\ y.tags = e.tags
           /\ y.ts = e.ts /\ y.ingested = v
BY DEF Event

LEMMA TimestampSet ==
    ASSUME NEW e \in Event, NEW v \in Int, NEW y, y = [e EXCEPT !.ts = v]
    PROVE  /\ y \in Event /\ y.id = e.id /\ y.wellFormed = e.wellFormed /\ y.tags = e.tags
           /\ y.ts = v /\ y.ingested = e.ingested
BY DEF Event

LEMMA PayloadDamaged ==
    ASSUME NEW e \in Event, NEW y, y = [e EXCEPT !.wellFormed = FALSE]
    PROVE  /\ y \in Event /\ y.id = e.id /\ y.tags = e.tags
           /\ y.ts = e.ts /\ y.ingested = e.ingested
BY DEF Event

\* Delay, skew and damage, whichever are drawn, are labelled and keep the drift in bounds.
LEMMA MutationIsLabelled ==
    ASSUME NEW e \in Event, Pristine(e), NEW kind, NEW delay, NEW lead, NEW damage,
           Drawable(kind, delay, lead, damage),
           NEW x, x = Damaged(Skewed(Delayed(e, kind, delay), lead), damage)
    PROVE  /\ x \in Event /\ x.id = e.id /\ ~ IsCopy(x) /\ Mild(x)
           /\ "malformed" \notin x.tags => x.wellFormed /\ "malformed_json" \notin x.tags
           /\ x.tags = {} => x = e
<1> DEFINE d == Delayed(e, kind, delay)
           s == Skewed(d, lead)
           Kept == {"orphan_source_dropped", "late_arrival", "out_of_order"}
<1>0. e.wellFormed /\ e.tags \subseteq {"orphan_source_dropped"}
  BY DEF Pristine
<1>00. e.ts \in Int /\ e.ingested \in Int /\ e.ingested - e.ts \in 0 .. 12
  BY EventFields DEF Pristine, Drift
<1>1. /\ d \in Event /\ d.id = e.id /\ d.wellFormed /\ Drift(d) \in 0 .. 5412
      /\ d.tags \subseteq Kept /\ (d.tags = {} => d = e)
  <2>1. CASE kind = "on_time"
    <3>1. d = e
      BY <2>1 DEF Delayed
    <3>2. Drift(d) \in 0 .. 5412
      BY <1>00, <3>1 DEF Drift
    <3> QED BY <1>0, <3>1, <3>2
  <2>2. CASE kind # "on_time"
    <3> DEFINE y == [e EXCEPT !.ingested = e.ingested + delay]
    <3>0. kind \in Late /\ delay \in 0 .. 5400
      BY <2>2 DEF Drawable
    <3>1. /\ y \in Event /\ y.id = e.id /\ y.wellFormed = e.wellFormed /\ y.tags = e.tags
          /\ y.ts = e.ts /\ y.ingested = e.ingested + delay
      <4>1. e.ingested + delay \in Int
        BY <1>00, <3>0
      <4> QED BY <4>1, ArrivalSet
    <3>2. d = Tag(y, {kind}) /\ {kind} \in SUBSET Labels
      BY <2>2, <3>0 DEF Delayed, Labels, Late
    <3> HIDE DEF y, d
    <3>3. /\ d \in Event /\ d.tags = y.tags \cup {kind} /\ d.id = y.id
          /\ d.wellFormed = y.wellFormed /\ d.ts = y.ts /\ d.ingested = y.ingested
      BY <3>1, <3>2, TagKeeps
    <3>4. Drift(d) \in 0 .. 5412
      <4>1. d.ts = e.ts /\ d.ingested = e.ingested + delay
        BY <3>1, <3>3
      <4>2. PICK a \in Int : a = e.ingested
        BY <1>00
      <4>20. PICK b \in Int : b = e.ts
        BY <1>00
      <4>22. PICK c \in 0 .. 5400 : c = delay
        BY <3>0
      <4>21. a - b \in 0 .. 12
        BY <1>00, <4>2, <4>20
      <4>3. (a + c) - b \in 0 .. 5412
        BY <4>21
      <4>4. Drift(d) = (a + c) - b
        BY <4>1, <4>2, <4>20, <4>22 DEF Drift
      <4> QED BY <4>3, <4>4
    <3>5. d.tags \subseteq Kept /\ d.tags # {}
      BY <1>0, <3>0, <3>1, <3>3 DEF Late
    <3> QED BY <1>0, <3>1, <3>3, <3>4, <3>5
  <2> QED BY <2>1, <2>2
<1> HIDE DEF d
<1>2. /\ s \in Event /\ s.id = e.id /\ s.wellFormed /\ Mild(s)
      /\ s.tags \subseteq Kept \cup {"clock_skew"} /\ (s.tags = {} => s = e)
  <2>1. CASE lead = 0
    <3>1. s = d
      BY <2>1 DEF Skewed
    <3>2. Mild(s)
      BY <1>1, <3>1 DEF Mild
    <3> QED BY <1>1, <3>1, <3>2
  <2>2. CASE lead # 0
    <3> DEFINE y == [d EXCEPT !.ts = d.ingested + lead]
    <3>0. lead \in 0 .. 280 /\ d.ingested \in Int
      BY <1>1, EventFields DEF Drawable
    <3>1. /\ y \in Event /\ y.id = d.id /\ y.wellFormed = d.wellFormed /\ y.tags = d.tags
          /\ y.ts = d.ingested + lead /\ y.ingested = d.ingested
      <4>1. d.ingested + lead \in Int
        BY <3>0
      <4>2. d \in Event
        BY <1>1
      <4> QED BY <4>1, <4>2, TimestampSet
    <3>2. s = Tag(y, {"clock_skew"}) /\ {"clock_skew"} \in SUBSET Labels
      BY <2>2 DEF Skewed, Labels
    <3> HIDE DEF y
    <3>3. /\ s \in Event /\ s.tags = y.tags \cup {"clock_skew"} /\ s.id = y.id
          /\ s.wellFormed = y.wellFormed /\ s.ts = y.ts /\ s.ingested = y.ingested
      BY <3>1, <3>2, TagKeeps
    <3>4. Mild(s)
      <4>1. s.ts = d.ingested + lead /\ s.ingested = d.ingested
        BY <3>1, <3>3
      <4> QED BY <3>0, <4>1 DEF Mild, Drift
    <3>5. s.tags \subseteq Kept \cup {"clock_skew"} /\ s.tags # {}
      BY <1>1, <3>1, <3>3
    <3> QED BY <1>1, <3>1, <3>3, <3>4, <3>5
  <2> QED BY <2>1, <2>2
<1> HIDE DEF s
<1>3. x = Damaged(s, damage)
  BY DEF s, d
<1>4. CASE damage = "none"
  <2>1. x = s
    BY <1>3, <1>4 DEF Damaged
  <2> QED BY <1>2, <2>1 DEF IsCopy
<1>5. CASE damage = "json" \/ damage = "harmless"
  <2> DEFINE labels == IF damage = "json" THEN {"malformed_json", "malformed"} ELSE {"malformed"}
  <2>1. x = Tag(s, labels) /\ labels \in SUBSET Labels /\ "malformed" \in labels
        /\ "duplicate" \notin labels
    BY <1>3, <1>5 DEF Damaged, Labels
  <2> HIDE DEF labels
  <2>2. /\ x \in Event /\ x.tags = s.tags \cup labels /\ x.id = s.id
        /\ x.ts = s.ts /\ x.ingested = s.ingested
    BY <1>2, <2>1, TagKeeps
  <2>3. Drift(x) = Drift(s)
    BY <2>2 DEF Drift
  <2>4. Mild(x)
    BY <1>2, <2>3 DEF Mild
  <2> QED BY <1>2, <2>1, <2>2, <2>4 DEF IsCopy
<1>6. CASE damage = "payload"
  <2> DEFINE y == [s EXCEPT !.wellFormed = FALSE]
  <2>1. /\ y \in Event /\ y.id = s.id /\ y.tags = s.tags /\ y.ts = s.ts /\ y.ingested = s.ingested
    BY <1>2, PayloadDamaged
  <2>2. x = Tag(y, {"malformed"}) /\ {"malformed"} \in SUBSET Labels
    BY <1>3, <1>6 DEF Damaged, Labels
  <2> HIDE DEF y
  <2>3. /\ x \in Event /\ x.tags = y.tags \cup {"malformed"} /\ x.id = y.id
        /\ x.ts = y.ts /\ x.ingested = y.ingested
    BY <2>1, <2>2, TagKeeps
  <2>4. Drift(x) = Drift(s)
    BY <2>1, <2>3 DEF Drift
  <2>5. Mild(x)
    BY <1>2, <2>4 DEF Mild
  <2> QED BY <1>2, <2>1, <2>3, <2>5 DEF IsCopy
<1> QED BY <1>4, <1>5, <1>6 DEF Drawable, Damages

LEMMA MutateKeeps ==
    ASSUME AnomalyInv, NEW kind, NEW delay, NEW lead, NEW damage, Mutate(kind, delay, lead, damage),
           Drawable(kind, delay, lead, damage)
    PROVE  AnomalyInv'
<1> DEFINE x == Damaged(Skewed(Delayed(events[at], kind, delay), lead), damage)
           hit == [late_arrivals  |-> IF kind = "late_arrival" THEN 1 ELSE 0,
                   out_of_order   |-> IF kind = "out_of_order" THEN 1 ELSE 0,
                   clock_skewed   |-> IF lead > 0 THEN 1 ELSE 0,
                   malformed_json |-> IF damage = "json" THEN 1 ELSE 0,
                   malformed      |-> IF damage \in {"payload", "harmless"} THEN 1 ELSE 0]
           D   == {"late_arrivals", "out_of_order", "clock_skewed", "malformed_json", "malformed"}
           n   == Len(events)
<1>1. /\ phase = "mutate" /\ at <= n /\ events' = [events EXCEPT ![at] = x] /\ Count(hit)
      /\ at' = at + 1 /\ UNCHANGED <<phase, good>>
  BY DEF Mutate
<1>2. n \in Nat /\ DOMAIN events = 1 .. n /\ \A i \in 1 .. n : events[i] \in Event
  BY AnomalyTypes
<1>3. hit \in [D -> Nat]
  OBVIOUS
<1>4. D \in SUBSET Counters /\ "duplicates" \in Counters \ D /\ "orphaned_trips" \in Counters \ D
  BY DEF Counters
<1> HIDE DEF x, hit, D, n
<1>5. at \in 1 .. n /\ report \in [Counters -> Nat] /\ report.duplicates = 0
  BY <1>1, <1>2 DEF AnomalyInv, StreamOK, BeforeCopies, n
<1>6. /\ report' \in [Counters -> Nat] /\ Drawn(report') <= MaxAnomalies
      /\ report'.duplicates = report.duplicates /\ report'.orphaned_trips = report.orphaned_trips
  <2>1. /\ report' \in [Counters -> Nat] /\ Drawn(report') <= MaxAnomalies
        /\ \A c \in Counters : report'[c] = report[c] + (IF c \in D THEN hit[c] ELSE 0)
    BY <1>1, <1>3, <1>4, <1>5, CountAdds
  <2> QED BY <1>4, <1>5, <2>1
<1>7. events[at] \in Event /\ Pristine(events[at]) /\ Labelled(events[at], good)
  BY <1>1, <1>2, <1>5 DEF AnomalyInv, BeforeCopies
<1>8. /\ x \in Event /\ x.id = events[at].id /\ ~ IsCopy(x) /\ Mild(x)
      /\ Labelled(x, good)
  <2>1. /\ x \in Event /\ x.id = events[at].id /\ ~ IsCopy(x) /\ Mild(x)
        /\ "malformed" \notin x.tags => x.wellFormed /\ "malformed_json" \notin x.tags
        /\ x.tags = {} => x = events[at]
    BY <1>7, MutationIsLabelled DEF x
  <2> QED BY <1>7, <2>1 DEF Labelled
<1>9. /\ events' \in Seq(Event) /\ Len(events') = n /\ DOMAIN events' = 1 .. n
      /\ \A i \in 1 .. n : events'[i] = IF i = at THEN x ELSE events[i]
  <2>1. events \in Seq(Event)
    BY DEF AnomalyInv, StreamOK
  <2>2. events' \in Seq(Event) /\ Len(events') = n
    BY <1>1, <1>5, <1>8, <2>1, ExceptSeq DEF n
  <2> QED BY <1>1, <1>2, <1>5, <2>2
<1>10. StreamOK'
  BY <1>1, <1>2, <1>5, <1>6, <1>9 DEF AnomalyInv, StreamOK
<1>11. Accounted'
  BY <1>1, <1>6, <1>9 DEF AnomalyInv, Accounted, n
<1>12. \A i \in 1 .. n : events'[i].id = events[i].id /\ ~ IsCopy(events'[i]) /\ ~ IsCopy(events[i])
  <2>1. \A i \in 1 .. n : ~ IsCopy(events[i])
    BY <1>1, <1>2, InjectedOnce
  <2> QED BY <1>8, <1>9, <2>1
<1>13. Distinct(events')
  <2>1. \A i, j \in 1 .. n : events[i].id = events[j].id => i = j
    BY <1>2, <1>12 DEF AnomalyInv, Distinct
  <2> QED BY <1>9, <1>12, <2>1 DEF Distinct
<1>14. \A i \in DOMAIN events' : Labelled(events'[i], good')
  <2>1. \A i \in 1 .. n : Labelled(events[i], good)
    BY <1>2 DEF AnomalyInv
  <2> QED BY <1>1, <1>8, <1>9, <2>1
<1>15. BeforeOrphans' /\ Emitted'
  BY <1>1 DEF BeforeOrphans, Emitted
<1>16. BeforeCopies'
  <2>1. \A i \in 1 .. n : Mild(events[i]) /\ (i >= at => Pristine(events[i]))
    BY <1>1, <1>2 DEF AnomalyInv, BeforeCopies
  <2>2. ASSUME NEW i \in 1 .. n PROVE Mild(events'[i])
    <3>1. events'[i] = x \/ events'[i] = events[i]
      BY <1>9
    <3> QED BY <1>8, <2>1, <3>1
  <2>3. ASSUME NEW i \in 1 .. n, i >= at + 1 PROVE Pristine(events'[i])
    <3>1. events'[i] = events[i] /\ i >= at
      BY <1>5, <1>9, <2>3
    <3> QED BY <2>1, <3>1
  <2> QED BY <1>1, <1>5, <1>6, <1>9, <1>12, <2>2, <2>3 DEF BeforeCopies
<1> QED BY <1>10, <1>11, <1>13, <1>14, <1>15, <1>16 DEF AnomalyInv

LEMMA CopiesAdd ==
    ASSUME NEW e, NEW x, Mild(e), NEW a \in Int, NEW b \in Int, NEW c \in 2 .. 45,
           Drift(e) = a - b, Drift(x) = (a + c) - b
    PROVE  Bounded(x)
BY DEF Mild, Bounded

LEMMA CopyIsLater ==
    ASSUME NEW e \in Event, Mild(e), NEW delay \in 2 .. 45,
           NEW x, x = CopyOf(e, CopiedAt(e, delay))
    PROVE  /\ x \in Event /\ x.id = e.id /\ IsCopy(x) /\ Bounded(x)
           /\ x.tags = e.tags \cup {"duplicate"} /\ x.wellFormed = e.wellFormed
           /\ e.ingested < x.ingested /\ x = CopyOf(e, x.ingested)
<1> DEFINE v == CopiedAt(e, delay)
           y == [e EXCEPT !.ingested = v]
<1>1. PICK a \in Int : a = e.ingested
  BY EventFields
<1>2. PICK b \in Int : b = e.ts
  BY EventFields
<1>3. v = a + delay /\ v \in Int
  BY <1>1 DEF CopiedAt
<1> HIDE DEF v
<1>4. /\ y \in Event /\ y.id = e.id /\ y.wellFormed = e.wellFormed /\ y.tags = e.tags
      /\ y.ts = e.ts /\ y.ingested = v
  BY <1>3, ArrivalSet
<1>5. x = Tag(y, {"duplicate"}) /\ {"duplicate"} \in SUBSET Labels
  BY DEF v, Labels, CopyOf
<1> HIDE DEF y
<1>6. /\ x \in Event /\ x.tags = e.tags \cup {"duplicate"} /\ x.id = e.id
      /\ x.wellFormed = e.wellFormed /\ x.ts = e.ts /\ x.ingested = v
  <2>1. /\ x \in Event /\ x.tags = y.tags \cup {"duplicate"} /\ x.id = y.id
        /\ x.wellFormed = y.wellFormed /\ x.ts = y.ts /\ x.ingested = y.ingested
    BY <1>4, <1>5, TagKeeps
  <2> QED BY <1>4, <2>1
<1>7. e.ingested < x.ingested
  BY <1>1, <1>3, <1>6
<1>8. Bounded(x)
  <2>1. Drift(e) = a - b /\ Drift(x) = (a + delay) - b
    BY <1>1, <1>2, <1>3, <1>6 DEF Drift
  <2>2. Mild(e)
    OBVIOUS
  <2> QED BY <2>1, <2>2, CopiesAdd
<1>9. x = CopyOf(e, x.ingested)
  BY <1>6 DEF v
<1> QED BY <1>6, <1>7, <1>8, <1>9 DEF IsCopy

LEMMA DuplicateKeeps ==
    ASSUME AnomalyInv, NEW chosen \in SUBSET DOMAIN events, NEW delays \in [chosen -> DuplicateDelays],
           Duplicate(delays)
    PROVE  AnomalyInv'
<1> DEFINE picked   == InPlace(DOMAIN delays)
           Clone(i) == Tag([events[i] EXCEPT !.ingested = CopiedAt(events[i], delays[i])],
                           {"duplicate"})
           clones   == [k \in DOMAIN picked |-> Clone(picked[k])]
           all      == events \o clones
           n        == Len(events)
           m        == Cardinality(chosen)
<1>1. /\ phase = "mutate" /\ phase' = "write" /\ at > n /\ events' = Sorted(all)
      /\ Count([duplicates |-> Len(picked)]) /\ UNCHANGED <<good, at>>
  BY DEF Duplicate
<1>2. n \in Nat /\ DOMAIN events = 1 .. n /\ \A i \in 1 .. n : events[i] \in Event
  BY AnomalyTypes
<1>3. IsFiniteSet(chosen) /\ chosen \subseteq 1 .. n /\ chosen \subseteq Nat /\ DOMAIN delays = chosen
  <2>1. IsFiniteSet(1 .. n)
    BY <1>2, AnomalyTypes
  <2> QED BY <1>2, <2>1, FS_Subset
<1>4. \A i \in chosen : delays[i] \in 2 .. 45
  <2>1. DuplicateDelays \subseteq 2 .. 45
    BY AnomalyAssumption DEF AnomalyAssumption
  <2> QED BY <2>1
<1>5. /\ m \in Nat /\ DOMAIN picked = 1 .. m /\ Len(picked) = m
      /\ \A k \in 1 .. m : picked[k] \in chosen
      /\ \A k, l \in 1 .. m : k # l => picked[k] # picked[l]
  BY <1>3, InPlaceAscends
<1> HIDE DEF picked, m, n
<1>6. \A i \in 1 .. n : Mild(events[i]) /\ ~ IsCopy(events[i]) /\ Labelled(events[i], good)
  BY <1>1, <1>2 DEF AnomalyInv, BeforeCopies
<1>7. ASSUME NEW k \in 1 .. m
      PROVE  /\ picked[k] \in 1 .. n /\ clones[k] \in Event
             /\ clones[k].id = events[picked[k]].id /\ IsCopy(clones[k]) /\ Bounded(clones[k])
             /\ clones[k].tags = events[picked[k]].tags \cup {"duplicate"}
             /\ clones[k].wellFormed = events[picked[k]].wellFormed
             /\ events[picked[k]].ingested < clones[k].ingested
             /\ clones[k] = CopyOf(events[picked[k]], clones[k].ingested)
  <2>1. /\ picked[k] \in 1 .. n /\ events[picked[k]] \in Event /\ Mild(events[picked[k]])
        /\ delays[picked[k]] \in 2 .. 45
    BY <1>2, <1>3, <1>4, <1>5, <1>6
  <2>2. clones[k] = Clone(picked[k])
    BY <1>5
  <2> HIDE DEF clones
  <2>3. PICK e \in Event : e = events[picked[k]]
    BY <2>1
  <2>4. PICK d \in 2 .. 45 : d = delays[picked[k]]
    BY <2>1
  <2>5. clones[k] = CopyOf(e, CopiedAt(e, d))
    BY <2>2, <2>3, <2>4 DEF CopyOf
  <2>6. Mild(e)
    BY <2>1, <2>3
  <2>7. /\ clones[k] \in Event /\ clones[k].id = e.id /\ IsCopy(clones[k]) /\ Bounded(clones[k])
        /\ clones[k].tags = e.tags \cup {"duplicate"} /\ clones[k].wellFormed = e.wellFormed
        /\ e.ingested < clones[k].ingested /\ clones[k] = CopyOf(e, clones[k].ingested)
    BY <2>5, <2>6, CopyIsLater
  <2> QED BY <2>1, <2>3, <2>7
<1>8. clones \in Seq(Event) /\ Len(clones) = m
  <2>1. clones = [k \in 1 .. m |-> clones[k]]
    BY <1>5
  <2> HIDE DEF clones
  <2> QED BY <1>5, <1>7, <2>1, IsASeq
<1> HIDE DEF clones
<1>9. /\ all \in Seq(Event) /\ Len(all) = n + m /\ DOMAIN all = 1 .. n + m
      /\ \A i \in 1 .. n + m : all[i] = IF i <= n THEN events[i] ELSE clones[i - n]
  <2>1. events \in Seq(Event)
    BY DEF AnomalyInv, StreamOK
  <2>2. all \in Seq(Event) /\ Len(all) = n + m
    BY <1>8, <2>1 DEF n
  <2>3. \A i \in 1 .. n + m : all[i] = IF i <= n THEN events[i] ELSE clones[i - n]
    BY <1>8, <2>1 DEF n
  <2>4. DOMAIN all = 1 .. n + m
    BY <2>2, LenProperties
  <2> QED BY <2>2, <2>3, <2>4
<1>10. /\ \A i \in 1 .. n + m : \/ (i \in 1 .. n /\ all[i] = events[i])
                               \/ (i - n \in 1 .. m /\ all[i] = clones[i - n])
       /\ \A i \in 1 .. n : i \in 1 .. n + m /\ all[i] = events[i]
  <2>1. \A i \in 1 .. n + m : i \in 1 .. n \/ (~ (i <= n) /\ i - n \in 1 .. m)
    BY <1>2, <1>5
  <2>2. \A i \in 1 .. n : i \in 1 .. n + m /\ i <= n
    BY <1>2, <1>5
  <2> QED BY <1>9, <2>1, <2>2
<1> HIDE DEF all
<1>11. \A i, j \in 1 .. n : events[i].id = events[j].id => i = j
  BY <1>2, <1>6 DEF AnomalyInv, Distinct
<1>12. Distinct(all)
  <2> SUFFICES ASSUME NEW i \in 1 .. n + m, NEW j \in 1 .. n + m, all[i].id = all[j].id,
                      IsCopy(all[i]) <=> IsCopy(all[j])
               PROVE  i = j
    BY <1>9 DEF Distinct
  <2>1. CASE i \in 1 .. n /\ all[i] = events[i]
    <3>1. j \in 1 .. n /\ all[j] = events[j]
      BY <1>6, <1>7, <1>10, <2>1
    <3> QED BY <1>11, <2>1, <3>1
  <2>2. CASE i - n \in 1 .. m /\ all[i] = clones[i - n]
    <3>1. j - n \in 1 .. m /\ all[j] = clones[j - n]
      BY <1>6, <1>7, <1>10, <2>2
    <3>2. /\ picked[i - n] \in 1 .. n /\ picked[j - n] \in 1 .. n
          /\ events[picked[i - n]].id = events[picked[j - n]].id
      BY <1>7, <2>2, <3>1
    <3>3. picked[i - n] = picked[j - n]
      BY <1>11, <3>2
    <3>4. i - n = j - n
      BY <1>5, <2>2, <3>1, <3>3
    <3> QED BY <1>2, <1>5, <3>4
  <2> QED BY <1>10, <2>1, <2>2
<1>13. ASSUME NEW i \in 1 .. n + m, IsCopy(all[i])
       PROVE  /\ i - n \in 1 .. m /\ picked[i - n] \in 1 .. n + m /\ ~ IsCopy(all[picked[i - n]])
              /\ all[i].id = all[picked[i - n]].id
              /\ all[picked[i - n]].ingested < all[i].ingested
              /\ all[i] = CopyOf(all[picked[i - n]], all[i].ingested)
  <2>1. i - n \in 1 .. m /\ all[i] = clones[i - n]
    BY <1>6, <1>10, <1>13
  <2>2. picked[i - n] \in 1 .. n /\ all[picked[i - n]] = events[picked[i - n]]
    BY <1>7, <1>10, <2>1
  <2> QED BY <1>6, <1>7, <1>10, <2>1, <2>2
<1>14. Unambiguous(all)
  <2>1. \A i \in 1 .. n + m : all[i] \in Event
    BY <1>9, ElementOfSeq
  <2>2. ASSUME NEW i \in 1 .. n + m, NEW j \in 1 .. n + m, IsCopy(all[i]), ~ IsCopy(all[j]),
               all[i].id = all[j].id
        PROVE  all[i].ingested # all[j].ingested
    <3>1. /\ picked[i - n] \in 1 .. n + m /\ ~ IsCopy(all[picked[i - n]])
          /\ all[j].id = all[picked[i - n]].id
          /\ all[picked[i - n]].ingested < all[i].ingested
      BY <1>13, <2>2
    <3>2. j = picked[i - n]
      BY <1>9, <1>12, <2>2, <3>1 DEF Distinct
    <3>3. all[i].ingested \in Int /\ all[j].ingested \in Int
      BY <2>1, EventFields
    <3> QED BY <3>1, <3>2, <3>3
  <2>3. ASSUME NEW i \in 1 .. n + m, NEW j \in 1 .. n + m, i # j, all[i].id = all[j].id
        PROVE  all[i].ingested # all[j].ingested
    <3>1. ~ (IsCopy(all[i]) <=> IsCopy(all[j]))
      BY <1>9, <1>12, <2>3 DEF Distinct
    <3> QED BY <2>2, <2>3, <3>1
  <2> QED BY <1>9, <2>3 DEF Unambiguous
<1>15. /\ events' \in Seq(Event) /\ Len(events') = n + m
       /\ \A k \in DOMAIN events' : \E i \in 1 .. n + m : events'[k] = all[i]
       /\ Distinct(events')
       /\ \A k \in DOMAIN events' : IsCopy(events'[k]) =>
             \E l \in 1 .. k - 1 : events'[k] = CopyOf(events'[l], events'[k].ingested)
  <2>1. \A i \in DOMAIN all : IsCopy(all[i]) =>
           \E j \in DOMAIN all :
               all[j].ingested < all[i].ingested /\ all[i] = CopyOf(all[j], all[i].ingested)
    BY <1>9, <1>13
  <2>2. all \in Seq(Event) /\ Len(all) = n + m /\ DOMAIN all = 1 .. n + m
    BY <1>9
  <2> DEFINE S == Sorted(all)
  <2>3. /\ S \in Seq(Event) /\ Len(S) = Len(all)
        /\ \A k \in DOMAIN S : \E i \in DOMAIN all : S[k] = all[i]
        /\ Distinct(S)
        /\ \A k \in DOMAIN S : IsCopy(S[k]) =>
              \E l \in 1 .. k - 1 : S[k] = CopyOf(S[l], S[k].ingested)
    BY <1>12, <1>14, <2>1, <2>2, SortedKeeps
  <2>4. events' = S
    BY <1>1
  <2> HIDE DEF S
  <2> QED BY <2>2, <2>3, <2>4
<1>16. /\ report \in [Counters -> Nat] /\ report.duplicates = 0
       /\ {"duplicates"} \in SUBSET Counters
       /\ "orphaned_trips" \in Counters /\ "duplicates" \in Counters
  BY <1>1 DEF AnomalyInv, StreamOK, BeforeCopies, Counters
<1>17. /\ report' \in [Counters -> Nat] /\ Drawn(report') <= MaxAnomalies
       /\ report'.orphaned_trips = report.orphaned_trips /\ report'.duplicates = m
  <2>1. [duplicates |-> Len(picked)] \in [{"duplicates"} -> Nat]
    BY <1>5
  <2>2. /\ report' \in [Counters -> Nat] /\ Drawn(report') <= MaxAnomalies
        /\ \A c \in Counters : report'[c] = report[c] +
              (IF c \in {"duplicates"} THEN [duplicates |-> Len(picked)][c] ELSE 0)
    BY <1>1, <1>16, <2>1, CountAdds
  <2> QED BY <1>5, <1>16, <2>2
<1>18. StreamOK'
  BY <1>1, <1>2, <1>5, <1>15, <1>17 DEF AnomalyInv, StreamOK, n
<1>19. Accounted'
  <2>1. Len(good) \in Nat /\ n = Len(good) - report.orphaned_trips + report.duplicates
    BY AnomalyTypes DEF AnomalyInv, Accounted, n
  <2> QED BY <1>1, <1>2, <1>5, <1>15, <1>16, <1>17, <2>1 DEF Accounted
<1>20. ASSUME NEW i \in 1 .. n + m PROVE Labelled(all[i], good) /\ Bounded(all[i])
  <2>1. CASE i \in 1 .. n /\ all[i] = events[i]
    BY <1>2, <1>6, <2>1, DriftsNest
  <2>2. CASE i - n \in 1 .. m /\ all[i] = clones[i - n]
    <3> DEFINE o == events[picked[i - n]]
               c == clones[i - n]
    <3>1. /\ Labelled(o, good) /\ c.tags = o.tags \cup {"duplicate"} /\ c.wellFormed = o.wellFormed
          /\ Bounded(c)
      BY <1>6, <1>7, <2>2
    <3> HIDE DEF o, c
    <3>2. Labelled(c, good)
      BY <3>1 DEF Labelled
    <3> QED BY <2>2, <3>1, <3>2 DEF c
  <2> QED BY <1>10, <2>1, <2>2
<1>21. \A k \in DOMAIN events' : Labelled(events'[k], good') /\ Bounded(events'[k])
  <2> SUFFICES ASSUME NEW k \in DOMAIN events' PROVE Labelled(events'[k], good) /\ Bounded(events'[k])
    BY <1>1
  <2>1. PICK i \in 1 .. n + m : events'[k] = all[i]
    BY <1>15
  <2> QED BY <1>20, <2>1
<1>22. BeforeOrphans' /\ BeforeCopies'
  BY <1>1 DEF BeforeOrphans, BeforeCopies
<1>23. Emitted'
  BY <1>15, <1>21 DEF Emitted, CopyFollowsOriginal, IsCopy, CopyOf
<1> QED BY <1>15, <1>18, <1>19, <1>21, <1>22, <1>23 DEF AnomalyInv

LEMMA InjectKeeps == AnomalyInv /\ AnomalyNext => AnomalyInv'
<1> SUFFICES ASSUME AnomalyInv, AnomalyNext PROVE AnomalyInv'
  OBVIOUS
<1>1. CASE Disabled
  BY <1>1, DisabledKeeps
<1>2. CASE \E targets : Orphan(targets)
  BY <1>2, OrphanKeeps
<1>3. ASSUME NEW lead \in {0} \cup SkewLeads, NEW damage \in Damages,
             \/ Mutate("on_time", 0, lead, damage)
             \/ \E d \in LateDelays : Mutate("late_arrival", d, lead, damage)
             \/ \E d \in DisorderDelays : Mutate("out_of_order", d, lead, damage)
      PROVE  AnomalyInv'
  <2>00. SkewLeads \subseteq 30 .. 280
    BY AnomalyAssumption DEF AnomalyAssumption
  <2>01. LateDelays \subseteq 600 .. 5400
    BY AnomalyAssumption DEF AnomalyAssumption
  <2>02. DisorderDelays \subseteq 20 .. 240
    BY AnomalyAssumption DEF AnomalyAssumption
  <2>1. lead \in 0 .. 280 /\ LateDelays \subseteq 0 .. 5400 /\ DisorderDelays \subseteq 0 .. 5400
    BY <2>00, <2>01, <2>02
  <2>2. PICK kind \in {"on_time"} \cup Late, d \in {0} \cup LateDelays \cup DisorderDelays :
          Mutate(kind, d, lead, damage)
    BY <1>3 DEF Late
  <2>3. d \in 0 .. 5400
    BY <2>1
  <2>4. Drawable(kind, d, lead, damage)
    BY <2>1, <2>3 DEF Drawable
  <2> QED BY <2>2, <2>4, MutateKeeps
<1>4. CASE \E chosen \in SUBSET DOMAIN events :
             \E delays \in [chosen -> DuplicateDelays] : Duplicate(delays)
  BY <1>4, DuplicateKeeps
<1> QED BY <1>1, <1>2, <1>3, <1>4 DEF AnomalyNext, Damages

--------------------------------------------------------------------------------
(* What holds of the stream when it is emitted *)

LEMMA BoundedIsInTime ==
    ASSUME NEW e, Bounded(e)
    PROVE  ~ (Drift(e) < - ClockSkewTolerance) /\ ~ (Drift(e) > MaxLateness)
<1>1. PICK v \in -280 .. 5457 : v = Drift(e)
  BY DEF Bounded
<1>2. ~ (v < - ClockSkewTolerance) /\ ~ (v > MaxLateness)
  BY DEF ClockSkewTolerance, MaxLateness
<1> QED BY <1>1, <1>2

LEMMA EmittedStream ==
    ASSUME AnomalyInv
    PROVE  OnlyMalformedRejected /\ UnlabelledIsUntouched /\ CopyFollowsOriginal
<1>1. OnlyMalformedRejected
  <2> SUFFICES ASSUME phase = "write", NEW e \in ToSet(events), Rejection(e) # "NONE"
               PROVE  "malformed" \in e.tags
    BY DEF OnlyMalformedRejected
  <2>1. PICK i \in DOMAIN events : e = events[i]
    BY DEF ToSet
  <2>2. Bounded(e) /\ e \in Event
    BY <2>1, AnomalyTypes DEF AnomalyInv, Emitted
  <2>3. "malformed" \notin e.tags => e.wellFormed /\ "malformed_json" \notin e.tags
    BY <2>1 DEF AnomalyInv, Labelled
  <2>4. ~ (e.ingested - e.ts < - ClockSkewTolerance) /\ ~ (e.ingested - e.ts > MaxLateness)
    BY <2>2, BoundedIsInTime DEF Drift
  <2> QED BY <2>3, <2>4 DEF Rejection
<1>2. UnlabelledIsUntouched
  BY DEF AnomalyInv, Labelled, Accounted, ToSet, UnlabelledIsUntouched
<1>3. CopyFollowsOriginal
  <2>1. CASE phase = "write"
    BY <2>1 DEF AnomalyInv, Emitted
  <2>2. CASE phase # "write"
    BY <2>2 DEF CopyFollowsOriginal
  <2> QED BY <2>1, <2>2
<1> QED BY <1>1, <1>2, <1>3
================================================================================
