------------------------------- MODULE Anomalies -------------------------------
(***************************************************************************)
(* Deliberate damage to a known-good stream (event_generator/anomalies.py) *)
(* and what the consumer's Validator makes of it (ingestion/validation.py).*)
(*                                                                         *)
(* A payload is good or bad: bad is what the event's payload schema        *)
(* rejects.  Times are seconds.                                            *)
(***************************************************************************)
EXTENDS Integers, Sequences, SequencesExt, FiniteSets

CONSTANTS
    Chain,          \* the known-good events: [id, type, key, correlation, ts]
    Lags,           \* ingestion_lag_sec
    LateDelays, DisorderDelays, SkewLeads, DuplicateDelays,  \* AnomalyConfig
    MaxAnomalies    \* bound: anomalies drawn in a run

\* Sampler.uuid does not repeat itself; the ranges of calibration_params.json and AnomalyConfig.
ASSUME AnomalyAssumption ==
    /\ Chain \in Seq([id : Nat, type : STRING, key : STRING, correlation : STRING, ts : Int])
    /\ \A i, j \in DOMAIN Chain : Chain[i].id = Chain[j].id => i = j
    /\ Lags \subseteq 0 .. 12
    /\ LateDelays \subseteq 600 .. 5400 /\ DisorderDelays \subseteq 20 .. 240
    /\ SkewLeads \subseteq 30 .. 280 /\ DuplicateDelays \subseteq 2 .. 45
    /\ MaxAnomalies \in Nat

VARIABLES
    phase,          \* of inject(), then "write"
    good,           \* auxiliary: the events before inject()
    events,         \* surviving, later the stream that is emitted
    at,             \* the event the mutations are drawn for
    report          \* AnomalyReport

anomalyVars == <<phase, good, events, at, report>>

Counters == {"duplicates", "late_arrivals", "out_of_order", "malformed",
             "malformed_json", "orphaned_trips", "clock_skewed"}

Drawn(r) == r.duplicates + r.late_arrivals + r.out_of_order + r.malformed + r.malformed_json
              + r.orphaned_trips + r.clock_skewed

Count(hit) ==
    /\ report' = [c \in Counters |-> report[c] + IF c \in DOMAIN hit THEN hit[c] ELSE 0]
    /\ Drawn(report') <= MaxAnomalies

Tag(e, labels) == [e EXCEPT !.tags = @ \cup labels]

--------------------------------------------------------------------------------
(* The contract *)

(* Mutant: one minute.                                                     *)
ClockSkewToleranceMinute == 60

ClockSkewTolerance == 300
MaxLateness        == 7 * 86400

(***************************************************************************)
(* Validator.validate.  Every event of the generator is an object with all *)
(* envelope fields, a known type, a semantic version and timestamps that   *)
(* parse: to_dict writes them whatever was done to the payload.  What is   *)
(* left to reject is truncated JSON, a drift out of bounds and a payload.  *)
(***************************************************************************)
Rejection(e) ==
    LET drift == e.ingested - e.ts
    IN  CASE "malformed_json" \in e.tags  -> "MALFORMED_JSON"
          [] drift < - ClockSkewTolerance -> "TIMESTAMP_OUT_OF_BOUNDS"
          [] drift > MaxLateness          -> "TIMESTAMP_OUT_OF_BOUNDS"
          [] ~ e.wellFormed               -> "SCHEMA_VIOLATION"
          [] OTHER                        -> "NONE"

--------------------------------------------------------------------------------
(* inject() *)

\* TripSimulator._event: the event, received a lag later.
Known(e, lag) ==
    [id |-> e.id, type |-> e.type, key |-> e.key, correlation |-> e.correlation,
     ts |-> e.ts, ingested |-> e.ts + lag, wellFormed |-> TRUE, tags |-> {}]

AnomalyInit ==
    /\ phase = "orphan" /\ at = 1
    /\ good \in { [i \in DOMAIN Chain |-> Known(Chain[i], lag[i])] :
                    lag \in [DOMAIN Chain -> Lags] }
    /\ events = good
    /\ report = [c \in Counters |-> 0]

(***************************************************************************)
(* The positions I in the order that the relation R puts them in, and in   *)
(* their own.  (The provers know no definition of SortSeq and SelectSeq.)  *)
(***************************************************************************)
Arranged(I, R) ==
    [k \in 1 .. Cardinality(I) |-> CHOOSE i \in I : Cardinality({j \in I : <<j, i>> \in R}) = k - 1]

InPlace(I) == Arranged(I, {p \in I \X I : p[1] < p[2]})

\* sort by (ingested_at, event_id, event_type).
Earlier(es) ==
    {p \in (DOMAIN es) \X (DOMAIN es) :
        \/ es[p[1]].ingested < es[p[2]].ingested
        \/ es[p[1]].ingested = es[p[2]].ingested /\ es[p[1]].id < es[p[2]].id}

Sorted(es) ==
    LET order == Arranged(DOMAIN es, Earlier(es))
    IN  [k \in DOMAIN order |-> es[order[k]]]

\* total_rate() is zero.
Disabled ==
    /\ phase = "orphan"
    /\ phase' = "write"
    /\ events' = Sorted(events)
    /\ UNCHANGED <<good, at, report>>

(***************************************************************************)
(* The RideRequested of a chosen trip is dropped and what is left of the   *)
(* trip is tagged.  A driver's session may be chosen too, and is tagged    *)
(* although nothing of it is dropped.                                      *)
(***************************************************************************)
Orphan(targets) ==
    LET IsTarget(e)  == e.correlation \in targets
        IsDropped(e) == IsTarget(e) /\ e.type = "RideRequested"
        Label(e)     == IF IsTarget(e) THEN Tag(e, {"orphan_source_dropped"}) ELSE e
        kept         == InPlace({i \in DOMAIN events : ~ IsDropped(events[i])})
    IN  /\ phase = "orphan"
        /\ phase' = "mutate"
        /\ events' = [k \in DOMAIN kept |-> Label(events[kept[k]])]
        /\ Count([orphaned_trips |-> Len(events) - Len(kept)])
        /\ UNCHANGED <<good, at>>

(* Mutant: the delay is not labelled.                                      *)
DelayedSilently(e, kind, d) == [e EXCEPT !.ingested = @ + d]

\* Only one of the two delays, and the tag that tells which.
Delayed(e, kind, d) ==
    IF kind = "on_time" THEN e ELSE Tag([e EXCEPT !.ingested = @ + d], {kind})

\* The producer's clock is ahead of the arrival it has by now.
Skewed(e, lead) ==
    IF lead = 0 THEN e ELSE Tag([e EXCEPT !.ts = e.ingested + lead], {"clock_skew"})

(***************************************************************************)
(* A quarter of the malformed events are to be truncated when serialised;  *)
(* _corrupt_payload damages the others, in a way the schema may not mind   *)
(* (an optional field dropped, no money field to make negative).           *)
(***************************************************************************)
Damaged(e, damage) ==
    CASE damage = "none"     -> e
      [] damage = "json"     -> Tag(e, {"malformed_json", "malformed"})
      [] damage = "payload"  -> Tag([e EXCEPT !.wellFormed = FALSE], {"malformed"})
      [] damage = "harmless" -> Tag(e, {"malformed"})

(***************************************************************************)
(* One iteration of the loop over the surviving events.                    *)
(***************************************************************************)
Mutate(kind, delay, lead, damage) ==
    LET hit == [late_arrivals  |-> IF kind = "late_arrival" THEN 1 ELSE 0,
                out_of_order   |-> IF kind = "out_of_order" THEN 1 ELSE 0,
                clock_skewed   |-> IF lead > 0 THEN 1 ELSE 0,
                malformed_json |-> IF damage = "json" THEN 1 ELSE 0,
                malformed      |-> IF damage \in {"payload", "harmless"} THEN 1 ELSE 0]
    IN  /\ phase = "mutate" /\ at <= Len(events)
        /\ events' = [events EXCEPT ![at] =
                         Damaged(Skewed(Delayed(events[at], kind, delay), lead), damage)]
        /\ Count(hit)
        /\ at' = at + 1
        /\ UNCHANGED <<phase, good>>

(* Mutant: the delay counts from the event's own time.                     *)
CopiedAtFromEvent(e, delay) == e.ts + delay

CopiedAt(e, delay) == e.ingested + delay

(***************************************************************************)
(* Duplication is last: no copy is made of an event that is yet to be      *)
(* dropped or changed.  Then generate() sorts by arrival.                  *)
(***************************************************************************)
Duplicate(delays) ==
    LET picked   == InPlace(DOMAIN delays)
        Clone(i) == Tag([events[i] EXCEPT !.ingested = CopiedAt(events[i], delays[i])],
                        {"duplicate"})
    IN  /\ phase = "mutate" /\ at > Len(events)
        /\ events' = Sorted(events \o [n \in DOMAIN picked |-> Clone(picked[n])])
        /\ Count([duplicates |-> Len(picked)])
        /\ phase' = "write"
        /\ UNCHANGED <<good, at>>

AnomalyNext ==
    \/ Disabled
    \/ \E targets \in SUBSET {e.correlation : e \in {x \in ToSet(events) : x.type # "DriverOnline"}} :
          Orphan(targets)
    \/ \E lead \in {0} \cup SkewLeads, damage \in {"none", "json", "payload", "harmless"} :
          \/ Mutate("on_time", 0, lead, damage)
          \/ \E d \in LateDelays : Mutate("late_arrival", d, lead, damage)
          \/ \E d \in DisorderDelays : Mutate("out_of_order", d, lead, damage)
    \/ \E chosen \in SUBSET DOMAIN events :
          \E delays \in [chosen -> DuplicateDelays] : Duplicate(delays)

--------------------------------------------------------------------------------
(***************************************************************************)
(* "A malformed event is always a deliberate mutation" (anomalies.py:8):   *)
(* the consumer sends nothing to the DLQ that was not meant for it, however*)
(* late, skewed, orphaned and copied an event is at the same time.         *)
(***************************************************************************)
OnlyMalformedRejected ==
    phase = "write" =>
        \A e \in ToSet(events) : Rejection(e) # "NONE" => "malformed" \in e.tags

(***************************************************************************)
(* "Every anomaly here is labelled" (anomalies.py:4): an event without a   *)
(* label is the event the lifecycle produced, and the stream has as many   *)
(* events as the report accounts for.                                      *)
(***************************************************************************)
UnlabelledIsUntouched ==
    phase = "write" =>
        /\ \A e \in ToSet(events) : e.tags = {} => e \in ToSet(good)
        /\ Len(events) = Len(good) - report.orphaned_trips + report.duplicates

(***************************************************************************)
(* No "duplicate with no original" (anomalies.py:100): a copy is preceded  *)
(* by its original and differs from it in its arrival and its label only.  *)
(***************************************************************************)
CopyFollowsOriginal ==
    phase = "write" =>
        \A i \in DOMAIN events : "duplicate" \in events[i].tags =>
            \E j \in 1 .. i - 1 :
                events[i] = Tag([events[j] EXCEPT !.ingested = events[i].ingested],
                                {"duplicate"})
================================================================================
