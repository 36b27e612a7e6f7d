------------------------------- MODULE Warehouse -------------------------------
(***************************************************************************)
(* The incremental half of the warehouse: the landing zone as staging      *)
(* reads it, int_trips_assembled, and the three marts fed by trip events   *)
(* (fct_trips, fct_trip_events, fct_payments), rebuilt by one dbt run at a *)
(* time while the consumer keeps writing.                                  *)
(*                                                                         *)
(* A row is stamped landed_at when its batch starts to be written and can  *)
(* be read once the file is renamed; a mart row is stamped dbt_loaded_at   *)
(* when its model is built; and the next run looks back Lookback from the  *)
(* newest stamp of its own mart.  Between those three moments the models   *)
(* of one run are built one after the other, each reading the landing zone *)
(* as it then is.                                                          *)
(***************************************************************************)
EXTENDS IncrementalWindow, TripAssembly, FiniteSets

Assembled   == "int_trips_assembled"
FctTrips    == "fct_trips"
FctEvents   == "fct_trip_events"
FctPayments == "fct_payments"

CONSTANTS
    Events,          \* the trip events that may land, records as in TripAssembly
    Marts,           \* the marts a run builds: the DAG's run builds all three
    MaxStall,        \* longest time from stamping a row to its file being readable
    RunBound,        \* dagrun_timeout: longest time from a run's start to its end
    BackfillSlack,   \* how old the last normal load may be when one backfills
    BackfillRanges,  \* bound: the ranges <<from, to>> operators backfill
    MaxClock,        \* bound: the clock stops here
    MaxCopies        \* bound: how often one event is written to the landing zone

ASSUME WarehouseAssumption ==
    /\ IsFiniteSet(Events)
    /\ \A e \in Events : /\ e.kind \in Kinds
                         /\ e.when \in Nat
                         /\ e.driver \in BOOLEAN
    /\ Marts \subseteq {FctTrips, FctEvents, FctPayments}
    \* events of one trip are at different times (the code breaks ties by id)
    /\ \A e, f \in Events : e.trip = f.trip /\ e.when = f.when => e = f
    /\ {MaxStall, RunBound, BackfillSlack, MaxClock, MaxCopies} \subseteq Nat
    /\ MaxClock > 0
    /\ BackfillRanges \subseteq (0 .. MaxClock) \X (0 .. MaxClock)

Trips == { e.trip : e \in Events }
Times == 0 .. MaxClock

OfTrip(es, t) == { e \in es : e.trip = t }

Models == Marts \cup {Assembled}

\* int_trips_assembled is the one upstream TABLE; staging models are views.
Dependents(m) == IF m = Assembled THEN {Assembled, FctTrips} ELSE {m}

VARIABLES
    clock,        \* the wall clock, shared by the consumer and the warehouse
    writing,      \* rows stamped with landed_at in a file not yet renamed
    zone,         \* rows of the landing zone: [event, at], at = landed_at
    assembled,    \* the events int_trips_assembled was last built from
    trips,        \* fct_trips:       [trip, events, expired, loadedAt]
    tripEvents,   \* fct_trip_events: [event, seq, loadedAt]
    payments,     \* fct_payments:    [event, loadedAt]
    run,          \* the dbt run in progress
    swept         \* auxiliary: when each mart last finished a non-backfill build

vars == <<clock, writing, zone, assembled, trips, tripEvents, payments, run, swept>>

marts == <<assembled, trips, tripEvents, payments, swept>>

(***************************************************************************)
(* A run remembers its mode and backfill range, when it started, the       *)
(* models it has not built yet, whether one failed, and (auxiliary)        *)
(* whether nothing became readable in the landing zone since it started.   *)
(***************************************************************************)
Modes == {"none", "normal", "backfill", "full"}

Runs == [mode : Modes, from : Times, to : Times, start : Times,
         todo : SUBSET Models, failed : BOOLEAN, quiet : BOOLEAN]

NoRun == [mode |-> "none", from |-> 0, to |-> 0, start |-> 0,
          todo |-> {}, failed |-> FALSE, quiet |-> FALSE]

NewRun(mode, from, to) ==
    [mode |-> mode, from |-> from, to |-> to, start |-> clock,
     todo |-> Models, failed |-> FALSE, quiet |-> TRUE]

Running == run.mode # "none"
Built   == Running /\ run.todo = {} /\ ~ run.failed

--------------------------------------------------------------------------------
(* Staging.  stg_trip_events keeps one copy of each event, the first by    *)
(* ingested_at and then kafka_offset.  A redelivered copy ties on both, so *)
(* which copy's landed_at survives is up to the engine, view by view.      *)

Staged == { row.event : row \in zone }

(* Mutant: the window filters on business time.                            *)
LandingsByBusinessTime(e) == {e.when}

Landings(e) == { row.at : row \in { r \in zone : r.event = e } }

StagedAt == { at \in [Staged -> Times] : \A e \in Staged : at[e] \in Landings(e) }

Stamps(mart) == { row.loadedAt : row \in mart }

(* is_incremental(), but for a full refresh, which InWindow handles: the   *)
(* table exists once a build of it that was not a backfill has finished.   *)
Incremental(m) == swept[m] > 0

Selected(m, mart, at) ==
    { e \in Staged : Incremental(m) => InWindow(at[e], run, Stamps(mart)) }

--------------------------------------------------------------------------------
Init ==
    /\ clock = 1
    /\ writing = {} /\ zone = {}
    /\ assembled = {} /\ trips = {} /\ tripEvents = {} /\ payments = {}
    /\ run = NoRun
    /\ swept = [m \in Marts |-> 0]

(***************************************************************************)
(* Time passes, but a file is not left unrenamed beyond MaxStall and a run *)
(* is killed at RunBound.                                                  *)
(***************************************************************************)
Tick ==
    /\ clock < MaxClock
    /\ \A row \in writing : clock < row.at + MaxStall
    /\ Running => clock < run.start + RunBound
    /\ clock' = clock + 1
    /\ UNCHANGED <<writing, zone, run, marts>>

(***************************************************************************)
(* The consumer.  Module Ingestion has its detail: here an event is        *)
(* stamped into a file, again after a redelivery or a replay, and the file *)
(* is renamed into the landing zone or dies with the process.              *)
(***************************************************************************)
Copies(e) == Cardinality({ row \in zone \cup writing : row.event = e })

StampRow(e) ==
    /\ e.when <= clock
    /\ Copies(e) < MaxCopies
    /\ writing' = writing \cup {[event |-> e, at |-> clock]}
    /\ UNCHANGED <<clock, zone, run, marts>>

RenameFile(row) ==
    /\ writing' = writing \ {row}
    /\ zone' = zone \cup {row}
    /\ run' = [run EXCEPT !.quiet = FALSE]
    /\ UNCHANGED <<clock, marts>>

LoseFile(row) ==
    /\ writing' = writing \ {row}
    /\ UNCHANGED <<clock, zone, run, marts>>

--------------------------------------------------------------------------------
(* One dbt run at a time: the DAG has max_active_runs=1.                   *)

StartNormal ==
    /\ ~ Running
    /\ run' = NewRun("normal", 0, 0)
    /\ UNCHANGED <<clock, writing, zone, marts>>

StartFullRefresh ==
    /\ ~ Running
    /\ run' = NewRun("full", 0, 0)
    /\ UNCHANGED <<clock, writing, zone, marts>>

(***************************************************************************)
(* An operator's backfill of [from, to).  BackfillSlack is not in the      *)
(* code: it says how long the hourly schedule may have been idle.          *)
(***************************************************************************)
StartBackfill(from, to) ==
    /\ ~ Running
    /\ <<from, to>> \in BackfillRanges
    /\ \A m \in Marts : clock <= swept[m] + BackfillSlack
    /\ run' = NewRun("backfill", from, to)
    /\ UNCHANGED <<clock, writing, zone, marts>>

(***************************************************************************)
(* Each model is one transaction: built, or failed with its dependents     *)
(* skipped.  dbt orders int_trips_assembled before fct_trips; the others   *)
(* are built by any of the four threads at any point of the run.           *)
(***************************************************************************)
Ready(m) ==
    /\ Running
    /\ m \in run.todo
    /\ m = FctTrips => Assembled \notin run.todo

Done(m) == run' = [run EXCEPT !.todo = @ \ {m}]

Sweep(m) ==
    swept' = IF run.mode = "backfill" /\ Incremental(m) THEN swept
             ELSE [swept EXCEPT ![m] = clock]

(* Mutant: int_trips_assembled is made incremental on landed_at.           *)
BuildAssembledIncremental ==
    /\ Ready(Assembled)
    /\ assembled' = { e \in Staged : \E at \in Landings(e) : clock <= at + Lookback }
    /\ Done(Assembled)
    /\ UNCHANGED <<clock, writing, zone, trips, tripEvents, payments, swept>>

BuildAssembled ==
    /\ Ready(Assembled)
    /\ assembled' = Staged
    /\ Done(Assembled)
    /\ UNCHANGED <<clock, writing, zone, trips, tripEvents, payments, swept>>

TripRow(t) ==
    [trip     |-> t,
     events   |-> OfTrip(assembled, t),
     expired  |-> IsExpired(OfTrip(assembled, t), assembled),
     loadedAt |-> clock]

(***************************************************************************)
(* delete+insert: the rows of the selected keys are replaced, a full build *)
(* replaces them all.  fct_trips picks its trips by the landing zone as it *)
(* is now, and takes their rows from int_trips_assembled as it was built.  *)
(***************************************************************************)
(* Mutant: only trips the mart does not have yet.                          *)
TripsSelectedNew(at) ==
    { e.trip : e \in Selected(FctTrips, trips, at) } \cap
        ({ e.trip : e \in assembled } \ { row.trip : row \in trips })

TripsSelected(at) ==
    { e.trip : e \in Selected(FctTrips, trips, at) } \cap { e.trip : e \in assembled }

(* Mutant: the strategy is append.                                         *)
KeptTripsAppended(keys) == trips

KeptTrips(keys) ==
    { row \in trips : run.mode # "full" /\ row.trip \notin keys }

(* Mutant: the window's rows replace the whole table.                      *)
KeptEventsOverwritten(mart, es) == {}

KeptEvents(mart, es) ==
    { row \in mart : run.mode # "full" /\ row.event \notin es }

BuildTrips ==
    /\ Ready(FctTrips)
    /\ \E at \in StagedAt :
          LET keys == TripsSelected(at)
          IN  trips' = KeptTrips(keys) \cup { TripRow(t) : t \in keys }
    /\ Done(FctTrips)
    /\ Sweep(FctTrips)
    /\ UNCHANGED <<clock, writing, zone, assembled, tripEvents, payments>>

(***************************************************************************)
(* row_number() over the trip's events in the window, by event_timestamp.  *)
(***************************************************************************)
SequenceNumber(e, es) ==
    Cardinality({ f \in OfTrip(es, e.trip) : f.when <= e.when })

EventRow(e, es) == [event |-> e, seq |-> SequenceNumber(e, es), loadedAt |-> clock]

BuildTripEvents ==
    /\ Ready(FctEvents)
    /\ \E at \in StagedAt :
          LET es == Selected(FctEvents, tripEvents, at)
          IN  tripEvents' = KeptEvents(tripEvents, es) \cup { EventRow(e, es) : e \in es }
    /\ Done(FctEvents)
    /\ Sweep(FctEvents)
    /\ UNCHANGED <<clock, writing, zone, assembled, trips, payments>>

IsPayment(e) == e.kind = "PaymentCompleted"

BuildPayments ==
    /\ Ready(FctPayments)
    /\ \E at \in StagedAt :
          LET es == { e \in Selected(FctPayments, payments, at) : IsPayment(e) }
          IN  payments' = KeptEvents(payments, es)
                          \cup { [event |-> e, loadedAt |-> clock] : e \in es }
    /\ Done(FctPayments)
    /\ Sweep(FctPayments)
    /\ UNCHANGED <<clock, writing, zone, assembled, trips, tripEvents>>

(* Mutant: the exit code of dbt is lost.                                   *)
FailModelUnnoticed(m) ==
    /\ Ready(m)
    /\ run' = [run EXCEPT !.todo = @ \ Dependents(m)]
    /\ UNCHANGED <<clock, writing, zone, marts>>

FailModel(m) ==
    /\ Ready(m)
    /\ run' = [run EXCEPT !.todo = @ \ Dependents(m), !.failed = TRUE]
    /\ UNCHANGED <<clock, writing, zone, marts>>

(***************************************************************************)
(* The task's retry is the same dbt command again, inside the same DAG run *)
(* and so inside its timeout.                                              *)
(***************************************************************************)
RetryRun ==
    /\ Running /\ run.todo = {} /\ run.failed
    /\ run' = [run EXCEPT !.todo = Models, !.failed = FALSE]
    /\ UNCHANGED <<clock, writing, zone, marts>>

(* Retries exhausted (three are allowed): the task has failed.             *)
GiveUp ==
    /\ Running /\ run.todo = {} /\ run.failed
    /\ run' = NoRun
    /\ UNCHANGED <<clock, writing, zone, marts>>

(* dagrun_timeout, or a dead worker, before the run is built.              *)
KillRun ==
    /\ Running /\ ~ Built
    /\ run' = NoRun
    /\ UNCHANGED <<clock, writing, zone, marts>>

(* dbt test reads the marts and, through its views, the landing zone.      *)
TestRun ==
    /\ Built
    /\ run' = NoRun
    /\ UNCHANGED <<clock, writing, zone, marts>>

BuildStep == BuildAssembled \/ BuildTrips \/ BuildTripEvents \/ BuildPayments

Next ==
    \/ Tick
    \/ \E e \in Events : StampRow(e)
    \/ \E row \in writing : RenameFile(row) \/ LoseFile(row)
    \/ StartNormal
    \/ StartFullRefresh
    \/ \E from, to \in Times : StartBackfill(from, to)
    \/ BuildStep
    \/ \E m \in Models : FailModel(m)
    \/ RetryRun
    \/ GiveUp
    \/ KillRun
    \/ TestRun

Spec == Init /\ [][Next]_vars

(***************************************************************************)
(* Fairness: Airflow keeps scheduling the hourly run, a run that can go on *)
(* goes on, its retries are exhausted some time (the code allows three),   *)
(* and a model that normal runs try again and again does not fail for      *)
(* ever.  Nothing is assumed of the consumer.                              *)
(***************************************************************************)
NormalRun == run.mode = "normal"

Fairness ==
    /\ SF_vars(StartNormal)
    /\ WF_vars(BuildStep)
    /\ SF_vars(GiveUp)
    /\ WF_vars(TestRun)
    /\ SF_vars(NormalRun /\ BuildAssembled)
    /\ SF_vars(NormalRun /\ BuildTrips)
    /\ SF_vars(NormalRun /\ BuildTripEvents)
    /\ SF_vars(NormalRun /\ BuildPayments)

FairSpec == Spec /\ Fairness

--------------------------------------------------------------------------------
(* Properties.                                                             *)

Rows    == [event : Events, at : Times]
TripRows == [trip : Trips, events : SUBSET Events, expired : BOOLEAN, loadedAt : Times]

(***************************************************************************)
(* The variables keep their shape, and a run its bounds.                   *)
(***************************************************************************)
TypeOK ==
    /\ clock \in Times
    /\ writing \subseteq Rows /\ zone \subseteq Rows
    /\ assembled \subseteq Events
    /\ trips \subseteq TripRows
    /\ tripEvents \subseteq [event : Events, seq : Nat, loadedAt : Times]
    /\ payments \subseteq [event : Events, loadedAt : Times]
    /\ run \in Runs
    /\ swept \in [Marts -> Times]

TripsShown    == UNION { row.events : row \in trips }
EventsShown   == { row.event : row \in tripEvents }
PaymentsShown == { row.event : row \in payments }
StagedPayments == { e \in Staged : IsPayment(e) }

(***************************************************************************)
(* A landed event that a mart does not show yet is inside the window of    *)
(* the next normal run, whichever of its copies staging keeps: the         *)
(* watermark never moves past an event before the mart has it.  This is    *)
(* the failure incremental.sql describes, "4,098 trips landed and never    *)
(* reached fct_trips", for all three marts.                                *)
(***************************************************************************)
StillDue(es, mart) ==
    \A e \in es : \A at \in Landings(e) : SinceWatermark(at, Stamps(mart))

NothingStranded ==
    /\ FctTrips \in Marts => StillDue(Staged \ TripsShown, trips)
    /\ FctEvents \in Marts => StillDue(Staged \ EventsShown, tripEvents)
    /\ FctPayments \in Marts => StillDue(StagedPayments \ PaymentsShown, payments)

(***************************************************************************)
(* delete+insert never leaves two rows with one key, whatever runs were    *)
(* retried, abandoned or backfilled: nothing is counted twice.             *)
(***************************************************************************)
OneRowPerKey ==
    /\ \A r, s \in trips : r.trip = s.trip => r = s
    /\ \A r, s \in tripEvents : r.event = s.event => r = s
    /\ \A r, s \in payments : r.event = s.event => r = s

(***************************************************************************)
(* The cross-layer tests of dbt test that relate these models: N2 (staging *)
(* and fct_trips hold the same trips), N4 (every trip has an event row),   *)
(* and the relationship from fct_payments to fct_trips.                    *)
(***************************************************************************)
N2 == { e.trip : e \in Staged } = { row.trip : row \in trips }
N4 == { row.trip : row \in trips } \subseteq { row.event.trip : row \in tripEvents }
PaymentsRelate == { row.event.trip : row \in payments } \subseteq { row.trip : row \in trips }

(***************************************************************************)
(* A completed normal run or full refresh, with nothing landing meanwhile, *)
(* leaves marts the gate accepts: it does not fail on correct data.        *)
(***************************************************************************)
QuietRunPassesGate ==
    Built /\ run.quiet /\ run.mode # "backfill" => N2 /\ N4 /\ PaymentsRelate

(***************************************************************************)
(* A trip once in fct_trips stays there and its funnel stage never goes    *)
(* back, though its row is replaced from a table another model rebuilt.    *)
(***************************************************************************)
TripsNeverRegress ==
    [][\A r \in trips : \E s \in trips' :
          s.trip = r.trip /\ FunnelStage(r.events) <= FunnelStage(s.events)]_vars

(***************************************************************************)
(* Each mart implements the abstract view.                                 *)
(***************************************************************************)
TripView == INSTANCE MartView WITH landed <- Staged, shown <- TripsShown
EventView == INSTANCE MartView WITH landed <- Staged, shown <- EventsShown
PaymentView == INSTANCE MartView
    WITH Events <- { e \in Events : IsPayment(e) },
         landed <- StagedPayments, shown <- PaymentsShown

ImplementsTripView    == TripView!ViewSpec
ImplementsEventView   == EventView!ViewSpec

(***************************************************************************)
(* Quarantine heals: when all the events of a trip with a valid sequence   *)
(* have landed, in whatever order and however late, its row leaves         *)
(* quarantine and stays out (fct_trips.sql, quarantined_trips.sql).        *)
(***************************************************************************)
LeavesQuarantine ==
    \A t \in Trips :
        IsSequenceValid(OfTrip(Events, t)) =>
            (OfTrip(Events, t) \subseteq Staged)
                ~> [](\E row \in trips : row.trip = t /\ ~ IsQuarantined(row.events))

--------------------------------------------------------------------------------
(* The inductive invariant behind NothingStranded.                         *)

(* Every clock reading in the state is in the past, by no more than the    *)
(* bounds allow.                                                           *)
ClocksOrdered ==
    /\ \A row \in writing : row.at <= clock /\ clock <= row.at + MaxStall
    /\ \A row \in zone : row.at <= clock
    /\ Running => run.start <= clock /\ clock <= run.start + RunBound
    /\ \A m \in Marts : swept[m] <= clock
    /\ run.mode = "backfill" => \A m \in Marts : run.start <= swept[m] + BackfillSlack

(* A row of fct_trips comes from events int_trips_assembled holds, and no *)
(* model holds an event that staging does not.                             *)
RowsSound ==
    /\ assembled \subseteq Staged
    /\ \A row \in trips : /\ row.events # {}
                          /\ row.events \subseteq OfTrip(assembled, row.trip)
    /\ EventsShown \subseteq Staged
    /\ PaymentsShown \subseteq StagedPayments

(* Once a run has rebuilt int_trips_assembled, what the table lacks was    *)
(* stamped no longer than MaxStall before the run began.                   *)
SnapshotRecent ==
    Running /\ Assembled \notin run.todo /\ FctTrips \in run.todo =>
        \A e \in Staged \ assembled : \A at \in Landings(e) : run.start <= at + MaxStall

(* A mart's watermark is not far ahead of its last sweep...                *)
WatermarkNearSweep(m, mart) ==
    \A s \in Stamps(mart) : s <= swept[m] + BackfillSlack + RunBound

(* ... and what it does not show was stamped not far before that sweep.    *)
UnshownSinceSweep(m, es) ==
    \A e \in es : \A at \in Landings(e) : swept[m] <= at + MaxStall + RunBound

SweepsComplete ==
    /\ FctTrips \in Marts =>
          /\ WatermarkNearSweep(FctTrips, trips)
          /\ UnshownSinceSweep(FctTrips, Staged \ TripsShown)
    /\ FctEvents \in Marts =>
          /\ WatermarkNearSweep(FctEvents, tripEvents)
          /\ UnshownSinceSweep(FctEvents, Staged \ EventsShown)
    /\ FctPayments \in Marts =>
          /\ WatermarkNearSweep(FctPayments, payments)
          /\ UnshownSinceSweep(FctPayments, StagedPayments \ PaymentsShown)

Inv == TypeOK /\ ClocksOrdered /\ RowsSound /\ SnapshotRecent /\ SweepsComplete

(* What the theorems assume of the deployment: the lookback covers a slow  *)
(* file, a run and the run before it, and an idle schedule before a        *)
(* backfill.  48 hours against minutes, 45 minutes twice, and the slack.   *)
WindowWideEnough == MaxStall + 2 * RunBound + BackfillSlack <= Lookback

--------------------------------------------------------------------------------
(* A claim of the repository that the model refutes.  Another run refutes  *)
(* NothingStranded after a long idle schedule.                             *)

(***************************************************************************)
(* README.md: the marts are byte-identical across an incremental re-run    *)
(* and a full refresh.  Here of one column: after a quiet normal run, the  *)
(* expiry of every trip is what a full refresh would infer.                *)
(***************************************************************************)
RefreshWouldAgree ==
    Built /\ run.quiet /\ run.mode = "normal" =>
        \A row \in trips : row.expired = IsExpired(OfTrip(Staged, row.trip), Staged)
================================================================================
