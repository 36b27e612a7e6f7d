---------------------------- MODULE WarehouseProofs ----------------------------
(***************************************************************************)
(* Proofs about Warehouse, for any set of events, any lookback, stall and  *)
(* run bounds and any subset of the marts: what its variables hold, that   *)
(* no row of a mart has a rival, that the marts are sound views of the     *)
(* landing zone, and why no watermark ever passes an event its mart does   *)
(* not show.                                                               *)
(***************************************************************************)
EXTENDS Warehouse, FiniteSetTheorems, TLAPS

LEMMA ModelNames ==
    /\ Assembled \notin {FctTrips, FctEvents, FctPayments}
    /\ FctTrips # FctEvents /\ FctTrips # FctPayments /\ FctEvents # FctPayments
BY DEF Assembled, FctTrips, FctEvents, FctPayments

LEMMA Constants ==
    /\ MaxStall \in Nat /\ RunBound \in Nat /\ BackfillSlack \in Nat
    /\ MaxClock \in Nat /\ Lookback \in Nat
    /\ {0, 1} \subseteq Times
    /\ Assembled \notin Marts
    /\ \A e \in Events : e.trip \in Trips
BY WarehouseAssumption, LookbackAssumption, ModelNames DEF Trips, Times

(***************************************************************************)
(* What staging reads are events of the model, at the times of their rows. *)
(***************************************************************************)
LEMMA StagedEvents ==
    ASSUME TypeOK
    PROVE  /\ Staged \subseteq Events
           /\ \A e \in Staged : Landings(e) \subseteq Times /\ Landings(e) # {}
           /\ \A e : \A at \in Landings(e) : [event |-> e, at |-> at] \in zone
<1>1. \A row \in zone : /\ row.event \in Events /\ row.at \in Times
                        /\ row = [event |-> row.event, at |-> row.at]
  BY DEF TypeOK, Rows
<1> QED BY <1>1 DEF Staged, Landings

(***************************************************************************)
(* A step of a run that builds nothing only moves the run's own record.    *)
(***************************************************************************)
LEMMA RunShape ==
    ASSUME TypeOK, NEW m \in Models
    PROVE  /\ NoRun \in Runs
           /\ [run EXCEPT !.todo = @ \ {m}] \in Runs
           /\ [run EXCEPT !.todo = @ \ Dependents(m), !.failed = TRUE] \in Runs
           /\ [run EXCEPT !.todo = Models, !.failed = FALSE] \in Runs
           /\ [run EXCEPT !.quiet = FALSE] \in Runs
<1>1. run \in Runs
  BY DEF TypeOK
<1>2. NoRun \in Runs
  BY Constants DEF Runs, NoRun, Modes, Times
<1>3. run.todo \ {m} \in SUBSET Models /\ run.todo \ Dependents(m) \in SUBSET Models
  BY <1>1 DEF Runs
<1>4. \A todo \in SUBSET Models : \A failed \in BOOLEAN :
         [run EXCEPT !.todo = todo, !.failed = failed] \in Runs
  BY <1>1 DEF Runs
<1>5. [run EXCEPT !.todo = @ \ {m}] \in Runs /\ [run EXCEPT !.quiet = FALSE] \in Runs
  BY <1>1, <1>3 DEF Runs
<1> QED
  BY <1>1, <1>2, <1>3, <1>4, <1>5

LEMMA SequenceNumberType ==
    ASSUME NEW es \in SUBSET Events, NEW e \in es
    PROVE  SequenceNumber(e, es) \in Nat
<1> DEFINE before == { f \in OfTrip(es, e.trip) : f.when <= e.when }
<1>1. before \subseteq Events
  BY DEF OfTrip
<1>2. IsFiniteSet(before)
  BY <1>1, FS_Subset, WarehouseAssumption
<1> QED BY <1>2, FS_CardinalityType DEF SequenceNumber

(***************************************************************************)
(* The variables keep their types.                                         *)
(***************************************************************************)
LEMMA InitType == Init => TypeOK
<1>1. NoRun \in Runs
  BY Constants DEF Runs, NoRun, Modes
<1>2. Init => swept \in [Marts -> Times]
  BY Constants DEF Init
<1> QED BY <1>1, <1>2, Constants DEF Init, TypeOK

LEMMA RowShape ==
    ASSUME TypeOK
    PROVE  /\ clock \in Times /\ clock \in Nat
           /\ \A e \in Events : [event |-> e, at |-> clock] \in Rows
           /\ \A mode \in Modes : \A from, to \in Times : NewRun(mode, from, to) \in Runs
           /\ \A m \in Marts : [swept EXCEPT ![m] = clock] \in [Marts -> Times]
BY DEF TypeOK, Rows, Times, NewRun, Runs, Models

LEMMA StepType == TypeOK /\ [Next]_vars => TypeOK'
<1> SUFFICES ASSUME TypeOK, [Next]_vars PROVE TypeOK'
  OBVIOUS
<1> USE Constants, RowShape
<1>1. CASE Tick
  <2>1. clock' \in Times
    BY <1>1 DEF Tick, TypeOK, Times
  <2> QED BY <1>1, <2>1 DEF Tick, TypeOK, marts
<1>2. ASSUME NEW e \in Events, StampRow(e) PROVE TypeOK'
  BY <1>2 DEF StampRow, TypeOK, marts
<1>3. ASSUME NEW row \in writing, RenameFile(row) \/ LoseFile(row) PROVE TypeOK'
  <2>1. run' \in Runs
    BY <1>3, RunShape DEF RenameFile, LoseFile, TypeOK, Models
  <2> QED BY <1>3, <2>1 DEF RenameFile, LoseFile, TypeOK, marts
<1>4. CASE StartNormal \/ StartFullRefresh
  <2>1. 0 \in Times
    BY DEF Times
  <2> QED BY <1>4, <2>1 DEF StartNormal, StartFullRefresh, TypeOK, marts, Modes
<1>5. ASSUME NEW from \in Times, NEW to \in Times, StartBackfill(from, to) PROVE TypeOK'
  BY <1>5 DEF StartBackfill, TypeOK, marts, Modes
<1>6. CASE BuildAssembled
  <2>1. run' \in Runs
    BY <1>6, RunShape DEF BuildAssembled, Done, Models
  <2>2. assembled' \subseteq Events
    BY <1>6, StagedEvents DEF BuildAssembled
  <2> QED BY <1>6, <2>1, <2>2 DEF BuildAssembled, TypeOK
<1>7. ASSUME NEW m \in Marts, Done(m), Sweep(m)
      PROVE  run' \in Runs /\ swept' \in [Marts -> Times]
  <2>1. run' \in Runs
    BY <1>7, RunShape DEF Done, Models
  <2> QED BY <1>7, <2>1 DEF Sweep, TypeOK
<1>8. ASSUME NEW m, Ready(m) PROVE m \in Models
  BY <1>8 DEF Ready, TypeOK, Runs
<1>9. CASE BuildTrips
  <2>1. run' \in Runs /\ swept' \in [Marts -> Times]
    BY <1>7, <1>8, <1>9, ModelNames DEF BuildTrips, Models
  <2>2. \A t \in { e.trip : e \in assembled } : TripRow(t) \in TripRows
    BY DEF TypeOK, TripRow, TripRows, OfTrip, IsExpired
  <2>3. trips' \subseteq TripRows
    BY <1>9, <2>2 DEF BuildTrips, KeptTrips, TripsSelected, TypeOK
  <2> QED BY <1>9, <2>1, <2>3 DEF BuildTrips, TypeOK
<1>10. CASE BuildTripEvents
  <2>1. run' \in Runs /\ swept' \in [Marts -> Times]
    BY <1>7, <1>8, <1>10, ModelNames DEF BuildTripEvents, Models
  <2> DEFINE Type == [event : Events, seq : Nat, loadedAt : Times]
  <2>2. ASSUME NEW es \in SUBSET Events
        PROVE  { EventRow(e, es) : e \in es } \subseteq Type
    BY SequenceNumberType DEF EventRow
  <2>3. \A at : Selected(FctEvents, tripEvents, at) \in SUBSET Events
    BY StagedEvents DEF Selected
  <2>4. tripEvents' \subseteq Type
    BY <1>10, <2>2, <2>3 DEF BuildTripEvents, KeptEvents, TypeOK
  <2> QED BY <1>10, <2>1, <2>4 DEF BuildTripEvents, TypeOK
<1>11. CASE BuildPayments
  <2>1. run' \in Runs /\ swept' \in [Marts -> Times]
    BY <1>7, <1>8, <1>11, ModelNames DEF BuildPayments, Models
  <2>2. payments' \subseteq [event : Events, loadedAt : Times]
    BY <1>11, StagedEvents DEF BuildPayments, KeptEvents, Selected, TypeOK
  <2> QED BY <1>11, <2>1, <2>2 DEF BuildPayments, TypeOK
<1>12. ASSUME NEW m \in Models, FailModel(m) PROVE TypeOK'
  <2>1. run' \in Runs
    BY <1>12, RunShape DEF FailModel
  <2> QED BY <1>12, <2>1 DEF FailModel, TypeOK, marts
<1>13. CASE RetryRun \/ GiveUp \/ KillRun \/ TestRun
  <2>1. run' \in Runs
    BY <1>13, RunShape DEF RetryRun, GiveUp, KillRun, TestRun, Models
  <2> QED BY <1>13, <2>1 DEF RetryRun, GiveUp, KillRun, TestRun, TypeOK, marts
<1>14. CASE UNCHANGED vars
  BY <1>14 DEF vars, TypeOK
<1> QED
  BY <1>1, <1>2, <1>3, <1>4, <1>5, <1>6, <1>9, <1>10, <1>11, <1>12, <1>13, <1>14
  DEF Next, BuildStep

(***************************************************************************)
(* Every table, the clock and the run keep their shape; in particular the  *)
(* marts only ever hold events of the landing zone's own.                  *)
(***************************************************************************)
THEOREM TypeCorrect == Spec => []TypeOK
BY InitType, StepType, PTL DEF Spec

------------------------------------------------------------------------------

(***************************************************************************)
(* Facts of arithmetic and typing used throughout.                         *)
(***************************************************************************)
LEMMA Readings ==
    ASSUME TypeOK
    PROVE  /\ clock \in Nat
           /\ run.start \in Nat
           /\ \A m \in Marts : swept[m] \in Nat
           /\ \A row \in zone \cup writing : row.at \in Nat
           /\ \A e \in Staged : \A at \in Landings(e) : at \in Nat
           /\ \A s \in Stamps(trips) \cup Stamps(tripEvents) \cup Stamps(payments) : s \in Nat
<1>1. \A s \in Stamps(trips) \cup Stamps(tripEvents) \cup Stamps(payments) : s \in Times
  BY DEF TypeOK, Stamps, TripRows
<1>2. \A e \in Staged : \A at \in Landings(e) : at \in Times
  BY StagedEvents
<1>3. \A row \in zone \cup writing : row.at \in Times
  BY DEF TypeOK, Rows
<1>4. Times \subseteq Nat
  BY Constants DEF Times
<1>5. clock \in Times /\ run.start \in Times /\ \A m \in Marts : swept[m] \in Times
  BY DEF TypeOK, Runs
<1> QED BY <1>1, <1>2, <1>3, <1>4, <1>5

(***************************************************************************)
(* The landing zone changes only when a file is renamed into it.           *)
(***************************************************************************)
LEMMA ZoneGrows ==
    ASSUME TypeOK, [Next]_vars
    PROVE  \/ zone' = zone
           \/ \E row \in writing : RenameFile(row) /\ zone' = zone \cup {row}
BY DEF Next, vars, Tick, StampRow, RenameFile, LoseFile, StartNormal, StartFullRefresh,
       StartBackfill, BuildStep, BuildAssembled, BuildTrips, BuildTripEvents,
       BuildPayments, FailModel, RetryRun, GiveUp, KillRun, TestRun

LEMMA StagedGrows ==
    ASSUME TypeOK, [Next]_vars
    PROVE  Staged \subseteq Staged'
BY ZoneGrows DEF Staged

--------------------------------------------------------------------------------
(* One row per key.                                                        *)

LEMMA OneRowInit == Init => OneRowPerKey
BY DEF Init, OneRowPerKey

LEMMA OneRowStep ==
    ASSUME OneRowPerKey, [Next]_vars
    PROVE  OneRowPerKey'
<1>1. CASE UNCHANGED <<trips, tripEvents, payments>>
  BY <1>1 DEF OneRowPerKey
<1>2. CASE BuildTrips
  <2>1. PICK at \in StagedAt :
           trips' = KeptTrips(TripsSelected(at)) \cup { TripRow(t) : t \in TripsSelected(at) }
    BY <1>2 DEF BuildTrips
  <2>2. \A row \in KeptTrips(TripsSelected(at)) :
           row \in trips /\ row.trip \notin TripsSelected(at)
    BY DEF KeptTrips
  <2>3. \A t : TripRow(t).trip = t
    BY DEF TripRow
  <2>4. \A r, s \in trips' : r.trip = s.trip => r = s
    BY <2>1, <2>2, <2>3 DEF OneRowPerKey
  <2> QED BY <1>2, <2>4 DEF BuildTrips, OneRowPerKey
<1>3. CASE BuildTripEvents
  <2>1. PICK at \in StagedAt :
           LET es == Selected(FctEvents, tripEvents, at)
           IN  tripEvents' = KeptEvents(tripEvents, es) \cup { EventRow(e, es) : e \in es }
    BY <1>3 DEF BuildTripEvents
  <2> DEFINE es == Selected(FctEvents, tripEvents, at)
  <2>2. tripEvents' = KeptEvents(tripEvents, es) \cup { EventRow(e, es) : e \in es }
    BY <2>1
  <2>3. \A row \in KeptEvents(tripEvents, es) : row \in tripEvents /\ row.event \notin es
    BY DEF KeptEvents
  <2>4. \A e : EventRow(e, es).event = e
    BY DEF EventRow
  <2> HIDE DEF es
  <2>5. \A r, s \in tripEvents' : r.event = s.event => r = s
    BY <2>2, <2>3, <2>4 DEF OneRowPerKey
  <2> QED BY <1>3, <2>5 DEF BuildTripEvents, OneRowPerKey
<1>4. CASE BuildPayments
  <2>1. PICK at \in StagedAt :
           LET es == { e \in Selected(FctPayments, payments, at) : IsPayment(e) }
           IN  payments' = KeptEvents(payments, es)
                           \cup { [event |-> e, loadedAt |-> clock] : e \in es }
    BY <1>4 DEF BuildPayments
  <2> DEFINE es == { e \in Selected(FctPayments, payments, at) : IsPayment(e) }
  <2>2. payments' = KeptEvents(payments, es) \cup { [event |-> e, loadedAt |-> clock] : e \in es }
    BY <2>1
  <2>3. \A row \in KeptEvents(payments, es) : row \in payments /\ row.event \notin es
    BY DEF KeptEvents
  <2> HIDE DEF es
  <2>4. \A r, s \in payments' : r.event = s.event => r = s
    BY <2>2, <2>3 DEF OneRowPerKey
  <2> QED BY <1>4, <2>4 DEF BuildPayments, OneRowPerKey
<1> QED
  BY <1>1, <1>2, <1>3, <1>4
  DEF Next, vars, marts, Tick, StampRow, RenameFile, LoseFile, StartNormal,
      StartFullRefresh, StartBackfill, BuildStep, BuildAssembled, FailModel, RetryRun,
      GiveUp, KillRun, TestRun

(***************************************************************************)
(* delete+insert: no build, retry, abandoned run or backfill leaves two    *)
(* rows with one key in a mart.                                            *)
(***************************************************************************)
THEOREM OneRow == Spec => []OneRowPerKey
BY OneRowInit, OneRowStep, PTL DEF Spec

--------------------------------------------------------------------------------
(* The marts are sound views of the landing zone.                          *)

(***************************************************************************)
(* What a build of each mart does to the events the mart shows: it shows   *)
(* what it showed and what it selected.                                    *)
(***************************************************************************)
LEMMA TripsBuilt ==
    ASSUME TypeOK, RowsSound, BuildTrips
    PROVE  /\ trips' \subseteq trips \cup { TripRow(t) : t \in { e.trip : e \in assembled } }
           /\ \A r \in trips : \E s \in trips' :
                 s.trip = r.trip /\ r.events \subseteq s.events
           /\ \E at \in StagedAt : \A e \in assembled :
                 e \in Selected(FctTrips, trips, at) => e \in TripsShown'
<1>1. PICK at \in StagedAt :
         trips' = KeptTrips(TripsSelected(at)) \cup { TripRow(t) : t \in TripsSelected(at) }
  BY DEF BuildTrips
<1>2. TripsSelected(at) \subseteq { e.trip : e \in assembled }
  BY DEF TripsSelected
<1>3. trips' \subseteq trips \cup { TripRow(t) : t \in { e.trip : e \in assembled } }
  BY <1>1, <1>2 DEF KeptTrips
<1>4. \A t \in TripsSelected(at) : /\ TripRow(t) \in trips'
                                   /\ TripRow(t).trip = t
                                   /\ TripRow(t).events = OfTrip(assembled, t)
  BY <1>1 DEF TripRow
<1>5. ASSUME NEW r \in trips
      PROVE  \E s \in trips' : s.trip = r.trip /\ r.events \subseteq s.events
  <2>1. r.events # {} /\ r.events \subseteq OfTrip(assembled, r.trip)
    BY DEF RowsSound
  <2>2. CASE r.trip \in TripsSelected(at)
    BY <1>4, <2>1, <2>2
  <2>3. CASE r.trip \notin TripsSelected(at)
    <3>1. PICK e \in r.events : e \in assembled /\ e.trip = r.trip
      BY <2>1 DEF OfTrip
    <3>2. e \notin Selected(FctTrips, trips, at)
      BY <2>3, <3>1 DEF TripsSelected
    <3>3. run.mode # "full"
      BY <3>1, <3>2 DEF Selected, InWindow, RowsSound
    <3> QED BY <1>1, <2>3, <3>3 DEF KeptTrips
  <2> QED BY <2>2, <2>3
<1>6. ASSUME NEW e \in assembled, e \in Selected(FctTrips, trips, at)
      PROVE  e \in TripsShown'
  <2>1. e.trip \in TripsSelected(at)
    BY <1>6 DEF TripsSelected
  <2>2. e \in TripRow(e.trip).events
    BY <1>4, <2>1 DEF OfTrip
  <2> QED BY <1>4, <2>1, <2>2 DEF TripsShown
<1> QED BY <1>3, <1>5, <1>6

LEMMA EventsBuilt ==
    ASSUME RowsSound, BuildTripEvents
    PROVE  \E at \in StagedAt :
              EventsShown' = EventsShown \cup Selected(FctEvents, tripEvents, at)
<1>1. PICK at \in StagedAt :
         LET es == Selected(FctEvents, tripEvents, at)
         IN  tripEvents' = KeptEvents(tripEvents, es) \cup { EventRow(e, es) : e \in es }
  BY DEF BuildTripEvents
<1> DEFINE es == Selected(FctEvents, tripEvents, at)
<1>2. run.mode = "full" => EventsShown \subseteq es
  BY DEF Selected, InWindow, RowsSound
<1>3. /\ tripEvents' = KeptEvents(tripEvents, es) \cup { EventRow(e, es) : e \in es }
      /\ \A e : EventRow(e, es).event = e
  BY <1>1 DEF EventRow
<1> HIDE DEF es
<1>4. EventsShown' = EventsShown \cup es
  <2>1. EventsShown' = { row.event : row \in KeptEvents(tripEvents, es) } \cup es
    BY <1>3 DEF EventsShown
  <2> QED BY <1>2, <2>1 DEF KeptEvents, EventsShown
<1> QED BY <1>4 DEF es

LEMMA PaymentsBuilt ==
    ASSUME RowsSound, BuildPayments
    PROVE  \E at \in StagedAt :
              PaymentsShown' = PaymentsShown
                    \cup { e \in Selected(FctPayments, payments, at) : IsPayment(e) }
<1>1. PICK at \in StagedAt :
         LET es == { e \in Selected(FctPayments, payments, at) : IsPayment(e) }
         IN  payments' = KeptEvents(payments, es)
                         \cup { [event |-> e, loadedAt |-> clock] : e \in es }
  BY DEF BuildPayments
<1> DEFINE es == { e \in Selected(FctPayments, payments, at) : IsPayment(e) }
<1>2. run.mode = "full" => PaymentsShown \subseteq es
  BY DEF Selected, InWindow, RowsSound, StagedPayments
<1> DEFINE PaymentRow(e) == [event |-> e, loadedAt |-> clock]
<1>3. /\ payments' = KeptEvents(payments, es) \cup { PaymentRow(e) : e \in es }
      /\ \A e : PaymentRow(e).event = e
  BY <1>1
<1> HIDE DEF es, PaymentRow
<1>4. PaymentsShown' = PaymentsShown \cup es
  <2>1. PaymentsShown' = { row.event : row \in KeptEvents(payments, es) } \cup es
    BY <1>3 DEF PaymentsShown
  <2> QED BY <1>2, <2>1 DEF KeptEvents, PaymentsShown
<1> QED BY <1>4 DEF es

LEMMA SoundInit == Init => RowsSound
BY DEF Init, RowsSound, EventsShown, PaymentsShown, Staged

LEMMA SoundStep ==
    ASSUME TypeOK, RowsSound, [Next]_vars
    PROVE  RowsSound'
<1>1. Staged \subseteq Staged' /\ StagedPayments \subseteq StagedPayments'
  BY StagedGrows DEF StagedPayments
<1>2. CASE UNCHANGED <<assembled, trips, tripEvents, payments>>
  BY <1>1, <1>2 DEF RowsSound, EventsShown, PaymentsShown, OfTrip
<1>3. CASE BuildAssembled
  <2>1. assembled' = Staged /\ Staged' = Staged /\ StagedPayments' = StagedPayments
    BY <1>3 DEF BuildAssembled, Staged, StagedPayments
  <2>2. UNCHANGED <<trips, tripEvents, payments>>
    BY <1>3 DEF BuildAssembled
  <2>3. \A row \in trips : row.events \subseteq OfTrip(Staged, row.trip)
    BY DEF RowsSound, OfTrip
  <2> QED BY <2>1, <2>2, <2>3 DEF RowsSound, EventsShown, PaymentsShown, OfTrip
<1>4. CASE BuildTrips
  <2>1. UNCHANGED <<assembled, tripEvents, payments>> /\ Staged' = Staged
        /\ StagedPayments' = StagedPayments
    BY <1>4 DEF BuildTrips, Staged, StagedPayments
  <2>2. \A t \in { e.trip : e \in assembled } :
           /\ TripRow(t).events # {}
           /\ TripRow(t).events \subseteq OfTrip(assembled, TripRow(t).trip)
    BY DEF TripRow, OfTrip
  <2>3. \A row \in trips' : /\ row.events # {}
                             /\ row.events \subseteq OfTrip(assembled, row.trip)
    BY <1>4, <2>2, TripsBuilt DEF RowsSound
  <2> QED BY <2>1, <2>3 DEF RowsSound, EventsShown, PaymentsShown, OfTrip
<1>5. CASE BuildTripEvents
  <2>1. UNCHANGED <<assembled, trips, payments>> /\ Staged' = Staged
        /\ StagedPayments' = StagedPayments
    BY <1>5 DEF BuildTripEvents, Staged, StagedPayments
  <2>2. EventsShown' \subseteq Staged
    BY <1>5, EventsBuilt DEF RowsSound, Selected
  <2> QED BY <2>1, <2>2 DEF RowsSound, PaymentsShown, OfTrip
<1>6. CASE BuildPayments
  <2>1. UNCHANGED <<assembled, trips, tripEvents>> /\ Staged' = Staged
        /\ StagedPayments' = StagedPayments
    BY <1>6 DEF BuildPayments, Staged, StagedPayments
  <2>2. PaymentsShown' \subseteq StagedPayments
    BY <1>6, PaymentsBuilt DEF RowsSound, Selected, StagedPayments
  <2> QED BY <2>1, <2>2 DEF RowsSound, EventsShown, OfTrip
<1> QED
  BY <1>2, <1>3, <1>4, <1>5, <1>6
  DEF Next, vars, marts, Tick, StampRow, RenameFile, LoseFile, StartNormal,
      StartFullRefresh, StartBackfill, BuildStep, FailModel, RetryRun, GiveUp,
      KillRun, TestRun

LEMMA SoundAlways == Spec => [](TypeOK /\ RowsSound)
<1>1. Init => TypeOK /\ RowsSound
  BY InitType, SoundInit
<1>2. TypeOK /\ RowsSound /\ [Next]_vars => (TypeOK /\ RowsSound)'
  BY StepType, SoundStep
<1> QED BY <1>1, <1>2, PTL DEF Spec

(***************************************************************************)
(* What a step does to the three marts' views, and to the landing zone.    *)
(***************************************************************************)
LEMMA TripsShownStep ==
    ASSUME TypeOK, RowsSound, [Next]_vars
    PROVE  /\ \A r \in trips : \E s \in trips' :
                 s.trip = r.trip /\ r.events \subseteq s.events
           /\ TripsShown \subseteq TripsShown'
           /\ TripsShown # TripsShown' => BuildTrips
<1>1. CASE UNCHANGED trips
  BY <1>1 DEF TripsShown
<1>2. CASE BuildTrips
  BY <1>2, TripsBuilt DEF TripsShown
<1> QED
  BY <1>1, <1>2
  DEF Next, vars, marts, Tick, StampRow, RenameFile, LoseFile, StartNormal,
      StartFullRefresh, StartBackfill, BuildStep, BuildAssembled, BuildTripEvents,
      BuildPayments, FailModel, RetryRun, GiveUp, KillRun, TestRun

LEMMA EventsShownStep ==
    ASSUME RowsSound, [Next]_vars
    PROVE  /\ EventsShown \subseteq EventsShown' /\ PaymentsShown \subseteq PaymentsShown'
           /\ EventsShown # EventsShown' => BuildTripEvents
           /\ PaymentsShown # PaymentsShown' => BuildPayments
<1>1. CASE UNCHANGED <<tripEvents, payments>>
  BY <1>1 DEF EventsShown, PaymentsShown
<1>2. CASE BuildTripEvents
  <2>1. PaymentsShown' = PaymentsShown
    BY <1>2 DEF BuildTripEvents, PaymentsShown
  <2> QED BY <1>2, <2>1, EventsBuilt
<1>3. CASE BuildPayments
  <2>1. EventsShown' = EventsShown
    BY <1>3 DEF BuildPayments, EventsShown
  <2> QED BY <1>3, <2>1, PaymentsBuilt
<1> QED
  BY <1>1, <1>2, <1>3
  DEF Next, vars, marts, Tick, StampRow, RenameFile, LoseFile, StartNormal,
      StartFullRefresh, StartBackfill, BuildStep, BuildAssembled, BuildTrips,
      FailModel, RetryRun, GiveUp, KillRun, TestRun

LEMMA LandsOrStays ==
    ASSUME TypeOK, [Next]_vars
    PROVE  \/ zone' = zone
           \/ /\ \E e \in Events : Staged' = Staged \cup {e}
              /\ UNCHANGED <<trips, tripEvents, payments>>
<1>1. SUFFICES ASSUME NEW row \in writing, RenameFile(row), zone' = zone \cup {row}
               PROVE  /\ \E e \in Events : Staged' = Staged \cup {e}
                      /\ UNCHANGED <<trips, tripEvents, payments>>
  BY ZoneGrows
<1>2. row.event \in Events
  BY DEF TypeOK, Rows
<1>3. Staged' = Staged \cup {row.event}
  BY <1>1 DEF Staged
<1> QED BY <1>1, <1>2, <1>3 DEF RenameFile, marts

(***************************************************************************)
(* Each mart is a safe view: it shows only what has landed, and never      *)
(* un-shows it, whatever fails, is retried, backfilled or rebuilt.         *)
(***************************************************************************)
THEOREM TripsAreView == Spec => TripView!ViewSafety
<1>1. Init => TripView!ViewInit
  BY DEF Init, TripView!ViewInit, Staged, TripsShown
<1>2. TypeOK /\ RowsSound /\ (TypeOK /\ RowsSound)' /\ [Next]_vars
         => [TripView!ViewNext]_(TripView!viewVars)
  <2> SUFFICES ASSUME TypeOK, RowsSound, RowsSound', [Next]_vars
               PROVE  [TripView!ViewNext]_(TripView!viewVars)
    OBVIOUS
  <2>1. TripsShown \subseteq TripsShown' /\ TripsShown' \subseteq Staged'
    BY TripsShownStep DEF RowsSound, TripsShown, OfTrip
  <2>2. CASE zone' = zone
    <3>1. Staged' = Staged
      BY <2>2 DEF Staged
    <3>2. TripsShown' = TripsShown \cup TripsShown'
      BY <2>1
    <3> QED BY <2>1, <3>1, <3>2 DEF TripView!ViewNext, TripView!Refresh
  <2>3. CASE /\ \E e \in Events : Staged' = Staged \cup {e}
             /\ UNCHANGED <<trips, tripEvents, payments>>
    <3>1. PICK e \in Events : Staged' = Staged \cup {e}
      BY <2>3
    <3>2. TripsShown' = TripsShown
      BY <2>3 DEF TripsShown
    <3> QED BY <3>1, <3>2 DEF TripView!ViewNext, TripView!Land
  <2> QED BY <2>2, <2>3, LandsOrStays
<1> QED BY <1>1, <1>2, SoundAlways, PTL DEF Spec, TripView!ViewSafety

THEOREM EventsAreView == Spec => EventView!ViewSafety
<1>1. Init => EventView!ViewInit
  BY DEF Init, EventView!ViewInit, Staged, EventsShown
<1>2. TypeOK /\ RowsSound /\ (TypeOK /\ RowsSound)' /\ [Next]_vars
         => [EventView!ViewNext]_(EventView!viewVars)
  <2> SUFFICES ASSUME TypeOK, RowsSound, RowsSound', [Next]_vars
               PROVE  [EventView!ViewNext]_(EventView!viewVars)
    OBVIOUS
  <2>1. EventsShown \subseteq EventsShown' /\ EventsShown' \subseteq Staged'
    BY EventsShownStep DEF RowsSound
  <2>2. CASE zone' = zone
    <3>1. Staged' = Staged
      BY <2>2 DEF Staged
    <3>2. EventsShown' = EventsShown \cup EventsShown'
      BY <2>1
    <3> QED BY <2>1, <3>1, <3>2 DEF EventView!ViewNext, EventView!Refresh
  <2>3. CASE /\ \E e \in Events : Staged' = Staged \cup {e}
             /\ UNCHANGED <<trips, tripEvents, payments>>
    <3>1. PICK e \in Events : Staged' = Staged \cup {e}
      BY <2>3
    <3>2. EventsShown' = EventsShown
      BY <2>3 DEF EventsShown
    <3> QED BY <3>1, <3>2 DEF EventView!ViewNext, EventView!Land
  <2> QED BY <2>2, <2>3, LandsOrStays
<1> QED BY <1>1, <1>2, SoundAlways, PTL DEF Spec, EventView!ViewSafety

THEOREM PaymentsAreView == Spec => PaymentView!ViewSafety
<1>1. Init => PaymentView!ViewInit
  BY DEF Init, PaymentView!ViewInit, Staged, StagedPayments, PaymentsShown
<1>2. TypeOK /\ RowsSound /\ (TypeOK /\ RowsSound)' /\ [Next]_vars
         => [PaymentView!ViewNext]_(PaymentView!viewVars)
  <2> SUFFICES ASSUME TypeOK, RowsSound, RowsSound', [Next]_vars
               PROVE  [PaymentView!ViewNext]_(PaymentView!viewVars)
    OBVIOUS
  <2>1. PaymentsShown \subseteq PaymentsShown' /\ PaymentsShown' \subseteq StagedPayments'
    BY EventsShownStep DEF RowsSound
  <2>2. CASE zone' = zone
    <3>1. StagedPayments' = StagedPayments
      BY <2>2 DEF Staged, StagedPayments
    <3>2. PaymentsShown' = PaymentsShown \cup PaymentsShown'
      BY <2>1
    <3> QED BY <2>1, <3>1, <3>2 DEF PaymentView!ViewNext, PaymentView!Refresh
  <2>3. CASE /\ \E e \in Events : Staged' = Staged \cup {e}
             /\ UNCHANGED <<trips, tripEvents, payments>>
    <3>1. PICK e \in Events : Staged' = Staged \cup {e}
      BY <2>3
    <3> DEFINE new == { f \in {e} : IsPayment(f) }
    <3>2. new \subseteq { f \in Events : IsPayment(f) }
          /\ StagedPayments' = StagedPayments \cup new
      BY <3>1 DEF StagedPayments
    <3>3. PaymentsShown' = PaymentsShown
      BY <2>3 DEF PaymentsShown
    <3> QED BY <3>2, <3>3 DEF PaymentView!ViewNext, PaymentView!Land
  <2> QED BY <2>2, <2>3, LandsOrStays
<1> QED BY <1>1, <1>2, SoundAlways, PTL DEF Spec, PaymentView!ViewSafety

--------------------------------------------------------------------------------
(* The funnel stage of a trip never goes back.                             *)

LEMMA FunnelStageIsGreatest ==
    ASSUME NEW es
    PROVE  /\ FunnelStage(es) \in StagesReached(es) \cup {0}
           /\ FunnelStage(es) \in Nat
           /\ \A n \in StagesReached(es) : n <= FunnelStage(es)
<1> DEFINE S == StagesReached(es) \cup {0}
<1>1. S \subseteq {0, 1, 2, 3, 4, 5, 6} /\ 0 \in S
  BY DEF StagesReached
<1> HIDE DEF S
<1>2. \E n \in S : \A m \in S : m <= n
  BY <1>1
<1>3. \E n \in S : \A m \in StagesReached(es) : m <= n
  BY <1>2 DEF S
<1>4. FunnelStage(es) \in S /\ \A m \in StagesReached(es) : m <= FunnelStage(es)
  BY <1>3 DEF FunnelStage, S
<1> QED BY <1>1, <1>4 DEF S

LEMMA FunnelStageMonotone ==
    ASSUME NEW es, NEW fs, es \subseteq fs
    PROVE  FunnelStage(es) <= FunnelStage(fs)
<1>1. StagesReached(es) \subseteq StagesReached(fs)
  BY DEF StagesReached, HasRequestEvent, IsMatched, IsCompleted, IsPaid, Has
<1> QED BY <1>1, FunnelStageIsGreatest

(***************************************************************************)
(* A row of fct_trips is replaced only by a row of the same trip that has  *)
(* reached at least the same stage.                                        *)
(***************************************************************************)
THEOREM NeverRegress == Spec => TripsNeverRegress
<1>1. TypeOK /\ RowsSound /\ [Next]_vars
         => [\A r \in trips : \E s \in trips' :
                s.trip = r.trip /\ FunnelStage(r.events) <= FunnelStage(s.events)]_vars
  BY TripsShownStep, FunnelStageMonotone
<1> QED BY <1>1, SoundAlways, PTL DEF Spec, TripsNeverRegress

--------------------------------------------------------------------------------
(***************************************************************************)
(* Why no watermark ever passes an event its mart does not show, for any   *)
(* events and any bounds with WindowWideEnough.                            *)
(*                                                                         *)
(* The argument.  Call swept[m] the moment mart m last finished a build    *)
(* that was not a backfill.  What m does not show was stamped no more than *)
(* MaxStall + RunBound before that moment (UnshownSinceSweep), and m's     *)
(* watermark is no more than BackfillSlack + RunBound after it             *)
(* (WatermarkNearSweep).  So everything unshown is inside the window, the  *)
(* next build takes all of it, and a sweep moves forward over nothing it   *)
(* leaves behind but what int_trips_assembled was built too early to see,  *)
(* which is recent (SnapshotRecent).                                       *)
(***************************************************************************)

(***************************************************************************)
(* What was stamped since the last sweep is in the window of a normal run. *)
(***************************************************************************)
LEMMA WindowCovers ==
    ASSUME WindowWideEnough, TypeOK, NEW m \in Marts,
           NEW mart \in {trips, tripEvents, payments}, WatermarkNearSweep(m, mart),
           NEW at \in Nat, swept[m] <= at + MaxStall + RunBound
    PROVE  SinceWatermark(at, Stamps(mart))
<1>1. ASSUME NEW s \in Stamps(mart) PROVE at + Lookback >= s
  <2>1. s \in Nat /\ swept[m] \in Nat
    BY Readings
  <2>2. s <= swept[m] + BackfillSlack + RunBound
    BY DEF WatermarkNearSweep
  <2> QED BY <2>1, <2>2, Constants DEF WindowWideEnough
<1>2. at + Lookback >= Epoch
  BY Constants DEF Epoch
<1> QED BY <1>1, <1>2 DEF SinceWatermark

(***************************************************************************)
(* A build that is not a backfill of an existing mart selects every staged *)
(* event stamped since the last sweep, whichever copies survive.           *)
(***************************************************************************)
Sweeping(m) == run.mode = "backfill" => ~ Incremental(m)

LEMMA SweepSelects ==
    ASSUME WindowWideEnough, TypeOK, Running, NEW m \in Marts, Sweeping(m),
           NEW mart \in {trips, tripEvents, payments}, WatermarkNearSweep(m, mart),
           NEW at \in StagedAt, NEW e \in Staged,
           \A l \in Landings(e) : swept[m] <= l + MaxStall + RunBound
    PROVE  e \in Selected(m, mart, at)
<1>1. at[e] \in Landings(e) /\ at[e] \in Nat
  BY Readings DEF StagedAt
<1>2. SinceWatermark(at[e], Stamps(mart))
  BY <1>1, WindowCovers
<1>3. run.mode \in Modes
  BY DEF TypeOK, Runs
<1>4. Incremental(m) => InWindow(at[e], run, Stamps(mart))
  BY <1>2, <1>3 DEF Sweeping, Running, Modes, InWindow
<1> QED BY <1>4 DEF Selected

--------------------------------------------------------------------------------
(* Clocks.                                                                 *)

LEMMA ClocksStep ==
    ASSUME TypeOK, ClocksOrdered, [Next]_vars
    PROVE  ClocksOrdered'
<1> USE Readings, Constants
<1>1. CASE Tick
  <2>1. clock' = clock + 1 /\ UNCHANGED <<writing, zone, run, swept>>
    BY <1>1 DEF Tick, marts
  <2>2. \A row \in writing : clock < row.at + MaxStall
    BY <1>1 DEF Tick
  <2>3. Running => clock < run.start + RunBound
    BY <1>1 DEF Tick
  <2> QED BY <2>1, <2>2, <2>3 DEF ClocksOrdered, Running
<1>2. ASSUME NEW e \in Events, StampRow(e) PROVE ClocksOrdered'
  BY <1>2 DEF StampRow, ClocksOrdered, marts, Running
<1>3. ASSUME NEW row \in writing, RenameFile(row) \/ LoseFile(row) PROVE ClocksOrdered'
  <2>1. /\ run'.mode = run.mode /\ run'.start = run.start
        /\ clock' = clock /\ swept' = swept /\ writing' \subseteq writing
        /\ zone' \subseteq zone \cup writing
    BY <1>3 DEF RenameFile, LoseFile, marts, TypeOK, Runs
  <2> QED BY <2>1 DEF ClocksOrdered, Running
<1>4. ASSUME NEW mode, NEW from, NEW to, run' = NewRun(mode, from, to),
             mode = "backfill" => \A m \in Marts : clock <= swept[m] + BackfillSlack,
             UNCHANGED <<clock, writing, zone, marts>>
      PROVE  ClocksOrdered'
  BY <1>4 DEF NewRun, ClocksOrdered, Running, marts
<1>5. CASE StartNormal \/ StartFullRefresh \/ \E from, to \in Times : StartBackfill(from, to)
  BY <1>4, <1>5 DEF StartNormal, StartFullRefresh, StartBackfill
<1>6. ASSUME run'.mode = run.mode, run'.start = run.start,
             UNCHANGED <<clock, writing, zone>>,
             \A m \in Marts : swept'[m] = swept[m] \/ swept'[m] = clock
      PROVE  ClocksOrdered'
  <2>1. \A m \in Marts : swept[m] <= swept'[m] /\ swept'[m] <= clock /\ swept'[m] \in Nat
    BY <1>6 DEF ClocksOrdered
  <2>2. run.mode = "backfill" => \A m \in Marts : run.start <= swept'[m] + BackfillSlack
    BY <2>1 DEF ClocksOrdered
  <2> QED BY <1>6, <2>1, <2>2 DEF ClocksOrdered, Running
<1>7. \A m : Done(m) => run'.mode = run.mode /\ run'.start = run.start
  BY DEF Done, TypeOK, Runs
<1>8. \A m \in Marts : Sweep(m) =>
         \A n \in Marts : swept'[n] = swept[n] \/ swept'[n] = clock
  BY DEF Sweep, TypeOK
<1>9. CASE BuildAssembled
  BY <1>6, <1>7, <1>9 DEF BuildAssembled
<1>10. ASSUME NEW m \in Models, FailModel(m) PROVE ClocksOrdered'
  <2>1. run'.mode = run.mode /\ run'.start = run.start
    BY <1>10 DEF FailModel, TypeOK, Runs
  <2> QED BY <1>6, <1>10, <2>1 DEF FailModel, marts
<1>11. CASE RetryRun
  <2>1. run'.mode = run.mode /\ run'.start = run.start
    BY <1>11 DEF RetryRun, TypeOK, Runs
  <2> QED BY <1>6, <1>11, <2>1 DEF RetryRun, marts
<1>12. CASE GiveUp \/ KillRun \/ TestRun
  <2>1. ~ Running' /\ run'.mode # "backfill" /\ UNCHANGED <<clock, writing, zone, swept>>
    BY <1>12 DEF GiveUp, KillRun, TestRun, NoRun, Running, marts
  <2> QED BY <2>1 DEF ClocksOrdered
<1>13. ASSUME NEW m \in Marts, Done(m), Sweep(m), UNCHANGED <<clock, writing, zone>>
       PROVE  ClocksOrdered'
  BY <1>6, <1>7, <1>8, <1>13
<1>14. \A m : Ready(m) /\ m # Assembled => m \in Marts
  BY DEF Ready, TypeOK, Runs, Models
<1>15. CASE BuildTrips \/ BuildTripEvents \/ BuildPayments
  BY <1>13, <1>14, <1>15, ModelNames DEF BuildTrips, BuildTripEvents, BuildPayments
<1>16. CASE UNCHANGED vars
  BY <1>16 DEF vars, ClocksOrdered, Running
<1> QED
  BY <1>1, <1>2, <1>3, <1>5, <1>9, <1>10, <1>11, <1>12, <1>15, <1>16 DEF Next, BuildStep

--------------------------------------------------------------------------------
(* The snapshot of one run.                                                *)

LEMMA SnapshotStep ==
    ASSUME TypeOK, ClocksOrdered, SnapshotRecent, [Next]_vars
    PROVE  SnapshotRecent'
<1> USE Readings, Constants
<1>1. ASSUME UNCHANGED <<zone, assembled>>,
             Running' /\ Assembled \notin run'.todo /\ FctTrips \in run'.todo =>
                 /\ Running /\ Assembled \notin run.todo /\ FctTrips \in run.todo
                 /\ run'.start = run.start
      PROVE  SnapshotRecent'
  BY <1>1 DEF SnapshotRecent, Staged, Landings
<1>2. CASE BuildAssembled
  <2>1. Staged' \ assembled' = {}
    BY <1>2 DEF BuildAssembled, Staged
  <2> QED BY <2>1 DEF SnapshotRecent
<1>3. ASSUME NEW row \in writing, RenameFile(row) PROVE SnapshotRecent'
  <2> SUFFICES ASSUME Running, Assembled \notin run.todo, FctTrips \in run.todo,
                      NEW e \in Staged' \ assembled, NEW at \in Landings(e)'
               PROVE  run.start <= at + MaxStall
    BY <1>3 DEF RenameFile, SnapshotRecent, marts, Running, TypeOK, Runs
  <2>1. CASE e \in Staged /\ at \in Landings(e)
    BY <2>1 DEF SnapshotRecent
  <2>2. CASE at = row.at
    <3>1. clock <= row.at + MaxStall /\ run.start <= clock
      BY DEF ClocksOrdered
    <3> QED BY <2>2, <3>1
  <2>3. at = row.at \/ (e \in Staged /\ at \in Landings(e))
    BY <1>3 DEF RenameFile, Landings, Staged
  <2> QED BY <2>1, <2>2, <2>3
<1>4. CASE StartNormal \/ StartFullRefresh \/ \E from, to \in Times : StartBackfill(from, to)
  <2>1. \A mode, from, to : Assembled \in NewRun(mode, from, to).todo
    BY DEF NewRun, Models
  <2>2. Assembled \in run'.todo /\ UNCHANGED <<zone, assembled>>
    BY <1>4, <2>1 DEF StartNormal, StartFullRefresh, StartBackfill, marts
  <2> QED BY <1>1, <2>2
<1>5. ASSUME NEW m \in Marts, Done(m), UNCHANGED <<zone, assembled>> PROVE SnapshotRecent'
  <2>1. run'.mode = run.mode /\ run'.start = run.start /\ run'.todo = run.todo \ {m}
    BY <1>5 DEF Done, TypeOK, Runs
  <2> QED BY <1>1, <1>5, <2>1 DEF Running
<1>6. \A m : Ready(m) /\ m # Assembled => m \in Marts
  BY DEF Ready, TypeOK, Runs, Models
<1>7. CASE BuildTrips \/ BuildTripEvents \/ BuildPayments
  BY <1>5, <1>6, <1>7, ModelNames DEF BuildTrips, BuildTripEvents, BuildPayments
<1>8. ASSUME NEW m \in Models, FailModel(m) PROVE SnapshotRecent'
  <2>1. /\ run'.mode = run.mode /\ run'.start = run.start
        /\ run'.todo = run.todo \ Dependents(m) /\ UNCHANGED <<zone, assembled>>
    BY <1>8 DEF FailModel, TypeOK, Runs, marts
  <2>2. Assembled \notin run'.todo /\ FctTrips \in run'.todo =>
           Assembled \notin run.todo /\ FctTrips \in run.todo
    <3>1. CASE m = Assembled
      BY <2>1, <3>1 DEF Dependents
    <3>2. CASE m # Assembled
      BY <2>1, <3>2 DEF Dependents
    <3> QED BY <3>1, <3>2
  <2> QED BY <1>1, <2>1, <2>2 DEF Running
<1>9. CASE RetryRun
  <2>1. Assembled \in run'.todo /\ UNCHANGED <<zone, assembled>>
    BY <1>9 DEF RetryRun, Models, marts, TypeOK, Runs
  <2> QED BY <1>1, <2>1
<1>10. CASE GiveUp \/ KillRun \/ TestRun
  <2>1. ~ Running' /\ UNCHANGED <<zone, assembled>>
    BY <1>10 DEF GiveUp, KillRun, TestRun, NoRun, Running, marts
  <2> QED BY <1>1, <2>1
<1>11. ASSUME UNCHANGED <<zone, assembled, run>> PROVE SnapshotRecent'
  BY <1>1, <1>11 DEF Running
<1> QED
  BY <1>2, <1>3, <1>4, <1>7, <1>8, <1>9, <1>10, <1>11
  DEF Next, BuildStep, vars, marts, Tick, StampRow, LoseFile

--------------------------------------------------------------------------------
(* What the marts show.                                                    *)

(* The invariant of one mart, and its two ways of being kept.              *)
MartSwept(m, mart, unshown) ==
    WatermarkNearSweep(m, mart) /\ UnshownSinceSweep(m, unshown)

(***************************************************************************)
(* A mart that is not built keeps its invariant when a file is renamed:    *)
(* the row was stamped no longer than MaxStall ago.                        *)
(***************************************************************************)
LEMMA LandingIsRecent ==
    ASSUME TypeOK, ClocksOrdered, [Next]_vars, NEW m \in Marts, swept'[m] = swept[m],
           NEW es, NEW fs, UnshownSinceSweep(m, es),
           \A e \in fs : e \in Staged' /\ (e \in Staged => e \in es)
    PROVE  \A e \in fs : \A at \in Landings(e)' : swept'[m] <= at + MaxStall + RunBound
<1> USE Readings, Constants
<1> SUFFICES ASSUME NEW e \in fs, NEW at \in Landings(e)'
             PROVE  swept[m] <= at + MaxStall + RunBound
  OBVIOUS
<1>1. CASE at \in Landings(e)
  <2>1. e \in Staged
    BY <1>1 DEF Landings, Staged
  <2> QED BY <1>1, <2>1 DEF UnshownSinceSweep
<1>2. ASSUME NEW row \in writing, zone' = zone \cup {row}, at = row.at
      PROVE  swept[m] <= at + MaxStall + RunBound
  <2>1. swept[m] <= clock /\ clock <= row.at + MaxStall
    BY DEF ClocksOrdered
  <2> QED BY <1>2, <2>1
<1> QED BY <1>1, <1>2, ZoneGrows DEF Landings

LEMMA NotBuilt ==
    ASSUME TypeOK, ClocksOrdered, [Next]_vars, NEW m \in Marts, swept'[m] = swept[m],
           NEW mart \in {trips, tripEvents, payments}, NEW es, NEW fs,
           MartSwept(m, mart, es),
           \A e \in fs : e \in Staged' /\ (e \in Staged => e \in es)
    PROVE  /\ \A s \in Stamps(mart) : s <= swept'[m] + BackfillSlack + RunBound
           /\ \A e \in fs : \A at \in Landings(e)' : swept'[m] <= at + MaxStall + RunBound
BY LandingIsRecent DEF MartSwept, WatermarkNearSweep

(***************************************************************************)
(* A build stamps its rows now, which is within the bounds of the sweep    *)
(* it makes, or of the one before the backfill it belongs to.              *)
(***************************************************************************)
LEMMA BuildStamps ==
    ASSUME TypeOK, ClocksOrdered, Running, NEW m \in Marts, Sweep(m),
           NEW mart \in {trips, tripEvents, payments}, WatermarkNearSweep(m, mart),
           NEW s, s = clock \/ s \in Stamps(mart)
    PROVE  s <= swept'[m] + BackfillSlack + RunBound
<1> USE Readings, Constants
<1>1. CASE run.mode = "backfill" /\ Incremental(m)
  <2>1. swept' = swept
    BY <1>1 DEF Sweep
  <2>2. clock <= run.start + RunBound /\ run.start <= swept[m] + BackfillSlack
    BY <1>1 DEF ClocksOrdered
  <2>3. clock <= swept[m] + BackfillSlack + RunBound
    BY <2>2
  <2> QED BY <2>1, <2>3 DEF WatermarkNearSweep
<1>2. CASE Sweeping(m)
  <2>1. swept'[m] = clock
    BY <1>2 DEF Sweep, Sweeping, TypeOK
  <2>2. swept[m] <= clock
    BY DEF ClocksOrdered
  <2> QED BY <2>1, <2>2 DEF WatermarkNearSweep
<1> QED BY <1>1, <1>2 DEF Sweeping

(***************************************************************************)
(* Only its own build touches a mart or its sweep.                         *)
(***************************************************************************)
LEMMA WhoSweeps ==
    ASSUME TypeOK, [Next]_vars
    PROVE  /\ ~ BuildTrips => trips' = trips /\ swept'[FctTrips] = swept[FctTrips]
           /\ ~ BuildTripEvents =>
                 tripEvents' = tripEvents /\ swept'[FctEvents] = swept[FctEvents]
           /\ ~ BuildPayments =>
                 payments' = payments /\ swept'[FctPayments] = swept[FctPayments]
<1>1. CASE UNCHANGED <<trips, tripEvents, payments, swept>>
  BY <1>1
<1>2. \A m, n : m # n /\ Sweep(m) => swept'[n] = swept[n]
  BY DEF Sweep, TypeOK
<1>3. CASE BuildTrips \/ BuildTripEvents \/ BuildPayments
  BY <1>2, <1>3, ModelNames DEF BuildTrips, BuildTripEvents, BuildPayments
<1> QED
  BY <1>1, <1>3
  DEF Next, vars, marts, Tick, StampRow, RenameFile, LoseFile, StartNormal,
      StartFullRefresh, StartBackfill, BuildStep, BuildAssembled, FailModel,
      RetryRun, GiveUp, KillRun, TestRun

LEMMA TripsSwept ==
    ASSUME WindowWideEnough, Inv, [Next]_vars, FctTrips \in Marts
    PROVE  MartSwept(FctTrips, trips, Staged \ TripsShown)'
<1> USE Readings, Constants
<1>1. /\ TypeOK /\ ClocksOrdered /\ RowsSound /\ SnapshotRecent
      /\ MartSwept(FctTrips, trips, Staged \ TripsShown)
  BY DEF Inv, SweepsComplete, MartSwept
<1>2. TripsShown \subseteq TripsShown'
  BY <1>1, TripsShownStep
<1>3. CASE ~ BuildTrips
  <2>1. trips' = trips /\ swept'[FctTrips] = swept[FctTrips]
    BY <1>1, <1>3, WhoSweeps
  <2> QED
    BY <1>1, <1>2, <2>1, NotBuilt
    DEF MartSwept, WatermarkNearSweep, UnshownSinceSweep
<1>4. CASE BuildTrips
  <2>1. Running /\ Sweep(FctTrips) /\ zone' = zone /\ Ready(FctTrips)
    BY <1>4 DEF BuildTrips, Ready
  <2>2. Staged' = Staged /\ \A e : Landings(e)' = Landings(e)
    BY <2>1 DEF Staged, Landings
  <2>3. \A s \in Stamps(trips') : s = clock \/ s \in Stamps(trips)
    BY <1>1, <1>4, TripsBuilt DEF Stamps, TripRow
  <2>4. \A s \in Stamps(trips') : s <= swept'[FctTrips] + BackfillSlack + RunBound
    BY <1>1, <2>1, <2>3, BuildStamps DEF MartSwept
  <2>5. ASSUME NEW e \in Staged, e \notin TripsShown', NEW l \in Landings(e)
        PROVE  swept'[FctTrips] <= l + MaxStall + RunBound
    <3>1. \A k \in Landings(e) : swept[FctTrips] <= k + MaxStall + RunBound
      BY <1>1, <1>2, <2>5 DEF MartSwept, UnshownSinceSweep
    <3>2. CASE ~ Sweeping(FctTrips)
      BY <2>1, <3>1, <3>2 DEF Sweep, Sweeping
    <3>3. CASE Sweeping(FctTrips)
      <4>1. swept'[FctTrips] = clock
        BY <1>1, <2>1, <3>3 DEF Sweep, Sweeping, TypeOK
      <4>2. \A at \in StagedAt : e \in Selected(FctTrips, trips, at)
        BY <1>1, <2>1, <3>1, <3>3, SweepSelects DEF MartSwept
      <4>3. e \notin assembled
        BY <1>1, <1>4, <2>5, <4>2, TripsBuilt
      <4>4. run.start <= l + MaxStall
        BY <1>1, <2>1, <4>3 DEF SnapshotRecent, Ready
      <4>5. clock <= run.start + RunBound
        BY <1>1, <2>1 DEF ClocksOrdered
      <4> QED BY <1>1, <4>1, <4>4, <4>5
    <3> QED BY <3>2, <3>3
  <2> QED BY <2>2, <2>4, <2>5 DEF MartSwept, WatermarkNearSweep, UnshownSinceSweep, Stamps
<1> QED BY <1>3, <1>4

LEMMA EventsSwept ==
    ASSUME WindowWideEnough, Inv, [Next]_vars, FctEvents \in Marts
    PROVE  MartSwept(FctEvents, tripEvents, Staged \ EventsShown)'
<1> USE Readings, Constants
<1>1. /\ TypeOK /\ ClocksOrdered /\ RowsSound
      /\ MartSwept(FctEvents, tripEvents, Staged \ EventsShown)
  BY DEF Inv, SweepsComplete, MartSwept
<1>2. EventsShown \subseteq EventsShown'
  BY <1>1, EventsShownStep
<1>3. CASE ~ BuildTripEvents
  <2>1. tripEvents' = tripEvents /\ swept'[FctEvents] = swept[FctEvents]
    BY <1>1, <1>3, WhoSweeps
  <2> QED
    BY <1>1, <1>2, <2>1, NotBuilt
    DEF MartSwept, WatermarkNearSweep, UnshownSinceSweep
<1>4. CASE BuildTripEvents
  <2>1. Running /\ Sweep(FctEvents) /\ zone' = zone
    BY <1>4 DEF BuildTripEvents, Ready
  <2>2. Staged' = Staged /\ \A e : Landings(e)' = Landings(e)
    BY <2>1 DEF Staged, Landings
  <2>3. \A s \in Stamps(tripEvents') : s = clock \/ s \in Stamps(tripEvents)
    BY <1>4 DEF BuildTripEvents, Stamps, KeptEvents, EventRow
  <2>4. \A s \in Stamps(tripEvents') : s <= swept'[FctEvents] + BackfillSlack + RunBound
    BY <1>1, <2>1, <2>3, BuildStamps DEF MartSwept
  <2>5. ASSUME NEW e \in Staged, e \notin EventsShown', NEW l \in Landings(e)
        PROVE  swept'[FctEvents] <= l + MaxStall + RunBound
    <3>1. \A k \in Landings(e) : swept[FctEvents] <= k + MaxStall + RunBound
      BY <1>1, <1>2, <2>5 DEF MartSwept, UnshownSinceSweep
    <3>2. ~ Sweeping(FctEvents)
      BY <1>1, <1>4, <2>1, <2>5, <3>1, SweepSelects, EventsBuilt DEF MartSwept
    <3> QED BY <2>1, <3>1, <3>2 DEF Sweep, Sweeping
  <2> QED BY <2>2, <2>4, <2>5 DEF MartSwept, WatermarkNearSweep, UnshownSinceSweep, Stamps
<1> QED BY <1>3, <1>4

LEMMA PaymentsSwept ==
    ASSUME WindowWideEnough, Inv, [Next]_vars, FctPayments \in Marts
    PROVE  MartSwept(FctPayments, payments, StagedPayments \ PaymentsShown)'
<1> USE Readings, Constants
<1>1. /\ TypeOK /\ ClocksOrdered /\ RowsSound
      /\ MartSwept(FctPayments, payments, StagedPayments \ PaymentsShown)
  BY DEF Inv, SweepsComplete, MartSwept
<1>2. PaymentsShown \subseteq PaymentsShown'
  BY <1>1, EventsShownStep
<1>3. CASE ~ BuildPayments
  <2>1. payments' = payments /\ swept'[FctPayments] = swept[FctPayments]
    BY <1>1, <1>3, WhoSweeps
  <2>2. \A e \in StagedPayments' \ PaymentsShown' :
           e \in Staged' /\ (e \in Staged => e \in StagedPayments \ PaymentsShown)
    BY <1>2 DEF StagedPayments
  <2>3. \A e \in StagedPayments' \ PaymentsShown' : \A at \in Landings(e)' :
           swept'[FctPayments] <= at + MaxStall + RunBound
    BY <1>1, <2>1, <2>2, LandingIsRecent DEF MartSwept
  <2> QED
    BY <1>1, <2>1, <2>3 DEF MartSwept, WatermarkNearSweep, UnshownSinceSweep
<1>4. CASE BuildPayments
  <2>1. Running /\ Sweep(FctPayments) /\ zone' = zone
    BY <1>4 DEF BuildPayments, Ready
  <2>2. Staged' = Staged /\ StagedPayments' = StagedPayments
        /\ \A e : Landings(e)' = Landings(e)
    BY <2>1 DEF Staged, StagedPayments, Landings
  <2>3. \A s \in Stamps(payments') : s = clock \/ s \in Stamps(payments)
    BY <1>4 DEF BuildPayments, Stamps, KeptEvents
  <2>4. \A s \in Stamps(payments') : s <= swept'[FctPayments] + BackfillSlack + RunBound
    BY <1>1, <2>1, <2>3, BuildStamps DEF MartSwept
  <2>5. ASSUME NEW e \in StagedPayments, e \notin PaymentsShown', NEW l \in Landings(e)
        PROVE  swept'[FctPayments] <= l + MaxStall + RunBound
    <3>1. \A k \in Landings(e) : swept[FctPayments] <= k + MaxStall + RunBound
      BY <1>1, <1>2, <2>5 DEF MartSwept, UnshownSinceSweep
    <3>2. ~ Sweeping(FctPayments)
      BY <1>1, <1>4, <2>1, <2>5, <3>1, SweepSelects, PaymentsBuilt
      DEF MartSwept, StagedPayments
    <3> QED BY <2>1, <3>1, <3>2 DEF Sweep, Sweeping
  <2> QED BY <2>2, <2>4, <2>5 DEF MartSwept, WatermarkNearSweep, UnshownSinceSweep, Stamps
<1> QED BY <1>3, <1>4

--------------------------------------------------------------------------------
LEMMA InvInit == Init => Inv
<1> SUFFICES ASSUME Init PROVE Inv
  OBVIOUS
<1>1. TypeOK /\ RowsSound
  BY InitType, SoundInit
<1>2. zone = {} /\ writing = {} /\ trips = {} /\ tripEvents = {} /\ payments = {} /\ clock = 1
      /\ run.mode = "none" /\ \A m \in Marts : swept[m] = 0
  BY DEF Init, NoRun
<1>3. ClocksOrdered /\ SnapshotRecent
  BY <1>2 DEF ClocksOrdered, SnapshotRecent, Running
<1>4. SweepsComplete
  BY <1>2 DEF SweepsComplete, WatermarkNearSweep, UnshownSinceSweep, Stamps, Staged,
              StagedPayments
<1> QED BY <1>1, <1>3, <1>4 DEF Inv

LEMMA InvStep == WindowWideEnough /\ Inv /\ [Next]_vars => Inv'
<1> SUFFICES ASSUME WindowWideEnough, Inv, [Next]_vars PROVE Inv'
  OBVIOUS
<1>1. TypeOK' /\ RowsSound' /\ ClocksOrdered' /\ SnapshotRecent'
  BY StepType, SoundStep, ClocksStep, SnapshotStep DEF Inv
<1>2. SweepsComplete'
  BY TripsSwept, EventsSwept, PaymentsSwept DEF MartSwept, SweepsComplete
<1> QED BY <1>1, <1>2 DEF Inv

(***************************************************************************)
(* The inductive invariant, for a lookback wide enough.                    *)
(***************************************************************************)
THEOREM InvariantHolds == ASSUME WindowWideEnough PROVE Spec => []Inv
BY InvInit, InvStep, PTL DEF Spec

(***************************************************************************)
(* No mart's watermark ever passes a landed event the mart does not show:  *)
(* through failed, retried, killed, full-refresh and backfill runs, rows   *)
(* that become readable late and copies of any age, every such event is in *)
(* the window of the next normal run.                                      *)
(***************************************************************************)
THEOREM NoneStranded == ASSUME WindowWideEnough PROVE Spec => []NothingStranded
<1>1. Inv => NothingStranded
  <2> SUFFICES ASSUME Inv PROVE NothingStranded
    OBVIOUS
  <2>1. ASSUME NEW m \in Marts, NEW mart \in {trips, tripEvents, payments},
               NEW es \in SUBSET Staged, WatermarkNearSweep(m, mart), UnshownSinceSweep(m, es)
        PROVE  StillDue(es, mart)
    BY <2>1, WindowCovers, Readings DEF Inv, UnshownSinceSweep, StillDue
  <2> QED BY <2>1 DEF Inv, SweepsComplete, NothingStranded, StagedPayments
<1> QED BY <1>1, InvariantHolds, PTL

--------------------------------------------------------------------------------
(* The gate.                                                               *)

(***************************************************************************)
(* What a normal run or full refresh has built, while nothing landed and   *)
(* nothing failed, shows all of the landing zone.                          *)
(***************************************************************************)
Clean == Running /\ run.quiet /\ run.mode # "backfill" /\ ~ run.failed

CleanBuilds ==
    Clean =>
        /\ Assembled \notin run.todo => assembled = Staged
        /\ FctTrips \in Marts \ run.todo => TripsShown = Staged /\ Assembled \notin run.todo
        /\ FctEvents \in Marts \ run.todo => EventsShown = Staged
        /\ FctPayments \in Marts \ run.todo => PaymentsShown = StagedPayments

LEMMA SweepShowsTrips ==
    ASSUME WindowWideEnough, Inv, BuildTrips, run.mode # "backfill", assembled = Staged,
           FctTrips \in Marts
    PROVE  TripsShown' = Staged
<1>1. /\ TypeOK /\ RowsSound /\ Running
      /\ WatermarkNearSweep(FctTrips, trips)
      /\ UnshownSinceSweep(FctTrips, Staged \ TripsShown)
  BY DEF Inv, SweepsComplete, BuildTrips, Ready
<1>2. \A e \in Staged : e \in TripsShown \/ \A at \in StagedAt : e \in Selected(FctTrips, trips, at)
  BY <1>1, SweepSelects DEF UnshownSinceSweep, Sweeping
<1>3. Staged \subseteq TripsShown'
  BY <1>1, <1>2, TripsBuilt DEF TripsShown
<1>4. TripsShown' \subseteq Staged
  <2>1. \A t : TripRow(t).events \subseteq assembled
    BY DEF TripRow, OfTrip
  <2>2. \A row \in trips : row.events \subseteq assembled
    BY <1>1 DEF RowsSound, OfTrip
  <2> QED BY <1>1, <2>1, <2>2, TripsBuilt DEF TripsShown
<1> QED BY <1>3, <1>4

LEMMA SweepShowsEvents ==
    ASSUME WindowWideEnough, Inv, BuildTripEvents, run.mode # "backfill", FctEvents \in Marts
    PROVE  EventsShown' = Staged
<1>1. /\ TypeOK /\ RowsSound /\ Running
      /\ WatermarkNearSweep(FctEvents, tripEvents)
      /\ UnshownSinceSweep(FctEvents, Staged \ EventsShown)
  BY DEF Inv, SweepsComplete, BuildTripEvents, Ready
<1>2. \A e \in Staged : e \in EventsShown
                       \/ \A at \in StagedAt : e \in Selected(FctEvents, tripEvents, at)
  BY <1>1, SweepSelects DEF UnshownSinceSweep, Sweeping
<1> QED BY <1>1, <1>2, EventsBuilt DEF RowsSound, Selected

LEMMA SweepShowsPayments ==
    ASSUME WindowWideEnough, Inv, BuildPayments, run.mode # "backfill", FctPayments \in Marts
    PROVE  PaymentsShown' = StagedPayments
<1>1. /\ TypeOK /\ RowsSound /\ Running
      /\ WatermarkNearSweep(FctPayments, payments)
      /\ UnshownSinceSweep(FctPayments, StagedPayments \ PaymentsShown)
  BY DEF Inv, SweepsComplete, BuildPayments, Ready
<1>2. \A e \in StagedPayments :
         e \in PaymentsShown \/ \A at \in StagedAt : e \in Selected(FctPayments, payments, at)
  BY <1>1, SweepSelects DEF UnshownSinceSweep, Sweeping, StagedPayments
<1> QED BY <1>1, <1>2, PaymentsBuilt DEF RowsSound, Selected, StagedPayments

LEMMA CleanInit == Init => CleanBuilds
BY DEF Init, NoRun, CleanBuilds, Clean, Running

LEMMA CleanStep ==
    ASSUME WindowWideEnough, Inv, CleanBuilds, [Next]_vars
    PROVE  CleanBuilds'
<1>1. TypeOK /\ RowsSound
  BY DEF Inv
<1>2. CASE Tick \/ UNCHANGED vars \/ (\E e \in Events : StampRow(e))
           \/ \E row \in writing : LoseFile(row)
  <2>1. UNCHANGED <<zone, run, marts>>
    BY <1>2 DEF Tick, StampRow, LoseFile, vars, marts
  <2> QED BY <2>1 DEF CleanBuilds, Clean, Running, marts, Staged, StagedPayments,
                      TripsShown, EventsShown, PaymentsShown
<1>3. ASSUME NEW row \in writing, RenameFile(row) PROVE CleanBuilds'
  BY <1>1, <1>3 DEF RenameFile, CleanBuilds, Clean, TypeOK, Runs
<1>4. CASE StartNormal \/ StartFullRefresh \/ \E from, to \in Times : StartBackfill(from, to)
  <2>1. \A mode, from, to : NewRun(mode, from, to).todo = Models
    BY DEF NewRun
  <2>2. run'.todo = Models
    BY <1>4, <2>1 DEF StartNormal, StartFullRefresh, StartBackfill
  <2> QED BY <2>2 DEF CleanBuilds, Models
<1>5. CASE RetryRun
  <2>1. run'.todo = Models
    BY <1>1, <1>5 DEF RetryRun, TypeOK, Runs
  <2> QED BY <2>1 DEF CleanBuilds, Models
<1>6. ASSUME NEW m \in Models, FailModel(m) PROVE CleanBuilds'
  BY <1>1, <1>6 DEF FailModel, CleanBuilds, Clean, TypeOK, Runs
<1>7. CASE GiveUp \/ KillRun \/ TestRun
  BY <1>7 DEF GiveUp, KillRun, TestRun, NoRun, CleanBuilds, Clean, Running
<1>8. ASSUME NEW m, Done(m)
      PROVE  /\ run'.todo = run.todo \ {m} /\ run'.mode = run.mode
             /\ Clean' => Clean /\ run.mode # "backfill"
  BY <1>1, <1>8 DEF Done, Clean, Running, TypeOK, Runs
<1>9. CASE BuildAssembled
  <2>1. /\ assembled' = Staged /\ Staged' = Staged /\ StagedPayments' = StagedPayments
        /\ TripsShown' = TripsShown /\ EventsShown' = EventsShown
        /\ PaymentsShown' = PaymentsShown
        /\ run'.todo = run.todo \ {Assembled} /\ (Clean' => Clean)
    BY <1>8, <1>9 DEF BuildAssembled, Staged, StagedPayments, TripsShown, EventsShown,
                     PaymentsShown
  <2>2. Assembled \in run.todo
    BY <1>9 DEF BuildAssembled, Ready
  <2> QED BY <2>1, <2>2, Constants, ModelNames DEF CleanBuilds
<1>10. CASE BuildTrips
  <2>1. /\ assembled' = assembled /\ Staged' = Staged /\ StagedPayments' = StagedPayments
        /\ EventsShown' = EventsShown /\ PaymentsShown' = PaymentsShown
        /\ run'.todo = run.todo \ {FctTrips}
        /\ (Clean' => Clean /\ run.mode # "backfill")
    BY <1>8, <1>10 DEF BuildTrips, Staged, StagedPayments, EventsShown, PaymentsShown
  <2>2. Assembled \notin run.todo /\ FctTrips \in Marts
    BY <1>1, <1>10, ModelNames DEF BuildTrips, Ready, TypeOK, Runs, Models
  <2>3. Clean' => TripsShown' = Staged
    BY <1>10, <2>1, <2>2, SweepShowsTrips DEF CleanBuilds
  <2> QED BY <2>1, <2>2, <2>3, ModelNames DEF CleanBuilds
<1>11. CASE BuildTripEvents
  <2>1. /\ assembled' = assembled /\ Staged' = Staged /\ StagedPayments' = StagedPayments
        /\ TripsShown' = TripsShown /\ PaymentsShown' = PaymentsShown
        /\ run'.todo = run.todo \ {FctEvents}
        /\ (Clean' => Clean /\ run.mode # "backfill")
    BY <1>8, <1>11 DEF BuildTripEvents, Staged, StagedPayments, TripsShown, PaymentsShown
  <2>2. FctEvents \in Marts
    BY <1>1, <1>11, ModelNames DEF BuildTripEvents, Ready, TypeOK, Runs, Models
  <2>3. Clean' => EventsShown' = Staged
    BY <1>11, <2>1, <2>2, SweepShowsEvents
  <2> QED BY <2>1, <2>2, <2>3, ModelNames DEF CleanBuilds
<1>12. CASE BuildPayments
  <2>1. /\ assembled' = assembled /\ Staged' = Staged /\ StagedPayments' = StagedPayments
        /\ TripsShown' = TripsShown /\ EventsShown' = EventsShown
        /\ run'.todo = run.todo \ {FctPayments}
        /\ (Clean' => Clean /\ run.mode # "backfill")
    BY <1>8, <1>12 DEF BuildPayments, Staged, StagedPayments, TripsShown, EventsShown
  <2>2. FctPayments \in Marts
    BY <1>1, <1>12, ModelNames DEF BuildPayments, Ready, TypeOK, Runs, Models
  <2>3. Clean' => PaymentsShown' = StagedPayments
    BY <1>12, <2>1, <2>2, SweepShowsPayments
  <2> QED BY <2>1, <2>2, <2>3, ModelNames DEF CleanBuilds
<1> QED
  BY <1>2, <1>3, <1>4, <1>5, <1>6, <1>7, <1>9, <1>10, <1>11, <1>12 DEF Next, BuildStep

(***************************************************************************)
(* The gate does not fail on correct data: after a completed normal run or *)
(* full refresh during which nothing landed, N2, N4 and the relationship   *)
(* of payments to trips hold, whatever happened in the runs before it.     *)
(***************************************************************************)
THEOREM QuietRunPasses ==
    ASSUME WindowWideEnough, Marts = {FctTrips, FctEvents, FctPayments}
    PROVE  Spec => []QuietRunPassesGate
<1>1. TypeOK /\ RowsSound /\ CleanBuilds => QuietRunPassesGate
  <2> SUFFICES ASSUME TypeOK, RowsSound, CleanBuilds, Built, run.quiet, run.mode # "backfill"
               PROVE  N2 /\ N4 /\ PaymentsRelate
    BY DEF QuietRunPassesGate
  <2>1. TripsShown = Staged /\ EventsShown = Staged /\ PaymentsShown = StagedPayments
    BY DEF CleanBuilds, Clean, Built
  <2>2. \A row \in trips : /\ \E e \in row.events : e.trip = row.trip
                           /\ \A e \in row.events : e.trip = row.trip
    BY DEF RowsSound, OfTrip
  <2>3. N2
    BY <2>1, <2>2 DEF N2, TripsShown
  <2>4. N4
    BY <2>1, <2>2 DEF N4, TripsShown, EventsShown
  <2>5. PaymentsRelate
    BY <2>1, <2>3 DEF N2, PaymentsRelate, PaymentsShown, StagedPayments
  <2> QED BY <2>3, <2>4, <2>5
<1>2. Inv /\ CleanBuilds /\ [Next]_vars => CleanBuilds'
  BY CleanStep
<1>3. Inv => TypeOK /\ RowsSound
  BY DEF Inv
<1> QED BY <1>1, <1>2, <1>3, CleanInit, InvariantHolds, PTL DEF Spec
================================================================================
