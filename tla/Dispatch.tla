-------------------------------- MODULE Dispatch --------------------------------
(***************************************************************************)
(* The supply side and the life of trips in event_generator: duty sessions *)
(* (marketplace.py), one trip after the other in the order of the requests *)
(* (generator.py), each a chain of events (lifecycle.py), then the         *)
(* presence events of the sessions.                                        *)
(*                                                                         *)
(* Times are seconds from start_time.  Every random draw is a choice from  *)
(* a constant set of representative values.                                *)
(***************************************************************************)
EXTENDS Integers, FiniteSets, Fares

CONSTANTS
    Trips,          \* bound: expected_trips
    Window,         \* duration_sec: the requests fall in 0 .. Window
    RequestTimes,   \* requested_at
    Types,          \* vehicle types
    MinRating,      \* MinRating[type]: min_driver_rating
    Fleet,          \* drivers, [type, rating] by session number
    Onlines, Shifts, Extensions,     \* online_at, durations, see OfflineAt
    MatchingDelays, Etas, ArrivalDelays, Waits, Durations, PaymentLags,
    CancelDelays,   \* CancelDelays[stage]: how long after the last event
    Quotes          \* what a plan and a payment draw: distance, surge, isAirport,
                    \* toll, tip, discount

Sessions == DOMAIN Fleet
NoSession == 0
Open == -1          \* the offline_at of a session without DriverOffline

Buffer      == 180  \* DRIVER_BUFFER_SEC
MatchBuffer == 60   \* what a driver loses by a cancellation before arrival
MinPickup   == 30

ASSUME DispatchAssumption ==
    /\ Trips \in Nat /\ Window \in Nat /\ RequestTimes \subseteq 0 .. Window
    /\ Sessions \subseteq Nat \ {0} /\ Onlines \subseteq Int
    /\ Shifts \cup Extensions \subseteq Nat \ {0}
    /\ \A s \in Sessions : Fleet[s].rating \in Nat /\ Fleet[s].type \in Types
    /\ MinRating \in [Types -> Nat]
    /\ MatchingDelays \cup Durations \subseteq Nat \ {0}
    /\ Waits \cup PaymentLags \cup Etas \subseteq Nat /\ ArrivalDelays \subseteq Int
    /\ CancelDelays \in [{"REQUESTED", "MATCHED", "DRIVER_ARRIVED", "STARTED"} -> SUBSET Nat]

\* No multiplier is below one (SurgeInGrid of Generator).
ASSUME QuotesAssumption ==
    Quotes \subseteq [distance : Nat, surge : Nat \ 0 .. 9, isAirport : BOOLEAN, toll : Nat,
                      tip : Nat, discount : Nat]

VARIABLES
    shift,      \* shift[s]: the session's online and offline times
    pass,       \* of generate(): "build", "surge", "lifecycle", "done"
    trip,       \* trips simulated or being simulated
    stage,      \* where simulate() is with trip, "idle" between two trips
    requested,  \* requested_at of trip
    now,        \* the time of the last event of its chain
    type,       \* its vehicle type
    driver,     \* the session that was matched, or NoSession
    eta,        \* drawn at the match, used until the arrival
    chain,      \* its events so far
    bill,       \* its fare and payment, or NoBill
    busyUntil,  \* busy_until of each session, 0 for None: no request is earlier
    served,     \* trips_completed of each session
    tally,      \* trips_completed, trips_cancelled, trips_expired
    reported,   \* trips_completed_in_session of the DriverOffline events
    leases      \* auxiliary: who was engaged from when to when, for which trip

plan  == <<requested, type, trip>>
fleet == <<shift, pass>>
book  == <<busyUntil, leases>>
vars  == <<shift, pass, trip, stage, requested, now, type, driver, eta, chain, bill,
           busyUntil, served, tally, reported, leases>>

NoBill == [charged |-> 0]

--------------------------------------------------------------------------------
(* Marketplace *)

(***************************************************************************)
(* A shift that would be over before the window opens is extended into it; *)
(* one that outlives the window stays open, as may any other.              *)
(***************************************************************************)
OfflineAt(online, length) ==
    LET ends == IF online + length <= 0 THEN Extensions ELSE {online + length}
    IN  {Open} \cup {IF e > Window THEN Open ELSE e : e \in ends}

Shift == UNION { [online : {o}, offline : OfflineAt(o, l)] : o \in Onlines, l \in Shifts }

\* Marketplace.build: sessions are kept in the order they come online.
Build ==
    /\ pass = "build"
    /\ shift' \in [Sessions -> Shift]
    /\ \A s, r \in Sessions : s < r => shift'[s].online <= shift'[r].online
    /\ pass' = "surge"
    /\ UNCHANGED <<plan, stage, now, driver, eta, chain, bill, book, served, tally, reported>>

Covers(s, moment) ==
    /\ shift[s].online <= moment
    /\ shift[s].offline = Open \/ moment < shift[s].offline

(* Mutant: busy_until is not consulted.                                    *)
IsAvailableOnDuty(s, moment) == Covers(s, moment)

IsAvailable(s, moment) == Covers(s, moment) /\ busyUntil[s] <= moment

IsEligible(s, t) == Fleet[s].type = t /\ Fleet[s].rating >= MinRating[t]

Candidates(t, moment) == {s \in Sessions : IsEligible(s, t) /\ IsAvailable(s, moment)}

\* find_driver returns the first in the order of the sessions, None without one.
IsFirst(s, t, moment) ==
    /\ s \in Candidates(t, moment)
    /\ \A r \in Candidates(t, moment) : s <= r

--------------------------------------------------------------------------------
(* TripSimulator *)

Event(kind, when, s) == [trip |-> trip, kind |-> kind, when |-> when, session |-> s]

\* The next event of the chain.
Emit(kind, when) ==
    /\ chain' = chain \cup {Event(kind, when, driver)}
    /\ now' = when

(***************************************************************************)
(* occupy(): the driver's time on this trip ends at `to' and a buffer      *)
(* later he can be dispatched again.                                       *)
(***************************************************************************)
Occupy(to, buffer) ==
    /\ busyUntil' = [busyUntil EXCEPT ![driver] = to + buffer]
    /\ leases' = leases \cup {[trip |-> trip, session |-> driver, from |-> requested,
                               to |-> to, until |-> to + buffer,
                               completed |-> stage' = "COMPLETED"]}

\* The next request becomes a trip, and its first event.
TakeUp(at, t) ==
    /\ trip' = trip + 1
    /\ requested' = at /\ now' = at /\ type' = t
    /\ stage' = "REQUESTED"
    /\ chain' = {[trip |-> trip + 1, kind |-> "RideRequested", when |-> at,
                  session |-> NoSession]}
    /\ UNCHANGED <<fleet, driver, eta, bill, book, served, tally, reported>>

(* Mutant: the requests are not sorted.                                    *)
RequestUnsorted(at, t) ==
    /\ pass = "lifecycle" /\ stage = "idle" /\ trip < Trips
    /\ TakeUp(at, t)

(* Mutant: one request too many.                                           *)
RequestOneMore(at, t) ==
    /\ pass = "lifecycle" /\ stage = "idle" /\ trip <= Trips
    /\ at >= requested
    /\ TakeUp(at, t)

(***************************************************************************)
(* plan() and the start of simulate().  _plan_requests sorts the requests, *)
(* so the next one is never earlier than the last.                         *)
(***************************************************************************)
Request(at, t) ==
    /\ pass = "lifecycle" /\ stage = "idle" /\ trip < Trips
    /\ at >= requested
    /\ TakeUp(at, t)

(***************************************************************************)
(* _cancel(), at any of the four stages.  What the rider is charged        *)
(* depends on the stage and on the seconds since the request.              *)
(***************************************************************************)
Cancel(delay, applicable) ==
    /\ Emit("RideCancelled", now + delay)
    /\ stage' = "ended"
    /\ bill' = [charged |-> CancellationFee(stage, applicable, now + delay - requested)]
    /\ UNCHANGED <<fleet, plan, driver, eta, served, tally, reported>>

CancelBeforeMatch(delay, applicable) ==
    /\ stage = "REQUESTED"
    /\ Cancel(delay, applicable)
    /\ UNCHANGED book

\* Nobody to drive: the platform cancels, or the request is left to expire.
NoDriver ==
    /\ stage = "REQUESTED"
    /\ Candidates(type, requested) = {}
    /\ \/ \E delay \in CancelDelays["REQUESTED"] : Cancel(delay, FALSE)
       \/ stage' = "ended" /\ UNCHANGED <<fleet, plan, now, driver, eta, chain, bill,
                                          served, tally, reported>>
    /\ UNCHANGED book

Match(delay, e) ==
    /\ stage = "REQUESTED"
    /\ stage' = "MATCHED"
    /\ \E s \in Sessions : IsFirst(s, type, requested) /\ driver' = s
    /\ eta' = e
    /\ now' = now + delay
    /\ chain' = chain \cup {Event("RideAccepted", now + delay, driver')}
    /\ UNCHANGED <<fleet, plan, bill, book, served, tally, reported>>

CancelMatched(delay, applicable) ==
    /\ stage = "MATCHED"
    /\ delay <= (IF eta < 60 THEN 60 ELSE eta)
    /\ Cancel(delay, applicable)
    /\ Occupy(now + delay, MatchBuffer)

(* Mutant: an early driver arrives the moment he accepts.                  *)
ActualPickupEarly(delay) == IF eta + delay < 0 THEN 0 ELSE eta + delay

\* The driver may be early, but not earlier than half a minute.
ActualPickup(delay) == IF eta + delay < MinPickup THEN MinPickup ELSE eta + delay

Arrive(delay) ==
    /\ stage = "MATCHED"
    /\ stage' = "DRIVER_ARRIVED"
    /\ Emit("DriverArrived", now + ActualPickup(delay))
    /\ UNCHANGED <<fleet, plan, driver, eta, bill, book, served, tally, reported>>

CancelArrived(delay, applicable) ==
    /\ stage = "DRIVER_ARRIVED"
    /\ Cancel(delay, applicable)
    /\ Occupy(now + delay, Buffer)

Start(wait) ==
    /\ stage = "DRIVER_ARRIVED"
    /\ stage' = "STARTED"
    /\ Emit("RideStarted", now + wait)
    /\ UNCHANGED <<fleet, plan, driver, eta, bill, book, served, tally, reported>>

CancelStarted(delay, applicable) ==
    /\ stage = "STARTED"
    /\ Cancel(delay, applicable)
    /\ Occupy(now + delay, Buffer)

(***************************************************************************)
(* Completion.  Distance and surge were planned with the request; they are *)
(* drawn here, where they are first used.                                  *)
(***************************************************************************)
Complete(seconds, quote) ==
    /\ stage = "STARTED"
    /\ stage' = "COMPLETED"
    /\ Emit("RideCompleted", now + seconds)
    /\ bill' = [fare |-> Fare(quote.distance, seconds, quote.surge, quote.isAirport, quote.toll),
                quote |-> quote]
    /\ served' = [served EXCEPT ![driver] = @ + 1]
    /\ Occupy(now + seconds, Buffer)
    /\ UNCHANGED <<fleet, plan, driver, eta, tally, reported>>

Pay(lag) ==
    /\ stage = "COMPLETED"
    /\ stage' = "ended"
    /\ Emit("PaymentCompleted", now + lag)
    /\ bill' = [fare |-> bill.fare,
                payment |-> Payment(bill.fare.total, bill.quote.tip, bill.quote.discount)]
    /\ UNCHANGED <<fleet, plan, driver, eta, book, served, tally, reported>>

--------------------------------------------------------------------------------
(* generate() *)

\* Pass 2 is over: what compute_surge_grid does is in Surge.
StartLifecycle ==
    /\ pass = "surge"
    /\ pass' = "lifecycle"
    /\ UNCHANGED <<shift, plan, stage, now, driver, eta, chain, bill, book, served, tally,
                   reported>>

Kinds(es) == {e.kind : e \in es}

(* Mutant: a trip without a driver is counted as expired.                  *)
OutcomeByDriver == CASE driver = NoSession -> "expired"
                     [] "RideCompleted" \in Kinds(chain) -> "completed"
                     [] OTHER -> "cancelled"

Outcome == CASE "RideCompleted" \in Kinds(chain) -> "completed"
             [] "RideCancelled" \in Kinds(chain) -> "cancelled"
             [] OTHER -> "expired"

CountTrip ==
    /\ stage = "ended"
    /\ stage' = "idle"
    /\ tally' = [tally EXCEPT ![Outcome] = @ + 1]
    /\ chain' = {} /\ bill' = NoBill /\ driver' = NoSession /\ eta' = 0 /\ now' = requested
    /\ UNCHANGED <<fleet, plan, book, served, reported>>

\* session_events() of every session.
Presence ==
    /\ pass' = "done"
    /\ reported' = [s \in {r \in Sessions : shift[r].offline # Open} |-> served[s]]
    /\ UNCHANGED <<shift, plan, stage, now, driver, eta, chain, bill, book, served, tally>>

(* Mutant: the sessions do not wait for the trips.                         *)
EmitPresenceEarly == pass = "lifecycle" /\ stage = "idle" /\ Presence

\* Presence comes last: an offline event reports the trips of the whole shift.
EmitPresence == pass = "lifecycle" /\ stage = "idle" /\ trip = Trips /\ Presence

Init ==
    /\ shift = [s \in Sessions |-> [online |-> 0, offline |-> Open]] /\ pass = "build"
    /\ trip = 0 /\ stage = "idle" /\ requested = 0 /\ now = 0
    /\ type \in Types /\ driver = NoSession /\ eta = 0
    /\ chain = {} /\ bill = NoBill
    /\ busyUntil = [s \in Sessions |-> 0] /\ served = [s \in Sessions |-> 0]
    /\ tally = [o \in {"completed", "cancelled", "expired"} |-> 0]
    /\ reported = [s \in {} |-> 0] /\ leases = {}

Next ==
    \/ Build
    \/ StartLifecycle
    \/ \E at \in RequestTimes, t \in Types : Request(at, t)
    \/ \E delay \in CancelDelays["REQUESTED"], fee \in BOOLEAN : CancelBeforeMatch(delay, fee)
    \/ NoDriver
    \/ \E delay \in MatchingDelays, e \in Etas : Match(delay, e)
    \/ \E delay \in CancelDelays["MATCHED"], fee \in BOOLEAN : CancelMatched(delay, fee)
    \/ \E delay \in ArrivalDelays : Arrive(delay)
    \/ \E delay \in CancelDelays["DRIVER_ARRIVED"], fee \in BOOLEAN : CancelArrived(delay, fee)
    \/ \E wait \in Waits : Start(wait)
    \/ \E delay \in CancelDelays["STARTED"], fee \in BOOLEAN : CancelStarted(delay, fee)
    \/ \E seconds \in Durations, quote \in Quotes : Complete(seconds, quote)
    \/ \E lag \in PaymentLags : Pay(lag)
    \/ CountTrip
    \/ EmitPresence

Spec == Init /\ [][Next]_vars

--------------------------------------------------------------------------------
TypeOK ==
    /\ shift \in [Sessions -> [online : Int, offline : Int]]
    /\ pass \in {"build", "surge", "lifecycle", "done"}
    /\ trip \in 0 .. Trips /\ requested \in 0 .. Window /\ now \in Nat
    /\ stage \in {"idle", "REQUESTED", "MATCHED", "DRIVER_ARRIVED", "STARTED",
                  "COMPLETED", "ended"}
    /\ type \in Types /\ driver \in Sessions \cup {NoSession} /\ eta \in Nat
    /\ busyUntil \in [Sessions -> Nat] /\ served \in [Sessions -> Nat]
    /\ leases \subseteq [trip : 1 .. Trips, session : Sessions, from : Nat, to : Nat,
                         until : Nat, completed : BOOLEAN]

(***************************************************************************)
(* No driver holds two trips at a time: from the request that finds him    *)
(* (find_driver, marketplace.py:347) until the trip's last driver event,   *)
(* his session is on that trip only, although busy_until is written once   *)
(* at the end of each of four ways through simulate().                     *)
(***************************************************************************)
NoDoubleBooking ==
    \A k, l \in leases :
        k.session = l.session /\ k.trip # l.trip => k.to <= l.from \/ l.to <= k.from

(***************************************************************************)
(* A request is left without a driver only when each eligible driver on    *)
(* duty is engaged at that moment: busy_until, which is one time and not   *)
(* an interval, answers for the moment of the request because requests are *)
(* taken in order (generator.py:180, "or None - which becomes an expired   *)
(* request", marketplace.py:350).                                          *)
(***************************************************************************)
RefusedOnlyWhenBusy ==
    stage = "REQUESTED" /\ Candidates(type, requested) = {} =>
        \A s \in Sessions :
            IsEligible(s, type) /\ Covers(s, requested) =>
                \E l \in leases :
                    l.session = s /\ l.from <= requested /\ requested < l.until

--------------------------------------------------------------------------------
(* What the warehouse makes of a chain once all of it has landed. *)

Horizon == 600      \* int_trips_assembled.sql: interval 10 minute
Assembly == INSTANCE TripAssembly WITH ExpiryHorizon <- Horizon

Landed == {[trip |-> e.trip, kind |-> e.kind, when |-> e.when,
            driver |-> e.session # NoSession] : e \in chain}

\* The events of a trip in causal order; two that may carry the same time.
Causal == <<"RideRequested", "RideAccepted", "DriverArrived", "RideStarted",
            "RideCompleted", "PaymentCompleted">>

(***************************************************************************)
(* "Every chain produced here satisfies the sequence rules S1-S8 and the   *)
(* temporal invariants T1-T2 from docs/event_contract.md by construction"  *)
(* (lifecycle.py:3), at every length: a consumer sees prefixes.            *)
(***************************************************************************)
ChainIsLawful ==
    chain # {} =>
        /\ ~ Assembly!IsQuarantined(Landed)
        /\ \A a, b \in chain, i, j \in DOMAIN Causal :
              a.kind = Causal[i] /\ b.kind = Causal[j] /\ i < j =>
                  a.when < b.when \/ (j \in {4, 6} /\ a.when = b.when)
        /\ \A a, b \in chain :
              /\ b.kind = "RideCancelled" => a.when <= b.when
              /\ {a.kind, b.kind} \cap {"RideRequested"} = {} => a.session = b.session
        /\ \A c \in chain : c.kind = "RideCancelled" =>
              (c.session # NoSession <=> "RideAccepted" \in Kinds(chain))

(***************************************************************************)
(* What the run summary counts (generator.py:127) is what the warehouse    *)
(* will infer of the landed chain, expiry included, which no event states: *)
(* the two derive it by different rules.                                   *)
(***************************************************************************)
OutcomeIsInferred ==
    stage = "ended" =>
        LET later == [trip |-> 0, kind |-> "RideRequested", when |-> now + Horizon + 1,
                      driver |-> FALSE]
        IN  /\ Outcome = "expired" <=> Assembly!IsExpired(Landed, Landed \cup {later})
            /\ Outcome = "completed" <=> Assembly!FunnelStage(Landed) = 6
            /\ Outcome = "cancelled" <=> Assembly!IsCancelled(Landed)

(***************************************************************************)
(* Every fare passes check_invariants, which would abort the run (F1, F2,  *)
(* F4, F5), adds up and splits without drift, and every payment charges a  *)
(* positive amount (F3), whatever tip and discount are drawn.              *)
(***************************************************************************)
FareReconciles ==
    /\ "fare" \in DOMAIN bill =>
          /\ CheckInvariants(bill.fare)
          /\ bill.fare.total = bill.fare.payout + bill.fare.commission + bill.fare.tax
    /\ "payment" \in DOMAIN bill =>
          /\ bill.payment.charged > 0
          /\ bill.payment.discount <= bill.fare.total

(***************************************************************************)
(* The totals of a finished run agree with what happened: every request    *)
(* has one outcome, and a DriverOffline reports the trips of the whole     *)
(* shift, those still running when the driver went offline included.       *)
(***************************************************************************)
RunBalances ==
    pass = "done" =>
        /\ tally["completed"] + tally["cancelled"] + tally["expired"] = Trips
        /\ tally["completed"] = Cardinality({l \in leases : l.completed})
        /\ \A s \in DOMAIN reported :
              reported[s] = Cardinality({l \in leases : l.session = s /\ l.completed})
================================================================================
