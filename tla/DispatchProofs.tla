----------------------------- MODULE DispatchProofs -----------------------------
(***************************************************************************)
(* The dispatch of drivers, proved for any number of trips and sessions    *)
(* and for any times the generator may draw: types, no double booking, no  *)
(* request refused while somebody is free, and the chain of events a trip  *)
(* leaves.                                                                 *)
(*                                                                         *)
(* The argument.  A session keeps one time, busy_until, and not the list   *)
(* of its engagements (leases).  It is enough because requests are taken   *)
(* in order: every engagement began at a request no later than the current *)
(* one and ends by busy_until, and busy_until is the end of one of them.   *)
(* So a session that is free at the request has no engagement after it,    *)
(* and one that is not is engaged at this moment.                          *)
(*                                                                         *)
(* A chain holds exactly the kinds its stage has emitted, none after the   *)
(* trip's clock (ChainInv), and every event is put at the clock or after   *)
(* it; so what is emitted last comes last, and the kinds decide what the   *)
(* warehouse makes of the trip.                                            *)
(***************************************************************************)
EXTENDS Generator, TLAPS

USE DispatchAssumption DEF DispatchAssumption

Driving == {"MATCHED", "DRIVER_ARRIVED", "STARTED"}

\* A trip is simulated, in order, and its driver was free when it was requested.
TripSound ==
    /\ stage # "idle" => trip >= 1
    /\ requested <= now
    /\ stage \in Driving => driver \in Sessions /\ busyUntil[driver] <= requested

\* Each engagement lies before busy_until, and in the past of the requests.
LeasesInOrder ==
    \A l \in leases : /\ l.from <= l.to /\ l.to <= l.until
                      /\ l.until <= busyUntil[l.session] /\ l.from <= requested

\* busy_until is the end of an engagement.
BusyIsLeased ==
    \A s \in Sessions : busyUntil[s] > 0 =>
        \E l \in leases : l.session = s /\ l.until = busyUntil[s]

BookSound == LeasesInOrder /\ BusyIsLeased /\ NoDoubleBooking

DispatchInv == TypeOK /\ TripSound /\ BookSound

--------------------------------------------------------------------------------
LEMMA CancelDelaysAreNat ==
    ASSUME NEW s \in {"REQUESTED", "MATCHED", "DRIVER_ARRIVED", "STARTED"},
           NEW delay \in CancelDelays[s]
    PROVE  delay \in Nat
OBVIOUS

(***************************************************************************)
(* What occupy() does to the book, at any of its four calls.               *)
(***************************************************************************)
LEMMA OccupyKeepsBook ==
    ASSUME DispatchInv, stage \in Driving, NEW to \in Nat, NEW buffer \in Nat,
           now <= to, Occupy(to, buffer), requested' = requested
    PROVE  /\ BookSound'
           /\ busyUntil' \in [Sessions -> Nat]
           /\ leases' \subseteq [trip : 1 .. Trips, session : Sessions, from : Nat, to : Nat,
                                 until : Nat, completed : BOOLEAN]
<1> DEFINE new == [trip |-> trip, session |-> driver, from |-> requested, to |-> to,
                   until |-> to + buffer, completed |-> stage' = "COMPLETED"]
<1>1. /\ driver \in Sessions /\ busyUntil[driver] \in Nat /\ busyUntil[driver] <= requested
      /\ requested \in Nat /\ requested <= to /\ trip \in 1 .. Trips
  BY DEF DispatchInv, TypeOK, TripSound, Driving
<1>2. /\ leases' = leases \cup {new}
      /\ busyUntil' = [busyUntil EXCEPT ![driver] = to + buffer]
  BY DEF Occupy
<1>3. busyUntil' \in [Sessions -> Nat]
  BY <1>1, <1>2 DEF DispatchInv, TypeOK
<1>4. new \in [trip : 1 .. Trips, session : Sessions, from : Nat, to : Nat,
               until : Nat, completed : BOOLEAN]
  BY <1>1
<1>5. /\ new.from = requested /\ new.to = to /\ new.until = to + buffer
      /\ new.session = driver
  OBVIOUS
<1> HIDE DEF new
<1>6. ASSUME NEW l \in leases
      PROVE  /\ l.session \in Sessions /\ l.from \in Nat /\ l.to \in Nat /\ l.until \in Nat
             /\ l.from <= l.to /\ l.to <= l.until /\ l.until <= busyUntil[l.session]
             /\ l.from <= requested
  BY DEF DispatchInv, TypeOK, BookSound, LeasesInOrder
<1>7. LeasesInOrder'
  <2> SUFFICES ASSUME NEW l \in leases'
               PROVE  /\ l.from <= l.to /\ l.to <= l.until
                      /\ l.until <= busyUntil'[l.session] /\ l.from <= requested'
    BY DEF LeasesInOrder
  <2>1. CASE l = new
    BY <1>1, <1>2, <1>5, <2>1 DEF DispatchInv, TypeOK
  <2>2. CASE l \in leases /\ l.session = driver
    BY <1>1, <1>2, <1>6, <2>2 DEF DispatchInv, TypeOK
  <2>3. CASE l \in leases /\ l.session # driver
    BY <1>2, <1>6, <2>3 DEF DispatchInv, TypeOK
  <2> QED BY <1>2, <2>1, <2>2, <2>3
<1>8. BusyIsLeased'
  <2> SUFFICES ASSUME NEW s \in Sessions, busyUntil'[s] > 0
               PROVE  \E l \in leases' : l.session = s /\ l.until = busyUntil'[s]
    BY DEF BusyIsLeased
  <2>1. CASE s = driver
    BY <1>1, <1>2, <1>5, <2>1 DEF DispatchInv, TypeOK
  <2>2. CASE s # driver
    <3>1. busyUntil'[s] = busyUntil[s]
      BY <1>2, <2>2 DEF DispatchInv, TypeOK
    <3> QED BY <1>2, <3>1 DEF DispatchInv, BookSound, BusyIsLeased
  <2> QED BY <2>1, <2>2
<1>9. ASSUME NEW l \in leases, l.session = driver PROVE l.to <= new.from
  BY <1>1, <1>5, <1>6, <1>9
<1>10. NoDoubleBooking'
  BY <1>2, <1>5, <1>9 DEF DispatchInv, BookSound, NoDoubleBooking
<1> QED BY <1>2, <1>3, <1>4, <1>7, <1>8, <1>10 DEF BookSound, DispatchInv, TypeOK

(***************************************************************************)
(* The book of a step that leaves it alone and goes on, if at all, to a    *)
(* later request.                                                          *)
(***************************************************************************)
LEMMA BookUnchanged ==
    ASSUME DispatchInv, UNCHANGED book, requested' \in Nat, requested <= requested'
    PROVE  BookSound'
<1>1. LeasesInOrder'
  BY DEF book, DispatchInv, TypeOK, BookSound, LeasesInOrder
<1>2. BusyIsLeased'
  BY DEF book, DispatchInv, BookSound, BusyIsLeased
<1>3. NoDoubleBooking'
  BY DEF book, DispatchInv, BookSound, NoDoubleBooking
<1> QED BY <1>1, <1>2, <1>3 DEF BookSound

--------------------------------------------------------------------------------
LEMMA DispatchInit == Init => DispatchInv
<1> SUFFICES ASSUME Init PROVE DispatchInv
  OBVIOUS
<1>1. TypeOK
  BY DEF Init, TypeOK, NoSession, Open
<1>2. TripSound /\ BookSound
  BY DEF Init, TripSound, Driving, BookSound, LeasesInOrder, BusyIsLeased, NoDoubleBooking
<1> QED BY <1>1, <1>2 DEF DispatchInv

LEMMA BuildStep == DispatchInv /\ Build => DispatchInv'
<1> SUFFICES ASSUME DispatchInv, Build PROVE DispatchInv'
  OBVIOUS
<1>1. Shift \subseteq [online : Int, offline : Int]
  <2> DEFINE Boxes == { [online : {o}, offline : OfflineAt(o, l)] : o \in Onlines, l \in Shifts }
  <2>1. ASSUME NEW o \in Onlines, NEW l \in Shifts PROVE OfflineAt(o, l) \subseteq Int
    <3>1. o + l \in Int /\ Extensions \subseteq Int
      OBVIOUS
    <3> QED BY <3>1 DEF OfflineAt, Open
  <2>2. ASSUME NEW x \in Shift PROVE x \in [online : Int, offline : Int]
    <3>1. PICK box \in Boxes : x \in box
      <4>1. Shift = UNION Boxes
        BY DEF Shift, Boxes
      <4> HIDE DEF Boxes
      <4> QED BY <4>1
    <3>2. PICK o \in Onlines, l \in Shifts : box = [online : {o}, offline : OfflineAt(o, l)]
      BY <3>1
    <3> QED BY <2>1, <3>1, <3>2
  <2> QED BY <2>2
<1>2. TypeOK'
  BY <1>1 DEF Build, DispatchInv, TypeOK, plan, book
<1>3. TripSound'
  BY DEF Build, DispatchInv, TripSound, plan, book
<1>4. BookSound'
  BY BookUnchanged DEF Build, DispatchInv, TypeOK, plan
<1> QED BY <1>2, <1>3, <1>4 DEF DispatchInv

(***************************************************************************)
(* The steps of a trip that engage nobody.                                 *)
(***************************************************************************)
LEMMA TakeUpStep ==
    ASSUME DispatchInv, NEW at \in RequestTimes, NEW t \in Types, Request(at, t)
    PROVE  DispatchInv'
<1>a. /\ UNCHANGED <<shift, pass, driver, eta, busyUntil, leases, served>>
      /\ trip' = trip + 1 /\ requested' = at /\ now' = at /\ type' = t /\ stage' = "REQUESTED"
  BY DEF Request, TakeUp, fleet, book
<1>b. at \in 0 .. Window
  OBVIOUS
<1>c. trip + 1 \in 0 .. Trips
  <2>1. trip \in 0 .. Trips /\ trip < Trips
    BY DEF Request, DispatchInv, TypeOK
  <2> QED BY <2>1
<1>1. /\ at \in 0 .. Window /\ trip + 1 \in 0 .. Trips
      /\ UNCHANGED <<shift, pass, driver, eta, busyUntil, leases, served>>
      /\ trip' = trip + 1 /\ requested' = at /\ now' = at /\ type' = t /\ stage' = "REQUESTED"
  BY <1>a, <1>b, <1>c
<1>2. TypeOK'
  BY <1>1 DEF DispatchInv, TypeOK
<1>3. TripSound'
  BY <1>1 DEF DispatchInv, TypeOK, TripSound, Driving
<1>4. BookSound'
  BY <1>1, BookUnchanged DEF Request, DispatchInv, TypeOK, book
<1> QED BY <1>2, <1>3, <1>4 DEF DispatchInv

LEMMA MatchStep ==
    ASSUME DispatchInv, NEW delay \in MatchingDelays, NEW e \in Etas, Match(delay, e)
    PROVE  DispatchInv'
<1>1. driver' \in Sessions /\ busyUntil[driver'] <= requested
  BY DEF Match, IsFirst, Candidates, IsAvailable
<1>2. TypeOK'
  BY <1>1 DEF Match, DispatchInv, TypeOK, fleet, plan, book
<1>3. TripSound'
  BY <1>1 DEF Match, DispatchInv, TypeOK, TripSound, Driving, plan, book
<1>4. BookSound'
  BY BookUnchanged DEF Match, DispatchInv, TypeOK, plan
<1> QED BY <1>2, <1>3, <1>4 DEF DispatchInv

LEMMA WaitStep ==
    ASSUME DispatchInv,
           \/ \E delay \in ArrivalDelays : Arrive(delay)
           \/ \E wait \in Waits : Start(wait)
           \/ \E lag \in PaymentLags : Pay(lag)
    PROVE  DispatchInv'
<1>1. now' \in Nat /\ now <= now'
  <2>1. ASSUME NEW delay \in ArrivalDelays, Arrive(delay) PROVE now' \in Nat /\ now <= now'
    BY <2>1 DEF Arrive, Emit, ActualPickup, MinPickup, DispatchInv, TypeOK
  <2>2. ASSUME NEW wait \in Waits, Start(wait) PROVE now' \in Nat /\ now <= now'
    BY <2>2 DEF Start, Emit, DispatchInv, TypeOK
  <2>3. ASSUME NEW lag \in PaymentLags, Pay(lag) PROVE now' \in Nat /\ now <= now'
    BY <2>3 DEF Pay, Emit, DispatchInv, TypeOK
  <2> QED BY <2>1, <2>2, <2>3
<1>2. /\ stage' \in {"DRIVER_ARRIVED", "STARTED", "ended"}
      /\ stage \in {"MATCHED", "DRIVER_ARRIVED", "COMPLETED"}
      /\ stage' \in Driving => stage \in Driving
      /\ UNCHANGED <<fleet, plan, driver, eta, book, served>>
  BY DEF Arrive, Start, Pay, Driving
<1>3. TypeOK'
  BY <1>1, <1>2 DEF DispatchInv, TypeOK, fleet, plan, book
<1>4. TripSound'
  BY <1>1, <1>2 DEF DispatchInv, TypeOK, TripSound, plan, book
<1>5. BookSound'
  BY <1>2, BookUnchanged DEF DispatchInv, TypeOK, plan
<1> QED BY <1>3, <1>4, <1>5 DEF DispatchInv

\* The trip ends, or is counted, with nobody engaged.
LEMMA EndStep ==
    ASSUME DispatchInv,
           \/ \E delay \in CancelDelays["REQUESTED"], fee \in BOOLEAN : CancelBeforeMatch(delay, fee)
           \/ NoDriver
           \/ CountTrip
    PROVE  DispatchInv'
<1>1. now' \in Nat /\ requested <= now'
  <2>1. ASSUME NEW delay \in CancelDelays["REQUESTED"], NEW fee \in BOOLEAN, Cancel(delay, fee)
        PROVE  now' \in Nat /\ requested <= now'
    <3>1. delay \in Nat
      BY CancelDelaysAreNat
    <3> QED BY <2>1, <3>1 DEF Cancel, Emit, DispatchInv, TypeOK, TripSound
  <2>2. CASE UNCHANGED now
    BY <2>2 DEF DispatchInv, TypeOK, TripSound
  <2>3. CASE CountTrip
    BY <2>3 DEF CountTrip, DispatchInv, TypeOK
  <2> QED BY <2>1, <2>2, <2>3 DEF CancelBeforeMatch, NoDriver
<1>2. /\ stage # "idle" /\ stage' \in {"ended", "idle"}
      /\ driver' \in {driver, NoSession} /\ eta' \in {eta, 0}
      /\ UNCHANGED <<fleet, plan, book, served>>
  BY DEF CancelBeforeMatch, Cancel, NoDriver, CountTrip
<1>3. TypeOK'
  BY <1>1, <1>2 DEF DispatchInv, TypeOK, fleet, plan, book
<1>4. TripSound'
  BY <1>1, <1>2 DEF DispatchInv, TypeOK, TripSound, Driving, plan
<1>5. BookSound'
  BY <1>2, BookUnchanged DEF DispatchInv, TypeOK, plan
<1> QED BY <1>3, <1>4, <1>5 DEF DispatchInv

(***************************************************************************)
(* The four steps that engage the driver.                                  *)
(***************************************************************************)
LEMMA OccupyStep ==
    ASSUME DispatchInv, stage \in Driving, NEW seconds \in Nat, NEW buffer \in Nat,
           Occupy(now + seconds, buffer), now' = now + seconds,
           stage' \in {"COMPLETED", "ended"}, served' \in [Sessions -> Nat],
           UNCHANGED <<fleet, plan, driver, eta>>
    PROVE  DispatchInv'
<1>1. now + seconds \in Nat /\ now <= now + seconds /\ requested' = requested
  BY DEF DispatchInv, TypeOK, plan
<1>2. /\ BookSound' /\ busyUntil' \in [Sessions -> Nat]
      /\ leases' \subseteq [trip : 1 .. Trips, session : Sessions, from : Nat, to : Nat,
                            until : Nat, completed : BOOLEAN]
  BY <1>1, OccupyKeepsBook
<1>3. TypeOK'
  BY <1>1, <1>2 DEF DispatchInv, TypeOK, fleet, plan
<1>4. TripSound'
  BY <1>1 DEF DispatchInv, TypeOK, TripSound, Driving, plan
<1> QED BY <1>2, <1>3, <1>4 DEF DispatchInv

LEMMA EngagedStep ==
    ASSUME DispatchInv,
           \/ \E delay \in CancelDelays["MATCHED"], fee \in BOOLEAN : CancelMatched(delay, fee)
           \/ \E delay \in CancelDelays["DRIVER_ARRIVED"], fee \in BOOLEAN : CancelArrived(delay, fee)
           \/ \E delay \in CancelDelays["STARTED"], fee \in BOOLEAN : CancelStarted(delay, fee)
           \/ \E seconds \in Durations, quote \in Quotes : Complete(seconds, quote)
    PROVE  DispatchInv'
<1>1. ASSUME NEW s \in Driving, NEW delay \in CancelDelays[s], NEW fee \in BOOLEAN,
             NEW buffer \in Nat, stage = s, Cancel(delay, fee), Occupy(now + delay, buffer)
      PROVE  DispatchInv'
  <2>1. delay \in Nat
    BY CancelDelaysAreNat DEF Driving
  <2>2. /\ now' = now + delay /\ stage' = "ended" /\ served' = served
        /\ UNCHANGED <<fleet, plan, driver, eta>>
    BY <1>1 DEF Cancel, Emit
  <2> QED BY <1>1, <2>1, <2>2, OccupyStep DEF DispatchInv, TypeOK
<1>2. ASSUME NEW seconds \in Durations, NEW quote \in Quotes, Complete(seconds, quote)
      PROVE  DispatchInv'
  <2>1. seconds \in Nat /\ stage \in Driving /\ driver \in Sessions
    BY <1>2 DEF Complete, Driving, DispatchInv, TripSound
  <2>2. served' \in [Sessions -> Nat]
    BY <1>2, <2>1 DEF Complete, DispatchInv, TypeOK
  <2>3. /\ now' = now + seconds /\ stage' = "COMPLETED" /\ Occupy(now + seconds, Buffer)
        /\ UNCHANGED <<fleet, plan, driver, eta>> /\ Buffer \in Nat
    BY <1>2 DEF Complete, Emit, Buffer
  <2> QED BY <2>1, <2>2, <2>3, OccupyStep
<1>3. ASSUME NEW delay \in CancelDelays["MATCHED"], NEW fee \in BOOLEAN, CancelMatched(delay, fee)
      PROVE  DispatchInv'
  BY <1>1, <1>3 DEF CancelMatched, MatchBuffer, Driving
<1>4. ASSUME NEW delay \in CancelDelays["DRIVER_ARRIVED"], NEW fee \in BOOLEAN,
             CancelArrived(delay, fee)
      PROVE  DispatchInv'
  BY <1>1, <1>4 DEF CancelArrived, Buffer, Driving
<1>5. ASSUME NEW delay \in CancelDelays["STARTED"], NEW fee \in BOOLEAN, CancelStarted(delay, fee)
      PROVE  DispatchInv'
  BY <1>1, <1>5 DEF CancelStarted, Buffer, Driving
<1> QED BY <1>2, <1>3, <1>4, <1>5

\* The passes of generate(), and a step of the surge walk.
LEMMA PassStep ==
    ASSUME DispatchInv, StartLifecycle \/ EmitPresence \/ UNCHANGED vars
    PROVE  DispatchInv'
<1>1. /\ pass' \in {"build", "surge", "lifecycle", "done"}
      /\ UNCHANGED <<shift, plan, stage, now, driver, eta, book, served>>
  BY DEF StartLifecycle, EmitPresence, Presence, vars, plan, book, DispatchInv, TypeOK
<1>2. TypeOK'
  BY <1>1 DEF DispatchInv, TypeOK, plan, book
<1>3. TripSound'
  BY <1>1 DEF DispatchInv, TripSound, plan, book
<1>4. BookSound'
  BY <1>1, BookUnchanged DEF DispatchInv, TypeOK, plan
<1> QED BY <1>2, <1>3, <1>4 DEF DispatchInv

LEMMA DispatchStep == DispatchInv /\ [Next]_vars => DispatchInv'
BY BuildStep, TakeUpStep, MatchStep, WaitStep, EndStep, EngagedStep, PassStep DEF Next

--------------------------------------------------------------------------------
(***************************************************************************)
(* The surge grid touches none of this: generate() is a dispatch with      *)
(* stuttering while the grid is computed.                                  *)
(***************************************************************************)
THEOREM GeneratorDispatches == GeneratorSpec => Spec
<1>1. GeneratorInit => Init
  BY DEF GeneratorInit
<1>2. [GeneratorNext]_generatorVars => [Next]_vars
  BY DEF GeneratorNext, generatorVars, SurgePass, SurgeDone, Next
<1> QED BY <1>1, <1>2, PTL DEF GeneratorSpec, Spec

LEMMA DispatchInvHolds == Spec => []DispatchInv
BY DispatchInit, DispatchStep, PTL DEF Spec

(***************************************************************************)
(* The variables keep their types whatever is drawn: in particular every   *)
(* engagement is one of a trip and of a session that exist.                *)
(***************************************************************************)
THEOREM TypeCorrect == GeneratorSpec => []TypeOK
<1>1. DispatchInv => TypeOK
  BY DEF DispatchInv
<1> QED BY <1>1, GeneratorDispatches, DispatchInvHolds, PTL

(***************************************************************************)
(* No driver is on two trips at a time, for any fleet and any requests.    *)
(***************************************************************************)
THEOREM NeverDoubleBooked == GeneratorSpec => []NoDoubleBooking
<1>1. DispatchInv => NoDoubleBooking
  BY DEF DispatchInv, BookSound
<1> QED BY <1>1, GeneratorDispatches, DispatchInvHolds, PTL

(***************************************************************************)
(* Nobody is refused while an eligible driver on duty is free.             *)
(***************************************************************************)
THEOREM NeverRefusedIdly == GeneratorSpec => []RefusedOnlyWhenBusy
<1>1. DispatchInv => RefusedOnlyWhenBusy
  <2> SUFFICES ASSUME DispatchInv, Candidates(type, requested) = {},
                      NEW s \in Sessions, IsEligible(s, type), Covers(s, requested)
               PROVE  \E l \in leases :
                          l.session = s /\ l.from <= requested /\ requested < l.until
    BY DEF RefusedOnlyWhenBusy
  <2>1. requested \in Nat /\ busyUntil[s] \in Nat
    BY DEF DispatchInv, TypeOK
  <2>2. requested < busyUntil[s]
    BY <2>1 DEF Candidates, IsAvailable
  <2>3. PICK l \in leases : l.session = s /\ l.until = busyUntil[s]
    BY <2>1, <2>2 DEF DispatchInv, BookSound, BusyIsLeased
  <2>4. l.from <= requested
    BY DEF DispatchInv, BookSound, LeasesInOrder
  <2> QED BY <2>2, <2>3, <2>4
<1> QED BY <1>1, GeneratorDispatches, DispatchInvHolds, PTL

--------------------------------------------------------------------------------
(***************************************************************************)
(* The chain of the trip in hand, as far as the stage says: nothing else   *)
(* in it, in causal order, and all of it by now.                           *)
(***************************************************************************)
Requested == {"RideRequested"}
Accepted  == Requested \cup {"RideAccepted"}
Arrived   == Accepted \cup {"DriverArrived"}
Started   == Arrived \cup {"RideStarted"}
Completed == Started \cup {"RideCompleted"}
Settled   == Completed \cup {"PaymentCompleted"}

\* What simulate() has emitted when it is at a stage.
EmittedBy(s) ==
    CASE s = "idle"           -> {{}}
      [] s = "REQUESTED"      -> {Requested}
      [] s = "MATCHED"        -> {Accepted}
      [] s = "DRIVER_ARRIVED" -> {Arrived}
      [] s = "STARTED"        -> {Started}
      [] s = "COMPLETED"      -> {Completed}
      [] s = "ended"          -> {Requested, Settled}
                                   \cup { k \cup {"RideCancelled"} :
                                            k \in {Requested, Accepted, Arrived, Started} }

Ordered ==
    \A a, b \in chain, i, j \in DOMAIN Causal :
        a.kind = Causal[i] /\ b.kind = Causal[j] /\ i < j =>
            a.when < b.when \/ (j \in {4, 6} /\ a.when = b.when)

ChainInv ==
    /\ Kinds(chain) \in EmittedBy(stage)
    /\ driver # NoSession <=> "RideAccepted" \in Kinds(chain)
    /\ \A e \in chain : /\ e.when \in Nat /\ e.when <= now
                        /\ e.session = IF e.kind = "RideRequested" THEN NoSession ELSE driver
    /\ \A c \in chain : c.kind = "RideCancelled" => c.when = now
    /\ Ordered

LEMMA CausalOrder ==
    /\ DOMAIN Causal = 1 .. 6
    /\ \A i, j \in 1 .. 6 : Causal[i] = Causal[j] => i = j
    /\ \A i \in 1 .. 6 : Causal[i] # "RideCancelled"
BY DEF Causal

\* The next event of the chain comes after all of it.
LEMMA EmitOrdered ==
    ASSUME ChainInv, TypeOK, NEW n \in 2 .. 6, NEW when \in Nat, NEW s,
           \A e \in chain : \E i \in 1 .. n - 1 : e.kind = Causal[i],
           now < when \/ (n \in {4, 6} /\ now = when),
           chain' = chain \cup {Event(Causal[n], when, s)}
    PROVE  Ordered'
<1> DEFINE new == Event(Causal[n], when, s)
<1>1. new.kind = Causal[n] /\ new.when = when
  BY DEF Event
<1>2. chain' = chain \cup {new}
  OBVIOUS
<1> HIDE DEF new
<1> SUFFICES ASSUME NEW a \in chain', NEW b \in chain', NEW i \in 1 .. 6, NEW j \in 1 .. 6,
                    a.kind = Causal[i], b.kind = Causal[j], i < j
             PROVE  a.when < b.when \/ (j \in {4, 6} /\ a.when = b.when)
  BY CausalOrder DEF Ordered
<1>3. now \in Nat /\ \A e \in chain : e.when \in Nat /\ e.when <= now
  BY DEF ChainInv, TypeOK
<1>4. CASE a \in chain /\ b \in chain
  BY <1>4, CausalOrder DEF ChainInv, Ordered
<1>5. CASE a = new
  <2>1. i = n
    BY <1>1, <1>5, CausalOrder
  <2>2. b \notin chain
    <3> SUFFICES ASSUME b \in chain PROVE FALSE
      OBVIOUS
    <3>1. PICK k \in 1 .. n - 1 : b.kind = Causal[k]
      OBVIOUS
    <3>2. k \in 1 .. 6 /\ k < n
      OBVIOUS
    <3>3. k = j
      BY <3>1, <3>2, CausalOrder
    <3> QED BY <2>1, <3>2, <3>3
  <2>3. b = new
    BY <1>2, <2>2
  <2> QED BY <1>1, <2>1, <2>3, CausalOrder
<1>6. CASE a \in chain /\ b = new
  <2>1. j = n
    BY <1>1, <1>6, CausalOrder
  <2> QED BY <1>1, <1>3, <1>6, <2>1
<1> QED BY <1>2, <1>4, <1>5, <1>6

\* What every event of the chain but its first says.
LEMMA EmitKeeps ==
    ASSUME ChainInv, TypeOK, NEW kind, kind # "RideRequested", NEW when \in Nat, now <= when,
           Emit(kind, when), driver' = driver, driver # NoSession \/ kind = "RideCancelled",
           kind # "RideAccepted", "RideCancelled" \notin Kinds(chain)
    PROVE  /\ Kinds(chain)' = Kinds(chain) \cup {kind}
           /\ (driver # NoSession <=> "RideAccepted" \in Kinds(chain))'
           /\ \A e \in chain' :
                 /\ e.when \in Nat /\ e.when <= now'
                 /\ e.session = IF e.kind = "RideRequested" THEN NoSession ELSE driver'
           /\ \A c \in chain' : c.kind = "RideCancelled" => c.when = now'
<1> DEFINE new == Event(kind, when, driver)
<1>1. new.kind = kind /\ new.when = when /\ new.session = driver
  BY DEF Event
<1>2. chain' = chain \cup {new} /\ now' = when
  BY DEF Emit
<1> HIDE DEF new
<1>3. Kinds(chain)' = Kinds(chain) \cup {kind}
  BY <1>1, <1>2 DEF Kinds
<1>4. \A e \in chain : e.kind \in Kinds(chain) /\ e.when \in Nat /\ e.when <= now
                       /\ e.session = IF e.kind = "RideRequested" THEN NoSession ELSE driver
  BY DEF ChainInv, Kinds
<1>5. now \in Nat
  BY DEF TypeOK
<1>6. (driver # NoSession <=> "RideAccepted" \in Kinds(chain))'
  BY <1>3 DEF ChainInv
<1>7. ASSUME NEW e \in chain'
      PROVE  /\ e.when \in Nat /\ e.when <= now'
             /\ e.session = IF e.kind = "RideRequested" THEN NoSession ELSE driver'
             /\ e.kind = "RideCancelled" => e.when = now'
  <2>1. CASE e = new
    BY <1>1, <1>2, <2>1
  <2>2. CASE e \in chain
    BY <1>2, <1>4, <1>5, <2>2
  <2> QED BY <1>2, <2>1, <2>2
<1> QED BY <1>3, <1>6, <1>7

--------------------------------------------------------------------------------
\* The kinds before the n-th.
CausalUntil(n) == {Causal[i] : i \in 1 .. n - 1}

\* A chain that has come as far as the n-th event, and goes on to it.
LEMMA NextEvent ==
    ASSUME ChainInv, TypeOK, NEW n \in 3 .. 6, NEW when \in Nat,
           now < when \/ (n \in {4, 6} /\ now = when),
           Kinds(chain) = CausalUntil(n),
           Kinds(chain) \cup {Causal[n]} \in EmittedBy(stage'),
           Emit(Causal[n], when), driver' = driver
    PROVE  ChainInv'
<1>1. /\ n \in 1 .. 6 /\ 2 \in 1 .. 6 /\ 1 \in 1 .. 6 /\ 2 \in 1 .. n - 1
      /\ \A i \in 1 .. n - 1 : i \in 1 .. 6
  OBVIOUS
<1>2. Causal[1] = "RideRequested" /\ Causal[2] = "RideAccepted"
  BY DEF Causal
<1>3. /\ Causal[n] \notin {"RideRequested", "RideAccepted"}
      /\ "RideAccepted" \in Kinds(chain) /\ "RideCancelled" \notin Kinds(chain)
  BY <1>1, <1>2, CausalOrder DEF CausalUntil
<1>4. now <= when
  BY DEF TypeOK
<1>5. driver # NoSession
  BY <1>3 DEF ChainInv
<1>6. /\ Kinds(chain)' = Kinds(chain) \cup {Causal[n]}
      /\ (driver # NoSession <=> "RideAccepted" \in Kinds(chain))'
      /\ \A e \in chain' :
            /\ e.when \in Nat /\ e.when <= now'
            /\ e.session = IF e.kind = "RideRequested" THEN NoSession ELSE driver'
      /\ \A c \in chain' : c.kind = "RideCancelled" => c.when = now'
  BY <1>3, <1>4, <1>5, EmitKeeps
<1>7. \A e \in chain : \E i \in 1 .. n - 1 : e.kind = Causal[i]
  BY DEF Kinds, CausalUntil
<1>8. Ordered'
  BY <1>7, EmitOrdered DEF Emit
<1> QED BY <1>6, <1>8 DEF ChainInv

LEMMA KindsSoFar ==
    /\ Accepted = CausalUntil(3)
    /\ Arrived = CausalUntil(4)
    /\ Started = CausalUntil(5)
    /\ Completed = CausalUntil(6)
<1>1. /\ 1 .. 3 - 1 = {1, 2} /\ 1 .. 4 - 1 = {1, 2, 3} /\ 1 .. 5 - 1 = {1, 2, 3, 4}
      /\ 1 .. 6 - 1 = {1, 2, 3, 4, 5}
  OBVIOUS
<1>2. /\ Causal[1] = "RideRequested" /\ Causal[2] = "RideAccepted"
      /\ Causal[3] = "DriverArrived" /\ Causal[4] = "RideStarted"
      /\ Causal[5] = "RideCompleted"
  BY DEF Causal
<1> QED BY <1>1, <1>2 DEF CausalUntil, Accepted, Arrived, Started, Completed, Requested

\* The chain of a trip that goes all the way.
LEMMA OnwardLawful ==
    ASSUME DispatchInv, ChainInv,
           \/ \E delay \in ArrivalDelays : Arrive(delay)
           \/ \E wait \in Waits : Start(wait)
           \/ \E seconds \in Durations, quote \in Quotes : Complete(seconds, quote)
           \/ \E lag \in PaymentLags : Pay(lag)
    PROVE  ChainInv'
<1>0. /\ TypeOK /\ Causal[3] = "DriverArrived" /\ Causal[4] = "RideStarted"
      /\ Causal[5] = "RideCompleted" /\ Causal[6] = "PaymentCompleted"
      /\ now \in Nat /\ eta \in Nat
      /\ 3 \in 3 .. 6 /\ 4 \in 3 .. 6 /\ 5 \in 3 .. 6 /\ 6 \in 3 .. 6
  BY DEF Causal, DispatchInv, TypeOK
<1>1. ASSUME NEW delay \in ArrivalDelays, Arrive(delay) PROVE ChainInv'
  <2>1. Kinds(chain) = Accepted /\ Accepted \cup {Causal[3]} \in EmittedBy(stage')
    BY <1>0, <1>1 DEF Arrive, ChainInv, EmittedBy, Arrived
  <2>2. ActualPickup(delay) \in Nat \ {0}
    <3>1. eta + delay \in Int
      BY <1>0
    <3> QED BY <3>1 DEF ActualPickup, MinPickup
  <2>3. /\ now + ActualPickup(delay) \in Nat
        /\ now < now + ActualPickup(delay) \/ (3 \in {4, 6} /\ now = now + ActualPickup(delay))
    BY <1>0, <2>2
  <2>4. Emit(Causal[3], now + ActualPickup(delay)) /\ driver' = driver
    BY <1>0, <1>1 DEF Arrive
  <2>5. Kinds(chain) = CausalUntil(3) /\ Kinds(chain) \cup {Causal[3]} \in EmittedBy(stage')
    BY <2>1, KindsSoFar
  <2> QED BY <1>0, <2>3, <2>4, <2>5, NextEvent
<1>2. ASSUME NEW wait \in Waits, Start(wait) PROVE ChainInv'
  <2>1. Kinds(chain) = Arrived /\ Arrived \cup {Causal[4]} \in EmittedBy(stage')
    BY <1>0, <1>2 DEF Start, ChainInv, EmittedBy, Started
  <2>2. now + wait \in Nat /\ (now < now + wait \/ (4 \in {4, 6} /\ now = now + wait))
    BY <1>0
  <2>4. Emit(Causal[4], now + wait) /\ driver' = driver
    BY <1>0, <1>2 DEF Start
  <2>5. Kinds(chain) = CausalUntil(4) /\ Kinds(chain) \cup {Causal[4]} \in EmittedBy(stage')
    BY <2>1, KindsSoFar
  <2> QED BY <1>0, <2>2, <2>4, <2>5, NextEvent
<1>3. ASSUME NEW seconds \in Durations, NEW quote \in Quotes, Complete(seconds, quote)
      PROVE  ChainInv'
  <2>1. Kinds(chain) = Started /\ Started \cup {Causal[5]} \in EmittedBy(stage')
    BY <1>0, <1>3 DEF Complete, ChainInv, EmittedBy, Completed
  <2>2. /\ now + seconds \in Nat
        /\ now < now + seconds \/ (5 \in {4, 6} /\ now = now + seconds)
    BY <1>0
  <2>4. Emit(Causal[5], now + seconds) /\ driver' = driver
    BY <1>0, <1>3 DEF Complete
  <2>5. Kinds(chain) = CausalUntil(5) /\ Kinds(chain) \cup {Causal[5]} \in EmittedBy(stage')
    BY <2>1, KindsSoFar
  <2> QED BY <1>0, <2>2, <2>4, <2>5, NextEvent
<1>4. ASSUME NEW lag \in PaymentLags, Pay(lag) PROVE ChainInv'
  <2>1. Kinds(chain) = Completed /\ Completed \cup {Causal[6]} \in EmittedBy(stage')
    BY <1>0, <1>4 DEF Pay, ChainInv, EmittedBy, Settled
  <2>2. now + lag \in Nat /\ (now < now + lag \/ (6 \in {4, 6} /\ now = now + lag))
    BY <1>0
  <2>4. Emit(Causal[6], now + lag) /\ driver' = driver
    BY <1>0, <1>4 DEF Pay
  <2>5. Kinds(chain) = CausalUntil(6) /\ Kinds(chain) \cup {Causal[6]} \in EmittedBy(stage')
    BY <2>1, KindsSoFar
  <2> QED BY <1>0, <2>2, <2>4, <2>5, NextEvent
<1> QED BY <1>1, <1>2, <1>3, <1>4

\* A cancellation, wherever the trip has come.
LEMMA CancelLawful ==
    ASSUME DispatchInv, ChainInv, NEW s \in {"REQUESTED", "MATCHED", "DRIVER_ARRIVED", "STARTED"},
           stage = s, NEW delay \in CancelDelays[s], NEW applicable, Cancel(delay, applicable)
    PROVE  ChainInv'
<1>1. Kinds(chain) \in {Requested, Accepted, Arrived, Started}
  BY DEF ChainInv, EmittedBy
<1>2. /\ Kinds(chain) \cup {"RideCancelled"} \in EmittedBy(stage')
      /\ "RideCancelled" \notin Kinds(chain)
  BY <1>1 DEF Cancel, EmittedBy, Requested, Accepted, Arrived, Started
<1>3. delay \in Nat /\ now \in Nat
  BY CancelDelaysAreNat DEF DispatchInv, TypeOK
<1>4. now + delay \in Nat /\ now <= now + delay
  BY <1>3
<1>5. Emit("RideCancelled", now + delay) /\ driver' = driver
  BY DEF Cancel
<1>6. /\ Kinds(chain)' = Kinds(chain) \cup {"RideCancelled"}
      /\ (driver # NoSession <=> "RideAccepted" \in Kinds(chain))'
      /\ \A e \in chain' :
            /\ e.when \in Nat /\ e.when <= now'
            /\ e.session = IF e.kind = "RideRequested" THEN NoSession ELSE driver'
      /\ \A c \in chain' : c.kind = "RideCancelled" => c.when = now'
  BY <1>2, <1>4, <1>5, EmitKeeps DEF DispatchInv
<1>7. Ordered'
  <2> SUFFICES ASSUME NEW e \in chain', e \notin chain
               PROVE  \A i \in DOMAIN Causal : e.kind # Causal[i]
    BY DEF ChainInv, Ordered
  <2>1. e.kind = "RideCancelled"
    BY <1>5 DEF Emit, Event
  <2> QED BY <2>1, CausalOrder
<1> QED BY <1>2, <1>6, <1>7 DEF ChainInv

LEMMA RequestLawful ==
    ASSUME DispatchInv, ChainInv, NEW at \in RequestTimes, NEW t \in Types, Request(at, t)
    PROVE  ChainInv'
<1> DEFINE new == [trip |-> trip + 1, kind |-> "RideRequested", when |-> at,
                   session |-> NoSession]
<1>1. /\ new.kind = "RideRequested" /\ new.when = at /\ new.session = NoSession /\ at \in Nat
      /\ chain' = {new} /\ now' = at /\ stage' = "REQUESTED" /\ driver' = driver
      /\ stage = "idle"
  BY DEF Request, TakeUp
<1> HIDE DEF new
<1>2. Kinds(chain)' = Requested
  BY <1>1 DEF Kinds, Requested
<1>3. driver = NoSession
  BY <1>1 DEF ChainInv, EmittedBy
<1>4. Ordered'
  BY <1>1, CausalOrder DEF Ordered
<1>5. Kinds(chain)' \in EmittedBy(stage)'
  BY <1>1, <1>2 DEF EmittedBy
<1>6. (driver # NoSession <=> "RideAccepted" \in Kinds(chain))'
  BY <1>1, <1>2, <1>3 DEF Requested
<1>7. \A e \in chain' : /\ e.when \in Nat /\ e.when <= now'
                         /\ e.session = IF e.kind = "RideRequested" THEN NoSession ELSE driver'
  BY <1>1
<1>8. \A c \in chain' : c.kind = "RideCancelled" => c.when = now'
  BY <1>1
<1> QED BY <1>4, <1>5, <1>6, <1>7, <1>8 DEF ChainInv

LEMMA MatchLawful ==
    ASSUME DispatchInv, ChainInv, NEW delay \in MatchingDelays, NEW e \in Etas, Match(delay, e)
    PROVE  ChainInv'
<1> DEFINE new == Event("RideAccepted", now + delay, driver')
<1>1. new.kind = "RideAccepted" /\ new.when = now + delay /\ new.session = driver'
  BY DEF Event
<1>2. /\ chain' = chain \cup {new} /\ now' = now + delay /\ stage' = "MATCHED"
      /\ stage = "REQUESTED" /\ driver' \in Sessions
  BY DEF Match, IsFirst, Candidates
<1>3. now \in Nat /\ now + delay \in Nat /\ now < now + delay /\ driver' # NoSession
  BY <1>2 DEF DispatchInv, TypeOK, NoSession
<1>4. Kinds(chain) = Requested
  BY <1>2 DEF ChainInv, EmittedBy
<1>5. Ordered'
  <2>1. Causal[1] = "RideRequested" /\ Causal[2] = "RideAccepted" /\ 1 \in 1 .. 2 - 1
    BY DEF Causal
  <2>2. \A a \in chain : \E i \in 1 .. 2 - 1 : a.kind = Causal[i]
    BY <1>4, <2>1 DEF Kinds, Requested
  <2> QED BY <1>2, <1>3, <2>1, <2>2, EmitOrdered DEF DispatchInv
<1> HIDE DEF new
<1>6. Kinds(chain)' = Accepted
  BY <1>1, <1>2, <1>4 DEF Kinds, Accepted
<1>7. ASSUME NEW a \in chain'
      PROVE  /\ a.when \in Nat /\ a.when <= now'
             /\ a.session = IF a.kind = "RideRequested" THEN NoSession ELSE driver'
             /\ a.kind # "RideCancelled"
  <2>1. CASE a = new
    BY <1>1, <1>2, <1>3, <2>1
  <2>2. CASE a \in chain
    <3>1. a.kind = "RideRequested"
      BY <1>4, <2>2 DEF Kinds, Requested
    <3> QED BY <1>2, <1>3, <2>2, <3>1 DEF ChainInv
  <2> QED BY <1>2, <2>1, <2>2
<1> QED BY <1>2, <1>3, <1>5, <1>6, <1>7 DEF ChainInv, EmittedBy, Accepted

LEMMA ChainInit == Init => ChainInv
BY DEF Init, ChainInv, EmittedBy, Kinds, Ordered, NoSession

LEMMA ChainStep == DispatchInv /\ ChainInv /\ [Next]_vars => ChainInv'
<1> SUFFICES ASSUME DispatchInv, ChainInv, [Next]_vars PROVE ChainInv'
  OBVIOUS
<1>1. CASE UNCHANGED <<stage, chain, driver, now>>
  BY <1>1 DEF ChainInv, Ordered
<1>2. CASE CountTrip
  BY <1>2 DEF CountTrip, ChainInv, EmittedBy, Kinds, Ordered, NoSession
<1>3. CASE NoDriver /\ UNCHANGED <<now, driver, chain>>
  BY <1>3 DEF NoDriver, Cancel, ChainInv, EmittedBy, Ordered, Kinds
<1>4. CASE \E delay \in CancelDelays["REQUESTED"] : stage = "REQUESTED" /\ Cancel(delay, FALSE)
  BY <1>4, CancelLawful
<1>5. CASE \E delay \in CancelDelays["REQUESTED"], fee \in BOOLEAN : CancelBeforeMatch(delay, fee)
  BY <1>5, CancelLawful DEF CancelBeforeMatch
<1>6. CASE \E delay \in CancelDelays["MATCHED"], fee \in BOOLEAN : CancelMatched(delay, fee)
  BY <1>6, CancelLawful DEF CancelMatched
<1>7. CASE \E delay \in CancelDelays["DRIVER_ARRIVED"], fee \in BOOLEAN : CancelArrived(delay, fee)
  BY <1>7, CancelLawful DEF CancelArrived
<1>8. CASE \E delay \in CancelDelays["STARTED"], fee \in BOOLEAN : CancelStarted(delay, fee)
  BY <1>8, CancelLawful DEF CancelStarted
<1>9. CASE NoDriver
  BY <1>3, <1>4, <1>9 DEF NoDriver
<1>10. CASE Build \/ StartLifecycle \/ EmitPresence \/ UNCHANGED vars
  BY <1>1, <1>10 DEF Build, StartLifecycle, EmitPresence, Presence, vars
<1> QED
  BY <1>2, <1>5, <1>6, <1>7, <1>8, <1>9, <1>10, RequestLawful, MatchLawful, OnwardLawful DEF Next

LEMMA ChainInvHolds == Spec => [](DispatchInv /\ ChainInv)
<1>1. Init => DispatchInv /\ ChainInv
  BY DispatchInit, ChainInit
<1>2. (DispatchInv /\ ChainInv) /\ [Next]_vars => (DispatchInv /\ ChainInv)'
  BY DispatchStep, ChainStep
<1> QED BY <1>1, <1>2, PTL DEF Spec

--------------------------------------------------------------------------------
\* The warehouse looks at the kinds of a chain.
LEMMA LandedHas ==
    ASSUME NEW kind
    PROVE  Assembly!Has(Landed, kind) <=> kind \in Kinds(chain)
<1> DEFINE f(e) == [trip |-> e.trip, kind |-> e.kind, when |-> e.when,
                    driver |-> e.session # NoSession]
<1>1. \A e : f(e).kind = e.kind
  OBVIOUS
<1>2. Landed = {f(e) : e \in chain}
  BY DEF Landed
<1> HIDE DEF f
<1> QED BY <1>1, <1>2 DEF Assembly!Has, Kinds

(***************************************************************************)
(* Every chain the generator emits, at any length, satisfies the sequence  *)
(* rules and the temporal ones, for any draws: a consumer that has seen a  *)
(* prefix of it never has a reason to quarantine the trip.                 *)
(***************************************************************************)
THEOREM ChainsAreLawful == GeneratorSpec => []ChainIsLawful
<1>1. ChainInv /\ DispatchInv => ChainIsLawful
  <2> SUFFICES ASSUME ChainInv, DispatchInv, chain # {} PROVE ChainIsLawful
    BY DEF ChainIsLawful
  <2>1. /\ "RideRequested" \in Kinds(chain)
        /\ "RideCompleted" \in Kinds(chain) => /\ "RideCancelled" \notin Kinds(chain)
                                               /\ "RideStarted" \in Kinds(chain)
        /\ "PaymentCompleted" \in Kinds(chain) => "RideCompleted" \in Kinds(chain)
        /\ "RideStarted" \in Kinds(chain) => "RideAccepted" \in Kinds(chain)
        /\ "DriverArrived" \in Kinds(chain) => "RideAccepted" \in Kinds(chain)
    <3>1. Kinds(chain) # {}
      BY DEF Kinds
    <3> QED BY <3>1 DEF ChainInv, EmittedBy, DispatchInv, TypeOK, Requested, Accepted,
               Arrived, Started, Completed, Settled
  <2>2. ~ Assembly!IsQuarantined(Landed)
    BY <2>1, LandedHas DEF Assembly!IsQuarantined, Assembly!HasRequestEvent,
       Assembly!IsSequenceValid, Assembly!IsCompleted, Assembly!IsCancelled, Assembly!IsPaid
  <2> QED BY <2>2 DEF ChainInv, Ordered, ChainIsLawful, NoSession
<1> QED BY <1>1, GeneratorDispatches, ChainInvHolds, PTL

\* The furthest stage is paid exactly when a payment is there.
LEMMA FunnelIsPaid ==
    ASSUME NEW es
    PROVE  Assembly!FunnelStage(es) = 6 <=> Assembly!IsPaid(es)
<1> DEFINE S == Assembly!StagesReached(es)
           top == CHOOSE n \in S \cup {0} : \A m \in S : m <= n
<1>1. S \subseteq 1 .. 6 /\ (6 \in S <=> Assembly!IsPaid(es))
  BY DEF Assembly!StagesReached
<1>2. Assembly!FunnelStage(es) = top
  BY DEF Assembly!FunnelStage
<1> HIDE DEF S
<1>3. \E n \in S \cup {0} : \A m \in S : m <= n
  <2>1. CASE 6 \in S
    BY <1>1, <2>1
  <2>2. CASE 6 \notin S /\ 5 \in S
    BY <1>1, <2>2
  <2>3. CASE 6 \notin S /\ 5 \notin S /\ 4 \in S
    BY <1>1, <2>3
  <2>4. CASE 6 \notin S /\ 5 \notin S /\ 4 \notin S /\ 3 \in S
    BY <1>1, <2>4
  <2>5. CASE 6 \notin S /\ 5 \notin S /\ 4 \notin S /\ 3 \notin S /\ 2 \in S
    BY <1>1, <2>5
  <2>6. CASE 6 \notin S /\ 5 \notin S /\ 4 \notin S /\ 3 \notin S /\ 2 \notin S
    BY <1>1, <2>6
  <2> QED BY <2>1, <2>2, <2>3, <2>4, <2>5, <2>6
<1>4. top \in S \cup {0} /\ \A m \in S : m <= top
  BY <1>3
<1> HIDE DEF top
<1> QED BY <1>1, <1>2, <1>4

(***************************************************************************)
(* The run summary and the warehouse, which derive the outcome of a trip   *)
(* by different rules, agree on every chain, for any draws.                *)
(***************************************************************************)
THEOREM OutcomesAreInferred == GeneratorSpec => []OutcomeIsInferred
<1>1. ChainInv /\ DispatchInv => OutcomeIsInferred
  <2> SUFFICES ASSUME ChainInv, DispatchInv, stage = "ended" PROVE OutcomeIsInferred
    BY DEF OutcomeIsInferred
  <2> DEFINE later == [trip |-> 0, kind |-> "RideRequested", when |-> now + Horizon + 1,
                       driver |-> FALSE]
  <2>1. /\ "RideRequested" \in Kinds(chain)
        /\ "RideCompleted" \in Kinds(chain) <=> "PaymentCompleted" \in Kinds(chain)
        /\ "RideCompleted" \in Kinds(chain) => /\ "RideCancelled" \notin Kinds(chain)
                                               /\ "RideAccepted" \in Kinds(chain)
        /\ \/ "RideCompleted" \in Kinds(chain) \/ "RideCancelled" \in Kinds(chain)
           \/ "RideAccepted" \notin Kinds(chain)
    BY DEF ChainInv, EmittedBy, Requested, Accepted, Arrived, Started, Completed, Settled
  <2>2. Outcome = "cancelled" <=> Assembly!IsCancelled(Landed)
    BY <2>1, LandedHas DEF Outcome, Assembly!IsCancelled
  <2>3. Outcome = "completed" <=> Assembly!FunnelStage(Landed) = 6
    BY <2>1, LandedHas, FunnelIsPaid DEF Outcome, Assembly!IsPaid
  <2>4. \E e \in Landed, latest \in Landed \cup {later} :
           /\ e.kind = "RideRequested" /\ latest.kind = "RideRequested"
           /\ e.when + Horizon < latest.when
    <3>1. PICK e \in chain : e.kind = "RideRequested"
      BY <2>1 DEF Kinds
    <3>2. e.when \in Nat /\ now \in Nat /\ e.when <= now
      BY DEF ChainInv, DispatchInv, TypeOK
    <3> DEFINE f == [trip |-> e.trip, kind |-> e.kind, when |-> e.when,
                     driver |-> e.session # NoSession]
    <3>3. f \in Landed
      BY DEF Landed
    <3>4. f.kind = "RideRequested" /\ f.when + Horizon < later.when
      BY <3>1, <3>2 DEF Horizon
    <3> QED BY <3>3, <3>4
  <2>5. Outcome = "expired" <=> Assembly!IsExpired(Landed, Landed \cup {later})
    <3>1. Assembly!IsExpired(Landed, Landed \cup {later}) <=>
              "RideAccepted" \notin Kinds(chain) /\ "RideCancelled" \notin Kinds(chain)
      BY <2>4, LandedHas DEF Assembly!IsExpired, Assembly!IsCancelled
    <3>2. Outcome = "expired" <=>
              "RideCompleted" \notin Kinds(chain) /\ "RideCancelled" \notin Kinds(chain)
      BY DEF Outcome
    <3> QED BY <2>1, <3>1, <3>2
  <2> QED BY <2>2, <2>3, <2>5 DEF OutcomeIsInferred
<1> QED BY <1>1, GeneratorDispatches, ChainInvHolds, PTL
================================================================================
