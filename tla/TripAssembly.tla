------------------------------ MODULE TripAssembly ------------------------------
(***************************************************************************)
(* How int_trips_assembled.sql turns the set of events known for one trip  *)
(* into a row: the outcome flags, the funnel stage and the sequence check  *)
(* that decides quarantine.                                                *)
(*                                                                         *)
(* An event is a record with the fields the derivation looks at:           *)
(*   trip, kind   the correlation id and the event type                    *)
(*   when         the business time of the event                           *)
(*   driver       whether the event carries a driver_id                    *)
(* Every operator takes the set es of one trip's events and looks only at  *)
(* membership: nothing here can depend on the order of arrival.            *)
(***************************************************************************)
EXTENDS Naturals

CONSTANT ExpiryHorizon      \* interval 10 minute, on the clock of `when'

ASSUME ExpiryHorizonAssumption == ExpiryHorizon \in Nat

Kinds == {"RideRequested", "RideAccepted", "DriverArrived", "RideStarted",
          "RideCompleted", "RideCancelled", "PaymentCompleted"}

Has(es, kind) == \E e \in es : e.kind = kind

IsCompleted(es)     == Has(es, "RideCompleted")
IsCancelled(es)     == Has(es, "RideCancelled")
IsPaid(es)          == Has(es, "PaymentCompleted")
HasRequestEvent(es) == Has(es, "RideRequested")
IsMatched(es)       == \E e \in es : e.driver

(***************************************************************************)
(* EXPIRED is inferred: a request neither accepted nor cancelled, older    *)
(* by more than the horizon than the latest request among all the events   *)
(* the model was built from.                                               *)
(***************************************************************************)
IsExpired(es, all) ==
    /\ ~ Has(es, "RideAccepted")
    /\ ~ IsCancelled(es)
    /\ \E e \in es, latest \in all :
          /\ e.kind = "RideRequested" /\ latest.kind = "RideRequested"
          /\ e.when + ExpiryHorizon < latest.when

(***************************************************************************)
(* The CASE expression walks down the stages, paid first: the stage of a   *)
(* trip is the furthest it has evidence of.                                *)
(***************************************************************************)
StagesReached(es) ==
    { n \in 1 .. 6 : \/ n = 1 /\ HasRequestEvent(es)
                     \/ n = 2 /\ IsMatched(es)
                     \/ n = 3 /\ Has(es, "DriverArrived")
                     \/ n = 4 /\ Has(es, "RideStarted")
                     \/ n = 5 /\ IsCompleted(es)
                     \/ n = 6 /\ IsPaid(es) }

FunnelStage(es) ==
    CHOOSE n \in StagesReached(es) \cup {0} : \A m \in StagesReached(es) : m <= n

(***************************************************************************)
(* The sequence rules as the row states them.                              *)
(***************************************************************************)
IsSequenceValid(es) ==
    /\ HasRequestEvent(es)
    /\ ~ (IsCompleted(es) /\ IsCancelled(es))
    /\ IsCompleted(es)            => Has(es, "RideStarted")
    /\ IsPaid(es)                 => IsCompleted(es)
    /\ Has(es, "RideStarted")     => Has(es, "RideAccepted")
    /\ Has(es, "DriverArrived")   => Has(es, "RideAccepted")

IsQuarantined(es) == ~ HasRequestEvent(es) \/ ~ IsSequenceValid(es)
================================================================================
