------------------------------ MODULE MCWarehouse ------------------------------
(***************************************************************************)
(* Instances of Warehouse for TLC: sets of trip events small enough to     *)
(* land in every order.  An event of a trip that is missing from a set is  *)
(* one that never lands (rejected to the dead letter queue).               *)
(***************************************************************************)
EXTENDS Warehouse

Event(t, kind, when) ==
    [trip |-> t, kind |-> kind, when |-> when, driver |-> kind # "RideRequested"]

\* Two requests, of which the first can be inferred expired from the second.
TwoRequests ==
    {Event("t1", "RideRequested", 1), Event("t2", "RideRequested", 3)}

\* A trip with a payment whose completion is in the dead letter queue.
Paid ==
    {Event("t1", "RideRequested", 1), Event("t1", "PaymentCompleted", 2)}

\* A trip that is in quarantine while its acceptance has landed before its
\* request.
Healing ==
    {Event("t1", "RideRequested", 1), Event("t1", "RideAccepted", 2)}

OnlyTrips    == {FctTrips}
TripsEvents  == {FctTrips, FctEvents}
AllMarts     == {FctTrips, FctEvents, FctPayments}

NoBackfill  == {}
OneBackfill == {<<1, 3>>}
================================================================================
