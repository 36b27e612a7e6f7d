------------------------------ MODULE MCGenerator ------------------------------
(***************************************************************************)
(* A run of a quarter of an hour with three premium drivers, one of them   *)
(* rated below what the tier asks for, three trips, and a zone of three    *)
(* surge buckets.                                                          *)
(***************************************************************************)
EXTENDS Generator

MCRating == [t \in Types |-> IF t = "PREMIUM" THEN 460 ELSE 400]
MCFleet  == <<[type |-> "PREMIUM", rating |-> 470], [type |-> "PREMIUM", rating |-> 460],
              [type |-> "PREMIUM", rating |-> 450]>>

\* Already over before the window, and extended into it; within it.
MCOnlines == {-3000, 100}

MCCancelDelays == [s \in {"REQUESTED", "MATCHED", "DRIVER_ARRIVED", "STARTED"} |->
    CASE s = "REQUESTED" -> {20} [] s = "MATCHED" -> {15, 600}
      [] s = "DRIVER_ARRIVED" -> {60} [] s = "STARTED" -> {30}]

MCDelays == {-240, 0}

\* Bengaluru and the premium tier: dim_city.csv, dim_vehicle_type.csv.
MCTariff == [base |-> 6000, baseFactor |-> 160, perKm |-> 1800, kmFactor |-> 155,
             perMin |-> 200, airport |-> 15000, booking |-> 2500, tax |-> 500,
             commission |-> 2000]

MCQuotes == { [distance |-> 1207, surge |-> m, isAirport |-> m = 13,
               toll |-> IF m = 13 THEN 3333 ELSE 0, tip |-> 7, discount |-> p] :
                 m \in {13, 40}, p \in {0, 25} }
================================================================================
