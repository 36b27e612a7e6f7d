------------------------------- MODULE Generator -------------------------------
(***************************************************************************)
(* generate(): the surge grid is computed between the building of the      *)
(* marketplace and the lifecycle of the trips (generator.py).  A plan may  *)
(* then carry any multiplier the grid can hold: QuotesAreInGrid is what    *)
(* the quotes of Dispatch assume, and SurgeInGrid what the grid guarantees.*)
(***************************************************************************)
EXTENDS Dispatch, Surge

\* A request is quoted what surge_for() answers.
ASSUME QuotesAreInGrid == \A q \in Quotes : q.surge \in Grid

generatorVars == <<vars, surgeVars>>

GeneratorInit == Init /\ SurgeInit

SurgePass ==
    /\ pass = "surge"
    /\ SurgeNext
    /\ UNCHANGED vars

\* The grid is complete; the walk's memory is local to compute_surge_grid.
SurgeDone ==
    /\ bucket = Buckets
    /\ StartLifecycle
    /\ UNCHANGED bucket
    /\ previous' = NoPrior /\ last' = NoBucket

GeneratorNext ==
    \/ SurgePass
    \/ SurgeDone
    \/ Next /\ pass # "surge" /\ UNCHANGED surgeVars

GeneratorSpec == GeneratorInit /\ [][GeneratorNext]_generatorVars

(***************************************************************************)
(* Every multiplier is between the floor and the city's ceiling, or the    *)
(* 1.0 of a bucket with too few requests, and so is what a ride is quoted. *)
(***************************************************************************)
SurgeInGrid == SurgeTypeOK /\ \A q \in Quotes : q.surge \in Grid
================================================================================
