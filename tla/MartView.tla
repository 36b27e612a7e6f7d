-------------------------------- MODULE MartView --------------------------------
(***************************************************************************)
(* What an incremental mart promises its readers, with no dbt in it: it    *)
(* shows only events that have landed, never un-shows one, and shows every *)
(* landed event eventually, however late the event was and however many    *)
(* runs failed in between.  Module Warehouse is shown to implement it.     *)
(***************************************************************************)
CONSTANT Events

VARIABLES
    landed,       \* the events with a readable row in the landing zone
    shown         \* the events the mart's rows are built from

viewVars == <<landed, shown>>

ViewInit == landed = {} /\ shown = {}

Land ==
    /\ \E es \in SUBSET Events : landed' = landed \cup es
    /\ UNCHANGED shown

Refresh ==
    /\ \E es \in SUBSET landed : shown' = shown \cup es
    /\ UNCHANGED landed

ViewNext == Land \/ Refresh

ViewSafety == ViewInit /\ [][ViewNext]_viewVars

(***************************************************************************)
(* The eventual part of the promise.                                       *)
(***************************************************************************)
Caught(e) == e \in landed => e \in shown

ViewSpec == ViewSafety /\ \A e \in Events : []<>Caught(e)
================================================================================
