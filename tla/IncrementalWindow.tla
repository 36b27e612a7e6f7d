--------------------------- MODULE IncrementalWindow ---------------------------
(***************************************************************************)
(* The incremental_window macro of transformation/macros/incremental.sql:  *)
(* which landing-zone rows one run of an incremental mart looks at.  A     *)
(* normal run goes back a fixed lookback from the newest dbt_loaded_at of  *)
(* the mart itself; a backfill takes an explicit half-open range.  Times   *)
(* are naturals on the pipeline's own clock; the lookback is 48 hours in   *)
(* dbt_project.yml.                                                        *)
(***************************************************************************)
EXTENDS Naturals

CONSTANT Lookback          \* var('incremental_lookback_hours')

ASSUME LookbackAssumption == Lookback \in Nat

Epoch == 0                 \* timestamptz '1970-01-01', what an empty mart gives

(* Mutant: no lookback, only what landed since the watermark.              *)
SinceWatermarkNoLookback(at, stamps) == \A s \in stamps \cup {Epoch} : at >= s

(***************************************************************************)
(* at >= coalesce(max(dbt_loaded_at), epoch) - lookback, the maximum       *)
(* spelt as a bound on every stamp in the mart.                            *)
(***************************************************************************)
SinceWatermark(at, stamps) ==
    \A s \in stamps \cup {Epoch} : at + Lookback >= s

InBackfill(at, from, to) == from <= at /\ at < to

(***************************************************************************)
(* The rows a run selects, by its mode.  dbt adds no window at all on a    *)
(* full refresh.                                                           *)
(***************************************************************************)
InWindow(at, run, stamps) ==
    \/ run.mode = "full"
    \/ run.mode = "normal"   /\ SinceWatermark(at, stamps)
    \/ run.mode = "backfill" /\ InBackfill(at, run.from, run.to)
================================================================================
