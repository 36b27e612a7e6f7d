------------------------------ MODULE DriverSessions ------------------------------
(***************************************************************************)
(* The supply side of the warehouse: int_driver_sessions pairs the         *)
(* presence events on session_id, fct_driver_sessions takes up what one    *)
(* run selects of the pairs.  Its window is the macro's, like that of the  *)
(* other marts, but over online_at, the session's own time.                *)
(***************************************************************************)
EXTENDS IncrementalWindow

CONSTANTS OnlineAt,     \* OnlineAt[session_id]: online_at of the DriverOnline event
          MaxClock      \* bound

Sessions == DOMAIN OnlineAt

VARIABLES
    clock,
    zone,       \* presence events in the landing zone: <<session, kind>>
    pairs,      \* int_driver_sessions, rebuilt by every run
    mode,       \* of the run whose mart is yet to be built, or "none"
    mart        \* fct_driver_sessions

vars == <<clock, zone, pairs, mode, mart>>

Tick ==
    /\ clock < MaxClock
    /\ clock' = clock + 1
    /\ UNCHANGED <<zone, pairs, mode, mart>>

\* An event lands any time after it happened: delayed, or consumed again.
Land(s, kind) ==
    /\ OnlineAt[s] <= clock
    /\ zone' = zone \cup {<<s, kind>>}
    /\ UNCHANGED <<clock, pairs, mode, mart>>

\* Every online event, left-joined with the offline event of its session.
BuildPairs(m) ==
    /\ mode = "none"
    /\ mode' = m
    /\ pairs' = { [session |-> s, open |-> <<s, "DriverOffline">> \notin zone] :
                    s \in {r \in Sessions : <<r, "DriverOnline">> \in zone} }
    /\ UNCHANGED <<clock, zone, mart>>

Stamps == {row.loaded : row \in mart}

\* The window, and what the mart holds open whatever the window.
Selected ==
    { p \in pairs :
        \/ InWindow(OnlineAt[p.session], [mode |-> mode, from |-> 0, to |-> 0], Stamps)
        \/ \E row \in mart : row.session = p.session /\ row.open }

\* delete+insert by session_id; a full refresh starts from nothing.
BuildSessions ==
    /\ mode # "none"
    /\ mode' = "none"
    /\ mart' = { row \in mart : mode # "full" /\ \A p \in Selected : p.session # row.session }
                 \cup { [session |-> p.session, open |-> p.open, loaded |-> clock] :
                            p \in Selected }
    /\ UNCHANGED <<clock, zone, pairs>>

Init ==
    /\ clock = 0 /\ zone = {} /\ pairs = {} /\ mode = "none" /\ mart = {}

Next ==
    \/ Tick
    \/ \E s \in Sessions, kind \in {"DriverOnline", "DriverOffline"} : Land(s, kind)
    \/ \E m \in {"normal", "full"} : BuildPairs(m)
    \/ BuildSessions

Spec == Init /\ [][Next]_vars

(***************************************************************************)
(* "Byte-identical marts across incremental re-run and full refresh"       *)
(* (README.md:373), of the sessions: a run that builds the mart leaves in  *)
(* it what a full refresh would build from the same pairs, however late a  *)
(* session landed and whichever of its events came first.                  *)
(***************************************************************************)
SessionsAreComplete ==
    [][mart' # mart =>
          {[session |-> row.session, open |-> row.open] : row \in mart'} = pairs]_vars
================================================================================
