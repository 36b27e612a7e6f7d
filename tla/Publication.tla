------------------------------ MODULE Publication ------------------------------
(***************************************************************************)
(* The hourly transform as a whole: the tasks of                           *)
(* orchestration/dags/rideflow_transform.py with their retries and alerts, *)
(* the lock of the DuckDB file they share with warehouse/export.py, and    *)
(* the files and the marker the serving layer reads.  What dbt_run builds  *)
(* is in Warehouse; here a mart is known by the run that built it.         *)
(***************************************************************************)
EXTENDS Naturals

CONSTANTS
    Runs,           \* bound: DAG runs
    Marts,          \* MARTS
    Retries,        \* Retries[task]
    MaxLandings     \* bound: files the consumer lands

Tasks == {"freshness", "deps", "seed", "run", "test", "export", "docs", "reconcile", "publish"}

ASSUME PublicationAssumption ==
    Runs \in Nat /\ MaxLandings \in Nat /\ Retries \in [Tasks -> Nat]

VARIABLES
    run,            \* the latest DAG run
    active,         \* whether it is still running
    state,          \* of its task instances
    tries,          \* failed attempts of each that is not settled
    warehouse,      \* warehouse[m]: the run that last built the mart
    tested,         \* runs whose dbt_test passed
    files,          \* files[m]: the version in the exported file, and by whom
    exported,       \* marts this attempt of the export has written
    marker,         \* dag_run_id in _LAST_SUCCESSFUL_RUN.json
    alerts,         \* those raised in the run, and whether _ALERTS.jsonl keeps them
    landed,         \* files in the landing zone
    counted,        \* what reconciliation_check counted there, or NotCounted
    cli,            \* whether an export from the command line holds a connection
    disturbed       \* auxiliary: something befell the run, see QuietRunPublishes

dag    == <<run, active>>
tasks  == <<state, tries, alerts>>
serving == <<files, exported, marker>>
reality == <<landed, cli>>
vars   == <<run, active, state, tries, warehouse, tested, files, exported, marker, alerts,
            landed, counted, cli, disturbed>>

NotCounted == MaxLandings + 1
NoFile     == [version |-> 0, by |-> "nobody"]

\* The arrows at the end of the DAG.
Upstream(t) == CASE t = "freshness" -> {}          [] t = "deps"      -> {"freshness"}
                 [] t = "seed"      -> {"deps"}    [] t = "run"       -> {"seed"}
                 [] t = "test"      -> {"run"}     [] t = "export"    -> {"test"}
                 [] t = "docs"      -> {"test"}    [] t = "reconcile" -> {"export"}
                 [] t = "publish"   -> {"reconcile"}

Settled(t) == state[t] \in {"success", "failed", "upstream_failed"}

\* trigger_rule: dbt_docs_generate runs when all are done, the others on success.
Due(t) ==
    /\ active /\ state[t] \in {"none", "up_for_retry"}
    /\ \A u \in Upstream(t) : IF t = "docs" THEN Settled(u) ELSE state[u] = "success"

--------------------------------------------------------------------------------
(* The lock of the DuckDB file: one writer, or any number of readers. *)

Writers == {"seed", "run", "test", "docs"}

(* Mutant: the export and the reconciliation open the file to write.       *)
ReadersNone == {}

Readers == {"export", "reconcile"}

Holders == {t \in Writers \cup {"export", "reconcile"} : state[t] = "running"}
               \cup (IF cli THEN {"cli"} ELSE {})

Collides(t) ==
    \/ t \in Readers /\ Holders \cap Writers # {}
    \/ t \in (Writers \cup {"export", "reconcile"}) \ Readers /\ Holders # {}

--------------------------------------------------------------------------------
(* Task instances *)

Severity(t) == IF t \in {"test", "reconcile"} THEN "CRITICAL" ELSE "HIGH"

\* The alert is printed in the task's log, then appended to _ALERTS.jsonl; an
\* OSError of the append is printed too, and hides nothing of the failure.
Alert(t, kept) == [task |-> t, severity |-> Severity(t), kept |-> kept]

Raise(t) == \E kept \in BOOLEAN : alerts' = alerts \cup {Alert(t, kept)}

(* Mutant: an attempt that fails is not counted.                           *)
AttemptFailsUncounted(t) ==
    /\ state' = [state EXCEPT ![t] = IF Retries[t] > 0 THEN "up_for_retry" ELSE "failed"]
    /\ IF Retries[t] > 0 THEN UNCHANGED alerts ELSE Raise(t)
    /\ UNCHANGED tries

(* Mutant: one attempt too many.                                           *)
AttemptFailsOnceMore(t) ==
    /\ state' = [state EXCEPT ![t] = IF tries[t] > Retries[t] THEN "failed" ELSE "up_for_retry"]
    /\ IF tries[t] <= Retries[t] THEN UNCHANGED alerts ELSE Raise(t)
    /\ tries' = [tries EXCEPT ![t] = @ + 1]

(* Mutant: the alert is raised by every attempt.                           *)
AttemptFailsLoudly(t) ==
    LET again == tries[t] < Retries[t]
    IN  /\ Raise(t)
        /\ tries' = [tries EXCEPT ![t] = IF again THEN @ + 1 ELSE 0]
        /\ state' = [state EXCEPT ![t] = IF again THEN "up_for_retry" ELSE "failed"]

\* on_failure_callback fires once the retries are exhausted.
AttemptFails(t) ==
    \/ /\ tries[t] < Retries[t]
       /\ state' = [state EXCEPT ![t] = "up_for_retry"]
       /\ tries' = [tries EXCEPT ![t] = @ + 1]
       /\ UNCHANGED alerts
    \/ /\ tries[t] = Retries[t]
       /\ state' = [state EXCEPT ![t] = "failed"]
       /\ Raise(t)
       /\ tries' = [tries EXCEPT ![t] = 0]

AttemptSucceeds(t) ==
    /\ state[t] = "running"
    /\ state' = [state EXCEPT ![t] = "success"]
    /\ tries' = [tries EXCEPT ![t] = 0]
    /\ UNCHANGED alerts

Begin(t) ==
    /\ Due(t) /\ ~ Collides(t)
    /\ state' = [state EXCEPT ![t] = "running"]
    /\ exported' = IF t = "export" THEN {} ELSE exported
    /\ counted' = IF t = "reconcile" THEN NotCounted ELSE counted
    /\ UNCHANGED <<dag, tries, alerts, warehouse, tested, files, marker, reality, disturbed>>

\* The connection is refused: an attempt lost.
Collide(t) ==
    /\ Due(t) /\ Collides(t)
    /\ AttemptFails(t)
    /\ disturbed' = (disturbed \/ ({t} \cup Holders) \cap Writers # {})
    /\ UNCHANGED <<dag, warehouse, tested, serving, reality, counted>>

Skip(t) ==
    /\ active /\ state[t] = "none" /\ t # "docs"
    /\ \E u \in Upstream(t) : state[u] \in {"failed", "upstream_failed"}
    /\ state' = [state EXCEPT ![t] = "upstream_failed"]
    /\ UNCHANGED <<dag, tries, alerts, warehouse, tested, serving, reality, counted, disturbed>>

\* dbt_run, when it is cut short, has rebuilt some of the marts.
HalfBuilt ==
    \E built \in SUBSET Marts :
        warehouse' = [m \in Marts |-> IF m \in built THEN run ELSE warehouse[m]]

\* The task raises, dbt exits with an error, or the worker dies; dbt_test may
\* have found bad data.
Fault(t) ==
    /\ state[t] = "running"
    /\ AttemptFails(t)
    /\ IF t = "run" THEN HalfBuilt ELSE UNCHANGED warehouse
    /\ disturbed' = TRUE
    /\ UNCHANGED <<dag, tested, serving, reality, counted>>

\* check_landing_zone_freshness warns of an old zone, and succeeds.
PlainTask(t) ==
    /\ t \in {"freshness", "deps", "seed", "docs"}
    /\ AttemptSucceeds(t)
    /\ UNCHANGED <<dag, warehouse, tested, serving, reality, counted, disturbed>>

Build ==
    /\ AttemptSucceeds("run")
    /\ warehouse' = [m \in Marts |-> run]
    /\ UNCHANGED <<dag, tested, serving, reality, counted, disturbed>>

Test ==
    /\ AttemptSucceeds("test")
    /\ tested' = tested \cup {run}
    /\ UNCHANGED <<dag, warehouse, serving, reality, counted, disturbed>>

\* COPY replaces the file of one mart.
ExportMart(m) ==
    /\ state["export"] = "running" /\ m \notin exported
    /\ files' = [files EXCEPT ![m] = [version |-> warehouse[m], by |-> "dag"]]
    /\ exported' = exported \cup {m}
    /\ UNCHANGED <<dag, tasks, warehouse, tested, marker, reality, counted, disturbed>>

(* Mutant: an export that gave up after some marts is a success.           *)
ExportIsOver ==
    /\ AttemptSucceeds("export")
    /\ UNCHANGED <<dag, warehouse, tested, serving, reality, counted, disturbed>>

ExportDone ==
    /\ exported = Marts
    /\ AttemptSucceeds("export")
    /\ exported' = {}
    /\ UNCHANGED <<dag, warehouse, tested, files, marker, reality, counted, disturbed>>

\* The first query of reconciliation_check reads the landing zone...
CountLanded ==
    /\ state["reconcile"] = "running" /\ counted = NotCounted
    /\ counted' = landed
    /\ UNCHANGED <<dag, tasks, warehouse, tested, serving, reality, disturbed>>

\* ... the second one the staging views, which read it again (N2).
CompareStaged ==
    /\ counted # NotCounted
    /\ \/ counted = landed /\ AttemptSucceeds("reconcile")
       \/ counted # landed /\ state["reconcile"] = "running" /\ AttemptFails("reconcile")
    /\ counted' = NotCounted
    /\ UNCHANGED <<dag, warehouse, tested, serving, reality, disturbed>>

WriteMarker ==
    /\ AttemptSucceeds("publish")
    /\ marker' = run
    /\ UNCHANGED <<dag, warehouse, tested, files, exported, reality, counted, disturbed>>

Task(t) == Begin(t) \/ Collide(t) \/ Skip(t) \/ Fault(t) \/ PlainTask(t)

--------------------------------------------------------------------------------
(* Scheduler, consumer, command line *)

NewRun(instances) ==
    /\ run < Runs
    /\ run' = run + 1 /\ active' = TRUE
    /\ state' = instances /\ tries' = [t \in Tasks |-> 0] /\ alerts' = {}
    /\ exported' = {} /\ counted' = NotCounted /\ disturbed' = FALSE
    /\ UNCHANGED <<warehouse, tested, files, marker, reality>>

(* Mutant: max_active_runs is 2, and the earlier run goes on as the later. *)
StartRunEarly == NewRun(state)

\* max_active_runs = 1, catchup = False, depends_on_past = False.
StartRun ==
    /\ ~ active
    /\ NewRun([t \in Tasks |-> "none"])

EndRun ==
    /\ active /\ \A t \in Tasks : Settled(t)
    /\ active' = FALSE
    /\ UNCHANGED <<run, tasks, warehouse, tested, serving, reality, counted, disturbed>>

\* dagrun_timeout: what runs is stopped, what waits is skipped; no callback of a task.
TimeOut ==
    /\ active /\ \E t \in Tasks : ~ Settled(t)
    /\ active' = FALSE
    /\ state' = [t \in Tasks |-> IF Settled(t) THEN state[t] ELSE "skipped"]
    /\ IF state["run"] = "running" THEN HalfBuilt ELSE UNCHANGED warehouse
    /\ disturbed' = TRUE
    /\ UNCHANGED <<run, tries, alerts, tested, serving, reality, counted>>

\* The consumer knows nothing of the DAG.
Land ==
    /\ landed < MaxLandings
    /\ landed' = landed + 1
    /\ disturbed' = (disturbed \/ (state["reconcile"] = "running" /\ counted # NotCounted))
    /\ UNCHANGED <<dag, tasks, warehouse, tested, serving, counted, cli>>

\* export.main(): a read-only connection, for as long as the export takes.
CliOpen ==
    /\ ~ cli /\ Holders \cap Writers = {}
    /\ cli' = TRUE
    /\ UNCHANGED <<dag, tasks, warehouse, tested, serving, landed, counted, disturbed>>

CliExport(m) ==
    /\ cli
    /\ files' = [files EXCEPT ![m] = [version |-> warehouse[m], by |-> "cli"]]
    /\ UNCHANGED <<dag, tasks, warehouse, tested, exported, marker, reality, counted, disturbed>>

CliClose ==
    /\ cli
    /\ cli' = FALSE
    /\ UNCHANGED <<dag, tasks, warehouse, tested, serving, landed, counted, disturbed>>

Init ==
    /\ run = 0 /\ active = FALSE
    /\ state = [t \in Tasks |-> "none"] /\ tries = [t \in Tasks |-> 0] /\ alerts = {}
    /\ warehouse = [m \in Marts |-> 0] /\ tested = {}
    /\ files = [m \in Marts |-> NoFile] /\ exported = {} /\ marker = 0
    /\ landed = 0 /\ counted = NotCounted
    /\ cli = FALSE /\ disturbed = FALSE

Progress ==
    \/ \E t \in Tasks : Task(t)
    \/ Build \/ Test \/ ExportDone \/ CountLanded \/ CompareStaged \/ WriteMarker
    \/ \E m \in Marts : ExportMart(m)
    \/ EndRun

Next ==
    \/ Progress \/ StartRun \/ TimeOut \/ Land
    \/ CliOpen \/ CliClose \/ \E m \in Marts : CliExport(m)

(***************************************************************************)
(* Fairness: the scheduler goes on with an active run, and starts the next *)
(* one on the hour.  Nothing else has to happen, a timeout included.       *)
(***************************************************************************)
Spec == Init /\ [][Next]_vars /\ WF_vars(Progress) /\ WF_vars(StartRun)

--------------------------------------------------------------------------------
TypeOK ==
    /\ run \in 0 .. Runs /\ active \in BOOLEAN
    /\ state \in [Tasks -> {"none", "running", "up_for_retry", "success", "failed",
                            "upstream_failed", "skipped"}]
    /\ tries \in [Tasks -> Nat] /\ \A t \in Tasks : tries[t] <= Retries[t]
    /\ warehouse \in [Marts -> 0 .. Runs] /\ tested \subseteq 1 .. Runs
    /\ files \in [Marts -> [version : 0 .. Runs, by : {"nobody", "dag", "cli"}]]
    /\ exported \subseteq Marts /\ marker \in 0 .. Runs
    /\ landed \in 0 .. MaxLandings /\ counted \in 0 .. NotCounted
    /\ cli \in BOOLEAN /\ disturbed \in BOOLEAN

(***************************************************************************)
(* "Nothing untested can reach the serving layer" (rideflow_transform.py:  *)
(* 396): whatever failed, was retried, timed out or was rebuilt meanwhile, *)
(* a file the DAG wrote holds a mart that passed dbt_test.                 *)
(***************************************************************************)
NothingUntestedServed ==
    \A m \in Marts : files[m].by = "dag" => files[m].version \in tested

(***************************************************************************)
(* When the marker is written, every mart file is of the run it names and  *)
(* that run is tested and reconciled: a retry, an export that failed half  *)
(* way or a command-line export in between do not leave a mixture.         *)
(***************************************************************************)
MarkerVouches ==
    [][marker' # marker =>
          /\ \A m \in Marts : files[m].version = marker'
          /\ marker' > marker /\ marker' \in tested
          /\ state["reconcile"] = "success"]_vars

(***************************************************************************)
(* A task that fails raises one alert, once its retries are exhausted, and *)
(* nothing else raises one (rideflow_transform.py:292): a run that ends on *)
(* its own without publishing has an alert other than the documentation's, *)
(* and a critical one exactly when the data were in doubt.  Whether the    *)
(* volume takes the alert (rideflow_transform.py:239) changes none of it.  *)
(***************************************************************************)
FailureIsAlerted ==
    ~ active /\ (\A t \in Tasks : Settled(t)) =>
        /\ {a.task : a \in alerts} = {t \in Tasks : state[t] = "failed"}
        /\ \A a, b \in alerts : a.task = b.task => a = b
        /\ marker # run => \E a \in alerts : a.task # "docs"
        /\ (\E a \in alerts : a.severity = "CRITICAL")
              <=> (state["test"] = "failed" \/ state["reconcile"] = "failed")

(***************************************************************************)
(* Read-only connections exist so that a reader is in nobody's way         *)
(* (connection.py:66): a run publishes unless one of its attempts failed by*)
(* itself, the lock was contended by a writer, the run timed out, or the   *)
(* landing zone grew between the two queries of the reconciliation.        *)
(***************************************************************************)
QuietRunPublishes ==
    run > 0 /\ ~ active /\ ~ disturbed => marker = run

(***************************************************************************)
(* "An hour's failure must not block the next hour indefinitely"           *)
(* (rideflow_transform.py:281): the retries are bounded, so every run ends *)
(* and the next one starts, without the help of dagrun_timeout.            *)
(***************************************************************************)
EveryRunEnds == <>(run = Runs /\ ~ active)
================================================================================
