# RideFlow: specifications and proofs

TLA+ specifications of the RideFlow data pipeline, the TLC configurations that
check them on small instances, and TLAPS proofs that hold for every instance.
All paths below are relative to `src/`. `PROJECT.json` maps every definition
that models code to the lines it stands for.

RideFlow is a ride-hailing event pipeline. A generator produces the events of
trips and driver shifts and sends them to Kafka; a consumer group validates
them and writes Parquet files into a landing zone, with rejections going to
dead letter topics; an hourly Airflow DAG runs dbt over DuckDB to build marts
from the landing zone, tests them, exports them and publishes a marker.

```
 generator -> KafkaSink -> Kafka topics -> IngestionConsumer -> landing zone (Parquet)
                                              |                      |
                                              v                      v  (views)
                                       dead letter topics     staging -> int_* -> marts
                                                                    dbt, hourly DAG
                                                                         |
                                                  test -> export -> reconcile -> publish
```

Promises that run through the whole repository, and what the groups of modules
are about:

* *Nothing may simply vanish* (`ingestion/consumer.py:80`). Delivery is at
  least once: "Losing data is not recoverable; duplicating it is."
  (`EventDelivery`, `Ingestion`)
* *Late data is loaded, whatever failed in between*
  (`transformation/macros/incremental.sql`): the marts are incremental, yet
  agree with what has landed. (`Warehouse` and the modules it extends,
  `DriverSessions`)
* *Nothing untested can reach the serving layer*
  (`orchestration/dags/rideflow_transform.py:396`). (`Publication`)
* *Every chain is lawful by construction* (`event_generator/lifecycle.py:3`),
  and every anomaly is deliberate and labelled (`event_generator/anomalies.py:4`).
  (`Generator` and the modules it extends; `Anomalies`, `Producer`)

Reading order: `EventDelivery`, `Ingestion`; `IncrementalWindow`,
`TripAssembly`, `MartView`, `Warehouse`, `DriverSessions`; `Publication`;
`Fares`, `Surge`, `Dispatch`, `Generator`; `Anomalies`, `Producer`; then the
proof modules.

## 1. Inventory

### 1.1 Ingestion consumer group — `ingestion/consumer.py`, `config.py` (modelled)

State, per process: the assignment and positions inside the Kafka client, the
offsets stored for the next commit, the batch (`consumed`, `valid`, `dlq`,
`seen_event_ids`, its age), the statistics. Shared: the group's membership and
committed offsets, the landing zone, the dead letter topics.
Operations: `run` (the poll loop, `finally`, `close`), `handle`,
`should_flush`, `flush`, `commit`, the signal handler.
Hard: several processes of one group; a flush is many steps and any of them
can raise or be the last; an exception is followed by a second flush in
`finally`; partitions move inside `poll()`; a commit can succeed unheard.
Correct when: no committed offset passes a message that is in neither the
landing zone nor the dead letter queue, and never, whatever else fails, a valid
event that has no row; offsets never go back; the statistics
balance (N1); a graceful stop leaves nothing uncommitted; duplicates are paid
for by faults; every partition is eventually drained.

### 1.2 Dead letter producer — `ingestion/dlq.py` (partly)

State: the producer's own queue, `DlqReport` counters. Operations: `send`,
`flush(30)`, the delivery callback. Hard: asynchronous delivery, a flush that
times out, a callback that can only count. It is the part of `Ingestion` with
`dlqQueue`, `Deliver`, `DeliveryFails` and `DlqFlushed`. The content of a dead
letter document is layout.

### 1.3 Landing-zone writer — `ingestion/writer.py` (partly)

State: the files of the landing zone. Operation: `write`, one file per
`topic=/dt=/hour=` directory, temporary name then rename. Hard: some files of a
batch are renamed and the others not; `landed_at` is taken before the files
exist; nothing is synced to disk. Files, stamps and renames are in `Ingestion`
and `Warehouse`; the missing `fsync` is not (section 5).

### 1.4 Contract validation — `ingestion/validation.py`, `contract.py` (partly)

Stateless. Its three outcomes, valid, rejected and raised, are the constant
`Verdict` of `Ingestion`. `Rejection` of `Anomalies` has the checks of
`validate()` in their order, for the events this system produces; whether a
payload fits its JSON schema is one bit of the event.

### 1.5 Staging — `transformation/models/staging/` (partly)

Views: deduplication by `event_id`, first by `ingested_at` then
`kafka_offset`. Hard: a redelivered copy ties on both, so which copy, and so
which `landed_at`, survives can differ from one evaluation to the next. In
`Warehouse` (`Staged`, `StagedAt`). Typed columns are layout.

### 1.6 Incremental window — `transformation/macros/incremental.sql` (modelled)

Which landing-zone rows a run of an incremental mart looks at: normal (a
lookback from the mart's newest `dbt_loaded_at`), backfill (an explicit
half-open range), full refresh (all). Hard: it is the only thing between a late
event and oblivion.

### 1.7 Trip assembly — `transformation/models/intermediate/int_trips_assembled.sql` (partly)

A table rebuilt by every run: one row per trip from whatever events have
landed, in any order. Operators: outcome flags, inferred expiry, funnel stage,
sequence validity. Fares, coordinates, accuracy percentages and the status code
are not modelled.

### 1.8 Incremental marts — `fct_trips.sql`, `fct_trip_events.sql`, `fct_payments.sql` (modelled)

State: their rows, each stamped `dbt_loaded_at`. Operation: delete+insert of
what the window selects. Hard: four threads build models of one run at
different moments over a landing zone that grows; a model fails and its
dependents are skipped; the run is retried, killed, or followed by a backfill.
Correct when: one row per key; nothing landed is stranded behind a watermark;
nothing shown is taken back; the quality gate accepts correct data; a trip
leaves quarantine once its events are there.

### 1.9 Data tests — `transformation/tests/` (partly)

N2, N4 and the payment relationship are formulas of `Warehouse`
(`QuietRunPassesGate`). The tests on money and on timestamps are arithmetic
within one row.

### 1.10 Transform DAG — `orchestration/dags/rideflow_transform.py` (modelled)

State: task states and failed attempts, exported files, the marker, the alerts,
each kept in `_ALERTS.jsonl` or, where the volume refuses it, only printed.
Operations: freshness, deps, seed, `dbt run`, `dbt test`, export, reconcile,
publish, docs, with retries 2/2/2/3/0/3/0/2/1, `max_active_runs=1` and a 45
minute timeout. Hard: files are replaced one by one before the reconciliation
judges them; a task can be stopped half way; docs takes DuckDB's write lock
while export and reconciliation open it read-only; the reconciliation compares
two queries over a growing landing zone and has no retry. `Publication` has the whole DAG, a mart being
known by the run that built it; `Warehouse` opens up `dbt run` and the test.
Correct when: a served file was tested; the marker vouches for a consistent set
of files; a failure is alerted, once, by the task that failed; an undisturbed
run publishes; every run ends.

### 1.11 Export and connection — `warehouse/export.py`, `connection.py` (partly)

State: exported Parquet files. The export from the command line holds a
read-only connection and replaces the same files as the DAG, at any moment. Its
freshness marker is display.

### 1.12 Driver sessions — `int_driver_sessions.sql`, `fct_driver_sessions.sql` (partly)

Pairs online and offline events. Hard: the mart's window filters on the
business time `online_at`, or on the session being open, not on `landed_at`.
Correct when: an open session is closed once its offline event lands, and no
session is left out. Utilisation, revenue and trip counts are not modelled.

### 1.13 Trip lifecycle and dispatch — `event_generator/lifecycle.py`, `marketplace.py` (modelled)

State: the drivers' duty sessions with `busy_until`, the surge grid. Operations:
building the fleet, matching, occupying a driver, the event chain of each
outcome, the multiplier of a bucket. Hard: four ways through `simulate()` set
`busy_until`, once each; it is one moment that must answer for an interval; the
delays are independent draws. Correct when: no driver holds two trips; none is
idle when a request is refused; every prefix of a chain is lawful for the
warehouse; what the run summary counts is what the warehouse will infer.

### 1.14 Pricing — `event_generator/pricing.py` (modelled)

Pure decimal arithmetic, rounded component by component. Correct when the parts
of a fare add up, the split is exact, and what is charged is positive.

### 1.15 Event generation — `event_generator/generator.py`, `demand.py`, ... (partly)

Four passes in a fixed order over shared state: demand, surge, lifecycle,
anomalies; then presence events and totals. The order of the passes, the sorting
of the requests and the totals are modelled. The draws are choices from small
sets: demand curves, riders, zones and their probabilities are not.

### 1.16 Anomaly injection — `event_generator/anomalies.py` (modelled)

Orphaning, then delay or disorder, skew and damage per event, then duplication.
Hard: they combine on one event, and later ones read what earlier ones wrote.
Correct when: only what was meant to be malformed is rejected downstream; what
bears no label is untouched; a copy follows its original.

### 1.17 Kafka producer sink — `event_generator/kafka_sink.py`, `main.py` (partly)

State: the client's bounded local queue, the delivery report, the exit code.
Two topics, each partitioned by key, so order is kept within a partition only.
Hard: callbacks run inside `poll` and `flush`; a full queue is retried without
a bound; flushes time out and only the last one's result is read; `produce()`
may raise what nobody catches. Correct when: a clean report means that every
event is on its topic, once, in its partition's order; no report claims more
than happened; `write()` returns. The JSONL and stdout sinks are plain writes.

### 1.18 Direct landing sink — `ingestion/direct_landing_sink.py` (modelled)

Validates and writes without a broker. Correct when every undamaged event lands,
and no other.

### 1.19 Parts that are not modelled

* Ingestion entry point (`ingestion/main.py`): arguments and an exit code.
* Dimensions and seeds: static tables reloaded on every run.
* Dashboard and metrics (`dashboard/`, `analytics/`): read-only presentation.
* Deployment: configuration of containers and CI.
* Quality metrics are aggregates for display; which trips the quarantine view
  shows is in `TripAssembly` (`IsQuarantined`).

## 2. The modules

| Module | What it is |
| --- | --- |
| `EventDelivery` | Abstract: messages land or are quarantined, and an offset is acknowledged only when everything below it is accounted for |
| `Ingestion` | The consumer group, step by step |
| `IngestionProofs` | Type correctness; what a process has reported and committed when it stops |
| `IngestionSafety` | The inductive invariant, no event lost, at-least-once, refinement of `EventDelivery`; the bound on duplicates |
| `MCIngestion` | Logs of a few messages for TLC |
| `IncrementalWindow` | The macro, as operators |
| `TripAssembly` | `int_trips_assembled.sql` as operators on a set of events |
| `MartView` | Abstract: a mart shows only what landed, takes nothing back, and shows everything eventually |
| `Warehouse` | Staging, the models of a run, failures, retries, backfills, over a consumer that stamps, renames and loses files |
| `WarehouseProofs` | Type correctness; one row per key, refinement of `MartView`'s safety, no regress; why nothing is stranded behind a watermark |
| `MCWarehouse` | Event sets for TLC |
| `DriverSessions` | Pairing of presence events and the mart whose window is over `online_at` |
| `Publication` | The DAG: tasks, retries, alerts, the lock, the exported files, the marker; the command-line export; the landing zone growing meanwhile |
| `PublicationProofs` | Type correctness, what is served, what the marker vouches for, who is alerted, that a quiet run publishes |
| `Fares` | `pricing.py` as operators on integers of paise |
| `Surge` | The surge grid: the walk over the buckets of one zone |
| `Dispatch` | Sessions, trips one after the other, `busy_until`, chains, totals |
| `Generator` | `Dispatch` and `Surge` in the order of the passes |
| `DispatchProofs` | Type correctness, no double booking, no idle refusal, the chain and the outcome of a trip |
| `FareProofs` | Every fare and payment reconciles, the multipliers, the totals of a run |
| `Anomalies` | `inject()` on a stream, and the validator's verdict on the result |
| `Producer` | The emission of that stream through `KafkaSink`, or directly to the landing zone |
| `AnomalyProofs`, `ProducerProofs` | What an injected stream can contain; what a run's report vouches for |
| `MCDriverSessions`, `MCPublication`, `MCGenerator`, `MCProducer` | Their instances for TLC |

The two groups meet at the landing zone. `Ingestion` says which messages get a
row there and when offsets move. `Warehouse` keeps of the consumer only what a
reader of the landing zone can tell: a row is stamped (`StampRow`), its file is
renamed later (`RenameFile`) or never (`LoseFile`), and an event may have
several copies. Every landing in `Ingestion` is such a stamp and rename, so
`Warehouse` does not repeat the offsets.

Definitions named in a comment as a *mutant* are not used by any specification.
Each is a mapped definition with one plausible bug in it, and `PROJECT.json`
pairs it with the property and the run that catches it.

### 2.1 Ingestion and the code

A message is its Kafka coordinates `<<partition, offset>>`; its id, verdict and
directory are constants. The state of one process follows `consumer.py`:

| Specification | Code |
| --- | --- |
| `consumed`, `valid`, `dlq`, `aged` | `Batch`; `seen_event_ids` is the ids of `valid` |
| `pc`, `mode` | where `run()` is, and whether in the loop, in `finally` after a normal exit, or in `finally` with an exception on its way |
| `position`, `stored` | the client's positions and stored offsets (`enable.auto.offset.store`, manual commit) |
| `balance` | `polled - landed - rejected - duplicates_dropped` of `IngestionStats` |
| `HandleValid`, `HandleDuplicate`, `HandleRejected`, `HandleRaises` | the four ways through `handle()` |
| `PollNone`, `Tick`, `Stop` | the idle poll, the age trigger, and the loop's ends |
| `WriteFile` ... `PublishRejections`, `DlqFlushed`, `Commit` | `flush()` in its order |
| `WriteFails`, `PublishRaises`, `CommitRaises`, `CommitFails` | the four places where `flush()` raises: a file, a `dlq.send()` after some were queued, a commit that is refused or whose answer is lost |
| `Unwind`, `Die` | what the exception does: out of the loop, `finally` flushes again; out of `finally`, the process ends without `close()` |
| `Start`, `Rejoin`, `Assign`, `Revoke`, `ExpireDead`, `EvictLive` | the group coordinator, as `consumer.py` uses it (external) |
| `Deliver`, `DeliveryFails` | the producer's thread and `_on_delivery` |
| `Kill` | SIGKILL at any point |

Poll, validate and deduplicate are one step, since no other process can see
between them. Everything in `flush()` that touches shared state is its own step.

### 2.2 Warehouse and the code

Times are readings of one clock, shared by the consumer that stamps
`landed_at` and the database that stamps `dbt_loaded_at`, as in the deployment.

| Specification | Code |
| --- | --- |
| `writing`, `zone` | `writer.py`: stamped rows in unrenamed and in renamed files |
| `Staged`, `StagedAt`, `Landings` | `stg_trip_events.sql`: one copy per event, either of those that tie |
| `InWindow` | `incremental.sql` |
| `assembled`, `BuildAssembled` | `int_trips_assembled`, a table rebuilt from all of staging |
| `TripRow`, `IsExpired`, `FunnelStage`, `IsSequenceValid` | its columns |
| `BuildTrips`, `BuildTripEvents`, `BuildPayments` | the marts' delete+insert |
| `run`, `Ready`, `Done`, `FailModel`, `RetryRun`, `GiveUp`, `KillRun`, `TestRun` | `dbt run` under the DAG's retries and timeout, and `dbt test` |
| `StartNormal`, `StartFullRefresh`, `StartBackfill` | the run configuration |
| `swept` | auxiliary: when a mart last finished a build that was not a backfill. No guard of the code reads it, except through `Incremental` ("the table exists") and the bound `BackfillSlack` |

`BuildTrips` reads two things at two moments, as the SQL does: the trips to
revise come from staging as it is now, their rows from `int_trips_assembled` as
it was built earlier in the run. `Marts` selects which marts a run builds; the
DAG's run builds all three, a smaller set keeps a run of TLC small and is sound
for a property of those marts, since no mart reads another.

### 2.3 DriverSessions and the code

`BuildPairs` is `int_driver_sessions.sql`, `BuildSessions` the mart with its
two ways into the window (`Selected`): the macro's, over `online_at`, and the
mart's own open sessions. `InWindow` is the operator `Warehouse` uses, so the
two differ in nothing but the column the window is applied to.

### 2.4 Publication and the code

One record of state per task instance of the current run; the DAG's arrows are
`Upstream`, its trigger rules `Due` and `Skip`.

| Specification | Code |
| --- | --- |
| `Begin`, `AttemptFails`, `AttemptSucceeds`, `Skip` | Airflow's task states under `default_args` and the retries of each task; `alert_on_failure` fires with the last attempt |
| `Alert`, `Raise` | `alert_on_failure`: the alert with its level, and whether the volume kept it (`kept`) or it was only printed |
| `Fault` | a task raises, dbt exits with an error, or its worker dies |
| `HalfBuilt` | `dbt run` may have rebuilt some marts when it fails or is stopped by the run's timeout |
| `Holders`, `Collides`, `Collide` | DuckDB's lock: one writer or many readers; a refused connection is a lost attempt |
| `Build`, `Test` | `dbt_run` and `dbt_test`; a mart is the number of the run that built it |
| `ExportMart`, `ExportDone` | the loop of `export_marts_to_parquet`, one file at a time |
| `CountLanded`, `CompareStaged` | the two queries of `reconciliation_check` |
| `WriteMarker` | `publish_success_marker` |
| `StartRun`, `EndRun`, `TimeOut` | `max_active_runs`, the end of a run, `dagrun_timeout` |
| `Land` | the consumer |
| `CliOpen`, `CliExport`, `CliClose` | `python -m warehouse.export`, any time |
| `disturbed` | auxiliary, read by no guard: whether something befell the run |

### 2.5 Generator and the code

`Generator` composes `Surge` and `Dispatch` in the order of the passes of
`generate()`. Trips are simulated one after the other, each from its request to
its last event, so the time of the chain (`now`) runs ahead of the next request;
this is what `busy_until` has to cope with.

| Specification | Code |
| --- | --- |
| `Build`, `OfflineAt` | `Marketplace.build`: sessions, those extended into the window and those left open |
| `Request` | the sorted plan of the requests (`_plan_requests`) |
| `Candidates`, `IsFirst` | `find_driver`, `is_available`, `covers` |
| `Match` ... `Pay`, `Cancel*`, `NoDriver` | `simulate()` from stage to stage, with each of its returns |
| `Occupy`, `busyUntil` | `DriverSession.occupy` |
| `leases` | auxiliary: the engagements that `busy_until` is a summary of |
| `CountTrip`, `EmitPresence` | the loop and the totals of `generate()` |
| `Recalculate`, `NoDemand`, `previous` | one bucket of `compute_surge_grid`, a bucket that is not visited, and the local memory of the zone |
| `Fare`, `CheckInvariants`, `Payment` | `pricing.py` on integers of paise: `money()` is a division rounded half up |

`ChainIsLawful` and `OutcomeIsInferred` instantiate `TripAssembly`: the
producer's chain is judged by the operators that model the warehouse's SQL, not
by rules stated a second time.

### 2.6 Producer and the code

`Anomalies` draws a known-good stream and takes it through `inject()`: orphaning
of chosen correlations, then each event in turn (`Mutate`), then copies.
`Rejection` is `Validator.validate` for what such a stream can contain.
`list.sort` is `Sorted`: the k-th of the sorted stream is the event that k - 1
others are `Earlier` than, by `ingested_at` and then `event_id`, which is the
order of the code wherever no two events agree on both (none do: an id is shared
by an event and its copies only). `AnomalyAssumption` holds the ranges of the
draws: a lag of at most 12 seconds (`calibration_params.json`), a delay of at
most 90 minutes, a lead of at most 280 seconds, a copy 2 to 45 seconds later
(`config.py:63-66`), and ids that do not repeat.
`Producer` then writes it. `Lane(i)` is the topic and the partition of the i-th
event: `topic_for` by its type, and the partition of its key (`PartitionFor`, the
client's partitioner, external). A queue or a topic is the positions in the
stream of the events it holds, in the order they came. `Produce`, `QueueFull`,
`ProduceRaises`, `Poll`, `FlushServes`, `FlushEnds`, `FinalFlushEnds` and
`Verdict` are `KafkaSink.write` and the exit code of `main`: 0, 1 when an
exception leaves it, 2 when nothing was delivered. `Acknowledge` and `TimeOut`
are the client's thread and the broker, a partition at a time; with idempotence
on, a partition keeps the order it was given. `WriteDirect` is the broker-free
sink on the same stream.

## 3. The runs

Passing runs:

| Run | Shows | Instance |
| --- | --- | --- |
| `ingestion` | At-least-once, N1, the graceful stop, the price of a fault, the inductive invariant, refinement of `EventDelivery` | two processes, one partition of four messages: two directories, a repeated event id, a rejection; two faults of any kind, one stop |
| `ingestion_liveness` | Under `FairSpec` every partition is committed to its end; in a world where other messages are lost, no valid event is | two partitions, a message the validator cannot survive, a dead letter broker that may time out, one fault |
| `warehouse` | Nothing landed is stranded behind a watermark, one row per key, a quiet run passes the gate, no trip regresses; the inductive invariant | all three marts, a payment whose completion never lands, a clock of four against a lookback of one, every kind of run and failure, a backfill |
| `warehouse_liveness` | A late trip leaves quarantine for good; `fct_trips` and `fct_trip_events` implement `MartView` | a trip whose acceptance may land before its request |
| `publication` | What the DAG serves was tested, the marker vouches for one run, failures are alerted, a quiet run publishes, every run ends | two runs, two marts, the DAG's retries, one landing at any moment, the command line at any moment, an alert kept or not |
| `generator` | No driver is booked twice or idly refused, every prefix of a chain is lawful, the summary counts what the warehouse will infer, money and totals add up, surge follows scarcity | three premium drivers, one rated below the tier, three trips, four ways to cancel, a zone of three buckets |
| `producer` | Nothing but the malformed is rejected, labels and reports are true, a clean report is a complete stream in the order of each partition, the direct sink lands every undamaged event and no other, `write()` returns | three events of two correlations, up to two anomalies, both topics with a partition each, a local queue of three, flushes and deliveries that time out |

Runs that refute a claim of the repository, one property each:

| Run | Claim | What happens |
| --- | --- | --- |
| `poison_message` | "Nothing may simply vanish" (`consumer.py:80`) | a JSON list as `event_type` makes `validation.py:139` raise; `finally` flushes and commits past the message, which is nowhere |
| `dlq_outage` | "Nothing is lost - the message is quarantined in the DLQ" (`docs/kafka_design.md:250`) | `flush()` ignores what `dlq.flush(30)` returns and commits; the rejection is only in memory |
| `expired_differs` | "byte-identical marts across incremental re-run and full refresh" (`README.md:373`) | expiry depends on the newest request of all the data, a row is revised only when its own trip has new events |
| `backfill_moves_watermark` | a backfill ignores the watermark and is safe (`incremental.sql:12-16`) | its rows are stamped now; after an idle schedule the watermark passes what nobody has loaded |
| `late_session` | the window is applied to `landed_at`, "never to an event timestamp" (`incremental.sql:18-23`) | `fct_driver_sessions` applies it to `online_at`; a session that lands more than a lookback after it began is never loaded |

### Disagreements without a run

Met while modelling; each is a statement of the repository that its code does
not keep, or a corner worth knowing, for which no run of its own is kept.

Ingestion:

* `docs/kafka_design.md:127` wants the batch flushed and committed on
  revocation. No revocation callback is registered; nothing is lost, as
  `ingestion` shows, but the batch is written again by the new owner.
* The payload schemas reject unknown values of an enumeration, which step 9 of
  `validation.py`, `kafka_design.md:207` and `event_contract.md:129` let pass.

Warehouse and DAG:

* `event_sequence_number` is numbered within the window
  (`fct_trip_events.sql:58`), so it repeats when a trip's events land more than
  a lookback apart, although `_marts__models.yml:103` calls it the causal
  position.
* A backfill leaves out what landed outside its range since the last normal
  run, so N2 can fail in that run. `QuietRunPassesGate` is stated of normal runs
  and full refreshes for this reason.
* A gate failure is not always deterministic (`rideflow_transform.py:360`): a
  file renamed between the builds of two marts fails N4 on correct data
  (`fct_trips.sql:54-58` reads staging as it is then). `QuietRunPassesGate`
  asks that nothing lands during the run.
* A completed trip whose `RideAccepted` is in the dead letter queue is inferred
  expired. Two different events of one kind for one trip would fan out the joins
  of `int_trips_assembled.sql:170`.
* "Documentation failing must not block publication"
  (`rideflow_transform.py:378`): it need not fail to do so. While it holds the
  write lock, the reconciliation, which has no retry, cannot open the file.
* The reconciliation compares two queries over a landing zone that grows, so it
  too can fail on correct data. `QuietRunPublishes` counts this case and the
  previous one as disturbances: it says that nothing else stops a run, readers
  of the file and the order of the tasks among them, and catches neither.
* Files are replaced before the reconciliation has judged them, so consumers
  may have read them by then (`rideflow_transform.py:150-151` says otherwise),
  and the command-line export serves marts the gate has not seen.
* `dagrun_timeout` ends a run without an alert of any task.

Generator and producer:

* `Decimal` smoothing cannot bring a surge of 1.1 back to 1.0 (the rounding
  holds it), and the first busy bucket of a zone is not smoothed at all, so it
  can jump from 1.0 to above 3.0, which `marketplace.py:321-323` rules out. A
  bucket without demand leaves an old multiplier as the prior of a later one.
* Some damage is harmless to the schema (an optional key dropped, no money field
  to make negative): it is tagged malformed, yet is not rejected, against
  "Must land in the DLQ" (`config.py:53`). A driver's session may be tagged as
  an orphan although nothing of it was dropped.
* Ingestion lags are random, so two untagged events of a trip may arrive out of
  order, which `lifecycle.py:3-8` calls always deliberate.
* The commission is taken on a subtotal that includes the toll
  (`pricing.py:133`), which `event_contract.md:544` passes "through to the driver
  in full". The checks F1 to F5 do not see it: `FareReconciles` holds.
* `main` exits 0 when some but not all messages failed; a message that was given
  up may be on the topic all the same; `KafkaSink.close` is never called; the
  partitioned JSONL sink appends to the files of an earlier run.

### Bounds, and why they are enough

* `MaxIncidents` counts faults of any kind together. Two let a second fault
  strike the recovery from the first: a kill in the flush that `finally` runs
  after a failed commit, or a takeover that is itself evicted.
* Two processes are enough for a partition to move away and back; they are
  symmetric, and the safety run uses the symmetry (the liveness run does not).
* `BatchMax` is two, so batches fill, age half full, and hold only rejections.
* Four messages make a batch that spans two directories, a duplicate within a
  batch and across two, and a commit that is not the last.
* The clock of `warehouse` reaches four lookbacks, so that rows do leave the
  window. Its constants satisfy `WindowWideEnough` with equality, so one unit
  less in the lookback would break it; `backfill_moves_watermark` breaks it.
* `RunBound = 0` means that the clock does not advance within a run, which still
  interleaves its steps with landings. Runs that take time, and several copies
  of an event, are covered by the proofs, for all bounds.
* `MaxClock` freezes the clock at the end. The liveness properties therefore
  speak of any landing during the clock's course and of runs continuing after it.
* Two runs of `publication` let a failed run leave its marks and the next start
  from them and repair them; two marts are the least of
  which an export can do one and not the other. `MaxLandings` is one: one
  landing between the two queries is all that tells them apart.
* Three trips and three drivers let a driver be engaged, free again and engaged
  a second time while another is passed over for his rating. The delays contain
  the ones that bite: an arrival before its estimate, waits and lags of the
  least length, a shift that is over before the window opens.
* `MaxAnomalies` is two: any two of delay, skew, damage and disorder on one
  event, or a copy of what was changed. That three together (a delayed, skewed
  and copied event) still keep within the validator's bounds is shown by the
  proofs only, for any number. The values are the extremes
  `AnomalyConfig` allows, among them the longest delay and the largest skew.
* The local queue is smaller than the stream with its copies, so `Produce` meets
  a full one; two topics are the least between which an order can be lost.
* `CHECK_DEADLOCK FALSE` where the system does end: a group that has used up its
  stops and faults and drained its log, a run of the generator or of the
  producer, and the last DAG run. The warehouse never stops.

### Fairness, and why the code justifies it

`Ingestion`: a live process goes on with its loop and its flush; its clock
runs; the producer's thread delivers; the coordinator expires dead members and
assigns free partitions; a process that ended is started again. The last is an
assumption on whoever runs the consumer, which is a command of its own
(`README.md:203`) that no compose file supervises; without it a partition whose
last process died stays undrained. All of it is weak fairness. Nothing makes a
fault happen or not happen; their number is bounded.

`Warehouse`: Airflow keeps starting the hourly run (strong, since a run in
progress disables it); the run's next build and the test that closes it happen
(weak); a failed run's retries come to an end (strong: `dbt_run` has three); and
each model, tried by normal runs again and again, does not fail for ever
(strong). Nothing is assumed of the consumer: an event that never becomes
readable owes nothing to the marts.

`Publication`: the scheduler goes on with an active run, in any order, and starts
the next one (both weak). `EveryRunEnds` needs no timeout: retries are bounded,
and every attempt ends. A task that hangs for ever is what `dagrun_timeout` is
for, and is not assumed away but covered by `TimeOut`, which no fairness forces.

`Producer`: the process runs on, and the client settles every queued message,
acknowledged or given up after `delivery.timeout.ms` (both weak). That is why
the loop that retries a full queue ends although the code sets it no bound.
That `produce()` raises is neither promised nor excluded.

## 4. What is proved

TLAPS proves the following for every value of the constants.

**Ingestion**, for any number of processes, partitions and messages, any batch
size, and any number of faults and stops:

* `IngestionProofs!TypeCorrect`.
* `IngestionProofs!StatisticsReconcile`: invariant N1 when `run()` returns its
  statistics, and only then (`ReconcilesAtReturn`). A second flush of a batch
  follows an exception, after which `run()` returns nothing: the rows it counts
  twice are in no reported statistics, and no claim is made of them.
* `IngestionProofs!GracefulStopsCommit` (`GracefulStopCommits`).
* `IngestionSafety!DuplicatesAreBounded`: a message has at most one copy and two
  more for each fault.
* `IngestionSafety!InvariantHolds`, and from it `EventsAreNeverLost`: no offset is
  committed past a valid event that has no row (`NoEventLost`), even if
  `validate()` raises on its neighbours and every rejection is lost.
* `IngestionSafety!AtLeastOnce`: `CommittedAccounted` is an invariant.
* `IngestionSafety!ImplementsDelivery`: `Ingestion` implements `EventDelivery`.

The last two assume `Dependable`, that the validator raises on no message and
the dead letter broker answers in time; the others assume nothing. Both halves
are needed, as the runs `poison_message` and `dlq_outage` show, and
`EventsAreNeverLost` says how far the damage goes: it is never an event. One
invariant, `Inv`, serves both worlds. It speaks of the messages in `Safe`, which
are all of them in a dependable world and the valid ones in any other.
`CommittedAccounted` is far from inductive: it says nothing of a process about to
commit. `Inv` adds, for each process, that what it polled of its partitions is accounted for or in hand
(`PolledAccounted`), how far its flush has come (`FlushOrdered`: a directory is
still to do or its rows have landed; rejections, in a dependable world, are
queued or delivered), that
it may commit only partitions it has, and as a member never behind what is
committed (`OffsetsOrdered`), and, of the group, that two members never share a
partition (`OwnersDisjoint`). The proof goes action by action; an evicted
process may go on with its flush because its commit needs membership, and may
join again only with nothing assigned.

A process that stops needs an invariant of its own, `StopInv`: outside a flush
and the loop the batch is empty, `balance` is what the open batch owes
(`BalanceTracked`), and a partition with nothing stored is committed up to the
position of the member that has it (`StoredTracked`). The bound on duplicates is
an account. `CopiesInv` gives each message claims: one if nobody has it in hand
and no offset is past it, one for each process that will write it, two if that
process's commit is going to be refused and `finally` will flush again. Claims
and copies together are at most `1 + 2 * incidents`: a step that is no fault
passes a claim on or turns it into a copy, and a fault adds two at most.

**Warehouse**, for any finite set of events, any subset of the marts where
nothing else is said, and any bounds:

* `WarehouseProofs!TypeCorrect`.
* `WarehouseProofs!OneRow`: one row per key in each mart, always.
* `WarehouseProofs!TripsAreView`, `EventsAreView`, `PaymentsAreView`: each mart
  implements the safety half of `MartView`: only landed events, none taken back.
* `WarehouseProofs!NeverRegress`: a trip's funnel stage never goes back.
* `WarehouseProofs!InvariantHolds` and `NoneStranded`: no watermark passes a
  landed event that its mart does not show.
* `WarehouseProofs!QuietRunPasses`: with all three marts, a completed normal run
  or full refresh during which nothing landed passes N2, N4 and the payment
  relationship.

The last three results assume

    WindowWideEnough == MaxStall + 2 * RunBound + BackfillSlack <= Lookback

where `MaxStall` is the longest time from stamping a row to its file being
readable, `RunBound` the DAG's timeout and `BackfillSlack` the longest time the
schedule has been idle when an operator backfills. The deployment has 48 hours
against minutes, twice 45 minutes, and the slack: the assumption says what an
operator owes the marts before a backfill. The argument measures everything from
a mart's last sweep: its newest stamp is at most `RunBound + BackfillSlack` after it (a backfill may
have stamped rows since), an event it does not show was stamped at most
`MaxStall + RunBound` before it (it became readable after the run had looked),
so a lookback of the sum still reaches the event. For `fct_trips` the event may
also have been readable too late for `int_trips_assembled`, which is built
earlier in the same run (`SnapshotRecent`). The failure, retry or kill of a
model leaves its sweep where it was.

**Publication**, for any number of runs, marts, landings and retries
(`PublicationProofs`):

* `TypeCorrect`, in which is that no task is tried more often than it may be.
* `TestedBeforeServed`: a file the DAG wrote holds a mart that passed `dbt_test`.
* `MarkerIsOneRun`: when the marker is written, all files are of that run,
  tested and reconciled, exports from the command line notwithstanding.
* `FailuresAreAlerted`: the alerts of a run that ended on its own are those of
  its failed tasks; an unpublished run has raised one, a critical one exactly
  when the gate or the reconciliation failed. Raised is what is claimed: where
  the volume refuses the line, the alert is in the log only and
  `_ALERTS.jsonl` says nothing of the run (`rideflow_transform.py:235-240`).
* `QuietRunsPublish`: a run that nothing befell is published.

None of these is inductive: they do not say what stands between the build and
the marker. `PublicationInv` adds that a task that has begun has its upstream
tasks behind it (`Ordered`), that a task given up has one before it to blame
(`Blamed`), that the alerts are those of the failed tasks (`Alerted`), and that
what a running export has written is of this run (`ExportSound`). Success is
final, so while the export is at work or done nothing rebuilds the warehouse,
and whoever replaces a file writes this run's version. The proof reduces every
step of a task to one move of one instance (`Moves`), and shows once what any
move preserves. `QuietRunsPublish` needs the history of a run (`Smooth`): while
nothing has disturbed it every task is waiting, running or done (none has failed
or been skipped), the count the reconciliation holds is that of the landing zone
as it is, and when the run is over every task has succeeded. A refused lock has
a writer on one side, and a writer's collision is a disturbance
(`CollisionDisturbs`), so an undisturbed run meets none.

**Generator**, for any fleet, number of trips, delays, tariff and quotes:

* `DispatchProofs!GeneratorDispatches`: the generator implements `Dispatch`, so
  what is proved of the one holds of the other. `TypeCorrect` follows so.
* `DispatchProofs!NeverDoubleBooked`, `NeverRefusedIdly`: no session is on two
  trips at a time, and a request is refused only when every eligible driver on
  duty is engaged at that moment.
* `DispatchProofs!ChainsAreLawful` and `OutcomesAreInferred`: any prefix of a
  trip's chain passes the warehouse's rules and is in causal order, and what the
  warehouse infers of a finished trip is what the run summary counted.
* `FareProofs!FaresReconcile`: no fare fails the checks that would abort the run,
  each splits without drift, and each payment charges a positive amount.
* `FareProofs!MultipliersInGrid`, `SurgeGrowsWithScarcity`,
  `SurgeFollowsScarcity`: every multiplier is a step of the grid, follows
  scarcity in both directions, and moves from the last one towards what scarcity
  calls for.
* `FareProofs!RunsBalance`: the totals of a run and of every `DriverOffline` are
  those of the trips.

The first two rest on `DispatchInv`: every engagement lies before the session's
`busy_until` and began at a request no later than the current one
(`LeasesInOrder`), and `busy_until` is the end of one of them (`BusyIsLeased`).
So one moment stands for the whole list. They need `DispatchAssumption` (times
are not negative, durations are positive). Money needs two more: `TariffAssumption`
(rates are not negative, a commission is at most the whole, a booking fee is at
least six paise, the least fare of which the largest discount leaves something)
and `QuotesAssumption` (no surge multiplier is below one). The argument is that
a rounded quotient is within half a paisa and that sums are taken of rounded
parts.

`ChainInv` says which kinds of event a trip has at each stage, that none is
later than the trip's clock, and in what order they are; since every event is
put at the clock or after it, what is emitted last comes last. `BalanceInv`
relates the totals to the engagements (`leases`): a completed trip has exactly
one that is marked so. The surge results need `SurgeAssumption`, in which is that
the floor is at least 1.0, so that a bucket with too few requests, which gets
1.0, is not dearer than a busy one. Monotonicity goes factor by factor: division
rounded down, the weighted mean with the prior, the clamps and the half-even
rounding each keep the order (`MultiplierGrows`). `MultipliersInGrid` proves the
half of `SurgeInGrid` that is about the grid; the half about the quotes of
`Dispatch` is the assumption `QuotesAreInGrid`, which is what `surge_for` does.

**Producer**, for any chain of events with ids of their own, any draws in the
ranges of `AnomalyAssumption`, any queue size and any flush interval:

* `ProducerProofs!ProducerTypeCorrect`.
* `RejectsAreDeliberate`, `ChangesAreLabelled`, `CopiesComeLater`: the consumer
  rejects only what was malformed on purpose, what has no label is untouched and
  the report accounts for the rest, a copy is behind its original.
* `CleanReportsAreComplete`, `ReportsAreHonest`: what a delivery report and an
  exit code vouch for.
* `DirectSinkLandsTheRest`: what the broker-free sink does with the same stream.

`AnomalyInv` (`AnomalyProofs`) says that events are told apart by their id and
by whether they are copies (`Distinct`), that what the loop has not come to is as
the lifecycle made it, and that the drift of any event is between -280 and 5412
seconds before the copies and 5457 after, against the validator's -300 and a
week; so an event without damage is valid. `SortedMoves` is the lemma the rest leans on: sorting is a permutation that
puts an earlier event first, proved from the ranks without induction. Emission
adds that every message handed over is counted once or outstanding (`Balanced`),
that in each partition the topic followed by the queue keeps the order of the
stream (`Ordered`), and that while nothing failed the two hold every event that
was produced, once (`Faithful`). No order between partitions is claimed, for the
code gives none.

TLC evaluates every assumption on the constants of the runs.

### Only model-checked

Liveness (`EventuallyDrained`, `LeavesQuarantine`, `EveryRunEnds`,
`WriteReturns`, and the eventual half of the refinements of `MartView`) is
beyond the prover, which handles neither fairness nor ENABLED.
Every invariant that a passing run checks is stated by a theorem. The five
refuted claims have none: they are false.

Two things are assumed where one could wish for more. The quotes of a trip are
in the grid by `QuotesAreInGrid`, not because `Dispatch` looks them up: it draws
them. And the samplers stay inside the ranges of their configuration.

The modules with theorems contain no recursion and take their sums and orders
from cardinalities, which the prover knows.

### Abstractions worth knowing

* A renamed file is durable. The code does not sync files or directories, so a
  power loss is outside the models.
* A poll that returns an error event is no poll. The code skips the flush check
  on one (`consumer.py:297`), so `EventuallyDrained` assumes that errors end.
* `TripAssembly` takes sets, so two different events of one kind for one trip
  are one; the generator never makes two.
* The clock of the consumer and of the database is the same.
* The three retries of `dbt_run` are any number of retries in `Warehouse`, and
  exactly three in `Publication`.
* A mart is the number of the run that built it in `Publication`; what is in it
  is `Warehouse`'s. `dbt_test` passes or fails at will there.
* `Surge` walks one zone. Zones share nothing but the loop.
* Random draws are choices from sets of representative values, which contain
  the extremes; their probabilities are not modelled.
* A payload fits its schema or does not: one bit.
* librdkafka, Airflow's scheduler, DuckDB's lock and the group coordinator are
  modelled from how the code uses them, and marked external in the map where a
  definition has no line of its own.

## 5. Plan

What is left, the most important first.

1. Session attribution and measures in `DriverSessions`: the trip counts of
   closed sessions are frozen, and trips are attributed on `accepted_at`. A
   passing run of what sessions do guarantee, under a lookback wider than the
   longest delay.
2. A power loss between rename and commit in `Ingestion`: which files survive an
   unsynced rename is a property of the file system, so this needs a model of
   one.
3. Composition of `Producer` and `Ingestion` at the topic: the drift that the
   injector produces against the bounds the validator tolerates, with redelivery
   in between.
4. Proofs: the step from `DispatchInv` to a `Dispatch` that looks its quotes up
   in the grid, which would turn `QuotesAreInGrid` into a theorem; what sessions
   guarantee under a wide lookback (item 1).
5. The money of a trip in the warehouse (N3, `fct_payments`), against `Fares`.
