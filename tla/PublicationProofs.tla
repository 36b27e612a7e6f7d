--------------------------- MODULE PublicationProofs ---------------------------
(***************************************************************************)
(* The hourly transform, proved for any number of runs, marts, landings    *)
(* and retries: what the DAG serves was tested, what the marker vouches    *)
(* for is one tested and reconciled run, and who is alerted.               *)
(*                                                                         *)
(* The argument.  Within a run a task that has begun has all its upstream  *)
(* tasks behind it, and success is final (Ordered).  So while the export   *)
(* is at work or done, nothing rebuilds the warehouse, which is of this    *)
(* run and tested: whoever replaces a file meanwhile, the command line     *)
(* included, writes this run's version.  And while nothing befalls the run *)
(* none of its attempts fails (Smooth), so it ends by publishing.          *)
(***************************************************************************)
EXTENDS Publication, TLAPS

USE PublicationAssumption DEF PublicationAssumption

States == {"none", "running", "up_for_retry", "success", "failed", "upstream_failed", "skipped"}
Begun  == {"running", "up_for_retry", "success", "failed"}

\* Nothing happens before the first run.
NoneYet == run = 0 => ~ active /\ \A t \in Tasks : state[t] = "none"

\* A task that has begun, docs apart, has its upstream tasks behind it.
Ordered ==
    \A t \in Tasks \ {"docs"} :
        state[t] \in Begun => \A u \in Upstream(t) : state[u] = "success"

\* A task is given up only on account of one before it that failed or was given up.
Blamed ==
    \A t \in Tasks : state[t] = "upstream_failed" =>
        /\ t # "docs"
        /\ \E u \in Upstream(t) : state[u] \in {"failed", "upstream_failed"}

\* The alerts of the run are those of its failed tasks, one of each.
Alerted ==
    /\ \A a \in alerts :
          /\ a.task \in Tasks /\ state[a.task] = "failed" /\ a.severity = Severity(a.task)
          /\ \A b \in alerts : a.task = b.task => a = b
    /\ \A t \in Tasks : state[t] = "failed" => \E a \in alerts : a.task = t

Chained == NoneYet /\ Ordered /\ Blamed /\ Alerted

BuiltByRun == state["run"] = "success" => \A m \in Marts : warehouse[m] = run
TestedRun  == state["test"] = "success" => run \in tested

\* What the export has written is of this run, and stays so.
ExportSound ==
    /\ state["export"] = "running" => \A m \in exported : files[m].version = run
    /\ state["export"] = "success" => \A m \in Marts : files[m].version = run

MarkerSound ==
    /\ marker <= run
    /\ run > 0 => (marker = run <=> state["publish"] = "success")

Gated == BuiltByRun /\ TestedRun /\ ExportSound /\ NothingUntestedServed /\ MarkerSound

PublicationInv == TypeOK /\ Chained /\ Gated

--------------------------------------------------------------------------------
(* Tasks and their order *)

LEMMA UpstreamIsBefore ==
    ASSUME NEW t \in Tasks
    PROVE  Upstream(t) \subseteq Tasks /\ t \notin Upstream(t)
BY DEF Tasks, Upstream

\* While the export is at work or done, the gate has let this run through.
LEMMA Gate ==
    ASSUME PublicationInv, state["export"] \in {"running", "success"}
    PROVE  /\ state["run"] = "success" /\ state["test"] = "success"
           /\ run \in tested /\ \A m \in Marts : warehouse[m] = run
<1>1. state["test"] = "success"
  BY DEF PublicationInv, Chained, Ordered, Tasks, Upstream, Begun
<1>2. state["run"] = "success"
  BY <1>1 DEF PublicationInv, Chained, Ordered, Tasks, Upstream, Begun
<1> QED BY <1>1, <1>2 DEF PublicationInv, Gated, BuiltByRun, TestedRun

\* When the marker is written, the run is reconciled and its export complete.
LEMMA PublishIsLast ==
    ASSUME PublicationInv, state["publish"] = "running"
    PROVE  /\ state["reconcile"] = "success" /\ state["export"] = "success"
           /\ run > 0 /\ marker < run
<1>1. state["reconcile"] = "success"
  BY DEF PublicationInv, Chained, Ordered, Tasks, Upstream, Begun
<1>2. state["export"] = "success"
  BY <1>1 DEF PublicationInv, Chained, Ordered, Tasks, Upstream, Begun
<1>3. run > 0
  BY DEF PublicationInv, Chained, NoneYet, TypeOK, Tasks
<1> QED BY <1>1, <1>2, <1>3 DEF PublicationInv, Gated, MarkerSound, TypeOK

(***************************************************************************)
(* Every step of a task moves one instance from an unsettled state to v,   *)
(* with its upstream tasks behind it or one of them to blame, and alerts   *)
(* when it fails for good.                                                 *)
(***************************************************************************)
Moves(t, v) ==
    /\ v \in States \ {"none", "skipped"}
    /\ state[t] \in {"none", "running", "up_for_retry"}
    /\ run > 0
    /\ state' = [state EXCEPT ![t] = v]
    /\ v \in Begun /\ t # "docs" => \A u \in Upstream(t) : state[u] = "success"
    /\ v = "upstream_failed" =>
          /\ t # "docs"
          /\ \E u \in Upstream(t) : state[u] \in {"failed", "upstream_failed"}
    /\ v = "failed" => Raise(t)
    /\ v # "failed" => alerts' = alerts

LEMMA MoveKeepsChain ==
    ASSUME PublicationInv, NEW t \in Tasks, NEW v, Moves(t, v), run' = run
    PROVE  state' \in [Tasks -> States] /\ Chained'
<1>1. state \in [Tasks -> States]
  BY DEF PublicationInv, TypeOK, States
<1>2. state' \in [Tasks -> States] /\ state'[t] = v
  BY <1>1 DEF Moves
<1>3. \A x \in Tasks : x # t => state'[x] = state[x]
  BY <1>1 DEF Moves
<1>4. NoneYet'
  BY DEF Moves, NoneYet, PublicationInv, TypeOK
<1>5. Ordered'
  <2> SUFFICES ASSUME NEW x \in Tasks \ {"docs"}, state'[x] \in Begun, NEW u \in Upstream(x)
               PROVE  state'[u] = "success"
    BY DEF Ordered, Upstream
  <2>1. u \in Tasks /\ u # x
    BY UpstreamIsBefore
  <2>2. state[u] = "success"
    BY <1>2, <1>3 DEF Moves, PublicationInv, Chained, Ordered
  <2>3. u # t
    BY <2>2 DEF Moves
  <2> QED BY <1>3, <2>1, <2>2, <2>3
<1>6. Blamed'
  <2> SUFFICES ASSUME NEW x \in Tasks, state'[x] = "upstream_failed"
               PROVE  /\ x # "docs"
                      /\ \E u \in Upstream(x) : state'[u] \in {"failed", "upstream_failed"}
    BY DEF Blamed, Upstream
  <2>1. /\ x # "docs"
        /\ \E u \in Upstream(x) : state[u] \in {"failed", "upstream_failed"}
    BY <1>2, <1>3 DEF Moves, PublicationInv, Chained, Blamed
  <2>2. PICK u \in Upstream(x) : state[u] \in {"failed", "upstream_failed"}
    BY <2>1
  <2>3. u \in Tasks /\ u # t
    BY <2>2, UpstreamIsBefore DEF Moves
  <2> QED BY <1>3, <2>1, <2>2, <2>3
<1>7. Alerted'
  <2>1. Alerted
    BY DEF PublicationInv, Chained
  <2>2. CASE v = "failed"
    <3>1. PICK kept \in BOOLEAN : alerts' = alerts \cup {Alert(t, kept)}
      BY <2>2 DEF Moves, Raise
    <3>2. Alert(t, kept).task = t /\ Alert(t, kept).severity = Severity(t)
      BY DEF Alert
    <3>3. \A a \in alerts : a.task \in Tasks /\ a.task # t /\ state'[a.task] = "failed"
      BY <1>3, <2>1 DEF Alerted, Moves
    <3>4. \A a \in alerts' :
            /\ a.task \in Tasks /\ state'[a.task] = "failed" /\ a.severity = Severity(a.task)
            /\ \A b \in alerts' : a.task = b.task => a = b
      BY <1>2, <2>1, <2>2, <3>1, <3>2, <3>3 DEF Alerted
    <3>5. \A x \in Tasks : state'[x] = "failed" => \E a \in alerts' : a.task = x
      BY <1>3, <2>1, <3>1, <3>2 DEF Alerted
    <3> QED BY <3>4, <3>5 DEF Alerted, Severity
  <2>3. CASE v # "failed"
    <3>1. alerts' = alerts /\ \A x \in Tasks : state'[x] = "failed" <=> state[x] = "failed"
      BY <1>2, <1>3, <2>3 DEF Moves
    <3> QED BY <2>1, <3>1 DEF Alerted, Severity
  <2> QED BY <2>2, <2>3
<1> QED BY <1>2, <1>4, <1>5, <1>6, <1>7 DEF Chained

\* A step that moves no task keeps them in order.
LEMMA NoMoveKeepsChain ==
    ASSUME PublicationInv, UNCHANGED <<run, state, alerts>>, active' => active
    PROVE  Chained'
<1>1. NoneYet'
  BY DEF PublicationInv, Chained, NoneYet
<1>2. Ordered'
  BY DEF PublicationInv, Chained, Ordered, Upstream
<1>3. Blamed'
  BY DEF PublicationInv, Chained, Blamed, Upstream
<1>4. Alerted'
  BY DEF PublicationInv, Chained, Alerted, Severity
<1> QED BY <1>1, <1>2, <1>3, <1>4 DEF Chained

--------------------------------------------------------------------------------
(* What is served *)

(***************************************************************************)
(* A move that writes neither a file nor the marker.                       *)
(***************************************************************************)
LEMMA MoveKeepsGate ==
    ASSUME PublicationInv, NEW t \in Tasks, NEW v, Moves(t, v),
           UNCHANGED <<run, tested, files, marker>>,
           v = "success" => t \notin {"run", "test", "export", "publish"},
           warehouse' = warehouse \/ t = "run",
           exported' = exported \/ t = "export",
           t = "export" /\ v = "running" => exported' = {}
    PROVE  Gated'
<1>1. state \in [Tasks -> States]
  BY DEF PublicationInv, TypeOK, States
<1>2. /\ state'[t] = v /\ state[t] # "success"
      /\ \A x \in Tasks : x # t => state'[x] = state[x]
  BY <1>1 DEF Moves
<1>3. {"run", "test", "export", "publish"} \subseteq Tasks
  BY DEF Tasks
<1>4. BuiltByRun'
  BY <1>2, <1>3 DEF BuiltByRun, PublicationInv, Gated
<1>5. TestedRun'
  BY <1>2, <1>3 DEF TestedRun, PublicationInv, Gated
<1>6. ExportSound'
  BY <1>2, <1>3 DEF ExportSound, PublicationInv, Gated
<1>7. NothingUntestedServed'
  BY DEF NothingUntestedServed, PublicationInv, Gated
<1>8. MarkerSound'
  BY <1>2, <1>3 DEF MarkerSound, PublicationInv, Gated
<1> QED BY <1>4, <1>5, <1>6, <1>7, <1>8 DEF Gated

(***************************************************************************)
(* A step that moves no task, but may write files of the warehouse as it   *)
(* is; only the DAG's own export says that they are the DAG's.             *)
(***************************************************************************)
LEMMA FilesKeepGate ==
    ASSUME PublicationInv, UNCHANGED <<run, state, warehouse, tested, marker>>,
           NEW m \in Marts, NEW who \in {"dag", "cli"},
           who = "dag" => state["export"] = "running",
           files' = [files EXCEPT ![m] = [version |-> warehouse[m], by |-> who]],
           exported' \in {exported, exported \cup {m}}
    PROVE  Gated'
<1>1. files \in [Marts -> [version : 0 .. Runs, by : {"nobody", "dag", "cli"}]]
  BY DEF PublicationInv, TypeOK
<1>2. /\ files'[m].version = warehouse[m] /\ files'[m].by = who
      /\ \A n \in Marts : n # m => files'[n] = files[n]
  BY <1>1
<1>3. ASSUME state["export"] \in {"running", "success"} PROVE warehouse[m] = run
  BY <1>3, Gate
<1>4. ExportSound'
  BY <1>2, <1>3 DEF ExportSound, PublicationInv, TypeOK, Gated
<1>5. who = "dag" => warehouse[m] \in tested
  BY Gate
<1>6. NothingUntestedServed'
  BY <1>2, <1>5 DEF NothingUntestedServed, PublicationInv, Gated
<1>7. BuiltByRun' /\ TestedRun'
  BY DEF PublicationInv, Gated, BuiltByRun, TestedRun
<1>8. MarkerSound'
  BY DEF PublicationInv, Gated, MarkerSound
<1> QED BY <1>4, <1>6, <1>7, <1>8 DEF Gated

\* A step that touches nothing the invariant speaks of.
LEMMA QuietKeepsInv ==
    ASSUME PublicationInv, UNCHANGED <<run, active, state, tries, alerts, warehouse, tested,
                                       files, exported, marker>>,
           landed' \in 0 .. MaxLandings, counted' \in 0 .. NotCounted,
           cli' \in BOOLEAN, disturbed' \in BOOLEAN
    PROVE  PublicationInv'
<1>1. TypeOK'
  BY DEF PublicationInv, TypeOK
<1>2. Chained'
  BY NoMoveKeepsChain
<1>3. Gated'
  BY DEF PublicationInv, Gated, BuiltByRun, TestedRun, ExportSound, NothingUntestedServed,
         MarkerSound
<1> QED BY <1>1, <1>2, <1>3 DEF PublicationInv

--------------------------------------------------------------------------------
(* The steps *)

LEMMA PublicationInit == Init => PublicationInv
<1> SUFFICES ASSUME Init PROVE PublicationInv
  OBVIOUS
<1>1. TypeOK
  <2>1. NoFile \in [version : 0 .. Runs, by : {"nobody", "dag", "cli"}]
    BY DEF NoFile
  <2>2. files \in [Marts -> [version : 0 .. Runs, by : {"nobody", "dag", "cli"}]]
    BY <2>1 DEF Init
  <2>3. tries \in [Tasks -> Nat] /\ \A t \in Tasks : tries[t] <= Retries[t]
    BY DEF Init
  <2>4. warehouse \in [Marts -> 0 .. Runs]
    BY DEF Init
  <2>5. state \in [Tasks -> States]
    BY DEF Init, States
  <2>6. /\ run \in 0 .. Runs /\ tested \subseteq 1 .. Runs
        /\ exported \subseteq Marts /\ marker \in 0 .. Runs
        /\ landed \in 0 .. MaxLandings /\ counted \in 0 .. NotCounted
    BY DEF Init, NotCounted
  <2>7. active \in BOOLEAN /\ cli \in BOOLEAN /\ disturbed \in BOOLEAN
    BY DEF Init
  <2> QED BY <2>2, <2>3, <2>4, <2>5, <2>6, <2>7 DEF TypeOK, States
<1>2. Chained
  BY DEF Init, Chained, NoneYet, Ordered, Blamed, Alerted, Begun
<1>3. Gated
  BY DEF Init, Gated, BuiltByRun, TestedRun, ExportSound, NothingUntestedServed, MarkerSound,
         NoFile, Tasks
<1> QED BY <1>1, <1>2, <1>3 DEF PublicationInv

\* AttemptFails is a move, from a running task or one that is due.
LEMMA FailureMoves ==
    ASSUME PublicationInv, NEW t \in Tasks, state[t] = "running" \/ Due(t), AttemptFails(t)
    PROVE  /\ tries' \in [Tasks -> Nat] /\ \A x \in Tasks : tries'[x] <= Retries[x]
           /\ Moves(t, "up_for_retry") \/ Moves(t, "failed")
<1>1. /\ state[t] \in {"none", "running", "up_for_retry"} /\ run > 0
      /\ t # "docs" => \A u \in Upstream(t) : state[u] = "success"
  BY DEF Due, PublicationInv, TypeOK, Chained, NoneYet, Ordered, Begun
<1>2. tries \in [Tasks -> Nat] /\ \A x \in Tasks : tries[x] <= Retries[x]
  BY DEF PublicationInv, TypeOK
<1>3. CASE tries[t] < Retries[t]
  <2>1. state' = [state EXCEPT ![t] = "up_for_retry"] /\ alerts' = alerts
        /\ tries' = [tries EXCEPT ![t] = @ + 1]
    BY <1>2, <1>3 DEF AttemptFails
  <2>2. Moves(t, "up_for_retry")
    BY <1>1, <2>1 DEF Moves, States
  <2> QED BY <1>2, <1>3, <2>1, <2>2
<1>4. CASE tries[t] = Retries[t]
  <2>1. /\ state' = [state EXCEPT ![t] = "failed"] /\ tries' = [tries EXCEPT ![t] = 0]
        /\ Raise(t)
    BY <1>2, <1>4 DEF AttemptFails
  <2>2. Moves(t, "failed")
    BY <1>1, <2>1 DEF Moves, States
  <2> QED BY <1>2, <2>1, <2>2
<1> QED BY <1>3, <1>4 DEF AttemptFails

LEMMA SuccessMoves ==
    ASSUME PublicationInv, NEW t \in Tasks, AttemptSucceeds(t)
    PROVE  /\ tries' \in [Tasks -> Nat] /\ \A x \in Tasks : tries'[x] <= Retries[x]
           /\ Moves(t, "success") /\ state'[t] = "success"
           /\ \A x \in Tasks : x # t => state'[x] = state[x]
<1>1. /\ state \in [Tasks -> States] /\ run > 0
      /\ t # "docs" => \A u \in Upstream(t) : state[u] = "success"
  BY DEF AttemptSucceeds, PublicationInv, TypeOK, States, Chained, NoneYet, Ordered, Begun
<1>2. tries \in [Tasks -> Nat] /\ \A x \in Tasks : tries[x] <= Retries[x]
  BY DEF PublicationInv, TypeOK
<1>3. tries' \in [Tasks -> Nat] /\ \A x \in Tasks : tries'[x] <= Retries[x]
  BY <1>2 DEF AttemptSucceeds
<1>4. Moves(t, "success")
  BY <1>1 DEF AttemptSucceeds, Moves, States
<1> QED BY <1>1, <1>3, <1>4 DEF AttemptSucceeds

\* A move that writes neither a file nor the marker keeps the invariant.
LEMMA MoveKeepsInv ==
    ASSUME PublicationInv, NEW t \in Tasks, NEW v, Moves(t, v),
           UNCHANGED <<dag, tested, files, marker, reality>>,
           v = "success" => t \notin {"run", "test", "export", "publish"},
           warehouse' \in [Marts -> 0 .. Runs], warehouse' = warehouse \/ t = "run",
           exported' \in {exported, {}}, exported' = exported \/ t = "export",
           t = "export" /\ v = "running" => exported' = {},
           tries' \in [Tasks -> Nat], \A x \in Tasks : tries'[x] <= Retries[x],
           counted' \in 0 .. NotCounted, disturbed' \in BOOLEAN
    PROVE  PublicationInv'
<1>0. UNCHANGED <<run, active, tested, files, marker, landed, cli>>
  BY DEF dag, reality
<1>1. state' \in [Tasks -> States] /\ Chained'
  BY <1>0, MoveKeepsChain
<1>2. Gated'
  BY <1>0, MoveKeepsGate
<1>3. TypeOK'
  BY <1>0, <1>1 DEF PublicationInv, TypeOK, States
<1> QED BY <1>1, <1>2, <1>3 DEF PublicationInv

LEMMA BeginKeepsInv ==
    ASSUME PublicationInv, NEW t \in Tasks, Begin(t)
    PROVE  PublicationInv'
<1>1. /\ state[t] \in {"none", "up_for_retry"} /\ run > 0
      /\ t # "docs" => \A u \in Upstream(t) : state[u] = "success"
  BY DEF Begin, Due, PublicationInv, TypeOK, Chained, NoneYet
<1>2. Moves(t, "running")
  BY <1>1 DEF Begin, Moves, States
<1>3. counted' \in 0 .. NotCounted
  BY DEF Begin, PublicationInv, TypeOK, NotCounted
<1>4. UNCHANGED <<dag, tested, files, marker, reality, tries, warehouse, disturbed>>
  BY DEF Begin
<1>5. exported' \in {exported, {}} /\ (exported' = exported \/ t = "export")
      /\ (t = "export" => exported' = {})
  BY DEF Begin
<1>6. /\ tries \in [Tasks -> Nat] /\ \A x \in Tasks : tries[x] <= Retries[x]
      /\ warehouse \in [Marts -> 0 .. Runs] /\ disturbed \in BOOLEAN
  BY DEF PublicationInv, TypeOK
<1> QED BY <1>2, <1>3, <1>4, <1>5, <1>6, MoveKeepsInv

LEMMA CollideKeepsInv ==
    ASSUME PublicationInv, NEW t \in Tasks, Collide(t)
    PROVE  PublicationInv'
<1>1. Moves(t, "up_for_retry") \/ Moves(t, "failed")
  BY FailureMoves DEF Collide
<1>2. tries' \in [Tasks -> Nat] /\ \A x \in Tasks : tries'[x] <= Retries[x]
  BY FailureMoves DEF Collide
<1>3. UNCHANGED <<dag, tested, files, marker, reality, warehouse, exported, counted>>
  BY DEF Collide, serving
<1>4. disturbed' \in BOOLEAN
  BY DEF Collide, PublicationInv, TypeOK
<1>5. warehouse \in [Marts -> 0 .. Runs] /\ counted \in 0 .. NotCounted
  BY DEF PublicationInv, TypeOK
<1>6. CASE Moves(t, "up_for_retry")
  BY <1>2, <1>3, <1>4, <1>5, <1>6, MoveKeepsInv
<1>7. CASE Moves(t, "failed")
  BY <1>2, <1>3, <1>4, <1>5, <1>7, MoveKeepsInv
<1> QED BY <1>1, <1>6, <1>7

LEMMA SkipKeepsInv ==
    ASSUME PublicationInv, NEW t \in Tasks, Skip(t)
    PROVE  PublicationInv'
<1>1. run > 0
  BY DEF Skip, PublicationInv, TypeOK, Chained, NoneYet
<1>2. Moves(t, "upstream_failed")
  BY <1>1 DEF Skip, Moves, States, Begun
<1>3. UNCHANGED <<dag, tested, files, marker, reality, warehouse, exported, counted, tries,
                  disturbed>>
  BY DEF Skip, serving
<1>4. /\ tries \in [Tasks -> Nat] /\ \A x \in Tasks : tries[x] <= Retries[x]
      /\ warehouse \in [Marts -> 0 .. Runs] /\ counted \in 0 .. NotCounted
      /\ disturbed \in BOOLEAN
  BY DEF PublicationInv, TypeOK
<1> QED BY <1>2, <1>3, <1>4, MoveKeepsInv

LEMMA FaultKeepsInv ==
    ASSUME PublicationInv, NEW t \in Tasks, Fault(t)
    PROVE  PublicationInv'
<1>1. Moves(t, "up_for_retry") \/ Moves(t, "failed")
  BY FailureMoves DEF Fault
<1>2. tries' \in [Tasks -> Nat] /\ \A x \in Tasks : tries'[x] <= Retries[x]
  BY FailureMoves DEF Fault
<1>3. UNCHANGED <<dag, tested, files, marker, reality, exported, counted>>
  BY DEF Fault, serving
<1>4. warehouse' \in [Marts -> 0 .. Runs] /\ (warehouse' = warehouse \/ t = "run")
  BY DEF Fault, HalfBuilt, PublicationInv, TypeOK
<1>5. counted \in 0 .. NotCounted /\ disturbed' \in BOOLEAN
  BY DEF Fault, PublicationInv, TypeOK
<1>6. CASE Moves(t, "up_for_retry")
  BY <1>2, <1>3, <1>4, <1>5, <1>6, MoveKeepsInv
<1>7. CASE Moves(t, "failed")
  BY <1>2, <1>3, <1>4, <1>5, <1>7, MoveKeepsInv
<1> QED BY <1>1, <1>6, <1>7

LEMMA PlainTaskKeepsInv ==
    ASSUME PublicationInv, NEW t \in Tasks, PlainTask(t)
    PROVE  PublicationInv'
<1>1. /\ tries' \in [Tasks -> Nat] /\ \A x \in Tasks : tries'[x] <= Retries[x]
      /\ Moves(t, "success") /\ t \notin {"run", "test", "export", "publish"}
  BY SuccessMoves DEF PlainTask
<1>2. UNCHANGED <<dag, tested, files, marker, reality, warehouse, exported, counted, disturbed>>
  BY DEF PlainTask, serving
<1>3. /\ warehouse \in [Marts -> 0 .. Runs] /\ counted \in 0 .. NotCounted
      /\ disturbed \in BOOLEAN
  BY DEF PublicationInv, TypeOK
<1> QED BY <1>1, <1>2, <1>3, MoveKeepsInv

\* The same for a move with which the build, the gate, the export or the marker succeeds.
LEMMA BuildKeepsInv == PublicationInv /\ Build => PublicationInv'
<1> SUFFICES ASSUME PublicationInv, Build PROVE PublicationInv'
  OBVIOUS
<1>0. "run" \in Tasks
  BY DEF Tasks
<1>1. /\ tries' \in [Tasks -> Nat] /\ \A x \in Tasks : tries'[x] <= Retries[x]
      /\ Moves("run", "success")
      /\ \A x \in Tasks : x # "run" => state'[x] = state[x]
  BY <1>0, SuccessMoves DEF Build
<1>2. /\ UNCHANGED <<run, active, tested, files, exported, marker, landed, cli, counted, disturbed>>
      /\ warehouse' = [m \in Marts |-> run]
  BY DEF Build, dag, serving, reality
<1>3. state' \in [Tasks -> States] /\ Chained'
  BY <1>0, <1>1, <1>2, MoveKeepsChain
<1>4. state["export"] \notin {"running", "success"}
  BY Gate DEF Build, AttemptSucceeds
<1>5. {"test", "export", "publish"} \subseteq Tasks
  BY DEF Tasks
<1>6. TypeOK'
  BY <1>1, <1>2, <1>3 DEF PublicationInv, TypeOK, States
<1>7. Gated'
  BY <1>1, <1>2, <1>4, <1>5 DEF PublicationInv, Gated, BuiltByRun, TestedRun, ExportSound,
                                NothingUntestedServed, MarkerSound
<1> QED BY <1>3, <1>6, <1>7 DEF PublicationInv

LEMMA TestKeepsInv == PublicationInv /\ Test => PublicationInv'
<1> SUFFICES ASSUME PublicationInv, Test PROVE PublicationInv'
  OBVIOUS
<1>0. {"run", "test", "export", "publish"} \subseteq Tasks
  BY DEF Tasks
<1>1. /\ tries' \in [Tasks -> Nat] /\ \A x \in Tasks : tries'[x] <= Retries[x]
      /\ Moves("test", "success")
      /\ \A x \in Tasks : x # "test" => state'[x] = state[x]
  BY <1>0, SuccessMoves DEF Test
<1>2. /\ UNCHANGED <<run, active, warehouse, files, exported, marker, landed, cli, counted,
                     disturbed>>
      /\ tested' = tested \cup {run}
  BY DEF Test, dag, serving, reality
<1>3. state' \in [Tasks -> States] /\ Chained'
  BY <1>0, <1>1, <1>2, MoveKeepsChain
<1>4. run \in 1 .. Runs
  BY <1>1 DEF Moves, PublicationInv, TypeOK
<1>5. TypeOK'
  BY <1>1, <1>2, <1>3, <1>4 DEF PublicationInv, TypeOK, States
<1>6. Gated'
  BY <1>0, <1>1, <1>2 DEF PublicationInv, Gated, BuiltByRun, TestedRun, ExportSound,
                          NothingUntestedServed, MarkerSound
<1> QED BY <1>3, <1>5, <1>6 DEF PublicationInv

LEMMA ExportDoneKeepsInv == PublicationInv /\ ExportDone => PublicationInv'
<1> SUFFICES ASSUME PublicationInv, ExportDone PROVE PublicationInv'
  OBVIOUS
<1>0. {"run", "test", "export", "publish"} \subseteq Tasks
  BY DEF Tasks
<1>1. /\ tries' \in [Tasks -> Nat] /\ \A x \in Tasks : tries'[x] <= Retries[x]
      /\ Moves("export", "success")
      /\ \A x \in Tasks : x # "export" => state'[x] = state[x]
  BY <1>0, SuccessMoves DEF ExportDone
<1>2. /\ UNCHANGED <<run, active, warehouse, tested, files, marker, landed, cli, counted,
                     disturbed>>
      /\ exported = Marts /\ exported' = {} /\ state["export"] = "running"
  BY DEF ExportDone, AttemptSucceeds, dag, reality
<1>3. state' \in [Tasks -> States] /\ Chained'
  BY <1>0, <1>1, <1>2, MoveKeepsChain
<1>4. TypeOK'
  BY <1>1, <1>2, <1>3 DEF PublicationInv, TypeOK, States
<1>5. Gated'
  BY <1>0, <1>1, <1>2 DEF PublicationInv, Gated, BuiltByRun, TestedRun, ExportSound,
                          NothingUntestedServed, MarkerSound
<1> QED BY <1>3, <1>4, <1>5 DEF PublicationInv

LEMMA WriteMarkerKeepsInv == PublicationInv /\ WriteMarker => PublicationInv'
<1> SUFFICES ASSUME PublicationInv, WriteMarker PROVE PublicationInv'
  OBVIOUS
<1>0. {"run", "test", "export", "publish"} \subseteq Tasks
  BY DEF Tasks
<1>1. /\ tries' \in [Tasks -> Nat] /\ \A x \in Tasks : tries'[x] <= Retries[x]
      /\ Moves("publish", "success") /\ state'["publish"] = "success"
      /\ \A x \in Tasks : x # "publish" => state'[x] = state[x]
  BY <1>0, SuccessMoves DEF WriteMarker
<1>2. /\ UNCHANGED <<run, active, warehouse, tested, files, exported, landed, cli, counted,
                     disturbed>>
      /\ marker' = run
  BY DEF WriteMarker, dag, reality
<1>3. state' \in [Tasks -> States] /\ Chained'
  BY <1>0, <1>1, <1>2, MoveKeepsChain
<1>4. TypeOK'
  BY <1>1, <1>2, <1>3 DEF PublicationInv, TypeOK, States
<1>5. MarkerSound'
  BY <1>1, <1>2 DEF PublicationInv, TypeOK, MarkerSound
<1>6. Gated'
  BY <1>0, <1>1, <1>2, <1>5 DEF PublicationInv, Gated, BuiltByRun, TestedRun, ExportSound,
                                NothingUntestedServed
<1> QED BY <1>3, <1>4, <1>6 DEF PublicationInv

LEMMA ExportMartKeepsInv ==
    ASSUME PublicationInv, NEW m \in Marts, ExportMart(m) \/ CliExport(m)
    PROVE  PublicationInv'
<1>1. UNCHANGED <<run, active, state, tries, alerts, warehouse, tested, marker, landed, cli,
                  counted, disturbed>>
  BY DEF ExportMart, CliExport, dag, tasks, reality
<1>2. PICK who \in {"dag", "cli"} :
        /\ files' = [files EXCEPT ![m] = [version |-> warehouse[m], by |-> who]]
        /\ who = "dag" => state["export"] = "running"
  BY DEF ExportMart, CliExport
<1>3. exported' \in {exported, exported \cup {m}}
  BY DEF ExportMart, CliExport
<1>4. Chained'
  BY <1>1, NoMoveKeepsChain
<1>5. Gated'
  BY <1>1, <1>2, <1>3, FilesKeepGate
<1>6. files' \in [Marts -> [version : 0 .. Runs, by : {"nobody", "dag", "cli"}]]
  BY <1>2 DEF PublicationInv, TypeOK
<1>7. TypeOK'
  BY <1>1, <1>3, <1>6 DEF PublicationInv, TypeOK
<1> QED BY <1>4, <1>5, <1>7 DEF PublicationInv

LEMMA CompareKeepsInv == PublicationInv /\ CompareStaged => PublicationInv'
<1> SUFFICES ASSUME PublicationInv, CompareStaged PROVE PublicationInv'
  OBVIOUS
<1>0. "reconcile" \in Tasks
  BY DEF Tasks
<1>1. /\ tries' \in [Tasks -> Nat] /\ \A x \in Tasks : tries'[x] <= Retries[x]
      /\ \/ Moves("reconcile", "success")
         \/ Moves("reconcile", "up_for_retry") \/ Moves("reconcile", "failed")
  BY <1>0, SuccessMoves, FailureMoves DEF CompareStaged
<1>2. UNCHANGED <<dag, tested, files, marker, reality, warehouse, exported, disturbed>>
  BY DEF CompareStaged, serving
<1>3. /\ warehouse \in [Marts -> 0 .. Runs] /\ disturbed \in BOOLEAN
      /\ counted' \in 0 .. NotCounted
  BY DEF CompareStaged, PublicationInv, TypeOK, NotCounted
<1>4. CASE Moves("reconcile", "success")
  BY <1>0, <1>1, <1>2, <1>3, <1>4, MoveKeepsInv
<1>5. CASE Moves("reconcile", "up_for_retry")
  BY <1>0, <1>1, <1>2, <1>3, <1>5, MoveKeepsInv
<1>6. CASE Moves("reconcile", "failed")
  BY <1>0, <1>1, <1>2, <1>3, <1>6, MoveKeepsInv
<1> QED BY <1>1, <1>4, <1>5, <1>6

--------------------------------------------------------------------------------
(* Scheduler, consumer, command line *)

LEMMA StartRunKeepsInv == PublicationInv /\ StartRun => PublicationInv'
<1> SUFFICES ASSUME PublicationInv, StartRun PROVE PublicationInv'
  OBVIOUS
<1>1. /\ run' = run + 1 /\ run < Runs /\ active' = TRUE
      /\ state' = [t \in Tasks |-> "none"] /\ tries' = [t \in Tasks |-> 0] /\ alerts' = {}
      /\ exported' = {} /\ counted' = NotCounted /\ disturbed' = FALSE
      /\ UNCHANGED <<warehouse, tested, files, marker, landed, cli>>
  BY DEF StartRun, NewRun, reality
<1>2. run \in 0 .. Runs /\ run' \in 1 .. Runs
  BY <1>1 DEF PublicationInv, TypeOK
<1>3. TypeOK'
  <2>1. counted' \in 0 .. NotCounted
    BY <1>1 DEF NotCounted
  <2>2. tries' \in [Tasks -> Nat] /\ \A t \in Tasks : tries'[t] <= Retries[t]
    BY <1>1
  <2>3. active' \in BOOLEAN /\ disturbed' \in BOOLEAN
    BY <1>1
  <2>4. state' \in [Tasks -> States]
    BY <1>1 DEF States
  <2> QED BY <1>1, <1>2, <2>1, <2>2, <2>3, <2>4 DEF PublicationInv, TypeOK, NotCounted, States
<1>4. Chained'
  BY <1>1, <1>2 DEF Chained, NoneYet, Ordered, Blamed, Alerted, Begun
<1>5. MarkerSound'
  BY <1>1, <1>2 DEF PublicationInv, TypeOK, Gated, MarkerSound, Tasks
<1>6. Gated'
  BY <1>1, <1>5 DEF PublicationInv, Gated, BuiltByRun, TestedRun, ExportSound,
                    NothingUntestedServed, Tasks
<1> QED BY <1>3, <1>4, <1>6 DEF PublicationInv

LEMMA TimeOutKeepsInv == PublicationInv /\ TimeOut => PublicationInv'
<1> SUFFICES ASSUME PublicationInv, TimeOut PROVE PublicationInv'
  OBVIOUS
<1>1. /\ active /\ active' = FALSE /\ disturbed' = TRUE
      /\ UNCHANGED <<run, tries, alerts, tested, files, exported, marker, landed, cli, counted>>
  BY DEF TimeOut, serving, reality
<1>0. /\ warehouse' \in [Marts -> 0 .. Runs]
      /\ state["run"] = "success" => warehouse' = warehouse
  BY DEF TimeOut, HalfBuilt, PublicationInv, TypeOK
<1>2. state \in [Tasks -> States]
  BY DEF PublicationInv, TypeOK, States
<1>3. \A x \in Tasks : state'[x] = IF Settled(x) THEN state[x] ELSE "skipped"
  BY DEF TimeOut
<1>4. state' \in [Tasks -> States]
  BY <1>2 DEF TimeOut, States
<1>5. \A x \in Tasks :
        /\ state'[x] \in Begun => state'[x] = state[x]
        /\ state'[x] = "upstream_failed" => state[x] = "upstream_failed"
        /\ state[x] \in {"success", "failed", "upstream_failed"} => state'[x] = state[x]
        /\ state'[x] \notin {"running", "up_for_retry"}
  BY <1>3 DEF Settled, Begun
<1>6. TypeOK'
  BY <1>0, <1>1, <1>4 DEF PublicationInv, TypeOK, States
<1>7. Chained'
  <2>1. NoneYet'
    BY <1>1 DEF PublicationInv, TypeOK, Chained, NoneYet
  <2>2. Ordered'
    <3> SUFFICES ASSUME NEW x \in Tasks \ {"docs"}, state'[x] \in Begun, NEW u \in Upstream(x)
                 PROVE  state'[u] = "success"
      BY DEF Ordered, Upstream
    <3>1. u \in Tasks
      BY UpstreamIsBefore
    <3> QED BY <3>1, <1>5 DEF PublicationInv, Chained, Ordered
  <2>3. Blamed'
    <3> SUFFICES ASSUME NEW x \in Tasks, state'[x] = "upstream_failed"
                 PROVE  /\ x # "docs"
                        /\ \E u \in Upstream(x) : state'[u] \in {"failed", "upstream_failed"}
      BY DEF Blamed, Upstream
    <3>1. x # "docs" /\ \E u \in Upstream(x) : state[u] \in {"failed", "upstream_failed"}
      BY <1>5 DEF PublicationInv, Chained, Blamed
    <3>2. PICK u \in Upstream(x) : state[u] \in {"failed", "upstream_failed"}
      BY <3>1
    <3>3. u \in Tasks
      BY UpstreamIsBefore
    <3> QED BY <1>5, <3>1, <3>2, <3>3
  <2>4. Alerted'
    <3>1. \A x \in Tasks : state'[x] = "failed" <=> state[x] = "failed"
      BY <1>5 DEF Begun
    <3> QED BY <1>1, <3>1 DEF PublicationInv, Chained, Alerted, Severity
  <2> QED BY <2>1, <2>2, <2>3, <2>4 DEF Chained
<1>8. {"run", "test", "export", "publish"} \subseteq Tasks
  BY DEF Tasks
<1>9. Gated'
  BY <1>0, <1>1, <1>5, <1>8 DEF PublicationInv, Gated, BuiltByRun, TestedRun, ExportSound,
                          NothingUntestedServed, MarkerSound, Begun
<1> QED BY <1>6, <1>7, <1>9 DEF PublicationInv

LEMMA EndRunKeepsInv == PublicationInv /\ EndRun => PublicationInv'
<1> SUFFICES ASSUME PublicationInv, EndRun PROVE PublicationInv'
  OBVIOUS
<1>1. /\ active /\ active' = FALSE
      /\ UNCHANGED <<run, state, tries, alerts, warehouse, tested, files, exported, marker,
                     landed, cli, counted, disturbed>>
  BY DEF EndRun, tasks, serving, reality
<1>2. TypeOK'
  BY <1>1 DEF PublicationInv, TypeOK
<1>3. Chained'
  BY <1>1, NoMoveKeepsChain
<1>4. Gated'
  BY <1>1 DEF PublicationInv, Gated, BuiltByRun, TestedRun, ExportSound, NothingUntestedServed,
              MarkerSound
<1> QED BY <1>2, <1>3, <1>4 DEF PublicationInv

LEMMA QuietStepKeepsInv ==
    PublicationInv /\ (CountLanded \/ Land \/ CliOpen \/ CliClose \/ UNCHANGED vars)
        => PublicationInv'
<1> SUFFICES ASSUME PublicationInv, CountLanded \/ Land \/ CliOpen \/ CliClose \/ UNCHANGED vars
             PROVE  PublicationInv'
  OBVIOUS
<1>1. UNCHANGED <<run, active, state, tries, alerts, warehouse, tested, files, exported, marker>>
  BY DEF CountLanded, Land, CliOpen, CliClose, vars, dag, tasks, serving
<1>2. landed' \in 0 .. MaxLandings /\ counted' \in 0 .. NotCounted
  BY DEF PublicationInv, TypeOK, NotCounted, CountLanded, Land, CliOpen, CliClose, vars, reality
<1>3. cli' \in BOOLEAN /\ disturbed' \in BOOLEAN
  BY DEF PublicationInv, TypeOK, CountLanded, Land, CliOpen, CliClose, vars, reality
<1> QED BY <1>1, <1>2, <1>3, QuietKeepsInv

LEMMA PublicationStep == PublicationInv /\ [Next]_vars => PublicationInv'
BY BeginKeepsInv, CollideKeepsInv, SkipKeepsInv, FaultKeepsInv, PlainTaskKeepsInv,
   BuildKeepsInv, TestKeepsInv, ExportDoneKeepsInv, WriteMarkerKeepsInv, ExportMartKeepsInv,
   CompareKeepsInv, StartRunKeepsInv, TimeOutKeepsInv, EndRunKeepsInv, QuietStepKeepsInv
   DEF Next, Progress, Task

--------------------------------------------------------------------------------
(* A run that nothing befalls *)

(***************************************************************************)
(* Unless something has befallen the run, none of its attempts has failed, *)
(* the reconciliation compares with what is still there, and the run ends  *)
(* with all of its tasks done.                                             *)
(***************************************************************************)
Smooth ==
    ~ disturbed =>
        /\ \A t \in Tasks : state[t] \in {"none", "running", "success"}
        /\ counted # NotCounted => state["reconcile"] = "running" /\ counted = landed
        /\ run > 0 /\ ~ active => \A t \in Tasks : state[t] = "success"

\* A reader is refused by a writer only, and a writer is a party to its own collision.
LEMMA CollisionDisturbs ==
    ASSUME NEW t \in Tasks, Collide(t)
    PROVE  disturbed'
<1>1. CASE t \in Readers
  BY <1>1 DEF Collide, Collides
<1>2. CASE t \notin Readers
  BY <1>2 DEF Collide, Collides, Readers
<1> QED BY <1>1, <1>2

\* A task moves from where nothing has failed to where nothing has failed.
LEMMA MoveKeepsSmooth ==
    ASSUME PublicationInv, Smooth, NEW t \in Tasks, NEW v \in {"running", "success"},
           state[t] # "success", run > 0, state' = [state EXCEPT ![t] = v],
           UNCHANGED <<run, active, disturbed, landed>>,
           IF t = "reconcile" THEN counted' = NotCounted ELSE counted' = counted
    PROVE  Smooth'
<1>1. state \in [Tasks -> States] /\ "reconcile" \in Tasks
  BY DEF PublicationInv, TypeOK, States, Tasks
<1>2. state'[t] = v /\ \A x \in Tasks : x # t => state'[x] = state[x]
  BY <1>1
<1>3. ~ disturbed => active
  BY DEF Smooth, PublicationInv, TypeOK
<1> QED BY <1>1, <1>2, <1>3 DEF Smooth, NotCounted

LEMMA SmoothInit == Init => Smooth
BY DEF Init, Smooth, NotCounted

LEMMA TaskKeepsSmooth ==
    ASSUME PublicationInv, Smooth, NEW t \in Tasks, Task(t)
    PROVE  Smooth'
<1>1. CASE Begin(t)
  <2>1. /\ state[t] # "success" /\ state' = [state EXCEPT ![t] = "running"]
        /\ UNCHANGED <<run, active, disturbed, landed>>
        /\ IF t = "reconcile" THEN counted' = NotCounted ELSE counted' = counted
    BY <1>1 DEF Begin, Due, dag, reality
  <2>2. run > 0
    BY <1>1 DEF Begin, Due, PublicationInv, TypeOK, Chained, NoneYet
  <2> QED BY <2>1, <2>2, MoveKeepsSmooth
<1>2. CASE Collide(t)
  BY <1>2, CollisionDisturbs DEF Smooth
<1>3. CASE Skip(t)
  <2>1. /\ \E u \in Upstream(t) : state[u] \in {"failed", "upstream_failed"}
        /\ disturbed' = disturbed
    BY <1>3 DEF Skip
  <2> QED BY <2>1, UpstreamIsBefore DEF Smooth
<1>4. CASE Fault(t)
  BY <1>4 DEF Fault, Smooth
<1>5. CASE PlainTask(t)
  <2>1. /\ state[t] = "running" /\ state' = [state EXCEPT ![t] = "success"]
        /\ UNCHANGED <<run, active, disturbed, landed, counted>> /\ t # "reconcile"
    BY <1>5 DEF PlainTask, AttemptSucceeds, dag, reality
  <2>2. run > 0
    BY <2>1 DEF PublicationInv, TypeOK, Chained, NoneYet
  <2> QED BY <2>1, <2>2, MoveKeepsSmooth
<1> QED BY <1>1, <1>2, <1>3, <1>4, <1>5 DEF Task

LEMMA SuccessKeepsSmooth ==
    ASSUME PublicationInv, Smooth, Build \/ Test \/ ExportDone \/ WriteMarker
    PROVE  Smooth'
<1>1. PICK t \in {"run", "test", "export", "publish"} : AttemptSucceeds(t)
  BY DEF Build, Test, ExportDone, WriteMarker
<1>2. UNCHANGED <<run, active, disturbed, landed, counted>>
  BY DEF Build, Test, ExportDone, WriteMarker, dag, reality
<1>3. t \in Tasks /\ t # "reconcile"
  BY DEF Tasks
<1>4. state[t] = "running" /\ state' = [state EXCEPT ![t] = "success"]
  BY <1>1 DEF AttemptSucceeds
<1>5. run > 0
  BY <1>3, <1>4 DEF PublicationInv, TypeOK, Chained, NoneYet
<1> QED BY <1>2, <1>3, <1>4, <1>5, MoveKeepsSmooth

\* Both queries saw the same files, or one landed between them.
LEMMA CompareKeepsSmooth == PublicationInv /\ Smooth /\ CompareStaged => Smooth'
<1> SUFFICES ASSUME PublicationInv, Smooth, CompareStaged, ~ disturbed PROVE Smooth'
  BY DEF Smooth, CompareStaged
<1>1. counted = landed /\ UNCHANGED <<run, active, disturbed, landed>> /\ counted' = NotCounted
  BY DEF CompareStaged, Smooth, dag, reality
<1>2. state["reconcile"] = "running" /\ state' = [state EXCEPT !["reconcile"] = "success"]
  BY <1>1 DEF CompareStaged, AttemptSucceeds
<1>3. "reconcile" \in Tasks
  BY DEF Tasks
<1>4. run > 0
  BY <1>2, <1>3 DEF PublicationInv, TypeOK, Chained, NoneYet
<1> QED BY <1>1, <1>2, <1>3, <1>4, MoveKeepsSmooth

\* A run ends by itself when all is settled: without a failure, when all is done.
LEMMA EndRunKeepsSmooth == Smooth /\ EndRun => Smooth'
BY DEF Smooth, EndRun, Settled, tasks, reality, NotCounted

LEMMA LandKeepsSmooth == Smooth /\ Land => Smooth'
<1> SUFFICES ASSUME Smooth, Land, ~ disturbed' PROVE Smooth'
  BY DEF Smooth
<1>1. ~ disturbed /\ counted = NotCounted
  BY DEF Land, Smooth
<1> QED BY <1>1 DEF Land, Smooth, dag, tasks, NotCounted

LEMMA RestKeepsSmooth ==
    ASSUME PublicationInv, Smooth,
           \/ CountLanded \/ StartRun \/ TimeOut \/ CliOpen \/ CliClose \/ UNCHANGED vars
           \/ \E m \in Marts : ExportMart(m) \/ CliExport(m)
    PROVE  Smooth'
<1>1. CASE CountLanded
  BY <1>1 DEF CountLanded, Smooth, dag, tasks, reality, NotCounted
<1>2. CASE StartRun
  BY <1>2 DEF StartRun, NewRun, Smooth, NotCounted
<1>3. CASE TimeOut
  BY <1>3 DEF TimeOut, Smooth
<1>4. CASE \/ CliOpen \/ CliClose \/ UNCHANGED vars
           \/ \E m \in Marts : ExportMart(m) \/ CliExport(m)
  <2>1. UNCHANGED <<run, active, state, landed, counted, disturbed>>
    BY <1>4 DEF CliOpen, CliClose, ExportMart, CliExport, vars, dag, tasks, reality
  <2> QED BY <2>1 DEF Smooth, NotCounted
<1> QED BY <1>1, <1>2, <1>3, <1>4

LEMMA SmoothStep == PublicationInv /\ Smooth /\ [Next]_vars => Smooth'
BY TaskKeepsSmooth, SuccessKeepsSmooth, CompareKeepsSmooth, EndRunKeepsSmooth, LandKeepsSmooth,
   RestKeepsSmooth DEF Next, Progress

--------------------------------------------------------------------------------
(* The theorems *)

(***************************************************************************)
(* Every reachable state has the tasks in order, the alerts of the failed  *)
(* ones, and the gate between what was built and what is served.           *)
(***************************************************************************)
THEOREM Publishes == Spec => []PublicationInv
<1>1. Init => PublicationInv
  BY PublicationInit
<1>2. PublicationInv /\ [Next]_vars => PublicationInv'
  BY PublicationStep
<1> QED BY <1>1, <1>2, PTL DEF Spec

(***************************************************************************)
(* Type correctness; in it, that no task is tried more often than allowed. *)
(***************************************************************************)
THEOREM TypeCorrect == Spec => []TypeOK
<1>1. PublicationInv => TypeOK
  BY DEF PublicationInv
<1> QED BY <1>1, Publishes, PTL

(***************************************************************************)
(* Nothing untested is served by the DAG (rideflow_transform.py:396).      *)
(***************************************************************************)
THEOREM TestedBeforeServed == Spec => []NothingUntestedServed
<1>1. PublicationInv => NothingUntestedServed
  BY DEF PublicationInv, Gated
<1> QED BY <1>1, Publishes, PTL

(***************************************************************************)
(* The marker is written once per run and vouches for files that are all   *)
(* of that run, tested and reconciled, the command line notwithstanding.   *)
(***************************************************************************)
THEOREM MarkerIsOneRun == Spec => MarkerVouches
<1> DEFINE Vouches == marker' # marker =>
             /\ \A m \in Marts : files[m].version = marker'
             /\ marker' > marker /\ marker' \in tested
             /\ state["reconcile"] = "success"
<1>1. PublicationInv /\ [Next]_vars => [Vouches]_vars
  <2> SUFFICES ASSUME PublicationInv, [Next]_vars, marker' # marker PROVE Vouches
    OBVIOUS
  <2>1. WriteMarker
    BY DEF Next, Progress, Task, Begin, Collide, Skip, Fault, PlainTask, Build, Test, ExportMart,
           ExportDone, CountLanded, CompareStaged, EndRun, StartRun, NewRun, TimeOut, Land,
           CliOpen, CliExport, CliClose, vars, serving
  <2>2. marker' = run /\ state["publish"] = "running"
    BY <2>1 DEF WriteMarker, AttemptSucceeds
  <2>3. /\ state["reconcile"] = "success" /\ state["export"] = "success"
        /\ run > 0 /\ marker < run
    BY <2>2, PublishIsLast
  <2>4. run \in tested
    BY <2>3, Gate
  <2>5. \A m \in Marts : files[m].version = run
    BY <2>3 DEF PublicationInv, Gated, ExportSound
  <2> QED BY <2>2, <2>3, <2>4, <2>5 DEF PublicationInv, TypeOK
<1> QED BY <1>1, Publishes, PTL DEF Spec, MarkerVouches

(***************************************************************************)
(* Each failed task of a run that ended on its own has raised one alert,   *)
(* and nothing else has; a run that did not publish has one other than the *)
(* documentation's, and a critical one exactly when the gate or the        *)
(* reconciliation failed: the blame for a task given up leads back to one  *)
(* that failed.  That the volume refuses an alert changes none of it.      *)
(***************************************************************************)
THEOREM FailuresAreAlerted == Spec => []FailureIsAlerted
<1>1. PublicationInv => FailureIsAlerted
  <2> SUFFICES ASSUME PublicationInv, ~ active, \A t \in Tasks : Settled(t)
               PROVE  /\ {a.task : a \in alerts} = {t \in Tasks : state[t] = "failed"}
                      /\ \A a, b \in alerts : a.task = b.task => a = b
                      /\ marker # run => \E a \in alerts : a.task # "docs"
                      /\ (\E a \in alerts : a.severity = "CRITICAL")
                            <=> (state["test"] = "failed" \/ state["reconcile"] = "failed")
    BY DEF FailureIsAlerted
  <2> DEFINE Failed == {x \in Tasks : state[x] = "failed"}
  <2>1. \A t \in Failed : \E a \in alerts : a.task = t
    BY DEF PublicationInv, Chained, Alerted
  <2>2. \A a \in alerts :
          /\ a.task \in Failed /\ a.severity = Severity(a.task)
          /\ \A b \in alerts : a.task = b.task => a = b
    BY DEF PublicationInv, Chained, Alerted
  <2>3. {a.task : a \in alerts} = Failed
    BY <2>1, <2>2
  <2>4. (\E a \in alerts : a.severity = "CRITICAL")
           <=> (state["test"] = "failed" \/ state["reconcile"] = "failed")
    <3>1. \A t \in Failed : Severity(t) = "CRITICAL" <=> t \in {"test", "reconcile"}
      BY DEF Severity
    <3>2. {"test", "reconcile"} \subseteq Tasks
      BY DEF Tasks
    <3> QED BY <2>1, <2>2, <3>1, <3>2
  <2>5. ASSUME marker # run PROVE \E t \in Failed : t # "docs"
    <3>1. run > 0
      BY DEF PublicationInv, TypeOK, Chained, NoneYet, Settled, Tasks
    <3>2. state["publish"] \in {"failed", "upstream_failed"}
      BY <2>5, <3>1 DEF PublicationInv, Gated, MarkerSound, Settled, Tasks
    <3>3. \A t \in Tasks : state[t] = "upstream_failed" =>
             \E u \in Upstream(t) : state[u] \in {"failed", "upstream_failed"}
      BY DEF PublicationInv, Chained, Blamed
    <3> DEFINE Bad(t) == state[t] \in {"failed", "upstream_failed"}
    <3>4. Bad("publish") => (state["publish"] = "failed" \/ Bad("reconcile"))
      BY <3>3 DEF Tasks, Upstream
    <3>5. Bad("reconcile") => (state["reconcile"] = "failed" \/ Bad("export"))
      BY <3>3 DEF Tasks, Upstream
    <3>6. Bad("export") => (state["export"] = "failed" \/ Bad("test"))
      BY <3>3 DEF Tasks, Upstream
    <3>7. Bad("test") => (state["test"] = "failed" \/ Bad("run"))
      BY <3>3 DEF Tasks, Upstream
    <3>8. Bad("run") => (state["run"] = "failed" \/ Bad("seed"))
      BY <3>3 DEF Tasks, Upstream
    <3>9. Bad("seed") => (state["seed"] = "failed" \/ Bad("deps"))
      BY <3>3 DEF Tasks, Upstream
    <3>10. Bad("deps") => (state["deps"] = "failed" \/ Bad("freshness"))
      BY <3>3 DEF Tasks, Upstream
    <3>11. Bad("freshness") => state["freshness"] = "failed"
      BY <3>3 DEF Tasks, Upstream
    <3> QED BY <3>2, <3>4, <3>5, <3>6, <3>7, <3>8, <3>9, <3>10, <3>11 DEF Tasks
  <2> QED BY <2>1, <2>2, <2>3, <2>4, <2>5
<1> QED BY <1>1, Publishes, PTL

(***************************************************************************)
(* A run publishes unless one of its attempts failed by itself, a writer   *)
(* contended for the lock, the run timed out, or the landing zone grew     *)
(* between the two queries of the reconciliation: readers, the command     *)
(* line among them, are in nobody's way (connection.py:66).                *)
(***************************************************************************)
THEOREM QuietRunsPublish == Spec => []QuietRunPublishes
<1>1. Init => Smooth
  BY SmoothInit
<1>2. PublicationInv /\ Smooth /\ [Next]_vars => Smooth'
  BY SmoothStep
<1>3. PublicationInv /\ Smooth => QuietRunPublishes
  BY DEF PublicationInv, Gated, MarkerSound, Smooth, QuietRunPublishes, Tasks
<1> QED BY <1>1, <1>2, <1>3, Publishes, PTL DEF Spec
================================================================================
