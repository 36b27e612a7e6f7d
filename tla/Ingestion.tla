------------------------------ MODULE Ingestion ------------------------------
(***************************************************************************)
(* The ingestion consumer (ingestion/consumer.py): several processes of    *)
(* one Kafka consumer group, each running                                  *)
(*                                                                         *)
(*   poll -> validate -> dedupe -> write Parquet -> COMMIT OFFSET          *)
(*                                                                         *)
(* over the partitions the group assigns it, while processes are killed,   *)
(* stopped and restarted, partitions move between them, and the disk, the  *)
(* dead letter broker and the commit fail.                                 *)
(*                                                                         *)
(* poll(), validate and dedupe of one message are one step: they touch     *)
(* nothing another process can see.  Every step of flush() that touches    *)
(* shared state - each file of the batch, the dead letter queue, the       *)
(* commit - is a step of its own.                                          *)
(***************************************************************************)
EXTENDS Integers, FiniteSets

CONSTANTS
    Consumers,    \* the processes of the consumer group
    Partitions,   \* see EventDelivery
    LogEnd,
    EventId,
    Verdict,
    Directory,    \* Directory[m]: the topic=/dt=/hour= directory of a message,
                  \* numbered in the order sorted() puts the paths
    BatchMax,     \* batch_max_events
    DlqOutage,    \* whether the dead letter broker may be slow or unreachable
    MaxIncidents, \* bound on the faults of a behaviour
    MaxStops      \* bound on its graceful stops

VARIABLES
    copies,       \* copies[m]: the rows of message m in the landing zone
    dlqTopic, committed,   \* see EventDelivery

    \* The group coordinator.
    member,       \* member[c]: the coordinator counts c as a live member
    \* Each process.
    assigned,     \* assigned[c]: the partitions c consumes
    position,     \* position[c][p]: the offset after the last message poll()
                  \* returned
    stored,       \* stored[c]: the partitions whose position c stored for the
                  \* next commit(), as poll() does with every message
    pc,           \* pc[c]: where run() is
    mode,         \* mode[c]: in the loop, or in its "finally" block
    consumed,     \* consumed[c]: the messages of the batch (Batch.consumed)
    valid,        \* valid[c]: Batch.valid
    dlq,          \* dlq[c]: Batch.dlq
    aged,         \* aged[c]: the batch is older than batch_max_seconds
    todo,         \* todo[c]: directories write() has not written yet
    balance,      \* balance[c]: polled - landed - rejected - duplicates_dropped
    dlqQueue,     \* dlqQueue[c]: rejections the producer has not delivered yet
    \* The bounds.
    incidents,    \* faults so far: crashes, evictions, revocations, failures
    stops         \* graceful stops so far

\* The landing zone as EventDelivery sees it.
Landed == { m \in DOMAIN copies : copies[m] > 0 }

delivery == INSTANCE EventDelivery WITH landed <- Landed

Message         == delivery!Message
ValidMessage    == delivery!ValidMessage
RejectedMessage == delivery!RejectedMessage
Accounted(m)    == delivery!Accounted(m)

ASSUME LogEndAssumption == LogEnd \in [Partitions -> Nat]
ASSUME VerdictAssumption == Verdict \in [Message -> delivery!Verdicts]
ASSUME DirectoryAssumption == Directory \in [Message -> Nat]
ASSUME BoundsAssumption ==
    /\ BatchMax \in Nat \ {0}
    /\ DlqOutage \in BOOLEAN
    /\ MaxIncidents \in Nat
    /\ MaxStops \in Nat

deliveryVars == <<copies, dlqTopic, committed>>
bounds       == <<incidents, stops>>
groupVars    == <<member, assigned, position, stored>>
batchVars    == <<consumed, valid, dlq, aged, balance>>
vars == <<copies, dlqTopic, committed, member, assigned, position, stored, pc, mode,
          consumed, valid, dlq, aged, todo, balance, dlqQueue, incidents, stops>>

Control == {"stopped", "poll", "write", "dlq", "commit", "close"}

\* "loop": inside while; "final": finally after a normal exit from the loop;
\* "unwind": finally while an exception propagates.
Mode == {"loop", "final", "unwind"}

TypeOK ==
    /\ copies \in [Message -> Nat]
    /\ dlqTopic \in SUBSET Message
    /\ committed \in [Partitions -> Nat]
    /\ member \in [Consumers -> BOOLEAN]
    /\ assigned \in [Consumers -> SUBSET Partitions]
    /\ position \in [Consumers -> [Partitions -> Nat]]
    /\ stored \in [Consumers -> SUBSET Partitions]
    /\ pc \in [Consumers -> Control]
    /\ mode \in [Consumers -> Mode]
    /\ consumed \in [Consumers -> SUBSET Message]
    /\ valid \in [Consumers -> SUBSET Message]
    /\ dlq \in [Consumers -> SUBSET Message]
    /\ aged \in [Consumers -> BOOLEAN]
    /\ todo \in [Consumers -> SUBSET Nat]
    /\ balance \in [Consumers -> Int]
    /\ dlqQueue \in [Consumers -> SUBSET Message]
    /\ incidents \in Nat
    /\ stops \in Nat

Init ==
    /\ copies = [m \in Message |-> 0]
    /\ dlqTopic = {}
    /\ committed = [p \in Partitions |-> 0]
    /\ member = [c \in Consumers |-> FALSE]
    /\ assigned = [c \in Consumers |-> {}]
    /\ position = [c \in Consumers |-> [p \in Partitions |-> 0]]
    /\ stored = [c \in Consumers |-> {}]
    /\ pc = [c \in Consumers |-> "stopped"]
    /\ mode = [c \in Consumers |-> "loop"]
    /\ consumed = [c \in Consumers |-> {}]
    /\ valid = [c \in Consumers |-> {}]
    /\ dlq = [c \in Consumers |-> {}]
    /\ aged = [c \in Consumers |-> FALSE]
    /\ todo = [c \in Consumers |-> {}]
    /\ balance = [c \in Consumers |-> 0]
    /\ dlqQueue = [c \in Consumers |-> {}]
    /\ incidents = 0
    /\ stops = 0

------------------------------------------------------------------------------
(* Helpers.                                                                *)

Incident ==
    /\ incidents < MaxIncidents
    /\ incidents' = incidents + 1
    /\ UNCHANGED stops

IsEmpty(batch) == batch = {}

Directories(rows) == { Directory[m] : m \in rows }

\* Mutant of FlushDue: the time trigger is forgotten.
FlushDueBySize(c, rows) == Cardinality(rows) >= BatchMax

\* should_flush() of a non-empty batch: size or age, whichever fires first.
\* Rejections and dropped duplicates do not count towards the size.
FlushDue(c, rows) == Cardinality(rows) >= BatchMax \/ aged[c]

\* Batch.reset().
ResetBatch(c) ==
    /\ consumed' = [consumed EXCEPT ![c] = {}]
    /\ valid' = [valid EXCEPT ![c] = {}]
    /\ dlq' = [dlq EXCEPT ![c] = {}]
    /\ aged' = [aged EXCEPT ![c] = FALSE]

\* flush() of a non-empty batch begins with writer.write(batch.valid).
BeginFlush(c, rows) ==
    /\ pc' = [pc EXCEPT ![c] = "write"]
    /\ todo' = [todo EXCEPT ![c] = Directories(rows)]

\* The process is gone, and with it everything it kept in memory: the batch,
\* the offsets it has not committed and the producer's queue.
Exit(c) ==
    /\ pc' = [pc EXCEPT ![c] = "stopped"]
    /\ todo' = [todo EXCEPT ![c] = {}]
    /\ dlqQueue' = [dlqQueue EXCEPT ![c] = {}]
    /\ ResetBatch(c)

------------------------------------------------------------------------------
(* The group: joining, assignment, revocation, eviction.                   *)

\* IngestionConsumer() and the first subscribe(): a new process, a new member.
Start(c) ==
    /\ pc[c] = "stopped" /\ ~member[c]
    /\ pc' = [pc EXCEPT ![c] = "poll"]
    /\ mode' = [mode EXCEPT ![c] = "loop"]
    /\ member' = [member EXCEPT ![c] = TRUE]
    /\ assigned' = [assigned EXCEPT ![c] = {}]
    /\ stored' = [stored EXCEPT ![c] = {}]
    /\ balance' = [balance EXCEPT ![c] = 0]
    /\ UNCHANGED <<deliveryVars, position, consumed, valid, dlq, aged, todo,
                   dlqQueue, bounds>>

\* poll() of a consumer the coordinator has evicted: it rejoins with nothing.
\* Its batch keeps the messages it has not flushed.
Rejoin(c) ==
    /\ pc[c] = "poll" /\ mode[c] = "loop" /\ ~member[c]
    /\ member' = [member EXCEPT ![c] = TRUE]
    /\ assigned' = [assigned EXCEPT ![c] = {}]
    /\ stored' = [stored EXCEPT ![c] = {}]
    /\ UNCHANGED <<deliveryVars, position, pc, mode, batchVars, todo, dlqQueue,
                   bounds>>

Unowned(p) == \A c \in Consumers : member[c] => p \notin assigned[c]

\* Mutant of Assign: every assignment starts over from the earliest offset.
AssignFromEarliest(c, p) ==
    /\ pc[c] = "poll" /\ mode[c] = "loop" /\ member[c]
    /\ Unowned(p)
    /\ assigned' = [assigned EXCEPT ![c] = @ \union {p}]
    /\ position' = [position EXCEPT ![c][p] = 0]
    /\ UNCHANGED <<deliveryVars, member, stored, pc, mode, batchVars, todo,
                   dlqQueue, bounds>>

\* The assignor gives p to c, which resumes at the committed offset
\* (auto.offset.reset = earliest when there is none).
Assign(c, p) ==
    /\ pc[c] = "poll" /\ mode[c] = "loop" /\ member[c]
    /\ Unowned(p)
    /\ assigned' = [assigned EXCEPT ![c] = @ \union {p}]
    /\ position' = [position EXCEPT ![c][p] = committed[p]]
    /\ UNCHANGED <<deliveryVars, member, stored, pc, mode, batchVars, todo,
                   dlqQueue, bounds>>

\* Mutant of Revoke: the stored offset outlives the assignment.
RevokeKeepingOffset(c, p) ==
    /\ pc[c] = "poll" /\ mode[c] = "loop" /\ member[c] /\ p \in assigned[c]
    /\ Incident
    /\ assigned' = [assigned EXCEPT ![c] = @ \ {p}]
    /\ UNCHANGED <<deliveryVars, member, stored, position, pc, mode, batchVars, todo,
                   dlqQueue>>

\* Cooperative rebalance: c gives up p inside poll().  No revocation callback
\* is registered, so the batch keeps p's messages and nothing is flushed.
Revoke(c, p) ==
    /\ pc[c] = "poll" /\ mode[c] = "loop" /\ member[c] /\ p \in assigned[c]
    /\ Incident
    /\ assigned' = [assigned EXCEPT ![c] = @ \ {p}]
    /\ stored' = [stored EXCEPT ![c] = @ \ {p}]
    /\ UNCHANGED <<deliveryVars, member, position, pc, mode, batchVars, todo,
                   dlqQueue>>

\* session.timeout.ms of a dead process.
ExpireDead(c) ==
    /\ member[c] /\ pc[c] = "stopped"
    /\ member' = [member EXCEPT ![c] = FALSE]
    /\ assigned' = [assigned EXCEPT ![c] = {}]
    /\ UNCHANGED <<deliveryVars, position, stored, pc, mode, batchVars, todo,
                   dlqQueue, bounds>>

\* max.poll.interval.ms or session.timeout.ms of a live, slow process: the
\* partitions are free to move while it still works on its batch.
EvictLive(c) ==
    /\ member[c] /\ pc[c] # "stopped"
    /\ Incident
    /\ member' = [member EXCEPT ![c] = FALSE]
    /\ UNCHANGED <<deliveryVars, assigned, position, stored, pc, mode, batchVars,
                   todo, dlqQueue>>

------------------------------------------------------------------------------
(* The loop: poll() and handle().                                          *)

\* poll() returns the next message of an assigned partition and handle() puts
\* it in the batch; the client stores the offset to commit as it hands the
\* message over.  The caller says what becomes of valid, dlq and balance.
Fetch(c, p, m) ==
    /\ pc[c] = "poll" /\ mode[c] = "loop"
    /\ p \in assigned[c] /\ position[c][p] < LogEnd[p]
    /\ m = <<p, position[c][p]>>
    /\ position' = [position EXCEPT ![c][p] = @ + 1]
    /\ stored' = [stored EXCEPT ![c] = @ \union {p}]
    /\ consumed' = [consumed EXCEPT ![c] = @ \union {m}]
    /\ UNCHANGED <<deliveryVars, member, assigned, aged, dlqQueue, bounds>>

\* After handle() returns: if self.should_flush(): self.flush().
ThenFlushIfDue(c) ==
    /\ IF FlushDue(c, valid'[c])
       THEN BeginFlush(c, valid'[c])
       ELSE UNCHANGED <<pc, todo>>
    /\ UNCHANGED mode

\* Batch.seen_event_ids: the ids of the events this batch holds.
SeenEventIds(c) == { EventId[n] : n \in valid[c] }

HandleValid(c) ==
    \E p \in Partitions, m \in ValidMessage :
        /\ Fetch(c, p, m)
        /\ EventId[m] \notin SeenEventIds(c)
        /\ valid' = [valid EXCEPT ![c] = @ \union {m}]
        /\ balance' = [balance EXCEPT ![c] = @ + 1]
        /\ UNCHANGED dlq
        /\ ThenFlushIfDue(c)

\* Mutant of HandleDuplicate: duplicates_dropped is not counted.
HandleDuplicateUncounted(c) ==
    \E p \in Partitions, m \in ValidMessage :
        /\ Fetch(c, p, m)
        /\ EventId[m] \in SeenEventIds(c)
        /\ balance' = [balance EXCEPT ![c] = @ + 1]
        /\ UNCHANGED <<valid, dlq>>
        /\ ThenFlushIfDue(c)

HandleDuplicate(c) ==
    \E p \in Partitions, m \in ValidMessage :
        /\ Fetch(c, p, m)
        /\ EventId[m] \in SeenEventIds(c)
        /\ UNCHANGED <<valid, dlq, balance>>
        /\ ThenFlushIfDue(c)

HandleRejected(c) ==
    \E p \in Partitions, m \in RejectedMessage :
        /\ Fetch(c, p, m)
        /\ dlq' = [dlq EXCEPT ![c] = @ \union {m}]
        /\ UNCHANGED <<valid, balance>>
        /\ ThenFlushIfDue(c)

\* validate() raises: the message is counted and polled but in no list, and
\* the exception leaves the loop through "finally", which flushes.
HandleRaises(c) ==
    \E p \in Partitions, m \in Message :
        /\ Verdict[m] = "raise"
        /\ Fetch(c, p, m)
        /\ balance' = [balance EXCEPT ![c] = @ + 1]
        /\ mode' = [mode EXCEPT ![c] = "unwind"]
        /\ BeginFlush(c, valid[c])
        /\ UNCHANGED <<valid, dlq>>

\* poll() returns None, or the loop comes round with the batch due.  (poll()
\* returning None with nothing due, or a consumer error, changes nothing.)
PollNone(c) ==
    /\ pc[c] = "poll" /\ mode[c] = "loop"
    /\ ~IsEmpty(consumed[c]) /\ FlushDue(c, valid[c])
    /\ BeginFlush(c, valid[c])
    /\ UNCHANGED <<deliveryVars, groupVars, mode, batchVars, dlqQueue, bounds>>

\* batch_max_seconds pass.  The clock runs from the last reset, also while the
\* batch is empty.
Tick(c) ==
    /\ pc[c] = "poll" /\ ~aged[c]
    /\ aged' = [aged EXCEPT ![c] = TRUE]
    /\ UNCHANGED <<deliveryVars, groupVars, pc, mode, consumed, valid, dlq,
                   balance, todo, dlqQueue, bounds>>

\* Mutant of Stop: a batch of rejections alone counts as empty.
StopIfNothingValid(c) ==
    /\ pc[c] = "poll" /\ mode[c] = "loop"
    /\ stops < MaxStops /\ stops' = stops + 1
    /\ mode' = [mode EXCEPT ![c] = "final"]
    /\ IF IsEmpty(valid[c])
       THEN pc' = [pc EXCEPT ![c] = "close"] /\ UNCHANGED todo
       ELSE BeginFlush(c, valid[c])
    /\ UNCHANGED <<deliveryVars, groupVars, batchVars, dlqQueue, incidents>>

\* A signal, idle_timeout or max_messages ends the loop at its boundary.
Stop(c) ==
    /\ pc[c] = "poll" /\ mode[c] = "loop"
    /\ stops < MaxStops /\ stops' = stops + 1
    /\ mode' = [mode EXCEPT ![c] = "final"]
    /\ IF IsEmpty(consumed[c])
       THEN pc' = [pc EXCEPT ![c] = "close"] /\ UNCHANGED todo
       ELSE BeginFlush(c, valid[c])
    /\ UNCHANGED <<deliveryVars, groupVars, batchVars, dlqQueue, incidents>>

------------------------------------------------------------------------------
(* flush(): write, publish rejections, THEN commit.                        *)

\* An exception in flush().  Out of the loop it runs "finally", whose flush()
\* starts over with the whole batch ...
Unwind(c) ==
    /\ mode[c] = "loop"
    /\ mode' = [mode EXCEPT ![c] = "unwind"]
    /\ BeginFlush(c, valid[c])
    /\ UNCHANGED <<consumed, valid, dlq, aged>>

\* ... out of "finally" it ends the process without close(), so the group
\* learns of it by timeout.
Die(c) ==
    /\ mode[c] # "loop"
    /\ Exit(c)
    /\ UNCHANGED mode

Raise(c) == (Unwind(c) /\ UNCHANGED dlqQueue) \/ Die(c)

\* One file per directory, in sorted order: written under a temporary name
\* and renamed, so its rows appear at once.
WriteFile(c) ==
    /\ pc[c] = "write"
    /\ \E d \in todo[c] :
        /\ \A e \in todo[c] : d <= e
        /\ copies' = [m \in Message |->
                         IF m \in valid[c] /\ Directory[m] = d THEN copies[m] + 1
                                                              ELSE copies[m]]
        /\ todo' = [todo EXCEPT ![c] = @ \ {d}]
    /\ UNCHANGED <<dlqTopic, committed, groupVars, pc, mode, batchVars, dlqQueue,
                   bounds>>

\* Mutant of WriteFails: the exception is logged and flush() goes on.
WriteFailureLogged(c) ==
    /\ pc[c] = "write" /\ todo[c] # {}
    /\ Incident
    /\ todo' = [todo EXCEPT ![c] = {}]
    /\ UNCHANGED <<deliveryVars, groupVars, pc, mode, batchVars, dlqQueue>>

WriteFails(c) ==
    /\ pc[c] = "write" /\ todo[c] # {}
    /\ Incident
    /\ Raise(c)
    /\ UNCHANGED <<deliveryVars, groupVars, balance>>

\* write() returned: count the rows and hand every rejection to the producer.
PublishRejections(c) ==
    /\ pc[c] = "write" /\ todo[c] = {}
    /\ balance' = [balance EXCEPT ![c] = @ - Cardinality(valid[c])]
    /\ dlqQueue' = [dlqQueue EXCEPT ![c] = @ \union dlq[c]]
    /\ pc' = [pc EXCEPT ![c] = IF dlq[c] = {} THEN "commit" ELSE "dlq"]
    /\ UNCHANGED <<deliveryVars, groupVars, mode, consumed, valid, dlq, aged, todo,
                   bounds>>

\* The producer refuses a rejection with anything but a full queue, which send()
\* waits out: the rows are counted and some rejections queued when the
\* exception leaves flush().
PublishRaises(c) ==
    /\ pc[c] = "write" /\ todo[c] = {} /\ dlq[c] # {}
    /\ Incident
    /\ balance' = [balance EXCEPT ![c] = @ - Cardinality(valid[c])]
    /\ \/ /\ Unwind(c)
          /\ \E queued \in SUBSET dlq[c] :
                /\ queued # dlq[c]
                /\ dlqQueue' = [dlqQueue EXCEPT ![c] = @ \union queued]
       \/ Die(c)
    /\ UNCHANGED <<deliveryVars, groupVars>>

\* Mutant of DlqFlushed: dlq.flush(0).
DlqNotFlushed(c) ==
    /\ pc[c] = "dlq"
    /\ pc' = [pc EXCEPT ![c] = "commit"]
    /\ UNCHANGED <<deliveryVars, groupVars, mode, batchVars, todo, dlqQueue,
                   bounds>>

\* dlq.flush(30) returns with the queue empty, or after thirty seconds; the
\* number of messages still queued, which it returns, is not looked at.
DlqFlushed(c) ==
    /\ pc[c] = "dlq"
    /\ dlqQueue[c] = {} \/ DlqOutage
    /\ pc' = [pc EXCEPT ![c] = "commit"]
    /\ UNCHANGED <<deliveryVars, groupVars, mode, batchVars, todo, dlqQueue,
                   bounds>>

\* The producer's own thread delivers a rejection ...
Deliver(c) ==
    \E m \in dlqQueue[c] :
        /\ dlqTopic' = dlqTopic \union {m}
        /\ dlqQueue' = [dlqQueue EXCEPT ![c] = @ \ {m}]
        /\ UNCHANGED <<copies, committed, groupVars, pc, mode, batchVars, todo,
                       bounds>>

\* ... or gives it up after its own timeout; _on_delivery only counts it.
DeliveryFails(c) ==
    \E m \in dlqQueue[c] :
        /\ DlqOutage
        /\ dlqQueue' = [dlqQueue EXCEPT ![c] = @ \ {m}]
        /\ UNCHANGED <<deliveryVars, groupVars, pc, mode, batchVars, todo,
                       bounds>>

\* What commit() without arguments makes of the group's offsets.
AfterCommit(c) ==
    [p \in Partitions |-> IF p \in stored[c] THEN position[c][p] ELSE committed[p]]

\* Mutant of Commit: an evicted member's commit is accepted.
CommitUnfenced(c) ==
    /\ pc[c] = "commit" /\ stored[c] # {}
    /\ committed' = AfterCommit(c)
    /\ stored' = [stored EXCEPT ![c] = {}]
    /\ ResetBatch(c)
    /\ pc' = [pc EXCEPT ![c] = IF mode[c] = "loop" THEN "poll" ELSE "close"]
    /\ UNCHANGED <<copies, dlqTopic, member, assigned, position, mode, balance,
                   todo, dlqQueue, bounds>>

Commit(c) ==
    /\ pc[c] = "commit" /\ member[c] /\ stored[c] # {}
    /\ committed' = AfterCommit(c)
    /\ stored' = [stored EXCEPT ![c] = {}]
    /\ ResetBatch(c)
    /\ pc' = [pc EXCEPT ![c] = IF mode[c] = "loop" THEN "poll" ELSE "close"]
    /\ UNCHANGED <<copies, dlqTopic, member, assigned, position, mode, balance,
                   todo, dlqQueue, bounds>>

\* The commit raises: the coordinator no longer knows this member, or there is
\* no stored offset to commit.
CommitRaises(c) ==
    /\ pc[c] = "commit" /\ (~member[c] \/ stored[c] = {})
    /\ Raise(c)
    /\ UNCHANGED <<deliveryVars, groupVars, balance, bounds>>

\* The commit of a good member raises: the broker refused it, or did it and the
\* answer is lost.
CommitFails(c) ==
    /\ pc[c] = "commit" /\ member[c] /\ stored[c] # {}
    /\ Incident
    /\ committed' \in {committed, AfterCommit(c)}
    /\ Raise(c)
    /\ UNCHANGED <<copies, dlqTopic, groupVars, balance>>

\* consumer.close(): leave the group; run() returns its statistics, or lets
\* the exception go on.
Close(c) ==
    /\ pc[c] = "close"
    /\ member' = [member EXCEPT ![c] = FALSE]
    /\ assigned' = [assigned EXCEPT ![c] = {}]
    /\ Exit(c)
    /\ stored' = [stored EXCEPT ![c] = {}]
    /\ UNCHANGED <<deliveryVars, position, mode, balance, bounds>>

\* SIGKILL, at any point.
Kill(c) ==
    /\ pc[c] # "stopped"
    /\ Incident
    /\ Exit(c)
    /\ UNCHANGED <<deliveryVars, groupVars, mode, balance>>

------------------------------------------------------------------------------
Handle(c) == HandleValid(c) \/ HandleDuplicate(c) \/ HandleRejected(c) \/ HandleRaises(c)

Flush(c) ==
    \/ WriteFile(c) \/ WriteFails(c) \/ PublishRejections(c) \/ PublishRaises(c)
    \/ DlqFlushed(c) \/ Commit(c) \/ CommitRaises(c) \/ CommitFails(c)

Group(c) ==
    \/ Start(c) \/ Rejoin(c) \/ ExpireDead(c) \/ EvictLive(c)
    \/ \E p \in Partitions : Assign(c, p) \/ Revoke(c, p)

Next ==
    \E c \in Consumers :
        \/ Group(c)
        \/ Handle(c) \/ PollNone(c) \/ Tick(c) \/ Stop(c)
        \/ Flush(c) \/ Close(c) \/ Kill(c)
        \/ Deliver(c) \/ DeliveryFails(c)

Spec == Init /\ [][Next]_vars

\* What the scheduling justifies: a live process goes on with its loop and its
\* flush (poll() does not return errors for ever), its clock runs, its producer
\* thread delivers, and the coordinator expires dead members and assigns free
\* partitions.  That a process that ended is started again is up to whoever
\* runs the consumer.
Fairness ==
    /\ \A c \in Consumers :
        /\ WF_vars(Start(c)) /\ WF_vars(Rejoin(c)) /\ WF_vars(ExpireDead(c))
        /\ WF_vars(Handle(c)) /\ WF_vars(PollNone(c)) /\ WF_vars(Tick(c))
        /\ WF_vars(WriteFile(c) \/ PublishRejections(c) \/ DlqFlushed(c))
        /\ WF_vars(Commit(c) \/ CommitRaises(c) \/ CommitFails(c))
        /\ WF_vars(Close(c)) /\ WF_vars(Deliver(c))
    /\ \A p \in Partitions : WF_vars(\E c \in Consumers : Assign(c, p))

FairSpec == Spec /\ Fairness

------------------------------------------------------------------------------
(* Properties.                                                             *)

\* No committed offset passes a message that is neither in the landing zone
\* nor in the dead letter queue, whatever dies, stalls or moves in between:
\* flush() commits last (consumer.py, "The order is the entire safety
\* property").
CommittedAccounted ==
    \A m \in Message : m[2] < committed[m[1]] => Accounted(m)

\* A valid event is never lost, whatever the validator makes of other messages
\* and whatever becomes of the dead letter broker: an offset is committed past
\* it only when its event has a row.  What the flush in "finally" and an
\* unread dlq.flush(30) may lose are messages that are no events.
NoEventLost ==
    \A m \in ValidMessage : m[2] < committed[m[1]] => Accounted(m)

\* Invariant N1 of IngestionStats.reconciles(): when run() returns its
\* statistics, everything polled was landed, rejected or dropped as a
\* duplicate, over the batches, rejoins and revocations of the process.  After
\* an exception, hence after a second flush of a batch, run() returns none.
ReconcilesAtReturn ==
    \A c \in Consumers : pc[c] = "close" /\ mode[c] = "final" => balance[c] = 0

\* A graceful stop never leaves work uncommitted (consumer.py, the comment on
\* "finally"): when the loop ended normally and the process, still a member,
\* is about to close, it has committed all it polled.
GracefulStopCommits ==
    \A c \in Consumers :
        pc[c] = "close" /\ mode[c] = "final" /\ member[c] =>
            \A p \in assigned[c] : committed[p] = position[c][p]

\* Duplicates have a cause and a price: a message lands once, and each fault -
\* a kill, an eviction, a revocation, a failed write or commit, a refused
\* rejection - adds at most two copies of it, one written by the flush in the
\* loop and one by the flush of its "finally".  A graceful stop or restart
\* adds none.
DuplicatesBounded == \A m \in Message : copies[m] <= 1 + 2 * incidents

\* The consumer implements the at-least-once contract: landing, quarantine and
\* acknowledgement in any interleaving, offsets that only grow, and no
\* acknowledgement before everything below it is accounted for.
Delivery == delivery!DeliverySpec

\* Every message is eventually committed, hence accounted for: the size and
\* the time trigger between them never leave a partial batch unwritten, and a
\* partition whose consumer died is consumed by another.
EventuallyDrained == <>[](committed = LogEnd)

------------------------------------------------------------------------------
(* The inductive invariant behind CommittedAccounted, NoEventLost and       *)
(* Delivery.                                                               *)

\* The validator never raises and the dead letter broker answers in time.
Dependable == ~DlqOutage /\ \A m \in Message : Verdict[m] # "raise"

\* The messages that are never lost: all of them when those two are
\* dependable, the valid ones in any case.
Safe == IF Dependable THEN Message ELSE ValidMessage

SafeAccounted == \A m \in Safe : m[2] < committed[m[1]] => Accounted(m)

Alive(c) == pc[c] # "stopped"

\* m is in hand: the batch of c has its event, or its rejection.
Held(c, m) == delivery!AccountedIn(m, valid[c], dlq[c])

BatchSound(c) ==
    /\ IsFiniteSet(valid[c]) /\ valid[c] \subseteq ValidMessage
    /\ dlq[c] \subseteq RejectedMessage
    /\ dlqQueue[c] \subseteq RejectedMessage

\* What a process has polled of its partitions is accounted for or in hand.
PolledAccounted(c) ==
    \A m \in Safe :
        Alive(c) /\ m[1] \in assigned[c] /\ m[2] < position[c][m[1]] =>
            Accounted(m) \/ Held(c, m)

\* How far flush() has come, read off the state of the batch.
FlushOrdered(c) ==
    /\ pc[c] = "write" => \A m \in valid[c] : Directory[m] \in todo[c] \/ m \in Landed
    /\ pc[c] \in {"dlq", "commit"} => valid[c] \subseteq Landed
    /\ Dependable =>
          /\ pc[c] = "dlq" => dlq[c] \subseteq dlqQueue[c] \union dlqTopic
          /\ pc[c] = "commit" => dlq[c] \subseteq dlqTopic

\* What a process may commit: offsets of partitions it has, not behind those
\* committed while it is a member.
OffsetsOrdered(c) ==
    Alive(c) =>
        /\ stored[c] \subseteq assigned[c]
        /\ \A p \in assigned[c] :
              /\ position[c][p] <= LogEnd[p]
              /\ member[c] => committed[p] <= position[c][p]

ProcessInv(c) ==
    BatchSound(c) /\ PolledAccounted(c) /\ FlushOrdered(c) /\ OffsetsOrdered(c)

\* A partition has one owner among the members, dead ones included.
OwnersDisjoint ==
    \A c, d \in Consumers :
        member[c] /\ member[d] /\ c # d => assigned[c] \intersect assigned[d] = {}

OffsetsBounded == \A p \in Partitions : committed[p] <= LogEnd[p]

Inv ==
    /\ TypeOK
    /\ SafeAccounted
    /\ OwnersDisjoint
    /\ OffsetsBounded
    /\ \A c \in Consumers : ProcessInv(c)
==============================================================================
