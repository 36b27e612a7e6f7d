-------------------------------- MODULE Producer --------------------------------
(***************************************************************************)
(* The emission of the stream: event_generator/kafka_sink.py and main.py,  *)
(* over the local queue of librdkafka and the broker behind it, and the    *)
(* broker-free ingestion/direct_landing_sink.py.                           *)
(*                                                                         *)
(* librdkafka is modelled from its use, with the idempotence that          *)
(* ProducerConfig asks for: produce() queues a message, each partition     *)
(* takes its messages in the order they were queued and nothing orders two *)
(* partitions, a message that is not acknowledged within                   *)
(* delivery.timeout.ms is given up, written or not, and the delivery       *)
(* reports wait until poll() or flush() serves them.  A message is         *)
(* outstanding until its report is served.                                 *)
(*                                                                         *)
(* A message is the position of its event in the stream.                   *)
(***************************************************************************)
EXTENDS Anomalies

CONSTANTS
    PartitionFor,   \* the partitioner: the partition of a key
    FlushEvery,     \* flush_every
    QueueMax        \* queue.buffering.max.messages

ASSUME ProducerAssumption == FlushEvery \in Nat \ {0} /\ QueueMax \in Nat

VARIABLES
    pc,             \* where main() and KafkaSink.write are
    produced,       \* events handed to the producer
    queue,          \* messages the broker has not settled, as produced
    reports,        \* delivery reports not yet served
    topic,          \* the messages the broker wrote, as its partitions took them
    delivered, failed,      \* DeliveryReport
    exit,           \* the exit code, or Running
    landed, rejected        \* DirectLandingSink: the offsets of records, and the rest

sink         == <<pc, produced, delivered, failed, exit>>
broker       == <<queue, reports, topic>>
direct       == <<landed, rejected>>
producerVars == <<anomalyVars, sink, broker, direct>>

Running     == -1
Outstanding == Len(queue) + Len(reports)

PresenceEventTypes == {"DriverOnline", "DriverOffline"}

TopicFor(e) == IF e.type \in PresenceEventTypes THEN "presence" ELSE "trips"

\* The partition a message goes to.
Lane(i) == <<TopicFor(events[i]), PartitionFor[events[i].key]>>

ProducerInit ==
    /\ AnomalyInit
    /\ pc = "generate" /\ produced = 0 /\ delivered = 0 /\ failed = 0 /\ exit = Running
    /\ queue = <<>> /\ reports = <<>> /\ topic = <<>>
    /\ landed = {} /\ rejected = 0

Generate ==
    /\ pc = "generate"
    /\ AnomalyNext
    /\ pc' = IF phase' = "write" THEN "choose" ELSE pc
    /\ UNCHANGED <<produced, delivered, failed, exit, broker, direct>>

Finish(code) == pc' = "done" /\ exit' = code

--------------------------------------------------------------------------------
(* DirectLandingSink: validate, leave out the rejected, write the rest. *)

(* Mutant: the first invalid event ends the loop.                          *)
WriteDirectStops ==
    /\ pc = "choose"
    /\ landed' = {i \in DOMAIN events : \A k \in 1 .. i : Rejection(events[k]) = "NONE"}
    /\ rejected' = Cardinality(DOMAIN events \ landed')
    /\ Finish(0)
    /\ UNCHANGED <<anomalyVars, produced, delivered, failed, broker>>

WriteDirect ==
    /\ pc = "choose"
    /\ landed' = {i \in DOMAIN events : Rejection(events[i]) = "NONE"}
    /\ rejected' = Cardinality(DOMAIN events \ landed')
    /\ Finish(0)
    /\ UNCHANGED <<anomalyVars, produced, delivered, failed, broker>>

--------------------------------------------------------------------------------
(* KafkaSink *)

\* Without an answer to broker_available() nothing is produced.  A configuration that
\* ProducerConfig does not take is a ValueError, and nobody catches it.
Probe ==
    /\ pc = "choose"
    /\ \/ pc' = "produce" /\ UNCHANGED exit
       \/ Finish(2)
       \/ Finish(1)
    /\ UNCHANGED <<anomalyVars, produced, delivered, failed, broker, direct>>

(* Mutant: a report that carries an error counts as a delivery.            *)
ServeAsDelivered ==
    /\ reports' = <<>>
    /\ delivered' = delivered + Len(reports)
    /\ UNCHANGED failed

Waiting(verdict) == {i \in DOMAIN reports : reports[i] = verdict}

\* poll() and flush() call _on_delivery for every report that is waiting.
Serve ==
    /\ reports' = <<>>
    /\ delivered' = delivered + Cardinality(Waiting("ok"))
    /\ failed'    = failed + Cardinality(Waiting("error"))

\* produce(), then flush(30) after every FlushEvery messages, else poll(0).
Produce ==
    /\ pc = "produce" /\ produced < Len(events) /\ Outstanding < QueueMax
    /\ queue' = Append(queue, produced + 1)
    /\ produced' = produced + 1
    /\ pc' = IF produced' % FlushEvery = 0 THEN "flush" ELSE "poll"
    /\ UNCHANGED <<anomalyVars, reports, topic, delivered, failed, exit, direct>>

\* Any other exception of produce() (KafkaException, a message too large) is caught by nobody.
ProduceRaises ==
    /\ pc = "produce" /\ produced < Len(events)
    /\ Finish(1)
    /\ UNCHANGED <<anomalyVars, produced, delivered, failed, broker, direct>>

(* Mutant: a message that does not fit is skipped.                         *)
QueueFullSkips ==
    /\ pc = "produce" /\ produced < Len(events) /\ Outstanding >= QueueMax
    /\ Serve
    /\ produced' = produced + 1
    /\ UNCHANGED <<anomalyVars, pc, queue, topic, exit, direct>>

(* Mutant: it is tried again, and no callback is served.                   *)
QueueFullSpins ==
    /\ pc = "produce" /\ produced < Len(events) /\ Outstanding >= QueueMax
    /\ UNCHANGED producerVars

\* BufferError: poll(0.5) serves the callbacks and the same message is tried again.
QueueFull ==
    /\ pc = "produce" /\ produced < Len(events) /\ Outstanding >= QueueMax
    /\ Serve
    /\ UNCHANGED <<anomalyVars, pc, produced, queue, topic, exit, direct>>

Poll ==
    /\ pc = "poll"
    /\ Serve
    /\ pc' = "produce"
    /\ UNCHANGED <<anomalyVars, produced, queue, topic, exit, direct>>

\* Within a flush, reports are served as they come.
FlushServes ==
    /\ pc \in {"flush", "final"} /\ reports # <<>>
    /\ Serve
    /\ UNCHANGED <<anomalyVars, pc, produced, queue, topic, exit, direct>>

\* flush(30) is over, with or without something outstanding: nobody asks.
FlushEnds ==
    /\ pc = "flush"
    /\ pc' = "produce"
    /\ UNCHANGED <<anomalyVars, produced, delivered, failed, exit, broker, direct>>

AllProduced ==
    /\ pc = "produce" /\ produced = Len(events)
    /\ pc' = "final"
    /\ UNCHANGED <<anomalyVars, produced, delivered, failed, exit, broker, direct>>

(* Mutant: main() catches the exception and goes on without a code.        *)
VerdictSwallowed ==
    /\ pc' = "done"
    /\ exit' = IF delivered = 0 /\ produced > 0 THEN exit ELSE 0

\* KafkaUnavailableError unless something was delivered; main() makes it a 2.
Verdict == Finish(IF delivered = 0 /\ produced > 0 THEN 2 ELSE 0)

\* flush(60) is over: what remains is one error, however much it is.
FinalFlushEnds ==
    /\ pc = "final"
    /\ failed' = IF Outstanding > 0 THEN failed + 1 ELSE failed
    /\ Verdict
    /\ UNCHANGED <<anomalyVars, produced, delivered, broker, direct>>

--------------------------------------------------------------------------------
(* The broker *)

\* Partitions settle their messages in order.
Oldest == {n \in DOMAIN queue : \A m \in 1 .. n - 1 : Lane(queue[m]) # Lane(queue[n])}

Settle(n, verdict) ==
    /\ queue' = RemoveAt(queue, n)
    /\ reports' = Append(reports, verdict)
    /\ UNCHANGED <<anomalyVars, sink, direct>>

Acknowledge ==
    /\ pc # "done"
    /\ \E n \in Oldest :
          /\ topic' = Append(topic, queue[n])
          /\ Settle(n, "ok")

\* The message was not written, or it was and the acknowledgement is lost.
TimeOut ==
    /\ pc # "done"
    /\ \E n \in Oldest :
          /\ topic' \in {topic, Append(topic, queue[n])}
          /\ Settle(n, "error")

Write ==
    \/ Probe \/ WriteDirect
    \/ Produce \/ QueueFull \/ Poll \/ FlushServes \/ FlushEnds \/ AllProduced
    \/ FinalFlushEnds

Broker == Acknowledge \/ TimeOut

ProducerNext == Generate \/ Write \/ ProduceRaises \/ Broker

(***************************************************************************)
(* Fairness: the process runs, and delivery.timeout.ms settles a message   *)
(* that the broker does not.  That produce() raises is promised by nobody. *)
(***************************************************************************)
ProducerSpec ==
    /\ ProducerInit /\ [][ProducerNext]_producerVars
    /\ WF_producerVars(Generate) /\ WF_producerVars(Write) /\ WF_producerVars(Broker)

--------------------------------------------------------------------------------
ProducerTypeOK ==
    /\ phase \in {"orphan", "mutate", "write"} /\ report \in [Counters -> 0 .. MaxAnomalies]
    /\ produced \in 0 .. Len(events) /\ Outstanding <= QueueMax
    /\ delivered \in Nat /\ failed \in Nat
    /\ exit \in {Running, 0, 1, 2} /\ (exit = Running <=> pc # "done")

(***************************************************************************)
(* "Dropping the message instead would be silent data loss at the source"  *)
(* (kafka_sink.py:204): a run that ends with 0 and reports no failure left *)
(* every event of the stream on its topic, once, although the queue filled *)
(* up, flushes timed out and their results were not read; and every        *)
(* partition holds its keys' events in the order of the stream, which is   *)
(* what "per-trip ordering" and "per-driver ordering" (kafka_sink.py:126)  *)
(* ask of a retry.                                                         *)
(***************************************************************************)
CleanReportIsComplete ==
    pc = "done" /\ exit = 0 /\ failed = 0 /\ produced > 0 =>
        /\ Len(topic) = Len(events) /\ ToSet(topic) = DOMAIN events
        /\ \A i, j \in DOMAIN topic :
              i < j /\ Lane(topic[i]) = Lane(topic[j]) => topic[i] < topic[j]

(***************************************************************************)
(* The report never claims more than happened: each delivery is a message  *)
(* on the topic, no event is counted twice, and exit code 2 means that not *)
(* one delivery was confirmed.                                             *)
(***************************************************************************)
ReportIsHonest ==
    /\ delivered <= Len(topic)
    /\ delivered + failed <= produced
    /\ exit = 2 => delivered = 0

(***************************************************************************)
(* "Omit only the invalid messages" (direct_landing_sink.py:34): what the  *)
(* broker-free sink lands of a stream is every event that was not damaged, *)
(* its valid anomalies with it, and no other; and the rejected are the     *)
(* rest.                                                                   *)
(***************************************************************************)
DirectLandsTheRest ==
    pc = "done" /\ produced = 0 /\ exit = 0 /\ events # <<>> =>
        /\ \A i \in DOMAIN events :
              /\ i \in landed <=> events[i].wellFormed /\ "malformed_json" \notin events[i].tags
              /\ "malformed" \notin events[i].tags => i \in landed
        /\ landed \subseteq DOMAIN events
        /\ rejected = Len(events) - Cardinality(landed)

(***************************************************************************)
(* write() returns, a stopped broker notwithstanding: the retry on a full  *)
(* queue has no bound of its own (kafka_sink.py:190).                      *)
(***************************************************************************)
WriteReturns == <>(pc = "done")
================================================================================
