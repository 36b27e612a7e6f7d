---------------------------- MODULE EventDelivery ----------------------------
(***************************************************************************)
(* What ingestion promises its neighbours, with no consumer in it.         *)
(*                                                                         *)
(* A topic is a set of partitions, each a log of messages numbered from 0. *)
(* Messages reach the landing zone or the dead letter queue, in any order  *)
(* and any number of times; an offset is acknowledged to Kafka only when   *)
(* every message below it is in one of the two.  This is "at least once":  *)
(*                                                                         *)
(*   "Losing data is not recoverable; duplicating it is."                  *)
(*                                              (ingestion/__init__.py)    *)
(*                                                                         *)
(* Module Ingestion is shown to implement it.                              *)
(***************************************************************************)
EXTENDS Naturals

CONSTANTS
    Partitions,   \* the partitions of the source topics
    LogEnd,       \* LogEnd[p]: the number of messages of partition p
    EventId,      \* EventId[m]: the event_id a message carries
    Verdict       \* Verdict[m]: what validating the message comes to

\* A message is named by its Kafka coordinates: <<partition, offset>>.
Message == UNION { {p} \X (0 .. LogEnd[p] - 1) : p \in Partitions }

\* "valid" and "reject" are the two results of Validator.validate; "raise" is
\* a message on which validate() itself raises, which returns neither.
Verdicts == {"valid", "reject", "raise"}

ValidMessage    == { m \in Message : Verdict[m] = "valid" }
RejectedMessage == { m \in Message : Verdict[m] = "reject" }

VARIABLES
    landed,       \* the messages with a row in the landing zone
    dlqTopic,     \* the messages the dead letter topics hold
    committed     \* committed[p]: the group's committed offset of partition p

deliveryVars == <<landed, dlqTopic, committed>>

------------------------------------------------------------------------------
(* Nothing may vanish: a message is accounted for when its event has a row  *)
(* in the landing zone - its own, or that of another message with the same  *)
(* event_id - or when its bytes are in the dead letter queue.               *)
AccountedIn(m, rows, dead) ==
    \/ m \in ValidMessage /\ \E n \in rows : EventId[n] = EventId[m]
    \/ m \in dead

Accounted(m) == AccountedIn(m, landed, dlqTopic)

AllAccountedBelow(offsets) ==
    \A m \in Message : m[2] < offsets[m[1]] => Accounted(m)

DeliveryInit ==
    /\ landed = {}
    /\ dlqTopic = {}
    /\ committed = [p \in Partitions |-> 0]

Land ==
    /\ \E rows \in SUBSET ValidMessage : landed' = landed \union rows
    /\ UNCHANGED <<dlqTopic, committed>>

Quarantine ==
    /\ \E m \in RejectedMessage : dlqTopic' = dlqTopic \union {m}
    /\ UNCHANGED <<landed, committed>>

Acknowledge ==
    /\ committed' \in [Partitions -> Nat]
    /\ \A p \in Partitions : committed[p] <= committed'[p] /\ committed'[p] <= LogEnd[p]
    /\ AllAccountedBelow(committed')
    /\ UNCHANGED <<landed, dlqTopic>>

DeliveryNext == Land \/ Quarantine \/ Acknowledge

DeliverySpec == DeliveryInit /\ [][DeliveryNext]_deliveryVars
==============================================================================
