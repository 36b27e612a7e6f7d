--------------------------- MODULE IngestionProofs ---------------------------
(***************************************************************************)
(* Proofs about Ingestion, for any group, topics, validator, broker and    *)
(* batch size: what the variables hold, what a step of one process leaves  *)
(* alone, and what a process has reported and committed when it stops.     *)
(*                                                                         *)
(* A process that stops.  The batch is empty whenever run() is not inside  *)
(* it, the counters of its statistics differ by the rows of the open batch *)
(* (BalanceTracked), and a partition whose stored offset is not set has    *)
(* its committed offset at the position of the member that owns it         *)
(* (StoredTracked).  A process in close() has flushed what it polled, so   *)
(* it has nothing stored: it leaves no offset behind and owes no row.      *)
(***************************************************************************)
EXTENDS Ingestion, FiniteSetTheorems, TLAPS

\* A message is a pair of a partition and an offset of it.
LEMMA MessageForm ==
    ASSUME NEW m \in Message
    PROVE  /\ m = <<m[1], m[2]>>
           /\ m[1] \in Partitions
           /\ m[2] \in Nat
           /\ m[2] < LogEnd[m[1]]
<1>1. PICK p \in Partitions : m \in {p} \X (0 .. LogEnd[p] - 1)
  BY DEF Message, delivery!Message
<1>2. LogEnd[p] \in Nat
  BY LogEndAssumption
<1> QED
  BY <1>1, <1>2

\* A batch's rows and directories stay finite sets of naturals.
LEMMA DirectoriesNat ==
    ASSUME NEW rows \in SUBSET Message
    PROVE  Directories(rows) \in SUBSET Nat
  BY DirectoryAssumption DEF Directories

\* The batches are finite: what TypeOK needs to count the rows of one.
BatchesFinite == \A c \in Consumers : IsFiniteSet(valid[c])

TypeInv == TypeOK /\ BatchesFinite

LEMMA TypeInit == Init => TypeInv
<1> SUFFICES ASSUME Init PROVE TypeInv
  OBVIOUS
<1>1. TypeOK
  BY DEF Init, TypeOK, Control, Mode
<1>2. BatchesFinite
  BY FS_EmptySet DEF Init, BatchesFinite
<1> QED
  BY <1>1, <1>2 DEF TypeInv

\* What the parts shared by several actions do to the types.
LEMMA BeginFlushTypes ==
    ASSUME TypeOK, NEW c \in Consumers, NEW rows \in SUBSET Message,
           BeginFlush(c, rows)
    PROVE  pc' \in [Consumers -> Control] /\ todo' \in [Consumers -> SUBSET Nat]
<1>1. Directories(rows) \in SUBSET Nat
  BY DirectoriesNat
<1> QED
  BY <1>1 DEF BeginFlush, TypeOK, Control

LEMMA ThenFlushTypes ==
    ASSUME TypeOK, NEW c \in Consumers, valid'[c] \in SUBSET Message,
           ThenFlushIfDue(c)
    PROVE  /\ pc' \in [Consumers -> Control]
           /\ mode' \in [Consumers -> Mode]
           /\ todo' \in [Consumers -> SUBSET Nat]
  BY BeginFlushTypes DEF ThenFlushIfDue, TypeOK

LEMMA FetchTypes ==
    ASSUME TypeOK, NEW c \in Consumers, NEW p \in Partitions, NEW m \in Message,
           Fetch(c, p, m)
    PROVE  /\ position' \in [Consumers -> [Partitions -> Nat]]
           /\ stored' \in [Consumers -> SUBSET Partitions]
           /\ consumed' \in [Consumers -> SUBSET Message]
           /\ UNCHANGED <<copies, dlqTopic, committed, member, assigned, aged,
                          dlqQueue, incidents, stops>>
<1>1. position[c] \in [Partitions -> Nat] /\ position[c][p] + 1 \in Nat
  BY DEF TypeOK
<1>2. position' \in [Consumers -> [Partitions -> Nat]]
  BY <1>1 DEF Fetch, TypeOK
<1>3. stored' \in [Consumers -> SUBSET Partitions]
  BY DEF Fetch, TypeOK
<1>4. consumed' \in [Consumers -> SUBSET Message]
  BY DEF Fetch, TypeOK
<1>5. UNCHANGED <<copies, dlqTopic, committed, member, assigned, aged, dlqQueue,
                  incidents, stops>>
  BY DEF Fetch, deliveryVars, bounds
<1> QED
  BY <1>2, <1>3, <1>4, <1>5

LEMMA ExitTypes ==
    ASSUME TypeInv, NEW c \in Consumers, Exit(c)
    PROVE  /\ pc' \in [Consumers -> Control]
           /\ consumed' \in [Consumers -> SUBSET Message]
           /\ valid' \in [Consumers -> SUBSET Message]
           /\ dlq' \in [Consumers -> SUBSET Message]
           /\ aged' \in [Consumers -> BOOLEAN]
           /\ todo' \in [Consumers -> SUBSET Nat]
           /\ dlqQueue' \in [Consumers -> SUBSET Message]
           /\ BatchesFinite'
  BY FS_EmptySet DEF Exit, ResetBatch, TypeInv, TypeOK, BatchesFinite, Control

LEMMA UnwindTypes ==
    ASSUME TypeInv, NEW c \in Consumers, Unwind(c)
    PROVE  /\ pc' \in [Consumers -> Control]
           /\ mode' \in [Consumers -> Mode]
           /\ consumed' \in [Consumers -> SUBSET Message]
           /\ valid' \in [Consumers -> SUBSET Message]
           /\ dlq' \in [Consumers -> SUBSET Message]
           /\ aged' \in [Consumers -> BOOLEAN]
           /\ todo' \in [Consumers -> SUBSET Nat]
           /\ BatchesFinite'
<1>1. valid[c] \in SUBSET Message /\ BeginFlush(c, valid[c])
  BY DEF Unwind, TypeInv, TypeOK
<1>2. pc' \in [Consumers -> Control] /\ todo' \in [Consumers -> SUBSET Nat]
  BY <1>1, BeginFlushTypes DEF TypeInv
<1> QED
  BY <1>2 DEF Unwind, TypeInv, TypeOK, BatchesFinite, Mode

LEMMA RaiseTypes ==
    ASSUME TypeInv, NEW c \in Consumers, Raise(c)
    PROVE  /\ pc' \in [Consumers -> Control]
           /\ mode' \in [Consumers -> Mode]
           /\ consumed' \in [Consumers -> SUBSET Message]
           /\ valid' \in [Consumers -> SUBSET Message]
           /\ dlq' \in [Consumers -> SUBSET Message]
           /\ aged' \in [Consumers -> BOOLEAN]
           /\ todo' \in [Consumers -> SUBSET Nat]
           /\ dlqQueue' \in [Consumers -> SUBSET Message]
           /\ BatchesFinite'
<1>1. CASE Unwind(c) /\ UNCHANGED dlqQueue
  BY <1>1, UnwindTypes DEF TypeInv, TypeOK
<1>2. CASE Die(c)
  BY <1>2, ExitTypes DEF Die, TypeInv, TypeOK
<1> QED
  BY <1>1, <1>2 DEF Raise

\* Every step of every process keeps the types.
LEMMA TypeStep == TypeInv /\ [Next]_vars => TypeInv'
<1> SUFFICES ASSUME TypeInv, [Next]_vars PROVE TypeInv'
  OBVIOUS
<1> USE DEF TypeInv, TypeOK, BatchesFinite, Control, Mode, deliveryVars,
            groupVars, batchVars, bounds
<1> DEFINE Goal == TypeInv'
<1>1. ASSUME NEW c \in Consumers, Group(c) PROVE Goal
  <2>1. CASE Start(c) BY <2>1 DEF Start
  <2>2. CASE Rejoin(c) BY <2>2 DEF Rejoin
  <2>3. CASE ExpireDead(c) BY <2>3 DEF ExpireDead
  <2>4. CASE EvictLive(c) BY <2>4 DEF EvictLive, Incident
  <2>5. ASSUME NEW p \in Partitions, Assign(c, p) PROVE Goal
    BY <2>5 DEF Assign
  <2>6. ASSUME NEW p \in Partitions, Revoke(c, p) PROVE Goal
    BY <2>6 DEF Revoke, Incident
  <2> QED
    BY <1>1, <2>1, <2>2, <2>3, <2>4, <2>5, <2>6 DEF Group
<1>2. ASSUME NEW c \in Consumers, HandleValid(c) PROVE Goal
  <2>1. PICK p \in Partitions, m \in ValidMessage :
             /\ Fetch(c, p, m)
             /\ valid' = [valid EXCEPT ![c] = @ \union {m}]
             /\ balance' = [balance EXCEPT ![c] = @ + 1]
             /\ UNCHANGED dlq
             /\ ThenFlushIfDue(c)
    BY <1>2 DEF HandleValid
  <2>2. m \in Message
    BY DEF ValidMessage, delivery!ValidMessage, Message
  <2>3. IsFiniteSet(valid'[c])
    BY <2>1, FS_AddElement
  <2>4. valid'[c] \in SUBSET Message
    BY <2>1, <2>2
  <2> QED
    BY <2>1, <2>2, <2>3, <2>4, FetchTypes, ThenFlushTypes
<1>3. ASSUME NEW c \in Consumers, HandleDuplicate(c) PROVE Goal
  <2>1. PICK p \in Partitions, m \in ValidMessage :
             /\ Fetch(c, p, m)
             /\ UNCHANGED <<valid, dlq, balance>>
             /\ ThenFlushIfDue(c)
    BY <1>3 DEF HandleDuplicate
  <2>2. m \in Message /\ valid'[c] \in SUBSET Message
    BY <2>1 DEF ValidMessage, delivery!ValidMessage, Message
  <2> QED
    BY <2>1, <2>2, FetchTypes, ThenFlushTypes
<1>4. ASSUME NEW c \in Consumers, HandleRejected(c) PROVE Goal
  <2>1. PICK p \in Partitions, m \in RejectedMessage :
             /\ Fetch(c, p, m)
             /\ dlq' = [dlq EXCEPT ![c] = @ \union {m}]
             /\ UNCHANGED <<valid, balance>>
             /\ ThenFlushIfDue(c)
    BY <1>4 DEF HandleRejected
  <2>2. m \in Message /\ valid'[c] \in SUBSET Message
    BY <2>1 DEF RejectedMessage, delivery!RejectedMessage, Message
  <2> QED
    BY <2>1, <2>2, FetchTypes, ThenFlushTypes
<1>5. ASSUME NEW c \in Consumers, HandleRaises(c) PROVE Goal
  <2>1. PICK p \in Partitions, m \in Message : Fetch(c, p, m)
    BY <1>5 DEF HandleRaises
  <2>2. valid[c] \in SUBSET Message /\ BeginFlush(c, valid[c])
    BY <1>5 DEF HandleRaises
  <2> QED
    BY <1>5, <2>1, <2>2, FetchTypes, BeginFlushTypes DEF HandleRaises
<1>6. ASSUME NEW c \in Consumers, PollNone(c) \/ Tick(c) \/ Stop(c) PROVE Goal
  <2>1. valid[c] \in SUBSET Message
    OBVIOUS
  <2>2. CASE PollNone(c) BY <2>1, <2>2, BeginFlushTypes DEF PollNone
  <2>3. CASE Tick(c) BY <2>3 DEF Tick
  <2>4. CASE Stop(c)
    <3>1. pc' \in [Consumers -> Control] /\ todo' \in [Consumers -> SUBSET Nat]
      <4>1. CASE IsEmpty(consumed[c]) BY <2>4, <4>1 DEF Stop
      <4>2. CASE ~IsEmpty(consumed[c])
        BY <2>1, <2>4, <4>2, BeginFlushTypes DEF Stop
      <4> QED
        BY <4>1, <4>2
    <3>2. mode' \in [Consumers -> Mode] /\ stops' \in Nat
      BY <2>4 DEF Stop
    <3>3. UNCHANGED <<deliveryVars, groupVars, batchVars, dlqQueue, incidents>>
      BY <2>4 DEF Stop
    <3> QED
      BY <3>1, <3>2, <3>3
  <2> QED
    BY <1>6, <2>2, <2>3, <2>4
<1>7. ASSUME NEW c \in Consumers, Flush(c) PROVE Goal
  <2>1. CASE WriteFile(c) BY <2>1 DEF WriteFile
  <2>3. CASE WriteFails(c) BY <2>3, RaiseTypes DEF WriteFails, Incident
  <2>4. CASE PublishRejections(c)
    <3>1. Cardinality(valid[c]) \in Nat
      BY FS_CardinalityType
    <3> QED
      BY <2>4, <3>1 DEF PublishRejections
  <2>5. CASE DlqFlushed(c) BY <2>5 DEF DlqFlushed
  <2>9. CASE PublishRaises(c)
    <3>1. Cardinality(valid[c]) \in Nat
      BY FS_CardinalityType
    <3>2. /\ balance' = [balance EXCEPT ![c] = @ - Cardinality(valid[c])]
          /\ incidents' = incidents + 1
          /\ UNCHANGED <<copies, dlqTopic, committed, member, assigned, position, stored, stops>>
      BY <2>9 DEF PublishRaises, Incident
    <3>3. balance' \in [Consumers -> Int]
      BY <3>1, <3>2
    <3>4. CASE Die(c)
      <4>1. Raise(c)
        BY <3>4 DEF Raise
      <4> QED BY <3>2, <3>3, <4>1, RaiseTypes
    <3>5. CASE Unwind(c) /\ ~Die(c)
      <4>1. PICK queued \in SUBSET dlq[c] :
                 dlqQueue' = [dlqQueue EXCEPT ![c] = @ \union queued]
        BY <2>9, <3>5 DEF PublishRaises
      <4>2. dlqQueue' \in [Consumers -> SUBSET Message]
        BY <4>1
      <4> QED BY <3>2, <3>3, <3>5, <4>2, UnwindTypes
    <3> QED BY <2>9, <3>4, <3>5 DEF PublishRaises
  <2>6. CASE Commit(c)
    BY <2>6, FS_EmptySet DEF Commit, AfterCommit, ResetBatch
  <2>7. CASE CommitRaises(c) BY <2>7, RaiseTypes DEF CommitRaises
  <2>8. CASE CommitFails(c)
    <3>1. AfterCommit(c) \in [Partitions -> Nat]
      BY DEF AfterCommit
    <3> QED
      BY <2>8, <3>1, RaiseTypes DEF CommitFails, Incident
  <2> QED
    BY <1>7, <2>1, <2>3, <2>4, <2>5, <2>6, <2>7, <2>8, <2>9 DEF Flush
<1>8. ASSUME NEW c \in Consumers, Close(c) \/ Kill(c) PROVE Goal
  <2>1. CASE Close(c) BY <2>1, ExitTypes DEF Close
  <2>2. CASE Kill(c) BY <2>2, ExitTypes DEF Kill, Incident
  <2> QED
    BY <1>8, <2>1, <2>2
<1>9. ASSUME NEW c \in Consumers, Deliver(c) \/ DeliveryFails(c) PROVE Goal
  <2>1. CASE Deliver(c)
    <3>1. PICK m \in dlqQueue[c] : /\ dlqTopic' = dlqTopic \union {m}
                                   /\ dlqQueue' = [dlqQueue EXCEPT ![c] = @ \ {m}]
      BY <2>1 DEF Deliver
    <3>2. m \in Message
      OBVIOUS
    <3> QED
      BY <2>1, <3>1, <3>2 DEF Deliver
  <2>2. CASE DeliveryFails(c)
    BY <2>2 DEF DeliveryFails
  <2> QED
    BY <1>9, <2>1, <2>2
<1>10. CASE UNCHANGED vars BY <1>10 DEF vars
<1> QED
  BY <1>1, <1>2, <1>3, <1>4, <1>5, <1>6, <1>7, <1>8, <1>9, <1>10 DEF Next, Handle

\* Type correctness of the consumer group.
THEOREM TypeCorrect == Spec => []TypeOK
<1>1. Init => TypeInv
  BY TypeInit
<1>2. TypeInv /\ [Next]_vars => TypeInv'
  BY TypeStep
<1>3. TypeInv => TypeOK
  BY DEF TypeInv
<1> QED
  BY <1>1, <1>2, <1>3, PTL DEF Spec

------------------------------------------------------------------------------
(* What a step of one process leaves alone, and what it moves.             *)

\* A step of one process leaves the variables of the others alone.
OthersKeep(c) ==
    \A d \in Consumers \ {c} :
        /\ pc'[d] = pc[d] /\ member'[d] = member[d]
        /\ assigned'[d] = assigned[d] /\ position'[d] = position[d]
        /\ stored'[d] = stored[d] /\ todo'[d] = todo[d]
        /\ valid'[d] = valid[d] /\ dlq'[d] = dlq[d] /\ dlqQueue'[d] = dlqQueue[d]
        /\ consumed'[d] = consumed[d] /\ mode'[d] = mode[d] /\ balance'[d] = balance[d]

\* Rows and quarantined messages stay.
Grows == Landed \subseteq Landed' /\ dlqTopic \subseteq dlqTopic'

StepOf(c) ==
    \/ Group(c) \/ Handle(c) \/ PollNone(c) \/ Tick(c) \/ Stop(c)
    \/ Flush(c) \/ Close(c) \/ Kill(c) \/ Deliver(c) \/ DeliveryFails(c)

LEMMA StepOthers ==
    ASSUME TypeOK, NEW c \in Consumers, StepOf(c)
    PROVE  OthersKeep(c)
<1> USE DEF TypeOK, OthersKeep, groupVars, batchVars, deliveryVars
<1>1. CASE Group(c)
  BY <1>1 DEF Group, Start, Rejoin, ExpireDead, EvictLive, Assign, Revoke
<1>2. CASE Handle(c)
  BY <1>2 DEF Handle, HandleValid, HandleDuplicate, HandleRejected, HandleRaises,
              Fetch, ThenFlushIfDue, BeginFlush
<1>3. CASE PollNone(c) \/ Tick(c) \/ Stop(c)
  BY <1>3 DEF PollNone, Tick, Stop, BeginFlush
<1>4. ASSUME Unwind(c) \/ Die(c)
      PROVE  \A d \in Consumers \ {c} :
                /\ pc'[d] = pc[d] /\ todo'[d] = todo[d] /\ valid'[d] = valid[d]
                /\ dlq'[d] = dlq[d] /\ (Die(c) => dlqQueue'[d] = dlqQueue[d])
                /\ consumed'[d] = consumed[d] /\ mode'[d] = mode[d]
  BY <1>4 DEF Unwind, Die, BeginFlush, Exit, ResetBatch
<1>5. CASE Flush(c)
  <2>1. CASE WriteFile(c) \/ PublishRejections(c) \/ DlqFlushed(c)
    BY <2>1 DEF WriteFile, PublishRejections, DlqFlushed
  <2>2. CASE Commit(c)
    BY <2>2 DEF Commit, ResetBatch
  <2>3. CASE WriteFails(c) \/ CommitRaises(c) \/ CommitFails(c)
    BY <1>4, <2>3 DEF WriteFails, CommitRaises, CommitFails, Raise
  <2>4. CASE PublishRaises(c)
    BY <1>4, <2>4 DEF PublishRaises
  <2> QED
    BY <1>5, <2>1, <2>2, <2>3, <2>4 DEF Flush
<1>6. CASE Close(c) \/ Kill(c)
  BY <1>6 DEF Close, Kill, Exit, ResetBatch
<1>7. CASE Deliver(c) \/ DeliveryFails(c)
  BY <1>7 DEF Deliver, DeliveryFails
<1> QED
  BY <1>1, <1>2, <1>3, <1>5, <1>6, <1>7 DEF StepOf

\* Only write() touches the landing zone, and it only adds to it.
LEMMA StepGrows ==
    ASSUME TypeOK, NEW c \in Consumers, StepOf(c)
    PROVE  Grows
<1> USE DEF TypeOK, Grows, Landed, deliveryVars
<1>1. CASE WriteFile(c)
  BY <1>1 DEF WriteFile
<1>2. CASE Deliver(c)
  BY <1>2 DEF Deliver
<1>3. ASSUME ~WriteFile(c), ~Deliver(c)
      PROVE  UNCHANGED <<copies, dlqTopic>>
  BY <1>3 DEF StepOf, Group, Start, Rejoin, ExpireDead, EvictLive, Assign, Revoke,
              Handle, HandleValid, HandleDuplicate, HandleRejected, HandleRaises,
              Fetch, PollNone, Tick, Stop, Flush, WriteFails, PublishRejections,
              PublishRaises, DlqFlushed, Commit, CommitRaises, CommitFails, Close,
              Kill, DeliveryFails
<1> QED
  BY <1>1, <1>2, <1>3

\* Only a member's commit moves an offset, to the position of a partition it
\* stored one for.
LEMMA StepCommits ==
    ASSUME TypeOK, NEW c \in Consumers, StepOf(c), NEW p \in Partitions
    PROVE  \/ committed'[p] = committed[p]
           \/ /\ pc[c] = "commit" /\ member[c] /\ p \in stored[c]
              /\ committed'[p] = position[c][p]
<1> USE DEF TypeOK, deliveryVars
<1>1. CASE Commit(c) \/ CommitFails(c)
  BY <1>1 DEF Commit, CommitFails, AfterCommit
<1>2. ASSUME ~Commit(c), ~CommitFails(c)
      PROVE  UNCHANGED committed
  BY <1>2 DEF StepOf, Group, Start, Rejoin, ExpireDead, EvictLive, Assign, Revoke,
              Handle, HandleValid, HandleDuplicate, HandleRejected, HandleRaises,
              Fetch, PollNone, Tick, Stop, Flush, WriteFile, WriteFails,
              PublishRejections, PublishRaises, DlqFlushed, CommitRaises, Close, Kill,
              Deliver, DeliveryFails
<1> QED
  BY <1>1, <1>2

\* A partition moves only to a process that asks for it when no member has it.
LEMMA OwnersStep ==
    ASSUME TypeOK, OwnersDisjoint, NEW c \in Consumers, StepOf(c)
    PROVE  OwnersDisjoint'
<1> USE DEF TypeOK
<1>1. CASE \E p \in Partitions : Assign(c, p)
  BY <1>1 DEF Assign, Unowned, OwnersDisjoint
<1>2. ASSUME \A p \in Partitions : ~Assign(c, p)
      PROVE  /\ assigned'[c] = {} \/ (assigned'[c] \subseteq assigned[c] /\ (member'[c] => member[c]))
             /\ \A d \in Consumers \ {c} : assigned'[d] = assigned[d] /\ member'[d] = member[d]
  <2>1. OthersKeep(c)
    BY StepOthers
  <2>2. assigned'[c] = {} \/ (assigned'[c] \subseteq assigned[c] /\ (member'[c] => member[c]))
    BY <1>2 DEF StepOf, Group, Start, Rejoin, ExpireDead, EvictLive, Revoke,
                Handle, HandleValid, HandleDuplicate, HandleRejected, HandleRaises,
                Fetch, PollNone, Tick, Stop, Flush, WriteFile, WriteFails,
                PublishRejections, PublishRaises, DlqFlushed, Commit, CommitRaises,
                CommitFails, Close, Kill, Deliver, DeliveryFails, groupVars
  <2> QED
    BY <2>1, <2>2 DEF OthersKeep
<1>3. CASE \A p \in Partitions : ~Assign(c, p)
  BY <1>2, <1>3 DEF OwnersDisjoint
<1> QED
  BY <1>1, <1>3

LEMMA NextIsStep == Next => \E c \in Consumers : StepOf(c)
  BY DEF Next, StepOf

------------------------------------------------------------------------------
(* What the parts shared by several actions do to the process they run in.  *)

LEMMA FetchEffect ==
    ASSUME TypeOK, NEW c \in Consumers, NEW p \in Partitions, NEW m \in Message,
           Fetch(c, p, m)
    PROVE  /\ pc[c] = "poll" /\ mode[c] = "loop" /\ p \in assigned[c]
           /\ m[1] = p /\ m[2] = position[c][p]
           /\ position'[c] = [position[c] EXCEPT ![p] = @ + 1]
           /\ stored'[c] = stored[c] \union {p} /\ consumed'[c] = consumed[c] \union {m}
           /\ UNCHANGED <<copies, committed, member, assigned, incidents>>
  BY DEF Fetch, TypeOK, deliveryVars, bounds

LEMMA ThenFlushEffect ==
    ASSUME TypeOK, NEW c \in Consumers, ThenFlushIfDue(c)
    PROVE  /\ mode'[c] = mode[c]
           /\ \/ pc'[c] = "write" /\ todo'[c] = Directories(valid'[c])
              \/ pc'[c] = pc[c] /\ todo'[c] = todo[c]
  BY DEF ThenFlushIfDue, BeginFlush, TypeOK

\* A message joins the batch, or not; validate() may raise instead.
LEMMA HandleEffect ==
    ASSUME TypeOK, NEW c \in Consumers, Handle(c)
    PROVE  \E p \in Partitions, m \in Message :
               /\ Fetch(c, p, m)
               /\ \/ /\ m \notin valid[c] /\ valid'[c] = valid[c] \union {m}
                     /\ balance'[c] = balance[c] + 1 /\ ThenFlushIfDue(c)
                  \/ /\ valid'[c] = valid[c] /\ balance'[c] = balance[c]
                     /\ ThenFlushIfDue(c)
                  \/ /\ valid'[c] = valid[c] /\ mode'[c] = "unwind" /\ pc'[c] = "write"
                     /\ todo'[c] = Directories(valid[c])
<1>1. CASE HandleValid(c)
  BY <1>1 DEF HandleValid, SeenEventIds, TypeOK, ValidMessage, delivery!ValidMessage, Message
<1>2. CASE HandleDuplicate(c)
  BY <1>2 DEF HandleDuplicate, ValidMessage, delivery!ValidMessage, Message
<1>3. CASE HandleRejected(c)
  BY <1>3 DEF HandleRejected, RejectedMessage, delivery!RejectedMessage, Message
<1>4. CASE HandleRaises(c)
  BY <1>4 DEF HandleRaises, BeginFlush, TypeOK
<1> QED
  BY <1>1, <1>2, <1>3, <1>4 DEF Handle

LEMMA ExitEffect ==
    ASSUME TypeOK, NEW c \in Consumers, Exit(c)
    PROVE  pc'[c] = "stopped" /\ consumed'[c] = {} /\ valid'[c] = {} /\ dlqQueue'[c] = {}
  BY DEF Exit, ResetBatch, TypeOK

\* An exception starts the flush over, once, and then ends the process.
LEMMA RaiseEffect ==
    ASSUME TypeOK, NEW c \in Consumers, Unwind(c) \/ Die(c)
    PROVE  \/ /\ mode[c] = "loop" /\ mode'[c] = "unwind" /\ pc'[c] = "write"
              /\ todo'[c] = Directories(valid[c])
              /\ valid'[c] = valid[c] /\ consumed'[c] = consumed[c]
           \/ /\ mode[c] # "loop" /\ mode'[c] = mode[c] /\ pc'[c] = "stopped"
              /\ valid'[c] = {} /\ consumed'[c] = {}
  BY ExitEffect DEF Unwind, Die, BeginFlush, TypeOK

\* A normal end of the loop flushes what there is.
LEMMA StopEffect ==
    ASSUME TypeOK, NEW c \in Consumers, Stop(c)
    PROVE  /\ pc[c] = "poll" /\ mode[c] = "loop" /\ mode'[c] = "final"
           /\ \/ consumed[c] = {} /\ pc'[c] = "close" /\ todo' = todo
              \/ consumed[c] # {} /\ pc'[c] = "write" /\ todo'[c] = Directories(valid[c])
           /\ UNCHANGED <<copies, committed, member, assigned, position, stored,
                          consumed, valid, balance, incidents>>
  BY DEF Stop, BeginFlush, IsEmpty, TypeOK, deliveryVars, groupVars, batchVars

------------------------------------------------------------------------------
(* Stopping.  What run() returns adds up, and a graceful stop leaves nothing *)
(* uncommitted, whatever the validator and the dead letter broker do.        *)

\* valid is the part of the batch that is to be written; it dies with it.
BatchTracked(c) ==
    /\ valid[c] \subseteq consumed[c]
    /\ pc[c] = "stopped" => consumed[c] = {}

\* Until an exception leaves the loop, what is polled and not accounted for is
\* what the batch holds.
BalanceTracked(c) ==
    mode[c] # "unwind" =>
        /\ pc[c] \in {"poll", "write"} => balance[c] = Cardinality(valid[c])
        /\ pc[c] \in {"dlq", "commit", "close"} => balance[c] = 0

LEMMA HandleTracked ==
    ASSUME TypeInv, NEW c \in Consumers, BatchTracked(c), BalanceTracked(c), Handle(c)
    PROVE  BatchTracked(c)' /\ BalanceTracked(c)'
<1>1. TypeOK /\ IsFiniteSet(valid[c])
  BY DEF TypeInv, BatchesFinite
<1>2. PICK p \in Partitions, m \in Message :
               /\ Fetch(c, p, m)
               /\ \/ /\ m \notin valid[c] /\ valid'[c] = valid[c] \union {m}
                     /\ balance'[c] = balance[c] + 1 /\ ThenFlushIfDue(c)
                  \/ /\ valid'[c] = valid[c] /\ balance'[c] = balance[c]
                     /\ ThenFlushIfDue(c)
                  \/ /\ valid'[c] = valid[c] /\ mode'[c] = "unwind" /\ pc'[c] = "write"
                     /\ todo'[c] = Directories(valid[c])
  BY <1>1, HandleEffect
<1>3. pc[c] = "poll" /\ mode[c] = "loop" /\ consumed'[c] = consumed[c] \union {m}
  BY <1>1, <1>2, FetchEffect
<1>4. balance[c] = Cardinality(valid[c])
  BY <1>3 DEF BalanceTracked
<1>5. pc'[c] \in {"poll", "write"}
  BY <1>1, <1>2, <1>3, ThenFlushEffect
<1>6. BatchTracked(c)'
  BY <1>2, <1>3, <1>5 DEF BatchTracked
<1>7. BalanceTracked(c)'
  <2>1. CASE m \notin valid[c] /\ valid'[c] = valid[c] \union {m}
             /\ balance'[c] = balance[c] + 1
    <3>1. Cardinality(valid'[c]) = Cardinality(valid[c]) + 1
      BY <1>1, <2>1, FS_AddElement
    <3> QED BY <1>4, <1>5, <2>1, <3>1 DEF BalanceTracked
  <2>2. CASE valid'[c] = valid[c] /\ balance'[c] = balance[c]
    BY <1>4, <1>5, <2>2 DEF BalanceTracked
  <2>3. CASE mode'[c] = "unwind"
    BY <2>3 DEF BalanceTracked
  <2> QED BY <1>2, <2>1, <2>2, <2>3
<1> QED BY <1>6, <1>7

LEMMA FlushTracked ==
    ASSUME TypeInv, NEW c \in Consumers, BatchTracked(c), BalanceTracked(c), Flush(c)
    PROVE  BatchTracked(c)' /\ BalanceTracked(c)'
<1> USE DEF BatchTracked, BalanceTracked
<1>1. TypeOK /\ Cardinality(valid[c]) \in Nat /\ balance[c] \in Int
  BY FS_CardinalityType DEF TypeInv, TypeOK, BatchesFinite
<1>2. CASE WriteFile(c)
  BY <1>2 DEF WriteFile, batchVars
<1>3. CASE PublishRejections(c)
  <2>1. /\ pc[c] = "write" /\ pc'[c] \in {"dlq", "commit"}
        /\ balance'[c] = balance[c] - Cardinality(valid[c])
        /\ UNCHANGED <<mode, consumed, valid>>
    BY <1>1, <1>3 DEF PublishRejections, TypeOK
  <2> QED BY <1>1, <2>1
<1>4. CASE DlqFlushed(c)
  BY <1>1, <1>4 DEF DlqFlushed, batchVars, TypeOK
<1>5. CASE Commit(c)
  <2>1. /\ pc[c] = "commit" /\ pc'[c] \in {"poll", "close"} /\ UNCHANGED <<mode, balance>>
        /\ consumed'[c] = {} /\ valid'[c] = {}
    BY <1>1, <1>5 DEF Commit, ResetBatch, TypeOK
  <2> QED BY <1>1, <2>1, FS_EmptySet
<1>6. CASE WriteFails(c) \/ PublishRaises(c) \/ CommitRaises(c) \/ CommitFails(c)
  <2>1. Unwind(c) \/ Die(c)
    BY <1>6 DEF WriteFails, PublishRaises, CommitRaises, CommitFails, Raise
  <2> QED BY <1>1, <2>1, RaiseEffect
<1> QED
  BY <1>2, <1>3, <1>4, <1>5, <1>6 DEF Flush

LEMMA TrackedStep ==
    ASSUME TypeInv, NEW c \in Consumers, BatchTracked(c), BalanceTracked(c), StepOf(c)
    PROVE  BatchTracked(c)' /\ BalanceTracked(c)'
<1>1. TypeOK
  BY DEF TypeInv
<1>2. CASE Group(c)
  <2>1. CASE Start(c)
    BY <1>1, <2>1, FS_EmptySet DEF Start, BatchTracked, BalanceTracked, TypeOK
  <2>2. CASE ~Start(c)
    BY <1>1, <1>2, <2>2 DEF Group, Rejoin, ExpireDead, EvictLive, Assign, Revoke, batchVars,
        BatchTracked, BalanceTracked
  <2> QED BY <2>1, <2>2
<1>3. CASE Handle(c)
  BY <1>3, HandleTracked
<1>4. CASE PollNone(c) \/ Tick(c)
  BY <1>1, <1>4 DEF PollNone, Tick, BeginFlush, batchVars, BatchTracked, BalanceTracked, TypeOK
<1>5. CASE Stop(c)
  <2>1. /\ pc[c] = "poll" /\ mode[c] = "loop" /\ UNCHANGED <<consumed, valid, balance>>
        /\ (consumed[c] = {} /\ pc'[c] = "close") \/ pc'[c] = "write"
    BY <1>1, <1>5, StopEffect
  <2> QED BY <2>1, FS_EmptySet DEF BatchTracked, BalanceTracked
<1>6. CASE Flush(c)
  BY <1>6, FlushTracked
<1>7. CASE Close(c) \/ Kill(c)
  BY <1>1, <1>7, ExitEffect DEF Close, Kill, BatchTracked, BalanceTracked
<1>8. CASE Deliver(c) \/ DeliveryFails(c)
  BY <1>8 DEF Deliver, DeliveryFails, batchVars, BatchTracked, BalanceTracked
<1> QED
  BY <1>2, <1>3, <1>4, <1>5, <1>6, <1>7, <1>8 DEF StepOf

\* What a process has polled of its partitions since its last commit is in the
\* batch and will be committed with it: a partition without a stored offset
\* stands where it was committed.
StoredTracked(c) ==
    Alive(c) =>
        /\ stored[c] \subseteq assigned[c]
        /\ consumed[c] = {} => stored[c] = {}
        /\ pc[c] = "close" => stored[c] = {}
        /\ member[c] => \A p \in assigned[c] :
              /\ committed[p] <= position[c][p]
              /\ p \notin stored[c] => committed[p] = position[c][p]

StopInv ==
    /\ TypeInv
    /\ OwnersDisjoint
    /\ \A c \in Consumers : BatchTracked(c) /\ BalanceTracked(c) /\ StoredTracked(c)

\* Nobody else moves the offset of a partition a member has.
LEMMA OthersStored ==
    ASSUME StopInv, NEW c \in Consumers, StepOf(c), NEW d \in Consumers \ {c}
    PROVE  StoredTracked(d)'
<1>1. TypeOK /\ OthersKeep(c) /\ StoredTracked(d)
  BY StepOthers DEF StopInv, TypeInv
<1>2. ASSUME Alive(d), member[d], NEW p \in assigned[d]
      PROVE  committed'[p] = committed[p]
  <2>1. p \in Partitions
    BY <1>1 DEF TypeOK
  <2>2. ~ (pc[c] = "commit" /\ member[c] /\ p \in stored[c])
    BY <1>2 DEF StopInv, OwnersDisjoint, StoredTracked, Alive
  <2> QED BY <1>1, <2>1, <2>2, StepCommits
<1> QED BY <1>1, <1>2 DEF OthersKeep, StoredTracked, Alive

\* Steps that move no offset and keep the batch.
LEMMA SameStored ==
    ASSUME NEW c \in Consumers, StoredTracked(c), Alive(c)' => Alive(c),
           pc'[c] = "close" => pc[c] = "close" \/ consumed[c] = {},
           assigned'[c] = assigned[c], stored'[c] = stored[c], position'[c] = position[c],
           consumed'[c] = consumed[c], member'[c] => member[c],
           UNCHANGED committed
    PROVE  StoredTracked(c)'
  BY DEF StoredTracked, Alive

LEMMA GroupStored ==
    ASSUME StopInv, NEW c \in Consumers, Group(c)
    PROVE  StoredTracked(c)'
<1> USE DEF StoredTracked, Alive
<1>1. TypeOK /\ StoredTracked(c) /\ (pc[c] = "stopped" => consumed[c] = {})
  BY DEF StopInv, TypeInv, BatchTracked
<1>2. UNCHANGED <<committed, consumed>>
  BY DEF Group, Start, Rejoin, ExpireDead, EvictLive, Assign, Revoke, deliveryVars, batchVars
<1>3. CASE Start(c) \/ Rejoin(c)
  BY <1>1, <1>3 DEF Start, Rejoin, TypeOK
<1>4. CASE ExpireDead(c) \/ EvictLive(c)
  BY <1>1, <1>2, <1>4, SameStored DEF ExpireDead, EvictLive, TypeOK
<1>5. ASSUME NEW p \in Partitions, Assign(c, p)
      PROVE  StoredTracked(c)'
  <2>1. /\ pc[c] = "poll" /\ member[c] /\ p \notin assigned[c]
        /\ assigned'[c] = assigned[c] \union {p} /\ position'[c][p] = committed[p]
        /\ \A q \in Partitions \ {p} : position'[c][q] = position[c][q]
        /\ UNCHANGED <<member, stored, pc>>
    BY <1>1, <1>5 DEF Assign, Unowned, TypeOK
  <2>2. committed[p] \in Nat /\ assigned[c] \subseteq Partitions
    BY <1>1 DEF TypeOK
  <2> QED BY <1>1, <1>2, <2>1, <2>2
<1>6. ASSUME NEW p \in Partitions, Revoke(c, p)
      PROVE  StoredTracked(c)'
  <2>1. /\ pc[c] = "poll" /\ assigned'[c] = assigned[c] \ {p} /\ stored'[c] = stored[c] \ {p}
        /\ UNCHANGED <<member, position, pc>>
    BY <1>1, <1>6 DEF Revoke, TypeOK
  <2> QED BY <1>1, <1>2, <2>1
<1> QED BY <1>3, <1>4, <1>5, <1>6 DEF Group

LEMMA HandleStored ==
    ASSUME StopInv, NEW c \in Consumers, Handle(c)
    PROVE  StoredTracked(c)'
<1>1. TypeOK /\ StoredTracked(c)
  BY DEF StopInv, TypeInv
<1>2. PICK p \in Partitions, m \in Message :
               /\ Fetch(c, p, m)
               /\ pc'[c] = "write" \/ ThenFlushIfDue(c)
  BY <1>1, HandleEffect
<1>3. /\ pc[c] = "poll" /\ p \in assigned[c]
      /\ position'[c] = [position[c] EXCEPT ![p] = @ + 1]
      /\ stored'[c] = stored[c] \union {p} /\ consumed'[c] # {}
      /\ UNCHANGED <<committed, member, assigned>>
  BY <1>1, <1>2, FetchEffect
<1>4. pc'[c] \in {"poll", "write"}
  BY <1>1, <1>2, <1>3, ThenFlushEffect
<1>5. position[c] \in [Partitions -> Nat] /\ committed \in [Partitions -> Nat]
      /\ assigned[c] \subseteq Partitions
  BY <1>1 DEF TypeOK
<1> QED BY <1>1, <1>3, <1>4, <1>5 DEF StoredTracked, Alive

LEMMA FlushStored ==
    ASSUME StopInv, NEW c \in Consumers, Flush(c)
    PROVE  StoredTracked(c)'
<1>1. TypeOK /\ StoredTracked(c)
  BY DEF StopInv, TypeInv
<1>2. CASE WriteFile(c) \/ PublishRejections(c) \/ DlqFlushed(c)
  BY <1>1, <1>2, SameStored DEF WriteFile, PublishRejections, DlqFlushed, Alive, TypeOK,
     deliveryVars, groupVars, batchVars
<1>3. CASE Commit(c)
  <2>1. /\ pc[c] = "commit" /\ member[c] /\ committed' = AfterCommit(c)
        /\ stored'[c] = {} /\ UNCHANGED <<member, assigned, position>>
    BY <1>1, <1>3 DEF Commit, TypeOK
  <2>2. ASSUME NEW p \in assigned[c]
        PROVE  committed'[p] = position[c][p] /\ position[c][p] \in Nat
    BY <1>1, <2>1, <2>2 DEF StoredTracked, Alive, AfterCommit, TypeOK
  <2> QED BY <2>1, <2>2 DEF StoredTracked
<1>4. CASE WriteFails(c) \/ PublishRaises(c) \/ CommitRaises(c) \/ CommitFails(c)
  <2>1. (Unwind(c) \/ Die(c)) /\ UNCHANGED groupVars /\ pc[c] # "stopped"
    BY <1>4 DEF WriteFails, PublishRaises, CommitRaises, CommitFails, Raise
  <2>2. \/ pc'[c] = "write" /\ consumed'[c] = consumed[c]
        \/ pc'[c] = "stopped"
    BY <1>1, <2>1, RaiseEffect
  <2>3. UNCHANGED committed \/ (committed' = AfterCommit(c) /\ member[c])
    BY <1>4 DEF WriteFails, PublishRaises, CommitRaises, CommitFails, deliveryVars
  <2>4. CASE UNCHANGED committed
    BY <1>1, <2>1, <2>2, <2>4 DEF StoredTracked, Alive, groupVars
  <2>5. CASE committed' = AfterCommit(c) /\ member[c]
    <3>1. ASSUME NEW p \in assigned[c]
          PROVE  committed'[p] = position[c][p] /\ position[c][p] \in Nat
      BY <1>1, <2>1, <2>5, <3>1 DEF StoredTracked, Alive, AfterCommit, TypeOK
    <3> QED BY <1>1, <2>1, <2>2, <3>1 DEF StoredTracked, Alive, groupVars
  <2> QED BY <2>3, <2>4, <2>5
<1> QED BY <1>2, <1>3, <1>4 DEF Flush

LEMMA StoredStep ==
    ASSUME StopInv, NEW c \in Consumers, StepOf(c)
    PROVE  StoredTracked(c)'
<1>1. TypeOK /\ StoredTracked(c) /\ valid[c] \subseteq consumed[c]
  BY DEF StopInv, TypeInv, BatchTracked
<1>2. CASE PollNone(c) \/ Tick(c)
  BY <1>1, <1>2, SameStored DEF PollNone, Tick, BeginFlush, Alive, TypeOK, deliveryVars,
     groupVars, batchVars
<1>3. CASE Stop(c)
  <2>1. /\ pc[c] = "poll" /\ (pc'[c] = "close" => consumed[c] = {})
        /\ UNCHANGED <<committed, member, assigned, position, stored, consumed>>
    BY <1>1, <1>3, StopEffect
  <2> QED BY <1>1, <2>1, SameStored DEF Alive
<1>4. CASE Close(c) \/ Kill(c)
  BY <1>1, <1>4, ExitEffect DEF Close, Kill, StoredTracked, Alive
<1>5. CASE Deliver(c) \/ DeliveryFails(c)
  BY <1>1, <1>5, SameStored DEF Deliver, DeliveryFails, Alive, deliveryVars, groupVars, batchVars
<1> QED BY <1>2, <1>3, <1>4, <1>5, GroupStored, HandleStored, FlushStored DEF StepOf

LEMMA StopInvInit == Init => StopInv
<1> SUFFICES ASSUME Init PROVE StopInv
  OBVIOUS
<1>1. TypeInv
  BY TypeInit
<1>2. \A c \in Consumers : BatchTracked(c) /\ BalanceTracked(c) /\ StoredTracked(c)
  BY DEF Init, BatchTracked, BalanceTracked, StoredTracked, Alive
<1>3. OwnersDisjoint
  BY DEF Init, OwnersDisjoint
<1> QED BY <1>1, <1>2, <1>3 DEF StopInv

LEMMA StopInvStep == StopInv /\ [Next]_vars => StopInv'
<1> SUFFICES ASSUME StopInv, [Next]_vars PROVE StopInv'
  OBVIOUS
<1>1. TypeInv'
  BY TypeStep DEF StopInv
<1>2. ASSUME NEW c \in Consumers, StepOf(c)
      PROVE  StopInv'
  <2>1. TypeOK /\ OwnersDisjoint'
    BY <1>2, OwnersStep DEF StopInv, TypeInv
  <2>2. BatchTracked(c)' /\ BalanceTracked(c)' /\ StoredTracked(c)'
    BY <1>2, TrackedStep, StoredStep DEF StopInv
  <2>3. ASSUME NEW d \in Consumers \ {c}
        PROVE  BatchTracked(d)' /\ BalanceTracked(d)' /\ StoredTracked(d)'
    <3>1. StoredTracked(d)'
      BY <1>2, OthersStored
    <3>2. OthersKeep(c) /\ BatchTracked(d) /\ BalanceTracked(d)
      BY <1>2, <2>1, StepOthers DEF StopInv
    <3> QED BY <3>1, <3>2 DEF OthersKeep, BatchTracked, BalanceTracked
  <2> QED BY <1>1, <2>1, <2>2, <2>3 DEF StopInv
<1>3. CASE UNCHANGED vars
  BY <1>1, <1>3 DEF vars, StopInv, OwnersDisjoint, BatchTracked, BalanceTracked, StoredTracked,
     Alive
<1> QED BY <1>2, <1>3, NextIsStep

LEMMA StopInvHolds == Spec => []StopInv
  BY StopInvInit, StopInvStep, PTL DEF Spec

\* N1: what run() returns adds up, for any validator and broker and whatever
\* happened to the group before.  It is a theorem about the return only: an
\* exception, and with it every second flush of a batch, returns no statistics,
\* and the counters it leaves behind need not add up.
THEOREM StatisticsReconcile == Spec => []ReconcilesAtReturn
<1>1. StopInv => ReconcilesAtReturn
  BY DEF StopInv, BalanceTracked, ReconcilesAtReturn
<1> QED BY <1>1, StopInvHolds, PTL

\* A graceful stop of a member leaves nothing it polled uncommitted.
THEOREM GracefulStopsCommit == Spec => []GracefulStopCommits
<1>1. StopInv => GracefulStopCommits
  BY DEF StopInv, StoredTracked, Alive, GracefulStopCommits
<1> QED BY <1>1, StopInvHolds, PTL
====
