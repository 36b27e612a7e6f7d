---------------------------- MODULE IngestionSafety ----------------------------
(***************************************************************************)
(* What the consumer group promises, proved. At least once: no committed   *)
(* offset passes an event that has no row, whatever the validator makes of *)
(* other messages and whatever becomes of the dead letter broker; with a   *)
(* validator that never raises and a broker that answers in time, none     *)
(* passes a message that is neither landed nor quarantined, and the group  *)
(* implements EventDelivery. And not too often: the copies a message may   *)
(* leave have a bound, again whatever the validator and the broker do.     *)
(*                                                                         *)
(* Both worlds have one inductive invariant, Inv, about the messages of    *)
(* Safe: all of them in the dependable world, the valid ones in the other. *)
(***************************************************************************)
EXTENDS IngestionProofs

\* What is accounted for stays so.
LEMMA AccountedStays ==
    ASSUME Grows, NEW m, Accounted(m)
    PROVE  Accounted(m)'
  BY DEF Grows, Accounted, delivery!Accounted, delivery!AccountedIn

LEMMA SafeIsMessage ==
    ASSUME NEW m \in Safe
    PROVE  m \in Message /\ (Dependable \/ m \in ValidMessage)
  BY DEF Safe, ValidMessage, delivery!ValidMessage, Message

\* A valid message is no rejection, and no message that validate() raised on.
LEMMA ValidIsSafe ==
    ASSUME NEW m \in ValidMessage
    PROVE  m \in Safe /\ m \notin RejectedMessage /\ Verdict[m] # "raise"
  BY DEF Safe, ValidMessage, RejectedMessage, delivery!ValidMessage,
         delivery!RejectedMessage, Message

\* A batch whose rows are landed and whose rejections are quarantined leaves
\* nothing in hand that is not accounted for; nor does one whose rejections
\* are lost, as to events.
LEMMA HeldAccounted ==
    ASSUME NEW c \in Consumers, NEW m \in Safe, Held(c, m), BatchSound(c),
           valid[c] \subseteq Landed, Dependable => dlq[c] \subseteq dlqTopic
    PROVE  Accounted(m)
<1>1. CASE m \in ValidMessage /\ \E n \in valid[c] : EventId[n] = EventId[m]
  BY <1>1 DEF Accounted, delivery!Accounted, delivery!AccountedIn, ValidMessage
<1>2. CASE m \in dlq[c]
  <2>1. Dependable
    BY <1>2, SafeIsMessage, ValidIsSafe DEF BatchSound
  <2> QED
    BY <1>2, <2>1 DEF Accounted, delivery!Accounted, delivery!AccountedIn
<1> QED
  BY <1>1, <1>2 DEF Held, delivery!AccountedIn, ValidMessage

\* The commit comes last: what it acknowledges is accounted for.
LEMMA CommitAccounted ==
    ASSUME Inv, NEW c \in Consumers, pc[c] = "commit", NEW m \in Safe,
           m[1] \in stored[c], m[2] < position[c][m[1]]
    PROVE  Accounted(m)
<1>1. Alive(c) /\ m[1] \in assigned[c]
  BY DEF Inv, ProcessInv, OffsetsOrdered, Alive
<1>2. Accounted(m) \/ Held(c, m)
  BY <1>1 DEF Inv, ProcessInv, PolledAccounted
<1>3. /\ BatchSound(c) /\ valid[c] \subseteq Landed
      /\ Dependable => dlq[c] \subseteq dlqTopic
  BY DEF Inv, ProcessInv, FlushOrdered
<1> QED
  BY <1>2, <1>3, HeldAccounted

LEMMA CommittedStep ==
    ASSUME Inv, NEW c \in Consumers, StepOf(c)
    PROVE  SafeAccounted' /\ OffsetsBounded'
<1>1. TypeOK /\ Grows
  BY StepGrows DEF Inv
<1>2. ASSUME NEW m \in Safe, m[2] < committed'[m[1]]
      PROVE  Accounted(m)'
  <2>1. m[1] \in Partitions
    BY SafeIsMessage, MessageForm
  <2>2. CASE committed'[m[1]] = committed[m[1]]
    BY <1>1, <1>2, <2>2, AccountedStays DEF Inv, SafeAccounted
  <2>3. CASE /\ pc[c] = "commit" /\ member[c] /\ m[1] \in stored[c]
             /\ committed'[m[1]] = position[c][m[1]]
    BY <1>1, <1>2, <2>3, CommitAccounted, AccountedStays
  <2> QED
    BY <1>1, <2>1, <2>2, <2>3, StepCommits
<1>3. ASSUME NEW p \in Partitions
      PROVE  committed'[p] <= LogEnd[p]
  <2>1. CASE committed'[p] = committed[p]
    BY <2>1 DEF Inv, OffsetsBounded
  <2>2. CASE pc[c] = "commit" /\ p \in stored[c] /\ committed'[p] = position[c][p]
    BY <2>2 DEF Inv, ProcessInv, OffsetsOrdered, Alive
  <2> QED
    BY <1>1, <2>1, <2>2, StepCommits
<1> QED
  BY <1>2, <1>3 DEF SafeAccounted, OffsetsBounded

\* The other processes keep their invariant: what they rely on only grows, and
\* no one else commits a partition they own.
LEMMA OthersStep ==
    ASSUME Inv, NEW c \in Consumers, StepOf(c), NEW d \in Consumers \ {c}
    PROVE  ProcessInv(d)'
<1>1. TypeOK /\ Grows /\ OthersKeep(c)
  BY StepGrows, StepOthers DEF Inv
<1>2. ProcessInv(d)
  BY DEF Inv
<1>3. BatchSound(d)'
  BY <1>1, <1>2 DEF ProcessInv, BatchSound, OthersKeep
<1>4. PolledAccounted(d)'
  <2>1. ASSUME NEW m \in Safe, Accounted(m) \/ Held(d, m)
        PROVE  Accounted(m)' \/ Held(d, m)'
    <3>1. CASE Accounted(m) BY <1>1, <3>1, AccountedStays
    <3>2. CASE Held(d, m) BY <1>1, <3>2 DEF Held, OthersKeep, delivery!AccountedIn
    <3> QED
      BY <2>1, <3>1, <3>2
  <2> QED
    BY <1>1, <1>2, <2>1 DEF ProcessInv, PolledAccounted, OthersKeep, Alive
<1>5. FlushOrdered(d)'
  BY <1>1, <1>2 DEF ProcessInv, FlushOrdered, OthersKeep, Grows
<1>6. OffsetsOrdered(d)'
  <2>1. ASSUME NEW p \in assigned[d], Alive(d), member[d]
        PROVE  committed'[p] <= position[d][p]
    <3>1. p \in Partitions /\ committed[p] <= position[d][p]
      BY <1>2, <2>1 DEF ProcessInv, OffsetsOrdered, Inv, TypeOK
    <3>2. ~ (pc[c] = "commit" /\ member[c] /\ p \in stored[c])
      BY <2>1 DEF Inv, OwnersDisjoint, ProcessInv, OffsetsOrdered, Alive
    <3> QED
      BY <1>1, <3>1, <3>2, StepCommits
  <2> QED
    BY <1>1, <1>2, <2>1 DEF ProcessInv, OffsetsOrdered, OthersKeep, Alive
<1> QED
  BY <1>3, <1>4, <1>5, <1>6 DEF ProcessInv

------------------------------------------------------------------------------
(* The process that takes the step, action by action.                      *)

\* Whatever leaves the batch of c alone and gives it no partition or offset
\* keeps the account of what it polled.
LEMMA PolledStays ==
    ASSUME NEW c \in Consumers, PolledAccounted(c), Grows,
           Alive(c)' => Alive(c), assigned'[c] \subseteq assigned[c],
           position'[c] = position[c], valid'[c] = valid[c], dlq'[c] = dlq[c]
    PROVE  PolledAccounted(c)'
<1>1. ASSUME NEW m \in Safe, Accounted(m) \/ Held(c, m)
      PROVE  Accounted(m)' \/ Held(c, m)'
  <2>1. CASE Accounted(m) BY <2>1, AccountedStays
  <2>2. CASE Held(c, m) BY <2>2 DEF Held, delivery!AccountedIn
  <2> QED
    BY <1>1, <2>1, <2>2
<1> QED
  BY <1>1 DEF PolledAccounted

LEMMA GroupStep ==
    ASSUME Inv, NEW c \in Consumers, Group(c)
    PROVE  ProcessInv(c)'
<1> USE DEF TypeOK, Alive
<1>1. TypeOK /\ ProcessInv(c) /\ Grows
  BY StepGrows DEF Inv, StepOf
<1>2. UNCHANGED <<copies, dlqTopic, committed, todo, consumed, valid, dlq, dlqQueue>>
  BY DEF Group, Start, Rejoin, ExpireDead, EvictLive, Assign, Revoke, deliveryVars,
         batchVars
<1>3. pc'[c] = pc[c] \/ pc'[c] = "poll"
  BY <1>1 DEF Group, Start, Rejoin, ExpireDead, EvictLive, Assign, Revoke
<1>4. BatchSound(c)'
  BY <1>1, <1>2 DEF ProcessInv, BatchSound
<1>5. FlushOrdered(c)'
  BY <1>1, <1>2, <1>3 DEF ProcessInv, FlushOrdered, Landed
<1>6. PolledAccounted(c)' /\ OffsetsOrdered(c)'
  <2>1. CASE Start(c) \/ Rejoin(c)
    BY <1>1, <2>1 DEF Start, Rejoin, PolledAccounted, OffsetsOrdered
  <2>2. CASE ExpireDead(c)
    BY <1>1, <2>2 DEF ExpireDead, PolledAccounted, OffsetsOrdered
  <2>3. CASE EvictLive(c)
    <3>1. PolledAccounted(c)'
      BY <1>1, <2>3, PolledStays DEF EvictLive, ProcessInv, batchVars
    <3>2. OffsetsOrdered(c)'
      BY <1>1, <1>2, <2>3 DEF EvictLive, ProcessInv, OffsetsOrdered
    <3> QED
      BY <3>1, <3>2
  <2>4. ASSUME NEW p \in Partitions, Assign(c, p)
        PROVE  PolledAccounted(c)' /\ OffsetsOrdered(c)'
    <3>1. /\ assigned'[c] = assigned[c] \union {p}
          /\ position'[c][p] = committed[p]
          /\ \A q \in Partitions \ {p} : position'[c][q] = position[c][q]
          /\ member'[c] = member[c] /\ stored'[c] = stored[c] /\ pc'[c] = pc[c]
      BY <1>1, <2>4 DEF Assign
    <3>2. ASSUME NEW m \in Safe, m[1] \in assigned'[c],
                 m[2] < position'[c][m[1]], Alive(c)
          PROVE  Accounted(m)' \/ Held(c, m)'
      <4>1. CASE m[1] = p
        BY <1>1, <3>1, <3>2, <4>1, AccountedStays DEF Inv, SafeAccounted
      <4>2. CASE m[1] # p
        <5>1. Accounted(m) \/ Held(c, m)
          BY <1>1, <3>1, <3>2, <4>2, SafeIsMessage, MessageForm
             DEF ProcessInv, PolledAccounted
        <5>2. CASE Accounted(m) BY <1>1, <5>2, AccountedStays
        <5>3. CASE Held(c, m) BY <1>2, <5>3 DEF Held, delivery!AccountedIn
        <5> QED
          BY <5>1, <5>2, <5>3
      <4> QED
        BY <4>1, <4>2
    <3>3. PolledAccounted(c)'
      BY <3>1, <3>2 DEF PolledAccounted
    <3>4. ASSUME NEW q \in assigned'[c], Alive(c)
          PROVE  /\ position'[c][q] <= LogEnd[q]
                 /\ member[c] => committed[q] <= position'[c][q]
      BY <1>1, <3>1, <3>4, LogEndAssumption DEF ProcessInv, OffsetsOrdered, Inv,
         OffsetsBounded
    <3>5. OffsetsOrdered(c)'
      BY <1>1, <1>2, <3>1, <3>4 DEF ProcessInv, OffsetsOrdered
    <3> QED
      BY <3>3, <3>5
  <2>5. ASSUME NEW p \in Partitions, Revoke(c, p)
        PROVE  PolledAccounted(c)' /\ OffsetsOrdered(c)'
    <3>1. PolledAccounted(c)'
      BY <1>1, <2>5, PolledStays DEF Revoke, ProcessInv, batchVars
    <3>2. OffsetsOrdered(c)'
      BY <1>1, <1>2, <2>5 DEF Revoke, ProcessInv, OffsetsOrdered
    <3> QED
      BY <3>1, <3>2
  <2> QED
    BY <2>1, <2>2, <2>3, <2>4, <2>5 DEF Group
<1> QED
  BY <1>4, <1>5, <1>6 DEF ProcessInv

\* poll() and handle() of the next message: it is in hand afterwards, unless
\* it is one that may be lost.
LEMMA FetchStep ==
    ASSUME Inv, NEW c \in Consumers, NEW p \in Partitions, NEW m \in Message,
           Fetch(c, p, m), Grows, pc'[c] \in {"poll", "write"},
           valid[c] \subseteq valid'[c], dlq[c] \subseteq dlq'[c],
           m \in Safe => Held(c, m)'
    PROVE  PolledAccounted(c)' /\ OffsetsOrdered(c)'
<1> USE DEF Alive
<1>1. TypeOK /\ ProcessInv(c)
  BY DEF Inv
<1>2. /\ p \in assigned[c] /\ pc[c] = "poll" /\ position[c][p] < LogEnd[p]
      /\ m = <<p, position[c][p]>>
      /\ assigned'[c] = assigned[c] /\ member'[c] = member[c]
      /\ UNCHANGED committed
  BY DEF Fetch, deliveryVars
<1>3. /\ position'[c][p] = position[c][p] + 1
      /\ \A q \in Partitions \ {p} : position'[c][q] = position[c][q]
      /\ stored'[c] = stored[c] \union {p}
  BY <1>1 DEF Fetch, TypeOK
<1>4. ASSUME NEW n \in Safe, n[1] \in assigned[c], n[2] < position'[c][n[1]]
      PROVE  Accounted(n)' \/ Held(c, n)'
  <2>1. n = <<n[1], n[2]>> /\ n[1] \in Partitions /\ n[2] \in Nat
    BY SafeIsMessage, MessageForm
  <2>2. position[c][p] \in Nat
    BY <1>1 DEF TypeOK
  <2>3. CASE n[1] = p /\ n[2] = position[c][p]
    BY <1>2, <2>1, <2>3
  <2>4. CASE ~ (n[1] = p /\ n[2] = position[c][p])
    <3>1. n[2] < position[c][n[1]]
      BY <1>3, <1>4, <2>1, <2>2, <2>4
    <3>2. Accounted(n) \/ Held(c, n)
      BY <1>1, <1>2, <1>4, <3>1 DEF ProcessInv, PolledAccounted
    <3>3. CASE Accounted(n) BY <3>3, AccountedStays
    <3>4. CASE Held(c, n) BY <3>4 DEF Held, delivery!AccountedIn
    <3> QED
      BY <3>2, <3>3, <3>4
  <2> QED
    BY <2>3, <2>4
<1>5. PolledAccounted(c)'
  BY <1>2, <1>4 DEF PolledAccounted
<1>6. ASSUME NEW q \in assigned[c]
      PROVE  /\ position'[c][q] <= LogEnd[q]
             /\ member[c] => committed[q] <= position'[c][q]
  <2>1. q \in Partitions /\ LogEnd[q] \in Nat /\ committed[q] \in Nat
        /\ position[c][q] \in Nat
    BY <1>1, LogEndAssumption DEF TypeOK
  <2>2. position[c][q] <= LogEnd[q] /\ (member[c] => committed[q] <= position[c][q])
    BY <1>1, <1>2 DEF ProcessInv, OffsetsOrdered
  <2> QED
    BY <1>2, <1>3, <2>1, <2>2
<1>7. OffsetsOrdered(c)'
  BY <1>1, <1>2, <1>3, <1>6 DEF ProcessInv, OffsetsOrdered
<1> QED
  BY <1>5, <1>7

\* A flush that begins has every row of its batch still to write.
LEMMA BeginFlushOrdered ==
    ASSUME TypeOK, NEW c \in Consumers, BeginFlush(c, valid'[c])
    PROVE  FlushOrdered(c)' /\ pc'[c] = "write"
  BY DEF BeginFlush, FlushOrdered, Directories, TypeOK

LEMMA PollOrdered ==
    ASSUME NEW c \in Consumers, pc'[c] \in {"poll", "close", "stopped"}
    PROVE  FlushOrdered(c)'
  BY DEF FlushOrdered

LEMMA ThenFlushOrdered ==
    ASSUME TypeOK, NEW c \in Consumers, ThenFlushIfDue(c), pc[c] = "poll"
    PROVE  FlushOrdered(c)' /\ pc'[c] \in {"poll", "write"}
<1>1. CASE FlushDue(c, valid'[c])
  BY <1>1, BeginFlushOrdered DEF ThenFlushIfDue
<1>2. CASE ~FlushDue(c, valid'[c])
  BY <1>2, PollOrdered DEF ThenFlushIfDue
<1> QED
  BY <1>1, <1>2

LEMMA HandleStep ==
    ASSUME Inv, NEW c \in Consumers, Handle(c)
    PROVE  ProcessInv(c)'
<1>1. TypeOK /\ ProcessInv(c) /\ Grows
  BY StepGrows DEF Inv, StepOf
<1>2. CASE HandleValid(c)
  <2>1. PICK p \in Partitions, m \in ValidMessage :
             /\ Fetch(c, p, m)
             /\ valid' = [valid EXCEPT ![c] = @ \union {m}]
             /\ UNCHANGED dlq
             /\ ThenFlushIfDue(c)
    BY <1>2 DEF HandleValid
  <2>2. m \in Message
    BY DEF ValidMessage, delivery!ValidMessage, Message
  <2>3. valid'[c] = valid[c] \union {m} /\ dlq'[c] = dlq[c] /\ dlqQueue'[c] = dlqQueue[c]
    BY <1>1, <2>1 DEF TypeOK, Fetch
  <2>4. IsFiniteSet(valid'[c])
    BY <1>1, <2>3, FS_AddElement DEF ProcessInv, BatchSound
  <2>5. BatchSound(c)'
    BY <1>1, <2>3, <2>4 DEF ProcessInv, BatchSound
  <2>6. pc[c] = "poll"
    BY <2>1 DEF Fetch
  <2>7. FlushOrdered(c)' /\ pc'[c] \in {"poll", "write"}
    BY <1>1, <2>1, <2>6, ThenFlushOrdered
  <2>8. Held(c, m)'
    BY <2>3 DEF Held, delivery!AccountedIn, ValidMessage
  <2>9. PolledAccounted(c)' /\ OffsetsOrdered(c)'
    BY <1>1, <2>1, <2>2, <2>3, <2>7, <2>8, FetchStep
  <2> QED
    BY <2>5, <2>7, <2>9 DEF ProcessInv
<1>3. CASE HandleDuplicate(c)
  <2>1. PICK p \in Partitions, m \in ValidMessage :
             /\ Fetch(c, p, m)
             /\ EventId[m] \in SeenEventIds(c)
             /\ UNCHANGED <<valid, dlq>>
             /\ ThenFlushIfDue(c)
    BY <1>3 DEF HandleDuplicate
  <2>2. m \in Message
    BY DEF ValidMessage, delivery!ValidMessage, Message
  <2>3. BatchSound(c)'
    BY <1>1, <2>1 DEF ProcessInv, BatchSound, Fetch
  <2>4. pc[c] = "poll"
    BY <2>1 DEF Fetch
  <2>5. FlushOrdered(c)' /\ pc'[c] \in {"poll", "write"}
    BY <1>1, <2>1, <2>4, ThenFlushOrdered
  <2>6. Held(c, m)'
    BY <2>1 DEF Held, delivery!AccountedIn, ValidMessage, SeenEventIds
  <2>7. PolledAccounted(c)' /\ OffsetsOrdered(c)'
    BY <1>1, <2>1, <2>2, <2>5, <2>6, FetchStep
  <2> QED
    BY <2>3, <2>5, <2>7 DEF ProcessInv
<1>4. CASE HandleRejected(c)
  <2>1. PICK p \in Partitions, m \in RejectedMessage :
             /\ Fetch(c, p, m)
             /\ dlq' = [dlq EXCEPT ![c] = @ \union {m}]
             /\ UNCHANGED valid
             /\ ThenFlushIfDue(c)
    BY <1>4 DEF HandleRejected
  <2>2. m \in Message
    BY DEF RejectedMessage, delivery!RejectedMessage, Message
  <2>3. dlq'[c] = dlq[c] \union {m} /\ valid'[c] = valid[c] /\ dlqQueue'[c] = dlqQueue[c]
    BY <1>1, <2>1 DEF TypeOK, Fetch
  <2>4. BatchSound(c)'
    BY <1>1, <2>3 DEF ProcessInv, BatchSound
  <2>5. pc[c] = "poll"
    BY <2>1 DEF Fetch
  <2>6. FlushOrdered(c)' /\ pc'[c] \in {"poll", "write"}
    BY <1>1, <2>1, <2>5, ThenFlushOrdered
  <2>7. Held(c, m)'
    BY <2>3 DEF Held, delivery!AccountedIn
  <2>8. PolledAccounted(c)' /\ OffsetsOrdered(c)'
    BY <1>1, <2>1, <2>2, <2>3, <2>6, <2>7, FetchStep
  <2> QED
    BY <2>4, <2>6, <2>8 DEF ProcessInv
<1>5. CASE HandleRaises(c)
  <2>1. PICK p \in Partitions, m \in Message : Verdict[m] = "raise" /\ Fetch(c, p, m)
    BY <1>5 DEF HandleRaises
  <2>2. BeginFlush(c, valid'[c]) /\ UNCHANGED <<valid, dlq, dlqQueue>>
    BY <1>5, <2>1 DEF HandleRaises, Fetch
  <2>3. FlushOrdered(c)' /\ pc'[c] = "write"
    BY <1>1, <2>2, BeginFlushOrdered
  <2>4. BatchSound(c)'
    BY <1>1, <2>2 DEF ProcessInv, BatchSound
  <2>5. m \notin Safe
    BY <2>1, SafeIsMessage, ValidIsSafe DEF Dependable
  <2>6. PolledAccounted(c)' /\ OffsetsOrdered(c)'
    BY <1>1, <2>1, <2>2, <2>3, <2>5, FetchStep
  <2> QED
    BY <2>3, <2>4, <2>6 DEF ProcessInv
<1> QED
  BY <1>2, <1>3, <1>4, <1>5 DEF Handle

\* Steps that change neither the batch nor the offsets of a process.
LEMMA BatchStays ==
    ASSUME Inv, NEW c \in Consumers, Grows, Alive(c), FlushOrdered(c)',
           assigned'[c] = assigned[c], position'[c] = position[c],
           member'[c] = member[c], stored'[c] \subseteq stored[c],
           valid'[c] = valid[c], dlq'[c] = dlq[c],
           dlqQueue'[c] \subseteq RejectedMessage,
           \A p \in assigned[c] :
               member[c] => committed'[p] = committed[p] \/ committed'[p] = position[c][p]
    PROVE  ProcessInv(c)'
<1>1. TypeOK /\ ProcessInv(c)
  BY DEF Inv
<1>2. BatchSound(c)'
  BY <1>1 DEF ProcessInv, BatchSound
<1>3. PolledAccounted(c)'
  BY <1>1, PolledStays DEF ProcessInv
<1>4. OffsetsOrdered(c)'
  <2>1. ASSUME NEW p \in assigned[c], member[c]
        PROVE  committed'[p] <= position[c][p]
    <3>1. committed[p] <= position[c][p] /\ position[c][p] \in Nat
      BY <1>1, <2>1 DEF ProcessInv, OffsetsOrdered, TypeOK
    <3> QED
      BY <2>1, <3>1
  <2>2. OffsetsOrdered(c)
    BY <1>1 DEF ProcessInv
  <2> QED
    BY <2>1, <2>2 DEF OffsetsOrdered
<1> QED
  BY <1>2, <1>3, <1>4 DEF ProcessInv

LEMMA LoopStep ==
    ASSUME Inv, NEW c \in Consumers, PollNone(c) \/ Tick(c) \/ Stop(c)
    PROVE  ProcessInv(c)'
<1> USE DEF deliveryVars, groupVars, batchVars
<1>1. TypeOK /\ ProcessInv(c) /\ Grows
  BY StepGrows DEF Inv, StepOf
<1>2. /\ UNCHANGED <<committed, member, assigned, position, stored, valid, dlq, dlqQueue>>
      /\ pc[c] = "poll"
  BY DEF PollNone, Tick, Stop
<1>3. FlushOrdered(c)'
  <2>1. CASE PollNone(c)
    BY <1>1, <1>2, <2>1, BeginFlushOrdered DEF PollNone
  <2>2. CASE Tick(c)
    BY <1>2, <2>2, PollOrdered DEF Tick
  <2>3. CASE Stop(c)
    <3>1. CASE IsEmpty(consumed[c])
      <4>1. pc'[c] = "close"
        BY <1>1, <2>3, <3>1 DEF Stop, TypeOK
      <4> QED
        BY <4>1, PollOrdered
    <3>2. CASE ~IsEmpty(consumed[c])
      BY <1>1, <1>2, <2>3, <3>2, BeginFlushOrdered DEF Stop
    <3> QED
      BY <3>1, <3>2
  <2> QED
    BY <2>1, <2>2, <2>3
<1> QED
  BY <1>1, <1>2, <1>3, BatchStays DEF Alive, ProcessInv, BatchSound

\* A process that exits leaves nothing behind that the invariant speaks of.
LEMMA ExitStep ==
    ASSUME Inv, NEW c \in Consumers, Exit(c)
    PROVE  ProcessInv(c)'
<1>1. TypeOK
  BY DEF Inv
<1>2. /\ pc'[c] = "stopped" /\ valid'[c] = {} /\ dlq'[c] = {} /\ dlqQueue'[c] = {}
  BY <1>1 DEF Exit, ResetBatch, TypeOK
<1> QED
  BY <1>2, FS_EmptySet, PollOrdered
     DEF ProcessInv, BatchSound, PolledAccounted, OffsetsOrdered, Alive

\* An exception: the flush starts over, or the process exits.
LEMMA RaiseStep ==
    ASSUME Inv, NEW c \in Consumers, Grows, Alive(c), UNCHANGED groupVars,
           (Unwind(c) /\ dlqQueue'[c] \subseteq RejectedMessage) \/ Die(c),
           \A p \in assigned[c] :
               member[c] => committed'[p] = committed[p] \/ committed'[p] = position[c][p]
    PROVE  ProcessInv(c)'
<1>1. TypeOK /\ ProcessInv(c)
  BY DEF Inv
<1>2. CASE Unwind(c) /\ dlqQueue'[c] \subseteq RejectedMessage
  <2>1. BeginFlush(c, valid'[c]) /\ UNCHANGED <<valid, dlq>>
    BY <1>2 DEF Unwind
  <2>2. FlushOrdered(c)'
    BY <1>1, <2>1, BeginFlushOrdered
  <2> QED
    BY <1>1, <1>2, <2>1, <2>2, BatchStays DEF groupVars
<1>3. CASE Die(c)
  BY <1>3, ExitStep DEF Die
<1> QED
  BY <1>2, <1>3

LEMMA FlushStep ==
    ASSUME Inv, NEW c \in Consumers, Flush(c)
    PROVE  ProcessInv(c)'
<1> USE DEF deliveryVars, groupVars, batchVars
<1>1. TypeOK /\ ProcessInv(c) /\ Grows
  BY StepGrows DEF Inv, StepOf
<1>2. Alive(c)
  BY DEF Flush, WriteFile, WriteFails, PublishRejections, PublishRaises, DlqFlushed,
         Commit, CommitRaises, CommitFails, Alive
<1>3. dlqQueue[c] \subseteq RejectedMessage /\ dlq[c] \subseteq RejectedMessage
  BY <1>1 DEF ProcessInv, BatchSound
<1>a. ASSUME Raise(c)
      PROVE  (Unwind(c) /\ dlqQueue'[c] \subseteq RejectedMessage) \/ Die(c)
  BY <1>3, <1>a DEF Raise
<1>4. CASE WriteFile(c)
  <2>1. PICK d \in todo[c] :
             /\ copies' = [m \in Message |->
                             IF m \in valid[c] /\ Directory[m] = d THEN copies[m] + 1
                                                                  ELSE copies[m]]
             /\ todo' = [todo EXCEPT ![c] = @ \ {d}]
    BY <1>4 DEF WriteFile
  <2>2. \A m \in valid[c] : Directory[m] = d => m \in Landed'
    BY <1>1, <2>1 DEF Landed, TypeOK
  <2>3. /\ pc[c] = "write" /\ UNCHANGED <<pc, valid, dlq>>
        /\ todo'[c] = todo[c] \ {d}
    BY <1>1, <1>4, <2>1 DEF WriteFile, TypeOK
  <2>4. FlushOrdered(c)'
    BY <1>1, <2>2, <2>3 DEF ProcessInv, FlushOrdered, Grows
  <2> QED
    BY <1>1, <1>2, <1>3, <1>4, <2>3, <2>4, BatchStays DEF WriteFile
<1>5. CASE WriteFails(c)
  BY <1>1, <1>2, <1>5, <1>a, RaiseStep DEF WriteFails
<1>11. CASE PublishRaises(c)
  <2>1. (Unwind(c) /\ dlqQueue'[c] \subseteq RejectedMessage) \/ Die(c)
    BY <1>1, <1>3, <1>11 DEF PublishRaises, TypeOK
  <2> QED
    BY <1>1, <1>2, <1>11, <2>1, RaiseStep DEF PublishRaises
<1>6. CASE PublishRejections(c)
  <2>1. /\ pc[c] = "write" /\ todo[c] = {} /\ UNCHANGED <<copies, dlqTopic, valid, dlq>>
        /\ dlqQueue'[c] = dlqQueue[c] \union dlq[c]
        /\ pc'[c] = IF dlq[c] = {} THEN "commit" ELSE "dlq"
    BY <1>1, <1>6 DEF PublishRejections, TypeOK
  <2>2. valid[c] \subseteq Landed
    BY <1>1, <2>1 DEF ProcessInv, FlushOrdered
  <2>3. FlushOrdered(c)'
    BY <1>1, <2>1, <2>2 DEF FlushOrdered, Grows
  <2> QED
    BY <1>1, <1>2, <1>3, <1>6, <2>1, <2>3, BatchStays DEF PublishRejections
<1>7. CASE DlqFlushed(c)
  <2>1. /\ pc[c] = "dlq" /\ (Dependable => dlqQueue[c] = {}) /\ pc'[c] = "commit"
        /\ UNCHANGED <<copies, dlqTopic, valid, dlq, dlqQueue>>
    BY <1>1, <1>7 DEF DlqFlushed, Dependable, TypeOK
  <2>2. FlushOrdered(c)'
    BY <1>1, <2>1 DEF ProcessInv, FlushOrdered, Grows
  <2> QED
    BY <1>1, <1>2, <1>3, <1>7, <2>1, <2>2, BatchStays DEF DlqFlushed
<1>8. CASE Commit(c)
  <2>1. /\ pc'[c] \in {"poll", "close"} /\ valid'[c] = {} /\ dlq'[c] = {}
        /\ stored'[c] = {} /\ UNCHANGED <<member, assigned, position, dlqQueue>>
    BY <1>1, <1>8 DEF Commit, ResetBatch, TypeOK
  <2>2. BatchSound(c)'
    BY <1>3, <2>1, FS_EmptySet DEF BatchSound
  <2>3. FlushOrdered(c)'
    BY <2>1, PollOrdered
  <2>4. PolledAccounted(c)'
    <3>1. pc[c] = "commit"
      BY <1>8 DEF Commit
    <3>2. /\ BatchSound(c) /\ valid[c] \subseteq Landed
          /\ Dependable => dlq[c] \subseteq dlqTopic
      BY <1>1, <3>1 DEF ProcessInv, FlushOrdered
    <3>3. ASSUME NEW m \in Safe, m[1] \in assigned[c], m[2] < position[c][m[1]]
          PROVE  Accounted(m)'
      <4>1. Accounted(m) \/ Held(c, m)
        BY <1>1, <1>2, <3>3 DEF ProcessInv, PolledAccounted
      <4> QED
        BY <1>1, <3>2, <4>1, HeldAccounted, AccountedStays
    <3> QED
      BY <2>1, <3>3 DEF PolledAccounted
  <2>5. OffsetsOrdered(c)'
    <3>1. committed' = AfterCommit(c)
      BY <1>8 DEF Commit
    <3>2. ASSUME NEW p \in assigned[c]
          PROVE  /\ position[c][p] <= LogEnd[p]
                 /\ member[c] => committed'[p] <= position[c][p]
      <4>1. p \in Partitions /\ position[c][p] \in Nat
        BY <1>1 DEF TypeOK
      <4>2. committed'[p] = committed[p] \/ committed'[p] = position[c][p]
        BY <3>1, <4>1 DEF AfterCommit
      <4> QED
        BY <1>1, <1>2, <4>1, <4>2 DEF ProcessInv, OffsetsOrdered
    <3> QED
      BY <2>1, <3>2 DEF OffsetsOrdered
  <2> QED
    BY <2>2, <2>3, <2>4, <2>5 DEF ProcessInv
<1>9. CASE CommitRaises(c)
  BY <1>1, <1>2, <1>9, <1>a, RaiseStep DEF CommitRaises
<1>10. CASE CommitFails(c)
  <2>1. \A p \in assigned[c] : committed'[p] = committed[p] \/ committed'[p] = position[c][p]
    BY <1>1, <1>10 DEF CommitFails, AfterCommit, TypeOK
  <2> QED
    BY <1>1, <1>2, <1>10, <1>a, <2>1, RaiseStep DEF CommitFails
<1> QED
  BY <1>4, <1>5, <1>6, <1>7, <1>8, <1>9, <1>10, <1>11 DEF Flush

LEMMA ProducerStep ==
    ASSUME Inv, NEW c \in Consumers, Deliver(c) \/ DeliveryFails(c)
    PROVE  ProcessInv(c)'
<1> USE DEF deliveryVars, groupVars, batchVars
<1>1. TypeOK /\ ProcessInv(c) /\ Grows
  BY StepGrows DEF Inv, StepOf
<1>2. PICK m \in dlqQueue[c] : /\ dlqQueue' = [dlqQueue EXCEPT ![c] = @ \ {m}]
                               /\ Dependable => dlqTopic' = dlqTopic \union {m}
  BY DEF Deliver, DeliveryFails, Dependable
<1>3. /\ UNCHANGED <<copies, committed, member, assigned, position, stored, pc, valid, dlq, todo>>
      /\ dlqQueue'[c] = dlqQueue[c] \ {m}
  BY <1>1, <1>2 DEF Deliver, DeliveryFails, TypeOK
<1>4. FlushOrdered(c)'
  BY <1>1, <1>2, <1>3 DEF ProcessInv, FlushOrdered, Landed
<1>5. BatchSound(c)'
  BY <1>1, <1>3 DEF ProcessInv, BatchSound
<1>6. PolledAccounted(c)'
  BY <1>1, <1>3, PolledStays DEF ProcessInv, Alive
<1>7. OffsetsOrdered(c)'
  BY <1>1, <1>3 DEF ProcessInv, OffsetsOrdered, Alive
<1> QED
  BY <1>4, <1>5, <1>6, <1>7 DEF ProcessInv

------------------------------------------------------------------------------
(* The invariant, and what follows from it.                                *)

LEMMA InvInit == Init => Inv
<1> SUFFICES ASSUME Init PROVE Inv
  OBVIOUS
<1>1. TypeOK
  BY TypeInit DEF TypeInv
<1>2. SafeAccounted
  BY SafeIsMessage, MessageForm DEF Init, SafeAccounted
<1>3. OwnersDisjoint
  BY DEF Init, OwnersDisjoint
<1>4. OffsetsBounded
  BY LogEndAssumption DEF Init, OffsetsBounded
<1>5. \A c \in Consumers : ProcessInv(c)
  BY FS_EmptySet DEF Init, ProcessInv, BatchSound, PolledAccounted, FlushOrdered,
                     OffsetsOrdered, Alive
<1> QED
  BY <1>1, <1>2, <1>3, <1>4, <1>5 DEF Inv

LEMMA InvStep == Inv /\ [Next]_vars => Inv'
<1> SUFFICES ASSUME Inv, [Next]_vars PROVE Inv'
  OBVIOUS
<1>1. TypeOK'
  <2>1. TypeInv
    BY DEF Inv, TypeInv, BatchesFinite, ProcessInv, BatchSound
  <2> QED
    BY <2>1, TypeStep DEF TypeInv
<1>2. ASSUME NEW c \in Consumers, StepOf(c)
      PROVE  Inv'
  <2>1. ProcessInv(c)'
    <3>1. CASE Group(c) BY <3>1, GroupStep
    <3>2. CASE Handle(c) BY <3>2, HandleStep
    <3>3. CASE PollNone(c) \/ Tick(c) \/ Stop(c) BY <3>3, LoopStep
    <3>4. CASE Flush(c) BY <3>4, FlushStep
    <3>5. CASE Close(c) \/ Kill(c) BY <3>5, ExitStep DEF Close, Kill
    <3>6. CASE Deliver(c) \/ DeliveryFails(c) BY <3>6, ProducerStep
    <3> QED
      BY <1>2, <3>1, <3>2, <3>3, <3>4, <3>5, <3>6 DEF StepOf
  <2>2. \A d \in Consumers : ProcessInv(d)'
    BY <1>2, <2>1, OthersStep
  <2> QED
    BY <1>1, <1>2, <2>2, CommittedStep, OwnersStep DEF Inv
<1>3. CASE UNCHANGED vars
  BY <1>3 DEF vars, Inv, TypeOK, SafeAccounted, Accounted, delivery!Accounted,
              delivery!AccountedIn, Landed, OwnersDisjoint, OffsetsBounded, ProcessInv,
              BatchSound, PolledAccounted, Held, FlushOrdered, OffsetsOrdered, Alive
<1> QED
  BY <1>2, <1>3, NextIsStep

\* The invariant holds in both worlds.
THEOREM InvariantHolds == Spec => []Inv
<1>1. Init => Inv
  BY InvInit
<1>2. Inv /\ [Next]_vars => Inv'
  BY InvStep
<1> QED
  BY <1>1, <1>2, PTL DEF Spec

\* A valid event is never lost: no offset is committed past it before it has a
\* row, even if validate() raises on its neighbours and every rejection is lost.
THEOREM EventsAreNeverLost == Spec => []NoEventLost
<1>1. Inv => NoEventLost
  BY ValidIsSafe DEF Inv, SafeAccounted, NoEventLost
<1> QED
  BY <1>1, InvariantHolds, PTL

\* At least once: no committed offset passes a message that is neither in the
\* landing zone nor in the dead letter queue.
THEOREM AtLeastOnce == ASSUME Dependable PROVE Spec => []CommittedAccounted
<1>1. Inv => CommittedAccounted
  BY DEF Inv, SafeAccounted, Safe, CommittedAccounted
<1> QED
  BY <1>1, InvariantHolds, PTL

------------------------------------------------------------------------------
(* The consumer group implements EventDelivery.                            *)

LEMMA InitRefines == Init => delivery!DeliveryInit
  BY DEF Init, delivery!DeliveryInit, Landed

LEMMA StepRefines ==
    ASSUME Dependable, Inv, NEW c \in Consumers, StepOf(c)
    PROVE  delivery!DeliveryNext \/ UNCHANGED delivery!deliveryVars
<1> USE DEF delivery!DeliveryNext, delivery!deliveryVars, deliveryVars
<1>1. TypeOK /\ ProcessInv(c)
  BY DEF Inv
<1>2. CASE WriteFile(c)
  <2>1. PICK d \in todo[c] :
             copies' = [m \in Message |->
                         IF m \in valid[c] /\ Directory[m] = d THEN copies[m] + 1
                                                              ELSE copies[m]]
    BY <1>2 DEF WriteFile
  <2>2. Landed' = Landed \union { m \in valid[c] : Directory[m] = d }
    BY <1>1, <2>1 DEF Landed, TypeOK
  <2>3. { m \in valid[c] : Directory[m] = d } \in SUBSET delivery!ValidMessage
    BY <1>1 DEF ProcessInv, BatchSound, ValidMessage
  <2>4. delivery!Land
    BY <1>2, <2>2, <2>3 DEF WriteFile, delivery!Land
  <2> QED
    BY <2>4
<1>3. CASE Deliver(c)
  <2>1. PICK m \in dlqQueue[c] : dlqTopic' = dlqTopic \union {m}
    BY <1>3 DEF Deliver
  <2>2. m \in delivery!RejectedMessage
    BY <1>1 DEF ProcessInv, BatchSound, RejectedMessage
  <2>3. UNCHANGED <<Landed, committed>>
    BY <1>3 DEF Deliver, Landed
  <2>4. delivery!Quarantine
    BY <2>1, <2>2, <2>3 DEF delivery!Quarantine
  <2> QED
    BY <2>4
<1>4. CASE Commit(c) \/ CommitFails(c)
  <2>1. UNCHANGED <<Landed, dlqTopic>>
    BY <1>4 DEF Commit, CommitFails, Landed
  <2>2. CASE committed' = committed
    BY <2>1, <2>2
  <2>3. CASE committed' = AfterCommit(c)
    <3>1. committed' \in [Partitions -> Nat]
      BY <1>1, <2>3 DEF AfterCommit, TypeOK
    <3>2. ASSUME NEW p \in Partitions
          PROVE  committed[p] <= committed'[p] /\ committed'[p] <= LogEnd[p]
      <4>1. committed[p] \in Nat /\ committed[p] <= LogEnd[p]
        BY DEF Inv, TypeOK, OffsetsBounded
      <4>2. CASE p \notin stored[c]
        BY <2>3, <4>1, <4>2 DEF AfterCommit
      <4>3. CASE p \in stored[c]
        <5>1. committed'[p] = position[c][p]
          BY <2>3, <4>3 DEF AfterCommit
        <5>2. Alive(c) /\ member[c]
          BY <1>4 DEF Commit, CommitFails, Alive
        <5> QED
          BY <1>1, <4>3, <5>1, <5>2 DEF ProcessInv, OffsetsOrdered
      <4> QED
        BY <4>2, <4>3
    <3>3. ASSUME NEW m \in Message, m[2] < committed'[m[1]]
          PROVE  Accounted(m)
      <4>1. m[1] \in Partitions /\ m \in Safe
        BY MessageForm DEF Safe
      <4>2. CASE m[1] \in stored[c]
        <5>1. pc[c] = "commit"
          BY <1>4 DEF Commit, CommitFails
        <5> QED
          BY <2>3, <3>3, <4>1, <4>2, <5>1, CommitAccounted DEF AfterCommit
      <4>3. CASE m[1] \notin stored[c]
        BY <2>3, <3>3, <4>1, <4>3 DEF AfterCommit, Inv, SafeAccounted
      <4> QED
        BY <4>2, <4>3
    <3>4. delivery!AllAccountedBelow(committed')
      BY <3>3 DEF delivery!AllAccountedBelow, Accounted, Message
    <3>5. delivery!Acknowledge
      BY <2>1, <3>1, <3>2, <3>4 DEF delivery!Acknowledge
    <3> QED
      BY <3>5
  <2> QED
    BY <1>4, <2>2, <2>3 DEF Commit, CommitFails
<1>5. CASE ~WriteFile(c) /\ ~Deliver(c) /\ ~Commit(c) /\ ~CommitFails(c)
  <2>1. UNCHANGED <<copies, dlqTopic, committed>>
    BY <1>5 DEF StepOf, Group, Start, Rejoin, ExpireDead, EvictLive, Assign, Revoke,
              Handle, HandleValid, HandleDuplicate, HandleRejected, HandleRaises,
              Fetch, PollNone, Tick, Stop, Flush, WriteFails, PublishRejections,
              PublishRaises, DlqFlushed, CommitRaises, Close, Kill, DeliveryFails
  <2> QED
    BY <2>1 DEF Landed
<1> QED
  BY <1>2, <1>3, <1>4, <1>5

\* Every behaviour of the group is one of the at-least-once contract.
THEOREM ImplementsDelivery == ASSUME Dependable PROVE Spec => Delivery
<1>1. Init => delivery!DeliveryInit
  BY InitRefines
<1>2. Inv /\ [Next]_vars => [delivery!DeliveryNext]_delivery!deliveryVars
  <2> SUFFICES ASSUME Inv, [Next]_vars
               PROVE  delivery!DeliveryNext \/ UNCHANGED delivery!deliveryVars
    OBVIOUS
  <2>1. CASE Next
    BY <2>1, NextIsStep, StepRefines
  <2>2. CASE UNCHANGED vars
    BY <2>2 DEF vars, delivery!deliveryVars, Landed
  <2> QED
    BY <2>1, <2>2
<1> QED
  BY <1>1, <1>2, InvariantHolds, PTL DEF Spec, Delivery, delivery!DeliverySpec

--------------------------------------------------------------------------------
(***************************************************************************)
(* Duplicates have a bound, proved for any group, topics, validator and    *)
(* broker: a message lands at most once, and two more times for each fault.*)
(*                                                                         *)
(* The argument.  A message that nobody consumes and no offset has passed  *)
(* is worth one copy: whoever polls it will write it.  A process that has  *)
(* it in its batch may write it once; twice when its commit is going to be *)
(* refused, because "finally" flushes the batch again.  The sum of all     *)
(* these claims and of the copies written is never more than one and twice *)
(* the faults: every step that is no fault only passes a claim on or uses  *)
(* it, and a fault adds two at most.                                       *)
(***************************************************************************)

\* The next commit of c, if nothing fails, acknowledges m's partition.
Solid(c, m) == member[c] /\ m[1] \in stored[c]

\* The flush c is in has written m.
Written(c, m) ==
    \/ pc[c] \notin {"poll", "write"}
    \/ pc[c] = "write" /\ Directory[m] \notin todo[c]

Pending(c, m) == IF Written(c, m) THEN 0 ELSE 1

\* The commit will be refused in the loop, and the flush starts over.
Again(c, m) == IF mode[c] = "loop" /\ ~Solid(c, m) THEN 1 ELSE 0

\* c does not know that it was evicted, and polls on.
Stray(c, m) ==
    /\ pc[c] = "poll" /\ mode[c] = "loop" /\ ~member[c]
    /\ m[1] \in assigned[c] /\ position[c][m[1]] <= m[2]

\* The copies of m that c may still write, if nothing fails.
MayWrite(c, m) ==
    IF m \in valid[c] THEN Pending(c, m) + Again(c, m)
    ELSE IF Stray(c, m) THEN 2 ELSE 0

\* c is the one who has polled m.
Taken(c, m) ==
    Alive(c) /\ member[c] /\ m[1] \in assigned[c] /\ m[2] < position[c][m[1]]

\* m will be polled by the next process that gets its partition.
Fresh(m) == committed[m[1]] <= m[2] /\ \A c \in Consumers : ~Taken(c, m)

Unclaimed(m) == IF Fresh(m) THEN 1 ELSE 0

Claims(m) == { x \in Consumers \X {1, 2} : x[2] <= MayWrite(x[1], m) }

CopiesInv ==
    /\ StopInv
    /\ \A m \in Message :
          /\ IsFiniteSet(Claims(m))
          /\ copies[m] + Cardinality(Claims(m)) + Unclaimed(m) <= 1 + 2 * incidents

\* What a step of c owes for m is what it may write more afterwards.
Paid(c, m) ==
    copies'[m] + MayWrite(c, m)' + Unclaimed(m)' <=
        copies[m] + MayWrite(c, m) + Unclaimed(m) + 2 * (incidents' - incidents)

------------------------------------------------------------------------------
(* Counting claims.                                                        *)

LEMMA ClaimsRange ==
    ASSUME NEW c \in Consumers, NEW m \in Message
    PROVE  /\ MayWrite(c, m) \in 0 .. 2 /\ MayWrite(c, m)' \in 0 .. 2
           /\ Unclaimed(m) \in 0 .. 1 /\ Unclaimed(m)' \in 0 .. 1
<1>1. /\ Pending(c, m) \in 0 .. 1 /\ Pending(c, m)' \in 0 .. 1
      /\ Again(c, m) \in 0 .. 1 /\ Again(c, m)' \in 0 .. 1
  BY DEF Pending, Again
<1>2. MayWrite(c, m) \in 0 .. 2 /\ MayWrite(c, m)' \in 0 .. 2
  BY <1>1 DEF MayWrite
<1>3. Unclaimed(m) \in 0 .. 1 /\ Unclaimed(m)' \in 0 .. 1
  BY DEF Unclaimed
<1> QED BY <1>2, <1>3

\* The claims of one process, counted apart from those of the others.
ClaimsOf(c, n) == IF n = 0 THEN {} ELSE IF n = 1 THEN {<<c, 1>>} ELSE {<<c, 1>>, <<c, 2>>}

LEMMA CountApart ==
    ASSUME NEW Rest, IsFiniteSet(Rest), NEW c, \A x \in Rest : x[1] # c, NEW n \in 0 .. 2
    PROVE  /\ IsFiniteSet(Rest \union ClaimsOf(c, n))
           /\ Cardinality(Rest \union ClaimsOf(c, n)) = Cardinality(Rest) + n
<1>1. Cardinality(Rest) \in Nat
  BY FS_CardinalityType
<1>2. <<c, 1>> \notin Rest /\ <<c, 2>> \notin Rest \union {<<c, 1>>}
  OBVIOUS
<1>3. CASE n = 0
  <2>1. Rest \union ClaimsOf(c, n) = Rest
    BY <1>3 DEF ClaimsOf
  <2> QED BY <1>1, <1>3, <2>1
<1>4. /\ IsFiniteSet(Rest \union {<<c, 1>>})
      /\ Cardinality(Rest \union {<<c, 1>>}) = Cardinality(Rest) + 1
  BY <1>2, FS_AddElement
<1>5. CASE n = 1
  BY <1>4, <1>5 DEF ClaimsOf
<1>6. CASE n = 2
  <2>1. Rest \union ClaimsOf(c, n) = (Rest \union {<<c, 1>>}) \union {<<c, 2>>}
    BY <1>6 DEF ClaimsOf
  <2>2. /\ IsFiniteSet((Rest \union {<<c, 1>>}) \union {<<c, 2>>})
        /\ Cardinality((Rest \union {<<c, 1>>}) \union {<<c, 2>>}) =
               Cardinality(Rest \union {<<c, 1>>}) + 1
    BY <1>2, <1>4, FS_AddElement
  <2> QED BY <1>1, <1>4, <1>6, <2>1, <2>2
<1> QED BY <1>3, <1>5, <1>6

\* The claims of the others are their own affair: a step that is paid keeps
\* the account.
LEMMA PaidKeepsAccount ==
    ASSUME CopiesInv, NEW c \in Consumers, OthersKeep(c), NEW m \in Message, Paid(c, m),
           copies'[m] \in Nat, incidents' \in Nat
    PROVE  /\ IsFiniteSet(Claims(m)')
           /\ copies'[m] + Cardinality(Claims(m)') + Unclaimed(m)' <= 1 + 2 * incidents'
<1> DEFINE Rest == { x \in Claims(m) : x[1] # c }
<1>1. IsFiniteSet(Rest) /\ \A x \in Rest : x[1] # c
  BY FS_Subset DEF CopiesInv
<1>2. MayWrite(c, m) \in 0 .. 2 /\ MayWrite(c, m)' \in 0 .. 2
  BY ClaimsRange
<1>3. Claims(m) = Rest \union ClaimsOf(c, MayWrite(c, m))
  BY <1>2 DEF Claims, ClaimsOf
<1>4. Claims(m)' = Rest \union ClaimsOf(c, MayWrite(c, m)')
  <2>1. \A d \in Consumers \ {c} : MayWrite(d, m)' = MayWrite(d, m)
    BY DEF OthersKeep, MayWrite, Pending, Again, Stray, Written, Solid
  <2> QED BY <1>2, <2>1 DEF Claims, ClaimsOf
<1> HIDE DEF Rest
<1>5. /\ Cardinality(Claims(m)) = Cardinality(Rest) + MayWrite(c, m)
      /\ IsFiniteSet(Claims(m)')
      /\ Cardinality(Claims(m)') = Cardinality(Rest) + MayWrite(c, m)'
  <2> DEFINE n == MayWrite(c, m)
             k == MayWrite(c, m)'
  <2>1. Cardinality(Rest \union ClaimsOf(c, n)) = Cardinality(Rest) + n
    BY <1>1, <1>2, CountApart
  <2>2. /\ IsFiniteSet(Rest \union ClaimsOf(c, k))
        /\ Cardinality(Rest \union ClaimsOf(c, k)) = Cardinality(Rest) + k
    BY <1>1, <1>2, CountApart
  <2> QED BY <1>3, <1>4, <2>1, <2>2
<1>6. /\ Cardinality(Rest) \in Nat /\ copies[m] \in Nat /\ incidents \in Nat
      /\ Unclaimed(m) \in 0 .. 1 /\ Unclaimed(m)' \in 0 .. 1
  BY <1>1, FS_CardinalityType, ClaimsRange DEF CopiesInv, StopInv, TypeInv, TypeOK
<1>7. copies[m] + Cardinality(Claims(m)) + Unclaimed(m) <= 1 + 2 * incidents
  BY DEF CopiesInv
<1> QED BY <1>2, <1>5, <1>6, <1>7 DEF Paid

------------------------------------------------------------------------------
(* Who may claim a message nobody has taken.                                *)

\* Offsets only grow.
LEMMA OffsetsGrow ==
    ASSUME StopInv, NEW c \in Consumers, StepOf(c), NEW p \in Partitions
    PROVE  committed[p] \in Nat /\ committed'[p] \in Nat /\ committed[p] <= committed'[p]
<1>1. TypeOK /\ TypeOK'
  <2>1. Next
    BY DEF StepOf, Next
  <2> QED BY <2>1, TypeStep DEF StopInv, TypeInv
<1>2. committed[p] \in Nat /\ committed'[p] \in Nat
  BY <1>1 DEF TypeOK
<1>3. CASE pc[c] = "commit" /\ member[c] /\ p \in stored[c] /\ committed'[p] = position[c][p]
  <2>1. StoredTracked(c) /\ Alive(c)
    BY <1>3 DEF StopInv, Alive
  <2> QED BY <1>2, <1>3, <2>1 DEF StoredTracked
<1>4. \/ committed'[p] = committed[p]
      \/ /\ pc[c] = "commit" /\ member[c] /\ p \in stored[c]
         /\ committed'[p] = position[c][p]
  BY <1>1, StepCommits
<1> QED BY <1>2, <1>3, <1>4

\* What one has polled and not committed is committed next.
LEMMA TakenIsSolid ==
    ASSUME StopInv, NEW c \in Consumers, NEW m \in Message, Taken(c, m),
           committed[m[1]] <= m[2]
    PROVE  Solid(c, m) /\ stored[c] # {}
<1>1. /\ position[c][m[1]] \in Nat /\ committed[m[1]] \in Nat /\ m[2] \in Nat
  BY MessageForm DEF StopInv, TypeInv, TypeOK
<1> QED BY <1>1 DEF StopInv, StoredTracked, Taken, Solid

\* A message becomes fresh only when the one who took it is gone.
LEMMA FreshGain ==
    ASSUME StopInv, NEW c \in Consumers, StepOf(c), NEW m \in Message
    PROVE  \/ Unclaimed(m)' <= Unclaimed(m)
           \/ /\ Unclaimed(m) = 0 /\ Unclaimed(m)' = 1
              /\ Taken(c, m) /\ ~Taken(c, m)' /\ Solid(c, m) /\ stored[c] # {}
<1> SUFFICES ASSUME Fresh(m)', ~Fresh(m)
             PROVE  Taken(c, m) /\ ~Taken(c, m)' /\ Solid(c, m) /\ stored[c] # {}
  BY DEF Unclaimed
<1>1. m[1] \in Partitions /\ m[2] \in Nat
  BY MessageForm
<1>2. committed[m[1]] <= m[2]
  BY <1>1, OffsetsGrow DEF Fresh
<1>3. PICK d \in Consumers : Taken(d, m)
  BY <1>2 DEF Fresh
<1>4. ~Taken(d, m)' /\ ~Taken(c, m)'
  BY DEF Fresh
<1>5. d = c
  <2>1. OthersKeep(c)
    BY StepOthers DEF StopInv, TypeInv
  <2> QED BY <1>3, <1>4, <2>1 DEF OthersKeep, Taken, Alive
<1> QED BY <1>2, <1>3, <1>4, <1>5, TakenIsSolid

\* The three ways a step is paid: it claims no more than before, ...
LEMMA CalmIsPaid ==
    ASSUME StopInv, NEW c \in Consumers, StepOf(c), NEW m \in Message,
           copies'[m] = copies[m], incidents' = incidents,
           MayWrite(c, m)' <= MayWrite(c, m),
           Taken(c, m) => Taken(c, m)' \/ ~Solid(c, m) \/ stored[c] = {}
    PROVE  Paid(c, m)
<1>1. copies[m] \in Nat /\ incidents \in Nat
  BY DEF StopInv, TypeInv, TypeOK
<1>2. Unclaimed(m)' <= Unclaimed(m)
  BY FreshGain
<1> QED BY <1>1, <1>2, ClaimsRange DEF Paid

\* ... or it is a fault, which pays for one claim more on the message as on the
\* process, ...
LEMMA FaultIsPaid ==
    ASSUME StopInv, NEW c \in Consumers, StepOf(c), NEW m \in Message,
           copies'[m] = copies[m], incidents' = incidents + 1,
           MayWrite(c, m)' <= MayWrite(c, m) + 1
    PROVE  Paid(c, m)
<1>1. copies[m] \in Nat /\ incidents \in Nat
  BY DEF StopInv, TypeInv, TypeOK
<1> QED BY <1>1, ClaimsRange DEF Paid

\* ... or for two on the process when nobody loses the message.
LEMMA StrayIsPaid ==
    ASSUME StopInv, NEW c \in Consumers, StepOf(c), NEW m \in Message,
           copies'[m] = copies[m], incidents' = incidents + 1, ~Taken(c, m)
    PROVE  Paid(c, m)
<1>1. copies[m] \in Nat /\ incidents \in Nat
  BY DEF StopInv, TypeInv, TypeOK
<1>2. Unclaimed(m)' <= Unclaimed(m)
  BY FreshGain
<1> QED BY <1>1, <1>2, ClaimsRange DEF Paid

------------------------------------------------------------------------------
(* Every step is paid.                                                      *)

LEMMA GroupPaid ==
    ASSUME StopInv, NEW c \in Consumers, Group(c), NEW m \in Message
    PROVE  Paid(c, m)
<1>1. TypeOK /\ StepOf(c) /\ (pc[c] = "stopped" => valid[c] = {})
  BY DEF StopInv, TypeInv, StepOf, BatchTracked
<1>2. UNCHANGED <<copies, valid, todo, mode>> \/ Start(c)
  BY DEF Group, Rejoin, ExpireDead, EvictLive, Assign, Revoke, deliveryVars, batchVars
<1>a. copies'[m] = copies[m]
  BY DEF Group, Start, Rejoin, ExpireDead, EvictLive, Assign, Revoke, deliveryVars
<1>b. m[1] \in Partitions /\ m[2] \in Nat
  BY MessageForm
<1>3. CASE Start(c)
  <2>1. pc[c] = "stopped" /\ valid'[c] = {} /\ member'[c] /\ UNCHANGED incidents
    BY <1>1, <1>3 DEF Start, bounds, TypeOK
  <2>2. MayWrite(c, m)' = 0
    BY <2>1 DEF MayWrite, Stray
  <2>3. ~Taken(c, m)
    BY <2>1 DEF Taken, Alive
  <2> QED BY <1>1, <1>a, <2>1, <2>2, <2>3, CalmIsPaid, ClaimsRange
<1>4. CASE Rejoin(c)
  <2>1. /\ ~member[c] /\ member'[c] /\ stored'[c] = {}
        /\ UNCHANGED <<pc, mode, todo, valid, incidents>>
    BY <1>1, <1>4 DEF Rejoin, bounds, batchVars, TypeOK
  <2>2. MayWrite(c, m)' <= MayWrite(c, m)
    BY <2>1, ClaimsRange DEF MayWrite, Stray, Pending, Again, Written, Solid
  <2>3. ~Taken(c, m)
    BY <2>1 DEF Taken
  <2> QED BY <1>1, <1>a, <2>1, <2>2, <2>3, CalmIsPaid
<1>5. CASE ExpireDead(c)
  <2>1. pc[c] = "stopped" /\ pc' = pc /\ valid'[c] = {} /\ UNCHANGED incidents
    BY <1>1, <1>5 DEF ExpireDead, bounds, batchVars
  <2>2. MayWrite(c, m)' = 0
    BY <2>1 DEF MayWrite, Stray
  <2>3. ~Taken(c, m)
    BY <2>1 DEF Taken, Alive
  <2> QED BY <1>1, <1>a, <2>1, <2>2, <2>3, CalmIsPaid, ClaimsRange
<1>6. CASE EvictLive(c)
  <2>1. /\ member[c] /\ ~member'[c] /\ incidents' = incidents + 1 /\ pc[c] # "stopped"
        /\ UNCHANGED <<assigned, position, stored, pc, mode, todo, valid>>
    BY <1>1, <1>6 DEF EvictLive, Incident, batchVars, TypeOK
  <2>2. CASE m \in valid[c] \/ ~Stray(c, m)'
    <3>1. Pending(c, m)' = Pending(c, m) /\ Again(c, m)' <= Again(c, m) + 1
      BY <2>1 DEF Pending, Again, Written
    <3>2. MayWrite(c, m)' <= MayWrite(c, m) + 1
      BY <2>1, <2>2, <3>1, ClaimsRange DEF MayWrite, Pending, Again
    <3> QED BY <1>1, <1>a, <2>1, <3>2, FaultIsPaid
  <2>3. CASE m \notin valid[c] /\ Stray(c, m)'
    <3>1. ~Taken(c, m)
      BY <1>1, <1>b, <2>1, <2>3 DEF Stray, Taken, TypeOK
    <3> QED BY <1>1, <1>a, <2>1, <3>1, StrayIsPaid
  <2> QED BY <2>2, <2>3
<1>7. ASSUME NEW p \in Partitions, Assign(c, p)
      PROVE  Paid(c, m)
  <2>1. /\ member[c] /\ p \notin assigned[c] /\ assigned'[c] = assigned[c] \union {p}
        /\ \A q \in Partitions \ {p} : position'[c][q] = position[c][q]
        /\ UNCHANGED <<pc, mode, todo, valid, member, stored, incidents>>
    BY <1>1, <1>7 DEF Assign, Unowned, bounds, batchVars, TypeOK
  <2>2. MayWrite(c, m)' = MayWrite(c, m)
    BY <2>1 DEF MayWrite, Stray, Pending, Again, Written, Solid
  <2>3. Taken(c, m) => Taken(c, m)'
    BY <1>b, <2>1 DEF Taken, Alive
  <2> QED BY <1>1, <1>a, <2>1, <2>2, <2>3, CalmIsPaid, ClaimsRange
<1>8. ASSUME NEW p \in Partitions, Revoke(c, p)
      PROVE  Paid(c, m)
  <2>1. /\ member[c] /\ incidents' = incidents + 1
        /\ UNCHANGED <<pc, mode, todo, valid, member>>
    BY <1>1, <1>8 DEF Revoke, Incident, batchVars
  <2>2. Pending(c, m)' = Pending(c, m) /\ Again(c, m)' <= Again(c, m) + 1
    BY <2>1 DEF Pending, Again, Written
  <2>3. MayWrite(c, m)' <= MayWrite(c, m) + 1
    BY <2>1, <2>2, ClaimsRange DEF MayWrite, Stray, Pending, Again
  <2> QED BY <1>1, <1>a, <2>1, <2>3, FaultIsPaid
<1> QED BY <1>3, <1>4, <1>5, <1>6, <1>7, <1>8 DEF Group

LEMMA HandlePaid ==
    ASSUME StopInv, NEW c \in Consumers, Handle(c), NEW m \in Message
    PROVE  Paid(c, m)
<1>1. TypeOK /\ StepOf(c)
  BY DEF StopInv, TypeInv, StepOf
<1>2. PICK p \in Partitions, n \in Message :
               /\ Fetch(c, p, n)
               /\ \/ /\ n \notin valid[c] /\ valid'[c] = valid[c] \union {n}
                     /\ ThenFlushIfDue(c)
                  \/ valid'[c] = valid[c] /\ ThenFlushIfDue(c)
                  \/ /\ valid'[c] = valid[c] /\ mode'[c] = "unwind" /\ pc'[c] = "write"
                     /\ todo'[c] = Directories(valid[c])
  BY <1>1, HandleEffect
<1>3. /\ pc[c] = "poll" /\ mode[c] = "loop" /\ p \in assigned[c]
      /\ n[1] = p /\ n[2] = position[c][p]
      /\ position'[c] = [position[c] EXCEPT ![p] = @ + 1]
      /\ stored'[c] = stored[c] \union {p}
      /\ UNCHANGED <<copies, committed, member, assigned, incidents>>
  BY <1>1, <1>2, FetchEffect
<1>4. /\ m = <<m[1], m[2]>> /\ m[1] \in Partitions /\ m[2] \in Nat /\ n = <<n[1], n[2]>>
      /\ position[c] \in [Partitions -> Nat]
  BY <1>1, MessageForm DEF TypeOK
<1>5. \A q \in Partitions : position[c][q] \in Nat /\ position[c][q] <= position'[c][q]
  BY <1>3, <1>4
<1>6. \/ pc'[c] = "write" /\ todo'[c] = Directories(valid'[c])
      \/ pc'[c] = "poll" /\ mode'[c] = "loop"
  BY <1>1, <1>2, <1>3, ThenFlushEffect
<1>7. Taken(c, m) => Taken(c, m)'
  BY <1>3, <1>4, <1>5, <1>6 DEF Taken, Alive
<1>8. Stray(c, m)' => Stray(c, m)
  BY <1>3, <1>4, <1>5 DEF Stray
<1>9. m \in valid'[c] => Pending(c, m)' = 1
  BY <1>6 DEF Pending, Written, Directories
<1>10. Again(c, m)' <= Again(c, m)
  BY <1>3 DEF Again, Solid
<1>11. Pending(c, m) = 1
  BY <1>3 DEF Pending, Written
<1>12. CASE m \in valid[c] \/ m \notin valid'[c]
  <2>1. MayWrite(c, m)' <= MayWrite(c, m)
    <3>1. CASE m \in valid[c]
      <4>1. m \in valid'[c]
        BY <1>2, <3>1
      <4>2. MayWrite(c, m) = Pending(c, m) + Again(c, m)
            /\ MayWrite(c, m)' = Pending(c, m)' + Again(c, m)'
        BY <3>1, <4>1 DEF MayWrite
      <4>3. Again(c, m) \in 0 .. 1 /\ Again(c, m)' \in 0 .. 1
        BY DEF Again
      <4> QED BY <1>9, <1>10, <1>11, <4>1, <4>2, <4>3
    <3>2. CASE m \notin valid[c]
      BY <1>8, <1>12, <3>2 DEF MayWrite
    <3> QED BY <3>1, <3>2
  <2> QED BY <1>1, <1>3, <1>7, <2>1, CalmIsPaid
<1>13. CASE m \notin valid[c] /\ m \in valid'[c]
  <2>1. m = n /\ m[1] = p /\ m[2] = position[c][p]
    BY <1>2, <1>3, <1>13
  <2>2. CASE ~member[c]
    <3>1. Stray(c, m)
      BY <1>3, <1>4, <2>1, <2>2 DEF Stray
    <3>2. MayWrite(c, m) = 2
      BY <1>13, <3>1 DEF MayWrite
    <3> QED BY <1>1, <1>3, <1>7, <3>2, CalmIsPaid, ClaimsRange
  <2>3. CASE member[c]
    <3>1. Again(c, m)' = 0
      BY <1>3, <2>1, <2>3 DEF Again, Solid
    <3>2. MayWrite(c, m)' = 1
      BY <1>9, <1>13, <3>1 DEF MayWrite
    <3>3. MayWrite(c, m) = 0
      BY <1>13, <2>3 DEF MayWrite, Stray
    <3>4. Fresh(m)
      <4>1. committed[p] <= position[c][p]
        BY <1>3, <2>3 DEF StopInv, StoredTracked, Alive
      <4>2. ASSUME NEW d \in Consumers, Taken(d, m)
            PROVE  FALSE
        <5>1. CASE d = c
          BY <1>4, <2>1, <4>2, <5>1 DEF Taken
        <5>2. CASE d # c
          BY <1>3, <2>1, <2>3, <4>2, <5>2 DEF StopInv, OwnersDisjoint, Taken
        <5> QED BY <5>1, <5>2
      <4> QED BY <2>1, <4>1, <4>2 DEF Fresh
    <3>5. Taken(c, m)'
      BY <1>3, <1>4, <1>6, <2>1, <2>3 DEF Taken, Alive
    <3>6. Unclaimed(m) = 1 /\ Unclaimed(m)' = 0
      BY <3>4, <3>5 DEF Unclaimed, Fresh
    <3>7. copies'[m] = copies[m] /\ copies[m] \in Nat /\ incidents' = incidents
          /\ incidents \in Nat
      BY <1>1, <1>3 DEF TypeOK
    <3> QED BY <3>2, <3>3, <3>6, <3>7 DEF Paid
  <2> QED BY <2>2, <2>3
<1> QED BY <1>12, <1>13

\* The steps of the loop that poll nothing.
LEMMA LoopPaid ==
    ASSUME StopInv, NEW c \in Consumers, PollNone(c) \/ Tick(c) \/ Stop(c), NEW m \in Message
    PROVE  Paid(c, m)
<1>1. TypeOK /\ StepOf(c) /\ valid[c] \subseteq consumed[c]
  BY DEF StopInv, TypeInv, StepOf, BatchTracked
<1>2. /\ (pc[c] = "poll" /\ mode[c] = "loop") \/ Tick(c)
      /\ UNCHANGED <<copies, committed, member, assigned, position, stored, valid, incidents>>
  BY DEF PollNone, Tick, Stop, deliveryVars, groupVars, batchVars, bounds
<1>3. \/ pc'[c] = "poll" /\ mode'[c] = mode[c]
      \/ pc'[c] = "write" /\ todo'[c] = Directories(valid[c])
      \/ pc'[c] = "close" /\ valid[c] = {}
  BY <1>1, StopEffect DEF PollNone, Tick, BeginFlush, TypeOK
<1>4. pc[c] = "poll" /\ (mode'[c] = "loop" => mode[c] = "loop")
  BY <1>1, StopEffect DEF PollNone, Tick
<1>5. MayWrite(c, m)' <= MayWrite(c, m)
  <2>1. Again(c, m)' <= Again(c, m)
    BY <1>2, <1>4 DEF Again, Solid
  <2>2. Pending(c, m) = 1
    BY <1>4 DEF Pending, Written
  <2>3. CASE m \in valid[c]
    <3>1. Pending(c, m)' <= 1
      BY DEF Pending
    <3> QED BY <1>2, <2>1, <2>2, <2>3, <3>1, ClaimsRange DEF MayWrite, Again, Pending
  <2>4. CASE m \notin valid[c]
    <3>1. Stray(c, m)' => Stray(c, m)
      BY <1>2, <1>3, <1>4 DEF Stray
    <3> QED BY <1>2, <2>4, <3>1 DEF MayWrite
  <2> QED BY <2>3, <2>4
<1>6. Taken(c, m) => Taken(c, m)'
  BY <1>2, <1>3 DEF Taken, Alive
<1> QED BY <1>1, <1>2, <1>5, <1>6, CalmIsPaid

\* A flush that starts over writes the batch once more, and then the process ends.
LEMMA RaiseLeavesOne ==
    ASSUME TypeOK, NEW c \in Consumers, Unwind(c) \/ Die(c), NEW m \in Message
    PROVE  /\ MayWrite(c, m)' <= 1
           /\ m \notin valid[c] \/ mode[c] # "loop" => MayWrite(c, m)' = 0
<1>1. CASE /\ mode[c] = "loop" /\ mode'[c] = "unwind" /\ pc'[c] = "write"
           /\ valid'[c] = valid[c]
  <2>1. Again(c, m)' = 0 /\ Pending(c, m)' \in 0 .. 1 /\ ~Stray(c, m)'
    BY <1>1 DEF Again, Pending, Stray
  <2> QED BY <1>1, <2>1 DEF MayWrite
<1>2. CASE mode[c] # "loop" /\ pc'[c] = "stopped" /\ valid'[c] = {}
  BY <1>2 DEF MayWrite, Stray
<1> QED BY <1>1, <1>2, RaiseEffect

LEMMA WritePaid ==
    ASSUME StopInv, NEW c \in Consumers, WriteFile(c), NEW m \in Message
    PROVE  Paid(c, m)
<1>1. TypeOK /\ StepOf(c)
  BY DEF StopInv, TypeInv, StepOf, Flush
<1>2. PICK d \in todo[c] :
           /\ copies' = [n \in Message |->
                           IF n \in valid[c] /\ Directory[n] = d THEN copies[n] + 1
                                                                ELSE copies[n]]
           /\ todo' = [todo EXCEPT ![c] = @ \ {d}]
  BY DEF WriteFile
<1>3. /\ pc[c] = "write" /\ todo'[c] = todo[c] \ {d}
      /\ UNCHANGED <<committed, member, assigned, position, stored, pc, mode, valid, incidents>>
  BY <1>1, <1>2 DEF WriteFile, groupVars, batchVars, bounds, TypeOK
<1>4. Again(c, m)' = Again(c, m) /\ Again(c, m) \in 0 .. 1
  BY <1>3 DEF Again, Solid
<1>5. Taken(c, m)' = Taken(c, m)
  BY <1>3 DEF Taken, Alive
<1>6. CASE m \in valid[c] /\ Directory[m] = d
  <2>1. Pending(c, m) = 1 /\ Pending(c, m)' = 0
    BY <1>3, <1>6 DEF Pending, Written
  <2>2. MayWrite(c, m) = 1 + Again(c, m) /\ MayWrite(c, m)' = Again(c, m)
    BY <1>3, <1>4, <1>6, <2>1 DEF MayWrite
  <2>3. copies'[m] = copies[m] + 1 /\ copies[m] \in Nat /\ incidents \in Nat
        /\ incidents' = incidents
    BY <1>1, <1>2, <1>3, <1>6 DEF TypeOK
  <2>4. Unclaimed(m)' <= Unclaimed(m)
    BY <1>1, <1>5, FreshGain
  <2> QED BY <1>4, <2>2, <2>3, <2>4, ClaimsRange DEF Paid
<1>7. CASE ~ (m \in valid[c] /\ Directory[m] = d)
  <2>1. copies'[m] = copies[m]
    BY <1>2, <1>7
  <2>2. m \in valid[c] => Pending(c, m)' = Pending(c, m)
    BY <1>3, <1>7 DEF Pending, Written
  <2>3. MayWrite(c, m)' = MayWrite(c, m)
    BY <1>3, <1>4, <2>2 DEF MayWrite, Stray
  <2> QED BY <1>1, <1>3, <1>5, <2>1, <2>3, CalmIsPaid, ClaimsRange
<1> QED BY <1>6, <1>7

LEMMA FlushPaid ==
    ASSUME StopInv, NEW c \in Consumers, Flush(c), NEW m \in Message
    PROVE  Paid(c, m)
<1>1. TypeOK /\ StepOf(c)
  BY DEF StopInv, TypeInv, StepOf
<1>2. MayWrite(c, m) \in 0 .. 2 /\ MayWrite(c, m)' \in 0 .. 2
  BY ClaimsRange
<1>3. CASE WriteFails(c) \/ PublishRaises(c) \/ CommitFails(c)
  <2>1. (Unwind(c) \/ Die(c)) /\ copies' = copies /\ incidents' = incidents + 1
    BY <1>3 DEF WriteFails, PublishRaises, CommitFails, Raise, Incident, deliveryVars
  <2>2. MayWrite(c, m)' <= MayWrite(c, m) + 1
    BY <1>1, <1>2, <2>1, RaiseLeavesOne
  <2> QED BY <1>1, <2>1, <2>2, FaultIsPaid
<1>4. CASE PublishRejections(c) \/ DlqFlushed(c)
  <2>1. /\ pc'[c] \in {"dlq", "commit"} /\ pc[c] \in {"write", "dlq"}
        /\ pc[c] = "write" => todo[c] = {}
        /\ UNCHANGED <<copies, committed, member, assigned, position, stored, mode, valid,
                       incidents>>
    BY <1>1, <1>4 DEF PublishRejections, DlqFlushed, deliveryVars, groupVars, batchVars,
       bounds, TypeOK
  <2>2. Pending(c, m)' = 0 /\ Pending(c, m) = 0 /\ Again(c, m)' = Again(c, m)
    BY <2>1 DEF Pending, Written, Again, Solid
  <2>3. MayWrite(c, m)' <= MayWrite(c, m)
    BY <1>2, <2>1, <2>2 DEF MayWrite, Stray
  <2>4. Taken(c, m) => Taken(c, m)'
    BY <2>1 DEF Taken, Alive
  <2> QED BY <1>1, <2>1, <2>3, <2>4, CalmIsPaid
<1>5. CASE Commit(c)
  <2>1. /\ member[c] /\ valid'[c] = {} /\ pc'[c] \in {"poll", "close"}
        /\ UNCHANGED <<copies, member, assigned, position, incidents>>
    BY <1>1, <1>5 DEF Commit, ResetBatch, bounds, TypeOK
  <2>2. MayWrite(c, m)' = 0
    BY <2>1 DEF MayWrite, Stray
  <2>3. Taken(c, m) => Taken(c, m)'
    BY <2>1 DEF Taken, Alive
  <2> QED BY <1>1, <1>2, <2>1, <2>2, <2>3, CalmIsPaid
<1>6. CASE CommitRaises(c)
  <2>1. /\ Unwind(c) \/ Die(c)
        /\ pc[c] = "commit"
        /\ ~member[c] \/ stored[c] = {}
        /\ UNCHANGED <<copies, member, assigned, position, incidents>>
    BY <1>6 DEF CommitRaises, Raise, deliveryVars, groupVars, bounds
  <2>2. ~Solid(c, m)
    BY <1>6 DEF Solid, CommitRaises
  <2>3. m \in valid[c] /\ mode[c] = "loop" => MayWrite(c, m) = 1
    BY <1>6, <2>2 DEF CommitRaises, MayWrite, Pending, Again, Written
  <2>4. MayWrite(c, m)' <= MayWrite(c, m)
    <3>1. CASE m \in valid[c] /\ mode[c] = "loop"
      <4>1. MayWrite(c, m)' <= 1
        BY <1>1, <2>1, RaiseLeavesOne
      <4> QED BY <2>3, <3>1, <4>1
    <3>2. CASE m \notin valid[c] \/ mode[c] # "loop"
      <4>1. MayWrite(c, m)' = 0
        BY <1>1, <2>1, <3>2, RaiseLeavesOne
      <4> QED BY <1>2, <4>1
    <3> QED BY <3>1, <3>2
  <2> QED BY <1>1, <2>1, <2>2, <2>4, CalmIsPaid
<1> QED BY <1>3, <1>4, <1>5, <1>6, WritePaid DEF Flush

LEMMA EndPaid ==
    ASSUME StopInv, NEW c \in Consumers, Close(c) \/ Kill(c), NEW m \in Message
    PROVE  Paid(c, m)
<1>1. TypeOK /\ StepOf(c)
  BY DEF StopInv, TypeInv, StepOf
<1>2. valid'[c] = {} /\ pc'[c] = "stopped" /\ UNCHANGED copies
  BY <1>1, ExitEffect DEF Close, Kill, deliveryVars
<1>3. MayWrite(c, m)' = 0 /\ MayWrite(c, m) \in 0 .. 2
  BY <1>2, ClaimsRange DEF MayWrite, Stray
<1>4. CASE Close(c)
  <2>1. stored[c] = {} /\ UNCHANGED incidents
    BY <1>4 DEF Close, StopInv, StoredTracked, Alive, bounds
  <2> QED BY <1>1, <1>2, <1>3, <2>1, CalmIsPaid
<1>5. CASE Kill(c)
  BY <1>1, <1>2, <1>3, <1>5, FaultIsPaid DEF Kill, Incident
<1> QED BY <1>4, <1>5

LEMMA ProducerPaid ==
    ASSUME StopInv, NEW c \in Consumers, Deliver(c) \/ DeliveryFails(c), NEW m \in Message
    PROVE  Paid(c, m)
<1>1. TypeOK /\ StepOf(c)
  BY DEF StopInv, TypeInv, StepOf
<1>2. UNCHANGED <<copies, committed, member, assigned, position, stored, pc, mode, valid, todo,
                  incidents>>
  BY DEF Deliver, DeliveryFails, deliveryVars, groupVars, batchVars, bounds
<1>3. MayWrite(c, m)' = MayWrite(c, m)
  BY <1>2 DEF MayWrite, Stray, Pending, Again, Written, Solid
<1>4. Taken(c, m)' = Taken(c, m)
  BY <1>2 DEF Taken, Alive
<1> QED BY <1>1, <1>2, <1>3, <1>4, CalmIsPaid, ClaimsRange

LEMMA EveryStepIsPaid ==
    ASSUME StopInv, NEW c \in Consumers, StepOf(c), NEW m \in Message
    PROVE  Paid(c, m)
  BY GroupPaid, HandlePaid, LoopPaid, FlushPaid, EndPaid, ProducerPaid DEF StepOf

------------------------------------------------------------------------------
(* The bound.                                                               *)

LEMMA CopiesInit == Init => CopiesInv
<1> SUFFICES ASSUME Init PROVE CopiesInv
  OBVIOUS
<1>1. StopInv
  BY StopInvInit
<1>2. ASSUME NEW m \in Message
      PROVE  /\ IsFiniteSet(Claims(m))
             /\ copies[m] + Cardinality(Claims(m)) + Unclaimed(m) <= 1 + 2 * incidents
  <2>1. \A c \in Consumers : MayWrite(c, m) = 0
    BY DEF Init, MayWrite, Stray
  <2>2. Claims(m) = {}
    BY <2>1 DEF Claims
  <2>3. copies[m] = 0 /\ incidents = 0
    BY DEF Init
  <2> QED BY <2>2, <2>3, FS_EmptySet DEF Unclaimed
<1> QED BY <1>1, <1>2 DEF CopiesInv

LEMMA CopiesStep == CopiesInv /\ [Next]_vars => CopiesInv'
<1> SUFFICES ASSUME CopiesInv, [Next]_vars PROVE CopiesInv'
  OBVIOUS
<1>1. StopInv'
  BY StopInvStep DEF CopiesInv
<1>2. ASSUME NEW c \in Consumers, StepOf(c)
      PROVE  CopiesInv'
  <2>1. OthersKeep(c)
    BY <1>2, StepOthers DEF CopiesInv, StopInv, TypeInv
  <2>2. ASSUME NEW m \in Message
        PROVE  /\ IsFiniteSet(Claims(m)')
               /\ copies'[m] + Cardinality(Claims(m)') + Unclaimed(m)' <= 1 + 2 * incidents'
    <3>1. Paid(c, m)
      BY <1>2, EveryStepIsPaid DEF CopiesInv
    <3>2. copies'[m] \in Nat /\ incidents' \in Nat
      BY <1>1 DEF StopInv, TypeInv, TypeOK
    <3> QED BY <2>1, <3>1, <3>2, PaidKeepsAccount
  <2> QED BY <1>1, <2>2 DEF CopiesInv
<1>3. CASE UNCHANGED vars
  BY <1>1, <1>3 DEF vars, CopiesInv, Claims, MayWrite, Stray, Pending, Again, Written, Solid,
     Unclaimed, Fresh, Taken, Alive
<1> QED BY <1>2, <1>3, NextIsStep

\* A message lands at most once, and twice more for every fault.
THEOREM DuplicatesAreBounded == Spec => []DuplicatesBounded
<1>1. CopiesInv => DuplicatesBounded
  <2> SUFFICES ASSUME CopiesInv, NEW m \in Message
               PROVE  copies[m] <= 1 + 2 * incidents
    BY DEF DuplicatesBounded
  <2>1. /\ Cardinality(Claims(m)) \in Nat /\ Unclaimed(m) \in Nat
        /\ copies[m] \in Nat /\ incidents \in Nat
    BY FS_CardinalityType DEF CopiesInv, StopInv, TypeInv, TypeOK, Unclaimed
  <2>2. copies[m] + Cardinality(Claims(m)) + Unclaimed(m) <= 1 + 2 * incidents
    BY DEF CopiesInv
  <2> QED BY <2>1, <2>2
<1> QED BY <1>1, CopiesInit, CopiesStep, PTL DEF Spec
================================================================================
