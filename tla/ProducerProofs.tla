---------------------------- MODULE ProducerProofs -----------------------------
(***************************************************************************)
(* What a run reports, proved for every stream that inject() can make of   *)
(* any chain, for any size of the queue and any number of messages between *)
(* two flushes.                                                            *)
(*                                                                         *)
(* The argument. A message that was handed over is counted, or it is       *)
(* outstanding: in the queue or in a report nobody has served (Balanced).  *)
(* The queue is in the order of the stream, and of the messages of one     *)
(* partition those on the topic are in that order too and older than those *)
(* that still wait (Ordered).  While nothing has failed, whatever was      *)
(* produced is on the topic or in the queue (Faithful); and a last flush   *)
(* that leaves something outstanding counts a failure.  So a report        *)
(* without failures leaves nothing behind.                                 *)
(***************************************************************************)
EXTENDS Producer, AnomalyProofs

Verdicts == {"ok", "error"}

Tally(rs, verdict) == Cardinality({i \in DOMAIN rs : rs[i] = verdict})

SinkOK ==
    /\ pc \in {"generate", "choose", "produce", "poll", "flush", "final", "done"}
    /\ pc = "generate" <=> phase # "write"
    /\ pc \in {"generate", "choose"} => /\ produced = 0 /\ delivered = 0 /\ failed = 0
                                        /\ queue = <<>> /\ reports = <<>> /\ topic = <<>>
    /\ pc # "done" <=> exit = Running
    /\ queue \in Seq(Nat) /\ topic \in Seq(Nat) /\ reports \in Seq(Verdicts)
    /\ \A i \in 1 .. Len(queue) : queue[i] \in 1 .. produced
    /\ \A i \in 1 .. Len(topic) : topic[i] \in 1 .. produced
    /\ pc = "final" => produced = Len(events)
    /\ Outstanding <= QueueMax
    /\ produced \in 0 .. Len(events) /\ delivered \in Nat /\ failed \in Nat
    /\ exit \in {Running, 0, 1, 2}

\* Every message handed over is counted once, or waits.
Balanced ==
    /\ delivered + Tally(reports, "ok") <= Len(topic)
    /\ pc # "done" => delivered + failed + Outstanding = produced
    /\ delivered + failed <= produced

\* The queue is in the order of the stream, and so is every partition and what waits for it.
Ordered ==
    /\ \A i, j \in 1 .. Len(queue) : i < j => queue[i] < queue[j]
    /\ \A i, j \in 1 .. Len(topic) :
          i < j /\ Lane(topic[i]) = Lane(topic[j]) => topic[i] < topic[j]
    /\ \A i \in 1 .. Len(topic) : \A j \in 1 .. Len(queue) :
          Lane(topic[i]) = Lane(queue[j]) => topic[i] < queue[j]

Holds(ms, p) == \E i \in 1 .. Len(ms) : ms[i] = p

\* Without an error what was produced is on the topic or in the queue, once.
Faithful ==
    failed = 0 /\ Tally(reports, "error") = 0 =>
        /\ Len(topic) + Len(queue) = produced
        /\ \A p \in 1 .. produced : Holds(topic, p) \/ Holds(queue, p)

Ended ==
    /\ exit = 2 => delivered = 0
    /\ exit = 0 /\ failed = 0 /\ produced > 0 =>
          produced = Len(events) /\ queue = <<>> /\ reports = <<>>
    /\ DirectLandsTheRest

ProducerInv == AnomalyInv /\ SinkOK /\ Balanced /\ Ordered /\ Faithful /\ Ended

--------------------------------------------------------------------------------
LEMMA TallyCounts ==
    ASSUME NEW rs \in Seq(Verdicts)
    PROVE  /\ \A verdict \in Verdicts : Tally(rs, verdict) \in Nat
           /\ Tally(rs, "ok") + Tally(rs, "error") = Len(rs)
<1> DEFINE hits(verdict) == {i \in DOMAIN rs : rs[i] = verdict}
           n == Len(rs)
<1>1. n \in Nat /\ DOMAIN rs = 1 .. n /\ \A i \in 1 .. n : rs[i] \in Verdicts
  BY LenProperties, ElementOfSeq
<1>2. IsFiniteSet(1 .. n) /\ Cardinality(1 .. n) = n
  BY <1>1, CountTo
<1> HIDE DEF n
<1>3. ASSUME NEW verdict \in Verdicts
      PROVE  IsFiniteSet(hits(verdict)) /\ Cardinality(hits(verdict)) \in Nat
  <2>1. hits(verdict) \in SUBSET (1 .. n)
    BY <1>1
  <2> HIDE DEF hits
  <2>2. IsFiniteSet(hits(verdict))
    BY <1>2, <2>1, FS_Subset
  <2> QED BY <2>2, FS_CardinalityType
<1>4. hits("ok") \cup hits("error") = 1 .. n /\ hits("ok") \cap hits("error") = {}
  BY <1>1 DEF Verdicts
<1>5. "ok" \in Verdicts /\ "error" \in Verdicts
  BY DEF Verdicts
<1>6. \A verdict \in Verdicts : Tally(rs, verdict) = Cardinality(hits(verdict))
  BY DEF Tally
<1> HIDE DEF hits
<1>7. Cardinality(hits("ok") \cup hits("error")) =
        Cardinality(hits("ok")) + Cardinality(hits("error")) - Cardinality(hits("ok") \cap hits("error"))
  BY <1>3, <1>5, FS_Union
<1>8. Cardinality(hits("ok") \cap hits("error")) = 0
  BY <1>4, FS_EmptySet
<1>9. n = Cardinality(hits("ok")) + Cardinality(hits("error"))
  <2>1. PICK a \in Nat : a = Cardinality(hits("ok"))
    BY <1>3, <1>5
  <2>2. PICK b \in Nat : b = Cardinality(hits("error"))
    BY <1>3, <1>5
  <2>3. n = a + b
    <3>1. Cardinality(hits("ok") \cup hits("error")) = (a + b) - 0
      BY <1>7, <1>8, <2>1, <2>2
    <3>2. n = (a + b) - 0
      BY <1>2, <1>4, <3>1
    <3> QED BY <3>2
  <2> QED BY <2>1, <2>2, <2>3
<1> QED BY <1>3, <1>5, <1>6, <1>9 DEF n

LEMMA TallyAppends ==
    ASSUME NEW rs \in Seq(Verdicts), NEW verdict \in Verdicts
    PROVE  \A v \in Verdicts :
              Tally(Append(rs, verdict), v) = Tally(rs, v) + (IF v = verdict THEN 1 ELSE 0)
<1> SUFFICES ASSUME NEW v \in Verdicts
             PROVE  Tally(Append(rs, verdict), v) = Tally(rs, v) + (IF v = verdict THEN 1 ELSE 0)
  OBVIOUS
<1> DEFINE n   == Len(rs)
           new == Append(rs, verdict)
           I   == {i \in DOMAIN rs : rs[i] = v}
           J   == {i \in DOMAIN new : new[i] = v}
<1>1. n \in Nat /\ DOMAIN rs = 1 .. n
  BY LenProperties
<1>2. new \in Seq(Verdicts) /\ Len(new) = n + 1
  BY AppendProperties
<1>3. DOMAIN new = 1 .. n + 1
  BY <1>2, LenProperties
<1>4. (\A i \in 1 .. n : new[i] = rs[i]) /\ new[n + 1] = verdict
  BY AppendProperties
<1>5. IsFiniteSet(1 .. n)
  BY <1>1, CountTo
<1> HIDE DEF n, new
<1>6. I \in SUBSET (1 .. n) /\ n + 1 \notin I
  BY <1>1
<1>7. IsFiniteSet(I) /\ Cardinality(I) \in Nat
  <2>1. IsFiniteSet(I)
    BY <1>5, <1>6, FS_Subset
  <2> HIDE DEF I
  <2> QED BY <2>1, FS_CardinalityType
<1>8. \A i \in 1 .. n + 1 : i \in 1 .. n \/ i = n + 1
  BY <1>1
<1>81. \A i \in 1 .. n : i \in 1 .. n + 1 /\ n + 1 \in 1 .. n + 1
  BY <1>1
<1>9. CASE v = verdict
  <2>1. J = I \cup {n + 1}
    <3>1. n + 1 \in 1 .. n + 1
      BY <1>1
    <3> QED BY <1>1, <1>3, <1>4, <1>8, <1>81, <1>9, <3>1
  <2>2. Cardinality(J) = Cardinality(I) + 1
    <3> HIDE DEF I, J
    <3> QED BY <1>6, <1>7, <2>1, FS_AddElement
  <2> QED BY <1>9, <2>2 DEF Tally, new
<1>10. CASE v # verdict
  <2>1. J = I
    BY <1>1, <1>3, <1>4, <1>8, <1>81, <1>10
  <2>2. Tally(Append(rs, verdict), v) = Tally(rs, v)
    BY <2>1 DEF Tally, new
  <2>3. Tally(rs, v) \in Nat
    BY <1>7 DEF Tally
  <2> QED BY <1>10, <2>2, <2>3
<1> QED BY <1>9, <1>10

LEMMA TallyOfNone == \A v : Tally(<<>>, v) = 0
<1> TAKE v
<1>1. {i \in DOMAIN <<>> : <<>>[i] = v} = {}
  OBVIOUS
<1> QED BY <1>1, FS_EmptySet DEF Tally

LEMMA RemovalShifts ==
    ASSUME NEW q \in Seq(Nat), NEW n \in 1 .. Len(q)
    PROVE  /\ RemoveAt(q, n) \in Seq(Nat) /\ Len(RemoveAt(q, n)) = Len(q) - 1
           /\ \A k \in 1 .. Len(q) - 1 : RemoveAt(q, n)[k] = q[IF k < n THEN k ELSE k + 1]
<1> DEFINE l == Len(q)
           a == SubSeq(q, 1, n - 1)
           b == SubSeq(q, n + 1, l)
<1>1. l \in Nat /\ n \in 1 .. l /\ \A i \in 1 .. l : q[i] \in Nat
  BY LenProperties, ElementOfSeq
<1>2. RemoveAt(q, n) = a \o b
  BY DEF RemoveAt
<1> HIDE DEF l
<1>3. /\ a \in Seq(Nat) /\ Len(a) = n - 1
      /\ \A i \in 1 .. n - 1 : a[i] = q[i]
  <2>1. n - 1 \in Int /\ \A i \in 1 .. n - 1 : i \in 1 .. l
    BY <1>1
  <2>2. /\ a \in Seq(Nat) /\ Len(a) = (IF 1 <= n - 1 THEN (n - 1) - 1 + 1 ELSE 0)
        /\ \A i \in 1 .. (n - 1) - 1 + 1 : a[i] = q[1 + i - 1]
    BY <1>1, <2>1, SubSeqProperties
  <2> HIDE DEF a
  <2>3. Len(a) = n - 1
    BY <1>1, <2>2
  <2>4. \A i \in 1 .. n - 1 : i \in 1 .. (n - 1) - 1 + 1 /\ 1 + i - 1 = i
    BY <1>1
  <2> QED BY <2>2, <2>3, <2>4
<1>4. /\ b \in Seq(Nat) /\ Len(b) = l - n
      /\ \A i \in 1 .. l - n : b[i] = q[n + i]
  <2>1. n + 1 \in Int /\ l \in Int /\ \A i \in n + 1 .. l : i \in 1 .. l
    BY <1>1
  <2>2. /\ b \in Seq(Nat) /\ Len(b) = (IF n + 1 <= l THEN l - (n + 1) + 1 ELSE 0)
        /\ \A i \in 1 .. l - (n + 1) + 1 : b[i] = q[(n + 1) + i - 1]
    BY <1>1, <2>1, SubSeqProperties
  <2> HIDE DEF b
  <2>3. Len(b) = l - n
    BY <1>1, <2>2
  <2>4. \A i \in 1 .. l - n : i \in 1 .. l - (n + 1) + 1 /\ (n + 1) + i - 1 = n + i
    BY <1>1
  <2> QED BY <2>2, <2>3, <2>4
<1> HIDE DEF a, b
<1>5. /\ a \o b \in Seq(Nat) /\ Len(a \o b) = Len(a) + Len(b)
      /\ \A k \in 1 .. Len(a) + Len(b) : (a \o b)[k] = IF k <= Len(a) THEN a[k] ELSE b[k - Len(a)]
  BY <1>3, <1>4, ConcatProperties
<1>6. Len(a) + Len(b) = l - 1
  BY <1>1, <1>3, <1>4
<1>7. ASSUME NEW k \in 1 .. l - 1
      PROVE  (a \o b)[k] = q[IF k < n THEN k ELSE k + 1]
  <2>1. CASE k < n
    <3>1. k \in 1 .. n - 1 /\ k <= Len(a)
      BY <1>1, <1>3, <2>1
    <3> QED BY <1>3, <1>5, <1>6, <2>1, <3>1
  <2>2. CASE ~ (k < n)
    <3>1. k - (n - 1) \in 1 .. l - n /\ ~ (k <= n - 1) /\ n + (k - (n - 1)) = k + 1
      BY <1>1, <2>2
    <3>2. (a \o b)[k] = b[k - (n - 1)]
      BY <1>3, <1>5, <1>6, <3>1
    <3>3. b[k - (n - 1)] = q[n + (k - (n - 1))]
      BY <1>4, <3>1
    <3> QED BY <2>2, <3>1, <3>2, <3>3
  <2> QED BY <2>1, <2>2
<1> QED BY <1>2, <1>5, <1>6, <1>7 DEF l

--------------------------------------------------------------------------------
(* The steps of the sink and of the broker *)

LEMMA StreamStays ==
    ASSUME AnomalyInv, UNCHANGED anomalyVars
    PROVE  AnomalyInv'
BY DEF anomalyVars, AnomalyInv, StreamOK, Accounted, BeforeOrphans, BeforeCopies, Emitted,
       CopyFollowsOriginal

LEMMA SinkTypes ==
    ASSUME ProducerInv
    PROVE  /\ Len(queue) \in Nat /\ Len(reports) \in Nat /\ Len(topic) \in Nat /\ Len(events) \in Nat
           /\ produced \in Nat /\ delivered \in Nat /\ failed \in Nat
           /\ Tally(reports, "ok") \in Nat /\ Tally(reports, "error") \in Nat
           /\ Tally(reports, "ok") + Tally(reports, "error") = Len(reports)
           /\ DOMAIN events = 1 .. Len(events) /\ \A i \in 1 .. Len(events) : events[i] \in Event
<1>1. queue \in Seq(Nat) /\ topic \in Seq(Nat) /\ reports \in Seq(Verdicts)
  BY DEF ProducerInv, SinkOK
<1>2. Len(queue) \in Nat /\ Len(topic) \in Nat /\ Len(reports) \in Nat
  BY <1>1, LenProperties
<1>3. Tally(reports, "ok") \in Nat /\ Tally(reports, "error") \in Nat
  <2>1. "ok" \in Verdicts /\ "error" \in Verdicts
    BY DEF Verdicts
  <2> QED BY <1>1, <2>1, TallyCounts
<1>4. Tally(reports, "ok") + Tally(reports, "error") = Len(reports)
  BY <1>1, TallyCounts
<1>5. Len(events) \in Nat /\ DOMAIN events = 1 .. Len(events) /\ \A i \in 1 .. Len(events) : events[i] \in Event
  BY AnomalyTypes DEF ProducerInv
<1>6. produced \in Nat /\ delivered \in Nat /\ failed \in Nat
  <2>1. produced \in 0 .. Len(events) /\ delivered \in Nat /\ failed \in Nat
    BY DEF ProducerInv, SinkOK
  <2> QED BY <1>5, <2>1
<1> QED BY <1>2, <1>3, <1>4, <1>5, <1>6

LEMMA RunningIsNotEnded ==
    ASSUME SinkOK', pc' # "done"
    PROVE  Ended'
BY DEF SinkOK, Ended, DirectLandsTheRest, Running

LEMMA ProducerStarts == ProducerInit => ProducerInv
<1> SUFFICES ASSUME ProducerInit PROVE ProducerInv
  OBVIOUS
<1>1. AnomalyInv
  BY AnomalyStarts DEF ProducerInit
<1>2. Len(events) \in Nat
  BY <1>1, AnomalyTypes
<1>3. /\ pc = "generate" /\ produced = 0 /\ delivered = 0 /\ failed = 0 /\ exit = Running
      /\ queue = <<>> /\ reports = <<>> /\ topic = <<>>
  BY DEF ProducerInit
<1>4. phase = "orphan"
  BY DEF ProducerInit, AnomalyInit
<1>5. SinkOK
  <2>1. queue \in Seq(Nat) /\ topic \in Seq(Nat) /\ reports \in Seq(Verdicts)
    BY <1>3, EmptySeq
  <2>2. Len(queue) = 0 /\ Len(reports) = 0 /\ Len(topic) = 0
    BY <1>3, EmptySeq
  <2> QED BY <1>2, <1>3, <1>4, <2>1, <2>2, ProducerAssumption
          DEF SinkOK, Outstanding, ProducerAssumption, Running
<1>6. Balanced
  <2>1. Tally(reports, "ok") = 0
    BY <1>3, TallyOfNone
  <2> QED BY <1>3, <2>1, EmptySeq DEF Balanced, Outstanding
<1>7. Ordered /\ Faithful
  <2>1. Len(queue) = 0 /\ Len(topic) = 0
    BY <1>3, EmptySeq
  <2> QED BY <1>3, <2>1 DEF Ordered, Faithful
<1>8. Ended
  BY <1>3 DEF Ended, DirectLandsTheRest, Running
<1> QED BY <1>1, <1>5, <1>6, <1>7, <1>8 DEF ProducerInv

LEMMA GenerateKeeps ==
    ASSUME ProducerInv, Generate
    PROVE  ProducerInv'
<1>1. /\ pc = "generate" /\ AnomalyNext /\ pc' = (IF phase' = "write" THEN "choose" ELSE pc)
      /\ UNCHANGED <<produced, delivered, failed, exit, queue, reports, topic>>
  BY DEF Generate, broker
<1>2. AnomalyInv'
  BY <1>1, InjectKeeps DEF ProducerInv
<1>3. /\ produced = 0 /\ delivered = 0 /\ failed = 0 /\ exit = Running
      /\ queue = <<>> /\ reports = <<>> /\ topic = <<>> /\ Outstanding <= QueueMax
  BY <1>1 DEF ProducerInv, SinkOK
<1>4. Len(events') \in Nat
  <2>1. events' \in Seq(Event)
    BY <1>2 DEF AnomalyInv, StreamOK
  <2> QED BY <2>1, LenProperties
<1>5. SinkOK'
  <2>1. queue' \in Seq(Nat) /\ topic' \in Seq(Nat) /\ reports' \in Seq(Verdicts)
    BY <1>1, <1>3, EmptySeq
  <2>3. Len(queue') = 0 /\ Len(topic') = 0
    BY <1>1, <1>3, EmptySeq
  <2>2. pc' \in {"generate", "choose"} /\ (pc' = "generate" <=> phase' # "write")
    BY <1>1
  <2> QED BY <1>1, <1>3, <1>4, <2>1, <2>2, <2>3 DEF SinkOK, Outstanding, Running
<1>6. Balanced'
  <2>1. Balanced
    BY DEF ProducerInv
  <2>2. pc # "done"
    BY <1>1
  <2> QED BY <1>1, <2>1, <2>2 DEF Balanced, Outstanding
<1>7. Ordered' /\ Faithful'
  <2>1. Len(queue') = 0 /\ Len(topic') = 0
    BY <1>1, <1>3, EmptySeq
  <2> QED BY <1>1, <1>3, <2>1 DEF Ordered, Faithful
<1>8. pc' # "done"
  BY <1>1
<1> QED BY <1>2, <1>5, <1>6, <1>7, <1>8, RunningIsNotEnded DEF ProducerInv

Sending == {"produce", "poll", "flush", "final"}

(***************************************************************************)
(* Serving moves the waiting verdicts to the counters.                     *)
(***************************************************************************)
LEMMA ServeKeeps ==
    ASSUME ProducerInv, Serve, UNCHANGED <<anomalyVars, produced, queue, topic, exit>>,
           pc \in Sending, pc' \in Sending, pc' = "final" => pc = "final"
    PROVE  ProducerInv'
<1>1. /\ reports' = <<>> /\ delivered' = delivered + Tally(reports, "ok")
      /\ failed' = failed + Tally(reports, "error")
  BY DEF Serve, Waiting, Tally
<1>2. AnomalyInv' /\ events' = events /\ phase' = phase
  BY StreamStays DEF ProducerInv, anomalyVars
<1>3. Tally(reports', "ok") = 0 /\ Tally(reports', "error") = 0 /\ Len(reports') = 0
  BY <1>1, TallyOfNone
<1>4. reports' \in Seq(Verdicts)
  BY <1>1, EmptySeq
<1>5. SinkOK'
  <2>1. delivered' \in Nat /\ failed' \in Nat
    <3>1. PICK a \in Nat, b \in Nat : a = Tally(reports, "ok") /\ b = Tally(reports, "error")
      BY SinkTypes
    <3>2. delivered \in Nat /\ failed \in Nat
      BY SinkTypes
    <3>3. delivered' = delivered + a /\ failed' = failed + b
      BY <1>1, <3>1
    <3> QED BY <3>2, <3>3
  <2>2. Len(queue') + Len(reports') <= QueueMax
    <3>1. Len(queue) + Len(reports) <= QueueMax
      BY DEF ProducerInv, SinkOK, Outstanding
    <3> QED BY <1>3, <3>1, SinkTypes, ProducerAssumption DEF ProducerAssumption
  <2> QED BY <1>2, <1>4, <2>1, <2>2 DEF ProducerInv, SinkOK, Outstanding, Sending
<1>6. Balanced'
  <2>1. /\ delivered + Tally(reports, "ok") <= Len(topic)
        /\ delivered + failed + (Len(queue) + Len(reports)) = produced
    BY DEF ProducerInv, Balanced, Outstanding, Sending
  <2>2. /\ delivered' + 0 <= Len(topic')
        /\ delivered' + failed' + (Len(queue') + 0) = produced'
        /\ delivered' + failed' <= produced'
    <3>1. PICK a \in Nat, b \in Nat : a = Tally(reports, "ok") /\ b = Tally(reports, "error")
      BY SinkTypes
    <3>2. /\ delivered + a <= Len(topic) /\ a + b = Len(reports)
          /\ delivered' = delivered + a /\ failed' = failed + b
      BY <1>1, <2>1, <3>1, SinkTypes
    <3>3. delivered \in Nat /\ failed \in Nat /\ Len(queue) \in Nat /\ Len(reports) \in Nat
      BY SinkTypes
    <3>4. queue' = queue /\ topic' = topic /\ produced' = produced
      OBVIOUS
    <3>5. delivered + failed + (Len(queue) + Len(reports)) = produced
      BY <2>1
    <3>6. (delivered + a) + (failed + b) + (Len(queue) + 0) = produced
      BY <3>2, <3>3, <3>5
    <3>7. (delivered + a) + (failed + b) <= produced
      BY <3>3, <3>6
    <3> QED BY <3>2, <3>4, <3>6, <3>7
  <2> QED BY <1>3, <2>2 DEF Balanced, Outstanding
<1>7. Ordered' /\ Faithful'
  <2>1. failed' = 0 => failed = 0 /\ Tally(reports, "error") = 0
    BY <1>1, SinkTypes
  <2>2. Ordered'
    BY <1>2 DEF ProducerInv, Ordered, Lane
  <2>3. Faithful'
    BY <1>2, <2>1 DEF ProducerInv, Faithful, Holds
  <2> QED BY <2>2, <2>3
<1>8. pc' # "done"
  BY DEF Sending
<1> QED BY <1>2, <1>5, <1>6, <1>7, <1>8, RunningIsNotEnded DEF ProducerInv

\* The loop goes on, or the last flush begins.
LEMMA LoopKeeps ==
    ASSUME ProducerInv, UNCHANGED <<anomalyVars, produced, delivered, failed, exit, queue, reports, topic>>,
           pc \in {"choose", "produce", "flush"}, pc' \in {"produce", "final"},
           pc' = "final" => produced = Len(events)
    PROVE  ProducerInv'
<1>1. AnomalyInv' /\ events' = events /\ phase' = phase
  BY StreamStays DEF ProducerInv, anomalyVars
<1>2. SinkOK'
  BY <1>1 DEF ProducerInv, SinkOK, Outstanding
<1>3. Balanced'
  BY DEF ProducerInv, Balanced, Outstanding
<1>4. Ordered' /\ Faithful'
  <2>1. Ordered'
    BY <1>1 DEF ProducerInv, Ordered, Lane
  <2>2. Faithful'
    BY <1>1 DEF ProducerInv, Faithful, Holds
  <2> QED BY <2>1, <2>2
<1>5. pc' # "done"
  OBVIOUS
<1> QED BY <1>1, <1>2, <1>3, <1>4, <1>5, RunningIsNotEnded DEF ProducerInv

LEMMA ProduceKeeps ==
    ASSUME ProducerInv, Produce
    PROVE  ProducerInv'
<1>1. /\ pc = "produce" /\ produced < Len(events) /\ Outstanding < QueueMax
      /\ queue' = Append(queue, produced + 1) /\ produced' = produced + 1
      /\ pc' \in {"flush", "poll"}
      /\ UNCHANGED <<anomalyVars, reports, topic, delivered, failed, exit>>
  BY DEF Produce
<1>2. AnomalyInv' /\ events' = events /\ phase' = phase
  BY <1>1, StreamStays DEF ProducerInv, anomalyVars
<1>3. /\ queue \in Seq(Nat) /\ produced \in Nat /\ Len(queue) \in Nat
      /\ \A i \in 1 .. Len(queue) : queue[i] \in 1 .. produced
      /\ \A i \in 1 .. Len(topic) : topic[i] \in 1 .. produced
  BY SinkTypes DEF ProducerInv, SinkOK
<1>4. \A p \in 1 .. produced : p \in 1 .. produced + 1 /\ p < produced + 1
  BY <1>3
<1>5. /\ queue' \in Seq(Nat) /\ Len(queue') = Len(queue) + 1
      /\ \A i \in 1 .. Len(queue) : queue'[i] = queue[i]
      /\ queue'[Len(queue) + 1] = produced + 1
  BY <1>1, <1>3, AppendProperties
<1>51. \A i \in 1 .. Len(queue') : i \in 1 .. Len(queue) \/ i = Len(queue) + 1
  BY <1>3, <1>5
<1>6. SinkOK'
  <2>1. Len(queue') + Len(reports') <= QueueMax /\ produced' \in 0 .. Len(events')
    BY <1>1, <1>2, <1>5, SinkTypes, ProducerAssumption DEF Outstanding, ProducerAssumption
  <2>2. produced + 1 \in 1 .. produced + 1
    BY <1>3
  <2>3. \A i \in 1 .. Len(queue') : queue'[i] \in 1 .. produced'
    BY <1>1, <1>3, <1>4, <1>5, <1>51, <2>2
  <2>4. \A i \in 1 .. Len(topic') : topic'[i] \in 1 .. produced'
    BY <1>1, <1>3, <1>4
  <2> QED BY <1>1, <1>2, <1>5, <2>1, <2>3, <2>4 DEF ProducerInv, SinkOK, Outstanding
<1>7. Balanced'
  <2>1. /\ delivered + Tally(reports, "ok") <= Len(topic)
        /\ delivered + failed + (Len(queue) + Len(reports)) = produced
    BY <1>1 DEF ProducerInv, Balanced, Outstanding
  <2>2. /\ delivered' + failed' + (Len(queue') + Len(reports')) = produced'
        /\ delivered' + failed' <= produced'
    BY <1>1, <1>5, <2>1, SinkTypes
  <2> QED BY <1>1, <2>1, <2>2 DEF Balanced, Outstanding
<1>8. Ordered' /\ Faithful'
  <2>1. /\ \A i, j \in 1 .. Len(queue) : i < j => queue[i] < queue[j]
        /\ \A i, j \in 1 .. Len(topic) :
              i < j /\ Lane(topic[i]) = Lane(topic[j]) => topic[i] < topic[j]
        /\ \A i \in 1 .. Len(topic) : \A j \in 1 .. Len(queue) :
              Lane(topic[i]) = Lane(queue[j]) => topic[i] < queue[j]
    BY DEF ProducerInv, Ordered
  <2>2. ASSUME NEW i \in 1 .. Len(queue'), NEW j \in 1 .. Len(queue'), i < j
        PROVE  queue'[i] < queue'[j]
    <3>1. i \in 1 .. Len(queue) /\ (j \in 1 .. Len(queue) \/ j = Len(queue) + 1)
      BY <1>3, <1>5, <1>51, <2>2
    <3>2. CASE j \in 1 .. Len(queue)
      BY <1>5, <2>1, <2>2, <3>1, <3>2
    <3>3. CASE j = Len(queue) + 1
      BY <1>3, <1>4, <1>5, <3>1, <3>3
    <3> QED BY <3>1, <3>2, <3>3
  <2>3. ASSUME NEW i \in 1 .. Len(topic), NEW j \in 1 .. Len(queue'), Lane(topic[i]) = Lane(queue'[j])
        PROVE  topic[i] < queue'[j]
    <3>1. CASE j \in 1 .. Len(queue)
      BY <1>5, <2>1, <2>3, <3>1
    <3>2. CASE j = Len(queue) + 1
      BY <1>3, <1>4, <1>5, <3>2
    <3> QED BY <1>51, <3>1, <3>2
  <2>4. Ordered'
    BY <1>1, <1>2, <2>1, <2>2, <2>3 DEF Ordered, Lane
  <2>5. ASSUME failed = 0, Tally(reports, "error") = 0
        PROVE  /\ Len(topic) + Len(queue') = produced'
               /\ \A p \in 1 .. produced' : Holds(topic, p) \/ Holds(queue', p)
    <3>1. /\ Len(topic) + Len(queue) = produced
          /\ \A p \in 1 .. produced : Holds(topic, p) \/ Holds(queue, p)
      BY <2>5 DEF ProducerInv, Faithful
    <3>2. Len(topic) + Len(queue') = produced'
      BY <1>1, <1>5, <3>1, SinkTypes
    <3>3. ASSUME NEW p \in 1 .. produced' PROVE Holds(topic, p) \/ Holds(queue', p)
      <4>1. p \in 1 .. produced \/ p = produced + 1
        BY <1>1, <1>3
      <4>2. CASE p \in 1 .. produced
        <5>1. \A i \in 1 .. Len(queue) : i \in 1 .. Len(queue')
          BY <1>3, <1>5
        <5> QED BY <1>5, <3>1, <4>2, <5>1 DEF Holds
      <4>3. CASE p = produced + 1
        <5>1. Len(queue) + 1 \in 1 .. Len(queue')
          BY <1>3, <1>5
        <5> QED BY <1>5, <4>3, <5>1 DEF Holds
      <4> QED BY <4>1, <4>2, <4>3
    <3> QED BY <3>2, <3>3
  <2>6. Faithful'
    BY <1>1, <2>5 DEF Faithful, Holds
  <2> QED BY <2>4, <2>6
<1>9. pc' # "done"
  BY <1>1
<1> QED BY <1>2, <1>6, <1>7, <1>8, <1>9, RunningIsNotEnded DEF ProducerInv

(***************************************************************************)
(* A message that is the oldest of its partition is settled: on the topic  *)
(* with a report "ok", or with "error", on the topic or not.               *)
(***************************************************************************)
LEMMA SettleKeeps ==
    ASSUME ProducerInv, pc # "done", NEW n \in Oldest, NEW verdict \in Verdicts,
           UNCHANGED <<anomalyVars, pc, produced, delivered, failed, exit>>,
           queue' = RemoveAt(queue, n), reports' = Append(reports, verdict),
           topic' = Append(topic, queue[n]) \/ (topic' = topic /\ verdict = "error")
    PROVE  ProducerInv'
<1> DEFINE old(k) == IF k < n THEN k ELSE k + 1
<1>1. AnomalyInv' /\ events' = events /\ phase' = phase
  BY StreamStays DEF ProducerInv, anomalyVars
<1>2. /\ queue \in Seq(Nat) /\ topic \in Seq(Nat) /\ reports \in Seq(Verdicts)
      /\ \A i \in 1 .. Len(queue) : queue[i] \in 1 .. produced
      /\ \A i \in 1 .. Len(topic) : topic[i] \in 1 .. produced
      /\ Len(queue) \in Nat /\ Len(topic) \in Nat /\ produced \in Nat
  BY SinkTypes DEF ProducerInv, SinkOK
<1>21. /\ n \in 1 .. Len(queue) /\ queue[n] \in Nat
       /\ \A m \in 1 .. n - 1 : Lane(queue[m]) # Lane(queue[n])
  BY <1>2, LenProperties, ElementOfSeq DEF Oldest
<1>22. /\ queue' \in Seq(Nat) /\ Len(queue') = Len(queue) - 1
       /\ \A k \in 1 .. Len(queue) - 1 : queue'[k] = queue[old(k)]
  BY <1>2, <1>21, RemovalShifts
<1>3. /\ \A k \in 1 .. Len(queue') : queue'[k] = queue[old(k)] /\ old(k) \in 1 .. Len(queue) /\ old(k) # n
      /\ \A k, m \in 1 .. Len(queue') : k < m => old(k) < old(m)
      /\ \A i \in 1 .. Len(queue) : i # n => \E k \in 1 .. Len(queue') : old(k) = i
  <2>0. PICK l \in Nat : l = Len(queue) /\ n \in 1 .. l /\ Len(queue') = l - 1
    BY <1>2, <1>21, <1>22
  <2>1. \A k \in 1 .. Len(queue') : old(k) \in 1 .. Len(queue) /\ old(k) # n
    <3>1. ASSUME NEW k \in 1 .. l - 1 PROVE old(k) \in 1 .. l /\ old(k) # n
      <4>1. CASE k < n
        BY <2>0, <4>1
      <4>2. CASE ~ (k < n)
        BY <2>0, <4>2
      <4> QED BY <4>1, <4>2
    <3> QED BY <2>0, <3>1
  <2>2. \A k, m \in 1 .. Len(queue') : k < m => old(k) < old(m)
    <3>1. ASSUME NEW k \in 1 .. l - 1, NEW m \in 1 .. l - 1, k < m PROVE old(k) < old(m)
      BY <2>0, <3>1
    <3> QED BY <2>0, <3>1
  <2>3. ASSUME NEW i \in 1 .. Len(queue), i # n PROVE \E k \in 1 .. Len(queue') : old(k) = i
    <3>1. CASE i < n
      <4>1. i \in 1 .. Len(queue') /\ old(i) = i
        BY <1>2, <1>21, <1>22, <3>1
      <4> QED BY <4>1
    <3>2. CASE i > n
      <4>1. i - 1 \in 1 .. Len(queue') /\ old(i - 1) = i
        BY <1>2, <1>21, <1>22, <3>2
      <4> QED BY <4>1
    <3> QED BY <1>2, <1>21, <2>3, <3>1, <3>2
  <2> QED BY <1>22, <2>1, <2>2, <2>3
<1> HIDE DEF old
<1>4. reports' \in Seq(Verdicts) /\ Len(reports') = Len(reports) + 1
  BY <1>2, AppendProperties
<1>5. \A v \in Verdicts : Tally(reports', v) = Tally(reports, v) + (IF v = verdict THEN 1 ELSE 0)
  BY <1>2, TallyAppends
<1>6. /\ topic' \in Seq(Nat)
      /\ topic' = Append(topic, queue[n]) =>
            /\ Len(topic') = Len(topic) + 1 /\ topic'[Len(topic) + 1] = queue[n]
            /\ \A i \in 1 .. Len(topic) : topic'[i] = topic[i]
  <2> DEFINE longer == Append(topic, queue[n])
  <2>1. /\ longer \in Seq(Nat) /\ Len(longer) = Len(topic) + 1
        /\ longer[Len(topic) + 1] = queue[n]
        /\ \A i \in 1 .. Len(topic) : longer[i] = topic[i]
    BY <1>2, <1>21, AppendProperties
  <2>2. topic' = longer \/ topic' = topic
    OBVIOUS
  <2> HIDE DEF longer
  <2>3. CASE topic' = longer
    BY <2>1, <2>3
  <2>4. CASE topic' = topic
    <3> QED BY <1>2, <2>1, <2>4 DEF longer
  <2> QED BY <2>2, <2>3, <2>4 DEF longer
<1>61. /\ \A i \in 1 .. Len(topic') : \/ i \in 1 .. Len(topic) /\ topic'[i] = topic[i]
                                      \/ i = Len(topic) + 1 /\ topic'[i] = queue[n]
       /\ \A i \in 1 .. Len(topic) : i \in 1 .. Len(topic') /\ topic'[i] = topic[i]
  <2>1. CASE topic' = topic
    BY <2>1
  <2>2. CASE topic' = Append(topic, queue[n])
    BY <1>2, <1>6, <2>2
  <2> QED BY <2>1, <2>2
<1>7. "ok" \in Verdicts /\ "error" \in Verdicts /\ "ok" # "error" /\ verdict \in {"ok", "error"}
  BY DEF Verdicts
<1>8. Len(queue') + Len(reports') = Len(queue) + Len(reports)
  BY <1>22, <1>4, SinkTypes
<1>9. SinkOK'
  <2>1. pc \notin {"generate", "choose"}
    <3>1. queue # <<>>
      <4>1. Len(queue) # 0
        BY <1>2, <1>21
      <4> QED BY <4>1, EmptySeq
    <3> QED BY <3>1 DEF ProducerInv, SinkOK
  <2>2. \A i \in 1 .. Len(queue') : queue'[i] \in 1 .. produced'
    BY <1>2, <1>3
  <2>3. \A i \in 1 .. Len(topic') : topic'[i] \in 1 .. produced'
    BY <1>2, <1>21, <1>61
  <2> QED BY <1>1, <1>22, <1>4, <1>6, <1>8, <2>1, <2>2, <2>3 DEF ProducerInv, SinkOK, Outstanding
<1>10. Balanced'
  <2>1. delivered + Tally(reports, "ok") <= Len(topic)
    BY DEF ProducerInv, Balanced
  <2>2. PICK a \in Nat : a = Tally(reports, "ok")
    BY SinkTypes
  <2>3. delivered \in Nat /\ Len(topic) \in Nat
    BY SinkTypes
  <2>4. delivered' + Tally(reports', "ok") <= Len(topic')
    <3>1. CASE verdict = "ok"
      <4>1. Tally(reports', "ok") = a + 1 /\ Len(topic') = Len(topic) + 1
        BY <1>5, <1>6, <1>7, <2>2, <3>1
      <4>2. delivered + (a + 1) <= Len(topic) + 1
        BY <2>1, <2>2, <2>3
      <4> QED BY <4>1, <4>2
    <3>2. CASE verdict = "error"
      <4>1. Tally(reports', "ok") = a + 0
        BY <1>5, <1>7, <2>2, <3>2
      <4>2. Len(topic') = Len(topic) \/ Len(topic') = Len(topic) + 1
        BY <1>6
      <4>3. delivered + (a + 0) <= Len(topic) /\ delivered + (a + 0) <= Len(topic) + 1
        BY <2>1, <2>2, <2>3
      <4> QED BY <4>1, <4>2, <4>3
    <3> QED BY <1>7, <3>1, <3>2
  <2> QED BY <1>8, <2>4 DEF ProducerInv, Balanced, Outstanding
<1>101. Ordered'
  <2>1. /\ \A i, j \in 1 .. Len(queue) : i < j => queue[i] < queue[j]
        /\ \A i, j \in 1 .. Len(topic) :
              i < j /\ Lane(topic[i]) = Lane(topic[j]) => topic[i] < topic[j]
        /\ \A i \in 1 .. Len(topic) : \A j \in 1 .. Len(queue) :
              Lane(topic[i]) = Lane(queue[j]) => topic[i] < queue[j]
    BY DEF ProducerInv, Ordered
  <2>2. \A i, j \in 1 .. Len(queue') : i < j => queue'[i] < queue'[j]
    BY <1>3, <2>1
  <2>3. ASSUME NEW i \in 1 .. Len(topic'), NEW j \in 1 .. Len(topic'), i < j,
               Lane(topic'[i]) = Lane(topic'[j])
        PROVE  topic'[i] < topic'[j]
    <3>1. i \in 1 .. Len(topic) /\ topic'[i] = topic[i]
      <4>1. PICK l \in Nat : l = Len(topic)
        BY <1>2
      <4>2. i # l + 1
        <5>1. j \in 1 .. l \/ j = l + 1
          BY <1>61, <4>1
        <5> QED BY <2>3, <5>1
      <4> QED BY <1>61, <4>1, <4>2
    <3>2. CASE j \in 1 .. Len(topic) /\ topic'[j] = topic[j]
      BY <2>1, <2>3, <3>1, <3>2
    <3>3. CASE topic'[j] = queue[n]
      BY <1>21, <2>1, <2>3, <3>1, <3>3
    <3> QED BY <1>61, <3>2, <3>3
  <2>4. ASSUME NEW i \in 1 .. Len(topic'), NEW k \in 1 .. Len(queue'),
               Lane(topic'[i]) = Lane(queue'[k])
        PROVE  topic'[i] < queue'[k]
    <3>1. CASE i \in 1 .. Len(topic) /\ topic'[i] = topic[i]
      BY <1>3, <2>1, <2>4, <3>1
    <3>2. CASE topic'[i] = queue[n]
      <4>1. old(k) \in 1 .. Len(queue) /\ queue'[k] = queue[old(k)] /\ old(k) # n
        BY <1>3
      <4>2. ~ (old(k) \in 1 .. n - 1)
        BY <1>21, <2>4, <3>2, <4>1
      <4>3. n < old(k)
        BY <1>2, <1>21, <4>1, <4>2
      <4> QED BY <1>21, <2>1, <3>2, <4>1, <4>3
    <3> QED BY <1>61, <3>1, <3>2
  <2> QED BY <1>1, <2>2, <2>3, <2>4 DEF Ordered, Lane
<1>11. Faithful'
  <2>1. CASE verdict = "error"
    <3>1. PICK b \in Nat : b = Tally(reports, "error")
      BY SinkTypes
    <3>2. Tally(reports', "error") = b + 1
      BY <1>5, <1>7, <2>1, <3>1
    <3>3. b + 1 # 0
      OBVIOUS
    <3> QED BY <3>2, <3>3 DEF Faithful
  <2>2. CASE verdict = "ok"
    <3> SUFFICES ASSUME failed = 0, Tally(reports', "error") = 0
                 PROVE  /\ Len(topic') + Len(queue') = produced
                        /\ \A p \in 1 .. produced : Holds(topic', p) \/ Holds(queue', p)
      BY <1>1 DEF Faithful, Holds
    <3>1. PICK b \in Nat : b = Tally(reports, "error")
      BY SinkTypes
    <3>2. b + 0 = 0
      BY <1>5, <1>7, <2>2, <3>1
    <3>3. /\ Len(topic) + Len(queue) = produced
          /\ \A p \in 1 .. produced : Holds(topic, p) \/ Holds(queue, p)
      BY <3>1, <3>2 DEF ProducerInv, Faithful
    <3>4. Len(topic') = Len(topic) + 1 /\ topic'[Len(topic) + 1] = queue[n]
      BY <1>6, <1>7, <2>2
    <3>5. Len(topic') + Len(queue') = produced
      <4>1. PICK t \in Nat, q \in Nat : t = Len(topic) /\ q = Len(queue) /\ t + q = produced
        BY <1>2, <3>3
      <4>2. Len(topic') = t + 1 /\ Len(queue') = q - 1
        BY <1>22, <3>4, <4>1
      <4>3. (t + 1) + (q - 1) = t + q
        OBVIOUS
      <4> QED BY <4>1, <4>2, <4>3
    <3>6. ASSUME NEW p \in 1 .. produced PROVE Holds(topic', p) \/ Holds(queue', p)
      <4>1. CASE Holds(topic, p)
        BY <1>61, <4>1 DEF Holds
      <4>2. CASE Holds(queue, p)
        <5>1. PICK i \in 1 .. Len(queue) : queue[i] = p
          BY <4>2 DEF Holds
        <5>2. CASE i = n
          <6>1. Len(topic) + 1 \in 1 .. Len(topic')
            BY <1>2, <3>4
          <6> QED BY <3>4, <5>1, <5>2, <6>1 DEF Holds
        <5>3. CASE i # n
          <6>1. PICK k \in 1 .. Len(queue') : old(k) = i
            BY <1>3, <5>3
          <6>2. queue'[k] = p
            BY <1>3, <5>1, <6>1
          <6> QED BY <6>2 DEF Holds
        <5> QED BY <5>2, <5>3
      <4> QED BY <3>3, <4>1, <4>2
    <3> QED BY <3>5, <3>6
  <2> QED BY <1>7, <2>1, <2>2
<1>12. pc' # "done"
  OBVIOUS
<1> QED BY <1>1, <1>9, <1>10, <1>101, <1>11, <1>12, RunningIsNotEnded DEF ProducerInv

LEMMA FinalFlushKeeps ==
    ASSUME ProducerInv, FinalFlushEnds
    PROVE  ProducerInv'
<1>1. /\ pc = "final" /\ failed' = (IF Outstanding > 0 THEN failed + 1 ELSE failed)
      /\ pc' = "done" /\ exit' = (IF delivered = 0 /\ produced > 0 THEN 2 ELSE 0)
      /\ UNCHANGED <<anomalyVars, produced, delivered, queue, reports, topic>>
  BY DEF FinalFlushEnds, Verdict, Finish, broker
<1>2. AnomalyInv' /\ events' = events /\ phase' = phase
  BY <1>1, StreamStays DEF ProducerInv, anomalyVars
<1>3. produced = Len(events)
  BY <1>1 DEF ProducerInv, SinkOK
<1>4. Outstanding \in Nat /\ failed \in Nat /\ delivered \in Nat /\ produced \in Nat
  BY SinkTypes DEF Outstanding
<1>6. failed' \in Nat /\ (failed' = 0 => failed = 0 /\ Outstanding = 0) /\ failed' <= failed + Outstanding
  BY <1>1, <1>4
<1>7. SinkOK'
  BY <1>1, <1>2, <1>6 DEF ProducerInv, SinkOK, Outstanding, Running
<1>8. Balanced'
  <2>1. delivered + failed + Outstanding = produced
    BY <1>1 DEF ProducerInv, Balanced
  <2>2. delivered + failed' <= produced
    <3>1. PICK o \in Nat : o = Outstanding
      BY <1>4
    <3>2. delivered + failed + o = produced /\ failed' <= failed + o
      BY <1>6, <2>1, <3>1
    <3>3. delivered \in Nat /\ failed \in Nat /\ failed' \in Nat
      BY <1>4, <1>6
    <3> QED BY <3>2, <3>3
  <2> QED BY <1>1, <2>2 DEF ProducerInv, Balanced
<1>9. Ordered' /\ Faithful'
  <2>1. Ordered'
    BY <1>1, <1>2 DEF ProducerInv, Ordered, Lane
  <2>2. Faithful'
    BY <1>1, <1>2, <1>6 DEF ProducerInv, Faithful, Holds
  <2> QED BY <2>1, <2>2
<1>10. Ended'
  <2>1. Outstanding = 0 => queue = <<>> /\ reports = <<>>
    <3>1. queue \in Seq(Nat) /\ reports \in Seq(Verdicts)
      BY DEF ProducerInv, SinkOK
    <3>2. Outstanding = 0 => Len(queue) = 0 /\ Len(reports) = 0
      BY SinkTypes DEF Outstanding
    <3> QED BY <3>1, <3>2, EmptySeq
  <2>2. exit' = 2 => delivered' = 0
    BY <1>1
  <2>3. produced' = 0 => events' = <<>>
    <3>1. events \in Seq(Event)
      BY DEF ProducerInv, AnomalyInv, StreamOK
    <3> QED BY <1>1, <1>2, <1>3, <3>1, EmptySeq
  <2>4. DirectLandsTheRest'
    BY <2>3 DEF DirectLandsTheRest
  <2>5. failed' = 0 => produced' = Len(events') /\ queue' = <<>> /\ reports' = <<>>
    BY <1>1, <1>2, <1>3, <1>6, <2>1
  <2> QED BY <2>2, <2>4, <2>5 DEF Ended
<1> QED BY <1>2, <1>7, <1>8, <1>9, <1>10 DEF ProducerInv

\* main() is over: nothing was produced, or it was stopped on the way.
LEMMA StopKeeps ==
    ASSUME ProducerInv, pc \in {"choose", "produce"}, pc' = "done", exit' \in {0, 1, 2},
           exit' # 1 => pc = "choose",
           UNCHANGED <<anomalyVars, produced, delivered, failed, queue, reports, topic>>,
           DirectLandsTheRest'
    PROVE  ProducerInv'
<1>1. AnomalyInv' /\ events' = events /\ phase' = phase
  BY StreamStays DEF ProducerInv, anomalyVars
<1>2. SinkOK'
  BY <1>1 DEF ProducerInv, SinkOK, Outstanding, Running
<1>3. Balanced'
  BY DEF ProducerInv, Balanced
<1>4. Ordered' /\ Faithful'
  <2>1. Ordered'
    BY <1>1 DEF ProducerInv, Ordered, Lane
  <2>2. Faithful'
    BY <1>1 DEF ProducerInv, Faithful, Holds
  <2> QED BY <2>1, <2>2
<1>5. pc = "choose" => produced = 0 /\ delivered = 0
  BY DEF ProducerInv, SinkOK
<1>6. Ended'
  BY <1>5 DEF Ended
<1> QED BY <1>1, <1>2, <1>3, <1>4, <1>6 DEF ProducerInv

\* An event that is not damaged is a valid one: no time is out of bounds.
LEMMA DirectKeeps ==
    ASSUME ProducerInv, WriteDirect
    PROVE  ProducerInv'
<1>1. /\ pc = "choose" /\ pc' = "done" /\ exit' = 0
      /\ landed' = {i \in DOMAIN events : Rejection(events[i]) = "NONE"}
      /\ rejected' = Cardinality(DOMAIN events \ landed')
      /\ UNCHANGED <<anomalyVars, produced, delivered, failed, queue, reports, topic>>
  BY DEF WriteDirect, Finish, broker
<1>2. phase = "write" /\ AnomalyInv /\ events' = events
  BY <1>1 DEF ProducerInv, SinkOK, anomalyVars
<1>3. IsFiniteSet(DOMAIN events) /\ Cardinality(DOMAIN events) = Len(events) /\ Len(events) \in Nat
  BY <1>2, AnomalyTypes
<1>4. ASSUME NEW i \in DOMAIN events
      PROVE  /\ Rejection(events[i]) = "NONE" <=>
                    events[i].wellFormed /\ "malformed_json" \notin events[i].tags
             /\ "malformed" \notin events[i].tags => Rejection(events[i]) = "NONE"
  <2>1. events[i] \in Event /\ Bounded(events[i]) /\ Labelled(events[i], good)
    BY <1>2, AnomalyTypes DEF AnomalyInv, Emitted
  <2>2. /\ ~ (events[i].ingested - events[i].ts < - ClockSkewTolerance)
        /\ ~ (events[i].ingested - events[i].ts > MaxLateness)
    BY <2>1, BoundedIsInTime DEF Drift
  <2>3. events[i].wellFormed \in BOOLEAN
    BY <2>1, EventFields
  <2>4. Rejection(events[i]) = "NONE" <=>
            events[i].wellFormed /\ "malformed_json" \notin events[i].tags
    BY <2>2, <2>3 DEF Rejection
  <2> QED BY <2>1, <2>4 DEF Labelled
<1>5. landed' \subseteq DOMAIN events
  BY <1>1
<1>6. rejected' = Len(events) - Cardinality(landed')
  <2>1. IsFiniteSet(landed')
    BY <1>3, <1>5, FS_Subset
  <2>2. Cardinality(DOMAIN events \ landed') = Cardinality(DOMAIN events) - Cardinality(DOMAIN events \cap landed')
    BY <1>3, FS_Difference
  <2>3. DOMAIN events \cap landed' = landed'
    BY <1>5
  <2> QED BY <1>1, <1>3, <2>2, <2>3
<1>7. DirectLandsTheRest'
  BY <1>1, <1>2, <1>4, <1>5, <1>6 DEF DirectLandsTheRest
<1> QED BY <1>1, <1>7, StopKeeps

(***************************************************************************)
(* Every step keeps the invariant.                                         *)
(***************************************************************************)
LEMMA ProducerSteps == ProducerInv /\ [ProducerNext]_producerVars => ProducerInv'
<1> SUFFICES ASSUME ProducerInv, [ProducerNext]_producerVars PROVE ProducerInv'
  OBVIOUS
<1>1. CASE Generate
  BY <1>1, GenerateKeeps
<1>2. CASE Probe
  <2>1. /\ pc = "choose"
        /\ (pc' = "produce" /\ UNCHANGED exit) \/ (pc' = "done" /\ exit' \in {1, 2})
        /\ UNCHANGED <<anomalyVars, produced, delivered, failed, queue, reports, topic>>
    BY <1>2 DEF Probe, Finish, broker
  <2>2. CASE pc' = "produce" /\ UNCHANGED exit
    BY <2>1, <2>2, LoopKeeps
  <2>3. CASE pc' = "done" /\ exit' \in {1, 2}
    <3>1. DirectLandsTheRest'
      BY <2>3 DEF DirectLandsTheRest
    <3>2. exit' \in {0, 1, 2}
      BY <2>3
    <3> QED BY <2>1, <2>3, <3>1, <3>2, StopKeeps
  <2> QED BY <2>1, <2>2, <2>3
<1>3. CASE WriteDirect
  BY <1>3, DirectKeeps
<1>4. CASE Produce
  BY <1>4, ProduceKeeps
<1>41. CASE ProduceRaises
  <2>1. /\ pc = "produce" /\ pc' = "done" /\ exit' = 1
        /\ UNCHANGED <<anomalyVars, produced, delivered, failed, queue, reports, topic>>
    BY <1>41 DEF ProduceRaises, Finish, broker
  <2>2. DirectLandsTheRest'
    BY <2>1 DEF DirectLandsTheRest
  <2> QED BY <2>1, <2>2, StopKeeps
<1>5. CASE QueueFull \/ Poll \/ FlushServes
  <2>1. /\ Serve /\ pc \in Sending /\ pc' \in Sending /\ (pc' = "final" => pc = "final")
        /\ UNCHANGED <<anomalyVars, produced, queue, topic, exit>>
    BY <1>5 DEF QueueFull, Poll, FlushServes, Sending
  <2> QED BY <2>1, ServeKeeps
<1>6. CASE FlushEnds \/ AllProduced
  <2>1. /\ pc \in {"produce", "flush"} /\ pc' \in {"produce", "final"}
        /\ pc' = "final" => produced = Len(events)
        /\ UNCHANGED <<anomalyVars, produced, delivered, failed, exit, queue, reports, topic>>
    BY <1>6 DEF FlushEnds, AllProduced, broker
  <2> QED BY <2>1, LoopKeeps
<1>7. CASE FinalFlushEnds
  BY <1>7, FinalFlushKeeps
<1>8. CASE Acknowledge
  <2>1. PICK n \in Oldest : topic' = Append(topic, queue[n]) /\ Settle(n, "ok")
    BY <1>8 DEF Acknowledge
  <2>2. /\ pc # "done" /\ "ok" \in Verdicts
        /\ queue' = RemoveAt(queue, n) /\ reports' = Append(reports, "ok")
        /\ UNCHANGED <<anomalyVars, pc, produced, delivered, failed, exit>>
    BY <1>8, <2>1 DEF Acknowledge, Settle, sink, Verdicts
  <2> QED BY <2>1, <2>2, SettleKeeps
<1>9. CASE TimeOut
  <2>1. PICK n \in Oldest : topic' \in {topic, Append(topic, queue[n])} /\ Settle(n, "error")
    BY <1>9 DEF TimeOut
  <2>2. /\ pc # "done" /\ "error" \in Verdicts
        /\ queue' = RemoveAt(queue, n) /\ reports' = Append(reports, "error")
        /\ topic' = Append(topic, queue[n]) \/ topic' = topic
        /\ UNCHANGED <<anomalyVars, pc, produced, delivered, failed, exit>>
    BY <1>9, <2>1 DEF TimeOut, Settle, sink, Verdicts
  <2> QED BY <2>1, <2>2, SettleKeeps
<1>10. CASE UNCHANGED producerVars
  <2>1. UNCHANGED <<anomalyVars, pc, produced, delivered, failed, exit, queue, reports, topic, landed, rejected>>
    BY <1>10 DEF producerVars, sink, broker, direct
  <2>2. AnomalyInv' /\ events' = events /\ phase' = phase
    BY <2>1, StreamStays DEF ProducerInv, anomalyVars
  <2>3. SinkOK' /\ Balanced'
    BY <2>1, <2>2 DEF ProducerInv, SinkOK, Balanced, Outstanding
  <2>5. Ordered'
    BY <2>1, <2>2 DEF ProducerInv, Ordered, Lane
  <2>6. Faithful'
    BY <2>1, <2>2 DEF ProducerInv, Faithful, Holds
  <2>4. Ended'
    BY <2>1, <2>2 DEF ProducerInv, Ended, DirectLandsTheRest
  <2> QED BY <2>2, <2>3, <2>4, <2>5, <2>6 DEF ProducerInv
<1> QED BY <1>1, <1>2, <1>3, <1>4, <1>41, <1>5, <1>6, <1>7, <1>8, <1>9, <1>10
        DEF ProducerNext, Write, Broker

LEMMA ProducerAlways == ProducerSpec => []ProducerInv
<1>1. ProducerInit => ProducerInv
  BY ProducerStarts
<1>2. ProducerInv /\ [ProducerNext]_producerVars => ProducerInv'
  BY ProducerSteps
<1> QED BY <1>1, <1>2, PTL DEF ProducerSpec

--------------------------------------------------------------------------------
(***************************************************************************)
(* Types: the counters stay inside the bounds, never more is outstanding   *)
(* than the queue of the producer holds, and main() has an exit code (0, 1 *)
(* or 2) exactly when it is over.                                          *)
(***************************************************************************)
THEOREM ProducerTypeCorrect == ProducerSpec => []ProducerTypeOK
<1>1. ProducerInv => ProducerTypeOK
  <2> SUFFICES ASSUME ProducerInv PROVE ProducerTypeOK
    OBVIOUS
  <2>1. report \in [Counters -> 0 .. MaxAnomalies]
    <3>1. report \in [Counters -> Nat] /\ Drawn(report) <= MaxAnomalies /\ MaxAnomalies \in Nat
      BY AnomalyAssumption DEF ProducerInv, AnomalyInv, StreamOK, AnomalyAssumption
    <3>2. \A c \in Counters : report[c] <= Drawn(report)
      BY <3>1 DEF Drawn, Counters
    <3>3. Drawn(report) \in Nat
      BY <3>1 DEF Drawn, Counters
    <3> QED BY <3>1, <3>2, <3>3
  <2> QED BY <2>1 DEF ProducerInv, AnomalyInv, StreamOK, SinkOK, ProducerTypeOK
<1> QED BY <1>1, ProducerAlways, PTL

(***************************************************************************)
(* Whatever is drawn for an event, and however the anomalies combine, the  *)
(* consumer's contract rejects no event that was not malformed on purpose  *)
(* (anomalies.py:8).                                                       *)
(***************************************************************************)
THEOREM RejectsAreDeliberate == ProducerSpec => []OnlyMalformedRejected
<1>1. ProducerInv => OnlyMalformedRejected
  BY EmittedStream DEF ProducerInv
<1> QED BY <1>1, ProducerAlways, PTL

(***************************************************************************)
(* An event without a label is as the lifecycle produced it, and the       *)
(* report accounts for the length of the stream (anomalies.py:4).          *)
(***************************************************************************)
THEOREM ChangesAreLabelled == ProducerSpec => []UnlabelledIsUntouched
<1>1. ProducerInv => UnlabelledIsUntouched
  BY EmittedStream DEF ProducerInv
<1> QED BY <1>1, ProducerAlways, PTL

(***************************************************************************)
(* Every copy comes after its original and is equal to it but for the      *)
(* arrival and the label (anomalies.py:100).                               *)
(***************************************************************************)
THEOREM CopiesComeLater == ProducerSpec => []CopyFollowsOriginal
<1>1. ProducerInv => CopyFollowsOriginal
  BY EmittedStream DEF ProducerInv
<1> QED BY <1>1, ProducerAlways, PTL

(***************************************************************************)
(* A run that ends with 0, without a failure and with something produced   *)
(* left the whole stream on the broker, every event once, and in each      *)
(* partition the events are in the order of the stream, whatever the       *)
(* partitioner makes of the keys (kafka_sink.py:204 and 126).  Between two *)
(* partitions, those of the two topics too, nothing is said of the order.  *)
(***************************************************************************)
THEOREM CleanReportsAreComplete == ProducerSpec => []CleanReportIsComplete
<1>1. ProducerInv => CleanReportIsComplete
  <2> SUFFICES ASSUME ProducerInv, pc = "done", exit = 0, failed = 0, produced > 0
               PROVE  /\ Len(topic) = Len(events) /\ ToSet(topic) = DOMAIN events
                      /\ \A i, j \in DOMAIN topic :
                            i < j /\ Lane(topic[i]) = Lane(topic[j]) => topic[i] < topic[j]
    BY DEF CleanReportIsComplete
  <2>1. produced = Len(events) /\ queue = <<>> /\ reports = <<>>
    BY DEF ProducerInv, Ended
  <2>2. Len(queue) = 0 /\ Tally(reports, "error") = 0
    BY <2>1, TallyOfNone, EmptySeq
  <2>3. Len(topic) + 0 = Len(events) /\ \A p \in 1 .. Len(events) : Holds(topic, p) \/ Holds(queue, p)
    BY <2>1, <2>2 DEF ProducerInv, Faithful
  <2>4. Len(topic) = Len(events)
    BY <2>3, SinkTypes
  <2>5. DOMAIN topic = 1 .. Len(topic) /\ DOMAIN events = 1 .. Len(events)
    <3>1. topic \in Seq(Nat)
      BY DEF ProducerInv, SinkOK
    <3> QED BY <3>1, SinkTypes, LenProperties
  <2>6. ToSet(topic) = DOMAIN events
    <3>1. \A i \in 1 .. Len(topic) : topic[i] \in 1 .. Len(events)
      BY <2>1 DEF ProducerInv, SinkOK
    <3>2. \A p \in 1 .. Len(events) : Holds(topic, p)
      BY <2>2, <2>3 DEF Holds
    <3> QED BY <2>5, <3>1, <3>2 DEF ToSet, Holds
  <2> QED BY <2>4, <2>5, <2>6 DEF ProducerInv, Ordered
<1> QED BY <1>1, ProducerAlways, PTL

(***************************************************************************)
(* The report claims no delivery that is not on the topic and counts no    *)
(* event twice, and exit code 2 means that nothing was confirmed.          *)
(***************************************************************************)
THEOREM ReportsAreHonest == ProducerSpec => []ReportIsHonest
<1>1. ProducerInv => ReportIsHonest
  <2> SUFFICES ASSUME ProducerInv PROVE ReportIsHonest
    OBVIOUS
  <2>1. delivered + Tally(reports, "ok") <= Len(topic) /\ delivered + failed <= produced
    BY DEF ProducerInv, Balanced
  <2>2. PICK a \in Nat : a = Tally(reports, "ok")
    BY SinkTypes
  <2>3. delivered \in Nat /\ Len(topic) \in Nat
    BY SinkTypes
  <2>4. delivered <= Len(topic)
    BY <2>1, <2>2, <2>3
  <2> QED BY <2>1, <2>4 DEF ReportIsHonest, ProducerInv, Ended
<1> QED BY <1>1, ProducerAlways, PTL

(***************************************************************************)
(* The broker-free sink lands every event that is neither truncated nor    *)
(* damaged, whatever else happened to it, and no other                     *)
(* (direct_landing_sink.py:34).                                            *)
(***************************************************************************)
THEOREM DirectSinkLandsTheRest == ProducerSpec => []DirectLandsTheRest
<1>1. ProducerInv => DirectLandsTheRest
  BY DEF ProducerInv, Ended
<1> QED BY <1>1, ProducerAlways, PTL
================================================================================
