----------------------------- MODULE MCIngestion -----------------------------
(***************************************************************************)
(* Small instances of Ingestion.  A log is written per partition, a message *)
(* as the record of its event_id, verdict and landing-zone directory.       *)
(***************************************************************************)
EXTENDS Ingestion, Sequences, TLC

CONSTANTS c1, c2, p1, p2, e1, e2, e3

MCSymmetry == Permutations({c1, c2})

row(id, dir) == [id |-> id, verdict |-> "valid", dir |-> dir]
bad          == [id |-> e3, verdict |-> "reject", dir |-> 0]
poison       == [id |-> e3, verdict |-> "raise", dir |-> 0]

\* One partition: two events in two hours, the first sent twice, then garbage.
OneLog == p1 :> << row(e1, 1), row(e2, 0), row(e1, 1), bad >>

\* A message the validator cannot survive beside a good row and a rejection.
PoisonLogs == p1 :> << row(e1, 1), bad >> @@ p2 :> << poison >>

LogEndOf(log) == [p \in DOMAIN log |-> Len(log[p])]

MessagesOf(log) == UNION { {p} \X (0 .. Len(log[p]) - 1) : p \in DOMAIN log }

EventIdOf(log)   == [m \in MessagesOf(log) |-> log[m[1]][m[2] + 1].id]
VerdictOf(log)   == [m \in MessagesOf(log) |-> log[m[1]][m[2] + 1].verdict]
DirectoryOf(log) == [m \in MessagesOf(log) |-> log[m[1]][m[2] + 1].dir]

OneLogEnd == LogEndOf(OneLog)
OneEventId == EventIdOf(OneLog)
OneVerdict == VerdictOf(OneLog)
OneDirectory == DirectoryOf(OneLog)

PoisonLogEnd == LogEndOf(PoisonLogs)
PoisonEventId == EventIdOf(PoisonLogs)
PoisonVerdict == VerdictOf(PoisonLogs)
PoisonDirectory == DirectoryOf(PoisonLogs)
==============================================================================
