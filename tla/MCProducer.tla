------------------------------- MODULE MCProducer -------------------------------
(***************************************************************************)
(* A trip of two events and the session of its driver, each delayed,       *)
(* skewed or copied by the largest or the smallest amount drawn.           *)
(***************************************************************************)
EXTENDS Producer

Trip(id, type, ts) == [id |-> id, type |-> type, key |-> "t1", correlation |-> "t1", ts |-> ts]

MCChain == << Trip(1, "RideRequested", 0), Trip(2, "RideAccepted", 8),
              [id |-> 3, type |-> "DriverOnline", key |-> "d1", correlation |-> "s1", ts |-> 4] >>

MCPartitionFor == [key \in {"t1", "d1"} |-> 0]
================================================================================
