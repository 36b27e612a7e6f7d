---------------------------- MODULE MCDriverSessions ----------------------------
(* Two sessions, one of which may land long after it began.                *)
EXTENDS DriverSessions

MCOnlineAt == [s1 |-> 0, s2 |-> 2]
================================================================================
