----------------------------- MODULE MCSchedService -----------------------------
(* Small instances of SchedService for TLC. *)
EXTENDS SchedService

CONSTANTS d0, d1, d2

SelfDomain == [v \in Vcpus |-> v]

(* Rate-monotonic parameters that stay feasible when each slice is rounded   *)
(* up to the tick of 2.                                                      *)
RmPeriod == [d \in Domains |-> IF d = d1 THEN 3 ELSE 7]
RmSlice == [d \in Domains |-> IF d = d1 THEN 1 ELSE 2]
NoPriority == [d \in Domains |-> 0]
=============================================================================
