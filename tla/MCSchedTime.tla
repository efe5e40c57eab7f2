----------------------------- MODULE MCSchedTime -----------------------------
(* Small instances of SchedTime for TLC. *)
EXTENDS SchedTime

CONSTANTS d0, d1, d2

SelfDomain == [v \in Vcpus |-> v]

(* A feasible load for the default strategy, rate monotonic. *)
RmPeriod == [d \in Domains |-> IF d = d1 THEN 2 ELSE 5]
RmSlice == [d \in Domains |-> IF d = d1 THEN 1 ELSE 2]
NoPriority == [d \in Domains |-> 0]
=============================================================================
