----------------------------- MODULE MCSchedule -----------------------------
(* Small instances of Schedule for TLC: two pCPUs, Dom0 and guests with one *)
(* vCPU each, named after their domain.                                     *)
EXTENDS ScheduleInv

CONSTANTS d0, d1, d2

SelfDomain == [v \in Vcpus |-> v]

(* Distinct periods, Dom0's in the middle; distinct priorities. *)
MCPeriod == [d \in Domains |-> IF d = d0 THEN 2 ELSE IF d = d1 THEN 1 ELSE 3]
(* VM_STANDARD_PERIOD and VM_DOM0_PERIOD are equal. *)
DefaultPeriod == [d \in Domains |-> 1]
MCSlice == [d \in Domains |-> 1]
MCPriority == [d \in Domains |-> IF d = d1 THEN 1 ELSE 2]

(* xl sched-fp: a new period, priority or deadline for a guest. *)
Adjust(P, D, p) == [period |-> P, slice |-> 0, deadline |-> D, priority |-> p]
MCAdjustments == {Adjust(4, 0, 0), Adjust(0, 1, 0), Adjust(0, 0, 3)}

Pins == {{c} : c \in Cpus}
=============================================================================
