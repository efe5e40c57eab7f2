---------------------------- MODULE SchedService ----------------------------
(***************************************************************************)
(* What the accounting of SchedTime delivers to a vCPU over a period, seen *)
(* through history variables that record whether the vCPU wanted the CPU   *)
(* all along and how late its replenishment is.  They constrain no step.   *)
(***************************************************************************)
EXTENDS SchedTime

VARIABLES
  steady,   \* v was runnable ever since its last replenishment
  overdue   \* time past the end of its period that v has spent queued and
            \* runnable without being replenished, up to Tick + 1

svars == <<tvars, steady, overdue>>

ServiceInit ==
  TimeInit /\ steady = [v \in Vcpus |-> FALSE] /\ overdue = [v \in Vcpus |-> 0]

TrackSteady ==
  steady' = [v \in Vcpus |->
    /\ vcpu_runnable(v)'
    /\ steady[v] \/ (periodLeft[v] < 0 /\ periodLeft'[v] >= 0)]

TrackOverdue ==
  overdue' = [v \in Vcpus |->
    IF periodLeft'[v] >= 0 \/ ~vcpu_runnable(v)' \/ ~vcpu_on_q(v)' THEN 0
    ELSE IF TimePasses /\ overdue[v] <= Tick THEN overdue[v] + 1
    ELSE overdue[v]]

ServiceNext == TimeNext /\ TrackSteady /\ TrackOverdue

ServiceSpec == ServiceInit /\ [][ServiceNext]_svars

(* A vCPU that wanted the CPU during a whole period has received its slice  *)
(* when update_queue starts its next period, for a schedulable set of       *)
(* parameters.                                                              *)
SliceReceived ==
  [][\A c \in Cpus : TimedSchedule(c) =>
       \A v \in Replenished(c) : steady[v] =>
         Charged(c)[v] >= slice[VcpuDomain[v]]]_svars

(* A vCPU that waits on its queue is replenished within a tick of the end   *)
(* of its period, whether it runs or not: update_queue restarts the period  *)
(* at the time of the pass, so this is all by which a period drifts, and no *)
(* replenishment of a waiting vCPU is missed.                               *)
ReplenishedInTime == \A v \in Vcpus : overdue[v] <= Tick
=============================================================================
