---------------------------- MODULE ScheduleInv ----------------------------
(***************************************************************************)
(* The inductive invariant of Schedule, for a toolstack that adjusts       *)
(* sched_fp in quiet moments and re-pins only vCPUs that are off the CPU.  *)
(***************************************************************************)
EXTENDS Schedule

(* The variables an actor works on are set while it is at work. *)
ActorsSet ==
  /\ \A c \in Cpus : /\ cpuPc[c] \in {"saved", "migrate", "wake"} <=> saving[c] # Idle
                     /\ cpuPc[c] = "block" => curr[c] # Idle
  /\ \A s \in Senders : senderPc[s] # "idle" => senderVcpu[s] # Idle
  /\ ctlPc \notin {"idle", "unlink"} => ctlVcpu # Idle

(* A pCPU holds only vCPUs placed on it. *)
HoldersPlaced ==
  \A v \in Vcpus :
    /\ isRunning[v] <=> \E c \in Cpus : Holds(c, v)
    /\ runstate[v] = "running" <=> \E c \in Cpus : curr[c] = v
    /\ \A c \in Cpus : Holds(c, v) => processor[v] = c

(* A context switch is between two different vCPUs. *)
SwitchesAway == \A c \in Cpus : saving[c] # Idle => curr[c] # saving[c]

Once(q) == \A i, j \in 1 .. Len(q) : q[i] = q[j] => i = j

QueuesPlaced ==
  \A c \in Cpus : Once(runq[c]) /\ \A v \in Queued(c) : processor[v] = c

(* The vCPU an adjustment has unlinked and not yet inserted again. *)
Unlinked(v) == ctlPc = "reinsert" /\ ctlVcpu = v

UnlinkedOffQueue == \A v \in Vcpus : Unlinked(v) => ~vcpu_on_q(v)

(* The running vCPU stays on its run queue. *)
CurrQueued ==
  \A c \in Cpus : curr[c] # Idle => curr[c] \in Queued(c) \/ Unlinked(curr[c])

(* v is on its way to a CPU its new affinity allows; nobody can dispatch it *)
(* meanwhile, and it leaves its queue before it moves.                      *)
Repinning(v) ==
  /\ ctlPc \in {"affinity", "migrate"} /\ ctlVcpu = v
  /\ migrating[v] /\ OffCpu(v)
  /\ ctlPc = "migrate" => ~vcpu_on_q(v)

PlacedInAffinity ==
  \A v \in Vcpus : processor[v] \in hardAffinity[v] \/ Repinning(v)

(* What keeps a vCPU from running twice: it is held only by the pCPU it is  *)
(* placed on, queued only there, and placed elsewhere only while it is off  *)
(* the CPU and off the queues.  Inductive; implies RunqIntegrity, OneHolder *)
(* and AffinityRespected, and that the assertions of schedule() hold.       *)
InductiveInv ==
  /\ TypeOK
  /\ ActorsSet
  /\ HoldersPlaced
  /\ SwitchesAway
  /\ QueuesPlaced
  /\ UnlinkedOffQueue
  /\ CurrQueued
  /\ PlacedInAffinity
  /\ RunnableIsQueued

(* A vcpu_wake(v) is under way, leaving re-insertions aside. *)
SenderWakes(v) == \E s \in Senders : senderPc[s] = "wake" /\ senderVcpu[s] = v

Waking(v) ==
  \/ SenderWakes(v)
  \/ \E c \in Cpus : cpuPc[c] = "wake" /\ saving[c] = v
  \/ ctlPc = "wake" /\ ctlVcpu = v

(* Who has yet to correct v's runstate when it disagrees with the flags:    *)
(* only the sender that unblocked it, the operation that pauses or migrates *)
(* it, or somebody who wakes it.  Only the running vCPU may be blocked      *)
(* without being accounted so.                                              *)
Accounted(v) ==
  /\ blocked[v] => runstate[v] \in {"running", "blocked"}
  /\ runstate[v] = "blocked" => blocked[v] \/ SenderWakes(v)
  /\ runstate[v] = "runnable" =>
       /\ paused[v] => ctlPc \in {"pause", "pause_nosync"} /\ ctlVcpu = v
       /\ migrating[v] => ctlPc = "affinity" /\ ctlVcpu = v
  /\ runstate[v] = "offline" => paused[v] \/ migrating[v] \/ Waking(v)

(* Inductive with InductiveInv; implies RunstateAccurate: vcpu_sleep,       *)
(* vcpu_wake and schedule() between them correct every runstate.            *)
Accounts == \A v \in Vcpus : Accounted(v)

(* The guests' vCPUs the adjustment under way, if any, has visited. *)
Settled == VisitedVcpus \ ctlTodo

(* Whatever stands in front of a settled vCPU precedes it: a vCPU of Dom0   *)
(* or one not visited yet included.  An insertion may stop in front of any  *)
(* of those, so the order of the settled ones alone would not last.         *)
QueuesOrdered ==
  \A c \in Cpus : \A i, j \in 1 .. Len(runq[c]) :
    i < j /\ runq[c][j] \in Settled => compare(runq[c][i], runq[c][j])

(* fp_sched_set_vm_prio visits the adjusted domain first and gives it its   *)
(* new priority with the first visit, before any other vCPU is settled.     *)
AdjustedFirst ==
  /\ ctlTodo \subseteq VisitedVcpus
  /\ ctlTodo # {} => Adjusting
  /\ (\E w \in ctlTodo : VcpuDomain[w] = ctlDom)
       => \A v \in Settled : VcpuDomain[v] = ctlDom
  /\ Adjusting /\ strategy = "FP" /\ (\E v \in Settled : VcpuDomain[v] = ctlDom)
       => priority[ctlDom] = ctlPrio

(* The order of the queues and of the visits: inductive with InductiveInv;  *)
(* implies GuestsSorted.                                                    *)
SortingInv == QueuesOrdered /\ AdjustedFirst

------------------------------------------------------------------------------
(* What a pCPU holds, for the abstract specification Dispatch. *)
HeldBy(c) == {v \in Vcpus : Holds(c, v)}

Abstract == INSTANCE Dispatch WITH held <- [c \in Cpus |-> HeldBy(c)],
                                   affinity <- hardAffinity

(* The scheduler implements Dispatch: whatever the queues, flags and pauses *)
(* do, schedule() takes only a vCPU that no pCPU holds and that may run     *)
(* there, holding one other vCPU at most; only context_saved() gives a vCPU *)
(* up; and no vCPU is re-pinned while a pCPU holds it.                      *)
ImplementsDispatch == Abstract!DispatchSpec
=============================================================================
