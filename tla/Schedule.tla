------------------------------ MODULE Schedule ------------------------------
(***************************************************************************)
(* The scheduler core of Xen, xen/common/schedule.c, driving the           *)
(* fixed-priority scheduler of module SchedFp: blocking, waking, pausing,  *)
(* migrating and dispatching vCPUs.                                        *)
(*                                                                         *)
(* The actors are the pCPUs (schedule(), context_saved() and the hypercalls*)
(* of the vCPU they run), the senders of events, and the toolstack, which  *)
(* performs one control operation at a time.  fp_init_pdata() makes all    *)
(* pCPUs of the scheduler share one lock, so a region under the schedule   *)
(* lock is one step; two regions, or accesses outside the lock, are        *)
(* separate steps that other actors interleave with.                       *)
(*                                                                         *)
(* Time is left to module SchedTime: here a timer may fire at any moment,  *)
(* and any set of vCPUs may have budget left.                              *)
(***************************************************************************)
EXTENDS SchedFp

CONSTANTS
  Senders,        \* contexts that may be sending an event at the same time
  TaskletCpus,    \* pCPUs on which tasklets are scheduled
  Affinities,     \* masks the toolstack asks for
  Adjustments,    \* domctl parameters: [period, slice, deadline, priority]
  AdjustDomains,  \* domains the toolstack adjusts
  GuestOps,       \* hypercalls the guests use
  CtlOps,         \* control operations the toolstack uses
  QuietAdjust,    \* nothing else is scheduled while sched_fp is adjusted
  MigrateRunning  \* the toolstack re-pins vCPUs that may be running

ASSUME EnvironmentAssumption ==
  /\ TaskletCpus \subseteq Cpus
  /\ Affinities \subseteq SUBSET Cpus
  /\ Adjustments \subseteq [period : Nat, slice : Nat, deadline : Nat, priority : Int]
  /\ AdjustDomains \subseteq Domains
  /\ GuestOps \subseteq {"block", "yield"}
  /\ CtlOps \subseteq {"pause", "pause_nosync", "affinity", "adjust", "strategy"}
  /\ QuietAdjust \in BOOLEAN
  /\ MigrateRunning \in BOOLEAN

VARIABLES
  isRunning,      \* v->is_running: some pCPU holds the vCPU's context
  runstate,       \* v->runstate.state
  pending,        \* an event is pending for the vCPU (evtchn_upcall_pending)
  tasklet,        \* this_cpu(tasklet_work_to_do), as a set of bits
  cpuPc,          \* what the pCPU is doing
  saving,         \* the vCPU a context switch is switching away from
  senderPc,       \* progress of vcpu_mark_events_pending()
  senderVcpu,
  ctlPc,          \* progress of the toolstack's operation
  ctlVcpu,        \* the vCPU it is working on
  ctlDom,         \* fp_adjust: the domain adjusted, and its new priority
  ctlPrio,
  ctlTodo         \* fp_adjust: vCPUs fp_sched_set_vm_prio has yet to visit

pauseVars == <<blocked, migrating, paused>>
placeVars == <<processor, hardAffinity>>
paramVars == <<strategy, period, slice, deadline>>
senderVars == <<senderPc, senderVcpu>>
ctlVars == <<ctlPc, ctlVcpu, ctlDom, ctlPrio, ctlTodo>>
cpuVars == <<cpuPc, saving>>
vars == <<fpVars, curr, softirq, placeVars, pauseVars, isRunning, runstate,
          pending, tasklet, cpuVars, senderVars, ctlVars>>

RunStates == {"running", "runnable", "blocked", "offline"}

(* "guest": running the vCPU curr; "block": inside vcpu_block();            *)
(* "saved", "migrate", "wake": the steps of context_saved(saving).          *)
CpuPcs == {"guest", "block", "saved", "migrate", "wake"}
SenderPcs == {"idle", "unblock", "wake"}
CtlPcs == {"idle", "pause", "pause_nosync", "sync", "affinity", "migrate", "wake",
           "unlink", "reinsert"}

TypeOK ==
  /\ strategy \in Strategies
  /\ priority \in [Domains -> Int]
  /\ period \in [Domains -> Nat]
  /\ slice \in [Domains -> Nat]
  /\ deadline \in [Domains -> Nat]
  /\ position \in [Vcpus -> Nat]
  /\ runq \in [Cpus -> Seq(Vcpus)]
  /\ curr \in [Cpus -> Vcpus \cup {Idle}]
  /\ softirq \in [Cpus -> BOOLEAN]
  /\ processor \in [Vcpus -> Cpus]
  /\ hardAffinity \in [Vcpus -> (SUBSET Cpus) \ {{}}]
  /\ blocked \in [Vcpus -> BOOLEAN]
  /\ migrating \in [Vcpus -> BOOLEAN]
  /\ paused \in [Vcpus -> BOOLEAN]
  /\ isRunning \in [Vcpus -> BOOLEAN]
  /\ runstate \in [Vcpus -> RunStates]
  /\ pending \in [Vcpus -> BOOLEAN]
  /\ tasklet \in [Cpus -> SUBSET {"enqueued", "scheduled"}]
  /\ cpuPc \in [Cpus -> CpuPcs]
  /\ saving \in [Cpus -> Vcpus \cup {Idle}]
  /\ senderPc \in [Senders -> SenderPcs]
  /\ senderVcpu \in [Senders -> Vcpus \cup {Idle}]
  /\ ctlPc \in CtlPcs
  /\ ctlVcpu \in Vcpus \cup {Idle}
  /\ ctlDom \in Domains /\ ctlPrio \in Int
  /\ ctlTodo \in SUBSET Vcpus

(* Domains are built paused; the idle vCPUs run.  sched_init_vcpu() calls   *)
(* insert_vcpu, which leaves a vCPU that is not runnable off the queues.    *)
Init ==
  /\ FpInit
  /\ curr = [c \in Cpus |-> Idle]
  /\ softirq = [c \in Cpus |-> FALSE]
  /\ processor \in [Vcpus -> Cpus]
  /\ hardAffinity = [v \in Vcpus |-> Cpus]
  /\ blocked = [v \in Vcpus |-> FALSE]
  /\ migrating = [v \in Vcpus |-> FALSE]
  /\ paused = [v \in Vcpus |-> TRUE]
  /\ isRunning = [v \in Vcpus |-> FALSE]
  /\ runstate = [v \in Vcpus |-> "offline"]
  /\ pending = [v \in Vcpus |-> FALSE]
  /\ tasklet = [c \in Cpus |-> {}]
  /\ cpuPc = [c \in Cpus |-> "guest"]
  /\ saving = [c \in Cpus |-> Idle]
  /\ senderPc = [s \in Senders |-> "idle"]
  /\ senderVcpu = [s \in Senders |-> Idle]
  /\ ctlPc = "idle"
  /\ ctlVcpu = Idle
  /\ ctlDom = Dom0
  /\ ctlPrio = 0
  /\ ctlTodo = {}

------------------------------------------------------------------------------
(* Regions under the schedule lock, shared by several callers *)

(* Slip: the runstate is changed whatever it was. *)
vcpu_sleep_Offline(v) ==
  IF vcpu_runnable(v)
  THEN UNCHANGED <<runstate, runq, softirq>>
  ELSE runstate' = [runstate EXCEPT ![v] = "offline"] /\ fp_sleep(v)

vcpu_sleep_nosync(v) ==
  IF vcpu_runnable(v)
  THEN UNCHANGED <<runstate, runq, softirq>>
  ELSE /\ runstate' = [runstate EXCEPT ![v] = IF @ = "runnable" THEN "offline" ELSE @]
       /\ fp_sleep(v)

(* Slip: a vCPU that is woken but not runnable is ignored. *)
vcpu_wake_NoOffline(v) ==
  IF vcpu_runnable(v)
  THEN /\ runstate' = [runstate EXCEPT
                         ![v] = IF @ \in {"blocked", "offline"} THEN "runnable" ELSE @]
       /\ fp_vcpu_wake(v)
  ELSE UNCHANGED <<runstate, runq, position, priority, softirq>>

(* Slip: waking makes any state runnable, the running one included. *)
vcpu_wake_AnyState(v) ==
  IF vcpu_runnable(v)
  THEN runstate' = [runstate EXCEPT ![v] = "runnable"] /\ fp_vcpu_wake(v)
  ELSE UNCHANGED <<runstate, runq, position, priority, softirq>>

vcpu_wake(v) ==
  IF vcpu_runnable(v)
  THEN /\ runstate' = [runstate EXCEPT
                         ![v] = IF @ \in {"blocked", "offline"} THEN "runnable" ELSE @]
       /\ fp_vcpu_wake(v)
  ELSE /\ runstate' = [runstate EXCEPT
                         ![v] = IF ~blocked[v] /\ @ = "blocked" THEN "offline" ELSE @]
       /\ UNCHANGED <<runq, position, priority, softirq>>

(* vcpu_migrate() finds a CPU and moves the vCPU, unless it still runs or   *)
(* somebody else has dealt with the request.                                *)
MustMove(v) == ~isRunning[v] /\ migrating[v]

vcpu_move_locked(v) ==
  /\ migrating' = [migrating EXCEPT ![v] = FALSE]
  /\ processor' = [processor EXCEPT ![v] = fp_pick_cpu(v)]

(* With QuietAdjust other actors stand still during an adjustment. *)
Adjusting == ctlPc \in {"unlink", "reinsert"}
Undisturbed == QuietAdjust => ~Adjusting

------------------------------------------------------------------------------
(* pCPUs *)

(* s_timer_fn: the 100us timer schedule() sets on every pass. *)
s_timer_fn(c) ==
  /\ Undisturbed
  /\ ~softirq[c]
  /\ cpu_raise_softirq(c)
  /\ UNCHANGED <<fpVars, curr, placeVars, pauseVars, isRunning, runstate, pending,
                 tasklet, cpuVars, senderVars, ctlVars>>

(* The runstate schedule() leaves the previous vCPU in. *)
StateAfter(v) ==
  IF blocked[v] THEN "blocked" ELSE IF vcpu_runnable(v) THEN "runnable" ELSE "offline"

schedule(c, hasBudget) ==
  LET prev == curr[c]
      next == fp_do_schedule(c, hasBudget, "enqueued" \in tasklet[c])
  IN  /\ Undisturbed
      /\ softirq[c] /\ cpuPc[c] = "guest"
      /\ softirq' = [softirq EXCEPT ![c] = FALSE]
      /\ tasklet' = [tasklet EXCEPT ![c] = IF "enqueued" \in @ THEN @ \cup {"scheduled"} ELSE {}]
      /\ curr' = [curr EXCEPT ![c] = next]
      /\ IF prev = next
         THEN UNCHANGED <<runstate, isRunning, cpuVars>>
         ELSE /\ runstate' = [v \in Vcpus |-> CASE v = next -> "running"
                                                [] v = prev -> StateAfter(v)
                                                [] OTHER -> runstate[v]]
              /\ isRunning' = [v \in Vcpus |-> v = next \/ isRunning[v]]
              /\ cpuPc' = [cpuPc EXCEPT ![c] = IF prev = Idle THEN "guest" ELSE "saved"]
              /\ saving' = [saving EXCEPT ![c] = prev]
      /\ UNCHANGED <<fpVars, placeVars, pauseVars, pending, senderVars, ctlVars>>

(* Slip: the running flag is not cleared. *)
context_saved_KeepFlag(c) ==
  /\ Undisturbed
  /\ cpuPc[c] = "saved"
  /\ cpuPc' = [cpuPc EXCEPT ![c] = "migrate"]
  /\ UNCHANGED <<fpVars, curr, softirq, placeVars, pauseVars, isRunning, runstate,
                 pending, tasklet, saving, senderVars, ctlVars>>

(* context_saved() clears the running flag before it looks at the request. *)
context_saved(c) ==
  /\ Undisturbed
  /\ cpuPc[c] = "saved"
  /\ isRunning' = [isRunning EXCEPT ![saving[c]] = FALSE]
  /\ cpuPc' = [cpuPc EXCEPT ![c] = "migrate"]
  /\ UNCHANGED <<fpVars, curr, softirq, placeVars, pauseVars, runstate, pending,
                 tasklet, saving, senderVars, ctlVars>>

SwitchDone(c) ==
  /\ cpuPc' = [cpuPc EXCEPT ![c] = "guest"]
  /\ saving' = [saving EXCEPT ![c] = Idle]

(* Slip: a migration requested while the vCPU was running is left to the    *)
(* one who requested it.                                                    *)
SavedMigrate_Forget(c) ==
  /\ Undisturbed
  /\ cpuPc[c] = "migrate" /\ SwitchDone(c)
  /\ UNCHANGED <<fpVars, curr, softirq, placeVars, pauseVars, isRunning, runstate, pending,
                 tasklet, senderVars, ctlVars>>

(* ... then it performs a migration requested while the vCPU was running.  *)
SavedMigrate(c) ==
  /\ Undisturbed
  /\ cpuPc[c] = "migrate"
  /\ IF MustMove(saving[c])
     THEN /\ vcpu_move_locked(saving[c])
          /\ cpuPc' = [cpuPc EXCEPT ![c] = "wake"]
          /\ UNCHANGED saving
     ELSE SwitchDone(c) /\ UNCHANGED <<migrating, processor>>
  /\ UNCHANGED <<fpVars, curr, softirq, hardAffinity, blocked, paused, isRunning,
                 runstate, pending, tasklet, senderVars, ctlVars>>

SavedWake(c) ==
  /\ Undisturbed
  /\ cpuPc[c] = "wake"
  /\ vcpu_wake(saving[c])
  /\ SwitchDone(c)
  /\ UNCHANGED <<paramVars, curr, placeVars, pauseVars, isRunning, pending, tasklet,
                 senderVars, ctlVars>>

(* Slip: no reschedule once the tasklets have run. *)
do_tasklet_NoSoftirq(c) ==
  /\ Undisturbed
  /\ cpuPc[c] = "guest" /\ curr[c] = Idle
  /\ tasklet[c] = {"enqueued", "scheduled"}
  /\ tasklet' = [tasklet EXCEPT ![c] = {"scheduled"}]
  /\ UNCHANGED <<fpVars, curr, softirq, placeVars, pauseVars, isRunning, runstate, pending,
                 cpuVars, senderVars, ctlVars>>

(* The idle vCPU runs the enqueued tasklets and asks for a reschedule. *)
do_tasklet(c) ==
  /\ Undisturbed
  /\ cpuPc[c] = "guest" /\ curr[c] = Idle
  /\ tasklet[c] = {"enqueued", "scheduled"}
  /\ tasklet' = [tasklet EXCEPT ![c] = {"scheduled"}]
  /\ cpu_raise_softirq(c)
  /\ UNCHANGED <<fpVars, curr, placeVars, pauseVars, isRunning, runstate, pending,
                 cpuVars, senderVars, ctlVars>>

tasklet_schedule(c) ==
  /\ Undisturbed
  /\ "enqueued" \notin tasklet[c]
  /\ tasklet' = [tasklet EXCEPT ![c] = @ \cup {"enqueued"}]
  /\ cpu_raise_softirq(c)
  /\ UNCHANGED <<fpVars, curr, placeVars, pauseVars, isRunning, runstate, pending,
                 cpuVars, senderVars, ctlVars>>

------------------------------------------------------------------------------
(* The guest running on a pCPU *)

GuestRuns(c) ==
  /\ Undisturbed
  /\ cpuPc[c] = "guest" /\ curr[c] # Idle
  /\ ~blocked[curr[c]]

(* vcpu_block() announces that the vCPU blocks ... *)
vcpu_block(c) ==
  /\ "block" \in GuestOps
  /\ GuestRuns(c)
  /\ blocked' = [blocked EXCEPT ![curr[c]] = TRUE]
  /\ cpuPc' = [cpuPc EXCEPT ![c] = "block"]
  /\ UNCHANGED <<fpVars, curr, softirq, placeVars, migrating, paused, isRunning,
                 runstate, pending, tasklet, saving, senderVars, ctlVars>>

(* Slip: no check for events after announcing that the vCPU blocks. *)
BlockNoCheck(c) ==
  /\ Undisturbed
  /\ cpuPc[c] = "block"
  /\ cpu_raise_softirq(c)
  /\ cpuPc' = [cpuPc EXCEPT ![c] = "guest"]
  /\ UNCHANGED <<fpVars, curr, placeVars, pauseVars, isRunning, runstate, pending,
                 tasklet, saving, senderVars, ctlVars>>

(* ... and only then checks for events. *)
BlockCheck(c) ==
  /\ Undisturbed
  /\ cpuPc[c] = "block"
  /\ IF pending[curr[c]]
     THEN blocked' = [blocked EXCEPT ![curr[c]] = FALSE] /\ UNCHANGED softirq
     ELSE cpu_raise_softirq(c) /\ UNCHANGED blocked
  /\ cpuPc' = [cpuPc EXCEPT ![c] = "guest"]
  /\ UNCHANGED <<fpVars, curr, placeVars, migrating, paused, isRunning, runstate,
                 pending, tasklet, saving, senderVars, ctlVars>>

(* sched_fp.c has no yield callback: only a pass through schedule(). *)
vcpu_yield(c) ==
  /\ "yield" \in GuestOps
  /\ GuestRuns(c)
  /\ ~softirq[c]
  /\ cpu_raise_softirq(c)
  /\ UNCHANGED <<fpVars, curr, placeVars, pauseVars, isRunning, runstate, pending,
                 tasklet, cpuVars, senderVars, ctlVars>>

(* The guest's upcall handler takes its events. *)
TakeEvents(c) ==
  /\ GuestRuns(c)
  /\ pending[curr[c]]
  /\ pending' = [pending EXCEPT ![curr[c]] = FALSE]
  /\ UNCHANGED <<fpVars, curr, softirq, placeVars, pauseVars, isRunning, runstate,
                 tasklet, cpuVars, senderVars, ctlVars>>

------------------------------------------------------------------------------
(* Senders of events *)

SenderDone(s) ==
  /\ senderPc' = [senderPc EXCEPT ![s] = "idle"]
  /\ senderVcpu' = [senderVcpu EXCEPT ![s] = Idle]

(* An event that is already pending is not announced again. *)
vcpu_mark_events_pending(s, v) ==
  /\ Undisturbed
  /\ senderPc[s] = "idle" /\ ~pending[v]
  /\ pending' = [pending EXCEPT ![v] = TRUE]
  /\ senderPc' = [senderPc EXCEPT ![s] = "unblock"]
  /\ senderVcpu' = [senderVcpu EXCEPT ![s] = v]
  /\ UNCHANGED <<fpVars, curr, softirq, placeVars, pauseVars, isRunning, runstate,
                 tasklet, cpuVars, ctlVars>>

vcpu_unblock(s) ==
  LET v == senderVcpu[s]
  IN  /\ Undisturbed
      /\ senderPc[s] = "unblock"
      /\ IF blocked[v]
         THEN /\ blocked' = [blocked EXCEPT ![v] = FALSE]
              /\ senderPc' = [senderPc EXCEPT ![s] = "wake"]
              /\ UNCHANGED senderVcpu
         ELSE SenderDone(s) /\ UNCHANGED blocked
      /\ UNCHANGED <<fpVars, curr, softirq, placeVars, migrating, paused, isRunning,
                     runstate, pending, tasklet, cpuVars, ctlVars>>

UnblockWake(s) ==
  /\ Undisturbed
  /\ senderPc[s] = "wake"
  /\ vcpu_wake(senderVcpu[s])
  /\ SenderDone(s)
  /\ UNCHANGED <<paramVars, curr, placeVars, pauseVars, isRunning, pending, tasklet,
                 cpuVars, ctlVars>>

------------------------------------------------------------------------------
(* The toolstack *)

CtlBegin(pc, v) ==
  /\ ctlPc = "idle" /\ ctlPc' = pc /\ ctlVcpu' = v
  /\ UNCHANGED <<ctlDom, ctlPrio, ctlTodo>>

CtlGoto(pc) == ctlPc' = pc /\ UNCHANGED <<ctlVcpu, ctlDom, ctlPrio, ctlTodo>>

CtlDone ==
  /\ ctlPc' = "idle" /\ ctlVcpu' = Idle /\ ctlDom' = Dom0 /\ ctlPrio' = 0
  /\ ctlTodo' = {}

(* vcpu_pause() waits for the vCPU to leave its pCPU, vcpu_pause_nosync()   *)
(* (domain_shutdown() for one) does not.                                    *)
vcpu_pause(v, pc) ==
  /\ pc \in CtlOps
  /\ ~paused[v]
  /\ paused' = [paused EXCEPT ![v] = TRUE]
  /\ CtlBegin(pc, v)
  /\ UNCHANGED <<fpVars, curr, softirq, placeVars, blocked, migrating, isRunning,
                 runstate, pending, tasklet, cpuVars, senderVars>>

PauseSleep ==
  /\ ctlPc \in {"pause", "pause_nosync"}
  /\ vcpu_sleep_nosync(ctlVcpu)
  /\ IF ctlPc = "pause" THEN CtlGoto("sync") ELSE CtlDone
  /\ UNCHANGED <<paramVars, priority, position, curr, placeVars, pauseVars, isRunning,
                 pending, tasklet, cpuVars, senderVars>>

(* Slip: the pCPU need only have picked another vCPU. *)
vcpu_sleep_sync_Picked ==
  /\ ctlPc = "sync"
  /\ vcpu_runnable(ctlVcpu) \/ curr[processor[ctlVcpu]] # ctlVcpu
  /\ CtlDone
  /\ UNCHANGED <<fpVars, curr, softirq, placeVars, pauseVars, isRunning, runstate,
                 pending, tasklet, cpuVars, senderVars>>

vcpu_sleep_sync ==
  /\ ctlPc = "sync"
  /\ vcpu_runnable(ctlVcpu) \/ ~isRunning[ctlVcpu]
  /\ CtlDone
  /\ UNCHANGED <<fpVars, curr, softirq, placeVars, pauseVars, isRunning, runstate,
                 pending, tasklet, cpuVars, senderVars>>

vcpu_unpause(v) ==
  /\ paused[v]
  /\ paused' = [paused EXCEPT ![v] = FALSE]
  /\ CtlBegin("wake", v)
  /\ UNCHANGED <<fpVars, curr, softirq, placeVars, blocked, migrating, isRunning,
                 runstate, pending, tasklet, cpuVars, senderVars>>

(* No pCPU runs v or is still switching away from it. *)
OffCpu(v) == ~isRunning[v] /\ \A c \in Cpus : saving[c] # v

vcpu_set_hard_affinity(v, mask) ==
  /\ "affinity" \in CtlOps
  /\ MigrateRunning \/ OffCpu(v)
  /\ mask \cap Cpus # {}
  /\ hardAffinity' = [hardAffinity EXCEPT ![v] = mask]
  /\ migrating' = [migrating EXCEPT ![v] = TRUE]
  /\ CtlBegin("affinity", v)
  /\ UNCHANGED <<fpVars, curr, softirq, processor, blocked, paused, isRunning,
                 runstate, pending, tasklet, cpuVars, senderVars>>

(* A reschedule on the spot: the migration path, keeping the affinity; a    *)
(* vCPU that neither runs nor is to be migrated is left alone.              *)
vcpu_force_reschedule(v) ==
  /\ "affinity" \in CtlOps
  /\ isRunning[v] \/ migrating[v]
  /\ migrating' = [migrating EXCEPT ![v] = TRUE]
  /\ CtlBegin("affinity", v)
  /\ UNCHANGED <<fpVars, curr, softirq, placeVars, blocked, paused, isRunning,
                 runstate, pending, tasklet, cpuVars, senderVars>>

(* The flag is tested after the lock is released: the vCPU's pCPU may have  *)
(* migrated it before the test, or between the test and the sleep.          *)
AffinitySleep ==
  /\ ctlPc = "affinity"
  /\ \/ vcpu_sleep_nosync(ctlVcpu) /\ CtlGoto("migrate")
     \/ ~migrating[ctlVcpu] /\ CtlDone /\ UNCHANGED <<runstate, runq, softirq>>
  /\ UNCHANGED <<paramVars, priority, position, curr, placeVars, pauseVars, isRunning,
                 pending, tasklet, cpuVars, senderVars>>


vcpu_migrate ==
  /\ ctlPc = "migrate"
  /\ IF MustMove(ctlVcpu)
     THEN vcpu_move_locked(ctlVcpu) /\ CtlGoto("wake")
     ELSE CtlDone /\ UNCHANGED <<migrating, processor>>
  /\ UNCHANGED <<fpVars, curr, softirq, hardAffinity, blocked, paused, isRunning,
                 runstate, pending, tasklet, cpuVars, senderVars>>

CtlWake ==
  /\ ctlPc = "wake"
  /\ vcpu_wake(ctlVcpu)
  /\ CtlDone
  /\ UNCHANGED <<paramVars, curr, placeVars, pauseVars, isRunning, pending, tasklet,
                 cpuVars, senderVars>>

(* Both adjustments end with fp_sched_set_vm_prio on every domain. *)
SetPriorities(d, prio) ==
  /\ ctlPc = "idle"
  /\ ctlPc' = IF VisitedVcpus = {} THEN "idle" ELSE "unlink"
  /\ ctlDom' = d /\ ctlPrio' = prio /\ ctlTodo' = VisitedVcpus
  /\ priority' = [priority EXCEPT ![Dom0] = VM_DOM0_PRIO]
  /\ UNCHANGED <<position, runq, ctlVcpu, curr, softirq, placeVars, pauseVars,
                 isRunning, runstate, pending, tasklet, cpuVars, senderVars>>

fp_adjust(d, op) ==
  /\ "adjust" \in CtlOps
  /\ WriteParameters(d, op)
  /\ SetPriorities(d, IF op.priority > 0 THEN op.priority ELSE priority[d])
  /\ UNCHANGED strategy

(* fp_adjust_global sets the strategy; getinfo and a rejected strategy set  *)
(* none, but re-sort the queues all the same.                               *)
fp_adjust_global(s) ==
  /\ "strategy" \in CtlOps
  /\ fp_sched_set(s)
  /\ SetPriorities(Dom0, 0)
  /\ UNCHANGED <<period, slice, deadline>>

(* The vCPUs of the adjusted domain come first. *)
AdjustUnlink(v) ==
  LET d == VcpuDomain[v]
  IN  /\ ctlPc = "unlink"
      /\ d = ctlDom \/ \A w \in ctlTodo : VcpuDomain[w] # ctlDom
      /\ ReprioritiseAndUnlink(v, IF d = ctlDom THEN ctlPrio ELSE priority[d])
      /\ ctlPc' = "reinsert" /\ ctlVcpu' = v /\ ctlTodo' = ctlTodo \ {v}
      /\ UNCHANGED <<paramVars, position, ctlDom, ctlPrio, curr, softirq, placeVars,
                     pauseVars, isRunning, runstate, pending, tasklet, cpuVars, senderVars>>

AdjustReinsert ==
  /\ ctlPc = "reinsert"
  /\ Reinsert(ctlVcpu)
  /\ IF ctlTodo = {} THEN CtlDone ELSE CtlGoto("unlink")
  /\ UNCHANGED <<paramVars, priority, curr, placeVars, pauseVars, isRunning, runstate,
                 pending, tasklet, cpuVars, senderVars>>

------------------------------------------------------------------------------

CpuStep(c) ==
  \/ \E hasBudget \in SUBSET Queued(c) : schedule(c, hasBudget)
  \/ context_saved(c) \/ SavedMigrate(c) \/ SavedWake(c)
  \/ do_tasklet(c)

GuestStep(c) == vcpu_block(c) \/ BlockCheck(c) \/ vcpu_yield(c) \/ TakeEvents(c)

SenderStep(s) ==
  \/ \E v \in Vcpus : vcpu_mark_events_pending(s, v)
  \/ vcpu_unblock(s) \/ UnblockWake(s)

CtlStart ==
  \/ \E v \in Vcpus : \/ \E pc \in {"pause", "pause_nosync"} : vcpu_pause(v, pc)
                       \/ vcpu_unpause(v)
                       \/ \E mask \in Affinities : vcpu_set_hard_affinity(v, mask)
                       \/ vcpu_force_reschedule(v)
  \/ \E d \in AdjustDomains, op \in Adjustments : fp_adjust(d, op)
  \/ \E s \in Strategies : fp_adjust_global(s)

CtlStep ==
  \/ PauseSleep \/ vcpu_sleep_sync
  \/ AffinitySleep \/ vcpu_migrate \/ CtlWake
  \/ \E v \in ctlTodo : AdjustUnlink(v)
  \/ AdjustReinsert

Next ==
  \/ \E c \in Cpus : CpuStep(c) \/ GuestStep(c) \/ s_timer_fn(c)
  \/ \E c \in TaskletCpus : tasklet_schedule(c)
  \/ \E s \in Senders : SenderStep(s)
  \/ CtlStart \/ CtlStep

Spec == Init /\ [][Next]_vars

------------------------------------------------------------------------------
(* Properties *)

(* A vCPU is linked into one run queue at most, once, and into that of its  *)
(* own processor: fp_vcpu_wake tests only "on some queue", and a second     *)
(* list_add_tail of a linked element corrupts both lists.                   *)
RunqIntegrity ==
  /\ \A c, d \in Cpus : \A i \in 1 .. Len(runq[c]), j \in 1 .. Len(runq[d]) :
       runq[c][i] = runq[d][j] => c = d /\ i = j
  /\ \A c \in Cpus : \A i \in 1 .. Len(runq[c]) : processor[runq[c][i]] = c

(* pCPU c holds the register context of vCPU v. *)
Holds(c, v) == curr[c] = v \/ (cpuPc[c] = "saved" /\ saving[c] = v)

(* is_running and the "running" runstate tell the truth, and no two pCPUs   *)
(* hold the same vCPU: what schedule() relies on when it switches.          *)
OneHolder ==
  \A v \in Vcpus :
    /\ isRunning[v] <=> \E c \in Cpus : Holds(c, v)
    /\ runstate[v] = "running" <=> \E c \in Cpus : curr[c] = v
    /\ \A c, d \in Cpus : Holds(c, v) /\ Holds(d, v) => c = d

(* The three ASSERTs of schedule(), lines 1459, 1475 and 1483: the vCPU it  *)
(* leaves is in state running, the one it picks neither is nor holds a CPU. *)
SwitchAssertions ==
  [][\A c \in Cpus : curr'[c] # curr[c] =>
       /\ curr[c] # Idle => runstate[curr[c]] = "running"
       /\ curr'[c] # Idle => runstate[curr'[c]] # "running" /\ ~isRunning[curr'[c]]]_vars

(* Somebody has yet to call vcpu_wake(v) or to finish re-inserting v. *)
WakeInFlight(v) ==
  \/ \E s \in Senders : senderPc[s] = "wake" /\ senderVcpu[s] = v
  \/ \E c \in Cpus : cpuPc[c] = "wake" /\ saving[c] = v
  \/ ctlPc \in {"wake", "reinsert"} /\ ctlVcpu = v

(* A runnable vCPU is never lost from the run queues: it is on one, or the  *)
(* wake that will put it there is under way.                                *)
RunnableIsQueued ==
  \A v \in Vcpus : vcpu_runnable(v) => vcpu_on_q(v) \/ WakeInFlight(v)

(* The wakeup-waiting race of vcpu_block(): a vCPU stays blocked with an    *)
(* event pending only while the sender has yet to unblock it or the vCPU    *)
(* itself has yet to check.                                                 *)
NoLostEvent ==
  \A v \in Vcpus : pending[v] /\ blocked[v] =>
    \/ \E s \in Senders : senderPc[s] = "unblock" /\ senderVcpu[s] = v
    \/ \E c \in Cpus : cpuPc[c] = "block" /\ curr[c] = v

(* An operation that will correct v's runstate is under way. *)
SleepInFlight(v) ==
  ctlPc \in {"pause", "pause_nosync", "affinity", "migrate"} /\ ctlVcpu = v

(* The accounting of vcpu_runstate_change(): outside the windows between    *)
(* changing the flags and taking the lock, a vCPU accounted as runnable     *)
(* waits for a CPU, one accounted as blocked waits for an event and one     *)
(* accounted as offline is held back by somebody.                           *)
RunstateAccurate ==
  \A v \in Vcpus :
    \/ WakeInFlight(v) \/ SleepInFlight(v)
    \/ CASE runstate[v] = "runnable" -> vcpu_runnable(v)
         [] runstate[v] = "blocked" -> blocked[v]
         [] runstate[v] = "offline" -> paused[v] \/ migrating[v]
         [] runstate[v] = "running" -> TRUE

(* Who will move v: the requester, which has yet to put it to sleep or to   *)
(* see that it is off its CPU, ...                                          *)
RequesterMoves(v) ==
  ctlVcpu = v /\ (ctlPc = "affinity" \/ (ctlPc = "migrate" /\ ~isRunning[v]))

(* ... or its pCPU, which has been told to reschedule or has switched away  *)
(* from it and has yet to look at the request.                              *)
CpuMoves(v) ==
  \/ \E c \in Cpus : curr[c] = v /\ softirq[c]
  \/ \E c \in Cpus : /\ saving[c] = v
                     /\ cpuPc[c] = "saved" \/ (cpuPc[c] = "migrate" /\ ~isRunning[v])

(* A requested migration always has somebody left to perform it:            *)
(* vcpu_migrate() leaves a running vCPU to context_saved(), which in turn   *)
(* leaves alone one that others have moved; neither may count on the other  *)
(* in vain, for a vCPU with VPF_migrating set never runs again.             *)
MigrationOwned ==
  \A v \in Vcpus : migrating[v] => RequesterMoves(v) \/ CpuMoves(v)

(* vcpu_pause() returns only when no pCPU holds the vCPU's context any      *)
(* more, and none takes it up before it is unpaused: what the callers rely  *)
(* on when they read or write the registers of a paused vCPU.  Stated for a *)
(* toolstack that always waits.                                             *)
PausedOffCpu ==
  "pause_nosync" \notin CtlOps =>
    \A v \in Vcpus : paused[v] /\ ~(ctlPc \in {"pause", "sync"} /\ ctlVcpu = v)
                      => ~isRunning[v]

(* A pCPU with tasklet work is about to look at it or is at it, and one     *)
(* that has done its work is about to let the guests run again: the two     *)
(* bits of tasklet_work_to_do never wait for a timer.                       *)
TaskletsNoticed ==
  \A c \in Cpus :
    /\ "enqueued" \in tasklet[c] => softirq[c] \/ ("scheduled" \in tasklet[c] /\ curr[c] = Idle)
    /\ tasklet[c] = {"scheduled"} => softirq[c]

(* A pCPU runs only vCPUs whose hard affinity allows it. *)
AffinityRespected ==
  \A c \in Cpus : curr[c] # Idle => c \in hardAffinity[curr[c]]

(* Between adjustments the vCPUs of the guests stand in the order the       *)
(* strategy asks for, whatever sequence of switches, parameter changes and  *)
(* wakes has led there.                                                     *)
GuestsSorted ==
  ~Adjusting =>
    \A c \in Cpus : \A i, j \in 1 .. Len(runq[c]) :
      i < j /\ runq[c][i] \in VisitedVcpus /\ runq[c][j] \in VisitedVcpus
        => compare(runq[c][i], runq[c][j])

(* The same of every vCPU, Dom0's included. *)
AllSorted ==
  ~Adjusting =>
    \A c \in Cpus : \A i, j \in 1 .. Len(runq[c]) :
      i < j => compare(runq[c][i], runq[c][j])
=============================================================================
