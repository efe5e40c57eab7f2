------------------------------ MODULE SchedFp ------------------------------
(***************************************************************************)
(* The fixed-priority scheduler of CPS-Xen, xen/common/sched_fp.c: the     *)
(* callbacks that the scheduler core (module Schedule) invokes while it    *)
(* holds the schedule lock, and the steps of the two control operations    *)
(* fp_adjust and fp_adjust_global, which hold no lock.                     *)
(*                                                                         *)
(* Every pCPU has a run queue kept sorted by the current strategy (rate    *)
(* monotonic, deadline monotonic, fixed priority).  The running vCPU stays *)
(* on its run queue.                                                       *)
(*                                                                         *)
(* struct fp_dom and the struct fp_vcpu of each of the domain's vCPUs hold *)
(* the same priority, period, slice and deadline at all times: they are    *)
(* allocated equal (fp_alloc_vdata) and every writer writes both, so the   *)
(* model keeps one copy per domain.                                        *)
(***************************************************************************)
EXTENDS Integers, Sequences, SequencesExt, FiniteSets, FiniteSetsExt

CONSTANTS
  Cpus,           \* pCPUs of the cpupool, numbered as in cpumask_t
  Vcpus,          \* vCPUs of all domains but the idle domain
  Domains,        \* domain identifiers
  Dom0,           \* the control domain, which the scheduler treats specially
  VcpuDomain,     \* v->domain
  Idle,           \* stands for idle_vcpu[cpu] on every pCPU
  Strategies,     \* the strategies the toolstack switches between
  InitStrategy,
  InitPeriod,     \* domain parameters once the domain has been built
  InitSlice,
  InitPriority    \* priorities of the domains other than Dom0

VM_DOM0_PRIO == 1000

(* Finiteness and typing of the configuration.  Idle is not a vCPU of any  *)
(* guest; CPUs are numbers because cpumask_cycle() orders them.            *)
ASSUME ConfigAssumption ==
  /\ Cpus \subseteq Nat /\ Cpus # {}
  /\ IsFiniteSet(Vcpus) /\ Idle \notin Vcpus
  /\ Dom0 \in Domains
  /\ VcpuDomain \in [Vcpus -> Domains]
  /\ Strategies \subseteq {"RM", "DM", "FP"}
  /\ InitStrategy \in Strategies
  /\ InitPeriod \in [Domains -> Nat]
  /\ InitSlice \in [Domains -> Nat]
  /\ InitPriority \in [Domains -> Int]

VARIABLES
  strategy,       \* prv->strategy, which selects compare and prio_handler
  priority,       \* fp_dom->priority = fp_vcpu->priority
  period,
  slice,
  deadline,
  position,       \* fp_vcpu->position, the index at the queue's last insertion
  runq,           \* RUNQ(cpu)
  \* State of the scheduler core that the callbacks read or write:
  curr,           \* per_cpu(schedule_data, cpu).curr
  softirq,        \* SCHEDULE_SOFTIRQ is pending on the pCPU
  processor,      \* v->processor
  hardAffinity,   \* v->cpu_hard_affinity
  blocked,        \* VPF_blocked in v->pause_flags
  migrating,      \* VPF_migrating in v->pause_flags
  paused          \* v->pause_count + v->domain->pause_count is not zero

fpVars == <<strategy, priority, period, slice, deadline, position, runq>>

(* Slip: a vCPU on its way to another pCPU counts as runnable. *)
vcpu_runnable_Migrating(v) == ~blocked[v] /\ ~paused[v]

vcpu_runnable(v) == ~blocked[v] /\ ~migrating[v] /\ ~paused[v]

------------------------------------------------------------------------------
(* Run queue operations *)

Queued(c) == {runq[c][i] : i \in 1 .. Len(runq[c])}

vcpu_on_q(v) == \E c \in Cpus : v \in Queued(c)

(* Goes v in front of w?  Ties are won by the vCPU being inserted. *)
compare(v, w) ==
  LET d == VcpuDomain[v]
      e == VcpuDomain[w]
  IN  CASE strategy = "RM" -> period[d] <= period[e]
        [] strategy = "DM" -> deadline[d] <= deadline[e]
        [] strategy = "FP" -> priority[d] >= priority[e]

(* Slip: the arguments of compare swapped. *)
InsertionPointSwapped(q, v) ==
  Min({i \in 1 .. Len(q) + 1 : i = Len(q) + 1 \/ compare(q[i], v)})

(* The iterator at which the scan of __runq_insert stops. *)
InsertionPoint(q, v) ==
  Min({i \in 1 .. Len(q) + 1 : i = Len(q) + 1 \/ compare(v, q[i])})

InsertInto(q, v) == InsertAt(q, InsertionPoint(q, v), v)

(* Inserting renumbers the whole queue; removing renumbers nothing. *)
Renumbered(q) ==
  [w \in Vcpus |-> IF \E i \in 1 .. Len(q) : q[i] = w
                   THEN (CHOOSE i \in 1 .. Len(q) : q[i] = w) - 1
                   ELSE position[w]]

runq_insert(c, v) ==
  /\ runq' = [runq EXCEPT ![c] = InsertInto(@, v)]
  /\ position' = Renumbered(runq'[c])

(* list_del_init() unlinks the vCPU from whichever queue it is on. *)
Without(q, v) ==
  IF \E i \in 1 .. Len(q) : q[i] = v
  THEN RemoveAt(q, CHOOSE i \in 1 .. Len(q) : q[i] = v)
  ELSE q

remove_from_queue(v) == runq' = [c \in Cpus |-> Without(runq[c], v)]

(* The domain's new priority.  FP takes the requested one; RM and DM derive *)
(* it from the mean queue position of the domain's vCPUs.                   *)
PrioHandler(d, prio, pos) ==
  LET vs == {v \in Vcpus : VcpuDomain[v] = d}
  IN  CASE strategy = "FP" -> prio
        [] strategy # "FP" /\ d = Dom0 -> VM_DOM0_PRIO
        [] strategy # "FP" /\ d # Dom0 ->
             VM_DOM0_PRIO - MapThenSumSet(LAMBDA v : pos[v], vs) \div Cardinality(vs) - 1

------------------------------------------------------------------------------
(* Callbacks, run under the schedule lock *)

cpu_raise_softirq(c) == softirq' = [softirq EXCEPT ![c] = TRUE]

(* Slip: a running vCPU is unlinked like any other. *)
fp_sleep_Unlink(v) == remove_from_queue(v) /\ cpu_raise_softirq(processor[v])

(* A running vCPU is left on the queue: schedule() will pass over it. *)
fp_sleep(v) ==
  IF curr[processor[v]] = v
  THEN cpu_raise_softirq(processor[v]) /\ UNCHANGED runq
  ELSE remove_from_queue(v) /\ UNCHANGED softirq

(* Slip: no test whether the vCPU is already on a queue. *)
fp_vcpu_wake_NoTest(v) ==
  IF curr[processor[v]] = v
  THEN UNCHANGED <<runq, position, priority, softirq>>
  ELSE /\ runq_insert(processor[v], v)
       /\ UNCHANGED priority
       /\ cpu_raise_softirq(processor[v])

fp_vcpu_wake(v) ==
  IF curr[processor[v]] = v \/ vcpu_on_q(v)
  THEN UNCHANGED <<runq, position, priority, softirq>>
  ELSE /\ runq_insert(processor[v], v)
       /\ LET d == VcpuDomain[v]
          IN  priority' = [priority EXCEPT ![d] = PrioHandler(d, @, position')]
       /\ cpu_raise_softirq(processor[v])

(* Slip: cpumask_next() for cpumask_cycle(), which does not wrap around. *)
cpumask_next(n, mask) == n + 1

(* cpumask_cycle(): the next set bit after n, wrapping around. *)
cpumask_cycle(n, mask) ==
  LET above == {c \in mask : c > n}
  IN  IF above # {} THEN Min(above) ELSE Min(mask)

(* Slip: the affinity mask is not consulted. *)
fp_pick_cpu_Stay(v) == processor[v]

fp_pick_cpu(v) ==
  LET allowed == Cpus \cap hardAffinity[v]
  IN  IF processor[v] \in allowed THEN processor[v]
                                  ELSE cpumask_cycle(processor[v], allowed)

(* Slip: the scan goes on after the first eligible vCPU. *)
fp_do_schedule_NoBreak(c, hasBudget, taskletWork) ==
  LET q == runq[c]
      eligible == {i \in 1 .. Len(q) : vcpu_runnable(q[i]) /\ q[i] \in hasBudget}
  IN  IF taskletWork \/ eligible = {} THEN Idle ELSE q[Max(eligible)]

(* The decision of fp_do_schedule.  hasBudget is the set of vCPUs with      *)
(* cputime < slice, which module SchedTime computes from the accounting.    *)
fp_do_schedule(c, hasBudget, taskletWork) ==
  LET q == runq[c]
      eligible == {i \in 1 .. Len(q) : vcpu_runnable(q[i]) /\ q[i] \in hasBudget}
  IN  IF taskletWork \/ eligible = {} THEN Idle ELSE q[Min(eligible)]

------------------------------------------------------------------------------
(* Steps of fp_adjust and fp_adjust_global, run without the lock *)

(* fp_adjust writes the parameters given (0: not given).  Under RM a new    *)
(* period is also the new deadline.                                         *)
WriteParameters(d, op) ==
  LET deadline1 == IF op.period > 0 /\ strategy = "RM"
                   THEN [deadline EXCEPT ![d] = op.period] ELSE deadline
  IN  /\ period' = IF op.period > 0 THEN [period EXCEPT ![d] = op.period] ELSE period
      /\ slice' = IF op.slice > 0 THEN [slice EXCEPT ![d] = op.slice] ELSE slice
      /\ deadline' = IF op.deadline > 0 THEN [deadline1 EXCEPT ![d] = op.deadline]
                                        ELSE deadline1

(* A strategy is its compare function and its priority handler. *)
fp_sched_set(s) == strategy' = s

(* fp_sched_set_vm_prio visits no vCPU of Dom0, only its priority is reset. *)
VisitedVcpus == {v \in Vcpus : VcpuDomain[v] # Dom0}

(* Slip: the vCPU is not unlinked before it is inserted again. *)
ReprioritiseOnly(v, prio) ==
  LET d == VcpuDomain[v]
  IN  /\ priority' = [priority EXCEPT ![d] = PrioHandler(d, prio, position)]
      /\ UNCHANGED runq

(* fp_sched_set_vm_prio for one vCPU: first the priority handler and the    *)
(* unlinking half of fp_reinsertsort_vcpu ...                               *)
ReprioritiseAndUnlink(v, prio) ==
  LET d == VcpuDomain[v]
  IN  /\ priority' = [priority EXCEPT ![d] = PrioHandler(d, prio, position)]
      /\ remove_from_queue(v)

(* ... then the insertion, runnable or not, on v->processor's queue.        *)
Reinsert(v) ==
  /\ runq_insert(processor[v], v)
  /\ cpu_raise_softirq(processor[v])

FpInit ==
  /\ strategy = InitStrategy
  /\ priority = [d \in Domains |-> IF d = Dom0 THEN VM_DOM0_PRIO ELSE InitPriority[d]]
  /\ period = InitPeriod
  /\ slice = InitSlice
  /\ deadline = InitPeriod
  /\ position = [v \in Vcpus |-> 0]
  /\ runq = [c \in Cpus |-> <<>>]
=============================================================================
