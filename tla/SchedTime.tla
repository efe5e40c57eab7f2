------------------------------ MODULE SchedTime ------------------------------
(***************************************************************************)
(* Schedule with time: the accounting of fp_do_schedule(), the             *)
(* replenishment of update_queue() and the timer of schedule().            *)
(*                                                                         *)
(* Times are kept relative to now, so that a behaviour may run for ever in *)
(* a finite state space.  last_time_scheduled of the running vCPU is the   *)
(* time of its pCPU's last pass through schedule(), hence                  *)
(*   elapsed[c]    = now - last_time_scheduled of curr[c],                 *)
(*   periodLeft[v] = period_next - now, or -1 once period_next has passed. *)
(***************************************************************************)
EXTENDS Schedule

CONSTANT Tick     \* ret.time of fp_do_schedule(), 100us

ASSUME TickAssumption == Tick \in Nat \ {0}

VARIABLES
  cputime,        \* fpv->cputime, consumed since the last replenishment
  periodLeft,
  elapsed

timeVars == <<cputime, periodLeft, elapsed>>
tvars == <<vars, timeVars>>

TimeTypeOK ==
  /\ TypeOK
  /\ cputime \in [Vcpus -> Nat]
  /\ periodLeft \in [Vcpus -> Int] /\ \A v \in Vcpus : periodLeft[v] >= -1
  /\ elapsed \in [Cpus -> 0 .. Tick]

(* Domains are built at different times, so their periods are not aligned. *)
TimeInit ==
  /\ Init
  /\ cputime = [v \in Vcpus |-> 0]
  /\ periodLeft \in [Vcpus -> UNION {0 .. InitPeriod[d] : d \in Domains}]
  /\ \A v \in Vcpus : periodLeft[v] <= InitPeriod[VcpuDomain[v]]
  /\ elapsed = [c \in Cpus |-> 0]

------------------------------------------------------------------------------

(* Slip: the operands of now - last_time_scheduled swapped. *)
ChargedSwapped(c) ==
  [v \in Vcpus |-> cputime[v] - IF v = curr[c] THEN elapsed[c] ELSE 0]

(* fp_do_schedule charges the running vCPU ... *)
Charged(c) ==
  [v \in Vcpus |-> cputime[v] + IF v = curr[c] THEN elapsed[c] ELSE 0]

(* Slip: the vCPU that was running is left out. *)
Replenished_NotCurr(c) == {v \in Queued(c) : periodLeft[v] < 0 /\ v # curr[c]}

(* ... and then update_queue replenishes the queued vCPUs whose period is   *)
(* over, however long ago that was.                                         *)
Replenished(c) == {v \in Queued(c) : periodLeft[v] < 0}

(* Slip: period_next is not moved on. *)
update_queue_NoReset(c) ==
  /\ cputime' = [v \in Vcpus |-> IF v \in Replenished(c) THEN 0 ELSE Charged(c)[v]]
  /\ UNCHANGED periodLeft

update_queue(c) ==
  /\ cputime' = [v \in Vcpus |-> IF v \in Replenished(c) THEN 0 ELSE Charged(c)[v]]
  /\ periodLeft' = [v \in Vcpus |-> IF v \in Replenished(c) THEN period[VcpuDomain[v]]
                                                           ELSE periodLeft[v]]

(* Slip: <= for <. *)
HasBudgetInclusive(c) == {v \in Queued(c) : cputime'[v] <= slice[VcpuDomain[v]]}

(* Slip: a vCPU must have a whole tick of budget left. *)
HasBudgetTick(c) == {v \in Queued(c) : cputime'[v] + Tick <= slice[VcpuDomain[v]]}

HasBudget(c) == {v \in Queued(c) : cputime'[v] < slice[VcpuDomain[v]]}

TimedSchedule(c) ==
  /\ update_queue(c)
  /\ schedule(c, HasBudget(c))
  /\ elapsed' = [elapsed EXCEPT ![c] = 0]

(* set_timer(&sd->s_timer, now + next_slice.time) *)
TimerFires(c) ==
  /\ elapsed[c] = Tick
  /\ s_timer_fn(c)
  /\ UNCHANGED timeVars

(* One unit of time.  Softirqs, context switches and expired timers are     *)
(* dealt with in less than a unit.                                          *)
TimePasses ==
  /\ Undisturbed
  /\ \A c \in Cpus : ~softirq[c] /\ cpuPc[c] = "guest" /\ elapsed[c] < Tick
  /\ elapsed' = [c \in Cpus |-> elapsed[c] + 1]
  /\ periodLeft' = [v \in Vcpus |-> IF periodLeft[v] < 0 THEN -1 ELSE periodLeft[v] - 1]
  /\ UNCHANGED <<vars, cputime>>

TimedCpuStep(c) ==
  \/ TimedSchedule(c)
  \/ TimerFires(c)
  \/ (context_saved(c) \/ SavedMigrate(c) \/ SavedWake(c) \/ do_tasklet(c))
       /\ UNCHANGED timeVars

OtherStep ==
  /\ \/ \E c \in Cpus : GuestStep(c)
     \/ \E c \in TaskletCpus : tasklet_schedule(c)
     \/ \E s \in Senders : SenderStep(s)
     \/ CtlStart \/ CtlStep
  /\ UNCHANGED timeVars

TimeNext == (\E c \in Cpus : TimedCpuStep(c)) \/ OtherStep \/ TimePasses

(* Every exit to the guest handles the pending softirqs first, so a pCPU    *)
(* that keeps making hypercalls still gets to schedule(); timers expire,    *)
(* senders and the toolstack finish what they began, and time does not      *)
(* stop.  Guests owe nothing.                                               *)
TimeFairness ==
  /\ \A c \in Cpus : SF_tvars(TimedCpuStep(c))
  /\ \A c \in Cpus : WF_tvars(BlockCheck(c) /\ UNCHANGED timeVars)
  /\ \A s \in Senders : WF_tvars((vcpu_unblock(s) \/ UnblockWake(s)) /\ UNCHANGED timeVars)
  /\ WF_tvars(CtlStep /\ UNCHANGED timeVars)
  /\ SF_tvars(TimePasses)

TimeSpec == TimeInit /\ [][TimeNext]_tvars
FairTimeSpec == TimeSpec /\ TimeFairness

------------------------------------------------------------------------------
(* Properties *)

(* A vCPU overruns its slice by less than one tick: do_schedule looks at    *)
(* the budget once a tick.                                                  *)
BudgetBound ==
  \A v \in Vcpus :
    /\ cputime[v] < slice[VcpuDomain[v]] + Tick
    /\ \A c \in Cpus : curr[c] = v => cputime[v] < slice[VcpuDomain[v]]

(* Every pass through schedule() leaves the pCPU with a vCPU that no other  *)
(* queued, runnable vCPU with budget should precede, and idle only if there *)
(* is none (or a tasklet to run): the guarantee of the three policies.      *)
DispatchOrder ==
  [][\A c \in Cpus : TimedSchedule(c) /\ "enqueued" \notin tasklet[c] =>
       \A w \in HasBudget(c) : vcpu_runnable(w) =>
         curr'[c] # Idle /\ compare(curr'[c], w)]_tvars

(* A vCPU that stays runnable is run again and again. *)
RunnableRuns ==
  \A v \in Vcpus :
    []<>(vcpu_runnable(v) => \E c \in Cpus : curr[c] = v)

(* vcpu_pause() returns: the vCPU it waits for leaves its pCPU. *)
PauseCompletes == ctlPc = "sync" ~> ctlPc = "idle"

(* A requested migration is performed in the end, by the requester or by    *)
(* the vCPU's own pCPU, also when the vCPU is paused meanwhile.             *)
MigrationCompletes == \A v \in Vcpus : migrating[v] ~> ~migrating[v]

(* An event gets a blocked vCPU going. *)
EventsUnblock == \A v \in Vcpus : pending[v] ~> ~blocked[v]
=============================================================================
