--------------------------- MODULE SchedTimeProofs ---------------------------
(***************************************************************************)
(* The timed scheduler SchedTime: it is typed and refines Schedule, no     *)
(* vCPU overruns its slice by a tick, every pass through schedule() picks  *)
(* a vCPU that no runnable vCPU of a guest with budget precedes, and no    *)
(* replenishment is late by more than a tick.                              *)
(***************************************************************************)
EXTENDS SchedService, ScheduleProofs

(* A timed step is a step of Schedule, or one that only lets time pass. *)
LEMMA TimedStepIsStep == [TimeNext]_tvars => [Next]_vars
<1>. SUFFICES ASSUME [TimeNext]_tvars PROVE [Next]_vars
  OBVIOUS
<1>1. ASSUME NEW c \in Cpus, TimedCpuStep(c)
      PROVE  Next
  <2>1. CASE TimedSchedule(c)
    <3>1. PICK B : B = HasBudget(c)
      OBVIOUS
    <3>2. schedule(c, B) /\ B \in SUBSET Queued(c)
      BY <2>1, <3>1 DEF TimedSchedule, HasBudget
    <3>3. CpuStep(c)
      BY <3>2 DEF CpuStep
    <3>. QED BY <3>3 DEF Next
  <2>2. CASE TimerFires(c)
    BY <2>2 DEF TimerFires, Next
  <2>3. CASE context_saved(c) \/ SavedMigrate(c) \/ SavedWake(c) \/ do_tasklet(c)
    BY <2>3 DEF CpuStep, Next
  <2>. QED BY <1>1, <2>1, <2>2, <2>3 DEF TimedCpuStep
<1>2. CASE OtherStep
  BY <1>2 DEF OtherStep, Next
<1>3. CASE TimePasses \/ UNCHANGED tvars
  BY <1>3 DEF TimePasses, tvars
<1>. QED BY <1>1, <1>2, <1>3 DEF TimeNext

(* The timed scheduler is a scheduler: whatever Schedule never does with    *)
(* an arbitrary timer and arbitrary budgets, it does not do with these.     *)
THEOREM TimedImplementsSchedule == TimeSpec => Spec
<1>1. TimeInit => Init
  BY DEF TimeInit
<1>. QED BY <1>1, TimedStepIsStep, PTL DEF TimeSpec, Spec

------------------------------------------------------------------------------
(* Types *)

(* The variables of time, apart from those of Schedule. *)
ClocksTyped ==
  /\ cputime \in [Vcpus -> Nat]
  /\ periodLeft \in [Vcpus -> Int] /\ \A v \in Vcpus : periodLeft[v] >= -1
  /\ elapsed \in [Cpus -> 0 .. Tick]

(* Charging and replenishing keep the budgets natural numbers, and a period *)
(* that is over is not counted below -1.                                    *)
LEMMA ClocksStep ==
  ASSUME TypeOK, ClocksTyped, [TimeNext]_tvars
  PROVE  ClocksTyped'
<1>0. Tick \in Nat
  BY TickAssumption DEF TickAssumption
<1>1. ASSUME UNCHANGED timeVars PROVE ClocksTyped'
  BY <1>1 DEF ClocksTyped, timeVars
<1>2. ASSUME NEW c \in Cpus, TimedSchedule(c)
      PROVE  ClocksTyped'
  <2>1. /\ cputime' = [v \in Vcpus |-> IF v \in Replenished(c) THEN 0 ELSE Charged(c)[v]]
        /\ periodLeft' = [v \in Vcpus |-> IF v \in Replenished(c) THEN period[VcpuDomain[v]]
                                                                 ELSE periodLeft[v]]
        /\ elapsed' = [elapsed EXCEPT ![c] = 0]
    BY <1>2 DEF TimedSchedule, update_queue
  <2>2. \A v \in Vcpus : Charged(c)[v] \in Nat
    <3>1. elapsed[c] \in Nat /\ \A v \in Vcpus : cputime[v] \in Nat
      BY <1>0 DEF ClocksTyped
    <3>2. \A v \in Vcpus : Charged(c)[v] = cputime[v] + IF v = curr[c] THEN elapsed[c] ELSE 0
      BY DEF Charged
    <3>. QED BY <3>1, <3>2
  <2>3. \A v \in Vcpus : period[VcpuDomain[v]] \in Nat
    BY ConfigAssumption DEF ConfigAssumption, TypeOK
  <2>4. cputime' \in [Vcpus -> Nat]
    BY <2>1, <2>2
  <2>5. periodLeft' \in [Vcpus -> Int] /\ \A v \in Vcpus : periodLeft'[v] >= -1
    BY <2>1, <2>3 DEF ClocksTyped
  <2>6. elapsed' \in [Cpus -> 0 .. Tick]
    BY <1>0, <2>1 DEF ClocksTyped
  <2>. QED BY <2>4, <2>5, <2>6 DEF ClocksTyped
<1>3. CASE TimePasses
  BY <1>0, <1>3 DEF TimePasses, ClocksTyped
<1>4. ASSUME NEW c \in Cpus, TimedCpuStep(c)
      PROVE  ClocksTyped'
  BY <1>1, <1>2, <1>4 DEF TimedCpuStep, TimerFires
<1>5. CASE OtherStep \/ UNCHANGED tvars
  BY <1>1, <1>5 DEF OtherStep, tvars
<1>. QED BY <1>3, <1>4, <1>5 DEF TimeNext

LEMMA ClocksInit == TimeInit => ClocksTyped
<1>. SUFFICES ASSUME TimeInit PROVE ClocksTyped
  OBVIOUS
<1>0. Tick \in Nat
  BY TickAssumption DEF TickAssumption
<1>1. \A d \in Domains : 0 .. InitPeriod[d] \subseteq Nat
  BY ConfigAssumption DEF ConfigAssumption
<1>2. UNION {0 .. InitPeriod[d] : d \in Domains} \subseteq Nat
  BY <1>1
<1>3. periodLeft \in [Vcpus -> Nat]
  BY <1>2 DEF TimeInit
<1>4. periodLeft \in [Vcpus -> Int] /\ \A v \in Vcpus : periodLeft[v] >= -1
  BY <1>3
<1>. QED BY <1>0, <1>4 DEF TimeInit, ClocksTyped

(* Type correctness, for every toolstack: no budget goes negative and no    *)
(* tick is exceeded.                                                        *)
THEOREM TimeTypeCorrect == TimeSpec => []TimeTypeOK
<1>. DEFINE I == TypeOK /\ ActorsSet /\ ClocksTyped
<1>1. TimeInit => I
  BY TypeInit, ClocksInit DEF TimeInit
<1>2. I /\ [TimeNext]_tvars => I'
  BY TimedStepIsStep, TypeStep, ClocksStep
<1>3. I => TimeTypeOK
  BY DEF TimeTypeOK, ClocksTyped
<1>. QED BY <1>1, <1>2, <1>3, PTL DEF TimeSpec
------------------------------------------------------------------------------
(* The decision of fp_do_schedule() *)

(* fp_do_schedule() yields the first eligible vCPU of the queue; it yields  *)
(* the idle vCPU for a tasklet, or when no vCPU is eligible.                *)
LEMMA DoScheduleFirst ==
  ASSUME TypeOK, NEW c \in Cpus, NEW B, NEW work \in BOOLEAN
  PROVE  LET next == fp_do_schedule(c, B, work)
         IN  \/ /\ next = Idle
                /\ work \/ \A w \in Queued(c) : ~(vcpu_runnable(w) /\ w \in B)
             \/ \E i \in 1 .. Len(runq[c]) :
                  /\ next = runq[c][i] /\ vcpu_runnable(next) /\ next \in B
                  /\ \A j \in 1 .. Len(runq[c]) :
                       vcpu_runnable(runq[c][j]) /\ runq[c][j] \in B => i <= j
<1>. DEFINE q == runq[c]
            eligible == {i \in 1 .. Len(q) : vcpu_runnable(q[i]) /\ q[i] \in B}
            next == fp_do_schedule(c, B, work)
<1>1. q \in Seq(Vcpus) /\ eligible \subseteq Nat
  BY DEF TypeOK
<1>2. next = IF work \/ eligible = {} THEN Idle ELSE q[Min(eligible)]
  BY DEF fp_do_schedule
<1>3. CASE work \/ eligible = {}
  <2>1. next = Idle
    BY <1>2, <1>3
  <2>2. work \/ \A w \in Queued(c) : ~(vcpu_runnable(w) /\ w \in B)
    BY <1>3 DEF Queued
  <2>. HIDE DEF next
  <2>. QED BY <2>1, <2>2 DEF next
<1>4. CASE ~work /\ eligible # {}
  <2>. DEFINE k == Min(eligible)
  <2>1. next = q[k]
    BY <1>2, <1>4
  <2>. HIDE DEF next
  <2>2. k \in eligible /\ \A j \in eligible : k <= j
    <3>. HIDE DEF eligible
    <3>. QED BY <1>1, <1>4, MinIsLeast
  <2>. HIDE DEF k
  <2>3. /\ k \in 1 .. Len(q) /\ vcpu_runnable(q[k]) /\ q[k] \in B
        /\ \A j \in 1 .. Len(q) : vcpu_runnable(q[j]) /\ q[j] \in B => k <= j
    BY <2>2
  <2>. QED BY <2>1, <2>3 DEF next
<1>. QED BY <1>3, <1>4

(* What a timed pass through schedule() does to the current vCPU. *)
LEMMA TimedScheduleCurr ==
  ASSUME TypeOK, NEW c \in Cpus, TimedSchedule(c)
  PROVE  /\ \A d \in Cpus : d # c => curr'[d] = curr[d]
         /\ \/ /\ curr'[c] = Idle
               /\ \/ "enqueued" \in tasklet[c]
                  \/ \A w \in HasBudget(c) : ~vcpu_runnable(w)
            \/ \E i \in 1 .. Len(runq[c]) :
                 /\ curr'[c] = runq[c][i] /\ runq[c][i] \in HasBudget(c)
                 /\ \A j \in 1 .. Len(runq[c]) :
                      vcpu_runnable(runq[c][j]) /\ runq[c][j] \in HasBudget(c) => i <= j
         /\ UNCHANGED <<strategy, priority, period, slice, deadline>>
<1>0. PICK B : B = HasBudget(c)
  OBVIOUS
<1>1. PICK work \in BOOLEAN : work <=> "enqueued" \in tasklet[c]
  <2>1. ("enqueued" \in tasklet[c]) \in BOOLEAN
    OBVIOUS
  <2>. QED BY <2>1
<1>2. work = ("enqueued" \in tasklet[c])
  BY <1>1
<1>3. /\ curr' = [curr EXCEPT ![c] = fp_do_schedule(c, B, "enqueued" \in tasklet[c])]
      /\ UNCHANGED <<strategy, priority, period, slice, deadline>>
  BY <1>0 DEF TimedSchedule, schedule, fpVars
<1>. DEFINE next == fp_do_schedule(c, B, work)
<1>4. \/ next = Idle /\ (work \/ \A w \in Queued(c) : ~(vcpu_runnable(w) /\ w \in B))
      \/ \E i \in 1 .. Len(runq[c]) :
           /\ next = runq[c][i] /\ vcpu_runnable(next) /\ next \in B
           /\ \A j \in 1 .. Len(runq[c]) : vcpu_runnable(runq[c][j]) /\ runq[c][j] \in B => i <= j
  BY DoScheduleFirst
<1>5. curr' = [curr EXCEPT ![c] = next]
  BY <1>2, <1>3
<1>. HIDE DEF next
<1>6. curr'[c] = next /\ \A d \in Cpus : d # c => curr'[d] = curr[d]
  BY <1>5 DEF TypeOK
<1>7. B \subseteq Queued(c)
  BY <1>0 DEF HasBudget
<1>. QED BY <1>0, <1>1, <1>3, <1>4, <1>6, <1>7

------------------------------------------------------------------------------
(* Budgets *)

(* No step but a pass through schedule() charges or switches. *)
LEMMA OnlyScheduleCharges ==
  ASSUME [TimeNext]_tvars
  PROVE  UNCHANGED <<cputime, curr>> \/ \E c \in Cpus : TimedSchedule(c)
<1>1. ASSUME NEW c \in Cpus, TimedCpuStep(c)
      PROVE  UNCHANGED <<cputime, curr>> \/ TimedSchedule(c)
  BY <1>1 DEF TimedCpuStep, TimerFires, timeVars, s_timer_fn, context_saved, SavedMigrate,
              SavedWake, do_tasklet
<1>2. CASE OtherStep
  <2>1. UNCHANGED cputime
    BY <1>2 DEF OtherStep, timeVars
  <2>2. UNCHANGED curr
    BY <1>2 DEF OtherStep, GuestStep, SenderStep, CtlStart, CtlStep, vcpu_block, BlockCheck,
           vcpu_yield, TakeEvents, tasklet_schedule, vcpu_mark_events_pending, vcpu_unblock,
           UnblockWake, vcpu_pause, vcpu_unpause, vcpu_set_hard_affinity, vcpu_force_reschedule,
           fp_adjust, fp_adjust_global, SetPriorities, PauseSleep, vcpu_sleep_sync,
           AffinitySleep, vcpu_migrate, CtlWake, AdjustUnlink, AdjustReinsert
  <2>. QED BY <2>1, <2>2
<1>3. CASE TimePasses \/ UNCHANGED tvars
  BY <1>3 DEF TimePasses, tvars, vars, timeVars
<1>. QED BY <1>1, <1>2, <1>3 DEF TimeNext

(* The vCPU that runs was below its slice when it was picked, and at most   *)
(* a tick has passed since; one that is queued on another pCPU or runs      *)
(* there is not charged.                                                    *)
LEMMA BudgetStep ==
  ASSUME InductiveInv, TypeOK', ClocksTyped, BudgetBound, [TimeNext]_tvars,
         \A d \in Domains : slice'[d] >= slice[d]
  PROVE  BudgetBound'
<1>0. /\ TypeOK /\ HoldersPlaced /\ QueuesPlaced
      /\ Tick \in Nat \ {0} /\ Idle \notin Vcpus
      /\ \A v \in Vcpus : /\ VcpuDomain[v] \in Domains /\ cputime[v] \in Nat
                          /\ slice[VcpuDomain[v]] \in Nat /\ slice'[VcpuDomain[v]] \in Nat
  BY TickAssumption, ConfigAssumption
     DEF InductiveInv, TickAssumption, ConfigAssumption, ClocksTyped, TypeOK
<1>1. CASE UNCHANGED <<cputime, curr>>
  <2>1. \A v \in Vcpus : slice'[VcpuDomain[v]] >= slice[VcpuDomain[v]]
    BY <1>0
  <2>. QED BY <1>0, <1>1, <2>1 DEF BudgetBound
<1>2. ASSUME NEW c \in Cpus, TimedSchedule(c)
      PROVE  BudgetBound'
  <2>1. /\ \A d \in Cpus : d # c => curr'[d] = curr[d]
        /\ curr'[c] = Idle \/ curr'[c] \in HasBudget(c)
        /\ slice' = slice
    BY <1>0, <1>2, TimedScheduleCurr
  <2>2. \A v \in Vcpus : cputime'[v] = IF v \in Replenished(c) THEN 0
                                       ELSE cputime[v] + IF v = curr[c] THEN elapsed[c] ELSE 0
    BY <1>2 DEF TimedSchedule, update_queue, Charged
  <2>3. elapsed[c] \in Nat /\ elapsed[c] <= Tick
    BY <1>0 DEF ClocksTyped
  <2>. SUFFICES ASSUME NEW v \in Vcpus
                PROVE  /\ cputime'[v] < slice[VcpuDomain[v]] + Tick
                       /\ \A d \in Cpus : curr'[d] = v => cputime'[v] < slice[VcpuDomain[v]]
    BY <2>1 DEF BudgetBound
  <2>4. cputime'[v] < slice[VcpuDomain[v]] + Tick
    <3>1. CASE v \in Replenished(c)
      BY <1>0, <2>2, <3>1
    <3>2. CASE v \notin Replenished(c) /\ v = curr[c]
      <4>1. cputime[v] < slice[VcpuDomain[v]]
        BY <3>2 DEF BudgetBound
      <4>. QED BY <1>0, <2>2, <2>3, <3>2, <4>1
    <3>3. CASE v \notin Replenished(c) /\ v # curr[c]
      <4>1. cputime'[v] = cputime[v]
        BY <1>0, <2>2, <3>3
      <4>. QED BY <4>1 DEF BudgetBound
    <3>. QED BY <3>1, <3>2, <3>3
  <2>5. ASSUME NEW d \in Cpus, curr'[d] = v
        PROVE  cputime'[v] < slice[VcpuDomain[v]]
    <3>1. CASE d = c
      BY <1>0, <2>1, <2>5, <3>1 DEF HasBudget
    <3>2. CASE d # c
      <4>1. curr[d] = v /\ processor[v] = d
        BY <1>0, <2>1, <2>5, <3>2, CurrPlaced
      <4>2. v \notin Queued(c)
        BY <1>0, <3>2, <4>1 DEF QueuesPlaced
      <4>3. v # curr[c]
        BY <1>0, <3>2, <4>1, CurrPlaced
      <4>4. cputime'[v] = cputime[v]
        BY <1>0, <2>2, <4>2, <4>3 DEF Replenished
      <4>. QED BY <4>1, <4>4 DEF BudgetBound
    <3>. QED BY <3>1, <3>2
  <2>. QED BY <2>4, <2>5
<1>. QED BY <1>1, <1>2, OnlyScheduleCharges

(* No adjustment shortens a slice: what has been consumed under the longer  *)
(* one could exceed the new one at once.                                    *)
SlicesNotCut == [][\A d \in Domains : slice'[d] >= slice[d]]_tvars

(* While no slice is cut, every vCPU overruns its slice by less than a      *)
(* tick, and the running ones are below theirs at the last look: for every  *)
(* number of pCPUs, vCPUs and senders, every tick and all parameters.       *)
THEOREM BudgetsBounded ==
  ASSUME QuietAdjust, ~MigrateRunning
  PROVE  TimeSpec /\ SlicesNotCut => []BudgetBound
<1>. DEFINE I == InductiveInv /\ ClocksTyped /\ BudgetBound
            A == \A d \in Domains : slice'[d] >= slice[d]
<1>1. TimeInit => I
  <2>. SUFFICES ASSUME TimeInit PROVE I
    OBVIOUS
  <2>1. InductiveInv /\ ClocksTyped
    BY InvInit, ClocksInit DEF TimeInit
  <2>2. BudgetBound
    <3>1. /\ Tick \in Nat \ {0} /\ Idle \notin Vcpus
          /\ \A v \in Vcpus : slice[VcpuDomain[v]] \in Nat
      BY <2>1, TickAssumption, ConfigAssumption
         DEF InductiveInv, TypeOK, TickAssumption, ConfigAssumption
    <3>2. /\ \A v \in Vcpus : cputime[v] = 0
          /\ \A c \in Cpus : curr[c] = Idle
      BY DEF TimeInit, Init
    <3>. QED BY <3>1, <3>2 DEF BudgetBound
  <2>. QED BY <2>1, <2>2
<1>2. I /\ [TimeNext]_tvars /\ [A]_tvars => I'
  <2>. SUFFICES ASSUME I, [TimeNext]_tvars, [A]_tvars PROVE I'
    OBVIOUS
  <2>1. InductiveInv' /\ ClocksTyped'
    BY TimedStepIsStep, InvStep, ClocksStep DEF InductiveInv
  <2>2. \A d \in Domains : slice'[d] >= slice[d]
    <3>1. CASE UNCHANGED tvars
      <4>1. slice' = slice /\ slice \in [Domains -> Nat]
        BY <3>1 DEF tvars, vars, fpVars, InductiveInv, TypeOK
      <4>. QED BY <4>1
    <3>. QED BY <3>1
  <2>3. BudgetBound'
    BY <2>1, <2>2, BudgetStep DEF InductiveInv
  <2>. QED BY <2>1, <2>3
<1>3. TimeSpec /\ [][A]_tvars => []BudgetBound
  BY <1>1, <1>2, PTL DEF TimeSpec
<1>. QED BY <1>3 DEF SlicesNotCut

------------------------------------------------------------------------------
(* The order of dispatch *)

(* DispatchOrder as far as the guests' vCPUs go: Dom0's own, which no       *)
(* adjustment re-sorts, may be passed over, but never in their favour.      *)
GuestDispatchOrder ==
  [][\A c \in Cpus : TimedSchedule(c) /\ "enqueued" \notin tasklet[c] =>
       \A w \in HasBudget(c) \cap VisitedVcpus : vcpu_runnable(w) =>
         curr'[c] # Idle /\ compare(curr'[c], w)]_tvars

(* The first eligible vCPU of an ordered queue precedes the other ones.     *)
LEMMA DispatchStep ==
  ASSUME QuietAdjust, InductiveInv, QueuesOrdered, AdjustedFirst,
         NEW c \in Cpus, TimedSchedule(c), "enqueued" \notin tasklet[c],
         NEW w \in HasBudget(c), w \in VisitedVcpus, vcpu_runnable(w)
  PROVE  curr'[c] # Idle /\ compare(curr'[c], w)
<1>0. TypeOK /\ Idle \notin Vcpus
  BY ConfigAssumption DEF InductiveInv, ConfigAssumption
<1>1. ~Adjusting
  BY DEF TimedSchedule, schedule, Undisturbed
<1>2. w \in Settled
  BY <1>1 DEF AdjustedFirst, Settled
<1>3. PICK i \in 1 .. Len(runq[c]) :
        /\ curr'[c] = runq[c][i]
        /\ \A j \in 1 .. Len(runq[c]) :
             vcpu_runnable(runq[c][j]) /\ runq[c][j] \in HasBudget(c) => i <= j
  BY <1>0, TimedScheduleCurr
<1>4. PICK j \in 1 .. Len(runq[c]) : w = runq[c][j]
  BY DEF HasBudget, Queued
<1>5. i <= j /\ i \in Nat /\ j \in Nat
  BY <1>3, <1>4
<1>6. runq[c][i] \in Vcpus /\ w \in Vcpus
  BY <1>0, <1>4 DEF TypeOK
<1>7. compare(runq[c][i], w)
  <2>1. CASE i = j
    BY <1>0, <1>4, <1>6, <2>1, CompareOrder
  <2>2. CASE i < j
    BY <1>2, <1>4, <2>2 DEF QueuesOrdered
  <2>. QED BY <1>5, <2>1, <2>2
<1>. QED BY <1>0, <1>3, <1>6, <1>7

(* The order invariant carries over to the timed scheduler. *)
LEMMA TimedOrder ==
  ASSUME QuietAdjust, ~MigrateRunning
  PROVE  TimeSpec => [](InductiveInv /\ QueuesOrdered /\ AdjustedFirst)
BY TimedImplementsSchedule, OrderHolds, PTL DEF SortingInv

(* Every pass through schedule() leaves the pCPU with a vCPU that no        *)
(* runnable vCPU of a guest with budget left should precede.                *)
THEOREM GuestsDispatchedInOrder ==
  ASSUME QuietAdjust, ~MigrateRunning
  PROVE  TimeSpec => GuestDispatchOrder
<1>. DEFINE I == InductiveInv /\ QueuesOrdered /\ AdjustedFirst
            A == \A c \in Cpus : TimedSchedule(c) /\ "enqueued" \notin tasklet[c] =>
                   \A w \in HasBudget(c) \cap VisitedVcpus : vcpu_runnable(w) =>
                     curr'[c] # Idle /\ compare(curr'[c], w)
<1>1. I => [A]_tvars
  BY DispatchStep
<1>2. TimeSpec => []I
  BY TimedOrder
<1>3. TimeSpec => [][A]_tvars
  BY <1>1, <1>2, PTL
<1>. QED BY <1>3 DEF GuestDispatchOrder

(* On a pool that does not host Dom0 the guarantee is complete: the three   *)
(* policies are what they are called, for all vCPUs.                        *)
THEOREM DispatchedInOrder ==
  ASSUME QuietAdjust, ~MigrateRunning, Vcpus \subseteq VisitedVcpus
  PROVE  TimeSpec => DispatchOrder
<1>. DEFINE I == InductiveInv /\ QueuesOrdered /\ AdjustedFirst
            A == \A c \in Cpus : TimedSchedule(c) /\ "enqueued" \notin tasklet[c] =>
                   \A w \in HasBudget(c) : vcpu_runnable(w) =>
                     curr'[c] # Idle /\ compare(curr'[c], w)
<1>1. I => [A]_tvars
  <2>1. ASSUME I, NEW c \in Cpus, NEW w \in HasBudget(c)
        PROVE  w \in VisitedVcpus
    BY <2>1 DEF InductiveInv, TypeOK, HasBudget, Queued
  <2>. QED BY <2>1, DispatchStep
<1>2. TimeSpec => []I
  BY TimedOrder
<1>3. TimeSpec => [][A]_tvars
  BY <1>1, <1>2, PTL
<1>. QED BY <1>3 DEF DispatchOrder

------------------------------------------------------------------------------
(* Replenishments *)

(* A vCPU whose replenishment is overdue waits on a queue, and has done so  *)
(* for no longer than its pCPU has not passed through schedule().           *)
Late(v) ==
  /\ overdue[v] \in Nat
  /\ overdue[v] # 0 => /\ periodLeft[v] < 0 /\ vcpu_on_q(v)
                       /\ overdue[v] <= elapsed[processor[v]]

(* No step both changes a queue and moves a vCPU. *)
LEMMA QueueOrPlaceKept ==
  ASSUME [Next]_vars
  PROVE  UNCHANGED runq \/ UNCHANGED processor
<1>. USE DEF fpVars, placeVars
<1>1. ASSUME NEW c \in Cpus, CpuStep(c) \/ GuestStep(c) \/ s_timer_fn(c)
      PROVE  UNCHANGED runq \/ UNCHANGED processor
  BY <1>1 DEF CpuStep, schedule, context_saved, SavedMigrate, SavedWake, do_tasklet, GuestStep,
              vcpu_block, BlockCheck, vcpu_yield, TakeEvents, s_timer_fn
<1>2. ASSUME NEW c \in TaskletCpus, tasklet_schedule(c)
      PROVE  UNCHANGED processor
  BY <1>2 DEF tasklet_schedule
<1>3. ASSUME NEW s \in Senders, SenderStep(s)
      PROVE  UNCHANGED processor
  BY <1>3 DEF SenderStep, vcpu_mark_events_pending, vcpu_unblock, UnblockWake
<1>4. ASSUME CtlStart PROVE UNCHANGED processor
  BY <1>4 DEF CtlStart, vcpu_pause, vcpu_unpause, vcpu_set_hard_affinity, vcpu_force_reschedule,
              fp_adjust, fp_adjust_global, SetPriorities
<1>5. ASSUME CtlStep PROVE UNCHANGED runq \/ UNCHANGED processor
  BY <1>5 DEF CtlStep, PauseSleep, vcpu_sleep_sync, AffinitySleep, vcpu_migrate, CtlWake,
              AdjustUnlink, AdjustReinsert
<1>. QED BY <1>1, <1>2, <1>3, <1>4, <1>5 DEF Next, vars

(* A queued vCPU changes its processor only by leaving the queue. *)
LEMMA QueuedStays ==
  ASSUME InductiveInv, InductiveInv', [Next]_vars, NEW v \in Vcpus, vcpu_on_q(v)
  PROVE  processor'[v] = processor[v]
<1>1. PICK c \in Cpus : v \in Queued(c)
  BY DEF vcpu_on_q
<1>2. processor[v] = c
  BY <1>1 DEF InductiveInv, QueuesPlaced
<1>3. CASE UNCHANGED runq
  <2>1. v \in Queued(c)'
    BY <1>1, <1>3 DEF Queued
  <2>. QED BY <1>2, <2>1 DEF InductiveInv, QueuesPlaced
<1>. QED BY <1>3, QueueOrPlaceKept

(* Time brings the clock of the queue's pCPU forward as well; a pass        *)
(* through schedule() replenishes everybody whose clock it resets.          *)
LEMMA LateStep ==
  ASSUME InductiveInv, InductiveInv', ClocksTyped, NEW v \in Vcpus, Late(v),
         [TimeNext]_tvars, TrackOverdue
  PROVE  Late(v)'
<1>0. /\ Tick \in Nat /\ TypeOK /\ overdue[v] \in Nat
      /\ \A c \in Cpus : elapsed[c] \in Nat
  BY TickAssumption DEF TickAssumption, InductiveInv, ClocksTyped, Late
<1>1. overdue'[v] =
        IF periodLeft'[v] >= 0 \/ ~vcpu_runnable(v)' \/ ~vcpu_on_q(v)' THEN 0
        ELSE IF TimePasses /\ overdue[v] <= Tick THEN overdue[v] + 1 ELSE overdue[v]
  BY DEF TrackOverdue
<1>2. periodLeft'[v] \in Int
  BY ClocksStep, <1>0 DEF ClocksTyped
<1>3. CASE overdue'[v] = 0
  BY <1>3 DEF Late
<1>4. CASE overdue'[v] # 0 /\ TimePasses
  <2>1. elapsed' = [c \in Cpus |-> elapsed[c] + 1] /\ UNCHANGED processor
    BY <1>4 DEF TimePasses, vars, placeVars
  <2>2. processor[v] \in Cpus
    BY <1>0 DEF TypeOK
  <2>3. overdue[v] <= elapsed[processor[v]]
    BY <1>0, <2>2 DEF Late
  <2>. QED BY <1>0, <1>1, <1>2, <1>4, <2>1, <2>2, <2>3 DEF Late
<1>5. CASE overdue'[v] # 0 /\ ~TimePasses
  <2>1. overdue'[v] = overdue[v] /\ periodLeft'[v] < 0 /\ vcpu_on_q(v)'
    BY <1>1, <1>2, <1>5
  <2>2. vcpu_on_q(v) /\ periodLeft[v] < 0 /\ overdue[v] <= elapsed[processor[v]]
    BY <1>5, <2>1 DEF Late
  <2>3. processor'[v] = processor[v] /\ processor[v] \in Cpus
    BY <1>0, <2>2, QueuedStays, TimedStepIsStep DEF TypeOK
  <2>4. elapsed'[processor[v]] = elapsed[processor[v]]
    <3>1. ASSUME NEW c \in Cpus, TimedSchedule(c)
          PROVE  c # processor[v] /\ elapsed' = [elapsed EXCEPT ![c] = 0]
      <4>1. SUFFICES ASSUME c = processor[v] PROVE FALSE
        BY <3>1 DEF TimedSchedule
      <4>2. v \in Queued(c)
        BY <2>2, <4>1 DEF vcpu_on_q, InductiveInv, QueuesPlaced
      <4>3. periodLeft'[v] = period[VcpuDomain[v]]
        BY <2>2, <3>1, <4>2 DEF TimedSchedule, update_queue, Replenished
      <4>4. period[VcpuDomain[v]] \in Nat
        BY <1>0, ConfigAssumption DEF TypeOK, ConfigAssumption
      <4>. QED BY <2>1, <4>3, <4>4
    <3>2. UNCHANGED elapsed \/ \E c \in Cpus : TimedSchedule(c)
      BY <1>5 DEF TimeNext, TimedCpuStep, TimerFires, OtherStep, timeVars, tvars
    <3>. QED BY <2>3, <3>1, <3>2 DEF ClocksTyped
  <2>. QED BY <1>0, <2>1, <2>2, <2>3, <2>4 DEF Late
<1>. QED BY <1>3, <1>4, <1>5

(* Periods drift by a tick at most and no replenishment of a waiting vCPU   *)
(* is missed, for every number of pCPUs and vCPUs, every tick and all       *)
(* parameters: a vCPU's pCPU passes through schedule() within a tick.       *)
THEOREM ReplenishedWithinTick ==
  ASSUME QuietAdjust, ~MigrateRunning
  PROVE  ServiceSpec => []ReplenishedInTime
<1>. DEFINE I == InductiveInv /\ ClocksTyped /\ \A v \in Vcpus : Late(v)
<1>1. ServiceInit => I
  <2>1. ServiceInit => InductiveInv /\ ClocksTyped
    BY InvInit, ClocksInit DEF ServiceInit, TimeInit
  <2>2. ServiceInit => \A v \in Vcpus : Late(v)
    BY DEF ServiceInit, Late
  <2>. QED BY <2>1, <2>2
<1>2. I /\ [ServiceNext]_svars => I'
  <2>. SUFFICES ASSUME I, [ServiceNext]_svars PROVE I'
    OBVIOUS
  <2>1. [TimeNext]_tvars
    BY DEF ServiceNext, svars
  <2>2. InductiveInv' /\ ClocksTyped'
    BY <2>1, TimedStepIsStep, InvStep, ClocksStep DEF InductiveInv
  <2>3. CASE UNCHANGED svars
    <3>1. UNCHANGED tvars /\ UNCHANGED overdue
      BY <2>3 DEF svars
    <3>2. UNCHANGED <<runq, processor, periodLeft, elapsed>>
      BY <3>1 DEF tvars, vars, fpVars, placeVars, timeVars
    <3>3. ASSUME NEW v \in Vcpus PROVE Late(v)'
      <4>1. Late(v)
        OBVIOUS
      <4>2. vcpu_on_q(v)' <=> vcpu_on_q(v)
        BY <3>2 DEF vcpu_on_q, Queued
      <4>. QED BY <3>1, <3>2, <4>1, <4>2 DEF Late
    <3>. QED BY <2>2, <3>3
  <2>4. CASE ServiceNext
    BY <2>1, <2>2, <2>4, LateStep DEF ServiceNext
  <2>5. \A v \in Vcpus : Late(v)'
    BY <2>3, <2>4
  <2>. QED BY <2>2, <2>5
<1>3. I => ReplenishedInTime
  <2>. SUFFICES ASSUME I, NEW v \in Vcpus PROVE overdue[v] <= Tick
    BY DEF ReplenishedInTime
  <2>1. processor[v] \in Cpus
    BY DEF InductiveInv, TypeOK
  <2>. QED BY <2>1, TickAssumption DEF Late, ClocksTyped, TickAssumption
<1>. QED BY <1>1, <1>2, <1>3, PTL DEF ServiceSpec
=============================================================================
