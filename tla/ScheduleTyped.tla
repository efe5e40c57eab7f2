--------------------------- MODULE ScheduleTyped ---------------------------
(***************************************************************************)
(* Type correctness of Schedule, and the wakeup-waiting race of            *)
(* vcpu_block(), for every configuration and every toolstack: neither      *)
(* QuietAdjust nor MigrateRunning is assumed to have either value.         *)
(***************************************************************************)
EXTENDS RunqLemmas

(* Initially every variable is typed and no actor is at work.              *)
LEMMA TypeInit == Init => TypeOK /\ ActorsSet
<1>. SUFFICES ASSUME Init PROVE TypeOK /\ ActorsSet
  OBVIOUS
<1>1. TypeOK
  <2>1. /\ strategy \in Strategies /\ priority \in [Domains -> Int]
        /\ period \in [Domains -> Nat] /\ slice \in [Domains -> Nat]
        /\ deadline \in [Domains -> Nat] /\ position \in [Vcpus -> Nat]
    BY ConfigAssumption DEF Init, FpInit, ConfigAssumption, VM_DOM0_PRIO
  <2>2. runq \in [Cpus -> Seq(Vcpus)]
    BY DEF Init, FpInit
  <2>3. hardAffinity \in [Vcpus -> (SUBSET Cpus) \ {{}}]
    BY ConfigAssumption DEF Init, ConfigAssumption
  <2>4. tasklet \in [Cpus -> SUBSET {"enqueued", "scheduled"}]
    BY DEF Init
  <2>5. /\ curr \in [Cpus -> Vcpus \cup {Idle}] /\ softirq \in [Cpus -> BOOLEAN]
        /\ processor \in [Vcpus -> Cpus] /\ blocked \in [Vcpus -> BOOLEAN]
        /\ migrating \in [Vcpus -> BOOLEAN] /\ paused \in [Vcpus -> BOOLEAN]
        /\ isRunning \in [Vcpus -> BOOLEAN] /\ runstate \in [Vcpus -> RunStates]
        /\ pending \in [Vcpus -> BOOLEAN]
    BY DEF Init, RunStates
  <2>6. /\ cpuPc \in [Cpus -> CpuPcs] /\ saving \in [Cpus -> Vcpus \cup {Idle}]
        /\ senderPc \in [Senders -> SenderPcs] /\ senderVcpu \in [Senders -> Vcpus \cup {Idle}]
        /\ ctlPc \in CtlPcs /\ ctlVcpu \in Vcpus \cup {Idle} /\ ctlDom \in Domains
        /\ ctlPrio \in Int /\ ctlTodo \in SUBSET Vcpus
    BY ConfigAssumption DEF Init, CpuPcs, SenderPcs, CtlPcs, ConfigAssumption
  <2>. QED BY <2>1, <2>2, <2>3, <2>4, <2>5, <2>6 DEF TypeOK
<1>2. ActorsSet
  BY DEF Init, ActorsSet
<1>. QED BY <1>1, <1>2

(* Every step of a pCPU, a guest, a sender and the toolstack keeps the      *)
(* variables typed, and set while the actor that works on them is at work.  *)
LEMMA TypeStep ==
  ASSUME TypeOK, ActorsSet, [Next]_vars
  PROVE  TypeOK' /\ ActorsSet'
<1>. USE DEF fpVars, pauseVars, placeVars, paramVars, senderVars, ctlVars, cpuVars,
             RunStates, CpuPcs, SenderPcs, CtlPcs
<1>0. Idle \notin Vcpus /\ Dom0 \in Domains
  BY ConfigAssumption DEF ConfigAssumption
<1>1. ASSUME NEW c \in Cpus, NEW hasBudget, schedule(c, hasBudget)
      PROVE  TypeOK' /\ ActorsSet'
  <2>. DEFINE next == fp_do_schedule(c, hasBudget, "enqueued" \in tasklet[c])
  <2>1. next \in Vcpus \cup {Idle}
    <3>1. ("enqueued" \in tasklet[c]) \in BOOLEAN
      OBVIOUS
    <3>. QED BY <3>1, DoSchedule, Zenon
  <2>. HIDE DEF next
  <2>2. TypeOK'
    <3>1. curr' \in [Cpus -> Vcpus \cup {Idle}] /\ softirq' \in [Cpus -> BOOLEAN]
      BY <1>1, <2>1 DEF TypeOK, schedule, next
    <3>2. tasklet' \in [Cpus -> SUBSET {"enqueued", "scheduled"}]
      BY <1>1 DEF TypeOK, schedule
    <3>3. /\ runstate' \in [Vcpus -> RunStates] /\ isRunning' \in [Vcpus -> BOOLEAN]
          /\ cpuPc' \in [Cpus -> CpuPcs] /\ saving' \in [Cpus -> Vcpus \cup {Idle}]
      <4>1. CASE curr[c] = next
        <5>1. UNCHANGED <<runstate, isRunning, cpuPc, saving>>
          BY <1>1, <4>1 DEF schedule, next
        <5>. QED BY <5>1 DEF TypeOK
      <4>2. CASE curr[c] # next
        <5>1. runstate' = [v \in Vcpus |-> CASE v = next -> "running"
                                              [] v = curr[c] -> StateAfter(v)
                                              [] OTHER -> runstate[v]]
          BY <1>1, <4>2 DEF schedule, next
        <5>2. isRunning' = [v \in Vcpus |-> v = next \/ isRunning[v]]
          BY <1>1, <4>2 DEF schedule, next
        <5>3. /\ cpuPc' = [cpuPc EXCEPT ![c] = IF curr[c] = Idle THEN "guest" ELSE "saved"]
              /\ saving' = [saving EXCEPT ![c] = curr[c]]
          BY <1>1, <4>2 DEF schedule, next
        <5>4. \A v \in Vcpus : StateAfter(v) \in RunStates
          BY DEF StateAfter
        <5>5. runstate' \in [Vcpus -> RunStates]
          BY <4>2, <5>1, <5>4 DEF TypeOK
        <5>6. isRunning' \in [Vcpus -> BOOLEAN]
          BY <5>2
        <5>7. cpuPc' \in [Cpus -> CpuPcs] /\ saving' \in [Cpus -> Vcpus \cup {Idle}]
          BY <5>3 DEF TypeOK
        <5>. QED BY <5>5, <5>6, <5>7
      <4>. QED BY <4>1, <4>2
    <3>4. UNCHANGED <<fpVars, placeVars, pauseVars, pending, senderVars, ctlVars>>
      BY <1>1 DEF schedule
    <3>. QED BY <3>1, <3>2, <3>3, <3>4 DEF TypeOK
  <2>3. ActorsSet'
    BY <1>1, <2>1, SMTT(30) DEF TypeOK, ActorsSet, schedule, next
  <2>. QED BY <2>2, <2>3
<1>2. ASSUME NEW c \in Cpus, context_saved(c)
      PROVE  TypeOK' /\ ActorsSet'
  BY <1>2 DEF TypeOK, ActorsSet, context_saved
<1>3. ASSUME NEW c \in Cpus, SavedMigrate(c)
      PROVE  TypeOK' /\ ActorsSet'
  <2>1. saving[c] \in Vcpus
    BY <1>3 DEF TypeOK, ActorsSet, SavedMigrate
  <2>2. fp_pick_cpu(saving[c]) \in Cpus
    BY <2>1, PickCpu
  <2>3. CASE MustMove(saving[c])
    <3>1. /\ cpuPc[c] = "migrate"
          /\ vcpu_move_locked(saving[c])
          /\ cpuPc' = [cpuPc EXCEPT ![c] = "wake"]
          /\ UNCHANGED saving
      BY <1>3, <2>3 DEF SavedMigrate
    <3>2. migrating' \in [Vcpus -> BOOLEAN] /\ processor' \in [Vcpus -> Cpus]
      BY <2>2, <3>1 DEF TypeOK, vcpu_move_locked
    <3>. QED BY <1>3, <3>1, <3>2 DEF TypeOK, ActorsSet, SavedMigrate
  <2>4. CASE ~MustMove(saving[c])
    <3>1. SwitchDone(c) /\ UNCHANGED <<migrating, processor>>
      BY <1>3, <2>4 DEF SavedMigrate
    <3>. QED BY <1>3, <3>1 DEF TypeOK, ActorsSet, SavedMigrate, SwitchDone
  <2>. QED BY <2>3, <2>4
<1>4. ASSUME NEW c \in Cpus, SavedWake(c)
      PROVE  TypeOK' /\ ActorsSet'
  <2>1. saving[c] \in Vcpus /\ vcpu_wake(saving[c])
    BY <1>4 DEF TypeOK, ActorsSet, SavedWake
  <2>2. /\ runq' \in [Cpus -> Seq(Vcpus)]
        /\ position' \in [Vcpus -> Nat]
        /\ priority' \in [Domains -> Int]
        /\ softirq' \in [Cpus -> BOOLEAN]
        /\ runstate' \in [Vcpus -> RunStates]
    BY <2>1, WakeQueues
  <2>. QED BY <1>4, <2>2 DEF TypeOK, ActorsSet, SavedWake, SwitchDone
<1>5. ASSUME NEW c \in Cpus, do_tasklet(c) \/ tasklet_schedule(c) \/ s_timer_fn(c)
      PROVE  TypeOK' /\ ActorsSet'
  <2>1. softirq' \in [Cpus -> BOOLEAN]
    BY <1>5 DEF TypeOK, do_tasklet, tasklet_schedule, s_timer_fn, cpu_raise_softirq
  <2>2. tasklet' \in [Cpus -> SUBSET {"enqueued", "scheduled"}]
    <3>1. CASE do_tasklet(c)
      BY <3>1 DEF TypeOK, do_tasklet
    <3>2. CASE tasklet_schedule(c)
      BY <3>2 DEF TypeOK, tasklet_schedule
    <3>3. CASE s_timer_fn(c)
      BY <3>3 DEF TypeOK, s_timer_fn
    <3>. QED BY <1>5, <3>1, <3>2, <3>3
  <2>3. UNCHANGED <<fpVars, curr, placeVars, pauseVars, isRunning, runstate, pending,
                    cpuVars, senderVars, ctlVars>>
    BY <1>5 DEF do_tasklet, tasklet_schedule, s_timer_fn
  <2>. QED BY <2>1, <2>2, <2>3 DEF TypeOK, ActorsSet
<1>6. ASSUME NEW c \in Cpus, GuestStep(c)
      PROVE  TypeOK' /\ ActorsSet'
  <2>1. CASE vcpu_block(c)
    BY <2>1 DEF TypeOK, ActorsSet, GuestRuns, vcpu_block
  <2>2. CASE BlockCheck(c)
    BY <2>2 DEF TypeOK, ActorsSet, BlockCheck, cpu_raise_softirq
  <2>3. CASE vcpu_yield(c)
    BY <2>3 DEF TypeOK, ActorsSet, vcpu_yield, cpu_raise_softirq
  <2>4. CASE TakeEvents(c)
    BY <2>4 DEF TypeOK, ActorsSet, TakeEvents
  <2>. QED BY <1>6, <2>1, <2>2, <2>3, <2>4 DEF GuestStep
<1>7. ASSUME NEW s \in Senders, NEW v \in Vcpus, vcpu_mark_events_pending(s, v)
      PROVE  TypeOK' /\ ActorsSet'
  BY <1>0, <1>7 DEF TypeOK, ActorsSet, vcpu_mark_events_pending
<1>8. ASSUME NEW s \in Senders, vcpu_unblock(s)
      PROVE  TypeOK' /\ ActorsSet'
  <2>1. CASE blocked[senderVcpu[s]]
    BY <1>8, <2>1, ZenonT(30) DEF TypeOK, ActorsSet, vcpu_unblock
  <2>2. CASE ~blocked[senderVcpu[s]]
    <3>1. SenderDone(s) /\ UNCHANGED blocked
      BY <1>8, <2>2 DEF vcpu_unblock
    <3>. QED BY <1>8, <3>1 DEF TypeOK, ActorsSet, vcpu_unblock, SenderDone
  <2>. QED BY <2>1, <2>2
<1>9. ASSUME NEW s \in Senders, UnblockWake(s)
      PROVE  TypeOK' /\ ActorsSet'
  <2>1. senderVcpu[s] \in Vcpus /\ vcpu_wake(senderVcpu[s])
    BY <1>9 DEF TypeOK, ActorsSet, UnblockWake
  <2>2. /\ runq' \in [Cpus -> Seq(Vcpus)]
        /\ position' \in [Vcpus -> Nat]
        /\ priority' \in [Domains -> Int]
        /\ softirq' \in [Cpus -> BOOLEAN]
        /\ runstate' \in [Vcpus -> RunStates]
    BY <2>1, WakeQueues
  <2>. QED BY <1>9, <2>2 DEF TypeOK, ActorsSet, UnblockWake, SenderDone
<1>10. ASSUME NEW v \in Vcpus, NEW pc \in {"pause", "pause_nosync"}, vcpu_pause(v, pc)
       PROVE  TypeOK' /\ ActorsSet'
  BY <1>0, <1>10 DEF TypeOK, ActorsSet, vcpu_pause, CtlBegin
<1>11. ASSUME NEW v \in Vcpus, vcpu_unpause(v)
       PROVE  TypeOK' /\ ActorsSet'
  BY <1>0, <1>11 DEF TypeOK, ActorsSet, vcpu_unpause, CtlBegin
<1>12. ASSUME NEW v \in Vcpus, NEW mask \in Affinities, vcpu_set_hard_affinity(v, mask)
       PROVE  TypeOK' /\ ActorsSet'
  <2>1. mask \in (SUBSET Cpus) \ {{}}
    BY <1>12, EnvironmentAssumption DEF EnvironmentAssumption, vcpu_set_hard_affinity
  <2>. QED BY <1>0, <1>12, <2>1 DEF TypeOK, ActorsSet, vcpu_set_hard_affinity, CtlBegin
<1>13. ASSUME NEW v \in Vcpus, vcpu_force_reschedule(v)
       PROVE  TypeOK' /\ ActorsSet'
  BY <1>0, <1>13 DEF TypeOK, ActorsSet, vcpu_force_reschedule, CtlBegin
<1>14. ASSUME NEW d \in AdjustDomains, NEW op \in Adjustments, fp_adjust(d, op)
       PROVE  TypeOK' /\ ActorsSet'
  <2>1. /\ d \in Domains /\ op.period \in Nat /\ op.slice \in Nat /\ op.deadline \in Nat
        /\ op.priority \in Int
    BY EnvironmentAssumption DEF EnvironmentAssumption
  <2>2. /\ period' \in [Domains -> Nat] /\ slice' \in [Domains -> Nat]
        /\ deadline' \in [Domains -> Nat]
    BY <1>14, <2>1 DEF TypeOK, fp_adjust, WriteParameters
  <2>3. ctlPrio' \in Int
    <3>1. ctlPrio' = IF op.priority > 0 THEN op.priority ELSE priority[d]
      BY <1>14 DEF fp_adjust, SetPriorities
    <3>. QED BY <2>1, <3>1 DEF TypeOK
  <2>4. priority' \in [Domains -> Int]
    <3>1. priority' = [priority EXCEPT ![Dom0] = VM_DOM0_PRIO]
      BY <1>14 DEF fp_adjust, SetPriorities
    <3>2. priority \in [Domains -> Int] /\ VM_DOM0_PRIO \in Int
      BY DEF TypeOK, VM_DOM0_PRIO
    <3>. QED BY <3>1, <3>2
  <2>5. /\ ctlPc' \in {"idle", "unlink"} /\ ctlDom' = d /\ ctlTodo' = VisitedVcpus
        /\ UNCHANGED <<strategy, position, runq, ctlVcpu, curr, softirq, placeVars, pauseVars,
                       isRunning, runstate, pending, tasklet, cpuVars, senderVars>>
    BY <1>14 DEF fp_adjust, SetPriorities
  <2>. QED BY <1>0, <2>1, <2>2, <2>3, <2>4, <2>5 DEF TypeOK, ActorsSet, VisitedVcpus
<1>15. ASSUME NEW s \in Strategies, fp_adjust_global(s)
       PROVE  TypeOK' /\ ActorsSet'
  <2>1. priority' \in [Domains -> Int]
    <3>1. priority' = [priority EXCEPT ![Dom0] = VM_DOM0_PRIO]
      BY <1>15 DEF fp_adjust_global, SetPriorities
    <3>2. priority \in [Domains -> Int] /\ VM_DOM0_PRIO \in Int
      BY DEF TypeOK, VM_DOM0_PRIO
    <3>. QED BY <3>1, <3>2
  <2>2. /\ ctlPc' \in {"idle", "unlink"} /\ ctlDom' = Dom0 /\ ctlTodo' = VisitedVcpus
        /\ strategy' = s /\ ctlPrio' = 0
        /\ UNCHANGED <<period, slice, deadline, position, runq, ctlVcpu, curr, softirq,
                       placeVars, pauseVars, isRunning, runstate, pending, tasklet, cpuVars,
                       senderVars>>
    BY <1>15 DEF fp_adjust_global, fp_sched_set, SetPriorities
  <2>3. TypeOK'
    BY <1>0, <2>1, <2>2, SMTT(30) DEF TypeOK, VisitedVcpus
  <2>4. ActorsSet'
    BY <2>2 DEF ActorsSet
  <2>. QED BY <2>3, <2>4
<1>16. ASSUME PauseSleep
       PROVE  TypeOK' /\ ActorsSet'
  <2>1. ctlVcpu \in Vcpus /\ vcpu_sleep_nosync(ctlVcpu)
    BY <1>16 DEF TypeOK, ActorsSet, PauseSleep
  <2>2. /\ runq' \in [Cpus -> Seq(Vcpus)]
        /\ softirq' \in [Cpus -> BOOLEAN]
        /\ runstate' \in [Vcpus -> RunStates]
    BY <2>1, SleepQueues
  <2>3. ctlPrio' \in Int
    BY <1>16 DEF TypeOK, PauseSleep, CtlGoto, CtlDone
  <2>. QED BY <1>0, <1>16, <2>2, <2>3 DEF TypeOK, ActorsSet, PauseSleep, CtlGoto, CtlDone
<1>17. ASSUME vcpu_sleep_sync
       PROVE  TypeOK' /\ ActorsSet'
  BY <1>0, <1>17 DEF TypeOK, ActorsSet, vcpu_sleep_sync, CtlDone
<1>18. ASSUME AffinitySleep
       PROVE  TypeOK' /\ ActorsSet'
  <2>1. ctlVcpu \in Vcpus
    BY <1>18 DEF TypeOK, ActorsSet, AffinitySleep
  <2>2. /\ runq' \in [Cpus -> Seq(Vcpus)]
        /\ softirq' \in [Cpus -> BOOLEAN]
        /\ runstate' \in [Vcpus -> RunStates]
    <3>1. CASE vcpu_sleep_nosync(ctlVcpu)
      BY <2>1, <3>1, SleepQueues
    <3>2. CASE UNCHANGED <<runstate, runq, softirq>>
      BY <3>2 DEF TypeOK
    <3>. QED BY <1>18, <3>1, <3>2 DEF AffinitySleep
  <2>3. ctlPrio' \in Int
    BY <1>18 DEF TypeOK, AffinitySleep, CtlGoto, CtlDone
  <2>. QED BY <1>0, <1>18, <2>2, <2>3 DEF TypeOK, ActorsSet, AffinitySleep, CtlGoto, CtlDone
<1>19. ASSUME vcpu_migrate
       PROVE  TypeOK' /\ ActorsSet'
  <2>1. ctlVcpu \in Vcpus
    BY <1>19 DEF TypeOK, ActorsSet, vcpu_migrate
  <2>2. fp_pick_cpu(ctlVcpu) \in Cpus
    BY <2>1, PickCpu
  <2>3. migrating' \in [Vcpus -> BOOLEAN] /\ processor' \in [Vcpus -> Cpus]
    <3>1. CASE MustMove(ctlVcpu)
      <4>1. vcpu_move_locked(ctlVcpu)
        BY <1>19, <3>1 DEF vcpu_migrate
      <4>. QED BY <2>2, <4>1 DEF TypeOK, vcpu_move_locked
    <3>2. CASE ~MustMove(ctlVcpu)
      BY <1>19, <3>2 DEF TypeOK, vcpu_migrate
    <3>. QED BY <3>1, <3>2
  <2>4. ctlPrio' \in Int
    BY <1>19 DEF TypeOK, vcpu_migrate, CtlGoto, CtlDone
  <2>. QED BY <1>0, <1>19, <2>1, <2>3, <2>4
         DEF TypeOK, ActorsSet, vcpu_migrate, CtlGoto, CtlDone
<1>20. ASSUME CtlWake
       PROVE  TypeOK' /\ ActorsSet'
  <2>1. ctlVcpu \in Vcpus /\ vcpu_wake(ctlVcpu)
    BY <1>20 DEF TypeOK, ActorsSet, CtlWake
  <2>2. /\ runq' \in [Cpus -> Seq(Vcpus)]
        /\ position' \in [Vcpus -> Nat]
        /\ priority' \in [Domains -> Int]
        /\ softirq' \in [Cpus -> BOOLEAN]
        /\ runstate' \in [Vcpus -> RunStates]
    BY <2>1, WakeQueues
  <2>3. ctlPrio' \in Int
    BY <1>20 DEF CtlWake, CtlDone
  <2>. QED BY <1>0, <1>20, <2>2, <2>3 DEF TypeOK, ActorsSet, CtlWake, CtlDone
<1>21. ASSUME NEW v \in ctlTodo, AdjustUnlink(v)
       PROVE  TypeOK' /\ ActorsSet'
  <2>1. v \in Vcpus /\ remove_from_queue(v)
    BY <1>21 DEF TypeOK, AdjustUnlink, ReprioritiseAndUnlink
  <2>2. runq' \in [Cpus -> Seq(Vcpus)]
    BY <2>1, RunqRemove
  <2>3. priority' \in [Domains -> Int]
    <3>. DEFINE d == VcpuDomain[v]
                prio == IF d = ctlDom THEN ctlPrio ELSE priority[d]
    <3>1. d \in Domains /\ prio \in Int /\ position \in [Vcpus -> Nat]
      BY <2>1, ConfigAssumption DEF ConfigAssumption, TypeOK
    <3>2. PrioHandler(d, prio, position) \in Int
      BY <2>1, <3>1, PrioHandlerTyped
    <3>3. priority' = [priority EXCEPT ![d] = PrioHandler(d, prio, position)]
      BY <1>21 DEF AdjustUnlink, ReprioritiseAndUnlink
    <3>. HIDE DEF d, prio
    <3>. QED BY <3>1, <3>2, <3>3 DEF TypeOK
  <2>. QED BY <1>0, <1>21, <2>1, <2>2, <2>3 DEF TypeOK, ActorsSet, AdjustUnlink
<1>22. ASSUME AdjustReinsert
       PROVE  TypeOK' /\ ActorsSet'
  <2>1. ctlVcpu \in Vcpus /\ processor[ctlVcpu] \in Cpus
    BY <1>22 DEF TypeOK, ActorsSet, AdjustReinsert
  <2>2. /\ runq' \in [Cpus -> Seq(Vcpus)]
        /\ position' \in [Vcpus -> Nat]
    BY <1>22, <2>1, RunqInsert DEF AdjustReinsert, Reinsert
  <2>3. softirq' \in [Cpus -> BOOLEAN]
    BY <1>22, <2>1 DEF TypeOK, AdjustReinsert, Reinsert, cpu_raise_softirq
  <2>4. ctlPrio' \in Int
    BY <1>22 DEF TypeOK, AdjustReinsert, CtlGoto, CtlDone
  <2>. QED BY <1>0, <1>22, <2>2, <2>3, <2>4 DEF TypeOK, ActorsSet, AdjustReinsert, CtlGoto, CtlDone
<1>23. CASE UNCHANGED vars
  BY <1>23 DEF TypeOK, ActorsSet, vars
<1>24. TaskletCpus \subseteq Cpus
  BY EnvironmentAssumption DEF EnvironmentAssumption
<1>. QED BY <1>1, <1>2, <1>3, <1>4, <1>5, <1>6, <1>7, <1>8, <1>9, <1>10, <1>11, <1>12, <1>13,
            <1>14, <1>15, <1>16, <1>17, <1>18, <1>19, <1>20, <1>21, <1>22, <1>23, <1>24
       DEF Next, CpuStep, SenderStep, CtlStart, CtlStep

(* TypeOK holds in every reachable state: among the rest, fp_pick_cpu       *)
(* always yields a pCPU of the pool and the queues hold vCPUs only.         *)
THEOREM TypeCorrect == Spec => []TypeOK
<1>1. TypeOK /\ ActorsSet /\ [Next]_vars => (TypeOK /\ ActorsSet)'
  BY TypeStep
<1>. QED BY <1>1, TypeInit, PTL DEF Spec

------------------------------------------------------------------------------

(* No step strands an event: the steps that set VPF_blocked or mark an      *)
(* event leave somebody behind who will look at the other flag.             *)
LEMMA EventStep ==
  ASSUME TypeOK, ActorsSet, NoLostEvent, [Next]_vars
  PROVE  NoLostEvent'
<1>. USE DEF fpVars, pauseVars, placeVars, paramVars, senderVars, ctlVars, cpuVars
<1>. DEFINE Frame == /\ UNCHANGED <<pending, blocked>>
                     /\ \A s \in Senders : senderPc[s] = "unblock" =>
                          senderPc'[s] = "unblock" /\ senderVcpu'[s] = senderVcpu[s]
                     /\ \A c \in Cpus : cpuPc[c] = "block" =>
                          cpuPc'[c] = "block" /\ curr'[c] = curr[c]
<1>0. Frame => NoLostEvent'
  BY DEF NoLostEvent
<1>1. ASSUME NEW c \in Cpus, NEW hasBudget, schedule(c, hasBudget)
      PROVE  NoLostEvent'
  <2>1. \A d \in Cpus : d # c => curr'[d] = curr[d]
    BY <1>1 DEF TypeOK, schedule
  <2>2. cpuPc[c] = "guest" /\ \A d \in Cpus : d # c => cpuPc'[d] = cpuPc[d]
    <3>1. cpuPc' = cpuPc \/ \E pc : cpuPc' = [cpuPc EXCEPT ![c] = pc]
      BY <1>1 DEF schedule
    <3>. QED BY <1>1, <3>1 DEF TypeOK, schedule
  <2>3. UNCHANGED <<pending, blocked, senderPc, senderVcpu>>
    BY <1>1 DEF schedule
  <2>. QED BY <1>0, <2>1, <2>2, <2>3
<1>2. ASSUME NEW c \in Cpus, context_saved(c) \/ SavedMigrate(c) \/ SavedWake(c)
      PROVE  NoLostEvent'
  <2>1. cpuPc[c] # "block" /\ \A d \in Cpus : d # c => cpuPc'[d] = cpuPc[d]
    <3>1. CASE context_saved(c)
      BY <3>1 DEF TypeOK, context_saved
    <3>2. CASE SavedMigrate(c)
      <4>1. \E pc : cpuPc' = [cpuPc EXCEPT ![c] = pc]
        BY <3>2 DEF SavedMigrate, SwitchDone
      <4>. QED BY <3>2, <4>1 DEF TypeOK, SavedMigrate
    <3>3. CASE SavedWake(c)
      BY <3>3 DEF TypeOK, SavedWake, SwitchDone
    <3>. QED BY <1>2, <3>1, <3>2, <3>3
  <2>2. UNCHANGED <<pending, blocked, curr, senderPc, senderVcpu>>
    BY <1>2 DEF context_saved, SavedMigrate, SavedWake
  <2>. QED BY <1>0, <2>1, <2>2
<1>3. ASSUME NEW c \in Cpus, vcpu_block(c)
      PROVE  NoLostEvent'
  BY <1>3 DEF TypeOK, NoLostEvent, vcpu_block, GuestRuns
<1>4. ASSUME NEW c \in Cpus, BlockCheck(c)
      PROVE  NoLostEvent'
  <2>0. curr[c] \in Vcpus
    BY <1>4 DEF TypeOK, ActorsSet, BlockCheck
  <2>1. CASE pending[curr[c]]
    <3>1. blocked' = [blocked EXCEPT ![curr[c]] = FALSE]
      BY <1>4, <2>1 DEF BlockCheck
    <3>. QED BY <1>4, <2>0, <3>1 DEF TypeOK, NoLostEvent, BlockCheck
  <2>2. CASE ~pending[curr[c]]
    <3>1. UNCHANGED blocked
      BY <1>4, <2>2 DEF BlockCheck
    <3>2. /\ UNCHANGED <<pending, curr, senderPc, senderVcpu>>
          /\ \A d \in Cpus : d # c => cpuPc'[d] = cpuPc[d]
      BY <1>4 DEF TypeOK, BlockCheck
    <3>. QED BY <2>0, <2>2, <3>1, <3>2 DEF NoLostEvent
  <2>. QED BY <2>1, <2>2
<1>5. ASSUME NEW c \in Cpus, TakeEvents(c)
      PROVE  NoLostEvent'
  BY <1>5 DEF TypeOK, NoLostEvent, TakeEvents
<1>6. ASSUME NEW s \in Senders, NEW v \in Vcpus, vcpu_mark_events_pending(s, v)
      PROVE  NoLostEvent'
  BY <1>6 DEF TypeOK, NoLostEvent, vcpu_mark_events_pending
<1>7. ASSUME NEW s \in Senders, vcpu_unblock(s)
      PROVE  NoLostEvent'
  <2>0. senderVcpu[s] \in Vcpus
    BY <1>7 DEF TypeOK, ActorsSet, vcpu_unblock
  <2>1. ~blocked'[senderVcpu[s]] /\ \A v \in Vcpus : blocked'[v] => blocked[v]
    BY <1>7, <2>0 DEF TypeOK, vcpu_unblock
  <2>2. \A r \in Senders : r # s => senderPc'[r] = senderPc[r] /\ senderVcpu'[r] = senderVcpu[r]
    <3>1. \/ senderPc' = [senderPc EXCEPT ![s] = "wake"] /\ senderVcpu' = senderVcpu
          \/ SenderDone(s)
      BY <1>7 DEF vcpu_unblock
    <3>. QED BY <3>1 DEF TypeOK, SenderDone
  <2>3. UNCHANGED <<pending, curr, cpuPc>>
    BY <1>7 DEF vcpu_unblock
  <2>. QED BY <2>0, <2>1, <2>2, <2>3 DEF NoLostEvent
<1>8. ASSUME NEW s \in Senders, UnblockWake(s)
      PROVE  NoLostEvent'
  <2>1. senderPc[s] # "unblock" /\ UNCHANGED <<pending, blocked, curr, cpuPc>>
    BY <1>8 DEF UnblockWake
  <2>2. \A r \in Senders : r # s => senderPc'[r] = senderPc[r] /\ senderVcpu'[r] = senderVcpu[r]
    BY <1>8 DEF TypeOK, UnblockWake, SenderDone
  <2>. QED BY <1>0, <2>1, <2>2
<1>9. ASSUME UNCHANGED <<pending, blocked, curr, cpuPc, senderPc, senderVcpu>>
      PROVE  NoLostEvent'
  BY <1>0, <1>9
<1>10. ASSUME NEW c, do_tasklet(c) \/ tasklet_schedule(c) \/ s_timer_fn(c) \/ vcpu_yield(c)
       PROVE  NoLostEvent'
  BY <1>9, <1>10 DEF do_tasklet, tasklet_schedule, s_timer_fn, vcpu_yield
<1>11. ASSUME CtlStart
       PROVE  NoLostEvent'
  <2>1. UNCHANGED <<pending, blocked, curr, cpuPc, senderPc, senderVcpu>>
    BY <1>11 DEF CtlStart, vcpu_pause, vcpu_unpause, vcpu_set_hard_affinity,
                 vcpu_force_reschedule, fp_adjust, fp_adjust_global, SetPriorities
  <2>. QED BY <1>9, <2>1
<1>12. ASSUME CtlStep
       PROVE  NoLostEvent'
  <2>1. UNCHANGED <<pending, blocked, curr, cpuPc, senderPc, senderVcpu>>
    BY <1>12 DEF CtlStep, PauseSleep, vcpu_sleep_sync, AffinitySleep, vcpu_migrate, CtlWake,
                 AdjustUnlink, AdjustReinsert
  <2>. QED BY <1>9, <2>1
<1>13. CASE UNCHANGED vars
  BY <1>9, <1>13 DEF vars
<1>. QED BY <1>1, <1>2, <1>3, <1>4, <1>5, <1>6, <1>7, <1>8, <1>10, <1>11, <1>12, <1>13
       DEF Next, CpuStep, GuestStep, SenderStep

(* NoLostEvent holds in every reachable state, for any number of pCPUs,     *)
(* vCPUs and senders: vcpu_block() sets VPF_blocked before it checks for    *)
(* events, vcpu_mark_events_pending() marks before it unblocks.             *)
THEOREM EventsNotLost == Spec => []NoLostEvent
<1>. DEFINE I == TypeOK /\ ActorsSet /\ NoLostEvent
<1>1. Init => I
  <2>1. Init => NoLostEvent
    BY DEF Init, NoLostEvent
  <2>. QED BY <2>1, TypeInit
<1>2. I /\ [Next]_vars => I'
  BY TypeStep, EventStep
<1>. QED BY <1>1, <1>2, PTL DEF Spec

------------------------------------------------------------------------------
(* Tasklets and pauses *)

(* Only schedule() takes back a request to reschedule or switches a pCPU to *)
(* another vCPU.                                                            *)
LEMMA SoftirqKept ==
  ASSUME TypeOK, [Next]_vars
  PROVE  \/ \E c \in Cpus : \E hasBudget : schedule(c, hasBudget)
         \/ UNCHANGED curr /\ \A d \in Cpus : softirq[d] => softirq'[d]
<1>. USE DEF fpVars, cpu_raise_softirq
<1>. DEFINE Raise == UNCHANGED softirq \/ \E c : softirq' = [softirq EXCEPT ![c] = TRUE]
<1>1. Raise => \A d \in Cpus : softirq[d] => softirq'[d]
  BY DEF TypeOK
<1>2. ASSUME NEW v, vcpu_wake(v) PROVE Raise
  BY <1>2 DEF vcpu_wake, fp_vcpu_wake
<1>3. ASSUME NEW v, vcpu_sleep_nosync(v) PROVE Raise
  BY <1>3 DEF vcpu_sleep_nosync, fp_sleep
<1>4. ASSUME NEW c \in Cpus, context_saved(c) \/ SavedMigrate(c) \/ SavedWake(c) \/ do_tasklet(c)
      PROVE  UNCHANGED curr /\ Raise
  BY <1>2, <1>4 DEF context_saved, SavedMigrate, SavedWake, do_tasklet
<1>5. ASSUME NEW c, GuestStep(c) \/ s_timer_fn(c) \/ tasklet_schedule(c)
      PROVE  UNCHANGED curr /\ Raise
  BY <1>5 DEF GuestStep, vcpu_block, BlockCheck, vcpu_yield, TakeEvents, s_timer_fn, tasklet_schedule
<1>6. ASSUME NEW s \in Senders, SenderStep(s)
      PROVE  UNCHANGED curr /\ Raise
  BY <1>2, <1>6 DEF SenderStep, vcpu_mark_events_pending, vcpu_unblock, UnblockWake
<1>7. ASSUME CtlStart PROVE UNCHANGED curr /\ Raise
  BY <1>7 DEF CtlStart, vcpu_pause, vcpu_unpause, vcpu_set_hard_affinity, vcpu_force_reschedule,
              fp_adjust, fp_adjust_global, SetPriorities
<1>8. ASSUME CtlStep PROVE UNCHANGED curr /\ Raise
  BY <1>2, <1>3, <1>8 DEF CtlStep, PauseSleep, vcpu_sleep_sync, AffinitySleep, vcpu_migrate, CtlWake,
              AdjustUnlink, AdjustReinsert, Reinsert
<1>9. ASSUME UNCHANGED vars PROVE UNCHANGED curr /\ Raise
  BY <1>9 DEF vars
<1>. HIDE DEF Raise
<1>. QED BY <1>1, <1>4, <1>5, <1>6, <1>7, <1>8, <1>9 DEF Next, CpuStep

(* The steps that change the bits of the tasklets are schedule(), which     *)
(* switches to the idle vCPU when there is work, and the two that raise the *)
(* softirq.                                                                 *)
LEMMA TaskletStep ==
  ASSUME TypeOK, TaskletsNoticed, [Next]_vars
  PROVE  TaskletsNoticed'
<1>1. ASSUME NEW c \in Cpus, NEW hasBudget, schedule(c, hasBudget)
      PROVE  TaskletsNoticed'
  <2>1. /\ tasklet' = [tasklet EXCEPT ![c] = IF "enqueued" \in @ THEN @ \cup {"scheduled"} ELSE {}]
        /\ softirq' = [softirq EXCEPT ![c] = FALSE]
        /\ curr' = [curr EXCEPT ![c] = fp_do_schedule(c, hasBudget, "enqueued" \in tasklet[c])]
    BY <1>1 DEF schedule
  <2>2. "enqueued" \in tasklet[c] => curr'[c] = Idle
    BY <2>1 DEF TypeOK, fp_do_schedule
  <2>3. \A d \in Cpus : d # c => /\ tasklet'[d] = tasklet[d] /\ softirq'[d] = softirq[d]
                                 /\ curr'[d] = curr[d]
    BY <2>1 DEF TypeOK
  <2>4. tasklet'[c] = IF "enqueued" \in tasklet[c] THEN tasklet[c] \cup {"scheduled"} ELSE {}
    BY <2>1 DEF TypeOK
  <2>. QED BY <2>2, <2>3, <2>4 DEF TaskletsNoticed
<1>2. ASSUME NEW c \in Cpus, do_tasklet(c) \/ tasklet_schedule(c)
      PROVE  TaskletsNoticed'
  <2>1. /\ softirq' = [softirq EXCEPT ![c] = TRUE] /\ UNCHANGED curr
        /\ \E bits : tasklet' = [tasklet EXCEPT ![c] = bits]
    BY <1>2 DEF do_tasklet, tasklet_schedule, cpu_raise_softirq
  <2>2. softirq'[c] /\ \A d \in Cpus : d # c => /\ tasklet'[d] = tasklet[d]
                                               /\ softirq'[d] = softirq[d]
    BY <2>1 DEF TypeOK
  <2>. QED BY <2>1, <2>2 DEF TaskletsNoticed
<1>3. CASE UNCHANGED tasklet
  BY <1>1, <1>3, SoftirqKept DEF TaskletsNoticed
<1>4. TaskletCpus \subseteq Cpus
  BY EnvironmentAssumption DEF EnvironmentAssumption
<1>5. \/ UNCHANGED tasklet
      \/ \E c \in Cpus : \E hasBudget : schedule(c, hasBudget)
      \/ \E c \in Cpus : do_tasklet(c) \/ tasklet_schedule(c)
  <2>1. ASSUME NEW c \in Cpus, CpuStep(c) \/ GuestStep(c) \/ s_timer_fn(c)
        PROVE  UNCHANGED tasklet \/ (\E hasBudget : schedule(c, hasBudget)) \/ do_tasklet(c)
    BY <2>1 DEF CpuStep, context_saved, SavedMigrate, SavedWake, GuestStep, vcpu_block, BlockCheck,
                vcpu_yield, TakeEvents, s_timer_fn
  <2>2. ASSUME NEW s \in Senders, SenderStep(s) PROVE UNCHANGED tasklet
    BY <2>2 DEF SenderStep, vcpu_mark_events_pending, vcpu_unblock, UnblockWake
  <2>3. ASSUME CtlStart PROVE UNCHANGED tasklet
    BY <2>3 DEF CtlStart, vcpu_pause, vcpu_unpause, vcpu_set_hard_affinity, vcpu_force_reschedule,
                fp_adjust, fp_adjust_global, SetPriorities
  <2>4. ASSUME CtlStep PROVE UNCHANGED tasklet
    BY <2>4 DEF CtlStep, PauseSleep, vcpu_sleep_sync, AffinitySleep, vcpu_migrate, CtlWake,
                AdjustUnlink, AdjustReinsert
  <2>. QED BY <1>4, <2>1, <2>2, <2>3, <2>4 DEF Next, vars
<1>. QED BY <1>1, <1>2, <1>3, <1>5

(* Tasklet work is never left waiting and never holds the guests back once  *)
(* it is done, on any number of pCPUs: every change of the two bits comes   *)
(* with a reschedule.                                                       *)
THEOREM TaskletsNeverForgotten == Spec => []TaskletsNoticed
<1>. DEFINE I == TypeOK /\ ActorsSet /\ TaskletsNoticed
<1>1. Init => I
  <2>1. Init => TaskletsNoticed
    BY DEF Init, TaskletsNoticed
  <2>. QED BY <2>1, TypeInit
<1>2. I /\ [Next]_vars => I'
  BY TypeStep, TaskletStep
<1>. QED BY <1>1, <1>2, PTL DEF Spec

(* A paused vCPU is not dispatched, and the pause that is under way ends    *)
(* only when the vCPU is off its pCPU.                                      *)
LEMMA PausedStep ==
  ASSUME TypeOK, ActorsSet, PausedOffCpu, [Next]_vars
  PROVE  PausedOffCpu'
<1>. SUFFICES ASSUME "pause_nosync" \notin CtlOps
              PROVE  PausedOffCpu'
  BY DEF PausedOffCpu
<1>. USE DEF fpVars, pauseVars, ctlVars
<1>. DEFINE Pausing(v) == ctlPc \in {"pause", "sync"} /\ ctlVcpu = v
<1>0. \A v \in Vcpus : paused[v] /\ ~Pausing(v) => ~isRunning[v]
  BY DEF PausedOffCpu
<1>1. ASSUME UNCHANGED <<paused, ctlPc, ctlVcpu>>,
             \A v \in Vcpus : isRunning'[v] => isRunning[v] \/ ~paused[v]
      PROVE  PausedOffCpu'
  BY <1>1 DEF PausedOffCpu
<1>2. ASSUME NEW c \in Cpus, NEW hasBudget, schedule(c, hasBudget)
      PROVE  PausedOffCpu'
  <2>1. PICK next : next = fp_do_schedule(c, hasBudget, "enqueued" \in tasklet[c])
    OBVIOUS
  <2>2. next = Idle \/ (next \in Vcpus /\ vcpu_runnable(next))
    <3>1. ("enqueued" \in tasklet[c]) \in BOOLEAN
      OBVIOUS
    <3>. QED BY <2>1, <3>1, DoSchedule, Zenon
  <2>3. /\ UNCHANGED <<paused, ctlPc, ctlVcpu>>
        /\ UNCHANGED isRunning \/ isRunning' = [v \in Vcpus |-> v = next \/ isRunning[v]]
    BY <1>2, <2>1 DEF schedule
  <2>4. Idle \notin Vcpus
    BY ConfigAssumption DEF ConfigAssumption
  <2>. QED BY <1>1, <2>2, <2>3, <2>4 DEF vcpu_runnable
<1>3. ASSUME NEW c \in Cpus, context_saved(c)
      PROVE  PausedOffCpu'
  <2>1. isRunning' = [isRunning EXCEPT ![saving[c]] = FALSE] /\ UNCHANGED <<paused, ctlPc, ctlVcpu>>
    BY <1>3 DEF context_saved
  <2>. QED BY <1>1, <2>1 DEF TypeOK
<1>4. ASSUME NEW c, \/ SavedMigrate(c) \/ SavedWake(c) \/ do_tasklet(c)
                    \/ GuestStep(c) \/ s_timer_fn(c) \/ tasklet_schedule(c)
      PROVE  PausedOffCpu'
  <2>1. UNCHANGED <<paused, ctlPc, ctlVcpu, isRunning>>
    BY <1>4 DEF SavedMigrate, SavedWake, do_tasklet, GuestStep, vcpu_block, BlockCheck, vcpu_yield,
                TakeEvents, s_timer_fn, tasklet_schedule
  <2>. QED BY <1>1, <2>1
<1>5. ASSUME NEW s \in Senders, SenderStep(s)
      PROVE  PausedOffCpu'
  <2>1. UNCHANGED <<paused, ctlPc, ctlVcpu, isRunning>>
    BY <1>5 DEF SenderStep, vcpu_mark_events_pending, vcpu_unblock, UnblockWake
  <2>. QED BY <1>1, <2>1
<1>6. ASSUME CtlStart
      PROVE  PausedOffCpu'
  <2>1. ctlPc = "idle" /\ UNCHANGED isRunning
    BY <1>6 DEF CtlStart, CtlBegin, vcpu_pause, vcpu_unpause, vcpu_set_hard_affinity,
                vcpu_force_reschedule, fp_adjust, fp_adjust_global, SetPriorities
  <2>2. ASSUME NEW v \in Vcpus, NEW pc \in {"pause", "pause_nosync"}, vcpu_pause(v, pc)
        PROVE  PausedOffCpu'
    <3>1. paused' = [paused EXCEPT ![v] = TRUE] /\ ctlPc' = "pause" /\ ctlVcpu' = v
      BY <2>2 DEF vcpu_pause, CtlBegin
    <3>. QED BY <2>1, <3>1 DEF TypeOK, PausedOffCpu
  <2>3. ASSUME NEW v \in Vcpus, vcpu_unpause(v)
        PROVE  PausedOffCpu'
    <3>1. paused' = [paused EXCEPT ![v] = FALSE]
      BY <2>3 DEF vcpu_unpause
    <3>. QED BY <2>1, <3>1 DEF TypeOK, PausedOffCpu
  <2>4. CASE UNCHANGED paused
    BY <2>1, <2>4 DEF PausedOffCpu
  <2>5. \/ UNCHANGED paused
        \/ \E v \in Vcpus : vcpu_unpause(v) \/ \E pc \in {"pause", "pause_nosync"} : vcpu_pause(v, pc)
    BY <1>6 DEF CtlStart, vcpu_set_hard_affinity, vcpu_force_reschedule, fp_adjust,
                fp_adjust_global, SetPriorities
  <2>. QED BY <2>2, <2>3, <2>4, <2>5
<1>7. ASSUME CtlStep
      PROVE  PausedOffCpu'
  <2>1. UNCHANGED <<paused, isRunning>>
    BY <1>7 DEF CtlStep, PauseSleep, vcpu_sleep_sync, AffinitySleep, vcpu_migrate, CtlWake,
                AdjustUnlink, AdjustReinsert
  <2>2. CASE ctlPc \notin {"pause", "sync"}
    BY <2>1, <2>2 DEF PausedOffCpu
  <2>3. CASE ctlPc = "pause"
    <3>1. ctlPc' = "sync" /\ UNCHANGED ctlVcpu
      BY <1>7, <2>3 DEF CtlStep, PauseSleep, CtlGoto, vcpu_sleep_sync, AffinitySleep, vcpu_migrate,
                        CtlWake, AdjustUnlink, AdjustReinsert
    <3>. QED BY <2>1, <2>3, <3>1 DEF PausedOffCpu
  <2>4. CASE ctlPc = "sync"
    <3>1. vcpu_runnable(ctlVcpu) \/ ~isRunning[ctlVcpu]
      BY <1>7, <2>4 DEF CtlStep, PauseSleep, vcpu_sleep_sync, AffinitySleep, vcpu_migrate,
                        CtlWake, AdjustUnlink, AdjustReinsert
    <3>. QED BY <2>1, <3>1 DEF PausedOffCpu, vcpu_runnable
  <2>. QED BY <2>2, <2>3, <2>4
<1>8. CASE UNCHANGED vars
  BY <1>1, <1>8 DEF vars
<1>. QED BY <1>2, <1>3, <1>4, <1>5, <1>6, <1>7, <1>8 DEF Next, CpuStep

(* vcpu_pause() keeps its promise whatever the toolstack re-pins or adjusts *)
(* meanwhile: once it has returned, no pCPU holds the vCPU until it is      *)
(* unpaused.                                                                *)
THEOREM PauseKeepsOff == Spec => []PausedOffCpu
<1>. DEFINE I == TypeOK /\ ActorsSet /\ PausedOffCpu
<1>1. Init => I
  <2>1. Init => PausedOffCpu
    BY DEF Init, PausedOffCpu
  <2>. QED BY <2>1, TypeInit
<1>2. I /\ [Next]_vars => I'
  BY TypeStep, PausedStep
<1>. QED BY <1>1, <1>2, PTL DEF Spec
=============================================================================
