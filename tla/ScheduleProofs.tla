--------------------------- MODULE ScheduleProofs ---------------------------
(***************************************************************************)
(* Safety of Schedule for every number of pCPUs and vCPUs, when the        *)
(* toolstack adjusts sched_fp in quiet moments (QuietAdjust) and re-pins   *)
(* only vCPUs that are off the CPU (not MigrateRunning): InductiveInv is   *)
(* an invariant, no vCPU is ever linked or run twice, and the assertions   *)
(* of schedule() hold.                                                     *)
(***************************************************************************)
EXTENDS ScheduleTyped

------------------------------------------------------------------------------
(* What most steps leave alone *)

(* With QuietAdjust, whoever takes an undisturbed step finds no adjustment. *)
LEMMA QuietCtl ==
  ASSUME QuietAdjust, Undisturbed
  PROVE  ctlPc # "unlink" /\ ctlPc # "reinsert"
BY DEF Undisturbed, Adjusting

(* Unchanged queues hold the same vCPUs. *)
LEMMA SameQueues ==
  ASSUME UNCHANGED runq
  PROVE  \A d \in Cpus : Queued(d)' = Queued(d) /\ (Once(runq[d])' <=> Once(runq[d]))
BY DEF Queued, Once

(* Only the switch itself changes who holds a vCPU: schedule() dispatches   *)
(* and the first step of context_saved() lets go.                           *)
LEMMA HoldersFrame ==
  ASSUME HoldersPlaced, SwitchesAway, UNCHANGED <<isRunning, curr, processor>>,
         \A v \in Vcpus : runstate'[v] = "running" <=> runstate[v] = "running",
         \A c \in Cpus : saving'[c] = saving[c] \/ saving'[c] = Idle,
         \A c \in Cpus : cpuPc'[c] = "saved" <=> cpuPc[c] = "saved",
         \A c \in Cpus : cpuPc[c] = "saved" => saving'[c] = saving[c]
  PROVE  HoldersPlaced' /\ SwitchesAway'
<1>1. \A c \in Cpus, v \in Vcpus : Holds(c, v)' <=> Holds(c, v)
  BY DEF Holds
<1>2. HoldersPlaced'
  BY <1>1 DEF HoldersPlaced
<1>3. SwitchesAway'
  BY DEF SwitchesAway
<1>. QED BY <1>2, <1>3

(* A pCPU's current vCPU is placed on it. *)
LEMMA CurrPlaced ==
  ASSUME TypeOK, HoldersPlaced, NEW c \in Cpus, curr[c] # Idle
  PROVE  curr[c] \in Vcpus /\ processor[curr[c]] = c /\ isRunning[curr[c]]
BY DEF TypeOK, HoldersPlaced, Holds

(* The queues, when neither they nor the placement change. *)
LEMMA QueuesFrame ==
  ASSUME QueuesPlaced, UnlinkedOffQueue, CurrQueued, UNCHANGED <<runq, processor, curr>>,
         ctlPc # "reinsert", ctlPc' # "reinsert"
  PROVE  QueuesPlaced' /\ UnlinkedOffQueue' /\ CurrQueued'
<1>1. \A d \in Cpus : Queued(d)' = Queued(d) /\ (Once(runq[d])' <=> Once(runq[d]))
  BY SameQueues
<1>2. QueuesPlaced'
  BY <1>1 DEF QueuesPlaced
<1>3. UnlinkedOffQueue' /\ CurrQueued'
  BY <1>1 DEF UnlinkedOffQueue, CurrQueued, Unlinked
<1>. QED BY <1>2, <1>3

(* The queues across vcpu_wake(). *)
LEMMA QueuesWake ==
  ASSUME TypeOK, HoldersPlaced, QueuesPlaced, UnlinkedOffQueue, CurrQueued,
         NEW v \in Vcpus, vcpu_wake(v), UNCHANGED <<processor, curr>>,
         ctlPc # "reinsert", ctlPc' # "reinsert"
  PROVE  /\ QueuesPlaced' /\ UnlinkedOffQueue' /\ CurrQueued'
         /\ \A w \in Vcpus : vcpu_on_q(w) => vcpu_on_q(w)'
         /\ vcpu_runnable(v) => vcpu_on_q(v)'
         /\ \A w \in Vcpus : ~vcpu_runnable(w) /\ vcpu_on_q(w)' => vcpu_on_q(w)
<1>1. /\ \A d \in Cpus : \/ Queued(d)' = Queued(d)
                         \/ d = processor[v] /\ Queued(d)' = Queued(d) \cup {v}
      /\ \A d \in Cpus : Once(runq[d]) => Once(runq[d])'
      /\ vcpu_runnable(v) => vcpu_on_q(v)' \/ curr[processor[v]] = v
      /\ ~vcpu_runnable(v) => \A d \in Cpus : Queued(d)' = Queued(d)
  BY WakeQueues
<1>2. QueuesPlaced'
  BY <1>1 DEF QueuesPlaced
<1>3. UnlinkedOffQueue' /\ CurrQueued'
  BY <1>1 DEF UnlinkedOffQueue, CurrQueued, Unlinked
<1>4. \A w \in Vcpus : vcpu_on_q(w) => vcpu_on_q(w)'
  BY <1>1 DEF vcpu_on_q
<1>5. vcpu_runnable(v) => vcpu_on_q(v)'
  <2>1. processor[v] \in Cpus /\ v # Idle
    BY ConfigAssumption DEF TypeOK, ConfigAssumption
  <2>2. curr[processor[v]] = v => vcpu_on_q(v)
    BY <2>1 DEF CurrQueued, Unlinked, vcpu_on_q
  <2>. QED BY <1>1, <1>4, <2>2
<1>6. \A w \in Vcpus : ~vcpu_runnable(w) /\ vcpu_on_q(w)' => vcpu_on_q(w)
  BY <1>1 DEF vcpu_on_q
<1>. QED BY <1>2, <1>3, <1>4, <1>5, <1>6

(* The queues across vcpu_sleep_nosync(). *)
LEMMA QueuesSleep ==
  ASSUME TypeOK, HoldersPlaced, QueuesPlaced, UnlinkedOffQueue, CurrQueued,
         NEW v \in Vcpus, vcpu_sleep_nosync(v), UNCHANGED <<processor, curr>>,
         ctlPc # "reinsert", ctlPc' # "reinsert"
  PROVE  /\ QueuesPlaced' /\ UnlinkedOffQueue' /\ CurrQueued'
         /\ \A w \in Vcpus : vcpu_runnable(w) /\ vcpu_on_q(w) => vcpu_on_q(w)'
         /\ ~vcpu_runnable(v) /\ ~isRunning[v] => ~vcpu_on_q(v)'
<1>1. /\ \A d \in Cpus : Queued(d)' \subseteq Queued(d) /\ Queued(d) \ {v} \subseteq Queued(d)'
      /\ \A d \in Cpus : Once(runq[d]) => Once(runq[d])'
      /\ vcpu_runnable(v) \/ curr[processor[v]] = v => \A d \in Cpus : Queued(d)' = Queued(d)
      /\ ~vcpu_runnable(v) /\ curr[processor[v]] # v /\ (\A d \in Cpus : Once(runq[d]))
           => ~vcpu_on_q(v)'
  BY SleepQueues
<1>2. QueuesPlaced'
  BY <1>1 DEF QueuesPlaced
<1>3. UnlinkedOffQueue'
  BY DEF UnlinkedOffQueue, Unlinked
<1>4. CurrQueued'
  <2>. SUFFICES ASSUME NEW c \in Cpus, curr[c] # Idle
                PROVE  curr[c] \in Queued(c)'
    BY DEF CurrQueued
  <2>1. curr[c] \in Queued(c)
    BY DEF CurrQueued, Unlinked
  <2>2. curr[c] = v => curr[processor[v]] = v
    BY CurrPlaced
  <2>. QED BY <1>1, <2>1, <2>2
<1>5. \A w \in Vcpus : vcpu_runnable(w) /\ vcpu_on_q(w) => vcpu_on_q(w)'
  BY <1>1 DEF vcpu_on_q
<1>6. ~vcpu_runnable(v) /\ ~isRunning[v] => ~vcpu_on_q(v)'
  <2>1. processor[v] \in Cpus /\ v # Idle
    BY ConfigAssumption DEF TypeOK, ConfigAssumption
  <2>2. ~isRunning[v] => curr[processor[v]] # v
    BY <2>1, CurrPlaced
  <2>3. \A d \in Cpus : Once(runq[d])
    BY DEF QueuesPlaced
  <2>. QED BY <1>1, <2>2, <2>3
<1>. QED BY <1>2, <1>3, <1>4, <1>5, <1>6

(* The placement, while the toolstack's operation stands still. *)
LEMMA AffinityFrame ==
  ASSUME PlacedInAffinity, UNCHANGED <<processor, hardAffinity, ctlPc, ctlVcpu>>,
         \A v \in Vcpus : Repinning(v) => migrating'[v] /\ OffCpu(v)',
         \A v \in Vcpus : Repinning(v) /\ vcpu_on_q(v)' => vcpu_on_q(v)
  PROVE  PlacedInAffinity'
BY DEF PlacedInAffinity, Repinning

(* Outside the migration path every vCPU is where its affinity wants it.    *)
LEMMA AffinitySettled ==
  ASSUME PlacedInAffinity, ctlPc # "affinity", ctlPc # "migrate"
  PROVE  \A v \in Vcpus : processor[v] \in hardAffinity[v]
BY DEF PlacedInAffinity, Repinning

(* Such a placement stays, whatever the toolstack does next, while no vCPU  *)
(* is moved or re-pinned.                                                   *)
LEMMA AffinitySettledFrame ==
  ASSUME PlacedInAffinity, ctlPc # "affinity", ctlPc # "migrate",
         UNCHANGED <<processor, hardAffinity>>
  PROVE  PlacedInAffinity'
BY AffinitySettled DEF PlacedInAffinity

(* A runnable vCPU stays accounted for if no runnable vCPU leaves the       *)
(* queues, none becomes runnable and no wake in flight is dropped.          *)
LEMMA RunnableFrame ==
  ASSUME RunnableIsQueued,
         \A v \in Vcpus : vcpu_runnable(v)' => vcpu_runnable(v),
         \A v \in Vcpus : vcpu_runnable(v)' /\ vcpu_on_q(v) => vcpu_on_q(v)',
         \A v \in Vcpus : vcpu_runnable(v)' /\ WakeInFlight(v) => WakeInFlight(v)' \/ vcpu_on_q(v)'
  PROVE  RunnableIsQueued'
BY DEF RunnableIsQueued

------------------------------------------------------------------------------
(* Steps of the pCPUs, the guests and the senders *)

(* InductiveInv without its typing part, which TypeStep takes care of. *)
Safe ==
  /\ HoldersPlaced /\ SwitchesAway
  /\ QueuesPlaced /\ UnlinkedOffQueue /\ CurrQueued
  /\ PlacedInAffinity
  /\ RunnableIsQueued

(* Timers, tasklets, yields and the taking and marking of events change     *)
(* nothing that Safe is about.                                              *)
LEMMA SafeQuiet ==
  ASSUME Safe,
         UNCHANGED <<runq, curr, processor, hardAffinity, isRunning, runstate, blocked,
                     migrating, paused, cpuPc, saving, ctlPc, ctlVcpu>>,
         \A s \in Senders : senderPc[s] = "wake" =>
           senderPc'[s] = "wake" /\ senderVcpu'[s] = senderVcpu[s]
  PROVE  Safe'
<1>1. \A d \in Cpus : Queued(d)' = Queued(d) /\ (Once(runq[d])' <=> Once(runq[d]))
  BY SameQueues
<1>2. HoldersPlaced' /\ SwitchesAway'
  BY HoldersFrame DEF Safe
<1>3. QueuesPlaced' /\ UnlinkedOffQueue' /\ CurrQueued'
  BY <1>1 DEF Safe, QueuesPlaced, UnlinkedOffQueue, CurrQueued, Unlinked, vcpu_on_q
<1>4. PlacedInAffinity'
  BY <1>1 DEF Safe, PlacedInAffinity, Repinning, OffCpu, vcpu_on_q
<1>5. RunnableIsQueued'
  BY <1>1, RunnableFrame DEF Safe, vcpu_runnable, vcpu_on_q, WakeInFlight
<1>. QED BY <1>2, <1>3, <1>4, <1>5 DEF Safe

(* schedule(): the vCPU picked comes from the pCPU's own queue, so nobody   *)
(* else can be holding it; the one left is no longer accounted as running.  *)
LEMMA SafeSchedule ==
  ASSUME QuietAdjust, TypeOK, ActorsSet, Safe, NEW c \in Cpus, NEW hasBudget,
         schedule(c, hasBudget)
  PROVE  Safe'
<1>. DEFINE prev == curr[c]
            next == fp_do_schedule(c, hasBudget, "enqueued" \in tasklet[c])
<1>1. next = Idle \/ (next \in Vcpus /\ next \in Queued(c) /\ vcpu_runnable(next))
  <2>1. ("enqueued" \in tasklet[c]) \in BOOLEAN
    OBVIOUS
  <2>. QED BY <2>1, DoSchedule, Zenon
<1>2. /\ Undisturbed /\ cpuPc[c] = "guest"
      /\ UNCHANGED <<runq, processor, hardAffinity, blocked, migrating, paused, senderPc,
                     senderVcpu, ctlPc, ctlVcpu>>
      /\ curr' = [curr EXCEPT ![c] = next]
  BY DEF schedule, fpVars, placeVars, pauseVars, senderVars, ctlVars
<1>3. ctlPc # "reinsert" /\ ctlPc # "unlink"
  BY <1>2, QuietCtl
<1>4. Idle \notin Vcpus
  BY ConfigAssumption DEF ConfigAssumption
<1>5. \A d \in Cpus : Queued(d)' = Queued(d) /\ (Once(runq[d])' <=> Once(runq[d]))
  BY <1>2, SameQueues
<1>6. CASE prev = next
  <2>1. UNCHANGED <<curr, runstate, isRunning, cpuPc, saving>>
    BY <1>2, <1>6 DEF schedule, cpuVars, TypeOK
  <2>. QED BY <1>2, <2>1, SafeQuiet
<1>7. CASE prev # next
  <2>0. /\ runstate' = [v \in Vcpus |-> CASE v = next -> "running"
                                           [] v = prev -> StateAfter(v)
                                           [] OTHER -> runstate[v]]
        /\ isRunning' = [v \in Vcpus |-> v = next \/ isRunning[v]]
        /\ cpuPc' = [cpuPc EXCEPT ![c] = IF prev = Idle THEN "guest" ELSE "saved"]
        /\ saving' = [saving EXCEPT ![c] = prev]
    BY <1>7 DEF schedule
  <2>. HIDE DEF next
  <2>1. /\ saving[c] = Idle
        /\ \A d \in Cpus : curr'[d] = IF d = c THEN next ELSE curr[d]
        /\ \A d \in Cpus : d # c => cpuPc'[d] = cpuPc[d] /\ saving'[d] = saving[d]
        /\ cpuPc'[c] = (IF prev = Idle THEN "guest" ELSE "saved") /\ saving'[c] = prev
    BY <1>2, <2>0 DEF TypeOK, ActorsSet
  <2>2. \A v \in Vcpus : isRunning'[v] <=> (v = next \/ isRunning[v])
    BY <2>0
  <2>3. \A v \in Vcpus : Holds(c, v)' <=> (v = next \/ v = prev)
    BY <1>4, <2>1 DEF Holds
  <2>4. \A v \in Vcpus : Holds(c, v) <=> v = prev
    BY <1>2 DEF Holds
  <2>5. \A d \in Cpus : d # c => \A v \in Vcpus : Holds(d, v)' <=> Holds(d, v)
    BY <2>1 DEF Holds
  <2>6. next # Idle => processor[next] = c
    BY <1>1 DEF Safe, QueuesPlaced
  <2>7. \A v \in Vcpus : isRunning'[v] <=> \E d \in Cpus : Holds(d, v)'
    BY <2>2, <2>3, <2>4, <2>5 DEF Safe, HoldersPlaced
  <2>8. \A v \in Vcpus : \A d \in Cpus : Holds(d, v)' => processor[v] = d
    BY <1>4, <2>3, <2>4, <2>5, <2>6 DEF Safe, HoldersPlaced
  <2>9. ASSUME NEW v \in Vcpus
        PROVE  runstate'[v] = "running" <=> \E d \in Cpus : curr'[d] = v
    <3>1. CASE v = next
      BY <1>7, <2>0, <2>1, <3>1
    <3>2. CASE v = prev
      <4>1. \A d \in Cpus : d # c => curr[d] # v
        BY <1>4, <3>2, CurrPlaced DEF Safe
      <4>2. StateAfter(v) # "running"
        BY DEF StateAfter
      <4>. QED BY <1>7, <2>0, <2>1, <3>2, <4>1, <4>2
    <3>3. CASE v # next /\ v # prev
      <4>1. runstate'[v] = runstate[v]
        BY <2>0, <3>3
      <4>. QED BY <2>1, <3>3, <4>1 DEF Safe, HoldersPlaced
    <3>. QED BY <3>1, <3>2, <3>3
  <2>10. HoldersPlaced'
    BY <1>2, <2>7, <2>8, <2>9 DEF HoldersPlaced
  <2>11. SwitchesAway'
    BY <1>7, <2>1 DEF Safe, SwitchesAway
  <2>12. QueuesPlaced' /\ UnlinkedOffQueue'
    BY <1>2, <1>3, <1>5 DEF Safe, QueuesPlaced, UnlinkedOffQueue, Unlinked
  <2>13. CurrQueued'
    BY <1>1, <1>2, <1>3, <1>5, <2>1 DEF Safe, CurrQueued, Unlinked
  <2>14. PlacedInAffinity'
    <3>1. ASSUME NEW v \in Vcpus, Repinning(v)
          PROVE  migrating'[v] /\ OffCpu(v)'
      <4>1. v # next
        BY <1>1, <1>4, <3>1 DEF Repinning, vcpu_runnable
      <4>2. v # prev
        BY <1>4, <3>1, CurrPlaced DEF Safe, Repinning, OffCpu
      <4>. QED BY <1>2, <2>1, <2>2, <3>1, <4>1, <4>2 DEF Repinning, OffCpu
    <3>2. \A v \in Vcpus : vcpu_on_q(v)' => vcpu_on_q(v)
      BY <1>5 DEF vcpu_on_q
    <3>. QED BY <1>2, <3>1, <3>2, AffinityFrame DEF Safe
  <2>15. RunnableIsQueued'
    <3>1. \A v \in Vcpus : vcpu_runnable(v)' <=> vcpu_runnable(v)
      BY <1>2 DEF vcpu_runnable
    <3>2. \A v \in Vcpus : vcpu_on_q(v)' <=> vcpu_on_q(v)
      BY <1>5 DEF vcpu_on_q
    <3>3. \A v \in Vcpus : WakeInFlight(v) => WakeInFlight(v)'
      BY <1>2, <2>1 DEF WakeInFlight
    <3>. QED BY <3>1, <3>2, <3>3, RunnableFrame DEF Safe
  <2>. QED BY <2>10, <2>11, <2>12, <2>13, <2>14, <2>15 DEF Safe
<1>. QED BY <1>6, <1>7

(* context_saved(): the pCPU lets go of the vCPU it switched away from.     *)
LEMMA SafeContextSaved ==
  ASSUME QuietAdjust, TypeOK, ActorsSet, Safe, NEW c \in Cpus, context_saved(c)
  PROVE  Safe'
<1>. DEFINE p == saving[c]
<1>1. /\ Undisturbed /\ cpuPc[c] = "saved" /\ p \in Vcpus
      /\ isRunning' = [isRunning EXCEPT ![p] = FALSE]
      /\ cpuPc' = [cpuPc EXCEPT ![c] = "migrate"]
      /\ UNCHANGED <<runq, curr, processor, hardAffinity, runstate, blocked, migrating, paused,
                     saving, senderPc, senderVcpu, ctlPc, ctlVcpu>>
  BY DEF TypeOK, ActorsSet, context_saved, fpVars, placeVars, pauseVars, senderVars, ctlVars
<1>2. ctlPc # "reinsert"
  BY <1>1, QuietCtl
<1>3. /\ cpuPc'[c] = "migrate" /\ \A d \in Cpus : d # c => cpuPc'[d] = cpuPc[d]
      /\ \A v \in Vcpus : isRunning'[v] <=> (v # p /\ isRunning[v])
  BY <1>1 DEF TypeOK
<1>4. curr[c] # p /\ p # Idle
  BY <1>1, ConfigAssumption DEF Safe, SwitchesAway, ConfigAssumption
<1>5. \A d \in Cpus, v \in Vcpus : Holds(d, v)' <=> (Holds(d, v) /\ v # p)
  <2>1. Holds(c, p)
    BY <1>1 DEF Holds
  <2>2. \A d \in Cpus : Holds(d, p) => d = c
    BY <1>1, <2>1 DEF Safe, HoldersPlaced
  <2>3. \A d \in Cpus, v \in Vcpus : d # c => (Holds(d, v)' <=> Holds(d, v))
    BY <1>1, <1>3 DEF Holds
  <2>4. \A v \in Vcpus : Holds(c, v)' <=> curr[c] = v
    BY <1>1, <1>3 DEF Holds
  <2>5. \A v \in Vcpus : Holds(c, v) <=> curr[c] = v \/ v = p
    BY <1>1 DEF Holds
  <2>. QED BY <1>4, <2>2, <2>3, <2>4, <2>5
<1>6. HoldersPlaced'
  BY <1>1, <1>3, <1>5 DEF Safe, HoldersPlaced
<1>7. SwitchesAway'
  BY <1>1 DEF Safe, SwitchesAway
<1>8. QueuesPlaced' /\ UnlinkedOffQueue' /\ CurrQueued'
  BY <1>1, <1>2, QueuesFrame DEF Safe
<1>9. \A v \in Vcpus : vcpu_on_q(v)' <=> vcpu_on_q(v)
  BY <1>1, SameQueues DEF vcpu_on_q
<1>10. PlacedInAffinity'
  BY <1>1, <1>3, <1>9, AffinityFrame DEF Safe, Repinning, OffCpu
<1>11. RunnableIsQueued'
  <2>1. \A v \in Vcpus : vcpu_runnable(v)' <=> vcpu_runnable(v)
    BY <1>1 DEF vcpu_runnable
  <2>2. \A v \in Vcpus : WakeInFlight(v) => WakeInFlight(v)'
    BY <1>1, <1>3 DEF WakeInFlight
  <2>. QED BY <1>9, <2>1, <2>2, RunnableFrame DEF Safe
<1>. QED BY <1>6, <1>7, <1>8, <1>10, <1>11 DEF Safe

(* context_saved(), second step: a vCPU that was re-pinned while off the    *)
(* CPU is not the one just switched away from, so this one stays in place.  *)
LEMMA SafeSavedMigrate ==
  ASSUME QuietAdjust, TypeOK, ActorsSet, Safe, NEW c \in Cpus, SavedMigrate(c)
  PROVE  Safe'
<1>. DEFINE p == saving[c]
<1>1. /\ Undisturbed /\ cpuPc[c] = "migrate" /\ p \in Vcpus
      /\ UNCHANGED <<runq, curr, hardAffinity, isRunning, runstate, blocked, paused,
                     senderPc, senderVcpu, ctlPc, ctlVcpu>>
  BY DEF TypeOK, ActorsSet, SavedMigrate, fpVars, senderVars, ctlVars
<1>2. ctlPc # "reinsert"
  BY <1>1, QuietCtl
<1>3. /\ cpuPc'[c] # "saved" /\ \A d \in Cpus : d # c => cpuPc'[d] = cpuPc[d]
      /\ \A d \in Cpus : saving'[d] = saving[d] \/ saving'[d] = Idle
      /\ \A d \in Cpus : d # c => saving'[d] = saving[d]
  <2>1. CASE MustMove(p)
    <3>1. cpuPc' = [cpuPc EXCEPT ![c] = "wake"] /\ UNCHANGED saving
      BY <2>1 DEF SavedMigrate
    <3>. QED BY <3>1 DEF TypeOK
  <2>2. CASE ~MustMove(p)
    <3>1. SwitchDone(c)
      BY <2>2 DEF SavedMigrate
    <3>. QED BY <3>1 DEF TypeOK, SwitchDone
  <2>. QED BY <2>1, <2>2
<1>4. UNCHANGED processor
  <2>1. CASE MustMove(p)
    <3>1. processor' = [processor EXCEPT ![p] = fp_pick_cpu(p)]
      BY <2>1 DEF SavedMigrate, vcpu_move_locked
    <3>2. processor[p] \in hardAffinity[p]
      BY <1>1 DEF Safe, PlacedInAffinity, Repinning, OffCpu
    <3>3. fp_pick_cpu(p) = processor[p]
      BY <1>1, <3>2, PickCpu
    <3>. QED BY <3>1, <3>3 DEF TypeOK
  <2>2. CASE ~MustMove(p)
    BY <2>2 DEF SavedMigrate
  <2>. QED BY <2>1, <2>2
<1>5. HoldersPlaced' /\ SwitchesAway'
  BY <1>1, <1>3, <1>4, HoldersFrame DEF Safe
<1>6. QueuesPlaced' /\ UnlinkedOffQueue' /\ CurrQueued'
  BY <1>1, <1>2, <1>4, QueuesFrame DEF Safe
<1>7. \A v \in Vcpus : vcpu_on_q(v)' <=> vcpu_on_q(v)
  BY <1>1, SameQueues DEF vcpu_on_q
<1>8. \A v \in Vcpus : v # p => migrating'[v] = migrating[v]
  <2>1. UNCHANGED migrating \/ migrating' = [migrating EXCEPT ![p] = FALSE]
    BY DEF SavedMigrate, vcpu_move_locked
  <2>. QED BY <2>1 DEF TypeOK
<1>9. PlacedInAffinity'
  <2>1. ASSUME NEW v \in Vcpus, Repinning(v)
        PROVE  migrating'[v] /\ OffCpu(v)'
    <3>1. v # p /\ v # Idle
      BY <2>1, ConfigAssumption DEF Repinning, OffCpu, ConfigAssumption
    <3>. QED BY <1>1, <1>3, <1>8, <2>1, <3>1 DEF Repinning, OffCpu
  <2>. QED BY <1>1, <1>4, <1>7, <2>1, AffinityFrame DEF Safe
<1>10. RunnableIsQueued'
  <2>1. \A v \in Vcpus : v # p => (vcpu_runnable(v)' <=> vcpu_runnable(v))
    BY <1>1, <1>8 DEF vcpu_runnable
  <2>2. \A v \in Vcpus : WakeInFlight(v) => WakeInFlight(v)'
    BY <1>1, <1>3 DEF WakeInFlight
  <2>3. CASE MustMove(p)
    <3>1. cpuPc' = [cpuPc EXCEPT ![c] = "wake"] /\ UNCHANGED saving
      BY <2>3 DEF SavedMigrate
    <3>2. \A v \in Vcpus : v = p => WakeInFlight(v)'
      BY <3>1 DEF TypeOK, WakeInFlight
    <3>. QED BY <1>7, <2>1, <2>2, <3>2 DEF Safe, RunnableIsQueued
  <2>4. CASE ~MustMove(p)
    <3>1. UNCHANGED migrating
      BY <2>4 DEF SavedMigrate
    <3>2. \A v \in Vcpus : vcpu_runnable(v)' <=> vcpu_runnable(v)
      BY <1>1, <3>1 DEF vcpu_runnable
    <3>. QED BY <1>7, <2>2, <3>2, RunnableFrame DEF Safe
  <2>. QED BY <2>3, <2>4
<1>. QED BY <1>5, <1>6, <1>9, <1>10 DEF Safe

(* context_saved(), last step: the vCPU switched away from is woken.        *)
LEMMA SafeSavedWake ==
  ASSUME QuietAdjust, TypeOK, ActorsSet, Safe, NEW c \in Cpus, SavedWake(c)
  PROVE  Safe'
<1>. DEFINE p == saving[c]
<1>1. /\ Undisturbed /\ cpuPc[c] = "wake" /\ p \in Vcpus /\ vcpu_wake(p)
      /\ UNCHANGED <<curr, processor, hardAffinity, isRunning, blocked, migrating, paused,
                     senderPc, senderVcpu, ctlPc, ctlVcpu>>
  BY DEF TypeOK, ActorsSet, SavedWake, placeVars, pauseVars, senderVars, ctlVars
<1>2. ctlPc # "reinsert"
  BY <1>1, QuietCtl
<1>3. /\ cpuPc'[c] = "guest" /\ \A d \in Cpus : d # c => cpuPc'[d] = cpuPc[d]
      /\ saving'[c] = Idle /\ \A d \in Cpus : d # c => saving'[d] = saving[d]
  BY DEF TypeOK, SavedWake, SwitchDone
<1>4. \A v \in Vcpus : runstate'[v] = "running" <=> runstate[v] = "running"
  BY <1>1, WakeQueues
<1>5. HoldersPlaced' /\ SwitchesAway'
  BY <1>1, <1>3, <1>4, HoldersFrame DEF Safe
<1>6. /\ QueuesPlaced' /\ UnlinkedOffQueue' /\ CurrQueued'
      /\ \A w \in Vcpus : vcpu_on_q(w) => vcpu_on_q(w)'
      /\ \A v \in Vcpus : v = p /\ vcpu_runnable(v) => vcpu_on_q(v)'
      /\ \A w \in Vcpus : ~vcpu_runnable(w) /\ vcpu_on_q(w)' => vcpu_on_q(w)
  BY <1>1, <1>2, QueuesWake DEF Safe
<1>7. PlacedInAffinity'
  <2>1. ASSUME NEW v \in Vcpus, Repinning(v)
        PROVE  migrating'[v] /\ OffCpu(v)'
    <3>1. v # Idle
      BY ConfigAssumption DEF ConfigAssumption
    <3>. QED BY <1>1, <1>3, <2>1, <3>1 DEF Repinning, OffCpu
  <2>2. \A v \in Vcpus : Repinning(v) => ~vcpu_runnable(v)
    BY DEF Repinning, vcpu_runnable
  <2>. QED BY <1>1, <1>6, <2>1, <2>2, AffinityFrame DEF Safe
<1>8. RunnableIsQueued'
  <2>1. \A v \in Vcpus : vcpu_runnable(v)' <=> vcpu_runnable(v)
    BY <1>1 DEF vcpu_runnable
  <2>2. \A v \in Vcpus : WakeInFlight(v) => WakeInFlight(v)' \/ v = p
    BY <1>1, <1>3 DEF WakeInFlight
  <2>. QED BY <1>6, <2>1, <2>2, RunnableFrame DEF Safe
<1>. QED BY <1>5, <1>6, <1>7, <1>8 DEF Safe

(* vcpu_block(): VPF_blocked set, later cleared again if an event came; the *)
(* vCPU concerned is the pCPU's current one, which is on its queue.         *)
LEMMA SafeBlock ==
  ASSUME QuietAdjust, TypeOK, ActorsSet, Safe, NEW c \in Cpus,
         vcpu_block(c) \/ BlockCheck(c)
  PROVE  Safe'
<1>. DEFINE v0 == curr[c]
<1>1. /\ Undisturbed /\ cpuPc[c] \in {"guest", "block"} /\ v0 \in Vcpus /\ v0 # Idle
      /\ UNCHANGED <<runq, curr, processor, hardAffinity, isRunning, runstate, migrating, paused,
                     saving, senderPc, senderVcpu, ctlPc, ctlVcpu>>
  BY ConfigAssumption, SMTT(30)
  DEF ConfigAssumption, TypeOK, ActorsSet, vcpu_block, BlockCheck, GuestRuns, fpVars, placeVars,
      pauseVars, senderVars, ctlVars
<1>2. ctlPc # "reinsert"
  BY <1>1, QuietCtl
<1>3. /\ cpuPc'[c] \in {"guest", "block"} /\ \A d \in Cpus : d # c => cpuPc'[d] = cpuPc[d]
  BY DEF TypeOK, vcpu_block, BlockCheck
<1>4. \A v \in Vcpus : v # v0 => blocked'[v] = blocked[v]
  <2>1. UNCHANGED blocked \/ \E b : blocked' = [blocked EXCEPT ![v0] = b]
    BY DEF vcpu_block, BlockCheck
  <2>. QED BY <2>1 DEF TypeOK
<1>5. HoldersPlaced' /\ SwitchesAway'
  BY <1>1, <1>3, HoldersFrame DEF Safe
<1>6. QueuesPlaced' /\ UnlinkedOffQueue' /\ CurrQueued'
  BY <1>1, <1>2, QueuesFrame DEF Safe
<1>7. \A v \in Vcpus : vcpu_on_q(v)' <=> vcpu_on_q(v)
  BY <1>1, SameQueues DEF vcpu_on_q
<1>8. PlacedInAffinity'
  BY <1>1, <1>7, AffinityFrame DEF Safe, Repinning, OffCpu
<1>9. RunnableIsQueued'
  <2>1. \A v \in Vcpus : v # v0 => (vcpu_runnable(v)' <=> vcpu_runnable(v))
    BY <1>1, <1>4 DEF vcpu_runnable
  <2>2. vcpu_on_q(v0)
    BY <1>1, <1>2 DEF Safe, CurrQueued, Unlinked, vcpu_on_q
  <2>3. \A v \in Vcpus : WakeInFlight(v) => WakeInFlight(v)'
    BY <1>1, <1>3 DEF WakeInFlight
  <2>. QED BY <1>7, <2>1, <2>2, <2>3 DEF Safe, RunnableIsQueued
<1>. QED BY <1>5, <1>6, <1>8, <1>9 DEF Safe

(* vcpu_unblock(): clearing VPF_blocked leaves the wake in flight.          *)
LEMMA SafeUnblock ==
  ASSUME QuietAdjust, TypeOK, ActorsSet, Safe, NEW s \in Senders, vcpu_unblock(s)
  PROVE  Safe'
<1>. DEFINE v0 == senderVcpu[s]
<1>1. /\ Undisturbed /\ senderPc[s] = "unblock" /\ v0 \in Vcpus
      /\ UNCHANGED <<runq, curr, processor, hardAffinity, isRunning, runstate, migrating, paused,
                     cpuPc, saving, ctlPc, ctlVcpu>>
  BY DEF TypeOK, ActorsSet, vcpu_unblock, fpVars, placeVars, cpuVars, ctlVars
<1>2. ctlPc # "reinsert"
  BY <1>1, QuietCtl
<1>3. HoldersPlaced' /\ SwitchesAway'
  BY <1>1, HoldersFrame DEF Safe
<1>4. QueuesPlaced' /\ UnlinkedOffQueue' /\ CurrQueued'
  BY <1>1, <1>2, QueuesFrame DEF Safe
<1>5. \A v \in Vcpus : vcpu_on_q(v)' <=> vcpu_on_q(v)
  BY <1>1, SameQueues DEF vcpu_on_q
<1>6. PlacedInAffinity'
  BY <1>1, <1>5, AffinityFrame DEF Safe, Repinning, OffCpu
<1>7. RunnableIsQueued'
  <2>1. CASE blocked[v0]
    <3>1. /\ blocked' = [blocked EXCEPT ![v0] = FALSE]
          /\ senderPc' = [senderPc EXCEPT ![s] = "wake"]
          /\ UNCHANGED senderVcpu
      BY <2>1 DEF vcpu_unblock
    <3>2. \A v \in Vcpus : v # v0 => (vcpu_runnable(v)' <=> vcpu_runnable(v))
      BY <1>1, <3>1 DEF TypeOK, vcpu_runnable
    <3>3. \A v \in Vcpus : WakeInFlight(v) \/ v = v0 => WakeInFlight(v)'
      BY <1>1, <3>1 DEF TypeOK, WakeInFlight
    <3>. QED BY <1>5, <3>2, <3>3 DEF Safe, RunnableIsQueued
  <2>2. CASE ~blocked[v0]
    <3>1. UNCHANGED blocked /\ SenderDone(s)
      BY <2>2 DEF vcpu_unblock
    <3>2. \A v \in Vcpus : vcpu_runnable(v)' <=> vcpu_runnable(v)
      BY <1>1, <3>1 DEF vcpu_runnable
    <3>3. \A r \in Senders : r # s => senderPc'[r] = senderPc[r] /\ senderVcpu'[r] = senderVcpu[r]
      BY <3>1 DEF TypeOK, SenderDone
    <3>4. \A v \in Vcpus : WakeInFlight(v) => WakeInFlight(v)'
      BY <1>1, <3>3 DEF WakeInFlight
    <3>. QED BY <1>5, <3>2, <3>4, RunnableFrame DEF Safe
  <2>. QED BY <2>1, <2>2
<1>. QED BY <1>3, <1>4, <1>6, <1>7 DEF Safe

(* vcpu_unblock(), the wake: a vCPU on its way to another pCPU is not       *)
(* runnable, so the wake cannot put it back on a queue.                     *)
LEMMA SafeUnblockWake ==
  ASSUME QuietAdjust, TypeOK, ActorsSet, Safe, NEW s \in Senders, UnblockWake(s)
  PROVE  Safe'
<1>. DEFINE v0 == senderVcpu[s]
<1>1. /\ Undisturbed /\ senderPc[s] = "wake" /\ v0 \in Vcpus /\ vcpu_wake(v0)
      /\ UNCHANGED <<curr, processor, hardAffinity, isRunning, blocked, migrating, paused,
                     cpuPc, saving, ctlPc, ctlVcpu>>
  BY DEF TypeOK, ActorsSet, UnblockWake, placeVars, pauseVars, cpuVars, ctlVars
<1>2. ctlPc # "reinsert"
  BY <1>1, QuietCtl
<1>3. \A r \in Senders : r # s => senderPc'[r] = senderPc[r] /\ senderVcpu'[r] = senderVcpu[r]
  BY DEF TypeOK, UnblockWake, SenderDone
<1>4. \A v \in Vcpus : runstate'[v] = "running" <=> runstate[v] = "running"
  BY <1>1, WakeQueues
<1>5. HoldersPlaced' /\ SwitchesAway'
  BY <1>1, <1>4, HoldersFrame DEF Safe
<1>6. /\ QueuesPlaced' /\ UnlinkedOffQueue' /\ CurrQueued'
      /\ \A w \in Vcpus : vcpu_on_q(w) => vcpu_on_q(w)'
      /\ \A v \in Vcpus : v = v0 /\ vcpu_runnable(v) => vcpu_on_q(v)'
      /\ \A w \in Vcpus : ~vcpu_runnable(w) /\ vcpu_on_q(w)' => vcpu_on_q(w)
  BY <1>1, <1>2, QueuesWake DEF Safe
<1>7. PlacedInAffinity'
  <2>1. \A v \in Vcpus : Repinning(v) => ~vcpu_runnable(v)
    BY DEF Repinning, vcpu_runnable
  <2>2. \A v \in Vcpus : Repinning(v) => migrating'[v] /\ OffCpu(v)'
    BY <1>1 DEF Repinning, OffCpu
  <2>. QED BY <1>1, <1>6, <2>1, <2>2, AffinityFrame DEF Safe
<1>8. RunnableIsQueued'
  <2>1. \A v \in Vcpus : vcpu_runnable(v)' <=> vcpu_runnable(v)
    BY <1>1 DEF vcpu_runnable
  <2>2. \A v \in Vcpus : WakeInFlight(v) => WakeInFlight(v)' \/ v = v0
    BY <1>1, <1>3 DEF WakeInFlight
  <2>. QED BY <1>6, <2>1, <2>2, RunnableFrame DEF Safe
<1>. QED BY <1>5, <1>6, <1>7, <1>8 DEF Safe

------------------------------------------------------------------------------
(* Steps of the toolstack *)

(* Operations that begin: the flags change before the lock is taken, and    *)
(* what makes a vCPU runnable announces the wake.                           *)
LEMMA SafeBegin ==
  ASSUME TypeOK, Safe, ctlPc = "idle", ctlPc' # "reinsert",
         UNCHANGED <<runq, curr, processor, isRunning, runstate, blocked, cpuPc, saving,
                     senderPc, senderVcpu>>,
         \A v \in Vcpus : hardAffinity'[v] = hardAffinity[v] \/ Repinning(v)',
         \A v \in Vcpus : vcpu_runnable(v)' => vcpu_runnable(v) \/ WakeInFlight(v)'
  PROVE  Safe'
<1>1. HoldersPlaced' /\ SwitchesAway'
  BY HoldersFrame DEF Safe
<1>2. QueuesPlaced' /\ UnlinkedOffQueue' /\ CurrQueued'
  BY QueuesFrame DEF Safe
<1>3. \A v \in Vcpus : vcpu_on_q(v)' <=> vcpu_on_q(v)
  BY SameQueues DEF vcpu_on_q
<1>4. PlacedInAffinity'
  BY AffinitySettled DEF Safe, PlacedInAffinity
<1>5. RunnableIsQueued'
  <2>1. \A v \in Vcpus : WakeInFlight(v) => WakeInFlight(v)'
    BY DEF WakeInFlight
  <2>. QED BY <1>3, <2>1 DEF Safe, RunnableIsQueued
<1>. QED BY <1>1, <1>2, <1>4, <1>5 DEF Safe

(* Pausing, unpausing, re-pinning, rescheduling and adjusting begin safely. *)
LEMMA SafeCtlStart ==
  ASSUME ~MigrateRunning, TypeOK, Safe, CtlStart
  PROVE  Safe'
<1>. USE DEF fpVars, placeVars, pauseVars, senderVars, cpuVars
<1>0. Idle \notin Vcpus
  BY ConfigAssumption DEF ConfigAssumption
<1>1. ASSUME NEW v \in Vcpus, NEW pc \in {"pause", "pause_nosync"}, vcpu_pause(v, pc)
      PROVE  Safe'
  <2>1. /\ ctlPc = "idle" /\ ctlPc' # "reinsert"
        /\ UNCHANGED <<runq, curr, processor, hardAffinity, isRunning, runstate, blocked,
                       migrating, cpuPc, saving, senderPc, senderVcpu>>
    BY <1>1 DEF vcpu_pause, CtlBegin
  <2>2. \A w \in Vcpus : vcpu_runnable(w)' => vcpu_runnable(w)
    BY <1>1, <2>1 DEF TypeOK, vcpu_pause, vcpu_runnable
  <2>. QED BY <2>1, <2>2, SafeBegin
<1>2. ASSUME NEW v \in Vcpus, vcpu_unpause(v)
      PROVE  Safe'
  <2>1. /\ ctlPc = "idle" /\ ctlPc' = "wake" /\ ctlVcpu' = v
        /\ UNCHANGED <<runq, curr, processor, hardAffinity, isRunning, runstate, blocked,
                       migrating, cpuPc, saving, senderPc, senderVcpu>>
    BY <1>2 DEF vcpu_unpause, CtlBegin
  <2>2. \A w \in Vcpus : vcpu_runnable(w)' => vcpu_runnable(w) \/ w = v
    BY <1>2, <2>1 DEF TypeOK, vcpu_unpause, vcpu_runnable
  <2>3. WakeInFlight(v)'
    BY <2>1 DEF WakeInFlight
  <2>. QED BY <2>1, <2>2, <2>3, SafeBegin
<1>3. ASSUME NEW v \in Vcpus, NEW mask, vcpu_set_hard_affinity(v, mask)
      PROVE  Safe'
  <2>1. /\ ctlPc = "idle" /\ ctlPc' = "affinity" /\ ctlVcpu' = v
        /\ UNCHANGED <<runq, curr, processor, isRunning, runstate, blocked, paused,
                       cpuPc, saving, senderPc, senderVcpu>>
        /\ OffCpu(v)
    BY <1>3 DEF vcpu_set_hard_affinity, CtlBegin
  <2>2. \A w \in Vcpus : vcpu_runnable(w)' => vcpu_runnable(w)
    BY <1>3, <2>1 DEF TypeOK, vcpu_set_hard_affinity, vcpu_runnable
  <2>3. \A w \in Vcpus : w # v => hardAffinity'[w] = hardAffinity[w]
    BY <1>3 DEF TypeOK, vcpu_set_hard_affinity
  <2>4. Repinning(v)'
    BY <1>3, <2>1 DEF TypeOK, vcpu_set_hard_affinity, Repinning, OffCpu
  <2>. QED BY <2>1, <2>2, <2>3, <2>4, SafeBegin
<1>4. ASSUME NEW v \in Vcpus, vcpu_force_reschedule(v)
      PROVE  Safe'
  <2>1. /\ ctlPc = "idle" /\ ctlPc' = "affinity"
        /\ UNCHANGED <<runq, curr, processor, hardAffinity, isRunning, runstate, blocked, paused,
                       cpuPc, saving, senderPc, senderVcpu>>
    BY <1>4 DEF vcpu_force_reschedule, CtlBegin
  <2>2. \A w \in Vcpus : vcpu_runnable(w)' => vcpu_runnable(w)
    BY <1>4, <2>1 DEF TypeOK, vcpu_force_reschedule, vcpu_runnable
  <2>. QED BY <2>1, <2>2, SafeBegin
<1>5. ASSUME NEW d, NEW x, fp_adjust(d, x) \/ fp_adjust_global(x)
      PROVE  Safe'
  <2>1. /\ ctlPc = "idle" /\ ctlPc' # "reinsert"
        /\ UNCHANGED <<runq, curr, processor, hardAffinity, isRunning, runstate, blocked,
                       migrating, paused, cpuPc, saving, senderPc, senderVcpu>>
    BY <1>5 DEF fp_adjust, fp_adjust_global, SetPriorities
  <2>2. \A w \in Vcpus : vcpu_runnable(w)' => vcpu_runnable(w)
    BY <2>1 DEF vcpu_runnable
  <2>. QED BY <2>1, <2>2, SafeBegin
<1>. QED BY <1>1, <1>2, <1>3, <1>4, <1>5 DEF CtlStart

(* vcpu_sleep_nosync() from vcpu_pause(): a vCPU that its pCPU runs stays   *)
(* on the queue, any other leaves it.                                       *)
LEMMA SafePauseSleep ==
  ASSUME TypeOK, ActorsSet, Safe, PauseSleep
  PROVE  Safe'
<1>. USE DEF placeVars, pauseVars, senderVars, cpuVars
<1>1. /\ ctlPc \in {"pause", "pause_nosync"} /\ ctlVcpu \in Vcpus /\ vcpu_sleep_nosync(ctlVcpu)
      /\ UNCHANGED <<curr, processor, hardAffinity, isRunning, blocked, migrating, paused,
                     cpuPc, saving, senderPc, senderVcpu>>
  BY DEF TypeOK, ActorsSet, PauseSleep
<1>2. ctlPc' \in {"sync", "idle"}
  BY DEF PauseSleep, CtlGoto, CtlDone
<1>3. \A v \in Vcpus : runstate'[v] = "running" <=> runstate[v] = "running"
  BY <1>1, SleepQueues
<1>4. HoldersPlaced' /\ SwitchesAway'
  BY <1>1, <1>3, HoldersFrame DEF Safe
<1>5. /\ QueuesPlaced' /\ UnlinkedOffQueue' /\ CurrQueued'
      /\ \A w \in Vcpus : vcpu_runnable(w) /\ vcpu_on_q(w) => vcpu_on_q(w)'
  BY <1>1, <1>2, QueuesSleep DEF Safe
<1>6. PlacedInAffinity'
  BY <1>1, AffinitySettledFrame DEF Safe
<1>7. RunnableIsQueued'
  <2>1. \A v \in Vcpus : vcpu_runnable(v)' <=> vcpu_runnable(v)
    BY <1>1 DEF vcpu_runnable
  <2>2. \A v \in Vcpus : WakeInFlight(v) => WakeInFlight(v)'
    BY <1>1 DEF WakeInFlight
  <2>. QED BY <1>5, <2>1, <2>2, RunnableFrame DEF Safe
<1>. QED BY <1>4, <1>5, <1>6, <1>7 DEF Safe

(* The end of vcpu_pause(). *)
LEMMA SafeSleepSync ==
  ASSUME TypeOK, Safe, vcpu_sleep_sync
  PROVE  Safe'
<1>1. /\ ctlPc = "sync" /\ ctlPc' = "idle"
      /\ UNCHANGED <<runq, curr, processor, hardAffinity, isRunning, runstate, blocked, migrating,
                     paused, cpuPc, saving, senderPc, senderVcpu>>
  BY DEF vcpu_sleep_sync, CtlDone, fpVars, placeVars, pauseVars, senderVars, cpuVars
<1>2. HoldersPlaced' /\ SwitchesAway'
  BY <1>1, HoldersFrame DEF Safe
<1>3. QueuesPlaced' /\ UnlinkedOffQueue' /\ CurrQueued'
  BY <1>1, QueuesFrame DEF Safe
<1>4. PlacedInAffinity'
  BY <1>1, AffinitySettledFrame DEF Safe
<1>5. RunnableIsQueued'
  <2>1. \A v \in Vcpus : vcpu_on_q(v)' <=> vcpu_on_q(v)
    BY <1>1, SameQueues DEF vcpu_on_q
  <2>2. \A v \in Vcpus : WakeInFlight(v) => WakeInFlight(v)'
    BY <1>1 DEF WakeInFlight
  <2>. QED BY <1>1, <2>1, <2>2, RunnableFrame DEF Safe, vcpu_runnable
<1>. QED BY <1>2, <1>3, <1>4, <1>5 DEF Safe

(* vcpu_sleep_nosync() on the migration path: a vCPU re-pinned while off    *)
(* the CPU is off the queues afterwards.                                    *)
LEMMA SafeAffinitySleep ==
  ASSUME TypeOK, ActorsSet, Safe, AffinitySleep
  PROVE  Safe'
<1>. DEFINE v0 == ctlVcpu
<1>1. /\ ctlPc = "affinity" /\ v0 \in Vcpus
      /\ UNCHANGED <<curr, processor, hardAffinity, isRunning, blocked, migrating, paused,
                     cpuPc, saving, senderPc, senderVcpu>>
  BY DEF TypeOK, ActorsSet, AffinitySleep, placeVars, pauseVars, senderVars, cpuVars
<1>2. \A v \in Vcpus : vcpu_runnable(v)' <=> vcpu_runnable(v)
  BY <1>1 DEF vcpu_runnable
<1>3. CASE vcpu_sleep_nosync(v0) /\ CtlGoto("migrate")
  <2>1. vcpu_sleep_nosync(v0) /\ ctlPc' = "migrate" /\ ctlVcpu' = v0
    BY <1>3 DEF CtlGoto
  <2>2. \A v \in Vcpus : runstate'[v] = "running" <=> runstate[v] = "running"
    BY <1>1, <2>1, SleepQueues
  <2>3. HoldersPlaced' /\ SwitchesAway'
    BY <1>1, <2>2, HoldersFrame DEF Safe
  <2>4. /\ QueuesPlaced' /\ UnlinkedOffQueue' /\ CurrQueued'
        /\ \A w \in Vcpus : vcpu_runnable(w) /\ vcpu_on_q(w) => vcpu_on_q(w)'
        /\ \A v \in Vcpus : v = v0 /\ ~vcpu_runnable(v) /\ ~isRunning[v] => ~vcpu_on_q(v)'
    BY <1>1, <2>1, QueuesSleep DEF Safe
  <2>5. ASSUME NEW v \in Vcpus, Repinning(v)
        PROVE  Repinning(v)'
    <3>1. v = v0 /\ ~vcpu_runnable(v) /\ ~isRunning[v]
      BY <2>5 DEF Repinning, OffCpu, vcpu_runnable
    <3>. QED BY <1>1, <2>1, <2>4, <2>5, <3>1 DEF Repinning, OffCpu
  <2>6. PlacedInAffinity'
    BY <1>1, <2>5 DEF Safe, PlacedInAffinity
  <2>7. \A v \in Vcpus : WakeInFlight(v) => WakeInFlight(v)'
    BY <1>1 DEF WakeInFlight
  <2>. QED BY <1>2, <2>3, <2>4, <2>6, <2>7, RunnableFrame DEF Safe
<1>4. CASE ~migrating[v0] /\ CtlDone /\ UNCHANGED <<runstate, runq, softirq>>
  <2>1. UNCHANGED <<runstate, runq>> /\ ctlPc' = "idle"
    BY <1>4 DEF CtlDone
  <2>2. HoldersPlaced' /\ SwitchesAway'
    BY <1>1, <2>1, HoldersFrame DEF Safe
  <2>3. QueuesPlaced' /\ UnlinkedOffQueue' /\ CurrQueued'
    BY <1>1, <2>1, QueuesFrame DEF Safe
  <2>4. PlacedInAffinity'
    BY <1>1, <1>4 DEF Safe, PlacedInAffinity, Repinning
  <2>5. \A v \in Vcpus : vcpu_on_q(v)' <=> vcpu_on_q(v)
    BY <2>1, SameQueues DEF vcpu_on_q
  <2>6. \A v \in Vcpus : WakeInFlight(v) => WakeInFlight(v)'
    BY <1>1 DEF WakeInFlight
  <2>. QED BY <1>2, <2>2, <2>3, <2>4, <2>5, <2>6, RunnableFrame DEF Safe
<1>. QED BY <1>3, <1>4 DEF AffinitySleep

(* vcpu_migrate(): v->processor changes only for a vCPU that no pCPU holds  *)
(* and no queue links; the others are put where they already are.           *)
LEMMA SafeMigrate ==
  ASSUME TypeOK, ActorsSet, Safe, vcpu_migrate
  PROVE  Safe'
<1>. DEFINE v0 == ctlVcpu
<1>1. /\ ctlPc = "migrate" /\ v0 \in Vcpus
      /\ UNCHANGED <<runq, curr, hardAffinity, isRunning, runstate, blocked, paused,
                     cpuPc, saving, senderPc, senderVcpu>>
  BY DEF TypeOK, ActorsSet, vcpu_migrate, fpVars, senderVars, cpuVars
<1>2. \A v \in Vcpus : vcpu_on_q(v)' <=> vcpu_on_q(v)
  BY <1>1, SameQueues DEF vcpu_on_q
<1>3. \A v \in Vcpus : WakeInFlight(v) => WakeInFlight(v)'
  BY <1>1 DEF WakeInFlight
<1>4. CASE MustMove(v0)
  <2>1. /\ migrating' = [migrating EXCEPT ![v0] = FALSE]
        /\ processor' = [processor EXCEPT ![v0] = fp_pick_cpu(v0)]
        /\ ctlPc' = "wake" /\ ctlVcpu' = v0
    BY <1>4 DEF vcpu_migrate, vcpu_move_locked, CtlGoto
  <2>2. /\ \A v \in Vcpus : v # v0 => processor'[v] = processor[v] /\ migrating'[v] = migrating[v]
        /\ processor'[v0] = fp_pick_cpu(v0)
    BY <1>1, <2>1 DEF TypeOK
  <2>3. /\ fp_pick_cpu(v0) \in hardAffinity[v0]
        /\ processor[v0] \in hardAffinity[v0] => fp_pick_cpu(v0) = processor[v0]
    BY <1>1, PickCpu
  <2>4. \A v \in Vcpus : processor'[v] # processor[v] => v = v0 /\ OffCpu(v) /\ ~vcpu_on_q(v)
    BY <1>1, <2>2, <2>3 DEF Safe, PlacedInAffinity, Repinning
  <2>5. HoldersPlaced' /\ SwitchesAway'
    <3>1. \A c \in Cpus, v \in Vcpus : Holds(c, v)' <=> Holds(c, v)
      BY <1>1 DEF Holds
    <3>2. \A c \in Cpus, v \in Vcpus : Holds(c, v) => isRunning[v]
      BY DEF Safe, HoldersPlaced
    <3>3. \A c \in Cpus, v \in Vcpus : Holds(c, v) => processor'[v] = processor[v]
      BY <2>4, <3>2 DEF OffCpu
    <3>4. HoldersPlaced'
      BY <1>1, <3>1, <3>3 DEF Safe, HoldersPlaced
    <3>5. SwitchesAway'
      BY <1>1 DEF Safe, SwitchesAway
    <3>. QED BY <3>4, <3>5
  <2>6. QueuesPlaced' /\ UnlinkedOffQueue' /\ CurrQueued'
    <3>1. \A d \in Cpus : Queued(d)' = Queued(d) /\ (Once(runq[d])' <=> Once(runq[d]))
      BY <1>1, SameQueues
    <3>2. \A d \in Cpus : \A v \in Queued(d) : v \in Vcpus
      BY DEF TypeOK, Queued
    <3>3. \A d \in Cpus : \A v \in Queued(d) : processor'[v] = processor[v]
      BY <2>4, <3>2 DEF vcpu_on_q
    <3>4. QueuesPlaced'
      BY <3>1, <3>3 DEF Safe, QueuesPlaced
    <3>5. UnlinkedOffQueue' /\ CurrQueued'
      BY <1>1, <2>1, <3>1 DEF Safe, UnlinkedOffQueue, CurrQueued, Unlinked
    <3>. QED BY <3>4, <3>5
  <2>7. PlacedInAffinity'
    BY <1>1, <2>2, <2>3 DEF Safe, PlacedInAffinity, Repinning
  <2>8. RunnableIsQueued'
    <3>1. \A v \in Vcpus : v # v0 => (vcpu_runnable(v)' <=> vcpu_runnable(v))
      BY <1>1, <2>2 DEF vcpu_runnable
    <3>2. \A v \in Vcpus : v = v0 => WakeInFlight(v)'
      BY <2>1 DEF WakeInFlight
    <3>. QED BY <1>2, <1>3, <3>1, <3>2 DEF Safe, RunnableIsQueued
  <2>. QED BY <2>5, <2>6, <2>7, <2>8 DEF Safe
<1>5. CASE ~MustMove(v0)
  <2>1. UNCHANGED <<migrating, processor>> /\ ctlPc' = "idle"
    BY <1>5 DEF vcpu_migrate, CtlDone
  <2>2. HoldersPlaced' /\ SwitchesAway'
    BY <1>1, <2>1, HoldersFrame DEF Safe
  <2>3. QueuesPlaced' /\ UnlinkedOffQueue' /\ CurrQueued'
    BY <1>1, <2>1, QueuesFrame DEF Safe
  <2>4. PlacedInAffinity'
    BY <1>1, <1>5, <2>1 DEF Safe, PlacedInAffinity, Repinning, OffCpu, MustMove
  <2>5. RunnableIsQueued'
    BY <1>1, <1>2, <1>3, <2>1, RunnableFrame DEF Safe, vcpu_runnable
  <2>. QED BY <2>2, <2>3, <2>4, <2>5 DEF Safe
<1>. QED BY <1>4, <1>5

(* vcpu_wake() at the end of vcpu_unpause() and of a migration.             *)
LEMMA SafeCtlWake ==
  ASSUME TypeOK, ActorsSet, Safe, CtlWake
  PROVE  Safe'
<1>. DEFINE v0 == ctlVcpu
<1>1. /\ ctlPc = "wake" /\ ctlPc' = "idle" /\ v0 \in Vcpus /\ vcpu_wake(v0)
      /\ UNCHANGED <<curr, processor, hardAffinity, isRunning, blocked, migrating, paused,
                     cpuPc, saving, senderPc, senderVcpu>>
  BY DEF TypeOK, ActorsSet, CtlWake, CtlDone, placeVars, pauseVars, cpuVars, senderVars
<1>2. \A v \in Vcpus : runstate'[v] = "running" <=> runstate[v] = "running"
  BY <1>1, WakeQueues
<1>3. HoldersPlaced' /\ SwitchesAway'
  BY <1>1, <1>2, HoldersFrame DEF Safe
<1>4. /\ QueuesPlaced' /\ UnlinkedOffQueue' /\ CurrQueued'
      /\ \A w \in Vcpus : vcpu_on_q(w) => vcpu_on_q(w)'
      /\ \A v \in Vcpus : v = v0 /\ vcpu_runnable(v) => vcpu_on_q(v)'
  BY <1>1, QueuesWake DEF Safe
<1>5. PlacedInAffinity'
  BY <1>1, AffinitySettledFrame DEF Safe
<1>6. RunnableIsQueued'
  <2>1. \A v \in Vcpus : vcpu_runnable(v)' <=> vcpu_runnable(v)
    BY <1>1 DEF vcpu_runnable
  <2>2. \A v \in Vcpus : WakeInFlight(v) => WakeInFlight(v)' \/ v = v0
    BY <1>1 DEF WakeInFlight
  <2>. QED BY <1>4, <2>1, <2>2, RunnableFrame DEF Safe
<1>. QED BY <1>3, <1>4, <1>5, <1>6 DEF Safe

(* fp_reinsertsort_vcpu(), first half: the vCPU is off every queue.         *)
LEMMA SafeAdjustUnlink ==
  ASSUME TypeOK, Safe, NEW v0 \in ctlTodo, AdjustUnlink(v0)
  PROVE  Safe'
<1>1. /\ ctlPc = "unlink" /\ ctlPc' = "reinsert" /\ ctlVcpu' = v0 /\ v0 \in Vcpus
      /\ remove_from_queue(v0)
      /\ UNCHANGED <<curr, processor, hardAffinity, isRunning, runstate, blocked, migrating,
                     paused, cpuPc, saving, senderPc, senderVcpu>>
  BY DEF TypeOK, AdjustUnlink, ReprioritiseAndUnlink, placeVars, pauseVars, cpuVars, senderVars
<1>2. /\ \A d \in Cpus : Queued(d)' \subseteq Queued(d) /\ Queued(d) \ {v0} \subseteq Queued(d)'
      /\ \A d \in Cpus : Once(runq[d]) => Once(runq[d])' /\ v0 \notin Queued(d)'
  BY <1>1, RunqRemove
<1>3. HoldersPlaced' /\ SwitchesAway'
  BY <1>1, HoldersFrame DEF Safe
<1>4. QueuesPlaced'
  BY <1>1, <1>2 DEF Safe, QueuesPlaced
<1>5. UnlinkedOffQueue'
  BY <1>1, <1>2 DEF Safe, QueuesPlaced, UnlinkedOffQueue, Unlinked, vcpu_on_q
<1>6. CurrQueued'
  BY <1>1, <1>2 DEF Safe, CurrQueued, Unlinked
<1>7. PlacedInAffinity'
  BY <1>1, AffinitySettledFrame DEF Safe
<1>8. RunnableIsQueued'
  <2>1. \A v \in Vcpus : vcpu_runnable(v)' <=> vcpu_runnable(v)
    BY <1>1 DEF vcpu_runnable
  <2>2. \A v \in Vcpus : v # v0 => (vcpu_on_q(v) => vcpu_on_q(v)')
    BY <1>2 DEF vcpu_on_q
  <2>3. \A v \in Vcpus : WakeInFlight(v) \/ v = v0 => WakeInFlight(v)'
    BY <1>1 DEF WakeInFlight
  <2>. QED BY <2>1, <2>2, <2>3 DEF Safe, RunnableIsQueued
<1>. QED BY <1>3, <1>4, <1>5, <1>6, <1>7, <1>8 DEF Safe

(* fp_reinsertsort_vcpu(), second half: it is back on its own pCPU's queue. *)
LEMMA SafeAdjustReinsert ==
  ASSUME TypeOK, ActorsSet, Safe, AdjustReinsert
  PROVE  Safe'
<1>. DEFINE v0 == ctlVcpu
<1>1. /\ ctlPc = "reinsert" /\ v0 \in Vcpus /\ processor[v0] \in Cpus
      /\ runq_insert(processor[v0], v0)
      /\ UNCHANGED <<curr, processor, hardAffinity, isRunning, runstate, blocked, migrating,
                     paused, cpuPc, saving, senderPc, senderVcpu>>
  BY DEF TypeOK, ActorsSet, AdjustReinsert, Reinsert, placeVars, pauseVars, cpuVars, senderVars
<1>2. ctlPc' \in {"idle", "unlink"}
  BY DEF AdjustReinsert, CtlDone, CtlGoto
<1>3. /\ \A d \in Cpus : Queued(d)' = IF d = processor[v0] THEN Queued(d) \cup {v0} ELSE Queued(d)
      /\ \A d \in Cpus : Once(runq[d]) /\ v0 \notin Queued(processor[v0]) => Once(runq[d])'
  BY <1>1, RunqInsert
<1>4. v0 \notin Queued(processor[v0])
  BY <1>1 DEF Safe, UnlinkedOffQueue, Unlinked, vcpu_on_q
<1>5. HoldersPlaced' /\ SwitchesAway'
  BY <1>1, HoldersFrame DEF Safe
<1>6. QueuesPlaced'
  BY <1>1, <1>3, <1>4 DEF Safe, QueuesPlaced
<1>7. UnlinkedOffQueue'
  BY <1>2 DEF UnlinkedOffQueue, Unlinked
<1>8. CurrQueued'
  <2>. SUFFICES ASSUME NEW c \in Cpus, curr[c] # Idle
                PROVE  curr[c] \in Queued(c)'
    BY <1>1 DEF CurrQueued
  <2>1. curr[c] \in Queued(c) \/ curr[c] = v0
    BY DEF Safe, CurrQueued, Unlinked
  <2>2. processor[curr[c]] = c
    BY CurrPlaced DEF Safe
  <2>. QED BY <1>3, <2>1, <2>2
<1>9. PlacedInAffinity'
  BY <1>1, AffinitySettledFrame DEF Safe
<1>10. RunnableIsQueued'
  <2>1. \A v \in Vcpus : vcpu_runnable(v)' <=> vcpu_runnable(v)
    BY <1>1 DEF vcpu_runnable
  <2>2. \A v \in Vcpus : vcpu_on_q(v) \/ v = v0 => vcpu_on_q(v)'
    BY <1>1, <1>3 DEF vcpu_on_q
  <2>3. \A v \in Vcpus : WakeInFlight(v) => WakeInFlight(v)' \/ v = v0
    BY <1>1 DEF WakeInFlight
  <2>. QED BY <2>1, <2>2, <2>3, RunnableFrame DEF Safe
<1>. QED BY <1>5, <1>6, <1>7, <1>8, <1>9, <1>10 DEF Safe

------------------------------------------------------------------------------
(* The theorems *)

(* Every step of every actor keeps InductiveInv. *)
LEMMA InvStep ==
  ASSUME QuietAdjust, ~MigrateRunning, InductiveInv, [Next]_vars
  PROVE  InductiveInv'
<1>0. TypeOK /\ ActorsSet /\ Safe
  BY DEF InductiveInv, Safe
<1>1. TypeOK' /\ ActorsSet'
  BY <1>0, TypeStep
<1>2. ASSUME NEW c \in Cpus, CpuStep(c)
      PROVE  Safe'
  <2>1. CASE do_tasklet(c)
    BY <1>0, <2>1, SafeQuiet
    DEF do_tasklet, fpVars, placeVars, pauseVars, cpuVars, senderVars, ctlVars
  <2>. QED BY <1>0, <1>2, <2>1, SafeSchedule, SafeContextSaved, SafeSavedMigrate, SafeSavedWake
         DEF CpuStep
<1>3. ASSUME NEW c \in Cpus, GuestStep(c)
      PROVE  Safe'
  <2>1. CASE vcpu_yield(c) \/ TakeEvents(c)
    BY <1>0, <2>1, SafeQuiet
    DEF vcpu_yield, TakeEvents, fpVars, placeVars, pauseVars, cpuVars, senderVars, ctlVars
  <2>. QED BY <1>0, <1>3, <2>1, SafeBlock DEF GuestStep
<1>4. ASSUME NEW c, s_timer_fn(c) \/ tasklet_schedule(c)
      PROVE  Safe'
  BY <1>0, <1>4, SafeQuiet
  DEF s_timer_fn, tasklet_schedule, fpVars, placeVars, pauseVars, cpuVars, senderVars, ctlVars
<1>5. ASSUME NEW s \in Senders, SenderStep(s)
      PROVE  Safe'
  <2>1. ASSUME NEW v \in Vcpus, vcpu_mark_events_pending(s, v)
        PROVE  Safe'
    <3>1. /\ UNCHANGED <<runq, curr, processor, hardAffinity, isRunning, runstate, blocked,
                         migrating, paused, cpuPc, saving, ctlPc, ctlVcpu>>
          /\ senderPc[s] = "idle"
      BY <2>1
      DEF vcpu_mark_events_pending, fpVars, placeVars, pauseVars, cpuVars, ctlVars
    <3>2. \A r \in Senders : r # s => senderPc'[r] = senderPc[r] /\ senderVcpu'[r] = senderVcpu[r]
      BY <1>0, <2>1 DEF TypeOK, vcpu_mark_events_pending
    <3>. QED BY <1>0, <3>1, <3>2, SafeQuiet
  <2>. QED BY <1>0, <1>5, <2>1, SafeUnblock, SafeUnblockWake DEF SenderStep
<1>6. ASSUME CtlStart
      PROVE  Safe'
  BY <1>0, <1>6, SafeCtlStart
<1>7. ASSUME CtlStep
      PROVE  Safe'
  BY <1>0, <1>7, SafePauseSleep, SafeSleepSync, SafeAffinitySleep, SafeMigrate, SafeCtlWake,
     SafeAdjustUnlink, SafeAdjustReinsert DEF CtlStep
<1>8. ASSUME UNCHANGED vars
      PROVE  Safe'
  <2>1. UNCHANGED <<runq, curr, processor, hardAffinity, isRunning, runstate, blocked, migrating,
                    paused, cpuPc, saving, ctlPc, ctlVcpu, senderPc, senderVcpu>>
    BY <1>8 DEF vars, fpVars, placeVars, pauseVars, cpuVars, senderVars, ctlVars
  <2>. QED BY <1>0, <2>1, SafeQuiet
<1>9. Safe'
  <2>1. ASSUME Next
        PROVE  Safe'
    BY <1>2, <1>3, <1>4, <1>5, <1>6, <1>7, <2>1, Zenon DEF Next
  <2>. QED BY <1>8, <2>1
<1>. QED BY <1>1, <1>9 DEF InductiveInv, Safe

(* Paused vCPUs, empty queues and idle pCPUs satisfy InductiveInv.          *)
LEMMA InvInit == Init => InductiveInv
<1>. SUFFICES ASSUME Init PROVE InductiveInv
  OBVIOUS
<1>1. TypeOK /\ ActorsSet
  BY TypeInit
<1>2. Idle \notin Vcpus
  BY ConfigAssumption DEF ConfigAssumption
<1>3. \A c \in Cpus, v \in Vcpus : ~Holds(c, v)
  BY <1>2 DEF Init, Holds
<1>4. HoldersPlaced
  BY <1>2, <1>3 DEF Init, HoldersPlaced
<1>5. \A c \in Cpus : Queued(c) = {} /\ Once(runq[c])
  BY DEF Init, FpInit, Queued, Once
<1>6. SwitchesAway /\ QueuesPlaced /\ UnlinkedOffQueue /\ CurrQueued
  BY <1>5 DEF Init, SwitchesAway, QueuesPlaced, UnlinkedOffQueue, Unlinked, CurrQueued
<1>7. PlacedInAffinity
  BY DEF Init, PlacedInAffinity
<1>8. RunnableIsQueued
  BY DEF Init, RunnableIsQueued, vcpu_runnable
<1>. QED BY <1>1, <1>4, <1>6, <1>7, <1>8 DEF InductiveInv

(* A vCPU is held only by the pCPU it is placed on, queued only there, and  *)
(* placed elsewhere only while it is off the CPU and off the queues; a      *)
(* runnable one is queued or about to be.                                   *)
THEOREM InvariantHolds ==
  ASSUME QuietAdjust, ~MigrateRunning
  PROVE  Spec => []InductiveInv
<1>1. InductiveInv /\ [Next]_vars => InductiveInv'
  BY InvStep
<1>. QED BY <1>1, InvInit, PTL DEF Spec

(* Queues placed on one pCPU each, every vCPU once, are intact.             *)
LEMMA InvImpliesRunqIntegrity == InductiveInv => RunqIntegrity
<1>. SUFFICES ASSUME InductiveInv PROVE RunqIntegrity
  OBVIOUS
<1>1. \A c \in Cpus : \A i \in 1 .. Len(runq[c]) : processor[runq[c][i]] = c
  BY DEF InductiveInv, QueuesPlaced, Queued
<1>2. \A c \in Cpus : \A i, j \in 1 .. Len(runq[c]) : runq[c][i] = runq[c][j] => i = j
  BY DEF InductiveInv, QueuesPlaced, Once
<1>. QED BY <1>1, <1>2 DEF RunqIntegrity

(* A vCPU held only where it is placed is held by one pCPU at most.         *)
LEMMA InvImpliesOneHolder == InductiveInv => OneHolder
BY DEF InductiveInv, HoldersPlaced, OneHolder

(* A vCPU being re-pinned is off the CPU; any other is placed within its    *)
(* affinity, and held there.                                                *)
LEMMA InvImpliesAffinity == InductiveInv => AffinityRespected
<1>. SUFFICES ASSUME InductiveInv, NEW c \in Cpus, curr[c] # Idle
              PROVE  c \in hardAffinity[curr[c]]
  BY DEF AffinityRespected
<1>1. curr[c] \in Vcpus /\ processor[curr[c]] = c /\ isRunning[curr[c]]
  BY CurrPlaced DEF InductiveInv
<1>. QED BY <1>1 DEF InductiveInv, PlacedInAffinity, Repinning, OffCpu

(* No vCPU is ever linked twice or into the wrong pCPU's queue, although    *)
(* fp_vcpu_wake tests only whether it is on some queue.                     *)
THEOREM QueuesIntact ==
  ASSUME QuietAdjust, ~MigrateRunning
  PROVE  Spec => []RunqIntegrity
BY InvariantHolds, InvImpliesRunqIntegrity, PTL

(* No vCPU ever runs on two pCPUs, and is_running tells the truth.          *)
THEOREM NeverRunTwice ==
  ASSUME QuietAdjust, ~MigrateRunning
  PROVE  Spec => []OneHolder
BY InvariantHolds, InvImpliesOneHolder, PTL

(* A pCPU runs only vCPUs whose hard affinity allows it.                    *)
THEOREM AffinityHonoured ==
  ASSUME QuietAdjust, ~MigrateRunning
  PROVE  Spec => []AffinityRespected
BY InvariantHolds, InvImpliesAffinity, PTL

(* A runnable vCPU is never lost from the run queues.                       *)
THEOREM NeverLost ==
  ASSUME QuietAdjust, ~MigrateRunning
  PROVE  Spec => []RunnableIsQueued
<1>1. InductiveInv => RunnableIsQueued
  BY DEF InductiveInv
<1>. QED BY <1>1, InvariantHolds, PTL

(* A step that changes a pCPU's current vCPU is a pass through schedule(),  *)
(* and finds what its assertions demand.                                    *)
LEMMA SwitchStep ==
  ASSUME InductiveInv, [Next]_vars, NEW c \in Cpus, curr'[c] # curr[c]
  PROVE  /\ curr[c] # Idle => runstate[curr[c]] = "running"
         /\ curr'[c] # Idle => runstate[curr'[c]] # "running" /\ ~isRunning[curr'[c]]
<1>1. PICK d \in Cpus : \E hasBudget : schedule(d, hasBudget)
  <2>1. UNCHANGED curr \/ \E d \in Cpus : \E hasBudget : schedule(d, hasBudget)
    BY DEF Next, vars, CpuStep, GuestStep, SenderStep, CtlStart, CtlStep, context_saved,
           SavedMigrate, SavedWake, do_tasklet, vcpu_block, BlockCheck, vcpu_yield, TakeEvents,
           s_timer_fn, tasklet_schedule, vcpu_mark_events_pending, vcpu_unblock, UnblockWake,
           vcpu_pause, vcpu_unpause, vcpu_set_hard_affinity, vcpu_force_reschedule, fp_adjust,
           fp_adjust_global, SetPriorities, PauseSleep, vcpu_sleep_sync, AffinitySleep,
           vcpu_migrate, CtlWake, AdjustUnlink, AdjustReinsert
  <2>. QED BY <2>1
<1>2. PICK hasBudget : schedule(d, hasBudget)
  BY <1>1
<1>. DEFINE next == fp_do_schedule(d, hasBudget, "enqueued" \in tasklet[d])
<1>3. next = Idle \/ (next \in Vcpus /\ next \in Queued(d) /\ vcpu_runnable(next))
  <2>1. ("enqueued" \in tasklet[d]) \in BOOLEAN /\ TypeOK
    BY DEF InductiveInv
  <2>. QED BY <2>1, DoSchedule, Zenon
<1>4. curr' = [curr EXCEPT ![d] = next] /\ cpuPc[d] = "guest"
  BY <1>2 DEF schedule
<1>. HIDE DEF next
<1>5. d = c /\ curr'[c] = next /\ curr[c] # next
  BY <1>4 DEF InductiveInv, TypeOK
<1>6. curr[c] # Idle => runstate[curr[c]] = "running"
  BY DEF InductiveInv, TypeOK, HoldersPlaced
<1>7. ASSUME next # Idle
      PROVE  ~isRunning[next] /\ runstate[next] # "running"
  <2>1. next \in Vcpus /\ processor[next] = c
    BY <1>3, <1>5, <1>7 DEF InductiveInv, QueuesPlaced
  <2>2. ~Holds(c, next)
    BY <1>4, <1>5 DEF Holds
  <2>3. \A e \in Cpus : ~Holds(e, next)
    BY <2>1, <2>2 DEF InductiveInv, HoldersPlaced
  <2>4. \A e \in Cpus : curr[e] # next
    BY <2>3 DEF Holds
  <2>. QED BY <2>1, <2>3, <2>4 DEF InductiveInv, HoldersPlaced
<1>. QED BY <1>5, <1>6, <1>7

(* The ASSERTs of schedule() hold in every behaviour: the vCPU it leaves is *)
(* accounted as running, the one it picks neither is nor holds a pCPU.      *)
THEOREM AssertionsHold ==
  ASSUME QuietAdjust, ~MigrateRunning
  PROVE  Spec => SwitchAssertions
<1>. DEFINE A == \A c \in Cpus : curr'[c] # curr[c] =>
                   /\ curr[c] # Idle => runstate[curr[c]] = "running"
                   /\ curr'[c] # Idle => runstate[curr'[c]] # "running" /\ ~isRunning[curr'[c]]
<1>1. InductiveInv /\ [Next]_vars => [A]_vars
  BY SwitchStep
<1>2. Spec => [][A]_vars
  BY <1>1, InvariantHolds, PTL DEF Spec
<1>. QED BY <1>2 DEF SwitchAssertions

------------------------------------------------------------------------------
(* The accounting of runstates *)

(* The accounts stay right when neither the flags nor the runstates change, *)
(* nobody at work on a vCPU leaves it and no wake is dropped.               *)
LEMMA AccountsFrame ==
  ASSUME Accounts, UNCHANGED <<blocked, migrating, paused, runstate>>,
         ctlPc \in {"pause", "pause_nosync", "affinity", "wake"} => UNCHANGED <<ctlPc, ctlVcpu>>,
         \A s \in Senders : senderPc[s] = "wake" =>
           senderPc'[s] = "wake" /\ senderVcpu'[s] = senderVcpu[s],
         \A c \in Cpus : cpuPc[c] = "wake" => cpuPc'[c] = "wake" /\ saving'[c] = saving[c]
  PROVE  Accounts'
<1>. SUFFICES ASSUME NEW v \in Vcpus PROVE Accounted(v)'
  BY DEF Accounts
<1>1. SenderWakes(v) => SenderWakes(v)'
  BY DEF SenderWakes
<1>2. Waking(v) => Waking(v)'
  BY <1>1 DEF Waking
<1>. QED BY <1>1, <1>2 DEF Accounts, Accounted

(* vcpu_wake() puts the accounts of its vCPU right; the others still have   *)
(* their wakes before them.                                                 *)
LEMMA AccountsWake ==
  ASSUME TypeOK, Accounts, NEW v \in Vcpus, vcpu_wake(v),
         UNCHANGED <<blocked, migrating, paused>>,
         ctlPc \in {"pause", "pause_nosync", "affinity"} => UNCHANGED <<ctlPc, ctlVcpu>>,
         \A w \in Vcpus : w # v /\ SenderWakes(w) => SenderWakes(w)',
         \A w \in Vcpus : w # v /\ Waking(w) => Waking(w)'
  PROVE  Accounts'
<1>. SUFFICES ASSUME NEW w \in Vcpus PROVE Accounted(w)'
  BY DEF Accounts
<1>0. /\ runstate \in [Vcpus -> RunStates] /\ blocked \in [Vcpus -> BOOLEAN]
      /\ paused \in [Vcpus -> BOOLEAN] /\ migrating \in [Vcpus -> BOOLEAN]
      /\ Accounted(w)
  BY DEF TypeOK, Accounts
<1>1. CASE w # v
  <2>1. runstate'[w] = runstate[w]
    BY <1>0, <1>1 DEF vcpu_wake
  <2>. QED BY <1>0, <1>1, <2>1 DEF Accounted
<1>2. CASE w = v /\ vcpu_runnable(v)
  <2>1. runstate'[v] = IF runstate[v] \in {"blocked", "offline"} THEN "runnable" ELSE runstate[v]
    BY <1>0, <1>2 DEF vcpu_wake
  <2>2. ~blocked'[v] /\ ~paused'[v] /\ ~migrating'[v]
    BY <1>2 DEF vcpu_runnable
  <2>. QED BY <1>0, <1>2, <2>1, <2>2 DEF Accounted, RunStates
<1>3. CASE w = v /\ ~vcpu_runnable(v)
  <2>1. runstate'[v] = IF ~blocked[v] /\ runstate[v] = "blocked" THEN "offline" ELSE runstate[v]
    BY <1>0, <1>3 DEF vcpu_wake
  <2>2. blocked[v] \/ paused[v] \/ migrating[v]
    BY <1>3 DEF vcpu_runnable
  <2>. QED BY <1>0, <1>3, <2>1, <2>2 DEF Accounted
<1>. QED BY <1>1, <1>2, <1>3

(* vcpu_sleep_nosync() takes a vCPU that is no longer runnable out of the   *)
(* runnable state, whichever flag holds it back.                            *)
LEMMA AccountsSleep ==
  ASSUME TypeOK, Accounts, NEW v \in Vcpus, vcpu_sleep_nosync(v),
         UNCHANGED <<blocked, migrating, paused, cpuPc, saving, senderPc, senderVcpu>>,
         ctlPc # "wake", ctlVcpu = v
  PROVE  Accounts'
<1>. SUFFICES ASSUME NEW w \in Vcpus PROVE Accounted(w)'
  BY DEF Accounts
<1>0. /\ runstate \in [Vcpus -> RunStates] /\ blocked \in [Vcpus -> BOOLEAN]
      /\ paused \in [Vcpus -> BOOLEAN] /\ migrating \in [Vcpus -> BOOLEAN]
      /\ Accounted(w)
  BY DEF TypeOK, Accounts
<1>1. SenderWakes(w)' <=> SenderWakes(w)
  BY DEF SenderWakes
<1>2. Waking(w) => Waking(w)'
  BY <1>1 DEF Waking
<1>3. CASE w # v
  <2>1. runstate'[w] = runstate[w]
    BY <1>0, <1>3 DEF vcpu_sleep_nosync
  <2>. QED BY <1>0, <1>1, <1>2, <1>3, <2>1 DEF Accounted
<1>4. CASE w = v /\ vcpu_runnable(v)
  <2>1. runstate'[v] = runstate[v]
    BY <1>4 DEF vcpu_sleep_nosync
  <2>2. ~blocked'[v] /\ ~paused'[v] /\ ~migrating'[v]
    BY <1>4 DEF vcpu_runnable
  <2>. QED BY <1>0, <1>1, <1>2, <1>4, <2>1, <2>2 DEF Accounted
<1>5. CASE w = v /\ ~vcpu_runnable(v)
  <2>1. runstate'[v] = IF runstate[v] = "runnable" THEN "offline" ELSE runstate[v]
    BY <1>0, <1>5 DEF vcpu_sleep_nosync
  <2>2. blocked[v] \/ paused[v] \/ migrating[v]
    BY <1>5 DEF vcpu_runnable
  <2>. QED BY <1>0, <1>1, <1>2, <1>5, <2>1, <2>2 DEF Accounted
<1>. QED BY <1>3, <1>4, <1>5

(* schedule() accounts for the vCPU it leaves by the flags it finds.        *)
LEMMA AccountsSchedule ==
  ASSUME TypeOK, Accounts, NEW c \in Cpus, NEW hasBudget, schedule(c, hasBudget)
  PROVE  Accounts'
<1>. DEFINE prev == curr[c]
            next == fp_do_schedule(c, hasBudget, "enqueued" \in tasklet[c])
<1>1. /\ cpuPc[c] = "guest"
      /\ UNCHANGED <<blocked, migrating, paused, senderPc, senderVcpu, ctlPc, ctlVcpu>>
  BY DEF schedule, pauseVars, senderVars, ctlVars
<1>2. CASE prev = next
  <2>1. UNCHANGED <<runstate, cpuPc, saving>>
    BY <1>2 DEF schedule, cpuVars
  <2>. QED BY <1>1, <2>1, AccountsFrame
<1>3. CASE prev # next
  <2>0. /\ runstate' = [v \in Vcpus |-> CASE v = next -> "running"
                                           [] v = prev -> StateAfter(v)
                                           [] OTHER -> runstate[v]]
        /\ cpuPc' = [cpuPc EXCEPT ![c] = IF prev = Idle THEN "guest" ELSE "saved"]
        /\ saving' = [saving EXCEPT ![c] = prev]
    BY <1>3 DEF schedule
  <2>. HIDE DEF next
  <2>1. \A d \in Cpus : cpuPc[d] = "wake" => cpuPc'[d] = "wake" /\ saving'[d] = saving[d]
    BY <1>1, <2>0 DEF TypeOK
  <2>. SUFFICES ASSUME NEW v \in Vcpus PROVE Accounted(v)'
    BY DEF Accounts
  <2>2. SenderWakes(v) => SenderWakes(v)'
    BY <1>1 DEF SenderWakes
  <2>3. Waking(v) => Waking(v)'
    BY <1>1, <2>1, <2>2 DEF Waking
  <2>4. blocked[v] \in BOOLEAN /\ paused[v] \in BOOLEAN /\ migrating[v] \in BOOLEAN
    BY DEF TypeOK
  <2>5. CASE v = next
    <3>1. runstate'[v] = "running"
      BY <1>3, <2>0, <2>5
    <3>. QED BY <3>1 DEF Accounted
  <2>6. CASE v # next /\ v = prev
    <3>1. runstate'[v] = StateAfter(v)
      BY <2>0, <2>6
    <3>2. StateAfter(v) = "blocked" => blocked'[v]
      BY <1>1 DEF StateAfter
    <3>3. StateAfter(v) = "runnable" => ~blocked'[v] /\ ~paused'[v] /\ ~migrating'[v]
      BY <1>1 DEF StateAfter, vcpu_runnable
    <3>4. StateAfter(v) = "offline" => ~blocked'[v] /\ (paused'[v] \/ migrating'[v])
      BY <1>1 DEF StateAfter, vcpu_runnable
    <3>5. StateAfter(v) \in {"blocked", "runnable", "offline"}
      BY DEF StateAfter
    <3>. QED BY <3>1, <3>2, <3>3, <3>4, <3>5 DEF Accounted
  <2>7. CASE v # next /\ v # prev
    <3>1. runstate'[v] = runstate[v]
      BY <2>0, <2>7
    <3>. QED BY <1>1, <2>2, <2>3, <3>1 DEF Accounts, Accounted
  <2>. QED BY <2>5, <2>6, <2>7
<1>. QED BY <1>2, <1>3

(* The migration half of context_saved() leaves a wake behind.              *)
LEMMA AccountsMove ==
  ASSUME TypeOK, Accounts, NEW v \in Vcpus, vcpu_move_locked(v),
         UNCHANGED <<blocked, paused, runstate, senderPc, senderVcpu>>,
         ctlPc \in {"pause", "pause_nosync", "affinity", "wake"} => UNCHANGED <<ctlPc, ctlVcpu>>,
         \A c \in Cpus : cpuPc[c] = "wake" => cpuPc'[c] = "wake" /\ saving'[c] = saving[c],
         Waking(v)'
  PROVE  Accounts'
<1>. SUFFICES ASSUME NEW w \in Vcpus PROVE Accounted(w)'
  BY DEF Accounts
<1>1. SenderWakes(w)' <=> SenderWakes(w)
  BY DEF SenderWakes
<1>2. Waking(w) => Waking(w)'
  BY <1>1 DEF Waking
<1>3. IF w = v THEN ~migrating'[w] ELSE migrating'[w] = migrating[w]
  BY DEF TypeOK, vcpu_move_locked
<1>. QED BY <1>1, <1>2, <1>3 DEF Accounts, Accounted

(* The vCPU a pCPU runs is accounted as running.                            *)
LEMMA CurrRunning ==
  ASSUME TypeOK, HoldersPlaced, NEW c \in Cpus, curr[c] # Idle
  PROVE  curr[c] \in Vcpus /\ runstate[curr[c]] = "running"
BY DEF TypeOK, HoldersPlaced

(* Blocking and unblocking the running vCPU do not touch the accounts, for  *)
(* it is accounted as running.                                              *)
LEMMA AccountsBlock ==
  ASSUME TypeOK, ActorsSet, HoldersPlaced, Accounts, NEW c \in Cpus,
         vcpu_block(c) \/ BlockCheck(c)
  PROVE  Accounts'
<1>1. /\ UNCHANGED <<migrating, paused, runstate, saving, senderPc, senderVcpu, ctlPc, ctlVcpu>>
      /\ cpuPc[c] \in {"guest", "block"} /\ curr[c] # Idle
      /\ \A d \in Cpus : cpuPc[d] = "wake" => cpuPc'[d] = "wake"
      /\ \A v \in Vcpus : v # curr[c] => blocked'[v] = blocked[v]
  <2>1. CASE vcpu_block(c)
    BY <2>1 DEF TypeOK, vcpu_block, GuestRuns, fpVars, cpuVars, senderVars, ctlVars
  <2>2. CASE BlockCheck(c)
    <3>1. blocked' = [blocked EXCEPT ![curr[c]] = FALSE] \/ blocked' = blocked
      BY <2>2 DEF BlockCheck
    <3>. QED BY <2>2, <3>1 DEF TypeOK, ActorsSet, BlockCheck, senderVars, ctlVars
  <2>. QED BY <2>1, <2>2
<1>2. runstate[curr[c]] = "running"
  BY <1>1, CurrRunning
<1>. SUFFICES ASSUME NEW v \in Vcpus PROVE Accounted(v)'
  BY DEF Accounts
<1>3. SenderWakes(v) => SenderWakes(v)'
  BY <1>1 DEF SenderWakes
<1>4. Waking(v) => Waking(v)'
  BY <1>1, <1>3 DEF Waking
<1>. QED BY <1>1, <1>2, <1>3, <1>4 DEF Accounts, Accounted

(* vcpu_unblock(): the sender that clears VPF_blocked goes on to wake.      *)
LEMMA AccountsUnblock ==
  ASSUME TypeOK, ActorsSet, Accounts, NEW s \in Senders, vcpu_unblock(s)
  PROVE  Accounts'
<1>. DEFINE v0 == senderVcpu[s]
<1>1. /\ senderPc[s] = "unblock" /\ v0 \in Vcpus
      /\ UNCHANGED <<migrating, paused, runstate, cpuPc, saving, ctlPc, ctlVcpu>>
  BY DEF TypeOK, ActorsSet, vcpu_unblock, cpuVars, ctlVars
<1>2. CASE blocked[v0]
  <2>1. /\ blocked' = [blocked EXCEPT ![v0] = FALSE]
        /\ senderPc' = [senderPc EXCEPT ![s] = "wake"] /\ senderVcpu' = senderVcpu
    BY <1>2 DEF vcpu_unblock
  <2>. SUFFICES ASSUME NEW v \in Vcpus PROVE Accounted(v)'
    BY DEF Accounts
  <2>2. SenderWakes(v) \/ v = v0 => SenderWakes(v)'
    BY <1>1, <2>1 DEF TypeOK, SenderWakes
  <2>3. Waking(v) => Waking(v)'
    BY <1>1, <2>2 DEF Waking
  <2>4. IF v = v0 THEN ~blocked'[v] ELSE blocked'[v] = blocked[v]
    BY <2>1 DEF TypeOK
  <2>. QED BY <1>1, <1>2, <2>2, <2>3, <2>4 DEF Accounts, Accounted
<1>3. CASE ~blocked[v0]
  <2>1. SenderDone(s) /\ UNCHANGED blocked
    BY <1>3 DEF vcpu_unblock
  <2>2. \A r \in Senders : senderPc[r] = "wake" =>
          senderPc'[r] = "wake" /\ senderVcpu'[r] = senderVcpu[r]
    BY <1>1, <2>1 DEF TypeOK, SenderDone
  <2>. QED BY <1>1, <2>1, <2>2, AccountsFrame
<1>. QED BY <1>2, <1>3

(* The toolstack sets a flag, or clears paused, and has the sleep or the    *)
(* wake that follows before it.                                             *)
LEMMA AccountsStart ==
  ASSUME TypeOK, Accounts, CtlStart
  PROVE  Accounts'
<1>1. /\ UNCHANGED <<blocked, runstate, cpuPc, saving, senderPc, senderVcpu>>
      /\ ctlPc = "idle"
  BY DEF CtlStart, vcpu_pause, vcpu_unpause, vcpu_set_hard_affinity, vcpu_force_reschedule,
         fp_adjust, fp_adjust_global, SetPriorities, CtlBegin, cpuVars, senderVars, pauseVars
<1>2. \A v \in Vcpus : (SenderWakes(v) => SenderWakes(v)') /\ (Waking(v) => Waking(v)')
  BY <1>1 DEF SenderWakes, Waking
<1>3. ASSUME NEW v \in Vcpus, NEW pc \in {"pause", "pause_nosync"}, vcpu_pause(v, pc)
      PROVE  Accounts'
  <2>1. /\ paused' = [paused EXCEPT ![v] = TRUE] /\ UNCHANGED migrating
        /\ ctlPc' = pc /\ ctlVcpu' = v
    BY <1>3 DEF vcpu_pause, CtlBegin
  <2>. QED BY <1>1, <1>2, <2>1 DEF TypeOK, Accounts, Accounted
<1>4. ASSUME NEW v \in Vcpus, vcpu_unpause(v)
      PROVE  Accounts'
  <2>1. /\ paused' = [paused EXCEPT ![v] = FALSE] /\ UNCHANGED migrating
        /\ ctlPc' = "wake" /\ ctlVcpu' = v
    BY <1>4 DEF vcpu_unpause, CtlBegin
  <2>2. Waking(v)'
    BY <2>1 DEF Waking
  <2>. QED BY <1>1, <1>2, <2>1, <2>2 DEF TypeOK, Accounts, Accounted
<1>5. ASSUME NEW v \in Vcpus,
             vcpu_force_reschedule(v) \/ \E mask \in Affinities : vcpu_set_hard_affinity(v, mask)
      PROVE  Accounts'
  <2>1. /\ migrating' = [migrating EXCEPT ![v] = TRUE] /\ UNCHANGED paused
        /\ ctlPc' = "affinity" /\ ctlVcpu' = v
    BY <1>5 DEF vcpu_force_reschedule, vcpu_set_hard_affinity, CtlBegin, pauseVars
  <2>. QED BY <1>1, <1>2, <2>1 DEF TypeOK, Accounts, Accounted
<1>6. ASSUME UNCHANGED <<migrating, paused>>
      PROVE  Accounts'
  BY <1>1, <1>6, AccountsFrame
<1>7. ASSUME NEW d, NEW op, fp_adjust(d, op)
      PROVE  Accounts'
  BY <1>6, <1>7 DEF fp_adjust, SetPriorities, pauseVars
<1>8. ASSUME NEW s, fp_adjust_global(s)
      PROVE  Accounts'
  BY <1>6, <1>8 DEF fp_adjust_global, SetPriorities, pauseVars
<1>. QED BY <1>3, <1>4, <1>5, <1>7, <1>8 DEF CtlStart

(* The sleeps, the migration and the wake that complete an operation of     *)
(* the toolstack, and the steps of an adjustment.                           *)
LEMMA AccountsCtl ==
  ASSUME TypeOK, ActorsSet, Accounts, CtlStep
  PROVE  Accounts'
<1>1. UNCHANGED <<blocked, paused, cpuPc, saving, senderPc, senderVcpu>>
  BY DEF CtlStep, PauseSleep, vcpu_sleep_sync, AffinitySleep, vcpu_migrate, CtlWake,
         AdjustUnlink, AdjustReinsert, cpuVars, senderVars, pauseVars
<1>2. CASE PauseSleep \/ AffinitySleep
  <2>1. ctlPc # "wake" /\ ctlVcpu \in Vcpus /\ UNCHANGED migrating
    BY <1>2 DEF TypeOK, ActorsSet, PauseSleep, AffinitySleep, pauseVars
  <2>2. CASE vcpu_sleep_nosync(ctlVcpu)
    BY <1>1, <2>1, <2>2, AccountsSleep
  <2>3. CASE ~vcpu_sleep_nosync(ctlVcpu)
    <3>1. /\ ctlPc = "affinity" /\ ~migrating[ctlVcpu]
          /\ UNCHANGED runstate
      BY <1>2, <2>3 DEF PauseSleep, AffinitySleep
    <3>. SUFFICES ASSUME NEW v \in Vcpus PROVE Accounted(v)'
      BY DEF Accounts
    <3>2. SenderWakes(v) => SenderWakes(v)'
      BY <1>1 DEF SenderWakes
    <3>3. Waking(v) => Waking(v)'
      BY <1>1, <3>1, <3>2 DEF Waking
    <3>. QED BY <1>1, <2>1, <3>1, <3>2, <3>3 DEF Accounts, Accounted
  <2>. QED BY <2>2, <2>3
<1>3. CASE vcpu_migrate
  <2>1. ctlPc = "migrate" /\ ctlVcpu \in Vcpus /\ UNCHANGED runstate
    BY <1>3 DEF TypeOK, ActorsSet, vcpu_migrate
  <2>2. CASE MustMove(ctlVcpu)
    <3>1. vcpu_move_locked(ctlVcpu) /\ ctlPc' = "wake" /\ ctlVcpu' = ctlVcpu
      BY <1>3, <2>2 DEF vcpu_migrate, CtlGoto
    <3>2. PICK v \in Vcpus : v = ctlVcpu
      BY <2>1
    <3>3. Waking(v)'
      BY <3>1, <3>2 DEF Waking
    <3>. QED BY <1>1, <2>1, <3>1, <3>2, <3>3, AccountsMove
  <2>3. CASE ~MustMove(ctlVcpu)
    <3>1. UNCHANGED migrating
      BY <1>3, <2>3 DEF vcpu_migrate
    <3>. QED BY <1>1, <2>1, <3>1, AccountsFrame
  <2>. QED BY <2>2, <2>3
<1>4. CASE CtlWake
  <2>1. PICK v \in Vcpus : v = ctlVcpu
    BY <1>4 DEF TypeOK, ActorsSet, CtlWake
  <2>2. ctlPc = "wake" /\ vcpu_wake(v) /\ UNCHANGED migrating
    BY <1>4, <2>1 DEF CtlWake, pauseVars
  <2>3. \A w \in Vcpus : SenderWakes(w) => SenderWakes(w)'
    BY <1>1 DEF SenderWakes
  <2>4. \A w \in Vcpus : w # v /\ Waking(w) => Waking(w)'
    BY <1>1, <2>1, <2>3 DEF Waking
  <2>. QED BY <1>1, <2>2, <2>3, <2>4, AccountsWake
<1>5. CASE vcpu_sleep_sync \/ (\E v \in ctlTodo : AdjustUnlink(v)) \/ AdjustReinsert
  <2>1. ctlPc \in {"sync", "unlink", "reinsert"} /\ UNCHANGED <<migrating, runstate>>
    BY <1>5 DEF vcpu_sleep_sync, AdjustUnlink, AdjustReinsert, pauseVars
  <2>. QED BY <1>1, <2>1, AccountsFrame
<1>. QED BY <1>2, <1>3, <1>4, <1>5 DEF CtlStep

(* Every step keeps the accounts. *)
LEMMA AccountsStep ==
  ASSUME InductiveInv, Accounts, [Next]_vars
  PROVE  Accounts'
<1>0. TypeOK /\ ActorsSet /\ HoldersPlaced
  BY DEF InductiveInv
<1>1. ASSUME NEW c \in Cpus, CpuStep(c)
      PROVE  Accounts'
  <2>1. CASE \E hasBudget : schedule(c, hasBudget)
    BY <1>0, <2>1, AccountsSchedule
  <2>2. CASE context_saved(c)
    <3>1. /\ UNCHANGED <<blocked, migrating, paused, runstate, saving, senderPc, senderVcpu,
                         ctlPc, ctlVcpu>>
          /\ \A d \in Cpus : cpuPc[d] = "wake" => cpuPc'[d] = "wake"
      BY <1>0, <2>2 DEF TypeOK, context_saved, pauseVars, senderVars, ctlVars
    <3>. QED BY <3>1, AccountsFrame
  <2>3. CASE SavedMigrate(c)
    <3>1. PICK v \in Vcpus : v = saving[c]
      BY <1>0, <2>3 DEF TypeOK, ActorsSet, SavedMigrate
    <3>2. /\ cpuPc[c] = "migrate"
          /\ UNCHANGED <<blocked, paused, runstate, senderPc, senderVcpu, ctlPc, ctlVcpu>>
      BY <2>3 DEF SavedMigrate, senderVars, ctlVars
    <3>3. CASE MustMove(saving[c])
      <4>1. /\ vcpu_move_locked(v) /\ UNCHANGED saving
            /\ cpuPc' = [cpuPc EXCEPT ![c] = "wake"]
        BY <2>3, <3>1, <3>3 DEF SavedMigrate
      <4>2. \A d \in Cpus : (cpuPc[d] = "wake" => cpuPc'[d] = "wake") /\ cpuPc'[c] = "wake"
        BY <1>0, <4>1 DEF TypeOK
      <4>3. Waking(v)'
        BY <3>1, <4>1, <4>2 DEF Waking
      <4>. QED BY <1>0, <3>2, <4>1, <4>2, <4>3, AccountsMove
    <3>4. CASE ~MustMove(saving[c])
      <4>1. SwitchDone(c) /\ UNCHANGED migrating
        BY <2>3, <3>4 DEF SavedMigrate
      <4>2. \A d \in Cpus : cpuPc[d] = "wake" => cpuPc'[d] = "wake" /\ saving'[d] = saving[d]
        BY <1>0, <3>2, <4>1 DEF TypeOK, SwitchDone
      <4>. QED BY <3>2, <4>1, <4>2, AccountsFrame
    <3>. QED BY <3>3, <3>4
  <2>4. CASE SavedWake(c)
    <3>1. PICK v \in Vcpus : v = saving[c]
      BY <1>0, <2>4 DEF TypeOK, ActorsSet, SavedWake
    <3>2. /\ vcpu_wake(v) /\ SwitchDone(c)
          /\ UNCHANGED <<blocked, migrating, paused, senderPc, senderVcpu, ctlPc, ctlVcpu>>
      BY <2>4, <3>1 DEF SavedWake, pauseVars, senderVars, ctlVars
    <3>3. \A w \in Vcpus : SenderWakes(w) => SenderWakes(w)'
      BY <3>2 DEF SenderWakes
    <3>4. \A d \in Cpus : d # c => cpuPc'[d] = cpuPc[d] /\ saving'[d] = saving[d]
      BY <1>0, <3>2 DEF TypeOK, SwitchDone
    <3>5. \A w \in Vcpus : w # v /\ Waking(w) => Waking(w)'
      BY <3>1, <3>2, <3>3, <3>4 DEF Waking
    <3>. QED BY <1>0, <3>2, <3>3, <3>5, AccountsWake
  <2>5. CASE do_tasklet(c)
    BY <2>5, AccountsFrame DEF do_tasklet, pauseVars, cpuVars, senderVars, ctlVars
  <2>. QED BY <1>1, <2>1, <2>2, <2>3, <2>4, <2>5 DEF CpuStep
<1>2. ASSUME NEW c \in Cpus, GuestStep(c) \/ s_timer_fn(c) \/ tasklet_schedule(c)
      PROVE  Accounts'
  <2>1. CASE vcpu_block(c) \/ BlockCheck(c)
    BY <1>0, <2>1, AccountsBlock
  <2>2. CASE vcpu_yield(c) \/ TakeEvents(c) \/ s_timer_fn(c) \/ tasklet_schedule(c)
    <3>1. UNCHANGED <<blocked, migrating, paused, runstate, cpuPc, saving, senderPc, senderVcpu,
                      ctlPc, ctlVcpu>>
      BY <2>2 DEF vcpu_yield, TakeEvents, s_timer_fn, tasklet_schedule, pauseVars, cpuVars,
                  senderVars, ctlVars
    <3>. QED BY <3>1, AccountsFrame
  <2>. QED BY <1>2, <2>1, <2>2 DEF GuestStep
<1>3. ASSUME NEW s \in Senders, SenderStep(s)
      PROVE  Accounts'
  <2>1. ASSUME NEW v \in Vcpus, vcpu_mark_events_pending(s, v)
        PROVE  Accounts'
    <3>1. /\ UNCHANGED <<blocked, migrating, paused, runstate, cpuPc, saving, ctlPc, ctlVcpu>>
          /\ \A r \in Senders : senderPc[r] = "wake" =>
               senderPc'[r] = "wake" /\ senderVcpu'[r] = senderVcpu[r]
      BY <1>0, <2>1 DEF TypeOK, vcpu_mark_events_pending, pauseVars, cpuVars, ctlVars
    <3>. QED BY <3>1, AccountsFrame
  <2>2. CASE vcpu_unblock(s)
    BY <1>0, <2>2, AccountsUnblock
  <2>3. CASE UnblockWake(s)
    <3>1. PICK v \in Vcpus : v = senderVcpu[s]
      BY <1>0, <2>3 DEF TypeOK, ActorsSet, UnblockWake
    <3>2. /\ vcpu_wake(v) /\ SenderDone(s)
          /\ UNCHANGED <<blocked, migrating, paused, cpuPc, saving, ctlPc, ctlVcpu>>
      BY <2>3, <3>1 DEF UnblockWake, pauseVars, cpuVars, ctlVars
    <3>3. \A r \in Senders : r # s => senderPc'[r] = senderPc[r] /\ senderVcpu'[r] = senderVcpu[r]
      BY <1>0, <3>2 DEF TypeOK, SenderDone
    <3>4. \A w \in Vcpus : w # v /\ SenderWakes(w) => SenderWakes(w)'
      BY <3>1, <3>3 DEF SenderWakes
    <3>5. \A w \in Vcpus : w # v /\ Waking(w) => Waking(w)'
      BY <3>2, <3>4 DEF Waking
    <3>. QED BY <1>0, <3>2, <3>4, <3>5, AccountsWake
  <2>. QED BY <1>3, <2>1, <2>2, <2>3 DEF SenderStep
<1>4. CASE CtlStart
  BY <1>0, <1>4, AccountsStart
<1>5. CASE CtlStep
  BY <1>0, <1>5, AccountsCtl
<1>6. CASE UNCHANGED vars
  BY <1>6, AccountsFrame DEF vars, pauseVars, cpuVars, senderVars, ctlVars
<1>7. TaskletCpus \subseteq Cpus
  BY EnvironmentAssumption DEF EnvironmentAssumption
<1>. QED BY <1>1, <1>2, <1>3, <1>4, <1>5, <1>6, <1>7 DEF Next

(* With the accounts kept, a runstate that disagrees with the flags has     *)
(* somebody on the way to correct it.                                       *)
LEMMA AccountsImplyAccurate == TypeOK /\ Accounts => RunstateAccurate
<1>. SUFFICES ASSUME TypeOK, Accounts, NEW v \in Vcpus, ~WakeInFlight(v), ~SleepInFlight(v)
              PROVE  CASE runstate[v] = "runnable" -> vcpu_runnable(v)
                       [] runstate[v] = "blocked" -> blocked[v]
                       [] runstate[v] = "offline" -> paused[v] \/ migrating[v]
                       [] runstate[v] = "running" -> TRUE
  BY DEF RunstateAccurate
<1>1. Accounted(v) /\ runstate[v] \in RunStates
  BY DEF TypeOK, Accounts
<1>2. ~SenderWakes(v) /\ ~Waking(v)
  BY DEF WakeInFlight, SenderWakes, Waking
<1>3. CASE runstate[v] = "runnable"
  <2>1. vcpu_runnable(v)
    BY <1>1, <1>3 DEF Accounted, SleepInFlight, vcpu_runnable
  <2>. QED BY <1>3, <2>1
<1>4. CASE runstate[v] = "blocked"
  <2>1. blocked[v]
    BY <1>1, <1>2, <1>4 DEF Accounted
  <2>. QED BY <1>4, <2>1
<1>5. CASE runstate[v] = "offline"
  <2>1. paused[v] \/ migrating[v]
    BY <1>1, <1>2, <1>5 DEF Accounted
  <2>. QED BY <1>5, <2>1
<1>6. CASE runstate[v] = "running"
  BY <1>6
<1>. QED BY <1>1, <1>3, <1>4, <1>5, <1>6 DEF RunStates

(* Whenever a runstate disagrees with the pause flags, the actor that has   *)
(* changed the flags is still to take the lock and correct it: nobody's     *)
(* correction is lost between vcpu_sleep, vcpu_wake and schedule().         *)
THEOREM AccountsHold ==
  ASSUME QuietAdjust, ~MigrateRunning
  PROVE  Spec => [](InductiveInv /\ Accounts)
<1>. DEFINE I == InductiveInv /\ Accounts
<1>1. Init => I
  <2>1. Init => Accounts
    BY DEF Init, Accounts, Accounted
  <2>. QED BY <2>1, InvInit
<1>2. I /\ [Next]_vars => I'
  BY InvStep, AccountsStep
<1>. QED BY <1>1, <1>2, PTL DEF Spec

(* The times a guest and its toolstack read are right: outside the windows  *)
(* between changing the flags and taking the lock, a vCPU accounted as      *)
(* runnable, blocked or offline is just that.                               *)
THEOREM RunstatesAccurate ==
  ASSUME QuietAdjust, ~MigrateRunning
  PROVE  Spec => []RunstateAccurate
<1>1. InductiveInv /\ Accounts => RunstateAccurate
  BY AccountsImplyAccurate DEF InductiveInv
<1>. QED BY <1>1, AccountsHold, PTL

------------------------------------------------------------------------------
(* The order of the run queues *)

(* compare reads the strategy and the parameter the strategy goes by; the   *)
(* priorities matter under FP only.                                         *)
LEMMA CompareFrame ==
  ASSUME TypeOK, UNCHANGED <<strategy, period, deadline>>,
         strategy = "FP" => \A d \in Domains : priority'[d] = priority[d]
  PROVE  \A u, w \in Vcpus : compare(u, w)' <=> compare(u, w)
<1>. SUFFICES ASSUME NEW u \in Vcpus, NEW w \in Vcpus PROVE compare(u, w)' <=> compare(u, w)
  OBVIOUS
<1>1. /\ strategy \in {"RM", "DM", "FP"}
      /\ VcpuDomain[u] \in Domains /\ VcpuDomain[w] \in Domains
  BY ConfigAssumption DEF ConfigAssumption, TypeOK
<1>2. CASE strategy = "RM"
  BY <1>2 DEF compare
<1>3. CASE strategy = "DM"
  BY <1>3 DEF compare
<1>4. CASE strategy = "FP"
  <2>1. /\ priority'[VcpuDomain[u]] = priority[VcpuDomain[u]]
        /\ priority'[VcpuDomain[w]] = priority[VcpuDomain[w]]
    BY <1>1, <1>4
  <2>. QED BY <1>4, <2>1 DEF compare
<1>. QED BY <1>1, <1>2, <1>3, <1>4

(* The order of the new queues may be looked at with the old compare.       *)
LEMMA OrderPrime ==
  ASSUME TypeOK', \A u, w \in Vcpus : compare(u, w)' <=> compare(u, w),
         \A c \in Cpus : OrderedBehind(runq'[c], Settled')
  PROVE  QueuesOrdered'
<1>1. \A c \in Cpus : \A i \in 1 .. Len(runq'[c]) : runq'[c][i] \in Vcpus
  BY DEF TypeOK
<1>2. \A c \in Cpus : \A i, j \in 1 .. Len(runq'[c]) :
        i < j /\ runq'[c][j] \in Settled' => compare(runq'[c][i], runq'[c][j])
  BY DEF OrderedBehind
<1>3. \A c \in Cpus : \A i, j \in 1 .. Len(runq'[c]) :
        compare(runq'[c][i], runq'[c][j]) => compare(runq[c][i], runq[c][j])'
  BY <1>1
<1>. QED BY <1>2, <1>3 DEF QueuesOrdered

(* Steps that touch neither the queues nor the parameters, nor the progress *)
(* of an adjustment.                                                        *)
LEMMA OrderFrame ==
  ASSUME TypeOK, TypeOK', QueuesOrdered, AdjustedFirst,
         UNCHANGED <<strategy, period, deadline, priority, runq, ctlTodo>>,
         Adjusting => UNCHANGED <<ctlPc, ctlDom, ctlPrio>>,
         ~Adjusting => ~Adjusting'
  PROVE  QueuesOrdered' /\ AdjustedFirst'
<1>1. \A u, w \in Vcpus : compare(u, w)' <=> compare(u, w)
  BY CompareFrame
<1>2. Settled' = Settled
  BY DEF Settled, VisitedVcpus
<1>3. \A c \in Cpus : OrderedBehind(runq'[c], Settled')
  BY <1>2 DEF QueuesOrdered, OrderedBehind
<1>4. QueuesOrdered'
  BY <1>1, <1>3, OrderPrime
<1>5. AdjustedFirst'
  <2>1. CASE Adjusting
    BY <1>2, <2>1 DEF AdjustedFirst, Adjusting, VisitedVcpus
  <2>2. CASE ~Adjusting
    BY <1>2, <2>2 DEF AdjustedFirst, VisitedVcpus
  <2>. QED BY <2>1, <2>2
<1>. QED BY <1>4, <1>5

(* Between adjustments none is left to visit, whatever the step. *)
LEMMA NoneToVisit ==
  ASSUME AdjustedFirst, ~Adjusting, ~Adjusting', ctlTodo' = ctlTodo \/ ctlTodo' = {}
  PROVE  AdjustedFirst' /\ ctlTodo' = ctlTodo /\ Settled' = Settled
<1>1. ctlTodo = {} /\ ctlTodo' = {}
  BY DEF AdjustedFirst
<1>. QED BY <1>1 DEF AdjustedFirst, Settled, VisitedVcpus

(* vcpu_wake() inserts in order.  It recomputes the priority from the new   *)
(* positions under RM and DM, where the order does not depend on it.        *)
LEMMA OrderWake ==
  ASSUME TypeOK, TypeOK', QueuesOrdered, AdjustedFirst, NEW v \in Vcpus, vcpu_wake(v),
         UNCHANGED <<strategy, period, deadline>>, ~Adjusting, ~Adjusting',
         ctlTodo' = ctlTodo \/ ctlTodo' = {}
  PROVE  QueuesOrdered' /\ AdjustedFirst'
<1>1. AdjustedFirst' /\ Settled' = Settled
  BY NoneToVisit
<1>2. \A c \in Cpus : OrderedBehind(runq[c], Settled) /\ runq[c] \in Seq(Vcpus)
  BY DEF QueuesOrdered, OrderedBehind, TypeOK
<1>3. CASE UNCHANGED <<runq, priority>>
  <2>1. \A u, w \in Vcpus : compare(u, w)' <=> compare(u, w)
    BY <1>3, CompareFrame
  <2>2. \A c \in Cpus : OrderedBehind(runq'[c], Settled')
    BY <1>1, <1>2, <1>3
  <2>. QED BY <1>1, <2>1, <2>2, OrderPrime
<1>4. CASE ~UNCHANGED <<runq, priority>>
  <2>. DEFINE d == VcpuDomain[v]
  <2>1. /\ runq_insert(processor[v], v)
        /\ priority' = [priority EXCEPT ![d] = PrioHandler(d, priority[d], position')]
    BY <1>4 DEF vcpu_wake, fp_vcpu_wake
  <2>2. strategy = "FP" => PrioHandler(d, priority[d], position') = priority[d]
    BY DEF PrioHandler
  <2>3. strategy = "FP" => \A e \in Domains : priority'[e] = priority[e]
    BY <2>1, <2>2 DEF TypeOK
  <2>4. \A u, w \in Vcpus : compare(u, w)' <=> compare(u, w)
    BY <2>3, CompareFrame
  <2>5. ASSUME NEW c \in Cpus
        PROVE  OrderedBehind(runq'[c], Settled')
    <3>1. runq'[c] = IF c = processor[v] THEN InsertInto(runq[c], v) ELSE runq[c]
      BY <2>1 DEF TypeOK, runq_insert
    <3>2. OrderedBehind(InsertInto(runq[c], v), Settled)
      BY <1>2, InsertKeepsOrder
    <3>. QED BY <1>1, <1>2, <3>1, <3>2
  <2>. QED BY <1>1, <2>4, <2>5, OrderPrime
<1>. QED BY <1>3, <1>4

(* vcpu_sleep_nosync() unlinks at most. *)
LEMMA OrderSleep ==
  ASSUME TypeOK, TypeOK', QueuesOrdered, AdjustedFirst, NEW v \in Vcpus, vcpu_sleep_nosync(v),
         UNCHANGED <<strategy, period, deadline, priority>>, ~Adjusting, ~Adjusting',
         ctlTodo' = ctlTodo \/ ctlTodo' = {}
  PROVE  QueuesOrdered' /\ AdjustedFirst'
<1>1. AdjustedFirst' /\ Settled' = Settled
  BY NoneToVisit
<1>2. \A c \in Cpus : OrderedBehind(runq[c], Settled) /\ runq[c] \in Seq(Vcpus)
  BY DEF QueuesOrdered, OrderedBehind, TypeOK
<1>3. \A u, w \in Vcpus : compare(u, w)' <=> compare(u, w)
  BY CompareFrame
<1>4. ASSUME NEW c \in Cpus
      PROVE  OrderedBehind(runq'[c], Settled')
  <2>1. runq'[c] = runq[c] \/ runq'[c] = Without(runq[c], v)
    BY DEF vcpu_sleep_nosync, fp_sleep, remove_from_queue
  <2>2. OrderedBehind(Without(runq[c], v), Settled)
    BY <1>2, RemoveKeepsOrder
  <2>. QED BY <1>1, <1>2, <2>1, <2>2
<1>. QED BY <1>1, <1>3, <1>4, OrderPrime

(* Both adjustments start over with all vCPUs of the guests. *)
LEMMA OrderSetPriorities ==
  ASSUME TypeOK, NEW d, NEW prio, SetPriorities(d, prio)
  PROVE  QueuesOrdered' /\ AdjustedFirst'
<1>1. /\ ctlTodo' = VisitedVcpus
      /\ ctlPc' = IF VisitedVcpus = {} THEN "idle" ELSE "unlink"
  BY DEF SetPriorities
<1>2. Settled' = {} /\ VisitedVcpus' = VisitedVcpus
  BY <1>1 DEF Settled, VisitedVcpus
<1>3. QueuesOrdered'
  BY <1>2 DEF QueuesOrdered
<1>4. AdjustedFirst'
  BY <1>1, <1>2 DEF AdjustedFirst, Adjusting
<1>. QED BY <1>3, <1>4

(* The unlinking half of a visit.  Under FP it may change the priority of   *)
(* the adjusted domain, but not once a vCPU is settled.                     *)
LEMMA OrderUnlink ==
  ASSUME TypeOK, TypeOK', QueuesPlaced, QueuesOrdered, AdjustedFirst, NEW v \in ctlTodo,
         AdjustUnlink(v)
  PROVE  QueuesOrdered' /\ AdjustedFirst'
<1>. DEFINE d == VcpuDomain[v]
            prio == IF d = ctlDom THEN ctlPrio ELSE priority[d]
<1>1. /\ ctlPc = "unlink" /\ ctlPc' = "reinsert" /\ ctlTodo' = ctlTodo \ {v}
      /\ d = ctlDom \/ \A w \in ctlTodo : VcpuDomain[w] # ctlDom
      /\ priority' = [priority EXCEPT ![d] = PrioHandler(d, prio, position)]
      /\ remove_from_queue(v)
      /\ UNCHANGED <<strategy, period, deadline, ctlDom, ctlPrio>>
  BY DEF AdjustUnlink, ReprioritiseAndUnlink, paramVars
<1>2. v \in Vcpus /\ d \in Domains /\ v \in VisitedVcpus /\ Settled' = Settled \cup {v}
  <2>1. v \in VisitedVcpus /\ VisitedVcpus' = VisitedVcpus
    BY DEF AdjustedFirst, VisitedVcpus
  <2>2. v \in Vcpus /\ d \in Domains
    BY <2>1, ConfigAssumption DEF ConfigAssumption, VisitedVcpus
  <2>3. Settled' = VisitedVcpus \ (ctlTodo \ {v})
    BY <1>1, <2>1 DEF Settled
  <2>. QED BY <2>1, <2>2, <2>3 DEF Settled
<1>3. strategy = "FP" => PrioHandler(d, prio, position) = prio
  BY DEF PrioHandler
<1>4. \A e \in Domains : priority'[e] = IF e = d THEN PrioHandler(d, prio, position)
                                                 ELSE priority[e]
  BY <1>1 DEF TypeOK
<1>5. AdjustedFirst'
  <2>1. ctlTodo' \subseteq VisitedVcpus' /\ Adjusting'
    BY <1>1 DEF AdjustedFirst, Adjusting, VisitedVcpus
  <2>2. (\E w \in ctlTodo' : VcpuDomain[w] = ctlDom) => \A u \in Settled' : VcpuDomain[u] = ctlDom
    BY <1>1, <1>2 DEF AdjustedFirst
  <2>3. ASSUME strategy = "FP", NEW u \in Settled', VcpuDomain[u] = ctlDom
        PROVE  priority'[ctlDom] = ctlPrio
    <3>1. CASE d = ctlDom
      BY <1>2, <1>3, <1>4, <2>3, <3>1
    <3>2. CASE d # ctlDom
      <4>1. u \in Settled
        BY <1>2, <2>3, <3>2
      <4>2. priority[ctlDom] = ctlPrio
        BY <1>1, <2>3, <4>1 DEF AdjustedFirst, Adjusting
      <4>. QED BY <1>4, <3>2, <4>2 DEF TypeOK
    <3>. QED BY <3>1, <3>2
  <2>. QED BY <1>1, <2>1, <2>2, <2>3 DEF AdjustedFirst
<1>6. ASSUME NEW c \in Cpus
      PROVE  OrderedBehind(runq'[c], Settled')
  <2>1. OrderedBehind(runq[c], Settled) /\ runq[c] \in Seq(Vcpus) /\ Once(runq[c])
    BY DEF QueuesOrdered, OrderedBehind, TypeOK, QueuesPlaced
  <2>2. runq'[c] = Without(runq[c], v)
    BY <1>1 DEF remove_from_queue
  <2>. QED BY <1>2, <2>1, <2>2, RemoveKeepsOrder
<1>7. CASE Settled = {} \/ strategy # "FP" \/ prio = priority[d]
  <2>1. CASE Settled = {}
    <3>1. \A c \in Cpus : Queued(c)' \subseteq Queued(c) /\ v \notin Queued(c)'
      BY <1>1, <1>2, RunqRemove DEF QueuesPlaced
    <3>2. \A c \in Cpus : \A j \in 1 .. Len(runq'[c]) : runq'[c][j] \notin Settled'
      BY <1>2, <2>1, <3>1 DEF Queued
    <3>. QED BY <1>5, <3>2 DEF QueuesOrdered
  <2>2. CASE strategy # "FP" \/ prio = priority[d]
    <3>1. strategy = "FP" => \A e \in Domains : priority'[e] = priority[e]
      BY <1>3, <1>4, <2>2
    <3>2. \A u, w \in Vcpus : compare(u, w)' <=> compare(u, w)
      BY <1>1, <3>1, CompareFrame
    <3>. QED BY <1>5, <1>6, <3>2, OrderPrime
  <2>. QED BY <1>7, <2>1, <2>2
<1>8. CASE Settled # {} /\ strategy = "FP" /\ prio # priority[d]
  <2>1. d = ctlDom /\ priority[ctlDom] # ctlPrio
    BY <1>8
  <2>2. \A u \in Settled : VcpuDomain[u] = ctlDom
    BY <2>1 DEF AdjustedFirst
  <2>3. priority[ctlDom] = ctlPrio
    BY <1>1, <1>8, <2>2 DEF AdjustedFirst, Adjusting
  <2>. QED BY <2>1, <2>3
<1>. QED BY <1>7, <1>8

(* The insertion half of a visit. *)
LEMMA OrderReinsert ==
  ASSUME TypeOK, TypeOK', ActorsSet, QueuesOrdered, AdjustedFirst, AdjustReinsert
  PROVE  QueuesOrdered' /\ AdjustedFirst'
<1>1. /\ ctlPc = "reinsert" /\ ctlVcpu \in Vcpus
      /\ runq_insert(processor[ctlVcpu], ctlVcpu)
      /\ UNCHANGED <<strategy, period, deadline, priority>>
  BY DEF TypeOK, ActorsSet, AdjustReinsert, Reinsert, paramVars
<1>2. /\ ctlTodo' = ctlTodo
      /\ \/ ctlTodo = {} /\ ctlPc' = "idle"
         \/ ctlPc' = "unlink" /\ UNCHANGED <<ctlDom, ctlPrio>>
  BY DEF AdjustReinsert, CtlDone, CtlGoto
<1>3. Settled' = Settled
  BY <1>2 DEF Settled, VisitedVcpus
<1>4. \A u, w \in Vcpus : compare(u, w)' <=> compare(u, w)
  BY <1>1, CompareFrame
<1>5. ASSUME NEW c \in Cpus
      PROVE  OrderedBehind(runq'[c], Settled')
  <2>1. OrderedBehind(runq[c], Settled) /\ runq[c] \in Seq(Vcpus)
    BY DEF QueuesOrdered, OrderedBehind, TypeOK
  <2>2. \/ runq'[c] = InsertInto(runq[c], ctlVcpu)
        \/ runq'[c] = runq[c]
    BY <1>1 DEF TypeOK, runq_insert
  <2>3. OrderedBehind(InsertInto(runq[c], ctlVcpu), Settled)
    BY <1>1, <2>1, InsertKeepsOrder
  <2>. QED BY <1>3, <2>1, <2>2, <2>3
<1>6. QueuesOrdered'
  BY <1>4, <1>5, OrderPrime
<1>7. AdjustedFirst'
  BY <1>1, <1>2, <1>3 DEF AdjustedFirst, Adjusting, VisitedVcpus
<1>. QED BY <1>6, <1>7

(* Every step keeps the order. *)
LEMMA OrderStep ==
  ASSUME QuietAdjust, ~MigrateRunning, InductiveInv, QueuesOrdered, AdjustedFirst, [Next]_vars
  PROVE  QueuesOrdered' /\ AdjustedFirst'
<1>. USE DEF fpVars, paramVars, ctlVars
<1>0. TypeOK /\ ActorsSet /\ QueuesPlaced /\ TypeOK'
  BY InvStep DEF InductiveInv
<1>1. ASSUME UNCHANGED <<strategy, period, deadline, priority, runq, ctlPc, ctlDom, ctlPrio,
                         ctlTodo>>
      PROVE  QueuesOrdered' /\ AdjustedFirst'
  BY <1>0, <1>1, OrderFrame DEF Adjusting
<1>2. ASSUME NEW c \in Cpus, CpuStep(c)
      PROVE  QueuesOrdered' /\ AdjustedFirst'
  <2>1. CASE SavedWake(c)
    <3>1. saving[c] \in Vcpus /\ vcpu_wake(saving[c]) /\ Undisturbed
      BY <1>0, <2>1 DEF TypeOK, ActorsSet, SavedWake
    <3>2. ~Adjusting /\ ~Adjusting' /\ ctlTodo' = ctlTodo
      BY <2>1, <3>1 DEF SavedWake, Undisturbed, Adjusting
    <3>3. UNCHANGED <<strategy, period, deadline>>
      BY <2>1 DEF SavedWake
    <3>. QED BY <1>0, <3>1, <3>2, <3>3, OrderWake
  <2>2. CASE context_saved(c) \/ SavedMigrate(c) \/ do_tasklet(c)
    BY <1>1, <2>2 DEF context_saved, SavedMigrate, do_tasklet
  <2>3. ASSUME NEW hasBudget, schedule(c, hasBudget)
        PROVE  QueuesOrdered' /\ AdjustedFirst'
    BY <1>1, <2>3 DEF schedule
  <2>. QED BY <1>2, <2>1, <2>2, <2>3 DEF CpuStep
<1>3. ASSUME NEW c, GuestStep(c) \/ s_timer_fn(c) \/ tasklet_schedule(c)
      PROVE  QueuesOrdered' /\ AdjustedFirst'
  BY <1>1, <1>3 DEF GuestStep, vcpu_block, BlockCheck, vcpu_yield, TakeEvents, s_timer_fn,
                    tasklet_schedule
<1>4. ASSUME NEW s \in Senders, SenderStep(s)
      PROVE  QueuesOrdered' /\ AdjustedFirst'
  <2>1. CASE UnblockWake(s)
    <3>1. senderVcpu[s] \in Vcpus /\ vcpu_wake(senderVcpu[s]) /\ Undisturbed
      BY <1>0, <2>1 DEF TypeOK, ActorsSet, UnblockWake
    <3>2. ~Adjusting /\ ~Adjusting' /\ ctlTodo' = ctlTodo
      BY <2>1, <3>1 DEF UnblockWake, Undisturbed, Adjusting
    <3>3. UNCHANGED <<strategy, period, deadline>>
      BY <2>1 DEF UnblockWake
    <3>. QED BY <1>0, <3>1, <3>2, <3>3, OrderWake
  <2>2. CASE vcpu_unblock(s) \/ \E v \in Vcpus : vcpu_mark_events_pending(s, v)
    BY <1>1, <2>2 DEF vcpu_unblock, vcpu_mark_events_pending
  <2>. QED BY <1>4, <2>1, <2>2 DEF SenderStep
<1>5. CASE CtlStart
  <2>1. CASE \E d, prio : SetPriorities(d, prio)
    BY <1>0, <2>1, OrderSetPriorities
  <2>2. ASSUME NEW pc, NEW v, CtlBegin(pc, v), pc \in {"pause", "pause_nosync", "wake", "affinity"},
               UNCHANGED <<strategy, period, deadline, priority, runq>>
        PROVE  QueuesOrdered' /\ AdjustedFirst'
    <3>1. ctlPc = "idle" /\ ctlPc' = pc /\ ctlTodo' = ctlTodo
      BY <2>2 DEF CtlBegin
    <3>2. ~Adjusting /\ ~Adjusting'
      BY <2>2, <3>1 DEF Adjusting
    <3>. QED BY <1>0, <2>2, <3>1, <3>2, OrderFrame
  <2>3. ASSUME NEW v \in Vcpus,
               \/ \E pc \in {"pause", "pause_nosync"} : vcpu_pause(v, pc)
               \/ vcpu_unpause(v)
               \/ \E mask \in Affinities : vcpu_set_hard_affinity(v, mask)
               \/ vcpu_force_reschedule(v)
        PROVE  QueuesOrdered' /\ AdjustedFirst'
    BY <2>2, <2>3 DEF vcpu_pause, vcpu_unpause, vcpu_set_hard_affinity, vcpu_force_reschedule
  <2>4. ASSUME NEW d \in AdjustDomains, NEW op \in Adjustments, fp_adjust(d, op)
        PROVE  QueuesOrdered' /\ AdjustedFirst'
    BY <2>1, <2>4 DEF fp_adjust
  <2>5. ASSUME NEW s \in Strategies, fp_adjust_global(s)
        PROVE  QueuesOrdered' /\ AdjustedFirst'
    BY <2>1, <2>5 DEF fp_adjust_global
  <2>. QED BY <1>5, <2>3, <2>4, <2>5 DEF CtlStart
<1>6. CASE CtlStep
  <2>1. CASE PauseSleep \/ AffinitySleep
    <3>1. /\ ctlPc \in {"pause", "pause_nosync", "affinity"} /\ ctlVcpu \in Vcpus
          /\ UNCHANGED <<strategy, period, deadline, priority>>
      BY <1>0, <2>1 DEF TypeOK, ActorsSet, PauseSleep, AffinitySleep
    <3>2. /\ ctlPc' \in {"sync", "idle", "migrate"}
          /\ ctlTodo' = ctlTodo \/ ctlTodo' = {}
      BY <2>1 DEF PauseSleep, AffinitySleep, CtlGoto, CtlDone
    <3>3. ~Adjusting /\ ~Adjusting'
      BY <3>1, <3>2 DEF Adjusting
    <3>4. CASE vcpu_sleep_nosync(ctlVcpu)
      BY <1>0, <3>1, <3>2, <3>3, <3>4, OrderSleep
    <3>5. CASE ~vcpu_sleep_nosync(ctlVcpu)
      <4>1. UNCHANGED runq
        BY <2>1, <3>5 DEF PauseSleep, AffinitySleep
      <4>2. ctlTodo' = ctlTodo
        BY <3>2, <3>3, NoneToVisit
      <4>. QED BY <1>0, <3>1, <3>3, <4>1, <4>2, OrderFrame
    <3>. QED BY <3>4, <3>5
  <2>2. CASE vcpu_sleep_sync \/ vcpu_migrate
    <3>1. /\ ctlPc \in {"sync", "migrate"} /\ ctlPc' \in {"idle", "wake"}
          /\ ctlTodo' = ctlTodo \/ ctlTodo' = {}
          /\ UNCHANGED <<strategy, period, deadline, priority, runq>>
      BY <2>2 DEF vcpu_sleep_sync, vcpu_migrate, CtlGoto, CtlDone
    <3>2. ~Adjusting /\ ~Adjusting'
      BY <3>1 DEF Adjusting
    <3>3. ctlTodo' = ctlTodo
      BY <3>1, <3>2, NoneToVisit
    <3>. QED BY <1>0, <3>1, <3>2, <3>3, OrderFrame
  <2>3. CASE CtlWake
    <3>1. /\ ctlVcpu \in Vcpus /\ vcpu_wake(ctlVcpu)
          /\ ctlPc = "wake" /\ ctlPc' = "idle" /\ ctlTodo' = {}
          /\ UNCHANGED <<strategy, period, deadline>>
      BY <1>0, <2>3 DEF TypeOK, ActorsSet, CtlWake, CtlDone
    <3>2. ~Adjusting /\ ~Adjusting'
      BY <3>1 DEF Adjusting
    <3>. QED BY <1>0, <3>1, <3>2, OrderWake
  <2>4. CASE \E v \in ctlTodo : AdjustUnlink(v)
    BY <1>0, <2>4, OrderUnlink
  <2>5. CASE AdjustReinsert
    BY <1>0, <2>5, OrderReinsert
  <2>. QED BY <1>6, <2>1, <2>2, <2>3, <2>4, <2>5 DEF CtlStep
<1>7. CASE UNCHANGED vars
  BY <1>1, <1>7 DEF vars
<1>. QED BY <1>2, <1>3, <1>4, <1>5, <1>6, <1>7 DEF Next

(* The order holds in every reachable state, during an adjustment for the   *)
(* vCPUs it has visited.                                                    *)
THEOREM OrderHolds ==
  ASSUME QuietAdjust, ~MigrateRunning
  PROVE  Spec => [](InductiveInv /\ SortingInv)
<1>. DEFINE I == InductiveInv /\ QueuesOrdered /\ AdjustedFirst
<1>1. Init => I
  <2>1. Init => QueuesOrdered /\ AdjustedFirst
    BY DEF Init, FpInit, QueuesOrdered, AdjustedFirst, Adjusting
  <2>. QED BY <2>1, InvInit
<1>2. I /\ [Next]_vars => I'
  BY InvStep, OrderStep
<1>3. I => InductiveInv /\ SortingInv
  BY DEF SortingInv
<1>. QED BY <1>1, <1>2, <1>3, PTL DEF Spec

(* Between adjustments the guests' vCPUs stand in the order the strategy    *)
(* asks for, for every number of vCPUs and domains and after every sequence *)
(* of strategy switches, parameter changes, wakes and sleeps.               *)
THEOREM GuestsStaySorted ==
  ASSUME QuietAdjust, ~MigrateRunning
  PROVE  Spec => []GuestsSorted
<1>1. SortingInv => GuestsSorted
  BY DEF SortingInv, QueuesOrdered, AdjustedFirst, Settled, GuestsSorted
<1>. QED BY <1>1, OrderHolds, PTL


------------------------------------------------------------------------------
(* Migrations *)

(* A pCPU that will move v still will after a step that does not bring it   *)
(* to the end of its switch.                                                *)
LEMMA CpuMovesFrame ==
  ASSUME NEW v \in Vcpus, CpuMoves(v), UNCHANGED curr, ~isRunning[v] => ~isRunning'[v],
         \A c \in Cpus : softirq[c] => softirq'[c],
         \A c \in Cpus : saving[c] = v /\ cpuPc[c] \in {"saved", "migrate"} =>
           saving'[c] = saving[c] /\ cpuPc'[c] = cpuPc[c]
  PROVE  CpuMoves(v)'
BY DEF CpuMoves

(* The pCPU that switches away from a vCPU to be migrated is the one that   *)
(* will look at the request.                                                *)
LEMMA OwnedSchedule ==
  ASSUME InductiveInv, MigrationOwned, NEW c \in Cpus, NEW hasBudget, schedule(c, hasBudget)
  PROVE  MigrationOwned'
<1>. USE DEF pauseVars, ctlVars
<1>1. PICK next : next = fp_do_schedule(c, hasBudget, "enqueued" \in tasklet[c])
  OBVIOUS
<1>2. next = Idle \/ (next \in Vcpus /\ vcpu_runnable(next))
  <2>1. ("enqueued" \in tasklet[c]) \in BOOLEAN /\ TypeOK
    BY DEF InductiveInv
  <2>. QED BY <1>1, <2>1, DoSchedule, Zenon
<1>3. /\ cpuPc[c] = "guest" /\ softirq' = [softirq EXCEPT ![c] = FALSE]
      /\ curr' = [curr EXCEPT ![c] = next] /\ UNCHANGED <<migrating, ctlPc, ctlVcpu>>
      /\ IF curr[c] = next
         THEN UNCHANGED <<isRunning, cpuPc, saving>>
         ELSE /\ isRunning' = [v \in Vcpus |-> v = next \/ isRunning[v]]
              /\ cpuPc' = [cpuPc EXCEPT ![c] = IF curr[c] = Idle THEN "guest" ELSE "saved"]
              /\ saving' = [saving EXCEPT ![c] = curr[c]]
  BY <1>1 DEF schedule, cpuVars
<1>4. Idle \notin Vcpus
  BY ConfigAssumption DEF ConfigAssumption
<1>. SUFFICES ASSUME NEW v \in Vcpus, migrating[v]
              PROVE  (RequesterMoves(v) \/ CpuMoves(v))'
  BY <1>3 DEF MigrationOwned
<1>5. v # next
  BY <1>2, <1>4 DEF vcpu_runnable
<1>6. isRunning'[v] <=> isRunning[v]
  BY <1>3, <1>5
<1>7. \A d \in Cpus : d # c => /\ curr'[d] = curr[d] /\ softirq'[d] = softirq[d]
                               /\ cpuPc'[d] = cpuPc[d] /\ saving'[d] = saving[d]
  BY <1>3 DEF InductiveInv, TypeOK
<1>8. curr[c] = v => cpuPc'[c] = "saved" /\ saving'[c] = v
  BY <1>3, <1>4, <1>5 DEF InductiveInv, TypeOK
<1>. QED BY <1>3, <1>6, <1>7, <1>8 DEF MigrationOwned, RequesterMoves, CpuMoves

(* context_saved() clears is_running first and then moves the vCPU, unless  *)
(* it runs again, when somebody else is in charge.                          *)
LEMMA OwnedSaved ==
  ASSUME InductiveInv, MigrationOwned, NEW c \in Cpus, context_saved(c) \/ SavedMigrate(c)
  PROVE  MigrationOwned'
<1>. USE DEF pauseVars, ctlVars
<1>1. PICK u \in Vcpus : u = saving[c]
  BY DEF InductiveInv, TypeOK, ActorsSet, context_saved, SavedMigrate
<1>2. UNCHANGED <<curr, softirq, ctlPc, ctlVcpu>>
  BY DEF context_saved, SavedMigrate
<1>3. CASE context_saved(c)
  <2>1. /\ cpuPc[c] = "saved" /\ cpuPc' = [cpuPc EXCEPT ![c] = "migrate"]
        /\ isRunning' = [isRunning EXCEPT ![u] = FALSE] /\ UNCHANGED <<saving, migrating>>
    BY <1>1, <1>3 DEF context_saved
  <2>2. /\ cpuPc'[c] = "migrate" /\ ~isRunning'[u]
        /\ \A d \in Cpus : d # c => cpuPc'[d] = cpuPc[d]
        /\ \A v \in Vcpus : isRunning'[v] => isRunning[v]
    BY <2>1 DEF InductiveInv, TypeOK
  <2>. QED BY <1>1, <1>2, <2>1, <2>2 DEF MigrationOwned, RequesterMoves, CpuMoves
<1>4. CASE SavedMigrate(c)
  <2>1. cpuPc[c] = "migrate" /\ UNCHANGED isRunning
    BY <1>4 DEF SavedMigrate
  <2>2. \A d \in Cpus : d # c => cpuPc'[d] = cpuPc[d] /\ saving'[d] = saving[d]
    <3>1. /\ \E pc : cpuPc' = [cpuPc EXCEPT ![c] = pc]
          /\ UNCHANGED saving \/ saving' = [saving EXCEPT ![c] = Idle]
      BY <1>4 DEF SavedMigrate, SwitchDone
    <3>. QED BY <3>1 DEF InductiveInv, TypeOK
  <2>3. CASE MustMove(u)
    <3>1. migrating' = [migrating EXCEPT ![u] = FALSE]
      BY <1>1, <1>4, <2>3 DEF SavedMigrate, vcpu_move_locked
    <3>2. \A v \in Vcpus : migrating'[v] => migrating[v] /\ v # u
      BY <3>1 DEF InductiveInv, TypeOK
    <3>. QED BY <1>1, <1>2, <2>1, <2>2, <3>2 DEF MigrationOwned, RequesterMoves, CpuMoves
  <2>4. CASE ~MustMove(u)
    <3>1. UNCHANGED migrating /\ (migrating[u] => isRunning[u])
      BY <1>1, <1>4, <2>4 DEF SavedMigrate, MustMove
    <3>. QED BY <1>1, <1>2, <2>1, <2>2, <3>1 DEF MigrationOwned, RequesterMoves, CpuMoves
  <2>. QED BY <2>3, <2>4
<1>. QED BY <1>3, <1>4

(* The requester of a migration puts the vCPU to sleep and moves it, or     *)
(* finds it running with its pCPU told to reschedule.                       *)
LEMMA OwnedCtl ==
  ASSUME InductiveInv, MigrationOwned, [Next]_vars, CtlStep
  PROVE  MigrationOwned'
<1>1. UNCHANGED <<curr, isRunning, cpuPc, saving>>
  BY DEF CtlStep, PauseSleep, vcpu_sleep_sync, AffinitySleep, vcpu_migrate, CtlWake, AdjustUnlink,
         AdjustReinsert, cpuVars
<1>2. \A c \in Cpus : softirq[c] => softirq'[c]
  <2>1. \A c \in Cpus : \A hasBudget : schedule(c, hasBudget) => UNCHANGED ctlVars
    BY DEF schedule
  <2>2. ~UNCHANGED ctlVars
    BY DEF CtlStep, PauseSleep, vcpu_sleep_sync, AffinitySleep, vcpu_migrate, CtlWake, AdjustUnlink,
           AdjustReinsert, CtlDone, CtlGoto, ctlVars
  <2>. QED BY <2>1, <2>2, SoftirqKept DEF InductiveInv
<1>3. \A v \in Vcpus : CpuMoves(v) => CpuMoves(v)'
  BY <1>1, <1>2, CpuMovesFrame
<1>4. CASE ctlPc \notin {"affinity", "migrate"}
  <2>1. UNCHANGED migrating
    BY <1>4 DEF CtlStep, PauseSleep, vcpu_sleep_sync, AffinitySleep, vcpu_migrate, CtlWake,
                AdjustUnlink, AdjustReinsert, pauseVars
  <2>. QED BY <1>3, <1>4, <2>1 DEF MigrationOwned, RequesterMoves
<1>5. CASE ctlPc = "affinity"
  <2>1. AffinitySleep /\ UNCHANGED migrating /\ ctlVcpu \in Vcpus
    BY <1>5 DEF InductiveInv, TypeOK, ActorsSet, CtlStep, PauseSleep, vcpu_sleep_sync, AffinitySleep,
                vcpu_migrate, CtlWake, AdjustUnlink, AdjustReinsert, pauseVars
  <2>2. CASE ~migrating[ctlVcpu]
    BY <1>3, <2>1, <2>2 DEF MigrationOwned, RequesterMoves
  <2>3. CASE migrating[ctlVcpu]
    <3>1. vcpu_sleep_nosync(ctlVcpu) /\ ctlPc' = "migrate" /\ UNCHANGED ctlVcpu
      BY <2>1, <2>3 DEF AffinitySleep, CtlGoto
    <3>2. fp_sleep(ctlVcpu)
      BY <2>3, <3>1 DEF vcpu_sleep_nosync, vcpu_runnable
    <3>3. ASSUME isRunning[ctlVcpu] PROVE CpuMoves(ctlVcpu)'
      <4>1. PICK c \in Cpus : Holds(c, ctlVcpu) /\ processor[ctlVcpu] = c
        BY <2>1, <3>3 DEF InductiveInv, HoldersPlaced
      <4>2. CASE curr[c] = ctlVcpu
        <5>1. softirq' = [softirq EXCEPT ![c] = TRUE]
          BY <3>2, <4>1, <4>2 DEF fp_sleep, cpu_raise_softirq
        <5>2. softirq'[c]
          BY <5>1 DEF InductiveInv, TypeOK
        <5>. QED BY <1>1, <3>1, <4>2, <5>2 DEF CpuMoves
      <4>3. CASE cpuPc[c] = "saved" /\ saving[c] = ctlVcpu
        BY <1>1, <3>1, <4>3 DEF CpuMoves
      <4>. QED BY <4>1, <4>2, <4>3 DEF Holds
    <3>. QED BY <1>1, <1>3, <2>1, <3>1, <3>3 DEF MigrationOwned, RequesterMoves
  <2>. QED BY <2>2, <2>3
<1>6. CASE ctlPc = "migrate"
  <2>1. vcpu_migrate /\ ctlVcpu \in Vcpus
    BY <1>6 DEF InductiveInv, TypeOK, ActorsSet, CtlStep, PauseSleep, vcpu_sleep_sync, AffinitySleep,
                vcpu_migrate, CtlWake, AdjustUnlink, AdjustReinsert
  <2>2. CASE MustMove(ctlVcpu)
    <3>1. migrating' = [migrating EXCEPT ![ctlVcpu] = FALSE]
      BY <2>1, <2>2 DEF vcpu_migrate, vcpu_move_locked
    <3>2. \A v \in Vcpus : migrating'[v] => migrating[v] /\ v # ctlVcpu
      BY <2>1, <3>1 DEF InductiveInv, TypeOK
    <3>. QED BY <1>3, <3>2 DEF MigrationOwned, RequesterMoves
  <2>3. CASE ~MustMove(ctlVcpu)
    <3>1. UNCHANGED migrating /\ (migrating[ctlVcpu] => isRunning[ctlVcpu])
      BY <2>1, <2>3 DEF vcpu_migrate, MustMove
    <3>. QED BY <1>3, <1>6, <3>1 DEF MigrationOwned, RequesterMoves
  <2>. QED BY <2>2, <2>3
<1>. QED BY <1>4, <1>5, <1>6

LEMMA OwnedStep ==
  ASSUME InductiveInv, MigrationOwned, [Next]_vars
  PROVE  MigrationOwned'
<1>. USE DEF pauseVars, ctlVars, cpuVars, senderVars
<1>0. TypeOK
  BY DEF InductiveInv
<1>1. ASSUME UNCHANGED <<migrating, isRunning, curr, ctlPc, ctlVcpu>>,
             \A c \in Cpus : softirq[c] => softirq'[c],
             \A c \in Cpus : cpuPc[c] \in {"saved", "migrate"} =>
               saving'[c] = saving[c] /\ cpuPc'[c] = cpuPc[c]
      PROVE  MigrationOwned'
  <2>1. \A v \in Vcpus : CpuMoves(v) => CpuMoves(v)'
    BY <1>1, CpuMovesFrame
  <2>. QED BY <1>1, <2>1 DEF MigrationOwned, RequesterMoves
<1>2. CASE \E c \in Cpus : \E hasBudget : schedule(c, hasBudget)
  BY <1>2, OwnedSchedule
<1>3. CASE \E c \in Cpus : context_saved(c) \/ SavedMigrate(c)
  BY <1>3, OwnedSaved
<1>4. ASSUME \A c \in Cpus : softirq[c] => softirq'[c],
             NEW c \in Cpus, SavedWake(c) \/ vcpu_block(c) \/ BlockCheck(c)
      PROVE  MigrationOwned'
  <2>1. /\ UNCHANGED <<migrating, isRunning, curr, ctlPc, ctlVcpu>>
        /\ cpuPc[c] \notin {"saved", "migrate"}
        /\ \E pc : cpuPc' = [cpuPc EXCEPT ![c] = pc]
        /\ UNCHANGED saving \/ saving' = [saving EXCEPT ![c] = Idle]
    BY <1>4 DEF SavedWake, SwitchDone, vcpu_block, BlockCheck, GuestRuns
  <2>2. \A d \in Cpus : d # c => saving'[d] = saving[d] /\ cpuPc'[d] = cpuPc[d]
    BY <1>0, <2>1 DEF TypeOK
  <2>. QED BY <1>1, <1>4, <2>1, <2>2
<1>5. ASSUME \A c \in Cpus : softirq[c] => softirq'[c],
             NEW c, \/ do_tasklet(c) \/ vcpu_yield(c) \/ TakeEvents(c)
                    \/ s_timer_fn(c) \/ tasklet_schedule(c)
      PROVE  MigrationOwned'
  <2>1. UNCHANGED <<migrating, isRunning, curr, ctlPc, ctlVcpu, saving, cpuPc>>
    BY <1>5 DEF do_tasklet, vcpu_yield, TakeEvents, s_timer_fn, tasklet_schedule
  <2>. QED BY <1>1, <1>5, <2>1
<1>6. ASSUME \A c \in Cpus : softirq[c] => softirq'[c], NEW s \in Senders, SenderStep(s)
      PROVE  MigrationOwned'
  <2>1. UNCHANGED <<migrating, isRunning, curr, ctlPc, ctlVcpu, saving, cpuPc>>
    BY <1>6 DEF SenderStep, vcpu_mark_events_pending, vcpu_unblock, UnblockWake
  <2>. QED BY <1>1, <1>6, <2>1
<1>7. ASSUME CtlStart
      PROVE  MigrationOwned'
  <2>1. ctlPc = "idle" /\ UNCHANGED <<curr, softirq, isRunning, cpuPc, saving>>
    BY <1>7 DEF CtlStart, CtlBegin, vcpu_pause, vcpu_unpause, vcpu_set_hard_affinity,
                vcpu_force_reschedule, fp_adjust, fp_adjust_global, SetPriorities
  <2>2. \A v \in Vcpus : CpuMoves(v) => CpuMoves(v)'
    BY <2>1 DEF CpuMoves
  <2>3. \/ UNCHANGED migrating
        \/ \E v \in Vcpus : /\ migrating' = [migrating EXCEPT ![v] = TRUE]
                            /\ ctlPc' = "affinity" /\ ctlVcpu' = v
    BY <1>7 DEF CtlStart, CtlBegin, vcpu_pause, vcpu_unpause, vcpu_set_hard_affinity,
                vcpu_force_reschedule, fp_adjust, fp_adjust_global, SetPriorities
  <2>. QED BY <1>0, <2>1, <2>2, <2>3 DEF TypeOK, MigrationOwned, RequesterMoves
<1>8. CASE CtlStep
  BY <1>8, OwnedCtl
<1>9. CASE UNCHANGED vars
  BY <1>1, <1>9 DEF vars
<1>10. \/ \E c \in Cpus : \E hasBudget : schedule(c, hasBudget)
       \/ \A c \in Cpus : softirq[c] => softirq'[c]
  BY <1>0, SoftirqKept
<1>. QED BY <1>2, <1>3, <1>4, <1>5, <1>6, <1>7, <1>8, <1>9, <1>10
       DEF Next, CpuStep, GuestStep

(* No migration is left to a party that does not perform it: context_saved()*)
(* clears is_running before it looks at VPF_migrating, vcpu_migrate() looks *)
(* at both under the lock, and a running vCPU's pCPU is told to reschedule. *)
THEOREM MigrationsOwned ==
  ASSUME QuietAdjust, ~MigrateRunning
  PROVE  Spec => []MigrationOwned
<1>1. Init => MigrationOwned
  BY DEF Init, MigrationOwned
<1>2. InductiveInv /\ MigrationOwned /\ [Next]_vars => MigrationOwned'
  BY OwnedStep
<1>. QED BY <1>1, <1>2, InvariantHolds, PTL DEF Spec
=============================================================================
