------------------------- MODULE ScheduleRefinement -------------------------
(***************************************************************************)
(* Schedule implements Dispatch: schedule() maps to Take or to a stutter,  *)
(* context_saved() to Drop, vcpu_set_hard_affinity() to Repin, and every   *)
(* other step of every actor to a stutter.                                 *)
(***************************************************************************)
EXTENDS ScheduleProofs

(* The context switch of pCPU c has not reached context_saved(). *)
LEMMA SavedSet ==
  ASSUME InductiveInv, NEW c \in Cpus, cpuPc[c] = "saved"
  PROVE  saving[c] \in Vcpus /\ curr[c] # saving[c]
BY DEF InductiveInv, TypeOK, ActorsSet, SwitchesAway

(* A step that leaves curr, cpuPc, saving and the affinities alone. *)
LEMMA QuietStutters ==
  ASSUME UNCHANGED <<curr, cpuPc, saving, hardAffinity>>
  PROVE  UNCHANGED Abstract!dispatchVars
<1>1. \A c \in Cpus : HeldBy(c)' = HeldBy(c)
  BY DEF HeldBy, Holds
<1>. QED BY <1>1 DEF Abstract!dispatchVars

(* A step that only moves pCPU c between the steps of its switch, or into  *)
(* and out of a hypercall.                                                 *)
LEMMA PcStutters ==
  ASSUME TypeOK, UNCHANGED <<curr, hardAffinity>>,
         \A c \in Cpus : \/ cpuPc'[c] = cpuPc[c] /\ saving'[c] = saving[c]
                         \/ cpuPc[c] # "saved" /\ cpuPc'[c] # "saved"
  PROVE  UNCHANGED Abstract!dispatchVars
<1>1. \A c \in Cpus, v \in Vcpus : Holds(c, v)' <=> Holds(c, v)
  BY DEF Holds
<1>2. \A c \in Cpus : HeldBy(c)' = HeldBy(c)
  BY <1>1 DEF HeldBy
<1>. QED BY <1>2 DEF Abstract!dispatchVars

(* What a pass through schedule() does to what the pCPUs hold.             *)
LEMMA ScheduleHolds ==
  ASSUME InductiveInv, NEW c \in Cpus, NEW hasBudget, schedule(c, hasBudget)
  PROVE  /\ UNCHANGED hardAffinity
         /\ \A d \in Cpus : d # c => HeldBy(d)' = HeldBy(d)
         /\ HeldBy(c)' = HeldBy(c) \cup ({curr'[c]} \ {Idle})
         /\ \A u, w \in HeldBy(c) : u = w
         /\ curr'[c] # Idle => curr'[c] \in Queued(c) /\ vcpu_runnable(curr'[c])
<1>. DEFINE next == fp_do_schedule(c, hasBudget, "enqueued" \in tasklet[c])
<1>0. Idle \notin Vcpus
  BY ConfigAssumption DEF ConfigAssumption
<1>1. next = Idle \/ (next \in Vcpus /\ next \in Queued(c) /\ vcpu_runnable(next))
  <2>1. ("enqueued" \in tasklet[c]) \in BOOLEAN /\ TypeOK
    BY DEF InductiveInv
  <2>. QED BY <2>1, DoSchedule, Zenon
<1>2. /\ curr' = [curr EXCEPT ![c] = next] /\ cpuPc[c] = "guest"
      /\ IF curr[c] = next
         THEN UNCHANGED cpuVars
         ELSE /\ cpuPc' = [cpuPc EXCEPT ![c] = IF curr[c] = Idle THEN "guest" ELSE "saved"]
              /\ saving' = [saving EXCEPT ![c] = curr[c]]
      /\ UNCHANGED hardAffinity
  BY DEF schedule, placeVars
<1>. HIDE DEF next
<1>3. \A d \in Cpus : d # c =>
        curr'[d] = curr[d] /\ cpuPc'[d] = cpuPc[d] /\ saving'[d] = saving[d]
  BY <1>2 DEF InductiveInv, TypeOK, cpuVars
<1>4. \A d \in Cpus : d # c => HeldBy(d)' = HeldBy(d)
  BY <1>3 DEF HeldBy, Holds
<1>5. curr'[c] = next
  BY <1>2 DEF InductiveInv, TypeOK
<1>6. \A v \in Vcpus : Holds(c, v) <=> curr[c] = v
  BY <1>2 DEF Holds
<1>7. \A v \in Vcpus : Holds(c, v)' <=> curr[c] = v \/ next = v
  <2>1. CASE curr[c] = next
    BY <1>2, <1>5, <2>1 DEF Holds, cpuVars
  <2>2. CASE curr[c] # next /\ curr[c] = Idle
    <3>1. cpuPc'[c] = "guest"
      BY <1>2, <2>2 DEF InductiveInv, TypeOK
    <3>. QED BY <1>0, <1>5, <2>2, <3>1 DEF Holds
  <2>3. CASE curr[c] # next /\ curr[c] # Idle
    <3>1. cpuPc'[c] = "saved" /\ saving'[c] = curr[c]
      BY <1>2, <2>3 DEF InductiveInv, TypeOK
    <3>. QED BY <1>5, <3>1 DEF Holds
  <2>. QED BY <2>1, <2>2, <2>3
<1>8. HeldBy(c)' = HeldBy(c) \cup ({next} \ {Idle})
  BY <1>0, <1>1, <1>6, <1>7 DEF HeldBy
<1>9. \A u, w \in HeldBy(c) : u = w
  BY <1>6 DEF HeldBy
<1>. QED BY <1>1, <1>2, <1>4, <1>5, <1>8, <1>9

(* schedule() takes a vCPU that nobody holds, or nothing changes.          *)
LEMMA ScheduleTakes ==
  ASSUME InductiveInv, [Next]_vars, NEW c \in Cpus, NEW hasBudget, schedule(c, hasBudget)
  PROVE  [Abstract!DispatchNext]_(Abstract!dispatchVars)
<1>1. /\ UNCHANGED hardAffinity
      /\ \A d \in Cpus : d # c => HeldBy(d)' = HeldBy(d)
      /\ HeldBy(c)' = HeldBy(c) \cup ({curr'[c]} \ {Idle})
      /\ \A u, w \in HeldBy(c) : u = w
      /\ curr'[c] # Idle => curr'[c] \in Queued(c) /\ vcpu_runnable(curr'[c])
  BY ScheduleHolds
<1>2. CASE curr'[c] = Idle \/ curr'[c] = curr[c]
  <2>1. HeldBy(c)' = HeldBy(c)
    <3>1. curr'[c] = curr[c] /\ curr'[c] # Idle => curr[c] \in HeldBy(c)
      BY DEF InductiveInv, TypeOK, HeldBy, Holds
    <3>. QED BY <1>1, <1>2, <3>1
  <2>. QED BY <1>1, <2>1 DEF Abstract!dispatchVars
<1>3. CASE curr'[c] # Idle /\ curr'[c] # curr[c]
  <2>. DEFINE v == curr'[c]
  <2>1. v \in Vcpus /\ ~isRunning[v] /\ v \in Queued(c) /\ ~migrating[v]
    <3>1. Queued(c) \subseteq Vcpus
      BY DEF InductiveInv, TypeOK, Queued
    <3>. QED BY <1>1, <1>3, <3>1, SwitchStep DEF vcpu_runnable
  <2>2. \A d \in Cpus : v \notin HeldBy(d)
    BY <2>1 DEF InductiveInv, HoldersPlaced, HeldBy
  <2>3. c \in hardAffinity[v]
    BY <2>1 DEF InductiveInv, QueuesPlaced, PlacedInAffinity, Repinning
  <2>4. [d \in Cpus |-> HeldBy(d)]' = [[d \in Cpus |-> HeldBy(d)] EXCEPT ![c] = @ \cup {v}]
    BY <1>1, <1>3
  <2>5. Abstract!Take(c, v)
    BY <1>1, <2>2, <2>3, <2>4 DEF Abstract!Take, Abstract!Free
  <2>. QED BY <2>1, <2>5 DEF Abstract!DispatchNext
<1>. QED BY <1>2, <1>3

(* context_saved() gives up the vCPU it has saved.                         *)
LEMMA ContextSavedDrops ==
  ASSUME InductiveInv, NEW c \in Cpus, context_saved(c)
  PROVE  Abstract!DispatchNext
<1>. DEFINE v == saving[c]
<1>1. /\ cpuPc[c] = "saved" /\ cpuPc' = [cpuPc EXCEPT ![c] = "migrate"]
      /\ UNCHANGED <<curr, saving, hardAffinity>>
  BY DEF context_saved, placeVars
<1>2. v \in Vcpus /\ curr[c] # v
  BY <1>1, SavedSet
<1>3. \A d \in Cpus : d # c => HeldBy(d)' = HeldBy(d)
  BY <1>1 DEF InductiveInv, TypeOK, HeldBy, Holds
<1>4. \A w \in Vcpus : Holds(c, w)' <=> Holds(c, w) /\ w # v
  BY <1>1, <1>2 DEF InductiveInv, TypeOK, Holds
<1>5. HeldBy(c)' = HeldBy(c) \ {v} /\ v \in HeldBy(c)
  BY <1>1, <1>2, <1>4 DEF HeldBy, Holds
<1>6. [d \in Cpus |-> HeldBy(d)]' = [[d \in Cpus |-> HeldBy(d)] EXCEPT ![c] = @ \ {v}]
  BY <1>3, <1>5
<1>7. Abstract!Drop(c, v)
  BY <1>1, <1>5, <1>6 DEF Abstract!Drop
<1>. QED BY <1>2, <1>7 DEF Abstract!DispatchNext

(* A vCPU is re-pinned while no pCPU holds it.                             *)
LEMMA AffinityRepins ==
  ASSUME ~MigrateRunning, InductiveInv, NEW v \in Vcpus, NEW mask \in Affinities,
         vcpu_set_hard_affinity(v, mask)
  PROVE  Abstract!DispatchNext
<1>1. /\ OffCpu(v) /\ mask \in SUBSET Cpus
      /\ hardAffinity' = [hardAffinity EXCEPT ![v] = mask]
      /\ UNCHANGED <<curr, cpuPc, saving>>
  BY EnvironmentAssumption DEF EnvironmentAssumption, vcpu_set_hard_affinity, cpuVars
<1>2. \A c \in Cpus : v \notin HeldBy(c)
  BY <1>1 DEF InductiveInv, HoldersPlaced, OffCpu, HeldBy
<1>3. \A c \in Cpus : HeldBy(c)' = HeldBy(c)
  BY <1>1 DEF HeldBy, Holds
<1>4. Abstract!Repin(v, mask)
  BY <1>1, <1>2, <1>3 DEF Abstract!Repin, Abstract!Free
<1>. QED BY <1>1, <1>4 DEF Abstract!DispatchNext

(* Every step of Schedule is a step of Dispatch or leaves it alone.        *)
LEMMA DispatchStep ==
  ASSUME ~MigrateRunning, InductiveInv, [Next]_vars
  PROVE  [Abstract!DispatchNext]_(Abstract!dispatchVars)
<1>. USE DEF placeVars, cpuVars
<1>1. ASSUME NEW c \in Cpus, CpuStep(c)
      PROVE  [Abstract!DispatchNext]_(Abstract!dispatchVars)
  <2>1. ASSUME NEW hasBudget, schedule(c, hasBudget)
        PROVE  [Abstract!DispatchNext]_(Abstract!dispatchVars)
    BY <2>1, ScheduleTakes
  <2>2. CASE context_saved(c)
    BY <2>2, ContextSavedDrops
  <2>3. CASE SavedMigrate(c) \/ SavedWake(c)
    <3>1. UNCHANGED <<curr, hardAffinity>>
      BY <2>3 DEF SavedMigrate, SavedWake
    <3>2. \A d \in Cpus : \/ cpuPc'[d] = cpuPc[d] /\ saving'[d] = saving[d]
                          \/ cpuPc[d] # "saved" /\ cpuPc'[d] # "saved"
      BY <2>3 DEF SavedMigrate, SavedWake, SwitchDone, InductiveInv, TypeOK
    <3>. QED BY <3>1, <3>2, PcStutters DEF InductiveInv
  <2>4. CASE do_tasklet(c)
    BY <2>4, QuietStutters DEF do_tasklet
  <2>. QED BY <1>1, <2>1, <2>2, <2>3, <2>4 DEF CpuStep
<1>2. ASSUME NEW c \in Cpus, GuestStep(c)
      PROVE  UNCHANGED Abstract!dispatchVars
  <2>1. CASE vcpu_block(c) \/ BlockCheck(c)
    <3>1. UNCHANGED <<curr, hardAffinity>>
      BY <2>1 DEF vcpu_block, BlockCheck
    <3>2. \A d \in Cpus : \/ cpuPc'[d] = cpuPc[d] /\ saving'[d] = saving[d]
                          \/ cpuPc[d] # "saved" /\ cpuPc'[d] # "saved"
      BY <2>1 DEF vcpu_block, BlockCheck, GuestRuns, InductiveInv, TypeOK
    <3>. QED BY <3>1, <3>2, PcStutters DEF InductiveInv
  <2>2. CASE vcpu_yield(c) \/ TakeEvents(c)
    BY <2>2, QuietStutters DEF vcpu_yield, TakeEvents
  <2>. QED BY <1>2, <2>1, <2>2 DEF GuestStep
<1>3. ASSUME NEW c, s_timer_fn(c) \/ tasklet_schedule(c)
      PROVE  UNCHANGED Abstract!dispatchVars
  BY <1>3, QuietStutters DEF s_timer_fn, tasklet_schedule
<1>4. ASSUME NEW s \in Senders, SenderStep(s)
      PROVE  UNCHANGED Abstract!dispatchVars
  BY <1>4, QuietStutters DEF SenderStep, vcpu_mark_events_pending, vcpu_unblock, UnblockWake
<1>5. ASSUME CtlStart
      PROVE  [Abstract!DispatchNext]_(Abstract!dispatchVars)
  <2>1. ASSUME NEW v \in Vcpus, NEW mask \in Affinities, vcpu_set_hard_affinity(v, mask)
        PROVE  Abstract!DispatchNext
    BY <2>1, AffinityRepins
  <2>2. \/ \E v \in Vcpus, mask \in Affinities : vcpu_set_hard_affinity(v, mask)
        \/ UNCHANGED <<curr, cpuPc, saving, hardAffinity>>
    BY <1>5 DEF CtlStart, vcpu_pause, vcpu_unpause, vcpu_force_reschedule, fp_adjust,
                fp_adjust_global, SetPriorities
  <2>. QED BY <2>1, <2>2, QuietStutters
<1>6. ASSUME CtlStep
      PROVE  UNCHANGED Abstract!dispatchVars
  BY <1>6, QuietStutters DEF CtlStep, PauseSleep, vcpu_sleep_sync, AffinitySleep, vcpu_migrate,
     CtlWake, AdjustUnlink, AdjustReinsert
<1>7. ASSUME UNCHANGED vars
      PROVE  UNCHANGED Abstract!dispatchVars
  BY <1>7, QuietStutters DEF vars
<1>8. ASSUME Next
      PROVE  [Abstract!DispatchNext]_(Abstract!dispatchVars)
  BY <1>1, <1>2, <1>3, <1>4, <1>5, <1>6, <1>8, Zenon DEF Next
<1>. QED BY <1>7, <1>8

(* The scheduler implements Dispatch, for any numbers of pCPUs and vCPUs:  *)
(* schedule() takes only a vCPU nobody holds, on a pCPU its affinity       *)
(* allows, context_saved() alone gives one up, and none is re-pinned while *)
(* a pCPU holds it.                                                        *)
THEOREM ScheduleImplementsDispatch ==
  ASSUME QuietAdjust, ~MigrateRunning
  PROVE  Spec => ImplementsDispatch
<1>1. Init => Abstract!DispatchInit
  <2>1. Idle \notin Vcpus
    BY ConfigAssumption DEF ConfigAssumption
  <2>. QED BY <2>1 DEF Init, Abstract!DispatchInit, HeldBy, Holds
<1>2. InductiveInv /\ [Next]_vars => [Abstract!DispatchNext]_(Abstract!dispatchVars)
  BY DispatchStep
<1>3. Spec => Abstract!DispatchInit /\ [][Abstract!DispatchNext]_(Abstract!dispatchVars)
  BY <1>1, <1>2, InvariantHolds, PTL DEF Spec
<1>. QED BY <1>3 DEF ImplementsDispatch, Abstract!DispatchSpec
=============================================================================
