# CPS-Xen in TLA+

CPS-Xen adds two things to Xen 4.10: a fixed-priority real-time scheduler for
virtual machines (`xen/common/sched_fp.c`, run with `sched=fp`) and event-driven
checkpointing of guests (CPS-Remus). This directory specifies the scheduler with
the part of Xen's scheduler core that drives it, and CPS-Remus from the guest's
suspension to the failover, model-checks both with TLC and proves the safety
properties of both, and that the scheduler implements an abstract dispatcher, with
TLAPS. All paths below are relative to `xen-4.10.0/`.

## Inventory of the system

| Component | State | Operations | Interacts with | What makes it correct |
|---|---|---|---|---|
| `xen/common/sched_fp.c` | a run queue per pCPU; period, slice, deadline, priority per domain; strategy; budget and period end per vCPU | wake, sleep, pick_cpu, do_schedule, adjust (domctl), adjust_global (sysctl) | called by `schedule.c`, under the schedule lock except for the two adjustments | a vCPU is linked once, in the queue of its processor; the queue is in the strategy's order; the first eligible vCPU runs; budgets bound execution and are replenished |
| `xen/common/schedule.c` | `curr` per pCPU; processor, pause flags, runstate, `is_running` per vCPU | sleep, wake, block, unblock, yield, set affinity, migrate, schedule, context_saved | pCPUs, senders of events, the toolstack | no vCPU on two pCPUs, none lost from the queues, no event lost, affinity respected, runstate accounting true |
| pause/unpause (`common/domain.c`) | pause counts | vcpu_pause, vcpu_pause_nosync, vcpu_unpause | `schedule.c` | vcpu_pause returns, and only when the vCPU is off its CPU |
| event delivery (`arch/x86/domain.c`) | upcall pending | vcpu_mark_events_pending | vcpu_unblock | the wakeup-waiting race with vcpu_block |
| tasklets, softirqs | pending bits per pCPU | tasklet_schedule, do_tasklet, cpu_raise_softirq | schedule() | tasklet work is run and the pCPU given back |
| cpupools, CPU hotplug | pCPU sets, schedulers per pCPU | sched_move_domain, cpu_disable_scheduler, fp_switch_sched | `schedule.c` | no vCPU left on a pCPU that is gone |
| CPS-Remus checkpoint loop (`tools/libxl/libxl_remus.c`, `libxl_save_callout.c`, `libxl_stream_write.c`; `tools/libxc/xc_sr_save.c`) | where the save helper is, requests and answers in its pipes, what libxl waits for; watch; timer | set-up, suspend, resume, checkpoint, next checkpoint by timer or watch, completion, teardown | save helper process, guest, xenstore, checkpoint devices, stream | one answer per request; the guest is resumed whatever fails; sessions end clean |
| Remus restore (`libxl_stream_read.c`, `tools/libxc/xc_sr_restore.c`) | buffered records, queued emulator state, memory and device model in place | read a record, finish a checkpoint, end of the stream | stream, receiver | activates a whole checkpoint, and does activate it |
| checkpoint devices (`libxl_checkpoint_device.c`, `libxl_netbuffer.c`, `libxl_remus_disk_drbd.c`) | matched operations per device; epochs of the network buffers | setup, postsuspend, preresume, commit, teardown | Remus loop | all devices done before the loop goes on; output only of committed checkpoints; teardown undoes what was set up |
| heartbeat (`cpsremus_heartbeat_*.c`, `tools/xl/xl_migrate.c`) | pid to kill | open FIFO, receive, time out and kill | restore process on the backup | failover when the primary is gone |
| toolstack (`xl sched-fp`, `libxl_sched.c`, `libxc/xc_fp.c`) | none | marshals parameters | domctl, sysctl | - |

Hard behaviours: every pause flag is changed without the schedule lock and acted
upon later under it; `is_running` outlives `curr` until the context is saved;
migration is finished by whoever comes last, the toolstack or the pCPU; blocking
races with events; the two adjustments re-link run queues without any lock;
budgets are enforced by a 100us tick. In Remus, two processes share one stream and
are kept in step by untagged answers in a pipe; any step of a checkpoint may fail;
the primary may crash, or the stream break, anywhere in a checkpoint; and on the
backup two readers take turns in reading it.

## Modules

    SchedFp  <-  Schedule  <-  ScheduleInv  <-  MCSchedule
                    ^               ^
                    |               +-- RunqLemmas <- ScheduleTyped <- ScheduleProofs
                 SchedTime <- MCSchedTime
                    ^
                 SchedService <- MCSchedService   (with ScheduleProofs) <- SchedTimeProofs

    Dispatch   instantiated by ScheduleInv;  ScheduleProofs <- ScheduleRefinement

    CheckpointDevices, Channel  <-  RemusSave  <-+
    Channel                  <-  RemusRestore  <-+- Failover <- FailoverInv <- MCFailover

    FailoverInv  <-  FailoverTurns  <-  FailoverStream  <-  FailoverOutput

(`A <- B`: B extends A. SchedTimeProofs extends SchedService and ScheduleProofs; the
proofs about CPS-Remus extend one another, FailoverTurns first.)

**SchedFp** is `sched_fp.c`. The list of a pCPU is a sequence, `runq[c]`.
`compare`, `InsertionPoint`, `Renumbered` and `PrioHandler` are the three
compare functions, the scan and the renumbering of `__runq_insert` and the three
priority handlers. `fp_sleep`, `fp_vcpu_wake`, `fp_pick_cpu` and
`fp_do_schedule` are the callbacks; they are operators, because each runs inside
a region that the caller has locked. `fp_init_pdata()` gives all pCPUs of the
scheduler *one* lock, which is why such a region is one step. Parameters of
`struct fp_dom` and of the domain's `struct fp_vcpu`s are always written
together and kept once.

**Schedule** is `schedule.c` with its callers. The actors and their program
counters:

* a pCPU (`cpuPc`): `schedule` in one step, then `context_saved` in up to three
  (clear `is_running`; look at the migration request under the lock; wake). The
  guest it runs may block (`vcpu_block` sets the flag, `BlockCheck` looks for
  events afterwards), yield, or take its events;
* a sender of events (`senderPc`): mark pending, clear `VPF_blocked`, wake, with
  the lock taken only for the last;
* the toolstack (`ctlPc`), one operation at a time: pause with and without
  waiting, unpause, hard affinity, forced reschedule, `fp_adjust`,
  `fp_adjust_global`. The adjustments visit the vCPUs one by one; for each, the
  unlinking (`AdjustUnlink`) and the re-insertion (`AdjustReinsert`) are separate
  steps, since the code holds no lock.

The set of vCPUs with budget is an arbitrary input of `schedule`, and a timer may
fire at any time: what is shown of `Schedule` holds whatever the clock does. Two
constants describe the toolstack. `QuietAdjust` says that other actors stand still
while an adjustment runs; `MigrateRunning` says that it re-pins vCPUs that may be
on a CPU. The code enforces neither restriction, and two runs show what happens without
them (see Disagreements).

**SchedTime** adds the clock. Times are kept relative to now, which makes the
state space finite without bounding the length of a behaviour: `elapsed[c]` since
the pCPU's last `schedule()`, `periodLeft[v]` until the end of v's period.
`TimedSchedule` charges the running vCPU, replenishes the queue (`update_queue`)
and then schedules with the budgets so computed. `TimePasses` is the clock.

**SchedService** adds two history variables, to state what a vCPU receives in a
period and that the period ends in time: whether a vCPU has been runnable since its last
replenishment (`steady`), and how long it has been waiting on its queue after the end of
its period (`overdue`).

**Dispatch** is what the scheduler promises, without queues, flags, priorities or
locks: a pCPU takes a vCPU nobody holds and that may run there, and later drops it;
the affinity of a vCPU changes only while nobody holds it. A pCPU holds two vCPUs
at most, while it switches. `ScheduleInv` maps `Schedule` to it: a pCPU holds its
`curr` and what it still has to save (`HeldBy`).

**CheckpointDevices** is the multidev machinery with the two kinds of devices.
`busy` and `failed` are the operation under way; the plug qdisc of an interface is
reduced to the version of the guest at its last "buffer" (`closedAt`) and at its last
"release" (`released`). Postsuspend and commit are synchronous in the code and one
step here; set-up, preresume and teardown wait for scripts or for DRBD, a device at a
time in any order.

**Channel** is the migration stream through pipes and ssh, external to the program:
a sequence of records of which a crash, a cut or a kill loses any suffix. The
records of a checkpoint are `PAGE_DATA` (all of its memory), `CHECKPOINT`,
`EMULATOR_CONTEXT` (of an HVM guest) and `CHECKPOINT_END`, each with the version of
the guest it is of.

**RemusSave** is the primary. `helper` is the program counter of `save()`;
`asked` and `replies` are the two pipes; `libxl` is what the event loop waits for.
One action per callback: the three requests of the helper, the guest seen suspended,
the time-out, the end of a device's operation (with what the last one triggers), the
writes to the stream, the timer, the watch, the helper's exit and the return to
`main_remus()`. An answer may be 0 on every path on which the code sends 0: a failure
of a device, of the suspension or the resumption (for PV guests too), of reading or
writing the device model's records, of a commit, of arming the timer, or of the timer
itself. The registration of the watch, whose result the code does not look at, may fail
without an answer, and so may the last resumption of a session, after which the guest is
`"stuck"`.

**RemusRestore** is the backup: the two readers (`inCheckpoint` says that libxl
reads), the records put aside, and the ways a stream ends. **Failover** composes the
two with the heartbeat and the faults.

**ScheduleInv** and **FailoverInv** hold the inductive invariants. The proofs are in
**RunqLemmas** (the list operations, the comparison, the sum of a set of numbers),
**ScheduleTyped** (types, lost events), **ScheduleProofs** (the other invariants of
`Schedule`), **ScheduleRefinement** (`Dispatch`), **SchedTimeProofs** (the clock),
**FailoverTurns** (types, turns, teardown), **FailoverStream** (the records) and
**FailoverOutput** (the output commit).

Abstractions. Pause counts are "zero or not"; the toolstack performs one
operation at a time and does not pause a vCPU twice. `schedule()` reads the
pause flags several times while other pCPUs may change them; the model takes one
snapshot, at the moment of the step. PV guests with unmasked upcalls are
assumed. In Remus, the memory of a checkpoint is one record, the rounds of live
migration before the first one carry nothing, error codes are success or failure,
`libxl_domain_resume()` at the end of a session has no effect on a guest that is not
suspended, and the heartbeat is silent or not, without a clock.
A session protects at least one device (the code also runs one with none).
The stream's header and its first record, `LIBXC_CONTEXT`, are one record. In the code
an end of file exactly between them is taken for an end record and completes with success
(libxl_stream_read.c:505, 578-579); the modelled faults lose whole records and do not
reach it. The device model's xenstore data and its state are one record too, written and
read together; a read error between the two, with only the first queued, fails the assertion
of `stream_done()` as well and is the case `half` of `BrokenInCheckpoint`. Of
`main_remus()`, the return for a domain that is already destroyed (xl_migrate.c:798-803) is
left out, since no guest is destroyed here, and the branch for `ERROR_GUEST_TIMEDOUT`
(815-816), which is never taken: the domain is renamed before it and the result of that
overwrites `rc`. Definitions marked in their comments as a slip are erroneous variants
of the definition that follows, kept to show that a property notices them; no
specification uses them.

## Runs

| Run | Shows | Bounds |
|---|---|---|
| blocking | no event and no wake lost, runstate accounting true (`NoLostEvent`, `RunnableIsQueued`, `RunstateAccurate`, with `Accounts`, from which it is proved); no tasklet forgotten and no guest held back by finished ones (`TaskletsNoticed`); no migration that requester and pCPU each leave to the other (`MigrationOwned`); every step is one of `Dispatch` (`ImplementsDispatch`) | 1 vCPU, 2 pCPUs, 2 senders, tasklets on one pCPU, pause, affinity, block, yield |
| migration | `InductiveInv`; each vCPU linked once, held once, run where allowed; the ASSERTs of `schedule()` (`RunqIntegrity`, `OneHolder`, `AffinityRespected`, `SwitchAssertions`) | 2 vCPUs, 2 pCPUs, every single-pCPU mask, pausing without waiting (which allows all that waiting does) |
| sorting | `GuestsSorted` and `RunqIntegrity` through parameter changes and switches of strategy; the invariant of the proof, `SortingInv` | 3 vCPUs (Dom0's and two guests'), 1 pCPU, three strategies, a new period, deadline or priority |
| service | budgets, dispatch order, service received and periods that drift by a tick at most (`BudgetBound`, `DispatchOrder`, `SliceReceived`, `ReplenishedInTime`) | 2 vCPUs, 1 pCPU, periods 3 and 7, slices 1 and 2, tick 2, any phase |
| progress | `RunnableRuns`, `EventsUnblock` under fairness | 2 vCPUs, 1 pCPU, periods 2 and 5, slices 1 and 2 |
| pause | `PauseCompletes` and `MigrationCompletes` under fairness; a paused vCPU is off its CPU (`PausedOffCpu`); `OneHolder` and `RunnableIsQueued`; all though running vCPUs are re-pinned | 1 vCPU, 2 pCPUs |
| remus | helper and libxl in step (`AnswersMatch`), whole checkpoints (`BackupConsistent`), output commit (`OutputCommit`), clean ends (`SessionEndsClean`) and their inductive invariant (`RemusInv`); under fairness no request without an answer, no guest left suspended except by a failure of the last attempt to resume it, takeover between checkpoints (`EveryRequestAnswered`, `GuestResumes`, `TakesOver`) | 1 network interface, 1 disk, PV and HVM, periodic and event-driven, 2 versions of the guest, 2 records under way, every fault |
| repin_running, adjust_race, dom0_order, remus_event, failover | the disagreements below | as small as they need |

Why these bounds are enough to be interesting: the races of blocking, waking,
pausing and migrating are between the actors that share *one* vCPU, so one vCPU,
two pCPUs and two senders already meet all of them; two vCPUs per pCPU are needed for a
vCPU to be switched away from in favour of another; sorting needs Dom0 and two
guests, since Dom0 is skipped. The periods of the timed runs are not multiples of
each other and the phases are arbitrary, so every alignment of two periods occurs; the
tick of 2 makes slice 1 overrun. In `remus` two versions are enough to tell a mixed
checkpoint from a whole one and released output from buffered; checkpoints repeat for
ever, also of an unchanged guest; two records under way let a break fall between any two
records of a checkpoint; an interface and a disk differ in which operations are
asynchronous and which fail. Faults may happen together, except that a crash
behind a cut network is left out: the backup cannot tell them apart. The guest of `remus`
writes its state node only when a checkpoint is awaited (`PatientGuest`); `remus_event`
shows what happens otherwise. No run bounds the length of a behaviour. Deadlock is not
checked for the Remus runs: sessions end.

Fairness (`TimeFairness`). Strong fairness of a pCPU's steps: every exit to the
guest processes pending softirqs, so a guest that makes hypercalls for ever cannot keep
its pCPU from `schedule()`. Weak fairness of `BlockCheck`, of a sender that has
begun and of a toolstack operation that has begun: they are straight-line
hypervisor code. Strong fairness of the clock. Guests, and the beginning of any
operation, are not fair. The timed runs have no tasklets: tasklet work takes
precedence over every vCPU without limit, and an endless supply of it does starve the
guests.

Fairness of `Failover`. Weak fairness of the helper, of libxl's event loop, of the
restoring processes and of the receiver, each while its host is up: they are
processes, their timers fire, and the scripts and ioctls they wait for return. A
writer that finds the pipe full waits for a reader that is fair. The guest is not
fair: it need not suspend, run or write; nor is any fault.

Two observations from the timed model. A slice that is not a multiple of the
100us tick is overrun by up to one tick, so feasibility has to be judged with
slices rounded up; with the tick at 2, periods 3 and 7 and slices 1 and 3 - a
load within the rate-monotonic bound - the longer period misses its slice. And
`period_next = now + period` with `now > period_next` makes periods drift by the delay of
the tick that notices them.

## Disagreements between the code and what it says

* **repin_running.** `sched_fp.c` has no `migrate` callback, so
  `vcpu_move_locked()` (schedule.c:543) only changes `v->processor`. A vCPU that
  ran when it was re-pinned stays linked on its old queue and is dispatched from
  there, outside its affinity; a later `fp_adjust` re-inserts it on the queue of its
  new processor, which picks it while the old pCPU runs it. This is what
  `ASSERT(next->runstate.state != RUNSTATE_running)` (1475) and
  `ASSERT(!next->is_running)` (1483) exclude.
* **adjust_race.** `fp_reinsertsort_vcpu()` takes no lock although "the pluggable
  scheduler code needs to take care of locking by itself" (schedule.c:1326-1327).
  A wake between its two halves links the vCPU twice.
* **dom0_order.** "Set the new strategy and reschedule all domains" (sched_fp.c:410-414):
  Dom0 is skipped (469-473) and keeps its place.
* **remus_event.** "Time to checkpoint the guest again. We return 1 to libxc"
  (libxl_remus.c:425) assumes that the helper waits in its checkpoint callback. The
  watch stays registered and answers at every write of the guest; two writes in a row, or
  a write right after the event that the registration itself causes, put two answers in
  the pipe, and the second answers the suspend request.
* **failover.** "a backup, which will activate if the target VM fails"
  (docs/README.remus:2). libxl's stream reader gets an end of file as rc 0 and takes
  the zeroed header for an empty record (libxl_stream_read.c:505); when the stream ends
  while it collects the records of a checkpoint it reads for ever. With a read
  error instead it fails over, unless an emulator record is queued, when the
  assertion at line 816 fails. Between checkpoints the restore helper reads the
  stream and handles both; this is `TakesOver`.

Known limits that the properties of `remus` are stated around: nothing acknowledges a
checkpoint, so `OutputCommit` speaks of streams of which nothing was lost; the pid for
the receiver is lost when the receiver opens its FIFO too late, so `TakesOver` speaks
of a receiver that has it; any end of the primary's session, and any late heartbeat, makes
the backup take over while the primary's guest runs on (the code has two TODOs for a
split-brain check); a guest that suspends only after the session has ended stays
suspended, and so does one whose last resumption fails, for `main_remus()` ignores its
result (xl_migrate.c:820): `GuestResumes` says that a guest suspended during the session
runs again unless its host crashes or that very attempt fails; the watch may silently not
be registered (libxl_remus.c:356), and `EveryRequestAnswered` excepts a session that
waits for its guest. Once the helper is reaped, an event of the watch completes the save
a second time; this needs a guest that writes at any time, and no passing run has one.

A limit of `MigrationOwned`: when running vCPUs are re-pinned, `v->processor` may
name another pCPU than the one that runs the vCPU (see `repin_running`). The request to
reschedule then goes to the wrong one, and the vCPU's own pCPU finds the migration only at
its next 100us tick. Run `pause` therefore checks that migrations complete
(`MigrationCompletes`), and run `blocking`, with re-pins of vCPUs off the CPU, that nobody
has to wait for a tick.

## Proofs

Every invariant that a run checks is also proved, for every value of the constants:
any set of pCPUs, vCPUs, domains, senders and devices, any parameters, affinity
masks, strategies and tick, any capacity of the stream and any combination of
faults. The assumptions on the constants are the named `ASSUME`s of the modules that
declare them (types, a pool with a pCPU, finitely many vCPUs, a session with a
device); the hypotheses of a theorem are those of its group below, and a run shows for
most of them that they cannot be dropped.

### The scheduler

Without further hypotheses:

* `TypeCorrect`: `Spec => []TypeOK`. That a priority stays an integer needs that the
  mean of the queue positions is one, so that the sum of a finite set of naturals is a
  natural. `RunqLemmas` proves this by a least counterexample (`Smaller`, `FoldExists`,
  `SumTyped`): take the smallest set on which the fold is not typed and remove an element.
* `EventsNotLost`: `Spec => []NoLostEvent`. The blocking vCPU sets its flag before it
  looks for events and the sender marks the event before it clears the flag, so each
  step that makes "pending and blocked" true leaves behind a party that has yet to
  look at the other flag.
* `TaskletsNeverForgotten`: `Spec => []TaskletsNoticed`. Each change of the two bits
  that is not made by `schedule()` itself raises the softirq, and `schedule()` leaves the
  idle vCPU on a pCPU with work.
* `PauseKeepsOff`: `Spec => []PausedOffCpu`, for a toolstack that always waits. The spin
  ends with the vCPU off its CPU, and `schedule()` picks no vCPU that is paused.
* `TimedImplementsSchedule`: `TimeSpec => Spec`, so that everything proved of
  `Schedule` holds with the clock, and `TimeTypeCorrect`: `TimeSpec => []TimeTypeOK`.

Under `QuietAdjust` and `~MigrateRunning`, which `adjust_race` and `repin_running`
show to be needed for `RunqIntegrity` and `SwitchAssertions`, and which the others
take over because they rest on the same `InductiveInv`:

* `InvariantHolds`: `Spec => []InductiveInv`, and from it `QueuesIntact`,
  `NeverRunTwice`, `AffinityHonoured`, `NeverLost` (the invariants `RunqIntegrity`,
  `OneHolder`, `AffinityRespected`, `RunnableIsQueued`) and `AssertionsHold`
  (`Spec => SwitchAssertions`);
* `MigrationsOwned`: `Spec => []MigrationOwned`;
* `ScheduleImplementsDispatch`: `Spec => ImplementsDispatch`;
* `AccountsHold` and `RunstatesAccurate`: `Spec => []RunstateAccurate`;
* `OrderHolds` and `GuestsStaySorted`: `Spec => []GuestsSorted`;
* `GuestsDispatchedInOrder`: every pass through `schedule()` leaves the pCPU with a
  vCPU that no runnable guest vCPU with budget should precede. `DispatchedInOrder`
  is the same for all vCPUs, `TimeSpec => DispatchOrder`, on a pool without vCPUs of
  Dom0 (`Vcpus \subseteq VisitedVcpus`); `dom0_order` shows why Dom0's are excepted;
* `BudgetsBounded`: `TimeSpec /\ SlicesNotCut => []BudgetBound`. `SlicesNotCut` says
  that no adjustment shortens a slice: `fp_adjust` leaves the consumed time alone, so a
  vCPU may find itself beyond its new slice the moment it is cut, though the next tick
  stops it;
* `ReplenishedWithinTick`: `ServiceSpec => []ReplenishedInTime`.

**No vCPU twice.** None of the first group is inductive alone: that no vCPU is held
twice depends on where it is queued, which depends on when `v->processor` may change,
which depends on who holds it. `InductiveInv` ties them together. A pCPU holds
(`HoldersPlaced`) and queues (`QueuesPlaced`) only vCPUs placed on it. `v->processor`
changes only in the migration path, and there either the vCPU was re-pinned while off
the CPU - then it is not runnable, nobody can dispatch it, and `vcpu_sleep_nosync()` has
unlinked it (`Repinning`) - or it is placed within its affinity already and
`fp_pick_cpu` returns the same pCPU. `schedule()` picks only from its own queue, so
whoever it picks is placed on it, and nobody else can be holding that vCPU; that the
pCPU is not itself still saving it is `SwitchesAway`. A running vCPU stays on its queue
(`CurrQueued`), so becoming runnable again needs no insertion, and `vcpu_wake()` inserts
only a vCPU on no queue (`UnlinkedOffQueue` for the one an adjustment holds in hand).

**Dispatch.** `schedule()` that picks another vCPU is a `Take` (it is free by
`OneHolder`, allowed by `AffinityRespected`, and the pCPU holds only the vCPU it leaves
by `SwitchesAway`), the end of `context_saved` a `Drop`, re-pinning of a vCPU that is off
the CPU a `Repin`; every other action changes neither.

**Migrations.** `vcpu_migrate()` leaves a vCPU that is still running to its pCPU, and
`context_saved()` looks at the request only after it has cleared `is_running`. The request
is made before the vCPU is put to sleep, and that raises the softirq of the pCPU that runs
it - the right one, since by `HoldersPlaced` a vCPU is held only where it is placed. So as
long as `VPF_migrating` is set the requester has yet to look and will find `is_running`
clear, or the pCPU has yet to switch away or to look.

**Runstates.** `RunstateAccurate` excuses a vCPU while somebody may still correct its
runstate. `Accounts` says who that is, for each way in which runstate and flags can
disagree: only the sender that unblocked it, the operation that pauses or migrates
it, or somebody about to wake it. Since each of these takes the lock next and
looks at the flags again, the disagreement ends with it or is handed on.

**Order.** An insertion scans for the first vCPU the new one precedes, and may stop in
front of a vCPU of Dom0 or of one that an adjustment has not visited yet, whose place
means nothing. That the visited vCPUs are sorted among themselves is therefore not
preserved. `QueuesOrdered` is: *whatever* stands in front of a visited vCPU precedes it,
while nothing is said of what stands behind. It survives a change of strategy or
parameter because then no vCPU counts as visited; a priority changes under FP in the
middle of an adjustment, but with the first visit, and the adjusted domain is visited
first (`AdjustedFirst`). `RunqLemmas` has the operators' part: the comparison is total
and transitive, insertion and removal keep such a queue ordered.

**Budgets.** Only `schedule()` charges, at most `Tick` after its last look, and only
the vCPU that was below its slice then; that a vCPU is charged by one pCPU only and
replenished in one queue only is `InductiveInv` again.

**Replenishment.** What a vCPU is overdue is at most what its pCPU's tick has run
(`Late`): both grow with the clock, and the pass that resets the tick replenishes every
vCPU of the queue whose period is over. It needs `InductiveInv` because a vCPU must
stand on the queue of the pCPU whose tick is meant, and must not change queues while it waits.

### CPS-Remus

Without further hypotheses: `RemusTypeCorrect` (`Spec => []RemusTypeOK`). For a guest that
writes its state node only when a checkpoint is awaited (`PatientGuest`):

* `AnswersMatchCorrect`, `SessionEndsCleanCorrect`, `BackupConsistentCorrect`,
  `OutputCommitCorrect`: the four safety properties of run `remus`;
* `RemusInvariantHolds`: `Spec => []RemusInv`, from which they follow.

The hypothesis is needed: `remus_event` shows `AnswersMatch` violated without it, and
on the same instance TLC finds `SessionEndsClean` and `BackupConsistent` violated too,
since the helper runs ahead of libxl. Whether `OutputCommit` needs it is open: the search
for a violation without it was not exhaustive. It says nothing about
periodic checkpoints, where no watch is registered. `RemusInv` has eight parts, each
resting on the ones before it:

* `TurnsInv`: there is a request, or libxl works on one, or an answer; never two of
  them. Where the helper stands determines what libxl can be waiting for, and an event
  of the watch is under way only while the watch is awaited.
* `SessionInv`: what is set up is known to be (`matched`), so teardown finds it.
* `StreamInv`: the records under way continue what the backup has read, in one fixed
  order (`Follows`), and the state of a device model is of the version of the memory
  two records before it. The backup has nothing in place or one whole checkpoint.
  It speaks of what the readers know (`LastRead`, `Held`), so that reading a record
  moves the boundary and changes nothing else; a break only shortens the stream.
* `WriterInv`: as long as a write can arrive, the last record is the one before the
  next that the primary will write. Helper and libxl write in turns, so this is where
  `TurnsInv` is used.
* `OrderInv`: versions grow from the backup's memory along the stream to the guest.
* `PlugInv`: every interface is plugged before the first memory is sent.
* `EpochInv`: the epoch the next commit will release was closed no later than the
  memory of the checkpoint under way was sent.
* `CoverInv`: the output of an interface is that of a checkpoint in place or whose
  end is in the stream. A commit comes after the end was written, by `EpochInv`; a
  reader that puts a checkpoint in place turns the second case into the first;
  `OrderInv` keeps it true when a later one follows.

### Only model-checked

* `OneHolder` and `RunnableIsQueued` when running vCPUs are re-pinned (run `pause`, one
  vCPU and no adjustments): the proofs exclude it.
* The liveness properties (`RunnableRuns`, `EventsUnblock`, `PauseCompletes`,
  `MigrationCompletes`, `EveryRequestAnswered`, `GuestResumes`, `TakesOver`): fairness is outside the reach of
  these provers.
* `SliceReceived`: whether a vCPU gets its slice depends on the load that the other
  parameters make, a schedulability analysis of which the run checks one instance.

## Not modelled

cpupools, CPU hotplug and `fp_switch_sched`; `do_poll`; `vcpu_pin_override` and
soft affinity; destruction of domains; the other schedulers; COLO, ordinary migration
and restore, and the polling variant of CPS-Remus (`xl` has no option that sets it);
the layout of records and pages; the clock of the heartbeat; toolstack marshalling;
MiniOS and the older Xen trees.

## Plan

1. `SchedFp`, `Schedule`, `SchedTime`, `SchedService` with their runs and the
   proofs above (done).
2. `Dispatch`, and `Schedule` shown to implement it by a run and by proof (done).
3. CPS-Remus: `CheckpointDevices`, `Channel`, `RemusSave`, `RemusRestore` and their
   composition with the heartbeat in `Failover` (done).
4. Proofs about CPS-Remus for any number of devices (done).
5. Proofs of `GuestsSorted`, `RunstateAccurate` and of the timed scheduler (done).
6. `do_poll` with its time-out and `poll_mask`; pause counts; moving a domain
   between cpupools; destruction of a vCPU.
