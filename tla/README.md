# KGSL / Adreno graphics kernel driver: a verification development

This directory holds TLA+ models of the Adreno GPU kernel driver (`src/`), the TLC configurations that
check them on small instances, and TLAPS proofs of what holds for every size. The driver takes draw
objects (commands, markers, sync points, binds) from many processes, orders them, waits for their
dependencies, feeds them to one GPU, recovers when the GPU hangs, and powers the GPU down between.
Its hard part is that submitters, a worker thread, interrupt handlers, timers, fences, power
management and a second processor (the GMU) act on the same queues and counters under a dozen
different locks.

* `tlc -config X.cfg M.tla` runs one configuration, `tlapm M_proofs.tla` checks the proofs of a module.
* `PROJECT.json` lists components, runs, mutants, the code lines each definition stands for, findings,
  hazards and theorems.

## 1. Inventory

| Component | Files | State | Operations | Modelled in |
|---|---|---|---|---|
| software dispatcher | `adreno_dispatch.c` | job lists per priority, dispatch queue per ringbuffer, in-flight counts, power bit, fault bits, halt count, timers | queue, issue, retire, recover, replay, idle, start/stop, suspend | `Dispatcher`, `ContextQueue` |
| draw contexts | `adreno_drawctxt.c` | draw queue ring, last/queued/retired timestamps, DETACHED/INVALID bits | create, wait, invalidate, set guilty, detach | `ContextQueue` (queue side), `EventGroup` (event side), `Process` (references) |
| draw objects, sync points | `kgsl_drawobj.c` | reference count, pending bits, timer | create, add sync points, expire, destroy | `ContextQueue` (objects in the queue), `SyncPoints` (sync objects), `Timeline` (timeline objects) |
| events | `kgsl_events.c` | event list, processed timestamp and worker of each group | add, cancel, process, flush, delete group | `EventGroup`, `EventPromise` |
| timelines | `kgsl_timeline.c` | 64-bit value, fence list, event list | signal, query, fence, destroy | `Timeline` |
| sync fences | `kgsl_sync.c` | sync timeline of a context, syncsource | create fence, signal, wait, detach | `SyncFences` |
| ringbuffer | `adreno_ringbuffer.c`, `adreno_gen7_ringbuffer.c`, ... | write/read pointer, per-ring timestamp | allocate space, submit, wait | `Ringbuffer`, `Preemption` (inline write) |
| preemption | `adreno_gen7_preempt.c`, ... | preempt state, current/next ring, timer, CP's registers | trigger, done interrupt, worker, timer | `Preemption` |
| power control | `kgsl_pwrctrl.c` | requested state, active count, votes | change state, idle check, active count | `Dispatcher`, `Hwsched` (vote and slumber), `GmuPower` |
| suspend, GPU core | `adreno.c` | halt count, halt gate, probe state | suspend, resume, idle, interrupts | `Dispatcher` (suspend/resume) |
| frequency scaling | `kgsl_pwrscale.c`, governors | measured load | sample, change level | no: a tuning loop |
| hardware scheduler | `adreno_hwsched.c`, `*_hwsched*.c` | command and bind lists, job lists, hardware fences | submit, retire, recover, slumber | `Hwsched`, `HwFences` |
| GMU and HFI | `adreno_*_gmu.c`, `adreno_*_hfi.c` | message queues, pending acks, votes | send, receive, time out; boot, stop | `HfiQueue`, `MessageQueue`, `HwFences`, `GmuPower` |
| memory entries, processes, ioctls | `kgsl.c` | per-process id tables, reference counts, context table | allocate, free, import, open, close | `Process`, `AddressSpace`; submission ioctls in `ContextQueue` |
| page pools | `kgsl_pool.c`, `kgsl_sharedmem.c` | free pages per order, counts | take, return, shrink | `Pool` |
| reclaim | `kgsl_reclaim.c` | pinned count, reclaimed count, state of a process | reclaim, pin back | `Reclaim` |
| MMU | `kgsl_iommu.c`, `kgsl_mmu.c` | address tree of each process | get, find, free address | `AddressSpace` |
| virtual buffers | `kgsl_vbo.c` | interval tree of bound ranges | bind, unbind in a worker | `Vbo` |
| performance counters | `adreno_perfcounter.c`, `adreno_profile.c` | counter users, profile buffer | get, put, query | no |
| snapshot, command parser | `kgsl_snapshot.c`, `adreno_snapshot.c`, ... | current snapshot, its reader and worker | dump, replace, read | `Snapshot` (its life) |
| tracing, debugfs, sysfs, coresight | ... | none other parts depend on | developer I/O | no |
| register access, headers, build | ... | constants | | no |

### How the parts interact

1. A thread's submission ioctl builds draw objects and calls `adreno_dispatcher_queue_cmds`. Under
   `drawctxt->lock` it waits for room in the context's ring, assigns the timestamp, stores the objects,
   and then, with the lock dropped, puts the context on a **job list** (`dispatcher_queue_context`).
2. `adreno_dispatcher_issuecmds` runs the dispatch loop in the submitting thread when
   `dispatcher->mutex` is free and the GPU is up, else the **worker** does. The loop walks the
   jobs by priority and sends bursts of commands from each context's ring to the **dispatch queue** of
   its ringbuffer and to the GPU. Objects that need no GPU (expired syncs, markers, finished binds)
   retire on the way and write the context's `eoptimestamp`. With several ringbuffers a **preemption**
   moves the CP to the one of the highest priority that has commands.
3. The GPU writes the timestamp and raises an interrupt; the worker retires the commands whose
   timestamp passed, and the **event groups** run callbacks: fences signal, sync points of
   other contexts expire, and `adreno_drawctxt_sched` puts their contexts back on the job lists.
4. A **fault** (interrupt or the command timer) makes the worker reset the GPU, decide whose command is guilty,
   and **replay** the others.
5. The first command in flight takes an **active count**, the worker drops it with the last one; with
   none left the idle timer lets the GPU slumber. A **system suspend** closes a gate for new
   submissions, drains, and raises the halt count.
6. A **detach** (or process exit) drains the ring, waits for the GPU, cancels the events, wakes sleepers.
7. Where the **GMU schedules** (`adreno_hwsched.c`), the dispatcher's place is taken by a pass that hands objects
   to the GMU through **message queues** and keeps each on a list until it retires; hardware fences are sent
   and signalled by the GMU too, with a throttle when it does not keep up.
8. **Memory**: an entry of a process gets a GPU address, pages from a pool, a mapping; the shrinker takes idle
   processes' pages away and a submission brings them back; a bind operation maps entries into a virtual buffer.

### What makes each part correct, and what is hard about it

* *Context queue*: head, tail and count agree; timestamps reach the GPU in order
  although commands are refused and put back in front; nothing enters a drained queue; every object is freed
  exactly once although the ring, the dispatcher's hand, the dispatch queue and callbacks hold it in
  turn; a timestamp is not reported retired too early; sleepers for room wake.
* *Dispatcher*: two in-flight counts agree through a recovery; the vote is held exactly while
  commands are in flight; no command lost, doubled or reordered by refusal, fault, replay;
  no context with work dropped from the job lists (a lost wake-up); nothing sent while halted; every
  command retires or its context is declared guilty.
* *Hardware scheduler*: the list is what the GMU has; slumber only with nothing in flight; a context that could
  not send is scheduled again by someone; fences reach the GMU once, in order, and none after its context.
* *Events, sync points, timelines, fences*: exactly-once callbacks, comparison of wrapping timestamps, callbacks racing the
  destruction of what they point to, reference counts.
* *Ringbuffer, HFI*: index arithmetic at the wrap, the reader's view of a half-written message.
* *Preemption*: interrupt against timer against trigger against recovery.
* *Power*: the error paths of boot and stop, and who turns off a GPU nobody uses.
* *Memory*: reference counts of entries and processes; limits read without their lock; addresses picked from a
  hint, a search and the CPU's mappings; page arrays filled by two threads.

All hazards are in `PROJECT.json`, each at its line, with the property that covers it.

## 2. Plan

| # | Module | What it adds | State |
|---|---|---|---|
| 1 | `ContextQueue`, `MCContextQueue` | one context's ring, its submitters, dispatcher, GPU, detach | done |
| 2 | `Dispatcher`, `MCDispatcher` | several contexts and rings, worker, power, fault, suspend | done |
| 3 | `EventGroup`, `SyncPoints`, `EventPromise`, `MCSyncPoints` | events of one context; sync objects waiting on events and fences; the promise they keep | done |
| 4 | `Hwsched`, `MCHwsched` | the scheduler for GPUs whose firmware schedules | done |
| 5 | `HwFences`, `Preemption`, `GmuPower`, `HfiQueue` (implements `MessageQueue`), `MCFirmware` | what driver and firmware do together | done |
| 6 | `Ringbuffer`, `Timeline`, `Reclaim`, `Vbo`, `Process`, `SyncFences`, `Snapshot`, `Pool`, `AddressSpace`, `MCParts` | the small parts | done |
| 7 | `ContextQueue_proofs`, `Dispatcher_proofs`, `GmuPower_proofs`, `HfiQueue_proofs`, `Firmware_proofs`, `Process_proofs`, `Parts_proofs`, `Hwsched_proofs` | section 6 | done |
| 8 | proofs for the other small parts, `SyncPoints`, `HwFences` | | left out |
| 9 | performance counter reservation, work periods of processes | tables under one mutex | left out |

`Dispatcher` keeps of a context's queue only its first and last timestamp (`sent`, `queuedTs`); that
abstraction is what `ContextQueue` justifies (`RetiresInOrder`, `RingIntact`: what is popped and put back is a
stretch of the context's stream, in order). Ring space, preemption and events appear in
both as nondeterministic outcomes, which `Ringbuffer`, `Preemption` and `EventGroup` justify.

## 3. The modules and the code

### `ContextQueue`

One `adreno_context`. The ring is `drawqueue`, `head`, `tail`, `queued` (`drawqueue_head`, ...); the timestamps are
`timestamp`, `queuedTs` (`queued_timestamp`) and `retired` (the context's `eoptimestamp` in the memstore);
`obj`/`ref` are the draw objects and their `kref`s. Timestamps do not wrap in this module (they do in `EventGroup`).

* **Submitters** (`pc[t]`): `QueueStart` is the ioctl that builds a batch; the batches are the ones
  the ioctls produce (`IoctlBatches`). `QueueWait`/`CheckRoom`/`WaitTimeout` are
  `wait_event_interruptible_timeout` with the lock dropped, `QueueRefused` the error returns, `QueueFastMarker` and
  `QueueObjs` the rest of `adreno_dispatcher_queue_cmds`. A thread that was woken does not look at the room again, as in
  `_wait_for_room_in_context_queue` (`adreno_dispatch.c:995-1028`).
* **Dispatcher** (`dpc`): `Consider`, `NextCommand`, the walk of `adreno_dispatcher_get_drawobj` (`RetireFront`, `StartBind`,
  `ScanEnds`, `TakeCommand`), `SendOk`/`SendGone`/`SendFails`/`Requeue`, `WakeSubmitters`. It is one actor because worker and inline
  submitters hold `dispatcher->mutex`. The walk holds `drawctxt->lock` over several actions (`LockFree`);
  every other critical section of that lock is a single action.
* **GPU and recovery**: `GpuFinish`, `RetireInflight`, `GpuFault`, `RecoverReplay`/`RecoverDrop`/`RecoverGuilty` and
  `FinishInvalidate` (the part of an invalidation after the lock is dropped).
* **Detach**: one action for each stretch between two locks or waits.
* **Callbacks**: a fence, a timestamp event or a bind completes.

### `Dispatcher`

All contexts and ringbuffers, with a context's queue reduced to two counters. `mutex` says who is in the
dispatcher (the worker or a submitting thread), `step` where it is. A scene says which ringbuffers and priorities the
contexts have, how much each submits and how often faults, hangs, refusals, idle calls and suspends happen.

| Actions | Code |
|---|---|
| `QueueCmd` `QueueJob` `LeaveToWorker` `InlineStart` `InlineDefer` | end of `adreno_dispatcher_queue_cmds`, `adreno_dispatcher_issuecmds` |
| `FenceFires` `QueueContext` | `drawobj_sync_expire`, `adreno_drawctxt_sched` |
| `IssueStart` `LevelEnd` `DropJob` `KeepJob` `JobBusy` `StartContext` `PopCmd` `SendEnds` `SendBlocked` `SubmitOk` `SubmitFails` `SubmitHalted` | `_adreno_dispatcher_issuecmds`, `dispatcher_handle_jobs(_list)`, `dispatcher_context_sendcmds`, `sendcmd` |
| `WorkStart` `RetireRing` `NoFault` `FaultDeferred` `DoFault` `RecoverRing` `RecoverFails` `ReplayOk` `ReplayFails` `RecoverEnd` `Finish` | `adreno_dispatcher_work` and `dispatcher_do_fault` |
| `GpuRetires` `Preempt` `GpuHangs` `GpuResumes` `FaultIrq` `TimerFires` `IdleCheck` | the hardware, its interrupts, the command timer, `gmu_idle_check` |
| `IdleStart` `IdleFlushed` `IdleWaited` `IdleEnd` | `adreno_dispatcher_idle` (called from `adreno_profile.c`) |
| `SuspendPrepare` `DrainStart` `SuspendDenied` `SuspendDone` `SuspendFails` `Resume` `PostSuspend` | PM notifier, `adreno_pm_suspend`, `gen7_gmu_pm_suspend`/`resume` |

A critical section of `device->mutex` is one action. `halt_gate` is `haltGate`; `suspend_recovery_gate` is
complete exactly when `pm = "on"`; `fault_recovery_mutex` is held by the suspend while `pm = "draining"`.
The platform is one with a GMU: `sendcmd`'s active count powers the GPU up, and `gmu_idle_check` powers it down. A command
that was sent again before its context became guilty may still retire, and then lowers the timestamp
of a bad context (`GpuRetires`). Left out:
the early return of the recovery on an SMMU stall, the state machine of a preemption (only its result `cur`), and
what a recovery prints and saves.

### `EventGroup`, `SyncPoints` and `EventPromise`

`EventGroup` is the event group of one context W (`kgsl_events.c`) with those who use it. Timestamps are true counts
(`queued`, `sent`, `retired`); the code compares their registers `Reg(n)`, which wrap, with `TsCmp` (`timestamp_cmp`).
`list` is `group->events`, `work` the kthread worker's queue, `est[e]` says where event `e` is, `wref` is W's `kref`.

| Actions | Code |
|---|---|
| `AllocEvent` `InsertEvent` | the two halves of `kgsl_add_event`, before and under `group->lock` |
| `ProcessStart` `Process` | `kgsl_process_event_groups`, `_process_event_group` after an interrupt or a retirement |
| `WorkStart` `WaitCallback` `EndEvent` | `_kgsl_event_worker`, one event at a time |
| `WaitEnter` ... `WaitCancel` | `adreno_drawctxt_wait`: registers an event, sleeps, on a timeout takes an event back |
| `InvalidateMark` `InvalidateCancel` `InvalidateFlush` `InvalidateWake` | `adreno_drawctxt_invalidate` |
| `DetachMark` ... `DetachPut` | `kgsl_context_detach` with `wait_for_timestamp_rb` |

`SyncPoints` extends it with one sync object in the queue of another context D. Its points are timestamps of W and fences of
others. `pending` is the bit mask, `oref` the object's `kref`, `timer` the deadlock timer. The ioctl (`Create` ... `Enqueue`,
`Fail`) builds and queues it; callbacks of events (`Callback...`) and of fences (`Fence...`) expire points in
`drawobj_sync_expire`, whose clearing of the bit and whose look at the other bits are two steps; the dispatcher
(`TakeJob`, `Pop`, `LookPending`, `ArmTimer`) is `dispatch_retire_syncobj` under D's `drawctxt->lock`; `EndOfD` is the
draining of D's queue; `Destroy...` is `syncobj_destroy` by whoever took the object. D is reduced to that one
object and to its place on a job list (`kick`); `Dispatcher` has the job lists in full.

`EventPromise` is what a caller of `kgsl_add_event` may rely on: a callback at most once, told RETIRED only when
the timestamp has retired, and called in the end. `PromiseKept` states that `EventGroup`, with the callers of
`SyncPoints`, implements its safety part under the mapping at the end of `SyncPoints`; `EveryoneWoken` is the rest.

Left out: points on the object's own context, timeline points, the fences
`kgsl_add_fence_event` creates, groups without a context. The last lines of `syncobj_destroy` schedule D when a
bit is still pending; each bit has been cleared by then, so they are not in the model.

### `Hwsched`

`adreno_hwsched.c` with the contexts' queues, where the GMU schedules. Object i of context c is `<<c, i>>`, i its
timestamp; a scene gives the kinds of the objects (`cmd`, `big`, `marker`, `sync`, `hwsync`). `list` is `cmd_list` and
`inflight` its length; `jobs` and `requeue` are the job lists; `hwq` is a context's queue in the GMU, `gmu` what the GMU
works on, `news` the messages it has sent. `Queue`, `Pass` (pick a context, pop, send, put back), `WorkStarts`/`WorkEnds`/`Recover`
(`adreno_hwsched_work`, `hwsched_do_fault` with hard, soft or no reset), `ReadNews`, `Slumber`, the steps of a suspend, of a detach and of a
registration that fails are actions. `device->mutex` and `drawctxt->lock` are held within a step; the order of contexts within a pass is open.
A power-off empties the GMU's queues (`PowerOff`, `adreno_hwsched_unregister_contexts`), and a suspend goes on only if the GPU executes nothing
(`HwIdle`): a command of a context that was detached while it hung is dropped from the list by a soft reset and stays with the GMU.
Left out: priorities, recurring command objects, LPAC, bind and timeline objects (in `ContextQueue`), a detach that timed
out. What the GMU does with a guilty context's queue in a soft reset is external.

### `HwFences`

Hardware fences (`adreno_gen7_hwsched_hfi.c:2700-3300` and the recovery): creators under `drawctxt->lock` (which sleep when too many fences
are unacknowledged), the submission that sends the fences queued for its timestamp or defers them, the reader of the
acknowledgements, the f2h thread that ends the throttle and sends what was deferred, the 2 s timer, detach, recovery and
the GMU itself. `unack`, `flags`, `halt`, `defer`, `votes` are `hwf->unack_count`, `flags`, the halt count, the deferral and the
active counts it takes. An acknowledgement that is waited for and times out is `WaitFails`. Left out: slumber, a stuck GMU during a recovery, a full
HFI queue except as the accident `full`.

### `Preemption`

Ringbuffers of several priorities on one CP (`adreno_gen7_preempt.c`, `gen7_ringbuffer_submit`). Two threads interleave:
whoever holds the dispatcher, and the interrupt handler. `pc[t]` walks through the trigger: `Trigger`, `Scan` (one ring at a
time under its `preempt_lock`), `SwitchRing`, `Program`, `Fire`; the ways a switch ends are `CallbackEarly`/`CallbackSwap`, `PreemptTimer` with `PreemptWorker`,
`Schedule` with `Done`, and `Recover`. `hw` and `record` are the CP's registers and the record it loads the next ring from.
A write pointer is the number of commands put in its ring since the last reset.

The submission's look at the preemption state and its write of the register are one step. They are done with interrupts
off under the ring's `preempt_lock`, which the trigger on another CPU takes only for rings it looks at: a write delayed past a whole switch would reach the
register of the other ring. Further: the preemption timer (10 s) does not fire between the last two writes of a trigger, `Done` waits for the pending interrupt of the
switch, the command timer fires only when nothing else can move, power is always on, a failed fenced write of a
submission is left out. The contents of the save records are not modelled.

### `GmuPower`

`adreno_gen7_gmu.c` and `kgsl_pwrctrl.c` of a GPU with a GMU. `power` is the state with the votes and enables that boot and stop take and
give back (`gdsc`, `clks`, `girq`, `irq`). `GmuBoot`, `GpuBoot`, `GmuPowerOff`, `BootError` are functions from one such record to
the next, with every failure the code handles as an alternative; the actions are the callers: first open, open, close, active count get and put,
submission, idle timer and its worker, system suspend and resume, touch, fault and reset. `device->mutex` is held within a step. Left out: hibernation, the HFI flag,
`wake_on_touch`, pwrscale.

### `HfiQueue` and `MessageQueue`

A circular queue between host and GMU (`gen7_hfi_queue_write`, `gen7_hfi_queue_read`), one dword a step on either side, the
header giving the size and the end filled up to four dwords with the cookie. `ReadsAsWritten` says that
it implements `MessageQueue`, a sequence of messages, under the mapping `Contents`, which reads the queue as its reader will. A message that is
too big returns `-EMSGSIZE` without moving the index; it and the status DISABLED are left out.

### The small parts (composed in `MCParts`)

| Module | Code | What is an action | Left out |
|---|---|---|---|
| `Ringbuffer` | `adreno_ringbuffer_allocspace`, submit | the three ways to find space, submit, one dword read | packet contents |
| `Timeline` | `kgsl_timeline.c` | fences made, polled, released; objects created, popped, put, told; signals; the three parts of a destruction | fence arrays, CPU wait, several timelines |
| `Reclaim` | `kgsl_reclaim.c`, the fault handler of `kgsl_sharedmem.c` | the worker and the pinning, one page a step; submissions, binds, frees; a CPU fault | migration, the snapshot's SKIP flag, several processes |
| `Vbo` | `kgsl_vbo.c` | bind and unbind operations, one range or page-table call a step; frees; teardown | several ranges in one operation |
| `Process` | `kgsl.c`: process structure, entries, contexts | open and close of files, allocation, lookup, the four ways to free, mappings, detach, sysfs readers, deferred puts | foreign memory, queries |
| `SyncFences` | `kgsl_sync.c` | fences of a context or a source made, signalled, cancelled, closed, dumped; detach, destroy | a detach that timed out |
| `Snapshot` | `kgsl_snapshot.c` | dump, worker, readers piece by piece, replacement by a GMU fault | devcoredump build, the atomic snapshot of a panic |
| `Pool` | `kgsl_pool.c`, the allocation loop of `kgsl_sharedmem.c` | take, add, give back, the shrinker, the order falling on a failure | exit, the shmem build |
| `AddressSpace` | `kgsl_iommu.c` address tree, `get_svm_unmapped_area` | get, insert and its failures, import, map, the steps of an mmap, free, put, and what leaks on a failure | the address a caller of mmap suggests, MAP_FIXED, secure and global tables |

## 4. Runs

`MCFirmware` and `MCParts` put modules that share no state side by side: `part` says of which one a behaviour is, the others stutter in one initial
state. Deadlock is not checked: the models have bounds on what is submitted, and a driver with nothing to do stops.

| Run | Instance | Asks |
|---|---|---|
| `queue_commands` | 2 threads, ring of 6 starting at slot 5, limit 3, user timestamps up to 3, 4 objects, 1 refusal, a detach | `TypeOK` `RingIntact` `DrainedStaysEmpty` `RefsMatchHolders` `DetachMeansIdle` `RetiresInOrder` |
| `queue_binds` | 1 thread, ring of 8 from slot 5, binds behind their implicit sync, timeline signals, 1 fault, 1 refusal, fairness | `RetiresInOrder` with CPU-retired objects; `EverythingEnds` (sleepers woken, objects freed) |
| `dispatch` | 7 scenes: 2 contexts on 2 rings of 2 priorities with faults, hangs, refused power-ups; 2 contexts on 1 ring with idle calls, suspends, a fault | `RecordsAgree` `NoCommandLost` `NobodyForgotten` `IdleMeansDrained` `HaltHolds` |
| `dispatch_live` | 1 hang, a fence, fairness | `WorkEnds` |
| `sync_points` | timestamp 16 awaited on registers that wrap at 16; 5 scenes of waiters, a sync object, detach, invalidation | `HoldersRight` `NothingLeftBehind` `PopsWhenOver` `PromiseKept` |
| `sync_live` | 4 scenes with fairness | `EveryoneWoken` `Freed` |
| `hwsched` | 2 contexts, 3 scenes, 1 or 2 accidents (hang, watchdog, refused power, registration, detach, suspend), GMU queue of 2, hard and soft resets, fairness | `RecordsAgree` `GmuHasTheList` `NothingForgotten` `AllEnds` |
| `firmware` | preemption of 2 rings with one accident; fences of commands 1 and 3 of a context, at most 2 unacknowledged, one failure; 2 files and 2 votes in 3 scenes of failures; a queue of 12 dwords; fairness | `SwitchesAgree` `ThrottleEnds` `NothingStranded` `SentInOrder` `PowerKept` `ReadsAsWritten` `EveryoneGetsOn` |
| `parts` | the nine small modules | `NothingOverwritten` `TimelineKept` `PagesKept` `BuffersKept` `ProcessKept` `FencesKept` `SnapshotKept` `PoolKept` `AddressesKept` |
| `hwsched_recovers` `fences_deferral` `reclaim_twice` | small | the findings of section 7 |

**Why the bounds are enough.** A ring of 6 or 8 slots that starts at slot 5 wraps with the first batch, so `PREV(0)`,
`tail < head` and the window around the wrap all occur; a limit of 3 makes every second batch wait. Three slots more than the limit are what one thread's batch can
exceed it by (section 6 says how the room depends on the number of threads). Two threads are the
fewest that race for the room and the timestamp. In `Dispatcher`, in-flight limit 2 and burst 2 make a ring full and a burst end with three commands; two contexts are needed for
a guilty one and a survivor. One fault, hang, refusal, idle call and suspend each put that event at every point of
every execution. `NobodyForgotten` asks that each waiting context have a job only in the scenes without
faults and hangs, and that somebody will look only in those without refusals too, because the code does not keep it otherwise (section 7).
`dispatch_live` has neither fault interrupt nor idle call nor suspend for the same reason.

In `sync_points` and `sync_live` a scene is a state a context long in use can be in (what is queued, sent and retired, just below the
wrap) and the calls that happen from then on, each at any time. `Window` is 8 instead of 2^31; what matters is that
timestamps compared are on both sides of the wrap and closer than the window. Two waiters for the same timestamp are the
fewest of which one can take the other's event back. The scenes keep apart what would multiply the states
without meeting.

In `hwsched` a GMU queue of 2 is full with the third object of a context; two contexts are one that is guilty, detached or waits and one that goes on. A fence limit of 2 and a drop to 1 make the
throttle begin and end with four fences. The queue of 12 dwords holds messages shorter and longer than the alignment and wraps with each second one. A ringbuffer of 12 dwords with submissions up to 5 is the smallest the assumption allows that
has every way to find space. In the small parts two of each (threads, entries, files, fences, snapshots) are the fewest that race; a scene
chooses which operations meet.

**Mutants.** Each property of a passing run has a `Bug_...` definition beside the one it replaces: a dropped decrement, a
wrap forgotten, a command put back at the tail, a worker not queued. With the mutated definition TLC finds the
property violated in the same configuration.

## 5. Fairness

*ContextQueue* (`queue_binds`): weak fairness of the dispatcher (its job stays on the list while there is work,
`Dispatcher` says so) and of the GPU's progress; strong fairness of `RetireInflight` and recovery, because they need the
dispatcher between two contexts and the worker retires before it issues; strong fairness of a submitter's
lock acquisition, because the mutex is fair but not always free; fences signal and binds finish. Nobody has to
submit, to detach or to time out, and the wait's timeout is not fair: a sleeper must be woken without it.

*Dispatcher* (`dispatch_live`): weak fairness of the worker thread, of the submitting threads, of the thread that is inside the
dispatcher, of fences, of the timer, of GPU progress while it is not hung, and of a preemption once requested. A hang need not end by itself:
only the timer and the recovery end it. Faults, slumber, suspends and idle calls are never assumed to occur.

*SyncPoints* (`sync_live`): weak fairness of the events worker, of the processor of events (each retirement raises an interrupt
that queues the dispatcher's worker, and `adreno_dispatcher_work` walks the event groups), of the dispatcher and of each thread and callback that has begun, each by itself. No call has to begin; the
GPU need not retire, no fence need signal and no wait time out. Where a detach gave up on the GPU after its
30 and 5 seconds (`Abandoned`) the liveness properties say nothing.

*Hwsched*: weak fairness of the worker and the thread inside the pass, and of submissions, GMU, messages, fences and calls that have begun. Accidents and slumber are never assumed.
With a third accident `AllEnds` would not hold: a command that hangs again while the GPU powers down leaves a fault that a GPU asleep does not
recover from, and the worker requeues itself until somebody powers it up (`adreno_hwsched.c:2379-2399`; a boot clears the fault, `adreno_gen8_hwsched.c:422`).
A marker or a sync object of the GMU that expired while it was on the list keeps the vote until the next retirement (`Lingers`); `AllEnds` exempts it.

*HwFences*: weak fairness of each thread, of the timer and of a GMU that is not stuck; strong fairness of a creator woken
(`Awake`), since the flag it waits for may rise again. *Preemption*: weak fairness of each thread, timer and work, and of a CP that does not hang. *GmuPower*: time passes, the timer fires, its work runs, a submission ends.

## 6. Proofs

All theorems are for every value of the constants within the named assumptions; the last step of each is the usual one (the invariant
holds initially, every action keeps it, it implies the property; `PTL`). Each module's proofs go action by action.

### `ContextQueue_proofs`

* `QueueTypeOK`, `RingStaysIntact`, `DrainIsFinal`: `Spec => []TypeOK`, `[]RingIntact`, `[]DrainedStaysEmpty`.
* `RequeueAlwaysHasRoom`: `Spec => []RequeueHasRoom`, what the `WARN_ON` of `adreno_dispatcher_requeue_cmdobj` and the
  writes to the slot before the head need.
* `ReferencesMatch`: `Spec => []RefsMatchHolders`.
* `DetachedIsIdle`: `Spec => []DetachMeansIdle`.

The assumption beyond the module's own is

    RoomAssumption == QSize + MaxBatch * Cardinality(Threads) < RingSize

It is needed because the driver checks the room before it drops the lock and not after: every thread that sleeps
may add its batch on top of the limit. With the shipped sizes (128 slots, limit 50, 3 objects a batch) it
allows 25 submitting threads of one context.

`RingIntact` is not inductive. The invariant is the conjunction of `TypeOK`; `Control`, which steps of dispatcher, submitters and detach can coincide (the dispatcher's
hand is full exactly at `send` and `requeue`; no scan of a drained queue ends in a put-back; a drained context is bad);
`Fill`, how full the queue can be, given the threads that have been told there is room and have not yet
queued, each of which accounts for one batch above the limit;
`QueueInv`, the window from head to tail holds `queued` objects (`Room`, `Span`); and `DrainedStaysEmpty`.
The references need besides that every object is in one place at a time: the ring's slots hold different objects, none of which is in the hand or
in flight. `DetachMeansIdle` needs the order in which detach marks, drains and reads the timestamp it waits for, against a command that the
dispatcher has already taken.

### `Dispatcher_proofs`

* `InvariantHolds`: `Spec => []IInv`.
* `RecordsStayRight`, `NothingIsLost`, `IdleIsDrained`: `Spec => []RecordsAgree`, `[]NoCommandLost`, `[]IdleMeansDrained`.
* `HaltIsKept`: `Spec => HaltHolds`, an action property.
* `FaultsAreSeen`: the parts of `NobodyForgotten` about faults and the halt gate.

The hypothesis is `QueueHasRoom` (`InflightMax < DqSize`): a full dispatch queue has `head = tail` and looks empty. The
inductive invariant is

    IInv == TypeOK /\ Holder /\ Queues /\ VoteMatchesWork /\ Gates /\ Halts /\ Faults /\ Whereabouts /\ NoCommandLost

`Holder` says which steps, hands and lists go with who holds the mutex; `Queues` relates the dispatch queues (circular buffers read as sequences by
`Contents`) with the counts, the sum over the rings being a fold; `Whereabouts` says of each command that was sent, is to be
replayed or has retired where it is. A dispatch queue and the GPU's ringbuffer *agree from their ends* (`Agree`): the GPU takes
from the front, the dispatcher adds to both, and what the queue has beyond has retired (`Over`). A recovery empties
ring after ring and keeps what is to be replayed in order (`Replayed`, by the indices it picks).

### `GmuPower_proofs`

`PowerStaysKept`: `Spec => []PowerKept` under `Apart`, which excludes exactly the three scenes where the code does not keep it (section 7).
Boot, stop and reset are functions of one record, so the proof is a sequence of lemmas about what each does to a record that is on, off or half on.

### `HfiQueue_proofs`

`QueueIsFifo`: `Spec => ReadsAsWritten`: the circular queue implements `MessageQueue`. The refinement mapping `Contents` chooses how many
messages there are; the proof gives them explicitly (`LaidOut`: offsets and messages, one behind the other, from the read to the write index, and the dwords in
between are theirs), shows that the choice is unique, and that each step is a send, a receive or a stutter. `Writer` and
`Reader` say what has been copied so far.

### `Firmware_proofs`

About the specification `PartsSpec` that the run `firmware` checks.

* `SwitchesStayAgreed`: `PartsSpec => []SwitchesAgree`, for every number of rings and commands and all accidents at once.
  The invariant (`SwitchInv`): the preemption state says which thread is at a switch (`OneAtIt`: at most one scans, programs or
  fires; PENDING belongs to the interrupt handler, COMPLETE to the dispatcher), and where the CP is (`Switching`: on the current ring, about to switch to the next, or there), and the
  record never points past the commands of its ring (`Pointers`).
* `PowerIsKept`, `QueuesAreFifo`: the theorems above for the instances of the run; `MishapsAreApart`: the run's scenes satisfy the hypothesis.

### `Parts_proofs`

The theorems are about the run's specification: a lemma (`SnapshotBehaves`, `ReclaimBehaves`, `BufferBehaves`) first shows that it behaves as the component does. Each action
has a lemma of its own.

`PartsSnapshotKept`: `PartsSpec => []SnapshotKept`, from `SnapshotInv`:

* `HeldRight`: a snapshot is alive exactly while the device, a reader or who is about to free it (`FreesIt`) has it; one at most is about to free it, and then
  nobody reads it. A later free, or a reader that comes after it, would have to break this.
* `CountRight`: `sysfs_read` is the number of its readers.
* `DumpRight`, `ReaderRight`: a dump frees the device's snapshot or fills one that nobody has, the area holds the device's; who frees one has taken it from the device.
* `GotRight`, only where there is one reader (`Only`): what it has got is of the snapshot it reads, unless that was replaced; between two calls it is of the
  device's, or the device's has not been read yet and the next call starts over.

`PartsPagesKept`: `PartsSpec => []PagesKept`, from `ReclaimInv` and `CountInv`:

* `JobRight`: `reclaim_lock` is held for a job, by the worker to take pages or by a caller to bring them back, and what the job found out about its entry
  (that it is, or is not, reclaimed; that no buffer maps it) holds until it is done.
* `PagesRight`: a job that brings pages back finds those in front of the one it looks at in place, although a CPU fault may fill pages meanwhile.
* `EntryRight`: an entry that is not reclaimed and whose pages are not being taken is mapped with all of them (`Full`), and so is one that a virtual buffer has
  and, while the process is pinned and nobody works at an entry, each that the user has.
* `CommandsRight`, `ReadyRight`, `PassedRight`: `cmd_count` is the number of callers that pin or are pinned; who pins goes through the entries in order, those it has
  passed are full, and the process stays pinned while a command is ready.
* `CountInv`: while there are no faults and no map fails (`Quiet`), `unpinned` is the number of missing pages, up to those in the hands of the job (`JobHolds`).

The hypotheses are those of `ReclaimAssumption`: finitely many entries (numbered, the order in which `kgsl_reclaim_process` meets them) and threads, and no
thread has the name of one of the two works.

`PartsBuffersKept`: `PartsSpec => []BuffersKept`, from `BufferInv`:

* `ChildRight`: a child's `vbo_count` is at least the number of its ranges and of what the operations hold of it (`Held`: each operation its own child, the range
  it makes, the range it has taken out and not yet put), and one more when a page maps it that no range covers (`Stray`); its references are as many, and the user's one.
* `TableRight`: outside the teardown no page is stray. While no unmap has failed the ranges lie apart and the page table is what they say, but for the window a bind
  has unmapped (`Cleared`) and the range an unbind has not filled with zeros yet (`Zeroing`): between the unmap and the put of a range the table is ahead of the ranges, never behind.
* `OpRight`, `TargetRight`: who walks, maps or fails has `ranges_lock`; the buffer has a reference for each operation and its user, so that in the teardown there is
  no operation, and the child of a range that could not be unmapped keeps its reference.
* `BindRight`, `UnbindRight`: what a bind has still to look at are the ranges that overlap its window, outside of which the table is as it was; an unbind has still to take those
  of its child. `RestRight`, `RestCount`: what is left of a range that is cut lies apart, outside the window, covers all the rest, and is two ranges only when a reference was taken for the second.

`VboAssumption` says that pages are numbered from 1, that there are finitely many pages and workers, and that no name is used for two things.

For the ringbuffer, `CommandsSurvive`, `RingbufferTypes`: `Spec => []NothingOverwritten`, `[]TypeOK`; `RoomWhenDrained`: `TypeOK => FitsWhenDrained`.
The invariant says which of three shapes a space has that was allocated and not
submitted (in front of the CP, behind it, at the start of the ring after a NOP), and that the unread dwords are those from the read pointer to it.

### `Process_proofs`

`PartsProcessKept`: `PartsSpec => []ProcessKept`. `PartsBehave` first shows that the run's specification behaves as `Process` does (the other parts leave its
variables alone). `ProcessInv` says what each count is the count of, so that a step that moves one thread, file or entry moves one number:

* `FilesRight`: who is in the open is who holds `process_mutex`, who releases entries holds his structure's mutex, `fd_count` is the number of open files.
* `PrivsRight`: a structure's references are its files, entries, context and sysfs reader; it is alive as long as it has one, and no two exist at a time.
* `EntriesRight`: an entry's references are its callers, mappings, the reader, and one more: the user's until `pending_free` is set, then that of exactly one of
  caller, event and fence callback (`Freers`). While it is attached it is its caller's.
* `ContextRight`: two references until one detacher marks it, then two for him until he has put them, and one of each caller, file and event.
* `CallsRight`, `ShowRight`: a call is made on an open file, for an entry of that file's process. A put would otherwise reach another process's structure.
* `Unfreed`: what the user did not free belongs to a process with an open file or is still before the last file's release loop. `NothingLeaks` follows from it.

Each action is proved for the records it changes; lemmas (`CallMoves`, `FileMoves`, `EntryMoves`) say by how much a changed record changes the counts.
The hypotheses are those of `ProcessAssumption`: finite sets, names of threads that differ, entries numbered from 1 (the order of the release loop).

### `Hwsched_proofs`

`HwschedTypes`, `HwschedRecords`: `Spec => []TypeOK`, `[]RecordsAgree`. That `inflight` is the list's length, and `big_cmdobj` the large object on it, rests on
an object being listed once, and this on the order in which objects travel. The invariant `Records` says

* `LinesRight`: the objects of a context, by timestamp, are in order on the list, in the GMU's queue and in the draw queue, and those on the list or with the
  GMU come before the one in hand, and that before those still queued. Put-backs, replay and failed sends have to keep it.
* `PassRight`: only a pass has an object in hand, of the context it sends from, and a large one only if none is in flight.
* `PowerRight`: the halt is the suspend's; who votes finds the GPU awake; asleep, the GMU's queues are empty.
* `CulpritRight`: the command that hung is the first of its context in the GMU, which stands still until the fault is recovered: a soft reset takes it
  from the head of that queue.

What retirement and recovery keep of the list (`Only`) is defined by ranks, so that the lemmas about it (`Ranks`, `OnlyKeeps`, `ListRetires`, `AgainIs`) count
and need no induction.

`HwschedGmuHasTheList`: `Spec => []GmuHasTheList`, from `Records` and `Stamps`, which says for each context

* `StampRight` (while it is not bad): with `StampsFit`, the GMU has just the listed objects that are not done, and of those that wait only a marker that
  expired is done. There is one of these at most (it is in hand, or was put back), and then the GMU has only sync objects of the context.
* `FastRight`, `ExpiredRight`: markers that retired when they were submitted are in no queue, and markers expire only with hardware fences.
* `Bounded`: no timestamp retires before it is given out.

The argument is about the steps that retire a timestamp without the GMU: a marker on submission (`FastMarkerStamps`), markers passed over or popped
(`PopStamps`), the hung command of a recovery (`HardStamps`, `SoftStamps`). A marker retires only when the last timestamp `Behind` it has; by `BehindRetired`
nothing with a timestamp is then with the GMU or waits before it. That one expired marker waits at most follows from the same: a second one would be behind the first.

### Only model-checked

* Liveness (`EverythingEnds`, `WorkEnds`, `EveryoneWoken`, `Freed`, `AllEnds`, `EveryoneGetsOn`) and `ENABLED`: the provers do neither.
* `NobodyForgotten`'s parts about the job lists, `RetiresInOrder`, `NothingForgotten` of `Hwsched`, and `SyncPoints`, `EventGroup`,
  `HwFences` and the small parts other than ringbuffer, processes, snapshots, reclaim and virtual buffers are only checked.

## 7. Findings

Three runs check a promise of a comment that the code breaks; each is a `violation` run with one property.

* `hwsched_recovers` (`GpuRecovers`): where the GPU has no `soft_reset`, `adreno_hwsched_snapshot_and_soft_reset` returns 0 although
  nothing was reset (`adreno_hwsched.c:2338`), `adreno_hwsched_do_fault` resets the GPU only for another result, and the worker requeues
  itself for ever with the fault still set. The comment at 2272 says "Faulting command not found, Hence force hard reset".
* `fences_deferral` (`NothingStranded`): `process_hw_fence_ack` finds no deferral as the count of unacknowledged fences drops to its
  minimum and releases the lock; a submission that then sees the maximum flag still set records one, and `_disable_hw_fence_throttle` clears
  it. Nobody sends that context's fences. The comment at `adreno_gen7_hwsched_hfi.c:3265` says they are sent when the count drops.
* `reclaim_twice` (`FilledOnce`): `kgsl_memdesc_get_reclaimed_pages` takes `memdesc->lock` once and releases it for each missing
  page and once more: at a second missing page it releases the lock a CPU fault holds (`kgsl_reclaim.c:149`).

### What the properties exclude

A property that holds says in its condition where the code does not keep it. These are the places; each was found by the model checker or by a
proof that did not go through.

* **Bind race** (`kgsl.c:2409`): `kgsl_ioctl_gpu_aux_command` reads the last timestamp before it queues the bind; a command that
  another thread queues in between is not waited for, and the bind's higher timestamp retires while it runs. `RetiresInOrder` is for one submitting thread
  where there are binds.
* **A forgotten context** (`adreno_dispatch.c:758`): a fault raised between the check in `dispatcher_handle_jobs_list` and the one in
  `dispatcher_context_sendcmds` makes the burst send nothing, and the job is dropped as if the context were empty. After a refusal of the only
  submission, too, only the next submission, interrupt or timer looks at the list. `NobodyForgotten` asks for a job where there are no faults.
* **A leaked halt** (`adreno_dispatch.c:2031`): the recovery clears the halt count and adds the saved one at its end; a thread that drops its halt in
  between underflows it.
* **A fault in slumber** (`adreno_dispatch.c:1919`): a fault whose worker runs after the GPU went to slumber stays set, and the dispatcher
  looks at the fault before it would power up.
* **The in-flight limit** (`adreno_dispatch.c:2614-2618`) may be set to `ADRENO_DISPATCH_DRAWQUEUE_SIZE`, and a full dispatch queue has `head = tail` and
  looks empty; the limit on queued objects below it is kept under its array's size. Hence the hypothesis `QueueHasRoom`.
* **The queue limit** (`adreno_dispatch.c:1006-1028`): two threads woken for the same room both queue, against the comment at 1000-1005; with
  the largest limit in sysfs a refused command could be put over a queued one. Hence `RoomAssumption`. A detach wakes the sleepers only at its end.
* **GPU power** (`GmuPower`, the three scenes `Apart` excludes): (a) `pm_suspend` ignores that the power-off returned `-EBUSY`, so the GPU stays on with the
  state SUSPEND and a fault is looked at for ever without effect; (b) a boot that fails early leaves AWARE with the power off (`kgsl_gmu_core.c:1314`), and a
  fault left from before resets a GPU that is off: votes go below zero; (c) an idle time in sysfs above `wake_timeout` (100 ms, `adreno.c:120`): a touch shortens the
  timer and nobody arms it again.

* **The address hint** (`kgsl_iommu.c:2214`): the hint moves before `_insert_gpuaddr` can fail for want of memory (2157), and is not moved back, against
  the comment at 2206-2210, "The va_hint is the highest VA that was allocated ... So, we know there is no VA allocated at this gpuaddr". In a region of
  four pages from 9: two failed insertions of one page move the hint to 11; an object of two pages, aligned to two, has no room behind it and is put at 10 and 11 by
  the search, which does not move the hint; the next page is given 11 as well. After frees the hint may even lie on the first page of an entry, and the insertion returns
  `-EEXIST`. `AddressesKept` has a history variable, `skipped`: until the hint skipped an address, nothing overlaps. After it, only 64-bit objects that the CPU
  does not map may, and each still has an entry of its own, in its region. The first scene has these failures: `NothingOverlaps` without its condition is violated there.

### Met on the way, without a property

* Preemption: an interrupt's trigger scan finds all rings empty while a command is submitted to the current ring, and sets `skip_inline_wptr`; nobody
  writes the pointer until the 2 s timer resets a GPU that never hung. The path of COMPLETE leaves keepalive on.
* Hardware scheduler: an expired marker or a sync the GMU retired keeps the vote until the next pass; a fault recorded when the GPU is not ACTIVE makes the worker
  loop; with a message queue of one entry a context is forgotten; so is one whose GMU queue is full of two
  sync objects when a command is refused with `-ENOSPC` (3208, requeued at 1055): the GMU sends no TS_RETIRE for them, and only the next submission looks at the context. The scenes
  of `hwsched` have one such object; a marker that retires on the CPU overtakes what the GMU has (505-596). The marker branch at
  `adreno_hwsched.c:883` is dead.
* Hardware fences: the unacknowledged count wraps if an acknowledgement crosses a reset; a replay with a pending deferral takes the votes twice; a guilty context's
  queued fences go out before the ones in flight; a failed write strands fences; the failure of a waited acknowledgement is never copied out.
* Events: one for a user timestamp added after the cancellation never runs and holds context, entry and process; `kgsl_del_event_group` warns then.
* Timeline: a fence made after the destruction has taken the list is never signalled; `dma_fence_set_error` may run on a signalled fence; timelines are not destroyed at process exit.
* Process: `gpuobj_free_on_fence` drops the callback's handle; `kgsl_context_init` compares with `>` and lets 201 contexts through;
  `kgsl_process_private_new` does not put the pid when `kgsl_get_work_period` fails. A sync source's fence that is listed after a concurrent destroy is signalled only at its release.
* Memory: the detach subtracts a whole `page_count` from the count of pinned pages, which is compared unsigned: reclaim may go off for ever (`kgsl_device.h:614`); the
  unbind of part of a range unbinds all of it; a bind that failed leaves a hole that makes later unmaps fail; a teardown that failed leaks children; a failed map of the zero
  page frees the entry without detaching it.
* Pools: without a pool of single pages a failed pair is `-ENOMEM` though pages may be free; a failed allocation leaves `page_count`.
* Addresses: a failed map leaks the address, or leaves `memdesc.gpuaddr` set so that a later `mmap` returns `-EBUSY`; `get_svm_unmapped_area` goes on at `iova - 1` and misses a gap that fits exactly below a mapping.
* Snapshot: two readers of one snapshot get mixed pieces, as the comment at `kgsl_snapshot.c:853` admits; the path for the GMU alone never puts
  `snapshot->process`; the devcoredump build reads `snapshot->device` after `complete_all`.

## 8. Not modelled

Register programming, firmware, the contents of snapshots, tracing, debugfs and sysfs have no state other parts depend on or live outside the
repository. Frequency scaling is a control loop whose properties are about tuning. Performance counters are a table under one mutex.
The other GPU generations repeat the Gen7 code that `Preemption`, `GmuPower` and `HwFences` follow, with other registers. LPAC,
recurring command objects and bus votes of the hardware scheduler, shmem pages, the IOMMU's faults and page tables and the power states of GPUs without a GMU are left out;
`PROJECT.json` says under each component what is.
