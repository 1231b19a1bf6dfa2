------------------------------ MODULE Dispatcher ------------------------------
(***************************************************************************)
(* The software dispatcher (adreno_dispatch.c): the job lists on which     *)
(* contexts wait for their turn, the dispatch queue of each ringbuffer,    *)
(* the worker and the submitting threads that run under dispatcher->mutex, *)
(* the power vote held while commands are in flight, the halt count and    *)
(* the idle gate of adreno_dispatcher_idle, and the recovery from a fault. *)
(*                                                                         *)
(* A context's commands carry the timestamps 1, 2, ...; its draw queue     *)
(* holds those in sent + 1 .. queuedTs (module ContextQueue has its        *)
(* inside).  device->mutex is taken and released within one action, so it  *)
(* is no variable.  The platform is one with a GMU: power goes up in       *)
(* gen7_gmu_active_count_get and down in gmu_idle_check.                   *)
(*                                                                         *)
(* A definition Bug_X is the form of X a plausible slip would give it; no  *)
(* action uses it.                                                         *)
(***************************************************************************)
EXTENDS Integers, Sequences, FiniteSets

CONSTANTS
    Contexts,    \* draw contexts, each with one submitting thread
    DqSize,      \* ADRENO_DISPATCH_DRAWQUEUE_SIZE (128)
    InflightMax, \* _drawqueue_inflight (15 or 4, tunable up to DqSize)
    Burst,       \* _context_drawobj_burst (5)
    Fenced,      \* the commands <<c, n>> queued behind an unsignaled fence
    Scenes       \* the contexts' rings and priorities, and the bounds, of a behaviour

(* What a behaviour consists of: the number of ringbuffers, drawctxt->rb of *)
(* each context, the number of priority levels in use (16 in the driver)    *)
(* and its drawctxt->base.priority; the commands queued in it; and bounds   *)
(* on the faults the hardware raises, the times the GPU stops making        *)
(* progress, the refused power-ups and full ringbuffers, the calls of       *)
(* adreno_dispatcher_idle and the system suspends.                          *)
SceneType == [rings : Nat \ {0}, rb : [Contexts -> Nat], levels : Nat \ {0},
              prio : [Contexts -> Nat], quota : [Contexts -> Nat], faults : Nat,
              hangs : Nat, fails : Nat, idles : Nat, suspends : Nat]

Slots == 0 .. DqSize - 1
Commands == UNION {{c} \X (1 .. s.quota[c]) : c \in Contexts, s \in Scenes}

ASSUME DispatcherAssumption ==
    /\ IsFiniteSet(Contexts) /\ "worker" \notin Contexts /\ "none" \notin Contexts
    /\ Scenes \subseteq SceneType
    /\ \A s \in Scenes, c \in Contexts : s.rb[c] < s.rings /\ s.prio[c] < s.levels
    /\ InflightMax \in Nat \ {0} /\ InflightMax <= DqSize /\ DqSize \in Nat \ {0}
    /\ Burst \in Nat \ {0} /\ Fenced \subseteq Commands

VARIABLES
    scene,      \* what this behaviour consists of
    queuedTs,   \* queuedTs[c]: last timestamp queued in c
    sent,       \* sent[c]: last timestamp popped from c's draw queue
    retired,    \* retired[c]: eoptimestamp of c in the memstore
    bad,        \* contexts that are KGSL_CONTEXT_PRIV_INVALID
    fences,     \* commands whose sync object is still pending
    owed,       \* contexts whose fence fired and that are not yet rescheduled
    spc,        \* spc[c]: where c's submitting thread is
    jobs, requeue,    \* dispatcher->jobs[], ->requeue[], oldest first
    pending,    \* scheduler_work is queued on the kthread worker
    mutex,      \* holder of dispatcher->mutex: "none", "worker" or a context
    step,       \* what the holder does next
    at,         \* its ringbuffer or priority index
    list, seen, \* the jobs it took and the bitmap of contexts it has seen
    ctx, count, \* the context it sends from, and how many it has sent
    cmdq, inflight,   \* cmdq[r]: rb->dispatch_q; dispatcher->inflight
    todo, replay, saved, flt,  \* recovery: rings to go, replay[], halt, fault
    powered, active,  \* ADRENO_DISPATCHER_POWER, ADRENO_DISPATCHER_ACTIVE
    gate,       \* dispatcher->idle_gate is complete
    cnt,        \* device->active_cnt
    awake,      \* KGSL_STATE_ACTIVE; device->skip_inline_submit is its negation
    fault,      \* bits of scheduler_fault
    halt,       \* adreno_dev->halt
    hw,         \* hw[r]: the commands in r's ringbuffer, oldest first
    cur,        \* adreno_dev->cur_rb
    hung,       \* the GPU makes no progress
    timer,      \* dispatcher->timer: "off", "set", or "stale" (expires moved on)
    expired,    \* rings whose dispatch_q->expires has passed
    ipc, ires, flush, \* the thread in adreno_dispatcher_idle
    pm,         \* system suspend: "on", "prepared", "draining", "suspended" or
                \* "resumed"; suspend_recovery_gate is complete when it is "on"
    haltGate,   \* device->halt_gate is complete
    nfaults, nhangs, nfails, nidles, nsuspends

ctxVars == <<queuedTs, sent, retired, bad, fences, owed>>
jobVars == <<jobs, requeue>>
holdVars == <<mutex, step, at, list, seen, ctx, count>>
dqVars == <<cmdq, inflight>>
recVars == <<todo, replay, saved, flt>>
powerVars == <<powered, active, gate, cnt, awake>>
hwVars == <<hw, cur, hung, timer, expired>>
idleVars == <<ipc, ires, flush>>
pmVars == <<pm, haltGate>>
boundVars == <<scene, nfaults, nhangs, nfails, nidles, nsuspends>>
vars == <<ctxVars, spc, jobVars, pending, holdVars, dqVars, recVars, powerVars,
          fault, halt, hwVars, idleVars, pmVars, boundVars>>

RingIds == 0 .. scene.rings - 1
LevelIds == 0 .. scene.levels - 1
RbOf(c) == scene.rb[c]
Prio(c) == scene.prio[c]

NoCmd == << >>
NoCtx == "none"
EmptyQueue == [cmd |-> [i \in Slots |-> NoCmd], head |-> 0, tail |-> 0,
               inflight |-> 0]

Init ==
    /\ scene \in Scenes
    /\ queuedTs = [c \in Contexts |-> 0] /\ sent = [c \in Contexts |-> 0]
    /\ retired = [c \in Contexts |-> 0] /\ bad = {} /\ fences = Fenced
    /\ owed = {} /\ spc = [c \in Contexts |-> "idle"]
    /\ jobs = [l \in LevelIds |-> << >>] /\ requeue = [l \in LevelIds |-> << >>]
    /\ pending = FALSE
    /\ mutex = "none" /\ step = "idle" /\ at = 0 /\ list = << >> /\ seen = {}
    /\ ctx = NoCtx /\ count = 0
    /\ cmdq = [r \in RingIds |-> EmptyQueue] /\ inflight = 0
    /\ todo = << >> /\ replay = << >> /\ saved = 0 /\ flt = {}
    /\ powered = FALSE /\ active = FALSE /\ gate = TRUE /\ cnt = 0
    /\ awake = FALSE
    /\ fault = {} /\ halt = 0
    /\ hw = [r \in RingIds |-> << >>] /\ cur = 0 /\ hung = FALSE
    /\ timer = "off" /\ expired = {}
    /\ ipc = "idle" /\ ires = "none" /\ flush = 0
    /\ pm = "on" /\ haltGate = TRUE
    /\ nfaults = 0 /\ nhangs = 0 /\ nfails = 0 /\ nidles = 0 /\ nsuspends = 0

-----------------------------------------------------------------------------
(* Submitting threads and fences *)

(* adreno_dispatcher_queue_cmds puts a command in the context's draw queue. *)
QueueCmd(c) ==
    /\ spc[c] = "idle" /\ haltGate /\ c \notin bad /\ queuedTs[c] < scene.quota[c]
    /\ queuedTs' = [queuedTs EXCEPT ![c] = @ + 1]
    /\ spc' = [spc EXCEPT ![c] = "queued"]
    /\ UNCHANGED <<sent, retired, bad, fences, owed, jobVars, pending, holdVars,
                   dqVars, recVars, powerVars, fault, halt, hwVars, idleVars,
                   pmVars, boundVars>>

AddJob(c) == jobs' = [jobs EXCEPT ![Prio(c)] = Append(@, c)]

(* ... and the context on the job list,                                     *)
QueueJob(c) ==
    /\ spc[c] = "queued" /\ AddJob(c)
    /\ spc' = [spc EXCEPT ![c] = "added"]
    /\ UNCHANGED <<ctxVars, requeue, pending, holdVars, dqVars, recVars,
                   powerVars, fault, halt, hwVars, idleVars,
                   pmVars, boundVars>>

(* ... and leaves the rest to the work loop when enough is in flight.       *)
LeaveToWorker(c) ==
    /\ spc[c] = "added" /\ cmdq[RbOf(c)].inflight >= Burst
    /\ spc' = [spc EXCEPT ![c] = "idle"]
    /\ UNCHANGED <<ctxVars, jobVars, pending, holdVars, dqVars, recVars,
                   powerVars, fault, halt, hwVars, idleVars,
                   pmVars, boundVars>>

(* adreno_dispatcher_issuecmds: inline, if the GPU is up and the mutex free *)
InlineStart(c) ==
    /\ spc[c] = "added" /\ cmdq[RbOf(c)].inflight < Burst
    /\ awake /\ mutex = "none"
    /\ mutex' = c /\ step' = "issue" /\ spc' = [spc EXCEPT ![c] = "inline"]
    /\ UNCHANGED <<ctxVars, jobVars, pending, at, list, seen, ctx, count, dqVars,
                   recVars, powerVars, fault, halt, hwVars, idleVars,
                   pmVars, boundVars>>

(* ... or else by the worker.                                               *)
InlineDefers(c) == pending' = TRUE
InlineDefer(c) ==
    /\ spc[c] = "added" /\ cmdq[RbOf(c)].inflight < Burst
    /\ ~awake \/ mutex # "none"
    /\ InlineDefers(c) /\ spc' = [spc EXCEPT ![c] = "idle"]
    /\ UNCHANGED <<ctxVars, jobVars, holdVars, dqVars, recVars, powerVars, fault,
                   halt, hwVars, idleVars, pmVars, boundVars>>

(* A fence fires: its bit in the sync object goes first,                    *)
FenceFires(f) ==
    /\ f \in fences /\ queuedTs[f[1]] >= f[2]
    /\ fences' = fences \ {f} /\ owed' = owed \cup {f[1]}
    /\ UNCHANGED <<queuedTs, sent, retired, bad, spc, jobVars, pending, holdVars,
                   dqVars, recVars, powerVars, fault, halt, hwVars, idleVars,
                   pmVars, boundVars>>

(* ... then drawctxt_sched puts the context back on the job list.           *)
Bug_Reschedule(c) == AddJob(c) /\ UNCHANGED pending
Reschedule(c) == AddJob(c) /\ pending' = TRUE
QueueContext(c) ==
    /\ c \in owed /\ owed' = owed \ {c} /\ Reschedule(c)
    /\ UNCHANGED <<queuedTs, sent, retired, bad, fences, spc, requeue, holdVars,
                   dqVars, recVars, powerVars, fault, halt, hwVars, idleVars,
                   pmVars, boundVars>>

-----------------------------------------------------------------------------
(* The dispatch queue of a ringbuffer *)

IsEmpty(q) == q.head = q.tail
QueueLen(q) == (q.tail - q.head) % DqSize
Entries(q) == [k \in 1 .. QueueLen(q) |-> q.cmd[(q.head + k - 1) % DqSize]]
Enqueue(q, x) ==
    [cmd |-> [q.cmd EXCEPT ![q.tail] = x], head |-> q.head,
     tail |-> (q.tail + 1) % DqSize, inflight |-> q.inflight + 1]

Expired(x) == retired[x[1]] >= x[2]          \* kgsl_check_timestamp

(* adreno_dispatch_retire_drawqueue stops at the first unexpired command.   *)
RetireCount(q) ==
    LET done == {n \in 0 .. QueueLen(q) : \A k \in 1 .. n : Expired(Entries(q)[k])}
    IN CHOOSE n \in done : \A m \in done : m <= n
Bug_Dequeue(q, n) ==
    [cmd |-> q.cmd, head |-> (q.head + n) % DqSize, tail |-> q.tail,
     inflight |-> IF n > 0 THEN q.inflight - 1 ELSE q.inflight]
Dequeue(q, n) ==
    [cmd |-> [i \in Slots |-> IF (i - q.head) % DqSize < n THEN NoCmd ELSE q.cmd[i]],
     head |-> (q.head + n) % DqSize, tail |-> q.tail, inflight |-> q.inflight - n]

-----------------------------------------------------------------------------
(* sendcmd: one command, under device->mutex *)

sendVars == <<dqVars, powerVars, pending, haltGate, fault, hw, timer, expired, nfails>>

NeedsPower == inflight = 0 /\ ~powered

(* A boot clears the fault and starts the dispatcher.                       *)
GetPower ==
    IF NeedsPower /\ ~awake
      THEN /\ awake' = TRUE /\ fault' = {} /\ pending' = TRUE /\ haltGate' = TRUE
      ELSE UNCHANGED <<awake, fault, pending, haltGate>>

(* -EBUSY while the GPU is halted.                                          *)
Bug_Halted == FALSE
Halted == halt # 0
SendHalted == Halted /\ UNCHANGED sendVars

(* The GPU did not come up.                                                 *)
SendNoPower ==
    /\ ~Halted /\ NeedsPower /\ nfails < scene.fails /\ nfails' = nfails + 1
    /\ UNCHANGED <<dqVars, powerVars, pending, haltGate, fault, hw, timer, expired>>

(* adreno_ringbuffer_submitcmd fails: -EPROTO while a fault is worked on,   *)
(* -ENOSPC or -ENOMEM.  The first command gives its power vote back.        *)
Bug_VoteAfterFailure ==
    powered' = (powered \/ NeedsPower) /\ cnt' = IF powered THEN cnt - 1 ELSE cnt
VoteAfterFailure ==
    IF inflight = 0
      THEN powered' = FALSE /\ cnt' = IF powered THEN cnt - 1 ELSE cnt
      ELSE UNCHANGED <<powered, cnt>>
SendRefused ==
    /\ ~Halted /\ GetPower /\ VoteAfterFailure
    /\ \/ fault' # {} /\ UNCHANGED nfails
       \/ nfails < scene.fails /\ nfails' = nfails + 1
    /\ UNCHANGED <<active, gate, dqVars, hw, timer, expired>>

Bug_CloseGate == active' = TRUE /\ UNCHANGED gate
CloseGate ==
    /\ active' = (active \/ inflight = 0)
    /\ gate' = (gate /\ ~(inflight = 0 /\ ~active))
SendOk(x) ==
    LET r == RbOf(x[1]) IN
    /\ ~Halted /\ GetPower /\ fault' = {} /\ UNCHANGED nfails
    /\ powered' = (powered \/ NeedsPower)
    /\ cnt' = IF NeedsPower THEN cnt + 1 ELSE cnt
    /\ CloseGate
    /\ inflight' = inflight + 1
    /\ cmdq' = [cmdq EXCEPT ![r] = Enqueue(@, x)]
    /\ hw' = [hw EXCEPT ![r] = Append(@, x)]
    /\ expired' = IF cmdq[r].inflight = 0 THEN expired \ {r} ELSE expired
    /\ timer' = IF r = cur THEN "set" ELSE timer

SendFails == SendNoPower \/ SendRefused

-----------------------------------------------------------------------------
(* The job lists: _adreno_dispatcher_issuecmds, under dispatcher->mutex *)

GpuStopped == fault # {} \/ halt # 0

issueOthers == <<queuedTs, retired, bad, fences, owed, recVars, cur, hung, idleVars,
                 pm, scene, nfaults, nhangs, nidles, nsuspends>>
NoSend == UNCHANGED <<sent, spc, sendVars, halt>> /\ UNCHANGED issueOthers

(* dispatcher_handle_jobs takes both lists of one priority.                 *)
TakeJobs(l) ==
    /\ list' = requeue[l] \o jobs[l] /\ seen' = {}
    /\ requeue' = [requeue EXCEPT ![l] = << >>]
    /\ jobs' = [jobs EXCEPT ![l] = << >>]

(* Leave early if there is a fault.                                         *)
IssueStart ==
    /\ step = "issue" /\ at' = 0
    /\ IF fault # {} THEN step' = "finish" /\ UNCHANGED <<jobVars, list, seen>>
                     ELSE step' = "jobs" /\ TakeJobs(0)
    /\ UNCHANGED <<mutex, ctx, count>> /\ NoSend

LevelEnd ==
    /\ step = "jobs" /\ list = << >>
    /\ IF at + 1 = scene.levels
         THEN step' = "finish" /\ at' = 0 /\ seen' = {} /\ UNCHANGED <<jobVars, list>>
         ELSE at' = at + 1 /\ TakeJobs(at + 1) /\ UNCHANGED step
    /\ UNCHANGED <<mutex, ctx, count>> /\ NoSend

(* A job of a bad context, or a second one of the same context, goes.       *)
Duplicate(c) == c \in bad \/ c \in seen
DropJob ==
    /\ step = "jobs" /\ list # << >> /\ Duplicate(Head(list))
    /\ list' = Tail(list)
    /\ UNCHANGED <<jobVars, mutex, step, at, seen, ctx, count>> /\ NoSend

(* While the GPU is stopped the job goes back for later.                    *)
PutJobBack(c) == jobs' = [jobs EXCEPT ![at] = Append(@, c)]
KeepJob ==
    /\ step = "jobs" /\ list # << >> /\ ~Duplicate(Head(list)) /\ GpuStopped
    /\ PutJobBack(Head(list)) /\ seen' = seen \cup {Head(list)} /\ list' = Tail(list)
    /\ UNCHANGED <<requeue, mutex, step, at, ctx, count>> /\ NoSend

(* dispatcher_context_sendcmds: -EBUSY at once when the queue is full, or   *)
(* a burst of commands.                                                     *)
Full(c) == cmdq[RbOf(c)].inflight >= InflightMax
JobBusy ==
    /\ step = "jobs" /\ list # << >> /\ ~Duplicate(Head(list)) /\ ~GpuStopped
    /\ Full(Head(list))
    /\ requeue' = [requeue EXCEPT ![at] = Append(@, Head(list))]
    /\ seen' = seen \cup {Head(list)} /\ list' = Tail(list)
    /\ UNCHANGED <<jobs, mutex, step, at, ctx, count>> /\ NoSend
StartContext ==
    /\ step = "jobs" /\ list # << >> /\ ~Duplicate(Head(list)) /\ ~GpuStopped
    /\ ~Full(Head(list))
    /\ ctx' = Head(list) /\ count' = 0 /\ step' = "send"
    /\ seen' = seen \cup {Head(list)} /\ list' = Tail(list)
    /\ UNCHANGED <<jobVars, mutex, at>> /\ NoSend

Waiting(c) == sent[c] < queuedTs[c]
Blocked(c) == Waiting(c) /\ <<c, sent[c] + 1>> \in fences
MaySend == count < Burst /\ ~Full(ctx)

(* The next command leaves the draw queue.                                  *)
PopCmd ==
    /\ step = "send" /\ MaySend /\ fault = {} /\ Waiting(ctx) /\ ~Blocked(ctx)
    /\ sent' = [sent EXCEPT ![ctx] = @ + 1] /\ step' = "submit"
    /\ UNCHANGED <<jobVars, mutex, at, list, seen, ctx, count>>
    /\ UNCHANGED <<spc, sendVars, halt>> /\ UNCHANGED issueOthers

ContextEnd(kept) ==
    /\ step' = "jobs" /\ ctx' = NoCtx /\ count' = 0
    /\ jobs' = [jobs EXCEPT ![at] = IF kept THEN Append(@, ctx) ELSE @]

(* The burst is over, a fault got in, or nothing is left.  A context that   *)
(* has sent something is considered again; else its job is dropped.         *)
Bug_SentSomething == FALSE
SentSomething == count > 0
SendEnds ==
    /\ step = "send" /\ (~MaySend \/ fault # {} \/ ~Waiting(ctx))
    /\ ContextEnd(SentSomething)
    /\ UNCHANGED <<requeue, mutex, at, list, seen>> /\ NoSend

(* -EAGAIN behind a fence.                                                  *)
SendBlocked ==
    /\ step = "send" /\ MaySend /\ fault = {} /\ Blocked(ctx)
    /\ ContextEnd(TRUE)
    /\ UNCHANGED <<requeue, mutex, at, list, seen>> /\ NoSend

SubmitOk ==
    /\ step = "submit" /\ SendOk(<<ctx, sent[ctx]>>)
    /\ step' = "send" /\ count' = count + 1
    /\ UNCHANGED <<sent, spc, jobVars, mutex, at, list, seen, ctx, halt>>
    /\ UNCHANGED issueOthers

(* adreno_dispatcher_requeue_cmdobj puts the command back in the queue.     *)
Bug_PutBackCmd == UNCHANGED sent
PutBackCmd == sent' = [sent EXCEPT ![ctx] = @ - 1]
SubmitFails ==
    /\ step = "submit" /\ SendFails
    /\ PutBackCmd /\ ContextEnd(TRUE)
    /\ UNCHANGED <<spc, requeue, mutex, at, list, seen, halt>> /\ UNCHANGED issueOthers
SubmitHalted ==
    /\ step = "submit" /\ SendHalted
    /\ PutBackCmd /\ step' = "jobs" /\ ctx' = NoCtx /\ count' = 0
    /\ requeue' = [requeue EXCEPT ![at] = Append(@, ctx)]
    /\ UNCHANGED <<spc, jobs, mutex, at, list, seen, halt>> /\ UNCHANGED issueOthers

Issue == IssueStart \/ LevelEnd \/ DropJob \/ KeepJob \/ JobBusy \/ StartContext
         \/ PopCmd \/ SendEnds \/ SendBlocked
         \/ SubmitOk \/ SubmitFails \/ SubmitHalted

-----------------------------------------------------------------------------
(* The worker: adreno_dispatcher_work *)

workOthers == <<queuedTs, fences, owed, spc, jobVars, list, seen, ctx, count,
                pm, scene, nfaults, nhangs, nidles, nsuspends>>

WorkStart ==
    /\ pending /\ mutex = "none"
    /\ pending' = FALSE /\ mutex' = "worker" /\ step' = "retire" /\ at' = 0
    /\ UNCHANGED <<sent, retired, bad, dqVars, recVars, powerVars, fault, halt,
                   hwVars, idleVars, haltGate, nfails>> /\ UNCHANGED workOthers

(* adreno_dispatch_process_drawqueue: retire, and if the current ring made  *)
(* no progress for too long, raise a timeout fault.  The first ring that    *)
(* leaves nothing in flight ends the loop.                                  *)
TimedOut(r, n) == r = cur /\ n = 0 /\ r \in expired
RetireRing ==
    LET n == RetireCount(cmdq[at])
        q == Dequeue(cmdq[at], n)
    IN
    /\ step = "retire"
    /\ cmdq' = [cmdq EXCEPT ![at] = q] /\ inflight' = inflight - n
    /\ IF IsEmpty(q) \/ at # cur
         THEN UNCHANGED <<fault, timer, expired>>
         ELSE /\ expired' = expired \ IF n > 0 \/ TimedOut(at, n) THEN {at} ELSE {}
              /\ timer' = IF n > 0 /\ timer = "set" THEN "stale" ELSE timer
              /\ fault' = IF TimedOut(at, n) THEN fault \cup {"timeout"} ELSE fault
    /\ IF inflight' = 0 \/ at + 1 = scene.rings
         THEN step' = "fault" /\ at' = 0
         ELSE step' = "retire" /\ at' = at + 1
    /\ UNCHANGED <<sent, retired, bad, mutex, pending, recVars, powerVars, halt,
                   hw, cur, hung, idleVars, haltGate, nfails>> /\ UNCHANGED workOthers

(* dispatcher_do_fault: nothing to do without a fault or without power.     *)
NoFault ==
    /\ step = "fault" /\ (fault = {} \/ (pm = "on" /\ ~awake)) /\ step' = "issue"
    /\ UNCHANGED <<sent, retired, bad, mutex, at, pending, dqVars, recVars, powerVars,
                   fault, halt, hwVars, idleVars, haltGate, nfails>> /\ UNCHANGED workOthers

(* A system suspend comes first: pm_suspend holds fault_recovery_mutex while *)
(* it drains, and before and after that the worker gives up on              *)
(* suspend_recovery_gate after a while and queues itself.                   *)
FaultDeferred ==
    /\ step = "fault" /\ fault # {} /\ pm # "on" /\ step' = "finish"
    /\ pending' \in IF pm = "prepared" THEN {TRUE} ELSE {pending, TRUE}
    /\ UNCHANGED <<sent, retired, bad, mutex, at, dqVars, recVars, powerVars, fault,
                   halt, hwVars, idleVars, haltGate, nfails>> /\ UNCHANGED workOthers

(* Otherwise stop the GPU, retire what it finished, save and clear the halt *)
(* count and reset.  The ring CP_RB_BASE names is recovered first; with GX  *)
(* off none is named.                                                       *)
Bug_Survivors(r) == cmdq[r]
Survivors(r) == Dequeue(cmdq[r], RetireCount(cmdq[r]))
AscendingRings == [k \in 1 .. scene.rings |-> k - 1]
HungRingFirst ==
    [k \in 1 .. scene.rings |-> IF k = 1 THEN cur ELSE IF k - 2 < cur THEN k - 2 ELSE k - 1]
DoFault ==
    /\ step = "fault" /\ fault # {} /\ pm = "on" /\ awake
    /\ cmdq' = [r \in RingIds |-> Survivors(r)] /\ inflight' = 0
    /\ \/ todo' = HungRingFirst /\ flt' = fault
       \/ todo' = AscendingRings /\ flt' = {}
    /\ saved' = halt /\ halt' = 0
    /\ hw' = [r \in RingIds |-> << >>] /\ hung' = FALSE
    /\ fault' = {} /\ pending' = TRUE /\ haltGate' = TRUE /\ timer' = "off"
    /\ step' = "recover"
    /\ UNCHANGED <<sent, retired, bad, mutex, at, replay, powered, active, gate, cnt,
                   awake, cur, expired, idleVars, nfails>> /\ UNCHANGED workOthers

(* adreno_drawctxt_set_guilty: the context is invalid, its queue is drained *)
(* and all its timestamps count as retired.                                 *)
SetGuilty(C) ==
    /\ bad' = bad \cup C
    /\ sent' = [c \in Contexts |-> IF c \in C THEN queuedTs[c] ELSE sent[c]]
    /\ retired' = [c \in Contexts |-> IF c \in C THEN queuedTs[c] ELSE retired[c]]

(* recover_dispatch_q: the context of the first command of the hung ring is *)
(* guilty when its fault policies are used up (always after a timeout); a   *)
(* failed allocation makes every context of the ring guilty.                *)
Culprits(e, f) ==
    IF e = << >> \/ f = {} THEN {{}}
    ELSE IF "timeout" \in f THEN {{e[1][1]}} ELSE {{}, {e[1][1]}}
Bug_Replayed(e, B) == SelectSeq(e, LAMBDA x : x[1] \notin B /\ x # e[1])
Replayed(e, B) ==
    LET kept[k \in 0 .. Len(e)] ==
            IF k = 0 THEN << >>
            ELSE IF e[k][1] \in B THEN kept[k - 1] ELSE Append(kept[k - 1], e[k])
    IN  kept[Len(e)]
RecoverRing ==
    LET r == Head(todo)
        e == Entries(cmdq[r])
    IN
    /\ step = "recover" /\ replay = << >> /\ todo # << >>
    /\ \E C \in Culprits(e, flt) : SetGuilty(C)
    /\ cmdq' = [cmdq EXCEPT ![r] = EmptyQueue]
    /\ replay' = IF e = << >> THEN e ELSE Replayed(e, bad')
    /\ flt' = {} /\ todo' = Tail(todo)
    /\ UNCHANGED <<mutex, step, at, pending, inflight, saved, powerVars, fault, halt,
                   hwVars, idleVars, haltGate, nfails>> /\ UNCHANGED workOthers
RecoverFails ==
    LET r == Head(todo)
        e == Entries(cmdq[r])
    IN
    /\ step = "recover" /\ replay = << >> /\ todo # << >> /\ e # << >> /\ nfails < scene.fails
    /\ SetGuilty({e[k][1] : k \in DOMAIN e})
    /\ cmdq' = [cmdq EXCEPT ![r] = EmptyQueue]
    /\ flt' = {} /\ todo' = Tail(todo) /\ nfails' = nfails + 1
    /\ UNCHANGED <<mutex, step, at, pending, inflight, replay, saved, powerVars, fault,
                   halt, hwVars, idleVars, haltGate>> /\ UNCHANGED workOthers

(* Send the surviving commands again; one that cannot be sent makes its     *)
(* context guilty.                                                          *)
ReplayOk ==
    /\ step = "recover" /\ replay # << >> /\ SendOk(Head(replay))
    /\ replay' = Tail(replay)
    /\ UNCHANGED <<sent, retired, bad, mutex, step, at, todo, saved, flt, halt, cur,
                   hung, idleVars>> /\ UNCHANGED workOthers
ReplayFails ==
    /\ step = "recover" /\ replay # << >> /\ (SendFails \/ SendHalted)
    /\ SetGuilty({Head(replay)[1]})
    /\ replay' = Replayed(Tail(replay), bad')
    /\ UNCHANGED <<mutex, step, at, todo, saved, flt, halt, cur, hung, idleVars>>
    /\ UNCHANGED workOthers
(* The saved halt count is added back.                                      *)
RestoredHalt == halt + saved
RecoverEnd ==
    /\ step = "recover" /\ replay = << >> /\ todo = << >>
    /\ halt' = RestoredHalt /\ saved' = 0 /\ step' = "finish"
    /\ UNCHANGED <<sent, retired, bad, mutex, at, pending, dqVars, todo, replay, flt,
                   powerVars, fault, hwVars, idleVars, haltGate, nfails>>
    /\ UNCHANGED workOthers

(* With commands in flight: _dispatcher_update_timers.  Without: the worker *)
(* opens the idle gate and releases the power vote; an inline submitter     *)
(* does nothing.                                                            *)
Idle == inflight = 0
Bug_PowerDown ==
    active' = FALSE /\ gate' = (gate \/ active) /\ powered' = FALSE /\ cnt' = cnt - 1
PowerDown ==
    /\ active' = FALSE /\ gate' = (gate \/ active)
    /\ powered' = FALSE /\ cnt' = IF powered THEN cnt - 1 ELSE cnt
Bug_KeepTimer == UNCHANGED timer
KeepTimer == timer' = IF IsEmpty(cmdq[cur]) THEN timer ELSE "set"
Finish ==
    /\ step = "finish"
    /\ IF Idle
         THEN /\ UNCHANGED timer
              /\ IF mutex = "worker" THEN PowerDown
                                     ELSE UNCHANGED <<active, gate, powered, cnt>>
         ELSE KeepTimer /\ UNCHANGED <<active, gate, powered, cnt>>
    /\ mutex' = "none" /\ step' = "idle"
    /\ spc' = IF mutex = "worker" THEN spc ELSE [spc EXCEPT ![mutex] = "idle"]
    /\ flush' = IF mutex = "worker" /\ flush > 0 THEN flush - 1 ELSE flush
    /\ UNCHANGED <<ctxVars, jobVars, pending, at, list, seen, ctx, count, dqVars,
                   recVars, awake, fault, halt, hw, cur, hung, expired,
                   ipc, ires, pmVars, boundVars>>

Work == RetireRing \/ NoFault \/ FaultDeferred \/ DoFault \/ RecoverRing \/ RecoverFails \/ ReplayOk
        \/ ReplayFails \/ RecoverEnd \/ Finish

-----------------------------------------------------------------------------
(* The GPU, its interrupts and the command timer *)

hwOthers == <<queuedTs, sent, bad, fences, owed, spc, jobVars, holdVars, dqVars, recVars,
              powerVars, halt, idleVars, pmVars, scene, nfails, nidles, nsuspends>>

Bug_CpCallback == UNCHANGED pending
CpCallback == pending' = TRUE                \* gen7_cp_callback

(* The oldest command of the current ring ends: timestamp and interrupt.    *)
GpuRetires ==
    /\ ~hung /\ hw[cur] # << >>
    /\ retired' = [retired EXCEPT ![Head(hw[cur])[1]] = Head(hw[cur])[2]]
    /\ hw' = [hw EXCEPT ![cur] = Tail(@)]
    /\ CpCallback
    /\ UNCHANGED <<fault, cur, hung, timer, expired, nfaults, nhangs>>
    /\ UNCHANGED hwOthers

(* A preemption completes: the highest ring with work becomes current.      *)
Preempt(r) ==
    /\ ~hung /\ r # cur /\ hw[r] # << >> /\ \A h \in 0 .. r - 1 : hw[h] = << >>
    /\ cur' = r /\ timer' = "set"
    /\ UNCHANGED <<retired, pending, fault, hw, hung, expired, nfaults, nhangs>>
    /\ UNCHANGED hwOthers

GpuHangs ==
    /\ ~hung /\ hw[cur] # << >> /\ nhangs < scene.hangs
    /\ hung' = TRUE /\ nhangs' = nhangs + 1
    /\ UNCHANGED <<retired, pending, fault, hw, cur, timer, expired, nfaults>>
    /\ UNCHANGED hwOthers
(* It was only slow.                                                        *)
GpuResumes ==
    /\ hung /\ hung' = FALSE
    /\ UNCHANGED <<retired, pending, fault, hw, cur, timer, expired, nfaults, nhangs>>
    /\ UNCHANGED hwOthers

(* adreno_scheduler_fault from an interrupt.                                *)
FaultIrq ==
    /\ awake /\ nfaults < scene.faults /\ nfaults' = nfaults + 1
    /\ fault' = fault \cup {"hard"} /\ pending' = TRUE
    /\ UNCHANGED <<retired, hw, cur, hung, timer, expired, nhangs>>
    /\ UNCHANGED hwOthers

(* adreno_dispatcher_timer.  A slow command has outlived expires only when  *)
(* the timer was last set to it.                                            *)
TimerFires ==
    /\ timer # "off" /\ (hung \/ timer = "stale")
    /\ timer' = "off" /\ pending' = TRUE
    /\ expired' = IF timer = "set" THEN expired \cup {cur} ELSE expired
    /\ UNCHANGED <<retired, fault, hw, cur, hung, nfaults, nhangs>>
    /\ UNCHANGED hwOthers

(* gmu_idle_check with no active count and no inline submitter: no inline   *)
(* submission any more, and gen7_power_off.                                 *)
Bug_MaySlumber == mutex \notin Contexts
MaySlumber == cnt = 0 /\ mutex \notin Contexts
IdleCheck ==
    /\ awake /\ MaySlumber
    /\ awake' = FALSE /\ timer' = "off"
    /\ hw' = [r \in RingIds |-> << >>] /\ hung' = FALSE
    /\ UNCHANGED <<ctxVars, spc, jobVars, pending, holdVars, dqVars, recVars, powered,
                   active, gate, cnt, fault, halt, cur, expired, idleVars, pmVars,
                   boundVars>>

-----------------------------------------------------------------------------
(* adreno_dispatcher_idle, for a caller that holds an active count (the     *)
(* profiling assignments of adreno_profile.c)                               *)

idleOthers == <<ctxVars, spc, jobVars, holdVars, dqVars, recVars, powered, active, gate,
                awake, fault, hwVars, pmVars, scene, nfaults, nhangs, nfails,
                nsuspends>>

(* Not while the dispatcher mutex is held, and only if the GPU is busy.     *)
IdleStart ==
    /\ ipc = "idle" /\ nidles < scene.idles /\ nidles' = nidles + 1
    /\ awake /\ mutex = "none" /\ \E r \in RingIds : hw[r] # << >>
    /\ cnt' = cnt + 1 /\ halt' = halt + 1
    /\ flush' = (IF pending THEN 1 ELSE 0) /\ ipc' = "flush"
    /\ UNCHANGED <<pending, ires>> /\ UNCHANGED idleOthers

IdleFlushed ==
    /\ ipc = "flush" /\ flush = 0
    /\ IF fault # {} THEN ipc' = "relock" /\ ires' = "deadlock"
                     ELSE ipc' = "wait" /\ UNCHANGED ires
    /\ UNCHANGED <<flush, cnt, halt, pending, nidles>> /\ UNCHANGED idleOthers

GateOpen == gate
IdleWaited ==
    /\ ipc = "wait"
    /\ \/ GateOpen /\ ires' = IF fault # {} THEN "deadlock" ELSE "idle"
       \/ ~gate /\ ires' = IF fault # {} THEN "deadlock" ELSE "timeout"
    /\ ipc' = "relock"
    /\ UNCHANGED <<flush, cnt, halt, pending, nidles>> /\ UNCHANGED idleOthers

(* Drop the halt (never below zero), requeue the dispatcher, return.        *)
Bug_IdleRequeues == UNCHANGED pending
IdleRequeues == pending' = TRUE
IdleEnd ==
    /\ ipc = "relock"
    /\ halt' = IF halt > 0 THEN halt - 1 ELSE 0
    /\ IdleRequeues /\ cnt' = cnt - 1
    /\ ipc' = "idle" /\ ires' = "none"
    /\ UNCHANGED <<flush, nidles>> /\ UNCHANGED idleOthers

-----------------------------------------------------------------------------
(* System suspend: the PM notifier, gen7_gmu_pm_suspend and pm_resume       *)

pmOthers == <<ctxVars, spc, jobVars, holdVars, dqVars, recVars, powered, active, gate, cnt,
              fault, cur, expired, idleVars, scene, nfaults, nhangs, nfails,
              nidles>>

(* PM_SUSPEND_PREPARE: no suspend while a fault waits to be recovered from. *)
MayPrepare == fault = {}
SuspendPrepare ==
    /\ pm = "on" /\ nsuspends < scene.suspends /\ nsuspends' = nsuspends + 1
    /\ IF MayPrepare THEN pm' = "prepared" /\ UNCHANGED pending
                     ELSE pending' = TRUE /\ UNCHANGED pm
    /\ UNCHANGED <<haltGate, awake, timer, hw, hung, halt>> /\ UNCHANGED pmOthers

(* adreno_drain: no new submissions, wait for the active count.             *)
DrainStart ==
    /\ pm = "prepared" /\ pm' = "draining" /\ haltGate' = FALSE
    /\ UNCHANGED <<pending, awake, timer, hw, hung, halt, nsuspends>>
    /\ UNCHANGED pmOthers

(* The fault recovery has its mutex, or another device refuses.             *)
SuspendDenied ==
    /\ pm = "prepared" /\ pm' = "resumed"
    /\ UNCHANGED <<haltGate, pending, awake, timer, hw, hung, halt, nsuspends>>
    /\ UNCHANGED pmOthers

Drained == cnt = 0 /\ \A r \in RingIds : hw[r] = << >>
SuspendDone ==
    /\ pm = "draining" /\ Drained /\ pm' = "suspended"
    /\ awake' = FALSE /\ hung' = FALSE
    /\ timer' = IF awake THEN "off" ELSE timer
    /\ halt' = halt + 1
    /\ UNCHANGED <<haltGate, pending, hw, nsuspends>> /\ UNCHANGED pmOthers

(* The wait timed out: adreno_dispatcher_start.                             *)
SuspendFails ==
    /\ pm = "draining" /\ ~Drained /\ pm' = "resumed"
    /\ haltGate' = TRUE /\ pending' = TRUE
    /\ UNCHANGED <<awake, timer, hw, hung, halt, nsuspends>> /\ UNCHANGED pmOthers

Bug_ResumeStarts == UNCHANGED <<haltGate, pending>>
ResumeStarts == haltGate' = TRUE /\ pending' = TRUE
Resume ==
    /\ pm = "suspended" /\ pm' = "resumed"
    /\ halt' = IF halt > 0 THEN halt - 1 ELSE 0
    /\ ResumeStarts
    /\ UNCHANGED <<awake, timer, hw, hung, nsuspends>> /\ UNCHANGED pmOthers

(* PM_POST_SUSPEND, in case there was a fault.                              *)
Bug_PostQueues == UNCHANGED pending
PostQueues == pending' = TRUE
PostSuspend ==
    /\ pm = "resumed" /\ pm' = "on" /\ PostQueues
    /\ UNCHANGED <<haltGate, awake, timer, hw, hung, halt, nsuspends>>
    /\ UNCHANGED pmOthers

-----------------------------------------------------------------------------
Next ==
    \/ \E c \in Contexts : QueueCmd(c) \/ QueueJob(c) \/ LeaveToWorker(c)
                           \/ InlineStart(c) \/ InlineDefer(c) \/ QueueContext(c)
    \/ \E f \in Fenced : FenceFires(f)
    \/ Issue \/ WorkStart \/ Work
    \/ GpuRetires \/ (\E r \in RingIds : Preempt(r)) \/ GpuHangs \/ GpuResumes
    \/ FaultIrq \/ TimerFires \/ IdleCheck
    \/ IdleStart \/ IdleFlushed \/ IdleWaited \/ IdleEnd
    \/ SuspendPrepare \/ DrainStart \/ SuspendDenied \/ SuspendDone \/ SuspendFails
    \/ Resume \/ PostSuspend

Spec == Init /\ [][Next]_vars

-----------------------------------------------------------------------------
(* Type invariant *)

Steps == {"idle", "issue", "jobs", "send", "submit", "retire", "fault", "recover",
          "finish"}
QueueType == [cmd : [Slots -> Commands \cup {NoCmd}], head : Slots, tail : Slots,
              inflight : 0 .. DqSize]

TypeOK ==
    /\ queuedTs \in [Contexts -> Nat] /\ sent \in [Contexts -> Nat]
    /\ retired \in [Contexts -> Nat] /\ bad \subseteq Contexts
    /\ fences \subseteq Fenced /\ owed \subseteq Contexts
    /\ spc \in [Contexts -> {"idle", "queued", "added", "inline"}]
    /\ jobs \in [LevelIds -> Seq(Contexts)] /\ requeue \in [LevelIds -> Seq(Contexts)]
    /\ pending \in BOOLEAN
    /\ mutex \in Contexts \cup {"none", "worker"} /\ step \in Steps /\ at \in Nat
    /\ list \in Seq(Contexts) /\ seen \subseteq Contexts
    /\ ctx \in Contexts \cup {NoCtx} /\ count \in 0 .. Burst
    /\ cmdq \in [RingIds -> QueueType] /\ inflight \in Nat
    /\ todo \in Seq(RingIds) /\ replay \in Seq(Commands) /\ saved \in 0 .. scene.idles + scene.suspends
    /\ flt \subseteq {"hard", "timeout"} /\ fault \subseteq {"hard", "timeout"}
    /\ powered \in BOOLEAN /\ active \in BOOLEAN /\ gate \in BOOLEAN /\ cnt \in 0 .. 2
    /\ awake \in BOOLEAN /\ halt \in 0 .. scene.idles + scene.suspends
    /\ hw \in [RingIds -> Seq(Commands)] /\ cur \in RingIds /\ hung \in BOOLEAN
    /\ timer \in {"off", "set", "stale"} /\ expired \subseteq RingIds
    /\ ipc \in {"idle", "flush", "wait", "relock"}
    /\ ires \in {"none", "idle", "timeout", "deadlock"} /\ flush \in 0 .. 1
    /\ nfaults \in 0 .. scene.faults /\ nhangs \in 0 .. scene.hangs
    /\ nfails \in 0 .. scene.fails /\ nidles \in 0 .. scene.idles
    /\ pm \in {"on", "prepared", "draining", "suspended", "resumed"}
    /\ haltGate \in BOOLEAN /\ nsuspends \in 0 .. scene.suspends

-----------------------------------------------------------------------------
(* Safety *)

Recovering == {todo[k] : k \in DOMAIN todo}

\* What is in flight on each ring, and on those below n together
InFlight == [r \in RingIds |-> IF r \in Recovering THEN 0 ELSE cmdq[r].inflight]
Below[n \in 0 .. scene.rings] == IF n = 0 THEN 0 ELSE Below[n - 1] + InFlight[n - 1]

(* The records of what runs agree, through refusals, preemptions and        *)
(* recoveries: dispatcher->inflight is the sum over the dispatch queues     *)
(* (those not yet recovered apart), and each queue's count is the distance  *)
(* from head to tail.  One active count is held for the commands in flight, *)
(* whichever thread sent the first one, and one for a caller of             *)
(* adreno_dispatcher_idle; no slumber is entered under either.  A slip      *)
(* leaves power up for good, or takes it while commands run.                *)
CountsAgree ==
    /\ \A r \in RingIds : cmdq[r].inflight = QueueLen(cmdq[r])
    /\ inflight = Below[scene.rings]
VoteMatchesWork ==
    /\ cnt = (IF powered THEN 1 ELSE 0) + (IF ipc # "idle" THEN 1 ELSE 0)
    /\ inflight > 0 => powered
    /\ cnt > 0 => awake
RecordsAgree == TypeOK /\ CountsAgree /\ VoteMatchesWork

\* The timestamps of context c in s, and that they increase
Stamps(c, s) == {s[k][2] : k \in {k \in DOMAIN s : s[k][1] = c}}
InOrder(c, s) ==
    \A j, k \in DOMAIN s : (j < k /\ s[j][1] = c /\ s[k][1] = c) => s[j][2] < s[k][2]

LastSent(c) == IF step = "submit" /\ ctx = c THEN sent[c] - 1 ELSE sent[c]
Due(c) == retired[c] + 1 .. LastSent(c)
Held(c) == Entries(cmdq[RbOf(c)]) \o replay
OnItsWay(c) == IF RbOf(c) \in Recovering THEN Held(c) ELSE hw[RbOf(c)] \o replay

(* No command is lost, repeated or reordered, by a burst cut short, a       *)
(* requeue, a fault or its replay: what a good context sent and the GPU has *)
(* not retired is in its ringbuffer or about to be replayed, or still to be *)
(* recovered, each command once and in timestamp order; and the dispatch    *)
(* queue, with what is left to replay, knows of all of it and beyond it     *)
(* only of the commands that retired last.                                  *)
NoCommandLost ==
    \A c \in Contexts \ bad :
        /\ retired[c] <= LastSent(c)
        /\ InOrder(c, OnItsWay(c)) /\ Stamps(c, OnItsWay(c)) = Due(c)
        /\ InOrder(c, Held(c)) /\ Due(c) \subseteq Stamps(c, Held(c))
        /\ Stamps(c, Held(c)) \subseteq 1 .. LastSent(c)
        /\ \A n \in Stamps(c, Held(c)) : n .. LastSent(c) \subseteq Stamps(c, Held(c))

(* The idle gate is closed exactly while the dispatcher is active, and it   *)
(* is active while anything is in flight; so a caller of                    *)
(* adreno_dispatcher_idle that is told the dispatcher is idle finds nothing *)
(* in flight, although others submit, fault and recover while it waits.     *)
IdleMeansDrained ==
    /\ gate = ~active
    /\ inflight > 0 => active
    /\ ipc = "relock" /\ ires = "idle" =>
         /\ inflight = 0
         /\ \A c \in Contexts \ bad : Stamps(c, hw[RbOf(c)]) = {}

(* While a thread holds the halt, nothing but the recovery of a fault sends *)
(* a command to the GPU, and while the system is suspended nothing does.    *)
HaltHolds ==
    [][(\E r \in RingIds : Len(hw'[r]) > Len(hw[r]))
         => /\ ipc \in {"flush", "wait"} => step = "recover"
            /\ pm # "suspended"]_vars

HasJob(c) ==
    \/ ctx = c \/ spc[c] = "queued"
    \/ \E k \in DOMAIN list : list[k] = c
    \/ \E l \in LevelIds : \/ \E k \in DOMAIN jobs[l] : jobs[l][k] = c
                           \/ \E k \in DOMAIN requeue[l] : requeue[l][k] = c
NoContextForgotten == \A c \in Contexts \ bad : Waiting(c) => HasJob(c)
SomeoneWillLook ==
    \A c \in Contexts \ bad :
        Waiting(c) /\ ~Blocked(c) =>
            \/ pending \/ mutex # "none" \/ spc[c] \in {"queued", "added"} \/ c \in owed
            \/ ipc # "idle" \/ pm = "suspended" \/ \E r \in RingIds : hw[r] # << >>
FaultNotForgotten == fault # {} /\ awake => pending \/ mutex = "worker" \/ pm # "on"
GateReopens == ~haltGate => pm \in {"draining", "suspended"}

(* Nobody is left waiting.  A good context with commands in its draw queue  *)
(* has a job or a thread about to add one, and someone will look at the     *)
(* jobs: the worker is queued or at work, a submitter is about to, a fence  *)
(* or the GPU has an interrupt to raise, or a thread that idles the         *)
(* dispatcher will queue the worker.  (A fault at the wrong moment breaks   *)
(* the first, and it or a refusal the second, so they are for behaviours    *)
(* without.)  A fault raised while the GPU is up is recovered from, by the  *)
(* worker or at the end of a suspend, and the submission gate a suspend     *)
(* closes is opened.                                                        *)
NobodyForgotten ==
    /\ scene.faults + scene.hangs = 0 => NoContextForgotten
    /\ scene.faults + scene.hangs + scene.fails = 0 => SomeoneWillLook
    /\ FaultNotForgotten
    /\ GateReopens

-----------------------------------------------------------------------------
(* Liveness *)

Fairness ==
    /\ WF_vars(Issue) /\ WF_vars(WorkStart) /\ WF_vars(Work)
    /\ \A c \in Contexts : /\ WF_vars(QueueJob(c)) /\ WF_vars(LeaveToWorker(c))
                           /\ WF_vars(InlineStart(c) \/ InlineDefer(c))
                           /\ WF_vars(QueueContext(c))
    /\ \A f \in Fenced : WF_vars(FenceFires(f))
    /\ WF_vars(GpuRetires) /\ WF_vars(\E r \in RingIds : Preempt(r))
    /\ WF_vars(TimerFires) /\ WF_vars(IdleFlushed) /\ WF_vars(IdleWaited)
    /\ WF_vars(IdleEnd)
FairSpec == Spec /\ Fairness

(* Every queued command retires, or its context is declared guilty: through *)
(* full queues, refused power-ups, fences, slumber and idle requests.       *)
EveryCommandRetires ==
    \A x \in Commands :
        queuedTs[x[1]] >= x[2] ~> (retired[x[1]] >= x[2] \/ x[1] \in bad)

(* The power vote is released once the submissions stop.                    *)
VoteReleased == <>[](~powered)

(* What is sent ends, and then the GPU may sleep.                           *)
WorkEnds == EveryCommandRetires /\ VoteReleased
=============================================================================
