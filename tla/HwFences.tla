------------------------------ MODULE HwFences ------------------------------
(***************************************************************************)
(* Hardware fences: user threads create them, the host sends them to the   *)
(* GMU, which acknowledges each and signals it when its timestamp retires. *)
(* Too many without an acknowledgement put the creators to sleep, halt the *)
(* submission and defer the fences of the submission under way; recovery   *)
(* and the end of a context send what the GMU has lost or never had.       *)
(*                                                                         *)
(* drawctxt->lock is held through a creation, but for its sleep, and while *)
(* a submission sends the fences queued for it; hwf->lock within a step.   *)
(***************************************************************************)
EXTENDS Integers, Sequences, FiniteSets

CONSTANTS
    Cmds,        \* per context, the timestamps of its commands
    MaxUnack,    \* MAX_HW_FENCE_UNACK_COUNT
    MinUnack,    \* MIN_HW_FENCE_UNACK_COUNT
    Accidents,   \* what may go wrong, of those named below
    Budget       \* how often

Ctx == DOMAIN Cmds
Top(c) == CHOOSE t \in Cmds[c] : \A u \in Cmds[c] : u <= t
Fence == UNION {{c} \X (1 .. Top(c)) : c \in Ctx}

ASSUME HwFencesAssumption ==
    /\ Ctx \subseteq Nat \ {0}
    /\ \A c \in Ctx : Cmds[c] \subseteq Nat \ {0} /\ Cmds[c] # {}
    /\ MinUnack \in Nat \ {0} /\ MaxUnack \in Nat /\ MinUnack < MaxUnack
    /\ Accidents \subseteq {"stuck", "slow", "fault", "guilty", "nack", "full",
                            "signal", "crossing", "overtaken"}
    /\ Budget \in Nat

VARIABLES
    creator,   \* per fence, its thread: todo, asleep, done
    place,     \* per fence, its entry: none, queued, inflight, detached
    skip,      \* fences with HW_FENCE_FLAG_SKIP_MEMSTORE
    last,      \* per context, hw_fence_last_ts
    ready,     \* per context, gmu_hw_fence_ready_ts
    sub, run,  \* per context, submitted ever and since the GMU booted
    retired,   \* per context, the retired timestamp
    out,       \* per context, out_fence_ts of the GMU's context queue
    reg,       \* contexts registered with the GMU
    bad,       \* contexts invalidated or detached
    drain,     \* contexts marked INVALID_DRAIN_HW_FENCE
    det,       \* per context, its detach: no, wait, unregister, acked, drain, done
    cmdq,      \* the command queue to the GMU
    gmu,       \* fences the GMU has to signal
    seen,      \* fences the GMU got since it booted
    msgq,      \* acknowledgements from the GMU
    notices,   \* contexts with TS_RETIRE in the message queue
    hand,      \* what the reader of the message queue holds
    stuck,     \* the GMU answers no more
    unack, flags, halt, defer, votes,   \* struct adreno_hwsched_hw_fence
    armed, late, deferWork,   \* hw_fence_timer, hw_fence_ws, defer_hw_fence_work
    wait,      \* hw_fence_ack: the fence waited for, whether it was acknowledged
    dev,       \* the holder of the device mutex, where it is
    fault,     \* a fault is recorded
    slept,     \* fences whose creator slept
    left,      \* fences left in the queue by a failed write
    budget     \* accidents left

entries == <<creator, place, skip, last, ready, slept, left>>
ctxts == <<sub, run, retired, out, reg, bad, drain, det>>
queues == <<cmdq, gmu, seen, msgq, notices, hand, stuck>>
throttle == <<unack, flags, halt, defer, votes, armed, late, deferWork>>
vars == <<entries, ctxts, queues, throttle, wait, dev, fault, budget>>

None == <<0, 0>>
Free == [who |-> "free", ctx |-> 0, ts |-> 0, at |-> "none"]
NoWait == [f |-> None, got |-> FALSE, move |-> FALSE]
Empty == [at |-> "empty"]
Word == 4 * MaxUnack   \* the width of unack_count, scaled with its bound

Init ==
    /\ creator = [f \in Fence |-> "todo"] /\ place = [f \in Fence |-> "none"]
    /\ skip = {} /\ slept = {} /\ left = {}
    /\ last = [c \in Ctx |-> 0] /\ ready = [c \in Ctx |-> 0]
    /\ sub = [c \in Ctx |-> 0] /\ run = [c \in Ctx |-> 0]
    /\ retired = [c \in Ctx |-> 0] /\ out = [c \in Ctx |-> 0]
    /\ reg = {} /\ bad = {} /\ drain = {} /\ det = [c \in Ctx |-> "no"]
    /\ cmdq = <<>> /\ gmu = {} /\ seen = {} /\ msgq = <<>> /\ notices = {}
    /\ hand = Empty /\ stuck = FALSE
    /\ unack = 0 /\ flags = {} /\ halt = 0 /\ defer = None /\ votes = 0
    /\ armed = FALSE /\ late = FALSE /\ deferWork = FALSE
    /\ wait = NoWait /\ dev = Free /\ fault = FALSE /\ budget = Budget

May(accident) == accident \in Accidents /\ budget > 0
Spend == budget' = budget - 1

Queued(c, ts) ==
    {f[2] : f \in {g \in Fence : g[1] = c /\ g[2] <= ts /\ place[g] = "queued"}}
Due(c, t) == {u \in Cmds[c] : u > t}   \* its commands after t
First(S) == CHOOSE t \in S : \A u \in S : t <= u
InFlight(c) == {f \in Fence : f[1] = c /\ place[f] = "inflight"}
Locked(c) == dev.at = "sending" /\ dev.ctx = c
Msg(f, waited) == [f |-> f, waited |-> waited]

\* adreno_hwsched_remove_hw_fence_entry and the moves between the lists
Put(fences, where) ==
    place' = [f \in Fence |-> IF f \in fences THEN where ELSE place[f]]

-----------------------------------------------------------------------------
(* The throttle.                                                           *)

Bug_Throttles(n) == n > MaxUnack

Throttles(n) == n = MaxUnack

\* _send_hw_fence_no_ack, _increment_hw_fence_unack_count and
\* _enable_hw_fence_throttle
SendNoAck(f) ==
    /\ cmdq' = Append(cmdq, Msg(f, FALSE))
    /\ unack' = (unack + 1) % Word
    /\ IF Throttles(unack')
       THEN flags' = flags \cup {"sleep", "max"} /\ halt' = halt + 1 /\ armed' = TRUE
       ELSE UNCHANGED <<flags, halt, armed>>

Bug_ThrottleBits == {"max"}

ThrottleBits == {"sleep", "max"}

\* _disable_hw_fence_throttle
DisableThrottle(clear) ==
    /\ defer' = None
    /\ flags' = flags \ ((IF "max" \in flags THEN ThrottleBits ELSE {}) \cup clear)
    /\ halt' = IF "max" \in flags THEN halt - 1 ELSE halt

WakesSleepers == (flags \ {"sleep"}) \cup {"abort"}

\* gen7_hwsched_fault
Fault == fault' = TRUE /\ flags' = WakesSleepers /\ armed' = FALSE

-----------------------------------------------------------------------------
(* The creators: gen7_hwsched_create_hw_fence.                             *)

\* The part after the sleep; a fence of a retired timestamp is signalled by
\* the host
Issue(f) ==
    LET c == f[1]  ts == f[2] IN
    \/ /\ ts > ready[c]
       /\ Put({f}, "queued")
       /\ UNCHANGED <<cmdq, unack, flags, halt, armed, budget>>
    \/ /\ ts <= ready[c] /\ retired[c] >= ts
       /\ UNCHANGED <<place, cmdq, unack, flags, halt, armed, budget>>
    \/ /\ ts <= ready[c] /\ retired[c] < ts
       /\ SendNoAck(f) /\ Put({f}, "inflight")
       /\ UNCHANGED budget

Done(f) == creator' = [creator EXCEPT ![f] = "done"]

NotSent == UNCHANGED <<place, cmdq, unack, flags, halt, armed, budget>>

CreateFrame ==
    UNCHANGED <<skip, ready, left, ctxts, gmu, seen, msgq, notices, hand, stuck, defer,
                votes, late, deferWork, wait, dev, fault>>

Bug_TooLate(f) == FALSE

TooLate(f) == last[f[1]] >= f[2]

\* A fence not above the last one, of a bad context or before a recovery is
\* not created; while SLEEP is set its thread sleeps
Create(f) ==
    LET c == f[1] IN
    /\ creator[f] = "todo" /\ ~Locked(c)
    /\ CreateFrame
    /\ \/ TooLate(f) /\ Done(f) /\ NotSent /\ UNCHANGED <<last, slept>>
       \/ /\ ~TooLate(f) /\ (c \in bad \/ "abort" \in flags)
          /\ last' = [last EXCEPT ![c] = f[2]]
          /\ Done(f) /\ NotSent /\ UNCHANGED slept
       \/ /\ ~TooLate(f) /\ c \notin bad /\ "abort" \notin flags /\ "sleep" \in flags
          /\ last' = [last EXCEPT ![c] = f[2]]
          /\ creator' = [creator EXCEPT ![f] = "asleep"]
          /\ slept' = slept \cup {f}
          /\ NotSent
       \/ /\ ~TooLate(f) /\ c \notin bad /\ flags \cap {"abort", "sleep"} = {}
          /\ last' = [last EXCEPT ![c] = f[2]]
          /\ Issue(f) /\ Done(f) /\ UNCHANGED slept

\* The write to the command queue fails: the fence is forgotten and
\* hw_fence_last_ts is what it was
CreateFails(f) ==
    LET c == f[1] IN
    /\ May("full") /\ Spend
    /\ creator[f] = "todo" /\ ~Locked(c)
    /\ ~TooLate(f) /\ c \notin bad /\ flags \cap {"abort", "sleep"} = {}
    /\ f[2] <= ready[c] /\ retired[c] < f[2]
    /\ Done(f)
    /\ CreateFrame
    /\ UNCHANGED <<place, last, slept, cmdq, unack, flags, halt, armed>>

\* _hw_fence_sleep wakes when SLEEP is clear or for a signal
Awake(f) ==
    LET c == f[1] IN
    /\ creator[f] = "asleep" /\ ~Locked(c) /\ "sleep" \notin flags
    /\ IF c \in bad \/ flags \cap {"max", "abort"} # {}
       THEN NotSent
       ELSE Issue(f)
    /\ Done(f)
    /\ CreateFrame /\ UNCHANGED <<last, slept>>

Signalled(f) ==
    /\ May("signal") /\ Spend
    /\ creator[f] = "asleep" /\ ~Locked(f[1])
    /\ Done(f)
    /\ CreateFrame
    /\ UNCHANGED <<place, last, slept, cmdq, unack, flags, halt, armed>>

-----------------------------------------------------------------------------
(* Submission: hwsched_sendcmd and gen7_hwsched_submit_drawobj.            *)

\* _abort_submission: nothing is sent while halted or after a fault
SubmitCheck(c) ==
    /\ dev = Free /\ halt = 0 /\ ~fault /\ c \notin bad /\ Due(c, sub[c]) # {}
    /\ dev' = [who |-> "submit", ctx |-> c, ts |-> First(Due(c, sub[c])), at |-> "checked"]
    /\ UNCHANGED <<entries, ctxts, queues, throttle, wait, fault, budget>>

SubmitWrite ==
    /\ dev.at = "checked"
    /\ sub' = [sub EXCEPT ![dev.ctx] = dev.ts]
    /\ run' = [run EXCEPT ![dev.ctx] = dev.ts]
    /\ reg' = reg \cup {dev.ctx}
    /\ dev' = [dev EXCEPT !.at = "sending"]
    /\ UNCHANGED <<entries, retired, out, bad, drain, det, queues, throttle, wait,
                   fault, budget>>

Bug_Deferral == <<dev.ctx, dev.ts - 1>>

Deferral == <<dev.ctx, dev.ts>>

Defers == "max" \in flags

\* The end of a submission, or of its replay
SubmitEnds ==
    /\ ready' = [ready EXCEPT ![dev.ctx] = dev.ts]
    /\ dev' = IF dev.who = "submit" THEN Free ELSE [dev EXCEPT !.at = "replay"]

SendFrame ==
    UNCHANGED <<creator, skip, last, slept, ctxts, gmu, seen, msgq, notices, hand,
                stuck, late, deferWork, wait, fault>>

\* process_hw_fence_queue: one fence, the end of it, or the fences deferred
\* (setup_hw_fence_deferred_ctxt). The reader that found nothing deferred and
\* is about to end the throttle is overtaken only if Accidents has it.
SendQueued ==
    LET c == dev.ctx  due == Queued(c, dev.ts)  f == <<c, First(due)>> IN
    /\ dev.at = "sending" /\ SendFrame
    /\ \/ /\ due = {} /\ SubmitEnds
          /\ UNCHANGED <<place, left, cmdq, unack, flags, halt, armed, defer, votes, budget>>
       \/ /\ due # {} /\ Defers /\ SubmitEnds
          /\ hand.at = "min" => "overtaken" \in Accidents
          /\ defer' = Deferral /\ votes' = votes + 1
          /\ UNCHANGED <<place, left, cmdq, unack, flags, halt, armed, budget>>
       \/ /\ due # {} /\ ~Defers
          /\ SendNoAck(f) /\ Put({f}, "inflight")
          /\ UNCHANGED <<ready, left, dev, defer, votes, budget>>
       \/ /\ due # {} /\ ~Defers /\ May("full") /\ Spend /\ SubmitEnds
          /\ left' = left \cup {<<c, t>> : t \in due}
          /\ UNCHANGED <<place, cmdq, unack, flags, halt, armed, defer, votes>>

-----------------------------------------------------------------------------
(* The GMU and the GPU, as the host sees them.                             *)

Retire(c) ==
    /\ ~stuck /\ retired[c] < run[c]
    /\ retired' = [retired EXCEPT ![c] = First(Due(c, @))]
    /\ notices' = notices \cup {c}
    /\ UNCHANGED <<entries, sub, run, out, reg, bad, drain, det, cmdq, gmu, seen,
                   msgq, hand, stuck, throttle, wait, dev, fault, budget>>

\* A command is taken and acknowledged; timestamp 0 is UNREGISTER_CONTEXT,
\* acknowledged when the fences of the context are signalled
GmuTakes ==
    LET m == Head(cmdq) IN
    /\ ~stuck /\ cmdq # <<>>
    /\ m.f[2] = 0 => ~\E g \in gmu : g[1] = m.f[1]
    /\ cmdq' = Tail(cmdq)
    /\ msgq' = Append(msgq, m)
    /\ IF m.f[2] = 0 THEN UNCHANGED <<gmu, seen>>
       ELSE gmu' = gmu \cup {m.f} /\ seen' = seen \cup {m.f}
    /\ UNCHANGED <<entries, ctxts, notices, hand, stuck, throttle, wait, dev, fault,
                   budget>>

GmuSignals(f) ==
    LET c == f[1] IN
    /\ ~stuck /\ f \in gmu /\ (f \in skip \/ retired[c] >= f[2])
    /\ ~\E g \in gmu : g[1] = c /\ g[2] < f[2]
    /\ gmu' = gmu \ {f}
    /\ out' = IF f \in skip THEN out ELSE [out EXCEPT ![c] = f[2]]
    /\ UNCHANGED <<entries, sub, run, retired, reg, bad, drain, det, cmdq, seen, msgq,
                   notices, hand, stuck, throttle, wait, dev, fault, budget>>

\* The GMU stops; a recovery finds it well again or the kernel panics
GmuStops ==
    /\ May("stuck") /\ Spend
    /\ ~stuck /\ dev.who # "recover"
    /\ stuck' = TRUE
    /\ UNCHANGED <<entries, ctxts, cmdq, gmu, seen, msgq, notices, hand, throttle, wait,
                   dev, fault>>

\* A fault of any other kind
OtherFault ==
    /\ May("fault") /\ Spend
    /\ ~fault /\ Fault
    /\ UNCHANGED <<entries, ctxts, queues, unack, halt, defer, votes, late, deferWork,
                   wait, dev>>

-----------------------------------------------------------------------------
(* The reader of the message queue: gen7_hwsched_process_msgq.             *)

ReadAck ==
    LET m == Head(msgq) IN
    /\ hand = Empty /\ msgq # <<>>
    /\ msgq' = Tail(msgq)
    /\ IF m.f[2] = 0
       THEN /\ hand' = Empty
            /\ det' = [det EXCEPT ![m.f[1]] = IF @ = "unregister" THEN "acked" ELSE @]
       ELSE /\ hand' = [at |-> "ack", m |-> m]
            /\ UNCHANGED det
    /\ UNCHANGED <<entries, sub, run, retired, out, reg, bad, drain, cmdq, gmu, seen,
                   notices, stuck, throttle, wait, dev, fault, budget>>

Bug_DropsToMin(n) == n < MinUnack

DropsToMin(n) == n = MinUnack

\* process_hw_fence_ack up to the unlock
ProcessAck ==
    LET m == hand.m  n == (unack - 1) % Word IN
    /\ hand.at = "ack"
    /\ IF m.waited /\ wait.f = m.f
       THEN /\ wait' = [wait EXCEPT !.got = TRUE]
            /\ hand' = Empty
            /\ UNCHANGED unack
       ELSE /\ unack' = n
            /\ hand' = IF "max" \in flags /\ DropsToMin(n)
                       THEN [at |-> "min", defer |-> defer] ELSE Empty
            /\ UNCHANGED wait
    /\ UNCHANGED <<entries, ctxts, cmdq, gmu, seen, msgq, notices, stuck, flags, halt,
                   defer, votes, armed, late, deferWork, dev, fault, budget>>

\* The acknowledgement reports a failure
ProcessNack ==
    /\ May("nack") /\ Spend
    /\ hand.at = "ack" /\ ~hand.m.waited
    /\ unack' = (unack - 1) % Word
    /\ hand' = Empty
    /\ Fault
    /\ UNCHANGED <<entries, ctxts, cmdq, gmu, seen, msgq, notices, stuck, halt, defer,
                   votes, late, deferWork, wait, dev>>

\* The rest: the deferred context is left to the scheduler's thread
EndThrottle ==
    /\ hand.at = "min"
    /\ hand' = Empty /\ armed' = FALSE
    /\ IF hand.defer # None
       THEN deferWork' = TRUE /\ UNCHANGED <<defer, flags, halt>>
       ELSE DisableThrottle({}) /\ UNCHANGED deferWork
    /\ UNCHANGED <<entries, ctxts, cmdq, gmu, seen, msgq, notices, stuck, unack, votes,
                   late, wait, dev, fault, budget>>

\* F2H_MSG_TS_RETIRE: _retire_inflight_hw_fences
ReadRetire(c) ==
    /\ hand = Empty /\ c \in notices /\ ~Locked(c)
    /\ notices' = notices \ {c}
    /\ Put({f \in InFlight(c) : f[2] <= out[c]}, "none")
    /\ UNCHANGED <<creator, skip, last, ready, slept, left, ctxts, cmdq, gmu, seen, msgq, hand,
                   stuck, throttle, wait, dev, fault, budget>>

\* gen7_hwsched_hw_fence_timer, after HW_FENCE_SLEEP_MS
TimerFires ==
    /\ armed
    /\ \/ stuck /\ UNCHANGED budget
       \/ ~stuck /\ May("slow") /\ Spend
    /\ armed' = FALSE /\ late' = TRUE
    /\ UNCHANGED <<entries, ctxts, queues, unack, flags, halt, defer, votes, deferWork,
                   wait, dev, fault>>

\* gen7_hwsched_hw_fence_timeout: the message queue first
Timeout ==
    /\ late /\ hand = Empty /\ msgq = <<>>
    /\ late' = FALSE
    /\ IF {"sleep", "max"} \subseteq flags /\ unack > MinUnack
       THEN Fault ELSE UNCHANGED <<fault, flags, armed>>
    /\ UNCHANGED <<entries, ctxts, queues, unack, halt, defer, votes, deferWork, wait,
                   dev, budget>>

-----------------------------------------------------------------------------
(* Fences sent one by one: gen7_send_hw_fence_hfi_wait_ack, called with    *)
(* the device mutex by the deferral, a detach and a recovery.              *)

\* moved is TRUE if the entry goes to the inflight list, when acknowledged
SendWait(f, skipped, moved) ==
    /\ wait = NoWait
    /\ wait' = [f |-> f, got |-> FALSE, move |-> moved]
    /\ skip' = IF skipped THEN skip \cup {f} ELSE skip
    /\ cmdq' = Append(cmdq, Msg(f, TRUE))

SendWaitFrame ==
    UNCHANGED <<creator, place, last, ready, slept, left, ctxts, gmu, seen, msgq, notices,
                hand, stuck, throttle, dev, fault, budget>>

\* gen7_defer_hw_fence_work begins
DeferStarts ==
    /\ deferWork /\ dev = Free
    /\ deferWork' = FALSE
    /\ dev' = IF defer = None THEN Free
              ELSE [who |-> "defer", ctx |-> defer[1], ts |-> defer[2], at |-> "throttle"]
    /\ UNCHANGED <<entries, ctxts, queues, unack, flags, halt, defer, votes, armed, late,
                   wait, fault, budget>>

\* process_hw_fence_deferred_ctxt; its reset by recovery does the same
DeferSend ==
    LET c == dev.ctx  due == Queued(c, dev.ts)
        over == retired[c] >= dev.ts \/ c \in bad IN
    /\ dev.at = "throttle" /\ due # {}
    /\ SendWait(<<c, First(due)>>, over, ~over)
    /\ SendWaitFrame

DeferEnds ==
    /\ dev.at = "throttle" /\ wait = NoWait /\ Queued(dev.ctx, dev.ts) = {}
    /\ votes' = IF dev.ctx = 0 THEN votes ELSE votes - 1
    /\ DisableThrottle(IF dev.who = "recover" THEN {"abort"} ELSE {})
    /\ dev' = Free
    /\ UNCHANGED <<entries, ctxts, queues, unack, armed, late, deferWork, wait, fault,
                   budget>>

\* The acknowledgement arrived. A fence of the inflight list stays on it;
\* out_fence_ts is set for one the GMU was told to skip
WaitEnds ==
    LET f == wait.f IN
    /\ wait.got
    /\ wait' = NoWait
    /\ IF dev.at = "inflight"
       THEN /\ out' = IF f \in skip /\ f[2] > out[f[1]]
                      THEN [out EXCEPT ![f[1]] = f[2]] ELSE out
            /\ dev' = [dev EXCEPT !.list = @ \ {f}]
            /\ UNCHANGED place
       ELSE Put({f}, IF wait.move THEN "inflight" ELSE "none") /\ UNCHANGED <<out, dev>>
    /\ UNCHANGED <<creator, skip, last, ready, slept, left, sub, run, retired, reg, bad, drain,
                   det, queues, throttle, fault, budget>>

Bug_MoveDetached(c) ==
    Put({f \in InFlight(c) : f[2] > out[c]}, "detached")

\* move_detached_context_hardware_fences
MoveDetached(c) ==
    place' = [f \in Fence |->
        IF f[1] # c THEN place[f]
        ELSE IF place[f] = "inflight"
             THEN IF f[2] > out[c] THEN "detached" ELSE "none"
        ELSE IF place[f] = "queued" THEN "detached" ELSE place[f]]

\* It does not arrive: a fault; the deferral stays set, a detached context's
\* fences are left to the recovery
WaitFails ==
    /\ wait # NoWait /\ ~wait.got /\ stuck /\ hand = Empty /\ msgq = <<>>
    /\ dev.who \in {"defer", "detach"}
    /\ wait' = NoWait /\ dev' = Free
    /\ Fault
    /\ IF dev.who = "detach"
       THEN MoveDetached(dev.ctx) /\ det' = [det EXCEPT ![dev.ctx] = "done"]
       ELSE UNCHANGED <<place, det>>
    /\ UNCHANGED <<creator, skip, last, ready, slept, left, sub, run, retired, out, reg, bad,
                   drain, queues, unack, halt, defer, votes, late, deferWork, budget>>

-----------------------------------------------------------------------------
(* The end of a context: gen7_hwsched_context_detach.                      *)

Detach(c) ==
    /\ det[c] = "no"
    /\ bad' = bad \cup {c}
    /\ det' = [det EXCEPT ![c] = "wait"]
    /\ UNCHANGED <<entries, sub, run, retired, out, reg, drain, queues, throttle, wait,
                   dev, fault, budget>>

\* The commands have retired; the mutex is not held during the wait for the
\* acknowledgement of UNREGISTER_CONTEXT
Unregister(c) ==
    /\ det[c] = "wait" /\ dev = Free /\ retired[c] = sub[c]
    /\ IF c \in reg
       THEN /\ cmdq' = Append(cmdq, Msg(<<c, 0>>, TRUE))
            /\ det' = [det EXCEPT ![c] = "unregister"]
            /\ UNCHANGED <<place, dev>>
       ELSE /\ Put(InFlight(c), "none")
            /\ dev' = [who |-> "detach", ctx |-> c, ts |-> Top(c), at |-> "drain"]
            /\ det' = [det EXCEPT ![c] = "drain"]
            /\ UNCHANGED cmdq
    /\ UNCHANGED <<creator, skip, last, ready, slept, left, sub, run, retired, out, reg, bad,
                   drain, gmu, seen, msgq, notices, hand, stuck, throttle, wait, fault,
                   budget>>

\* trigger_context_unregister_fault
UnregisterFails(c) ==
    /\ det[c] = "unregister" /\ stuck /\ dev = Free /\ hand = Empty /\ msgq = <<>>
    /\ MoveDetached(c)
    /\ det' = [det EXCEPT ![c] = "done"]
    /\ Fault
    /\ UNCHANGED <<creator, skip, last, ready, slept, left, sub, run, retired, out, reg, bad,
                   drain, queues, unack, halt, defer, votes, late, deferWork, wait, dev,
                   budget>>

\* check_detached_context_hardware_fences
CheckDetached(c) ==
    /\ det[c] = "acked" /\ dev = Free
    /\ IF \E f \in InFlight(c) : f[2] > out[c]
       THEN /\ MoveDetached(c)
            /\ det' = [det EXCEPT ![c] = "done"]
            /\ Fault /\ UNCHANGED dev
       ELSE /\ Put(InFlight(c), "none")
            /\ det' = [det EXCEPT ![c] = "drain"]
            /\ dev' = [who |-> "detach", ctx |-> c, ts |-> Top(c), at |-> "drain"]
            /\ UNCHANGED <<fault, flags, armed>>
    /\ UNCHANGED <<creator, skip, last, ready, slept, left, sub, run, retired, out, reg, bad,
                   drain, queues, unack, halt, defer, votes, late, deferWork, wait,
                   budget>>

\* drain_context_hw_fence_gmu
DrainSend ==
    LET due == Queued(dev.ctx, dev.ts) IN
    /\ dev.at = "drain" /\ due # {}
    /\ SendWait(<<dev.ctx, First(due)>>, TRUE, FALSE)
    /\ SendWaitFrame

DrainEnds ==
    /\ dev.at = "drain" /\ wait = NoWait /\ Queued(dev.ctx, dev.ts) = {}
    /\ det' = [det EXCEPT ![dev.ctx] = "done"]
    /\ reg' = reg \ {dev.ctx}
    /\ dev' = Free
    /\ UNCHANGED <<entries, sub, run, retired, out, bad, drain, queues, throttle, wait,
                   fault, budget>>

-----------------------------------------------------------------------------
(* Recovery: gen7_hwsched_reset_replay.                                    *)

Recovering(at) ==
    [who |-> "recover", ctx |-> 0, ts |-> 0, at |-> at, list |-> {}]

\* A guilty context's timestamps are all retired (adreno_drawctxt_invalidate)
Guilty(S) ==
    /\ bad' = bad \cup S
    /\ retired' = [c \in Ctx |-> IF c \in S THEN sub[c] ELSE retired[c]]
    /\ run' = retired'
    /\ drain' = drain \cup {c \in S : Queued(c, Top(c)) # {}}

\* The reader is not waited for: the mask gen7_hwsched_hfi_stop clears first
\* makes its gen7_hwsched_process_msgq return at once; whether it is met with
\* an acknowledgement in hand is left to Accidents
Reset ==
    /\ fault /\ dev = Free
    /\ hand # Empty => "crossing" \in Accidents
    /\ \/ Guilty({})
       \/ /\ "guilty" \in Accidents
          /\ \E c \in Ctx \ bad : run[c] > retired[c] /\ Guilty({c})
    /\ det' = [c \in Ctx |-> IF det[c] = "unregister" THEN "acked" ELSE det[c]]
    /\ reg' = {} /\ cmdq' = <<>> /\ gmu' = {} /\ seen' = {} /\ msgq' = <<>>
    /\ notices' = {} /\ stuck' = FALSE
    /\ unack' = 0 /\ fault' = FALSE
    /\ dev' = Recovering("replay")
    /\ UNCHANGED <<entries, sub, out, hand, flags, halt, defer, votes, armed, late,
                   deferWork, wait, budget>>

\* adreno_hwsched_replay; _abort_submission is not asked
Replay ==
    /\ dev.at = "replay"
    /\ \/ \E c \in Ctx \ bad :
             /\ run[c] < sub[c]
             /\ run' = [run EXCEPT ![c] = First(Due(c, @))]
             /\ reg' = reg \cup {c}
             /\ dev' = [dev EXCEPT !.at = "sending", !.ctx = c, !.ts = run'[c]]
       \/ /\ \A c \in Ctx \ bad : run[c] = sub[c]
          /\ dev' = Recovering("guilty")
          /\ UNCHANGED <<run, reg>>
    /\ UNCHANGED <<entries, sub, retired, out, bad, drain, det, queues, throttle, wait,
                   fault, budget>>

\* drain_guilty_context_hw_fences
GuiltySend ==
    /\ dev.at = "guilty"
    /\ \E c \in drain :
          /\ Queued(c, Top(c)) # {}
          /\ SendWait(<<c, First(Queued(c, Top(c)))>>, TRUE, FALSE)
    /\ SendWaitFrame

\* process_context_hw_fences_after_reset
Unsignalled == {f \in Fence : place[f] = "inflight" /\ f[2] > out[f[1]]}

GuiltyEnds ==
    /\ dev.at = "guilty" /\ wait = NoWait
    /\ \A c \in drain : Queued(c, Top(c)) = {}
    /\ drain' = {}
    /\ Put({f \in Fence : place[f] = "inflight"} \ Unsignalled, "none")
    /\ skip' = skip \cup {f \in Unsignalled :
                   f[1] \in bad \/ (retired[f[1]] >= f[2] /\ f[1] \notin reg)}
    /\ dev' = [Recovering("inflight") EXCEPT !.list = Unsignalled]
    /\ UNCHANGED <<creator, last, ready, slept, left, sub, run, retired, out, reg, bad, det,
                   queues, throttle, wait, fault, budget>>

\* process_inflight_hw_fences_after_reset
InflightSend ==
    /\ dev.at = "inflight"
    /\ \E f \in dev.list :
          /\ ~\E g \in dev.list : g[1] = f[1] /\ g[2] < f[2]
          /\ SendWait(f, FALSE, TRUE)
    /\ SendWaitFrame

InflightEnds ==
    /\ dev.at = "inflight" /\ wait = NoWait /\ dev.list = {}
    /\ dev' = Recovering("detached")
    /\ UNCHANGED <<entries, ctxts, queues, throttle, wait, fault, budget>>

\* process_detached_hw_fences_after_reset
DetachedSend ==
    /\ dev.at = "detached"
    /\ \E f \in Fence :
          /\ place[f] = "detached"
          /\ ~\E g \in Fence : place[g] = "detached" /\ g[1] = f[1] /\ g[2] < f[2]
          /\ SendWait(f, TRUE, FALSE)
    /\ SendWaitFrame

\* gen7_hwsched_disable_hw_fence_throttle begins
DetachedEnds ==
    /\ dev.at = "detached" /\ wait = NoWait
    /\ ~\E f \in Fence : place[f] = "detached"
    /\ dev' = [Recovering("throttle") EXCEPT !.ctx = defer[1], !.ts = defer[2]]
    /\ UNCHANGED <<entries, ctxts, queues, throttle, wait, fault, budget>>

-----------------------------------------------------------------------------
Recover ==
    Reset \/ Replay \/ GuiltySend \/ GuiltyEnds \/ InflightSend \/ InflightEnds
      \/ DetachedSend \/ DetachedEnds

Holder ==
    SubmitWrite \/ SendQueued \/ DeferStarts \/ DeferSend \/ DeferEnds \/ WaitEnds
      \/ WaitFails \/ DrainSend \/ DrainEnds

Reader == ReadAck \/ ProcessAck \/ EndThrottle \/ \E c \in Ctx : ReadRetire(c)

Detaching ==
    \E c \in Ctx : Unregister(c) \/ UnregisterFails(c) \/ CheckDetached(c)

Creator(f) == Create(f) \/ Awake(f)

Next ==
    \/ \E f \in Fence :
           Create(f) \/ CreateFails(f) \/ Awake(f) \/ Signalled(f) \/ GmuSignals(f)
    \/ \E c \in Ctx : SubmitCheck(c) \/ Retire(c) \/ Detach(c)
    \/ Holder \/ Reader \/ ProcessNack \/ TimerFires \/ Timeout
    \/ GmuTakes \/ GmuStops \/ OtherFault \/ Detaching \/ Recover

Spec == Init /\ [][Next]_vars

\* The scheduler's thread, the reader of the message queue and the timer run
\* in the end, a thread that began a call goes on, the GMU works unless stuck
Fairness ==
    /\ WF_vars(Holder) /\ WF_vars(Recover) /\ WF_vars(Reader) /\ WF_vars(Detaching)
    /\ WF_vars(TimerFires) /\ WF_vars(Timeout) /\ WF_vars(GmuTakes)
    /\ \A f \in Fence : SF_vars(Awake(f)) /\ WF_vars(GmuSignals(f))
    /\ \A c \in Ctx : WF_vars(Retire(c))

FairSpec == Spec /\ Fairness

-----------------------------------------------------------------------------
(* Properties.                                                             *)

Unacked ==
    Len(SelectSeq(cmdq \o msgq, LAMBDA m : ~m.waited))
      + (IF hand.at = "ack" THEN IF hand.m.waited THEN 0 ELSE 1 ELSE 0)

\* The count of unacknowledged fences is that of the fences the GMU has to
\* acknowledge and never passes its limit, and while it was too high the
\* submission is halted exactly once.
UnackMatches ==
    /\ unack = Unacked /\ unack <= MaxUnack
    /\ halt = IF "max" \in flags THEN 1 ELSE 0

\* Whoever is put to sleep or deferred has somebody to wake it or to send
\* it: acknowledgements to come, the reader, the deferral or a recovery.
SomeoneEndsThrottle ==
    /\ "sleep" \in flags => "max" \in flags
    /\ defer # None => votes >= 1
    /\ "max" \in flags =>
          \/ unack > MinUnack \/ hand.at = "min"
          \/ deferWork \/ dev.who \in {"defer", "recover"} \/ fault

\* A fence that was due with a submission and was not sent is sent when the
\* throttle ends, by a recovery or by the end of its context.
NothingStranded ==
    \A f \in Fence :
        (place[f] = "queued" /\ f[2] <= ready[f[1]] /\ f \notin left) =>
            \/ defer # None /\ defer[1] = f[1] /\ defer[2] >= f[2]
            \/ dev.who = "recover" \/ f[1] \in bad

\* A GMU that works is never sent a fence twice, or after one of its context with a
\* later timestamp: the GMU asserts on both. Left out are a fence whose
\* creator slept, one that a failed write left behind and, of the order, one
\* the GMU is told to signal at once.
SentOnceInOrder ==
    \A i \in 1 .. Len(cmdq) :
        LET f == cmdq[i].f  before == seen \cup {cmdq[j].f : j \in 1 .. i - 1} IN
        (f[2] # 0 /\ ~stuck) =>
            /\ f \notin before \/ f \in left
            /\ f \in slept \cup left \cup skip \/ ~\E g \in before \ left : g[1] = f[1] /\ g[2] > f[2]

\* A context that has gone leaves no fence behind, but those a recovery that
\* will come has been left to send (the warning in
\* gen7_hwsched_context_detach).
DetachedLeavesNone ==
    \A f \in Fence :
        /\ det[f[1]] = "done" => place[f] \notin {"queued", "inflight"}
        /\ place[f] = "detached" => fault \/ dev.who = "recover"

\* A thread that sleeps for the throttle returns, whether the GMU goes on,
\* is slow or stops.
SleepersReturn ==
    \A f \in Fence : creator[f] = "asleep" ~> creator[f] = "done"

\* The reference and the active count of a deferral are given back when it
\* is over.
VotesMatch == votes = IF defer = None THEN 0 ELSE 1
=============================================================================
