----------------------------- MODULE Preemption -----------------------------
(***************************************************************************)
(* Ringbuffers of several priorities on one command processor (CP):        *)
(* gen7_ringbuffer_submit, adreno_gen7_preempt.c and the preemption timer. *)
(* A write pointer is the number of commands put in its ring since the     *)
(* last reset, a read pointer the number the CP has run.                   *)
(*                                                                         *)
(* Two threads take steps in the middle of each other: "disp", whoever     *)
(* holds the dispatcher (a submitter or the worker), and "irq", the GPU's  *)
(* interrupt handler.  The timer and the preemption worker take one step.  *)
(* The check of the state and the write of the register in a submission    *)
(* are one step: see the README for what a delay between them does.        *)
(***************************************************************************)
EXTENDS Integers, FiniteSets

CONSTANTS
    Rings,       \* number of ringbuffers; 0 is the one of the highest priority
    Work,        \* commands to send, per ring
    Accidents    \* which accidents may happen in one behaviour, each once:
                 \*   "late"   the completion interrupt, before the status clears
                 \*   "early"  the preemption timer, though the CP is not stuck
                 \*   "hang"   of the CP
                 \*   "fail"   of a fenced write of a preemption

Ring == 0 .. Rings - 1
NoRing == Rings
Threads == {"disp", "irq"}

PreemptionAssumption ==
    /\ Rings \in Nat \ {0}
    /\ Work \in [Ring -> Nat]
    /\ Accidents \subseteq SUBSET {"late", "early", "hang", "fail"}

VARIABLES
    state,    \* adreno_dev->preempt.state
    cur, next,              \* adreno_dev->cur_rb, next_rb
    todo,     \* commands waiting in the dispatcher, per ring
    wptr,     \* rb->wptr
    skip,     \* rb->skip_inline_wptr
    timers,   \* which timers are armed: "dispatch", "preempt"
    works,    \* which works are queued: "scheduler", "preempt"
    fault,    \* the GPU is to be reset
    expired,  \* rings whose command timeout has passed (dispatch_q.expires)
    pc, at,                 \* per thread: its step and the ring it looks at
    within,   \* "work": the dispatcher is in its worker; "cp": the interrupt is
              \* gen7_cp_callback
    hw,       \* the CP: running ring, write pointer register, ring to restore,
              \* status bit of CONTEXT_SWITCH_CNTL, switch wanted, keepalive, hung
    rptr,     \* commands run, per ring
    record,   \* write pointer in the preemption record of the ring to restore
    irqs,     \* raised interrupts: "cp" (a command ended), "sw" (switched)
    left      \* the accidents that may still happen

swVars == <<state, cur, next>>
ringVars == <<todo, wptr, skip>>
jobVars == <<timers, works, fault, expired>>
hwVars == <<hw, rptr, record, irqs>>
vars == <<swVars, ringVars, jobVars, pc, at, within, hwVars, left>>

NoWork == [r \in Ring |-> 0]

Init ==
    /\ state = "NONE" /\ cur = 0 /\ next = NoRing
    /\ todo = Work /\ wptr = NoWork /\ skip = [r \in Ring |-> FALSE]
    /\ timers = {} /\ works = {} /\ fault = FALSE /\ expired = {}
    /\ pc = [t \in Threads |-> "idle"]
    /\ at = [t \in Threads |-> 0]
    /\ within = {}
    /\ hw = [ring |-> 0, wptr |-> 0, restore |-> 0, status |-> FALSE,
             wanted |-> FALSE, keepalive |-> FALSE, hung |-> FALSE]
    /\ rptr = NoWork /\ record = 0 /\ irqs = {}
    /\ left \in Accidents

Goto(t, step) == pc' = [pc EXCEPT ![t] = step]

\* adreno_rb_empty
Empty(r) == rptr[r] = wptr[r]

\* adreno_scheduler_fault: remember the fault and queue the worker.
SchedulerFault ==
    /\ fault' = TRUE
    /\ works' = works \cup {"scheduler"}

-----------------------------------------------------------------------------
(* Submission.                                                             *)

\* The register is written only for the ring that runs, and only while no
\* preemption is under way.
WritesInline(r) == state = "NONE" /\ cur = r

\* gen7_ringbuffer_submit, under the ring's preempt_lock
Submit(r) ==
    /\ pc["disp"] \in {"idle", "timers"}
    /\ todo[r] > 0 /\ ~fault
    /\ todo' = [todo EXCEPT ![r] = @ - 1]
    /\ wptr' = [wptr EXCEPT ![r] = @ + 1]
    /\ hw' = IF WritesInline(r) THEN [hw EXCEPT !.wptr = wptr[r] + 1] ELSE hw
    /\ skip' = IF cur = r THEN [skip EXCEPT ![r] = ~WritesInline(r)] ELSE skip
    /\ expired' = IF Empty(r) THEN expired \ {r} ELSE expired
    /\ at' = [at EXCEPT !["disp"] = r]
    /\ Goto("disp", "sent")
    /\ UNCHANGED <<swVars, timers, works, fault, within, rptr, record, irqs, left>>

\* The end of sendcmd: the command timer, if the ring is believed current
Sent ==
    /\ pc["disp"] = "sent"
    /\ timers' = IF state = "NONE" /\ cur = at["disp"]
                 THEN timers \cup {"dispatch"} ELSE timers
    /\ Goto("disp", "schedule")
    /\ UNCHANGED <<swVars, ringVars, works, fault, expired, at, within, hwVars, left>>

-----------------------------------------------------------------------------
(* gen7_preemption_trigger, run by both threads.                           *)

\* Whether _update_wptr writes the register: the interrupt compares it with
\* the ring, a thread only makes up for a write that was skipped.
MustWrite(t) == IF t = "irq" THEN hw.wptr # wptr[cur] ELSE skip[cur]

\* _update_wptr, which also gives the ring a new command timeout
UpdateWptr(t, resetTimer) ==
    /\ hw' = IF MustWrite(t) THEN [hw EXCEPT !.wptr = wptr[cur]] ELSE hw
    /\ skip' = IF t = "irq" THEN skip ELSE [skip EXCEPT ![cur] = FALSE]
    /\ expired' = IF resetTimer \/ MustWrite(t) THEN expired \ {cur} ELSE expired

\* Leaving the trigger: the worker goes on, the interrupt of a command
\* queues the worker (gen7_cp_callback)
LeaveTrigger(t) ==
    /\ Goto(t, IF t = "disp" /\ "work" \in within THEN "timers" ELSE "idle")
    /\ at' = [at EXCEPT ![t] = 0]
    /\ works' = IF t = "irq" /\ "cp" \in within THEN works \cup {"scheduler"} ELSE works
    /\ within' = IF t = "irq" THEN within \ {"cp"} ELSE within

\* adreno_move_preempt_state(NONE, START)
Trigger(t) ==
    /\ pc[t] = "trigger"
    /\ IF state = "NONE"
       THEN /\ state' = "START"
            /\ Goto(t, "scan")
            /\ at' = [at EXCEPT ![t] = 0]
            /\ UNCHANGED <<works, within>>
       ELSE LeaveTrigger(t) /\ UNCHANGED state
    /\ UNCHANGED <<cur, next, ringVars, timers, fault, expired, hwVars, left>>

\* gen7_next_ringbuffer, one ring at a time under its preempt_lock
Scan(t) ==
    /\ pc[t] = "scan"
    /\ IF Empty(at[t]) /\ at[t] < Rings - 1
       THEN at' = [at EXCEPT ![t] = @ + 1] /\ UNCHANGED pc
       ELSE /\ at' = IF Empty(at[t]) THEN [at EXCEPT ![t] = NoRing] ELSE at
            /\ Goto(t, "decide")
    /\ UNCHANGED <<swVars, ringVars, jobVars, within, hwVars, left>>

NothingToRun(t) ==
    /\ pc[t] = "decide" /\ at[t] = NoRing
    /\ state' = "NONE"
    /\ LeaveTrigger(t)
    /\ UNCHANGED <<cur, next, ringVars, timers, fault, expired, hwVars, left>>

StayOnRing(t) ==
    /\ pc[t] = "decide" /\ at[t] = cur
    /\ UpdateWptr(t, FALSE)
    /\ Goto(t, "stay")
    /\ UNCHANGED <<swVars, todo, wptr, timers, works, fault, at, within, rptr, record, irqs, left>>

Stayed(t) ==
    /\ pc[t] = "stay"
    /\ timers' = timers \cup {"dispatch"}
    /\ state' = "NONE"
    /\ LeaveTrigger(t)
    /\ UNCHANGED <<cur, next, ringVars, fault, expired, hwVars, left>>

\* The dispatcher timer stops, the record gets the write pointer
SwitchRing(t) ==
    /\ pc[t] = "decide" /\ at[t] \in Ring \ {cur}
    /\ timers' = timers \ {"dispatch"}
    /\ record' = wptr[at[t]]
    /\ Goto(t, "program")
    /\ UNCHANGED <<swVars, ringVars, works, fault, expired, at, within, hw, rptr, irqs, left>>

\* The keepalive and the restore addresses; then the timer and the state
Program(t) ==
    /\ pc[t] = "program"
    /\ hw' = [hw EXCEPT !.keepalive = TRUE, !.restore = at[t]]
    /\ next' = at[t]
    /\ timers' = timers \cup {"preempt"}
    /\ state' = "TRIGGERED"
    /\ Goto(t, "fire")
    /\ UNCHANGED <<cur, ringVars, works, fault, expired, at, within, rptr, record, irqs, left>>

Fire(t) ==
    /\ pc[t] = "fire"
    /\ hw' = [hw EXCEPT !.status = TRUE, !.wanted = TRUE]
    /\ LeaveTrigger(t)
    /\ UNCHANGED <<swVars, ringVars, timers, fault, expired, rptr, record, irqs, left>>

\* A fenced write is dropped, before or at the write that starts the switch
WriteFails(t) ==
    /\ pc[t] \in {"program", "fire"} /\ "fail" \in left
    /\ left' = left \ {"fail"}
    /\ next' = IF pc[t] = "fire" THEN NoRing ELSE next
    /\ timers' = IF pc[t] = "fire" THEN timers \ {"preempt"} ELSE timers
    /\ SchedulerFault
    /\ state' = "NONE"
    /\ hw' = [hw EXCEPT !.keepalive = FALSE]
    /\ Goto(t, IF t = "disp" /\ "work" \in within THEN "timers" ELSE "idle")
    /\ at' = [at EXCEPT ![t] = 0]
    /\ within' = IF t = "irq" THEN within \ {"cp"} ELSE within
    /\ UNCHANGED <<cur, ringVars, expired, rptr, record, irqs>>

-----------------------------------------------------------------------------
(* Interrupts, the preemption timer and its worker.                        *)

\* gen7_cp_callback: a command has ended
CpInterrupt ==
    /\ pc["irq"] = "idle" /\ "cp" \in irqs
    /\ irqs' = irqs \ {"cp"}
    /\ within' = within \cup {"cp"}
    /\ Goto("irq", "trigger")
    /\ UNCHANGED <<swVars, ringVars, jobVars, at, hw, rptr, record, left>>

\* gen7_preemption_callback
SwInterrupt ==
    /\ pc["irq"] = "idle" /\ "sw" \in irqs
    /\ irqs' = irqs \ {"sw"}
    /\ IF state = "TRIGGERED"
       THEN state' = "PENDING" /\ Goto("irq", "callback")
       ELSE UNCHANGED <<state, pc>>
    /\ UNCHANGED <<cur, next, ringVars, jobVars, at, within, hw, rptr, record, left>>

\* The status has not cleared yet: leave the rest to the dispatcher
CallbackEarly ==
    /\ pc["irq"] = "callback" /\ hw.status
    /\ state' = "COMPLETE"
    /\ works' = works \cup {"scheduler"}
    /\ Goto("irq", "idle")
    /\ UNCHANGED <<cur, next, ringVars, timers, fault, expired, at, within, hwVars, left>>

CallbackSwap ==
    /\ pc["irq"] = "callback" /\ ~hw.status
    /\ hw' = [hw EXCEPT !.keepalive = FALSE]
    /\ timers' = timers \ {"preempt"}
    /\ cur' = next /\ next' = NoRing
    /\ Goto("irq", "swapped")
    /\ UNCHANGED <<state, ringVars, works, fault, expired, at, within, rptr, record, irqs, left>>

\* Both ways to finish a switch: the write pointer of the new ring, ...
Swapped(t) ==
    /\ pc[t] = "swapped"
    /\ UpdateWptr(t, TRUE)
    /\ Goto(t, "armed")
    /\ UNCHANGED <<swVars, todo, wptr, timers, works, fault, at, within, rptr, record, irqs, left>>

Bug_TimerAfterSwitch == {}

\* What the end of a switch arms for the new ring
TimerAfterSwitch == {"dispatch"}

\* ... the dispatcher timer and the state, and then perhaps the next switch
Armed(t) ==
    /\ pc[t] = "armed"
    /\ timers' = timers \cup TimerAfterSwitch
    /\ state' = "NONE"
    /\ Goto(t, "trigger")
    /\ UNCHANGED <<cur, next, ringVars, works, fault, expired, at, within, hwVars, left>>

Interrupt == CpInterrupt \/ SwInterrupt \/ CallbackEarly \/ CallbackSwap

TriggerStep(t) ==
    \/ Trigger(t) \/ Scan(t) \/ NothingToRun(t) \/ StayOnRing(t) \/ Stayed(t)
    \/ SwitchRing(t) \/ Program(t) \/ Fire(t) \/ Swapped(t) \/ Armed(t)

\* Nothing is left that could still end a command or a switch
Quiet ==
    /\ irqs = {} /\ works = {} /\ \A t \in Threads : pc[t] = "idle"
    /\ hw.hung \/ (rptr[hw.ring] >= hw.wptr /\ ~hw.wanted /\ ~hw.status)

Bug_MayFault == {"TRIGGERED", "PENDING"}

\* The states in which the timer takes a switch away from the interrupt
MayFault == {"TRIGGERED"}

\* adreno_preemption_timer: its 10 s are longer than the writes of a trigger
PreemptTimer ==
    /\ "preempt" \in timers /\ \A t \in Threads : pc[t] # "fire"
    /\ Quiet \/ "early" \in left
    /\ left' = IF Quiet THEN left ELSE left \ {"early"}
    /\ timers' = timers \ {"preempt"}
    /\ IF state \in MayFault
       THEN state' = "FAULTED" /\ works' = works \cup {"preempt"}
       ELSE UNCHANGED <<state, works>>
    /\ UNCHANGED <<cur, next, ringVars, fault, expired, pc, at, within, hwVars>>

\* _gen7_preemption_worker, under the device mutex
PreemptWorker ==
    /\ "preempt" \in works
    /\ pc["disp"] \in {"idle", "sent", "timers"}
    /\ IF state # "FAULTED"
       THEN works' = works \ {"preempt"} /\ UNCHANGED <<state, fault>>
       ELSE /\ works' = (works \ {"preempt"}) \cup {"scheduler"}
            /\ state' = IF hw.status THEN state ELSE "COMPLETE"
            /\ fault' = (fault \/ hw.status)
    /\ UNCHANGED <<cur, next, ringVars, timers, expired, pc, at, within, hwVars, left>>

-----------------------------------------------------------------------------
(* The dispatcher: gen7_preemption_schedule and the worker around it.      *)

\* Under the device mutex, until the trigger is left
Schedule ==
    /\ pc["disp"] = "schedule"
    /\ Goto("disp", IF state = "COMPLETE" THEN "done" ELSE "trigger")
    /\ UNCHANGED <<swVars, ringVars, jobVars, at, within, hwVars, left>>

\* _gen7_preemption_done.  Two works have run since the switch: an interrupt
\* it raised has been served before.
Done ==
    /\ pc["disp"] = "done" /\ "sw" \notin irqs
    /\ IF hw.status
       THEN /\ SchedulerFault
            /\ Goto("disp", "trigger")
            /\ UNCHANGED <<cur, next, timers>>
       ELSE /\ timers' = timers \ {"preempt"}
            /\ cur' = next /\ next' = NoRing
            /\ Goto("disp", "swapped")
            /\ UNCHANGED <<works, fault>>
    /\ UNCHANGED <<state, ringVars, expired, at, within, hwVars, left>>

\* adreno_dispatch_process_drawqueue: the current ring has sent commands and
\* has retired nothing for the length of the timeout
Overdue == cur \in expired /\ ~Empty(cur)

\* adreno_dispatcher_work: a command of the current ring that is overdue is
\* a fault
WorkerStart ==
    /\ pc["disp"] = "idle" /\ "scheduler" \in works
    /\ works' = works \ {"scheduler"}
    /\ fault' = (fault \/ Overdue)
    /\ expired' = IF Overdue THEN expired \ {cur} ELSE expired
    /\ within' = within \cup {"work"}
    /\ Goto("disp", IF fault' THEN "recover" ELSE "schedule")
    /\ UNCHANGED <<swVars, ringVars, timers, at, hwVars, left>>

\* _dispatcher_update_timers
WorkerEnd ==
    /\ pc["disp"] = "timers"
    /\ timers' = IF state = "NONE" /\ ~Empty(cur)
                 THEN timers \cup {"dispatch"} ELSE timers
    /\ within' = within \ {"work"}
    /\ Goto("disp", "idle")
    /\ UNCHANGED <<swVars, ringVars, works, fault, expired, at, hwVars, left>>

\* What a reset leaves in the rings (gen7_rb_start)
AfterReset == [r \in Ring |-> 0]

\* dispatcher_do_fault: the ring that hung becomes the current one, the GPU
\* starts again with empty rings and the commands that have not run are sent
\* again.  Interrupts are off before the reset.
Recover ==
    /\ pc["disp"] = "recover" /\ pc["irq"] = "idle"
    /\ cur' = hw.ring /\ state' = "NONE"
    /\ todo' = [r \in Ring |-> todo[r] + wptr[r] - rptr[r]]
    /\ wptr' = AfterReset /\ rptr' = AfterReset /\ record' = 0
    /\ hw' = [hw EXCEPT !.wptr = 0, !.restore = 0, !.status = FALSE, !.wanted = FALSE,
                        !.keepalive = FALSE, !.hung = FALSE]
    /\ irqs' = {} /\ timers' = {} /\ fault' = FALSE
    /\ works' = works \cup {"scheduler"}
    /\ Goto("disp", "timers")
    /\ UNCHANGED <<next, skip, expired, at, within, left>>

\* adreno_dispatcher_timer: 2 s after the last sign of life
DispatchTimer ==
    /\ "dispatch" \in timers /\ Quiet
    /\ timers' = timers \ {"dispatch"}
    /\ expired' = Ring
    /\ works' = works \cup {"scheduler"}
    /\ UNCHANGED <<swVars, ringVars, fault, pc, at, within, hwVars, left>>

-----------------------------------------------------------------------------
(* The command processor.                                                  *)

RunCommand ==
    /\ ~hw.hung /\ rptr[hw.ring] < hw.wptr
    /\ rptr' = [rptr EXCEPT ![hw.ring] = @ + 1]
    /\ irqs' = irqs \cup {"cp"}
    /\ expired' = expired \ {hw.ring}
    /\ UNCHANGED <<swVars, ringVars, timers, works, fault, pc, at, within, hw, record, left>>

\* The switch: the interrupt may come before the status bit clears
CpSwitches ==
    /\ ~hw.hung /\ hw.wanted
    /\ \E late \in BOOLEAN :
        /\ late => "late" \in left
        /\ left' = IF late THEN left \ {"late"} ELSE left
        /\ hw' = [hw EXCEPT !.ring = hw.restore, !.wptr = record, !.restore = 0,
                            !.wanted = FALSE, !.status = late]
    /\ record' = 0
    /\ irqs' = irqs \cup {"sw"}
    /\ UNCHANGED <<swVars, ringVars, jobVars, pc, at, within, rptr>>

StatusClears ==
    /\ ~hw.hung /\ hw.status /\ ~hw.wanted
    /\ hw' = [hw EXCEPT !.status = FALSE]
    /\ UNCHANGED <<swVars, ringVars, jobVars, pc, at, within, rptr, record, irqs, left>>

Hang ==
    /\ ~hw.hung /\ "hang" \in left
    /\ hw.wanted \/ rptr[hw.ring] < hw.wptr
    /\ hw' = [hw EXCEPT !.hung = TRUE]
    /\ left' = left \ {"hang"}
    /\ UNCHANGED <<swVars, ringVars, jobVars, pc, at, within, rptr, record, irqs>>

-----------------------------------------------------------------------------
DispatcherStep ==
    \/ \E r \in Ring : Submit(r)
    \/ Sent \/ Schedule \/ Done \/ WorkerStart \/ WorkerEnd \/ Recover
    \/ TriggerStep("disp")

InterruptStep == Interrupt \/ TriggerStep("irq")

CpStep == RunCommand \/ CpSwitches \/ StatusClears

Next ==
    \/ DispatcherStep \/ InterruptStep \/ CpStep
    \/ PreemptTimer \/ PreemptWorker \/ DispatchTimer
    \/ Hang \/ \E t \in Threads : WriteFails(t)

Spec == Init /\ [][Next]_vars

\* Threads, handlers, timers and works run when they can; a CP that does not
\* hang runs its commands and switches.
Fairness ==
    /\ WF_vars(DispatcherStep) /\ WF_vars(InterruptStep)
    /\ WF_vars(RunCommand) /\ WF_vars(CpSwitches) /\ WF_vars(StatusClears)
    /\ WF_vars(PreemptTimer) /\ WF_vars(PreemptWorker) /\ WF_vars(DispatchTimer)

FairSpec == Spec /\ Fairness

-----------------------------------------------------------------------------
(* Properties.                                                             *)

States == {"NONE", "START", "TRIGGERED", "FAULTED", "PENDING", "COMPLETE"}

\* Every variable has its type.
TypeOK ==
    /\ state \in States /\ cur \in Ring /\ next \in 0 .. Rings
    /\ todo \in [Ring -> Nat] /\ wptr \in [Ring -> Nat] /\ skip \in [Ring -> BOOLEAN]
    /\ timers \subseteq {"dispatch", "preempt"}
    /\ works \subseteq {"scheduler", "preempt"}
    /\ fault \in BOOLEAN /\ expired \subseteq Ring
    /\ at \in [Threads -> 0 .. Rings]
    /\ within \subseteq {"work", "cp"}
    /\ hw \in [ring : Ring, wptr : Nat, restore : Ring, status : BOOLEAN,
               wanted : BOOLEAN, keepalive : BOOLEAN, hung : BOOLEAN]
    /\ rptr \in [Ring -> Nat] /\ record \in Nat
    /\ irqs \subseteq {"cp", "sw"}

\* The software and the CP agree on the ring that runs.  While no switch is
\* under way the CP is on the current ring and none is wanted of it; during
\* one it is on the current or on the next ring, which differ.
SwitchesAgree ==
    fault \/ pc["irq"] = "swapped" \/ pc["irq"] = "armed"
          \/ pc["disp"] = "swapped" \/ pc["disp"] = "armed"
          \/ IF state \in {"NONE", "START"}
             THEN hw.ring = cur /\ ~hw.wanted
             ELSE next \in Ring \ {cur} /\ hw.ring \in {cur, next}

\* The CP is never told to run past the commands its ring holds: the one
\* write pointer register is not written for a ring that does not run.
NeverPastTheEnd == hw.wptr <= wptr[hw.ring]

\* Every command runs in the end, whatever interrupts, timers, late status
\* bits, dropped writes and hangs come in between.
EveryCommandRuns == <>[](\A r \in Ring : todo[r] = 0 /\ Empty(r))

\* "it either means the GPU is hung or the IB is taking too long": the
\* command timer finds a command overdue only on a CP that hangs.
TimeoutMeansHung == Overdue => hw.hung
=============================================================================
