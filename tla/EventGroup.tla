------------------------------ MODULE EventGroup ------------------------------
(***************************************************************************)
(* The GPU events of one context (kgsl_events.c): the list of its event    *)
(* group, the worker thread that runs the callbacks, the processor that    *)
(* looks for retired events, the waiters of adreno_drawctxt_wait, and the  *)
(* invalidation and the detach of the context.                             *)
(*                                                                         *)
(* group->lock is taken and released within one action.  Timestamps are    *)
(* kept as true counts; what the code compares is their low bits, Reg(n).  *)
(* The events and callbacks of sync objects are in module SyncPoints.      *)
(*                                                                         *)
(* A definition Bug_X is the form of X a plausible slip would give it; no  *)
(* action uses it.                                                         *)
(***************************************************************************)
EXTENDS Integers, Sequences, FiniteSets, SequencesExt

CONSTANTS
    Waiters,     \* threads that wait for a timestamp of the context, once each
    Points,      \* timestamp sync points on the context, module SyncPoints
    Window,      \* KGSL_TIMESTAMP_WINDOW (0x80000000); registers are mod 2 * Window
    MaxTs,       \* bound: largest timestamp queued
    Scenes,      \* how the context is found at first, and bound: who acts on it
    WaitChoices  \* timestamps the waiters may ask for

Events == Waiters \cup Points    \* each registers at most one event

(* A context that has been in use for long: its flag for user timestamps,   *)
(* its timestamps, and the threads that act on it from now on ("ioctl": a   *)
(* sync object waits for it).                                               *)
Actors == Waiters \cup {"ioctl", "detach", "invalidate"}
FirstScenes == {s \in [userTs : BOOLEAN, retired : Nat, sent : Nat, queued : Nat,
                       who : SUBSET Actors] :
                   s.retired <= s.sent /\ s.sent <= s.queued /\ s.queued <= MaxTs}

(* The driver never compares timestamps half the register's range apart.    *)
ASSUME EventAssumption ==
    /\ IsFiniteSet(Events) /\ Waiters \cap Points = {} /\ "none" \notin Events
    /\ Window \in Nat \ {0} /\ MaxTs \in Nat /\ WaitChoices \subseteq Nat
    /\ \A s \in Scenes : /\ s \in FirstScenes
                        /\ \A d \in WaitChoices \cup {MaxTs} :
                              d - s.retired \in 1 - Window .. Window - 1

VARIABLES
    queued,     \* drawctxt->timestamp
    sent,       \* the timestamps up to it have left the draw queue for the GPU
    retired,    \* the context's eoptimestamp in the memstore
    userTs,     \* KGSL_CONTEXT_USER_GENERATED_TS
    detached, invalid,  \* KGSL_CONTEXT_PRIV_DETACHED, KGSL_CONTEXT_PRIV_INVALID
    wref,       \* kref of the context
    group,      \* the event group is on device->event_groups
    list,       \* group->events, oldest first
    processed,  \* group->processed
    work,       \* the events queued on device->events_worker, oldest first
    est, due, res,  \* per event: where it is, its timestamp and its result
    run, rstep, \* the event whose callback the worker runs, and its next step
    walk,       \* kgsl_process_event_groups: "idle" or "walk"
    ipc, its,   \* adreno_drawctxt_invalidate: next step and drained timestamp
    dpc, clean, \* kgsl_context_detach: next step; the GPU finished in time
    wpc         \* per waiter: next step of adreno_drawctxt_wait

tsVars == <<queued, sent, retired, userTs>>
groupVars == <<group, list, processed>>
eventVars == <<work, est, due, res>>
runVars == <<run, rstep>>
endVars == <<ipc, its, dpc, clean>>
eventGroupVars == <<tsVars, detached, invalid, wref, groupVars, eventVars,
                    runVars, walk, endVars, wpc>>

Retired == "RETIRED"
Cancelled == "CANCELLED"

EventInit(s) ==
    /\ queued = s.queued /\ sent = s.sent /\ retired = s.retired
    /\ userTs = s.userTs /\ detached = FALSE /\ invalid = FALSE
    /\ wref = 1 /\ group = TRUE /\ list = << >> /\ processed = s.retired
    /\ work = << >> /\ est = [e \in Events |-> "none"]
    /\ due = [e \in Events |-> 0] /\ res = [e \in Events |-> "none"]
    /\ run = "none" /\ rstep = "idle" /\ walk = "idle"
    /\ ipc = IF "invalidate" \in s.who THEN "none" ELSE "done"
    /\ dpc = IF "detach" \in s.who THEN "none" ELSE "never"
    /\ its = 0 /\ clean = FALSE
    /\ wpc = [w \in Waiters |-> IF w \in s.who THEN "none" ELSE "done"]

-----------------------------------------------------------------------------
(* Timestamps *)

Reg(n) == n % (2 * Window)

(* timestamp_cmp: 0, 1 or -1 as register a is at, after or before b.        *)
Bug_TsCmp(a, b) == IF a = b THEN 0 ELSE IF a > b THEN 1 ELSE -1
TsCmp(a, b) ==
    LET u == (a + Window) % (2 * Window)
        v == (b + Window) % (2 * Window)
    IN  IF a = b THEN 0
        ELSE IF (a > b /\ a - b < Window) \/ (u > v /\ u - v <= Window) THEN 1
        ELSE -1

IsDue(d) == TsCmp(Reg(retired), Reg(d)) >= 0     \* kgsl_check_timestamp
ContextBad == detached \/ invalid                \* kgsl_context_is_bad

(* _do_process_group: retirement moved on, and did not slip back.           *)
Bug_MustProcess == Reg(retired) > Reg(processed)
MustProcess ==
    /\ Reg(processed) # Reg(retired)
    /\ ~(Reg(retired) < Reg(processed) /\ Reg(processed) - Reg(retired) < Window)

(* Commands are queued, handed to the GPU and retired.                      *)
QueueTs == /\ ~ContextBad /\ queued < MaxTs /\ queued' = queued + 1
           /\ UNCHANGED <<sent, retired, userTs, detached, invalid, wref,
                          groupVars, eventVars, runVars, walk, endVars, wpc>>
SendTs == /\ ~ContextBad /\ sent < queued /\ sent' = sent + 1
          /\ UNCHANGED <<queued, retired, userTs, detached, invalid, wref,
                         groupVars, eventVars, runVars, walk, endVars, wpc>>
RetireTs == /\ ~invalid /\ retired < sent /\ retired' \in retired + 1 .. sent
            /\ UNCHANGED <<queued, sent, userTs, detached, invalid, wref,
                           groupVars, eventVars, runVars, walk, endVars, wpc>>

-----------------------------------------------------------------------------
(* The event list, under group->lock *)

Listed(e) == e \in ToSet(list)

(* signal_event for the events of S: off the list, to the worker.           *)
Signal(S, result) ==
    LET hit == SelectSeq(list, LAMBDA e : e \in S)
    IN  /\ list' = SelectSeq(list, LAMBDA e : e \notin S)
        /\ work' = work \o hit
        /\ est' = [e \in Events |-> IF e \in ToSet(hit) THEN "work" ELSE est[e]]
        /\ res' = [e \in Events |-> IF e \in ToSet(hit) THEN result[e] ELSE res[e]]
Cancel(S) == Signal(S, [e \in Events |-> Cancelled])

(* kgsl_add_event refuses what has not been queued, unless the user makes   *)
(* the timestamps, and takes a reference for the event.                     *)
Bug_MayAdd(d) == TRUE
MayAdd(d) == userTs \/ TsCmp(Reg(d), Reg(queued)) <= 0
AllocEvent(e) == /\ est' = [est EXCEPT ![e] = "ready"] /\ wref' = wref + 1
                 /\ UNCHANGED <<tsVars, detached, invalid, groupVars, work, due,
                                res, runVars, walk, endVars>>

(* Under the lock: an event that is already due goes to the worker.         *)
DueAtOnce(e) == IsDue(due[e])
InsertEvent(e) ==
    /\ IF DueAtOnce(e)
         THEN /\ est' = [est EXCEPT ![e] = "work"]
              /\ res' = [res EXCEPT ![e] = Retired]
              /\ work' = Append(work, e) /\ UNCHANGED list
         ELSE /\ est' = [est EXCEPT ![e] = "listed"]
              /\ list' = Append(list, e) /\ UNCHANGED <<res, work>>
    /\ UNCHANGED <<tsVars, detached, invalid, wref, group, processed, due,
                   runVars, walk, endVars>>

(* kgsl_process_event_groups walks the groups under event_groups_lock, with *)
(* a reference on each context.  A call that finds nothing new is left out. *)
ProcessStart ==
    /\ walk = "idle" /\ group /\ wref > 0 /\ processed # retired
    /\ walk' = "walk" /\ wref' = wref + 1
    /\ UNCHANGED <<tsVars, detached, invalid, groupVars, eventVars, runVars,
                   endVars, wpc>>
Bug_DueEvents == {e \in ToSet(list) : TsCmp(Reg(due[e]), Reg(queued)) <= 0}
DueEvents == {e \in ToSet(list) : TsCmp(Reg(due[e]), Reg(retired)) <= 0}
Process ==
    /\ walk = "walk" /\ walk' = "idle" /\ wref' = wref - 1
    /\ IF MustProcess
         THEN /\ Signal(DueEvents, [e \in Events |-> Retired])
              /\ processed' = retired
         ELSE UNCHANGED <<list, work, est, res, processed>>
    /\ UNCHANGED <<tsVars, detached, invalid, group, due, runVars, endVars,
                   wpc>>

-----------------------------------------------------------------------------
(* The worker: _kgsl_event_worker *)

WorkStart ==
    /\ run = "none" /\ work # << >>
    /\ run' = Head(work) /\ work' = Tail(work) /\ rstep' = "call"
    /\ est' = [est EXCEPT ![Head(work)] = "running"]
    /\ UNCHANGED <<tsVars, detached, invalid, wref, groupVars, due, res, walk,
                   endVars, wpc>>
EndEvent ==                  \* after the callback: put the context, free the event
    /\ rstep' = "idle" /\ run' = "none" /\ wref' = wref - 1
    /\ est' = [est EXCEPT ![run] = "done"]

(* wake_up_all(&drawctxt->waiting)                                          *)
Woken == [w \in Waiters |-> IF wpc[w] = "asleep" THEN "awake" ELSE wpc[w]]
WaitCallback ==
    /\ rstep = "call" /\ run \in Waiters /\ wpc' = Woken /\ EndEvent
    /\ UNCHANGED <<tsVars, detached, invalid, groupVars, work, due, res, walk,
                   endVars>>

-----------------------------------------------------------------------------
(* A thread in adreno_drawctxt_wait                                         *)

WaitReturns(w) == wpc' = [wpc EXCEPT ![w] = "done"] /\ wref' = wref - 1
WaitEnter(w) ==
    /\ wpc[w] = "none" /\ ~ContextBad
    /\ \E d \in WaitChoices : due' = [due EXCEPT ![w] = d]
    /\ wpc' = [wpc EXCEPT ![w] = "add"] /\ wref' = wref + 1
    /\ UNCHANGED <<tsVars, detached, invalid, groupVars, work, est, res, runVars,
                   walk, endVars>>
WaitAdd(w) ==
    /\ wpc[w] = "add" /\ MayAdd(due[w]) /\ AllocEvent(w)
    /\ wpc' = [wpc EXCEPT ![w] = "insert"]
WaitRefused(w) ==
    /\ wpc[w] = "add" /\ ~MayAdd(due[w]) /\ WaitReturns(w)
    /\ UNCHANGED <<tsVars, detached, invalid, groupVars, eventVars, runVars,
                   walk, endVars>>
WaitInsert(w) ==
    /\ wpc[w] = "insert" /\ InsertEvent(w)
    /\ wpc' = [wpc EXCEPT ![w] = "awake"]

(* Woken, or about to sleep, it looks: _check_context_timestamp.            *)
WaitOver(w) == ContextBad \/ IsDue(due[w])
WaitLook(w) ==
    /\ wpc[w] = "awake"
    /\ IF WaitOver(w) THEN WaitReturns(w)
       ELSE wpc' = [wpc EXCEPT ![w] = "asleep"] /\ UNCHANGED wref
    /\ UNCHANGED <<tsVars, detached, invalid, groupVars, eventVars, runVars,
                   walk, endVars>>

(* A timeout or a signal: the waiter takes its event back, which            *)
(* kgsl_cancel_event finds by timestamp, function and context.              *)
WaitTimeout(w) ==
    /\ wpc[w] = "asleep" /\ ~WaitOver(w) /\ wpc' = [wpc EXCEPT ![w] = "cancel"]
    /\ UNCHANGED <<tsVars, detached, invalid, wref, groupVars, eventVars, runVars,
                   walk, endVars>>
SameEvents(d, S) == SelectSeq(list, LAMBDA e : e \in S /\ Reg(due[e]) = Reg(d))
Bug_CancelEvent(d, S) == Cancel(ToSet(SameEvents(d, S)))
CancelEvent(d, S) ==
    Cancel({e \in Events : SameEvents(d, S) # << >> /\ e = Head(SameEvents(d, S))})
WaitCancel(w) ==
    /\ wpc[w] = "cancel" /\ CancelEvent(due[w], Waiters)
    /\ WaitReturns(w)
    /\ UNCHANGED <<tsVars, detached, invalid, group, processed, due, runVars, walk,
                   endVars>>

-----------------------------------------------------------------------------
(* adreno_drawctxt_invalidate: a command of the context was guilty.  The    *)
(* command's own reference keeps the context alive meanwhile.               *)

InvalidateMark ==
    /\ ipc = "none" /\ wref > 0 /\ retired < sent
    /\ invalid' = TRUE /\ retired' = queued /\ wref' = wref + 1
    /\ ipc' = "cancel" /\ its' = IF detached THEN queued + 1 ELSE sent + 1
    /\ UNCHANGED <<queued, sent, userTs, detached, groupVars, eventVars, runVars,
                   walk, dpc, clean, wpc>>
InvalidateCancel ==
    /\ ipc = "cancel" /\ its <= queued /\ its' = its + 1
    /\ Cancel({e \in Events : Reg(due[e]) = Reg(its)})
    /\ UNCHANGED <<tsVars, detached, invalid, wref, group, processed, due, runVars,
                   walk, ipc, dpc, clean, wpc>>
FlushEvents == ToSet(list)
InvalidateFlush ==
    /\ ipc = "cancel" /\ its > queued /\ ipc' = "wake"
    /\ Signal(FlushEvents,
              [e \in Events |-> IF e \in DueEvents THEN Retired ELSE Cancelled])
    /\ processed' = retired
    /\ UNCHANGED <<tsVars, detached, invalid, wref, group, due, runVars, walk, its,
                   dpc, clean, wpc>>
InvalidateWake ==
    /\ ipc = "wake" /\ ipc' = "done" /\ wpc' = Woken /\ wref' = wref - 1
    /\ UNCHANGED <<tsVars, detached, invalid, groupVars, eventVars, runVars, walk,
                   its, dpc, clean>>

(* kgsl_context_detach, one action for each stretch between locks and waits *)
DetachMark ==
    /\ dpc = "none" /\ detached' = TRUE /\ dpc' = "wait"
    /\ UNCHANGED <<tsVars, invalid, wref, groupVars, eventVars, runVars, walk, ipc,
                   its, clean, wpc>>

(* wait_for_timestamp_rb: the GPU is done with the context, all it queued   *)
(* counts as retired; or the wait fails, and 5 seconds go by, or less.      *)
(* Then the waiters are woken.                                              *)
DetachWaited ==
    /\ dpc = "wait" /\ (invalid \/ retired = sent)
    /\ retired' = queued /\ clean' = TRUE /\ dpc' = "cancel" /\ wpc' = Woken
    /\ UNCHANGED <<queued, sent, userTs, detached, invalid, wref, groupVars,
                   eventVars, runVars, walk, ipc, its>>
DetachTimeout ==
    /\ dpc = "wait" /\ ~invalid /\ retired < sent
    /\ dpc' = "cancel" /\ wpc' = Woken
    /\ UNCHANGED <<tsVars, detached, invalid, wref, groupVars, eventVars, runVars,
                   walk, ipc, its, clean>>
Bug_DetachCancel ==
    /\ dpc = "cancel" /\ dpc' = "delete"
    /\ UNCHANGED <<tsVars, detached, invalid, wref, groupVars, eventVars, runVars,
                   walk, ipc, its, clean, wpc>>
DetachCancel ==
    /\ dpc = "cancel" /\ dpc' = "delete" /\ Cancel(Events)
    /\ UNCHANGED <<tsVars, detached, invalid, wref, group, processed, due, runVars,
                   walk, ipc, its, clean, wpc>>

(* kgsl_del_event_group takes the lock the processor walks under.           *)
DetachDelete ==
    /\ dpc = "delete" /\ walk = "idle" /\ group' = FALSE /\ dpc' = "put"
    /\ UNCHANGED <<tsVars, detached, invalid, wref, list, processed, eventVars,
                   runVars, walk, ipc, its, clean, wpc>>
DetachPut ==
    /\ dpc = "put" /\ dpc' = "done" /\ wref' = wref - 1
    /\ UNCHANGED <<tsVars, detached, invalid, groupVars, eventVars, runVars, walk,
                   ipc, its, clean, wpc>>

-----------------------------------------------------------------------------
(* What a thread does once it has begun, time-outs of waiters excepted.     *)
WaiterGoesOn(w) == \/ WaitAdd(w) \/ WaitRefused(w) \/ WaitInsert(w) \/ WaitLook(w)
                   \/ WaitCancel(w)
InvalidateGoesOn == InvalidateCancel \/ InvalidateFlush \/ InvalidateWake
DetachGoesOn == \/ DetachWaited \/ DetachTimeout \/ DetachCancel \/ DetachDelete
                \/ DetachPut
EventNext ==
    \/ QueueTs \/ SendTs \/ RetireTs
    \/ ProcessStart \/ Process
    \/ WorkStart \/ WaitCallback
    \/ \E w \in Waiters : WaitEnter(w) \/ WaitTimeout(w) \/ WaiterGoesOn(w)
    \/ InvalidateMark \/ InvalidateGoesOn \/ DetachMark \/ DetachGoesOn
===============================================================================
