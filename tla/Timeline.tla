------------------------------ MODULE Timeline ------------------------------
(***************************************************************************)
(* One timeline of kgsl_timeline.c: its value, the fences that wait for it,*)
(* the timeline objects of the context queues that will raise it, and its  *)
(* destruction, each with the locks and the references it takes.           *)
(*                                                                         *)
(* timeline->lock is held over some steps and so is a variable; fence_lock *)
(* and timelines_lock are held within a step.                              *)
(***************************************************************************)
EXTENDS Integers, Sequences, FiniteSetsExt

CONSTANTS
    Fences,      \* fences user space may ask for
    Objs,        \* timeline objects
    User,        \* the thread of IOCTL_KGSL_TIMELINE_SIGNAL
    Seqno,       \* the sequence number each object raises the timeline to
    MaxSeqno,    \* the largest sequence number user space names
    MaxSignals   \* how often user space signals the timeline

TimelineAssumption == Seqno \in [Objs -> 1 .. MaxSeqno] /\ User \notin Objs

VARIABLES
    value,     \* timeline->value
    listed,    \* the id is in device->timelines
    refs,      \* timeline->ref
    fences,    \* timeline->fences: the order is never used
    events,    \* timeline->events
    lock,      \* who holds timeline->lock over several steps, or "free"
    temp,      \* the fences that kgsl_timeline_signal took off the list
    doomed,    \* those that the destruction took off the list
    destroy,   \* where the destruction is: "no", "removed", "taken", "over"
    fence,     \* per fence: where it is, its references, seqno and outcome
    obj,       \* per timeline object: where it is, its event and its sig_refcount
    past,      \* objects whose context's timestamp has retired
    signals    \* per signaller: where it is, and the seqno; calls left

vars == <<value, listed, refs, fences, events, lock, temp, doomed, destroy,
          fence, obj, past, signals>>

Signallers == Objs \cup {User}
Asleep == [at |-> "no", seqno |-> 0]

Init ==
    /\ value = 0 /\ listed = TRUE /\ refs = 1
    /\ fences = {} /\ events = <<>>
    /\ lock = "free" /\ temp = {} /\ doomed = {} /\ destroy = "no"
    /\ fence = [f \in Fences |->
           [at |-> "no", refs |-> 0, seqno |-> 0, signalled |-> FALSE, error |-> FALSE]]
    /\ obj = [o \in Objs |-> [at |-> "no", told |-> FALSE, sigrefs |-> 0]]
    /\ past = {}
    /\ signals = [left |-> MaxSignals, who |-> [w \in Signallers |-> Asleep]]

Free == lock = "free"

\* dma_fence_put: the one that puts the last reference frees the fence.
Put(r) == [r EXCEPT !.refs = @ - 1, !.at = IF r.refs = 1 THEN "dying" ELSE @]

Dropped(r) == Put([r EXCEPT !.at = "held"])

-----------------------------------------------------------------------------
(* Fences: IOCTL_KGSL_TIMELINE_FENCE_GET and what becomes of the file.     *)

\* kgsl_timeline_by_id
FenceLooksUp(f) ==
    /\ fence[f].at = "no" /\ listed
    /\ fence' = [fence EXCEPT ![f].at = "called"]
    /\ refs' = refs + 1
    /\ UNCHANGED <<value, listed, fences, events, lock, temp, doomed, destroy,
                   obj, past, signals>>

Passed(s) == s <= value

Bug_Joins(f, s) == IF s < value THEN fences ELSE fences \cup {f}

\* Checked and added under timeline->lock: no signal comes in between.
Joins(f, s) == IF Passed(s) THEN fences ELSE fences \cup {f}

\* kgsl_timeline_fence_alloc; the fence has a reference of the timeline.
FenceAlloc(f) ==
    /\ fence[f].at = "called" /\ Free
    /\ \E s \in 1 .. MaxSeqno :
        /\ fence' = [fence EXCEPT ![f].at = "made", ![f].refs = 1, ![f].seqno = s,
                                  ![f].signalled = Passed(s)]
        /\ fences' = Joins(f, s)
    /\ refs' = refs + 1
    /\ UNCHANGED <<value, listed, events, lock, temp, doomed, destroy, obj, past,
                   signals>>

\* The file takes a reference of its own, or is not made; the call's are put.
FenceGetEnds(f) ==
    /\ fence[f].at = "made"
    /\ \/ fence' = [fence EXCEPT ![f].at = "file"]
       \/ fence' = [fence EXCEPT ![f] = Dropped(@)]
    /\ refs' = refs - 1
    /\ UNCHANGED <<value, listed, fences, events, lock, temp, doomed, destroy,
                   obj, past, signals>>

FileCloses(f) ==
    /\ fence[f].at = "file"
    /\ fence' = [fence EXCEPT ![f] = Dropped(@)]
    /\ UNCHANGED <<value, listed, refs, fences, events, lock, temp, doomed,
                   destroy, obj, past, signals>>

\* dma_fence_is_signaled by the holder of the file signals a fence it finds
\* passed.
Poll(f) ==
    /\ fence[f].at = "file" /\ Free
    /\ Passed(fence[f].seqno) /\ ~fence[f].signalled
    /\ fence' = [fence EXCEPT ![f].signalled = TRUE]
    /\ UNCHANGED <<value, listed, refs, fences, events, lock, temp, doomed,
                   destroy, obj, past, signals>>

\* timeline_fence_release, some time after the last reference is put
Release(f) ==
    /\ fence[f].at = "dying"
    /\ fence' = [fence EXCEPT ![f].at = "freed"]
    /\ fences' = fences \ {f}
    /\ refs' = refs - 1
    /\ UNCHANGED <<value, listed, events, lock, temp, doomed, destroy, obj, past,
                   signals>>

-----------------------------------------------------------------------------
(* Timeline objects: made with a command, popped by the scheduler, and     *)
(* told when the timestamps before them have retired.                      *)

\* kgsl_drawobj_add_timeline: one sig_refcount for the queue, one for the
\* event.
ObjCreate(o) ==
    /\ obj[o].at = "no" /\ listed
    /\ obj' = [obj EXCEPT ![o] = [at |-> "queued", told |-> FALSE, sigrefs |-> 2]]
    /\ refs' = refs + 1
    /\ UNCHANGED <<value, listed, fences, events, lock, temp, doomed, destroy,
                   fence, past, signals>>

Bug_Insert(o) == Append(events, o)

\* kgsl_timeline_add_signal keeps the list sorted by seqno
Insert(o) ==
    LET before == SelectSeq(events, LAMBDA e : Seqno[e] <= Seqno[o])
        after == SelectSeq(events, LAMBDA e : Seqno[e] > Seqno[o])
    IN  before \o <<o>> \o after

\* timelineobj_destroy, called when the object is popped
ObjPopped(o) ==
    /\ obj[o].at = "queued" /\ Free
    /\ obj' = [obj EXCEPT ![o].at = "popped"]
    /\ events' = IF Passed(Seqno[o]) THEN events ELSE Insert(o)
    /\ UNCHANGED <<value, listed, refs, fences, lock, temp, doomed, destroy,
                   fence, past, signals>>

\* kgsl_timelineobj_signal: the last put begins to signal the timeline.
SigPut(o, after) ==
    /\ obj' = [obj EXCEPT ![o] = [after EXCEPT !.sigrefs = @ - 1]]
    /\ signals' = IF obj[o].sigrefs > 1 THEN signals
                  ELSE [signals EXCEPT !.who[o] = [at |-> "ready", seqno |-> Seqno[o]]]

ObjPut(o) ==
    /\ obj[o].at = "popped"
    /\ SigPut(o, [obj[o] EXCEPT !.at = "gone"])
    /\ UNCHANGED <<value, listed, refs, fences, events, lock, temp, doomed, destroy,
                   fence, past>>

\* The timestamp before the object retires; its event fires some time later.
Retire(o) ==
    /\ obj[o].at # "no" /\ o \notin past
    /\ past' = past \cup {o}
    /\ UNCHANGED <<value, listed, refs, fences, events, lock, temp, doomed, destroy,
                   fence, obj, signals>>

\* _timeline_signaled
ObjTold(o) ==
    /\ o \in past /\ ~obj[o].told
    /\ SigPut(o, [obj[o] EXCEPT !.told = TRUE])
    /\ UNCHANGED <<value, listed, refs, fences, events, lock, temp, doomed, destroy,
                   fence, past>>

-----------------------------------------------------------------------------
(* kgsl_timeline_signal, called by user space and by retired objects.      *)

UserSignals ==
    /\ signals.who[User] = Asleep /\ signals.left > 0 /\ listed
    /\ \E s \in 1 .. MaxSeqno :
           signals' = [left |-> signals.left - 1,
                       who |-> [signals.who EXCEPT ![User] = [at |-> "ready", seqno |-> s]]]
    /\ refs' = refs + 1
    /\ UNCHANGED <<value, listed, fences, events, lock, temp, doomed, destroy,
                   fence, obj, past>>

Ready(w) == signals.who[w].at = "ready"

\* The caller puts its reference; the retired object also frees the events it
\* had on the timeline's list.
SignalReturns(w) ==
    /\ signals' = [signals EXCEPT !.who[w] =
           IF w = User THEN Asleep ELSE [@ EXCEPT !.at = "over"]]
    /\ refs' = refs - 1

Stale(s) == s < value

SignalTooLate(w) ==
    /\ Ready(w) /\ Free /\ Stale(signals.who[w].seqno)
    /\ SignalReturns(w)
    /\ UNCHANGED <<value, listed, fences, events, lock, temp, doomed, destroy,
                   fence, obj, past>>

\* The walk over the sorted events stops at the first that is not reached.
Later(s) ==
    LET beyond == {i \in 1 .. Len(events) : Seqno[events[i]] > s}
    IN  IF beyond = {} THEN <<>> ELSE SubSeq(events, Min(beyond), Len(events))

Bug_Held(f) == TRUE

\* kref_get_unless_zero: a fence whose last reference was put is being freed.
Held(f) == fence[f].refs > 0

Due(s) == {f \in fences : fence[f].seqno <= s /\ Held(f)}

Got(set) == [f \in Fences |->
                IF f \in set THEN [fence[f] EXCEPT !.refs = @ + 1] ELSE fence[f]]

SignalTakes(w) ==
    LET s == signals.who[w].seqno
    IN  /\ Ready(w) /\ Free /\ ~Stale(s)
        /\ value' = s
        /\ events' = Later(s)
        /\ temp' = Due(s) /\ fences' = fences \ Due(s)
        /\ fence' = Got(Due(s))
        /\ lock' = w
    /\ UNCHANGED <<listed, refs, doomed, destroy, obj, past, signals>>

\* Still under timeline->lock the fences are signalled and put.
SignalEnds(w) ==
    /\ lock = w
    /\ fence' = [f \in Fences |->
           IF f \in temp THEN Put([fence[f] EXCEPT !.signalled = TRUE])
           ELSE fence[f]]
    /\ temp' = {} /\ lock' = "free"
    /\ SignalReturns(w)
    /\ UNCHANGED <<value, listed, fences, events, doomed, destroy, obj, past>>

-----------------------------------------------------------------------------
(* kgsl_ioctl_timeline_destroy                                             *)

DestroyRemoves ==
    /\ destroy = "no"
    /\ destroy' = "removed" /\ listed' = FALSE
    /\ UNCHANGED <<value, refs, fences, events, lock, temp, doomed, fence, obj, past,
                   signals>>

\* Under fence_lock alone: every fence leaves the list, those being freed too.
DestroyTakes ==
    /\ destroy = "removed"
    /\ destroy' = "taken"
    /\ doomed' = {f \in fences : Held(f)}
    /\ fence' = Got(doomed')
    /\ fences' = {}
    /\ UNCHANGED <<value, listed, refs, events, lock, temp, obj, past, signals>>

DestroyEnds ==
    /\ destroy = "taken" /\ Free
    /\ destroy' = "over"
    /\ fence' = [f \in Fences |->
           IF f \in doomed
           THEN Put([fence[f] EXCEPT !.error = TRUE, !.signalled = TRUE])
           ELSE fence[f]]
    /\ doomed' = {}
    /\ refs' = refs - 1
    /\ UNCHANGED <<value, listed, fences, events, lock, temp, obj, past, signals>>

Next ==
    \/ \E f \in Fences :
        FenceLooksUp(f) \/ FenceAlloc(f) \/ FenceGetEnds(f) \/ FileCloses(f)
            \/ Poll(f) \/ Release(f)
    \/ \E o \in Objs :
        ObjCreate(o) \/ ObjPopped(o) \/ ObjPut(o) \/ Retire(o) \/ ObjTold(o)
    \/ UserSignals
    \/ \E w \in Signallers : SignalTooLate(w) \/ SignalTakes(w) \/ SignalEnds(w)
    \/ DestroyRemoves \/ DestroyTakes \/ DestroyEnds

Spec == Init /\ [][Next]_vars

-----------------------------------------------------------------------------
(* Properties.                                                             *)

\* Who holds a reference of the timeline: its id, the calls under way, the
\* fences and the timeline objects that have not signalled.
Holders ==
    LET one(b) == IF b THEN 1 ELSE 0
    IN  one(destroy # "over")
        + Cardinality({f \in Fences : fence[f].at \in {"called", "made"}})
        + Cardinality({f \in Fences : fence[f].at \notin {"no", "called", "freed"}})
        + Cardinality({o \in Objs : obj[o].at # "no" /\ signals.who[o].at # "over"})
        + one(signals.who[User] # Asleep)

\* What a fence's references are held by
FenceHolders(f) ==
    LET one(b) == IF b THEN 1 ELSE 0
    IN  one(fence[f].at \in {"made", "file"}) + one(f \in temp) + one(f \in doomed)

\* The timeline is freed with its last user and then has no fence and no
\* event, as kgsl_timeline_destroy warns; no list holds what was freed, and a
\* fence that is being freed is not brought back.
NothingFreedIsListed ==
    /\ refs = Holders
    /\ refs = 0 => fences = {} /\ events = <<>>
    /\ \A i \in 1 .. Len(events) : signals.who[events[i]].at # "over"
    /\ \A f \in Fences :
        /\ fence[f].refs = FenceHolders(f)
        /\ f \in fences \cup temp \cup doomed => fence[f].at \notin {"no", "freed"}

\* A fence is signalled without an error only when its timeline has come to
\* it, and a fence that has a holder never waits for what has passed: the
\* check for it and its place on the list, the signals and the destruction
\* may come in any order.
FencesFollow ==
    \A f \in Fences :
        /\ fence[f].signalled /\ ~fence[f].error => fence[f].seqno <= value
        /\ Free /\ f \in fences /\ Held(f) => fence[f].seqno > value

\* What IOCTL_KGSL_TIMELINE_QUERY answers: the last event that has retired
\* already, or the value.
Answer ==
    LET done == {i \in 1 .. Len(events) : events[i] \in past}
    IN  IF done = {} THEN value ELSE Seqno[events[Max(done)]]

\* The timeline is kept for whoever uses it and its fences follow its value.
\* Queries never go back, as the comment in the query says: an object that
\* retires, is signalled and leaves the list keeps its place in the answers.
StepKept == NothingFreedIsListed' /\ FencesFollow' /\ Answer' >= Answer
=============================================================================
