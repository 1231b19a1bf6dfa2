----------------------------- MODULE SyncFences -----------------------------
(***************************************************************************)
(* The fences of kgsl_sync.c: those of a context's timestamps, which the   *)
(* events of the context signal, and those of a sync source, which its     *)
(* process signals.  A behaviour has fences of one kind.                   *)
(*                                                                         *)
(* Threads make fences while timestamps retire, the context is detached or *)
(* the source destroyed, files are closed and a fence's timeline is read   *)
(* for the log.  ktimeline->lock, syncsource->lock, syncsource_lock and    *)
(* the lock of the event group are held within a step.                     *)
(***************************************************************************)
EXTENDS Integers, FiniteSets

CONSTANTS
    Fences,     \* bound: the fences made
    Creators,   \* threads that make them
    Removers,   \* threads that destroy or signal
    Scenes      \* kind of the fences; log, whether their timeline is read for the
                \* log; maxTs, bound: timestamps queued

SyncFencesAssumption ==
    /\ IsFiniteSet(Fences) /\ IsFiniteSet(Creators) /\ IsFiniteSet(Removers)
    /\ Scenes \subseteq [kind : {"timeline", "source"}, log : BOOLEAN, maxTs : Nat]

VARIABLES
    scene,
    gpu,        \* queued and retired timestamps of the context; user, it makes its own
    context,    \* at: live, detached, drained, cancelled, alone (off its timeline),
                \* left (by the detach), gone; refs
    ktimeline,  \* refs; context, its pointer is set; last_timestamp
    source,     \* at: id (in the idr), taken, over (its fences signalled), gone; refs
    children,   \* the child list of either
    fence,      \* at: none, made, released (no refs),
                \* signal, freed; refs; ts; signalled;
                \* fd, its file: no, open, closed; late, listed when the source was over
    creator,    \* per thread: at, its step; f
    event,      \* of the fence made: at: none, pending, due, over; ts
    dump,       \* timeline_value_str, at: idle, timeline, context, over; f
    remover     \* per thread: at, its step; f

vars == <<scene, gpu, context, ktimeline, source, children, fence, creator, event, dump, remover>>

NoFence == [at |-> "none", refs |-> 0, ts |-> 0, signalled |-> FALSE, fd |-> "no", late |-> FALSE]
NoCall == [at |-> "idle", f |-> CHOOSE f \in Fences : TRUE]
NoEvent == [at |-> "none", ts |-> 0]

Init ==
    /\ scene \in Scenes
    /\ \E user \in IF scene.kind = "timeline" THEN BOOLEAN ELSE {FALSE} :
         gpu = [queued |-> 0, retired |-> 0, user |-> user]
    \* kgsl_sync_timeline_create holds the context
    /\ context = [at |-> "live", refs |-> 2]
    /\ ktimeline = [refs |-> 1, context |-> TRUE, last_timestamp |-> 0]
    /\ source = [at |-> "id", refs |-> 1]
    /\ children = {} /\ fence = [f \in Fences |-> NoFence]
    /\ creator = [c \in Creators |-> NoCall]
    /\ event = [f \in Fences |-> NoEvent]
    /\ dump = NoCall
    /\ remover = [r \in Removers |-> NoCall]

-----------------------------------------------------------------------------
(* References                                                              *)

\* dma_fence_put n times: a fence without references is released
Putting(fs, f, n) ==
    [fs EXCEPT ![f].refs = @ - n, ![f].at = IF fs[f].refs = n THEN "released" ELSE @]
Free(fs, f) == [fs EXCEPT ![f].at = "freed"]

\* kgsl_context_put; kgsl_context_destroy puts the timeline
PutsContextAs(n, at) ==
    IF context.refs = n
    THEN /\ context' = [at |-> "gone", refs |-> 0]
         /\ ktimeline' = [ktimeline EXCEPT !.refs = @ - 1]
    ELSE context' = [at |-> at, refs |-> context.refs - n] /\ UNCHANGED ktimeline
PutsContext(n) == PutsContextAs(n, context.at)
GetsContext(n) == context' = [context EXCEPT !.refs = @ + n]

\* kgsl_syncsource_put
SourcePut(s) == [s EXCEPT !.refs = @ - 1, !.at = IF s.refs = 1 THEN "gone" ELSE @]

Goes(c, at) == creator' = [creator EXCEPT ![c].at = at]
Ends(c) == creator' = [creator EXCEPT ![c] = NoCall]
RGoes(r, at) == remover' = [remover EXCEPT ![r].at = at]

-----------------------------------------------------------------------------
(* The timeline of a context                                               *)

\* kgsl_sync_fence_has_signaled
Signalled(last) == {f \in children : fence[f].signalled \/ fence[f].ts <= last}

\* kgsl_sync_timeline_signal: the fences that have come leave the list, which
\* puts a reference.  The caller's reference of the context keeps the timeline.
Bigger(a, b) == IF a > b THEN a ELSE b
Leaves(fs, f) == Putting([fs EXCEPT ![f].signalled = TRUE], f, 1)
Signal(ts) ==
    LET last == Bigger(ts, ktimeline.last_timestamp)
        done == Signalled(last)
        left == [f \in Fences |-> IF f \in done THEN Leaves(fence, f)[f] ELSE fence[f]]
    IN  /\ ktimeline' = [ktimeline EXCEPT !.last_timestamp = last]
        /\ children' = children \ done
        /\ fence' = left

\* kgsl_add_fence_event
FenceStarts(c) ==
    /\ scene.kind = "timeline" /\ creator[c].at = "idle" /\ context.at = "live"
    /\ GetsContext(1) /\ Goes(c, "make")
    /\ UNCHANGED <<scene, gpu, ktimeline, source, children, fence, event, dump, remover>>

\* kgsl_sync_fence_create: the child list and the sync file have a reference
\* each, and the fence one of the timeline.
FenceMade(c) ==
    /\ creator[c].at = "make"
    /\ \E f \in Fences, ts \in 1 .. scene.maxTs :
        /\ fence[f].at = "none"
        /\ fence' = [fence EXCEPT ![f] = [@ EXCEPT !.at = "made", !.refs = 2, !.ts = ts]]
        /\ children' = children \cup {f}
        /\ creator' = [creator EXCEPT ![c] = [at |-> "fd", f |-> f]]
    /\ ktimeline' = [ktimeline EXCEPT !.refs = @ + 1]
    /\ UNCHANGED <<scene, gpu, context, source, event, dump, remover>>
FenceNotMade(c) ==
    /\ creator[c].at = "make"
    /\ PutsContext(1) /\ Ends(c)
    /\ UNCHANGED <<scene, gpu, source, children, fence, event, dump, remover>>

Retired(f) == gpu.retired >= fence[f].ts
NoFd(c) ==
    /\ creator[c].at = "fd"
    /\ Goes(c, "fail")
    /\ UNCHANGED <<scene, gpu, context, ktimeline, source, children, fence, event, dump, remover>>
ReadsRetired(c) ==
    /\ creator[c].at = "fd" /\ ~Retired(creator[c].f)
    /\ Goes(c, "event")
    /\ UNCHANGED <<scene, gpu, context, ktimeline, source, children, fence, event, dump, remover>>
SignalsRetired(c) ==
    /\ creator[c].at = "fd" /\ Retired(creator[c].f)
    /\ Signal(gpu.retired) /\ Goes(c, "copy")
    /\ UNCHANGED <<scene, gpu, context, source, event, dump, remover>>

\* _add_fence_event and kgsl_add_event, which looks at the retired timestamp
\* once more under the lock of the group
MayAdd(ts) == gpu.user \/ ts <= gpu.queued
AddEvent(c) ==
    LET f == creator[c].f IN
    /\ creator[c].at = "event" /\ MayAdd(fence[f].ts)
    /\ event' = [event EXCEPT ![f] = [at |-> IF Retired(f) THEN "due" ELSE "pending",
                                      ts |-> fence[f].ts]]
    /\ GetsContext(2) /\ Goes(c, "copy")
    /\ UNCHANGED <<scene, gpu, ktimeline, source, children, fence, dump, remover>>
AddEventFails(c) ==
    /\ creator[c].at = "event"
    /\ Goes(c, "fail")
    /\ UNCHANGED <<scene, gpu, context, ktimeline, source, children, fence, event, dump, remover>>

\* copy_to_user may fail; create_hw_fence signals the fence if its timestamp
\* has retired meanwhile
CopyFails(c) ==
    /\ creator[c].at = "copy"
    /\ Goes(c, "fail")
    /\ UNCHANGED <<scene, gpu, context, ktimeline, source, children, fence, event, dump, remover>>
HwFence(c) ==
    LET f == creator[c].f IN
    /\ creator[c].at = "copy" /\ event[f].at # "none" /\ Retired(f)
    /\ Signal(fence[f].ts) /\ Goes(c, "install")
    /\ UNCHANGED <<scene, gpu, context, source, event, dump, remover>>
Copied(c) ==
    /\ creator[c].at = "copy"
    /\ Goes(c, "install")
    /\ UNCHANGED <<scene, gpu, context, ktimeline, source, children, fence, event, dump, remover>>
Installed(c) ==
    /\ creator[c].at = "install"
    /\ fence' = [fence EXCEPT ![creator[c].f].fd = "open"]
    /\ Goes(c, "put")
    /\ UNCHANGED <<scene, gpu, context, ktimeline, source, children, event, dump, remover>>
FenceEnds(c) ==
    /\ creator[c].at \in {"put", "fail"}
    /\ PutsContext(1)
    /\ IF creator[c].at = "put" THEN Ends(c) ELSE Goes(c, "cancel")
    /\ UNCHANGED <<scene, gpu, source, children, fence, event, dump, remover>>

\* kgsl_sync_cancel, unless the fence was signalled; then the sync file is put
Bug_Cancel(c) ==
    /\ creator[c].at = "cancel"
    /\ children' = children \ {creator[c].f}
    /\ fence' = Putting(fence, creator[c].f, 1)
    /\ Goes(c, "fput")
    /\ UNCHANGED <<scene, gpu, context, ktimeline, source, event, dump, remover>>
Cancel(c) ==
    LET f == creator[c].f IN
    /\ creator[c].at = "cancel"
    /\ IF f \in children
       THEN children' = children \ {f} /\ fence' = Putting(fence, f, 1)
       ELSE UNCHANGED <<children, fence>>
    /\ Goes(c, "fput")
    /\ UNCHANGED <<scene, gpu, context, ktimeline, source, event, dump, remover>>
Fput(c) ==
    /\ creator[c].at = "fput"
    /\ fence' = Putting(fence, creator[c].f, 1)
    /\ Ends(c)
    /\ UNCHANGED <<scene, gpu, context, ktimeline, source, children, event, dump, remover>>

\* kgsl_sync_fence_release
FenceReleased(f) ==
    /\ scene.kind = "timeline" /\ fence[f].at = "released"
    /\ fence' = Free(fence, f)
    /\ ktimeline' = [ktimeline EXCEPT !.refs = @ - 1]
    /\ UNCHANGED <<scene, gpu, context, source, children, creator, event, dump, remover>>

\* Commands are queued and retire; _process_event_group finds what is due.
Queue ==
    /\ scene.kind = "timeline" /\ context.at = "live" /\ gpu.queued < scene.maxTs
    /\ gpu' = [gpu EXCEPT !.queued = @ + 1]
    /\ UNCHANGED <<scene, context, ktimeline, source, children, fence, creator, event, dump, remover>>
Retire ==
    /\ gpu.retired < gpu.queued
    /\ gpu' = [gpu EXCEPT !.retired = @ + 1]
    /\ UNCHANGED <<scene, context, ktimeline, source, children, fence, creator, event, dump, remover>>
Grouped == context.at \in {"live", "detached", "drained"}
ProcessEvent(f) ==
    /\ event[f].at = "pending" /\ Grouped /\ event[f].ts <= gpu.retired
    /\ event' = [event EXCEPT ![f].at = "due"]
    /\ UNCHANGED <<scene, gpu, context, ktimeline, source, children, fence, creator, dump, remover>>

\* kgsl_sync_fence_event_cb; it and the events worker put the context
EventSignals(f) ==
    /\ event[f].at = "due"
    /\ Signal(event[f].ts)
    /\ event' = [event EXCEPT ![f].at = "over"]
    /\ UNCHANGED <<scene, gpu, context, source, creator, dump, remover>>
EventPuts(f) ==
    /\ event[f].at = "over"
    /\ PutsContext(2)
    /\ event' = [event EXCEPT ![f] = NoEvent]
    /\ UNCHANGED <<scene, gpu, source, children, fence, creator, dump, remover>>

\* kgsl_context_detach, by the ioctl with a reference of its own: the commands
\* finish, the events are cancelled and their group is no longer looked at,
\* the timeline lets the context go, and the master reference is put.
DetachMarks ==
    /\ scene.kind = "timeline" /\ context.at = "live"
    /\ context' = [at |-> "detached", refs |-> context.refs + 1]
    /\ UNCHANGED <<scene, gpu, ktimeline, source, children, fence, creator, event, dump, remover>>
DetachDrains ==
    /\ context.at = "detached" /\ gpu.retired = gpu.queued
    /\ context' = [context EXCEPT !.at = "drained"]
    /\ UNCHANGED <<scene, gpu, ktimeline, source, children, fence, creator, event, dump, remover>>
DetachCancels ==
    /\ context.at = "drained"
    /\ event' = [f \in Fences |-> IF event[f].at = "pending" THEN [event[f] EXCEPT !.at = "due"]
                                  ELSE event[f]]
    /\ context' = [context EXCEPT !.at = "cancelled"]
    /\ UNCHANGED <<scene, gpu, ktimeline, source, children, fence, creator, dump, remover>>
TimelineDetach ==
    /\ context.at = "cancelled"
    /\ ktimeline' = [ktimeline EXCEPT !.context = FALSE]
    /\ context' = [at |-> "alone", refs |-> context.refs - 1]
    /\ UNCHANGED <<scene, gpu, source, children, fence, creator, event, dump, remover>>
DetachPuts ==
    /\ context.at = "alone"
    /\ PutsContextAs(2, "left")
    /\ UNCHANGED <<scene, gpu, source, children, fence, creator, event, dump, remover>>

\* kgsl_sync_timeline_value_str of a fence the caller holds: it takes the
\* context from the timeline, if that still has it.
DumpStarts(f) ==
    /\ scene.log /\ dump.at = "idle" /\ fence[f].fd = "open"
    /\ fence' = [fence EXCEPT ![f].refs = @ + 1]
    /\ ktimeline' = [ktimeline EXCEPT !.refs = @ + 1]
    /\ dump' = [at |-> "timeline", f |-> f]
    /\ UNCHANGED <<scene, gpu, context, source, children, creator, event, remover>>
DumpGets ==
    /\ dump.at = "timeline"
    /\ IF ktimeline.context
       THEN GetsContext(1) /\ dump' = [dump EXCEPT !.at = "context"]
       ELSE dump' = [dump EXCEPT !.at = "over"] /\ UNCHANGED context
    /\ UNCHANGED <<scene, gpu, ktimeline, source, children, fence, creator, event, remover>>
DumpPutsContext ==
    /\ dump.at = "context"
    /\ PutsContext(1)
    /\ dump' = [dump EXCEPT !.at = "over"]
    /\ UNCHANGED <<scene, gpu, source, children, fence, creator, event, remover>>
DumpEnds ==
    /\ dump.at = "over"
    /\ ktimeline' = [ktimeline EXCEPT !.refs = @ - 1]
    /\ fence' = Putting(fence, dump.f, 1)
    /\ dump' = NoCall
    /\ UNCHANGED <<scene, gpu, context, source, children, creator, event, remover>>

\* The user closes the file.  Whoever looks at a fence before the signal
\* comes marks it if the timeline is there.
CloseFd(f) ==
    /\ fence[f].fd = "open"
    /\ fence' = Putting([fence EXCEPT ![f].fd = "closed"], f, 1)
    /\ UNCHANGED <<scene, gpu, context, ktimeline, source, children, creator, event, dump, remover>>
Poll(f) ==
    /\ scene.kind = "timeline" /\ fence[f].fd = "open" /\ fence[f].ts <= ktimeline.last_timestamp
    /\ fence' = [fence EXCEPT ![f].signalled = TRUE]
    /\ UNCHANGED <<scene, gpu, context, ktimeline, source, children, creator, event, dump, remover>>

-----------------------------------------------------------------------------
(* A sync source                                                           *)

\* kgsl_syncsource_get, of one in the idr
CanGetSource == source.at = "id" /\ source.refs > 0
SourceGet == source' = [source EXCEPT !.refs = @ + 1]

\* kgsl_ioctl_syncsource_create_fence: the reference of the source becomes the
\* fence's; the fence has one of its maker's and one of the sync file.
SfenceStarts(c) ==
    /\ scene.kind = "source" /\ creator[c].at = "idle" /\ CanGetSource
    /\ SourceGet /\ Goes(c, "smake")
    /\ UNCHANGED <<scene, gpu, context, ktimeline, children, fence, event, dump, remover>>
SfenceMade(c) ==
    /\ creator[c].at = "smake"
    /\ \E f \in Fences, refs \in {1, 2} :
        /\ fence[f].at = "none"
        /\ fence' = [fence EXCEPT ![f] = [@ EXCEPT !.at = "made", !.refs = refs]]
        /\ creator' = [creator EXCEPT ![c] = [at |-> IF refs = 2 THEN "sfd" ELSE "sput", f |-> f]]
    /\ UNCHANGED <<scene, gpu, context, ktimeline, source, children, event, dump, remover>>
SfenceNotMade(c) ==
    /\ creator[c].at = "smake"
    /\ source' = SourcePut(source) /\ Ends(c)
    /\ UNCHANGED <<scene, gpu, context, ktimeline, children, fence, event, dump, remover>>
SfenceNoFd(c) ==
    /\ creator[c].at = "sfd"
    /\ fence' = Putting(fence, creator[c].f, 2)
    /\ Ends(c)
    /\ UNCHANGED <<scene, gpu, context, ktimeline, source, children, event, dump, remover>>
SfenceInstalled(c) ==
    /\ creator[c].at = "sfd"
    /\ fence' = [fence EXCEPT ![creator[c].f].fd = "open"]
    /\ Goes(c, "list")
    /\ UNCHANGED <<scene, gpu, context, ktimeline, source, children, event, dump, remover>>
Over == source.at \in {"over", "gone"}
SfenceListed(c) ==
    LET f == creator[c].f IN
    /\ creator[c].at = "list"
    /\ children' = children \cup {f}
    /\ fence' = [fence EXCEPT ![f].late = Over]
    /\ Goes(c, "sput")
    /\ UNCHANGED <<scene, gpu, context, ktimeline, source, event, dump, remover>>
SfencePut(c) ==
    /\ creator[c].at = "sput"
    /\ fence' = Putting(fence, creator[c].f, 1)
    /\ Ends(c)
    /\ UNCHANGED <<scene, gpu, context, ktimeline, source, children, event, dump, remover>>

\* kgsl_syncsource_signal of one of the list
SourceSignal(f) ==
    IF f \in children
    THEN children' = children \ {f} /\ fence' = [fence EXCEPT ![f].signalled = TRUE]
    ELSE UNCHANGED <<children, fence>>

\* kgsl_syncsource_fence_release, which signals a fence nobody has
SfenceSignals(f) ==
    /\ scene.kind = "source" /\ fence[f].at = "released"
    /\ fence' = [fence EXCEPT ![f].at = "signal", ![f].signalled = @ \/ f \in children]
    /\ children' = children \ {f}
    /\ UNCHANGED <<scene, gpu, context, ktimeline, source, creator, event, dump, remover>>
SfenceFreed(f) ==
    /\ fence[f].at = "signal"
    /\ fence' = Free(fence, f)
    /\ source' = SourcePut(source)
    /\ UNCHANGED <<scene, gpu, context, ktimeline, children, creator, event, dump, remover>>

\* kgsl_ioctl_syncsource_signal_fence
SignalStarts(r) ==
    /\ scene.kind = "source" /\ remover[r].at = "idle" /\ CanGetSource
    /\ SourceGet /\ RGoes(r, "get")
    /\ UNCHANGED <<scene, gpu, context, ktimeline, children, fence, creator, event, dump>>
SignalGetsFence(r) ==
    /\ remover[r].at = "get"
    /\ \E f \in Fences :
        /\ fence[f].fd = "open"
        /\ fence' = [fence EXCEPT ![f].refs = @ + 1]
        /\ remover' = [remover EXCEPT ![r] = [at |-> "signal", f |-> f]]
    /\ UNCHANGED <<scene, gpu, context, ktimeline, source, children, creator, event, dump>>
SignalBadFd(r) ==
    /\ remover[r].at = "get"
    /\ RGoes(r, "put")
    /\ UNCHANGED <<scene, gpu, context, ktimeline, source, children, fence, creator, event, dump>>
SignalsFence(r) ==
    /\ remover[r].at = "signal"
    /\ SourceSignal(remover[r].f) /\ RGoes(r, "fput")
    /\ UNCHANGED <<scene, gpu, context, ktimeline, source, creator, event, dump>>
SignalPutsFence(r) ==
    /\ remover[r].at = "fput"
    /\ fence' = Putting(fence, remover[r].f, 1)
    /\ RGoes(r, "put")
    /\ UNCHANGED <<scene, gpu, context, ktimeline, source, children, creator, event, dump>>

\* kgsl_ioctl_syncsource_destroy, and the close of the process: who takes the
\* id out signals the fences and puts the reference of the creation.
Bug_FindsId == source.at # "gone"
FindsId == source.at = "id"
DestroyStarts(r) ==
    /\ scene.kind = "source" /\ remover[r].at = "idle" /\ FindsId
    /\ source' = [source EXCEPT !.at = "taken"]
    /\ RGoes(r, "cleanup")
    /\ UNCHANGED <<scene, gpu, context, ktimeline, children, fence, creator, event, dump>>
CleanupSignals(r) ==
    /\ remover[r].at = "cleanup"
    /\ fence' = [f \in Fences |-> IF f \in children THEN [fence[f] EXCEPT !.signalled = TRUE]
                                  ELSE fence[f]]
    /\ children' = {}
    /\ source' = [source EXCEPT !.at = "over"]
    /\ RGoes(r, "last")
    /\ UNCHANGED <<scene, gpu, context, ktimeline, creator, event, dump>>
SourcePuts(r) ==
    /\ remover[r].at \in {"put", "last"}
    /\ source' = SourcePut(source)
    /\ remover' = [remover EXCEPT ![r] = NoCall]
    /\ UNCHANGED <<scene, gpu, context, ktimeline, children, fence, creator, event, dump>>

Creating ==
    \E c \in Creators :
        \/ FenceStarts(c) \/ FenceMade(c) \/ FenceNotMade(c) \/ NoFd(c) \/ ReadsRetired(c)
        \/ SignalsRetired(c) \/ AddEvent(c) \/ AddEventFails(c) \/ CopyFails(c) \/ HwFence(c)
        \/ Copied(c) \/ Installed(c) \/ FenceEnds(c) \/ Cancel(c) \/ Fput(c)
SCreating ==
    \E c \in Creators :
        \/ SfenceStarts(c) \/ SfenceMade(c) \/ SfenceNotMade(c) \/ SfenceNoFd(c)
        \/ SfenceInstalled(c) \/ SfenceListed(c) \/ SfencePut(c)
Fence ==
    \E f \in Fences :
        \/ FenceReleased(f) \/ ProcessEvent(f) \/ EventSignals(f) \/ EventPuts(f)
        \/ DumpStarts(f) \/ CloseFd(f) \/ Poll(f) \/ SfenceSignals(f) \/ SfenceFreed(f)
Timestamps == Queue \/ Retire
Detaching == DetachMarks \/ DetachDrains \/ DetachCancels \/ TimelineDetach \/ DetachPuts
Dumping == DumpGets \/ DumpPutsContext \/ DumpEnds
Removing ==
    \E r \in Removers :
        \/ SignalStarts(r) \/ SignalGetsFence(r) \/ SignalBadFd(r) \/ SignalsFence(r)
        \/ SignalPutsFence(r) \/ DestroyStarts(r) \/ CleanupSignals(r) \/ SourcePuts(r)
Next ==
    Creating \/ SCreating \/ Fence \/ Timestamps \/ Detaching \/ Dumping \/ Removing

Spec == Init /\ [][Next]_vars

-----------------------------------------------------------------------------
(* Properties                                                              *)

Count(b) == IF b THEN 1 ELSE 0
CreatorsIn(steps) == {c \in Creators : creator[c].at \in steps}
RemoversIn(steps) == {r \in Removers : remover[r].at \in steps}
Made == {f \in Fences : fence[f].at \in {"made", "released", "signal"}}

\* Every reference has its holder, so that each structure lives as long as it
\* is used and no longer.
ContextHeld ==
    context.refs = Count(context.at \notin {"left", "gone"}) + Count(ktimeline.context)
                   + Count(context.at \in {"detached", "drained", "cancelled", "alone"})
                   + Cardinality(CreatorsIn({"make", "fd", "event", "copy", "install", "put", "fail"}))
                   + 2 * Cardinality({f \in Fences : event[f].at # "none"})
                   + Count(dump.at = "context")
TimelineHeld ==
    ktimeline.refs = Count(context.at # "gone") + Count(dump.at # "idle")
                     + IF scene.kind = "timeline" THEN Cardinality(Made) ELSE 0
SourceHeld ==
    source.refs = Count(source.at = "id" \/ RemoversIn({"cleanup", "last"}) # {})
                  + Cardinality(CreatorsIn({"smake"}))
                  + Cardinality(RemoversIn({"get", "signal", "fput", "put"}))
                  + IF scene.kind = "source" THEN Cardinality(Made) ELSE 0
Making(f, steps) == Cardinality({c \in CreatorsIn(steps) : creator[c].f = f})
FenceHeld(f) ==
    fence[f].refs = Count(fence[f].fd = "open") + Count(scene.kind = "timeline" /\ f \in children)
                    + Making(f, {"fd", "event", "copy", "install", "fail", "cancel", "fput"})
                    + 2 * Making(f, {"sfd"}) + Making(f, {"list", "sput"})
                    + Count(dump.at # "idle" /\ dump.f = f)
                    + Cardinality({r \in RemoversIn({"signal", "fput"}) : remover[r].f = f})

\* A list holds no fence that was freed, nor a context's one that is released.
ListedLives ==
    \A f \in children : fence[f].at \in IF scene.kind = "timeline" THEN {"made"} ELSE {"made", "released"}

\* A fence signals only when its timestamp retires or the context is no more.
NotEarly ==
    scene.kind = "timeline" => \A f \in Fences :
        fence[f].signalled => Retired(f) \/ context.at \in {"cancelled", "alone", "left", "gone"}

\* Who has the file of a fence does not wait for nothing: an event is to signal
\* it, or the source that has it on its list; and it was signalled before it
\* is freed.  Two stay unsignalled: a fence for a timestamp of the user's own
\* whose event came after those of the context were cancelled, and one listed
\* after its source was destroyed.
Future(f) == gpu.user /\ fence[f].ts > gpu.retired
NoWaitForNothing ==
    \A f \in Fences :
        /\ fence[f].fd = "open" /\ ~fence[f].signalled =>
            IF scene.kind = "timeline"
            THEN \/ event[f].at = "due"
                 \/ event[f].at = "pending" /\ (Grouped \/ Future(f))
            ELSE \/ f \in children /\ (~Over \/ fence[f].late)
                 \/ Making(f, {"list"}) = 1
        /\ fence[f].at = "freed" /\ fence[f].fd = "closed" => fence[f].signalled

(* Whatever the order in which a fence is made, its timestamp retires, its  *)
(* context or source is destroyed and its file is closed: nothing is used   *)
(* after it was freed, and nobody waits for a fence no one will signal.     *)
FencesKept ==
    /\ ContextHeld /\ TimelineHeld /\ SourceHeld /\ \A f \in Fences : FenceHeld(f)
    /\ ListedLives /\ NotEarly /\ NoWaitForNothing
=============================================================================
