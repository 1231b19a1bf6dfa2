------------------------------ MODULE SyncPoints ------------------------------
(***************************************************************************)
(* A sync object (kgsl_drawobj.c) in the draw queue of a context D.  Its   *)
(* sync points wait for timestamps of another context, the one of module   *)
(* EventGroup, and for fences of others.  The ioctl adds the points and    *)
(* queues the object, the dispatcher retires it when no point is pending,  *)
(* and D's detach or invalidation throws it away.                          *)
(*                                                                         *)
(* The callbacks are the ones of the events worker, which runs one at a    *)
(* time, and of the fences, each under its fence's lock.  D's              *)
(* drawctxt->lock is held from LookPending to ArmTimer.                    *)
(***************************************************************************)
EXTENDS EventGroup

CONSTANTS
    PointSeq,    \* the sync points in the order the ioctl adds them; those in
                 \* Points wait for a timestamp, the others for a fence
    PointChoices \* timestamps the sync points may wait for

Fences == ToSet(PointSeq) \ Points

ASSUME SyncAssumption ==
    /\ IsInjective(PointSeq) /\ Points \subseteq ToSet(PointSeq)
    /\ Fences \cap Events = {} /\ PointChoices \subseteq Nat
    /\ \A s \in Scenes, d \in PointChoices : d - s.retired \in 1 - Window .. Window - 1

VARIABLES
    opc, at,    \* the submitting ioctl: next step, index of the point it adds
    where,      \* who holds the object: "none", "ioctl", "queued", "popped"
                \* (the dispatcher, to retire it) or "dropped" (to throw it away)
    oref,       \* kref of the object
    pending,    \* syncobj->pending
    timer,      \* syncobj->timer: "off", "set", "fires" or "reports"
    tried,      \* syncobj->timeout_jiffies is set
    signaled,   \* fences that have signaled
    hooked,     \* fences with the callback of their point on their list
    fpc,        \* per fence: next step of its callback
    kick,       \* D is on a job list of the dispatcher
    look,       \* the dispatcher looks at D: "idle", "check" or "arm"
    bad,        \* D is detached or invalid
    xpc, xat    \* kgsl_drawobj_destroy: next step, and index

ioctlVars == <<opc, at>>
objVars == <<where, oref, pending, timer, tried>>
fenceVars == <<signaled, hooked, fpc>>
dispVars == <<kick, look, bad>>
destroyVars == <<xpc, xat>>
syncVars == <<ioctlVars, objVars, fenceVars, dispVars, destroyVars>>
vars == <<eventGroupVars, syncVars>>

Init ==
    /\ \E s \in Scenes : /\ EventInit(s)
                        /\ opc = IF "ioctl" \in s.who THEN "none" ELSE "done"
    /\ at = 1 /\ where = "none" /\ oref = 0 /\ pending = {}
    /\ timer = "off" /\ tried = FALSE /\ signaled = {} /\ hooked = {}
    /\ fpc = [f \in Fences |-> "idle"]
    /\ kick = FALSE /\ look = "idle" /\ bad = FALSE /\ xpc = "none" /\ xat = 0

-----------------------------------------------------------------------------
(* The ioctl: kgsl_drawobj_sync_add_synclist and the queueing               *)

Point == PointSeq[at]
Create ==
    /\ opc = "none" /\ opc' = "next" /\ where' = "ioctl" /\ oref' = 1
    /\ UNCHANGED <<eventGroupVars, at, pending, timer, tried, fenceVars, dispVars,
                   destroyVars>>
NextPoint == /\ at' = at + 1
             /\ opc' = IF at = Len(PointSeq) THEN "queue" ELSE "next"

(* drawobj_add_sync_timestamp: a reference on the context for the point and *)
(* one on the object for the event, and the pending bit, before the event.  *)
StampGet ==
    /\ opc = "next" /\ Point \in Points /\ ~detached
    /\ \E d \in PointChoices : due' = [due EXCEPT ![Point] = d]
    /\ wref' = wref + 1 /\ oref' = oref + 1 /\ pending' = pending \cup {Point}
    /\ opc' = "add"
    /\ UNCHANGED <<tsVars, detached, invalid, groupVars, work, est, res, runVars,
                   walk, endVars, wpc, at, where, timer, tried, fenceVars,
                   dispVars, destroyVars>>
StampNoContext ==
    /\ opc = "next" /\ Point \in Points /\ detached /\ opc' = "fail"
    /\ UNCHANGED <<eventGroupVars, at, objVars, fenceVars, dispVars, destroyVars>>
StampAdd ==
    /\ opc = "add" /\ MayAdd(due[Point]) /\ AllocEvent(Point) /\ opc' = "insert"
    /\ UNCHANGED <<wpc, at, objVars, fenceVars, dispVars, destroyVars>>
StampRefused ==
    /\ opc = "add" /\ ~MayAdd(due[Point]) /\ opc' = "fail"
    /\ pending' = pending \ {Point} /\ oref' = oref - 1 /\ wref' = wref - 1
    /\ UNCHANGED <<tsVars, detached, invalid, groupVars, eventVars, runVars, walk,
                   endVars, wpc, at, where, timer, tried, fenceVars, dispVars,
                   destroyVars>>
StampInsert ==
    /\ opc = "insert" /\ InsertEvent(Point) /\ NextPoint
    /\ UNCHANGED <<wpc, objVars, fenceVars, dispVars, destroyVars>>

(* drawobj_add_sync_fence: no callback on a fence that has signaled.        *)
FenceAdd ==
    /\ opc = "next" /\ Point \in Fences /\ NextPoint
    /\ IF Point \in signaled
         THEN UNCHANGED <<pending, oref, hooked>>
         ELSE /\ pending' = pending \cup {Point} /\ oref' = oref + 1
              /\ hooked' = hooked \cup {Point}
    /\ UNCHANGED <<eventGroupVars, where, timer, tried, signaled, fpc, dispVars,
                   destroyVars>>

(* The object enters D's draw queue and D a job list, unless D is bad; an   *)
(* ioctl that fails destroys the object.                                    *)
Enqueue ==
    /\ opc = "queue" /\ ~bad /\ opc' = "done" /\ where' = "queued" /\ kick' = TRUE
    /\ UNCHANGED <<eventGroupVars, at, oref, pending, timer, tried, fenceVars, look,
                   bad, destroyVars>>
EnqueueRefused ==
    /\ opc = "queue" /\ bad /\ opc' = "fail"
    /\ UNCHANGED <<eventGroupVars, at, objVars, fenceVars, dispVars, destroyVars>>
Fail ==
    /\ opc = "fail" /\ opc' = "done" /\ where' = "dropped" /\ xpc' = "timer"
    /\ UNCHANGED <<eventGroupVars, at, oref, pending, timer, tried, fenceVars,
                   dispVars, xat>>

-----------------------------------------------------------------------------
(* drawobj_sync_expire, in two steps: the pending bit, and, if no bit is    *)
(* left, the timer and the dispatcher.                                      *)
ClearBit(p) == pending' = pending \ {p}
Bug_LastPoint == FALSE
LastPoint == pending = {}
TimerDeleted == IF timer = "set" THEN "off" ELSE timer
Bug_ExpireLast == IF LastPoint /\ timer = "set" THEN timer' = "off" /\ kick' = TRUE
                                               ELSE UNCHANGED <<timer, kick>>
ExpireLast == IF LastPoint THEN timer' = TimerDeleted /\ kick' = TRUE
                           ELSE UNCHANGED <<timer, kick>>

(* drawobj_sync_func, on the events worker                                  *)
Bug_CallbackClear ==
    /\ rstep = "call" /\ run \in Points /\ ClearBit(run) /\ rstep' = "last"
    /\ UNCHANGED <<tsVars, detached, invalid, wref, groupVars, eventVars, run, walk,
                   endVars, wpc, ioctlVars, where, oref, timer, tried,
                   fenceVars, dispVars, destroyVars>>
CallbackClear ==
    /\ rstep = "call" /\ run \in Points /\ ClearBit(run)
    /\ rstep' = IF run \in pending THEN "last" ELSE "objput"
    /\ UNCHANGED <<tsVars, detached, invalid, wref, groupVars, eventVars, run, walk,
                   endVars, wpc, ioctlVars, where, oref, timer, tried,
                   fenceVars, dispVars, destroyVars>>
CallbackLast ==
    /\ rstep = "last" /\ rstep' = "ctxput" /\ ExpireLast
    /\ UNCHANGED <<tsVars, detached, invalid, wref, groupVars, eventVars, run, walk,
                   endVars, wpc, ioctlVars, where, oref, pending, tried,
                   fenceVars, look, bad, destroyVars>>
CallbackContextPut ==
    /\ rstep = "ctxput" /\ rstep' = "objput" /\ wref' = wref - 1
    /\ UNCHANGED <<tsVars, detached, invalid, groupVars, eventVars, run, walk,
                   endVars, wpc, syncVars>>
CallbackObjPut ==
    /\ rstep = "objput" /\ oref' = oref - 1 /\ EndEvent
    /\ UNCHANGED <<tsVars, detached, invalid, groupVars, work, due, res, walk,
                   endVars, wpc, ioctlVars, where, pending, timer, tried, fenceVars,
                   dispVars, destroyVars>>

(* A fence signals; its callback is drawobj_sync_fence_func.                *)
FenceSignal(f) ==
    /\ f \notin signaled /\ signaled' = signaled \cup {f}
    /\ hooked' = hooked \ {f}
    /\ fpc' = [fpc EXCEPT ![f] = IF f \in hooked THEN "clear" ELSE "idle"]
    /\ UNCHANGED <<eventGroupVars, ioctlVars, objVars, dispVars, destroyVars>>
FenceClear(f) ==
    /\ fpc[f] = "clear" /\ ClearBit(f)
    /\ fpc' = [fpc EXCEPT ![f] = IF f \in pending THEN "last" ELSE "idle"]
    /\ UNCHANGED <<eventGroupVars, ioctlVars, where, oref, timer, tried, signaled,
                   hooked, dispVars, destroyVars>>
FenceLast(f) ==
    /\ fpc[f] = "last" /\ ExpireLast /\ fpc' = [fpc EXCEPT ![f] = "objput"]
    /\ UNCHANGED <<eventGroupVars, ioctlVars, where, oref, pending, tried, signaled,
                   hooked, look, bad, destroyVars>>
FenceObjPut(f) ==
    /\ fpc[f] = "objput" /\ oref' = oref - 1 /\ fpc' = [fpc EXCEPT ![f] = "idle"]
    /\ UNCHANGED <<eventGroupVars, ioctlVars, where, pending, timer, tried, signaled,
                   hooked, dispVars, destroyVars>>

-----------------------------------------------------------------------------
(* The dispatcher: dispatch_retire_syncobj                                  *)

TakeJob ==
    /\ kick /\ look = "idle" /\ kick' = FALSE /\ look' = "check"
    /\ UNCHANGED <<eventGroupVars, ioctlVars, objVars, fenceVars, bad, destroyVars>>
LookNothing ==
    /\ look = "check" /\ where # "queued" /\ look' = "idle"
    /\ UNCHANGED <<eventGroupVars, ioctlVars, objVars, fenceVars, kick, bad,
                   destroyVars>>
Pop ==
    /\ look = "check" /\ where = "queued" /\ pending = {}
    /\ look' = "idle" /\ where' = "popped" /\ xpc' = "timer"
    /\ UNCHANGED <<eventGroupVars, ioctlVars, oref, pending, timer, tried, fenceVars,
                   kick, bad, xat>>
LookPending ==
    /\ look = "check" /\ where = "queued" /\ pending # {}
    /\ look' = IF tried THEN "idle" ELSE "arm"
    /\ UNCHANGED <<eventGroupVars, ioctlVars, objVars, fenceVars, kick, bad,
                   destroyVars>>
ArmTimer ==
    /\ look = "arm" /\ look' = "idle" /\ tried' = TRUE /\ timer' = "set"
    /\ UNCHANGED <<eventGroupVars, ioctlVars, where, oref, pending, fenceVars, kick,
                   bad, destroyVars>>

(* syncobj_timer reports a deadlock, on a reference of its own, which the   *)
(* handler can still get: NothingDangles.                                   *)
TimerFires ==
    /\ timer = "set" /\ timer' = "fires"
    /\ UNCHANGED <<eventGroupVars, ioctlVars, where, oref, pending, tried, fenceVars,
                   dispVars, destroyVars>>
TimerGets ==
    /\ timer = "fires" /\ oref > 0 /\ timer' = "reports" /\ oref' = oref + 1
    /\ UNCHANGED <<eventGroupVars, ioctlVars, where, pending, tried, fenceVars,
                   dispVars, destroyVars>>
TimerEnds ==
    /\ timer = "reports" /\ timer' = "off" /\ oref' = oref - 1
    /\ UNCHANGED <<eventGroupVars, ioctlVars, where, pending, tried, fenceVars,
                   dispVars, destroyVars>>

(* D is detached or invalidated, which drains its draw queue.               *)
EndOfD ==
    /\ ~bad /\ look # "arm" /\ bad' = TRUE
    /\ IF where = "queued" THEN where' = "dropped" /\ xpc' = "timer"
                           ELSE UNCHANGED <<where, xpc>>
    /\ UNCHANGED <<eventGroupVars, ioctlVars, oref, pending, timer, tried, fenceVars,
                   kick, look, xat>>

-----------------------------------------------------------------------------
(* syncobj_destroy by whoever holds the object, and its reference           *)

Bug_TimerStopped == TRUE
TimerStopped == timer \notin {"fires", "reports"}  \* kgsl_delete_timer_sync
DestroyTimer ==
    /\ xpc = "timer" /\ TimerStopped /\ timer' = TimerDeleted
    /\ xpc' = "points" /\ xat' = 1
    /\ UNCHANGED <<eventGroupVars, ioctlVars, where, oref, pending, tried, fenceVars,
                   dispVars>>

(* The first pending point from xat on; its bit is cleared.                 *)
StillPending == {i \in xat .. Len(PointSeq) : PointSeq[i] \in pending}
First == CHOOSE i \in StillPending : \A j \in StillPending : i <= j
DestroyPoint ==
    /\ xpc = "points" /\ StillPending # {} /\ xat' = First
    /\ ClearBit(PointSeq[First])
    /\ xpc' = IF PointSeq[First] \in Points THEN "cancel" ELSE "unhook"
    /\ UNCHANGED <<eventGroupVars, ioctlVars, where, oref, timer, tried, fenceVars,
                   dispVars>>
DestroyCancel ==
    /\ xpc = "cancel" /\ CancelEvent(due[PointSeq[xat]], {PointSeq[xat]})
    /\ xpc' = "ctxput"
    /\ UNCHANGED <<tsVars, detached, invalid, wref, group, processed, due, runVars,
                   walk, endVars, wpc, ioctlVars, objVars, fenceVars, dispVars,
                   xat>>
Bug_DestroyContextPut ==
    /\ xpc = "ctxput" /\ xpc' = "points"
    /\ UNCHANGED <<eventGroupVars, ioctlVars, objVars, fenceVars, dispVars, xat>>
DestroyContextPut ==
    /\ xpc = "ctxput" /\ wref' = wref - 1 /\ xpc' = "points"
    /\ UNCHANGED <<tsVars, detached, invalid, groupVars, eventVars, runVars, walk,
                   endVars, wpc, ioctlVars, objVars, fenceVars, dispVars, xat>>

(* dma_fence_remove_callback waits for a callback that runs.                *)
DestroyUnhook ==
    /\ xpc = "unhook" /\ fpc[PointSeq[xat]] = "idle"
    /\ hooked' = hooked \ {PointSeq[xat]} /\ oref' = oref - 1 /\ xpc' = "points"
    /\ UNCHANGED <<eventGroupVars, ioctlVars, where, pending, timer, tried, signaled,
                   fpc, dispVars, xat>>
DestroyPut ==
    /\ xpc = "points" /\ StillPending = {} /\ oref' = oref - 1 /\ xpc' = "done"
    /\ UNCHANGED <<eventGroupVars, ioctlVars, where, pending, timer, tried, fenceVars,
                   dispVars, xat>>

-----------------------------------------------------------------------------
Ioctl == \/ StampGet \/ StampNoContext \/ StampAdd \/ StampRefused \/ StampInsert
         \/ FenceAdd \/ Enqueue \/ EnqueueRefused \/ Fail
Callback == CallbackClear \/ CallbackLast \/ CallbackContextPut \/ CallbackObjPut
FenceCallback(f) == FenceClear(f) \/ FenceLast(f) \/ FenceObjPut(f)
Look == TakeJob \/ LookNothing \/ Pop \/ LookPending \/ ArmTimer
Destroy == \/ DestroyTimer \/ DestroyPoint \/ DestroyCancel \/ DestroyContextPut
           \/ DestroyUnhook \/ DestroyPut
Next ==
    \/ EventNext /\ UNCHANGED syncVars
    \/ Create \/ Ioctl \/ Callback \/ Look \/ EndOfD \/ Destroy
    \/ \E f \in Fences : FenceSignal(f) \/ FenceCallback(f)
    \/ TimerFires \/ TimerGets \/ TimerEnds

(* The worker, the processor (an interrupt follows each retirement), the    *)
(* dispatcher and every thread that has begun a call go on.  Nothing makes  *)
(* a call begin, the GPU retire, a fence signal or a wait time out.         *)
Fairness ==
    /\ WF_vars(Callback \/ ((WorkStart \/ WaitCallback) /\ UNCHANGED syncVars))
    /\ WF_vars((ProcessStart \/ Process) /\ UNCHANGED syncVars)
    /\ \A w \in Waiters : WF_vars(WaiterGoesOn(w) /\ UNCHANGED syncVars)
    /\ WF_vars(InvalidateGoesOn /\ UNCHANGED syncVars)
    /\ WF_vars(DetachGoesOn /\ UNCHANGED syncVars)
    /\ WF_vars(Ioctl) /\ WF_vars(Look) /\ WF_vars(Destroy) /\ WF_vars(TimerGets \/ TimerEnds)
    /\ \A f \in Fences : WF_vars(FenceCallback(f))

Spec == Init /\ [][Next]_vars
LiveSpec == Spec /\ Fairness

-----------------------------------------------------------------------------
(* Properties *)

Seqs(S) == UNION {[1 .. n -> S] : n \in 0 .. Cardinality(S)}
Steps == {"idle", "call", "last", "ctxput", "objput"}

(* Types, and the steps each thread of the code goes through.               *)
TypeOK ==
    /\ {queued, sent, retired, processed} \subseteq 0 .. MaxTs
    /\ {userTs, detached, invalid, group, clean, tried, kick, bad} \subseteq BOOLEAN
    /\ wref \in Nat /\ oref \in Nat
    /\ list \in Seqs(Events) /\ work \in Seqs(Events)
    /\ est \in [Events -> {"none", "ready", "listed", "work", "running", "done"}]
    /\ due \in [Events -> Nat] /\ res \in [Events -> {"none", Retired, Cancelled}]
    /\ run \in Events \cup {"none"} /\ rstep \in Steps
    /\ walk \in {"idle", "walk"}
    /\ ipc \in {"none", "cancel", "wake", "done"} /\ its \in 0 .. MaxTs + 1
    /\ dpc \in {"none", "never", "wait", "cancel", "delete", "put", "done"}
    /\ wpc \in [Waiters -> {"none", "add", "insert", "awake", "asleep", "cancel",
                             "done"}]
    /\ opc \in {"none", "next", "add", "insert", "queue", "fail", "done"}
    /\ at \in 1 .. Len(PointSeq) + 1
    /\ where \in {"none", "ioctl", "queued", "popped", "dropped"}
    /\ pending \subseteq ToSet(PointSeq) /\ timer \in {"off", "set", "fires", "reports"}
    /\ signaled \subseteq Fences /\ hooked \subseteq Fences
    /\ fpc \in [Fences -> {"idle", "clear", "last", "objput"}]
    /\ look \in {"idle", "check", "arm"}
    /\ xpc \in {"none", "timer", "points", "cancel", "ctxput", "unhook", "done"}
    /\ xat \in 0 .. Len(PointSeq)

Count(P) == IF P THEN 1 ELSE 0

(* Events that still hold the context, and the object if it is a point's.   *)
LiveEvents == {e \in Events : est[e] \in {"ready", "listed", "work", "running"}}
ObjEvents == Points \cap LiveEvents

(* Points that hold the context: the bit is set, or who cleared it has not  *)
(* put the context yet.                                                     *)
ContextHolders ==
    Cardinality(pending \cap Points) + Count(rstep \in {"last", "ctxput"})
    + Count(xpc \in {"cancel", "ctxput"})

RefsMatch ==
    /\ wref = Count(dpc # "done") + Cardinality(LiveEvents) + ContextHolders
              + Count(walk # "idle") + Count(ipc \in {"cancel", "wake"})
              + Cardinality({w \in Waiters : wpc[w] \notin {"none", "done"}})
    /\ oref = Count(where # "none" /\ xpc # "done") + Cardinality(ObjEvents)
              + Count(opc = "add") + Count(timer = "reports")
              + Cardinality(pending \cap Fences)
              + Cardinality({f \in Fences : fpc[f] \in {"last", "objput"}})
              + Count(xpc = "unhook")

NothingDangles ==
    /\ \/ timer # "off" \/ hooked # {} \/ ObjEvents # {}
       \/ \E f \in Fences : fpc[f] # "idle"
       \/ xpc \notin {"none", "done"}
       => oref > 0
    /\ group \/ list # << >> \/ walk # "idle" \/ xpc = "cancel" => wref > 0

(* The reference counts of context and object are the numbers of those that *)
(* will put them: nobody puts twice or forgets to, whichever of callback,   *)
(* cancellation, timeout, detach and destruction comes first.  So whatever  *)
(* can still touch the object's memory finds it allocated: its timer, the   *)
(* callbacks on fences and events, its destroyer; and the event group is    *)
(* freed with its context, so it is not listed, walked or cancelled on      *)
(* after that.                                                              *)
HoldersRight == TypeOK /\ RefsMatch /\ NothingDangles

Over(p) == IF p \in Points THEN due[p] <= retired \/ ContextBad
                            ELSE p \in signaled

(* The dispatcher retires a sync object, and lets the commands behind it    *)
(* run, only when each of its fences has signaled and each timestamp has    *)
(* retired, or its context is gone.                                         *)
PopsWhenOver ==
    [][where' = "popped" /\ where # "popped"
       => \A i \in 1 .. Len(PointSeq) : Over(PointSeq[i])]_vars

KickNotLost ==
    where = "queued" /\ pending = {}
    => \/ kick \/ look = "check" \/ rstep = "last"
       \/ \E f \in Fences : fpc[f] = "last"
EmptyAfterDetach == ~group /\ clean /\ ~userTs => list = << >>

(* Nothing is left behind.  A queued sync object without pending points is  *)
(* looked at again: D is on a job list, is being looked at, or the one that *)
(* cleared the last bit is about to put it there.  And when the group is    *)
(* deleted "all the events have been deleted from the list", as             *)
(* kgsl_del_event_group says, if the GPU finished in time and the user does *)
(* not make the timestamps, though threads that got the context before its  *)
(* detach still add events.                                                 *)
NothingLeftBehind == KickNotLost /\ EmptyAfterDetach

Abandoned == dpc \notin {"none", "never", "wait"} /\ ~clean

(* Module EventPromise, kept by the events of the group.                    *)
Armed(e) == est[e] \in {"listed", "work", "running", "done"}
Called(e) == est[e] \in {"running", "done"}
Promise == INSTANCE EventPromise WITH
    state <- [e \in Events |-> IF Called(e) THEN "called"
                               ELSE IF Armed(e) THEN "armed" ELSE "none"],
    due <- [e \in Events |-> IF Armed(e) THEN due[e] ELSE 0],
    result <- [e \in Events |-> IF Called(e) THEN res[e] ELSE "none"]
PromiseKept == Promise!SafeSpec

(* An event whose timestamp retires has its callback run, unless the        *)
(* detach of the context gave up on the GPU.                                *)
EventsFire == \A e \in Events : Armed(e) /\ due[e] <= retired
                                ~> Called(e) \/ Abandoned

(* A waiter returns when its timestamp retires or the context goes bad,     *)
(* although waiters for the same timestamp take each other's events back.   *)
WaitersReturn ==
    \A w \in Waiters : wpc[w] = "asleep" /\ WaitOver(w) ~> wpc[w] = "done"

(* What waits for a timestamp, a callback or a thread, gets on.             *)
EveryoneWoken == EventsFire /\ WaitersReturn

ObjectFreed ==
    \/ where = "dropped"
    \/ where = "queued" /\ \A i \in 1 .. Len(PointSeq) : Over(PointSeq[i])
    ~> oref = 0 \/ Abandoned
ContextFreed == dpc = "done" /\ clean /\ ~userTs ~> wref = 0

(* The object is freed once its points are over or its queue is drained,    *)
(* and a detached context is, with the exception of EmptyAfterDetach.       *)
Freed == ObjectFreed /\ ContextFreed
===============================================================================
