----------------------------- MODULE ContextQueue -----------------------------
(***************************************************************************)
(* The draw queue of one context: the ring of draw objects that submitting *)
(* threads fill (adreno_dispatcher_queue_cmds), that the software          *)
(* dispatcher empties (dispatcher_context_sendcmds), and that invalidation *)
(* and detach drain (adreno_drawctxt.c).                                   *)
(*                                                                         *)
(* drawctxt->lock is taken and released within one action, except while    *)
(* the dispatcher walks the queue (dpc = "scan" or "busyscan"): every      *)
(* other action that takes the lock is disabled then.  The dispatcher is   *)
(* one actor: worker and inline submitters run under dispatcher->mutex.    *)
(*                                                                         *)
(* A definition Bug_X is the form of X a plausible slip would give it; no  *)
(* action uses it.                                                         *)
(***************************************************************************)
EXTENDS Integers, Sequences, FiniteSets

CONSTANTS
    Threads,     \* threads that submit to the context
    RingSize,    \* ADRENO_CONTEXT_DRAWQUEUE_SIZE (128)
    FirstSlot,   \* where head and tail stand at first: 0 in a new context, any
                 \* slot in one that has been idle after earlier work
    QSize,       \* _context_drawqueue_size (50, tunable up to RingSize - 1)
    InflightMax, \* _drawqueue_inflight of the context's ringbuffer
    Burst,       \* _context_drawobj_burst
    Batches,     \* the submissions the threads make, a subset of IoctlBatches
    UserTs,      \* KGSL_CONTEXT_USER_GENERATED_TS
    MaxObjs,     \* bound: objects ever queued
    MaxTs,       \* bound: largest timestamp
    MaxFaults,   \* bound: GPU faults
    MaxFails     \* bound: submissions refused for want of room or by a halt

(* What the submission ioctls pass to queue_cmds: "tssync" is the implicit  *)
(* sync object on the context's own last timestamp that precedes a bind.    *)
IoctlBatches == { <<"sync">>, <<"cmd">>, <<"marker">>,
                  <<"sync", "cmd">>, <<"sync", "marker">>,
                  <<"tssync", "bind">>, <<"sync", "tssync", "bind">>,
                  <<"timeline", "marker">>, <<"sync", "timeline", "marker">> }

SyncKinds == {"sync", "tssync"}
StampedKinds == {"cmd", "marker", "bind"}
Kinds == SyncKinds \cup StampedKinds \cup {"timeline"}
MaxBatch == 3

ASSUME QueueAssumption ==
    /\ IsFiniteSet(Threads)
    /\ RingSize \in Nat /\ QSize \in Nat /\ 2 <= QSize /\ QSize < RingSize
    /\ FirstSlot \in 0 .. RingSize - 1
    /\ InflightMax \in Nat \ {0} /\ Burst \in Nat \ {0}
    /\ Batches \subseteq IoctlBatches
    /\ UserTs \in BOOLEAN
    /\ MaxObjs \in Nat /\ MaxTs \in Nat /\ MaxFaults \in Nat /\ MaxFails \in Nat

Objs == 1 .. MaxObjs
None == 0
Slots == 0 .. RingSize - 1
NEXT(i) == (i + 1) % RingSize
Bug_PREV(i) == i - 1
PREV(i) == IF i = 0 THEN RingSize - 1 ELSE i - 1

VARIABLES
    obj,        \* obj[o]: kind, timestamp, marker_timestamp, SKIP bit, state
    ref,        \* ref[o]: kref of the draw object
    nobj,       \* objects 1..nobj have been queued
    drawqueue, head, tail, queued,      \* the ring and its count
    timestamp, queuedTs,                \* drawctxt->timestamp, ->queued_timestamp
    retired,    \* the context's eoptimestamp in the memstore
    detached, invalid,                  \* KGSL_CONTEXT_PRIV_DETACHED, _INVALID
    pc, batch, userTs, snap,            \* per submitting thread
    dpc, hand, count,                   \* the dispatcher
    inflight,   \* dispatch_q->cmd_q from head to tail, this context's objects
    gpu,        \* the objects of inflight the hardware has not finished
    fault,      \* adreno_gpu_fault() # 0
    detach,     \* progress of the thread in adreno_drawctxt_detach
    doomed,     \* doomed[a]: objects a took out of the ring, still to destroy
    nfaults, nfails

objVars == <<obj, ref, nobj>>
ringVars == <<drawqueue, head, tail, queued>>
tsVars == <<timestamp, queuedTs, retired>>
stateVars == <<detached, invalid>>
subVars == <<pc, batch, userTs, snap>>
dispVars == <<dpc, hand, count>>
hwVars == <<inflight, gpu, fault>>
endVars == <<detach, doomed>>
boundVars == <<nfaults, nfails>>
vars == <<objVars, ringVars, tsVars, stateVars, subVars, dispVars, hwVars,
          endVars, boundVars>>

ObjState == {"new", "started", "cancelled", "done"}
NoObj == [kind |-> "none", ts |-> 0, mts |-> 0, skip |-> FALSE, sts |-> 0,
          st |-> "new"]
ObjRecords == [kind : Kinds \cup {"none"}, ts : Nat, mts : Nat,
               skip : BOOLEAN, sts : Nat, st : ObjState]

Init ==
    /\ obj = [o \in Objs |-> NoObj] /\ ref = [o \in Objs |-> 0] /\ nobj = 0
    /\ drawqueue = [i \in Slots |-> None] 
    /\ head = FirstSlot /\ tail = FirstSlot /\ queued = 0
    /\ timestamp = 0 /\ queuedTs = 0 /\ retired = 0
    /\ detached = FALSE /\ invalid = FALSE
    /\ pc = [t \in Threads |-> "idle"] /\ batch = [t \in Threads |-> << >>]
    /\ userTs = [t \in Threads |-> 0] /\ snap = [t \in Threads |-> 0]
    /\ dpc = "idle" /\ hand = None /\ count = 0
    /\ inflight = << >> /\ gpu = << >> /\ fault = FALSE
    /\ detach = "none" /\ doomed = [a \in {"dispatcher", "detacher"} |-> {}]
    /\ nfaults = 0 /\ nfails = 0

-----------------------------------------------------------------------------
(* Helpers *)

Retired(ts) == retired >= ts
ContextBad == detached \/ invalid                \* kgsl_context_is_bad
LockFree == dpc \notin {"scan", "busyscan"}       \* drawctxt->lock
SetOf(s) == {s[i] : i \in 1 .. Len(s)}

(* The slots from drawqueue_head up to drawqueue_tail and their objects.    *)
InWindow(i) == IF head <= tail THEN head <= i /\ i < tail
                               ELSE head <= i \/ i < tail
Window == {i \in Slots : InWindow(i)}
QueuedObjs == {drawqueue[i] : i \in Window}
IsEmpty == head = tail

(* What kgsl_drawobj_destroy leaves of an object's reference count: the     *)
(* holder's reference goes; a pending fence wait is cancelled with its      *)
(* reference, a pending timestamp event still has to run its callback.      *)
Bug_RefAfterDestroy(o) == ref[o] - 1
RefAfterDestroy(o) ==
    IF obj[o].kind = "sync" /\ obj[o].st = "new" THEN ref[o] - 2 ELSE ref[o] - 1
ObjAfterDestroy(o) ==
    IF obj[o].kind = "sync" /\ obj[o].st = "new"
      THEN [obj[o] EXCEPT !.st = "done"]
    ELSE IF obj[o].kind = "tssync" /\ obj[o].st = "new"
      THEN [obj[o] EXCEPT !.st = "cancelled"]
    ELSE obj[o]
Destroy(S) ==
    /\ ref' = [o \in Objs |-> IF o \in S THEN RefAfterDestroy(o) ELSE ref[o]]
    /\ obj' = [o \in Objs |-> IF o \in S THEN ObjAfterDestroy(o) ELSE obj[o]]
    /\ UNCHANGED nobj

WakeAll == [t \in Threads |-> IF pc[t] = "sleep" THEN "check" ELSE pc[t]]

-----------------------------------------------------------------------------
(* Submitting threads: adreno_dispatcher_queue_cmds *)

Reserved == Cardinality(UNION {{t} \X DOMAIN batch[t] : t \in Threads})
Busy == {t \in Threads : pc[t] # "idle"}
NewTs(t) == IF UserTs THEN userTs[t] ELSE timestamp + 1
HasStamp(b) == b[Len(b)] \in StampedKinds

Return(t) ==
    /\ pc' = [pc EXCEPT ![t] = "idle"]
    /\ batch' = [batch EXCEPT ![t] = << >>]
    /\ userTs' = [userTs EXCEPT ![t] = 0] /\ snap' = [snap EXCEPT ![t] = 0]

(* The ioctl builds its objects; a bind reads the context's last timestamp  *)
(* without the lock.                                                        *)
QueueStart(t) ==
    /\ pc[t] = "idle" /\ ~ContextBad
    /\ \E b \in Batches, uts \in IF UserTs THEN 1 .. MaxTs ELSE {0} :
         /\ Len(b) <= QSize - 1
         /\ nobj + Reserved + Len(b) <= MaxObjs
         /\ UserTs \/ timestamp + Cardinality(Busy) < MaxTs
         /\ batch' = [batch EXCEPT ![t] = b]
         /\ userTs' = [userTs EXCEPT ![t] = uts]
         /\ snap' = [snap EXCEPT ![t] = IF "tssync" \in SetOf(b) THEN timestamp ELSE 0]
    /\ pc' = [pc EXCEPT ![t] = "queue"]
    /\ UNCHANGED <<objVars, ringVars, tsVars, stateVars, dispVars, hwVars,
                   endVars, boundVars>>

HasRoom(n) == queued + n <= QSize - 1
CheckContextQueue(n) == invalid \/ queued + n < QSize

(* The context went bad, or the user's timestamp is not a later one.        *)
QueueRefused(t) ==
    /\ pc[t] \in {"queue", "woken"} /\ LockFree
    /\ \/ ContextBad
       \/ UserTs /\ batch[t] # <<"sync">> /\ timestamp >= userTs[t]
          /\ (pc[t] = "woken" \/ HasRoom(Len(batch[t])))
    /\ Return(t)
    /\ UNCHANGED <<objVars, ringVars, tsVars, stateVars, dispVars, hwVars,
                   endVars, boundVars>>

(* No room: drop the lock and wait on drawctxt->wq.                         *)
QueueWait(t) ==
    /\ pc[t] = "queue" /\ LockFree /\ ~ContextBad /\ ~HasRoom(Len(batch[t]))
    /\ pc' = [pc EXCEPT ![t] = "check"]
    /\ UNCHANGED <<objVars, ringVars, tsVars, stateVars, batch, userTs, snap,
                   dispVars, hwVars, endVars, boundVars>>

(* wait_event_interruptible_timeout evaluates its condition, before         *)
(* sleeping and after every wake-up.                                        *)
CheckRoom(t) ==
    /\ pc[t] = "check" /\ LockFree
    /\ pc' = [pc EXCEPT ![t] = IF CheckContextQueue(Len(batch[t]))
                                  THEN "woken" ELSE "sleep"]
    /\ UNCHANGED <<objVars, ringVars, tsVars, stateVars, batch, userTs, snap,
                   dispVars, hwVars, endVars, boundVars>>

(* -ETIMEDOUT after _context_queue_wait, or a signal.                       *)
WaitTimeout(t) ==
    /\ pc[t] = "sleep" /\ Return(t)
    /\ UNCHANGED <<objVars, ringVars, tsVars, stateVars, dispVars, hwVars,
                   endVars, boundVars>>

(* A thread that found room, or was told there is room, has the lock again. *)
(* The room is not looked at a second time after the wait.                  *)
Bug_MayQueue(t) ==
    /\ pc[t] = "woken" \/ (pc[t] = "queue" /\ HasRoom(Len(batch[t])) /\ ~ContextBad)
    /\ LockFree
Bug_MayQueueTs(t) ==
    /\ pc[t] = "woken" \/ (pc[t] = "queue" /\ HasRoom(Len(batch[t])))
    /\ LockFree /\ ~ContextBad
MayQueue(t) ==
    /\ pc[t] = "woken" \/ (pc[t] = "queue" /\ HasRoom(Len(batch[t])))
    /\ LockFree /\ ~ContextBad
    /\ ~UserTs \/ batch[t] = <<"sync">> \/ timestamp < userTs[t]

Bug_FastPath(t) == batch[t] = <<"marker">> /\ queued = 0
FastPath(t) == batch[t] = <<"marker">> /\ queued = 0 /\ Retired(queuedTs)

(* drawctxt_queue_markerobj retires a marker that has nothing to wait for.  *)
QueueFastMarker(t) ==
    /\ MayQueue(t) /\ FastPath(t)
    /\ timestamp' = NewTs(t) /\ retired' = NewTs(t)
    /\ Return(t)
    /\ UNCHANGED <<objVars, ringVars, queuedTs, stateVars, dispVars, hwVars,
                   endVars, boundVars>>

NewObj(t, k) ==
    LET kind == batch[t][k] IN
    [kind |-> kind,
     ts   |-> IF kind \in StampedKinds THEN NewTs(t) ELSE 0,
     mts  |-> IF kind = "marker" THEN queuedTs ELSE 0,
     skip |-> FALSE,
     sts  |-> IF kind = "tssync" THEN snap[t] ELSE 0,
     st   |-> "new"]

(* A command forces the markers queued before it to be dispatched.          *)
ForceMarker(t, o) ==
    "cmd" \in SetOf(batch[t]) /\ obj[o].kind = "marker" /\ o \in QueuedObjs

Offset(i) == IF i >= tail THEN i - tail ELSE i - tail + RingSize

QueueObjs(t) ==
    LET n == Len(batch[t])
        b == batch[t]
    IN
    /\ MayQueue(t) /\ ~FastPath(t) /\ nobj + n <= MaxObjs
    /\ drawqueue' = [i \in Slots |-> IF Offset(i) < n THEN nobj + 1 + Offset(i)
                                                      ELSE drawqueue[i]]
    /\ tail' = (tail + n) % RingSize
    /\ queued' = queued + n
    /\ obj' = [o \in Objs |->
                 IF o \in nobj + 1 .. nobj + n THEN NewObj(t, o - nobj)
                 ELSE IF ForceMarker(t, o) THEN [obj[o] EXCEPT !.skip = TRUE]
                 ELSE obj[o]]
    /\ ref' = [o \in Objs |->
                 IF o \in nobj + 1 .. nobj + n
                   THEN IF b[o - nobj] \in SyncKinds THEN 2 ELSE 1
                   ELSE ref[o]]
    /\ nobj' = nobj + n
    /\ timestamp' = IF HasStamp(b) THEN NewTs(t) ELSE timestamp
    /\ queuedTs' = IF HasStamp(b) THEN NewTs(t) ELSE queuedTs
    /\ Return(t)
    /\ UNCHANGED <<head, retired, stateVars, dispVars, hwVars, endVars, boundVars>>

-----------------------------------------------------------------------------
(* The dispatcher: dispatcher_context_sendcmds and what it calls *)

SubmitterUnchanged == UNCHANGED <<subVars, stateVars, timestamp, queuedTs,
                                  detach, doomed, boundVars>>

(* dispatcher_handle_jobs_list reaches the context; a full dispatch queue   *)
(* only retires what needs no GPU.                                          *)
Consider ==
    /\ dpc = "idle" /\ ~ContextBad /\ ~fault
    /\ dpc' = IF Len(inflight) >= InflightMax THEN "busyscan" ELSE "next"
    /\ count' = 0
    /\ UNCHANGED <<objVars, ringVars, retired, hand, hwVars>> /\ SubmitterUnchanged

(* The loop conditions of dispatcher_context_sendcmds.                      *)
NextCommand ==
    /\ dpc = "next"
    /\ dpc' = IF count < Burst /\ Len(inflight) < InflightMax /\ ~fault
                THEN "scan" ELSE "wake"
    /\ UNCHANGED <<objVars, ringVars, retired, hand, count, hwVars>>
    /\ SubmitterUnchanged

Scanning == dpc \in {"scan", "busyscan"}
Front == drawqueue[head]
EndScan == IF dpc = "busyscan" THEN "idle" ELSE "wake"

Bug_PopDrawobj == head' = NEXT(head) /\ UNCHANGED <<drawqueue, tail, queued>>
PopDrawobj == head' = NEXT(head) /\ queued' = queued - 1 /\ UNCHANGED <<drawqueue, tail>>

(* Can the object at the head be retired without the GPU?                   *)
Bug_SoftRetirable(o) == obj[o].kind # "cmd" /\ (obj[o].kind = "bind" => obj[o].st = "done")
SoftRetirable(o) ==
    \/ obj[o].kind = "marker" /\ Retired(obj[o].mts)
    \/ obj[o].kind \in SyncKinds /\ obj[o].st = "done"
    \/ obj[o].kind = "bind" /\ obj[o].st = "done"
    \/ obj[o].kind = "timeline"

(* Markers and binds leave their timestamp in the memstore.                 *)
RetireFront ==
    /\ Scanning /\ ~IsEmpty /\ SoftRetirable(Front)
    /\ PopDrawobj /\ Destroy({Front})
    /\ retired' = IF obj[Front].kind \in StampedKinds THEN obj[Front].ts ELSE retired
    /\ UNCHANGED <<dispVars, hwVars>> /\ SubmitterUnchanged

Bug_BindTrigger(o) == obj' = [obj EXCEPT ![o].st = "started"] /\ UNCHANGED ref
BindTrigger(o) ==
    /\ obj' = [obj EXCEPT ![o].st = "started"] /\ ref' = [ref EXCEPT ![o] = @ + 1]

(* Start the bind once, with a reference for its callback, and come back    *)
(* when it is done.                                                         *)
StartBind ==
    /\ Scanning /\ ~IsEmpty /\ obj[Front].kind = "bind" /\ obj[Front].st = "new"
    /\ BindTrigger(Front) /\ dpc' = EndScan
    /\ UNCHANGED <<nobj, ringVars, retired, hand, count, hwVars>>
    /\ SubmitterUnchanged

(* A command, or a marker that a later command forces out.                  *)
Sendable(o) == obj[o].kind = "cmd" \/ (obj[o].kind = "marker" /\ obj[o].skip)

(* -EAGAIN on what has to wait, NULL on an empty queue.                     *)
ScanEnds ==
    /\ Scanning
    /\ ~IsEmpty => /\ ~SoftRetirable(Front) /\ ~Sendable(Front)
                   /\ ~(obj[Front].kind = "bind" /\ obj[Front].st = "new")
    /\ dpc' = EndScan
    /\ UNCHANGED <<objVars, ringVars, retired, hand, count, hwVars>>
    /\ SubmitterUnchanged

TakeCommand ==
    /\ Scanning /\ ~IsEmpty /\ ~SoftRetirable(Front) /\ Sendable(Front)
    /\ IF dpc = "scan"
         THEN PopDrawobj /\ hand' = Front /\ dpc' = "send"
         ELSE UNCHANGED <<ringVars, hand>> /\ dpc' = "idle"
    /\ UNCHANGED <<objVars, retired, count, hwVars>> /\ SubmitterUnchanged

(* sendcmd: the ringbuffer refuses a detached context and a faulted GPU.    *)
Bug_RingAccepts == ~fault
RingAccepts == ~detached /\ ~fault

SendOk ==
    /\ dpc = "send" /\ RingAccepts
    /\ inflight' = Append(inflight, hand) /\ gpu' = Append(gpu, hand)
    /\ hand' = None /\ count' = count + 1 /\ dpc' = "next"
    /\ UNCHANGED <<objVars, ringVars, retired, fault>> /\ SubmitterUnchanged

SendGone ==
    /\ dpc = "send" /\ detached
    /\ Destroy({hand}) /\ hand' = None /\ dpc' = "wake"
    /\ UNCHANGED <<ringVars, retired, count, hwVars>> /\ SubmitterUnchanged

(* -EPROTO, or -EBUSY and -ENOSPC, which nfails counts.                     *)
SendFails ==
    /\ dpc = "send" /\ (fault \/ nfails < MaxFails)
    /\ nfails' = IF fault THEN nfails ELSE nfails + 1
    /\ dpc' = "requeue"
    /\ UNCHANGED <<objVars, ringVars, tsVars, stateVars, subVars, hand, count,
                   hwVars, endVars, nfaults>>

PutBack ==
    /\ drawqueue' = [drawqueue EXCEPT ![PREV(head)] = hand]
    /\ queued' = queued + 1 /\ head' = PREV(head) /\ UNCHANGED tail

(* adreno_dispatcher_requeue_cmdobj                                         *)
Requeue ==
    /\ dpc = "requeue"
    /\ IF ContextBad THEN Destroy({hand}) /\ UNCHANGED ringVars
                     ELSE PutBack /\ UNCHANGED objVars
    /\ hand' = None /\ dpc' = "wake"
    /\ UNCHANGED <<retired, count, hwVars>> /\ SubmitterUnchanged

Bug_RoomAppeared == queued = QSize - 2
RoomAppeared == CheckContextQueue(0)

WakeSubmitters ==
    /\ dpc = "wake" /\ dpc' = "idle" /\ count' = 0
    /\ pc' = IF RoomAppeared THEN WakeAll ELSE pc
    /\ UNCHANGED <<objVars, ringVars, tsVars, stateVars, batch, userTs, snap,
                   hand, hwVars, endVars, boundVars>>

-----------------------------------------------------------------------------
(* The hardware, retirement, and recovery from a fault *)

GpuFinish ==
    /\ gpu # << >>
    /\ retired' = obj[Head(gpu)].ts /\ gpu' = Tail(gpu)
    /\ UNCHANGED <<objVars, ringVars, dispVars, inflight, fault>>
    /\ SubmitterUnchanged

(* adreno_dispatch_retire_drawqueue                                         *)
RetireInflight ==
    /\ dpc = "idle" /\ inflight # << >> /\ Retired(obj[Head(inflight)].ts)
    /\ Destroy({Head(inflight)}) /\ inflight' = Tail(inflight)
    /\ UNCHANGED <<ringVars, retired, dispVars, gpu, fault>> /\ SubmitterUnchanged

GpuFault ==
    /\ ~fault /\ nfaults < MaxFaults
    /\ fault' = TRUE /\ nfaults' = nfaults + 1
    /\ UNCHANGED <<objVars, ringVars, tsVars, stateVars, subVars, dispVars,
                   inflight, gpu, endVars, nfails>>

(* dispatcher_do_fault retires what is done and resets the GPU before       *)
(* recover_dispatch_q decides about the rest.                               *)
Recovering ==
    /\ dpc = "idle" /\ fault
    /\ inflight # << >> => ~Retired(obj[Head(inflight)].ts)

(* Replay everything, in order.                                             *)
RecoverReplay ==
    /\ Recovering /\ ~ContextBad
    /\ gpu' = inflight /\ fault' = FALSE
    /\ UNCHANGED <<objVars, ringVars, retired, dispVars, inflight>>
    /\ SubmitterUnchanged

(* remove_invalidated_cmdobjs                                               *)
RecoverDrop ==
    /\ Recovering /\ ContextBad
    /\ Destroy(SetOf(inflight)) /\ inflight' = << >> /\ gpu' = << >> /\ fault' = FALSE
    /\ UNCHANGED <<ringVars, retired, dispVars>> /\ SubmitterUnchanged

(* adreno_drawctxt_set_guilty: adreno_drawctxt_invalidate under the lock,   *)
(* then, with the lock dropped, what it took out and what was in flight go. *)
RecoverGuilty ==
    /\ Recovering /\ ~invalid /\ inflight # << >>
    /\ invalid' = TRUE /\ retired' = timestamp
    /\ doomed' = [doomed EXCEPT !["dispatcher"] = QueuedObjs]
    /\ head' = tail /\ gpu' = << >> /\ dpc' = "invalidate"
    /\ UNCHANGED <<objVars, drawqueue, tail, queued, timestamp, queuedTs, detached,
                   subVars, hand, count, inflight, fault, detach, boundVars>>

Bug_Condemned == doomed["dispatcher"]
Condemned == doomed["dispatcher"] \cup SetOf(inflight)

FinishInvalidate ==
    /\ dpc = "invalidate" /\ Destroy(Condemned)
    /\ doomed' = [doomed EXCEPT !["dispatcher"] = {}]
    /\ inflight' = << >> /\ fault' = FALSE /\ dpc' = "idle"
    /\ pc' = WakeAll
    /\ UNCHANGED <<ringVars, tsVars, stateVars, batch, userTs, snap, hand, count,
                   gpu, detach, boundVars>>

-----------------------------------------------------------------------------
(* The thread that detaches the context: kgsl_context_detach *)

DetachMark ==
    /\ detach = "none" /\ detached' = TRUE /\ detach' = "marked"
    /\ UNCHANGED <<objVars, ringVars, tsVars, invalid, subVars, dispVars, hwVars,
                   doomed, boundVars>>

DetachDrain ==
    /\ detach = "marked" /\ LockFree
    /\ doomed' = [doomed EXCEPT !["detacher"] = QueuedObjs]
    /\ head' = tail /\ detach' = "drained"
    /\ UNCHANGED <<objVars, drawqueue, tail, queued, tsVars, stateVars, subVars,
                   dispVars, hwVars, boundVars>>

DetachDestroy ==
    /\ detach = "drained"
    /\ Destroy(doomed["detacher"])
    /\ doomed' = [doomed EXCEPT !["detacher"] = {}] /\ detach' = "wait"
    /\ UNCHANGED <<ringVars, tsVars, stateVars, subVars, dispVars, hwVars, boundVars>>

(* wait_for_timestamp_rb: the last submission of the context has left the   *)
(* ringbuffer, or a recovery has stopped it.                                *)
DetachDone ==
    /\ detach = "wait" /\ (invalid \/ gpu = << >>)
    /\ retired' = timestamp /\ pc' = WakeAll /\ detach' = "done"
    /\ UNCHANGED <<objVars, ringVars, timestamp, queuedTs, stateVars, batch, userTs,
                   snap, dispVars, hwVars, doomed, boundVars>>

(* 30 s later: ask for a recovery, and wait for it no longer than 5 s.      *)
DetachTimeout ==
    /\ detach = "wait" /\ ~invalid /\ gpu # << >> /\ nfaults < MaxFaults
    /\ fault' = TRUE /\ nfaults' = nfaults + 1 /\ detach' = "timedout"
    /\ UNCHANGED <<objVars, ringVars, tsVars, stateVars, subVars, dispVars, inflight,
                   gpu, doomed, nfails>>

DetachGiveUp ==
    /\ detach = "timedout" /\ detach' = "gaveup" /\ pc' = WakeAll
    /\ UNCHANGED <<objVars, ringVars, tsVars, stateVars, batch, userTs, snap,
                   dispVars, hwVars, doomed, boundVars>>

-----------------------------------------------------------------------------
(* What the objects wait for *)

Finish(o) ==
    /\ obj' = [obj EXCEPT ![o].st = "done"] /\ ref' = [ref EXCEPT ![o] = @ - 1]
    /\ UNCHANGED <<nobj, ringVars, retired, dispVars, hwVars>> /\ SubmitterUnchanged

(* A fence signals; the callback drops its reference.                       *)
SyncExpire(o) ==
    /\ o <= nobj /\ obj[o].kind = "sync" /\ obj[o].st = "new" /\ Finish(o)

(* The timestamp event fires, or its cancellation is delivered.             *)
TsSyncExpire(o) ==
    /\ o <= nobj /\ obj[o].kind = "tssync"
    /\ \/ obj[o].st = "new" /\ Retired(obj[o].sts)
       \/ obj[o].st = "cancelled"
    /\ Finish(o)

(* kgsl_drawobj_bind_callback                                               *)
BindDone(o) ==
    /\ o <= nobj /\ obj[o].kind = "bind" /\ obj[o].st = "started" /\ Finish(o)

-----------------------------------------------------------------------------
Submitter(t) ==
    \/ QueueStart(t) \/ QueueRefused(t) \/ QueueWait(t) \/ CheckRoom(t)
    \/ WaitTimeout(t) \/ QueueFastMarker(t) \/ QueueObjs(t)

Dispatch ==
    \/ Consider \/ NextCommand \/ RetireFront \/ StartBind \/ ScanEnds
    \/ TakeCommand \/ SendOk \/ SendGone \/ SendFails \/ Requeue
    \/ WakeSubmitters \/ FinishInvalidate

Recover == RecoverReplay \/ RecoverDrop \/ RecoverGuilty

Detacher ==
    \/ DetachMark \/ DetachDrain \/ DetachDestroy \/ DetachDone
    \/ DetachTimeout \/ DetachGiveUp

Callback(o) == SyncExpire(o) \/ TsSyncExpire(o) \/ BindDone(o)

Next ==
    \/ \E t \in Threads : Submitter(t)
    \/ Dispatch \/ GpuFinish \/ RetireInflight \/ GpuFault \/ Recover \/ Detacher
    \/ \E o \in Objs : Callback(o)

Spec == Init /\ [][Next]_vars

(* A context with work keeps its job on the dispatcher's list, the worker   *)
(* retires before it issues, the lock is fair, the GPU makes progress or    *)
(* faults, and fences signal.  Nobody has to submit, detach or time out.    *)
Fairness ==
    /\ WF_vars(Dispatch) /\ WF_vars(GpuFinish)
    /\ SF_vars(RetireInflight) /\ SF_vars(Recover)
    /\ \A t \in Threads : SF_vars(QueueRefused(t) \/ QueueWait(t) \/ CheckRoom(t)
                                   \/ QueueFastMarker(t) \/ QueueObjs(t))
    /\ SF_vars(DetachDrain) /\ WF_vars(DetachDestroy \/ DetachDone \/ DetachGiveUp)
    /\ \A o \in Objs : WF_vars(Callback(o))

FairSpec == Spec /\ Fairness

-----------------------------------------------------------------------------
(* Properties *)

TypeOK ==
    /\ obj \in [Objs -> ObjRecords] /\ ref \in [Objs -> Int] /\ nobj \in 0 .. MaxObjs
    /\ drawqueue \in [Slots -> Objs \cup {None}]
    /\ head \in Slots /\ tail \in Slots /\ queued \in Int
    /\ timestamp \in Nat /\ queuedTs \in Nat /\ retired \in Nat
    /\ detached \in BOOLEAN /\ invalid \in BOOLEAN
    /\ pc \in [Threads -> {"idle", "queue", "check", "sleep", "woken"}]
    /\ batch \in [Threads -> Batches \cup {<< >>}]
    /\ userTs \in [Threads -> Nat] /\ snap \in [Threads -> Nat]
    /\ dpc \in {"idle", "next", "scan", "busyscan", "send", "requeue", "wake",
                "invalidate"}
    /\ hand \in Objs \cup {None} /\ count \in Nat
    /\ inflight \in Seq(Objs) /\ gpu \in Seq(Objs) /\ fault \in BOOLEAN
    /\ detach \in {"none", "marked", "drained", "wait", "done", "timedout", "gaveup"}
    /\ doomed \in [{"dispatcher", "detacher"} -> SUBSET Objs]
    /\ nfaults \in Nat /\ nfails \in Nat

(* The queue has been emptied for good by an invalidation or a detach.      *)
Drained == invalid \/ detach \notin {"none", "marked"}

(* The count agrees with the distance from head to tail until the queue is  *)
(* drained, and the ring never wraps onto itself.                           *)
RingIntact ==
    ~Drained => /\ 0 <= queued /\ queued < RingSize
                /\ tail = (head + queued) % RingSize

(* Once the queue is drained nothing is ever left in it or put back: the    *)
(* dispatcher may still hold a command, a submitter may still be waiting.   *)
DrainedStaysEmpty == Drained => IsEmpty

(* The objects on their way to the GPU, oldest first.                       *)
Queue == [i \in 1 .. Cardinality(Window) |-> drawqueue[(head + i - 1) % RingSize]]
Pipeline == inflight \o (IF hand = None THEN << >> ELSE <<hand>>) \o Queue

(* References: one per place that holds the object, one for a callback that *)
(* is still to come.  No object leaks, none is used after its last put.     *)
Holders(o) ==
    Cardinality({i \in DOMAIN Pipeline : Pipeline[i] = o})
    + Cardinality({a \in DOMAIN doomed : o \in doomed[a]})
    + (IF \/ obj[o].kind = "sync" /\ obj[o].st = "new"
          \/ obj[o].kind = "tssync" /\ obj[o].st \in {"new", "cancelled"}
          \/ obj[o].kind = "bind" /\ obj[o].st = "started"
        THEN 1 ELSE 0)
RefsMatchHolders == \A o \in 1 .. nobj : ref[o] = Holders(o)

TimestampsInOrder ==
    \A i, j \in DOMAIN Pipeline :
        (i < j /\ obj[Pipeline[i]].ts # 0 /\ obj[Pipeline[j]].ts # 0)
            => obj[Pipeline[i]].ts < obj[Pipeline[j]].ts
NothingRetiresEarly ==
    (~invalid /\ detach \notin {"done", "gaveup"})
        => \A i \in DOMAIN gpu : ~Retired(obj[gpu[i]].ts)

(* A context's timestamps reach the GPU in increasing order, whatever is    *)
(* requeued, replayed or forced out; none is reported as retired while the  *)
(* GPU still works on the command that carries it, though the CPU retires   *)
(* markers and binds in between; and the retired timestamp never goes back. *)
RetiresInOrder ==
    /\ [](TimestampsInOrder /\ NothingRetiresEarly)
    /\ [][retired' >= retired]_vars

(* A detach that did not time out returns only when the GPU is done with    *)
(* the context's memory, and the GPU gets no more of it.                    *)
DetachMeansIdle == detach = "done" => gpu = << >>

(* A submitter that sleeps for room is woken without its timeout, as long   *)
(* as the context lives.                                                    *)
SleeperWoken ==
    \A t \in Threads : (pc[t] = "sleep" /\ ~detached) ~> (pc[t] # "sleep" \/ detached)

(* Every queued object is freed in the end: nothing is stuck behind a       *)
(* marker, in the dispatcher's hand or in a drained queue.                  *)
ObjectsFreed == \A o \in Objs : (o <= nobj) ~> (ref[o] = 0)

(* Sleepers and objects come to their end.                                  *)
EverythingEnds == SleeperWoken /\ ObjectsFreed

(* WARN_ON(prev == drawctxt->drawqueue_tail): room to put a command back.   *)
RequeueHasRoom == (dpc = "requeue" /\ ~ContextBad) => PREV(head) # tail

=============================================================================
