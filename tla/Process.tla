------------------------------ MODULE Process ------------------------------
(***************************************************************************)
(* The private structure of one process in kgsl.c, which lives from the    *)
(* first opened file until the last memory entry and context have gone,    *)
(* and the entries and a context with it: open and close of files,         *)
(* allocation, lookup, the ways to free an entry (at once, at a timestamp, *)
(* when a fence signals, with the process), mappings, and a reader of the  *)
(* process's sysfs files.                                                  *)
(*                                                                         *)
(* Two structures may exist for the process: one that is destroyed and its *)
(* successor.  mem_lock, proclist_lock and context_lock are held within a  *)
(* step; process_mutex and private_mutex over several.                     *)
(***************************************************************************)
EXTENDS Integers, FiniteSets

CONSTANTS
    Privs,      \* structures, the last gone one may be made again
    Files,      \* bound: files open at a time
    Memory,     \* bound: ids of memory entries
    Ioctls,     \* threads of the process in an ioctl
    MaxMaps,    \* bound: vmas of an entry
    Scenes      \* what is tried: sets of the operations below

Ops == {"open", "alloc", "free", "timestamp", "fence", "map", "context", "sysfs"}

ProcessAssumption ==
    /\ IsFiniteSet(Privs) /\ IsFiniteSet(Files) /\ IsFiniteSet(Ioctls)
    /\ Privs # {} /\ Files # {} /\ (Files \cup Ioctls) \cap {"free", "show"} = {}
    /\ MaxMaps \in Nat \ {0}
    /\ IsFiniteSet(Memory) /\ Memory = 1 .. Cardinality(Memory)
    /\ \A s \in Scenes : s \subseteq Ops

VARIABLES
    scene,
    priv,           \* at: none, live, dying (no reference left); refs; fds;
                    \* mutex, private_mutex; putter, who put the last reference
    process_mutex,  \* free, or the file that is being opened
    file,           \* at: none, count, open, contexts, detach, detached, put, lock,
                    \* release, unlock; of, its priv; next, the entry a close looks at
    mem,            \* per entry, at: none, attached, live, dying; refs; pend, pending_free;
                    \* of; vmas; event: none, pending, due; cb, a fence's callback
    ioctl,          \* per thread, at: idle, or the step of its call; op, file, e
    context,        \* at: none, live, detached, cancelled (its events); refs, file, of
    show            \* a sysfs read, at: none, walk, hold, over (a put is left); of; e

vars == <<scene, priv, process_mutex, file, mem, ioctl, context, show>>

\* Where a record of what is not there points
AnyPriv == CHOOSE p \in Privs : TRUE
AnyFile == CHOOSE f \in Files : TRUE
NoPriv == [at |-> "none", refs |-> 0, fds |-> 0, mutex |-> "free", putter |-> "none"]
NoFile == [at |-> "none", of |-> AnyPriv, next |-> 1]
NoEntry == [at |-> "none", refs |-> 0, pend |-> FALSE, of |-> AnyPriv, vmas |-> 0,
            event |-> "none", cb |-> FALSE]
NoCall == [at |-> "idle", op |-> "none", file |-> AnyFile, e |-> 0]
NoContext == [at |-> "none", refs |-> 0, file |-> AnyFile, of |-> AnyPriv]
NoShow == [at |-> "none", of |-> AnyPriv, e |-> 0]

Init ==
    /\ scene \in Scenes
    /\ priv = [p \in Privs |-> NoPriv] /\ process_mutex = "free"
    /\ file = [g \in Files |-> NoFile] /\ mem = [e \in Memory |-> NoEntry]
    /\ ioctl = [t \in Ioctls |-> NoCall] /\ context = NoContext /\ show = NoShow

-----------------------------------------------------------------------------
(* References                                                              *)

Live(p) == priv[p].refs > 0

\* kgsl_process_private_get of a structure with references, and _put
Got(ps, p) == [ps EXCEPT ![p].refs = @ + 1]
Dropped(ps, p, who) ==
    [ps EXCEPT ![p] = [ps[p] EXCEPT !.refs = @ - 1,
                                    !.at = IF ps[p].refs = 1 THEN "dying" ELSE @,
                                    !.putter = IF ps[p].refs = 1 THEN who ELSE @]]

\* kgsl_mem_entry_put by who, who destroys the entry if it was the last
\* reference; and kgsl_mem_entry_put_deferred, which leaves that to a worker.
Puts(e, rec, who) ==
    IF rec.refs = 1
    THEN mem' = [mem EXCEPT ![e] = NoEntry] /\ priv' = Dropped(priv, rec.of, who)
    ELSE mem' = [mem EXCEPT ![e] = [rec EXCEPT !.refs = @ - 1]] /\ UNCHANGED priv
PutLater(rec) == [rec EXCEPT !.refs = @ - 1, !.at = IF rec.refs = 1 THEN "dying" ELSE @]

\* kgsl_mem_entry_destroy in the worker
EntryDestroyed(e) ==
    /\ mem[e].at = "dying"
    /\ mem' = [mem EXCEPT ![e] = NoEntry]
    /\ priv' = Dropped(priv, mem[e].of, "worker")
    /\ UNCHANGED <<scene, process_mutex, file, ioctl, context, show>>

\* kgsl_context_put, twice for a detach: n references
PutsContext(n, who) ==
    IF context.refs = n
    THEN context' = NoContext /\ priv' = Dropped(priv, context.of, who)
    ELSE context' = [context EXCEPT !.refs = @ - n] /\ UNCHANGED priv

\* kgsl_destroy_process_private, which waits for process_mutex and, in
\* kobject_put, for the readers of sysfs
Destroy(p) ==
    /\ priv[p].at = "dying" /\ process_mutex = "free" /\ ~(show.at # "none" /\ show.of = p)
    /\ priv' = [priv EXCEPT ![p] = NoPriv]
    /\ UNCHANGED <<scene, process_mutex, file, mem, ioctl, context, show>>

-----------------------------------------------------------------------------
(* Files                                                                   *)

FileGoes(f, at) == file' = [file EXCEPT ![f].at = at]

\* kgsl_process_private_new under process_mutex: a structure on the list is
\* taken if it has references (fd_count is raised under private_mutex),
\* refused with -EEXIST if not, when the caller tries again; else a new one.
Listed == {p \in Privs : priv[p].at # "none"}
Bug_CanOpen(p) == TRUE
CanOpen(p) == Live(p)
OpenFinds(f) ==
    /\ "open" \in scene /\ file[f].at = "none" /\ process_mutex = "free"
    /\ \E p \in Listed :
        /\ CanOpen(p)
        /\ priv' = Got(priv, p)
        /\ file' = [file EXCEPT ![f] = [@ EXCEPT !.at = "count", !.of = p]]
    /\ process_mutex' = f
    /\ UNCHANGED <<scene, mem, ioctl, context, show>>
OpenCounts(f) ==
    /\ file[f].at = "count" /\ priv[file[f].of].mutex = "free"
    /\ priv' = [priv EXCEPT ![file[f].of].fds = @ + 1]
    /\ process_mutex' = "free"
    /\ FileGoes(f, "open")
    /\ UNCHANGED <<scene, mem, ioctl, context, show>>

OpenMakes(f) ==
    /\ file[f].at = "none" /\ process_mutex = "free" /\ Listed = {}
    /\ \E p \in Privs :
        /\ priv[p].at = "none"
        /\ priv' = [priv EXCEPT ![p] = [NoPriv EXCEPT !.at = "live", !.refs = 1, !.fds = 1]]
        /\ file' = [file EXCEPT ![f] = [@ EXCEPT !.at = "open", !.of = p]]
    /\ UNCHANGED <<scene, process_mutex, mem, ioctl, context, show>>

\* kgsl_release, when no call is under way in the file
Close(f) ==
    /\ file[f].at = "open" /\ \A t \in Ioctls : ioctl[t].at # "idle" => ioctl[t].file # f
    /\ FileGoes(f, "contexts")
    /\ UNCHANGED <<scene, priv, process_mutex, mem, ioctl, context, show>>

\* device_release_contexts detaches the file's context
CloseContext(f) ==
    /\ file[f].at = "contexts"
    /\ IF context.at # "none" /\ context.file = f
       THEN /\ context' = [context EXCEPT !.refs = @ + 1,
                                          !.at = IF @ = "live" THEN "detached" ELSE @]
            /\ FileGoes(f, IF context.at = "live" THEN "detach" ELSE "put")
       ELSE FileGoes(f, "lock") /\ UNCHANGED context
    /\ UNCHANGED <<scene, priv, process_mutex, mem, ioctl, show>>

\* kgsl_context_detach cancels the context's events; then it puts the
\* reference of the timeline and the master reference, and the caller its own.
Cancelled == [e \in Memory |-> IF mem[e].event = "pending" THEN [mem[e] EXCEPT !.event = "due"]
                               ELSE mem[e]]
CloseCancels(f) ==
    /\ file[f].at = "detach"
    /\ mem' = Cancelled /\ context' = [context EXCEPT !.at = "cancelled"]
    /\ FileGoes(f, "detached")
    /\ UNCHANGED <<scene, priv, process_mutex, ioctl, show>>
ClosePuts(f) ==
    /\ file[f].at \in {"detached", "put"}
    /\ PutsContext(IF file[f].at = "put" THEN 1 ELSE 3, f)
    /\ FileGoes(f, "lock")
    /\ UNCHANGED <<scene, process_mutex, mem, ioctl, show>>

\* kgsl_process_private_close: under private_mutex the last file of the
\* process releases what the user has not freed, one entry at a time.
LastFile(p) == priv[p].fds = 1
CloseCounts(f) ==
    LET p == file[f].of IN
    /\ file[f].at = "lock" /\ priv[p].mutex = "free"
    /\ priv' = [priv EXCEPT ![p].fds = @ - 1, ![p].mutex = IF LastFile(p) THEN f ELSE "free"]
    /\ file' = [file EXCEPT ![f] = [@ EXCEPT !.at = IF LastFile(p) THEN "release" ELSE "unlock",
                                             !.next = 1]]
    /\ UNCHANGED <<scene, process_mutex, mem, ioctl, context, show>>
Visible(e, p) == mem[e].at \in {"live", "dying"} /\ mem[e].of = p
ReleaseEntry(f) ==
    LET p == file[f].of  e == file[f].next IN
    /\ file[f].at = "release" /\ e \in Memory
    /\ file' = [file EXCEPT ![f].next = @ + 1]
    /\ IF Visible(e, p) /\ ~mem[e].pend
       THEN Puts(e, [mem[e] EXCEPT !.pend = TRUE], f)
       ELSE UNCHANGED <<mem, priv>>
    /\ UNCHANGED <<scene, process_mutex, ioctl, context, show>>
ReleaseEnds(f) ==
    /\ file[f].at = "release" /\ file[f].next \notin Memory
    /\ priv' = [priv EXCEPT ![file[f].of].mutex = "free"]
    /\ FileGoes(f, "unlock")
    /\ UNCHANGED <<scene, process_mutex, mem, ioctl, context, show>>
CloseEnds(f) ==
    /\ file[f].at = "unlock"
    /\ priv' = Dropped(priv, file[f].of, f)
    /\ file' = [file EXCEPT ![f] = NoFile]
    /\ UNCHANGED <<scene, process_mutex, mem, ioctl, context, show>>

-----------------------------------------------------------------------------
(* Calls                                                                   *)

Goes(t, at) == ioctl' = [ioctl EXCEPT ![t].at = at]
Returns(t) == ioctl' = [ioctl EXCEPT ![t] = NoCall]
Enters(t, f, op, e, at) == ioctl' = [ioctl EXCEPT ![t] = [at |-> at, op |-> op, file |-> f, e |-> e]]
MayCall(t, f, op) == op \in scene /\ ioctl[t].at = "idle" /\ file[f].at = "open"

\* An allocation or an import: kgsl_mem_entry_attach_and_map takes an id and
\* a reference to the process and maps; the id finds nothing until
\* kgsl_mem_entry_commit_process.  The entry has the user's reference and
\* one that the call puts at its end.
Attach(t, f) ==
    /\ MayCall(t, f, "alloc")
    /\ \E e \in Memory :
        /\ mem[e].at = "none"
        /\ mem' = [mem EXCEPT ![e] = [@ EXCEPT !.at = "attached", !.refs = 2, !.of = file[f].of]]
        /\ Enters(t, f, "alloc", e, "map")
    /\ priv' = Got(priv, file[f].of)
    /\ UNCHANGED <<scene, process_mutex, file, context, show>>
MapFails(t) ==
    /\ ioctl[t].at = "map"
    /\ mem' = [mem EXCEPT ![ioctl[t].e] = NoEntry]
    /\ priv' = Dropped(priv, mem[ioctl[t].e].of, t)
    /\ Returns(t)
    /\ UNCHANGED <<scene, process_mutex, file, context, show>>
Commit(t) ==
    /\ ioctl[t].at = "map"
    /\ mem' = [mem EXCEPT ![ioctl[t].e].at = "live"]
    /\ Goes(t, "put")
    /\ UNCHANGED <<scene, priv, process_mutex, file, context, show>>

\* The end of a call with an entry
PutEntry(t) ==
    /\ ioctl[t].at = "put"
    /\ Puts(ioctl[t].e, mem[ioctl[t].e], t)
    /\ Returns(t)
    /\ UNCHANGED <<scene, process_mutex, file, context, show>>

\* kgsl_sharedmem_find_id, for the calls that free the entry or map it
CanFind(e, p) == Visible(e, p) /\ ~mem[e].pend /\ mem[e].refs > 0
Find(t, f) ==
    \E op \in {"free", "timestamp", "fence", "map"}, e \in Memory :
        /\ MayCall(t, f, op) /\ CanFind(e, file[f].of)
        /\ mem' = [mem EXCEPT ![e].refs = @ + 1]
        /\ Enters(t, f, op, e, "found")
        /\ UNCHANGED <<scene, priv, process_mutex, file, context, show>>

\* kgsl_mmap keeps the reference for the vma; kgsl_gpumem_vm_open takes one
\* for a copy and kgsl_gpumem_vm_close puts it.  The vma of an entry with
\* shmem pages does not hold the file.
Map(t) ==
    /\ ioctl[t].at = "found" /\ ioctl[t].op = "map" /\ mem[ioctl[t].e].vmas < MaxMaps
    /\ mem' = [mem EXCEPT ![ioctl[t].e].vmas = @ + 1]
    /\ Returns(t)
    /\ UNCHANGED <<scene, priv, process_mutex, file, context, show>>
VmOpen(e) ==
    /\ mem[e].vmas \in 1 .. MaxMaps - 1
    /\ mem' = [mem EXCEPT ![e].vmas = @ + 1, ![e].refs = @ + 1]
    /\ UNCHANGED <<scene, priv, process_mutex, file, ioctl, context, show>>
VmClose(e) ==
    /\ mem[e].vmas > 0
    /\ Puts(e, [mem[e] EXCEPT !.vmas = @ - 1], "vma")
    /\ UNCHANGED <<scene, process_mutex, file, ioctl, context, show>>

Bug_SetPend(t, next) == Goes(t, next) /\ mem' = [mem EXCEPT ![ioctl[t].e].pend = TRUE]
\* kgsl_mem_entry_set_pend: the first to free the entry gets to put the
\* user's reference, the others -EBUSY.
SetPend(t, next) ==
    LET e == ioctl[t].e IN
    IF mem[e].pend
    THEN Goes(t, IF ioctl[t].op = "timestamp" THEN "putctx" ELSE "put") /\ UNCHANGED mem
    ELSE Goes(t, next) /\ mem' = [mem EXCEPT ![e].pend = TRUE]

\* gpumem_free_entry
Free(t) ==
    /\ ioctl[t].at = "found" /\ ioctl[t].op = "free"
    /\ SetPend(t, "free")
    /\ UNCHANGED <<scene, priv, process_mutex, file, context, show>>
FreePuts(t) ==
    /\ ioctl[t].at = "free"
    /\ Puts(ioctl[t].e, mem[ioctl[t].e], t)
    /\ Goes(t, "put")
    /\ UNCHANGED <<scene, process_mutex, file, context, show>>

\* kgsl_context_get_owner: not of a detached context, nor by another file
CanGetContext(f) == context.at = "live" /\ context.file = f
FreeGetsContext(t) ==
    /\ ioctl[t].at = "found" /\ ioctl[t].op = "timestamp"
    /\ IF CanGetContext(ioctl[t].file)
       THEN context' = [context EXCEPT !.refs = @ + 1] /\ Goes(t, "context")
       ELSE Goes(t, "put") /\ UNCHANGED context
    /\ UNCHANGED <<scene, priv, process_mutex, file, mem, show>>

\* gpumem_free_entry_on_timestamp: the event takes the user's reference over
\* and one of the context; without memory for it the entry stays.  The events
\* of a context that was detached meanwhile are looked at no more: one for a
\* timestamp of the user's own that has not retired stays, with all it holds.
FreeMarks(t) ==
    /\ ioctl[t].at = "context"
    /\ SetPend(t, "event")
    /\ UNCHANGED <<scene, priv, process_mutex, file, context, show>>
UnsetPend(e) == mem' = [mem EXCEPT ![e].pend = FALSE]
AddEvent(t) ==
    /\ ioctl[t].at = "event"
    /\ \E event \in {"pending", "due"} : mem' = [mem EXCEPT ![ioctl[t].e].event = event]
    /\ context' = [context EXCEPT !.refs = @ + 1]
    /\ Goes(t, "putctx")
    /\ UNCHANGED <<scene, priv, process_mutex, file, show>>
AddEventFails(t) ==
    /\ ioctl[t].at = "event"
    /\ UnsetPend(ioctl[t].e)
    /\ Goes(t, "putctx")
    /\ UNCHANGED <<scene, priv, process_mutex, file, context, show>>
FreePutsContext(t) ==
    /\ ioctl[t].at = "putctx"
    /\ PutsContext(1, t)
    /\ Goes(t, "put")
    /\ UNCHANGED <<scene, process_mutex, file, mem, show>>

\* gpuobj_free_on_fence: the callback takes the user's reference over; a
\* fence that has signalled is not waited for, and a bad one is refused.
FreeOnFence(t) ==
    /\ ioctl[t].at = "found" /\ ioctl[t].op = "fence"
    /\ SetPend(t, "wait")
    /\ UNCHANGED <<scene, priv, process_mutex, file, context, show>>
FenceWaits(t) ==
    /\ ioctl[t].at = "wait"
    /\ mem' = [mem EXCEPT ![ioctl[t].e].cb = TRUE]
    /\ Goes(t, "put")
    /\ UNCHANGED <<scene, priv, process_mutex, file, context, show>>
FenceSignalled(t) ==
    /\ ioctl[t].at = "wait"
    /\ mem' = [mem EXCEPT ![ioctl[t].e] = PutLater(@)]
    /\ Goes(t, "put")
    /\ UNCHANGED <<scene, priv, process_mutex, file, context, show>>
FenceRefused(t) ==
    /\ ioctl[t].at = "wait"
    /\ UnsetPend(ioctl[t].e)
    /\ Goes(t, "put")
    /\ UNCHANGED <<scene, priv, process_mutex, file, context, show>>

\* kgsl_ioctl_drawctxt_create: a reference to the process; the context's
\* references are the master's and the timeline's.
CreateContext(t, f) ==
    /\ MayCall(t, f, "context") /\ context.at = "none"
    /\ context' = [at |-> "live", refs |-> 2, file |-> f, of |-> file[f].of]
    /\ priv' = Got(priv, file[f].of)
    /\ UNCHANGED <<scene, process_mutex, file, mem, ioctl, show>>

\* kgsl_ioctl_drawctxt_destroy; of two threads one detaches
DestroyContext(t, f) ==
    /\ MayCall(t, f, "context") /\ CanGetContext(f)
    /\ context' = [context EXCEPT !.refs = @ + 1]
    /\ Enters(t, f, "context", 0, "mark")
    /\ UNCHANGED <<scene, priv, process_mutex, file, mem, show>>
DetachMarks(t) ==
    /\ ioctl[t].at = "mark"
    /\ IF context.at = "live"
       THEN context' = [context EXCEPT !.at = "detached"] /\ Goes(t, "cancel")
       ELSE Goes(t, "put1") /\ UNCHANGED context
    /\ UNCHANGED <<scene, priv, process_mutex, file, mem, show>>
DetachCancels(t) ==
    /\ ioctl[t].at = "cancel"
    /\ mem' = Cancelled /\ context' = [context EXCEPT !.at = "cancelled"]
    /\ Goes(t, "put3")
    /\ UNCHANGED <<scene, priv, process_mutex, file, show>>
DetachPuts(t) ==
    /\ ioctl[t].at \in {"put1", "put3"}
    /\ PutsContext(IF ioctl[t].at = "put1" THEN 1 ELSE 3, t)
    /\ Returns(t)
    /\ UNCHANGED <<scene, process_mutex, file, mem, show>>

-----------------------------------------------------------------------------
(* Callbacks and readers                                                   *)

\* The context's timestamp retires; gpumem_free_func on the events worker
Retire(e) ==
    /\ mem[e].event = "pending" /\ context.at # "cancelled"
    /\ mem' = [mem EXCEPT ![e].event = "due"]
    /\ UNCHANGED <<scene, priv, process_mutex, file, ioctl, context, show>>
EventFrees(e) ==
    /\ mem[e].event = "due"
    /\ mem' = [mem EXCEPT ![e] = PutLater([@ EXCEPT !.event = "none"])]
    /\ PutsContext(1, "event")
    /\ UNCHANGED <<scene, process_mutex, file, ioctl, show>>

\* The fence signals: gpuobj_free_fence_func
FenceFrees(e) ==
    /\ mem[e].cb
    /\ mem' = [mem EXCEPT ![e] = PutLater([@ EXCEPT !.cb = FALSE])]
    /\ UNCHANGED <<scene, priv, process_mutex, file, ioctl, context, show>>

\* memtype_sysfs_show and imported_mem_show: the reader walks the entries,
\* each under a reference, and leaves its reference of the process to a
\* worker.  The file is there until kgsl_destroy_process_private removes it.
ShowStarts ==
    /\ "sysfs" \in scene /\ show = NoShow
    /\ \E p \in Privs :
        /\ Live(p) /\ priv' = Got(priv, p)
        /\ show' = [show EXCEPT !.at = "walk", !.of = p, !.e = 1]
    /\ UNCHANGED <<scene, process_mutex, file, mem, ioctl, context>>
ShowGets ==
    /\ show.at = "walk" /\ show.e \in Memory
    /\ IF Visible(show.e, show.of) /\ mem[show.e].refs > 0
       THEN mem' = [mem EXCEPT ![show.e].refs = @ + 1] /\ show' = [show EXCEPT !.at = "hold"]
       ELSE show' = [show EXCEPT !.e = @ + 1] /\ UNCHANGED mem
    /\ UNCHANGED <<scene, priv, process_mutex, file, ioctl, context>>
ShowPuts ==
    /\ show.at = "hold"
    /\ Puts(show.e, mem[show.e], "show")
    /\ show' = [at |-> "walk", of |-> show.of, e |-> show.e + 1]
    /\ UNCHANGED <<scene, process_mutex, file, ioctl, context>>
Bug_ShowEnds ==
    /\ show.at = "walk" /\ show.e \notin Memory
    /\ show' = NoShow /\ priv' = Dropped(priv, show.of, "show")
    /\ UNCHANGED <<scene, process_mutex, file, mem, ioctl, context>>
ShowEnds ==
    /\ show.at = "walk" /\ show.e \notin Memory
    /\ show' = [show EXCEPT !.at = "over"]
    /\ UNCHANGED <<scene, priv, process_mutex, file, mem, ioctl, context>>
DeferredPut ==
    /\ show.at = "over"
    /\ priv' = Dropped(priv, show.of, "worker")
    /\ show' = NoShow
    /\ UNCHANGED <<scene, process_mutex, file, mem, ioctl, context>>

Opening == \E f \in Files : OpenFinds(f) \/ OpenCounts(f) \/ OpenMakes(f)
Closing ==
    \E f \in Files : \/ Close(f) \/ CloseContext(f) \/ CloseCancels(f) \/ ClosePuts(f)
                     \/ CloseCounts(f) \/ ReleaseEntry(f) \/ ReleaseEnds(f) \/ CloseEnds(f)
Starting ==
    \E t \in Ioctls, f \in Files : \/ Attach(t, f) \/ Find(t, f)
                                   \/ CreateContext(t, f) \/ DestroyContext(t, f)
Calling ==
    \E t \in Ioctls :
        \/ MapFails(t) \/ Commit(t) \/ PutEntry(t) \/ Map(t) \/ Free(t) \/ FreePuts(t)
        \/ FreeGetsContext(t) \/ FreeMarks(t) \/ AddEvent(t) \/ AddEventFails(t)
        \/ FreePutsContext(t) \/ FreeOnFence(t) \/ FenceWaits(t) \/ FenceSignalled(t)
        \/ FenceRefused(t) \/ DetachMarks(t) \/ DetachCancels(t) \/ DetachPuts(t)
Entry == \E e \in Memory : VmOpen(e) \/ VmClose(e) \/ EntryDestroyed(e) \/ Retire(e)
                            \/ EventFrees(e) \/ FenceFrees(e)
Showing == ShowStarts \/ ShowGets \/ ShowPuts \/ ShowEnds \/ DeferredPut
Next ==
    \/ Opening \/ Closing \/ Starting \/ Calling \/ Entry \/ Showing
    \/ \E p \in Privs : Destroy(p)

Spec == Init /\ [][Next]_vars

-----------------------------------------------------------------------------
(* Properties                                                              *)

Count(b) == IF b THEN 1 ELSE 0

\* Files counted in fd_count: counted from the open to the close
Counted == {"open", "contexts", "detach", "detached", "put", "lock"}
OfFiles(p) == {f \in Files : file[f].at # "none" /\ file[f].of = p}

UsesEntry == {"map", "found", "put", "free", "context", "event", "putctx", "wait"}
Callers(e) == Cardinality({t \in Ioctls : ioctl[t].at \in UsesEntry /\ ioctl[t].e = e})
TakesOver(e) == Cardinality({t \in Ioctls : ioctl[t].at \in {"free", "event", "wait"} /\ ioctl[t].e = e})
UsesContext(t) == ioctl[t].at \in {"context", "event", "putctx", "mark", "cancel", "put1", "put3"}

(* Every reference has one holder.  The user's reference of an entry is its *)
(* own until one of those who race to free it has set pending_free, and     *)
(* from then on that caller's, the event's or the fence's, and is put once; *)
(* the timeline's and the master reference of a context are put by the one  *)
(* of its detachers who came first.                                         *)
EntriesHeld ==
    /\ \A e \in Memory : mem[e].at \in {"attached", "live"} =>
        mem[e].refs = Callers(e) + mem[e].vmas + Count(show.at = "hold" /\ show.e = e)
                      + (IF mem[e].pend
                         THEN TakesOver(e) + Count(mem[e].event # "none") + Count(mem[e].cb)
                         ELSE 1)
    /\ \A e \in Memory : mem[e].at \in {"none", "dying"} =>
        /\ mem[e].refs = 0 /\ mem[e].vmas = 0 /\ Callers(e) = 0
        /\ mem[e].event = "none" /\ ~mem[e].cb /\ ~(show.at = "hold" /\ show.e = e)
Detaching == \/ \E f \in Files : file[f].at \in {"detach", "detached"}
             \/ \E t \in Ioctls : ioctl[t].at \in {"cancel", "put3"}
ContextHeld ==
    context.refs = (IF context.at = "live" \/ Detaching THEN 2 ELSE 0)
                   + Cardinality({t \in Ioctls : UsesContext(t)})
                   + Cardinality({f \in Files : file[f].at \in {"detach", "detached", "put"}})
                   + Cardinality({e \in Memory : mem[e].event # "none"})
PrivsHeld ==
    \A p \in Privs :
        priv[p].refs = Cardinality(OfFiles(p))
                       + Cardinality({e \in Memory : mem[e].at # "none" /\ mem[e].of = p})
                       + Count(context.at # "none" /\ context.of = p)
                       + Count(show.at # "none" /\ show.of = p)

(* The process has one structure on the list; the open files are the ones   *)
(* it counts, so that the last of them, and no other, releases the entries. *)
OneProcess ==
    /\ Cardinality(Listed) <= 1
    /\ \A p \in Privs :
        priv[p].fds = Cardinality({f \in OfFiles(p) : file[f].at \in Counted})
    /\ \A f \in Files : file[f].at # "none" => priv[file[f].of].at = "live"

(* Nobody destroys the structure who would wait for himself: the reader,    *)
(* whose file the destruction drains, or one who holds process_mutex.       *)
NotByHolder ==
    \A p \in Privs : priv[p].at = "dying" =>
        /\ priv[p].putter \notin {"show", process_mutex}
        /\ priv[p].mutex = "free"

(* Once the files are closed, the calls, the mappings and the callbacks are *)
(* over and the workers done, nothing of the process is left.               *)
NothingLeaks ==
    (/\ \A f \in Files : file[f].at = "none"
     /\ \A t \in Ioctls : ioctl[t].at = "idle"
     /\ \A e \in Memory : mem[e].vmas = 0 /\ mem[e].event = "none" /\ ~mem[e].cb /\ mem[e].at # "dying"
     /\ \A p \in Privs : priv[p].at # "dying"
     /\ show.at = "none")
    => /\ \A p \in Privs : priv[p].at = "none"
       /\ \A e \in Memory : mem[e].at = "none"
       /\ context.at = "none"

(* The structure of a process, its entries and its context are there as     *)
(* long as someone uses them and gone when nobody does, whoever puts the    *)
(* last reference and whatever he holds.                                    *)
ProcessKept ==
    EntriesHeld /\ ContextHeld /\ PrivsHeld /\ OneProcess /\ NotByHolder /\ NothingLeaks
=============================================================================
