------------------------------ MODULE Reclaim ------------------------------
(***************************************************************************)
(* The memory of one process under kgsl_reclaim.c: a worker takes the      *)
(* pages of an idle background process away, and whoever uses the memory   *)
(* again brings them back: a submission, a bind operation, the hint that   *)
(* the process is in the foreground, or a fault of the CPU on one page.    *)
(*                                                                         *)
(* reclaim_lock makes the worker and those that pin take turns; the CPU's  *)
(* fault takes only memdesc->lock.                                         *)
(***************************************************************************)
EXTENDS Integers, FiniteSets

CONSTANTS
    Entries,     \* the ids of the memory entries: 1 .. n
    PageCount,   \* the pages of each
    PageLimit,   \* kgsl_reclaim_max_page_limit
    MaxScan,     \* the pages the shrinker asks for: one at least
    Submitters,  \* threads that submit a command
    Binders,     \* threads that bind an entry to a virtual buffer
    Scenes       \* what may happen: sets of "fault", "free", "mapfails"

ReclaimAssumption ==
    /\ PageCount \in Nat \ {0} /\ PageLimit \in Nat /\ MaxScan \in Nat \ {0}
    /\ IsFiniteSet(Entries) /\ Entries = 1 .. Cardinality(Entries)
    /\ IsFiniteSet(Submitters) /\ IsFiniteSet(Binders) /\ Submitters \cap Binders = {}
    /\ {"none", "fg_work", "reclaim_work"} \cap (Submitters \cup Binders) = {}

VARIABLES
    scene,      \* what may happen in this behaviour
    cmd_count,  \* process->cmd_count
    pinned,     \* KGSL_PROC_PINNED_STATE
    foreground, \* KGSL_PROC_STATE
    unpinned,   \* process->unpinned_page_count
    owner,      \* who holds reclaim_lock
    job,        \* what the owner is doing, on which entry and page
    caller,     \* where each thread is
    entry,      \* the entries: user's hold, flags, mapping, pages, vbo_count
    memlock,    \* memdesc->lock of each entry is taken
    vmfault     \* the CPU's fault

vars == <<scene, cmd_count, pinned, foreground, unpinned, owner, job, caller,
          entry, memlock, vmfault>>

Page == 1 .. PageCount
Fg == "fg_work"
Reclaimer == "reclaim_work"
Callers == Submitters \cup Binders \cup {Fg}
Idle == [at |-> "idle", e |-> 0, page |-> 0, left |-> 0]
NoFault == [at |-> "no", e |-> 0, page |-> 0]

Init ==
    /\ scene \in Scenes
    /\ cmd_count = 0 /\ pinned = TRUE /\ foreground = TRUE /\ unpinned = 0
    /\ owner = "none" /\ job = Idle
    /\ caller = [c \in Callers |-> "idle"]
    /\ entry = [e \in Entries |-> [user |-> "live", reclaimed |-> FALSE, skip |-> FALSE,
                                   mapped |-> TRUE, pages |-> Page, vbo |-> {}]]
    /\ memlock = [e \in Entries |-> FALSE]
    /\ vmfault = NoFault

\* Who holds a reference of an entry besides the user: the one that works on
\* it, the fault (through its vma) and the virtual buffers.
Held(e) ==
    \/ job.e = e /\ job.at \notin {"idle", "scan"}
    \/ vmfault.e = e
    \/ entry[e].vbo # {}

\* kref_get_unless_zero
CanGet(e) == entry[e].user \in {"live", "pending"} \/ Held(e)

\* idr_get_next: the entry behind the one looked at last
Following == {e \in Entries : e > job.e /\ entry[e].user # "freed"}
NextEntry(e) == e \in Following /\ \A f \in Following : e <= f

Goes(at) == job' = [job EXCEPT !.at = at]
Sets(e, rec) == entry' = [entry EXCEPT ![e] = rec]

-----------------------------------------------------------------------------
(* The process.                                                            *)

Foreground ==
    /\ ~foreground /\ foreground' = TRUE
    /\ caller' = IF caller[Fg] = "idle" THEN [caller EXCEPT ![Fg] = "waits"] ELSE caller
    /\ UNCHANGED <<scene, cmd_count, pinned, unpinned, owner, job, entry, memlock, vmfault>>

Background ==
    /\ foreground /\ foreground' = FALSE
    /\ UNCHANGED <<scene, cmd_count, pinned, unpinned, owner, job, caller, entry,
                   memlock, vmfault>>

\* kgsl_drawobj_cmd_create, or the start of kgsl_sharedmem_create_bind_op:
\* the command counts before the memory is pinned.
Create(c) ==
    /\ c # Fg /\ caller[c] = "idle"
    /\ caller' = [caller EXCEPT ![c] = "waits"]
    /\ cmd_count' = cmd_count + 1
    /\ UNCHANGED <<scene, pinned, foreground, unpinned, owner, job, entry, memlock, vmfault>>

\* The command was queued and has retired: kgsl_drawobj_destroy.
Retire(c) ==
    /\ c \in Submitters /\ caller[c] = "ready"
    /\ caller' = [caller EXCEPT ![c] = "idle"]
    /\ cmd_count' = cmd_count - 1
    /\ UNCHANGED <<scene, pinned, foreground, unpinned, owner, job, entry, memlock, vmfault>>

\* kgsl_sharedmem_create_bind_op: the child is looked up and kept; from then
\* on its vbo_count keeps it pinned.
Bind(c) ==
    /\ c \in Binders /\ caller[c] = "ready"
    /\ \E e \in Entries :
        /\ entry[e].user = "live"
        /\ Sets(e, [entry[e] EXCEPT !.vbo = @ \cup {c}])
    /\ caller' = [caller EXCEPT ![c] = "bound"]
    /\ cmd_count' = cmd_count - 1
    /\ UNCHANGED <<scene, pinned, foreground, unpinned, owner, job, memlock, vmfault>>

\* The range is taken out of the virtual buffer: bind_range_destroy.
Unbind(c) ==
    /\ caller[c] = "bound"
    /\ entry' = [e \in Entries |-> [entry[e] EXCEPT !.vbo = @ \ {c}]]
    /\ caller' = [caller EXCEPT ![c] = "idle"]
    /\ UNCHANGED <<scene, cmd_count, pinned, foreground, unpinned, owner, job, memlock,
                   vmfault>>

\* kgsl_mem_entry_set_pend, and the put of the user's reference
Free(e) ==
    /\ "free" \in scene
    /\ \/ entry[e].user = "live" /\ Sets(e, [entry[e] EXCEPT !.user = "pending"])
       \/ entry[e].user = "pending" /\ Sets(e, [entry[e] EXCEPT !.user = "put"])
    /\ UNCHANGED <<scene, cmd_count, pinned, foreground, unpinned, owner, job, caller,
                   memlock, vmfault>>

Bug_Unreclaimed(e) == 0

\* What a reclaimed entry takes off the count when it goes: all its pages
Unreclaimed(e) == IF entry[e].reclaimed THEN PageCount ELSE 0

\* kgsl_mem_entry_detach_process by whoever puts the last reference
Destroy(e) ==
    /\ entry[e].user = "put" /\ ~Held(e)
    /\ Sets(e, [entry[e] EXCEPT !.user = "freed", !.mapped = FALSE])
    /\ unpinned' = unpinned - Unreclaimed(e)
    /\ UNCHANGED <<scene, cmd_count, pinned, foreground, owner, job, caller, memlock,
                   vmfault>>

-----------------------------------------------------------------------------
(* kgsl_reclaim_process, under reclaim_lock.                               *)

ReclaimStarts ==
    /\ owner = "none" /\ ~foreground
    /\ owner' = Reclaimer
    /\ \E n \in 1 .. MaxScan : job' = [Idle EXCEPT !.at = "scan", !.left = n]
    /\ UNCHANGED <<scene, cmd_count, pinned, foreground, unpinned, caller, entry, memlock,
                   vmfault>>

\* The count is compared as an unsigned number: a negative one is large.
OverLimit == unpinned >= PageLimit \/ unpinned < 0

Bug_Aborts == foreground

\* A command or the foreground hint ends the reclaim.
Aborts == cmd_count > 0 \/ foreground

MayReclaim(e) ==
    entry[e].user = "live" /\ ~entry[e].reclaimed /\ ~entry[e].skip

ReclaimPicks ==
    /\ owner = Reclaimer /\ job.at = "scan" /\ job.left > 0
    /\ ~OverLimit /\ ~Aborts
    /\ \E e \in Entries :
        /\ NextEntry(e)
        /\ job' = [job EXCEPT !.e = e, !.at = IF MayReclaim(e) THEN "taken" ELSE "scan"]
    /\ UNCHANGED <<scene, cmd_count, pinned, foreground, unpinned, owner, caller, entry,
                   memlock, vmfault>>

Bug_Fits(e) == unpinned + PageCount <= PageLimit /\ PageCount <= job.left

\* Not mapped into a virtual buffer, and within what may be taken
Fits(e) ==
    /\ entry[e].vbo = {}
    /\ unpinned + PageCount <= PageLimit /\ PageCount <= job.left

ReclaimPasses ==
    /\ owner = Reclaimer /\ job.at = "taken"
    /\ ~Fits(job.e) \/ "mapfails" \in scene
    /\ Goes("scan")
    /\ UNCHANGED <<scene, cmd_count, pinned, foreground, unpinned, owner, caller, entry,
                   memlock, vmfault>>

ReclaimUnmaps ==
    /\ owner = Reclaimer /\ job.at = "taken" /\ Fits(job.e)
    /\ Sets(job.e, [entry[job.e] EXCEPT !.mapped = FALSE])
    /\ job' = [job EXCEPT !.at = "clears", !.page = 1]
    /\ UNCHANGED <<scene, cmd_count, pinned, foreground, unpinned, owner, caller, memlock,
                   vmfault>>

\* kgsl_memdesc_clear_unevictable, one page under memdesc->lock
ReclaimPage ==
    /\ job.at = "clears" /\ job.page \in Page /\ ~memlock[job.e]
    /\ Sets(job.e, [entry[job.e] EXCEPT !.pages = @ \ {job.page}])
    /\ unpinned' = unpinned + 1
    /\ job' = [job EXCEPT !.page = @ + 1]
    /\ UNCHANGED <<scene, cmd_count, pinned, foreground, owner, caller, memlock, vmfault>>

ReclaimMarks ==
    /\ job.at = "clears" /\ job.page > PageCount
    /\ Sets(job.e, [entry[job.e] EXCEPT !.reclaimed = TRUE])
    /\ job' = [job EXCEPT !.at = "scan", !.left = @ - PageCount]
    /\ UNCHANGED <<scene, cmd_count, pinned, foreground, unpinned, owner, caller, memlock,
                   vmfault>>

Bug_StaysPinned == pinned

\* The process is no longer pinned once any entry was looked at.
StaysPinned == pinned /\ job.e = 0

ReclaimEnds ==
    /\ owner = Reclaimer /\ job.at = "scan"
    /\ job.left <= 0 \/ OverLimit \/ Aborts \/ Following = {}
    /\ pinned' = StaysPinned
    /\ owner' = "none" /\ job' = Idle
    /\ UNCHANGED <<scene, cmd_count, foreground, unpinned, caller, entry, memlock, vmfault>>

-----------------------------------------------------------------------------
(* kgsl_reclaim_to_pinned_state, under reclaim_lock.                       *)

\* The hint's work looks at the state once more before it pins.
FgPasses ==
    /\ caller[Fg] = "waits" /\ owner # Fg /\ ~foreground
    /\ caller' = [caller EXCEPT ![Fg] = "idle"]
    /\ UNCHANGED <<scene, cmd_count, pinned, foreground, unpinned, owner, job, entry,
                   memlock, vmfault>>

\* What the caller does when its memory is pinned
Pinned(c) == caller' = [caller EXCEPT ![c] = IF c = Fg THEN "idle" ELSE "ready"]

PinStarts(c) ==
    /\ caller[c] = "waits" /\ owner = "none"
    /\ IF pinned THEN Pinned(c) /\ UNCHANGED <<owner, job>>
       ELSE /\ owner' = c /\ job' = [Idle EXCEPT !.at = "scan"]
            /\ UNCHANGED caller
    /\ UNCHANGED <<scene, cmd_count, pinned, foreground, unpinned, entry, memlock, vmfault>>

Pins == owner \in Callers

PinPicks ==
    /\ Pins /\ job.at = "scan"
    /\ \E e \in Entries :
        /\ NextEntry(e)
        /\ job' = [job EXCEPT !.e = e,
               !.at = IF entry[e].reclaimed /\ CanGet(e) THEN "enters" ELSE "scan"]
    /\ UNCHANGED <<scene, cmd_count, pinned, foreground, unpinned, owner, caller, entry,
                   memlock, vmfault>>

\* kgsl_memdesc_get_reclaimed_pages takes memdesc->lock once, before the
\* first page, ...
PinEnters ==
    /\ job.at = "enters" /\ ~memlock[job.e]
    /\ memlock' = [memlock EXCEPT ![job.e] = TRUE]
    /\ job' = [job EXCEPT !.at = "looks", !.page = 1]
    /\ UNCHANGED <<scene, cmd_count, pinned, foreground, unpinned, owner, caller, entry,
                   vmfault>>

PinSkips ==
    /\ job.at = "looks" /\ job.page \in entry[job.e].pages
    /\ job' = [job EXCEPT !.page = @ + 1]
    /\ UNCHANGED <<scene, cmd_count, pinned, foreground, unpinned, owner, caller, entry,
                   memlock, vmfault>>

\* ... and releases it for each missing page, though it holds it only for the
\* first: the lock may be another's.
PinReads ==
    /\ job.at = "looks" /\ job.page \in Page \ entry[job.e].pages
    /\ memlock' = [memlock EXCEPT ![job.e] = FALSE]
    /\ Goes("relocks")
    /\ UNCHANGED <<scene, cmd_count, pinned, foreground, unpinned, owner, caller, entry,
                   vmfault>>

\* The page is put in place unless the fault did it meanwhile; the lock is
\* taken and released.
PinFills ==
    /\ job.at = "relocks" /\ ~memlock[job.e]
    /\ IF job.page \in entry[job.e].pages THEN UNCHANGED <<entry, unpinned>>
       ELSE /\ Sets(job.e, [entry[job.e] EXCEPT !.pages = @ \cup {job.page}])
            /\ unpinned' = unpinned - 1
    /\ job' = [job EXCEPT !.at = "looks", !.page = @ + 1]
    /\ UNCHANGED <<scene, cmd_count, pinned, foreground, owner, caller, memlock, vmfault>>

\* Behind the last page the lock is released again; then the entry is mapped.
PinLeaves ==
    /\ job.at = "looks" /\ job.page > PageCount
    /\ memlock' = [memlock EXCEPT ![job.e] = FALSE]
    /\ Goes("maps")
    /\ UNCHANGED <<scene, cmd_count, pinned, foreground, unpinned, owner, caller, entry,
                   vmfault>>

PinMaps ==
    /\ job.at = "maps"
    /\ Sets(job.e, [entry[job.e] EXCEPT !.mapped = TRUE, !.reclaimed = FALSE,
                                        !.skip = FALSE])
    /\ Goes("scan")
    /\ UNCHANGED <<scene, cmd_count, pinned, foreground, unpinned, owner, caller, memlock,
                   vmfault>>

\* Without its pages the command is not queued: its object is destroyed.
PinFails ==
    /\ "mapfails" \in scene /\ Pins /\ job.at \in {"relocks", "maps"}
    /\ owner' = "none" /\ job' = Idle
    /\ caller' = [caller EXCEPT ![owner] = "idle"]
    /\ cmd_count' = IF owner = Fg THEN cmd_count ELSE cmd_count - 1
    /\ UNCHANGED <<scene, pinned, foreground, unpinned, entry, memlock, vmfault>>

PinEnds ==
    /\ Pins /\ job.at = "scan" /\ Following = {}
    /\ pinned' = TRUE
    /\ Pinned(owner)
    /\ owner' = "none" /\ job' = Idle
    /\ UNCHANGED <<scene, cmd_count, foreground, unpinned, entry, memlock, vmfault>>

-----------------------------------------------------------------------------
(* kgsl_paged_vmfault.                                                     *)

\* A page that is missing marks the memory; one that is there needs nothing.
FaultMarks ==
    /\ "fault" \in scene /\ vmfault = NoFault
    /\ \E e \in Entries, p \in Page :
        /\ entry[e].user \in {"live", "pending"} /\ ~memlock[e]
        /\ p \notin entry[e].pages
        /\ Sets(e, [entry[e] EXCEPT !.skip = TRUE])
        /\ vmfault' = [at |-> "reads", e |-> e, page |-> p]
    /\ UNCHANGED <<scene, cmd_count, pinned, foreground, unpinned, owner, job, caller,
                   memlock>>

FaultLooks ==
    /\ vmfault.at = "reads" /\ ~memlock[vmfault.e]
    /\ IF vmfault.page \in entry[vmfault.e].pages
       THEN vmfault' = NoFault /\ UNCHANGED memlock
       ELSE /\ memlock' = [memlock EXCEPT ![vmfault.e] = TRUE]
            /\ vmfault' = [vmfault EXCEPT !.at = "fills"]
    /\ UNCHANGED <<scene, cmd_count, pinned, foreground, unpinned, owner, job, caller,
                   entry>>

FaultFills ==
    /\ vmfault.at = "fills"
    /\ Sets(vmfault.e, [entry[vmfault.e] EXCEPT !.pages = @ \cup {vmfault.page}])
    /\ unpinned' = unpinned - 1
    /\ memlock' = [memlock EXCEPT ![vmfault.e] = FALSE]
    /\ vmfault' = NoFault
    /\ UNCHANGED <<scene, cmd_count, pinned, foreground, owner, job, caller>>

Next ==
    \/ Foreground \/ Background
    \/ \E c \in Callers : Create(c) \/ Retire(c) \/ Bind(c) \/ Unbind(c) \/ PinStarts(c)
    \/ \E e \in Entries : Free(e) \/ Destroy(e)
    \/ ReclaimStarts \/ ReclaimPicks \/ ReclaimPasses \/ ReclaimUnmaps
    \/ ReclaimPage \/ ReclaimMarks \/ ReclaimEnds
    \/ FgPasses \/ PinPicks \/ PinEnters \/ PinSkips \/ PinReads \/ PinFills
    \/ PinLeaves \/ PinMaps \/ PinFails \/ PinEnds
    \/ FaultMarks \/ FaultLooks \/ FaultFills

Spec == Init /\ [][Next]_vars

-----------------------------------------------------------------------------
(* Properties.                                                             *)

\* Memory the GPU may use is there: while a command is queued every entry of
\* its process is mapped with all its pages, and so is an entry that a
\* virtual buffer maps, in whatever order the worker, the hints, the faults
\* and other commands come.
PinnedWhileUsed ==
    \A e \in Entries :
        \/ \E c \in Submitters : caller[c] = "ready" /\ entry[e].user = "live"
        \/ entry[e].vbo # {}
        => entry[e].mapped /\ entry[e].pages = Page

Missing == {x \in Entries \X Page :
                entry[x[1]].user # "freed" /\ x[2] \notin entry[x[1]].pages}

\* The count of unpinned pages that bounds the reclaim is the number of pages
\* that are missing; a fault of the CPU or a failed map breaks it.
UnpinnedMatches ==
    scene \cap {"fault", "mapfails"} = {} => unpinned = Cardinality(Missing)

\* What the GPU uses is there, and the reclaim knows how much it took away.
PagesKept == PinnedWhileUsed /\ UnpinnedMatches

\* "The number of pages unpinned for reclaim"
CountsUnpinned == unpinned = Cardinality(Missing)

\* "Update the pages array only if vmfault has not updated it meanwhile": a
\* page is put in place where none is.
FilledOnce ==
    [][~(/\ vmfault.at = "fills" /\ vmfault' = NoFault
         /\ vmfault.page \in entry[vmfault.e].pages)]_vars
=============================================================================
