-------------------------------- MODULE Vbo --------------------------------
(***************************************************************************)
(* A virtual buffer object: bind operations, each in a worker of its own,  *)
(* put pages of child entries into the buffer's GPU addresses and take     *)
(* them out again (kgsl_vbo.c).  ranges_lock makes the operations take     *)
(* turns; the user frees the children and the buffer at any time, and the  *)
(* GPU reads the page table at every step of it.                           *)
(***************************************************************************)
EXTENDS Integers, FiniteSets

CONSTANTS
    Pages,     \* the pages of the buffer: 1 .. n
    Children,  \* the ids of the child entries
    Workers,   \* bind operations that may be in flight
    Scenes     \* [zero: the zero page is mapped where no child is,
               \*  first: what is bound to the whole buffer already, or "none",
               \*  fails: which page table operations fail once,
               \*  frees: what the user frees,
               \*  ops: how many bind operations are made]

VboAssumption ==
    /\ IsFiniteSet(Pages) /\ Pages # {} /\ Pages = 1 .. Cardinality(Pages)
    /\ Children \cap {"zero", "none", "any", "buffer"} = {}
    /\ IsFiniteSet(Workers) /\ Workers \cap {"none", "teardown"} = {}
    /\ Scenes \subseteq [zero : BOOLEAN, first : Children \cup {"none"},
                         fails : SUBSET {"map", "unmap"},
                         frees : SUBSET (Children \cup {"buffer"}), ops : Nat]

VARIABLES
    scene,   \* the kind of buffer and what may still fail
    failed,  \* what has failed
    pt,      \* the page table: what each page of the buffer maps
    ranges,  \* memdesc->ranges
    refs,    \* refcount of each child
    vbo,     \* vbo_count of each child
    user,    \* the user's hold of each child and of the buffer
    target,  \* refcount of the buffer
    holder,  \* who holds ranges_lock, or tears the buffer down
    op,      \* what each worker is doing
    ops      \* bind operations made

vars == <<scene, failed, pt, ranges, refs, vbo, user, target, holder, op, ops>>

NoRange == [id |-> 0, start |-> 1, last |-> 0, child |-> "none"]
Idle == [at |-> "idle", bind |-> FALSE, start |-> 0, last |-> 0, child |-> "any",
         left |-> {}, put |-> NoRange, before |-> <<>>]
Buffer == "buffer"
Teardown == "teardown"
Ids == 1 .. Cardinality(Pages) + 2

Init ==
    /\ scene \in Scenes /\ failed = {}
    /\ pt = [p \in Pages |-> IF scene.first = "none" /\ scene.zero THEN "zero" ELSE scene.first]
    /\ ranges = {[id |-> 1, start |-> 1, last |-> Cardinality(Pages), child |-> c] :
                    c \in Children \cap {scene.first}}
    /\ refs = [c \in Children |-> IF c = scene.first THEN 2 ELSE 1]
    /\ vbo = [c \in Children |-> IF c = scene.first THEN 1 ELSE 0]
    /\ user = [x \in Children \cup {Buffer} |-> "live"]
    /\ target = 1 /\ holder = "none"
    /\ op = [w \in Workers \cup {Teardown} |-> Idle] /\ ops = 0

Window(o) == o.start .. o.last
Span(r) == r.start .. r.last
Overlap(a, b) == a.start <= b.last /\ b.start <= a.last
First(rs, r) ==
    r \in rs /\ \A s \in rs : r.start < s.start \/ (r.start = s.start /\ r.id <= s.id)

Maps(ps, what) == pt' = [p \in Pages |-> IF p \in ps THEN what ELSE pt[p]]

\* _iopgtbl_unmap takes the pages out one by one and fails at one that is not
\* there, or when the page table fails.
Unmaps(ps) == Maps(ps, "none") /\ UNCHANGED <<scene, failed>>
UnmapFails(ps) ==
    /\ "unmap" \in scene.fails \/ \E p \in ps : pt[p] = "none"
    /\ \E p \in ps : Maps({q \in ps : q < p}, "none")
    /\ scene' = [scene EXCEPT !.fails = @ \ {"unmap"}]
    /\ failed' = failed \cup {"unmap"}

\* An entry's reference and its vbo_count, taken and put together
Gets(c) == refs' = [refs EXCEPT ![c] = @ + 1] /\ vbo' = [vbo EXCEPT ![c] = @ + 1]
Puts(c) == refs' = [refs EXCEPT ![c] = @ - 1] /\ vbo' = [vbo EXCEPT ![c] = @ - 1]

Becomes(w, o) == op' = [op EXCEPT ![w] = o]
Goes(w, at) == Becomes(w, [op[w] EXCEPT !.at = at])

-----------------------------------------------------------------------------
(* Making, running and freeing a bind operation.                           *)

\* kgsl_sharedmem_create_bind_op: entries that are being freed are not found.
\* Child "any" asks for an unbind of whatever is there.
CreateOp(w) ==
    /\ op[w].at = "idle" /\ ops < scene.ops /\ ops' = ops + 1
    /\ user[Buffer] = "live" /\ target' = target + 1
    /\ \E o \in [bind : BOOLEAN, start : Pages, last : Pages,
                 child : Children \cup {"any"}] :
        /\ o.start <= o.last
        /\ IF o.child = "any" THEN ~o.bind /\ UNCHANGED <<refs, vbo>>
           ELSE user[o.child] = "live" /\ Gets(o.child)
        /\ Becomes(w, [Idle EXCEPT !.at = "start", !.bind = o.bind, !.start = o.start,
                                   !.last = o.last, !.child = o.child])
    /\ UNCHANGED <<scene, failed, pt, ranges, user, holder>>

\* kgsl_sharedmem_bind_worker skips a child that is being freed, ...
SkipsBind(w) ==
    /\ op[w].at = "start" /\ op[w].bind /\ user[op[w].child] # "live"
    /\ Goes(w, "done")
    /\ UNCHANGED <<scene, failed, pt, ranges, refs, vbo, user, target, holder, ops>>

LooksAtChild(w) ==
    /\ op[w].at = "start" /\ op[w].bind /\ user[op[w].child] = "live"
    /\ Goes(w, "makes")
    /\ UNCHANGED <<scene, failed, pt, ranges, refs, vbo, user, target, holder, ops>>

\* ... takes a reference for the new range before it waits for the lock, ...
MakesRange(w) ==
    /\ op[w].at = "makes"
    /\ Gets(op[w].child)
    /\ Goes(w, "locks")
    /\ UNCHANGED <<scene, failed, pt, ranges, user, target, holder, ops>>

\* ... and puts what the operation held when it is done.
FreeOp(w) ==
    /\ op[w].at = "done"
    /\ IF op[w].child = "any" THEN UNCHANGED <<refs, vbo>> ELSE Puts(op[w].child)
    /\ target' = target - 1
    /\ Becomes(w, Idle)
    /\ UNCHANGED <<scene, failed, pt, ranges, user, holder, ops>>

Unlocks(w) == holder' = "none" /\ Goes(w, "done")

-----------------------------------------------------------------------------
(* kgsl_memdesc_add_range.                                                 *)

Touched(o) == {r \in ranges : Overlap(r, o)}
Walks(w) == [op[w] EXCEPT !.at = "walk", !.left = Touched(op[w]), !.before = pt]

\* With zero pages the whole window is unmapped in one call.
AddLocks(w) ==
    /\ op[w].at = "locks" /\ holder = "none" /\ holder' = w
    /\ IF ~scene.zero THEN Becomes(w, Walks(w)) /\ UNCHANGED <<scene, failed, pt>>
       ELSE \/ Unmaps(Window(op[w])) /\ Becomes(w, Walks(w))
            \/ UnmapFails(Window(op[w])) /\ Becomes(w, [Walks(w) EXCEPT !.at = "error"])
    /\ UNCHANGED <<ranges, refs, vbo, user, target, ops>>

Bug_Behind(r, o) == {}

\* What is left of a range behind the window, and before it
Behind(r, o) == IF o.last < r.last THEN {[r EXCEPT !.start = o.last + 1]} ELSE {}
Before(r, o) == IF r.start < o.start THEN {[r EXCEPT !.last = o.start - 1]} ELSE {}
NewId(i) == i \in Ids /\ \A r \in ranges : r.id # i

Bug_Unneeded(r, o) == o.start <= r.start

\* The range lies within the window: it goes.
Unneeded(r, o) == o.start <= r.start /\ r.last <= o.last
Splits(r, o) == r.start < o.start /\ o.last < r.last

\* One range of the walk.  Without zero pages its part of the window is
\* unmapped here.
AddWalk(w) ==
    /\ op[w].at = "walk" /\ op[w].bind
    /\ \E r \in op[w].left :
        /\ First(op[w].left, r)
        /\ IF scene.zero THEN UNCHANGED <<scene, failed, pt>>
           ELSE Unmaps(Span(r) \cap Window(op[w]))
        /\ Becomes(w, [op[w] EXCEPT !.left = @ \ {r},
                          !.put = IF Unneeded(r, op[w]) THEN r ELSE NoRange,
                          !.at = IF Unneeded(r, op[w]) THEN "puts" ELSE "walk"])
        /\ IF Splits(r, op[w])
           THEN /\ Gets(r.child)
                /\ \E i \in Ids :
                    /\ NewId(i)
                    /\ ranges' = (ranges \ {r}) \cup Before(r, op[w])
                        \cup {[s EXCEPT !.id = i] : s \in Behind(r, op[w])}
           ELSE /\ ranges' = IF Unneeded(r, op[w]) THEN ranges \ {r}
                             ELSE (ranges \ {r}) \cup Before(r, op[w]) \cup Behind(r, op[w])
                /\ UNCHANGED <<refs, vbo>>
    /\ UNCHANGED <<user, target, holder, ops>>

\* The range goes back as it was; the far side of a split stays.
AddWalkFails(w) ==
    /\ op[w].at = "walk" /\ op[w].bind /\ ~scene.zero
    /\ \E r \in op[w].left :
        /\ First(op[w].left, r)
        /\ UnmapFails(Span(r) \cap Window(op[w]))
        /\ IF Splits(r, op[w])
           THEN /\ Gets(r.child)
                /\ \E i \in Ids : /\ NewId(i)
                                  /\ ranges' = ranges \cup
                                        {[s EXCEPT !.id = i] : s \in Behind(r, op[w])}
           ELSE UNCHANGED <<ranges, refs, vbo>>
    /\ Goes(w, "error")
    /\ UNCHANGED <<user, target, holder, ops>>

\* bind_range_destroy, after the pages are unmapped
PutsChild(w) ==
    /\ op[w].at = "puts"
    /\ Puts(op[w].put.child)
    /\ Becomes(w, [op[w] EXCEPT !.at = "walk", !.put = NoRange])
    /\ UNCHANGED <<scene, failed, pt, ranges, user, target, holder, ops>>

\* The window is empty: the child is mapped and the range recorded.
AddMaps(w) ==
    /\ op[w].at = "walk" /\ op[w].bind /\ op[w].left = {}
    /\ \/ /\ Maps(Window(op[w]), op[w].child)
          /\ \E i \in Ids : /\ NewId(i)
                            /\ ranges' = ranges \cup {[id |-> i, start |-> op[w].start,
                                               last |-> op[w].last, child |-> op[w].child]}
          /\ Goes(w, "mapped")
          /\ UNCHANGED <<scene, failed>>
       \/ /\ "map" \in scene.fails
          /\ scene' = [scene EXCEPT !.fails = @ \ {"map"}]
          /\ failed' = failed \cup {"map"}
          /\ Goes(w, "error")
          /\ UNCHANGED <<pt, ranges>>
    /\ UNCHANGED <<refs, vbo, user, target, holder, ops>>

AddEnds(w) ==
    /\ op[w].at = "mapped" /\ Unlocks(w)
    /\ UNCHANGED <<scene, failed, pt, ranges, refs, vbo, user, target, ops>>

AddErrs(w) ==
    /\ op[w].at = "error" /\ Puts(op[w].child) /\ Unlocks(w)
    /\ UNCHANGED <<scene, failed, pt, ranges, user, target, ops>>

-----------------------------------------------------------------------------
(* kgsl_memdesc_remove_range: whole ranges go, not just the window's part. *)

RemoveLocks(w) ==
    /\ op[w].at = "start" /\ ~op[w].bind /\ holder = "none" /\ holder' = w
    /\ Becomes(w, [Walks(w) EXCEPT
           !.left = {r \in Touched(op[w]) : op[w].child \in {"any", r.child}}])
    /\ UNCHANGED <<scene, failed, pt, ranges, refs, vbo, user, target, ops>>

\* A range that cannot be unmapped is kept.
RemoveWalk(w) ==
    /\ op[w].at = "walk" /\ ~op[w].bind
    /\ \E r \in op[w].left :
        /\ First(op[w].left, r)
        /\ \/ /\ Unmaps(Span(r)) /\ ranges' = ranges \ {r}
              /\ Becomes(w, [op[w] EXCEPT !.left = @ \ {r}, !.put = r,
                         !.at = IF scene.zero THEN "zeros" ELSE "puts"])
           \/ /\ UnmapFails(Span(r)) /\ Becomes(w, [op[w] EXCEPT !.left = @ \ {r}])
              /\ UNCHANGED ranges
    /\ UNCHANGED <<refs, vbo, user, target, holder, ops>>

RemoveZeros(w) ==
    /\ op[w].at = "zeros" /\ Maps(Span(op[w].put), "zero") /\ Goes(w, "puts")
    /\ UNCHANGED <<scene, failed, ranges, refs, vbo, user, target, holder, ops>>

RemoveEnds(w) ==
    /\ op[w].at = "walk" /\ ~op[w].bind /\ op[w].left = {} /\ Unlocks(w)
    /\ UNCHANGED <<scene, failed, pt, ranges, refs, vbo, user, target, ops>>

-----------------------------------------------------------------------------
(* The user, and the end of the buffer.                                    *)

\* kgsl_mem_entry_set_pend and the put of the user's reference: nothing sees
\* the buffer between the two.
Free(x) ==
    /\ x \in scene.frees /\ user[x] = "live"
    /\ user' = [user EXCEPT ![x] = IF x = Buffer THEN "put" ELSE "pending"]
    /\ target' = IF x = Buffer THEN target - 1 ELSE target
    /\ UNCHANGED <<scene, failed, pt, ranges, refs, vbo, holder, op, ops>>

PutsUser(c) ==
    /\ user[c] = "pending" /\ user' = [user EXCEPT ![c] = "put"]
    /\ refs' = [refs EXCEPT ![c] = @ - 1]
    /\ UNCHANGED <<scene, failed, pt, ranges, vbo, target, holder, op, ops>>

\* kgsl_sharedmem_vbo_put_gpuaddr, by whoever puts the last reference.  A
\* range that could not be unmapped keeps its child for ever.
TearStarts ==
    /\ target = 0 /\ holder = "none" /\ holder' = Teardown
    /\ LET o == [Idle EXCEPT !.at = "tear", !.left = ranges] IN
       IF ~scene.zero THEN Becomes(Teardown, o) /\ UNCHANGED <<scene, failed, pt>>
       ELSE \/ Unmaps(Pages) /\ Becomes(Teardown, o)
            \/ UnmapFails(Pages) /\ Becomes(Teardown, [o EXCEPT !.at = "keep"])
    /\ UNCHANGED <<ranges, refs, vbo, user, target, ops>>

TearWalk ==
    /\ op[Teardown].at \in {"tear", "keep"}
    /\ \E r \in ranges :
        /\ First(ranges, r) /\ ranges' = ranges \ {r}
        /\ IF scene.zero
           THEN /\ UNCHANGED <<scene, failed, pt>>
                /\ IF op[Teardown].at = "tear" THEN Puts(r.child) ELSE UNCHANGED <<refs, vbo>>
           ELSE \/ Unmaps(Span(r)) /\ Puts(r.child)
                \/ UnmapFails(Span(r)) /\ UNCHANGED <<refs, vbo>>
    /\ UNCHANGED <<user, target, holder, op, ops>>

Next ==
    \/ \E w \in Workers :
        \/ CreateOp(w) \/ SkipsBind(w) \/ LooksAtChild(w) \/ MakesRange(w) \/ FreeOp(w)
        \/ AddLocks(w) \/ AddWalk(w) \/ AddWalkFails(w) \/ PutsChild(w) \/ AddMaps(w)
        \/ AddEnds(w) \/ AddErrs(w)
        \/ RemoveLocks(w) \/ RemoveWalk(w) \/ RemoveZeros(w) \/ RemoveEnds(w)
    \/ \E x \in Children \cup {Buffer} : Free(x)
    \/ \E c \in Children : PutsUser(c)
    \/ TearStarts \/ TearWalk

Spec == Init /\ [][Next]_vars

-----------------------------------------------------------------------------
(* Properties.                                                             *)

\* The GPU never reaches memory that is given back or may be reclaimed: at
\* every step of every operation, a child that some page of the buffer maps is
\* held by a reference and counted as bound, also when operations fail, when
\* the child is freed while it is bound and when the buffer is torn down.
MappedIsHeld ==
    \A p \in Pages : pt[p] \in Children => refs[pt[p]] > 0 /\ vbo[pt[p]] > 0

\* Between operations the page table is what the ranges say.
MappedAsBound ==
    holder = "none" /\ "unmap" \notin failed =>
        \A p \in Pages :
            /\ \A c \in Children : pt[p] = c <=> \E r \in ranges : r.child = c /\ p \in Span(r)
            /\ scene.zero /\ failed = {} => pt[p] # "none"

\* A bind that succeeds changes its window and nothing else; an unbind leaves
\* none of the child's pages in its window and touches no other child's.
EndsAsAsked ==
    \A w \in Workers : LET o == op[w] IN
        /\ o.at = "mapped" => \A p \in Pages :
                pt[p] = IF p \in Window(o) THEN o.child ELSE o.before[p]
        /\ o.at = "walk" /\ ~o.bind /\ o.left = {} /\ "unmap" \notin failed => \A p \in Pages :
                /\ p \in Window(o) => pt[p] \in {"zero", "none"} \cup (Children \ {o.child})
                /\ p \in Window(o) /\ o.child = "any" => pt[p] \notin Children
                /\ o.before[p] \in Children /\ o.child \notin {"any", o.before[p]} =>
                        pt[p] = o.before[p]

\* What the user asked for is what the GPU sees, and it is held.
BuffersKept == MappedIsHeld /\ MappedAsBound /\ EndsAsAsked
=============================================================================
