---------------------------- MODULE AddressSpace ----------------------------
(***************************************************************************)
(* The GPU addresses of a process: the tree of kgsl_iommu.c with its two   *)
(* searches and its hint, and how memory objects of kgsl.c get an address  *)
(* by allocation, by a CPU mapping (SVM) or by an import, and lose it.     *)
(*                                                                         *)
(* Addresses are pages.  The page table's lock is held within a step.  An  *)
(* mmap call holds the process's mmap_lock, so one is under way at a time,  *)
(* and names no address.                                                   *)
(***************************************************************************)
EXTENDS Integers, Sequences, FiniteSetsExt, SequencesExt

CONSTANTS
    Objects,   \* memory objects
    Compat,    \* the 32-bit region: its first page and the page behind it
    Va,        \* the region of 64-bit objects that the CPU does not map
    Busy,      \* pages of the CPU's address space, each a mapping of something else
    Scenes     \* svm: the region that the process maps on CPU and GPU;
               \* kinds and shapes: the objects it makes, <<size, alignment>>;
               \* may: what may go wrong

AddressSpaceAssumption ==
    /\ \A s \in Scenes : s.shapes \subseteq (Nat \ {0}) \X (Nat \ {0})
    /\ Compat.lo <= Compat.hi /\ Compat.hi <= Va.lo /\ Va.lo <= Va.hi
    \* The build checks that the 64-bit regions do not overlap.
    /\ \A s \in Scenes : s.svm.hi <= Va.lo \/ Va.hi <= s.svm.lo

VARIABLES
    scene,     \* one of Scenes, for good
    tree,      \* pagetable->rbtree: ranges of pages
    va_hint,   \* pagetable->va_hint
    object,    \* per object: where it is, its kind, size, alignment and address
    mmap,      \* the mmap call under way: its object, and where it looks next
    skipped    \* history, for the properties: the hint has moved over an address
               \* whose insertion then failed

vars == <<scene, tree, va_hint, object, mmap, skipped>>

ENOMEM == -1

Span(base, size) == [base |-> base, size |-> size]
End(e) == e.base + e.size
Align(a, n) == ((a + n - 1) \div n) * n
Down(a, n) == (a \div n) * n

None == [at |-> "no", kind |-> "gpu", size |-> 0, align |-> 1, addr |-> ENOMEM,
         tried |-> FALSE, deferred |-> FALSE]
NoMmap == [of |-> "none", at |-> "no", end |-> 0, iova |-> 0]

Init ==
    /\ scene \in Scenes
    /\ tree = {} /\ va_hint = Va.lo
    /\ object = [o \in Objects |-> None] /\ mmap = NoMmap
    /\ skipped = FALSE

May(accident) == accident \in scene.may

-----------------------------------------------------------------------------
(* The searches, over the tree by rising and by falling address.           *)

Rising == SetToSortSeq(tree, LAMBDA a, b : a.base < b.base)
Falling == Reverse(Rising)

\* An entry that begins below the region may reach into it.
PastBottom(start, e, bottom, align) == IF End(e) > bottom THEN Align(End(e), align) ELSE start

\* The loop of _get_unmapped_area: "at" is where the next gap begins.
SearchUp(r, size, align) ==
    LET bottom == Align(r.lo, align)
        Visit(s, e) ==
            CASE s.over -> s
              [] ~s.over /\ e.base < bottom ->
                     [s EXCEPT !.at = PastBottom(s.at, e, bottom, align)]
              [] ~s.over /\ e.base >= bottom /\ e.base < r.hi ->
                     IF e.base - s.at >= size THEN [s EXCEPT !.over = TRUE]
                     ELSE IF End(e) >= r.hi THEN [at |-> ENOMEM, over |-> TRUE]
                     ELSE [s EXCEPT !.at = Align(End(e), align)]
              [] OTHER -> [s EXCEPT !.over = TRUE]
        last == FoldLeft(Visit, [at |-> bottom, over |-> FALSE], Rising)
    IN  IF last.at + size <= r.hi THEN last.at ELSE ENOMEM

Bug_GapEnds(s, e) == End(e)

\* The next lower gap ends where this entry begins.
GapEnds(s, e) == e.base

\* _get_unmapped_area_topdown: "end" is where the next gap ends.
SearchDown(r, size, align) ==
    LET bottom == Align(r.lo, align)
        Fits(end, above) == end > size /\ above <= Down(end - size, align)
        Visit(s, e) ==
            CASE s.over \/ e.base >= r.hi -> s
              [] ~s.over /\ e.base < r.hi /\ End(e) < bottom -> s
              [] OTHER ->
                     IF Fits(s.end, Align(End(e), align))
                     THEN [end |-> s.end, over |-> TRUE]
                     ELSE IF e.base < bottom THEN [end |-> ENOMEM, over |-> TRUE]
                     ELSE [s EXCEPT !.end = GapEnds(s, e)]
        last == FoldLeft(Visit, [end |-> r.hi, over |-> FALSE], Falling)
    IN  IF size <= r.hi - bottom /\ Fits(last.end, bottom)
        THEN Down(last.end - size, align) ELSE ENOMEM

-----------------------------------------------------------------------------
(* The tree.                                                               *)

HintedStart(size, align) ==
    IF Align(va_hint, align) + size <= Va.hi THEN Align(va_hint, align) ELSE ENOMEM

Region(kind) == IF kind = "compat" THEN Compat ELSE Va

Hinted(o) == object[o].kind = "gpu" /\ HintedStart(object[o].size, object[o].align) # ENOMEM

\* _get_unmapped_area: the hint is for 64-bit objects only.
FreeStart(o) ==
    LET r == object[o] IN
    IF Hinted(o) THEN HintedStart(r.size, r.align)
    ELSE SearchUp(Region(r.kind), r.size, r.align)

NewHint(o) == IF Hinted(o) THEN FreeStart(o) + object[o].size ELSE va_hint

\* rb_prev
Before(e) ==
    LET below == {p \in tree : p.base < e.base}
    IN  {p \in below : \A q \in below : q.base <= p.base}

Bug_HintWithout(e) == Va.lo

\* _remove_gpuaddr: the hint goes back to the end of the entry before.
HintWithout(e) ==
    IF va_hint # End(e) THEN va_hint ELSE Max({Va.lo} \cup {End(p) : p \in Before(e)})

Overlaps(a, b) == a.base < End(b) /\ b.base < End(a)

RemoveGpuaddr(addr) ==
    \E e \in tree : /\ e.base = addr
                    /\ tree' = tree \ {e} /\ va_hint' = HintWithout(e)

\* The page table's memory of an address that its object gives up
Gone(o) == object' = [object EXCEPT ![o] = None]

-----------------------------------------------------------------------------
(* Objects that get an address when they are made.                         *)

\* Ioctls that allocate memory or import user memory
Make(o, kind, shape) ==
    /\ object[o].at = "no"
    /\ object' = [object EXCEPT ![o] =
           [None EXCEPT !.at = "made", !.kind = kind, !.size = shape[1], !.align = shape[2]]]
    /\ UNCHANGED <<scene, tree, va_hint, mmap, skipped>>

\* kgsl_memdesc_use_cpu_map
UsesCpuMap(o) == object[o].kind \in {"svm", "import"}
Wants(o) == object[o].at = "made" /\ ~UsesCpuMap(o)

Finds(o) == Wants(o) /\ FreeStart(o) # ENOMEM
Taken(addr) == \E e \in tree : e.base = addr

\* get_gpuaddr
GetGpuaddr(o) ==
    /\ Finds(o) /\ ~Taken(FreeStart(o))
    /\ tree' = tree \cup {Span(FreeStart(o), object[o].size)}
    /\ va_hint' = NewHint(o)
    /\ object' = [object EXCEPT ![o].at = "addressed", ![o].addr = FreeStart(o)]
    /\ UNCHANGED <<scene, mmap, skipped>>

Flushed == \A p \in Objects : ~object[p].deferred

\* -ENOMEM: once more after the lockless workqueue is flushed
NoRoom(o) ==
    IF object[o].tried THEN Gone(o)
    ELSE Flushed /\ object' = [object EXCEPT ![o].tried = TRUE]

NoAddress(o) ==
    /\ Wants(o) /\ FreeStart(o) = ENOMEM /\ NoRoom(o)
    /\ UNCHANGED <<scene, tree, va_hint, mmap, skipped>>

\* _insert_gpuaddr fails when the hint has moved: there is no memory for the
\* entry, or one begins at the same address, which is not tried again.
InsertFails(o) ==
    /\ Finds(o)
    /\ \/ May("insert") /\ NoRoom(o)
       \/ Taken(FreeStart(o)) /\ Gone(o)
    /\ va_hint' = NewHint(o) /\ skipped' = (skipped \/ Hinted(o))
    /\ UNCHANGED <<scene, tree, mmap>>

\* No id for the object: the address is put back.
NoId(o) ==
    /\ object[o].at = "addressed" /\ ~UsesCpuMap(o) /\ May("id")
    /\ RemoveGpuaddr(object[o].addr) /\ Gone(o)
    /\ UNCHANGED <<scene, mmap, skipped>>

Map(o) ==
    /\ object[o].at = "addressed"
    /\ object' = [object EXCEPT ![o].at = "mapped"]
    /\ mmap' = IF mmap.of = o THEN NoMmap ELSE mmap
    /\ UNCHANGED <<scene, tree, va_hint, skipped>>

\* The address stays in the tree: it is not put if it cannot be unmapped.
MapFails(o) ==
    /\ object[o].at = "addressed" /\ mmap.of # o /\ May("map")
    /\ Gone(o)
    /\ UNCHANGED <<scene, tree, va_hint, mmap, skipped>>

-----------------------------------------------------------------------------
(* Shared virtual memory.                                                  *)

Within(e, r) == r.lo <= e.base /\ End(e) <= r.hi

Bug_CanSet(e) == \A t \in tree : t.base # e.base

\* kgsl_iommu_set_svm_region
CanSet(e) == \A t \in tree : ~Overlaps(t, e)
CannotSet(e) == ~CanSet(e) \/ May("insert")
InSvm(e) == Within(e, Compat) \/ Within(e, scene.svm)

\* Imported user memory keeps the address it has on the CPU.
Import(o, addr) ==
    LET e == Span(addr, object[o].size) IN
    /\ object[o].at = "made" /\ object[o].kind = "import"
    /\ InSvm(e)
    /\ \/ /\ CanSet(e) /\ tree' = tree \cup {e}
          /\ object' = [object EXCEPT ![o].at = "addressed", ![o].addr = addr]
       \/ CannotSet(e) /\ NoRoom(o) /\ UNCHANGED tree
    /\ UNCHANGED <<scene, va_hint, mmap, skipped>>

\* kgsl_get_unmapped_area for an object that the CPU maps
Mmap(o) ==
    /\ mmap.of = "none" /\ object[o].at = "made" /\ object[o].kind = "svm"
    /\ mmap' = [of |-> o, at |-> "find", end |-> scene.svm.hi, iova |-> 0]
    /\ UNCHANGED <<scene, tree, va_hint, object, skipped>>

Looking(o) == mmap.of = o /\ mmap.at = "find"

Found(o) ==
    IF mmap.end <= scene.svm.lo THEN ENOMEM
    ELSE SearchDown([lo |-> scene.svm.lo, hi |-> mmap.end], object[o].size, object[o].align)

\* kgsl_mmu_find_svm_region
FindSvmRegion(o) ==
    /\ Looking(o) /\ Found(o) # ENOMEM
    /\ mmap' = [mmap EXCEPT !.at = "try", !.iova = Found(o)]
    /\ UNCHANGED <<scene, tree, va_hint, object, skipped>>

\* The whole call is tried again after a flush.
NothingFound(o) ==
    /\ Looking(o) /\ Found(o) = ENOMEM /\ NoRoom(o)
    /\ mmap' = NoMmap
    /\ UNCHANGED <<scene, tree, va_hint, skipped>>

Trying(o) == mmap.of = o /\ mmap.at = "try"
Tried(o) == Span(mmap.iova, object[o].size)
Pages(e) == e.base .. End(e) - 1

\* The search goes on below the mapping that is in the way.
SkipsVma(o) ==
    /\ Trying(o) /\ Pages(Tried(o)) \cap Busy # {}
    /\ mmap' = [mmap EXCEPT !.at = "find", !.end = Min(Pages(Tried(o)) \cap Busy) - 1]
    /\ UNCHANGED <<scene, tree, va_hint, object, skipped>>

\* _gpu_set_svm_region: somebody may have taken it since.
SetSvmRegion(o) ==
    /\ Trying(o) /\ Pages(Tried(o)) \cap Busy = {}
    /\ \/ /\ CanSet(Tried(o)) /\ tree' = tree \cup {Tried(o)}
          /\ object' = [object EXCEPT ![o].at = "addressed", ![o].addr = mmap.iova]
          /\ mmap' = [mmap EXCEPT !.at = "set"]
       \/ /\ CannotSet(Tried(o)) /\ UNCHANGED <<tree, object>>
          /\ mmap' = [mmap EXCEPT !.at = "find", !.end = mmap.iova - 1]
    /\ UNCHANGED <<scene, va_hint, skipped>>

-----------------------------------------------------------------------------
(* Freeing: by the thread, or deferred to the lockless workqueue.          *)

Free(o) ==
    /\ \/ object[o].at = "mapped"
       \/ object[o].at = "made" /\ object[o].kind = "svm" /\ mmap.of # o
    /\ \E deferred \in BOOLEAN :
           object' = [object EXCEPT ![o].at = "freed", ![o].deferred = deferred]
    /\ UNCHANGED <<scene, tree, va_hint, mmap, skipped>>

\* kgsl_unmap_and_put_gpuaddr
PutGpuaddr(o) ==
    /\ object[o].at = "freed"
    /\ \/ object[o].addr # ENOMEM /\ RemoveGpuaddr(object[o].addr)
       \/ \* never addressed, or it does not unmap
          /\ object[o].addr = ENOMEM \/ May("unmap")
          /\ UNCHANGED <<tree, va_hint>>
    /\ Gone(o)
    /\ UNCHANGED <<scene, mmap, skipped>>

Next ==
    \E o \in Objects :
        \/ \E kind \in scene.kinds, shape \in scene.shapes : Make(o, kind, shape)
        \/ GetGpuaddr(o) \/ NoAddress(o) \/ InsertFails(o) \/ NoId(o)
        \/ Map(o) \/ MapFails(o)
        \/ \E addr \in Compat.lo .. scene.svm.hi : Import(o, addr)
        \/ Mmap(o) \/ FindSvmRegion(o) \/ NothingFound(o) \/ SkipsVma(o) \/ SetSvmRegion(o)
        \/ Free(o) \/ PutGpuaddr(o)

Spec == Init /\ [][Next]_vars

-----------------------------------------------------------------------------
(* Properties.                                                             *)

Has(o) == object[o].addr # ENOMEM
RangeOf(o) == Span(object[o].addr, object[o].size)

\* What the hint, the searches and the SVM calls put in the tree is apart.  Only
\* 64-bit objects that the CPU does not map may overlap, and only when the hint
\* once moved over an address whose insertion failed: it is then ahead of the
\* highest entry, and a search may put an entry across it.
NothingOverlaps ==
    \A a, b \in tree : a # b =>
        /\ a.base # b.base
        /\ Overlaps(a, b) => skipped /\ Within(a, Va) /\ Within(b, Va)

\* Who has an address has an entry of its own in the tree, in its region and
\* aligned; and the tree has nothing that nobody has, unless a map or an unmap
\* failed.
AddressesOwned ==
    /\ \A o, p \in Objects : o # p /\ Has(o) /\ Has(p) => RangeOf(o) # RangeOf(p)
    /\ \A o \in Objects : Has(o) =>
           /\ RangeOf(o) \in tree
           /\ object[o].kind # "import" => object[o].addr % object[o].align = 0
           /\ IF UsesCpuMap(o) THEN InSvm(RangeOf(o))
              ELSE Within(RangeOf(o), Region(object[o].kind))
    /\ ~May("map") /\ ~May("unmap") => tree \subseteq {RangeOf(o) : o \in Objects}

Gap(r, size, align, a) ==
    /\ a % align = 0 /\ Within(Span(a, size), r)
    /\ \A e \in tree : ~Overlaps(e, Span(a, size))

\* Whatever is in the tree, a search finds a gap if there is one: the upward one
\* the lowest, the downward one the highest.  Both rely on entries that are apart.
SearchesFind ==
    \A r \in {Compat, scene.svm} \cup (IF skipped THEN {} ELSE {Va}), shape \in scene.shapes :
        LET size == shape[1]
            align == shape[2]
            gaps == {a \in r.lo .. r.hi : Gap(r, size, align, a)}
        IN  /\ SearchUp(r, size, align) = IF gaps = {} THEN ENOMEM ELSE Min(gaps)
            /\ SearchDown(r, size, align) = IF gaps = {} THEN ENOMEM ELSE Max(gaps)

AddressesKept == NothingOverlaps /\ AddressesOwned /\ SearchesFind
=============================================================================
