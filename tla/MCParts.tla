------------------------------ MODULE MCParts ------------------------------
(* Instances of the nine small modules for TLC: Ringbuffer, Timeline,     *)
(* Reclaim, Vbo, Process, SyncFences, Snapshot, Pool and AddressSpace.     *)
(* They share no state; a behaviour is one of any of them, and "part" says *)
(* of which.                                                               *)
EXTENDS Ringbuffer

CONSTANTS
    Fences, Objs, User, MaxSeqno, MaxSignals,    \* Timeline
    Entries, PageCount, PageLimit, MaxScan, Submitters, Binders,   \* Reclaim
    BufferPages, Children, Workers, Buffers,     \* Vbo
    Privs, Files, Memory, Ioctls, MaxMaps, Lives,                  \* Process
    Sfences, Creators, Removers,                 \* SyncFences
    Snaps, Readers, MaxFaults,                   \* Snapshot
    MaxPages, PoolPages, Clients, Sizes, TopOrder, MaxScans,       \* Pool
    Objects, Busy                                \* AddressSpace

VARIABLES
    part,
    value, listed, holds, fences, events, lock, temp, doomed, destroy, fence, obj, past,
    signals,
    memory, cmd_count, pinned, foreground, unpinned, owner, job, caller, entry, memlock,
    vmfault,
    buffer, failed, pt, ranges, refs, vbo, user, target, holder, op, ops,
    life, priv, process_mutex, file, mem, ioctl, context, show,
    kind, gpu, drawctxt, ktimeline, source, children, sfence, creator, event, dump, remover,
    shows, snap, current, area, dumping, gmu_fault, faults, reader,
    pools, count, system, client, shrinker, scans,
    task, tree, va_hint, object, mmap, skipped

timelineVars == <<value, listed, holds, fences, events, lock, temp, doomed, destroy, fence,
                  obj, past, signals>>
memoryVars == <<memory, cmd_count, pinned, foreground, unpinned, owner, job, caller, entry,
                memlock, vmfault>>
bufferVars == <<buffer, failed, pt, ranges, refs, vbo, user, target, holder, op, ops>>
processVars == <<life, priv, process_mutex, file, mem, ioctl, context, show>>
fenceVars == <<kind, gpu, drawctxt, ktimeline, source, children, sfence, creator, event, dump,
               remover>>
snapshotVars == <<shows, snap, current, area, dumping, gmu_fault, faults, reader>>
poolVars == <<pools, count, system, client, shrinker, scans>>
addressVars == <<task, tree, va_hint, object, mmap, skipped>>

\* The first object raises the timeline above the second.
TwoOne == [o \in Objs |-> IF o = "o1" THEN 2 ELSE 1]

\* The user frees memory, or it faults on it and a map fails.
Uses == {{"free"}, {"fault", "mapfails"}}

\* A child is bound to all of three pages.  A map fails, or an unmap without
\* zero pages; the user frees the buffer or the child.
FourBuffers == {[zero |-> k[1], fails |-> {k[2]}, frees |-> {k[3]}, ops |-> k[4], first |-> "c"] :
                k \in {<<TRUE, "map", "buffer", 2>>, <<FALSE, "unmap", "c", 2>>,
                       <<TRUE, "map", "c", 1>>, <<FALSE, "unmap", "buffer", 1>>}}

\* A second file, or one that is read in sysfs; the ways to free memory
FiveLives == {{"open", "alloc", "free", "map"}, {"alloc", "free", "timestamp", "context"},
              {"alloc", "fence", "sysfs"}, {"alloc", "map", "fence"},
              {"open", "alloc", "sysfs", "context"}}

\* A context's fences, with two timestamps or a reader of the timeline, or a
\* sync source's
Kinds == {[kind |-> k[1], log |-> k[2], maxTs |-> k[3]] :
             k \in {<<"timeline", FALSE, 2>>, <<"timeline", TRUE, 1>>, <<"source", FALSE, 0>>}}

\* One reader or two, and a GMU fault replaces a snapshot or does not
Shows == {[readers |-> {"r1", "r2"}, prioritize |-> TRUE],
          [readers |-> {"r1"}, prioritize |-> TRUE],
          [readers |-> {"r1", "r2"}, prioritize |-> FALSE]}

\* Pools of single pages, with a reserve, and of pairs, or of pairs only
Devices == {<<[order |-> 0, reserved |-> 1, max |-> 1], [order |-> 1, reserved |-> 0, max |-> 1]>>,
            <<[order |-> 1, reserved |-> 0, max |-> 2]>>}

\* Regions of four pages; a 64-bit process's objects that the CPU maps or not, and
\* a 32-bit process, whose objects are all in one region.  Insertions fail where
\* the hint moves and where addresses are searched for.
Low == [lo |-> 1, hi |-> 5]
Middle == [lo |-> 5, hi |-> 9]
High == [lo |-> 9, hi |-> 13]
Tasks ==
    {[svm |-> Middle, kinds |-> {"gpu"}, shapes |-> {<<1, 1>>, <<2, 2>>},
      may |-> {"id", "map", "unmap", "insert"}],
     [svm |-> Middle, kinds |-> {"svm", "import"}, shapes |-> {<<1, 1>>, <<2, 1>>}, may |-> {}],
     [svm |-> Low, kinds |-> {"compat", "svm", "import"}, shapes |-> {<<1, 1>>, <<2, 2>>},
      may |-> {"insert"}]}

T == INSTANCE Timeline WITH Seqno <- TwoOne, refs <- holds
M == INSTANCE Reclaim WITH Scenes <- Uses, scene <- memory
B == INSTANCE Vbo WITH Pages <- BufferPages, Scenes <- Buffers, scene <- buffer
P == INSTANCE Process WITH Scenes <- Lives, scene <- life
F == INSTANCE SyncFences WITH Scenes <- Kinds, scene <- kind, Fences <- Sfences, fence <- sfence,
                              context <- drawctxt
S == INSTANCE Snapshot WITH Scenes <- Shows, scene <- shows, memory <- area, dump <- dumping
L == INSTANCE Pool WITH Scenes <- Devices, Pages <- PoolPages
A == INSTANCE AddressSpace WITH Compat <- Low, Va <- High, Scenes <- Tasks, scene <- task

ASSUME PartsAssumption ==
    /\ T!TimelineAssumption /\ M!ReclaimAssumption /\ B!VboAssumption
    /\ P!ProcessAssumption /\ F!SyncFencesAssumption
    /\ S!SnapshotAssumption /\ L!PoolAssumption
    /\ A!AddressSpaceAssumption

\* The parts that do not run have one scene.
PartsInit ==
    /\ part \in {"ring", "timeline", "memory", "buffer", "process", "fences",
               "snapshot", "pool", "addresses"}
    /\ Init /\ T!Init /\ M!Init /\ B!Init /\ P!Init /\ F!Init /\ S!Init /\ L!Init
    /\ A!Init
    /\ part # "memory" => memory = {"free"}
    /\ part # "buffer" => buffer.zero /\ buffer.ops = 1
    /\ part # "process" => "timestamp" \in life
    /\ part # "fences" => kind.kind = "source"
    /\ part # "snapshot" => ~shows.prioritize
    /\ part # "pool" => pools[1].order = 1
    /\ part # "addresses" => task.kinds = {"gpu"}

PartsNext ==
    \/ part = "ring" /\ Next
        /\ UNCHANGED <<part, timelineVars, memoryVars, bufferVars,
                       processVars, fenceVars, snapshotVars, poolVars, addressVars>>
    \/ part = "timeline" /\ T!Next
        /\ UNCHANGED <<part, vars, memoryVars, bufferVars,
                       processVars, fenceVars, snapshotVars, poolVars, addressVars>>
    \/ part = "memory" /\ M!Next
        /\ UNCHANGED <<part, vars, timelineVars, bufferVars,
                       processVars, fenceVars, snapshotVars, poolVars, addressVars>>
    \/ part = "buffer" /\ B!Next
        /\ UNCHANGED <<part, vars, timelineVars, memoryVars,
                       processVars, fenceVars, snapshotVars, poolVars, addressVars>>
    \/ part = "process" /\ P!Next
        /\ UNCHANGED <<part, vars, timelineVars, memoryVars,
                       bufferVars, fenceVars, snapshotVars, poolVars, addressVars>>
    \/ part = "fences" /\ F!Next
        /\ UNCHANGED <<part, vars, timelineVars, memoryVars,
                       bufferVars, processVars, snapshotVars, poolVars, addressVars>>
    \/ part = "snapshot" /\ S!Next
        /\ UNCHANGED <<part, vars, timelineVars, memoryVars,
                       bufferVars, processVars, fenceVars, poolVars, addressVars>>
    \/ part = "pool" /\ L!Next
        /\ UNCHANGED <<part, vars, timelineVars, memoryVars, bufferVars,
                       processVars, fenceVars, snapshotVars, addressVars>>
    \/ part = "addresses" /\ A!Next
        /\ UNCHANGED <<part, vars, timelineVars, memoryVars, bufferVars,
                       processVars, fenceVars, snapshotVars, poolVars>>

PartsSpec ==
    /\ PartsInit
    /\ [][PartsNext]_<<part, vars, timelineVars, memoryVars, bufferVars, processVars,
                       fenceVars, snapshotVars, poolVars, addressVars>>

-----------------------------------------------------------------------------
(* The properties of the parts; those of the ringbuffer are Ringbuffer's.  *)

\* The lists of a timeline hold nothing that is freed, and its fences follow
\* its value; the answers to queries never go back.
TimelineKept == [][part = "timeline" => T!StepKept]_<<part, timelineVars>>

\* Memory the GPU may use is not reclaimed, and the count of what is matches.
PagesKept == part = "memory" => M!PagesKept

\* What a virtual buffer maps is held, and is what was asked for.
BuffersKept == part = "buffer" => B!BuffersKept

\* A process's structure, entries and context live as long as they are used.
ProcessKept == part = "process" => P!ProcessKept

\* Fences are signalled, in time and before they are freed.
FencesKept == part = "fences" => F!FencesKept

\* Snapshots live while they are used, and one reader reads one of them.
SnapshotKept == part = "snapshot" => S!SnapshotKept

\* The page pools lose nothing and keep to their limits and their reserve.
PoolKept == [][part = "pool" => L!StepKept]_<<part, poolVars>>

\* No two objects of a process have the same GPU page, unless the hint skipped an
\* address that could not be inserted and both are 64-bit objects of the GPU; the
\* tree holds what they have, and the searches find a gap if there is one.
AddressesKept == part = "addresses" => A!AddressesKept
=============================================================================
