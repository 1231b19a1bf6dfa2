------------------------------ MODULE Snapshot ------------------------------
(***************************************************************************)
(* The GPU snapshots of kgsl_snapshot.c: a fault dumps the device into one *)
(* static area, a worker saves the frozen buffers, readers of the sysfs    *)
(* file copy both out piece by piece, and a later GMU fault may replace a  *)
(* snapshot that is being read.                                            *)
(*                                                                         *)
(* The build without CONFIG_QCOM_KGSL_DEVCOREDUMP; the atomic snapshot of  *)
(* a panic is left out.  The device mutex is held while "dump" is at work, *)
(* and within a step of the readers.                                       *)
(***************************************************************************)
EXTENDS Integers, Sequences, FiniteSets

CONSTANTS
    Snaps,      \* bound: snapshots taken; 0 is none
    Readers,    \* threads that may read the sysfs file
    MaxFaults,  \* bound: faults
    Scenes      \* records [readers, prioritize]

SnapshotAssumption ==
    /\ IsFiniteSet(Snaps) /\ Snaps \subseteq Nat \ {0}
    /\ IsFiniteSet(Readers) /\ MaxFaults \in Nat
    /\ \A s \in Scenes : s.readers \subseteq Readers /\ s.prioritize \in BOOLEAN

VARIABLES
    scene,      \* readers; prioritize, prioritize_unrecoverable
    snap,       \* per snapshot, life: none, live, freed; sysfs_read, first_read, recovered;
                \* work: queued, copy, gate, done; process, frozen: held for it
    current,    \* device->snapshot
    memory,     \* whose dump snapshot_memory holds, 0 while one is written
    dump,       \* kgsl_device_snapshot, at: none, free, fill; of
    gmu_fault,
    faults,
    reader      \* at: idle, wait, read, release, over, free; of; got, the pieces read

vars == <<scene, snap, current, memory, dump, gmu_fault, faults, reader>>

\* The static area is the first piece, the frozen buffers and the end the second.
Pieces == 2
NoSnap == [life |-> "none", sysfs_read |-> 0, first_read |-> TRUE, recovered |-> FALSE,
           work |-> "queued", process |-> FALSE, frozen |-> FALSE]
NoDump == [at |-> "none", of |-> 0]
NoRead == [at |-> "idle", of |-> 0, got |-> <<>>]

Init ==
    /\ scene \in Scenes
    /\ snap = [s \in Snaps |-> NoSnap] /\ current = 0 /\ memory = 0
    /\ dump = NoDump /\ gmu_fault = FALSE /\ faults = MaxFaults
    /\ reader = [r \in Readers |-> NoRead]

MutexFree == dump.at = "none"

-----------------------------------------------------------------------------
(* The dump, under the device mutex                                        *)

\* The snapshot stays: it is no GMU fault, or nobody asked for the replacement
\* of what was recovered from.
Keeps(gmu) == ~scene.prioritize \/ ~snap[current].recovered \/ ~gmu

\* kzalloc, which may fail; the area is written from then on
Allocates ==
    \/ \E s \in Snaps :
        /\ snap[s].life = "none" /\ \A t \in Snaps : snap[t].life = "none" => s <= t
        /\ dump' = [at |-> "fill", of |-> s] /\ memory' = 0
    \/ dump' = NoDump /\ UNCHANGED memory

\* kgsl_free_snapshot: what it waits for, and what it then does
Bug_CanFree(s) == TRUE
CanFree(s) == snap[s].work = "done"
Freed(s) == [snap EXCEPT ![s] = [@ EXCEPT !.life = "freed", !.frozen = FALSE]]

Bug_Unread(s) == TRUE
Unread(s) == snap[s].sysfs_read = 0

Fault(gmu) ==
    /\ MutexFree /\ faults > 0
    /\ faults' = faults - 1 /\ gmu_fault' = gmu
    /\ IF current = 0 THEN Allocates /\ UNCHANGED current
       ELSE \/ Keeps(gmu) /\ UNCHANGED <<current, memory, dump>>
            \/ /\ ~Keeps(gmu) /\ Unread(current)
               /\ dump' = [at |-> "free", of |-> current]
               /\ UNCHANGED <<current, memory>>
            \/ ~Keeps(gmu) /\ ~Unread(current) /\ current' = 0 /\ Allocates
    /\ UNCHANGED <<scene, snap, reader>>

DumpFrees ==
    /\ dump.at = "free" /\ CanFree(dump.of)
    /\ snap' = Freed(dump.of) /\ current' = 0
    /\ Allocates
    /\ UNCHANGED <<scene, gmu_fault, faults, reader>>

\* adreno_snapshot finds the process of the GPU's page table, and freezes buffers
\* of it, or does not; the work is queued.
DumpFills ==
    /\ dump.at = "fill"
    /\ \E found \in BOOLEAN :
        snap' = [snap EXCEPT ![dump.of] = [NoSnap EXCEPT !.life = "live",
                                                         !.process = found,
                                                         !.frozen = found]]
    /\ current' = dump.of /\ memory' = dump.of /\ dump' = NoDump
    /\ UNCHANGED <<scene, gmu_fault, faults, reader>>

\* The GMU boots, and the GPU after it or not.
Boot ==
    /\ MutexFree /\ gmu_fault' = FALSE
    /\ \/ UNCHANGED snap
       \/ current # 0 /\ snap' = [snap EXCEPT ![current].recovered = TRUE]
    /\ UNCHANGED <<scene, current, memory, dump, faults, reader>>

-----------------------------------------------------------------------------
(* kgsl_snapshot_save_frozen_objs, the worker                              *)

WorkGoes(s, rec) ==
    /\ snap' = [snap EXCEPT ![s] = rec]
    /\ UNCHANGED <<scene, current, memory, dump, gmu_fault, faults, reader>>

WorkLooks(s) ==
    /\ snap[s].life # "none" /\ snap[s].work = "queued"
    /\ WorkGoes(s, [snap[s] EXCEPT !.work = IF gmu_fault THEN "gate" ELSE "copy"])

\* The buffers are copied and let go, and the process.
WorkCopies(s) ==
    /\ snap[s].work = "copy"
    /\ WorkGoes(s, [snap[s] EXCEPT !.work = "gate", !.frozen = FALSE, !.process = FALSE])

WorkDone(s) == snap[s].work = "gate" /\ WorkGoes(s, [snap[s] EXCEPT !.work = "done"])

-----------------------------------------------------------------------------
(* snapshot_show, a reader's call for the piece after those it has         *)

\* -EIO for a piece other than the first of a snapshot nobody has read
Bug_IsNew(s, got) == FALSE
IsNew(s, got) == snap[s].first_read /\ got # <<>>

ShowBegins(r) ==
    /\ r \in scene.readers /\ reader[r].at = "idle" /\ MutexFree
    /\ IF current = 0 \/ IsNew(current, reader[r].got)
       THEN reader' = [reader EXCEPT ![r] = NoRead] /\ UNCHANGED snap
       ELSE /\ snap' = [snap EXCEPT ![current].first_read = FALSE,
                                    ![current].sysfs_read = @ + 1]
            /\ reader' = [reader EXCEPT ![r] = [@ EXCEPT !.at = "wait", !.of = current]]
    /\ UNCHANGED <<scene, current, memory, dump, gmu_fault, faults>>

ReaderGoes(r, rec) ==
    /\ reader' = [reader EXCEPT ![r] = rec]
    /\ UNCHANGED <<scene, snap, current, memory, dump, gmu_fault, faults>>

\* Interrupted while it waits, it releases the snapshot and has read nothing.
ShowWaits(r) ==
    /\ reader[r].at = "wait"
    /\ \/ snap[reader[r].of].work = "done" /\ ReaderGoes(r, [reader[r] EXCEPT !.at = "read"])
       \/ ReaderGoes(r, [reader[r] EXCEPT !.at = "release"])

ShowReads(r) ==
    /\ reader[r].at = "read"
    /\ LET got == reader[r].got
           piece == IF got = <<>> THEN memory ELSE reader[r].of
       IN IF Len(got) = Pieces
          THEN ReaderGoes(r, [reader[r] EXCEPT !.at = "over"])
          ELSE ReaderGoes(r, [reader[r] EXCEPT !.at = "release", !.got = Append(got, piece)])

\* snapshot_release: of a snapshot that was replaced an error, and the last
\* reader frees it.
Bug_LastReader(s) == FALSE
LastReader(s) == snap[s].sysfs_read = 1
ShowReleases(r) ==
    /\ reader[r].at = "release" /\ MutexFree
    /\ LET s == reader[r].of
       IN /\ snap' = [snap EXCEPT ![s].sysfs_read = @ - 1]
          /\ reader' = [reader EXCEPT ![r] =
                IF current = s THEN [@ EXCEPT !.at = "idle", !.of = 0]
                ELSE IF LastReader(s) THEN [@ EXCEPT !.at = "free", !.got = <<>>]
                ELSE NoRead]
    /\ UNCHANGED <<scene, current, memory, dump, gmu_fault, faults>>

\* Everything is read: the snapshot goes unless another thread reads it.
ShowEnds(r) ==
    /\ reader[r].at = "over" /\ MutexFree
    /\ LET s == reader[r].of
       IN /\ snap' = [snap EXCEPT ![s].sysfs_read = @ - 1]
          /\ IF snap[s].sysfs_read = 1
             THEN /\ current' = IF current = s THEN 0 ELSE current
                  /\ reader' = [reader EXCEPT ![r] = [@ EXCEPT !.at = "free", !.got = <<>>]]
             ELSE reader' = [reader EXCEPT ![r] = NoRead] /\ UNCHANGED current
    /\ UNCHANGED <<scene, memory, dump, gmu_fault, faults>>

ShowFrees(r) ==
    /\ reader[r].at = "free" /\ CanFree(reader[r].of)
    /\ snap' = Freed(reader[r].of)
    /\ reader' = [reader EXCEPT ![r] = NoRead]
    /\ UNCHANGED <<scene, current, memory, dump, gmu_fault, faults>>

-----------------------------------------------------------------------------
Next ==
    \/ Fault(TRUE) \/ Fault(FALSE)
    \/ DumpFrees \/ DumpFills \/ Boot
    \/ \E s \in Snaps : WorkLooks(s) \/ WorkCopies(s) \/ WorkDone(s)
    \/ \E r \in Readers :
        \/ ShowBegins(r) \/ ShowWaits(r) \/ ShowReads(r)
        \/ ShowReleases(r) \/ ShowEnds(r) \/ ShowFrees(r)

Spec == Init /\ [][Next]_vars

-----------------------------------------------------------------------------
(* Properties                                                              *)

ReadBy(s) == {r \in Readers : reader[r].of = s /\ reader[r].at # "free"}
FreedBy(s) == {r \in Readers : reader[r].of = s /\ reader[r].at = "free"}
                 \cup {d \in {"dump"} : dump.at = "free" /\ dump.of = s}

(* A snapshot is there while the device, its worker or a reader has it, is  *)
(* freed by one thread, and gone when nobody has it; its buffers and the    *)
(* count of its readers go with it.                                         *)
SnapshotHeld ==
    \A s \in Snaps :
        /\ snap[s].life = "live" <=> current = s \/ ReadBy(s) # {} \/ FreedBy(s) # {}
        /\ snap[s].life = "freed" => snap[s].work = "done" /\ ~snap[s].frozen
        /\ Cardinality(FreedBy(s)) <= 1 /\ (FreedBy(s) # {} => ReadBy(s) = {})
        /\ snap[s].sysfs_read = Cardinality(ReadBy(s))

\* The pieces of a reader are of one snapshot, which was whole.
OneDump(r) ==
    \/ reader[r].at = "release" /\ current # reader[r].of
    \/ \A i, j \in 1 .. Len(reader[r].got) :
        reader[r].got[i] = reader[r].got[j] /\ reader[r].got[i] # 0

(* One reader alone never gets a dump put together of two snapshots, though *)
(* the second is written over the first while it reads.                     *)
ReadsOneDump == Cardinality(scene.readers) = 1 => \A r \in Readers : OneDump(r)

(* The same with several readers, as the comment of snapshot_show says: a   *)
(* reader that goes on with the snapshot before gets an error.              *)
NobodyMixes == \A r \in Readers : OneDump(r)

(* The worker does not leave the process with the snapshot.                 *)
ProcessLetGo == \A s \in Snaps : snap[s].work = "done" => ~snap[s].process

(* Snapshots live while they are used, and one reader reads one of them.    *)
SnapshotKept == SnapshotHeld /\ ReadsOneDump
=============================================================================
