--------------------------- MODULE Parts_proofs ---------------------------
(***************************************************************************)
(* What holds of small parts in the run "parts", for every value of their  *)
(* constants: nobody reads a snapshot that was freed or a mixture of two   *)
(* of them; a queued command finds all its pages; what a virtual buffer    *)
(* maps is held and was asked for; and no command in the ring is written   *)
(* over before the CP has read it.                                         *)
(***************************************************************************)
EXTENDS MCParts, Sequences, FiniteSetTheorems, TLAPS

-----------------------------------------------------------------------------
(* Snapshot.  Who has a snapshot: the device, its readers, and who frees it.*)

SnapType == [life : {"none", "live", "freed"}, sysfs_read : Nat, first_read : BOOLEAN,
             recovered : BOOLEAN, work : {"queued", "copy", "gate", "done"},
             process : BOOLEAN, frozen : BOOLEAN]
ReaderType == [at : {"idle", "wait", "read", "release", "over", "free"},
               of : Snaps \cup {0}, got : Seq(Snaps \cup {0})]
SnapshotTyped ==
    /\ shows.readers \subseteq Readers
    /\ snap \in [Snaps -> SnapType] /\ current \in Snaps \cup {0} /\ area \in Snaps \cup {0}
    /\ dumping \in [at : {"none", "free", "fill"}, of : Snaps \cup {0}]
    /\ reader \in [Readers -> ReaderType]

\* A snapshot lives as long as the device, a reader or who frees it has it, and
\* counts its readers.
FreesIt(s) == {r \in Readers : reader[r].of = s /\ reader[r].at = "free"}
HeldRight(s) ==
    /\ snap[s].life = "none" => snap[s].work = "queued"
    /\ snap[s].life = "live" <=> current = s \/ S!ReadBy(s) # {} \/ FreesIt(s) # {}
    /\ snap[s].life = "freed" => snap[s].work = "done" /\ ~snap[s].frozen
    /\ FreesIt(s) # {} => S!ReadBy(s) = {}
    /\ \A x, y \in FreesIt(s) : x = y
CountRight(s) == snap[s].sysfs_read = Cardinality(S!ReadBy(s))

\* The dump frees the device's snapshot, or fills one that nobody has; the area
\* holds the device's snapshot.
DumpRight ==
    /\ dumping.at = "free" => /\ dumping.of = current /\ current \in Snaps
                              /\ S!ReadBy(current) = {}
    /\ dumping.at = "fill" => /\ current = 0 /\ dumping.of \in Snaps
                              /\ snap[dumping.of].life = "none"
    /\ current # 0 => area = current

\* Who frees a snapshot has taken it from the device.
ReaderRight(r) ==
    /\ reader[r].at = "idle" <=> reader[r].of = 0
    /\ reader[r].at = "free" => reader[r].of # current /\ reader[r].got = <<>>
    /\ r \notin shows.readers => reader[r] = S!NoRead

\* What the only reader has got is of the snapshot it reads, unless that was
\* replaced; between its calls it is of the device's, or that is new.
Only == Cardinality(shows.readers) = 1
AllOf(g, x) == \A i \in DOMAIN g : g[i] = x
GotRight(m) ==
    /\ m.at \in {"wait", "read", "over"} => AllOf(m.got, m.of)
    /\ m.at = "release" => m.of # current \/ AllOf(m.got, m.of)
    /\ m.at = "idle" => /\ m.got = <<>> \/ \E x \in Snaps : AllOf(m.got, x)
                        /\ current # 0 /\ ~snap[current].first_read => AllOf(m.got, current)

SnapshotInv ==
    /\ SnapshotTyped /\ DumpRight
    /\ \A s \in Snaps : HeldRight(s) /\ CountRight(s)
    /\ \A r \in Readers : ReaderRight(r)
    /\ Only => \A r \in shows.readers : GotRight(reader[r])

\* The instance has the same cardinalities.
LEMMA SnapshotSizes ==
    \A X : S!Cardinality(X) = Cardinality(X) /\ (S!IsFiniteSet(X) <=> IsFiniteSet(X))
<1>1. \A X : S!Cardinality(X) = Cardinality(X)
  BY DEF S!Cardinality, Cardinality
<1>2. \A X : S!IsFiniteSet(X) <=> IsFiniteSet(X)
  BY DEF S!IsFiniteSet, IsFiniteSet
<1> QED
  BY <1>1, <1>2

\* Snapshots are numbered from one.
LEMMA SnapsAre == IsFiniteSet(Readers) /\ 0 \notin Snaps
<1>1. S!SnapshotAssumption
  BY PartsAssumption
<1>2. IsFiniteSet(Readers) /\ Snaps \subseteq Nat \ {0}
  BY <1>1, SnapshotSizes DEF S!SnapshotAssumption
<1> QED
  BY <1>2

\* A reader moves: the readers of the snapshots.
LEMMA ReaderMoves ==
    ASSUME SnapshotTyped, NEW r \in Readers, NEW m, reader' = [reader EXCEPT ![r] = m]
    PROVE  \A s : /\ S!ReadBy(s)' = IF m.of = s /\ m.at # "free" THEN S!ReadBy(s) \cup {r}
                                                               ELSE S!ReadBy(s) \ {r}
                  /\ FreesIt(s)' = IF m.of = s /\ m.at = "free" THEN FreesIt(s) \cup {r}
                                                               ELSE FreesIt(s) \ {r}
BY DEF SnapshotTyped, S!ReadBy, FreesIt

\* The readers are counted one by one.
LEMMA ReadersCount ==
    \A s : /\ Cardinality(S!ReadBy(s)) \in Nat
           /\ \A r \in Readers \ S!ReadBy(s) :
                  Cardinality(S!ReadBy(s) \cup {r}) = Cardinality(S!ReadBy(s)) + 1
           /\ \A r \in S!ReadBy(s) : Cardinality(S!ReadBy(s) \ {r}) = Cardinality(S!ReadBy(s)) - 1
           /\ Cardinality(S!ReadBy(s)) = 0 <=> S!ReadBy(s) = {}
           /\ \A r \in S!ReadBy(s) : Cardinality(S!ReadBy(s)) = 1 => S!ReadBy(s) \ {r} = {}
<1> SUFFICES ASSUME NEW s
             PROVE  /\ Cardinality(S!ReadBy(s)) \in Nat
                    /\ \A r \in Readers \ S!ReadBy(s) :
                           Cardinality(S!ReadBy(s) \cup {r}) = Cardinality(S!ReadBy(s)) + 1
                    /\ \A r \in S!ReadBy(s) :
                           Cardinality(S!ReadBy(s) \ {r}) = Cardinality(S!ReadBy(s)) - 1
                    /\ Cardinality(S!ReadBy(s)) = 0 <=> S!ReadBy(s) = {}
                    /\ \A r \in S!ReadBy(s) :
                           Cardinality(S!ReadBy(s)) = 1 => S!ReadBy(s) \ {r} = {}
  OBVIOUS
<1> DEFINE Ts == S!ReadBy(s)
<1>1. Ts \in SUBSET Readers
  BY DEF S!ReadBy
<1> HIDE DEF Ts
<1>2. IsFiniteSet(Ts)
  BY <1>1, SnapsAre, FS_Subset
<1>3. Cardinality(Ts) \in Nat /\ (Cardinality(Ts) = 0 <=> Ts = {})
  BY <1>2, FS_CardinalityType, FS_EmptySet
<1>4. \A r \in Readers \ Ts : Cardinality(Ts \cup {r}) = Cardinality(Ts) + 1
  BY <1>2, FS_AddElement
<1>5. \A r \in Ts : Cardinality(Ts \ {r}) = Cardinality(Ts) - 1 /\ IsFiniteSet(Ts \ {r})
  BY <1>2, FS_RemoveElement
<1>6. ASSUME NEW r \in Ts, Cardinality(Ts) = 1  PROVE Ts \ {r} = {}
  <2>1. Cardinality(Ts \ {r}) = 0
    BY <1>5, <1>6
  <2> QED
    BY <1>5, <2>1, FS_EmptySet
<1> QED
  BY <1>3, <1>4, <1>5, <1>6 DEF Ts

\* The first state is right.
LEMMA SnapshotInitRight == S!Init => SnapshotInv
<1> SUFFICES ASSUME S!Init  PROVE SnapshotInv
  OBVIOUS
<1>1. S!SnapshotAssumption
  BY PartsAssumption
<1>2. shows.readers \subseteq Readers
  BY <1>1 DEF S!Init, S!SnapshotAssumption
<1>3. \A s \in Snaps : snap[s] = S!NoSnap
  BY DEF S!Init
<1>4. \A r \in Readers : reader[r] = S!NoRead
  BY DEF S!Init
<1>5. SnapshotTyped
  <2>1. S!NoSnap \in SnapType
    BY DEF S!NoSnap, SnapType
  <2>2. S!NoRead \in ReaderType
    BY DEF S!NoRead, ReaderType
  <2> QED
    BY <1>2, <2>1, <2>2 DEF S!Init, SnapshotTyped, S!NoDump
<1>6. DumpRight
  BY DEF S!Init, DumpRight, S!NoDump
<1>7. \A s \in Snaps : S!ReadBy(s) = {} /\ FreesIt(s) = {}
  BY <1>4, SnapsAre DEF S!ReadBy, FreesIt, S!NoRead
<1>8. ASSUME NEW s \in Snaps  PROVE HeldRight(s)
  BY <1>3, <1>7, SnapsAre DEF HeldRight, S!NoSnap, S!Init
<1>9. ASSUME NEW s \in Snaps  PROVE CountRight(s)
  BY <1>3, <1>7, FS_EmptySet DEF CountRight, S!NoSnap
<1>10. ASSUME NEW r \in Readers  PROVE ReaderRight(r)
  BY <1>4 DEF ReaderRight, S!NoRead
<1>11. ASSUME NEW r \in Readers  PROVE GotRight(reader[r])
  BY <1>4 DEF GotRight, S!NoRead, S!Init
<1> QED
  BY <1>2, <1>5, <1>6, <1>8, <1>9, <1>10, <1>11 DEF SnapshotInv

\* Snapshots change, but not who has them or what is there to read.
LEMMA SnapsChange ==
    ASSUME SnapshotInv, UNCHANGED <<shows, current, area, dumping, reader>>,
           snap' \in [Snaps -> SnapType],
           \A s \in Snaps : /\ snap'[s].life = snap[s].life
                            /\ snap'[s].first_read = snap[s].first_read
                            /\ snap'[s].sysfs_read = snap[s].sysfs_read
                            /\ snap[s].life = "none" => snap'[s].work = "queued"
                            /\ snap[s].life = "freed" => snap'[s].work = "done"
                                                         /\ ~snap'[s].frozen
    PROVE  SnapshotInv'
<1>1. \A s : S!ReadBy(s)' = S!ReadBy(s) /\ FreesIt(s)' = FreesIt(s)
  BY DEF S!ReadBy, FreesIt
<1>2. SnapshotTyped'
  BY DEF SnapshotInv, SnapshotTyped
<1>3. DumpRight'
  BY <1>1 DEF SnapshotInv, SnapshotTyped, DumpRight
<1>4. ASSUME NEW s \in Snaps  PROVE HeldRight(s)'
  BY <1>1 DEF SnapshotInv, HeldRight
<1>5. ASSUME NEW s \in Snaps  PROVE CountRight(s)'
  BY <1>1 DEF SnapshotInv, CountRight
<1>6. ASSUME NEW r \in Readers  PROVE ReaderRight(r)'
  BY DEF SnapshotInv, ReaderRight
<1>7. ASSUME Only', NEW r \in shows.readers'  PROVE GotRight(reader[r])'
  <2>1. GotRight(reader[r])
    BY <1>7 DEF SnapshotInv, Only
  <2> QED
    BY <2>1 DEF GotRight, SnapshotInv, SnapshotTyped
<1> QED
  BY <1>2, <1>3, <1>4, <1>5, <1>6, <1>7 DEF SnapshotInv

\* The reader that may mix two dumps is alone.
LEMMA Alone == ASSUME SnapshotTyped, Only, NEW r \in shows.readers, NEW q \in shows.readers
               PROVE  q = r
<1> DEFINE Ts == shows.readers
<1>1. Ts \in SUBSET Readers
  BY DEF SnapshotTyped
<1>2. Cardinality(Ts) = 1
  BY DEF Only
<1>3. r \in Ts /\ q \in Ts
  OBVIOUS
<1> HIDE DEF Ts
<1>4. IsFiniteSet(Ts)
  BY <1>1, SnapsAre, FS_Subset
<1>5. Cardinality(Ts \ {r}) = 0 /\ IsFiniteSet(Ts \ {r})
  BY <1>2, <1>3, <1>4, FS_RemoveElement
<1>6. Ts \ {r} = {}
  BY <1>5, FS_EmptySet
<1> QED
  BY <1>3, <1>6

\* What the dump begins with.
LEMMA DumpBegins ==
    ASSUME S!Allocates
    PROVE  \/ \E s \in Snaps : /\ snap[s].life = "none" /\ area' = 0
                               /\ dumping' = [at |-> "fill", of |-> s]
           \/ dumping' = [at |-> "none", of |-> 0] /\ area' = area
BY DEF S!Allocates, S!NoDump

\* A fault: the device's snapshot stays, is to be freed, or is left to its readers.
LEMMA FaultKeeps == ASSUME SnapshotInv, NEW g, S!Fault(g)  PROVE SnapshotInv'
<1>1. UNCHANGED <<shows, snap, reader>> /\ dumping.at = "none"
  BY DEF S!Fault, S!MutexFree
<1>2. \A s : S!ReadBy(s)' = S!ReadBy(s) /\ FreesIt(s)' = FreesIt(s)
  BY <1>1 DEF S!ReadBy, FreesIt
<1>3. \/ current = 0 /\ S!Allocates /\ current' = current
      \/ current' = current /\ area' = area /\ dumping' = dumping
      \/ /\ current # 0 /\ S!Unread(current) /\ dumping' = [at |-> "free", of |-> current]
         /\ current' = current /\ area' = area
      \/ current # 0 /\ ~S!Unread(current) /\ current' = 0 /\ S!Allocates
  BY DEF S!Fault
<1>4. current \in Snaps \cup {0} /\ area \in Snaps \cup {0} /\ 0 \notin Snaps
  BY SnapsAre DEF SnapshotInv, SnapshotTyped
<1>5. current # 0 => (S!Unread(current) <=> S!ReadBy(current) = {})
  <2>1. current # 0 => CountRight(current)
    BY <1>4 DEF SnapshotInv
  <2> QED
    BY <2>1, ReadersCount DEF CountRight, S!Unread
<1>6. \/ current' = current
      \/ current' = 0 /\ current # 0 /\ S!ReadBy(current) # {}
  BY <1>3, <1>5
<1>11. SnapshotTyped' /\ DumpRight'
  <2>1. CASE current' = 0 /\ S!Allocates
    BY <1>1, <1>2, <2>1, SnapsAre, DumpBegins DEF SnapshotInv, SnapshotTyped, DumpRight
  <2>2. CASE current' = current /\ area' = area /\ dumping' = dumping
    <3>2. SnapshotTyped'
      BY <1>1, <2>2 DEF SnapshotInv, SnapshotTyped
    <3>3. DumpRight'
      BY <1>1, <2>2 DEF SnapshotInv, DumpRight
    <3> QED
      BY <3>2, <3>3
  <2>3. CASE /\ current # 0 /\ S!Unread(current)
             /\ dumping' = [at |-> "free", of |-> current]
             /\ current' = current /\ area' = area
    <3>1. S!ReadBy(current) = {} /\ current \in Snaps
      BY <1>4, <1>5, <2>3
    <3>2. SnapshotTyped'
      BY <1>1, <2>3, <3>1 DEF SnapshotInv, SnapshotTyped
    <3>3. DumpRight'
      BY <1>1, <1>2, <2>3, <3>1 DEF SnapshotInv, DumpRight, S!ReadBy
    <3> QED
      BY <3>2, <3>3
  <2> QED
    BY <1>3, <2>1, <2>2, <2>3
<1>7. ASSUME NEW s \in Snaps  PROVE HeldRight(s)'
  BY <1>1, <1>2, <1>4, <1>6 DEF SnapshotInv, HeldRight
<1>8. ASSUME NEW s \in Snaps  PROVE CountRight(s)'
  BY <1>1, <1>2 DEF SnapshotInv, CountRight
<1>9. ASSUME NEW r \in Readers  PROVE ReaderRight(r)'
  BY <1>1, <1>6 DEF SnapshotInv, ReaderRight
<1>10. ASSUME Only', NEW r \in shows.readers'  PROVE GotRight(reader[r])'
  <2>1. GotRight(reader[r]) /\ ReaderRight(r)
    BY <1>1, <1>10 DEF SnapshotInv, SnapshotTyped, Only
  <2> QED
    BY <1>1, <1>6, <2>1 DEF GotRight, ReaderRight
<1> QED
  BY <1>7, <1>8, <1>9, <1>10, <1>11 DEF SnapshotInv

\* What is freed, and stays as it is.
LEMMA FreedGives ==
    ASSUME SnapshotInv, NEW c \in Snaps, snap' = S!Freed(c)
    PROVE  /\ snap' \in [Snaps -> SnapType]
           /\ \A s \in Snaps : s # c => snap'[s] = snap[s]
           /\ snap'[c].life = "freed" /\ snap'[c].work = snap[c].work /\ ~snap'[c].frozen
           /\ snap'[c].sysfs_read = snap[c].sysfs_read
<1>1. snap \in [Snaps -> SnapType]
  BY DEF SnapshotInv, SnapshotTyped
<1>2. PICK rec : rec = [snap[c] EXCEPT !.life = "freed", !.frozen = FALSE]
  OBVIOUS
<1>3. snap' = [snap EXCEPT ![c] = rec]
  BY <1>2 DEF S!Freed
<1>4. rec \in SnapType
  BY <1>1, <1>2 DEF SnapType
<1>5. /\ rec.life = "freed" /\ rec.work = snap[c].work /\ ~rec.frozen
      /\ rec.sysfs_read = snap[c].sysfs_read
  BY <1>1, <1>2 DEF SnapType
<1> QED
  BY <1>1, <1>3, <1>4, <1>5

\* The dump frees the device's snapshot, which nobody reads.
LEMMA DumpFreesKeeps == ASSUME SnapshotInv, S!DumpFrees  PROVE SnapshotInv'
<1> DEFINE c == current
<1>1. /\ UNCHANGED <<shows, reader>> /\ dumping.at = "free" /\ dumping.of = c
      /\ current' = 0 /\ S!Allocates /\ snap' = S!Freed(c) /\ snap[c].work = "done"
  BY DEF S!DumpFrees, S!CanFree, SnapshotInv, DumpRight
<1>2. \A s : S!ReadBy(s)' = S!ReadBy(s) /\ FreesIt(s)' = FreesIt(s)
  BY <1>1 DEF S!ReadBy, FreesIt
<1>3. c \in Snaps /\ 0 \notin Snaps /\ S!ReadBy(c) = {} /\ FreesIt(c) = {}
  BY <1>1, SnapsAre DEF SnapshotInv, DumpRight, ReaderRight, FreesIt
<1>4. /\ snap' \in [Snaps -> SnapType]
      /\ \A s \in Snaps : s # c => snap'[s] = snap[s]
      /\ snap'[c].life = "freed" /\ snap'[c].work = "done" /\ ~snap'[c].frozen
      /\ snap'[c].sysfs_read = snap[c].sysfs_read
  BY <1>1, <1>3, FreedGives
<1>5. HeldRight(c) /\ snap[c].life = "live"
  BY <1>3 DEF SnapshotInv, HeldRight
<1>6. SnapshotTyped' /\ DumpRight'
  BY <1>1, <1>3, <1>4, <1>5, DumpBegins DEF SnapshotInv, SnapshotTyped, DumpRight
<1>7. ASSUME NEW s \in Snaps  PROVE HeldRight(s)'
  <2>1. HeldRight(s)
    BY DEF SnapshotInv
  <2> QED
    BY <1>1, <1>2, <1>3, <1>4, <2>1 DEF HeldRight
<1>8. ASSUME NEW s \in Snaps  PROVE CountRight(s)'
  <2>1. CountRight(s) /\ snap'[s].sysfs_read = snap[s].sysfs_read
    BY <1>4 DEF SnapshotInv
  <2> QED
    BY <1>2, <2>1 DEF CountRight
<1>9. ASSUME NEW r \in Readers  PROVE ReaderRight(r)'
  BY <1>1 DEF SnapshotInv, ReaderRight
<1>10. ASSUME Only', NEW r \in shows.readers'  PROVE GotRight(reader[r])'
  <2>1. GotRight(reader[r]) /\ ReaderRight(r)
    BY <1>1, <1>10 DEF SnapshotInv, SnapshotTyped, Only
  <2> QED
    BY <1>1, <2>1 DEF GotRight, ReaderRight
<1> QED
  BY <1>6, <1>7, <1>8, <1>9, <1>10 DEF SnapshotInv

\* The dump is written, and the device has it.
LEMMA DumpFillsKeeps == ASSUME SnapshotInv, S!DumpFills  PROVE SnapshotInv'
<1> DEFINE d == dumping.of
<1>1. PICK found \in BOOLEAN :
          snap' = [snap EXCEPT ![d] = [S!NoSnap EXCEPT !.life = "live", !.process = found,
                                                       !.frozen = found]]
  BY DEF S!DumpFills
<1>2. /\ UNCHANGED <<shows, reader>> /\ current = 0 /\ current' = d /\ area' = d
      /\ dumping' = [at |-> "none", of |-> 0] /\ d \in Snaps /\ snap[d].life = "none"
  BY DEF S!DumpFills, SnapshotInv, DumpRight, S!NoDump
<1>3. \A s : S!ReadBy(s)' = S!ReadBy(s) /\ FreesIt(s)' = FreesIt(s)
  BY <1>2 DEF S!ReadBy, FreesIt
<1>4. HeldRight(d) /\ CountRight(d) /\ S!ReadBy(d) = {} /\ FreesIt(d) = {}
  BY <1>2 DEF SnapshotInv, HeldRight
<1>5. /\ snap' \in [Snaps -> SnapType]
      /\ \A s \in Snaps : s # d => snap'[s] = snap[s]
      /\ snap'[d].life = "live" /\ snap'[d].work = "queued" /\ snap'[d].first_read
      /\ snap'[d].sysfs_read = 0
  BY <1>1, <1>2 DEF S!NoSnap, SnapshotInv, SnapshotTyped, SnapType
<1>6. SnapshotTyped' /\ DumpRight'
  BY <1>2, <1>5 DEF SnapshotInv, SnapshotTyped, DumpRight
<1>7. ASSUME NEW s \in Snaps  PROVE HeldRight(s)'
  <2>1. HeldRight(s)
    BY DEF SnapshotInv
  <2> QED
    BY <1>2, <1>3, <1>4, <1>5, <2>1, SnapsAre DEF HeldRight
<1>8. ASSUME NEW s \in Snaps  PROVE CountRight(s)'
  <2>1. CASE s = d
    BY <1>3, <1>4, <1>5, <2>1, FS_EmptySet DEF CountRight
  <2>2. CASE s # d
    BY <1>3, <1>5, <2>2 DEF CountRight, SnapshotInv
  <2> QED
    BY <2>1, <2>2
<1>9. ASSUME NEW r \in Readers  PROVE ReaderRight(r)'
  <2>1. reader[r].at = "free" => reader[r].of # d
    BY <1>4 DEF FreesIt
  <2> QED
    BY <1>2, <2>1 DEF SnapshotInv, ReaderRight
<1>10. ASSUME Only', NEW r \in shows.readers'  PROVE GotRight(reader[r])'
  <2>1. GotRight(reader[r]) /\ ReaderRight(r) /\ r \in Readers
    BY <1>2, <1>10 DEF SnapshotInv, SnapshotTyped, Only
  <2>2. reader[r].of # d
    BY <1>4, <2>1 DEF FreesIt, S!ReadBy
  <2> QED
    BY <1>2, <1>5, <2>1, <2>2 DEF GotRight, ReaderRight
<1> QED
  BY <1>6, <1>7, <1>8, <1>9, <1>10 DEF SnapshotInv

\* A GMU that boots after the snapshot, and the worker, leave the readers alone.
LEMMA BootKeeps == ASSUME SnapshotInv, S!Boot  PROVE SnapshotInv'
<1>1. UNCHANGED <<shows, current, area, dumping, reader>>
  BY DEF S!Boot
<1>2. snap \in [Snaps -> SnapType] /\ current \in Snaps \cup {0}
  BY DEF SnapshotInv, SnapshotTyped
<1>3. \A s \in Snaps : HeldRight(s)
  BY DEF SnapshotInv
<1>4. CASE snap' = snap
  BY <1>1, <1>2, <1>3, <1>4, SnapsChange DEF HeldRight
<1>5. CASE current # 0 /\ snap' = [snap EXCEPT ![current].recovered = TRUE]
  <2>1. PICK rec : rec = [snap[current] EXCEPT !.recovered = TRUE]
    OBVIOUS
  <2>2. snap' = [snap EXCEPT ![current] = rec] /\ current \in Snaps
    BY <1>2, <1>5, <2>1
  <2>3. /\ rec \in SnapType /\ rec.life = snap[current].life
        /\ rec.first_read = snap[current].first_read /\ rec.work = snap[current].work
        /\ rec.sysfs_read = snap[current].sysfs_read /\ rec.frozen = snap[current].frozen
    BY <1>2, <2>1, <2>2 DEF SnapType
  <2> QED
    BY <1>1, <1>2, <1>3, <2>2, <2>3, SnapsChange DEF HeldRight
<1> QED
  BY <1>4, <1>5 DEF S!Boot

\* The worker of a snapshot: what it changes of it.
LEMMA WorkKeeps ==
    ASSUME SnapshotInv, NEW s \in Snaps, NEW rec \in SnapType, S!WorkGoes(s, rec),
           rec.life = snap[s].life, rec.first_read = snap[s].first_read,
           rec.sysfs_read = snap[s].sysfs_read, snap[s].life # "none",
           snap[s].work # "done"
    PROVE  SnapshotInv'
<1>1. /\ UNCHANGED <<shows, current, area, dumping, reader>>
      /\ snap' = [snap EXCEPT ![s] = rec] /\ snap \in [Snaps -> SnapType]
  BY DEF S!WorkGoes, SnapshotInv, SnapshotTyped
<1>2. \A t \in Snaps : HeldRight(t)
  BY DEF SnapshotInv
<1> QED
  BY <1>1, <1>2, SnapsChange DEF HeldRight

\* It looks at the GMU.
LEMMA WorkLooksKeeps == ASSUME SnapshotInv, NEW s \in Snaps, S!WorkLooks(s)  PROVE SnapshotInv'
<1>1. snap[s] \in SnapType /\ snap[s].life # "none" /\ snap[s].work = "queued"
  BY DEF SnapshotInv, SnapshotTyped, S!WorkLooks
<1>2. PICK w : w = IF gmu_fault THEN "gate" ELSE "copy"
  OBVIOUS
<1>3. PICK rec : rec = [snap[s] EXCEPT !.work = w]
  OBVIOUS
<1>4. /\ rec \in SnapType /\ rec.life = snap[s].life /\ rec.first_read = snap[s].first_read
      /\ rec.sysfs_read = snap[s].sysfs_read
  BY <1>1, <1>2, <1>3 DEF SnapType
<1>5. S!WorkGoes(s, rec)
  BY <1>2, <1>3 DEF S!WorkLooks
<1> QED
  BY <1>1, <1>4, <1>5, WorkKeeps

\* It copies the buffers and lets them go.
LEMMA WorkCopiesKeeps == ASSUME SnapshotInv, NEW s \in Snaps, S!WorkCopies(s)  PROVE SnapshotInv'
<1>1. snap[s] \in SnapType /\ snap[s].life # "none" /\ snap[s].work = "copy"
  BY DEF SnapshotInv, SnapshotTyped, S!WorkCopies, HeldRight
<1>2. PICK rec : rec = [snap[s] EXCEPT !.work = "gate", !.frozen = FALSE, !.process = FALSE]
  OBVIOUS
<1>3. /\ rec \in SnapType /\ rec.life = snap[s].life /\ rec.first_read = snap[s].first_read
      /\ rec.sysfs_read = snap[s].sysfs_read
  BY <1>1, <1>2 DEF SnapType
<1>4. S!WorkGoes(s, rec)
  BY <1>2 DEF S!WorkCopies
<1> QED
  BY <1>1, <1>3, <1>4, WorkKeeps

\* It lets those that wait go on.
LEMMA WorkDoneKeeps == ASSUME SnapshotInv, NEW s \in Snaps, S!WorkDone(s)  PROVE SnapshotInv'
<1>1. snap[s] \in SnapType /\ snap[s].life # "none" /\ snap[s].work = "gate"
  BY DEF SnapshotInv, SnapshotTyped, S!WorkDone, HeldRight
<1>2. PICK rec : rec = [snap[s] EXCEPT !.work = "done"]
  OBVIOUS
<1>3. /\ rec \in SnapType /\ rec.life = snap[s].life /\ rec.first_read = snap[s].first_read
      /\ rec.sysfs_read = snap[s].sysfs_read
  BY <1>1, <1>2 DEF SnapType
<1>4. S!WorkGoes(s, rec)
  BY <1>2 DEF S!WorkDone
<1> QED
  BY <1>1, <1>3, <1>4, WorkKeeps

\* A reader of a snapshot goes on with it.
LEMMA ReaderGoesOn ==
    ASSUME SnapshotInv, NEW r \in Readers, NEW m \in ReaderType, S!ReaderGoes(r, m),
           m.of = reader[r].of, m.at \in {"read", "release", "over"},
           reader[r].at \in {"wait", "read"}, Only => GotRight(m)
    PROVE  SnapshotInv'
<1>1. /\ UNCHANGED <<shows, snap, current, area, dumping>>
      /\ reader' = [reader EXCEPT ![r] = m] /\ reader \in [Readers -> ReaderType]
  BY DEF S!ReaderGoes, SnapshotInv, SnapshotTyped
<1>2. reader'[r] = m /\ \A q \in Readers \ {r} : reader'[q] = reader[q]
  BY <1>1
<1>3. \A s : S!ReadBy(s)' = S!ReadBy(s) /\ FreesIt(s)' = FreesIt(s)
  BY <1>1 DEF S!ReadBy, FreesIt
<1>4. SnapshotTyped'
  BY <1>1 DEF SnapshotInv, SnapshotTyped
<1>5. DumpRight'
  BY <1>1, <1>3 DEF SnapshotInv, DumpRight
<1>6. ASSUME NEW s \in Snaps  PROVE HeldRight(s)'
  BY <1>1, <1>3 DEF SnapshotInv, HeldRight
<1>7. ASSUME NEW s \in Snaps  PROVE CountRight(s)'
  BY <1>1, <1>3 DEF SnapshotInv, CountRight
<1>8. ASSUME NEW q \in Readers  PROVE ReaderRight(q)'
  <2>1. reader[r] # S!NoRead
    BY DEF S!NoRead
  <2>2. ReaderRight(q) /\ ReaderRight(r)
    BY DEF SnapshotInv
  <2> QED
    BY <1>1, <1>2, <2>1, <2>2 DEF ReaderRight
<1>9. ASSUME Only', NEW q \in shows.readers'  PROVE GotRight(reader[q])'
  <2>1. Only /\ q \in shows.readers /\ q \in Readers
    BY <1>1, <1>9 DEF Only, SnapshotInv, SnapshotTyped
  <2>2. GotRight(reader'[q])
    BY <1>2, <2>1 DEF SnapshotInv
  <2> QED
    BY <1>1, <2>2 DEF GotRight
<1> QED
  BY <1>4, <1>5, <1>6, <1>7, <1>8, <1>9 DEF SnapshotInv

\* The snapshot of a reader.
LEMMA ItsSnapshot ==
    ASSUME SnapshotInv, NEW r \in Readers, reader[r].at # "idle"
    PROVE  /\ reader[r] \in ReaderType /\ reader[r].of \in Snaps /\ r \in shows.readers
           /\ reader[r].at # "free" => r \in S!ReadBy(reader[r].of)
           /\ reader[r].at = "free" => r \in FreesIt(reader[r].of)
           /\ HeldRight(reader[r].of) /\ CountRight(reader[r].of)
           /\ snap[reader[r].of].life = "live" /\ snap[reader[r].of] \in SnapType
<1>1. /\ reader[r] \in ReaderType /\ reader[r].of # 0 /\ r \in shows.readers
  BY DEF SnapshotInv, SnapshotTyped, ReaderRight, S!NoRead
<1>2. reader[r].of \in Snaps
  BY <1>1 DEF ReaderType
<1>3. /\ reader[r].at # "free" => r \in S!ReadBy(reader[r].of)
      /\ reader[r].at = "free" => r \in FreesIt(reader[r].of)
  BY DEF S!ReadBy, FreesIt
<1>4. HeldRight(reader[r].of) /\ CountRight(reader[r].of)
  BY <1>2 DEF SnapshotInv
<1>5. snap[reader[r].of].life = "live"
  BY <1>3, <1>4 DEF HeldRight
<1>6. snap[reader[r].of] \in SnapType
  BY <1>2 DEF SnapshotInv, SnapshotTyped
<1> QED
  BY <1>1, <1>2, <1>3, <1>4, <1>5, <1>6

\* A reader stops waiting for the worker.
LEMMA ShowWaitsKeeps == ASSUME SnapshotInv, NEW r \in Readers, S!ShowWaits(r)  PROVE SnapshotInv'
<1>1. PICK a \in {"read", "release"} : S!ReaderGoes(r, [reader[r] EXCEPT !.at = a])
  BY DEF S!ShowWaits
<1>2. reader[r].at = "wait"
  BY DEF S!ShowWaits
<1>3. PICK m : m = [reader[r] EXCEPT !.at = a]
  OBVIOUS
<1>4. /\ m \in ReaderType /\ m.of = reader[r].of /\ m.at = a /\ m.got = reader[r].got
  BY <1>2, <1>3, ItsSnapshot DEF ReaderType
<1>5. Only => GotRight(reader[r])
  BY <1>2, ItsSnapshot DEF SnapshotInv
<1>6. Only => GotRight(m)
  BY <1>2, <1>4, <1>5 DEF GotRight
<1> QED
  BY <1>1, <1>2, <1>3, <1>4, <1>6, ReaderGoesOn

\* A reader copies a piece: the area holds its snapshot unless that was replaced.
LEMMA ShowReadsKeeps == ASSUME SnapshotInv, NEW r \in Readers, S!ShowReads(r)  PROVE SnapshotInv'
<1> DEFINE had == reader[r].got
           piece == IF had = <<>> THEN area ELSE reader[r].of
<1>1. reader[r].at = "read"
  BY DEF S!ShowReads
<1>2. /\ reader[r] \in ReaderType /\ reader[r].of \in Snaps /\ had \in Seq(Snaps \cup {0})
      /\ area \in Snaps \cup {0}
  BY <1>1, ItsSnapshot DEF ReaderType, SnapshotInv, SnapshotTyped
<1>3. Only => GotRight(reader[r])
  BY <1>1, ItsSnapshot DEF SnapshotInv
<1>4. CASE S!ReaderGoes(r, [reader[r] EXCEPT !.at = "over"])
  <2>1. PICK m : m = [reader[r] EXCEPT !.at = "over"]
    OBVIOUS
  <2>2. m \in ReaderType /\ m.of = reader[r].of /\ m.at = "over" /\ m.got = reader[r].got
    BY <1>2, <2>1 DEF ReaderType
  <2>3. Only => GotRight(m)
    BY <1>1, <1>3, <2>2 DEF GotRight
  <2> QED
    BY <1>1, <1>4, <2>1, <2>2, <2>3, ReaderGoesOn
<1>5. CASE S!ReaderGoes(r, [reader[r] EXCEPT !.at = "release", !.got = Append(had, piece)])
  <2>1. PICK p : p = piece
    OBVIOUS
  <2>2. PICK g : g = Append(had, p)
    OBVIOUS
  <2>3. PICK m : m = [reader[r] EXCEPT !.at = "release", !.got = g]
    OBVIOUS
  <2>4. p \in Snaps \cup {0} /\ g \in Seq(Snaps \cup {0})
    BY <1>2, <2>1, <2>2
  <2>5. m \in ReaderType /\ m.of = reader[r].of /\ m.at = "release" /\ m.got = g
    BY <1>2, <2>3, <2>4 DEF ReaderType
  <2>6. reader[r].of = current => p = current
    BY <1>2, <2>1, SnapsAre DEF SnapshotInv, DumpRight
  <2>7. ASSUME Only, reader[r].of = current  PROVE AllOf(g, current)
    <3>1. AllOf(had, current)
      BY <1>1, <1>3, <2>7 DEF GotRight
    <3> HIDE DEF had
    <3> QED
      BY <1>2, <2>2, <2>4, <2>6, <2>7, <3>1 DEF AllOf
  <2>8. Only => GotRight(m)
    BY <2>5, <2>7 DEF GotRight
  <2> QED
    BY <1>1, <1>5, <2>1, <2>2, <2>3, <2>5, <2>8, ReaderGoesOn
<1> QED
  BY <1>4, <1>5 DEF S!ShowReads

\* A reader and its snapshot change: what that leaves as it is.
LEMMA OthersStay ==
    ASSUME SnapshotInv, NEW r \in Readers, NEW m \in ReaderType, NEW s \in Snaps,
           NEW rec \in SnapType, UNCHANGED <<shows, area, dumping>>,
           reader' = [reader EXCEPT ![r] = m], snap' = [snap EXCEPT ![s] = rec],
           reader[r].of \in {0, s}, m.of \in {0, s}, snap[s].life = "live",
           current' = current \/ (current' = 0 /\ current = s),
           dumping.at = "none" \/ (current' = current /\ current # s)
    PROVE  /\ SnapshotTyped' /\ DumpRight'
           /\ \A t \in Snaps \ {s} : HeldRight(t)' /\ CountRight(t)'
           /\ \A q \in Readers \ {r} : ReaderRight(q)'
<1>1. /\ reader \in [Readers -> ReaderType] /\ snap \in [Snaps -> SnapType] /\ 0 \notin Snaps
      /\ current \in Snaps \cup {0} /\ SnapshotTyped
  BY SnapsAre DEF SnapshotInv, SnapshotTyped
<1>2. \A q \in Readers \ {r} : reader'[q] = reader[q]
  BY <1>1
<1>3. \A t \in Snaps \ {s} : snap'[t] = snap[t]
  BY <1>1
<1>4. \A t \in Snaps \ {s} : S!ReadBy(t)' = S!ReadBy(t) /\ FreesIt(t)' = FreesIt(t)
  <2> SUFFICES ASSUME NEW t \in Snaps \ {s}
               PROVE  S!ReadBy(t)' = S!ReadBy(t) /\ FreesIt(t)' = FreesIt(t)
    OBVIOUS
  <2>1. reader'[r].of # t /\ reader[r].of # t
    BY <1>1
  <2> QED
    BY <1>2, <2>1 DEF S!ReadBy, FreesIt
<1>5. SnapshotTyped'
  BY <1>1 DEF SnapshotTyped
<1>6. DumpRight'
  <2>1. CASE dumping.at = "none"
    BY <1>1, <2>1 DEF SnapshotInv, DumpRight
  <2>2. CASE current' = current /\ current # s
    <3>1. dumping.at = "fill" => dumping.of # s
      BY DEF SnapshotInv, DumpRight
    <3> QED
      BY <1>1, <1>3, <1>4, <2>2, <3>1 DEF SnapshotInv, DumpRight
  <2> QED
    BY <2>1, <2>2
<1>7. ASSUME NEW t \in Snaps \ {s}  PROVE HeldRight(t)'
  <2>1. HeldRight(t) /\ (current' = t <=> current = t)
    BY <1>1 DEF SnapshotInv
  <2>2. snap'[t] = snap[t] /\ S!ReadBy(t)' = S!ReadBy(t) /\ FreesIt(t)' = FreesIt(t)
    BY <1>3, <1>4
  <2> QED
    BY <2>1, <2>2 DEF HeldRight
<1>8. ASSUME NEW t \in Snaps \ {s}  PROVE CountRight(t)'
  BY <1>3, <1>4 DEF SnapshotInv, CountRight
<1>9. ASSUME NEW q \in Readers \ {r}  PROVE ReaderRight(q)'
  <2>1. ReaderRight(q) /\ reader'[q] = reader[q]
    BY <1>2 DEF SnapshotInv
  <2> QED
    BY <1>1, <2>1 DEF ReaderRight
<1> QED
  BY <1>5, <1>6, <1>7, <1>8, <1>9

\* A call that finds no snapshot, or a new one, ends; the others wait for it.
LEMMA ShowBeginsKeeps == ASSUME SnapshotInv, NEW r \in Readers, S!ShowBegins(r)  PROVE SnapshotInv'
<1> DEFINE c == current
<1>1. /\ UNCHANGED <<shows, current, area, dumping>> /\ dumping.at = "none"
      /\ r \in shows.readers /\ reader[r].at = "idle"
  BY DEF S!ShowBegins, S!MutexFree
<1>2. /\ reader \in [Readers -> ReaderType] /\ snap \in [Snaps -> SnapType] /\ 0 \notin Snaps
      /\ c \in Snaps \cup {0} /\ reader[r].of = 0
  BY <1>1, SnapsAre DEF SnapshotInv, SnapshotTyped, ReaderRight
<1>3. CASE reader' = [reader EXCEPT ![r] = S!NoRead] /\ UNCHANGED snap
  <2>1. /\ S!NoRead \in ReaderType /\ S!NoRead.of = 0 /\ S!NoRead.at = "idle"
        /\ S!NoRead.got = <<>>
    BY DEF S!NoRead, ReaderType
  <2>2. reader'[r] = S!NoRead /\ \A q \in Readers \ {r} : reader'[q] = reader[q]
    BY <1>2, <1>3
  <2>3. \A s \in Snaps : S!ReadBy(s)' = S!ReadBy(s) /\ FreesIt(s)' = FreesIt(s)
    BY <1>1, <1>2, <2>1, <2>2 DEF S!ReadBy, FreesIt
  <2>4. SnapshotTyped'
    BY <1>1, <1>3, <2>1 DEF SnapshotInv, SnapshotTyped
  <2>5. DumpRight'
    BY <1>1, <1>3 DEF SnapshotInv, DumpRight
  <2>6. ASSUME NEW s \in Snaps  PROVE HeldRight(s)'
    BY <1>1, <1>3, <2>3 DEF SnapshotInv, HeldRight
  <2>7. ASSUME NEW s \in Snaps  PROVE CountRight(s)'
    BY <1>1, <1>3, <2>3 DEF SnapshotInv, CountRight
  <2>8. ASSUME NEW q \in Readers  PROVE ReaderRight(q)'
    BY <1>1, <2>1, <2>2 DEF SnapshotInv, ReaderRight
  <2>9. ASSUME Only', NEW q \in shows.readers'  PROVE GotRight(reader[q])'
    <3>1. q = r
      BY <1>1, <2>9, Alone DEF SnapshotInv, Only
    <3> QED
      BY <2>1, <2>2, <3>1 DEF GotRight, AllOf
  <2> QED
    BY <2>4, <2>5, <2>6, <2>7, <2>8, <2>9 DEF SnapshotInv
<1>4. CASE /\ c # 0 /\ ~S!IsNew(c, reader[r].got)
           /\ snap' = [snap EXCEPT ![c].first_read = FALSE, ![c].sysfs_read = @ + 1]
           /\ reader' = [reader EXCEPT ![r] = [@ EXCEPT !.at = "wait", !.of = c]]
  <2>1. PICK n : n = snap[c].sysfs_read + 1
    OBVIOUS
  <2>2. PICK rec : rec = [snap[c] EXCEPT !.first_read = FALSE, !.sysfs_read = n]
    OBVIOUS
  <2>3. PICK m : m = [reader[r] EXCEPT !.at = "wait", !.of = c]
    OBVIOUS
  <2>4. c \in Snaps /\ snap[c] \in SnapType /\ HeldRight(c) /\ CountRight(c)
    BY <1>2, <1>4 DEF SnapshotInv
  <2>5. n \in Nat
    BY <2>1, <2>4 DEF SnapType
  <2>6. /\ rec \in SnapType /\ rec.life = snap[c].life /\ rec.work = snap[c].work
        /\ rec.frozen = snap[c].frozen /\ ~rec.first_read /\ rec.sysfs_read = n
    BY <2>2, <2>4, <2>5 DEF SnapType
  <2>7. m \in ReaderType /\ m.at = "wait" /\ m.of = c /\ m.got = reader[r].got
    BY <1>2, <2>3, <2>4 DEF ReaderType
  <2>8. snap' = [snap EXCEPT ![c] = rec]
    BY <1>2, <1>4, <2>1, <2>2, <2>4
  <2>9. reader' = [reader EXCEPT ![r] = m]
    BY <1>4, <2>3
  <2>10. snap[c].life = "live"
    BY <2>4 DEF HeldRight
  <2>11. /\ SnapshotTyped' /\ DumpRight'
         /\ \A t \in Snaps \ {c} : HeldRight(t)' /\ CountRight(t)'
         /\ \A q \in Readers \ {r} : ReaderRight(q)'
    BY <1>1, <1>2, <2>4, <2>6, <2>7, <2>8, <2>9, <2>10, OthersStay
  <2>12. S!ReadBy(c)' = S!ReadBy(c) \cup {r} /\ FreesIt(c)' = FreesIt(c) \ {r}
    <3>1. PICK s : s = c
      OBVIOUS
    <3>2. S!ReadBy(s)' = S!ReadBy(s) \cup {r} /\ FreesIt(s)' = FreesIt(s) \ {r}
      BY <2>7, <2>9, <3>1, ReaderMoves DEF SnapshotInv
    <3> QED
      BY <1>1, <3>1, <3>2
  <2>13. FreesIt(c) = {} /\ r \notin S!ReadBy(c)
    BY <1>2, <2>4 DEF SnapshotInv, ReaderRight, FreesIt, S!ReadBy
  <2>14. snap'[c] = rec /\ reader'[r] = m /\ current' = c
    BY <1>1, <1>2, <2>4, <2>8, <2>9
  <2>15. HeldRight(c)'
    BY <2>4, <2>6, <2>10, <2>12, <2>13, <2>14, <1>1 DEF HeldRight
  <2>16. CountRight(c)'
    <3>1. Cardinality(S!ReadBy(c) \cup {r}) = Cardinality(S!ReadBy(c)) + 1
      BY <2>13, ReadersCount
    <3>2. n = Cardinality(S!ReadBy(c) \cup {r})
      BY <2>1, <2>4, <3>1 DEF CountRight
    <3> QED
      BY <1>1, <2>6, <2>12, <2>14, <3>2 DEF CountRight
  <2>17. ReaderRight(r)'
    BY <1>1, <2>4, <2>7, <2>14, SnapsAre DEF ReaderRight
  <2>18. ASSUME Only', NEW q \in shows.readers'  PROVE GotRight(reader[q])'
    <3>1. q = r /\ GotRight(reader[r])
      BY <1>1, <2>18, Alone DEF SnapshotInv, Only
    <3>2. AllOf(reader[r].got, c)
      BY <1>1, <1>4, <3>1 DEF GotRight, AllOf, S!IsNew
    <3> QED
      BY <2>7, <2>14, <3>1, <3>2 DEF GotRight
  <2>19. \A t \in Snaps : HeldRight(t)' /\ CountRight(t)'
    BY <2>11, <2>15, <2>16, <1>1
  <2>20. \A q \in Readers : ReaderRight(q)'
    BY <2>11, <2>17
  <2> QED
    BY <2>11, <2>18, <2>19, <2>20 DEF SnapshotInv
<1> QED
  BY <1>3, <1>4 DEF S!ShowBegins

\* A reader goes, and its snapshot is counted less by one; the last one of a
\* snapshot the device has not, or has given up, is to free it.
LEMMA ReaderLeaves ==
    ASSUME SnapshotInv, NEW r \in Readers, NEW m \in ReaderType, NEW s \in Snaps,
           UNCHANGED <<shows, area, dumping>>, dumping.at = "none",
           reader' = [reader EXCEPT ![r] = m],
           snap' = [snap EXCEPT ![s].sysfs_read = @ - 1],
           reader[r].at \in {"release", "over"}, reader[r].of = s,
           current' = current \/ (current' = 0 /\ current = s),
           m.at = "idle" => m.of = 0,
           m.at = "idle" => current' = s \/ snap[s].sysfs_read # 1,
           m.at = "free" => m.of = s /\ m.got = <<>> /\ current' # s,
           m.at = "free" => snap[s].sysfs_read = 1,
           m.at \in {"idle", "free"}, current' # current => m.at = "free",
           Only => GotRight(m)'
    PROVE  SnapshotInv'
<1>1. /\ reader \in [Readers -> ReaderType] /\ snap \in [Snaps -> SnapType] /\ 0 \notin Snaps
      /\ current \in Snaps \cup {0} /\ SnapshotTyped
  BY SnapsAre DEF SnapshotInv, SnapshotTyped
<1>2. /\ r \in shows.readers /\ r \in S!ReadBy(s) /\ HeldRight(s) /\ CountRight(s)
      /\ snap[s].life = "live" /\ snap[s] \in SnapType
  BY ItsSnapshot
<1>3. PICK n : n = snap[s].sysfs_read - 1
  OBVIOUS
<1>4. Cardinality(S!ReadBy(s) \ {r}) = Cardinality(S!ReadBy(s)) - 1
  BY <1>2, ReadersCount
<1>5. n = Cardinality(S!ReadBy(s) \ {r})
  BY <1>2, <1>3, <1>4 DEF CountRight
<1>6. n \in Nat /\ (n = 0 <=> S!ReadBy(s) \ {r} = {}) /\ (n = 0 <=> snap[s].sysfs_read = 1)
  <2>1. S!ReadBy(s) \ {r} \in SUBSET Readers
    BY DEF S!ReadBy
  <2>2. IsFiniteSet(S!ReadBy(s) \ {r})
    BY <2>1, SnapsAre, FS_Subset
  <2>3. n \in Nat /\ (n = 0 <=> S!ReadBy(s) \ {r} = {})
    BY <1>5, <2>2, FS_CardinalityType, FS_EmptySet
  <2>4. n = 0 <=> snap[s].sysfs_read = 1
    BY <1>2, <1>3 DEF SnapType
  <2> QED
    BY <2>3, <2>4
<1>7. PICK rec : rec = [snap[s] EXCEPT !.sysfs_read = n]
  OBVIOUS
<1>8. /\ rec \in SnapType /\ rec.life = snap[s].life /\ rec.work = snap[s].work
      /\ rec.frozen = snap[s].frozen /\ rec.sysfs_read = n
      /\ rec.first_read = snap[s].first_read
  BY <1>2, <1>6, <1>7 DEF SnapType
<1>9. snap' = [snap EXCEPT ![s] = rec]
  BY <1>1, <1>3, <1>7
<1>10. /\ SnapshotTyped' /\ DumpRight'
       /\ \A t \in Snaps \ {s} : HeldRight(t)' /\ CountRight(t)'
       /\ \A q \in Readers \ {r} : ReaderRight(q)'
  <2>1. /\ reader[r].of \in {0, s} /\ m.of \in {0, s} /\ snap[s].life = "live"
        /\ current' = current \/ (current' = 0 /\ current = s)
        /\ dumping.at = "none" \/ (current' = current /\ current # s)
        /\ UNCHANGED <<shows, area, dumping>> /\ reader' = [reader EXCEPT ![r] = m]
        /\ snap' = [snap EXCEPT ![s] = rec] /\ rec \in SnapType
    BY <1>2, <1>8, <1>9
  <2> QED
    BY ONLY <2>1, SnapshotInv, r \in Readers, m \in ReaderType, s \in Snaps, OthersStay
<1>11. snap'[s] = rec /\ reader'[r] = m
  BY <1>1, <1>9
<1>12. /\ S!ReadBy(s)' = S!ReadBy(s) \ {r}
       /\ FreesIt(s)' = IF m.at = "free" THEN FreesIt(s) \cup {r} ELSE FreesIt(s) \ {r}
  <2>1. /\ S!ReadBy(s)' = IF m.of = s /\ m.at # "free" THEN S!ReadBy(s) \cup {r}
                                                      ELSE S!ReadBy(s) \ {r}
        /\ FreesIt(s)' = IF m.of = s /\ m.at = "free" THEN FreesIt(s) \cup {r}
                                                     ELSE FreesIt(s) \ {r}
    <3>1. SnapshotTyped /\ reader' = [reader EXCEPT ![r] = m]
      BY <1>1
    <3> QED
      BY ONLY <3>1, r \in Readers, ReaderMoves
  <2>2. m.at = "free" <=> m.of = s
    BY <1>1
  <2> QED
    BY <2>1, <2>2
<1>13. FreesIt(s) = {}
  BY <1>2 DEF HeldRight
<1>14. current' = s \/ S!ReadBy(s)' # {} \/ FreesIt(s)' # {}
  BY <1>6, <1>12
<1>15. HeldRight(s)'
  <2>1. snap'[s].life = "live"
    BY <1>2, <1>8, <1>11
  <2>2. m.at = "free" => S!ReadBy(s)' = {}
    BY <1>6, <1>12
  <2> QED
    BY <1>12, <1>13, <1>14, <2>1, <2>2 DEF HeldRight
<1>16. CountRight(s)'
  BY <1>5, <1>8, <1>11, <1>12 DEF CountRight
<1>17. ReaderRight(r)'
  BY <1>1, <1>2, <1>11 DEF ReaderRight
<1>18. ASSUME Only', NEW q \in shows.readers'  PROVE GotRight(reader[q])'
  <2>1. q = r /\ Only
    BY <1>1, <1>2, <1>18, Alone DEF Only
  <2> QED
    BY <1>11, <2>1 DEF GotRight
<1>19. \A t \in Snaps : HeldRight(t)' /\ CountRight(t)'
  BY <1>10, <1>15, <1>16
<1>20. \A q \in Readers : ReaderRight(q)'
  BY <1>10, <1>17
<1> QED
  BY <1>10, <1>18, <1>19, <1>20 DEF SnapshotInv

\* A reader that has got nothing and is between its calls
LEMMA NothingGot == /\ S!NoRead \in ReaderType /\ S!NoRead.of = 0 /\ S!NoRead.at = "idle"
                    /\ GotRight(S!NoRead)'
BY DEF S!NoRead, ReaderType, GotRight, AllOf

\* A call ends: the reader keeps what it has got while the device has the snapshot.
LEMMA ShowReleasesKeeps ==
    ASSUME SnapshotInv, NEW r \in Readers, S!ShowReleases(r)  PROVE SnapshotInv'
<1>0. PICK s : s = reader[r].of
  OBVIOUS
<1>1. /\ UNCHANGED <<shows, current, area, dumping>> /\ dumping.at = "none"
      /\ reader[r].at = "release" /\ snap' = [snap EXCEPT ![s].sysfs_read = @ - 1]
  BY <1>0 DEF S!ShowReleases, S!MutexFree
<1>2. s \in Snaps /\ reader[r] \in ReaderType /\ r \in shows.readers /\ s # 0
  BY <1>0, <1>1, ItsSnapshot, SnapsAre
<1>3. CASE current = s
  <2>1. PICK m : m = [reader[r] EXCEPT !.at = "idle", !.of = 0]
    OBVIOUS
  <2>2. m \in ReaderType /\ m.at = "idle" /\ m.of = 0 /\ m.got = reader[r].got
    BY <1>2, <2>1 DEF ReaderType
  <2>3. reader' = [reader EXCEPT ![r] = m]
    BY <1>0, <1>3, <2>1 DEF S!ShowReleases
  <2>4. ASSUME Only  PROVE GotRight(m)'
    <3>1. AllOf(reader[r].got, s)
      BY <1>0, <1>1, <1>2, <1>3, <2>4 DEF SnapshotInv, GotRight
    <3> QED
      BY <1>1, <1>2, <1>3, <2>2, <3>1 DEF GotRight
  <2> QED
    BY <1>0, <1>1, <1>2, <1>3, <2>2, <2>3, <2>4, ReaderLeaves
<1>4. CASE current # s /\ S!LastReader(s)
  <2>1. PICK m : m = [reader[r] EXCEPT !.at = "free", !.got = <<>>]
    OBVIOUS
  <2>2. m \in ReaderType /\ m.at = "free" /\ m.of = s /\ m.got = <<>>
    <3>1. <<>> \in Seq(Snaps \cup {0})
      OBVIOUS
    <3> QED
      BY <1>0, <1>2, <2>1, <3>1 DEF ReaderType
  <2>3. reader' = [reader EXCEPT ![r] = m]
    BY <1>0, <1>4, <2>1 DEF S!ShowReleases
  <2>4. GotRight(m)'
    BY <2>2 DEF GotRight
  <2>5. snap[s].sysfs_read = 1 /\ current' # s /\ current' = current
    BY <1>1, <1>4 DEF S!LastReader
  <2> QED
    BY <1>0, <1>1, <1>2, <2>2, <2>3, <2>4, <2>5, ReaderLeaves
<1>5. CASE current # s /\ ~S!LastReader(s)
  <2>1. reader' = [reader EXCEPT ![r] = S!NoRead]
    BY <1>0, <1>5 DEF S!ShowReleases
  <2>2. snap[s].sysfs_read # 1
    BY <1>5 DEF S!LastReader
  <2> QED
    BY <1>0, <1>1, <1>2, <2>1, <2>2, NothingGot, ReaderLeaves
<1> QED
  BY <1>3, <1>4, <1>5

\* Everything is read: the last reader takes the snapshot from the device.
LEMMA ShowEndsKeeps == ASSUME SnapshotInv, NEW r \in Readers, S!ShowEnds(r)  PROVE SnapshotInv'
<1>0. PICK s : s = reader[r].of
  OBVIOUS
<1>1. /\ UNCHANGED <<shows, area, dumping>> /\ dumping.at = "none"
      /\ reader[r].at = "over" /\ snap' = [snap EXCEPT ![s].sysfs_read = @ - 1]
  BY <1>0 DEF S!ShowEnds, S!MutexFree
<1>2. s \in Snaps /\ reader[r] \in ReaderType /\ r \in shows.readers /\ s # 0
  BY <1>0, <1>1, ItsSnapshot, SnapsAre
<1>3. CASE snap[s].sysfs_read = 1
  <2>1. PICK m : m = [reader[r] EXCEPT !.at = "free", !.got = <<>>]
    OBVIOUS
  <2>2. m \in ReaderType /\ m.at = "free" /\ m.of = s /\ m.got = <<>>
    <3>1. <<>> \in Seq(Snaps \cup {0})
      OBVIOUS
    <3> QED
      BY <1>0, <1>2, <2>1, <3>1 DEF ReaderType
  <2>3. /\ reader' = [reader EXCEPT ![r] = m]
        /\ current' = IF current = s THEN 0 ELSE current
    BY <1>0, <1>3, <2>1 DEF S!ShowEnds
  <2>4. GotRight(m)'
    BY <2>2 DEF GotRight
  <2>5. /\ current' # s
        /\ current' = current \/ (current' = 0 /\ current = s)
    BY <1>2, <2>3
  <2> QED
    BY <1>0, <1>1, <1>2, <1>3, <2>2, <2>3, <2>4, <2>5, ReaderLeaves
<1>4. CASE snap[s].sysfs_read # 1
  <2>1. reader' = [reader EXCEPT ![r] = S!NoRead] /\ current' = current
    BY <1>0, <1>4 DEF S!ShowEnds
  <2> QED
    BY <1>0, <1>1, <1>2, <1>4, <2>1, NothingGot, ReaderLeaves
<1> QED
  BY <1>3, <1>4

\* The last reader frees the snapshot, once the worker is done with it.
LEMMA ShowFreesKeeps == ASSUME SnapshotInv, NEW r \in Readers, S!ShowFrees(r)  PROVE SnapshotInv'
<1>0. PICK s : s = reader[r].of
  OBVIOUS
<1>1. /\ UNCHANGED <<shows, current, area, dumping>> /\ reader[r].at = "free"
      /\ snap' = S!Freed(s) /\ snap[s].work = "done"
      /\ reader' = [reader EXCEPT ![r] = S!NoRead]
  BY <1>0 DEF S!ShowFrees, S!CanFree
<1>2. /\ s \in Snaps /\ r \in FreesIt(s) /\ r \in shows.readers
      /\ HeldRight(s) /\ CountRight(s) /\ snap[s].life = "live"
  BY <1>0, <1>1, ItsSnapshot
<1>3. current # s /\ reader \in [Readers -> ReaderType] /\ snap \in [Snaps -> SnapType]
  BY <1>0, <1>1 DEF SnapshotInv, SnapshotTyped, ReaderRight
<1>4. /\ snap' \in [Snaps -> SnapType]
      /\ snap'[s].life = "freed" /\ snap'[s].work = "done" /\ ~snap'[s].frozen
      /\ snap'[s].sysfs_read = snap[s].sysfs_read
  BY <1>1, <1>2, FreedGives
<1>5. PICK rec : rec = [snap[s] EXCEPT !.life = "freed", !.frozen = FALSE]
  OBVIOUS
<1>6. snap' = [snap EXCEPT ![s] = rec] /\ rec \in SnapType
  BY <1>1, <1>2, <1>3, <1>5 DEF S!Freed, SnapType
<1>7. /\ SnapshotTyped' /\ DumpRight'
      /\ \A t \in Snaps \ {s} : HeldRight(t)' /\ CountRight(t)'
      /\ \A q \in Readers \ {r} : ReaderRight(q)'
  <2>1. /\ reader[r].of \in {0, s} /\ S!NoRead.of \in {0, s} /\ snap[s].life = "live"
        /\ current' = current \/ (current' = 0 /\ current = s)
        /\ dumping.at = "none" \/ (current' = current /\ current # s)
        /\ UNCHANGED <<shows, area, dumping>> /\ reader' = [reader EXCEPT ![r] = S!NoRead]
        /\ snap' = [snap EXCEPT ![s] = rec] /\ rec \in SnapType /\ S!NoRead \in ReaderType
    BY <1>0, <1>1, <1>2, <1>3, <1>6, NothingGot
  <2> QED
    BY ONLY <1>2, <2>1, SnapshotInv, r \in Readers, OthersStay
<1>8. S!ReadBy(s)' = S!ReadBy(s) \ {r} /\ FreesIt(s)' = FreesIt(s) \ {r}
  BY <1>1, <1>2, NothingGot, SnapsAre, ReaderMoves DEF SnapshotInv
<1>9. S!ReadBy(s) = {} /\ FreesIt(s) \ {r} = {}
  BY <1>2 DEF HeldRight
<1>10. HeldRight(s)'
  BY <1>1, <1>3, <1>4, <1>8, <1>9 DEF HeldRight
<1>11. CountRight(s)'
  <2>1. S!ReadBy(s)' = S!ReadBy(s)
    BY <1>8, <1>9
  <2> QED
    BY <1>2, <1>4, <2>1 DEF CountRight
<1>12. ReaderRight(r)'
  BY <1>1, <1>3 DEF ReaderRight, S!NoRead
<1>13. ASSUME Only', NEW q \in shows.readers'  PROVE GotRight(reader[q])'
  <2>1. q = r
    BY <1>1, <1>2, <1>13, Alone DEF SnapshotInv, Only
  <2>2. reader'[q] = S!NoRead
    BY <1>1, <1>3, <2>1
  <2> QED
    BY <2>2, NothingGot DEF GotRight
<1>14. \A t \in Snaps : HeldRight(t)' /\ CountRight(t)'
  BY <1>7, <1>10, <1>11
<1>15. \A q \in Readers : ReaderRight(q)'
  BY <1>7, <1>12
<1> QED
  BY <1>7, <1>13, <1>14, <1>15 DEF SnapshotInv

\* Nobody does anything to the snapshots.
LEMMA SnapshotStays == ASSUME SnapshotInv, UNCHANGED S!vars  PROVE SnapshotInv'
<1>1. UNCHANGED <<shows, snap, current, area, dumping, reader>>
  BY DEF S!vars
<1>2. \A s : S!ReadBy(s)' = S!ReadBy(s) /\ FreesIt(s)' = FreesIt(s)
  BY <1>1 DEF S!ReadBy, FreesIt
<1>3. \A s \in Snaps : snap[s].life = "none" => snap[s].work = "queued"
  BY DEF SnapshotInv, HeldRight
<1>4. \A s \in Snaps : snap[s].life = "freed" => snap[s].work = "done" /\ ~snap[s].frozen
  BY DEF SnapshotInv, HeldRight
<1>5. snap' \in [Snaps -> SnapType]
  BY <1>1 DEF SnapshotInv, SnapshotTyped
<1> QED
  BY <1>1, <1>3, <1>4, <1>5, SnapsChange

\* Every step keeps the invariant.
LEMMA SnapshotStep == SnapshotInv /\ [S!Next]_S!vars => SnapshotInv'
<1> SUFFICES ASSUME SnapshotInv, [S!Next]_S!vars  PROVE SnapshotInv'
  OBVIOUS
<1>1. CASE S!Fault(TRUE) \/ S!Fault(FALSE)
  BY <1>1, FaultKeeps
<1>2. CASE S!DumpFrees
  BY <1>2, DumpFreesKeeps
<1>3. CASE S!DumpFills
  BY <1>3, DumpFillsKeeps
<1>4. CASE S!Boot
  BY <1>4, BootKeeps
<1>5. CASE \E s \in Snaps : S!WorkLooks(s) \/ S!WorkCopies(s) \/ S!WorkDone(s)
  BY <1>5, WorkLooksKeeps, WorkCopiesKeeps, WorkDoneKeeps
<1>6. CASE \E r \in Readers : \/ S!ShowBegins(r) \/ S!ShowWaits(r) \/ S!ShowReads(r)
                              \/ S!ShowReleases(r) \/ S!ShowEnds(r) \/ S!ShowFrees(r)
  BY <1>6, ShowBeginsKeeps, ShowWaitsKeeps, ShowReadsKeeps, ShowReleasesKeeps, ShowEndsKeeps,
     ShowFreesKeeps
<1>7. CASE UNCHANGED S!vars
  BY <1>7, SnapshotStays
<1> QED
  BY <1>1, <1>2, <1>3, <1>4, <1>5, <1>6, <1>7 DEF S!Next

\* One thread at most frees a snapshot: a reader that took it from the device, or
\* the dump while the device has it.
LEMMA OneFrees ==
    ASSUME SnapshotInv, NEW s \in Snaps
    PROVE  /\ S!FreedBy(s) # {} => current = s \/ FreesIt(s) # {}
           /\ FreesIt(s) # {} => S!FreedBy(s) # {}
           /\ S!FreedBy(s) # {} => S!ReadBy(s) = {}
           /\ S!Cardinality(S!FreedBy(s)) <= 1
<1>1. S!FreedBy(s) = FreesIt(s) \cup {d \in {"dump"} : dumping.at = "free" /\ dumping.of = s}
  BY DEF S!FreedBy, FreesIt
<1>2. HeldRight(s)
  BY DEF SnapshotInv
<1>3. FreesIt(s) # {} => current # s
  BY DEF SnapshotInv, ReaderRight, FreesIt
<1>4. dumping.at = "free" /\ dumping.of = s => current = s /\ S!ReadBy(s) = {}
  BY DEF SnapshotInv, DumpRight
<1>5. \A x, y \in S!FreedBy(s) : x = y
  <2>1. CASE current = s
    BY <1>1, <1>3, <2>1
  <2>2. CASE current # s
    BY <1>1, <1>2, <1>4, <2>2 DEF HeldRight
  <2> QED
    BY <2>1, <2>2
<1>6. S!Cardinality(S!FreedBy(s)) <= 1
  <2>1. PICK X : X = S!FreedBy(s)
    OBVIOUS
  <2>2. CASE X = {}
    BY <2>1, <2>2, SnapshotSizes, FS_EmptySet
  <2>3. CASE X # {}
    <3>1. PICK x : X = {x}
      BY <1>5, <2>1, <2>3
    <3>2. Cardinality({x}) = 1
      BY FS_Singleton, Zenon
    <3> QED
      BY <2>1, <3>1, <3>2, SnapshotSizes
  <2> QED
    BY <2>2, <2>3
<1> QED
  BY <1>1, <1>2, <1>4, <1>6 DEF HeldRight

\* What one reader alone has got is of one snapshot.
LEMMA OneDumpRight ==
    ASSUME SnapshotInv, Only, NEW r \in Readers  PROVE S!OneDump(r)
<1>1. reader[r] \in ReaderType /\ ReaderRight(r) /\ 0 \notin Snaps
  BY SnapsAre DEF SnapshotInv, SnapshotTyped
<1>2. reader[r].at # "idle" => reader[r].of \in Snaps
  BY ItsSnapshot
<1>3. CASE reader[r].got = <<>>
  BY <1>3 DEF S!OneDump
<1>4. CASE reader[r].got # <<>>
  <2>1. r \in shows.readers
    BY <1>1, <1>4 DEF ReaderRight, S!NoRead
  <2>2. GotRight(reader[r])
    BY <2>1 DEF SnapshotInv
  <2>3. \/ reader[r].at = "release" /\ current # reader[r].of
        \/ \E x \in Snaps : AllOf(reader[r].got, x)
    BY <1>1, <1>2, <1>4, <2>2 DEF GotRight, ReaderRight, ReaderType
  <2>4. ASSUME NEW x \in Snaps, AllOf(reader[r].got, x)  PROVE S!OneDump(r)
    <3>1. \A i \in 1 .. Len(reader[r].got) : reader[r].got[i] = x
      BY <1>1, <2>4 DEF AllOf, ReaderType
    <3> QED
      BY <1>1, <3>1 DEF S!OneDump
  <2> QED
    BY <2>3, <2>4 DEF S!OneDump
<1> QED
  BY <1>3, <1>4

\* The invariant says what the snapshots promise.
LEMMA SnapshotIsKept == SnapshotInv => S!SnapshotKept
<1> SUFFICES ASSUME SnapshotInv  PROVE S!SnapshotKept
  OBVIOUS
<1>1. ASSUME NEW s \in Snaps
      PROVE  /\ snap[s].life = "live" <=> \/ current = s \/ S!ReadBy(s) # {}
                                          \/ S!FreedBy(s) # {}
             /\ snap[s].life = "freed" => snap[s].work = "done" /\ ~snap[s].frozen
             /\ S!FreedBy(s) # {} => S!ReadBy(s) = {}
  <2>1. HeldRight(s)
    BY DEF SnapshotInv
  <2> QED
    BY <2>1, OneFrees DEF HeldRight
<1>2. ASSUME NEW s \in Snaps
      PROVE  /\ S!Cardinality(S!FreedBy(s)) <= 1
             /\ snap[s].sysfs_read = S!Cardinality(S!ReadBy(s))
  <2>1. CountRight(s)
    BY DEF SnapshotInv
  <2> QED
    BY <2>1, OneFrees, SnapshotSizes DEF CountRight
<1>3. S!SnapshotHeld
  BY <1>1, <1>2 DEF S!SnapshotHeld
<1>4. S!ReadsOneDump
  BY OneDumpRight, SnapshotSizes DEF S!ReadsOneDump, Only
<1> QED
  BY <1>3, <1>4 DEF S!SnapshotKept

\* The part "snapshot" is a behaviour of the snapshots.
LEMMA SnapshotBehaves == PartsSpec => S!Init /\ [][S!Next]_S!vars
<1>1. PartsInit => S!Init
  BY DEF PartsInit
<1>2. [PartsNext]_<<part, vars, timelineVars, memoryVars, bufferVars, processVars,
                    fenceVars, snapshotVars, poolVars, addressVars>> => [S!Next]_S!vars
  <2>1. snapshotVars' = snapshotVars => UNCHANGED S!vars
    BY DEF snapshotVars, S!vars
  <2> QED
    BY <2>1 DEF PartsNext
<1> QED
  BY <1>1, <1>2, PTL DEF PartsSpec

\* A snapshot is there as long as the device, its worker or a reader of the sysfs file
\* has it, counts its readers, and is freed once; a lone reader never gets a dump put
\* together of two snapshots (kgsl_device_snapshot, snapshot_show and
\* snapshot_release in kgsl_snapshot.c).
THEOREM PartsSnapshotKept == PartsSpec => []SnapshotKept
<1>1. S!Init => SnapshotInv
  BY SnapshotInitRight
<1>2. SnapshotInv /\ [S!Next]_S!vars => SnapshotInv'
  BY SnapshotStep
<1>3. SnapshotInv => SnapshotKept
  BY SnapshotIsKept DEF SnapshotKept
<1> QED
  BY <1>1, <1>2, <1>3, SnapshotBehaves, PTL

-----------------------------------------------------------------------------
(* Reclaim.  Which entries are mapped with all their pages.                *)

Threads == Submitters \cup Binders
Commands == {c \in Threads : caller[c] \in {"waits", "ready"}}
Takes == {"taken", "clears"}
Brings == {"enters", "looks", "relocks", "maps"}

EntryType == [user : {"live", "pending", "put", "freed"}, reclaimed : BOOLEAN,
              skip : BOOLEAN, mapped : BOOLEAN, pages : SUBSET M!Page, vbo : SUBSET Binders]
JobType == [at : {"idle", "scan"} \cup Takes \cup Brings, e : Entries \cup {0}, page : Nat,
            left : Int]
FaultType == [at : {"no", "reads", "fills"}, e : Entries \cup {0}, page : M!Page \cup {0}]
ReclaimTyped ==
    /\ pinned \in BOOLEAN /\ unpinned \in Int
    /\ owner \in M!Callers \cup {"none", M!Reclaimer} /\ job \in JobType
    /\ caller \in [M!Callers -> {"idle", "waits", "ready", "bound"}]
    /\ entry \in [Entries -> EntryType]
    /\ vmfault \in FaultType
    /\ vmfault.at # "no" => vmfault.e \in Entries /\ vmfault.page \in M!Page

\* Who holds reclaim_lock, and what for
JobRight ==
    /\ owner = "none" <=> job.at = "idle"
    /\ job.at = "idle" => job.e = 0
    /\ job.at \in Takes => owner = M!Reclaimer /\ ~entry[job.e].reclaimed
    /\ job.at \in Brings => owner \in M!Callers /\ entry[job.e].reclaimed
    /\ job.at \in Takes \cup Brings => job.e \in Entries
    /\ owner \in M!Callers => ~pinned /\ caller[owner] = "waits"
    /\ job.at = "clears" => entry[job.e].vbo = {}

\* The pages in front of the one looked at are in place.
PagesRight ==
    /\ job.at \in {"clears", "looks", "relocks"} => job.page \in 1 .. PageCount + 1
    /\ job.at \in {"looks", "relocks"} => 1 .. job.page - 1 \subseteq entry[job.e].pages
    /\ job.at = "relocks" => job.page \in M!Page
    /\ job.at = "maps" => entry[job.e].pages = M!Page

\* While a command is queued or an entry is bound, the worker looks at no entry.
CommandsRight == cmd_count = Cardinality(Commands)
ReadyRight ==
    /\ caller[M!Fg] \in {"idle", "waits"}
    /\ \A c \in Threads : caller[c] = "ready" => pinned /\ job.e = 0

Full(e) == entry[e].mapped /\ entry[e].pages = M!Page /\ ~entry[e].reclaimed
Clears(e) == job.at = "clears" /\ job.e = e
EntryRight(e) ==
    /\ entry[e].user # "freed" /\ ~entry[e].reclaimed /\ ~Clears(e) => Full(e)
    /\ entry[e].vbo # {} => Full(e) /\ entry[e].user # "freed"
    /\ entry[e].user = "live" /\ pinned /\ job.e = 0 => Full(e)

\* Who pins has brought back the entries it has passed.
Passed(e) == e < job.e \/ (e = job.e /\ job.at = "scan")
PassedRight(e) == owner \in M!Callers /\ entry[e].user = "live" /\ Passed(e) => Full(e)

ReclaimInv ==
    /\ ReclaimTyped /\ JobRight /\ PagesRight /\ CommandsRight /\ ReadyRight
    /\ \A e \in Entries : EntryRight(e) /\ PassedRight(e)

\* The instance has the same cardinalities.
LEMMA ReclaimSizes ==
    \A X : M!Cardinality(X) = Cardinality(X) /\ (M!IsFiniteSet(X) <=> IsFiniteSet(X))
<1>1. \A X : M!Cardinality(X) = Cardinality(X)
  BY DEF M!Cardinality, Cardinality
<1>2. \A X : M!IsFiniteSet(X) <=> IsFiniteSet(X)
  BY DEF M!IsFiniteSet, IsFiniteSet
<1> QED
  BY <1>1, <1>2

\* The threads are finite, and the works none of them.
LEMMA ThreadsAre ==
    /\ IsFiniteSet(Threads) /\ M!Callers = Threads \cup {M!Fg} /\ M!Fg \notin Threads
    /\ M!Reclaimer \notin M!Callers /\ "none" \notin M!Callers /\ M!Reclaimer # "none"
    /\ Submitters \cap Binders = {}
<1>1. M!ReclaimAssumption
  BY PartsAssumption
<1>2. IsFiniteSet(Submitters) /\ IsFiniteSet(Binders) /\ Submitters \cap Binders = {}
      /\ {"none", "fg_work", "reclaim_work"} \cap (Submitters \cup Binders) = {}
  BY <1>1, ReclaimSizes DEF M!ReclaimAssumption
<1>3. IsFiniteSet(Threads)
  BY <1>2, FS_Union DEF Threads
<1> QED
  BY <1>2, <1>3 DEF Threads, M!Callers, M!Fg, M!Reclaimer

\* The entries and the pages are numbered from one.
LEMMA EntriesAre ==
    /\ PageCount \in Nat \ {0} /\ M!Page = 1 .. PageCount /\ IsFiniteSet(Entries)
    /\ Entries \subseteq Nat \ {0} /\ 0 \notin Entries
<1>1. M!ReclaimAssumption
  BY PartsAssumption
<1>2. PageCount \in Nat \ {0} /\ IsFiniteSet(Entries) /\ Entries = 1 .. Cardinality(Entries)
  BY <1>1, ReclaimSizes DEF M!ReclaimAssumption
<1>3. Cardinality(Entries) \in Nat
  BY <1>2, FS_CardinalityType
<1>4. \A n \in Nat : 1 .. n \subseteq Nat \ {0}
  OBVIOUS
<1>5. Entries \subseteq Nat \ {0}
  BY <1>2, <1>3, <1>4
<1> QED
  BY <1>2, <1>5 DEF M!Page

\* The commands are counted one by one.
LEMMA CommandsCount ==
    /\ Cardinality(Commands) \in Nat /\ (Cardinality(Commands) = 0 <=> Commands = {})
    /\ \A c \in Threads \ Commands :
           Cardinality(Commands \cup {c}) = Cardinality(Commands) + 1
    /\ \A c \in Commands : Cardinality(Commands \ {c}) = Cardinality(Commands) - 1
<1> DEFINE Ts == Commands
<1>1. Ts \in SUBSET Threads
  BY DEF Commands
<1> HIDE DEF Ts
<1>2. IsFiniteSet(Ts)
  BY <1>1, ThreadsAre, FS_Subset
<1>3. Cardinality(Ts) \in Nat /\ (Cardinality(Ts) = 0 <=> Ts = {})
  BY <1>2, FS_CardinalityType, FS_EmptySet
<1>4. \A c \in Threads \ Ts : Cardinality(Ts \cup {c}) = Cardinality(Ts) + 1
  BY <1>2, FS_AddElement
<1>5. \A c \in Ts : Cardinality(Ts \ {c}) = Cardinality(Ts) - 1
  BY <1>2, FS_RemoveElement
<1> QED
  BY <1>3, <1>4, <1>5 DEF Ts

\* At first everything is in place.
LEMMA ReclaimInitRight == M!Init => ReclaimInv
<1> SUFFICES ASSUME M!Init  PROVE ReclaimInv
  OBVIOUS
<1>1. /\ pinned = TRUE /\ unpinned = 0 /\ owner = "none" /\ cmd_count = 0
      /\ job = M!Idle /\ vmfault = M!NoFault
  BY DEF M!Init
<1>2. \A c \in M!Callers : caller[c] = "idle"
  BY DEF M!Init
<1>3. \A e \in Entries : entry[e] = [user |-> "live", reclaimed |-> FALSE, skip |-> FALSE,
                                     mapped |-> TRUE, pages |-> M!Page, vbo |-> {}]
  BY DEF M!Init
<1>4. ReclaimTyped
  <2>1. caller \in [M!Callers -> {"idle", "waits", "ready", "bound"}]
    BY DEF M!Init
  <2>2. entry \in [Entries -> EntryType]
    BY <1>3 DEF M!Init, EntryType
  <2>3. job \in JobType /\ vmfault \in FaultType /\ vmfault.at = "no"
    BY <1>1 DEF M!Idle, M!NoFault, JobType, FaultType
  <2> QED
    BY <1>1, <2>1, <2>2, <2>3 DEF ReclaimTyped
<1>5. JobRight /\ PagesRight
  BY <1>1, ThreadsAre DEF M!Idle, JobRight, PagesRight, Takes, Brings
<1>6. CommandsRight
  <2>1. Commands = {}
    BY <1>2, ThreadsAre DEF Commands
  <2> QED
    BY <1>1, <2>1, CommandsCount DEF CommandsRight
<1>7. ReadyRight
  BY <1>1, <1>2, ThreadsAre DEF ReadyRight, M!Idle
<1>8. ASSUME NEW e \in Entries  PROVE EntryRight(e) /\ PassedRight(e)
  BY <1>1, <1>3, ThreadsAre DEF EntryRight, PassedRight, Full
<1> QED
  BY <1>4, <1>5, <1>6, <1>7, <1>8 DEF ReclaimInv

\* What the entries' invariants are made of stays.
LEMMA EntriesStay ==
    ASSUME ReclaimInv, UNCHANGED <<pinned, owner, job, entry>>,
           caller' \in [M!Callers -> {"idle", "waits", "ready", "bound"}],
           owner \in M!Callers => caller'[owner] = "waits"
    PROVE  JobRight' /\ PagesRight' /\ \A e \in Entries : EntryRight(e)' /\ PassedRight(e)'
<1>1. JobRight'
  BY DEF ReclaimInv, JobRight
<1>2. PagesRight'
  BY DEF ReclaimInv, PagesRight
<1>3. ASSUME NEW e \in Entries  PROVE EntryRight(e)'
  BY DEF ReclaimInv, EntryRight, Full, Clears
<1>4. ASSUME NEW e \in Entries  PROVE PassedRight(e)'
  BY DEF ReclaimInv, PassedRight, Full, Passed
<1> QED
  BY <1>1, <1>2, <1>3, <1>4

\* The commands that are counted stay.
LEMMA CommandsStay ==
    ASSUME ReclaimInv, UNCHANGED <<caller, cmd_count>>  PROVE CommandsRight'
BY DEF ReclaimInv, CommandsRight, Commands

\* Neither the work of a thread nor that of the lock's owner goes on.
LEMMA CallersMove ==
    ASSUME ReclaimInv, UNCHANGED <<pinned, unpinned, owner, job, entry>>, vmfault' = vmfault,
           caller' \in [M!Callers -> {"idle", "waits", "ready", "bound"}],
           owner \in M!Callers => caller'[owner] = "waits", CommandsRight', ReadyRight'
    PROVE  ReclaimInv'
<1>1. ReclaimTyped'
  BY DEF ReclaimInv, ReclaimTyped
<1> QED
  BY <1>1, EntriesStay DEF ReclaimInv

\* What a thread may become that is none of the commands
LEMMA CallerGoes ==
    ASSUME ReclaimTyped, NEW c \in M!Callers, NEW a \in {"idle", "waits", "ready", "bound"},
           caller' = [caller EXCEPT ![c] = a]
    PROVE  /\ caller' \in [M!Callers -> {"idle", "waits", "ready", "bound"}]
           /\ caller'[c] = a /\ \A d \in M!Callers : d # c => caller'[d] = caller[d]
           /\ Commands' = IF c \in Threads /\ a \in {"waits", "ready"} THEN Commands \cup {c}
                                                                      ELSE Commands \ {c}
<1>1. /\ caller' \in [M!Callers -> {"idle", "waits", "ready", "bound"}]
      /\ caller'[c] = a /\ \A d \in M!Callers : d # c => caller'[d] = caller[d]
  BY DEF ReclaimTyped
<1>2. \A d \in Threads : d # c => caller'[d] = caller[d]
  BY <1>1, ThreadsAre
<1> QED
  BY <1>1, <1>2 DEF Commands

\* The hint that the process is in the foreground asks for its memory.
LEMMA ForegroundKeeps == ASSUME ReclaimInv, M!Foreground  PROVE ReclaimInv'
<1>1. /\ UNCHANGED <<pinned, unpinned, owner, job, entry, vmfault, cmd_count>>
      /\ ReclaimTyped /\ M!Fg \in M!Callers
  BY ThreadsAre DEF M!Foreground, ReclaimInv
<1>2. CASE caller' = caller
  <2>1. CommandsRight' /\ ReadyRight'
    BY <1>1, <1>2, CommandsStay DEF ReclaimInv, ReadyRight
  <2> QED
    BY <1>1, <1>2, <2>1, CallersMove DEF ReclaimInv, ReclaimTyped, JobRight
<1>3. CASE caller' = [caller EXCEPT ![M!Fg] = "waits"] /\ caller[M!Fg] = "idle"
  <2>1. /\ caller' \in [M!Callers -> {"idle", "waits", "ready", "bound"}]
        /\ caller'[M!Fg] = "waits" /\ \A d \in M!Callers : d # M!Fg => caller'[d] = caller[d]
        /\ Commands' = Commands \ {M!Fg}
    BY <1>1, <1>3, CallerGoes, ThreadsAre
  <2>2. Commands' = Commands
    BY <2>1, ThreadsAre DEF Commands
  <2>3. CommandsRight'
    BY <1>1, <2>2 DEF ReclaimInv, CommandsRight
  <2>4. ReadyRight'
    BY <1>1, <2>1, ThreadsAre DEF ReclaimInv, ReadyRight
  <2>5. owner \in M!Callers => caller'[owner] = "waits"
    BY <2>1 DEF ReclaimInv, JobRight
  <2> QED
    BY <1>1, <2>1, <2>3, <2>4, <2>5, CallersMove
<1> QED
  BY <1>2, <1>3 DEF M!Foreground

\* Nothing that is looked at changes.
LEMMA CallersStay ==
    ASSUME ReclaimInv, vmfault' = vmfault,
           UNCHANGED <<pinned, unpinned, owner, job, entry, caller, cmd_count>>
    PROVE  ReclaimInv'
<1>1. CommandsRight' /\ ReadyRight'
  BY CommandsStay DEF ReclaimInv, ReadyRight
<1> QED
  BY <1>1, CallersMove DEF ReclaimInv, ReclaimTyped, JobRight

\* The process goes to the background.
LEMMA BackgroundKeeps == ASSUME ReclaimInv, M!Background  PROVE ReclaimInv'
  BY CallersStay DEF M!Background

\* A command is created, and counted.
LEMMA CreateKeeps == ASSUME ReclaimInv, NEW c \in M!Callers, M!Create(c)  PROVE ReclaimInv'
<1>1. /\ UNCHANGED <<pinned, unpinned, owner, job, entry, vmfault>> /\ cmd_count' = cmd_count + 1
      /\ caller' = [caller EXCEPT ![c] = "waits"] /\ caller[c] = "idle" /\ c \in Threads
      /\ ReclaimTyped
  BY ThreadsAre DEF M!Create, ReclaimInv
<1>2. /\ caller' \in [M!Callers -> {"idle", "waits", "ready", "bound"}]
      /\ caller'[c] = "waits" /\ \A d \in M!Callers : d # c => caller'[d] = caller[d]
      /\ Commands' = Commands \cup {c}
  BY <1>1, CallerGoes
<1>3. CommandsRight'
  <2>1. c \in Threads \ Commands
    BY <1>1 DEF Commands
  <2>2. Cardinality(Commands \cup {c}) = Cardinality(Commands) + 1
    BY <2>1, CommandsCount
  <2>3. cmd_count = Cardinality(Commands)
    BY DEF ReclaimInv, CommandsRight
  <2> QED
    BY <1>1, <1>2, <2>2, <2>3 DEF CommandsRight
<1>4. ReadyRight'
  BY <1>1, <1>2, ThreadsAre DEF ReclaimInv, ReadyRight
<1>5. owner \in M!Callers => caller'[owner] = "waits"
  BY <1>2 DEF ReclaimInv, JobRight
<1> QED
  BY <1>1, <1>2, <1>3, <1>4, <1>5, CallersMove

\* A command that is ready, or owns the lock, goes, and is counted no longer.
LEMMA CommandGoes ==
    ASSUME ReclaimInv, NEW c \in Threads, NEW a \in {"idle", "bound"},
           caller[c] \in {"ready", "waits"},
           caller' = [caller EXCEPT ![c] = a], cmd_count' = cmd_count - 1,
           UNCHANGED pinned, job'.e = job.e \/ job'.e = 0
    PROVE  /\ caller' \in [M!Callers -> {"idle", "waits", "ready", "bound"}]
           /\ \A d \in M!Callers : d # c => caller'[d] = caller[d]
           /\ CommandsRight' /\ ReadyRight'
<1>1. ReclaimTyped /\ c \in M!Callers
  BY ThreadsAre DEF ReclaimInv
<1>2. /\ caller' \in [M!Callers -> {"idle", "waits", "ready", "bound"}]
      /\ caller'[c] = a /\ \A d \in M!Callers : d # c => caller'[d] = caller[d]
      /\ Commands' = Commands \ {c}
  BY <1>1, CallerGoes
<1>3. CommandsRight'
  <2>1. c \in Commands
    BY <1>1 DEF Commands
  <2>2. Cardinality(Commands \ {c}) = Cardinality(Commands) - 1
    BY <2>1, CommandsCount
  <2>3. cmd_count = Cardinality(Commands)
    BY DEF ReclaimInv, CommandsRight
  <2> QED
    BY <1>2, <2>2, <2>3 DEF CommandsRight
<1>4. ReadyRight'
  BY <1>1, <1>2, ThreadsAre DEF ReclaimInv, ReadyRight
<1> QED
  BY <1>2, <1>3, <1>4

\* A command retires.
LEMMA RetireKeeps == ASSUME ReclaimInv, NEW c \in M!Callers, M!Retire(c)  PROVE ReclaimInv'
<1>1. /\ UNCHANGED <<pinned, unpinned, owner, job, entry, vmfault>> /\ cmd_count' = cmd_count - 1
      /\ caller' = [caller EXCEPT ![c] = "idle"] /\ caller[c] = "ready" /\ c \in Threads
  BY DEF M!Retire, Threads
<1>2. /\ caller' \in [M!Callers -> {"idle", "waits", "ready", "bound"}]
      /\ \A d \in M!Callers : d # c => caller'[d] = caller[d]
      /\ CommandsRight' /\ ReadyRight'
  BY <1>1, CommandGoes
<1>3. owner \in M!Callers => caller'[owner] = "waits"
  BY <1>1, <1>2 DEF ReclaimInv, JobRight
<1> QED
  BY <1>1, <1>2, <1>3, CallersMove

\* The hint's work finds the process in the background again.
LEMMA FgPassesKeeps == ASSUME ReclaimInv, M!FgPasses  PROVE ReclaimInv'
<1>1. /\ UNCHANGED <<pinned, unpinned, owner, job, entry, vmfault, cmd_count>>
      /\ owner # M!Fg /\ caller' = [caller EXCEPT ![M!Fg] = "idle"]
      /\ ReclaimTyped /\ M!Fg \in M!Callers
  BY ThreadsAre DEF M!FgPasses, ReclaimInv
<1>2. /\ caller' \in [M!Callers -> {"idle", "waits", "ready", "bound"}]
      /\ caller'[M!Fg] = "idle" /\ \A d \in M!Callers : d # M!Fg => caller'[d] = caller[d]
      /\ Commands' = Commands \ {M!Fg}
  BY <1>1, CallerGoes
<1>3. Commands' = Commands
  BY <1>2, ThreadsAre DEF Commands
<1>4. CommandsRight'
  BY <1>1, <1>3 DEF ReclaimInv, CommandsRight
<1>5. ReadyRight'
  BY <1>1, <1>2, ThreadsAre DEF ReclaimInv, ReadyRight
<1>6. owner \in M!Callers => caller'[owner] = "waits"
  BY <1>1, <1>2 DEF ReclaimInv, JobRight
<1> QED
  BY <1>1, <1>2, <1>4, <1>5, <1>6, CallersMove

\* The fault of the CPU looks at the page again.
LEMMA FaultLooksKeeps == ASSUME ReclaimInv, M!FaultLooks  PROVE ReclaimInv'
<1>1. UNCHANGED <<pinned, unpinned, owner, job, entry, caller, cmd_count>>
  BY DEF M!FaultLooks
<1>2. /\ vmfault' \in FaultType
      /\ vmfault'.at # "no" => vmfault'.e \in Entries /\ vmfault'.page \in M!Page
  <2>1. vmfault \in FaultType /\ vmfault.at = "reads"
        /\ vmfault.e \in Entries /\ vmfault.page \in M!Page
    BY DEF M!FaultLooks, ReclaimInv, ReclaimTyped
  <2> QED
    BY <2>1 DEF M!FaultLooks, M!NoFault, FaultType
<1>3. ReclaimTyped'
  BY <1>1, <1>2 DEF ReclaimInv, ReclaimTyped
<1>4. CommandsRight' /\ ReadyRight'
  BY <1>1, CommandsStay DEF ReclaimInv, ReadyRight
<1>5. owner \in M!Callers => caller'[owner] = "waits"
  BY <1>1 DEF ReclaimInv, JobRight
<1>6. JobRight' /\ PagesRight' /\ \A e \in Entries : EntryRight(e)' /\ PassedRight(e)'
  BY <1>1, <1>3, <1>5, EntriesStay DEF ReclaimTyped
<1> QED
  BY <1>3, <1>4, <1>6 DEF ReclaimInv

\* An entry changes, but neither loses a page nor becomes live again.
LEMMA EntryChanges ==
    ASSUME ReclaimInv, UNCHANGED <<pinned, owner, job>>, NEW e \in Entries,
           NEW rec \in EntryType, entry' = [entry EXCEPT ![e] = rec],
           caller' \in [M!Callers -> {"idle", "waits", "ready", "bound"}],
           owner \in M!Callers => caller'[owner] = "waits",
           rec.reclaimed = entry[e].reclaimed, entry[e].pages \subseteq rec.pages,
           rec.user = "live" => entry[e].user = "live",
           rec.user # "freed" => entry[e].user # "freed" /\ rec.mapped = entry[e].mapped,
           rec.user = "freed" => rec.vbo = {},
           rec.vbo # {} => entry[e].vbo # {} \/ (Full(e) /\ job.e = 0)
    PROVE  JobRight' /\ PagesRight' /\ \A f \in Entries : EntryRight(f)' /\ PassedRight(f)'
<1>1. /\ entry \in [Entries -> EntryType] /\ entry'[e] = rec
      /\ \A f \in Entries : f # e => entry'[f] = entry[f]
      /\ entry[e].pages \subseteq M!Page /\ rec.pages \subseteq M!Page
  BY DEF ReclaimInv, ReclaimTyped, EntryType
<1>2. JobRight'
  <2>1. job.at = "clears" /\ job.e = e => rec.vbo = {}
    BY EntriesAre DEF ReclaimInv, JobRight
  <2>2. JobRight
    BY DEF ReclaimInv
  <2> QED
    BY <1>1, <2>1, <2>2 DEF JobRight
<1>3. PagesRight'
  <2>1. \A f \in Entries : entry[f].pages \subseteq entry'[f].pages /\ entry'[f].pages \subseteq M!Page
    BY <1>1 DEF EntryType
  <2>2. job.at \in Brings => job.e \in Entries
    BY DEF ReclaimInv, JobRight
  <2>3. PagesRight
    BY DEF ReclaimInv
  <2>4. /\ job.at \in {"looks", "relocks"} => 1 .. job.page - 1 \subseteq entry'[job.e].pages
        /\ job.at = "maps" => entry'[job.e].pages = M!Page
    BY <2>1, <2>2, <2>3 DEF PagesRight, Brings
  <2> QED
    BY <2>3, <2>4 DEF PagesRight
<1>4. Full(e) /\ rec.user # "freed" => Full(e)'
  BY <1>1 DEF Full
<1>5. \A f \in Entries : f # e => Full(f)' = Full(f)
  BY <1>1 DEF Full
<1>6. ASSUME NEW f \in Entries  PROVE EntryRight(f)'
  <2>1. EntryRight(f) /\ (Clears(f)' <=> Clears(f))
    BY DEF ReclaimInv, Clears
  <2>2. CASE f # e
    BY <1>1, <1>5, <2>1, <2>2 DEF EntryRight
  <2>3. CASE f = e
    <3>1. rec.vbo # {} => Full(e) /\ rec.user # "freed"
      BY <2>1, <2>3 DEF EntryRight
    <3>2. rec.user = "live" /\ pinned /\ job.e = 0 => Full(e)
      BY <2>1, <2>3 DEF EntryRight
    <3>3. rec.user # "freed" /\ ~rec.reclaimed /\ ~Clears(f) => Full(e)
      BY <2>1, <2>3 DEF EntryRight
    <3> QED
      BY <1>1, <1>4, <2>1, <2>3, <3>1, <3>2, <3>3 DEF EntryRight
  <2> QED
    BY <2>2, <2>3
<1>7. ASSUME NEW f \in Entries  PROVE PassedRight(f)'
  <2>1. PassedRight(f) /\ (Passed(f)' <=> Passed(f))
    BY DEF ReclaimInv, Passed
  <2>2. CASE f # e
    BY <1>1, <1>5, <2>1, <2>2 DEF PassedRight
  <2>3. CASE f = e
    BY <1>1, <1>4, <2>1, <2>3 DEF PassedRight
  <2> QED
    BY <2>2, <2>3
<1> QED
  BY <1>2, <1>3, <1>6, <1>7

\* The same when the threads stay.
LEMMA EntryOnly ==
    ASSUME ReclaimInv, UNCHANGED <<pinned, owner, job, caller, cmd_count>>, NEW e \in Entries,
           NEW rec \in EntryType, entry' = [entry EXCEPT ![e] = rec],
           unpinned' \in Int, vmfault' \in FaultType,
           vmfault'.at # "no" => vmfault'.e \in Entries /\ vmfault'.page \in M!Page,
           rec.reclaimed = entry[e].reclaimed, entry[e].pages \subseteq rec.pages,
           rec.user = "live" => entry[e].user = "live",
           rec.user # "freed" => entry[e].user # "freed" /\ rec.mapped = entry[e].mapped,
           rec.user = "freed" => rec.vbo = {}, rec.vbo # {} => entry[e].vbo # {}
    PROVE  ReclaimInv'
<1>1. ReclaimTyped'
  BY DEF ReclaimInv, ReclaimTyped
<1>2. CommandsRight' /\ ReadyRight'
  BY CommandsStay DEF ReclaimInv, ReadyRight
<1>3. owner \in M!Callers => caller'[owner] = "waits"
  BY DEF ReclaimInv, JobRight
<1>4. caller' \in [M!Callers -> {"idle", "waits", "ready", "bound"}]
  BY <1>1 DEF ReclaimTyped
<1>5. JobRight' /\ PagesRight' /\ \A f \in Entries : EntryRight(f)' /\ PassedRight(f)'
  BY <1>3, <1>4, EntryChanges
<1> QED
  BY <1>1, <1>2, <1>5 DEF ReclaimInv

\* An entry is of its type.
LEMMA EntryIs == ASSUME ReclaimInv, NEW e \in Entries
                 PROVE  /\ entry[e] \in EntryType /\ EntryRight(e) /\ unpinned \in Int
                        /\ vmfault \in FaultType
                        /\ vmfault.at # "no" => vmfault.e \in Entries /\ vmfault.page \in M!Page
BY DEF ReclaimInv, ReclaimTyped

\* The user frees its memory.
LEMMA FreeKeeps == ASSUME ReclaimInv, NEW e \in Entries, M!Free(e)  PROVE ReclaimInv'
<1>1. PICK u \in {"pending", "put"} : entry' = [entry EXCEPT ![e] = [entry[e] EXCEPT !.user = u]]
  BY DEF M!Free, M!Sets
<1>2. /\ UNCHANGED <<pinned, owner, job, caller, cmd_count, unpinned, vmfault>>
      /\ entry[e].user # "freed"
  BY DEF M!Free
<1>3. PICK rec : rec = [entry[e] EXCEPT !.user = u]
  OBVIOUS
<1>4. /\ rec \in EntryType /\ rec.reclaimed = entry[e].reclaimed /\ rec.pages = entry[e].pages
      /\ rec.user = u /\ rec.mapped = entry[e].mapped /\ rec.vbo = entry[e].vbo
  BY <1>3, EntryIs DEF EntryType
<1> QED
  BY <1>1, <1>2, <1>3, <1>4, EntryIs, EntryOnly

\* The entry goes with its last reference.
LEMMA DestroyKeeps == ASSUME ReclaimInv, NEW e \in Entries, M!Destroy(e)  PROVE ReclaimInv'
<1>1. /\ UNCHANGED <<pinned, owner, job, caller, cmd_count, vmfault>> /\ entry[e].vbo = {}
      /\ unpinned' = unpinned - M!Unreclaimed(e)
  BY DEF M!Destroy, M!Held
<1>2. PICK rec : rec = [entry[e] EXCEPT !.user = "freed", !.mapped = FALSE]
  OBVIOUS
<1>3. entry' = [entry EXCEPT ![e] = rec]
  BY <1>2 DEF M!Destroy, M!Sets
<1>4. /\ rec \in EntryType /\ rec.reclaimed = entry[e].reclaimed /\ rec.pages = entry[e].pages
      /\ rec.user = "freed" /\ rec.vbo = entry[e].vbo
  BY <1>2, EntryIs DEF EntryType
<1>5. unpinned' \in Int
  <2>1. M!Unreclaimed(e) \in Int
    BY EntriesAre DEF M!Unreclaimed
  <2> QED
    BY <1>1, <2>1, EntryIs
<1> QED
  BY <1>1, <1>3, <1>4, <1>5, EntryIs, EntryOnly

\* A fault of the CPU marks the entry.
LEMMA FaultMarksKeeps == ASSUME ReclaimInv, M!FaultMarks  PROVE ReclaimInv'
<1>1. PICK e \in Entries, p \in M!Page :
          /\ entry[e].user \in {"live", "pending"}
          /\ entry' = [entry EXCEPT ![e] = [entry[e] EXCEPT !.skip = TRUE]]
          /\ vmfault' = [at |-> "reads", e |-> e, page |-> p]
  BY DEF M!FaultMarks, M!Sets
<1>2. UNCHANGED <<pinned, owner, job, caller, cmd_count, unpinned>>
  BY DEF M!FaultMarks
<1>3. PICK rec : rec = [entry[e] EXCEPT !.skip = TRUE]
  OBVIOUS
<1>4. /\ rec \in EntryType /\ rec.reclaimed = entry[e].reclaimed /\ rec.pages = entry[e].pages
      /\ rec.user = entry[e].user /\ rec.mapped = entry[e].mapped /\ rec.vbo = entry[e].vbo
  BY <1>3, EntryIs DEF EntryType
<1>5. /\ vmfault' \in FaultType
      /\ vmfault'.at # "no" => vmfault'.e \in Entries /\ vmfault'.page \in M!Page
  BY <1>1 DEF FaultType
<1>6. rec.vbo # {} => rec.user # "freed"
  BY <1>1, <1>4
<1> QED
  BY <1>1, <1>2, <1>3, <1>4, <1>5, <1>6, EntryIs, EntryOnly

\* The fault puts its page in place.
LEMMA FaultFillsKeeps == ASSUME ReclaimInv, M!FaultFills  PROVE ReclaimInv'
<1>1. /\ UNCHANGED <<pinned, owner, job, caller, cmd_count>> /\ vmfault.at # "no"
      /\ unpinned' = unpinned - 1 /\ vmfault' = M!NoFault
  BY DEF M!FaultFills
<1>2. PICK e \in Entries : e = vmfault.e
  BY <1>1 DEF ReclaimInv, ReclaimTyped
<1>3. PICK rec : rec = [entry[e] EXCEPT !.pages = @ \cup {vmfault.page}]
  OBVIOUS
<1>4. entry' = [entry EXCEPT ![e] = rec]
  BY <1>2, <1>3 DEF M!FaultFills, M!Sets
<1>5. /\ rec \in EntryType /\ rec.reclaimed = entry[e].reclaimed
      /\ entry[e].pages \subseteq rec.pages
      /\ rec.user = entry[e].user /\ rec.mapped = entry[e].mapped /\ rec.vbo = entry[e].vbo
  BY <1>1, <1>3, EntryIs DEF EntryType
<1>6. unpinned' \in Int /\ vmfault' \in FaultType /\ vmfault'.at = "no"
  BY <1>1, EntryIs DEF M!NoFault, FaultType
<1>7. rec.user = "freed" => rec.vbo = {}
  BY <1>5, EntryIs DEF EntryRight
<1> QED
  BY <1>1, <1>4, <1>5, <1>6, <1>7, EntryOnly

\* A binder keeps an entry that is there, and is counted no longer.
LEMMA BindKeeps == ASSUME ReclaimInv, NEW c \in M!Callers, M!Bind(c)  PROVE ReclaimInv'
<1>1. PICK e \in Entries :
          /\ entry[e].user = "live"
          /\ entry' = [entry EXCEPT ![e] = [entry[e] EXCEPT !.vbo = @ \cup {c}]]
  BY DEF M!Bind, M!Sets
<1>2. /\ UNCHANGED <<pinned, owner, job, unpinned, vmfault>> /\ cmd_count' = cmd_count - 1
      /\ caller' = [caller EXCEPT ![c] = "bound"] /\ caller[c] = "ready" /\ c \in Threads
      /\ c \in Binders
  BY DEF M!Bind, Threads
<1>3. pinned /\ job.e = 0 /\ Full(e)
  <2>1. pinned /\ job.e = 0
    BY <1>2 DEF ReclaimInv, ReadyRight
  <2> QED
    BY <1>1, <2>1, EntryIs DEF EntryRight
<1>4. /\ caller' \in [M!Callers -> {"idle", "waits", "ready", "bound"}]
      /\ \A d \in M!Callers : d # c => caller'[d] = caller[d]
      /\ CommandsRight' /\ ReadyRight'
  BY <1>2, CommandGoes
<1>5. owner \in M!Callers => caller'[owner] = "waits"
  BY <1>2, <1>4 DEF ReclaimInv, JobRight
<1>6. PICK rec : rec = [entry[e] EXCEPT !.vbo = @ \cup {c}]
  OBVIOUS
<1>7. /\ rec \in EntryType /\ rec.reclaimed = entry[e].reclaimed /\ rec.pages = entry[e].pages
      /\ rec.user = "live" /\ rec.mapped = entry[e].mapped
  BY <1>1, <1>2, <1>6, EntryIs DEF EntryType
<1>8. JobRight' /\ PagesRight' /\ \A f \in Entries : EntryRight(f)' /\ PassedRight(f)'
  BY <1>1, <1>2, <1>3, <1>4, <1>5, <1>6, <1>7, EntryChanges
<1>9. ReclaimTyped'
  BY <1>1, <1>2, <1>4, <1>6, <1>7 DEF ReclaimInv, ReclaimTyped
<1> QED
  BY <1>4, <1>8, <1>9 DEF ReclaimInv

\* A range is taken out of the virtual buffer.
LEMMA UnbindKeeps == ASSUME ReclaimInv, NEW c \in M!Callers, M!Unbind(c)  PROVE ReclaimInv'
<1>1. /\ UNCHANGED <<pinned, owner, job, unpinned, vmfault, cmd_count>>
      /\ caller' = [caller EXCEPT ![c] = "idle"] /\ caller[c] = "bound" /\ ReclaimTyped
      /\ entry' = [f \in Entries |-> [entry[f] EXCEPT !.vbo = @ \ {c}]]
  BY DEF M!Unbind, ReclaimInv
<1>2. \A f \in Entries :
          /\ entry'[f] \in EntryType /\ entry'[f].reclaimed = entry[f].reclaimed
          /\ entry'[f].pages = entry[f].pages /\ entry'[f].mapped = entry[f].mapped
          /\ entry'[f].user = entry[f].user /\ entry'[f].vbo \subseteq entry[f].vbo
  BY <1>1 DEF ReclaimTyped, EntryType
<1>3. /\ caller' \in [M!Callers -> {"idle", "waits", "ready", "bound"}]
      /\ caller'[c] = "idle" /\ \A d \in M!Callers : d # c => caller'[d] = caller[d]
      /\ Commands' = Commands \ {c}
  BY <1>1, CallerGoes
<1>4. CommandsRight'
  <2>1. Commands' = Commands
    BY <1>1, <1>3 DEF Commands
  <2> QED
    BY <1>1, <2>1 DEF ReclaimInv, CommandsRight
<1>5. ReadyRight'
  BY <1>1, <1>3, ThreadsAre DEF ReclaimInv, ReadyRight
<1>6. ReclaimTyped'
  BY <1>1, <1>2, <1>3 DEF ReclaimTyped
<1>7. JobRight'
  BY <1>1, <1>2, <1>3 DEF ReclaimInv, JobRight, Takes, Brings
<1>8. PagesRight'
  <2>1. job.at \in Brings => job.e \in Entries
    BY DEF ReclaimInv, JobRight
  <2> QED
    BY <1>1, <1>2, <2>1 DEF ReclaimInv, PagesRight, Brings
<1>9. \A f \in Entries : Full(f)' <=> Full(f)
  BY <1>2 DEF Full
<1>10. ASSUME NEW f \in Entries  PROVE EntryRight(f)'
  <2>1. EntryRight(f) /\ (Clears(f)' <=> Clears(f))
    BY <1>1 DEF ReclaimInv, Clears
  <2> QED
    BY <1>1, <1>2, <1>9, <2>1 DEF EntryRight
<1>11. ASSUME NEW f \in Entries  PROVE PassedRight(f)'
  <2>1. PassedRight(f) /\ (Passed(f)' <=> Passed(f))
    BY <1>1 DEF ReclaimInv, Passed
  <2> QED
    BY <1>1, <1>2, <1>9, <2>1 DEF PassedRight
<1> QED
  BY <1>4, <1>5, <1>6, <1>7, <1>8, <1>10, <1>11 DEF ReclaimInv

\* Only what the lock's owner looks at changes.
LEMMA JobGoes ==
    ASSUME ReclaimInv, UNCHANGED <<pinned, unpinned, caller, cmd_count, entry>>,
           vmfault' = vmfault, owner' \in M!Callers \cup {"none", M!Reclaimer},
           job' \in JobType, JobRight', PagesRight', job.at # "clears", job'.at # "clears",
           job'.e = 0 => job.e = 0, job'.e # 0 => job.e # 0 \/ Commands = {},
           \A e \in Entries : PassedRight(e)'
    PROVE  ReclaimInv'
<1>1. ReclaimTyped'
  BY DEF ReclaimInv, ReclaimTyped
<1>2. CommandsRight'
  BY CommandsStay
<1>3. ReadyRight'
  BY DEF ReclaimInv, ReadyRight, Commands
<1>4. ASSUME NEW e \in Entries  PROVE EntryRight(e)'
  <2>1. EntryRight(e) /\ ~Clears(e) /\ ~Clears(e)'
    BY DEF ReclaimInv, Clears
  <2> QED
    BY <2>1 DEF EntryRight, Full
<1> QED
  BY <1>1, <1>2, <1>3, <1>4 DEF ReclaimInv

\* The owner of the lock is at work on an entry, and changes that one.
LEMMA JobEntry ==
    ASSUME ReclaimInv, UNCHANGED <<pinned, owner, caller, cmd_count>>, vmfault' = vmfault,
           unpinned' \in Int, NEW e \in Entries, job.e = e, job.at \in Takes \cup Brings,
           job' \in JobType, job'.e = e, NEW rec \in EntryType,
           entry' = [entry EXCEPT ![e] = rec], JobRight', PagesRight', EntryRight(e)',
           job'.at = "scan" => owner = M!Reclaimer \/ Full(e)'
    PROVE  ReclaimInv'
<1>1. /\ entry \in [Entries -> EntryType] /\ entry'[e] = rec
      /\ \A f \in Entries : f # e => entry'[f] = entry[f]
  BY DEF ReclaimInv, ReclaimTyped
<1>2. ReclaimTyped'
  BY <1>1 DEF ReclaimInv, ReclaimTyped
<1>3. CommandsRight' /\ ReadyRight'
  BY CommandsStay DEF ReclaimInv, ReadyRight
<1>4. ASSUME NEW f \in Entries, f # e  PROVE EntryRight(f)'
  <2>1. EntryRight(f) /\ ~Clears(f) /\ ~Clears(f)' /\ entry'[f] = entry[f]
    BY <1>1, <1>4 DEF ReclaimInv, Clears
  <2> QED
    BY <2>1 DEF EntryRight, Full
<1>5. ASSUME NEW f \in Entries, f # e  PROVE PassedRight(f)'
  <2>1. PassedRight(f) /\ entry'[f] = entry[f] /\ (Passed(f)' => Passed(f))
    BY <1>1, <1>5 DEF ReclaimInv, Passed
  <2> QED
    BY <2>1 DEF PassedRight, Full
<1>6. PassedRight(e)'
  <2>1. Passed(e)' => job'.at = "scan"
    BY EntriesAre DEF Passed
  <2> QED
    BY <2>1, ThreadsAre DEF PassedRight
<1> QED
  BY <1>2, <1>3, <1>4, <1>5, <1>6 DEF ReclaimInv

\* The owner of the lock, and what it is at work on
LEMMA JobIs == ASSUME ReclaimInv
               PROVE  /\ ReclaimTyped /\ JobRight /\ PagesRight /\ job \in JobType
                      /\ job.page \in Nat /\ job.left \in Int /\ job.e \in Entries \cup {0}
BY DEF ReclaimInv, ReclaimTyped, JobType

\* The worker starts.
LEMMA ReclaimStartsKeeps == ASSUME ReclaimInv, M!ReclaimStarts  PROVE ReclaimInv'
<1>1. PICK n \in 1 .. MaxScan : job' = [M!Idle EXCEPT !.at = "scan", !.left = n]
  BY DEF M!ReclaimStarts
<1>2. /\ UNCHANGED <<pinned, unpinned, caller, cmd_count, entry, vmfault>>
      /\ owner = "none" /\ owner' = M!Reclaimer
  BY DEF M!ReclaimStarts
<1>3. MaxScan \in Nat
  <2>1. M!ReclaimAssumption
    BY PartsAssumption
  <2> QED
    BY <2>1 DEF M!ReclaimAssumption
<1>4. job' \in JobType /\ job'.at = "scan" /\ job'.e = 0
  <2>1. job' = [at |-> "scan", e |-> 0, page |-> 0, left |-> n]
    BY <1>1 DEF M!Idle
  <2>2. n \in Int
    BY <1>3
  <2> QED
    BY <2>1, <2>2 DEF JobType
<1>5. job.at = "idle" /\ job.e = 0
  BY <1>2, JobIs DEF JobRight
<1>6. JobRight'
  BY <1>2, <1>4, ThreadsAre DEF JobRight, Takes, Brings
<1>7. PagesRight'
  BY <1>4 DEF PagesRight
<1>8. \A e \in Entries : PassedRight(e)'
  BY <1>2, ThreadsAre DEF PassedRight
<1> QED
  BY <1>2, <1>4, <1>5, <1>6, <1>7, <1>8, JobGoes

\* It takes the next entry, unless a command is counted.
LEMMA ReclaimPicksKeeps == ASSUME ReclaimInv, M!ReclaimPicks  PROVE ReclaimInv'
<1>1. PICK e \in Entries : job' = [job EXCEPT !.e = e,
                                              !.at = IF M!MayReclaim(e) THEN "taken" ELSE "scan"]
  BY DEF M!ReclaimPicks
<1>2. /\ UNCHANGED <<pinned, unpinned, owner, caller, cmd_count, entry, vmfault>>
      /\ owner = M!Reclaimer /\ ~M!Aborts /\ job.at = "scan"
  BY DEF M!ReclaimPicks
<1>3. job' \in JobType /\ job'.e = e /\ job'.at \in {"taken", "scan"} /\ job'.e # 0
  BY <1>1, JobIs, EntriesAre DEF JobType, Takes
<1>4. job'.at = "taken" => ~entry[e].reclaimed
  BY <1>1, JobIs DEF M!MayReclaim, JobType
<1>5. Commands = {}
  <2>1. Cardinality(Commands) = 0
    BY <1>2, CommandsCount DEF M!Aborts, ReclaimInv, CommandsRight
  <2> QED
    BY <2>1, CommandsCount
<1>6. JobRight'
  BY <1>2, <1>3, <1>4, JobIs, ThreadsAre DEF JobRight, Takes, Brings
<1>7. PagesRight'
  BY <1>3 DEF PagesRight
<1>8. \A f \in Entries : PassedRight(f)'
  BY <1>2, ThreadsAre DEF PassedRight
<1> QED
  BY <1>2, <1>3, <1>5, <1>6, <1>7, <1>8, JobGoes

\* It leaves the entry as it is.
LEMMA ReclaimPassesKeeps == ASSUME ReclaimInv, M!ReclaimPasses  PROVE ReclaimInv'
<1>1. /\ UNCHANGED <<pinned, unpinned, owner, caller, cmd_count, entry, vmfault>>
      /\ owner = M!Reclaimer /\ job.at = "taken" /\ job' = [job EXCEPT !.at = "scan"]
  BY DEF M!ReclaimPasses, M!Goes
<1>2. job' \in JobType /\ job'.e = job.e /\ job'.at = "scan" /\ job.e # 0
  BY <1>1, JobIs, EntriesAre DEF JobType, JobRight, Takes
<1>3. JobRight'
  BY <1>1, <1>2, ThreadsAre DEF JobRight, Takes, Brings
<1>4. PagesRight'
  BY <1>2 DEF PagesRight
<1>5. \A f \in Entries : PassedRight(f)'
  BY <1>1, ThreadsAre DEF PassedRight
<1> QED
  BY <1>1, <1>2, <1>3, <1>4, <1>5, JobGoes

\* It unmaps an entry that no virtual buffer maps.
LEMMA ReclaimUnmapsKeeps == ASSUME ReclaimInv, M!ReclaimUnmaps  PROVE ReclaimInv'
<1>1. PICK e : e = job.e
  OBVIOUS
<1>2. /\ UNCHANGED <<pinned, unpinned, owner, caller, cmd_count, vmfault>>
      /\ owner = M!Reclaimer /\ job.at = "taken" /\ M!Fits(e)
      /\ job' = [job EXCEPT !.at = "clears", !.page = 1]
  BY <1>1 DEF M!ReclaimUnmaps
<1>3. PICK rec : rec = [entry[e] EXCEPT !.mapped = FALSE]
  OBVIOUS
<1>4. entry' = [entry EXCEPT ![e] = rec]
  BY <1>1, <1>3 DEF M!ReclaimUnmaps, M!Sets
<1>5. e \in Entries /\ e # 0 /\ ~entry[e].reclaimed
  BY <1>1, <1>2, JobIs, EntriesAre DEF JobRight, Takes
<1>6. entry[e].vbo = {}
  BY <1>2 DEF M!Fits
<1>7. /\ rec \in EntryType /\ rec.reclaimed = entry[e].reclaimed /\ rec.vbo = entry[e].vbo
  BY <1>3, <1>5, EntryIs DEF EntryType
<1>8. /\ job' \in JobType /\ job'.e = e /\ job'.at = "clears" /\ job'.page = 1
  BY <1>1, <1>2, JobIs DEF JobType, Takes
<1>9. entry'[e] = rec
  BY <1>4, <1>5, JobIs DEF ReclaimTyped
<1>10. JobRight'
  BY <1>2, <1>5, <1>6, <1>7, <1>8, <1>9, ThreadsAre DEF JobRight, Takes, Brings
<1>11. PagesRight'
  BY <1>8, EntriesAre DEF PagesRight
<1>12. EntryRight(e)'
  <2>1. Clears(e)' /\ entry'[e].vbo = {} /\ job'.e # 0
    BY <1>5, <1>6, <1>7, <1>8, <1>9 DEF Clears
  <2> QED
    BY <2>1 DEF EntryRight
<1> QED
  BY <1>1, <1>2, <1>4, <1>5, <1>7, <1>8, <1>10, <1>11, <1>12, JobIs, JobEntry DEF Takes,
     ReclaimTyped

\* It takes one page of it.
LEMMA ReclaimPageKeeps == ASSUME ReclaimInv, M!ReclaimPage  PROVE ReclaimInv'
<1>1. PICK e : e = job.e
  OBVIOUS
<1>2. /\ UNCHANGED <<pinned, owner, caller, cmd_count, vmfault>> /\ unpinned' = unpinned + 1
      /\ job.at = "clears" /\ job' = [job EXCEPT !.page = @ + 1] /\ job.page \in M!Page
  BY DEF M!ReclaimPage
<1>3. PICK rec : rec = [entry[e] EXCEPT !.pages = @ \ {job.page}]
  OBVIOUS
<1>4. entry' = [entry EXCEPT ![e] = rec]
  BY <1>1, <1>3 DEF M!ReclaimPage, M!Sets
<1>5. e \in Entries /\ e # 0 /\ ~entry[e].reclaimed /\ entry[e].vbo = {} /\ owner = M!Reclaimer
  BY <1>1, <1>2, JobIs, EntriesAre DEF JobRight, Takes
<1>6. /\ rec \in EntryType /\ rec.reclaimed = entry[e].reclaimed /\ rec.vbo = entry[e].vbo
  BY <1>3, <1>5, EntryIs DEF EntryType
<1>7. PICK p : p = job.page + 1
  OBVIOUS
<1>8. job' = [job EXCEPT !.page = p]
  BY <1>2, <1>7, JobIs DEF JobType
<1>9. p \in Nat /\ p \in 1 .. PageCount + 1
  BY <1>2, <1>7, EntriesAre
<1>10. /\ job' \in JobType /\ job'.e = e /\ job'.at = "clears" /\ job'.page = p
  BY <1>1, <1>2, <1>8, <1>9, JobIs DEF JobType, Takes
<1>11. entry'[e] = rec
  BY <1>4, <1>5, JobIs DEF ReclaimTyped
<1>12. JobRight'
  BY <1>2, <1>5, <1>6, <1>10, <1>11, ThreadsAre DEF JobRight, Takes, Brings
<1>13. PagesRight'
  BY <1>9, <1>10 DEF PagesRight
<1>14. EntryRight(e)'
  <2>1. Clears(e)' /\ entry'[e].vbo = {} /\ job'.e # 0
    BY <1>5, <1>6, <1>10, <1>11 DEF Clears
  <2> QED
    BY <2>1 DEF EntryRight
<1>15. unpinned' \in Int
  BY <1>2, JobIs DEF ReclaimTyped
<1>16. job'.at # "scan" /\ job.at \in Takes
  BY <1>2, <1>10 DEF Takes
<1> QED
  BY <1>1, <1>2, <1>4, <1>5, <1>6, <1>10, <1>12, <1>13, <1>14, <1>15, <1>16, JobEntry

\* It marks what it has reclaimed.
LEMMA ReclaimMarksKeeps == ASSUME ReclaimInv, M!ReclaimMarks  PROVE ReclaimInv'
<1>1. PICK e : e = job.e
  OBVIOUS
<1>2. /\ UNCHANGED <<pinned, unpinned, owner, caller, cmd_count, vmfault>>
      /\ job.at = "clears" /\ job' = [job EXCEPT !.at = "scan", !.left = @ - PageCount]
  BY DEF M!ReclaimMarks
<1>3. PICK rec : rec = [entry[e] EXCEPT !.reclaimed = TRUE]
  OBVIOUS
<1>4. entry' = [entry EXCEPT ![e] = rec]
  BY <1>1, <1>3 DEF M!ReclaimMarks, M!Sets
<1>5. e \in Entries /\ e # 0 /\ entry[e].vbo = {} /\ owner = M!Reclaimer
  BY <1>1, <1>2, JobIs, EntriesAre DEF JobRight, Takes
<1>6. /\ rec \in EntryType /\ rec.reclaimed /\ rec.vbo = entry[e].vbo
  BY <1>3, <1>5, EntryIs DEF EntryType
<1>7. PICK n : n = job.left - PageCount
  OBVIOUS
<1>8. job' = [job EXCEPT !.at = "scan", !.left = n] /\ n \in Int
  BY <1>2, <1>7, JobIs, EntriesAre DEF JobType
<1>9. /\ job' \in JobType /\ job'.e = e /\ job'.at = "scan"
  BY <1>1, <1>8, JobIs DEF JobType
<1>10. entry'[e] = rec
  BY <1>4, <1>5, JobIs DEF ReclaimTyped
<1>11. JobRight'
  BY <1>2, <1>5, <1>9, ThreadsAre DEF JobRight, Takes, Brings
<1>12. PagesRight'
  BY <1>9 DEF PagesRight
<1>13. EntryRight(e)'
  BY <1>5, <1>6, <1>9, <1>10 DEF EntryRight
<1>14. unpinned' \in Int
  BY <1>2, JobIs DEF ReclaimTyped
<1>15. job.at \in Takes
  BY <1>2 DEF Takes
<1> QED
  BY <1>1, <1>2, <1>4, <1>5, <1>6, <1>9, <1>11, <1>12, <1>13, <1>14, <1>15, JobEntry

\* It ends: the process is pinned no longer if it has looked at any entry.
LEMMA ReclaimEndsKeeps == ASSUME ReclaimInv, M!ReclaimEnds  PROVE ReclaimInv'
<1>1. /\ UNCHANGED <<unpinned, caller, cmd_count, entry, vmfault>>
      /\ owner = M!Reclaimer /\ owner' = "none" /\ job.at = "scan" /\ job' = M!Idle
      /\ pinned' = (pinned /\ job.e = 0)
  BY DEF M!ReclaimEnds, M!StaysPinned
<1>2. job' \in JobType /\ job'.at = "idle" /\ job'.e = 0
  BY <1>1 DEF M!Idle, JobType
<1>3. ReclaimTyped'
  BY <1>1, <1>2 DEF ReclaimInv, ReclaimTyped
<1>4. JobRight'
  BY <1>1, <1>2, ThreadsAre DEF JobRight, Takes, Brings
<1>5. PagesRight'
  BY <1>2 DEF PagesRight
<1>6. CommandsRight'
  BY <1>1, CommandsStay
<1>7. ReadyRight'
  BY <1>1, <1>2 DEF ReclaimInv, ReadyRight
<1>8. ASSUME NEW e \in Entries  PROVE EntryRight(e)'
  <2>1. EntryRight(e) /\ ~Clears(e) /\ ~Clears(e)'
    BY <1>1, <1>2 DEF ReclaimInv, Clears
  <2> QED
    BY <1>1, <2>1 DEF EntryRight, Full
<1>9. ASSUME NEW e \in Entries  PROVE PassedRight(e)'
  BY <1>1, ThreadsAre DEF PassedRight
<1> QED
  BY <1>3, <1>4, <1>5, <1>6, <1>7, <1>8, <1>9 DEF ReclaimInv

\* A thread that needs the memory finds it pinned, or takes the lock.
LEMMA PinStartsKeeps == ASSUME ReclaimInv, NEW c \in M!Callers, M!PinStarts(c)  PROVE ReclaimInv'
<1>1. /\ UNCHANGED <<pinned, unpinned, cmd_count, entry, vmfault>>
      /\ caller[c] = "waits" /\ owner = "none" /\ ReclaimTyped
  BY DEF M!PinStarts, ReclaimInv
<1>2. job.at = "idle" /\ job.e = 0
  BY <1>1, JobIs DEF JobRight
<1>3. CASE pinned
  <2>1. PICK a \in {"idle", "ready"} : /\ caller' = [caller EXCEPT ![c] = a]
                                       /\ a = "idle" <=> c = M!Fg
    BY <1>3 DEF M!PinStarts, M!Pinned
  <2>2. UNCHANGED <<owner, job>>
    BY <1>3 DEF M!PinStarts
  <2>3. /\ caller' \in [M!Callers -> {"idle", "waits", "ready", "bound"}]
        /\ caller'[c] = a /\ \A d \in M!Callers : d # c => caller'[d] = caller[d]
        /\ Commands' = IF c \in Threads /\ a \in {"waits", "ready"} THEN Commands \cup {c}
                                                                   ELSE Commands \ {c}
    BY <1>1, <2>1, CallerGoes
  <2>4. Commands' = Commands
    BY <1>1, <2>1, <2>3, ThreadsAre DEF Commands
  <2>5. CommandsRight'
    BY <1>1, <2>4 DEF ReclaimInv, CommandsRight
  <2>6. ReadyRight'
    BY <1>1, <1>2, <1>3, <2>1, <2>2, <2>3, ThreadsAre DEF ReclaimInv, ReadyRight
  <2>7. owner \in M!Callers => caller'[owner] = "waits"
    BY <1>1, ThreadsAre
  <2> QED
    BY <1>1, <2>2, <2>3, <2>5, <2>6, <2>7, CallersMove
<1>4. CASE ~pinned
  <2>1. owner' = c /\ job' = [M!Idle EXCEPT !.at = "scan"] /\ caller' = caller
    BY <1>4 DEF M!PinStarts
  <2>2. job' \in JobType /\ job'.at = "scan" /\ job'.e = 0
    <3>1. job' = [at |-> "scan", e |-> 0, page |-> 0, left |-> 0]
      BY <2>1 DEF M!Idle
    <3> QED
      BY <3>1 DEF JobType
  <2>3. JobRight'
    BY <1>1, <1>4, <2>1, <2>2, ThreadsAre DEF JobRight, Takes, Brings
  <2>4. PagesRight'
    BY <2>2 DEF PagesRight
  <2>5. \A e \in Entries : PassedRight(e)'
    BY <2>2, EntriesAre DEF PassedRight, Passed
  <2> QED
    BY <1>1, <1>2, <2>1, <2>2, <2>3, <2>4, <2>5, JobGoes
<1> QED
  BY <1>3, <1>4

\* It takes the next entry: what it passes was never reclaimed, or is going.
LEMMA PinPicksKeeps == ASSUME ReclaimInv, M!PinPicks  PROVE ReclaimInv'
<1>1. PICK e \in Entries :
          /\ M!NextEntry(e)
          /\ job' = [job EXCEPT !.e = e, !.at = IF entry[e].reclaimed /\ M!CanGet(e)
                                                THEN "enters" ELSE "scan"]
  BY DEF M!PinPicks
<1>2. /\ UNCHANGED <<pinned, unpinned, owner, caller, cmd_count, entry, vmfault>>
      /\ owner \in M!Callers /\ job.at = "scan"
  BY DEF M!PinPicks, M!Pins
<1>3. /\ job' \in JobType /\ job'.e = e /\ job'.at \in {"enters", "scan"} /\ job'.e # 0
      /\ job'.at = "enters" <=> entry[e].reclaimed /\ M!CanGet(e)
  BY <1>1, JobIs, EntriesAre DEF JobType, Brings
<1>4. JobRight'
  BY <1>2, <1>3, JobIs, ThreadsAre DEF JobRight, Takes, Brings
<1>5. PagesRight'
  BY <1>3 DEF PagesRight
<1>6. ASSUME NEW f \in Entries, entry[f].user = "live", Passed(f)'  PROVE Full(f)
  <2>1. CASE f = e
    <3>1. job'.at = "scan"
      BY <1>3, <2>1, EntriesAre, <1>6 DEF Passed
    <3>2. ~entry[f].reclaimed
      BY <1>3, <1>6, <2>1, <3>1 DEF M!CanGet
    <3> QED
      BY <1>2, <1>6, <3>2, EntryIs DEF EntryRight, Clears
  <2>2. CASE f # e
    <3>1. f < e
      BY <1>3, <1>6, <2>2 DEF Passed
    <3>2. f \notin M!Following
      <4>1. \A g \in M!Following : e <= g
        BY <1>1 DEF M!NextEntry
      <4> QED
        BY <3>1, <4>1, EntriesAre
    <3>3. ~(f > job.e)
      BY <1>6, <3>2 DEF M!Following
    <3>4. f \in Nat /\ job.e \in Nat
      <4>1. job.e \in Entries \cup {0}
        BY JobIs
      <4>2. \A x \in Entries \cup {0} : x \in Nat
        BY EntriesAre
      <4> QED
        BY <4>1, <4>2
    <3>5. Passed(f)
      BY <1>2, <3>3, <3>4 DEF Passed
    <3> QED
      BY <1>2, <1>6, <3>5 DEF ReclaimInv, PassedRight
  <2> QED
    BY <2>1, <2>2
<1>7. \A f \in Entries : PassedRight(f)'
  BY <1>2, <1>6 DEF PassedRight, Full
<1>8. Commands = {} \/ job.e # 0 \/ ~pinned
  BY <1>2, JobIs DEF JobRight
<1>9. ReclaimTyped' /\ CommandsRight'
  BY <1>2, <1>3, CommandsStay DEF ReclaimInv, ReclaimTyped
<1>10. ReadyRight'
  <2>1. ~pinned
    BY <1>2, JobIs DEF JobRight
  <2> QED
    BY <1>2, <2>1 DEF ReclaimInv, ReadyRight
<1>11. ASSUME NEW f \in Entries  PROVE EntryRight(f)'
  <2>1. EntryRight(f) /\ ~Clears(f) /\ ~Clears(f)' /\ job'.e # 0
    BY <1>2, <1>3 DEF ReclaimInv, Clears
  <2> QED
    BY <1>2, <2>1 DEF EntryRight, Full
<1> QED
  BY <1>4, <1>5, <1>7, <1>9, <1>10, <1>11 DEF ReclaimInv

\* It goes on with its entry, and changes nothing of it.
LEMMA PinGoes ==
    ASSUME ReclaimInv, UNCHANGED <<pinned, unpinned, owner, caller, cmd_count, entry>>,
           vmfault' = vmfault, job.at \in Brings, job'.at \in Brings, job' \in JobType,
           job'.e = job.e, PagesRight'
    PROVE  ReclaimInv'
<1>1. JobRight'
  BY JobIs DEF JobRight, Takes, Brings
<1>2. ASSUME NEW e \in Entries  PROVE PassedRight(e)'
  <2>1. PassedRight(e)
    BY DEF ReclaimInv
  <2>2. Passed(e)' => Passed(e)
    BY DEF Passed, Brings
  <2> QED
    BY <2>1, <2>2 DEF PassedRight, Full
<1>3. job.at # "clears" /\ job'.at # "clears" /\ job.e # 0
  BY JobIs, EntriesAre DEF JobRight, Brings
<1>4. owner' \in M!Callers
  BY JobIs DEF JobRight
<1> QED
  BY <1>1, <1>2, <1>3, <1>4, JobGoes

\* memdesc->lock is taken once.
LEMMA PinEntersKeeps == ASSUME ReclaimInv, M!PinEnters  PROVE ReclaimInv'
<1>1. /\ UNCHANGED <<pinned, unpinned, owner, caller, cmd_count, entry>> /\ vmfault' = vmfault
      /\ job.at = "enters" /\ job' = [job EXCEPT !.at = "looks", !.page = 1]
  BY DEF M!PinEnters
<1>2. job' \in JobType /\ job'.at = "looks" /\ job'.e = job.e /\ job'.page = 1
  BY <1>1, JobIs DEF JobType, Brings
<1>3. PagesRight'
  BY <1>2, EntriesAre DEF PagesRight
<1> QED
  BY <1>1, <1>2, <1>3, PinGoes DEF Brings

\* A page that is there is passed.
LEMMA PinSkipsKeeps == ASSUME ReclaimInv, M!PinSkips  PROVE ReclaimInv'
<1>1. /\ UNCHANGED <<pinned, unpinned, owner, caller, cmd_count, entry>> /\ vmfault' = vmfault
      /\ job.at = "looks" /\ job' = [job EXCEPT !.page = @ + 1]
      /\ job.page \in entry[job.e].pages
  BY DEF M!PinSkips
<1>2. PICK p : p = job.page + 1
  OBVIOUS
<1>3. job' = [job EXCEPT !.page = p] /\ p \in Nat
  BY <1>1, <1>2, JobIs DEF JobType
<1>4. job' \in JobType /\ job'.at = "looks" /\ job'.e = job.e /\ job'.page = p
  BY <1>1, <1>3, JobIs DEF JobType
<1>5. job.page \in 1 .. PageCount
  <2>1. job.e \in Entries
    BY <1>1, JobIs DEF JobRight, Brings
  <2>2. entry[job.e].pages \subseteq M!Page
    BY <2>1, EntryIs DEF EntryType
  <2> QED
    BY <1>1, <2>2, EntriesAre
<1>6. p \in 1 .. PageCount + 1 /\ p - 1 = job.page
  BY <1>2, <1>5, EntriesAre
<1>7. 1 .. p - 1 \subseteq entry[job.e].pages
  <2>1. 1 .. job.page - 1 \subseteq entry[job.e].pages
    BY <1>1, JobIs DEF PagesRight
  <2>2. 1 .. job.page \subseteq (1 .. job.page - 1) \cup {job.page}
    BY <1>5, EntriesAre
  <2>3. 1 .. job.page \subseteq entry[job.e].pages
    BY <1>1, <2>1, <2>2
  <2> QED
    BY <1>6, <2>3
<1>8. PagesRight'
  BY <1>1, <1>4, <1>6, <1>7 DEF PagesRight
<1> QED
  BY <1>1, <1>4, <1>8, PinGoes DEF Brings

\* A page that is missing is read.
LEMMA PinReadsKeeps == ASSUME ReclaimInv, M!PinReads  PROVE ReclaimInv'
<1>1. /\ UNCHANGED <<pinned, unpinned, owner, caller, cmd_count, entry>> /\ vmfault' = vmfault
      /\ job.at = "looks" /\ job' = [job EXCEPT !.at = "relocks"] /\ job.page \in M!Page
  BY DEF M!PinReads, M!Goes
<1>2. /\ job' \in JobType /\ job'.at = "relocks" /\ job'.e = job.e /\ job'.page = job.page
  BY <1>1, JobIs DEF JobType, Brings
<1>3. PagesRight'
  BY <1>1, <1>2, JobIs DEF PagesRight
<1> QED
  BY <1>1, <1>2, <1>3, PinGoes DEF Brings

\* Behind the last page everything is in place.
LEMMA PinLeavesKeeps == ASSUME ReclaimInv, M!PinLeaves  PROVE ReclaimInv'
<1>1. /\ UNCHANGED <<pinned, unpinned, owner, caller, cmd_count, entry>> /\ vmfault' = vmfault
      /\ job.at = "looks" /\ job' = [job EXCEPT !.at = "maps"] /\ job.page > PageCount
  BY DEF M!PinLeaves, M!Goes
<1>2. /\ job' \in JobType /\ job'.at = "maps" /\ job'.e = job.e
  BY <1>1, JobIs DEF JobType, Brings
<1>3. entry[job.e].pages = M!Page
  <2>1. /\ 1 .. job.page - 1 \subseteq entry[job.e].pages /\ job.page \in 1 .. PageCount + 1
        /\ job.e \in Entries
    BY <1>1, JobIs DEF PagesRight, JobRight, Brings
  <2>2. job.page - 1 = PageCount
    BY <1>1, <2>1, EntriesAre
  <2>3. entry[job.e].pages \subseteq M!Page
    BY <2>1, EntryIs DEF EntryType
  <2> QED
    BY <2>1, <2>2, <2>3, EntriesAre
<1>4. PagesRight'
  BY <1>1, <1>2, <1>3 DEF PagesRight
<1> QED
  BY <1>1, <1>2, <1>4, PinGoes DEF Brings

\* The page is put in place.
LEMMA PinFillsKeeps == ASSUME ReclaimInv, M!PinFills  PROVE ReclaimInv'
<1>1. PICK e : e = job.e
  OBVIOUS
<1>2. /\ UNCHANGED <<pinned, owner, caller, cmd_count, vmfault>> /\ job.at = "relocks"
      /\ job' = [job EXCEPT !.at = "looks", !.page = @ + 1]
  BY DEF M!PinFills
<1>3. PICK rec : rec = IF job.page \in entry[e].pages THEN entry[e]
                       ELSE [entry[e] EXCEPT !.pages = @ \cup {job.page}]
  OBVIOUS
<1>4. /\ e \in Entries /\ entry[e].reclaimed /\ owner \in M!Callers /\ e # 0 /\ ~pinned
      /\ caller[owner] = "waits" /\ job.page \in M!Page
      /\ 1 .. job.page - 1 \subseteq entry[e].pages /\ entry \in [Entries -> EntryType]
  BY <1>1, <1>2, JobIs, EntriesAre DEF JobRight, PagesRight, Brings, ReclaimTyped
<1>5. entry' = [entry EXCEPT ![e] = rec]
  <2>1. CASE job.page \in entry[e].pages
    BY <1>1, <1>3, <1>4, <2>1 DEF M!PinFills
  <2>2. CASE job.page \notin entry[e].pages
    BY <1>1, <1>3, <2>2 DEF M!PinFills, M!Sets
  <2> QED
    BY <2>1, <2>2
<1>6. /\ rec \in EntryType /\ rec.reclaimed /\ rec.vbo = entry[e].vbo
      /\ rec.pages = entry[e].pages \cup {job.page}
  BY <1>3, <1>4 DEF EntryType
<1>7. unpinned' \in Int
  BY <1>2, JobIs DEF M!PinFills, ReclaimTyped
<1>8. PICK p : p = job.page + 1
  OBVIOUS
<1>9. job' = [job EXCEPT !.at = "looks", !.page = p] /\ p \in Nat
  BY <1>2, <1>8, JobIs DEF JobType
<1>10. /\ job' \in JobType /\ job'.e = e /\ job'.at = "looks" /\ job'.page = p
  BY <1>1, <1>9, JobIs DEF JobType, Brings
<1>11. entry'[e] = rec
  BY <1>4, <1>5
<1>12. JobRight'
  BY <1>2, <1>4, <1>6, <1>10, <1>11, ThreadsAre DEF JobRight, Takes, Brings
<1>13. p \in 1 .. PageCount + 1 /\ 1 .. p - 1 \subseteq rec.pages
  <2>1. p \in 1 .. PageCount + 1 /\ p - 1 = job.page
    BY <1>4, <1>8, EntriesAre
  <2>2. 1 .. job.page \subseteq (1 .. job.page - 1) \cup {job.page}
    BY <1>4, EntriesAre
  <2>3. 1 .. job.page \subseteq rec.pages
    BY <1>4, <1>6, <2>2
  <2> QED
    BY <2>1, <2>3
<1>14. PagesRight'
  BY <1>10, <1>11, <1>13 DEF PagesRight
<1>15. EntryRight(e)'
  <2>1. entry[e].vbo = {}
    BY <1>4, EntryIs DEF EntryRight, Full
  <2> QED
    BY <1>2, <1>4, <1>6, <1>11, <2>1 DEF EntryRight
<1>16. job'.at # "scan" /\ job.at \in Brings
  BY <1>2, <1>10 DEF Brings
<1> QED
  BY <1>1, <1>2, <1>4, <1>5, <1>6, <1>7, <1>10, <1>12, <1>14, <1>15, <1>16, JobEntry

\* The entry is mapped, whole.
LEMMA PinMapsKeeps == ASSUME ReclaimInv, M!PinMaps  PROVE ReclaimInv'
<1>1. PICK e : e = job.e
  OBVIOUS
<1>2. /\ UNCHANGED <<pinned, unpinned, owner, caller, cmd_count, vmfault>> /\ job.at = "maps"
      /\ job' = [job EXCEPT !.at = "scan"]
  BY DEF M!PinMaps, M!Goes
<1>3. PICK rec : rec = [entry[e] EXCEPT !.mapped = TRUE, !.reclaimed = FALSE, !.skip = FALSE]
  OBVIOUS
<1>4. entry' = [entry EXCEPT ![e] = rec]
  BY <1>1, <1>3 DEF M!PinMaps, M!Sets
<1>5. /\ e \in Entries /\ owner \in M!Callers /\ e # 0 /\ ~pinned /\ entry[e].pages = M!Page
      /\ caller[owner] = "waits" /\ entry[e].reclaimed
  BY <1>1, <1>2, JobIs, EntriesAre DEF JobRight, PagesRight, Brings
<1>6. /\ rec \in EntryType /\ ~rec.reclaimed /\ rec.vbo = entry[e].vbo /\ rec.mapped
      /\ rec.pages = M!Page
  BY <1>3, <1>5, EntryIs DEF EntryType
<1>7. job' \in JobType /\ job'.e = e /\ job'.at = "scan"
  BY <1>1, <1>2, JobIs DEF JobType
<1>8. entry'[e] = rec
  BY <1>4, <1>5, JobIs DEF ReclaimTyped
<1>9. JobRight'
  BY <1>2, <1>5, <1>7, ThreadsAre DEF JobRight, Takes, Brings
<1>10. PagesRight'
  BY <1>7 DEF PagesRight
<1>11. Full(e)'
  BY <1>6, <1>8 DEF Full
<1>12. EntryRight(e)'
  <2>1. entry[e].vbo = {}
    BY <1>5, EntryIs DEF EntryRight, Full
  <2> QED
    BY <1>6, <1>8, <1>11, <2>1 DEF EntryRight
<1>13. job.at \in Brings /\ unpinned' \in Int
  BY <1>2, JobIs DEF Brings, ReclaimTyped
<1> QED
  BY <1>1, <1>2, <1>4, <1>5, <1>6, <1>7, <1>9, <1>10, <1>11, <1>12, <1>13, JobEntry

\* Without a page or its mapping, the thread gives up.
LEMMA PinFailsKeeps == ASSUME ReclaimInv, M!PinFails  PROVE ReclaimInv'
<1>1. /\ UNCHANGED <<pinned, unpinned, entry, vmfault>> /\ owner \in M!Callers
      /\ owner' = "none" /\ job' = M!Idle /\ caller' = [caller EXCEPT ![owner] = "idle"]
      /\ cmd_count' = IF owner = M!Fg THEN cmd_count ELSE cmd_count - 1
      /\ job.at \in Brings
  BY DEF M!PinFails, M!Pins, Brings
<1>2. job' \in JobType /\ job'.at = "idle" /\ job'.e = 0
  BY <1>1 DEF M!Idle, JobType
<1>3. ~pinned /\ caller[owner] = "waits" /\ ReclaimTyped
  BY <1>1, JobIs DEF JobRight
<1>4. caller' \in [M!Callers -> {"idle", "waits", "ready", "bound"}] /\ CommandsRight' /\ ReadyRight'
  <2>1. CASE owner = M!Fg
    <3>1. /\ caller' \in [M!Callers -> {"idle", "waits", "ready", "bound"}]
          /\ caller'[owner] = "idle"
          /\ \A d \in M!Callers : d # owner => caller'[d] = caller[d]
          /\ Commands' = Commands \ {owner}
      BY <1>1, <1>3, CallerGoes
    <3>2. Commands' = Commands
      BY <2>1, <3>1, ThreadsAre DEF Commands
    <3>3. CommandsRight'
      BY <1>1, <2>1, <3>2 DEF ReclaimInv, CommandsRight
    <3>4. ReadyRight'
      BY <1>1, <1>3, <2>1, <3>1, ThreadsAre DEF ReclaimInv, ReadyRight
    <3> QED
      BY <3>1, <3>3, <3>4
  <2>2. CASE owner # M!Fg
    <3>1. owner \in Threads /\ cmd_count' = cmd_count - 1
      BY <1>1, <2>2, ThreadsAre
    <3> QED
      BY <1>1, <1>2, <1>3, <3>1, CommandGoes
  <2> QED
    BY <2>1, <2>2
<1>5. ReclaimTyped'
  BY <1>1, <1>2, <1>4 DEF ReclaimInv, ReclaimTyped
<1>6. JobRight'
  BY <1>1, <1>2, ThreadsAre DEF JobRight, Takes, Brings
<1>7. PagesRight'
  BY <1>2 DEF PagesRight
<1>8. ASSUME NEW e \in Entries  PROVE EntryRight(e)'
  <2>1. EntryRight(e) /\ ~Clears(e) /\ ~Clears(e)'
    BY <1>1, <1>2 DEF ReclaimInv, Clears, Brings
  <2> QED
    BY <1>1, <1>3, <2>1 DEF EntryRight, Full
<1>9. ASSUME NEW e \in Entries  PROVE PassedRight(e)'
  BY <1>1, ThreadsAre DEF PassedRight
<1> QED
  BY <1>4, <1>5, <1>6, <1>7, <1>8, <1>9 DEF ReclaimInv

\* Behind the last entry the process is pinned: every live one was passed.
LEMMA PinEndsKeeps == ASSUME ReclaimInv, M!PinEnds  PROVE ReclaimInv'
<1>1. PICK c \in M!Callers : c = owner
  BY DEF M!PinEnds, M!Pins
<1>2. /\ UNCHANGED <<unpinned, cmd_count, entry, vmfault>> /\ pinned' = TRUE
      /\ owner' = "none" /\ job' = M!Idle /\ job.at = "scan" /\ M!Following = {}
  BY DEF M!PinEnds
<1>3. PICK a \in {"idle", "ready"} : /\ caller' = [caller EXCEPT ![c] = a]
                                     /\ a = "idle" <=> c = M!Fg
  BY <1>1 DEF M!PinEnds, M!Pinned
<1>4. job' \in JobType /\ job'.at = "idle" /\ job'.e = 0
  BY <1>2 DEF M!Idle, JobType
<1>5. caller[c] = "waits" /\ ReclaimTyped
  BY <1>1, JobIs DEF JobRight
<1>6. /\ caller' \in [M!Callers -> {"idle", "waits", "ready", "bound"}]
      /\ caller'[c] = a /\ \A d \in M!Callers : d # c => caller'[d] = caller[d]
      /\ Commands' = IF c \in Threads /\ a \in {"waits", "ready"} THEN Commands \cup {c}
                                                                 ELSE Commands \ {c}
  BY <1>3, <1>5, CallerGoes
<1>7. Commands' = Commands
  BY <1>3, <1>5, <1>6, ThreadsAre DEF Commands
<1>8. CommandsRight'
  BY <1>2, <1>7 DEF ReclaimInv, CommandsRight
<1>9. ReadyRight'
  <2>1. caller'[M!Fg] \in {"idle", "waits"}
    BY <1>3, <1>6, ThreadsAre DEF ReclaimInv, ReadyRight
  <2> QED
    BY <1>2, <1>4, <2>1 DEF ReadyRight
<1>10. ReclaimTyped'
  BY <1>2, <1>4, <1>6 DEF ReclaimInv, ReclaimTyped
<1>11. JobRight'
  BY <1>2, <1>4, ThreadsAre DEF JobRight, Takes, Brings
<1>12. PagesRight'
  BY <1>4 DEF PagesRight
<1>13. ASSUME NEW e \in Entries, entry[e].user = "live"  PROVE Full(e)
  <2>1. ~(e > job.e)
    BY <1>2, <1>13 DEF M!Following
  <2>2. e \in Nat /\ job.e \in Nat
    <3>1. job.e \in Entries \cup {0}
      BY JobIs
    <3>2. \A x \in Entries \cup {0} : x \in Nat
      BY EntriesAre
    <3> QED
      BY <3>1, <3>2
  <2>3. Passed(e)
    BY <1>2, <2>1, <2>2 DEF Passed
  <2> QED
    BY <1>1, <1>13, <2>3 DEF ReclaimInv, PassedRight
<1>14. ASSUME NEW e \in Entries  PROVE EntryRight(e)'
  <2>1. EntryRight(e) /\ ~Clears(e) /\ ~Clears(e)'
    BY <1>2, <1>4 DEF ReclaimInv, Clears
  <2> QED
    BY <1>2, <1>13, <2>1 DEF EntryRight, Full
<1>15. ASSUME NEW e \in Entries  PROVE PassedRight(e)'
  BY <1>2, ThreadsAre DEF PassedRight
<1> QED
  BY <1>8, <1>9, <1>10, <1>11, <1>12, <1>14, <1>15 DEF ReclaimInv

\* Every step keeps what is mapped.
LEMMA ReclaimStep == ReclaimInv /\ [M!Next]_M!vars => ReclaimInv'
<1> SUFFICES ASSUME ReclaimInv, [M!Next]_M!vars  PROVE ReclaimInv'
  OBVIOUS
<1>1. CASE M!Foreground \/ M!Background
  BY <1>1, ForegroundKeeps, BackgroundKeeps
<1>2. CASE \E c \in M!Callers : \/ M!Create(c) \/ M!Retire(c) \/ M!Bind(c) \/ M!Unbind(c)
                                \/ M!PinStarts(c)
  BY <1>2, CreateKeeps, RetireKeeps, BindKeeps, UnbindKeeps, PinStartsKeeps
<1>3. CASE \E e \in Entries : M!Free(e) \/ M!Destroy(e)
  BY <1>3, FreeKeeps, DestroyKeeps
<1>4. CASE M!ReclaimStarts \/ M!ReclaimPicks \/ M!ReclaimPasses \/ M!ReclaimUnmaps
  BY <1>4, ReclaimStartsKeeps, ReclaimPicksKeeps, ReclaimPassesKeeps, ReclaimUnmapsKeeps
<1>5. CASE M!ReclaimPage \/ M!ReclaimMarks \/ M!ReclaimEnds
  BY <1>5, ReclaimPageKeeps, ReclaimMarksKeeps, ReclaimEndsKeeps
<1>6. CASE M!FgPasses \/ M!PinPicks \/ M!PinEnters \/ M!PinSkips \/ M!PinReads \/ M!PinFills
  BY <1>6, FgPassesKeeps, PinPicksKeeps, PinEntersKeeps, PinSkipsKeeps, PinReadsKeeps,
     PinFillsKeeps
<1>7. CASE M!PinLeaves \/ M!PinMaps \/ M!PinFails \/ M!PinEnds
  BY <1>7, PinLeavesKeeps, PinMapsKeeps, PinFailsKeeps, PinEndsKeeps
<1>8. CASE M!FaultMarks \/ M!FaultLooks \/ M!FaultFills
  BY <1>8, FaultMarksKeeps, FaultLooksKeeps, FaultFillsKeeps
<1>9. CASE UNCHANGED M!vars
  BY <1>9, CallersStay DEF M!vars
<1> QED
  BY <1>1, <1>2, <1>3, <1>4, <1>5, <1>6, <1>7, <1>8, <1>9 DEF M!Next

\* What the GPU may use is mapped.
LEMMA ReclaimPinned == ReclaimInv => M!PinnedWhileUsed
<1> SUFFICES ASSUME ReclaimInv, NEW e \in Entries,
                    \/ \E c \in Submitters : caller[c] = "ready" /\ entry[e].user = "live"
                    \/ entry[e].vbo # {}
             PROVE  entry[e].mapped /\ entry[e].pages = M!Page
  BY DEF M!PinnedWhileUsed
<1>1. CASE entry[e].vbo # {}
  BY <1>1, EntryIs DEF EntryRight, Full
<1>2. CASE \E c \in Submitters : caller[c] = "ready" /\ entry[e].user = "live"
  <2>1. pinned /\ job.e = 0
    BY <1>2 DEF ReclaimInv, ReadyRight, Threads
  <2> QED
    BY <1>2, <2>1, EntryIs DEF EntryRight, Full
<1> QED
  BY <1>1, <1>2

\* The count of the pages.  Without faults and failed maps the pages of an entry
\* are those that its mark and the work on it say.
Quiet == memory \cap {"fault", "mapfails"} = {}
PagesOf(e) ==
    IF job.e = e /\ job.at = "clears" THEN job.page .. PageCount
    ELSE IF job.e = e /\ job.at \in {"looks", "relocks"} THEN 1 .. job.page - 1
    ELSE IF job.e = e /\ job.at = "maps" THEN M!Page
    ELSE IF entry[e].reclaimed THEN {} ELSE M!Page
JobHolds == job.at \in Takes \cup Brings => entry[job.e].user # "freed"
CountInv ==
    /\ JobHolds
    /\ Quiet => /\ vmfault = M!NoFault /\ unpinned = Cardinality(M!Missing)
                /\ \A e \in Entries : entry[e].user # "freed" => entry[e].pages = PagesOf(e)

\* The missing pages are finitely many, and counted one by one.
LEMMA MissingCount ==
    /\ IsFiniteSet(M!Missing)
    /\ \A x : x \notin M!Missing => Cardinality(M!Missing \cup {x}) = Cardinality(M!Missing) + 1
    /\ \A x \in M!Missing : Cardinality(M!Missing \ {x}) = Cardinality(M!Missing) - 1
<1> DEFINE Ts == M!Missing
<1>1. Ts \in SUBSET (Entries \X M!Page)
  BY DEF M!Missing
<1> HIDE DEF Ts
<1>2. IsFiniteSet(M!Page)
  BY EntriesAre, FS_Interval
<1>3. IsFiniteSet(Entries \X M!Page)
  BY <1>2, EntriesAre, FS_Product
<1>4. IsFiniteSet(Ts)
  BY <1>1, <1>3, FS_Subset
<1>5. \A x : x \notin Ts => Cardinality(Ts \cup {x}) = Cardinality(Ts) + 1
  BY <1>4, FS_AddElement
<1>6. \A x \in Ts : Cardinality(Ts \ {x}) = Cardinality(Ts) - 1
  BY <1>4, FS_RemoveElement
<1> QED
  BY <1>4, <1>5, <1>6 DEF Ts

\* The entries keep their pages.
LEMMA QuietStays ==
    ASSUME CountInv, memory' = memory, vmfault' = vmfault, unpinned' = unpinned,
           \A e \in Entries : /\ entry'[e].pages = entry[e].pages
                              /\ entry'[e].user = "freed" <=> entry[e].user = "freed"
                              /\ entry[e].user # "freed" => PagesOf(e)' = PagesOf(e),
           JobHolds'
    PROVE  CountInv'
<1>1. M!Missing' = M!Missing
  BY DEF M!Missing
<1>2. ASSUME Quiet'
      PROVE  /\ vmfault' = M!NoFault /\ unpinned' = Cardinality(M!Missing')
             /\ \A e \in Entries : entry'[e].user # "freed" => entry'[e].pages = PagesOf(e)'
  <2>1. Quiet
    BY <1>2 DEF Quiet
  <2>2. vmfault' = M!NoFault /\ unpinned' = Cardinality(M!Missing')
    BY <1>1, <2>1 DEF CountInv
  <2>3. ASSUME NEW e \in Entries, entry'[e].user # "freed"
        PROVE  entry'[e].pages = PagesOf(e)'
    BY <2>1, <2>3 DEF CountInv
  <2> QED
    BY <2>2, <2>3
<1> QED
  BY <1>2 DEF CountInv, M!NoFault

\* Neither do they nor the work on them change.
LEMMA QuietSame ==
    ASSUME CountInv, ReclaimInv, memory' = memory, vmfault' = vmfault, unpinned' = unpinned,
           job' = job,
           \A e \in Entries : /\ entry'[e].pages = entry[e].pages
                              /\ entry'[e].user = "freed" <=> entry[e].user = "freed"
                              /\ entry'[e].reclaimed = entry[e].reclaimed
    PROVE  CountInv'
<1>1. \A e \in Entries : PagesOf(e)' = PagesOf(e)
  BY DEF PagesOf
<1>2. JobHolds'
  BY JobIs DEF CountInv, JobHolds, JobRight
<1> QED
  BY <1>1, <1>2, QuietStays

\* The work goes on where it says the same of the pages.
LEMMA QuietJob ==
    ASSUME CountInv, ReclaimInv, memory' = memory, vmfault' = vmfault, unpinned' = unpinned,
           UNCHANGED entry, job.at \in {"idle", "scan", "taken", "enters"},
           job'.at \in {"idle", "scan", "taken", "enters"},
           job'.at \in {"taken", "enters"} => entry[job'.e].user # "freed"
    PROVE  CountInv'
<1>1. \A e \in Entries : PagesOf(e)' = PagesOf(e)
  BY DEF PagesOf
<1>2. JobHolds'
  BY DEF JobHolds, Takes, Brings
<1> QED
  BY <1>1, <1>2, QuietStays

\* What the threads and the user do
LEMMA CallersCount ==
    ASSUME CountInv, ReclaimInv,
           \/ M!Foreground \/ M!Background \/ M!FgPasses
           \/ \E c \in M!Callers : M!Create(c) \/ M!Retire(c) \/ M!Bind(c) \/ M!Unbind(c)
           \/ \E e \in Entries : M!Free(e)
    PROVE  CountInv'
<1>1. entry \in [Entries -> EntryType]
  BY JobIs DEF ReclaimTyped
<1>2. CASE \/ M!Foreground \/ M!Background \/ M!FgPasses
           \/ \E c \in M!Callers : M!Create(c) \/ M!Retire(c)
  <2>1. UNCHANGED <<memory, unpinned, job, entry>> /\ vmfault' = vmfault
    BY <1>2 DEF M!Foreground, M!Background, M!FgPasses, M!Create, M!Retire
  <2> QED
    BY <2>1, QuietSame
<1>3. ASSUME NEW c \in M!Callers, M!Bind(c)  PROVE CountInv'
  <2>1. PICK e \in Entries : entry' = [entry EXCEPT ![e] = [entry[e] EXCEPT !.vbo = @ \cup {c}]]
    BY <1>3 DEF M!Bind, M!Sets
  <2>2. UNCHANGED <<memory, unpinned, job>> /\ vmfault' = vmfault
    BY <1>3 DEF M!Bind
  <2>3. PICK rec : rec = [entry[e] EXCEPT !.vbo = @ \cup {c}]
    OBVIOUS
  <2>4. /\ rec.pages = entry[e].pages /\ rec.user = entry[e].user
        /\ rec.reclaimed = entry[e].reclaimed
    BY <1>1, <2>3 DEF EntryType
  <2>5. entry'[e] = rec /\ \A f \in Entries : f # e => entry'[f] = entry[f]
    BY <1>1, <2>1, <2>3
  <2> QED
    BY <2>2, <2>4, <2>5, QuietSame
<1>4. ASSUME NEW c \in M!Callers, M!Unbind(c)  PROVE CountInv'
  <2>1. UNCHANGED <<memory, unpinned, job>> /\ vmfault' = vmfault
    BY <1>4 DEF M!Unbind
  <2>2. \A f \in Entries : /\ entry'[f].pages = entry[f].pages
                           /\ entry'[f].user = entry[f].user
                           /\ entry'[f].reclaimed = entry[f].reclaimed
    BY <1>1, <1>4 DEF M!Unbind, EntryType
  <2> QED
    BY <2>1, <2>2, QuietSame
<1>5. ASSUME NEW e \in Entries, M!Free(e)  PROVE CountInv'
  <2>1. PICK u \in {"pending", "put"} :
            entry' = [entry EXCEPT ![e] = [entry[e] EXCEPT !.user = u]]
    BY <1>5 DEF M!Free, M!Sets
  <2>2. UNCHANGED <<memory, unpinned, job>> /\ vmfault' = vmfault /\ entry[e].user # "freed"
    BY <1>5 DEF M!Free
  <2>3. PICK rec : rec = [entry[e] EXCEPT !.user = u]
    OBVIOUS
  <2>4. /\ rec.pages = entry[e].pages /\ rec.user = u /\ rec.user # "freed"
        /\ rec.reclaimed = entry[e].reclaimed
    BY <1>1, <2>3 DEF EntryType
  <2>5. entry'[e] = rec /\ \A f \in Entries : f # e => entry'[f] = entry[f]
    BY <1>1, <2>1, <2>3
  <2> QED
    BY <2>2, <2>4, <2>5, QuietSame
<1> QED
  BY <1>2, <1>3, <1>4, <1>5

\* What the owner of the lock does before and behind its work on the pages
LEMMA ScansCount ==
    ASSUME CountInv, ReclaimInv,
           \/ \E c \in M!Callers : M!PinStarts(c)
           \/ M!ReclaimStarts \/ M!ReclaimPicks \/ M!ReclaimPasses \/ M!ReclaimEnds
           \/ M!PinPicks \/ M!PinEnds
    PROVE  CountInv'
<1>1. UNCHANGED <<memory, unpinned, entry>> /\ vmfault' = vmfault
  BY DEF M!PinStarts, M!ReclaimStarts, M!ReclaimPicks, M!ReclaimPasses, M!ReclaimEnds,
     M!PinPicks, M!PinEnds
<1>2. job \in JobType /\ (job.at = "idle" <=> owner = "none")
  BY JobIs DEF JobRight
<1>3. CASE \E c \in M!Callers : M!PinStarts(c)
  <2>1. job.at = "idle" /\ (job' = job \/ job' = [M!Idle EXCEPT !.at = "scan"])
    BY <1>2, <1>3 DEF M!PinStarts
  <2>2. job'.at \in {"idle", "scan"}
    BY <1>2, <2>1 DEF M!Idle
  <2> QED
    BY <1>1, <2>1, <2>2, QuietJob
<1>4. CASE M!ReclaimStarts
  <2>1. job.at = "idle" /\ job'.at = "scan"
    BY <1>2, <1>4 DEF M!ReclaimStarts, M!Idle
  <2> QED
    BY <1>1, <2>1, QuietJob
<1>5. CASE M!ReclaimPicks
  <2>1. PICK e \in Entries : /\ M!NextEntry(e)
                             /\ job' = [job EXCEPT !.e = e, !.at = IF M!MayReclaim(e)
                                                                   THEN "taken" ELSE "scan"]
    BY <1>5 DEF M!ReclaimPicks
  <2>2. job'.at \in {"taken", "scan"} /\ job'.e = e /\ job.at = "scan"
    BY <1>2, <1>5, <2>1 DEF JobType, M!ReclaimPicks
  <2>3. entry[e].user # "freed"
    BY <2>1 DEF M!NextEntry, M!Following
  <2> QED
    BY <1>1, <2>2, <2>3, QuietJob
<1>6. CASE M!ReclaimPasses
  <2>1. job.at = "taken" /\ job'.at = "scan"
    BY <1>2, <1>6 DEF M!ReclaimPasses, M!Goes, JobType
  <2> QED
    BY <1>1, <2>1, QuietJob
<1>7. CASE M!ReclaimEnds \/ M!PinEnds
  <2>1. job.at = "scan" /\ job'.at = "idle"
    BY <1>7 DEF M!ReclaimEnds, M!PinEnds, M!Idle
  <2> QED
    BY <1>1, <2>1, QuietJob
<1>8. CASE M!PinPicks
  <2>1. PICK e \in Entries : /\ M!NextEntry(e)
                             /\ job' = [job EXCEPT !.e = e,
                                            !.at = IF entry[e].reclaimed /\ M!CanGet(e)
                                                   THEN "enters" ELSE "scan"]
    BY <1>8 DEF M!PinPicks
  <2>2. job'.at \in {"enters", "scan"} /\ job'.e = e /\ job.at = "scan"
    BY <1>2, <1>8, <2>1 DEF JobType, M!PinPicks
  <2>3. entry[e].user # "freed"
    BY <2>1 DEF M!NextEntry, M!Following
  <2> QED
    BY <1>1, <2>2, <2>3, QuietJob
<1> QED
  BY <1>3, <1>4, <1>5, <1>6, <1>7, <1>8

\* The owner of the lock goes from page to page, and puts none in place.
LEMMA PageStep ==
    ASSUME CountInv, ReclaimInv, memory' = memory, unpinned' = unpinned, vmfault' = vmfault,
           NEW e \in Entries, job.e = e, job'.e = e, job.at \in Takes \cup Brings, NEW rec,
           rec.pages = entry[e].pages, rec.user = entry[e].user,
           entry' = [entry EXCEPT ![e] = rec], PagesOf(e)' = PagesOf(e)
    PROVE  CountInv'
<1>1. /\ \A f \in Entries : f # e => entry'[f] = entry[f]
      /\ entry'[e].pages = entry[e].pages /\ entry'[e].user = entry[e].user
  BY JobIs DEF ReclaimTyped
<1>2. \A f \in Entries : f # e => PagesOf(f)' = PagesOf(f)
  BY <1>1 DEF PagesOf
<1>3. JobHolds'
  BY <1>1 DEF CountInv, JobHolds
<1> QED
  BY <1>1, <1>2, <1>3, QuietStays

\* It starts and ends its work on the pages, and looks at them.
LEMMA PagesCount ==
    ASSUME CountInv, ReclaimInv,
           \/ M!ReclaimUnmaps \/ M!ReclaimMarks \/ M!PinEnters \/ M!PinReads
           \/ M!PinLeaves \/ M!PinMaps
    PROVE  CountInv'
<1>1. PICK e : e = job.e
  OBVIOUS
<1>2. /\ memory' = memory /\ unpinned' = unpinned /\ vmfault' = vmfault
      /\ job.at \in Takes \cup Brings
  BY DEF M!ReclaimUnmaps, M!ReclaimMarks, M!PinEnters, M!PinReads, M!PinLeaves,
     M!PinMaps, Takes, Brings
<1>3. /\ e \in Entries /\ job \in JobType /\ entry \in [Entries -> EntryType]
      /\ PageCount \in Nat \ {0} /\ M!Page = 1 .. PageCount
      /\ job.page \in Nat
  BY <1>1, <1>2, JobIs, EntriesAre DEF JobRight, ReclaimTyped
<1>4. /\ job.at \in Brings => entry[e].reclaimed
      /\ job.at \in Takes => ~entry[e].reclaimed
      /\ job.at \in {"clears", "looks"} => job.page \in 1 .. PageCount + 1
  BY <1>1, JobIs DEF JobRight, PagesRight
<1>5. CASE M!ReclaimUnmaps
  <2>1. /\ job.at = "taken" /\ job' = [job EXCEPT !.at = "clears", !.page = 1]
        /\ entry' = [entry EXCEPT ![e] = [entry[e] EXCEPT !.mapped = FALSE]]
    BY <1>1, <1>5 DEF M!ReclaimUnmaps, M!Sets
  <2>2. job'.at = "clears" /\ job'.page = 1 /\ job'.e = e
    BY <1>1, <1>3, <2>1 DEF JobType
  <2>3. PICK rec : rec = [entry[e] EXCEPT !.mapped = FALSE]
    OBVIOUS
  <2>4. /\ rec.pages = entry[e].pages /\ rec.user = entry[e].user
        /\ rec.reclaimed = entry[e].reclaimed
    BY <1>3, <2>3 DEF EntryType
  <2>5. PagesOf(e)' = M!Page /\ PagesOf(e) = M!Page
    BY <1>1, <1>3, <1>4, <2>1, <2>2 DEF PagesOf, Takes
  <2> QED
    BY <1>1, <1>2, <1>3, <2>1, <2>2, <2>3, <2>4, <2>5, PageStep
<1>6. CASE M!ReclaimMarks
  <2>1. /\ job.at = "clears" /\ job' = [job EXCEPT !.at = "scan", !.left = @ - PageCount]
        /\ entry' = [entry EXCEPT ![e] = [entry[e] EXCEPT !.reclaimed = TRUE]]
        /\ job.page > PageCount
    BY <1>1, <1>6 DEF M!ReclaimMarks, M!Sets
  <2>2. job'.at = "scan" /\ job'.e = e
    BY <1>1, <1>3, <2>1 DEF JobType
  <2>3. PICK rec : rec = [entry[e] EXCEPT !.reclaimed = TRUE]
    OBVIOUS
  <2>4. /\ rec.pages = entry[e].pages /\ rec.user = entry[e].user /\ rec.reclaimed
    BY <1>3, <2>3 DEF EntryType
  <2>5. entry'[e] = rec
    BY <1>3, <2>1, <2>3
  <2>6. job.page .. PageCount = {}
    BY <1>3, <2>1
  <2>7. PagesOf(e)' = {} /\ PagesOf(e) = {}
    BY <1>1, <2>1, <2>2, <2>4, <2>5, <2>6 DEF PagesOf
  <2> QED
    BY <1>1, <1>2, <1>3, <2>1, <2>2, <2>3, <2>4, <2>7, PageStep
<1>7. CASE M!PinEnters
  <2>1. /\ job.at = "enters" /\ job' = [job EXCEPT !.at = "looks", !.page = 1]
        /\ entry' = entry
    BY <1>7 DEF M!PinEnters
  <2>2. job'.at = "looks" /\ job'.page = 1 /\ job'.e = e
    BY <1>1, <1>3, <2>1 DEF JobType
  <2>3. PagesOf(e)' = {} /\ PagesOf(e) = {}
    BY <1>1, <1>4, <2>1, <2>2 DEF PagesOf, Brings
  <2>4. entry' = [entry EXCEPT ![e] = entry[e]]
    BY <1>3, <2>1
  <2> QED
    BY <1>1, <1>2, <1>3, <2>2, <2>3, <2>4, PageStep
<1>8. CASE M!PinReads
  <2>1. /\ job.at = "looks" /\ job' = [job EXCEPT !.at = "relocks"] /\ entry' = entry
    BY <1>8 DEF M!PinReads, M!Goes
  <2>2. job'.at = "relocks" /\ job'.page = job.page /\ job'.e = e
    BY <1>1, <1>3, <2>1 DEF JobType
  <2>3. PagesOf(e)' = PagesOf(e)
    BY <1>1, <2>1, <2>2 DEF PagesOf
  <2>4. entry' = [entry EXCEPT ![e] = entry[e]]
    BY <1>3, <2>1
  <2> QED
    BY <1>1, <1>2, <1>3, <2>2, <2>3, <2>4, PageStep
<1>9. CASE M!PinLeaves
  <2>1. /\ job.at = "looks" /\ job' = [job EXCEPT !.at = "maps"] /\ entry' = entry
        /\ job.page > PageCount
    BY <1>9 DEF M!PinLeaves, M!Goes
  <2>2. job'.at = "maps" /\ job'.e = e
    BY <1>1, <1>3, <2>1 DEF JobType
  <2>3. job.page - 1 = PageCount
    BY <1>3, <1>4, <2>1
  <2>4. PagesOf(e)' = M!Page /\ PagesOf(e) = M!Page
    BY <1>1, <1>3, <2>1, <2>2, <2>3 DEF PagesOf
  <2>5. entry' = [entry EXCEPT ![e] = entry[e]]
    BY <1>3, <2>1
  <2> QED
    BY <1>1, <1>2, <1>3, <2>2, <2>4, <2>5, PageStep
<1>10. CASE M!PinMaps
  <2>1. /\ job.at = "maps" /\ job' = [job EXCEPT !.at = "scan"]
        /\ entry' = [entry EXCEPT ![e] = [entry[e] EXCEPT !.mapped = TRUE,
                                             !.reclaimed = FALSE, !.skip = FALSE]]
    BY <1>1, <1>10 DEF M!PinMaps, M!Goes, M!Sets
  <2>2. job'.at = "scan" /\ job'.e = e
    BY <1>1, <1>3, <2>1 DEF JobType
  <2>3. PICK rec : rec = [entry[e] EXCEPT !.mapped = TRUE, !.reclaimed = FALSE,
                                          !.skip = FALSE]
    OBVIOUS
  <2>4. /\ rec.pages = entry[e].pages /\ rec.user = entry[e].user /\ ~rec.reclaimed
    BY <1>3, <2>3 DEF EntryType
  <2>5. entry'[e] = rec
    BY <1>3, <2>1, <2>3
  <2>6. PagesOf(e)' = M!Page /\ PagesOf(e) = M!Page
    BY <1>1, <2>1, <2>2, <2>4, <2>5 DEF PagesOf
  <2> QED
    BY <1>1, <1>2, <1>3, <2>1, <2>2, <2>3, <2>4, <2>6, PageStep
<1> QED
  BY <1>5, <1>6, <1>7, <1>8, <1>9, <1>10

\* A page in front of those that are to be read is missing.
LEMMA PinSkipsCount == ASSUME CountInv, ReclaimInv, M!PinSkips  PROVE CountInv'
<1>1. PICK e : e = job.e
  OBVIOUS
<1>2. /\ UNCHANGED <<memory, unpinned, entry>> /\ vmfault' = vmfault /\ job.at = "looks"
      /\ job' = [job EXCEPT !.page = @ + 1] /\ job.page \in entry[e].pages
  BY <1>1 DEF M!PinSkips
<1>3. /\ e \in Entries /\ job \in JobType /\ entry[e].user # "freed" /\ job.page \in Nat
  BY <1>1, <1>2, JobIs DEF JobRight, CountInv, JobHolds, Brings
<1>4. ~Quiet
  <2>1. PagesOf(e) = 1 .. job.page - 1
    BY <1>1, <1>2 DEF PagesOf
  <2>2. job.page \notin 1 .. job.page - 1
    BY <1>3
  <2> QED
    BY <1>2, <1>3, <2>1, <2>2 DEF CountInv
<1>5. job'.e = e /\ job'.at = "looks"
  BY <1>1, <1>2, <1>3 DEF JobType
<1>6. JobHolds'
  BY <1>2, <1>3, <1>5 DEF JobHolds
<1> QED
  BY <1>2, <1>4, <1>6 DEF CountInv, Quiet

\* What fails when a map or the CPU's access does
LEMMA FaultsCount ==
    ASSUME CountInv, ReclaimInv,
           M!PinFails \/ M!FaultMarks \/ M!FaultLooks \/ M!FaultFills
    PROVE  CountInv'
<1>1. memory' = memory
  BY DEF M!PinFails, M!FaultMarks, M!FaultLooks, M!FaultFills
<1>2. ~Quiet
  <2>1. vmfault = M!NoFault => vmfault.at = "no"
    BY DEF M!NoFault
  <2>2. CASE M!PinFails \/ M!FaultMarks
    BY <2>2 DEF Quiet, M!PinFails, M!FaultMarks
  <2>3. CASE M!FaultLooks \/ M!FaultFills
    BY <2>1, <2>3 DEF CountInv, M!FaultLooks, M!FaultFills
  <2> QED
    BY <2>2, <2>3
<1>3. JobHolds'
  <2>1. entry \in [Entries -> EntryType] /\ JobHolds
    BY JobIs DEF ReclaimTyped, CountInv
  <2>2. CASE M!PinFails
    BY <2>2 DEF M!PinFails, M!Idle, JobHolds, Takes, Brings
  <2>3. CASE M!FaultLooks
    BY <2>1, <2>3 DEF M!FaultLooks, JobHolds
  <2>4. CASE M!FaultMarks
    <3>1. PICK f \in Entries : /\ entry' = [entry EXCEPT ![f] = [entry[f] EXCEPT !.skip = TRUE]]
                               /\ job' = job
      BY <2>4 DEF M!FaultMarks, M!Sets
    <3>2. PICK rec : rec = [entry[f] EXCEPT !.skip = TRUE]
      OBVIOUS
    <3>3. rec.user = entry[f].user /\ entry' = [entry EXCEPT ![f] = rec]
      BY <2>1, <3>1, <3>2 DEF EntryType
    <3>4. \A g \in Entries : entry'[g].user = entry[g].user
      BY <2>1, <3>3
    <3> QED
      BY <2>1, <3>1, <3>4, JobIs DEF JobHolds, JobRight
  <2>5. CASE M!FaultFills
    <3>1. PICK f \in Entries : f = vmfault.e
      BY <2>5, JobIs DEF M!FaultFills, ReclaimTyped
    <3>2. PICK rec : rec = [entry[f] EXCEPT !.pages = @ \cup {vmfault.page}]
      OBVIOUS
    <3>3. rec.user = entry[f].user /\ entry' = [entry EXCEPT ![f] = rec] /\ job' = job
      BY <2>1, <2>5, <3>1, <3>2 DEF M!FaultFills, M!Sets, EntryType
    <3>4. \A g \in Entries : entry'[g].user = entry[g].user
      BY <2>1, <3>3
    <3> QED
      BY <2>1, <3>3, <3>4, JobIs DEF JobHolds, JobRight
  <2> QED
    BY <2>2, <2>3, <2>4, <2>5
<1> QED
  BY <1>1, <1>2, <1>3 DEF CountInv, Quiet

\* A pair is missing while its entry is there and its page is not.
LEMMA MissingAre ==
    \A x : x \in M!Missing <=> \E f \in Entries, p \in M!Page :
                                  x = <<f, p>> /\ entry[f].user # "freed" /\ p \notin entry[f].pages
BY DEF M!Missing

\* A page is taken, and one more counted.
LEMMA ReclaimPageCounts == ASSUME CountInv, ReclaimInv, M!ReclaimPage  PROVE CountInv'
<1>1. PICK e : e = job.e
  OBVIOUS
<1>2. PICK p : p = job.page
  OBVIOUS
<1>3. /\ memory' = memory /\ vmfault' = vmfault /\ unpinned' = unpinned + 1 /\ p \in M!Page
      /\ job.at = "clears" /\ job' = [job EXCEPT !.page = @ + 1]
      /\ entry' = [entry EXCEPT ![e] = [entry[e] EXCEPT !.pages = @ \ {p}]]
  BY <1>1, <1>2 DEF M!ReclaimPage, M!Sets
<1>4. /\ e \in Entries /\ job \in JobType /\ entry \in [Entries -> EntryType]
      /\ entry[e].user # "freed" /\ PageCount \in Nat \ {0} /\ M!Page = 1 .. PageCount
  BY <1>1, <1>3, JobIs, EntriesAre DEF JobRight, ReclaimTyped, CountInv, JobHolds, Takes
<1>5. PICK rec : rec = [entry[e] EXCEPT !.pages = @ \ {p}]
  OBVIOUS
<1>6. /\ rec.pages = entry[e].pages \ {p} /\ rec.user = entry[e].user
      /\ rec.reclaimed = entry[e].reclaimed
  BY <1>4, <1>5 DEF EntryType
<1>7. entry'[e] = rec /\ \A f \in Entries : f # e => entry'[f] = entry[f]
  BY <1>3, <1>4, <1>5
<1>8. PICK q : q = p + 1
  OBVIOUS
<1>9. job'.e = e /\ job'.at = "clears" /\ job'.page = q
  BY <1>1, <1>2, <1>3, <1>4, <1>8 DEF JobType
<1>10. JobHolds'
  BY <1>4, <1>6, <1>7, <1>9 DEF JobHolds
<1>11. ASSUME Quiet
       PROVE  /\ unpinned' = Cardinality(M!Missing')
              /\ \A f \in Entries : entry'[f].user # "freed" => entry'[f].pages = PagesOf(f)'
  <2>1. entry[e].pages = p .. PageCount
    BY <1>1, <1>2, <1>3, <1>4, <1>11 DEF CountInv, PagesOf
  <2>2. p \in entry[e].pages /\ (p .. PageCount) \ {p} = q .. PageCount
    BY <1>3, <1>4, <1>8, <2>1
  <2>3. M!Missing' = M!Missing \cup {<<e, p>>}
    BY <1>3, <1>4, <1>6, <1>7, <2>2 DEF M!Missing
  <2>4. <<e, p>> \notin M!Missing
    BY <2>2, MissingAre
  <2>5. Cardinality(M!Missing \cup {<<e, p>>}) = Cardinality(M!Missing) + 1
    BY <2>4, MissingCount
  <2>6. unpinned = Cardinality(M!Missing)
    BY <1>11 DEF CountInv
  <2>7. unpinned' = Cardinality(M!Missing')
    BY <1>3, <2>3, <2>5, <2>6
  <2>8. ASSUME NEW f \in Entries, entry'[f].user # "freed"
        PROVE  entry'[f].pages = PagesOf(f)'
    <3>1. CASE f = e
      BY <1>6, <1>7, <1>9, <2>1, <2>2, <3>1 DEF PagesOf
    <3>2. CASE f # e
      <4>1. PagesOf(f)' = PagesOf(f)
        BY <1>1, <1>7, <1>9, <3>2 DEF PagesOf
      <4> QED
        BY <1>7, <1>11, <2>8, <3>2, <4>1 DEF CountInv
    <3> QED
      BY <3>1, <3>2
  <2> QED
    BY <2>7, <2>8
<1> QED
  BY <1>3, <1>10, <1>11 DEF CountInv, Quiet, M!NoFault

\* A page is put in place, and one less counted.
LEMMA PinFillsCounts == ASSUME CountInv, ReclaimInv, M!PinFills  PROVE CountInv'
<1>1. PICK e : e = job.e
  OBVIOUS
<1>2. PICK p : p = job.page
  OBVIOUS
<1>3. /\ memory' = memory /\ vmfault' = vmfault /\ p \in M!Page
      /\ job.at = "relocks" /\ job' = [job EXCEPT !.at = "looks", !.page = @ + 1]
      /\ IF p \in entry[e].pages THEN UNCHANGED <<entry, unpinned>>
         ELSE /\ entry' = [entry EXCEPT ![e] = [entry[e] EXCEPT !.pages = @ \cup {p}]]
              /\ unpinned' = unpinned - 1
  BY <1>1, <1>2, JobIs DEF M!PinFills, M!Sets, PagesRight
<1>4. /\ e \in Entries /\ job \in JobType /\ entry \in [Entries -> EntryType]
      /\ entry[e].user # "freed" /\ PageCount \in Nat \ {0} /\ M!Page = 1 .. PageCount
  BY <1>1, <1>3, JobIs, EntriesAre DEF JobRight, ReclaimTyped, CountInv, JobHolds, Brings
<1>5. PICK q : q = p + 1
  OBVIOUS
<1>6. job'.e = e /\ job'.at = "looks" /\ job'.page = q
  BY <1>1, <1>2, <1>3, <1>4, <1>5 DEF JobType
<1>7. PICK rec : rec = [entry[e] EXCEPT !.pages = @ \cup {p}]
  OBVIOUS
<1>8. /\ rec.pages = entry[e].pages \cup {p} /\ rec.user = entry[e].user
      /\ rec.reclaimed = entry[e].reclaimed
  BY <1>4, <1>7 DEF EntryType
<1>9. JobHolds'
  <2>1. entry'[e].user = entry[e].user
    BY <1>3, <1>4, <1>7, <1>8
  <2> QED
    BY <1>4, <1>6, <2>1 DEF JobHolds
<1>10. ASSUME Quiet
       PROVE  /\ unpinned' = Cardinality(M!Missing')
              /\ \A f \in Entries : entry'[f].user # "freed" => entry'[f].pages = PagesOf(f)'
  <2>1. entry[e].pages = 1 .. p - 1
    BY <1>1, <1>2, <1>3, <1>4, <1>10 DEF CountInv, PagesOf
  <2>2. p \notin entry[e].pages /\ (1 .. p - 1) \cup {p} = 1 .. q - 1
    BY <1>3, <1>4, <1>5, <2>1
  <2>3. /\ entry'[e] = rec /\ \A f \in Entries : f # e => entry'[f] = entry[f]
        /\ unpinned' = unpinned - 1
    BY <1>3, <1>4, <1>7, <2>2
  <2>4. <<e, p>> \in M!Missing
    BY <1>3, <1>4, <2>2, MissingAre
  <2>5. M!Missing' = M!Missing \ {<<e, p>>}
    BY <1>3, <1>4, <1>8, <2>3 DEF M!Missing
  <2>6. Cardinality(M!Missing \ {<<e, p>>}) = Cardinality(M!Missing) - 1
    BY <2>4, MissingCount
  <2>7. unpinned = Cardinality(M!Missing)
    BY <1>10 DEF CountInv
  <2>8. unpinned' = Cardinality(M!Missing')
    BY <2>3, <2>5, <2>6, <2>7
  <2>9. ASSUME NEW f \in Entries, entry'[f].user # "freed"
        PROVE  entry'[f].pages = PagesOf(f)'
    <3>1. CASE f = e
      BY <1>6, <1>8, <2>1, <2>2, <2>3, <3>1 DEF PagesOf
    <3>2. CASE f # e
      <4>1. PagesOf(f)' = PagesOf(f)
        BY <1>1, <1>6, <2>3, <3>2 DEF PagesOf
      <4> QED
        BY <1>10, <2>3, <2>9, <3>2, <4>1 DEF CountInv
    <3> QED
      BY <3>1, <3>2
  <2> QED
    BY <2>8, <2>9
<1> QED
  BY <1>3, <1>9, <1>10 DEF CountInv, Quiet, M!NoFault

\* The missing pages of an entry that was reclaimed are all of them.
LEMMA AllMissing ==
    ASSUME NEW e \in Entries, entry[e].user # "freed", entry[e].pages = {}
    PROVE  /\ {e} \X M!Page \subseteq M!Missing
           /\ Cardinality(M!Missing \ ({e} \X M!Page)) = Cardinality(M!Missing) - PageCount
<1> DEFINE D == {e} \X M!Page
<1>1. D \subseteq M!Missing
  BY DEF M!Missing
<1>2. IsFiniteSet({e}) /\ Cardinality({e}) = 1
  BY FS_Singleton, Zenon
<1>3. IsFiniteSet(M!Page) /\ Cardinality(M!Page) = PageCount
  BY EntriesAre, FS_Interval
<1>4. Cardinality(D) = 1 * PageCount
  BY <1>2, <1>3, FS_Product
<1>5. Cardinality(D) = PageCount
  BY <1>4, EntriesAre
<1> HIDE DEF D
<1>6. Cardinality(M!Missing \ D) = Cardinality(M!Missing) - Cardinality(M!Missing \cap D)
  BY MissingCount, FS_Difference
<1>7. M!Missing \cap D = D
  BY <1>1
<1> QED
  BY <1>1, <1>5, <1>6, <1>7 DEF D

\* An entry goes, and takes its missing pages off the count.
LEMMA DestroyCounts ==
    ASSUME CountInv, ReclaimInv, NEW e \in Entries, M!Destroy(e)  PROVE CountInv'
<1>1. PICK rec : rec = [entry[e] EXCEPT !.user = "freed", !.mapped = FALSE]
  OBVIOUS
<1>2. /\ memory' = memory /\ vmfault' = vmfault /\ job' = job
      /\ unpinned' = unpinned - M!Unreclaimed(e) /\ entry' = [entry EXCEPT ![e] = rec]
      /\ entry[e].user = "put" /\ (job.e = e => job.at \in {"idle", "scan"})
  BY <1>1 DEF M!Destroy, M!Sets, M!Held
<1>3. entry \in [Entries -> EntryType]
  BY JobIs DEF ReclaimTyped
<1>4. rec.user = "freed"
  BY <1>1, <1>3 DEF EntryType
<1>5. entry'[e] = rec /\ \A f \in Entries : f # e => entry'[f] = entry[f]
  BY <1>2, <1>3
<1>6. JobHolds'
  <2>1. job.at \in Takes \cup Brings => job.e # e /\ job.e \in Entries
    BY <1>2, JobIs DEF Takes, Brings, JobRight
  <2> QED
    BY <1>2, <1>5, <2>1 DEF CountInv, JobHolds
<1>7. ASSUME Quiet
       PROVE  /\ unpinned' = Cardinality(M!Missing')
              /\ \A f \in Entries : entry'[f].user # "freed" => entry'[f].pages = PagesOf(f)'
  <2>1. unpinned = Cardinality(M!Missing)
    BY <1>7 DEF CountInv
  <2>2. entry[e].pages = IF entry[e].reclaimed THEN {} ELSE M!Page
    <3>1. entry[e].pages = PagesOf(e)
      BY <1>2, <1>7 DEF CountInv
    <3> QED
      BY <1>2, <3>1 DEF PagesOf
  <2>3. M!Missing' = M!Missing \ ({e} \X M!Page)
    BY <1>4, <1>5 DEF M!Missing
  <2>4. unpinned' = Cardinality(M!Missing')
    <3>1. CASE entry[e].reclaimed
      <4>1. entry[e].pages = {} /\ entry[e].user # "freed"
        BY <1>2, <2>2, <3>1
      <4>2. Cardinality(M!Missing \ ({e} \X M!Page)) = Cardinality(M!Missing) - PageCount
        BY <4>1, AllMissing
      <4>3. M!Unreclaimed(e) = PageCount
        BY <3>1 DEF M!Unreclaimed
      <4> QED
        BY <1>2, <2>1, <2>3, <4>2, <4>3
    <3>2. CASE ~entry[e].reclaimed
      <4>1. M!Missing \ ({e} \X M!Page) = M!Missing
        BY <2>2, <3>2 DEF M!Missing
      <4>2. M!Unreclaimed(e) = 0 /\ unpinned \in Int
        BY <3>2, EntryIs DEF M!Unreclaimed
      <4>3. unpinned' = unpinned
        BY <1>2, <4>2
      <4> QED
        BY <2>1, <2>3, <4>1, <4>3
    <3> QED
      BY <3>1, <3>2
  <2>5. ASSUME NEW f \in Entries, entry'[f].user # "freed"
        PROVE  entry'[f].pages = PagesOf(f)'
    <3>1. f # e
      BY <1>4, <1>5, <2>5
    <3>2. PagesOf(f)' = PagesOf(f) /\ entry'[f] = entry[f]
      BY <1>2, <1>5, <3>1 DEF PagesOf
    <3> QED
      BY <1>7, <2>5, <3>2 DEF CountInv
  <2> QED
    BY <2>4, <2>5
<1> QED
  BY <1>2, <1>6, <1>7 DEF CountInv, Quiet, M!NoFault

\* Every step keeps the count.
LEMMA CountStep == CountInv /\ ReclaimInv /\ [M!Next]_M!vars => CountInv'
<1> SUFFICES ASSUME CountInv, ReclaimInv, [M!Next]_M!vars  PROVE CountInv'
  OBVIOUS
<1>1. CASE \/ M!Foreground \/ M!Background \/ M!FgPasses
           \/ \E c \in M!Callers : M!Create(c) \/ M!Retire(c) \/ M!Bind(c) \/ M!Unbind(c)
           \/ \E e \in Entries : M!Free(e)
  BY <1>1, CallersCount
<1>2. CASE \/ \E c \in M!Callers : M!PinStarts(c)
           \/ M!ReclaimStarts \/ M!ReclaimPicks \/ M!ReclaimPasses \/ M!ReclaimEnds
           \/ M!PinPicks \/ M!PinEnds
  BY <1>2, ScansCount
<1>3. CASE \/ M!ReclaimUnmaps \/ M!ReclaimMarks \/ M!PinEnters \/ M!PinReads
           \/ M!PinLeaves \/ M!PinMaps
  BY <1>3, PagesCount
<1>4. CASE M!PinFails \/ M!FaultMarks \/ M!FaultLooks \/ M!FaultFills
  BY <1>4, FaultsCount
<1>5. CASE M!PinSkips \/ M!ReclaimPage \/ M!PinFills \/ \E e \in Entries : M!Destroy(e)
  BY <1>5, PinSkipsCount, ReclaimPageCounts, PinFillsCounts, DestroyCounts
<1>6. CASE UNCHANGED M!vars
  BY <1>6, QuietSame DEF M!vars
<1> QED
  BY <1>1, <1>2, <1>3, <1>4, <1>5, <1>6 DEF M!Next

\* At first no page is missing.
LEMMA CountInitRight == M!Init => CountInv
<1> SUFFICES ASSUME M!Init  PROVE CountInv
  OBVIOUS
<1>1. unpinned = 0 /\ job = M!Idle /\ vmfault = M!NoFault /\ job.at = "idle"
  BY DEF M!Init, M!Idle
<1>2. \A e \in Entries : entry[e] = [user |-> "live", reclaimed |-> FALSE, skip |-> FALSE,
                                     mapped |-> TRUE, pages |-> M!Page, vbo |-> {}]
  BY DEF M!Init
<1>3. M!Missing = {}
  BY <1>2, MissingAre
<1>4. unpinned = Cardinality(M!Missing)
  BY <1>1, <1>3, FS_EmptySet
<1>5. \A e \in Entries : entry[e].pages = PagesOf(e)
  BY <1>1, <1>2 DEF PagesOf
<1> QED
  BY <1>1, <1>4, <1>5 DEF CountInv, JobHolds, Takes, Brings

\* The part "memory" is a behaviour of the reclaim.
LEMMA ReclaimBehaves == PartsSpec => M!Init /\ [][M!Next]_M!vars
<1>1. PartsInit => M!Init
  BY DEF PartsInit
<1>2. [PartsNext]_<<part, vars, timelineVars, memoryVars, bufferVars, processVars,
                    fenceVars, snapshotVars, poolVars, addressVars>> => [M!Next]_M!vars
  <2>1. memoryVars' = memoryVars => UNCHANGED M!vars
    BY DEF memoryVars, M!vars
  <2> QED
    BY <2>1 DEF PartsNext
<1> QED
  BY <1>1, <1>2, PTL DEF PartsSpec

\* While a command is queued its process's entries are mapped with all their pages, and
\* so is an entry that a virtual buffer maps, whatever the reclaim, the hints, the faults
\* and other commands do; without faults and failed maps the count of the pages taken
\* away is theirs (kgsl_reclaim_process and kgsl_reclaim_to_pinned_state in kgsl_reclaim.c,
\* kgsl_paged_vmfault in kgsl_sharedmem.c).
THEOREM PartsPagesKept == PartsSpec => []PagesKept
<1>1. M!Init => ReclaimInv /\ CountInv
  BY ReclaimInitRight, CountInitRight
<1>2. ReclaimInv /\ CountInv /\ [M!Next]_M!vars => ReclaimInv' /\ CountInv'
  BY ReclaimStep, CountStep
<1>3. ReclaimInv /\ CountInv => PagesKept
  <2>1. CountInv => M!UnpinnedMatches
    BY ReclaimSizes DEF CountInv, Quiet, M!UnpinnedMatches
  <2> QED
    BY <2>1, ReclaimPinned DEF PagesKept, M!PagesKept
<1> QED
  BY <1>1, <1>2, <1>3, ReclaimBehaves, PTL

-----------------------------------------------------------------------------
(* Vbo.  What a virtual buffer maps, and who holds it.                     *)

Mapped == Children \cup {"zero", "none"}
RangeType == [id : Int, start : BufferPages, last : BufferPages, child : Children]
OpType == [at : {"idle", "start", "makes", "locks", "walk", "puts", "zeros", "mapped", "error",
                 "done", "tear", "keep"},
           bind : BOOLEAN, start : BufferPages \cup {0}, last : BufferPages \cup {0},
           child : Children \cup {"any"}, left : SUBSET RangeType,
           put : RangeType \cup {B!NoRange}, before : [BufferPages -> Mapped] \cup {<<>>}]
SceneType == [zero : BOOLEAN, first : Children \cup {"none"}, fails : SUBSET {"map", "unmap"},
              frees : SUBSET (Children \cup {"buffer"}), ops : Nat]
BufferTyped ==
    /\ buffer \in SceneType
    /\ pt \in [BufferPages -> Mapped] /\ ranges \subseteq RangeType /\ IsFiniteSet(ranges)
    /\ \A r \in ranges : r.start <= r.last
    /\ refs \in [Children -> Int] /\ vbo \in [Children -> Int]
    /\ user \in [Children \cup {"buffer"} -> {"live", "pending", "put"}] /\ target \in Int
    /\ holder \in Workers \cup {"none", "teardown"}
    /\ op \in [Workers \cup {"teardown"} -> OpType]

\* What an operation asks for and what it has found, and who has the lock
Walking == {"walk", "puts", "zeros"}
Locked == Walking \cup {"mapped", "error"}
OpFits(o) ==
    /\ o.at \notin {"tear", "keep"}
    /\ o.at # "idle" => /\ o.start \in BufferPages /\ o.last \in BufferPages /\ o.start <= o.last
                        /\ o.bind => o.child \in Children
    /\ o.at \in {"makes", "locks", "mapped", "error"} => o.bind
    /\ o.at = "zeros" => ~o.bind
    /\ o.at \in {"puts", "zeros"} => o.put \in RangeType
    /\ o.at \in Walking => o.before \in [BufferPages -> Mapped]
OpRight(w) ==
    /\ OpFits(op[w]) /\ (op[w].at \in Locked <=> holder = w)
    /\ op[w].at \in Walking => op[w].left \subseteq ranges

\* The buffer has a reference of its user's and one of each operation, and is torn
\* down when it has none.
Active == {w \in Workers : op[w].at # "idle"}
TargetRight ==
    /\ target = Cardinality(Active) + (IF user["buffer"] = "live" THEN 1 ELSE 0)
    /\ op["teardown"].at \in {"idle", "tear", "keep"}
    /\ op["teardown"].at # "idle" <=> holder = "teardown"
    /\ holder = "teardown" => target = 0

\* Each range has its child, each operation that of its own, that of the range it
\* makes and that of the range it removes; a child is kept that could not be unmapped.
OfChild(rs, c) == {r \in rs : r.child = c}
Owned(c) == {w \in Workers : op[w].at # "idle" /\ op[w].child = c}
Making == {"locks", "walk", "puts", "error"}
Made(c) == {w \in Workers : op[w].bind /\ op[w].at \in Making /\ op[w].child = c}
Removed(c) == {w \in Workers : op[w].at \in {"puts", "zeros"} /\ op[w].put.child = c}
Held(c) == Cardinality(Owned(c)) + Cardinality(Made(c)) + Cardinality(Removed(c))
Covers(r, p) == p \in r.start .. r.last
Stray(c) == \E p \in BufferPages :
                pt[p] = c /\ \A r \in ranges : ~(r.child = c /\ Covers(r, p))
ChildRight(c) ==
    /\ vbo[c] >= Cardinality(OfChild(ranges, c)) + Held(c) + (IF Stray(c) THEN 1 ELSE 0)
    /\ refs[c] >= vbo[c] + (IF user[c] # "put" THEN 1 ELSE 0)

\* The page table is what the ranges say but for what the walk has unmapped.
Cleared(p) ==
    /\ holder \in Workers /\ op[holder].bind /\ op[holder].at \in Walking
    /\ buffer.zero /\ p \in B!Window(op[holder])
Zeroing(p) == holder \in Workers /\ op[holder].at = "zeros" /\ Covers(op[holder].put, p)
TableRight ==
    /\ holder # "teardown" => \A c \in Children : ~Stray(c)
    /\ holder # "teardown" /\ "unmap" \notin failed =>
        /\ \A r, s \in ranges : r = s \/ r.last < s.start \/ s.last < r.start
        /\ \A r \in ranges, p \in BufferPages : Covers(r, p) => pt[p] = r.child \/ Cleared(p)
    /\ holder # "teardown" /\ buffer.zero /\ failed = {} =>
        \A p \in BufferPages : pt[p] = "none" => Cleared(p) \/ Zeroing(p)
    /\ \A p \in BufferPages : Cleared(p) \/ Zeroing(p) => pt[p] = "none"
    /\ buffer.zero /\ op["teardown"].at = "tear" => \A p \in BufferPages : pt[p] = "none"

\* A bind has still to look at the ranges in its window, and has left what is
\* outside; an unbind has still to take out those of its child.
BindRight(w) ==
    op[w].bind =>
        /\ op[w].at \in Walking => /\ \A r \in ranges : B!Overlap(r, op[w]) <=> r \in op[w].left
                                   /\ \A p \in BufferPages \ B!Window(op[w]) : pt[p] = op[w].before[p]
        /\ op[w].at = "mapped" => \A p \in BufferPages :
               pt[p] = IF p \in B!Window(op[w]) THEN op[w].child ELSE op[w].before[p]
UnbindRight(w) ==
    ~op[w].bind /\ op[w].at \in Walking =>
        /\ \A r \in op[w].left : op[w].child \in {"any", r.child}
        /\ "unmap" \notin failed =>
            /\ \A r \in ranges : B!Overlap(r, op[w]) /\ op[w].child \in {"any", r.child} =>
                   r \in op[w].left
            /\ \A p \in BufferPages :
                   op[w].before[p] \in Children /\ op[w].child \notin {"any", op[w].before[p]} =>
                       pt[p] = op[w].before[p]

BufferInv ==
    /\ BufferTyped /\ TargetRight /\ TableRight
    /\ \A w \in Workers : OpRight(w) /\ BindRight(w) /\ UnbindRight(w)
    /\ \A c \in Children : ChildRight(c)

\* The instance has the same cardinalities.
LEMMA BufferSizes ==
    \A X : B!Cardinality(X) = Cardinality(X) /\ (B!IsFiniteSet(X) <=> IsFiniteSet(X))
<1>1. \A X : B!Cardinality(X) = Cardinality(X)
  BY DEF B!Cardinality, Cardinality
<1>2. \A X : B!IsFiniteSet(X) <=> IsFiniteSet(X)
  BY DEF B!IsFiniteSet, IsFiniteSet
<1> QED
  BY <1>1, <1>2

\* The workers and what children, pages and who has the lock are called
LEMMA BufferNames ==
    /\ IsFiniteSet(Workers) /\ "none" \notin Workers /\ "teardown" \notin Workers
    /\ "zero" \notin Children /\ "none" \notin Children /\ "any" \notin Children
    /\ "buffer" \notin Children
<1>1. B!VboAssumption
  BY PartsAssumption
<1>2. IsFiniteSet(Workers) /\ Workers \cap {"none", "teardown"} = {}
      /\ Children \cap {"zero", "none", "any", "buffer"} = {}
  BY <1>1, BufferSizes DEF B!VboAssumption
<1> QED
  BY <1>2

\* The pages are numbered from one.
LEMMA BufferPagesAre ==
    \E n \in Nat \ {0} : BufferPages = 1 .. n /\ n = Cardinality(BufferPages)
<1>1. B!VboAssumption
  BY PartsAssumption
<1>2. /\ IsFiniteSet(BufferPages) /\ BufferPages # {}
      /\ BufferPages = 1 .. Cardinality(BufferPages)
  BY <1>1, BufferSizes DEF B!VboAssumption
<1>3. Cardinality(BufferPages) \in Nat /\ Cardinality(BufferPages) # 0
  BY <1>2, FS_CardinalityType, FS_EmptySet
<1> QED
  BY <1>2, <1>3

\* One member less or more: what that is for the number of them.
LEMMA MemberMoves ==
    ASSUME NEW X \in SUBSET Workers, NEW Y \in SUBSET Workers, NEW w \in Workers,
           \A v \in Workers \ {w} : v \in X <=> v \in Y
    PROVE  /\ Cardinality(X) \in Nat /\ Cardinality(Y) \in Nat
           /\ Cardinality(Y) = Cardinality(X) + (IF w \in Y THEN 1 ELSE 0)
                               - (IF w \in X THEN 1 ELSE 0)
<1>1. IsFiniteSet(X) /\ IsFiniteSet(Y)
  BY BufferNames, FS_Subset
<1>2. Cardinality(X) \in Nat /\ Cardinality(Y) \in Nat
  BY <1>1, FS_CardinalityType
<1>3. CASE w \in X /\ w \in Y
  <2>1. X = Y
    BY <1>3
  <2> QED
    BY <1>2, <1>3, <2>1
<1>4. CASE w \notin X /\ w \notin Y
  <2>1. X = Y
    BY <1>4
  <2> QED
    BY <1>2, <1>4, <2>1
<1>5. CASE w \in X /\ w \notin Y
  <2>1. Y = X \ {w}
    BY <1>5
  <2>2. Cardinality(Y) = Cardinality(X) - 1
    BY <1>1, <1>5, <2>1, FS_RemoveElement
  <2> QED
    BY <1>2, <1>5, <2>2
<1>6. CASE w \notin X /\ w \in Y
  <2>1. Y = X \cup {w}
    BY <1>6
  <2>2. Cardinality(Y) = Cardinality(X) + 1
    BY <1>1, <1>6, <2>1, FS_AddElement
  <2> QED
    BY <1>2, <1>6, <2>2
<1> QED
  BY <1>3, <1>4, <1>5, <1>6

\* What an operation counts for, for a child
OwnShare(o, c) == IF o.at # "idle" /\ o.child = c THEN 1 ELSE 0
MadeShare(o, c) == IF o.bind /\ o.at \in Making /\ o.child = c THEN 1 ELSE 0
RemovedShare(o, c) == IF o.at \in {"puts", "zeros"} /\ o.put.child = c THEN 1 ELSE 0
Share(o, c) == OwnShare(o, c) + MadeShare(o, c) + RemovedShare(o, c)

\* An operation goes on: what that is for the counts.
LEMMA WorkerMoves ==
    ASSUME BufferTyped, NEW w \in Workers, NEW o, op' = [op EXCEPT ![w] = o]
    PROVE  /\ op'[w] = o /\ \A v \in Workers \cup {"teardown"} : v # w => op'[v] = op[v]
           /\ \A c : /\ Held(c) \in Nat /\ Held(c)' = Held(c) + Share(o, c) - Share(op[w], c)
                     /\ Share(o, c) \in Nat /\ Share(op[w], c) \in Nat
           /\ Cardinality(Active) \in Nat
           /\ Cardinality(Active') = Cardinality(Active) + (IF o.at # "idle" THEN 1 ELSE 0)
                                     - (IF op[w].at # "idle" THEN 1 ELSE 0)
<1>1. op'[w] = o /\ \A v \in Workers \cup {"teardown"} : v # w => op'[v] = op[v]
  BY DEF BufferTyped
<1>2. ASSUME NEW c
      PROVE  /\ Held(c) \in Nat /\ Held(c)' = Held(c) + Share(o, c) - Share(op[w], c)
             /\ Share(o, c) \in Nat /\ Share(op[w], c) \in Nat
  <2>1. /\ Cardinality(Owned(c)) \in Nat /\ Cardinality(Owned(c)') \in Nat
        /\ Cardinality(Owned(c)') = Cardinality(Owned(c)) + OwnShare(o, c) - OwnShare(op[w], c)
    <3>1. Owned(c) \in SUBSET Workers /\ Owned(c)' \in SUBSET Workers
      BY DEF Owned
    <3>2. \A v \in Workers \ {w} : v \in Owned(c) <=> v \in Owned(c)'
      BY <1>1 DEF Owned
    <3>3. w \in Owned(c) <=> op[w].at # "idle" /\ op[w].child = c
      BY DEF Owned
    <3>4. w \in Owned(c)' <=> o.at # "idle" /\ o.child = c
      BY <1>1 DEF Owned
    <3> DEFINE X == Owned(c)
               Y == Owned(c)'
    <3> HIDE DEF X, Y
    <3>5. /\ Cardinality(X) \in Nat /\ Cardinality(Y) \in Nat
          /\ Cardinality(Y) = Cardinality(X) + (IF w \in Y THEN 1 ELSE 0)
                              - (IF w \in X THEN 1 ELSE 0)
      BY <3>1, <3>2, MemberMoves DEF X, Y
    <3>6. (IF w \in X THEN 1 ELSE 0) = OwnShare(op[w], c)
      BY <3>3 DEF X, OwnShare
    <3>7. (IF w \in Y THEN 1 ELSE 0) = OwnShare(o, c)
      BY <3>4 DEF Y, OwnShare
    <3> QED
      BY <3>5, <3>6, <3>7 DEF X, Y
  <2>2. /\ Cardinality(Made(c)) \in Nat /\ Cardinality(Made(c)') \in Nat
        /\ Cardinality(Made(c)') = Cardinality(Made(c)) + MadeShare(o, c) - MadeShare(op[w], c)
    <3>1. Made(c) \in SUBSET Workers /\ Made(c)' \in SUBSET Workers
      BY DEF Made
    <3>2. \A v \in Workers \ {w} : v \in Made(c) <=> v \in Made(c)'
      BY <1>1 DEF Made
    <3>3. w \in Made(c) <=> op[w].bind /\ op[w].at \in Making /\ op[w].child = c
      BY DEF Made
    <3>4. w \in Made(c)' <=> o.bind /\ o.at \in Making /\ o.child = c
      BY <1>1 DEF Made
    <3> DEFINE X == Made(c)
               Y == Made(c)'
    <3> HIDE DEF X, Y
    <3>5. /\ Cardinality(X) \in Nat /\ Cardinality(Y) \in Nat
          /\ Cardinality(Y) = Cardinality(X) + (IF w \in Y THEN 1 ELSE 0)
                              - (IF w \in X THEN 1 ELSE 0)
      BY <3>1, <3>2, MemberMoves DEF X, Y
    <3>6. (IF w \in X THEN 1 ELSE 0) = MadeShare(op[w], c)
      BY <3>3 DEF X, MadeShare
    <3>7. (IF w \in Y THEN 1 ELSE 0) = MadeShare(o, c)
      BY <3>4 DEF Y, MadeShare
    <3> QED
      BY <3>5, <3>6, <3>7 DEF X, Y
  <2>3. /\ Cardinality(Removed(c)) \in Nat /\ Cardinality(Removed(c)') \in Nat
        /\ Cardinality(Removed(c)')
               = Cardinality(Removed(c)) + RemovedShare(o, c) - RemovedShare(op[w], c)
    <3>1. Removed(c) \in SUBSET Workers /\ Removed(c)' \in SUBSET Workers
      BY DEF Removed
    <3>2. \A v \in Workers \ {w} : v \in Removed(c) <=> v \in Removed(c)'
      BY <1>1 DEF Removed
    <3>3. w \in Removed(c) <=> op[w].at \in {"puts", "zeros"} /\ op[w].put.child = c
      BY DEF Removed
    <3>4. w \in Removed(c)' <=> o.at \in {"puts", "zeros"} /\ o.put.child = c
      BY <1>1 DEF Removed
    <3> DEFINE X == Removed(c)
               Y == Removed(c)'
    <3> HIDE DEF X, Y
    <3>5. /\ Cardinality(X) \in Nat /\ Cardinality(Y) \in Nat
          /\ Cardinality(Y) = Cardinality(X) + (IF w \in Y THEN 1 ELSE 0)
                              - (IF w \in X THEN 1 ELSE 0)
      BY <3>1, <3>2, MemberMoves DEF X, Y
    <3>6. (IF w \in X THEN 1 ELSE 0) = RemovedShare(op[w], c)
      BY <3>3 DEF X, RemovedShare
    <3>7. (IF w \in Y THEN 1 ELSE 0) = RemovedShare(o, c)
      BY <3>4 DEF Y, RemovedShare
    <3> QED
      BY <3>5, <3>6, <3>7 DEF X, Y
  <2>4. /\ OwnShare(o, c) \in 0 .. 1 /\ OwnShare(op[w], c) \in 0 .. 1
        /\ MadeShare(o, c) \in 0 .. 1 /\ MadeShare(op[w], c) \in 0 .. 1
        /\ RemovedShare(o, c) \in 0 .. 1 /\ RemovedShare(op[w], c) \in 0 .. 1
    BY DEF OwnShare, MadeShare, RemovedShare
  <2>5. Held(c)' = Cardinality(Owned(c)') + Cardinality(Made(c)') + Cardinality(Removed(c)')
    BY DEF Held
  <2>6. Held(c) = Cardinality(Owned(c)) + Cardinality(Made(c)) + Cardinality(Removed(c))
    BY DEF Held
  <2>7. /\ Share(o, c) = OwnShare(o, c) + MadeShare(o, c) + RemovedShare(o, c)
        /\ Share(op[w], c) = OwnShare(op[w], c) + MadeShare(op[w], c) + RemovedShare(op[w], c)
    BY DEF Share
  <2>8. Share(o, c) \in Nat /\ Share(op[w], c) \in Nat
    BY <2>4, <2>7
  <2>9. Held(c) \in Nat
    BY <2>1, <2>2, <2>3, <2>6
  <2>10. Held(c)' = Held(c) + Share(o, c) - Share(op[w], c)
    BY <2>1, <2>2, <2>3, <2>4, <2>5, <2>6, <2>7
  <2> QED
    BY <2>8, <2>9, <2>10
<1>3. /\ Cardinality(Active) \in Nat
      /\ Cardinality(Active') = Cardinality(Active) + (IF o.at # "idle" THEN 1 ELSE 0)
                                - (IF op[w].at # "idle" THEN 1 ELSE 0)
  <2>1. Active \in SUBSET Workers /\ Active' \in SUBSET Workers
    BY DEF Active
  <2>2. \A v \in Workers \ {w} : v \in Active <=> v \in Active'
    BY <1>1 DEF Active
  <2>3. (w \in Active <=> op[w].at # "idle") /\ (w \in Active' <=> o.at # "idle")
    BY <1>1 DEF Active
  <2> DEFINE X == Active
             Y == Active'
  <2> HIDE DEF X, Y
  <2>4. /\ Cardinality(X) \in Nat /\ Cardinality(Y) \in Nat
        /\ Cardinality(Y) = Cardinality(X) + (IF w \in Y THEN 1 ELSE 0)
                            - (IF w \in X THEN 1 ELSE 0)
    BY <2>1, <2>2, MemberMoves DEF X, Y
  <2> QED
    BY <2>3, <2>4 DEF X, Y
<1> QED
  BY <1>1, <1>2, <1>3

\* The ranges of a child, one less or more
LEMMA RangesCount ==
    ASSUME NEW rs, IsFiniteSet(rs), NEW c
    PROVE  /\ IsFiniteSet(OfChild(rs, c)) /\ Cardinality(OfChild(rs, c)) \in Nat
           /\ \A r \in OfChild(rs, c) : Cardinality(OfChild(rs, c)) > 0
           /\ \A r \in rs : /\ IsFiniteSet(rs \ {r})
                            /\ Cardinality(OfChild(rs \ {r}, c))
                                   = Cardinality(OfChild(rs, c)) - (IF r.child = c THEN 1 ELSE 0)
           /\ \A r : /\ IsFiniteSet(rs \cup {r})
                     /\ Cardinality(OfChild(rs \cup {r}, c)) \in Nat
                     /\ Cardinality(OfChild(rs \cup {r}, c))
                            <= Cardinality(OfChild(rs, c)) + (IF r.child = c THEN 1 ELSE 0)
<1> DEFINE K == OfChild(rs, c)
<1>1. K \in SUBSET rs
  BY DEF OfChild
<1>2. IsFiniteSet(K)
  BY ONLY <1>1, IsFiniteSet(rs), FS_Subset
<1>3. Cardinality(K) \in Nat /\ (Cardinality(K) = 0 <=> K = {})
  BY <1>2, FS_CardinalityType, FS_EmptySet
<1>4. ASSUME NEW r \in rs
      PROVE  /\ IsFiniteSet(rs \ {r})
             /\ Cardinality(OfChild(rs \ {r}, c))
                    = Cardinality(K) - (IF r.child = c THEN 1 ELSE 0)
  <2>1. IsFiniteSet(rs \ {r})
    BY FS_RemoveElement
  <2>2. CASE r.child = c
    <3>1. OfChild(rs \ {r}, c) = K \ {r} /\ r \in K
      BY <2>2 DEF OfChild
    <3> HIDE DEF K
    <3>2. Cardinality(K \ {r}) = Cardinality(K) - 1
      BY <1>2, <3>1, FS_RemoveElement
    <3> QED
      BY <2>1, <2>2, <3>1, <3>2
  <2>3. CASE r.child # c
    <3>1. OfChild(rs \ {r}, c) = K
      BY <2>3 DEF OfChild
    <3> HIDE DEF K
    <3> QED
      BY <1>3, <2>1, <2>3, <3>1
  <2> QED
    BY <2>2, <2>3
<1>5. ASSUME NEW r
      PROVE  /\ IsFiniteSet(rs \cup {r})
             /\ Cardinality(OfChild(rs \cup {r}, c)) \in Nat
             /\ Cardinality(OfChild(rs \cup {r}, c))
                    <= Cardinality(K) + (IF r.child = c THEN 1 ELSE 0)
  <2>1. IsFiniteSet(rs \cup {r})
    BY FS_AddElement
  <2>2. CASE r.child = c
    <3>1. OfChild(rs \cup {r}, c) = K \cup {r}
      BY <2>2 DEF OfChild
    <3> HIDE DEF K
    <3>2. Cardinality(K \cup {r}) \in Nat /\ Cardinality(K \cup {r}) <= Cardinality(K) + 1
      <4>1. Cardinality(K \cup {r}) = IF r \in K THEN Cardinality(K) ELSE Cardinality(K) + 1
        BY <1>2, FS_AddElement
      <4> QED
        BY <1>3, <4>1
    <3> QED
      BY <2>1, <2>2, <3>1, <3>2
  <2>3. CASE r.child # c
    <3>1. OfChild(rs \cup {r}, c) = K
      BY <2>3 DEF OfChild
    <3> HIDE DEF K
    <3> QED
      BY <1>3, <2>1, <2>3, <3>1
  <2> QED
    BY <2>2, <2>3
<1>6. \A r \in OfChild(rs, c) : Cardinality(OfChild(rs, c)) > 0
  <2> HIDE DEF K
  <2>1. \A r \in K : Cardinality(K) > 0
    BY <1>3
  <2> QED
    BY <2>1 DEF K
<1> QED
  BY <1>2, <1>3, <1>4, <1>5, <1>6

\* A thread's record that no operation has yet
LEMMA IdleIs ==
    /\ B!Idle \in OpType /\ B!Idle.at = "idle" /\ OpFits(B!Idle)
    /\ \A c \in Children : Share(B!Idle, c) = 0
<1>1. /\ B!Idle = [at |-> "idle", bind |-> FALSE, start |-> 0, last |-> 0, child |-> "any",
                   left |-> {}, put |-> B!NoRange, before |-> <<>>]
  BY DEF B!Idle
<1>2. B!Idle \in OpType
  BY <1>1 DEF OpType
<1>3. B!Idle.at = "idle" /\ OpFits(B!Idle)
  BY <1>1 DEF OpFits, Walking
<1>4. \A c \in Children : Share(B!Idle, c) = 0
  BY <1>1 DEF Share, OwnShare, MadeShare, RemovedShare, Making
<1> QED
  BY <1>2, <1>3, <1>4

\* At first the whole buffer may be bound to one child.
LEMMA BufferInitRight == B!Init => BufferInv
<1> SUFFICES ASSUME B!Init  PROVE BufferInv
  OBVIOUS
<1>1. /\ buffer \in Buffers /\ failed = {} /\ target = 1 /\ holder = "none"
      /\ pt = [p \in BufferPages |->
                   IF buffer.first = "none" /\ buffer.zero THEN "zero" ELSE buffer.first]
      /\ ranges = {[id |-> 1, start |-> 1, last |-> Cardinality(BufferPages), child |-> c] :
                       c \in Children \cap {buffer.first}}
      /\ refs = [c \in Children |-> IF c = buffer.first THEN 2 ELSE 1]
      /\ vbo = [c \in Children |-> IF c = buffer.first THEN 1 ELSE 0]
      /\ user = [x \in Children \cup {"buffer"} |-> "live"]
      /\ op = [w \in Workers \cup {"teardown"} |-> B!Idle]
  BY BufferSizes DEF B!Init, B!Buffer, B!Teardown
<1>2. /\ buffer \in SceneType
      /\ buffer.zero \in BOOLEAN /\ buffer.first \in Children \cup {"none"}
  <2>1. B!VboAssumption
    BY PartsAssumption
  <2>2. Buffers \subseteq SceneType
    BY <2>1 DEF B!VboAssumption, SceneType
  <2> QED
    BY <1>1, <2>2 DEF SceneType
<1>3. PICK n \in Nat \ {0} : BufferPages = 1 .. n /\ n = Cardinality(BufferPages)
  BY BufferPagesAre
<1>4. \A w \in Workers \cup {"teardown"} : op[w] = B!Idle
  BY <1>1
<1>5. IsFiniteSet(ranges) /\ \A r \in ranges :
          /\ r \in RangeType /\ r.start = 1 /\ r.last = n /\ r.child = buffer.first
          /\ \A s \in ranges : r = s
  <2>1. CASE buffer.first \in Children
    <3>1. ranges = {[id |-> 1, start |-> 1, last |-> n, child |-> buffer.first]}
      BY <1>1, <1>3, <2>1
    <3>2. IsFiniteSet({[id |-> 1, start |-> 1, last |-> n, child |-> buffer.first]})
      BY FS_Singleton, Zenon
    <3>3. [id |-> 1, start |-> 1, last |-> n, child |-> buffer.first] \in RangeType
      BY <1>3, <2>1 DEF RangeType
    <3> QED
      BY <3>1, <3>2, <3>3
  <2>2. CASE buffer.first \notin Children
    <3>1. ranges = {}
      BY <1>1, <2>2
    <3> QED
      BY <3>1, FS_EmptySet
  <2> QED
    BY <2>1, <2>2
<1>6. BufferTyped
  <2>1. pt \in [BufferPages -> Mapped] /\ \A r \in ranges : r.start <= r.last
    BY <1>1, <1>2, <1>3, <1>5 DEF Mapped
  <2>2. refs \in [Children -> Int] /\ vbo \in [Children -> Int]
    BY <1>1
  <2>3. op \in [Workers \cup {"teardown"} -> OpType]
    BY <1>1, IdleIs
  <2>4. user \in [Children \cup {"buffer"} -> {"live", "pending", "put"}]
    BY <1>1
  <2> QED
    BY <1>1, <1>2, <1>5, <2>1, <2>2, <2>3, <2>4 DEF BufferTyped
<1>7. TargetRight
  <2>1. Active = {}
    BY <1>4, IdleIs DEF Active
  <2>2. Cardinality(Active) = 0
    BY <2>1, FS_EmptySet
  <2>3. user["buffer"] = "live" /\ op["teardown"].at = "idle"
    BY <1>1, <1>4, IdleIs
  <2> QED
    BY <1>1, <2>2, <2>3 DEF TargetRight
<1>8. \A p \in BufferPages : ~Cleared(p) /\ ~Zeroing(p)
  BY <1>1, BufferNames DEF Cleared, Zeroing
<1>9. \A c \in Children : ~Stray(c)
  <2> SUFFICES ASSUME NEW c \in Children, NEW p \in BufferPages, pt[p] = c
               PROVE  \E r \in ranges : r.child = c /\ Covers(r, p)
    BY DEF Stray
  <2>1. c = buffer.first
    BY <1>1, BufferNames
  <2>2. [id |-> 1, start |-> 1, last |-> n, child |-> c] \in ranges
    BY <1>1, <1>3, <2>1
  <2> QED
    BY <1>3, <2>2 DEF Covers
<1>10. TableRight
  <2>1. \A r \in ranges, p \in BufferPages : pt[p] = r.child
    BY <1>1, <1>2, <1>5, BufferNames DEF RangeType
  <2>2. buffer.zero => \A p \in BufferPages : pt[p] # "none"
    BY <1>1, <1>2
  <2>3. op["teardown"].at = "idle"
    BY <1>4, IdleIs
  <2> QED
    BY <1>1, <1>5, <1>8, <1>9, <2>1, <2>2, <2>3 DEF TableRight
<1>11. \A w \in Workers : OpRight(w) /\ BindRight(w) /\ UnbindRight(w)
  <2>1. \A w \in Workers : op[w] = B!Idle /\ op[w].at = "idle" /\ holder # w
    BY <1>1, <1>4, IdleIs, BufferNames
  <2> QED
    BY <2>1, IdleIs DEF OpRight, BindRight, UnbindRight, Locked, Walking
<1>12. ASSUME NEW c \in Children  PROVE ChildRight(c)
  <2>1. Held(c) = 0
    <3>1. Owned(c) = {} /\ Made(c) = {} /\ Removed(c) = {}
      BY <1>4, IdleIs DEF Owned, Made, Removed, Making
    <3> QED
      BY <3>1, FS_EmptySet DEF Held
  <2>2. user[c] = "live" /\ ~Stray(c)
    BY <1>1, <1>9
  <2>3. CASE c = buffer.first
    <3>1. OfChild(ranges, c) = {[id |-> 1, start |-> 1, last |-> n, child |-> c]}
      BY <1>1, <1>3, <2>3 DEF OfChild
    <3>2. Cardinality({[id |-> 1, start |-> 1, last |-> n, child |-> c]}) = 1
      BY FS_Singleton, Zenon
    <3>3. refs[c] = 2 /\ vbo[c] = 1
      BY <1>1, <2>3
    <3> QED
      BY <2>1, <2>2, <3>1, <3>2, <3>3 DEF ChildRight
  <2>4. CASE c # buffer.first
    <3>1. OfChild(ranges, c) = {}
      BY <1>5, <2>4 DEF OfChild
    <3>2. Cardinality({}) = 0
      BY FS_EmptySet
    <3>3. refs[c] = 1 /\ vbo[c] = 0
      BY <1>1, <2>4
    <3> QED
      BY <2>1, <2>2, <3>1, <3>2, <3>3 DEF ChildRight
  <2> QED
    BY <2>3, <2>4
<1> QED
  BY <1>6, <1>7, <1>10, <1>11, <1>12 DEF BufferInv

\* A worker's step keeps the counts of a child, if it takes what it is to have.
LEMMA ChildKeeps ==
    ASSUME BufferTyped, NEW w \in Workers, NEW o, op' = [op EXCEPT ![w] = o],
           NEW c \in Children, ChildRight(c), vbo'[c] \in Int, refs'[c] \in Int,
           IsFiniteSet(ranges'), ~Stray(c)',
           vbo'[c] - vbo[c] >= Cardinality(OfChild(ranges', c)) - Cardinality(OfChild(ranges, c))
                               + Share(o, c) - Share(op[w], c),
           refs'[c] - vbo'[c] = refs[c] - vbo[c], user' = user
    PROVE  ChildRight(c)'
<1>1. /\ Held(c) \in Nat /\ Held(c)' = Held(c) + Share(o, c) - Share(op[w], c)
      /\ Share(o, c) \in Nat /\ Share(op[w], c) \in Nat
  BY WorkerMoves
<1>2. vbo[c] \in Int /\ refs[c] \in Int /\ IsFiniteSet(ranges)
  BY DEF BufferTyped
<1>3. Cardinality(OfChild(ranges, c)) \in Nat /\ Cardinality(OfChild(ranges', c)) \in Nat
  BY <1>2, RangesCount
<1>4. vbo[c] >= Cardinality(OfChild(ranges, c)) + Held(c)
  <2>1. vbo[c] >= Cardinality(OfChild(ranges, c)) + Held(c) + (IF Stray(c) THEN 1 ELSE 0)
    BY DEF ChildRight
  <2>2. CASE Stray(c)
    BY <1>1, <1>2, <1>3, <2>1, <2>2
  <2>3. CASE ~Stray(c)
    BY <1>1, <1>2, <1>3, <2>1, <2>3
  <2> QED
    BY <2>2, <2>3
<1>5. vbo'[c] >= Cardinality(OfChild(ranges', c)) + Held(c)'
  BY <1>1, <1>2, <1>3, <1>4
<1>6. Held(c)' \in Int
  BY <1>1
<1>7. vbo'[c] >= Cardinality(OfChild(ranges', c)) + Held(c)' + (IF Stray(c)' THEN 1 ELSE 0)
  BY <1>3, <1>5, <1>6
<1>8. refs'[c] >= vbo'[c] + (IF user'[c] # "put" THEN 1 ELSE 0)
  <2>1. refs[c] >= vbo[c] + (IF user[c] # "put" THEN 1 ELSE 0)
    BY DEF ChildRight
  <2>2. CASE user[c] # "put"
    BY <1>2, <2>1, <2>2
  <2>3. CASE user[c] = "put"
    BY <1>2, <2>1, <2>3
  <2> QED
    BY <2>2, <2>3
<1>9. OfChild(ranges, c)' = OfChild(ranges', c)
  BY DEF OfChild
<1> QED
  BY <1>7, <1>8, <1>9 DEF ChildRight

\* While the buffer has a reference it is not torn down.
LEMMA NotTorn ==
    ASSUME BufferInv, (\E w \in Workers : op[w].at # "idle") \/ user["buffer"] = "live"
    PROVE  holder # "teardown" /\ \A c \in Children : ~Stray(c)
<1>1. Active \in SUBSET Workers
  BY DEF Active
<1>2. IsFiniteSet(Active)
  BY <1>1, BufferNames, FS_Subset
<1>3. Cardinality(Active) \in Nat /\ (Cardinality(Active) = 0 <=> Active = {})
  BY <1>2, FS_CardinalityType, FS_EmptySet
<1>4. CASE \E w \in Workers : op[w].at # "idle"
  <2>1. Active # {}
    BY <1>4 DEF Active
  <2>2. target # 0
    BY <1>3, <2>1 DEF BufferInv, TargetRight
  <2> QED
    BY <2>2 DEF BufferInv, TargetRight, TableRight
<1>5. CASE user["buffer"] = "live"
  <2>1. target # 0
    BY <1>3, <1>5 DEF BufferInv, TargetRight
  <2> QED
    BY <2>1 DEF BufferInv, TargetRight, TableRight
<1> QED
  BY <1>4, <1>5

\* An operation that starts, waits for the lock or ends
LEMMA OutsideStep ==
    ASSUME BufferInv, NEW w \in Workers, NEW o \in OpType, op' = [op EXCEPT ![w] = o],
           op[w].at \notin Locked, o.at \notin Locked, OpFits(o),
           op[w].at # "idle" \/ user["buffer"] = "live",
           target' = target + (IF o.at # "idle" THEN 1 ELSE 0)
                     - (IF op[w].at # "idle" THEN 1 ELSE 0),
           UNCHANGED <<buffer, failed, pt, ranges, user, holder>>,
           refs' \in [Children -> Int], vbo' \in [Children -> Int],
           \A c \in Children : /\ vbo'[c] - vbo[c] >= Share(o, c) - Share(op[w], c)
                               /\ refs'[c] - vbo'[c] = refs[c] - vbo[c]
    PROVE  BufferInv'
<1>1. /\ BufferTyped /\ TargetRight /\ TableRight
      /\ \A v \in Workers : OpRight(v) /\ BindRight(v) /\ UnbindRight(v)
      /\ \A c \in Children : ChildRight(c)
  BY DEF BufferInv
<1>2. op'[w] = o /\ \A v \in Workers \cup {"teardown"} : v # w => op'[v] = op[v]
  BY <1>1, WorkerMoves
<1>3. holder # "teardown" /\ \A c \in Children : ~Stray(c)
  BY NotTorn
<1>4. holder # w
  BY <1>1 DEF OpRight
<1>5. BufferTyped'
  <2>1. op' \in [Workers \cup {"teardown"} -> OpType]
    BY <1>1 DEF BufferTyped
  <2>2. target' \in Int
    BY <1>1 DEF BufferTyped
  <2> QED
    BY <1>1, <2>1, <2>2 DEF BufferTyped
<1>6. TargetRight'
  <2>1. /\ Cardinality(Active) \in Nat
        /\ Cardinality(Active') = Cardinality(Active) + (IF o.at # "idle" THEN 1 ELSE 0)
                                  - (IF op[w].at # "idle" THEN 1 ELSE 0)
    BY <1>1, WorkerMoves
  <2>2. target = Cardinality(Active) + (IF user["buffer"] = "live" THEN 1 ELSE 0)
    BY <1>1 DEF TargetRight
  <2>3. target' = Cardinality(Active') + (IF user["buffer"] = "live" THEN 1 ELSE 0)
    BY <2>1, <2>2
  <2>4. Cardinality(Active)' = Cardinality(Active')
    BY DEF Active
  <2>5. op'["teardown"] = op["teardown"]
    BY <1>2, BufferNames
  <2> QED
    BY <1>1, <1>3, <2>3, <2>5 DEF TargetRight
<1>7. \A p : (Cleared(p)' <=> Cleared(p)) /\ (Zeroing(p)' <=> Zeroing(p))
  BY <1>2, <1>4 DEF Cleared, Zeroing, B!Window, Covers
<1>8. \A c : Stray(c)' <=> Stray(c)
  BY DEF Stray, Covers
<1>9. TableRight'
  <2>1. op'["teardown"] = op["teardown"]
    BY <1>2, BufferNames
  <2>2. holder' # "teardown" => \A c \in Children : ~Stray(c)'
    BY <1>1, <1>8 DEF TableRight
  <2>3. holder' # "teardown" /\ "unmap" \notin failed' =>
          /\ \A r, s \in ranges' : r = s \/ r.last < s.start \/ s.last < r.start
          /\ \A r \in ranges', p \in BufferPages : Covers(r, p) => pt'[p] = r.child \/ Cleared(p)'
    BY <1>1, <1>7 DEF TableRight
  <2>4. holder' # "teardown" /\ buffer'.zero /\ failed' = {} =>
          \A p \in BufferPages : pt'[p] = "none" => Cleared(p)' \/ Zeroing(p)'
    BY <1>1, <1>7 DEF TableRight
  <2>5. \A p \in BufferPages : Cleared(p)' \/ Zeroing(p)' => pt'[p] = "none"
    BY <1>1, <1>7 DEF TableRight
  <2>6. buffer'.zero /\ op'["teardown"].at = "tear" => \A p \in BufferPages : pt'[p] = "none"
    BY <1>1, <2>1 DEF TableRight
  <2> QED
    BY <2>2, <2>3, <2>4, <2>5, <2>6 DEF TableRight, Covers
<1>10. ASSUME NEW v \in Workers  PROVE OpRight(v)' /\ BindRight(v)' /\ UnbindRight(v)'
  <2>1. CASE v = w
    <3>1. OpRight(v)'
      BY <1>2, <1>4, <2>1 DEF OpRight, Locked
    <3>2. op'[v].at \notin Walking /\ op'[v].at # "mapped"
      BY <1>2, <2>1 DEF Locked
    <3> QED
      BY <3>1, <3>2 DEF BindRight, UnbindRight
  <2>2. CASE v # w
    <3>1. op'[v] = op[v]
      BY <1>2, <2>2
    <3>2. OpRight(v)'
      BY <1>1, <3>1 DEF OpRight
    <3>3. BindRight(v)'
      BY <1>1, <3>1 DEF BindRight, B!Overlap, B!Window
    <3>4. UnbindRight(v)'
      BY <1>1, <3>1 DEF UnbindRight, B!Overlap
    <3> QED
      BY <3>2, <3>3, <3>4
  <2> QED
    BY <2>1, <2>2
<1>11. ASSUME NEW c \in Children  PROVE ChildRight(c)'
  <2>1. vbo'[c] \in Int /\ refs'[c] \in Int /\ IsFiniteSet(ranges') /\ ~Stray(c)' /\ ChildRight(c)
    BY <1>1, <1>3, <1>8 DEF BufferTyped
  <2>2. Share(o, c) \in Nat /\ Share(op[w], c) \in Nat
    BY <1>1, WorkerMoves
  <2>3. Cardinality(OfChild(ranges, c)) \in Nat /\ OfChild(ranges', c) = OfChild(ranges, c)
    BY <2>1, RangesCount
  <2>4. vbo'[c] - vbo[c] >= Cardinality(OfChild(ranges', c)) - Cardinality(OfChild(ranges, c))
                            + Share(o, c) - Share(op[w], c)
    <3>1. vbo'[c] - vbo[c] >= Share(o, c) - Share(op[w], c) /\ vbo[c] \in Int
      BY <1>1 DEF BufferTyped
    <3> QED
      BY <2>1, <2>2, <2>3, <3>1
  <2>5. refs'[c] - vbo'[c] = refs[c] - vbo[c] /\ user' = user
    OBVIOUS
  <2> QED
    BY <1>1, <2>1, <2>4, <2>5, ChildKeeps
<1> QED
  BY <1>5, <1>6, <1>9, <1>10, <1>11 DEF BufferInv

\* An operation that has the lock, takes it or lets it go
LEMMA LockedStep ==
    ASSUME BufferInv, NEW w \in Workers, NEW o \in OpType, op' = [op EXCEPT ![w] = o],
           op[w].at # "idle", o.at # "idle", OpFits(o),
           o.at \in Walking => o.left \subseteq ranges',
           holder \in {w, "none"}, holder' = (IF o.at \in Locked THEN w ELSE "none"),
           target' = target, user' = user, buffer' \in SceneType,
           pt' \in [BufferPages -> Mapped], ranges' \subseteq RangeType, IsFiniteSet(ranges'),
           \A r \in ranges' : r.start <= r.last,
           refs' \in [Children -> Int], vbo' \in [Children -> Int],
           \A c \in Children :
               /\ vbo'[c] - vbo[c]
                      >= Cardinality(OfChild(ranges', c)) - Cardinality(OfChild(ranges, c))
                         + Share(o, c) - Share(op[w], c)
               /\ refs'[c] - vbo'[c] = refs[c] - vbo[c],
           TableRight', BindRight(w)', UnbindRight(w)'
    PROVE  BufferInv'
<1>1. /\ BufferTyped /\ TargetRight
      /\ \A v \in Workers : OpRight(v)
      /\ \A c \in Children : ChildRight(c)
  BY DEF BufferInv
<1>2. op'[w] = o /\ \A v \in Workers \cup {"teardown"} : v # w => op'[v] = op[v]
  BY <1>1, WorkerMoves
<1>3. BufferTyped'
  <2>1. op' \in [Workers \cup {"teardown"} -> OpType]
    BY <1>1 DEF BufferTyped
  <2> QED
    BY <1>1, <2>1 DEF BufferTyped
<1>4. TargetRight'
  <2>1. /\ Cardinality(Active) \in Nat
        /\ Cardinality(Active') = Cardinality(Active) + (IF o.at # "idle" THEN 1 ELSE 0)
                                  - (IF op[w].at # "idle" THEN 1 ELSE 0)
    BY <1>1, WorkerMoves
  <2>2. Cardinality(Active') = Cardinality(Active)
    BY <2>1
  <2>3. Cardinality(Active)' = Cardinality(Active')
    BY DEF Active
  <2>4. op'["teardown"] = op["teardown"]
    BY <1>2, BufferNames
  <2>5. holder # "teardown" /\ holder' # "teardown"
    BY BufferNames
  <2> QED
    BY <1>1, <2>2, <2>4, <2>5 DEF TargetRight
<1>5. ASSUME NEW v \in Workers  PROVE OpRight(v)' /\ BindRight(v)' /\ UnbindRight(v)'
  <2>1. CASE v = w
    <3>1. op'[v] = o
      BY <1>2, <2>1
    <3>2. op'[v].at \in Locked <=> holder' = v
      BY <2>1, <3>1, BufferNames
    <3>3. OpRight(v)'
      BY <3>1, <3>2 DEF OpRight
    <3> QED
      BY <2>1, <3>3
  <2>2. CASE v # w
    <3>1. op'[v] = op[v] /\ holder # v /\ holder' # v
      BY <1>2, <2>2, BufferNames
    <3>2. op[v].at \notin Locked
      BY <1>1, <3>1 DEF OpRight
    <3>3. op'[v].at \notin Walking /\ op'[v].at # "mapped"
      BY <3>1, <3>2 DEF Locked
    <3>4. OpRight(v)'
      BY <1>1, <3>1, <3>2, <3>3 DEF OpRight
    <3> QED
      BY <3>3, <3>4 DEF BindRight, UnbindRight
  <2> QED
    BY <2>1, <2>2
<1>6. ASSUME NEW c \in Children  PROVE ChildRight(c)'
  <2>1. vbo'[c] \in Int /\ refs'[c] \in Int /\ ChildRight(c)
    BY <1>1
  <2>2. ~Stray(c)'
    <3>1. holder' # "teardown"
      BY BufferNames
    <3> QED
      BY <3>1 DEF TableRight
  <2>3. /\ vbo'[c] - vbo[c]
               >= Cardinality(OfChild(ranges', c)) - Cardinality(OfChild(ranges, c))
                  + Share(o, c) - Share(op[w], c)
        /\ refs'[c] - vbo'[c] = refs[c] - vbo[c]
    OBVIOUS
  <2> QED
    BY <1>1, <2>1, <2>2, <2>3, ChildKeeps
<1> QED
  BY <1>3, <1>4, <1>5, <1>6 DEF BufferInv

\* A child's reference and its count of bindings are taken and put together.
LEMMA GetsIt ==
    ASSUME BufferTyped, NEW c \in Children, B!Gets(c)
    PROVE  /\ refs' \in [Children -> Int] /\ vbo' \in [Children -> Int]
           /\ \A x \in Children : /\ refs'[x] - vbo'[x] = refs[x] - vbo[x]
                                  /\ vbo'[x] - vbo[x] = IF x = c THEN 1 ELSE 0
<1>1. refs' = [refs EXCEPT ![c] = @ + 1] /\ vbo' = [vbo EXCEPT ![c] = @ + 1]
  BY DEF B!Gets
<1>2. refs \in [Children -> Int] /\ vbo \in [Children -> Int]
  BY DEF BufferTyped
<1>3. ASSUME NEW x \in Children
      PROVE  /\ refs'[x] - vbo'[x] = refs[x] - vbo[x]
             /\ vbo'[x] - vbo[x] = IF x = c THEN 1 ELSE 0
  <2>1. CASE x = c
    BY <1>1, <1>2, <2>1
  <2>2. CASE x # c
    BY <1>1, <1>2, <2>2
  <2> QED
    BY <2>1, <2>2
<1> QED
  BY <1>1, <1>2, <1>3

LEMMA PutsIt ==
    ASSUME BufferTyped, NEW c \in Children, B!Puts(c)
    PROVE  /\ refs' \in [Children -> Int] /\ vbo' \in [Children -> Int]
           /\ \A x \in Children : /\ refs'[x] - vbo'[x] = refs[x] - vbo[x]
                                  /\ vbo'[x] - vbo[x] = IF x = c THEN -1 ELSE 0
<1>1. refs' = [refs EXCEPT ![c] = @ - 1] /\ vbo' = [vbo EXCEPT ![c] = @ - 1]
  BY DEF B!Puts
<1>2. refs \in [Children -> Int] /\ vbo \in [Children -> Int]
  BY DEF BufferTyped
<1>3. ASSUME NEW x \in Children
      PROVE  /\ refs'[x] - vbo'[x] = refs[x] - vbo[x]
             /\ vbo'[x] - vbo[x] = IF x = c THEN -1 ELSE 0
  <2>1. CASE x = c
    BY <1>1, <1>2, <2>1
  <2>2. CASE x # c
    BY <1>1, <1>2, <2>2
  <2> QED
    BY <2>1, <2>2
<1> QED
  BY <1>1, <1>2, <1>3

\* The user asks for a bind operation.
LEMMA CreateOpKeeps == ASSUME BufferInv, NEW w \in Workers, B!CreateOp(w)  PROVE BufferInv'
<1>1. PICK q \in [bind : BOOLEAN, start : BufferPages, last : BufferPages,
                  child : Children \cup {"any"}] :
        /\ q.start <= q.last
        /\ IF q.child = "any" THEN ~q.bind /\ UNCHANGED <<refs, vbo>>
           ELSE user[q.child] = "live" /\ B!Gets(q.child)
        /\ B!Becomes(w, [B!Idle EXCEPT !.at = "start", !.bind = q.bind, !.start = q.start,
                                       !.last = q.last, !.child = q.child])
  BY DEF B!CreateOp
<1>2. /\ op[w].at = "idle" /\ user["buffer"] = "live" /\ target' = target + 1
      /\ UNCHANGED <<buffer, failed, pt, ranges, user, holder>>
  BY DEF B!CreateOp, B!Buffer
<1>3. PICK i : i = B!Idle
  OBVIOUS
<1>4. PICK o : o = [i EXCEPT !.at = "start", !.bind = q.bind, !.start = q.start,
                             !.last = q.last, !.child = q.child]
  OBVIOUS
<1>5. op' = [op EXCEPT ![w] = o]
  BY <1>1, <1>3, <1>4 DEF B!Becomes
<1>6. /\ o \in OpType /\ o.at = "start" /\ o.child = q.child /\ (o.bind <=> q.bind)
      /\ o.start = q.start /\ o.last = q.last
  BY <1>3, <1>4, IdleIs DEF OpType
<1>7. OpFits(o)
  BY <1>1, <1>6, BufferNames DEF OpFits, Walking
<1>8. BufferTyped
  BY DEF BufferInv
<1>9. ASSUME NEW c \in Children
      PROVE  Share(o, c) = (IF q.child = c THEN 1 ELSE 0) /\ Share(op[w], c) = 0
  <2>1. OwnShare(o, c) = IF q.child = c THEN 1 ELSE 0
    BY <1>6 DEF OwnShare
  <2>2. MadeShare(o, c) = 0 /\ RemovedShare(o, c) = 0
    BY <1>6 DEF MadeShare, RemovedShare, Making
  <2>3. OwnShare(op[w], c) = 0 /\ MadeShare(op[w], c) = 0 /\ RemovedShare(op[w], c) = 0
    BY <1>2 DEF OwnShare, MadeShare, RemovedShare, Making
  <2> QED
    BY <2>1, <2>2, <2>3 DEF Share
<1>10. /\ refs' \in [Children -> Int] /\ vbo' \in [Children -> Int]
       /\ \A c \in Children : /\ vbo'[c] - vbo[c] >= Share(o, c) - Share(op[w], c)
                              /\ refs'[c] - vbo'[c] = refs[c] - vbo[c]
  <2>1. CASE q.child = "any"
    <3>1. UNCHANGED <<refs, vbo>>
      BY <1>1, <2>1
    <3>2. \A c \in Children : q.child # c
      BY <2>1, BufferNames
    <3> QED
      BY <1>8, <1>9, <3>1, <3>2 DEF BufferTyped
  <2>2. CASE q.child # "any"
    <3>1. q.child \in Children /\ B!Gets(q.child)
      BY <1>1, <2>2
    <3>2. /\ refs' \in [Children -> Int] /\ vbo' \in [Children -> Int]
          /\ \A x \in Children : /\ refs'[x] - vbo'[x] = refs[x] - vbo[x]
                                 /\ vbo'[x] - vbo[x] = IF x = q.child THEN 1 ELSE 0
      BY <1>8, <3>1, GetsIt
    <3>3. \A c \in Children : vbo'[c] - vbo[c] >= Share(o, c) - Share(op[w], c)
      BY <1>9, <3>2
    <3> QED
      BY <3>2, <3>3
  <2> QED
    BY <2>1, <2>2
<1>11. op[w].at \notin Locked /\ o.at \notin Locked
  BY <1>2, <1>6 DEF Locked, Walking
<1>12. target' = target + (IF o.at # "idle" THEN 1 ELSE 0) - (IF op[w].at # "idle" THEN 1 ELSE 0)
  BY <1>2, <1>6, <1>8 DEF BufferTyped
<1> QED
  BY <1>2, <1>5, <1>6, <1>7, <1>10, <1>11, <1>12, OutsideStep

\* A worker that has not the lock yet looks at its child or skips it.
LEMMA WaitsOn ==
    ASSUME BufferInv, NEW w \in Workers, NEW o, NEW a \in {"done", "makes"},
           o = [op[w] EXCEPT !.at = a], B!Becomes(w, o),
           op[w].at = "start", op[w].bind,
           UNCHANGED <<buffer, failed, pt, ranges, refs, vbo, user, target, holder>>
    PROVE  BufferInv'
<1>1. BufferTyped /\ op[w] \in OpType /\ OpFits(op[w])
  BY DEF BufferInv, BufferTyped, OpRight
<1>2. op' = [op EXCEPT ![w] = o] /\ o \in OpType /\ o.at = a /\ o.bind /\ o.child = op[w].child
  BY <1>1 DEF B!Becomes, OpType
<1>3. OpFits(o)
  BY <1>1 DEF OpFits, Walking, OpType
<1>4. op[w].at \notin Locked /\ o.at \notin Locked /\ op[w].at # "idle" /\ o.at # "idle"
  BY <1>2 DEF Locked, Walking
<1>5. ASSUME NEW c \in Children  PROVE Share(o, c) = Share(op[w], c) /\ Share(o, c) \in Nat
  <2>1. OwnShare(o, c) = OwnShare(op[w], c) /\ OwnShare(o, c) \in Nat
    BY <1>2, <1>4 DEF OwnShare
  <2>2. /\ MadeShare(o, c) = 0 /\ RemovedShare(o, c) = 0
        /\ MadeShare(op[w], c) = 0 /\ RemovedShare(op[w], c) = 0
    BY <1>2 DEF MadeShare, RemovedShare, Making
  <2> QED
    BY <2>1, <2>2 DEF Share
<1>6. target' = target + (IF o.at # "idle" THEN 1 ELSE 0) - (IF op[w].at # "idle" THEN 1 ELSE 0)
  BY <1>1, <1>4 DEF BufferTyped
<1>7. refs' \in [Children -> Int] /\ vbo' \in [Children -> Int]
  BY <1>1 DEF BufferTyped
<1>8. \A c \in Children : /\ vbo'[c] - vbo[c] >= Share(o, c) - Share(op[w], c)
                          /\ refs'[c] - vbo'[c] = refs[c] - vbo[c]
  <2>1. \A c \in Children : vbo[c] \in Int /\ refs[c] \in Int
    BY <1>1 DEF BufferTyped
  <2> QED
    BY <1>5, <2>1
<1> QED
  BY <1>2, <1>3, <1>4, <1>6, <1>7, <1>8, OutsideStep

LEMMA SkipsBindKeeps == ASSUME BufferInv, NEW w \in Workers, B!SkipsBind(w)  PROVE BufferInv'
<1>1. B!Becomes(w, [op[w] EXCEPT !.at = "done"])
  BY DEF B!SkipsBind, B!Goes
<1> QED
  BY <1>1, WaitsOn DEF B!SkipsBind

LEMMA LooksAtChildKeeps == ASSUME BufferInv, NEW w \in Workers, B!LooksAtChild(w)  PROVE BufferInv'
<1>1. B!Becomes(w, [op[w] EXCEPT !.at = "makes"])
  BY DEF B!LooksAtChild, B!Goes
<1> QED
  BY <1>1, WaitsOn DEF B!LooksAtChild

\* The new range holds the child before the lock is taken.
LEMMA MakesRangeKeeps == ASSUME BufferInv, NEW w \in Workers, B!MakesRange(w)  PROVE BufferInv'
<1>1. /\ op[w].at = "makes" /\ B!Gets(op[w].child)
      /\ UNCHANGED <<buffer, failed, pt, ranges, user, target, holder>>
  BY DEF B!MakesRange
<1>2. BufferTyped /\ op[w] \in OpType /\ OpFits(op[w])
  BY DEF BufferInv, BufferTyped, OpRight
<1>3. op[w].bind /\ op[w].child \in Children
  <2>1. op[w].bind
    BY <1>1, <1>2 DEF OpFits
  <2>2. op[w].at # "idle"
    BY <1>1
  <2> QED
    BY <1>2, <2>1, <2>2 DEF OpFits
<1>4. PICK o : o = [op[w] EXCEPT !.at = "locks"]
  OBVIOUS
<1>5. /\ op' = [op EXCEPT ![w] = o] /\ o \in OpType /\ o.at = "locks" /\ o.bind
      /\ o.child = op[w].child
  BY <1>2, <1>3, <1>4 DEF B!MakesRange, B!Goes, B!Becomes, OpType
<1>6. OpFits(o)
  BY <1>1, <1>2, <1>3, <1>4 DEF OpFits, Walking, OpType
<1>7. op[w].at \notin Locked /\ o.at \notin Locked /\ op[w].at # "idle" /\ o.at # "idle"
  BY <1>1, <1>5 DEF Locked, Walking
<1>8. ASSUME NEW c \in Children
      PROVE  /\ Share(o, c) = Share(op[w], c) + (IF c = op[w].child THEN 1 ELSE 0)
             /\ Share(op[w], c) \in Nat
  <2>1. OwnShare(o, c) = OwnShare(op[w], c) /\ OwnShare(op[w], c) \in Nat
    BY <1>5, <1>7 DEF OwnShare
  <2>2. /\ MadeShare(o, c) = (IF c = op[w].child THEN 1 ELSE 0) /\ RemovedShare(o, c) = 0
        /\ MadeShare(op[w], c) = 0 /\ RemovedShare(op[w], c) = 0
    BY <1>1, <1>5 DEF MadeShare, RemovedShare, Making
  <2> QED
    BY <2>1, <2>2 DEF Share
<1>9. target' = target + (IF o.at # "idle" THEN 1 ELSE 0) - (IF op[w].at # "idle" THEN 1 ELSE 0)
  BY <1>1, <1>2, <1>7 DEF BufferTyped
<1>10. /\ refs' \in [Children -> Int] /\ vbo' \in [Children -> Int]
       /\ \A x \in Children : /\ refs'[x] - vbo'[x] = refs[x] - vbo[x]
                              /\ vbo'[x] - vbo[x] = IF x = op[w].child THEN 1 ELSE 0
  BY <1>1, <1>2, <1>3, GetsIt
<1>11. \A c \in Children : vbo'[c] - vbo[c] >= Share(o, c) - Share(op[w], c)
  BY <1>8, <1>10
<1> QED
  BY <1>1, <1>5, <1>6, <1>7, <1>9, <1>10, <1>11, OutsideStep

\* An operation ends.
LEMMA FreeOpKeeps == ASSUME BufferInv, NEW w \in Workers, B!FreeOp(w)  PROVE BufferInv'
<1>1. /\ op[w].at = "done" /\ target' = target - 1 /\ op' = [op EXCEPT ![w] = B!Idle]
      /\ IF op[w].child = "any" THEN UNCHANGED <<refs, vbo>> ELSE B!Puts(op[w].child)
      /\ UNCHANGED <<buffer, failed, pt, ranges, user, holder>>
  BY DEF B!FreeOp, B!Becomes
<1>2. BufferTyped /\ op[w] \in OpType
  BY DEF BufferInv, BufferTyped
<1>3. PICK o : o = B!Idle
  OBVIOUS
<1>4. o \in OpType /\ o.at = "idle" /\ OpFits(o) /\ \A c \in Children : Share(o, c) = 0
  BY <1>3, IdleIs
<1>5. \A c \in Children : Share(op[w], c) = IF c = op[w].child THEN 1 ELSE 0
  <2> SUFFICES ASSUME NEW c \in Children
               PROVE  Share(op[w], c) = IF c = op[w].child THEN 1 ELSE 0
    OBVIOUS
  <2>1. /\ OwnShare(op[w], c) = (IF c = op[w].child THEN 1 ELSE 0)
        /\ MadeShare(op[w], c) = 0 /\ RemovedShare(op[w], c) = 0
    BY <1>1 DEF OwnShare, MadeShare, RemovedShare, Making
  <2> QED
    BY <2>1 DEF Share
<1>6. op[w].at \notin Locked /\ o.at \notin Locked /\ op[w].at # "idle"
  BY <1>1, <1>4 DEF Locked, Walking
<1>7. target' = target + (IF o.at # "idle" THEN 1 ELSE 0) - (IF op[w].at # "idle" THEN 1 ELSE 0)
  BY <1>1, <1>2, <1>4 DEF BufferTyped
<1>8. /\ refs' \in [Children -> Int] /\ vbo' \in [Children -> Int]
      /\ \A c \in Children : /\ vbo'[c] - vbo[c] >= Share(o, c) - Share(op[w], c)
                             /\ refs'[c] - vbo'[c] = refs[c] - vbo[c]
  <2>1. CASE op[w].child = "any"
    <3>1. UNCHANGED <<refs, vbo>>
      BY <1>1, <2>1
    <3>2. \A c \in Children : op[w].child # c
      BY <2>1, BufferNames
    <3> QED
      BY <1>2, <1>4, <1>5, <3>1, <3>2 DEF BufferTyped
  <2>2. CASE op[w].child # "any"
    <3>1. op[w].child \in Children /\ B!Puts(op[w].child)
      BY <1>1, <1>2, <2>2 DEF OpType
    <3>2. /\ refs' \in [Children -> Int] /\ vbo' \in [Children -> Int]
          /\ \A x \in Children : /\ refs'[x] - vbo'[x] = refs[x] - vbo[x]
                                 /\ vbo'[x] - vbo[x] = IF x = op[w].child THEN -1 ELSE 0
      BY <1>2, <3>1, PutsIt
    <3>3. \A c \in Children : vbo'[c] - vbo[c] >= Share(o, c) - Share(op[w], c)
      BY <1>4, <1>5, <3>2
    <3> QED
      BY <3>2, <3>3
  <2> QED
    BY <2>1, <2>2
<1>9. op' = [op EXCEPT ![w] = o]
  BY <1>1, <1>3
<1> QED
  BY <1>1, <1>4, <1>6, <1>7, <1>8, <1>9, OutsideStep

\* The user frees: nothing else moves.
LEMMA UserStep ==
    ASSUME BufferInv, UNCHANGED <<buffer, failed, pt, ranges, vbo, holder, op>>,
           user' \in [Children \cup {"buffer"} -> {"live", "pending", "put"}],
           refs' \in [Children -> Int], TargetRight', target' \in Int,
           \A c \in Children : refs'[c] - (IF user'[c] # "put" THEN 1 ELSE 0)
                                   >= refs[c] - (IF user[c] # "put" THEN 1 ELSE 0)
    PROVE  BufferInv'
<1>1. /\ BufferTyped /\ TableRight
      /\ \A v \in Workers : OpRight(v) /\ BindRight(v) /\ UnbindRight(v)
      /\ \A c \in Children : ChildRight(c)
  BY DEF BufferInv
<1>2. BufferTyped'
  BY <1>1 DEF BufferTyped
<1>3. TableRight'
  BY <1>1 DEF TableRight, Cleared, Zeroing, Stray, Covers, B!Window
<1>4. \A v \in Workers : OpRight(v)' /\ BindRight(v)' /\ UnbindRight(v)'
  BY <1>1 DEF OpRight, BindRight, UnbindRight, B!Overlap, B!Window
<1>5. ASSUME NEW c \in Children  PROVE ChildRight(c)'
  <2>1. Held(c)' = Held(c) /\ (Stray(c)' <=> Stray(c)) /\ OfChild(ranges, c)' = OfChild(ranges, c)
    <3>1. Owned(c)' = Owned(c) /\ Made(c)' = Made(c) /\ Removed(c)' = Removed(c)
      BY DEF Owned, Made, Removed
    <3> QED
      BY <3>1 DEF Held, Stray, Covers, OfChild
  <2>2. vbo[c] >= Cardinality(OfChild(ranges, c)) + Held(c) + (IF Stray(c) THEN 1 ELSE 0)
    BY <1>1 DEF ChildRight
  <2>3. refs[c] >= vbo[c] + (IF user[c] # "put" THEN 1 ELSE 0)
    BY <1>1 DEF ChildRight
  <2>4. vbo'[c] >= Cardinality(OfChild(ranges, c)') + Held(c)' + (IF Stray(c)' THEN 1 ELSE 0)
    BY <2>1, <2>2
  <2>5. refs'[c] >= vbo'[c] + (IF user'[c] # "put" THEN 1 ELSE 0)
    <3>1. refs[c] \in Int /\ vbo[c] \in Int /\ refs'[c] \in Int
      BY <1>1 DEF BufferTyped
    <3>2. refs'[c] - (IF user'[c] # "put" THEN 1 ELSE 0)
              >= refs[c] - (IF user[c] # "put" THEN 1 ELSE 0)
      OBVIOUS
    <3> QED
      BY <2>3, <3>1, <3>2
  <2> QED
    BY <2>4, <2>5 DEF ChildRight
<1> QED
  BY <1>2, <1>3, <1>4, <1>5 DEF BufferInv

LEMMA FreesKeeps ==
    ASSUME BufferInv, NEW x \in Children \cup {"buffer"}, B!Free(x)  PROVE BufferInv'
<1>1. /\ user[x] = "live"
      /\ user' = [user EXCEPT ![x] = IF x = "buffer" THEN "put" ELSE "pending"]
      /\ target' = (IF x = "buffer" THEN target - 1 ELSE target)
      /\ UNCHANGED <<buffer, failed, pt, ranges, refs, vbo, holder, op>>
  BY DEF B!Free, B!Buffer
<1>2. BufferTyped /\ TargetRight
  BY DEF BufferInv
<1>3. user' \in [Children \cup {"buffer"} -> {"live", "pending", "put"}]
  BY <1>1, <1>2 DEF BufferTyped
<1>4. Cardinality(Active) \in Nat /\ Active' = Active
  <2>1. Active \in SUBSET Workers
    BY DEF Active
  <2>2. IsFiniteSet(Active)
    BY <2>1, BufferNames, FS_Subset
  <2> QED
    BY <1>1, <2>2, FS_CardinalityType DEF Active
<1>5. TargetRight' /\ target' \in Int
  <2>1. target \in Int
    BY <1>2 DEF BufferTyped
  <2>2. target = Cardinality(Active) + (IF user["buffer"] = "live" THEN 1 ELSE 0)
    BY <1>2 DEF TargetRight
  <2>3. CASE x = "buffer"
    <3>1. user'["buffer"] = "put" /\ target = Cardinality(Active) + 1 /\ target' = target - 1
      BY <1>1, <1>2, <2>2, <2>3 DEF BufferTyped
    <3>2. holder # "teardown"
      BY <1>1, <2>3, NotTorn
    <3>3. target' = Cardinality(Active) /\ target' \in Int
      BY <1>4, <2>1, <3>1
    <3> QED
      BY <1>1, <1>2, <1>4, <3>1, <3>2, <3>3 DEF TargetRight
  <2>4. CASE x # "buffer"
    <3>1. user'["buffer"] = user["buffer"] /\ target' = target
      BY <1>1, <1>2, <2>4 DEF BufferTyped
    <3> QED
      BY <1>1, <1>2, <1>4, <2>1, <3>1 DEF TargetRight
  <2> QED
    BY <2>3, <2>4
<1>6. ASSUME NEW c \in Children
      PROVE  refs'[c] - (IF user'[c] # "put" THEN 1 ELSE 0)
                 >= refs[c] - (IF user[c] # "put" THEN 1 ELSE 0)
  <2>1. user'[c] # "put" <=> user[c] # "put"
    BY <1>1, <1>2, BufferNames DEF BufferTyped
  <2>2. refs'[c] = refs[c] /\ refs[c] \in Int
    BY <1>1, <1>2 DEF BufferTyped
  <2> QED
    BY <2>1, <2>2
<1>7. refs' \in [Children -> Int]
  BY <1>1, <1>2 DEF BufferTyped
<1> QED
  BY <1>1, <1>3, <1>5, <1>6, <1>7, UserStep

LEMMA PutsUserKeeps == ASSUME BufferInv, NEW c \in Children, B!PutsUser(c)  PROVE BufferInv'
<1>1. /\ user[c] = "pending" /\ user' = [user EXCEPT ![c] = "put"]
      /\ refs' = [refs EXCEPT ![c] = @ - 1]
      /\ UNCHANGED <<buffer, failed, pt, ranges, vbo, target, holder, op>>
  BY DEF B!PutsUser
<1>2. BufferTyped /\ TargetRight
  BY DEF BufferInv
<1>3. /\ user' \in [Children \cup {"buffer"} -> {"live", "pending", "put"}]
      /\ refs' \in [Children -> Int] /\ target' \in Int
  BY <1>1, <1>2 DEF BufferTyped
<1>4. user'["buffer"] = user["buffer"]
  BY <1>1, <1>2, BufferNames DEF BufferTyped
<1>5. TargetRight'
  BY <1>1, <1>2, <1>4 DEF TargetRight, Active
<1>6. ASSUME NEW x \in Children
      PROVE  refs'[x] - (IF user'[x] # "put" THEN 1 ELSE 0)
                 >= refs[x] - (IF user[x] # "put" THEN 1 ELSE 0)
  <2>1. refs[x] \in Int
    BY <1>2 DEF BufferTyped
  <2>2. CASE x = c
    <3>1. user[x] # "put" /\ user'[x] = "put" /\ refs'[x] = refs[x] - 1
      BY <1>1, <1>2, <2>2 DEF BufferTyped
    <3> QED
      BY <2>1, <3>1
  <2>3. CASE x # c
    <3>1. user'[x] = user[x] /\ refs'[x] = refs[x]
      BY <1>1, <1>2, <2>3 DEF BufferTyped
    <3> QED
      BY <2>1, <3>1
  <2> QED
    BY <2>2, <2>3
<1> QED
  BY <1>1, <1>3, <1>5, <1>6, UserStep

\* While a worker has the lock, whatever it unmaps or maps: what is cleared
LEMMA WhatIsCleared ==
    ASSUME NEW w \in Workers, NEW o, op'[w] = o, holder' = w
    PROVE  \A p : /\ Cleared(p)' <=> /\ o.bind /\ o.at \in Walking /\ buffer'.zero
                                     /\ p \in o.start .. o.last
                  /\ Zeroing(p)' <=> o.at = "zeros" /\ p \in o.put.start .. o.put.last
  BY DEF Cleared, Zeroing, Covers, B!Window

\* The worker that has the lock, and what the invariant says of it
LEMMA TheHolder ==
    ASSUME BufferInv, NEW w \in Workers, op[w].at \in Locked
    PROVE  /\ BufferTyped /\ op[w] \in OpType /\ OpFits(op[w]) /\ holder = w
           /\ op[w].at # "idle" /\ holder # "teardown" /\ op["teardown"].at = "idle"
           /\ op[w].start \in BufferPages /\ op[w].last \in BufferPages
           /\ op[w].start <= op[w].last /\ (op[w].bind => op[w].child \in Children)
           /\ TableRight /\ BindRight(w) /\ UnbindRight(w)
           /\ op[w].at \in Walking => op[w].left \subseteq ranges
           /\ \A p : /\ Cleared(p) <=> /\ op[w].bind /\ op[w].at \in Walking /\ buffer.zero
                                       /\ p \in op[w].start .. op[w].last
                     /\ Zeroing(p) <=> op[w].at = "zeros" /\ p \in op[w].put.start .. op[w].put.last
<1>1. /\ BufferTyped /\ op[w] \in OpType /\ OpFits(op[w]) /\ holder = w
      /\ TableRight /\ BindRight(w) /\ UnbindRight(w) /\ TargetRight
      /\ op[w].at \in Walking => op[w].left \subseteq ranges
  BY DEF BufferInv, BufferTyped, OpRight
<1>2. op[w].at # "idle"
  BY DEF Locked, Walking
<1>3. holder # "teardown" /\ op["teardown"].at = "idle"
  BY <1>1, BufferNames DEF TargetRight
<1>4. /\ op[w].start \in BufferPages /\ op[w].last \in BufferPages /\ op[w].start <= op[w].last
      /\ op[w].bind => op[w].child \in Children
  BY <1>1, <1>2 DEF OpFits
<1>5. \A p : /\ Cleared(p) <=> /\ op[w].bind /\ op[w].at \in Walking /\ buffer.zero
                               /\ p \in op[w].start .. op[w].last
             /\ Zeroing(p) <=> op[w].at = "zeros" /\ p \in op[w].put.start .. op[w].put.last
  BY <1>1 DEF Cleared, Zeroing, Covers, B!Window
<1> QED
  BY <1>1, <1>2, <1>3, <1>4, <1>5

\* An operation is over with the lock.
LEMMA EndsStep ==
    ASSUME BufferInv, NEW w \in Workers,
           op[w].at \in {"mapped", "error"} \/ (op[w].at = "walk" /\ ~op[w].bind),
           B!Unlocks(w), UNCHANGED <<buffer, failed, pt, ranges, user, target>>,
           refs' \in [Children -> Int], vbo' \in [Children -> Int],
           \A c \in Children :
               /\ refs'[c] - vbo'[c] = refs[c] - vbo[c]
               /\ vbo'[c] - vbo[c]
                      = IF op[w].at = "error" /\ c = op[w].child THEN -1 ELSE 0
    PROVE  BufferInv'
<1>1. op[w].at \in Locked
  BY DEF Locked, Walking
<1>2. /\ BufferTyped /\ op[w] \in OpType /\ OpFits(op[w]) /\ holder = w
      /\ op[w].at # "idle" /\ holder # "teardown" /\ op["teardown"].at = "idle" /\ TableRight
      /\ \A p : /\ Cleared(p) <=> /\ op[w].bind /\ op[w].at \in Walking /\ buffer.zero
                                  /\ p \in op[w].start .. op[w].last
                /\ Zeroing(p) <=> op[w].at = "zeros" /\ p \in op[w].put.start .. op[w].put.last
  BY <1>1, TheHolder
<1>3. PICK o : o = [op[w] EXCEPT !.at = "done"]
  OBVIOUS
<1>4. /\ op' = [op EXCEPT ![w] = o] /\ holder' = "none" /\ o \in OpType /\ o.at = "done"
      /\ o.child = op[w].child
  BY <1>2, <1>3 DEF B!Unlocks, B!Goes, B!Becomes, OpType
<1>5. OpFits(o)
  BY <1>1, <1>2, <1>3 DEF OpFits, Walking, OpType
<1>6. op'[w] = o /\ op'["teardown"] = op["teardown"]
  BY <1>2, <1>4, WorkerMoves, BufferNames
<1>7. \A p : ~Cleared(p) /\ ~Zeroing(p) /\ ~Cleared(p)' /\ ~Zeroing(p)'
  <2>1. \A p : ~Cleared(p) /\ ~Zeroing(p)
    BY <1>2 DEF Walking
  <2> QED
    BY <1>4, <2>1, BufferNames DEF Cleared, Zeroing
<1>8. TableRight'
  <2>1. \A c \in Children : ~Stray(c)'
    BY <1>2 DEF TableRight, Stray, Covers
  <2> QED
    BY <1>2, <1>6, <1>7, <2>1 DEF TableRight, Covers
<1>9. BindRight(w)' /\ UnbindRight(w)'
  BY <1>4, <1>6 DEF BindRight, UnbindRight, Walking
<1>10. ASSUME NEW c \in Children
       PROVE  /\ vbo'[c] - vbo[c]
                     >= Cardinality(OfChild(ranges', c)) - Cardinality(OfChild(ranges, c))
                        + Share(o, c) - Share(op[w], c)
              /\ refs'[c] - vbo'[c] = refs[c] - vbo[c]
  <2>1. OwnShare(o, c) = OwnShare(op[w], c) /\ OwnShare(o, c) \in Nat
    BY <1>2, <1>4 DEF OwnShare
  <2>2. MadeShare(o, c) = 0 /\ RemovedShare(o, c) = 0 /\ RemovedShare(op[w], c) = 0
    BY <1>4 DEF MadeShare, RemovedShare, Making
  <2>3. MadeShare(op[w], c) = IF op[w].at = "error" /\ c = op[w].child THEN 1 ELSE 0
    BY <1>2 DEF MadeShare, Making, OpFits
  <2>4. Share(op[w], c) = Share(o, c) + MadeShare(op[w], c) /\ Share(o, c) \in Nat
    BY <2>1, <2>2, <2>3 DEF Share
  <2>5. IsFiniteSet(ranges) /\ ranges' = ranges
    BY <1>2 DEF BufferTyped
  <2>6. Cardinality(OfChild(ranges, c)) \in Nat
    BY <2>5, RangesCount
  <2>7. vbo'[c] - vbo[c] = -MadeShare(op[w], c) /\ MadeShare(op[w], c) \in Nat
    BY <2>3
  <2>8. vbo'[c] - vbo[c]
            >= Cardinality(OfChild(ranges', c)) - Cardinality(OfChild(ranges, c))
               + Share(o, c) - Share(op[w], c)
    BY <2>4, <2>5, <2>6, <2>7
  <2> QED
    BY <2>8
<1>11. holder \in {w, "none"} /\ holder' = (IF o.at \in Locked THEN w ELSE "none")
       /\ (o.at \in Walking => o.left \subseteq ranges') /\ o.at # "idle"
  BY <1>2, <1>4 DEF Locked, Walking
<1>12. /\ pt' \in [BufferPages -> Mapped] /\ ranges' \subseteq RangeType /\ IsFiniteSet(ranges')
       /\ \A r \in ranges' : r.start <= r.last
  BY <1>2 DEF BufferTyped
<1>13. target' = target /\ user' = user /\ buffer' \in SceneType
  BY <1>2 DEF BufferTyped
<1> QED
  BY <1>2, <1>4, <1>5, <1>8, <1>9, <1>10, <1>11, <1>12, <1>13, LockedStep

LEMMA AddEndsKeeps == ASSUME BufferInv, NEW w \in Workers, B!AddEnds(w)  PROVE BufferInv'
<1>1. /\ op[w].at = "mapped" /\ B!Unlocks(w)
      /\ UNCHANGED <<buffer, failed, pt, ranges, refs, vbo, user, target>>
  BY DEF B!AddEnds
<1>2. \A c \in Children : refs[c] \in Int /\ vbo[c] \in Int
  BY DEF BufferInv, BufferTyped
<1>3. refs' \in [Children -> Int] /\ vbo' \in [Children -> Int]
  BY <1>1 DEF BufferInv, BufferTyped
<1> QED
  BY <1>1, <1>2, <1>3, EndsStep

LEMMA RemoveEndsKeeps == ASSUME BufferInv, NEW w \in Workers, B!RemoveEnds(w)  PROVE BufferInv'
<1>1. /\ op[w].at = "walk" /\ ~op[w].bind /\ B!Unlocks(w)
      /\ UNCHANGED <<buffer, failed, pt, ranges, refs, vbo, user, target>>
  BY DEF B!RemoveEnds
<1>2. \A c \in Children : refs[c] \in Int /\ vbo[c] \in Int
  BY DEF BufferInv, BufferTyped
<1>3. refs' \in [Children -> Int] /\ vbo' \in [Children -> Int]
  BY <1>1 DEF BufferInv, BufferTyped
<1> QED
  BY <1>1, <1>2, <1>3, EndsStep

LEMMA AddErrsKeeps == ASSUME BufferInv, NEW w \in Workers, B!AddErrs(w)  PROVE BufferInv'
<1>1. /\ op[w].at = "error" /\ B!Puts(op[w].child) /\ B!Unlocks(w)
      /\ UNCHANGED <<buffer, failed, pt, ranges, user, target>>
  BY DEF B!AddErrs
<1>2. BufferTyped /\ op[w].child \in Children
  <2>1. op[w].at \in Locked
    BY <1>1 DEF Locked
  <2>2. BufferTyped /\ OpFits(op[w]) /\ (op[w].bind => op[w].child \in Children)
    BY <2>1, TheHolder
  <2>3. op[w].bind
    BY <1>1, <2>2 DEF OpFits
  <2> QED
    BY <2>2, <2>3
<1>3. /\ refs' \in [Children -> Int] /\ vbo' \in [Children -> Int]
      /\ \A x \in Children : /\ refs'[x] - vbo'[x] = refs[x] - vbo[x]
                             /\ vbo'[x] - vbo[x] = IF x = op[w].child THEN -1 ELSE 0
  BY <1>1, <1>2, PutsIt
<1> QED
  BY <1>1, <1>3, EndsStep

\* Between two pages are pages.
LEMMA Between ==
    /\ BufferPages \subseteq Nat
    /\ \A a, b \in BufferPages, p \in Int : a <= p /\ p <= b => p \in BufferPages
    /\ \A a, b \in BufferPages : a .. b \subseteq BufferPages
<1>1. PICK n \in Nat \ {0} : BufferPages = 1 .. n
  BY BufferPagesAre
<1> QED
  BY <1>1

\* Pages are unmapped, or an unmap fails on its way.
LEMMA UnmapsThem ==
    ASSUME BufferTyped, NEW ps, B!Unmaps(ps)
    PROVE  /\ pt' \in [BufferPages -> Mapped] /\ UNCHANGED <<buffer, failed>>
           /\ \A p \in BufferPages : pt'[p] = IF p \in ps THEN "none" ELSE pt[p]
<1>1. /\ pt' = [p \in BufferPages |-> IF p \in ps THEN "none" ELSE pt[p]]
      /\ UNCHANGED <<buffer, failed>>
  BY DEF B!Unmaps, B!Maps
<1>2. pt \in [BufferPages -> Mapped]
  BY DEF BufferTyped
<1> QED
  BY <1>1, <1>2 DEF Mapped

LEMMA UnmapGoesWrong ==
    ASSUME BufferTyped, NEW ps, B!UnmapFails(ps)
    PROVE  /\ pt' \in [BufferPages -> Mapped] /\ "unmap" \in failed'
           /\ buffer' \in SceneType /\ buffer'.zero = buffer.zero
           /\ \A p \in BufferPages : \/ pt'[p] = pt[p]
                                     \/ p \in ps /\ pt'[p] = "none"
<1>1. /\ \E n \in ps : B!Maps({q \in ps : q < n}, "none")
      /\ buffer' = [buffer EXCEPT !.fails = @ \ {"unmap"}]
      /\ failed' = failed \cup {"unmap"}
  BY DEF B!UnmapFails
<1>2. PICK n \in ps : pt' = [p \in BufferPages |-> IF p \in {q \in ps : q < n} THEN "none" ELSE pt[p]]
  BY <1>1 DEF B!Maps
<1>3. pt \in [BufferPages -> Mapped] /\ buffer \in SceneType
  BY DEF BufferTyped
<1>4. buffer' \in SceneType /\ buffer'.zero = buffer.zero
  BY <1>1, <1>3 DEF SceneType
<1> QED
  BY <1>1, <1>2, <1>3, <1>4 DEF Mapped

\* A worker takes the lock, or goes on with its walk: whether its counts stay.
LEMMA SharesStay ==
    ASSUME BufferTyped, NEW w \in Workers, NEW o, o.child = op[w].child,
           op[w].at # "idle", o.at # "idle",
           op[w].bind /\ op[w].at \in Making <=> o.bind /\ o.at \in Making,
           op[w].at \notin {"puts", "zeros"}, o.at \notin {"puts", "zeros"},
           UNCHANGED <<refs, vbo>>, ranges' = ranges
    PROVE  /\ refs' \in [Children -> Int] /\ vbo' \in [Children -> Int]
           /\ \A c \in Children :
               /\ vbo'[c] - vbo[c]
                      >= Cardinality(OfChild(ranges', c)) - Cardinality(OfChild(ranges, c))
                         + Share(o, c) - Share(op[w], c)
               /\ refs'[c] - vbo'[c] = refs[c] - vbo[c]
<1>1. refs \in [Children -> Int] /\ vbo \in [Children -> Int] /\ IsFiniteSet(ranges)
  BY DEF BufferTyped
<1>2. ASSUME NEW c \in Children
      PROVE  /\ vbo'[c] - vbo[c]
                    >= Cardinality(OfChild(ranges', c)) - Cardinality(OfChild(ranges, c))
                       + Share(o, c) - Share(op[w], c)
             /\ refs'[c] - vbo'[c] = refs[c] - vbo[c]
  <2>1. /\ OwnShare(o, c) = OwnShare(op[w], c) /\ OwnShare(o, c) \in Nat
        /\ MadeShare(o, c) = MadeShare(op[w], c) /\ MadeShare(o, c) \in Nat
        /\ RemovedShare(o, c) = 0 /\ RemovedShare(op[w], c) = 0
    BY DEF OwnShare, MadeShare, RemovedShare
  <2>2. Share(o, c) = Share(op[w], c) /\ Share(o, c) \in Nat
    BY <2>1 DEF Share
  <2>3. Cardinality(OfChild(ranges, c)) \in Nat /\ ranges' = ranges
    BY <1>1, RangesCount
  <2>4. vbo'[c] = vbo[c] /\ refs'[c] = refs[c] /\ vbo[c] \in Int /\ refs[c] \in Int
    BY <1>1
  <2> QED
    BY <2>2, <2>3, <2>4
<1> QED
  BY <1>1, <1>2

\* A worker takes ranges_lock for a bind: with zero pages it unmaps its window.
LEMMA AddLocksKeeps == ASSUME BufferInv, NEW w \in Workers, B!AddLocks(w)  PROVE BufferInv'
<1>1. /\ op[w].at = "locks" /\ holder = "none" /\ holder' = w
      /\ UNCHANGED <<ranges, refs, vbo, user, target>>
  BY DEF B!AddLocks
<1>2. BufferTyped /\ TableRight /\ TargetRight /\ op[w] \in OpType /\ OpFits(op[w])
  BY DEF BufferInv, BufferTyped, OpRight
<1>3. /\ op[w].bind /\ op[w].start \in BufferPages /\ op[w].last \in BufferPages
      /\ op[w].start <= op[w].last /\ op[w].child \in Children
  <2>1. op[w].bind /\ op[w].at # "idle"
    BY <1>1, <1>2 DEF OpFits
  <2> QED
    BY <1>2, <2>1 DEF OpFits
<1>4. /\ \A p : ~Cleared(p) /\ ~Zeroing(p)
      /\ holder # "teardown" /\ op["teardown"].at = "idle"
  BY <1>1, <1>2, BufferNames DEF Cleared, Zeroing, TargetRight
<1>5. PICK t : t = [op[w] EXCEPT !.at = "walk", !.left = B!Touched(op[w]), !.before = pt]
  OBVIOUS
<1>6. t = B!Walks(w)
  BY <1>5 DEF B!Walks
<1>7. /\ t \in OpType /\ t.at = "walk" /\ t.bind /\ t.child = op[w].child
      /\ t.start = op[w].start /\ t.last = op[w].last /\ t.before = pt
      /\ t.left = B!Touched(op[w]) /\ t.left \subseteq ranges
  <2>1. B!Touched(op[w]) \subseteq ranges /\ ranges \subseteq RangeType
    BY <1>2 DEF B!Touched, BufferTyped
  <2>2. pt \in [BufferPages -> Mapped]
    BY <1>2 DEF BufferTyped
  <2> QED
    BY <1>2, <1>3, <1>5, <2>1, <2>2 DEF OpType
<1>8. OpFits(t)
  BY <1>2, <1>3, <1>7 DEF OpFits, BufferTyped
<1>9. \A r \in ranges : B!Overlap(r, t) <=> r \in t.left
  BY <1>7 DEF B!Overlap, B!Touched
<1>10. \A r \in ranges, p \in BufferPages : Covers(r, p) /\ "unmap" \notin failed => pt[p] = r.child
  BY <1>2, <1>4 DEF TableRight
<1>11. /\ ranges' \subseteq RangeType /\ IsFiniteSet(ranges')
       /\ \A r \in ranges' : r.start <= r.last
  BY <1>1, <1>2 DEF BufferTyped
<1>12. op[w].at \notin {"puts", "zeros"} /\ op[w].at # "idle" /\ op[w].at \in Making
  BY <1>1 DEF Making
<1>13. ASSUME B!Becomes(w, t), pt' \in [BufferPages -> Mapped], UNCHANGED <<buffer, failed>>,
              \A p \in BufferPages :
                  pt'[p] = IF buffer.zero /\ p \in B!Window(op[w]) THEN "none" ELSE pt[p]
       PROVE  BufferInv'
  <2>1. op' = [op EXCEPT ![w] = t]
    BY <1>13 DEF B!Becomes
  <2>2. op'[w] = t /\ op'["teardown"].at = "idle" /\ holder' # "teardown"
    <3>1. op'[w] = t /\ \A v \in Workers \cup {"teardown"} : v # w => op'[v] = op[v]
      BY <1>2, <2>1, WorkerMoves
    <3> QED
      BY <1>1, <1>4, <3>1, BufferNames
  <2>3. \A p : /\ Cleared(p)' <=> buffer.zero /\ p \in B!Window(op[w])
               /\ ~Zeroing(p)'
    <3>1. \A p : /\ Cleared(p)' <=> /\ t.bind /\ t.at \in Walking /\ buffer'.zero
                                    /\ p \in t.start .. t.last
                 /\ Zeroing(p)' <=> t.at = "zeros" /\ p \in t.put.start .. t.put.last
      BY <1>1, <2>2, WhatIsCleared
    <3> QED
      BY <1>7, <1>13, <3>1 DEF Walking, B!Window
  <2>4. TableRight'
    <3>1. \A c \in Children : ~Stray(c)'
      BY <1>1, <1>2, <1>4, <1>13, BufferNames DEF TableRight, Stray, Covers
    <3>2. "unmap" \notin failed' =>
              /\ \A r, s \in ranges' : r = s \/ r.last < s.start \/ s.last < r.start
              /\ \A r \in ranges', p \in BufferPages : Covers(r, p)' => pt'[p] = r.child \/ Cleared(p)'
      BY <1>1, <1>2, <1>4, <1>10, <1>13, <2>3 DEF TableRight, Covers
    <3>3. buffer'.zero /\ failed' = {} =>
              \A p \in BufferPages : pt'[p] = "none" => Cleared(p)' \/ Zeroing(p)'
      BY <1>2, <1>4, <1>13, <2>3 DEF TableRight
    <3>4. \A p \in BufferPages : Cleared(p)' \/ Zeroing(p)' => pt'[p] = "none"
      BY <1>13, <2>3
    <3> QED
      BY <2>2, <3>1, <3>2, <3>3, <3>4 DEF TableRight, Covers
  <2>5. BindRight(w)' /\ UnbindRight(w)'
    <3>1. \A p \in BufferPages \ B!Window(t) : pt'[p] = t.before[p]
      BY <1>7, <1>13 DEF B!Window
    <3> QED
      BY <1>1, <1>7, <1>9, <2>2, <3>1 DEF BindRight, UnbindRight, B!Overlap, B!Window
  <2>6. t.at \notin {"puts", "zeros"} /\ t.at # "idle" /\ t.at \in Making /\ t.at \in Locked
        /\ t.left \subseteq ranges'
    BY <1>1, <1>7 DEF Making, Locked, Walking
  <2>7. /\ refs' \in [Children -> Int] /\ vbo' \in [Children -> Int]
        /\ \A c \in Children :
            /\ vbo'[c] - vbo[c]
                   >= Cardinality(OfChild(ranges', c)) - Cardinality(OfChild(ranges, c))
                      + Share(t, c) - Share(op[w], c)
            /\ refs'[c] - vbo'[c] = refs[c] - vbo[c]
    BY <1>1, <1>2, <1>3, <1>7, <1>12, <2>6, SharesStay
  <2>8. buffer' \in SceneType
    BY <1>2, <1>13 DEF BufferTyped
  <2> QED
    BY <1>1, <1>7, <1>8, <1>11, <1>12, <1>13, <2>1, <2>4, <2>5, <2>6, <2>7, <2>8, LockedStep
<1>14. CASE ~buffer.zero
  <2>1. B!Becomes(w, t) /\ UNCHANGED <<buffer, failed, pt>>
    BY <1>6, <1>14 DEF B!AddLocks
  <2> QED
    BY <1>2, <1>13, <1>14, <2>1 DEF BufferTyped
<1>15. CASE buffer.zero /\ B!Unmaps(B!Window(op[w])) /\ B!Becomes(w, t)
  <2>1. /\ pt' \in [BufferPages -> Mapped] /\ UNCHANGED <<buffer, failed>>
        /\ \A p \in BufferPages : pt'[p] = IF p \in B!Window(op[w]) THEN "none" ELSE pt[p]
    BY <1>2, <1>15, UnmapsThem
  <2> QED
    BY <1>13, <1>15, <2>1
<1>16. CASE /\ buffer.zero /\ B!UnmapFails(B!Window(op[w]))
            /\ B!Becomes(w, [t EXCEPT !.at = "error"])
  <2>1. PICK o : o = [t EXCEPT !.at = "error"]
    OBVIOUS
  <2>2. /\ op' = [op EXCEPT ![w] = o] /\ o \in OpType /\ o.at = "error" /\ o.bind
        /\ o.child = op[w].child /\ o.start = op[w].start /\ o.last = op[w].last
    BY <1>7, <1>16, <2>1 DEF B!Becomes, OpType
  <2>3. OpFits(o)
    BY <1>3, <2>2 DEF OpFits, Walking
  <2>4. /\ pt' \in [BufferPages -> Mapped] /\ "unmap" \in failed'
        /\ buffer' \in SceneType /\ buffer'.zero = buffer.zero
        /\ \A p \in BufferPages : \/ pt'[p] = pt[p]
                                  \/ pt'[p] = "none"
    BY <1>2, <1>16, UnmapGoesWrong
  <2>5. op'[w] = o /\ op'["teardown"].at = "idle" /\ holder' # "teardown"
    <3>1. op'[w] = o /\ \A v \in Workers \cup {"teardown"} : v # w => op'[v] = op[v]
      BY <1>2, <2>2, WorkerMoves
    <3> QED
      BY <1>1, <1>4, <3>1, BufferNames
  <2>6. \A p : ~Cleared(p)' /\ ~Zeroing(p)'
    <3>1. \A p : /\ Cleared(p)' <=> /\ o.bind /\ o.at \in Walking /\ buffer'.zero
                                    /\ p \in o.start .. o.last
                 /\ Zeroing(p)' <=> o.at = "zeros" /\ p \in o.put.start .. o.put.last
      BY <1>1, <2>5, WhatIsCleared
    <3> QED
      BY <2>2, <3>1 DEF Walking
  <2>7. TableRight'
    <3>1. \A c \in Children : ~Stray(c)'
      BY <1>1, <1>2, <1>4, <2>4, BufferNames DEF TableRight, Stray, Covers
    <3> QED
      BY <2>4, <2>5, <2>6, <3>1 DEF TableRight
  <2>8. BindRight(w)' /\ UnbindRight(w)'
    BY <2>2, <2>5 DEF BindRight, UnbindRight, Walking
  <2>9. o.at \notin {"puts", "zeros"} /\ o.at # "idle" /\ o.at \in Making /\ o.at \in Locked
        /\ o.at \notin Walking
    BY <2>2 DEF Making, Locked, Walking
  <2>10. /\ refs' \in [Children -> Int] /\ vbo' \in [Children -> Int]
         /\ \A c \in Children :
             /\ vbo'[c] - vbo[c]
                    >= Cardinality(OfChild(ranges', c)) - Cardinality(OfChild(ranges, c))
                       + Share(o, c) - Share(op[w], c)
             /\ refs'[c] - vbo'[c] = refs[c] - vbo[c]
    BY <1>1, <1>2, <1>3, <1>12, <2>2, <2>9, SharesStay
  <2> QED
    BY <1>1, <1>11, <1>12, <2>2, <2>3, <2>4, <2>7, <2>8, <2>9, <2>10, LockedStep
<1> QED
  BY <1>6, <1>14, <1>15, <1>16 DEF B!AddLocks

\* A worker takes ranges_lock for an unbind.
LEMMA RemoveLocksKeeps == ASSUME BufferInv, NEW w \in Workers, B!RemoveLocks(w)  PROVE BufferInv'
<1>1. /\ op[w].at = "start" /\ ~op[w].bind /\ holder = "none" /\ holder' = w
      /\ UNCHANGED <<buffer, failed, pt, ranges, refs, vbo, user, target>>
  BY DEF B!RemoveLocks
<1>2. BufferTyped /\ TableRight /\ TargetRight /\ op[w] \in OpType /\ OpFits(op[w])
  BY DEF BufferInv, BufferTyped, OpRight
<1>3. PICK q : q = {r \in B!Touched(op[w]) : op[w].child \in {"any", r.child}}
  OBVIOUS
<1>4. PICK o : o = [B!Walks(w) EXCEPT !.left = q]
  OBVIOUS
<1>5. /\ o \in OpType /\ o.at = "walk" /\ ~o.bind /\ o.child = op[w].child
      /\ o.start = op[w].start /\ o.last = op[w].last /\ o.before = pt /\ o.left = q
      /\ q \subseteq ranges
  <2>1. B!Touched(op[w]) \subseteq ranges /\ ranges \subseteq RangeType
    BY <1>2 DEF B!Touched, BufferTyped
  <2>2. pt \in [BufferPages -> Mapped] /\ q \subseteq ranges /\ q \in SUBSET RangeType
    BY <1>2, <1>3, <2>1 DEF BufferTyped
  <2>3. PICK t : t = [op[w] EXCEPT !.at = "walk", !.left = B!Touched(op[w]), !.before = pt]
    OBVIOUS
  <2>4. /\ t \in OpType /\ t.at = "walk" /\ ~t.bind /\ t.child = op[w].child
        /\ t.start = op[w].start /\ t.last = op[w].last /\ t.before = pt
    BY <1>1, <1>2, <2>1, <2>2, <2>3 DEF OpType
  <2>5. o = [t EXCEPT !.left = q]
    BY <1>4, <2>3 DEF B!Walks
  <2> QED
    BY <2>2, <2>4, <2>5 DEF OpType
<1>6. op' = [op EXCEPT ![w] = o]
  BY <1>3, <1>4 DEF B!RemoveLocks, B!Becomes
<1>7. /\ op[w].at # "idle" /\ op[w].start \in BufferPages /\ op[w].last \in BufferPages
      /\ op[w].start <= op[w].last
  <2>1. op[w].at # "idle"
    BY <1>1
  <2> QED
    BY <1>2, <2>1 DEF OpFits
<1>8. OpFits(o)
  BY <1>2, <1>5, <1>7 DEF OpFits, BufferTyped
<1>9. op'[w] = o /\ op'["teardown"].at = "idle" /\ holder' # "teardown" /\ holder # "teardown"
  <2>1. op'[w] = o /\ \A v \in Workers \cup {"teardown"} : v # w => op'[v] = op[v]
    BY <1>2, <1>6, WorkerMoves
  <2> QED
    BY <1>1, <1>2, <2>1, BufferNames DEF TargetRight
<1>10. \A p : ~Cleared(p) /\ ~Zeroing(p) /\ ~Cleared(p)' /\ ~Zeroing(p)'
  <2>1. \A p : /\ Cleared(p)' <=> /\ o.bind /\ o.at \in Walking /\ buffer'.zero
                                  /\ p \in o.start .. o.last
               /\ Zeroing(p)' <=> o.at = "zeros" /\ p \in o.put.start .. o.put.last
    BY <1>1, <1>9, WhatIsCleared
  <2>2. \A p : ~Cleared(p) /\ ~Zeroing(p)
    BY <1>1, BufferNames DEF Cleared, Zeroing
  <2> QED
    BY <1>5, <2>1, <2>2
<1>11. TableRight'
  <2>1. \A c \in Children : ~Stray(c)'
    BY <1>1, <1>2, <1>9 DEF TableRight, Stray, Covers
  <2> QED
    BY <1>1, <1>2, <1>9, <1>10, <2>1 DEF TableRight, Covers
<1>12. BindRight(w)' /\ UnbindRight(w)'
  <2>1. \A r \in ranges : B!Overlap(r, o) /\ o.child \in {"any", r.child} => r \in o.left
    BY <1>3, <1>5 DEF B!Overlap, B!Touched
  <2>2. \A r \in o.left : o.child \in {"any", r.child}
    BY <1>3, <1>5
  <2> QED
    BY <1>1, <1>5, <1>9, <2>1, <2>2 DEF BindRight, UnbindRight, B!Overlap
<1>13. /\ op[w].at \notin {"puts", "zeros"} /\ o.at \notin {"puts", "zeros"} /\ o.at # "idle"
       /\ o.at \in Locked /\ o.left \subseteq ranges'
       /\ (op[w].bind /\ op[w].at \in Making <=> o.bind /\ o.at \in Making)
  BY <1>1, <1>5 DEF Locked, Walking
<1>14. /\ refs' \in [Children -> Int] /\ vbo' \in [Children -> Int]
       /\ \A c \in Children :
           /\ vbo'[c] - vbo[c]
                  >= Cardinality(OfChild(ranges', c)) - Cardinality(OfChild(ranges, c))
                     + Share(o, c) - Share(op[w], c)
           /\ refs'[c] - vbo'[c] = refs[c] - vbo[c]
  BY <1>1, <1>2, <1>5, <1>7, <1>13, SharesStay
<1>15. /\ pt' \in [BufferPages -> Mapped] /\ ranges' \subseteq RangeType /\ IsFiniteSet(ranges')
       /\ \A r \in ranges' : r.start <= r.last
       /\ buffer' \in SceneType
  BY <1>1, <1>2 DEF BufferTyped
<1> QED
  BY <1>1, <1>5, <1>6, <1>7, <1>8, <1>11, <1>12, <1>13, <1>14, <1>15, LockedStep

\* A range that is gone puts its child.
LEMMA PutsChildKeeps == ASSUME BufferInv, NEW w \in Workers, B!PutsChild(w)  PROVE BufferInv'
<1>1. /\ op[w].at = "puts" /\ B!Puts(op[w].put.child)
      /\ B!Becomes(w, [op[w] EXCEPT !.at = "walk", !.put = B!NoRange])
      /\ UNCHANGED <<buffer, failed, pt, ranges, user, target, holder>>
  BY DEF B!PutsChild
<1>2. op[w].at \in Locked /\ op[w].at \in Walking
  BY <1>1 DEF Locked, Walking
<1>3. /\ BufferTyped /\ op[w] \in OpType /\ OpFits(op[w]) /\ holder = w
      /\ op[w].at # "idle" /\ holder # "teardown" /\ op["teardown"].at = "idle"
      /\ TableRight /\ BindRight(w) /\ UnbindRight(w) /\ op[w].left \subseteq ranges
      /\ \A p : /\ Cleared(p) <=> /\ op[w].bind /\ op[w].at \in Walking /\ buffer.zero
                                  /\ p \in op[w].start .. op[w].last
                /\ Zeroing(p) <=> op[w].at = "zeros" /\ p \in op[w].put.start .. op[w].put.last
  BY <1>2, TheHolder
<1>4. PICK d : d = op[w].put.child
  OBVIOUS
<1>5. d \in Children
  BY <1>1, <1>3, <1>4 DEF OpFits, RangeType
<1>6. PICK o : o = [op[w] EXCEPT !.at = "walk", !.put = B!NoRange]
  OBVIOUS
<1>7. /\ op' = [op EXCEPT ![w] = o] /\ o \in OpType /\ o.at = "walk" /\ (o.bind <=> op[w].bind)
      /\ o.child = op[w].child /\ o.start = op[w].start /\ o.last = op[w].last
      /\ o.left = op[w].left /\ o.before = op[w].before
  BY <1>1, <1>3, <1>6 DEF B!Becomes, OpType
<1>8. OpFits(o)
  BY <1>2, <1>3, <1>7 DEF OpFits
<1>9. op'[w] = o /\ op'["teardown"].at = "idle" /\ holder' = w
  <2>1. op'[w] = o /\ \A v \in Workers \cup {"teardown"} : v # w => op'[v] = op[v]
    BY <1>3, <1>7, WorkerMoves
  <2> QED
    BY <1>1, <1>3, <2>1, BufferNames
<1>10. \A p : /\ Cleared(p)' <=> Cleared(p)
              /\ ~Zeroing(p) /\ ~Zeroing(p)'
  <2>1. \A p : /\ Cleared(p)' <=> /\ o.bind /\ o.at \in Walking /\ buffer'.zero
                                  /\ p \in o.start .. o.last
               /\ Zeroing(p)' <=> o.at = "zeros" /\ p \in o.put.start .. o.put.last
    BY <1>9, WhatIsCleared
  <2>2. o.at \in Walking
    BY <1>7 DEF Walking
  <2> QED
    BY <1>1, <1>2, <1>3, <1>7, <2>1, <2>2
<1>11. TableRight'
  <2>1. \A c \in Children : ~Stray(c)'
    BY <1>1, <1>3 DEF TableRight, Stray, Covers
  <2> QED
    BY <1>1, <1>3, <1>9, <1>10, <2>1 DEF TableRight, Covers
<1>12. BindRight(w)'
  BY <1>1, <1>2, <1>3, <1>7, <1>9 DEF BindRight, B!Overlap, B!Window
<1>13. UnbindRight(w)'
  BY <1>1, <1>2, <1>3, <1>7, <1>9 DEF UnbindRight, B!Overlap
<1>14. /\ refs' \in [Children -> Int] /\ vbo' \in [Children -> Int]
       /\ \A x \in Children : /\ refs'[x] - vbo'[x] = refs[x] - vbo[x]
                              /\ vbo'[x] - vbo[x] = IF x = d THEN -1 ELSE 0
  BY <1>1, <1>3, <1>4, <1>5, PutsIt
<1>15. ASSUME NEW c \in Children
       PROVE  vbo'[c] - vbo[c]
                  >= Cardinality(OfChild(ranges', c)) - Cardinality(OfChild(ranges, c))
                     + Share(o, c) - Share(op[w], c)
  <2>1. /\ OwnShare(o, c) = OwnShare(op[w], c) /\ OwnShare(o, c) \in Nat
        /\ MadeShare(o, c) = MadeShare(op[w], c) /\ MadeShare(o, c) \in Nat
    BY <1>1, <1>7 DEF OwnShare, MadeShare, Making
  <2>2. RemovedShare(o, c) = 0 /\ RemovedShare(op[w], c) = (IF c = d THEN 1 ELSE 0)
    BY <1>1, <1>4, <1>7 DEF RemovedShare
  <2>3. Share(op[w], c) = Share(o, c) + (IF c = d THEN 1 ELSE 0) /\ Share(o, c) \in Nat
    BY <2>1, <2>2 DEF Share
  <2>4. IsFiniteSet(ranges) /\ ranges' = ranges
    BY <1>1, <1>3 DEF BufferTyped
  <2>5. Cardinality(OfChild(ranges, c)) \in Nat
    BY <2>4, RangesCount
  <2> QED
    BY <1>14, <2>3, <2>4, <2>5
<1>16. /\ pt' \in [BufferPages -> Mapped] /\ ranges' \subseteq RangeType /\ IsFiniteSet(ranges')
       /\ \A r \in ranges' : r.start <= r.last
       /\ buffer' \in SceneType
  BY <1>1, <1>3 DEF BufferTyped
<1>17. /\ holder \in {w, "none"} /\ holder' = (IF o.at \in Locked THEN w ELSE "none")
       /\ o.left \subseteq ranges' /\ o.at # "idle" /\ target' = target /\ user' = user
  BY <1>1, <1>3, <1>7, <1>9 DEF Locked, Walking
<1> QED
  BY <1>3, <1>7, <1>8, <1>11, <1>12, <1>13, <1>14, <1>15, <1>16, <1>17, LockedStep

\* The zero page takes the place of a range.
LEMMA RemoveZerosKeeps == ASSUME BufferInv, NEW w \in Workers, B!RemoveZeros(w)  PROVE BufferInv'
<1>1. /\ op[w].at = "zeros" /\ B!Maps(B!Span(op[w].put), "zero") /\ B!Goes(w, "puts")
      /\ UNCHANGED <<buffer, failed, ranges, refs, vbo, user, target, holder>>
  BY DEF B!RemoveZeros
<1>2. op[w].at \in Locked /\ op[w].at \in Walking
  BY <1>1 DEF Locked, Walking
<1>3. /\ BufferTyped /\ op[w] \in OpType /\ OpFits(op[w]) /\ holder = w
      /\ op[w].at # "idle" /\ holder # "teardown" /\ op["teardown"].at = "idle"
      /\ TableRight /\ BindRight(w) /\ UnbindRight(w) /\ op[w].left \subseteq ranges
      /\ \A p : /\ Cleared(p) <=> /\ op[w].bind /\ op[w].at \in Walking /\ buffer.zero
                                  /\ p \in op[w].start .. op[w].last
                /\ Zeroing(p) <=> op[w].at = "zeros" /\ p \in op[w].put.start .. op[w].put.last
  BY <1>2, TheHolder
<1>4. ~op[w].bind
  BY <1>1, <1>3 DEF OpFits
<1>5. PICK o : o = [op[w] EXCEPT !.at = "puts"]
  OBVIOUS
<1>6. /\ op' = [op EXCEPT ![w] = o] /\ o \in OpType /\ o.at = "puts" /\ ~o.bind
      /\ o.child = op[w].child /\ o.start = op[w].start /\ o.last = op[w].last
      /\ o.left = op[w].left /\ o.before = op[w].before /\ o.put = op[w].put
  BY <1>1, <1>3, <1>4, <1>5 DEF B!Goes, B!Becomes, OpType
<1>7. OpFits(o)
  BY <1>1, <1>2, <1>3, <1>6 DEF OpFits
<1>8. op'[w] = o /\ op'["teardown"].at = "idle" /\ holder' = w
  <2>1. op'[w] = o /\ \A v \in Workers \cup {"teardown"} : v # w => op'[v] = op[v]
    BY <1>3, <1>6, WorkerMoves
  <2> QED
    BY <1>1, <1>3, <2>1, BufferNames
<1>9. /\ pt' \in [BufferPages -> Mapped]
      /\ \A p \in BufferPages : pt'[p] = IF Zeroing(p) THEN "zero" ELSE pt[p]
  <2>1. pt' = [p \in BufferPages |-> IF p \in B!Span(op[w].put) THEN "zero" ELSE pt[p]]
    BY <1>1 DEF B!Maps
  <2>2. \A p : Zeroing(p) <=> p \in B!Span(op[w].put)
    BY <1>1, <1>3 DEF B!Span
  <2>3. pt \in [BufferPages -> Mapped]
    BY <1>3 DEF BufferTyped
  <2> QED
    BY <2>1, <2>2, <2>3 DEF Mapped
<1>10. \A p : ~Cleared(p) /\ ~Cleared(p)' /\ ~Zeroing(p)'
  <2>1. \A p : /\ Cleared(p)' <=> /\ o.bind /\ o.at \in Walking /\ buffer'.zero
                                  /\ p \in o.start .. o.last
               /\ Zeroing(p)' <=> o.at = "zeros" /\ p \in o.put.start .. o.put.last
    BY <1>8, WhatIsCleared
  <2> QED
    BY <1>3, <1>4, <1>6, <2>1
<1>11. \A p \in BufferPages : Zeroing(p) => pt[p] = "none"
  BY <1>3 DEF TableRight
<1>12. TableRight'
  <2>1. \A c \in Children : ~Stray(c)'
    BY <1>1, <1>3, <1>9, BufferNames DEF TableRight, Stray, Covers
  <2>2. "unmap" \notin failed' =>
            /\ \A r, s \in ranges' : r = s \/ r.last < s.start \/ s.last < r.start
            /\ \A r \in ranges', p \in BufferPages : Covers(r, p)' => pt'[p] = r.child
    <3> SUFFICES ASSUME "unmap" \notin failed
                 PROVE  /\ \A r, s \in ranges : r = s \/ r.last < s.start \/ s.last < r.start
                        /\ \A r \in ranges, p \in BufferPages : Covers(r, p) => pt'[p] = r.child
      BY <1>1 DEF Covers
    <3>1. \A r, s \in ranges : r = s \/ r.last < s.start \/ s.last < r.start
      BY <1>3 DEF TableRight
    <3>2. ASSUME NEW r \in ranges, NEW p \in BufferPages, Covers(r, p)  PROVE pt'[p] = r.child
      <4>1. pt[p] = r.child
        BY <1>3, <1>10, <3>2 DEF TableRight
      <4>2. r.child \in Children
        BY <1>3 DEF BufferTyped, RangeType
      <4>3. ~Zeroing(p)
        BY <1>11, <4>1, <4>2, BufferNames
      <4> QED
        BY <1>9, <4>1, <4>3
    <3> QED
      BY <3>1, <3>2
  <2>3. buffer'.zero /\ failed' = {} => \A p \in BufferPages : pt'[p] # "none"
    BY <1>1, <1>3, <1>9, <1>10 DEF TableRight
  <2> QED
    BY <1>1, <1>3, <1>8, <1>10, <2>1, <2>2, <2>3 DEF TableRight
<1>13. BindRight(w)'
  BY <1>6, <1>8 DEF BindRight
<1>14. UnbindRight(w)'
  <2>1. \A r \in o.left : o.child \in {"any", r.child}
    BY <1>2, <1>3, <1>4, <1>6 DEF UnbindRight
  <2>2. ASSUME "unmap" \notin failed
        PROVE  /\ \A r \in ranges : B!Overlap(r, o) /\ o.child \in {"any", r.child} => r \in o.left
               /\ \A p \in BufferPages :
                    o.before[p] \in Children /\ o.child \notin {"any", o.before[p]} =>
                        pt'[p] = o.before[p]
    <3>1. /\ \A r \in ranges : B!Overlap(r, op[w]) /\ op[w].child \in {"any", r.child} =>
                 r \in op[w].left
          /\ \A p \in BufferPages :
                 op[w].before[p] \in Children /\ op[w].child \notin {"any", op[w].before[p]} =>
                     pt[p] = op[w].before[p]
      BY <1>2, <1>3, <1>4, <2>2 DEF UnbindRight
    <3>2. \A r \in ranges : B!Overlap(r, o) /\ o.child \in {"any", r.child} => r \in o.left
      BY <1>6, <3>1 DEF B!Overlap
    <3>3. ASSUME NEW p \in BufferPages, o.before[p] \in Children,
                 o.child \notin {"any", o.before[p]}
          PROVE  pt'[p] = o.before[p]
      <4>1. pt[p] = o.before[p]
        BY <1>6, <3>1, <3>3
      <4>2. ~Zeroing(p)
        BY <1>11, <3>3, <4>1, BufferNames
      <4> QED
        BY <1>9, <4>1, <4>2
    <3> QED
      BY <3>2, <3>3
  <2> QED
    BY <1>1, <1>6, <1>8, <2>1, <2>2 DEF UnbindRight, B!Overlap
<1>15. ASSUME NEW c \in Children
       PROVE  /\ vbo'[c] - vbo[c]
                     >= Cardinality(OfChild(ranges', c)) - Cardinality(OfChild(ranges, c))
                        + Share(o, c) - Share(op[w], c)
              /\ refs'[c] - vbo'[c] = refs[c] - vbo[c]
  <2>1. /\ OwnShare(o, c) = OwnShare(op[w], c) /\ OwnShare(o, c) \in Nat
        /\ MadeShare(o, c) = MadeShare(op[w], c) /\ MadeShare(o, c) \in Nat
        /\ RemovedShare(o, c) = RemovedShare(op[w], c) /\ RemovedShare(o, c) \in Nat
    BY <1>1, <1>4, <1>6 DEF OwnShare, MadeShare, RemovedShare
  <2>2. Share(o, c) = Share(op[w], c) /\ Share(o, c) \in Nat
    BY <2>1 DEF Share
  <2>3. IsFiniteSet(ranges) /\ ranges' = ranges
    BY <1>1, <1>3 DEF BufferTyped
  <2>4. Cardinality(OfChild(ranges, c)) \in Nat
    BY <2>3, RangesCount
  <2>5. vbo'[c] = vbo[c] /\ refs'[c] = refs[c] /\ vbo[c] \in Int /\ refs[c] \in Int
    BY <1>1, <1>3 DEF BufferTyped
  <2> QED
    BY <2>2, <2>3, <2>4, <2>5
<1>16. /\ ranges' \subseteq RangeType /\ IsFiniteSet(ranges')
       /\ \A r \in ranges' : r.start <= r.last
       /\ buffer' \in SceneType /\ refs' \in [Children -> Int] /\ vbo' \in [Children -> Int]
  BY <1>1, <1>3 DEF BufferTyped
<1>17. /\ holder \in {w, "none"} /\ holder' = (IF o.at \in Locked THEN w ELSE "none")
       /\ o.left \subseteq ranges' /\ o.at # "idle" /\ target' = target /\ user' = user
  BY <1>1, <1>3, <1>6, <1>8 DEF Locked, Walking
<1> QED
  BY <1>3, <1>6, <1>7, <1>9, <1>12, <1>13, <1>14, <1>15, <1>16, <1>17, LockedStep

\* An unbind takes out a whole range of its child.
LEMMA TakesRange ==
    ASSUME BufferInv, NEW w \in Workers, op[w].at = "walk", ~op[w].bind, NEW r \in op[w].left,
           B!Unmaps(B!Span(r)), ranges' = ranges \ {r},
           B!Becomes(w, [op[w] EXCEPT !.left = @ \ {r}, !.put = r,
                                      !.at = IF buffer.zero THEN "zeros" ELSE "puts"]),
           UNCHANGED <<refs, vbo, user, target, holder>>
    PROVE  BufferInv'
<1>1. op[w].at \in Locked /\ op[w].at \in Walking
  BY DEF Locked, Walking
<1>2. /\ BufferTyped /\ op[w] \in OpType /\ OpFits(op[w]) /\ holder = w
      /\ op[w].at # "idle" /\ holder # "teardown" /\ op["teardown"].at = "idle"
      /\ op[w].start \in BufferPages /\ op[w].last \in BufferPages /\ op[w].start <= op[w].last
      /\ TableRight /\ BindRight(w) /\ UnbindRight(w) /\ op[w].left \subseteq ranges
      /\ \A p : /\ Cleared(p) <=> /\ op[w].bind /\ op[w].at \in Walking /\ buffer.zero
                                  /\ p \in op[w].start .. op[w].last
                /\ Zeroing(p) <=> op[w].at = "zeros" /\ p \in op[w].put.start .. op[w].put.last
  BY <1>1, TheHolder
<1>3. r \in ranges /\ r \in RangeType /\ r.child \in Children
  BY <1>2 DEF BufferTyped, RangeType
<1>4. PICK a : a = IF buffer.zero THEN "zeros" ELSE "puts"
  OBVIOUS
<1>5. PICK o : o = [op[w] EXCEPT !.left = @ \ {r}, !.put = r, !.at = a]
  OBVIOUS
<1>6. /\ op' = [op EXCEPT ![w] = o] /\ o \in OpType /\ o.at = a /\ ~o.bind
      /\ o.child = op[w].child /\ o.start = op[w].start /\ o.last = op[w].last
      /\ o.left = op[w].left \ {r} /\ o.before = op[w].before /\ o.put = r
  BY <1>2, <1>3, <1>4, <1>5 DEF B!Becomes, OpType
<1>7. a \in {"zeros", "puts"} /\ a \in Walking /\ a \in Locked
  BY <1>4 DEF Walking, Locked
<1>8. OpFits(o)
  BY <1>1, <1>2, <1>3, <1>6, <1>7 DEF OpFits
<1>9. op'[w] = o /\ op'["teardown"].at = "idle" /\ holder' = w
  <2>1. op'[w] = o /\ \A v \in Workers \cup {"teardown"} : v # w => op'[v] = op[v]
    BY <1>2, <1>6, WorkerMoves
  <2> QED
    BY <1>2, <2>1, BufferNames
<1>10. /\ pt' \in [BufferPages -> Mapped] /\ UNCHANGED <<buffer, failed>>
       /\ \A p \in BufferPages : pt'[p] = IF Covers(r, p) THEN "none" ELSE pt[p]
  BY <1>2, UnmapsThem DEF B!Span, Covers
<1>11. \A p : /\ ~Cleared(p) /\ ~Cleared(p)' /\ ~Zeroing(p)
              /\ Zeroing(p)' <=> a = "zeros" /\ Covers(r, p)
  <2>1. \A p : /\ Cleared(p)' <=> /\ o.bind /\ o.at \in Walking /\ buffer'.zero
                                  /\ p \in o.start .. o.last
               /\ Zeroing(p)' <=> o.at = "zeros" /\ p \in o.put.start .. o.put.last
    BY <1>9, WhatIsCleared
  <2> QED
    BY <1>2, <1>6, <2>1 DEF Covers
<1>12. ASSUME "unmap" \notin failed
       PROVE  /\ \A s, t \in ranges : s = t \/ s.last < t.start \/ t.last < s.start
              /\ \A s \in ranges, p \in BufferPages : Covers(s, p) => pt[p] = s.child
  BY <1>2, <1>11, <1>12 DEF TableRight
<1>13. TableRight'
  <2>1. ASSUME NEW c \in Children, NEW p \in BufferPages, pt'[p] = c
        PROVE  \E s \in ranges' : s.child = c /\ Covers(s, p)
    <3>1. ~Covers(r, p) /\ pt[p] = c
      BY <1>10, <2>1, BufferNames
    <3>2. PICK s \in ranges : s.child = c /\ Covers(s, p)
      BY <1>2, <3>1 DEF TableRight, Stray
    <3> QED
      BY <3>1, <3>2
  <2>2. \A c \in Children : ~Stray(c)'
    BY <2>1 DEF Stray, Covers
  <2>3. ASSUME "unmap" \notin failed
        PROVE  /\ \A s, t \in ranges' : s = t \/ s.last < t.start \/ t.last < s.start
               /\ \A s \in ranges', p \in BufferPages : Covers(s, p) => pt'[p] = s.child
    <3>1. ASSUME NEW s \in ranges', NEW p \in BufferPages, Covers(s, p)  PROVE pt'[p] = s.child
      <4>1. s \in ranges /\ s # r /\ pt[p] = s.child
        BY <1>12, <2>3, <3>1
      <4>2. s.last < r.start \/ r.last < s.start
        BY <1>3, <1>12, <2>3, <4>1
      <4>3. /\ s.start \in Nat /\ s.last \in Nat /\ r.start \in Nat /\ r.last \in Nat
        BY <1>2, <1>3, <4>1, Between DEF BufferTyped, RangeType
      <4>4. ~Covers(r, p)
        BY <3>1, <4>2, <4>3 DEF Covers
      <4> QED
        BY <1>10, <4>1, <4>4
    <3> QED
      BY <1>12, <2>3, <3>1
  <2>4. buffer'.zero /\ failed' = {} =>
            \A p \in BufferPages : pt'[p] = "none" => Cleared(p)' \/ Zeroing(p)'
    BY <1>2, <1>4, <1>10, <1>11 DEF TableRight
  <2>5. \A p \in BufferPages : Cleared(p)' \/ Zeroing(p)' => pt'[p] = "none"
    BY <1>10, <1>11
  <2> QED
    BY <1>9, <1>10, <2>2, <2>3, <2>4, <2>5 DEF TableRight, Covers
<1>14. BindRight(w)'
  BY <1>6, <1>9 DEF BindRight
<1>15. UnbindRight(w)'
  <2>1. \A s \in op[w].left : op[w].child \in {"any", s.child}
    BY <1>1, <1>2 DEF UnbindRight
  <2>2. ASSUME "unmap" \notin failed
        PROVE  /\ \A s \in ranges' : B!Overlap(s, o) /\ o.child \in {"any", s.child} => s \in o.left
               /\ \A p \in BufferPages :
                    o.before[p] \in Children /\ o.child \notin {"any", o.before[p]} =>
                        pt'[p] = o.before[p]
    <3>1. /\ \A s \in ranges : B!Overlap(s, op[w]) /\ op[w].child \in {"any", s.child} =>
                 s \in op[w].left
          /\ \A p \in BufferPages :
                 op[w].before[p] \in Children /\ op[w].child \notin {"any", op[w].before[p]} =>
                     pt[p] = op[w].before[p]
      BY <1>1, <1>2, <2>2 DEF UnbindRight
    <3>2. \A s \in ranges' : B!Overlap(s, o) /\ o.child \in {"any", s.child} => s \in o.left
      BY <1>6, <3>1 DEF B!Overlap
    <3>3. ASSUME NEW p \in BufferPages, o.before[p] \in Children,
                 o.child \notin {"any", o.before[p]}
          PROVE  pt'[p] = o.before[p]
      <4>1. pt[p] = o.before[p] /\ op[w].child \notin {"any", pt[p]}
        BY <1>6, <3>1, <3>3
      <4>2. r.child = op[w].child
        BY <2>1, <4>1
      <4>3. ~Covers(r, p)
        BY <1>3, <1>12, <2>2, <4>1, <4>2
      <4> QED
        BY <1>10, <4>1, <4>3
    <3> QED
      BY <3>2, <3>3
  <2>3. \A s \in o.left : o.child \in {"any", s.child}
    BY <1>6, <2>1
  <2> QED
    BY <1>6, <1>9, <1>10, <2>2, <2>3 DEF UnbindRight, B!Overlap
<1>16. ASSUME NEW c \in Children
       PROVE  /\ vbo'[c] - vbo[c]
                     >= Cardinality(OfChild(ranges', c)) - Cardinality(OfChild(ranges, c))
                        + Share(o, c) - Share(op[w], c)
              /\ refs'[c] - vbo'[c] = refs[c] - vbo[c]
  <2>1. /\ OwnShare(o, c) = OwnShare(op[w], c) /\ OwnShare(o, c) \in Nat
        /\ MadeShare(o, c) = 0 /\ MadeShare(op[w], c) = 0
        /\ RemovedShare(op[w], c) = 0
    BY <1>2, <1>6, <1>7 DEF OwnShare, MadeShare, RemovedShare
  <2>2. RemovedShare(o, c) = (IF r.child = c THEN 1 ELSE 0)
    BY <1>6, <1>7 DEF RemovedShare
  <2>3. Share(o, c) = Share(op[w], c) + (IF r.child = c THEN 1 ELSE 0) /\ Share(op[w], c) \in Nat
    BY <2>1, <2>2 DEF Share
  <2>4. IsFiniteSet(ranges)
    BY <1>2 DEF BufferTyped
  <2>5. /\ Cardinality(OfChild(ranges, c)) \in Nat
        /\ Cardinality(OfChild(ranges', c))
               = Cardinality(OfChild(ranges, c)) - (IF r.child = c THEN 1 ELSE 0)
    BY <1>3, <2>4, RangesCount
  <2>6. vbo'[c] = vbo[c] /\ refs'[c] = refs[c] /\ vbo[c] \in Int /\ refs[c] \in Int
    BY <1>2 DEF BufferTyped
  <2>7. CASE r.child = c
    BY <2>3, <2>5, <2>6, <2>7
  <2>8. CASE r.child # c
    BY <2>3, <2>5, <2>6, <2>8
  <2> QED
    BY <2>7, <2>8
<1>17. /\ ranges' \subseteq RangeType /\ IsFiniteSet(ranges')
       /\ \A s \in ranges' : s.start <= s.last
       /\ buffer' \in SceneType /\ refs' \in [Children -> Int] /\ vbo' \in [Children -> Int]
  <2>1. IsFiniteSet(ranges')
    BY <1>2, FS_RemoveElement DEF BufferTyped
  <2> QED
    BY <1>2, <1>10, <2>1 DEF BufferTyped
<1>18. /\ holder \in {w, "none"} /\ holder' = (IF o.at \in Locked THEN w ELSE "none")
       /\ o.left \subseteq ranges' /\ o.at # "idle" /\ target' = target /\ user' = user
  BY <1>2, <1>6, <1>7, <1>9
<1> QED
  BY <1>2, <1>6, <1>8, <1>10, <1>13, <1>14, <1>15, <1>16, <1>17, <1>18, LockedStep

\* An unmap goes wrong on the way: whoever has the lock, nothing is mapped that no
\* range covers.
LEMMA NoneStrays ==
    ASSUME \A c \in Children : ~Stray(c), ranges \subseteq ranges',
           \A p \in BufferPages : pt'[p] = pt[p] \/ pt'[p] = "none"
    PROVE  \A c \in Children : ~Stray(c)'
  BY BufferNames DEF Stray, Covers

\* A range cannot be unmapped, and is kept.
LEMMA KeepsRange ==
    ASSUME BufferInv, NEW w \in Workers, op[w].at = "walk", ~op[w].bind, NEW r \in op[w].left,
           B!UnmapFails(B!Span(r)), B!Becomes(w, [op[w] EXCEPT !.left = @ \ {r}]),
           UNCHANGED <<ranges, refs, vbo, user, target, holder>>
    PROVE  BufferInv'
<1>1. op[w].at \in Locked /\ op[w].at \in Walking
  BY DEF Locked, Walking
<1>2. /\ BufferTyped /\ op[w] \in OpType /\ OpFits(op[w]) /\ holder = w
      /\ op[w].at # "idle" /\ holder # "teardown" /\ op["teardown"].at = "idle"
      /\ op[w].start \in BufferPages /\ op[w].last \in BufferPages /\ op[w].start <= op[w].last
      /\ TableRight /\ BindRight(w) /\ UnbindRight(w) /\ op[w].left \subseteq ranges
  BY <1>1, TheHolder
<1>3. PICK o : o = [op[w] EXCEPT !.left = @ \ {r}]
  OBVIOUS
<1>4. /\ op' = [op EXCEPT ![w] = o] /\ o \in OpType /\ o.at = "walk" /\ ~o.bind
      /\ o.child = op[w].child /\ o.start = op[w].start /\ o.last = op[w].last
      /\ o.left = op[w].left \ {r} /\ o.before = op[w].before
  BY <1>2, <1>3 DEF B!Becomes, OpType
<1>5. OpFits(o)
  BY <1>1, <1>2, <1>4 DEF OpFits
<1>6. op'[w] = o /\ op'["teardown"].at = "idle" /\ holder' = w
  <2>1. op'[w] = o /\ \A v \in Workers \cup {"teardown"} : v # w => op'[v] = op[v]
    BY <1>2, <1>4, WorkerMoves
  <2> QED
    BY <1>2, <2>1, BufferNames
<1>7. /\ pt' \in [BufferPages -> Mapped] /\ "unmap" \in failed'
      /\ buffer' \in SceneType
      /\ \A p \in BufferPages : pt'[p] = pt[p] \/ pt'[p] = "none"
  BY <1>2, UnmapGoesWrong
<1>8. \A p : ~Cleared(p)' /\ ~Zeroing(p)'
  <2>1. \A p : /\ Cleared(p)' <=> /\ o.bind /\ o.at \in Walking /\ buffer'.zero
                                  /\ p \in o.start .. o.last
               /\ Zeroing(p)' <=> o.at = "zeros" /\ p \in o.put.start .. o.put.last
    BY <1>6, WhatIsCleared
  <2> QED
    BY <1>4, <2>1
<1>9. TableRight'
  <2>1. \A c \in Children : ~Stray(c)
    BY <1>2 DEF TableRight
  <2>2. \A c \in Children : ~Stray(c)'
    BY <1>7, <2>1, NoneStrays
  <2> QED
    BY <1>6, <1>7, <1>8, <2>2 DEF TableRight
<1>10. BindRight(w)'
  BY <1>4, <1>6 DEF BindRight
<1>11. UnbindRight(w)'
  <2>1. \A s \in op[w].left : op[w].child \in {"any", s.child}
    BY <1>1, <1>2 DEF UnbindRight
  <2>2. \A s \in o.left : o.child \in {"any", s.child}
    BY <1>4, <2>1
  <2> QED
    BY <1>6, <1>7, <2>2 DEF UnbindRight
<1>12. /\ op[w].at \notin {"puts", "zeros"} /\ o.at \notin {"puts", "zeros"} /\ o.at # "idle"
       /\ o.at \in Locked /\ o.left \subseteq ranges'
       /\ (op[w].bind /\ op[w].at \in Making <=> o.bind /\ o.at \in Making)
  BY <1>2, <1>4 DEF Locked, Walking
<1>13. /\ refs' \in [Children -> Int] /\ vbo' \in [Children -> Int]
       /\ \A c \in Children :
           /\ vbo'[c] - vbo[c]
                  >= Cardinality(OfChild(ranges', c)) - Cardinality(OfChild(ranges, c))
                     + Share(o, c) - Share(op[w], c)
           /\ refs'[c] - vbo'[c] = refs[c] - vbo[c]
  BY <1>2, <1>4, <1>12, SharesStay
<1>14. /\ ranges' \subseteq RangeType /\ IsFiniteSet(ranges')
       /\ \A s \in ranges' : s.start <= s.last
       /\ holder \in {w, "none"} /\ holder' = (IF o.at \in Locked THEN w ELSE "none")
       /\ target' = target /\ user' = user
  BY <1>2, <1>6, <1>12 DEF BufferTyped
<1> QED
  BY <1>2, <1>4, <1>5, <1>7, <1>9, <1>10, <1>11, <1>12, <1>13, <1>14, LockedStep

LEMMA RemoveWalkKeeps == ASSUME BufferInv, NEW w \in Workers, B!RemoveWalk(w)  PROVE BufferInv'
<1>1. /\ op[w].at = "walk" /\ ~op[w].bind /\ UNCHANGED <<refs, vbo, user, target, holder>>
  BY DEF B!RemoveWalk
<1>2. PICK r \in op[w].left :
        \/ /\ B!Unmaps(B!Span(r)) /\ ranges' = ranges \ {r}
           /\ B!Becomes(w, [op[w] EXCEPT !.left = @ \ {r}, !.put = r,
                                         !.at = IF buffer.zero THEN "zeros" ELSE "puts"])
        \/ /\ B!UnmapFails(B!Span(r)) /\ B!Becomes(w, [op[w] EXCEPT !.left = @ \ {r}])
           /\ UNCHANGED ranges
  BY DEF B!RemoveWalk
<1>3. CASE /\ B!Unmaps(B!Span(r)) /\ ranges' = ranges \ {r}
           /\ B!Becomes(w, [op[w] EXCEPT !.left = @ \ {r}, !.put = r,
                                         !.at = IF buffer.zero THEN "zeros" ELSE "puts"])
  BY <1>1, <1>3, TakesRange
<1>4. CASE /\ B!UnmapFails(B!Span(r)) /\ B!Becomes(w, [op[w] EXCEPT !.left = @ \ {r}])
           /\ UNCHANGED ranges
  BY <1>1, <1>4, KeepsRange
<1> QED
  BY <1>2, <1>3, <1>4

\* What is left of a range that a bind looks at: the part behind its window gets a
\* number of its own when there is one before it too.
Far(r, o, i) == {[s EXCEPT !.id = i] : s \in B!Behind(r, o)}
Rest(r, o, i) == B!Before(r, o) \cup Far(r, o, i)

LEMMA RestIs ==
    ASSUME NEW r \in RangeType, NEW o, NEW i \in Int
    PROVE  \E b, a :
        /\ b.start = r.start /\ b.last = o.start - 1 /\ b.child = r.child /\ b.id = r.id
        /\ a.start = o.last + 1 /\ a.last = r.last /\ a.child = r.child /\ a.id = i
        /\ o.start - 1 \in BufferPages => b \in RangeType
        /\ o.last + 1 \in BufferPages => a \in RangeType
        /\ B!Before(r, o) = IF r.start < o.start THEN {b} ELSE {}
        /\ Far(r, o, i) = IF o.last < r.last THEN {a} ELSE {}
<1>1. PICK b : b = [r EXCEPT !.last = o.start - 1]
  OBVIOUS
<1>2. PICK d : d = [r EXCEPT !.start = o.last + 1]
  OBVIOUS
<1>3. PICK a : a = [d EXCEPT !.id = i]
  OBVIOUS
<1>4. r.child \in Children /\ r.id \in Int /\ r.start \in BufferPages /\ r.last \in BufferPages
  BY DEF RangeType
<1>5. /\ b.start = r.start /\ b.last = o.start - 1 /\ b.child = r.child /\ b.id = r.id
      /\ o.start - 1 \in BufferPages => b \in RangeType
  BY <1>1, <1>4 DEF RangeType
<1>6. /\ d.start = o.last + 1 /\ d.last = r.last /\ d.child = r.child /\ d.id = r.id
      /\ d = [id |-> r.id, start |-> o.last + 1, last |-> r.last, child |-> r.child]
  BY <1>2, <1>4 DEF RangeType
<1>7. /\ a.start = o.last + 1 /\ a.last = r.last /\ a.child = r.child /\ a.id = i
      /\ a = [id |-> i, start |-> o.last + 1, last |-> r.last, child |-> r.child]
  BY <1>3, <1>6
<1>8. o.last + 1 \in BufferPages => a \in RangeType
  BY <1>4, <1>7 DEF RangeType
<1>9. B!Before(r, o) = IF r.start < o.start THEN {b} ELSE {}
  BY <1>1 DEF B!Before
<1>10. B!Behind(r, o) = IF o.last < r.last THEN {d} ELSE {}
  BY <1>2 DEF B!Behind
<1>11. Far(r, o, i) = IF o.last < r.last THEN {a} ELSE {}
  BY <1>3, <1>10 DEF Far
<1> QED
  BY <1>5, <1>7, <1>8, <1>9, <1>11

\* The rest lies outside the window, apart, and is all of the range that does.
LEMMA RestRight ==
    ASSUME NEW r \in RangeType, r.start <= r.last, NEW o, NEW i \in Int,
           o.start \in BufferPages, o.last \in BufferPages, o.start <= o.last, B!Overlap(r, o)
    PROVE  /\ \A s \in Rest(r, o, i) :
                  /\ s \in RangeType /\ s.child = r.child /\ s.start <= s.last
                  /\ r.start <= s.start /\ s.last <= r.last /\ ~B!Overlap(s, o)
           /\ \A s, t \in Rest(r, o, i) : s = t \/ s.last < t.start \/ t.last < s.start
           /\ \A p \in BufferPages :
                  /\ Covers(r, p) /\ p \notin o.start .. o.last => \E s \in Rest(r, o, i) : Covers(s, p)
                  /\ \A s \in Rest(r, o, i) :
                         Covers(s, p) => Covers(r, p) /\ p \notin o.start .. o.last
<1>1. PICK b, a :
        /\ b.start = r.start /\ b.last = o.start - 1 /\ b.child = r.child /\ b.id = r.id
        /\ a.start = o.last + 1 /\ a.last = r.last /\ a.child = r.child /\ a.id = i
        /\ o.start - 1 \in BufferPages => b \in RangeType
        /\ o.last + 1 \in BufferPages => a \in RangeType
        /\ B!Before(r, o) = IF r.start < o.start THEN {b} ELSE {}
        /\ Far(r, o, i) = IF o.last < r.last THEN {a} ELSE {}
  BY RestIs
<1>2. /\ r.start \in Nat /\ r.last \in Nat /\ o.start \in Nat /\ o.last \in Nat
      /\ r.start \in BufferPages /\ r.last \in BufferPages /\ BufferPages \subseteq Nat
      /\ r.start <= o.last /\ o.start <= r.last
  BY Between DEF RangeType, B!Overlap
<1>3. r.start < o.start => o.start - 1 \in BufferPages
  <2>1. \A x, y \in BufferPages, p \in Int : x <= p /\ p <= y => p \in BufferPages
    BY Between
  <2> QED
    BY <1>2, <2>1
<1>4. o.last < r.last => o.last + 1 \in BufferPages
  <2>1. \A x, y \in BufferPages, p \in Int : x <= p /\ p <= y => p \in BufferPages
    BY Between
  <2> QED
    BY <1>2, <2>1
<1>5. \A s : s \in Rest(r, o, i) <=> (r.start < o.start /\ s = b) \/ (o.last < r.last /\ s = a)
  BY <1>1 DEF Rest
<1>6. r.start < o.start =>
        /\ b \in RangeType /\ b.child = r.child /\ b.start <= b.last
        /\ r.start <= b.start /\ b.last <= r.last /\ ~B!Overlap(b, o)
  BY <1>1, <1>2, <1>3 DEF B!Overlap
<1>7. o.last < r.last =>
        /\ a \in RangeType /\ a.child = r.child /\ a.start <= a.last
        /\ r.start <= a.start /\ a.last <= r.last /\ ~B!Overlap(a, o)
  BY <1>1, <1>2, <1>4 DEF B!Overlap
<1>8. b.last < a.start
  BY <1>1, <1>2
<1>9. ASSUME NEW p \in BufferPages
      PROVE  /\ Covers(r, p) /\ p \notin o.start .. o.last => \E s \in Rest(r, o, i) : Covers(s, p)
             /\ \A s \in Rest(r, o, i) :
                    Covers(s, p) => Covers(r, p) /\ p \notin o.start .. o.last
  <2>1. p \in Nat
    BY <1>2
  <2>2. ASSUME Covers(r, p), p \notin o.start .. o.last
        PROVE  \E s \in Rest(r, o, i) : Covers(s, p)
    <3>1. (r.start < o.start /\ Covers(b, p)) \/ (o.last < r.last /\ Covers(a, p))
      BY <1>1, <1>2, <2>1, <2>2 DEF Covers
    <3> QED
      BY <1>5, <3>1
  <2>3. r.start < o.start /\ Covers(b, p) => Covers(r, p) /\ p \notin o.start .. o.last
    BY <1>1, <1>2, <2>1 DEF Covers
  <2>4. o.last < r.last /\ Covers(a, p) => Covers(r, p) /\ p \notin o.start .. o.last
    BY <1>1, <1>2, <2>1 DEF Covers
  <2> QED
    BY <1>5, <2>2, <2>3, <2>4
<1> QED
  BY <1>5, <1>6, <1>7, <1>8, <1>9

\* How many ranges a child has when one of them gives way to what is left of it
LEMMA RestCount ==
    ASSUME IsFiniteSet(ranges), NEW r \in ranges, NEW o, NEW i \in Int, r \in RangeType, NEW c,
           r.start \in Int, r.last \in Int, o.start \in Int, o.last \in Int
    PROVE  /\ IsFiniteSet((ranges \ {r}) \cup Rest(r, o, i))
           /\ Cardinality(OfChild(ranges, c)) \in Nat
           /\ Cardinality(OfChild((ranges \ {r}) \cup Rest(r, o, i), c)) \in Nat
           /\ r.child = c /\ B!Splits(r, o) =>
                  Cardinality(OfChild((ranges \ {r}) \cup Rest(r, o, i), c))
                      <= Cardinality(OfChild(ranges, c)) + 1
           /\ r.child # c \/ ~B!Splits(r, o) =>
                  Cardinality(OfChild((ranges \ {r}) \cup Rest(r, o, i), c))
                      <= Cardinality(OfChild(ranges, c))
           /\ r.child = c /\ B!Unneeded(r, o) =>
                  Cardinality(OfChild((ranges \ {r}) \cup Rest(r, o, i), c))
                      <= Cardinality(OfChild(ranges, c)) - 1
<1>1. PICK b, a :
        /\ b.child = r.child /\ a.child = r.child
        /\ B!Before(r, o) = IF r.start < o.start THEN {b} ELSE {}
        /\ Far(r, o, i) = IF o.last < r.last THEN {a} ELSE {}
  <2>1. \E b, a :
        /\ b.start = r.start /\ b.last = o.start - 1 /\ b.child = r.child /\ b.id = r.id
        /\ a.start = o.last + 1 /\ a.last = r.last /\ a.child = r.child /\ a.id = i
        /\ o.start - 1 \in BufferPages => b \in RangeType
        /\ o.last + 1 \in BufferPages => a \in RangeType
        /\ B!Before(r, o) = IF r.start < o.start THEN {b} ELSE {}
        /\ Far(r, o, i) = IF o.last < r.last THEN {a} ELSE {}
    BY RestIs
  <2> QED
    BY <2>1
<1>2. PICK k : k = ranges \ {r}
  OBVIOUS
<1>3. /\ IsFiniteSet(k) /\ Cardinality(OfChild(ranges, c)) \in Nat
      /\ Cardinality(OfChild(k, c)) = Cardinality(OfChild(ranges, c)) - (IF r.child = c THEN 1 ELSE 0)
  BY <1>2, RangesCount
<1>4. Cardinality(OfChild(k, c)) \in Nat
  BY <1>3, RangesCount
<1>5. /\ IsFiniteSet(k \cup {b}) /\ Cardinality(OfChild(k \cup {b}, c)) \in Nat
      /\ Cardinality(OfChild(k \cup {b}, c))
             <= Cardinality(OfChild(k, c)) + (IF r.child = c THEN 1 ELSE 0)
  BY <1>1, <1>3, RangesCount
<1>6. /\ IsFiniteSet(k \cup {a}) /\ Cardinality(OfChild(k \cup {a}, c)) \in Nat
      /\ Cardinality(OfChild(k \cup {a}, c))
             <= Cardinality(OfChild(k, c)) + (IF r.child = c THEN 1 ELSE 0)
  BY <1>1, <1>3, RangesCount
<1>7. /\ IsFiniteSet((k \cup {b}) \cup {a}) /\ Cardinality(OfChild((k \cup {b}) \cup {a}, c)) \in Nat
      /\ Cardinality(OfChild((k \cup {b}) \cup {a}, c))
             <= Cardinality(OfChild(k \cup {b}, c)) + (IF r.child = c THEN 1 ELSE 0)
  BY <1>1, <1>5, RangesCount
<1>8. PICK n : n = (ranges \ {r}) \cup Rest(r, o, i)
  OBVIOUS
<1>9. /\ r.start < o.start /\ o.last < r.last => n = (k \cup {b}) \cup {a}
      /\ r.start < o.start /\ ~(o.last < r.last) => n = k \cup {b}
      /\ ~(r.start < o.start) /\ o.last < r.last => n = k \cup {a}
      /\ ~(r.start < o.start) /\ ~(o.last < r.last) => n = k
  BY <1>1, <1>2, <1>8 DEF Rest
<1>10. /\ B!Splits(r, o) <=> r.start < o.start /\ o.last < r.last
       /\ B!Unneeded(r, o) <=> ~(r.start < o.start) /\ ~(o.last < r.last)
  BY DEF B!Splits, B!Unneeded
<1>11. PICK x, y, yb, ya, yab \in Nat :
        /\ x = Cardinality(OfChild(ranges, c)) /\ y = Cardinality(OfChild(k, c))
        /\ yb = Cardinality(OfChild(k \cup {b}, c)) /\ ya = Cardinality(OfChild(k \cup {a}, c))
        /\ yab = Cardinality(OfChild((k \cup {b}) \cup {a}, c))
  BY <1>3, <1>4, <1>5, <1>6, <1>7
<1>12. PICK e \in {0, 1} : e = IF r.child = c THEN 1 ELSE 0
  OBVIOUS
<1>13. y = x - e /\ yb <= y + e /\ ya <= y + e /\ yab <= yb + e
  <2>1. y = x - e
    BY <1>3, <1>11, <1>12
  <2>2. yb <= y + e
    BY <1>5, <1>11, <1>12
  <2>3. ya <= y + e
    BY <1>6, <1>11, <1>12
  <2>4. yab <= yb + e
    BY <1>7, <1>11, <1>12
  <2> QED
    BY <2>1, <2>2, <2>3, <2>4
<1>14. PICK z : z = Cardinality(OfChild(n, c))
  OBVIOUS
<1>15. /\ IsFiniteSet(n)
       /\ r.start < o.start /\ o.last < r.last => z = yab
       /\ r.start < o.start /\ ~(o.last < r.last) => z = yb
       /\ ~(r.start < o.start) /\ o.last < r.last => z = ya
       /\ ~(r.start < o.start) /\ ~(o.last < r.last) => z = y
  BY <1>3, <1>5, <1>6, <1>7, <1>9, <1>11, <1>14
<1>16. /\ x \in Nat /\ z \in Nat
       /\ B!Splits(r, o) => z <= x + e
       /\ e = 0 \/ ~B!Splits(r, o) => z <= x
       /\ B!Unneeded(r, o) => z = x - e
  BY <1>10, <1>13, <1>15
<1> QED
  BY <1>8, <1>11, <1>12, <1>14, <1>15, <1>16

\* A bind takes the next range of its walk.
LEMMA AddWalkStep ==
    ASSUME BufferInv, NEW w \in Workers, op[w].at = "walk", op[w].bind, NEW r \in op[w].left,
           NEW i \in Int, ranges' = (ranges \ {r}) \cup Rest(r, op[w], i),
           IF buffer.zero THEN UNCHANGED <<buffer, failed, pt>>
           ELSE B!Unmaps(B!Span(r) \cap B!Window(op[w])),
           B!Becomes(w, [op[w] EXCEPT !.left = @ \ {r},
                             !.put = IF B!Unneeded(r, op[w]) THEN r ELSE B!NoRange,
                             !.at = IF B!Unneeded(r, op[w]) THEN "puts" ELSE "walk"]),
           IF B!Splits(r, op[w]) THEN B!Gets(r.child) ELSE UNCHANGED <<refs, vbo>>,
           UNCHANGED <<user, target, holder>>
    PROVE  BufferInv'
<1>1. op[w].at \in Locked /\ op[w].at \in Walking
  BY DEF Locked, Walking
<1>2. /\ BufferTyped /\ op[w] \in OpType /\ OpFits(op[w]) /\ holder = w
      /\ op[w].at # "idle" /\ holder # "teardown" /\ op["teardown"].at = "idle"
      /\ op[w].start \in BufferPages /\ op[w].last \in BufferPages /\ op[w].start <= op[w].last
      /\ TableRight /\ BindRight(w) /\ op[w].left \subseteq ranges
      /\ \A p : /\ Cleared(p) <=> /\ op[w].bind /\ op[w].at \in Walking /\ buffer.zero
                                  /\ p \in op[w].start .. op[w].last
                /\ Zeroing(p) <=> op[w].at = "zeros" /\ p \in op[w].put.start .. op[w].put.last
  BY <1>1, TheHolder
<1>3. r \in ranges /\ r \in RangeType /\ r.child \in Children /\ r.start <= r.last
  BY <1>2 DEF BufferTyped, RangeType
<1>4. /\ \A s \in ranges : B!Overlap(s, op[w]) <=> s \in op[w].left
      /\ \A p \in BufferPages : p \notin op[w].start .. op[w].last => pt[p] = op[w].before[p]
  BY <1>1, <1>2 DEF BindRight, B!Window
<1>5. PICK n : n = Rest(r, op[w], i)
  OBVIOUS
<1>6. /\ \A s \in n : /\ s \in RangeType /\ s.child = r.child /\ s.start <= s.last
                      /\ r.start <= s.start /\ s.last <= r.last /\ ~B!Overlap(s, op[w])
      /\ \A s, t \in n : s = t \/ s.last < t.start \/ t.last < s.start
      /\ \A p \in BufferPages :
             /\ Covers(r, p) /\ p \notin op[w].start .. op[w].last => \E s \in n : Covers(s, p)
             /\ \A s \in n : Covers(s, p) => Covers(r, p) /\ p \notin op[w].start .. op[w].last
  <2>1. B!Overlap(r, op[w])
    BY <1>3, <1>4
  <2> QED
    BY <1>2, <1>3, <1>5, <2>1, RestRight
<1>7. PICK a : a = IF B!Unneeded(r, op[w]) THEN "puts" ELSE "walk"
  OBVIOUS
<1>8. PICK d : d = IF B!Unneeded(r, op[w]) THEN r ELSE B!NoRange
  OBVIOUS
<1>9. PICK o : o = [op[w] EXCEPT !.left = @ \ {r}, !.put = d, !.at = a]
  OBVIOUS
<1>10. /\ op' = [op EXCEPT ![w] = o] /\ o \in OpType /\ o.at = a /\ o.bind
       /\ o.child = op[w].child /\ o.start = op[w].start /\ o.last = op[w].last
       /\ o.left = op[w].left \ {r} /\ o.before = op[w].before /\ o.put = d
  BY <1>2, <1>3, <1>7, <1>8, <1>9 DEF B!Becomes, OpType
<1>11. a \in {"walk", "puts"} /\ a \in Walking /\ a \in Locked /\ a \in Making
  BY <1>7 DEF Walking, Locked, Making
<1>12. OpFits(o)
  <2>1. a = "puts" => d \in RangeType
    BY <1>3, <1>7, <1>8
  <2> QED
    BY <1>1, <1>2, <1>10, <1>11, <2>1 DEF OpFits
<1>13. op'[w] = o /\ op'["teardown"].at = "idle" /\ holder' = w
  <2>1. op'[w] = o /\ \A v \in Workers \cup {"teardown"} : v # w => op'[v] = op[v]
    BY <1>2, <1>10, WorkerMoves
  <2> QED
    BY <1>2, <2>1, BufferNames
<1>14. /\ pt' \in [BufferPages -> Mapped] /\ UNCHANGED <<buffer, failed>>
       /\ buffer.zero => pt' = pt
       /\ \A p \in BufferPages :
              /\ pt'[p] = pt[p] \/ pt'[p] = "none"
              /\ ~(Covers(r, p) /\ p \in op[w].start .. op[w].last) => pt'[p] = pt[p]
              /\ ~buffer.zero /\ Covers(r, p) /\ p \in op[w].start .. op[w].last => pt'[p] = "none"
  <2>1. CASE buffer.zero
    BY <1>2, <2>1 DEF BufferTyped
  <2>2. CASE ~buffer.zero
    <3>1. /\ pt' \in [BufferPages -> Mapped] /\ UNCHANGED <<buffer, failed>>
          /\ \A p \in BufferPages :
                 pt'[p] = IF p \in B!Span(r) \cap B!Window(op[w]) THEN "none" ELSE pt[p]
      BY <1>2, <2>2, UnmapsThem
    <3> QED
      BY <2>2, <3>1 DEF B!Span, B!Window, Covers
  <2> QED
    BY <2>1, <2>2
<1>15. \A p : /\ Cleared(p)' <=> Cleared(p)
              /\ Cleared(p) <=> buffer.zero /\ p \in op[w].start .. op[w].last
              /\ ~Zeroing(p) /\ ~Zeroing(p)'
  <2>1. \A p : /\ Cleared(p)' <=> /\ o.bind /\ o.at \in Walking /\ buffer'.zero
                                  /\ p \in o.start .. o.last
               /\ Zeroing(p)' <=> o.at = "zeros" /\ p \in o.put.start .. o.put.last
    BY <1>13, WhatIsCleared
  <2> QED
    BY <1>1, <1>2, <1>10, <1>11, <1>14, <2>1
<1>16. \A s \in ranges' : s \in n \/ s \in ranges \ {r}
  BY <1>5
<1>17. n \subseteq ranges' /\ ranges \ {r} \subseteq ranges'
  BY <1>5
<1>18. \A c \in Children : ~Stray(c)'
  <2> SUFFICES ASSUME NEW c \in Children, NEW p \in BufferPages, pt'[p] = c
               PROVE  \E s \in ranges' : s.child = c /\ Covers(s, p)
    BY DEF Stray, Covers
  <2>1. pt[p] = c
    BY <1>14, BufferNames
  <2>2. PICK s \in ranges : s.child = c /\ Covers(s, p)
    BY <1>2, <2>1 DEF TableRight, Stray
  <2>3. CASE s # r
    BY <1>17, <2>2, <2>3
  <2>4. CASE s = r
    <3>1. p \notin op[w].start .. op[w].last
      <4>1. ~Cleared(p)
        BY <1>2, <2>1, BufferNames DEF TableRight
      <4> QED
        BY <1>14, <1>15, <2>2, <2>4, <4>1, BufferNames
    <3> QED
      BY <1>6, <1>17, <2>2, <2>4, <3>1
  <2> QED
    BY <2>3, <2>4
<1>19. ASSUME "unmap" \notin failed
       PROVE  /\ \A s, t \in ranges' : s = t \/ s.last < t.start \/ t.last < s.start
              /\ \A s \in ranges', p \in BufferPages : Covers(s, p) => pt'[p] = s.child \/ Cleared(p)
  <2>1. /\ \A s, t \in ranges : s = t \/ s.last < t.start \/ t.last < s.start
        /\ \A s \in ranges, p \in BufferPages : Covers(s, p) => pt[p] = s.child \/ Cleared(p)
    BY <1>2, <1>19 DEF TableRight
  <2>2. \A s \in ranges' : s.start \in Nat /\ s.last \in Nat
    BY <1>2, <1>6, <1>16, Between DEF BufferTyped, RangeType
  <2>3. r.start \in Nat /\ r.last \in Nat
    BY <1>3, Between DEF RangeType
  <2>4. ASSUME NEW s \in ranges', NEW t \in ranges'
        PROVE  s = t \/ s.last < t.start \/ t.last < s.start
    <3>1. CASE s \in n /\ t \in n
      BY <1>6, <3>1
    <3>2. CASE s \in ranges \ {r} /\ t \in ranges \ {r}
      BY <2>1, <3>2
    <3>3. CASE s \in n /\ t \in ranges \ {r}
      <4>1. r.last < t.start \/ t.last < r.start
        BY <1>3, <2>1, <3>3
      <4>2. r.start <= s.start /\ s.last <= r.last
        BY <1>6, <3>3
      <4> QED
        BY <2>2, <2>3, <4>1, <4>2
    <3>4. CASE s \in ranges \ {r} /\ t \in n
      <4>1. r.last < s.start \/ s.last < r.start
        BY <1>3, <2>1, <3>4
      <4>2. r.start <= t.start /\ t.last <= r.last
        BY <1>6, <3>4
      <4> QED
        BY <2>2, <2>3, <4>1, <4>2
    <3> QED
      BY <1>16, <3>1, <3>2, <3>3, <3>4
  <2>5. ASSUME NEW s \in ranges', NEW p \in BufferPages, Covers(s, p)
        PROVE  pt'[p] = s.child \/ Cleared(p)
    <3>1. CASE s \in n
      <4>1. Covers(r, p) /\ p \notin op[w].start .. op[w].last /\ s.child = r.child
        BY <1>6, <2>5, <3>1
      <4>2. pt'[p] = pt[p]
        BY <1>14, <4>1
      <4> QED
        BY <1>3, <2>1, <4>1, <4>2
    <3>2. CASE s \in ranges \ {r}
      <4>1. s.last < r.start \/ r.last < s.start
        BY <1>3, <2>1, <3>2
      <4>2. ~Covers(r, p)
        BY <2>2, <2>3, <2>5, <4>1 DEF Covers
      <4>3. pt'[p] = pt[p]
        BY <1>14, <4>2
      <4> QED
        BY <2>1, <2>5, <3>2, <4>3
    <3> QED
      BY <1>16, <3>1, <3>2
  <2> QED
    BY <2>4, <2>5
<1>20. TableRight'
  <2>1. "unmap" \notin failed' =>
            /\ \A s, t \in ranges' : s = t \/ s.last < t.start \/ t.last < s.start
            /\ \A s \in ranges', p \in BufferPages : Covers(s, p)' => pt'[p] = s.child \/ Cleared(p)'
    BY <1>14, <1>15, <1>19 DEF Covers
  <2>2. buffer'.zero /\ failed' = {} =>
            \A p \in BufferPages : pt'[p] = "none" => Cleared(p)' \/ Zeroing(p)'
    BY <1>2, <1>14, <1>15 DEF TableRight
  <2>3. \A p \in BufferPages : Cleared(p)' \/ Zeroing(p)' => pt'[p] = "none"
    BY <1>2, <1>14, <1>15 DEF TableRight
  <2> QED
    BY <1>13, <1>18, <2>1, <2>2, <2>3 DEF TableRight, Covers
<1>21. BindRight(w)'
  <2>1. \A s \in ranges' : B!Overlap(s, o) <=> s \in o.left
    <3>1. ASSUME NEW s \in ranges'  PROVE B!Overlap(s, op[w]) <=> s \in op[w].left \ {r}
      <4>1. CASE s \in ranges \ {r}
        BY <1>4, <4>1
      <4>2. CASE s \in n
        BY <1>2, <1>4, <1>6, <4>2
      <4> QED
        BY <1>16, <4>1, <4>2
    <3> QED
      BY <1>10, <3>1 DEF B!Overlap
  <2>2. \A p \in BufferPages \ B!Window(o) : pt'[p] = o.before[p]
    BY <1>4, <1>10, <1>14 DEF B!Window
  <2>3. o.at # "mapped"
    BY <1>10, <1>11
  <2> QED
    BY <1>13, <2>1, <2>2, <2>3 DEF BindRight, B!Overlap, B!Window
<1>22. UnbindRight(w)'
  BY <1>10, <1>13 DEF UnbindRight
<1>23. /\ refs' \in [Children -> Int] /\ vbo' \in [Children -> Int]
       /\ \A c \in Children :
              /\ refs'[c] - vbo'[c] = refs[c] - vbo[c]
              /\ vbo'[c] - vbo[c] = IF c = r.child /\ B!Splits(r, op[w]) THEN 1 ELSE 0
  <2>1. CASE B!Splits(r, op[w])
    BY <1>2, <1>3, <2>1, GetsIt
  <2>2. CASE ~B!Splits(r, op[w])
    BY <1>2, <2>2 DEF BufferTyped
  <2> QED
    BY <2>1, <2>2
<1>24. ASSUME NEW c \in Children
       PROVE  vbo'[c] - vbo[c]
                  >= Cardinality(OfChild(ranges', c)) - Cardinality(OfChild(ranges, c))
                     + Share(o, c) - Share(op[w], c)
  <2>1. /\ OwnShare(o, c) = OwnShare(op[w], c) /\ OwnShare(o, c) \in Nat
        /\ MadeShare(o, c) = MadeShare(op[w], c) /\ MadeShare(o, c) \in Nat
        /\ RemovedShare(op[w], c) = 0
    BY <1>2, <1>10, <1>11 DEF OwnShare, MadeShare, RemovedShare, Making
  <2>2. RemovedShare(o, c) = IF B!Unneeded(r, op[w]) /\ r.child = c THEN 1 ELSE 0
    <3>1. a = "puts" <=> B!Unneeded(r, op[w])
      BY <1>7
    <3>2. B!Unneeded(r, op[w]) => d = r
      BY <1>8
    <3> QED
      BY <1>10, <1>11, <3>1, <3>2 DEF RemovedShare
  <2>3. /\ Share(o, c) = Share(op[w], c) + (IF B!Unneeded(r, op[w]) /\ r.child = c THEN 1 ELSE 0)
        /\ Share(op[w], c) \in Nat
    BY <2>1, <2>2 DEF Share
  <2>4. PICK x, y \in Nat : /\ x = Cardinality(OfChild(ranges, c)) /\ y = Cardinality(OfChild(ranges', c))
                            /\ r.child = c /\ B!Splits(r, op[w]) => y <= x + 1
                            /\ r.child # c \/ ~B!Splits(r, op[w]) => y <= x
                            /\ r.child = c /\ B!Unneeded(r, op[w]) => y <= x - 1
    <3>1. /\ r.start \in Int /\ r.last \in Int /\ op[w].start \in Int /\ op[w].last \in Int
          /\ IsFiniteSet(ranges)
      BY <1>2, <1>3, Between DEF RangeType, BufferTyped
    <3> QED
      BY <1>3, <3>1, RestCount
  <2>5. B!Unneeded(r, op[w]) => ~B!Splits(r, op[w])
    <3>1. r.start \in Int /\ op[w].start \in Int
      BY <1>2, <1>3, Between DEF RangeType
    <3> QED
      BY <3>1 DEF B!Unneeded, B!Splits
  <2>6. PICK z \in Int : z = vbo'[c] - vbo[c]
    BY <1>2, <1>23 DEF BufferTyped
  <2>7. z = IF c = r.child /\ B!Splits(r, op[w]) THEN 1 ELSE 0
    BY <1>23, <2>6
  <2>8. PICK u, v \in Nat : u = Share(op[w], c) /\ v = Share(o, c)
    BY <2>1, <2>3
  <2>9. v = u + (IF B!Unneeded(r, op[w]) /\ r.child = c THEN 1 ELSE 0)
    BY <2>3, <2>8
  <2>10. z >= y - x + v - u
    BY <2>4, <2>5, <2>7, <2>9
  <2> QED
    BY <2>4, <2>6, <2>8, <2>10
<1>25. /\ ranges' \subseteq RangeType /\ IsFiniteSet(ranges')
       /\ \A s \in ranges' : s.start <= s.last
       /\ buffer' \in SceneType
  <2>1. IsFiniteSet(ranges')
    <3>1. /\ r.start \in Int /\ r.last \in Int /\ op[w].start \in Int /\ op[w].last \in Int
          /\ IsFiniteSet(ranges)
      BY <1>2, <1>3, Between DEF RangeType, BufferTyped
    <3> QED
      BY <1>3, <3>1, RestCount
  <2> QED
    BY <1>2, <1>6, <1>14, <1>16, <2>1 DEF BufferTyped
<1>26. /\ holder \in {w, "none"} /\ holder' = (IF o.at \in Locked THEN w ELSE "none")
       /\ o.left \subseteq ranges' /\ o.at # "idle" /\ target' = target /\ user' = user
  BY <1>2, <1>10, <1>11, <1>13, <1>17
<1> QED
  BY <1>2, <1>10, <1>12, <1>14, <1>20, <1>21, <1>22, <1>23, <1>24, <1>25, <1>26, LockedStep

LEMMA AddWalkKeeps == ASSUME BufferInv, NEW w \in Workers, B!AddWalk(w)  PROVE BufferInv'
<1>1. op[w].at = "walk" /\ op[w].bind /\ UNCHANGED <<user, target, holder>>
  BY DEF B!AddWalk
<1>2. PICK r \in op[w].left :
        /\ IF buffer.zero THEN UNCHANGED <<buffer, failed, pt>>
           ELSE B!Unmaps(B!Span(r) \cap B!Window(op[w]))
        /\ B!Becomes(w, [op[w] EXCEPT !.left = @ \ {r},
                             !.put = IF B!Unneeded(r, op[w]) THEN r ELSE B!NoRange,
                             !.at = IF B!Unneeded(r, op[w]) THEN "puts" ELSE "walk"])
        /\ IF B!Splits(r, op[w])
           THEN /\ B!Gets(r.child)
                /\ \E i \in B!Ids :
                    /\ B!NewId(i)
                    /\ ranges' = (ranges \ {r}) \cup B!Before(r, op[w])
                        \cup {[s EXCEPT !.id = i] : s \in B!Behind(r, op[w])}
           ELSE /\ ranges' = IF B!Unneeded(r, op[w]) THEN ranges \ {r}
                             ELSE (ranges \ {r}) \cup B!Before(r, op[w]) \cup B!Behind(r, op[w])
                /\ UNCHANGED <<refs, vbo>>
  BY DEF B!AddWalk
<1>3. /\ r \in ranges /\ r \in RangeType /\ r.id \in Int
      /\ op[w].start \in BufferPages /\ op[w].last \in BufferPages
      /\ r.start \in BufferPages /\ r.last \in BufferPages
  <2>1. op[w].at \in Locked /\ op[w].at \in Walking
    BY <1>1 DEF Locked, Walking
  <2>2. /\ BufferTyped /\ op[w].left \subseteq ranges
        /\ op[w].start \in BufferPages /\ op[w].last \in BufferPages
    BY <2>1, TheHolder
  <2> QED
    BY <2>2 DEF BufferTyped, RangeType
<1>4. IF B!Splits(r, op[w]) THEN B!Gets(r.child) ELSE UNCHANGED <<refs, vbo>>
  BY <1>2
<1>5. \E i \in Int : ranges' = (ranges \ {r}) \cup Rest(r, op[w], i)
  <2>1. CASE B!Splits(r, op[w])
    <3>1. PICK i \in B!Ids : ranges' = (ranges \ {r}) \cup B!Before(r, op[w])
                                \cup {[s EXCEPT !.id = i] : s \in B!Behind(r, op[w])}
      BY <1>2, <2>1
    <3>2. i \in Int
      BY DEF B!Ids
    <3>3. ranges' = (ranges \ {r}) \cup Rest(r, op[w], i)
      BY <3>1, Zenon DEF Rest, Far
    <3> QED
      BY <3>2, <3>3
  <2>2. CASE ~B!Splits(r, op[w])
    <3>1. PICK f : f = [r EXCEPT !.start = op[w].last + 1]
      OBVIOUS
    <3>2. B!Behind(r, op[w]) = Far(r, op[w], r.id)
      <4>1. [f EXCEPT !.id = r.id] = f
        BY <1>3, <3>1 DEF RangeType
      <4>2. B!Behind(r, op[w]) = IF op[w].last < r.last THEN {f} ELSE {}
        BY <3>1 DEF B!Behind
      <4> QED
        BY <4>1, <4>2 DEF Far
    <3>3. CASE B!Unneeded(r, op[w])
      <4>1. B!Before(r, op[w]) = {} /\ B!Behind(r, op[w]) = {}
        <5>1. /\ r.start \in Int /\ r.last \in Int /\ op[w].start \in Int /\ op[w].last \in Int
          <6>1. BufferPages \subseteq Int
            BY Between
          <6> QED
            BY <1>3, <6>1
        <5>2. ~(r.start < op[w].start) /\ ~(op[w].last < r.last)
          BY <3>3, <5>1 DEF B!Unneeded
        <5> QED
          BY <5>2 DEF B!Before, B!Behind
      <4> QED
        BY <1>2, <1>3, <2>2, <3>2, <3>3, <4>1 DEF Rest
    <3>4. CASE ~B!Unneeded(r, op[w])
      BY <1>2, <1>3, <2>2, <3>2, <3>4 DEF Rest
    <3> QED
      BY <3>3, <3>4
  <2> QED
    BY <2>1, <2>2
<1> QED
  BY <1>1, <1>2, <1>4, <1>5, AddWalkStep

\* A bind fails on its way: the lock is still its worker's, and what it took for the
\* range it did not make is put when it gives the lock back.
LEMMA FailsStep ==
    ASSUME BufferInv, NEW w \in Workers, op[w].at = "walk", op[w].bind, B!Goes(w, "error"),
           pt' \in [BufferPages -> Mapped],
           \A p \in BufferPages : pt'[p] = pt[p] \/ pt'[p] = "none",
           buffer' \in SceneType, failed' # {},
           "unmap" \in failed' \/ (op[w].left = {} /\ pt' = pt /\ failed \subseteq failed' /\ ranges' = ranges),
           ranges \subseteq ranges', ranges' \subseteq RangeType, IsFiniteSet(ranges'),
           \A s \in ranges' : s.start <= s.last,
           refs' \in [Children -> Int], vbo' \in [Children -> Int],
           \A c \in Children :
               /\ refs'[c] - vbo'[c] = refs[c] - vbo[c]
               /\ vbo'[c] - vbo[c]
                      >= Cardinality(OfChild(ranges', c)) - Cardinality(OfChild(ranges, c)),
           UNCHANGED <<user, target, holder>>
    PROVE  BufferInv'
<1>1. op[w].at \in Locked /\ op[w].at \in Walking
  BY DEF Locked, Walking
<1>2. /\ BufferTyped /\ op[w] \in OpType /\ OpFits(op[w]) /\ holder = w
      /\ op[w].at # "idle" /\ holder # "teardown" /\ op["teardown"].at = "idle"
      /\ op[w].start \in BufferPages /\ op[w].last \in BufferPages /\ op[w].start <= op[w].last
      /\ TableRight /\ BindRight(w)
      /\ \A p : Cleared(p) <=> /\ op[w].bind /\ op[w].at \in Walking /\ buffer.zero
                               /\ p \in op[w].start .. op[w].last
  BY <1>1, TheHolder
<1>3. PICK o : o = [op[w] EXCEPT !.at = "error"]
  OBVIOUS
<1>4. /\ op' = [op EXCEPT ![w] = o] /\ o \in OpType /\ o.at = "error" /\ o.bind
      /\ o.child = op[w].child /\ o.start = op[w].start /\ o.last = op[w].last
  BY <1>2, <1>3 DEF B!Goes, B!Becomes, OpType
<1>5. OpFits(o) /\ o.at \notin Walking /\ o.at \in Locked /\ o.at \in Making /\ op[w].at \in Making
  BY <1>1, <1>2, <1>4 DEF OpFits, Walking, Locked, Making
<1>6. op'[w] = o /\ op'["teardown"].at = "idle" /\ holder' = w
  <2>1. op'[w] = o /\ \A v \in Workers \cup {"teardown"} : v # w => op'[v] = op[v]
    BY <1>2, <1>4, WorkerMoves
  <2> QED
    BY <1>2, <2>1, BufferNames
<1>7. \A p : ~Cleared(p)' /\ ~Zeroing(p)'
  <2>1. \A p : /\ Cleared(p)' <=> /\ o.bind /\ o.at \in Walking /\ buffer'.zero
                                  /\ p \in o.start .. o.last
               /\ Zeroing(p)' <=> o.at = "zeros" /\ p \in o.put.start .. o.put.last
    BY <1>6, WhatIsCleared
  <2> QED
    BY <1>4, <1>5, <2>1
<1>8. TableRight'
  <2>1. \A c \in Children : ~Stray(c)
    BY <1>2 DEF TableRight
  <2>2. \A c \in Children : ~Stray(c)'
    BY <2>1, NoneStrays
  <2>3. ASSUME "unmap" \notin failed'
        PROVE  /\ \A s, t \in ranges' : s = t \/ s.last < t.start \/ t.last < s.start
               /\ \A s \in ranges', p \in BufferPages : Covers(s, p) => pt'[p] = s.child
    <3>1. op[w].left = {} /\ pt' = pt /\ failed \subseteq failed' /\ ranges' = ranges
      BY <2>3
    <3>2. /\ \A s, t \in ranges : s = t \/ s.last < t.start \/ t.last < s.start
          /\ \A s \in ranges, p \in BufferPages : Covers(s, p) => pt[p] = s.child \/ Cleared(p)
      BY <1>2, <2>3, <3>1 DEF TableRight
    <3>3. ASSUME NEW s \in ranges, NEW p \in BufferPages, Covers(s, p)  PROVE ~Cleared(p)
      <4>1. ~B!Overlap(s, op[w])
        BY <1>1, <1>2, <3>1 DEF BindRight
      <4>2. /\ s.start \in Nat /\ s.last \in Nat /\ op[w].start \in Nat /\ op[w].last \in Nat
        BY <1>2, Between DEF BufferTyped, RangeType
      <4>3. p \notin op[w].start .. op[w].last
        BY <3>3, <4>1, <4>2 DEF Covers, B!Overlap
      <4> QED
        BY <1>2, <4>3
    <3> QED
      BY <3>1, <3>2, <3>3
  <2> QED
    BY <1>6, <1>7, <2>2, <2>3 DEF TableRight, Covers
<1>9. BindRight(w)' /\ UnbindRight(w)'
  BY <1>4, <1>5, <1>6 DEF BindRight, UnbindRight
<1>10. ASSUME NEW c \in Children  PROVE Share(o, c) = Share(op[w], c) /\ Share(o, c) \in Nat
  <2>1. /\ OwnShare(o, c) = OwnShare(op[w], c) /\ OwnShare(o, c) \in Nat
        /\ MadeShare(o, c) = MadeShare(op[w], c) /\ MadeShare(o, c) \in Nat
        /\ RemovedShare(o, c) = 0 /\ RemovedShare(op[w], c) = 0
    BY <1>2, <1>4, <1>5 DEF OwnShare, MadeShare, RemovedShare
  <2> QED
    BY <2>1 DEF Share
<1>11. ASSUME NEW c \in Children
       PROVE  vbo'[c] - vbo[c]
                  >= Cardinality(OfChild(ranges', c)) - Cardinality(OfChild(ranges, c))
                     + Share(o, c) - Share(op[w], c)
  <2>1. IsFiniteSet(ranges)
    BY <1>2 DEF BufferTyped
  <2>2. Cardinality(OfChild(ranges, c)) \in Nat /\ Cardinality(OfChild(ranges', c)) \in Nat
    BY <2>1, RangesCount
  <2> QED
    BY <1>10, <2>2
<1>12. /\ holder \in {w, "none"} /\ holder' = (IF o.at \in Locked THEN w ELSE "none")
       /\ o.at # "idle" /\ target' = target /\ user' = user
  BY <1>2, <1>4, <1>5, <1>6
<1> QED
  BY <1>2, <1>4, <1>5, <1>8, <1>9, <1>11, <1>12, LockedStep

\* The unmap of a range's part of the window fails.
LEMMA AddWalkFailsKeeps == ASSUME BufferInv, NEW w \in Workers, B!AddWalkFails(w)  PROVE BufferInv'
<1>1. /\ op[w].at = "walk" /\ op[w].bind /\ UNCHANGED <<user, target, holder>>
      /\ B!Goes(w, "error")
  BY DEF B!AddWalkFails
<1>2. PICK r \in op[w].left :
        /\ B!UnmapFails(B!Span(r) \cap B!Window(op[w]))
        /\ IF B!Splits(r, op[w])
           THEN /\ B!Gets(r.child)
                /\ \E i \in B!Ids :
                       /\ B!NewId(i)
                       /\ ranges' = ranges \cup {[s EXCEPT !.id = i] : s \in B!Behind(r, op[w])}
           ELSE UNCHANGED <<ranges, refs, vbo>>
  BY DEF B!AddWalkFails
<1>3. op[w].at \in Locked /\ op[w].at \in Walking
  BY <1>1 DEF Locked, Walking
<1>4. /\ BufferTyped /\ BindRight(w) /\ op[w].left \subseteq ranges
      /\ op[w].start \in BufferPages /\ op[w].last \in BufferPages /\ op[w].start <= op[w].last
  BY <1>3, TheHolder
<1>5. /\ r \in ranges /\ r \in RangeType /\ r.child \in Children /\ r.start <= r.last
      /\ B!Overlap(r, op[w]) /\ IsFiniteSet(ranges) /\ ranges \subseteq RangeType
      /\ \A s \in ranges : s.start <= s.last
      /\ refs \in [Children -> Int] /\ vbo \in [Children -> Int]
  BY <1>1, <1>3, <1>4 DEF BufferTyped, RangeType, BindRight
<1>6. /\ pt' \in [BufferPages -> Mapped] /\ "unmap" \in failed' /\ buffer' \in SceneType
      /\ \A p \in BufferPages : pt'[p] = pt[p] \/ pt'[p] = "none"
  BY <1>2, <1>4, UnmapGoesWrong
<1>7. CASE B!Splits(r, op[w])
  <2>1. PICK i \in B!Ids : ranges' = ranges \cup {[s EXCEPT !.id = i] : s \in B!Behind(r, op[w])}
    BY <1>2, <1>7
  <2>2. i \in Int
    BY DEF B!Ids
  <2>3. ranges' = ranges \cup Far(r, op[w], i)
    BY <2>1, Zenon DEF Far
  <2>4. PICK b, a :
          /\ b.start = r.start /\ b.last = op[w].start - 1 /\ b.child = r.child /\ b.id = r.id
          /\ a.start = op[w].last + 1 /\ a.last = r.last /\ a.child = r.child /\ a.id = i
          /\ op[w].start - 1 \in BufferPages => b \in RangeType
          /\ op[w].last + 1 \in BufferPages => a \in RangeType
          /\ B!Before(r, op[w]) = IF r.start < op[w].start THEN {b} ELSE {}
          /\ Far(r, op[w], i) = IF op[w].last < r.last THEN {a} ELSE {}
    BY <1>5, <2>2, RestIs
  <2>5. ranges' = ranges \cup {a} /\ a \in Rest(r, op[w], i) /\ a.child = r.child
    BY <1>7, <2>3, <2>4 DEF B!Splits, Rest
  <2>6. a \in RangeType /\ a.start <= a.last
    BY <1>4, <1>5, <2>2, <2>5, RestRight
  <2>7. IsFiniteSet(ranges')
    BY <1>5, <2>5, RangesCount
  <2>8. /\ ranges \subseteq ranges' /\ ranges' \subseteq RangeType
        /\ \A s \in ranges' : s.start <= s.last
    BY <1>5, <2>5, <2>6
  <2>9. /\ refs' \in [Children -> Int] /\ vbo' \in [Children -> Int]
        /\ \A x \in Children : /\ refs'[x] - vbo'[x] = refs[x] - vbo[x]
                               /\ vbo'[x] - vbo[x] = IF x = r.child THEN 1 ELSE 0
    BY <1>2, <1>4, <1>5, <1>7, GetsIt
  <2>10. ASSUME NEW c \in Children
         PROVE  vbo'[c] - vbo[c]
                    >= Cardinality(OfChild(ranges', c)) - Cardinality(OfChild(ranges, c))
    <3>1. /\ Cardinality(OfChild(ranges, c)) \in Nat /\ Cardinality(OfChild(ranges', c)) \in Nat
          /\ Cardinality(OfChild(ranges', c))
                 <= Cardinality(OfChild(ranges, c)) + (IF a.child = c THEN 1 ELSE 0)
      BY <1>5, <2>5, RangesCount
    <3>2. vbo'[c] - vbo[c] = (IF a.child = c THEN 1 ELSE 0)
      BY <2>5, <2>9
    <3> QED
      BY <3>1, <3>2
  <2> QED
    BY <1>1, <1>6, <2>7, <2>8, <2>9, <2>10, FailsStep
<1>8. CASE ~B!Splits(r, op[w])
  <2>1. UNCHANGED <<ranges, refs, vbo>>
    BY <1>2, <1>8
  <2>2. ASSUME NEW c \in Children
        PROVE  /\ vbo'[c] - vbo[c]
                      >= Cardinality(OfChild(ranges', c)) - Cardinality(OfChild(ranges, c))
               /\ refs'[c] - vbo'[c] = refs[c] - vbo[c]
    <3>1. Cardinality(OfChild(ranges, c)) \in Nat
      BY <1>5, RangesCount
    <3> QED
      BY <1>5, <2>1, <3>1
  <2>3. /\ ranges \subseteq ranges' /\ ranges' \subseteq RangeType /\ IsFiniteSet(ranges')
        /\ \A s \in ranges' : s.start <= s.last
        /\ refs' \in [Children -> Int] /\ vbo' \in [Children -> Int]
    BY <1>5, <2>1
  <2> QED
    BY <1>1, <1>6, <2>2, <2>3, FailsStep
<1> QED
  BY <1>7, <1>8

\* The window is empty and the child is mapped.
LEMMA AddMapsKeeps == ASSUME BufferInv, NEW w \in Workers, B!AddMaps(w)  PROVE BufferInv'
<1>1. /\ op[w].at = "walk" /\ op[w].bind /\ op[w].left = {}
      /\ UNCHANGED <<refs, vbo, user, target, holder>>
  BY DEF B!AddMaps
<1>2. op[w].at \in Locked /\ op[w].at \in Walking
  BY <1>1 DEF Locked, Walking
<1>3. /\ BufferTyped /\ op[w] \in OpType /\ OpFits(op[w]) /\ holder = w
      /\ op[w].at # "idle" /\ holder # "teardown" /\ op["teardown"].at = "idle"
      /\ op[w].start \in BufferPages /\ op[w].last \in BufferPages /\ op[w].start <= op[w].last
      /\ (op[w].bind => op[w].child \in Children) /\ TableRight /\ BindRight(w)
      /\ \A p : /\ Cleared(p) <=> /\ op[w].bind /\ op[w].at \in Walking /\ buffer.zero
                                  /\ p \in op[w].start .. op[w].last
                /\ Zeroing(p) <=> op[w].at = "zeros" /\ p \in op[w].put.start .. op[w].put.last
  BY <1>2, TheHolder
<1>4. /\ IsFiniteSet(ranges) /\ ranges \subseteq RangeType /\ \A s \in ranges : s.start <= s.last
      /\ refs \in [Children -> Int] /\ vbo \in [Children -> Int] /\ buffer \in SceneType
      /\ pt \in [BufferPages -> Mapped] /\ op[w].child \in Children
  BY <1>1, <1>3 DEF BufferTyped
<1>5. CASE /\ "map" \in buffer.fails
           /\ buffer' = [buffer EXCEPT !.fails = @ \ {"map"}]
           /\ failed' = failed \cup {"map"}
           /\ B!Goes(w, "error")
           /\ UNCHANGED <<pt, ranges>>
  <2>1. buffer' \in SceneType
    BY <1>4, <1>5 DEF SceneType
  <2>2. ASSUME NEW c \in Children
        PROVE  /\ vbo'[c] - vbo[c]
                      >= Cardinality(OfChild(ranges', c)) - Cardinality(OfChild(ranges, c))
               /\ refs'[c] - vbo'[c] = refs[c] - vbo[c]
    <3>1. Cardinality(OfChild(ranges, c)) \in Nat
      BY <1>4, RangesCount
    <3> QED
      BY <1>1, <1>4, <1>5, <3>1
  <2>3. /\ ranges \subseteq ranges' /\ ranges' \subseteq RangeType /\ IsFiniteSet(ranges')
        /\ \A s \in ranges' : s.start <= s.last
        /\ refs' \in [Children -> Int] /\ vbo' \in [Children -> Int]
        /\ pt' \in [BufferPages -> Mapped] /\ failed' # {}
        /\ \A p \in BufferPages : pt'[p] = pt[p] \/ pt'[p] = "none"
        /\ op[w].left = {} /\ pt' = pt /\ failed \subseteq failed' /\ ranges' = ranges
    BY <1>1, <1>4, <1>5
  <2> QED
    BY <1>1, <1>5, <2>1, <2>2, <2>3, FailsStep
<1>6. CASE /\ B!Maps(B!Window(op[w]), op[w].child)
           /\ \E i \in B!Ids : /\ B!NewId(i)
                               /\ ranges' = ranges \cup {[id |-> i, start |-> op[w].start,
                                               last |-> op[w].last, child |-> op[w].child]}
           /\ B!Goes(w, "mapped")
           /\ UNCHANGED <<buffer, failed>>
  <2>1. PICK i \in B!Ids : ranges' = ranges \cup {[id |-> i, start |-> op[w].start,
                                               last |-> op[w].last, child |-> op[w].child]}
    BY <1>6
  <2>2. PICK n : n = [id |-> i, start |-> op[w].start, last |-> op[w].last, child |-> op[w].child]
    OBVIOUS
  <2>3. /\ n \in RangeType /\ n.start = op[w].start /\ n.last = op[w].last
        /\ n.child = op[w].child /\ ranges' = ranges \cup {n}
    BY <1>3, <1>4, <2>1, <2>2 DEF RangeType, B!Ids
  <2>4. PICK o : o = [op[w] EXCEPT !.at = "mapped"]
    OBVIOUS
  <2>5. /\ op' = [op EXCEPT ![w] = o] /\ o \in OpType /\ o.at = "mapped" /\ o.bind
        /\ o.child = op[w].child /\ o.start = op[w].start /\ o.last = op[w].last
        /\ o.before = op[w].before
    BY <1>1, <1>3, <1>6, <2>4 DEF B!Goes, B!Becomes, OpType
  <2>6. /\ OpFits(o) /\ o.at \notin Walking /\ o.at \in Locked /\ o.at \notin Making
        /\ op[w].at \in Making /\ o.at # "idle"
    BY <1>1, <1>2, <1>3, <2>5 DEF OpFits, Walking, Locked, Making
  <2>7. op'[w] = o /\ op'["teardown"].at = "idle" /\ holder' = w
    <3>1. op'[w] = o /\ \A v \in Workers \cup {"teardown"} : v # w => op'[v] = op[v]
      BY <1>3, <2>5, WorkerMoves
    <3> QED
      BY <1>1, <1>3, <3>1, BufferNames
  <2>8. \A p : /\ ~Cleared(p)' /\ ~Zeroing(p)' /\ ~Zeroing(p)
               /\ Cleared(p) <=> buffer.zero /\ p \in op[w].start .. op[w].last
    <3>1. \A p : /\ Cleared(p)' <=> /\ o.bind /\ o.at \in Walking /\ buffer'.zero
                                    /\ p \in o.start .. o.last
                 /\ Zeroing(p)' <=> o.at = "zeros" /\ p \in o.put.start .. o.put.last
      BY <2>7, WhatIsCleared
    <3> QED
      BY <1>1, <1>2, <1>3, <2>5, <2>6, <3>1
  <2>9. /\ pt' \in [BufferPages -> Mapped]
        /\ \A p \in BufferPages :
               pt'[p] = IF p \in op[w].start .. op[w].last THEN op[w].child ELSE pt[p]
    BY <1>4, <1>6 DEF B!Maps, B!Window, Mapped
  <2>10. ASSUME NEW s \in ranges, NEW p \in BufferPages, Covers(s, p)
         PROVE  p \notin op[w].start .. op[w].last
    <3>1. ~B!Overlap(s, op[w])
      BY <1>1, <1>2, <1>3 DEF BindRight
    <3>2. /\ s.start \in Nat /\ s.last \in Nat /\ op[w].start \in Nat /\ op[w].last \in Nat
      BY <1>3, <1>4, Between DEF RangeType
    <3> QED
      BY <2>10, <3>1, <3>2 DEF Covers, B!Overlap
  <2>11. TableRight'
    <3>1. \A c \in Children : ~Stray(c)'
      <4> SUFFICES ASSUME NEW c \in Children, NEW p \in BufferPages, pt'[p] = c
                   PROVE  \E s \in ranges' : s.child = c /\ Covers(s, p)
        BY DEF Stray, Covers
      <4>1. CASE p \in op[w].start .. op[w].last
        <5>1. Covers(n, p) /\ n.child = c
          BY <2>3, <2>9, <4>1 DEF Covers
        <5> QED
          BY <2>3, <5>1
      <4>2. CASE p \notin op[w].start .. op[w].last
        <5>1. pt[p] = c
          BY <2>9, <4>2
        <5> QED
          BY <1>3, <2>3, <5>1 DEF TableRight, Stray
      <4> QED
        BY <4>1, <4>2
    <3>2. ASSUME "unmap" \notin failed
          PROVE  /\ \A s, t \in ranges' : s = t \/ s.last < t.start \/ t.last < s.start
                 /\ \A s \in ranges', p \in BufferPages : Covers(s, p) => pt'[p] = s.child
      <4>1. /\ \A s, t \in ranges : s = t \/ s.last < t.start \/ t.last < s.start
            /\ \A s \in ranges, p \in BufferPages : Covers(s, p) => pt[p] = s.child \/ Cleared(p)
        BY <1>3, <3>2 DEF TableRight
      <4>2. ASSUME NEW s \in ranges  PROVE s.last < n.start \/ n.last < s.start
        <5>1. ~B!Overlap(s, op[w])
          BY <1>1, <1>2, <1>3 DEF BindRight
        <5>2. /\ s.start \in Nat /\ s.last \in Nat /\ op[w].start \in Nat /\ op[w].last \in Nat
          BY <1>3, <1>4, Between DEF RangeType
        <5> QED
          BY <2>3, <5>1, <5>2 DEF B!Overlap
      <4>3. ASSUME NEW s \in ranges', NEW p \in BufferPages, Covers(s, p)  PROVE pt'[p] = s.child
        <5>1. CASE s \in ranges
          BY <2>8, <2>9, <2>10, <4>1, <4>3, <5>1
        <5>2. CASE s = n
          BY <2>3, <2>9, <4>3, <5>2 DEF Covers
        <5> QED
          BY <2>3, <5>1, <5>2
      <4>4. \A s, t \in ranges' : s = t \/ s.last < t.start \/ t.last < s.start
        BY <2>3, <4>1, <4>2
      <4> QED
        BY <4>3, <4>4
    <3>3. buffer.zero /\ failed = {} => \A p \in BufferPages : pt'[p] # "none"
      <4>1. ASSUME buffer.zero, failed = {}, NEW p \in BufferPages, pt'[p] = "none"  PROVE FALSE
        <5>1. p \notin op[w].start .. op[w].last /\ pt[p] = "none"
          BY <1>4, <2>9, <4>1, BufferNames
        <5>2. Cleared(p) \/ Zeroing(p)
          BY <1>3, <4>1, <5>1 DEF TableRight
        <5> QED
          BY <2>8, <5>1, <5>2
      <4> QED
        BY <4>1
    <3> QED
      BY <1>6, <2>7, <2>8, <3>1, <3>2, <3>3 DEF TableRight, Covers
  <2>12. BindRight(w)'
    <3>1. ASSUME NEW p \in BufferPages
          PROVE  pt'[p] = IF p \in o.start .. o.last THEN o.child ELSE o.before[p]
      <4>1. p \notin op[w].start .. op[w].last => pt[p] = op[w].before[p]
        BY <1>1, <1>2, <1>3 DEF BindRight, B!Window
      <4> QED
        BY <2>5, <2>9, <4>1
    <3> QED
      BY <2>5, <2>6, <2>7, <3>1 DEF BindRight, B!Window
  <2>13. UnbindRight(w)'
    BY <2>5, <2>7 DEF UnbindRight
  <2>14. ASSUME NEW c \in Children
         PROVE  /\ vbo'[c] - vbo[c]
                       >= Cardinality(OfChild(ranges', c)) - Cardinality(OfChild(ranges, c))
                          + Share(o, c) - Share(op[w], c)
                /\ refs'[c] - vbo'[c] = refs[c] - vbo[c]
    <3>1. /\ OwnShare(o, c) = OwnShare(op[w], c) /\ OwnShare(o, c) \in Nat
          /\ MadeShare(o, c) = 0 /\ MadeShare(op[w], c) = (IF op[w].child = c THEN 1 ELSE 0)
          /\ RemovedShare(o, c) = 0 /\ RemovedShare(op[w], c) = 0
      BY <1>1, <1>3, <2>5, <2>6 DEF OwnShare, MadeShare, RemovedShare
    <3>2. /\ Share(op[w], c) = Share(o, c) + (IF op[w].child = c THEN 1 ELSE 0)
          /\ Share(o, c) \in Nat
      BY <3>1 DEF Share
    <3>3. /\ Cardinality(OfChild(ranges, c)) \in Nat /\ Cardinality(OfChild(ranges', c)) \in Nat
          /\ Cardinality(OfChild(ranges', c))
                 <= Cardinality(OfChild(ranges, c)) + (IF n.child = c THEN 1 ELSE 0)
      BY <1>4, <2>3, RangesCount
    <3>4. vbo'[c] - vbo[c] = 0 /\ refs'[c] - vbo'[c] = refs[c] - vbo[c]
      BY <1>1, <1>4
    <3> QED
      BY <2>3, <3>2, <3>3, <3>4
  <2>15. /\ ranges' \subseteq RangeType /\ IsFiniteSet(ranges')
         /\ \A s \in ranges' : s.start <= s.last
         /\ buffer' \in SceneType /\ refs' \in [Children -> Int] /\ vbo' \in [Children -> Int]
    <3>1. IsFiniteSet(ranges')
      BY <1>4, <2>3, RangesCount
    <3> QED
      BY <1>1, <1>3, <1>4, <1>6, <2>3, <3>1
  <2>16. /\ holder \in {w, "none"} /\ holder' = (IF o.at \in Locked THEN w ELSE "none")
         /\ target' = target /\ user' = user
    BY <1>1, <1>3, <2>6, <2>7
  <2> QED
    BY <1>3, <2>5, <2>6, <2>9, <2>11, <2>12, <2>13, <2>14, <2>15, <2>16, LockedStep
<1> QED
  BY <1>5, <1>6 DEF B!AddMaps

\* What the operations hold when none of them moves, and when there are none
LEMMA HeldSame ==
    ASSUME \A v \in Workers : op'[v] = op[v]
    PROVE  /\ Active' = Active /\ Cardinality(Active) \in Nat
           /\ \A c : Held(c)' = Held(c) /\ Held(c) \in Nat
           /\ Cardinality(Active) = 0 => \A v \in Workers : op[v].at = "idle"
<1>1. /\ Active' = Active /\ Active \in SUBSET Workers /\ IsFiniteSet(Workers)
      /\ \A c : /\ Owned(c)' = Owned(c) /\ Made(c)' = Made(c) /\ Removed(c)' = Removed(c)
                /\ Owned(c) \in SUBSET Workers /\ Made(c) \in SUBSET Workers
                /\ Removed(c) \in SUBSET Workers
  BY BufferNames DEF Active, Owned, Made, Removed
<1>2. \A X \in SUBSET Workers :
          /\ IsFiniteSet(X) /\ Cardinality(X) \in Nat /\ (Cardinality(X) = 0 <=> X = {})
  <2>1. ASSUME NEW X \in SUBSET Workers
        PROVE  IsFiniteSet(X) /\ Cardinality(X) \in Nat /\ (Cardinality(X) = 0 <=> X = {})
    <3>1. IsFiniteSet(X)
      BY <1>1, FS_Subset
    <3> QED
      BY <3>1, FS_CardinalityType, FS_EmptySet
  <2> QED
    BY <2>1
<1>3. ASSUME NEW c  PROVE Held(c)' = Held(c) /\ Held(c) \in Nat
  <2>1. /\ Cardinality(Owned(c)) \in Nat /\ Cardinality(Made(c)) \in Nat
        /\ Cardinality(Removed(c)) \in Nat
    BY <1>1, <1>2
  <2>2. Held(c)' = Held(c)
    BY <1>1 DEF Held
  <2> QED
    BY <2>1, <2>2 DEF Held
<1>4. Cardinality(Active) = 0 => \A v \in Workers : op[v].at = "idle"
  <2>1. Cardinality(Active) = 0 => Active = {}
    BY <1>1, <1>2
  <2> QED
    BY <2>1 DEF Active
<1> QED
  BY <1>1, <1>2, <1>3, <1>4

\* A step of the teardown: no operation is left.
LEMMA TornStep ==
    ASSUME BufferInv, \A v \in Workers : op'[v] = op[v] /\ op[v].at = "idle",
           op'["teardown"] \in OpType, op' \in [Workers \cup {"teardown"} -> OpType],
           op'["teardown"].at \in {"tear", "keep"}, holder' = "teardown", target = 0,
           pt' \in [BufferPages -> Mapped], buffer' \in SceneType,
           buffer'.zero /\ op'["teardown"].at = "tear" => \A p \in BufferPages : pt'[p] = "none",
           ranges' \subseteq ranges, IsFiniteSet(ranges'),
           refs' \in [Children -> Int], vbo' \in [Children -> Int],
           UNCHANGED <<user, target>>,
           \A c \in Children :
               /\ refs'[c] - vbo'[c] = refs[c] - vbo[c]
               /\ vbo'[c] - vbo[c]
                      >= Cardinality(OfChild(ranges', c)) - Cardinality(OfChild(ranges, c))
                         + (IF Stray(c)' THEN 1 ELSE 0) - (IF Stray(c) THEN 1 ELSE 0)
    PROVE  BufferInv'
<1>1. /\ BufferTyped /\ TargetRight
      /\ \A v \in Workers : OpRight(v)
      /\ \A c \in Children : ChildRight(c)
  BY DEF BufferInv
<1>2. BufferTyped'
  BY <1>1 DEF BufferTyped
<1>3. TargetRight'
  BY <1>1, HeldSame DEF TargetRight
<1>4. \A p : ~Cleared(p)' /\ ~Zeroing(p)'
  BY BufferNames DEF Cleared, Zeroing
<1>5. TableRight'
  BY <1>4 DEF TableRight
<1>6. \A v \in Workers : OpRight(v)' /\ BindRight(v)' /\ UnbindRight(v)'
  <2> SUFFICES ASSUME NEW v \in Workers  PROVE OpRight(v)' /\ BindRight(v)' /\ UnbindRight(v)'
    OBVIOUS
  <2>1. /\ op'[v] = op[v] /\ op[v].at \notin Locked /\ op[v].at \notin Walking
        /\ op[v].at # "mapped" /\ v # "teardown"
    BY BufferNames DEF Locked, Walking
  <2> QED
    BY <1>1, <2>1 DEF OpRight, BindRight, UnbindRight
<1>7. ASSUME NEW c \in Children  PROVE ChildRight(c)'
  <2>1. /\ vbo[c] >= Cardinality(OfChild(ranges, c)) + Held(c) + (IF Stray(c) THEN 1 ELSE 0)
        /\ refs[c] >= vbo[c] + (IF user[c] # "put" THEN 1 ELSE 0)
    BY <1>1 DEF ChildRight
  <2>2. /\ Cardinality(OfChild(ranges, c)) \in Nat /\ Cardinality(OfChild(ranges', c)) \in Nat
    BY <1>1, RangesCount DEF BufferTyped
  <2>3. Held(c)' = Held(c) /\ Held(c) \in Nat
    BY HeldSame
  <2>4. vbo[c] \in Int /\ refs[c] \in Int /\ vbo'[c] \in Int /\ refs'[c] \in Int
    BY <1>1 DEF BufferTyped
  <2>5. PICK s, t \in {0, 1} : s = (IF Stray(c) THEN 1 ELSE 0) /\ t = (IF Stray(c)' THEN 1 ELSE 0)
    OBVIOUS
  <2>6. vbo'[c] - vbo[c]
            >= Cardinality(OfChild(ranges', c)) - Cardinality(OfChild(ranges, c)) + t - s
    BY <2>5
  <2>7. vbo[c] >= Cardinality(OfChild(ranges, c)) + Held(c) + s
    BY <2>1, <2>5
  <2>8. vbo'[c] >= Cardinality(OfChild(ranges', c)) + Held(c) + t
    BY <2>2, <2>3, <2>4, <2>6, <2>7
  <2>9. vbo'[c] >= Cardinality(OfChild(ranges', c)) + Held(c)' + (IF Stray(c)' THEN 1 ELSE 0)
    BY <2>3, <2>5, <2>8
  <2>10. refs'[c] >= vbo'[c] + (IF user'[c] # "put" THEN 1 ELSE 0)
    BY <2>1, <2>4
  <2>11. OfChild(ranges, c)' = OfChild(ranges', c)
    BY DEF OfChild
  <2> QED
    BY <2>9, <2>10, <2>11 DEF ChildRight
<1> QED
  BY <1>2, <1>3, <1>5, <1>6, <1>7 DEF BufferInv

\* The last reference is gone, and the buffer is torn down.
LEMMA TearStartsKeeps == ASSUME BufferInv, B!TearStarts  PROVE BufferInv'
<1>1. /\ target = 0 /\ holder = "none" /\ holder' = "teardown"
      /\ UNCHANGED <<ranges, refs, vbo, user, target>>
  BY DEF B!TearStarts, B!Teardown
<1>2. BufferTyped /\ TargetRight /\ TableRight /\ \A v \in Workers : OpRight(v)
  BY DEF BufferInv
<1>3. PICK j : j = B!Idle
  OBVIOUS
<1>4. PICK q : q = [j EXCEPT !.at = "tear", !.left = ranges]
  OBVIOUS
<1>5. PICK k : k = [q EXCEPT !.at = "keep"]
  OBVIOUS
<1>6. q \in OpType /\ q.at = "tear" /\ k \in OpType /\ k.at = "keep"
  <2>1. j \in OpType
    BY <1>3, IdleIs
  <2>2. ranges \in SUBSET RangeType
    BY <1>2 DEF BufferTyped
  <2>3. q \in OpType /\ q.at = "tear"
    BY <1>4, <2>1, <2>2 DEF OpType
  <2> QED
    BY <1>5, <2>3 DEF OpType
<1>7. \A o \in OpType : B!Becomes("teardown", o) =>
          /\ op'["teardown"] = o /\ op' \in [Workers \cup {"teardown"} -> OpType]
          /\ \A v \in Workers : op'[v] = op[v]
  BY <1>2, BufferNames DEF BufferTyped, B!Becomes
<1>8. ASSUME \A v \in Workers : op'[v] = op[v]  PROVE \A v \in Workers : op[v].at = "idle"
  <2>1. Cardinality(Active) \in Nat
    BY <1>8, HeldSame
  <2>2. Cardinality(Active) = 0
    BY <1>1, <1>2, <2>1 DEF TargetRight
  <2> QED
    BY <1>8, <2>2, HeldSame
<1>9. \A c \in Children : ~Stray(c)
  <2>1. holder # "teardown"
    BY <1>1
  <2> QED
    BY <1>2, <2>1 DEF TableRight
<1>10. ASSUME pt' \in [BufferPages -> Mapped], buffer' \in SceneType,
              \A p \in BufferPages : pt'[p] = pt[p] \/ pt'[p] = "none",
              NEW o \in OpType, B!Becomes("teardown", o), o.at \in {"tear", "keep"},
              buffer'.zero /\ o.at = "tear" => \A p \in BufferPages : pt'[p] = "none"
       PROVE  BufferInv'
  <2>1. /\ op'["teardown"] = o /\ op' \in [Workers \cup {"teardown"} -> OpType]
        /\ \A v \in Workers : op'[v] = op[v]
    BY <1>7, <1>10
  <2>2. \A v \in Workers : op[v].at = "idle"
    BY <1>8, <2>1
  <2>3. \A c \in Children : ~Stray(c)'
    BY <1>1, <1>9, <1>10, NoneStrays
  <2>4. ranges' \subseteq ranges /\ IsFiniteSet(ranges')
    BY <1>1, <1>2 DEF BufferTyped
  <2>5. ASSUME NEW c \in Children
        PROVE  /\ refs'[c] - vbo'[c] = refs[c] - vbo[c]
               /\ vbo'[c] - vbo[c]
                      >= Cardinality(OfChild(ranges', c)) - Cardinality(OfChild(ranges, c))
                         + (IF Stray(c)' THEN 1 ELSE 0) - (IF Stray(c) THEN 1 ELSE 0)
    <3>1. Cardinality(OfChild(ranges, c)) \in Nat
      BY <1>2, RangesCount DEF BufferTyped
    <3>2. vbo[c] \in Int /\ refs[c] \in Int /\ ~Stray(c) /\ ~Stray(c)'
      BY <1>2, <1>9, <2>3 DEF BufferTyped
    <3>3. (IF Stray(c)' THEN 1 ELSE 0) = 0 /\ (IF Stray(c) THEN 1 ELSE 0) = 0
      BY <3>2
    <3>4. vbo'[c] = vbo[c] /\ refs'[c] = refs[c] /\ ranges' = ranges
      BY <1>1
    <3> QED
      BY <3>1, <3>2, <3>3, <3>4
  <2>6. refs' \in [Children -> Int] /\ vbo' \in [Children -> Int]
    BY <1>1, <1>2 DEF BufferTyped
  <2> QED
    BY <1>1, <1>10, <2>1, <2>2, <2>4, <2>5, <2>6, TornStep
<1>11. CASE ~buffer.zero
  <2>1. B!Becomes("teardown", q) /\ UNCHANGED <<buffer, failed, pt>>
    BY <1>3, <1>4, <1>11, Zenon DEF B!TearStarts, B!Teardown
  <2>2. /\ pt' \in [BufferPages -> Mapped] /\ buffer' \in SceneType
        /\ \A p \in BufferPages : pt'[p] = pt[p] \/ pt'[p] = "none"
    BY <1>2, <2>1 DEF BufferTyped
  <2> QED
    BY <1>6, <1>10, <1>11, <2>1, <2>2
<1>12. CASE buffer.zero
  <2>1. \/ B!Unmaps(BufferPages) /\ B!Becomes("teardown", q)
        \/ B!UnmapFails(BufferPages) /\ B!Becomes("teardown", k)
    BY <1>3, <1>4, <1>5, <1>12, Zenon DEF B!TearStarts, B!Teardown
  <2>2. CASE B!Unmaps(BufferPages) /\ B!Becomes("teardown", q)
    <3>1. /\ pt' \in [BufferPages -> Mapped] /\ UNCHANGED <<buffer, failed>>
          /\ \A p \in BufferPages : pt'[p] = "none"
      BY <1>2, <2>2, UnmapsThem
    <3>2. buffer' \in SceneType
      BY <1>2, <3>1 DEF BufferTyped
    <3> QED
      BY <1>6, <1>10, <2>2, <3>1, <3>2
  <2>3. CASE B!UnmapFails(BufferPages) /\ B!Becomes("teardown", k)
    <3>1. /\ pt' \in [BufferPages -> Mapped] /\ buffer' \in SceneType
          /\ \A p \in BufferPages : pt'[p] = pt[p] \/ pt'[p] = "none"
      BY <1>2, <2>3, UnmapGoesWrong
    <3> QED
      BY <1>6, <1>10, <2>3, <3>1
  <2> QED
    BY <2>1, <2>2, <2>3
<1> QED
  BY <1>11, <1>12

\* A range goes with the buffer, and keeps its child when it cannot be unmapped.
LEMMA TearWalkKeeps == ASSUME BufferInv, B!TearWalk  PROVE BufferInv'
<1>1. op["teardown"].at \in {"tear", "keep"} /\ UNCHANGED <<user, target, holder, op>>
  BY DEF B!TearWalk, B!Teardown
<1>2. PICK r \in ranges :
        /\ ranges' = ranges \ {r}
        /\ IF buffer.zero
           THEN /\ UNCHANGED <<buffer, failed, pt>>
                /\ IF op["teardown"].at = "tear" THEN B!Puts(r.child) ELSE UNCHANGED <<refs, vbo>>
           ELSE \/ B!Unmaps(B!Span(r)) /\ B!Puts(r.child)
                \/ B!UnmapFails(B!Span(r)) /\ UNCHANGED <<refs, vbo>>
  BY DEF B!TearWalk, B!Teardown
<1>3. BufferTyped /\ TargetRight /\ TableRight
  BY DEF BufferInv
<1>4. holder = "teardown" /\ target = 0 /\ holder' = "teardown"
  BY <1>1, <1>3 DEF TargetRight
<1>5. \A v \in Workers : op'[v] = op[v] /\ op[v].at = "idle"
  <2>1. \A v \in Workers : op'[v] = op[v]
    BY <1>1
  <2>2. Cardinality(Active) \in Nat
    BY <2>1, HeldSame
  <2>3. Cardinality(Active) = 0
    BY <1>3, <1>4, <2>2 DEF TargetRight
  <2> QED
    BY <2>1, <2>3, HeldSame
<1>6. r.child \in Children /\ IsFiniteSet(ranges) /\ refs \in [Children -> Int] /\ vbo \in [Children -> Int]
  BY <1>3 DEF BufferTyped, RangeType
<1>7. \A c \in Children :
          /\ Cardinality(OfChild(ranges, c)) \in Nat /\ IsFiniteSet(ranges')
          /\ Cardinality(OfChild(ranges', c))
                 = Cardinality(OfChild(ranges, c)) - (IF r.child = c THEN 1 ELSE 0)
  BY <1>2, <1>6, RangesCount
<1>8. /\ op'["teardown"] \in OpType /\ op' \in [Workers \cup {"teardown"} -> OpType]
      /\ op'["teardown"].at = op["teardown"].at /\ ranges' \subseteq ranges
  BY <1>1, <1>2, <1>3 DEF BufferTyped
<1>9. IsFiniteSet(ranges')
  BY <1>2, <1>6, FS_RemoveElement
<1>10. ASSUME pt' \in [BufferPages -> Mapped], buffer' \in SceneType, buffer'.zero = buffer.zero,
              buffer.zero => pt' = pt, B!Puts(r.child), \A c \in Children : Stray(c)' => Stray(c)
       PROVE  BufferInv'
  <2>1. /\ refs' \in [Children -> Int] /\ vbo' \in [Children -> Int]
        /\ \A x \in Children : /\ refs'[x] - vbo'[x] = refs[x] - vbo[x]
                               /\ vbo'[x] - vbo[x] = IF x = r.child THEN -1 ELSE 0
    BY <1>3, <1>6, <1>10, PutsIt
  <2>2. ASSUME NEW c \in Children
        PROVE  vbo'[c] - vbo[c]
                   >= Cardinality(OfChild(ranges', c)) - Cardinality(OfChild(ranges, c))
                      + (IF Stray(c)' THEN 1 ELSE 0) - (IF Stray(c) THEN 1 ELSE 0)
    <3>1. PICK s, t \in {0, 1} : s = (IF Stray(c) THEN 1 ELSE 0) /\ t = (IF Stray(c)' THEN 1 ELSE 0)
      OBVIOUS
    <3>2. t <= s
      BY <1>10, <3>1
    <3>3. vbo'[c] - vbo[c] >= Cardinality(OfChild(ranges', c)) - Cardinality(OfChild(ranges, c)) + t - s
      BY <1>7, <2>1, <3>1, <3>2
    <3> QED
      BY <3>1, <3>3
  <2>3. buffer'.zero /\ op'["teardown"].at = "tear" => \A p \in BufferPages : pt'[p] = "none"
    BY <1>3, <1>8, <1>10 DEF TableRight
  <2> QED
    BY <1>1, <1>4, <1>5, <1>8, <1>9, <1>10, <2>1, <2>2, <2>3, TornStep
<1>11. ASSUME pt' \in [BufferPages -> Mapped], buffer' \in SceneType, buffer'.zero = buffer.zero,
              buffer.zero => pt' = pt, UNCHANGED <<refs, vbo>>,
              \A p \in BufferPages : pt'[p] = pt[p] \/ pt'[p] = "none"
       PROVE  BufferInv'
  <2>1. refs' \in [Children -> Int] /\ vbo' \in [Children -> Int]
    BY <1>6, <1>11
  <2>2. ASSUME NEW c \in Children, c # r.child, Stray(c)'  PROVE Stray(c)
    <3>1. PICK p \in BufferPages : pt'[p] = c /\ \A s \in ranges' : ~(s.child = c /\ Covers(s, p))
      BY <2>2 DEF Stray, Covers
    <3>2. pt[p] = c
      BY <1>11, <3>1, BufferNames
    <3>3. \A s \in ranges : ~(s.child = c /\ Covers(s, p))
      BY <1>2, <2>2, <3>1
    <3> QED
      BY <3>2, <3>3 DEF Stray
  <2>3. ASSUME NEW c \in Children
        PROVE  /\ refs'[c] - vbo'[c] = refs[c] - vbo[c]
               /\ vbo'[c] - vbo[c]
                      >= Cardinality(OfChild(ranges', c)) - Cardinality(OfChild(ranges, c))
                         + (IF Stray(c)' THEN 1 ELSE 0) - (IF Stray(c) THEN 1 ELSE 0)
    <3>1. PICK s, t \in {0, 1} : s = (IF Stray(c) THEN 1 ELSE 0) /\ t = (IF Stray(c)' THEN 1 ELSE 0)
      OBVIOUS
    <3>2. c # r.child => t <= s
      BY <2>2, <3>1
    <3>3. vbo'[c] = vbo[c] /\ refs'[c] = refs[c] /\ vbo[c] \in Int /\ refs[c] \in Int
      BY <1>6, <1>11
    <3>4. vbo'[c] - vbo[c] >= Cardinality(OfChild(ranges', c)) - Cardinality(OfChild(ranges, c)) + t - s
      BY <1>7, <3>1, <3>2, <3>3
    <3> QED
      BY <3>1, <3>3, <3>4
  <2>4. buffer'.zero /\ op'["teardown"].at = "tear" => \A p \in BufferPages : pt'[p] = "none"
    BY <1>3, <1>8, <1>11 DEF TableRight
  <2> QED
    BY <1>1, <1>4, <1>5, <1>8, <1>9, <1>11, <2>1, <2>3, <2>4, TornStep
<1>12. CASE buffer.zero
  <2>1. /\ UNCHANGED <<buffer, failed, pt>> /\ pt' \in [BufferPages -> Mapped]
        /\ buffer' \in SceneType
    BY <1>2, <1>3, <1>12 DEF BufferTyped
  <2>2. CASE op["teardown"].at = "tear"
    <3>1. \A p \in BufferPages : pt'[p] = "none"
      BY <1>3, <1>12, <2>1, <2>2 DEF TableRight
    <3>2. \A c \in Children : ~Stray(c)'
      BY <3>1, BufferNames DEF Stray, Covers
    <3> QED
      BY <1>2, <1>10, <1>12, <2>1, <2>2, <3>2
  <2>3. CASE op["teardown"].at # "tear"
    BY <1>2, <1>11, <1>12, <2>1, <2>3
  <2> QED
    BY <2>2, <2>3
<1>13. CASE ~buffer.zero /\ B!Unmaps(B!Span(r)) /\ B!Puts(r.child)
  <2>1. /\ pt' \in [BufferPages -> Mapped] /\ UNCHANGED <<buffer, failed>>
        /\ \A p \in BufferPages : pt'[p] = IF Covers(r, p) THEN "none" ELSE pt[p]
    BY <1>3, <1>13, UnmapsThem DEF B!Span, Covers
  <2>2. buffer' \in SceneType
    BY <1>3, <2>1 DEF BufferTyped
  <2>3. ASSUME NEW c \in Children, Stray(c)'  PROVE Stray(c)
    <3>1. PICK p \in BufferPages : pt'[p] = c /\ \A s \in ranges' : ~(s.child = c /\ Covers(s, p))
      BY <2>3 DEF Stray, Covers
    <3>2. pt[p] = c /\ ~Covers(r, p)
      BY <2>1, <3>1, BufferNames
    <3>3. \A s \in ranges : ~(s.child = c /\ Covers(s, p))
      BY <1>2, <3>1, <3>2
    <3> QED
      BY <3>2, <3>3 DEF Stray
  <2> QED
    BY <1>10, <1>13, <2>1, <2>2, <2>3
<1>14. CASE ~buffer.zero /\ B!UnmapFails(B!Span(r)) /\ UNCHANGED <<refs, vbo>>
  <2>1. /\ pt' \in [BufferPages -> Mapped] /\ buffer' \in SceneType /\ buffer'.zero = buffer.zero
        /\ \A p \in BufferPages : pt'[p] = pt[p] \/ pt'[p] = "none"
    BY <1>3, <1>14, UnmapGoesWrong
  <2> QED
    BY <1>11, <1>14, <2>1
<1> QED
  BY <1>2, <1>12, <1>13, <1>14

\* Every step keeps what a buffer maps and who holds it in order.
LEMMA BufferStep == BufferInv /\ [B!Next]_B!vars => BufferInv'
<1> SUFFICES ASSUME BufferInv, [B!Next]_B!vars  PROVE BufferInv'
  OBVIOUS
<1>1. ASSUME NEW w \in Workers,
             \/ B!CreateOp(w) \/ B!SkipsBind(w) \/ B!LooksAtChild(w) \/ B!MakesRange(w)
             \/ B!FreeOp(w)
      PROVE  BufferInv'
  BY <1>1, CreateOpKeeps, SkipsBindKeeps, LooksAtChildKeeps, MakesRangeKeeps, FreeOpKeeps
<1>2. ASSUME NEW w \in Workers,
             \/ B!AddLocks(w) \/ B!AddWalk(w) \/ B!AddWalkFails(w) \/ B!PutsChild(w)
             \/ B!AddMaps(w) \/ B!AddEnds(w) \/ B!AddErrs(w)
      PROVE  BufferInv'
  BY <1>2, AddLocksKeeps, AddWalkKeeps, AddWalkFailsKeeps, PutsChildKeeps, AddMapsKeeps,
     AddEndsKeeps, AddErrsKeeps
<1>3. ASSUME NEW w \in Workers,
             B!RemoveLocks(w) \/ B!RemoveWalk(w) \/ B!RemoveZeros(w) \/ B!RemoveEnds(w)
      PROVE  BufferInv'
  BY <1>3, RemoveLocksKeeps, RemoveWalkKeeps, RemoveZerosKeeps, RemoveEndsKeeps
<1>4. CASE \E x \in Children \cup {"buffer"} : B!Free(x)
  BY <1>4, FreesKeeps
<1>5. CASE \E c \in Children : B!PutsUser(c)
  BY <1>5, PutsUserKeeps
<1>6. CASE B!TearStarts \/ B!TearWalk
  BY <1>6, TearStartsKeeps, TearWalkKeeps
<1>7. CASE UNCHANGED B!vars
  <2>1. /\ UNCHANGED <<buffer, failed, pt, ranges, vbo, holder, op>>
        /\ UNCHANGED <<refs, user, target>>
    BY <1>7 DEF B!vars
  <2>2. BufferTyped /\ TargetRight
    BY DEF BufferInv
  <2>3. TargetRight'
    BY <2>1, <2>2 DEF TargetRight, Active
  <2>4. /\ user' \in [Children \cup {"buffer"} -> {"live", "pending", "put"}]
        /\ refs' \in [Children -> Int] /\ target' \in Int
    BY <2>1, <2>2 DEF BufferTyped
  <2>5. \A c \in Children : refs'[c] - (IF user'[c] # "put" THEN 1 ELSE 0)
                                >= refs[c] - (IF user[c] # "put" THEN 1 ELSE 0)
    <3>1. \A c \in Children : refs[c] \in Int
      BY <2>2 DEF BufferTyped
    <3> QED
      BY <2>1, <3>1
  <2> QED
    BY <2>1, <2>3, <2>4, <2>5, UserStep
<1> QED
  BY <1>1, <1>2, <1>3, <1>4, <1>5, <1>6, <1>7 DEF B!Next, B!Buffer

\* What is mapped is held, and is what was asked for.
LEMMA BufferIsKept == BufferInv => B!BuffersKept
<1> SUFFICES ASSUME BufferInv  PROVE B!BuffersKept
  OBVIOUS
<1>1. /\ BufferTyped /\ TableRight
      /\ \A v \in Workers : OpRight(v) /\ BindRight(v) /\ UnbindRight(v)
      /\ \A c \in Children : ChildRight(c)
  BY DEF BufferInv
<1>2. B!MappedIsHeld
  <2> SUFFICES ASSUME NEW p \in BufferPages, NEW c \in Children, pt[p] = c
               PROVE  refs[c] > 0 /\ vbo[c] > 0
    BY DEF B!MappedIsHeld
  <2>1. /\ vbo[c] >= Cardinality(OfChild(ranges, c)) + Held(c) + (IF Stray(c) THEN 1 ELSE 0)
        /\ refs[c] >= vbo[c] + (IF user[c] # "put" THEN 1 ELSE 0)
    BY <1>1 DEF ChildRight
  <2>2. Held(c) \in Nat
    <3>1. IsFiniteSet(Workers)
      BY BufferNames
    <3>2. /\ Owned(c) \in SUBSET Workers /\ Made(c) \in SUBSET Workers
          /\ Removed(c) \in SUBSET Workers
      BY DEF Owned, Made, Removed
    <3>3. IsFiniteSet(Owned(c)) /\ IsFiniteSet(Made(c)) /\ IsFiniteSet(Removed(c))
      BY ONLY <3>1, <3>2, FS_Subset
    <3> QED
      BY <3>3, FS_CardinalityType DEF Held
  <2>3. /\ Cardinality(OfChild(ranges, c)) \in Nat
        /\ \A r \in OfChild(ranges, c) : Cardinality(OfChild(ranges, c)) > 0
    BY <1>1, RangesCount DEF BufferTyped
  <2>4. ~Stray(c) => Cardinality(OfChild(ranges, c)) > 0
    <3>1. ~Stray(c) => \E r \in ranges : r.child = c
      BY DEF Stray
    <3> QED
      BY <2>3, <3>1 DEF OfChild
  <2>5. refs[c] \in Int /\ vbo[c] \in Int
    BY <1>1 DEF BufferTyped
  <2>6. vbo[c] > 0
    <3>1. CASE Stray(c)
      BY <2>1, <2>2, <2>3, <2>5, <3>1
    <3>2. CASE ~Stray(c)
      BY <2>1, <2>2, <2>3, <2>4, <2>5, <3>2
    <3> QED
      BY <3>1, <3>2
  <2>7. refs[c] >= vbo[c]
    BY <2>1, <2>5
  <2> QED
    BY <2>5, <2>6, <2>7
<1>3. ASSUME holder # "teardown", NEW p \in BufferPages, NEW c \in Children, pt[p] = c
      PROVE  \E r \in ranges : r.child = c /\ p \in B!Span(r)
  BY <1>1, <1>3 DEF TableRight, Stray, Covers, B!Span
<1>4. B!MappedAsBound
  <2> SUFFICES ASSUME holder = "none", "unmap" \notin failed, NEW p \in BufferPages
               PROVE  /\ \A c \in Children :
                            pt[p] = c <=> \E r \in ranges : r.child = c /\ p \in B!Span(r)
                      /\ buffer.zero /\ failed = {} => pt[p] # "none"
    BY DEF B!MappedAsBound
  <2>1. ~Cleared(p) /\ ~Zeroing(p) /\ holder # "teardown"
    BY BufferNames DEF Cleared, Zeroing
  <2>2. \A c \in Children : pt[p] = c => \E r \in ranges : r.child = c /\ p \in B!Span(r)
    BY <1>3, <2>1
  <2>3. \A r \in ranges : p \in B!Span(r) => pt[p] = r.child
    BY <1>1, <2>1 DEF TableRight, Covers, B!Span
  <2>4. buffer.zero /\ failed = {} => pt[p] # "none"
    BY <1>1, <2>1 DEF TableRight
  <2> QED
    BY <2>2, <2>3, <2>4
<1>5. B!EndsAsAsked
  <2> SUFFICES ASSUME NEW w \in Workers
               PROVE  /\ op[w].at = "mapped" => \A p \in BufferPages :
                            pt[p] = IF p \in B!Window(op[w]) THEN op[w].child ELSE op[w].before[p]
                      /\ op[w].at = "walk" /\ ~op[w].bind /\ op[w].left = {} /\ "unmap" \notin failed =>
                            \A p \in BufferPages :
                               /\ p \in B!Window(op[w]) =>
                                      pt[p] \in {"zero", "none"} \cup (Children \ {op[w].child})
                               /\ p \in B!Window(op[w]) /\ op[w].child = "any" => pt[p] \notin Children
                               /\ op[w].before[p] \in Children
                                       /\ op[w].child \notin {"any", op[w].before[p]} =>
                                      pt[p] = op[w].before[p]
    BY DEF B!EndsAsAsked
  <2>1. op[w].at = "mapped" => \A p \in BufferPages :
            pt[p] = IF p \in B!Window(op[w]) THEN op[w].child ELSE op[w].before[p]
    BY <1>1 DEF OpRight, OpFits, BindRight
  <2>2. ASSUME op[w].at = "walk", ~op[w].bind, op[w].left = {}, "unmap" \notin failed,
               NEW p \in BufferPages
        PROVE  /\ p \in B!Window(op[w]) =>
                      pt[p] \in {"zero", "none"} \cup (Children \ {op[w].child})
               /\ p \in B!Window(op[w]) /\ op[w].child = "any" => pt[p] \notin Children
               /\ op[w].before[p] \in Children /\ op[w].child \notin {"any", op[w].before[p]} =>
                      pt[p] = op[w].before[p]
    <3>1. op[w].at \in Locked /\ op[w].at \in Walking
      BY <2>2 DEF Locked, Walking
    <3>2. holder # "teardown" /\ op[w].start \in BufferPages /\ op[w].last \in BufferPages
      BY <3>1, TheHolder
    <3>3. /\ \A r \in ranges : B!Overlap(r, op[w]) => op[w].child \notin {"any", r.child}
          /\ op[w].before[p] \in Children /\ op[w].child \notin {"any", op[w].before[p]} =>
                 pt[p] = op[w].before[p]
      BY <1>1, <2>2, <3>1 DEF UnbindRight
    <3>4. ASSUME p \in B!Window(op[w]), pt[p] \in Children  PROVE op[w].child \notin {"any", pt[p]}
      <4>1. PICK r \in ranges : r.child = pt[p] /\ p \in B!Span(r)
        BY <1>3, <3>2, <3>4
      <4>2. /\ r.start \in Nat /\ r.last \in Nat /\ op[w].start \in Nat /\ op[w].last \in Nat
        BY <1>1, <3>2, Between DEF BufferTyped, RangeType
      <4>3. B!Overlap(r, op[w])
        BY <3>4, <4>1, <4>2 DEF B!Overlap, B!Span, B!Window
      <4> QED
        BY <3>3, <4>1, <4>3
    <3>5. pt[p] \in Children \cup {"zero", "none"}
      BY <1>1 DEF BufferTyped, Mapped
    <3> QED
      BY <3>3, <3>4, <3>5
  <2> QED
    BY <2>1, <2>2
<1> QED
  BY <1>2, <1>4, <1>5 DEF B!BuffersKept

\* The part "buffer" is a behaviour of a virtual buffer.
LEMMA BufferBehaves == PartsSpec => B!Init /\ [][B!Next]_B!vars
<1>1. PartsInit => B!Init
  BY DEF PartsInit
<1>2. [PartsNext]_<<part, vars, timelineVars, memoryVars, bufferVars, processVars,
                    fenceVars, snapshotVars, poolVars, addressVars>> => [B!Next]_B!vars
  <2>1. bufferVars' = bufferVars => UNCHANGED B!vars
    BY DEF bufferVars, B!vars
  <2> QED
    BY <2>1 DEF PartsNext
<1> QED
  BY <1>1, <1>2, PTL DEF PartsSpec

\* The GPU never reaches memory that is given back: what a buffer maps is held at every
\* step of every bind, unbind, free and teardown, between operations the page table is
\* what the ranges say, and an operation that succeeds changes what it was asked to
\* (kgsl_memdesc_add_range, kgsl_memdesc_remove_range, bind_range_destroy and
\* kgsl_sharedmem_vbo_put_gpuaddr in kgsl_vbo.c).
THEOREM PartsBuffersKept == PartsSpec => []BuffersKept
<1>1. B!Init => BufferInv
  BY BufferInitRight
<1>2. BufferInv /\ [B!Next]_B!vars => BufferInv'
  BY BufferStep
<1>3. BufferInv => BuffersKept
  BY BufferIsKept DEF BuffersKept
<1> QED
  BY <1>1, <1>2, <1>3, BufferBehaves, PTL

-----------------------------------------------------------------------------
(* Ringbuffer.  The invariant says which of three shapes a space has that  *)
(* was allocated and not submitted, and that the unread dwords are those   *)
(* from the read pointer to it.                                            *)

\* A space behind the read pointer's lap, or behind the CP of the lap before
InFront == wptr = got.at /\ rptr <= got.at /\ uwptr <= Dwords - 2
Behind == wptr = got.at /\ uwptr < rptr
\* A space at the start of the ring, whose end was filled with a NOP
AtStart == got.at = 0 /\ uwptr < rptr /\ rptr <= wptr

Shape ==
    /\ got = Nothing => wptr = uwptr /\ unread = Window(rptr, uwptr)
    /\ got # Nothing =>
        /\ got.size > 0 /\ got.at + got.size = uwptr
        /\ unread = Window(rptr, got.at)
        /\ InFront \/ Behind \/ AtStart

Inv == TypeOK /\ Shape /\ lost = {}

USE DEF Dword, Nothing

-----------------------------------------------------------------------------
(* Windows.                                                                *)

\* The CP takes the first dword of what it has still to read.
LEMMA WindowRead ==
    ASSUME NEW a \in Dword, NEW b \in Dword, a # b
    PROVE  /\ a \in Window(a, b)
           /\ (a + 1) % Dwords \in Dword
           /\ Window(a, b) \ {a} = Window((a + 1) % Dwords, b)
<1>1. CASE a + 1 < Dwords
  <2>1. (a + 1) % Dwords = a + 1
    BY <1>1, RingbufferAssumption
  <2> QED
    BY <1>1, <2>1, RingbufferAssumption DEF Window
<1>2. CASE a + 1 = Dwords
  <2>1. (a + 1) % Dwords = 0
    BY <1>2, RingbufferAssumption
  <2> QED
    BY <1>2, <2>1, RingbufferAssumption DEF Window
<1> QED
  BY <1>1, <1>2, RingbufferAssumption

\* A space that does not wrap fits a remainder by Dwords.
\* Dwords written behind a window widen it, up to the read pointer.
LEMMA WindowGrows ==
    ASSUME NEW a \in Dword, NEW b \in Dword, NEW n \in Nat \ {0},
           (a <= b /\ b + n <= Dwords - 1) \/ b + n < a
    PROVE  /\ (b .. b + n - 1) \cap Window(a, b) = {}
           /\ Window(a, b) \cup (b .. b + n - 1) = Window(a, b + n)
<1>1. CASE a <= b /\ b + n <= Dwords - 1
  <2>1. Window(a, b) = a .. b - 1 /\ Window(a, b + n) = a .. b + n - 1
    BY <1>1, RingbufferAssumption DEF Window
  <2> QED
    BY <1>1, <2>1, RingbufferAssumption
<1>2. CASE b + n < a
  BY <1>2, RingbufferAssumption DEF Window
<1> QED
  BY <1>1, <1>2

LEMMA NoWrap ==
    ASSUME NEW k \in Nat, k < Dwords
    PROVE  k % Dwords = k
  BY RingbufferAssumption

-----------------------------------------------------------------------------
(* The steps.                                                              *)

LEMMA InitInv == Init => Inv
  BY RingbufferAssumption DEF Init, Inv, TypeOK, Shape, Window

\* A space at the end of the ring lies in front of what is unread.
LEMMA AtEndInv ==
    ASSUME Inv, NEW n \in 1 .. MaxSubmit, AllocAtEnd(n)
    PROVE  Inv'
<1> USE DEF Inv, TypeOK, AllocAtEnd, FitsAtEnd
<1>1. /\ uwptr + n \in Nat /\ uwptr + n <= Dwords - 2 /\ rptr <= uwptr
      /\ (uwptr + n) % Dwords = uwptr + n
  BY RingbufferAssumption, NoWrap
<1>2. TypeOK'
  BY <1>1, RingbufferAssumption
<1>3. Shape'
  BY <1>1, RingbufferAssumption DEF Shape, InFront, Window
<1> QED
  BY <1>2, <1>3

\* A space between the pointers lies behind the CP.
LEMMA BetweenInv ==
    ASSUME Inv, NEW n \in 1 .. MaxSubmit, AllocBetween(n)
    PROVE  Inv'
<1> USE DEF Inv, TypeOK, AllocBetween, FitsBetween
<1>1. /\ uwptr + n \in Nat /\ uwptr + n < rptr
      /\ (uwptr + n) % Dwords = uwptr + n
  BY RingbufferAssumption, NoWrap
<1>2. TypeOK'
  BY <1>1, RingbufferAssumption
<1>3. Shape'
  BY <1>1, RingbufferAssumption DEF Shape, Behind, Window
<1> QED
  BY <1>2, <1>3

\* The NOP that covers the end of the ring covers nothing unread.
LEMMA AtStartInv ==
    ASSUME Inv, NEW n \in 1 .. MaxSubmit, AllocAtStart(n)
    PROVE  Inv'
<1> USE DEF Inv, TypeOK, AllocAtStart, FitsAtStart
<1>1. rptr <= uwptr /\ n < rptr /\ wptr = uwptr /\ unread = rptr .. uwptr - 1
  BY RingbufferAssumption DEF Shape, Window
<1>2. Window(uwptr, 0) = uwptr .. Dwords - 1
  BY <1>1, RingbufferAssumption DEF Window
<1>3. lost' = {} /\ unread' = rptr .. Dwords - 1
  BY <1>1, <1>2, RingbufferAssumption DEF Write
<1>4. TypeOK'
  BY <1>1, <1>3, RingbufferAssumption
<1>5. Shape'
  BY <1>1, <1>3, RingbufferAssumption DEF Shape, AtStart, Window
<1> QED
  BY <1>3, <1>4, <1>5

\* A submission fills the first dwords of its space.
LEMMA SubmitInv ==
    ASSUME Inv, NEW n \in 1 .. MaxSubmit, Submit(n)
    PROVE  Inv'
<1> USE DEF Inv, TypeOK, Submit
<1>1. /\ got.size > 0 /\ got.at + got.size = uwptr
      /\ unread = Window(rptr, got.at)
      /\ InFront \/ Behind \/ AtStart
      /\ n \in 1 .. got.size
  BY DEF Shape
<1>2. uwptr' = got.at + n /\ wptr' = got.at + n /\ uwptr' \in Dword
  BY <1>1, RingbufferAssumption
<1>3. /\ (got.at .. got.at + n - 1) \cap unread = {}
      /\ unread \cup (got.at .. got.at + n - 1) = Window(rptr, got.at + n)
  <2>1. \/ rptr <= got.at /\ got.at + n <= Dwords - 1
        \/ got.at + n < rptr
    BY <1>1, RingbufferAssumption DEF InFront, Behind, AtStart
  <2>2. rptr \in Dword /\ got.at \in Dword /\ n \in Nat \ {0}
    BY <1>1, RingbufferAssumption
  <2> HIDE DEF Inv, Submit, TypeOK, Dword
  <2>3. /\ (got.at .. got.at + n - 1) \cap Window(rptr, got.at) = {}
        /\ Window(rptr, got.at) \cup (got.at .. got.at + n - 1)
              = Window(rptr, got.at + n)
    BY <2>1, <2>2, WindowGrows
  <2> QED
    BY <1>1, <2>3
<1>4. lost' = {} /\ unread' = Window(rptr, uwptr')
  BY <1>2, <1>3 DEF Write
<1>5. TypeOK'
  BY <1>2, <1>4, RingbufferAssumption DEF Window
<1>6. Shape'
  BY <1>2, <1>4 DEF Shape
<1> QED
  BY <1>4, <1>5, <1>6

\* The CP moves away from the space, or laps round to in front of it.
LEMMA ReadInv ==
    ASSUME Inv, Read
    PROVE  Inv'
<1> USE DEF Inv, TypeOK, Read
<1>1. rptr' \in Dword /\ (rptr + 1 < Dwords => rptr' = rptr + 1)
      /\ (rptr + 1 = Dwords => rptr' = 0)
  BY RingbufferAssumption, NoWrap
<1>2. TypeOK'
  BY <1>1
<1>3. CASE got = Nothing
  <2>1. unread' = Window(rptr', uwptr)
    BY <1>3, WindowRead DEF Shape
  <2> QED
    BY <1>2, <1>3, <2>1 DEF Shape
<1>4. CASE got # Nothing
  <2>1. /\ got.size > 0 /\ got.at + got.size = uwptr /\ got.at \in Dword
        /\ unread = Window(rptr, got.at)
        /\ InFront \/ Behind \/ AtStart
    BY <1>4, RingbufferAssumption DEF Shape
  <2>2. rptr # got.at
    BY <2>1 DEF InFront, Behind, AtStart
  <2>3. unread' = Window(rptr', got.at)
    BY <2>1, <2>2, WindowRead
  <2>4. (InFront \/ Behind \/ AtStart)'
    <3>1. CASE InFront
      BY <1>1, <2>1, <2>2, <3>1, RingbufferAssumption DEF InFront
    <3>2. CASE Behind
      BY <1>1, <2>1, <2>2, <3>2, RingbufferAssumption DEF InFront, Behind
    <3>3. CASE AtStart
      BY <1>1, <2>1, <2>2, <3>3, RingbufferAssumption DEF AtStart
    <3> QED
      BY <2>1, <3>1, <3>2, <3>3
  <2> QED
    BY <1>2, <1>4, <2>1, <2>3, <2>4 DEF Shape
<1> QED
  BY <1>3, <1>4

\* What Inv says of the properties: the CP stands on an unread dword.
LEMMA InvSafe == Inv => TypeOK /\ NothingOverwritten
<1> SUFFICES ASSUME Inv, rptr # wptr
             PROVE  rptr \in unread
  BY DEF Inv, NothingOverwritten
<1>1. CASE got = Nothing
  BY <1>1, WindowRead DEF Inv, TypeOK, Shape
<1>2. CASE got # Nothing
  BY <1>2, RingbufferAssumption
     DEF Inv, TypeOK, Shape, Window, InFront, Behind, AtStart
<1> QED
  BY <1>1, <1>2

LEMMA NextInv == Inv /\ [Next]_vars => Inv'
<1> SUFFICES ASSUME Inv, [Next]_vars
             PROVE  Inv'
  OBVIOUS
<1>1. ASSUME NEW n \in 1 .. MaxSubmit, AllocAtEnd(n)
      PROVE  Inv'
  BY <1>1, AtEndInv
<1>2. ASSUME NEW n \in 1 .. MaxSubmit, AllocAtStart(n)
      PROVE  Inv'
  BY <1>2, AtStartInv
<1>3. ASSUME NEW n \in 1 .. MaxSubmit, AllocBetween(n)
      PROVE  Inv'
  BY <1>3, BetweenInv
<1>4. ASSUME NEW n \in 1 .. MaxSubmit, Submit(n)
      PROVE  Inv'
  BY <1>4, SubmitInv
<1>5. CASE Read
  BY <1>5, ReadInv
<1>6. CASE UNCHANGED vars
  BY <1>6 DEF vars, Inv, TypeOK, Shape, InFront, Behind, AtStart
<1> QED
  BY <1>1, <1>2, <1>3, <1>4, <1>5, <1>6 DEF Next

-----------------------------------------------------------------------------
(* The theorems.                                                           *)

\* The ring's pointers stay inside the ring.
THEOREM RingbufferTypes == Spec => []TypeOK
<1>1. Inv => TypeOK
  BY DEF Inv
<1> QED
  BY InitInv, NextInv, <1>1, PTL DEF Spec

\* adreno_ringbuffer_allocspace never hands out a dword the CP has still to
\* read, in a ring of any size, however often it is filled.
THEOREM CommandsSurvive == Spec => []NothingOverwritten
<1>1. Inv => NothingOverwritten
  BY InvSafe
<1> QED
  BY InitInv, NextInv, <1>1, PTL DEF Spec

\* With nothing allocated and nothing unread there is room for any
\* submission: the one that was refused fits when the CP has caught up.
THEOREM RoomWhenDrained == TypeOK => FitsWhenDrained
  BY RingbufferAssumption
     DEF TypeOK, FitsWhenDrained, FitsAtEnd, FitsAtStart, FitsBetween
=============================================================================
