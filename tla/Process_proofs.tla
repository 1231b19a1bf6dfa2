-------------------------- MODULE Process_proofs --------------------------
(***************************************************************************)
(* What holds of processes, their entries and contexts in the run "parts", *)
(* for every value of their constants.                                     *)
(***************************************************************************)
EXTENDS MCParts, FiniteSetTheorems, TLAPS

-----------------------------------------------------------------------------
(* Process.  What has references: a process's structure, its entries and   *)
(* its context.  The invariant counts the holders of each.                 *)

\* What a caller, a file or an entry counts for
Using(c, e) == IF c.at \in P!UsesEntry /\ c.e = e THEN 1 ELSE 0
Taking(c, e) == IF c.at \in {"free", "event", "wait"} /\ c.e = e THEN 1 ELSE 0
InContext(c) ==
    IF c.at \in {"context", "event", "putctx", "mark", "cancel", "put1", "put3"} THEN 1 ELSE 0
OfPriv(r, p) == IF r.at # "none" /\ r.of = p THEN 1 ELSE 0
CountedIn(r, p) == IF r.at # "none" /\ r.of = p /\ r.at \in P!Counted THEN 1 ELSE 0
CallDetaching(c) == IF c.at \in {"cancel", "put3"} THEN 1 ELSE 0
FileDetaching(r) == IF r.at \in {"detach", "detached"} THEN 1 ELSE 0
PutsIt(r) == IF r.at \in {"detach", "detached", "put"} THEN 1 ELSE 0
HasEvent(m) == IF m.event # "none" THEN 1 ELSE 0

\* The numbers the properties compare the references with
CountedFiles(p) == Cardinality({f \in P!OfFiles(p) : file[f].at \in P!Counted})
FilesOf(p) == Cardinality(P!OfFiles(p))
EntriesOf(p) == Cardinality({e \in Memory : mem[e].at # "none" /\ mem[e].of = p})
ContextCalls == Cardinality({t \in Ioctls : P!UsesContext(t)})
ContextFiles == Cardinality({f \in Files : file[f].at \in {"detach", "detached", "put"}})
EventEntries == Cardinality({e \in Memory : mem[e].event # "none"})
CallDetachers == Cardinality({t \in Ioctls : ioctl[t].at \in {"cancel", "put3"}})
FileDetachers == Cardinality({f \in Files : file[f].at \in {"detach", "detached"}})

Whos == Files \cup Ioctls \cup {"none", "worker", "vma", "event", "show"}
PrivType == [at : {"none", "live", "dying"}, refs : Nat, fds : Nat,
             mutex : Files \cup {"free"}, putter : Whos]
FileType == [at : {"none", "count", "open", "contexts", "detach", "detached", "put", "lock",
                   "release", "unlock"},
             of : Privs, next : Nat \ {0}]
EntryType == [at : {"none", "attached", "live", "dying"}, refs : Nat, pend : BOOLEAN,
              of : Privs, vmas : Nat, event : {"none", "pending", "due"}, cb : BOOLEAN]
CallAts == {"idle", "map", "found", "put", "free", "context", "event", "putctx", "wait",
            "mark", "cancel", "put1", "put3"}
CallType == [at : CallAts, op : P!Ops \cup {"none"}, file : Files, e : Memory \cup {0}]
ContextType == [at : {"none", "live", "detached", "cancelled"}, refs : Nat,
                file : Files, of : Privs]
ShowType == [at : {"none", "walk", "hold", "over"}, of : Privs, e : Nat]

Typed ==
    /\ priv \in [Privs -> PrivType] /\ file \in [Files -> FileType]
    /\ mem \in [Memory -> EntryType] /\ ioctl \in [Ioctls -> CallType]
    /\ context \in ContextType /\ show \in ShowType
    /\ process_mutex \in Files \cup {"free"}

\* A set that changes in one element counts one more or less, or the same.
LEMMA CountOne ==
    ASSUME NEW G, IsFiniteSet(G), NEW x \in G, NEW X \in SUBSET G, NEW Y \in SUBSET G,
           \A y \in G \ {x} : y \in X <=> y \in Y
    PROVE  Cardinality(X) + (IF x \in Y THEN 1 ELSE 0) = Cardinality(Y) + (IF x \in X THEN 1 ELSE 0)
<1>1. IsFiniteSet(X) /\ IsFiniteSet(Y)
  BY FS_Subset
<1>2. X \ {x} = Y \ {x}
  OBVIOUS
<1>3. Cardinality(X) \in Nat /\ Cardinality(Y) \in Nat
  BY <1>1, FS_CardinalityType
<1>4. Cardinality(X \ {x}) = IF x \in X THEN Cardinality(X) - 1 ELSE Cardinality(X)
  BY <1>1, FS_RemoveElement
<1>5. Cardinality(Y \ {x}) = IF x \in Y THEN Cardinality(Y) - 1 ELSE Cardinality(Y)
  BY <1>1, FS_RemoveElement
<1> DEFINE m == Cardinality(X)  n == Cardinality(Y)
<1>6. m \in Nat /\ n \in Nat
      /\ (IF x \in X THEN m - 1 ELSE m) = (IF x \in Y THEN n - 1 ELSE n)
  BY <1>2, <1>3, <1>4, <1>5
<1> HIDE DEF m, n
<1>7. m + (IF x \in Y THEN 1 ELSE 0) = n + (IF x \in X THEN 1 ELSE 0)
  BY <1>6
<1> QED
  BY <1>7 DEF m, n

\* A set with a member counts one at least.
LEMMA CountSome ==
    ASSUME NEW G, IsFiniteSet(G), NEW X \in SUBSET G, NEW x \in X
    PROVE  Cardinality(X) \in Nat \ {0}
  BY FS_Subset, FS_CardinalityType, FS_EmptySet

\* The instance has the same cardinalities.
LEMMA SameSizes ==
    \A X : P!Cardinality(X) = Cardinality(X) /\ (P!IsFiniteSet(X) <=> IsFiniteSet(X))
<1>1. \A X : P!Cardinality(X) = Cardinality(X)
  BY DEF P!Cardinality, Cardinality
<1>2. \A X : P!IsFiniteSet(X) <=> IsFiniteSet(X)
  BY DEF P!IsFiniteSet, IsFiniteSet
<1> QED
  BY <1>1, <1>2

\* The parts are finite, and the names of the threads nobody else's.
LEMMA FiniteParts ==
    /\ IsFiniteSet(Privs) /\ IsFiniteSet(Files) /\ IsFiniteSet(Ioctls) /\ IsFiniteSet(Memory)
    /\ Cardinality(Memory) \in Nat /\ Memory = 1 .. Cardinality(Memory)
    /\ Privs # {} /\ Files # {} /\ "free" \notin Files \cup Ioctls /\ "show" \notin Files \cup Ioctls
<1>1. IsFiniteSet(Memory)
  BY PartsAssumption, SameSizes DEF P!ProcessAssumption
<1> QED
  BY <1>1, PartsAssumption, SameSizes, FS_CardinalityType DEF P!ProcessAssumption

\* The numbers are numbers.
LEMMA Numbers ==
    /\ \A e \in Memory : P!Callers(e) \in Nat /\ P!TakesOver(e) \in Nat
    /\ \A p \in Privs : CountedFiles(p) \in Nat /\ FilesOf(p) \in Nat /\ EntriesOf(p) \in Nat
    /\ ContextCalls \in Nat /\ ContextFiles \in Nat /\ EventEntries \in Nat
    /\ CallDetachers \in Nat /\ FileDetachers \in Nat
<1>1. \A e \in Memory : P!Callers(e) \in Nat
  <2> SUFFICES ASSUME NEW e \in Memory  PROVE P!Callers(e) \in Nat
    OBVIOUS
  <2>1. IsFiniteSet({t \in Ioctls : ioctl[t].at \in P!UsesEntry /\ ioctl[t].e = e})
    BY FiniteParts, FS_Subset
  <2> QED
    BY <2>1, SameSizes, FS_CardinalityType DEF P!Callers
<1>2. \A e \in Memory : P!TakesOver(e) \in Nat
  <2> SUFFICES ASSUME NEW e \in Memory  PROVE P!TakesOver(e) \in Nat
    OBVIOUS
  <2>1. IsFiniteSet({t \in Ioctls : ioctl[t].at \in {"free", "event", "wait"} /\ ioctl[t].e = e})
    BY FiniteParts, FS_Subset
  <2> QED
    BY <2>1, SameSizes, FS_CardinalityType DEF P!TakesOver
<1>3. \A p \in Privs : CountedFiles(p) \in Nat
  <2> SUFFICES ASSUME NEW p \in Privs  PROVE CountedFiles(p) \in Nat
    OBVIOUS
  <2>1. IsFiniteSet({f \in P!OfFiles(p) : file[f].at \in P!Counted})
    BY FiniteParts, FS_Subset DEF P!OfFiles
  <2> QED
    BY <2>1, SameSizes, FS_CardinalityType DEF CountedFiles
<1>4. \A p \in Privs : FilesOf(p) \in Nat
  <2> SUFFICES ASSUME NEW p \in Privs  PROVE FilesOf(p) \in Nat
    OBVIOUS
  <2>1. IsFiniteSet(P!OfFiles(p))
    BY FiniteParts, FS_Subset DEF P!OfFiles
  <2> QED
    BY <2>1, SameSizes, FS_CardinalityType DEF FilesOf
<1>5. \A p \in Privs : EntriesOf(p) \in Nat
  <2> SUFFICES ASSUME NEW p \in Privs  PROVE EntriesOf(p) \in Nat
    OBVIOUS
  <2>1. IsFiniteSet({e \in Memory : mem[e].at # "none" /\ mem[e].of = p})
    BY FiniteParts, FS_Subset
  <2> QED
    BY <2>1, SameSizes, FS_CardinalityType DEF EntriesOf
<1>6. ContextCalls \in Nat
  <2>1. IsFiniteSet({t \in Ioctls : P!UsesContext(t)})
    BY FiniteParts, FS_Subset
  <2> QED
    BY <2>1, SameSizes, FS_CardinalityType DEF ContextCalls
<1>7. ContextFiles \in Nat
  <2>1. IsFiniteSet({f \in Files : file[f].at \in {"detach", "detached", "put"}})
    BY FiniteParts, FS_Subset
  <2> QED
    BY <2>1, SameSizes, FS_CardinalityType DEF ContextFiles
<1>8. EventEntries \in Nat
  <2>1. IsFiniteSet({e \in Memory : mem[e].event # "none"})
    BY FiniteParts, FS_Subset
  <2> QED
    BY <2>1, SameSizes, FS_CardinalityType DEF EventEntries
<1>9. CallDetachers \in Nat
  <2>1. IsFiniteSet({t \in Ioctls : ioctl[t].at \in {"cancel", "put3"}})
    BY FiniteParts, FS_Subset
  <2> QED
    BY <2>1, SameSizes, FS_CardinalityType DEF CallDetachers
<1>10. FileDetachers \in Nat
  <2>1. IsFiniteSet({f \in Files : file[f].at \in {"detach", "detached"}})
    BY FiniteParts, FS_Subset
  <2> QED
    BY <2>1, SameSizes, FS_CardinalityType DEF FileDetachers
<1> QED
  BY <1>1, <1>2, <1>3, <1>4, <1>5, <1>6, <1>7, <1>8, <1>9, <1>10

\* The numbers after a step.
LEMMA NumbersAfter ==
    /\ \A e \in Memory : P!Callers(e)' \in Nat /\ P!TakesOver(e)' \in Nat
    /\ \A p \in Privs : CountedFiles(p)' \in Nat /\ FilesOf(p)' \in Nat /\ EntriesOf(p)' \in Nat
    /\ ContextCalls' \in Nat /\ ContextFiles' \in Nat /\ EventEntries' \in Nat
    /\ CallDetachers' \in Nat /\ FileDetachers' \in Nat
<1>1. (/\ \A e \in Memory : P!Callers(e) \in Nat /\ P!TakesOver(e) \in Nat
       /\ \A p \in Privs : CountedFiles(p) \in Nat /\ FilesOf(p) \in Nat /\ EntriesOf(p) \in Nat
       /\ ContextCalls \in Nat /\ ContextFiles \in Nat /\ EventEntries \in Nat
       /\ CallDetachers \in Nat /\ FileDetachers \in Nat)'
  BY Numbers, PTL
<1> QED
  BY <1>1

\* A call goes on: c is what it is now.
LEMMA CallMoves ==
    ASSUME Typed, NEW t \in Ioctls, NEW c, ioctl' = [ioctl EXCEPT ![t] = c]
    PROVE  /\ \A e \in Memory : P!Callers(e)' = P!Callers(e) + Using(c, e) - Using(ioctl[t], e)
           /\ \A e \in Memory : P!TakesOver(e)' = P!TakesOver(e) + Taking(c, e) - Taking(ioctl[t], e)
           /\ ContextCalls' = ContextCalls + InContext(c) - InContext(ioctl[t])
           /\ CallDetachers' = CallDetachers + CallDetaching(c) - CallDetaching(ioctl[t])
<1>1. \A e \in Memory : P!Callers(e)' = P!Callers(e) + Using(c, e) - Using(ioctl[t], e)
  <2> SUFFICES ASSUME NEW e \in Memory
               PROVE  P!Callers(e)' = P!Callers(e) + Using(c, e) - Using(ioctl[t], e)
    OBVIOUS
  <2> DEFINE Y == {y \in Ioctls : ioctl[y].at \in P!UsesEntry /\ ioctl[y].e = e}
             Z == {y \in Ioctls : ioctl'[y].at \in P!UsesEntry /\ ioctl'[y].e = e}
  <2>1. P!Callers(e)' = Cardinality(Z) /\ P!Callers(e) = Cardinality(Y)
    BY SameSizes DEF P!Callers, Using
  <2>2. t \in Y <=> Using(ioctl[t], e) = 1
    BY DEF P!Callers, Using
  <2>3. t \in Z <=> Using(c, e) = 1
    BY DEF Typed, Using
  <2>4. Using(ioctl[t], e) \in {0, 1} /\ Using(c, e) \in {0, 1}
    BY DEF P!Callers, Using
  <2>5. \A y \in Ioctls \ {t} : y \in Z <=> y \in Y
    BY DEF Typed, Using
  <2> HIDE DEF Y, Z
  <2>6. Cardinality(Z) + (IF t \in Y THEN 1 ELSE 0) = Cardinality(Y) + (IF t \in Z THEN 1 ELSE 0)
    <3>1. Y \in SUBSET Ioctls /\ Z \in SUBSET Ioctls
      BY DEF Y, Z, Using
    <3> QED
      BY <2>5, <3>1, CountOne, FiniteParts
  <2> QED
    <3>1. Cardinality(Y) \in Nat
      BY <2>1, Numbers
    <3>2. Cardinality(Z) \in Nat
      BY <2>1, NumbersAfter
    <3> QED
      BY <2>1, <2>2, <2>3, <2>4, <2>6, <3>1, <3>2
<1>2. \A e \in Memory : P!TakesOver(e)' = P!TakesOver(e) + Taking(c, e) - Taking(ioctl[t], e)
  <2> SUFFICES ASSUME NEW e \in Memory
               PROVE  P!TakesOver(e)' = P!TakesOver(e) + Taking(c, e) - Taking(ioctl[t], e)
    OBVIOUS
  <2> DEFINE Y == {y \in Ioctls : ioctl[y].at \in {"free", "event", "wait"} /\ ioctl[y].e = e}
             Z == {y \in Ioctls : ioctl'[y].at \in {"free", "event", "wait"} /\ ioctl'[y].e = e}
  <2>1. P!TakesOver(e)' = Cardinality(Z) /\ P!TakesOver(e) = Cardinality(Y)
    BY SameSizes DEF P!TakesOver, Taking
  <2>2. t \in Y <=> Taking(ioctl[t], e) = 1
    BY DEF P!TakesOver, Taking
  <2>3. t \in Z <=> Taking(c, e) = 1
    BY DEF Typed, Taking
  <2>4. Taking(ioctl[t], e) \in {0, 1} /\ Taking(c, e) \in {0, 1}
    BY DEF P!TakesOver, Taking
  <2>5. \A y \in Ioctls \ {t} : y \in Z <=> y \in Y
    BY DEF Typed, Taking
  <2> HIDE DEF Y, Z
  <2>6. Cardinality(Z) + (IF t \in Y THEN 1 ELSE 0) = Cardinality(Y) + (IF t \in Z THEN 1 ELSE 0)
    <3>1. Y \in SUBSET Ioctls /\ Z \in SUBSET Ioctls
      BY DEF Y, Z, Taking
    <3> QED
      BY <2>5, <3>1, CountOne, FiniteParts
  <2> QED
    <3>1. Cardinality(Y) \in Nat
      BY <2>1, Numbers
    <3>2. Cardinality(Z) \in Nat
      BY <2>1, NumbersAfter
    <3> QED
      BY <2>1, <2>2, <2>3, <2>4, <2>6, <3>1, <3>2
<1>3. ContextCalls' = ContextCalls + InContext(c) - InContext(ioctl[t])
  <2> DEFINE Y == {y \in Ioctls : P!UsesContext(y)}
             Z == {y \in Ioctls : P!UsesContext(y)'}
  <2>1. ContextCalls' = Cardinality(Z) /\ ContextCalls = Cardinality(Y)
    BY SameSizes DEF ContextCalls, P!UsesContext, InContext
  <2>2. t \in Y <=> InContext(ioctl[t]) = 1
    BY DEF ContextCalls, P!UsesContext, InContext
  <2>3. t \in Z <=> InContext(c) = 1
    BY DEF Typed, P!UsesContext, InContext
  <2>4. InContext(ioctl[t]) \in {0, 1} /\ InContext(c) \in {0, 1}
    BY DEF ContextCalls, P!UsesContext, InContext
  <2>5. \A y \in Ioctls \ {t} : y \in Z <=> y \in Y
    BY DEF Typed, P!UsesContext, InContext
  <2> HIDE DEF Y, Z
  <2>6. Cardinality(Z) + (IF t \in Y THEN 1 ELSE 0) = Cardinality(Y) + (IF t \in Z THEN 1 ELSE 0)
    <3>1. Y \in SUBSET Ioctls /\ Z \in SUBSET Ioctls
      BY DEF Y, Z, P!UsesContext, InContext
    <3> QED
      BY <2>5, <3>1, CountOne, FiniteParts
  <2> QED
    <3>1. Cardinality(Y) \in Nat
      BY <2>1, Numbers
    <3>2. Cardinality(Z) \in Nat
      BY <2>1, NumbersAfter
    <3> QED
      BY <2>1, <2>2, <2>3, <2>4, <2>6, <3>1, <3>2
<1>4. CallDetachers' = CallDetachers + CallDetaching(c) - CallDetaching(ioctl[t])
  <2> DEFINE Y == {y \in Ioctls : ioctl[y].at \in {"cancel", "put3"}}
             Z == {y \in Ioctls : ioctl'[y].at \in {"cancel", "put3"}}
  <2>1. CallDetachers' = Cardinality(Z) /\ CallDetachers = Cardinality(Y)
    BY SameSizes DEF CallDetachers, CallDetaching
  <2>2. t \in Y <=> CallDetaching(ioctl[t]) = 1
    BY DEF CallDetachers, CallDetaching
  <2>3. t \in Z <=> CallDetaching(c) = 1
    BY DEF Typed, CallDetaching
  <2>4. CallDetaching(ioctl[t]) \in {0, 1} /\ CallDetaching(c) \in {0, 1}
    BY DEF CallDetachers, CallDetaching
  <2>5. \A y \in Ioctls \ {t} : y \in Z <=> y \in Y
    BY DEF Typed, CallDetaching
  <2> HIDE DEF Y, Z
  <2>6. Cardinality(Z) + (IF t \in Y THEN 1 ELSE 0) = Cardinality(Y) + (IF t \in Z THEN 1 ELSE 0)
    <3>1. Y \in SUBSET Ioctls /\ Z \in SUBSET Ioctls
      BY DEF Y, Z, CallDetaching
    <3> QED
      BY <2>5, <3>1, CountOne, FiniteParts
  <2> QED
    <3>1. Cardinality(Y) \in Nat
      BY <2>1, Numbers
    <3>2. Cardinality(Z) \in Nat
      BY <2>1, NumbersAfter
    <3> QED
      BY <2>1, <2>2, <2>3, <2>4, <2>6, <3>1, <3>2
<1> QED
  BY <1>1, <1>2, <1>3, <1>4

\* A file goes on: r is what it is now.
LEMMA FileMoves ==
    ASSUME Typed, NEW f \in Files, NEW r, file' = [file EXCEPT ![f] = r]
    PROVE  /\ \A p \in Privs : CountedFiles(p)' = CountedFiles(p) + CountedIn(r, p) - CountedIn(file[f], p)
           /\ \A p \in Privs : FilesOf(p)' = FilesOf(p) + OfPriv(r, p) - OfPriv(file[f], p)
           /\ ContextFiles' = ContextFiles + PutsIt(r) - PutsIt(file[f])
           /\ FileDetachers' = FileDetachers + FileDetaching(r) - FileDetaching(file[f])
<1>1. \A p \in Privs : CountedFiles(p)' = CountedFiles(p) + CountedIn(r, p) - CountedIn(file[f], p)
  <2> SUFFICES ASSUME NEW p \in Privs
               PROVE  CountedFiles(p)' = CountedFiles(p) + CountedIn(r, p) - CountedIn(file[f], p)
    OBVIOUS
  <2> DEFINE Y == {y \in P!OfFiles(p) : file[y].at \in P!Counted}
             Z == {y \in P!OfFiles(p)' : file'[y].at \in P!Counted}
  <2>1. CountedFiles(p)' = Cardinality(Z) /\ CountedFiles(p) = Cardinality(Y)
    BY SameSizes DEF CountedFiles, P!OfFiles, CountedIn
  <2>2. f \in Y <=> CountedIn(file[f], p) = 1
    BY DEF CountedFiles, P!OfFiles, CountedIn
  <2>3. f \in Z <=> CountedIn(r, p) = 1
    BY DEF Typed, P!OfFiles, CountedIn
  <2>4. CountedIn(file[f], p) \in {0, 1} /\ CountedIn(r, p) \in {0, 1}
    BY DEF CountedFiles, P!OfFiles, CountedIn
  <2>5. \A y \in Files \ {f} : y \in Z <=> y \in Y
    BY DEF Typed, P!OfFiles, CountedIn
  <2> HIDE DEF Y, Z
  <2>6. Cardinality(Z) + (IF f \in Y THEN 1 ELSE 0) = Cardinality(Y) + (IF f \in Z THEN 1 ELSE 0)
    <3>1. Y \in SUBSET Files /\ Z \in SUBSET Files
      BY DEF Y, Z, P!OfFiles, CountedIn
    <3> QED
      BY <2>5, <3>1, CountOne, FiniteParts
  <2> QED
    <3>1. Cardinality(Y) \in Nat
      BY <2>1, Numbers
    <3>2. Cardinality(Z) \in Nat
      BY <2>1, NumbersAfter
    <3> QED
      BY <2>1, <2>2, <2>3, <2>4, <2>6, <3>1, <3>2
<1>2. \A p \in Privs : FilesOf(p)' = FilesOf(p) + OfPriv(r, p) - OfPriv(file[f], p)
  <2> SUFFICES ASSUME NEW p \in Privs
               PROVE  FilesOf(p)' = FilesOf(p) + OfPriv(r, p) - OfPriv(file[f], p)
    OBVIOUS
  <2> DEFINE Y == P!OfFiles(p)
             Z == P!OfFiles(p)'
  <2>1. FilesOf(p)' = Cardinality(Z) /\ FilesOf(p) = Cardinality(Y)
    BY SameSizes DEF FilesOf, P!OfFiles, OfPriv
  <2>2. f \in Y <=> OfPriv(file[f], p) = 1
    BY DEF FilesOf, P!OfFiles, OfPriv
  <2>3. f \in Z <=> OfPriv(r, p) = 1
    BY DEF Typed, P!OfFiles, OfPriv
  <2>4. OfPriv(file[f], p) \in {0, 1} /\ OfPriv(r, p) \in {0, 1}
    BY DEF FilesOf, P!OfFiles, OfPriv
  <2>5. \A y \in Files \ {f} : y \in Z <=> y \in Y
    BY DEF Typed, P!OfFiles, OfPriv
  <2> HIDE DEF Y, Z
  <2>6. Cardinality(Z) + (IF f \in Y THEN 1 ELSE 0) = Cardinality(Y) + (IF f \in Z THEN 1 ELSE 0)
    <3>1. Y \in SUBSET Files /\ Z \in SUBSET Files
      BY DEF Y, Z, P!OfFiles, OfPriv
    <3> QED
      BY <2>5, <3>1, CountOne, FiniteParts
  <2> QED
    <3>1. Cardinality(Y) \in Nat
      BY <2>1, Numbers
    <3>2. Cardinality(Z) \in Nat
      BY <2>1, NumbersAfter
    <3> QED
      BY <2>1, <2>2, <2>3, <2>4, <2>6, <3>1, <3>2
<1>3. ContextFiles' = ContextFiles + PutsIt(r) - PutsIt(file[f])
  <2> DEFINE Y == {y \in Files : file[y].at \in {"detach", "detached", "put"}}
             Z == {y \in Files : file'[y].at \in {"detach", "detached", "put"}}
  <2>1. ContextFiles' = Cardinality(Z) /\ ContextFiles = Cardinality(Y)
    BY SameSizes DEF ContextFiles, PutsIt
  <2>2. f \in Y <=> PutsIt(file[f]) = 1
    BY DEF ContextFiles, PutsIt
  <2>3. f \in Z <=> PutsIt(r) = 1
    BY DEF Typed, PutsIt
  <2>4. PutsIt(file[f]) \in {0, 1} /\ PutsIt(r) \in {0, 1}
    BY DEF ContextFiles, PutsIt
  <2>5. \A y \in Files \ {f} : y \in Z <=> y \in Y
    BY DEF Typed, PutsIt
  <2> HIDE DEF Y, Z
  <2>6. Cardinality(Z) + (IF f \in Y THEN 1 ELSE 0) = Cardinality(Y) + (IF f \in Z THEN 1 ELSE 0)
    <3>1. Y \in SUBSET Files /\ Z \in SUBSET Files
      BY DEF Y, Z, PutsIt
    <3> QED
      BY <2>5, <3>1, CountOne, FiniteParts
  <2> QED
    <3>1. Cardinality(Y) \in Nat
      BY <2>1, Numbers
    <3>2. Cardinality(Z) \in Nat
      BY <2>1, NumbersAfter
    <3> QED
      BY <2>1, <2>2, <2>3, <2>4, <2>6, <3>1, <3>2
<1>4. FileDetachers' = FileDetachers + FileDetaching(r) - FileDetaching(file[f])
  <2> DEFINE Y == {y \in Files : file[y].at \in {"detach", "detached"}}
             Z == {y \in Files : file'[y].at \in {"detach", "detached"}}
  <2>1. FileDetachers' = Cardinality(Z) /\ FileDetachers = Cardinality(Y)
    BY SameSizes DEF FileDetachers, FileDetaching
  <2>2. f \in Y <=> FileDetaching(file[f]) = 1
    BY DEF FileDetachers, FileDetaching
  <2>3. f \in Z <=> FileDetaching(r) = 1
    BY DEF Typed, FileDetaching
  <2>4. FileDetaching(file[f]) \in {0, 1} /\ FileDetaching(r) \in {0, 1}
    BY DEF FileDetachers, FileDetaching
  <2>5. \A y \in Files \ {f} : y \in Z <=> y \in Y
    BY DEF Typed, FileDetaching
  <2> HIDE DEF Y, Z
  <2>6. Cardinality(Z) + (IF f \in Y THEN 1 ELSE 0) = Cardinality(Y) + (IF f \in Z THEN 1 ELSE 0)
    <3>1. Y \in SUBSET Files /\ Z \in SUBSET Files
      BY DEF Y, Z, FileDetaching
    <3> QED
      BY <2>5, <3>1, CountOne, FiniteParts
  <2> QED
    <3>1. Cardinality(Y) \in Nat
      BY <2>1, Numbers
    <3>2. Cardinality(Z) \in Nat
      BY <2>1, NumbersAfter
    <3> QED
      BY <2>1, <2>2, <2>3, <2>4, <2>6, <3>1, <3>2
<1> QED
  BY <1>1, <1>2, <1>3, <1>4

\* An entry changes: m is what it is now.
LEMMA EntryMoves ==
    ASSUME Typed, NEW e \in Memory, NEW m, mem' = [mem EXCEPT ![e] = m]
    PROVE  /\ \A p \in Privs : EntriesOf(p)' = EntriesOf(p) + OfPriv(m, p) - OfPriv(mem[e], p)
           /\ EventEntries' = EventEntries + HasEvent(m) - HasEvent(mem[e])
<1>1. \A p \in Privs : EntriesOf(p)' = EntriesOf(p) + OfPriv(m, p) - OfPriv(mem[e], p)
  <2> SUFFICES ASSUME NEW p \in Privs
               PROVE  EntriesOf(p)' = EntriesOf(p) + OfPriv(m, p) - OfPriv(mem[e], p)
    OBVIOUS
  <2> DEFINE Y == {y \in Memory : mem[y].at # "none" /\ mem[y].of = p}
             Z == {y \in Memory : mem'[y].at # "none" /\ mem'[y].of = p}
  <2>1. EntriesOf(p)' = Cardinality(Z) /\ EntriesOf(p) = Cardinality(Y)
    BY SameSizes DEF EntriesOf, OfPriv
  <2>2. e \in Y <=> OfPriv(mem[e], p) = 1
    BY DEF EntriesOf, OfPriv
  <2>3. e \in Z <=> OfPriv(m, p) = 1
    BY DEF Typed, OfPriv
  <2>4. OfPriv(mem[e], p) \in {0, 1} /\ OfPriv(m, p) \in {0, 1}
    BY DEF EntriesOf, OfPriv
  <2>5. \A y \in Memory \ {e} : y \in Z <=> y \in Y
    BY DEF Typed, OfPriv
  <2> HIDE DEF Y, Z
  <2>6. Cardinality(Z) + (IF e \in Y THEN 1 ELSE 0) = Cardinality(Y) + (IF e \in Z THEN 1 ELSE 0)
    <3>1. Y \in SUBSET Memory /\ Z \in SUBSET Memory
      BY DEF Y, Z, OfPriv
    <3> QED
      BY <2>5, <3>1, CountOne, FiniteParts
  <2> QED
    <3>1. Cardinality(Y) \in Nat
      BY <2>1, Numbers
    <3>2. Cardinality(Z) \in Nat
      BY <2>1, NumbersAfter
    <3> QED
      BY <2>1, <2>2, <2>3, <2>4, <2>6, <3>1, <3>2
<1>2. EventEntries' = EventEntries + HasEvent(m) - HasEvent(mem[e])
  <2> DEFINE Y == {y \in Memory : mem[y].event # "none"}
             Z == {y \in Memory : mem'[y].event # "none"}
  <2>1. EventEntries' = Cardinality(Z) /\ EventEntries = Cardinality(Y)
    BY SameSizes DEF EventEntries, HasEvent
  <2>2. e \in Y <=> HasEvent(mem[e]) = 1
    BY DEF EventEntries, HasEvent
  <2>3. e \in Z <=> HasEvent(m) = 1
    BY DEF Typed, HasEvent
  <2>4. HasEvent(mem[e]) \in {0, 1} /\ HasEvent(m) \in {0, 1}
    BY DEF EventEntries, HasEvent
  <2>5. \A y \in Memory \ {e} : y \in Z <=> y \in Y
    BY DEF Typed, HasEvent
  <2> HIDE DEF Y, Z
  <2>6. Cardinality(Z) + (IF e \in Y THEN 1 ELSE 0) = Cardinality(Y) + (IF e \in Z THEN 1 ELSE 0)
    <3>1. Y \in SUBSET Memory /\ Z \in SUBSET Memory
      BY DEF Y, Z, HasEvent
    <3> QED
      BY <2>5, <3>1, CountOne, FiniteParts
  <2> QED
    <3>1. Cardinality(Y) \in Nat
      BY <2>1, Numbers
    <3>2. Cardinality(Z) \in Nat
      BY <2>1, NumbersAfter
    <3> QED
      BY <2>1, <2>2, <2>3, <2>4, <2>6, <3>1, <3>2
<1> QED
  BY <1>1, <1>2

\* Who counts is counted.
LEMMA Counted ==
    /\ \A t \in Ioctls :
         /\ \A e \in Memory : P!Callers(e) >= Using(ioctl[t], e) /\ P!TakesOver(e) >= Taking(ioctl[t], e)
         /\ ContextCalls >= InContext(ioctl[t]) /\ CallDetachers >= CallDetaching(ioctl[t])
    /\ \A f \in Files :
         /\ \A p \in Privs : CountedFiles(p) >= CountedIn(file[f], p) /\ FilesOf(p) >= OfPriv(file[f], p)
         /\ ContextFiles >= PutsIt(file[f]) /\ FileDetachers >= FileDetaching(file[f])
    /\ \A e \in Memory :
         EventEntries >= HasEvent(mem[e]) /\ \A p \in Privs : EntriesOf(p) >= OfPriv(mem[e], p)
<1>1. \A t \in Ioctls, e \in Memory : P!Callers(e) >= Using(ioctl[t], e)
  <2> SUFFICES ASSUME NEW t \in Ioctls, NEW e \in Memory, Using(ioctl[t], e) # 0
               PROVE  P!Callers(e) >= 1 /\ Using(ioctl[t], e) = 1
    BY Numbers DEF Using
  <2> DEFINE X == {y \in Ioctls : ioctl[y].at \in P!UsesEntry /\ ioctl[y].e = e}
  <2>1. X \in SUBSET Ioctls /\ t \in X /\ Using(ioctl[t], e) = 1
    BY DEF Using, P!Callers
  <2>2. P!Callers(e) = Cardinality(X)
    BY SameSizes DEF Using, P!Callers
  <2> HIDE DEF X
  <2>3. Cardinality(X) \in Nat \ {0}
    BY <2>1, CountSome, FiniteParts
  <2> QED
    BY <2>1, <2>2, <2>3
<1>2. \A t \in Ioctls, e \in Memory : P!TakesOver(e) >= Taking(ioctl[t], e)
  <2> SUFFICES ASSUME NEW t \in Ioctls, NEW e \in Memory, Taking(ioctl[t], e) # 0
               PROVE  P!TakesOver(e) >= 1 /\ Taking(ioctl[t], e) = 1
    BY Numbers DEF Taking
  <2> DEFINE X == {y \in Ioctls : ioctl[y].at \in {"free", "event", "wait"} /\ ioctl[y].e = e}
  <2>1. X \in SUBSET Ioctls /\ t \in X /\ Taking(ioctl[t], e) = 1
    BY DEF Taking, P!TakesOver
  <2>2. P!TakesOver(e) = Cardinality(X)
    BY SameSizes DEF Taking, P!TakesOver
  <2> HIDE DEF X
  <2>3. Cardinality(X) \in Nat \ {0}
    BY <2>1, CountSome, FiniteParts
  <2> QED
    BY <2>1, <2>2, <2>3
<1>3. \A t \in Ioctls : ContextCalls >= InContext(ioctl[t])
  <2> SUFFICES ASSUME NEW t \in Ioctls, InContext(ioctl[t]) # 0
               PROVE  ContextCalls >= 1 /\ InContext(ioctl[t]) = 1
    BY Numbers DEF InContext
  <2> DEFINE X == {y \in Ioctls : P!UsesContext(y)}
  <2>1. X \in SUBSET Ioctls /\ t \in X /\ InContext(ioctl[t]) = 1
    BY DEF InContext, ContextCalls, P!UsesContext
  <2>2. ContextCalls = Cardinality(X)
    BY SameSizes DEF InContext, ContextCalls, P!UsesContext
  <2> HIDE DEF X
  <2>3. Cardinality(X) \in Nat \ {0}
    BY <2>1, CountSome, FiniteParts
  <2> QED
    BY <2>1, <2>2, <2>3
<1>4. \A t \in Ioctls : CallDetachers >= CallDetaching(ioctl[t])
  <2> SUFFICES ASSUME NEW t \in Ioctls, CallDetaching(ioctl[t]) # 0
               PROVE  CallDetachers >= 1 /\ CallDetaching(ioctl[t]) = 1
    BY Numbers DEF CallDetaching
  <2> DEFINE X == {y \in Ioctls : ioctl[y].at \in {"cancel", "put3"}}
  <2>1. X \in SUBSET Ioctls /\ t \in X /\ CallDetaching(ioctl[t]) = 1
    BY DEF CallDetaching, CallDetachers
  <2>2. CallDetachers = Cardinality(X)
    BY SameSizes DEF CallDetaching, CallDetachers
  <2> HIDE DEF X
  <2>3. Cardinality(X) \in Nat \ {0}
    BY <2>1, CountSome, FiniteParts
  <2> QED
    BY <2>1, <2>2, <2>3
<1>5. \A f \in Files, p \in Privs : CountedFiles(p) >= CountedIn(file[f], p)
  <2> SUFFICES ASSUME NEW f \in Files, NEW p \in Privs, CountedIn(file[f], p) # 0
               PROVE  CountedFiles(p) >= 1 /\ CountedIn(file[f], p) = 1
    BY Numbers DEF CountedIn
  <2> DEFINE X == {y \in P!OfFiles(p) : file[y].at \in P!Counted}
  <2>1. X \in SUBSET Files /\ f \in X /\ CountedIn(file[f], p) = 1
    BY DEF CountedIn, CountedFiles, P!OfFiles
  <2>2. CountedFiles(p) = Cardinality(X)
    BY SameSizes DEF CountedIn, CountedFiles, P!OfFiles
  <2> HIDE DEF X
  <2>3. Cardinality(X) \in Nat \ {0}
    BY <2>1, CountSome, FiniteParts
  <2> QED
    BY <2>1, <2>2, <2>3
<1>6. \A f \in Files, p \in Privs : FilesOf(p) >= OfPriv(file[f], p)
  <2> SUFFICES ASSUME NEW f \in Files, NEW p \in Privs, OfPriv(file[f], p) # 0
               PROVE  FilesOf(p) >= 1 /\ OfPriv(file[f], p) = 1
    BY Numbers DEF OfPriv
  <2> DEFINE X == P!OfFiles(p)
  <2>1. X \in SUBSET Files /\ f \in X /\ OfPriv(file[f], p) = 1
    BY DEF OfPriv, FilesOf, P!OfFiles
  <2>2. FilesOf(p) = Cardinality(X)
    BY SameSizes DEF OfPriv, FilesOf, P!OfFiles
  <2> HIDE DEF X
  <2>3. Cardinality(X) \in Nat \ {0}
    BY <2>1, CountSome, FiniteParts
  <2> QED
    BY <2>1, <2>2, <2>3
<1>7. \A f \in Files : ContextFiles >= PutsIt(file[f])
  <2> SUFFICES ASSUME NEW f \in Files, PutsIt(file[f]) # 0
               PROVE  ContextFiles >= 1 /\ PutsIt(file[f]) = 1
    BY Numbers DEF PutsIt
  <2> DEFINE X == {y \in Files : file[y].at \in {"detach", "detached", "put"}}
  <2>1. X \in SUBSET Files /\ f \in X /\ PutsIt(file[f]) = 1
    BY DEF PutsIt, ContextFiles
  <2>2. ContextFiles = Cardinality(X)
    BY SameSizes DEF PutsIt, ContextFiles
  <2> HIDE DEF X
  <2>3. Cardinality(X) \in Nat \ {0}
    BY <2>1, CountSome, FiniteParts
  <2> QED
    BY <2>1, <2>2, <2>3
<1>8. \A f \in Files : FileDetachers >= FileDetaching(file[f])
  <2> SUFFICES ASSUME NEW f \in Files, FileDetaching(file[f]) # 0
               PROVE  FileDetachers >= 1 /\ FileDetaching(file[f]) = 1
    BY Numbers DEF FileDetaching
  <2> DEFINE X == {y \in Files : file[y].at \in {"detach", "detached"}}
  <2>1. X \in SUBSET Files /\ f \in X /\ FileDetaching(file[f]) = 1
    BY DEF FileDetaching, FileDetachers
  <2>2. FileDetachers = Cardinality(X)
    BY SameSizes DEF FileDetaching, FileDetachers
  <2> HIDE DEF X
  <2>3. Cardinality(X) \in Nat \ {0}
    BY <2>1, CountSome, FiniteParts
  <2> QED
    BY <2>1, <2>2, <2>3
<1>9. \A e \in Memory : EventEntries >= HasEvent(mem[e])
  <2> SUFFICES ASSUME NEW e \in Memory, HasEvent(mem[e]) # 0
               PROVE  EventEntries >= 1 /\ HasEvent(mem[e]) = 1
    BY Numbers DEF HasEvent
  <2> DEFINE X == {y \in Memory : mem[y].event # "none"}
  <2>1. X \in SUBSET Memory /\ e \in X /\ HasEvent(mem[e]) = 1
    BY DEF HasEvent, EventEntries
  <2>2. EventEntries = Cardinality(X)
    BY SameSizes DEF HasEvent, EventEntries
  <2> HIDE DEF X
  <2>3. Cardinality(X) \in Nat \ {0}
    BY <2>1, CountSome, FiniteParts
  <2> QED
    BY <2>1, <2>2, <2>3
<1>10. \A e \in Memory, p \in Privs : EntriesOf(p) >= OfPriv(mem[e], p)
  <2> SUFFICES ASSUME NEW e \in Memory, NEW p \in Privs, OfPriv(mem[e], p) # 0
               PROVE  EntriesOf(p) >= 1 /\ OfPriv(mem[e], p) = 1
    BY Numbers DEF OfPriv
  <2> DEFINE X == {y \in Memory : mem[y].at # "none" /\ mem[y].of = p}
  <2>1. X \in SUBSET Memory /\ e \in X /\ OfPriv(mem[e], p) = 1
    BY DEF OfPriv, EntriesOf
  <2>2. EntriesOf(p) = Cardinality(X)
    BY SameSizes DEF OfPriv, EntriesOf
  <2> HIDE DEF X
  <2>3. Cardinality(X) \in Nat \ {0}
    BY <2>1, CountSome, FiniteParts
  <2> QED
    BY <2>1, <2>2, <2>3
<1> QED
  BY <1>1, <1>2, <1>3, <1>4, <1>5, <1>6, <1>7, <1>8, <1>9, <1>10

\* What does not change keeps its numbers.
LEMMA NumbersStay ==
    /\ ioctl' = ioctl =>
         /\ \A e \in Memory : P!Callers(e)' = P!Callers(e) /\ P!TakesOver(e)' = P!TakesOver(e)
         /\ ContextCalls' = ContextCalls /\ CallDetachers' = CallDetachers
    /\ file' = file =>
         /\ \A p \in Privs : CountedFiles(p)' = CountedFiles(p) /\ FilesOf(p)' = FilesOf(p)
         /\ ContextFiles' = ContextFiles /\ FileDetachers' = FileDetachers
    /\ mem' = mem => EventEntries' = EventEntries /\ \A p \in Privs : EntriesOf(p)' = EntriesOf(p)
  BY DEF P!Callers, P!TakesOver, ContextCalls, P!UsesContext, CallDetachers, CountedFiles,
         P!OfFiles, FilesOf, ContextFiles, FileDetachers, EventEntries, EntriesOf

-----------------------------------------------------------------------------
(* The invariant.                                                          *)

\* Who holds the mutexes; a structure counts its open files.
FilesRight ==
    /\ \A f \in Files : file[f].at = "count" <=> process_mutex = f
    /\ \A p \in Privs, f \in Files :
         priv[p].mutex = f <=> file[f].at = "release" /\ file[f].of = p
    /\ \A p \in Privs : priv[p].fds = CountedFiles(p)

\* A structure has a reference of each of its files and entries, of the context
\* and of the reader, and lives as long as it has one; there is one structure.
PrivRefs(p) == FilesOf(p) + EntriesOf(p) + OfPriv(context, p) + OfPriv(show, p)
PrivRight(r, n) ==
    /\ r.refs = n
    /\ r.at = "live" <=> n > 0
    /\ r.at = "dying" => r.putter # "show"
PrivsRight ==
    /\ \A p \in Privs : PrivRight(priv[p], PrivRefs(p))
    /\ \A p, q \in Privs : priv[p].at # "none" /\ priv[q].at # "none" => p = q

\* An entry m with c callers, of whom k have the user's reference, and h readers:
\* one at most has the user's reference when it is being freed, and while it is
\* being attached it is its caller's.
Reading(e) == IF show.at = "hold" /\ show.e = e THEN 1 ELSE 0
HasFence(m) == IF m.cb THEN 1 ELSE 0
Freers(m, k) == k + HasEvent(m) + HasFence(m)
EntryRight(m, c, k, h) ==
    /\ m.at \in {"attached", "live"} =>
         /\ m.refs > 0
         /\ m.refs = c + m.vmas + h + (IF m.pend THEN Freers(m, k) ELSE 1)
    /\ m.at \in {"none", "dying"} =>
         m.refs = 0 /\ m.vmas = 0 /\ c = 0 /\ m.event = "none" /\ ~m.cb /\ h = 0
    /\ m.at \in {"none", "attached"} => ~m.pend
    /\ m.at = "dying" => m.pend
    /\ Freers(m, k) <= IF m.pend THEN 1 ELSE 0
    /\ m.at = "attached" => m.vmas = 0 /\ h = 0 /\ c = 1
EntriesRight ==
    \A e \in Memory : EntryRight(mem[e], P!Callers(e), P!TakesOver(e), Reading(e))

\* A context has two references until it is detached, which one does, and one of
\* each caller, file and event; it is alive in a file that is open.
Detachers == CallDetachers + FileDetachers
ContextUsers == ContextCalls + ContextFiles + EventEntries
ContextFits(r, d, n) ==
    /\ r.at = "none" <=> r.refs = 0
    /\ d <= 1 /\ (d = 1 => r.at \in {"detached", "cancelled"})
    /\ r.refs = n + (IF r.at = "live" THEN 2 ELSE d + d)
ContextRight ==
    /\ ContextFits(context, Detachers, ContextUsers)
    /\ context.at = "live" => file[context.file].at \in {"open", "contexts"}

\* A call is one of an open file, of an entry of its process; it is the only one
\* of an entry that is being attached.
CallRight(c, fs, es) ==
    /\ c.at # "idle" => fs[c.file].at = "open"
    /\ c.at \in P!UsesEntry =>
         /\ c.e \in Memory /\ es[c.e].of = fs[c.file].of
         /\ c.at = "map" <=> es[c.e].at = "attached"
    /\ c.at = "context" => c.op = "timestamp"
CallsRight ==
    /\ \A t \in Ioctls : CallRight(ioctl[t], file, mem)
    /\ \A t, u \in Ioctls :
         ioctl[t].at = "map" /\ ioctl[u].at = "map" /\ ioctl[t].e = ioctl[u].e => t = u

\* The reader holds an entry of the process he reads.
ShowRight == show.at = "hold" => show.e \in Memory /\ mem[show.e].of = show.of

\* What the user has not freed will be released by the last file.
Releasing(e) == \E f \in Files :
    file[f].at = "release" /\ file[f].of = mem[e].of /\ file[f].next <= e
Unfreed == \A e \in Memory :
    mem[e].at = "live" /\ ~mem[e].pend => priv[mem[e].of].fds > 0 \/ Releasing(e)

ProcessInv ==
    /\ Typed /\ FilesRight /\ PrivsRight /\ EntriesRight /\ ContextRight /\ CallsRight
    /\ ShowRight /\ Unfreed

-----------------------------------------------------------------------------
(* Getting and putting references.                                         *)

\* What is not there is a record of its type.
LEMMA Nothings ==
    /\ P!NoPriv \in PrivType /\ P!NoFile \in FileType /\ P!NoEntry \in EntryType
    /\ P!NoCall \in CallType /\ P!NoContext \in ContextType /\ P!NoShow \in ShowType
<1>1. P!AnyPriv \in Privs /\ P!AnyFile \in Files
  BY FiniteParts DEF P!AnyPriv, P!AnyFile
<1> QED
  BY <1>1 DEF P!NoPriv, P!NoFile, P!NoEntry, P!NoCall, P!NoContext, P!NoShow, PrivType, Whos,
              FileType, EntryType, CallType, CallAts, ContextType, ShowType

\* The user's reference or a caller's is put: c, k and h are the holders left.
LEMMA PutRight ==
    ASSUME NEW m \in EntryType, NEW c \in Nat, NEW k \in Nat, NEW h \in Nat, m.at = "live",
           m.refs > 0, m.refs - 1 = c + m.vmas + h + (IF m.pend THEN Freers(m, k) ELSE 1),
           Freers(m, k) <= IF m.pend THEN 1 ELSE 0
    PROVE  /\ m.refs = 1 => EntryRight(P!NoEntry, c, k, h)
           /\ m.refs # 1 => EntryRight([m EXCEPT !.refs = @ - 1], c, k, h)
           /\ m.pend => EntryRight(P!PutLater(m), c, k, h)
<1>1. m.refs \in Nat /\ m.vmas \in Nat /\ HasEvent(m) \in Nat /\ HasFence(m) \in Nat
      /\ m.pend \in BOOLEAN /\ m.cb \in BOOLEAN
  BY DEF EntryType, HasEvent, HasFence
<1>2. ASSUME m.refs = 1
      PROVE  /\ m.pend = TRUE /\ c = 0 /\ m.vmas = 0 /\ h = 0 /\ Freers(m, k) = 0
             /\ m.event = "none" /\ m.cb = FALSE
  <2>1. m.pend = TRUE
    BY <1>1, <1>2 DEF Freers
  <2>2. c = 0 /\ m.vmas = 0 /\ h = 0 /\ k = 0 /\ HasEvent(m) = 0 /\ HasFence(m) = 0
    <3> DEFINE v == m.vmas  n == HasEvent(m)  f == HasFence(m)
    <3>1. v \in Nat /\ n \in Nat /\ f \in Nat /\ 0 = c + v + h + (k + n + f)
      BY <1>1, <1>2, <2>1 DEF Freers
    <3> HIDE DEF v, n, f
    <3>2. c = 0 /\ v = 0 /\ h = 0 /\ k = 0 /\ n = 0 /\ f = 0
      BY <3>1
    <3> QED
      BY <3>2 DEF v, n, f
  <2> QED
    BY <1>1, <2>1, <2>2 DEF HasEvent, HasFence, Freers
<1>3. ASSUME m.refs = 1  PROVE  EntryRight(P!NoEntry, c, k, h)
  <2>1. k = 0
    BY <1>1, <1>2, <1>3 DEF Freers
  <2> QED
    BY <1>2, <1>3, <2>1 DEF EntryRight, P!NoEntry, Freers, HasEvent, HasFence
<1>4. ASSUME m.refs # 1  PROVE  EntryRight([m EXCEPT !.refs = @ - 1], c, k, h)
  BY <1>1, <1>4 DEF EntryRight, EntryType, Freers, HasEvent, HasFence
<1>5. ASSUME m.pend  PROVE  EntryRight(P!PutLater(m), c, k, h)
  <2>1. CASE m.refs # 1
    <3>1. P!PutLater(m) = [m EXCEPT !.refs = @ - 1]
      BY <2>1 DEF P!PutLater, EntryType
    <3> QED
      BY <1>4, <2>1, <3>1
  <2>2. CASE m.refs = 1
    BY <1>2, <1>5, <2>2 DEF EntryRight, P!PutLater, EntryType, Freers, HasEvent, HasFence
  <2> QED
    BY <2>1, <2>2
<1> QED
  BY <1>3, <1>4, <1>5

\* What else a structure says is not touched.
FilesOfPrivs == [p \in Privs |-> <<priv[p].fds, priv[p].mutex>>]

\* The holders of a structure are counted by a number.
LEMMA PrivRefsType == ASSUME Typed, NEW p \in Privs  PROVE  PrivRefs(p) \in Nat
  BY Numbers DEF PrivRefs, OfPriv

\* kgsl_process_private_get: one holder more, and nothing else of the structures changes.
LEMMA PrivGets ==
    ASSUME Typed, PrivsRight, NEW p \in Privs, priv' = P!Got(priv, p), priv[p].refs > 0,
           PrivRefs(p)' = PrivRefs(p) + 1, \A q \in Privs \ {p} : PrivRefs(q)' = PrivRefs(q)
    PROVE  priv' \in [Privs -> PrivType] /\ PrivsRight' /\ FilesOfPrivs' = FilesOfPrivs
<1>1. /\ \A q \in Privs \ {p} : priv'[q] = priv[q]
      /\ priv'[p] = [priv[p] EXCEPT !.refs = @ + 1]
  BY DEF P!Got, Typed
<1>2. priv' \in [Privs -> PrivType]
  BY DEF P!Got, Typed, PrivType
<1>3. PrivRight(priv'[p], PrivRefs(p)')
  BY <1>1, PrivRefsType DEF PrivRight, PrivsRight, Typed, PrivType
<1>4. \A q \in Privs : priv'[q].at = priv[q].at
  BY <1>1 DEF Typed, PrivType
<1>5. PrivsRight'
  BY <1>1, <1>3, <1>4 DEF PrivsRight
<1>6. FilesOfPrivs' = FilesOfPrivs
  BY <1>1 DEF FilesOfPrivs, Typed, PrivType
<1> QED
  BY <1>2, <1>5, <1>6

\* kgsl_process_private_put: one holder less, and the last one leaves a dying structure.
LEMMA PrivDrops ==
    ASSUME Typed, PrivsRight, NEW p \in Privs, NEW who \in Whos, priv' = P!Dropped(priv, p, who),
           PrivRefs(p)' \in Nat, PrivRefs(p)' = PrivRefs(p) - 1,
           \A q \in Privs \ {p} : PrivRefs(q)' = PrivRefs(q),
           who = "show" => PrivRefs(p)' > 0
    PROVE  priv' \in [Privs -> PrivType] /\ PrivsRight' /\ FilesOfPrivs' = FilesOfPrivs
<1>1. \A q \in Privs \ {p} : priv'[q] = priv[q]
  BY DEF P!Dropped, Typed
<1>2. priv'[p] = [priv[p] EXCEPT !.refs = @ - 1,
                              !.at = IF priv[p].refs = 1 THEN "dying" ELSE @,
                              !.putter = IF priv[p].refs = 1 THEN who ELSE @]
  BY DEF P!Dropped, Typed
<1>3. priv[p].refs \in Nat \ {0} /\ priv[p].refs = PrivRefs(p) /\ priv[p].at = "live"
      /\ priv[p] \in PrivType
  BY PrivRefsType DEF PrivsRight, PrivRight, Typed, PrivType
<1>4. /\ priv'[p].refs = priv[p].refs - 1 /\ priv'[p].fds = priv[p].fds
      /\ priv'[p].mutex = priv[p].mutex
      /\ priv[p].refs = 1 => priv'[p].at = "dying" /\ priv'[p].putter = who
      /\ priv[p].refs # 1 => priv'[p].at = "live" /\ priv'[p].putter = priv[p].putter
      /\ priv'[p] \in PrivType
  <2> DEFINE r == priv[p]  d == priv'[p]
  <2>1. /\ r \in PrivType /\ r.refs > 0
        /\ d = [r EXCEPT !.refs = @ - 1, !.at = IF r.refs = 1 THEN "dying" ELSE @,
                         !.putter = IF r.refs = 1 THEN who ELSE @]
    BY <1>2, <1>3
  <2> HIDE DEF r, d
  <2>2. d.refs = r.refs - 1 /\ d.fds = r.fds /\ d.mutex = r.mutex
    BY <2>1 DEF PrivType
  <2>3. d.at = (IF r.refs = 1 THEN "dying" ELSE r.at)
        /\ d.putter = (IF r.refs = 1 THEN who ELSE r.putter)
    BY <2>1 DEF PrivType
  <2>4. d = [at |-> d.at, refs |-> d.refs, fds |-> d.fds, mutex |-> d.mutex, putter |-> d.putter]
    BY <2>1 DEF PrivType
  <2>5. d.refs \in Nat /\ d.at \in {"none", "live", "dying"} /\ d.putter \in Whos
        /\ d.fds \in Nat /\ d.mutex \in Files \cup {"free"}
    BY <2>1, <2>2, <2>3 DEF PrivType
  <2>6. d \in PrivType
    BY <2>4, <2>5 DEF PrivType
  <2> QED
    BY <1>3, <2>2, <2>3, <2>6 DEF r, d
<1>5. priv' \in [Privs -> PrivType]
  BY <1>4 DEF P!Dropped, Typed
<1>6. PrivRight(priv'[p], PrivRefs(p)')
  BY <1>3, <1>4 DEF PrivRight
<1>7. \A q \in Privs : priv'[q].at # "none" => priv[q].at # "none"
  BY <1>1, <1>3
<1>8. PrivsRight'
  BY <1>1, <1>6, <1>7 DEF PrivsRight
<1>9. FilesOfPrivs' = FilesOfPrivs
  BY <1>1, <1>4 DEF FilesOfPrivs
<1> QED
  BY <1>5, <1>8, <1>9

\* The sums are numbers, before a step and after it.
LEMMA NumbersAdd ==
    Detachers \in Nat /\ ContextUsers \in Nat /\ Detachers' \in Nat /\ ContextUsers' \in Nat
<1>1. Detachers \in Nat /\ ContextUsers \in Nat
  BY Numbers DEF Detachers, ContextUsers
<1>2. (Detachers \in Nat /\ ContextUsers \in Nat)'
  BY <1>1, PTL
<1> QED
  BY <1>1, <1>2

\* After a step too, who uses an entry is one of its callers.
LEMMA CallersAfter ==
    \A t \in Ioctls, e \in Memory : P!Callers(e)' >= Using(ioctl'[t], e)
<1>1. (\A t \in Ioctls, e \in Memory : P!Callers(e) >= Using(ioctl[t], e))'
  <2>1. \A t \in Ioctls, e \in Memory : P!Callers(e) >= Using(ioctl[t], e)
    BY Counted
  <2> QED
    BY <2>1, PTL
<1> QED
  BY <1>1 DEF Using

\* The holders of a structure, spelled out, before a step and after it.
LEMMA PrivRefsAfter ==
    ASSUME NEW p \in Privs
    PROVE  /\ PrivRefs(p)' = FilesOf(p)' + EntriesOf(p)' + OfPriv(context', p) + OfPriv(show', p)
           /\ PrivRefs(p)' \in Nat
           /\ OfPriv(context', p) \in {0, 1} /\ OfPriv(show', p) \in {0, 1}
           /\ PrivRefs(p) = FilesOf(p) + EntriesOf(p) + OfPriv(context, p) + OfPriv(show, p)
           /\ PrivRefs(p) \in Nat
           /\ OfPriv(context, p) \in {0, 1} /\ OfPriv(show, p) \in {0, 1}
<1>1. /\ PrivRefs(p)' = FilesOf(p)' + EntriesOf(p)' + OfPriv(context', p) + OfPriv(show', p)
      /\ PrivRefs(p) = FilesOf(p) + EntriesOf(p) + OfPriv(context, p) + OfPriv(show, p)
  BY DEF PrivRefs, OfPriv
<1>2. \A r : OfPriv(r, p) \in {0, 1}
  BY DEF OfPriv
<1> QED
  BY <1>1, <1>2, Numbers, NumbersAfter

\* One entry changes: the others' holders are the same.
LEMMA EntriesMove ==
    ASSUME Typed, EntriesRight, NEW e \in Memory, NEW m, mem' = [mem EXCEPT ![e] = m],
           EntryRight(m, P!Callers(e)', P!TakesOver(e)', Reading(e)'),
           \A x \in Memory \ {e} : P!Callers(x)' = P!Callers(x) /\ P!TakesOver(x)' = P!TakesOver(x)
                                   /\ Reading(x)' = Reading(x)
    PROVE  EntriesRight'
<1>1. mem'[e] = m /\ \A x \in Memory \ {e} : mem'[x] = mem[x]
  BY DEF Typed
<1>2. \A x \in Memory : EntryRight(mem'[x], P!Callers(x)', P!TakesOver(x)', Reading(x)')
  BY <1>1 DEF EntriesRight
<1> QED
  BY <1>2 DEF EntriesRight, EntryRight, Freers, HasEvent, HasFence

\* No entry changes, and their holders are the same.
LEMMA EntriesStay ==
    ASSUME EntriesRight, mem' = mem,
           \A x \in Memory : P!Callers(x)' = P!Callers(x) /\ P!TakesOver(x)' = P!TakesOver(x)
                                   /\ Reading(x)' = Reading(x)
    PROVE  EntriesRight'
  BY DEF EntriesRight, EntryRight, Freers, HasEvent, HasFence

\* kgsl_mem_entry_put: the entry is there as long as someone holds it, and when it goes
\* it puts its structure.
LEMMA EntryPuts ==
    ASSUME Typed, PrivsRight, EntriesRight,
           NEW e \in Memory, NEW m \in EntryType, NEW who \in Whos, P!Puts(e, m, who),
           mem[e].at = "live", m.at = "live", m.of = mem[e].of, m.event = mem[e].event,
           m.refs > 0,
           m.refs - 1 = P!Callers(e)' + m.vmas + Reading(e)'
                        + (IF m.pend THEN Freers(m, P!TakesOver(e)') ELSE 1),
           Freers(m, P!TakesOver(e)') <= IF m.pend THEN 1 ELSE 0,
           \A x \in Memory \ {e} : P!Callers(x)' = P!Callers(x) /\ P!TakesOver(x)' = P!TakesOver(x)
                                   /\ Reading(x)' = Reading(x),
           context' = context,
           \A p \in Privs : FilesOf(p)' = FilesOf(p) /\ OfPriv(show', p) = OfPriv(show, p),
           who = "show" => OfPriv(show, m.of) = 1
    PROVE  /\ mem' \in [Memory -> EntryType] /\ priv' \in [Privs -> PrivType]
           /\ EntriesRight' /\ PrivsRight' /\ FilesOfPrivs' = FilesOfPrivs /\ EventEntries' = EventEntries
           /\ \A x \in Memory \ {e} : mem'[x] = mem[x]
           /\ mem'[e].at = "live" => mem'[e].of = mem[e].of /\ mem'[e].pend = m.pend
           /\ mem'[e].at \in {"live", "none"}
           /\ P!Callers(e)' > 0 \/ Reading(e)' > 0 => mem'[e].at = "live"
<1>1. /\ P!Callers(e)' \in Nat /\ P!TakesOver(e)' \in Nat /\ Reading(e)' \in Nat
      /\ EventEntries \in Nat /\ EventEntries' \in Nat
  BY Numbers, NumbersAfter DEF Reading
<1>2. /\ m.refs = 1 => EntryRight(P!NoEntry, P!Callers(e)', P!TakesOver(e)', Reading(e)')
      /\ m.refs # 1 => EntryRight([m EXCEPT !.refs = @ - 1], P!Callers(e)', P!TakesOver(e)', Reading(e)')
  BY <1>1, PutRight
<1>3. m.of \in Privs
  BY DEF EntryType
<1>4. CASE m.refs = 1
  <2>1. mem' = [mem EXCEPT ![e] = P!NoEntry] /\ priv' = P!Dropped(priv, m.of, who)
    BY <1>4 DEF P!Puts
  <2>2. EntriesRight'
    BY <1>2, <1>4, <2>1, EntriesMove
  <2>3. mem' \in [Memory -> EntryType] /\ mem'[e] = P!NoEntry
        /\ \A x \in Memory \ {e} : mem'[x] = mem[x]
    BY <2>1, Nothings DEF Typed
  <2>4. /\ \A p \in Privs : EntriesOf(p)' = EntriesOf(p) + OfPriv(P!NoEntry, p) - OfPriv(mem[e], p)
        /\ EventEntries' = EventEntries + HasEvent(P!NoEntry) - HasEvent(mem[e])
    BY <2>1, EntryMoves
  <2>5. \A p \in Privs : OfPriv(P!NoEntry, p) = 0 /\ OfPriv(mem[e], p) = IF p = m.of THEN 1 ELSE 0
    BY DEF OfPriv, P!NoEntry
  <2>6. m.event = "none" /\ HasEvent(mem[e]) = 0 /\ HasEvent(P!NoEntry) = 0
    <3>1. Freers(m, P!TakesOver(e)') = 0
      BY <1>1, <1>4 DEF EntryType, Freers, HasEvent, HasFence
    <3>2. HasEvent(m) = 0
      BY <1>1, <3>1 DEF Freers, HasEvent, HasFence
    <3> QED
      BY <3>2 DEF HasEvent, P!NoEntry
  <2>7. EventEntries' = EventEntries
    BY <2>4, <2>6, Numbers
  <2>8. /\ PrivRefs(m.of)' = PrivRefs(m.of) - 1 /\ PrivRefs(m.of)' \in Nat
        /\ \A q \in Privs \ {m.of} : PrivRefs(q)' = PrivRefs(q)
        /\ who = "show" => PrivRefs(m.of)' > 0
    BY <1>3, <2>4, <2>5, Numbers, NumbersAfter, PrivRefsAfter
  <2>9. priv' \in [Privs -> PrivType] /\ PrivsRight' /\ FilesOfPrivs' = FilesOfPrivs
    BY <1>3, <2>1, <2>8, PrivDrops
  <2>10. P!Callers(e)' = 0 /\ Reading(e)' = 0 /\ mem'[e].at = "none"
    BY <1>2, <1>4, <2>3 DEF EntryRight, P!NoEntry
  <2> QED
    BY <2>2, <2>3, <2>7, <2>9, <2>10
<1>5. CASE m.refs # 1
  <2> DEFINE n == [m EXCEPT !.refs = @ - 1]
  <2>1. mem' = [mem EXCEPT ![e] = n] /\ priv' = priv
    BY <1>5 DEF P!Puts
  <2>2. n \in EntryType /\ n.at = "live" /\ n.of = m.of /\ n.pend = m.pend /\ n.event = m.event
    BY <1>5 DEF EntryType
  <2>3. EntryRight(n, P!Callers(e)', P!TakesOver(e)', Reading(e)')
    BY <1>2, <1>5
  <2> HIDE DEF n
  <2>4. EntriesRight'
    BY <2>1, <2>3, EntriesMove
  <2>5. mem' \in [Memory -> EntryType] /\ mem'[e] = n /\ \A x \in Memory \ {e} : mem'[x] = mem[x]
    BY <2>1, <2>2 DEF Typed
  <2>6. /\ \A p \in Privs : EntriesOf(p)' = EntriesOf(p) + OfPriv(n, p) - OfPriv(mem[e], p)
        /\ EventEntries' = EventEntries + HasEvent(n) - HasEvent(mem[e])
    BY <2>1, EntryMoves
  <2>7. HasEvent(n) = HasEvent(mem[e]) /\ HasEvent(n) \in Nat
        /\ \A p \in Privs : OfPriv(n, p) = OfPriv(mem[e], p) /\ OfPriv(n, p) \in Nat
    BY <2>2 DEF OfPriv, HasEvent
  <2>8. EventEntries' = EventEntries /\ \A p \in Privs : EntriesOf(p)' = EntriesOf(p)
    BY <2>6, <2>7, Numbers, NumbersAfter
  <2>9. \A p \in Privs : PrivRefs(p)' = PrivRefs(p)
    BY <2>8, PrivRefsAfter
  <2>10. PrivsRight' /\ FilesOfPrivs' = FilesOfPrivs
    BY <2>1, <2>9 DEF PrivsRight, FilesOfPrivs, PrivRight
  <2> QED
    BY <2>1, <2>2, <2>4, <2>5, <2>8, <2>10 DEF Typed
<1> QED
  BY <1>4, <1>5


\* kgsl_context_put: the same of a context, of which a detach puts three references.
LEMMA ContextPuts ==
    ASSUME Typed, PrivsRight, ContextRight,
           NEW n \in {1, 3}, NEW who \in Whos, who # "show", P!PutsContext(n, who),
           ContextUsers' = ContextUsers - 1,
           Detachers' = Detachers - (IF n = 3 THEN 1 ELSE 0),
           show' = show,
           \A p \in Privs : FilesOf(p)' = FilesOf(p) /\ EntriesOf(p)' = EntriesOf(p)
    PROVE  /\ context' \in ContextType /\ priv' \in [Privs -> PrivType]
           /\ PrivsRight' /\ FilesOfPrivs' = FilesOfPrivs
           /\ ContextFits(context', Detachers', ContextUsers')
           /\ context'.at = "live" => context.at = "live" /\ context'.file = context.file
<1>1. /\ Detachers \in Nat /\ ContextUsers \in Nat /\ Detachers' \in Nat /\ ContextUsers' \in Nat
  BY NumbersAdd
<1>2. /\ context.refs \in Nat /\ context.of \in Privs
      /\ context.at \in {"none", "live", "detached", "cancelled"} /\ context \in ContextType
  BY DEF Typed, ContextType
<1>3. ContextFits(context, Detachers, ContextUsers)
  BY DEF ContextRight
<1>4. context.at # "none" /\ context.refs >= n /\ (n = 3 => Detachers = 1 /\ context.at # "live")
  BY <1>1, <1>2, <1>3 DEF ContextFits
<1>5. CASE context.refs = n
  <2>1. context' = P!NoContext /\ priv' = P!Dropped(priv, context.of, who)
    BY <1>5 DEF P!PutsContext
  <2>2. ContextUsers' = 0 /\ Detachers' = 0
    BY <1>1, <1>2, <1>3, <1>4, <1>5 DEF ContextFits
  <2>3. ContextFits(context', Detachers', ContextUsers')
    BY <2>1, <2>2 DEF ContextFits, P!NoContext
  <2>4. PICK p \in Privs : p = context.of
    BY <1>2
  <2>5. \A q \in Privs : OfPriv(context', q) = 0 /\ OfPriv(context, q) = IF q = p THEN 1 ELSE 0
    BY <1>4, <2>1, <2>4 DEF OfPriv, P!NoContext
  <2>6. \A q \in Privs : OfPriv(show', q) = OfPriv(show, q)
    OBVIOUS
  <2>7. /\ PrivRefs(p)' = PrivRefs(p) - 1 /\ PrivRefs(p)' \in Nat
        /\ \A q \in Privs \ {p} : PrivRefs(q)' = PrivRefs(q)
    BY <2>5, <2>6, Numbers, NumbersAfter, PrivRefsAfter
  <2>8. priv' \in [Privs -> PrivType] /\ PrivsRight' /\ FilesOfPrivs' = FilesOfPrivs
    BY <2>1, <2>4, <2>7, PrivDrops
  <2> QED
    BY <2>1, <2>3, <2>8, Nothings DEF P!NoContext
<1>6. CASE context.refs # n
  <2>1. context' = [context EXCEPT !.refs = @ - n] /\ priv' = priv
    BY <1>6 DEF P!PutsContext
  <2>2. /\ context'.refs = context.refs - n /\ context'.at = context.at
        /\ context'.file = context.file /\ context'.of = context.of /\ context' \in ContextType
    BY <1>2, <1>4, <2>1 DEF ContextType
  <2>3. ContextFits(context', Detachers', ContextUsers')
    BY <1>1, <1>2, <1>3, <1>4, <1>6, <2>2 DEF ContextFits
  <2>4. \A p \in Privs : PrivRefs(p)' = PrivRefs(p)
    <3>1. \A p \in Privs : OfPriv(context', p) = OfPriv(context, p)
      BY <2>2 DEF OfPriv
    <3> QED
      BY <3>1, PrivRefsAfter
  <2>5. PrivsRight' /\ FilesOfPrivs' = FilesOfPrivs
    BY <2>1, <2>4 DEF PrivsRight, FilesOfPrivs, PrivRight
  <2> QED
    BY <2>1, <2>2, <2>3, <2>5 DEF Typed
<1> QED
  BY <1>5, <1>6

-----------------------------------------------------------------------------
(* What a step leaves alone.                                               *)

\* The structures are what they were, with the holders they had.
LEMMA PrivsStay ==
    ASSUME PrivsRight, priv' = priv, \A p \in Privs : PrivRefs(p)' = PrivRefs(p)
    PROVE  PrivsRight' /\ FilesOfPrivs' = FilesOfPrivs
  BY DEF PrivsRight, FilesOfPrivs, PrivRight

\* The files are what they were, and the structures count them as before.
LEMMA FilesStay ==
    ASSUME FilesRight, file' = file, process_mutex' = process_mutex,
           FilesOfPrivs' = FilesOfPrivs
    PROVE  FilesRight'
<1>1. \A p \in Privs : priv'[p].fds = priv[p].fds /\ priv'[p].mutex = priv[p].mutex
  BY DEF FilesOfPrivs
<1> QED
  BY <1>1, NumbersStay DEF FilesRight

\* What the user has not freed now, he had not freed before: the file that will release it is
\* still there.
LEMMA UnfreedStays ==
    ASSUME Typed, mem' \in [Memory -> EntryType], Unfreed, FilesOfPrivs' = FilesOfPrivs,
           \A f \in Files : file[f].at = "release" => file'[f] = file[f],
           \A x \in Memory : mem'[x].at = "live" /\ ~mem'[x].pend =>
               mem[x].at = "live" /\ ~mem[x].pend /\ mem'[x].of = mem[x].of
    PROVE  Unfreed'
<1>1. \A p \in Privs : priv'[p].fds = priv[p].fds
  BY DEF FilesOfPrivs
<1> SUFFICES ASSUME NEW x \in Memory, mem'[x].at = "live", ~mem'[x].pend
             PROVE  priv'[mem'[x].of].fds > 0 \/ Releasing(x)'
  BY DEF Unfreed
<1>2. mem[x].at = "live" /\ ~mem[x].pend /\ mem'[x].of = mem[x].of /\ mem[x].of \in Privs
  BY DEF Typed, EntryType
<1>3. Releasing(x) => Releasing(x)'
  BY <1>2 DEF Releasing
<1> QED
  BY <1>1, <1>2, <1>3 DEF Unfreed

\* The calls that do not move are right if their file stays open and their entry what it is.
LEMMA CallsStay ==
    ASSUME Typed, ioctl' \in [Ioctls -> CallType], CallsRight,
           NEW Moved \in SUBSET Ioctls,
           \A u \in Ioctls \ Moved : ioctl'[u] = ioctl[u],
           \A u \in Moved : CallRight(ioctl'[u], file', mem') /\ ioctl'[u].at # "map",
           \A u \in Ioctls \ Moved : ioctl[u].at # "idle" =>
               file'[ioctl[u].file].at = "open" /\ file'[ioctl[u].file].of = file[ioctl[u].file].of,
           \A u \in Ioctls \ Moved, x \in Memory :
               ioctl[u].at \in P!UsesEntry /\ ioctl[u].e = x =>
                   mem'[x].of = mem[x].of /\ (mem'[x].at = "attached" <=> mem[x].at = "attached")
    PROVE  CallsRight'
<1>1. ASSUME NEW u \in Ioctls \ Moved
      PROVE  CallRight(ioctl'[u], file', mem')
  <2>1. PICK c \in CallType : c = ioctl[u] /\ ioctl'[u] = c /\ CallRight(c, file, mem)
    BY <1>1 DEF CallsRight, Typed
  <2>2. c.at # "idle" => file'[c.file].at = "open" /\ file'[c.file].of = file[c.file].of
    BY <1>1, <2>1
  <2>3. c.at \in P!UsesEntry =>
               /\ c.e \in Memory /\ mem'[c.e].of = mem[c.e].of
               /\ mem'[c.e].at = "attached" <=> mem[c.e].at = "attached"
    BY <1>1, <2>1 DEF CallRight
  <2>4. c.at \in P!UsesEntry => c.at # "idle"
    BY DEF P!UsesEntry
  <2>5. CallRight(c, file', mem')
    BY <2>1, <2>2, <2>3, <2>4 DEF CallRight
  <2> QED
    BY <2>1, <2>5
<1>2. \A u \in Ioctls : CallRight(ioctl'[u], file', mem')
  BY <1>1
<1>3. \A t, u \in Ioctls :
         ioctl'[t].at = "map" /\ ioctl'[u].at = "map" /\ ioctl'[t].e = ioctl'[u].e => t = u
  BY DEF CallsRight
<1> QED
  BY <1>2, <1>3 DEF CallsRight

\* Who uses an entry is one of its callers, before the step and after it.
LEMMA UsersCount ==
    ASSUME NEW u \in Ioctls, NEW x \in Memory, ioctl[u].at \in P!UsesEntry, ioctl[u].e = x
    PROVE  P!Callers(x) > 0 /\ (ioctl'[u] = ioctl[u] => P!Callers(x)' > 0)
<1>1. PICK c : c = ioctl[u]
  OBVIOUS
<1>2. Using(c, x) = 1
  BY <1>1 DEF Using
<1>3. P!Callers(x) >= Using(c, x)
  BY <1>1, Counted
<1>4. ioctl'[u] = ioctl[u] => P!Callers(x)' >= Using(c, x)
  BY <1>1, CallersAfter
<1> QED
  BY <1>2, <1>3, <1>4, Numbers, NumbersAfter

\* A context that is what it was is right while its file stays open.
LEMMA ContextStays ==
    ASSUME ContextRight, context' = context, ContextUsers' = ContextUsers, Detachers' = Detachers,
           \A f \in Files : file[f].at \in {"open", "contexts"} => file'[f].at \in {"open", "contexts"},
           Typed
    PROVE  ContextRight'
<1>1. ContextFits(context', Detachers', ContextUsers')
  BY DEF ContextRight
<1>2. context'.at = "live" => file'[context'.file].at \in {"open", "contexts"}
  BY DEF ContextRight, Typed, ContextType
<1> QED
  BY <1>1, <1>2 DEF ContextRight

\* What a call becomes
LEMMA CallGoes ==
    ASSUME Typed, NEW t \in Ioctls, NEW next \in CallAts, P!Goes(t, next)
    PROVE  \E c \in CallType :
             /\ ioctl' = [ioctl EXCEPT ![t] = c]
             /\ c.at = next /\ c.op = ioctl[t].op /\ c.file = ioctl[t].file /\ c.e = ioctl[t].e
<1> DEFINE c == [ioctl[t] EXCEPT !.at = next]
<1>1. c \in CallType /\ c.at = next /\ c.op = ioctl[t].op /\ c.file = ioctl[t].file
      /\ c.e = ioctl[t].e
  BY DEF Typed, CallType
<1>2. ioctl' = [ioctl EXCEPT ![t] = c]
  BY DEF P!Goes
<1> QED
  BY <1>1, <1>2

\* A call that returns is idle.
LEMMA CallReturns ==
    ASSUME Typed, NEW t \in Ioctls, P!Returns(t)
    PROVE  \E c \in CallType : ioctl' = [ioctl EXCEPT ![t] = c] /\ c.at = "idle"
  BY Nothings DEF P!Returns, P!NoCall

\* A structure with an open file counts it.
LEMMA OpenCounted ==
    ASSUME Typed, FilesRight, NEW f \in Files, NEW p \in Privs, file[f].of = p,
           file[f].at \in P!Counted
    PROVE  priv[p].fds > 0 /\ priv[p].fds = CountedFiles(p)
<1>1. PICK r : r = file[f]
  OBVIOUS
<1>2. CountedIn(r, p) = 1
  BY <1>1 DEF CountedIn, P!Counted
<1>3. CountedFiles(p) >= CountedIn(r, p)
  BY <1>1, Counted
<1> QED
  BY <1>2, <1>3, Numbers DEF FilesRight

-----------------------------------------------------------------------------
(* The steps of a call that changes one entry.                             *)

\* A step of a call that changes the call, its entry m and the number of the context's
\* references, and keeps their holders in balance.
LEMMA CallSteps ==
    ASSUME ProcessInv,
           NEW t \in Ioctls, NEW o \in CallType, o = ioctl[t],
           NEW c \in CallType, ioctl' = [ioctl EXCEPT ![t] = c],
           NEW e \in Memory, NEW m \in EntryType, mem' = [mem EXCEPT ![e] = m],
           priv' = priv, process_mutex' = process_mutex, file' = file, show' = show,
           o.at \in P!UsesEntry => o.e = e, c.at \in P!UsesEntry => c.e = e,
           CallDetaching(o) = 0, CallDetaching(c) = 0, c.at # "map",
           CallRight(c, file', mem'),
           m.of = mem[e].of, m.at # "none", mem[e].at # "none",
           m.at = "attached" <=> mem[e].at = "attached" /\ o.at # "map",
           EntryRight(m, P!Callers(e) + Using(c, e) - Using(o, e),
                      P!TakesOver(e) + Taking(c, e) - Taking(o, e), Reading(e)),
           m.at = "live" /\ ~m.pend =>
               \/ mem[e].at = "live" /\ ~mem[e].pend
               \/ \E f \in Files : file[f].at = "open" /\ file[f].of = m.of,
           context' \in ContextType, context'.at = context.at, context'.file = context.file,
           context'.of = context.of,
           context'.refs = context.refs + InContext(c) - InContext(o) + HasEvent(m) - HasEvent(mem[e]),
           context' = context \/ (context.at # "none" /\ context'.refs > 0)
    PROVE  ProcessInv'
<1>1. Typed /\ FilesRight /\ PrivsRight /\ EntriesRight /\ ContextRight /\ CallsRight
      /\ ShowRight /\ Unfreed
  BY DEF ProcessInv
<1>2. Typed'
  BY <1>1 DEF Typed
<1>3. /\ \A x \in Memory : P!Callers(x)' = P!Callers(x) + Using(c, x) - Using(o, x)
      /\ \A x \in Memory : P!TakesOver(x)' = P!TakesOver(x) + Taking(c, x) - Taking(o, x)
      /\ ContextCalls' = ContextCalls + InContext(c) - InContext(o)
      /\ CallDetachers' = CallDetachers + CallDetaching(c) - CallDetaching(o)
  BY <1>1, CallMoves
<1>4. \A x \in Memory \ {e} : Using(c, x) = 0 /\ Using(o, x) = 0 /\ Taking(c, x) = 0 /\ Taking(o, x) = 0
  BY DEF Using, Taking, P!UsesEntry
<1>5. \A x \in Memory : Reading(x)' = Reading(x)
  BY DEF Reading
<1>6. \A x \in Memory \ {e} : P!Callers(x)' = P!Callers(x) /\ P!TakesOver(x)' = P!TakesOver(x)
                              /\ Reading(x)' = Reading(x)
  BY <1>3, <1>4, <1>5, Numbers
<1>7. EntryRight(m, P!Callers(e)', P!TakesOver(e)', Reading(e)')
  BY <1>3, <1>5
<1>8. EntriesRight'
  BY <1>1, <1>6, <1>7, EntriesMove
<1>9. /\ \A p \in Privs : EntriesOf(p)' = EntriesOf(p) + OfPriv(m, p) - OfPriv(mem[e], p)
      /\ EventEntries' = EventEntries + HasEvent(m) - HasEvent(mem[e])
  BY <1>1, EntryMoves
<1>10. \A p \in Privs : OfPriv(m, p) = OfPriv(mem[e], p) /\ OfPriv(m, p) \in Nat
                        /\ OfPriv(context', p) = OfPriv(context, p) /\ OfPriv(show', p) = OfPriv(show, p)
  BY DEF OfPriv
<1>11. /\ \A p \in Privs : FilesOf(p)' = FilesOf(p)
       /\ ContextFiles' = ContextFiles /\ FileDetachers' = FileDetachers
  BY NumbersStay
<1>12. \A p \in Privs : EntriesOf(p)' = EntriesOf(p)
  BY <1>9, <1>10, Numbers
<1>13. \A p \in Privs : PrivRefs(p)' = PrivRefs(p)
  BY <1>10, <1>11, <1>12, PrivRefsAfter
<1>14. PrivsRight' /\ FilesOfPrivs' = FilesOfPrivs
  BY <1>1, <1>13, PrivsStay
<1>15. FilesRight'
  BY <1>1, <1>14, FilesStay
<1>16. Detachers' = Detachers
  BY <1>3, <1>11, Numbers DEF Detachers
<1>17. ContextRight'
  <2>1. InContext(c) \in {0, 1} /\ InContext(o) \in {0, 1} /\ HasEvent(m) \in {0, 1}
        /\ HasEvent(mem[e]) \in {0, 1}
    BY DEF InContext, HasEvent
  <2>2. ContextUsers' = ContextUsers + InContext(c) - InContext(o) + HasEvent(m) - HasEvent(mem[e])
    BY <1>3, <1>9, <1>11, <2>1, Numbers DEF ContextUsers
  <2>3. ContextFits(context, Detachers, ContextUsers) /\ context.refs \in Nat
        /\ (context.at = "live" => file[context.file].at \in {"open", "contexts"})
    BY <1>1 DEF ContextRight, Typed, ContextType
  <2>4. ContextFits(context', Detachers', ContextUsers')
    <3>1. context'.refs - context.refs = ContextUsers' - ContextUsers
      BY <2>1, <2>2, <2>3, NumbersAdd
    <3>2. context'.refs \in Nat
      BY DEF ContextType
    <3>3. context'.at = "none" <=> context'.refs = 0
      BY <2>3 DEF ContextFits
    <3> QED
      BY <1>16, <2>3, <3>1, <3>2, <3>3, NumbersAdd DEF ContextFits
  <2> QED
    BY <2>3, <2>4 DEF ContextRight
<1>18. CallsRight'
  <2>1. ioctl' \in [Ioctls -> CallType] /\ ioctl'[t] = c /\ \A u \in Ioctls \ {t} : ioctl'[u] = ioctl[u]
    BY <1>1 DEF Typed
  <2>2. \A u \in Ioctls \ {t} : ioctl[u].at # "idle" => file[ioctl[u].file].at = "open"
    BY <1>1 DEF CallsRight, CallRight
  <2>3. ASSUME NEW u \in Ioctls \ {t}, NEW x \in Memory, ioctl[u].at \in P!UsesEntry, ioctl[u].e = x
        PROVE  mem'[x].of = mem[x].of /\ (mem'[x].at = "attached" <=> mem[x].at = "attached")
    <3>1. CASE x # e
      BY <1>1, <3>1 DEF Typed
    <3>2. CASE x = e
      <4>1. mem'[x] = m
        BY <1>1, <3>2 DEF Typed
      <4>2. CASE o.at # "map"
        BY <3>2, <4>1, <4>2
      <4>3. CASE o.at = "map"
        <5>1. o.e = e
          BY <4>3 DEF P!UsesEntry
        <5>2. ioctl[u].at # "map"
          BY <1>1, <2>3, <3>2, <4>3, <5>1 DEF CallsRight
        <5>3. mem[x].at # "attached"
          BY <1>1, <2>3, <5>2 DEF CallsRight, CallRight
        <5> QED
          BY <3>2, <4>1, <4>3, <5>3
      <4> QED
        BY <4>2, <4>3
    <3> QED
      BY <3>1, <3>2
  <2>4. \A u \in {t} : CallRight(ioctl'[u], file', mem') /\ ioctl'[u].at # "map"
    BY <2>1
  <2>5. \A u \in Ioctls \ {t} : ioctl[u].at # "idle" =>
               file'[ioctl[u].file].at = "open" /\ file'[ioctl[u].file].of = file[ioctl[u].file].of
    BY <2>2
  <2>6. {t} \in SUBSET Ioctls /\ ioctl' \in [Ioctls -> CallType]
        /\ \A u \in Ioctls \ {t} : ioctl'[u] = ioctl[u]
    BY <2>1
  <2>7. \A u \in Ioctls \ {t}, x \in Memory :
               ioctl[u].at \in P!UsesEntry /\ ioctl[u].e = x =>
                   mem'[x].of = mem[x].of /\ (mem'[x].at = "attached" <=> mem[x].at = "attached")
    BY <2>3
  <2> QED
    BY <1>1, <2>4, <2>5, <2>6, <2>7, CallsStay
<1>19. ShowRight'
  BY <1>1 DEF ShowRight, Typed
<1>20. Unfreed'
  <2> SUFFICES ASSUME NEW x \in Memory, mem'[x].at = "live", ~mem'[x].pend
               PROVE  priv'[mem'[x].of].fds > 0 \/ Releasing(x)'
    BY DEF Unfreed
  <2>1. mem'[x].of = mem[x].of
    BY <1>1 DEF Typed
  <2>2. CASE mem[x].at = "live" /\ ~mem[x].pend
    BY <1>1, <2>1, <2>2 DEF Unfreed, Releasing
  <2>3. CASE \E f \in Files : file[f].at = "open" /\ file[f].of = mem[x].of
    BY <1>1, <2>1, <2>3, OpenCounted DEF P!Counted, Typed, EntryType
  <2> QED
    BY <1>1, <2>1, <2>2, <2>3 DEF Typed
<1> QED
  BY <1>2, <1>8, <1>14, <1>15, <1>17, <1>18, <1>19, <1>20 DEF ProcessInv

\* What the invariant says of a caller o with an entry e, which is m.
Caller(t, o, e, m) ==
    /\ o \in CallType /\ e \in Memory /\ m \in EntryType
    /\ o = ioctl[t] /\ e = o.e /\ m = mem[e] /\ o.at \in P!UsesEntry
    /\ file[o.file].at = "open" /\ m.of = file[o.file].of
    /\ o.at = "map" <=> m.at = "attached"
    /\ o.at # "map" <=> m.at = "live"
    /\ EntryRight(m, P!Callers(e), P!TakesOver(e), Reading(e))
    /\ P!Callers(e) \in Nat \ {0} /\ P!TakesOver(e) \in Nat /\ Reading(e) \in Nat
    /\ Using(o, e) = 1 /\ Taking(o, e) \in {0, 1} /\ P!TakesOver(e) >= Taking(o, e)
    /\ Taking(o, e) = 1 <=> o.at \in {"free", "event", "wait"}
    /\ m.refs \in Nat \ {0} /\ m.vmas \in Nat
    /\ HasEvent(m) \in {0, 1} /\ HasFence(m) \in {0, 1}

\* A call with an entry knows the entry, and it is of the call's process.
LEMMA Callers ==
    ASSUME ProcessInv, NEW t \in Ioctls, ioctl[t].at \in P!UsesEntry
    PROVE  \E o \in CallType, e \in Memory, m \in EntryType : Caller(t, o, e, m)
<1>1. PICK o \in CallType : o = ioctl[t]
  BY DEF ProcessInv, Typed
<1>2. PICK e \in Memory : e = o.e
  BY <1>1 DEF ProcessInv, CallsRight, CallRight
<1>3. PICK m \in EntryType : m = mem[e]
  BY DEF ProcessInv, Typed
<1>4. /\ file[o.file].at = "open" /\ m.of = file[o.file].of /\ (o.at = "map" <=> m.at = "attached")
  BY <1>1, <1>2, <1>3 DEF ProcessInv, CallsRight, CallRight, P!UsesEntry
<1>5. EntryRight(m, P!Callers(e), P!TakesOver(e), Reading(e))
  BY <1>3 DEF ProcessInv, EntriesRight
<1>6. Using(o, e) = 1 /\ P!Callers(e) >= Using(o, e) /\ P!TakesOver(e) >= Taking(o, e)
  BY <1>1, <1>2, Counted DEF Using
<1>7. P!Callers(e) \in Nat \ {0} /\ P!TakesOver(e) \in Nat
  BY <1>6, Numbers
<1>8. Reading(e) \in Nat /\ HasEvent(m) \in {0, 1} /\ HasFence(m) \in {0, 1}
      /\ Taking(o, e) \in {0, 1} /\ (Taking(o, e) = 1 <=> o.at \in {"free", "event", "wait"})
  BY <1>2 DEF Reading, HasEvent, HasFence, Taking
<1>9. m.at \in {"attached", "live"} /\ m.refs \in Nat \ {0} /\ m.vmas \in Nat
  BY <1>5, <1>7 DEF EntryRight, EntryType
<1> QED
  BY <1>1, <1>2, <1>3, <1>4, <1>5, <1>6, <1>7, <1>8, <1>9 DEF Caller

\* A step of a call that leaves the context alone
LEMMA CallChanges ==
    ASSUME ProcessInv, NEW t \in Ioctls, NEW o \in CallType, NEW e \in Memory, NEW m \in EntryType,
           Caller(t, o, e, m),
           NEW c \in CallType, ioctl' = [ioctl EXCEPT ![t] = c],
           NEW n \in EntryType, mem' = [mem EXCEPT ![e] = n],
           priv' = priv, process_mutex' = process_mutex, file' = file, show' = show, context' = context,
           \/ c.at = "idle" /\ n.pend = m.pend
           \/ c.at \in P!UsesEntry \ {"map"} /\ c.e = e /\ c.file = o.file,
           c.at # "context",
           InContext(c) = InContext(o), HasEvent(n) = HasEvent(m), n.of = m.of, n.at = "live",
           EntryRight(n, P!Callers(e) + Using(c, e) - 1,
                      P!TakesOver(e) + Taking(c, e) - Taking(o, e), Reading(e))
    PROVE  ProcessInv'
<1>1. /\ o \in CallType /\ o = ioctl[t] /\ o.at \in P!UsesEntry /\ o.e = e /\ m = mem[e]
      /\ m.at # "none" /\ Using(o, e) = 1 /\ m \in EntryType
      /\ m.at = "attached" <=> o.at = "map"
      /\ m.at # "attached" <=> m.at = "live"
      /\ file[o.file].at = "open" /\ file[o.file].of = m.of
  BY DEF Caller
<1>2. CallDetaching(o) = 0 /\ CallDetaching(c) = 0
  BY <1>1 DEF CallDetaching, P!UsesEntry
<1>3. mem'[e] = n
  BY DEF ProcessInv, Typed
<1>4. CallRight(c, file', mem')
  BY <1>1, <1>3 DEF CallRight, P!UsesEntry
<1>5. c.at \in P!UsesEntry => c.e = e
  BY DEF P!UsesEntry
<1>6. n.at = "live" /\ ~n.pend =>
               \/ mem[e].at = "live" /\ ~mem[e].pend
               \/ \E f \in Files : file[f].at = "open" /\ file[f].of = n.of
  BY <1>1 DEF CallType
<1>7. InContext(c) \in {0, 1} /\ HasEvent(n) \in {0, 1} /\ context \in ContextType /\ context.refs \in Nat
  BY DEF InContext, HasEvent, ProcessInv, Typed, ContextType
<1>8. /\ context' \in ContextType /\ context'.at = context.at /\ context'.file = context.file
      /\ context'.of = context.of
      /\ context'.refs = context.refs + InContext(c) - InContext(o) + HasEvent(n) - HasEvent(mem[e])
  BY <1>1, <1>7
<1>9. c.at # "map"
  BY DEF P!UsesEntry
<1>10. EntryRight(n, P!Callers(e) + Using(c, e) - Using(o, e),
                  P!TakesOver(e) + Taking(c, e) - Taking(o, e), Reading(e))
  BY <1>1
<1>11. n.at # "none" /\ mem[e].at # "none" /\ n.of = mem[e].of
       /\ (n.at = "attached" <=> mem[e].at = "attached" /\ o.at # "map")
  BY <1>1
<1> QED
  BY <1>1, <1>2, <1>4, <1>5, <1>6, <1>8, <1>9, <1>10, <1>11, CallSteps, ZenonT(60)

\* kgsl_mem_entry_commit_process, kgsl_mmap, and the fences of an entry
LEMMA CommitKeeps ==
    ASSUME ProcessInv, NEW t \in Ioctls, P!Commit(t)  PROVE ProcessInv'
<1>1. PICK o \in CallType, e \in Memory, m \in EntryType : Caller(t, o, e, m)
  BY Callers DEF P!Commit, P!UsesEntry
<1>2. PICK c \in CallType : /\ ioctl' = [ioctl EXCEPT ![t] = c]
                            /\ c.at = "put" /\ c.file = o.file /\ c.e = o.e
  BY <1>1, CallGoes DEF P!Commit, ProcessInv, Caller, CallAts
<1>3. o.at = "map"
  BY <1>1 DEF P!Commit, Caller
<1>4. PICK n \in EntryType :
        /\ mem' = [mem EXCEPT ![e] = n] /\ n.at = "live" /\ n.of = m.of /\ n.event = m.event
        /\ n.refs = m.refs /\ n.pend = m.pend /\ n.vmas = m.vmas /\ n.cb = m.cb
  <2> DEFINE n == [m EXCEPT !.at = "live"]
  <2>1. mem' = [mem EXCEPT ![e] = n]
    BY <1>1 DEF P!Commit, Caller
  <2>2. n \in EntryType /\ n.at = "live" /\ n.of = m.of /\ n.event = m.event
        /\ n.refs = m.refs /\ n.pend = m.pend /\ n.vmas = m.vmas /\ n.cb = m.cb
    BY <1>1, <1>3 DEF EntryType, Caller
  <2> QED
    BY <2>1, <2>2
<1>5. /\ Using(c, e) = 1 /\ Taking(c, e) = 0 /\ Taking(o, e) = 0
      /\ InContext(c) = 0 /\ InContext(o) = 0
      /\ HasEvent(n) = HasEvent(m) /\ HasFence(n) = HasFence(m)
  BY <1>1, <1>2, <1>3, <1>4 DEF Using, Taking, InContext, P!UsesEntry, Caller, HasEvent, HasFence
<1>6. EntryRight(n, P!Callers(e), P!TakesOver(e), Reading(e))
  BY <1>1, <1>3, <1>4, <1>5 DEF EntryRight, Caller, Freers, HasFence
<1>7. EntryRight(n, P!Callers(e) + Using(c, e) - 1,
                 P!TakesOver(e) + Taking(c, e) - Taking(o, e), Reading(e))
  <2>1. P!Callers(e) + Using(c, e) - 1 = P!Callers(e)
        /\ P!TakesOver(e) + Taking(c, e) - Taking(o, e) = P!TakesOver(e)
    BY <1>1, <1>5 DEF Caller
  <2> QED
    BY <1>6, <2>1
<1>8. /\ \/ c.at = "idle" /\ n.pend = m.pend
         \/ c.at \in P!UsesEntry \ {"map"} /\ c.e = e /\ c.file = o.file
      /\ c.at # "context" /\ InContext(c) = InContext(o)
  BY <1>1, <1>2, <1>4, <1>5 DEF P!UsesEntry, Caller
<1>9. /\ priv' = priv /\ process_mutex' = process_mutex /\ file' = file /\ show' = show
      /\ context' = context
  BY DEF P!Commit
<1>10. /\ Caller(t, o, e, m) /\ ioctl' = [ioctl EXCEPT ![t] = c]
       /\ mem' = [mem EXCEPT ![e] = n] /\ HasEvent(n) = HasEvent(m) /\ n.of = m.of /\ n.at = "live"
  BY <1>1, <1>2, <1>4, <1>5
<1> QED
  BY <1>7, <1>8, <1>9, <1>10, CallChanges

\* kgsl_mmap: the vma takes the call's reference over.
LEMMA MapKeeps ==
    ASSUME ProcessInv, NEW t \in Ioctls, P!Map(t)  PROVE ProcessInv'
<1>1. PICK o \in CallType, e \in Memory, m \in EntryType : Caller(t, o, e, m)
  BY Callers DEF P!Map, P!UsesEntry
<1>2. PICK c \in CallType : ioctl' = [ioctl EXCEPT ![t] = c] /\ c.at = "idle"
  BY <1>1, CallReturns DEF P!Map, ProcessInv, Caller, CallAts
<1>3. o.at = "found"
  BY <1>1 DEF P!Map, Caller
<1>4. PICK n \in EntryType :
        /\ mem' = [mem EXCEPT ![e] = n] /\ n.at = "live" /\ n.of = m.of /\ n.event = m.event
        /\ n.refs = m.refs /\ n.pend = m.pend /\ n.vmas = m.vmas + 1 /\ n.cb = m.cb
  <2> DEFINE n == [m EXCEPT !.vmas = @ + 1]
  <2>1. mem' = [mem EXCEPT ![e] = n]
    BY <1>1 DEF P!Map, Caller
  <2>2. n \in EntryType /\ n.at = "live" /\ n.of = m.of /\ n.event = m.event
        /\ n.refs = m.refs /\ n.pend = m.pend /\ n.vmas = m.vmas + 1 /\ n.cb = m.cb
    BY <1>1, <1>3 DEF EntryType, Caller
  <2> QED
    BY <2>1, <2>2
<1>5. /\ Using(c, e) = 0 /\ Taking(c, e) = 0 /\ Taking(o, e) = 0
      /\ InContext(c) = 0 /\ InContext(o) = 0
      /\ HasEvent(n) = HasEvent(m) /\ HasFence(n) = HasFence(m)
  BY <1>1, <1>2, <1>3, <1>4 DEF Using, Taking, InContext, P!UsesEntry, Caller, HasEvent, HasFence
<1>6. EntryRight(n, P!Callers(e) - 1, P!TakesOver(e), Reading(e))
  BY <1>1, <1>3, <1>4, <1>5 DEF EntryRight, Caller, Freers, HasFence
<1>7. EntryRight(n, P!Callers(e) + Using(c, e) - 1,
                 P!TakesOver(e) + Taking(c, e) - Taking(o, e), Reading(e))
  <2>1. P!Callers(e) + Using(c, e) - 1 = P!Callers(e) - 1
        /\ P!TakesOver(e) + Taking(c, e) - Taking(o, e) = P!TakesOver(e)
    BY <1>1, <1>5 DEF Caller
  <2> QED
    BY <1>6, <2>1
<1>8. /\ \/ c.at = "idle" /\ n.pend = m.pend
         \/ c.at \in P!UsesEntry \ {"map"} /\ c.e = e /\ c.file = o.file
      /\ c.at # "context" /\ InContext(c) = InContext(o)
  BY <1>1, <1>2, <1>4, <1>5 DEF P!UsesEntry, Caller
<1>9. /\ priv' = priv /\ process_mutex' = process_mutex /\ file' = file /\ show' = show
      /\ context' = context
  BY DEF P!Map
<1>10. /\ Caller(t, o, e, m) /\ ioctl' = [ioctl EXCEPT ![t] = c]
       /\ mem' = [mem EXCEPT ![e] = n] /\ HasEvent(n) = HasEvent(m) /\ n.of = m.of /\ n.at = "live"
  BY <1>1, <1>2, <1>4, <1>5
<1> QED
  BY <1>7, <1>8, <1>9, <1>10, CallChanges

\* An event that could not be added: the user's reference is his again.
LEMMA AddEventFailsKeeps ==
    ASSUME ProcessInv, NEW t \in Ioctls, P!AddEventFails(t)  PROVE ProcessInv'
<1>1. PICK o \in CallType, e \in Memory, m \in EntryType : Caller(t, o, e, m)
  BY Callers DEF P!AddEventFails, P!UsesEntry
<1>2. PICK c \in CallType : /\ ioctl' = [ioctl EXCEPT ![t] = c]
                            /\ c.at = "putctx" /\ c.file = o.file /\ c.e = o.e
  BY <1>1, CallGoes DEF P!AddEventFails, ProcessInv, Caller, CallAts
<1>3. o.at = "event"
  BY <1>1 DEF P!AddEventFails, Caller
<1>4. PICK n \in EntryType :
        /\ mem' = [mem EXCEPT ![e] = n] /\ n.at = "live" /\ n.of = m.of /\ n.event = m.event
        /\ n.refs = m.refs /\ n.pend = FALSE /\ n.vmas = m.vmas /\ n.cb = m.cb
  <2> DEFINE n == [m EXCEPT !.pend = FALSE]
  <2>1. mem' = [mem EXCEPT ![e] = n]
    BY <1>1 DEF P!AddEventFails, Caller, P!UnsetPend
  <2>2. n \in EntryType /\ n.at = "live" /\ n.of = m.of /\ n.event = m.event
        /\ n.refs = m.refs /\ n.pend = FALSE /\ n.vmas = m.vmas /\ n.cb = m.cb
    BY <1>1, <1>3 DEF EntryType, Caller
  <2> QED
    BY <2>1, <2>2
<1>5. /\ Using(c, e) = 1 /\ Taking(c, e) = 0 /\ Taking(o, e) = 1
      /\ InContext(c) = 1 /\ InContext(o) = 1
      /\ HasEvent(n) = HasEvent(m) /\ HasFence(n) = HasFence(m)
  BY <1>1, <1>2, <1>3, <1>4 DEF Using, Taking, InContext, P!UsesEntry, Caller, HasEvent, HasFence
<1>6. EntryRight(n, P!Callers(e), P!TakesOver(e) - 1, Reading(e))
  BY <1>1, <1>3, <1>4, <1>5 DEF EntryRight, Caller, Freers, HasFence
<1>7. EntryRight(n, P!Callers(e) + Using(c, e) - 1,
                 P!TakesOver(e) + Taking(c, e) - Taking(o, e), Reading(e))
  <2>1. P!Callers(e) + Using(c, e) - 1 = P!Callers(e)
        /\ P!TakesOver(e) + Taking(c, e) - Taking(o, e) = P!TakesOver(e) - 1
    BY <1>1, <1>5 DEF Caller
  <2> QED
    BY <1>6, <2>1
<1>8. /\ \/ c.at = "idle" /\ n.pend = m.pend
         \/ c.at \in P!UsesEntry \ {"map"} /\ c.e = e /\ c.file = o.file
      /\ c.at # "context" /\ InContext(c) = InContext(o)
  BY <1>1, <1>2, <1>4, <1>5 DEF P!UsesEntry, Caller
<1>9. /\ priv' = priv /\ process_mutex' = process_mutex /\ file' = file /\ show' = show
      /\ context' = context
  BY DEF P!AddEventFails
<1>10. /\ Caller(t, o, e, m) /\ ioctl' = [ioctl EXCEPT ![t] = c]
       /\ mem' = [mem EXCEPT ![e] = n] /\ HasEvent(n) = HasEvent(m) /\ n.of = m.of /\ n.at = "live"
  BY <1>1, <1>2, <1>4, <1>5
<1> QED
  BY <1>7, <1>8, <1>9, <1>10, CallChanges

\* A fence that is refused: the user's reference is his again.
LEMMA FenceRefusedKeeps ==
    ASSUME ProcessInv, NEW t \in Ioctls, P!FenceRefused(t)  PROVE ProcessInv'
<1>1. PICK o \in CallType, e \in Memory, m \in EntryType : Caller(t, o, e, m)
  BY Callers DEF P!FenceRefused, P!UsesEntry
<1>2. PICK c \in CallType : /\ ioctl' = [ioctl EXCEPT ![t] = c]
                            /\ c.at = "put" /\ c.file = o.file /\ c.e = o.e
  BY <1>1, CallGoes DEF P!FenceRefused, ProcessInv, Caller, CallAts
<1>3. o.at = "wait"
  BY <1>1 DEF P!FenceRefused, Caller
<1>4. PICK n \in EntryType :
        /\ mem' = [mem EXCEPT ![e] = n] /\ n.at = "live" /\ n.of = m.of /\ n.event = m.event
        /\ n.refs = m.refs /\ n.pend = FALSE /\ n.vmas = m.vmas /\ n.cb = m.cb
  <2> DEFINE n == [m EXCEPT !.pend = FALSE]
  <2>1. mem' = [mem EXCEPT ![e] = n]
    BY <1>1 DEF P!FenceRefused, Caller, P!UnsetPend
  <2>2. n \in EntryType /\ n.at = "live" /\ n.of = m.of /\ n.event = m.event
        /\ n.refs = m.refs /\ n.pend = FALSE /\ n.vmas = m.vmas /\ n.cb = m.cb
    BY <1>1, <1>3 DEF EntryType, Caller
  <2> QED
    BY <2>1, <2>2
<1>5. /\ Using(c, e) = 1 /\ Taking(c, e) = 0 /\ Taking(o, e) = 1
      /\ InContext(c) = 0 /\ InContext(o) = 0
      /\ HasEvent(n) = HasEvent(m) /\ HasFence(n) = HasFence(m)
  BY <1>1, <1>2, <1>3, <1>4 DEF Using, Taking, InContext, P!UsesEntry, Caller, HasEvent, HasFence
<1>6. EntryRight(n, P!Callers(e), P!TakesOver(e) - 1, Reading(e))
  BY <1>1, <1>3, <1>4, <1>5 DEF EntryRight, Caller, Freers, HasFence
<1>7. EntryRight(n, P!Callers(e) + Using(c, e) - 1,
                 P!TakesOver(e) + Taking(c, e) - Taking(o, e), Reading(e))
  <2>1. P!Callers(e) + Using(c, e) - 1 = P!Callers(e)
        /\ P!TakesOver(e) + Taking(c, e) - Taking(o, e) = P!TakesOver(e) - 1
    BY <1>1, <1>5 DEF Caller
  <2> QED
    BY <1>6, <2>1
<1>8. /\ \/ c.at = "idle" /\ n.pend = m.pend
         \/ c.at \in P!UsesEntry \ {"map"} /\ c.e = e /\ c.file = o.file
      /\ c.at # "context" /\ InContext(c) = InContext(o)
  BY <1>1, <1>2, <1>4, <1>5 DEF P!UsesEntry, Caller
<1>9. /\ priv' = priv /\ process_mutex' = process_mutex /\ file' = file /\ show' = show
      /\ context' = context
  BY DEF P!FenceRefused
<1>10. /\ Caller(t, o, e, m) /\ ioctl' = [ioctl EXCEPT ![t] = c]
       /\ mem' = [mem EXCEPT ![e] = n] /\ HasEvent(n) = HasEvent(m) /\ n.of = m.of /\ n.at = "live"
  BY <1>1, <1>2, <1>4, <1>5
<1> QED
  BY <1>7, <1>8, <1>9, <1>10, CallChanges

\* The fence's callback takes the user's reference over.
LEMMA FenceWaitsKeeps ==
    ASSUME ProcessInv, NEW t \in Ioctls, P!FenceWaits(t)  PROVE ProcessInv'
<1>1. PICK o \in CallType, e \in Memory, m \in EntryType : Caller(t, o, e, m)
  BY Callers DEF P!FenceWaits, P!UsesEntry
<1>2. PICK c \in CallType : /\ ioctl' = [ioctl EXCEPT ![t] = c]
                            /\ c.at = "put" /\ c.file = o.file /\ c.e = o.e
  BY <1>1, CallGoes DEF P!FenceWaits, ProcessInv, Caller, CallAts
<1>3. o.at = "wait"
  BY <1>1 DEF P!FenceWaits, Caller
<1>4. PICK n \in EntryType :
        /\ mem' = [mem EXCEPT ![e] = n] /\ n.at = "live" /\ n.of = m.of /\ n.event = m.event
        /\ n.refs = m.refs /\ n.pend = m.pend /\ n.vmas = m.vmas /\ n.cb = TRUE
  <2> DEFINE n == [m EXCEPT !.cb = TRUE]
  <2>1. mem' = [mem EXCEPT ![e] = n]
    BY <1>1 DEF P!FenceWaits, Caller
  <2>2. n \in EntryType /\ n.at = "live" /\ n.of = m.of /\ n.event = m.event
        /\ n.refs = m.refs /\ n.pend = m.pend /\ n.vmas = m.vmas /\ n.cb = TRUE
    BY <1>1, <1>3 DEF EntryType, Caller
  <2> QED
    BY <2>1, <2>2
<1>5. /\ Using(c, e) = 1 /\ Taking(c, e) = 0 /\ Taking(o, e) = 1
      /\ InContext(c) = 0 /\ InContext(o) = 0
      /\ HasEvent(n) = HasEvent(m) /\ HasFence(n) = 1
  BY <1>1, <1>2, <1>3, <1>4 DEF Using, Taking, InContext, P!UsesEntry, Caller, HasEvent, HasFence
<1>6. EntryRight(n, P!Callers(e), P!TakesOver(e) - 1, Reading(e))
  BY <1>1, <1>3, <1>4, <1>5 DEF EntryRight, Caller, Freers, HasFence
<1>7. EntryRight(n, P!Callers(e) + Using(c, e) - 1,
                 P!TakesOver(e) + Taking(c, e) - Taking(o, e), Reading(e))
  <2>1. P!Callers(e) + Using(c, e) - 1 = P!Callers(e)
        /\ P!TakesOver(e) + Taking(c, e) - Taking(o, e) = P!TakesOver(e) - 1
    BY <1>1, <1>5 DEF Caller
  <2> QED
    BY <1>6, <2>1
<1>8. /\ \/ c.at = "idle" /\ n.pend = m.pend
         \/ c.at \in P!UsesEntry \ {"map"} /\ c.e = e /\ c.file = o.file
      /\ c.at # "context" /\ InContext(c) = InContext(o)
  BY <1>1, <1>2, <1>4, <1>5 DEF P!UsesEntry, Caller
<1>9. /\ priv' = priv /\ process_mutex' = process_mutex /\ file' = file /\ show' = show
      /\ context' = context
  BY DEF P!FenceWaits
<1>10. /\ Caller(t, o, e, m) /\ ioctl' = [ioctl EXCEPT ![t] = c]
       /\ mem' = [mem EXCEPT ![e] = n] /\ HasEvent(n) = HasEvent(m) /\ n.of = m.of /\ n.at = "live"
  BY <1>1, <1>2, <1>4, <1>5
<1> QED
  BY <1>7, <1>8, <1>9, <1>10, CallChanges

\* The fence has signalled: the call puts the user's reference by the worker.
LEMMA FenceSignalledKeeps ==
    ASSUME ProcessInv, NEW t \in Ioctls, P!FenceSignalled(t)  PROVE ProcessInv'
<1>1. PICK o \in CallType, e \in Memory, m \in EntryType : Caller(t, o, e, m)
  BY Callers DEF P!FenceSignalled, P!UsesEntry
<1>2. PICK c \in CallType : /\ ioctl' = [ioctl EXCEPT ![t] = c]
                            /\ c.at = "put" /\ c.file = o.file /\ c.e = o.e
  BY <1>1, CallGoes DEF P!FenceSignalled, ProcessInv, Caller, CallAts
<1>3. o.at = "wait"
  BY <1>1 DEF P!FenceSignalled, Caller
<1>4. PICK n \in EntryType :
        /\ mem' = [mem EXCEPT ![e] = n] /\ n.at = "live" /\ n.of = m.of /\ n.event = m.event
        /\ n.refs = m.refs - 1 /\ n.pend = m.pend /\ n.vmas = m.vmas /\ n.cb = m.cb
  <2> DEFINE n == [m EXCEPT !.refs = @ - 1]
  <2>1. m.refs # 1
    BY <1>1, <1>3 DEF Caller, EntryRight, Freers
  <2>2. P!PutLater(m) = n
    BY <2>1 DEF P!PutLater, EntryType
  <2>3. mem' = [mem EXCEPT ![e] = P!PutLater(m)]
    BY <1>1 DEF P!FenceSignalled, Caller
  <2>4. n \in EntryType /\ n.at = "live" /\ n.of = m.of /\ n.event = m.event
        /\ n.refs = m.refs - 1 /\ n.pend = m.pend /\ n.vmas = m.vmas /\ n.cb = m.cb
    BY <1>1, <1>3, <2>1 DEF EntryType, Caller
  <2> QED
    BY <2>2, <2>3, <2>4
<1>5. /\ Using(c, e) = 1 /\ Taking(c, e) = 0 /\ Taking(o, e) = 1
      /\ InContext(c) = 0 /\ InContext(o) = 0
      /\ HasEvent(n) = HasEvent(m) /\ HasFence(n) = HasFence(m)
  BY <1>1, <1>2, <1>3, <1>4 DEF Using, Taking, InContext, P!UsesEntry, Caller, HasEvent, HasFence
<1>6. EntryRight(n, P!Callers(e), P!TakesOver(e) - 1, Reading(e))
  <2>1. /\ m.at = "live" /\ m.pend = TRUE /\ HasEvent(m) = 0 /\ HasFence(m) = 0 /\ P!TakesOver(e) = 1
        /\ m.refs = P!Callers(e) + m.vmas + Reading(e) + 1
    BY <1>1, <1>3, <1>5 DEF EntryRight, Caller, Freers
  <2>2. Freers(n, 0) = 0
    BY <1>5, <2>1 DEF Freers
  <2>3. n.refs = P!Callers(e) + n.vmas + Reading(e) /\ n.refs > 0
    BY <1>1, <1>4, <2>1 DEF Caller
  <2>4. EntryRight(n, P!Callers(e), 0, Reading(e))
    BY <1>1, <1>4, <2>1, <2>2, <2>3 DEF EntryRight, Caller
  <2> QED
    BY <2>1, <2>4
<1>7. EntryRight(n, P!Callers(e) + Using(c, e) - 1,
                 P!TakesOver(e) + Taking(c, e) - Taking(o, e), Reading(e))
  <2>1. P!Callers(e) + Using(c, e) - 1 = P!Callers(e)
        /\ P!TakesOver(e) + Taking(c, e) - Taking(o, e) = P!TakesOver(e) - 1
    BY <1>1, <1>5 DEF Caller
  <2> QED
    BY <1>6, <2>1
<1>8. /\ \/ c.at = "idle" /\ n.pend = m.pend
         \/ c.at \in P!UsesEntry \ {"map"} /\ c.e = e /\ c.file = o.file
      /\ c.at # "context" /\ InContext(c) = InContext(o)
  BY <1>1, <1>2, <1>4, <1>5 DEF P!UsesEntry, Caller
<1>9. /\ priv' = priv /\ process_mutex' = process_mutex /\ file' = file /\ show' = show
      /\ context' = context
  BY DEF P!FenceSignalled
<1>10. /\ Caller(t, o, e, m) /\ ioctl' = [ioctl EXCEPT ![t] = c]
       /\ mem' = [mem EXCEPT ![e] = n] /\ HasEvent(n) = HasEvent(m) /\ n.of = m.of /\ n.at = "live"
  BY <1>1, <1>2, <1>4, <1>5
<1> QED
  BY <1>7, <1>8, <1>9, <1>10, CallChanges

\* kgsl_mem_entry_set_pend: one frees the entry, the others do not.
LEMMA SetPendKeeps ==
    ASSUME ProcessInv, NEW t \in Ioctls, NEW next \in {"free", "event", "wait"}, P!SetPend(t, next),
           \/ ioctl[t].at = "found" /\ next # "event" /\ ioctl[t].op # "timestamp"
           \/ ioctl[t].at = "context" /\ next = "event",
           priv' = priv, process_mutex' = process_mutex, file' = file, show' = show,
           context' = context
    PROVE  ProcessInv'
<1>1. PICK o \in CallType, e \in Memory, m \in EntryType : Caller(t, o, e, m)
  BY Callers DEF P!UsesEntry
<1>2. /\ o.at \in {"found", "context"} /\ Taking(o, e) = 0
      /\ InContext(o) = (IF o.at = "context" THEN 1 ELSE 0)
      /\ o.at = "context" => o.op = "timestamp"
  BY <1>1 DEF Caller, Taking, InContext, ProcessInv, CallsRight, CallRight
<1>3. CASE m.pend
  <2>1. P!Goes(t, IF o.op = "timestamp" THEN "putctx" ELSE "put") /\ mem' = mem
    BY <1>1, <1>3 DEF P!SetPend, Caller
  <2>2. PICK c \in CallType : /\ ioctl' = [ioctl EXCEPT ![t] = c]
                              /\ c.at = (IF o.op = "timestamp" THEN "putctx" ELSE "put")
                              /\ c.file = o.file /\ c.e = o.e
    BY <1>1, <2>1, CallGoes DEF ProcessInv, Caller, CallAts
  <2>3. mem' = [mem EXCEPT ![e] = m]
    BY <1>1, <2>1 DEF Caller, ProcessInv, Typed
  <2>4. Using(c, e) = 1 /\ Taking(c, e) = 0 /\ InContext(c) = InContext(o)
    BY <1>1, <1>2, <2>2 DEF Using, Taking, InContext, P!UsesEntry, Caller
  <2>5. EntryRight(m, P!Callers(e) + Using(c, e) - 1,
                   P!TakesOver(e) + Taking(c, e) - Taking(o, e), Reading(e))
    <3>1. P!Callers(e) + Using(c, e) - 1 = P!Callers(e)
          /\ P!TakesOver(e) + Taking(c, e) - Taking(o, e) = P!TakesOver(e)
      BY <1>1, <1>2, <2>4 DEF Caller
    <3> QED
      BY <1>1, <3>1 DEF Caller
  <2>6. /\ \/ c.at = "idle" /\ m.pend = m.pend
           \/ c.at \in P!UsesEntry \ {"map"} /\ c.e = e /\ c.file = o.file
        /\ c.at # "context" /\ InContext(c) = InContext(o)
    BY <1>1, <2>2, <2>4 DEF P!UsesEntry, Caller
  <2>7. Caller(t, o, e, m) /\ ioctl' = [ioctl EXCEPT ![t] = c] /\ m.at = "live"
    BY <1>1, <1>2, <2>2 DEF Caller
  <2> QED
    BY <2>3, <2>5, <2>6, <2>7, CallChanges, ZenonT(60)
<1>4. CASE ~m.pend
  <2>1. P!Goes(t, next) /\ mem' = [mem EXCEPT ![e].pend = TRUE]
    BY <1>1, <1>4 DEF P!SetPend, Caller
  <2>2. PICK c \in CallType : /\ ioctl' = [ioctl EXCEPT ![t] = c]
                              /\ c.at = next /\ c.file = o.file /\ c.e = o.e
    BY <1>1, <2>1, CallGoes DEF ProcessInv, Caller, CallAts
  <2>3. PICK n \in EntryType :
          /\ mem' = [mem EXCEPT ![e] = n] /\ n.at = "live" /\ n.of = m.of /\ n.event = m.event
          /\ n.refs = m.refs /\ n.pend = TRUE /\ n.vmas = m.vmas /\ n.cb = m.cb
    <3> DEFINE n == [m EXCEPT !.pend = TRUE]
    <3>1. mem' = [mem EXCEPT ![e] = n]
      BY <1>1, <2>1 DEF Caller
    <3>2. n \in EntryType /\ n.at = "live" /\ n.of = m.of /\ n.event = m.event
          /\ n.refs = m.refs /\ n.pend = TRUE /\ n.vmas = m.vmas /\ n.cb = m.cb
      BY <1>1, <1>2, ZenonT(60) DEF EntryType, Caller
    <3> QED
      BY <3>1, <3>2
  <2>4. Using(c, e) = 1 /\ Taking(c, e) = 1 /\ InContext(c) = InContext(o)
        /\ HasEvent(n) = HasEvent(m) /\ HasFence(n) = HasFence(m)
    BY <1>1, <1>2, <2>2, <2>3 DEF Using, Taking, InContext, P!UsesEntry, Caller, HasEvent, HasFence
  <2>5. EntryRight(n, P!Callers(e), P!TakesOver(e) + 1, Reading(e))
    <3>1. /\ m.at = "live" /\ HasEvent(m) = 0 /\ HasFence(m) = 0 /\ P!TakesOver(e) = 0
          /\ m.refs = P!Callers(e) + m.vmas + Reading(e) + 1 /\ m.refs > 0
      BY <1>1, <1>2, <1>4 DEF EntryRight, Caller, Freers
    <3>2. Freers(n, 1) = 1
      BY <2>4, <3>1 DEF Freers
    <3>3. EntryRight(n, P!Callers(e), 1, Reading(e))
      BY <1>1, <2>3, <3>1, <3>2 DEF EntryRight, Caller
    <3> QED
      BY <3>1, <3>3
  <2>6. EntryRight(n, P!Callers(e) + Using(c, e) - 1,
                   P!TakesOver(e) + Taking(c, e) - Taking(o, e), Reading(e))
    <3>1. P!Callers(e) + Using(c, e) - 1 = P!Callers(e)
          /\ P!TakesOver(e) + Taking(c, e) - Taking(o, e) = P!TakesOver(e) + 1
      BY <1>1, <1>2, <2>4 DEF Caller
    <3> QED
      BY <2>5, <3>1
  <2>7. /\ \/ c.at = "idle" /\ n.pend = m.pend
           \/ c.at \in P!UsesEntry \ {"map"} /\ c.e = e /\ c.file = o.file
        /\ c.at # "context" /\ InContext(c) = InContext(o)
    BY <1>1, <2>2, <2>4 DEF P!UsesEntry, Caller
  <2>8. /\ Caller(t, o, e, m) /\ ioctl' = [ioctl EXCEPT ![t] = c]
        /\ mem' = [mem EXCEPT ![e] = n] /\ HasEvent(n) = HasEvent(m) /\ n.of = m.of /\ n.at = "live"
    BY <1>1, <2>2, <2>3, <2>4
  <2>9. /\ ProcessInv /\ priv' = priv /\ process_mutex' = process_mutex /\ file' = file
        /\ show' = show /\ context' = context
    OBVIOUS
  <2> QED
    BY ONLY <2>6, <2>7, <2>8, <2>9, CallChanges
<1> QED
  BY <1>3, <1>4

\* The ways to free an entry: who sets pending_free first has the user's reference.
LEMMA FreesKeep ==
    ASSUME ProcessInv, NEW t \in Ioctls, P!Free(t) \/ P!FreeMarks(t) \/ P!FreeOnFence(t)
    PROVE  ProcessInv'
<1>1. CASE P!Free(t)
  <2>1. /\ P!SetPend(t, "free") /\ ioctl[t].at = "found" /\ ioctl[t].op = "free"
        /\ priv' = priv /\ process_mutex' = process_mutex /\ file' = file /\ show' = show
        /\ context' = context
    BY <1>1 DEF P!Free
  <2> QED
    BY <2>1, SetPendKeeps
<1>2. CASE P!FreeMarks(t)
  <2>1. /\ P!SetPend(t, "event") /\ ioctl[t].at = "context"
        /\ priv' = priv /\ process_mutex' = process_mutex /\ file' = file /\ show' = show
        /\ context' = context
    BY <1>2 DEF P!FreeMarks
  <2> QED
    BY <2>1, SetPendKeeps
<1>3. CASE P!FreeOnFence(t)
  <2>1. /\ P!SetPend(t, "wait") /\ ioctl[t].at = "found" /\ ioctl[t].op = "fence"
        /\ priv' = priv /\ process_mutex' = process_mutex /\ file' = file /\ show' = show
        /\ context' = context
    BY <1>3 DEF P!FreeOnFence
  <2> QED
    BY <2>1, SetPendKeeps
<1> QED
  BY <1>1, <1>2, <1>3

\* kgsl_sharedmem_find_id
LEMMA FindKeeps ==
    ASSUME ProcessInv, NEW t \in Ioctls, NEW f \in Files, P!Find(t, f)  PROVE ProcessInv'
<1>1. PICK kindOf \in {"free", "timestamp", "fence", "map"}, e \in Memory :
        /\ P!MayCall(t, f, kindOf) /\ P!CanFind(e, file[f].of)
        /\ mem' = [mem EXCEPT ![e].refs = @ + 1]
        /\ P!Enters(t, f, kindOf, e, "found")
  BY DEF P!Find
<1>2. /\ priv' = priv /\ process_mutex' = process_mutex /\ file' = file /\ show' = show
      /\ context' = context
  BY DEF P!Find
<1>3. PICK o \in CallType : o = ioctl[t] /\ o.at = "idle"
  BY <1>1 DEF P!MayCall, ProcessInv, Typed
<1>4. PICK c \in CallType : /\ ioctl' = [ioctl EXCEPT ![t] = c]
                            /\ c.at = "found" /\ c.file = f /\ c.e = e
  <2> DEFINE c == [at |-> "found", op |-> kindOf, file |-> f, e |-> e]
  <2>1. ioctl' = [ioctl EXCEPT ![t] = c]
    BY <1>1 DEF P!Enters
  <2>2. c \in CallType /\ c.at = "found" /\ c.file = f /\ c.e = e
    BY DEF CallType, CallAts, P!Ops
  <2> QED
    BY <2>1, <2>2
<1>5. PICK m \in EntryType : m = mem[e]
  BY DEF ProcessInv, Typed
<1>6. EntryRight(m, P!Callers(e), P!TakesOver(e), Reading(e))
  BY <1>5 DEF ProcessInv, EntriesRight
<1>7. m.at = "live" /\ ~m.pend /\ m.refs > 0 /\ m.of = file[f].of /\ file[f].at = "open"
  BY <1>1, <1>5, <1>6 DEF P!CanFind, P!Visible, P!MayCall, EntryRight
<1>8. PICK n \in EntryType :
        /\ mem' = [mem EXCEPT ![e] = n] /\ n.at = "live" /\ n.of = m.of /\ n.event = m.event
        /\ n.refs = m.refs + 1 /\ n.pend = m.pend /\ n.vmas = m.vmas /\ n.cb = m.cb
  <2> DEFINE n == [m EXCEPT !.refs = @ + 1]
  <2>1. mem' = [mem EXCEPT ![e] = n]
    BY <1>1, <1>5
  <2>2. /\ n \in EntryType /\ n.at = "live" /\ n.of = m.of /\ n.event = m.event
        /\ n.refs = m.refs + 1 /\ n.pend = m.pend /\ n.vmas = m.vmas /\ n.cb = m.cb
    BY <1>7 DEF EntryType
  <2> QED
    BY <2>1, <2>2
<1>9. /\ Using(o, e) = 0 /\ Using(c, e) = 1 /\ Taking(o, e) = 0 /\ Taking(c, e) = 0
      /\ InContext(o) = 0 /\ InContext(c) = 0 /\ CallDetaching(o) = 0 /\ CallDetaching(c) = 0
      /\ HasEvent(n) = HasEvent(m) /\ HasFence(n) = HasFence(m)
  BY <1>3, <1>4, <1>8 DEF Using, Taking, InContext, CallDetaching, P!UsesEntry, HasEvent, HasFence
<1>10. P!Callers(e) \in Nat /\ P!TakesOver(e) \in Nat /\ Reading(e) \in Nat
       /\ m.refs \in Nat /\ m.vmas \in Nat /\ HasEvent(m) \in {0, 1} /\ HasFence(m) \in {0, 1}
  BY Numbers DEF Reading, EntryType, HasEvent, HasFence
<1>11. EntryRight(n, P!Callers(e) + 1, P!TakesOver(e), Reading(e))
  BY <1>6, <1>7, <1>8, <1>9, <1>10 DEF EntryRight, Freers
<1>12. EntryRight(n, P!Callers(e) + Using(c, e) - Using(o, e),
                  P!TakesOver(e) + Taking(c, e) - Taking(o, e), Reading(e))
  <2>1. P!Callers(e) + Using(c, e) - Using(o, e) = P!Callers(e) + 1
        /\ P!TakesOver(e) + Taking(c, e) - Taking(o, e) = P!TakesOver(e)
    BY <1>9, <1>10
  <2> QED
    BY <1>11, <2>1
<1>13. mem'[e] = n
  BY <1>8 DEF ProcessInv, Typed
<1>14. CallRight(c, file', mem') /\ c.at # "map" /\ o = ioctl[t]
       /\ (o.at \in P!UsesEntry => o.e = e) /\ (c.at \in P!UsesEntry => c.e = e)
  BY <1>2, <1>3, <1>4, <1>7, <1>8, <1>13 DEF CallRight, P!UsesEntry
<1>15. /\ n.of = mem[e].of /\ n.at # "none" /\ mem[e].at # "none"
       /\ n.at = "attached" <=> mem[e].at = "attached" /\ o.at # "map"
       /\ n.at = "live" /\ ~n.pend =>
               \/ mem[e].at = "live" /\ ~mem[e].pend
               \/ \E g \in Files : file[g].at = "open" /\ file[g].of = n.of
  BY <1>3, <1>5, <1>7, <1>8
<1>16. /\ context' \in ContextType /\ context'.at = context.at /\ context'.file = context.file
       /\ context'.of = context.of
       /\ context'.refs = context.refs + InContext(c) - InContext(o) + HasEvent(n) - HasEvent(mem[e])
       /\ context' = context \/ (context.at # "none" /\ context'.refs > 0)
  BY <1>2, <1>5, <1>9, <1>10 DEF ProcessInv, Typed, ContextType
<1>17. ioctl' = [ioctl EXCEPT ![t] = c] /\ mem' = [mem EXCEPT ![e] = n]
       /\ CallDetaching(o) = 0 /\ CallDetaching(c) = 0 /\ ProcessInv
  BY <1>4, <1>8, <1>9
<1> QED
  BY ONLY <1>2, <1>12, <1>14, <1>15, <1>16, <1>17, CallSteps

\* kgsl_add_event: the event has a reference of the context.
LEMMA AddEventKeeps ==
    ASSUME ProcessInv, NEW t \in Ioctls, P!AddEvent(t)  PROVE ProcessInv'
<1>1. PICK o \in CallType, e \in Memory, m \in EntryType : Caller(t, o, e, m)
  BY Callers DEF P!AddEvent, P!UsesEntry
<1>2. PICK c \in CallType : /\ ioctl' = [ioctl EXCEPT ![t] = c]
                            /\ c.at = "putctx" /\ c.file = o.file /\ c.e = o.e
  BY <1>1, CallGoes DEF P!AddEvent, ProcessInv, Caller, CallAts
<1>3. o.at = "event" /\ o = ioctl[t]
  BY <1>1 DEF P!AddEvent, Caller
<1>4. PICK n \in EntryType :
        /\ mem' = [mem EXCEPT ![e] = n] /\ n.at = "live" /\ n.of = m.of /\ n.event # "none"
        /\ n.refs = m.refs /\ n.pend = m.pend /\ n.vmas = m.vmas /\ n.cb = m.cb
  <2>1. PICK v \in {"pending", "due"} : mem' = [mem EXCEPT ![ioctl[t].e].event = v]
    BY DEF P!AddEvent
  <2> DEFINE n == [m EXCEPT !.event = v]
  <2>2. mem' = [mem EXCEPT ![e] = n]
    BY <1>1, <2>1 DEF Caller
  <2>3. /\ n \in EntryType /\ n.at = "live" /\ n.of = m.of /\ n.event # "none"
        /\ n.refs = m.refs /\ n.pend = m.pend /\ n.vmas = m.vmas /\ n.cb = m.cb
    BY <1>1, <1>3 DEF EntryType, Caller
  <2> QED
    BY <2>2, <2>3
<1>5. /\ Using(c, e) = 1 /\ Taking(c, e) = 0 /\ Taking(o, e) = 1 /\ Using(o, e) = 1
      /\ InContext(c) = 1 /\ InContext(o) = 1 /\ CallDetaching(o) = 0 /\ CallDetaching(c) = 0
      /\ HasEvent(n) = 1 /\ HasFence(n) = HasFence(m)
  BY <1>1, <1>2, <1>3, <1>4
     DEF Using, Taking, InContext, CallDetaching, P!UsesEntry, Caller, HasEvent, HasFence
<1>6. /\ m.at = "live" /\ m.pend = TRUE /\ HasEvent(m) = 0 /\ HasFence(m) = 0 /\ P!TakesOver(e) = 1
      /\ m.refs = P!Callers(e) + m.vmas + Reading(e) + 1 /\ m.refs > 0
  BY <1>1, <1>3, <1>5 DEF EntryRight, Caller, Freers
<1>7. EntryRight(n, P!Callers(e), 0, Reading(e))
  <2>1. Freers(n, 0) = 1
    BY <1>5, <1>6 DEF Freers
  <2> QED
    BY <1>1, <1>4, <1>6, <2>1 DEF EntryRight, Caller
<1>8. EntryRight(n, P!Callers(e) + Using(c, e) - Using(o, e),
                 P!TakesOver(e) + Taking(c, e) - Taking(o, e), Reading(e))
  <2>1. P!Callers(e) + Using(c, e) - Using(o, e) = P!Callers(e)
        /\ P!TakesOver(e) + Taking(c, e) - Taking(o, e) = 0
    BY <1>1, <1>5, <1>6 DEF Caller
  <2> QED
    BY <1>7, <2>1
<1>9. /\ priv' = priv /\ process_mutex' = process_mutex /\ file' = file /\ show' = show
      /\ context' = [context EXCEPT !.refs = @ + 1]
  BY DEF P!AddEvent
<1>10. mem'[e] = n /\ mem[e] = m
  BY <1>1, <1>4 DEF ProcessInv, Typed, Caller
<1>11. CallRight(c, file', mem') /\ c.at # "map" /\ o = ioctl[t]
       /\ (o.at \in P!UsesEntry => o.e = e) /\ (c.at \in P!UsesEntry => c.e = e)
  BY <1>1, <1>2, <1>4, <1>9, <1>10 DEF CallRight, P!UsesEntry, Caller
<1>12. /\ n.of = mem[e].of /\ n.at # "none" /\ mem[e].at # "none"
       /\ n.at = "attached" <=> mem[e].at = "attached" /\ o.at # "map"
       /\ n.at = "live" /\ ~n.pend =>
               \/ mem[e].at = "live" /\ ~mem[e].pend
               \/ \E g \in Files : file[g].at = "open" /\ file[g].of = n.of
  BY <1>3, <1>4, <1>6, <1>10
<1>13. context.at # "none" /\ context.refs \in Nat /\ context \in ContextType
  <2>1. context.refs \in Nat /\ context \in ContextType
    BY DEF ProcessInv, Typed, ContextType
  <2>2. ContextCalls >= InContext(o)
    BY <1>3, Counted
  <2>3. ContextUsers >= 1
    BY <1>5, <2>2, Numbers DEF ContextUsers
  <2> QED
    BY <2>1, <2>3, NumbersAdd DEF ProcessInv, ContextRight, ContextFits
<1>14. /\ context' \in ContextType /\ context'.at = context.at /\ context'.file = context.file
       /\ context'.of = context.of
       /\ context'.refs = context.refs + InContext(c) - InContext(o) + HasEvent(n) - HasEvent(mem[e])
       /\ context' = context \/ (context.at # "none" /\ context'.refs > 0)
  <2>1. InContext(c) = 1 /\ InContext(o) = 1 /\ HasEvent(n) = 1 /\ HasEvent(mem[e]) = 0
    BY <1>5, <1>6, <1>10
  <2> QED
    BY <1>9, <1>13, <2>1 DEF ContextType
<1>15. ioctl' = [ioctl EXCEPT ![t] = c] /\ mem' = [mem EXCEPT ![e] = n]
       /\ CallDetaching(o) = 0 /\ CallDetaching(c) = 0 /\ ProcessInv
  BY <1>2, <1>4, <1>5
<1> QED
  BY ONLY <1>8, <1>9, <1>11, <1>12, <1>14, <1>15, CallSteps

\* kgsl_context_get_owner
LEMMA FreeGetsContextKeeps ==
    ASSUME ProcessInv, NEW t \in Ioctls, P!FreeGetsContext(t)  PROVE ProcessInv'
<1>1. PICK o \in CallType, e \in Memory, m \in EntryType : Caller(t, o, e, m)
  BY Callers DEF P!FreeGetsContext, P!UsesEntry
<1>2. o.at = "found" /\ o = ioctl[t] /\ o.op = "timestamp" /\ m.at = "live"
  BY <1>1 DEF P!FreeGetsContext, Caller
<1>3. /\ priv' = priv /\ process_mutex' = process_mutex /\ file' = file /\ show' = show
      /\ mem' = mem
  BY DEF P!FreeGetsContext
<1>4. mem' = [mem EXCEPT ![e] = m] /\ mem[e] = m /\ mem'[e] = m
  BY <1>1, <1>3 DEF Caller, ProcessInv, Typed
<1>5. Taking(o, e) = 0 /\ InContext(o) = 0 /\ CallDetaching(o) = 0 /\ Using(o, e) = 1
  BY <1>1, <1>2 DEF Taking, InContext, CallDetaching, Caller
<1>6. CASE P!CanGetContext(o.file)
  <2>1. context' = [context EXCEPT !.refs = @ + 1] /\ P!Goes(t, "context")
    BY <1>2, <1>6 DEF P!FreeGetsContext
  <2>2. PICK c \in CallType : /\ ioctl' = [ioctl EXCEPT ![t] = c] /\ c.at = "context"
                              /\ c.file = o.file /\ c.e = o.e /\ c.op = o.op
    BY <1>1, <2>1, CallGoes DEF ProcessInv, Caller, CallAts
  <2>3. Using(c, e) = 1 /\ Taking(c, e) = 0 /\ InContext(c) = 1 /\ CallDetaching(c) = 0
    BY <1>1, <2>2 DEF Using, Taking, InContext, CallDetaching, P!UsesEntry, Caller
  <2>4. EntryRight(m, P!Callers(e) + Using(c, e) - Using(o, e),
                   P!TakesOver(e) + Taking(c, e) - Taking(o, e), Reading(e))
    <3>1. P!Callers(e) + Using(c, e) - Using(o, e) = P!Callers(e)
          /\ P!TakesOver(e) + Taking(c, e) - Taking(o, e) = P!TakesOver(e)
      BY <1>1, <1>5, <2>3 DEF Caller
    <3> QED
      BY <1>1, <3>1 DEF Caller
  <2>5. CallRight(c, file', mem') /\ c.at # "map" /\ o = ioctl[t]
        /\ (o.at \in P!UsesEntry => o.e = e) /\ (c.at \in P!UsesEntry => c.e = e)
    BY <1>1, <1>2, <1>3, <1>4, <2>2 DEF CallRight, P!UsesEntry, Caller
  <2>6. /\ m.of = mem[e].of /\ m.at # "none" /\ mem[e].at # "none"
        /\ m.at = "attached" <=> mem[e].at = "attached" /\ o.at # "map"
        /\ m.at = "live" /\ ~m.pend =>
                \/ mem[e].at = "live" /\ ~mem[e].pend
                \/ \E g \in Files : file[g].at = "open" /\ file[g].of = m.of
    BY <1>2, <1>4
  <2>7. context.at = "live" /\ context.refs \in Nat /\ context \in ContextType
    BY <1>6 DEF P!CanGetContext, ProcessInv, Typed, ContextType
  <2>8. /\ context' \in ContextType /\ context'.at = context.at /\ context'.file = context.file
        /\ context'.of = context.of
        /\ context'.refs = context.refs + InContext(c) - InContext(o) + HasEvent(m) - HasEvent(mem[e])
        /\ context' = context \/ (context.at # "none" /\ context'.refs > 0)
    <3>1. HasEvent(m) = HasEvent(mem[e]) /\ HasEvent(m) \in {0, 1}
      BY <1>4 DEF HasEvent
    <3> QED
      BY <1>5, <2>1, <2>3, <2>7, <3>1 DEF ContextType
  <2>9. ioctl' = [ioctl EXCEPT ![t] = c] /\ mem' = [mem EXCEPT ![e] = m]
        /\ CallDetaching(o) = 0 /\ CallDetaching(c) = 0 /\ ProcessInv
    BY <1>4, <1>5, <2>2, <2>3
  <2> QED
    BY ONLY <1>3, <2>4, <2>5, <2>6, <2>8, <2>9, CallSteps
<1>7. CASE ~P!CanGetContext(o.file)
  <2>1. context' = context /\ P!Goes(t, "put")
    BY <1>2, <1>7 DEF P!FreeGetsContext
  <2>2. PICK c \in CallType : /\ ioctl' = [ioctl EXCEPT ![t] = c] /\ c.at = "put"
                              /\ c.file = o.file /\ c.e = o.e
    BY <1>1, <2>1, CallGoes DEF ProcessInv, Caller, CallAts
  <2>3. Using(c, e) = 1 /\ Taking(c, e) = 0 /\ InContext(c) = 0
    BY <1>1, <2>2 DEF Using, Taking, InContext, P!UsesEntry, Caller
  <2>4. EntryRight(m, P!Callers(e) + Using(c, e) - 1,
                   P!TakesOver(e) + Taking(c, e) - Taking(o, e), Reading(e))
    <3>1. P!Callers(e) + Using(c, e) - 1 = P!Callers(e)
          /\ P!TakesOver(e) + Taking(c, e) - Taking(o, e) = P!TakesOver(e)
      BY <1>1, <1>5, <2>3 DEF Caller
    <3> QED
      BY <1>1, <3>1 DEF Caller
  <2>5. /\ \/ c.at = "idle" /\ m.pend = m.pend
           \/ c.at \in P!UsesEntry \ {"map"} /\ c.e = e /\ c.file = o.file
        /\ c.at # "context" /\ InContext(c) = InContext(o)
    BY <1>1, <1>5, <2>2, <2>3 DEF P!UsesEntry, Caller
  <2>6. Caller(t, o, e, m) /\ ioctl' = [ioctl EXCEPT ![t] = c] /\ m.at = "live"
    BY <1>1, <1>2, <2>2
  <2>7. mem' = [mem EXCEPT ![e] = m]
    BY <1>4
  <2>8. /\ ProcessInv /\ priv' = priv /\ process_mutex' = process_mutex /\ file' = file
        /\ show' = show /\ context' = context
    BY <1>3, <2>1
  <2> QED
    BY ONLY <2>4, <2>5, <2>6, <2>7, <2>8, CallChanges
<1> QED
  BY <1>6, <1>7

-----------------------------------------------------------------------------
(* The steps that put an entry.                                            *)

\* A reference of an entry is put, by a call or a mapping; the calls in Moved are over or at
\* their end.
LEMMA PutsKeep ==
    ASSUME ProcessInv,
           NEW e \in Memory, NEW m \in EntryType, NEW who \in Whos, who # "show", P!Puts(e, m, who),
           process_mutex' = process_mutex, file' = file, context' = context, show' = show,
           mem[e].at = "live", m.at = "live", m.of = mem[e].of, m.event = mem[e].event,
           m.pend = mem[e].pend, m.refs > 0,
           m.refs - 1 = P!Callers(e)' + m.vmas + Reading(e)'
                        + (IF m.pend THEN Freers(m, P!TakesOver(e)') ELSE 1),
           Freers(m, P!TakesOver(e)') <= IF m.pend THEN 1 ELSE 0,
           \A x \in Memory \ {e} : P!Callers(x)' = P!Callers(x) /\ P!TakesOver(x)' = P!TakesOver(x),
           ContextCalls' = ContextCalls, CallDetachers' = CallDetachers,
           NEW Moved \in SUBSET Ioctls, ioctl' \in [Ioctls -> CallType],
           \A u \in Ioctls \ Moved : ioctl'[u] = ioctl[u],
           \A u \in Moved :
              \/ ioctl'[u].at = "idle"
              \/ ioctl'[u].at = "put" /\ ioctl'[u].e = e
                 /\ file[ioctl'[u].file].at = "open" /\ mem[e].of = file[ioctl'[u].file].of
    PROVE  ProcessInv'
<1>1. Typed /\ FilesRight /\ PrivsRight /\ EntriesRight /\ ContextRight /\ CallsRight
      /\ ShowRight /\ Unfreed
  BY DEF ProcessInv
<1>2. /\ \A p \in Privs : FilesOf(p)' = FilesOf(p) /\ OfPriv(show', p) = OfPriv(show, p)
      /\ ContextFiles' = ContextFiles /\ FileDetachers' = FileDetachers
  BY NumbersStay
<1>3. \A x \in Memory : Reading(x)' = Reading(x)
  BY DEF Reading
<1>4. \A x \in Memory \ {e} : P!Callers(x)' = P!Callers(x) /\ P!TakesOver(x)' = P!TakesOver(x)
                              /\ Reading(x)' = Reading(x)
  BY <1>3
<1>5. /\ mem' \in [Memory -> EntryType] /\ priv' \in [Privs -> PrivType]
      /\ EntriesRight' /\ PrivsRight' /\ FilesOfPrivs' = FilesOfPrivs /\ EventEntries' = EventEntries
      /\ \A x \in Memory \ {e} : mem'[x] = mem[x]
      /\ mem'[e].at = "live" => mem'[e].of = mem[e].of /\ mem'[e].pend = m.pend
      /\ mem'[e].at \in {"live", "none"}
      /\ P!Callers(e)' > 0 \/ Reading(e)' > 0 => mem'[e].at = "live"
  BY <1>1, <1>2, <1>4, EntryPuts
<1>6. Typed'
  BY <1>1, <1>5 DEF Typed
<1>7. FilesRight'
  BY <1>1, <1>5, FilesStay
<1>8. ContextRight'
  <2>1. ContextUsers' = ContextUsers
    BY <1>2, <1>5 DEF ContextUsers
  <2>2. Detachers' = Detachers
    BY <1>2 DEF Detachers
  <2>3. \A f \in Files : file[f].at \in {"open", "contexts"} => file'[f].at \in {"open", "contexts"}
    OBVIOUS
  <2> QED
    BY <1>1, <2>1, <2>2, <2>3, ContextStays
<1>9. CallsRight'
  <2>1. \A u \in Moved : CallRight(ioctl'[u], file', mem') /\ ioctl'[u].at # "map"
    <3> SUFFICES ASSUME NEW u \in Moved
                 PROVE  CallRight(ioctl'[u], file', mem') /\ ioctl'[u].at # "map"
      OBVIOUS
    <3>1. PICK c \in CallType : c = ioctl'[u]
      OBVIOUS
    <3>2. CASE c.at = "idle"
      BY <3>1, <3>2 DEF CallRight, P!UsesEntry
    <3>3. CASE /\ c.at = "put" /\ c.e = e
               /\ file[c.file].at = "open" /\ mem[e].of = file[c.file].of
      <4>1. Using(c, e) = 1
        BY <3>3 DEF Using, P!UsesEntry
      <4>2. P!Callers(e)' >= Using(c, e)
        BY <3>1, CallersAfter
      <4>3. mem'[e].at = "live" /\ mem'[e].of = mem[e].of
        BY <1>5, <4>1, <4>2, NumbersAfter
      <4> QED
        BY <3>1, <3>3, <4>3 DEF CallRight
    <3> QED
      BY <3>1, <3>2, <3>3
  <2>2. \A u \in Ioctls \ Moved : ioctl[u].at # "idle" =>
               file'[ioctl[u].file].at = "open" /\ file'[ioctl[u].file].of = file[ioctl[u].file].of
    BY <1>1 DEF CallsRight, CallRight
  <2>3. \A u \in Ioctls \ Moved, x \in Memory :
               ioctl[u].at \in P!UsesEntry /\ ioctl[u].e = x =>
                   mem'[x].of = mem[x].of /\ (mem'[x].at = "attached" <=> mem[x].at = "attached")
    <3> SUFFICES ASSUME NEW u \in Ioctls \ Moved, NEW x \in Memory,
                        ioctl[u].at \in P!UsesEntry, ioctl[u].e = x
                 PROVE  mem'[x].of = mem[x].of /\ (mem'[x].at = "attached" <=> mem[x].at = "attached")
      OBVIOUS
    <3>1. P!Callers(x)' > 0
      BY UsersCount
    <3> QED
      BY <1>5, <3>1
  <2> QED
    BY <1>1, <2>1, <2>2, <2>3, CallsStay
<1>10. ShowRight'
  <2>1. show.at = "hold" /\ show.e = e => Reading(e)' > 0
    BY DEF Reading
  <2>2. \A x \in Memory : show.at = "hold" /\ show.e = x => mem'[x].of = mem[x].of
    BY <1>5, <2>1
  <2> QED
    BY <1>1, <2>2 DEF ShowRight
<1>11. Unfreed'
  <2>1. \A x \in Memory : mem'[x].at = "live" /\ ~mem'[x].pend =>
               mem[x].at = "live" /\ ~mem[x].pend /\ mem'[x].of = mem[x].of
    BY <1>5
  <2>2. \A f \in Files : file[f].at = "release" => file'[f] = file[f]
    OBVIOUS
  <2> QED
    BY <1>1, <1>5, <2>1, <2>2, UnfreedStays
<1> QED
  BY <1>5, <1>6, <1>7, <1>8, <1>9, <1>10, <1>11 DEF ProcessInv

\* A call puts its own reference, or the user's when it frees the entry.
LEMMA CallPuts ==
    ASSUME ProcessInv, NEW t \in Ioctls, P!PutEntry(t) \/ P!FreePuts(t)  PROVE ProcessInv'
<1>1. PICK o \in CallType, e \in Memory, m \in EntryType : Caller(t, o, e, m)
  BY Callers DEF P!PutEntry, P!FreePuts, P!UsesEntry
<1>2. /\ P!Puts(e, m, t) /\ o.at \in {"put", "free"}
      /\ process_mutex' = process_mutex /\ file' = file /\ context' = context /\ show' = show
  BY <1>1 DEF P!PutEntry, P!FreePuts, Caller
<1>3. PICK c \in CallType :
        /\ ioctl' = [ioctl EXCEPT ![t] = c]
        /\ \/ o.at = "put" /\ c.at = "idle"
           \/ o.at = "free" /\ c.at = "put" /\ c.file = o.file /\ c.e = o.e
  <2>1. CASE P!PutEntry(t)
    BY <1>1, <2>1, CallReturns DEF P!PutEntry, Caller, ProcessInv
  <2>2. CASE P!FreePuts(t)
    BY <1>1, <2>2, CallGoes DEF P!FreePuts, Caller, ProcessInv, CallAts
  <2> QED
    BY <2>1, <2>2
<1>4. /\ \A x \in Memory : P!Callers(x)' = P!Callers(x) + Using(c, x) - Using(o, x)
      /\ \A x \in Memory : P!TakesOver(x)' = P!TakesOver(x) + Taking(c, x) - Taking(o, x)
      /\ ContextCalls' = ContextCalls + InContext(c) - InContext(o)
      /\ CallDetachers' = CallDetachers + CallDetaching(c) - CallDetaching(o)
  <2>1. o = ioctl[t] /\ Typed
    BY <1>1 DEF Caller, ProcessInv
  <2> QED
    BY <1>3, <2>1, CallMoves
<1>5. /\ InContext(c) = 0 /\ InContext(o) = 0 /\ CallDetaching(c) = 0 /\ CallDetaching(o) = 0
      /\ \A x \in Memory \ {e} :
           Using(c, x) = 0 /\ Using(o, x) = 0 /\ Taking(c, x) = 0 /\ Taking(o, x) = 0
      /\ Taking(c, e) = 0
      /\ Using(c, e) = (IF o.at = "free" THEN 1 ELSE 0)
      /\ Taking(o, e) = (IF o.at = "free" THEN 1 ELSE 0)
  BY <1>1, <1>2, <1>3 DEF InContext, CallDetaching, Using, Taking, P!UsesEntry, Caller
<1>6. \A x \in Memory \ {e} : P!Callers(x)' = P!Callers(x) /\ P!TakesOver(x)' = P!TakesOver(x)
  BY <1>4, <1>5, Numbers
<1>7. ContextCalls' = ContextCalls /\ CallDetachers' = CallDetachers
  BY <1>4, <1>5, Numbers
<1>8. Reading(e)' = Reading(e)
  BY <1>2 DEF Reading
<1>9. /\ m.at = "live" /\ m = mem[e] /\ m.refs > 0
      /\ m.refs - 1 = P!Callers(e)' + m.vmas + Reading(e)'
                      + (IF m.pend THEN Freers(m, P!TakesOver(e)') ELSE 1)
      /\ Freers(m, P!TakesOver(e)') <= IF m.pend THEN 1 ELSE 0
  <2>1. PICK n \in Nat, k \in Nat, h \in Nat :
            n = P!Callers(e)' /\ k = P!TakesOver(e)' /\ h = Reading(e)'
    BY <1>1, <1>8, NumbersAfter DEF Caller
  <2>2. /\ n = P!Callers(e) + (IF o.at = "free" THEN 1 ELSE 0) - 1
        /\ k = P!TakesOver(e) - (IF o.at = "free" THEN 1 ELSE 0) /\ h = Reading(e)
    BY <1>1, <1>4, <1>5, <1>8, <2>1 DEF Caller
  <2>3. m.at = "live" /\ m = mem[e] /\ m.refs > 0 /\ m.pend \in BOOLEAN
    BY <1>1, <1>2 DEF Caller, EntryType
  <2>4. PICK c0 \in Nat, k0 \in Nat, r \in Nat, v \in Nat, he \in Nat, hf \in Nat :
          /\ c0 = P!Callers(e) /\ k0 = P!TakesOver(e) /\ r = m.refs /\ v = m.vmas
          /\ he = HasEvent(m) /\ hf = HasFence(m)
    <3>1. P!Callers(e) \in Nat /\ P!TakesOver(e) \in Nat /\ m.refs \in Nat /\ m.vmas \in Nat
          /\ HasEvent(m) \in Nat /\ HasFence(m) \in Nat
      BY <1>1 DEF Caller
    <3> QED
      BY <3>1, Zenon
  <2>5. /\ r = c0 + v + h + (IF m.pend THEN k0 + he + hf ELSE 1)
        /\ k0 + he + hf <= IF m.pend THEN 1 ELSE 0
        /\ o.at = "free" => k0 >= 1
    BY <1>1, <1>2, <2>2, <2>3, <2>4 DEF Caller, EntryRight, Freers
  <2>6. /\ n = c0 + (IF o.at = "free" THEN 1 ELSE 0) - 1
        /\ k = k0 - (IF o.at = "free" THEN 1 ELSE 0)
    BY <2>2, <2>4
  <2>7. /\ r - 1 = n + v + h + (IF m.pend THEN k + he + hf ELSE 1)
        /\ k + he + hf <= IF m.pend THEN 1 ELSE 0
    <3>1. CASE m.pend
      BY <2>5, <2>6, <3>1
    <3>2. CASE ~m.pend
      BY <2>5, <2>6, <3>2
    <3> QED
      BY <3>1, <3>2
  <2>8. Freers(m, k) = k + he + hf
    BY <2>4 DEF Freers
  <2> QED
    BY <2>1, <2>3, <2>4, <2>7, <2>8
<1>10. /\ {t} \in SUBSET Ioctls /\ ioctl' \in [Ioctls -> CallType]
       /\ \A u \in Ioctls \ {t} : ioctl'[u] = ioctl[u]
       /\ \A u \in {t} :
              \/ ioctl'[u].at = "idle"
              \/ ioctl'[u].at = "put" /\ ioctl'[u].e = e
                 /\ file[ioctl'[u].file].at = "open" /\ mem[e].of = file[ioctl'[u].file].of
  BY <1>1, <1>3 DEF ProcessInv, Typed, Caller
<1>11. t \in Whos /\ t # "show" /\ ProcessInv
  BY FiniteParts DEF Whos
<1>12. m.of = mem[e].of /\ m.event = mem[e].event /\ m.pend = mem[e].pend /\ mem[e].at = "live"
  BY <1>9
<1> QED
  BY <1>2, <1>6, <1>7, <1>9, <1>10, <1>11, <1>12, PutsKeep

\* kgsl_gpumem_vm_close
LEMMA VmCloseKeeps ==
    ASSUME ProcessInv, NEW e \in Memory, P!VmClose(e)  PROVE ProcessInv'
<1>1. PICK m0 \in EntryType : m0 = mem[e]
  BY DEF ProcessInv, Typed
<1>2. EntryRight(m0, P!Callers(e), P!TakesOver(e), Reading(e))
  BY <1>1 DEF ProcessInv, EntriesRight
<1>3. /\ m0.vmas > 0 /\ m0.vmas \in Nat /\ P!Puts(e, [m0 EXCEPT !.vmas = @ - 1], "vma")
      /\ process_mutex' = process_mutex /\ file' = file /\ context' = context /\ show' = show
      /\ ioctl' = ioctl
  BY <1>1 DEF P!VmClose, EntryType
<1>4. PICK m \in EntryType :
        /\ P!Puts(e, m, "vma")
        /\ m.at = m0.at /\ m.of = m0.of /\ m.event = m0.event /\ m.pend = m0.pend /\ m.cb = m0.cb
        /\ m.refs = m0.refs /\ m.vmas = m0.vmas - 1
  <2> DEFINE m == [m0 EXCEPT !.vmas = @ - 1]
  <2>1. /\ m \in EntryType
        /\ m.at = m0.at /\ m.of = m0.of /\ m.event = m0.event /\ m.pend = m0.pend /\ m.cb = m0.cb
        /\ m.refs = m0.refs /\ m.vmas = m0.vmas - 1
    BY <1>3 DEF EntryType
  <2> QED
    BY <1>3, <2>1
<1>5. /\ \A x \in Memory : P!Callers(x)' = P!Callers(x) /\ P!TakesOver(x)' = P!TakesOver(x)
      /\ ContextCalls' = ContextCalls /\ CallDetachers' = CallDetachers
  BY <1>3, NumbersStay
<1>6. Reading(e)' = Reading(e)
  BY <1>3 DEF Reading
<1>7. m0.at = "live" /\ m0.refs > 0 /\ m0.refs \in Nat /\ m0.pend \in BOOLEAN
  BY <1>2, <1>3 DEF EntryRight, EntryType
<1>8. HasEvent(m) = HasEvent(m0) /\ HasFence(m) = HasFence(m0)
  BY <1>4 DEF HasEvent, HasFence
<1>9. /\ m.refs - 1 = P!Callers(e) + m.vmas + Reading(e)
                      + (IF m.pend THEN Freers(m, P!TakesOver(e)) ELSE 1)
      /\ Freers(m, P!TakesOver(e)) <= IF m.pend THEN 1 ELSE 0
  <2>1. Freers(m, P!TakesOver(e)) = Freers(m0, P!TakesOver(e)) /\ Freers(m, P!TakesOver(e)) \in Nat
    BY <1>8, Numbers DEF Freers, HasEvent, HasFence
  <2>2. P!Callers(e) \in Nat /\ Reading(e) \in Nat
    BY Numbers DEF Reading
  <2> QED
    BY <1>2, <1>3, <1>4, <1>7, <2>1, <2>2 DEF EntryRight
<1>10. /\ m.refs - 1 = P!Callers(e)' + m.vmas + Reading(e)'
                      + (IF m.pend THEN Freers(m, P!TakesOver(e)') ELSE 1)
       /\ Freers(m, P!TakesOver(e)') <= IF m.pend THEN 1 ELSE 0
  BY <1>5, <1>6, <1>9
<1>11. /\ mem[e].at = "live" /\ m.at = "live" /\ m.of = mem[e].of /\ m.event = mem[e].event
       /\ m.pend = mem[e].pend /\ m.refs > 0
  BY <1>1, <1>4, <1>7
<1>12. /\ {} \in SUBSET Ioctls /\ ioctl' \in [Ioctls -> CallType]
       /\ \A u \in Ioctls \ {} : ioctl'[u] = ioctl[u]
  BY <1>3 DEF ProcessInv, Typed
<1>13. "vma" \in Whos /\ "vma" # "show"
  BY DEF Whos
<1>14. \A x \in Memory \ {e} : P!Callers(x)' = P!Callers(x) /\ P!TakesOver(x)' = P!TakesOver(x)
  BY <1>5
<1>15. /\ process_mutex' = process_mutex /\ file' = file /\ context' = context /\ show' = show
       /\ ContextCalls' = ContextCalls /\ CallDetachers' = CallDetachers /\ ProcessInv
       /\ P!Puts(e, m, "vma")
  BY <1>3, <1>4, <1>5
<1>16. \A u \in {} :
              \/ ioctl'[u].at = "idle"
              \/ ioctl'[u].at = "put" /\ ioctl'[u].e = e
                 /\ file[ioctl'[u].file].at = "open" /\ mem[e].of = file[ioctl'[u].file].of
  OBVIOUS
<1> QED
  BY ONLY <1>10, <1>11, <1>12, <1>13, <1>14, <1>15, <1>16, PutsKeep

\* The reader puts the entry he holds.
LEMMA ShowPutsKeeps ==
    ASSUME ProcessInv, P!ShowPuts  PROVE ProcessInv'
<1>1. Typed /\ FilesRight /\ PrivsRight /\ EntriesRight /\ ContextRight /\ CallsRight
      /\ ShowRight /\ Unfreed
  BY DEF ProcessInv
<1>2. /\ process_mutex' = process_mutex /\ file' = file /\ context' = context /\ ioctl' = ioctl
      /\ show.at = "hold"
  BY DEF P!ShowPuts
<1>3. PICK e \in Memory : e = show.e /\ mem[e].of = show.of
  BY <1>1, <1>2 DEF ShowRight
<1>4. PICK m \in EntryType : m = mem[e] /\ m.of = show.of
  BY <1>1, <1>3 DEF Typed
<1>5. P!Puts(e, m, "show") /\ show' = [at |-> "walk", of |-> show.of, e |-> show.e + 1]
  BY <1>3, <1>4 DEF P!ShowPuts
<1>6. show'.at = "walk" /\ show'.of = show.of /\ show' \in ShowType
  <2>1. show.of \in Privs /\ show.e + 1 \in Nat
    BY <1>1 DEF Typed, ShowType
  <2> QED
    BY <1>5, <2>1 DEF ShowType
<1>7. Reading(e) = 1 /\ \A x \in Memory : Reading(x)' = 0 /\ (x # e => Reading(x) = 0)
  BY <1>2, <1>3, <1>6 DEF Reading
<1>8. EntryRight(m, P!Callers(e), P!TakesOver(e), 1)
  BY <1>1, <1>4, <1>7 DEF EntriesRight
<1>9. m.at = "live" /\ m.refs > 0 /\ m.refs \in Nat /\ m.vmas \in Nat /\ m.pend \in BOOLEAN
  BY <1>8 DEF EntryRight, EntryType
<1>10. /\ \A x \in Memory : P!Callers(x)' = P!Callers(x) /\ P!TakesOver(x)' = P!TakesOver(x)
       /\ ContextCalls' = ContextCalls /\ CallDetachers' = CallDetachers
       /\ \A p \in Privs : FilesOf(p)' = FilesOf(p)
       /\ ContextFiles' = ContextFiles /\ FileDetachers' = FileDetachers
  BY <1>2, NumbersStay
<1>11. /\ m.refs - 1 = P!Callers(e) + m.vmas + 0
                      + (IF m.pend THEN Freers(m, P!TakesOver(e)) ELSE 1)
       /\ Freers(m, P!TakesOver(e)) <= IF m.pend THEN 1 ELSE 0
  <2>1. P!Callers(e) \in Nat /\ Freers(m, P!TakesOver(e)) \in Nat
    BY Numbers DEF Freers, HasEvent, HasFence
  <2> QED
    BY <1>8, <1>9, <2>1 DEF EntryRight
<1>12. /\ m.refs - 1 = P!Callers(e)' + m.vmas + Reading(e)'
                      + (IF m.pend THEN Freers(m, P!TakesOver(e)') ELSE 1)
       /\ Freers(m, P!TakesOver(e)') <= IF m.pend THEN 1 ELSE 0
  BY <1>7, <1>10, <1>11
<1>13. \A x \in Memory \ {e} : P!Callers(x)' = P!Callers(x) /\ P!TakesOver(x)' = P!TakesOver(x)
                               /\ Reading(x)' = Reading(x)
  BY <1>7, <1>10
<1>14. /\ \A p \in Privs : FilesOf(p)' = FilesOf(p) /\ OfPriv(show', p) = OfPriv(show, p)
       /\ OfPriv(show, m.of) = 1
  BY <1>2, <1>4, <1>6, <1>10 DEF OfPriv
<1>15. mem[e].at = "live" /\ m.of = mem[e].of /\ m.event = mem[e].event /\ "show" \in Whos
  BY <1>4, <1>9 DEF Whos
<1>16. /\ mem' \in [Memory -> EntryType] /\ priv' \in [Privs -> PrivType]
       /\ EntriesRight' /\ PrivsRight' /\ FilesOfPrivs' = FilesOfPrivs /\ EventEntries' = EventEntries
       /\ \A x \in Memory \ {e} : mem'[x] = mem[x]
       /\ mem'[e].at = "live" => mem'[e].of = mem[e].of /\ mem'[e].pend = m.pend
       /\ mem'[e].at \in {"live", "none"}
       /\ P!Callers(e)' > 0 \/ Reading(e)' > 0 => mem'[e].at = "live"
  BY <1>1, <1>2, <1>5, <1>9, <1>12, <1>13, <1>14, <1>15, EntryPuts
<1>17. Typed'
  BY <1>1, <1>2, <1>6, <1>16 DEF Typed
<1>18. FilesRight'
  BY <1>1, <1>2, <1>16, FilesStay
<1>19. ContextRight'
  <2>1. ContextUsers' = ContextUsers
    BY <1>10, <1>16 DEF ContextUsers
  <2>2. Detachers' = Detachers
    BY <1>10 DEF Detachers
  <2>3. \A f \in Files : file[f].at \in {"open", "contexts"} => file'[f].at \in {"open", "contexts"}
    BY <1>2
  <2> QED
    BY <1>1, <1>2, <2>1, <2>2, <2>3, ContextStays
<1>20. CallsRight'
  <2>1. {} \in SUBSET Ioctls /\ ioctl' \in [Ioctls -> CallType]
        /\ (\A u \in Ioctls \ {} : ioctl'[u] = ioctl[u])
        /\ \A u \in {} : CallRight(ioctl'[u], file', mem') /\ ioctl'[u].at # "map"
    BY <1>1, <1>2 DEF Typed
  <2>2. \A u \in Ioctls \ {} : ioctl[u].at # "idle" =>
               file'[ioctl[u].file].at = "open" /\ file'[ioctl[u].file].of = file[ioctl[u].file].of
    BY <1>1, <1>2 DEF CallsRight, CallRight
  <2>3. \A u \in Ioctls \ {}, x \in Memory :
               ioctl[u].at \in P!UsesEntry /\ ioctl[u].e = x =>
                   mem'[x].of = mem[x].of /\ (mem'[x].at = "attached" <=> mem[x].at = "attached")
    <3> SUFFICES ASSUME NEW u \in Ioctls, NEW x \in Memory,
                        ioctl[u].at \in P!UsesEntry, ioctl[u].e = x
                 PROVE  mem'[x].of = mem[x].of /\ (mem'[x].at = "attached" <=> mem[x].at = "attached")
      OBVIOUS
    <3>1. P!Callers(x)' > 0
      BY <1>2, UsersCount
    <3> QED
      BY <1>15, <1>16, <3>1
  <2> QED
    BY <1>1, <2>1, <2>2, <2>3, CallsStay
<1>21. ShowRight'
  BY <1>6 DEF ShowRight
<1>22. Unfreed'
  <2>1. \A x \in Memory : mem'[x].at = "live" /\ ~mem'[x].pend =>
               mem[x].at = "live" /\ ~mem[x].pend /\ mem'[x].of = mem[x].of
    BY <1>4, <1>15, <1>16
  <2>2. \A f \in Files : file[f].at = "release" => file'[f] = file[f]
    BY <1>2
  <2> QED
    BY <1>1, <1>16, <2>1, <2>2, UnfreedStays
<1> QED
  BY <1>16, <1>17, <1>18, <1>19, <1>20, <1>21, <1>22 DEF ProcessInv

\* A file that goes on in the same structure
LEMMA FilesGoOn ==
    ASSUME Typed, NEW f \in Files, NEW r \in FileType, file' = [file EXCEPT ![f] = r],
           r.of = file[f].of, r.at # "none", file[f].at # "none"
    PROVE  /\ file' \in [Files -> FileType] /\ file'[f] = r /\ \A g \in Files \ {f} : file'[g] = file[g]
           /\ \A p \in Privs : FilesOf(p)' = FilesOf(p)
           /\ \A p \in Privs : CountedFiles(p)' = CountedFiles(p) + CountedIn(r, p) - CountedIn(file[f], p)
           /\ ContextFiles' = ContextFiles + PutsIt(r) - PutsIt(file[f])
           /\ FileDetachers' = FileDetachers + FileDetaching(r) - FileDetaching(file[f])
<1>1. file' \in [Files -> FileType] /\ file'[f] = r /\ \A g \in Files \ {f} : file'[g] = file[g]
  BY DEF Typed
<1>2. /\ \A p \in Privs : CountedFiles(p)' = CountedFiles(p) + CountedIn(r, p) - CountedIn(file[f], p)
      /\ \A p \in Privs : FilesOf(p)' = FilesOf(p) + OfPriv(r, p) - OfPriv(file[f], p)
      /\ ContextFiles' = ContextFiles + PutsIt(r) - PutsIt(file[f])
      /\ FileDetachers' = FileDetachers + FileDetaching(r) - FileDetaching(file[f])
  BY FileMoves
<1>3. \A p \in Privs : OfPriv(r, p) = OfPriv(file[f], p) /\ OfPriv(r, p) \in Nat
  BY DEF OfPriv
<1>4. \A p \in Privs : FilesOf(p)' = FilesOf(p)
  BY <1>2, <1>3, Numbers
<1> QED
  BY <1>1, <1>2, <1>4

\* The last file releases an entry.
LEMMA ReleaseEntryKeeps ==
    ASSUME ProcessInv, NEW f \in Files, P!ReleaseEntry(f)  PROVE ProcessInv'
<1>1. Typed /\ FilesRight /\ PrivsRight /\ EntriesRight /\ ContextRight /\ CallsRight
      /\ ShowRight /\ Unfreed
  BY DEF ProcessInv
<1>2. PICK o \in FileType : o = file[f] /\ o.at = "release" /\ o.next \in Memory
  BY <1>1 DEF P!ReleaseEntry, Typed
<1>3. PICK e \in Memory : e = o.next
  BY <1>2
<1>4. PICK r \in FileType :
        file' = [file EXCEPT ![f] = r] /\ r.at = o.at /\ r.of = o.of /\ r.next = o.next + 1
  <2> DEFINE r == [o EXCEPT !.next = @ + 1]
  <2>1. r \in FileType /\ r.at = o.at /\ r.of = o.of /\ r.next = o.next + 1
    BY DEF FileType
  <2>2. file' = [file EXCEPT ![f] = r]
    BY <1>2 DEF P!ReleaseEntry
  <2> QED
    BY <2>1, <2>2
<1>5. /\ process_mutex' = process_mutex /\ context' = context /\ ioctl' = ioctl /\ show' = show
  BY DEF P!ReleaseEntry
<1>6. /\ file' \in [Files -> FileType] /\ file'[f] = r /\ \A g \in Files \ {f} : file'[g] = file[g]
      /\ \A p \in Privs : FilesOf(p)' = FilesOf(p)
      /\ \A p \in Privs : CountedFiles(p)' = CountedFiles(p) + CountedIn(r, p) - CountedIn(o, p)
      /\ ContextFiles' = ContextFiles + PutsIt(r) - PutsIt(o)
      /\ FileDetachers' = FileDetachers + FileDetaching(r) - FileDetaching(o)
  <2>1. r.of = file[f].of /\ r.at # "none" /\ file[f].at # "none" /\ Typed
        /\ file' = [file EXCEPT ![f] = r]
    BY <1>1, <1>2, <1>4
  <2>2. /\ file' \in [Files -> FileType] /\ file'[f] = r /\ \A g \in Files \ {f} : file'[g] = file[g]
        /\ \A p \in Privs : FilesOf(p)' = FilesOf(p)
        /\ \A p \in Privs : CountedFiles(p)' = CountedFiles(p) + CountedIn(r, p) - CountedIn(file[f], p)
        /\ ContextFiles' = ContextFiles + PutsIt(r) - PutsIt(file[f])
        /\ FileDetachers' = FileDetachers + FileDetaching(r) - FileDetaching(file[f])
    BY ONLY <2>1, FilesGoOn
  <2> QED
    BY <1>2, <2>2
<1>7. /\ \A p \in Privs : CountedIn(r, p) = CountedIn(o, p) /\ CountedIn(r, p) \in Nat
      /\ PutsIt(r) = PutsIt(o) /\ FileDetaching(r) = FileDetaching(o)
      /\ PutsIt(r) \in Nat /\ FileDetaching(r) \in Nat
  BY <1>4 DEF CountedIn, PutsIt, FileDetaching
<1>8. \A p \in Privs : CountedFiles(p)' = CountedFiles(p)
  BY <1>6, <1>7, Numbers
<1>9. ContextFiles' = ContextFiles /\ FileDetachers' = FileDetachers
  BY <1>6, <1>7, Numbers
<1>10. /\ \A x \in Memory : P!Callers(x)' = P!Callers(x) /\ P!TakesOver(x)' = P!TakesOver(x)
       /\ ContextCalls' = ContextCalls /\ CallDetachers' = CallDetachers
  BY <1>5, NumbersStay
<1>11. \A x \in Memory : Reading(x)' = Reading(x)
  BY <1>5 DEF Reading
<1>12. \A g \in Files : file'[g].at = file[g].at /\ file'[g].of = file[g].of
  BY <1>2, <1>4, <1>6
<1>13. PICK m0 \in EntryType : m0 = mem[e]
  BY <1>1 DEF Typed
<1>14. EntryRight(m0, P!Callers(e), P!TakesOver(e), Reading(e))
  BY <1>1, <1>13 DEF EntriesRight
<1>15. /\ mem' \in [Memory -> EntryType] /\ priv' \in [Privs -> PrivType]
       /\ EntriesRight' /\ PrivsRight' /\ FilesOfPrivs' = FilesOfPrivs /\ EventEntries' = EventEntries
       /\ \A x \in Memory : mem'[x].at = "live" /\ ~mem'[x].pend => 
             /\ mem[x].at = "live" /\ ~mem[x].pend /\ mem'[x].of = mem[x].of
             /\ ~(x = e /\ mem[e].of = o.of)
       /\ \A x \in Memory : P!Callers(x)' > 0 \/ Reading(x)' > 0 =>
              mem'[x].of = mem[x].of /\ (mem'[x].at = "attached" <=> mem[x].at = "attached")
  <2>1. CASE P!Visible(e, o.of) /\ ~m0.pend
    <3>1. P!Puts(e, [m0 EXCEPT !.pend = TRUE], f)
      BY <1>2, <1>3, <1>13, <2>1 DEF P!ReleaseEntry
    <3>2. m0.at = "live" /\ m0.of = o.of
      BY <1>13, <1>14, <2>1 DEF P!Visible, EntryRight
    <3>3. PICK m \in EntryType :
            /\ P!Puts(e, m, f) /\ m.at = "live" /\ m.of = m0.of /\ m.event = m0.event
            /\ m.pend = TRUE /\ m.cb = m0.cb /\ m.refs = m0.refs /\ m.vmas = m0.vmas
      <4> DEFINE m == [m0 EXCEPT !.pend = TRUE]
      <4>1. /\ m \in EntryType /\ m.at = "live" /\ m.of = m0.of /\ m.event = m0.event
            /\ m.pend = TRUE /\ m.cb = m0.cb /\ m.refs = m0.refs /\ m.vmas = m0.vmas
        BY <3>2 DEF EntryType
      <4> QED
        BY <3>1, <4>1
    <3>4. /\ m.refs - 1 = P!Callers(e) + m.vmas + Reading(e)
                          + (IF m.pend THEN Freers(m, P!TakesOver(e)) ELSE 1)
          /\ Freers(m, P!TakesOver(e)) <= IF m.pend THEN 1 ELSE 0
          /\ m.refs > 0
      <4>1. HasEvent(m) = HasEvent(m0) /\ HasFence(m) = HasFence(m0)
        BY <3>3 DEF HasEvent, HasFence
      <4>2. Freers(m, P!TakesOver(e)) = Freers(m0, P!TakesOver(e)) /\ Freers(m0, P!TakesOver(e)) \in Nat
        BY <4>1, Numbers DEF Freers, HasEvent, HasFence
      <4>3. Freers(m0, P!TakesOver(e)) = 0
        BY <1>14, <2>1, <4>2 DEF EntryRight
      <4>4. P!Callers(e) \in Nat /\ Reading(e) \in Nat /\ m0.refs \in Nat /\ m0.vmas \in Nat
        BY Numbers DEF Reading, EntryType
      <4>5. m0.refs = P!Callers(e) + m0.vmas + Reading(e) + 1 /\ m0.refs > 0
        BY <1>14, <2>1, <3>2 DEF EntryRight
      <4> QED
        BY <3>3, <4>2, <4>3, <4>4, <4>5
    <3>5. /\ m.refs - 1 = P!Callers(e)' + m.vmas + Reading(e)'
                          + (IF m.pend THEN Freers(m, P!TakesOver(e)') ELSE 1)
          /\ Freers(m, P!TakesOver(e)') <= IF m.pend THEN 1 ELSE 0
          /\ m.refs > 0
      BY <1>10, <1>11, <3>4
    <3>6. \A x \in Memory \ {e} : P!Callers(x)' = P!Callers(x) /\ P!TakesOver(x)' = P!TakesOver(x)
                                  /\ Reading(x)' = Reading(x)
      BY <1>10, <1>11
    <3>7. /\ \A p \in Privs : FilesOf(p)' = FilesOf(p) /\ OfPriv(show', p) = OfPriv(show, p)
          /\ context' = context
      BY <1>5, <1>6
    <3>8. /\ mem[e].at = "live" /\ m.at = "live" /\ m.of = mem[e].of /\ m.event = mem[e].event
          /\ f \in Whos /\ f # "show" /\ P!Puts(e, m, f)
      BY <1>13, <3>2, <3>3, FiniteParts DEF Whos
    <3>9. /\ mem' \in [Memory -> EntryType] /\ priv' \in [Privs -> PrivType]
          /\ EntriesRight' /\ PrivsRight' /\ FilesOfPrivs' = FilesOfPrivs
          /\ EventEntries' = EventEntries
          /\ \A x \in Memory \ {e} : mem'[x] = mem[x]
          /\ mem'[e].at = "live" => mem'[e].of = mem[e].of /\ mem'[e].pend = m.pend
          /\ mem'[e].at \in {"live", "none"}
          /\ P!Callers(e)' > 0 \/ Reading(e)' > 0 => mem'[e].at = "live"
      BY <1>1, <3>5, <3>6, <3>7, <3>8, EntryPuts
    <3> QED
      BY <3>3, <3>8, <3>9
  <2>2. CASE ~(P!Visible(e, o.of) /\ ~m0.pend)
    <3>1. mem' = mem /\ priv' = priv
      BY <1>2, <1>3, <1>13, <2>2 DEF P!ReleaseEntry
    <3>2. EntriesRight'
      BY <1>1, <1>10, <1>11, <3>1, EntriesStay
    <3>3. \A p \in Privs : EntriesOf(p)' = EntriesOf(p)
      BY <3>1, NumbersStay
    <3>4. EventEntries' = EventEntries
      BY <3>1, NumbersStay
    <3>5. \A p \in Privs : PrivRefs(p)' = PrivRefs(p)
      BY <1>5, <1>6, <3>3, PrivRefsAfter
    <3>6. PrivsRight' /\ FilesOfPrivs' = FilesOfPrivs
      BY <1>1, <3>1, <3>5, PrivsStay
    <3>7. mem[e].at = "live" /\ ~mem[e].pend => mem[e].of # o.of
      BY <1>13, <2>2 DEF P!Visible
    <3> QED
      BY <1>1, <3>1, <3>2, <3>4, <3>6, <3>7 DEF Typed
  <2> QED
    BY <2>1, <2>2
<1>16. Typed'
  BY <1>1, <1>5, <1>6, <1>15 DEF Typed
<1>17. FilesRight'
  <2>1. \A p \in Privs : priv'[p].fds = priv[p].fds /\ priv'[p].mutex = priv[p].mutex
    BY <1>15 DEF FilesOfPrivs
  <2> QED
    BY <1>1, <1>5, <1>8, <1>12, <2>1 DEF FilesRight
<1>18. ContextRight'
  <2>1. ContextUsers' = ContextUsers
    BY <1>9, <1>10, <1>15 DEF ContextUsers
  <2>2. Detachers' = Detachers
    BY <1>9, <1>10 DEF Detachers
  <2>3. \A g \in Files : file[g].at \in {"open", "contexts"} => file'[g].at \in {"open", "contexts"}
    BY <1>12
  <2> QED
    BY <1>1, <1>5, <2>1, <2>2, <2>3, ContextStays
<1>19. CallsRight'
  <2>1. {} \in SUBSET Ioctls /\ ioctl' \in [Ioctls -> CallType]
        /\ (\A u \in Ioctls \ {} : ioctl'[u] = ioctl[u])
        /\ \A u \in {} : CallRight(ioctl'[u], file', mem') /\ ioctl'[u].at # "map"
    BY <1>1, <1>5 DEF Typed
  <2>2. \A u \in Ioctls \ {} : ioctl[u].at # "idle" =>
               file'[ioctl[u].file].at = "open" /\ file'[ioctl[u].file].of = file[ioctl[u].file].of
    BY <1>1, <1>12 DEF CallsRight, CallRight, Typed, CallType
  <2>3. \A u \in Ioctls \ {}, x \in Memory :
               ioctl[u].at \in P!UsesEntry /\ ioctl[u].e = x =>
                   mem'[x].of = mem[x].of /\ (mem'[x].at = "attached" <=> mem[x].at = "attached")
    BY <1>5, <1>15, UsersCount
  <2> QED
    BY <1>1, <2>1, <2>2, <2>3, CallsStay
<1>20. ShowRight'
  <2>1. \A x \in Memory : show.at = "hold" /\ show.e = x => Reading(x)' > 0
    BY <1>5 DEF Reading
  <2> QED
    BY <1>1, <1>5, <1>15, <2>1 DEF ShowRight
<1>21. Unfreed'
  <2>1. \A p \in Privs : priv'[p].fds = priv[p].fds
    BY <1>15 DEF FilesOfPrivs
  <2> SUFFICES ASSUME NEW x \in Memory, mem'[x].at = "live", ~mem'[x].pend
               PROVE  priv'[mem'[x].of].fds > 0 \/ Releasing(x)'
    BY DEF Unfreed
  <2>2. /\ mem[x].at = "live" /\ ~mem[x].pend /\ mem'[x].of = mem[x].of /\ mem[x].of \in Privs
        /\ ~(x = e /\ mem[e].of = o.of)
    BY <1>1, <1>15 DEF Typed, EntryType
  <2>3. ASSUME NEW g \in Files, file[g].at = "release", file[g].of = mem[x].of, file[g].next <= x
        PROVE  Releasing(x)'
    <3>1. CASE g # f
      BY <1>6, <2>2, <2>3, <3>1 DEF Releasing
    <3>2. CASE g = f
      <4>1. x # e /\ o.next <= x
        BY <1>2, <2>2, <2>3, <3>2
      <4>2. r.next <= x
        <5>1. x \in Nat /\ o.next \in Nat
          BY FiniteParts DEF FileType
        <5> QED
          BY <1>3, <1>4, <4>1, <5>1
      <4> QED
        BY <1>2, <1>4, <1>6, <2>2, <2>3, <3>2, <4>2 DEF Releasing
    <3> QED
      BY <3>1, <3>2
  <2> QED
    BY <1>1, <2>1, <2>2, <2>3 DEF Unfreed, Releasing
<1> QED
  BY <1>15, <1>16, <1>17, <1>18, <1>19, <1>20, <1>21 DEF ProcessInv

-----------------------------------------------------------------------------
(* The steps of a call that change no entry, and those with the context.   *)

\* A step that changes a call and the context, no entry.
LEMMA CallOnly ==
    ASSUME ProcessInv,
           NEW t \in Ioctls, NEW o \in CallType, o = ioctl[t],
           NEW c \in CallType, ioctl' = [ioctl EXCEPT ![t] = c],
           mem' = mem, file' = file, show' = show, process_mutex' = process_mutex,
           \A x \in Memory : Using(c, x) = Using(o, x) /\ Taking(c, x) = Taking(o, x),
           CallRight(c, file, mem), c.at # "map",
           context' \in ContextType, priv' \in [Privs -> PrivType],
           PrivsRight', FilesOfPrivs' = FilesOfPrivs,
           ContextFits(context', Detachers', ContextUsers'),
           context'.at = "live" => file[context'.file].at \in {"open", "contexts"}
    PROVE  ProcessInv'
<1>1. Typed /\ FilesRight /\ PrivsRight /\ EntriesRight /\ ContextRight /\ CallsRight
      /\ ShowRight /\ Unfreed
  BY DEF ProcessInv
<1>2. Typed'
  BY <1>1 DEF Typed
<1>3. FilesRight'
  BY <1>1, FilesStay
<1>4. EntriesRight'
  <2>1. \A x \in Memory : P!Callers(x)' = P!Callers(x) + Using(c, x) - Using(o, x)
                          /\ P!TakesOver(x)' = P!TakesOver(x) + Taking(c, x) - Taking(o, x)
    BY <1>1, CallMoves
  <2>2. \A x \in Memory : Using(o, x) \in Nat /\ Taking(o, x) \in Nat
    BY DEF Using, Taking
  <2>3. \A x \in Memory : P!Callers(x)' = P!Callers(x) /\ P!TakesOver(x)' = P!TakesOver(x)
    BY <2>1, <2>2, Numbers
  <2>4. \A x \in Memory : Reading(x)' = Reading(x)
    BY DEF Reading
  <2> QED
    BY <1>1, <2>3, <2>4, EntriesStay
<1>5. ContextRight'
  BY DEF ContextRight
<1>6. CallsRight'
  <2>1. /\ {t} \in SUBSET Ioctls /\ ioctl' \in [Ioctls -> CallType]
        /\ \A u \in Ioctls \ {t} : ioctl'[u] = ioctl[u]
        /\ \A u \in {t} : CallRight(ioctl'[u], file', mem') /\ ioctl'[u].at # "map"
    BY <1>1 DEF Typed
  <2>2. \A u \in Ioctls \ {t} : ioctl[u].at # "idle" =>
               file'[ioctl[u].file].at = "open" /\ file'[ioctl[u].file].of = file[ioctl[u].file].of
    BY <1>1 DEF CallsRight, CallRight
  <2>3. \A u \in Ioctls \ {t}, x \in Memory :
               ioctl[u].at \in P!UsesEntry /\ ioctl[u].e = x =>
                   mem'[x].of = mem[x].of /\ (mem'[x].at = "attached" <=> mem[x].at = "attached")
    OBVIOUS
  <2> QED
    BY <1>1, <2>1, <2>2, <2>3, CallsStay
<1>7. ShowRight'
  BY <1>1 DEF ShowRight
<1>8. Unfreed'
  <2>1. \A x \in Memory : mem'[x].at = "live" /\ ~mem'[x].pend =>
               mem[x].at = "live" /\ ~mem[x].pend /\ mem'[x].of = mem[x].of
    OBVIOUS
  <2>2. (\A g \in Files : file[g].at = "release" => file'[g] = file[g])
        /\ mem' \in [Memory -> EntryType]
    BY <1>1 DEF Typed
  <2> QED
    BY <1>1, <2>1, <2>2, UnfreedStays
<1> QED
  BY <1>2, <1>3, <1>4, <1>5, <1>6, <1>7, <1>8 DEF ProcessInv

\* The numbers of a context when one of its users goes, a detacher if he puts three
\* references, or the call of one changes.
LEMMA ContextCallMoves ==
    ASSUME Typed, NEW t \in Ioctls, NEW c, ioctl' = [ioctl EXCEPT ![t] = c],
           mem' = mem, file' = file
    PROVE  /\ ContextUsers' = ContextUsers + InContext(c) - InContext(ioctl[t])
           /\ Detachers' = Detachers + CallDetaching(c) - CallDetaching(ioctl[t])
<1>1. ContextCalls' = ContextCalls + InContext(c) - InContext(ioctl[t])
      /\ CallDetachers' = CallDetachers + CallDetaching(c) - CallDetaching(ioctl[t])
  BY CallMoves
<1>2. ContextFiles' = ContextFiles /\ FileDetachers' = FileDetachers /\ EventEntries' = EventEntries
  BY NumbersStay
<1>3. \A d : InContext(d) \in {0, 1} /\ CallDetaching(d) \in {0, 1}
  BY DEF InContext, CallDetaching
<1> QED
  BY <1>1, <1>2, <1>3, Numbers DEF ContextUsers, Detachers

\* The end of gpumem_free_entry_on_timestamp and of a detach put their references.
LEMMA CallPutsContext ==
    ASSUME ProcessInv, NEW t \in Ioctls, P!FreePutsContext(t) \/ P!DetachPuts(t)  PROVE ProcessInv'
<1>1. Typed /\ FilesRight /\ PrivsRight /\ ContextRight /\ CallsRight /\ ProcessInv
  BY DEF ProcessInv
<1>2. PICK o \in CallType : o = ioctl[t]
  BY <1>1 DEF Typed
<1>3. /\ mem' = mem /\ file' = file /\ show' = show /\ process_mutex' = process_mutex
      /\ o.at \in {"putctx", "put1", "put3"}
      /\ P!PutsContext(IF o.at = "put3" THEN 3 ELSE 1, t)
  BY <1>2 DEF P!FreePutsContext, P!DetachPuts
<1>4. PICK n \in {1, 3} : n = IF o.at = "put3" THEN 3 ELSE 1
  OBVIOUS
<1>5. PICK c \in CallType :
        /\ ioctl' = [ioctl EXCEPT ![t] = c]
        /\ \/ o.at = "putctx" /\ c.at = "put" /\ c.file = o.file /\ c.e = o.e
           \/ o.at \in {"put1", "put3"} /\ c.at = "idle"
  <2>1. CASE P!FreePutsContext(t)
    BY <1>1, <1>2, <2>1, CallGoes DEF P!FreePutsContext, CallAts
  <2>2. CASE P!DetachPuts(t)
    BY <1>1, <1>2, <2>2, CallReturns DEF P!DetachPuts
  <2> QED
    BY <2>1, <2>2
<1>6. /\ InContext(o) = 1 /\ InContext(c) = 0 /\ CallDetaching(c) = 0
      /\ CallDetaching(o) = IF n = 3 THEN 1 ELSE 0
      /\ \A x \in Memory : Using(c, x) = Using(o, x) /\ Taking(c, x) = Taking(o, x)
      /\ c.at # "map"
  BY <1>3, <1>4, <1>5 DEF InContext, CallDetaching, Using, Taking, P!UsesEntry
<1>7. ContextUsers' = ContextUsers - 1 /\ Detachers' = Detachers - (IF n = 3 THEN 1 ELSE 0)
  <2>1. ContextUsers' = ContextUsers + InContext(c) - InContext(o)
        /\ Detachers' = Detachers + CallDetaching(c) - CallDetaching(o)
    BY <1>1, <1>2, <1>3, <1>5, ContextCallMoves
  <2> QED
    BY <1>6, <2>1, NumbersAdd
<1>8. t \in Whos /\ t # "show" /\ P!PutsContext(n, t)
  BY <1>3, <1>4, FiniteParts DEF Whos
<1>9. \A p \in Privs : FilesOf(p)' = FilesOf(p) /\ EntriesOf(p)' = EntriesOf(p)
  BY <1>3, NumbersStay
<1>10. /\ context' \in ContextType /\ priv' \in [Privs -> PrivType]
       /\ PrivsRight' /\ FilesOfPrivs' = FilesOfPrivs
       /\ ContextFits(context', Detachers', ContextUsers')
       /\ context'.at = "live" => context.at = "live" /\ context'.file = context.file
  BY <1>1, <1>3, <1>7, <1>8, <1>9, ContextPuts
<1>11. context'.at = "live" => file[context'.file].at \in {"open", "contexts"}
  BY <1>1, <1>10 DEF ContextRight
<1>12. CallRight(c, file, mem)
  <2>1. CallRight(o, file, mem)
    BY <1>1, <1>2 DEF CallsRight
  <2> QED
    BY <1>5, <2>1 DEF CallRight, P!UsesEntry
<1>13. ioctl' = [ioctl EXCEPT ![t] = c]
  BY <1>5
<1> QED
  BY ONLY <1>1, <1>2, <1>3, <1>6, <1>10, <1>11, <1>12, <1>13, CallOnly

\* A context that is got, or made by a detach what it was not
LEMMA ContextGot ==
    ASSUME ContextRight, Typed, context' \in ContextType, Detachers' \in Nat,
           context'.refs = context.refs + 1, ContextUsers' = ContextUsers + 1,
           context.at # "none", context'.at # "none",
           \/ context'.at = context.at /\ Detachers' = Detachers
           \/ /\ context.at = "live" /\ context'.at = "detached" /\ Detachers' = Detachers + 1
    PROVE  ContextFits(context', Detachers', ContextUsers')
<1>1. ContextFits(context, Detachers, ContextUsers)
  BY DEF ContextRight
<1>2. context.refs \in Nat /\ Detachers \in Nat /\ ContextUsers \in Nat
  BY NumbersAdd DEF Typed, ContextType
<1>3. CASE context'.at = context.at /\ Detachers' = Detachers
  BY <1>1, <1>2, <1>3 DEF ContextFits
<1>4. CASE context.at = "live" /\ context'.at = "detached" /\ Detachers' = Detachers + 1
  BY <1>1, <1>2, <1>4 DEF ContextFits
<1> QED
  BY <1>3, <1>4

\* What is the same when no structure has a reference more or less
LEMMA PrivsAlone ==
    ASSUME Typed, PrivsRight, priv' = priv, mem' = mem, file' = file, show' = show,
           context'.of = context.of, context'.at # "none" <=> context.at # "none"
    PROVE  priv' \in [Privs -> PrivType] /\ PrivsRight' /\ FilesOfPrivs' = FilesOfPrivs
<1>1. \A p \in Privs : FilesOf(p)' = FilesOf(p) /\ EntriesOf(p)' = EntriesOf(p)
  BY NumbersStay
<1>2. \A p \in Privs : OfPriv(context', p) = OfPriv(context, p) /\ OfPriv(show', p) = OfPriv(show, p)
  BY DEF OfPriv
<1>3. \A p \in Privs : PrivRefs(p)' = PrivRefs(p)
  BY <1>1, <1>2, PrivRefsAfter
<1> QED
  BY <1>3, PrivsStay DEF Typed

\* kgsl_ioctl_drawctxt_destroy
LEMMA DestroyContextKeeps ==
    ASSUME ProcessInv, NEW t \in Ioctls, NEW f \in Files, P!DestroyContext(t, f)  PROVE ProcessInv'
<1>1. Typed /\ FilesRight /\ PrivsRight /\ ContextRight /\ CallsRight /\ ProcessInv
  BY DEF ProcessInv
<1>2. PICK o \in CallType : o = ioctl[t] /\ o.at = "idle"
  BY <1>1 DEF P!DestroyContext, P!MayCall, Typed
<1>3. /\ priv' = priv /\ mem' = mem /\ file' = file /\ show' = show
      /\ process_mutex' = process_mutex
      /\ context.at = "live" /\ file[f].at = "open" /\ context' = [context EXCEPT !.refs = @ + 1]
  BY DEF P!DestroyContext, P!CanGetContext, P!MayCall
<1>4. PICK c \in CallType : /\ ioctl' = [ioctl EXCEPT ![t] = c] /\ c.at = "mark" /\ c.file = f
  <2> DEFINE c == [at |-> "mark", op |-> "context", file |-> f, e |-> 0]
  <2>1. ioctl' = [ioctl EXCEPT ![t] = c]
    BY DEF P!DestroyContext, P!Enters
  <2>2. c \in CallType /\ c.at = "mark" /\ c.file = f
    BY DEF CallType, CallAts, P!Ops
  <2> QED
    BY <2>1, <2>2
<1>5. /\ InContext(o) = 0 /\ InContext(c) = 1 /\ CallDetaching(c) = 0 /\ CallDetaching(o) = 0
      /\ \A x \in Memory : Using(c, x) = Using(o, x) /\ Taking(c, x) = Taking(o, x)
      /\ c.at # "map" /\ CallRight(c, file, mem)
  BY <1>2, <1>3, <1>4 DEF InContext, CallDetaching, Using, Taking, P!UsesEntry, CallRight
<1>6. ContextUsers' = ContextUsers + 1 /\ Detachers' = Detachers
  <2>1. ContextUsers' = ContextUsers + InContext(c) - InContext(o)
        /\ Detachers' = Detachers + CallDetaching(c) - CallDetaching(o)
    BY <1>1, <1>2, <1>3, <1>4, ContextCallMoves
  <2> QED
    BY <1>5, <2>1, NumbersAdd
<1>7. context' \in ContextType /\ context'.refs = context.refs + 1 /\ context'.at = context.at
      /\ context'.of = context.of /\ context'.file = context.file
  BY <1>1, <1>3 DEF Typed, ContextType
<1>8. ContextFits(context', Detachers', ContextUsers')
  BY <1>1, <1>3, <1>6, <1>7, NumbersAdd, ContextGot
<1>9. priv' \in [Privs -> PrivType] /\ PrivsRight' /\ FilesOfPrivs' = FilesOfPrivs
  BY <1>1, <1>3, <1>7, PrivsAlone
<1>10. context'.at = "live" => file[context'.file].at \in {"open", "contexts"}
  BY <1>1, <1>7 DEF ContextRight
<1>11. ioctl' = [ioctl EXCEPT ![t] = c] /\ context' \in ContextType
  BY <1>4, <1>7
<1>12. o = ioctl[t]
  BY <1>2
<1>13. /\ mem' = mem /\ file' = file /\ show' = show /\ process_mutex' = process_mutex
  BY <1>3
<1> QED
  BY ONLY <1>1, <1>12, <1>13, <1>5, <1>8, <1>9, <1>10, <1>11, CallOnly

\* kgsl_context_detach: the first marks the context.
LEMMA DetachMarksKeeps ==
    ASSUME ProcessInv, NEW t \in Ioctls, P!DetachMarks(t)  PROVE ProcessInv'
<1>1. Typed /\ FilesRight /\ PrivsRight /\ ContextRight /\ CallsRight /\ ProcessInv
  BY DEF ProcessInv
<1>2. PICK o \in CallType : o = ioctl[t] /\ o.at = "mark"
  BY <1>1 DEF P!DetachMarks, Typed
<1>3. /\ priv' = priv /\ mem' = mem /\ file' = file /\ show' = show
      /\ process_mutex' = process_mutex
  BY DEF P!DetachMarks
<1>4. PICK next \in {"cancel", "put1"} :
        /\ P!Goes(t, next)
        /\ IF next = "cancel" THEN context.at = "live" /\ context' = [context EXCEPT !.at = "detached"]
           ELSE context.at # "live" /\ context' = context
  BY DEF P!DetachMarks
<1>5. PICK c \in CallType : /\ ioctl' = [ioctl EXCEPT ![t] = c] /\ c.at = next /\ c.file = o.file
  BY <1>1, <1>2, <1>4, CallGoes DEF CallAts
<1>6. /\ InContext(o) = 1 /\ InContext(c) = 1 /\ CallDetaching(o) = 0
      /\ CallDetaching(c) = (IF next = "cancel" THEN 1 ELSE 0)
      /\ \A x \in Memory : Using(c, x) = Using(o, x) /\ Taking(c, x) = Taking(o, x)
      /\ c.at # "map"
  BY <1>2, <1>4, <1>5 DEF InContext, CallDetaching, Using, Taking, P!UsesEntry
<1>7. ContextUsers' = ContextUsers /\ Detachers' = Detachers + (IF next = "cancel" THEN 1 ELSE 0)
  <2>1. ContextUsers' = ContextUsers + InContext(c) - InContext(o)
        /\ Detachers' = Detachers + CallDetaching(c) - CallDetaching(o)
    BY <1>1, <1>2, <1>3, <1>5, ContextCallMoves
  <2> QED
    BY <1>6, <2>1, NumbersAdd
<1>8. CallRight(c, file, mem)
  <2>1. CallRight(o, file, mem)
    BY <1>1, <1>2 DEF CallsRight
  <2> QED
    BY <1>2, <1>4, <1>5, <2>1 DEF CallRight, P!UsesEntry
<1>9. /\ context' \in ContextType /\ context'.refs = context.refs /\ context'.of = context.of
      /\ context'.file = context.file /\ context.refs \in Nat
      /\ context'.at = IF next = "cancel" THEN "detached" ELSE context.at
      /\ next = "cancel" => context.at = "live"
  BY <1>1, <1>4 DEF Typed, ContextType
<1>10. ContextFits(context', Detachers', ContextUsers')
  <2>1. ContextFits(context, Detachers, ContextUsers)
    BY <1>1 DEF ContextRight
  <2> QED
    BY <1>7, <1>9, <2>1, NumbersAdd DEF ContextFits
<1>11. priv' \in [Privs -> PrivType] /\ PrivsRight' /\ FilesOfPrivs' = FilesOfPrivs
  <2>1. context'.at # "none" <=> context.at # "none"
    BY <1>9
  <2> QED
    BY <1>1, <1>3, <1>9, <2>1, PrivsAlone
<1>12. context'.at = "live" => file[context'.file].at \in {"open", "contexts"}
  BY <1>1, <1>9 DEF ContextRight
<1>13. /\ mem' = mem /\ file' = file /\ show' = show /\ process_mutex' = process_mutex
       /\ ioctl' = [ioctl EXCEPT ![t] = c] /\ context' \in ContextType /\ o = ioctl[t]
  BY <1>2, <1>3, <1>5, <1>9
<1> QED
  BY ONLY <1>1, <1>6, <1>8, <1>10, <1>11, <1>12, <1>13, CallOnly

\* kgsl_ioctl_drawctxt_create
LEMMA CreateContextKeeps ==
    ASSUME ProcessInv, NEW t \in Ioctls, NEW f \in Files, P!CreateContext(t, f)  PROVE ProcessInv'
<1>1. Typed /\ FilesRight /\ PrivsRight /\ ContextRight /\ CallsRight /\ ProcessInv
  BY DEF ProcessInv
<1>2. PICK o \in CallType : o = ioctl[t] /\ o.at = "idle"
  BY <1>1 DEF P!CreateContext, P!MayCall, Typed
<1>3. /\ mem' = mem /\ file' = file /\ show' = show /\ process_mutex' = process_mutex
      /\ ioctl' = ioctl /\ file[f].at = "open" /\ context.at = "none"
      /\ context' = [at |-> "live", refs |-> 2, file |-> f, of |-> file[f].of]
      /\ priv' = P!Got(priv, file[f].of)
  BY DEF P!CreateContext, P!MayCall
<1>4. PICK p \in Privs : p = file[f].of
  BY <1>1 DEF Typed, FileType
<1>5. ioctl' = [ioctl EXCEPT ![t] = o] /\ o.at # "map" /\ CallRight(o, file, mem) /\ o = ioctl[t]
      /\ \A x \in Memory : Using(o, x) = Using(o, x) /\ Taking(o, x) = Taking(o, x)
  BY <1>1, <1>2, <1>3 DEF Typed, CallsRight
<1>6. ContextUsers' = ContextUsers /\ Detachers' = Detachers
  BY <1>3, NumbersStay DEF ContextUsers, Detachers
<1>7. context' \in ContextType /\ context'.at = "live" /\ context'.of = p /\ context'.file = f
      /\ context'.refs = 2
  BY <1>3, <1>4 DEF ContextType
<1>8. ContextFits(context', Detachers', ContextUsers')
  <2>1. ContextFits(context, Detachers, ContextUsers) /\ context.refs \in Nat
    BY <1>1 DEF ContextRight, Typed, ContextType
  <2>2. ContextUsers = 0 /\ Detachers = 0
    BY <1>3, <2>1, NumbersAdd DEF ContextFits
  <2> QED
    BY <1>6, <1>7, <2>2 DEF ContextFits
<1>9. /\ \A q \in Privs : FilesOf(q)' = FilesOf(q) /\ EntriesOf(q)' = EntriesOf(q)
      /\ \A q \in Privs : OfPriv(show', q) = OfPriv(show, q) /\ OfPriv(context, q) = 0
                          /\ OfPriv(context', q) = IF q = p THEN 1 ELSE 0
  BY <1>3, <1>7, NumbersStay DEF OfPriv
<1>10. PrivRefs(p)' = PrivRefs(p) + 1 /\ \A q \in Privs \ {p} : PrivRefs(q)' = PrivRefs(q)
  BY <1>9, PrivRefsAfter, Numbers
<1>11. priv[p].refs > 0
  <2>1. PICK r : r = file[f]
    OBVIOUS
  <2>2. OfPriv(r, p) = 1 /\ FilesOf(p) >= OfPriv(r, p)
    BY <1>3, <1>4, <2>1, Counted DEF OfPriv
  <2>3. PrivRefs(p) > 0
    BY <1>9, <2>2, PrivRefsAfter, Numbers
  <2> QED
    BY <1>1, <2>3 DEF PrivsRight, PrivRight
<1>12. priv' = P!Got(priv, p)
  BY <1>3, <1>4
<1>13. priv' \in [Privs -> PrivType] /\ PrivsRight' /\ FilesOfPrivs' = FilesOfPrivs
  BY <1>1, <1>10, <1>11, <1>12, PrivGets
<1>14. context'.at = "live" => file[context'.file].at \in {"open", "contexts"}
  BY <1>3, <1>7
<1>15. /\ mem' = mem /\ file' = file /\ show' = show /\ process_mutex' = process_mutex
       /\ context' \in ContextType
  BY <1>3, <1>7
<1> QED
  BY ONLY <1>1, <1>5, <1>8, <1>13, <1>14, <1>15, CallOnly

-----------------------------------------------------------------------------
(* The steps of the opens and closes of files.                             *)

\* A step that changes a file and the context, no entry and no call.
LEMMA FileOnly ==
    ASSUME ProcessInv,
           NEW f \in Files, NEW r \in FileType, file' = [file EXCEPT ![f] = r],
           mem' = mem, ioctl' = ioctl, show' = show,
           \/ file[f].at # "open"
           \/ \A u \in Ioctls : ioctl[u].at # "idle" => ioctl[u].file # f,
           process_mutex' \in Files \cup {"free"},
           context' \in ContextType, priv' \in [Privs -> PrivType], PrivsRight', FilesRight',
           ContextFits(context', Detachers', ContextUsers'),
           context'.at = "live" => file'[context'.file].at \in {"open", "contexts"},
           Unfreed'
    PROVE  ProcessInv'
<1>1. Typed /\ EntriesRight /\ CallsRight /\ ShowRight
  BY DEF ProcessInv
<1>2. Typed'
  BY <1>1 DEF Typed
<1>3. EntriesRight'
  <2>1. \A x \in Memory : P!Callers(x)' = P!Callers(x) /\ P!TakesOver(x)' = P!TakesOver(x)
    BY NumbersStay
  <2>2. \A x \in Memory : Reading(x)' = Reading(x)
    BY DEF Reading
  <2> QED
    BY <1>1, <2>1, <2>2, EntriesStay
<1>4. ContextRight'
  BY DEF ContextRight
<1>5. CallsRight'
  <2>1. /\ {} \in SUBSET Ioctls /\ ioctl' \in [Ioctls -> CallType]
        /\ \A u \in Ioctls \ {} : ioctl'[u] = ioctl[u]
        /\ \A u \in {} : CallRight(ioctl'[u], file', mem') /\ ioctl'[u].at # "map"
    BY <1>1 DEF Typed
  <2>2. \A u \in Ioctls \ {} : ioctl[u].at # "idle" =>
               file'[ioctl[u].file].at = "open" /\ file'[ioctl[u].file].of = file[ioctl[u].file].of
    <3> SUFFICES ASSUME NEW u \in Ioctls, ioctl[u].at # "idle"
                 PROVE  file'[ioctl[u].file].at = "open"
                        /\ file'[ioctl[u].file].of = file[ioctl[u].file].of
      OBVIOUS
    <3>1. PICK g \in Files : g = ioctl[u].file /\ file[g].at = "open"
      BY <1>1 DEF Typed, CallType, CallsRight, CallRight
    <3>2. g # f
      BY <3>1
    <3> QED
      BY <1>1, <3>1, <3>2 DEF Typed
  <2>3. \A u \in Ioctls \ {}, x \in Memory :
               ioctl[u].at \in P!UsesEntry /\ ioctl[u].e = x =>
                   mem'[x].of = mem[x].of /\ (mem'[x].at = "attached" <=> mem[x].at = "attached")
    OBVIOUS
  <2> QED
    BY <1>1, <2>1, <2>2, <2>3, CallsStay
<1>6. ShowRight'
  BY <1>1 DEF ShowRight
<1> QED
  BY <1>2, <1>3, <1>4, <1>5, <1>6 DEF ProcessInv

\* A file that is counted before and after
LEMMA CountedGoOn ==
    ASSUME Typed, FilesRight, NEW f \in Files, NEW r \in FileType, file' = [file EXCEPT ![f] = r],
           r.of = file[f].of, r.at \in P!Counted, file[f].at \in P!Counted,
           process_mutex' = process_mutex, FilesOfPrivs' = FilesOfPrivs
    PROVE  FilesRight'
<1>1. /\ file'[f] = r /\ \A g \in Files \ {f} : file'[g] = file[g]
      /\ \A p \in Privs : CountedFiles(p)' = CountedFiles(p) + CountedIn(r, p) - CountedIn(file[f], p)
  BY FilesGoOn, ZenonT(60) DEF P!Counted
<1>2. \A p \in Privs : CountedIn(r, p) = CountedIn(file[f], p) /\ CountedIn(r, p) \in Nat
  BY DEF CountedIn, P!Counted
<1>3. \A p \in Privs : CountedFiles(p)' = CountedFiles(p)
  BY <1>1, <1>2, Numbers
<1>4. \A p \in Privs : priv'[p].fds = priv[p].fds /\ priv'[p].mutex = priv[p].mutex
  BY DEF FilesOfPrivs
<1>5. \A g \in Files : /\ file'[g].at = "count" <=> file[g].at = "count"
                       /\ file'[g].at = "release" <=> file[g].at = "release"
                       /\ file'[g].of = file[g].of
  BY <1>1 DEF P!Counted
<1> QED
  BY <1>3, <1>4, <1>5 DEF FilesRight

\* A file whose next step is another
LEMMA FileGoesTo ==
    ASSUME Typed, NEW f \in Files, NEW next \in {"open", "contexts", "detach", "detached", "put",
                                                 "lock", "unlock"},
           P!FileGoes(f, next)
    PROVE  \E r \in FileType :
             /\ file' = [file EXCEPT ![f] = r]
             /\ r.at = next /\ r.of = file[f].of /\ r.next = file[f].next
<1> DEFINE r == [file[f] EXCEPT !.at = next]
<1>1. r \in FileType /\ r.at = next /\ r.of = file[f].of /\ r.next = file[f].next
  BY DEF Typed, FileType
<1>2. file' = [file EXCEPT ![f] = r]
  BY DEF P!FileGoes
<1> QED
  BY <1>1, <1>2

\* kgsl_release
LEMMA CloseKeeps ==
    ASSUME ProcessInv, NEW f \in Files, P!Close(f)  PROVE ProcessInv'
<1>1. Typed /\ FilesRight /\ PrivsRight /\ ContextRight /\ Unfreed /\ ProcessInv
  BY DEF ProcessInv
<1>2. /\ priv' = priv /\ process_mutex' = process_mutex /\ mem' = mem /\ ioctl' = ioctl
      /\ context' = context /\ show' = show
      /\ file[f].at = "open" /\ \A u \in Ioctls : ioctl[u].at # "idle" => ioctl[u].file # f
  BY DEF P!Close
<1>3. PICK r \in FileType :
        file' = [file EXCEPT ![f] = r] /\ r.at = "contexts" /\ r.of = file[f].of
  BY <1>1, FileGoesTo DEF P!Close
<1>4. /\ file'[f] = r /\ \A g \in Files \ {f} : file'[g] = file[g]
      /\ \A p \in Privs : FilesOf(p)' = FilesOf(p)
      /\ ContextFiles' = ContextFiles + PutsIt(r) - PutsIt(file[f])
      /\ FileDetachers' = FileDetachers + FileDetaching(r) - FileDetaching(file[f])
  BY <1>1, <1>2, <1>3, FilesGoOn
<1>5. PutsIt(r) = 0 /\ PutsIt(file[f]) = 0 /\ FileDetaching(r) = 0 /\ FileDetaching(file[f]) = 0
  BY <1>2, <1>3 DEF PutsIt, FileDetaching
<1>6. ContextUsers' = ContextUsers /\ Detachers' = Detachers
      /\ \A p \in Privs : EntriesOf(p)' = EntriesOf(p)
  BY <1>2, <1>4, <1>5, Numbers, NumbersStay DEF ContextUsers, Detachers
<1>7. \A p \in Privs : PrivRefs(p)' = PrivRefs(p)
  BY <1>2, <1>4, <1>6, PrivRefsAfter
<1>8. PrivsRight' /\ FilesOfPrivs' = FilesOfPrivs
  BY <1>1, <1>2, <1>7, PrivsStay
<1>9. FilesRight'
  BY <1>1, <1>2, <1>3, <1>8, CountedGoOn DEF P!Counted
<1>10. ContextFits(context', Detachers', ContextUsers')
       /\ (context'.at = "live" => file'[context'.file].at \in {"open", "contexts"})
  BY <1>1, <1>2, <1>3, <1>4, <1>6 DEF ContextRight, Typed, ContextType
<1>11. Unfreed'
  <2>1. /\ mem' \in [Memory -> EntryType]
        /\ \A g \in Files : file[g].at = "release" => file'[g] = file[g]
        /\ \A x \in Memory : mem'[x].at = "live" /\ ~mem'[x].pend =>
               mem[x].at = "live" /\ ~mem[x].pend /\ mem'[x].of = mem[x].of
    BY <1>1, <1>2, <1>4 DEF Typed
  <2> QED
    BY <1>1, <1>8, <2>1, UnfreedStays
<1>12. /\ file' = [file EXCEPT ![f] = r] /\ process_mutex' \in Files \cup {"free"}
       /\ context' \in ContextType /\ priv' \in [Privs -> PrivType]
  BY <1>1, <1>2, <1>3 DEF Typed
<1> QED
  BY ONLY <1>1, <1>2, <1>8, <1>9, <1>10, <1>11, <1>12, FileOnly

\* device_release_contexts
LEMMA CloseContextKeeps ==
    ASSUME ProcessInv, NEW f \in Files, P!CloseContext(f)  PROVE ProcessInv'
<1>1. Typed /\ FilesRight /\ PrivsRight /\ ContextRight /\ Unfreed /\ ProcessInv
  BY DEF ProcessInv
<1>2. /\ priv' = priv /\ process_mutex' = process_mutex /\ mem' = mem /\ ioctl' = ioctl
      /\ show' = show /\ file[f].at = "contexts"
  BY DEF P!CloseContext
<1>3. PICK next \in {"detach", "put", "lock"} :
        /\ P!FileGoes(f, next)
        /\ next = "lock" => context' = context /\ ~(context.at # "none" /\ context.file = f)
        /\ next # "lock" => context' = [context EXCEPT !.refs = @ + 1,
                                                       !.at = IF @ = "live" THEN "detached" ELSE @]
                            /\ context.at # "none"
        /\ next = "detach" => context.at = "live"
        /\ next = "put" => context.at # "live"
  BY DEF P!CloseContext
<1>4. PICK r \in FileType :
        file' = [file EXCEPT ![f] = r] /\ r.at = next /\ r.of = file[f].of
  BY <1>1, <1>3, FileGoesTo
<1>5. /\ file'[f] = r /\ \A g \in Files \ {f} : file'[g] = file[g]
      /\ \A p \in Privs : FilesOf(p)' = FilesOf(p)
      /\ ContextFiles' = ContextFiles + PutsIt(r) - PutsIt(file[f])
      /\ FileDetachers' = FileDetachers + FileDetaching(r) - FileDetaching(file[f])
  BY <1>1, <1>2, <1>3, <1>4, FilesGoOn
<1>6. /\ PutsIt(r) = (IF next = "lock" THEN 0 ELSE 1) /\ PutsIt(file[f]) = 0
      /\ FileDetaching(r) = (IF next = "detach" THEN 1 ELSE 0) /\ FileDetaching(file[f]) = 0
  BY <1>2, <1>3, <1>4 DEF PutsIt, FileDetaching
<1>7. /\ ContextUsers' = ContextUsers + (IF next = "lock" THEN 0 ELSE 1)
      /\ Detachers' = Detachers + (IF next = "detach" THEN 1 ELSE 0)
      /\ \A p \in Privs : EntriesOf(p)' = EntriesOf(p)
  BY <1>2, <1>5, <1>6, Numbers, NumbersStay DEF ContextUsers, Detachers
<1>8. /\ context' \in ContextType /\ context'.of = context.of /\ context'.file = context.file
      /\ context'.refs = context.refs + (IF next = "lock" THEN 0 ELSE 1)
      /\ context'.at = (IF next = "detach" THEN "detached" ELSE context.at)
  <2>1. PICK d \in ContextType : d = context
    BY <1>1 DEF Typed
  <2>2. CASE next = "lock"
    BY <1>3, <2>1, <2>2 DEF ContextType
  <2>3. CASE next # "lock"
    <3>1. PICK x \in Nat : x = d.refs + 1
      BY DEF ContextType
    <3>2. PICK y \in {"none", "live", "detached", "cancelled"} :
            y = IF d.at = "live" THEN "detached" ELSE d.at
      BY DEF ContextType
    <3>3. context' = [d EXCEPT !.refs = x, !.at = y]
      BY <1>3, <2>1, <2>3, <3>1, <3>2
    <3> DEFINE v == [d EXCEPT !.refs = x, !.at = y]
    <3>4. v \in ContextType /\ v.refs = x /\ v.at = y /\ v.of = d.of /\ v.file = d.file
      BY DEF ContextType
    <3> HIDE DEF v
    <3>5. context' = v
      BY <3>3 DEF v
    <3>6. y = IF next = "detach" THEN "detached" ELSE d.at
      BY <1>3, <2>1, <2>3, <3>2
    <3> QED
      BY <2>1, <2>3, <3>1, <3>4, <3>6, <3>5
  <2> QED
    BY <2>2, <2>3
<1>9. \A p \in Privs : PrivRefs(p)' = PrivRefs(p)
  <2>1. context'.at # "none" <=> context.at # "none"
    BY <1>3, <1>8
  <2>2. \A p \in Privs : OfPriv(context', p) = OfPriv(context, p) /\ OfPriv(show', p) = OfPriv(show, p)
    BY <1>2, <1>8, <2>1 DEF OfPriv
  <2> QED
    BY <1>5, <1>7, <2>2, PrivRefsAfter
<1>10. PrivsRight' /\ FilesOfPrivs' = FilesOfPrivs
  BY <1>1, <1>2, <1>9, PrivsStay
<1>11. FilesRight'
  <2>1. r.at \in P!Counted /\ file[f].at \in P!Counted
    BY <1>2, <1>3, <1>4 DEF P!Counted
  <2> QED
    BY <1>1, <1>2, <1>4, <1>10, <2>1, CountedGoOn
<1>12. ContextFits(context', Detachers', ContextUsers')
  <2>1. ContextFits(context, Detachers, ContextUsers) /\ context.refs \in Nat
    BY <1>1 DEF ContextRight, Typed, ContextType
  <2> QED
    BY <1>3, <1>7, <1>8, <2>1, NumbersAdd DEF ContextFits
<1>13. context'.at = "live" => file'[context'.file].at \in {"open", "contexts"}
  <2> SUFFICES ASSUME context'.at = "live"  PROVE  file'[context'.file].at \in {"open", "contexts"}
    OBVIOUS
  <2>1. context.at = "live" /\ next = "lock"
    BY <1>3, <1>8
  <2>2. context.file # f
    BY <1>3, <2>1
  <2> QED
    BY <1>1, <1>5, <1>8, <2>1, <2>2 DEF ContextRight, Typed, ContextType
<1>14. Unfreed'
  <2>1. /\ mem' \in [Memory -> EntryType]
        /\ \A g \in Files : file[g].at = "release" => file'[g] = file[g]
        /\ \A x \in Memory : mem'[x].at = "live" /\ ~mem'[x].pend =>
               mem[x].at = "live" /\ ~mem[x].pend /\ mem'[x].of = mem[x].of
    BY <1>1, <1>2, <1>5 DEF Typed
  <2> QED
    BY <1>1, <1>10, <2>1, UnfreedStays
<1>15. /\ file' = [file EXCEPT ![f] = r] /\ process_mutex' \in Files \cup {"free"}
       /\ context' \in ContextType /\ priv' \in [Privs -> PrivType] /\ file[f].at # "open"
  BY <1>1, <1>2, <1>4, <1>8 DEF Typed
<1> QED
  BY ONLY <1>1, <1>2, <1>10, <1>11, <1>12, <1>13, <1>14, <1>15, FileOnly

\* The file puts what its detach holds of the context.
LEMMA ClosePutsKeeps ==
    ASSUME ProcessInv, NEW f \in Files, P!ClosePuts(f)  PROVE ProcessInv'
<1>1. Typed /\ FilesRight /\ PrivsRight /\ ContextRight /\ Unfreed /\ ProcessInv
  BY DEF ProcessInv
<1>2. /\ process_mutex' = process_mutex /\ mem' = mem /\ ioctl' = ioctl
      /\ show' = show /\ file[f].at \in {"detached", "put"}
  BY DEF P!ClosePuts
<1>3. PICK n \in {1, 3} : n = IF file[f].at = "put" THEN 1 ELSE 3
  OBVIOUS
<1>4. P!PutsContext(n, f)
  BY <1>3 DEF P!ClosePuts
<1>5. PICK r \in FileType :
        file' = [file EXCEPT ![f] = r] /\ r.at = "lock" /\ r.of = file[f].of
  BY <1>1, FileGoesTo DEF P!ClosePuts
<1>6. /\ file'[f] = r /\ \A g \in Files \ {f} : file'[g] = file[g]
      /\ \A p \in Privs : FilesOf(p)' = FilesOf(p)
      /\ ContextFiles' = ContextFiles + PutsIt(r) - PutsIt(file[f])
      /\ FileDetachers' = FileDetachers + FileDetaching(r) - FileDetaching(file[f])
  BY <1>1, <1>2, <1>5, FilesGoOn
<1>7. /\ PutsIt(r) = 0 /\ PutsIt(file[f]) = 1 /\ FileDetaching(r) = 0
      /\ FileDetaching(file[f]) = IF n = 3 THEN 1 ELSE 0
  BY <1>2, <1>3, <1>5 DEF PutsIt, FileDetaching
<1>8. /\ ContextUsers' = ContextUsers - 1 /\ Detachers' = Detachers - (IF n = 3 THEN 1 ELSE 0)
      /\ \A p \in Privs : EntriesOf(p)' = EntriesOf(p)
  BY <1>2, <1>6, <1>7, Numbers, NumbersStay DEF ContextUsers, Detachers
<1>9. f \in Whos /\ f # "show"
  BY FiniteParts DEF Whos
<1>10. \A p \in Privs : FilesOf(p)' = FilesOf(p) /\ EntriesOf(p)' = EntriesOf(p)
  BY <1>6, <1>8
<1>11. /\ context' \in ContextType /\ priv' \in [Privs -> PrivType]
       /\ PrivsRight' /\ FilesOfPrivs' = FilesOfPrivs
       /\ ContextFits(context', Detachers', ContextUsers')
       /\ context'.at = "live" => context.at = "live" /\ context'.file = context.file
  BY <1>1, <1>2, <1>4, <1>8, <1>9, <1>10, ContextPuts
<1>12. FilesRight'
  <2>1. r.at \in P!Counted /\ file[f].at \in P!Counted
    BY <1>2, <1>5 DEF P!Counted
  <2> QED
    BY <1>1, <1>2, <1>5, <1>11, <2>1, CountedGoOn
<1>13. context'.at = "live" => file'[context'.file].at \in {"open", "contexts"}
  BY <1>1, <1>2, <1>6, <1>11 DEF ContextRight, ContextType
<1>14. Unfreed'
  <2>1. /\ mem' \in [Memory -> EntryType]
        /\ \A g \in Files : file[g].at = "release" => file'[g] = file[g]
        /\ \A x \in Memory : mem'[x].at = "live" /\ ~mem'[x].pend =>
               mem[x].at = "live" /\ ~mem[x].pend /\ mem'[x].of = mem[x].of
    BY <1>1, <1>2, <1>6 DEF Typed
  <2> QED
    BY <1>1, <1>11, <2>1, UnfreedStays
<1>15. /\ file' = [file EXCEPT ![f] = r] /\ process_mutex' \in Files \cup {"free"}
       /\ file[f].at # "open"
  BY <1>1, <1>2, <1>5 DEF Typed
<1> QED
  BY ONLY <1>1, <1>2, <1>11, <1>12, <1>13, <1>14, <1>15, FileOnly

\* A structure whose file count or mutex changes
LEMMA PrivFilesChange ==
    ASSUME Typed, PrivsRight, NEW p \in Privs, NEW q \in PrivType, priv' = [priv EXCEPT ![p] = q],
           q.refs = priv[p].refs, q.at = priv[p].at, q.putter = priv[p].putter,
           \A z \in Privs : PrivRefs(z)' = PrivRefs(z)
    PROVE  /\ priv' \in [Privs -> PrivType] /\ PrivsRight'
           /\ priv'[p] = q /\ \A z \in Privs \ {p} : priv'[z] = priv[z]
<1>1. priv' \in [Privs -> PrivType] /\ priv'[p] = q /\ \A z \in Privs \ {p} : priv'[z] = priv[z]
  BY DEF Typed
<1>2. \A z \in Privs : priv'[z].refs = priv[z].refs /\ priv'[z].at = priv[z].at
                       /\ priv'[z].putter = priv[z].putter
  BY <1>1
<1>3. PrivsRight'
  BY <1>2 DEF PrivsRight, PrivRight
<1> QED
  BY <1>1, <1>3

\* The context and the entries do not notice.
LEMMA FileQuiet ==
    ASSUME Typed, ContextRight, NEW f \in Files, NEW r \in FileType,
           file' = [file EXCEPT ![f] = r],
           mem' = mem, ioctl' = ioctl, context' = context, show' = show,
           file[f].at \in {"none", "count", "lock", "release", "unlock"},
           r.at \in {"none", "count", "open", "release", "unlock"}
    PROVE  /\ file'[f] = r /\ \A g \in Files \ {f} : file'[g] = file[g]
           /\ \A p \in Privs : PrivRefs(p)' = PrivRefs(p) + OfPriv(r, p) - OfPriv(file[f], p)
           /\ \A p \in Privs : CountedFiles(p)' = CountedFiles(p) + CountedIn(r, p) - CountedIn(file[f], p)
           /\ ContextFits(context', Detachers', ContextUsers')
           /\ context'.at = "live" => file'[context'.file].at \in {"open", "contexts"}
<1>1. /\ \A p \in Privs : CountedFiles(p)' = CountedFiles(p) + CountedIn(r, p) - CountedIn(file[f], p)
      /\ \A p \in Privs : FilesOf(p)' = FilesOf(p) + OfPriv(r, p) - OfPriv(file[f], p)
      /\ ContextFiles' = ContextFiles + PutsIt(r) - PutsIt(file[f])
      /\ FileDetachers' = FileDetachers + FileDetaching(r) - FileDetaching(file[f])
  BY FileMoves
<1>2. file'[f] = r /\ \A g \in Files \ {f} : file'[g] = file[g]
  BY DEF Typed
<1>3. PutsIt(r) = 0 /\ PutsIt(file[f]) = 0 /\ FileDetaching(r) = 0 /\ FileDetaching(file[f]) = 0
  BY DEF PutsIt, FileDetaching
<1>4. ContextUsers' = ContextUsers /\ Detachers' = Detachers
  BY <1>1, <1>3, Numbers, NumbersStay DEF ContextUsers, Detachers
<1>5. ContextFits(context', Detachers', ContextUsers')
  BY <1>4 DEF ContextRight
<1>6. context'.at = "live" => file'[context'.file].at \in {"open", "contexts"}
  BY <1>2 DEF ContextRight, Typed, ContextType
<1>7. \A p \in Privs : PrivRefs(p)' = PrivRefs(p) + OfPriv(r, p) - OfPriv(file[f], p)
  <2> SUFFICES ASSUME NEW p \in Privs
               PROVE  PrivRefs(p)' = PrivRefs(p) + OfPriv(r, p) - OfPriv(file[f], p)
    OBVIOUS
  <2>1. OfPriv(r, p) \in Nat /\ OfPriv(file[f], p) \in Nat
        /\ OfPriv(context', p) = OfPriv(context, p) /\ OfPriv(show', p) = OfPriv(show, p)
        /\ EntriesOf(p)' = EntriesOf(p)
    BY NumbersStay DEF OfPriv
  <2> QED
    BY <1>1, <2>1, PrivRefsAfter, Numbers, NumbersAfter
<1> QED
  BY <1>1, <1>2, <1>5, <1>6, <1>7

\* kgsl_process_private_close takes private_mutex.
LEMMA CloseCountsKeeps ==
    ASSUME ProcessInv, NEW f \in Files, P!CloseCounts(f)  PROVE ProcessInv'
<1>1. Typed /\ FilesRight /\ PrivsRight /\ ContextRight /\ Unfreed /\ ProcessInv
  BY DEF ProcessInv
<1>2. PICK p \in Privs : p = file[f].of
  BY <1>1 DEF Typed, FileType
<1>3. /\ process_mutex' = process_mutex /\ mem' = mem /\ ioctl' = ioctl
      /\ context' = context /\ show' = show /\ file[f].at = "lock" /\ priv[p].mutex = "free"
  BY <1>2 DEF P!CloseCounts
<1>4. priv[p].fds > 0 /\ priv[p].fds \in Nat /\ priv[p].fds = CountedFiles(p)
  BY <1>1, <1>2, <1>3, OpenCounted DEF P!Counted, Typed, PrivType
<1>5. PICK q \in PrivType :
        /\ priv' = [priv EXCEPT ![p] = q]
        /\ q.refs = priv[p].refs /\ q.at = priv[p].at /\ q.putter = priv[p].putter
        /\ q.fds = priv[p].fds - 1 /\ q.mutex = IF priv[p].fds = 1 THEN f ELSE "free"
  <2>1. PICK d \in PrivType : d = priv[p]
    BY <1>1 DEF Typed
  <2>2. PICK x \in Nat : x = d.fds - 1
    BY <1>4, <2>1
  <2>3. PICK y \in Files \cup {"free"} : y = IF d.fds = 1 THEN f ELSE "free"
    OBVIOUS
  <2> DEFINE q == [d EXCEPT !.fds = x, !.mutex = y]
  <2>4. q \in PrivType /\ q.refs = d.refs /\ q.at = d.at /\ q.putter = d.putter /\ q.fds = x /\ q.mutex = y
    BY DEF PrivType
  <2>5. priv' = [priv EXCEPT ![p] = q]
    BY <1>1, <1>2, <2>1, <2>2, <2>3 DEF P!CloseCounts, P!LastFile, Typed, PrivType
  <2> HIDE DEF q
  <2> QED
    BY <2>1, <2>2, <2>3, <2>4, <2>5
<1>6. PICK r \in FileType :
        /\ file' = [file EXCEPT ![f] = r] /\ r.of = p /\ r.next = 1
        /\ r.at = IF priv[p].fds = 1 THEN "release" ELSE "unlock"
  <2>1. PICK d \in FileType : d = file[f]
    BY <1>1 DEF Typed
  <2>2. PICK y \in {"release", "unlock"} : y = IF priv[p].fds = 1 THEN "release" ELSE "unlock"
    OBVIOUS
  <2> DEFINE r == [d EXCEPT !.at = y, !.next = 1]
  <2>3. file' = [file EXCEPT ![f] = r]
    BY <1>2, <2>1, <2>2 DEF P!CloseCounts, P!LastFile
  <2>4. r.of = d.of /\ r.next = 1 /\ r.at = y
    BY DEF FileType
  <2>5. r \in FileType
    <3>1. PICK z \in Nat \ {0} : z = 1
      OBVIOUS
    <3>2. [d EXCEPT !.at = y, !.next = z] \in FileType
      BY DEF FileType
    <3> QED
      BY <3>1, <3>2, Zenon
  <2> HIDE DEF r
  <2> QED
    BY <1>2, <2>1, <2>2, <2>3, <2>4, <2>5
<1>7. /\ file'[f] = r /\ \A g \in Files \ {f} : file'[g] = file[g]
      /\ \A z \in Privs : PrivRefs(z)' = PrivRefs(z) + OfPriv(r, z) - OfPriv(file[f], z)
      /\ \A z \in Privs : CountedFiles(z)' = CountedFiles(z) + CountedIn(r, z) - CountedIn(file[f], z)
      /\ ContextFits(context', Detachers', ContextUsers')
      /\ context'.at = "live" => file'[context'.file].at \in {"open", "contexts"}
  BY <1>1, <1>3, <1>6, FileQuiet
<1>8. \A z \in Privs : /\ OfPriv(r, z) = OfPriv(file[f], z) /\ OfPriv(r, z) \in Nat
                       /\ CountedIn(r, z) = 0 /\ CountedIn(file[f], z) = IF z = p THEN 1 ELSE 0
  BY <1>2, <1>3, <1>6 DEF OfPriv, CountedIn, P!Counted
<1>9. \A z \in Privs : /\ PrivRefs(z)' = PrivRefs(z)
                       /\ CountedFiles(z)' = CountedFiles(z) - IF z = p THEN 1 ELSE 0
  BY <1>7, <1>8, PrivRefsAfter, Numbers
<1>10. /\ priv' \in [Privs -> PrivType] /\ PrivsRight'
       /\ priv'[p] = q /\ \A z \in Privs \ {p} : priv'[z] = priv[z]
  BY <1>1, <1>5, <1>9, PrivFilesChange
<1>11. FilesRight'
  <2>1. \A g \in Files : file'[g].at = "count" <=> process_mutex' = g
    BY <1>1, <1>3, <1>6, <1>7 DEF FilesRight
  <2>2. \A z \in Privs, g \in Files :
          priv'[z].mutex = g <=> file'[g].at = "release" /\ file'[g].of = z
    <3> SUFFICES ASSUME NEW z \in Privs, NEW g \in Files
                 PROVE  priv'[z].mutex = g <=> file'[g].at = "release" /\ file'[g].of = z
      OBVIOUS
    <3>1. CASE z # p
      BY <1>1, <1>2, <1>3, <1>6, <1>7, <1>10, <3>1 DEF FilesRight
    <3>2. CASE z = p
      <4>1. ~(file[g].at = "release" /\ file[g].of = p)
        BY <1>1, <1>3, FiniteParts DEF FilesRight
      <4> QED
        BY <1>5, <1>6, <1>7, <1>10, <3>2, <4>1, FiniteParts
    <3> QED
      BY <3>1, <3>2
  <2>3. \A z \in Privs : priv'[z].fds = CountedFiles(z)'
    BY <1>1, <1>4, <1>5, <1>9, <1>10, Numbers DEF FilesRight
  <2> QED
    BY <2>1, <2>2, <2>3 DEF FilesRight
<1>12. Unfreed'
  <2> SUFFICES ASSUME NEW x \in Memory, mem[x].at = "live", ~mem[x].pend
               PROVE  priv'[mem[x].of].fds > 0 \/ Releasing(x)'
    BY <1>3 DEF Unfreed
  <2>1. mem[x].of \in Privs /\ x \in Nat /\ 1 <= x
    BY <1>1, FiniteParts DEF Typed, EntryType
  <2>2. priv[mem[x].of].fds > 0 \/ Releasing(x)
    BY <1>1 DEF Unfreed
  <2>3. Releasing(x) => Releasing(x)'
    BY <1>3, <1>7 DEF Releasing
  <2>4. CASE mem[x].of # p
    BY <1>10, <2>1, <2>2, <2>3, <2>4
  <2>5. CASE mem[x].of = p /\ priv[p].fds = 1
    BY <1>3, <1>6, <1>7, <2>1, <2>5 DEF Releasing
  <2>6. CASE mem[x].of = p /\ priv[p].fds # 1
    BY <1>4, <1>5, <1>10, <2>6
  <2> QED
    BY <2>4, <2>5, <2>6
<1>13. /\ file' = [file EXCEPT ![f] = r] /\ process_mutex' \in Files \cup {"free"}
       /\ context' \in ContextType /\ file[f].at # "open"
  BY <1>1, <1>3, <1>6 DEF Typed
<1> QED
  BY ONLY <1>1, <1>3, <1>7, <1>10, <1>11, <1>12, <1>13, FileOnly

\* The last file has looked at every entry.
LEMMA ReleaseEndsKeeps ==
    ASSUME ProcessInv, NEW f \in Files, P!ReleaseEnds(f)  PROVE ProcessInv'
<1>1. Typed /\ FilesRight /\ PrivsRight /\ ContextRight /\ Unfreed /\ ProcessInv
  BY DEF ProcessInv
<1>2. PICK p \in Privs : p = file[f].of
  BY <1>1 DEF Typed, FileType
<1>3. /\ process_mutex' = process_mutex /\ mem' = mem /\ ioctl' = ioctl
      /\ context' = context /\ show' = show /\ file[f].at = "release" /\ file[f].next \notin Memory
  BY DEF P!ReleaseEnds
<1>4. PICK q \in PrivType :
        /\ priv' = [priv EXCEPT ![p] = q]
        /\ q.refs = priv[p].refs /\ q.at = priv[p].at /\ q.putter = priv[p].putter
        /\ q.fds = priv[p].fds /\ q.mutex = "free"
  <2> DEFINE q == [priv[p] EXCEPT !.mutex = "free"]
  <2>1. priv' = [priv EXCEPT ![p] = q]
    BY <1>2 DEF P!ReleaseEnds
  <2>2. /\ q \in PrivType /\ q.refs = priv[p].refs /\ q.at = priv[p].at
        /\ q.putter = priv[p].putter /\ q.fds = priv[p].fds /\ q.mutex = "free"
    BY <1>1 DEF Typed, PrivType
  <2> QED
    BY <2>1, <2>2
<1>5. PICK r \in FileType :
        file' = [file EXCEPT ![f] = r] /\ r.of = p /\ r.at = "unlock"
  BY <1>1, <1>2, FileGoesTo DEF P!ReleaseEnds
<1>6. /\ file'[f] = r /\ \A g \in Files \ {f} : file'[g] = file[g]
      /\ \A z \in Privs : PrivRefs(z)' = PrivRefs(z) + OfPriv(r, z) - OfPriv(file[f], z)
      /\ \A z \in Privs : CountedFiles(z)' = CountedFiles(z) + CountedIn(r, z) - CountedIn(file[f], z)
      /\ ContextFits(context', Detachers', ContextUsers')
      /\ context'.at = "live" => file'[context'.file].at \in {"open", "contexts"}
  BY <1>1, <1>3, <1>5, FileQuiet
<1>7. \A z \in Privs : /\ OfPriv(r, z) = OfPriv(file[f], z) /\ OfPriv(r, z) \in Nat
                       /\ CountedIn(r, z) = 0 /\ CountedIn(file[f], z) = 0
  BY <1>2, <1>3, <1>5 DEF OfPriv, CountedIn, P!Counted
<1>8. \A z \in Privs : PrivRefs(z)' = PrivRefs(z) /\ CountedFiles(z)' = CountedFiles(z)
  BY <1>6, <1>7, PrivRefsAfter, Numbers
<1>9. /\ priv' \in [Privs -> PrivType] /\ PrivsRight'
      /\ priv'[p] = q /\ \A z \in Privs \ {p} : priv'[z] = priv[z]
  BY <1>1, <1>4, <1>8, PrivFilesChange
<1>10. FilesRight'
  <2>1. \A g \in Files : file'[g].at = "count" <=> process_mutex' = g
    BY <1>1, <1>3, <1>5, <1>6 DEF FilesRight
  <2>2. \A z \in Privs, g \in Files :
          priv'[z].mutex = g <=> file'[g].at = "release" /\ file'[g].of = z
    <3> SUFFICES ASSUME NEW z \in Privs, NEW g \in Files
                 PROVE  priv'[z].mutex = g <=> file'[g].at = "release" /\ file'[g].of = z
      OBVIOUS
    <3>1. CASE z # p
      BY <1>1, <1>2, <1>3, <1>5, <1>6, <1>9, <3>1 DEF FilesRight
    <3>2. CASE z = p
      <4>1. priv[p].mutex = f /\ (g # f => ~(file[g].at = "release" /\ file[g].of = p))
        BY <1>1, <1>2, <1>3 DEF FilesRight
      <4> QED
        BY <1>4, <1>5, <1>6, <1>9, <3>2, <4>1, FiniteParts
    <3> QED
      BY <3>1, <3>2
  <2>3. \A z \in Privs : priv'[z].fds = CountedFiles(z)'
    BY <1>1, <1>4, <1>8, <1>9 DEF FilesRight
  <2> QED
    BY <2>1, <2>2, <2>3 DEF FilesRight
<1>11. Unfreed'
  <2> SUFFICES ASSUME NEW x \in Memory, mem[x].at = "live", ~mem[x].pend
               PROVE  priv'[mem[x].of].fds > 0 \/ Releasing(x)'
    BY <1>3 DEF Unfreed
  <2>1. mem[x].of \in Privs
    BY <1>1 DEF Typed, EntryType
  <2>2. priv[mem[x].of].fds > 0 \/ Releasing(x)
    BY <1>1 DEF Unfreed
  <2>3. ~(file[f].next <= x)
    <3>1. PICK s \in Nat \ {0} : s = file[f].next
      BY <1>1 DEF Typed, FileType
    <3>2. PICK n \in Nat : Memory = 1 .. n
      BY FiniteParts
    <3>3. s \notin 1 .. n /\ x \in 1 .. n
      BY <1>3, <3>1, <3>2
    <3>4. ~(s <= x)
      BY <3>1, <3>2, <3>3
    <3> QED
      BY <3>1, <3>4
  <2>4. Releasing(x) => Releasing(x)'
    BY <1>3, <1>6, <2>3 DEF Releasing
  <2>5. priv'[mem[x].of].fds = priv[mem[x].of].fds
    BY <1>4, <1>9, <2>1
  <2> QED
    BY <2>2, <2>4, <2>5
<1>12. /\ file' = [file EXCEPT ![f] = r] /\ process_mutex' \in Files \cup {"free"}
       /\ context' \in ContextType /\ file[f].at # "open"
  BY <1>1, <1>3, <1>5 DEF Typed
<1> QED
  BY ONLY <1>1, <1>3, <1>6, <1>9, <1>10, <1>11, <1>12, FileOnly

\* A closed file puts its reference of the structure.
LEMMA CloseEndsKeeps ==
    ASSUME ProcessInv, NEW f \in Files, P!CloseEnds(f)  PROVE ProcessInv'
<1>1. Typed /\ FilesRight /\ PrivsRight /\ ContextRight /\ Unfreed /\ ProcessInv
  BY DEF ProcessInv
<1>2. PICK p \in Privs : p = file[f].of
  BY <1>1 DEF Typed, FileType
<1>3. /\ process_mutex' = process_mutex /\ mem' = mem /\ ioctl' = ioctl
      /\ context' = context /\ show' = show /\ file[f].at = "unlock"
      /\ priv' = P!Dropped(priv, p, f)
  BY <1>2 DEF P!CloseEnds
<1>4. PICK r \in FileType : file' = [file EXCEPT ![f] = r] /\ r.at = "none"
  BY Nothings DEF P!CloseEnds, P!NoFile
<1>5. /\ file'[f] = r /\ \A g \in Files \ {f} : file'[g] = file[g]
      /\ \A z \in Privs : PrivRefs(z)' = PrivRefs(z) + OfPriv(r, z) - OfPriv(file[f], z)
      /\ \A z \in Privs : CountedFiles(z)' = CountedFiles(z) + CountedIn(r, z) - CountedIn(file[f], z)
      /\ ContextFits(context', Detachers', ContextUsers')
      /\ context'.at = "live" => file'[context'.file].at \in {"open", "contexts"}
  BY <1>1, <1>3, <1>4, FileQuiet
<1>6. \A z \in Privs : /\ OfPriv(r, z) = 0 /\ OfPriv(file[f], z) = (IF z = p THEN 1 ELSE 0)
                       /\ CountedIn(r, z) = 0 /\ CountedIn(file[f], z) = 0
  BY <1>2, <1>3, <1>4 DEF OfPriv, CountedIn, P!Counted
<1>7. /\ \A z \in Privs : PrivRefs(z)' = PrivRefs(z) - (IF z = p THEN 1 ELSE 0)
      /\ \A z \in Privs : CountedFiles(z)' = CountedFiles(z)
  BY <1>5, <1>6, PrivRefsAfter, Numbers
<1>8. /\ PrivRefs(p)' \in Nat /\ PrivRefs(p)' = PrivRefs(p) - 1
      /\ \A z \in Privs \ {p} : PrivRefs(z)' = PrivRefs(z)
      /\ f \in Whos /\ f # "show"
  BY <1>7, PrivRefsAfter, FiniteParts DEF Whos
<1>9. priv' \in [Privs -> PrivType] /\ PrivsRight' /\ FilesOfPrivs' = FilesOfPrivs
  BY <1>1, <1>3, <1>8, PrivDrops
<1>10. FilesRight'
  <2>1. \A z \in Privs : priv'[z].fds = priv[z].fds /\ priv'[z].mutex = priv[z].mutex
    BY <1>9 DEF FilesOfPrivs
  <2> QED
    BY <1>1, <1>3, <1>4, <1>5, <1>7, <2>1 DEF FilesRight
<1>11. Unfreed'
  <2>1. /\ mem' \in [Memory -> EntryType]
        /\ \A g \in Files : file[g].at = "release" => file'[g] = file[g]
        /\ \A x \in Memory : mem'[x].at = "live" /\ ~mem'[x].pend =>
               mem[x].at = "live" /\ ~mem[x].pend /\ mem'[x].of = mem[x].of
    BY <1>1, <1>3, <1>5 DEF Typed
  <2> QED
    BY <1>1, <1>9, <2>1, UnfreedStays
<1>12. /\ file' = [file EXCEPT ![f] = r] /\ process_mutex' \in Files \cup {"free"}
       /\ context' \in ContextType /\ file[f].at # "open"
  BY <1>1, <1>3, <1>4 DEF Typed
<1> QED
  BY ONLY <1>1, <1>3, <1>5, <1>9, <1>10, <1>11, <1>12, FileOnly

\* kgsl_process_private_new finds the structure.
LEMMA OpenFindsKeeps ==
    ASSUME ProcessInv, NEW f \in Files, P!OpenFinds(f)  PROVE ProcessInv'
<1>1. Typed /\ FilesRight /\ PrivsRight /\ ContextRight /\ Unfreed /\ ProcessInv
  BY DEF ProcessInv
<1>2. PICK p \in Privs :
        /\ priv[p].refs > 0 /\ priv' = P!Got(priv, p)
        /\ file' = [file EXCEPT ![f] = [@ EXCEPT !.at = "count", !.of = p]]
  BY DEF P!OpenFinds, P!Listed, P!CanOpen, P!Live
<1>3. /\ process_mutex' = f /\ mem' = mem /\ ioctl' = ioctl
      /\ context' = context /\ show' = show /\ file[f].at = "none" /\ process_mutex = "free"
  BY DEF P!OpenFinds
<1>4. PICK r \in FileType : file' = [file EXCEPT ![f] = r] /\ r.at = "count" /\ r.of = p
  <2> DEFINE r == [file[f] EXCEPT !.at = "count", !.of = p]
  <2>1. file' = [file EXCEPT ![f] = r]
    BY <1>2
  <2>2. r \in FileType /\ r.at = "count" /\ r.of = p
    BY <1>1 DEF Typed, FileType
  <2> QED
    BY <2>1, <2>2
<1>5. /\ file'[f] = r /\ \A g \in Files \ {f} : file'[g] = file[g]
      /\ \A z \in Privs : PrivRefs(z)' = PrivRefs(z) + OfPriv(r, z) - OfPriv(file[f], z)
      /\ \A z \in Privs : CountedFiles(z)' = CountedFiles(z) + CountedIn(r, z) - CountedIn(file[f], z)
      /\ ContextFits(context', Detachers', ContextUsers')
      /\ context'.at = "live" => file'[context'.file].at \in {"open", "contexts"}
  BY <1>1, <1>3, <1>4, FileQuiet
<1>6. \A z \in Privs : /\ OfPriv(r, z) = (IF z = p THEN 1 ELSE 0) /\ OfPriv(file[f], z) = 0
                       /\ CountedIn(r, z) = 0 /\ CountedIn(file[f], z) = 0
  BY <1>3, <1>4 DEF OfPriv, CountedIn, P!Counted
<1>7. /\ \A z \in Privs : PrivRefs(z)' = PrivRefs(z) + (IF z = p THEN 1 ELSE 0)
      /\ \A z \in Privs : CountedFiles(z)' = CountedFiles(z)
  BY <1>5, <1>6, PrivRefsAfter, Numbers
<1>8. PrivRefs(p)' = PrivRefs(p) + 1 /\ \A z \in Privs \ {p} : PrivRefs(z)' = PrivRefs(z)
  BY <1>7, PrivRefsAfter
<1>9. priv' \in [Privs -> PrivType] /\ PrivsRight' /\ FilesOfPrivs' = FilesOfPrivs
  BY <1>1, <1>2, <1>8, PrivGets
<1>10. FilesRight'
  <2>1. \A z \in Privs : priv'[z].fds = priv[z].fds /\ priv'[z].mutex = priv[z].mutex
    BY <1>9 DEF FilesOfPrivs
  <2>2. \A g \in Files : file[g].at # "count"
    BY <1>1, <1>3, FiniteParts DEF FilesRight
  <2> QED
    BY <1>1, <1>3, <1>4, <1>5, <1>7, <2>1, <2>2 DEF FilesRight
<1>11. Unfreed'
  <2>1. /\ mem' \in [Memory -> EntryType]
        /\ \A g \in Files : file[g].at = "release" => file'[g] = file[g]
        /\ \A x \in Memory : mem'[x].at = "live" /\ ~mem'[x].pend =>
               mem[x].at = "live" /\ ~mem[x].pend /\ mem'[x].of = mem[x].of
    BY <1>1, <1>3, <1>5 DEF Typed
  <2> QED
    BY <1>1, <1>9, <2>1, UnfreedStays
<1>12. /\ file' = [file EXCEPT ![f] = r] /\ process_mutex' \in Files \cup {"free"}
       /\ context' \in ContextType /\ file[f].at # "open"
  BY <1>1, <1>3, <1>4 DEF Typed
<1>13. mem' = mem /\ ioctl' = ioctl /\ show' = show
  BY <1>3
<1> QED
  BY ONLY <1>1, <1>13, <1>5, <1>9, <1>10, <1>11, <1>12, FileOnly

\* The file is counted under private_mutex.
LEMMA OpenCountsKeeps ==
    ASSUME ProcessInv, NEW f \in Files, P!OpenCounts(f)  PROVE ProcessInv'
<1>1. Typed /\ FilesRight /\ PrivsRight /\ ContextRight /\ Unfreed /\ ProcessInv
  BY DEF ProcessInv
<1>2. PICK p \in Privs : p = file[f].of
  BY <1>1 DEF Typed, FileType
<1>3. /\ process_mutex' = "free" /\ mem' = mem /\ ioctl' = ioctl
      /\ context' = context /\ show' = show /\ file[f].at = "count"
  BY DEF P!OpenCounts
<1>4. PICK q \in PrivType :
        /\ priv' = [priv EXCEPT ![p] = q]
        /\ q.refs = priv[p].refs /\ q.at = priv[p].at /\ q.putter = priv[p].putter
        /\ q.fds = priv[p].fds + 1 /\ q.mutex = priv[p].mutex
  <2> DEFINE q == [priv[p] EXCEPT !.fds = @ + 1]
  <2>1. priv' = [priv EXCEPT ![p] = q]
    BY <1>2 DEF P!OpenCounts
  <2>2. /\ q \in PrivType /\ q.refs = priv[p].refs /\ q.at = priv[p].at
        /\ q.putter = priv[p].putter /\ q.fds = priv[p].fds + 1 /\ q.mutex = priv[p].mutex
    BY <1>1 DEF Typed, PrivType
  <2> QED
    BY <2>1, <2>2
<1>5. PICK r \in FileType : file' = [file EXCEPT ![f] = r] /\ r.of = p /\ r.at = "open"
  BY <1>1, <1>2, FileGoesTo DEF P!OpenCounts
<1>6. /\ file'[f] = r /\ \A g \in Files \ {f} : file'[g] = file[g]
      /\ \A z \in Privs : PrivRefs(z)' = PrivRefs(z) + OfPriv(r, z) - OfPriv(file[f], z)
      /\ \A z \in Privs : CountedFiles(z)' = CountedFiles(z) + CountedIn(r, z) - CountedIn(file[f], z)
      /\ ContextFits(context', Detachers', ContextUsers')
      /\ context'.at = "live" => file'[context'.file].at \in {"open", "contexts"}
  BY <1>1, <1>3, <1>5, FileQuiet
<1>7. \A z \in Privs : /\ OfPriv(r, z) = OfPriv(file[f], z) /\ OfPriv(r, z) \in Nat
                       /\ CountedIn(r, z) = (IF z = p THEN 1 ELSE 0) /\ CountedIn(file[f], z) = 0
  BY <1>2, <1>3, <1>5 DEF OfPriv, CountedIn, P!Counted
<1>8. \A z \in Privs : /\ PrivRefs(z)' = PrivRefs(z)
                       /\ CountedFiles(z)' = CountedFiles(z) + (IF z = p THEN 1 ELSE 0)
  BY <1>6, <1>7, PrivRefsAfter, Numbers
<1>9. /\ priv' \in [Privs -> PrivType] /\ PrivsRight'
      /\ priv'[p] = q /\ \A z \in Privs \ {p} : priv'[z] = priv[z]
  BY <1>1, <1>4, <1>8, PrivFilesChange
<1>10. FilesRight'
  <2>1. \A g \in Files : file'[g].at = "count" <=> process_mutex' = g
    BY <1>1, <1>3, <1>5, <1>6, FiniteParts DEF FilesRight
  <2>2. \A z \in Privs, g \in Files :
          priv'[z].mutex = g <=> file'[g].at = "release" /\ file'[g].of = z
    <3>1. \A z \in Privs : priv'[z].mutex = priv[z].mutex
      BY <1>4, <1>9
    <3> QED
      BY <1>1, <1>3, <1>5, <1>6, <3>1 DEF FilesRight
  <2>3. \A z \in Privs : priv'[z].fds = CountedFiles(z)'
    BY <1>1, <1>4, <1>8, <1>9, Numbers DEF FilesRight
  <2> QED
    BY <2>1, <2>2, <2>3 DEF FilesRight
<1>11. Unfreed'
  <2> SUFFICES ASSUME NEW x \in Memory, mem[x].at = "live", ~mem[x].pend
               PROVE  priv'[mem[x].of].fds > 0 \/ Releasing(x)'
    BY <1>3 DEF Unfreed
  <2>1. mem[x].of \in Privs /\ priv[p].fds \in Nat
    BY <1>1 DEF Typed, EntryType, PrivType
  <2>2. priv[mem[x].of].fds > 0 \/ Releasing(x)
    BY <1>1 DEF Unfreed
  <2>3. Releasing(x) => Releasing(x)'
    BY <1>3, <1>6 DEF Releasing
  <2>4. priv[mem[x].of].fds > 0 => priv'[mem[x].of].fds > 0
    BY <1>4, <1>9, <2>1
  <2> QED
    BY <2>2, <2>3, <2>4
<1>12. /\ file' = [file EXCEPT ![f] = r] /\ process_mutex' \in Files \cup {"free"}
       /\ context' \in ContextType /\ file[f].at # "open"
  BY <1>1, <1>3, <1>5 DEF Typed
<1>13. mem' = mem /\ ioctl' = ioctl /\ show' = show
  BY <1>3
<1> QED
  BY ONLY <1>1, <1>13, <1>6, <1>9, <1>10, <1>11, <1>12, FileOnly

\* Nothing is of a structure that is not there.
LEMMA NoneOfNone ==
    ASSUME Typed, FilesRight, PrivsRight, NEW p \in Privs, priv[p].refs = 0
    PROVE  PrivRefs(p) = 0 /\ CountedFiles(p) = 0 /\ priv[p].fds = 0
           /\ \A g \in Files : file[g].at # "none" => file[g].of # p
<1>1. PrivRefs(p) = 0
  BY DEF PrivsRight, PrivRight
<1>2. FilesOf(p) = 0
  BY <1>1, PrivRefsAfter, Numbers
<1>3. ASSUME NEW g \in Files, file[g].at # "none", file[g].of = p  PROVE FALSE
  <2>1. PICK r : r = file[g]
    OBVIOUS
  <2>2. OfPriv(r, p) = 1
    BY <1>3, <2>1 DEF OfPriv
  <2>3. FilesOf(p) >= OfPriv(r, p)
    BY <2>1, Counted
  <2> QED
    BY <1>2, <2>2, <2>3
<1>4. {g \in P!OfFiles(p) : file[g].at \in P!Counted} = {}
  BY <1>3 DEF P!OfFiles
<1>5. CountedFiles(p) = 0
  BY <1>4, FS_EmptySet DEF CountedFiles
<1> QED
  BY <1>1, <1>3, <1>5 DEF FilesRight

\* kgsl_process_private_new makes one.
LEMMA OpenMakesKeeps ==
    ASSUME ProcessInv, NEW f \in Files, P!OpenMakes(f)  PROVE ProcessInv'
<1>1. Typed /\ FilesRight /\ PrivsRight /\ ContextRight /\ Unfreed /\ ProcessInv
  BY DEF ProcessInv
<1>2. PICK p \in Privs :
        /\ priv' = [priv EXCEPT ![p] = [P!NoPriv EXCEPT !.at = "live", !.refs = 1, !.fds = 1]]
        /\ file' = [file EXCEPT ![f] = [@ EXCEPT !.at = "open", !.of = p]]
  BY DEF P!OpenMakes
<1>3. /\ process_mutex' = process_mutex /\ mem' = mem /\ ioctl' = ioctl
      /\ context' = context /\ show' = show /\ file[f].at = "none" /\ process_mutex = "free"
      /\ \A z \in Privs : priv[z].at = "none"
  BY DEF P!OpenMakes, P!Listed
<1>4. \A z \in Privs : priv[z].refs = 0 /\ PrivRefs(z) = 0 /\ CountedFiles(z) = 0
                       /\ \A g \in Files : file[g].at # "none" => file[g].of # z
  <2>1. \A z \in Privs : priv[z].refs = 0
    BY <1>1, <1>3, PrivRefsType DEF PrivsRight, PrivRight
  <2> QED
    BY <1>1, <2>1, NoneOfNone
<1>5. PICK q \in PrivType :
        /\ priv' = [priv EXCEPT ![p] = q]
        /\ q.refs = 1 /\ q.at = "live" /\ q.fds = 1 /\ q.mutex = "free"
  <2>1. PICK d \in PrivType : d = P!NoPriv /\ d.mutex = "free"
    BY Nothings DEF P!NoPriv
  <2> DEFINE q == [d EXCEPT !.at = "live", !.refs = 1, !.fds = 1]
  <2>2. q \in PrivType /\ q.refs = 1 /\ q.at = "live" /\ q.fds = 1 /\ q.mutex = "free"
    BY <2>1 DEF PrivType
  <2>3. priv' = [priv EXCEPT ![p] = q]
    BY <1>2, <2>1
  <2> QED
    BY <2>2, <2>3
<1>6. PICK r \in FileType : file' = [file EXCEPT ![f] = r] /\ r.at = "open" /\ r.of = p
  <2> DEFINE r == [file[f] EXCEPT !.at = "open", !.of = p]
  <2>1. file' = [file EXCEPT ![f] = r]
    BY <1>2
  <2>2. r \in FileType /\ r.at = "open" /\ r.of = p
    BY <1>1 DEF Typed, FileType
  <2> QED
    BY <2>1, <2>2
<1>7. /\ file'[f] = r /\ \A g \in Files \ {f} : file'[g] = file[g]
      /\ \A z \in Privs : PrivRefs(z)' = PrivRefs(z) + OfPriv(r, z) - OfPriv(file[f], z)
      /\ \A z \in Privs : CountedFiles(z)' = CountedFiles(z) + CountedIn(r, z) - CountedIn(file[f], z)
      /\ ContextFits(context', Detachers', ContextUsers')
      /\ context'.at = "live" => file'[context'.file].at \in {"open", "contexts"}
  BY <1>1, <1>3, <1>6, FileQuiet
<1>8. \A z \in Privs : /\ OfPriv(r, z) = (IF z = p THEN 1 ELSE 0) /\ OfPriv(file[f], z) = 0
                       /\ CountedIn(r, z) = (IF z = p THEN 1 ELSE 0) /\ CountedIn(file[f], z) = 0
  BY <1>3, <1>6 DEF OfPriv, CountedIn, P!Counted
<1>9. \A z \in Privs : PrivRefs(z)' = (IF z = p THEN 1 ELSE 0)
                       /\ CountedFiles(z)' = (IF z = p THEN 1 ELSE 0)
  BY <1>4, <1>7, <1>8
<1>10. /\ priv' \in [Privs -> PrivType] /\ priv'[p] = q
       /\ \A z \in Privs \ {p} : priv'[z] = priv[z]
  BY <1>1, <1>5 DEF Typed
<1>11. PrivsRight'
  <2>1. PrivRight(priv'[p], PrivRefs(p)')
    BY <1>5, <1>9, <1>10 DEF PrivRight
  <2>2. \A z \in Privs \ {p} : PrivRight(priv'[z], PrivRefs(z)')
    BY <1>3, <1>4, <1>9, <1>10 DEF PrivRight
  <2>3. \A y, z \in Privs : priv'[y].at # "none" /\ priv'[z].at # "none" => y = z
    BY <1>3, <1>10
  <2> QED
    BY <2>1, <2>2, <2>3 DEF PrivsRight
<1>12. FilesRight'
  <2>1. \A g \in Files : file'[g].at = "count" <=> process_mutex' = g
    BY <1>1, <1>3, <1>6, <1>7 DEF FilesRight
  <2>2. \A z \in Privs, g \in Files :
          priv'[z].mutex = g <=> file'[g].at = "release" /\ file'[g].of = z
    BY <1>1, <1>3, <1>4, <1>5, <1>6, <1>7, <1>10, FiniteParts DEF FilesRight
  <2>3. \A z \in Privs : priv'[z].fds = CountedFiles(z)'
    BY <1>1, <1>4, <1>5, <1>9, <1>10 DEF FilesRight
  <2> QED
    BY <2>1, <2>2, <2>3 DEF FilesRight
<1>13. Unfreed'
  <2> SUFFICES ASSUME NEW x \in Memory, mem[x].at = "live", ~mem[x].pend
               PROVE  priv'[mem[x].of].fds > 0 \/ Releasing(x)'
    BY <1>3 DEF Unfreed
  <2>1. mem[x].of \in Privs
    BY <1>1 DEF Typed, EntryType
  <2>2. priv[mem[x].of].fds > 0 \/ Releasing(x)
    BY <1>1 DEF Unfreed
  <2>3. Releasing(x) => Releasing(x)'
    BY <1>3, <1>7 DEF Releasing
  <2>4. priv[mem[x].of].fds > 0 => priv'[mem[x].of].fds > 0
    BY <1>5, <1>10, <2>1
  <2> QED
    BY <2>2, <2>3, <2>4
<1>14. /\ file' = [file EXCEPT ![f] = r] /\ process_mutex' \in Files \cup {"free"}
       /\ context' \in ContextType /\ file[f].at # "open" /\ priv' \in [Privs -> PrivType]
       /\ mem' = mem /\ ioctl' = ioctl /\ show' = show
  BY <1>1, <1>3, <1>6, <1>10 DEF Typed
<1> QED
  BY ONLY <1>1, <1>7, <1>11, <1>12, <1>13, <1>14, FileOnly

-----------------------------------------------------------------------------
(* The steps of an entry and of the reader alone.                          *)

\* A step that changes an entry, the reader and the context, no file and no call.
LEMMA EntryOnly ==
    ASSUME ProcessInv,
           NEW e \in Memory, NEW m \in EntryType, mem' = [mem EXCEPT ![e] = m],
           ioctl' = ioctl, file' = file, process_mutex' = process_mutex,
           show' \in ShowType, ShowRight',
           \A x \in Memory \ {e} : Reading(x)' = Reading(x),
           EntryRight(m, P!Callers(e), P!TakesOver(e), Reading(e)'),
           P!Callers(e) > 0 => m.of = mem[e].of /\ (m.at = "attached" <=> mem[e].at = "attached"),
           m.at = "live" /\ ~m.pend => mem[e].at = "live" /\ ~mem[e].pend /\ m.of = mem[e].of,
           context' \in ContextType, priv' \in [Privs -> PrivType], PrivsRight',
           FilesOfPrivs' = FilesOfPrivs, ContextFits(context', Detachers', ContextUsers'),
           context'.at = "live" => context.at = "live" /\ context'.file = context.file
    PROVE  ProcessInv'
<1>1. Typed /\ FilesRight /\ EntriesRight /\ ContextRight /\ CallsRight /\ Unfreed
  BY DEF ProcessInv
<1>2. mem'[e] = m /\ (\A x \in Memory \ {e} : mem'[x] = mem[x]) /\ mem' \in [Memory -> EntryType]
  BY <1>1 DEF Typed
<1>3. Typed'
  BY <1>1, <1>2 DEF Typed
<1>4. FilesRight'
  BY <1>1, FilesStay
<1>5. EntriesRight'
  <2>1. \A x \in Memory : P!Callers(x)' = P!Callers(x) /\ P!TakesOver(x)' = P!TakesOver(x)
    BY NumbersStay
  <2>2. EntryRight(m, P!Callers(e)', P!TakesOver(e)', Reading(e)')
    BY <2>1
  <2>3. \A x \in Memory \ {e} : P!Callers(x)' = P!Callers(x) /\ P!TakesOver(x)' = P!TakesOver(x)
                                /\ Reading(x)' = Reading(x)
    BY <2>1
  <2> QED
    BY <1>1, <2>2, <2>3, EntriesMove
<1>6. ContextRight'
  BY <1>1 DEF ContextRight
<1>7. CallsRight'
  <2>1. /\ {} \in SUBSET Ioctls /\ ioctl' \in [Ioctls -> CallType]
        /\ \A u \in Ioctls \ {} : ioctl'[u] = ioctl[u]
        /\ \A u \in {} : CallRight(ioctl'[u], file', mem') /\ ioctl'[u].at # "map"
    BY <1>1 DEF Typed
  <2>2. \A u \in Ioctls \ {} : ioctl[u].at # "idle" =>
               file'[ioctl[u].file].at = "open" /\ file'[ioctl[u].file].of = file[ioctl[u].file].of
    BY <1>1 DEF CallsRight, CallRight
  <2>3. \A u \in Ioctls \ {}, x \in Memory :
               ioctl[u].at \in P!UsesEntry /\ ioctl[u].e = x =>
                   mem'[x].of = mem[x].of /\ (mem'[x].at = "attached" <=> mem[x].at = "attached")
    <3> SUFFICES ASSUME NEW u \in Ioctls, NEW x \in Memory,
                        ioctl[u].at \in P!UsesEntry, ioctl[u].e = x
                 PROVE  mem'[x].of = mem[x].of /\ (mem'[x].at = "attached" <=> mem[x].at = "attached")
      OBVIOUS
    <3>1. P!Callers(x) > 0
      BY UsersCount
    <3> QED
      BY <1>2, <3>1
  <2> QED
    BY <1>1, <2>1, <2>2, <2>3, CallsStay
<1>8. Unfreed'
  <2>1. /\ \A g \in Files : file[g].at = "release" => file'[g] = file[g]
        /\ \A x \in Memory : mem'[x].at = "live" /\ ~mem'[x].pend =>
               mem[x].at = "live" /\ ~mem[x].pend /\ mem'[x].of = mem[x].of
    BY <1>2
  <2> QED
    BY <1>1, <1>2, <2>1, UnfreedStays
<1> QED
  BY <1>3, <1>4, <1>5, <1>6, <1>7, <1>8 DEF ProcessInv

\* A step of the reader while he holds no entry.
LEMMA ShowOnly ==
    ASSUME ProcessInv,
           mem' = mem, ioctl' = ioctl, file' = file, process_mutex' = process_mutex,
           context' = context, show' \in ShowType, show.at # "hold", show'.at # "hold",
           priv' \in [Privs -> PrivType], PrivsRight', FilesOfPrivs' = FilesOfPrivs
    PROVE  ProcessInv'
<1>1. Typed /\ FilesRight /\ EntriesRight /\ ContextRight /\ CallsRight /\ Unfreed
  BY DEF ProcessInv
<1>2. Typed'
  BY <1>1 DEF Typed
<1>3. FilesRight'
  BY <1>1, FilesStay
<1>4. EntriesRight'
  <2>1. \A x \in Memory : P!Callers(x)' = P!Callers(x) /\ P!TakesOver(x)' = P!TakesOver(x)
    BY NumbersStay
  <2>2. \A x \in Memory : Reading(x)' = Reading(x)
    BY DEF Reading
  <2> QED
    BY <1>1, <2>1, <2>2, EntriesStay
<1>5. ContextRight'
  <2>1. ContextUsers' = ContextUsers /\ Detachers' = Detachers
    BY NumbersStay DEF ContextUsers, Detachers
  <2> QED
    BY <1>1, <2>1 DEF ContextRight
<1>6. CallsRight'
  BY <1>1 DEF CallsRight
<1>7. ShowRight'
  BY DEF ShowRight
<1>8. Unfreed'
  <2>1. /\ mem' \in [Memory -> EntryType]
        /\ \A g \in Files : file[g].at = "release" => file'[g] = file[g]
        /\ \A x \in Memory : mem'[x].at = "live" /\ ~mem'[x].pend =>
               mem[x].at = "live" /\ ~mem[x].pend /\ mem'[x].of = mem[x].of
    BY <1>1 DEF Typed
  <2> QED
    BY <1>1, <2>1, UnfreedStays
<1> QED
  BY <1>2, <1>3, <1>4, <1>5, <1>6, <1>7, <1>8 DEF ProcessInv

\* An entry changes that has the same structure.
LEMMA EntryAlone ==
    ASSUME Typed, PrivsRight, NEW e \in Memory, NEW m \in EntryType, mem' = [mem EXCEPT ![e] = m],
           m.of = mem[e].of, m.at # "none", mem[e].at # "none",
           file' = file, show'.of = show.of, show'.at # "none" <=> show.at # "none"
    PROVE  /\ \A p \in Privs : FilesOf(p)' = FilesOf(p) /\ EntriesOf(p)' = EntriesOf(p)
           /\ EventEntries' = EventEntries + HasEvent(m) - HasEvent(mem[e])
           /\ priv' = priv /\ context' = context =>
                priv' \in [Privs -> PrivType] /\ PrivsRight' /\ FilesOfPrivs' = FilesOfPrivs
<1>1. /\ \A p \in Privs : EntriesOf(p)' = EntriesOf(p) + OfPriv(m, p) - OfPriv(mem[e], p)
      /\ EventEntries' = EventEntries + HasEvent(m) - HasEvent(mem[e])
      /\ \A p \in Privs : FilesOf(p)' = FilesOf(p)
  BY EntryMoves, NumbersStay
<1>2. \A p \in Privs : OfPriv(m, p) = OfPriv(mem[e], p) /\ OfPriv(m, p) \in Nat
                       /\ OfPriv(show', p) = OfPriv(show, p)
  BY DEF OfPriv
<1>3. \A p \in Privs : EntriesOf(p)' = EntriesOf(p)
  BY <1>1, <1>2, Numbers
<1>4. context' = context => \A p \in Privs : PrivRefs(p)' = PrivRefs(p)
  BY <1>1, <1>2, <1>3, PrivRefsAfter
<1> QED
  BY <1>1, <1>3, <1>4, PrivsStay DEF Typed

\* What stays if no reference of the context is got or put
LEMMA ContextAlone ==
    ASSUME Typed, ContextRight, context' = context, ioctl' = ioctl, file' = file,
           EventEntries' = EventEntries
    PROVE  /\ context' \in ContextType /\ ContextFits(context', Detachers', ContextUsers')
           /\ context'.at = "live" => context.at = "live" /\ context'.file = context.file
<1>1. ContextUsers' = ContextUsers /\ Detachers' = Detachers
  BY NumbersStay DEF ContextUsers, Detachers
<1> QED
  BY <1>1 DEF ContextRight, Typed

\* kgsl_mem_entry_put_deferred
LEMMA PutLaterIs ==
    ASSUME NEW m \in EntryType, m.refs > 0
    PROVE  /\ P!PutLater(m) \in EntryType
           /\ P!PutLater(m).of = m.of /\ P!PutLater(m).pend = m.pend
           /\ P!PutLater(m).event = m.event /\ P!PutLater(m).cb = m.cb
           /\ P!PutLater(m).at = IF m.refs = 1 THEN "dying" ELSE m.at
<1>1. PICK x \in Nat : x = m.refs - 1
  BY DEF EntryType
<1>2. PICK y \in {"none", "attached", "live", "dying"} : y = IF m.refs = 1 THEN "dying" ELSE m.at
  BY DEF EntryType
<1> DEFINE n == [m EXCEPT !.refs = x, !.at = y]
<1>3. n \in EntryType /\ n.of = m.of /\ n.pend = m.pend /\ n.event = m.event /\ n.cb = m.cb /\ n.at = y
  BY DEF EntryType
<1>4. P!PutLater(m) = n
  BY <1>1, <1>2 DEF P!PutLater
<1> HIDE DEF n
<1> QED
  BY <1>2, <1>3, <1>4

\* Who has the user's reference is a caller.
LEMMA TakersAreCallers == \A e \in Memory : P!TakesOver(e) <= P!Callers(e)
<1> SUFFICES ASSUME NEW e \in Memory  PROVE P!TakesOver(e) <= P!Callers(e)
  OBVIOUS
<1> DEFINE Y == {t \in Ioctls : ioctl[t].at \in {"free", "event", "wait"} /\ ioctl[t].e = e}
           Z == {t \in Ioctls : ioctl[t].at \in P!UsesEntry /\ ioctl[t].e = e}
<1>1. Y \in SUBSET Z /\ IsFiniteSet(Z)
  BY FiniteParts, FS_Subset DEF P!UsesEntry
<1>2. Cardinality(Y) <= Cardinality(Z)
  BY <1>1, FS_Subset
<1>3. P!TakesOver(e) = Cardinality(Y) /\ P!Callers(e) = Cardinality(Z)
  BY SameSizes DEF P!TakesOver, P!Callers
<1> QED
  BY <1>2, <1>3

\* An entry's own record, with what its holders say of it
Held(e, m) ==
    /\ m = mem[e] /\ EntryRight(m, P!Callers(e), P!TakesOver(e), Reading(e))
    /\ m.refs \in Nat /\ m.vmas \in Nat /\ m.pend \in BOOLEAN /\ m.cb \in BOOLEAN /\ m.of \in Privs
    /\ m.at \in {"none", "attached", "live", "dying"} /\ m.event \in {"none", "pending", "due"}
    /\ P!Callers(e) \in Nat /\ P!TakesOver(e) \in Nat /\ Reading(e) \in {0, 1}
    /\ HasEvent(m) \in {0, 1} /\ HasFence(m) \in {0, 1}

\* An entry is right, and its numbers are numbers.
LEMMA EntryHeld ==
    ASSUME ProcessInv, NEW e \in Memory  PROVE \E m \in EntryType : Held(e, m)
<1>1. mem[e] \in EntryType /\ EntryRight(mem[e], P!Callers(e), P!TakesOver(e), Reading(e))
  BY DEF ProcessInv, Typed, EntriesRight
<1>2. P!Callers(e) \in Nat /\ P!TakesOver(e) \in Nat /\ Reading(e) \in {0, 1}
  BY Numbers DEF Reading
<1>3. \A m \in EntryType :
        /\ m.refs \in Nat /\ m.vmas \in Nat /\ m.pend \in BOOLEAN /\ m.cb \in BOOLEAN
        /\ m.of \in Privs
        /\ m.at \in {"none", "attached", "live", "dying"} /\ m.event \in {"none", "pending", "due"}
        /\ HasEvent(m) \in {0, 1} /\ HasFence(m) \in {0, 1}
  BY DEF EntryType, HasEvent, HasFence
<1> QED
  BY <1>1, <1>2, <1>3 DEF Held

\* kgsl_gpumem_vm_open
LEMMA VmOpenKeeps ==
    ASSUME ProcessInv, NEW e \in Memory, P!VmOpen(e)  PROVE ProcessInv'
<1>1. PICK m \in EntryType : Held(e, m)
  BY EntryHeld
<1>2. /\ priv' = priv /\ process_mutex' = process_mutex /\ file' = file /\ ioctl' = ioctl
      /\ context' = context /\ show' = show /\ m.vmas >= 1
      /\ mem' = [mem EXCEPT ![e].vmas = @ + 1, ![e].refs = @ + 1]
  BY <1>1 DEF P!VmOpen, Held
<1>3. m.at = "live"
  BY <1>1, <1>2 DEF Held, EntryRight
<1>4. PICK n \in EntryType :
        /\ mem' = [mem EXCEPT ![e] = n] /\ n.at = "live" /\ n.of = m.of /\ n.event = m.event
        /\ n.refs = m.refs + 1 /\ n.pend = m.pend /\ n.vmas = m.vmas + 1 /\ n.cb = m.cb
  <2>1. PICK x \in Nat, y \in Nat : x = m.vmas + 1 /\ y = m.refs + 1
    BY DEF EntryType
  <2> DEFINE n == [m EXCEPT !.vmas = x, !.refs = y]
  <2>2. /\ n \in EntryType /\ n.at = m.at /\ n.of = m.of /\ n.event = m.event
        /\ n.refs = y /\ n.pend = m.pend /\ n.vmas = x /\ n.cb = m.cb
    BY DEF EntryType
  <2>3. mem' = [mem EXCEPT ![e] = n]
    BY <1>1, <1>2, <2>1 DEF Held, ProcessInv, Typed, EntryType
  <2> HIDE DEF n
  <2> QED
    BY <1>3, <2>1, <2>2, <2>3
<1>5. HasEvent(n) = HasEvent(m) /\ HasFence(n) = HasFence(m)
  BY <1>4 DEF HasEvent, HasFence
<1>6. EntryRight(n, P!Callers(e), P!TakesOver(e), Reading(e)')
  <2>1. Reading(e)' = Reading(e)
    BY <1>2 DEF Reading
  <2>2. Freers(n, P!TakesOver(e)) = Freers(m, P!TakesOver(e)) /\ Freers(m, P!TakesOver(e)) \in Nat
    BY <1>1, <1>5 DEF Freers, Held
  <2> QED
    BY <1>1, <1>3, <1>4, <2>1, <2>2 DEF EntryRight, Held
<1>7. n.of = mem[e].of /\ n.at # "none" /\ mem[e].at # "none" /\ n.pend = mem[e].pend
      /\ n.at = "live" /\ mem[e].at = "live"
  BY <1>1, <1>3, <1>4 DEF Held
<1>8. Typed /\ PrivsRight /\ ContextRight /\ ShowRight /\ ProcessInv
  BY DEF ProcessInv
<1>9. /\ EventEntries' = EventEntries + HasEvent(n) - HasEvent(mem[e])
      /\ priv' \in [Privs -> PrivType] /\ PrivsRight' /\ FilesOfPrivs' = FilesOfPrivs
  <2>1. show'.of = show.of /\ (show'.at # "none" <=> show.at # "none")
    BY <1>2
  <2> QED
    BY <1>2, <1>4, <1>7, <1>8, <2>1, EntryAlone
<1>10. EventEntries' = EventEntries
  BY <1>1, <1>5, <1>9, Numbers DEF Held
<1>11. /\ context' \in ContextType /\ ContextFits(context', Detachers', ContextUsers')
       /\ context'.at = "live" => context.at = "live" /\ context'.file = context.file
  BY <1>2, <1>8, <1>10, ContextAlone
<1>12. /\ show' \in ShowType /\ ShowRight' /\ \A x \in Memory \ {e} : Reading(x)' = Reading(x)
       /\ mem' = [mem EXCEPT ![e] = n]
  BY <1>2, <1>4, <1>7, <1>8, ZenonT(60) DEF Typed, ShowRight, Reading
<1>13. /\ P!Callers(e) > 0 => n.of = mem[e].of /\ (n.at = "attached" <=> mem[e].at = "attached")
       /\ n.at = "live" /\ ~n.pend => mem[e].at = "live" /\ ~mem[e].pend /\ n.of = mem[e].of
  BY <1>7
<1> QED
  BY ONLY <1>2, <1>6, <1>8, <1>9, <1>11, <1>12, <1>13, EntryOnly

\* The event of an entry is due.
LEMMA RetireKeeps ==
    ASSUME ProcessInv, NEW e \in Memory, P!Retire(e)  PROVE ProcessInv'
<1>1. PICK m \in EntryType : Held(e, m)
  BY EntryHeld
<1>2. /\ priv' = priv /\ process_mutex' = process_mutex /\ file' = file /\ ioctl' = ioctl
      /\ context' = context /\ show' = show /\ m.event = "pending"
      /\ mem' = [mem EXCEPT ![e].event = "due"]
  BY <1>1 DEF P!Retire, Held
<1>3. m.at = "live"
  BY <1>1, <1>2 DEF Held, EntryRight, Freers, HasEvent, HasFence
<1>4. PICK n \in EntryType :
        /\ mem' = [mem EXCEPT ![e] = n] /\ n.at = "live" /\ n.of = m.of /\ n.event = "due"
        /\ n.refs = m.refs /\ n.pend = m.pend /\ n.vmas = m.vmas /\ n.cb = m.cb
  <2> DEFINE n == [m EXCEPT !.event = "due"]
  <2>1. n \in EntryType /\ n.at = "live" /\ n.of = m.of /\ n.event = "due"
        /\ n.refs = m.refs /\ n.pend = m.pend /\ n.vmas = m.vmas /\ n.cb = m.cb
    BY <1>3 DEF EntryType
  <2>2. mem' = [mem EXCEPT ![e] = n]
    BY <1>1, <1>2 DEF Held
  <2> QED
    BY <2>1, <2>2
<1>5. HasEvent(n) = HasEvent(m) /\ HasFence(n) = HasFence(m)
  BY <1>2, <1>4 DEF HasEvent, HasFence
<1>6. EntryRight(n, P!Callers(e), P!TakesOver(e), Reading(e)')
  <2>1. Reading(e)' = Reading(e)
    BY <1>2 DEF Reading
  <2>2. Freers(n, P!TakesOver(e)) = Freers(m, P!TakesOver(e))
    BY <1>5 DEF Freers
  <2> QED
    BY <1>1, <1>3, <1>4, <2>1, <2>2 DEF EntryRight, Held
<1>7. n.of = mem[e].of /\ n.at # "none" /\ mem[e].at # "none" /\ n.pend = mem[e].pend
      /\ n.at = "live" /\ mem[e].at = "live"
  BY <1>1, <1>3, <1>4 DEF Held
<1>8. Typed /\ PrivsRight /\ ContextRight /\ ShowRight /\ ProcessInv
  BY DEF ProcessInv
<1>9. /\ EventEntries' = EventEntries + HasEvent(n) - HasEvent(mem[e])
      /\ priv' \in [Privs -> PrivType] /\ PrivsRight' /\ FilesOfPrivs' = FilesOfPrivs
  <2>1. show'.of = show.of /\ (show'.at # "none" <=> show.at # "none")
    BY <1>2
  <2> QED
    BY <1>2, <1>4, <1>7, <1>8, <2>1, EntryAlone
<1>10. EventEntries' = EventEntries
  BY <1>1, <1>5, <1>9, Numbers DEF Held
<1>11. /\ context' \in ContextType /\ ContextFits(context', Detachers', ContextUsers')
       /\ context'.at = "live" => context.at = "live" /\ context'.file = context.file
  BY <1>2, <1>8, <1>10, ContextAlone
<1>12. /\ show' \in ShowType /\ ShowRight' /\ \A x \in Memory \ {e} : Reading(x)' = Reading(x)
       /\ mem' = [mem EXCEPT ![e] = n]
  BY <1>2, <1>4, <1>7, <1>8, ZenonT(60) DEF Typed, ShowRight, Reading
<1>13. /\ P!Callers(e) > 0 => n.of = mem[e].of /\ (n.at = "attached" <=> mem[e].at = "attached")
       /\ n.at = "live" /\ ~n.pend => mem[e].at = "live" /\ ~mem[e].pend /\ n.of = mem[e].of
  BY <1>7
<1> QED
  BY ONLY <1>2, <1>6, <1>8, <1>9, <1>11, <1>12, <1>13, EntryOnly

\* A callback has the user's reference, of an entry that is being freed and that
\* nobody else frees; m is the entry without the callback.
LEMMA CallbackPuts ==
    ASSUME ProcessInv, NEW e \in Memory, NEW d \in EntryType, Held(e, d), NEW m \in EntryType,
           m.at = d.at, m.of = d.of, m.pend = d.pend, m.refs = d.refs, m.vmas = d.vmas,
           HasEvent(m) + HasFence(m) = HasEvent(d) + HasFence(d) - 1
    PROVE  /\ d.at = "live" /\ m.refs > 0 /\ m.pend
           /\ EntryRight(P!PutLater(m), P!Callers(e), P!TakesOver(e), Reading(e))
<1>1. PICK c \in Nat, k \in Nat, h \in Nat, r \in Nat, v \in Nat, he \in Nat, hf \in Nat,
           de \in Nat, df \in Nat :
        /\ c = P!Callers(e) /\ k = P!TakesOver(e) /\ h = Reading(e) /\ r = d.refs /\ v = d.vmas
        /\ he = HasEvent(m) /\ hf = HasFence(m) /\ de = HasEvent(d) /\ df = HasFence(d)
  <2>1. /\ P!Callers(e) \in Nat /\ P!TakesOver(e) \in Nat /\ Reading(e) \in Nat /\ d.refs \in Nat
        /\ d.vmas \in Nat /\ HasEvent(m) \in Nat /\ HasFence(m) \in Nat /\ HasEvent(d) \in Nat
        /\ HasFence(d) \in Nat
    BY DEF Held, HasEvent, HasFence
  <2> QED
    BY <2>1, Zenon
<1>2. he + hf = de + df - 1
  BY <1>1
<1>3. EntryRight(d, c, k, h) /\ d.pend \in BOOLEAN /\ d.at \in {"none", "attached", "live", "dying"}
  BY <1>1 DEF Held
<1>4. Freers(d, k) = k + de + df /\ Freers(m, k) = k + he + hf
  BY <1>1 DEF Freers
<1>5. k + de + df <= IF d.pend THEN 1 ELSE 0
  BY <1>3, <1>4 DEF EntryRight
<1>6. d.pend = TRUE /\ k = 0 /\ de + df = 1 /\ he = 0 /\ hf = 0
  BY <1>2, <1>3, <1>5
<1>7. d.at = "live"
  <2>1. d.at \in {"none", "dying"} => de = 0 /\ df = 0
    BY <1>1, <1>3 DEF EntryRight, HasEvent, HasFence
  <2>2. d.at # "attached"
    BY <1>3, <1>6 DEF EntryRight
  <2> QED
    BY <1>3, <1>6, <2>1, <2>2
<1>8. d.refs > 0 /\ r = c + v + h + 1
  <2>1. Freers(d, k) = 1
    BY <1>4, <1>6
  <2>2. d.refs > 0 /\ d.refs = c + d.vmas + h + Freers(d, k)
    BY <1>3, <1>6, <1>7, Zenon DEF EntryRight
  <2>3. d.refs = c + v + h + 1
    BY <1>1, <2>1, <2>2, Zenon
  <2> QED
    BY <1>1, <2>2, <2>3, Zenon
<1>9. /\ m.at = "live" /\ m.refs > 0 /\ m.pend = TRUE
      /\ m.refs - 1 = c + m.vmas + h + (IF m.pend THEN Freers(m, k) ELSE 1)
      /\ Freers(m, k) <= IF m.pend THEN 1 ELSE 0
  <2>1. m.at = "live" /\ m.refs > 0 /\ m.pend = TRUE /\ m.refs = r /\ m.vmas = v
    BY <1>1, <1>6, <1>7, <1>8, Zenon
  <2>2. Freers(m, k) = 0
    BY <1>4, <1>6
  <2>3. r - 1 = c + v + h + 0
    BY <1>8
  <2> QED
    BY <2>1, <2>2, <2>3
<1>10. EntryRight(P!PutLater(m), c, k, h)
  BY <1>9, PutRight
<1> QED
  BY <1>1, <1>7, <1>9, <1>10

\* gpuobj_free_fence_func
LEMMA FenceFreesKeeps ==
    ASSUME ProcessInv, NEW e \in Memory, P!FenceFrees(e)  PROVE ProcessInv'
<1>1. PICK d \in EntryType : Held(e, d)
  BY EntryHeld
<1>2. /\ priv' = priv /\ process_mutex' = process_mutex /\ file' = file /\ ioctl' = ioctl
      /\ context' = context /\ show' = show /\ d.cb = TRUE
      /\ mem' = [mem EXCEPT ![e] = P!PutLater([d EXCEPT !.cb = FALSE])]
  BY <1>1 DEF P!FenceFrees, Held
<1>3. PICK m \in EntryType :
        /\ mem' = [mem EXCEPT ![e] = P!PutLater(m)] /\ m.cb = FALSE
        /\ m.at = d.at /\ m.of = d.of /\ m.pend = d.pend /\ m.refs = d.refs /\ m.vmas = d.vmas
        /\ m.event = d.event
  <2> DEFINE m == [d EXCEPT !.cb = FALSE]
  <2>1. /\ m \in EntryType /\ m.cb = FALSE
        /\ m.at = d.at /\ m.of = d.of /\ m.pend = d.pend /\ m.refs = d.refs /\ m.vmas = d.vmas
        /\ m.event = d.event
    BY DEF EntryType
  <2> QED
    BY <1>2, <2>1
<1>4. HasEvent(m) = HasEvent(d) /\ HasFence(m) = 0 /\ HasFence(d) = 1
      /\ HasEvent(m) + HasFence(m) = HasEvent(d) + HasFence(d) - 1
  BY <1>2, <1>3 DEF HasEvent, HasFence
<1>5. /\ d.at = "live" /\ m.refs > 0 /\ m.pend
      /\ EntryRight(P!PutLater(m), P!Callers(e), P!TakesOver(e), Reading(e))
  BY <1>1, <1>3, <1>4, CallbackPuts
<1>6. PICK n \in EntryType :
        /\ n = P!PutLater(m) /\ n.of = m.of /\ n.pend = m.pend /\ n.event = m.event
        /\ n.at \in {"live", "dying"}
  BY <1>3, <1>5, PutLaterIs, ZenonT(60)
<1>7. /\ n.of = mem[e].of /\ n.at # "none" /\ mem[e].at # "none" /\ n.pend
      /\ n.at # "attached" /\ mem[e].at # "attached" /\ mem' = [mem EXCEPT ![e] = n]
      /\ HasEvent(n) = HasEvent(mem[e]) /\ HasEvent(n) \in Nat
  BY <1>1, <1>3, <1>5, <1>6 DEF Held, HasEvent
<1>8. Typed /\ PrivsRight /\ ContextRight /\ ShowRight /\ ProcessInv
  BY DEF ProcessInv
<1>9. /\ EventEntries' = EventEntries + HasEvent(n) - HasEvent(mem[e])
      /\ priv' \in [Privs -> PrivType] /\ PrivsRight' /\ FilesOfPrivs' = FilesOfPrivs
  <2>1. show'.of = show.of /\ (show'.at # "none" <=> show.at # "none")
    BY <1>2
  <2> QED
    BY <1>2, <1>7, <1>8, <2>1, EntryAlone
<1>10. EventEntries' = EventEntries
  BY <1>7, <1>9, Numbers
<1>11. /\ context' \in ContextType /\ ContextFits(context', Detachers', ContextUsers')
       /\ context'.at = "live" => context.at = "live" /\ context'.file = context.file
  BY <1>2, <1>8, <1>10, ContextAlone
<1>12. /\ show' \in ShowType /\ ShowRight' /\ \A x \in Memory \ {e} : Reading(x)' = Reading(x)
       /\ mem' = [mem EXCEPT ![e] = n]
  BY <1>2, <1>7, <1>8 DEF Typed, ShowRight, Reading
<1>13. /\ P!Callers(e) > 0 => n.of = mem[e].of /\ (n.at = "attached" <=> mem[e].at = "attached")
       /\ n.at = "live" /\ ~n.pend => mem[e].at = "live" /\ ~mem[e].pend /\ n.of = mem[e].of
  BY <1>7
<1>14. EntryRight(n, P!Callers(e), P!TakesOver(e), Reading(e)')
  <2>1. Reading(e)' = Reading(e)
    BY <1>2 DEF Reading
  <2> QED
    BY <1>5, <1>6, <2>1
<1> QED
  BY ONLY <1>2, <1>8, <1>9, <1>11, <1>12, <1>13, <1>14, EntryOnly

\* gpumem_free_func: the event's reference of the context goes too.
LEMMA EventFreesKeeps ==
    ASSUME ProcessInv, NEW e \in Memory, P!EventFrees(e)  PROVE ProcessInv'
<1>1. PICK d \in EntryType : Held(e, d)
  BY EntryHeld
<1>2. /\ process_mutex' = process_mutex /\ file' = file /\ ioctl' = ioctl
      /\ show' = show /\ d.event = "due" /\ P!PutsContext(1, "event")
      /\ mem' = [mem EXCEPT ![e] = P!PutLater([d EXCEPT !.event = "none"])]
  BY <1>1 DEF P!EventFrees, Held
<1>3. PICK m \in EntryType :
        /\ mem' = [mem EXCEPT ![e] = P!PutLater(m)] /\ m.event = "none"
        /\ m.at = d.at /\ m.of = d.of /\ m.pend = d.pend /\ m.refs = d.refs /\ m.vmas = d.vmas
        /\ m.cb = d.cb
  <2> DEFINE m == [d EXCEPT !.event = "none"]
  <2>1. /\ m \in EntryType /\ m.event = "none"
        /\ m.at = d.at /\ m.of = d.of /\ m.pend = d.pend /\ m.refs = d.refs /\ m.vmas = d.vmas
        /\ m.cb = d.cb
    BY DEF EntryType
  <2> QED
    BY <1>2, <2>1
<1>4. HasEvent(m) = 0 /\ HasEvent(d) = 1 /\ HasFence(m) = HasFence(d)
      /\ HasEvent(m) + HasFence(m) = HasEvent(d) + HasFence(d) - 1
  BY <1>2, <1>3 DEF HasEvent, HasFence
<1>5. /\ d.at = "live" /\ m.refs > 0 /\ m.pend
      /\ EntryRight(P!PutLater(m), P!Callers(e), P!TakesOver(e), Reading(e))
  BY <1>1, <1>3, <1>4, CallbackPuts
<1>6. PICK n \in EntryType :
        /\ n = P!PutLater(m) /\ n.of = m.of /\ n.pend = m.pend /\ n.event = m.event
        /\ n.at \in {"live", "dying"}
  BY <1>3, <1>5, PutLaterIs, ZenonT(60)
<1>7. /\ n.of = mem[e].of /\ n.at # "none" /\ mem[e].at # "none" /\ n.pend
      /\ n.at # "attached" /\ mem[e].at # "attached" /\ mem' = [mem EXCEPT ![e] = n]
      /\ HasEvent(n) = 0 /\ HasEvent(mem[e]) = 1
  BY <1>1, <1>3, <1>4, <1>5, <1>6 DEF Held, HasEvent
<1>8. Typed /\ PrivsRight /\ ContextRight /\ ShowRight /\ ProcessInv
  BY DEF ProcessInv
<1>9. /\ EventEntries' = EventEntries + HasEvent(n) - HasEvent(mem[e])
      /\ \A p \in Privs : FilesOf(p)' = FilesOf(p) /\ EntriesOf(p)' = EntriesOf(p)
  <2>1. show'.of = show.of /\ (show'.at # "none" <=> show.at # "none")
    BY <1>2
  <2> QED
    BY <1>2, <1>7, <1>8, <2>1, EntryAlone
<1>10. ContextUsers' = ContextUsers - 1 /\ Detachers' = Detachers - (IF 1 = 3 THEN 1 ELSE 0)
  <2>1. EventEntries' = EventEntries - 1
    BY <1>7, <1>9, Numbers
  <2>2. ContextCalls' = ContextCalls /\ ContextFiles' = ContextFiles
        /\ CallDetachers' = CallDetachers /\ FileDetachers' = FileDetachers
    BY <1>2, NumbersStay
  <2> QED
    BY <2>1, <2>2, Numbers DEF ContextUsers, Detachers
<1>11. /\ context' \in ContextType /\ priv' \in [Privs -> PrivType]
       /\ PrivsRight' /\ FilesOfPrivs' = FilesOfPrivs
       /\ ContextFits(context', Detachers', ContextUsers')
       /\ context'.at = "live" => context.at = "live" /\ context'.file = context.file
  <2>1. "event" \in Whos /\ "event" # "show" /\ 1 \in {1, 3}
    BY DEF Whos
  <2> QED
    BY <1>2, <1>8, <1>9, <1>10, <2>1, ContextPuts
<1>12. /\ show' \in ShowType /\ ShowRight' /\ \A x \in Memory \ {e} : Reading(x)' = Reading(x)
       /\ mem' = [mem EXCEPT ![e] = n]
  BY <1>2, <1>7, <1>8 DEF Typed, ShowRight, Reading
<1>13. /\ P!Callers(e) > 0 => n.of = mem[e].of /\ (n.at = "attached" <=> mem[e].at = "attached")
       /\ n.at = "live" /\ ~n.pend => mem[e].at = "live" /\ ~mem[e].pend /\ n.of = mem[e].of
  BY <1>7
<1>14. EntryRight(n, P!Callers(e), P!TakesOver(e), Reading(e)')
  <2>1. Reading(e)' = Reading(e)
    BY <1>2 DEF Reading
  <2> QED
    BY <1>5, <1>6, <2>1
<1> QED
  BY ONLY <1>2, <1>8, <1>11, <1>12, <1>13, <1>14, EntryOnly

\* kgsl_mem_entry_destroy in the worker puts the structure.
LEMMA EntryDestroyedKeeps ==
    ASSUME ProcessInv, NEW e \in Memory, P!EntryDestroyed(e)  PROVE ProcessInv'
<1>1. PICK d \in EntryType : Held(e, d)
  BY EntryHeld
<1>2. /\ process_mutex' = process_mutex /\ file' = file /\ ioctl' = ioctl
      /\ show' = show /\ context' = context /\ d.at = "dying"
      /\ priv' = P!Dropped(priv, d.of, "worker") /\ mem' = [mem EXCEPT ![e] = P!NoEntry]
  BY <1>1 DEF P!EntryDestroyed, Held
<1>3. PICK n \in EntryType : n = P!NoEntry
  BY Nothings
<1>4. /\ mem' = [mem EXCEPT ![e] = n] /\ n.at = "none" /\ n.refs = 0 /\ n.vmas = 0
      /\ n.event = "none" /\ n.cb = FALSE /\ n.pend = FALSE /\ HasEvent(n) = 0 /\ HasFence(n) = 0
  BY <1>2, <1>3 DEF P!NoEntry, HasEvent, HasFence
<1>5. P!Callers(e) = 0 /\ Reading(e) = 0 /\ d.event = "none" /\ HasEvent(d) = 0 /\ P!TakesOver(e) = 0
  <2>1. P!Callers(e) = 0 /\ Reading(e) = 0 /\ d.event = "none"
    BY <1>1, <1>2 DEF Held, EntryRight
  <2>2. P!TakesOver(e) <= P!Callers(e)
    BY TakersAreCallers
  <2> QED
    BY <1>1, <2>1, <2>2 DEF Held, HasEvent
<1>6. EntryRight(n, P!Callers(e), P!TakesOver(e), Reading(e)')
  <2>1. Reading(e)' = Reading(e)
    BY <1>2 DEF Reading
  <2> QED
    BY <1>4, <1>5, <2>1 DEF EntryRight, Freers
<1>7. Typed /\ PrivsRight /\ ContextRight /\ ShowRight /\ ProcessInv
  BY DEF ProcessInv
<1>8. PICK p \in Privs : p = d.of
  BY <1>1 DEF Held
<1>9. /\ \A z \in Privs : EntriesOf(z)' = EntriesOf(z) + OfPriv(n, z) - OfPriv(mem[e], z)
      /\ EventEntries' = EventEntries + HasEvent(n) - HasEvent(mem[e])
      /\ \A z \in Privs : FilesOf(z)' = FilesOf(z)
  BY <1>2, <1>4, <1>7, EntryMoves, NumbersStay
<1>10. /\ \A z \in Privs : OfPriv(n, z) = 0 /\ OfPriv(mem[e], z) = (IF z = p THEN 1 ELSE 0)
                           /\ OfPriv(show', z) = OfPriv(show, z)
                           /\ OfPriv(context', z) = OfPriv(context, z)
       /\ HasEvent(mem[e]) = 0
  BY <1>1, <1>2, <1>4, <1>5, <1>8 DEF OfPriv, Held
<1>11. /\ PrivRefs(p)' \in Nat /\ PrivRefs(p)' = PrivRefs(p) - 1
       /\ \A z \in Privs \ {p} : PrivRefs(z)' = PrivRefs(z)
       /\ EventEntries' = EventEntries
  BY <1>4, <1>9, <1>10, PrivRefsAfter, Numbers, NumbersAfter
<1>12. priv' \in [Privs -> PrivType] /\ PrivsRight' /\ FilesOfPrivs' = FilesOfPrivs
  <2>1. "worker" \in Whos /\ "worker" # "show" /\ priv' = P!Dropped(priv, p, "worker")
    BY <1>2, <1>8 DEF Whos
  <2> QED
    BY <1>7, <1>11, <2>1, PrivDrops
<1>13. /\ context' \in ContextType /\ ContextFits(context', Detachers', ContextUsers')
       /\ context'.at = "live" => context.at = "live" /\ context'.file = context.file
  BY <1>2, <1>7, <1>11, ContextAlone
<1>14. /\ show' \in ShowType /\ ShowRight' /\ \A x \in Memory \ {e} : Reading(x)' = Reading(x)
       /\ mem' = [mem EXCEPT ![e] = n]
  <2>1. ~(show.at = "hold" /\ show.e = e)
    BY <1>5 DEF Reading
  <2> QED
    BY <1>2, <1>4, <1>7, <2>1 DEF Typed, ShowRight, Reading
<1>15. /\ P!Callers(e) > 0 => n.of = mem[e].of /\ (n.at = "attached" <=> mem[e].at = "attached")
       /\ n.at = "live" /\ ~n.pend => mem[e].at = "live" /\ ~mem[e].pend /\ n.of = mem[e].of
  BY <1>4, <1>5
<1> QED
  BY ONLY <1>2, <1>6, <1>7, <1>12, <1>13, <1>14, <1>15, EntryOnly

\* The reader starts and has a reference of the structure.
LEMMA ShowStartsKeeps ==
    ASSUME ProcessInv, P!ShowStarts  PROVE ProcessInv'
<1>1. Typed /\ PrivsRight /\ ProcessInv
  BY DEF ProcessInv
<1>2. PICK p \in Privs :
        /\ priv[p].refs > 0 /\ priv' = P!Got(priv, p)
        /\ show' = [show EXCEPT !.at = "walk", !.of = p, !.e = 1]
  BY DEF P!ShowStarts, P!Live
<1>3. /\ process_mutex' = process_mutex /\ file' = file /\ ioctl' = ioctl
      /\ mem' = mem /\ context' = context /\ show.at = "none"
  BY DEF P!ShowStarts, P!NoShow
<1>4. show' \in ShowType /\ show'.at = "walk" /\ show'.of = p
  <2>1. show' = [at |-> "walk", of |-> p, e |-> 1]
    BY <1>1, <1>2 DEF Typed, ShowType
  <2> QED
    BY <2>1 DEF ShowType
<1>5. /\ \A z \in Privs : FilesOf(z)' = FilesOf(z) /\ EntriesOf(z)' = EntriesOf(z)
      /\ \A z \in Privs : OfPriv(show, z) = 0 /\ OfPriv(show', z) = (IF z = p THEN 1 ELSE 0)
                          /\ OfPriv(context', z) = OfPriv(context, z)
  BY <1>3, <1>4, NumbersStay DEF OfPriv
<1>6. PrivRefs(p)' = PrivRefs(p) + 1 /\ \A z \in Privs \ {p} : PrivRefs(z)' = PrivRefs(z)
  BY <1>5, PrivRefsAfter, Numbers
<1>7. priv' \in [Privs -> PrivType] /\ PrivsRight' /\ FilesOfPrivs' = FilesOfPrivs
  BY <1>1, <1>2, <1>6, PrivGets
<1>8. show.at # "hold" /\ show'.at # "hold" /\ show' \in ShowType
  BY <1>3, <1>4
<1> QED
  BY ONLY <1>1, <1>3, <1>7, <1>8, ShowOnly

\* The reader goes past an entry that is not there, or ends.
LEMMA ReaderMoves ==
    ASSUME ProcessInv, priv' = priv, process_mutex' = process_mutex, file' = file,
           ioctl' = ioctl, mem' = mem, context' = context, show' \in ShowType,
           show.at = "walk", show'.at \in {"walk", "over"}, show'.of = show.of
    PROVE  ProcessInv'
<1>1. Typed /\ PrivsRight
  BY DEF ProcessInv
<1>2. /\ \A z \in Privs : FilesOf(z)' = FilesOf(z) /\ EntriesOf(z)' = EntriesOf(z)
      /\ \A z \in Privs : OfPriv(show, z) = OfPriv(show', z)
                          /\ OfPriv(context', z) = OfPriv(context, z)
  BY NumbersStay DEF OfPriv
<1>3. \A z \in Privs : PrivRefs(z)' = PrivRefs(z)
  BY <1>2, PrivRefsAfter
<1>4. priv' \in [Privs -> PrivType] /\ PrivsRight' /\ FilesOfPrivs' = FilesOfPrivs
  BY <1>1, <1>3, PrivsStay DEF Typed
<1> QED
  BY <1>4, ShowOnly

\* The reader has seen the last entry.
LEMMA ShowEndsKeeps ==
    ASSUME ProcessInv, P!ShowEnds  PROVE ProcessInv'
<1>1. /\ priv' = priv /\ process_mutex' = process_mutex /\ file' = file
      /\ ioctl' = ioctl /\ mem' = mem /\ context' = context /\ show.at = "walk"
      /\ show' = [show EXCEPT !.at = "over"]
  BY DEF P!ShowEnds
<1>2. show' \in ShowType /\ show'.at \in {"walk", "over"} /\ show'.of = show.of
  BY <1>1 DEF ProcessInv, Typed, ShowType
<1> QED
  BY <1>1, <1>2, ReaderMoves

\* The worker puts the reader's reference of the structure.
LEMMA DeferredPutKeeps ==
    ASSUME ProcessInv, P!DeferredPut  PROVE ProcessInv'
<1>1. Typed /\ PrivsRight /\ ProcessInv
  BY DEF ProcessInv
<1>2. PICK p \in Privs : p = show.of
  BY <1>1 DEF Typed, ShowType
<1>3. /\ process_mutex' = process_mutex /\ file' = file /\ ioctl' = ioctl
      /\ mem' = mem /\ context' = context /\ show.at = "over"
      /\ priv' = P!Dropped(priv, p, "worker") /\ show' = P!NoShow
  BY <1>2 DEF P!DeferredPut
<1>4. show' \in ShowType /\ show'.at = "none"
  BY <1>3, Nothings DEF P!NoShow
<1>5. /\ \A z \in Privs : FilesOf(z)' = FilesOf(z) /\ EntriesOf(z)' = EntriesOf(z)
      /\ \A z \in Privs : OfPriv(show', z) = 0 /\ OfPriv(show, z) = (IF z = p THEN 1 ELSE 0)
                          /\ OfPriv(context', z) = OfPriv(context, z)
  BY <1>2, <1>3, <1>4, NumbersStay DEF OfPriv
<1>6. /\ PrivRefs(p)' \in Nat /\ PrivRefs(p)' = PrivRefs(p) - 1
      /\ \A z \in Privs \ {p} : PrivRefs(z)' = PrivRefs(z)
  BY <1>5, PrivRefsAfter, Numbers
<1>7. priv' \in [Privs -> PrivType] /\ PrivsRight' /\ FilesOfPrivs' = FilesOfPrivs
  <2>1. "worker" \in Whos /\ "worker" # "show"
    BY DEF Whos
  <2> QED
    BY <1>1, <1>3, <1>6, <2>1, PrivDrops
<1>8. show.at # "hold" /\ show'.at # "hold" /\ show' \in ShowType
  BY <1>3, <1>4
<1> QED
  BY ONLY <1>1, <1>3, <1>7, <1>8, ShowOnly

\* The reader gets an entry that has references, or goes past it.
LEMMA ShowGetsKeeps ==
    ASSUME ProcessInv, P!ShowGets  PROVE ProcessInv'
<1>1. /\ priv' = priv /\ process_mutex' = process_mutex /\ file' = file
      /\ ioctl' = ioctl /\ context' = context /\ show.at = "walk" /\ show.e \in Memory
  BY DEF P!ShowGets
<1>2. Typed /\ PrivsRight /\ ContextRight /\ ShowRight /\ ProcessInv
  BY DEF ProcessInv
<1>3. PICK e \in Memory : e = show.e
  BY <1>1
<1>4. CASE ~(P!Visible(e, show.of) /\ mem[e].refs > 0)
  <2>1. mem' = mem /\ show' = [show EXCEPT !.e = @ + 1]
    BY <1>3, <1>4 DEF P!ShowGets
  <2>2. show' \in ShowType /\ show'.at \in {"walk", "over"} /\ show'.of = show.of
    BY <1>1, <1>2, <2>1 DEF Typed, ShowType
  <2> QED
    BY <1>1, <2>1, <2>2, ReaderMoves
<1>5. CASE P!Visible(e, show.of) /\ mem[e].refs > 0
  <2>1. PICK m \in EntryType : Held(e, m)
    BY EntryHeld
  <2>2. mem' = [mem EXCEPT ![e].refs = @ + 1] /\ show' = [show EXCEPT !.at = "hold"]
    BY <1>3, <1>5 DEF P!ShowGets
  <2>3. m.at = "live" /\ m.refs > 0 /\ m.of = show.of
    BY <1>5, <2>1 DEF Held, P!Visible, EntryRight
  <2>4. show' \in ShowType /\ show'.at = "hold" /\ show'.of = show.of /\ show'.e = e
    BY <1>2, <1>3, <2>2 DEF Typed, ShowType
  <2>5. PICK n \in EntryType :
        /\ mem' = [mem EXCEPT ![e] = n] /\ n.at = "live" /\ n.of = m.of /\ n.event = m.event
        /\ n.refs = m.refs + 1 /\ n.pend = m.pend /\ n.vmas = m.vmas /\ n.cb = m.cb
    <3> DEFINE n == [m EXCEPT !.refs = @ + 1]
    <3>1. /\ n \in EntryType /\ n.at = "live" /\ n.of = m.of /\ n.event = m.event
          /\ n.refs = m.refs + 1 /\ n.pend = m.pend /\ n.vmas = m.vmas /\ n.cb = m.cb
      BY <2>3 DEF EntryType
    <3>2. mem' = [mem EXCEPT ![e] = n]
      BY <2>1, <2>2 DEF Held
    <3> QED
      BY <3>1, <3>2
  <2>6. /\ HasEvent(n) = HasEvent(m) /\ HasFence(n) = HasFence(m)
        /\ Reading(e) = 0 /\ Reading(e)' = 1 /\ \A x \in Memory \ {e} : Reading(x)' = Reading(x)
    BY <1>1, <2>4, <2>5 DEF HasEvent, HasFence, Reading
  <2>7. EntryRight(n, P!Callers(e), P!TakesOver(e), Reading(e)')
    <3>1. Freers(n, P!TakesOver(e)) = Freers(m, P!TakesOver(e)) /\ Freers(m, P!TakesOver(e)) \in Nat
      BY <2>1, <2>6 DEF Freers, Held
    <3>2. EntryRight(n, P!Callers(e), P!TakesOver(e), 1)
      BY <2>1, <2>3, <2>5, <2>6, <3>1 DEF EntryRight, Held
    <3> QED
      BY <2>6, <3>2
  <2>8. n.of = mem[e].of /\ n.at # "none" /\ mem[e].at # "none" /\ n.pend = mem[e].pend
        /\ n.at = "live" /\ mem[e].at = "live" /\ HasEvent(mem[e]) = HasEvent(n) /\ HasEvent(n) \in Nat
    BY <2>1, <2>3, <2>5, <2>6 DEF Held
  <2>9. /\ EventEntries' = EventEntries + HasEvent(n) - HasEvent(mem[e])
        /\ priv' \in [Privs -> PrivType] /\ PrivsRight' /\ FilesOfPrivs' = FilesOfPrivs
    <3>1. show'.of = show.of /\ (show'.at # "none" <=> show.at # "none")
      BY <1>1, <2>4
    <3> QED
      BY <1>1, <1>2, <2>5, <2>8, <3>1, EntryAlone
  <2>10. EventEntries' = EventEntries
    BY <2>8, <2>9, Numbers
  <2>11. /\ context' \in ContextType /\ ContextFits(context', Detachers', ContextUsers')
         /\ context'.at = "live" => context.at = "live" /\ context'.file = context.file
    BY <1>1, <1>2, <2>10, ContextAlone
  <2>12. mem'[e] = n
    BY <1>2, <2>5 DEF Typed
  <2>13. /\ show' \in ShowType /\ ShowRight' /\ mem' = [mem EXCEPT ![e] = n]
         /\ \A x \in Memory \ {e} : Reading(x)' = Reading(x)
    BY <2>3, <2>4, <2>5, <2>6, <2>12 DEF ShowRight
  <2>14. /\ P!Callers(e) > 0 => n.of = mem[e].of /\ (n.at = "attached" <=> mem[e].at = "attached")
         /\ n.at = "live" /\ ~n.pend => mem[e].at = "live" /\ ~mem[e].pend /\ n.of = mem[e].of
    BY <2>8
  <2> QED
    BY ONLY <1>1, <1>2, <2>7, <2>9, <2>11, <2>13, <2>14, EntryOnly
<1> QED
  BY <1>4, <1>5

-----------------------------------------------------------------------------
(* The steps of an allocation.                                             *)

\* A call changes with an entry that no other call uses.
LEMMA CallsJoin ==
    ASSUME Typed, CallsRight, NEW t \in Ioctls, NEW e \in Memory,
           NEW c \in CallType, ioctl' = [ioctl EXCEPT ![t] = c],
           NEW n \in EntryType, mem' = [mem EXCEPT ![e] = n], file' = file,
           CallRight(c, file', mem'), c.at = "map" => c.e = e,
           \A u \in Ioctls \ {t} : ioctl[u].at \in P!UsesEntry => ioctl[u].e # e
    PROVE  CallsRight'
<1>1. /\ ioctl'[t] = c /\ (\A u \in Ioctls \ {t} : ioctl'[u] = ioctl[u])
      /\ \A x \in Memory \ {e} : mem'[x] = mem[x]
  BY DEF Typed
<1>2. ASSUME NEW u \in Ioctls \ {t}  PROVE CallRight(ioctl'[u], file', mem')
  <2>1. PICK d : d = ioctl[u] /\ d = ioctl'[u] /\ CallRight(d, file, mem)
    BY <1>1 DEF CallsRight
  <2>2. d.at \in P!UsesEntry => d.e \in Memory \ {e}
    BY <2>1 DEF CallRight
  <2>3. d.at \in P!UsesEntry => mem'[d.e] = mem[d.e]
    BY <1>1, <2>2
  <2>4. CallRight(d, file', mem')
    BY <2>1, <2>3 DEF CallRight
  <2> QED
    BY <2>1, <2>4
<1>3. \A u \in Ioctls : CallRight(ioctl'[u], file', mem')
  BY <1>1, <1>2
<1>4. \A u, w \in Ioctls :
         ioctl'[u].at = "map" /\ ioctl'[w].at = "map" /\ ioctl'[u].e = ioctl'[w].e => u = w
  <2>1. \A u \in Ioctls \ {t} : ioctl'[u].at = "map" => ioctl'[u].e # e
    BY <1>1 DEF P!UsesEntry
  <2>2. \A u, w \in Ioctls \ {t} :
         ioctl'[u].at = "map" /\ ioctl'[w].at = "map" /\ ioctl'[u].e = ioctl'[w].e => u = w
    BY <1>1 DEF CallsRight
  <2>3. ioctl'[t].at = "map" => ioctl'[t].e = e
    BY <1>1
  <2> QED
    BY <2>1, <2>2, <2>3
<1> QED
  BY <1>3, <1>4 DEF CallsRight

\* What an allocation and its failure have in common
Takes(t, o, c, e, n) ==
    /\ o = ioctl[t] /\ ioctl' = [ioctl EXCEPT ![t] = c] /\ mem' = [mem EXCEPT ![e] = n]
    /\ file' = file /\ show' = show /\ context' = context /\ process_mutex' = process_mutex
    /\ o.at \in P!UsesEntry => o.e = e
    /\ c.at \in P!UsesEntry => c.e = e
    /\ \A x \in Memory : Taking(o, x) = 0 /\ Taking(c, x) = 0
    /\ InContext(o) = 0 /\ InContext(c) = 0 /\ CallDetaching(o) = 0 /\ CallDetaching(c) = 0
    /\ CallRight(c, file', mem')
    /\ \A u \in Ioctls \ {t} : ioctl[u].at \in P!UsesEntry => ioctl[u].e # e
    /\ HasEvent(n) = 0 /\ HasEvent(mem[e]) = 0 /\ n.at # "live" /\ ~(show.at = "hold" /\ show.e = e)
    /\ EntryRight(n, P!Callers(e) + Using(c, e) - Using(o, e), P!TakesOver(e), Reading(e))
    /\ priv' \in [Privs -> PrivType] /\ PrivsRight' /\ FilesOfPrivs' = FilesOfPrivs

\* A call begins or ends with an entry nobody else uses.
LEMMA CallTakesEntry ==
    ASSUME ProcessInv, NEW t \in Ioctls, NEW o \in CallType, NEW c \in CallType,
           NEW e \in Memory, NEW n \in EntryType, Takes(t, o, c, e, n)
    PROVE  ProcessInv'
<1> USE DEF Takes
<1>1. Typed /\ FilesRight /\ EntriesRight /\ ContextRight /\ CallsRight /\ ShowRight /\ Unfreed
  BY DEF ProcessInv
<1>2. /\ mem'[e] = n /\ (\A x \in Memory \ {e} : mem'[x] = mem[x])
      /\ mem' \in [Memory -> EntryType] /\ ioctl' \in [Ioctls -> CallType]
  BY <1>1 DEF Typed
<1>3. Typed'
  BY <1>1, <1>2 DEF Typed
<1>4. FilesRight'
  BY <1>1, FilesStay
<1>5. /\ \A x \in Memory : P!Callers(x)' = P!Callers(x) + Using(c, x) - Using(o, x)
      /\ \A x \in Memory : P!TakesOver(x)' = P!TakesOver(x) + Taking(c, x) - Taking(o, x)
      /\ ContextCalls' = ContextCalls + InContext(c) - InContext(o)
      /\ CallDetachers' = CallDetachers + CallDetaching(c) - CallDetaching(o)
  BY <1>1, CallMoves
<1>6. EntriesRight'
  <2>1. \A x \in Memory \ {e} : Using(c, x) = 0 /\ Using(o, x) = 0
    BY DEF Using
  <2>2. \A x \in Memory : Reading(x)' = Reading(x)
    BY DEF Reading
  <2>3. \A x \in Memory \ {e} : P!Callers(x)' = P!Callers(x) /\ P!TakesOver(x)' = P!TakesOver(x)
                                /\ Reading(x)' = Reading(x)
    BY <1>5, <2>1, <2>2, Numbers
  <2>4. P!TakesOver(e)' = P!TakesOver(e) /\ P!Callers(e)' = P!Callers(e) + Using(c, e) - Using(o, e)
        /\ Reading(e)' = Reading(e)
    BY <1>5, <2>2, Numbers
  <2>5. EntryRight(n, P!Callers(e)', P!TakesOver(e)', Reading(e)')
    BY <2>4
  <2> QED
    BY <1>1, <2>3, <2>5, EntriesMove
<1>7. ContextRight'
  <2>1. EventEntries' = EventEntries + HasEvent(n) - HasEvent(mem[e])
    BY <1>1, EntryMoves
  <2>2. ContextUsers' = ContextUsers /\ Detachers' = Detachers
    BY <1>5, <2>1, Numbers, NumbersStay DEF ContextUsers, Detachers
  <2> QED
    BY <1>1, <2>2 DEF ContextRight
<1>8. CallsRight'
  <2>1. c.at = "map" => c.e = e
    BY DEF P!UsesEntry
  <2> QED
    BY <1>1, <2>1, CallsJoin
<1>9. ShowRight'
  BY <1>1, <1>2 DEF ShowRight
<1>10. Unfreed'
  <2>1. /\ \A g \in Files : file[g].at = "release" => file'[g] = file[g]
        /\ \A x \in Memory : mem'[x].at = "live" /\ ~mem'[x].pend =>
               mem[x].at = "live" /\ ~mem[x].pend /\ mem'[x].of = mem[x].of
    BY <1>2
  <2> QED
    BY <1>1, <1>2, <2>1, UnfreedStays
<1> QED
  BY <1>3, <1>4, <1>6, <1>7, <1>8, <1>9, <1>10 DEF ProcessInv

\* kgsl_mem_entry_attach_and_map
LEMMA AttachKeeps ==
    ASSUME ProcessInv, NEW t \in Ioctls, NEW f \in Files, P!Attach(t, f)  PROVE ProcessInv'
<1>1. Typed /\ PrivsRight /\ ContextRight /\ ShowRight /\ ProcessInv
  BY DEF ProcessInv
<1>2. PICK p \in Privs : p = file[f].of
  BY <1>1 DEF Typed, FileType
<1>3. PICK e \in Memory :
        /\ mem[e].at = "none" /\ P!Enters(t, f, "alloc", e, "map")
        /\ mem' = [mem EXCEPT ![e] = [@ EXCEPT !.at = "attached", !.refs = 2, !.of = p]]
  BY <1>2 DEF P!Attach
<1>4. /\ file' = file /\ show' = show /\ context' = context /\ process_mutex' = process_mutex
      /\ priv' = P!Got(priv, p) /\ file[f].at = "open" /\ ioctl[t].at = "idle"
  BY <1>2 DEF P!Attach, P!MayCall
<1>5. PICK o \in CallType : o = ioctl[t] /\ o.at = "idle"
  BY <1>1, <1>4 DEF Typed
<1>6. PICK c \in CallType : ioctl' = [ioctl EXCEPT ![t] = c] /\ c.at = "map" /\ c.file = f /\ c.e = e
  <2> DEFINE c == [at |-> "map", op |-> "alloc", file |-> f, e |-> e]
  <2>1. ioctl' = [ioctl EXCEPT ![t] = c]
    BY <1>3 DEF P!Enters
  <2>2. c \in CallType /\ c.at = "map" /\ c.file = f /\ c.e = e
    BY DEF CallType, CallAts, P!Ops
  <2> QED
    BY <2>1, <2>2
<1>7. PICK d \in EntryType : Held(e, d)
  BY EntryHeld
<1>8. /\ d.at = "none" /\ P!Callers(e) = 0 /\ Reading(e) = 0 /\ d.vmas = 0 /\ d.event = "none"
      /\ d.cb = FALSE /\ d.pend = FALSE /\ P!TakesOver(e) = 0
  <2>1. d.at = "none"
    BY <1>3, <1>7 DEF Held
  <2>2. P!TakesOver(e) <= P!Callers(e)
    BY TakersAreCallers
  <2> QED
    BY <1>7, <2>1, <2>2 DEF Held, EntryRight
<1>9. PICK n \in EntryType :
        /\ mem' = [mem EXCEPT ![e] = n] /\ n.at = "attached" /\ n.refs = 2 /\ n.of = p
        /\ n.vmas = 0 /\ n.event = "none" /\ n.cb = FALSE /\ n.pend = FALSE
  <2> DEFINE n == [d EXCEPT !.at = "attached", !.refs = 2, !.of = p]
  <2>1. mem' = [mem EXCEPT ![e] = n]
    BY <1>3, <1>7 DEF Held
  <2>2. /\ n \in EntryType /\ n.at = "attached" /\ n.refs = 2 /\ n.of = p
        /\ n.vmas = 0 /\ n.event = "none" /\ n.cb = FALSE /\ n.pend = FALSE
    BY <1>8 DEF EntryType
  <2> QED
    BY <2>1, <2>2
<1>10. /\ HasEvent(n) = 0 /\ HasFence(n) = 0 /\ HasEvent(mem[e]) = 0 /\ mem'[e] = n
       /\ n.at # "live" /\ ~(show.at = "hold" /\ show.e = e)
  BY <1>1, <1>7, <1>8, <1>9 DEF HasEvent, HasFence, Held, Reading, Typed
<1>11. /\ Using(o, e) = 0 /\ Using(c, e) = 1
       /\ \A x \in Memory : Taking(o, x) = 0 /\ Taking(c, x) = 0
       /\ InContext(o) = 0 /\ InContext(c) = 0 /\ CallDetaching(o) = 0 /\ CallDetaching(c) = 0
       /\ (o.at \in P!UsesEntry => o.e = e) /\ (c.at \in P!UsesEntry => c.e = e)
  BY <1>5, <1>6 DEF Using, Taking, InContext, CallDetaching, P!UsesEntry
<1>12. EntryRight(n, P!Callers(e) + Using(c, e) - Using(o, e), P!TakesOver(e), Reading(e))
  <2>1. EntryRight(n, 1, 0, 0)
    BY <1>9, <1>10 DEF EntryRight, Freers
  <2>2. P!Callers(e) + Using(c, e) - Using(o, e) = 1
    BY <1>8, <1>11
  <2> QED
    BY <1>8, <2>1, <2>2
<1>13. CallRight(c, file', mem')
  BY <1>2, <1>4, <1>6, <1>9, <1>10 DEF CallRight
<1>14. \A u \in Ioctls \ {t} : ioctl[u].at \in P!UsesEntry => ioctl[u].e # e
  BY <1>8, UsersCount
<1>15. /\ \A z \in Privs : EntriesOf(z)' = EntriesOf(z) + OfPriv(n, z) - OfPriv(mem[e], z)
       /\ \A z \in Privs : FilesOf(z)' = FilesOf(z)
  BY <1>1, <1>4, <1>9, EntryMoves, NumbersStay
<1>16. \A z \in Privs : OfPriv(n, z) = (IF z = p THEN 1 ELSE 0) /\ OfPriv(mem[e], z) = 0
                        /\ OfPriv(show', z) = OfPriv(show, z)
                        /\ OfPriv(context', z) = OfPriv(context, z)
  BY <1>3, <1>4, <1>9 DEF OfPriv
<1>17. PrivRefs(p)' = PrivRefs(p) + 1 /\ \A z \in Privs \ {p} : PrivRefs(z)' = PrivRefs(z)
  BY <1>15, <1>16, PrivRefsAfter, Numbers
<1>18. priv[p].refs > 0
  <2>1. PICK r : r = file[f]
    OBVIOUS
  <2>2. OfPriv(r, p) = 1 /\ FilesOf(p) >= OfPriv(r, p)
    BY <1>2, <1>4, <2>1, Counted DEF OfPriv
  <2>3. PrivRefs(p) > 0
    BY <2>2, PrivRefsAfter, Numbers
  <2> QED
    BY <1>1, <2>3 DEF PrivsRight, PrivRight
<1>19. priv' \in [Privs -> PrivType] /\ PrivsRight' /\ FilesOfPrivs' = FilesOfPrivs
  BY <1>1, <1>4, <1>17, <1>18, PrivGets
<1>20. /\ o = ioctl[t] /\ ioctl' = [ioctl EXCEPT ![t] = c] /\ mem' = [mem EXCEPT ![e] = n]
       /\ file' = file /\ show' = show /\ context' = context /\ process_mutex' = process_mutex
  BY <1>4, <1>5, <1>6, <1>9
<1> QED
  <2>1. Takes(t, o, c, e, n)
    BY ONLY <1>10, <1>11, <1>12, <1>13, <1>14, <1>19, <1>20, Zenon DEF Takes
  <2> QED
    BY <1>1, <2>1, CallTakesEntry

\* It fails to map, and nobody has seen the entry.
LEMMA MapFailsKeeps ==
    ASSUME ProcessInv, NEW t \in Ioctls, P!MapFails(t)  PROVE ProcessInv'
<1>1. Typed /\ PrivsRight /\ ContextRight /\ CallsRight /\ ShowRight /\ ProcessInv
  BY DEF ProcessInv
<1>2. PICK o \in CallType : o = ioctl[t] /\ o.at = "map" /\ CallRight(o, file, mem)
  BY <1>1 DEF Typed, P!MapFails, CallsRight
<1>3. PICK e \in Memory : e = o.e /\ mem[e].at = "attached"
  BY <1>2 DEF CallRight, P!UsesEntry
<1>4. PICK d \in EntryType : Held(e, d)
  BY EntryHeld
<1>5. PICK p \in Privs : p = d.of
  BY <1>4 DEF Held
<1>6. /\ file' = file /\ show' = show /\ context' = context /\ process_mutex' = process_mutex
      /\ priv' = P!Dropped(priv, p, t) /\ P!Returns(t) /\ mem' = [mem EXCEPT ![e] = P!NoEntry]
  BY <1>2, <1>3, <1>4, <1>5 DEF P!MapFails, Held
<1>7. PICK c \in CallType : ioctl' = [ioctl EXCEPT ![t] = c] /\ c.at = "idle"
  BY <1>1, <1>6, CallReturns
<1>8. /\ d.at = "attached" /\ d.vmas = 0 /\ d.pend = FALSE /\ P!Callers(e) = 1 /\ Reading(e) = 0
      /\ HasEvent(d) = 0 /\ P!TakesOver(e) = 0
  <2>1. d.at = "attached" /\ d.vmas = 0 /\ d.pend = FALSE /\ P!Callers(e) = 1 /\ Reading(e) = 0
        /\ Freers(d, P!TakesOver(e)) <= 0
    BY <1>3, <1>4 DEF Held, EntryRight
  <2> QED
    BY <1>4, <2>1 DEF Held, Freers
<1>9. PICK n \in EntryType : n = P!NoEntry
  BY Nothings
<1>10. /\ mem' = [mem EXCEPT ![e] = n] /\ n.at = "none" /\ n.refs = 0 /\ n.vmas = 0
       /\ n.event = "none" /\ n.cb = FALSE /\ n.pend = FALSE /\ HasEvent(n) = 0 /\ HasFence(n) = 0
       /\ HasEvent(mem[e]) = 0 /\ n.at # "live" /\ ~(show.at = "hold" /\ show.e = e)
  BY <1>4, <1>6, <1>8, <1>9 DEF P!NoEntry, HasEvent, HasFence, Held, Reading
<1>11. /\ Using(o, e) = 1 /\ Using(c, e) = 0
       /\ \A x \in Memory : Taking(o, x) = 0 /\ Taking(c, x) = 0
       /\ InContext(o) = 0 /\ InContext(c) = 0 /\ CallDetaching(o) = 0 /\ CallDetaching(c) = 0
       /\ (o.at \in P!UsesEntry => o.e = e) /\ (c.at \in P!UsesEntry => c.e = e)
  BY <1>2, <1>3, <1>7 DEF Using, Taking, InContext, CallDetaching, P!UsesEntry
<1>12. EntryRight(n, P!Callers(e) + Using(c, e) - Using(o, e), P!TakesOver(e), Reading(e))
  <2>1. EntryRight(n, 0, 0, 0)
    BY <1>10 DEF EntryRight, Freers
  <2>2. P!Callers(e) + Using(c, e) - Using(o, e) = 0
    BY <1>8, <1>11
  <2> QED
    BY <1>8, <2>1, <2>2
<1>13. CallRight(c, file', mem')
  BY <1>7 DEF CallRight, P!UsesEntry
<1>14. \A u \in Ioctls \ {t} : ioctl[u].at \in P!UsesEntry => ioctl[u].e # e
  <2> SUFFICES ASSUME NEW u \in Ioctls \ {t}, ioctl[u].at \in P!UsesEntry, ioctl[u].e = e
               PROVE  FALSE
    OBVIOUS
  <2>1. ioctl[u].at = "map"
    BY <1>1, <1>3 DEF CallsRight, CallRight
  <2> QED
    BY <1>1, <1>2, <1>3, <2>1 DEF CallsRight
<1>15. /\ \A z \in Privs : EntriesOf(z)' = EntriesOf(z) + OfPriv(n, z) - OfPriv(mem[e], z)
       /\ \A z \in Privs : FilesOf(z)' = FilesOf(z)
  BY <1>1, <1>6, <1>10, EntryMoves, NumbersStay, ZenonT(60)
<1>16. \A z \in Privs : OfPriv(n, z) = 0 /\ OfPriv(mem[e], z) = (IF z = p THEN 1 ELSE 0)
                        /\ OfPriv(show', z) = OfPriv(show, z)
                        /\ OfPriv(context', z) = OfPriv(context, z)
  BY <1>3, <1>4, <1>5, <1>6, <1>10 DEF OfPriv, Held
<1>17. /\ PrivRefs(p)' \in Nat /\ PrivRefs(p)' = PrivRefs(p) - 1
       /\ \A z \in Privs \ {p} : PrivRefs(z)' = PrivRefs(z)
  BY <1>15, <1>16, PrivRefsAfter, Numbers
<1>18. priv' \in [Privs -> PrivType] /\ PrivsRight' /\ FilesOfPrivs' = FilesOfPrivs
  <2>1. t \in Whos /\ t # "show"
    BY FiniteParts DEF Whos
  <2> QED
    BY <1>1, <1>6, <1>17, <2>1, PrivDrops
<1>19. /\ o = ioctl[t] /\ ioctl' = [ioctl EXCEPT ![t] = c] /\ mem' = [mem EXCEPT ![e] = n]
       /\ file' = file /\ show' = show /\ context' = context /\ process_mutex' = process_mutex
  BY <1>2, <1>6, <1>7, <1>10
<1> QED
  <2>1. Takes(t, o, c, e, n)
    BY ONLY <1>10, <1>11, <1>12, <1>13, <1>14, <1>18, <1>19, Zenon DEF Takes
  <2> QED
    BY <1>1, <2>1, CallTakesEntry

-----------------------------------------------------------------------------
(* The steps that cancel the context's events, and the end of a structure. *)

\* No entry has more or fewer holders when its event becomes due.
LEMMA CancelledIs ==
    ASSUME Typed, mem' = P!Cancelled
    PROVE  /\ mem' \in [Memory -> EntryType]
           /\ \A x \in Memory :
                /\ mem'[x].at = mem[x].at /\ mem'[x].refs = mem[x].refs /\ mem'[x].of = mem[x].of
                /\ mem'[x].pend = mem[x].pend /\ mem'[x].vmas = mem[x].vmas
                /\ mem'[x].cb = mem[x].cb /\ (mem'[x].event = "none" <=> mem[x].event = "none")
           /\ EventEntries' = EventEntries /\ \A p \in Privs : EntriesOf(p)' = EntriesOf(p)
<1>1. ASSUME NEW x \in Memory
      PROVE  /\ mem'[x] \in EntryType
             /\ mem'[x].at = mem[x].at /\ mem'[x].refs = mem[x].refs /\ mem'[x].of = mem[x].of
             /\ mem'[x].pend = mem[x].pend /\ mem'[x].vmas = mem[x].vmas
             /\ mem'[x].cb = mem[x].cb /\ (mem'[x].event = "none" <=> mem[x].event = "none")
  <2>1. PICK m \in EntryType : m = mem[x]
    BY DEF Typed
  <2>2. mem'[x] = IF m.event = "pending" THEN [m EXCEPT !.event = "due"] ELSE m
    BY <2>1 DEF P!Cancelled
  <2>3. PICK n \in EntryType :
          /\ n = mem'[x] /\ n.at = m.at /\ n.refs = m.refs /\ n.of = m.of /\ n.pend = m.pend
          /\ n.vmas = m.vmas /\ n.cb = m.cb /\ (n.event = "none" <=> m.event = "none")
    <3>1. CASE m.event = "pending"
      <4> DEFINE n == [m EXCEPT !.event = "due"]
      <4>1. /\ n \in EntryType /\ n.at = m.at /\ n.refs = m.refs /\ n.of = m.of /\ n.pend = m.pend
            /\ n.vmas = m.vmas /\ n.cb = m.cb /\ n.event = "due"
        BY DEF EntryType
      <4> QED
        BY <2>2, <3>1, <4>1
    <3>2. CASE m.event # "pending"
      BY <2>2, <3>2
    <3> QED
      BY <3>1, <3>2
  <2> QED
    BY <2>1, <2>3
<1>2. mem' \in [Memory -> EntryType]
  BY <1>1 DEF P!Cancelled
<1>3. EventEntries' = EventEntries
  <2>1. {e \in Memory : mem'[e].event # "none"} = {e \in Memory : mem[e].event # "none"}
    BY <1>1
  <2> QED
    BY <2>1 DEF EventEntries
<1>4. \A p \in Privs : EntriesOf(p)' = EntriesOf(p)
  <2>1. \A p \in Privs : {e \in Memory : mem'[e].at # "none" /\ mem'[e].of = p}
                         = {e \in Memory : mem[e].at # "none" /\ mem[e].of = p}
    BY <1>1
  <2> QED
    BY <2>1 DEF EntriesOf
<1> QED
  BY <1>1, <1>2, <1>3, <1>4

\* The events of the context are cancelled, by a file or by a call.
LEMMA Cancels ==
    ASSUME ProcessInv, mem' = P!Cancelled, context' = [context EXCEPT !.at = "cancelled"],
           priv' = priv, process_mutex' = process_mutex, show' = show,
           file' \in [Files -> FileType], ioctl' \in [Ioctls -> CallType],
           \A x \in Memory : P!Callers(x)' = P!Callers(x) /\ P!TakesOver(x)' = P!TakesOver(x),
           \A p \in Privs : FilesOf(p)' = FilesOf(p),
           ContextCalls' + ContextFiles' = ContextCalls + ContextFiles, Detachers' = Detachers,
           Detachers >= 1, FilesOfPrivs' = FilesOfPrivs => FilesRight',
           \A g \in Files : file[g].at = "release" => file'[g] = file[g],
           NEW Moved \in SUBSET Ioctls,
           \A u \in Ioctls \ Moved : ioctl'[u] = ioctl[u],
           \A u \in Moved : CallRight(ioctl'[u], file', mem') /\ ioctl'[u].at # "map",
           \A u \in Ioctls \ Moved : ioctl[u].at # "idle" =>
               file'[ioctl[u].file].at = "open" /\ file'[ioctl[u].file].of = file[ioctl[u].file].of
    PROVE  ProcessInv'
<1>1. Typed /\ FilesRight /\ PrivsRight /\ EntriesRight /\ ContextRight /\ CallsRight
      /\ ShowRight /\ Unfreed
  BY DEF ProcessInv
<1>2. /\ mem' \in [Memory -> EntryType]
      /\ \A x \in Memory :
           /\ mem'[x].at = mem[x].at /\ mem'[x].refs = mem[x].refs /\ mem'[x].of = mem[x].of
           /\ mem'[x].pend = mem[x].pend /\ mem'[x].vmas = mem[x].vmas
           /\ mem'[x].cb = mem[x].cb /\ (mem'[x].event = "none" <=> mem[x].event = "none")
      /\ EventEntries' = EventEntries /\ \A p \in Privs : EntriesOf(p)' = EntriesOf(p)
  BY <1>1, CancelledIs
<1>3. context' \in ContextType /\ context'.refs = context.refs /\ context'.at = "cancelled"
      /\ context'.of = context.of
  BY <1>1 DEF Typed, ContextType
<1>4. ContextFits(context, Detachers, ContextUsers) /\ context.refs \in Nat
  BY <1>1 DEF ContextRight, Typed, ContextType
<1>5. context.at \in {"detached", "cancelled"} /\ Detachers = 1
  BY <1>4, NumbersAdd DEF ContextFits
<1>6. Typed'
  BY <1>1, <1>2, <1>3 DEF Typed
<1>7. EntriesRight'
  <2>1. \A x \in Memory : Reading(x)' = Reading(x)
    BY DEF Reading
  <2>2. ASSUME NEW x \in Memory
        PROVE  EntryRight(mem'[x], P!Callers(x)', P!TakesOver(x)', Reading(x)')
    <3>1. PICK m, n : m = mem[x] /\ n = mem'[x]
      OBVIOUS
    <3>2. /\ n.at = m.at /\ n.refs = m.refs /\ n.pend = m.pend /\ n.vmas = m.vmas
          /\ n.cb = m.cb /\ (n.event = "none" <=> m.event = "none")
          /\ EntryRight(m, P!Callers(x), P!TakesOver(x), Reading(x))
      BY <1>1, <1>2, <3>1 DEF EntriesRight
    <3>3. HasEvent(n) = HasEvent(m) /\ HasFence(n) = HasFence(m)
      BY <3>2 DEF HasEvent, HasFence
    <3>4. EntryRight(n, P!Callers(x), P!TakesOver(x), Reading(x))
      BY <3>2, <3>3 DEF EntryRight, Freers
    <3> QED
      BY <2>1, <3>1, <3>4
  <2> QED
    BY <2>2 DEF EntriesRight, EntryRight, Freers, HasEvent, HasFence
<1>8. PrivsRight' /\ FilesOfPrivs' = FilesOfPrivs
  <2>1. \A p \in Privs : OfPriv(context', p) = OfPriv(context, p) /\ OfPriv(show', p) = OfPriv(show, p)
    BY <1>3, <1>5 DEF OfPriv
  <2>2. \A p \in Privs : PrivRefs(p)' = PrivRefs(p)
    BY <1>2, <2>1, PrivRefsAfter
  <2> QED
    BY <1>1, <2>2, PrivsStay
<1>9. FilesRight'
  BY <1>8
<1>10. ContextRight'
  <2>1. ContextUsers' = ContextUsers
    BY <1>2, Numbers, NumbersAfter DEF ContextUsers
  <2> QED
    BY <1>3, <1>4, <1>5, <2>1 DEF ContextRight, ContextFits
<1>11. CallsRight'
  <2>1. \A u \in Ioctls \ Moved, x \in Memory :
               ioctl[u].at \in P!UsesEntry /\ ioctl[u].e = x =>
                   mem'[x].of = mem[x].of /\ (mem'[x].at = "attached" <=> mem[x].at = "attached")
    BY <1>2
  <2> QED
    BY <1>1, <2>1, CallsStay
<1>12. ShowRight'
  BY <1>1, <1>2 DEF ShowRight
<1>13. Unfreed'
  <2>1. \A x \in Memory : mem'[x].at = "live" /\ ~mem'[x].pend =>
               mem[x].at = "live" /\ ~mem[x].pend /\ mem'[x].of = mem[x].of
    BY <1>2
  <2> QED
    BY <1>1, <1>2, <1>8, <2>1, UnfreedStays
<1> QED
  BY <1>6, <1>7, <1>8, <1>9, <1>10, <1>11, <1>12, <1>13 DEF ProcessInv

\* kgsl_context_detach in the close of a file
LEMMA CloseCancelsKeeps ==
    ASSUME ProcessInv, NEW f \in Files, P!CloseCancels(f)  PROVE ProcessInv'
<1>1. Typed /\ FilesRight /\ CallsRight /\ ProcessInv
  BY DEF ProcessInv
<1>2. /\ priv' = priv /\ process_mutex' = process_mutex /\ ioctl' = ioctl /\ show' = show
      /\ mem' = P!Cancelled /\ context' = [context EXCEPT !.at = "cancelled"]
      /\ file[f].at = "detach"
  BY DEF P!CloseCancels
<1>3. PICK r \in FileType :
        file' = [file EXCEPT ![f] = r] /\ r.at = "detached" /\ r.of = file[f].of
  BY <1>1, FileGoesTo DEF P!CloseCancels
<1>4. /\ file' \in [Files -> FileType]
      /\ file'[f] = r /\ \A g \in Files \ {f} : file'[g] = file[g]
      /\ \A p \in Privs : FilesOf(p)' = FilesOf(p)
      /\ ContextFiles' = ContextFiles + PutsIt(r) - PutsIt(file[f])
      /\ FileDetachers' = FileDetachers + FileDetaching(r) - FileDetaching(file[f])
  BY <1>1, <1>2, <1>3, FilesGoOn
<1>5. PutsIt(r) = 1 /\ PutsIt(file[f]) = 1 /\ FileDetaching(r) = 1 /\ FileDetaching(file[f]) = 1
  BY <1>2, <1>3 DEF PutsIt, FileDetaching
<1>6. /\ \A x \in Memory : P!Callers(x)' = P!Callers(x) /\ P!TakesOver(x)' = P!TakesOver(x)
      /\ ContextCalls' = ContextCalls /\ CallDetachers' = CallDetachers
  BY <1>2, NumbersStay
<1>7. ContextCalls' + ContextFiles' = ContextCalls + ContextFiles /\ Detachers' = Detachers
  BY <1>4, <1>5, <1>6, Numbers DEF Detachers
<1>8. Detachers >= 1
  <2>1. FileDetachers >= FileDetaching(file[f])
    BY Counted
  <2> QED
    BY <1>5, <2>1, Numbers DEF Detachers
<1>9. FilesOfPrivs' = FilesOfPrivs => FilesRight'
  <2>1. r.at \in P!Counted /\ file[f].at \in P!Counted
    BY <1>2, <1>3 DEF P!Counted
  <2> QED
    BY <1>1, <1>2, <1>3, <2>1, CountedGoOn
<1>10. \A g \in Files : file[g].at = "release" => file'[g] = file[g]
  BY <1>2, <1>4
<1>11. /\ {} \in SUBSET Ioctls /\ ioctl' \in [Ioctls -> CallType]
       /\ \A u \in Ioctls \ {} : ioctl'[u] = ioctl[u]
       /\ \A u \in {} : CallRight(ioctl'[u], file', mem') /\ ioctl'[u].at # "map"
  BY <1>1, <1>2 DEF Typed
<1>12. \A u \in Ioctls \ {} : ioctl[u].at # "idle" =>
               file'[ioctl[u].file].at = "open" /\ file'[ioctl[u].file].of = file[ioctl[u].file].of
  <2> SUFFICES ASSUME NEW u \in Ioctls, ioctl[u].at # "idle"
               PROVE  file'[ioctl[u].file].at = "open"
                      /\ file'[ioctl[u].file].of = file[ioctl[u].file].of
    OBVIOUS
  <2>1. PICK g \in Files : g = ioctl[u].file /\ file[g].at = "open"
    BY <1>1 DEF Typed, CallType, CallsRight, CallRight
  <2> QED
    BY <1>2, <1>4, <2>1
<1>13. /\ file' \in [Files -> FileType] /\ (\A p \in Privs : FilesOf(p)' = FilesOf(p))
       /\ \A x \in Memory : P!Callers(x)' = P!Callers(x) /\ P!TakesOver(x)' = P!TakesOver(x)
  BY <1>4, <1>6
<1> QED
  BY ONLY <1>1, <1>2, <1>7, <1>8, <1>9, <1>10, <1>11, <1>12, <1>13, Cancels

\* The same in kgsl_ioctl_drawctxt_destroy
LEMMA DetachCancelsKeeps ==
    ASSUME ProcessInv, NEW t \in Ioctls, P!DetachCancels(t)  PROVE ProcessInv'
<1>1. Typed /\ FilesRight /\ CallsRight /\ ProcessInv
  BY DEF ProcessInv
<1>2. /\ priv' = priv /\ process_mutex' = process_mutex /\ file' = file /\ show' = show
      /\ mem' = P!Cancelled /\ context' = [context EXCEPT !.at = "cancelled"]
  BY DEF P!DetachCancels
<1>3. PICK o \in CallType : o = ioctl[t] /\ o.at = "cancel" /\ CallRight(o, file, mem)
  BY <1>1 DEF Typed, P!DetachCancels, CallsRight
<1>4. PICK c \in CallType : /\ ioctl' = [ioctl EXCEPT ![t] = c] /\ c.at = "put3" /\ c.file = o.file
  BY <1>1, <1>3, CallGoes DEF P!DetachCancels, CallAts
<1>5. /\ \A x \in Memory : P!Callers(x)' = P!Callers(x) + Using(c, x) - Using(o, x)
      /\ \A x \in Memory : P!TakesOver(x)' = P!TakesOver(x) + Taking(c, x) - Taking(o, x)
      /\ ContextCalls' = ContextCalls + InContext(c) - InContext(o)
      /\ CallDetachers' = CallDetachers + CallDetaching(c) - CallDetaching(o)
  BY <1>1, <1>3, <1>4, CallMoves
<1>6. /\ \A x \in Memory : Using(c, x) = 0 /\ Using(o, x) = 0 /\ Taking(c, x) = 0 /\ Taking(o, x) = 0
      /\ InContext(c) = 1 /\ InContext(o) = 1 /\ CallDetaching(c) = 1 /\ CallDetaching(o) = 1
  BY <1>3, <1>4 DEF InContext, CallDetaching, Using, Taking, P!UsesEntry
<1>7. \A x \in Memory : P!Callers(x)' = P!Callers(x) /\ P!TakesOver(x)' = P!TakesOver(x)
  BY <1>5, <1>6, Numbers
<1>8. /\ \A p \in Privs : FilesOf(p)' = FilesOf(p)
      /\ ContextFiles' = ContextFiles /\ FileDetachers' = FileDetachers
  BY <1>2, NumbersStay
<1>9. ContextCalls' + ContextFiles' = ContextCalls + ContextFiles /\ Detachers' = Detachers
  BY <1>5, <1>6, <1>8, Numbers DEF Detachers
<1>10. Detachers >= 1
  <2>1. CallDetachers >= CallDetaching(o)
    BY <1>3, Counted
  <2> QED
    BY <1>6, <2>1, Numbers DEF Detachers
<1>11. FilesOfPrivs' = FilesOfPrivs => FilesRight'
  BY <1>1, <1>2, FilesStay
<1>12. /\ {t} \in SUBSET Ioctls /\ ioctl' \in [Ioctls -> CallType]
       /\ \A u \in Ioctls \ {t} : ioctl'[u] = ioctl[u]
       /\ \A u \in {t} : CallRight(ioctl'[u], file', mem') /\ ioctl'[u].at # "map"
  <2>1. CallRight(c, file', mem')
    BY <1>2, <1>3, <1>4 DEF CallRight, P!UsesEntry
  <2> QED
    BY <1>1, <1>4, <2>1 DEF Typed
<1>13. \A u \in Ioctls \ {t} : ioctl[u].at # "idle" =>
               file'[ioctl[u].file].at = "open" /\ file'[ioctl[u].file].of = file[ioctl[u].file].of
  BY <1>1, <1>2 DEF CallsRight, CallRight
<1>14. file' \in [Files -> FileType] /\ \A g \in Files : file[g].at = "release" => file'[g] = file[g]
  BY <1>1, <1>2 DEF Typed
<1>15. \A p \in Privs : FilesOf(p)' = FilesOf(p)
  BY <1>8
<1> QED
  BY ONLY <1>1, <1>2, <1>7, <1>9, <1>10, <1>11, <1>12, <1>13, <1>14, <1>15, Cancels

\* A step that changes the structures only.
LEMMA PrivOnly ==
    ASSUME ProcessInv, mem' = mem, ioctl' = ioctl, file' = file, process_mutex' = process_mutex,
           context' = context, show' = show,
           priv' \in [Privs -> PrivType], PrivsRight', FilesOfPrivs' = FilesOfPrivs
    PROVE  ProcessInv'
<1>1. Typed /\ FilesRight /\ EntriesRight /\ ContextRight /\ CallsRight /\ ShowRight /\ Unfreed
  BY DEF ProcessInv
<1>2. Typed'
  BY <1>1 DEF Typed
<1>3. FilesRight'
  BY <1>1, FilesStay
<1>4. EntriesRight'
  <2>1. \A x \in Memory : P!Callers(x)' = P!Callers(x) /\ P!TakesOver(x)' = P!TakesOver(x)
    BY NumbersStay
  <2>2. \A x \in Memory : Reading(x)' = Reading(x)
    BY DEF Reading
  <2> QED
    BY <1>1, <2>1, <2>2, EntriesStay
<1>5. ContextRight'
  <2>1. ContextUsers' = ContextUsers /\ Detachers' = Detachers
    BY NumbersStay DEF ContextUsers, Detachers
  <2> QED
    BY <1>1, <2>1 DEF ContextRight
<1>6. CallsRight' /\ ShowRight'
  BY <1>1 DEF CallsRight, ShowRight
<1>7. Unfreed'
  <2>1. /\ mem' \in [Memory -> EntryType]
        /\ \A g \in Files : file[g].at = "release" => file'[g] = file[g]
        /\ \A x \in Memory : mem'[x].at = "live" /\ ~mem'[x].pend =>
               mem[x].at = "live" /\ ~mem[x].pend /\ mem'[x].of = mem[x].of
    BY <1>1 DEF Typed
  <2> QED
    BY <1>1, <2>1, UnfreedStays
<1> QED
  BY <1>2, <1>3, <1>4, <1>5, <1>6, <1>7 DEF ProcessInv

\* kgsl_destroy_process_private: of the structure there is nothing left.
LEMMA DestroyKeeps ==
    ASSUME ProcessInv, NEW p \in Privs, P!Destroy(p)  PROVE ProcessInv'
<1>1. Typed /\ FilesRight /\ PrivsRight /\ ProcessInv
  BY DEF ProcessInv
<1>2. /\ mem' = mem /\ ioctl' = ioctl /\ file' = file /\ process_mutex' = process_mutex
      /\ context' = context /\ show' = show /\ priv' = [priv EXCEPT ![p] = P!NoPriv]
      /\ priv[p].at = "dying"
  BY DEF P!Destroy
<1>3. priv[p].refs = 0 /\ PrivRefs(p) = 0
  BY <1>1, <1>2, PrivRefsType DEF PrivsRight, PrivRight
<1>4. priv[p].fds = 0 /\ \A g \in Files : file[g].at # "none" => file[g].of # p
  BY <1>1, <1>3, NoneOfNone
<1>5. priv[p].mutex = "free"
  BY <1>1, <1>4 DEF FilesRight, Typed, PrivType
<1>6. PICK q \in PrivType : /\ priv' = [priv EXCEPT ![p] = q] /\ q.refs = 0 /\ q.at = "none"
                            /\ q.fds = 0 /\ q.mutex = "free"
  BY <1>2, Nothings DEF P!NoPriv
<1>7. /\ priv' \in [Privs -> PrivType] /\ priv'[p] = q
      /\ \A z \in Privs \ {p} : priv'[z] = priv[z]
  BY <1>1, <1>6 DEF Typed
<1>8. FilesOfPrivs' = FilesOfPrivs
  BY <1>4, <1>5, <1>6, <1>7 DEF FilesOfPrivs
<1>9. PrivsRight'
  <2>1. \A z \in Privs : PrivRefs(z)' = PrivRefs(z)
    <3>1. /\ \A z \in Privs : FilesOf(z)' = FilesOf(z) /\ EntriesOf(z)' = EntriesOf(z)
          /\ \A z \in Privs : OfPriv(show', z) = OfPriv(show, z)
                              /\ OfPriv(context', z) = OfPriv(context, z)
      BY <1>2, NumbersStay
    <3> QED
      BY <3>1, PrivRefsAfter
  <2>2. PrivRight(priv'[p], PrivRefs(p)')
    BY <1>3, <1>6, <1>7, <2>1 DEF PrivRight
  <2>3. \A z \in Privs \ {p} : PrivRight(priv'[z], PrivRefs(z)')
    BY <1>1, <1>7, <2>1 DEF PrivsRight
  <2>4. \A y, z \in Privs : priv'[y].at # "none" /\ priv'[z].at # "none" => y = z
    BY <1>1, <1>6, <1>7 DEF PrivsRight
  <2> QED
    BY <2>2, <2>3, <2>4 DEF PrivsRight
<1>10. mem' = mem /\ ioctl' = ioctl /\ file' = file /\ process_mutex' = process_mutex
       /\ context' = context /\ show' = show
  BY <1>2
<1> QED
  BY ONLY <1>1, <1>7, <1>8, <1>9, <1>10, PrivOnly

-----------------------------------------------------------------------------
(* The invariant holds.                                                    *)

\* Steps of the other parts leave the process alone.
LEMMA StutterKeeps ==
    ASSUME ProcessInv, UNCHANGED P!vars  PROVE ProcessInv'
<1>1. mem' = mem /\ ioctl' = ioctl /\ file' = file /\ process_mutex' = process_mutex
      /\ context' = context /\ show' = show /\ priv' = priv
  BY DEF P!vars
<1>2. \A p \in Privs : PrivRefs(p)' = PrivRefs(p)
  BY <1>1, NumbersStay DEF PrivRefs, OfPriv
<1>3. priv' \in [Privs -> PrivType] /\ PrivsRight' /\ FilesOfPrivs' = FilesOfPrivs
  BY <1>1, <1>2, PrivsStay DEF ProcessInv, Typed
<1> QED
  BY ONLY ProcessInv, <1>1, <1>3, PrivOnly

\* At first nothing is counted.
LEMMA InitCounts ==
    ASSUME P!Init
    PROVE  /\ \A e \in Memory : P!Callers(e) = 0 /\ P!TakesOver(e) = 0
           /\ \A p \in Privs : CountedFiles(p) = 0 /\ FilesOf(p) = 0 /\ EntriesOf(p) = 0
           /\ ContextCalls = 0 /\ ContextFiles = 0 /\ EventEntries = 0
           /\ CallDetachers = 0 /\ FileDetachers = 0
<1>1. /\ \A f \in Files : file[f].at = "none"
      /\ \A e \in Memory : mem[e].at = "none" /\ mem[e].event = "none"
      /\ \A t \in Ioctls : ioctl[t].at = "idle"
  BY DEF P!Init, P!NoFile, P!NoEntry, P!NoCall
<1>2. \A e \in Memory :
        /\ {t \in Ioctls : ioctl[t].at \in P!UsesEntry /\ ioctl[t].e = e} = {}
        /\ {t \in Ioctls : ioctl[t].at \in {"free", "event", "wait"} /\ ioctl[t].e = e} = {}
  BY <1>1 DEF P!UsesEntry
<1>3. \A p \in Privs :
        /\ {f \in P!OfFiles(p) : file[f].at \in P!Counted} = {}
        /\ P!OfFiles(p) = {}
        /\ {e \in Memory : mem[e].at # "none" /\ mem[e].of = p} = {}
  BY <1>1 DEF P!OfFiles
<1>4. /\ {t \in Ioctls : P!UsesContext(t)} = {}
      /\ {f \in Files : file[f].at \in {"detach", "detached", "put"}} = {}
      /\ {e \in Memory : mem[e].event # "none"} = {}
      /\ {t \in Ioctls : ioctl[t].at \in {"cancel", "put3"}} = {}
      /\ {f \in Files : file[f].at \in {"detach", "detached"}} = {}
  BY <1>1 DEF P!UsesContext
<1>5. Cardinality({}) = 0 /\ P!Cardinality({}) = 0
  BY FS_EmptySet, SameSizes
<1>6. \A e \in Memory : P!Callers(e) = 0 /\ P!TakesOver(e) = 0
  BY <1>2, <1>5 DEF P!Callers, P!TakesOver
<1>7. \A p \in Privs : CountedFiles(p) = 0 /\ FilesOf(p) = 0 /\ EntriesOf(p) = 0
  BY <1>3, <1>5 DEF CountedFiles, FilesOf, EntriesOf
<1>8. ContextCalls = 0 /\ ContextFiles = 0 /\ EventEntries = 0
      /\ CallDetachers = 0 /\ FileDetachers = 0
  BY <1>4, <1>5 DEF ContextCalls, ContextFiles, EventEntries, CallDetachers, FileDetachers
<1> QED
  BY <1>6, <1>7, <1>8

\* At first nothing is there, and the invariant holds of it.
LEMMA InitRight == P!Init => ProcessInv
<1> SUFFICES ASSUME P!Init  PROVE ProcessInv
  OBVIOUS
<1>1. /\ \A p \in Privs : priv[p] = P!NoPriv
      /\ \A f \in Files : file[f] = P!NoFile
      /\ \A e \in Memory : mem[e] = P!NoEntry
      /\ \A t \in Ioctls : ioctl[t] = P!NoCall
      /\ context = P!NoContext /\ show = P!NoShow /\ process_mutex = "free"
  BY DEF P!Init
<1>2. Typed
  BY Nothings DEF P!Init, Typed
<1>3. FilesRight
  <2>1. \A p \in Privs : priv[p].fds = 0 /\ priv[p].mutex = "free"
    BY <1>1 DEF P!NoPriv
  <2>2. \A f \in Files : file[f].at = "none" /\ f # "free"
    BY <1>1, FiniteParts DEF P!NoFile
  <2> QED
    BY <1>1, <2>1, <2>2, InitCounts DEF FilesRight
<1>4. PrivsRight
  <2>1. \A p \in Privs : priv[p].refs = 0 /\ priv[p].at = "none"
    BY <1>1 DEF P!NoPriv
  <2>2. \A p \in Privs : OfPriv(context, p) = 0 /\ OfPriv(show, p) = 0
    BY <1>1 DEF OfPriv, P!NoContext, P!NoShow
  <2>3. \A p \in Privs : PrivRefs(p) = 0
    BY <2>2, InitCounts DEF PrivRefs
  <2> QED
    BY <2>1, <2>3 DEF PrivsRight, PrivRight
<1>5. EntriesRight
  <2>1. \A e \in Memory : Reading(e) = 0
    BY <1>1 DEF Reading, P!NoShow
  <2>2. EntryRight(P!NoEntry, 0, 0, 0)
    BY DEF EntryRight, P!NoEntry, Freers, HasEvent, HasFence
  <2> QED
    BY <1>1, <2>1, <2>2, InitCounts DEF EntriesRight
<1>6. ContextRight
  <2>1. context.at = "none" /\ context.refs = 0
    BY <1>1 DEF P!NoContext
  <2>2. Detachers = 0 /\ ContextUsers = 0
    BY InitCounts DEF Detachers, ContextUsers
  <2> QED
    BY <2>1, <2>2 DEF ContextRight, ContextFits
<1>7. CallsRight
  <2>1. \A t \in Ioctls : ioctl[t].at = "idle"
    BY <1>1 DEF P!NoCall
  <2> QED
    BY <2>1 DEF CallsRight, CallRight, P!UsesEntry
<1>8. ShowRight
  BY <1>1 DEF ShowRight, P!NoShow
<1>9. Unfreed
  BY <1>1 DEF Unfreed, P!NoEntry
<1> QED
  BY <1>2, <1>3, <1>4, <1>5, <1>6, <1>7, <1>8, <1>9 DEF ProcessInv

\* Every step keeps the invariant.
LEMMA NextKeeps == ASSUME ProcessInv, P!Next  PROVE ProcessInv'
<1>1. CASE P!Opening
  BY <1>1, OpenFindsKeeps, OpenCountsKeeps, OpenMakesKeeps DEF P!Opening
<1>2. CASE P!Closing
  BY <1>2, CloseKeeps, CloseContextKeeps, CloseCancelsKeeps, ClosePutsKeeps, CloseCountsKeeps,
     ReleaseEntryKeeps, ReleaseEndsKeeps, CloseEndsKeeps DEF P!Closing
<1>3. CASE P!Starting
  BY <1>3, AttachKeeps, FindKeeps, CreateContextKeeps, DestroyContextKeeps DEF P!Starting
<1>4. CASE P!Calling
  <2>1. PICK t \in Ioctls :
          \/ P!MapFails(t) \/ P!Commit(t) \/ P!PutEntry(t) \/ P!Map(t) \/ P!Free(t) \/ P!FreePuts(t)
          \/ P!FreeGetsContext(t) \/ P!FreeMarks(t) \/ P!AddEvent(t) \/ P!AddEventFails(t)
          \/ P!FreePutsContext(t) \/ P!FreeOnFence(t) \/ P!FenceWaits(t) \/ P!FenceSignalled(t)
          \/ P!FenceRefused(t) \/ P!DetachMarks(t) \/ P!DetachCancels(t) \/ P!DetachPuts(t)
    BY <1>4 DEF P!Calling
  <2>2. CASE P!MapFails(t) \/ P!Commit(t) \/ P!PutEntry(t) \/ P!Map(t) \/ P!Free(t) \/ P!FreePuts(t)
    BY <2>2, MapFailsKeeps, CommitKeeps, CallPuts, MapKeeps, FreesKeep
  <2>3. CASE \/ P!FreeGetsContext(t) \/ P!FreeMarks(t) \/ P!AddEvent(t) \/ P!AddEventFails(t)
             \/ P!FreePutsContext(t) \/ P!FreeOnFence(t)
    BY <2>3, FreeGetsContextKeeps, FreesKeep, AddEventKeeps, AddEventFailsKeeps, CallPutsContext
  <2>4. CASE \/ P!FenceWaits(t) \/ P!FenceSignalled(t)
             \/ P!FenceRefused(t) \/ P!DetachMarks(t) \/ P!DetachCancels(t) \/ P!DetachPuts(t)
    BY <2>4, FenceWaitsKeeps, FenceSignalledKeeps, FenceRefusedKeeps, DetachMarksKeeps,
       DetachCancelsKeeps, CallPutsContext
  <2> QED
    BY <2>1, <2>2, <2>3, <2>4
<1>5. CASE P!Entry
  BY <1>5, VmOpenKeeps, VmCloseKeeps, EntryDestroyedKeeps, RetireKeeps, EventFreesKeeps,
     FenceFreesKeeps DEF P!Entry
<1>6. CASE P!Showing
  BY <1>6, ShowStartsKeeps, ShowGetsKeeps, ShowPutsKeeps, ShowEndsKeeps, DeferredPutKeeps
     DEF P!Showing
<1>7. CASE \E p \in Privs : P!Destroy(p)
  BY <1>7, DestroyKeeps
<1> QED
  BY <1>1, <1>2, <1>3, <1>4, <1>5, <1>6, <1>7 DEF P!Next

-----------------------------------------------------------------------------
(* What the invariant says of the properties.                              *)

\* The invariant says of the entries what the property asks.
LEMMA EntriesAreHeld == ProcessInv => P!EntriesHeld
<1> SUFFICES ASSUME ProcessInv  PROVE P!EntriesHeld
  OBVIOUS
<1>1. ASSUME NEW e \in Memory
      PROVE  /\ mem[e].at \in {"attached", "live"} =>
                  mem[e].refs = P!Callers(e) + mem[e].vmas + P!Count(show.at = "hold" /\ show.e = e)
                                + (IF mem[e].pend
                                   THEN P!TakesOver(e) + P!Count(mem[e].event # "none") + P!Count(mem[e].cb)
                                   ELSE 1)
             /\ mem[e].at \in {"none", "dying"} =>
                  /\ mem[e].refs = 0 /\ mem[e].vmas = 0 /\ P!Callers(e) = 0
                  /\ mem[e].event = "none" /\ ~mem[e].cb /\ ~(show.at = "hold" /\ show.e = e)
  <2>1. EntryRight(mem[e], P!Callers(e), P!TakesOver(e), Reading(e))
    BY DEF ProcessInv, EntriesRight
  <2>2. Reading(e) = P!Count(show.at = "hold" /\ show.e = e)
    BY Zenon DEF Reading, P!Count
  <2>3. HasEvent(mem[e]) = P!Count(mem[e].event # "none") /\ HasFence(mem[e]) = P!Count(mem[e].cb)
    BY Zenon DEF HasEvent, HasFence, P!Count
  <2>4. Freers(mem[e], P!TakesOver(e))
        = P!TakesOver(e) + P!Count(mem[e].event # "none") + P!Count(mem[e].cb)
    BY <2>3, Zenon DEF Freers
  <2>5. Reading(e) = 0 => ~(show.at = "hold" /\ show.e = e)
    BY DEF Reading
  <2>6. mem[e].at \in {"attached", "live"} =>
          mem[e].refs = P!Callers(e) + mem[e].vmas + Reading(e)
                        + (IF mem[e].pend THEN Freers(mem[e], P!TakesOver(e)) ELSE 1)
    BY <2>1, Zenon DEF EntryRight
  <2>7. mem[e].at \in {"none", "dying"} =>
                  /\ mem[e].refs = 0 /\ mem[e].vmas = 0 /\ P!Callers(e) = 0
                  /\ mem[e].event = "none" /\ ~mem[e].cb /\ ~(show.at = "hold" /\ show.e = e)
    BY <2>1, <2>5, Zenon DEF EntryRight
  <2>8. mem[e].at \in {"attached", "live"} =>
                  mem[e].refs = P!Callers(e) + mem[e].vmas + P!Count(show.at = "hold" /\ show.e = e)
                                + (IF mem[e].pend
                                   THEN P!TakesOver(e) + P!Count(mem[e].event # "none") + P!Count(mem[e].cb)
                                   ELSE 1)
    BY <2>2, <2>4, <2>6, Zenon
  <2> QED
    BY <2>7, <2>8, Zenon
<1> QED
  BY <1>1, Zenon DEF P!EntriesHeld

\* Someone detaches the context if one is counted who does.
LEMMA DetachingIs == ASSUME Typed  PROVE P!Detaching <=> Detachers >= 1
<1> DEFINE X == {f \in Files : file[f].at \in {"detach", "detached"}}
           Y == {t \in Ioctls : ioctl[t].at \in {"cancel", "put3"}}
<1>1. P!Detaching <=> X # {} \/ Y # {}
  BY DEF P!Detaching
<1>2. FileDetachers = Cardinality(X) /\ CallDetachers = Cardinality(Y)
  BY DEF FileDetachers, CallDetachers
<1>3. X \in SUBSET Files /\ Y \in SUBSET Ioctls
  OBVIOUS
<1> HIDE DEF X, Y
<1>4. IsFiniteSet(X) /\ IsFiniteSet(Y)
  BY <1>3, FiniteParts, FS_Subset
<1>5. /\ Cardinality(X) \in Nat /\ (Cardinality(X) = 0 <=> X = {})
      /\ Cardinality(Y) \in Nat /\ (Cardinality(Y) = 0 <=> Y = {})
  BY <1>4, FS_CardinalityType, FS_EmptySet
<1> QED
  BY <1>1, <1>2, <1>5 DEF Detachers

\* It says so of the context.
LEMMA ContextIsHeld == ProcessInv => P!ContextHeld
<1> SUFFICES ASSUME ProcessInv  PROVE P!ContextHeld
  OBVIOUS
<1>1. Typed /\ ContextFits(context, Detachers, ContextUsers)
  BY DEF ProcessInv, ContextRight
<1>2. P!Detaching <=> Detachers >= 1
  BY <1>1, DetachingIs
<1>3. /\ P!Cardinality({t \in Ioctls : P!UsesContext(t)}) = ContextCalls
      /\ P!Cardinality({f \in Files : file[f].at \in {"detach", "detached", "put"}}) = ContextFiles
      /\ P!Cardinality({e \in Memory : mem[e].event # "none"}) = EventEntries
  BY SameSizes, Zenon DEF ContextCalls, ContextFiles, EventEntries
<1>4. PICK r \in ContextType : r = context
  BY <1>1 DEF Typed
<1>5. PICK d \in Nat, n \in Nat, x \in Nat, y \in Nat, z \in Nat :
        /\ d = Detachers /\ n = ContextUsers /\ n = x + y + z
        /\ x = ContextCalls /\ y = ContextFiles /\ z = EventEntries
  <2>1. Detachers \in Nat /\ ContextUsers \in Nat /\ ContextCalls \in Nat /\ ContextFiles \in Nat
        /\ EventEntries \in Nat /\ ContextUsers = ContextCalls + ContextFiles + EventEntries
    BY Numbers, NumbersAdd DEF ContextUsers
  <2> QED
    BY <2>1, Zenon
<1>6. ContextFits(r, d, n) /\ r.refs \in Nat
  BY <1>1, <1>4, <1>5 DEF ContextType
<1>7. r.refs = (IF r.at = "live" \/ d >= 1 THEN 2 ELSE 0) + x + y + z
  BY <1>5, <1>6 DEF ContextFits
<1>8. r.at = "live" \/ d >= 1 <=> context.at = "live" \/ P!Detaching
  BY <1>2, <1>4, <1>5, Zenon
<1>9. context.refs = (IF context.at = "live" \/ P!Detaching THEN 2 ELSE 0) + x + y + z
  BY <1>4, <1>7, <1>8, Zenon
<1> QED
  BY <1>3, <1>5, <1>9, Zenon DEF P!ContextHeld

\* It says so of the structures.
LEMMA PrivsAreHeld == ProcessInv => P!PrivsHeld
<1> SUFFICES ASSUME ProcessInv, NEW p \in Privs
    PROVE priv[p].refs = P!Cardinality(P!OfFiles(p))
                         + P!Cardinality({e \in Memory : mem[e].at # "none" /\ mem[e].of = p})
                         + P!Count(context.at # "none" /\ context.of = p)
                         + P!Count(show.at # "none" /\ show.of = p)
  BY Zenon DEF P!PrivsHeld
<1>1. priv[p].refs = PrivRefs(p)
  BY DEF ProcessInv, PrivsRight, PrivRight
<1>2. P!Cardinality(P!OfFiles(p)) = FilesOf(p)
      /\ P!Cardinality({e \in Memory : mem[e].at # "none" /\ mem[e].of = p}) = EntriesOf(p)
  BY SameSizes, Zenon DEF FilesOf, EntriesOf
<1>3. P!Count(context.at # "none" /\ context.of = p) = OfPriv(context, p)
      /\ P!Count(show.at # "none" /\ show.of = p) = OfPriv(show, p)
  BY Zenon DEF P!Count, OfPriv
<1> QED
  BY <1>1, <1>2, <1>3, Zenon DEF PrivRefs

\* The structure of a file that is open, or is being opened or closed, is alive.
LEMMA FileOfLive ==
    ASSUME ProcessInv, NEW f \in Files, file[f].at # "none"
    PROVE  file[f].of \in Privs /\ priv[file[f].of].at = "live"
<1>1. PICK r \in FileType : r = file[f]
  BY DEF ProcessInv, Typed
<1>2. PICK p \in Privs : p = r.of
  BY DEF FileType
<1>3. OfPriv(r, p) = 1
  BY <1>1, <1>2 DEF OfPriv
<1>4. FilesOf(p) >= OfPriv(r, p)
  BY <1>1, Counted
<1>5. PrivRefs(p) > 0
  BY <1>3, <1>4, Numbers, PrivRefsAfter
<1>6. PrivRight(priv[p], PrivRefs(p))
  BY DEF ProcessInv, PrivsRight
<1> QED
  BY <1>1, <1>2, <1>5, <1>6 DEF PrivRight

\* There is one structure, and it counts the open files.
LEMMA OneOfProcess == ProcessInv => P!OneProcess
<1> SUFFICES ASSUME ProcessInv  PROVE P!OneProcess
  OBVIOUS
<1>1. P!Cardinality(P!Listed) <= 1
  <2> DEFINE X == {p \in Privs : priv[p].at # "none"}
  <2>1. P!Cardinality(P!Listed) = Cardinality(X)
    BY SameSizes, Zenon DEF P!Listed
  <2>2. \A p, q \in X : p = q
    BY DEF ProcessInv, PrivsRight
  <2> HIDE DEF X
  <2>3. Cardinality(X) <= 1
    <3>1. CASE X = {}
      BY <3>1, FS_EmptySet
    <3>2. CASE X # {}
      <4>1. PICK p : p \in X
        BY <3>2
      <4>2. X = {p}
        BY <2>2, <4>1
      <4>3. Cardinality({p}) = 1
        BY FS_Singleton, Zenon
      <4>4. Cardinality(X) = 1
        BY <4>2, <4>3, Zenon
      <4> QED
        BY <4>4
    <3> QED
      BY <3>1, <3>2
  <2> QED
    BY <2>1, <2>3
<1>2. \A p \in Privs :
        priv[p].fds = P!Cardinality({f \in P!OfFiles(p) : file[f].at \in P!Counted})
  <2>1. \A p \in Privs : priv[p].fds = CountedFiles(p)
    BY DEF ProcessInv, FilesRight
  <2> QED
    BY <2>1, SameSizes, Zenon DEF CountedFiles
<1>3. \A f \in Files : file[f].at # "none" => priv[file[f].of].at = "live"
  BY FileOfLive
<1> QED
  BY <1>1, <1>2, <1>3, Zenon DEF P!OneProcess

\* The structure is not destroyed by who would wait for himself.
LEMMA NotByItsHolder == ProcessInv => P!NotByHolder
<1> SUFFICES ASSUME ProcessInv, NEW p \in Privs, priv[p].at = "dying"
             PROVE  priv[p].putter \notin {"show", process_mutex} /\ priv[p].mutex = "free"
  BY DEF P!NotByHolder
<1>1. Typed /\ FilesRight /\ PrivsRight /\ PrivRight(priv[p], PrivRefs(p)) /\ PrivRefs(p) \in Nat
  BY PrivRefsType DEF ProcessInv, PrivsRight
<1>2. priv[p].refs = 0 /\ priv[p].putter # "show"
  BY <1>1 DEF PrivRight
<1>3. \A g \in Files : file[g].at # "none" => file[g].of # p
  BY <1>1, <1>2, NoneOfNone
<1>4. \A g \in Files : file[g].at = "none"
  <2> SUFFICES ASSUME NEW g \in Files, file[g].at # "none"  PROVE FALSE
    OBVIOUS
  <2>1. file[g].of \in Privs /\ priv[file[g].of].at = "live"
    BY FileOfLive
  <2>2. file[g].of = p
    BY <1>1, <2>1 DEF PrivsRight
  <2> QED
    BY <1>3, <2>2
<1>5. process_mutex = "free"
  BY <1>1, <1>4 DEF Typed, FilesRight
<1>6. priv[p].putter \in Whos /\ priv[p].mutex \in Files \cup {"free"}
  BY <1>1 DEF Typed, PrivType
<1>7. priv[p].putter # "free"
  BY <1>6, FiniteParts DEF Whos
<1>8. priv[p].mutex = "free"
  BY <1>1, <1>4, <1>6 DEF FilesRight
<1> QED
  BY <1>2, <1>5, <1>7, <1>8

\* Without files, calls, mappings, callbacks and readers nothing is left.
LEMMA NothingIsLeaked == ProcessInv => P!NothingLeaks
<1> SUFFICES ASSUME ProcessInv,
                    \A f \in Files : file[f].at = "none",
                    \A t \in Ioctls : ioctl[t].at = "idle",
                    \A e \in Memory : mem[e].vmas = 0 /\ mem[e].event = "none" /\ ~mem[e].cb
                                      /\ mem[e].at # "dying",
                    \A p \in Privs : priv[p].at # "dying",
                    show.at = "none"
             PROVE  /\ \A p \in Privs : priv[p].at = "none"
                    /\ \A e \in Memory : mem[e].at = "none"
                    /\ context.at = "none"
  BY DEF P!NothingLeaks
<1>1. Typed
  BY DEF ProcessInv
<1>2. Cardinality({}) = 0 /\ P!Cardinality({}) = 0
  BY FS_EmptySet, SameSizes
<1>3. \A e \in Memory : P!Callers(e) = 0 /\ P!TakesOver(e) = 0
  <2>1. \A e \in Memory :
          /\ {t \in Ioctls : ioctl[t].at \in P!UsesEntry /\ ioctl[t].e = e} = {}
          /\ {t \in Ioctls : ioctl[t].at \in {"free", "event", "wait"} /\ ioctl[t].e = e} = {}
    BY DEF P!UsesEntry
  <2> QED
    BY <1>2, <2>1 DEF P!Callers, P!TakesOver
<1>4. \A p \in Privs : FilesOf(p) = 0 /\ CountedFiles(p) = 0
  <2>1. \A p \in Privs : P!OfFiles(p) = {} /\ {f \in P!OfFiles(p) : file[f].at \in P!Counted} = {}
    BY DEF P!OfFiles
  <2> QED
    BY <1>2, <2>1 DEF FilesOf, CountedFiles
<1>5. Detachers = 0 /\ ContextUsers = 0
  <2>1. /\ {t \in Ioctls : P!UsesContext(t)} = {}
        /\ {f \in Files : file[f].at \in {"detach", "detached", "put"}} = {}
        /\ {e \in Memory : mem[e].event # "none"} = {}
        /\ {t \in Ioctls : ioctl[t].at \in {"cancel", "put3"}} = {}
        /\ {f \in Files : file[f].at \in {"detach", "detached"}} = {}
    BY DEF P!UsesContext
  <2>2. ContextCalls = 0 /\ ContextFiles = 0 /\ EventEntries = 0
        /\ CallDetachers = 0 /\ FileDetachers = 0
    BY <1>2, <2>1 DEF ContextCalls, ContextFiles, EventEntries, CallDetachers, FileDetachers
  <2> QED
    BY <2>2 DEF Detachers, ContextUsers
<1>6. context.at = "none"
  <2>1. context.at # "live"
    BY <1>1 DEF ProcessInv, ContextRight, Typed, ContextType
  <2> QED
    BY <1>5, <2>1 DEF ProcessInv, ContextRight, ContextFits
<1>7. \A e \in Memory : mem[e].at = "none"
  <2> SUFFICES ASSUME NEW e \in Memory, mem[e].at # "none"  PROVE FALSE
    OBVIOUS
  <2>1. PICK m \in EntryType : m = mem[e] /\ m.at \in {"attached", "live"} /\ m.vmas = 0
                               /\ m.event = "none" /\ ~m.cb
    BY <1>1 DEF Typed, EntryType
  <2>2. EntryRight(m, 0, 0, Reading(e)) /\ Reading(e) = 0
    <3>1. Reading(e) = 0
      BY DEF Reading
    <3> QED
      BY <1>3, <2>1, <3>1 DEF ProcessInv, EntriesRight
  <2>3. m.at = "live" /\ ~m.pend
    <3>1. m.at # "attached"
      BY <2>2 DEF EntryRight
    <3>2. HasEvent(m) = 0 /\ HasFence(m) = 0 /\ Freers(m, 0) = 0
      BY <2>1 DEF Freers, HasEvent, HasFence
    <3>3. m.refs > 0 /\ m.refs = (IF m.pend THEN 0 ELSE 1)
      BY <2>1, <2>2, <3>2 DEF EntryRight, EntryType
    <3> QED
      BY <2>1, <3>1, <3>3
  <2>4. PICK p \in Privs : p = m.of
    BY DEF EntryType
  <2>5. priv[p].fds > 0 \/ Releasing(e)
    BY <2>1, <2>3, <2>4 DEF ProcessInv, Unfreed
  <2>6. priv[p].fds = 0
    BY <1>4 DEF ProcessInv, FilesRight
  <2>7. ~Releasing(e)
    BY DEF Releasing
  <2> QED
    BY <2>5, <2>6, <2>7
<1>8. \A p \in Privs : priv[p].at = "none"
  <2> SUFFICES ASSUME NEW p \in Privs  PROVE priv[p].at = "none"
    OBVIOUS
  <2>1. EntriesOf(p) = 0
    <3>1. {e \in Memory : mem[e].at # "none" /\ mem[e].of = p} = {}
      BY <1>7
    <3> QED
      BY <1>2, <3>1 DEF EntriesOf
  <2>2. PrivRefs(p) = 0
    BY <1>4, <1>6, <2>1 DEF PrivRefs, OfPriv
  <2> QED
    BY <1>1, <2>2 DEF ProcessInv, PrivsRight, PrivRight, Typed, PrivType
<1> QED
  BY <1>6, <1>7, <1>8

\* All together: the property.
LEMMA ProcessIsKept == ProcessInv => P!ProcessKept
  BY EntriesAreHeld, ContextIsHeld, PrivsAreHeld, OneOfProcess, NotByItsHolder, NothingIsLeaked
     DEF P!ProcessKept

\* The process of the instance behaves as the module says, whatever the other parts do.
LEMMA PartsBehave == PartsSpec => P!Init /\ [][P!Next]_P!vars
<1>1. PartsInit => P!Init
  BY DEF PartsInit
<1>2. [PartsNext]_<<part, vars, timelineVars, memoryVars, bufferVars, processVars,
                    fenceVars, snapshotVars, poolVars, addressVars>> => [P!Next]_P!vars
  <2>1. processVars' = processVars => UNCHANGED P!vars
    BY DEF processVars, P!vars
  <2> QED
    BY <2>1 DEF PartsNext
<1> QED
  BY <1>1, <1>2, PTL DEF PartsSpec

\* The references of a process's structure, its entries and its context are those of
\* their holders, at every moment.
THEOREM PartsProcessInv == PartsSpec => []ProcessInv
<1>1. P!Init => ProcessInv
  BY InitRight
<1>2. ProcessInv /\ [P!Next]_P!vars => ProcessInv'
  BY NextKeeps, StutterKeeps
<1> QED
  BY <1>1, <1>2, PartsBehave, PTL

\* The structure of a process, its entries and its context are there as long as
\* someone uses them, are put by each holder once, and gone when nobody is left
\* (kgsl_process_private_put, kgsl_mem_entry_put and kgsl_context_put in kgsl.c).
THEOREM PartsProcessKept == PartsSpec => []ProcessKept
<1>1. ProcessInv => ProcessKept
  BY ProcessIsKept DEF ProcessKept
<1> QED
  BY <1>1, PartsProcessInv, PTL
=============================================================================
