------------------------- MODULE ContextQueue_proofs -------------------------
(***************************************************************************)
(* Proofs about ContextQueue: type correctness, and the integrity of the   *)
(* ring when its size leaves room for every submitter that may have been   *)
(* woken for the same slot.                                                *)
(***************************************************************************)
EXTENDS ContextQueue, FiniteSetTheorems, SequenceTheorems, TLAPS

(* Submitters do not look at the room again after the wait, so the ring     *)
(* must hold one full batch of each beyond the configured size.             *)
RoomAssumption == QSize + MaxBatch * Cardinality(Threads) < RingSize

Held == IF hand = None THEN 0 ELSE 1
Woken == {t \in Threads : pc[t] = "woken"}

Control ==
    /\ hand # None <=> dpc \in {"send", "requeue"}
    /\ \A t \in Threads : pc[t] # "idle" => batch[t] \in Batches
    /\ detach # "none" => detached

Fill == \A i \in Slots : InWindow(i) => drawqueue[i] \in Objs

Room == queued + Held + MaxBatch * Cardinality(Woken)
            <= QSize + MaxBatch * Cardinality(Threads)

Span == 0 <= queued /\ (tail = head + queued \/ tail = head + queued - RingSize)

QueueInv == ~Drained => Room /\ Span

IInv == TypeOK /\ Control /\ Fill /\ QueueInv /\ DrainedStaysEmpty

-----------------------------------------------------------------------------
(* Every batch the ioctls make holds one to three objects of known kinds.   *)
LEMMA BatchFacts ==
    ASSUME NEW b \in Batches
    PROVE  /\ Len(b) \in 1 .. MaxBatch
           /\ \A k \in 1 .. Len(b) : b[k] \in Kinds
BY QueueAssumption DEF QueueAssumption, IoctlBatches, MaxBatch, Kinds, SyncKinds,
   StampedKinds

(* The empty sequence is one of objects.                                    *)
LEMMA NoObjects == << >> \in Seq(Objs)
OBVIOUS

(* One more waiter is told there is room: MaxBatch * Cardinality stays      *)
(* within what all threads together may bring.                              *)
LEMMA WokenBound ==
    ASSUME NEW S \in SUBSET Threads
    PROVE  Cardinality(S) \in Nat /\ Cardinality(Threads) \in Nat
           /\ Cardinality(S) <= Cardinality(Threads)
<1>1. IsFiniteSet(Threads) BY QueueAssumption DEF QueueAssumption
<1> QED BY <1>1, FS_Subset, FS_CardinalityType

(* Destroying objects keeps every record and count well-typed.              *)
LEMMA DestroyType ==
    ASSUME TypeOK, NEW S, Destroy(S)
    PROVE  obj' \in [Objs -> ObjRecords] /\ ref' \in [Objs -> Int]
           /\ nobj' \in 0 .. MaxObjs
<1>1. \A o \in Objs : RefAfterDestroy(o) \in Int
      BY DEF TypeOK, RefAfterDestroy
<1>2. \A o \in Objs : ObjAfterDestroy(o) \in ObjRecords
      BY SMTT(30), ZenonT(30) DEF TypeOK, ObjAfterDestroy, ObjRecords, ObjState
<1> QED BY <1>1, <1>2 DEF TypeOK, Destroy

(* A thread that returns from the ioctl leaves the other threads alone.     *)
LEMMA ReturnType ==
    ASSUME TypeOK, Control, NEW t \in Threads, Return(t)
    PROVE  /\ pc' \in [Threads -> {"idle", "queue", "check", "sleep", "woken"}]
           /\ batch' \in [Threads -> Batches \cup {<< >>}]
           /\ userTs' \in [Threads -> Nat] /\ snap' \in [Threads -> Nat]
           /\ \A u \in Threads : pc'[u] # "idle" => batch'[u] \in Batches
           /\ Woken' = Woken \ {t}
BY DEF TypeOK, Control, Return, Woken

(* What % does to a sum of less than twice the modulus.                     *)
LEMMA ModTwice ==
    ASSUME NEW N \in Nat, N # 0, NEW a \in Nat, a < 2 * N
    PROVE  a % N = IF a < N THEN a ELSE a - N
BY SMTT(30)

-----------------------------------------------------------------------------
(* The queue and everything the ring invariants speak of, apart from pc.    *)
RingPart == <<drawqueue, head, tail, queued, hand, invalid, detach>>

(* What does not touch the ring and wakes nobody into queueing keeps the    *)
(* ring invariants.                                                         *)
LEMMA RingFrame ==
    ASSUME IInv, UNCHANGED RingPart, Woken' = Woken
    PROVE  Fill' /\ QueueInv' /\ DrainedStaysEmpty'
BY DEF IInv, RingPart, Fill, QueueInv, DrainedStaysEmpty, InWindow, Drained, Room,
   Span, Held, IsEmpty

(* Waking the sleepers makes them check again; none of them is told there   *)
(* is room by that alone.                                                   *)
LEMMA WakeType ==
    ASSUME TypeOK, Control, pc' = WakeAll, UNCHANGED batch
    PROVE  /\ pc' \in [Threads -> {"idle", "queue", "check", "sleep", "woken"}]
           /\ \A t \in Threads : pc'[t] # "idle" => batch'[t] \in Batches
           /\ Woken' = Woken
BY DEF TypeOK, Control, WakeAll, Woken

(* A thread that leaves takes its claim to room with it.                    *)
LEMMA RingLeave ==
    ASSUME IInv, NEW t \in Threads, UNCHANGED RingPart, Woken' = Woken \ {t}
    PROVE  Fill' /\ QueueInv' /\ DrainedStaysEmpty'
<1>1. Fill' /\ DrainedStaysEmpty'
      BY DEF IInv, RingPart, Fill, DrainedStaysEmpty, InWindow, Drained, IsEmpty
<1>2. Woken \in SUBSET Threads /\ Woken' \in SUBSET Woken BY DEF Woken
<1>3. Cardinality(Woken') <= Cardinality(Woken) /\ Cardinality(Woken') \in Nat
      /\ Cardinality(Woken) \in Nat /\ Cardinality(Threads) \in Nat
      BY <1>2, WokenBound, FS_Subset, QueueAssumption DEF QueueAssumption
<1>4. ~Drained => Room'
      BY SMTT(30), ZenonT(30), <1>3, QueueAssumption
      DEF IInv, QueueInv, Room, RingPart, Held, MaxBatch, QueueAssumption, TypeOK
<1> QED BY <1>1, <1>4 DEF IInv, QueueInv, RingPart, Drained, Span

(* Queueing a batch: the ring holds it, and it ends below the slot a        *)
(* command in the dispatcher's hand would go back to.                       *)
LEMMA QueueObjsStep ==
    ASSUME RoomAssumption, IInv, NEW t \in Threads, QueueObjs(t)
    PROVE  IInv'
<1> USE DEF IInv
<1>1. pc[t] \in {"queue", "woken"} /\ ~detached /\ ~invalid
      BY DEF QueueObjs, MayQueue, ContextBad
<1>2. PICK n \in 1 .. 3 : n = Len(batch[t]) /\ \A k \in 1 .. n : batch[t][k] \in Kinds
      BY <1>1, BatchFacts DEF Control, MaxBatch
<1>3. /\ nobj + n <= MaxObjs
      /\ drawqueue' = [i \in Slots |-> IF Offset(i) < n THEN nobj + 1 + Offset(i)
                                                        ELSE drawqueue[i]]
      /\ tail' = (tail + n) % RingSize /\ queued' = queued + n /\ nobj' = nobj + n
      /\ Return(t) /\ head' = head
      /\ UNCHANGED <<retired, stateVars, dispVars, hwVars, endVars, boundVars>>
      BY <1>2 DEF QueueObjs
<1>sum. tail' = (tail + n) % RingSize /\ queued' = queued + n /\ head' = head
      BY <1>3
<1>4. ~Drained /\ ~Drained' /\ Room /\ Span
      BY <1>1, <1>3 DEF Control, Drained, QueueInv, stateVars, endVars
<1>5. Cardinality(Woken) \in Nat /\ Cardinality(Woken') \in Nat
      /\ Cardinality(Threads) \in Nat
      /\ Cardinality(Woken') <= Cardinality(Threads)
      /\ (pc[t] = "woken" => Cardinality(Woken') = Cardinality(Woken) - 1)
  <2>1. Woken' = Woken \ {t} BY <1>3, ReturnType
  <2>2. Woken \in SUBSET Threads /\ Woken' \in SUBSET Threads BY <2>1 DEF Woken
  <2>3. IsFiniteSet(Woken) BY <2>2, FS_Subset, QueueAssumption DEF QueueAssumption
  <2>4. pc[t] = "woken" => t \in Woken BY DEF Woken
  <2> QED BY <2>1, <2>2, <2>3, <2>4, WokenBound, FS_RemoveElement
<1>6. /\ RingSize \in Nat \ {0} /\ QSize \in Nat /\ queued \in Int /\ MaxObjs \in Nat
      /\ head \in 0 .. RingSize - 1 /\ tail \in 0 .. RingSize - 1
      /\ nobj \in 0 .. MaxObjs /\ Held \in {0, 1} /\ Held' = Held
      BY <1>3, QueueAssumption DEF QueueAssumption, TypeOK, Slots, Held, dispVars
<1>rs. RingSize \in Nat /\ RingSize # 0 BY <1>6
<1>7. Room'
  <2>1. CASE pc[t] = "woken"
    <3>1. queued + Held + 3 * Cardinality(Woken) <= QSize + 3 * Cardinality(Threads)
          BY <1>4 DEF Room, MaxBatch
    <3>2. Cardinality(Woken') = Cardinality(Woken) - 1 BY <1>5, <2>1
    <3>3. queued' + Held' + 3 * Cardinality(Woken') <= QSize + 3 * Cardinality(Threads)
      <4> HIDE DEF IInv
      <4> DEFINE w == Cardinality(Woken)
                 w2 == Cardinality(Woken')
                 c == Cardinality(Threads)
      <4>1. w \in Nat /\ w2 \in Nat /\ c \in Nat /\ w2 = w - 1 BY <1>5, <3>2
      <4>2. queued + Held + 3 * w <= QSize + 3 * c BY <3>1
      <4>3. queued' = queued + n /\ queued \in Int /\ Held' = Held /\ Held \in Int
            /\ QSize \in Int /\ queued' \in Int /\ Held' \in Int
            BY <1>sum, <1>6
      <4> HIDE DEF w, w2, c
      <4>4. queued' + Held' + 3 * w2 <= QSize + 3 * c BY <4>1, <4>2, <4>3
      <4> QED BY <4>4 DEF w, w2, c
    <3> QED BY <3>3 DEF Room, MaxBatch
  <2>2. CASE pc[t] = "queue"
    <3>1. queued + n <= QSize - 1
          BY <1>2, <2>2 DEF QueueObjs, MayQueue, HasRoom
    <3>2. queued' + Held' + 3 * Cardinality(Woken') <= QSize + 3 * Cardinality(Threads)
          BY <1>sum, <1>2, <1>5, <1>6, <3>1
    <3> QED BY <3>2 DEF Room, MaxBatch
  <2> QED BY <1>1, <2>1, <2>2
<1>8. queued + n < RingSize /\ n < RingSize /\ 0 <= queued
      /\ (tail = head + queued \/ tail = head + queued - RingSize)
  <2>1. queued + n + Held + 3 * Cardinality(Woken') <= QSize + 3 * Cardinality(Threads)
        BY <1>sum, <1>6, <1>7 DEF Room, MaxBatch
  <2>2. QSize + 3 * Cardinality(Threads) < RingSize BY DEF RoomAssumption, MaxBatch
  <2>3. Span BY <1>4
  <2> QED BY <1>2, <1>5, <1>6, <2>1, <2>2, <2>3 DEF Span
<1>9. tail' = IF tail + n < RingSize THEN tail + n ELSE tail + n - RingSize
  <2> DEFINE a == tail + n
  <2>1. a \in Nat /\ a < 2 * RingSize BY <1>6, <1>8
  <2>2. a % RingSize = IF a < RingSize THEN a ELSE a - RingSize
    <3> HIDE DEF a
    <3> QED BY <1>rs, <2>1, ModTwice
  <2> QED BY <1>sum, <1>6, <2>2
<1>10. tail' \in 0 .. RingSize - 1 /\ 0 <= queued'
       /\ (tail' = head' + queued' \/ tail' = head' + queued' - RingSize)
       BY <1>sum, <1>6, <1>8, <1>9
<1>11. \A i \in Slots : Offset(i) < n => Offset(i) \in 0 .. n - 1
       BY <1>2, <1>6 DEF Offset, Slots
<1>12. Fill'
  <2> SUFFICES ASSUME NEW i \in Slots, InWindow(i)'
               PROVE  drawqueue'[i] \in Objs
      BY DEF Fill
  <2>1. CASE Offset(i) < n
    <3>1. drawqueue'[i] = nobj + 1 + Offset(i) BY <1>3, <2>1
    <3> QED BY <1>2, <1>3, <1>6, <1>11, <2>1, <3>1 DEF Objs
  <2>2. CASE ~(Offset(i) < n)
    <3>1. InWindow(i)
          BY <1>sum, <1>6, <1>8, <1>9, <2>2 DEF InWindow, Offset, Slots
    <3>2. drawqueue'[i] = drawqueue[i] BY <1>3, <2>2
    <3> QED BY <3>1, <3>2 DEF Fill
  <2> QED BY <2>1, <2>2
<1>13. TypeOK'
  <2>1. obj' \in [Objs -> ObjRecords]
    <3>1. \A o \in nobj + 1 .. nobj + n : NewObj(t, o - nobj) \in ObjRecords
      <4> SUFFICES ASSUME NEW o \in nobj + 1 .. nobj + n
                   PROVE  NewObj(t, o - nobj) \in ObjRecords
          OBVIOUS
      <4>1. o - nobj \in 1 .. n BY <1>2, <1>6
      <4>2. batch[t][o - nobj] \in Kinds BY <1>2, <4>1
      <4>3. NewTs(t) \in Nat BY DEF NewTs, TypeOK
      <4> QED BY <4>2, <4>3 DEF NewObj, ObjRecords, ObjState, TypeOK
    <3>2. \A o \in Objs : [obj[o] EXCEPT !.skip = TRUE] \in ObjRecords
      <4> SUFFICES ASSUME NEW o \in Objs, NEW r \in ObjRecords, r = obj[o]
                   PROVE  [r EXCEPT !.skip = TRUE] \in ObjRecords
          BY DEF TypeOK
      <4> QED BY DEF ObjRecords
    <3>3. obj' = [o \in Objs |->
                    IF o \in nobj + 1 .. nobj + n THEN NewObj(t, o - nobj)
                    ELSE IF ForceMarker(t, o) THEN [obj[o] EXCEPT !.skip = TRUE]
                    ELSE obj[o]]
          BY <1>2 DEF QueueObjs
    <3>4. \A o \in Objs : obj[o] \in ObjRecords BY DEF TypeOK
    <3> QED BY <3>1, <3>2, <3>3, <3>4
  <2>2. ref' \in [Objs -> Int] BY DEF QueueObjs, TypeOK
  <2>3. drawqueue' \in [Slots -> Objs \cup {None}]
    <3> SUFFICES ASSUME NEW i \in Slots PROVE drawqueue'[i] \in Objs \cup {None}
        BY <1>3
    <3>1. CASE Offset(i) < n
      <4>1. drawqueue'[i] = nobj + 1 + Offset(i) BY <1>3, <3>1
      <4> QED BY <1>2, <1>3, <1>6, <1>11, <3>1, <4>1 DEF Objs
    <3>2. CASE ~(Offset(i) < n) BY <1>3, <3>2 DEF TypeOK
    <3> QED BY <3>1, <3>2
  <2>4. nobj' \in 0 .. MaxObjs /\ queued' \in Int BY <1>2, <1>3, <1>6
  <2>5. timestamp' \in Nat /\ queuedTs' \in Nat BY DEF QueueObjs, NewTs, TypeOK
  <2>6. head' \in Slots /\ tail' \in Slots BY <1>3, <1>6, <1>10 DEF Slots
  <2> QED BY SMTT(30), ZenonT(30), <1>3, <2>1, <2>2, <2>3, <2>4, <2>5, <2>6, ReturnType
          DEF TypeOK, stateVars, dispVars, hwVars, endVars, boundVars
<1>14. Control' BY <1>3, ReturnType DEF Control, stateVars, dispVars, endVars
<1>15. DrainedStaysEmpty' BY <1>4 DEF DrainedStaysEmpty
<1> QED BY <1>4, <1>7, <1>10, <1>12, <1>13, <1>14, <1>15 DEF QueueInv, Span

(* Submitting threads keep the invariant.                                   *)
LEMMA SubmitterStep ==
    ASSUME RoomAssumption, IInv, NEW t \in Threads, Submitter(t)
    PROVE  IInv'
<1> USE DEF IInv
<1>1. CASE QueueStart(t)
  <2>1. PICK b \in Batches : batch' = [batch EXCEPT ![t] = b]
        BY <1>1 DEF QueueStart
  <2>2. userTs' \in [Threads -> Nat] /\ snap' \in [Threads -> Nat]
        BY <1>1, QueueAssumption DEF QueueStart, TypeOK, QueueAssumption
  <2>3. pc' = [pc EXCEPT ![t] = "queue"] /\ pc[t] = "idle"
        BY <1>1 DEF QueueStart
  <2>4. UNCHANGED <<objVars, ringVars, tsVars, stateVars, dispVars, hwVars,
                    endVars, boundVars>>
        BY <1>1 DEF QueueStart
  <2>5. TypeOK' BY <2>1, <2>2, <2>3, <2>4
        DEF TypeOK, objVars, ringVars, tsVars, stateVars, dispVars, hwVars, endVars,
            boundVars
  <2>6. Control' BY <2>1, <2>3, <2>4
        DEF TypeOK, Control, stateVars, dispVars, endVars
  <2>7. Woken' = Woken BY <2>3 DEF TypeOK, Woken
  <2>8. UNCHANGED RingPart BY <2>4 DEF RingPart, ringVars, stateVars, dispVars, endVars
  <2> QED BY <2>5, <2>6, <2>7, <2>8, RingFrame
<1>2. CASE QueueRefused(t) \/ WaitTimeout(t)
  <2>1. Return(t) BY <1>2 DEF QueueRefused, WaitTimeout
  <2>2. UNCHANGED <<objVars, ringVars, tsVars, stateVars, dispVars, hwVars,
                    endVars, boundVars>>
        BY <1>2 DEF QueueRefused, WaitTimeout
  <2>3. pc[t] # "woken" => Woken' = Woken BY <2>1, ReturnType DEF Woken
  <2>4. TypeOK' BY <2>1, <2>2, ReturnType
        DEF TypeOK, objVars, ringVars, tsVars, stateVars, dispVars, hwVars, endVars,
            boundVars
  <2>5. Control' BY <2>1, <2>2, ReturnType DEF Control, stateVars, dispVars, endVars
  <2>6. UNCHANGED RingPart BY <2>2 DEF RingPart, ringVars, stateVars, dispVars, endVars
  <2> QED BY <2>1, <2>4, <2>5, <2>6, ReturnType, RingLeave
<1>3. CASE QueueWait(t)
  <2>1. pc' = [pc EXCEPT ![t] = "check"] /\ pc[t] = "queue" BY <1>3 DEF QueueWait
  <2>2. UNCHANGED <<objVars, ringVars, tsVars, stateVars, batch, userTs, snap,
                    dispVars, hwVars, endVars, boundVars>>
        BY <1>3 DEF QueueWait
  <2>3. TypeOK' BY <2>1, <2>2
        DEF TypeOK, objVars, ringVars, tsVars, stateVars, dispVars, hwVars, endVars,
            boundVars
  <2>4. Control' BY <2>1, <2>2 DEF TypeOK, Control, stateVars, dispVars, endVars
  <2>5. Woken' = Woken BY <2>1 DEF TypeOK, Woken
  <2>6. UNCHANGED RingPart BY <2>2 DEF RingPart, ringVars, stateVars, dispVars, endVars
  <2> QED BY <2>3, <2>4, <2>5, <2>6, RingFrame
<1>4. CASE CheckRoom(t)
  <2>1. /\ pc[t] = "check"
        /\ pc' = [pc EXCEPT ![t] = IF CheckContextQueue(Len(batch[t]))
                                      THEN "woken" ELSE "sleep"]
        BY <1>4 DEF CheckRoom
  <2>2. UNCHANGED <<objVars, ringVars, tsVars, stateVars, batch, userTs, snap,
                    dispVars, hwVars, endVars, boundVars>>
        BY <1>4 DEF CheckRoom
  <2>3. TypeOK' BY <2>1, <2>2
        DEF TypeOK, objVars, ringVars, tsVars, stateVars, dispVars, hwVars, endVars,
            boundVars
  <2>4. Control' BY <2>1, <2>2 DEF TypeOK, Control, stateVars, dispVars, endVars
  <2>5. UNCHANGED RingPart BY <2>2 DEF RingPart, ringVars, stateVars, dispVars, endVars
  <2>6. CASE ~CheckContextQueue(Len(batch[t]))
    <3>1. Woken' = Woken BY <2>1, <2>6 DEF TypeOK, Woken
    <3> QED BY <2>3, <2>4, <2>5, <3>1, RingFrame
  <2>7. CASE CheckContextQueue(Len(batch[t]))
    <3>1. Fill' /\ DrainedStaysEmpty'
          BY <2>5 DEF RingPart, Fill, DrainedStaysEmpty, InWindow, Drained, IsEmpty
    <3>2. Cardinality(Woken') \in Nat /\ Cardinality(Threads) \in Nat
          /\ Cardinality(Woken') <= Cardinality(Threads)
          BY WokenBound DEF Woken
    <3>3. Len(batch[t]) \in 1 .. MaxBatch
          BY <2>1, BatchFacts DEF TypeOK, Control
    <3>4. ~Drained => queued + Len(batch[t]) < QSize
          BY <2>7 DEF CheckContextQueue, Drained
    <3>5. ~Drained => Room'
          BY <3>2, <3>3, <3>4, <2>5, QueueAssumption
          DEF Room, RingPart, Held, MaxBatch, QueueAssumption, TypeOK
    <3>6. QueueInv' BY <3>5, <2>5 DEF QueueInv, RingPart, Drained, Span
    <3> QED BY <2>3, <2>4, <3>1, <3>6
  <2> QED BY <2>6, <2>7
<1>5. CASE QueueFastMarker(t)
  <2>1. Return(t) BY <1>5 DEF QueueFastMarker
  <2>2. timestamp' \in Nat /\ retired' \in Nat
        BY <1>5 DEF QueueFastMarker, NewTs, TypeOK
  <2>3. UNCHANGED <<objVars, ringVars, queuedTs, stateVars, dispVars, hwVars,
                    endVars, boundVars>>
        BY <1>5 DEF QueueFastMarker
  <2>4. TypeOK' BY <2>1, <2>2, <2>3, ReturnType
        DEF TypeOK, objVars, ringVars, stateVars, dispVars, hwVars, endVars, boundVars
  <2>5. Control' BY <2>1, <2>3, ReturnType DEF Control, stateVars, dispVars, endVars
  <2>6. UNCHANGED RingPart BY <2>3 DEF RingPart, ringVars, stateVars, dispVars, endVars
  <2> QED BY <2>1, <2>4, <2>5, <2>6, ReturnType, RingLeave
<1>6. CASE QueueObjs(t) BY <1>6, QueueObjsStep
<1> QED BY <1>1, <1>2, <1>3, <1>4, <1>5, <1>6 DEF Submitter

-----------------------------------------------------------------------------
(* A ring that is not empty has an object at its front.                     *)
LEMMA FrontObj ==
    ASSUME IInv, ~IsEmpty
    PROVE  Front \in Objs
<1>1. head \in 0 .. RingSize - 1 /\ tail \in 0 .. RingSize - 1 /\ head # tail
      BY DEF IInv, TypeOK, Slots, IsEmpty
<1>2. RingSize \in Nat BY QueueAssumption DEF QueueAssumption
<1>3. head \in Slots /\ InWindow(head) BY <1>1, <1>2 DEF InWindow, Slots
<1> QED BY <1>3 DEF IInv, Fill, Front

(* Taking the front of the ring: it holds an object, and the rest of the    *)
(* window is what it was.                                                   *)
LEMMA PopFacts ==
    ASSUME IInv, ~IsEmpty, PopDrawobj, UNCHANGED <<invalid, detach>>
    PROVE  /\ Front \in Objs /\ ~Drained /\ ~Drained'
           /\ head' \in Slots /\ queued' \in Int /\ queued' = queued - 1
           /\ Fill' /\ Span'
<1> USE DEF IInv
<1>1. ~Drained /\ ~Drained' /\ Span
      BY DEF DrainedStaysEmpty, Drained, QueueInv
<1>2. RingSize \in Nat /\ RingSize > 1 BY QueueAssumption DEF QueueAssumption
<1>3. /\ head \in 0 .. RingSize - 1 /\ tail \in 0 .. RingSize - 1 /\ queued \in Int
      /\ head # tail /\ queued' = queued - 1 /\ UNCHANGED <<drawqueue, tail>>
      BY <1>2 DEF TypeOK, Slots, IsEmpty, PopDrawobj
<1>4. 0 <= queued /\ (tail = head + queued \/ tail = head + queued - RingSize)
      BY <1>1 DEF Span
<1>5. head' = IF head + 1 < RingSize THEN head + 1 ELSE 0
  <2> DEFINE a == head + 1
  <2>1. a \in Nat /\ a < 2 * RingSize /\ RingSize # 0 BY <1>2, <1>3
  <2>2. a % RingSize = IF a < RingSize THEN a ELSE a - RingSize
    <3> HIDE DEF a
    <3> QED BY <1>2, <2>1, ModTwice
  <2>3. head' = a % RingSize BY DEF PopDrawobj, NEXT
  <2> QED BY <1>2, <1>3, <2>2, <2>3
<1>6. head' \in 0 .. RingSize - 1 BY <1>2, <1>3, <1>5
<1>7. 0 <= queued' /\ (tail' = head' + queued' \/ tail' = head' + queued' - RingSize)
      BY <1>2, <1>3, <1>4, <1>5
<1>9. \A i \in Slots : InWindow(i)' => InWindow(i)
      BY <1>2, <1>3, <1>5 DEF InWindow, Slots
<1>10. Fill' BY <1>3, <1>9 DEF Fill
<1>11. Front \in Objs BY FrontObj
<1>12. Span' BY <1>7 DEF Span
<1>13. head' \in Slots /\ queued' \in Int BY <1>3, <1>6 DEF Slots
<1> QED BY <1>1, <1>3, <1>10, <1>11, <1>12, <1>13

(* Taking an object out, into the hand or not, keeps within the room.       *)
LEMMA RoomDown ==
    ASSUME IInv, ~Drained, queued' = queued - 1, Woken' = Woken,
           hand' = hand \/ hand = None
    PROVE  Room'
<1>1. queued + Held + MaxBatch * Cardinality(Woken)
          <= QSize + MaxBatch * Cardinality(Threads)
      BY DEF IInv, QueueInv, Room
<1>2. Cardinality(Woken) \in Nat /\ Cardinality(Threads) \in Nat BY WokenBound DEF Woken
<1>3. Held \in 0 .. 1 /\ Held' \in 0 .. 1 /\ Held' <= Held + 1 BY DEF Held
<1>4. queued \in Int /\ queued' \in Int /\ QSize \in Nat
      BY QueueAssumption DEF QueueAssumption, IInv, TypeOK
<1>5. queued' + Held' + 3 * Cardinality(Woken) <= QSize + 3 * Cardinality(Threads)
      BY <1>1, <1>2, <1>3, <1>4 DEF MaxBatch
<1> QED BY <1>5 DEF Room, MaxBatch

(* An object that changes state is still a well-formed object.              *)
LEMMA StateType ==
    ASSUME TypeOK, NEW p \in Objs, NEW st \in ObjState
    PROVE  [obj[p] EXCEPT !.st = st] \in ObjRecords
<1> SUFFICES ASSUME NEW r \in ObjRecords, r = obj[p]
             PROVE  [r EXCEPT !.st = st] \in ObjRecords
    BY DEF TypeOK
<1> QED BY DEF ObjRecords

(* Putting a command back: the slot before the head is free.                *)
LEMMA PutBackFacts ==
    ASSUME RoomAssumption, IInv, ~ContextBad, hand \in Objs, hand' = None, PutBack,
           UNCHANGED <<invalid, detach, pc>>
    PROVE  /\ head' \in Slots /\ queued' \in Int
           /\ drawqueue' \in [Slots -> Objs \cup {None}]
           /\ Fill' /\ QueueInv' /\ DrainedStaysEmpty'
<1> USE DEF IInv
<1>1. ~Drained /\ ~Drained' /\ Room /\ Span
      BY DEF ContextBad, Drained, Control, QueueInv
<1>2. RingSize \in Nat /\ RingSize > 1 /\ QSize \in Nat
      BY QueueAssumption DEF QueueAssumption
<1>3. /\ head \in 0 .. RingSize - 1 /\ tail \in 0 .. RingSize - 1 /\ queued \in Int
      /\ queued' = queued + 1 /\ tail' = tail
      BY <1>2 DEF TypeOK, Slots, PutBack
<1>4. 0 <= queued /\ (tail = head + queued \/ tail = head + queued - RingSize)
      BY <1>1 DEF Span
<1>5. Held = 1 /\ Held' = 0 BY DEF Held, Objs, None
<1>6. Woken' = Woken BY DEF Woken
<1>7. Cardinality(Woken) \in Nat /\ Cardinality(Threads) \in Nat BY WokenBound DEF Woken
<1>8. Room'
  <2>1. queued + 1 + 3 * Cardinality(Woken) <= QSize + 3 * Cardinality(Threads)
        BY <1>1, <1>5 DEF Room, MaxBatch
  <2>2. queued' + 0 + 3 * Cardinality(Woken) <= QSize + 3 * Cardinality(Threads)
        BY <1>2, <1>3, <1>7, <2>1
  <2> QED BY <1>5, <1>6, <2>2 DEF Room, MaxBatch
<1>9. queued + 1 < RingSize
  <2>1. queued + 1 + 3 * Cardinality(Woken) <= QSize + 3 * Cardinality(Threads)
        BY <1>1, <1>5 DEF Room, MaxBatch
  <2>2. QSize + 3 * Cardinality(Threads) < RingSize BY DEF RoomAssumption, MaxBatch
  <2> QED BY <1>2, <1>3, <1>7, <2>1, <2>2
<1>10. head' = IF head = 0 THEN RingSize - 1 ELSE head - 1
       BY DEF PutBack, PREV
<1>11. head' \in 0 .. RingSize - 1 BY <1>2, <1>3, <1>10
<1>12. 0 <= queued' /\ (tail' = head' + queued' \/ tail' = head' + queued' - RingSize)
       BY <1>2, <1>3, <1>4, <1>9, <1>10
<1>13. drawqueue' = [drawqueue EXCEPT ![head'] = hand] BY DEF PutBack
<1>14. drawqueue' \in [Slots -> Objs \cup {None}]
       BY <1>11, <1>13 DEF TypeOK, Slots
<1>15. \A i \in Slots : InWindow(i)' => i = head' \/ InWindow(i)
       BY <1>2, <1>3, <1>10 DEF InWindow, Slots
<1>16. Fill' BY <1>13, <1>15 DEF Fill, TypeOK
<1>17. Span' BY <1>12 DEF Span
<1>18. QueueInv' /\ DrainedStaysEmpty' BY <1>1, <1>8, <1>17 DEF QueueInv, DrainedStaysEmpty
<1>19. head' \in Slots /\ queued' \in Int BY <1>3, <1>11 DEF Slots
<1> QED BY <1>14, <1>16, <1>18, <1>19

(* A command that leaves the dispatcher's hand for good frees its place.    *)
LEMMA HandDown ==
    ASSUME IInv, hand \in Objs, hand' = None,
           UNCHANGED <<drawqueue, head, tail, queued, invalid, detach, pc>>
    PROVE  Fill' /\ QueueInv' /\ DrainedStaysEmpty'
<1>1. Fill' /\ DrainedStaysEmpty'
      BY DEF IInv, Fill, DrainedStaysEmpty, InWindow, Drained, IsEmpty
<1>2. Woken' = Woken BY DEF Woken
<1>3. Cardinality(Woken) \in Nat /\ Cardinality(Threads) \in Nat BY WokenBound DEF Woken
<1>4. Held = 1 /\ Held' = 0 BY DEF Held, Objs, None
<1>5. queued \in Int /\ QSize \in Nat
      BY QueueAssumption DEF QueueAssumption, IInv, TypeOK
<1>6. ~Drained => Room'
  <2> SUFFICES ASSUME ~Drained PROVE Room' OBVIOUS
  <2>1. queued + 1 + 3 * Cardinality(Woken) <= QSize + 3 * Cardinality(Threads)
        BY <1>4 DEF IInv, QueueInv, Room, MaxBatch
  <2>2. queued + 0 + 3 * Cardinality(Woken) <= QSize + 3 * Cardinality(Threads)
        BY <1>3, <1>5, <2>1
  <2> QED BY <1>2, <1>4, <2>2 DEF Room, MaxBatch
<1> QED BY <1>1, <1>6 DEF IInv, QueueInv, Drained, Span

(* Draining the ring leaves nothing in it; what was in it are objects.      *)
LEMMA DrainFacts ==
    ASSUME IInv, head' = tail, tail' = tail, UNCHANGED drawqueue, Drained'
    PROVE  /\ head' \in Slots /\ QueuedObjs \in SUBSET Objs
           /\ Fill' /\ QueueInv' /\ DrainedStaysEmpty'
<1>1. QueuedObjs \in SUBSET Objs BY DEF IInv, Fill, QueuedObjs, Window
<1>2. head' \in Slots BY DEF IInv, TypeOK
<1>3. Fill'
  <2> SUFFICES ASSUME NEW i \in Slots, InWindow(i)' PROVE FALSE BY DEF Fill
  <2>1. tail \in Int /\ i \in Int
        BY QueueAssumption DEF QueueAssumption, IInv, TypeOK, Slots
  <2> QED BY <2>1 DEF InWindow
<1> QED BY <1>1, <1>2, <1>3 DEF QueueInv, DrainedStaysEmpty, IsEmpty

-----------------------------------------------------------------------------
(* What a step of the dispatcher leaves alone.                              *)
LEMMA DispatchFrame ==
    ASSUME Control, SubmitterUnchanged
    PROVE  /\ Woken' = Woken /\ UNCHANGED <<pc, batch, invalid, detach, detached>>
           /\ \A t \in Threads : pc'[t] # "idle" => batch'[t] \in Batches
           /\ detach' # "none" => detached'
BY DEF Control, SubmitterUnchanged, subVars, stateVars, Woken

(* The dispatcher keeps the invariant.                                      *)
LEMMA DispatchStep ==
    ASSUME RoomAssumption, IInv, Dispatch
    PROVE  IInv'
<1> USE DEF IInv
<1>1. CASE Consider \/ NextCommand \/ ScanEnds
  <2>1. /\ SubmitterUnchanged /\ UNCHANGED <<objVars, ringVars, retired, hand, hwVars>>
        /\ dpc' \in {"idle", "next", "scan", "busyscan", "wake"}
        /\ dpc \notin {"send", "requeue"} /\ count' \in Nat
        BY <1>1 DEF Consider, NextCommand, ScanEnds, Scanning, EndScan, TypeOK
  <2>2. TypeOK' BY <2>1
        DEF TypeOK, objVars, ringVars, subVars, stateVars, hwVars, boundVars,
            SubmitterUnchanged
  <2>3. Control' BY <2>1, DispatchFrame DEF Control
  <2>4. UNCHANGED RingPart BY <2>1, DispatchFrame DEF RingPart, ringVars
  <2> QED BY <2>1, <2>2, <2>3, <2>4, DispatchFrame, RingFrame
<1>2. CASE RetireFront
  <2>1. /\ ~IsEmpty /\ PopDrawobj /\ Destroy({Front}) /\ SubmitterUnchanged
        /\ UNCHANGED <<dispVars, hwVars>>
        /\ retired' = IF obj[Front].kind \in StampedKinds THEN obj[Front].ts ELSE retired
        BY <1>2 DEF RetireFront
  <2>2. UNCHANGED <<invalid, detach, pc, hand>> /\ Woken' = Woken
        BY <2>1, DispatchFrame DEF dispVars
  <2>3. /\ Front \in Objs /\ ~Drained /\ ~Drained' /\ head' \in Slots
        /\ queued' \in Int /\ queued' = queued - 1 /\ Fill' /\ Span'
        BY <2>1, <2>2, PopFacts
  <2>4. retired' \in Nat BY <2>1, <2>3 DEF TypeOK, ObjRecords
  <2>5. TypeOK' BY <2>1, <2>3, <2>4, DestroyType
        DEF TypeOK, PopDrawobj, subVars, stateVars, dispVars, hwVars, boundVars,
            SubmitterUnchanged
  <2>6. Control' BY <2>1, DispatchFrame DEF Control, dispVars
  <2>7. Room' BY <2>2, <2>3, RoomDown
  <2> QED BY <2>3, <2>5, <2>6, <2>7 DEF QueueInv, DrainedStaysEmpty
<1>3. CASE StartBind
  <2>1. /\ ~IsEmpty /\ BindTrigger(Front) /\ SubmitterUnchanged
        /\ UNCHANGED <<nobj, ringVars, retired, hand, count, hwVars>>
        /\ dpc \notin {"send", "requeue"} /\ dpc' \in {"idle", "wake"}
        BY <1>3 DEF StartBind, Scanning, EndScan
  <2>2. obj' \in [Objs -> ObjRecords] /\ ref' \in [Objs -> Int]
    <3>1. \A p \in Objs : [obj[p] EXCEPT !.st = "started"] \in ObjRecords
          BY StateType DEF ObjState
    <3>2. Front \in Objs BY <2>1, FrontObj
    <3> QED BY <2>1, <3>1, <3>2 DEF BindTrigger, TypeOK
  <2>3. TypeOK' BY <2>1, <2>2
        DEF TypeOK, ringVars, subVars, stateVars, hwVars, boundVars, SubmitterUnchanged
  <2>4. Control' BY <2>1, DispatchFrame DEF Control
  <2>5. UNCHANGED RingPart BY <2>1, DispatchFrame DEF RingPart, ringVars
  <2> QED BY <2>1, <2>3, <2>4, <2>5, DispatchFrame, RingFrame
<1>4. CASE TakeCommand
  <2>1. /\ ~IsEmpty /\ SubmitterUnchanged /\ UNCHANGED <<objVars, retired, count, hwVars>>
        /\ dpc \in {"scan", "busyscan"}
        BY <1>4 DEF TakeCommand, Scanning
  <2>2. CASE dpc = "scan"
    <3>1. PopDrawobj /\ hand' = Front /\ dpc' = "send" BY <1>4, <2>2 DEF TakeCommand
    <3>2. UNCHANGED <<invalid, detach, pc>> /\ Woken' = Woken BY <2>1, DispatchFrame
    <3>3. /\ Front \in Objs /\ ~Drained /\ ~Drained' /\ head' \in Slots
          /\ queued' \in Int /\ queued' = queued - 1 /\ Fill' /\ Span'
          BY <2>1, <3>1, <3>2, PopFacts
    <3>4. TypeOK' BY <2>1, <3>1, <3>3
          DEF TypeOK, PopDrawobj, objVars, subVars, stateVars, hwVars, boundVars,
              SubmitterUnchanged
    <3>5. Control' BY <2>1, <3>1, <3>3, DispatchFrame DEF Control, Objs, None
    <3>6. hand = None BY <2>1 DEF Control
    <3>7. Room' BY <3>2, <3>3, <3>6, RoomDown
    <3> QED BY <3>3, <3>4, <3>5, <3>7 DEF QueueInv, DrainedStaysEmpty
  <2>3. CASE dpc # "scan"
    <3>1. UNCHANGED <<ringVars, hand>> /\ dpc' = "idle" BY <1>4, <2>3 DEF TakeCommand
    <3>2. TypeOK' BY <2>1, <3>1
          DEF TypeOK, ringVars, objVars, subVars, stateVars, hwVars, boundVars,
              SubmitterUnchanged
    <3>3. Control' BY <2>1, <3>1, DispatchFrame DEF Control
    <3>4. UNCHANGED RingPart BY <2>1, <3>1, DispatchFrame DEF RingPart, ringVars
    <3> QED BY <2>1, <3>2, <3>3, <3>4, DispatchFrame, RingFrame
  <2> QED BY <2>2, <2>3
<1>5. CASE SendOk
  <2>1. /\ dpc = "send" /\ hand' = None /\ count' = count + 1 /\ dpc' = "next"
        /\ inflight' = Append(inflight, hand) /\ gpu' = Append(gpu, hand)
        /\ UNCHANGED <<objVars, ringVars, retired, fault>> /\ SubmitterUnchanged
        BY <1>5 DEF SendOk
  <2>2. hand \in Objs BY <2>1 DEF Control, TypeOK
  <2>3. inflight' \in Seq(Objs) /\ gpu' \in Seq(Objs) BY <2>1, <2>2 DEF TypeOK
  <2>4. TypeOK' BY <2>1, <2>3
        DEF TypeOK, ringVars, objVars, subVars, stateVars, boundVars, SubmitterUnchanged
  <2>5. Control' BY <2>1, DispatchFrame DEF Control
  <2>6. UNCHANGED <<drawqueue, head, tail, queued, invalid, detach, pc>>
        BY <2>1, DispatchFrame DEF ringVars
  <2> QED BY <2>1, <2>2, <2>4, <2>5, <2>6, HandDown
<1>6. CASE SendGone
  <2>1. /\ dpc = "send" /\ hand' = None /\ dpc' = "wake" /\ Destroy({hand})
        /\ UNCHANGED <<ringVars, retired, count, hwVars>> /\ SubmitterUnchanged
        BY <1>6 DEF SendGone
  <2>2. hand \in Objs BY <2>1 DEF Control, TypeOK
  <2>3. TypeOK' BY <2>1, DestroyType
        DEF TypeOK, ringVars, subVars, stateVars, hwVars, boundVars, SubmitterUnchanged
  <2>4. Control' BY <2>1, DispatchFrame DEF Control
  <2>5. UNCHANGED <<drawqueue, head, tail, queued, invalid, detach, pc>>
        BY <2>1, DispatchFrame DEF ringVars
  <2> QED BY <2>1, <2>2, <2>3, <2>4, <2>5, HandDown
<1>7. CASE SendFails
  <2>1. /\ dpc = "send" /\ dpc' = "requeue" /\ nfails' \in Nat
        /\ UNCHANGED <<objVars, ringVars, tsVars, stateVars, subVars, hand, count,
                       hwVars, endVars, nfaults>>
        BY <1>7 DEF SendFails, TypeOK
  <2>2. TypeOK' BY <2>1
        DEF TypeOK, ringVars, objVars, tsVars, subVars, stateVars, hwVars, endVars
  <2>3. Control' BY <2>1 DEF Control, subVars, stateVars, endVars
  <2>4. UNCHANGED RingPart /\ Woken' = Woken
        BY <2>1 DEF RingPart, ringVars, stateVars, endVars, subVars, Woken
  <2> QED BY <2>2, <2>3, <2>4, RingFrame
<1>8. CASE Requeue
  <2>1. /\ dpc = "requeue" /\ hand' = None /\ dpc' = "wake"
        /\ UNCHANGED <<retired, count, hwVars>> /\ SubmitterUnchanged
        BY <1>8 DEF Requeue
  <2>2. hand \in Objs BY <2>1 DEF Control, TypeOK
  <2>3. Control' BY <2>1, DispatchFrame DEF Control
  <2>4. UNCHANGED <<invalid, detach, pc>> BY <2>1, DispatchFrame
  <2>5. CASE ContextBad
    <3>1. Destroy({hand}) /\ UNCHANGED ringVars BY <1>8, <2>5 DEF Requeue
    <3>2. TypeOK' BY <2>1, <3>1, DestroyType
          DEF TypeOK, ringVars, subVars, stateVars, hwVars, boundVars, SubmitterUnchanged
    <3>3. UNCHANGED <<drawqueue, head, tail, queued, invalid, detach, pc>>
          BY <2>4, <3>1 DEF ringVars
    <3> QED BY <2>1, <2>2, <2>3, <3>2, <3>3, HandDown
  <2>6. CASE ~ContextBad
    <3>1. PutBack /\ UNCHANGED objVars BY <1>8, <2>6 DEF Requeue
    <3>2. /\ head' \in Slots /\ queued' \in Int
          /\ drawqueue' \in [Slots -> Objs \cup {None}]
          /\ Fill' /\ QueueInv' /\ DrainedStaysEmpty'
          BY <2>1, <2>2, <2>4, <2>6, <3>1, PutBackFacts
    <3>3. tail' = tail BY <3>1 DEF PutBack
    <3>4. TypeOK' BY <2>1, <3>1, <3>2, <3>3
          DEF TypeOK, objVars, subVars, stateVars, hwVars, boundVars, SubmitterUnchanged
    <3> QED BY <2>3, <3>2, <3>4
  <2> QED BY <2>5, <2>6
<1>9. CASE WakeSubmitters
  <2>1. /\ dpc = "wake" /\ dpc' = "idle" /\ count' = 0
        /\ pc' = WakeAll \/ pc' = pc
        /\ UNCHANGED <<objVars, ringVars, tsVars, stateVars, batch, userTs, snap,
                       hand, hwVars, endVars, boundVars>>
        BY <1>9 DEF WakeSubmitters
  <2>2. /\ pc' \in [Threads -> {"idle", "queue", "check", "sleep", "woken"}]
        /\ \A t \in Threads : pc'[t] # "idle" => batch'[t] \in Batches
        /\ Woken' = Woken
        BY <2>1, WakeType DEF TypeOK, Control, Woken
  <2>3. TypeOK' BY <2>1, <2>2
        DEF TypeOK, ringVars, objVars, tsVars, stateVars, hwVars, endVars, boundVars
  <2>4. Control' BY <2>1, <2>2 DEF Control, stateVars, endVars
  <2>5. UNCHANGED RingPart BY <2>1 DEF RingPart, ringVars, stateVars, endVars
  <2> QED BY <2>2, <2>3, <2>4, <2>5, RingFrame
<1>10. CASE FinishInvalidate
  <2>1. /\ dpc = "invalidate" /\ Destroy(Condemned) /\ dpc' = "idle" /\ pc' = WakeAll
        /\ doomed' = [doomed EXCEPT !["dispatcher"] = {}]
        /\ inflight' = << >> /\ fault' = FALSE
        /\ UNCHANGED <<ringVars, tsVars, stateVars, batch, userTs, snap, hand, count,
                       gpu, detach, boundVars>>
        BY <1>10 DEF FinishInvalidate
  <2>2. /\ pc' \in [Threads -> {"idle", "queue", "check", "sleep", "woken"}]
        /\ \A t \in Threads : pc'[t] # "idle" => batch'[t] \in Batches
        /\ Woken' = Woken
        BY <2>1, WakeType
  <2>6. doomed' \in [{"dispatcher", "detacher"} -> SUBSET Objs] BY <2>1 DEF TypeOK
  <2>7. obj' \in [Objs -> ObjRecords] /\ ref' \in [Objs -> Int] /\ nobj' \in 0 .. MaxObjs
        BY <2>1, DestroyType
  <2>3. TypeOK' BY <2>1, <2>2, <2>6, <2>7, NoObjects
        DEF TypeOK, ringVars, tsVars, stateVars, boundVars
  <2>4. Control' BY <2>1, <2>2 DEF Control, stateVars
  <2>5. UNCHANGED RingPart BY <2>1 DEF RingPart, ringVars, stateVars
  <2> QED BY <2>2, <2>3, <2>4, <2>5, RingFrame
<1> QED BY <1>1, <1>2, <1>3, <1>4, <1>5, <1>6, <1>7, <1>8, <1>9, <1>10 DEF Dispatch

(* The GPU, retirement and fault recovery keep the invariant.               *)
LEMMA HardwareStep ==
    ASSUME RoomAssumption, IInv, GpuFinish \/ RetireInflight \/ GpuFault \/ Recover
    PROVE  IInv'
<1> USE DEF IInv
<1>1. CASE GpuFinish
  <2>1. /\ gpu # << >> /\ retired' = obj[Head(gpu)].ts /\ gpu' = Tail(gpu)
        /\ UNCHANGED <<objVars, ringVars, dispVars, inflight, fault>>
        /\ SubmitterUnchanged
        BY <1>1 DEF GpuFinish
  <2>2. Head(gpu) \in Objs /\ gpu' \in Seq(Objs) BY <2>1 DEF TypeOK
  <2>3. retired' \in Nat BY <2>1, <2>2 DEF TypeOK, ObjRecords
  <2>4. TypeOK' BY <2>1, <2>2, <2>3
        DEF TypeOK, objVars, ringVars, dispVars, subVars, stateVars, boundVars,
            SubmitterUnchanged
  <2>5. Control' BY <2>1, DispatchFrame DEF Control, dispVars
  <2>6. UNCHANGED RingPart BY <2>1, DispatchFrame DEF RingPart, ringVars, dispVars
  <2> QED BY <2>1, <2>4, <2>5, <2>6, DispatchFrame, RingFrame
<1>2. CASE RetireInflight
  <2>1. /\ inflight # << >> /\ Destroy({Head(inflight)}) /\ inflight' = Tail(inflight)
        /\ UNCHANGED <<ringVars, retired, dispVars, gpu, fault>> /\ SubmitterUnchanged
        BY <1>2 DEF RetireInflight
  <2>2. inflight' \in Seq(Objs) BY <2>1 DEF TypeOK
  <2>3. TypeOK' BY <2>1, <2>2, DestroyType
        DEF TypeOK, ringVars, dispVars, subVars, stateVars, boundVars, SubmitterUnchanged
  <2>4. Control' BY <2>1, DispatchFrame DEF Control, dispVars
  <2>5. UNCHANGED RingPart BY <2>1, DispatchFrame DEF RingPart, ringVars, dispVars
  <2> QED BY <2>1, <2>3, <2>4, <2>5, DispatchFrame, RingFrame
<1>3. CASE GpuFault
  <2>1. /\ fault' = TRUE /\ nfaults' \in Nat
        /\ UNCHANGED <<objVars, ringVars, tsVars, stateVars, subVars, dispVars,
                       inflight, gpu, endVars, nfails>>
        BY <1>3 DEF GpuFault, TypeOK
  <2>2. TypeOK' BY <2>1
        DEF TypeOK, objVars, ringVars, tsVars, stateVars, subVars, dispVars, endVars
  <2>3. Control' BY <2>1 DEF Control, dispVars, subVars, stateVars, endVars
  <2>4. UNCHANGED RingPart /\ Woken' = Woken
        BY <2>1 DEF RingPart, ringVars, stateVars, dispVars, endVars, subVars, Woken
  <2> QED BY <2>2, <2>3, <2>4, RingFrame
<1>4. CASE RecoverReplay
  <2>1. /\ gpu' = inflight /\ fault' = FALSE
        /\ UNCHANGED <<objVars, ringVars, retired, dispVars, inflight>>
        /\ SubmitterUnchanged
        BY <1>4 DEF RecoverReplay
  <2>2. TypeOK' BY <2>1
        DEF TypeOK, objVars, ringVars, dispVars, subVars, stateVars, boundVars,
            SubmitterUnchanged
  <2>3. Control' BY <2>1, DispatchFrame DEF Control, dispVars
  <2>4. UNCHANGED RingPart BY <2>1, DispatchFrame DEF RingPart, ringVars, dispVars
  <2> QED BY <2>1, <2>2, <2>3, <2>4, DispatchFrame, RingFrame
<1>5. CASE RecoverDrop
  <2>1. /\ Destroy(SetOf(inflight)) /\ inflight' = << >> /\ gpu' = << >> /\ fault' = FALSE
        /\ UNCHANGED <<ringVars, retired, dispVars>> /\ SubmitterUnchanged
        BY <1>5 DEF RecoverDrop
  <2>5. /\ obj' \in [Objs -> ObjRecords] /\ ref' \in [Objs -> Int]
        /\ nobj' \in 0 .. MaxObjs
        BY <2>1, DestroyType
  <2>2. TypeOK' BY <2>1, <2>5, NoObjects
        DEF TypeOK, ringVars, dispVars, subVars, stateVars, boundVars, SubmitterUnchanged
  <2>3. Control' BY <2>1, DispatchFrame DEF Control, dispVars
  <2>4. UNCHANGED RingPart BY <2>1, DispatchFrame DEF RingPart, ringVars, dispVars
  <2> QED BY <2>1, <2>2, <2>3, <2>4, DispatchFrame, RingFrame
<1>6. CASE RecoverGuilty
  <2>1. /\ dpc = "idle" /\ invalid' = TRUE /\ retired' = timestamp
        /\ doomed' = [doomed EXCEPT !["dispatcher"] = QueuedObjs]
        /\ head' = tail /\ gpu' = << >> /\ dpc' = "invalidate"
        /\ UNCHANGED <<objVars, drawqueue, tail, queued, timestamp, queuedTs, detached,
                       subVars, hand, count, inflight, fault, detach, boundVars>>
        BY <1>6 DEF RecoverGuilty, Recovering
  <2>2. Drained' BY <2>1 DEF Drained
  <2>3. /\ head' \in Slots /\ QueuedObjs \in SUBSET Objs
        /\ Fill' /\ QueueInv' /\ DrainedStaysEmpty'
        BY <2>1, <2>2, DrainFacts
  <2>4. doomed' \in [{"dispatcher", "detacher"} -> SUBSET Objs] BY <2>1, <2>3 DEF TypeOK
  <2>5. TypeOK' BY <2>1, <2>3, <2>4 DEF TypeOK, objVars, subVars, boundVars
  <2>6. Control' BY <2>1 DEF Control, subVars
  <2> QED BY <2>3, <2>5, <2>6
<1> QED BY <1>1, <1>2, <1>3, <1>4, <1>5, <1>6 DEF Recover

(* The detaching thread keeps the invariant.                                *)
LEMMA DetacherStep ==
    ASSUME RoomAssumption, IInv, Detacher
    PROVE  IInv'
<1> USE DEF IInv
<1>1. CASE DetachMark
  <2>1. /\ detach = "none" /\ detached' = TRUE /\ detach' = "marked"
        /\ UNCHANGED <<objVars, ringVars, tsVars, invalid, subVars, dispVars, hwVars,
                       doomed, boundVars>>
        BY <1>1 DEF DetachMark
  <2>2. TypeOK' BY <2>1
        DEF TypeOK, objVars, ringVars, tsVars, subVars, dispVars, hwVars, boundVars
  <2>3. Control' BY <2>1 DEF Control, subVars, dispVars
  <2>4. Drained' = Drained BY <2>1 DEF Drained
  <2>5. UNCHANGED <<drawqueue, head, tail, queued, hand>> /\ Woken' = Woken
        BY <2>1 DEF ringVars, dispVars, subVars, Woken
  <2> QED BY <2>2, <2>3, <2>4, <2>5
          DEF Fill, QueueInv, DrainedStaysEmpty, InWindow, Room, Span, Held, IsEmpty
<1>2. CASE DetachDrain
  <2>1. /\ detach = "marked" /\ doomed' = [doomed EXCEPT !["detacher"] = QueuedObjs]
        /\ head' = tail /\ detach' = "drained"
        /\ UNCHANGED <<objVars, drawqueue, tail, queued, tsVars, stateVars, subVars,
                       dispVars, hwVars, boundVars>>
        BY <1>2 DEF DetachDrain
  <2>2. Drained' BY <2>1 DEF Drained
  <2>3. /\ head' \in Slots /\ QueuedObjs \in SUBSET Objs
        /\ Fill' /\ QueueInv' /\ DrainedStaysEmpty'
        BY <2>1, <2>2, DrainFacts
  <2>4. doomed' \in [{"dispatcher", "detacher"} -> SUBSET Objs] BY <2>1, <2>3 DEF TypeOK
  <2>5. TypeOK' BY <2>1, <2>3, <2>4
        DEF TypeOK, objVars, tsVars, stateVars, subVars, dispVars, hwVars, boundVars
  <2>6. Control' BY <2>1 DEF Control, subVars, stateVars, dispVars
  <2> QED BY <2>3, <2>5, <2>6
<1>3. CASE DetachDestroy \/ DetachDone \/ DetachTimeout \/ DetachGiveUp
  <2>1. /\ detach \notin {"none", "marked"} /\ detach' \notin {"none", "marked"}
        /\ detach' \in {"wait", "done", "timedout", "gaveup"}
        /\ UNCHANGED <<ringVars, stateVars, dispVars, batch>>
        /\ pc' = WakeAll \/ pc' = pc
        BY <1>3 DEF DetachDestroy, DetachDone, DetachTimeout, DetachGiveUp, subVars
  <2>2. /\ pc' \in [Threads -> {"idle", "queue", "check", "sleep", "woken"}]
        /\ \A t \in Threads : pc'[t] # "idle" => batch'[t] \in Batches
        /\ Woken' = Woken
        BY <2>1, WakeType DEF TypeOK, Control, Woken
  <2>3. Control' BY <2>1, <2>2 DEF Control, stateVars, dispVars
  <2>4. TypeOK'
    <3>1. CASE DetachDestroy
      <4>1. /\ Destroy(doomed["detacher"]) /\ doomed' = [doomed EXCEPT !["detacher"] = {}]
            /\ UNCHANGED <<ringVars, tsVars, stateVars, subVars, dispVars, hwVars,
                           boundVars>>
            BY <3>1 DEF DetachDestroy
      <4>2. doomed' \in [{"dispatcher", "detacher"} -> SUBSET Objs] BY <4>1 DEF TypeOK
      <4>3. /\ obj' \in [Objs -> ObjRecords] /\ ref' \in [Objs -> Int]
            /\ nobj' \in 0 .. MaxObjs
            BY <4>1, DestroyType
      <4> QED BY <2>1, <4>1, <4>2, <4>3
              DEF TypeOK, ringVars, tsVars, stateVars, subVars, dispVars, hwVars, boundVars
    <3>2. CASE DetachDone \/ DetachTimeout \/ DetachGiveUp
      <4>1. /\ retired' \in Nat /\ fault' \in BOOLEAN /\ nfaults' \in Nat
            /\ UNCHANGED <<objVars, ringVars, timestamp, queuedTs, stateVars, batch,
                           userTs, snap, dispVars, inflight, gpu, doomed, nfails>>
        <5>1. CASE DetachDone
              BY <5>1 DEF DetachDone, TypeOK, hwVars, boundVars
        <5>2. CASE DetachTimeout
              BY <5>2 DEF DetachTimeout, TypeOK, tsVars, subVars
        <5>3. CASE DetachGiveUp
              BY <5>3 DEF DetachGiveUp, TypeOK, tsVars, hwVars, boundVars
        <5> QED BY <3>2, <5>1, <5>2, <5>3
      <4> QED BY <2>1, <2>2, <4>1 DEF TypeOK, objVars, ringVars, stateVars, dispVars
    <3> QED BY <1>3, <3>1, <3>2
  <2>5. /\ Drained' /\ Drained /\ Fill' /\ DrainedStaysEmpty'
        BY <2>1 DEF Drained, Fill, DrainedStaysEmpty, InWindow, IsEmpty, ringVars
  <2> QED BY <2>3, <2>4, <2>5 DEF QueueInv
<1> QED BY <1>1, <1>2, <1>3 DEF Detacher

(* Fences, timestamp events and binds keep the invariant.                   *)
LEMMA CallbackStep ==
    ASSUME RoomAssumption, IInv, NEW o \in Objs, Callback(o)
    PROVE  IInv'
<1> USE DEF IInv
<1>1. Finish(o) BY DEF Callback, SyncExpire, TsSyncExpire, BindDone
<1>2. /\ obj' = [obj EXCEPT ![o].st = "done"] /\ ref' = [ref EXCEPT ![o] = @ - 1]
      /\ UNCHANGED <<nobj, ringVars, retired, dispVars, hwVars>> /\ SubmitterUnchanged
      BY <1>1 DEF Finish
<1>3. obj' \in [Objs -> ObjRecords] /\ ref' \in [Objs -> Int]
  <2>1. \A p \in Objs : [obj[p] EXCEPT !.st = "done"] \in ObjRecords
        BY StateType DEF ObjState
  <2> QED BY <1>2, <2>1 DEF TypeOK
<1>4. TypeOK' BY SMTT(30), ZenonT(30), <1>2, <1>3
      DEF TypeOK, ringVars, dispVars, hwVars, subVars, stateVars, boundVars,
          SubmitterUnchanged
<1>5. Control' BY <1>2, DispatchFrame DEF Control, dispVars
<1>6. UNCHANGED RingPart BY <1>2, DispatchFrame DEF RingPart, ringVars, dispVars
<1> QED BY <1>2, <1>4, <1>5, <1>6, DispatchFrame, RingFrame

-----------------------------------------------------------------------------
(* The invariant holds of a new context.                                    *)
LEMMA InitIInv == Init => IInv
<1> SUFFICES ASSUME Init PROVE IInv OBVIOUS
<1> USE QueueAssumption DEF Init
<1>1. TypeOK
  <2>1. NoObj \in ObjRecords BY DEF NoObj, ObjRecords, ObjState
  <2>2. /\ obj \in [Objs -> ObjRecords] /\ ref \in [Objs -> Int]
        /\ doomed \in [{"dispatcher", "detacher"} -> SUBSET Objs]
        BY <2>1
  <2>3. nobj \in 0 .. MaxObjs /\ head \in Slots /\ tail \in Slots
        BY DEF QueueAssumption, Slots
  <2>4. inflight \in Seq(Objs) /\ gpu \in Seq(Objs) BY NoObjects
  <2>5. drawqueue \in [Slots -> Objs \cup {None}]
        /\ pc \in [Threads -> {"idle", "queue", "check", "sleep", "woken"}]
        /\ batch \in [Threads -> Batches \cup {<< >>}]
        /\ userTs \in [Threads -> Nat] /\ snap \in [Threads -> Nat]
        OBVIOUS
  <2>6. /\ queued \in Int /\ timestamp \in Nat /\ queuedTs \in Nat /\ retired \in Nat
        /\ count \in Nat /\ nfaults \in Nat /\ nfails \in Nat
        OBVIOUS
  <2> QED BY <2>2, <2>3, <2>4, <2>5, <2>6 DEF TypeOK, None
<1>2. Control BY DEF Control
<1>3. head = tail /\ head \in Int BY DEF QueueAssumption
<1>4. Fill BY <1>3 DEF Fill, InWindow, Slots, QueueAssumption
<1>5. DrainedStaysEmpty BY DEF DrainedStaysEmpty, IsEmpty
<1>6. QueueInv
  <2>1. Woken = {} /\ Held = 0 BY DEF Woken, Held
  <2>2. Cardinality(Woken) = 0 BY <2>1, FS_EmptySet
  <2>3. Cardinality(Threads) \in Nat BY WokenBound
  <2>4. queued + 0 + MaxBatch * 0 <= QSize + MaxBatch * Cardinality(Threads)
        BY <2>3 DEF QueueAssumption, MaxBatch
  <2>5. Room BY <2>1, <2>2, <2>4 DEF Room
  <2>6. Span BY <1>3 DEF Span
  <2> QED BY <2>5, <2>6 DEF QueueInv
<1> QED BY <1>1, <1>2, <1>4, <1>5, <1>6 DEF IInv

(* Every step keeps the invariant.                                          *)
LEMMA NextIInv ==
    ASSUME RoomAssumption, IInv, [Next]_vars
    PROVE  IInv'
<1>1. CASE Next
      BY <1>1, SubmitterStep, DispatchStep, HardwareStep, DetacherStep, CallbackStep
      DEF Next
<1>2. CASE UNCHANGED vars
  <2>1. TypeOK' /\ Control' /\ UNCHANGED RingPart /\ Woken' = Woken
        BY <1>2
        DEF IInv, vars, TypeOK, Control, RingPart, Woken, objVars, ringVars, tsVars,
            stateVars, subVars, dispVars, hwVars, endVars, boundVars
  <2> QED BY <2>1, RingFrame DEF IInv
<1> QED BY <1>1, <1>2

(* RoomAssumption stays as it is: it speaks of constants only.              *)
LEMMA SpecIInv == ASSUME RoomAssumption PROVE Spec => []IInv
<1>1. IInv /\ [Next]_vars => IInv' BY NextIInv
<1> QED BY <1>1, InitIInv, PTL DEF Spec

(* Every variable of the draw queue keeps its type.                         *)
THEOREM QueueTypeOK == ASSUME RoomAssumption PROVE Spec => []TypeOK
<1>1. IInv => TypeOK BY DEF IInv
<1> QED BY <1>1, SpecIInv, PTL

(* The ring of a context (drawqueue_head, drawqueue_tail and queued) never  *)
(* wraps onto itself and its count agrees with the distance from head to    *)
(* tail, however many threads were told there is room for the same slot.    *)
THEOREM RingStaysIntact == ASSUME RoomAssumption PROVE Spec => []RingIntact
<1>1. IInv => RingIntact
  <2> SUFFICES ASSUME IInv, ~Drained
               PROVE  0 <= queued /\ queued < RingSize
                      /\ tail = (head + queued) % RingSize
      BY DEF RingIntact
  <2>1. Room /\ Span BY DEF IInv, QueueInv
  <2>2. /\ RingSize \in Nat /\ RingSize > 1 /\ QSize \in Nat /\ queued \in Int
        /\ head \in 0 .. RingSize - 1 /\ tail \in 0 .. RingSize - 1 /\ Held \in 0 .. 1
        BY QueueAssumption DEF QueueAssumption, IInv, TypeOK, Slots, Held
  <2>3. Cardinality(Woken) \in Nat /\ Cardinality(Threads) \in Nat
        BY WokenBound DEF Woken
  <2>4. 0 <= queued /\ (tail = head + queued \/ tail = head + queued - RingSize)
        BY <2>1 DEF Span
  <2>5. queued + Held + 3 * Cardinality(Woken) <= QSize + 3 * Cardinality(Threads)
        BY <2>1 DEF Room, MaxBatch
  <2>6. QSize + 3 * Cardinality(Threads) < RingSize BY DEF RoomAssumption, MaxBatch
  <2>7. queued < RingSize BY <2>2, <2>3, <2>5, <2>6
  <2>8. tail = (head + queued) % RingSize
    <3> DEFINE a == head + queued
    <3>1. a \in Nat /\ a < 2 * RingSize /\ RingSize # 0 BY <2>2, <2>4, <2>7
    <3>2. a % RingSize = IF a < RingSize THEN a ELSE a - RingSize
      <4> HIDE DEF a
      <4> QED BY <2>2, <3>1, ModTwice
    <3> QED BY <2>2, <2>4, <3>1, <3>2
  <2> QED BY <2>4, <2>7, <2>8
<1> QED BY <1>1, SpecIInv, PTL

(* After an invalidation or a detach has emptied the queue, nothing is ever *)
(* put back into it.                                                        *)
THEOREM DrainIsFinal == ASSUME RoomAssumption PROVE Spec => []DrainedStaysEmpty
<1>1. IInv => DrainedStaysEmpty BY DEF IInv
<1> QED BY <1>1, SpecIInv, PTL

(* adreno_dispatcher_requeue_cmdobj always finds the slot it needs.         *)
THEOREM RequeueAlwaysHasRoom == ASSUME RoomAssumption PROVE Spec => []RequeueHasRoom
<1>1. IInv => RequeueHasRoom
  <2> SUFFICES ASSUME IInv, dpc = "requeue", ~ContextBad PROVE PREV(head) # tail
      BY DEF RequeueHasRoom
  <2>1. ~Drained BY DEF IInv, ContextBad, Drained, Control
  <2>2. Room /\ Span BY <2>1 DEF IInv, QueueInv
  <2>3. Held = 1 BY DEF IInv, Control, Held
  <2>4. /\ RingSize \in Nat /\ RingSize > 1 /\ QSize \in Nat /\ queued \in Int
        /\ head \in 0 .. RingSize - 1 /\ tail \in 0 .. RingSize - 1
        BY QueueAssumption DEF QueueAssumption, IInv, TypeOK, Slots
  <2>5. Cardinality(Woken) \in Nat /\ Cardinality(Threads) \in Nat
        BY WokenBound DEF Woken
  <2>6. 0 <= queued /\ (tail = head + queued \/ tail = head + queued - RingSize)
        BY <2>2 DEF Span
  <2>7. queued + 1 + 3 * Cardinality(Woken) <= QSize + 3 * Cardinality(Threads)
        BY <2>2, <2>3 DEF Room, MaxBatch
  <2>8. QSize + 3 * Cardinality(Threads) < RingSize BY DEF RoomAssumption, MaxBatch
  <2>9. queued + 1 < RingSize BY <2>4, <2>5, <2>7, <2>8
  <2> QED BY <2>4, <2>6, <2>9 DEF PREV
<1> QED BY <1>1, SpecIInv, PTL

-----------------------------------------------------------------------------
(* The context's memory: when may it still be in use by the GPU?            *)

(* An invalidated context has nothing on the GPU and the dispatcher is not  *)
(* on its way to send any of it: the fault that invalidates is handled only *)
(* between two passes over the contexts, and no later pass considers one.   *)
Stopped ==
    /\ invalid => gpu = << >> /\ dpc \in {"idle", "invalidate"}
    /\ DetachMeansIdle

(* A dispatcher's step sends nothing of a context that is bad.              *)
LEMMA DispatchStopped ==
    ASSUME Control, Stopped, Dispatch
    PROVE  Stopped'
<1> USE DEF Stopped, DetachMeansIdle
<1>1. CASE Consider
  <2>1. UNCHANGED <<invalid, gpu, detach>> /\ ~invalid
        BY <1>1 DEF Consider, hwVars, SubmitterUnchanged, stateVars, ContextBad
  <2> QED BY <2>1
<1>2. CASE NextCommand \/ TakeCommand
  <2>1. UNCHANGED <<invalid, gpu, detach>> /\ dpc \notin {"idle", "invalidate"}
        BY <1>2 DEF NextCommand, TakeCommand, Scanning, hwVars, SubmitterUnchanged,
           stateVars
  <2> QED BY <2>1
<1>3. CASE RetireFront \/ StartBind \/ ScanEnds
  <2>1. UNCHANGED <<invalid, gpu, detach>> /\ dpc \notin {"idle", "invalidate"}
        BY <1>3 DEF RetireFront, StartBind, ScanEnds, Scanning, hwVars,
           SubmitterUnchanged, stateVars
  <2> QED BY <2>1
<1>4. CASE SendOk
  <2>1. UNCHANGED <<invalid, detach>> /\ dpc = "send" /\ ~detached
        BY <1>4 DEF SendOk, RingAccepts, SubmitterUnchanged, stateVars
  <2> QED BY <2>1 DEF Control
<1>5. CASE SendGone \/ SendFails \/ Requeue \/ WakeSubmitters
  <2>1. UNCHANGED <<invalid, gpu, detach>> /\ dpc \notin {"idle", "invalidate"}
        BY <1>5 DEF SendGone, SendFails, Requeue, WakeSubmitters, hwVars, endVars,
           SubmitterUnchanged, stateVars
  <2> QED BY <2>1
<1>6. CASE FinishInvalidate
  <2>1. UNCHANGED <<invalid, gpu, detach>> /\ dpc' = "idle"
        BY <1>6 DEF FinishInvalidate, stateVars
  <2> QED BY <2>1
<1> QED BY <1>1, <1>2, <1>3, <1>4, <1>5, <1>6 DEF Dispatch

(* Nor does any other step.                                                 *)
LEMMA NextStopped ==
    ASSUME TypeOK, Control, Stopped, [Next]_vars
    PROVE  Stopped'
<1> USE DEF Stopped, DetachMeansIdle
<1>1. ASSUME NEW t \in Threads, Submitter(t) PROVE Stopped'
  <2>1. UNCHANGED <<invalid, gpu, detach, dpc>>
        BY <1>1 DEF Submitter, QueueStart, QueueRefused, QueueWait, CheckRoom,
           WaitTimeout, QueueFastMarker, QueueObjs, stateVars, hwVars, dispVars, endVars
  <2> QED BY <2>1
<1>2. CASE Dispatch BY <1>2, DispatchStopped
<1>3. CASE GpuFinish
  <2>1. UNCHANGED <<invalid, detach, dpc>> /\ gpu # << >>
        BY <1>3 DEF GpuFinish, SubmitterUnchanged, stateVars, dispVars
  <2> QED BY <2>1
<1>4. CASE RetireInflight \/ GpuFault
  <2>1. UNCHANGED <<invalid, gpu, detach, dpc>>
        BY <1>4 DEF RetireInflight, GpuFault, SubmitterUnchanged, stateVars, dispVars,
           endVars
  <2> QED BY <2>1
<1>5. CASE RecoverReplay
  <2>1. UNCHANGED <<invalid, detach>> /\ ~invalid /\ ~detached
        BY <1>5 DEF RecoverReplay, ContextBad, SubmitterUnchanged, stateVars
  <2> QED BY <2>1 DEF Control
<1>6. CASE RecoverDrop
  <2>1. UNCHANGED <<invalid, detach, dpc>> /\ gpu' = << >>
        BY <1>6 DEF RecoverDrop, SubmitterUnchanged, stateVars, dispVars
  <2> QED BY <2>1
<1>7. CASE RecoverGuilty
  <2>1. gpu' = << >> /\ dpc' = "invalidate"
        BY <1>7 DEF RecoverGuilty
  <2> QED BY <2>1
<1>8. CASE DetachDone
  <2>1. UNCHANGED <<invalid, gpu, dpc>> /\ (invalid \/ gpu = << >>)
        BY <1>8 DEF DetachDone, stateVars, dispVars, hwVars
  <2> QED BY <2>1
<1>9. CASE DetachMark \/ DetachDrain \/ DetachDestroy \/ DetachTimeout \/ DetachGiveUp
  <2>1. UNCHANGED <<invalid, gpu, dpc>> /\ detach' # "done"
        BY <1>9 DEF DetachMark, DetachDrain, DetachDestroy, DetachTimeout, DetachGiveUp,
           stateVars, dispVars, hwVars
  <2> QED BY <2>1
<1>10. ASSUME NEW o \in Objs, Callback(o) PROVE Stopped'
  <2>1. UNCHANGED <<invalid, gpu, detach, dpc>>
        BY <1>10 DEF Callback, SyncExpire, TsSyncExpire, BindDone, Finish,
           SubmitterUnchanged, stateVars, dispVars, hwVars
  <2> QED BY <2>1
<1>11. CASE UNCHANGED vars
       BY <1>11 DEF vars, stateVars, dispVars, hwVars, endVars
<1> QED BY <1>1, <1>2, <1>3, <1>4, <1>5, <1>6, <1>7, <1>8, <1>9, <1>10, <1>11
        DEF Next, Recover, Detacher

(* A detach that did not time out returns only when the GPU is done with    *)
(* the context's memory (kgsl_context_detach, the wait of                   *)
(* adreno_drawctxt_detach): neither a replay nor a command still in the     *)
(* dispatcher's hand brings any of it back.                                 *)
THEOREM DetachedIsIdle == ASSUME RoomAssumption PROVE Spec => []DetachMeansIdle
<1>1. Init => Stopped BY DEF Init, Stopped, DetachMeansIdle
<1>2. IInv /\ Stopped /\ [Next]_vars => Stopped' BY NextStopped DEF IInv
<1>3. Stopped => DetachMeansIdle BY DEF Stopped
<1> QED BY <1>1, <1>2, <1>3, SpecIInv, PTL DEF Spec

-----------------------------------------------------------------------------
(* Where the draw objects are, and who holds a reference to each            *)

(* An object's callback is still to come.                                   *)
Pending(o) ==
    IF \/ obj[o].kind = "sync" /\ obj[o].st = "new"
       \/ obj[o].kind = "tssync" /\ obj[o].st \in {"new", "cancelled"}
       \/ obj[o].kind = "bind" /\ obj[o].st = "started"
      THEN 1 ELSE 0

Flying == SetOf(inflight)
InHand == {hand} \ {None}
Doomed == doomed["dispatcher"] \cup doomed["detacher"]
Placed == Flying \cup InHand \cup QueuedObjs \cup Doomed

(* No object is in two places, nor twice in the ring or in flight.          *)
Apart ==
    /\ Flying \cap InHand = {} /\ Flying \cap QueuedObjs = {} /\ InHand \cap QueuedObjs = {}
    /\ Doomed \cap (Flying \cup InHand \cup QueuedObjs) = {}
    /\ doomed["dispatcher"] \cap doomed["detacher"] = {}
FlightOnce == \A i, j \in 1 .. Len(inflight) : inflight[i] = inflight[j] => i = j
RingOnce == \A i, j \in Window : drawqueue[i] = drawqueue[j] => i = j
Known == Placed \subseteq 1 .. nobj

(* One reference for the place, one for the callback.                       *)
Counted == \A o \in 1 .. nobj : ref[o] = Pending(o) + (IF o \in Placed THEN 1 ELSE 0)

Placement == Apart /\ FlightOnce /\ RingOnce /\ Known

HoldInv == Placement /\ Counted

(* What was taken out of the ring is destroyed before the one who took it   *)
(* goes on.                                                                 *)
Ending ==
    /\ dpc # "invalidate" => doomed["dispatcher"] = {}
    /\ detach # "drained" => doomed["detacher"] = {}

LEMMA NextEnding ==
    ASSUME TypeOK, Ending, [Next]_vars
    PROVE  Ending'
<1> USE DEF Ending
<1>1. ASSUME NEW t \in Threads, Submitter(t) PROVE Ending'
  <2>1. UNCHANGED <<detach, dpc, doomed>>
        BY <1>1 DEF Submitter, QueueStart, QueueRefused, QueueWait, CheckRoom,
           WaitTimeout, QueueFastMarker, QueueObjs, dispVars, endVars
  <2> QED BY <2>1
<1>2. CASE Consider \/ NextCommand \/ TakeCommand \/ RetireFront \/ StartBind \/ ScanEnds
  <2>1. UNCHANGED <<detach, doomed>> /\ dpc # "invalidate"
        BY <1>2 DEF Consider, NextCommand, TakeCommand, RetireFront, StartBind, ScanEnds,
           Scanning, SubmitterUnchanged
  <2> QED BY <2>1
<1>3. CASE SendOk \/ SendGone \/ SendFails \/ Requeue \/ WakeSubmitters
  <2>1. UNCHANGED <<detach, doomed>> /\ dpc # "invalidate"
        BY <1>3 DEF SendOk, SendGone, SendFails, Requeue, WakeSubmitters,
           SubmitterUnchanged, endVars
  <2> QED BY <2>1
<1>4. CASE FinishInvalidate
  <2>1. detach' = detach /\ doomed' = [doomed EXCEPT !["dispatcher"] = {}]
        BY <1>4 DEF FinishInvalidate
  <2> QED BY <2>1 DEF TypeOK
<1>5. CASE GpuFinish \/ RetireInflight \/ GpuFault \/ RecoverReplay \/ RecoverDrop
  <2>1. UNCHANGED <<detach, dpc, doomed>>
        BY <1>5 DEF GpuFinish, RetireInflight, GpuFault, RecoverReplay, RecoverDrop,
           SubmitterUnchanged, dispVars, endVars
  <2> QED BY <2>1
<1>6. CASE RecoverGuilty
  <2>1. /\ detach' = detach /\ doomed' = [doomed EXCEPT !["dispatcher"] = QueuedObjs]
        /\ dpc' = "invalidate"
        BY <1>6 DEF RecoverGuilty
  <2> QED BY <2>1 DEF TypeOK
<1>7. CASE DetachDrain
  <2>1. /\ detach' = "drained" /\ doomed' = [doomed EXCEPT !["detacher"] = QueuedObjs]
        /\ dpc' = dpc
        BY <1>7 DEF DetachDrain, dispVars
  <2> QED BY <2>1 DEF TypeOK
<1>8. CASE DetachDestroy
  <2>1. doomed' = [doomed EXCEPT !["detacher"] = {}] /\ dpc' = dpc
        BY <1>8 DEF DetachDestroy, dispVars
  <2> QED BY <2>1 DEF TypeOK
<1>9. CASE DetachMark \/ DetachDone \/ DetachTimeout \/ DetachGiveUp
  <2>1. UNCHANGED <<dpc, doomed>> /\ detach # "drained"
        BY <1>9 DEF DetachMark, DetachDone, DetachTimeout, DetachGiveUp, dispVars
  <2> QED BY <2>1
<1>10. ASSUME NEW o \in Objs, Callback(o) PROVE Ending'
  <2>1. UNCHANGED <<detach, dpc, doomed>>
        BY <1>10 DEF Callback, SyncExpire, TsSyncExpire, BindDone, Finish,
           SubmitterUnchanged, dispVars
  <2> QED BY <2>1
<1>11. CASE UNCHANGED vars
       BY <1>11 DEF vars, dispVars, endVars
<1> QED BY <1>1, <1>2, <1>3, <1>4, <1>5, <1>6, <1>7, <1>8, <1>9, <1>10, <1>11
        DEF Next, Recover, Detacher, Dispatch

(* The variables the places are made of.                                    *)
PlaceVars == <<inflight, hand, drawqueue, head, tail, doomed, nobj>>

LEMMA PlaceFrame ==
    ASSUME Placement, UNCHANGED PlaceVars
    PROVE  Placement' /\ Placed' = Placed
BY DEF Placement, Apart, FlightOnce, RingOnce, Known, Placed, Flying, InHand, Doomed,
   PlaceVars, QueuedObjs, Window, InWindow, SetOf

(* Destroying objects in a place that loses them: a fence wait goes at once *)
(* with its reference, a timestamp event keeps its own until it has run.    *)
LEMMA DestroyCounted ==
    ASSUME TypeOK, Placement, Counted, NEW S, Destroy(S), S \subseteq Placed,
           Placed' = Placed \ S
    PROVE  Counted'
<1> SUFFICES ASSUME NEW o \in 1 .. nobj
             PROVE  ref'[o] = Pending(o)' + (IF o \in Placed' THEN 1 ELSE 0)
    BY DEF Counted, Destroy
<1>1. o \in Objs /\ obj[o] \in ObjRecords /\ ref[o] \in Int
      BY QueueAssumption DEF QueueAssumption, TypeOK, Objs
<1>2. ref[o] = Pending(o) + (IF o \in Placed THEN 1 ELSE 0) BY DEF Counted
<1>3. CASE o \notin S
  <2>1. ref'[o] = ref[o] /\ obj'[o] = obj[o] BY <1>1, <1>3 DEF Destroy
  <2> QED BY <1>2, <1>3, <2>1 DEF Pending
<1>4. CASE o \in S
  <2>1. ref'[o] = RefAfterDestroy(o) /\ obj'[o] = ObjAfterDestroy(o)
        BY <1>1, <1>4 DEF Destroy
  <2>2. ref[o] = Pending(o) + 1 /\ o \notin Placed' BY <1>2, <1>4
  <2>3. CASE obj[o].kind = "sync" /\ obj[o].st = "new"
    <3>1. obj'[o].st = "done" /\ obj'[o].kind = "sync"
          BY <1>1, <2>1, <2>3 DEF ObjAfterDestroy, ObjRecords
    <3>2. Pending(o) = 1 /\ Pending(o)' = 0 BY <2>3, <3>1 DEF Pending
    <3> QED BY <1>1, <2>1, <2>2, <2>3, <3>2 DEF RefAfterDestroy
  <2>4. CASE obj[o].kind = "tssync" /\ obj[o].st = "new"
    <3>1. obj'[o].st = "cancelled" /\ obj'[o].kind = "tssync"
          BY <1>1, <2>1, <2>4 DEF ObjAfterDestroy, ObjRecords
    <3>2. Pending(o) = 1 /\ Pending(o)' = 1 BY <2>4, <3>1 DEF Pending
    <3> QED BY <1>1, <2>1, <2>2, <2>4, <3>2 DEF RefAfterDestroy
  <2>5. CASE obj[o].st # "new" \/ obj[o].kind \notin SyncKinds
    <3>1. obj'[o] = obj[o] BY <2>1, <2>5 DEF ObjAfterDestroy, SyncKinds
    <3>2. Pending(o)' = Pending(o) BY <3>1 DEF Pending
    <3>3. ref'[o] = ref[o] - 1 BY <2>1, <2>5 DEF RefAfterDestroy, SyncKinds
    <3>4. Pending(o) \in Int BY DEF Pending
    <3> QED BY <1>1, <2>2, <3>2, <3>3, <3>4
  <2> QED BY <2>3, <2>4, <2>5 DEF SyncKinds
<1> QED BY <1>3, <1>4

(* Draining takes every object out of the ring.                             *)
LEMMA DrainPlaces ==
    ASSUME TypeOK, head' = tail, tail' = tail
    PROVE  Window' = {} /\ QueuedObjs' = {} /\ RingOnce'
<1>1. tail \in Int /\ \A i \in Slots : i \in Int
      BY QueueAssumption DEF QueueAssumption, TypeOK, Slots
<1>2. Window' = {} BY <1>1 DEF Window, InWindow
<1> QED BY <1>2 DEF QueuedObjs, RingOnce

(* Taking the front out of the ring takes just that object out.             *)
LEMMA PopPlaces ==
    ASSUME IInv, RingOnce, ~IsEmpty, PopDrawobj
    PROVE  /\ Front \in QueuedObjs /\ QueuedObjs' = QueuedObjs \ {Front}
           /\ RingOnce'
<1>1. RingSize \in Nat /\ RingSize > 1 BY QueueAssumption DEF QueueAssumption
<1>2. /\ head \in 0 .. RingSize - 1 /\ tail \in 0 .. RingSize - 1 /\ head # tail
      /\ UNCHANGED <<drawqueue, tail>> /\ head' = (head + 1) % RingSize
      BY DEF IInv, TypeOK, Slots, IsEmpty, PopDrawobj, NEXT
<1>3. head' = IF head + 1 < RingSize THEN head + 1 ELSE 0
  <2> DEFINE a == head + 1
  <2>1. a \in Nat /\ a < 2 * RingSize /\ RingSize # 0 BY <1>1, <1>2
  <2>2. a % RingSize = IF a < RingSize THEN a ELSE a - RingSize
    <3> HIDE DEF a
    <3> QED BY <1>1, <2>1, ModTwice
  <2> QED BY <1>1, <1>2, <2>2
<1>4. \A i \in Slots : InWindow(i)' <=> InWindow(i) /\ i # head
      BY <1>1, <1>2, <1>3 DEF InWindow, Slots
<1>5. head \in Window BY <1>1, <1>2 DEF Window, InWindow, Slots
<1>6. Window' = Window \ {head} BY <1>4 DEF Window
<1> QED BY <1>2, <1>5, <1>6 DEF QueuedObjs, Front, RingOnce

(* Putting a command back puts just that object in.                         *)
LEMMA PutBackPlaces ==
    ASSUME RoomAssumption, IInv, RingOnce, ~ContextBad, hand \in Objs, PutBack,
           hand \notin QueuedObjs
    PROVE  QueuedObjs' = QueuedObjs \cup {hand} /\ RingOnce'
<1>1. ~Drained /\ Room /\ Span
      BY DEF IInv, ContextBad, Drained, Control, QueueInv
<1>2. RingSize \in Nat /\ RingSize > 1 /\ QSize \in Nat
      BY QueueAssumption DEF QueueAssumption
<1>3. /\ head \in 0 .. RingSize - 1 /\ tail \in 0 .. RingSize - 1 /\ queued \in Int
      /\ tail' = tail /\ drawqueue \in [Slots -> Objs \cup {None}]
      BY <1>2 DEF IInv, TypeOK, Slots, PutBack
<1>4. 0 <= queued /\ (tail = head + queued \/ tail = head + queued - RingSize)
      BY <1>1 DEF Span
<1>5. queued + 1 < RingSize
  <2>1. Held = 1 BY DEF Held, Objs, None
  <2>2. queued + 1 + 3 * Cardinality(Woken) <= QSize + 3 * Cardinality(Threads)
        BY <1>1, <2>1 DEF Room, MaxBatch
  <2>3. QSize + 3 * Cardinality(Threads) < RingSize BY DEF RoomAssumption, MaxBatch
  <2>4. Cardinality(Woken) \in Nat /\ Cardinality(Threads) \in Nat
        BY WokenBound DEF Woken
  <2> QED BY <1>2, <1>3, <2>2, <2>3, <2>4
<1>6. head' = IF head = 0 THEN RingSize - 1 ELSE head - 1 BY DEF PutBack, PREV
<1>7. head' \in Slots /\ ~InWindow(head')
      BY <1>2, <1>3, <1>4, <1>5, <1>6 DEF InWindow, Slots
<1>8. \A i \in Slots : InWindow(i)' <=> InWindow(i) \/ i = head'
      BY <1>2, <1>3, <1>4, <1>5, <1>6 DEF InWindow, Slots
<1>9. Window' = Window \cup {head'} /\ head' \notin Window
      BY <1>7, <1>8 DEF Window
<1>10. drawqueue' = [drawqueue EXCEPT ![head'] = hand] BY DEF PutBack
<1>11. drawqueue'[head'] = hand /\ \A i \in Window : drawqueue'[i] = drawqueue[i]
       BY <1>3, <1>7, <1>9, <1>10 DEF Window
<1> QED BY <1>9, <1>11 DEF QueuedObjs, RingOnce

(* A batch goes into free slots behind the tail, one object in each.        *)
LEMMA QueuePlaces ==
    ASSUME RoomAssumption, IInv, RingOnce, QueuedObjs \subseteq 1 .. nobj,
           NEW t \in Threads, QueueObjs(t)
    PROVE  /\ nobj <= nobj' /\ nobj' \in Nat
           /\ QueuedObjs' = QueuedObjs \cup (nobj + 1 .. nobj')
           /\ RingOnce'
<1>1. pc[t] \in {"queue", "woken"} /\ ~detached /\ ~invalid
      BY DEF QueueObjs, MayQueue, ContextBad
<1>2. PICK n \in 1 .. 3 : n = Len(batch[t])
      BY <1>1, BatchFacts DEF IInv, Control, MaxBatch
<1>3. /\ drawqueue' = [i \in Slots |-> IF Offset(i) < n THEN nobj + 1 + Offset(i)
                                                        ELSE drawqueue[i]]
      /\ tail' = (tail + n) % RingSize /\ queued' = queued + n /\ nobj' = nobj + n
      /\ head' = head
      BY <1>2 DEF QueueObjs
<1>sum. queued' = queued + n /\ nobj' = nobj + n /\ head' = head BY <1>3
<1>4. IInv' BY QueueObjsStep
<1>5. /\ RingSize \in Nat /\ RingSize > 1 /\ QSize \in Nat /\ queued \in Int
      /\ head \in 0 .. RingSize - 1 /\ tail \in 0 .. RingSize - 1
      /\ nobj \in Nat /\ tail' \in 0 .. RingSize - 1
      BY <1>4, QueueAssumption DEF QueueAssumption, IInv, TypeOK, Slots
<1>6. /\ ~Drained /\ ~Drained'
      BY <1>1, <1>4 DEF Drained, QueueObjs, IInv, Control, stateVars, endVars
<1>7. /\ 0 <= queued /\ (tail = head + queued \/ tail = head + queued - RingSize)
      /\ (tail' = head + queued' \/ tail' = head + queued' - RingSize)
      BY <1>3, <1>4, <1>6 DEF IInv, QueueInv, Span
<1>8. queued + n < RingSize
  <2>1. queued' + Held' + 3 * Cardinality(Woken') <= QSize + 3 * Cardinality(Threads)
        BY <1>4, <1>6 DEF IInv, QueueInv, Room, MaxBatch
  <2>2. QSize + 3 * Cardinality(Threads) < RingSize BY DEF RoomAssumption, MaxBatch
  <2>3. Cardinality(Woken') \in Nat /\ Cardinality(Threads) \in Nat
        BY WokenBound DEF Woken
  <2>4. Held' \in 0 .. 1 BY DEF Held
  <2> DEFINE w == Cardinality(Woken')
             c == Cardinality(Threads)
             h == Held'
  <2>5. queued + n + h + 3 * w <= QSize + 3 * c /\ QSize + 3 * c < RingSize
        BY <1>sum, <2>1, <2>2
  <2>6. w \in Nat /\ c \in Nat /\ h \in 0 .. 1 BY <2>3, <2>4
  <2> HIDE DEF w, c, h
  <2> QED BY <1>5, <2>5, <2>6
<1>17. tail' = IF tail + n < RingSize THEN tail + n ELSE tail + n - RingSize
       BY <1>sum, <1>5, <1>7, <1>8
<1>9. \A i \in Slots : InWindow(i)' <=> InWindow(i) \/ Offset(i) < n
  <2> SUFFICES ASSUME NEW i \in 0 .. RingSize - 1
               PROVE  InWindow(i)' <=> InWindow(i) \/ Offset(i) < n
      BY DEF Slots
  <2>1. CASE head <= tail
        BY <1>sum, <1>5, <1>7, <1>8, <1>17, <2>1 DEF InWindow, Offset
  <2>2. CASE tail < head
        BY <1>sum, <1>5, <1>7, <1>8, <1>17, <2>2 DEF InWindow, Offset
  <2> QED BY <1>5, <2>1, <2>2
<1>10. \A i \in Slots : InWindow(i) => ~(Offset(i) < n)
       BY <1>2, <1>3, <1>5, <1>7, <1>8 DEF InWindow, Offset, Slots
<1>11. \A i \in Slots : Offset(i) < n => drawqueue'[i] = nobj + 1 + Offset(i)
       BY <1>3
<1>12. \A i \in Window : drawqueue'[i] = drawqueue[i]
       BY <1>3, <1>10 DEF Window
<1>13. \A i \in Slots : Offset(i) \in Nat BY <1>5 DEF Offset, Slots
<1>14. \A k \in 0 .. n - 1 : \E i \in Slots : Offset(i) = k
  <2> SUFFICES ASSUME NEW k \in 0 .. n - 1 PROVE \E i \in Slots : Offset(i) = k
      OBVIOUS
  <2> DEFINE i == IF tail + k < RingSize THEN tail + k ELSE tail + k - RingSize
  <2>1. i \in 0 .. RingSize - 1 /\ Offset(i) = k BY <1>2, <1>5, <1>7, <1>8 DEF Offset
  <2> HIDE DEF i
  <2> QED BY <2>1 DEF Slots
<1>15. QueuedObjs' = QueuedObjs \cup (nobj + 1 .. nobj')
  <2>1. ASSUME NEW o \in QueuedObjs' PROVE o \in QueuedObjs \cup (nobj + 1 .. nobj')
    <3>1. PICK i \in Slots : InWindow(i)' /\ o = drawqueue'[i]
          BY <2>1 DEF QueuedObjs, Window
    <3>2. CASE Offset(i) < n
      <4>1. o = nobj + 1 + Offset(i) /\ Offset(i) \in Nat BY <1>11, <1>13, <3>1, <3>2
      <4> QED BY <1>2, <1>3, <1>5, <3>2, <4>1
    <3>3. CASE ~(Offset(i) < n)
      <4>1. i \in Window BY <1>9, <3>1, <3>3 DEF Window
      <4> QED BY <1>12, <3>1, <4>1 DEF QueuedObjs
    <3> QED BY <3>2, <3>3
  <2>2. ASSUME NEW o \in QueuedObjs PROVE o \in QueuedObjs'
    <3>1. PICK i \in Window : o = drawqueue[i] BY <2>2 DEF QueuedObjs
    <3>2. i \in Window' /\ drawqueue'[i] = o BY <1>9, <1>12, <3>1 DEF Window
    <3> QED BY <3>2 DEF QueuedObjs
  <2>3. ASSUME NEW o \in nobj + 1 .. nobj' PROVE o \in QueuedObjs'
    <3>1. o - nobj - 1 \in 0 .. n - 1 BY <1>2, <1>3, <1>5, <2>3
    <3>2. PICK i \in Slots : Offset(i) = o - nobj - 1 BY <1>14, <3>1
    <3>3. Offset(i) < n BY <1>2, <3>1, <3>2
    <3>4. drawqueue'[i] = o BY <1>5, <1>11, <2>3, <3>2, <3>3
    <3>5. i \in Window' BY <1>9, <3>3 DEF Window
    <3> QED BY <3>4, <3>5 DEF QueuedObjs
  <2> QED BY <2>1, <2>2, <2>3
<1>16. RingOnce'
  <2> SUFFICES ASSUME NEW i \in Window', NEW j \in Window', drawqueue'[i] = drawqueue'[j]
               PROVE  i = j
      BY DEF RingOnce
  <2>1. i \in Slots /\ j \in Slots BY DEF Window
  <2>2. CASE Offset(i) < n /\ Offset(j) < n
    <3>1. Offset(i) = Offset(j) BY <1>5, <1>11, <1>13, <2>1, <2>2
    <3> QED BY <1>5, <2>1, <3>1 DEF Offset, Slots
  <2>3. CASE ~(Offset(i) < n) /\ ~(Offset(j) < n)
    <3>1. i \in Window /\ j \in Window BY <1>9, <2>1, <2>3 DEF Window
    <3> QED BY <1>12, <3>1 DEF RingOnce
  <2>4. ASSUME NEW k \in Slots, NEW l \in Slots, Offset(k) < n, ~(Offset(l) < n),
               l \in Window', drawqueue'[k] = drawqueue'[l]
        PROVE  FALSE
    <3>1. l \in Window BY <1>9, <2>4 DEF Window
    <3>2. drawqueue'[l] \in 1 .. nobj BY <1>12, <3>1 DEF QueuedObjs
    <3>3. drawqueue'[k] = nobj + 1 + Offset(k) BY <1>11, <2>4
    <3> QED BY <1>5, <1>13, <2>4, <3>2, <3>3
  <2> QED BY <2>1, <2>2, <2>3, <2>4
<1> QED BY <1>2, <1>3, <1>5, <1>15, <1>16

(* A thread that queues its batch: the ring holds the new objects, each     *)
(* with one reference for its place and one for a callback it waits for.    *)
LEMMA QueueHolds ==
    ASSUME RoomAssumption, IInv, HoldInv, NEW t \in Threads, QueueObjs(t)
    PROVE  HoldInv'
<1> USE DEF HoldInv
<1>1. /\ nobj <= nobj' /\ nobj' \in Nat /\ QueuedObjs' = QueuedObjs \cup (nobj + 1 .. nobj')
      /\ RingOnce'
      BY QueuePlaces DEF Placement, Known, Placed
<1>2. nobj \in Nat BY QueueAssumption DEF QueueAssumption, IInv, TypeOK
<1>3. Flying' = Flying /\ InHand' = InHand /\ Doomed' = Doomed
      /\ UNCHANGED <<inflight, doomed>>
      BY DEF QueueObjs, hwVars, dispVars, endVars, Flying, InHand, Doomed, SetOf
<1>4. Placed' = Placed \cup (nobj + 1 .. nobj') BY <1>1, <1>3 DEF Placed
<1>5. Known' BY <1>1, <1>2, <1>4 DEF Placement, Known
<1>6. \A o \in nobj + 1 .. nobj' : o \notin Placed
      BY <1>1, <1>2 DEF Placement, Known
<1>7. Apart' BY <1>1, <1>3, <1>6 DEF Placement, Apart, Placed, Doomed
<1>8. Counted'
  <2> SUFFICES ASSUME NEW o \in 1 .. nobj'
               PROVE  ref'[o] = Pending(o)' + (IF o \in Placed' THEN 1 ELSE 0)
      BY DEF Counted
  <2>1. /\ pc[t] \in {"queue", "woken"}
        BY DEF QueueObjs, MayQueue
  <2>2. PICK n \in 1 .. 3 : n = Len(batch[t]) /\ \A k \in 1 .. n : batch[t][k] \in Kinds
        BY <2>1, BatchFacts DEF IInv, Control, MaxBatch
  <2>3. nobj' = nobj + n /\ nobj + n <= MaxObjs BY <2>2 DEF QueueObjs
  <2>4. o \in Objs BY <1>2, <2>2, <2>3, QueueAssumption DEF Objs, QueueAssumption
  <2>5. CASE o \in nobj + 1 .. nobj + n
    <3>1. o - nobj \in 1 .. n BY <1>2, <2>2, <2>5
    <3>2. obj'[o] = NewObj(t, o - nobj)
          /\ ref'[o] = IF batch[t][o - nobj] \in SyncKinds THEN 2 ELSE 1
          BY <2>2, <2>4, <2>5 DEF QueueObjs
    <3>3. obj'[o].kind = batch[t][o - nobj] /\ obj'[o].st = "new"
          BY <3>2 DEF NewObj
    <3>4. o \in Placed' BY <1>4, <2>3, <2>5
    <3> QED BY <3>2, <3>3, <3>4 DEF Pending, SyncKinds
  <2>6. CASE o \notin nobj + 1 .. nobj + n
    <3>1. o \in 1 .. nobj BY <1>2, <2>2, <2>3, <2>6
    <3>2. ref'[o] = ref[o] BY <2>2, <2>4, <2>6 DEF QueueObjs
    <3>3. obj'[o] = obj[o] \/ obj'[o] = [obj[o] EXCEPT !.skip = TRUE]
          BY <2>2, <2>4, <2>6 DEF QueueObjs
    <3>4. obj[o] \in ObjRecords BY <2>4 DEF IInv, TypeOK
    <3>5. obj'[o].kind = obj[o].kind /\ obj'[o].st = obj[o].st
          BY <3>3, <3>4 DEF ObjRecords
    <3>6. Pending(o)' = Pending(o) BY <3>5 DEF Pending
    <3>7. o \in Placed' <=> o \in Placed BY <1>4, <2>3, <2>6
    <3> QED BY <3>1, <3>2, <3>6, <3>7 DEF Counted
  <2> QED BY <2>5, <2>6
<1> QED BY <1>1, <1>3, <1>5, <1>7, <1>8 DEF Placement, FlightOnce

(* What moves an object, or nothing, keeps the counts.                      *)
LEMMA MoveCounted ==
    ASSUME Known, Counted, Placed' = Placed, UNCHANGED objVars
    PROVE  Known' /\ Counted'
BY DEF Known, Counted, Pending, objVars

LEMMA HoldFrame ==
    ASSUME HoldInv, UNCHANGED PlaceVars, UNCHANGED objVars
    PROVE  HoldInv'
BY PlaceFrame, MoveCounted DEF HoldInv, Placement

(* An object's own step: a callback is under way, or has come.              *)
LEMMA CallbackCounted ==
    ASSUME TypeOK, HoldInv, NEW o \in Objs, NEW st \in ObjState, NEW d \in {-1, 0, 1},
           UNCHANGED PlaceVars,
           obj' = [obj EXCEPT ![o].st = st], ref' = [ref EXCEPT ![o] = @ + d],
           o <= nobj, Pending(o)' = Pending(o) + d
    PROVE  HoldInv'
<1>1. Placement' /\ Placed' = Placed BY PlaceFrame DEF HoldInv
<1>2. Counted'
  <2> SUFFICES ASSUME NEW p \in 1 .. nobj
               PROVE  ref'[p] = Pending(p)' + (IF p \in Placed' THEN 1 ELSE 0)
      BY DEF Counted, PlaceVars
  <2>6. nobj \in 0 .. MaxObjs /\ MaxObjs \in Nat /\ ref \in [Objs -> Int]
        /\ obj \in [Objs -> ObjRecords]
        BY QueueAssumption DEF QueueAssumption, TypeOK
  <2>1. p \in Objs /\ ref[p] \in Int BY <2>6 DEF Objs
  <2>2. ref[p] = Pending(p) + (IF p \in Placed THEN 1 ELSE 0) BY DEF HoldInv, Counted
  <2>3. Pending(p) \in {0, 1} /\ Pending(p)' \in {0, 1} BY DEF Pending
  <2>4. CASE p = o
    <3>1. ref'[p] = ref[p] + d BY <2>1, <2>4, <2>6
    <3> QED BY <1>1, <2>1, <2>2, <2>3, <2>4, <3>1
  <2>5. CASE p # o
    <3>1. ref'[p] = ref[p] /\ obj'[p] = obj[p] BY <2>1, <2>5, <2>6
    <3>2. Pending(p)' = Pending(p) BY <3>1 DEF Pending
    <3> QED BY <1>1, <2>2, <3>1, <3>2
  <2> QED BY <2>4, <2>5
<1> QED BY <1>1, <1>2 DEF HoldInv

(* The sets of objects in flight, as the sequence grows and shrinks.        *)
LEMMA FlyingFacts ==
    ASSUME TypeOK, FlightOnce
    PROVE  /\ inflight # << >> =>
                /\ Head(inflight) \in Flying
                /\ SetOf(Tail(inflight)) = Flying \ {Head(inflight)}
                /\ \A i, j \in 1 .. Len(Tail(inflight)) :
                       Tail(inflight)[i] = Tail(inflight)[j] => i = j
           /\ \A o \in Objs : SetOf(Append(inflight, o)) = Flying \cup {o}
           /\ \A o \in Objs \ Flying :
                \A i, j \in 1 .. Len(Append(inflight, o)) :
                    Append(inflight, o)[i] = Append(inflight, o)[j] => i = j
<1>1. inflight \in Seq(Objs) /\ Len(inflight) \in Nat BY DEF TypeOK
<1>2. ASSUME inflight # << >>
      PROVE  /\ Head(inflight) \in Flying
             /\ SetOf(Tail(inflight)) = Flying \ {Head(inflight)}
             /\ \A i, j \in 1 .. Len(Tail(inflight)) :
                    Tail(inflight)[i] = Tail(inflight)[j] => i = j
  <2> DEFINE n == Len(inflight)
             s == Tail(inflight)
  <2>1. /\ n \in Nat \ {0} /\ Head(inflight) = inflight[1] /\ Len(s) = n - 1
        /\ \A i \in 1 .. n - 1 : s[i] = inflight[i + 1]
        BY <1>1, <1>2
  <2>2. SetOf(s) = {inflight[i + 1] : i \in 1 .. n - 1} BY <2>1 DEF SetOf
  <2>3. Flying = {inflight[i] : i \in 1 .. n} BY DEF Flying, SetOf
  <2>4. \A i, j \in 1 .. n : inflight[i] = inflight[j] => i = j BY DEF FlightOnce
  <2> HIDE DEF n, s
  <2>5. Head(inflight) \in Flying BY <2>1, <2>3
  <2>6. ASSUME NEW o \in SetOf(s) PROVE o \in Flying /\ o # Head(inflight)
    <3>1. PICK i \in 1 .. n - 1 : o = inflight[i + 1] BY <2>2, <2>6
    <3>2. i + 1 \in 1 .. n /\ i + 1 # 1 /\ 1 \in 1 .. n BY <2>1, <3>1
    <3> QED BY <2>1, <2>3, <2>4, <3>1, <3>2
  <2>7. ASSUME NEW o \in Flying, o # Head(inflight) PROVE o \in SetOf(s)
    <3>1. PICK i \in 1 .. n : o = inflight[i] BY <2>3, <2>7
    <3>2. i # 1 BY <2>1, <2>7, <3>1
    <3>3. i - 1 \in 1 .. n - 1 /\ inflight[(i - 1) + 1] = o BY <2>1, <3>1, <3>2
    <3> QED BY <2>2, <3>3
  <2>8. \A i, j \in 1 .. Len(s) : s[i] = s[j] => i = j
    <3> SUFFICES ASSUME NEW i \in 1 .. n - 1, NEW j \in 1 .. n - 1, s[i] = s[j]
                 PROVE  i = j
        BY <2>1
    <3>1. i + 1 \in 1 .. n /\ j + 1 \in 1 .. n /\ inflight[i + 1] = inflight[j + 1]
          BY <2>1
    <3>2. i + 1 = j + 1 BY <2>4, <3>1
    <3> QED BY <3>2
  <2>9. SetOf(s) = Flying \ {Head(inflight)} BY <2>5, <2>6, <2>7
  <2> QED BY <2>5, <2>8, <2>9 DEF s
<1>3. ASSUME NEW o \in Objs
      PROVE  /\ SetOf(Append(inflight, o)) = Flying \cup {o}
             /\ o \notin Flying =>
                  \A i, j \in 1 .. Len(Append(inflight, o)) :
                      Append(inflight, o)[i] = Append(inflight, o)[j] => i = j
  <2> DEFINE n == Len(inflight)
             s == Append(inflight, o)
  <2>1. /\ n \in Nat /\ Len(s) = n + 1 /\ s[n + 1] = o
        /\ \A i \in 1 .. n : s[i] = inflight[i]
        BY <1>1
  <2>2. SetOf(s) = {s[i] : i \in 1 .. n + 1} BY <2>1 DEF SetOf
  <2>3. Flying = {inflight[i] : i \in 1 .. n} BY DEF Flying, SetOf
  <2>4. \A i, j \in 1 .. n : inflight[i] = inflight[j] => i = j BY DEF FlightOnce
  <2> HIDE DEF n, s
  <2>5. ASSUME NEW x \in SetOf(s) PROVE x \in Flying \cup {o}
    <3>1. PICK i \in 1 .. n + 1 : x = s[i] BY <2>2, <2>5
    <3>2. i = n + 1 \/ i \in 1 .. n BY <2>1
    <3> QED BY <2>1, <2>3, <3>1, <3>2
  <2>6. ASSUME NEW x \in Flying \cup {o} PROVE x \in SetOf(s)
    <3>1. CASE x = o
      <4>1. n + 1 \in 1 .. n + 1 BY <2>1
      <4> QED BY <2>1, <2>2, <3>1, <4>1
    <3>2. CASE x \in Flying
      <4>1. PICK i \in 1 .. n : x = inflight[i] BY <2>3, <3>2
      <4>2. i \in 1 .. n + 1 /\ s[i] = x BY <2>1, <4>1
      <4> QED BY <2>2, <4>2
    <3> QED BY <2>6, <3>1, <3>2
  <2>7. ASSUME o \notin Flying, NEW i \in 1 .. n + 1, NEW j \in 1 .. n + 1, s[i] = s[j]
        PROVE  i = j
    <3>1. (i = n + 1 \/ i \in 1 .. n) /\ (j = n + 1 \/ j \in 1 .. n) BY <2>1
    <3>2. \A k \in 1 .. n : s[k] # o BY <2>1, <2>3, <2>7
    <3> QED BY <2>1, <2>4, <2>7, <3>1, <3>2
  <2>8. SetOf(s) = Flying \cup {o} BY <2>5, <2>6
  <2> QED BY <2>1, <2>7, <2>8 DEF s
<1> QED BY <1>2, <1>3

(* The dispatcher's steps keep every object in its place and counted.       *)
LEMMA DispatchHolds ==
    ASSUME RoomAssumption, IInv, HoldInv, Dispatch
    PROVE  HoldInv'
<1> USE DEF HoldInv, Placement
<1>t. TypeOK /\ Control BY DEF IInv
<1>1. CASE Consider \/ NextCommand \/ ScanEnds \/ SendFails \/ WakeSubmitters
  <2>1. UNCHANGED PlaceVars /\ UNCHANGED objVars
        BY <1>1 DEF Consider, NextCommand, ScanEnds, SendFails, WakeSubmitters, PlaceVars,
           SubmitterUnchanged, objVars, ringVars, hwVars, endVars
  <2> QED BY <2>1, HoldFrame
<1>2. CASE RetireFront
  <2>1. /\ ~IsEmpty /\ PopDrawobj /\ Destroy({Front})
        /\ UNCHANGED <<inflight, hand, doomed, nobj>>
        BY <1>2 DEF RetireFront, Destroy, dispVars, hwVars, SubmitterUnchanged
  <2>2. /\ Front \in QueuedObjs /\ QueuedObjs' = QueuedObjs \ {Front} /\ RingOnce'
        BY <2>1, PopPlaces
  <2>3. Flying' = Flying /\ InHand' = InHand /\ Doomed' = Doomed
        BY <2>1 DEF Flying, InHand, Doomed, SetOf
  <2>4. Placed' = Placed \ {Front} BY <2>2, <2>3 DEF Placed, Apart
  <2>5. Apart' BY <2>1, <2>2, <2>3 DEF Apart
  <2>6. Known' BY <2>1, <2>4 DEF Known
  <2>7. Counted' BY <1>t, <2>1, <2>2, <2>4, DestroyCounted DEF Placed
  <2> QED BY <2>1, <2>2, <2>5, <2>6, <2>7 DEF FlightOnce
<1>3. CASE StartBind
  <2>1. /\ ~IsEmpty /\ obj[Front].kind = "bind" /\ obj[Front].st = "new"
        /\ obj' = [obj EXCEPT ![Front].st = "started"] /\ ref' = [ref EXCEPT ![Front] = @ + 1]
        /\ UNCHANGED PlaceVars
        BY <1>3 DEF StartBind, BindTrigger, PlaceVars, ringVars, hwVars, SubmitterUnchanged
  <2>2. Front \in Objs /\ Front \in QueuedObjs
    <3>1. Front \in Objs BY <2>1, FrontObj
    <3>2. head \in Int /\ tail \in Int /\ head # tail /\ head \in Slots
          BY <2>1, QueueAssumption DEF QueueAssumption, IInv, TypeOK, Slots, IsEmpty
    <3>3. head \in Window BY <3>2 DEF Window, InWindow
    <3> QED BY <3>1, <3>3 DEF QueuedObjs, Front
  <2>3. Front <= nobj BY <1>t, <2>2 DEF Known, Placed, TypeOK
  <2>4. obj[Front] \in ObjRecords BY <1>t, <2>2 DEF TypeOK
  <2>5. obj'[Front].kind = "bind" /\ obj'[Front].st = "started"
        BY <1>t, <2>1, <2>2, <2>4 DEF TypeOK, ObjRecords
  <2>6. Pending(Front) = 0 BY <2>1 DEF Pending
  <2>7. \A o : o = Front => Pending(o)' = 1 BY <2>5 DEF Pending, Front
  <2> QED
    <3> DEFINE f == Front
    <3>1. /\ f \in Objs /\ f <= nobj /\ Pending(f) = 0
          /\ obj' = [obj EXCEPT ![f].st = "started"] /\ ref' = [ref EXCEPT ![f] = @ + 1]
          BY <2>1, <2>2, <2>3, <2>6
    <3> SUFFICES ASSUME NEW o \in Objs, o = f PROVE HoldInv'
        BY <3>1
    <3> HIDE DEF f
    <3>2. /\ o <= nobj /\ Pending(o)' = Pending(o) + 1
          /\ obj' = [obj EXCEPT ![o].st = "started"] /\ ref' = [ref EXCEPT ![o] = @ + 1]
          BY <2>7, <3>1 DEF f
    <3>3. "started" \in ObjState BY DEF ObjState
    <3> QED BY <1>t, <2>1, <3>2, <3>3, CallbackCounted
<1>4. CASE TakeCommand
  <2>1. CASE dpc = "scan"
    <3>1. /\ ~IsEmpty /\ PopDrawobj /\ hand' = Front /\ hand = None
          /\ UNCHANGED <<inflight, doomed, nobj>> /\ UNCHANGED objVars
          BY <1>4, <2>1, <1>t
          DEF TakeCommand, objVars, hwVars, SubmitterUnchanged, Control
    <3>2. /\ Front \in QueuedObjs /\ QueuedObjs' = QueuedObjs \ {Front} /\ RingOnce'
          BY <3>1, PopPlaces
    <3>3. Front \in Objs BY <3>1, FrontObj
    <3>4. Flying' = Flying /\ InHand = {} /\ InHand' = {Front} /\ Doomed' = Doomed
          BY <3>1, <3>3 DEF Flying, InHand, Doomed, SetOf, Objs, None
    <3>5. Placed' = Placed BY <3>2, <3>4 DEF Placed
    <3>6. Apart' BY <3>1, <3>2, <3>4 DEF Apart
    <3>7. Known' /\ Counted' BY <3>1, <3>5, MoveCounted
    <3> QED BY <3>1, <3>2, <3>6, <3>7 DEF FlightOnce
  <2>2. CASE dpc # "scan"
    <3>1. UNCHANGED PlaceVars /\ UNCHANGED objVars
          BY <1>4, <2>2
          DEF TakeCommand, PlaceVars, objVars, ringVars, hwVars, SubmitterUnchanged
    <3> QED BY <3>1, HoldFrame
  <2> QED BY <2>1, <2>2
<1>5. CASE SendOk
  <2>1. /\ dpc = "send" /\ inflight' = Append(inflight, hand) /\ hand' = None
        /\ UNCHANGED <<drawqueue, head, tail, doomed, nobj>> /\ UNCHANGED objVars
        BY <1>5 DEF SendOk, objVars, ringVars, SubmitterUnchanged
  <2>2. hand \in Objs /\ InHand = {hand} /\ InHand' = {}
        BY <1>t, <2>1 DEF Control, TypeOK, InHand
  <2>3. hand \notin Flying BY <2>2 DEF Apart
  <2>4. Flying' = Flying \cup {hand} /\ FlightOnce'
        BY <1>t, <2>1, <2>2, <2>3, FlyingFacts DEF Flying, FlightOnce, SetOf
  <2>5. QueuedObjs' = QueuedObjs /\ Doomed' = Doomed
        BY <2>1 DEF QueuedObjs, Window, InWindow, Doomed
  <2>6. Placed' = Placed BY <2>2, <2>4, <2>5 DEF Placed
  <2>7. Apart' BY <2>1, <2>2, <2>4, <2>5 DEF Apart
  <2>8. Known' /\ Counted' BY <2>1, <2>6, MoveCounted
  <2>9. RingOnce' BY <2>1 DEF RingOnce, Window, InWindow
  <2> QED BY <2>4, <2>7, <2>8, <2>9
<1>6. ASSUME Destroy({hand}), hand' = None, dpc \in {"send", "requeue"},
             UNCHANGED <<inflight, drawqueue, head, tail, doomed>>
      PROVE  HoldInv'
  <2>1. hand \in Objs /\ InHand = {hand} /\ InHand' = {}
        BY <1>t, <1>6 DEF Control, TypeOK, InHand
  <2>2. Flying' = Flying /\ QueuedObjs' = QueuedObjs /\ Doomed' = Doomed /\ nobj' = nobj
        BY <1>6 DEF Flying, SetOf, QueuedObjs, Window, InWindow, Doomed, Destroy
  <2>3. Placed' = Placed \ {hand} BY <2>1, <2>2 DEF Placed, Apart
  <2>4. {hand} \subseteq Placed BY <2>1 DEF Placed
  <2>5. Apart' BY <1>6, <2>1, <2>2 DEF Apart
  <2>6. Known' BY <2>2, <2>3 DEF Known
  <2>7. Counted' BY <1>t, <1>6, <2>3, <2>4, DestroyCounted
  <2>8. FlightOnce' /\ RingOnce' BY <1>6 DEF FlightOnce, RingOnce, Window, InWindow
  <2> QED BY <2>5, <2>6, <2>7, <2>8
<1>7. CASE SendGone
      BY <1>6, <1>7 DEF SendGone, ringVars, hwVars, SubmitterUnchanged
<1>8. CASE Requeue
  <2>1. CASE ContextBad
        BY <1>6, <1>8, <2>1 DEF Requeue, ringVars, hwVars, SubmitterUnchanged
  <2>2. CASE ~ContextBad
    <3>1. /\ PutBack /\ dpc = "requeue" /\ hand' = None
          /\ UNCHANGED <<inflight, doomed, nobj>> /\ UNCHANGED objVars
          BY <1>8, <2>2 DEF Requeue, hwVars, objVars, SubmitterUnchanged
    <3>2. hand \in Objs /\ InHand = {hand} /\ InHand' = {}
          BY <1>t, <3>1 DEF Control, TypeOK, InHand
    <3>3. hand \notin QueuedObjs BY <3>2 DEF Apart
    <3>4. QueuedObjs' = QueuedObjs \cup {hand} /\ RingOnce'
          BY <2>2, <3>1, <3>2, <3>3, PutBackPlaces
    <3>5. Flying' = Flying /\ Doomed' = Doomed BY <3>1 DEF Flying, SetOf, Doomed
    <3>6. Placed' = Placed BY <3>2, <3>4, <3>5 DEF Placed
    <3>7. Apart' BY <3>1, <3>2, <3>4, <3>5 DEF Apart
    <3>8. Known' /\ Counted' BY <3>1, <3>6, MoveCounted
    <3> QED BY <3>1, <3>4, <3>7, <3>8 DEF FlightOnce
  <2> QED BY <2>1, <2>2
<1>9. CASE FinishInvalidate
  <2>1. /\ Destroy(Condemned) /\ doomed' = [doomed EXCEPT !["dispatcher"] = {}]
        /\ inflight' = << >> /\ UNCHANGED <<drawqueue, head, tail, hand>>
        BY <1>9 DEF FinishInvalidate, ringVars
  <2>2. doomed'["dispatcher"] = {} /\ doomed'["detacher"] = doomed["detacher"]
        BY <1>t, <2>1 DEF TypeOK
  <2>3. Flying' = {} /\ QueuedObjs' = QueuedObjs /\ InHand' = InHand
        /\ Doomed' = doomed["detacher"] /\ nobj' = nobj
    <3>1. Len(inflight') = 0 BY <2>1
    <3> QED BY <2>1, <2>2, <3>1
            DEF Flying, SetOf, QueuedObjs, Window, InWindow, InHand, Doomed, Destroy
  <2>4. Condemned = doomed["dispatcher"] \cup Flying BY DEF Condemned, Flying
  <2>5. Placed' = Placed \ Condemned /\ Condemned \subseteq Placed
        BY <2>3, <2>4 DEF Placed, Apart, Doomed
  <2>6. Apart' BY <2>2, <2>3 DEF Apart, Doomed
  <2>7. Known' BY <2>3, <2>5 DEF Known
  <2>8. Counted' BY <1>t, <2>1, <2>5, DestroyCounted
  <2>9. FlightOnce' /\ RingOnce' BY <2>1 DEF FlightOnce, RingOnce, Window, InWindow
  <2> QED BY <2>6, <2>7, <2>8, <2>9
<1> QED BY <1>1, <1>2, <1>3, <1>4, <1>5, <1>7, <1>8, <1>9 DEF Dispatch

(* So do retirement and recovery.                                           *)
LEMMA HardwareHolds ==
    ASSUME IInv, Ending, HoldInv, GpuFinish \/ RetireInflight \/ GpuFault \/ Recover
    PROVE  HoldInv'
<1> USE DEF HoldInv, Placement
<1>t. TypeOK /\ Control BY DEF IInv
<1>1. CASE GpuFinish \/ GpuFault \/ RecoverReplay
  <2>1. UNCHANGED PlaceVars /\ UNCHANGED objVars
        BY <1>1 DEF GpuFinish, GpuFault, RecoverReplay, PlaceVars, SubmitterUnchanged,
           objVars, ringVars, dispVars, endVars
  <2> QED BY <2>1, HoldFrame
<1>2. CASE RetireInflight
  <2>1. /\ inflight # << >> /\ Destroy({Head(inflight)}) /\ inflight' = Tail(inflight)
        /\ UNCHANGED <<drawqueue, head, tail, hand, doomed>>
        BY <1>2 DEF RetireInflight, ringVars, dispVars, SubmitterUnchanged
  <2>9. /\ Head(inflight) \in Flying /\ SetOf(inflight') = Flying \ {Head(inflight)}
        /\ \A i, j \in 1 .. Len(inflight') : inflight'[i] = inflight'[j] => i = j
        BY <1>t, <2>1, FlyingFacts
  <2>2. /\ Head(inflight) \in Flying /\ Flying' = Flying \ {Head(inflight)} /\ FlightOnce'
        BY <2>9 DEF Flying, FlightOnce, SetOf
  <2>3. QueuedObjs' = QueuedObjs /\ InHand' = InHand /\ Doomed' = Doomed /\ nobj' = nobj
        BY <2>1 DEF QueuedObjs, Window, InWindow, InHand, Doomed, Destroy
  <2>4. Placed' = Placed \ {Head(inflight)} /\ {Head(inflight)} \subseteq Placed
        BY <2>2, <2>3 DEF Placed, Apart
  <2>5. Apart' BY <2>1, <2>2, <2>3 DEF Apart
  <2>6. Known' BY <2>3, <2>4 DEF Known
  <2>7. Counted' BY <1>t, <2>1, <2>4, DestroyCounted
  <2>8. RingOnce' BY <2>1 DEF RingOnce, Window, InWindow
  <2> QED BY <2>2, <2>5, <2>6, <2>7, <2>8
<1>3. CASE RecoverDrop
  <2>1. /\ Destroy(SetOf(inflight)) /\ inflight' = << >>
        /\ UNCHANGED <<drawqueue, head, tail, hand, doomed>>
        BY <1>3 DEF RecoverDrop, ringVars, dispVars, SubmitterUnchanged
  <2>2. Flying' = {} /\ FlightOnce'
    <3>1. Len(inflight') = 0 BY <2>1
    <3> QED BY <3>1 DEF Flying, FlightOnce, SetOf
  <2>3. QueuedObjs' = QueuedObjs /\ InHand' = InHand /\ Doomed' = Doomed /\ nobj' = nobj
        BY <2>1 DEF QueuedObjs, Window, InWindow, InHand, Doomed, Destroy
  <2>4. Placed' = Placed \ SetOf(inflight) /\ SetOf(inflight) \subseteq Placed
        BY <2>2, <2>3 DEF Placed, Apart, Flying
  <2>5. Apart' BY <2>1, <2>2, <2>3 DEF Apart
  <2>6. Known' BY <2>3, <2>4 DEF Known
  <2>7. Counted' BY <1>t, <2>1, <2>4, DestroyCounted
  <2>8. RingOnce' BY <2>1 DEF RingOnce, Window, InWindow
  <2> QED BY <2>2, <2>5, <2>6, <2>7, <2>8
<1>4. CASE RecoverGuilty
  <2>1. /\ doomed' = [doomed EXCEPT !["dispatcher"] = QueuedObjs] /\ head' = tail
        /\ dpc = "idle" /\ ~invalid /\ UNCHANGED <<drawqueue, tail, inflight, hand>>
        /\ UNCHANGED objVars
        BY <1>4 DEF RecoverGuilty, Recovering
  <2>2. doomed["dispatcher"] = {} /\ doomed'["dispatcher"] = QueuedObjs
        /\ doomed'["detacher"] = doomed["detacher"]
        BY <1>t, <2>1 DEF Ending, TypeOK
  <2>3. QueuedObjs' = {} /\ RingOnce' BY <1>t, <2>1, DrainPlaces
  <2>4. Flying' = Flying /\ InHand' = InHand BY <2>1 DEF Flying, SetOf, InHand
  <2>5. Placed' = Placed BY <2>2, <2>3, <2>4 DEF Placed, Doomed
  <2>6. Apart' BY <2>2, <2>3, <2>4 DEF Apart, Doomed
  <2>7. Known' /\ Counted' BY <2>1, <2>5, MoveCounted
  <2> QED BY <2>1, <2>3, <2>6, <2>7 DEF FlightOnce
<1> QED BY <1>1, <1>2, <1>3, <1>4 DEF Recover

(* So does the detaching thread.                                            *)
LEMMA DetacherHolds ==
    ASSUME IInv, Ending, HoldInv, Detacher
    PROVE  HoldInv'
<1> USE DEF HoldInv, Placement
<1>t. TypeOK /\ Control BY DEF IInv
<1>1. CASE DetachMark \/ DetachDone \/ DetachTimeout \/ DetachGiveUp
  <2>1. UNCHANGED PlaceVars /\ UNCHANGED objVars
        BY <1>1 DEF DetachMark, DetachDone, DetachTimeout, DetachGiveUp, PlaceVars,
           objVars, ringVars, dispVars, hwVars
  <2> QED BY <2>1, HoldFrame
<1>2. CASE DetachDrain
  <2>1. /\ doomed' = [doomed EXCEPT !["detacher"] = QueuedObjs] /\ head' = tail
        /\ detach = "marked" /\ UNCHANGED <<drawqueue, tail, inflight, hand>>
        /\ UNCHANGED objVars
        BY <1>2 DEF DetachDrain, objVars, hwVars, dispVars
  <2>2. doomed["detacher"] = {} /\ doomed'["detacher"] = QueuedObjs
        /\ doomed'["dispatcher"] = doomed["dispatcher"]
        BY <1>t, <2>1 DEF Ending, TypeOK
  <2>3. QueuedObjs' = {} /\ RingOnce' BY <1>t, <2>1, DrainPlaces
  <2>4. Flying' = Flying /\ InHand' = InHand BY <2>1 DEF Flying, SetOf, InHand
  <2>5. Placed' = Placed BY <2>2, <2>3, <2>4 DEF Placed, Doomed
  <2>6. Apart' BY <2>2, <2>3, <2>4 DEF Apart, Doomed
  <2>7. Known' /\ Counted' BY <2>1, <2>5, MoveCounted
  <2> QED BY <2>1, <2>3, <2>6, <2>7 DEF FlightOnce
<1>3. CASE DetachDestroy
  <2>1. /\ Destroy(doomed["detacher"]) /\ doomed' = [doomed EXCEPT !["detacher"] = {}]
        /\ UNCHANGED <<drawqueue, head, tail, inflight, hand>>
        BY <1>3 DEF DetachDestroy, ringVars, dispVars, hwVars
  <2>2. doomed'["detacher"] = {} /\ doomed'["dispatcher"] = doomed["dispatcher"]
        BY <1>t, <2>1 DEF TypeOK
  <2>3. Flying' = Flying /\ InHand' = InHand /\ QueuedObjs' = QueuedObjs /\ nobj' = nobj
        /\ Doomed' = doomed["dispatcher"]
        BY <2>1, <2>2
        DEF Flying, SetOf, InHand, QueuedObjs, Window, InWindow, Doomed, Destroy
  <2>4. Placed' = Placed \ doomed["detacher"] /\ doomed["detacher"] \subseteq Placed
        BY <2>3 DEF Placed, Apart, Doomed
  <2>5. Apart' BY <2>2, <2>3 DEF Apart, Doomed
  <2>6. Known' BY <2>3, <2>4 DEF Known
  <2>7. Counted' BY <1>t, <2>1, <2>4, DestroyCounted
  <2>8. FlightOnce' /\ RingOnce' BY <2>1 DEF FlightOnce, RingOnce, Window, InWindow
  <2> QED BY <2>5, <2>6, <2>7, <2>8
<1> QED BY <1>1, <1>2, <1>3 DEF Detacher

(* And the callbacks: each gives back the reference it was waited for with. *)
LEMMA CallbackHolds ==
    ASSUME IInv, HoldInv, NEW o \in Objs, Callback(o)
    PROVE  HoldInv'
<1>t. TypeOK BY DEF IInv
<1>1. /\ Finish(o) /\ o <= nobj /\ Pending(o) = 1
      BY DEF Callback, SyncExpire, TsSyncExpire, BindDone, Pending
<1>2. /\ obj' = [obj EXCEPT ![o].st = "done"] /\ ref' = [ref EXCEPT ![o] = @ + (-1)]
      /\ UNCHANGED PlaceVars
  <2>1. ref[o] \in Int BY <1>t DEF TypeOK
  <2>2. ref' = [ref EXCEPT ![o] = @ - 1] BY <1>1 DEF Finish
  <2>3. ref[o] - 1 = ref[o] + (-1) BY <2>1
  <2> QED BY <1>1, <2>2, <2>3
          DEF Finish, PlaceVars, ringVars, dispVars, hwVars, SubmitterUnchanged
<1>3. obj[o] \in ObjRecords BY <1>t DEF TypeOK
<1>4. obj'[o].st = "done" BY <1>t, <1>2, <1>3 DEF TypeOK, ObjRecords
<1>5. Pending(o)' = Pending(o) + (-1) BY <1>1, <1>4 DEF Pending
<1>6. "done" \in ObjState BY DEF ObjState
<1> QED BY <1>t, <1>1, <1>2, <1>5, <1>6, CallbackCounted

(* Every step does.                                                         *)
LEMMA NextHolds ==
    ASSUME RoomAssumption, IInv, Ending, HoldInv, [Next]_vars
    PROVE  HoldInv'
<1>1. ASSUME NEW t \in Threads, Submitter(t) PROVE HoldInv'
  <2>1. CASE QueueObjs(t) BY <2>1, QueueHolds
  <2>2. CASE ~QueueObjs(t)
    <3>1. UNCHANGED PlaceVars /\ UNCHANGED objVars
          BY <1>1, <2>2 DEF Submitter, QueueStart, QueueRefused, QueueWait, CheckRoom,
             WaitTimeout, QueueFastMarker, PlaceVars, objVars, ringVars, dispVars, hwVars,
             endVars
    <3> QED BY <3>1, HoldFrame
  <2> QED BY <2>1, <2>2
<1>2. CASE UNCHANGED vars
  <2>1. UNCHANGED PlaceVars /\ UNCHANGED objVars
        BY <1>2 DEF vars, PlaceVars, objVars, ringVars, dispVars, hwVars, endVars
  <2> QED BY <2>1, HoldFrame
<1> QED BY <1>1, <1>2, DispatchHolds, HardwareHolds, DetacherHolds, CallbackHolds DEF Next

(* A new context has no objects.                                            *)
LEMMA InitHolds == Init => HoldInv /\ Ending
<1> SUFFICES ASSUME Init PROVE HoldInv /\ Ending OBVIOUS
<1>1. /\ inflight = << >> /\ hand = None /\ nobj = 0 /\ head = FirstSlot /\ tail = FirstSlot
      /\ doomed = [a \in {"dispatcher", "detacher"} |-> {}]
      BY DEF Init
<1>2. FirstSlot \in Int /\ \A i \in Slots : i \in Int
      BY QueueAssumption DEF QueueAssumption, Slots
<1>3. Window = {} BY <1>1, <1>2 DEF Window, InWindow
<1>4. Len(inflight) = 0 BY <1>1
<1>5. Placed = {} BY <1>1, <1>3, <1>4
      DEF Placed, Flying, SetOf, InHand, Doomed, QueuedObjs
<1> QED BY <1>1, <1>3, <1>4, <1>5
        DEF HoldInv, Placement, Apart, Flying, SetOf, InHand, Doomed, QueuedObjs,
            FlightOnce, RingOnce, Known, Counted, Ending

(* The queue as a sequence: slot after slot from the head, as many as the   *)
(* window holds.                                                            *)
Distance == IF head <= tail THEN tail - head ELSE tail - head + RingSize
SlotAt(i) == (head + i - 1) % RingSize

LEMMA WindowCount ==
    ASSUME TypeOK
    PROVE  /\ Distance \in Nat
           /\ \A i \in 1 .. Distance : SlotAt(i) \in Window
           /\ \A i, j \in 1 .. Distance : SlotAt(i) = SlotAt(j) => i = j
           /\ \A s \in Window : \E i \in 1 .. Distance : SlotAt(i) = s
           /\ Cardinality(Window) = Distance
<1>1. /\ RingSize \in Nat /\ RingSize > 1
      /\ head \in 0 .. RingSize - 1 /\ tail \in 0 .. RingSize - 1
      BY QueueAssumption DEF QueueAssumption, TypeOK, Slots
<1>2. Distance \in Nat /\ Distance < RingSize BY <1>1 DEF Distance
<1>3. \A i \in 1 .. Distance :
          SlotAt(i) = IF head + i - 1 < RingSize THEN head + i - 1
                                                 ELSE head + i - 1 - RingSize
  <2> SUFFICES ASSUME NEW i \in 1 .. Distance
               PROVE  SlotAt(i) = IF head + i - 1 < RingSize THEN head + i - 1
                                                             ELSE head + i - 1 - RingSize
      OBVIOUS
  <2> DEFINE a == head + i - 1
  <2>1. a \in Nat /\ a < 2 * RingSize /\ RingSize # 0 BY <1>1, <1>2
  <2>2. a % RingSize = IF a < RingSize THEN a ELSE a - RingSize
    <3> HIDE DEF a
    <3> QED BY <1>1, <2>1, ModTwice
  <2>3. SlotAt(i) = a % RingSize BY DEF SlotAt
  <2>4. SlotAt(i) = IF a < RingSize THEN a ELSE a - RingSize
    <3> HIDE DEF a
    <3> QED BY <2>2, <2>3
  <2> QED BY <1>1, <1>2, <2>4
<1>4. \A i \in 1 .. Distance : SlotAt(i) \in Window
      BY <1>1, <1>2, <1>3 DEF Distance, Window, InWindow, Slots
<1>5. \A i, j \in 1 .. Distance : SlotAt(i) = SlotAt(j) => i = j
      BY <1>1, <1>2, <1>3
<1>6. \A s \in Window : \E i \in 1 .. Distance : SlotAt(i) = s
  <2> SUFFICES ASSUME NEW s \in Window PROVE \E i \in 1 .. Distance : SlotAt(i) = s
      OBVIOUS
  <2> DEFINE k == IF head <= s THEN s - head + 1 ELSE s - head + 1 + RingSize
  <2>1. s \in 0 .. RingSize - 1 /\ InWindow(s) BY DEF Window, Slots
  <2>2. k \in 1 .. Distance BY <1>1, <2>1 DEF InWindow, Distance
  <2>3. SlotAt(k) = s BY <1>1, <1>3, <2>1, <2>2
  <2> HIDE DEF k
  <2> QED BY <2>2, <2>3
<1>7. Cardinality(Window) = Distance
  <2> DEFINE f == [i \in 1 .. Distance |-> SlotAt(i)]
  <2>1. f \in Bijection(1 .. Distance, Window)
        BY <1>4, <1>5, <1>6 DEF Bijection, Injection, Surjection, IsInjective
  <2>2. ExistsBijection(1 .. Distance, Window) BY <2>1 DEF ExistsBijection
  <2> QED BY <1>2, <2>2, FS_CountingElements
<1> QED BY <1>2, <1>4, <1>5, <1>6, <1>7

(* Every object is at most once in the pipeline, and is in it if it is in   *)
(* flight, in the dispatcher's hand or in the ring.                         *)
LEMMA PipelineCount ==
    ASSUME IInv, Placement, NEW o
    PROVE  Cardinality({i \in DOMAIN Pipeline : Pipeline[i] = o})
               = IF o \in Flying \cup InHand \cup QueuedObjs THEN 1 ELSE 0
<1> DEFINE mid == IF hand = None THEN << >> ELSE <<hand>>
           f == Len(inflight)
           h == Len(mid)
           q == Distance
           P == {i \in DOMAIN Pipeline : Pipeline[i] = o}
<1>1. TypeOK BY DEF IInv
<1>2. inflight \in Seq(Objs) /\ f \in Nat BY <1>1 DEF TypeOK
<1>3. mid \in Seq(Objs) /\ h \in Nat /\ (h = 0 \/ h = 1)
      /\ (h = 0 => InHand = {}) /\ (h = 1 => InHand = {hand} /\ mid[1] = hand)
  <2>1. CASE hand = None BY <2>1 DEF InHand
  <2>2. CASE hand # None
    <3>1. hand \in Objs BY <1>1, <2>2 DEF TypeOK
    <3> QED BY <2>2, <3>1 DEF InHand
  <2> QED BY <2>1, <2>2
<1>4. q \in Nat /\ Queue = [i \in 1 .. q |-> drawqueue[SlotAt(i)]]
      BY <1>1, WindowCount DEF Queue, SlotAt
<1>5. \A i \in 1 .. q : drawqueue[SlotAt(i)] \in Objs
      BY <1>1, WindowCount DEF IInv, Fill, Window
<1>6. Queue \in Seq(Objs) /\ Len(Queue) = q /\ \A i \in 1 .. q : Queue[i] = drawqueue[SlotAt(i)]
      BY <1>4, <1>5
<1>7. Pipeline = (inflight \o mid) \o Queue BY DEF Pipeline
<1> HIDE DEF mid, f, h, q
<1>8. /\ inflight \o mid \in Seq(Objs) /\ Len(inflight \o mid) = f + h
      /\ \A i \in 1 .. f + h : (inflight \o mid)[i] = IF i <= f THEN inflight[i] ELSE mid[i - f]
      BY <1>2, <1>3 DEF f, h
<1>9. /\ DOMAIN Pipeline = 1 .. f + h + q
      /\ \A i \in 1 .. f + h + q :
           Pipeline[i] = IF i <= f THEN inflight[i]
                         ELSE IF i <= f + h THEN mid[i - f]
                         ELSE drawqueue[SlotAt(i - f - h)]
  <2>1. /\ DOMAIN Pipeline = 1 .. f + h + q
        /\ \A i \in 1 .. f + h + q :
             Pipeline[i] = IF i <= f + h THEN (inflight \o mid)[i] ELSE Queue[i - (f + h)]
    <3> DEFINE s1 == inflight \o mid
    <3>1. s1 \in Seq(Objs) /\ Len(s1) = f + h BY <1>8
    <3>2. Pipeline = s1 \o Queue BY <1>7
    <3> HIDE DEF s1
    <3>3. /\ Len(s1 \o Queue) = Len(s1) + Len(Queue)
          /\ s1 \o Queue \in Seq(Objs)
          /\ \A i \in 1 .. Len(s1) + Len(Queue) :
               (s1 \o Queue)[i] = IF i <= Len(s1) THEN s1[i] ELSE Queue[i - Len(s1)]
      <4>1. Queue \in Seq(Objs) /\ s1 \in Seq(Objs) BY <3>1, <1>6
      <4> DEFINE s2 == Queue
      <4> HIDE DEF s2
      <4>2. s2 \in Seq(Objs) BY <4>1 DEF s2
      <4>3. /\ Len(s1 \o s2) = Len(s1) + Len(s2)
            /\ s1 \o s2 \in Seq(Objs)
            /\ \A i \in 1 .. Len(s1) + Len(s2) :
                 (s1 \o s2)[i] = IF i <= Len(s1) THEN s1[i] ELSE s2[i - Len(s1)]
            BY <4>1, <4>2, ConcatProperties, Zenon
      <4> QED BY <4>3, Zenon DEF s2
    <3>4. DOMAIN Pipeline = 1 .. Len(Pipeline) BY <3>2, <3>3
    <3>5. Len(Pipeline) = f + h + q BY <1>2, <1>3, <1>4, <1>6, <3>1, <3>2, <3>3
    <3>6. \A i \in 1 .. f + h + q :
             Pipeline[i] = IF i <= f + h THEN s1[i] ELSE Queue[i - (f + h)]
          BY <1>2, <1>3, <1>4, <1>6, <3>1, <3>2, <3>3
    <3> QED BY <3>4, <3>5, <3>6 DEF s1
  <2> SUFFICES ASSUME NEW i \in 1 .. f + h + q
               PROVE  Pipeline[i] = IF i <= f THEN inflight[i]
                         ELSE IF i <= f + h THEN mid[i - f]
                         ELSE drawqueue[SlotAt(i - f - h)]
      BY <2>1
  <2>2. CASE i <= f + h
    <3>1. i \in 1 .. f + h BY <1>2, <1>3, <1>4, <2>2
    <3>2. Pipeline[i] = (inflight \o mid)[i] BY <2>1, <2>2
    <3>3. (inflight \o mid)[i] = IF i <= f THEN inflight[i] ELSE mid[i - f]
          BY <1>8, <3>1
    <3> QED BY <2>2, <3>2, <3>3
  <2>3. CASE i > f + h
    <3>1. i - (f + h) \in 1 .. q /\ i - (f + h) = i - f - h BY <1>2, <1>3, <1>4, <2>3
    <3>2. Pipeline[i] = Queue[i - (f + h)] BY <1>2, <1>3, <1>4, <2>1, <2>3
    <3>3. Queue[i - (f + h)] = drawqueue[SlotAt(i - (f + h))] BY <1>6, <3>1
    <3> QED BY <1>2, <1>3, <2>3, <3>1, <3>2, <3>3
  <2> QED BY <1>2, <1>3, <1>4, <2>2, <2>3
<1>10. \A i \in 1 .. f : inflight[i] \in Flying BY DEF f, Flying, SetOf
<1>11. \A i \in 1 .. q : drawqueue[SlotAt(i)] \in QueuedObjs
       BY <1>1, WindowCount DEF q, QueuedObjs
<1>12. ASSUME NEW i \in P, NEW j \in P PROVE i = j
  <2>1. i \in 1 .. f + h + q /\ j \in 1 .. f + h + q /\ Pipeline[i] = o /\ Pipeline[j] = o
        BY <1>9, <1>12
  <2>2. \A k \in 1 .. f + h + q :
            /\ k <= f => Pipeline[k] = inflight[k] /\ k \in 1 .. f /\ Pipeline[k] \in Flying
            /\ k > f /\ k <= f + h => k = f + 1 /\ Pipeline[k] \in InHand
            /\ k > f + h => /\ k - f - h \in 1 .. q /\ Pipeline[k] \in QueuedObjs
                            /\ Pipeline[k] = drawqueue[SlotAt(k - f - h)]
    <3> SUFFICES ASSUME NEW k \in 1 .. f + h + q
                 PROVE  /\ k <= f => Pipeline[k] = inflight[k] /\ k \in 1 .. f /\ Pipeline[k] \in Flying
                        /\ k > f /\ k <= f + h => k = f + 1 /\ Pipeline[k] \in InHand
                        /\ k > f + h => /\ k - f - h \in 1 .. q /\ Pipeline[k] \in QueuedObjs
                                        /\ Pipeline[k] = drawqueue[SlotAt(k - f - h)]
        OBVIOUS
    <3>1. CASE k <= f BY <1>2, <1>3, <1>4, <1>9, <1>10, <3>1
    <3>2. CASE k > f /\ k <= f + h BY <1>2, <1>3, <1>4, <1>9, <3>2
    <3>3. CASE k > f + h
      <4>1. k - f - h \in 1 .. q BY <1>2, <1>3, <1>4, <3>3
      <4> QED BY <1>2, <1>3, <1>4, <1>9, <1>11, <3>3, <4>1
    <3> QED BY <1>2, <1>3, <1>4, <3>1, <3>2, <3>3
  <2>3. Flying \cap InHand = {} /\ Flying \cap QueuedObjs = {} /\ InHand \cap QueuedObjs = {}
        BY DEF Placement, Apart
  <2>4. CASE o \in Flying
    <3>1. i <= f /\ j <= f BY <1>2, <1>3, <1>4, <2>1, <2>2, <2>3, <2>4
    <3>2. i \in 1 .. f /\ j \in 1 .. f /\ inflight[i] = inflight[j]
          BY <2>1, <2>2, <3>1
    <3> QED BY <3>2 DEF f, Placement, FlightOnce
  <2>5. CASE o \in InHand
    <3>1. i = f + 1 /\ j = f + 1 BY <1>2, <1>3, <1>4, <2>1, <2>2, <2>3, <2>5
    <3> QED BY <3>1
  <2>6. CASE o \in QueuedObjs
    <3>1. i > f + h /\ j > f + h
      <4>1. o \notin Flying /\ o \notin InHand BY <2>3, <2>6
      <4>2. \A k \in 1 .. f + h + q : Pipeline[k] = o => ~(k <= f) /\ ~(k > f /\ k <= f + h)
            BY <2>2, <4>1
      <4> QED BY <1>2, <1>3, <1>4, <2>1, <4>2
    <3>2. /\ i - f - h \in 1 .. q /\ j - f - h \in 1 .. q
          /\ drawqueue[SlotAt(i - f - h)] = drawqueue[SlotAt(j - f - h)]
          BY <2>1, <2>2, <3>1
    <3>3. SlotAt(i - f - h) \in Window /\ SlotAt(j - f - h) \in Window
          BY <1>1, <3>2, WindowCount DEF q
    <3>4. SlotAt(i - f - h) = SlotAt(j - f - h) BY <3>2, <3>3 DEF Placement, RingOnce
    <3>5. i - f - h = j - f - h BY <1>1, <3>2, <3>4, WindowCount DEF q
    <3> QED BY <1>2, <1>3, <1>4, <2>1, <3>5
  <2>7. o \in Flying \cup InHand \cup QueuedObjs
        BY <1>2, <1>3, <1>4, <2>1, <2>2
  <2> QED BY <2>4, <2>5, <2>6, <2>7
<1>13. P # {} <=> o \in Flying \cup InHand \cup QueuedObjs
  <2>1. ASSUME NEW i \in P PROVE o \in Flying \cup InHand \cup QueuedObjs
    <3>1. i \in 1 .. f + h + q /\ Pipeline[i] = o BY <1>9, <2>1
    <3>2. CASE i <= f
      <4>1. i \in 1 .. f BY <1>2, <1>3, <1>4, <3>1, <3>2
      <4> QED BY <1>9, <1>10, <3>1, <3>2, <4>1
    <3>3. CASE i > f /\ i <= f + h BY <1>2, <1>3, <1>4, <1>9, <3>1, <3>3
    <3>4. CASE i > f + h
      <4>1. i - f - h \in 1 .. q BY <1>2, <1>3, <1>4, <3>1, <3>4
      <4>2. o = drawqueue[SlotAt(i - f - h)] BY <1>2, <1>3, <1>4, <1>9, <3>1, <3>4
      <4> QED BY <1>11, <4>1, <4>2
    <3> QED BY <1>2, <1>3, <1>4, <3>1, <3>2, <3>3, <3>4
  <2>2. CASE o \in Flying
    <3>1. PICK i \in 1 .. f : inflight[i] = o BY <2>2 DEF f, Flying, SetOf
    <3>2. i \in DOMAIN Pipeline /\ Pipeline[i] = o BY <1>2, <1>3, <1>4, <1>9, <3>1
    <3> QED BY <2>2, <3>2
  <2>3. CASE o \in InHand
    <3>1. f + 1 \in 1 .. f + h + q /\ h = 1 /\ o = hand /\ mid[1] = hand
          BY <1>2, <1>3, <1>4, <2>3
    <3>2. Pipeline[f + 1] = o BY <1>2, <1>3, <1>9, <3>1
    <3> QED BY <1>9, <2>3, <3>1, <3>2
  <2>4. CASE o \in QueuedObjs
    <3>1. PICK s \in Window : o = drawqueue[s] BY <2>4 DEF QueuedObjs
    <3>2. PICK i \in 1 .. q : SlotAt(i) = s BY <1>1, WindowCount DEF q
    <3>3. f + h + i \in 1 .. f + h + q /\ (f + h + i) - f - h = i /\ ~(f + h + i <= f + h)
          /\ ~(f + h + i <= f)
          BY <1>2, <1>3, <1>4
    <3>4. Pipeline[f + h + i] = o BY <1>9, <3>1, <3>2, <3>3
    <3> QED BY <1>9, <2>4, <3>3, <3>4
  <2> QED BY <2>1, <2>2, <2>3, <2>4
<1>14. CASE P = {} BY <1>13, <1>14, FS_EmptySet
<1>15. CASE P # {}
  <2>1. PICK i \in P : TRUE BY <1>15
  <2>2. P = {i} BY <1>12, <2>1
  <2>3. Cardinality(P) = 1 BY <2>2, FS_Singleton
  <2> QED BY <1>13, <1>15, <2>3
<1> QED BY <1>14, <1>15

(* No draw object leaks and none is used after its last put: each has one   *)
(* reference for the one place that holds it (the ring, the dispatcher's    *)
(* hand, the dispatch queue, the list of what is to be destroyed) and one   *)
(* for a callback that is still to come.                                    *)
THEOREM ReferencesMatch == ASSUME RoomAssumption PROVE Spec => []RefsMatchHolders
<1>1. IInv /\ HoldInv => RefsMatchHolders
  <2> SUFFICES ASSUME IInv, HoldInv, NEW o \in 1 .. nobj PROVE ref[o] = Holders(o)
      BY DEF RefsMatchHolders
  <2> DEFINE D == {a \in DOMAIN doomed : o \in doomed[a]}
  <2>1. Placement /\ TypeOK BY DEF HoldInv, IInv
  <2>2. Cardinality({i \in DOMAIN Pipeline : Pipeline[i] = o})
            = IF o \in Flying \cup InHand \cup QueuedObjs THEN 1 ELSE 0
        BY <2>1, PipelineCount
  <2>3. Cardinality(D) = IF o \in Doomed THEN 1 ELSE 0
    <3>1. DOMAIN doomed = {"dispatcher", "detacher"} BY <2>1 DEF TypeOK
    <3>2. doomed["dispatcher"] \cap doomed["detacher"] = {} BY <2>1 DEF Placement, Apart
    <3>3. CASE o \in doomed["dispatcher"]
      <4>1. D = {"dispatcher"} BY <3>1, <3>2, <3>3
      <4> QED BY <3>3, <4>1, FS_Singleton DEF Doomed
    <3>4. CASE o \in doomed["detacher"]
      <4>1. D = {"detacher"} BY <3>1, <3>2, <3>4
      <4> QED BY <3>4, <4>1, FS_Singleton DEF Doomed
    <3>5. CASE o \notin Doomed
      <4>1. D = {} BY <3>1, <3>5 DEF Doomed
      <4> QED BY <3>5, <4>1, FS_EmptySet
    <3> QED BY <3>3, <3>4, <3>5 DEF Doomed
  <2>4. o \in Doomed => o \notin Flying \cup InHand \cup QueuedObjs
        BY <2>1 DEF Placement, Apart
  <2>5. Holders(o) = (IF o \in Flying \cup InHand \cup QueuedObjs THEN 1 ELSE 0)
                     + (IF o \in Doomed THEN 1 ELSE 0) + Pending(o)
        BY <2>2, <2>3 DEF Holders, Pending
  <2>6. ref[o] = Pending(o) + (IF o \in Placed THEN 1 ELSE 0) BY DEF HoldInv, Counted
  <2>7. Pending(o) \in {0, 1} BY DEF Pending
  <2> QED BY <2>4, <2>5, <2>6, <2>7 DEF Placed
<1>2. IInv /\ Ending /\ HoldInv /\ [Next]_vars => HoldInv' BY NextHolds
<1>3. IInv /\ Ending /\ [Next]_vars => Ending' BY NextEnding DEF IInv
<1> QED BY <1>1, <1>2, <1>3, InitHolds, SpecIInv, PTL DEF Spec

=============================================================================
