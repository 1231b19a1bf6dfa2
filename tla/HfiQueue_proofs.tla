-------------------------- MODULE HfiQueue_proofs --------------------------
(***************************************************************************)
(* Proofs about HfiQueue: for every size and all messages the circular     *)
(* queue implements MessageQueue, however its two sides interleave.        *)
(*                                                                         *)
(* The invariant lays the messages out in the unread part of the queue,    *)
(* one behind the other.  What the recursive function Start finds there is *)
(* proved by induction, as the least number for which it would fail        *)
(* (NatMin).                                                               *)
(***************************************************************************)
EXTENDS HfiQueue, SequenceTheorems, WellFoundedInduction, TLAPS

-----------------------------------------------------------------------------
(* Numbers                                                                 *)

(* A set of natural numbers that is not empty has a least one.              *)
LEMMA NatMin ==
    ASSUME NEW T, T \subseteq Nat, T # {}
    PROVE  \E m \in T : \A k \in T : ~(k < m)
<1>1. ASSUME NEW i \in Nat, NEW j \in Nat, i < j PROVE <<i, j>> \in OpToRel(<, Nat)
      BY <1>1 DEF OpToRel
<1>2. PICK m \in T : \A k \in T : <<k, m>> \notin OpToRel(<, Nat)
      BY NatLessThanWellFounded, WFMin
<1>3. ASSUME NEW k \in T PROVE ~(k < m) BY <1>1, <1>2
<1> QED BY <1>3

(* What % does to a sum of less than twice the size, and to a difference.   *)
LEMMA ModTwice ==
    ASSUME HfiQueueAssumption, NEW a \in Nat, a < 2 * Size
    PROVE  a % Size = IF a < Size THEN a ELSE a - Size
<1>1. Size \in Nat /\ Size > 0 BY DEF HfiQueueAssumption
<1> QED BY <1>1, SMTT(30)

LEMMA ModDiff ==
    ASSUME HfiQueueAssumption, NEW w \in Index, NEW r \in Index
    PROVE  (w - r) % Size = IF w >= r THEN w - r ELSE w - r + Size
<1>1. Size \in Nat /\ Size > 0 BY DEF HfiQueueAssumption
<1>2. w \in 0 .. Size - 1 /\ r \in 0 .. Size - 1 BY DEF Index
<1> QED BY <1>1, <1>2, SMTT(30)

(* One modulus is enough.                                                   *)
LEMMA ModSum ==
    ASSUME HfiQueueAssumption, NEW r \in Index, NEW o \in Nat, NEW j \in Nat, o + j < Size
    PROVE  (((r + o) % Size) + j) % Size = (r + (o + j)) % Size
<1>1. Size \in Nat /\ Size > 0 BY DEF HfiQueueAssumption
<1>2. r \in 0 .. Size - 1 BY DEF Index
<1> DEFINE a == r + o
           b == a % Size
           c == b + j
           d == r + (o + j)
<1>3. a \in Nat /\ a < 2 * Size /\ d \in Nat /\ d < 2 * Size BY <1>1, <1>2
<1>4. b = IF a < Size THEN a ELSE a - Size BY <1>3, ModTwice
<1>5. b \in Nat /\ c \in Nat /\ c < 2 * Size
  <2> HIDE DEF b
  <2> QED BY <1>1, <1>2, <1>3, <1>4
<1>6. c % Size = IF c < Size THEN c ELSE c - Size
  <2> HIDE DEF c
  <2> QED BY <1>5, ModTwice
<1>7. d % Size = IF d < Size THEN d ELSE d - Size
  <2> HIDE DEF d
  <2> QED BY <1>3, ModTwice
<1>8. (IF c < Size THEN c ELSE c - Size) = IF d < Size THEN d ELSE d - Size
  <2> HIDE DEF b
  <2> QED BY <1>1, <1>2, <1>3, <1>4
<1> QED BY <1>6, <1>7, <1>8

(* Different distances below the size are different slots.                  *)
LEMMA SlotsDiffer ==
    ASSUME HfiQueueAssumption, NEW r \in Index, NEW i \in Nat, NEW j \in Nat,
           i < Size, j < Size, i # j
    PROVE  (r + i) % Size # (r + j) % Size /\ (r + i) % Size \in Index
<1>1. Size \in Nat /\ Size > 0 BY DEF HfiQueueAssumption
<1>2. r \in 0 .. Size - 1 BY DEF Index
<1>3. (r + i) % Size = IF r + i < Size THEN r + i ELSE r + i - Size BY <1>1, <1>2, ModTwice
<1>4. (r + j) % Size = IF r + j < Size THEN r + j ELSE r + j - Size BY <1>1, <1>2, ModTwice
<1> DEFINE a == (r + i) % Size
           b == (r + j) % Size
<1> HIDE DEF a, b
<1>5. a = (IF r + i < Size THEN r + i ELSE r + i - Size)
      /\ b = (IF r + j < Size THEN r + j ELSE r + j - Size)
      BY <1>3, <1>4 DEF a, b
<1>6. a # b /\ a \in 0 .. Size - 1 BY <1>1, <1>2, <1>5
<1> QED BY <1>6 DEF a, b, Index

(* A slot, seen from either index, where u is the distance between them.    *)
LEMMA FromEitherIndex ==
    ASSUME HfiQueueAssumption, NEW w \in Index, NEW r \in Index, NEW u \in Nat, NEW j \in Nat,
           u = (IF w >= r THEN w - r ELSE w - r + Size), u + j < Size
    PROVE  (w + j) % Size = (r + (u + j)) % Size
<1>1. Size \in Nat /\ Size > 0 BY DEF HfiQueueAssumption
<1>2. w \in 0 .. Size - 1 /\ r \in 0 .. Size - 1 BY DEF Index
<1> DEFINE a == w + j
           b == r + (u + j)
<1>3. a \in Nat /\ a < 2 * Size /\ b \in Nat /\ b < 2 * Size BY <1>1, <1>2
<1>4. (IF a < Size THEN a ELSE a - Size) = IF b < Size THEN b ELSE b - Size
      BY <1>1, <1>2
<1> HIDE DEF a, b
<1>5. a % Size = b % Size BY <1>3, <1>4, ModTwice
<1> QED BY <1>5 DEF a, b

(* Aligning takes to the next multiple of four.                             *)
LEMMA AlignFacts ==
    ASSUME NEW n \in Nat
    PROVE  Align(n) \in Nat /\ Align(n) >= n /\ Align(n) % 4 = 0 /\ Align(n) < n + 4
BY SMTT(30) DEF Align

(* Aligning commutes with adding, or taking away, a multiple of four.       *)
LEMMA AlignShift ==
    ASSUME NEW n \in Nat, NEW c \in Int, c % 4 = 0, n + c >= 0
    PROVE  Align(n + c) = Align(n) + c
<1>1. PICK k \in Int : c = 4 * k
  <2>1. c = 4 * (c \div 4) /\ c \div 4 \in Int OBVIOUS
  <2> QED BY <2>1
<1>2. ((n + c) + 3) \div 4 = ((n + 3) \div 4) + k BY <1>1
<1>3. (n + 3) \div 4 \in Int OBVIOUS
<1> DEFINE d == (n + 3) \div 4
<1>4. Align(n + c) = (d + k) * 4 /\ Align(n) = d * 4 BY <1>2 DEF Align
<1> HIDE DEF d
<1>5. d \in Int BY <1>3 DEF d
<1> QED BY <1>1, <1>4, <1>5

(* A sum of two multiples of four stays one in the queue.                   *)
LEMMA SumStaysAligned ==
    ASSUME HfiQueueAssumption, NEW w \in Index, w % 4 = 0, NEW a \in Nat, a % 4 = 0, a < Size
    PROVE  (w + a) % Size \in Index /\ ((w + a) % Size) % 4 = 0
<1>1. Size \in Nat /\ Size > 0 /\ Size % 4 = 0 BY DEF HfiQueueAssumption
<1>2. w \in 0 .. Size - 1 BY DEF Index
<1> DEFINE v == (w + a) % Size
<1>3. v = IF w + a < Size THEN w + a ELSE w + a - Size BY <1>1, <1>2, ModTwice
<1> HIDE DEF v
<1>4. v \in 0 .. Size - 1 BY <1>1, <1>2, <1>3
<1>5. v % 4 = 0
  <2>1. (w + a) % 4 = 0 /\ (w + a - Size) % 4 = 0 BY <1>1, <1>2
  <2> QED BY <1>3, <2>1
<1> QED BY <1>4, <1>5 DEF v, Index

(* The write index moves by a: so much more is unread.                      *)
LEMMA MoreUnread ==
    ASSUME HfiQueueAssumption, NEW w \in Index, NEW r \in Index, NEW a \in Nat,
           ((w - r) % Size) + a < Size
    PROVE  (((w + a) % Size) - r) % Size = ((w - r) % Size) + a
<1>1. Size \in Nat /\ Size > 0 BY DEF HfiQueueAssumption
<1>2. w \in 0 .. Size - 1 /\ r \in 0 .. Size - 1 BY DEF Index
<1> DEFINE u == (w - r) % Size
           v == (w + a) % Size
<1>3. u = IF w >= r THEN w - r ELSE w - r + Size BY ModDiff
<1>4. u + a < Size OBVIOUS
<1>5. w + a < 2 * Size /\ w + a \in Nat
  <2> HIDE DEF u
  <2> QED BY <1>1, <1>2, <1>3, <1>4
<1>6. v = IF w + a < Size THEN w + a ELSE w + a - Size
      BY <1>1, <1>2, <1>5, ModTwice
<1>7. v \in Index
  <2> HIDE DEF v
  <2>1. v \in 0 .. Size - 1 BY <1>1, <1>2, <1>5, <1>6
  <2> QED BY <2>1 DEF Index
<1>8. (v - r) % Size = IF v >= r THEN v - r ELSE v - r + Size
  <2> HIDE DEF v
  <2> QED BY <1>7, ModDiff
<1>9. (IF v >= r THEN v - r ELSE v - r + Size) = u + a
  <2> HIDE DEF u, v
  <2> QED BY <1>1, <1>2, <1>3, <1>4, <1>6
<1>10. (v - r) % Size = u + a
  <2> HIDE DEF u, v
  <2> QED BY ONLY <1>8, <1>9
<1> QED BY ONLY <1>10

(* The read index moves by a, no further than the write index: so much      *)
(* less is unread.                                                          *)
LEMMA LessUnread ==
    ASSUME HfiQueueAssumption, NEW w \in Index, NEW r \in Index, NEW a \in Nat,
           a <= (w - r) % Size
    PROVE  (w - ((r + a) % Size)) % Size = ((w - r) % Size) - a
<1>1. Size \in Nat /\ Size > 0 BY DEF HfiQueueAssumption
<1>2. w \in 0 .. Size - 1 /\ r \in 0 .. Size - 1 BY DEF Index
<1> DEFINE u == (w - r) % Size
           v == (r + a) % Size
<1>3. u = IF w >= r THEN w - r ELSE w - r + Size BY ModDiff
<1>4. a <= u OBVIOUS
<1>5. r + a < 2 * Size /\ r + a \in Nat
  <2> HIDE DEF u
  <2> QED BY <1>1, <1>2, <1>3, <1>4
<1>6. v = IF r + a < Size THEN r + a ELSE r + a - Size
      BY <1>1, <1>2, <1>5, ModTwice
<1>7. v \in Index
  <2> HIDE DEF v
  <2>1. v \in 0 .. Size - 1 BY <1>1, <1>2, <1>5, <1>6
  <2> QED BY <2>1 DEF Index
<1>8. (w - v) % Size = IF w >= v THEN w - v ELSE w - v + Size
  <2> HIDE DEF v
  <2> QED BY <1>7, ModDiff
<1>9. (IF w >= v THEN w - v ELSE w - v + Size) = u - a
  <2> HIDE DEF u, v
  <2> QED BY <1>1, <1>2, <1>3, <1>4, <1>6
<1>10. (w - v) % Size = u - a
  <2> HIDE DEF u, v
  <2> QED BY ONLY <1>8, <1>9
<1>11. u \in Int
  <2> HIDE DEF u
  <2> QED BY <1>1, <1>2, <1>3
<1> QED BY ONLY <1>1, <1>2, <1>10, <1>11

(* The reader aligns the index, the writer the length: it is the same.      *)
LEMMA PastIsAligned ==
    ASSUME HfiQueueAssumption, NEW r \in Index, r % 4 = 0, NEW n \in Nat, Align(n) < Size
    PROVE  Align((r + n) % Size) % Size = (r + Align(n)) % Size
<1>1. Size \in Nat /\ Size > 0 /\ Size % 4 = 0 BY DEF HfiQueueAssumption
<1>2. r \in 0 .. Size - 1 BY DEF Index
<1> DEFINE a == Align(n)
<1>3. a \in Nat /\ a >= n /\ a < Size BY AlignFacts
<1>4. n + r >= 0 /\ Align(n + r) = a + r BY <1>2, AlignShift
<1> HIDE DEF a
<1>5. r + n \in Nat /\ r + n < 2 * Size /\ r + a \in Nat /\ r + a < 2 * Size BY <1>1, <1>2, <1>3
<1>6. CASE r + n < Size
  <2>1. (r + n) % Size = r + n BY <1>5, <1>6, ModTwice
  <2>2. r + n = n + r /\ r + a = a + r BY <1>2, <1>3
  <2> QED BY <1>4, <2>1, <2>2 DEF a
<1>7. CASE r + n >= Size
  <2>1. (r + n) % Size = r + n - Size
    <3>1. (r + n) % Size = IF r + n < Size THEN r + n ELSE r + n - Size
          BY <1>1, <1>2, <1>5, ModTwice
    <3>2. ~(r + n < Size) BY <1>1, <1>2, <1>7
    <3> QED BY ONLY <3>1, <3>2
  <2>2. (r - Size) % 4 = 0 /\ r - Size \in Int BY <1>1, <1>2
  <2>3. n + (r - Size) >= 0 BY <1>1, <1>2, <1>7
  <2>4. Align(n + (r - Size)) = a + (r - Size) BY <2>2, <2>3, AlignShift DEF a
  <2>5. r + n - Size = n + (r - Size) BY <1>1, <1>2
  <2>6. (r + a) % Size = r + a - Size
    <3>1. (r + a) % Size = IF r + a < Size THEN r + a ELSE r + a - Size
          BY <1>1, <1>2, <1>3, <1>5, ModTwice
    <3>2. ~(r + a < Size) BY <1>1, <1>2, <1>3, <1>7
    <3> QED BY ONLY <3>1, <3>2
  <2>7. (a + (r - Size)) % Size = r + a - Size
    <3> DEFINE b == a + (r - Size)
    <3>1. b \in Nat /\ b < Size /\ b = r + a - Size BY <1>1, <1>2, <1>3, <1>7
    <3> HIDE DEF b
    <3>2. b % Size = b BY <1>1, <3>1, ModTwice
    <3> QED BY <3>1, <3>2 DEF b
  <2> QED BY <2>1, <2>4, <2>5, <2>6, <2>7 DEF a
<1>8. r + n < Size \/ r + n >= Size BY <1>1, <1>2
<1> QED BY <1>6, <1>7, <1>8

(* Every message takes at least four dwords and less than the queue.        *)
LEMMA MessageFacts ==
    ASSUME HfiQueueAssumption, NEW m \in Messages
    PROVE  /\ m \in Seq(Dwords) /\ Len(m) \in Nat \ {0} /\ m[1] = Len(m)
           /\ Align(Len(m)) \in Nat /\ Align(Len(m)) >= Len(m)
           /\ Align(Len(m)) % 4 = 0 /\ Align(Len(m)) < Size
<1>1. m \in Seq(Dwords) /\ Len(m) > 0 /\ m[1] = Len(m) /\ Align(Len(m)) < Size
      BY DEF HfiQueueAssumption
<1>2. Len(m) \in Nat \ {0} BY <1>1
<1> QED BY <1>1, <1>2, AlignFacts

-----------------------------------------------------------------------------
(* What the queue holds, of its dwords, the read index and the distance to *)
(* the write index                                                         *)

IsStart(s, q, r, n) ==
    s = [k \in 0 .. n |-> IF k = 0 THEN 0 ELSE s[k - 1] + Align(q[(r + s[k - 1]) % Size])]
StartOf(q, r) == CHOOSE s : IsStart(s, q, r, Size)
At(q, r, o) == [i \in 1 .. q[(r + o) % Size] |-> q[(((r + o) % Size) + i - 1) % Size]]
CountOf(s, u) == CHOOSE n \in 0 .. Size : s[n] = u /\ \A k \in 0 .. n - 1 : s[k] < u
ContentsOf(q, r, u) ==
    [k \in 1 .. CountOf(StartOf(q, r), u) |-> At(q, r, StartOf(q, r)[k - 1])]

(* The messages ms lie in the u unread dwords, from the distances off on.   *)
Laid(q, r, u, n, ms, off) ==
    /\ n \in 0 .. Size - 1 /\ ms \in [1 .. n -> Messages] /\ off \in [0 .. n -> Nat]
    /\ off[0] = 0 /\ off[n] = u
    /\ \A j, k \in 0 .. n : j <= k => off[j] + (k - j) <= off[k]
    /\ \A k \in 1 .. n : off[k] = off[k - 1] + Align(Len(ms[k]))
    /\ \A k \in 1 .. n : \A i \in 1 .. Len(ms[k]) :
          q[(r + (off[k - 1] + (i - 1))) % Size] = ms[k][i]

LEMMA LaidBounds ==
    ASSUME NEW q, NEW r, NEW u, NEW n, NEW ms, NEW off, Laid(q, r, u, n, ms, off), Size \in Nat
    PROVE  n \in Nat /\ u \in Nat /\ \A k \in 0 .. n : off[k] \in Nat /\ k <= off[k] /\ off[k] <= u
<1>1. n \in Nat /\ off \in [0 .. n -> Nat] /\ off[0] = 0 /\ off[n] = u
  <2>1. n \in 0 .. Size - 1 /\ off \in [0 .. n -> Nat] /\ off[0] = 0 /\ off[n] = u
        BY Zenon DEF Laid
  <2> QED BY <2>1
<1>2. 0 \in 0 .. n /\ n \in 0 .. n BY <1>1
<1>4. \A j, k \in 0 .. n : j <= k => off[j] + (k - j) <= off[k] BY Zenon DEF Laid
<1>3. ASSUME NEW k \in 0 .. n PROVE off[k] \in Nat /\ k <= off[k] /\ off[k] <= u
  <2>1. 0 <= k /\ k <= n BY <1>1
  <2>3. off[0] + (k - 0) <= off[k] /\ off[k] + (n - k) <= off[n] BY <1>2, <1>4, <2>1
  <2>2. off[k] \in Nat /\ u \in Nat BY <1>1, <1>2
  <2> QED BY <1>1, <2>2, <2>3
<1> QED BY <1>1, <1>2, <1>3

(* The recursive definition of Start has a solution, whatever the queue     *)
(* holds.                                                                   *)
LEMMA StartsExist == ASSUME NEW q, NEW r, NEW n \in Nat PROVE \E s : IsStart(s, q, r, n)
<1> DEFINE T == {m \in Nat : ~ \E s : IsStart(s, q, r, m)}
<1> SUFFICES ASSUME T # {} PROVE FALSE OBVIOUS
<1>1. PICK m \in T : \A k \in T : ~(k < m) BY NatMin
<1>2. CASE m = 0
  <2>1. IsStart([k \in 0 .. 0 |-> 0], q, r, 0) BY DEF IsStart
  <2> QED BY <1>2, <2>1
<1>3. CASE m # 0
  <2>1. m - 1 \in Nat /\ m - 1 < m BY <1>3
  <2>2. m - 1 \notin T BY <1>1, <2>1
  <2>3. PICK s : IsStart(s, q, r, m - 1) BY <2>1, <2>2
  <2> DEFINE next(v) == v + Align(q[(r + v) % Size])
             h == [k \in 0 .. m |-> IF k < m THEN s[k] ELSE next(s[m - 1])]
  <2>4. ASSUME NEW k \in 0 .. m PROVE h[k] = IF k = 0 THEN 0 ELSE next(h[k - 1])
    <3> HIDE DEF next
    <3>1. CASE k = 0 BY <1>3, <2>1, <2>3, <3>1 DEF IsStart
    <3>2. CASE k # 0 /\ k < m
      <4>1. k \in 0 .. m - 1 /\ k - 1 \in 0 .. m /\ k - 1 < m BY <2>1, <3>2
      <4>2. h[k] = s[k] /\ h[k - 1] = s[k - 1] BY <3>2, <4>1
      <4>3. s[k] = next(s[k - 1]) BY <2>3, <3>2, <4>1 DEF IsStart, next
      <4> QED BY <3>2, <4>2, <4>3
    <3>3. CASE k = m
      <4>1. k - 1 \in 0 .. m /\ k - 1 < m BY <2>1, <3>3
      <4>2. h[k - 1] = s[m - 1] BY <3>3, <4>1
      <4> QED BY <1>3, <3>3, <4>2
    <3> QED BY <1>3, <3>1, <3>2, <3>3
  <2>5. h = [k \in 0 .. m |-> h[k]] OBVIOUS
  <2> HIDE DEF h
  <2>6. IsStart(h, q, r, m) BY <2>4, <2>5 DEF IsStart
  <2> QED BY <2>6
<1> QED BY <1>2, <1>3

(* Start finds the beginnings of the messages that are laid out.            *)
LEMMA StartsFound ==
    ASSUME HfiQueueAssumption, NEW q, NEW r \in Index, NEW u \in 0 .. Size - 1, NEW n, NEW ms,
           NEW off, Laid(q, r, u, n, ms, off), NEW s, IsStart(s, q, r, Size)
    PROVE  \A k \in 0 .. n : s[k] = off[k]
<1>1. Size \in Nat /\ n \in Nat /\ n < Size BY DEF HfiQueueAssumption, Laid
<1> DEFINE T == {k \in Nat : k <= n /\ s[k] # off[k]}
<1> SUFFICES ASSUME T # {} PROVE FALSE BY <1>1
<1>2. PICK m \in T : \A k \in T : ~(k < m) BY NatMin
<1>3. m # 0
  <2>1. s[0] = 0
    <3>1. 0 \in 0 .. Size BY <1>1
    <3> QED BY <3>1 DEF IsStart
  <2>2. off[0] = 0 BY DEF Laid
  <2> QED BY <1>2, <2>1, <2>2
<1>4. m - 1 \in Nat /\ m - 1 < m /\ m - 1 <= n /\ m \in 1 .. n /\ m \in 0 .. Size
      BY <1>1, <1>3
<1>5. s[m - 1] = off[m - 1] BY <1>2, <1>4
<1>6. ms[m] \in Messages BY <1>4 DEF Laid
<1>7. Len(ms[m]) \in Nat \ {0} /\ ms[m][1] = Len(ms[m]) BY <1>6, MessageFacts
<1>8. q[(r + off[m - 1]) % Size] = Len(ms[m])
  <2>1. 1 \in 1 .. Len(ms[m]) BY <1>7
  <2>2. q[(r + (off[m - 1] + (1 - 1))) % Size] = ms[m][1] BY <1>4, <2>1 DEF Laid
  <2>3. off[m - 1] + (1 - 1) = off[m - 1]
    <3>1. off[m - 1] \in Nat BY <1>4 DEF Laid
    <3> QED BY <3>1
  <2> QED BY <1>7, <2>2, <2>3
<1>9. s[m] = s[m - 1] + Align(q[(r + s[m - 1]) % Size]) BY <1>3, <1>4 DEF IsStart
<1>10. off[m] = off[m - 1] + Align(Len(ms[m])) BY <1>4 DEF Laid
<1> QED BY <1>2, <1>5, <1>8, <1>9, <1>10

(* So what the queue holds is what was laid out in it.                      *)
LEMMA ContentsLaid ==
    ASSUME HfiQueueAssumption, NEW q, NEW r \in Index, NEW u \in 0 .. Size - 1, NEW n, NEW ms,
           NEW off, Laid(q, r, u, n, ms, off)
    PROVE  ContentsOf(q, r, u) = ms
<1> DEFINE s == StartOf(q, r)
<1>1. Size \in Nat /\ n \in Nat /\ n < Size BY DEF HfiQueueAssumption, Laid
<1>2. IsStart(s, q, r, Size)
  <2>1. \E t : IsStart(t, q, r, Size) BY <1>1, StartsExist
  <2> QED BY <2>1, Zenon DEF StartOf
<1>3. \A k \in 0 .. n : s[k] = off[k] BY <1>2, StartsFound
<1> HIDE DEF s
<1>4. \A k \in 0 .. n - 1 : off[k] < u
  <2> SUFFICES ASSUME NEW k \in 0 .. n - 1 PROVE off[k] < u OBVIOUS
  <2>1. k + 1 \in 1 .. n /\ (k + 1) - 1 = k /\ k + 1 \in 0 .. n /\ k \in 0 .. n BY <1>1
  <2>2. off[k + 1] = off[k] + Align(Len(ms[k + 1])) BY <2>1 DEF Laid
  <2>5. off[k + 1] <= u /\ off[k] \in Nat /\ u \in Nat BY <1>1, <2>1, LaidBounds
  <2>3. ms[k + 1] \in Messages BY <2>1 DEF Laid
  <2>4. Align(Len(ms[k + 1])) \in Nat /\ Align(Len(ms[k + 1])) > 0 BY <2>3, MessageFacts
  <2> QED BY <2>2, <2>4, <2>5
<1>5. s[n] = u /\ \A k \in 0 .. n - 1 : s[k] < u
  <2>1. off[n] = u BY DEF Laid
  <2> QED BY <1>1, <1>3, <1>4, <2>1
<1>6. CountOf(s, u) = n
  <2> DEFINE good(c) == s[c] = u /\ \A k \in 0 .. c - 1 : s[k] < u
  <2>1. n \in 0 .. Size /\ good(n) BY <1>1, <1>5
  <2>2. ASSUME NEW c \in 0 .. Size, good(c) PROVE c = n
    <3>1. CASE c < n
      <4>1. c \in 0 .. n - 1 BY <1>1, <3>1
      <4> QED BY <1>5, <2>2, <4>1
    <3>2. CASE n < c
      <4>1. n \in 0 .. c - 1 BY <1>1, <3>2
      <4>2. s[n] < u BY <2>2, <4>1
      <4> QED BY <1>5, <4>2
    <3> QED BY <1>1, <3>1, <3>2
  <2>3. CountOf(s, u) = CHOOSE c \in 0 .. Size : good(c) BY DEF CountOf
  <2> HIDE DEF good
  <2> QED BY <2>1, <2>2, <2>3, Zenon
<1>7. ASSUME NEW k \in 1 .. n PROVE At(q, r, s[k - 1]) = ms[k]
  <2>1. k - 1 \in 0 .. n /\ s[k - 1] = off[k - 1] /\ k \in 0 .. n BY <1>1, <1>3
  <2> DEFINE o == off[k - 1]
             m == ms[k]
  <2>2. o \in Nat /\ off[k] = o + Align(Len(m)) /\ off[k] <= u /\ m \in Messages
    <3>1. off[k] = o + Align(Len(m)) /\ m \in Messages BY <2>1 DEF Laid
    <3>2. o \in Nat /\ off[k] <= u BY <1>1, <2>1, LaidBounds
    <3> QED BY <3>1, <3>2
  <2>3. \A i \in 1 .. Len(m) : q[(r + (o + (i - 1))) % Size] = m[i] BY DEF Laid
  <2> HIDE DEF o, m
  <2>4. m \in Seq(Dwords) /\ Len(m) \in Nat \ {0} /\ m[1] = Len(m) /\ Align(Len(m)) \in Nat
        /\ Align(Len(m)) >= Len(m)
        BY <2>2, MessageFacts
  <2>5. o + Len(m) < Size BY <1>1, <2>2, <2>4
  <2>6. q[(r + o) % Size] = Len(m)
    <3>1. q[(r + (o + (1 - 1))) % Size] = m[1] BY <2>3, <2>4
    <3>2. o + (1 - 1) = o BY <2>2
    <3> QED BY <2>4, <3>1, <3>2
  <2>7. ASSUME NEW i \in 1 .. Len(m) PROVE q[(((r + o) % Size) + i - 1) % Size] = m[i]
    <3>1. i - 1 \in Nat /\ o + (i - 1) < Size BY <1>1, <2>2, <2>4, <2>5
    <3>2. (((r + o) % Size) + (i - 1)) % Size = (r + (o + (i - 1))) % Size
          BY <2>2, <3>1, ModSum
    <3>3. ((r + o) % Size) + i - 1 = ((r + o) % Size) + (i - 1)
      <4>1. (r + o) % Size \in Int BY <1>1, <2>2 DEF Index
      <4> QED BY <4>1
    <3> QED BY <2>3, <3>2, <3>3
  <2>8. At(q, r, o) = [i \in 1 .. Len(m) |-> m[i]] BY <2>6, <2>7 DEF At
  <2>9. m = [i \in 1 .. Len(m) |-> m[i]] BY <2>4
  <2> QED BY <2>1, <2>8, <2>9 DEF o, m
<1>8. ContentsOf(q, r, u) = [k \in 1 .. n |-> At(q, r, s[k - 1])]
      BY <1>6 DEF ContentsOf, s
<1>9. [k \in 1 .. n |-> At(q, r, s[k - 1])] = [k \in 1 .. n |-> ms[k]] BY <1>7
<1>10. ms = [k \in 1 .. n |-> ms[k]] BY DEF Laid
<1> QED BY <1>8, <1>9, <1>10

(* The definitions of the model are these, now and in the next state.       *)
LEMMA ContentsIs ==
    /\ Contents = ContentsOf(queue, read_index, Unread)
    /\ Contents' = ContentsOf(queue', read_index', Unread')
<1>1. Start = StartOf(queue, read_index) BY Zenon DEF Start, StartOf, IsStart
<1>2. Start' = StartOf(queue', read_index') BY Zenon DEF Start, StartOf, IsStart
<1>3. Count = CountOf(Start, Unread) /\ Count' = CountOf(Start', Unread')
      BY Zenon DEF Count, CountOf
<1>4. \A o : MessageAt(o) = At(queue, read_index, o) BY DEF MessageAt, At
<1>5. Contents = ContentsOf(queue, read_index, Unread)
      BY <1>1, <1>3, <1>4 DEF Contents, ContentsOf
<1>6. Contents' = ContentsOf(queue', read_index', Unread')
      BY <1>2, <1>3 DEF Contents, ContentsOf, MessageAt, At
<1> QED BY <1>5, <1>6

-----------------------------------------------------------------------------
(* How what is laid out changes                                            *)

(* A dword written behind it leaves it alone.                               *)
LEMMA LaidStays ==
    ASSUME HfiQueueAssumption, NEW q, NEW r \in Index, NEW u \in 0 .. Size - 1, NEW n, NEW ms,
           NEW off, Laid(q, r, u, n, ms, off),
           NEW p, \A j \in 0 .. u - 1 : p[(r + j) % Size] = q[(r + j) % Size]
    PROVE  Laid(p, r, u, n, ms, off)
<1>1. Size \in Nat BY DEF HfiQueueAssumption
<1>2. ASSUME NEW k \in 1 .. n, NEW i \in 1 .. Len(ms[k])
      PROVE  p[(r + (off[k - 1] + (i - 1))) % Size] = ms[k][i]
  <2>1. off[k] = off[k - 1] + Align(Len(ms[k])) /\ ms[k] \in Messages
        /\ q[(r + (off[k - 1] + (i - 1))) % Size] = ms[k][i]
        BY DEF Laid
  <2>6. n \in Nat BY <1>1, LaidBounds
  <2>2. k \in 0 .. n /\ k - 1 \in 0 .. n BY <2>6
  <2>3. off[k - 1] \in Nat /\ off[k] <= u /\ off[k] \in Nat BY <1>1, <2>2, LaidBounds
  <2>4. Len(ms[k]) \in Nat /\ Align(Len(ms[k])) \in Nat /\ Align(Len(ms[k])) >= Len(ms[k])
        BY <2>1, MessageFacts
  <2>5. off[k - 1] + (i - 1) \in 0 .. u - 1 BY SMTT(30), ZenonT(30), <1>1, <2>1, <2>3, <2>4
  <2> QED BY <2>1, <2>5
<1> QED BY <1>2 DEF Laid

(* A message written behind it is laid out as well.                         *)
LEMMA LaidMore ==
    ASSUME HfiQueueAssumption, NEW q, NEW r \in Index, NEW u \in 0 .. Size - 1, NEW n, NEW ms,
           NEW off, Laid(q, r, u, n, ms, off), NEW m \in Messages,
           u + Align(Len(m)) < Size,
           \A i \in 1 .. Len(m) : q[(r + (u + (i - 1))) % Size] = m[i]
    PROVE  \E off2 : Laid(q, r, u + Align(Len(m)), n + 1, Append(ms, m), off2)
<1> DEFINE a == Align(Len(m))
           off2 == [k \in 0 .. n + 1 |-> IF k <= n THEN off[k] ELSE u + a]
           ms2 == [k \in 1 .. n + 1 |-> IF k <= n THEN ms[k] ELSE m]
<1>1. Size \in Nat BY DEF HfiQueueAssumption
<1>2. a \in Nat /\ a > 0 BY MessageFacts
<1>3. n \in Nat /\ u \in Nat /\ \A k \in 0 .. n : off[k] \in Nat /\ k <= off[k] /\ off[k] <= u
      BY <1>1, LaidBounds
<1>4. off[n] = u /\ off[0] = 0 /\ ms \in [1 .. n -> Messages] BY DEF Laid
<1>12. \A j, k \in 0 .. n : j <= k => off[j] + (k - j) <= off[k] BY Zenon DEF Laid
<1>5. ms2 = Append(ms, m)
  <2>1. ms \in Seq(Messages) /\ Len(ms) = n BY <1>3, <1>4
  <2>5. /\ Append(ms, m) \in Seq(Messages) /\ Len(Append(ms, m)) = Len(ms) + 1
        /\ \A k \in 1 .. Len(ms) : Append(ms, m)[k] = ms[k]
        /\ Append(ms, m)[Len(ms) + 1] = m
    <3> HIDE DEF ms2, off2
    <3> QED BY ONLY m \in Messages, <2>1, AppendProperties
  <2>2. /\ Append(ms, m) \in Seq(Messages) /\ Len(Append(ms, m)) = n + 1
        /\ \A k \in 1 .. n : Append(ms, m)[k] = ms[k]
        /\ Append(ms, m)[n + 1] = m
        BY <2>1, <2>5
  <2>3. Append(ms, m) \in [1 .. n + 1 -> Messages] BY ONLY <2>2, LenProperties
  <2>4. \A k \in 1 .. n + 1 : ms2[k] = Append(ms, m)[k] BY <1>3, <2>2
  <2> QED BY <2>3, <2>4
<1> HIDE DEF a
<1>6. n + 1 \in 0 .. Size - 1 /\ u + a < Size
  <2>1. u + a < Size BY DEF a
  <2>2. n <= u BY <1>3, <1>4
  <2> QED BY <1>1, <1>2, <1>3, <2>1, <2>2
<1>7. off2 \in [0 .. n + 1 -> Nat] /\ ms2 \in [1 .. n + 1 -> Messages]
  <2>1. \A k \in 0 .. n + 1 : (IF k <= n THEN off[k] ELSE u + a) \in Nat BY <1>2, <1>3
  <2>2. \A k \in 1 .. n + 1 : (IF k <= n THEN ms[k] ELSE m) \in Messages BY <1>3, <1>4
  <2> QED BY <2>1, <2>2
<1>8. off2[0] = 0 /\ off2[n + 1] = u + a BY <1>3, <1>4
<1>9. ASSUME NEW j \in 0 .. n + 1, NEW k \in 0 .. n + 1, j <= k
      PROVE  off2[j] + (k - j) <= off2[k]
  <2>1. CASE k <= n
    <3>1. j \in 0 .. n /\ k \in 0 .. n BY <1>3, <1>9, <2>1
    <3>2. off2[j] = off[j] /\ off2[k] = off[k] BY <1>3, <3>1
    <3> QED BY <1>9, <1>12, <3>1, <3>2
  <2>2. CASE j <= n /\ k = n + 1
    <3>1. off2[j] = off[j] /\ off2[k] = u + a BY <1>3, <2>2
    <3>3. j \in 0 .. n /\ n \in 0 .. n /\ j <= n BY <1>3, <2>2
    <3>2. off[j] + (n - j) <= u /\ off[j] \in Nat BY <1>3, <1>4, <1>12, <3>3
    <3> HIDE DEF off2
    <3> QED BY <1>2, <1>3, <2>2, <3>1, <3>2, <3>3
  <2>3. CASE j = n + 1 BY <1>2, <1>3, <1>9, <2>3
  <2> QED BY <1>3, <1>9, <2>1, <2>2, <2>3
<1>10. ASSUME NEW k \in 1 .. n + 1
       PROVE  /\ off2[k] = off2[k - 1] + Align(Len(ms2[k]))
              /\ \A i \in 1 .. Len(ms2[k]) :
                   q[(r + (off2[k - 1] + (i - 1))) % Size] = ms2[k][i]
  <2>1. CASE k <= n
    <3>1. k \in 1 .. n /\ off2[k] = off[k] /\ off2[k - 1] = off[k - 1] /\ ms2[k] = ms[k]
          BY <1>3, <2>1
    <3> HIDE DEF off2, ms2
    <3>2. off[k] = off[k - 1] + Align(Len(ms[k]))
          /\ \A i \in 1 .. Len(ms[k]) : q[(r + (off[k - 1] + (i - 1))) % Size] = ms[k][i]
          BY <3>1 DEF Laid
    <3> QED BY <3>1, <3>2
  <2>2. CASE k = n + 1
    <3>1. off2[k] = u + a /\ off2[k - 1] = u /\ ms2[k] = m BY <1>3, <1>4, <2>2
    <3> HIDE DEF off2, ms2
    <3> QED BY <3>1 DEF a
  <2>3. k <= n \/ k = n + 1 BY <1>3
  <2> QED BY ONLY <2>1, <2>2, <2>3
<1> HIDE DEF off2, ms2
<1>11. Laid(q, r, u + a, n + 1, ms2, off2) BY <1>6, <1>7, <1>8, <1>9, <1>10 DEF Laid
<1> QED BY <1>5, <1>11 DEF a

(* Where something is unread, the first message is at the read index.       *)
FirstAt(q, r, u, n, ms) ==
    /\ n \in Nat \ {0} /\ ms \in Seq(Messages) /\ Len(ms) = n /\ ms[1] \in Messages
    /\ q[r] = Len(ms[1]) /\ Align(Len(ms[1])) <= u
    /\ \A i \in 1 .. Len(ms[1]) : q[(r + (i - 1)) % Size] = ms[1][i]

LEMMA LaidFirst ==
    ASSUME HfiQueueAssumption, NEW q, NEW r \in Index, NEW u \in 0 .. Size - 1, NEW n, NEW ms,
           NEW off, Laid(q, r, u, n, ms, off), u > 0
    PROVE  FirstAt(q, r, u, n, ms)
<1>1. Size \in Nat /\ Size > 0 BY DEF HfiQueueAssumption
<1>2. n \in Nat /\ off[n] = u /\ off[0] = 0 /\ ms \in [1 .. n -> Messages] BY DEF Laid
<1>3. n # 0 BY <1>2
<1>4. ms \in Seq(Messages) /\ Len(ms) = n BY <1>2
<1>5. 1 \in 1 .. n /\ 1 \in 0 .. n BY <1>2, <1>3
<1>6. ms[1] \in Messages BY <1>2, <1>5
<1>7. off[1] = off[1 - 1] + Align(Len(ms[1]))
      /\ \A i \in 1 .. Len(ms[1]) : q[(r + (off[1 - 1] + (i - 1))) % Size] = ms[1][i]
      BY <1>5 DEF Laid
<1>8. off[1 - 1] = 0 BY <1>2
<1>9. off[1] = Align(Len(ms[1]))
  <2>1. Align(Len(ms[1])) \in Nat BY <1>6, MessageFacts
  <2> QED BY <1>7, <1>8, <2>1
<1>10. \A i \in 1 .. Len(ms[1]) : q[(r + (i - 1)) % Size] = ms[1][i]
  <2> SUFFICES ASSUME NEW i \in 1 .. Len(ms[1]) PROVE q[(r + (i - 1)) % Size] = ms[1][i] OBVIOUS
  <2>1. 0 + (i - 1) = i - 1 OBVIOUS
  <2> QED BY <1>7, <1>8, <2>1
<1>11. q[r] = Len(ms[1])
  <2>1. Len(ms[1]) \in Nat \ {0} /\ ms[1][1] = Len(ms[1]) BY <1>6, MessageFacts
  <2>2. q[(r + (1 - 1)) % Size] = ms[1][1] BY <1>10, <2>1
  <2>3. r \in Nat /\ r < Size BY <1>1 DEF Index
  <2>4. (r + (1 - 1)) % Size = r
    <3>1. r + (1 - 1) = r BY <2>3
    <3>2. r % Size = r BY <1>1, <2>3, ModTwice
    <3> QED BY <3>1, <3>2
  <2> QED BY <2>1, <2>2, <2>4
<1>12. Align(Len(ms[1])) <= u BY <1>1, <1>5, <1>9, LaidBounds
<1> QED BY <1>2, <1>3, <1>4, <1>6, <1>10, <1>11, <1>12 DEF FirstAt

(* When the first message was read the rest is laid out behind it.          *)
LEMMA LaidLess ==
    ASSUME HfiQueueAssumption, NEW q, NEW r \in Index, NEW u \in 0 .. Size - 1, NEW n, NEW ms,
           NEW off, Laid(q, r, u, n, ms, off), u > 0
    PROVE  \E off2 : Laid(q, (r + Align(Len(ms[1]))) % Size, u - Align(Len(ms[1])),
                          n - 1, Tail(ms), off2)
<1>1. Size \in Nat BY DEF HfiQueueAssumption
<1>15. /\ n \in Nat \ {0} /\ ms \in Seq(Messages) /\ Len(ms) = n /\ ms[1] \in Messages
       /\ Align(Len(ms[1])) <= u
  <2>1. FirstAt(q, r, u, n, ms) BY LaidFirst
  <2> QED BY <2>1 DEF FirstAt
<1> DEFINE a == Align(Len(ms[1]))
           off2 == [k \in 0 .. n - 1 |-> off[k + 1] - a]
           ms2 == [k \in 1 .. n - 1 |-> ms[k + 1]]
<1>2. n \in Nat \ {0} /\ ms \in Seq(Messages) /\ Len(ms) = n /\ ms[1] \in Messages /\ a <= u
      BY <1>15
<1>3. a \in Nat /\ a > 0
  <2>1. Len(ms[1]) \in Nat \ {0} /\ Align(Len(ms[1])) \in Nat /\ Align(Len(ms[1])) >= Len(ms[1])
        BY <1>2, MessageFacts
  <2> QED BY <2>1
<1>4. ms2 = Tail(ms)
  <2>5. ms # <<>> BY <1>2
  <2>4. /\ Tail(ms) \in Seq(Messages) /\ Len(Tail(ms)) = Len(ms) - 1
        /\ \A k \in 1 .. Len(Tail(ms)) : Tail(ms)[k] = ms[k + 1]
        BY ONLY <1>2, <2>5, HeadTailProperties
  <2>1. /\ Tail(ms) \in Seq(Messages) /\ Len(Tail(ms)) = n - 1
        /\ \A k \in 1 .. n - 1 : Tail(ms)[k] = ms[k + 1]
        BY <1>2, <2>4
  <2>2. Tail(ms) \in [1 .. n - 1 -> Messages] BY ONLY <2>1, LenProperties
  <2>3. \A k \in 1 .. n - 1 : ms2[k] = Tail(ms)[k] BY <2>1
  <2> QED BY <2>2, <2>3
<1>5. \A k \in 0 .. n : off[k] \in Nat /\ k <= off[k] /\ off[k] <= u BY <1>1, LaidBounds
<1>6. off[n] = u /\ off[0] = 0 /\ n \in 0 .. Size - 1 BY DEF Laid
<1>14. \A j, k \in 0 .. n : j <= k => off[j] + (k - j) <= off[k] BY Zenon DEF Laid
<1>7. off[1] = a
  <2>1. 1 \in 1 .. n /\ 1 - 1 = 0 BY <1>2
  <2>2. off[1] = off[1 - 1] + a BY <2>1 DEF Laid
  <2> HIDE DEF a
  <2> QED BY <1>3, <1>6, <2>1, <2>2
<1> HIDE DEF a
<1>8. off2 \in [0 .. n - 1 -> Nat] /\ ms2 \in [1 .. n - 1 -> Messages]
  <2>1. ASSUME NEW k \in 0 .. n - 1 PROVE off[k + 1] - a \in Nat
    <3>1. 1 \in 0 .. n /\ k + 1 \in 0 .. n /\ 1 <= k + 1 BY <1>2
    <3>2. off[1] + ((k + 1) - 1) <= off[k + 1] /\ off[k + 1] \in Nat
          BY <1>5, <1>14, <3>1
    <3> QED BY <1>3, <1>7, <3>2
  <2> QED BY <1>2, <2>1
<1>9. off2[0] = 0 /\ off2[n - 1] = u - a BY <1>2, <1>3, <1>6, <1>7
<1>10. ASSUME NEW j \in 0 .. n - 1, NEW k \in 0 .. n - 1, j <= k
       PROVE  off2[j] + (k - j) <= off2[k]
  <2>1. j + 1 \in 0 .. n /\ k + 1 \in 0 .. n /\ j + 1 <= k + 1 BY <1>2, <1>10
  <2>2. off[j + 1] + ((k + 1) - (j + 1)) <= off[k + 1] /\ off[j + 1] \in Nat /\ off[k + 1] \in Nat
        BY <1>5, <1>14, <2>1
  <2>3. off2[j] = off[j + 1] - a /\ off2[k] = off[k + 1] - a OBVIOUS
  <2> HIDE DEF off2
  <2> QED BY <1>3, <2>2, <2>3
<1>11. ASSUME NEW k \in 1 .. n - 1
       PROVE  /\ off2[k] = off2[k - 1] + Align(Len(ms2[k]))
              /\ \A i \in 1 .. Len(ms2[k]) :
                   q[(((r + a) % Size) + (off2[k - 1] + (i - 1))) % Size] = ms2[k][i]
  <2>1. k + 1 \in 1 .. n /\ (k + 1) - 1 = k /\ k \in 0 .. n /\ k + 1 \in 0 .. n BY <1>2
  <2>2. off2[k] = off[k + 1] - a /\ off2[k - 1] = off[k] - a /\ ms2[k] = ms[k + 1]
        BY <1>2
  <2>3. off[k + 1] = off[k] + Align(Len(ms[k + 1])) /\ ms[k + 1] \in Messages
        /\ \A i \in 1 .. Len(ms[k + 1]) :
               q[(r + (off[k] + (i - 1))) % Size] = ms[k + 1][i]
        BY <2>1 DEF Laid
  <2>4. off[k] \in Nat /\ off[k] - a \in Nat /\ off[k + 1] <= u /\ off[k + 1] \in Nat
    <3> HIDE DEF off2
    <3>2. k - 1 \in 0 .. n - 1 BY <1>2
    <3>1. off2[k - 1] \in Nat BY <1>8, <3>2
    <3> QED BY <1>5, <2>1, <2>2, <3>1
  <2>5. Len(ms[k + 1]) \in Nat /\ Align(Len(ms[k + 1])) \in Nat
        /\ Align(Len(ms[k + 1])) >= Len(ms[k + 1])
        BY <2>3, MessageFacts
  <2> HIDE DEF off2, ms2
  <2>6. off2[k] = off2[k - 1] + Align(Len(ms2[k])) BY <1>3, <2>2, <2>3, <2>4, <2>5
  <2>7. ASSUME NEW i \in 1 .. Len(ms2[k])
        PROVE  q[(((r + a) % Size) + (off2[k - 1] + (i - 1))) % Size] = ms2[k][i]
    <3>1. i - 1 \in Nat /\ i <= Len(ms[k + 1]) /\ i \in 1 .. Len(ms[k + 1]) BY <2>2, <2>5
    <3> DEFINE d == (off[k] - a) + (i - 1)
    <3> DEFINE x == off[k]
               y == off[k + 1]
               l == Len(ms[k + 1])
               al == Align(Len(ms[k + 1]))
    <3>5. y = x + al /\ x \in Nat /\ x - a \in Nat /\ y <= u /\ y \in Nat /\ l \in Nat /\ al \in Nat
          /\ al >= l /\ i - 1 \in Nat /\ i <= l /\ i \in 1 .. l
          BY <2>3, <2>4, <2>5, <3>1
    <3>2. d \in Nat /\ a + d < Size /\ a + d = off[k] + (i - 1)
      <4>1. d = (x - a) + (i - 1) OBVIOUS
      <4> HIDE DEF x, y, l, al, d
      <4>2. d \in Nat /\ a + d < Size /\ a + d = x + (i - 1) BY <1>1, <1>3, <3>5, <4>1
      <4> QED BY <4>2 DEF x
    <3>3. (((r + a) % Size) + d) % Size = (r + (a + d)) % Size
      <4> HIDE DEF d
      <4> QED BY <1>3, <3>2, ModSum
    <3>4. q[(r + (off[k] + (i - 1))) % Size] = ms[k + 1][i] BY <2>3, <3>1
    <3> QED BY <2>2, <3>2, <3>3, <3>4
  <2> QED BY <2>6, <2>7
<1> HIDE DEF off2, ms2
<1>12. n - 1 \in 0 .. Size - 1 BY <1>1, <1>2, <1>6
<1>13. Laid(q, (r + a) % Size, u - a, n - 1, ms2, off2)
       BY <1>8, <1>9, <1>10, <1>11, <1>12 DEF Laid
<1> QED BY <1>4, <1>13 DEF a

-----------------------------------------------------------------------------
(* The invariant                                                           *)

Places ==
    /\ write_index \in Index /\ read_index \in Index
    /\ write_index % 4 = 0 /\ read_index % 4 = 0
    /\ queue \in [Index -> Dwords]

LaidOut == \E n, ms, off : Laid(queue, read_index, Unread, n, ms, off)

(* What is being written lies behind the write index, in dwords nobody      *)
(* reads.                                                                   *)
Writer ==
    \/ writing = NotWriting
    \/ /\ writing.msg \in Messages
       /\ writing = [msg |-> writing.msg, done |-> writing.done]
       /\ writing.done \in 0 .. Align(Len(writing.msg))
       /\ Unread + Align(Len(writing.msg)) < Size
       /\ \A i \in 1 .. Len(writing.msg) : i <= writing.done =>
             queue[(write_index + (i - 1)) % Size] = writing.msg[i]

(* What was read so far is the beginning of the first message.              *)
Reader ==
    \/ reading = NotReading
    \/ /\ reading = [size |-> reading.size, output |-> reading.output]
       /\ Unread > 0 /\ reading.size = queue[read_index]
       /\ reading.output \in Seq(Dwords) /\ Len(reading.output) <= reading.size
       /\ \A i \in 1 .. Len(reading.output) :
             reading.output[i] = queue[(read_index + (i - 1)) % Size]

IInv == Places /\ LaidOut /\ Writer /\ Reader

(* The distance between the indices, and where the write index is from it   *)
LEMMA UnreadFacts ==
    ASSUME HfiQueueAssumption, Places
    PROVE  /\ Unread \in 0 .. Size - 1 /\ Unread % 4 = 0
           /\ Unread = 0 <=> read_index = write_index
           /\ EmptySpace = Size - Unread
           /\ \A j \in Nat : Unread + j < Size =>
                 (write_index + j) % Size = (read_index + (Unread + j)) % Size
<1>1. Size \in Nat /\ Size > 0 /\ Size % 4 = 0 BY DEF HfiQueueAssumption
<1>2. write_index \in 0 .. Size - 1 /\ read_index \in 0 .. Size - 1
      /\ write_index % 4 = 0 /\ read_index % 4 = 0
      BY DEF Places, Index
<1>3. Unread = IF write_index >= read_index THEN write_index - read_index
                                            ELSE write_index - read_index + Size
      BY ModDiff DEF Unread, Places
<1> DEFINE u == Unread
<1> HIDE DEF u
<1>4. u = IF write_index >= read_index THEN write_index - read_index
                                       ELSE write_index - read_index + Size
      BY <1>3 DEF u
<1>5. u \in 0 .. Size - 1 /\ u % 4 = 0 /\ (u = 0 <=> read_index = write_index)
      BY <1>1, <1>2, <1>4
<1>6. EmptySpace = Size - u BY <1>1, <1>2, <1>4 DEF EmptySpace
<1>7. ASSUME NEW j \in Nat, u + j < Size
      PROVE  (write_index + j) % Size = (read_index + (u + j)) % Size
      BY <1>2, <1>4, <1>5, <1>7, FromEitherIndex DEF Index
<1> QED BY <1>5, <1>6, <1>7 DEF u

(* The contents, from what is laid out                                      *)
LEMMA ContentsNow ==
    ASSUME HfiQueueAssumption, Places, NEW n, NEW ms, NEW off,
           Laid(queue, read_index, Unread, n, ms, off)
    PROVE  Contents = ms
BY UnreadFacts, ContentsLaid, ContentsIs DEF Places

(* A side that only looks, or reads, leaves the contents alone.             *)
LEMMA SameContents ==
    ASSUME UNCHANGED <<queue, read_index, write_index>>
    PROVE  Contents' = Contents
<1>1. Unread' = Unread BY DEF Unread
<1>2. ContentsOf(queue', read_index', Unread') = ContentsOf(queue, read_index, Unread)
      BY <1>1
<1> QED BY <1>2, ContentsIs

(* The same of the next state                                               *)
LEMMA ContentsNext ==
    ASSUME HfiQueueAssumption, Places', NEW n, NEW ms, NEW off, Unread' \in 0 .. Size - 1,
           Laid(queue', read_index', Unread', n, ms, off)
    PROVE  Contents' = ms
BY ContentsLaid, ContentsIs DEF Places

-----------------------------------------------------------------------------
(* The steps                                                               *)

(* What a step of the queue is to the queue of messages                     *)
Step == [Fifo!Send \/ Fifo!Receive]_<<Contents, taken>>

LEMMA InitLaid ==
    ASSUME HfiQueueAssumption, Init
    PROVE  IInv /\ Fifo!Init
<1>1. Size \in Nat /\ Size > 0 BY DEF HfiQueueAssumption
<1>2. Places
  <2>1. 0 \in Index /\ 0 % 4 = 0 BY <1>1 DEF Index
  <2>2. queue \in [Index -> Dwords] BY DEF Init, Dwords
  <2> QED BY <2>1, <2>2 DEF Init, Places
<1>3. Unread = 0 BY <1>2, UnreadFacts DEF Init
<1>4. Laid(queue, read_index, Unread, 0, <<>>, [k \in 0 .. 0 |-> 0])
  <2>1. <<>> \in [1 .. 0 -> Messages] BY SMT
  <2> QED BY <1>1, <1>3, <2>1 DEF Laid
<1>5. Contents = <<>> BY <1>2, <1>4, ContentsNow
<1>6. LaidOut BY <1>4 DEF LaidOut
<1> QED BY <1>2, <1>5, <1>6 DEF IInv, Init, Writer, Reader, Fifo!Init

LEMMA WriteStartsStep ==
    ASSUME HfiQueueAssumption, IInv, WriteStarts
    PROVE  IInv' /\ Step
<1>1. UNCHANGED <<queue, read_index, write_index, reading, taken>> BY DEF WriteStarts
<1>2. Unread' = Unread BY <1>1 DEF Unread
<1>3. Places' /\ LaidOut' /\ Reader' BY <1>1, <1>2 DEF IInv, Places, LaidOut, Reader
<1>4. PICK m \in Messages : HasRoom(Len(m)) /\ writing' = [msg |-> m, done |-> 0]
      BY DEF WriteStarts
<1>5. Size \in Nat /\ Unread \in 0 .. Size - 1 /\ EmptySpace = Size - Unread
      BY UnreadFacts DEF IInv, HfiQueueAssumption
<1>6. Len(m) \in Nat \ {0} /\ Align(Len(m)) \in Nat BY MessageFacts
<1>7. Unread + Align(Len(m)) < Size BY <1>4, <1>5, <1>6 DEF HasRoom
<1>8. Writer' BY <1>2, <1>4, <1>6, <1>7 DEF Writer
<1>9. Contents' = Contents BY <1>1, SameContents
<1> QED BY <1>1, <1>3, <1>8, <1>9 DEF IInv, Step

(* The dword that is written is behind all that may be read.                *)
LEMMA WriteDwordStep ==
    ASSUME HfiQueueAssumption, IInv, WriteDword
    PROVE  IInv' /\ Step
<1> DEFINE msg == writing.msg
           done == writing.done
           dword == IF done < Len(msg) THEN msg[done + 1] ELSE Cookie
           slot == (write_index + done) % Size
<1>1. UNCHANGED <<read_index, write_index, reading, taken>> BY DEF WriteDword
<1>2. Unread' = Unread BY <1>1 DEF Unread
<1>3. /\ msg \in Messages /\ writing = [msg |-> msg, done |-> done]
      /\ done \in 0 .. Align(Len(msg)) /\ Unread + Align(Len(msg)) < Size
      /\ \A i \in 1 .. Len(msg) : i <= done => queue[(write_index + (i - 1)) % Size] = msg[i]
      BY DEF IInv, Writer, WriteDword, NotWriting
<1>4. /\ done < Align(Len(msg)) /\ queue' = [queue EXCEPT ![slot] = dword]
      /\ writing' = [writing EXCEPT !.done = @ + 1]
      BY DEF WriteDword, Written
<1>5. /\ Size \in Nat /\ Unread \in 0 .. Size - 1 /\ read_index \in Index /\ write_index \in Index
      /\ queue \in [Index -> Dwords]
      BY UnreadFacts DEF IInv, Places, HfiQueueAssumption
<1>6. /\ msg \in Seq(Dwords) /\ Len(msg) \in Nat /\ Align(Len(msg)) \in Nat
      BY <1>3, MessageFacts
<1>7. done \in Nat /\ done < Size /\ Unread + done < Size BY <1>3, <1>4, <1>5, <1>6
<1>8. slot = (read_index + (Unread + done)) % Size BY <1>7, UnreadFacts DEF IInv
<1>9. slot \in Index
  <2>1. \E j \in Nat : j < Size /\ j # done
    <3>1. Size > 1 BY <1>3, <1>4, <1>5, <1>6, MessageFacts
    <3>2. CASE done = 0 BY <1>5, <3>1, <3>2
    <3>3. CASE done # 0 BY <1>5, <3>1, <3>3
    <3> QED BY <3>2, <3>3
  <2> HIDE DEF done
  <2> QED BY <1>5, <1>7, <2>1, SlotsDiffer
<1>10. dword \in Dwords BY <1>6, <1>7 DEF Dwords
<1> HIDE DEF msg, done, dword, slot
<1>11. queue' \in [Index -> Dwords] BY <1>4, <1>5, <1>10
<1>12. \A j \in 0 .. Unread - 1 : queue'[(read_index + j) % Size] = queue[(read_index + j) % Size]
  <2> SUFFICES ASSUME NEW j \in 0 .. Unread - 1
               PROVE  queue'[(read_index + j) % Size] = queue[(read_index + j) % Size]
      OBVIOUS
  <2> DEFINE e == Unread + done
             at == (read_index + j) % Size
  <2>1. j \in Nat /\ j < Size /\ e \in Nat /\ e < Size /\ j # e BY <1>5, <1>7
  <2>2. slot = (read_index + e) % Size BY <1>8
  <2> HIDE DEF e
  <2>3. at # slot /\ at \in Index BY <1>5, <2>1, <2>2, SlotsDiffer
  <2> HIDE DEF at
  <2> QED BY <1>4, <1>5, <2>3 DEF at
<1>13. Places' BY <1>1, <1>11 DEF IInv, Places
<1>14. PICK n, ms, off : Laid(queue, read_index, Unread, n, ms, off) BY DEF IInv, LaidOut
<1>15. Laid(queue', read_index', Unread', n, ms, off)
       BY <1>1, <1>2, <1>5, <1>12, <1>14, LaidStays
<1>16. LaidOut' BY <1>15 DEF LaidOut
<1>17. Contents' = Contents
  <2>1. Contents = ms BY <1>14, ContentsNow DEF IInv
  <2>2. Contents' = ms BY <1>2, <1>5, <1>13, <1>15, ContentsNext
  <2> QED BY <2>1, <2>2
<1>18. Writer'
  <2>1. writing' = [msg |-> msg, done |-> done + 1] BY <1>3, <1>4
  <2>2. done + 1 \in 0 .. Align(Len(msg)) BY <1>4, <1>6, <1>7
  <2>3. ASSUME NEW i \in 1 .. Len(msg), i <= done + 1
        PROVE  queue'[(write_index + (i - 1)) % Size] = msg[i]
    <3>1. CASE i = done + 1
      <4>1. i - 1 = done /\ done < Len(msg) BY <1>6, <1>7, <3>1
      <4>2. queue'[slot] = msg[done + 1] BY <1>4, <1>5, <1>9, <4>1 DEF dword
      <4> QED BY <3>1, <4>1, <4>2 DEF slot
    <3>2. CASE i <= done
      <4> DEFINE at == (write_index + (i - 1)) % Size
      <4>5. Size \in Nat /\ i \in Nat \ {0} BY <1>5, <1>6
      <4>1. i - 1 \in Nat /\ i - 1 < Size /\ i - 1 # done BY <1>7, <3>2, <4>5
      <4>2. at # slot /\ at \in Index BY <1>5, <1>7, <4>1, SlotsDiffer DEF slot
      <4>3. queue[at] = msg[i] BY <1>3, <3>2
      <4> HIDE DEF at
      <4>4. queue'[at] = msg[i] BY <1>4, <1>5, <4>2, <4>3
      <4> QED BY <4>4 DEF at
    <3> QED BY <1>6, <1>7, <2>3, <3>1, <3>2
  <2> QED BY <1>1, <1>2, <1>3, <2>1, <2>2, <2>3 DEF Writer
<1>19. Reader'
  <2>1. CASE reading = NotReading BY <1>1, <2>1 DEF Reader
  <2>2. CASE reading # NotReading
    <3>1. /\ reading = [size |-> reading.size, output |-> reading.output]
          /\ Unread > 0 /\ reading.size = queue[read_index]
          /\ reading.output \in Seq(Dwords) /\ Len(reading.output) <= reading.size
          /\ \A i \in 1 .. Len(reading.output) :
                reading.output[i] = queue[(read_index + (i - 1)) % Size]
          BY <2>2 DEF IInv, Reader
    <3>2. /\ queue[read_index] = Len(ms[1]) /\ Align(Len(ms[1])) <= Unread /\ ms[1] \in Messages
      <4>1. FirstAt(queue, read_index, Unread, n, ms) BY <1>5, <1>14, <3>1, LaidFirst
      <4> QED BY <4>1 DEF FirstAt
    <3>3. Len(ms[1]) \in Nat /\ Align(Len(ms[1])) \in Nat /\ Len(ms[1]) <= Align(Len(ms[1]))
          BY <3>2, MessageFacts
    <3>4. Len(reading.output) \in Nat /\ Len(reading.output) <= Unread
          BY <1>5, <3>1, <3>2, <3>3
    <3>5. queue'[read_index] = queue[read_index]
      <4>1. queue'[(read_index + 0) % Size] = queue[(read_index + 0) % Size]
            BY <1>5, <1>12, <3>1
      <4>2. (read_index + 0) % Size = read_index
        <5>1. read_index \in Nat /\ read_index < Size BY <1>5 DEF Index
        <5>2. read_index + 0 = read_index BY <5>1
        <5> QED BY <1>5, <5>1, <5>2, ModTwice
      <4> QED BY <4>1, <4>2
    <3>6. ASSUME NEW i \in 1 .. Len(reading.output)
          PROVE  reading.output[i] = queue'[(read_index + (i - 1)) % Size]
      <4>1. i - 1 \in 0 .. Unread - 1 BY <1>5, <3>4
      <4>2. queue'[(read_index + (i - 1)) % Size] = queue[(read_index + (i - 1)) % Size]
            BY <1>12, <4>1
      <4> QED BY <3>1, <4>2
    <3> QED BY <1>1, <1>2, <3>1, <3>5, <3>6 DEF Reader
  <2> QED BY <2>1, <2>2
<1> QED BY <1>1, <1>13, <1>16, <1>17, <1>18, <1>19 DEF IInv, Step
(* When the write index moves the message is behind the others.             *)
LEMMA WriteEndsStep ==
    ASSUME HfiQueueAssumption, IInv, WriteEnds
    PROVE  IInv' /\ Step
<1> DEFINE msg == writing.msg
           a == Align(Len(writing.msg))
<1>1. /\ UNCHANGED <<queue, read_index, reading, taken>> /\ writing' = NotWriting
      /\ writing # NotWriting /\ writing.done = a /\ write_index' = (write_index + a) % Size
      BY DEF WriteEnds, Written, NotWriting
<1>2. /\ msg \in Messages /\ Unread + a < Size
      /\ \A i \in 1 .. Len(msg) : i <= a => queue[(write_index + (i - 1)) % Size] = msg[i]
      BY <1>1 DEF IInv, Writer
<1>3. Len(msg) \in Nat \ {0} /\ a \in Nat /\ a >= Len(msg) /\ a % 4 = 0 /\ a < Size
      BY <1>2, MessageFacts
<1>4. /\ Size \in Nat /\ Unread \in 0 .. Size - 1 /\ read_index \in Index /\ write_index \in Index
      /\ write_index % 4 = 0
      BY UnreadFacts DEF IInv, Places, HfiQueueAssumption
<1> HIDE DEF msg, a
<1>5. ASSUME NEW i \in 1 .. Len(msg)
      PROVE  queue[(read_index + (Unread + (i - 1))) % Size] = msg[i]
  <2>1. i <= a /\ i - 1 \in Nat /\ Unread + (i - 1) < Size BY <1>2, <1>3, <1>4
  <2>2. (write_index + (i - 1)) % Size = (read_index + (Unread + (i - 1))) % Size
        BY <2>1, UnreadFacts DEF IInv
  <2> QED BY <1>2, <2>1, <2>2
<1>6. PICK n, ms, off : Laid(queue, read_index, Unread, n, ms, off) BY DEF IInv, LaidOut
<1>7. PICK off2 : Laid(queue, read_index, Unread + a, n + 1, Append(ms, msg), off2)
      BY <1>2, <1>4, <1>5, <1>6, LaidMore DEF a, msg
<1>8. Unread' = Unread + a
  <2>1. ((write_index - read_index) % Size) + a < Size BY <1>2 DEF Unread
  <2>2. (((write_index + a) % Size) - read_index) % Size = ((write_index - read_index) % Size) + a
        BY <1>3, <1>4, <2>1, MoreUnread
  <2> QED BY <1>1, <2>2 DEF Unread
<1>9. Places'
  <2>1. write_index' \in Index /\ write_index' % 4 = 0 BY <1>1, <1>3, <1>4, SumStaysAligned
  <2> QED BY <1>1, <2>1 DEF IInv, Places
<1>10. Unread' \in 0 .. Size - 1 BY <1>2, <1>3, <1>4, <1>8
<1>11. Laid(queue', read_index', Unread', n + 1, Append(ms, msg), off2) BY <1>1, <1>7, <1>8
<1>12. LaidOut' BY <1>11 DEF LaidOut
<1>13. Contents = ms /\ Contents' = Append(ms, msg)
       BY <1>6, <1>9, <1>10, <1>11, ContentsNow, ContentsNext DEF IInv
<1>14. Writer' BY <1>1 DEF Writer
<1>15. Reader'
  <2>1. CASE reading = NotReading BY <1>1, <2>1 DEF Reader
  <2>2. CASE reading # NotReading
    <3>1. Unread' > 0 BY <1>3, <1>4, <1>8
    <3> QED BY <1>1, <2>2, <3>1 DEF IInv, Reader
  <2> QED BY <2>1, <2>2
<1>16. Fifo!Send BY <1>1, <1>2, <1>13 DEF Fifo!Send
<1> QED BY <1>9, <1>12, <1>14, <1>15, <1>16 DEF IInv, Step

LEMMA ReadStartsStep ==
    ASSUME HfiQueueAssumption, IInv, ReadStarts
    PROVE  IInv' /\ Step
<1>1. /\ UNCHANGED <<queue, read_index, write_index, writing, taken>>
      /\ read_index # write_index /\ reading' = [size |-> queue[read_index], output |-> <<>>]
      BY DEF ReadStarts
<1>2. Unread' = Unread BY <1>1 DEF Unread
<1>3. Places' /\ LaidOut' /\ Writer' BY <1>1, <1>2 DEF IInv, Places, LaidOut, Writer
<1>4. Unread \in 0 .. Size - 1 /\ Unread > 0 /\ Size \in Nat /\ read_index \in Index
      BY <1>1, UnreadFacts DEF IInv, Places, HfiQueueAssumption
<1>5. PICK n, ms, off : Laid(queue, read_index, Unread, n, ms, off) BY DEF IInv, LaidOut
<1>6. queue[read_index] \in Nat
  <2>1. FirstAt(queue, read_index, Unread, n, ms) BY <1>4, <1>5, LaidFirst
  <2>2. ms[1] \in Messages /\ queue[read_index] = Len(ms[1]) BY <2>1 DEF FirstAt
  <2> QED BY <2>2, MessageFacts
<1>7. Reader' BY <1>1, <1>2, <1>4, <1>6 DEF Reader
<1>8. Contents' = Contents BY <1>1, SameContents
<1> QED BY <1>1, <1>3, <1>7, <1>8 DEF IInv, Step

LEMMA ReadDwordStep ==
    ASSUME HfiQueueAssumption, IInv, ReadDword
    PROVE  IInv' /\ Step
<1> DEFINE size == reading.size
           output == reading.output
           dword == queue[(read_index + Len(output)) % Size]
<1>1. /\ UNCHANGED <<queue, read_index, write_index, writing, taken>>
      /\ Len(output) < size /\ reading' = [reading EXCEPT !.output = Append(@, dword)]
      BY DEF ReadDword
<1>2. Unread' = Unread BY <1>1 DEF Unread
<1>3. Places' /\ LaidOut' /\ Writer' BY <1>1, <1>2 DEF IInv, Places, LaidOut, Writer
<1>4. reading # NotReading
  <2> SUFFICES ASSUME reading = NotReading PROVE FALSE OBVIOUS
  <2>1. output = <<>> /\ size = 0 BY DEF NotReading
  <2> QED BY <1>1, <2>1
<1>5. /\ reading = [size |-> size, output |-> output]
      /\ Unread > 0 /\ size = queue[read_index]
      /\ output \in Seq(Dwords) /\ Len(output) <= size
      /\ \A i \in 1 .. Len(output) : output[i] = queue[(read_index + (i - 1)) % Size]
      BY <1>4 DEF IInv, Reader
<1>6. /\ Size \in Nat /\ Unread \in 0 .. Size - 1 /\ read_index \in Index
      /\ queue \in [Index -> Dwords]
      BY UnreadFacts DEF IInv, Places, HfiQueueAssumption
<1>7. PICK n, ms, off : Laid(queue, read_index, Unread, n, ms, off) BY DEF IInv, LaidOut
<1>8. size \in Nat /\ size < Size /\ size <= Unread
  <2>1. FirstAt(queue, read_index, Unread, n, ms) BY <1>5, <1>6, <1>7, LaidFirst
  <2>2. ms[1] \in Messages /\ queue[read_index] = Len(ms[1]) /\ Align(Len(ms[1])) <= Unread
        BY <2>1 DEF FirstAt
  <2>3. Len(ms[1]) \in Nat /\ Align(Len(ms[1])) \in Nat /\ Len(ms[1]) <= Align(Len(ms[1]))
        BY <2>2, MessageFacts
  <2> HIDE DEF size
  <2> QED BY <1>5, <1>6, <2>2, <2>3
<1>9. dword \in Dwords
  <2>1. Len(output) \in Nat /\ Len(output) < Size BY <1>1, <1>5, <1>6, <1>8
  <2>2. (read_index + Len(output)) % Size \in Index
    <3> DEFINE l == Len(output)
    <3> HIDE DEF l
    <3>1. l \in Nat /\ l < Size BY <2>1 DEF l
    <3>2. \E j \in Nat : j < Size /\ j # l
      <4>1. Size > 1 BY <1>6, <1>5
      <4>2. CASE l = 0 BY <1>6, <4>1, <4>2
      <4>3. CASE l # 0 BY <1>6, <4>1, <4>3
      <4> QED BY <4>2, <4>3
    <3>3. (read_index + l) % Size \in Index BY <1>6, <3>1, <3>2, SlotsDiffer
    <3> QED BY <3>3 DEF l
  <2> QED BY <1>6, <2>2
<1> HIDE DEF size, output, dword
<1>10. reading' = [size |-> size, output |-> Append(output, dword)] BY <1>1, <1>5
<1>11. /\ Append(output, dword) \in Seq(Dwords) /\ Len(Append(output, dword)) = Len(output) + 1
       /\ \A i \in 1 .. Len(output) : Append(output, dword)[i] = output[i]
       /\ Append(output, dword)[Len(output) + 1] = dword
       BY ONLY <1>5, <1>9, AppendProperties
<1>12. ASSUME NEW i \in 1 .. Len(output) + 1
       PROVE  Append(output, dword)[i] = queue[(read_index + (i - 1)) % Size]
  <2>1. Len(output) \in Nat BY <1>5
  <2>2. CASE i = Len(output) + 1
    <3>1. i - 1 = Len(output) BY <2>1, <2>2
    <3> QED BY <1>11, <2>2, <3>1 DEF dword
  <2>3. CASE i # Len(output) + 1
    <3>1. i \in 1 .. Len(output) BY <2>1, <2>3
    <3> QED BY <1>5, <1>11, <3>1
  <2> QED BY <2>2, <2>3
<1>13. Reader'
  <2>1. Len(output) + 1 <= size BY <1>1, <1>5, <1>8 DEF output, size
  <2> QED BY <1>1, <1>2, <1>5, <1>10, <1>11, <1>12, <2>1 DEF Reader
<1>14. Contents' = Contents BY <1>1, SameContents
<1> QED BY <1>1, <1>3, <1>13, <1>14 DEF IInv, Step

(* What was read is the first message, and it is gone from the queue.       *)
LEMMA ReadEndsStep ==
    ASSUME HfiQueueAssumption, IInv, ReadEnds
    PROVE  IInv' /\ Step
<1> DEFINE size == reading.size
           output == reading.output
<1>1. /\ UNCHANGED <<queue, write_index, writing>> /\ reading' = NotReading
      /\ size > 0 /\ Len(output) = size /\ taken' = output
      /\ read_index' = Align((read_index + size) % Size) % Size
      BY DEF ReadEnds, Past
<1>2. reading # NotReading
  <2> SUFFICES ASSUME reading = NotReading PROVE FALSE OBVIOUS
  <2>1. size = 0 BY DEF NotReading
  <2> QED BY <1>1, <2>1
<1>3. /\ Unread > 0 /\ size = queue[read_index] /\ output \in Seq(Dwords)
      /\ \A i \in 1 .. Len(output) : output[i] = queue[(read_index + (i - 1)) % Size]
      BY <1>2 DEF IInv, Reader
<1>4. /\ Size \in Nat /\ Unread \in 0 .. Size - 1 /\ read_index \in Index /\ write_index \in Index
      /\ read_index % 4 = 0
      BY UnreadFacts DEF IInv, Places, HfiQueueAssumption
<1>5. PICK n, ms, off : Laid(queue, read_index, Unread, n, ms, off) BY DEF IInv, LaidOut
<1> DEFINE first == ms[1]
           a == Align(Len(ms[1]))
<1> HIDE DEF size, output
<1>6. /\ n \in Nat \ {0} /\ ms \in Seq(Messages) /\ Len(ms) = n /\ first \in Messages
      /\ size = Len(first) /\ a <= Unread
      /\ \A i \in 1 .. Len(first) : queue[(read_index + (i - 1)) % Size] = first[i]
  <2>1. FirstAt(queue, read_index, Unread, n, ms) BY <1>3, <1>4, <1>5, LaidFirst
  <2> QED BY <1>3, <2>1 DEF FirstAt
<1> HIDE DEF first, a
<1>7. /\ first \in Seq(Dwords) /\ Len(first) \in Nat \ {0} /\ a \in Nat /\ a % 4 = 0 /\ a < Size
      /\ a = Align(Len(first))
      BY <1>6, MessageFacts DEF a, first
<1>8. output = first BY <1>1, <1>3, <1>6, <1>7, SeqEqual
<1>9. read_index' = (read_index + a) % Size
      BY <1>1, <1>4, <1>6, <1>7, PastIsAligned
<1>10. Unread' = Unread - a
  <2>1. a <= (write_index - read_index) % Size BY <1>6 DEF Unread
  <2>2. (write_index - ((read_index + a) % Size)) % Size = ((write_index - read_index) % Size) - a
        BY <1>4, <1>7, <2>1, LessUnread
  <2>3. Unread' = (write_index' - read_index') % Size BY DEF Unread
  <2>4. write_index' = write_index BY <1>1
  <2>5. Unread' = (write_index - ((read_index + a) % Size)) % Size BY ONLY <1>9, <2>3, <2>4
  <2> QED BY <2>2, <2>5, Zenon DEF Unread
<1>11. PICK off2 : Laid(queue, (read_index + a) % Size, Unread - a, n - 1, Tail(ms), off2)
       BY <1>3, <1>4, <1>5, LaidLess DEF a
<1>12. Laid(queue', read_index', Unread', n - 1, Tail(ms), off2) BY <1>1, <1>9, <1>10, <1>11
<1>13. Places'
  <2>1. read_index' \in Index /\ read_index' % 4 = 0 BY <1>4, <1>7, <1>9, SumStaysAligned
  <2> QED BY <1>1, <2>1 DEF IInv, Places
<1>14. Unread' \in 0 .. Size - 1 BY <1>4, <1>6, <1>7, <1>10
<1>15. LaidOut' BY <1>12 DEF LaidOut
<1>16. Contents = ms /\ Contents' = Tail(ms)
       BY <1>5, <1>12, <1>13, <1>14, ContentsNow, ContentsNext DEF IInv
<1>17. Reader' BY <1>1 DEF Reader
<1>18. Writer'
  <2>1. CASE writing = NotWriting BY <1>1, <2>1 DEF Writer
  <2>2. CASE writing # NotWriting
    <3>1. /\ writing.msg \in Messages
          /\ writing = [msg |-> writing.msg, done |-> writing.done]
          /\ writing.done \in 0 .. Align(Len(writing.msg))
          /\ Unread + Align(Len(writing.msg)) < Size
          /\ \A i \in 1 .. Len(writing.msg) : i <= writing.done =>
                queue[(write_index + (i - 1)) % Size] = writing.msg[i]
          BY <2>2 DEF IInv, Writer
    <3>2. Align(Len(writing.msg)) \in Nat BY <3>1, MessageFacts
    <3>3. Unread' + Align(Len(writing.msg)) < Size BY <1>4, <1>7, <1>10, <3>1, <3>2
    <3> QED BY <1>1, <3>1, <3>3 DEF Writer
  <2> QED BY <2>1, <2>2
<1>19. Fifo!Receive
  <2>1. ms # <<>> /\ Head(ms) = ms[1] BY <1>6
  <2> QED BY <1>1, <1>8, <1>16, <2>1 DEF Fifo!Receive, first
<1> QED BY <1>13, <1>15, <1>17, <1>18, <1>19 DEF IInv, Step

LEMMA NextStep ==
    ASSUME HfiQueueAssumption, IInv, [Next]_vars
    PROVE  IInv' /\ Step
<1>1. CASE UNCHANGED vars
  <2>1. UNCHANGED <<queue, write_index, read_index, writing, reading, taken>> BY <1>1 DEF vars
  <2>2. Unread' = Unread BY <2>1 DEF Unread
  <2>3. IInv' BY <2>1, <2>2 DEF IInv, Places, LaidOut, Writer, Reader
  <2>4. Contents' = Contents BY <2>1, SameContents
  <2> QED BY <2>1, <2>3, <2>4 DEF Step
<1> QED BY <1>1, WriteStartsStep, WriteDwordStep, WriteEndsStep, ReadStartsStep, ReadDwordStep,
           ReadEndsStep DEF Next

-----------------------------------------------------------------------------
(* For every size of the queue that is a multiple of four dwords, and all   *)
(* messages that leave a dword of it free, what is read is what was         *)
(* written, once, whole and in order: the circular queue of                 *)
(* gen7_hfi_queue_write and gen7_hfi_queue_read is a queue of messages.      *)
THEOREM QueueIsFifo ==
    ASSUME HfiQueueAssumption
    PROVE  Spec => ReadsAsWritten
<1>1. Init => IInv /\ Fifo!Init BY InitLaid
<1>2. IInv /\ [Next]_vars => IInv' /\ [Fifo!Send \/ Fifo!Receive]_<<Contents, taken>>
      BY NextStep DEF Step
<1> QED BY <1>1, <1>2, PTL DEF Spec, ReadsAsWritten, Fifo!Spec
=============================================================================
