---------------------------- MODULE Hwsched_proofs ----------------------------
EXTENDS Hwsched, SequenceTheorems, FiniteSetTheorems, TLAPS

\* A place in a finite set of numbers is found by its rank.
LEMMA Ranks ==
    ASSUME NEW K \in SUBSET Nat, IsFiniteSet(K)
    PROVE  /\ \A i \in K : Rank(i, K) \in 1 .. Cardinality(K)
           /\ \A i, j \in K : i < j => Rank(i, K) < Rank(j, K)
           /\ \A n \in 1 .. Cardinality(K) : \E i \in K : Rank(i, K) = n
<1> DEFINE D(i) == {j \in K : j <= i}
<1>1. \A i : IsFiniteSet(D(i)) /\ Rank(i, K) = Cardinality(D(i))
  BY FS_Subset DEF Rank
<1>2. \A i \in K : Rank(i, K) \in 1 .. Cardinality(K)
  <2> SUFFICES ASSUME NEW i \in K  PROVE Rank(i, K) \in 1 .. Cardinality(K)
    OBVIOUS
  <2>1. D(i) \in SUBSET K /\ i \in D(i)
    OBVIOUS
  <2> HIDE DEF D
  <2>2. Cardinality(D(i)) \in Nat /\ Cardinality(K) \in Nat /\ Cardinality(D(i)) <= Cardinality(K)
    BY <1>1, <2>1, FS_Subset, FS_CardinalityType
  <2>3. Cardinality(D(i)) # 0
    BY <1>1, <2>1, FS_EmptySet
  <2> QED
    BY <1>1, <2>2, <2>3
<1>3. \A i, j \in K : i < j => Rank(i, K) < Rank(j, K)
  <2> SUFFICES ASSUME NEW i \in K, NEW j \in K, i < j  PROVE Rank(i, K) < Rank(j, K)
    OBVIOUS
  <2>1. D(i) \in SUBSET D(j) /\ j \in D(j) /\ j \notin D(i)
    <3>1. i \in Nat /\ j \in Nat /\ \A k \in K : k \in Nat
      OBVIOUS
    <3>2. \A k \in K : k <= i => k <= j
      BY <3>1
    <3>3. ~(j <= i) /\ j <= j
      BY <3>1
    <3> QED
      BY <3>2, <3>3
  <2> HIDE DEF D
  <2>2. Cardinality(D(i)) <= Cardinality(D(j)) /\ Cardinality(D(j)) # Cardinality(D(i))
    BY <1>1, <2>1, FS_Subset
  <2>3. Cardinality(D(i)) \in Nat /\ Cardinality(D(j)) \in Nat
    BY <1>1, FS_CardinalityType
  <2> QED
    BY <1>1, <2>2, <2>3
<1>4. \A n \in 1 .. Cardinality(K) : \E i \in K : Rank(i, K) = n
  <2> DEFINE N == Cardinality(K)
             f == [i \in K |-> Rank(i, K)]
  <2>1. N \in Nat /\ IsFiniteSet(1 .. N) /\ Cardinality(1 .. N) = N
    BY FS_CardinalityType, FS_Interval
  <2>2. f \in Injection(K, 1 .. N)
    <3>1. f \in [K -> 1 .. N]
      BY <1>2
    <3>2. \A i, j \in K : f[i] = f[j] => i = j
      <4> SUFFICES ASSUME NEW i \in K, NEW j \in K, f[i] = f[j], i # j  PROVE FALSE
        OBVIOUS
      <4>1. i < j \/ j < i
        OBVIOUS
      <4>2. Rank(i, K) \in Nat /\ Rank(j, K) \in Nat /\ Rank(i, K) = Rank(j, K)
        BY <1>2, <2>1
      <4> QED
        BY <1>3, <4>1, <4>2
    <3> QED
      BY <3>1, <3>2 DEF Injection, IsInjective
  <2>3. f \in Surjection(K, 1 .. N)
    BY <2>1, <2>2, FS_Injection
  <2> QED
    BY <2>3 DEF Surjection
<1> QED
  BY <1>2, <1>3, <1>4

\* What is kept of a sequence: its length, and for each place the place it came
\* from, in the same order.
Origin(s, S, g) ==
    /\ Len(Only(s, S)) = Cardinality(Places(s, S))
    /\ DOMAIN Only(s, S) = 1 .. Cardinality(Places(s, S))
    /\ \A n \in DOMAIN Only(s, S) :
         g[n] \in DOMAIN s /\ s[g[n]] \in S /\ Only(s, S)[n] = s[g[n]]
    /\ \A i \in DOMAIN s : s[i] \in S => \E n \in DOMAIN Only(s, S) : g[n] = i
    /\ \A m, n \in DOMAIN Only(s, S) : m < n => g[m] < g[n]

\* Only keeps the elements of S, each once, in their order.
LEMMA OnlyKeeps ==
    ASSUME NEW X, NEW s \in Seq(X), NEW S
    PROVE  Only(s, S) \in Seq(X) /\ \E g : Origin(s, S, g)
<1> DEFINE K == Places(s, S)
           N == Cardinality(K)
           g == [n \in 1 .. N |-> CHOOSE i \in K : Rank(i, K) = n]
<1>1. DOMAIN s = 1 .. Len(s) /\ Len(s) \in Nat /\ \A i \in DOMAIN s : s[i] \in X
  BY ElementOfSeq, LenProperties
<1>2. K \in SUBSET Nat /\ IsFiniteSet(K) /\ K \subseteq DOMAIN s /\ N \in Nat
  <2>1. K \in SUBSET (1 .. Len(s))
    BY <1>1 DEF Places
  <2>2. IsFiniteSet(1 .. Len(s))
    BY <1>1, FS_Interval
  <2> HIDE DEF K
  <2>3. IsFiniteSet(K)
    BY <2>1, <2>2, FS_Subset
  <2>4. N \in Nat
    BY <2>3, FS_CardinalityType
  <2>5. K \in SUBSET Nat /\ K \subseteq DOMAIN s
    BY <1>1, <2>1
  <2> QED
    BY <2>3, <2>4, <2>5
<1>3. Only(s, S) = [n \in 1 .. N |-> s[g[n]]]
  BY DEF Only
<1>4. \A n \in 1 .. N : g[n] \in K /\ Rank(g[n], K) = n
  <2> SUFFICES ASSUME NEW n \in 1 .. N  PROVE g[n] \in K /\ Rank(g[n], K) = n
    OBVIOUS
  <2>1. \E i \in K : Rank(i, K) = n
    BY <1>2, Ranks
  <2> QED
    BY <2>1
<1>5. \A i \in K : Rank(i, K) \in 1 .. N /\ g[Rank(i, K)] = i
  <2> SUFFICES ASSUME NEW i \in K  PROVE Rank(i, K) \in 1 .. N /\ g[Rank(i, K)] = i
    OBVIOUS
  <2>1. Rank(i, K) \in 1 .. N
    BY <1>2, Ranks
  <2> DEFINE r == Rank(i, K)
             k == g[r]
  <2>2. k \in K /\ Rank(k, K) = r
    BY <1>4, <2>1
  <2>3. k < i => Rank(k, K) < Rank(i, K)
    BY <1>2, <2>2, Ranks
  <2>4. i < k => Rank(i, K) < Rank(k, K)
    BY <1>2, <2>2, Ranks
  <2> HIDE DEF k
  <2>5. r \in Nat /\ k \in Nat /\ i \in Nat
    BY <1>2, <2>1, <2>2
  <2>6. k = i
    BY <2>2, <2>3, <2>4, <2>5
  <2> QED
    BY <2>1, <2>6 DEF k
<1>6. \A m, n \in 1 .. N : m < n => g[m] < g[n]
  <2> SUFFICES ASSUME NEW m \in 1 .. N, NEW n \in 1 .. N, m < n  PROVE g[m] < g[n]
    OBVIOUS
  <2> DEFINE a == g[m]
             b == g[n]
  <2>1. a \in K /\ b \in K /\ Rank(a, K) = m /\ Rank(b, K) = n
    BY <1>4
  <2>2. a # b
    BY <2>1
  <2>3. b < a => Rank(b, K) < Rank(a, K)
    BY <1>2, <2>1, Ranks
  <2> HIDE DEF a, b
  <2>4. a \in Nat /\ b \in Nat
    BY <1>2, <2>1
  <2>5. a < b
    BY <2>1, <2>2, <2>3, <2>4
  <2> QED
    BY <2>5 DEF a, b
<1> HIDE DEF N, g
<1>7. Only(s, S) \in [1 .. N -> X]
  BY <1>1, <1>2, <1>3, <1>4
<1>8. Only(s, S) \in Seq(X) /\ Len(Only(s, S)) = N
  BY <1>2, <1>7, IsASeq, LenProperties
<1>9. Origin(s, S, g)
  BY <1>1, <1>2, <1>3, <1>4, <1>5, <1>6, <1>8 DEF Origin, N, Places
<1> QED
  BY <1>8, <1>9

-----------------------------------------------------------------------------
(* The invariant of the records.                                           *)

Nums == 1 .. Length
ScriptsTyped ==
    /\ script \in [Ctx -> Seq(Kinds)] /\ (\A c \in Ctx : Len(script[c]) <= Length)
    /\ added \in [Ctx -> 0 .. Length] /\ (\A c \in Ctx : added[c] <= Len(script[c]))
    /\ hwFence \in BOOLEAN
LinesTyped ==
    queue \in [Ctx -> Seq(Nums)] /\ hwq \in [Ctx -> Seq(Nums)] /\ list \in Seq(Obj)
SetsTyped ==
    /\ fast \in SUBSET Obj /\ skip \in SUBSET Obj
    /\ expired \in SUBSET Obj /\ signalled \in SUBSET Obj
    /\ owed \in SUBSET Ctx /\ jobs \in SUBSET Ctx /\ requeue \in SUBSET Ctx
    /\ taken \in SUBSET Ctx
StatesTyped ==
    /\ state \in [Ctx -> {"ok", "invalid", "detached", "gone"}]
    /\ thread \in [Ctx -> {"idle", "past", "added", "sending"}]
StampsTyped == retired \in [Ctx -> 0 .. Length] /\ synced \in [Ctx -> 0 .. Length]
PassTyped ==
    /\ holder \in {"free", "work", "inline"} /\ from \in Ctx \cup {0}
    /\ hand \in Obj \cup {None} /\ sent \in BOOLEAN
BooksTyped ==
    /\ inflight \in Nat /\ big \in Obj \cup {None} /\ votes \in 0 .. 1
    /\ powered \in BOOLEAN /\ active \in BOOLEAN /\ gate \in BOOLEAN /\ awake \in BOOLEAN
HwTyped ==
    /\ gmu \in {"runs", "stuck"} /\ news \in SUBSET {"retire", "bad"}
    /\ fault \in BOOLEAN /\ culprit \in Obj \cup {None} /\ pending \in BOOLEAN
PowerTyped ==
    /\ pm \in {"on", "drain", "flush", "gate", "suspended"}
    /\ halt \in 0 .. 1 /\ flush \in 0 .. 2 /\ refused \in BOOLEAN /\ left \in Nat
Typed ==
    /\ ScriptsTyped /\ LinesTyped /\ SetsTyped /\ StatesTyped /\ StampsTyped
    /\ PassTyped /\ BooksTyped /\ HwTyped /\ PowerTyped

\* The objects of a context go in their order: those the GMU or the list has
\* before the one in hand, and that before those in the queue.
Increasing(s) == \A i, j \in DOMAIN s : i < j => s[i] < s[j]
Below(U, V) == \A i \in U, j \in V : i < j
Listed(c) == {i \in Nums : <<c, i>> \in Elems(list)}
InHand(c) == {i \in Nums : hand = <<c, i>>}
LineFits(q, h, L, X, a) ==
    /\ Increasing(q) /\ Increasing(h)
    /\ Elems(q) \cup Elems(h) \cup L \cup X \subseteq 1 .. a
    /\ Below(L \cup Elems(h), X \cup Elems(q))
    /\ Below(X, Elems(q))
LineRight(c) == LineFits(queue[c], hwq[c], Listed(c), InHand(c), added[c])
ListOrdered ==
    \A i, j \in DOMAIN list : i < j /\ list[i][1] = list[j][1] => list[i][2] < list[j][2]
LinesRight == ListOrdered /\ \A c \in Ctx : LineRight(c)

\* Only a pass has an object in hand, of the context it sends from, and a large
\* one only if no other is in flight; a thread past the gate has an object.
PassRight ==
    /\ holder = "free" => taken = {} /\ from = 0 /\ hand = None
    /\ hand # None => hand[1] = from /\ (Kind(hand) = "big" => big = None)
    /\ \A c \in Ctx : thread[c] = "past" => added[c] < Len(script[c])

\* The halt is the suspend's; who votes for power finds the GPU awake, and the
\* GMU has nothing while it sleeps.
PowerRight ==
    /\ halt = IF pm \in {"flush", "gate", "suspended"} THEN 1 ELSE 0
    /\ powered => awake
    /\ ~awake => \A c \in Ctx : hwq[c] = <<>>

\* A command that hung is the first its context has in the GMU, which has
\* stopped, until the fault is recovered; asleep, the fault is known.
CulpritRight ==
    culprit # None =>
        /\ fault \/ "bad" \in news
        /\ IF awake THEN /\ gmu = "stuck" /\ hwq[culprit[1]] # <<>>
                         /\ Head(hwq[culprit[1]]) = culprit[2]
           ELSE fault

Records ==
    /\ Typed /\ LinesRight /\ PassRight /\ PowerRight /\ CulpritRight
    /\ ListAgrees /\ IdleMeansDrained

-----------------------------------------------------------------------------
(* Sequences and lines.                                                    *)

\* The elements of sequences.
LEMMA ElemsOf ==
    ASSUME NEW X, NEW s \in Seq(X)
    PROVE  /\ Elems(s) \subseteq X
           /\ s = <<>> => Elems(s) = {}
           /\ s # <<>> => /\ Elems(s) = {Head(s)} \cup Elems(Tail(s))
                          /\ Head(s) \in X /\ Tail(s) \in Seq(X)
           /\ \A x \in X : /\ Append(s, x) \in Seq(X) /\ Elems(Append(s, x)) = Elems(s) \cup {x}
                           /\ <<x>> \o s \in Seq(X) /\ Elems(<<x>> \o s) = {x} \cup Elems(s)
<1>1. Len(s) \in Nat /\ DOMAIN s = 1 .. Len(s) /\ \A i \in 1 .. Len(s) : s[i] \in X
  BY LenProperties, ElementOfSeq
<1>2. Elems(s) \subseteq X
  BY <1>1 DEF Elems
<1>3. s = <<>> => Elems(s) = {}
  BY DEF Elems
<1>4. ASSUME s # <<>>
      PROVE  Elems(s) = {Head(s)} \cup Elems(Tail(s)) /\ Head(s) \in X /\ Tail(s) \in Seq(X)
  <2>1. Head(s) = s[1] /\ Len(s) >= 1 /\ Tail(s) \in Seq(X) /\ Len(Tail(s)) = Len(s) - 1
        /\ \A i \in 1 .. Len(Tail(s)) : Tail(s)[i] = s[i + 1]
    BY <1>4, HeadTailProperties, <1>1
  <2>2. DOMAIN Tail(s) = 1 .. Len(s) - 1
    BY <2>1, LenProperties
  <2>3. \A i \in DOMAIN s : i = 1 \/ (i - 1 \in DOMAIN Tail(s) /\ Tail(s)[i - 1] = s[i])
    BY <1>1, <2>1, <2>2
  <2>4. Elems(s) \subseteq {Head(s)} \cup Elems(Tail(s))
    BY <2>1, <2>3 DEF Elems
  <2>5. {Head(s)} \cup Elems(Tail(s)) \subseteq Elems(s)
    BY <1>1, <2>1, <2>2 DEF Elems
  <2> QED
    BY <1>1, <2>1, <2>4, <2>5
<1>5. ASSUME NEW x \in X  PROVE Append(s, x) \in Seq(X) /\ Elems(Append(s, x)) = Elems(s) \cup {x}
  <2>1. Append(s, x) \in Seq(X) /\ Len(Append(s, x)) = Len(s) + 1
        /\ (\A i \in 1 .. Len(s) : Append(s, x)[i] = s[i]) /\ Append(s, x)[Len(s) + 1] = x
    BY AppendProperties
  <2>2. DOMAIN Append(s, x) = 1 .. Len(s) + 1
    BY <2>1, LenProperties
  <2> QED
    BY <1>1, <2>1, <2>2 DEF Elems
<1>6. ASSUME NEW x \in X  PROVE <<x>> \o s \in Seq(X) /\ Elems(<<x>> \o s) = {x} \cup Elems(s)
  <2>1. <<x>> \in Seq(X) /\ Len(<<x>>) = 1 /\ <<x>>[1] = x
    OBVIOUS
  <2>2. <<x>> \o s \in Seq(X) /\ Len(<<x>> \o s) = Len(s) + 1
    BY <1>1, <2>1, ConcatProperties
  <2>3. \A i \in 1 .. Len(s) + 1 : (<<x>> \o s)[i] = IF i = 1 THEN x ELSE s[i - 1]
    BY <1>1, <2>1, ConcatProperties
  <2>4. DOMAIN (<<x>> \o s) = 1 .. Len(s) + 1
    BY <2>2, LenProperties
  <2>5. Elems(<<x>> \o s) \subseteq {x} \cup Elems(s)
    BY <1>1, <2>3, <2>4 DEF Elems
  <2>6. {x} \cup Elems(s) \subseteq Elems(<<x>> \o s)
    <3>1. \A i \in DOMAIN s : i + 1 \in 1 .. Len(s) + 1 /\ (<<x>> \o s)[i + 1] = s[i]
      BY <1>1, <2>3
    <3>2. 1 \in 1 .. Len(s) + 1 /\ (<<x>> \o s)[1] = x
      BY <1>1, <2>3
    <3> DEFINE t == <<x>> \o s
    <3>3. x \in Elems(t)
      BY <2>4, <3>2 DEF Elems
    <3>4. \A i \in DOMAIN s : s[i] \in Elems(t)
      <4> SUFFICES ASSUME NEW i \in DOMAIN s  PROVE s[i] \in Elems(t)
        OBVIOUS
      <4> HIDE DEF t
      <4>1. i + 1 \in DOMAIN t /\ t[i + 1] = s[i]
        BY <2>4, <3>1 DEF t
      <4> QED
        BY <4>1 DEF Elems
    <3> HIDE DEF t
    <3> QED
      BY <3>3, <3>4 DEF Elems, t
  <2> QED
    BY <2>2, <2>5, <2>6
<1> QED
  BY <1>2, <1>3, <1>4, <1>5, <1>6

\* Increasing sequences.
LEMMA IncreasingOf ==
    ASSUME NEW s \in Seq(Nums), Increasing(s)
    PROVE  /\ Increasing(<<>>)
           /\ \A x \in Nums : Below(Elems(s), {x}) => Increasing(Append(s, x))
           /\ \A x \in Nums : Below({x}, Elems(s)) => Increasing(<<x>> \o s)
           /\ s # <<>> => Increasing(Tail(s)) /\ Below({Head(s)}, Elems(Tail(s)))
<1>1. Len(s) \in Nat /\ DOMAIN s = 1 .. Len(s) /\ \A i \in 1 .. Len(s) : s[i] \in Nums
  BY LenProperties, ElementOfSeq
<1>2. Increasing(<<>>)
  BY DEF Increasing
<1>3. ASSUME NEW x \in Nums, Below(Elems(s), {x})  PROVE Increasing(Append(s, x))
  <2>1. Append(s, x) \in Seq(Nums) /\ Len(Append(s, x)) = Len(s) + 1
        /\ (\A i \in 1 .. Len(s) : Append(s, x)[i] = s[i]) /\ Append(s, x)[Len(s) + 1] = x
    BY AppendProperties
  <2>2. DOMAIN Append(s, x) = 1 .. Len(s) + 1
    BY <2>1, LenProperties
  <2>3. \A i \in 1 .. Len(s) : s[i] < x
    BY <1>1, <1>3 DEF Below, Elems
  <2> QED
    BY <1>1, <2>1, <2>2, <2>3 DEF Increasing
<1>4. ASSUME NEW x \in Nums, Below({x}, Elems(s))  PROVE Increasing(<<x>> \o s)
  <2>1. <<x>> \in Seq(Nums) /\ Len(<<x>>) = 1 /\ <<x>>[1] = x
    OBVIOUS
  <2>2. <<x>> \o s \in Seq(Nums) /\ Len(<<x>> \o s) = Len(s) + 1
    BY <1>1, <2>1, ConcatProperties
  <2>3. \A i \in 1 .. Len(s) + 1 : (<<x>> \o s)[i] = IF i = 1 THEN x ELSE s[i - 1]
    BY <1>1, <2>1, ConcatProperties
  <2>4. DOMAIN (<<x>> \o s) = 1 .. Len(s) + 1
    BY <2>2, LenProperties
  <2>5. \A i \in 1 .. Len(s) : x < s[i]
    BY <1>1, <1>4 DEF Below, Elems
  <2> QED
    BY <1>1, <2>3, <2>4, <2>5 DEF Increasing
<1>5. ASSUME s # <<>>  PROVE Increasing(Tail(s)) /\ Below({Head(s)}, Elems(Tail(s)))
  <2>1. Head(s) = s[1] /\ Len(s) >= 1 /\ Tail(s) \in Seq(Nums) /\ Len(Tail(s)) = Len(s) - 1
        /\ \A i \in 1 .. Len(Tail(s)) : Tail(s)[i] = s[i + 1]
    BY <1>1, <1>5, HeadTailProperties
  <2>2. DOMAIN Tail(s) = 1 .. Len(s) - 1
    BY <2>1, LenProperties
  <2>3. Increasing(Tail(s))
    BY <1>1, <2>1, <2>2 DEF Increasing
  <2>4. Below({Head(s)}, Elems(Tail(s)))
    BY <1>1, <2>1, <2>2 DEF Increasing, Below, Elems
  <2> QED
    BY <2>3, <2>4
<1> QED
  BY <1>2, <1>3, <1>4, <1>5


\* What the operations do to the lines of a context.
LineTyped(q, h, L, X, a) ==
    /\ q \in Seq(Nums) /\ h \in Seq(Nums) /\ L \subseteq Nums /\ X \subseteq Nums
    /\ a \in 0 .. Length

\* An object is queued, taken from the queue, put back or handed to the GMU.
LEMMA LineMoves ==
    ASSUME NEW q, NEW h, NEW L, NEW X, NEW a, LineTyped(q, h, L, X, a), LineFits(q, h, L, X, a)
    PROVE  /\ a + 1 \in Nums => LineFits(Append(q, a + 1), h, L, X, a + 1)
           /\ X = {} /\ q # <<>> => LineFits(Tail(q), h, L, {Head(q)}, a)
           /\ \A x \in Nums : X = {x} => /\ LineFits(<<x>> \o q, h, L, {}, a)
                                         /\ LineFits(q, h, L \cup {x}, {}, a)
                                         /\ LineFits(q, Append(h, x), L \cup {x}, {}, a)
<1> USE DEF LineTyped
<1>1. Increasing(q) /\ Increasing(h) /\ Below(L \cup Elems(h), X \cup Elems(q))
      /\ Below(X, Elems(q)) /\ Elems(q) \cup Elems(h) \cup L \cup X \subseteq 1 .. a
  BY DEF LineFits
<1>2. ASSUME a + 1 \in Nums  PROVE LineFits(Append(q, a + 1), h, L, X, a + 1)
  <2> DEFINE b == a + 1
  <2> HIDE DEF b
  <2>7. b \in Nums
    BY <1>2 DEF b
  <2>8. Elems(Append(q, b)) = Elems(q) \cup {b}
    <3>1. q \in Seq(Nums)
      OBVIOUS
    <3>2. \A x \in Nums : /\ Append(q, x) \in Seq(Nums) /\ Elems(Append(q, x)) = Elems(q) \cup {x}
                           /\ <<x>> \o q \in Seq(Nums) /\ Elems(<<x>> \o q) = {x} \cup Elems(q)
      BY <3>1, ElemsOf
    <3> QED
      BY <2>7, <3>2
  <2>1. Elems(Append(q, a + 1)) = Elems(q) \cup {a + 1}
    BY <2>8 DEF b
  <2>2. Below(Elems(q) \cup Elems(h) \cup L \cup X, {a + 1})
    BY <1>1 DEF Below
  <2>3. Below(Elems(q), {a + 1})
    BY <2>2 DEF Below
  <2>4. Increasing(Append(q, a + 1))
    BY <1>1, <1>2, <2>3, IncreasingOf
  <2>5. Below(L \cup Elems(h), X \cup Elems(q) \cup {a + 1}) /\ Below(X, Elems(q) \cup {a + 1})
    BY <1>1, <2>2 DEF Below
  <2>6. Elems(q) \cup {a + 1} \cup Elems(h) \cup L \cup X \subseteq 1 .. a + 1
    BY <1>1
  <2> QED
    BY <1>1, <2>1, <2>4, <2>5, <2>6 DEF LineFits
<1>3. ASSUME X = {}, q # <<>>  PROVE LineFits(Tail(q), h, L, {Head(q)}, a)
  <2>1. Elems(q) = {Head(q)} \cup Elems(Tail(q))
    BY <1>3, ElemsOf
  <2>2. Increasing(Tail(q)) /\ Below({Head(q)}, Elems(Tail(q)))
    BY <1>1, <1>3, IncreasingOf
  <2> QED
    BY <1>1, <1>3, <2>1, <2>2 DEF LineFits
<1>4. ASSUME NEW x \in Nums, X = {x}
      PROVE  /\ LineFits(<<x>> \o q, h, L, {}, a) /\ LineFits(q, h, L \cup {x}, {}, a)
             /\ LineFits(q, Append(h, x), L \cup {x}, {}, a)
  <2>1. Elems(<<x>> \o q) = {x} \cup Elems(q) /\ Elems(Append(h, x)) = Elems(h) \cup {x}
    BY ElemsOf
  <2>2. Below({x}, Elems(q)) /\ Below(Elems(h), {x})
    BY <1>1, <1>4 DEF Below
  <2>3. Increasing(<<x>> \o q) /\ Increasing(Append(h, x))
    BY <1>1, <2>2, IncreasingOf
  <2>4. Below(L \cup Elems(h), {x} \cup Elems(q)) /\ Below(L \cup Elems(h) \cup {x}, Elems(q))
    BY <1>1, <1>4 DEF Below
  <2>5. \A U : Below({}, U)
    BY DEF Below
  <2>6. LineFits(<<x>> \o q, h, L, {}, a)
    BY <1>1, <1>4, <2>1, <2>3, <2>4, <2>5 DEF LineFits
  <2>7. Below(L \cup {x} \cup Elems(h), {} \cup Elems(q))
    BY <2>4 DEF Below
  <2>8. LineFits(q, h, L \cup {x}, {}, a)
    BY <1>1, <1>4, <2>5, <2>7 DEF LineFits
  <2>9. Below(L \cup {x} \cup (Elems(h) \cup {x}), {} \cup Elems(q))
    BY <2>4 DEF Below
  <2>10. LineFits(q, Append(h, x), L \cup {x}, {}, a)
    BY <1>1, <1>4, <2>1, <2>3, <2>5, <2>9 DEF LineFits
  <2> QED
    BY <2>6, <2>8, <2>10
<1> QED
  BY <1>2, <1>3, <1>4

\* What is dropped, executed or replayed leaves the lines in order.
LEMMA LineShrinks ==
    ASSUME NEW q, NEW h, NEW L, NEW X, NEW a, LineTyped(q, h, L, X, a), LineFits(q, h, L, X, a)
    PROVE  /\ \A b \in 0 .. Length : b >= a => LineFits(q, h, L, X, b)
           /\ \A M : M \subseteq L => LineFits(q, h, M, X, a)
           /\ LineFits(q, h, L, {}, a) /\ LineFits(<<>>, h, L, X, a)
           /\ \A r \in Seq(Nums) :
                Increasing(r) /\ Elems(r) \subseteq Elems(h) \cup L => LineFits(q, r, L, X, a)
           /\ \A r \in Seq(Nums) :
                Increasing(r) /\ Elems(r) \subseteq Elems(q) => LineFits(r, h, L, X, a)
<1> USE DEF LineTyped
<1>1. Increasing(q) /\ Increasing(h) /\ Below(L \cup Elems(h), X \cup Elems(q))
      /\ Below(X, Elems(q)) /\ Elems(q) \cup Elems(h) \cup L \cup X \subseteq 1 .. a
  BY DEF LineFits
<1>2. Elems(<<>>) = {} /\ Increasing(<<>>)
  BY DEF Elems, Increasing
<1>3. \A b \in 0 .. Length : b >= a => LineFits(q, h, L, X, b)
  BY <1>1 DEF LineFits
<1>4. \A M : M \subseteq L => LineFits(q, h, M, X, a)
  BY <1>1 DEF LineFits, Below
<1>5. LineFits(q, h, L, {}, a)
  BY <1>1 DEF LineFits, Below
<1>6. LineFits(<<>>, h, L, X, a)
  BY <1>1, <1>2 DEF LineFits, Below
<1>7. ASSUME NEW r \in Seq(Nums), Increasing(r), Elems(r) \subseteq Elems(h) \cup L
      PROVE  LineFits(q, r, L, X, a)
  BY <1>1, <1>7 DEF LineFits, Below
<1>8. ASSUME NEW r \in Seq(Nums), Increasing(r), Elems(r) \subseteq Elems(q)
      PROVE  LineFits(r, h, L, X, a)
  BY <1>1, <1>8 DEF LineFits, Below
<1> QED
  BY <1>3, <1>4, <1>5, <1>6, <1>7, <1>8

\* The lines are lines.
LEMMA LinesAreTyped ==
    ASSUME Typed
    PROVE  \A c \in Ctx : LineTyped(queue[c], hwq[c], Listed(c), InHand(c), added[c])
BY DEF Typed, ScriptsTyped, LinesTyped, LineTyped, Listed, InHand

\* An empty queue is in order.
LEMMA EmptyRight == <<>> \in Seq(Nums) /\ Increasing(<<>>) /\ Elems(<<>>) = {}
BY DEF Increasing, Elems

-----------------------------------------------------------------------------
(* The steps that leave the list and the queues of the GMU alone.          *)

\* A thread passes the gate.
LEMMA EnterRecords == ASSUME Records, NEW c \in Ctx, Enter(c)  PROVE Records'
<1> USE DEF Records, Enter, ctxs, stamps, lists, runs, books, hw, power, bounds
<1>1. Typed'
  <2>1. ScriptsTyped'
    BY DEF Typed, ScriptsTyped
  <2>2. LinesTyped'
    BY DEF Typed, LinesTyped
  <2>3. SetsTyped'
    BY DEF Typed, SetsTyped
  <2>4. StatesTyped'
    BY DEF Typed, StatesTyped
  <2>5. StampsTyped'
    BY DEF Typed, StampsTyped
  <2>6. PassTyped'
    BY DEF Typed, PassTyped
  <2>7. BooksTyped'
    BY DEF Typed, BooksTyped
  <2>8. HwTyped'
    BY DEF Typed, HwTyped
  <2>9. PowerTyped'
    BY DEF Typed, PowerTyped
  <2> QED
    BY <2>1, <2>2, <2>3, <2>4, <2>5, <2>6, <2>7, <2>8, <2>9 DEF Typed
<1>2. LinesRight'
  BY DEF LinesRight, LineRight, ListOrdered, Listed, InHand
<1>3. PassRight'
  BY DEF PassRight, Kind
<1>4. PowerRight'
  BY DEF PowerRight
<1>5. ListAgrees'
  BY DEF ListAgrees, Kind
<1>6. IdleMeansDrained'
  BY DEF IdleMeansDrained
<1>7. CulpritRight'
  BY DEF CulpritRight
<1> QED
  BY <1>1, <1>2, <1>3, <1>4, <1>5, <1>6, <1>7

\* A bad context is refused.
LEMMA RefusedRecords == ASSUME Records, NEW c \in Ctx, Refused(c)  PROVE Records'
<1> USE DEF Records, Refused, ctxs, stamps, lists, runs, books, hw, power, bounds
<1>1. Typed'
  <2>1. ScriptsTyped'
    BY DEF Typed, ScriptsTyped
  <2>2. LinesTyped'
    BY DEF Typed, LinesTyped
  <2>3. SetsTyped'
    BY DEF Typed, SetsTyped
  <2>4. StatesTyped'
    BY DEF Typed, StatesTyped
  <2>5. StampsTyped'
    BY DEF Typed, StampsTyped
  <2>6. PassTyped'
    BY DEF Typed, PassTyped
  <2>7. BooksTyped'
    BY DEF Typed, BooksTyped
  <2>8. HwTyped'
    BY DEF Typed, HwTyped
  <2>9. PowerTyped'
    BY DEF Typed, PowerTyped
  <2> QED
    BY <2>1, <2>2, <2>3, <2>4, <2>5, <2>6, <2>7, <2>8, <2>9 DEF Typed
<1>2. LinesRight'
  BY DEF LinesRight, LineRight, ListOrdered, Listed, InHand
<1>3. PassRight'
  BY DEF PassRight, Kind
<1>4. PowerRight'
  BY DEF PowerRight
<1>5. ListAgrees'
  BY DEF ListAgrees, Kind
<1>6. IdleMeansDrained'
  BY DEF IdleMeansDrained
<1>7. CulpritRight'
  BY DEF CulpritRight
<1> QED
  BY <1>1, <1>2, <1>3, <1>4, <1>5, <1>6, <1>7

\* A marker retires at once.
LEMMA FastMarkerRecords == ASSUME Records, NEW c \in Ctx, FastMarker(c)  PROVE Records'
<1> USE DEF Records, FastMarker, CanSubmit, ctxs, stamps, lists, runs, books, hw, power, bounds
<1> DEFINE i == added[c] + 1
<1>1. i \in Nums /\ i <= Len(script[c]) /\ i > added[c] /\ <<c, i>> \in Obj
  <2>1. added[c] \in 0 .. Length /\ added[c] < Len(script[c]) /\ Len(script[c]) <= Length
        /\ script[c] \in Seq(Kinds)
    BY DEF PassRight, Typed, ScriptsTyped
  <2>2. Len(script[c]) \in Nat /\ Length \in Nat
    BY <2>1, HwschedAssumption, LenProperties
  <2> QED
    BY <2>1, <2>2 DEF Obj, Nums
<1>2. added' = [added EXCEPT ![c] = i] /\ fast' = fast \cup {<<c, i>>}
      /\ retired' = [retired EXCEPT ![c] = i]
  OBVIOUS
<1>3. i \in 0 .. Length /\ added[c] <= i /\ \A d \in Ctx : added[d] \in 0 .. Length
  BY <1>1 DEF Typed, ScriptsTyped, Nums
<1> HIDE DEF i
<1>4. Typed'
  <2>1. ScriptsTyped'
    BY <1>1, <1>2, <1>3 DEF Typed, ScriptsTyped
  <2>2. LinesTyped'
    BY DEF Typed, LinesTyped
  <2>3. SetsTyped'
    BY <1>1, <1>2 DEF Typed, SetsTyped
  <2>4. StatesTyped'
    BY DEF Typed, StatesTyped
  <2>5. StampsTyped'
    BY <1>2, <1>3 DEF Typed, StampsTyped
  <2>6. PassTyped'
    BY DEF Typed, PassTyped
  <2>7. BooksTyped'
    BY DEF Typed, BooksTyped
  <2>8. HwTyped'
    BY DEF Typed, HwTyped
  <2>9. PowerTyped'
    BY DEF Typed, PowerTyped
  <2> QED
    BY <2>1, <2>2, <2>3, <2>4, <2>5, <2>6, <2>7, <2>8, <2>9 DEF Typed
<1>5. LinesRight'
  <2>1. ListOrdered'
    BY DEF LinesRight, ListOrdered
  <2>2. ASSUME NEW d \in Ctx  PROVE LineRight(d)'
    <3>1. added'[d] \in 0 .. Length /\ added'[d] >= added[d]
      BY <1>2, <1>3 DEF Typed, ScriptsTyped
    <3>2. LineTyped(queue[d], hwq[d], Listed(d), InHand(d), added[d])
      BY LinesAreTyped
    <3>3. LineFits(queue[d], hwq[d], Listed(d), InHand(d), added'[d])
      BY <3>1, <3>2, LineShrinks DEF LinesRight, LineRight
    <3> QED
      BY <3>3 DEF LineRight, Listed, InHand
  <2> QED
    BY <2>1, <2>2 DEF LinesRight
<1>6. PassRight'
  BY <1>2 DEF PassRight, Kind, Typed, StatesTyped
<1>7. PowerRight'
  BY DEF PowerRight
<1>8. ListAgrees'
  BY DEF ListAgrees, Kind
<1>9. IdleMeansDrained'
  BY DEF IdleMeansDrained
<1>10. CulpritRight'
  BY DEF CulpritRight
<1> QED
  BY <1>4, <1>5, <1>6, <1>7, <1>8, <1>9, <1>10

\* A thread sends, or leaves it to the worker.
LEMMA IssueRecords == ASSUME Records, NEW c \in Ctx, Issue(c)  PROVE Records'
<1> USE DEF Records, Issue, Took, ctxs, stamps, lists, runs, books, hw, power, bounds
<1>1. Typed'
  <2>1. ScriptsTyped'
    BY DEF Typed, ScriptsTyped
  <2>2. LinesTyped'
    BY DEF Typed, LinesTyped
  <2>3. SetsTyped'
    BY DEF Typed, SetsTyped
  <2>4. StatesTyped'
    BY DEF Typed, StatesTyped
  <2>5. StampsTyped'
    BY DEF Typed, StampsTyped
  <2>6. PassTyped'
    BY DEF Typed, PassTyped
  <2>7. BooksTyped'
    BY DEF Typed, BooksTyped
  <2>8. HwTyped'
    BY DEF Typed, HwTyped
  <2>9. PowerTyped'
    BY DEF Typed, PowerTyped
  <2> QED
    BY <2>1, <2>2, <2>3, <2>4, <2>5, <2>6, <2>7, <2>8, <2>9 DEF Typed
<1>2. LinesRight'
  BY DEF LinesRight, LineRight, ListOrdered, Listed, InHand
<1>3. PassRight'
  BY DEF PassRight, Kind, Typed, StatesTyped
<1>4. PowerRight'
  BY DEF PowerRight
<1>5. ListAgrees'
  BY DEF ListAgrees, Kind
<1>6. IdleMeansDrained'
  BY DEF IdleMeansDrained
<1>7. CulpritRight'
  BY DEF CulpritRight
<1> QED
  BY <1>1, <1>2, <1>3, <1>4, <1>5, <1>6, <1>7

\* A bad context is dropped.
LEMMA DropRecords == ASSUME Records, NEW c \in Ctx, Drop(c)  PROVE Records'
<1> USE DEF Records, Drop, Idle, Bad, ctxs, stamps, lists, runs, books, hw, power, bounds
<1>1. Typed'
  <2>1. ScriptsTyped'
    BY DEF Typed, ScriptsTyped
  <2>2. LinesTyped'
    BY DEF Typed, LinesTyped
  <2>3. SetsTyped'
    BY DEF Typed, SetsTyped
  <2>4. StatesTyped'
    BY DEF Typed, StatesTyped
  <2>5. StampsTyped'
    BY DEF Typed, StampsTyped
  <2>6. PassTyped'
    BY DEF Typed, PassTyped
  <2>7. BooksTyped'
    BY DEF Typed, BooksTyped
  <2>8. HwTyped'
    BY DEF Typed, HwTyped
  <2>9. PowerTyped'
    BY DEF Typed, PowerTyped
  <2> QED
    BY <2>1, <2>2, <2>3, <2>4, <2>5, <2>6, <2>7, <2>8, <2>9 DEF Typed
<1>2. LinesRight'
  BY DEF LinesRight, LineRight, ListOrdered, Listed, InHand
<1>3. PassRight'
  BY DEF PassRight, Kind
<1>4. PowerRight'
  BY DEF PowerRight
<1>5. ListAgrees'
  BY DEF ListAgrees, Kind
<1>6. IdleMeansDrained'
  BY DEF IdleMeansDrained
<1>7. CulpritRight'
  BY DEF CulpritRight
<1> QED
  BY <1>1, <1>2, <1>3, <1>4, <1>5, <1>6, <1>7

\* A context is taken up.
LEMMA ConsiderRecords == ASSUME Records, NEW c \in Ctx, Consider(c)  PROVE Records'
<1> USE DEF Records, Consider, Idle, Bad, ctxs, stamps, lists, runs, books, hw, power, bounds
<1>1. Typed'
  <2>1. ScriptsTyped'
    BY DEF Typed, ScriptsTyped
  <2>2. LinesTyped'
    BY DEF Typed, LinesTyped
  <2>3. SetsTyped'
    BY DEF Typed, SetsTyped
  <2>4. StatesTyped'
    BY DEF Typed, StatesTyped
  <2>5. StampsTyped'
    BY DEF Typed, StampsTyped
  <2>6. PassTyped'
    BY DEF Typed, PassTyped
  <2>7. BooksTyped'
    BY DEF Typed, BooksTyped
  <2>8. HwTyped'
    BY DEF Typed, HwTyped
  <2>9. PowerTyped'
    BY DEF Typed, PowerTyped
  <2> QED
    BY <2>1, <2>2, <2>3, <2>4, <2>5, <2>6, <2>7, <2>8, <2>9 DEF Typed
<1>2. LinesRight'
  BY DEF LinesRight, LineRight, ListOrdered, Listed, InHand
<1>3. PassRight'
  BY DEF PassRight, Kind
<1>4. PowerRight'
  BY DEF PowerRight
<1>5. ListAgrees'
  BY DEF ListAgrees, Kind
<1>6. IdleMeansDrained'
  BY DEF IdleMeansDrained
<1>7. CulpritRight'
  BY DEF CulpritRight
<1> QED
  BY <1>1, <1>2, <1>3, <1>4, <1>5, <1>6, <1>7

\* A pass of a thread ends.
LEMMA InlineEndsRecords == ASSUME Records, InlineEnds  PROVE Records'
<1> USE DEF Records, InlineEnds, Idle, ctxs, stamps, lists, runs, books, hw, power, bounds
<1>1. Typed'
  <2>1. ScriptsTyped'
    BY DEF Typed, ScriptsTyped
  <2>2. LinesTyped'
    BY DEF Typed, LinesTyped
  <2>3. SetsTyped'
    BY DEF Typed, SetsTyped
  <2>4. StatesTyped'
    BY DEF Typed, StatesTyped
  <2>5. StampsTyped'
    BY DEF Typed, StampsTyped
  <2>6. PassTyped'
    BY DEF Typed, PassTyped
  <2>7. BooksTyped'
    BY DEF Typed, BooksTyped
  <2>8. HwTyped'
    BY DEF Typed, HwTyped
  <2>9. PowerTyped'
    BY DEF Typed, PowerTyped
  <2> QED
    BY <2>1, <2>2, <2>3, <2>4, <2>5, <2>6, <2>7, <2>8, <2>9 DEF Typed
<1>2. LinesRight'
  BY DEF LinesRight, LineRight, ListOrdered, Listed, InHand
<1>3. PassRight'
  BY DEF PassRight, Kind
<1>4. PowerRight'
  BY DEF PowerRight
<1>5. ListAgrees'
  BY DEF ListAgrees, Kind
<1>6. IdleMeansDrained'
  BY DEF IdleMeansDrained
<1>7. CulpritRight'
  BY DEF CulpritRight
<1> QED
  BY <1>1, <1>2, <1>3, <1>4, <1>5, <1>6, <1>7

\* A pass of the worker ends, and the vote with an empty list.
LEMMA WorkEndsRecords == ASSUME Records, WorkEnds  PROVE Records'
<1> USE DEF Records, WorkEnds, Idle, RunDone, ctxs, stamps, lists, runs, books, hw, power, bounds
<1>1. votes = (IF powered THEN 1 ELSE 0) /\ powered \in BOOLEAN /\ active = ~gate
      /\ gate \in BOOLEAN
  BY DEF ListAgrees, Typed, BooksTyped
<1>2. inflight = 0 => votes' = 0 /\ powered' = FALSE /\ active' = FALSE /\ gate' = TRUE
  <2> SUFFICES ASSUME inflight = 0
               PROVE  votes' = 0 /\ powered' = FALSE /\ active' = FALSE /\ gate' = TRUE
    OBVIOUS
  <2>1. powered' = FALSE /\ active' = FALSE
    OBVIOUS
  <2>2. gate' = TRUE
    <3>1. gate' = (gate \/ active)
      OBVIOUS
    <3> QED
      BY ONLY <1>1, <3>1, Zenon
  <2>3. votes' = 0
    <3>1. votes' = votes - (IF powered THEN 1 ELSE 0)
      OBVIOUS
    <3> QED
      BY ONLY <1>1, <3>1
  <2> QED
    BY <2>1, <2>2, <2>3
<1>3. inflight # 0 => UNCHANGED <<votes, powered, gate, active>>
  OBVIOUS
<1>4. UNCHANGED <<list, inflight, big, awake, script>>
  OBVIOUS
<1>5. Typed'
  <2>1. ScriptsTyped'
    BY DEF Typed, ScriptsTyped
  <2>2. LinesTyped'
    BY DEF Typed, LinesTyped
  <2>3. SetsTyped'
    BY DEF Typed, SetsTyped
  <2>4. StatesTyped'
    BY DEF Typed, StatesTyped
  <2>5. StampsTyped'
    BY DEF Typed, StampsTyped
  <2>6. PassTyped'
    BY DEF Typed, PassTyped
  <2>7. BooksTyped'
    <3>1. inflight' \in Nat /\ big' \in Obj \cup {None} /\ awake' \in BOOLEAN
      BY <1>4 DEF Typed, BooksTyped
    <3>2. votes \in 0 .. 1 /\ powered \in BOOLEAN /\ active \in BOOLEAN /\ gate \in BOOLEAN
      BY DEF Typed, BooksTyped
    <3>3. votes' \in 0 .. 1
      BY ONLY <1>2, <1>3, <3>2
    <3>4. powered' \in BOOLEAN /\ active' \in BOOLEAN /\ gate' \in BOOLEAN
      BY ONLY <1>2, <1>3, <3>2, Zenon
    <3> QED
      BY <3>1, <3>3, <3>4 DEF BooksTyped
  <2>8. HwTyped'
    BY DEF Typed, HwTyped
  <2>9. PowerTyped'
    BY DEF Typed, PowerTyped
  <2> QED
    BY <2>1, <2>2, <2>3, <2>4, <2>5, <2>6, <2>7, <2>8, <2>9 DEF Typed
<1>6. LinesRight'
  BY DEF LinesRight, LineRight, ListOrdered, Listed, InHand
<1>7. PassRight'
  BY DEF PassRight, Kind
<1>8. PowerRight'
  BY DEF PowerRight
<1>9. ListAgrees'
  <2>1. inflight' = Len(list') /\ {o \in Elems(list') : Kind(o)' = "big"} = {big'} \ {None}
    BY <1>4 DEF ListAgrees, Kind
  <2>2. votes' = IF powered' THEN 1 ELSE 0
    <3>1. CASE inflight = 0
      BY ONLY <1>2, <3>1
    <3>2. CASE inflight # 0
      <4>1. votes' = votes /\ powered' = powered
        BY <1>3, <3>2, Zenon
      <4> QED
        BY ONLY <1>1, <4>1, Zenon
    <3> QED
      BY <3>1, <3>2
  <2>3. inflight > 0 => inflight # 0 /\ powered /\ active
    BY DEF ListAgrees, Typed, BooksTyped
  <2>4. inflight' > 0 => powered' /\ active'
    <3>1. inflight' > 0 => inflight > 0
      BY <1>4
    <3>2. inflight # 0 => powered' = powered /\ active' = active
      BY <1>3, Zenon
    <3> QED
      BY ONLY <2>3, <3>1, <3>2, Zenon
  <2>5. active' = ~gate'
    BY ONLY <1>1, <1>2, <1>3, Zenon
  <2> QED
    BY <2>1, <2>2, <2>4, <2>5 DEF ListAgrees
<1>10. IdleMeansDrained'
  BY <1>2 DEF IdleMeansDrained
<1>11. CulpritRight'
  BY DEF CulpritRight
<1> QED
  BY <1>5, <1>6, <1>7, <1>8, <1>9, <1>10, <1>11

\* A command hangs.
LEMMA HangRecords == ASSUME Records, NEW c \in Ctx, Hang(c)  PROVE Records'
<1> USE DEF Records, Hang, May, Spend, Kind, ctxs, stamps, lists, runs, books, hw, power, bounds
<1>1. <<c, Head(hwq[c])>> \in Obj
  <2>1. hwq[c] \in Seq(Nums)
    BY DEF Typed, LinesTyped
  <2>2. Head(hwq[c]) \in Nums
    BY <2>1, ElemsOf
  <2> QED
    BY <2>2 DEF Obj, Nums
<1>2. Typed'
  <2>1. ScriptsTyped'
    BY DEF Typed, ScriptsTyped
  <2>2. LinesTyped'
    BY DEF Typed, LinesTyped
  <2>3. SetsTyped'
    BY DEF Typed, SetsTyped
  <2>4. StatesTyped'
    BY DEF Typed, StatesTyped
  <2>5. StampsTyped'
    BY DEF Typed, StampsTyped
  <2>6. PassTyped'
    BY DEF Typed, PassTyped
  <2>7. BooksTyped'
    BY DEF Typed, BooksTyped
  <2>8. HwTyped'
    BY <1>1 DEF Typed, HwTyped
  <2>9. PowerTyped'
    BY DEF Typed, PowerTyped
  <2> QED
    BY <2>1, <2>2, <2>3, <2>4, <2>5, <2>6, <2>7, <2>8, <2>9 DEF Typed
<1>3. LinesRight'
  BY DEF LinesRight, LineRight, ListOrdered, Listed, InHand
<1>4. PassRight'
  BY DEF PassRight, Kind
<1>5. PowerRight'
  BY DEF PowerRight
<1>6. ListAgrees'
  BY DEF ListAgrees, Kind
<1>7. IdleMeansDrained'
  BY DEF IdleMeansDrained
<1>8. CulpritRight'
  <2>1. awake = TRUE
    BY DEF PowerRight, Typed, BooksTyped
  <2> QED
    BY <2>1 DEF CulpritRight
<1> QED
  BY <1>2, <1>3, <1>4, <1>5, <1>6, <1>7, <1>8

\* The watchdog bites.
LEMMA WatchdogRecords == ASSUME Records, Watchdog  PROVE Records'
<1> USE DEF Records, Watchdog, May, Spend, ctxs, stamps, lists, runs, books, hw, power, bounds
<1>1. Typed'
  <2>1. ScriptsTyped'
    BY DEF Typed, ScriptsTyped
  <2>2. LinesTyped'
    BY DEF Typed, LinesTyped
  <2>3. SetsTyped'
    BY DEF Typed, SetsTyped
  <2>4. StatesTyped'
    BY DEF Typed, StatesTyped
  <2>5. StampsTyped'
    BY DEF Typed, StampsTyped
  <2>6. PassTyped'
    BY DEF Typed, PassTyped
  <2>7. BooksTyped'
    BY DEF Typed, BooksTyped
  <2>8. HwTyped'
    BY DEF Typed, HwTyped
  <2>9. PowerTyped'
    BY DEF Typed, PowerTyped
  <2> QED
    BY <2>1, <2>2, <2>3, <2>4, <2>5, <2>6, <2>7, <2>8, <2>9 DEF Typed
<1>2. LinesRight'
  BY DEF LinesRight, LineRight, ListOrdered, Listed, InHand
<1>3. PassRight'
  BY DEF PassRight, Kind
<1>4. PowerRight'
  BY DEF PowerRight
<1>5. ListAgrees'
  BY DEF ListAgrees, Kind
<1>6. IdleMeansDrained'
  BY DEF IdleMeansDrained
<1>7. CulpritRight'
  BY DEF CulpritRight
<1> QED
  BY <1>1, <1>2, <1>3, <1>4, <1>5, <1>6, <1>7

\* Messages are read.
LEMMA ReadNewsRecords == ASSUME Records, ReadNews  PROVE Records'
<1> USE DEF Records, ReadNews, ctxs, stamps, lists, runs, books, hw, power, bounds
<1>1. Typed'
  <2>1. ScriptsTyped'
    BY DEF Typed, ScriptsTyped
  <2>2. LinesTyped'
    BY DEF Typed, LinesTyped
  <2>3. SetsTyped'
    BY DEF Typed, SetsTyped
  <2>4. StatesTyped'
    BY DEF Typed, StatesTyped
  <2>5. StampsTyped'
    BY DEF Typed, StampsTyped
  <2>6. PassTyped'
    BY DEF Typed, PassTyped
  <2>7. BooksTyped'
    BY DEF Typed, BooksTyped
  <2>8. HwTyped'
    BY DEF Typed, HwTyped
  <2>9. PowerTyped'
    BY DEF Typed, PowerTyped
  <2> QED
    BY <2>1, <2>2, <2>3, <2>4, <2>5, <2>6, <2>7, <2>8, <2>9 DEF Typed
<1>2. LinesRight'
  BY DEF LinesRight, LineRight, ListOrdered, Listed, InHand
<1>3. PassRight'
  BY DEF PassRight, Kind
<1>4. PowerRight'
  BY DEF PowerRight
<1>5. ListAgrees'
  BY DEF ListAgrees, Kind
<1>6. IdleMeansDrained'
  BY DEF IdleMeansDrained
<1>7. CulpritRight'
  BY DEF CulpritRight
<1> QED
  BY <1>1, <1>2, <1>3, <1>4, <1>5, <1>6, <1>7

\* A fence signals.
LEMMA SignalRecords == ASSUME Records, NEW o \in Obj, Signal(o)  PROVE Records'
<1> USE DEF Records, Signal, Objects, ctxs, stamps, lists, runs, books, hw, power, bounds
<1>1. o[1] \in Ctx
  BY DEF Obj
<1>2. Typed'
  <2>1. ScriptsTyped'
    BY DEF Typed, ScriptsTyped
  <2>2. LinesTyped'
    BY DEF Typed, LinesTyped
  <2>3. SetsTyped'
    BY <1>1 DEF Typed, SetsTyped
  <2>4. StatesTyped'
    BY DEF Typed, StatesTyped
  <2>5. StampsTyped'
    BY DEF Typed, StampsTyped
  <2>6. PassTyped'
    BY DEF Typed, PassTyped
  <2>7. BooksTyped'
    BY DEF Typed, BooksTyped
  <2>8. HwTyped'
    BY DEF Typed, HwTyped
  <2>9. PowerTyped'
    BY DEF Typed, PowerTyped
  <2> QED
    BY <2>1, <2>2, <2>3, <2>4, <2>5, <2>6, <2>7, <2>8, <2>9 DEF Typed
<1>3. LinesRight'
  BY DEF LinesRight, LineRight, ListOrdered, Listed, InHand
<1>4. PassRight'
  BY DEF PassRight, Kind
<1>5. PowerRight'
  BY DEF PowerRight
<1>6. ListAgrees'
  BY DEF ListAgrees, Kind
<1>7. IdleMeansDrained'
  BY DEF IdleMeansDrained
<1>8. CulpritRight'
  BY DEF CulpritRight
<1> QED
  BY <1>2, <1>3, <1>4, <1>5, <1>6, <1>7, <1>8

\* A callback schedules a context.
LEMMA ScheduleRecords == ASSUME Records, NEW c \in Ctx, Schedule(c)  PROVE Records'
<1> USE DEF Records, Schedule, ctxs, stamps, lists, runs, books, hw, power, bounds
<1>1. Typed'
  <2>1. ScriptsTyped'
    BY DEF Typed, ScriptsTyped
  <2>2. LinesTyped'
    BY DEF Typed, LinesTyped
  <2>3. SetsTyped'
    BY DEF Typed, SetsTyped
  <2>4. StatesTyped'
    BY DEF Typed, StatesTyped
  <2>5. StampsTyped'
    BY DEF Typed, StampsTyped
  <2>6. PassTyped'
    BY DEF Typed, PassTyped
  <2>7. BooksTyped'
    BY DEF Typed, BooksTyped
  <2>8. HwTyped'
    BY DEF Typed, HwTyped
  <2>9. PowerTyped'
    BY DEF Typed, PowerTyped
  <2> QED
    BY <2>1, <2>2, <2>3, <2>4, <2>5, <2>6, <2>7, <2>8, <2>9 DEF Typed
<1>2. LinesRight'
  BY DEF LinesRight, LineRight, ListOrdered, Listed, InHand
<1>3. PassRight'
  BY DEF PassRight, Kind
<1>4. PowerRight'
  BY DEF PowerRight
<1>5. ListAgrees'
  BY DEF ListAgrees, Kind
<1>6. IdleMeansDrained'
  BY DEF IdleMeansDrained
<1>7. CulpritRight'
  BY DEF CulpritRight
<1> QED
  BY <1>1, <1>2, <1>3, <1>4, <1>5, <1>6, <1>7

\* A context is detached.
LEMMA DetachRecords == ASSUME Records, NEW c \in Ctx, Detach(c)  PROVE Records'
<1> USE DEF Records, Detach, May, Spend, ctxs, stamps, lists, runs, books, hw, power, bounds
<1>1. Typed'
  <2>1. ScriptsTyped'
    BY DEF Typed, ScriptsTyped
  <2>2. LinesTyped'
    BY DEF Typed, LinesTyped
  <2>3. SetsTyped'
    BY DEF Typed, SetsTyped
  <2>4. StatesTyped'
    BY DEF Typed, StatesTyped
  <2>5. StampsTyped'
    BY DEF Typed, StampsTyped
  <2>6. PassTyped'
    BY DEF Typed, PassTyped
  <2>7. BooksTyped'
    BY DEF Typed, BooksTyped
  <2>8. HwTyped'
    BY DEF Typed, HwTyped
  <2>9. PowerTyped'
    BY DEF Typed, PowerTyped
  <2> QED
    BY <2>1, <2>2, <2>3, <2>4, <2>5, <2>6, <2>7, <2>8, <2>9 DEF Typed
<1>2. LinesRight'
  <2>1. ListOrdered'
    BY DEF LinesRight, ListOrdered
  <2>2. ASSUME NEW d \in Ctx  PROVE LineRight(d)'
    <3>1. LineTyped(queue[d], hwq[d], Listed(d), InHand(d), added[d])
      BY LinesAreTyped
    <3>2. LineFits(<<>>, hwq[d], Listed(d), InHand(d), added[d])
          /\ LineFits(queue[d], hwq[d], Listed(d), InHand(d), added[d])
      BY <3>1, LineShrinks DEF LinesRight, LineRight
    <3>3. queue'[d] = queue[d] \/ queue'[d] = <<>>
      BY DEF Typed, LinesTyped
    <3> QED
      BY <3>2, <3>3 DEF LineRight, Listed, InHand
  <2> QED
    BY <2>1, <2>2 DEF LinesRight
<1>3. PassRight'
  BY DEF PassRight, Kind
<1>4. PowerRight'
  BY DEF PowerRight
<1>5. ListAgrees'
  BY DEF ListAgrees, Kind
<1>6. IdleMeansDrained'
  BY DEF IdleMeansDrained
<1>7. CulpritRight'
  BY DEF CulpritRight
<1> QED
  BY <1>1, <1>2, <1>3, <1>4, <1>5, <1>6, <1>7

\* A detach ends.
LEMMA DetachEndsRecords == ASSUME Records, NEW c \in Ctx, DetachEnds(c)  PROVE Records'
<1> USE DEF Records, DetachEnds, ctxs, stamps, lists, runs, books, hw, power, bounds
<1>1. Typed'
  <2>1. ScriptsTyped'
    BY DEF Typed, ScriptsTyped
  <2>2. LinesTyped'
    BY DEF Typed, LinesTyped
  <2>3. SetsTyped'
    BY DEF Typed, SetsTyped
  <2>4. StatesTyped'
    BY DEF Typed, StatesTyped
  <2>5. StampsTyped'
    <3>1. added[c] \in 0 .. Length
      BY DEF Typed, ScriptsTyped
    <3> QED
      BY <3>1 DEF Typed, StampsTyped
  <2>6. PassTyped'
    BY DEF Typed, PassTyped
  <2>7. BooksTyped'
    BY DEF Typed, BooksTyped
  <2>8. HwTyped'
    BY DEF Typed, HwTyped
  <2>9. PowerTyped'
    BY DEF Typed, PowerTyped
  <2> QED
    BY <2>1, <2>2, <2>3, <2>4, <2>5, <2>6, <2>7, <2>8, <2>9 DEF Typed
<1>2. LinesRight'
  BY DEF LinesRight, LineRight, ListOrdered, Listed, InHand
<1>3. PassRight'
  BY DEF PassRight, Kind
<1>4. PowerRight'
  BY DEF PowerRight
<1>5. ListAgrees'
  BY DEF ListAgrees, Kind
<1>6. IdleMeansDrained'
  BY DEF IdleMeansDrained
<1>7. CulpritRight'
  BY DEF CulpritRight
<1> QED
  BY <1>1, <1>2, <1>3, <1>4, <1>5, <1>6, <1>7

\* Power goes off.
LEMMA SlumberRecords == ASSUME Records, Slumber  PROVE Records'
<1> USE DEF Records, Slumber, PowerOff, ctxs, stamps, lists, runs, books, hw, power, bounds
<1>1. Typed'
  <2>1. ScriptsTyped'
    BY DEF Typed, ScriptsTyped
  <2>2. LinesTyped'
    BY DEF Typed, LinesTyped
  <2>3. SetsTyped'
    BY DEF Typed, SetsTyped
  <2>4. StatesTyped'
    BY DEF Typed, StatesTyped
  <2>5. StampsTyped'
    BY DEF Typed, StampsTyped
  <2>6. PassTyped'
    BY DEF Typed, PassTyped
  <2>7. BooksTyped'
    BY DEF Typed, BooksTyped
  <2>8. HwTyped'
    BY DEF Typed, HwTyped
  <2>9. PowerTyped'
    BY DEF Typed, PowerTyped
  <2> QED
    BY <2>1, <2>2, <2>3, <2>4, <2>5, <2>6, <2>7, <2>8, <2>9 DEF Typed
<1>2. LinesRight'
  <2>1. ListOrdered'
    BY DEF LinesRight, ListOrdered
  <2>2. ASSUME NEW d \in Ctx  PROVE LineRight(d)'
    <3>1. LineTyped(queue[d], hwq[d], Listed(d), InHand(d), added[d])
      BY LinesAreTyped
    <3>2. LineFits(queue[d], <<>>, Listed(d), InHand(d), added[d])
          /\ LineFits(queue[d], hwq[d], Listed(d), InHand(d), added[d])
      BY <3>1, EmptyRight, LineShrinks DEF LinesRight, LineRight
    <3>3. hwq'[d] = hwq[d] \/ hwq'[d] = <<>>
      OBVIOUS
    <3> QED
      BY <3>2, <3>3 DEF LineRight, Listed, InHand
  <2> QED
    BY <2>1, <2>2 DEF LinesRight
<1>3. PassRight'
  BY DEF PassRight, Kind
<1>4. PowerRight'
  BY DEF PowerRight, ListAgrees
<1>5. ListAgrees'
  BY DEF ListAgrees, Kind
<1>6. IdleMeansDrained'
  BY DEF IdleMeansDrained
<1>7. CulpritRight'
  BY DEF CulpritRight
<1> QED
  BY <1>1, <1>2, <1>3, <1>4, <1>5, <1>6, <1>7

\* A suspend begins.
LEMMA SuspendStartsRecords == ASSUME Records, SuspendStarts  PROVE Records'
<1> USE DEF Records, SuspendStarts, May, Spend, ctxs, stamps, lists, runs, books, hw, power, bounds
<1>1. Typed'
  <2>1. ScriptsTyped'
    BY DEF Typed, ScriptsTyped
  <2>2. LinesTyped'
    BY DEF Typed, LinesTyped
  <2>3. SetsTyped'
    BY DEF Typed, SetsTyped
  <2>4. StatesTyped'
    BY DEF Typed, StatesTyped
  <2>5. StampsTyped'
    BY DEF Typed, StampsTyped
  <2>6. PassTyped'
    BY DEF Typed, PassTyped
  <2>7. BooksTyped'
    BY DEF Typed, BooksTyped
  <2>8. HwTyped'
    BY DEF Typed, HwTyped
  <2>9. PowerTyped'
    BY DEF Typed, PowerTyped
  <2> QED
    BY <2>1, <2>2, <2>3, <2>4, <2>5, <2>6, <2>7, <2>8, <2>9 DEF Typed
<1>2. LinesRight'
  BY DEF LinesRight, LineRight, ListOrdered, Listed, InHand
<1>3. PassRight'
  BY DEF PassRight, Kind
<1>4. PowerRight'
  BY DEF PowerRight
<1>5. ListAgrees'
  BY DEF ListAgrees, Kind
<1>6. IdleMeansDrained'
  BY DEF IdleMeansDrained
<1>7. CulpritRight'
  BY DEF CulpritRight
<1> QED
  BY <1>1, <1>2, <1>3, <1>4, <1>5, <1>6, <1>7

\* A suspend halts the scheduler.
LEMMA SuspendHaltsRecords == ASSUME Records, SuspendHalts  PROVE Records'
<1> USE DEF Records, SuspendHalts, ctxs, stamps, lists, runs, books, hw, power, bounds
<1>1. Typed'
  <2>1. ScriptsTyped'
    BY DEF Typed, ScriptsTyped
  <2>2. LinesTyped'
    BY DEF Typed, LinesTyped
  <2>3. SetsTyped'
    BY DEF Typed, SetsTyped
  <2>4. StatesTyped'
    BY DEF Typed, StatesTyped
  <2>5. StampsTyped'
    BY DEF Typed, StampsTyped
  <2>6. PassTyped'
    BY DEF Typed, PassTyped
  <2>7. BooksTyped'
    BY DEF Typed, BooksTyped
  <2>8. HwTyped'
    BY DEF Typed, HwTyped
  <2>9. PowerTyped'
    BY DEF Typed, PowerTyped, PowerRight
  <2> QED
    BY <2>1, <2>2, <2>3, <2>4, <2>5, <2>6, <2>7, <2>8, <2>9 DEF Typed
<1>2. LinesRight'
  BY DEF LinesRight, LineRight, ListOrdered, Listed, InHand
<1>3. PassRight'
  BY DEF PassRight, Kind
<1>4. PowerRight'
  BY DEF PowerRight
<1>5. ListAgrees'
  BY DEF ListAgrees, Kind
<1>6. IdleMeansDrained'
  BY DEF IdleMeansDrained, ListAgrees, PowerRight, Typed, BooksTyped
<1>7. CulpritRight'
  BY DEF CulpritRight
<1> QED
  BY <1>1, <1>2, <1>3, <1>4, <1>5, <1>6, <1>7

\* A suspend finds work.
LEMMA DrainFailsRecords == ASSUME Records, DrainFails  PROVE Records'
<1> USE DEF Records, DrainFails, Starts, ctxs, stamps, lists, runs, books, hw, power, bounds
<1>1. Typed'
  <2>1. ScriptsTyped'
    BY DEF Typed, ScriptsTyped
  <2>2. LinesTyped'
    BY DEF Typed, LinesTyped
  <2>3. SetsTyped'
    BY DEF Typed, SetsTyped
  <2>4. StatesTyped'
    BY DEF Typed, StatesTyped
  <2>5. StampsTyped'
    BY DEF Typed, StampsTyped
  <2>6. PassTyped'
    BY DEF Typed, PassTyped
  <2>7. BooksTyped'
    BY DEF Typed, BooksTyped
  <2>8. HwTyped'
    BY DEF Typed, HwTyped
  <2>9. PowerTyped'
    BY DEF Typed, PowerTyped
  <2> QED
    BY <2>1, <2>2, <2>3, <2>4, <2>5, <2>6, <2>7, <2>8, <2>9 DEF Typed
<1>2. LinesRight'
  BY DEF LinesRight, LineRight, ListOrdered, Listed, InHand
<1>3. PassRight'
  BY DEF PassRight, Kind
<1>4. PowerRight'
  BY DEF PowerRight
<1>5. ListAgrees'
  BY DEF ListAgrees, Kind
<1>6. IdleMeansDrained'
  BY DEF IdleMeansDrained
<1>7. CulpritRight'
  BY DEF CulpritRight
<1> QED
  BY <1>1, <1>2, <1>3, <1>4, <1>5, <1>6, <1>7

\* The worker was flushed.
LEMMA SuspendFlushedRecords == ASSUME Records, SuspendFlushed  PROVE Records'
<1> USE DEF Records, SuspendFlushed, ctxs, stamps, lists, runs, books, hw, power, bounds
<1>1. Typed'
  <2>1. ScriptsTyped'
    BY DEF Typed, ScriptsTyped
  <2>2. LinesTyped'
    BY DEF Typed, LinesTyped
  <2>3. SetsTyped'
    BY DEF Typed, SetsTyped
  <2>4. StatesTyped'
    BY DEF Typed, StatesTyped
  <2>5. StampsTyped'
    BY DEF Typed, StampsTyped
  <2>6. PassTyped'
    BY DEF Typed, PassTyped
  <2>7. BooksTyped'
    BY DEF Typed, BooksTyped
  <2>8. HwTyped'
    BY DEF Typed, HwTyped
  <2>9. PowerTyped'
    BY DEF Typed, PowerTyped
  <2> QED
    BY <2>1, <2>2, <2>3, <2>4, <2>5, <2>6, <2>7, <2>8, <2>9 DEF Typed
<1>2. LinesRight'
  BY DEF LinesRight, LineRight, ListOrdered, Listed, InHand
<1>3. PassRight'
  BY DEF PassRight, Kind
<1>4. PowerRight'
  BY DEF PowerRight
<1>5. ListAgrees'
  BY DEF ListAgrees, Kind
<1>6. IdleMeansDrained'
  BY DEF IdleMeansDrained
<1>7. CulpritRight'
  BY DEF CulpritRight
<1> QED
  BY <1>1, <1>2, <1>3, <1>4, <1>5, <1>6, <1>7

\* A suspend finds a fault or a busy GPU.
LEMMA IdleFailsRecords == ASSUME Records, IdleFails  PROVE Records'
<1> USE DEF Records, IdleFails, Starts, ctxs, stamps, lists, runs, books, hw, power, bounds
<1>1. Typed'
  <2>1. ScriptsTyped'
    BY DEF Typed, ScriptsTyped
  <2>2. LinesTyped'
    BY DEF Typed, LinesTyped
  <2>3. SetsTyped'
    BY DEF Typed, SetsTyped
  <2>4. StatesTyped'
    BY DEF Typed, StatesTyped
  <2>5. StampsTyped'
    BY DEF Typed, StampsTyped
  <2>6. PassTyped'
    BY DEF Typed, PassTyped
  <2>7. BooksTyped'
    BY DEF Typed, BooksTyped
  <2>8. HwTyped'
    BY DEF Typed, HwTyped
  <2>9. PowerTyped'
    BY DEF Typed, PowerTyped, PowerRight
  <2> QED
    BY <2>1, <2>2, <2>3, <2>4, <2>5, <2>6, <2>7, <2>8, <2>9 DEF Typed
<1>2. LinesRight'
  BY DEF LinesRight, LineRight, ListOrdered, Listed, InHand
<1>3. PassRight'
  BY DEF PassRight, Kind
<1>4. PowerRight'
  BY DEF PowerRight
<1>5. ListAgrees'
  BY DEF ListAgrees, Kind
<1>6. IdleMeansDrained'
  BY DEF IdleMeansDrained
<1>7. CulpritRight'
  BY DEF CulpritRight
<1> QED
  BY <1>1, <1>2, <1>3, <1>4, <1>5, <1>6, <1>7

\* The GPU is idle.
LEMMA IdleEndsRecords == ASSUME Records, IdleEnds  PROVE Records'
<1> USE DEF Records, IdleEnds, Starts, PowerOff, ctxs, stamps, lists, runs, books, hw, power, bounds
<1>1. Typed'
  <2>1. ScriptsTyped'
    BY DEF Typed, ScriptsTyped
  <2>2. LinesTyped'
    <3>1. hwq' = hwq \/ hwq' = [d \in Ctx |-> <<>>]
      OBVIOUS
    <3> QED
      BY <3>1, EmptyRight DEF Typed, LinesTyped
  <2>3. SetsTyped'
    BY DEF Typed, SetsTyped
  <2>4. StatesTyped'
    BY DEF Typed, StatesTyped
  <2>5. StampsTyped'
    BY DEF Typed, StampsTyped
  <2>6. PassTyped'
    BY DEF Typed, PassTyped
  <2>7. BooksTyped'
    BY DEF Typed, BooksTyped
  <2>8. HwTyped'
    BY DEF Typed, HwTyped
  <2>9. PowerTyped'
    BY DEF Typed, PowerTyped, PowerRight
  <2> QED
    BY <2>1, <2>2, <2>3, <2>4, <2>5, <2>6, <2>7, <2>8, <2>9 DEF Typed
<1>2. LinesRight'
  <2>1. ListOrdered'
    BY DEF LinesRight, ListOrdered
  <2>2. ASSUME NEW d \in Ctx  PROVE LineRight(d)'
    <3>1. LineTyped(queue[d], hwq[d], Listed(d), InHand(d), added[d])
      BY LinesAreTyped
    <3>2. LineFits(queue[d], <<>>, Listed(d), InHand(d), added[d])
          /\ LineFits(queue[d], hwq[d], Listed(d), InHand(d), added[d])
      BY <3>1, EmptyRight, LineShrinks DEF LinesRight, LineRight
    <3>3. hwq'[d] = hwq[d] \/ hwq'[d] = <<>>
      OBVIOUS
    <3> QED
      BY <3>2, <3>3 DEF LineRight, Listed, InHand
  <2> QED
    BY <2>1, <2>2 DEF LinesRight
<1>3. PassRight'
  BY DEF PassRight, Kind
<1>4. PowerRight'
  BY DEF PowerRight, ListAgrees, Typed, BooksTyped
<1>5. ListAgrees'
  BY DEF ListAgrees, Kind
<1>6. IdleMeansDrained'
  BY DEF IdleMeansDrained, ListAgrees, Typed, BooksTyped
<1>7. CulpritRight'
  BY DEF CulpritRight
<1> QED
  BY <1>1, <1>2, <1>3, <1>4, <1>5, <1>6, <1>7

\* The system resumes.
LEMMA ResumeRecords == ASSUME Records, Resume  PROVE Records'
<1> USE DEF Records, Resume, Starts, ctxs, stamps, lists, runs, books, hw, power, bounds
<1>1. Typed'
  <2>1. ScriptsTyped'
    BY DEF Typed, ScriptsTyped
  <2>2. LinesTyped'
    BY DEF Typed, LinesTyped
  <2>3. SetsTyped'
    BY DEF Typed, SetsTyped
  <2>4. StatesTyped'
    BY DEF Typed, StatesTyped
  <2>5. StampsTyped'
    BY DEF Typed, StampsTyped
  <2>6. PassTyped'
    BY DEF Typed, PassTyped
  <2>7. BooksTyped'
    BY DEF Typed, BooksTyped
  <2>8. HwTyped'
    BY DEF Typed, HwTyped
  <2>9. PowerTyped'
    BY DEF Typed, PowerTyped, PowerRight
  <2> QED
    BY <2>1, <2>2, <2>3, <2>4, <2>5, <2>6, <2>7, <2>8, <2>9 DEF Typed
<1>2. LinesRight'
  BY DEF LinesRight, LineRight, ListOrdered, Listed, InHand
<1>3. PassRight'
  BY DEF PassRight, Kind
<1>4. PowerRight'
  BY DEF PowerRight
<1>5. ListAgrees'
  BY DEF ListAgrees, Kind
<1>6. IdleMeansDrained'
  BY DEF IdleMeansDrained
<1>7. CulpritRight'
  BY DEF CulpritRight
<1> QED
  BY <1>1, <1>2, <1>3, <1>4, <1>5, <1>6, <1>7

\* Nothing happens.
LEMMA StutterRecords == ASSUME Records, UNCHANGED vars  PROVE Records'
<1> USE DEF Records, vars, ctxs, stamps, lists, runs, books, hw, power, bounds
<1>1. Typed'
  <2>1. ScriptsTyped'
    BY DEF Typed, ScriptsTyped
  <2>2. LinesTyped'
    BY DEF Typed, LinesTyped
  <2>3. SetsTyped'
    BY DEF Typed, SetsTyped
  <2>4. StatesTyped'
    BY DEF Typed, StatesTyped
  <2>5. StampsTyped'
    BY DEF Typed, StampsTyped
  <2>6. PassTyped'
    BY DEF Typed, PassTyped
  <2>7. BooksTyped'
    BY DEF Typed, BooksTyped
  <2>8. HwTyped'
    BY DEF Typed, HwTyped
  <2>9. PowerTyped'
    BY DEF Typed, PowerTyped
  <2> QED
    BY <2>1, <2>2, <2>3, <2>4, <2>5, <2>6, <2>7, <2>8, <2>9 DEF Typed
<1>2. LinesRight'
  BY DEF LinesRight, LineRight, ListOrdered, Listed, InHand
<1>3. PassRight'
  BY DEF PassRight, Kind
<1>4. PowerRight'
  BY DEF PowerRight
<1>5. ListAgrees'
  BY DEF ListAgrees, Kind
<1>6. IdleMeansDrained'
  BY DEF IdleMeansDrained
<1>7. CulpritRight'
  BY DEF CulpritRight
<1> QED
  BY <1>1, <1>2, <1>3, <1>4, <1>5, <1>6, <1>7

-----------------------------------------------------------------------------
(* The steps that move an object.                                          *)

\* The highest of a finite set of numbers.
LEMMA HighestIs ==
    ASSUME NEW K \in SUBSET Nat, IsFiniteSet(K)
    PROVE  Highest(K) \in K \cup {0} /\ \A m \in K : m <= Highest(K)
<1>1. \E n \in K \cup {0} : \A m \in K : m <= n
  <2>1. CASE K = {}
    BY <2>1
  <2>2. CASE K # {}
    <3> DEFINE N == Cardinality(K)
    <3>1. N \in Nat /\ N # 0
      BY <2>2, FS_CardinalityType, FS_EmptySet
    <3> HIDE DEF N
    <3>2. N \in 1 .. N
      BY <3>1
    <3>3. PICK n \in K : Rank(n, K) = N
      BY <3>2, Ranks DEF N
    <3>4. \A m \in K : m <= n
      <4> SUFFICES ASSUME NEW m \in K, ~(m <= n)  PROVE FALSE
        OBVIOUS
      <4>1. n < m
        OBVIOUS
      <4>2. Rank(n, K) < Rank(m, K) /\ Rank(m, K) \in 1 .. N
        BY <4>1, Ranks DEF N
      <4> QED
        BY <3>1, <3>3, <4>2
    <3> QED
      BY <3>4
  <2> QED
    BY <2>1, <2>2
<1> QED
  BY <1>1 DEF Highest

\* How many objects at the head of a queue go without the GMU, and the timestamp
\* they leave.
Gone(c) == {o \in {<<c, queue[c][j]>> : j \in 1 .. Passed(c)} : o \in Stamped}
At(c) == Highest({o[2] : o \in Gone(c)} \cup {retired[c]})
Rest(c) == SubSeq(queue[c], Passed(c) + 1, Len(queue[c]))

\* What passes is a prefix of the queue, as long as its objects pass.
LEMMA PassedIs ==
    ASSUME NEW c \in Ctx, queue[c] \in Seq(Nums)
    PROVE  /\ Passed(c) \in 0 .. Len(queue[c])
           /\ \A j \in 1 .. Passed(c) : Passes(c, j)
<1> DEFINE K == {n \in 1 .. Len(queue[c]) : \A j \in 1 .. n : Passes(c, j)}
<1>1. Len(queue[c]) \in Nat /\ K \subseteq 1 .. Len(queue[c])
  BY LenProperties
<1>2. K \in SUBSET Nat /\ IsFiniteSet(K)
  <2>1. IsFiniteSet(1 .. Len(queue[c]))
    BY <1>1, FS_Interval
  <2> QED
    BY <1>1, <2>1, FS_Subset
<1>3. Highest(K) \in K \cup {0}
  BY <1>2, HighestIs
<1>4. Passed(c) \in K \cup {0}
  BY <1>3 DEF Passed
<1> QED
  BY <1>1, <1>4

\* What is left of the queue is its tail, in order.
LEMMA RestIs ==
    ASSUME NEW c \in Ctx, queue[c] \in Seq(Nums), Increasing(queue[c])
    PROVE  /\ Rest(c) \in Seq(Nums) /\ Len(Rest(c)) = Len(queue[c]) - Passed(c)
           /\ \A i \in 1 .. Len(Rest(c)) : Rest(c)[i] = queue[c][i + Passed(c)]
           /\ Increasing(Rest(c)) /\ Elems(Rest(c)) \subseteq Elems(queue[c])
<1> DEFINE q == queue[c]
           n == Passed(c)
           m == n + 1
           s == SubSeq(q, m, Len(q))
<1>1. Len(q) \in Nat /\ DOMAIN q = 1 .. Len(q) /\ \A i \in 1 .. Len(q) : q[i] \in Nums
  BY LenProperties, ElementOfSeq
<1>2. n \in 0 .. Len(q)
  BY PassedIs
<1> HIDE DEF n, q
<1>3. m \in Int /\ \A i \in m .. Len(q) : q[i] \in Nums
  BY <1>1, <1>2
<1> HIDE DEF m
<1>4. s \in Seq(Nums) /\ Len(s) = (IF m <= Len(q) THEN Len(q) - m + 1 ELSE 0)
      /\ \A i \in 1 .. Len(q) - m + 1 : s[i] = q[m + i - 1]
  BY <1>1, <1>3, SubSeqProperties
<1> HIDE DEF s
<1>5. Len(s) = Len(q) - n /\ \A i \in 1 .. Len(s) : s[i] = q[i + n]
  <2>1. m = n + 1
    BY DEF m
  <2>2. Len(s) = Len(q) - n
    <3>1. m \in Nat /\ Len(q) \in Nat /\ n \in Nat /\ n <= Len(q) /\ m = n + 1
      BY <1>1, <1>2, <2>1
    <3>2. CASE m <= Len(q)
      <4>1. Len(s) = Len(q) - m + 1
        BY <1>4, <3>2
      <4> QED
        BY <3>1, <4>1
    <3>3. CASE ~(m <= Len(q))
      <4>1. Len(s) = 0
        BY <1>4, <3>3
      <4> QED
        BY <3>1, <3>3, <4>1
    <3> QED
      BY <3>2, <3>3
  <2>3. ASSUME NEW i \in 1 .. Len(s)  PROVE s[i] = q[i + n]
    <3>1. i \in 1 .. Len(q) - m + 1 /\ m + i - 1 = i + n
      BY <1>1, <1>2, <2>1, <2>2
    <3>2. s[i] = q[m + i - 1]
      BY <1>4, <3>1
    <3> QED
      BY <3>1, <3>2
  <2> QED
    BY <2>2, <2>3
<1>6. DOMAIN s = 1 .. Len(s)
  BY <1>4, LenProperties
<1>7. Increasing(s)
  <2> SUFFICES ASSUME NEW i \in DOMAIN s, NEW j \in DOMAIN s, i < j  PROVE s[i] < s[j]
    BY DEF Increasing
  <2>1. i + n \in DOMAIN q /\ j + n \in DOMAIN q /\ i + n < j + n
    BY <1>1, <1>2, <1>5, <1>6
  <2>2. q[i + n] < q[j + n]
    BY <2>1 DEF Increasing, q
  <2> QED
    BY <1>5, <1>6, <2>2
<1>8. Elems(s) \subseteq Elems(q)
  <2>1. \A i \in DOMAIN s : i + n \in DOMAIN q /\ s[i] = q[i + n]
    BY <1>1, <1>2, <1>5, <1>6
  <2> QED
    BY <2>1 DEF Elems
<1> QED
  BY <1>4, <1>5, <1>7, <1>8 DEF Rest, s, m, n, q

\* What retires of a context without the GMU.
LEMMA AtIs ==
    ASSUME NEW c \in Ctx, Typed
    PROVE  /\ At(c) \in 0 .. Length /\ retired[c] <= At(c)
           /\ At(c) = retired[c] \/ \E j \in 1 .. Passed(c) :
                                       At(c) = queue[c][j] /\ <<c, queue[c][j]>> \in Stamped
           /\ \A j \in 1 .. Passed(c) :
                <<c, queue[c][j]>> \in Stamped => queue[c][j] <= At(c)
<1> DEFINE K == {o[2] : o \in Gone(c)} \cup {retired[c]}
<1>1. queue[c] \in Seq(Nums) /\ retired[c] \in 0 .. Length /\ Length \in Nat
  BY HwschedAssumption DEF Typed, LinesTyped, StampsTyped
<1>2. Passed(c) \in 0 .. Len(queue[c]) /\ Len(queue[c]) \in Nat
  BY <1>1, PassedIs, LenProperties
<1>3. \A j \in 1 .. Passed(c) : queue[c][j] \in Nums
  BY <1>1, <1>2, ElementOfSeq
<1>4. \A k \in K : k = retired[c] \/ \E j \in 1 .. Passed(c) :
                                         k = queue[c][j] /\ <<c, queue[c][j]>> \in Stamped
  BY DEF Gone
<1>5. \A j \in 1 .. Passed(c) : <<c, queue[c][j]>> \in Stamped => queue[c][j] \in K
  <2> SUFFICES ASSUME NEW j \in 1 .. Passed(c), <<c, queue[c][j]>> \in Stamped
               PROVE  queue[c][j] \in K
    OBVIOUS
  <2>1. <<c, queue[c][j]>> \in Gone(c)
    BY DEF Gone
  <2>2. <<c, queue[c][j]>>[2] = queue[c][j]
    OBVIOUS
  <2> QED
    BY <2>1, <2>2
<1>6. K \subseteq 0 .. Length /\ retired[c] \in K
  <2>1. \A i \in Nums : i \in 0 .. Length
    BY <1>1 DEF Nums
  <2>2. ASSUME NEW k \in K  PROVE k \in 0 .. Length
    <3>1. CASE k = retired[c]
      BY <1>1, <3>1
    <3>2. CASE k # retired[c]
      BY <1>3, <1>4, <2>1, <3>2
    <3> QED
      BY <3>1, <3>2
  <2> QED
    BY <2>2
<1> HIDE DEF K
<1>7. K \in SUBSET Nat /\ IsFiniteSet(K)
  <2>1. IsFiniteSet(0 .. Length)
    BY <1>1, FS_Interval
  <2>2. IsFiniteSet(K)
    BY <1>6, <2>1, FS_Subset
  <2> QED
    BY <1>6, <2>2
<1>8. Highest(K) \in K \cup {0} /\ \A m \in K : m <= Highest(K)
  BY <1>7, HighestIs
<1>9. At(c) = Highest(K)
  BY DEF At, K
<1>10. At(c) \in K
  BY <1>1, <1>6, <1>8, <1>9
<1>11. At(c) \in 0 .. Length /\ retired[c] <= At(c)
  BY <1>6, <1>8, <1>9, <1>10
<1>12. \A j \in 1 .. Passed(c) : <<c, queue[c][j]>> \in Stamped => queue[c][j] <= At(c)
  BY <1>5, <1>8, <1>9
<1> QED
  BY <1>4, <1>10, <1>11, <1>12

\* None is no object, and the contexts are numbered from 1.
LEMMA NoneIsNone == None \notin Obj /\ 0 \notin Ctx
<1>1. Ctx = 1 .. Cardinality(Ctx) /\ Cardinality(Ctx) \in Nat
  BY HwschedAssumption, FS_CardinalityType
<1>2. 0 \notin Ctx
  BY <1>1
<1> QED
  BY <1>2 DEF None, Obj

\* The object in hand goes back to the head of its queue, or is dropped.
Back ==
    \/ \E why \in {"busy", "nospace"} : Return(why)
    \/ hand' = None /\ from' = 0 /\ UNCHANGED <<queue, lists>>

\* The lines stay in order when the object in hand goes back to its queue.
LEMMA BackRight ==
    ASSUME Records, hand # None, Back, UNCHANGED <<added, hwq, list>>
    PROVE  /\ queue' \in [Ctx -> Seq(Nums)] /\ jobs' \in SUBSET Ctx /\ requeue' \in SUBSET Ctx
           /\ hand' = None /\ from' = 0 /\ LinesRight'
<1> DEFINE c == hand[1]
           x == hand[2]
<1>1. hand \in Obj /\ c \in Ctx /\ x \in Nums /\ hand = <<c, x>>
  BY DEF Records, Typed, PassTyped, Obj, Nums
<1>2. queue \in [Ctx -> Seq(Nums)] /\ jobs \in SUBSET Ctx /\ requeue \in SUBSET Ctx
  BY DEF Records, Typed, LinesTyped, SetsTyped
<1>3. hand' = None /\ from' = 0
  BY DEF Back, Return
<1>4. jobs' \in SUBSET Ctx /\ requeue' \in SUBSET Ctx
  BY <1>1, <1>2 DEF Back, Return, lists
<1>5. queue' = queue \/ queue' = [queue EXCEPT ![c] = <<x>> \o queue[c]]
  BY DEF Back, Return
<1>6. InHand(c) = {x} /\ \A d \in Ctx \ {c} : InHand(d) = {}
  BY <1>1 DEF InHand
<1>7. \A d \in Ctx : InHand(d)' = {}
  BY <1>3, NoneIsNone DEF InHand, Nums, None, Obj
<1> HIDE DEF c, x
<1>8. queue[c] \in Seq(Nums) /\ <<x>> \o queue[c] \in Seq(Nums)
  BY <1>1, <1>2, ElemsOf
<1>9. queue' \in [Ctx -> Seq(Nums)]
  BY <1>1, <1>2, <1>5, <1>8
<1>10. LinesRight'
  <2>1. ListOrdered'
    BY DEF Records, LinesRight, ListOrdered
  <2>2. ASSUME NEW d \in Ctx  PROVE LineRight(d)'
    <3>1. LineTyped(queue[d], hwq[d], Listed(d), InHand(d), added[d])
          /\ LineFits(queue[d], hwq[d], Listed(d), InHand(d), added[d])
      BY LinesAreTyped DEF Records, LinesRight, LineRight
    <3>2. LineFits(queue[d], hwq[d], Listed(d), {}, added[d])
      BY <3>1, LineShrinks
    <3>3. d = c => LineFits(<<x>> \o queue[d], hwq[d], Listed(d), {}, added[d])
      BY <1>1, <1>6, <3>1, LineMoves
    <3>4. queue'[d] = queue[d] \/ (d = c /\ queue'[d] = <<x>> \o queue[d])
      BY <1>2, <1>5
    <3> QED
      BY <1>7, <3>2, <3>3, <3>4 DEF LineRight, Listed
  <2> QED
    BY <2>1, <2>2 DEF LinesRight
<1> QED
  BY <1>3, <1>4, <1>9, <1>10

\* An object at the end of a queue leaves its head.
LEMMA HeadKept ==
    ASSUME NEW s \in Seq(Nums), NEW x \in Nums, s # <<>>
    PROVE  Append(s, x) # <<>> /\ Head(Append(s, x)) = Head(s)
<1>1. Append(s, x) \in Seq(Nums) /\ Len(Append(s, x)) = Len(s) + 1 /\ Len(s) \in Nat
      /\ \A i \in 1 .. Len(s) : Append(s, x)[i] = s[i]
  BY AppendProperties, LenProperties
<1>2. Len(s) # 0
  BY EmptySeq, <1>1
<1>3. Append(s, x) # <<>>
  BY <1>1, EmptySeq
<1>4. Head(Append(s, x)) = Append(s, x)[1] /\ Head(s) = s[1]
  BY <1>1, <1>3, HeadTailProperties
<1>5. 1 \in 1 .. Len(s)
  BY <1>1, <1>2
<1> QED
  BY <1>1, <1>3, <1>4, <1>5


\* An object is queued.
LEMMA QueueRecords == ASSUME Records, NEW c \in Ctx, Queue(c)  PROVE Records'
<1> USE DEF Records, Queue, CanSubmit, ctxs, stamps, lists, runs, books, hw, power, bounds
<1> DEFINE i == added[c] + 1
<1>1. i \in Nums /\ i <= Len(script[c]) /\ <<c, i>> \in Obj
  <2>1. added[c] \in 0 .. Length /\ added[c] < Len(script[c]) /\ Len(script[c]) <= Length
        /\ script[c] \in Seq(Kinds)
    BY DEF PassRight, Typed, ScriptsTyped
  <2>2. Len(script[c]) \in Nat /\ Length \in Nat
    BY <2>1, HwschedAssumption, LenProperties
  <2> QED
    BY <2>1, <2>2 DEF Obj, Nums
<1>2. added' = [added EXCEPT ![c] = i] /\ queue' = [queue EXCEPT ![c] = Append(queue[c], i)]
  OBVIOUS
<1>3. i \in 0 .. Length /\ i = added[c] + 1
  BY <1>1 DEF Nums
<1>4. queue[c] \in Seq(Nums) /\ Elems(queue[c]) \subseteq Nums /\ Append(queue[c], i) \in Seq(Nums)
  <2>1. queue[c] \in Seq(Nums)
    BY DEF Typed, LinesTyped
  <2> HIDE DEF i
  <2> QED
    BY <1>1, <2>1, ElemsOf, AppendProperties
<1> HIDE DEF i
<1>5. Typed'
  <2>1. ScriptsTyped'
    BY <1>1, <1>2, <1>3 DEF Typed, ScriptsTyped
  <2>2. LinesTyped'
    BY <1>2, <1>4 DEF Typed, LinesTyped
  <2>3. SetsTyped'
    <3>1. {o \in {c} \X Elems(queue[c]) : Kind(o) = "marker"} \subseteq Obj
      BY <1>4 DEF Obj, Nums
    <3> QED
      BY <3>1 DEF Typed, SetsTyped
  <2>4. StatesTyped'
    BY DEF Typed, StatesTyped
  <2>5. StampsTyped'
    BY DEF Typed, StampsTyped
  <2>6. PassTyped'
    BY DEF Typed, PassTyped
  <2>7. BooksTyped'
    BY DEF Typed, BooksTyped
  <2>8. HwTyped'
    BY DEF Typed, HwTyped
  <2>9. PowerTyped'
    BY DEF Typed, PowerTyped
  <2> QED
    BY <2>1, <2>2, <2>3, <2>4, <2>5, <2>6, <2>7, <2>8, <2>9 DEF Typed
<1>6. LinesRight'
  <2>1. ListOrdered'
    BY DEF LinesRight, ListOrdered
  <2>2. ASSUME NEW d \in Ctx  PROVE LineRight(d)'
    <3>1. LineTyped(queue[d], hwq[d], Listed(d), InHand(d), added[d])
          /\ LineFits(queue[d], hwq[d], Listed(d), InHand(d), added[d])
      BY LinesAreTyped DEF LinesRight, LineRight
    <3>2. CASE d = c
      <4>1. LineFits(Append(queue[c], i), hwq[c], Listed(c), InHand(c), i)
        BY <1>1, <1>3, <3>1, <3>2, LineMoves
      <4>2. queue'[c] = Append(queue[c], i) /\ added'[c] = i
        BY <1>2 DEF Typed, ScriptsTyped, LinesTyped
      <4> QED
        BY <3>2, <4>1, <4>2 DEF LineRight, Listed, InHand
    <3>3. CASE d # c
      <4>1. queue'[d] = queue[d] /\ added'[d] = added[d]
        BY <1>2, <3>3 DEF Typed, ScriptsTyped, LinesTyped
      <4> QED
        BY <3>1, <4>1 DEF LineRight, Listed, InHand
    <3> QED
      BY <3>2, <3>3
  <2> QED
    BY <2>1, <2>2 DEF LinesRight
<1>7. PassRight'
  BY <1>2 DEF PassRight, Kind, Typed, StatesTyped
<1>8. PowerRight'
  BY DEF PowerRight
<1>9. ListAgrees'
  BY DEF ListAgrees, Kind
<1>10. IdleMeansDrained'
  BY DEF IdleMeansDrained
<1>11. CulpritRight'
  BY DEF CulpritRight
<1> QED
  BY <1>5, <1>6, <1>7, <1>8, <1>9, <1>10, <1>11

\* An object is popped, or the context left.
LEMMA PopRecords == ASSUME Records, NEW c \in Ctx, Pop(c)  PROVE Records'
<1> USE DEF Records, Pop, ctxs, stamps, lists, runs, books, hw, power, bounds
<1> DEFINE rest == Rest(c)
           at == At(c)
           goes == rest # <<>> /\ Goes(<<c, Head(rest)>>, at)
           o == <<c, Head(rest)>>
<1>1. rest \in Seq(Nums) /\ Increasing(rest) /\ Elems(rest) \subseteq Elems(queue[c])
  <2>1. queue[c] \in Seq(Nums) /\ Increasing(queue[c])
    BY DEF Typed, LinesTyped, LinesRight, LineRight, LineFits
  <2> QED
    BY <2>1, RestIs
<1>2. at \in 0 .. Length
  BY AtIs
<1>3. rest # <<>> => Head(rest) \in Nums /\ Tail(rest) \in Seq(Nums) /\ o \in Obj
  <2> SUFFICES ASSUME rest # <<>>  PROVE Head(rest) \in Nums /\ Tail(rest) \in Seq(Nums) /\ o \in Obj
    OBVIOUS
  <2>1. Head(rest) \in Nums /\ Tail(rest) \in Seq(Nums)
    BY <1>1, ElemsOf
  <2> QED
    BY <2>1 DEF Obj, Nums
<1>4. goes => /\ hand' = o /\ queue' = [queue EXCEPT ![c] = Tail(rest)]
              /\ expired' \in {expired, expired \cup {o}}
              /\ \E t \in {at, Head(rest)} : retired' = [retired EXCEPT ![c] = t]
              /\ UNCHANGED <<from, lists>>
  BY DEF Pop, Rest, At, Gone
<1>5. ~goes => /\ queue' = [queue EXCEPT ![c] = rest] /\ retired' = [retired EXCEPT ![c] = at]
               /\ from' = 0 /\ UNCHANGED <<hand, expired>>
               /\ \A S : jobs \in SUBSET S /\ requeue \in SUBSET S /\ c \in S =>
                        jobs' \in SUBSET S /\ requeue' \in SUBSET S
  BY DEF Pop, Rest, At, Gone
<1>6. from = c /\ hand = None
      /\ UNCHANGED <<ctxs, synced, signalled, owed, pending, holder, taken, sent, books, hw, power, bounds>>
  BY DEF Pop
<1>7. goes => (Kind(o) = "big" => big = None)
  BY DEF Goes, BigBlocks
<1>8. c # 0 /\ None \notin Obj
  BY NoneIsNone
<1> HIDE DEF rest, at, goes, o, Pop
<1>9. Typed'
  <2>1. ScriptsTyped'
    BY <1>6 DEF Typed, ScriptsTyped, ctxs, bounds
  <2>2. LinesTyped'
    <3>1. hwq \in [Ctx -> Seq(Nums)] /\ list \in Seq(Obj) /\ queue \in [Ctx -> Seq(Nums)]
      BY DEF Typed, LinesTyped
    <3>2. queue' \in [Ctx -> Seq(Nums)]
      <4>1. CASE goes
        BY <1>3, <1>4, <3>1, <4>1 DEF goes
      <4>2. CASE ~goes
        <5>1. queue' = [queue EXCEPT ![c] = rest]
          BY <1>5, <4>2
        <5> QED
          BY <1>1, <3>1, <5>1
      <4> QED
        BY <4>1, <4>2
    <3> QED
      BY <1>6, <3>1, <3>2 DEF LinesTyped
  <2>3. SetsTyped'
    <3>1. expired' \in SUBSET Obj
      BY <1>3, <1>4, <1>5 DEF goes, Typed, SetsTyped
    <3>2. jobs' \in SUBSET Ctx /\ requeue' \in SUBSET Ctx
      <4>1. CASE goes
        BY <1>4, <4>1 DEF Typed, SetsTyped
      <4>2. CASE ~goes
        BY <1>5, <4>2 DEF Typed, SetsTyped
      <4> QED
        BY <4>1, <4>2
    <3> QED
      BY <1>6, <3>1, <3>2 DEF Typed, SetsTyped
  <2>4. StatesTyped'
    BY <1>6 DEF Typed, StatesTyped
  <2>5. StampsTyped'
    <3>1. Head(rest) \in Nums => Head(rest) \in 0 .. Length
      BY DEF Nums
    <3>2. PICK t \in 0 .. Length : retired' = [retired EXCEPT ![c] = t]
      BY <1>2, <1>3, <1>4, <1>5, <3>1 DEF goes
    <3> QED
      BY <1>6, <3>2 DEF Typed, StampsTyped
  <2>6. PassTyped'
    BY <1>3, <1>4, <1>5, <1>6 DEF goes, Typed, PassTyped
  <2>7. BooksTyped'
    BY <1>6 DEF Typed, BooksTyped
  <2>8. HwTyped'
    BY <1>6 DEF Typed, HwTyped
  <2>9. PowerTyped'
    BY <1>6 DEF Typed, PowerTyped
  <2> QED
    BY <2>1, <2>2, <2>3, <2>4, <2>5, <2>6, <2>7, <2>8, <2>9 DEF Typed
<1>10. LinesRight'
  <2>1. ListOrdered'
    BY <1>6 DEF LinesRight, ListOrdered
  <2>2. ASSUME NEW d \in Ctx  PROVE LineRight(d)'
    <3>1. LineTyped(queue[d], hwq[d], Listed(d), InHand(d), added[d])
          /\ LineFits(queue[d], hwq[d], Listed(d), InHand(d), added[d])
      BY LinesAreTyped DEF LinesRight, LineRight
    <3>2. InHand(d) = {} /\ queue \in [Ctx -> Seq(Nums)]
      BY <1>6, <1>8 DEF InHand, Nums, None, Typed, LinesTyped
    <3>3. UNCHANGED <<hwq, list, added>>
      BY <1>6
    <3>4. CASE d = c
      <4>1. LineFits(rest, hwq[c], Listed(c), {}, added[c])
        BY <1>1, <3>1, <3>2, <3>4, LineShrinks
      <4>2. CASE goes
        <5>1. LineTyped(rest, hwq[c], Listed(c), {}, added[c])
          BY <1>1, <3>1, <3>4 DEF LineTyped
        <5>2. rest # <<>>
          BY <4>2 DEF goes
        <5>3. LineFits(Tail(rest), hwq[c], Listed(c), {Head(rest)}, added[c])
          BY <4>1, <5>1, <5>2, LineMoves
        <5>4. queue'[c] = Tail(rest) /\ InHand(c)' = {Head(rest)}
          BY <1>3, <1>4, <3>2, <4>2, <5>2 DEF InHand, o
        <5> QED
          BY <3>3, <3>4, <5>3, <5>4 DEF LineRight, Listed
      <4>3. CASE ~goes
        <5>1. queue'[c] = rest /\ InHand(c)' = {}
          BY <1>5, <3>2, <3>4, <4>3 DEF InHand
        <5> QED
          BY <3>3, <3>4, <4>1, <5>1 DEF LineRight, Listed
      <4> QED
        BY <4>2, <4>3
    <3>5. CASE d # c
      <4>1. queue'[d] = queue[d]
        BY <1>4, <1>5, <3>2, <3>5
      <4>2. InHand(d)' = {}
        BY <1>4, <1>5, <3>2, <3>5 DEF InHand, o
      <4> QED
        BY <3>1, <3>2, <3>3, <4>1, <4>2 DEF LineRight, Listed
    <3> QED
      BY <3>4, <3>5
  <2> QED
    BY <2>1, <2>2 DEF LinesRight
<1>11. PassRight'
  <2>1. CASE goes
    <3>1. hand' = o /\ o[1] = c /\ from' = c /\ (Kind(o) = "big" => big = None)
      BY <1>4, <1>6, <1>7, <2>1 DEF o
    <3>2. Kind(hand)' = Kind(o)
      BY <1>6, <3>1 DEF Kind
    <3> QED
      BY <1>6, <1>8, <3>1, <3>2 DEF PassRight
  <2>2. CASE ~goes
    BY <1>5, <1>6, <1>8, <2>2 DEF PassRight, Kind
  <2> QED
    BY <2>1, <2>2
<1>12. PowerRight'
  BY <1>6 DEF PowerRight
<1>13. ListAgrees'
  BY <1>6 DEF ListAgrees, Kind
<1>14. IdleMeansDrained'
  BY <1>6 DEF IdleMeansDrained
<1>15. CulpritRight'
  BY <1>6 DEF CulpritRight
<1> QED
  BY <1>9, <1>10, <1>11, <1>12, <1>13, <1>14, <1>15

\* A send is given up.
LEMMA SendAbortsRecords == ASSUME Records, SendAborts  PROVE Records'
<1> USE DEF Records, SendAborts, ctxs, stamps, lists, runs, books, hw, power, bounds
<1>1. hand # None /\ Back
  BY DEF Back
<1>2. UNCHANGED <<added, hwq, list, script, hwFence, fast, skip, state, thread, expired, retired,
                  synced, signalled, owed, holder, taken, sent, gmu, news, culprit, inflight, big,
                  active, gate, pm, halt, flush>>
  OBVIOUS
<1>3. queue' \in [Ctx -> Seq(Nums)] /\ jobs' \in SUBSET Ctx /\ requeue' \in SUBSET Ctx
      /\ hand' = None /\ from' = 0 /\ LinesRight'
  BY <1>1, <1>2, BackRight
<1>4. Typed'
  <2>1. ScriptsTyped'
    BY <1>2 DEF Typed, ScriptsTyped
  <2>2. LinesTyped'
    BY <1>2, <1>3 DEF Typed, LinesTyped
  <2>3. SetsTyped'
    BY <1>2, <1>3 DEF Typed, SetsTyped
  <2>4. StatesTyped'
    BY <1>2 DEF Typed, StatesTyped
  <2>5. StampsTyped'
    BY <1>2 DEF Typed, StampsTyped
  <2>6. PassTyped'
    BY <1>2, <1>3 DEF Typed, PassTyped
  <2>7. BooksTyped'
    BY DEF Typed, BooksTyped
  <2>8. HwTyped'
    BY DEF Typed, HwTyped
  <2>9. PowerTyped'
    BY DEF Typed, PowerTyped
  <2> QED
    BY <2>1, <2>2, <2>3, <2>4, <2>5, <2>6, <2>7, <2>8, <2>9 DEF Typed
<1>5. LinesRight'
  BY <1>3
<1>6. PassRight'
  <2> HIDE DEF SendAborts
  <2> QED
    BY <1>1, <1>2, <1>3 DEF PassRight, Kind
<1>7. PowerRight'
  BY DEF PowerRight
<1>8. ListAgrees'
  BY DEF ListAgrees, Kind
<1>9. IdleMeansDrained'
  BY DEF IdleMeansDrained
<1>10. CulpritRight'
  BY DEF CulpritRight
<1> QED
  BY <1>4, <1>5, <1>6, <1>7, <1>8, <1>9, <1>10

\* Power is refused.
LEMMA SendUnpoweredRecords == ASSUME Records, SendUnpowered  PROVE Records'
<1> USE DEF Records, SendUnpowered, May, ctxs, stamps, lists, runs, books, hw, power, bounds
<1>1. hand # None /\ Back
  BY DEF Back, MaySend
<1>2. UNCHANGED <<added, hwq, list, script, hwFence, fast, skip, state, thread, expired, retired,
                  synced, signalled, owed, holder, taken, sent, gmu, news, culprit, inflight, big,
                  active, gate, pm, halt, flush>>
  OBVIOUS
<1>3. queue' \in [Ctx -> Seq(Nums)] /\ jobs' \in SUBSET Ctx /\ requeue' \in SUBSET Ctx
      /\ hand' = None /\ from' = 0 /\ LinesRight'
  BY <1>1, <1>2, BackRight
<1>4. Typed'
  <2>1. ScriptsTyped'
    BY <1>2 DEF Typed, ScriptsTyped
  <2>2. LinesTyped'
    BY <1>2, <1>3 DEF Typed, LinesTyped
  <2>3. SetsTyped'
    BY <1>2, <1>3 DEF Typed, SetsTyped
  <2>4. StatesTyped'
    BY <1>2 DEF Typed, StatesTyped
  <2>5. StampsTyped'
    BY <1>2 DEF Typed, StampsTyped
  <2>6. PassTyped'
    BY <1>2, <1>3 DEF Typed, PassTyped
  <2>7. BooksTyped'
    BY DEF Typed, BooksTyped
  <2>8. HwTyped'
    BY DEF Typed, HwTyped
  <2>9. PowerTyped'
    BY DEF Typed, PowerTyped
  <2> QED
    BY <2>1, <2>2, <2>3, <2>4, <2>5, <2>6, <2>7, <2>8, <2>9 DEF Typed
<1>5. LinesRight'
  BY <1>3
<1>6. PassRight'
  <2> HIDE DEF SendUnpowered
  <2> QED
    BY <1>1, <1>2, <1>3 DEF PassRight, Kind
<1>7. PowerRight'
  BY DEF PowerRight
<1>8. ListAgrees'
  BY DEF ListAgrees, Kind
<1>9. IdleMeansDrained'
  BY DEF IdleMeansDrained
<1>10. CulpritRight'
  BY DEF CulpritRight
<1> QED
  BY <1>4, <1>5, <1>6, <1>7, <1>8, <1>9, <1>10

\* A send fails.
LEMMA SendFailsRecords == ASSUME Records, SendFails  PROVE Records'
<1> USE DEF Records, SendFails, May, Spend, ctxs, stamps, lists, runs, books, hw, power, bounds
<1>1. hand # None /\ Back
  BY DEF Back, MaySend
<1>2. UNCHANGED <<added, hwq, list, script, hwFence, fast, skip, state, thread, expired, retired,
                  synced, signalled, owed, holder, taken, sent, gmu, news, culprit, inflight, big,
                  active, gate, pm, halt, flush>>
  OBVIOUS
<1>3. queue' \in [Ctx -> Seq(Nums)] /\ jobs' \in SUBSET Ctx /\ requeue' \in SUBSET Ctx
      /\ hand' = None /\ from' = 0 /\ LinesRight'
  BY <1>1, <1>2, BackRight
<1>4. pm # "suspended" /\ ~fault
  BY DEF MaySend, Abort, PowerRight
<1>5. /\ inflight = 0 => powered' = FALSE
      /\ inflight # 0 => powered' = powered
      /\ awake \in BOOLEAN /\ awake' \in BOOLEAN /\ (awake => awake') /\ powered \in BOOLEAN
  <2>1. powered \in BOOLEAN /\ awake \in BOOLEAN
    BY DEF Typed, BooksTyped
  <2>2. /\ powered' = ((powered \/ NeedsPower) /\ ~DropsVote)
        /\ awake' = (awake \/ NeedsPower)
    OBVIOUS
  <2>3. NeedsPower = (inflight = 0 /\ ~powered) /\ DropsVote = (inflight = 0)
    BY DEF NeedsPower, DropsVote
  <2>4. (inflight = 0 => powered' = FALSE) /\ (inflight # 0 => powered' = powered)
    BY ONLY <2>1, <2>2, <2>3, Zenon
  <2>7. awake' \in BOOLEAN /\ (awake => awake')
    BY ONLY <2>1, <2>2, Zenon
  <2> QED
    BY <2>1, <2>4, <2>7
<1>6. (inflight = 0 => votes' = 0) /\ (inflight # 0 => votes' = votes)
  <2>1. votes = (IF powered THEN 1 ELSE 0) /\ powered \in BOOLEAN /\ votes \in 0 .. 1
    BY DEF ListAgrees, Typed, BooksTyped
  <2>2. votes' = votes + (IF NeedsPower THEN 1 ELSE 0) - (IF DropsVote THEN 1 ELSE 0)
    OBVIOUS
  <2>3. NeedsPower = (inflight = 0 /\ ~powered) /\ DropsVote = (inflight = 0)
    BY DEF NeedsPower, DropsVote
  <2>4. inflight = 0 => votes' = 0
    <3> SUFFICES ASSUME inflight = 0  PROVE votes' = 0
      OBVIOUS
    <3>1. votes' = votes + (IF ~powered THEN 1 ELSE 0) - 1
      BY ONLY <2>2, <2>3, inflight = 0
    <3> QED
      BY ONLY <2>1, <3>1
  <2>5. inflight # 0 => votes' = votes
    BY ONLY <2>1, <2>2, <2>3
  <2> QED
    BY <2>4, <2>5
<1>7. Typed'
  <2>1. ScriptsTyped'
    BY <1>2 DEF Typed, ScriptsTyped
  <2>2. LinesTyped'
    BY <1>2, <1>3 DEF Typed, LinesTyped
  <2>3. SetsTyped'
    BY <1>2, <1>3 DEF Typed, SetsTyped
  <2>4. StatesTyped'
    BY <1>2 DEF Typed, StatesTyped
  <2>5. StampsTyped'
    BY <1>2 DEF Typed, StampsTyped
  <2>6. PassTyped'
    BY <1>2, <1>3 DEF Typed, PassTyped
  <2>7. BooksTyped'
    <3>2. votes \in 0 .. 1 /\ powered \in BOOLEAN /\ inflight \in Nat /\ big \in Obj \cup {None}
          /\ active \in BOOLEAN /\ gate \in BOOLEAN
      BY DEF Typed, BooksTyped
    <3>1. votes' \in 0 .. 1
      BY ONLY <1>6, <3>2
    <3>3. powered' \in BOOLEAN
      BY ONLY <1>5, Zenon
    <3>4. awake' \in BOOLEAN
      BY <1>5
    <3> QED
      BY ONLY <1>2, <3>1, <3>2, <3>3, <3>4 DEF BooksTyped
  <2>8. HwTyped'
    BY DEF Typed, HwTyped
  <2>9. PowerTyped'
    BY DEF Typed, PowerTyped
  <2> QED
    BY <2>1, <2>2, <2>3, <2>4, <2>5, <2>6, <2>7, <2>8, <2>9 DEF Typed
<1>8. LinesRight'
  BY <1>3
<1>9. PassRight'
  <2> HIDE DEF SendFails
  <2> QED
    BY <1>1, <1>2, <1>3 DEF PassRight, Kind
<1>10. PowerRight'
  BY DEF PowerRight
<1>11. ListAgrees'
  <2>1. inflight' = Len(list') /\ active' = ~gate'
        /\ {o \in Elems(list') : Kind(o)' = "big"} = {big'} \ {None}
    BY <1>2 DEF ListAgrees, Kind
  <2>2. votes = (IF powered THEN 1 ELSE 0) /\ (inflight > 0 => powered /\ active) /\ inflight \in Nat
    BY DEF ListAgrees, Typed, BooksTyped
  <2>3. CASE inflight = 0
    <3>3. votes' = 0
      BY <1>6, <2>3
    <3>4. ~powered'
      BY <1>5, <2>3
    <3>1. votes' = IF powered' THEN 1 ELSE 0
      BY ONLY <3>3, <3>4
    <3>2. ~(inflight' > 0)
      BY <1>2, <2>3
    <3> QED
      BY <2>1, <3>1, <3>2 DEF ListAgrees
  <2>4. CASE inflight # 0
    <3>1. votes' = votes /\ powered' = powered /\ inflight' = inflight /\ active' = active
      BY ONLY <1>2, <1>5, <1>6, <2>4, Zenon
    <3> QED
      BY <2>1, <2>2, <3>1 DEF ListAgrees
  <2> QED
    BY <2>3, <2>4
<1>12. IdleMeansDrained'
  BY <1>2, <1>4 DEF IdleMeansDrained
<1>13. CulpritRight'
  <2>1. fault => fault'
    OBVIOUS
  <2>4. culprit # None => fault \/ "bad" \in news
    BY DEF CulpritRight
  <2>5. CulpritRight
    OBVIOUS
  <2>2. culprit # None => awake
    BY <1>4 DEF CulpritRight
  <2>3. culprit # None => awake' /\ (fault' \/ "bad" \in news)
    BY ONLY <1>5, <2>1, <2>2, <2>4, Zenon
  <2> QED
    BY ONLY <1>2, <2>2, <2>3, <2>5, Zenon DEF CulpritRight
<1> QED
  BY <1>7, <1>8, <1>9, <1>10, <1>11, <1>12, <1>13

\* An object goes to the GMU.
LEMMA SendRecords == ASSUME Records, Send  PROVE Records'
<1> USE DEF Records, Send, MaySend, ctxs, stamps, lists, runs, books, hw, power, bounds
<1>1. PICK c \in Ctx, x \in Nums : hand = <<c, x>>
  BY DEF Typed, PassTyped, Obj, Nums
<1>2. hand \in Obj /\ hand = <<c, x>> /\ hand[1] = c /\ hand[2] = x /\ ~fault /\ pm # "suspended"
  BY <1>1 DEF Obj, Nums, Abort, PowerRight
<1>3. UNCHANGED <<script, pending, hwFence, added, fast, skip, state, thread, queue, expired, retired,
                  synced, signalled, owed, jobs, requeue, holder, taken, from, gmu, news, fault,
                  culprit, pm, halt, flush, refused, left>>
  OBVIOUS
<1>4. hand' = None /\ sent' = TRUE /\ list' = Append(list, hand) /\ inflight' = inflight + 1
      /\ (hwq' = hwq \/ hwq' = [hwq EXCEPT ![c] = Append(hwq[c], x)])
      /\ big' = (IF Kind(hand) = "big" THEN hand ELSE big)
  BY <1>2
<1>5. queue \in [Ctx -> Seq(Nums)] /\ hwq \in [Ctx -> Seq(Nums)] /\ list \in Seq(Obj)
  BY DEF Typed, LinesTyped
<1>6. Append(hwq[c], x) \in Seq(Nums) /\ list' \in Seq(Obj) /\ Elems(list') = Elems(list) \cup {hand}
      /\ Len(list') = Len(list) + 1 /\ Len(list) \in Nat
      /\ (\A i \in 1 .. Len(list) : list'[i] = list[i]) /\ list'[Len(list) + 1] = hand
  <2>1. Append(hwq[c], x) \in Seq(Nums)
    BY <1>2, <1>5, AppendProperties
  <2>2. Append(list, hand) \in Seq(Obj) /\ Elems(Append(list, hand)) = Elems(list) \cup {hand}
        /\ <<hand>> \o list \in Seq(Obj) /\ Elems(<<hand>> \o list) = {hand} \cup Elems(list)
    <3>1. \A o \in Obj : /\ Append(list, o) \in Seq(Obj) /\ Elems(Append(list, o)) = Elems(list) \cup {o}
                          /\ <<o>> \o list \in Seq(Obj) /\ Elems(<<o>> \o list) = {o} \cup Elems(list)
      BY <1>5, ElemsOf
    <3> QED
      BY <1>2, <3>1
  <2>3. /\ Len(Append(list, hand)) = Len(list) + 1 /\ Len(list) \in Nat
        /\ \A i \in 1 .. Len(list) : Append(list, hand)[i] = list[i]
        /\ Append(list, hand)[Len(list) + 1] = hand
    BY <1>2, <1>5, AppendProperties, LenProperties
  <2> QED
    BY <1>4, <2>1, <2>2, <2>3
<1>7. InHand(c) = {x} /\ (\A d \in Ctx \ {c} : InHand(d) = {}) /\ \A d \in Ctx : InHand(d)' = {}
  <2>1. \A d \in Ctx : InHand(d)' = {}
    BY <1>4, NoneIsNone DEF InHand, Nums, None, Obj
  <2> QED
    BY <1>2, <2>1 DEF InHand
<1>8. Listed(c)' = Listed(c) \cup {x} /\ \A d \in Ctx \ {c} : Listed(d)' = Listed(d)
  BY <1>2, <1>6 DEF Listed
<1>9. /\ powered' = TRUE \/ (inflight # 0 /\ powered' = powered)
      /\ powered' \in BOOLEAN
      /\ votes' = votes + (IF NeedsPower THEN 1 ELSE 0)
      /\ NeedsPower = (inflight = 0 /\ ~powered)
      /\ awake' = (awake \/ NeedsPower) /\ powered' = (powered \/ NeedsPower)
      /\ active' = (active \/ inflight = 0) /\ gate' = (gate /\ (active \/ inflight # 0))
  <2>1. NeedsPower = (inflight = 0 /\ ~powered)
    BY DEF NeedsPower
  <2>2. /\ votes' = votes + (IF NeedsPower THEN 1 ELSE 0)
        /\ awake' = (awake \/ NeedsPower) /\ powered' = (powered \/ NeedsPower)
        /\ active' = (active \/ inflight = 0) /\ gate' = (gate /\ (active \/ inflight # 0))
    OBVIOUS
  <2>3. powered \in BOOLEAN
    BY DEF Typed, BooksTyped
  <2>4. powered' \in BOOLEAN /\ (powered' = TRUE \/ (inflight # 0 /\ powered' = powered))
    BY ONLY <2>1, <2>2, <2>3, Zenon
  <2> QED
    BY <2>1, <2>2, <2>4
<1>10. /\ powered \in BOOLEAN /\ awake \in BOOLEAN /\ active \in BOOLEAN /\ gate \in BOOLEAN
       /\ inflight \in Nat /\ inflight = Len(list) /\ active = ~gate
       /\ votes = (IF powered THEN 1 ELSE 0) /\ (inflight > 0 => powered /\ active)
       /\ (powered => awake) /\ (~awake => \A d \in Ctx : hwq[d] = <<>>)
  BY DEF ListAgrees, Typed, BooksTyped, PowerRight
<1>11. /\ powered' = TRUE /\ awake' = TRUE /\ active' = TRUE /\ gate' = FALSE
  <2>1. CASE inflight = 0
    <3>1. powered' = TRUE /\ awake' = TRUE /\ active' = TRUE /\ gate' = FALSE
      BY ONLY <1>9, <1>10, <2>1, Zenon
    <3> QED
      BY <3>1
  <2>2. CASE inflight # 0
    <3>1. powered = TRUE /\ active = TRUE
      BY ONLY <1>10, <2>2
    <3>2. powered' = TRUE /\ awake' = TRUE /\ active' = TRUE /\ gate' = FALSE /\ ~NeedsPower
      BY ONLY <1>9, <1>10, <2>2, <3>1, Zenon
    <3> QED
      BY <3>2
  <2> QED
    BY <2>1, <2>2
<1>12. votes' = 1
  <2>1. CASE inflight = 0
    <3>1. votes' = votes + (IF ~powered THEN 1 ELSE 0)
      BY ONLY <1>9, <2>1
    <3> QED
      BY ONLY <1>10, <3>1
  <2>2. CASE inflight # 0
    <3>1. powered = TRUE
      BY ONLY <1>10, <2>2
    <3>2. ~NeedsPower
      BY ONLY <1>9, <2>2, Zenon
    <3>3. votes' = votes + 0
      BY ONLY <1>9, <3>2
    <3> QED
      BY ONLY <1>10, <3>1, <3>3
  <2> QED
    BY <2>1, <2>2
<1> HIDE DEF Send
<1>13. Typed'
  <2>1. ScriptsTyped'
    BY <1>3 DEF Typed, ScriptsTyped
  <2>2. LinesTyped'
    BY <1>3, <1>4, <1>5, <1>6 DEF LinesTyped
  <2>3. SetsTyped'
    BY <1>3 DEF Typed, SetsTyped
  <2>4. StatesTyped'
    BY <1>3 DEF Typed, StatesTyped
  <2>5. StampsTyped'
    BY <1>3 DEF Typed, StampsTyped
  <2>6. PassTyped'
    BY <1>3, <1>4 DEF Typed, PassTyped
  <2>7. BooksTyped'
    <3>1. big \in Obj \cup {None} /\ inflight \in Nat
      BY DEF Typed, BooksTyped
    <3>2. inflight' \in Nat /\ big' \in Obj \cup {None} /\ votes' \in 0 .. 1
      BY <1>2, <1>4, <1>12, <3>1
    <3>3. powered' \in BOOLEAN /\ awake' \in BOOLEAN /\ active' \in BOOLEAN /\ gate' \in BOOLEAN
      BY ONLY <1>11, Zenon
    <3> QED
      BY <3>2, <3>3 DEF BooksTyped
  <2>8. HwTyped'
    BY <1>3 DEF Typed, HwTyped
  <2>9. PowerTyped'
    BY <1>3 DEF Typed, PowerTyped
  <2> QED
    BY <2>1, <2>2, <2>3, <2>4, <2>5, <2>6, <2>7, <2>8, <2>9 DEF Typed
<1>14. LinesRight'
  <2>1. ListOrdered'
    <3>1. Below(Listed(c), InHand(c)) /\ DOMAIN list = 1 .. Len(list) /\ DOMAIN list' = 1 .. Len(list) + 1
          /\ \A i \in DOMAIN list : list[i] \in Elems(list) /\ list[i] \in Obj
      BY <1>2, <1>5, <1>6, LenProperties, ElementOfSeq DEF LinesRight, LineRight, LineFits, Below, Elems
    <3>2. \A i \in DOMAIN list : list[i][1] = c => list[i][2] < x
      <4> SUFFICES ASSUME NEW i \in DOMAIN list, list[i][1] = c  PROVE list[i][2] < x
        OBVIOUS
      <4>1. list[i] = <<c, list[i][2]>> /\ list[i][2] \in Nums
        BY <3>1 DEF Obj, Nums
      <4>2. list[i][2] \in Listed(c)
        BY <3>1, <4>1 DEF Listed
      <4> QED
        BY <1>7, <3>1, <4>2 DEF Below
    <3>3. ASSUME NEW i \in DOMAIN list', NEW j \in DOMAIN list', i < j, list'[i][1] = list'[j][1]
          PROVE  list'[i][2] < list'[j][2]
      <4>1. i \in 1 .. Len(list) /\ list'[i] = list[i]
        BY <1>6, <3>1, <3>3
      <4>2. CASE j \in 1 .. Len(list)
        BY <1>6, <3>1, <3>3, <4>1, <4>2 DEF LinesRight, ListOrdered
      <4>3. CASE j = Len(list) + 1
        BY <1>2, <1>6, <3>1, <3>2, <3>3, <4>1, <4>3
      <4> QED
        BY <1>6, <3>1, <4>2, <4>3
    <3> QED
      BY <3>3 DEF ListOrdered
  <2>2. ASSUME NEW d \in Ctx  PROVE LineRight(d)'
    <3>1. LineTyped(queue[d], hwq[d], Listed(d), InHand(d), added[d])
          /\ LineFits(queue[d], hwq[d], Listed(d), InHand(d), added[d])
      BY LinesAreTyped DEF LinesRight, LineRight
    <3>2. CASE d = c
      <4>1. LineFits(queue[d], hwq[d], Listed(d) \cup {x}, {}, added[d])
            /\ LineFits(queue[d], Append(hwq[d], x), Listed(d) \cup {x}, {}, added[d])
            /\ LineFits(<<x>> \o queue[d], hwq[d], Listed(d), {}, added[d])
        BY <1>2, <1>7, <3>1, <3>2, LineMoves
      <4>2. hwq'[d] = hwq[d] \/ hwq'[d] = Append(hwq[d], x)
        BY <1>4, <1>5, <3>2
      <4> QED
        BY <1>3, <1>7, <1>8, <3>2, <4>1, <4>2 DEF LineRight
    <3>3. CASE d # c
      <4>1. hwq'[d] = hwq[d] /\ Listed(d)' = Listed(d) /\ InHand(d)' = {} /\ InHand(d) = {}
        BY <1>4, <1>5, <1>7, <1>8, <3>3
      <4> QED
        BY <1>3, <3>1, <4>1 DEF LineRight
    <3> QED
      BY <3>2, <3>3
  <2> QED
    BY <2>1, <2>2 DEF LinesRight
<1>15. PassRight'
  <2>1. holder = "free" => hand = None
    BY DEF PassRight
  <2>2. hand # None
    BY <1>2, NoneIsNone
  <2> QED
    BY <1>3, <1>4, <2>1, <2>2 DEF PassRight
<1>16. PowerRight'
  BY <1>3, <1>11 DEF PowerRight
<1>17. ListAgrees'
  <2>1. inflight' = Len(list')
    BY <1>4, <1>6, <1>10
  <2>2. {o \in Elems(list') : Kind(o)' = "big"} = {big'} \ {None}
    <3>1. {o \in Elems(list) : Kind(o) = "big"} = {big} \ {None} /\ hand # None
      BY <1>2, NoneIsNone DEF ListAgrees
    <3>2. Kind(hand) = "big" => big = None
      BY <3>1 DEF PassRight
    <3>3. \A o : Kind(o)' = Kind(o)
      BY <1>3 DEF Kind
    <3> QED
      BY <1>4, <1>6, <3>1, <3>2, <3>3
  <2> QED
    <3>1. votes' = IF powered' THEN 1 ELSE 0
      BY ONLY <1>11, <1>12, Zenon
    <3>2. (inflight' > 0 => powered' /\ active') /\ active' = ~gate'
      BY ONLY <1>11, Zenon
    <3> QED
      BY <2>1, <2>2, <3>1, <3>2 DEF ListAgrees
<1>18. IdleMeansDrained'
  BY <1>2, <1>3 DEF IdleMeansDrained
<1>19. CulpritRight'
  <2> SUFFICES ASSUME culprit # None
               PROVE  gmu = "stuck" /\ hwq'[culprit[1]] # <<>> /\ Head(hwq'[culprit[1]]) = culprit[2]
                      /\ (fault \/ "bad" \in news)
    BY <1>3, <1>11 DEF CulpritRight
  <2> DEFINE d == culprit[1]
  <2>1. gmu = "stuck" /\ hwq[d] # <<>> /\ Head(hwq[d]) = culprit[2] /\ (fault \/ "bad" \in news)
    BY <1>2 DEF CulpritRight
  <2>2. d \in Ctx
    BY DEF Typed, HwTyped, Obj
  <2> HIDE DEF d
  <2>3. hwq'[d] = hwq[d] \/ hwq'[d] = Append(hwq[d], x)
    BY <1>4, <1>5, <2>2
  <2>4. Append(hwq[d], x) # <<>> /\ Head(Append(hwq[d], x)) = Head(hwq[d])
    BY <1>2, <1>5, <2>1, <2>2, HeadKept
  <2> QED
    BY <2>1, <2>3, <2>4 DEF d
<1> QED
  BY <1>13, <1>14, <1>15, <1>16, <1>17, <1>18, <1>19

\* The GMU executes an object.
LEMMA ExecuteRecords == ASSUME Records, NEW c \in Ctx, Execute(c)  PROVE Records'
<1> USE DEF Records, Execute, ctxs, stamps, lists, runs, books, hw, power, bounds
<1>1. hwq \in [Ctx -> Seq(Nums)] /\ hwq[c] # <<>>
  BY DEF Typed, LinesTyped
<1>2. hwq[c] \in Seq(Nums) /\ Head(hwq[c]) \in Nums /\ Tail(hwq[c]) \in Seq(Nums)
      /\ Elems(Tail(hwq[c])) \subseteq Elems(hwq[c]) /\ Increasing(Tail(hwq[c]))
  <2>1. Increasing(hwq[c]) /\ hwq[c] \in Seq(Nums)
    BY <1>1 DEF LinesRight, LineRight, LineFits
  <2>2. Head(hwq[c]) \in Nums /\ Tail(hwq[c]) \in Seq(Nums)
        /\ Elems(hwq[c]) = {Head(hwq[c])} \cup Elems(Tail(hwq[c]))
    BY <1>1, <2>1, ElemsOf
  <2> QED
    BY <1>1, <2>1, <2>2, IncreasingOf
<1>3. awake /\ pm # "suspended"
  BY <1>1 DEF PowerRight, IdleMeansDrained
<1>4. hwq' = [hwq EXCEPT ![c] = Tail(hwq[c])]
      /\ (\/ retired' = retired /\ \E t \in Nums : synced' = [synced EXCEPT ![c] = t]
          \/ synced' = synced /\ \E t \in Nums : retired' = [retired EXCEPT ![c] = t])
      /\ news' \in {news, news \cup {"retire"}} /\ gmu = "runs"
  BY <1>2
<1>5. UNCHANGED <<script, hwFence, added, fast, skip, state, thread, queue, expired,
                  signalled, owed, jobs, requeue, holder, taken, from, hand, sent, gmu, fault,
                  list, inflight, big, powered, active, gate, votes, awake,
                  culprit, pm, halt, flush, refused, left>> /\ pending' \in {pending, TRUE}
  OBVIOUS
<1> HIDE DEF Execute
<1>6. Typed'
  <2>1. ScriptsTyped'
    BY <1>5 DEF Typed, ScriptsTyped
  <2>2. LinesTyped'
    BY <1>1, <1>2, <1>4, <1>5 DEF Typed, LinesTyped
  <2>3. SetsTyped'
    BY <1>5 DEF Typed, SetsTyped
  <2>4. StatesTyped'
    BY <1>5 DEF Typed, StatesTyped
  <2>5. StampsTyped'
    <3>1. \A t \in Nums : t \in 0 .. Length
      BY HwschedAssumption DEF Nums
    <3>2. retired \in [Ctx -> 0 .. Length] /\ synced \in [Ctx -> 0 .. Length]
      BY DEF Typed, StampsTyped
    <3> QED
      BY <1>4, <3>1, <3>2 DEF StampsTyped
  <2>6. PassTyped'
    BY <1>5 DEF Typed, PassTyped
  <2>7. BooksTyped'
    BY <1>5 DEF Typed, BooksTyped
  <2>8. HwTyped'
    BY <1>4, <1>5 DEF Typed, HwTyped
  <2>9. PowerTyped'
    BY <1>5 DEF Typed, PowerTyped
  <2> QED
    BY <2>1, <2>2, <2>3, <2>4, <2>5, <2>6, <2>7, <2>8, <2>9 DEF Typed
<1>7. LinesRight'
  <2>1. ListOrdered'
    BY <1>5 DEF LinesRight, ListOrdered
  <2>2. ASSUME NEW d \in Ctx  PROVE LineRight(d)'
    <3>1. LineTyped(queue[d], hwq[d], Listed(d), InHand(d), added[d])
          /\ LineFits(queue[d], hwq[d], Listed(d), InHand(d), added[d])
      BY LinesAreTyped DEF LinesRight, LineRight
    <3>2. CASE d = c
      <4>1. LineFits(queue[d], Tail(hwq[d]), Listed(d), InHand(d), added[d])
        BY <1>2, <3>1, <3>2, LineShrinks
      <4>2. hwq'[d] = Tail(hwq[d])
        BY <1>1, <1>4, <3>2
      <4> QED
        BY <1>5, <4>1, <4>2 DEF LineRight, Listed, InHand
    <3>3. CASE d # c
      <4>1. hwq'[d] = hwq[d]
        BY <1>1, <1>4, <3>3
      <4> QED
        BY <1>5, <3>1, <4>1 DEF LineRight, Listed, InHand
    <3> QED
      BY <3>2, <3>3
  <2> QED
    BY <2>1, <2>2 DEF LinesRight
<1>8. PassRight'
  BY <1>5 DEF PassRight, Kind
<1>9. PowerRight'
  BY <1>3, <1>5 DEF PowerRight
<1>10. ListAgrees'
  BY <1>5 DEF ListAgrees, Kind
<1>11. IdleMeansDrained'
  BY <1>3, <1>5 DEF IdleMeansDrained
<1>12. CulpritRight'
  BY <1>3, <1>4, <1>5 DEF CulpritRight
<1> QED
  BY <1>6, <1>7, <1>8, <1>9, <1>10, <1>11, <1>12

-----------------------------------------------------------------------------
(* The list is shortened: by retirement and by recovery.                   *)

\* The list has each object once.
LEMMA ListOnce ==
    ASSUME list \in Seq(Obj), ListOrdered
    PROVE  \A i, j \in DOMAIN list : list[i] = list[j] => i = j
<1> SUFFICES ASSUME NEW i \in DOMAIN list, NEW j \in DOMAIN list, list[i] = list[j], i # j
             PROVE  FALSE
  OBVIOUS
<1>1. list[i] \in Obj /\ i \in Nat /\ j \in Nat
  BY ElementOfSeq, LenProperties
<1>2. list[i][2] \in Nat
  BY <1>1, HwschedAssumption DEF Obj
<1>3. i < j \/ j < i
  BY <1>1
<1>4. list[i][2] < list[i][2]
  BY <1>3 DEF ListOrdered
<1> QED
  BY <1>2, <1>4

\* As many objects are on the list as it is long, also once some are gone.
LEMMA ListLength ==
    ASSUME list \in Seq(Obj), ListOrdered, NEW S \in SUBSET Elems(list)
    PROVE  /\ IsFiniteSet(Elems(list)) /\ Cardinality(Elems(list)) = Len(list)
           /\ Cardinality(Places(list, S)) = Cardinality(S)
<1>1. DOMAIN list = 1 .. Len(list) /\ Len(list) \in Nat /\ IsFiniteSet(1 .. Len(list))
      /\ Cardinality(1 .. Len(list)) = Len(list)
  BY LenProperties, FS_Interval
<1>2. ASSUME NEW T \in SUBSET Elems(list)
      PROVE  IsFiniteSet(T) /\ Cardinality(Places(list, T)) = Cardinality(T)
  <2> DEFINE K == Places(list, T)
             f == [i \in K |-> list[i]]
  <2>1. IsFiniteSet(K)
    <3>1. K \subseteq 1 .. Len(list)
      BY <1>1 DEF Places
    <3> QED
      BY <1>1, <3>1, FS_Subset
  <2>2. f \in Bijection(K, T)
    <3>1. f \in [K -> T] /\ \A i \in K : f[i] = list[i] /\ i \in DOMAIN list
      BY DEF Places
    <3>2. \A i, j \in K : f[i] = f[j] => i = j
      BY <3>1, ListOnce
    <3>3. \A t \in T : \E i \in K : f[i] = t
      BY <3>1 DEF Places, Elems
    <3> QED
      BY <3>1, <3>2, <3>3 DEF Bijection, Injection, Surjection, IsInjective
  <2> QED
    BY <2>1, <2>2, FS_Bijection DEF ExistsBijection
<1>3. Places(list, Elems(list)) = 1 .. Len(list)
  BY <1>1 DEF Places, Elems
<1> QED
  BY <1>1, <1>2, <1>3

\* What retirement and recovery do to the list and to what is counted of it.
LEMMA ListRetires ==
    ASSUME list \in Seq(Obj), ListOrdered, inflight = Len(list),
           NEW S \in SUBSET Elems(list), Retires(S)
    PROVE  /\ list' \in Seq(Obj) /\ inflight' \in Nat /\ inflight' = Len(list')
           /\ inflight' <= inflight /\ ListOrdered'
           /\ Elems(list') = Elems(list) \ S
<1> DEFINE E == Elems(list)
           T == E \ S
<1>1. PICK g : Origin(list, T, g)
  BY OnlyKeeps
<1>2. list' = Only(list, T) /\ inflight' = inflight - Cardinality(E \cap S)
  BY DEF Retires, Keeps, Counted
<1>3. list' \in Seq(Obj)
  BY <1>2, OnlyKeeps
<1>4. IsFiniteSet(E) /\ Cardinality(E) = Len(list) /\ Cardinality(Places(list, T)) = Cardinality(T)
  BY ListLength
<1> HIDE DEF E
<1>5. Cardinality(E \ S) = Cardinality(E) - Cardinality(E \cap S)
  BY <1>4, FS_Difference
<1>6. E \cap S = S /\ Cardinality(S) \in Nat /\ Cardinality(E) \in Nat /\ Cardinality(E \ S) \in Nat
  <2>1. IsFiniteSet(S) /\ IsFiniteSet(E \ S)
    BY <1>4, FS_Subset DEF E
  <2>2. E \cap S = S
    BY DEF E
  <2> QED
    BY <1>4, <2>1, <2>2, FS_CardinalityType
<1>7. Len(list') = Cardinality(T) /\ inflight' = Len(list')
  <2>1. Len(list') = Cardinality(T)
    BY <1>1, <1>2, <1>4 DEF Origin
  <2> QED
    BY <1>2, <1>4, <1>5, <2>1
<1>8. ListOrdered'
  <2> SUFFICES ASSUME NEW i \in DOMAIN list', NEW j \in DOMAIN list', i < j, list'[i][1] = list'[j][1]
               PROVE  list'[i][2] < list'[j][2]
    BY DEF ListOrdered
  <2>1. g[i] \in DOMAIN list /\ g[j] \in DOMAIN list /\ g[i] < g[j]
        /\ list'[i] = list[g[i]] /\ list'[j] = list[g[j]]
    BY <1>1, <1>2 DEF Origin
  <2> QED
    BY <2>1 DEF ListOrdered
<1>9. Elems(list') = T
  <2>1. \A n \in DOMAIN list' : list'[n] \in T
    BY <1>1, <1>2 DEF Origin
  <2>2. ASSUME NEW o \in T  PROVE o \in Elems(list')
    <3>1. PICK i \in DOMAIN list : list[i] = o
      BY DEF E, Elems
    <3>2. PICK n \in DOMAIN list' : g[n] = i
      BY <1>1, <1>2, <2>2, <3>1 DEF Origin
    <3>3. list'[n] = o
      BY <1>1, <1>2, <3>1, <3>2 DEF Origin
    <3> QED
      BY <3>3 DEF Elems
  <2> QED
    BY <2>1, <2>2 DEF Elems
<1>10. inflight' \in Nat /\ inflight' <= inflight
  <2>1. inflight' = Cardinality(E) - Cardinality(S)
    BY <1>2, <1>4, <1>6
  <2>2. inflight' = Cardinality(E \ S)
    BY <1>2, <1>4, <1>5
  <2> QED
    BY <1>4, <1>6, <2>1, <2>2
<1> QED
  BY <1>3, <1>7, <1>8, <1>9, <1>10 DEF E

\* ... and the large object in flight stays known.
LEMMA BookRetires ==
    ASSUME Records, NEW S \in SUBSET Elems(list), Retires(S),
           UNCHANGED <<script, votes, powered, active, gate>>
    PROVE  /\ list' \in Seq(Obj) /\ inflight' \in Nat /\ big' \in Obj \cup {None}
           /\ inflight' <= inflight /\ ListOrdered' /\ Elems(list') = Elems(list) \ S /\ ListAgrees'
<1> USE DEF Records, LinesRight
<1>1. list \in Seq(Obj) /\ big \in Obj \cup {None} /\ inflight \in Nat
  BY DEF Typed, LinesTyped, BooksTyped
<1>2. /\ list' \in Seq(Obj) /\ inflight' \in Nat /\ inflight' = Len(list')
      /\ inflight' <= inflight /\ ListOrdered'
      /\ Elems(list') = Elems(list) \ S
  BY <1>1, ListRetires DEF ListAgrees
<1>3. big' = (IF big \in S THEN None ELSE big)
  BY DEF Retires
<1>4. {o \in Elems(list') : Kind(o)' = "big"} = {big'} \ {None}
  <2>1. {o \in Elems(list) : Kind(o) = "big"} = {big} \ {None}
    BY DEF ListAgrees
  <2>2. \A o : Kind(o)' = Kind(o)
    BY DEF Kind
  <2>3. None \notin Elems(list)
    BY <1>1, ElemsOf, NoneIsNone
  <2> QED
    BY <1>2, <1>3, <2>1, <2>2, <2>3
<1>5. inflight' > 0 => powered' /\ active'
  BY <1>1, <1>2 DEF ListAgrees
<1> QED
  BY <1>1, <1>2, <1>3, <1>4, <1>5 DEF ListAgrees

\* What is replayed of a context is in order.
LEMMA AgainIs ==
    ASSUME list \in Seq(Obj), ListOrdered, NEW c \in Ctx, NEW S
    PROVE  /\ Again(c, S) \in Seq(Nums) /\ Increasing(Again(c, S))
           /\ Elems(Again(c, S)) = {i \in Nums : <<c, i>> \in Elems(list) \ S}
<1> DEFINE T == {o \in Elems(list) \ S : o[1] = c}
           r == Only(list, T)
           s == Again(c, S)
<1>1. PICK g : Origin(list, T, g)
  BY OnlyKeeps
<1>2. r \in Seq(Obj)
  BY OnlyKeeps
<1>3. s = [i \in DOMAIN r |-> r[i][2]]
  BY DEF Again
<1>4. DOMAIN r = 1 .. Len(r) /\ Len(r) \in Nat
  BY <1>2, LenProperties
<1>5. \A i \in DOMAIN r : r[i] \in T /\ r[i] \in Obj /\ s[i] = r[i][2] /\ r[i] = <<c, s[i]>> /\ s[i] \in Nums
  <2> SUFFICES ASSUME NEW i \in DOMAIN r
               PROVE  r[i] \in T /\ r[i] \in Obj /\ s[i] = r[i][2] /\ r[i] = <<c, s[i]>> /\ s[i] \in Nums
    OBVIOUS
  <2>1. r[i] \in T /\ s[i] = r[i][2]
    BY <1>1, <1>3 DEF Origin
  <2> HIDE DEF r, s
  <2>2. r[i] \in Obj
    BY <1>2, <1>4, ElementOfSeq
  <2> QED
    BY <2>1, <2>2 DEF Obj, Nums
<1> HIDE DEF r
<1>6. s \in Seq(Nums) /\ DOMAIN s = DOMAIN r
  <2>1. DOMAIN s = 1 .. Len(r) /\ s \in [1 .. Len(r) -> Nums]
    BY <1>3, <1>4, <1>5
  <2> QED
    BY <1>4, <2>1, IsASeq
<1> USE DEF r
<1>7. Increasing(s)
  <2> SUFFICES ASSUME NEW i \in DOMAIN s, NEW j \in DOMAIN s, i < j  PROVE s[i] < s[j]
    BY DEF Increasing
  <2>1. g[i] \in DOMAIN list /\ g[j] \in DOMAIN list /\ g[i] < g[j]
        /\ r[i] = list[g[i]] /\ r[j] = list[g[j]]
    BY <1>1, <1>6 DEF Origin
  <2>2. r[i][1] = r[j][1]
    BY <1>5, <1>6
  <2>3. r[i][2] < r[j][2]
    BY <2>1, <2>2 DEF ListOrdered
  <2> QED
    BY <1>5, <1>6, <2>3
<1>8. Elems(s) = {i \in Nums : <<c, i>> \in Elems(list) \ S}
  <2>1. \A n \in DOMAIN s : s[n] \in Nums /\ <<c, s[n]>> \in Elems(list) \ S
    BY <1>5, <1>6
  <2>2. ASSUME NEW i \in Nums, <<c, i>> \in Elems(list) \ S  PROVE i \in Elems(s)
    <3>1. <<c, i>> \in T
      BY <2>2
    <3>2. PICK k \in DOMAIN list : list[k] = <<c, i>>
      BY <2>2 DEF Elems
    <3>3. PICK n \in DOMAIN r : g[n] = k
      BY <1>1, <3>1, <3>2 DEF Origin
    <3>4. r[n] = <<c, i>>
      BY <1>1, <3>2, <3>3 DEF Origin
    <3>5. s[n] = i /\ n \in DOMAIN s
      BY <1>5, <1>6, <3>3, <3>4
    <3> QED
      BY <3>5 DEF Elems
  <2> QED
    BY <2>1, <2>2 DEF Elems
<1> QED
  BY <1>6, <1>7, <1>8

\* What a recovery leaves: lines and queues that are those of before or shorter,
\* and books that agree.
Mends ==
    /\ retired' \in [Ctx -> 0 .. Length] /\ synced' \in [Ctx -> 0 .. Length]
    /\ state' \in [Ctx -> {"ok", "invalid", "detached", "gone"}]
    /\ queue' \in [Ctx -> Seq(Nums)] /\ hwq' \in [Ctx -> Seq(Nums)]
    /\ list' \in Seq(Obj) /\ inflight' \in Nat /\ big' \in Obj \cup {None}
    /\ ListAgrees' /\ ListOrdered' /\ Elems(list') \subseteq Elems(list)
    /\ \A d \in Ctx : /\ queue'[d] \in {queue[d], <<>>}
                      /\ Increasing(hwq'[d])
                      /\ Elems(hwq'[d]) \subseteq Elems(hwq[d]) \cup Listed(d)

Kept == /\ state' \in [Ctx -> {"ok", "invalid", "detached", "gone"}]
        /\ queue' \in [Ctx -> Seq(Nums)] /\ \A d \in Ctx : queue'[d] \in {queue[d], <<>>}

\* A guilty context loses its queue and nothing else changes in the lines.
LEMMA GuiltyKeeps ==
    ASSUME Typed, NotGuilty \/ \E c \in Ctx : Guilty(c)
    PROVE  Kept
<1>1. queue \in [Ctx -> Seq(Nums)] /\ state \in [Ctx -> {"ok", "invalid", "detached", "gone"}]
  BY DEF Typed, LinesTyped, StatesTyped
<1>2. CASE NotGuilty
  BY <1>1, <1>2 DEF NotGuilty, Kept
<1>3. CASE \E c \in Ctx : Guilty(c)
  <2>1. PICK c \in Ctx : Guilty(c)
    BY <1>3
  <2>2. state' \in [Ctx -> {"ok", "invalid", "detached", "gone"}]
    BY <1>1, <2>1 DEF Guilty
  <2>3. queue' = [queue EXCEPT ![c] = <<>>]
    BY <2>1 DEF Guilty
  <2> QED
    BY <1>1, <2>2, <2>3, EmptyRight DEF Kept
<1> QED
  BY <1>2, <1>3

\* The culprit that is found is an object of the list.
LEMMA FoundIs ==
    ASSUME Typed, Found
    PROVE  culprit \in Elems(list) /\ culprit \in Obj /\ culprit[1] \in Ctx /\ culprit[2] \in 0 .. Length
<1>1. culprit \in Elems(list) /\ list \in Seq(Obj)
  BY DEF Found, Typed, LinesTyped
<1>2. culprit \in Obj
  BY <1>1, ElemsOf
<1> QED
  BY <1>1, <1>2, HwschedAssumption DEF Obj

\* Only what is on the list is dropped.
LEMMA DroppedIs == \A ts, bad : Dropped(ts, bad) \in SUBSET Elems(list)
BY DEF Dropped

\* A hard reset: the list is replayed.
LEMMA HardMends ==
    ASSUME Records, NEW guilty \in BOOLEAN, NEW forced \in BOOLEAN, guilty => Found,
           HardReset(guilty, forced), UNCHANGED <<script, votes, powered, active, gate>>
    PROVE  Mends
<1> DEFINE ts == IF guilty THEN [retired EXCEPT ![culprit[1]] = added[culprit[1]]]
                 ELSE IF Found /\ forced THEN [retired EXCEPT ![culprit[1]] = culprit[2]]
                 ELSE retired
<1>1. Typed /\ LinesRight
  BY DEF Records
<1>2. PICK S \in SUBSET Elems(list) : Retires(S) /\ hwq' = [d \in Ctx |-> Again(d, S)]
  BY DroppedIs DEF HardReset
<1>3. retired' = ts /\ synced' = synced
  BY DEF HardReset
<1>4. Kept
  BY <1>1, FoundIs, GuiltyKeeps DEF HardReset
<1>5. /\ list' \in Seq(Obj) /\ inflight' \in Nat /\ big' \in Obj \cup {None}
      /\ ListOrdered' /\ Elems(list') = Elems(list) \ S /\ ListAgrees'
  BY <1>2, BookRetires
<1>6. retired \in [Ctx -> 0 .. Length] /\ synced \in [Ctx -> 0 .. Length] /\ added \in [Ctx -> 0 .. Length]
  BY <1>1 DEF Typed, StampsTyped, ScriptsTyped
<1>7. ts \in [Ctx -> 0 .. Length]
  BY <1>1, <1>6, FoundIs
<1>8. \A d \in Ctx : /\ hwq'[d] \in Seq(Nums) /\ Increasing(hwq'[d])
                     /\ Elems(hwq'[d]) \subseteq Listed(d)
  <2> SUFFICES ASSUME NEW d \in Ctx
               PROVE  /\ hwq'[d] \in Seq(Nums) /\ Increasing(hwq'[d])
                      /\ Elems(hwq'[d]) \subseteq Listed(d)
    OBVIOUS
  <2>1. hwq'[d] = Again(d, S)
    BY <1>2
  <2>2. list \in Seq(Obj) /\ ListOrdered
    BY <1>1 DEF Typed, LinesTyped, LinesRight
  <2>3. /\ Again(d, S) \in Seq(Nums) /\ Increasing(Again(d, S))
        /\ Elems(Again(d, S)) = {i \in Nums : <<d, i>> \in Elems(list) \ S}
    BY <2>2, AgainIs
  <2> QED
    BY <2>1, <2>3 DEF Listed
<1>9. hwq' \in [Ctx -> Seq(Nums)]
  <2>1. hwq' = [d \in Ctx |-> hwq'[d]]
    BY <1>2
  <2> QED
    BY <1>8, <2>1
<1> HIDE DEF ts
<1> QED
  BY <1>3, <1>4, <1>5, <1>6, <1>7, <1>8, <1>9 DEF Mends, Kept

\* A soft reset: the GMU keeps its queues.
LEMMA SoftMends ==
    ASSUME Records, awake, NEW guilty \in BOOLEAN, NEW forced \in BOOLEAN,
           SoftReset(guilty, forced), UNCHANGED <<script, votes, powered, active, gate>>
    PROVE  Mends
<1>1. Typed /\ LinesRight /\ Found
  BY DEF Records, SoftReset
<1>2. PICK c \in Ctx, x \in 0 .. Length : culprit = <<c, x>> /\ culprit[1] = c /\ culprit[2] = x /\ hwq[c] # <<>>
  <2>1. culprit \in Obj /\ culprit[1] \in Ctx /\ culprit[2] \in 0 .. Length /\ culprit # None
    BY <1>1, FoundIs, NoneIsNone
  <2>2. culprit = <<culprit[1], culprit[2]>>
    BY <2>1 DEF Obj
  <2>3. hwq[culprit[1]] # <<>>
    BY <2>1 DEF Records, CulpritRight
  <2> QED
    BY <2>1, <2>2, <2>3
<1>3. PICK S \in SUBSET Elems(list) : Retires(S)
  BY DroppedIs DEF SoftReset
<1>4. Kept
  BY <1>1, <1>2, GuiltyKeeps DEF SoftReset
<1>5. /\ list' \in Seq(Obj) /\ inflight' \in Nat /\ big' \in Obj \cup {None}
      /\ ListOrdered' /\ Elems(list') = Elems(list) \ S /\ ListAgrees'
  BY <1>3, BookRetires
<1>6. retired \in [Ctx -> 0 .. Length] /\ synced \in [Ctx -> 0 .. Length] /\ added \in [Ctx -> 0 .. Length]
      /\ hwq \in [Ctx -> Seq(Nums)]
  BY <1>1 DEF Typed, StampsTyped, ScriptsTyped, LinesTyped
<1>7. PICK ts \in [Ctx -> 0 .. Length] :
        \/ retired' = [ts EXCEPT ![c] = added[c]] /\ synced' = [synced EXCEPT ![c] = added[c]]
        \/ retired' = ts /\ synced' = synced
  <2>1. (IF forced THEN [retired EXCEPT ![culprit[1]] = culprit[2]] ELSE retired) \in [Ctx -> 0 .. Length]
    BY <1>2, <1>6
  <2> QED
    BY <1>2, <2>1 DEF SoftReset
<1>8. retired' \in [Ctx -> 0 .. Length] /\ synced' \in [Ctx -> 0 .. Length]
  BY <1>6, <1>7
<1>9. hwq' = hwq \/ hwq' = [hwq EXCEPT ![c] = <<>>] \/ hwq' = [hwq EXCEPT ![c] = Tail(hwq[c])]
  BY <1>2 DEF SoftReset
<1>10. Tail(hwq[c]) \in Seq(Nums) /\ Increasing(Tail(hwq[c])) /\ Elems(Tail(hwq[c])) \subseteq Elems(hwq[c])
       /\ \A d \in Ctx : Increasing(hwq[d])
  <2>1. \A d \in Ctx : hwq[d] \in Seq(Nums) /\ Increasing(hwq[d])
    BY <1>1, <1>6 DEF LinesRight, LineRight, LineFits
  <2>2. Tail(hwq[c]) \in Seq(Nums) /\ Elems(hwq[c]) = {Head(hwq[c])} \cup Elems(Tail(hwq[c]))
    BY <1>2, <2>1, ElemsOf
  <2>3. Increasing(Tail(hwq[c]))
    BY <1>2, <2>1, IncreasingOf
  <2> QED
    BY <2>1, <2>2, <2>3
<1>11. hwq' \in [Ctx -> Seq(Nums)]
  BY <1>6, <1>9, <1>10, EmptyRight
<1>12. ASSUME NEW d \in Ctx
       PROVE  Increasing(hwq'[d]) /\ Elems(hwq'[d]) \subseteq Elems(hwq[d])
  <2>1. hwq'[d] = hwq[d] \/ hwq'[d] = <<>> \/ (d = c /\ hwq'[d] = Tail(hwq[d]))
    BY <1>6, <1>9
  <2> QED
    BY <1>10, <2>1, EmptyRight
<1> QED
  BY <1>4, <1>5, <1>8, <1>11, <1>12 DEF Mends, Kept

\* No reset: the books and the GMU are as before.
LEMMA StillMends ==
    ASSUME Records, Kept, retired' \in [Ctx -> 0 .. Length],
           UNCHANGED <<synced, list, inflight, big, hwq, script, votes, powered, active, gate>>
    PROVE  Mends
<1>1. synced' \in [Ctx -> 0 .. Length] /\ hwq' \in [Ctx -> Seq(Nums)] /\ list' \in Seq(Obj)
      /\ inflight' \in Nat /\ big' \in Obj \cup {None}
  BY DEF Records, Typed, StampsTyped, LinesTyped, BooksTyped
<1>2. ListAgrees'
  BY DEF Records, ListAgrees, Kind
<1>3. ListOrdered' /\ Elems(list') \subseteq Elems(list)
  BY DEF Records, LinesRight, ListOrdered
<1>4. \A d \in Ctx : Increasing(hwq'[d]) /\ Elems(hwq'[d]) \subseteq Elems(hwq[d]) \cup Listed(d)
  BY DEF Records, LinesRight, LineRight, LineFits
<1> QED
  BY <1>1, <1>2, <1>3, <1>4 DEF Mends, Kept

\* What has retired leaves the list, and a pass begins.
LEMMA WorkStartsRecords == ASSUME Records, WorkStarts  PROVE Records'
<1> USE DEF Records, WorkStarts, Took, ctxs, stamps, lists, runs, books, hw, power, bounds
<1>1. PICK S \in SUBSET Elems(list) : Retires(S)
  <2>1. {o \in Elems(list) : Retired(o)} \in SUBSET Elems(list)
    OBVIOUS
  <2> QED
    BY <2>1
<1>2. UNCHANGED <<script, hwFence, added, fast, skip, state, thread, queue, expired, retired,
                  synced, signalled, owed, from, hand, sent, powered, active, gate, votes, awake,
                  hwq, gmu, news, fault, culprit, pm, halt, flush, refused, left>>
      /\ holder = "free" /\ holder' = "work" /\ taken' = jobs \cup requeue /\ jobs' = {} /\ requeue' = {}
      /\ pending' = FALSE
  OBVIOUS
<1>3. /\ list' \in Seq(Obj) /\ inflight' \in Nat /\ big' \in Obj \cup {None}
      /\ inflight' <= inflight /\ ListOrdered' /\ Elems(list') = Elems(list) \ S /\ ListAgrees'
  BY <1>1, <1>2, BookRetires
<1> HIDE DEF WorkStarts
<1>4. Typed'
  <2>1. ScriptsTyped'
    BY <1>2 DEF Typed, ScriptsTyped
  <2>2. LinesTyped'
    BY <1>2, <1>3 DEF Typed, LinesTyped
  <2>3. SetsTyped'
    BY <1>2 DEF Typed, SetsTyped
  <2>4. StatesTyped'
    BY <1>2 DEF Typed, StatesTyped
  <2>5. StampsTyped'
    BY <1>2 DEF Typed, StampsTyped
  <2>6. PassTyped'
    BY <1>2 DEF Typed, PassTyped
  <2>7. BooksTyped'
    BY <1>2, <1>3 DEF Typed, BooksTyped
  <2>8. HwTyped'
    BY <1>2 DEF Typed, HwTyped
  <2>9. PowerTyped'
    BY <1>2 DEF Typed, PowerTyped
  <2> QED
    BY <2>1, <2>2, <2>3, <2>4, <2>5, <2>6, <2>7, <2>8, <2>9 DEF Typed
<1>5. LinesRight'
  <2>1. ASSUME NEW d \in Ctx  PROVE LineRight(d)'
    <3>1. LineTyped(queue[d], hwq[d], Listed(d), InHand(d), added[d])
          /\ LineFits(queue[d], hwq[d], Listed(d), InHand(d), added[d])
      BY LinesAreTyped DEF LinesRight, LineRight
    <3>2. Listed(d)' \subseteq Listed(d)
      BY <1>3 DEF Listed
    <3>3. LineFits(queue[d], hwq[d], Listed(d)', InHand(d), added[d])
      BY <3>1, <3>2, LineShrinks
    <3> QED
      BY <1>2, <3>3 DEF LineRight, InHand
  <2> QED
    BY <1>3, <2>1 DEF LinesRight
<1>6. PassRight'
  BY <1>2 DEF PassRight, Kind
<1>7. PowerRight'
  BY <1>2 DEF PowerRight
<1>8. ListAgrees'
  BY <1>3
<1>9. IdleMeansDrained'
  <2>1. inflight = 0 => inflight' = 0
    BY <1>3 DEF Typed, BooksTyped
  <2> QED
    BY <1>2, <2>1 DEF IdleMeansDrained
<1>10. CulpritRight'
  BY <1>2 DEF CulpritRight
<1> QED
  BY <1>4, <1>5, <1>6, <1>7, <1>8, <1>9, <1>10

\* A fault is recovered.
LEMMA RecoverRecords == ASSUME Records, Recover  PROVE Records'
<1> USE DEF Records, Recover, RequeuesWork, RunDone, ctxs, stamps, lists, runs, books, hw, power, bounds
<1>1. UNCHANGED <<script, hwFence, added, fast, skip, thread, expired, signalled, owed, jobs, requeue,
                  holder, taken, from, hand, sent, powered, active, gate, votes, awake, pm, halt,
                  refused, left>>
      /\ flush' = (IF flush > 0 THEN flush - 1 ELSE 0) /\ holder = "free" /\ fault /\ pending' = TRUE
  OBVIOUS
<1>2. \/ awake /\ Mends /\ culprit' = None /\ (gmu' = "runs" \/ gmu' = gmu)
         /\ (fault' = FALSE \/ fault' = fault) /\ (news' = {} \/ news' = news)
      \/ ~awake /\ Mends /\ hwq' = hwq /\ inflight' = inflight
         /\ gmu' = gmu /\ news' = news /\ fault' = fault /\ culprit' = culprit
  <2>1. NotGuilty /\ UNCHANGED <<retired, synced, list, inflight, big, hwq>> => Mends
    <3> SUFFICES ASSUME NotGuilty, UNCHANGED <<retired, synced, list, inflight, big, hwq>>
                 PROVE  Mends
      OBVIOUS
    <3>1. Kept
      BY GuiltyKeeps
    <3>2. retired' \in [Ctx -> 0 .. Length]
      BY DEF Typed, StampsTyped
    <3> QED
      BY <1>1, <3>1, <3>2, StillMends
  <2>2. ASSUME Found, Guilty(culprit[1]), retired' = [retired EXCEPT ![culprit[1]] = added[culprit[1]]],
               UNCHANGED <<synced, list, inflight, big, hwq>>
        PROVE  Mends
    <3>1. PICK c \in Ctx : Guilty(c) /\ retired' = [retired EXCEPT ![c] = added[c]]
      BY <2>2, FoundIs
    <3>2. Kept
      BY <3>1, GuiltyKeeps
    <3>3. retired' \in [Ctx -> 0 .. Length]
      BY <3>1 DEF Typed, StampsTyped, ScriptsTyped
    <3> QED
      BY <1>1, <2>2, <3>2, <3>3, StillMends
  <2>3. ASSUME awake, NEW guilty \in BOOLEAN, NEW forced \in BOOLEAN, guilty => Found,
               HardReset(guilty, forced) \/ SoftReset(guilty, forced)
        PROVE  Mends
    BY <1>1, <2>3, HardMends, SoftMends
  <2>4. \/ /\ awake /\ culprit' = None
           /\ \E guilty \in BOOLEAN, forced \in BOOLEAN :
                 (guilty => Found) /\ (HardReset(guilty, forced) \/ SoftReset(guilty, forced))
           /\ gmu' = "runs" /\ fault' = FALSE /\ news' = {}
        \/ /\ awake /\ culprit' = None
           /\ \/ Found /\ Guilty(culprit[1])
                 /\ retired' = [retired EXCEPT ![culprit[1]] = added[culprit[1]]]
              \/ NotGuilty /\ UNCHANGED retired
           /\ UNCHANGED <<list, inflight, big, hwq, synced, gmu, fault, news>>
        \/ /\ ~awake /\ NotGuilty
           /\ UNCHANGED <<retired, synced, list, inflight, big, hwq, gmu, news, fault, culprit>>
    BY Zenon DEF NotGuilty
  <2> HIDE DEF Recover
  <2> QED
    BY <2>1, <2>2, <2>3, <2>4
<1>3. Mends
  BY <1>2
<1> HIDE DEF Recover
<1>4. Typed'
  <2>1. ScriptsTyped'
    BY <1>1 DEF Typed, ScriptsTyped
  <2>2. LinesTyped'
    BY <1>3 DEF Typed, LinesTyped, Mends
  <2>3. SetsTyped'
    BY <1>1 DEF Typed, SetsTyped
  <2>4. StatesTyped'
    BY <1>3, <1>1 DEF Typed, StatesTyped, Mends
  <2>5. StampsTyped'
    BY <1>3 DEF Typed, StampsTyped, Mends
  <2>6. PassTyped'
    BY <1>1 DEF Typed, PassTyped
  <2>7. BooksTyped'
    BY <1>1, <1>3 DEF Typed, BooksTyped, Mends
  <2>8. HwTyped'
    BY <1>1, <1>2 DEF Typed, HwTyped
  <2>9. PowerTyped'
    BY <1>1 DEF Typed, PowerTyped
  <2> QED
    BY <2>1, <2>2, <2>3, <2>4, <2>5, <2>6, <2>7, <2>8, <2>9 DEF Typed
<1>5. LinesRight'
  <2>1. ASSUME NEW d \in Ctx  PROVE LineRight(d)'
    <3>1. LineTyped(queue[d], hwq[d], Listed(d), InHand(d), added[d])
          /\ LineFits(queue[d], hwq[d], Listed(d), InHand(d), added[d])
      BY LinesAreTyped DEF LinesRight, LineRight
    <3>2. Listed(d)' \subseteq Listed(d)
      BY <1>3 DEF Listed, Mends
    <3>3. hwq'[d] \in Seq(Nums) /\ Increasing(hwq'[d]) /\ Elems(hwq'[d]) \subseteq Elems(hwq[d]) \cup Listed(d)
          /\ queue'[d] \in {queue[d], <<>>}
      BY <1>3 DEF Mends
    <3>4. LineFits(queue[d], hwq'[d], Listed(d), InHand(d), added[d])
          /\ LineTyped(queue[d], hwq'[d], Listed(d), InHand(d), added[d])
      BY <3>1, <3>3, LineShrinks DEF LineTyped
    <3>5. LineFits(queue'[d], hwq'[d], Listed(d), InHand(d), added[d])
          /\ LineTyped(queue'[d], hwq'[d], Listed(d), InHand(d), added[d])
      BY <3>3, <3>4, EmptyRight, LineShrinks DEF LineTyped
    <3>6. LineFits(queue'[d], hwq'[d], Listed(d)', InHand(d), added[d])
      BY <3>2, <3>5, LineShrinks
    <3> QED
      BY <1>1, <3>6 DEF LineRight, InHand
  <2> QED
    BY <1>3, <2>1 DEF LinesRight, Mends
<1>6. PassRight'
  BY <1>1 DEF PassRight, Kind
<1>7. PowerRight'
  BY <1>1, <1>2 DEF PowerRight
<1>8. ListAgrees'
  BY <1>3 DEF Mends
<1>9. IdleMeansDrained'
  BY <1>1, <1>2 DEF IdleMeansDrained
<1>10. CulpritRight'
  BY <1>1, <1>2 DEF CulpritRight
<1> QED
  BY <1>4, <1>5, <1>6, <1>7, <1>8, <1>9, <1>10

-----------------------------------------------------------------------------
(* The records are right at every step.                                    *)

\* The records are right at the start ...
LEMMA InitRecords == Init => Records
<1> SUFFICES ASSUME Init  PROVE Records
  OBVIOUS
<1> USE DEF Init
<1>1. PICK s \in Scenes : script = s.kinds /\ left = s.accidents
  OBVIOUS
<1>2. script \in [Ctx -> Seq(Kinds)] /\ left \in Nat /\ \A c \in Ctx : Len(script[c]) <= Length
  BY <1>1, HwschedAssumption
<1>3. Length \in Nat /\ 0 \in 0 .. Length /\ \A c \in Ctx : Len(script[c]) \in Nat
  BY <1>2, HwschedAssumption, LenProperties
<1>4. Typed
  <2>1. ScriptsTyped
    <3>1. \A c \in Ctx : added[c] = 0 /\ 0 <= Len(script[c])
      BY <1>3
    <3> QED
      BY <1>2, <1>3, <3>1 DEF ScriptsTyped
  <2>2. LinesTyped
    <3>1. <<>> \in Seq(Obj)
      OBVIOUS
    <3> QED
      BY <3>1, EmptyRight DEF LinesTyped
  <2>3. SetsTyped
    BY DEF SetsTyped
  <2>4. StatesTyped
    BY DEF StatesTyped
  <2>5. StampsTyped
    BY <1>3 DEF StampsTyped
  <2>6. PassTyped
    BY DEF PassTyped
  <2>7. BooksTyped
    <3>1. inflight = 0 /\ big = None /\ votes = 0
      OBVIOUS
    <3>2. inflight \in Nat /\ big \in Obj \cup {None} /\ votes \in 0 .. 1
      BY ONLY <3>1
    <3>3. powered \in BOOLEAN /\ active \in BOOLEAN /\ gate \in BOOLEAN /\ awake \in BOOLEAN
      BY Zenon
    <3> QED
      BY ONLY <3>2, <3>3 DEF BooksTyped
  <2>8. HwTyped
    BY DEF HwTyped
  <2>9. PowerTyped
    <3>1. pm = "on" /\ halt = 0 /\ flush = 0
      OBVIOUS
    <3>2. refused \in BOOLEAN
      BY Zenon
    <3>3. pm \in {"on", "drain", "flush", "gate", "suspended"}
      BY ONLY <3>1
    <3>4. halt \in 0 .. 1 /\ flush \in 0 .. 2
      BY ONLY <3>1
    <3> QED
      BY ONLY <1>2, <3>2, <3>3, <3>4, Zenon DEF PowerTyped
  <2> QED
    BY <2>1, <2>2, <2>3, <2>4, <2>5, <2>6, <2>7, <2>8, <2>9 DEF Typed
<1>5. LinesRight
  <2>1. ListOrdered
    BY DEF ListOrdered
  <2>2. ASSUME NEW c \in Ctx  PROVE LineRight(c)
    <3>1. Listed(c) = {} /\ InHand(c) = {}
      BY NoneIsNone, EmptyRight DEF Listed, InHand, Nums, None, Obj, Elems
    <3>2. queue[c] = <<>> /\ hwq[c] = <<>>
      OBVIOUS
    <3> QED
      BY <3>1, <3>2, EmptyRight DEF LineRight, LineFits, Below
  <2> QED
    BY <2>1, <2>2 DEF LinesRight
<1>6. PassRight
  BY DEF PassRight
<1>7. PowerRight
  BY DEF PowerRight
<1>8. CulpritRight
  BY DEF CulpritRight
<1>9. ListAgrees
  <2>1. inflight = Len(list) /\ ~(inflight > 0)
    OBVIOUS
  <2>2. {o \in Elems(list) : Kind(o) = "big"} = {big} \ {None}
    BY EmptyRight DEF Elems
  <2>3. votes = IF powered THEN 1 ELSE 0
    <3>1. votes = 0 /\ powered = FALSE
      OBVIOUS
    <3> QED
      BY ONLY <3>1
  <2>4. active = ~gate
    BY Zenon
  <2> QED
    BY ONLY <2>1, <2>2, <2>3, <2>4, Zenon DEF ListAgrees
<1>10. IdleMeansDrained
  BY DEF IdleMeansDrained
<1> QED
  BY <1>4, <1>5, <1>6, <1>7, <1>8, <1>9, <1>10 DEF Records

\* ... and every step keeps them so.
LEMMA NextRecords == Records /\ [Next]_vars => Records'
<1> SUFFICES ASSUME Records, [Next]_vars  PROVE Records'
  OBVIOUS
<1>1. CASE Submit
  BY <1>1, EnterRecords, RefusedRecords, FastMarkerRecords, QueueRecords, IssueRecords DEF Submit
<1>2. CASE Pass
  BY <1>2, DropRecords, ConsiderRecords, PopRecords, SendAbortsRecords, SendUnpoweredRecords,
     SendFailsRecords, SendRecords, InlineEndsRecords, WorkEndsRecords DEF Pass
<1>3. CASE Work
  BY <1>3, WorkStartsRecords, RecoverRecords DEF Work
<1>4. CASE Gmu
  BY <1>4, ExecuteRecords DEF Gmu
<1>5. CASE ReadNews
  BY <1>5, ReadNewsRecords
<1>6. CASE Accident
  BY <1>6, HangRecords, DetachRecords, WatchdogRecords, SuspendStartsRecords DEF Accident
<1>7. CASE Fences
  BY <1>7, SignalRecords, ScheduleRecords DEF Fences
<1>8. CASE Ends
  BY <1>8, DetachEndsRecords DEF Ends
<1>9. CASE Slumber
  BY <1>9, SlumberRecords
<1>10. CASE Suspend
  BY <1>10, SuspendHaltsRecords, DrainFailsRecords, SuspendFlushedRecords, IdleEndsRecords,
     IdleFailsRecords, ResumeRecords DEF Suspend
<1>11. CASE UNCHANGED vars
  BY <1>11, StutterRecords
<1> QED
  BY <1>1, <1>2, <1>3, <1>4, <1>5, <1>6, <1>7, <1>8, <1>9, <1>10, <1>11 DEF Next

\* The variables have their types at every step.
THEOREM HwschedTypes == Spec => []TypeOK
<1>1. Records => TypeOK
  <2> SUFFICES ASSUME Records  PROVE TypeOK
    OBVIOUS
  <2>1. \A c \in Ctx : Elems(queue[c]) \cup Elems(hwq[c]) \subseteq 1 .. added[c]
    BY DEF Records, LinesRight, LineRight, LineFits
  <2>2. \A c \in Ctx : added[c] \in 0 .. Len(script[c])
    <3> SUFFICES ASSUME NEW c \in Ctx  PROVE added[c] \in 0 .. Len(script[c])
      OBVIOUS
    <3>1. added[c] \in 0 .. Length /\ added[c] <= Len(script[c]) /\ script[c] \in Seq(Kinds)
      BY DEF Records, Typed, ScriptsTyped
    <3>2. Len(script[c]) \in Nat
      BY <3>1, LenProperties
    <3> QED
      BY <3>1, <3>2
  <2>3. Elems(list) \subseteq Obj
    BY ElemsOf DEF Records, Typed, LinesTyped
  <2>4. /\ fast \cup skip \cup expired \cup signalled \subseteq Obj
        /\ owed \cup jobs \cup requeue \cup taken \subseteq Ctx
    BY DEF Records, Typed, SetsTyped
  <2>5. /\ state \in [Ctx -> {"ok", "invalid", "detached", "gone"}]
        /\ thread \in [Ctx -> {"idle", "past", "added", "sending"}]
    BY DEF Records, Typed, StatesTyped
  <2>6. /\ holder \in {"free", "work", "inline"} /\ from \in Ctx \cup {0}
        /\ hand \in Obj \cup {None} /\ sent \in BOOLEAN
    BY DEF Records, Typed, PassTyped
  <2>7. /\ inflight \in Nat /\ big \in Obj \cup {None} /\ votes \in 0 .. 1
        /\ powered \in BOOLEAN /\ active \in BOOLEAN /\ gate \in BOOLEAN /\ awake \in BOOLEAN
    BY DEF Records, Typed, BooksTyped
  <2>8. /\ gmu \in {"runs", "stuck"} /\ news \subseteq {"retire", "bad"}
        /\ fault \in BOOLEAN /\ culprit \in Obj \cup {None} /\ pending \in BOOLEAN
    BY DEF Records, Typed, HwTyped
  <2>9. /\ pm \in {"on", "drain", "flush", "gate", "suspended"}
        /\ halt \in 0 .. 1 /\ flush \in 0 .. 2 /\ refused \in BOOLEAN /\ left \in Nat
    BY DEF Records, Typed, PowerTyped
  <2>10. hwFence \in BOOLEAN
    BY DEF Records, Typed, ScriptsTyped
  <2> QED
    BY <2>1, <2>2, <2>3, <2>4, <2>5, <2>6, <2>7, <2>8, <2>9, <2>10 DEF TypeOK
<1> QED
  BY <1>1, InitRecords, NextRecords, PTL DEF Spec

\* inflight, the vote for power, the idle gate, the flags of the scheduler and
\* big_cmdobj agree with cmd_list at every step, through failed sends, retirement
\* and recovery; and a suspended system has nothing on the GPU.
THEOREM HwschedRecords == Spec => []RecordsAgree
<1>1. Records => ListAgrees /\ IdleMeansDrained
  BY DEF Records
<1>2. TypeOK /\ ListAgrees /\ IdleMeansDrained => RecordsAgree
  BY DEF RecordsAgree
<1> QED
  BY <1>1, <1>2, InitRecords, NextRecords, HwschedTypes, PTL DEF Spec

-----------------------------------------------------------------------------
(* The GMU has the list: what has retired.                                 *)

\* Object i of a context whose sync objects are S has retired.
Done(S, i, r, s) == IF i \in S THEN i <= s ELSE i <= r

\* The GMU has the objects H: the listed ones L that have not retired.  Of those
\* that wait, W, none has retired, but for a marker that expired (E); there is
\* one of these at most, and then the GMU has no timestamp to retire.
StampsFit(S, E, W, H, L, r, s) ==
    /\ \A i \in L : Done(S, i, r, s) \/ i \in H
    /\ \A i \in H : i \in L /\ ~Done(S, i, r, s)
    /\ \A i \in W \ E : ~Done(S, i, r, s)
    /\ \A i \in W \cap E : i <= r /\ H \subseteq S /\ \A j \in W \cap E : i = j

SyncsOf(c) == {i \in Nums : <<c, i>> \in Syncs}
ExpiredOf(c) == {i \in Nums : <<c, i>> \in expired}
FastOf(c) == {i \in Nums : <<c, i>> \in fast}
Waits(c) == Elems(queue[c]) \cup InHand(c)
StampRight(c) ==
    state[c] = "ok" =>
        StampsFit(SyncsOf(c), ExpiredOf(c), Waits(c), Elems(hwq[c]), Listed(c),
                  retired[c], synced[c])

\* No timestamp retires before it is given out.
Bounded(c) == retired[c] <= added[c] /\ synced[c] <= added[c]

\* A marker that retired when it was submitted is in no queue.
FastRight(c) ==
    /\ FastOf(c) \subseteq 1 .. added[c]
    /\ FastOf(c) \cap (Waits(c) \cup Elems(hwq[c]) \cup Listed(c)) = {}

\* Only markers expire, and only with hardware fences.
ExpiredRight(c) ==
    \A i \in ExpiredOf(c) : hwFence /\ script[c][i] = "marker" /\ i <= added[c]

Stamps == \A c \in Ctx : Bounded(c) /\ FastRight(c) /\ ExpiredRight(c) /\ StampRight(c)

\* Numbers of objects are numbers.
LEMMA NumsAre == Length \in Nat /\ Nums \subseteq Nat /\ \A i \in Nums : i >= 1
BY HwschedAssumption DEF Nums

\* An object is queued, sent or dropped; timestamps retire with the GMU or
\* without it.
LEMMA StampsMove ==
    ASSUME NEW S \in SUBSET Nums, NEW E \in SUBSET Nums, NEW W \in SUBSET Nums,
           NEW H \in SUBSET Nums, NEW L \in SUBSET Nums,
           NEW r \in 0 .. Length, NEW s \in 0 .. Length,
           StampsFit(S, E, W, H, L, r, s)
    PROVE  /\ \A x \in Nums : x \notin E /\ ~Done(S, x, r, s)
                                => StampsFit(S, E, W \cup {x}, H, L, r, s)
           /\ \A V \in SUBSET W : StampsFit(S, E, V, H, L, r, s)
           /\ \A V \in SUBSET W, x \in W \ E :
                (\A j \in V : x < j) => StampsFit(S, E, V, H \cup {x}, L \cup {x}, r, s)
           /\ \A V \in SUBSET W, x \in (W \cap E) \ S :
                StampsFit(S, E, V, H, L \cup {x}, r, s)
           /\ \A M \in SUBSET L :
                (\A i \in L \ M : Done(S, i, r, s)) => StampsFit(S, E, W, H, M, r, s)
<1>1. \A i \in Nums : i \in Nat
  BY NumsAre
<1>2. r \in Nat /\ s \in Nat
  BY NumsAre
<1>3. \A x \in Nums : x \notin E /\ ~Done(S, x, r, s) => StampsFit(S, E, W \cup {x}, H, L, r, s)
  BY DEF StampsFit
<1>4. \A V \in SUBSET W : StampsFit(S, E, V, H, L, r, s)
  BY DEF StampsFit
<1>5. ASSUME NEW V \in SUBSET W, NEW x \in W \ E, \A j \in V : x < j
      PROVE  StampsFit(S, E, V, H \cup {x}, L \cup {x}, r, s)
  <2>1. ~Done(S, x, r, s)
    BY DEF StampsFit
  <2>2. ASSUME NEW i \in V \cap E  PROVE i <= r /\ H \cup {x} \subseteq S /\ \A j \in V \cap E : i = j
    <3>1. i \in W \cap E
      OBVIOUS
    <3>2. i <= r /\ H \subseteq S /\ \A j \in W \cap E : i = j
      BY <3>1 DEF StampsFit
    <3>3. x < i /\ i \in Nat /\ x \in Nat
      BY <1>1, <1>5
    <3>4. x <= r
      BY <1>2, <3>2, <3>3
    <3>5. x \in S
      BY <2>1, <3>4 DEF Done
    <3> QED
      BY <3>2, <3>5
  <2> QED
    BY <2>1, <2>2 DEF StampsFit
<1>6. ASSUME NEW V \in SUBSET W, NEW x \in (W \cap E) \ S
      PROVE  StampsFit(S, E, V, H, L \cup {x}, r, s)
  <2>1. Done(S, x, r, s)
    BY DEF StampsFit, Done
  <2> QED
    BY <2>1 DEF StampsFit
<1>7. ASSUME NEW M \in SUBSET L, \A i \in L \ M : Done(S, i, r, s)
      PROVE  StampsFit(S, E, W, H, M, r, s)
  BY <1>7 DEF StampsFit
<1> QED
  BY <1>3, <1>4, <1>5, <1>6, <1>7

\* ... the GMU executes its first object, a timestamp retires without the GMU, a
\* marker expires, or the list is replayed.
LEMMA StampsRetire ==
    ASSUME NEW S \in SUBSET Nums, NEW E \in SUBSET Nums, NEW W \in SUBSET Nums,
           NEW H \in SUBSET Nums, NEW L \in SUBSET Nums,
           NEW r \in 0 .. Length, NEW s \in 0 .. Length,
           StampsFit(S, E, W, H, L, r, s)
    PROVE  /\ \A h \in H : (\A i \in W \cup (H \ {h}) : h < i)
                => IF h \in S THEN StampsFit(S, E, W, H \ {h}, L, r, h)
                              ELSE r <= h /\ StampsFit(S, E, W, H \ {h}, L, h, s)
           /\ \A V \in SUBSET W, t \in 0 .. Length :
                r <= t /\ (t = r \/ H \subseteq S) /\ (\A i \in V \ (E \cup S) : t < i)
                  => StampsFit(S, E, V, H, L, t, s)
           /\ \A V \in SUBSET W, x \in W \ S :
                H \subseteq S /\ (\A i \in V : x < i) /\ (\A i \in L : i < x)
                  => StampsFit(S, E \cup {x}, V \cup {x}, H, L, x, s)
           /\ \A t \in 0 .. Length :
                r <= t /\ (\A i \in W \ (E \cup S) : t < i)
                  => LET M == {i \in L : ~Done(S, i, t, s)}
                     IN  StampsFit(S, E, W, M, M, t, s)
<1>1. \A i \in Nums : i \in Nat
  BY NumsAre
<1>2. r \in Nat /\ s \in Nat /\ \A t \in 0 .. Length : t \in Nat
  BY NumsAre
<1>3. ASSUME NEW h \in H, \A i \in W \cup (H \ {h}) : h < i
      PROVE  IF h \in S THEN StampsFit(S, E, W, H \ {h}, L, r, h)
                        ELSE r <= h /\ StampsFit(S, E, W, H \ {h}, L, h, s)
  <2>1. ~Done(S, h, r, s) /\ h \in Nat
    BY <1>1 DEF StampsFit
  <2>2. CASE h \in S
    <3>1. s < h
      BY <1>2, <2>1, <2>2 DEF Done
    <3>2. \A i \in L : Done(S, i, r, h) \/ i \in H \ {h}
      <4> SUFFICES ASSUME NEW i \in L  PROVE Done(S, i, r, h) \/ i \in H \ {h}
        OBVIOUS
      <4>1. Done(S, i, r, s) \/ i \in H
        BY DEF StampsFit
      <4>2. i \in Nat
        BY <1>1
      <4>3. Done(S, i, r, s) => Done(S, i, r, h)
        BY <1>2, <2>1, <3>1, <4>2 DEF Done
      <4>4. i = h => Done(S, i, r, h)
        BY <2>1, <2>2 DEF Done
      <4> QED
        BY <4>1, <4>3, <4>4
    <3>3. \A i \in W \cup (H \ {h}) : ~Done(S, i, r, s) => ~Done(S, i, r, h)
      BY <1>1, <1>2, <1>3, <2>1 DEF Done
    <3> QED
      BY <2>2, <3>2, <3>3 DEF StampsFit
  <2>3. CASE h \notin S
    <3>1. r < h
      BY <1>2, <2>1, <2>3 DEF Done
    <3>2. \A i \in L : Done(S, i, h, s) \/ i \in H \ {h}
      <4> SUFFICES ASSUME NEW i \in L  PROVE Done(S, i, h, s) \/ i \in H \ {h}
        OBVIOUS
      <4>1. Done(S, i, r, s) \/ i \in H
        BY DEF StampsFit
      <4>2. i \in Nat
        BY <1>1
      <4>3. Done(S, i, r, s) => Done(S, i, h, s)
        BY <1>2, <2>1, <3>1, <4>2 DEF Done
      <4>4. i = h => Done(S, i, h, s)
        BY <2>1, <2>3 DEF Done
      <4> QED
        BY <4>1, <4>3, <4>4
    <3>3. \A i \in W \cup (H \ {h}) : ~Done(S, i, r, s) => ~Done(S, i, h, s)
      BY <1>1, <1>2, <1>3, <2>1 DEF Done
    <3>4. W \cap E = {}
      BY <2>3 DEF StampsFit
    <3>5. r <= h
      BY <1>2, <2>1, <3>1
    <3> QED
      BY <2>3, <3>2, <3>3, <3>4, <3>5 DEF StampsFit
  <2> QED
    BY <2>2, <2>3
<1>4. ASSUME NEW V \in SUBSET W, NEW t \in 0 .. Length,
             r <= t, t = r \/ H \subseteq S, \A i \in V \ (E \cup S) : t < i
      PROVE  StampsFit(S, E, V, H, L, t, s)
  <2>1. \A i \in L : Done(S, i, r, s) => Done(S, i, t, s)
    BY <1>1, <1>2, <1>4 DEF Done
  <2>2. \A i \in H : ~Done(S, i, r, s) => ~Done(S, i, t, s)
    BY <1>4 DEF Done
  <2>3. \A i \in V \ E : ~Done(S, i, r, s) => ~Done(S, i, t, s)
    BY <1>1, <1>2, <1>4 DEF Done
  <2>4. \A i \in V \cap E : i <= r => i <= t
    BY <1>1, <1>2, <1>4
  <2> QED
    BY <2>1, <2>2, <2>3, <2>4 DEF StampsFit
<1>5. ASSUME NEW V \in SUBSET W, NEW x \in W \ S,
             H \subseteq S, \A i \in V : x < i, \A i \in L : i < x
      PROVE  StampsFit(S, E \cup {x}, V \cup {x}, H, L, x, s)
  <2>1. x \in Nat
    BY <1>1
  <2>2. \A i \in L : Done(S, i, r, s) => Done(S, i, x, s)
    BY <1>1, <1>5, <2>1 DEF Done
  <2>3. \A i \in H : ~Done(S, i, r, s) => ~Done(S, i, x, s)
    BY <1>5 DEF Done
  <2>4. V \cap E = {}
    <3> SUFFICES ASSUME NEW i \in V \cap E  PROVE FALSE
      OBVIOUS
    <3>1. i <= r /\ \A j \in W \cap E : i = j
      BY DEF StampsFit
    <3>2. x < i /\ i \in Nat
      BY <1>1, <1>5
    <3>3. x \notin E
      BY <2>1, <3>1, <3>2
    <3>4. ~(x <= r)
      BY <3>3 DEF StampsFit, Done
    <3> QED
      BY <1>2, <2>1, <3>1, <3>2, <3>4
  <2>5. \A i \in V : ~Done(S, i, r, s) => ~Done(S, i, x, s)
    BY <1>1, <1>5, <2>1 DEF Done
  <2>6. \A i \in V \ E : ~Done(S, i, r, s)
    BY DEF StampsFit
  <2>7. x <= x /\ (V \cup {x}) \cap (E \cup {x}) = {x} /\ (V \cup {x}) \ (E \cup {x}) \subseteq V \ E
    <3>1. x <= x
      BY <2>1
    <3> QED
      BY ONLY <2>4, <3>1
  <2> QED
    BY <1>5, <2>2, <2>3, <2>5, <2>6, <2>7 DEF StampsFit
<1>6. ASSUME NEW t \in 0 .. Length, r <= t, \A i \in W \ (E \cup S) : t < i
      PROVE  StampsFit(S, E, W, {i \in L : ~Done(S, i, t, s)}, {i \in L : ~Done(S, i, t, s)}, t, s)
  <2>1. \A i \in L : Done(S, i, r, s) => Done(S, i, t, s)
    BY <1>1, <1>2, <1>6 DEF Done
  <2>2. {i \in L : ~Done(S, i, t, s)} \subseteq H
    BY <2>1 DEF StampsFit
  <2>3. \A i \in W \ E : ~Done(S, i, r, s) => ~Done(S, i, t, s)
    BY <1>1, <1>2, <1>6 DEF Done
  <2>4. \A i \in W \cap E : i <= r => i <= t
    BY <1>1, <1>2, <1>6
  <2> QED
    BY <2>2, <2>3, <2>4 DEF StampsFit
<1> QED
  BY <1>3, <1>4, <1>5, <1>6

\* The kinds of the objects do not change.
LEMMA SameKinds ==
    ASSUME script' = script
    PROVE  /\ Stamped' = Stamped /\ Syncs' = Syncs
           /\ \A c : SyncsOf(c)' = SyncsOf(c)
<1>1. Objects' = Objects /\ \A o : Kind(o)' = Kind(o)
  BY DEF Objects, Kind
<1>2. Stamped' = Stamped
  BY <1>1 DEF Stamped
<1>3. Syncs' = Syncs
  BY <1>1, <1>2 DEF Syncs
<1> QED
  BY <1>2, <1>3 DEF SyncsOf

\* What StampsFit is about.
LEMMA StampsAreTyped ==
    ASSUME Records, NEW c \in Ctx
    PROVE  /\ SyncsOf(c) \in SUBSET Nums /\ ExpiredOf(c) \in SUBSET Nums /\ FastOf(c) \in SUBSET Nums
           /\ Waits(c) \in SUBSET Nums /\ Elems(queue[c]) \in SUBSET Nums
           /\ Elems(hwq[c]) \in SUBSET Nums /\ Listed(c) \in SUBSET Nums /\ InHand(c) \in SUBSET Nums
           /\ retired[c] \in 0 .. Length /\ synced[c] \in 0 .. Length /\ added[c] \in 0 .. Length
           /\ queue[c] \in Seq(Nums) /\ hwq[c] \in Seq(Nums)
<1>1. queue[c] \in Seq(Nums) /\ hwq[c] \in Seq(Nums) /\ retired[c] \in 0 .. Length
      /\ synced[c] \in 0 .. Length /\ added[c] \in 0 .. Length
  BY DEF Records, Typed, LinesTyped, StampsTyped, ScriptsTyped
<1>2. Elems(queue[c]) \in SUBSET Nums /\ Elems(hwq[c]) \in SUBSET Nums
  BY <1>1, ElemsOf
<1> QED
  BY <1>1, <1>2 DEF SyncsOf, ExpiredOf, FastOf, Waits, Listed, InHand

\* An object that was submitted has a timestamp, or is a sync object.
LEMMA SubmittedIs ==
    ASSUME Records, NEW c \in Ctx, NEW i \in 1 .. added[c]
    PROVE  /\ i \in Nums /\ <<c, i>> \in Objects /\ <<c, i>> \in Obj
           /\ <<c, i>> \in Stamped <=> i \notin SyncsOf(c)
           /\ <<c, i>> \in Syncs <=> i \in SyncsOf(c)
<1>1. added[c] \in 0 .. Length /\ added[c] <= Len(script[c]) /\ Length \in Nat
  BY NumsAre DEF Records, Typed, ScriptsTyped
<1>2. Len(script[c]) \in Nat
  BY LenProperties DEF Records, Typed, ScriptsTyped
<1>3. i \in Nums /\ i <= Len(script[c])
  BY <1>1, <1>2 DEF Nums
<1>4. <<c, i>> \in Obj
  BY <1>3 DEF Obj, Nums
<1>5. <<c, i>> \in Objects
  BY <1>3, <1>4 DEF Objects
<1> QED
  BY <1>3, <1>4, <1>5 DEF SyncsOf, Syncs, Stamped

\* A context that loses at most what waits, and what is done of its list; a bad one
\* may lose more.
Stands(c) ==
    /\ Waits(c)' \subseteq Waits(c) /\ Listed(c)' \subseteq Listed(c)
    /\ Elems(hwq'[c]) \subseteq Elems(hwq[c]) \cup Listed(c)
    /\ FastOf(c)' = FastOf(c) /\ ExpiredOf(c)' = ExpiredOf(c) /\ added'[c] = added[c]
    /\ state'[c] = "ok" =>
         /\ state[c] = "ok" /\ Elems(hwq'[c]) = Elems(hwq[c])
         /\ retired'[c] = retired[c] /\ synced'[c] = synced[c]
         /\ \A i \in Listed(c) \ Listed(c)' : Done(SyncsOf(c), i, retired[c], synced[c])

\* It stays right.
LEMMA StandsRight ==
    ASSUME Records, NEW c \in Ctx, Stands(c), UNCHANGED <<script, hwFence>>,
           Bounded(c), FastRight(c), ExpiredRight(c), StampRight(c)
    PROVE  /\ retired'[c] = retired[c] /\ synced'[c] = synced[c] => Bounded(c)'
           /\ FastRight(c)' /\ ExpiredRight(c)' /\ StampRight(c)'
<1>1. retired'[c] = retired[c] /\ synced'[c] = synced[c] => Bounded(c)'
  BY DEF Bounded, Stands
<1>2. FastRight(c)'
  BY DEF FastRight, Stands
<1>3. ExpiredRight(c)'
  BY DEF ExpiredRight, Stands
<1>4. StampRight(c)'
  <2> SUFFICES ASSUME state'[c] = "ok"
               PROVE  StampsFit(SyncsOf(c)', ExpiredOf(c)', Waits(c)', Elems(hwq'[c]), Listed(c)',
                                retired'[c], synced'[c])
    BY DEF StampRight
  <2>1. SyncsOf(c)' = SyncsOf(c)
    BY SameKinds
  <2>2. StampsFit(SyncsOf(c), ExpiredOf(c), Waits(c), Elems(hwq[c]), Listed(c), retired[c], synced[c])
    BY DEF StampRight, Stands
  <2>3. Waits(c)' \in SUBSET Waits(c) /\ Listed(c)' \in SUBSET Listed(c)
        /\ \A i \in Listed(c) \ Listed(c)' : Done(SyncsOf(c), i, retired[c], synced[c])
    BY DEF Stands
  <2>4. StampsFit(SyncsOf(c), ExpiredOf(c), Waits(c)', Elems(hwq[c]), Listed(c), retired[c], synced[c])
    BY <2>2, <2>3, StampsAreTyped, StampsMove
  <2>5. StampsFit(SyncsOf(c), ExpiredOf(c), Waits(c)', Elems(hwq[c]), Listed(c)', retired[c], synced[c])
    <3>1. Waits(c)' \in SUBSET Nums
      BY <2>3, StampsAreTyped
    <3> HIDE DEF Waits
    <3> QED
      BY <2>3, <2>4, <3>1, StampsAreTyped, StampsMove
  <2>6. Elems(hwq'[c]) = Elems(hwq[c]) /\ retired'[c] = retired[c] /\ synced'[c] = synced[c]
        /\ ExpiredOf(c)' = ExpiredOf(c)
    BY DEF Stands
  <2> QED
    BY <2>1, <2>5, <2>6
<1> QED
  BY <1>1, <1>2, <1>3, <1>4

\* Steps that leave the objects and timestamps where they are.
LEMMA UnmovedStamps ==
    ASSUME Records, Stamps,
           UNCHANGED <<script, hwFence, added, fast, expired, queue, hwq, list, hand, retired, synced>>,
           \A c \in Ctx : state'[c] = "ok" => state[c] = "ok"
    PROVE  Stamps'
<1> SUFFICES ASSUME NEW c \in Ctx
             PROVE  Bounded(c)' /\ FastRight(c)' /\ ExpiredRight(c)' /\ StampRight(c)'
  BY DEF Stamps
<1>1. Waits(c)' = Waits(c) /\ Elems(hwq'[c]) = Elems(hwq[c]) /\ Listed(c)' = Listed(c)
      /\ FastOf(c)' = FastOf(c) /\ ExpiredOf(c)' = ExpiredOf(c)
  BY DEF Waits, InHand, Listed, FastOf, ExpiredOf
<1>2. Stands(c)
  BY <1>1 DEF Stands
<1> QED
  BY <1>2, StandsRight DEF Stamps

\* An object in hand that is not sent goes back, or is dropped.
LEMMA BackStamps ==
    ASSUME Records, Stamps, hand # None, Back,
           UNCHANGED <<script, hwFence, added, fast, expired, hwq, list, retired, synced, state>>
    PROVE  Stamps'
<1> DEFINE c == hand[1]
           x == hand[2]
<1>1. hand \in Obj /\ c \in Ctx /\ x \in Nums /\ hand = <<c, x>>
  BY DEF Records, Typed, PassTyped, Obj, Nums
<1>2. hand' = None /\ (queue' = queue \/ queue' = [queue EXCEPT ![c] = <<x>> \o queue[c]])
  BY DEF Back, Return
<1>3. InHand(c) = {x} /\ \A d \in Ctx : InHand(d)' = {}
  BY <1>1, <1>2, NoneIsNone DEF InHand, Nums, None, Obj
<1> HIDE DEF c, x
<1>4. \A d \in Ctx : Waits(d)' \subseteq Waits(d)
  <2> SUFFICES ASSUME NEW d \in Ctx  PROVE Waits(d)' \subseteq Waits(d)
    OBVIOUS
  <2>1. queue \in [Ctx -> Seq(Nums)]
    BY DEF Records, Typed, LinesTyped
  <2>2. queue'[d] = queue[d] \/ (d = c /\ queue'[d] = <<x>> \o queue[c])
    BY <1>2, <2>1
  <2>3. Elems(<<x>> \o queue[c]) = {x} \cup Elems(queue[c])
    BY <1>1, <2>1, ElemsOf
  <2> QED
    BY <1>3, <2>2, <2>3 DEF Waits
<1> SUFFICES ASSUME NEW d \in Ctx
             PROVE  Bounded(d)' /\ FastRight(d)' /\ ExpiredRight(d)' /\ StampRight(d)'
  BY DEF Stamps
<1>5. Stands(d)
  BY <1>4 DEF Stands, Listed, FastOf, ExpiredOf
<1> QED
  BY <1>5, StandsRight DEF Stamps

\* Power goes off: nothing is on the list.
LEMMA OffStamps ==
    ASSUME Records, Stamps, PowerOff, votes = 0,
           UNCHANGED <<script, hwFence, added, fast, expired, queue, list, hand, retired, synced, state>>
    PROVE  Stamps'
<1>1. list = <<>>
  <2>1. list \in Seq(Obj) /\ inflight \in Nat /\ inflight = Len(list) /\ (inflight > 0 => powered)
        /\ votes = (IF powered THEN 1 ELSE 0)
    BY DEF Records, Typed, LinesTyped, BooksTyped, ListAgrees
  <2>2. ~powered
    BY ONLY <2>1, votes = 0
  <2>3. Len(list) = 0
    BY <2>1, <2>2
  <2> QED
    BY <2>1, <2>3, EmptySeq
<1>2. \A c \in Ctx : Listed(c) = {}
  BY <1>1, EmptyRight DEF Listed
<1>3. \A c \in Ctx : Elems(hwq'[c]) = {}
  BY EmptyRight DEF PowerOff
<1> SUFFICES ASSUME NEW c \in Ctx
             PROVE  Bounded(c)' /\ FastRight(c)' /\ ExpiredRight(c)' /\ StampRight(c)'
  BY DEF Stamps
<1>4. Waits(c)' = Waits(c) /\ Listed(c)' = Listed(c) /\ FastOf(c)' = FastOf(c)
      /\ ExpiredOf(c)' = ExpiredOf(c)
  BY DEF Waits, InHand, Listed, FastOf, ExpiredOf
<1>5. state[c] = "ok" => Elems(hwq[c]) = {}
  BY <1>2 DEF Stamps, StampRight, StampsFit
<1>6. Stands(c)
  BY <1>3, <1>4, <1>5 DEF Stands
<1> QED
  BY <1>6, StandsRight DEF Stamps

\* A context is detached ...
LEMMA DetachStamps == ASSUME Records, Stamps, NEW c \in Ctx, Detach(c)  PROVE Stamps'
<1> USE DEF Detach, stamps, lists, runs, books, hw, power
<1>1. UNCHANGED <<script, hwFence, added, fast, expired, hwq, list, hand, retired, synced>>
  OBVIOUS
<1>2. queue' = [queue EXCEPT ![c] = <<>>] /\ state' = [state EXCEPT ![c] = "detached"]
  OBVIOUS
<1>3. queue \in [Ctx -> Seq(Nums)] /\ state \in [Ctx -> {"ok", "invalid", "detached", "gone"}]
  BY DEF Records, Typed, LinesTyped, StatesTyped
<1> SUFFICES ASSUME NEW d \in Ctx
             PROVE  Bounded(d)' /\ FastRight(d)' /\ ExpiredRight(d)' /\ StampRight(d)'
  BY DEF Stamps
<1>4. Elems(queue'[d]) \subseteq Elems(queue[d]) /\ (state'[d] = "ok" => state[d] = "ok")
  BY <1>2, <1>3, EmptyRight
<1>5. Waits(d)' \subseteq Waits(d) /\ Listed(d)' = Listed(d) /\ FastOf(d)' = FastOf(d)
      /\ ExpiredOf(d)' = ExpiredOf(d)
  BY <1>1, <1>4 DEF Waits, InHand, Listed, FastOf, ExpiredOf
<1>6. Stands(d)
  BY <1>1, <1>4, <1>5 DEF Stands
<1> QED
  BY <1>1, <1>6, StandsRight DEF Stamps

\* ... and its last timestamp retires.
LEMMA DetachEndsStamps == ASSUME Records, Stamps, NEW c \in Ctx, DetachEnds(c)  PROVE Stamps'
<1> USE DEF DetachEnds, lists, runs, books, hw, power, bounds
<1>1. UNCHANGED <<script, hwFence, added, fast, expired, hwq, list, hand, queue, synced>>
  OBVIOUS
<1>2. retired' = [retired EXCEPT ![c] = added[c]] /\ state' = [state EXCEPT ![c] = "gone"]
  OBVIOUS
<1>3. retired \in [Ctx -> 0 .. Length] /\ state \in [Ctx -> {"ok", "invalid", "detached", "gone"}]
      /\ added[c] \in 0 .. Length
  BY DEF Records, Typed, StampsTyped, StatesTyped, ScriptsTyped
<1> SUFFICES ASSUME NEW d \in Ctx
             PROVE  Bounded(d)' /\ FastRight(d)' /\ ExpiredRight(d)' /\ StampRight(d)'
  BY DEF Stamps
<1>4. Waits(d)' = Waits(d) /\ Listed(d)' = Listed(d) /\ FastOf(d)' = FastOf(d)
      /\ ExpiredOf(d)' = ExpiredOf(d)
  BY <1>1 DEF Waits, InHand, Listed, FastOf, ExpiredOf
<1>5. CASE d # c
  <2>1. Stands(d)
    BY <1>1, <1>2, <1>3, <1>4, <1>5 DEF Stands
  <2>2. retired'[d] = retired[d] /\ synced'[d] = synced[d]
    BY <1>1, <1>2, <1>3, <1>5
  <2> QED
    BY <1>1, <2>1, <2>2, StandsRight DEF Stamps
<1>6. CASE d = c
  <2>1. state'[d] = "gone" /\ retired'[d] = added[d]
    BY <1>2, <1>3, <1>6
  <2>2. StampRight(d)'
    BY <2>1 DEF StampRight
  <2>3. Bounded(d)'
    <3>1. added[d] <= added[d]
      BY <1>3, <1>6, NumsAre
    <3> QED
      BY <1>1, <2>1, <3>1 DEF Stamps, Bounded
  <2>4. FastRight(d)' /\ ExpiredRight(d)'
    BY <1>1, <1>4 DEF Stamps, FastRight, ExpiredRight
  <2> QED
    BY <2>2, <2>3, <2>4
<1> QED
  BY <1>5, <1>6

\* The lines of a context, as far as its timestamps need them.
LEMMA LinesAre ==
    ASSUME Records, NEW c \in Ctx
    PROVE  /\ Waits(c) \cup Elems(hwq[c]) \cup Listed(c) \subseteq 1 .. added[c]
           /\ Increasing(hwq[c]) /\ Increasing(queue[c])
           /\ \A i \in Elems(hwq[c]) \cup Listed(c), j \in Waits(c) : i < j
           /\ \A i \in InHand(c), j \in Elems(queue[c]) : i < j
BY DEF Records, LinesRight, LineRight, LineFits, Below, Waits

\* What a marker waits for.
LEMMA BehindIs ==
    ASSUME NEW c \in Ctx, NEW i \in Nums
    PROVE  /\ Behind(c, i) \in Nat /\ Behind(c, i) < i
           /\ Behind(c, i) # 0 => Behind(c, i) \in Nums /\ <<c, Behind(c, i)>> \in Stamped \ fast
           /\ \A j \in Nums : j < i /\ <<c, j>> \in Stamped \ fast => j <= Behind(c, i)
<1> DEFINE K == {j \in 1 .. i - 1 : <<c, j>> \in Stamped \ fast}
<1>1. i \in Nat /\ i >= 1 /\ \A j \in Nums : j \in Nat /\ j >= 1
  BY NumsAre
<1>2. K \in SUBSET Nat /\ IsFiniteSet(K) /\ K \subseteq 1 .. i - 1
  <2>1. IsFiniteSet(1 .. i - 1) /\ K \in SUBSET (1 .. i - 1)
    BY <1>1, FS_Interval
  <2>2. IsFiniteSet(K)
    BY <2>1, FS_Subset
  <2> QED
    BY <2>1, <2>2
<1>3. Highest(K) \in K \cup {0} /\ \A m \in K : m <= Highest(K)
  BY <1>2, HighestIs
<1>4. Behind(c, i) = Highest(K)
  BY DEF Behind
<1>5. \A j \in Nums : j < i /\ <<c, j>> \in Stamped \ fast => j \in K
  BY <1>1
<1>6. Behind(c, i) # 0 => Behind(c, i) \in Nums /\ <<c, Behind(c, i)>> \in Stamped \ fast
  <2> SUFFICES ASSUME Behind(c, i) # 0  PROVE Behind(c, i) \in Nums /\ Behind(c, i) \in K
    OBVIOUS
  <2>1. Behind(c, i) \in K
    BY <1>3, <1>4
  <2>2. \A j \in 1 .. i - 1 : j \in Nums
    BY <1>1, NumsAre DEF Nums
  <2> QED
    BY <2>1, <2>2
<1>7. Behind(c, i) \in Nat /\ Behind(c, i) < i
  BY <1>1, <1>2, <1>3, <1>4
<1> QED
  BY <1>3, <1>4, <1>5, <1>6, <1>7

\* When what a marker waits for has retired, only sync objects are before it.
LEMMA BehindRetired ==
    ASSUME Records, Stamps, NEW c \in Ctx, state[c] = "ok", NEW i \in Nums,
           Behind(c, i) <= retired[c]
    PROVE  \A j \in Elems(hwq[c]) \cup (Waits(c) \ ExpiredOf(c)) : j < i => j \in SyncsOf(c)
<1> SUFFICES ASSUME NEW j \in Elems(hwq[c]) \cup (Waits(c) \ ExpiredOf(c)), j < i, j \notin SyncsOf(c)
             PROVE  FALSE
  OBVIOUS
<1>1. j \in 1 .. added[c] /\ j \in Waits(c) \cup Elems(hwq[c])
  BY LinesAre
<1>2. j \in Nums /\ <<c, j>> \in Stamped
  BY <1>1, SubmittedIs
<1>3. <<c, j>> \notin fast
  BY <1>1, <1>2 DEF Stamps, FastRight, FastOf
<1>4. j <= Behind(c, i) /\ Behind(c, i) \in Nat
  BY <1>2, <1>3, BehindIs
<1>5. ~Done(SyncsOf(c), j, retired[c], synced[c])
  BY DEF Stamps, StampRight, StampsFit
<1>6. ~(j <= retired[c])
  BY <1>5 DEF Done
<1>7. retired[c] \in Nat /\ j \in Nat
  <2>1. retired[c] \in 0 .. Length
    BY StampsAreTyped
  <2>2. retired[c] \in Nat
    BY ONLY <2>1
  <2>3. j \in Nat
    BY ONLY <1>2, NumsAre
  <2> QED
    BY ONLY <2>2, <2>3
<1> QED
  BY <1>4, <1>6, <1>7

\* A marker retires at once.
LEMMA FastMarkerStamps == ASSUME Records, Stamps, NEW c \in Ctx, FastMarker(c)  PROVE Stamps'
<1> DEFINE i == added[c] + 1
<1> USE DEF FastMarker, CanSubmit, lists, runs, books, hw, power, bounds
<1>1. UNCHANGED <<script, hwFence, expired, hwq, list, hand, queue, synced, state>>
  OBVIOUS
<1>2. /\ fast' = fast \cup {<<c, i>>} /\ Behind(c, i) <= retired[c] /\ ~Bad(c)
      /\ added' = [added EXCEPT ![c] = i] /\ retired' = [retired EXCEPT ![c] = i]
      /\ thread[c] = "past"
  OBVIOUS
<1>3. /\ retired \in [Ctx -> 0 .. Length] /\ added \in [Ctx -> 0 .. Length] /\ Length \in Nat
      /\ added[c] < Len(script[c]) /\ Len(script[c]) <= Length /\ script[c] \in Seq(Kinds)
  BY <1>2, NumsAre DEF Records, Typed, StampsTyped, ScriptsTyped, PassRight
<1>4. i \in Nums /\ i \in 0 .. Length /\ added[c] \in 0 .. Length /\ added[c] < i
  BY <1>3, LenProperties DEF Nums
<1>5. /\ added'[c] = i /\ retired'[c] = i
      /\ \A d \in Ctx \ {c} : added'[d] = added[d] /\ retired'[d] = retired[d]
  BY <1>2, <1>3
<1> SUFFICES ASSUME NEW d \in Ctx
             PROVE  Bounded(d)' /\ FastRight(d)' /\ ExpiredRight(d)' /\ StampRight(d)'
  BY DEF Stamps
<1>6. Waits(d)' = Waits(d) /\ Listed(d)' = Listed(d) /\ ExpiredOf(d)' = ExpiredOf(d)
  BY <1>1 DEF Waits, InHand, Listed, ExpiredOf
<1>7. FastOf(d)' = IF d = c THEN FastOf(d) \cup {i} ELSE FastOf(d)
  BY <1>2, <1>4 DEF FastOf
<1> HIDE DEF i, FastMarker
<1>8. CASE d # c
  <2>1. Stands(d)
    BY <1>1, <1>5, <1>6, <1>7, <1>8 DEF Stands
  <2>2. retired'[d] = retired[d] /\ synced'[d] = synced[d]
    BY <1>1, <1>5, <1>8
  <2> QED
    BY <1>1, <2>1, <2>2, StandsRight DEF Stamps
<1>9. CASE d = c
  <2>1. Waits(c) \cup Elems(hwq[c]) \cup Listed(c) \subseteq 1 .. added[c]
    BY LinesAre
  <2>2. retired[c] <= added[c] /\ synced[c] <= added[c] /\ retired[c] \in 0 .. Length
        /\ synced[c] \in 0 .. Length
    BY StampsAreTyped DEF Stamps, Bounded
  <2>3. Bounded(d)'
    <3>1. i <= i /\ synced[c] <= i
      BY <1>4, <2>2
    <3> QED
      BY <1>1, <1>5, <1>9, <3>1 DEF Bounded
  <2>4. FastRight(d)'
    <3>1. FastOf(c) \subseteq 1 .. added[c]
      BY DEF Stamps, FastRight
    <3>2. 1 .. added[c] \subseteq 1 .. i /\ i \in 1 .. i /\ i \notin 1 .. added[c]
      BY <1>4
    <3>3. FastOf(c) \cap (Waits(c) \cup Elems(hwq[c]) \cup Listed(c)) = {}
      BY DEF Stamps, FastRight
    <3> QED
      BY <1>1, <1>5, <1>6, <1>7, <1>9, <2>1, <3>1, <3>2, <3>3 DEF FastRight
  <2>5. ExpiredRight(d)'
    <3>1. \A j \in ExpiredOf(c) : j \in Nums /\ hwFence /\ script[c][j] = "marker" /\ j <= added[c]
      BY DEF Stamps, ExpiredRight, ExpiredOf
    <3>2. \A j \in Nums : j <= added[c] => j <= i
      BY <1>4, NumsAre
    <3> QED
      BY <1>1, <1>5, <1>6, <1>9, <3>1, <3>2 DEF ExpiredRight
  <2>6. StampRight(d)'
    <3>1. SUFFICES ASSUME state[c] = "ok"
                   PROVE  StampsFit(SyncsOf(c), ExpiredOf(c), Waits(c), Elems(hwq[c]), Listed(c),
                                    i, synced[c])
      BY <1>1, <1>5, <1>6, <1>9, SameKinds DEF StampRight
    <3>2. \A j \in Elems(hwq[c]) \cup (Waits(c) \ ExpiredOf(c)) : j \in SyncsOf(c)
      <4>1. \A j \in 1 .. added[c] : j < i
        BY <1>4
      <4> QED
        BY <1>2, <1>4, <2>1, <3>1, <4>1, BehindRetired
    <3>3. retired[c] <= i
      BY <1>4, <2>2
    <3>4. Elems(hwq[c]) \subseteq SyncsOf(c) /\ Waits(c) \ (ExpiredOf(c) \cup SyncsOf(c)) = {}
      BY <3>2
    <3>5. StampsFit(SyncsOf(c), ExpiredOf(c), Waits(c), Elems(hwq[c]), Listed(c),
                    retired[c], synced[c])
      BY <3>1 DEF Stamps, StampRight
    <3> QED
      BY <1>4, <3>3, <3>4, <3>5, StampsAreTyped, StampsRetire
  <2> QED
    BY <2>3, <2>4, <2>5, <2>6
<1> QED
  BY <1>8, <1>9

\* An object is queued.
LEMMA QueueStamps == ASSUME Records, Stamps, NEW c \in Ctx, Queue(c)  PROVE Stamps'
<1> DEFINE i == added[c] + 1
<1> USE DEF Queue, CanSubmit, stamps, runs, books, hw, power, bounds
<1>1. UNCHANGED <<script, hwFence, expired, fast, hwq, list, hand, retired, synced, state>>
  OBVIOUS
<1>2. /\ added' = [added EXCEPT ![c] = i] /\ queue' = [queue EXCEPT ![c] = Append(queue[c], i)]
      /\ thread[c] = "past"
  OBVIOUS
<1>3. /\ queue \in [Ctx -> Seq(Nums)] /\ added \in [Ctx -> 0 .. Length] /\ Length \in Nat
      /\ added[c] < Len(script[c]) /\ Len(script[c]) <= Length /\ script[c] \in Seq(Kinds)
  BY <1>2, NumsAre DEF Records, Typed, LinesTyped, ScriptsTyped, PassRight
<1>4. i \in Nums /\ added[c] \in 0 .. Length /\ added[c] < i
  BY <1>3, LenProperties DEF Nums
<1>5. /\ added'[c] = i /\ queue'[c] = Append(queue[c], i)
      /\ \A d \in Ctx \ {c} : added'[d] = added[d] /\ queue'[d] = queue[d]
  BY <1>2, <1>3
<1>6. Elems(queue'[c]) = Elems(queue[c]) \cup {i}
  <2>1. \A x \in Nums : /\ Append(queue[c], x) \in Seq(Nums)
                       /\ Elems(Append(queue[c], x)) = Elems(queue[c]) \cup {x}
                       /\ <<x>> \o queue[c] \in Seq(Nums)
                       /\ Elems(<<x>> \o queue[c]) = {x} \cup Elems(queue[c])
    BY <1>3, ElemsOf
  <2> QED
    BY <1>4, <1>5, <2>1
<1> SUFFICES ASSUME NEW d \in Ctx
             PROVE  Bounded(d)' /\ FastRight(d)' /\ ExpiredRight(d)' /\ StampRight(d)'
  BY DEF Stamps
<1>7. Listed(d)' = Listed(d) /\ ExpiredOf(d)' = ExpiredOf(d) /\ FastOf(d)' = FastOf(d)
      /\ InHand(d)' = InHand(d)
  BY <1>1 DEF InHand, Listed, ExpiredOf, FastOf
<1>8. Waits(d)' = IF d = c THEN Waits(d) \cup {i} ELSE Waits(d)
  BY <1>5, <1>6, <1>7 DEF Waits
<1> HIDE DEF i, Queue
<1>9. CASE d # c
  <2>1. Stands(d)
    BY <1>1, <1>5, <1>7, <1>8, <1>9 DEF Stands
  <2> QED
    BY <1>1, <2>1, StandsRight DEF Stamps
<1>10. CASE d = c
  <2>1. retired[c] <= added[c] /\ synced[c] <= added[c] /\ retired[c] \in 0 .. Length
        /\ synced[c] \in 0 .. Length
    BY StampsAreTyped DEF Stamps, Bounded
  <2>2. retired[c] < i /\ synced[c] < i /\ retired[c] <= i /\ synced[c] <= i
        /\ ~(i <= retired[c]) /\ ~(i <= synced[c])
    BY <1>4, <2>1, NumsAre
  <2>3. \A j \in Nums : j <= added[c] => j <= i /\ j # i
    BY <1>4, NumsAre
  <2>4. Bounded(d)'
    BY <1>1, <1>5, <1>10, <2>2 DEF Bounded
  <2>5. FastOf(c) \subseteq 1 .. added[c] /\ \A j \in ExpiredOf(c) : j \in Nums /\ j <= added[c]
    BY DEF Stamps, FastRight, ExpiredRight, ExpiredOf
  <2>6. i \notin FastOf(c) /\ i \notin ExpiredOf(c)
    BY <1>4, <2>3, <2>5
  <2>7. FastRight(d)'
    <3>1. FastOf(c) \cap (Waits(c) \cup Elems(hwq[c]) \cup Listed(c)) = {}
      BY DEF Stamps, FastRight
    <3>2. 1 .. added[c] \subseteq 1 .. i
      BY <1>4, NumsAre
    <3> QED
      BY <1>1, <1>5, <1>7, <1>8, <1>10, <2>5, <2>6, <3>1, <3>2 DEF FastRight
  <2>8. ExpiredRight(d)'
    <3>1. \A j \in ExpiredOf(c) : hwFence /\ script[c][j] = "marker" /\ j <= i
      BY <2>3, <2>5 DEF Stamps, ExpiredRight
    <3> QED
      BY <1>1, <1>5, <1>7, <1>10, <3>1 DEF ExpiredRight
  <2>9. StampRight(d)'
    <3>1. SUFFICES ASSUME state[c] = "ok"
                   PROVE  StampsFit(SyncsOf(c), ExpiredOf(c), Waits(c) \cup {i}, Elems(hwq[c]),
                                    Listed(c), retired[c], synced[c])
      BY <1>1, <1>7, <1>8, <1>10, SameKinds DEF StampRight
    <3>2. ~Done(SyncsOf(c), i, retired[c], synced[c])
      BY <2>2 DEF Done
    <3>3. StampsFit(SyncsOf(c), ExpiredOf(c), Waits(c), Elems(hwq[c]), Listed(c),
                    retired[c], synced[c])
      BY <3>1 DEF Stamps, StampRight
    <3> QED
      BY <1>4, <2>6, <3>2, <3>3, StampsAreTyped, StampsMove
  <2> QED
    BY <2>4, <2>7, <2>8, <2>9
<1> QED
  BY <1>9, <1>10

\* A send does not come off.
LEMMA UnsentStamps ==
    ASSUME Records, Stamps, SendAborts \/ SendUnpowered \/ SendFails
    PROVE  Stamps'
<1> USE DEF SendAborts, SendUnpowered, SendFails, MaySend, ctxs, stamps, hw
<1>1. hand # None /\ Back
  BY DEF Back
<1>2. UNCHANGED <<script, hwFence, added, fast, expired, hwq, list, retired, synced, state>>
  BY DEF books
<1> QED
  BY <1>1, <1>2, BackStamps

\* An object goes to the GMU; a marker that expired, only on the list.
LEMMA SendStamps == ASSUME Records, Stamps, Send  PROVE Stamps'
<1> USE DEF Send, MaySend, ctxs, stamps, lists, runs, books, hw, power, bounds
<1>1. PICK c \in Ctx, x \in Nums : hand = <<c, x>>
  BY DEF Records, Typed, PassTyped, Obj, Nums
<1>2. hand \in Obj /\ hand[1] = c /\ hand[2] = x
  BY <1>1 DEF Obj, Nums
<1>3. UNCHANGED <<script, hwFence, expired, fast, added, queue, retired, synced, state>>
  OBVIOUS
<1>4. hand' = None /\ list' = Append(list, hand)
      /\ hwq' = (IF hand \in expired THEN hwq ELSE [hwq EXCEPT ![c] = Append(hwq[c], x)])
  BY <1>2
<1>5. hwq \in [Ctx -> Seq(Nums)] /\ list \in Seq(Obj)
  BY DEF Records, Typed, LinesTyped
<1>6. Elems(list') = Elems(list) \cup {hand} /\ Elems(Append(hwq[c], x)) = Elems(hwq[c]) \cup {x}
  <2>1. Elems(Append(hwq[c], x)) = Elems(hwq[c]) \cup {x}
    <3>1. \A y \in Nums : /\ Append(hwq[c], y) \in Seq(Nums)
                         /\ Elems(Append(hwq[c], y)) = Elems(hwq[c]) \cup {y}
                         /\ <<y>> \o hwq[c] \in Seq(Nums)
                         /\ Elems(<<y>> \o hwq[c]) = {y} \cup Elems(hwq[c])
      BY <1>5, ElemsOf
    <3> QED
      BY <3>1
  <2>2. \A o \in Obj : /\ Append(list, o) \in Seq(Obj) /\ Elems(Append(list, o)) = Elems(list) \cup {o}
                        /\ <<o>> \o list \in Seq(Obj) /\ Elems(<<o>> \o list) = {o} \cup Elems(list)
    BY <1>5, ElemsOf
  <2> QED
    BY <1>2, <1>4, <2>1, <2>2
<1>7. InHand(c) = {x} /\ (\A d \in Ctx \ {c} : InHand(d) = {}) /\ \A d \in Ctx : InHand(d)' = {}
  <2>1. \A d \in Ctx : InHand(d)' = {}
    BY <1>4, NoneIsNone DEF InHand, Nums, None, Obj
  <2> QED
    BY <1>1, <2>1 DEF InHand
<1>8. Listed(c)' = Listed(c) \cup {x} /\ \A d \in Ctx \ {c} : Listed(d)' = Listed(d)
  BY <1>1, <1>6 DEF Listed
<1>9. /\ Elems(hwq'[c]) = IF x \in ExpiredOf(c) THEN Elems(hwq[c]) ELSE Elems(hwq[c]) \cup {x}
      /\ \A d \in Ctx \ {c} : hwq'[d] = hwq[d]
  BY <1>1, <1>4, <1>5, <1>6 DEF ExpiredOf
<1> HIDE DEF Send
<1> SUFFICES ASSUME NEW d \in Ctx
             PROVE  Bounded(d)' /\ FastRight(d)' /\ ExpiredRight(d)' /\ StampRight(d)'
  BY DEF Stamps
<1>10. Waits(d)' = Elems(queue[d]) /\ ExpiredOf(d)' = ExpiredOf(d) /\ FastOf(d)' = FastOf(d)
  BY <1>3, <1>7 DEF Waits, ExpiredOf, FastOf
<1>11. CASE d # c
  <2>1. Stands(d)
    BY <1>3, <1>7, <1>8, <1>9, <1>10, <1>11 DEF Stands, Waits
  <2> QED
    BY <1>3, <2>1, StandsRight DEF Stamps
<1>12. CASE d = c
  <2>1. Waits(c) = Elems(queue[c]) \cup {x}
    BY <1>7 DEF Waits
  <2>2. Bounded(d)' /\ ExpiredRight(d)'
    BY <1>3, <1>10 DEF Stamps, Bounded, ExpiredRight
  <2>3. FastRight(d)'
    BY <1>3, <1>8, <1>9, <1>10, <1>12, <2>1 DEF Stamps, FastRight
  <2>4. StampRight(d)'
    <3>1. SUFFICES ASSUME state[c] = "ok"
                   PROVE  StampsFit(SyncsOf(c), ExpiredOf(c), Elems(queue[c]), Elems(hwq'[c]),
                                    Listed(c) \cup {x}, retired[c], synced[c])
      BY <1>3, <1>8, <1>10, <1>12, SameKinds DEF StampRight
    <3>2. StampsFit(SyncsOf(c), ExpiredOf(c), Waits(c), Elems(hwq[c]), Listed(c),
                    retired[c], synced[c])
      BY <3>1 DEF Stamps, StampRight
    <3>3. CASE x \in ExpiredOf(c)
      <4>1. x \notin SyncsOf(c)
        <5>1. script[c][x] = "marker"
          BY <3>3 DEF Stamps, ExpiredRight
        <5> QED
          BY <5>1 DEF SyncsOf, Syncs, Stamped, Kind
      <4>2. x \in (Waits(c) \cap ExpiredOf(c)) \ SyncsOf(c) /\ Elems(queue[c]) \in SUBSET Waits(c)
        BY <2>1, <3>3, <4>1
      <4> QED
        BY <1>9, <3>2, <3>3, <4>2, StampsAreTyped, StampsMove
    <3>4. CASE x \notin ExpiredOf(c)
      <4>1. \A j \in Elems(queue[c]) : x < j
        BY <1>7, LinesAre
      <4>2. x \in Waits(c) \ ExpiredOf(c) /\ Elems(queue[c]) \in SUBSET Waits(c)
        BY <2>1, <3>4
      <4>3. \A V \in SUBSET Waits(c), y \in Waits(c) \ ExpiredOf(c) :
              (\A j \in V : y < j)
                => StampsFit(SyncsOf(c), ExpiredOf(c), V, Elems(hwq[c]) \cup {y}, Listed(c) \cup {y},
                             retired[c], synced[c])
        BY <3>2, StampsAreTyped, StampsMove
      <4> QED
        BY <1>9, <3>4, <4>1, <4>2, <4>3
    <3> QED
      BY <3>3, <3>4
  <2> QED
    BY <2>2, <2>3, <2>4
<1> QED
  BY <1>11, <1>12

\* What has retired by the records is done.
LEMMA RetiredIs ==
    \A c \in Ctx, i \in Nums : Retired(<<c, i>>) <=> Done(SyncsOf(c), i, retired[c], synced[c])
BY DEF Retired, Done, SyncsOf

\* The worker retires what is done, and begins a pass.
LEMMA WorkStartsStamps == ASSUME Records, Stamps, WorkStarts  PROVE Stamps'
<1> DEFINE S == {o \in Elems(list) : Retired(o)}
<1> USE DEF WorkStarts, ctxs, stamps, hw, power, bounds, Took
<1>1. UNCHANGED <<script, hwFence, expired, fast, added, hwq, hand, queue, retired, synced, state>>
  OBVIOUS
<1>2. S \in SUBSET Elems(list) /\ Retires(S)
  OBVIOUS
<1>3. Elems(list') = Elems(list) \ S
  BY <1>2, ListRetires DEF Records, Typed, LinesTyped, LinesRight, ListAgrees
<1> HIDE DEF WorkStarts
<1> SUFFICES ASSUME NEW c \in Ctx
             PROVE  Bounded(c)' /\ FastRight(c)' /\ ExpiredRight(c)' /\ StampRight(c)'
  BY DEF Stamps
<1>4. Waits(c)' = Waits(c) /\ ExpiredOf(c)' = ExpiredOf(c) /\ FastOf(c)' = FastOf(c)
  BY <1>1 DEF Waits, InHand, ExpiredOf, FastOf
<1>5. /\ Listed(c)' \subseteq Listed(c)
      /\ \A i \in Listed(c) \ Listed(c)' : Done(SyncsOf(c), i, retired[c], synced[c])
  BY <1>3, RetiredIs DEF Listed
<1>6. Stands(c)
  BY <1>1, <1>4, <1>5 DEF Stands
<1> QED
  BY <1>1, <1>6, StandsRight DEF Stamps

\* The GMU executes an object.
LEMMA ExecuteStamps == ASSUME Records, Stamps, NEW c \in Ctx, Execute(c)  PROVE Stamps'
<1> DEFINE h == Head(hwq[c])
           H == Elems(hwq[c])
<1> USE DEF Execute, ctxs, lists, runs, books, power, bounds
<1>1. UNCHANGED <<script, hwFence, expired, fast, added, list, hand, queue, state>>
  OBVIOUS
<1>2. /\ hwq' = [hwq EXCEPT ![c] = Tail(hwq[c])] /\ hwq[c] # <<>>
      /\ IF <<c, h>> \in Syncs THEN synced' = [synced EXCEPT ![c] = h] /\ retired' = retired
                               ELSE retired' = [retired EXCEPT ![c] = h] /\ synced' = synced
  OBVIOUS
<1>3. /\ hwq \in [Ctx -> Seq(Nums)] /\ retired \in [Ctx -> 0 .. Length]
      /\ synced \in [Ctx -> 0 .. Length] /\ added[c] \in 0 .. Length
  BY DEF Records, Typed, LinesTyped, StampsTyped, ScriptsTyped
<1>4. h \in H /\ h \in Nums /\ h <= added[c] /\ h \in 0 .. Length
      /\ Elems(Tail(hwq[c])) = H \ {h} /\ \A i \in Waits(c) \cup (H \ {h}) : h < i
  <2>1. H = {h} \cup Elems(Tail(hwq[c])) /\ h \in Nums /\ Tail(hwq[c]) \in Seq(Nums)
    BY <1>2, <1>3, ElemsOf
  <2>2. \A i \in Elems(Tail(hwq[c])) : h < i
    <3>1. Below({h}, Elems(Tail(hwq[c])))
      BY <1>2, <1>3, LinesAre, IncreasingOf
    <3> QED
      BY <3>1 DEF Below
  <2>3. h \notin Elems(Tail(hwq[c]))
    <3>1. \A n \in Nums : ~(n < n)
      BY NumsAre
    <3> QED
      BY <2>1, <2>2, <3>1
  <2>4. (\A i \in Waits(c) : h < i) /\ h \in 1 .. added[c]
    BY <2>1, LinesAre
  <2>5. h <= added[c] /\ h \in 0 .. Length
    BY <2>1, <2>4, NumsAre DEF Nums
  <2> QED
    BY <2>1, <2>2, <2>3, <2>4, <2>5
<1>5. <<c, h>> \in Syncs <=> h \in SyncsOf(c)
  BY <1>4 DEF SyncsOf
<1>6. /\ Elems(hwq'[c]) = H \ {h}
      /\ \A d \in Ctx \ {c} : hwq'[d] = hwq[d] /\ retired'[d] = retired[d] /\ synced'[d] = synced[d]
      /\ h \in SyncsOf(c) => synced'[c] = h /\ retired'[c] = retired[c]
      /\ h \notin SyncsOf(c) => synced'[c] = synced[c] /\ retired'[c] = h
  BY <1>2, <1>3, <1>4, <1>5
<1> HIDE DEF Execute, h
<1> SUFFICES ASSUME NEW d \in Ctx
             PROVE  Bounded(d)' /\ FastRight(d)' /\ ExpiredRight(d)' /\ StampRight(d)'
  BY DEF Stamps
<1>7. Waits(d)' = Waits(d) /\ Listed(d)' = Listed(d) /\ ExpiredOf(d)' = ExpiredOf(d)
      /\ FastOf(d)' = FastOf(d)
  BY <1>1 DEF Waits, InHand, Listed, ExpiredOf, FastOf
<1>8. CASE d # c
  <2>1. hwq'[d] = hwq[d] /\ retired'[d] = retired[d] /\ synced'[d] = synced[d]
    BY <1>6, <1>8
  <2>2. Stands(d)
    BY <1>1, <1>7, <2>1 DEF Stands
  <2> QED
    BY <1>1, <2>1, <2>2, StandsRight DEF Stamps
<1>9. CASE d = c
  <2>1. Bounded(d)'
    BY <1>1, <1>4, <1>6, <1>9 DEF Stamps, Bounded
  <2>2. FastRight(d)'
    BY <1>1, <1>6, <1>7, <1>9 DEF Stamps, FastRight
  <2>3. ExpiredRight(d)'
    BY <1>1, <1>7 DEF Stamps, ExpiredRight
  <2>4. StampRight(d)'
    <3>1. SUFFICES ASSUME state[c] = "ok"
                   PROVE  StampsFit(SyncsOf(c), ExpiredOf(c), Waits(c), H \ {h}, Listed(c),
                                    retired'[c], synced'[c])
      BY <1>1, <1>6, <1>7, <1>9, SameKinds DEF StampRight
    <3>2. StampsFit(SyncsOf(c), ExpiredOf(c), Waits(c), H, Listed(c), retired[c], synced[c])
      BY <3>1 DEF Stamps, StampRight
    <3> HIDE DEF H
    <3>3. H \in SUBSET Nums
      BY StampsAreTyped DEF H
    <3>4. \A k \in H : (\A i \in Waits(c) \cup (H \ {k}) : k < i)
            => IF k \in SyncsOf(c)
               THEN StampsFit(SyncsOf(c), ExpiredOf(c), Waits(c), H \ {k}, Listed(c), retired[c], k)
               ELSE retired[c] <= k /\ StampsFit(SyncsOf(c), ExpiredOf(c), Waits(c), H \ {k}, Listed(c), k, synced[c])
      BY <3>2, <3>3, StampsAreTyped, StampsRetire
    <3> QED
      BY <1>4, <1>6, <3>4
  <2> QED
    BY <2>1, <2>2, <2>3, <2>4
<1> QED
  BY <1>8, <1>9

\* The least of a set of numbers.
LEMMA LeastIs ==
    ASSUME NEW K \in SUBSET Nat, IsFiniteSet(K), K # {}
    PROVE  \E n \in K : \A m \in K : n <= m
<1> DEFINE N == Cardinality(K)
<1>1. N \in Nat /\ N # 0
  BY FS_CardinalityType, FS_EmptySet
<1>2. 1 \in 1 .. N
  BY <1>1
<1>3. PICK n \in K : Rank(n, K) = 1
  BY <1>2, Ranks
<1>4. ASSUME NEW m \in K, ~(n <= m)  PROVE FALSE
  <2>1. m < n
    BY <1>4
  <2>2. Rank(m, K) < Rank(n, K) /\ Rank(m, K) \in 1 .. N
    BY <2>1, Ranks
  <2> HIDE DEF N
  <2> QED
    BY <1>1, <1>3, <2>2
<1> QED
  BY <1>4

\* What retires of a context without the GMU is behind nothing the GMU has, and
\* before what is left.
LEMMA PassStamps ==
    ASSUME Records, Stamps, NEW c \in Ctx, state[c] = "ok", hand = None
    PROVE  /\ At(c) = retired[c] \/ (~hwFence /\ Elems(hwq[c]) \subseteq SyncsOf(c))
           /\ \A i \in Elems(Rest(c)) \ (ExpiredOf(c) \cup SyncsOf(c)) : At(c) < i
<1> DEFINE q == queue[c]
           n == Passed(c)
           P == {j \in 1 .. n : <<c, q[j]>> \in Stamped}
<1>1. /\ q \in Seq(Nums) /\ Len(q) \in Nat /\ n \in 0 .. Len(q) /\ \A j \in 1 .. n : Passes(c, j)
      /\ DOMAIN q = 1 .. Len(q)
  BY StampsAreTyped, LenProperties, PassedIs
<1>2. \A j \in 1 .. n : q[j] \in Nums /\ q[j] \in Elems(q) /\ q[j] \in Waits(c)
  BY <1>1, ElementOfSeq DEF Elems, Waits
<1>3. At(c) = retired[c] \/ P # {}
  BY AtIs DEF Records
<1>4. P # {} => ~hwFence /\ Elems(hwq[c]) \subseteq SyncsOf(c)
  <2> SUFFICES ASSUME P # {}  PROVE ~hwFence /\ Elems(hwq[c]) \subseteq SyncsOf(c)
    OBVIOUS
  <2>1. P \in SUBSET Nat /\ IsFiniteSet(P)
    <3>1. P \in SUBSET (1 .. n) /\ IsFiniteSet(1 .. n)
      BY <1>1, FS_Interval
    <3>2. IsFiniteSet(P)
      BY <3>1, FS_Subset
    <3> QED
      BY <3>1, <3>2
  <2>2. PICK j \in P : \A k \in P : j <= k
    BY <2>1, LeastIs
  <2>3. j \in 1 .. n /\ <<c, q[j]>> \in Stamped
    OBVIOUS
  <2>4. Passes(c, j) /\ <<c, q[j]>> \notin Syncs
    BY <1>1, <2>3 DEF Syncs
  <2>5. ~hwFence /\ (\/ Behind(c, q[j]) <= retired[c]
                     \/ Behind(c, q[j]) \in {q[k] : k \in 1 .. j - 1})
    BY <2>4 DEF Passes
  <2>6. Behind(c, q[j]) \notin {q[k] : k \in 1 .. j - 1}
    <3> SUFFICES ASSUME NEW k \in 1 .. j - 1, Behind(c, q[j]) = q[k]  PROVE FALSE
      OBVIOUS
    <3>1. k \in 1 .. n /\ k < j /\ ~(j <= k)
      BY <1>1, <2>3
    <3>2. q[k] \in Nums /\ q[k] # 0
      BY <1>2, <3>1, NumsAre
    <3>3. <<c, q[k]>> \in Stamped
      BY <1>2, <2>3, <3>2, BehindIs
    <3> QED
      BY <2>2, <3>1, <3>3
  <2>7. \A i \in Elems(hwq[c]) : i < q[j]
    BY <1>2, <2>3, LinesAre
  <2> QED
    BY <1>2, <2>3, <2>5, <2>6, <2>7, BehindRetired
<1>5. \A i \in Elems(Rest(c)) \ (ExpiredOf(c) \cup SyncsOf(c)) : At(c) < i
  <2> SUFFICES ASSUME NEW i \in Elems(Rest(c)) \ (ExpiredOf(c) \cup SyncsOf(c))  PROVE At(c) < i
    OBVIOUS
  <2>1. /\ Rest(c) \in Seq(Nums) /\ Len(Rest(c)) = Len(q) - n
        /\ \A k \in 1 .. Len(Rest(c)) : Rest(c)[k] = q[k + n]
        /\ Elems(Rest(c)) \subseteq Elems(q)
    BY <1>1, LinesAre, RestIs
  <2>2. PICK k \in 1 .. Len(Rest(c)) : i = q[k + n]
    <3>1. DOMAIN Rest(c) = 1 .. Len(Rest(c))
      BY <2>1, LenProperties
    <3> QED
      BY <2>1, <3>1 DEF Elems
  <2>3. CASE At(c) = retired[c]
    <3>1. i \in Waits(c) \ ExpiredOf(c)
      BY <2>1 DEF Waits
    <3>2. ~(i <= retired[c])
      BY <3>1 DEF Stamps, StampRight, StampsFit, Done
    <3>3. retired[c] \in 0 .. Length /\ i \in Nums
      BY <3>1, StampsAreTyped
    <3> QED
      BY <2>3, <3>2, <3>3, NumsAre
  <2>4. CASE At(c) # retired[c]
    <3>1. PICK j \in 1 .. n : At(c) = q[j]
      BY <2>4, AtIs DEF Records
    <3>2. j \in DOMAIN q /\ k + n \in DOMAIN q /\ j < k + n
      BY <1>1, <2>1, <2>2, <3>1
    <3>3. Increasing(q)
      BY LinesAre
    <3> QED
      BY <2>2, <3>1, <3>2, <3>3 DEF Increasing
  <2> QED
    BY <2>3, <2>4
<1> QED
  BY <1>3, <1>4, <1>5

\* An object is popped, or the context left; markers retire.
LEMMA PopStamps == ASSUME Records, Stamps, NEW c \in Ctx, Pop(c)  PROVE Stamps'
<1> USE DEF ctxs, stamps, books, hw, power, bounds
<1> DEFINE rest == Rest(c)
           at == At(c)
           x == Head(rest)
           goes == rest # <<>> /\ Goes(<<c, x>>, at)
           past == Kind(<<c, x>>) = "marker" /\ hwFence /\ Behind(c, x) <= at
           V == Elems(Tail(rest))
<1>1. UNCHANGED <<script, hwFence, added, fast, hwq, list, synced, state>> /\ hand = None
  BY DEF Pop
<1>2. /\ rest \in Seq(Nums) /\ Increasing(rest) /\ Elems(rest) \subseteq Elems(queue[c])
      /\ queue \in [Ctx -> Seq(Nums)] /\ retired \in [Ctx -> 0 .. Length] /\ at \in 0 .. Length
      /\ retired[c] <= at
  <2>1. queue[c] \in Seq(Nums) /\ Increasing(queue[c])
    BY StampsAreTyped, LinesAre
  <2>2. queue \in [Ctx -> Seq(Nums)] /\ retired \in [Ctx -> 0 .. Length]
    BY DEF Records, Typed, LinesTyped, StampsTyped
  <2> QED
    BY <2>1, <2>2, RestIs, AtIs DEF Records
<1>3. rest # <<>> => /\ x \in Nums /\ Tail(rest) \in Seq(Nums) /\ Elems(rest) = {x} \cup V
                     /\ \A i \in V : x < i
  <2> SUFFICES ASSUME rest # <<>>
               PROVE  /\ x \in Nums /\ Tail(rest) \in Seq(Nums) /\ Elems(rest) = {x} \cup V
                      /\ \A i \in V : x < i
    OBVIOUS
  <2>1. x \in Nums /\ Tail(rest) \in Seq(Nums) /\ Elems(rest) = {x} \cup V
    BY <1>2, ElemsOf
  <2>2. Below({x}, V)
    BY <1>2, IncreasingOf
  <2> QED
    BY <2>1, <2>2 DEF Below
<1>4. goes => /\ hand' = <<c, x>> /\ queue' = [queue EXCEPT ![c] = Tail(rest)]
              /\ expired' = (IF past THEN expired \cup {<<c, x>>} ELSE expired)
              /\ retired' = [retired EXCEPT ![c] = IF past THEN x ELSE at]
  BY DEF Pop, Rest, At, Gone
<1>5. ~goes => /\ queue' = [queue EXCEPT ![c] = rest] /\ retired' = [retired EXCEPT ![c] = at]
               /\ hand' = hand /\ expired' = expired
  BY DEF Pop, Rest, At, Gone
<1>6. \A d \in Ctx : InHand(d) = {}
  BY <1>1, NoneIsNone DEF InHand, Nums, None, Obj
<1>7. at <= added[c]
  <2>1. retired[c] <= added[c]
    BY DEF Stamps, Bounded
  <2>2. ASSUME NEW j \in 1 .. Passed(c)  PROVE queue[c][j] <= added[c]
    <3>1. Passed(c) \in 0 .. Len(queue[c]) /\ Len(queue[c]) \in Nat /\ DOMAIN queue[c] = 1 .. Len(queue[c])
      BY <1>2, PassedIs, LenProperties
    <3>2. queue[c][j] \in Waits(c)
      BY <3>1 DEF Elems, Waits
    <3>3. queue[c][j] \in 1 .. added[c]
      BY <3>2, LinesAre
    <3>4. added[c] \in Nat
      <4>1. added[c] \in 0 .. Length
        BY StampsAreTyped
      <4> QED
        BY <4>1, NumsAre
    <3> QED
      BY <3>3, <3>4
  <2> QED
    BY <2>1, <2>2, AtIs DEF Records
<1> HIDE DEF rest, at, x, goes, past, V
<1>8. \A d \in Ctx \ {c} : /\ InHand(d)' = {} /\ queue'[d] = queue[d] /\ retired'[d] = retired[d]
                           /\ ExpiredOf(d)' = ExpiredOf(d)
  <2>1. CASE goes
    <3>1. hand' = <<c, x>> /\ \A d \in Ctx \ {c} : queue'[d] = queue[d] /\ retired'[d] = retired[d]
      BY <1>2, <1>4, <2>1
    <3>2. expired' \in {expired, expired \cup {<<c, x>>}}
      BY <1>4, <2>1
    <3> QED
      BY <3>1, <3>2 DEF InHand, ExpiredOf
  <2>2. CASE ~goes
    <3>1. hand' = hand /\ \A d \in Ctx \ {c} : queue'[d] = queue[d] /\ retired'[d] = retired[d]
      BY <1>2, <1>5, <2>2
    <3>2. expired' = expired
      BY <1>5, <2>2
    <3> QED
      BY <1>6, <3>1, <3>2 DEF InHand, ExpiredOf
  <2> QED
    BY <2>1, <2>2
<1>9. \A d \in Ctx : Listed(d)' = Listed(d) /\ FastOf(d)' = FastOf(d)
  BY <1>1 DEF Listed, FastOf
<1>10. Waits(c)' = Elems(rest)
  <2>1. CASE goes
    <3>1. rest # <<>> /\ queue'[c] = Tail(rest) /\ hand' = <<c, x>>
      BY <1>2, <1>4, <2>1 DEF goes
    <3>2. InHand(c)' = {x} /\ Elems(queue'[c]) = V
      BY <1>3, <3>1 DEF InHand, V
    <3> QED
      BY <1>3, <3>1, <3>2 DEF Waits
  <2>2. CASE ~goes
    <3>1. queue'[c] = rest /\ hand' = hand
      BY <1>2, <1>5, <2>2
    <3>2. InHand(c)' = {}
      BY <1>6, <3>1 DEF InHand
    <3> QED
      BY <3>1, <3>2 DEF Waits
  <2> QED
    BY <2>1, <2>2
<1>11. \/ ExpiredOf(c)' = ExpiredOf(c) /\ retired'[c] = at
       \/ rest # <<>> /\ past /\ ExpiredOf(c)' = ExpiredOf(c) \cup {x} /\ retired'[c] = x
  <2>1. CASE goes
    <3>1. rest # <<>> /\ x \in Nums
      BY <1>3, <2>1 DEF goes
    <3>2. CASE past
      <4>1. retired'[c] = x /\ expired' = expired \cup {<<c, x>>}
        BY <1>2, <1>4, <2>1, <3>2
      <4>2. ExpiredOf(c)' = ExpiredOf(c) \cup {x}
        BY <3>1, <4>1 DEF ExpiredOf
      <4> QED
        BY <3>1, <3>2, <4>1, <4>2
    <3>3. CASE ~past
      <4>1. retired'[c] = at /\ expired' = expired
        BY <1>2, <1>4, <2>1, <3>3
      <4> QED
        BY <4>1 DEF ExpiredOf
    <3> QED
      BY <3>2, <3>3
  <2>2. CASE ~goes
    <3>1. retired'[c] = at /\ expired' = expired
      BY <1>2, <1>5, <2>2
    <3> QED
      BY <3>1 DEF ExpiredOf
  <2> QED
    BY <2>1, <2>2
<1>12. Elems(rest) \subseteq Waits(c)
  BY <1>2 DEF Waits
<1>13. rest # <<>> => x \in Waits(c) /\ x \in 1 .. added[c] /\ x <= added[c] /\ x \in Nums
  <2> SUFFICES ASSUME rest # <<>>  PROVE x \in Waits(c) /\ x \in 1 .. added[c] /\ x <= added[c] /\ x \in Nums
    OBVIOUS
  <2>1. x \in Waits(c) /\ x \in Nums
    BY <1>3, <1>12
  <2>2. x \in 1 .. added[c]
    BY <2>1, LinesAre
  <2>3. added[c] \in 0 .. Length
    BY StampsAreTyped
  <2> QED
    BY <2>1, <2>2, <2>3, NumsAre
<1> SUFFICES ASSUME NEW d \in Ctx
             PROVE  Bounded(d)' /\ FastRight(d)' /\ ExpiredRight(d)' /\ StampRight(d)'
  BY DEF Stamps
<1>14. CASE d # c
  <2>1. Waits(d)' \subseteq Waits(d)
    BY <1>8, <1>14 DEF Waits
  <2>2. Stands(d)
    BY <1>1, <1>8, <1>9, <1>14, <2>1 DEF Stands
  <2>3. retired'[d] = retired[d] /\ synced'[d] = synced[d]
    BY <1>1, <1>8, <1>14
  <2> QED
    BY <1>1, <2>2, <2>3, StandsRight DEF Stamps
<1>15. CASE d = c
  <2>1. Bounded(d)'
    <3>1. retired'[c] <= added[c]
      BY <1>7, <1>11, <1>13
    <3> QED
      BY <1>1, <1>15, <3>1 DEF Stamps, Bounded
  <2>2. FastRight(d)'
    BY <1>1, <1>9, <1>10, <1>12, <1>15 DEF Stamps, FastRight
  <2>3. ExpiredRight(d)'
    <3>1. \A i \in ExpiredOf(c) : hwFence /\ script[c][i] = "marker" /\ i <= added[c]
      BY DEF Stamps, ExpiredRight
    <3>2. past => hwFence /\ script[c][x] = "marker"
      BY DEF past, Kind
    <3> QED
      BY <1>1, <1>11, <1>13, <1>15, <3>1, <3>2 DEF ExpiredRight
  <2>4. StampRight(d)'
    <3>1. SUFFICES ASSUME state[c] = "ok"
                   PROVE  StampsFit(SyncsOf(c), ExpiredOf(c)', Elems(rest), Elems(hwq[c]), Listed(c),
                                    retired'[c], synced[c])
      BY <1>1, <1>9, <1>10, <1>15, SameKinds DEF StampRight
    <3>2. StampsFit(SyncsOf(c), ExpiredOf(c), Waits(c), Elems(hwq[c]), Listed(c),
                    retired[c], synced[c])
      BY <3>1 DEF Stamps, StampRight
    <3>3. /\ at = retired[c] \/ (~hwFence /\ Elems(hwq[c]) \subseteq SyncsOf(c))
          /\ \A i \in Elems(rest) \ (ExpiredOf(c) \cup SyncsOf(c)) : at < i
      BY <1>1, <3>1, PassStamps DEF at, rest
    <3>4. CASE ExpiredOf(c)' = ExpiredOf(c) /\ retired'[c] = at
      <4>1. \A W \in SUBSET Waits(c), t \in 0 .. Length :
                retired[c] <= t /\ (t = retired[c] \/ Elems(hwq[c]) \subseteq SyncsOf(c))
                /\ (\A i \in W \ (ExpiredOf(c) \cup SyncsOf(c)) : t < i)
                  => StampsFit(SyncsOf(c), ExpiredOf(c), W, Elems(hwq[c]), Listed(c), t, synced[c])
        <5>1. /\ SyncsOf(c) \in SUBSET Nums /\ ExpiredOf(c) \in SUBSET Nums /\ Waits(c) \in SUBSET Nums
              /\ Elems(hwq[c]) \in SUBSET Nums /\ Listed(c) \in SUBSET Nums
              /\ retired[c] \in 0 .. Length /\ synced[c] \in 0 .. Length
          BY StampsAreTyped
        <5> QED
          BY <3>2, <5>1, StampsRetire
      <4> QED
        BY <1>2, <1>12, <3>3, <3>4, <4>1
    <3>5. CASE rest # <<>> /\ past /\ ExpiredOf(c)' = ExpiredOf(c) \cup {x} /\ retired'[c] = x
      <4>1. hwFence /\ at = retired[c] /\ Behind(c, x) <= retired[c] /\ script[c][x] = "marker"
        BY <3>3, <3>5 DEF past, Kind
      <4>2. x \in Nums /\ x \in Waits(c) /\ Elems(rest) = V \cup {x} /\ \A i \in V : x < i
        BY <1>3, <1>13, <3>5
      <4>3. x \notin SyncsOf(c)
        <5>1. <<c, x>> \in Objects
          BY <1>13, <3>5, SubmittedIs
        <5> QED
          BY <4>1, <5>1 DEF SyncsOf, Syncs, Stamped, Kind
      <4>4. \A i \in Elems(hwq[c]) \cup Listed(c) : i < x
        BY <4>2, LinesAre
      <4>5. Elems(hwq[c]) \subseteq SyncsOf(c)
        BY <3>1, <4>1, <4>2, <4>4, BehindRetired
      <4>6. V \in SUBSET Waits(c)
        BY <1>12, <4>2
      <4>7. \A W \in SUBSET Waits(c), y \in Waits(c) \ SyncsOf(c) :
                Elems(hwq[c]) \subseteq SyncsOf(c) /\ (\A i \in W : y < i) /\ (\A i \in Listed(c) : i < y)
                  => StampsFit(SyncsOf(c), ExpiredOf(c) \cup {y}, W \cup {y}, Elems(hwq[c]), Listed(c),
                               y, synced[c])
        BY <3>2, StampsAreTyped, StampsRetire
      <4>8. StampsFit(SyncsOf(c), ExpiredOf(c) \cup {x}, V \cup {x}, Elems(hwq[c]), Listed(c),
                      x, synced[c])
        BY <4>2, <4>3, <4>4, <4>5, <4>6, <4>7
      <4> QED
        BY <3>5, <4>2, <4>8
    <3> QED
      BY <1>11, <3>4, <3>5
  <2> QED
    BY <2>1, <2>2, <2>3, <2>4
<1> QED
  BY <1>14, <1>15

\* A context found guilty is bad and has no queue; the others keep theirs.
LEMMA GuiltyIs ==
    ASSUME Records, NEW c, NotGuilty \/ (Guilty(c) /\ c \in Ctx), hand' = hand
    PROVE  /\ \A d \in Ctx : /\ Waits(d)' \subseteq Waits(d)
                             /\ state'[d] = "ok" => state[d] = "ok" /\ Waits(d)' = Waits(d)
           /\ Guilty(c) /\ c \in Ctx => state'[c] # "ok"
<1>1. queue \in [Ctx -> Seq(Nums)] /\ state \in [Ctx -> {"ok", "invalid", "detached", "gone"}]
  BY DEF Records, Typed, LinesTyped, StatesTyped
<1>2. \A d \in Ctx : InHand(d)' = InHand(d)
  BY DEF InHand
<1>3. Guilty(c) /\ c \in Ctx => state'[c] # "ok"
  BY <1>1 DEF Guilty
<1>4. CASE NotGuilty
  BY <1>2, <1>3, <1>4 DEF NotGuilty, Waits
<1>5. CASE Guilty(c) /\ c \in Ctx
  <2>1. queue'[c] = <<>> /\ \A d \in Ctx \ {c} : queue'[d] = queue[d] /\ state'[d] = state[d]
    BY <1>1, <1>5 DEF Guilty
  <2> QED
    BY <1>2, <1>3, <1>5, <2>1, EmptyRight DEF Waits
<1> QED
  BY <1>4, <1>5

\* The command that hung, if the recovery finds it.
LEMMA CulpritIs ==
    ASSUME Records, Stamps, awake, Found
    PROVE  LET c == culprit[1]
               x == culprit[2]
           IN  /\ c \in Ctx /\ x \in Nums /\ culprit = <<c, x>>
               /\ x \in Listed(c) /\ x <= added[c] /\ x \notin SyncsOf(c) /\ \A i \in Waits(c) : x < i
               /\ hwq[c] # <<>> /\ x = Head(hwq[c]) /\ x \in Elems(hwq[c])
               /\ state[c] = "ok" => retired[c] <= x
<1> DEFINE c == culprit[1]
           x == culprit[2]
<1>1. culprit \in Elems(list) /\ culprit \in Obj /\ c \in Ctx /\ culprit # None
      /\ Kind(culprit) \in {"cmd", "big"}
  BY FoundIs, NoneIsNone DEF Records, Found
<1>2. x \in Nums /\ culprit = <<c, x>>
  BY <1>1 DEF Obj, Nums
<1>3. hwq[c] # <<>> /\ Head(hwq[c]) = x
  BY <1>1 DEF Records, CulpritRight
<1> HIDE DEF c, x
<1>4. x \in Listed(c)
  BY <1>1, <1>2 DEF Listed
<1>5. x \in 1 .. added[c] /\ \A i \in Waits(c) : x < i
  BY <1>1, <1>4, LinesAre
<1>6. x <= added[c]
  <2>1. added[c] \in 0 .. Length
    BY <1>1, StampsAreTyped
  <2> QED
    BY <1>5, <2>1, NumsAre
<1>7. x \notin SyncsOf(c)
  <2>1. <<c, x>> \in Objects
    BY <1>1, <1>5, SubmittedIs
  <2> QED
    BY <1>1, <1>2, <2>1 DEF SyncsOf, Syncs, Stamped
<1>8. x \in Elems(hwq[c])
  <2>1. hwq[c] \in Seq(Nums)
    BY <1>1, StampsAreTyped
  <2>2. Elems(hwq[c]) = {Head(hwq[c])} \cup Elems(Tail(hwq[c]))
    BY <1>3, <2>1, ElemsOf
  <2> QED
    BY <1>3, <2>2
<1>9. state[c] = "ok" => retired[c] <= x
  <2>1. state[c] = "ok" => ~(x <= retired[c])
    BY <1>1, <1>7, <1>8 DEF Stamps, StampRight, StampsFit, Done
  <2>2. retired[c] \in 0 .. Length
    BY <1>1, StampsAreTyped
  <2> QED
    BY <1>2, <2>1, <2>2, NumsAre
<1> QED
  BY <1>1, <1>2, <1>3, <1>4, <1>5, <1>6, <1>7, <1>8, <1>9 DEF c, x

\* What a recovery drops of a context: what is done by the timestamps it sets.
LEMMA DropsDone ==
    ASSUME Records, NEW ts, NEW bad, NEW c \in Ctx, c \notin bad
    PROVE  \A i \in Listed(c) :
             <<c, i>> \in Dropped(ts, bad) <=> Done(SyncsOf(c), i, ts[c], synced[c])
<1> SUFFICES ASSUME NEW i \in Listed(c)
             PROVE  <<c, i>> \in Dropped(ts, bad) <=> Done(SyncsOf(c), i, ts[c], synced[c])
  OBVIOUS
<1>1. i \in 1 .. added[c] /\ <<c, i>> \in Elems(list)
  BY LinesAre DEF Listed
<1>2. (<<c, i>> \in Stamped <=> i \notin SyncsOf(c)) /\ (<<c, i>> \in Syncs <=> i \in SyncsOf(c))
  BY <1>1, SubmittedIs
<1> QED
  BY <1>1, <1>2 DEF Dropped, Done

\* A hard reset: the GMU gets what is left of the list.
LEMMA HardStamps ==
    ASSUME Records, Stamps, awake, NEW guilty \in BOOLEAN, NEW forced \in BOOLEAN, guilty => Found,
           HardReset(guilty, forced), UNCHANGED <<script, hwFence, added, fast, expired, hand>>
    PROVE  Stamps'
<1> DEFINE c == culprit[1]
           ts == IF guilty THEN [retired EXCEPT ![c] = added[c]]
                 ELSE IF Found /\ forced THEN [retired EXCEPT ![c] = culprit[2]]
                 ELSE retired
           bad == BadCtx \cup (IF guilty THEN {c} ELSE {})
           gone == Dropped(ts, bad)
<1>1. /\ (IF guilty THEN Guilty(c) ELSE NotGuilty) /\ retired' = ts /\ Retires(gone)
      /\ hwq' = [d \in Ctx |-> Again(d, gone)] /\ synced' = synced
  BY DEF HardReset
<1>2. Found => /\ c \in Ctx /\ culprit[2] \in Nums /\ culprit[2] <= added[c]
               /\ (\A i \in Waits(c) : culprit[2] < i)
               /\ state[c] = "ok" => retired[c] <= culprit[2]
  BY CulpritIs
<1>3. /\ gone \in SUBSET Elems(list) /\ list \in Seq(Obj) /\ ListOrdered /\ inflight = Len(list)
      /\ retired \in [Ctx -> 0 .. Length]
  BY DroppedIs DEF Records, Typed, LinesTyped, StampsTyped, LinesRight, ListAgrees
<1>4. Elems(list') = Elems(list) \ gone
  BY <1>1, <1>3, ListRetires
<1>5. \A d \in Ctx : /\ Waits(d)' \subseteq Waits(d)
                     /\ state'[d] = "ok" => state[d] = "ok" /\ Waits(d)' = Waits(d) /\ d \notin bad
  <2>1. NotGuilty \/ (Guilty(c) /\ c \in Ctx)
    BY <1>1, <1>2
  <2>2. \A d \in Ctx : /\ Waits(d)' \subseteq Waits(d)
                       /\ state'[d] = "ok" => state[d] = "ok" /\ Waits(d)' = Waits(d)
    BY <2>1, GuiltyIs
  <2>3. guilty => state'[c] # "ok"
    <3>1. guilty => Guilty(c) /\ c \in Ctx
      BY <1>1, <1>2
    <3>2. Guilty(c) /\ c \in Ctx => state'[c] # "ok"
      BY <2>1, GuiltyIs
    <3> QED
      BY <3>1, <3>2
  <2> QED
    BY <2>2, <2>3 DEF BadCtx, Bad
<1> HIDE DEF gone, bad
<1>6. \A d \in Ctx : Listed(d)' = {i \in Listed(d) : <<d, i>> \notin gone} /\ FastOf(d)' = FastOf(d)
                     /\ ExpiredOf(d)' = ExpiredOf(d)
  BY <1>4 DEF Listed, FastOf, ExpiredOf
<1>7. \A d \in Ctx : Elems(hwq'[d]) = Listed(d)'
  <2> SUFFICES ASSUME NEW d \in Ctx  PROVE Elems(hwq'[d]) = Listed(d)'
    OBVIOUS
  <2>1. Elems(Again(d, gone)) = {i \in Nums : <<d, i>> \in Elems(list) \ gone}
    BY <1>3, AgainIs
  <2> QED
    BY <1>1, <1>4, <2>1 DEF Listed
<1>8. \A d \in Ctx : ts[d] = retired[d] \/ (d = c /\ guilty /\ ts[d] = added[d])
                                        \/ (d = c /\ Found /\ ~guilty /\ ts[d] = culprit[2])
  BY <1>2, <1>3
<1> SUFFICES ASSUME NEW d \in Ctx
             PROVE  Bounded(d)' /\ FastRight(d)' /\ ExpiredRight(d)' /\ StampRight(d)'
  BY DEF Stamps
<1>9. ts[d] \in 0 .. Length /\ ts[d] <= added[d]
  <2>1. retired[d] <= added[d] /\ retired[d] \in 0 .. Length /\ added[d] \in 0 .. Length
    BY StampsAreTyped DEF Stamps, Bounded
  <2>2. culprit[2] \in Nums => culprit[2] \in 0 .. Length
    BY DEF Nums
  <2>3. added[d] <= added[d]
    BY <2>1
  <2> QED
    BY <1>2, <1>8, <2>1, <2>2, <2>3
<1> HIDE DEF ts
<1>10. Bounded(d)'
  BY <1>1, <1>9 DEF Stamps, Bounded
<1>11. FastRight(d)'
  <2>1. /\ FastOf(d)' = FastOf(d) /\ Waits(d)' \subseteq Waits(d) /\ Listed(d)' \subseteq Listed(d)
        /\ Elems(hwq'[d]) \subseteq Listed(d) /\ added' = added
    BY <1>5, <1>6, <1>7
  <2>2. FastOf(d) \subseteq 1 .. added[d]
        /\ FastOf(d) \cap (Waits(d) \cup Elems(hwq[d]) \cup Listed(d)) = {}
    BY DEF Stamps, FastRight
  <2> QED
    BY <2>1, <2>2 DEF FastRight
<1>12. ExpiredRight(d)'
  BY <1>6 DEF Stamps, ExpiredRight
<1>13. StampRight(d)'
  <2> SUFFICES ASSUME state'[d] = "ok"
               PROVE  StampsFit(SyncsOf(d), ExpiredOf(d), Waits(d), Elems(hwq'[d]), Listed(d)',
                                ts[d], synced[d])
    BY <1>1, <1>5, <1>6, SameKinds DEF StampRight
  <2>1. StampsFit(SyncsOf(d), ExpiredOf(d), Waits(d), Elems(hwq[d]), Listed(d), retired[d], synced[d])
        /\ d \notin bad
    BY <1>5 DEF Stamps, StampRight
  <2>2. Listed(d)' = {i \in Listed(d) : ~Done(SyncsOf(d), i, ts[d], synced[d])}
    BY <1>6, <2>1, DropsDone DEF gone
  <2>3. retired[d] <= ts[d] /\ \A i \in Waits(d) \ (ExpiredOf(d) \cup SyncsOf(d)) : ts[d] < i
    <3>1. CASE ts[d] = retired[d]
      <4>1. retired[d] \in 0 .. Length /\ Waits(d) \in SUBSET Nums
        BY StampsAreTyped
      <4>2. \A i \in Waits(d) \ (ExpiredOf(d) \cup SyncsOf(d)) : ~(i <= retired[d])
        BY <2>1 DEF StampsFit, Done
      <4>3. \A i \in Nums : ~(i <= retired[d]) => retired[d] < i
        BY <4>1, NumsAre
      <4>4. retired[d] <= retired[d]
        BY <4>1, NumsAre
      <4> QED
        BY <3>1, <4>1, <4>2, <4>3, <4>4
    <3>2. CASE d = c /\ Found /\ ts[d] = culprit[2]
      BY <1>2, <1>5, <3>2
    <3>3. ~(d = c /\ guilty)
      BY <2>1 DEF bad
    <3> QED
      BY <1>8, <3>1, <3>2, <3>3
  <2>4. \A t \in 0 .. Length :
            retired[d] <= t /\ (\A i \in Waits(d) \ (ExpiredOf(d) \cup SyncsOf(d)) : t < i)
              => LET M == {i \in Listed(d) : ~Done(SyncsOf(d), i, t, synced[d])}
                 IN  StampsFit(SyncsOf(d), ExpiredOf(d), Waits(d), M, M, t, synced[d])
    <3>1. /\ SyncsOf(d) \in SUBSET Nums /\ ExpiredOf(d) \in SUBSET Nums /\ Waits(d) \in SUBSET Nums
          /\ Elems(hwq[d]) \in SUBSET Nums /\ Listed(d) \in SUBSET Nums
          /\ retired[d] \in 0 .. Length /\ synced[d] \in 0 .. Length
      BY StampsAreTyped
    <3> QED
      BY <2>1, <3>1, StampsRetire
  <2> QED
    BY <1>7, <1>9, <2>2, <2>3, <2>4
<1> QED
  BY <1>10, <1>11, <1>12, <1>13

\* A soft reset: the GMU keeps its queues, without the command that hung.
LEMMA SoftStamps ==
    ASSUME Records, Stamps, awake, NEW guilty \in BOOLEAN, NEW forced \in BOOLEAN,
           SoftReset(guilty, forced), UNCHANGED <<script, hwFence, added, fast, expired, hand>>
    PROVE  Stamps'
<1> DEFINE c == culprit[1]
           x == culprit[2]
           ts == IF forced THEN [retired EXCEPT ![c] = x] ELSE retired
           gone == Dropped(ts, BadCtx)
<1>1. /\ Found /\ Retires(gone)
      /\ guilty => /\ Guilty(c) /\ retired' = [ts EXCEPT ![c] = added[c]]
                   /\ synced' = [synced EXCEPT ![c] = added[c]] /\ hwq' = [hwq EXCEPT ![c] = <<>>]
      /\ ~guilty => /\ NotGuilty /\ retired' = ts /\ synced' = synced
                    /\ hwq' = IF forced THEN [hwq EXCEPT ![c] = Tail(hwq[c])] ELSE hwq
  BY DEF SoftReset
<1>2. /\ c \in Ctx /\ x \in Nums /\ x \notin SyncsOf(c) /\ x <= added[c]
      /\ hwq[c] # <<>> /\ x = Head(hwq[c]) /\ x \in Elems(hwq[c])
      /\ \A i \in Waits(c) : x < i
  BY <1>1, CulpritIs
<1> HIDE DEF c, x
<1>3. /\ gone \in SUBSET Elems(list) /\ list \in Seq(Obj) /\ ListOrdered /\ inflight = Len(list)
      /\ retired \in [Ctx -> 0 .. Length] /\ synced \in [Ctx -> 0 .. Length]
      /\ hwq \in [Ctx -> Seq(Nums)]
  BY DroppedIs DEF Records, Typed, LinesTyped, StampsTyped, LinesRight, ListAgrees
<1>4. Elems(list') = Elems(list) \ gone
  BY <1>1, <1>3, ListRetires
<1>5. Elems(Tail(hwq[c])) = Elems(hwq[c]) \ {x} /\ \A i \in Elems(hwq[c]) \ {x} : x < i
  <2>1. Elems(hwq[c]) = {x} \cup Elems(Tail(hwq[c])) /\ Tail(hwq[c]) \in Seq(Nums)
    BY <1>2, <1>3, ElemsOf
  <2>2. Below({x}, Elems(Tail(hwq[c])))
    BY <1>2, <1>3, LinesAre, IncreasingOf
  <2>3. x \notin Elems(Tail(hwq[c]))
    <3>1. \A n \in Nums : ~(n < n)
      BY NumsAre
    <3> QED
      BY <1>2, <2>2, <3>1 DEF Below
  <2> QED
    BY <2>1, <2>2, <2>3 DEF Below
<1>6. /\ \A d \in Ctx : /\ Waits(d)' \subseteq Waits(d)
                        /\ state'[d] = "ok" => state[d] = "ok" /\ Waits(d)' = Waits(d)
      /\ guilty => state'[c] # "ok"
  <2>1. NotGuilty \/ (Guilty(c) /\ c \in Ctx)
    BY <1>1, <1>2
  <2>2. /\ \A d \in Ctx : /\ Waits(d)' \subseteq Waits(d)
                          /\ state'[d] = "ok" => state[d] = "ok" /\ Waits(d)' = Waits(d)
        /\ Guilty(c) /\ c \in Ctx => state'[c] # "ok"
    BY <2>1, GuiltyIs
  <2> QED
    BY <1>1, <1>2, <2>2
<1>7. \A d \in Ctx : d # c => ts[d] = retired[d]
  BY <1>3
<1>8. ts[c] = retired[c] \/ (forced /\ ts[c] = x)
  BY <1>2, <1>3
<1>9. ~forced => ts = retired
  OBVIOUS
<1>10. forced => ts[c] = x
  BY <1>2, <1>3
<1>11. ts \in [Ctx -> 0 .. Length]
  <2>1. \A n \in Nums : n \in 0 .. Length
    BY DEF Nums
  <2> QED
    BY <1>2, <1>3, <2>1
<1> HIDE DEF gone, ts
<1>12. \A d \in Ctx : Listed(d)' = {i \in Listed(d) : <<d, i>> \notin gone} /\ FastOf(d)' = FastOf(d)
                      /\ ExpiredOf(d)' = ExpiredOf(d)
  BY <1>4 DEF Listed, FastOf, ExpiredOf
<1>13. \A d \in Ctx \ {c} : retired'[d] = retired[d] /\ synced'[d] = synced[d] /\ hwq'[d] = hwq[d]
  BY <1>1, <1>3, <1>7, <1>11
<1>14. /\ guilty => retired'[c] = added[c] /\ synced'[c] = added[c] /\ hwq'[c] = <<>>
       /\ ~guilty => /\ retired'[c] = ts[c] /\ synced'[c] = synced[c]
                     /\ hwq'[c] = IF forced THEN Tail(hwq[c]) ELSE hwq[c]
  BY <1>1, <1>2, <1>3, <1>11
<1>15. \A d \in Ctx : Elems(hwq'[d]) \subseteq Elems(hwq[d])
  BY <1>5, <1>13, <1>14, EmptyRight
<1> SUFFICES ASSUME NEW d \in Ctx
             PROVE  Bounded(d)' /\ FastRight(d)' /\ ExpiredRight(d)' /\ StampRight(d)'
  BY DEF Stamps
<1>16. Bounded(d)'
  <2>1. retired[d] <= added[d] /\ synced[d] <= added[d] /\ added[d] \in 0 .. Length
    BY StampsAreTyped DEF Stamps, Bounded
  <2>2. added[d] <= added[d]
    BY <2>1
  <2>3. (retired'[d] = retired[d] \/ retired'[d] = added[d] \/ (d = c /\ retired'[d] = x))
        /\ (synced'[d] = synced[d] \/ synced'[d] = added[d])
    BY <1>8, <1>13, <1>14
  <2> QED
    BY <1>2, <2>1, <2>2, <2>3 DEF Bounded
<1>17. FastRight(d)'
  <2>1. /\ FastOf(d)' = FastOf(d) /\ Waits(d)' \subseteq Waits(d) /\ Listed(d)' \subseteq Listed(d)
        /\ Elems(hwq'[d]) \subseteq Elems(hwq[d]) /\ added' = added
    BY <1>6, <1>12, <1>15
  <2>2. FastOf(d) \subseteq 1 .. added[d]
        /\ FastOf(d) \cap (Waits(d) \cup Elems(hwq[d]) \cup Listed(d)) = {}
    BY DEF Stamps, FastRight
  <2> QED
    BY <2>1, <2>2 DEF FastRight
<1>18. ExpiredRight(d)'
  BY <1>12 DEF Stamps, ExpiredRight
<1>19. StampRight(d)'
  <2> SUFFICES ASSUME state'[d] = "ok"
               PROVE  StampsFit(SyncsOf(d), ExpiredOf(d), Waits(d), Elems(hwq'[d]), Listed(d)',
                                retired'[d], synced'[d])
    BY <1>6, <1>12, SameKinds DEF StampRight
  <2>1. StampsFit(SyncsOf(d), ExpiredOf(d), Waits(d), Elems(hwq[d]), Listed(d), retired[d], synced[d])
        /\ d \notin BadCtx /\ ~(d = c /\ guilty)
    BY <1>6 DEF Stamps, StampRight, BadCtx, Bad
  <2>2. Listed(d)' = {i \in Listed(d) : ~Done(SyncsOf(d), i, ts[d], synced[d])}
    BY <1>12, <2>1, DropsDone DEF gone
  <2>3. /\ SyncsOf(d) \in SUBSET Nums /\ ExpiredOf(d) \in SUBSET Nums /\ Waits(d) \in SUBSET Nums
        /\ Elems(hwq[d]) \in SUBSET Nums /\ Listed(d) \in SUBSET Nums
        /\ retired[d] \in 0 .. Length /\ synced[d] \in 0 .. Length
    BY StampsAreTyped
  <2>4. /\ synced'[d] = synced[d] /\ retired'[d] = ts[d]
        /\ StampsFit(SyncsOf(d), ExpiredOf(d), Waits(d), Elems(hwq'[d]), Listed(d), ts[d], synced[d])
    <3>1. CASE d # c
      BY <1>7, <1>13, <2>1, <3>1
    <3>2. CASE d = c /\ ~forced
      BY <1>9, <1>14, <2>1, <3>2
    <3>3. CASE d = c /\ forced
      <4>1. synced'[c] = synced[c] /\ retired'[c] = x /\ Elems(hwq'[c]) = Elems(hwq[c]) \ {x}
            /\ ts[c] = x
        BY <1>5, <1>10, <1>14, <2>1, <3>3
      <4>2. \A h \in Elems(hwq[d]) : (\A i \in Waits(d) \cup (Elems(hwq[d]) \ {h}) : h < i)
              => IF h \in SyncsOf(d)
                 THEN StampsFit(SyncsOf(d), ExpiredOf(d), Waits(d), Elems(hwq[d]) \ {h}, Listed(d),
                                retired[d], h)
                 ELSE retired[d] <= h
                      /\ StampsFit(SyncsOf(d), ExpiredOf(d), Waits(d), Elems(hwq[d]) \ {h},
                                   Listed(d), h, synced[d])
        BY <2>1, <2>3, StampsRetire
      <4> QED
        BY <1>2, <1>5, <3>3, <4>1, <4>2
    <3> QED
      BY <3>1, <3>2, <3>3
  <2>5. Elems(hwq'[d]) \in SUBSET Nums /\ ts[d] \in 0 .. Length
    BY <1>11, <1>15, <2>3
  <2>6. \A M \in SUBSET Listed(d) : (\A i \in Listed(d) \ M : Done(SyncsOf(d), i, ts[d], synced[d]))
          => StampsFit(SyncsOf(d), ExpiredOf(d), Waits(d), Elems(hwq'[d]), M, ts[d], synced[d])
    BY <2>3, <2>4, <2>5, StampsMove
  <2> QED
    BY <2>2, <2>4, <2>6
<1> QED
  BY <1>16, <1>17, <1>18, <1>19

\* No reset: a guilty context is bad, and all of it retires.
LEMMA StillStamps ==
    ASSUME Records, Stamps, awake, NEW guilty \in BOOLEAN,
           IF guilty /\ Found
           THEN Guilty(culprit[1]) /\ retired' = [retired EXCEPT ![culprit[1]] = added[culprit[1]]]
           ELSE NotGuilty /\ UNCHANGED retired,
           UNCHANGED <<script, hwFence, added, fast, expired, hand, list, hwq, synced>>
    PROVE  Stamps'
<1> DEFINE c == culprit[1]
<1>1. Found => c \in Ctx
  BY CulpritIs
<1>2. \/ NotGuilty /\ retired' = retired
      \/ Guilty(c) /\ c \in Ctx /\ retired' = [retired EXCEPT ![c] = added[c]]
  BY <1>1
<1> HIDE DEF c
<1>3. /\ \A d \in Ctx : /\ Waits(d)' \subseteq Waits(d)
                        /\ state'[d] = "ok" => state[d] = "ok" /\ Waits(d)' = Waits(d)
      /\ Guilty(c) /\ c \in Ctx => state'[c] # "ok"
  <2>1. NotGuilty \/ (Guilty(c) /\ c \in Ctx)
    BY <1>2
  <2> QED
    BY <2>1, GuiltyIs
<1>4. retired \in [Ctx -> 0 .. Length]
  BY DEF Records, Typed, StampsTyped
<1>5. \A d \in Ctx : retired'[d] = retired[d] \/ (retired'[d] = added[d] /\ state'[d] # "ok")
  BY <1>2, <1>3, <1>4
<1> SUFFICES ASSUME NEW d \in Ctx
             PROVE  Bounded(d)' /\ FastRight(d)' /\ ExpiredRight(d)' /\ StampRight(d)'
  BY DEF Stamps
<1>6. Stands(d)
  <2>1. Listed(d)' = Listed(d) /\ FastOf(d)' = FastOf(d) /\ ExpiredOf(d)' = ExpiredOf(d)
    BY DEF Listed, FastOf, ExpiredOf
  <2> QED
    BY <1>3, <1>5, <2>1 DEF Stands
<1>7. Bounded(d)'
  <2>1. added[d] <= added[d]
    <3>1. added[d] \in 0 .. Length
      BY StampsAreTyped
    <3> QED
      BY <3>1
  <2> QED
    BY <1>5, <2>1 DEF Stamps, Bounded
<1>8. FastRight(d)' /\ ExpiredRight(d)' /\ StampRight(d)'
  BY <1>6, StandsRight DEF Stamps
<1> QED
  BY <1>7, <1>8

\* A recovery, with whatever reset.
LEMMA RecoverStamps == ASSUME Records, Stamps, Recover  PROVE Stamps'
<1> USE DEF Recover, RunDone, ctxs, stamps, lists, runs, books, hw, power, bounds
<1>1. UNCHANGED <<script, hwFence, added, fast, expired, hand>>
  OBVIOUS
<1>2. \/ /\ awake
         /\ \E guilty \in BOOLEAN, forced \in BOOLEAN :
               (guilty => Found) /\ (HardReset(guilty, forced) \/ SoftReset(guilty, forced))
      \/ /\ awake
         /\ \E guilty \in BOOLEAN :
               IF guilty /\ Found
               THEN /\ Guilty(culprit[1])
                    /\ retired' = [retired EXCEPT ![culprit[1]] = added[culprit[1]]]
               ELSE NotGuilty /\ UNCHANGED retired
         /\ UNCHANGED <<list, hwq, synced>>
      \/ UNCHANGED <<state, queue, retired, synced, list, hwq>>
  BY Zenon
<1> HIDE DEF Recover
<1>3. CASE /\ awake
           /\ \E guilty \in BOOLEAN, forced \in BOOLEAN :
                 (guilty => Found) /\ (HardReset(guilty, forced) \/ SoftReset(guilty, forced))
  BY <1>1, <1>3, HardStamps, SoftStamps
<1>4. CASE /\ awake
           /\ \E guilty \in BOOLEAN :
                 IF guilty /\ Found
                 THEN /\ Guilty(culprit[1])
                      /\ retired' = [retired EXCEPT ![culprit[1]] = added[culprit[1]]]
                 ELSE NotGuilty /\ UNCHANGED retired
           /\ UNCHANGED <<list, hwq, synced>>
  BY <1>1, <1>4, StillStamps
<1>5. CASE UNCHANGED <<state, queue, retired, synced, list, hwq>>
  BY <1>1, <1>5, UnmovedStamps
<1> QED
  BY <1>2, <1>3, <1>4, <1>5

\* The steps that move no object and retire no timestamp.
LEMMA IdleStamps ==
    ASSUME Records, Stamps,
           \/ \E c \in Ctx : \/ Enter(c) \/ Refused(c) \/ Issue(c) \/ Drop(c) \/ Consider(c) \/ Hang(c)
                             \/ Schedule(c)
           \/ \E o \in Obj : Signal(o)
           \/ InlineEnds \/ WorkEnds \/ ReadNews \/ Watchdog \/ SuspendStarts \/ SuspendHalts
           \/ DrainFails \/ SuspendFlushed \/ IdleFails \/ Resume \/ UNCHANGED vars
    PROVE  Stamps'
<1> DEFINE Unmoved == UNCHANGED <<script, hwFence, added, fast, expired, queue, hwq, list, hand,
                                  retired, synced, state>>
<1> USE DEF ctxs, stamps, lists, runs, books, hw, power, bounds
<1>1. ASSUME NEW c \in Ctx, Enter(c) \/ Refused(c)  PROVE Unmoved
  BY <1>1 DEF Enter, Refused
<1>2. ASSUME NEW c \in Ctx, Issue(c)  PROVE Unmoved
  BY <1>2 DEF Issue, Took
<1>3. ASSUME NEW c \in Ctx, Drop(c) \/ Consider(c)  PROVE Unmoved
  BY <1>3 DEF Drop, Consider
<1>4. ASSUME NEW c \in Ctx, Hang(c) \/ Schedule(c)  PROVE Unmoved
  BY <1>4 DEF Hang, Schedule
<1>5. ASSUME NEW o \in Obj, Signal(o)  PROVE Unmoved
  BY <1>5 DEF Signal
<1>6. ASSUME InlineEnds \/ WorkEnds  PROVE Unmoved
  BY <1>6 DEF InlineEnds, WorkEnds
<1>7. ASSUME ReadNews \/ Watchdog \/ SuspendStarts  PROVE Unmoved
  BY <1>7 DEF ReadNews, Watchdog, SuspendStarts
<1>8. ASSUME SuspendHalts \/ DrainFails \/ SuspendFlushed  PROVE Unmoved
  BY <1>8 DEF SuspendHalts, DrainFails, SuspendFlushed
<1>9. ASSUME IdleFails \/ Resume \/ UNCHANGED vars  PROVE Unmoved
  BY <1>9 DEF IdleFails, Resume, vars
<1>10. Unmoved
  BY <1>1, <1>2, <1>3, <1>4, <1>5, <1>6, <1>7, <1>8, <1>9
<1> QED
  BY <1>10, UnmovedStamps

\* Power goes off when nothing has a vote for it.
LEMMA PowerStamps == ASSUME Records, Stamps, Slumber \/ IdleEnds  PROVE Stamps'
<1> USE DEF ctxs, stamps, lists, runs, hw
<1>1. UNCHANGED <<script, hwFence, added, fast, expired, queue, list, hand, retired, synced, state>>
  BY DEF Slumber, IdleEnds
<1>2. (votes = 0 /\ PowerOff) \/ hwq' = hwq
  <2>1. CASE Slumber
    BY <2>1 DEF Slumber
  <2>2. CASE IdleEnds
    <3>1. votes \in 0 .. 1
      BY DEF Records, Typed, BooksTyped
    <3>2. votes > 0 \/ votes = 0
      BY <3>1
    <3> QED
      BY <2>2, <3>2, Zenon DEF IdleEnds
  <2> QED
    BY <2>1, <2>2
<1> QED
  BY <1>1, <1>2, OffStamps, UnmovedStamps

\* The timestamps are right at the start ...
LEMMA InitStamps == Init => Stamps
<1> SUFFICES ASSUME Init, NEW c \in Ctx
             PROVE  Bounded(c) /\ FastRight(c) /\ ExpiredRight(c) /\ StampRight(c)
  BY DEF Stamps
<1>1. Waits(c) = {} /\ Listed(c) = {} /\ Elems(hwq[c]) = {} /\ FastOf(c) = {} /\ ExpiredOf(c) = {}
  BY NoneIsNone, EmptyRight DEF Init, Waits, InHand, Listed, FastOf, ExpiredOf, None, Obj
<1>2. Bounded(c)
  BY DEF Init, Bounded
<1>3. FastRight(c) /\ ExpiredRight(c)
  BY <1>1 DEF FastRight, ExpiredRight
<1>4. StampRight(c)
  BY <1>1 DEF StampRight, StampsFit
<1> QED
  BY <1>2, <1>3, <1>4

\* ... and every step keeps them so.
LEMMA NextStamps == Records /\ Stamps /\ [Next]_vars => Stamps'
<1> SUFFICES ASSUME Records, Stamps, [Next]_vars  PROVE Stamps'
  OBVIOUS
<1>1. CASE Submit
  BY <1>1, IdleStamps, FastMarkerStamps, QueueStamps DEF Submit
<1>2. CASE Pass
  BY <1>2, IdleStamps, PopStamps, UnsentStamps, SendStamps DEF Pass
<1>3. CASE Work
  BY <1>3, WorkStartsStamps, RecoverStamps DEF Work
<1>4. CASE Gmu
  BY <1>4, ExecuteStamps DEF Gmu
<1>5. CASE ReadNews
  BY <1>5, IdleStamps
<1>6. CASE Accident
  BY <1>6, IdleStamps, DetachStamps DEF Accident
<1>7. CASE Fences
  BY <1>7, IdleStamps DEF Fences
<1>8. CASE Ends
  BY <1>8, DetachEndsStamps DEF Ends
<1>9. CASE Slumber
  BY <1>9, PowerStamps
<1>10. CASE Suspend
  BY <1>10, IdleStamps, PowerStamps DEF Suspend
<1>11. CASE UNCHANGED vars
  BY <1>11, IdleStamps
<1> QED
  BY <1>1, <1>2, <1>3, <1>4, <1>5, <1>6, <1>7, <1>8, <1>9, <1>10, <1>11 DEF Next

\* Of a context that is not bad the GMU has, in the order of submission and once
\* each, the objects on cmd_list that have not retired, and no timestamp retires
\* whose object is still queued, in hand or with the GMU: through markers that retire
\* without the GMU, failed sends, hangs, resets, replays and slumber.
THEOREM HwschedGmuHasTheList == Spec => []GmuHasTheList
<1>1. Records /\ Stamps => GmuHasTheList
  <2> SUFFICES ASSUME Records, Stamps, NEW c \in Ctx
               PROVE  /\ \A i, j \in DOMAIN hwq[c] : i < j => hwq[c][i] < hwq[c][j]
                      /\ \A i \in Elems(queue[c]), j \in Elems(hwq[c]) : i > j
                      /\ state[c] = "ok" =>
                          /\ {o \in Elems(list) : o[1] = c /\ ~Retired(o)} = {c} \X Elems(hwq[c])
                          /\ \A i \in Pending(c) :
                                 <<c, i>> \in Stamped \ expired => i > retired[c]
    BY DEF GmuHasTheList
  <2>1. \A i, j \in DOMAIN hwq[c] : i < j => hwq[c][i] < hwq[c][j]
    BY LinesAre DEF Increasing
  <2>2. \A i \in Elems(queue[c]), j \in Elems(hwq[c]) : i > j
    <3>1. \A i \in Elems(queue[c]), j \in Elems(hwq[c]) : j < i
      BY LinesAre DEF Waits
    <3>2. Elems(queue[c]) \in SUBSET Nums /\ Elems(hwq[c]) \in SUBSET Nums
      BY StampsAreTyped
    <3>3. \A i, j \in Nums : j < i => i > j
      BY NumsAre
    <3> QED
      BY <3>1, <3>2, <3>3
  <2> SUFFICES ASSUME state[c] = "ok"
               PROVE  /\ {o \in Elems(list) : o[1] = c /\ ~Retired(o)} = {c} \X Elems(hwq[c])
                      /\ \A i \in Pending(c) : <<c, i>> \in Stamped \ expired => i > retired[c]
    BY <2>1, <2>2
  <2>3. StampsFit(SyncsOf(c), ExpiredOf(c), Waits(c), Elems(hwq[c]), Listed(c), retired[c], synced[c])
    BY DEF Stamps, StampRight
  <2>4. Elems(hwq[c]) \in SUBSET Nums /\ Waits(c) \in SUBSET Nums /\ retired[c] \in 0 .. Length
    BY StampsAreTyped
  <2>5. {o \in Elems(list) : o[1] = c /\ ~Retired(o)} = {c} \X Elems(hwq[c])
    <3>1. \A o \in Elems(list) : o \in Obj
      BY ElemsOf DEF Records, Typed, LinesTyped
    <3>2. \A o \in Elems(list) : o[1] = c => o[2] \in Listed(c) /\ o = <<c, o[2]>>
      BY <3>1 DEF Listed, Obj, Nums
    <3>3. \A i \in Listed(c) : <<c, i>> \in Elems(list) /\ i \in Nums
      BY DEF Listed
    <3>4. \A i \in Listed(c) : ~Retired(<<c, i>>) <=> i \in Elems(hwq[c])
      BY <2>3, <3>3, RetiredIs DEF StampsFit
    <3>5. Elems(hwq[c]) \subseteq Listed(c)
      BY <2>3 DEF StampsFit
    <3> QED
      BY <3>2, <3>3, <3>4, <3>5
  <2>6. ASSUME NEW i \in Pending(c), <<c, i>> \in Stamped \ expired  PROVE i > retired[c]
    <3>1. i \in Waits(c) \cup Elems(hwq[c]) /\ i \in Nums
      <4>1. i \in 1 .. added[c] /\ (i \in Elems(queue[c]) \cup Elems(hwq[c]) \/ hand = <<c, i>>)
        BY DEF Pending
      <4>2. i \in Nums
        BY <4>1, SubmittedIs
      <4> QED
        BY <4>1, <4>2 DEF Waits, InHand
    <3>2. i \notin SyncsOf(c) /\ i \notin ExpiredOf(c)
      BY <2>6 DEF SyncsOf, Syncs, ExpiredOf
    <3>3. ~(i <= retired[c])
      BY <2>3, <3>1, <3>2 DEF StampsFit, Done
    <3>4. \A n \in Nums : ~(n <= retired[c]) => n > retired[c]
      BY <2>4, NumsAre
    <3> QED
      BY <3>1, <3>3, <3>4
  <2> QED
    BY <2>5, <2>6
<1> QED
  BY <1>1, InitRecords, NextRecords, InitStamps, NextStamps, PTL DEF Spec
=============================================================================
