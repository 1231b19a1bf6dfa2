-------------------------- MODULE Dispatcher_proofs --------------------------
(***************************************************************************)
(* Proofs about Dispatcher, for any number of contexts, ringbuffers and    *)
(* priorities, any bounds and any of the events the model has.             *)
(*                                                                         *)
(* First the operators the model is built from: sums over the rings, what  *)
(* is left of a sequence without some contexts, and the circular dispatch  *)
(* queue.  Then the inductive invariant, in parts: the types, the counts   *)
(* and the power vote, the halt, and what is where of each context's       *)
(* commands.                                                               *)
(***************************************************************************)
EXTENDS Dispatcher, SequenceTheorems, WellFoundedInduction, TLAPS

(* A set of natural numbers that is not empty has a least one.              *)
LEMMA NatMin ==
    ASSUME NEW T, T \subseteq Nat, T # {}
    PROVE  \E m \in T : \A k \in T : ~(k < m)
<1>1. ASSUME NEW i \in Nat, NEW j \in Nat, i < j PROVE <<i, j>> \in OpToRel(<, Nat)
      BY <1>1 DEF OpToRel
<1>2. PICK m \in T : \A k \in T : <<k, m>> \notin OpToRel(<, Nat)
      BY NatLessThanWellFounded, WFMin
<1>3. ASSUME NEW k \in T PROVE ~(k < m) BY <1>1, <1>2
<1> QED BY <1>3

-----------------------------------------------------------------------------
(* Sums                                                                    *)

IsTotal(s, f, n) == s = [k \in 0 .. n |-> IF k = 0 THEN 0 ELSE s[k - 1] + f[k - 1]]
Total(f, n) == CHOOSE s : IsTotal(s, f, n)

LEMMA TotalExists == ASSUME NEW f, NEW n \in Nat PROVE \E s : IsTotal(s, f, n)
<1> DEFINE T == {m \in Nat : ~ \E s : IsTotal(s, f, m)}
<1> SUFFICES ASSUME T # {} PROVE FALSE OBVIOUS
<1>1. PICK m \in T : \A k \in T : ~(k < m) BY NatMin
<1>2. CASE m = 0
  <2>1. IsTotal([k \in 0 .. 0 |-> 0], f, 0) BY DEF IsTotal
  <2> QED BY <1>2, <2>1
<1>3. CASE m # 0
  <2>1. m - 1 \in Nat /\ m - 1 < m BY <1>3
  <2>2. m - 1 \notin T BY <1>1, <2>1
  <2>3. PICK s : IsTotal(s, f, m - 1) BY <2>1, <2>2
  <2> DEFINE h == [k \in 0 .. m |-> IF k < m THEN s[k] ELSE s[m - 1] + f[m - 1]]
  <2>4. ASSUME NEW k \in 0 .. m PROVE h[k] = IF k = 0 THEN 0 ELSE h[k - 1] + f[k - 1]
    <3>1. CASE k = 0 BY <1>3, <2>1, <2>3, <3>1 DEF IsTotal
    <3>2. CASE k # 0 /\ k < m
      <4>1. k \in 0 .. m - 1 /\ k - 1 \in 0 .. m /\ k - 1 < m BY <2>1, <3>2
      <4>2. h[k] = s[k] /\ h[k - 1] = s[k - 1] BY <3>2, <4>1
      <4>3. s[k] = s[k - 1] + f[k - 1] BY <2>3, <3>2, <4>1 DEF IsTotal
      <4> QED BY <3>2, <4>2, <4>3
    <3>3. CASE k = m
      <4>1. k - 1 \in 0 .. m /\ k - 1 < m BY <2>1, <3>3
      <4>2. h[k - 1] = s[m - 1] BY <3>3, <4>1
      <4> QED BY <1>3, <3>3, <4>2
    <3> QED BY <1>3, <3>1, <3>2, <3>3
  <2>5. h = [k \in 0 .. m |-> h[k]] OBVIOUS
  <2> HIDE DEF h
  <2>6. IsTotal(h, f, m) BY <2>4, <2>5 DEF IsTotal
  <2> QED BY <2>6
<1> QED BY <1>2, <1>3

LEMMA TotalStep ==
    ASSUME NEW f, NEW n \in Nat
    PROVE  /\ Total(f, n)[0] = 0
           /\ \A k \in 1 .. n : k - 1 \in 0 .. n /\ k - 1 \in Nat
                                /\ Total(f, n)[k] = Total(f, n)[k - 1] + f[k - 1]
<1> DEFINE s == Total(f, n)
<1>1. IsTotal(s, f, n)
  <2>1. \E t : IsTotal(t, f, n) BY TotalExists
  <2> QED BY <2>1, Zenon DEF Total
<1> HIDE DEF s
<1>2. s[0] = 0
  <2>1. 0 \in 0 .. n OBVIOUS
  <2> QED BY <1>1, <2>1 DEF IsTotal
<1>3. ASSUME NEW k \in 1 .. n
      PROVE  k - 1 \in 0 .. n /\ k - 1 \in Nat /\ s[k] = s[k - 1] + f[k - 1]
  <2>1. k \in 0 .. n /\ k # 0 /\ k - 1 \in 0 .. n /\ k - 1 \in Nat OBVIOUS
  <2> QED BY <1>1, <2>1 DEF IsTotal
<1> QED BY <1>2, <1>3 DEF s

(* A sum of natural numbers is one, and no less than each of them.          *)
LEMMA TotalBounds ==
    ASSUME NEW n \in Nat, NEW f \in [0 .. n - 1 -> Nat]
    PROVE  Total(f, n)[n] \in Nat /\ \A r \in 0 .. n - 1 : f[r] <= Total(f, n)[n]
<1> DEFINE s == Total(f, n)
           good(k) == s[k] \in Nat /\ \A r \in 0 .. k - 1 : f[r] <= s[k]
           T == {k \in Nat : k <= n /\ ~good(k)}
<1>1. s[0] = 0 /\ \A k \in 1 .. n : k - 1 \in 0 .. n /\ k - 1 \in Nat /\ s[k] = s[k - 1] + f[k - 1]
      BY TotalStep
<1> HIDE DEF s
<1>2. T = {}
  <2> SUFFICES ASSUME T # {} PROVE FALSE OBVIOUS
  <2>1. PICK m \in T : \A k \in T : ~(k < m) BY NatMin
  <2>2. m # 0 BY <1>1, <2>1
  <2>3. m \in 1 .. n /\ m - 1 \in Nat /\ m - 1 < m /\ m - 1 <= n BY <2>1, <2>2
  <2>4. good(m - 1) BY <2>1, <2>3
  <2>5. s[m] = s[m - 1] + f[m - 1] /\ f[m - 1] \in Nat BY <1>1, <2>3
  <2>6. ASSUME NEW r \in 0 .. m - 1 PROVE f[r] <= s[m]
    <3>0. f[r] \in Nat BY <2>3
    <3>1. CASE r = m - 1 BY <2>4, <2>5, <3>1
    <3>2. CASE r # m - 1
      <4>1. r \in 0 .. (m - 1) - 1 BY <2>3, <3>2
      <4> QED BY <2>4, <2>5, <3>0, <4>1
    <3> QED BY <3>1, <3>2
  <2> QED BY <2>1, <2>4, <2>5, <2>6
<1>3. good(n) BY <1>2
<1> QED BY <1>3 DEF s

(* When one number changes the sum changes by as much.                      *)
LEMMA TotalExcept ==
    ASSUME NEW n \in Nat, NEW f \in [0 .. n - 1 -> Nat], NEW g \in [0 .. n - 1 -> Nat],
           NEW r \in 0 .. n - 1, \A q \in 0 .. n - 1 : q # r => g[q] = f[q]
    PROVE  Total(g, n)[n] = Total(f, n)[n] - f[r] + g[r]
<1> DEFINE s == Total(f, n)
           t == Total(g, n)
           good(k) == s[k] \in Int /\ t[k] = IF k <= r THEN s[k] ELSE s[k] - f[r] + g[r]
           T == {k \in Nat : k <= n /\ ~good(k)}
<1>1. s[0] = 0 /\ \A k \in 1 .. n : k - 1 \in 0 .. n /\ k - 1 \in Nat /\ s[k] = s[k - 1] + f[k - 1]
      BY TotalStep
<1>2. t[0] = 0 /\ \A k \in 1 .. n : k - 1 \in 0 .. n /\ k - 1 \in Nat /\ t[k] = t[k - 1] + g[k - 1]
      BY TotalStep
<1> HIDE DEF s, t
<1>3. T = {}
  <2> SUFFICES ASSUME T # {} PROVE FALSE OBVIOUS
  <2>1. PICK m \in T : \A k \in T : ~(k < m) BY NatMin
  <2>2. m # 0 BY <1>1, <1>2, <2>1
  <2>3. m \in 1 .. n /\ m - 1 \in Nat /\ m - 1 < m /\ m - 1 <= n BY <2>1, <2>2
  <2>4. good(m - 1) BY <2>1, <2>3
  <2>5. s[m] = s[m - 1] + f[m - 1] /\ t[m] = t[m - 1] + g[m - 1] BY <1>1, <1>2, <2>3
  <2>6. f[m - 1] \in Nat /\ g[m - 1] \in Nat /\ f[r] \in Nat /\ g[r] \in Nat /\ m - 1 \in 0 .. n - 1
        BY <2>3
  <2>7. m - 1 # r => g[m - 1] = f[m - 1] BY <2>6
  <2>8. good(m)
    <3>1. CASE m - 1 = r BY <2>3, <2>4, <2>5, <2>6, <3>1
    <3>2. CASE m - 1 # r
      <4>1. CASE m - 1 <= r
        <5>1. m <= r BY <2>3, <3>2, <4>1
        <5> QED BY <2>4, <2>5, <2>6, <2>7, <3>2, <4>1, <5>1
      <4>2. CASE ~(m - 1 <= r)
        <5>1. ~(m <= r) BY <2>3, <4>2
        <5> QED BY <2>4, <2>5, <2>6, <2>7, <3>2, <4>2, <5>1
      <4> QED BY <4>1, <4>2
    <3> QED BY <3>1, <3>2
  <2> QED BY <2>1, <2>8
<1>4. good(n) BY <1>3
<1> QED BY <1>4 DEF s, t

(* The sum of zeros                                                         *)
LEMMA TotalZero ==
    ASSUME NEW n \in Nat, NEW f, \A r \in 0 .. n - 1 : f[r] = 0
    PROVE  Total(f, n)[n] = 0
<1> DEFINE s == Total(f, n)
           T == {k \in Nat : k <= n /\ s[k] # 0}
<1>1. s[0] = 0 /\ \A k \in 1 .. n : k - 1 \in 0 .. n /\ k - 1 \in Nat /\ s[k] = s[k - 1] + f[k - 1]
      BY TotalStep
<1> HIDE DEF s
<1>2. T = {}
  <2> SUFFICES ASSUME T # {} PROVE FALSE OBVIOUS
  <2>1. PICK m \in T : \A k \in T : ~(k < m) BY NatMin
  <2>2. m # 0 BY <1>1, <2>1
  <2>3. m \in 1 .. n /\ m - 1 \in Nat /\ m - 1 < m /\ m - 1 <= n /\ m - 1 \in 0 .. n - 1
        BY <2>1, <2>2
  <2>4. s[m - 1] = 0 /\ f[m - 1] = 0 BY <2>1, <2>3
  <2> QED BY <1>1, <2>1, <2>3, <2>4
<1>3. s[n] = 0 BY <1>2
<1> QED BY <1>3 DEF s

-----------------------------------------------------------------------------
(* Sequences of commands                                                   *)

IsKept(h, e, B) ==
    h = [k \in 0 .. Len(e) |-> IF k = 0 THEN << >>
                               ELSE IF e[k][1] \in B THEN h[k - 1] ELSE Append(h[k - 1], e[k])]

(* The first m values of the recursive function in Replayed                 *)
KeptUpTo(h, e, B, m) ==
    h = [k \in 0 .. m |-> IF k = 0 THEN << >>
                          ELSE IF e[k][1] \in B THEN h[k - 1] ELSE Append(h[k - 1], e[k])]

LEMMA KeptExists == ASSUME NEW e, NEW B, NEW n \in Nat PROVE \E h : KeptUpTo(h, e, B, n)
<1> DEFINE T == {m \in Nat : ~ \E h : KeptUpTo(h, e, B, m)}
<1> SUFFICES ASSUME T # {} PROVE FALSE OBVIOUS
<1>1. PICK m \in T : \A k \in T : ~(k < m) BY NatMin
<1>2. CASE m = 0
  <2>1. KeptUpTo([k \in 0 .. 0 |-> << >>], e, B, 0) BY DEF KeptUpTo
  <2> QED BY <1>2, <2>1
<1>3. CASE m # 0
  <2>1. m - 1 \in Nat /\ m - 1 < m BY <1>3
  <2>2. m - 1 \notin T BY <1>1, <2>1
  <2>3. PICK s : KeptUpTo(s, e, B, m - 1) BY <2>1, <2>2
  <2> DEFINE next(v, k) == IF e[k][1] \in B THEN v ELSE Append(v, e[k])
             h == [k \in 0 .. m |-> IF k < m THEN s[k] ELSE next(s[m - 1], m)]
  <2>4. ASSUME NEW k \in 0 .. m PROVE h[k] = IF k = 0 THEN << >> ELSE next(h[k - 1], k)
    <3> HIDE DEF next
    <3>1. CASE k = 0 BY <1>3, <2>1, <2>3, <3>1 DEF KeptUpTo
    <3>2. CASE k # 0 /\ k < m
      <4>1. k \in 0 .. m - 1 /\ k - 1 \in 0 .. m /\ k - 1 < m BY <2>1, <3>2
      <4>2. h[k] = s[k] /\ h[k - 1] = s[k - 1] BY <3>2, <4>1
      <4>3. s[k] = next(s[k - 1], k) BY <2>3, <3>2, <4>1 DEF KeptUpTo, next
      <4> QED BY <3>2, <4>2, <4>3
    <3>3. CASE k = m
      <4>1. k - 1 \in 0 .. m /\ k - 1 < m BY <2>1, <3>3
      <4>2. h[k - 1] = s[m - 1] BY <3>3, <4>1
      <4> QED BY <1>3, <3>3, <4>2
    <3> QED BY <1>3, <3>1, <3>2, <3>3
  <2>5. h = [k \in 0 .. m |-> h[k]] OBVIOUS
  <2> HIDE DEF h
  <2>6. KeptUpTo(h, e, B, m) BY <2>4, <2>5 DEF KeptUpTo
  <2> QED BY <2>6
<1> QED BY <1>2, <1>3

(* t holds the entries of the first m of e that are not of a context of B,  *)
(* f their places, in order.                                                *)
Picks(t, f, e, B, m) ==
    /\ f \in [1 .. Len(t) -> 1 .. m]
    /\ \A i, j \in 1 .. Len(t) : i < j => f[i] < f[j]
    /\ \A i \in 1 .. Len(t) : t[i] = e[f[i]] /\ e[f[i]][1] \notin B
    /\ \A k \in 1 .. m : e[k][1] \notin B => \E i \in 1 .. Len(t) : f[i] = k

LEMMA ReplayedPicks ==
    ASSUME NEW S, NEW e \in Seq(S), NEW B
    PROVE  /\ Replayed(e, B) \in Seq(S) /\ Len(Replayed(e, B)) <= Len(e)
           /\ \E f : Picks(Replayed(e, B), f, e, B, Len(e))
<1> DEFINE n == Len(e)
           h == CHOOSE h : IsKept(h, e, B)
<1>1. n \in Nat OBVIOUS
<1>2. IsKept(h, e, B)
  <2>1. \E g : KeptUpTo(g, e, B, n) BY <1>1, KeptExists
  <2>2. \E g : IsKept(g, e, B) BY <2>1 DEF KeptUpTo, IsKept
  <2> QED BY <2>2, Zenon
<1>3. Replayed(e, B) = h[n] BY Zenon DEF Replayed, IsKept
<1> HIDE DEF h
<1>4. h[0] = << >> BY <1>1, <1>2 DEF IsKept
<1>5. ASSUME NEW k \in 1 .. n
      PROVE  h[k] = IF e[k][1] \in B THEN h[k - 1] ELSE Append(h[k - 1], e[k])
  <2>1. k \in 0 .. n /\ k # 0 BY <1>1
  <2> QED BY <1>2, <2>1 DEF IsKept
<1> DEFINE good(k) == h[k] \in Seq(S) /\ Len(h[k]) <= k /\ \E f : Picks(h[k], f, e, B, k)
           T == {k \in Nat : k <= n /\ ~good(k)}
<1>6. T = {}
  <2> SUFFICES ASSUME T # {} PROVE FALSE OBVIOUS
  <2>1. PICK m \in T : \A k \in T : ~(k < m) BY NatMin
  <2>2. CASE m = 0
    <3>1. Picks(<< >>, << >>, e, B, 0) BY DEF Picks
    <3>2. << >> \in Seq(S) /\ Len(<< >>) = 0 OBVIOUS
    <3>3. h[m] = << >> BY <1>4, <2>2
    <3>4. \E f : Picks(h[m], f, e, B, m) BY <2>2, <3>1, <3>3
    <3>5. h[m] \in Seq(S) /\ Len(h[m]) <= m BY <2>2, <3>2, <3>3
    <3> QED BY <2>1, <3>4, <3>5
  <2>3. CASE m # 0
    <3>1. m \in 1 .. n /\ m - 1 \in Nat /\ m - 1 < m /\ m - 1 <= n BY <1>1, <2>1, <2>3
    <3> DEFINE s == h[m - 1]
               x == e[m]
    <3>2. s \in Seq(S) /\ Len(s) <= m - 1 /\ \E f : Picks(s, f, e, B, m - 1) BY <2>1, <3>1
    <3>3. PICK f : Picks(s, f, e, B, m - 1) BY <3>2
    <3>4. x \in S BY <3>1
    <3>5. h[m] = IF x[1] \in B THEN s ELSE Append(s, x) BY <1>5, <3>1
    <3> HIDE DEF s, x
    <3>6. CASE x[1] \in B
      <4>1. Picks(s, f, e, B, m)
        <5>1. f \in [1 .. Len(s) -> 1 .. m] BY <3>1, <3>3 DEF Picks
        <5>2. \A k \in 1 .. m : e[k][1] \notin B => k \in 1 .. m - 1 BY <3>1, <3>6 DEF x
        <5>3. \A k \in 1 .. m : e[k][1] \notin B => \E i \in 1 .. Len(s) : f[i] = k
              BY <3>3, <5>2 DEF Picks
        <5> QED BY <3>3, <5>1, <5>3 DEF Picks
      <4>2. h[m] = s /\ Len(s) <= m BY <3>1, <3>2, <3>5, <3>6
      <4> QED BY <2>1, <3>2, <4>1, <4>2
    <3>7. CASE x[1] \notin B
      <4> DEFINE t == Append(s, x)
                 l == Len(s)
                 g == [i \in 1 .. l + 1 |-> IF i = l + 1 THEN m ELSE f[i]]
      <4>1. l \in Nat /\ t \in Seq(S) /\ Len(t) = l + 1 /\ t[l + 1] = x
            /\ \A i \in 1 .. l : t[i] = s[i]
            BY ONLY <3>2, <3>4, AppendProperties, LenProperties
      <4> HIDE DEF t, l
      <4>2. f \in [1 .. l -> 1 .. m - 1] /\ (\A i, j \in 1 .. l : i < j => f[i] < f[j])
            /\ \A i \in 1 .. l : s[i] = e[f[i]] /\ e[f[i]][1] \notin B
            BY <3>3 DEF Picks, l
      <4>6. \A k \in 1 .. m - 1 : e[k][1] \notin B => \E i \in 1 .. l : f[i] = k
            BY <3>3 DEF Picks, l
      <4>3. g \in [1 .. l + 1 -> 1 .. m] BY <3>1, <4>1, <4>2
      <4>4. ASSUME NEW i \in 1 .. l + 1, NEW j \in 1 .. l + 1, i < j PROVE g[i] < g[j]
        <5>1. i \in 1 .. l BY <4>1, <4>4
        <5>2. g[i] = f[i] /\ f[i] \in 1 .. m - 1 BY SMTT(30), ZenonT(30), <4>1, <4>2, <5>1
        <5>3. CASE j = l + 1 BY <3>1, <5>2, <5>3
        <5>4. CASE j # l + 1
          <6>1. j \in 1 .. l BY <4>1, <5>4
          <6>2. g[j] = f[j] BY <5>4
          <6> QED BY <4>2, <4>4, <5>1, <5>2, <6>1, <6>2
        <5> QED BY <5>3, <5>4
      <4>5. ASSUME NEW i \in 1 .. l + 1 PROVE t[i] = e[g[i]] /\ e[g[i]][1] \notin B
        <5>1. CASE i = l + 1 BY <3>7, <4>1, <5>1 DEF x
        <5>2. CASE i # l + 1
          <6>1. i \in 1 .. l /\ g[i] = f[i] BY <4>1, <5>2
          <6> QED BY <4>1, <4>2, <6>1
        <5> QED BY <5>1, <5>2
      <4>7. ASSUME NEW k \in 1 .. m, e[k][1] \notin B PROVE \E i \in 1 .. l + 1 : g[i] = k
        <5>1. CASE k = m
          <6>1. l + 1 \in 1 .. l + 1 /\ g[l + 1] = m BY <4>1
          <6> QED BY <5>1, <6>1
        <5>2. CASE k # m
          <6>1. k \in 1 .. m - 1 BY <3>1, <5>2
          <6>2. PICK i \in 1 .. l : f[i] = k BY <4>6, <4>7, <6>1
          <6>3. i \in 1 .. l + 1 /\ g[i] = f[i] BY <4>1
          <6> QED BY <6>2, <6>3
        <5> QED BY <5>1, <5>2
      <4> HIDE DEF g
      <4>8. Picks(t, g, e, B, m) BY <4>1, <4>3, <4>4, <4>5, <4>7 DEF Picks
      <4>9. h[m] = t /\ Len(t) <= m BY <3>1, <3>2, <3>5, <3>7, <4>1 DEF t, l
      <4> QED BY <2>1, <4>1, <4>8, <4>9
    <3> QED BY <3>6, <3>7
  <2> QED BY <2>2, <2>3
<1>7. good(n) BY <1>1, <1>6
<1> QED BY <1>3, <1>7

(* What Replayed leaves of a context outside B is what there was of it.     *)
LEMMA ReplayedFacts ==
    ASSUME NEW S, NEW e \in Seq(S), NEW B
    PROVE  /\ Replayed(e, B) \in Seq(S) /\ Len(Replayed(e, B)) <= Len(e)
           /\ \A i \in 1 .. Len(Replayed(e, B)) :
                 Replayed(e, B)[i][1] \notin B
                 /\ \E k \in 1 .. Len(e) : Replayed(e, B)[i] = e[k]
           /\ \A c : c \notin B =>
                 /\ Stamps(c, Replayed(e, B)) = Stamps(c, e)
                 /\ InOrder(c, e) => InOrder(c, Replayed(e, B))
<1> DEFINE t == Replayed(e, B)
<1>1. t \in Seq(S) /\ Len(t) <= Len(e) BY ReplayedPicks
<1>2. PICK f : Picks(t, f, e, B, Len(e)) BY ReplayedPicks
<1> HIDE DEF t
<1>3. DOMAIN t = 1 .. Len(t) /\ DOMAIN e = 1 .. Len(e) BY <1>1
<1>4. f \in [1 .. Len(t) -> 1 .. Len(e)] BY <1>2 DEF Picks
<1>5. \A i \in 1 .. Len(t) : f[i] \in 1 .. Len(e) /\ t[i] = e[f[i]] /\ t[i][1] \notin B
      BY <1>2, <1>4 DEF Picks
<1>6. ASSUME NEW c, c \notin B PROVE Stamps(c, t) = Stamps(c, e)
  <2>1. ASSUME NEW i \in 1 .. Len(t), t[i][1] = c
        PROVE  \E k \in 1 .. Len(e) : e[k][1] = c /\ e[k][2] = t[i][2]
        BY <1>5, <2>1
  <2>2. ASSUME NEW k \in 1 .. Len(e), e[k][1] = c
        PROVE  \E i \in 1 .. Len(t) : t[i][1] = c /\ t[i][2] = e[k][2]
    <3>1. PICK i \in 1 .. Len(t) : f[i] = k BY <1>2, <1>6, <2>2 DEF Picks
    <3> QED BY <1>5, <2>2, <3>1
  <2>3. Stamps(c, t) \subseteq Stamps(c, e) BY <1>3, <2>1 DEF Stamps
  <2>4. Stamps(c, e) \subseteq Stamps(c, t) BY <1>3, <2>2 DEF Stamps
  <2> QED BY <2>3, <2>4
<1>7. ASSUME NEW c, InOrder(c, e) PROVE InOrder(c, t)
  <2> SUFFICES ASSUME NEW i \in 1 .. Len(t), NEW j \in 1 .. Len(t), i < j, t[i][1] = c, t[j][1] = c
               PROVE  t[i][2] < t[j][2]
      BY <1>3 DEF InOrder
  <2>1. f[i] < f[j] BY <1>2 DEF Picks
  <2> QED BY <1>3, <1>5, <1>7, <2>1 DEF InOrder
<1> QED BY <1>1, <1>5, <1>6, <1>7 DEF t

(* Stamps and InOrder of two sequences, one behind the other                *)
LEMMA ConcatFacts ==
    ASSUME NEW S, NEW s \in Seq(S), NEW t \in Seq(S), NEW c
    PROVE  /\ Stamps(c, s \o t) = Stamps(c, s) \cup Stamps(c, t)
           /\ InOrder(c, s \o t) <=>
                InOrder(c, s) /\ InOrder(c, t)
                /\ \A a \in Stamps(c, s), b \in Stamps(c, t) : a < b
<1> DEFINE u == s \o t
           m == Len(s)
           n == Len(t)
<1>1. /\ m \in Nat /\ n \in Nat /\ DOMAIN s = 1 .. m /\ DOMAIN t = 1 .. n
      /\ u \in Seq(S) /\ Len(u) = m + n /\ DOMAIN u = 1 .. m + n
  <2>1. u \in Seq(S) /\ Len(u) = m + n BY ConcatProperties
  <2> QED BY <2>1, LenProperties
<1>2. \A i \in 1 .. m : u[i] = s[i] /\ i \in 1 .. m + n
  <2>1. \A i \in 1 .. m + n : u[i] = IF i <= m THEN s[i] ELSE t[i - m] BY ConcatProperties
  <2> QED BY <1>1, <2>1
<1>3. \A i \in 1 .. n : u[m + i] = t[i] /\ m + i \in 1 .. m + n
  <2> SUFFICES ASSUME NEW i \in 1 .. n PROVE u[m + i] = t[i] /\ m + i \in 1 .. m + n
      OBVIOUS
  <2>1. m + i \in 1 .. m + n /\ ~(m + i <= m) /\ (m + i) - m = i BY <1>1
  <2>2. \A k \in 1 .. m + n : u[k] = IF k <= m THEN s[k] ELSE t[k - m] BY ConcatProperties
  <2> QED BY <2>1, <2>2
<1>4. \A i \in 1 .. m + n : i \in 1 .. m \/ \E j \in 1 .. n : i = m + j
  <2> SUFFICES ASSUME NEW i \in 1 .. m + n, i \notin 1 .. m PROVE \E j \in 1 .. n : i = m + j
      OBVIOUS
  <2>1. i - m \in 1 .. n /\ i = m + (i - m) BY <1>1
  <2> QED BY <2>1
<1> HIDE DEF u, m, n
<1>5. Stamps(c, u) = Stamps(c, s) \cup Stamps(c, t)
  <2>1. Stamps(c, u) \subseteq Stamps(c, s) \cup Stamps(c, t)
    <3> SUFFICES ASSUME NEW i \in 1 .. m + n, u[i][1] = c
                 PROVE  u[i][2] \in Stamps(c, s) \cup Stamps(c, t)
        BY <1>1 DEF Stamps
    <3>1. CASE i \in 1 .. m BY <1>1, <1>2, <3>1 DEF Stamps
    <3>2. ASSUME NEW j \in 1 .. n, i = m + j PROVE u[i][2] \in Stamps(c, t)
          BY <1>1, <1>3, <3>2 DEF Stamps
    <3> QED BY <1>4, <3>1, <3>2
  <2>2. Stamps(c, s) \subseteq Stamps(c, u) BY <1>1, <1>2 DEF Stamps
  <2>3. Stamps(c, t) \subseteq Stamps(c, u)
    <3> SUFFICES ASSUME NEW i \in 1 .. n, t[i][1] = c PROVE t[i][2] \in Stamps(c, u)
        BY <1>1 DEF Stamps
    <3>1. u[m + i] = t[i] /\ m + i \in 1 .. m + n BY <1>3
    <3> QED BY <1>1, <3>1 DEF Stamps
  <2> QED BY <2>1, <2>2, <2>3
<1>6. ASSUME InOrder(c, u)
      PROVE  InOrder(c, s) /\ InOrder(c, t) /\ \A a \in Stamps(c, s), b \in Stamps(c, t) : a < b
  <2>1. InOrder(c, s) BY <1>1, <1>2, <1>6 DEF InOrder
  <2>2. InOrder(c, t)
    <3> SUFFICES ASSUME NEW i \in 1 .. n, NEW j \in 1 .. n, i < j, t[i][1] = c, t[j][1] = c
                 PROVE  t[i][2] < t[j][2]
        BY <1>1 DEF InOrder
    <3>1. u[m + i] = t[i] /\ m + i \in 1 .. m + n /\ u[m + j] = t[j] /\ m + j \in 1 .. m + n
          BY <1>3
    <3>2. m + i < m + j BY <1>1
    <3> QED BY <1>1, <1>6, <3>1, <3>2 DEF InOrder
  <2>3. ASSUME NEW i \in 1 .. m, NEW j \in 1 .. n, s[i][1] = c, t[j][1] = c
        PROVE  s[i][2] < t[j][2]
    <3>1. u[i] = s[i] /\ i \in 1 .. m + n /\ u[m + j] = t[j] /\ m + j \in 1 .. m + n
          BY <1>2, <1>3
    <3>2. i < m + j BY <1>1
    <3> QED BY <1>1, <1>6, <2>3, <3>1, <3>2 DEF InOrder
  <2> QED BY <1>1, <2>1, <2>2, <2>3 DEF Stamps
<1>7. ASSUME InOrder(c, s), InOrder(c, t), \A a \in Stamps(c, s), b \in Stamps(c, t) : a < b
      PROVE  InOrder(c, u)
  <2> SUFFICES ASSUME NEW i \in 1 .. m + n, NEW j \in 1 .. m + n, i < j, u[i][1] = c, u[j][1] = c
               PROVE  u[i][2] < u[j][2]
      BY <1>1 DEF InOrder
  <2>1. CASE i \in 1 .. m /\ j \in 1 .. m BY <1>1, <1>2, <1>7, <2>1 DEF InOrder
  <2>2. ASSUME NEW l \in 1 .. n, j = m + l, i \in 1 .. m PROVE u[i][2] < u[j][2]
    <3>1. u[i] = s[i] /\ u[j] = t[l] BY <1>2, <1>3, <2>2
    <3>2. s[i][2] \in Stamps(c, s) /\ t[l][2] \in Stamps(c, t) BY <1>1, <2>2, <3>1 DEF Stamps
    <3> QED BY <1>7, <3>1, <3>2
  <2>3. ASSUME NEW k \in 1 .. n, i = m + k, NEW l \in 1 .. n, j = m + l
        PROVE  u[i][2] < u[j][2]
    <3>1. u[i] = t[k] /\ u[j] = t[l] /\ k < l BY <1>1, <1>3, <2>3
    <3> QED BY <1>1, <1>7, <3>1 DEF InOrder
  <2>4. ASSUME NEW k \in 1 .. n, i = m + k, j \in 1 .. m PROVE FALSE BY <1>1, <2>4
  <2> QED BY <1>4, <2>1, <2>2, <2>3, <2>4
<1> QED BY <1>5, <1>6, <1>7 DEF u

LEMMA EmptyFacts ==
    ASSUME NEW c
    PROVE  Stamps(c, << >>) = {} /\ InOrder(c, << >>)
BY DEF Stamps, InOrder

LEMMA SingleFacts ==
    ASSUME NEW c, NEW x
    PROVE  /\ Stamps(c, <<x>>) = IF x[1] = c THEN {x[2]} ELSE {}
           /\ InOrder(c, <<x>>)
<1>1. DOMAIN <<x>> = {1} /\ <<x>>[1] = x OBVIOUS
<1> DEFINE s == <<x>>
<1> HIDE DEF s
<1>2. Stamps(c, s) = IF s[1][1] = c THEN {s[1][2]} ELSE {} BY <1>1 DEF Stamps, s
<1>3. InOrder(c, s) BY <1>1 DEF InOrder, s
<1> QED BY <1>1, <1>2, <1>3 DEF s

(* The end of a sequence, and its beginning, as ones of length one          *)
LEMMA AppendFacts ==
    ASSUME NEW S, NEW s \in Seq(S), NEW x \in S, NEW c
    PROVE  /\ Stamps(c, Append(s, x)) = Stamps(c, s) \cup (IF x[1] = c THEN {x[2]} ELSE {})
           /\ InOrder(c, Append(s, x)) <=>
                InOrder(c, s) /\ (x[1] = c => \A a \in Stamps(c, s) : a < x[2])
<1>1. Append(s, x) = s \o <<x>> /\ <<x>> \in Seq(S) OBVIOUS
<1>2. /\ Stamps(c, s \o <<x>>) = Stamps(c, s) \cup Stamps(c, <<x>>)
      /\ InOrder(c, s \o <<x>>) <=>
           InOrder(c, s) /\ InOrder(c, <<x>>)
           /\ \A a \in Stamps(c, s), b \in Stamps(c, <<x>>) : a < b
      BY <1>1, ConcatFacts
<1>3. InOrder(c, <<x>>) /\ Stamps(c, <<x>>) = IF x[1] = c THEN {x[2]} ELSE {} BY SingleFacts
<1> QED BY <1>1, <1>2, <1>3

LEMMA TailFacts ==
    ASSUME NEW S, NEW s \in Seq(S), s # << >>, NEW c
    PROVE  /\ Head(s) \in S /\ Tail(s) \in Seq(S) /\ Len(Tail(s)) = Len(s) - 1
           /\ Len(s) \in Nat /\ Len(s) >= 1 /\ s[1] = Head(s)
           /\ \A k \in 1 .. Len(s) - 1 : Tail(s)[k] = s[k + 1]
           /\ Stamps(c, s) = Stamps(c, Tail(s)) \cup (IF Head(s)[1] = c THEN {Head(s)[2]} ELSE {})
           /\ InOrder(c, s) <=>
                InOrder(c, Tail(s)) /\ (Head(s)[1] = c => \A b \in Stamps(c, Tail(s)) : Head(s)[2] < b)
<1> DEFINE x == Head(s)
           t == Tail(s)
<1>1. /\ x \in S /\ t \in Seq(S) /\ Len(t) = Len(s) - 1 /\ Len(s) \in Nat /\ Len(s) >= 1
      /\ s[1] = x /\ \A k \in 1 .. Len(s) - 1 : t[k] = s[k + 1]
  <2>1. Len(s) \in Nat /\ Len(s) # 0 BY EmptySeq, LenProperties
  <2>2. x \in S /\ t \in Seq(S) /\ Len(t) = Len(s) - 1 BY HeadTailProperties
  <2>3. \A k \in 1 .. Len(t) : t[k] = s[k + 1] BY HeadTailProperties
  <2> QED BY <2>1, <2>2, <2>3
<1>2. s = <<x>> \o t /\ <<x>> \in Seq(S) OBVIOUS
<1> HIDE DEF x, t
<1>3. /\ Stamps(c, <<x>> \o t) = Stamps(c, <<x>>) \cup Stamps(c, t)
      /\ InOrder(c, <<x>> \o t) <=>
           InOrder(c, <<x>>) /\ InOrder(c, t)
           /\ \A a \in Stamps(c, <<x>>), b \in Stamps(c, t) : a < b
      BY <1>1, <1>2, ConcatFacts
<1>4. InOrder(c, <<x>>) /\ Stamps(c, <<x>>) = IF x[1] = c THEN {x[2]} ELSE {} BY SingleFacts
<1> QED BY <1>1, <1>2, <1>3, <1>4 DEF x, t

(* e without its first n                                                    *)
LEMMA DropFacts ==
    ASSUME NEW S, NEW e \in Seq(S), NEW d \in Seq(S), NEW n \in 0 .. Len(e),
           Len(d) = Len(e) - n, \A k \in 1 .. Len(e) - n : d[k] = e[n + k], NEW c
    PROVE  /\ Stamps(c, d) \subseteq Stamps(c, e)
           /\ \A a \in Stamps(c, e) :
                 a \in Stamps(c, d) \/ \E k \in 1 .. n : e[k][1] = c /\ e[k][2] = a
           /\ InOrder(c, e) => InOrder(c, d)
           /\ InOrder(c, e) => \A k \in 1 .. n : e[k][1] = c => \A a \in Stamps(c, d) : e[k][2] < a
<1> DEFINE l == Len(e)
           m == Len(d)
<1>1. l \in Nat /\ m \in Nat /\ DOMAIN e = 1 .. l /\ DOMAIN d = 1 .. m /\ m = l - n BY LenProperties
<1>2. \A k \in 1 .. m : d[k] = e[n + k] /\ n + k \in 1 .. l
  <2> SUFFICES ASSUME NEW k \in 1 .. m PROVE d[k] = e[n + k] /\ n + k \in 1 .. l
      OBVIOUS
  <2>1. n + k \in 1 .. l BY <1>1
  <2> QED BY <1>1, <2>1
<1>3. \A k \in 1 .. l : k \in 1 .. n \/ \E j \in 1 .. m : k = n + j
  <2> SUFFICES ASSUME NEW k \in 1 .. l, k \notin 1 .. n PROVE \E j \in 1 .. m : k = n + j
      OBVIOUS
  <2>1. k - n \in 1 .. m /\ k = n + (k - n) BY <1>1
  <2> QED BY <2>1
<1>4. n \in 0 .. l OBVIOUS
<1> HIDE DEF l, m
<1>5. Stamps(c, d) \subseteq Stamps(c, e)
  <2> SUFFICES ASSUME NEW k \in 1 .. m, d[k][1] = c PROVE d[k][2] \in Stamps(c, e)
      BY <1>1 DEF Stamps
  <2>1. d[k] = e[n + k] /\ n + k \in 1 .. l BY <1>2
  <2> QED BY <1>1, <2>1 DEF Stamps
<1>6. ASSUME NEW k \in 1 .. l, e[k][1] = c
      PROVE  e[k][2] \in Stamps(c, d) \/ \E j \in 1 .. n : e[j][1] = c /\ e[j][2] = e[k][2]
  <2>1. CASE k \in 1 .. n BY <1>6, <2>1
  <2>2. ASSUME NEW j \in 1 .. m, k = n + j PROVE e[k][2] \in Stamps(c, d)
        BY <1>1, <1>2, <1>6, <2>2 DEF Stamps
  <2> QED BY <1>3, <2>1, <2>2
<1>7. \A a \in Stamps(c, e) :
         a \in Stamps(c, d) \/ \E k \in 1 .. n : e[k][1] = c /\ e[k][2] = a
      BY <1>1, <1>6 DEF Stamps
<1>8. ASSUME InOrder(c, e) PROVE InOrder(c, d)
  <2> SUFFICES ASSUME NEW i \in 1 .. m, NEW j \in 1 .. m, i < j, d[i][1] = c, d[j][1] = c
               PROVE  d[i][2] < d[j][2]
      BY <1>1 DEF InOrder
  <2>1. d[i] = e[n + i] /\ n + i \in 1 .. l /\ d[j] = e[n + j] /\ n + j \in 1 .. l BY <1>2
  <2>2. n + i < n + j BY <1>1, <1>4
  <2> QED BY <1>1, <1>8, <2>1, <2>2 DEF InOrder
<1>9. ASSUME InOrder(c, e), NEW k \in 1 .. n, e[k][1] = c, NEW i \in 1 .. m, d[i][1] = c
      PROVE  e[k][2] < d[i][2]
  <2>1. d[i] = e[n + i] /\ n + i \in 1 .. l BY <1>2
  <2>2. k < n + i /\ k \in 1 .. l BY <1>1, <1>4
  <2> QED BY <1>1, <1>9, <2>1, <2>2 DEF InOrder
<1>10. InOrder(c, e) => \A k \in 1 .. n : e[k][1] = c => \A a \in Stamps(c, d) : e[k][2] < a
       BY <1>1, <1>9 DEF Stamps
<1> QED BY <1>5, <1>7, <1>8, <1>10

(* A command goes from the front of t to the end of s.                      *)
LEMMA MoveOver ==
    ASSUME NEW S, NEW s \in Seq(S), NEW t \in Seq(S), t # << >>
    PROVE  Append(s, Head(t)) \o Tail(t) = s \o t
<1>1. t = <<Head(t)>> \o Tail(t) /\ Head(t) \in S /\ Tail(t) \in Seq(S) BY HeadTailProperties
<1>2. Append(s, Head(t)) = s \o <<Head(t)>> /\ <<Head(t)>> \in Seq(S) BY <1>1
<1>3. (s \o <<Head(t)>>) \o Tail(t) = s \o (<<Head(t)>> \o Tail(t)) BY <1>1, <1>2, ConcatAssociative
<1> QED BY <1>1, <1>2, <1>3

-----------------------------------------------------------------------------
(* The dispatch queue, a circular one                                      *)

LEMMA ModTwice ==
    ASSUME NEW N \in Nat \ {0}, NEW a \in Nat, a < 2 * N
    PROVE  a % N = IF a < N THEN a ELSE a - N
BY SMTT(30)

LEMMA ModSum ==
    ASSUME NEW N \in Nat \ {0}, NEW h \in 0 .. N - 1, NEW i \in 0 .. N - 1
    PROVE  (h + i) % N = IF h + i < N THEN h + i ELSE h + i - N
<1> DEFINE a == h + i
<1>1. a \in Nat /\ a < 2 * N OBVIOUS
<1> HIDE DEF a
<1>2. a % N = IF a < N THEN a ELSE a - N BY <1>1, ModTwice
<1> QED BY <1>2 DEF a

LEMMA ModDiff ==
    ASSUME NEW N \in Nat \ {0}, NEW t \in 0 .. N - 1, NEW h \in 0 .. N - 1
    PROVE  (t - h) % N = IF t >= h THEN t - h ELSE t - h + N
BY SMTT(30)

(* Different distances from the head, below the size, are different slots,  *)
(* and a slot's distance from the head is one.                              *)
LEMMA SlotOf ==
    ASSUME NEW N \in Nat \ {0}, NEW h \in 0 .. N - 1, NEW i \in 0 .. N - 1
    PROVE  /\ (h + i) % N \in 0 .. N - 1
           /\ (((h + i) % N) - h) % N = i
<1> DEFINE s == (h + i) % N
<1>1. s = IF h + i < N THEN h + i ELSE h + i - N BY ModSum
<1> HIDE DEF s
<1>2. s \in 0 .. N - 1 BY <1>1
<1>3. (s - h) % N = IF s >= h THEN s - h ELSE s - h + N BY <1>2, ModDiff
<1>4. (IF s >= h THEN s - h ELSE s - h + N) = i BY <1>1, <1>2
<1> QED BY <1>2, <1>3, <1>4 DEF s

LEMMA SlotsDiffer ==
    ASSUME NEW N \in Nat \ {0}, NEW h \in 0 .. N - 1, NEW i \in 0 .. N - 1, NEW j \in 0 .. N - 1,
           i # j
    PROVE  (h + i) % N # (h + j) % N
BY SlotOf

(* The next slot is one further from the head.                              *)
LEMMA SlotAfter ==
    ASSUME NEW N \in Nat \ {0}, NEW h \in 0 .. N - 1, NEW i \in 0 .. N - 1, NEW j \in Nat,
           i + j < N
    PROVE  (((h + i) % N) + j) % N = (h + (i + j)) % N
<1> DEFINE s == (h + i) % N
           b == s + j
           d == h + (i + j)
<1>1. s = IF h + i < N THEN h + i ELSE h + i - N BY ModSum
<1>2. b \in Nat /\ b < 2 * N /\ d \in Nat /\ d < 2 * N
  <2> HIDE DEF s
  <2> QED BY <1>1
<1>3. (IF b < N THEN b ELSE b - N) = IF d < N THEN d ELSE d - N
  <2> HIDE DEF s
  <2> QED BY <1>1
<1> HIDE DEF b, d
<1>4. b % N = d % N BY <1>2, <1>3, ModTwice
<1> QED BY <1>4 DEF b, d

(* A queue with n commands, and where its tail is                           *)
QOK(q) ==
    /\ q \in QueueType /\ q.inflight = QueueLen(q)
    /\ Entries(q) \in Seq(Commands)

LEMMA QueueFacts ==
    ASSUME DqSize \in Nat \ {0}, NEW q, QOK(q)
    PROVE  /\ q.inflight \in 0 .. DqSize - 1 /\ Len(Entries(q)) = q.inflight
           /\ q.head \in 0 .. DqSize - 1 /\ q.tail \in 0 .. DqSize - 1
           /\ q.tail = (q.head + q.inflight) % DqSize
           /\ q.cmd \in [Slots -> Commands \cup {NoCmd}]
           /\ \A k \in 1 .. q.inflight : Entries(q)[k] = q.cmd[(q.head + (k - 1)) % DqSize]
           /\ q.inflight = 0 <=> IsEmpty(q)
           /\ q = [cmd |-> q.cmd, head |-> q.head, tail |-> q.tail, inflight |-> q.inflight]
<1>1. /\ q.head \in 0 .. DqSize - 1 /\ q.tail \in 0 .. DqSize - 1 /\ q.inflight = QueueLen(q)
      /\ q.cmd \in [Slots -> Commands \cup {NoCmd}]
      /\ q = [cmd |-> q.cmd, head |-> q.head, tail |-> q.tail, inflight |-> q.inflight]
      BY DEF QOK, QueueType, Slots
<1> DEFINE h == q.head
           t == q.tail
           u == q.inflight
<1> HIDE DEF h, t, u
<1>2. h \in 0 .. DqSize - 1 /\ t \in 0 .. DqSize - 1 BY <1>1 DEF h, t
<1>3. u = IF t >= h THEN t - h ELSE t - h + DqSize
  <2>1. u = (t - h) % DqSize BY <1>1 DEF QueueLen, h, t, u
  <2> QED BY <1>2, <2>1, ModDiff
<1>4. u \in 0 .. DqSize - 1 /\ (u = 0 <=> h = t) BY <1>2, <1>3
<1>5. t = (h + u) % DqSize
  <2>1. (h + u) % DqSize = IF h + u < DqSize THEN h + u ELSE h + u - DqSize
        BY <1>2, <1>4, ModSum
  <2>2. t = IF h + u < DqSize THEN h + u ELSE h + u - DqSize BY <1>2, <1>3
  <2> QED BY <2>1, <2>2
<1>6. Entries(q) = [k \in 1 .. u |-> q.cmd[(h + k - 1) % DqSize]]
      BY <1>1 DEF Entries, h, u
<1>7. Len(Entries(q)) = u
  <2>1. Entries(q) \in Seq(Commands) BY DEF QOK
  <2> QED BY <1>4, <1>6, <2>1
<1>8. \A k \in 1 .. u : Entries(q)[k] = q.cmd[(h + (k - 1)) % DqSize]
  <2> SUFFICES ASSUME NEW k \in 1 .. u PROVE Entries(q)[k] = q.cmd[(h + (k - 1)) % DqSize]
      OBVIOUS
  <2>1. h + k - 1 = h + (k - 1) BY <1>2, <1>4
  <2> QED BY <1>6, <2>1
<1> QED BY <1>1, <1>4, <1>5, <1>7, <1>8 DEF h, t, u, IsEmpty

(* The empty queue                                                          *)
LEMMA EmptyQueueFacts ==
    ASSUME DqSize \in Nat \ {0}
    PROVE  QOK(EmptyQueue) /\ Entries(EmptyQueue) = << >> /\ EmptyQueue.inflight = 0
<1>1. (0 - 0) % DqSize = 0 BY SMTT(30)
<1>2. QueueLen(EmptyQueue) = 0 BY <1>1 DEF QueueLen, EmptyQueue
<1>3. Entries(EmptyQueue) = << >> BY <1>2 DEF Entries
<1>4. EmptyQueue \in QueueType BY DEF EmptyQueue, QueueType, Slots
<1>5. EmptyQueue.inflight = 0 BY DEF EmptyQueue
<1> QED BY <1>2, <1>3, <1>4, <1>5 DEF QOK

(* Enqueue appends a command, where a slot stays free.                      *)
LEMMA EnqueueFacts ==
    ASSUME DqSize \in Nat \ {0}, NEW q, QOK(q), NEW x \in Commands, q.inflight + 1 < DqSize
    PROVE  /\ QOK(Enqueue(q, x)) /\ Enqueue(q, x).inflight = q.inflight + 1
           /\ Entries(Enqueue(q, x)) = Append(Entries(q), x)
<1> DEFINE p == Enqueue(q, x)
           h == q.head
           u == q.inflight
           e == Entries(q)
<1>1. /\ u \in 0 .. DqSize - 1 /\ Len(e) = u /\ h \in 0 .. DqSize - 1 /\ q.tail \in 0 .. DqSize - 1
      /\ q.tail = (h + u) % DqSize /\ q.cmd \in [Slots -> Commands \cup {NoCmd}]
      /\ \A k \in 1 .. u : e[k] = q.cmd[(h + (k - 1)) % DqSize]
      BY QueueFacts
<1>2. /\ p.cmd = [q.cmd EXCEPT ![q.tail] = x] /\ p.head = h /\ p.tail = (q.tail + 1) % DqSize
      /\ p.inflight = u + 1
      BY DEF Enqueue
<1>3. p = [cmd |-> p.cmd, head |-> p.head, tail |-> p.tail, inflight |-> p.inflight]
      BY DEF Enqueue
<1>4. e \in Seq(Commands) BY DEF QOK
<1>5. u + 1 < DqSize OBVIOUS
<1> HIDE DEF p, h, u, e
<1>6. p.tail = (h + (u + 1)) % DqSize
  <2>1. (((h + u) % DqSize) + 1) % DqSize = (h + (u + 1)) % DqSize BY SMTT(30), ZenonT(30), <1>1, <1>5, SlotAfter
  <2> QED BY <1>1, <1>2, <2>1
<1>7. u + 1 \in 0 .. DqSize - 1 BY <1>1, <1>5
<1>8. p.tail \in 0 .. DqSize - 1 /\ QueueLen(p) = u + 1
  <2>1. (h + (u + 1)) % DqSize \in 0 .. DqSize - 1
        /\ (((h + (u + 1)) % DqSize) - h) % DqSize = u + 1
        BY <1>1, <1>7, SlotOf
  <2> QED BY <1>2, <1>6, <2>1 DEF QueueLen
<1>9. p \in QueueType
  <2>1. p.cmd \in [Slots -> Commands \cup {NoCmd}] BY <1>1, <1>2
  <2>2. p.head \in Slots /\ p.tail \in Slots BY <1>1, <1>2, <1>8 DEF Slots
  <2>3. p.inflight \in 0 .. DqSize BY <1>2, <1>7
  <2> QED BY ONLY <1>3, <2>1, <2>2, <2>3 DEF QueueType
<1>10. ASSUME NEW k \in 1 .. u + 1
       PROVE  p.cmd[(p.head + k - 1) % DqSize] = IF k = u + 1 THEN x ELSE e[k]
  <2> DEFINE slot == (h + (k - 1)) % DqSize
  <2>1. p.head + k - 1 = h + (k - 1) BY <1>1, <1>2
  <2>2. k - 1 \in 0 .. DqSize - 1 BY <1>1, <1>7
  <2>3. slot \in Slots BY <1>1, <2>2, SlotOf DEF Slots
  <2>4. CASE k = u + 1
    <3>1. slot = q.tail
      <4>1. k - 1 = u BY <1>1, <2>4
      <4> QED BY <1>1, <4>1
    <3> HIDE DEF slot
    <3>2. p.cmd[slot] = x BY <1>1, <1>2, <2>3, <3>1
    <3> QED BY <2>1, <2>4, <3>2 DEF slot
  <2>5. CASE k # u + 1
    <3>1. k \in 1 .. u /\ k - 1 # u BY <1>1, <2>5
    <3>2. slot # q.tail
      <4>1. slot # (h + u) % DqSize BY <1>1, <2>2, <3>1, SlotsDiffer
      <4> HIDE DEF slot
      <4> QED BY <1>1, <4>1
    <3>3. e[k] = q.cmd[slot] BY <1>1, <3>1
    <3> HIDE DEF slot
    <3>4. p.cmd[slot] = q.cmd[slot] BY <1>1, <1>2, <2>3, <3>2
    <3> QED BY <2>1, <2>5, <3>3, <3>4 DEF slot
  <2> QED BY <2>4, <2>5
<1>11. Entries(p) = [k \in 1 .. u + 1 |-> IF k = u + 1 THEN x ELSE e[k]]
  <2>1. Entries(p) = [k \in 1 .. u + 1 |-> p.cmd[(p.head + k - 1) % DqSize]]
        BY <1>8 DEF Entries
  <2> QED BY <1>10, <2>1
<1>12. Entries(p) = Append(e, x)
  <2>1. /\ Append(e, x) \in Seq(Commands) /\ Len(Append(e, x)) = Len(e) + 1
        /\ \A k \in 1 .. Len(e) : Append(e, x)[k] = e[k]
        /\ Append(e, x)[Len(e) + 1] = x
        BY ONLY <1>4, x \in Commands, AppendProperties
  <2>2. Append(e, x) \in [1 .. u + 1 -> Commands] BY <1>1, <2>1, LenProperties
  <2>3. \A k \in 1 .. u + 1 : Append(e, x)[k] = IF k = u + 1 THEN x ELSE e[k] BY <1>1, <2>1
  <2> QED BY <1>11, <2>2, <2>3
<1>13. Append(e, x) \in Seq(Commands) BY <1>4
<1> QED BY <1>2, <1>8, <1>9, <1>12, <1>13 DEF QOK, p, e, u

(* The greatest of a set of numbers up to L                                 *)
LEMMA NatMax ==
    ASSUME NEW L \in Nat, NEW T, T \subseteq 0 .. L, T # {}
    PROVE  \E n \in T : \A m \in T : m <= n
<1> DEFINE D == {L - n : n \in T}
<1>1. D \subseteq Nat /\ D # {}
  <2>1. \A n \in T : L - n \in Nat OBVIOUS
  <2>2. PICK t \in T : TRUE OBVIOUS
  <2>3. L - t \in D BY <2>2
  <2> QED BY <2>1, <2>3
<1>2. PICK d \in D : \A k \in D : ~(k < d) BY <1>1, NatMin
<1>3. PICK n \in T : d = L - n OBVIOUS
<1>4. ASSUME NEW m \in T PROVE m <= n
  <2>1. L - m \in D OBVIOUS
  <2>2. ~(L - m < L - n) BY <1>2, <1>3, <2>1
  <2>3. m \in Nat /\ n \in Nat OBVIOUS
  <2> QED BY <2>2, <2>3
<1> QED BY <1>4

(* RetireCount is the length of the longest expired prefix.                 *)
LEMMA RetireFacts ==
    ASSUME DqSize \in Nat \ {0}, NEW q, QOK(q)
    PROVE  /\ RetireCount(q) \in 0 .. q.inflight
           /\ \A k \in 1 .. RetireCount(q) : Expired(Entries(q)[k])
           /\ RetireCount(q) < q.inflight => ~Expired(Entries(q)[RetireCount(q) + 1])
<1> DEFINE L == QueueLen(q)
           ok(k) == Expired(Entries(q)[k])
           T == {n \in 0 .. L : \A k \in 1 .. n : ok(k)}
           n == RetireCount(q)
<1>1. L = q.inflight /\ L \in Nat BY QueueFacts DEF QOK
<1>2. n = CHOOSE i \in T : \A m \in T : m <= i BY Zenon DEF RetireCount
<1> HIDE DEF L, ok, n
<1>3. T \subseteq 0 .. L /\ 0 \in T BY <1>1
<1>4. n \in T /\ \A m \in T : m <= n
  <2> HIDE DEF T
  <2>1. \E i \in T : \A m \in T : m <= i BY <1>1, <1>3, NatMax
  <2> QED BY <1>2, <2>1
<1>5. n \in 0 .. L /\ \A k \in 1 .. n : ok(k) BY <1>4
<1>6. n < L => ~ok(n + 1)
  <2> SUFFICES ASSUME n < L, ok(n + 1) PROVE FALSE OBVIOUS
  <2>1. n + 1 \in 0 .. L BY <1>1, <1>5
  <2>2. \A k \in 1 .. n + 1 : ok(k)
    <3> SUFFICES ASSUME NEW k \in 1 .. n + 1 PROVE ok(k) OBVIOUS
    <3>1. k \in 1 .. n \/ k = n + 1 BY <1>1, <1>5
    <3> QED BY <1>5, <3>1
  <2>3. n + 1 \in T BY <2>1, <2>2
  <2>4. n + 1 <= n BY <1>4, <2>3
  <2> QED BY <1>1, <1>5, <2>4
<1> QED BY <1>1, <1>5, <1>6 DEF n, ok

(* Dequeue leaves the entries behind the first n.                           *)
LEMMA DequeueFacts ==
    ASSUME DqSize \in Nat \ {0}, NEW q, QOK(q), NEW n \in 0 .. q.inflight
    PROVE  /\ QOK(Dequeue(q, n)) /\ Dequeue(q, n).inflight = q.inflight - n
           /\ Len(Entries(Dequeue(q, n))) = q.inflight - n
           /\ \A k \in 1 .. q.inflight - n : Entries(Dequeue(q, n))[k] = Entries(q)[n + k]
<1> DEFINE p == Dequeue(q, n)
           h == q.head
           u == q.inflight
           e == Entries(q)
           g == (h + n) % DqSize
           m == u - n
<1>1. /\ u \in 0 .. DqSize - 1 /\ Len(e) = u /\ h \in 0 .. DqSize - 1 /\ q.tail \in 0 .. DqSize - 1
      /\ q.tail = (h + u) % DqSize /\ q.cmd \in [Slots -> Commands \cup {NoCmd}]
      /\ \A k \in 1 .. u : e[k] = q.cmd[(h + (k - 1)) % DqSize]
      BY QueueFacts
<1>2. /\ p.cmd = [i \in Slots |-> IF (i - h) % DqSize < n THEN NoCmd ELSE q.cmd[i]]
      /\ p.head = g /\ p.tail = q.tail /\ p.inflight = m
      BY DEF Dequeue
<1>3. p = [cmd |-> p.cmd, head |-> p.head, tail |-> p.tail, inflight |-> p.inflight]
      BY DEF Dequeue
<1>4. e \in Seq(Commands) BY DEF QOK
<1>5. n \in 0 .. u OBVIOUS
<1> HIDE DEF p, h, u, e, g, m
<1>6. m \in 0 .. DqSize - 1 /\ n \in 0 .. DqSize - 1 /\ n + m = u BY <1>1, <1>5 DEF m
<1>7. g \in 0 .. DqSize - 1 BY <1>1, <1>6, SlotOf DEF g
<1>8. q.tail = (g + m) % DqSize
  <2>1. n + m < DqSize /\ m \in Nat BY <1>1, <1>6
  <2>2. (g + m) % DqSize = (h + (n + m)) % DqSize BY <1>1, <1>6, <2>1, SlotAfter DEF g
  <2> QED BY <1>1, <1>6, <2>2
<1>9. QueueLen(p) = m
  <2>1. (((g + m) % DqSize) - g) % DqSize = m BY <1>6, <1>7, SlotOf
  <2> QED BY <1>2, <1>8, <2>1 DEF QueueLen
<1>10. p \in QueueType
  <2>1. p.cmd \in [Slots -> Commands \cup {NoCmd}] BY <1>1, <1>2
  <2>2. p.head \in Slots /\ p.tail \in Slots BY <1>1, <1>2, <1>7 DEF Slots
  <2>3. p.inflight \in 0 .. DqSize BY <1>2, <1>6
  <2> QED BY ONLY <1>3, <2>1, <2>2, <2>3 DEF QueueType
<1>11. Entries(p) = [k \in 1 .. m |-> p.cmd[(g + k - 1) % DqSize]] BY <1>2, <1>9 DEF Entries
<1>12. ASSUME NEW k \in 1 .. m PROVE Entries(p)[k] = e[n + k]
  <2> DEFINE j == k - 1
             slot == (h + (n + j)) % DqSize
  <2>1. j \in Nat /\ n + j < DqSize /\ n + j \in 0 .. DqSize - 1 /\ g + k - 1 = g + j
        /\ n + k \in 1 .. u /\ (n + k) - 1 = n + j /\ ~(n + j < n)
        BY <1>1, <1>6, <1>7
  <2>2. (g + j) % DqSize = slot
    <3> HIDE DEF j
    <3> QED BY SMTT(30), ZenonT(30), <1>1, <1>6, <2>1, SlotAfter DEF g
  <2>3. slot \in Slots /\ (slot - h) % DqSize = n + j
    <3> HIDE DEF j
    <3> QED BY <1>1, <2>1, SlotOf DEF Slots
  <2>4. Entries(p)[k] = p.cmd[slot] BY <1>11, <2>1, <2>2
  <2>5. e[n + k] = q.cmd[slot] BY <1>1, <2>1
  <2> HIDE DEF slot, j
  <2>6. p.cmd[slot] = q.cmd[slot] BY <1>2, <2>1, <2>3
  <2> QED BY <2>4, <2>5, <2>6
<1>13. Entries(p) \in Seq(Commands) /\ Len(Entries(p)) = m
  <2> DEFINE s == Entries(p)
  <2>1. \A k \in 1 .. m : s[k] \in Commands
    <3> SUFFICES ASSUME NEW k \in 1 .. m PROVE s[k] \in Commands OBVIOUS
    <3>1. n + k \in 1 .. u BY <1>1, <1>6
    <3>2. e[n + k] \in Commands BY <1>1, <1>4, <3>1
    <3> QED BY <1>12, <3>2
  <2>2. s = [k \in 1 .. m |-> s[k]] BY <1>11
  <2> HIDE DEF s
  <2>3. m \in Nat BY <1>6
  <2>4. s \in [1 .. m -> Commands] BY <2>1, <2>2
  <2>5. s \in Seq(Commands) BY <2>3, <2>4
  <2>6. Len(s) = m BY <2>3, <2>4, <2>5, LenProperties
  <2> QED BY <2>5, <2>6 DEF s
<1> QED BY <1>2, <1>9, <1>10, <1>12, <1>13 DEF QOK, p, e, u, m

-----------------------------------------------------------------------------
(* The inductive invariant                                                 *)

(* Every queue can hold what _drawqueue_inflight lets in.                   *)
QueueHasRoom == InflightMax < DqSize

(* Who holds the mutex and where it is, and which commands there are        *)
Holder ==
    /\ scene \in Scenes
    /\ step = "idle" <=> mutex = "none"
    /\ step \in {"retire", "fault", "recover"} => mutex = "worker"
    /\ step = "retire" => at \in RingIds
    /\ step \in {"jobs", "send", "submit"} => at \in LevelIds
    /\ step \in {"send", "submit"} => ctx \in Contexts \ bad
    /\ step = "submit" => count < Burst /\ ~Full(ctx) /\ sent[ctx] >= 1
    /\ step # "recover" => todo = << >> /\ replay = << >> /\ saved = 0
    /\ \A c \in Contexts : sent[c] <= queuedTs[c] /\ queuedTs[c] <= scene.quota[c]

(* The dispatch queues are well formed and have room for what is replayed,  *)
(* which is all of one ring, already recovered.                             *)
Queues ==
    /\ \A r \in RingIds : QOK(cmdq[r]) /\ cmdq[r].inflight <= InflightMax
    /\ \A j, k \in DOMAIN todo : j # k => todo[j] # todo[k]
    /\ replay # << >> =>
         \E r \in RingIds \ Recovering :
            /\ cmdq[r].inflight + Len(replay) <= InflightMax
            /\ \A k \in DOMAIN replay : RbOf(replay[k][1]) = r
    /\ inflight = Below[scene.rings]

(* The idle gate, the halt and the fault                                    *)
Gates ==
    /\ gate = ~active
    /\ replay # << >> \/ (\E r \in RingIds : cmdq[r].inflight > 0) => active
    /\ ipc = "relock" /\ ires = "idle" =>
         replay = << >> /\ \A r \in RingIds : cmdq[r].inflight = 0
Halts ==
    /\ halt + saved + (IF pm \in {"prepared", "draining"} THEN 1 ELSE 0) <= nidles + nsuspends
    /\ ipc # "idle" => halt + saved >= 1
    /\ pm = "suspended" => ~awake /\ ipc = "idle" /\ halt >= 1
Faults ==
    /\ fault # {} /\ awake => pending \/ step \in {"retire", "fault"} \/ pm # "on"
    /\ ~haltGate => pm \in {"draining", "suspended"}

(* A dispatch queue e and a ringbuffer h agree from their ends on, and what *)
(* e has and h has not has retired.                                         *)
Agree(e, h) == \A i \in 0 .. Len(e) - 1 : i < Len(h) => e[Len(e) - i] = h[Len(h) - i]
Over(ret, e, h) == \A k \in 1 .. Len(e) : k <= Len(e) - Len(h) => ret[e[k][1]] >= e[k][2]

(* x is a command of ring r, queued.                                        *)
Known(r, x) == RbOf(x[1]) = r /\ x[2] <= queuedTs[x[1]]

(* Where the commands are                                                   *)
Whereabouts ==
    /\ \A r \in RingIds : /\ \A k \in DOMAIN Entries(cmdq[r]) : Known(r, Entries(cmdq[r])[k])
                          /\ \A k \in DOMAIN hw[r] : Known(r, hw[r][k])
    /\ \A k \in DOMAIN replay : replay[k][2] <= queuedTs[replay[k][1]]
    /\ \A r \in Recovering : hw[r] = << >>
    /\ \A r \in RingIds \ Recovering :
         Agree(Entries(cmdq[r]), hw[r]) /\ Over(retired, Entries(cmdq[r]), hw[r])
    /\ \A c \in Contexts : InOrder(c, OnItsWay(c)) /\ InOrder(c, Held(c))

IInv == TypeOK /\ Holder /\ Queues /\ VoteMatchesWork /\ Gates /\ Halts /\ Faults
        /\ Whereabouts /\ NoCommandLost

USE DEF ctxVars, jobVars, holdVars, dqVars, recVars, powerVars, hwVars, idleVars, pmVars,
        boundVars, sendVars, issueOthers, workOthers, hwOthers, idleOthers, pmOthers

(* The type invariant in five parts                                         *)
TypeContexts ==
    /\ queuedTs \in [Contexts -> Nat] /\ sent \in [Contexts -> Nat]
    /\ retired \in [Contexts -> Nat] /\ bad \subseteq Contexts
    /\ fences \subseteq Fenced /\ owed \subseteq Contexts
    /\ spc \in [Contexts -> {"idle", "queued", "added", "inline"}]
TypeJobs ==
    /\ jobs \in [LevelIds -> Seq(Contexts)] /\ requeue \in [LevelIds -> Seq(Contexts)]
    /\ mutex \in Contexts \cup {"none", "worker"} /\ step \in Steps /\ at \in Nat
    /\ list \in Seq(Contexts) /\ seen \subseteq Contexts
    /\ ctx \in Contexts \cup {NoCtx} /\ count \in 0 .. Burst
TypeQueues ==
    /\ cmdq \in [RingIds -> QueueType] /\ inflight \in Nat
    /\ todo \in Seq(RingIds) /\ replay \in Seq(Commands)
    /\ hw \in [RingIds -> Seq(Commands)] /\ cur \in RingIds /\ expired \subseteq RingIds
    /\ flt \subseteq {"hard", "timeout"} /\ fault \subseteq {"hard", "timeout"}
TypeFlags ==
    /\ pending \in BOOLEAN /\ hung \in BOOLEAN /\ haltGate \in BOOLEAN
    /\ powered \in BOOLEAN /\ active \in BOOLEAN /\ gate \in BOOLEAN /\ awake \in BOOLEAN
    /\ timer \in {"off", "set", "stale"}
    /\ ipc \in {"idle", "flush", "wait", "relock"}
    /\ ires \in {"none", "idle", "timeout", "deadlock"}
    /\ pm \in {"on", "prepared", "draining", "suspended", "resumed"}
TypeNumbers ==
    /\ cnt \in 0 .. 2 /\ flush \in 0 .. 1
    /\ saved \in 0 .. scene.idles + scene.suspends
    /\ halt \in 0 .. scene.idles + scene.suspends
    /\ nfaults \in 0 .. scene.faults /\ nhangs \in 0 .. scene.hangs
    /\ nfails \in 0 .. scene.fails /\ nidles \in 0 .. scene.idles
    /\ nsuspends \in 0 .. scene.suspends

LEMMA TypeParts ==
    /\ TypeOK <=> TypeContexts /\ TypeJobs /\ TypeQueues /\ TypeFlags /\ TypeNumbers
    /\ TypeOK' <=> TypeContexts' /\ TypeJobs' /\ TypeQueues' /\ TypeFlags' /\ TypeNumbers'
BY Zenon DEF TypeOK, TypeContexts, TypeJobs, TypeQueues, TypeFlags, TypeNumbers

(* What there is to a scene, and to a command                               *)
LEMMA SceneFacts ==
    ASSUME scene \in Scenes
    PROVE  /\ scene.rings \in Nat \ {0} /\ scene.levels \in Nat \ {0}
           /\ scene.faults \in Nat /\ scene.hangs \in Nat /\ scene.fails \in Nat
           /\ scene.idles \in Nat /\ scene.suspends \in Nat
           /\ \A c \in Contexts : /\ RbOf(c) \in RingIds /\ Prio(c) \in LevelIds
                                  /\ scene.quota[c] \in Nat
           /\ 0 \in RingIds /\ 0 \in LevelIds
           /\ DqSize \in Nat \ {0} /\ InflightMax \in Nat \ {0} /\ Burst \in Nat \ {0}
           /\ "worker" \notin Contexts /\ "none" \notin Contexts
<1>1. scene \in SceneType BY DispatcherAssumption
<1>2. \A c \in Contexts : scene.rb[c] \in Nat /\ scene.prio[c] \in Nat /\ scene.quota[c] \in Nat
      BY <1>1 DEF SceneType
<1>3. /\ scene.rings \in Nat \ {0} /\ scene.levels \in Nat \ {0}
      /\ scene.faults \in Nat /\ scene.hangs \in Nat /\ scene.fails \in Nat
      /\ scene.idles \in Nat /\ scene.suspends \in Nat
      BY <1>1 DEF SceneType
<1>4. \A c \in Contexts : scene.rb[c] < scene.rings /\ scene.prio[c] < scene.levels
      BY DispatcherAssumption
<1>5. \A c \in Contexts : RbOf(c) \in RingIds /\ Prio(c) \in LevelIds
      BY <1>2, <1>3, <1>4 DEF RbOf, Prio, RingIds, LevelIds
<1>6. 0 \in RingIds /\ 0 \in LevelIds BY <1>3 DEF RingIds, LevelIds
<1> QED BY <1>2, <1>3, <1>5, <1>6, DispatcherAssumption

LEMMA CommandFacts ==
    /\ \A x \in Commands : x[1] \in Contexts /\ x[2] \in Nat \ {0}
    /\ scene \in Scenes => \A c \in Contexts : \A n \in 1 .. scene.quota[c] : <<c, n>> \in Commands
<1>1. ASSUME NEW x \in Commands PROVE x[1] \in Contexts /\ x[2] \in Nat \ {0}
  <2>1. PICK c \in Contexts, s \in Scenes : x \in {c} \X (1 .. s.quota[c]) BY DEF Commands
  <2>2. x[1] = c /\ x[2] \in 1 .. s.quota[c] BY <2>1
  <2> QED BY <2>2
<1>2. ASSUME scene \in Scenes, NEW c \in Contexts, NEW n \in 1 .. scene.quota[c]
      PROVE  <<c, n>> \in Commands
  <2> DEFINE X == {c} \X (1 .. scene.quota[c])
             Y == {{d} \X (1 .. s.quota[d]) : d \in Contexts, s \in Scenes}
  <2>1. <<c, n>> \in X OBVIOUS
  <2>2. X \in Y BY <1>2
  <2>3. Commands = UNION Y BY DEF Commands
  <2> HIDE DEF X, Y
  <2> QED BY <2>1, <2>2, <2>3
<1> QED BY <1>1, <1>2

(* What a send that fails does, and one that goes through                   *)
LEMMA FailedSend ==
    ASSUME SendFails \/ SendHalted
    PROVE  /\ UNCHANGED <<cmdq, inflight, hw, active, gate, timer, expired>>
           /\ \/ UNCHANGED <<awake, fault, pending, haltGate>>
              \/ /\ ~awake /\ ~powered /\ inflight = 0 /\ halt = 0
                 /\ awake' = TRUE /\ fault' = {} /\ pending' = TRUE /\ haltGate' = TRUE
           /\ \/ UNCHANGED <<powered, cnt>>
              \/ /\ inflight = 0 /\ powered' = FALSE
                 /\ cnt' = IF powered THEN cnt - 1 ELSE cnt
           /\ UNCHANGED nfails \/ (nfails < scene.fails /\ nfails' = nfails + 1)
BY DEF SendFails, SendHalted, SendNoPower, SendRefused, GetPower, VoteAfterFailure, NeedsPower,
       Halted

LEMMA GoodSend ==
    ASSUME powered \in BOOLEAN, NEW x, SendOk(x)
    PROVE  /\ halt = 0 /\ fault' = {} /\ UNCHANGED nfails
           /\ \/ /\ UNCHANGED <<awake, fault, pending, haltGate, powered, cnt>>
                 /\ inflight # 0 \/ powered
              \/ /\ inflight = 0 /\ ~powered /\ awake /\ UNCHANGED <<awake, fault, pending, haltGate>>
                 /\ powered' = TRUE /\ cnt' = cnt + 1
              \/ /\ inflight = 0 /\ ~powered /\ ~awake
                 /\ awake' = TRUE /\ pending' = TRUE /\ haltGate' = TRUE
                 /\ powered' = TRUE /\ cnt' = cnt + 1
           /\ active' = (active \/ inflight = 0) /\ gate' = (gate /\ ~(inflight = 0 /\ ~active))
           /\ inflight' = inflight + 1
           /\ cmdq' = [cmdq EXCEPT ![RbOf(x[1])] = Enqueue(cmdq[RbOf(x[1])], x)]
           /\ hw' = [hw EXCEPT ![RbOf(x[1])] = Append(hw[RbOf(x[1])], x)]
           /\ expired' \subseteq expired /\ timer' \in {timer, "set"}
<1>1. CASE NeedsPower BY <1>1 DEF SendOk, GetPower, NeedsPower, Halted, CloseGate
<1>2. CASE ~NeedsPower
  <2>1. powered' = powered BY <1>2 DEF SendOk
  <2> QED BY <1>2, <2>1 DEF SendOk, GetPower, NeedsPower, Halted, CloseGate
<1> QED BY <1>1, <1>2

(* The jobs of a priority, after one comes or all are taken                 *)
LEMMA JobsFacts ==
    ASSUME NEW L, NEW f \in [L -> Seq(Contexts)], NEW l \in L, NEW c \in Contexts
    PROVE  /\ [f EXCEPT ![l] = Append(f[l], c)] \in [L -> Seq(Contexts)]
           /\ [f EXCEPT ![l] = << >>] \in [L -> Seq(Contexts)]
<1>1. Append(f[l], c) \in Seq(Contexts) /\ << >> \in Seq(Contexts) OBVIOUS
<1> QED BY <1>1

LEMMA TakenFacts ==
    ASSUME NEW L, NEW f \in [L -> Seq(Contexts)], NEW g \in [L -> Seq(Contexts)], NEW l \in L
    PROVE  f[l] \o g[l] \in Seq(Contexts)
<1>1. f[l] \in Seq(Contexts) /\ g[l] \in Seq(Contexts) OBVIOUS
<1> QED BY <1>1, ConcatProperties

(* The contexts that are declared guilty have commands in the queue.        *)
LEMMA CulpritFacts ==
    ASSUME NEW e \in Seq(Commands), NEW f, NEW C \in Culprits(e, f)
    PROVE  \A c \in C : c \in Contexts /\ \E k \in 1 .. Len(e) : e[k][1] = c
<1>1. CASE e = << >> \/ f = {} BY <1>1 DEF Culprits
<1>2. CASE ~(e = << >> \/ f = {})
  <2>1. Len(e) \in Nat /\ Len(e) # 0 BY <1>2, EmptySeq, LenProperties
  <2>2. 1 \in 1 .. Len(e) /\ e[1] \in Commands BY <2>1
  <2>3. e[1][1] \in Contexts BY <2>2, CommandFacts
  <2>4. C \subseteq {e[1][1]} BY <1>2 DEF Culprits
  <2> QED BY <2>2, <2>3, <2>4
<1> QED BY <1>1, <1>2

LEMMA EveryoneFacts ==
    ASSUME NEW e \in Seq(Commands)
    PROVE  \A c \in {e[k][1] : k \in DOMAIN e} :
              c \in Contexts /\ \E k \in 1 .. Len(e) : e[k][1] = c
<1>1. DOMAIN e = 1 .. Len(e) BY LenProperties
<1>2. ASSUME NEW k \in 1 .. Len(e) PROVE e[k][1] \in Contexts
  <2>1. e[k] \in Commands OBVIOUS
  <2> QED BY <2>1, CommandFacts
<1> QED BY <1>1, <1>2

LEMMA HeadCommand ==
    ASSUME NEW s \in Seq(Commands), s # << >>
    PROVE  /\ Head(s) \in Commands /\ Head(s)[1] \in Contexts /\ Head(s)[2] \in Nat \ {0}
           /\ Tail(s) \in Seq(Commands)
BY HeadTailProperties, CommandFacts

(* The rings to recover                                                     *)
LEMMA TodoFacts ==
    ASSUME todo \in Seq(RingIds), \A j, k \in DOMAIN todo : j # k => todo[j] # todo[k],
           todo # << >>
    PROVE  /\ Head(todo) \in RingIds /\ Tail(todo) \in Seq(RingIds) /\ Head(todo) \in Recovering
           /\ {Tail(todo)[k] : k \in DOMAIN Tail(todo)} = Recovering \ {Head(todo)}
           /\ \A j, k \in DOMAIN Tail(todo) : j # k => Tail(todo)[j] # Tail(todo)[k]
<1> DEFINE n == Len(todo)
           t == Tail(todo)
<1>1. /\ n \in Nat /\ n # 0 /\ DOMAIN todo = 1 .. n /\ Head(todo) = todo[1]
      /\ Head(todo) \in RingIds /\ t \in Seq(RingIds)
      /\ Len(t) = n - 1 /\ \A k \in 1 .. n - 1 : t[k] = todo[k + 1]
  <2>1. n \in Nat /\ n # 0 /\ DOMAIN todo = 1 .. n BY EmptySeq, LenProperties
  <2>2. Head(todo) \in RingIds /\ t \in Seq(RingIds) /\ Len(t) = n - 1 BY HeadTailProperties
  <2>3. \A k \in 1 .. Len(t) : t[k] = todo[k + 1] BY HeadTailProperties
  <2>4. Head(todo) = todo[1] OBVIOUS
  <2> QED BY <2>1, <2>2, <2>3, <2>4
<1>2. DOMAIN t = 1 .. n - 1 BY <1>1, LenProperties
<1> HIDE DEF n, t
<1>3. \A k \in 1 .. n - 1 : k + 1 \in 1 .. n /\ k + 1 # 1 BY <1>1
<1>4. \A k \in 1 .. n : k = 1 \/ (k - 1 \in 1 .. n - 1 /\ (k - 1) + 1 = k) BY <1>1
<1>5. {t[k] : k \in DOMAIN t} \subseteq Recovering \ {Head(todo)}
  <2> SUFFICES ASSUME NEW k \in 1 .. n - 1 PROVE t[k] \in Recovering \ {Head(todo)}
      BY <1>2
  <2>1. t[k] = todo[k + 1] /\ k + 1 \in 1 .. n /\ k + 1 # 1 BY <1>1, <1>3
  <2>2. 1 \in 1 .. n BY <1>1
  <2>3. todo[k + 1] # todo[1] BY <1>1, <2>1, <2>2
  <2> QED BY <1>1, <2>1, <2>3 DEF Recovering
<1>6. Recovering \ {Head(todo)} \subseteq {t[k] : k \in DOMAIN t}
  <2> SUFFICES ASSUME NEW k \in 1 .. n, todo[k] # Head(todo)
               PROVE  todo[k] \in {t[j] : j \in 1 .. n - 1}
      BY SMTT(30), ZenonT(30), <1>1, <1>2 DEF Recovering
  <2>1. k # 1 BY <1>1
  <2>2. k - 1 \in 1 .. n - 1 /\ (k - 1) + 1 = k BY <1>4, <2>1
  <2>3. t[k - 1] = todo[(k - 1) + 1] BY <1>1, <2>2
  <2>4. t[k - 1] = todo[k] BY <2>2, <2>3
  <2> QED BY <2>2, <2>4
<1>7. \A j, k \in 1 .. n - 1 : j # k => t[j] # t[k]
  <2> SUFFICES ASSUME NEW j \in 1 .. n - 1, NEW k \in 1 .. n - 1, j # k PROVE t[j] # t[k]
      OBVIOUS
  <2>1. j + 1 # k + 1 /\ j + 1 \in 1 .. n /\ k + 1 \in 1 .. n BY <1>1
  <2>2. todo[j + 1] # todo[k + 1] BY <1>1, <2>1
  <2> QED BY <1>1, <2>2
<1>8. Head(todo) \in Recovering
  <2>1. 1 \in 1 .. n BY <1>1
  <2> QED BY <1>1, <2>1 DEF Recovering
<1> QED BY <1>1, <1>2, <1>5, <1>6, <1>7, <1>8 DEF t

LEMMA GuiltyTypes ==
    ASSUME TypeContexts, NEW C, C \subseteq Contexts, SetGuilty(C),
           UNCHANGED <<queuedTs, fences, owed, spc>>
    PROVE  TypeContexts'
BY DEF TypeContexts, SetGuilty

(* The dispatch queue of a ring to recover                                  *)
LEMMA HeadRing ==
    ASSUME TypeQueues, Queues, todo # << >>
    PROVE  /\ Head(todo) \in RingIds /\ Head(todo) \in Recovering /\ QOK(cmdq[Head(todo)])
           /\ Entries(cmdq[Head(todo)]) \in Seq(Commands)
<1>1. Head(todo) \in RingIds /\ Head(todo) \in Recovering
      BY TodoFacts DEF TypeQueues, Queues
<1>2. QOK(cmdq[Head(todo)]) BY <1>1 DEF Queues
<1> QED BY <1>1, <1>2 DEF QOK

(* The sum over the rings is a Total.                                       *)
LEMMA BelowIs ==
    /\ Below[scene.rings] = Total(InFlight, scene.rings)[scene.rings]
    /\ (Below[scene.rings])' = Total(InFlight', scene.rings')[scene.rings']
<1>1. Below = Total(InFlight, scene.rings) BY Zenon DEF Below, Total, IsTotal
<1>2. Below' = Total(InFlight', scene.rings') BY Zenon DEF Below, Total, IsTotal
<1> QED BY <1>1, <1>2

LEMMA InFlightFacts ==
    ASSUME scene \in Scenes, \A r \in RingIds : QOK(cmdq[r])
    PROVE  /\ InFlight \in [0 .. scene.rings - 1 -> Nat] /\ scene.rings \in Nat
           /\ \A r \in RingIds : cmdq[r].inflight \in Nat
<1>1. scene.rings \in Nat /\ DqSize \in Nat \ {0} BY SceneFacts
<1>2. \A r \in RingIds : cmdq[r].inflight \in Nat BY <1>1, QueueFacts
<1> QED BY <1>1, <1>2 DEF InFlight, RingIds

LEMMA InFlightNext ==
    ASSUME scene \in Scenes, scene' = scene, \A r \in RingIds : QOK(cmdq'[r])
    PROVE  /\ InFlight' \in [0 .. scene.rings - 1 -> Nat]
           /\ InFlight' = [r \in RingIds |-> IF r \in Recovering' THEN 0 ELSE cmdq'[r].inflight]
           /\ \A r \in RingIds : cmdq'[r].inflight \in Nat
<1>1. scene.rings \in Nat /\ DqSize \in Nat \ {0} BY SceneFacts
<1>2. \A r \in RingIds : cmdq'[r].inflight \in Nat BY <1>1, QueueFacts
<1>3. RingIds' = RingIds BY DEF RingIds
<1>4. InFlight' = [r \in RingIds |-> IF r \in Recovering' THEN 0 ELSE cmdq'[r].inflight]
      BY <1>3 DEF InFlight
<1> QED BY <1>1, <1>2, <1>4 DEF RingIds

(* When the count of one ring changes, dispatcher->inflight changes so.     *)
LEMMA OneRingChanges ==
    ASSUME scene \in Scenes, scene' = scene, \A r \in RingIds : QOK(cmdq[r]) /\ QOK(cmdq'[r]),
           Recovering' = Recovering, NEW r \in RingIds, r \notin Recovering,
           \A q \in RingIds : q # r => cmdq'[q] = cmdq[q],
           inflight = Below[scene.rings],
           inflight' = inflight - cmdq[r].inflight + cmdq'[r].inflight
    PROVE  inflight' = (Below[scene.rings])' /\ inflight' \in Nat
<1> DEFINE n == scene.rings
           f == InFlight
           g == InFlight'
<1>1. n \in Nat /\ f \in [0 .. n - 1 -> Nat] /\ g \in [0 .. n - 1 -> Nat] /\ r \in 0 .. n - 1
      BY InFlightFacts, InFlightNext DEF RingIds
<1>2. f[r] = cmdq[r].inflight BY DEF InFlight
<1>3. g[r] = cmdq'[r].inflight BY InFlightNext
<1>4. \A q \in 0 .. n - 1 : q # r => g[q] = f[q] BY InFlightNext DEF InFlight, RingIds
<1>5. inflight = Total(f, n)[n] /\ (Below[scene.rings])' = Total(g, n)[n] BY BelowIs
<1> HIDE DEF n, f, g
<1>6. Total(g, n)[n] = Total(f, n)[n] - f[r] + g[r] BY <1>1, <1>4, TotalExcept
<1>7. Total(g, n)[n] \in Nat BY <1>1, TotalBounds
<1> QED BY <1>2, <1>3, <1>5, <1>6, <1>7

(* When none of them changes                                                *)
LEMMA NoRingChanges ==
    ASSUME scene' = scene, UNCHANGED inflight, InFlight' = InFlight, inflight = Below[scene.rings]
    PROVE  inflight' = (Below[scene.rings])'
BY BelowIs

LEMMA QueuesFrame ==
    ASSUME Queues, UNCHANGED <<scene, cmdq, inflight, todo, replay>>
    PROVE  Queues'
<1>1. Recovering' = Recovering /\ RingIds' = RingIds BY DEF Recovering, RingIds
<1>2. InFlight' = InFlight BY <1>1 DEF InFlight
<1>3. inflight' = (Below[scene.rings])' BY <1>2, NoRingChanges DEF Queues
<1> QED BY <1>1, <1>3 DEF Queues, RbOf

(* A command that is sent is in its ring's queue and ringbuffer.            *)
LEMMA PushQueues ==
    ASSUME QueueHasRoom, scene \in Scenes, scene' = scene, Queues, TypeQueues,
           powered \in BOOLEAN, NEW x \in Commands, SendOk(x), NEW r \in RingIds,
           r = RbOf(x[1]), r \notin Recovering, Recovering' = Recovering,
           cmdq[r].inflight < InflightMax
    PROVE  /\ cmdq' \in [RingIds -> QueueType] /\ hw' \in [RingIds -> Seq(Commands)]
           /\ \A q \in RingIds : QOK(cmdq'[q]) /\ cmdq'[q].inflight <= InflightMax
           /\ inflight' = (Below[scene.rings])' /\ inflight' \in Nat
           /\ \A q \in RingIds : q # r => cmdq'[q] = cmdq[q] /\ hw'[q] = hw[q]
           /\ cmdq'[r].inflight = cmdq[r].inflight + 1
           /\ Entries(cmdq'[r]) = Append(Entries(cmdq[r]), x) /\ hw'[r] = Append(hw[r], x)
<1>1. DqSize \in Nat \ {0} /\ InflightMax \in Nat \ {0} /\ InflightMax < DqSize
      BY SceneFacts DEF QueueHasRoom
<1>2. \A q \in RingIds : QOK(cmdq[q]) /\ cmdq[q].inflight <= InflightMax BY DEF Queues
<1>3. cmdq[r].inflight \in Nat BY <1>2, InFlightFacts
<1>4. cmdq[r].inflight + 1 < DqSize BY <1>1, <1>3
<1> DEFINE p == Enqueue(cmdq[r], x)
<1>5. QOK(p) /\ p.inflight = cmdq[r].inflight + 1 /\ Entries(p) = Append(Entries(cmdq[r]), x)
      BY <1>1, <1>2, <1>4, EnqueueFacts
<1>6. inflight' = inflight + 1 /\ cmdq' = [cmdq EXCEPT ![r] = p]
      /\ hw' = [hw EXCEPT ![r] = Append(hw[r], x)]
      BY GoodSend
<1> HIDE DEF p
<1>7. p \in QueueType BY <1>5 DEF QOK
<1>8. cmdq \in [RingIds -> QueueType] /\ hw \in [RingIds -> Seq(Commands)] BY DEF TypeQueues
<1>9. cmdq' \in [RingIds -> QueueType] /\ cmdq'[r] = p
      /\ \A q \in RingIds : q # r => cmdq'[q] = cmdq[q]
      BY <1>6, <1>7, <1>8
<1>10. Append(hw[r], x) \in Seq(Commands)
  <2>1. hw[r] \in Seq(Commands) BY <1>8
  <2> QED BY <2>1
<1>11. hw' \in [RingIds -> Seq(Commands)] /\ hw'[r] = Append(hw[r], x)
       /\ \A q \in RingIds : q # r => hw'[q] = hw[q]
       BY <1>6, <1>8, <1>10
<1>12. \A q \in RingIds : QOK(cmdq'[q]) /\ cmdq'[q].inflight <= InflightMax
       BY <1>1, <1>2, <1>3, <1>5, <1>9
<1>13. inflight' = inflight - cmdq[r].inflight + cmdq'[r].inflight
  <2>1. inflight \in Nat BY DEF TypeQueues
  <2> QED BY <1>3, <1>5, <1>6, <1>9, <2>1
<1>14. inflight' = (Below[scene.rings])' /\ inflight' \in Nat
       BY <1>2, <1>9, <1>12, <1>13, OneRingChanges DEF Queues
<1> QED BY <1>5, <1>9, <1>11, <1>12, <1>14

LEMMA NoneRecovering ==
    ASSUME todo = << >>
    PROVE  Recovering = {}
BY DEF Recovering

LEMMA SubmitOkQueues ==
    ASSUME QueueHasRoom, TypeOK, Holder, Queues, SubmitOk
    PROVE  /\ TypeQueues' /\ Queues' /\ scene' = scene
           /\ <<ctx, sent[ctx]>> \in Commands /\ RbOf(ctx) \in RingIds /\ ctx \in Contexts \ bad
           /\ \A q \in RingIds : q # RbOf(ctx) => cmdq'[q] = cmdq[q] /\ hw'[q] = hw[q]
           /\ cmdq'[RbOf(ctx)].inflight = cmdq[RbOf(ctx)].inflight + 1
           /\ Entries(cmdq'[RbOf(ctx)]) = Append(Entries(cmdq[RbOf(ctx)]), <<ctx, sent[ctx]>>)
           /\ hw'[RbOf(ctx)] = Append(hw[RbOf(ctx)], <<ctx, sent[ctx]>>)
<1> DEFINE x == <<ctx, sent[ctx]>>
           r == RbOf(ctx)
<1>1. TypeContexts /\ TypeQueues /\ powered \in BOOLEAN BY TypeParts DEF TypeFlags
<1>2. /\ scene \in Scenes /\ ctx \in Contexts \ bad /\ sent[ctx] >= 1
      /\ todo = << >> /\ replay = << >> /\ ~Full(ctx)
      /\ sent[ctx] <= queuedTs[ctx] /\ queuedTs[ctx] <= scene.quota[ctx]
      BY DEF Holder, SubmitOk
<1>3. r \in RingIds /\ scene.quota[ctx] \in Nat BY <1>2, SceneFacts
<1>4. sent[ctx] \in 1 .. scene.quota[ctx]
  <2>1. sent[ctx] \in Nat /\ queuedTs[ctx] \in Nat BY <1>1, <1>2 DEF TypeContexts
  <2> QED BY <1>2, <1>3, <2>1
<1>5. x \in Commands BY <1>2, <1>4, CommandFacts
<1>6. SendOk(x) /\ UNCHANGED <<scene, todo, replay, cur, flt>> BY DEF SubmitOk
<1>7. cmdq[r].inflight < InflightMax
  <2>1. cmdq[r].inflight \in Nat BY <1>2, <1>3, InFlightFacts DEF Queues
  <2>2. InflightMax \in Nat BY <1>2, SceneFacts
  <2> QED BY <1>2, <2>1, <2>2 DEF Full
<1>8. Recovering = {} /\ Recovering' = {} BY <1>2, <1>6, NoneRecovering DEF Recovering
<1>9. r = RbOf(x[1]) OBVIOUS
<1> HIDE DEF x, r
<1>10. /\ cmdq' \in [RingIds -> QueueType] /\ hw' \in [RingIds -> Seq(Commands)]
       /\ \A q \in RingIds : QOK(cmdq'[q]) /\ cmdq'[q].inflight <= InflightMax
       /\ inflight' = (Below[scene.rings])' /\ inflight' \in Nat
       /\ \A q \in RingIds : q # r => cmdq'[q] = cmdq[q] /\ hw'[q] = hw[q]
       /\ cmdq'[r].inflight = cmdq[r].inflight + 1
       /\ Entries(cmdq'[r]) = Append(Entries(cmdq[r]), x) /\ hw'[r] = Append(hw[r], x)
       BY <1>1, <1>2, <1>3, <1>5, <1>6, <1>7, <1>8, <1>9, PushQueues
<1>11. RingIds' = RingIds BY <1>6 DEF RingIds
<1>12. fault' = {} /\ expired' \subseteq expired BY <1>1, <1>6, GoodSend
<1>13. TypeQueues' BY <1>1, <1>6, <1>10, <1>11, <1>12 DEF TypeQueues
<1>14. Queues' BY <1>2, <1>6, <1>10, <1>11 DEF Queues
<1> QED BY <1>2, <1>3, <1>5, <1>6, <1>10, <1>13, <1>14 DEF x, r

LEMMA ReplayOkQueues ==
    ASSUME QueueHasRoom, TypeOK, Holder, Queues, ReplayOk, NEW r, r = RbOf(Head(replay)[1])
    PROVE  /\ TypeQueues' /\ Queues' /\ scene' = scene
           /\ Head(replay) \in Commands /\ r \in RingIds \ Recovering
           /\ \A k \in DOMAIN replay : RbOf(replay[k][1]) = r
           /\ \A q \in RingIds : q # r => cmdq'[q] = cmdq[q] /\ hw'[q] = hw[q]
           /\ cmdq'[r].inflight = cmdq[r].inflight + 1
           /\ Entries(cmdq'[r]) = Append(Entries(cmdq[r]), Head(replay))
           /\ hw'[r] = Append(hw[r], Head(replay))
<1> DEFINE x == Head(replay)
<1>1. TypeQueues /\ powered \in BOOLEAN BY TypeParts DEF TypeFlags
<1>2. scene \in Scenes /\ replay \in Seq(Commands) /\ replay # << >>
      BY <1>1 DEF Holder, ReplayOk, TypeQueues
<1>3. SendOk(x) /\ replay' = Tail(replay) /\ UNCHANGED <<scene, todo, cur, flt>>
      BY DEF ReplayOk
<1>4. /\ x \in Commands /\ Tail(replay) \in Seq(Commands) /\ Len(Tail(replay)) = Len(replay) - 1
      /\ Len(replay) \in Nat /\ Len(replay) >= 1 /\ replay[1] = x
      /\ \A k \in 1 .. Len(replay) - 1 : Tail(replay)[k] = replay[k + 1]
      BY <1>2, TailFacts
<1>5. DOMAIN replay = 1 .. Len(replay) /\ DOMAIN Tail(replay) = 1 .. Len(replay) - 1
      BY <1>2, <1>4, LenProperties
<1>6. PICK q \in RingIds \ Recovering : /\ cmdq[q].inflight + Len(replay) <= InflightMax
                                        /\ \A k \in DOMAIN replay : RbOf(replay[k][1]) = q
      BY <1>2 DEF Queues
<1>7. r = q
  <2>1. 1 \in DOMAIN replay BY <1>4, <1>5
  <2> QED BY <1>4, <1>6, <2>1
<1>8. cmdq[r].inflight \in Nat /\ InflightMax \in Nat
      BY <1>2, <1>6, <1>7, InFlightFacts, SceneFacts DEF Queues
<1>9. cmdq[r].inflight < InflightMax BY <1>4, <1>6, <1>7, <1>8
<1>10. Recovering' = Recovering /\ RingIds' = RingIds BY <1>3 DEF Recovering, RingIds
<1> HIDE DEF x
<1>11. /\ cmdq' \in [RingIds -> QueueType] /\ hw' \in [RingIds -> Seq(Commands)]
       /\ \A p \in RingIds : QOK(cmdq'[p]) /\ cmdq'[p].inflight <= InflightMax
       /\ inflight' = (Below[scene.rings])' /\ inflight' \in Nat
       /\ \A p \in RingIds : p # r => cmdq'[p] = cmdq[p] /\ hw'[p] = hw[p]
       /\ cmdq'[r].inflight = cmdq[r].inflight + 1
       /\ Entries(cmdq'[r]) = Append(Entries(cmdq[r]), x) /\ hw'[r] = Append(hw[r], x)
  <2>1. r = RbOf(x[1]) BY DEF x
  <2> QED BY SMTT(30), ZenonT(30), <1>1, <1>2, <1>3, <1>4, <1>6, <1>7, <1>9, <1>10, <2>1, PushQueues
<1>12. fault' = {} /\ expired' \subseteq expired BY <1>1, <1>3, GoodSend
<1>13. TypeQueues' BY <1>1, <1>3, <1>4, <1>10, <1>11, <1>12 DEF TypeQueues
<1>14. /\ cmdq'[r].inflight + Len(Tail(replay)) <= InflightMax
       /\ \A k \in DOMAIN Tail(replay) : RbOf(Tail(replay)[k][1]) = r
  <2>1. cmdq'[r].inflight + Len(Tail(replay)) <= InflightMax BY <1>4, <1>6, <1>7, <1>8, <1>11
  <2>2. ASSUME NEW k \in 1 .. Len(replay) - 1 PROVE RbOf(Tail(replay)[k][1]) = r
    <3>1. k + 1 \in 1 .. Len(replay) BY <1>4
    <3>2. RbOf(replay[k + 1][1]) = q BY <1>5, <1>6, <3>1
    <3> QED BY <1>4, <1>7, <3>2
  <2> QED BY <1>5, <2>1, <2>2
<1>15. Queues'
  <2>2. /\ todo' = todo /\ \A p \in RingIds' : QOK(cmdq'[p]) /\ cmdq'[p].inflight <= InflightMax
        BY <1>3, <1>10, <1>11
  <2>3. \E p \in RingIds' \ Recovering' :
            /\ cmdq'[p].inflight + Len(replay') <= InflightMax
            /\ \A k \in DOMAIN replay' : RbOf(replay'[k][1]) = p
        BY <1>3, <1>6, <1>7, <1>10, <1>14
  <2> QED BY <1>3, <1>11, <2>2, <2>3 DEF Queues, RbOf
<1> QED BY <1>3, <1>4, <1>6, <1>7, <1>11, <1>13, <1>15 DEF x

(* The worker takes the expired commands off a ring's queue.                *)
LEMMA RetireRingQueues ==
    ASSUME TypeOK, Holder, Queues, RetireRing
    PROVE  /\ TypeQueues' /\ Queues' /\ scene' = scene /\ at \in RingIds
           /\ todo = << >> /\ replay = << >>
           /\ RetireCount(cmdq[at]) \in 0 .. cmdq[at].inflight
           /\ cmdq'[at] = Dequeue(cmdq[at], RetireCount(cmdq[at]))
           /\ \A q \in RingIds : q # at => cmdq'[q] = cmdq[q]
<1> DEFINE n == RetireCount(cmdq[at])
           p == Dequeue(cmdq[at], n)
<1>1. TypeQueues BY TypeParts
<1>2. scene \in Scenes /\ at \in RingIds /\ todo = << >> /\ replay = << >>
      BY DEF Holder, RetireRing
<1>3. DqSize \in Nat \ {0} /\ InflightMax \in Nat BY <1>2, SceneFacts
<1>4. \A q \in RingIds : QOK(cmdq[q]) /\ cmdq[q].inflight <= InflightMax BY DEF Queues
<1>5. n \in 0 .. cmdq[at].inflight /\ cmdq[at].inflight \in Nat
      BY <1>2, <1>3, <1>4, RetireFacts, InFlightFacts
<1>6. QOK(p) /\ p.inflight = cmdq[at].inflight - n BY <1>2, <1>3, <1>4, <1>5, DequeueFacts
<1>7. cmdq' = [cmdq EXCEPT ![at] = p] /\ inflight' = inflight - n
      /\ UNCHANGED <<scene, todo, replay, hw, cur, flt>>
      BY DEF RetireRing
<1>8. expired' \subseteq expired /\ fault' \subseteq fault \cup {"timeout"} BY DEF RetireRing
<1> HIDE DEF n, p
<1>9. p \in QueueType BY <1>6 DEF QOK
<1>10. cmdq' \in [RingIds -> QueueType] /\ cmdq'[at] = p
       /\ \A q \in RingIds : q # at => cmdq'[q] = cmdq[q]
       BY <1>1, <1>2, <1>7, <1>9 DEF TypeQueues
<1>11. \A q \in RingIds : QOK(cmdq'[q]) /\ cmdq'[q].inflight <= InflightMax
  <2>1. p.inflight <= InflightMax BY <1>2, <1>3, <1>4, <1>5, <1>6
  <2> QED BY <1>4, <1>6, <1>10, <2>1
<1>12. Recovering = {} /\ Recovering' = Recovering BY <1>2, <1>7, NoneRecovering DEF Recovering
<1>13. inflight' = inflight - cmdq[at].inflight + cmdq'[at].inflight
  <2>1. inflight \in Nat BY <1>1 DEF TypeQueues
  <2> QED BY <1>5, <1>6, <1>7, <1>10, <2>1
<1>14. inflight' = (Below[scene.rings])' /\ inflight' \in Nat
       BY <1>2, <1>4, <1>7, <1>10, <1>11, <1>12, <1>13, OneRingChanges DEF Queues
<1>15. RingIds' = RingIds BY <1>7 DEF RingIds
<1>16. TypeQueues' BY <1>1, <1>7, <1>8, <1>10, <1>14, <1>15 DEF TypeQueues
<1>17. Queues' BY <1>2, <1>7, <1>11, <1>14, <1>15 DEF Queues
<1> QED BY <1>2, <1>5, <1>7, <1>10, <1>16, <1>17 DEF n, p

(* Both orders of recovery name every ring once.                            *)
LEMMA RecoveryOrder ==
    ASSUME scene \in Scenes, cur \in RingIds, NEW s \in {HungRingFirst, AscendingRings}
    PROVE  /\ s \in Seq(RingIds) /\ {s[k] : k \in DOMAIN s} = RingIds
           /\ \A j, k \in DOMAIN s : j # k => s[j] # s[k]
<1>1. scene.rings \in Nat \ {0} /\ cur \in 0 .. scene.rings - 1 BY SceneFacts DEF RingIds
<1> DEFINE n == scene.rings
<1> HIDE DEF n
<1>2. n \in Nat /\ cur \in 0 .. n - 1 /\ RingIds = 0 .. n - 1 BY <1>1 DEF n, RingIds
<1>3. CASE s = AscendingRings
  <2>1. s = [k \in 1 .. n |-> k - 1] BY <1>3 DEF AscendingRings, n
  <2>2. DOMAIN s = 1 .. n /\ \A k \in 1 .. n : s[k] = k - 1 BY <2>1
  <2>3. s \in [1 .. n -> RingIds] BY <1>2, <2>1
  <2>4. s \in Seq(RingIds) BY <1>2, <2>3
  <2>5. \A r \in 0 .. n - 1 : r + 1 \in 1 .. n /\ s[r + 1] = r BY <1>2, <2>2
  <2>6. RingIds \subseteq {s[k] : k \in DOMAIN s}
    <3> SUFFICES ASSUME NEW r \in 0 .. n - 1 PROVE \E k \in 1 .. n : s[k] = r BY <1>2, <2>2
    <3> QED BY <2>5
  <2>7. {s[k] : k \in DOMAIN s} \subseteq RingIds BY <2>2, <2>3
  <2>8. \A j, k \in 1 .. n : j # k => s[j] # s[k] BY <2>2
  <2> QED BY <2>2, <2>4, <2>6, <2>7, <2>8
<1>4. CASE s = HungRingFirst
  <2>1. s = [k \in 1 .. n |-> IF k = 1 THEN cur ELSE IF k - 2 < cur THEN k - 2 ELSE k - 1]
        BY <1>4 DEF HungRingFirst, n
  <2>2. DOMAIN s = 1 .. n
        /\ \A k \in 1 .. n : s[k] = IF k = 1 THEN cur ELSE IF k - 2 < cur THEN k - 2 ELSE k - 1
        BY <2>1
  <2>3. \A k \in 1 .. n : s[k] \in RingIds BY <1>2, <2>2
  <2>4. s \in [1 .. n -> RingIds] BY <2>1, <2>3
  <2>5. s \in Seq(RingIds) BY <1>2, <2>4
  <2>6. RingIds \subseteq {s[k] : k \in DOMAIN s}
    <3> SUFFICES ASSUME NEW r \in 0 .. n - 1 PROVE \E k \in 1 .. n : s[k] = r BY <1>2, <2>2
    <3>1. CASE r = cur
      <4>1. 1 \in 1 .. n /\ s[1] = r BY <1>2, <2>2, <3>1
      <4> QED BY <4>1
    <3>2. CASE r < cur
      <4>1. r + 2 \in 1 .. n /\ s[r + 2] = r BY <1>2, <2>2, <3>2
      <4> QED BY <4>1
    <3>3. CASE r > cur
      <4>1. r + 1 \in 1 .. n /\ s[r + 1] = r BY <1>2, <2>2, <3>3
      <4> QED BY <4>1
    <3> QED BY <1>2, <3>1, <3>2, <3>3
  <2>7. {s[k] : k \in DOMAIN s} \subseteq RingIds BY <2>2, <2>3
  <2>8. \A j, k \in 1 .. n : j # k => s[j] # s[k] BY <1>2, <2>2
  <2> QED BY <2>2, <2>5, <2>6, <2>7, <2>8
<1> QED BY <1>3, <1>4

LEMMA DoFaultQueues ==
    ASSUME TypeOK, Holder, Queues, DoFault
    PROVE  /\ TypeQueues' /\ Queues' /\ scene' = scene /\ Recovering' = RingIds
           /\ todo = << >> /\ replay = << >> /\ replay' = << >>
           /\ \A q \in RingIds : /\ cmdq'[q] = Dequeue(cmdq[q], RetireCount(cmdq[q]))
                                 /\ RetireCount(cmdq[q]) \in 0 .. cmdq[q].inflight
                                 /\ QOK(cmdq[q])
           /\ \A q \in RingIds : hw'[q] = << >>
<1>1. TypeQueues BY TypeParts
<1>2. scene \in Scenes /\ todo = << >> /\ replay = << >> BY DEF Holder, DoFault
<1>3. DqSize \in Nat \ {0} /\ InflightMax \in Nat BY <1>2, SceneFacts
<1>4. \A q \in RingIds : QOK(cmdq[q]) /\ cmdq[q].inflight <= InflightMax BY DEF Queues
<1>5. cmdq' = [r \in RingIds |-> Survivors(r)] /\ inflight' = 0
      /\ hw' = [r \in RingIds |-> << >>] /\ fault' = {}
      /\ UNCHANGED <<scene, replay, cur, expired>>
      BY DEF DoFault
<1>5a. todo' \in {HungRingFirst, AscendingRings} /\ (flt' = fault \/ flt' = {})
      BY DEF DoFault
<1>6. ASSUME NEW q \in RingIds
      PROVE  /\ cmdq'[q] = Dequeue(cmdq[q], RetireCount(cmdq[q]))
             /\ RetireCount(cmdq[q]) \in 0 .. cmdq[q].inflight
             /\ QOK(cmdq'[q]) /\ cmdq'[q].inflight <= InflightMax
  <2> DEFINE n == RetireCount(cmdq[q])
             p == Dequeue(cmdq[q], n)
  <2>1. n \in 0 .. cmdq[q].inflight /\ cmdq[q].inflight \in Nat
        BY <1>2, <1>3, <1>4, RetireFacts, InFlightFacts
  <2>2. QOK(p) /\ p.inflight = cmdq[q].inflight - n BY <1>3, <1>4, <2>1, DequeueFacts
  <2>3. cmdq'[q] = p BY <1>5 DEF Survivors
  <2> HIDE DEF n, p
  <2>4. p.inflight <= InflightMax BY <1>3, <1>4, <2>1, <2>2
  <2> QED BY <2>1, <2>2, <2>3, <2>4 DEF n, p
<1>7. cmdq' \in [RingIds -> QueueType]
  <2>1. \A q \in RingIds : cmdq'[q] \in QueueType BY <1>6 DEF QOK
  <2>2. cmdq' = [q \in RingIds |-> cmdq'[q]] BY <1>5
  <2> QED BY <2>1, <2>2
<1>8. cur \in RingIds BY <1>1 DEF TypeQueues
<1>9. todo' \in Seq(RingIds) /\ {todo'[k] : k \in DOMAIN todo'} = RingIds
      /\ \A j, k \in DOMAIN todo' : j # k => todo'[j] # todo'[k]
      BY <1>2, <1>5a, <1>8, RecoveryOrder
<1>10. RingIds' = RingIds BY <1>5 DEF RingIds
<1>11. Recovering' = RingIds BY <1>9 DEF Recovering
<1>12. inflight' = (Below[scene.rings])'
  <2>1. scene.rings \in Nat BY <1>2, SceneFacts
  <2>2. InFlight' = [r \in RingIds |-> IF r \in Recovering' THEN 0 ELSE cmdq'[r].inflight]
        BY <1>2, <1>5, <1>6, InFlightNext
  <2>3. \A r \in 0 .. scene.rings - 1 : InFlight'[r] = 0 BY <1>11, <2>2 DEF RingIds
  <2>4. Total(InFlight', scene.rings)[scene.rings] = 0 BY <2>1, <2>3, TotalZero
  <2>5. (Below[scene.rings])' = Total(InFlight', scene.rings')[scene.rings'] BY BelowIs
  <2>6. scene' = scene BY <1>5
  <2> QED BY <1>5, <2>4, <2>5, <2>6
<1>13. hw' \in [RingIds -> Seq(Commands)]
  <2>1. << >> \in Seq(Commands) OBVIOUS
  <2> QED BY <1>5, <2>1
<1>14. TypeQueues'
  <2>1. inflight' \in Nat /\ replay' \in Seq(Commands) /\ cur' \in RingIds
        /\ expired' \subseteq RingIds /\ flt' \subseteq {"hard", "timeout"}
        /\ fault' \subseteq {"hard", "timeout"}
        BY <1>1, <1>5, <1>5a DEF TypeQueues
  <2> QED BY <1>7, <1>9, <1>10, <1>13, <2>1 DEF TypeQueues
<1>15. Queues' BY <1>2, <1>5, <1>6, <1>9, <1>10, <1>12 DEF Queues
<1>16. \A q \in RingIds : hw'[q] = << >> BY <1>5
<1> QED BY <1>2, <1>4, <1>5, <1>6, <1>11, <1>14, <1>15, <1>16

(* The queue of the ring that is recovered is emptied.                      *)
LEMMA EmptyRing ==
    ASSUME TypeOK, scene \in Scenes, Queues, todo # << >>, NEW r, r = Head(todo), todo' = Tail(todo),
           cmdq' = [cmdq EXCEPT ![r] = EmptyQueue], UNCHANGED <<scene, inflight>>
    PROVE  /\ cmdq' \in [RingIds -> QueueType] /\ todo' \in Seq(RingIds)
           /\ \A j, k \in DOMAIN todo' : j # k => todo'[j] # todo'[k]
           /\ r \in RingIds /\ r \in Recovering /\ Recovering' = Recovering \ {r}
           /\ \A q \in RingIds : QOK(cmdq'[q]) /\ cmdq'[q].inflight <= InflightMax
           /\ inflight' = (Below[scene.rings])'
           /\ Entries(cmdq'[r]) = << >> /\ cmdq'[r].inflight = 0
           /\ \A q \in RingIds : q # r => cmdq'[q] = cmdq[q]
           /\ Entries(cmdq[r]) \in Seq(Commands) /\ Len(Entries(cmdq[r])) <= InflightMax
<1>1. TypeQueues BY TypeParts
<1>2. DqSize \in Nat \ {0} /\ InflightMax \in Nat BY SceneFacts
<1>3. \A q \in RingIds : QOK(cmdq[q]) /\ cmdq[q].inflight <= InflightMax BY DEF Queues
<1>4. /\ r \in RingIds /\ todo' \in Seq(RingIds) /\ r \in Recovering
      /\ {todo'[k] : k \in DOMAIN todo'} = Recovering \ {r}
      /\ \A j, k \in DOMAIN todo' : j # k => todo'[j] # todo'[k]
      BY <1>1, TodoFacts DEF TypeQueues, Queues
<1>5. QOK(EmptyQueue) /\ Entries(EmptyQueue) = << >> /\ EmptyQueue.inflight = 0
      BY <1>2, EmptyQueueFacts
<1>6. EmptyQueue \in QueueType BY <1>5 DEF QOK
<1>7. cmdq' \in [RingIds -> QueueType] /\ cmdq'[r] = EmptyQueue
      /\ \A q \in RingIds : q # r => cmdq'[q] = cmdq[q]
      BY <1>1, <1>4, <1>6 DEF TypeQueues
<1>8. \A q \in RingIds : QOK(cmdq'[q]) /\ cmdq'[q].inflight <= InflightMax
      BY <1>2, <1>3, <1>5, <1>7
<1>9. Recovering' = Recovering \ {r} BY <1>4 DEF Recovering
<1>10. InFlight' = InFlight
  <2>1. InFlight' = [q \in RingIds |-> IF q \in Recovering' THEN 0 ELSE cmdq'[q].inflight]
        BY <1>8, InFlightNext
  <2>2. \A q \in RingIds : (IF q \in Recovering' THEN 0 ELSE cmdq'[q].inflight)
                           = IF q \in Recovering THEN 0 ELSE cmdq[q].inflight
        BY <1>4, <1>5, <1>7, <1>9
  <2> QED BY <2>1, <2>2 DEF InFlight
<1>11. inflight' = (Below[scene.rings])' BY <1>10, NoRingChanges DEF Queues
<1>12. Entries(cmdq[r]) \in Seq(Commands) BY <1>3, <1>4 DEF QOK
<1>13. Len(Entries(cmdq[r])) <= InflightMax
  <2>1. QOK(cmdq[r]) /\ cmdq[r].inflight <= InflightMax BY <1>3, <1>4
  <2>2. Len(Entries(cmdq[r])) = cmdq[r].inflight BY <1>2, <2>1, QueueFacts
  <2> QED BY <2>1, <2>2
<1> QED BY <1>4, <1>5, <1>7, <1>8, <1>9, <1>11, <1>12, <1>13

LEMMA RecoverRingQueues ==
    ASSUME TypeOK, Holder, Queues, Whereabouts, RecoverRing, NEW r, r = Head(todo)
    PROVE  /\ TypeQueues' /\ Queues' /\ scene' = scene
           /\ r \in RingIds /\ r \in Recovering /\ Recovering' = Recovering \ {r}
           /\ Entries(cmdq'[r]) = << >> /\ cmdq'[r].inflight = 0 /\ UNCHANGED hw
           /\ \A q \in RingIds : q # r => cmdq'[q] = cmdq[q]
           /\ Entries(cmdq[r]) \in Seq(Commands)
           /\ replay = << >> /\ replay' = Replayed(Entries(cmdq[r]), bad')
<1> DEFINE e == Entries(cmdq[r])
<1>1. TypeQueues /\ scene \in Scenes BY TypeParts DEF Holder
<1>2. /\ todo # << >> /\ replay = << >> /\ todo' = Tail(todo)
      /\ cmdq' = [cmdq EXCEPT ![r] = EmptyQueue] /\ flt' = {}
      /\ replay' = IF e = << >> THEN e ELSE Replayed(e, bad')
      /\ UNCHANGED <<scene, inflight, hw, cur, expired, fault>>
      BY DEF RecoverRing
<1>3. /\ cmdq' \in [RingIds -> QueueType] /\ todo' \in Seq(RingIds)
      /\ \A j, k \in DOMAIN todo' : j # k => todo'[j] # todo'[k]
      /\ r \in RingIds /\ r \in Recovering /\ Recovering' = Recovering \ {r}
      /\ \A q \in RingIds : QOK(cmdq'[q]) /\ cmdq'[q].inflight <= InflightMax
      /\ inflight' = (Below[scene.rings])'
      /\ Entries(cmdq'[r]) = << >> /\ cmdq'[r].inflight = 0
      /\ \A q \in RingIds : q # r => cmdq'[q] = cmdq[q]
      /\ e \in Seq(Commands) /\ Len(e) <= InflightMax
      BY <1>1, <1>2, EmptyRing
<1>4. \A k \in 1 .. Len(e) : RbOf(e[k][1]) = r
  <2>1. DOMAIN e = 1 .. Len(e) BY <1>3, LenProperties
  <2>2. \A k \in DOMAIN e : Known(r, e[k]) BY <1>3 DEF Whereabouts
  <2> QED BY <2>1, <2>2 DEF Known
<1> HIDE DEF e
<1> DEFINE s == Replayed(e, bad')
<1>5. /\ s \in Seq(Commands) /\ Len(s) <= Len(e)
      /\ \A i \in 1 .. Len(s) : \E k \in 1 .. Len(e) : s[i] = e[k]
      BY <1>3, ReplayedFacts
<1> HIDE DEF s
<1>6. replay' = s
  <2>1. CASE e = << >>
    <3>1. Len(s) = 0 BY <1>3, <1>5, <2>1
    <3>2. s = << >> BY <1>5, <3>1, EmptySeq
    <3> QED BY <1>2, <2>1, <3>2
  <2>2. CASE e # << >> BY <1>2, <2>2 DEF s
  <2> QED BY <2>1, <2>2
<1>7. DOMAIN s = 1 .. Len(s) /\ Len(s) \in Nat BY <1>5, LenProperties
<1>8. RingIds' = RingIds BY <1>2 DEF RingIds
<1>9. TypeQueues'
  <2>1. replay' \in Seq(Commands) BY <1>5, <1>6
  <2> QED BY <1>1, <1>2, <1>3, <1>8, <2>1 DEF TypeQueues
<1>10. \E q \in RingIds' \ Recovering' :
          /\ cmdq'[q].inflight + Len(replay') <= InflightMax
          /\ \A k \in DOMAIN replay' : RbOf(replay'[k][1]) = q
  <2>1. cmdq'[r].inflight + Len(replay') <= InflightMax
    <3>1. Len(e) \in Nat /\ InflightMax \in Nat BY <1>1, <1>3, SceneFacts
    <3> QED BY <1>3, <1>5, <1>6, <1>7, <3>1
  <2>2. \A k \in DOMAIN replay' : RbOf(replay'[k][1]) = r BY <1>4, <1>5, <1>6, <1>7
  <2> QED BY <1>3, <1>8, <2>1, <2>2
<1>11. Queues' BY SMTT(30), ZenonT(30), <1>2, <1>3, <1>8, <1>10 DEF Queues, RbOf
<1> QED BY <1>2, <1>3, <1>6, <1>9, <1>11 DEF e, s

LEMMA RecoverFailsQueues ==
    ASSUME TypeOK, Holder, Queues, RecoverFails, NEW r, r = Head(todo)
    PROVE  /\ TypeQueues' /\ Queues' /\ scene' = scene
           /\ r \in RingIds /\ r \in Recovering /\ Recovering' = Recovering \ {r}
           /\ Entries(cmdq'[r]) = << >> /\ cmdq'[r].inflight = 0 /\ UNCHANGED hw
           /\ \A q \in RingIds : q # r => cmdq'[q] = cmdq[q]
           /\ Entries(cmdq[r]) \in Seq(Commands)
           /\ replay = << >> /\ replay' = << >>
<1>1. TypeQueues /\ scene \in Scenes BY TypeParts DEF Holder
<1>2. /\ todo # << >> /\ replay = << >> /\ todo' = Tail(todo) /\ flt' = {}
      /\ cmdq' = [cmdq EXCEPT ![r] = EmptyQueue]
      /\ UNCHANGED <<scene, inflight, replay, hw, cur, expired, fault>>
      BY DEF RecoverFails
<1>3. /\ cmdq' \in [RingIds -> QueueType] /\ todo' \in Seq(RingIds)
      /\ \A j, k \in DOMAIN todo' : j # k => todo'[j] # todo'[k]
      /\ r \in RingIds /\ r \in Recovering /\ Recovering' = Recovering \ {r}
      /\ \A q \in RingIds : QOK(cmdq'[q]) /\ cmdq'[q].inflight <= InflightMax
      /\ inflight' = (Below[scene.rings])'
      /\ Entries(cmdq'[r]) = << >> /\ cmdq'[r].inflight = 0
      /\ \A q \in RingIds : q # r => cmdq'[q] = cmdq[q]
      /\ Entries(cmdq[r]) \in Seq(Commands)
      BY <1>1, <1>2, EmptyRing
<1>4. RingIds' = RingIds BY <1>2 DEF RingIds
<1>5. TypeQueues' BY <1>1, <1>2, <1>3, <1>4 DEF TypeQueues
<1>6. Queues' BY <1>2, <1>3, <1>4 DEF Queues
<1> QED BY <1>2, <1>3, <1>5, <1>6

(* What cannot be sent again is left out, and what is its context's.        *)
LEMMA ReplayFailsQueues ==
    ASSUME TypeOK, Holder, Queues, ReplayFails
    PROVE  /\ TypeQueues' /\ Queues' /\ scene' = scene /\ UNCHANGED <<cmdq, hw, todo>>
           /\ Head(replay) \in Commands /\ Tail(replay) \in Seq(Commands) /\ replay # << >>
           /\ replay' = Replayed(Tail(replay), bad')
<1>1. TypeQueues /\ scene \in Scenes BY TypeParts DEF Holder
<1>2. /\ SendFails \/ SendHalted
      /\ replay # << >> /\ replay' = Replayed(Tail(replay), bad')
      /\ UNCHANGED <<scene, todo, cur, flt>>
      BY DEF ReplayFails
<1>3. UNCHANGED <<cmdq, inflight, hw, expired>> /\ (fault' = fault \/ fault' = {})
      BY <1>2, Zenon, FailedSend
<1>4. /\ Head(replay) \in Commands /\ Tail(replay) \in Seq(Commands)
      /\ Len(Tail(replay)) = Len(replay) - 1 /\ Len(replay) \in Nat /\ Len(replay) >= 1
      /\ \A k \in 1 .. Len(replay) - 1 : Tail(replay)[k] = replay[k + 1]
      BY <1>1, <1>2, TailFacts DEF TypeQueues
<1> DEFINE t == Tail(replay)
<1>4a. t \in Seq(Commands) BY <1>4
<1> HIDE DEF t
<1> DEFINE s == Replayed(t, bad')
<1>5. /\ s \in Seq(Commands) /\ Len(s) <= Len(t)
      /\ \A i \in 1 .. Len(s) : \E k \in 1 .. Len(t) : s[i] = t[k]
      BY SMTT(30), ZenonT(30), <1>4a, ReplayedFacts
<1>6. replay' = s BY <1>2 DEF t
<1>7. DOMAIN s = 1 .. Len(s) /\ Len(s) \in Nat /\ DOMAIN replay = 1 .. Len(replay)
      BY <1>1, <1>5, LenProperties DEF TypeQueues
<1> HIDE DEF s
<1>8. RingIds' = RingIds /\ Recovering' = Recovering BY <1>2 DEF RingIds, Recovering
<1>9. TypeQueues' BY <1>1, <1>2, <1>3, <1>5, <1>6, <1>8 DEF TypeQueues
<1>10. PICK q \in RingIds \ Recovering : /\ cmdq[q].inflight + Len(replay) <= InflightMax
                                         /\ \A k \in DOMAIN replay : RbOf(replay[k][1]) = q
       BY <1>2 DEF Queues
<1>11. cmdq'[q].inflight + Len(replay') <= InflightMax
  <2>1. cmdq[q].inflight \in Nat /\ InflightMax \in Nat
        BY <1>1, <1>10, InFlightFacts, SceneFacts DEF Queues
  <2> QED BY <1>3, <1>4, <1>5, <1>6, <1>7, <1>10, <2>1 DEF t
<1>12. \A i \in DOMAIN replay' : RbOf(replay'[i][1]) = q
  <2> SUFFICES ASSUME NEW i \in 1 .. Len(s) PROVE RbOf(s[i][1]) = q BY <1>6, <1>7
  <2>1. PICK k \in 1 .. Len(t) : s[i] = t[k] BY <1>5
  <2>2. t[k] = replay[k + 1] /\ k + 1 \in 1 .. Len(replay) BY <1>4 DEF t
  <2> QED BY <1>7, <1>10, <2>1, <2>2
<1>13. InFlight' = InFlight BY <1>3, <1>8 DEF InFlight
<1>14. inflight' = (Below[scene.rings])' BY <1>2, <1>3, <1>13, NoRingChanges DEF Queues
<1>15. \E p \in RingIds' \ Recovering' :
          /\ cmdq'[p].inflight + Len(replay') <= InflightMax
          /\ \A k \in DOMAIN replay' : RbOf(replay'[k][1]) = p
       BY <1>8, <1>10, <1>11, <1>12
<1>16. Queues' BY <1>2, <1>3, <1>8, <1>14, <1>15 DEF Queues, RbOf
<1> QED BY <1>2, <1>3, <1>4, <1>6, <1>9, <1>16 DEF t, s

LEMMA TypeContextsStep ==
    ASSUME IInv, [Next]_vars
    PROVE  TypeContexts'
<1>0. /\ TypeContexts /\ TypeJobs /\ TypeQueues /\ TypeFlags /\ TypeNumbers
      /\ Holder /\ Queues /\ VoteMatchesWork /\ Halts
      BY TypeParts DEF IInv
<1>00. scene \in Scenes BY <1>0 DEF Holder
<1>1. ASSUME NEW c \in Contexts, QueueCmd(c) PROVE TypeContexts' BY <1>1, <1>0 DEF TypeContexts, QueueCmd
<1>2. ASSUME NEW c \in Contexts, QueueJob(c) PROVE TypeContexts' BY <1>2, <1>0 DEF TypeContexts, QueueJob, AddJob
<1>3. ASSUME NEW c \in Contexts, LeaveToWorker(c) PROVE TypeContexts' BY <1>3, <1>0 DEF TypeContexts, LeaveToWorker
<1>4. ASSUME NEW c \in Contexts, InlineStart(c) PROVE TypeContexts' BY <1>4, <1>0 DEF TypeContexts, InlineStart
<1>5. ASSUME NEW c \in Contexts, InlineDefer(c) PROVE TypeContexts' BY <1>5, <1>0 DEF TypeContexts, InlineDefer, InlineDefers
<1>6. ASSUME NEW c \in Contexts, QueueContext(c) PROVE TypeContexts' BY <1>6, <1>0 DEF TypeContexts, QueueContext, Reschedule, AddJob
<1>7. ASSUME NEW f \in Fenced, FenceFires(f) PROVE TypeContexts'
      BY <1>7, <1>0, CommandFacts, DispatcherAssumption DEF TypeContexts, FenceFires
<1>8. ASSUME IssueStart PROVE TypeContexts' BY <1>8, <1>0 DEF TypeContexts, IssueStart, TakeJobs, NoSend
<1>9. ASSUME LevelEnd PROVE TypeContexts' BY <1>9, <1>0 DEF TypeContexts, LevelEnd, TakeJobs, NoSend
<1>10. ASSUME DropJob PROVE TypeContexts' BY <1>10, <1>0 DEF TypeContexts, DropJob, NoSend
<1>11. ASSUME KeepJob PROVE TypeContexts' BY <1>11, <1>0 DEF TypeContexts, KeepJob, PutJobBack, NoSend
<1>12. ASSUME JobBusy PROVE TypeContexts' BY <1>12, <1>0 DEF TypeContexts, JobBusy, NoSend
<1>13. ASSUME StartContext PROVE TypeContexts' BY <1>13, <1>0 DEF TypeContexts, StartContext, NoSend
<1>14. ASSUME PopCmd PROVE TypeContexts'
  <2>1. ctx \in Contexts BY <1>14, <1>0 DEF Holder, PopCmd
  <2> QED BY <1>14, <1>0, <2>1 DEF TypeContexts, PopCmd
<1>15. ASSUME SendEnds PROVE TypeContexts' BY <1>15, <1>0 DEF TypeContexts, SendEnds, ContextEnd, NoSend
<1>16. ASSUME SendBlocked PROVE TypeContexts' BY <1>16, <1>0 DEF TypeContexts, SendBlocked, ContextEnd, NoSend
<1>17. ASSUME SubmitOk PROVE TypeContexts' BY <1>17, <1>0 DEF TypeContexts, SubmitOk, SendOk, GetPower, NeedsPower, CloseGate, Halted
<1>18. ASSUME SubmitFails PROVE TypeContexts'
  <2>1. ctx \in Contexts /\ sent[ctx] \in Nat /\ sent[ctx] >= 1
        BY <1>18, <1>0 DEF Holder, TypeContexts, SubmitFails
  <2>2. sent[ctx] - 1 \in Nat BY <2>1
  <2>3. sent' = [sent EXCEPT ![ctx] = sent[ctx] - 1] BY <1>18 DEF SubmitFails, PutBackCmd
  <2>4. UNCHANGED <<queuedTs, retired, bad, fences, owed, spc>> BY <1>18 DEF SubmitFails
  <2> QED BY <1>0, <2>1, <2>2, <2>3, <2>4 DEF TypeContexts
<1>19. ASSUME SubmitHalted PROVE TypeContexts'
  <2>1. ctx \in Contexts /\ sent[ctx] \in Nat /\ sent[ctx] >= 1
        BY <1>19, <1>0 DEF Holder, TypeContexts, SubmitHalted
  <2>2. sent[ctx] - 1 \in Nat BY <2>1
  <2>3. sent' = [sent EXCEPT ![ctx] = sent[ctx] - 1] BY <1>19 DEF SubmitHalted, PutBackCmd
  <2>4. UNCHANGED <<queuedTs, retired, bad, fences, owed, spc>> BY <1>19 DEF SubmitHalted
  <2> QED BY <1>0, <2>1, <2>2, <2>3, <2>4 DEF TypeContexts
<1>20. ASSUME WorkStart PROVE TypeContexts' BY <1>20, <1>0 DEF TypeContexts, WorkStart
<1>21. ASSUME RetireRing PROVE TypeContexts' BY <1>21, <1>0 DEF TypeContexts, RetireRing
<1>22. ASSUME NoFault PROVE TypeContexts' BY <1>22, <1>0 DEF TypeContexts, NoFault
<1>23. ASSUME FaultDeferred PROVE TypeContexts' BY <1>23, <1>0 DEF TypeContexts, FaultDeferred
<1>24. ASSUME DoFault PROVE TypeContexts' BY <1>24, <1>0 DEF TypeContexts, DoFault, Survivors
<1>25. ASSUME RecoverRing PROVE TypeContexts'
  <2>1. PICK C \in Culprits(Entries(cmdq[Head(todo)]), flt) : SetGuilty(C) BY <1>25 DEF RecoverRing
  <2>2. Entries(cmdq[Head(todo)]) \in Seq(Commands) BY <1>25, <1>0, HeadRing DEF RecoverRing
  <2>3. C \subseteq Contexts BY <2>2, CulpritFacts
  <2> QED BY <1>25, <1>0, <2>1, <2>3, GuiltyTypes DEF RecoverRing
<1>26. ASSUME RecoverFails PROVE TypeContexts'
  <2> DEFINE e == Entries(cmdq[Head(todo)])
             C == {e[k][1] : k \in DOMAIN e}
  <2>1. SetGuilty(C) BY <1>26 DEF RecoverFails
  <2>2. e \in Seq(Commands) BY <1>26, <1>0, HeadRing DEF RecoverFails
  <2>3. C \subseteq Contexts BY <2>2, EveryoneFacts
  <2>4. UNCHANGED <<queuedTs, fences, owed, spc>> BY <1>26 DEF RecoverFails
  <2> HIDE DEF C
  <2> QED BY <1>0, <2>1, <2>3, <2>4, GuiltyTypes
<1>27. ASSUME ReplayOk PROVE TypeContexts' BY <1>27, <1>0 DEF TypeContexts, ReplayOk, SendOk, GetPower, NeedsPower, CloseGate
<1>28. ASSUME ReplayFails PROVE TypeContexts'
  <2>1. SetGuilty({Head(replay)[1]}) /\ UNCHANGED <<queuedTs, fences, owed, spc>>
        BY <1>28 DEF ReplayFails
  <2>2. Head(replay)[1] \in Contexts BY <1>28, <1>0, HeadCommand DEF ReplayFails, TypeQueues
  <2> QED BY <1>0, <2>1, <2>2, GuiltyTypes
<1>29. ASSUME RecoverEnd PROVE TypeContexts' BY <1>29, <1>0 DEF TypeContexts, RecoverEnd, RestoredHalt
<1>30. ASSUME Finish PROVE TypeContexts' BY <1>30, <1>0 DEF TypeContexts, Finish, PowerDown, KeepTimer, Idle
<1>31. ASSUME GpuRetires PROVE TypeContexts'
  <2> DEFINE x == Head(hw[cur])
  <2>1. x[1] \in Contexts /\ x[2] \in Nat BY <1>31, <1>0, HeadCommand DEF GpuRetires, TypeQueues
  <2>2. retired' = [retired EXCEPT ![x[1]] = x[2]] BY <1>31 DEF GpuRetires
  <2>3. UNCHANGED <<queuedTs, sent, bad, fences, owed, spc>> BY <1>31 DEF GpuRetires
  <2> HIDE DEF x
  <2> QED BY <1>0, <2>1, <2>2, <2>3 DEF TypeContexts
<1>32. ASSUME GpuHangs PROVE TypeContexts' BY <1>32, <1>0 DEF TypeContexts, GpuHangs
<1>33. ASSUME GpuResumes PROVE TypeContexts' BY <1>33, <1>0 DEF TypeContexts, GpuResumes
<1>34. ASSUME FaultIrq PROVE TypeContexts' BY <1>34, <1>0 DEF TypeContexts, FaultIrq
<1>35. ASSUME TimerFires PROVE TypeContexts' BY <1>35, <1>0 DEF TypeContexts, TimerFires
<1>36. ASSUME IdleCheck PROVE TypeContexts' BY <1>36, <1>0 DEF TypeContexts, IdleCheck, MaySlumber
<1>37. ASSUME IdleStart PROVE TypeContexts' BY <1>37, <1>0 DEF TypeContexts, IdleStart
<1>38. ASSUME IdleFlushed PROVE TypeContexts' BY <1>38, <1>0 DEF TypeContexts, IdleFlushed
<1>39. ASSUME IdleWaited PROVE TypeContexts' BY <1>39, <1>0 DEF TypeContexts, IdleWaited, GateOpen
<1>40. ASSUME IdleEnd PROVE TypeContexts' BY <1>40, <1>0 DEF TypeContexts, IdleEnd, IdleRequeues
<1>41. ASSUME SuspendPrepare PROVE TypeContexts' BY <1>41, <1>0 DEF TypeContexts, SuspendPrepare, MayPrepare
<1>42. ASSUME DrainStart PROVE TypeContexts' BY <1>42, <1>0 DEF TypeContexts, DrainStart
<1>43. ASSUME SuspendDenied PROVE TypeContexts' BY <1>43, <1>0 DEF TypeContexts, SuspendDenied
<1>44. ASSUME SuspendDone PROVE TypeContexts' BY <1>44, <1>0 DEF TypeContexts, SuspendDone, Drained
<1>45. ASSUME SuspendFails PROVE TypeContexts' BY <1>45, <1>0 DEF TypeContexts, SuspendFails, Drained
<1>46. ASSUME Resume PROVE TypeContexts' BY <1>46, <1>0 DEF TypeContexts, Resume, ResumeStarts
<1>47. ASSUME PostSuspend PROVE TypeContexts' BY <1>47, <1>0 DEF TypeContexts, PostSuspend, PostQueues
<1>48. ASSUME NEW r \in RingIds, Preempt(r) PROVE TypeContexts' BY <1>48, <1>0 DEF TypeContexts, Preempt
<1>49. ASSUME UNCHANGED vars PROVE TypeContexts' BY <1>49, <1>0 DEF TypeContexts, vars
<1> QED BY <1>1, <1>2, <1>3, <1>4, <1>5, <1>6, <1>7, <1>8, <1>9, <1>10, <1>11, <1>12, <1>13, <1>14, <1>15, <1>16, <1>17, <1>18, <1>19, <1>20, <1>21, <1>22, <1>23, <1>24, <1>25, <1>26, <1>27, <1>28, <1>29, <1>30, <1>31, <1>32, <1>33, <1>34, <1>35, <1>36, <1>37, <1>38, <1>39, <1>40, <1>41, <1>42, <1>43, <1>44, <1>45, <1>46, <1>47, <1>48, <1>49 DEF Next, Issue, Work

LEMMA TypeJobsStep ==
    ASSUME IInv, [Next]_vars
    PROVE  TypeJobs'
<1>0. /\ TypeContexts /\ TypeJobs /\ TypeQueues /\ TypeFlags /\ TypeNumbers
      /\ Holder /\ Queues /\ VoteMatchesWork /\ Halts
      BY TypeParts DEF IInv
<1>00. scene \in Scenes BY <1>0 DEF Holder
<1>1. ASSUME NEW c \in Contexts, QueueCmd(c) PROVE TypeJobs' BY <1>1, <1>0 DEF TypeJobs, LevelIds, Steps, NoCtx, QueueCmd
<1>2. ASSUME NEW c \in Contexts, QueueJob(c) PROVE TypeJobs'
  <2>1. Prio(c) \in LevelIds BY <1>00, SceneFacts
  <2>2. jobs' = [jobs EXCEPT ![Prio(c)] = Append(jobs[Prio(c)], c)] BY <1>2 DEF QueueJob, AddJob
  <2>3. jobs' \in [LevelIds -> Seq(Contexts)] BY <1>0, <2>1, <2>2, JobsFacts DEF TypeJobs
  <2> QED BY <1>2, <1>0, <2>3 DEF TypeJobs, LevelIds, Steps, NoCtx, QueueJob
<1>3. ASSUME NEW c \in Contexts, LeaveToWorker(c) PROVE TypeJobs' BY <1>3, <1>0 DEF TypeJobs, LevelIds, Steps, NoCtx, LeaveToWorker
<1>4. ASSUME NEW c \in Contexts, InlineStart(c) PROVE TypeJobs' BY <1>4, <1>0 DEF TypeJobs, LevelIds, Steps, NoCtx, InlineStart
<1>5. ASSUME NEW c \in Contexts, InlineDefer(c) PROVE TypeJobs' BY <1>5, <1>0 DEF TypeJobs, LevelIds, Steps, NoCtx, InlineDefer, InlineDefers
<1>6. ASSUME NEW c \in Contexts, QueueContext(c) PROVE TypeJobs'
  <2>1. Prio(c) \in LevelIds BY <1>00, SceneFacts
  <2>2. jobs' = [jobs EXCEPT ![Prio(c)] = Append(jobs[Prio(c)], c)] BY <1>6 DEF QueueContext, Reschedule, AddJob
  <2>3. jobs' \in [LevelIds -> Seq(Contexts)] BY <1>0, <2>1, <2>2, JobsFacts DEF TypeJobs
  <2> QED BY <1>6, <1>0, <2>3 DEF TypeJobs, LevelIds, Steps, NoCtx, QueueContext
<1>7. ASSUME NEW f \in Fenced, FenceFires(f) PROVE TypeJobs' BY <1>7, <1>0 DEF TypeJobs, LevelIds, Steps, NoCtx, FenceFires
<1>8. ASSUME IssueStart PROVE TypeJobs'
  <2>1. 0 \in LevelIds BY <1>00, SceneFacts
  <2>2. requeue[0] \o jobs[0] \in Seq(Contexts) BY <1>0, <2>1, TakenFacts DEF TypeJobs
  <2>3. CASE fault # {} BY <1>8, <1>0, <2>3 DEF TypeJobs, LevelIds, Steps, NoCtx, IssueStart, NoSend
  <2>4. CASE fault = {}
    <3>0. << >> \in Seq(Contexts) OBVIOUS
    <3>1. jobs' \in [LevelIds -> Seq(Contexts)] /\ requeue' \in [LevelIds -> Seq(Contexts)]
          BY <1>8, <1>0, <2>4, <3>0 DEF TypeJobs, IssueStart, TakeJobs
    <3> QED BY <1>8, <1>0, <2>2, <2>4, <3>1
            DEF TypeJobs, LevelIds, Steps, NoCtx, IssueStart, TakeJobs, NoSend
  <2> QED BY <2>3, <2>4
<1>9. ASSUME LevelEnd PROVE TypeJobs'
  <2>1. step = "jobs" /\ at \in LevelIds BY <1>9, <1>0 DEF LevelEnd, Holder
  <2>2. jobs' \in [LevelIds -> Seq(Contexts)] /\ requeue' \in [LevelIds -> Seq(Contexts)]
        BY <1>9, <1>0 DEF TypeJobs, LevelEnd, TakeJobs
  <2>3. CASE at + 1 = scene.levels
        BY <1>9, <1>0, <2>2, <2>3 DEF TypeJobs, LevelIds, Steps, NoCtx, LevelEnd, NoSend
  <2>4. CASE at + 1 # scene.levels
    <3>1. at + 1 \in LevelIds /\ at + 1 \in Nat BY <1>00, <2>1, <2>4, SceneFacts DEF LevelIds
    <3>2. requeue[at + 1] \o jobs[at + 1] \in Seq(Contexts) BY <1>0, <3>1, TakenFacts DEF TypeJobs
    <3> QED BY <1>9, <1>0, <2>2, <2>4, <3>1, <3>2 DEF TypeJobs, LevelIds, Steps, NoCtx, LevelEnd, TakeJobs, NoSend
  <2> QED BY <2>3, <2>4
<1>10. ASSUME DropJob PROVE TypeJobs' BY <1>10, <1>0 DEF TypeJobs, LevelIds, Steps, NoCtx, DropJob, NoSend
<1>11. ASSUME KeepJob PROVE TypeJobs'
  <2>1. at \in LevelIds BY <1>11, <1>0 DEF Holder, KeepJob
  <2>2. Head(list) \in Contexts /\ Tail(list) \in Seq(Contexts)
        BY <1>11, <1>0, HeadTailProperties DEF TypeJobs, KeepJob
  <2>3. jobs' = [jobs EXCEPT ![at] = Append(jobs[at], Head(list))] BY <1>11 DEF KeepJob, PutJobBack
  <2>4. jobs' \in [LevelIds -> Seq(Contexts)] BY <1>0, <2>1, <2>2, <2>3, JobsFacts DEF TypeJobs
  <2>5. seen' = seen \cup {Head(list)} /\ list' = Tail(list)
        /\ UNCHANGED <<scene, requeue, mutex, step, at, ctx, count>>
        BY <1>11 DEF KeepJob, NoSend
  <2> QED BY <1>0, <2>2, <2>4, <2>5 DEF TypeJobs, LevelIds
<1>12. ASSUME JobBusy PROVE TypeJobs'
  <2>1. at \in LevelIds BY <1>12, <1>0 DEF Holder, JobBusy
  <2>2. Head(list) \in Contexts /\ Tail(list) \in Seq(Contexts)
        BY <1>12, <1>0, HeadTailProperties DEF TypeJobs, JobBusy
  <2>3. requeue' = [requeue EXCEPT ![at] = Append(requeue[at], Head(list))] BY <1>12 DEF JobBusy
  <2>4. requeue' \in [LevelIds -> Seq(Contexts)] BY <1>0, <2>1, <2>2, <2>3, JobsFacts DEF TypeJobs
  <2>5. seen' = seen \cup {Head(list)} /\ list' = Tail(list)
        /\ UNCHANGED <<scene, jobs, mutex, step, at, ctx, count>>
        BY <1>12 DEF JobBusy, NoSend
  <2>6. LevelIds' = LevelIds BY <2>5 DEF LevelIds
  <2> QED BY <1>0, <2>2, <2>4, <2>5, <2>6 DEF TypeJobs
<1>13. ASSUME StartContext PROVE TypeJobs'
  <2>1. Head(list) \in Contexts /\ Tail(list) \in Seq(Contexts)
        BY <1>13, <1>0, HeadTailProperties DEF TypeJobs, StartContext
  <2>2. 0 \in 0 .. Burst BY <1>00, SceneFacts
  <2>3. ctx' = Head(list) /\ count' = 0 /\ step' = "send" /\ seen' = seen \cup {Head(list)}
        /\ list' = Tail(list) /\ UNCHANGED <<scene, jobs, requeue, mutex, at>>
        BY <1>13 DEF StartContext, NoSend
  <2> QED BY <1>0, <2>1, <2>2, <2>3 DEF TypeJobs, LevelIds, Steps
<1>14. ASSUME PopCmd PROVE TypeJobs' BY <1>14, <1>0 DEF TypeJobs, LevelIds, Steps, NoCtx, PopCmd
<1>15. ASSUME SendEnds PROVE TypeJobs'
  <2>1. at \in LevelIds /\ ctx \in Contexts BY <1>15, <1>0 DEF Holder, SendEnds
  <2>2. jobs' = [jobs EXCEPT ![at] = IF SentSomething THEN Append(jobs[at], ctx) ELSE jobs[at]] BY <1>15 DEF SendEnds, ContextEnd
  <2>3. jobs' \in [LevelIds -> Seq(Contexts)]
    <3>1. CASE SentSomething BY <1>0, <2>1, <2>2, <3>1, JobsFacts DEF TypeJobs
    <3>2. CASE ~SentSomething BY <1>0, <2>1, <2>2, <3>2 DEF TypeJobs
    <3> QED BY <3>1, <3>2
  <2>4. 0 \in 0 .. Burst BY <1>00, SceneFacts
  <2>5. step' = "jobs" /\ ctx' = NoCtx /\ count' = 0 /\ UNCHANGED <<scene, requeue, mutex, at, list, seen>>
        BY <1>15 DEF SendEnds, ContextEnd, NoSend
  <2> QED BY <1>0, <2>3, <2>4, <2>5 DEF TypeJobs, LevelIds, Steps, NoCtx
<1>16. ASSUME SendBlocked PROVE TypeJobs'
  <2>1. at \in LevelIds /\ ctx \in Contexts BY <1>16, <1>0 DEF Holder, SendBlocked
  <2>2. jobs' = [jobs EXCEPT ![at] = Append(jobs[at], ctx)] BY <1>16 DEF SendBlocked, ContextEnd
  <2>3. jobs' \in [LevelIds -> Seq(Contexts)] BY <1>0, <2>1, <2>2, JobsFacts DEF TypeJobs
  <2>4. 0 \in 0 .. Burst BY <1>00, SceneFacts
  <2>5. step' = "jobs" /\ ctx' = NoCtx /\ count' = 0 /\ UNCHANGED <<scene, requeue, mutex, at, list, seen>>
        BY <1>16 DEF SendBlocked, ContextEnd, NoSend
  <2> QED BY <1>0, <2>3, <2>4, <2>5 DEF TypeJobs, LevelIds, Steps, NoCtx
<1>17. ASSUME SubmitOk PROVE TypeJobs'
  <2>1. count + 1 \in 0 .. Burst BY <1>17, <1>0, <1>00, SceneFacts DEF TypeJobs, Holder, SubmitOk
  <2> QED BY <1>17, <1>0, <2>1 DEF TypeJobs, LevelIds, Steps, NoCtx, SubmitOk
<1>18. ASSUME SubmitFails PROVE TypeJobs'
  <2>1. at \in LevelIds /\ ctx \in Contexts BY <1>18, <1>0 DEF Holder, SubmitFails
  <2>2. jobs' = [jobs EXCEPT ![at] = Append(jobs[at], ctx)] BY <1>18 DEF SubmitFails, ContextEnd
  <2>3. jobs' \in [LevelIds -> Seq(Contexts)] BY <1>0, <2>1, <2>2, JobsFacts DEF TypeJobs
  <2>4. 0 \in 0 .. Burst BY <1>00, SceneFacts
  <2>5. step' = "jobs" /\ ctx' = NoCtx /\ count' = 0 /\ UNCHANGED <<scene, requeue, mutex, at, list, seen>>
        BY <1>18 DEF SubmitFails, ContextEnd
  <2> QED BY <1>0, <2>3, <2>4, <2>5 DEF TypeJobs, LevelIds, Steps, NoCtx
<1>19. ASSUME SubmitHalted PROVE TypeJobs'
  <2>1. at \in LevelIds /\ ctx \in Contexts BY <1>19, <1>0 DEF Holder, SubmitHalted
  <2>2. requeue' = [requeue EXCEPT ![at] = Append(requeue[at], ctx)] BY <1>19 DEF SubmitHalted, ContextEnd
  <2>3. requeue' \in [LevelIds -> Seq(Contexts)] BY <1>0, <2>1, <2>2, JobsFacts DEF TypeJobs
  <2>4. 0 \in 0 .. Burst BY <1>00, SceneFacts
  <2>5. step' = "jobs" /\ ctx' = NoCtx /\ count' = 0 /\ UNCHANGED <<scene, jobs, mutex, at, list, seen>>
        BY <1>19 DEF SubmitHalted, ContextEnd
  <2> QED BY <1>0, <2>3, <2>4, <2>5 DEF TypeJobs, LevelIds, Steps, NoCtx
<1>20. ASSUME WorkStart PROVE TypeJobs' BY <1>20, <1>0 DEF TypeJobs, LevelIds, Steps, NoCtx, WorkStart
<1>21. ASSUME RetireRing PROVE TypeJobs' BY <1>21, <1>0 DEF TypeJobs, LevelIds, Steps, NoCtx, RetireRing
<1>22. ASSUME NoFault PROVE TypeJobs' BY <1>22, <1>0 DEF TypeJobs, LevelIds, Steps, NoCtx, NoFault
<1>23. ASSUME FaultDeferred PROVE TypeJobs' BY <1>23, <1>0 DEF TypeJobs, LevelIds, Steps, NoCtx, FaultDeferred
<1>24. ASSUME DoFault PROVE TypeJobs' BY <1>24, <1>0 DEF TypeJobs, LevelIds, Steps, NoCtx, DoFault, Survivors
<1>25. ASSUME RecoverRing PROVE TypeJobs' BY <1>25, <1>0 DEF TypeJobs, LevelIds, Steps, NoCtx, RecoverRing, SetGuilty
<1>26. ASSUME RecoverFails PROVE TypeJobs' BY <1>26, <1>0 DEF TypeJobs, LevelIds, Steps, NoCtx, RecoverFails, SetGuilty
<1>27. ASSUME ReplayOk PROVE TypeJobs' BY <1>27, <1>0 DEF TypeJobs, LevelIds, Steps, NoCtx, ReplayOk, SendOk, GetPower, NeedsPower, CloseGate
<1>28. ASSUME ReplayFails PROVE TypeJobs' BY <1>28, <1>0 DEF TypeJobs, LevelIds, Steps, NoCtx, ReplayFails, SendFails, SendNoPower, SendRefused, SendHalted, GetPower, NeedsPower, VoteAfterFailure, SetGuilty
<1>29. ASSUME RecoverEnd PROVE TypeJobs' BY <1>29, <1>0 DEF TypeJobs, LevelIds, Steps, NoCtx, RecoverEnd, RestoredHalt
<1>30. ASSUME Finish PROVE TypeJobs' BY <1>30, <1>0 DEF TypeJobs, LevelIds, Steps, NoCtx, Finish, PowerDown, KeepTimer, Idle
<1>31. ASSUME GpuRetires PROVE TypeJobs' BY <1>31, <1>0 DEF TypeJobs, LevelIds, Steps, NoCtx, GpuRetires, CpCallback
<1>32. ASSUME GpuHangs PROVE TypeJobs' BY <1>32, <1>0 DEF TypeJobs, LevelIds, Steps, NoCtx, GpuHangs
<1>33. ASSUME GpuResumes PROVE TypeJobs' BY <1>33, <1>0 DEF TypeJobs, LevelIds, Steps, NoCtx, GpuResumes
<1>34. ASSUME FaultIrq PROVE TypeJobs' BY <1>34, <1>0 DEF TypeJobs, LevelIds, Steps, NoCtx, FaultIrq
<1>35. ASSUME TimerFires PROVE TypeJobs' BY <1>35, <1>0 DEF TypeJobs, LevelIds, Steps, NoCtx, TimerFires
<1>36. ASSUME IdleCheck PROVE TypeJobs' BY <1>36, <1>0 DEF TypeJobs, LevelIds, Steps, NoCtx, IdleCheck, MaySlumber
<1>37. ASSUME IdleStart PROVE TypeJobs' BY <1>37, <1>0 DEF TypeJobs, LevelIds, Steps, NoCtx, IdleStart
<1>38. ASSUME IdleFlushed PROVE TypeJobs' BY <1>38, <1>0 DEF TypeJobs, LevelIds, Steps, NoCtx, IdleFlushed
<1>39. ASSUME IdleWaited PROVE TypeJobs' BY <1>39, <1>0 DEF TypeJobs, LevelIds, Steps, NoCtx, IdleWaited, GateOpen
<1>40. ASSUME IdleEnd PROVE TypeJobs' BY <1>40, <1>0 DEF TypeJobs, LevelIds, Steps, NoCtx, IdleEnd, IdleRequeues
<1>41. ASSUME SuspendPrepare PROVE TypeJobs' BY <1>41, <1>0 DEF TypeJobs, LevelIds, Steps, NoCtx, SuspendPrepare, MayPrepare
<1>42. ASSUME DrainStart PROVE TypeJobs' BY <1>42, <1>0 DEF TypeJobs, LevelIds, Steps, NoCtx, DrainStart
<1>43. ASSUME SuspendDenied PROVE TypeJobs' BY <1>43, <1>0 DEF TypeJobs, LevelIds, Steps, NoCtx, SuspendDenied
<1>44. ASSUME SuspendDone PROVE TypeJobs' BY <1>44, <1>0 DEF TypeJobs, LevelIds, Steps, NoCtx, SuspendDone, Drained
<1>45. ASSUME SuspendFails PROVE TypeJobs' BY <1>45, <1>0 DEF TypeJobs, LevelIds, Steps, NoCtx, SuspendFails, Drained
<1>46. ASSUME Resume PROVE TypeJobs' BY <1>46, <1>0 DEF TypeJobs, LevelIds, Steps, NoCtx, Resume, ResumeStarts
<1>47. ASSUME PostSuspend PROVE TypeJobs' BY <1>47, <1>0 DEF TypeJobs, LevelIds, Steps, NoCtx, PostSuspend, PostQueues
<1>48. ASSUME NEW r \in RingIds, Preempt(r) PROVE TypeJobs' BY <1>48, <1>0 DEF TypeJobs, LevelIds, Steps, NoCtx, Preempt
<1>49. ASSUME UNCHANGED vars PROVE TypeJobs' BY <1>49, <1>0 DEF TypeJobs, vars, LevelIds, Steps, NoCtx
<1> QED BY <1>1, <1>2, <1>3, <1>4, <1>5, <1>6, <1>7, <1>8, <1>9, <1>10, <1>11, <1>12, <1>13, <1>14, <1>15, <1>16, <1>17, <1>18, <1>19, <1>20, <1>21, <1>22, <1>23, <1>24, <1>25, <1>26, <1>27, <1>28, <1>29, <1>30, <1>31, <1>32, <1>33, <1>34, <1>35, <1>36, <1>37, <1>38, <1>39, <1>40, <1>41, <1>42, <1>43, <1>44, <1>45, <1>46, <1>47, <1>48, <1>49 DEF Next, Issue, Work

LEMMA TypeQueuesStep ==
    ASSUME QueueHasRoom, IInv, [Next]_vars
    PROVE  TypeQueues'
<1>0. /\ TypeContexts /\ TypeJobs /\ TypeQueues /\ TypeFlags /\ TypeNumbers
      /\ Holder /\ Queues /\ VoteMatchesWork /\ Halts /\ TypeOK /\ Whereabouts
      BY TypeParts DEF IInv
<1>00. scene \in Scenes BY <1>0 DEF Holder
<1>1. ASSUME NEW c \in Contexts, QueueCmd(c) PROVE TypeQueues' BY <1>1, <1>0 DEF TypeQueues, RingIds, QueueCmd
<1>2. ASSUME NEW c \in Contexts, QueueJob(c) PROVE TypeQueues' BY <1>2, <1>0 DEF TypeQueues, RingIds, QueueJob, AddJob
<1>3. ASSUME NEW c \in Contexts, LeaveToWorker(c) PROVE TypeQueues' BY <1>3, <1>0 DEF TypeQueues, RingIds, LeaveToWorker
<1>4. ASSUME NEW c \in Contexts, InlineStart(c) PROVE TypeQueues' BY <1>4, <1>0 DEF TypeQueues, RingIds, InlineStart
<1>5. ASSUME NEW c \in Contexts, InlineDefer(c) PROVE TypeQueues' BY <1>5, <1>0 DEF TypeQueues, RingIds, InlineDefer, InlineDefers
<1>6. ASSUME NEW c \in Contexts, QueueContext(c) PROVE TypeQueues' BY <1>6, <1>0 DEF TypeQueues, RingIds, QueueContext, Reschedule, AddJob
<1>7. ASSUME NEW f \in Fenced, FenceFires(f) PROVE TypeQueues' BY <1>7, <1>0 DEF TypeQueues, RingIds, FenceFires
<1>8. ASSUME IssueStart PROVE TypeQueues' BY <1>8, <1>0 DEF TypeQueues, RingIds, IssueStart, TakeJobs, NoSend
<1>9. ASSUME LevelEnd PROVE TypeQueues' BY <1>9, <1>0 DEF TypeQueues, RingIds, LevelEnd, TakeJobs, NoSend
<1>10. ASSUME DropJob PROVE TypeQueues' BY <1>10, <1>0 DEF TypeQueues, RingIds, DropJob, NoSend
<1>11. ASSUME KeepJob PROVE TypeQueues' BY <1>11, <1>0 DEF TypeQueues, RingIds, KeepJob, PutJobBack, NoSend
<1>12. ASSUME JobBusy PROVE TypeQueues' BY <1>12, <1>0 DEF TypeQueues, RingIds, JobBusy, NoSend
<1>13. ASSUME StartContext PROVE TypeQueues' BY <1>13, <1>0 DEF TypeQueues, RingIds, StartContext, NoSend
<1>14. ASSUME PopCmd PROVE TypeQueues' BY <1>14, <1>0 DEF TypeQueues, RingIds, PopCmd
<1>15. ASSUME SendEnds PROVE TypeQueues' BY <1>15, <1>0 DEF TypeQueues, RingIds, SendEnds, ContextEnd, NoSend
<1>16. ASSUME SendBlocked PROVE TypeQueues'
  <2>1. UNCHANGED <<scene, cmdq, inflight, todo, replay, hw, cur, expired, flt, fault>>
        BY <1>16 DEF SendBlocked, NoSend
  <2> QED BY <1>0, <2>1 DEF TypeQueues, RingIds
<1>17. ASSUME SubmitOk PROVE TypeQueues'
      BY <1>17, <1>0, SubmitOkQueues
<1>18. ASSUME SubmitFails PROVE TypeQueues' BY <1>18, <1>0 DEF TypeQueues, RingIds, SubmitFails, SendFails, SendNoPower, SendRefused, GetPower, NeedsPower, VoteAfterFailure, Halted, PutBackCmd, ContextEnd
<1>19. ASSUME SubmitHalted PROVE TypeQueues' BY <1>19, <1>0 DEF TypeQueues, RingIds, SubmitHalted, SendHalted, PutBackCmd
<1>20. ASSUME WorkStart PROVE TypeQueues' BY <1>20, <1>0 DEF TypeQueues, RingIds, WorkStart
<1>21. ASSUME RetireRing PROVE TypeQueues'
      BY <1>21, <1>0, RetireRingQueues
<1>22. ASSUME NoFault PROVE TypeQueues' BY <1>22, <1>0 DEF TypeQueues, RingIds, NoFault
<1>23. ASSUME FaultDeferred PROVE TypeQueues' BY <1>23, <1>0 DEF TypeQueues, RingIds, FaultDeferred
<1>24. ASSUME DoFault PROVE TypeQueues'
      BY <1>24, <1>0, DoFaultQueues
<1>25. ASSUME RecoverRing PROVE TypeQueues'
      BY <1>25, <1>0, RecoverRingQueues
<1>26. ASSUME RecoverFails PROVE TypeQueues'
      BY <1>26, <1>0, RecoverFailsQueues
<1>27. ASSUME ReplayOk PROVE TypeQueues'
      BY <1>27, <1>0, ReplayOkQueues
<1>28. ASSUME ReplayFails PROVE TypeQueues'
      BY <1>28, <1>0, ReplayFailsQueues
<1>29. ASSUME RecoverEnd PROVE TypeQueues' BY <1>29, <1>0 DEF TypeQueues, RingIds, RecoverEnd, RestoredHalt
<1>30. ASSUME Finish PROVE TypeQueues' BY <1>30, <1>0 DEF TypeQueues, RingIds, Finish, PowerDown, KeepTimer, Idle
<1>31. ASSUME GpuRetires PROVE TypeQueues' BY SMTT(30), ZenonT(30), <1>31, <1>0 DEF TypeQueues, RingIds, GpuRetires, CpCallback
<1>32. ASSUME GpuHangs PROVE TypeQueues' BY <1>32, <1>0 DEF TypeQueues, RingIds, GpuHangs
<1>33. ASSUME GpuResumes PROVE TypeQueues' BY <1>33, <1>0 DEF TypeQueues, RingIds, GpuResumes
<1>34. ASSUME FaultIrq PROVE TypeQueues' BY <1>34, <1>0 DEF TypeQueues, RingIds, FaultIrq
<1>35. ASSUME TimerFires PROVE TypeQueues' BY <1>35, <1>0 DEF TypeQueues, RingIds, TimerFires
<1>36. ASSUME IdleCheck PROVE TypeQueues' BY <1>36, <1>0 DEF TypeQueues, RingIds, IdleCheck, MaySlumber
<1>37. ASSUME IdleStart PROVE TypeQueues' BY <1>37, <1>0 DEF TypeQueues, RingIds, IdleStart
<1>38. ASSUME IdleFlushed PROVE TypeQueues' BY <1>38, <1>0 DEF TypeQueues, RingIds, IdleFlushed
<1>39. ASSUME IdleWaited PROVE TypeQueues' BY <1>39, <1>0 DEF TypeQueues, RingIds, IdleWaited, GateOpen
<1>40. ASSUME IdleEnd PROVE TypeQueues' BY <1>40, <1>0 DEF TypeQueues, RingIds, IdleEnd, IdleRequeues
<1>41. ASSUME SuspendPrepare PROVE TypeQueues' BY <1>41, <1>0 DEF TypeQueues, RingIds, SuspendPrepare, MayPrepare
<1>42. ASSUME DrainStart PROVE TypeQueues' BY <1>42, <1>0 DEF TypeQueues, RingIds, DrainStart
<1>43. ASSUME SuspendDenied PROVE TypeQueues' BY <1>43, <1>0 DEF TypeQueues, RingIds, SuspendDenied
<1>44. ASSUME SuspendDone PROVE TypeQueues' BY <1>44, <1>0 DEF TypeQueues, RingIds, SuspendDone, Drained
<1>45. ASSUME SuspendFails PROVE TypeQueues' BY <1>45, <1>0 DEF TypeQueues, RingIds, SuspendFails, Drained
<1>46. ASSUME Resume PROVE TypeQueues' BY <1>46, <1>0 DEF TypeQueues, RingIds, Resume, ResumeStarts
<1>47. ASSUME PostSuspend PROVE TypeQueues' BY <1>47, <1>0 DEF TypeQueues, RingIds, PostSuspend, PostQueues
<1>48. ASSUME NEW r \in RingIds, Preempt(r) PROVE TypeQueues' BY <1>48, <1>0 DEF TypeQueues, RingIds, Preempt
<1>49. ASSUME UNCHANGED vars PROVE TypeQueues' BY <1>49, <1>0 DEF TypeQueues, vars, RingIds
<1> QED BY <1>1, <1>2, <1>3, <1>4, <1>5, <1>6, <1>7, <1>8, <1>9, <1>10, <1>11, <1>12, <1>13, <1>14, <1>15, <1>16, <1>17, <1>18, <1>19, <1>20, <1>21, <1>22, <1>23, <1>24, <1>25, <1>26, <1>27, <1>28, <1>29, <1>30, <1>31, <1>32, <1>33, <1>34, <1>35, <1>36, <1>37, <1>38, <1>39, <1>40, <1>41, <1>42, <1>43, <1>44, <1>45, <1>46, <1>47, <1>48, <1>49 DEF Next, Issue, Work

LEMMA TypeFlagsStep ==
    ASSUME IInv, [Next]_vars
    PROVE  TypeFlags'
<1>0. /\ TypeContexts /\ TypeJobs /\ TypeQueues /\ TypeFlags /\ TypeNumbers
      /\ Holder /\ Queues /\ VoteMatchesWork /\ Halts
      BY TypeParts DEF IInv
<1>00. scene \in Scenes BY <1>0 DEF Holder
<1>1. ASSUME NEW c \in Contexts, QueueCmd(c) PROVE TypeFlags' BY <1>1, <1>0 DEF TypeFlags, QueueCmd
<1>2. ASSUME NEW c \in Contexts, QueueJob(c) PROVE TypeFlags' BY <1>2, <1>0 DEF TypeFlags, QueueJob, AddJob
<1>3. ASSUME NEW c \in Contexts, LeaveToWorker(c) PROVE TypeFlags' BY <1>3, <1>0 DEF TypeFlags, LeaveToWorker
<1>4. ASSUME NEW c \in Contexts, InlineStart(c) PROVE TypeFlags' BY <1>4, <1>0 DEF TypeFlags, InlineStart
<1>5. ASSUME NEW c \in Contexts, InlineDefer(c) PROVE TypeFlags' BY <1>5, <1>0 DEF TypeFlags, InlineDefer, InlineDefers
<1>6. ASSUME NEW c \in Contexts, QueueContext(c) PROVE TypeFlags' BY <1>6, <1>0 DEF TypeFlags, QueueContext, Reschedule, AddJob
<1>7. ASSUME NEW f \in Fenced, FenceFires(f) PROVE TypeFlags' BY <1>7, <1>0 DEF TypeFlags, FenceFires
<1>8. ASSUME IssueStart PROVE TypeFlags' BY <1>8, <1>0 DEF TypeFlags, IssueStart, TakeJobs, NoSend
<1>9. ASSUME LevelEnd PROVE TypeFlags' BY <1>9, <1>0 DEF TypeFlags, LevelEnd, TakeJobs, NoSend
<1>10. ASSUME DropJob PROVE TypeFlags' BY <1>10, <1>0 DEF TypeFlags, DropJob, NoSend
<1>11. ASSUME KeepJob PROVE TypeFlags' BY <1>11, <1>0 DEF TypeFlags, KeepJob, PutJobBack, NoSend
<1>12. ASSUME JobBusy PROVE TypeFlags' BY <1>12, <1>0 DEF TypeFlags, JobBusy, NoSend
<1>13. ASSUME StartContext PROVE TypeFlags' BY <1>13, <1>0 DEF TypeFlags, StartContext, NoSend
<1>14. ASSUME PopCmd PROVE TypeFlags' BY <1>14, <1>0 DEF TypeFlags, PopCmd
<1>15. ASSUME SendEnds PROVE TypeFlags' BY <1>15, <1>0 DEF TypeFlags, SendEnds, ContextEnd, NoSend
<1>16. ASSUME SendBlocked PROVE TypeFlags' BY <1>16, <1>0 DEF TypeFlags, SendBlocked, ContextEnd, NoSend
<1>17. ASSUME SubmitOk PROVE TypeFlags' BY <1>17, <1>0 DEF TypeFlags, SubmitOk, SendOk, GetPower, NeedsPower, CloseGate, Halted
<1>18. ASSUME SubmitFails PROVE TypeFlags'
  <2>1. SendFails \/ SendHalted BY <1>18 DEF SubmitFails
  <2>2. awake' \in BOOLEAN /\ pending' \in BOOLEAN /\ haltGate' \in BOOLEAN /\ powered' \in BOOLEAN
        BY <1>0, <2>1, FailedSend DEF TypeFlags
  <2>3. UNCHANGED <<active, gate, timer>> BY <2>1, FailedSend
  <2>4. UNCHANGED <<hung, ipc, ires, pm>> BY <1>18 DEF SubmitFails
  <2> QED BY <1>0, <2>2, <2>3, <2>4 DEF TypeFlags
<1>19. ASSUME SubmitHalted PROVE TypeFlags' BY <1>19, <1>0 DEF TypeFlags, SubmitHalted, SendHalted, PutBackCmd
<1>20. ASSUME WorkStart PROVE TypeFlags'
  <2>1. pending' \in BOOLEAN BY <1>20 DEF WorkStart
  <2>2. UNCHANGED <<hung, haltGate, powered, active, gate, awake, timer, ipc, ires, pm>> BY <1>20 DEF WorkStart
  <2> QED BY <1>0, <2>1, <2>2 DEF TypeFlags
<1>21. ASSUME RetireRing PROVE TypeFlags' BY <1>21, <1>0 DEF TypeFlags, RetireRing
<1>22. ASSUME NoFault PROVE TypeFlags' BY <1>22, <1>0 DEF TypeFlags, NoFault
<1>23. ASSUME FaultDeferred PROVE TypeFlags'
  <2>1. pending' \in BOOLEAN BY <1>23, <1>0 DEF FaultDeferred, TypeFlags
  <2>2. UNCHANGED <<hung, haltGate, powered, active, gate, awake, timer, ipc, ires, pm>> BY <1>23 DEF FaultDeferred
  <2> QED BY <1>0, <2>1, <2>2 DEF TypeFlags
<1>24. ASSUME DoFault PROVE TypeFlags' BY <1>24, <1>0 DEF TypeFlags, DoFault, Survivors
<1>25. ASSUME RecoverRing PROVE TypeFlags' BY <1>25, <1>0 DEF TypeFlags, RecoverRing, SetGuilty
<1>26. ASSUME RecoverFails PROVE TypeFlags' BY <1>26, <1>0 DEF TypeFlags, RecoverFails, SetGuilty
<1>27. ASSUME ReplayOk PROVE TypeFlags' BY <1>27, <1>0 DEF TypeFlags, ReplayOk, SendOk, GetPower, NeedsPower, CloseGate
<1>28. ASSUME ReplayFails PROVE TypeFlags'
  <2>1. SendFails \/ SendHalted BY <1>28 DEF ReplayFails
  <2>2. awake' \in BOOLEAN /\ pending' \in BOOLEAN /\ haltGate' \in BOOLEAN /\ powered' \in BOOLEAN
        BY <1>0, <2>1, FailedSend DEF TypeFlags
  <2>3. UNCHANGED <<active, gate, timer>> BY <2>1, FailedSend
  <2>4. UNCHANGED <<hung, ipc, ires, pm>> BY <1>28 DEF ReplayFails
  <2> QED BY <1>0, <2>2, <2>3, <2>4 DEF TypeFlags
<1>29. ASSUME RecoverEnd PROVE TypeFlags' BY <1>29, <1>0 DEF TypeFlags, RecoverEnd, RestoredHalt
<1>30. ASSUME Finish PROVE TypeFlags'
  <2>1. powered' \in BOOLEAN /\ active' \in BOOLEAN BY <1>30, <1>0 DEF Finish, PowerDown, TypeFlags
  <2>2. gate' \in BOOLEAN BY <1>30, <1>0 DEF Finish, PowerDown, TypeFlags
  <2>3. timer' \in {"off", "set", "stale"} BY <1>30, <1>0 DEF Finish, KeepTimer, TypeFlags
  <2>4. UNCHANGED <<hung, haltGate, pending, awake, ipc, ires, pm>> BY <1>30 DEF Finish
  <2> QED BY <1>0, <2>1, <2>2, <2>3, <2>4 DEF TypeFlags
<1>31. ASSUME GpuRetires PROVE TypeFlags' BY <1>31, <1>0 DEF TypeFlags, GpuRetires, CpCallback
<1>32. ASSUME GpuHangs PROVE TypeFlags' BY <1>32, <1>0 DEF TypeFlags, GpuHangs
<1>33. ASSUME GpuResumes PROVE TypeFlags'
  <2>1. hung' \in BOOLEAN BY <1>33 DEF GpuResumes
  <2>2. UNCHANGED <<pending, haltGate, powered, active, gate, awake, timer, ipc, ires, pm>> BY <1>33 DEF GpuResumes
  <2> QED BY <1>0, <2>1, <2>2 DEF TypeFlags
<1>34. ASSUME FaultIrq PROVE TypeFlags' BY <1>34, <1>0 DEF TypeFlags, FaultIrq
<1>35. ASSUME TimerFires PROVE TypeFlags' BY <1>35, <1>0 DEF TypeFlags, TimerFires
<1>36. ASSUME IdleCheck PROVE TypeFlags' BY <1>36, <1>0 DEF TypeFlags, IdleCheck, MaySlumber
<1>37. ASSUME IdleStart PROVE TypeFlags' BY <1>37, <1>0 DEF TypeFlags, IdleStart
<1>38. ASSUME IdleFlushed PROVE TypeFlags' BY <1>38, <1>0 DEF TypeFlags, IdleFlushed
<1>39. ASSUME IdleWaited PROVE TypeFlags' BY <1>39, <1>0 DEF TypeFlags, IdleWaited, GateOpen
<1>40. ASSUME IdleEnd PROVE TypeFlags' BY <1>40, <1>0 DEF TypeFlags, IdleEnd, IdleRequeues
<1>41. ASSUME SuspendPrepare PROVE TypeFlags' BY SMTT(30), ZenonT(30), <1>41, <1>0 DEF TypeFlags, SuspendPrepare, MayPrepare
<1>42. ASSUME DrainStart PROVE TypeFlags' BY SMTT(30), ZenonT(30), <1>42, <1>0 DEF TypeFlags, DrainStart
<1>43. ASSUME SuspendDenied PROVE TypeFlags' BY <1>43, <1>0 DEF TypeFlags, SuspendDenied
<1>44. ASSUME SuspendDone PROVE TypeFlags' BY <1>44, <1>0 DEF TypeFlags, SuspendDone, Drained
<1>45. ASSUME SuspendFails PROVE TypeFlags' BY <1>45, <1>0 DEF TypeFlags, SuspendFails, Drained
<1>46. ASSUME Resume PROVE TypeFlags' BY <1>46, <1>0 DEF TypeFlags, Resume, ResumeStarts
<1>47. ASSUME PostSuspend PROVE TypeFlags' BY <1>47, <1>0 DEF TypeFlags, PostSuspend, PostQueues
<1>48. ASSUME NEW r \in RingIds, Preempt(r) PROVE TypeFlags' BY <1>48, <1>0 DEF TypeFlags, Preempt
<1>49. ASSUME UNCHANGED vars PROVE TypeFlags' BY <1>49, <1>0 DEF TypeFlags, vars
<1> QED BY <1>1, <1>2, <1>3, <1>4, <1>5, <1>6, <1>7, <1>8, <1>9, <1>10, <1>11, <1>12, <1>13, <1>14, <1>15, <1>16, <1>17, <1>18, <1>19, <1>20, <1>21, <1>22, <1>23, <1>24, <1>25, <1>26, <1>27, <1>28, <1>29, <1>30, <1>31, <1>32, <1>33, <1>34, <1>35, <1>36, <1>37, <1>38, <1>39, <1>40, <1>41, <1>42, <1>43, <1>44, <1>45, <1>46, <1>47, <1>48, <1>49 DEF Next, Issue, Work

LEMMA TypeNumbersStep ==
    ASSUME IInv, [Next]_vars
    PROVE  TypeNumbers'
<1>0. /\ TypeContexts /\ TypeJobs /\ TypeQueues /\ TypeFlags /\ TypeNumbers
      /\ Holder /\ Queues /\ VoteMatchesWork /\ Halts
      BY TypeParts DEF IInv
<1>00. scene \in Scenes BY <1>0 DEF Holder
<1>1. ASSUME NEW c \in Contexts, QueueCmd(c) PROVE TypeNumbers' BY <1>1, <1>0 DEF TypeNumbers, QueueCmd
<1>2. ASSUME NEW c \in Contexts, QueueJob(c) PROVE TypeNumbers' BY <1>2, <1>0 DEF TypeNumbers, QueueJob, AddJob
<1>3. ASSUME NEW c \in Contexts, LeaveToWorker(c) PROVE TypeNumbers' BY <1>3, <1>0 DEF TypeNumbers, LeaveToWorker
<1>4. ASSUME NEW c \in Contexts, InlineStart(c) PROVE TypeNumbers' BY <1>4, <1>0 DEF TypeNumbers, InlineStart
<1>5. ASSUME NEW c \in Contexts, InlineDefer(c) PROVE TypeNumbers' BY <1>5, <1>0 DEF TypeNumbers, InlineDefer, InlineDefers
<1>6. ASSUME NEW c \in Contexts, QueueContext(c) PROVE TypeNumbers' BY <1>6, <1>0 DEF TypeNumbers, QueueContext, Reschedule, AddJob
<1>7. ASSUME NEW f \in Fenced, FenceFires(f) PROVE TypeNumbers' BY <1>7, <1>0 DEF TypeNumbers, FenceFires
<1>8. ASSUME IssueStart PROVE TypeNumbers' BY <1>8, <1>0 DEF TypeNumbers, IssueStart, TakeJobs, NoSend
<1>9. ASSUME LevelEnd PROVE TypeNumbers' BY <1>9, <1>0 DEF TypeNumbers, LevelEnd, TakeJobs, NoSend
<1>10. ASSUME DropJob PROVE TypeNumbers' BY <1>10, <1>0 DEF TypeNumbers, DropJob, NoSend
<1>11. ASSUME KeepJob PROVE TypeNumbers' BY <1>11, <1>0 DEF TypeNumbers, KeepJob, PutJobBack, NoSend
<1>12. ASSUME JobBusy PROVE TypeNumbers' BY <1>12, <1>0 DEF TypeNumbers, JobBusy, NoSend
<1>13. ASSUME StartContext PROVE TypeNumbers' BY <1>13, <1>0 DEF TypeNumbers, StartContext, NoSend
<1>14. ASSUME PopCmd PROVE TypeNumbers' BY <1>14, <1>0 DEF TypeNumbers, PopCmd
<1>15. ASSUME SendEnds PROVE TypeNumbers' BY <1>15, <1>0 DEF TypeNumbers, SendEnds, ContextEnd, NoSend
<1>16. ASSUME SendBlocked PROVE TypeNumbers' BY <1>16, <1>0 DEF TypeNumbers, SendBlocked, ContextEnd, NoSend
<1>17. ASSUME SubmitOk PROVE TypeNumbers'
  <2>1. SendOk(<<ctx, sent[ctx]>>) BY <1>17 DEF SubmitOk
  <2>2. powered \in BOOLEAN BY <1>0 DEF TypeFlags
  <2>3. UNCHANGED nfails /\ (UNCHANGED cnt \/ (~powered /\ cnt' = cnt + 1)) BY <2>1, <2>2, GoodSend
  <2>4. cnt' \in 0 .. 2 BY <1>0, <2>3 DEF TypeNumbers, VoteMatchesWork
  <2>5. UNCHANGED <<scene, flush, saved, halt, nfaults, nhangs, nidles, nsuspends>> BY <1>17 DEF SubmitOk
  <2> QED BY <1>0, <2>3, <2>4, <2>5 DEF TypeNumbers
<1>18. ASSUME SubmitFails PROVE TypeNumbers'
  <2>1. SendFails \/ SendHalted BY <1>18 DEF SubmitFails
  <2>2. UNCHANGED cnt \/ cnt' = IF powered THEN cnt - 1 ELSE cnt BY <2>1, Zenon, FailedSend
  <2>3. cnt' \in 0 .. 2
    <3>1. cnt \in 0 .. 2 /\ (powered => cnt - 1 \in 0 .. 2)
          BY <1>0 DEF TypeNumbers, VoteMatchesWork
    <3> QED BY <2>2, <3>1
  <2>4. UNCHANGED nfails \/ (nfails < scene.fails /\ nfails' = nfails + 1)
        BY <2>1, Zenon, FailedSend
  <2>5. nfails' \in 0 .. scene.fails BY <1>0, <1>00, <2>4, SceneFacts DEF TypeNumbers
  <2>6. UNCHANGED <<scene, flush, saved, halt, nfaults, nhangs, nidles, nsuspends>> BY <1>18 DEF SubmitFails
  <2> QED BY <1>0, <2>3, <2>5, <2>6 DEF TypeNumbers
<1>19. ASSUME SubmitHalted PROVE TypeNumbers' BY <1>19, <1>0 DEF TypeNumbers, SubmitHalted, SendHalted, PutBackCmd
<1>20. ASSUME WorkStart PROVE TypeNumbers' BY <1>20, <1>0 DEF TypeNumbers, WorkStart
<1>21. ASSUME RetireRing PROVE TypeNumbers' BY <1>21, <1>0 DEF TypeNumbers, RetireRing
<1>22. ASSUME NoFault PROVE TypeNumbers' BY <1>22, <1>0 DEF TypeNumbers, NoFault
<1>23. ASSUME FaultDeferred PROVE TypeNumbers' BY <1>23, <1>0 DEF TypeNumbers, FaultDeferred
<1>24. ASSUME DoFault PROVE TypeNumbers'
      BY <1>24, <1>0, <1>00, SceneFacts DEF TypeNumbers, DoFault
<1>25. ASSUME RecoverRing PROVE TypeNumbers' BY <1>25, <1>0 DEF TypeNumbers, RecoverRing, SetGuilty
<1>26. ASSUME RecoverFails PROVE TypeNumbers'
      BY <1>26, <1>0, <1>00, SceneFacts DEF TypeNumbers, RecoverFails
<1>27. ASSUME ReplayOk PROVE TypeNumbers'
  <2>1. SendOk(Head(replay)) BY <1>27 DEF ReplayOk
  <2>2. powered \in BOOLEAN BY <1>0 DEF TypeFlags
  <2>3. UNCHANGED nfails /\ (UNCHANGED cnt \/ (~powered /\ cnt' = cnt + 1)) BY <2>1, <2>2, GoodSend
  <2>4. cnt' \in 0 .. 2 BY <1>0, <2>3 DEF TypeNumbers, VoteMatchesWork
  <2>5. UNCHANGED <<scene, flush, saved, halt, nfaults, nhangs, nidles, nsuspends>> BY <1>27 DEF ReplayOk
  <2> QED BY <1>0, <2>3, <2>4, <2>5 DEF TypeNumbers
<1>28. ASSUME ReplayFails PROVE TypeNumbers'
  <2>1. SendFails \/ SendHalted BY <1>28 DEF ReplayFails
  <2>2. UNCHANGED cnt \/ cnt' = IF powered THEN cnt - 1 ELSE cnt BY <2>1, Zenon, FailedSend
  <2>3. cnt' \in 0 .. 2
    <3>1. cnt \in 0 .. 2 /\ (powered => cnt - 1 \in 0 .. 2)
          BY <1>0 DEF TypeNumbers, VoteMatchesWork
    <3> QED BY <2>2, <3>1
  <2>4. UNCHANGED nfails \/ (nfails < scene.fails /\ nfails' = nfails + 1)
        BY <2>1, Zenon, FailedSend
  <2>5. nfails' \in 0 .. scene.fails BY <1>0, <1>00, <2>4, SceneFacts DEF TypeNumbers
  <2>6. UNCHANGED <<scene, flush, saved, halt, nfaults, nhangs, nidles, nsuspends>> BY <1>28 DEF ReplayFails
  <2> QED BY <1>0, <2>3, <2>5, <2>6 DEF TypeNumbers
<1>29. ASSUME RecoverEnd PROVE TypeNumbers'
  <2>1. halt' \in Nat /\ halt' <= nidles + nsuspends
        BY <1>29, <1>0 DEF TypeNumbers, Halts, RestoredHalt, RecoverEnd
  <2>2. halt' \in 0 .. scene.idles + scene.suspends BY <1>0, <1>00, <2>1, SceneFacts DEF TypeNumbers
  <2>3. saved' \in 0 .. scene.idles + scene.suspends BY <1>29, <1>00, SceneFacts DEF RecoverEnd
  <2>4. UNCHANGED <<scene, cnt, flush, nfaults, nhangs, nfails, nidles, nsuspends>> BY <1>29 DEF RecoverEnd
  <2> QED BY <1>0, <2>2, <2>3, <2>4 DEF TypeNumbers
<1>30. ASSUME Finish PROVE TypeNumbers'
  <2>1. cnt' \in 0 .. 2 BY <1>30, <1>0 DEF TypeNumbers, VoteMatchesWork, Finish, PowerDown
  <2>2. flush' \in 0 .. 1 BY <1>30, <1>0 DEF TypeNumbers, Finish
  <2>3. UNCHANGED <<scene, saved, halt, nfaults, nhangs, nfails, nidles, nsuspends>> BY <1>30 DEF Finish
  <2> QED BY <1>0, <2>1, <2>2, <2>3 DEF TypeNumbers
<1>31. ASSUME GpuRetires PROVE TypeNumbers' BY <1>31, <1>0 DEF TypeNumbers, GpuRetires, CpCallback
<1>32. ASSUME GpuHangs PROVE TypeNumbers'
      BY <1>32, <1>0, <1>00, SceneFacts DEF TypeNumbers, GpuHangs
<1>33. ASSUME GpuResumes PROVE TypeNumbers' BY <1>33, <1>0 DEF TypeNumbers, GpuResumes
<1>34. ASSUME FaultIrq PROVE TypeNumbers'
      BY <1>34, <1>0, <1>00, SceneFacts DEF TypeNumbers, FaultIrq
<1>35. ASSUME TimerFires PROVE TypeNumbers' BY <1>35, <1>0 DEF TypeNumbers, TimerFires
<1>36. ASSUME IdleCheck PROVE TypeNumbers' BY <1>36, <1>0 DEF TypeNumbers, IdleCheck, MaySlumber
<1>37. ASSUME IdleStart PROVE TypeNumbers'
      BY SMTT(30), ZenonT(30), <1>37, <1>0, <1>00, SceneFacts DEF TypeNumbers, Halts, VoteMatchesWork, IdleStart
<1>38. ASSUME IdleFlushed PROVE TypeNumbers' BY <1>38, <1>0 DEF TypeNumbers, IdleFlushed
<1>39. ASSUME IdleWaited PROVE TypeNumbers' BY <1>39, <1>0 DEF TypeNumbers, IdleWaited, GateOpen
<1>40. ASSUME IdleEnd PROVE TypeNumbers'
      BY <1>40, <1>0, <1>00, SceneFacts DEF TypeNumbers, VoteMatchesWork, IdleEnd
<1>41. ASSUME SuspendPrepare PROVE TypeNumbers'
      BY <1>41, <1>0, <1>00, SceneFacts DEF TypeNumbers, SuspendPrepare
<1>42. ASSUME DrainStart PROVE TypeNumbers' BY <1>42, <1>0 DEF TypeNumbers, DrainStart
<1>43. ASSUME SuspendDenied PROVE TypeNumbers' BY <1>43, <1>0 DEF TypeNumbers, SuspendDenied
<1>44. ASSUME SuspendDone PROVE TypeNumbers'
      BY <1>44, <1>0, <1>00, SceneFacts DEF TypeNumbers, Halts, SuspendDone
<1>45. ASSUME SuspendFails PROVE TypeNumbers' BY <1>45, <1>0 DEF TypeNumbers, SuspendFails, Drained
<1>46. ASSUME Resume PROVE TypeNumbers'
      BY <1>46, <1>0, <1>00, SceneFacts DEF TypeNumbers, Resume
<1>47. ASSUME PostSuspend PROVE TypeNumbers' BY <1>47, <1>0 DEF TypeNumbers, PostSuspend, PostQueues
<1>48. ASSUME NEW r \in RingIds, Preempt(r) PROVE TypeNumbers' BY <1>48, <1>0 DEF TypeNumbers, Preempt
<1>49. ASSUME UNCHANGED vars PROVE TypeNumbers' BY <1>49, <1>0 DEF TypeNumbers, vars
<1> QED BY <1>1, <1>2, <1>3, <1>4, <1>5, <1>6, <1>7, <1>8, <1>9, <1>10, <1>11, <1>12, <1>13, <1>14, <1>15, <1>16, <1>17, <1>18, <1>19, <1>20, <1>21, <1>22, <1>23, <1>24, <1>25, <1>26, <1>27, <1>28, <1>29, <1>30, <1>31, <1>32, <1>33, <1>34, <1>35, <1>36, <1>37, <1>38, <1>39, <1>40, <1>41, <1>42, <1>43, <1>44, <1>45, <1>46, <1>47, <1>48, <1>49 DEF Next, Issue, Work


(* When nothing is in flight, no ring has anything in flight that is not    *)
(* being recovered, and the other way round.                                *)
LEMMA NothingInFlight ==
    ASSUME scene \in Scenes, Queues
    PROVE  inflight = 0 <=> \A r \in RingIds \ Recovering : cmdq[r].inflight = 0
<1>1. /\ InFlight \in [0 .. scene.rings - 1 -> Nat] /\ scene.rings \in Nat
      /\ \A r \in RingIds : cmdq[r].inflight \in Nat
      BY InFlightFacts DEF Queues
<1>2. inflight = Total(InFlight, scene.rings)[scene.rings] BY BelowIs DEF Queues
<1>3. ASSUME inflight = 0, NEW r \in RingIds \ Recovering PROVE cmdq[r].inflight = 0
  <2>1. InFlight[r] = cmdq[r].inflight BY DEF InFlight
  <2>2. r \in 0 .. scene.rings - 1 BY DEF RingIds
  <2> DEFINE f == InFlight
             n == scene.rings
  <2> HIDE DEF f, n
  <2>3. f[r] <= Total(f, n)[n] BY <1>1, <2>2, TotalBounds DEF f, n
  <2>4. f[r] <= 0 BY <1>2, <1>3, <2>3 DEF f, n
  <2> QED BY <1>1, <2>1, <2>4 DEF f
<1>4. ASSUME \A r \in RingIds \ Recovering : cmdq[r].inflight = 0 PROVE inflight = 0
  <2>1. \A r \in 0 .. scene.rings - 1 : InFlight[r] = 0 BY <1>4 DEF InFlight, RingIds
  <2> QED BY <1>1, <1>2, <2>1, TotalZero
<1> QED BY <1>3, <1>4

LEMMA GuiltyHolder ==
    ASSUME TypeContexts, Holder, NEW C, SetGuilty(C), step = "recover",
           UNCHANGED <<scene, mutex, step, queuedTs>>
    PROVE  Holder'
<1>1. \A c \in Contexts : sent'[c] = queuedTs[c] \/ sent'[c] = sent[c] BY DEF SetGuilty
<1>2. \A c \in Contexts : queuedTs[c] <= queuedTs[c] BY DEF TypeContexts
<1>3. \A c \in Contexts : sent'[c] <= queuedTs'[c] BY <1>1, <1>2 DEF Holder
<1> QED BY <1>3 DEF Holder

LEMMA HolderStep ==
    ASSUME IInv, [Next]_vars
    PROVE  Holder'
<1>0. /\ TypeContexts /\ TypeJobs /\ TypeQueues /\ TypeFlags /\ TypeNumbers
      /\ TypeOK /\ Holder /\ Queues /\ VoteMatchesWork /\ Gates /\ Halts /\ Faults
      BY TypeParts DEF IInv
<1>00. scene \in Scenes BY <1>0 DEF Holder
<1>1. ASSUME NEW c \in Contexts, QueueCmd(c) PROVE Holder'
  <2>1. \A d \in Contexts : sent[d] <= queuedTs'[d] /\ queuedTs'[d] <= scene.quota[d]
        BY SMTT(30), ZenonT(30), <1>1, <1>0, <1>00, SceneFacts DEF QueueCmd, TypeContexts, Holder
  <2>2. UNCHANGED <<scene, step, mutex, at, ctx, bad, count, cmdq, sent, todo, replay, saved>>
        BY <1>1 DEF QueueCmd
  <2> QED BY <1>0, <2>1, <2>2 DEF Holder, RingIds, LevelIds, RbOf, Full
<1>2. ASSUME NEW c \in Contexts, QueueJob(c) PROVE Holder' BY <1>2, <1>0 DEF Holder, RingIds, LevelIds, RbOf, Full, QueueJob, AddJob
<1>3. ASSUME NEW c \in Contexts, LeaveToWorker(c) PROVE Holder' BY <1>3, <1>0 DEF Holder, RingIds, LevelIds, RbOf, Full, LeaveToWorker
<1>4. ASSUME NEW c \in Contexts, InlineStart(c) PROVE Holder'
  <2>1. mutex' = c /\ step' = "issue" /\ mutex = "none"
        /\ UNCHANGED <<scene, at, ctx, bad, count, cmdq, sent, queuedTs, todo, replay, saved>>
        BY <1>4 DEF InlineStart
  <2>2. c # "none" /\ c # "worker" BY <1>00, SceneFacts
  <2> QED BY <1>0, <2>1, <2>2 DEF Holder
<1>5. ASSUME NEW c \in Contexts, InlineDefer(c) PROVE Holder' BY <1>5, <1>0 DEF Holder, RingIds, LevelIds, RbOf, Full, InlineDefer, InlineDefers
<1>6. ASSUME NEW c \in Contexts, QueueContext(c) PROVE Holder' BY <1>6, <1>0 DEF Holder, RingIds, LevelIds, RbOf, Full, QueueContext, Reschedule, AddJob
<1>7. ASSUME NEW f \in Fenced, FenceFires(f) PROVE Holder' BY <1>7, <1>0 DEF Holder, RingIds, LevelIds, RbOf, Full, FenceFires
<1>8. ASSUME IssueStart PROVE Holder'
  <2>1. 0 \in LevelIds BY <1>00, SceneFacts
  <2>2. step = "issue" /\ at' = 0 /\ step' \in {"finish", "jobs"}
        /\ UNCHANGED <<scene, mutex, ctx, bad, count, cmdq, sent, queuedTs, todo, replay, saved>>
        BY <1>8 DEF IssueStart, NoSend
  <2> QED BY <1>0, <2>1, <2>2 DEF Holder, LevelIds
<1>9. ASSUME LevelEnd PROVE Holder'
  <2>1. step = "jobs" /\ ((step' = "finish" /\ at' = 0) \/ (step' = "jobs" /\ at' = at + 1 /\ at + 1 # scene.levels))
        /\ UNCHANGED <<scene, mutex, ctx, bad, count, cmdq, sent, queuedTs, todo, replay, saved>>
        BY <1>9 DEF LevelEnd, NoSend
  <2>2. step' = "jobs" => at' \in LevelIds
        BY <1>0, <1>00, <2>1, SceneFacts DEF Holder, LevelIds
  <2> QED BY <1>0, <2>1, <2>2 DEF Holder, LevelIds
<1>10. ASSUME DropJob PROVE Holder' BY <1>10, <1>0 DEF Holder, RingIds, LevelIds, RbOf, Full, DropJob, NoSend
<1>11. ASSUME KeepJob PROVE Holder' BY <1>11, <1>0 DEF Holder, RingIds, LevelIds, RbOf, Full, KeepJob, PutJobBack, NoSend
<1>12. ASSUME JobBusy PROVE Holder' BY <1>12, <1>0 DEF Holder, RingIds, LevelIds, RbOf, Full, JobBusy, NoSend
<1>13. ASSUME StartContext PROVE Holder'
  <2>1. Head(list) \in Contexts \ bad
        BY <1>13, <1>0, HeadTailProperties DEF StartContext, Duplicate, TypeJobs
  <2>2. step = "jobs" /\ ctx' = Head(list) /\ step' = "send"
        /\ UNCHANGED <<scene, mutex, at, bad, cmdq, sent, queuedTs, todo, replay, saved>>
        BY <1>13 DEF StartContext, NoSend
  <2> QED BY <1>0, <2>1, <2>2 DEF Holder, LevelIds
<1>14. ASSUME PopCmd PROVE Holder'
  <2>1. step = "send" /\ step' = "submit" /\ sent' = [sent EXCEPT ![ctx] = sent[ctx] + 1]
        /\ count < Burst /\ ~Full(ctx) /\ sent[ctx] < queuedTs[ctx]
        /\ UNCHANGED <<scene, mutex, at, ctx, count, bad, cmdq, queuedTs, todo, replay, saved>>
        BY <1>14 DEF PopCmd, MaySend, Waiting
  <2>2. ctx \in Contexts \ bad BY <1>0, <2>1 DEF Holder
  <2>3. sent'[ctx] = sent[ctx] + 1 /\ sent'[ctx] >= 1 /\ sent'[ctx] <= queuedTs[ctx]
        BY <1>0, <2>1, <2>2 DEF TypeContexts
  <2>4. \A c \in Contexts : c # ctx => sent'[c] = sent[c] BY <1>0, <2>1 DEF TypeContexts
  <2>5. \A c \in Contexts : sent'[c] <= queuedTs'[c] /\ queuedTs'[c] <= scene'.quota[c]
        BY <1>0, <2>1, <2>3, <2>4 DEF Holder
  <2>6. ~Full(ctx)' BY <2>1 DEF Full, RbOf
  <2>7. at \in LevelIds /\ (mutex # "none") BY <1>0, <2>1 DEF Holder
  <2> QED BY <1>0, <2>1, <2>2, <2>3, <2>5, <2>6, <2>7 DEF Holder, LevelIds
<1>15. ASSUME SendEnds PROVE Holder' BY <1>15, <1>0 DEF Holder, RingIds, LevelIds, RbOf, Full, SendEnds, ContextEnd, NoSend
<1>16. ASSUME SendBlocked PROVE Holder' BY <1>16, <1>0 DEF Holder, RingIds, LevelIds, RbOf, Full, SendBlocked, ContextEnd, NoSend
<1>17. ASSUME SubmitOk PROVE Holder' BY <1>17, <1>0 DEF Holder, RingIds, LevelIds, RbOf, Full, SubmitOk, SendOk, GetPower, NeedsPower, CloseGate, Halted
<1>18. ASSUME SubmitFails PROVE Holder'
  <2>1. step = "submit" /\ step' = "jobs" /\ sent' = [sent EXCEPT ![ctx] = sent[ctx] - 1]
        /\ UNCHANGED <<scene, mutex, at, bad, queuedTs, todo, replay, saved>>
        BY <1>18 DEF SubmitFails, PutBackCmd, ContextEnd
  <2>2. ctx \in Contexts \ bad BY <1>0, <2>1 DEF Holder
  <2>3. \A c \in Contexts : sent'[c] <= queuedTs'[c] /\ queuedTs'[c] <= scene'.quota[c]
    <3>1. sent'[ctx] <= queuedTs[ctx] BY <1>0, <2>1, <2>2 DEF TypeContexts, Holder
    <3>2. \A c \in Contexts : c # ctx => sent'[c] = sent[c] BY <1>0, <2>1 DEF TypeContexts
    <3> QED BY <1>0, <2>1, <3>1, <3>2 DEF Holder
  <2>4. at \in LevelIds /\ (mutex # "none") BY <1>0, <2>1 DEF Holder
  <2> QED BY <1>0, <2>1, <2>3, <2>4 DEF Holder, LevelIds
<1>19. ASSUME SubmitHalted PROVE Holder'
  <2>1. step = "submit" /\ step' = "jobs" /\ sent' = [sent EXCEPT ![ctx] = sent[ctx] - 1]
        /\ UNCHANGED <<scene, mutex, at, bad, queuedTs, todo, replay, saved>>
        BY <1>19 DEF SubmitHalted, PutBackCmd, ContextEnd
  <2>2. ctx \in Contexts \ bad BY <1>0, <2>1 DEF Holder
  <2>3. \A c \in Contexts : sent'[c] <= queuedTs'[c] /\ queuedTs'[c] <= scene'.quota[c]
    <3>1. sent'[ctx] <= queuedTs[ctx] BY <1>0, <2>1, <2>2 DEF TypeContexts, Holder
    <3>2. \A c \in Contexts : c # ctx => sent'[c] = sent[c] BY <1>0, <2>1 DEF TypeContexts
    <3> QED BY <1>0, <2>1, <3>1, <3>2 DEF Holder
  <2>4. at \in LevelIds /\ (mutex # "none") BY <1>0, <2>1 DEF Holder
  <2> QED BY <1>0, <2>1, <2>3, <2>4 DEF Holder, LevelIds
<1>20. ASSUME WorkStart PROVE Holder'
  <2>1. mutex = "none" /\ mutex' = "worker" /\ step' = "retire" /\ at' = 0
        /\ UNCHANGED <<scene, ctx, bad, sent, queuedTs, todo, replay, saved>>
        BY <1>20 DEF WorkStart
  <2>2. 0 \in RingIds BY <1>00, SceneFacts
  <2> QED BY <1>0, <2>1, <2>2 DEF Holder, RingIds
<1>21. ASSUME RetireRing PROVE Holder'
  <2>1. step = "retire" /\ (step' = "fault" \/ (step' = "retire" /\ at' = at + 1 /\ at + 1 # scene.rings))
        /\ UNCHANGED <<scene, mutex, bad, sent, queuedTs, todo, replay, saved>>
        BY <1>21 DEF RetireRing
  <2>2. step' = "retire" => at' \in RingIds BY <1>0, <1>00, <2>1, SceneFacts DEF Holder, RingIds
  <2> QED BY <1>0, <2>1, <2>2 DEF Holder, RingIds
<1>22. ASSUME NoFault PROVE Holder' BY <1>22, <1>0 DEF Holder, RingIds, LevelIds, RbOf, Full, NoFault
<1>23. ASSUME FaultDeferred PROVE Holder' BY <1>23, <1>0 DEF Holder, RingIds, LevelIds, RbOf, Full, FaultDeferred
<1>24. ASSUME DoFault PROVE Holder' BY <1>24, <1>0 DEF Holder, RingIds, LevelIds, RbOf, Full, DoFault, Survivors
<1>25. ASSUME RecoverRing PROVE Holder'
  <2>1. PICK C : SetGuilty(C) BY <1>25 DEF RecoverRing
  <2>2. step = "recover" /\ UNCHANGED <<scene, mutex, step, queuedTs>> BY <1>25 DEF RecoverRing
  <2> QED BY <1>0, <2>1, <2>2, GuiltyHolder
<1>26. ASSUME RecoverFails PROVE Holder'
  <2>1. PICK C : SetGuilty(C) BY <1>26 DEF RecoverFails
  <2>2. step = "recover" /\ UNCHANGED <<scene, mutex, step, queuedTs>> BY <1>26 DEF RecoverFails
  <2> QED BY <1>0, <2>1, <2>2, GuiltyHolder
<1>27. ASSUME ReplayOk PROVE Holder' BY <1>27, <1>0 DEF Holder, RingIds, LevelIds, RbOf, Full, ReplayOk, SendOk, GetPower, NeedsPower, CloseGate
<1>28. ASSUME ReplayFails PROVE Holder'
  <2>1. PICK C : SetGuilty(C) BY <1>28 DEF ReplayFails
  <2>2. step = "recover" /\ UNCHANGED <<scene, mutex, step, queuedTs>> BY <1>28 DEF ReplayFails
  <2> QED BY <1>0, <2>1, <2>2, GuiltyHolder
<1>29. ASSUME RecoverEnd PROVE Holder' BY <1>29, <1>0 DEF Holder, RingIds, LevelIds, RbOf, Full, RecoverEnd, RestoredHalt
<1>30. ASSUME Finish PROVE Holder' BY <1>30, <1>0 DEF Holder, RingIds, LevelIds, RbOf, Full, Finish, PowerDown, KeepTimer, Idle
<1>31. ASSUME GpuRetires PROVE Holder' BY <1>31, <1>0 DEF Holder, RingIds, LevelIds, RbOf, Full, GpuRetires, CpCallback
<1>32. ASSUME GpuHangs PROVE Holder' BY <1>32, <1>0 DEF Holder, RingIds, LevelIds, RbOf, Full, GpuHangs
<1>33. ASSUME GpuResumes PROVE Holder' BY <1>33, <1>0 DEF Holder, RingIds, LevelIds, RbOf, Full, GpuResumes
<1>34. ASSUME FaultIrq PROVE Holder' BY <1>34, <1>0 DEF Holder, RingIds, LevelIds, RbOf, Full, FaultIrq
<1>35. ASSUME TimerFires PROVE Holder' BY <1>35, <1>0 DEF Holder, RingIds, LevelIds, RbOf, Full, TimerFires
<1>36. ASSUME IdleCheck PROVE Holder' BY <1>36, <1>0 DEF Holder, RingIds, LevelIds, RbOf, Full, IdleCheck, MaySlumber
<1>37. ASSUME IdleStart PROVE Holder' BY <1>37, <1>0 DEF Holder, RingIds, LevelIds, RbOf, Full, IdleStart
<1>38. ASSUME IdleFlushed PROVE Holder' BY <1>38, <1>0 DEF Holder, RingIds, LevelIds, RbOf, Full, IdleFlushed
<1>39. ASSUME IdleWaited PROVE Holder' BY <1>39, <1>0 DEF Holder, RingIds, LevelIds, RbOf, Full, IdleWaited, GateOpen
<1>40. ASSUME IdleEnd PROVE Holder' BY <1>40, <1>0 DEF Holder, RingIds, LevelIds, RbOf, Full, IdleEnd, IdleRequeues
<1>41. ASSUME SuspendPrepare PROVE Holder' BY <1>41, <1>0 DEF Holder, RingIds, LevelIds, RbOf, Full, SuspendPrepare, MayPrepare
<1>42. ASSUME DrainStart PROVE Holder' BY <1>42, <1>0 DEF Holder, RingIds, LevelIds, RbOf, Full, DrainStart
<1>43. ASSUME SuspendDenied PROVE Holder' BY <1>43, <1>0 DEF Holder, RingIds, LevelIds, RbOf, Full, SuspendDenied
<1>44. ASSUME SuspendDone PROVE Holder' BY <1>44, <1>0 DEF Holder, RingIds, LevelIds, RbOf, Full, SuspendDone, Drained
<1>45. ASSUME SuspendFails PROVE Holder' BY <1>45, <1>0 DEF Holder, RingIds, LevelIds, RbOf, Full, SuspendFails, Drained
<1>46. ASSUME Resume PROVE Holder' BY <1>46, <1>0 DEF Holder, RingIds, LevelIds, RbOf, Full, Resume, ResumeStarts
<1>47. ASSUME PostSuspend PROVE Holder' BY <1>47, <1>0 DEF Holder, RingIds, LevelIds, RbOf, Full, PostSuspend, PostQueues
<1>48. ASSUME NEW r \in RingIds, Preempt(r) PROVE Holder' BY <1>48, <1>0 DEF Holder, RingIds, LevelIds, RbOf, Full, Preempt
<1>49. ASSUME UNCHANGED vars PROVE Holder' BY <1>49, <1>0 DEF Holder, vars, RingIds, LevelIds, RbOf, Full
<1> QED BY <1>1, <1>2, <1>3, <1>4, <1>5, <1>6, <1>7, <1>8, <1>9, <1>10, <1>11, <1>12, <1>13, <1>14, <1>15, <1>16, <1>17, <1>18, <1>19, <1>20, <1>21, <1>22, <1>23, <1>24, <1>25, <1>26, <1>27, <1>28, <1>29, <1>30, <1>31, <1>32, <1>33, <1>34, <1>35, <1>36, <1>37, <1>38, <1>39, <1>40, <1>41, <1>42, <1>43, <1>44, <1>45, <1>46, <1>47, <1>48, <1>49 DEF Next, Issue, Work

LEMMA VoteMatchesWorkStep ==
    ASSUME IInv, [Next]_vars
    PROVE  VoteMatchesWork'
<1>0. /\ TypeContexts /\ TypeJobs /\ TypeQueues /\ TypeFlags /\ TypeNumbers
      /\ TypeOK /\ Holder /\ Queues /\ VoteMatchesWork /\ Gates /\ Halts /\ Faults
      BY TypeParts DEF IInv
<1>00. scene \in Scenes BY <1>0 DEF Holder
<1>1. ASSUME NEW c \in Contexts, QueueCmd(c) PROVE VoteMatchesWork' BY <1>1, <1>0 DEF VoteMatchesWork, QueueCmd
<1>2. ASSUME NEW c \in Contexts, QueueJob(c) PROVE VoteMatchesWork' BY <1>2, <1>0 DEF VoteMatchesWork, QueueJob, AddJob
<1>3. ASSUME NEW c \in Contexts, LeaveToWorker(c) PROVE VoteMatchesWork' BY <1>3, <1>0 DEF VoteMatchesWork, LeaveToWorker
<1>4. ASSUME NEW c \in Contexts, InlineStart(c) PROVE VoteMatchesWork' BY <1>4, <1>0 DEF VoteMatchesWork, InlineStart
<1>5. ASSUME NEW c \in Contexts, InlineDefer(c) PROVE VoteMatchesWork' BY <1>5, <1>0 DEF VoteMatchesWork, InlineDefer, InlineDefers
<1>6. ASSUME NEW c \in Contexts, QueueContext(c) PROVE VoteMatchesWork' BY <1>6, <1>0 DEF VoteMatchesWork, QueueContext, Reschedule, AddJob
<1>7. ASSUME NEW f \in Fenced, FenceFires(f) PROVE VoteMatchesWork' BY <1>7, <1>0 DEF VoteMatchesWork, FenceFires
<1>8. ASSUME IssueStart PROVE VoteMatchesWork' BY <1>8, <1>0 DEF VoteMatchesWork, IssueStart, TakeJobs, NoSend
<1>9. ASSUME LevelEnd PROVE VoteMatchesWork' BY <1>9, <1>0 DEF VoteMatchesWork, LevelEnd, TakeJobs, NoSend
<1>10. ASSUME DropJob PROVE VoteMatchesWork' BY <1>10, <1>0 DEF VoteMatchesWork, DropJob, NoSend
<1>11. ASSUME KeepJob PROVE VoteMatchesWork' BY <1>11, <1>0 DEF VoteMatchesWork, KeepJob, PutJobBack, NoSend
<1>12. ASSUME JobBusy PROVE VoteMatchesWork' BY <1>12, <1>0 DEF VoteMatchesWork, JobBusy, NoSend
<1>13. ASSUME StartContext PROVE VoteMatchesWork' BY <1>13, <1>0 DEF VoteMatchesWork, StartContext, NoSend
<1>14. ASSUME PopCmd PROVE VoteMatchesWork' BY <1>14, <1>0 DEF VoteMatchesWork, PopCmd
<1>15. ASSUME SendEnds PROVE VoteMatchesWork' BY <1>15, <1>0 DEF VoteMatchesWork, SendEnds, ContextEnd, NoSend
<1>16. ASSUME SendBlocked PROVE VoteMatchesWork' BY <1>16, <1>0 DEF VoteMatchesWork, SendBlocked, ContextEnd, NoSend
<1>17. ASSUME SubmitOk PROVE VoteMatchesWork'
  <2>1. SendOk(<<ctx, sent[ctx]>>) /\ UNCHANGED ipc BY <1>17 DEF SubmitOk
  <2>2. powered \in BOOLEAN /\ inflight \in Nat /\ cnt \in 0 .. 2 BY <1>0 DEF TypeFlags, TypeQueues, TypeNumbers
  <2>3. \/ UNCHANGED <<awake, powered, cnt>> /\ (inflight # 0 \/ powered)
        \/ ~powered /\ awake' = TRUE /\ powered' = TRUE /\ cnt' = cnt + 1
    <3>1. \/ /\ UNCHANGED <<awake, fault, pending, haltGate, powered, cnt>>
             /\ inflight # 0 \/ powered
          \/ /\ inflight = 0 /\ ~powered /\ awake /\ UNCHANGED <<awake, fault, pending, haltGate>>
             /\ powered' = TRUE /\ cnt' = cnt + 1
          \/ /\ inflight = 0 /\ ~powered /\ ~awake
             /\ awake' = TRUE /\ pending' = TRUE /\ haltGate' = TRUE
             /\ powered' = TRUE /\ cnt' = cnt + 1
          BY <2>1, <2>2, Zenon, GoodSend
    <3>2. awake = TRUE \/ awake = FALSE BY <1>0 DEF TypeFlags
    <3> QED BY <3>1, <3>2
  <2> QED BY <1>0, <2>1, <2>2, <2>3 DEF VoteMatchesWork
<1>18. ASSUME SubmitFails PROVE VoteMatchesWork' BY <1>18, <1>0 DEF VoteMatchesWork, SubmitFails, SendFails, SendNoPower, SendRefused, GetPower, NeedsPower, VoteAfterFailure, Halted, PutBackCmd, ContextEnd
<1>19. ASSUME SubmitHalted PROVE VoteMatchesWork' BY <1>19, <1>0 DEF VoteMatchesWork, SubmitHalted, SendHalted, PutBackCmd
<1>20. ASSUME WorkStart PROVE VoteMatchesWork' BY <1>20, <1>0 DEF VoteMatchesWork, WorkStart
<1>21. ASSUME RetireRing PROVE VoteMatchesWork'
  <2>1. inflight' = inflight - RetireCount(cmdq[at]) /\ UNCHANGED <<cnt, powered, ipc, awake>>
        BY <1>21 DEF RetireRing
  <2>2. RetireCount(cmdq[at]) \in 0 .. cmdq[at].inflight /\ at \in RingIds
        BY <1>21, <1>0, RetireRingQueues
  <2>3. cmdq[at].inflight \in Nat BY <1>0, <1>00, <2>2, InFlightFacts DEF Queues
  <2>4. inflight \in Nat BY <1>0 DEF TypeQueues
  <2>5. inflight' > 0 => inflight > 0 BY <2>1, <2>2, <2>3, <2>4
  <2> QED BY <1>0, <2>1, <2>5 DEF VoteMatchesWork
<1>22. ASSUME NoFault PROVE VoteMatchesWork' BY <1>22, <1>0 DEF VoteMatchesWork, NoFault
<1>23. ASSUME FaultDeferred PROVE VoteMatchesWork' BY <1>23, <1>0 DEF VoteMatchesWork, FaultDeferred
<1>24. ASSUME DoFault PROVE VoteMatchesWork' BY <1>24, <1>0 DEF VoteMatchesWork, DoFault, Survivors
<1>25. ASSUME RecoverRing PROVE VoteMatchesWork' BY <1>25, <1>0 DEF VoteMatchesWork, RecoverRing, SetGuilty
<1>26. ASSUME RecoverFails PROVE VoteMatchesWork' BY <1>26, <1>0 DEF VoteMatchesWork, RecoverFails, SetGuilty
<1>27. ASSUME ReplayOk PROVE VoteMatchesWork'
  <2>1. SendOk(Head(replay)) /\ UNCHANGED ipc BY <1>27 DEF ReplayOk
  <2>2. powered \in BOOLEAN /\ inflight \in Nat /\ cnt \in 0 .. 2 BY <1>0 DEF TypeFlags, TypeQueues, TypeNumbers
  <2>3. \/ UNCHANGED <<awake, powered, cnt>> /\ (inflight # 0 \/ powered)
        \/ ~powered /\ awake' = TRUE /\ powered' = TRUE /\ cnt' = cnt + 1
    <3>1. \/ /\ UNCHANGED <<awake, fault, pending, haltGate, powered, cnt>>
             /\ inflight # 0 \/ powered
          \/ /\ inflight = 0 /\ ~powered /\ awake /\ UNCHANGED <<awake, fault, pending, haltGate>>
             /\ powered' = TRUE /\ cnt' = cnt + 1
          \/ /\ inflight = 0 /\ ~powered /\ ~awake
             /\ awake' = TRUE /\ pending' = TRUE /\ haltGate' = TRUE
             /\ powered' = TRUE /\ cnt' = cnt + 1
          BY <2>1, <2>2, Zenon, GoodSend
    <3>2. awake = TRUE \/ awake = FALSE BY <1>0 DEF TypeFlags
    <3> QED BY <3>1, <3>2
  <2> QED BY <1>0, <2>1, <2>2, <2>3 DEF VoteMatchesWork
<1>28. ASSUME ReplayFails PROVE VoteMatchesWork' BY <1>28, <1>0 DEF VoteMatchesWork, ReplayFails, SendFails, SendNoPower, SendRefused, SendHalted, GetPower, NeedsPower, VoteAfterFailure, SetGuilty
<1>29. ASSUME RecoverEnd PROVE VoteMatchesWork' BY <1>29, <1>0 DEF VoteMatchesWork, RecoverEnd, RestoredHalt
<1>30. ASSUME Finish PROVE VoteMatchesWork' BY <1>30, <1>0 DEF VoteMatchesWork, Finish, PowerDown, KeepTimer, Idle
<1>31. ASSUME GpuRetires PROVE VoteMatchesWork' BY <1>31, <1>0 DEF VoteMatchesWork, GpuRetires, CpCallback
<1>32. ASSUME GpuHangs PROVE VoteMatchesWork' BY <1>32, <1>0 DEF VoteMatchesWork, GpuHangs
<1>33. ASSUME GpuResumes PROVE VoteMatchesWork' BY <1>33, <1>0 DEF VoteMatchesWork, GpuResumes
<1>34. ASSUME FaultIrq PROVE VoteMatchesWork' BY <1>34, <1>0 DEF VoteMatchesWork, FaultIrq
<1>35. ASSUME TimerFires PROVE VoteMatchesWork' BY <1>35, <1>0 DEF VoteMatchesWork, TimerFires
<1>36. ASSUME IdleCheck PROVE VoteMatchesWork' BY <1>36, <1>0 DEF VoteMatchesWork, IdleCheck, MaySlumber
<1>37. ASSUME IdleStart PROVE VoteMatchesWork' BY <1>37, <1>0 DEF VoteMatchesWork, IdleStart
<1>38. ASSUME IdleFlushed PROVE VoteMatchesWork' BY <1>38, <1>0 DEF VoteMatchesWork, IdleFlushed
<1>39. ASSUME IdleWaited PROVE VoteMatchesWork' BY <1>39, <1>0 DEF VoteMatchesWork, IdleWaited, GateOpen
<1>40. ASSUME IdleEnd PROVE VoteMatchesWork' BY <1>40, <1>0 DEF VoteMatchesWork, IdleEnd, IdleRequeues
<1>41. ASSUME SuspendPrepare PROVE VoteMatchesWork' BY <1>41, <1>0 DEF VoteMatchesWork, SuspendPrepare, MayPrepare
<1>42. ASSUME DrainStart PROVE VoteMatchesWork' BY <1>42, <1>0 DEF VoteMatchesWork, DrainStart
<1>43. ASSUME SuspendDenied PROVE VoteMatchesWork' BY <1>43, <1>0 DEF VoteMatchesWork, SuspendDenied
<1>44. ASSUME SuspendDone PROVE VoteMatchesWork' BY <1>44, <1>0 DEF VoteMatchesWork, SuspendDone, Drained
<1>45. ASSUME SuspendFails PROVE VoteMatchesWork' BY <1>45, <1>0 DEF VoteMatchesWork, SuspendFails, Drained
<1>46. ASSUME Resume PROVE VoteMatchesWork' BY <1>46, <1>0 DEF VoteMatchesWork, Resume, ResumeStarts
<1>47. ASSUME PostSuspend PROVE VoteMatchesWork' BY <1>47, <1>0 DEF VoteMatchesWork, PostSuspend, PostQueues
<1>48. ASSUME NEW r \in RingIds, Preempt(r) PROVE VoteMatchesWork' BY <1>48, <1>0 DEF VoteMatchesWork, Preempt
<1>49. ASSUME UNCHANGED vars PROVE VoteMatchesWork' BY <1>49, <1>0 DEF VoteMatchesWork, vars
<1> QED BY <1>1, <1>2, <1>3, <1>4, <1>5, <1>6, <1>7, <1>8, <1>9, <1>10, <1>11, <1>12, <1>13, <1>14, <1>15, <1>16, <1>17, <1>18, <1>19, <1>20, <1>21, <1>22, <1>23, <1>24, <1>25, <1>26, <1>27, <1>28, <1>29, <1>30, <1>31, <1>32, <1>33, <1>34, <1>35, <1>36, <1>37, <1>38, <1>39, <1>40, <1>41, <1>42, <1>43, <1>44, <1>45, <1>46, <1>47, <1>48, <1>49 DEF Next, Issue, Work

LEMMA HaltsStep ==
    ASSUME IInv, [Next]_vars
    PROVE  Halts'
<1>0. /\ TypeContexts /\ TypeJobs /\ TypeQueues /\ TypeFlags /\ TypeNumbers
      /\ TypeOK /\ Holder /\ Queues /\ VoteMatchesWork /\ Gates /\ Halts /\ Faults
      BY TypeParts DEF IInv
<1>00. scene \in Scenes BY <1>0 DEF Holder
<1>1. ASSUME NEW c \in Contexts, QueueCmd(c) PROVE Halts' BY <1>1, <1>0 DEF Halts, QueueCmd
<1>2. ASSUME NEW c \in Contexts, QueueJob(c) PROVE Halts' BY <1>2, <1>0 DEF Halts, QueueJob, AddJob
<1>3. ASSUME NEW c \in Contexts, LeaveToWorker(c) PROVE Halts' BY <1>3, <1>0 DEF Halts, LeaveToWorker
<1>4. ASSUME NEW c \in Contexts, InlineStart(c) PROVE Halts' BY <1>4, <1>0 DEF Halts, InlineStart
<1>5. ASSUME NEW c \in Contexts, InlineDefer(c) PROVE Halts' BY <1>5, <1>0 DEF Halts, InlineDefer, InlineDefers
<1>6. ASSUME NEW c \in Contexts, QueueContext(c) PROVE Halts' BY <1>6, <1>0 DEF Halts, QueueContext, Reschedule, AddJob
<1>7. ASSUME NEW f \in Fenced, FenceFires(f) PROVE Halts' BY <1>7, <1>0 DEF Halts, FenceFires
<1>8. ASSUME IssueStart PROVE Halts' BY <1>8, <1>0 DEF Halts, IssueStart, TakeJobs, NoSend
<1>9. ASSUME LevelEnd PROVE Halts' BY <1>9, <1>0 DEF Halts, LevelEnd, TakeJobs, NoSend
<1>10. ASSUME DropJob PROVE Halts' BY <1>10, <1>0 DEF Halts, DropJob, NoSend
<1>11. ASSUME KeepJob PROVE Halts' BY <1>11, <1>0 DEF Halts, KeepJob, PutJobBack, NoSend
<1>12. ASSUME JobBusy PROVE Halts' BY <1>12, <1>0 DEF Halts, JobBusy, NoSend
<1>13. ASSUME StartContext PROVE Halts' BY <1>13, <1>0 DEF Halts, StartContext, NoSend
<1>14. ASSUME PopCmd PROVE Halts' BY <1>14, <1>0 DEF Halts, PopCmd
<1>15. ASSUME SendEnds PROVE Halts' BY <1>15, <1>0 DEF Halts, SendEnds, ContextEnd, NoSend
<1>16. ASSUME SendBlocked PROVE Halts' BY <1>16, <1>0 DEF Halts, SendBlocked, ContextEnd, NoSend
<1>17. ASSUME SubmitOk PROVE Halts' BY <1>17, <1>0 DEF Halts, SubmitOk, SendOk, GetPower, NeedsPower, CloseGate, Halted
<1>18. ASSUME SubmitFails PROVE Halts' BY <1>18, <1>0 DEF Halts, SubmitFails, SendFails, SendNoPower, SendRefused, GetPower, NeedsPower, VoteAfterFailure, Halted, PutBackCmd, ContextEnd
<1>19. ASSUME SubmitHalted PROVE Halts' BY <1>19, <1>0 DEF Halts, SubmitHalted, SendHalted, PutBackCmd
<1>20. ASSUME WorkStart PROVE Halts' BY <1>20, <1>0 DEF Halts, WorkStart
<1>21. ASSUME RetireRing PROVE Halts' BY <1>21, <1>0 DEF Halts, RetireRing
<1>22. ASSUME NoFault PROVE Halts' BY <1>22, <1>0 DEF Halts, NoFault
<1>23. ASSUME FaultDeferred PROVE Halts' BY <1>23, <1>0 DEF Halts, FaultDeferred
<1>24. ASSUME DoFault PROVE Halts'
  <2>0. halt \in Nat /\ saved \in Nat /\ nidles \in Nat /\ nsuspends \in Nat
        BY <1>0, <1>00, SceneFacts DEF TypeNumbers
  <2>1. saved = 0 /\ saved' = halt /\ halt' = 0 /\ pm = "on"
        /\ UNCHANGED <<pm, ipc, nidles, nsuspends, awake>>
        BY <1>24, <1>0 DEF DoFault, Holder
  <2> QED BY <1>0, <2>0, <2>1 DEF Halts
<1>25. ASSUME RecoverRing PROVE Halts' BY <1>25, <1>0 DEF Halts, RecoverRing, SetGuilty
<1>26. ASSUME RecoverFails PROVE Halts' BY <1>26, <1>0 DEF Halts, RecoverFails, SetGuilty
<1>27. ASSUME ReplayOk PROVE Halts'
  <2>0. halt \in Nat /\ saved \in Nat /\ nidles \in Nat /\ nsuspends \in Nat
        BY <1>0, <1>00, SceneFacts DEF TypeNumbers
  <2>1. SendOk(Head(replay)) /\ UNCHANGED <<halt, saved, pm, ipc, nidles, nsuspends>>
        BY <1>27 DEF ReplayOk
  <2>2. powered \in BOOLEAN BY <1>0 DEF TypeFlags
  <2>3. halt = 0 BY <2>1, <2>2, GoodSend
  <2> QED BY <1>0, <2>0, <2>1, <2>3 DEF Halts
<1>28. ASSUME ReplayFails PROVE Halts'
  <2>0. halt \in Nat /\ saved \in Nat /\ nidles \in Nat /\ nsuspends \in Nat
        BY <1>0, <1>00, SceneFacts DEF TypeNumbers
  <2>1. (SendFails \/ SendHalted) /\ UNCHANGED <<halt, saved, pm, ipc, nidles, nsuspends>>
        BY <1>28 DEF ReplayFails
  <2>2. UNCHANGED awake \/ halt = 0 BY <2>1, Zenon, FailedSend
  <2> QED BY <1>0, <2>0, <2>1, <2>2 DEF Halts
<1>29. ASSUME RecoverEnd PROVE Halts'
  <2>0. halt \in Nat /\ saved \in Nat /\ nidles \in Nat /\ nsuspends \in Nat
        BY <1>0, <1>00, SceneFacts DEF TypeNumbers
  <2>1. halt' = halt + saved /\ saved' = 0 /\ UNCHANGED <<pm, ipc, nidles, nsuspends, awake>>
        BY <1>29 DEF RecoverEnd, RestoredHalt
  <2> QED BY <1>0, <2>0, <2>1 DEF Halts
<1>30. ASSUME Finish PROVE Halts' BY <1>30, <1>0 DEF Halts, Finish, PowerDown, KeepTimer, Idle
<1>31. ASSUME GpuRetires PROVE Halts' BY <1>31, <1>0 DEF Halts, GpuRetires, CpCallback
<1>32. ASSUME GpuHangs PROVE Halts' BY <1>32, <1>0 DEF Halts, GpuHangs
<1>33. ASSUME GpuResumes PROVE Halts' BY <1>33, <1>0 DEF Halts, GpuResumes
<1>34. ASSUME FaultIrq PROVE Halts' BY <1>34, <1>0 DEF Halts, FaultIrq
<1>35. ASSUME TimerFires PROVE Halts' BY <1>35, <1>0 DEF Halts, TimerFires
<1>36. ASSUME IdleCheck PROVE Halts' BY <1>36, <1>0 DEF Halts, IdleCheck, MaySlumber
<1>37. ASSUME IdleStart PROVE Halts'
  <2>0. halt \in Nat /\ saved \in Nat /\ nidles \in Nat /\ nsuspends \in Nat
        BY <1>0, <1>00, SceneFacts DEF TypeNumbers
  <2>1. awake /\ halt' = halt + 1 /\ nidles' = nidles + 1 /\ UNCHANGED <<pm, saved, nsuspends, awake>>
        BY <1>37 DEF IdleStart
  <2> QED BY <1>0, <2>0, <2>1 DEF Halts
<1>38. ASSUME IdleFlushed PROVE Halts' BY <1>38, <1>0 DEF Halts, IdleFlushed
<1>39. ASSUME IdleWaited PROVE Halts' BY <1>39, <1>0 DEF Halts, IdleWaited, GateOpen
<1>40. ASSUME IdleEnd PROVE Halts'
  <2>0. halt \in Nat /\ saved \in Nat /\ nidles \in Nat /\ nsuspends \in Nat
        BY <1>0, <1>00, SceneFacts DEF TypeNumbers
  <2>1. halt' = (IF halt > 0 THEN halt - 1 ELSE 0) /\ ipc = "relock" /\ ipc' = "idle"
        /\ UNCHANGED <<pm, saved, nidles, nsuspends, awake>>
        BY <1>40 DEF IdleEnd
  <2>2. pm # "suspended" BY <1>0, <2>1 DEF Halts
  <2> QED BY <1>0, <2>0, <2>1, <2>2 DEF Halts
<1>41. ASSUME SuspendPrepare PROVE Halts'
  <2>0. halt \in Nat /\ saved \in Nat /\ nidles \in Nat /\ nsuspends \in Nat
        BY <1>0, <1>00, SceneFacts DEF TypeNumbers
  <2>1. pm = "on" /\ pm' \in {"prepared", "on"} /\ nsuspends' = nsuspends + 1
        /\ UNCHANGED <<ipc, saved, halt, nidles, awake>>
        BY <1>41 DEF SuspendPrepare
  <2> QED BY <1>0, <2>0, <2>1 DEF Halts
<1>42. ASSUME DrainStart PROVE Halts' BY <1>42, <1>0 DEF Halts, DrainStart
<1>43. ASSUME SuspendDenied PROVE Halts'
  <2>0. halt \in Nat /\ saved \in Nat /\ nidles \in Nat /\ nsuspends \in Nat
        BY <1>0, <1>00, SceneFacts DEF TypeNumbers
  <2>1. pm \in {"prepared", "draining"} /\ pm' = "resumed"
        /\ UNCHANGED <<ipc, saved, halt, nidles, nsuspends, awake>>
        BY <1>43 DEF SuspendDenied
  <2> QED BY <1>0, <2>0, <2>1 DEF Halts
<1>44. ASSUME SuspendDone PROVE Halts'
  <2>0. halt \in Nat /\ saved \in Nat /\ nidles \in Nat /\ nsuspends \in Nat
        BY <1>0, <1>00, SceneFacts DEF TypeNumbers
  <2>1. pm = "draining" /\ pm' = "suspended" /\ cnt = 0 /\ awake' = FALSE /\ halt' = halt + 1
        /\ UNCHANGED <<ipc, saved, nidles, nsuspends>>
        BY <1>44 DEF SuspendDone, Drained
  <2>2. ipc = "idle" BY <1>0, <2>1 DEF VoteMatchesWork
  <2> QED BY <1>0, <2>0, <2>1, <2>2 DEF Halts
<1>45. ASSUME SuspendFails PROVE Halts'
  <2>0. halt \in Nat /\ saved \in Nat /\ nidles \in Nat /\ nsuspends \in Nat
        BY <1>0, <1>00, SceneFacts DEF TypeNumbers
  <2>1. pm \in {"prepared", "draining"} /\ pm' = "resumed"
        /\ UNCHANGED <<ipc, saved, halt, nidles, nsuspends, awake>>
        BY <1>45 DEF SuspendFails
  <2> QED BY <1>0, <2>0, <2>1 DEF Halts
<1>46. ASSUME Resume PROVE Halts'
  <2>0. halt \in Nat /\ saved \in Nat /\ nidles \in Nat /\ nsuspends \in Nat
        BY <1>0, <1>00, SceneFacts DEF TypeNumbers
  <2>1. pm = "suspended" /\ pm' = "resumed" /\ halt' = (IF halt > 0 THEN halt - 1 ELSE 0)
        /\ UNCHANGED <<ipc, saved, nidles, nsuspends, awake>>
        BY <1>46 DEF Resume
  <2>2. ipc = "idle" BY <1>0, <2>1 DEF Halts
  <2> QED BY <1>0, <2>0, <2>1, <2>2 DEF Halts
<1>47. ASSUME PostSuspend PROVE Halts' BY <1>47, <1>0 DEF Halts, PostSuspend, PostQueues
<1>48. ASSUME NEW r \in RingIds, Preempt(r) PROVE Halts' BY <1>48, <1>0 DEF Halts, Preempt
<1>49. ASSUME UNCHANGED vars PROVE Halts' BY <1>49, <1>0 DEF Halts, vars
<1> QED BY <1>1, <1>2, <1>3, <1>4, <1>5, <1>6, <1>7, <1>8, <1>9, <1>10, <1>11, <1>12, <1>13, <1>14, <1>15, <1>16, <1>17, <1>18, <1>19, <1>20, <1>21, <1>22, <1>23, <1>24, <1>25, <1>26, <1>27, <1>28, <1>29, <1>30, <1>31, <1>32, <1>33, <1>34, <1>35, <1>36, <1>37, <1>38, <1>39, <1>40, <1>41, <1>42, <1>43, <1>44, <1>45, <1>46, <1>47, <1>48, <1>49 DEF Next, Issue, Work

LEMMA FaultsStep ==
    ASSUME IInv, [Next]_vars
    PROVE  Faults'
<1>0. /\ TypeContexts /\ TypeJobs /\ TypeQueues /\ TypeFlags /\ TypeNumbers
      /\ TypeOK /\ Holder /\ Queues /\ VoteMatchesWork /\ Gates /\ Halts /\ Faults
      BY TypeParts DEF IInv
<1>00. scene \in Scenes BY <1>0 DEF Holder
<1>1. ASSUME NEW c \in Contexts, QueueCmd(c) PROVE Faults' BY <1>1, <1>0 DEF Faults, QueueCmd
<1>2. ASSUME NEW c \in Contexts, QueueJob(c) PROVE Faults' BY <1>2, <1>0 DEF Faults, QueueJob, AddJob
<1>3. ASSUME NEW c \in Contexts, LeaveToWorker(c) PROVE Faults' BY <1>3, <1>0 DEF Faults, LeaveToWorker
<1>4. ASSUME NEW c \in Contexts, InlineStart(c) PROVE Faults'
  <2>1. mutex = "none" /\ step' = "issue" /\ UNCHANGED <<fault, awake, pending, pm, haltGate>> BY <1>4 DEF InlineStart
  <2>2. step = "idle" BY <1>0, <2>1 DEF Holder
  <2> QED BY <1>0, <2>1, <2>2 DEF Faults
<1>5. ASSUME NEW c \in Contexts, InlineDefer(c) PROVE Faults' BY <1>5, <1>0 DEF Faults, InlineDefer, InlineDefers
<1>6. ASSUME NEW c \in Contexts, QueueContext(c) PROVE Faults' BY <1>6, <1>0 DEF Faults, QueueContext, Reschedule, AddJob
<1>7. ASSUME NEW f \in Fenced, FenceFires(f) PROVE Faults' BY <1>7, <1>0 DEF Faults, FenceFires
<1>8. ASSUME IssueStart PROVE Faults' BY <1>8, <1>0 DEF Faults, IssueStart, TakeJobs, NoSend
<1>9. ASSUME LevelEnd PROVE Faults' BY <1>9, <1>0 DEF Faults, LevelEnd, TakeJobs, NoSend
<1>10. ASSUME DropJob PROVE Faults' BY <1>10, <1>0 DEF Faults, DropJob, NoSend
<1>11. ASSUME KeepJob PROVE Faults' BY <1>11, <1>0 DEF Faults, KeepJob, PutJobBack, NoSend
<1>12. ASSUME JobBusy PROVE Faults' BY <1>12, <1>0 DEF Faults, JobBusy, NoSend
<1>13. ASSUME StartContext PROVE Faults' BY <1>13, <1>0 DEF Faults, StartContext, NoSend
<1>14. ASSUME PopCmd PROVE Faults' BY <1>14, <1>0 DEF Faults, PopCmd
<1>15. ASSUME SendEnds PROVE Faults' BY <1>15, <1>0 DEF Faults, SendEnds, ContextEnd, NoSend
<1>16. ASSUME SendBlocked PROVE Faults' BY <1>16, <1>0 DEF Faults, SendBlocked, ContextEnd, NoSend
<1>17. ASSUME SubmitOk PROVE Faults' BY <1>17, <1>0 DEF Faults, SubmitOk, SendOk, GetPower, NeedsPower, CloseGate, Halted
<1>18. ASSUME SubmitFails PROVE Faults' BY <1>18, <1>0 DEF Faults, SubmitFails, SendFails, SendNoPower, SendRefused, GetPower, NeedsPower, VoteAfterFailure, Halted, PutBackCmd, ContextEnd
<1>19. ASSUME SubmitHalted PROVE Faults' BY <1>19, <1>0 DEF Faults, SubmitHalted, SendHalted, PutBackCmd
<1>20. ASSUME WorkStart PROVE Faults' BY <1>20, <1>0 DEF Faults, WorkStart
<1>21. ASSUME RetireRing PROVE Faults' BY <1>21, <1>0 DEF Faults, RetireRing
<1>22. ASSUME NoFault PROVE Faults' BY <1>22, <1>0 DEF Faults, NoFault
<1>23. ASSUME FaultDeferred PROVE Faults' BY <1>23, <1>0 DEF Faults, FaultDeferred
<1>24. ASSUME DoFault PROVE Faults' BY <1>24, <1>0 DEF Faults, DoFault, Survivors
<1>25. ASSUME RecoverRing PROVE Faults' BY <1>25, <1>0 DEF Faults, RecoverRing, SetGuilty
<1>26. ASSUME RecoverFails PROVE Faults' BY <1>26, <1>0 DEF Faults, RecoverFails, SetGuilty
<1>27. ASSUME ReplayOk PROVE Faults' BY <1>27, <1>0 DEF Faults, ReplayOk, SendOk, GetPower, NeedsPower, CloseGate
<1>28. ASSUME ReplayFails PROVE Faults' BY <1>28, <1>0 DEF Faults, ReplayFails, SendFails, SendNoPower, SendRefused, SendHalted, GetPower, NeedsPower, VoteAfterFailure, SetGuilty
<1>29. ASSUME RecoverEnd PROVE Faults' BY <1>29, <1>0 DEF Faults, RecoverEnd, RestoredHalt
<1>30. ASSUME Finish PROVE Faults' BY <1>30, <1>0 DEF Faults, Finish, PowerDown, KeepTimer, Idle
<1>31. ASSUME GpuRetires PROVE Faults' BY <1>31, <1>0 DEF Faults, GpuRetires, CpCallback
<1>32. ASSUME GpuHangs PROVE Faults' BY <1>32, <1>0 DEF Faults, GpuHangs
<1>33. ASSUME GpuResumes PROVE Faults' BY <1>33, <1>0 DEF Faults, GpuResumes
<1>34. ASSUME FaultIrq PROVE Faults' BY <1>34, <1>0 DEF Faults, FaultIrq
<1>35. ASSUME TimerFires PROVE Faults' BY <1>35, <1>0 DEF Faults, TimerFires
<1>36. ASSUME IdleCheck PROVE Faults' BY <1>36, <1>0 DEF Faults, IdleCheck, MaySlumber
<1>37. ASSUME IdleStart PROVE Faults' BY <1>37, <1>0 DEF Faults, IdleStart
<1>38. ASSUME IdleFlushed PROVE Faults' BY <1>38, <1>0 DEF Faults, IdleFlushed
<1>39. ASSUME IdleWaited PROVE Faults' BY <1>39, <1>0 DEF Faults, IdleWaited, GateOpen
<1>40. ASSUME IdleEnd PROVE Faults' BY <1>40, <1>0 DEF Faults, IdleEnd, IdleRequeues
<1>41. ASSUME SuspendPrepare PROVE Faults' BY <1>41, <1>0 DEF Faults, SuspendPrepare, MayPrepare
<1>42. ASSUME DrainStart PROVE Faults' BY <1>42, <1>0 DEF Faults, DrainStart
<1>43. ASSUME SuspendDenied PROVE Faults' BY <1>43, <1>0 DEF Faults, SuspendDenied
<1>44. ASSUME SuspendDone PROVE Faults' BY <1>44, <1>0 DEF Faults, SuspendDone, Drained
<1>45. ASSUME SuspendFails PROVE Faults' BY <1>45, <1>0 DEF Faults, SuspendFails, Drained
<1>46. ASSUME Resume PROVE Faults' BY <1>46, <1>0 DEF Faults, Resume, ResumeStarts
<1>47. ASSUME PostSuspend PROVE Faults' BY <1>47, <1>0 DEF Faults, PostSuspend, PostQueues
<1>48. ASSUME NEW r \in RingIds, Preempt(r) PROVE Faults' BY <1>48, <1>0 DEF Faults, Preempt
<1>49. ASSUME UNCHANGED vars PROVE Faults' BY <1>49, <1>0 DEF Faults, vars
<1> QED BY <1>1, <1>2, <1>3, <1>4, <1>5, <1>6, <1>7, <1>8, <1>9, <1>10, <1>11, <1>12, <1>13, <1>14, <1>15, <1>16, <1>17, <1>18, <1>19, <1>20, <1>21, <1>22, <1>23, <1>24, <1>25, <1>26, <1>27, <1>28, <1>29, <1>30, <1>31, <1>32, <1>33, <1>34, <1>35, <1>36, <1>37, <1>38, <1>39, <1>40, <1>41, <1>42, <1>43, <1>44, <1>45, <1>46, <1>47, <1>48, <1>49 DEF Next, Issue, Work

LEMMA GatesStep ==
    ASSUME IInv, [Next]_vars
    PROVE  Gates'
<1>0. /\ TypeContexts /\ TypeJobs /\ TypeQueues /\ TypeFlags /\ TypeNumbers
      /\ TypeOK /\ Holder /\ Queues /\ VoteMatchesWork /\ Gates /\ Halts /\ Faults
      BY TypeParts DEF IInv
<1>00. scene \in Scenes BY <1>0 DEF Holder
<1>1. ASSUME NEW c \in Contexts, QueueCmd(c) PROVE Gates' BY <1>1, <1>0 DEF Gates, RingIds, QueueCmd
<1>2. ASSUME NEW c \in Contexts, QueueJob(c) PROVE Gates' BY <1>2, <1>0 DEF Gates, RingIds, QueueJob, AddJob
<1>3. ASSUME NEW c \in Contexts, LeaveToWorker(c) PROVE Gates' BY <1>3, <1>0 DEF Gates, RingIds, LeaveToWorker
<1>4. ASSUME NEW c \in Contexts, InlineStart(c) PROVE Gates' BY <1>4, <1>0 DEF Gates, RingIds, InlineStart
<1>5. ASSUME NEW c \in Contexts, InlineDefer(c) PROVE Gates' BY <1>5, <1>0 DEF Gates, RingIds, InlineDefer, InlineDefers
<1>6. ASSUME NEW c \in Contexts, QueueContext(c) PROVE Gates' BY <1>6, <1>0 DEF Gates, RingIds, QueueContext, Reschedule, AddJob
<1>7. ASSUME NEW f \in Fenced, FenceFires(f) PROVE Gates' BY <1>7, <1>0 DEF Gates, RingIds, FenceFires
<1>8. ASSUME IssueStart PROVE Gates' BY <1>8, <1>0 DEF Gates, RingIds, IssueStart, TakeJobs, NoSend
<1>9. ASSUME LevelEnd PROVE Gates' BY <1>9, <1>0 DEF Gates, RingIds, LevelEnd, TakeJobs, NoSend
<1>10. ASSUME DropJob PROVE Gates' BY <1>10, <1>0 DEF Gates, RingIds, DropJob, NoSend
<1>11. ASSUME KeepJob PROVE Gates' BY <1>11, <1>0 DEF Gates, RingIds, KeepJob, PutJobBack, NoSend
<1>12. ASSUME JobBusy PROVE Gates' BY <1>12, <1>0 DEF Gates, RingIds, JobBusy, NoSend
<1>13. ASSUME StartContext PROVE Gates' BY <1>13, <1>0 DEF Gates, RingIds, StartContext, NoSend
<1>14. ASSUME PopCmd PROVE Gates' BY <1>14, <1>0 DEF Gates, RingIds, PopCmd
<1>15. ASSUME SendEnds PROVE Gates' BY <1>15, <1>0 DEF Gates, RingIds, SendEnds, ContextEnd, NoSend
<1>16. ASSUME SendBlocked PROVE Gates' BY <1>16, <1>0 DEF Gates, RingIds, SendBlocked, ContextEnd, NoSend
<1>17. ASSUME SubmitOk PROVE Gates'
  <2>1. SendOk(<<ctx, sent[ctx]>>) /\ step = "submit" /\ UNCHANGED <<replay, ipc, ires>> BY <1>17 DEF SubmitOk
  <2>2. powered \in BOOLEAN /\ active \in BOOLEAN BY <1>0 DEF TypeFlags
  <2>3. halt = 0 /\ active' = (active \/ inflight = 0) /\ gate' = (gate /\ ~(inflight = 0 /\ ~active))
        BY <2>1, <2>2, GoodSend
  <2>4. saved = 0 /\ todo = << >> BY <1>0, <2>1 DEF Holder
  <2>5. ipc = "idle" BY <1>0, <2>3, <2>4 DEF Halts
  <2>6. active'
    <3>1. CASE inflight = 0 BY <2>3, <3>1
    <3>2. CASE inflight # 0
      <4>1. PICK r \in RingIds : cmdq[r].inflight # 0 BY <1>0, <1>00, <3>2, NothingInFlight
      <4>2. cmdq[r].inflight > 0 BY <1>0, <1>00, <4>1, InFlightFacts DEF Queues
      <4>3. active BY <1>0, <4>2 DEF Gates
      <4> QED BY <2>3, <4>3
    <3> QED BY <3>1, <3>2
  <2>7. gate' = ~active' BY <1>0, <2>2, <2>3 DEF Gates
  <2> QED BY <2>1, <2>5, <2>6, <2>7 DEF Gates
<1>18. ASSUME SubmitFails PROVE Gates' BY <1>18, <1>0 DEF Gates, RingIds, SubmitFails, SendFails, SendNoPower, SendRefused, GetPower, NeedsPower, VoteAfterFailure, Halted, PutBackCmd, ContextEnd
<1>19. ASSUME SubmitHalted PROVE Gates' BY <1>19, <1>0 DEF Gates, RingIds, SubmitHalted, SendHalted, PutBackCmd
<1>20. ASSUME WorkStart PROVE Gates' BY <1>20, <1>0 DEF Gates, RingIds, WorkStart
<1>21. ASSUME RetireRing PROVE Gates'
  <2>1. UNCHANGED <<gate, active, replay, ipc, ires, scene>> /\ at \in RingIds
        BY <1>21, <1>0 DEF RetireRing, Holder
  <2>2. /\ RetireCount(cmdq[at]) \in 0 .. cmdq[at].inflight
        /\ cmdq'[at] = Dequeue(cmdq[at], RetireCount(cmdq[at]))
        /\ \A q \in RingIds : q # at => cmdq'[q] = cmdq[q]
        BY <1>21, <1>0, RetireRingQueues
  <2>3. cmdq'[at].inflight = cmdq[at].inflight - RetireCount(cmdq[at]) BY <2>2 DEF Dequeue
  <2>4. \A q \in RingIds : cmdq[q].inflight \in Nat BY <1>0, <1>00, InFlightFacts DEF Queues
  <2>5. cmdq'[at].inflight \in Nat /\ cmdq'[at].inflight <= cmdq[at].inflight
    <3> DEFINE n == RetireCount(cmdq[at])
               m == cmdq[at].inflight
    <3>1. n \in 0 .. m /\ m \in Nat BY <2>1, <2>2, <2>4
    <3>2. cmdq'[at].inflight = m - n BY <2>3
    <3> HIDE DEF n, m
    <3>3. m - n \in Nat /\ m - n <= m BY <3>1
    <3> QED BY <3>2, <3>3 DEF m
  <2>6. \A q \in RingIds : /\ cmdq'[q].inflight > 0 => cmdq[q].inflight > 0
                           /\ cmdq[q].inflight = 0 => cmdq'[q].inflight = 0
        BY <2>1, <2>2, <2>4, <2>5
  <2> QED BY <1>0, <2>1, <2>6 DEF Gates, RingIds
<1>22. ASSUME NoFault PROVE Gates' BY <1>22, <1>0 DEF Gates, RingIds, NoFault
<1>23. ASSUME FaultDeferred PROVE Gates' BY <1>23, <1>0 DEF Gates, RingIds, FaultDeferred
<1>24. ASSUME DoFault PROVE Gates'
  <2>1. UNCHANGED <<gate, active, replay, ipc, ires, scene>> BY <1>24 DEF DoFault
  <2>2. \A q \in RingIds : /\ cmdq'[q] = Dequeue(cmdq[q], RetireCount(cmdq[q]))
                           /\ RetireCount(cmdq[q]) \in 0 .. cmdq[q].inflight
        BY <1>24, <1>0, DoFaultQueues
  <2>3. \A q \in RingIds : cmdq[q].inflight \in Nat BY <1>0, <1>00, InFlightFacts DEF Queues
  <2>4. ASSUME NEW q \in RingIds
        PROVE  /\ cmdq'[q].inflight > 0 => cmdq[q].inflight > 0
               /\ cmdq[q].inflight = 0 => cmdq'[q].inflight = 0
    <3>0. cmdq'[q].inflight = cmdq[q].inflight - RetireCount(cmdq[q])
      <4>1. cmdq'[q] = Dequeue(cmdq[q], RetireCount(cmdq[q])) BY <2>2
      <4> QED BY <4>1 DEF Dequeue
    <3> DEFINE n == RetireCount(cmdq[q])
               m == cmdq[q].inflight
    <3>1. n \in 0 .. m /\ m \in Nat BY <2>2, <2>3
    <3>2. cmdq'[q].inflight = m - n BY <3>0
    <3> HIDE DEF n, m
    <3>3. m \in Nat /\ n \in Nat /\ n <= m BY <3>1
    <3>4. (m - n > 0 => m > 0) /\ (m = 0 => m - n = 0) BY ONLY <3>3
    <3> QED BY <3>2, <3>4 DEF m
  <2> QED BY <1>0, <2>1, <2>4 DEF Gates, RingIds
<1>25. ASSUME RecoverRing PROVE Gates'
  <2> DEFINE r == Head(todo)
  <2>1. UNCHANGED <<gate, active, ipc, ires, scene>> BY <1>25 DEF RecoverRing
  <2>2. /\ r \in RingIds /\ cmdq'[r].inflight = 0 /\ \A q \in RingIds : q # r => cmdq'[q] = cmdq[q]
        /\ replay = << >> /\ replay' = Replayed(Entries(cmdq[r]), bad')
        /\ Entries(cmdq[r]) \in Seq(Commands)
        BY <1>25, <1>0, RecoverRingQueues DEF IInv
  <2>3. replay' # << >> => cmdq[r].inflight > 0
    <3> DEFINE e == Entries(cmdq[r])
    <3>1. e \in Seq(Commands) BY <2>2
    <3>2. Len(e) = cmdq[r].inflight /\ cmdq[r].inflight \in Nat
          BY <1>0, <1>00, <2>2, SceneFacts, QueueFacts, InFlightFacts DEF Queues
    <3> HIDE DEF e
    <3>3. Replayed(e, bad') \in Seq(Commands) /\ Len(Replayed(e, bad')) <= Len(e)
          BY <3>1, ReplayedFacts
    <3>4. Len(e) = 0 => Replayed(e, bad') = << >>
      <4>1. Len(e) = 0 => Len(Replayed(e, bad')) = 0 BY <3>3
      <4> QED BY <3>3, <4>1, EmptySeq
    <3>5. replay' = Replayed(e, bad') BY <2>2 DEF e
    <3> QED BY <3>2, <3>4, <3>5
  <2> HIDE DEF r
  <2>4. \A q \in RingIds : /\ cmdq'[q].inflight > 0 => cmdq[q].inflight > 0
                           /\ cmdq[q].inflight = 0 => cmdq'[q].inflight = 0
        BY <2>2
  <2>5. cmdq[r].inflight > 0 => active BY <1>0, <2>2 DEF Gates
  <2>6. ipc = "relock" /\ ires = "idle" => ~(cmdq[r].inflight > 0) BY <1>0, <2>2 DEF Gates
  <2> QED BY <1>0, <2>1, <2>2, <2>3, <2>4, <2>5, <2>6 DEF Gates, RingIds
<1>26. ASSUME RecoverFails PROVE Gates'
  <2> DEFINE r == Head(todo)
  <2>1. UNCHANGED <<gate, active, ipc, ires, scene>> BY <1>26 DEF RecoverFails
  <2>2. /\ r \in RingIds /\ cmdq'[r].inflight = 0 /\ \A q \in RingIds : q # r => cmdq'[q] = cmdq[q]
        /\ replay = << >> /\ replay' = << >>
        BY <1>26, <1>0, RecoverFailsQueues
  <2> HIDE DEF r
  <2> QED BY <1>0, <2>1, <2>2 DEF Gates, RingIds
<1>27. ASSUME ReplayOk PROVE Gates'
  <2>1. SendOk(Head(replay)) /\ replay # << >> /\ UNCHANGED <<ipc, ires>> BY <1>27 DEF ReplayOk
  <2>2. powered \in BOOLEAN /\ active \in BOOLEAN BY <1>0 DEF TypeFlags
  <2>3. active' = (active \/ inflight = 0) /\ gate' = (gate /\ ~(inflight = 0 /\ ~active))
        BY <2>1, <2>2, GoodSend
  <2>4. active /\ ~(ipc = "relock" /\ ires = "idle") BY <1>0, <2>1 DEF Gates
  <2>5. active' BY <2>3, <2>4
  <2>6. gate' = ~active' BY <1>0, <2>2, <2>3 DEF Gates
  <2> QED BY <2>1, <2>4, <2>5, <2>6 DEF Gates
<1>28. ASSUME ReplayFails PROVE Gates' BY <1>28, <1>0 DEF Gates, RingIds, ReplayFails, SendFails, SendNoPower, SendRefused, SendHalted, GetPower, NeedsPower, VoteAfterFailure, SetGuilty
<1>29. ASSUME RecoverEnd PROVE Gates' BY <1>29, <1>0 DEF Gates, RingIds, RecoverEnd, RestoredHalt
<1>30. ASSUME Finish PROVE Gates'
  <2>1. step = "finish" /\ UNCHANGED <<scene, cmdq, replay, ipc, ires>> BY <1>30 DEF Finish
  <2>2. \/ UNCHANGED <<active, gate>>
        \/ inflight = 0 /\ active' = FALSE /\ gate' = (gate \/ active)
        BY <1>30 DEF Finish, Idle, PowerDown
  <2>3. inflight = 0 => replay = << >> /\ \A r \in RingIds : cmdq[r].inflight = 0
        BY <1>0, <1>00, <2>1, NothingInFlight, NoneRecovering DEF Holder
  <2>4. gate \in BOOLEAN /\ active \in BOOLEAN BY <1>0 DEF TypeFlags
  <2>5. gate' = ~active' BY <1>0, <2>2, <2>4 DEF Gates
  <2>6. replay' # << >> \/ (\E r \in RingIds : cmdq'[r].inflight > 0) => active'
        BY <1>0, <2>1, <2>2, <2>3 DEF Gates
  <2> QED BY <1>0, <2>1, <2>5, <2>6 DEF Gates, RingIds
<1>31. ASSUME GpuRetires PROVE Gates' BY <1>31, <1>0 DEF Gates, RingIds, GpuRetires, CpCallback
<1>32. ASSUME GpuHangs PROVE Gates' BY <1>32, <1>0 DEF Gates, RingIds, GpuHangs
<1>33. ASSUME GpuResumes PROVE Gates' BY <1>33, <1>0 DEF Gates, RingIds, GpuResumes
<1>34. ASSUME FaultIrq PROVE Gates' BY <1>34, <1>0 DEF Gates, RingIds, FaultIrq
<1>35. ASSUME TimerFires PROVE Gates' BY <1>35, <1>0 DEF Gates, RingIds, TimerFires
<1>36. ASSUME IdleCheck PROVE Gates' BY <1>36, <1>0 DEF Gates, RingIds, IdleCheck, MaySlumber
<1>37. ASSUME IdleStart PROVE Gates' BY <1>37, <1>0 DEF Gates, RingIds, IdleStart
<1>38. ASSUME IdleFlushed PROVE Gates' BY <1>38, <1>0 DEF Gates, RingIds, IdleFlushed
<1>39. ASSUME IdleWaited PROVE Gates'
  <2>1. ipc = "wait" /\ UNCHANGED <<scene, gate, active, cmdq, replay>> /\ (ires' = "idle" => gate)
        BY <1>39 DEF IdleWaited, GateOpen
  <2>2. \A r \in RingIds : cmdq[r].inflight \in Nat BY <1>0, <1>00, InFlightFacts DEF Queues
  <2>3. gate => replay = << >> /\ \A r \in RingIds : cmdq[r].inflight = 0
    <3>1. gate => ~active BY <1>0 DEF Gates, TypeFlags
    <3>2. ~active => replay = << >> /\ \A r \in RingIds : ~(cmdq[r].inflight > 0) BY <1>0 DEF Gates
    <3> QED BY <2>2, <3>1, <3>2
  <2> QED BY <1>0, <2>1, <2>3 DEF Gates, RingIds
<1>40. ASSUME IdleEnd PROVE Gates' BY <1>40, <1>0 DEF Gates, RingIds, IdleEnd, IdleRequeues
<1>41. ASSUME SuspendPrepare PROVE Gates' BY <1>41, <1>0 DEF Gates, RingIds, SuspendPrepare, MayPrepare
<1>42. ASSUME DrainStart PROVE Gates' BY <1>42, <1>0 DEF Gates, RingIds, DrainStart
<1>43. ASSUME SuspendDenied PROVE Gates' BY <1>43, <1>0 DEF Gates, RingIds, SuspendDenied
<1>44. ASSUME SuspendDone PROVE Gates' BY <1>44, <1>0 DEF Gates, RingIds, SuspendDone, Drained
<1>45. ASSUME SuspendFails PROVE Gates' BY <1>45, <1>0 DEF Gates, RingIds, SuspendFails, Drained
<1>46. ASSUME Resume PROVE Gates' BY <1>46, <1>0 DEF Gates, RingIds, Resume, ResumeStarts
<1>47. ASSUME PostSuspend PROVE Gates' BY <1>47, <1>0 DEF Gates, RingIds, PostSuspend, PostQueues
<1>48. ASSUME NEW r \in RingIds, Preempt(r) PROVE Gates' BY <1>48, <1>0 DEF Gates, RingIds, Preempt
<1>49. ASSUME UNCHANGED vars PROVE Gates' BY <1>49, <1>0 DEF Gates, vars, RingIds
<1> QED BY <1>1, <1>2, <1>3, <1>4, <1>5, <1>6, <1>7, <1>8, <1>9, <1>10, <1>11, <1>12, <1>13, <1>14, <1>15, <1>16, <1>17, <1>18, <1>19, <1>20, <1>21, <1>22, <1>23, <1>24, <1>25, <1>26, <1>27, <1>28, <1>29, <1>30, <1>31, <1>32, <1>33, <1>34, <1>35, <1>36, <1>37, <1>38, <1>39, <1>40, <1>41, <1>42, <1>43, <1>44, <1>45, <1>46, <1>47, <1>48, <1>49 DEF Next, Issue, Work

(* How a queue and a ringbuffer agree after a command is sent, ...          *)
LEMMA PushAgree ==
    ASSUME NEW e \in Seq(Commands), NEW h \in Seq(Commands), NEW x \in Commands, NEW ret,
           Agree(e, h), Over(ret, e, h)
    PROVE  Agree(Append(e, x), Append(h, x)) /\ Over(ret, Append(e, x), Append(h, x))
<1> DEFINE m == Len(e)
           n == Len(h)
           d == Append(e, x)
           g == Append(h, x)
<1>1. /\ m \in Nat /\ n \in Nat /\ Len(d) = m + 1 /\ Len(g) = n + 1
      /\ d[m + 1] = x /\ g[n + 1] = x
      /\ \A k \in 1 .. m : d[k] = e[k]
      /\ \A k \in 1 .. n : g[k] = h[k]
      BY AppendProperties, LenProperties
<1> HIDE DEF m, n, d, g
<1>2. Agree(d, g)
  <2>0. SUFFICES ASSUME NEW i \in 0 .. Len(d) - 1, i < Len(g)
                 PROVE  d[Len(d) - i] = g[Len(g) - i]
      BY DEF Agree
  <2>1. m \in Nat /\ n \in Nat /\ Len(d) = m + 1 /\ Len(g) = n + 1 BY <1>1
  <2>2. i \in Nat /\ i <= m /\ i < n + 1 BY ONLY <2>0, <2>1
  <2>3. CASE i = 0 BY <1>1, <2>1, <2>3
  <2>4. CASE i # 0
    <3>1. /\ i - 1 \in 0 .. m - 1 /\ i - 1 < n /\ m + 1 - i \in 1 .. m /\ n + 1 - i \in 1 .. n
          /\ m - (i - 1) = m + 1 - i /\ n - (i - 1) = n + 1 - i
          BY ONLY <2>1, <2>2, <2>4
    <3>2. e[m - (i - 1)] = h[n - (i - 1)] BY <3>1 DEF Agree, m, n
    <3>3. d[m + 1 - i] = e[m + 1 - i] /\ g[n + 1 - i] = h[n + 1 - i] BY <1>1, <3>1
    <3> QED BY SMTT(30), ZenonT(30), <2>1, <3>1, <3>2, <3>3
  <2> QED BY <2>3, <2>4
<1>3. Over(ret, d, g)
  <2> SUFFICES ASSUME NEW k \in 1 .. m + 1, k <= m + 1 - (n + 1) PROVE ret[d[k][1]] >= d[k][2]
      BY <1>1 DEF Over
  <2>1. k \in 1 .. m /\ k <= m - n BY <1>1
  <2>2. ret[e[k][1]] >= e[k][2] BY <2>1 DEF Over, m, n
  <2> QED BY <1>1, <2>1, <2>2
<1> QED BY <1>2, <1>3 DEF d, g

(* ... after the GPU ends one, ...                                          *)
LEMMA TailAgree ==
    ASSUME NEW e \in Seq(Commands), NEW h \in Seq(Commands), h # << >>,
           NEW ret \in [Contexts -> Nat], NEW new \in [Contexts -> Nat],
           new = [ret EXCEPT ![Head(h)[1]] = Head(h)[2]],
           InOrder(Head(h)[1], e), Agree(e, h), Over(ret, e, h)
    PROVE  Agree(e, Tail(h)) /\ Over(new, e, Tail(h))
<1> DEFINE m == Len(e)
           n == Len(h)
           x == Head(h)
           t == Tail(h)
<1>1. /\ x \in Commands /\ t \in Seq(Commands) /\ Len(t) = n - 1 /\ n \in Nat /\ n >= 1 /\ h[1] = x
      /\ \A k \in 1 .. n - 1 : t[k] = h[k + 1]
      BY TailFacts
<1>2. m \in Nat /\ DOMAIN e = 1 .. m /\ \A k \in 1 .. m : e[k] \in Commands BY LenProperties
<1>3. x[1] \in Contexts /\ new[x[1]] = x[2] /\ \A c \in Contexts : c # x[1] => new[c] = ret[c]
      BY <1>1, CommandFacts
<1>3a. InOrder(x[1], e) OBVIOUS
<1> HIDE DEF m, n, x, t
<1>4. Agree(e, t)
  <2> SUFFICES ASSUME NEW i \in 0 .. m - 1, i < n - 1 PROVE e[m - i] = t[n - 1 - i]
      BY <1>1 DEF Agree, m
  <2>1. n - 1 - i \in 1 .. n - 1 /\ (n - 1 - i) + 1 = n - i /\ i < n BY <1>1, <1>2
  <2>2. t[n - 1 - i] = h[n - i] BY <1>1, <2>1
  <2>3. e[m - i] = h[n - i] BY <2>1 DEF Agree, m, n
  <2> QED BY <2>2, <2>3
<1>5. Over(new, e, t)
  <2> SUFFICES ASSUME NEW k \in 1 .. m, k <= m - (n - 1) PROVE new[e[k][1]] >= e[k][2]
      BY <1>1 DEF Over, m
  <2> DEFINE j == m - (n - 1)
  <2>1. j \in 1 .. m /\ n - 1 \in 0 .. m - 1 /\ n - 1 < n /\ m - (n - 1) = j /\ n - (n - 1) = 1
        BY <1>1, <1>2
  <2>2. e[m - (n - 1)] = h[n - (n - 1)] BY <2>1 DEF Agree, m, n
  <2>3. e[j] = x BY <1>1, <2>1, <2>2
  <2>4. e[k][1] \in Contexts /\ e[k][2] \in Nat BY <1>2, CommandFacts
  <2>5. x[2] \in Nat BY <1>1, CommandFacts
  <2>6. k \in Nat /\ j \in Nat /\ k <= j BY <1>1, <1>2
  <2>7. CASE k = j BY <1>3, <2>3, <2>5, <2>7
  <2>8. CASE k # j /\ e[k][1] = x[1]
    <3>1. k < j BY <2>6, <2>8
    <3> HIDE DEF j
    <3>2. e[k][2] < x[2] BY <1>2, <1>3a, <2>1, <2>3, <2>8, <3>1 DEF InOrder
    <3> QED BY <1>3, <2>4, <2>5, <2>8, <3>2
  <2>9. CASE k # j /\ e[k][1] # x[1]
    <3>1. k <= m - n BY <1>1, <1>2, <2>6, <2>9
    <3>2. ret[e[k][1]] >= e[k][2] BY <3>1 DEF Over, m, n
    <3> QED BY <1>3, <2>4, <2>9, <3>2
  <2> QED BY <2>7, <2>8, <2>9
<1> QED BY <1>4, <1>5 DEF t

(* ... and after the worker drops what has expired.                         *)
LEMMA DropAgree ==
    ASSUME NEW e \in Seq(Commands), NEW h \in Seq(Commands), NEW d \in Seq(Commands), NEW ret,
           NEW n \in 0 .. Len(e), Len(d) = Len(e) - n,
           \A k \in 1 .. Len(e) - n : d[k] = e[n + k],
           Agree(e, h), Over(ret, e, h)
    PROVE  Agree(d, h) /\ Over(ret, d, h)
<1> DEFINE m == Len(e)
           l == Len(h)
<1>1. m \in Nat /\ l \in Nat /\ n \in 0 .. m /\ Len(d) = m - n
      /\ \A k \in 1 .. m - n : d[k] = e[n + k]
      BY LenProperties
<1> HIDE DEF m, l
<1>2. Agree(d, h)
  <2> SUFFICES ASSUME NEW i \in 0 .. m - n - 1, i < l PROVE d[m - n - i] = h[l - i]
      BY <1>1 DEF Agree, l
  <2>1. m - n - i \in 1 .. m - n /\ n + (m - n - i) = m - i /\ i \in 0 .. m - 1 BY <1>1
  <2>2. e[m - i] = h[l - i] BY <2>1 DEF Agree, m, l
  <2>3. d[m - n - i] = e[m - i] BY <1>1, <2>1
  <2> QED BY <2>2, <2>3
<1>3. Over(ret, d, h)
  <2> SUFFICES ASSUME NEW k \in 1 .. m - n, k <= m - n - l PROVE ret[d[k][1]] >= d[k][2]
      BY <1>1 DEF Over, l
  <2>1. n + k \in 1 .. m /\ n + k <= m - l BY <1>1
  <2>2. ret[e[n + k][1]] >= e[n + k][2] BY <2>1 DEF Over, m, l
  <2> QED BY <1>1, <2>2
<1> QED BY <1>2, <1>3

(* What is left when all that has expired is dropped is in the ringbuffer.  *)
LEMMA SurvivorsSent ==
    ASSUME NEW e \in Seq(Commands), NEW h \in Seq(Commands), NEW d \in Seq(Commands), NEW ret,
           NEW n \in 0 .. Len(e), Len(d) = Len(e) - n,
           \A k \in 1 .. Len(e) - n : d[k] = e[n + k],
           Agree(e, h), Over(ret, e, h),
           n < Len(e) => ~(ret[e[n + 1][1]] >= e[n + 1][2]), NEW c
    PROVE  Stamps(c, d) \subseteq Stamps(c, h)
<1> DEFINE m == Len(e)
           l == Len(h)
<1>1. /\ m \in Nat /\ l \in Nat /\ n \in 0 .. m /\ Len(d) = m - n
      /\ DOMAIN d = 1 .. m - n /\ DOMAIN h = 1 .. l
      BY LenProperties
<1>2. \A k \in 1 .. m - n : d[k] = e[n + k] OBVIOUS
<1>3. n < m => ~(ret[e[n + 1][1]] >= e[n + 1][2]) OBVIOUS
<1> HIDE DEF m, l
<1>4. n < m => ~(n + 1 <= m - l)
  <2> SUFFICES ASSUME n < m, n + 1 <= m - l PROVE FALSE OBVIOUS
  <2>1. n + 1 \in 1 .. m BY <1>1
  <2>2. ret[e[n + 1][1]] >= e[n + 1][2] BY <2>1 DEF Over, m, l
  <2> QED BY <1>3, <2>2
<1>5. ASSUME NEW k \in 1 .. m - n, d[k][1] = c
      PROVE  \E j \in 1 .. l : h[j][1] = c /\ h[j][2] = d[k][2]
  <2> DEFINE i == m - (n + k)
  <2>1. i \in 0 .. m - 1 /\ i < l /\ m - i = n + k /\ l - i \in 1 .. l BY <1>1, <1>4
  <2>2. e[m - i] = h[l - i] BY <2>1 DEF Agree, m, l
  <2>3. h[l - i] = d[k] BY <1>2, <2>1, <2>2
  <2> HIDE DEF i
  <2> QED BY <1>5, <2>1, <2>3
<1>6. ASSUME NEW a \in Stamps(c, d) PROVE a \in Stamps(c, h)
  <2>1. PICK k \in 1 .. m - n : d[k][1] = c /\ a = d[k][2] BY <1>1 DEF Stamps
  <2>2. PICK j \in 1 .. l : h[j][1] = c /\ h[j][2] = d[k][2] BY <1>5, <2>1
  <2> QED BY <1>1, <2>1, <2>2 DEF Stamps
<1> QED BY <1>6

(* What NoCommandLost says of a context: ret and last are the last of its   *)
(* timestamps that retired and that was sent, way and held the sequences    *)
(* OnItsWay and Held.                                                       *)
Placed(c, ret, last, way, held) ==
    /\ ret <= last
    /\ InOrder(c, way) /\ Stamps(c, way) = ret + 1 .. last
    /\ InOrder(c, held) /\ ret + 1 .. last \subseteq Stamps(c, held)
    /\ Stamps(c, held) \subseteq 1 .. last
    /\ \A n \in Stamps(c, held) : n .. last \subseteq Stamps(c, held)

(* s and t do not differ in what they hold of c.                            *)
Alike(c, s, t) == Stamps(c, s) = Stamps(c, t) /\ (InOrder(c, s) <=> InOrder(c, t))

LEMMA PlacedAlike ==
    ASSUME NEW c, NEW ret, NEW last, NEW way, NEW held, Placed(c, ret, last, way, held),
           NEW way2, NEW held2, Alike(c, way, way2), Alike(c, held, held2)
    PROVE  Placed(c, ret, last, way2, held2)
BY DEF Placed, Alike

LEMMA PlacedPush ==
    ASSUME NEW c, NEW ret \in Nat, NEW last \in Nat, NEW way \in Seq(Commands),
           NEW held \in Seq(Commands), Placed(c, ret, last, way, held),
           NEW x \in Commands, x[1] = c, x[2] = last + 1
    PROVE  Placed(c, ret, last + 1, Append(way, x), Append(held, x))
<1> DEFINE A == Stamps(c, way)
           B == Stamps(c, held)
<1>1. /\ Stamps(c, Append(way, x)) = A \cup {last + 1}
      /\ InOrder(c, Append(way, x)) <=> InOrder(c, way) /\ \A a \in A : a < last + 1
      BY AppendFacts
<1>2. /\ Stamps(c, Append(held, x)) = B \cup {last + 1}
      /\ InOrder(c, Append(held, x)) <=> InOrder(c, held) /\ \A a \in B : a < last + 1
      BY AppendFacts
<1>3. /\ ret <= last /\ InOrder(c, way) /\ A = ret + 1 .. last /\ InOrder(c, held)
      /\ ret + 1 .. last \subseteq B /\ B \subseteq 1 .. last /\ \A n \in B : n .. last \subseteq B
      BY DEF Placed
<1> HIDE DEF A, B
<1>4. A \cup {last + 1} = ret + 1 .. last + 1 BY <1>3
<1>5. \A a \in A : a < last + 1 BY <1>3
<1>6. \A a \in B : a < last + 1 BY <1>3
<1>7. ret + 1 .. last + 1 \subseteq B \cup {last + 1} BY <1>3
<1>8. B \cup {last + 1} \subseteq 1 .. last + 1 BY <1>3
<1>9. \A n \in B \cup {last + 1} : n .. last + 1 \subseteq B \cup {last + 1} BY <1>3
<1> DEFINE w2 == Append(way, x)
           h2 == Append(held, x)
<1>10. InOrder(c, w2) /\ InOrder(c, h2) BY <1>1, <1>2, <1>3, <1>5, <1>6
<1>11. Stamps(c, w2) = ret + 1 .. last + 1 /\ Stamps(c, h2) = B \cup {last + 1}
       BY <1>1, <1>2, <1>4
<1>12. ret <= last + 1 BY <1>3
<1> HIDE DEF w2, h2
<1>13. Placed(c, ret, last + 1, w2, h2) BY <1>7, <1>8, <1>9, <1>10, <1>11, <1>12 DEF Placed
<1> QED BY <1>13 DEF w2, h2

LEMMA AlikePush ==
    ASSUME NEW c, NEW s \in Seq(Commands), NEW x \in Commands, x[1] # c
    PROVE  Alike(c, s, Append(s, x))
<1>1. /\ Stamps(c, Append(s, x)) = Stamps(c, s) \cup (IF x[1] = c THEN {x[2]} ELSE {})
      /\ InOrder(c, Append(s, x)) <=>
           InOrder(c, s) /\ (x[1] = c => \A a \in Stamps(c, s) : a < x[2])
      BY AppendFacts
<1> QED BY <1>1 DEF Alike

(* The first command of a context in its ringbuffer is the next to retire.  *)
LEMMA PlacedTail ==
    ASSUME NEW c, NEW ret \in Nat, NEW last \in Nat, NEW h \in Seq(Commands), h # << >>,
           NEW p \in Seq(Commands), NEW held, Placed(c, ret, last, h \o p, held),
           Head(h)[1] = c
    PROVE  Head(h)[2] = ret + 1 /\ Placed(c, ret + 1, last, Tail(h) \o p, held)
<1> DEFINE x == Head(h)
           t == Tail(h)
           A == Stamps(c, h \o p)
           B == Stamps(c, held)
<1>1. x \in Commands /\ t \in Seq(Commands) /\ x[2] \in Nat BY HeadCommand
<1>2. /\ Stamps(c, h) = Stamps(c, t) \cup {x[2]}
      /\ InOrder(c, h) => InOrder(c, t) /\ \A b \in Stamps(c, t) : x[2] < b
      BY TailFacts
<1> HIDE DEF x, t
<1> DEFINE T == Stamps(c, t \o p)
<1>3. /\ A = Stamps(c, h) \cup Stamps(c, p)
      /\ InOrder(c, h \o p) => InOrder(c, h) /\ InOrder(c, p)
                               /\ \A a \in Stamps(c, h), b \in Stamps(c, p) : a < b
      BY ConcatFacts
<1>4. /\ T = Stamps(c, t) \cup Stamps(c, p)
      /\ InOrder(c, t) /\ InOrder(c, p) /\ (\A a \in Stamps(c, t), b \in Stamps(c, p) : a < b)
           => InOrder(c, t \o p)
      BY <1>1, ConcatFacts
<1>5. /\ ret <= last /\ InOrder(c, h \o p) /\ A = ret + 1 .. last /\ InOrder(c, held)
      /\ ret + 1 .. last \subseteq B /\ B \subseteq 1 .. last /\ \A n \in B : n .. last \subseteq B
      BY DEF Placed
<1>6. InOrder(c, t \o p) BY <1>2, <1>3, <1>4, <1>5
<1>7. A = T \cup {x[2]} /\ \A b \in T : x[2] < b
  <2>1. A = T \cup {x[2]} BY <1>2, <1>3, <1>4
  <2>2. \A b \in Stamps(c, p) : x[2] < b BY <1>2, <1>3, <1>5
  <2>3. \A b \in Stamps(c, t) : x[2] < b BY <1>2, <1>3, <1>5
  <2> QED BY <1>4, <2>1, <2>2, <2>3
<1> HIDE DEF A, T, B
<1>8. x[2] = ret + 1
  <2>1. x[2] \in ret + 1 .. last BY <1>5, <1>7
  <2>2. ret + 1 \in ret + 1 .. last BY <2>1
  <2>3. ret + 1 \in T \/ ret + 1 = x[2] BY <1>5, <1>7, <2>2
  <2>4. ~(x[2] < ret + 1) BY <2>1
  <2> QED BY <1>7, <2>3, <2>4
<1>9. T = ret + 1 + 1 .. last
  <2>1. \A b \in T : b \in ret + 1 .. last /\ ret + 1 < b BY <1>5, <1>7, <1>8
  <2>2. \A b \in ret + 1 + 1 .. last : b \in ret + 1 .. last /\ b # ret + 1 OBVIOUS
  <2>3. \A b \in ret + 1 + 1 .. last : b \in T BY <1>5, <1>7, <1>8, <2>2
  <2>4. \A b \in T : b \in ret + 1 + 1 .. last BY <2>1
  <2> QED BY <2>3, <2>4
<1>10. ret + 1 <= last
  <2>1. x[2] \in ret + 1 .. last BY <1>5, <1>7
  <2> QED BY <2>1
<1>11. ret + 1 + 1 .. last \subseteq B BY <1>5
<1> QED BY <1>5, <1>6, <1>8, <1>9, <1>10, <1>11 DEF Placed, x, t, T, B

(* Expired commands may be dropped from what is held.                       *)
LEMMA PlacedDrop ==
    ASSUME NEW c, NEW ret \in [Contexts -> Nat], c \in Contexts, NEW last \in Nat, NEW way,
           NEW e \in Seq(Commands), Placed(c, ret[c], last, way, e), NEW d \in Seq(Commands),
           NEW n \in 0 .. Len(e), Len(d) = Len(e) - n,
           \A k \in 1 .. Len(e) - n : d[k] = e[n + k],
           \A k \in 1 .. n : ret[e[k][1]] >= e[k][2]
    PROVE  Placed(c, ret[c], last, way, d)
<1> DEFINE r == ret[c]
           D == Stamps(c, d)
           B == Stamps(c, e)
<1>1. /\ r <= last /\ InOrder(c, way) /\ Stamps(c, way) = r + 1 .. last /\ InOrder(c, e)
      /\ r + 1 .. last \subseteq B /\ B \subseteq 1 .. last /\ \A m \in B : m .. last \subseteq B
      BY DEF Placed
<1>1a. /\ Stamps(c, d) \subseteq Stamps(c, e)
       /\ \A a \in Stamps(c, e) :
             a \in Stamps(c, d) \/ \E k \in 1 .. n : e[k][1] = c /\ e[k][2] = a
       /\ InOrder(c, e) => InOrder(c, d)
       /\ InOrder(c, e) => \A k \in 1 .. n : e[k][1] = c => \A a \in Stamps(c, d) : e[k][2] < a
       BY DropFacts
<1>2. /\ D \subseteq B /\ InOrder(c, d)
      /\ \A a \in B : a \in D \/ \E k \in 1 .. n : e[k][1] = c /\ e[k][2] = a
      /\ \A k \in 1 .. n : e[k][1] = c => \A a \in D : e[k][2] < a
      BY <1>1, <1>1a
<1>3. r \in Nat OBVIOUS
<1>4. \A k \in 1 .. n : e[k][1] = c => r >= e[k][2] OBVIOUS
<1> HIDE DEF r, D, B
<1>5. ASSUME NEW a \in B, a > r PROVE a \in D
  <2>1. a \in Nat BY <1>1
  <2> QED BY SMTT(30), ZenonT(30), <1>2, <1>3, <1>4, <1>5, <2>1
<1>6. \A a \in r + 1 .. last : a \in B /\ a > r BY <1>1, <1>3
<1>7. r + 1 .. last \subseteq D BY <1>5, <1>6
<1>8. D \subseteq 1 .. last BY <1>1, <1>2
<1>9. ASSUME NEW m \in D, NEW b \in m .. last PROVE b \in D
  <2>1. b \in B /\ m \in Nat /\ b \in Nat BY <1>1, <1>2, <1>8, <1>9
  <2>2. ~(b < m) BY <2>1
  <2> QED BY <1>2, <2>1, <2>2
<1> QED BY <1>1, <1>2, <1>7, <1>8, <1>9 DEF Placed, r, D

(* A slumber takes nothing away that is not held, ...                       *)
LEMMA PlacedLost ==
    ASSUME NEW c, NEW ret, NEW last, NEW h \in Seq(Commands), NEW p \in Seq(Commands),
           Placed(c, ret, last, h \o p, p)
    PROVE  Placed(c, ret, last, p, p)
<1>1. Stamps(c, h \o p) = Stamps(c, h) \cup Stamps(c, p) BY ConcatFacts
<1>2. Stamps(c, h \o p) = ret + 1 .. last /\ ret + 1 .. last \subseteq Stamps(c, p) BY DEF Placed
<1>3. Stamps(c, p) = ret + 1 .. last BY <1>1, <1>2
<1> QED BY <1>3 DEF Placed

(* ... and neither does a reset when what is held was sent.                 *)
LEMMA PlacedSurvivors ==
    ASSUME NEW c, NEW ret, NEW last, NEW h, NEW d, Placed(c, ret, last, h, d),
           Stamps(c, d) \subseteq Stamps(c, h)
    PROVE  Placed(c, ret, last, d, d)
<1>1. Stamps(c, d) = Stamps(c, h) BY DEF Placed
<1> QED BY <1>1 DEF Placed

(* A sequence that has nothing of c                                         *)
LEMMA AbsentFacts ==
    ASSUME NEW c, NEW s \in Seq(Commands), \A k \in DOMAIN s : s[k][1] # c
    PROVE  Stamps(c, s) = {} /\ InOrder(c, s)
BY DEF Stamps, InOrder

LEMMA AlikeConcat ==
    ASSUME NEW c, NEW s \in Seq(Commands), NEW t \in Seq(Commands), NEW s2 \in Seq(Commands),
           NEW t2 \in Seq(Commands), Alike(c, s, s2), Alike(c, t, t2)
    PROVE  Alike(c, s \o t, s2 \o t2)
<1>1. /\ Stamps(c, s \o t) = Stamps(c, s) \cup Stamps(c, t)
      /\ InOrder(c, s \o t) <=>
           InOrder(c, s) /\ InOrder(c, t) /\ \A a \in Stamps(c, s), b \in Stamps(c, t) : a < b
      BY ConcatFacts
<1>2. /\ Stamps(c, s2 \o t2) = Stamps(c, s2) \cup Stamps(c, t2)
      /\ InOrder(c, s2 \o t2) <=>
           InOrder(c, s2) /\ InOrder(c, t2) /\ \A a \in Stamps(c, s2), b \in Stamps(c, t2) : a < b
      BY ConcatFacts
<1> QED BY <1>1, <1>2 DEF Alike

(* NoCommandLost is about what is Placed, now and after a step.             *)
LEMMA PlacedIs ==
    /\ NoCommandLost => \A c \in Contexts \ bad :
                           Placed(c, retired[c], LastSent(c), OnItsWay(c), Held(c))
    /\ (\A c \in Contexts \ bad' :
           Placed(c, retired'[c], LastSent(c)', OnItsWay(c)', Held(c)')) => NoCommandLost'
<1>1. NoCommandLost => \A c \in Contexts \ bad :
                          Placed(c, retired[c], LastSent(c), OnItsWay(c), Held(c))
      BY Zenon DEF NoCommandLost, Placed, Due
<1>2. (\A c \in Contexts \ bad' :
          Placed(c, retired'[c], LastSent(c)', OnItsWay(c)', Held(c)')) => NoCommandLost'
      BY Zenon DEF NoCommandLost, Placed, Due
<1> QED BY <1>1, <1>2

LEMMA NextPlaces ==
    ASSUME scene' = scene, NEW c
    PROVE  /\ RbOf(c)' = RbOf(c) /\ RingIds' = RingIds
           /\ Held(c)' = Entries(cmdq'[RbOf(c)]) \o replay'
           /\ OnItsWay(c)' = IF RbOf(c) \in Recovering'
                               THEN Entries(cmdq'[RbOf(c)]) \o replay'
                               ELSE hw'[RbOf(c)] \o replay'
<1>1. RbOf(c)' = RbOf(c) /\ RingIds' = RingIds BY DEF RbOf, RingIds
<1> QED BY <1>1 DEF Held, OnItsWay

(* What the invariant says of the sequences of commands                     *)
LEMMA WhereFacts ==
    ASSUME IInv
    PROVE  /\ scene \in Scenes /\ replay \in Seq(Commands)
           /\ \A r \in RingIds : /\ Entries(cmdq[r]) \in Seq(Commands) /\ hw[r] \in Seq(Commands)
                                 /\ QOK(cmdq[r])
           /\ DqSize \in Nat \ {0}
           /\ \A c \in Contexts : /\ RbOf(c) \in RingIds
                                  /\ InOrder(c, Entries(cmdq[RbOf(c)])) /\ InOrder(c, replay)
                                  /\ queuedTs[c] \in Nat
           /\ retired \in [Contexts -> Nat] /\ bad \subseteq Contexts
           /\ \A c \in Contexts \ bad :
                 /\ Placed(c, retired[c], LastSent(c), OnItsWay(c), Held(c))
                 /\ LastSent(c) \in Nat
<1>1. TypeContexts /\ TypeQueues /\ Holder /\ Queues /\ Whereabouts /\ NoCommandLost
      BY TypeParts DEF IInv
<1>2. scene \in Scenes /\ replay \in Seq(Commands) BY <1>1 DEF Holder, TypeQueues
<1>3. \A r \in RingIds : /\ Entries(cmdq[r]) \in Seq(Commands) /\ hw[r] \in Seq(Commands)
                         /\ QOK(cmdq[r])
      BY <1>1 DEF Queues, QOK, TypeQueues
<1>4. ASSUME NEW c \in Contexts
      PROVE  /\ RbOf(c) \in RingIds /\ InOrder(c, Entries(cmdq[RbOf(c)])) /\ InOrder(c, replay)
             /\ queuedTs[c] \in Nat
  <2>1. RbOf(c) \in RingIds BY <1>2, SceneFacts
  <2>2. InOrder(c, Entries(cmdq[RbOf(c)]) \o replay) BY <1>1 DEF Whereabouts, Held
  <2>3. Entries(cmdq[RbOf(c)]) \in Seq(Commands) BY <1>3, <2>1
  <2>4. InOrder(c, Entries(cmdq[RbOf(c)])) /\ InOrder(c, replay)
    <3> DEFINE e == Entries(cmdq[RbOf(c)])
    <3>1. e \in Seq(Commands) /\ InOrder(c, e \o replay) BY <2>2, <2>3
    <3> HIDE DEF e
    <3>2. InOrder(c, e \o replay) => InOrder(c, e) /\ InOrder(c, replay)
          BY <1>2, <3>1, ConcatFacts
    <3> QED BY <3>1, <3>2 DEF e
  <2> QED BY <1>1, <2>1, <2>4 DEF TypeContexts
<1>5. ASSUME NEW c \in Contexts \ bad
      PROVE  /\ Placed(c, retired[c], LastSent(c), OnItsWay(c), Held(c))
             /\ LastSent(c) \in Nat
  <2>1. Placed(c, retired[c], LastSent(c), OnItsWay(c), Held(c)) BY <1>1, PlacedIs
  <2>2. sent[c] \in Nat BY <1>1 DEF TypeContexts
  <2>3. step = "submit" /\ ctx = c => sent[c] >= 1 BY <1>1 DEF Holder
  <2>4. LastSent(c) \in Nat BY <2>2, <2>3 DEF LastSent
  <2> QED BY <2>1, <2>4
<1>6. DqSize \in Nat \ {0} BY <1>2, SceneFacts
<1> QED BY <1>1, <1>2, <1>3, <1>4, <1>5, <1>6 DEF TypeContexts

(* A step that moves no command                                             *)
LEMMA FrameCommands ==
    ASSUME IInv, UNCHANGED <<scene, cmdq, hw, replay, todo, retired, bad>>,
           \A c \in Contexts : queuedTs'[c] \in Nat /\ queuedTs'[c] >= queuedTs[c],
           \A c \in Contexts \ bad : LastSent(c)' = LastSent(c)
    PROVE  Whereabouts' /\ NoCommandLost'
<1>1. /\ replay \in Seq(Commands)
      /\ \A r \in RingIds : Entries(cmdq[r]) \in Seq(Commands) /\ hw[r] \in Seq(Commands)
      /\ \A c \in Contexts : queuedTs[c] \in Nat
      /\ \A c \in Contexts \ bad : Placed(c, retired[c], LastSent(c), OnItsWay(c), Held(c))
      BY WhereFacts
<1>2. Recovering' = Recovering /\ RingIds' = RingIds BY DEF Recovering, RingIds
<1>3. \A c \in Contexts : Held(c)' = Held(c) /\ OnItsWay(c)' = OnItsWay(c)
      BY <1>2, NextPlaces DEF Held, OnItsWay
<1>4. NoCommandLost' BY <1>1, <1>3, PlacedIs
<1>5. \A s \in Seq(Commands) : \A k \in DOMAIN s : s[k][1] \in Contexts /\ s[k][2] \in Nat
  <2> SUFFICES ASSUME NEW s \in Seq(Commands), NEW k \in DOMAIN s
               PROVE  s[k][1] \in Contexts /\ s[k][2] \in Nat
      OBVIOUS
  <2>1. s[k] \in Commands BY LenProperties
  <2> QED BY <2>1, CommandFacts
<1>6. \A s \in Seq(Commands) : \A k \in DOMAIN s :
         s[k][2] <= queuedTs[s[k][1]] => s[k][2] <= queuedTs'[s[k][1]]
  <2> SUFFICES ASSUME NEW s \in Seq(Commands), NEW k \in DOMAIN s, s[k][2] <= queuedTs[s[k][1]]
               PROVE  s[k][2] <= queuedTs'[s[k][1]]
      OBVIOUS
  <2> DEFINE c == s[k][1]
             n == s[k][2]
  <2>1. c \in Contexts /\ n \in Nat BY <1>5
  <2>2. queuedTs[c] \in Nat /\ queuedTs'[c] \in Nat /\ queuedTs'[c] >= queuedTs[c] BY <1>1, <2>1
  <2>3. n <= queuedTs[c] OBVIOUS
  <2> HIDE DEF c, n
  <2>4. n <= queuedTs'[c] BY <2>1, <2>2, <2>3
  <2> QED BY <2>4 DEF c, n
<1>7. Whereabouts BY DEF IInv
<1>8. ASSUME NEW r \in RingIds
      PROVE  /\ \A k \in DOMAIN Entries(cmdq[r]) : Known(r, Entries(cmdq[r])[k])'
             /\ \A k \in DOMAIN hw[r] : Known(r, hw[r][k])'
  <2>1. /\ \A k \in DOMAIN Entries(cmdq[r]) : Known(r, Entries(cmdq[r])[k])
        /\ \A k \in DOMAIN hw[r] : Known(r, hw[r][k])
        BY <1>7 DEF Whereabouts
  <2>2. Entries(cmdq[r]) \in Seq(Commands) /\ hw[r] \in Seq(Commands) BY <1>1
  <2> QED BY <1>6, <2>1, <2>2 DEF Known, RbOf
<1>9. \A k \in DOMAIN replay : replay[k][2] <= queuedTs'[replay[k][1]]
      BY <1>1, <1>6, <1>7 DEF Whereabouts
<1>10. \A c \in Contexts : InOrder(c, OnItsWay(c)') /\ InOrder(c, Held(c)')
       BY <1>3, <1>7 DEF Whereabouts
<1>11. Whereabouts' BY <1>2, <1>7, <1>8, <1>9, <1>10 DEF Whereabouts
<1> QED BY <1>4, <1>11

LEMMA StillCommands ==
    ASSUME IInv, UNCHANGED <<scene, cmdq, hw, replay, todo, retired, bad, queuedTs, sent>>,
           step = "submit" <=> step' = "submit", step = "submit" => ctx' = ctx
    PROVE  Whereabouts' /\ NoCommandLost'
<1>1. \A c \in Contexts \ bad : LastSent(c)' = LastSent(c) BY DEF LastSent
<1>2. \A c \in Contexts : queuedTs[c] \in Nat BY WhereFacts
<1>3. \A c \in Contexts : queuedTs'[c] \in Nat /\ queuedTs'[c] >= queuedTs[c] BY <1>2
<1> QED BY <1>1, <1>3, FrameCommands

LEMMA NothingBehind ==
    ASSUME NEW s \in Seq(Commands)
    PROVE  s \o << >> = s /\ << >> \o s = s
OBVIOUS

(* A command that is put on a ring's queue and ringbuffer is known to both, *)
(* and what agreed before agrees.                                           *)
LEMMA PushWhere ==
    ASSUME IInv, scene' = scene, UNCHANGED <<queuedTs, retired>>, Recovering' = Recovering,
           NEW r \in RingIds, r \notin Recovering, NEW x \in Commands, RbOf(x[1]) = r,
           x[2] <= queuedTs[x[1]],
           \A q \in RingIds : q # r => cmdq'[q] = cmdq[q] /\ hw'[q] = hw[q],
           Entries(cmdq'[r]) = Append(Entries(cmdq[r]), x), hw'[r] = Append(hw[r], x)
    PROVE  /\ \A q \in RingIds :
                 /\ \A k \in DOMAIN Entries(cmdq'[q]) : Known(q, Entries(cmdq[q])[k])'
                 /\ \A k \in DOMAIN hw'[q] : Known(q, hw[q][k])'
           /\ \A q \in Recovering' : hw'[q] = << >>
           /\ \A q \in RingIds \ Recovering :
                 /\ Agree(Entries(cmdq'[q]), hw'[q])
                 /\ Over(retired, Entries(cmdq'[q]), hw'[q])
<1>1. Whereabouts /\ TypeQueues /\ Queues BY TypeParts DEF IInv
<1>2. \A q \in RingIds : Entries(cmdq[q]) \in Seq(Commands) /\ hw[q] \in Seq(Commands)
      BY WhereFacts
<1> DEFINE K(q, y) == RbOf(y[1]) = q /\ y[2] <= queuedTs[y[1]]
<1>3. \A q, y : Known(q, y) <=> K(q, y) BY DEF Known
<1>4. \A q, y : Known(q, y)' <=> K(q, y) BY DEF Known, RbOf
<1>5. K(r, x) OBVIOUS
<1> HIDE DEF K
<1>6. ASSUME NEW s \in Seq(Commands), \A k \in DOMAIN s : K(r, s[k])
      PROVE  \A k \in DOMAIN Append(s, x) : K(r, Append(s, x)[k])
  <2>1. /\ DOMAIN Append(s, x) = 1 .. Len(s) + 1 /\ DOMAIN s = 1 .. Len(s) /\ Len(s) \in Nat
        /\ Append(s, x)[Len(s) + 1] = x /\ \A k \in 1 .. Len(s) : Append(s, x)[k] = s[k]
        BY AppendProperties, LenProperties
  <2>2. \A k \in 1 .. Len(s) + 1 : k \in 1 .. Len(s) \/ k = Len(s) + 1 BY <2>1
  <2> QED BY <1>5, <1>6, <2>1, <2>2
<1>7. \A q \in RingIds : /\ \A k \in DOMAIN Entries(cmdq[q]) : K(q, Entries(cmdq[q])[k])
                         /\ \A k \in DOMAIN hw[q] : K(q, hw[q][k])
      BY <1>1, <1>3 DEF Whereabouts
<1>8. ASSUME NEW q \in RingIds
      PROVE  /\ \A k \in DOMAIN Entries(cmdq'[q]) : K(q, Entries(cmdq'[q])[k])
             /\ \A k \in DOMAIN hw'[q] : K(q, hw'[q][k])
  <2>1. CASE q # r BY <1>7, <2>1
  <2>2. CASE q = r
    <3>1. \A k \in DOMAIN Append(Entries(cmdq[r]), x) : K(r, Append(Entries(cmdq[r]), x)[k])
          BY <1>2, <1>6, <1>7
    <3>2. \A k \in DOMAIN Append(hw[r], x) : K(r, Append(hw[r], x)[k]) BY <1>2, <1>6, <1>7
    <3> QED BY <2>2, <3>1, <3>2
  <2> QED BY <2>1, <2>2
<1>9. \A q \in Recovering' : hw'[q] = << >>
  <2>1. Recovering \subseteq RingIds BY <1>1 DEF TypeQueues, Recovering
  <2> QED BY <1>1, <2>1 DEF Whereabouts
<1>10. ASSUME NEW q \in RingIds \ Recovering
       PROVE  /\ Agree(Entries(cmdq'[q]), hw'[q])
              /\ Over(retired, Entries(cmdq'[q]), hw'[q])
  <2>1. Agree(Entries(cmdq[q]), hw[q]) /\ Over(retired, Entries(cmdq[q]), hw[q])
        BY <1>1 DEF Whereabouts
  <2>2. CASE q # r BY <2>1, <2>2
  <2>3. CASE q = r
    <3> DEFINE e == Entries(cmdq[r])
               h == hw[r]
    <3>1. e \in Seq(Commands) /\ h \in Seq(Commands) BY <1>2
    <3>2. Agree(e, h) /\ Over(retired, e, h) BY <2>1, <2>3
    <3> HIDE DEF e, h
    <3>3. Agree(Append(e, x), Append(h, x)) /\ Over(retired, Append(e, x), Append(h, x))
          BY <3>1, <3>2, PushAgree
    <3> QED BY <2>3, <3>3 DEF e, h
  <2> QED BY <2>2, <2>3
<1> QED BY <1>4, <1>8, <1>9, <1>10

LEMMA SubmitOkCommands ==
    ASSUME QueueHasRoom, IInv, SubmitOk
    PROVE  Whereabouts' /\ NoCommandLost'
<1> DEFINE x == <<ctx, sent[ctx]>>
           r == RbOf(ctx)
           E(c) == Entries(cmdq[RbOf(c)])
           E2(c) == Entries(cmdq'[RbOf(c)])
           h(c) == hw[RbOf(c)]
           h2(c) == hw'[RbOf(c)]
<1>1. /\ scene' = scene /\ x \in Commands /\ r \in RingIds /\ ctx \in Contexts \ bad
      /\ \A q \in RingIds : q # r => cmdq'[q] = cmdq[q] /\ hw'[q] = hw[q]
      /\ Entries(cmdq'[r]) = Append(Entries(cmdq[r]), x) /\ hw'[r] = Append(hw[r], x)
      BY SubmitOkQueues DEF IInv
<1>2. /\ step = "submit" /\ step' = "send" /\ UNCHANGED <<todo, replay, retired, bad, sent, queuedTs>>
      BY DEF SubmitOk
<1>3. todo = << >> /\ replay = << >> /\ sent[ctx] <= queuedTs[ctx]
      BY <1>1, <1>2 DEF IInv, Holder
<1>4. Recovering = {} /\ Recovering' = {} BY <1>2, <1>3, NoneRecovering DEF Recovering
<1>5. /\ \A q \in RingIds : Entries(cmdq[q]) \in Seq(Commands) /\ hw[q] \in Seq(Commands)
      /\ \A c \in Contexts : RbOf(c) \in RingIds
      /\ retired \in [Contexts -> Nat]
      /\ \A c \in Contexts \ bad : Placed(c, retired[c], LastSent(c), OnItsWay(c), Held(c))
                                   /\ LastSent(c) \in Nat
      BY WhereFacts
<1>6. ASSUME NEW c \in Contexts
      PROVE  E(c) \in Seq(Commands) /\ h(c) \in Seq(Commands)
             /\ E2(c) \in Seq(Commands) /\ h2(c) \in Seq(Commands)
  <2>1. E(c) \in Seq(Commands) /\ h(c) \in Seq(Commands) BY <1>5
  <2>2. CASE RbOf(c) # r BY <1>1, <1>5, <2>1, <2>2
  <2>3. CASE RbOf(c) = r
    <3>1. Append(E(c), x) \in Seq(Commands) /\ Append(h(c), x) \in Seq(Commands)
          BY <1>1, <2>1, AppendProperties
    <3> QED BY <1>1, <2>1, <2>3, <3>1
  <2> QED BY <2>2, <2>3
<1>7. ASSUME NEW c \in Contexts
      PROVE  /\ OnItsWay(c) = h(c) /\ Held(c) = E(c)
             /\ OnItsWay(c)' = h2(c) /\ Held(c)' = E2(c)
  <2>1. OnItsWay(c) = h(c) \o << >> /\ Held(c) = E(c) \o << >>
        BY <1>3, <1>4 DEF OnItsWay, Held
  <2>2. OnItsWay(c)' = h2(c) \o << >> /\ Held(c)' = E2(c) \o << >>
        BY <1>1, <1>2, <1>3, <1>4, NextPlaces
  <2> HIDE DEF h, h2, E, E2
  <2> QED BY <1>6, <2>1, <2>2, NothingBehind
<1>8. ASSUME NEW c \in Contexts
      PROVE  \/ RbOf(c) # r /\ E2(c) = E(c) /\ h2(c) = h(c)
             \/ E2(c) = Append(E(c), x) /\ h2(c) = Append(h(c), x)
      BY <1>1, <1>5
<1>9. \A c \in Contexts : IF c = ctx THEN sent[c] = LastSent(c) + 1 /\ LastSent(c)' = sent[c]
                                      ELSE LastSent(c)' = LastSent(c)
  <2> SUFFICES ASSUME NEW c \in Contexts
               PROVE  IF c = ctx THEN sent[c] = LastSent(c) + 1 /\ LastSent(c)' = sent[c]
                                 ELSE LastSent(c)' = LastSent(c)
      OBVIOUS
  <2>1. sent[c] \in Nat BY TypeParts DEF IInv, TypeContexts
  <2>2. LastSent(c)' = sent[c] BY <1>2 DEF LastSent
  <2>3. LastSent(c) = IF c = ctx THEN sent[c] - 1 ELSE sent[c] BY <1>2 DEF LastSent
  <2> QED BY <2>1, <2>2, <2>3
<1>10. x[1] = ctx /\ x[2] = sent[ctx] OBVIOUS
<1> HIDE DEF x, E, E2, h, h2
<1>11. ASSUME NEW c \in Contexts \ bad
       PROVE  Placed(c, retired[c], LastSent(c)', h2(c), E2(c))
  <2>1. Placed(c, retired[c], LastSent(c), h(c), E(c)) /\ LastSent(c) \in Nat /\ retired[c] \in Nat
        BY <1>5, <1>7
  <2>2. E(c) \in Seq(Commands) /\ h(c) \in Seq(Commands) BY <1>6
  <2>3. CASE c = ctx
    <3>1. E2(c) = Append(E(c), x) /\ h2(c) = Append(h(c), x) BY <1>8, <2>3
    <3>2. LastSent(c)' = LastSent(c) + 1 /\ x[1] = c /\ x[2] = LastSent(c) + 1
          BY <1>9, <1>10, <2>3
    <3>3. Placed(c, retired[c], LastSent(c) + 1, Append(h(c), x), Append(E(c), x))
          BY <1>1, <2>1, <2>2, <3>2, PlacedPush
    <3> QED BY <3>1, <3>2, <3>3
  <2>4. CASE c # ctx
    <3>1. LastSent(c)' = LastSent(c) /\ x[1] # c BY <1>9, <1>10, <2>4
    <3>2. CASE E2(c) = E(c) /\ h2(c) = h(c) BY <2>1, <3>1, <3>2
    <3>3. CASE E2(c) = Append(E(c), x) /\ h2(c) = Append(h(c), x)
      <4>1. Alike(c, h(c), h2(c)) /\ Alike(c, E(c), E2(c))
            BY <1>1, <2>2, <3>1, <3>3, AlikePush
      <4> QED BY <2>1, <3>1, <4>1, PlacedAlike
    <3> QED BY <1>8, <3>2, <3>3
  <2> QED BY <2>3, <2>4
<1>12. NoCommandLost' BY <1>2, <1>7, <1>11, PlacedIs
<1>13. \A c \in Contexts : InOrder(c, h2(c)) /\ InOrder(c, E2(c))
  <2> SUFFICES ASSUME NEW c \in Contexts PROVE InOrder(c, h2(c)) /\ InOrder(c, E2(c))
      OBVIOUS
  <2>1. CASE c = ctx BY <1>1, <1>11, <2>1 DEF Placed
  <2>2. CASE c # ctx
    <3>1. InOrder(c, h(c)) /\ InOrder(c, E(c)) BY <1>7 DEF IInv, Whereabouts
    <3>2. CASE E2(c) = E(c) /\ h2(c) = h(c) BY <3>1, <3>2
    <3>3. CASE E2(c) = Append(E(c), x) /\ h2(c) = Append(h(c), x)
      <4>1. Alike(c, h(c), h2(c)) /\ Alike(c, E(c), E2(c))
            BY <1>1, <1>6, <1>10, <2>2, <3>3, AlikePush
      <4> QED BY <3>1, <4>1 DEF Alike
    <3> QED BY <1>8, <3>2, <3>3
  <2> QED BY <2>1, <2>2
<1>14. /\ \A q \in RingIds :
             /\ \A k \in DOMAIN Entries(cmdq'[q]) : Known(q, Entries(cmdq[q])[k])'
             /\ \A k \in DOMAIN hw'[q] : Known(q, hw[q][k])'
       /\ \A q \in Recovering' : hw'[q] = << >>
       /\ \A q \in RingIds \ Recovering :
             /\ Agree(Entries(cmdq'[q]), hw'[q])
             /\ Over(retired, Entries(cmdq'[q]), hw'[q])
  <2>1. RbOf(x[1]) = r /\ x[2] <= queuedTs[x[1]] BY <1>3, <1>10
  <2>2. r \notin Recovering /\ Recovering' = Recovering BY <1>4
  <2> HIDE DEF r
  <2> QED BY <1>1, <1>2, <2>1, <2>2, PushWhere
<1>15. Whereabouts'
  <2>1. RingIds' = RingIds BY <1>1 DEF RingIds
  <2>2. \A k \in DOMAIN replay' : replay'[k][2] <= queuedTs'[replay'[k][1]] BY <1>2, <1>3
  <2>3. \A c \in Contexts : InOrder(c, OnItsWay(c)') /\ InOrder(c, Held(c)') BY <1>7, <1>13
  <2> QED BY <1>2, <1>4, <1>14, <2>1, <2>2, <2>3 DEF Whereabouts
<1> QED BY <1>12, <1>15

(* A step after which a good context has what it had                        *)
LEMMA AlikeStep ==
    ASSUME IInv, bad \subseteq bad',
           \A c \in Contexts \ bad' :
              /\ Alike(c, OnItsWay(c), OnItsWay(c)') /\ Alike(c, Held(c), Held(c)')
              /\ retired'[c] = retired[c] /\ LastSent(c)' = LastSent(c)
    PROVE  NoCommandLost'
<1>1. ASSUME NEW c \in Contexts \ bad'
      PROVE  Placed(c, retired'[c], LastSent(c)', OnItsWay(c)', Held(c)')
  <2>1. Placed(c, retired[c], LastSent(c), OnItsWay(c), Held(c)) BY WhereFacts
  <2>2. Placed(c, retired[c], LastSent(c), OnItsWay(c)', Held(c)') BY <2>1, PlacedAlike
  <2> QED BY <2>2
<1> QED BY <1>1, PlacedIs

LEMMA ReplayOkCommands ==
    ASSUME QueueHasRoom, IInv, ReplayOk
    PROVE  Whereabouts' /\ NoCommandLost'
<1> DEFINE x == Head(replay)
           r == RbOf(x[1])
           t == Tail(replay)
           E(c) == Entries(cmdq[RbOf(c)])
           E2(c) == Entries(cmdq'[RbOf(c)])
           h(c) == hw[RbOf(c)]
           h2(c) == hw'[RbOf(c)]
<1>1. /\ scene' = scene /\ x \in Commands /\ r \in RingIds /\ r \notin Recovering
      /\ \A k \in DOMAIN replay : RbOf(replay[k][1]) = r
      /\ \A q \in RingIds : q # r => cmdq'[q] = cmdq[q] /\ hw'[q] = hw[q]
      /\ Entries(cmdq'[r]) = Append(Entries(cmdq[r]), x) /\ hw'[r] = Append(hw[r], x)
      BY ReplayOkQueues DEF IInv
<1>2. /\ step = "recover" /\ replay # << >> /\ replay' = t
      /\ UNCHANGED <<todo, step, retired, bad, sent, queuedTs>>
      BY DEF ReplayOk
<1>3. Recovering' = Recovering BY <1>2 DEF Recovering
<1>4. /\ \A q \in RingIds : Entries(cmdq[q]) \in Seq(Commands) /\ hw[q] \in Seq(Commands)
      /\ \A c \in Contexts : RbOf(c) \in RingIds
      /\ replay \in Seq(Commands)
      BY WhereFacts
<1>5. /\ t \in Seq(Commands) /\ Len(t) = Len(replay) - 1 /\ Len(replay) \in Nat
      /\ Len(replay) >= 1 /\ replay[1] = x
      /\ \A k \in 1 .. Len(replay) - 1 : t[k] = replay[k + 1]
      BY <1>2, <1>4, TailFacts
<1>6. DOMAIN t = 1 .. Len(replay) - 1 /\ DOMAIN replay = 1 .. Len(replay)
      BY <1>4, <1>5, LenProperties
<1>7. \A k \in DOMAIN t : k + 1 \in DOMAIN replay /\ t[k] = replay[k + 1]
  <2>1. \A k \in 1 .. Len(replay) - 1 : k + 1 \in 1 .. Len(replay) BY <1>5
  <2> QED BY <1>5, <1>6, <2>1
<1>8. ASSUME NEW c \in Contexts
      PROVE  Alike(c, OnItsWay(c), OnItsWay(c)') /\ Alike(c, Held(c), Held(c)')
  <2>1. E(c) \in Seq(Commands) /\ h(c) \in Seq(Commands) BY <1>4
  <2>2. /\ Held(c) = E(c) \o replay /\ Held(c)' = E2(c) \o t
        /\ OnItsWay(c) = IF RbOf(c) \in Recovering THEN E(c) \o replay ELSE h(c) \o replay
        /\ OnItsWay(c)' = IF RbOf(c) \in Recovering THEN E2(c) \o t ELSE h2(c) \o t
        BY <1>1, <1>2, <1>3, NextPlaces DEF OnItsWay, Held
  <2>3. CASE RbOf(c) = r
    <3>1. E2(c) = Append(E(c), x) /\ h2(c) = Append(h(c), x) BY <1>1, <2>3
    <3>2. E2(c) \o t = E(c) \o replay /\ h2(c) \o t = h(c) \o replay
      <4> HIDE DEF E, E2, h, h2
      <4>1. Append(E(c), x) \o t = E(c) \o replay BY <1>2, <1>4, <2>1, MoveOver
      <4>2. Append(h(c), x) \o t = h(c) \o replay BY <1>2, <1>4, <2>1, MoveOver
      <4> QED BY <3>1, <4>1, <4>2
    <3>3. OnItsWay(c)' = OnItsWay(c) /\ Held(c)' = Held(c) BY <1>1, <2>2, <2>3, <3>2
    <3> QED BY <3>3 DEF Alike
  <2>4. CASE RbOf(c) # r
    <3>1. E2(c) = E(c) /\ h2(c) = h(c) BY <1>1, <1>4, <2>4
    <3>2. \A k \in DOMAIN replay : replay[k][1] # c BY <1>1, <2>4
    <3>3. \A k \in DOMAIN t : t[k][1] # c BY <1>7, <3>2
    <3> HIDE DEF E, E2, h, h2, t
    <3>4. Stamps(c, replay) = {} /\ InOrder(c, replay) BY <1>4, <3>2, AbsentFacts
    <3>5. Stamps(c, t) = {} /\ InOrder(c, t) BY <1>5, <3>3, AbsentFacts
    <3>6. Alike(c, replay, t) /\ Alike(c, E(c), E(c)) /\ Alike(c, h(c), h(c))
          BY <3>4, <3>5 DEF Alike
    <3>7. Alike(c, E(c) \o replay, E(c) \o t) BY <1>4, <1>5, <2>1, <3>6, AlikeConcat
    <3>8. Alike(c, h(c) \o replay, h(c) \o t) BY <1>4, <1>5, <2>1, <3>6, AlikeConcat
    <3> QED BY <2>2, <3>1, <3>7, <3>8
  <2> QED BY <2>3, <2>4
<1>9. \A c \in Contexts : LastSent(c)' = LastSent(c) BY <1>2 DEF LastSent
<1>10. NoCommandLost' BY <1>2, <1>8, <1>9, AlikeStep
<1>11. Whereabouts BY DEF IInv
<1>12. x[2] <= queuedTs[x[1]]
  <2>1. 1 \in DOMAIN replay BY <1>5, <1>6
  <2> QED BY <1>5, <1>11, <2>1 DEF Whereabouts
<1>13. /\ \A q \in RingIds :
             /\ \A k \in DOMAIN Entries(cmdq'[q]) : Known(q, Entries(cmdq[q])[k])'
             /\ \A k \in DOMAIN hw'[q] : Known(q, hw[q][k])'
       /\ \A q \in Recovering' : hw'[q] = << >>
       /\ \A q \in RingIds \ Recovering :
             /\ Agree(Entries(cmdq'[q]), hw'[q])
             /\ Over(retired, Entries(cmdq'[q]), hw'[q])
  <2>1. RbOf(x[1]) = r OBVIOUS
  <2> HIDE DEF r, x
  <2> QED BY <1>1, <1>2, <1>3, <1>12, <2>1, PushWhere
<1>14. Whereabouts'
  <2>1. RingIds' = RingIds BY <1>1 DEF RingIds
  <2>2. \A k \in DOMAIN replay' : replay'[k][2] <= queuedTs'[replay'[k][1]]
        BY <1>2, <1>7, <1>11 DEF Whereabouts
  <2>3. \A c \in Contexts : InOrder(c, OnItsWay(c)') /\ InOrder(c, Held(c)')
        BY <1>8, <1>11 DEF Whereabouts, Alike
  <2> QED BY <1>2, <1>3, <1>13, <2>1, <2>2, <2>3 DEF Whereabouts
<1> QED BY <1>10, <1>14

(* A step that changes only what retired, of the sequences only ringbuffers *)
LEMMA GpuRetiresCommands ==
    ASSUME IInv, GpuRetires
    PROVE  Whereabouts' /\ NoCommandLost'
<1> DEFINE x == Head(hw[cur])
           y == x[1]
           t == Tail(hw[cur])
           E(c) == Entries(cmdq[RbOf(c)])
           h(c) == hw[RbOf(c)]
<1>1. /\ hw[cur] # << >> /\ retired' = [retired EXCEPT ![y] = x[2]]
      /\ hw' = [hw EXCEPT ![cur] = t]
      /\ UNCHANGED <<scene, cmdq, todo, replay, bad, sent, queuedTs, step, ctx>>
      BY DEF GpuRetires
<1>2. /\ \A q \in RingIds : Entries(cmdq[q]) \in Seq(Commands) /\ hw[q] \in Seq(Commands)
      /\ \A c \in Contexts : RbOf(c) \in RingIds /\ InOrder(c, E(c))
      /\ replay \in Seq(Commands)
      /\ retired \in [Contexts -> Nat]
      /\ \A c \in Contexts \ bad : Placed(c, retired[c], LastSent(c), OnItsWay(c), Held(c))
                                   /\ LastSent(c) \in Nat
      BY WhereFacts
<1>3. cur \in RingIds /\ hw \in [RingIds -> Seq(Commands)] /\ Whereabouts
      BY TypeParts DEF IInv, TypeQueues
<1>4. /\ x \in Commands /\ y \in Contexts /\ x[2] \in Nat /\ t \in Seq(Commands)
      /\ Len(t) = Len(hw[cur]) - 1 /\ Len(hw[cur]) \in Nat /\ Len(hw[cur]) >= 1 /\ hw[cur][1] = x
      /\ \A k \in 1 .. Len(hw[cur]) - 1 : t[k] = hw[cur][k + 1]
      BY <1>1, <1>2, <1>3, HeadCommand, TailFacts
<1>5. DOMAIN t = 1 .. Len(hw[cur]) - 1 /\ DOMAIN hw[cur] = 1 .. Len(hw[cur])
      BY <1>2, <1>3, <1>4, LenProperties
<1>6. hw'[cur] = t /\ \A q \in RingIds : q # cur => hw'[q] = hw[q] BY <1>1, <1>3
<1>7. RbOf(y) = cur
  <2>1. 1 \in DOMAIN hw[cur] BY <1>4, <1>5
  <2> QED BY <1>3, <1>4, <2>1 DEF Whereabouts, Known
<1>8. cur \notin Recovering BY <1>1, <1>3 DEF Whereabouts
<1>9. Recovering' = Recovering /\ RingIds' = RingIds BY <1>1 DEF Recovering, RingIds
<1>10. /\ retired' \in [Contexts -> Nat] /\ retired'[y] = x[2]
       /\ \A c \in Contexts : c # y => retired'[c] = retired[c]
       BY <1>1, <1>2, <1>4
<1>11. \A c \in Contexts : /\ Held(c)' = Held(c) /\ LastSent(c)' = LastSent(c)
                           /\ RbOf(c) # cur => OnItsWay(c)' = OnItsWay(c)
                           /\ RbOf(c) = cur => /\ OnItsWay(c) = hw[cur] \o replay
                                               /\ OnItsWay(c)' = t \o replay
  <2> SUFFICES ASSUME NEW c \in Contexts
               PROVE  /\ Held(c)' = Held(c) /\ LastSent(c)' = LastSent(c)
                      /\ RbOf(c) # cur => OnItsWay(c)' = OnItsWay(c)
                      /\ RbOf(c) = cur => /\ OnItsWay(c) = hw[cur] \o replay
                                          /\ OnItsWay(c)' = t \o replay
      OBVIOUS
  <2>1. LastSent(c)' = LastSent(c) BY <1>1 DEF LastSent
  <2>2. Held(c)' = Held(c) BY <1>1, NextPlaces DEF Held
  <2>3. OnItsWay(c)' = IF RbOf(c) \in Recovering THEN E(c) \o replay ELSE hw'[RbOf(c)] \o replay
        BY <1>1, <1>9, NextPlaces
  <2> QED BY <1>2, <1>6, <1>8, <2>1, <2>2, <2>3 DEF OnItsWay, Held
<1> HIDE DEF x, y, t
<1>12. ASSUME NEW c \in Contexts, RbOf(c) = cur, InOrder(c, hw[cur] \o replay)
       PROVE  /\ InOrder(c, t \o replay)
              /\ c # y => Alike(c, hw[cur] \o replay, t \o replay)
  <2> DEFINE g == hw[cur]
  <2>1. g \in Seq(Commands) /\ g # << >> /\ InOrder(c, g \o replay) BY <1>1, <1>2, <1>3, <1>12
  <2> HIDE DEF g
  <2>2. /\ Stamps(c, g) = Stamps(c, Tail(g)) \cup (IF Head(g)[1] = c THEN {Head(g)[2]} ELSE {})
        /\ InOrder(c, g) <=>
             InOrder(c, Tail(g)) /\ (Head(g)[1] = c => \A b \in Stamps(c, Tail(g)) : Head(g)[2] < b)
        BY <2>1, TailFacts
  <2>3. Tail(g) = t /\ Head(g) = x BY DEF g, t, x
  <2>4. InOrder(c, g \o replay) <=>
          InOrder(c, g) /\ InOrder(c, replay)
          /\ \A a \in Stamps(c, g), b \in Stamps(c, replay) : a < b
        BY <1>2, <2>1, ConcatFacts
  <2>5. InOrder(c, t \o replay) <=>
          InOrder(c, t) /\ InOrder(c, replay)
          /\ \A a \in Stamps(c, t), b \in Stamps(c, replay) : a < b
        BY <1>2, <1>4, ConcatFacts
  <2>6. InOrder(c, t \o replay) BY <2>1, <2>2, <2>3, <2>4, <2>5
  <2>7. ASSUME c # y PROVE Alike(c, g \o replay, t \o replay)
    <3>1. Alike(c, g, t) BY <2>2, <2>3, <2>7 DEF Alike, y
    <3>2. Alike(c, replay, replay) BY DEF Alike
    <3> QED BY <1>2, <1>4, <2>1, <3>1, <3>2, AlikeConcat
  <2> QED BY <2>6, <2>7 DEF g
<1>13. ASSUME NEW c \in Contexts \ bad
       PROVE  Placed(c, retired'[c], LastSent(c)', OnItsWay(c)', Held(c)')
  <2>1. Placed(c, retired[c], LastSent(c), OnItsWay(c), Held(c)) /\ LastSent(c) \in Nat
        /\ retired[c] \in Nat
        BY <1>2
  <2>2. CASE RbOf(c) # cur
    <3>1. c # y BY <1>7, <2>2
    <3> QED BY <1>10, <1>11, <2>1, <2>2, <3>1
  <2>3. CASE RbOf(c) = cur /\ c # y
    <3>1. OnItsWay(c) = hw[cur] \o replay /\ OnItsWay(c)' = t \o replay BY <1>11, <2>3
    <3>2. InOrder(c, hw[cur] \o replay) BY <2>1, <3>1 DEF Placed
    <3>3. Alike(c, OnItsWay(c), OnItsWay(c)') BY <1>12, <2>3, <3>1, <3>2
    <3>4. Alike(c, Held(c), Held(c)') BY <1>11 DEF Alike
    <3>5. Placed(c, retired[c], LastSent(c), OnItsWay(c)', Held(c)') BY <2>1, <3>3, <3>4, PlacedAlike
    <3> QED BY <1>10, <1>11, <2>3, <3>5
  <2>4. CASE RbOf(c) = cur /\ c = y
    <3> DEFINE g == hw[cur]
    <3>1. OnItsWay(c) = g \o replay /\ OnItsWay(c)' = t \o replay BY <1>11, <2>4
    <3>2. g \in Seq(Commands) /\ g # << >> /\ Head(g)[1] = c /\ Head(g) = x /\ Tail(g) = t
          BY <1>1, <1>2, <1>3, <2>4 DEF x, y, t
    <3> HIDE DEF g
    <3>3. Head(g)[2] = retired[c] + 1
          /\ Placed(c, retired[c] + 1, LastSent(c), Tail(g) \o replay, Held(c))
          BY <1>2, <2>1, <3>1, <3>2, PlacedTail
    <3>4. retired'[c] = retired[c] + 1 BY <1>10, <2>4, <3>2, <3>3
    <3> QED BY <1>11, <3>1, <3>2, <3>3, <3>4
  <2> QED BY <2>2, <2>3, <2>4
<1>14. NoCommandLost' BY <1>1, <1>13, PlacedIs
<1>15. \A c \in Contexts : InOrder(c, OnItsWay(c)') /\ InOrder(c, Held(c)')
  <2> SUFFICES ASSUME NEW c \in Contexts PROVE InOrder(c, OnItsWay(c)') /\ InOrder(c, Held(c)')
      OBVIOUS
  <2>1. InOrder(c, OnItsWay(c)) /\ InOrder(c, Held(c)) BY <1>3 DEF Whereabouts
  <2>2. CASE RbOf(c) # cur BY <1>11, <2>1, <2>2
  <2>3. CASE RbOf(c) = cur BY <1>11, <1>12, <2>1, <2>3
  <2> QED BY <2>2, <2>3
<1>16. ASSUME NEW q \in RingIds
       PROVE  /\ \A k \in DOMAIN Entries(cmdq[q]) : Known(q, Entries(cmdq[q])[k])'
              /\ \A k \in DOMAIN hw'[q] : Known(q, hw[q][k])'
  <2>1. /\ \A k \in DOMAIN Entries(cmdq[q]) : Known(q, Entries(cmdq[q])[k])
        /\ \A k \in DOMAIN hw[q] : Known(q, hw[q][k])
        BY <1>3 DEF Whereabouts
  <2>2. \A z : Known(q, z)' <=> RbOf(z[1]) = q /\ z[2] <= queuedTs[z[1]] BY <1>1 DEF Known, RbOf
  <2>3. \A z : Known(q, z) <=> RbOf(z[1]) = q /\ z[2] <= queuedTs[z[1]] BY DEF Known
  <2>4. \A k \in DOMAIN Entries(cmdq[q]) : Known(q, Entries(cmdq[q])[k])'
        BY <1>1, <2>1, <2>3 DEF Known, RbOf
  <2>5. \A k \in DOMAIN hw'[q] : \E j \in DOMAIN hw[q] : hw'[q][k] = hw[q][j]
    <3>1. CASE q # cur BY <1>6, <3>1
    <3>2. CASE q = cur
      <4>1. \A k \in 1 .. Len(hw[cur]) - 1 : k + 1 \in 1 .. Len(hw[cur]) BY <1>4
      <4> QED BY <1>4, <1>5, <1>6, <3>2, <4>1
    <3> QED BY <3>1, <3>2
  <2>6. \A k \in DOMAIN hw'[q] : Known(q, hw[q][k])'
        BY <1>1, <2>1, <2>5 DEF Known, RbOf
  <2> QED BY <2>4, <2>6
<1>17. ASSUME NEW q \in RingIds \ Recovering
       PROVE  /\ Agree(Entries(cmdq[q]), hw'[q]) /\ Over(retired', Entries(cmdq[q]), hw'[q])
  <2> DEFINE e == Entries(cmdq[q])
             g == hw[q]
  <2>1. Agree(e, g) /\ Over(retired, e, g) /\ e \in Seq(Commands) /\ g \in Seq(Commands)
        BY <1>2, <1>3 DEF Whereabouts
  <2>2. CASE q = cur
    <3>1. Head(g) = x /\ Tail(g) = t /\ g # << >> /\ hw'[q] = t
          BY <1>1, <1>6, <2>2 DEF x, t
    <3>2. InOrder(y, e) BY <1>2, <1>4, <1>7, <2>2
    <3> HIDE DEF e, g
    <3>3. InOrder(Head(g)[1], e) /\ retired' = [retired EXCEPT ![Head(g)[1]] = Head(g)[2]]
          BY <1>1, <3>1, <3>2 DEF y
    <3>4. Agree(e, Tail(g)) /\ Over(retired', e, Tail(g))
          BY <1>2, <1>10, <2>1, <3>1, <3>3, TailAgree
    <3> QED BY <3>1, <3>4 DEF e
  <2>3. CASE q # cur
    <3>1. hw'[q] = g BY <1>6, <2>3
    <3>2. \A k \in DOMAIN e : RbOf(e[k][1]) = q BY <1>3 DEF Whereabouts, Known
    <3>3. DOMAIN e = 1 .. Len(e) /\ \A k \in 1 .. Len(e) : e[k] \in Commands
          BY <2>1, LenProperties
    <3>4. \A k \in 1 .. Len(e) : e[k][1] \in Contexts BY <3>3, CommandFacts
    <3> HIDE DEF e, g
    <3>5. \A k \in 1 .. Len(e) : retired'[e[k][1]] = retired[e[k][1]]
          BY <1>7, <1>10, <2>3, <3>2, <3>3, <3>4
    <3>6. Over(retired', e, g) BY <2>1, <3>5 DEF Over
    <3> QED BY <2>1, <3>1, <3>6 DEF e
  <2> QED BY <2>2, <2>3
<1>18. Whereabouts'
  <2>1. \A q \in Recovering : hw'[q] = << >>
    <3>1. Recovering \subseteq RingIds BY TypeParts DEF IInv, TypeQueues, Recovering
    <3> QED BY <1>3, <1>6, <1>8, <3>1 DEF Whereabouts
  <2>2. \A k \in DOMAIN replay : replay[k][2] <= queuedTs[replay[k][1]] BY <1>3 DEF Whereabouts
  <2> QED BY <1>1, <1>9, <1>15, <1>16, <1>17, <2>1, <2>2 DEF Whereabouts
<1> QED BY <1>14, <1>18

-----------------------------------------------------------------------------
(* d is e without its first n commands, which are the ones that expired.    *)
Dropped(d, e, n, ret) ==
    /\ d \in Seq(Commands) /\ e \in Seq(Commands) /\ n \in 0 .. Len(e)
    /\ Len(d) = Len(e) - n
    /\ \A k \in 1 .. Len(e) - n : d[k] = e[n + k]
    /\ \A k \in 1 .. n : ret[e[k][1]] >= e[k][2]
    /\ n < Len(e) => ~(ret[e[n + 1][1]] >= e[n + 1][2])

LEMMA RetiredOff ==
    ASSUME DqSize \in Nat \ {0}, NEW q, QOK(q)
    PROVE  Dropped(Entries(Dequeue(q, RetireCount(q))), Entries(q), RetireCount(q), retired)
<1> DEFINE n == RetireCount(q)
           d == Entries(Dequeue(q, n))
           e == Entries(q)
           u == q.inflight
<1>1. u \in 0 .. DqSize - 1 /\ Len(e) = u BY QueueFacts
<1>2. /\ n \in 0 .. u /\ \A k \in 1 .. n : Expired(e[k])
      /\ n < u => ~Expired(e[n + 1])
      BY RetireFacts
<1>3. /\ QOK(Dequeue(q, n)) /\ Len(d) = u - n
      /\ \A k \in 1 .. u - n : d[k] = e[n + k]
  <2> HIDE DEF n
  <2> QED BY <1>2, DequeueFacts
<1>4. d \in Seq(Commands) /\ e \in Seq(Commands) BY <1>3 DEF QOK
<1> HIDE DEF n, d, e, u
<1>5. (\A k \in 1 .. n : retired[e[k][1]] >= e[k][2])
      /\ (n < u => ~(retired[e[n + 1][1]] >= e[n + 1][2]))
      BY <1>2 DEF Expired
<1> QED BY <1>1, <1>2, <1>3, <1>4, <1>5 DEF Dropped, n, d, e

(* What is left was there, in the same order.                               *)
LEMMA DroppedFacts ==
    ASSUME NEW d, NEW e, NEW n, NEW ret, Dropped(d, e, n, ret)
    PROVE  /\ \A k \in DOMAIN d : \E j \in DOMAIN e : d[k] = e[j]
           /\ \A c : InOrder(c, e) => InOrder(c, d)
           /\ \A h \in Seq(Commands) : Agree(e, h) /\ Over(ret, e, h) =>
                 /\ Agree(d, h) /\ Over(ret, d, h)
                 /\ \A c : Stamps(c, d) \subseteq Stamps(c, h)
<1>1. /\ d \in Seq(Commands) /\ e \in Seq(Commands) /\ n \in 0 .. Len(e) /\ Len(d) = Len(e) - n
      /\ \A k \in 1 .. Len(e) - n : d[k] = e[n + k]
      /\ n < Len(e) => ~(ret[e[n + 1][1]] >= e[n + 1][2])
      BY DEF Dropped
<1>2. \A k \in DOMAIN d : \E j \in DOMAIN e : d[k] = e[j]
  <2>1. DOMAIN d = 1 .. Len(e) - n /\ DOMAIN e = 1 .. Len(e) /\ Len(e) \in Nat
        BY <1>1, LenProperties
  <2>2. \A k \in 1 .. Len(e) - n : n + k \in 1 .. Len(e) BY <1>1, <2>1
  <2> QED BY <1>1, <2>1, <2>2
<1>3. \A c : InOrder(c, e) => InOrder(c, d) BY <1>1, DropFacts
<1>4. ASSUME NEW h \in Seq(Commands), Agree(e, h), Over(ret, e, h)
      PROVE  /\ Agree(d, h) /\ Over(ret, d, h)
             /\ \A c : Stamps(c, d) \subseteq Stamps(c, h)
  <2>1. Agree(d, h) /\ Over(ret, d, h) BY <1>1, <1>4, DropAgree
  <2>2. \A c : Stamps(c, d) \subseteq Stamps(c, h) BY <1>1, <1>4, SurvivorsSent
  <2> QED BY <2>1, <2>2
<1> QED BY <1>2, <1>3, <1>4

LEMMA RetireRingCommands ==
    ASSUME IInv, RetireRing
    PROVE  Whereabouts' /\ NoCommandLost'
<1> DEFINE E(q) == Entries(cmdq[q])
           E2(q) == Entries(cmdq'[q])
<1>1. /\ scene' = scene /\ at \in RingIds /\ todo = << >> /\ replay = << >>
      /\ cmdq'[at] = Dequeue(cmdq[at], RetireCount(cmdq[at]))
      /\ \A q \in RingIds : q # at => cmdq'[q] = cmdq[q]
      BY RetireRingQueues DEF IInv
<1>2. /\ step = "retire" /\ step' # "submit"
      /\ UNCHANGED <<todo, replay, hw, retired, bad, sent, queuedTs>>
      BY DEF RetireRing
<1>3. /\ \A q \in RingIds : E(q) \in Seq(Commands) /\ hw[q] \in Seq(Commands) /\ QOK(cmdq[q])
      /\ DqSize \in Nat \ {0}
      /\ \A c \in Contexts : RbOf(c) \in RingIds
      /\ retired \in [Contexts -> Nat]
      /\ \A c \in Contexts \ bad : Placed(c, retired[c], LastSent(c), OnItsWay(c), Held(c))
                                   /\ LastSent(c) \in Nat
      BY WhereFacts
<1>4. Recovering = {} /\ Recovering' = {} BY <1>1, <1>2, NoneRecovering DEF Recovering
<1>5. \A q \in RingIds : E2(q) = E(q) \/ \E n : Dropped(E2(q), E(q), n, retired)
  <2> SUFFICES ASSUME NEW q \in RingIds
               PROVE  E2(q) = E(q) \/ \E n : Dropped(E2(q), E(q), n, retired)
      OBVIOUS
  <2>1. CASE q = at
    <3>1. Dropped(Entries(Dequeue(cmdq[at], RetireCount(cmdq[at]))), Entries(cmdq[at]),
                  RetireCount(cmdq[at]), retired)
          BY <1>1, <1>3, RetiredOff
    <3>2. Dropped(E2(q), E(q), RetireCount(cmdq[at]), retired) BY <1>1, <2>1, <3>1
    <3> QED BY <3>2
  <2>2. CASE q # at BY <1>1, <2>2
  <2> QED BY <2>1, <2>2
<1> HIDE DEF E, E2
<1>6. \A q \in RingIds : E2(q) \in Seq(Commands) BY <1>3, <1>5 DEF Dropped
<1>7. ASSUME NEW c \in Contexts
      PROVE  /\ OnItsWay(c) = hw[RbOf(c)] /\ Held(c) = E(RbOf(c))
             /\ OnItsWay(c)' = hw[RbOf(c)] /\ Held(c)' = E2(RbOf(c))
             /\ LastSent(c)' = LastSent(c)
  <2>1. OnItsWay(c) = hw[RbOf(c)] \o << >> /\ Held(c) = E(RbOf(c)) \o << >>
        BY <1>1, <1>4 DEF OnItsWay, Held, E
  <2>2. OnItsWay(c)' = hw[RbOf(c)] \o << >> /\ Held(c)' = E2(RbOf(c)) \o << >>
        BY <1>1, <1>2, <1>4, NextPlaces DEF E2
  <2>3. LastSent(c)' = LastSent(c) BY <1>2 DEF LastSent
  <2> QED BY <1>3, <1>6, <2>1, <2>2, <2>3, NothingBehind
<1>8. ASSUME NEW c \in Contexts \ bad
      PROVE  Placed(c, retired'[c], LastSent(c)', OnItsWay(c)', Held(c)')
  <2>1. Placed(c, retired[c], LastSent(c), hw[RbOf(c)], E(RbOf(c))) /\ LastSent(c) \in Nat
        BY <1>3, <1>7
  <2>2. CASE E2(RbOf(c)) = E(RbOf(c)) BY <1>2, <1>7, <2>1, <2>2
  <2>3. ASSUME NEW n, Dropped(E2(RbOf(c)), E(RbOf(c)), n, retired)
        PROVE  Placed(c, retired[c], LastSent(c), hw[RbOf(c)], E2(RbOf(c)))
    <3> DEFINE d == E2(RbOf(c))
               e == E(RbOf(c))
    <3> HIDE DEF d, e
    <3>1. /\ d \in Seq(Commands) /\ e \in Seq(Commands) /\ n \in 0 .. Len(e)
          /\ Len(d) = Len(e) - n
          /\ \A k \in 1 .. Len(e) - n : d[k] = e[n + k]
          /\ \A k \in 1 .. n : retired[e[k][1]] >= e[k][2]
          BY <2>3 DEF Dropped, d, e
    <3>2. Placed(c, retired[c], LastSent(c), hw[RbOf(c)], e) BY <2>1 DEF e
    <3>3. Placed(c, retired[c], LastSent(c), hw[RbOf(c)], d) BY <1>3, <2>1, <3>1, <3>2, PlacedDrop
    <3> QED BY <3>3 DEF d
  <2> QED BY <1>2, <1>3, <1>5, <1>7, <2>2, <2>3
<1>9. NoCommandLost' BY <1>2, <1>8, PlacedIs
<1>10. Whereabouts BY DEF IInv
<1>11. \A c \in Contexts : InOrder(c, OnItsWay(c)') /\ InOrder(c, Held(c)')
  <2> SUFFICES ASSUME NEW c \in Contexts PROVE InOrder(c, OnItsWay(c)') /\ InOrder(c, Held(c)')
      OBVIOUS
  <2>1. InOrder(c, hw[RbOf(c)]) /\ InOrder(c, E(RbOf(c))) BY <1>7, <1>10 DEF Whereabouts
  <2>2. InOrder(c, E2(RbOf(c))) BY <1>3, <1>5, <2>1, DroppedFacts
  <2> QED BY <1>7, <2>1, <2>2
<1>12. \A q, z : Known(q, z)' <=> Known(q, z) BY <1>1, <1>2 DEF Known, RbOf
<1>13. ASSUME NEW q \in RingIds
       PROVE  /\ \A k \in DOMAIN E2(q) : Known(q, E2(q)[k])
              /\ \A k \in DOMAIN hw[q] : Known(q, hw[q][k])
              /\ Agree(E2(q), hw[q]) /\ Over(retired, E2(q), hw[q])
  <2>1. /\ \A k \in DOMAIN E(q) : Known(q, E(q)[k])
        /\ \A k \in DOMAIN hw[q] : Known(q, hw[q][k])
        BY <1>10 DEF Whereabouts, E
  <2>2. Agree(E(q), hw[q]) /\ Over(retired, E(q), hw[q]) BY <1>4, <1>10 DEF Whereabouts, E
  <2>3. CASE E2(q) = E(q) BY <2>1, <2>2, <2>3
  <2>4. ASSUME NEW n, Dropped(E2(q), E(q), n, retired)
        PROVE  /\ \A k \in DOMAIN E2(q) : Known(q, E2(q)[k])
               /\ Agree(E2(q), hw[q]) /\ Over(retired, E2(q), hw[q])
    <3>1. \A k \in DOMAIN E2(q) : \E j \in DOMAIN E(q) : E2(q)[k] = E(q)[j]
          BY <2>4, DroppedFacts
    <3>2. Agree(E2(q), hw[q]) /\ Over(retired, E2(q), hw[q])
          BY <1>3, <2>2, <2>4, DroppedFacts
    <3> QED BY <2>1, <3>1, <3>2
  <2> QED BY <1>5, <2>1, <2>3, <2>4
<1>14. Whereabouts'
  <2>1. RingIds' = RingIds BY <1>1 DEF RingIds
  <2>2. \A q \in RingIds :
           /\ \A k \in DOMAIN Entries(cmdq'[q]) : Known(q, Entries(cmdq[q])[k])'
           /\ \A k \in DOMAIN hw[q] : Known(q, hw[q][k])'
        BY <1>1, <1>2, <1>13 DEF Known, RbOf, E2
  <2>3. \A q \in RingIds : Agree(Entries(cmdq'[q]), hw[q])
                           /\ Over(retired, Entries(cmdq'[q]), hw[q])
        BY <1>13 DEF E2
  <2>4. \A k \in DOMAIN replay' : replay'[k][2] <= queuedTs'[replay'[k][1]] BY <1>1, <1>2
  <2> QED BY <1>2, <1>4, <1>11, <2>1, <2>2, <2>3, <2>4 DEF Whereabouts
<1> QED BY <1>9, <1>14

(* The reset: what survives in the dispatch queues is what was sent and did *)
(* not retire.                                                              *)
LEMMA DoFaultCommands ==
    ASSUME IInv, DoFault
    PROVE  Whereabouts' /\ NoCommandLost'
<1> DEFINE E(q) == Entries(cmdq[q])
           E2(q) == Entries(cmdq'[q])
<1>1. /\ scene' = scene /\ Recovering' = RingIds
      /\ todo = << >> /\ replay = << >> /\ replay' = << >>
      /\ \A q \in RingIds : cmdq'[q] = Dequeue(cmdq[q], RetireCount(cmdq[q]))
      /\ \A q \in RingIds : hw'[q] = << >>
      BY DoFaultQueues DEF IInv
<1>2. /\ step = "fault" /\ step' # "submit" /\ UNCHANGED <<retired, bad, sent, queuedTs>>
      BY DEF DoFault
<1>3. /\ \A q \in RingIds : E(q) \in Seq(Commands) /\ hw[q] \in Seq(Commands) /\ QOK(cmdq[q])
      /\ DqSize \in Nat \ {0}
      /\ \A c \in Contexts : RbOf(c) \in RingIds
      /\ retired \in [Contexts -> Nat]
      /\ \A c \in Contexts \ bad : Placed(c, retired[c], LastSent(c), OnItsWay(c), Held(c))
                                   /\ LastSent(c) \in Nat
      BY WhereFacts
<1>4. Recovering = {} BY <1>1, NoneRecovering
<1>5. \A q \in RingIds : Dropped(E2(q), E(q), RetireCount(cmdq[q]), retired)
  <2> SUFFICES ASSUME NEW q \in RingIds
               PROVE  Dropped(E2(q), E(q), RetireCount(cmdq[q]), retired)
      OBVIOUS
  <2>1. Dropped(Entries(Dequeue(cmdq[q], RetireCount(cmdq[q]))), Entries(cmdq[q]),
                RetireCount(cmdq[q]), retired)
        BY <1>3, RetiredOff
  <2> QED BY <1>1, <2>1
<1> HIDE DEF E, E2
<1>6. \A q \in RingIds : E2(q) \in Seq(Commands) BY <1>5 DEF Dropped
<1>7. ASSUME NEW c \in Contexts
      PROVE  /\ OnItsWay(c) = hw[RbOf(c)] /\ Held(c) = E(RbOf(c))
             /\ OnItsWay(c)' = E2(RbOf(c)) /\ Held(c)' = E2(RbOf(c))
             /\ LastSent(c)' = LastSent(c)
  <2>1. OnItsWay(c) = hw[RbOf(c)] \o << >> /\ Held(c) = E(RbOf(c)) \o << >>
        BY <1>1, <1>4 DEF OnItsWay, Held, E
  <2>2. OnItsWay(c)' = E2(RbOf(c)) \o << >> /\ Held(c)' = E2(RbOf(c)) \o << >>
        BY <1>1, <1>3, NextPlaces DEF E2
  <2>3. LastSent(c)' = LastSent(c) BY <1>2 DEF LastSent
  <2> QED BY <1>3, <1>6, <2>1, <2>2, <2>3, NothingBehind
<1>8. Whereabouts BY DEF IInv
<1>9. \A q \in RingIds : Agree(E(q), hw[q]) /\ Over(retired, E(q), hw[q])
      BY <1>4, <1>8 DEF Whereabouts, E
<1>10. ASSUME NEW c \in Contexts \ bad
       PROVE  Placed(c, retired'[c], LastSent(c)', OnItsWay(c)', Held(c)')
  <2>1. Placed(c, retired[c], LastSent(c), hw[RbOf(c)], E(RbOf(c))) /\ LastSent(c) \in Nat
        /\ RbOf(c) \in RingIds
        BY <1>3, <1>7
  <2> DEFINE d == E2(RbOf(c))
             e == E(RbOf(c))
             h == hw[RbOf(c)]
             n == RetireCount(cmdq[RbOf(c)])
  <2>2. Dropped(d, e, n, retired) /\ Agree(e, h) /\ Over(retired, e, h) /\ h \in Seq(Commands)
        BY <1>3, <1>5, <1>9, <2>1
  <2> HIDE DEF d, e, h, n
  <2>3. /\ d \in Seq(Commands) /\ e \in Seq(Commands) /\ n \in 0 .. Len(e)
        /\ Len(d) = Len(e) - n
        /\ \A k \in 1 .. Len(e) - n : d[k] = e[n + k]
        /\ \A k \in 1 .. n : retired[e[k][1]] >= e[k][2]
        BY <2>2 DEF Dropped
  <2>4. Placed(c, retired[c], LastSent(c), h, e) BY <2>1 DEF e, h
  <2>5. Placed(c, retired[c], LastSent(c), h, d) BY <1>3, <2>1, <2>3, <2>4, PlacedDrop
  <2>6. Stamps(c, d) \subseteq Stamps(c, h) BY <2>2, DroppedFacts
  <2>7. Placed(c, retired[c], LastSent(c), d, d) BY <2>5, <2>6, PlacedSurvivors
  <2> QED BY <1>2, <1>7, <2>7 DEF d
<1>11. NoCommandLost' BY <1>2, <1>10, PlacedIs
<1>12. \A c \in Contexts : InOrder(c, OnItsWay(c)') /\ InOrder(c, Held(c)')
  <2> SUFFICES ASSUME NEW c \in Contexts PROVE InOrder(c, OnItsWay(c)') /\ InOrder(c, Held(c)')
      OBVIOUS
  <2>1. InOrder(c, E(RbOf(c))) BY <1>7, <1>8 DEF Whereabouts
  <2>2. InOrder(c, E2(RbOf(c))) BY <1>3, <1>5, <2>1, DroppedFacts
  <2> QED BY <1>7, <2>2
<1>13. \A q \in RingIds : \A k \in DOMAIN E2(q) : Known(q, E2(q)[k])
  <2>1. \A q \in RingIds : \A k \in DOMAIN E(q) : Known(q, E(q)[k])
        BY <1>8 DEF Whereabouts, E
  <2>2. \A q \in RingIds : \A k \in DOMAIN E2(q) : \E j \in DOMAIN E(q) : E2(q)[k] = E(q)[j]
        BY <1>5, DroppedFacts
  <2> QED BY <2>1, <2>2
<1>14. Whereabouts'
  <2>1. RingIds' = RingIds BY <1>1 DEF RingIds
  <2>2. \A q \in RingIds :
           /\ \A k \in DOMAIN Entries(cmdq'[q]) : Known(q, Entries(cmdq[q])[k])'
           /\ \A k \in DOMAIN hw'[q] : Known(q, hw[q][k])'
        BY <1>1, <1>2, <1>13 DEF Known, RbOf, E2
  <2>3. \A k \in DOMAIN replay' : replay'[k][2] <= queuedTs'[replay'[k][1]] BY <1>1
  <2> QED BY <1>1, <1>12, <2>1, <2>2, <2>3 DEF Whereabouts
<1> QED BY <1>11, <1>14

(* A step of the recovery that declares contexts guilty and empties queues, *)
(* when it leaves of the good contexts' commands what there was             *)
LEMMA GuiltyStep ==
    ASSUME IInv, NEW C, C \subseteq Contexts, SetGuilty(C), step = "recover", step' = "recover",
           UNCHANGED <<scene, hw, queuedTs>>, Recovering' \subseteq Recovering,
           \A q \in RingIds : Entries(cmdq'[q]) = Entries(cmdq[q]) \/ Entries(cmdq'[q]) = << >>,
           \A q \in Recovering \ Recovering' : Entries(cmdq'[q]) = << >>,
           \A k \in DOMAIN replay' : replay'[k][2] <= queuedTs[replay'[k][1]],
           \A c \in Contexts : InOrder(c, OnItsWay(c)') /\ InOrder(c, Held(c)'),
           \A c \in Contexts \ bad' : /\ Stamps(c, OnItsWay(c)') = Stamps(c, OnItsWay(c))
                                      /\ Stamps(c, Held(c)') = Stamps(c, Held(c))
    PROVE  Whereabouts' /\ NoCommandLost'
<1>1. Whereabouts BY DEF IInv
<1>2. /\ \A q \in RingIds : Entries(cmdq[q]) \in Seq(Commands) /\ hw[q] \in Seq(Commands)
      /\ \A c \in Contexts : queuedTs[c] \in Nat
      /\ retired \in [Contexts -> Nat]
      BY WhereFacts
<1>3. /\ bad' = bad \cup C
      /\ \A c \in Contexts : retired'[c] = IF c \in C THEN queuedTs[c] ELSE retired[c]
      /\ \A c \in Contexts : sent'[c] = IF c \in C THEN queuedTs[c] ELSE sent[c]
      BY DEF SetGuilty
<1>4. NoCommandLost'
  <2>1. \A c \in Contexts \ bad' : retired'[c] = retired[c] /\ LastSent(c)' = LastSent(c)
        BY <1>3 DEF LastSent
  <2>2. \A c \in Contexts \ bad' :
           Alike(c, OnItsWay(c), OnItsWay(c)') /\ Alike(c, Held(c), Held(c)')
        BY <1>1 DEF Alike, Whereabouts
  <2> QED BY <1>3, <2>1, <2>2, AlikeStep
<1>5. ASSUME NEW q \in RingIds
      PROVE  /\ \A k \in DOMAIN Entries(cmdq'[q]) : Known(q, Entries(cmdq[q])[k])'
             /\ \A k \in DOMAIN hw[q] : Known(q, hw[q][k])'
  <2>1. /\ \A k \in DOMAIN Entries(cmdq[q]) : Known(q, Entries(cmdq[q])[k])
        /\ \A k \in DOMAIN hw[q] : Known(q, hw[q][k])
        BY <1>1 DEF Whereabouts
  <2> QED BY <2>1 DEF Known, RbOf
<1>6. \A q \in Recovering' : hw[q] = << >> BY <1>1 DEF Whereabouts
<1>7. ASSUME NEW q \in RingIds \ Recovering'
      PROVE  Agree(Entries(cmdq'[q]), hw[q]) /\ Over(retired', Entries(cmdq'[q]), hw[q])
  <2> DEFINE e == Entries(cmdq[q])
             g == hw[q]
  <2>1. CASE Entries(cmdq'[q]) = << >> BY <2>1 DEF Agree, Over
  <2>2. CASE Entries(cmdq'[q]) # << >>
    <3>1. Entries(cmdq'[q]) = e /\ q \notin Recovering BY <2>2
    <3>2. Agree(e, g) /\ Over(retired, e, g) BY <1>1, <3>1 DEF Whereabouts
    <3>3. DOMAIN e = 1 .. Len(e) /\ \A k \in 1 .. Len(e) : e[k] \in Commands
          BY <1>2, LenProperties
    <3>4. \A k \in 1 .. Len(e) : e[k][2] <= queuedTs[e[k][1]]
          BY <1>1, <3>3 DEF Whereabouts, Known
    <3> HIDE DEF e, g
    <3>5. ASSUME NEW k \in 1 .. Len(e), retired[e[k][1]] >= e[k][2]
          PROVE  retired'[e[k][1]] >= e[k][2]
      <4> DEFINE c == e[k][1]
                 m == e[k][2]
      <4>1. c \in Contexts /\ m \in Nat /\ m <= queuedTs[c] /\ retired[c] >= m
            BY <3>3, <3>4, <3>5, CommandFacts
      <4> HIDE DEF c, m
      <4>2. queuedTs[c] \in Nat /\ retired[c] \in Nat BY <1>2, <4>1
      <4>3. retired'[c] = queuedTs[c] \/ retired'[c] = retired[c] BY <1>3, <4>1
      <4>4. retired'[c] >= m BY <4>1, <4>2, <4>3
      <4> QED BY <4>4 DEF c, m
    <3>6. Over(retired', e, g) BY <3>2, <3>5 DEF Over
    <3> QED BY <3>1, <3>2, <3>6 DEF g
  <2> QED BY <2>1, <2>2
<1>8. RingIds' = RingIds BY DEF RingIds
<1>9. \A k \in DOMAIN replay' : replay'[k][2] <= queuedTs'[replay'[k][1]] OBVIOUS
<1>10. Whereabouts' BY <1>5, <1>6, <1>7, <1>8, <1>9 DEF Whereabouts
<1> QED BY <1>4, <1>10

(* A ring is recovered: what its queue held and is not of a guilty context  *)
(* is now to be replayed, and nothing of it is anywhere else.               *)
LEMMA RecoverRingCommands ==
    ASSUME IInv, RecoverRing
    PROVE  Whereabouts' /\ NoCommandLost'
<1> DEFINE r == Head(todo)
           e == Entries(cmdq[r])
           E(c) == Entries(cmdq[RbOf(c)])
           E2(c) == Entries(cmdq'[RbOf(c)])
           h(c) == hw[RbOf(c)]
<1>1. /\ scene' = scene /\ r \in RingIds /\ r \in Recovering /\ Recovering' = Recovering \ {r}
      /\ Entries(cmdq'[r]) = << >> /\ UNCHANGED hw
      /\ \A q \in RingIds : q # r => cmdq'[q] = cmdq[q]
      /\ e \in Seq(Commands)
      /\ replay = << >> /\ replay' = Replayed(e, bad')
      BY RecoverRingQueues DEF IInv
<1>2. step = "recover" /\ step' = "recover" /\ UNCHANGED queuedTs BY DEF RecoverRing
<1>3. PICK C \in Culprits(e, flt) : SetGuilty(C) BY DEF RecoverRing
<1>4. C \subseteq Contexts BY <1>1, <1>3, CulpritFacts
<1>5. /\ \A q \in RingIds : Entries(cmdq[q]) \in Seq(Commands) /\ hw[q] \in Seq(Commands)
      /\ \A c \in Contexts : RbOf(c) \in RingIds /\ InOrder(c, E(c))
      BY WhereFacts
<1>6. Whereabouts BY DEF IInv
<1>7. hw[r] = << >> /\ \A k \in DOMAIN e : RbOf(e[k][1]) = r /\ e[k][2] <= queuedTs[e[k][1]]
      BY <1>1, <1>6 DEF Whereabouts, Known
<1> DEFINE p == Replayed(e, bad')
<1>8. /\ p \in Seq(Commands)
      /\ \A i \in 1 .. Len(p) : p[i][1] \notin bad' /\ \E k \in 1 .. Len(e) : p[i] = e[k]
      /\ \A c : c \notin bad' => /\ Stamps(c, p) = Stamps(c, e)
                                 /\ InOrder(c, e) => InOrder(c, p)
  <2> HIDE DEF e
  <2> QED BY <1>1, ReplayedFacts
<1>9. DOMAIN p = 1 .. Len(p) /\ DOMAIN e = 1 .. Len(e) BY <1>1, <1>8, LenProperties
<1> HIDE DEF p
<1>10. \A i \in DOMAIN p : /\ p[i][1] \notin bad' /\ RbOf(p[i][1]) = r
                           /\ p[i][2] <= queuedTs[p[i][1]]
       BY <1>7, <1>8, <1>9
<1>11. replay' = p BY <1>1 DEF p
<1>12. ASSUME NEW c \in Contexts
       PROVE  /\ InOrder(c, OnItsWay(c)') /\ InOrder(c, Held(c)')
              /\ c \notin bad' => /\ Stamps(c, OnItsWay(c)') = Stamps(c, OnItsWay(c))
                                  /\ Stamps(c, Held(c)') = Stamps(c, Held(c))
  <2>1. E(c) \in Seq(Commands) /\ h(c) \in Seq(Commands) BY <1>5
  <2>2. /\ Held(c) = E(c) \o << >> /\ Held(c)' = E2(c) \o p
        /\ OnItsWay(c) = IF RbOf(c) \in Recovering THEN E(c) \o << >> ELSE h(c) \o << >>
        /\ OnItsWay(c)' = IF RbOf(c) \in Recovering' THEN E2(c) \o p ELSE h(c) \o p
        BY <1>1, <1>11, NextPlaces DEF OnItsWay, Held
  <2>3. InOrder(c, OnItsWay(c)) /\ InOrder(c, Held(c)) BY <1>6 DEF Whereabouts
  <2>4. CASE RbOf(c) = r
    <3>1. /\ Held(c) = e /\ OnItsWay(c) = e /\ InOrder(c, e)
          /\ Held(c)' = << >> \o p /\ OnItsWay(c)' = << >> \o p
      <4>1. E(c) = e /\ E2(c) = << >> /\ h(c) = << >> BY <1>1, <1>7, <2>4
      <4>2. e \o << >> = e BY <1>1, NothingBehind
      <4>3. RbOf(c) \in Recovering /\ RbOf(c) \notin Recovering' BY <1>1, <2>4
      <4> HIDE DEF E, E2, h, e, r
      <4> QED BY <2>2, <2>3, <4>1, <4>2, <4>3
    <3>2. Held(c)' = p /\ OnItsWay(c)' = p BY <1>8, <3>1, NothingBehind
    <3> HIDE DEF e, E, E2, h, r
    <3>3. CASE c \notin bad' BY <1>8, <3>1, <3>2, <3>3
    <3>4. CASE c \in bad'
      <4>1. \A k \in DOMAIN p : p[k][1] # c BY <1>10, <3>4
      <4>2. InOrder(c, p) BY <1>8, <4>1, AbsentFacts
      <4> QED BY <3>2, <3>4, <4>2
    <3> QED BY <3>3, <3>4
  <2>5. CASE RbOf(c) # r
    <3>1. E2(c) = E(c) BY <1>1, <1>5, <2>5
    <3>2. \A k \in DOMAIN p : p[k][1] # c BY <1>10, <2>5
    <3>3. RbOf(c) \in Recovering <=> RbOf(c) \in Recovering' BY <1>1, <2>5
    <3> HIDE DEF e, E, E2, h, r
    <3>4. Stamps(c, p) = {} /\ InOrder(c, p) BY <1>8, <3>2, AbsentFacts
    <3>5. Alike(c, << >>, p) /\ Alike(c, E(c), E(c)) /\ Alike(c, h(c), h(c))
          BY <3>4, EmptyFacts DEF Alike
    <3>6. << >> \in Seq(Commands) OBVIOUS
    <3>7. Alike(c, E(c) \o << >>, E(c) \o p) BY <1>8, <2>1, <3>5, <3>6, AlikeConcat
    <3>8. Alike(c, h(c) \o << >>, h(c) \o p) BY <1>8, <2>1, <3>5, <3>6, AlikeConcat
    <3>9. Alike(c, OnItsWay(c), OnItsWay(c)') /\ Alike(c, Held(c), Held(c)')
          BY <2>2, <3>1, <3>3, <3>7, <3>8
    <3> QED BY <2>3, <3>9 DEF Alike
  <2> QED BY <2>4, <2>5
<1>13. /\ \A q \in RingIds : Entries(cmdq'[q]) = Entries(cmdq[q]) \/ Entries(cmdq'[q]) = << >>
       /\ Recovering' \subseteq Recovering
       /\ \A q \in Recovering \ Recovering' : Entries(cmdq'[q]) = << >>
       BY <1>1
<1>14. \A k \in DOMAIN replay' : replay'[k][2] <= queuedTs[replay'[k][1]] BY <1>10, <1>11
<1> QED BY <1>1, <1>2, <1>3, <1>4, <1>12, <1>13, <1>14, GuiltyStep

(* Every context of the ring is guilty: nothing is left to replay.          *)
LEMMA RecoverFailsCommands ==
    ASSUME IInv, RecoverFails
    PROVE  Whereabouts' /\ NoCommandLost'
<1> DEFINE r == Head(todo)
           e == Entries(cmdq[r])
           E(c) == Entries(cmdq[RbOf(c)])
           E2(c) == Entries(cmdq'[RbOf(c)])
           h(c) == hw[RbOf(c)]
           C == {e[k][1] : k \in DOMAIN e}
<1>1. /\ scene' = scene /\ r \in RingIds /\ r \in Recovering /\ Recovering' = Recovering \ {r}
      /\ Entries(cmdq'[r]) = << >> /\ UNCHANGED hw
      /\ \A q \in RingIds : q # r => cmdq'[q] = cmdq[q]
      /\ e \in Seq(Commands)
      /\ replay = << >> /\ replay' = << >>
      BY RecoverFailsQueues DEF IInv
<1>2. step = "recover" /\ step' = "recover" /\ UNCHANGED queuedTs /\ SetGuilty(C)
      BY DEF RecoverFails
<1>3. C \subseteq Contexts BY <1>1, EveryoneFacts
<1>4. C \subseteq bad' BY <1>2 DEF SetGuilty
<1>5. /\ \A q \in RingIds : Entries(cmdq[q]) \in Seq(Commands) /\ hw[q] \in Seq(Commands)
      /\ \A c \in Contexts : RbOf(c) \in RingIds
      BY WhereFacts
<1>6. Whereabouts BY DEF IInv
<1>7. hw[r] = << >> BY <1>1, <1>6 DEF Whereabouts
<1>8. \A c \in Contexts : c \notin bad' => Stamps(c, e) = {} BY <1>4 DEF Stamps
<1>9. ASSUME NEW c \in Contexts
      PROVE  /\ InOrder(c, OnItsWay(c)') /\ InOrder(c, Held(c)')
             /\ c \notin bad' => /\ Stamps(c, OnItsWay(c)') = Stamps(c, OnItsWay(c))
                                 /\ Stamps(c, Held(c)') = Stamps(c, Held(c))
  <2>1. E(c) \in Seq(Commands) /\ h(c) \in Seq(Commands) BY <1>5
  <2>2. /\ Held(c) = E(c) \o << >> /\ Held(c)' = E2(c) \o << >>
        /\ OnItsWay(c) = IF RbOf(c) \in Recovering THEN E(c) \o << >> ELSE h(c) \o << >>
        /\ OnItsWay(c)' = IF RbOf(c) \in Recovering' THEN E2(c) \o << >> ELSE h(c) \o << >>
        BY <1>1, NextPlaces DEF OnItsWay, Held
  <2>3. InOrder(c, OnItsWay(c)) /\ InOrder(c, Held(c)) BY <1>6 DEF Whereabouts
  <2>4. CASE RbOf(c) = r
    <3>1. E(c) = e /\ E2(c) = << >> /\ h(c) = << >> BY <1>1, <1>7, <2>4
    <3>2. e \o << >> = e /\ << >> \o << >> = << >> BY <1>1, NothingBehind
    <3>3. RbOf(c) \in Recovering /\ RbOf(c) \notin Recovering' BY <1>1, <2>4
    <3> HIDE DEF E, E2, h, e, r, C
    <3>4. Held(c) = e /\ OnItsWay(c) = e /\ Held(c)' = << >> /\ OnItsWay(c)' = << >>
          BY <2>2, <3>1, <3>2, <3>3
    <3>5. Stamps(c, << >>) = {} /\ InOrder(c, << >>) BY EmptyFacts
    <3> QED BY <1>8, <3>4, <3>5
  <2>5. CASE RbOf(c) # r
    <3>1. E2(c) = E(c) BY <1>1, <1>5, <2>5
    <3>2. RbOf(c) \in Recovering <=> RbOf(c) \in Recovering' BY <1>1, <2>5
    <3>3. OnItsWay(c)' = OnItsWay(c) /\ Held(c)' = Held(c) BY <2>2, <3>1, <3>2
    <3> QED BY <2>3, <3>3
  <2> QED BY <2>4, <2>5
<1>10. /\ \A q \in RingIds : Entries(cmdq'[q]) = Entries(cmdq[q]) \/ Entries(cmdq'[q]) = << >>
       /\ Recovering' \subseteq Recovering
       /\ \A q \in Recovering \ Recovering' : Entries(cmdq'[q]) = << >>
       BY <1>1
<1>11. \A k \in DOMAIN replay' : replay'[k][2] <= queuedTs[replay'[k][1]] BY <1>1
<1> HIDE DEF C
<1> QED BY <1>1, <1>2, <1>3, <1>9, <1>10, <1>11, GuiltyStep

LEMMA ReplayFailsCommands ==
    ASSUME IInv, ReplayFails
    PROVE  Whereabouts' /\ NoCommandLost'
<1> DEFINE x == Head(replay)
           t == Tail(replay)
           C == {x[1]}
           E(c) == Entries(cmdq[RbOf(c)])
           h(c) == hw[RbOf(c)]
<1>1. /\ scene' = scene /\ UNCHANGED <<cmdq, hw, todo>>
      /\ x \in Commands /\ t \in Seq(Commands) /\ replay # << >>
      /\ replay' = Replayed(t, bad')
      BY ReplayFailsQueues DEF IInv
<1>2. step = "recover" /\ step' = "recover" /\ UNCHANGED queuedTs /\ SetGuilty(C)
      BY DEF ReplayFails
<1>3. C \subseteq Contexts BY <1>1, CommandFacts
<1>4. x[1] \in bad' BY <1>2 DEF SetGuilty
<1>5. /\ \A q \in RingIds : Entries(cmdq[q]) \in Seq(Commands) /\ hw[q] \in Seq(Commands)
      /\ \A c \in Contexts : RbOf(c) \in RingIds
      /\ replay \in Seq(Commands)
      BY WhereFacts
<1>6. Whereabouts BY DEF IInv
<1>7. Recovering' = Recovering BY <1>1 DEF Recovering
<1> DEFINE p == Replayed(t, bad')
<1>8. /\ p \in Seq(Commands)
      /\ \A i \in 1 .. Len(p) : p[i][1] \notin bad' /\ \E k \in 1 .. Len(t) : p[i] = t[k]
      /\ \A c : c \notin bad' => /\ Stamps(c, p) = Stamps(c, t)
                                 /\ InOrder(c, t) => InOrder(c, p)
  <2> HIDE DEF t
  <2> QED BY <1>1, ReplayedFacts
<1>9. DOMAIN p = 1 .. Len(p) /\ DOMAIN replay = 1 .. Len(replay) BY <1>5, <1>8, LenProperties
<1>10. /\ Len(t) = Len(replay) - 1 /\ Len(replay) \in Nat /\ Len(replay) >= 1
       /\ \A k \in 1 .. Len(replay) - 1 : t[k] = replay[k + 1]
       BY <1>1, <1>5, TailFacts
<1>11. \A c : /\ Stamps(c, replay) = Stamps(c, t) \cup (IF x[1] = c THEN {x[2]} ELSE {})
              /\ InOrder(c, replay) => InOrder(c, t)
       BY <1>1, <1>5, TailFacts
<1> HIDE DEF p, x, t
<1>12. \A i \in DOMAIN p : /\ p[i][1] \notin bad' /\ p[i][2] <= queuedTs[p[i][1]]
  <2>1. \A i \in DOMAIN p : \E k \in DOMAIN replay : p[i] = replay[k]
    <3>1. \A k \in 1 .. Len(replay) - 1 : k + 1 \in 1 .. Len(replay) BY <1>10
    <3> QED BY <1>8, <1>9, <1>10, <3>1
  <2> QED BY <1>6, <1>8, <1>9, <2>1 DEF Whereabouts
<1>13. replay' = p BY <1>1 DEF p
<1>14. ASSUME NEW c, InOrder(c, replay)
       PROVE  /\ InOrder(c, p) /\ Stamps(c, p) \subseteq Stamps(c, replay)
              /\ c \notin bad' => Stamps(c, p) = Stamps(c, replay)
  <2>1. CASE c \notin bad'
    <3>1. c # x[1] BY <1>4, <2>1
    <3> QED BY <1>8, <1>11, <1>14, <2>1, <3>1
  <2>2. CASE c \in bad'
    <3>1. \A k \in DOMAIN p : p[k][1] # c BY <1>12, <2>2
    <3>2. Stamps(c, p) = {} /\ InOrder(c, p) BY <1>8, <3>1, AbsentFacts
    <3> QED BY <2>2, <3>2
  <2> QED BY <2>1, <2>2
<1>15. ASSUME NEW c, NEW s \in Seq(Commands), InOrder(c, s \o replay)
       PROVE  /\ InOrder(c, s \o p)
              /\ c \notin bad' => Stamps(c, s \o p) = Stamps(c, s \o replay)
  <2>1. /\ Stamps(c, s \o replay) = Stamps(c, s) \cup Stamps(c, replay)
        /\ InOrder(c, s \o replay) <=>
             InOrder(c, s) /\ InOrder(c, replay)
             /\ \A a \in Stamps(c, s), b \in Stamps(c, replay) : a < b
        BY <1>5, ConcatFacts
  <2>2. /\ Stamps(c, s \o p) = Stamps(c, s) \cup Stamps(c, p)
        /\ InOrder(c, s \o p) <=>
             InOrder(c, s) /\ InOrder(c, p)
             /\ \A a \in Stamps(c, s), b \in Stamps(c, p) : a < b
        BY <1>8, ConcatFacts
  <2> QED BY <1>14, <1>15, <2>1, <2>2
<1>16. ASSUME NEW c \in Contexts
       PROVE  /\ InOrder(c, OnItsWay(c)') /\ InOrder(c, Held(c)')
              /\ c \notin bad' => /\ Stamps(c, OnItsWay(c)') = Stamps(c, OnItsWay(c))
                                  /\ Stamps(c, Held(c)') = Stamps(c, Held(c))
  <2>1. E(c) \in Seq(Commands) /\ h(c) \in Seq(Commands) BY <1>5
  <2>2. /\ Held(c) = E(c) \o replay /\ Held(c)' = E(c) \o p
        /\ OnItsWay(c) = IF RbOf(c) \in Recovering THEN E(c) \o replay ELSE h(c) \o replay
        /\ OnItsWay(c)' = IF RbOf(c) \in Recovering THEN E(c) \o p ELSE h(c) \o p
        BY <1>1, <1>7, <1>13, NextPlaces DEF OnItsWay, Held
  <2>3. InOrder(c, OnItsWay(c)) /\ InOrder(c, Held(c)) BY <1>6 DEF Whereabouts
  <2> HIDE DEF E, h
  <2> QED BY <1>15, <2>1, <2>2, <2>3
<1>17. /\ \A q \in RingIds : Entries(cmdq'[q]) = Entries(cmdq[q]) \/ Entries(cmdq'[q]) = << >>
       /\ Recovering' \subseteq Recovering
       /\ \A q \in Recovering \ Recovering' : Entries(cmdq'[q]) = << >>
       BY <1>1, <1>7
<1>18. \A k \in DOMAIN replay' : replay'[k][2] <= queuedTs[replay'[k][1]] BY <1>12, <1>13
<1> HIDE DEF C
<1> QED BY <1>1, <1>2, <1>3, <1>16, <1>17, <1>18, GuiltyStep

(* A slumber empties the ringbuffers.  The power vote says that the queues  *)
(* are empty then, so nothing that was sent is still to retire.             *)
LEMMA IdleCheckCommands ==
    ASSUME IInv, IdleCheck
    PROVE  Whereabouts' /\ NoCommandLost'
<1> DEFINE E(c) == Entries(cmdq[RbOf(c)])
           h(c) == hw[RbOf(c)]
<1>1. /\ UNCHANGED <<scene, cmdq, todo, replay, retired, bad, sent, queuedTs, step, ctx>>
      /\ cnt = 0 /\ hw' = [r \in RingIds |-> << >>]
      BY DEF IdleCheck, MaySlumber
<1>2. /\ scene \in Scenes /\ replay \in Seq(Commands) /\ DqSize \in Nat \ {0}
      /\ \A q \in RingIds : /\ Entries(cmdq[q]) \in Seq(Commands) /\ hw[q] \in Seq(Commands)
                            /\ QOK(cmdq[q])
      /\ \A c \in Contexts : RbOf(c) \in RingIds /\ InOrder(c, replay)
      /\ \A c \in Contexts \ bad : Placed(c, retired[c], LastSent(c), OnItsWay(c), Held(c))
      BY WhereFacts
<1>3. inflight = 0
  <2>1. inflight \in Nat /\ powered \in BOOLEAN BY TypeParts DEF IInv, TypeQueues, TypeFlags
  <2>2. powered => cnt >= 1 BY DEF IInv, VoteMatchesWork
  <2>3. ~powered BY <1>1, <2>2
  <2> QED BY <2>1, <2>3 DEF IInv, VoteMatchesWork
<1>4. \A q \in RingIds \ Recovering : Entries(cmdq[q]) = << >>
  <2> SUFFICES ASSUME NEW q \in RingIds \ Recovering PROVE Entries(cmdq[q]) = << >>
      OBVIOUS
  <2>1. cmdq[q].inflight = 0 BY <1>2, <1>3, NothingInFlight DEF IInv
  <2>2. Len(Entries(cmdq[q])) = cmdq[q].inflight BY <1>2, QueueFacts
  <2> QED BY <1>2, <2>1, <2>2, EmptySeq
<1>5. Recovering' = Recovering /\ RingIds' = RingIds BY <1>1 DEF Recovering, RingIds
<1>6. \A q \in RingIds : hw'[q] = << >> BY <1>1
<1>7. \A c \in Contexts : LastSent(c)' = LastSent(c) BY <1>1 DEF LastSent
<1>8. ASSUME NEW c \in Contexts
      PROVE  /\ Held(c)' = Held(c)
             /\ \/ OnItsWay(c)' = OnItsWay(c)
                \/ /\ OnItsWay(c) = h(c) \o replay /\ OnItsWay(c)' = replay
                   /\ Held(c) = replay
  <2>1. E(c) \in Seq(Commands) /\ h(c) \in Seq(Commands) /\ RbOf(c) \in RingIds BY <1>2
  <2>2. /\ Held(c) = E(c) \o replay /\ Held(c)' = E(c) \o replay
        /\ OnItsWay(c) = IF RbOf(c) \in Recovering THEN E(c) \o replay ELSE h(c) \o replay
        /\ OnItsWay(c)' = IF RbOf(c) \in Recovering THEN E(c) \o replay ELSE << >> \o replay
        BY <1>1, <1>5, <1>6, <2>1, NextPlaces DEF OnItsWay, Held
  <2>3. << >> \o replay = replay BY <1>2, NothingBehind
  <2>4. RbOf(c) \notin Recovering => E(c) = << >> BY <1>4, <2>1
  <2> HIDE DEF E, h
  <2> QED BY <2>2, <2>3, <2>4
<1>9. ASSUME NEW c \in Contexts \ bad
      PROVE  Placed(c, retired'[c], LastSent(c)', OnItsWay(c)', Held(c)')
  <2>1. Placed(c, retired[c], LastSent(c), OnItsWay(c), Held(c)) BY <1>2
  <2>2. CASE OnItsWay(c)' = OnItsWay(c) BY <1>1, <1>7, <1>8, <2>1, <2>2
  <2>3. CASE OnItsWay(c) = h(c) \o replay /\ OnItsWay(c)' = replay /\ Held(c) = replay
    <3>1. h(c) \in Seq(Commands) BY <1>2
    <3> HIDE DEF h
    <3>2. Placed(c, retired[c], LastSent(c), h(c) \o replay, replay) BY <2>1, <2>3
    <3>3. Placed(c, retired[c], LastSent(c), replay, replay) BY <1>2, <3>1, <3>2, PlacedLost
    <3> QED BY <1>1, <1>7, <1>8, <2>3, <3>3
  <2> QED BY <1>8, <2>2, <2>3
<1>10. NoCommandLost' BY <1>1, <1>9, PlacedIs
<1>11. Whereabouts BY DEF IInv
<1>12. \A c \in Contexts : InOrder(c, OnItsWay(c)') /\ InOrder(c, Held(c)')
       BY <1>2, <1>8, <1>11 DEF Whereabouts
<1>13. \A q \in RingIds :
          /\ \A k \in DOMAIN Entries(cmdq'[q]) : Known(q, Entries(cmdq[q])[k])'
          /\ \A k \in DOMAIN hw'[q] : Known(q, hw[q][k])'
       BY <1>1, <1>6, <1>11 DEF Whereabouts, Known, RbOf
<1>14. \A q \in RingIds \ Recovering :
          Agree(Entries(cmdq'[q]), hw'[q]) /\ Over(retired', Entries(cmdq'[q]), hw'[q])
       BY <1>1, <1>4 DEF Agree, Over
<1>15. \A q \in Recovering : hw'[q] = << >>
  <2>1. Recovering \subseteq RingIds BY TypeParts DEF IInv, TypeQueues, Recovering
  <2> QED BY <1>6, <2>1
<1>16. \A k \in DOMAIN replay' : replay'[k][2] <= queuedTs'[replay'[k][1]]
       BY <1>1, <1>11 DEF Whereabouts
<1>17. Whereabouts' BY <1>5, <1>12, <1>13, <1>14, <1>15, <1>16 DEF Whereabouts
<1> QED BY <1>10, <1>17

LEMMA CommandsStep ==
    ASSUME QueueHasRoom, IInv, [Next]_vars
    PROVE  Whereabouts' /\ NoCommandLost'
<1>0. TypeContexts /\ Holder BY TypeParts DEF IInv
<1>1. ASSUME NEW c \in Contexts, QueueCmd(c) PROVE Whereabouts' /\ NoCommandLost'
  <2>1. UNCHANGED <<scene, cmdq, hw, replay, todo, retired, bad, sent, step, ctx>>
        /\ queuedTs' = [queuedTs EXCEPT ![c] = queuedTs[c] + 1]
        BY <1>1 DEF QueueCmd
  <2>2. \A d \in Contexts : queuedTs'[d] \in Nat /\ queuedTs'[d] >= queuedTs[d]
        BY <1>0, <2>1 DEF TypeContexts
  <2>3. \A d \in Contexts \ bad : LastSent(d)' = LastSent(d) BY <2>1 DEF LastSent
  <2> QED BY <2>1, <2>2, <2>3, FrameCommands
<1>2. ASSUME NEW c \in Contexts, QueueJob(c) PROVE Whereabouts' /\ NoCommandLost'
      BY <1>2, <1>0, StillCommands DEF QueueJob, AddJob
<1>3. ASSUME NEW c \in Contexts, LeaveToWorker(c) PROVE Whereabouts' /\ NoCommandLost'
      BY <1>3, <1>0, StillCommands DEF LeaveToWorker
<1>4. ASSUME NEW c \in Contexts, InlineStart(c) PROVE Whereabouts' /\ NoCommandLost'
  <2>1. step = "idle" BY <1>4, <1>0 DEF Holder, InlineStart
  <2> QED BY <1>4, <2>1, StillCommands DEF InlineStart
<1>5. ASSUME NEW c \in Contexts, InlineDefer(c) PROVE Whereabouts' /\ NoCommandLost'
      BY <1>5, <1>0, StillCommands DEF InlineDefer, InlineDefers
<1>6. ASSUME NEW c \in Contexts, QueueContext(c) PROVE Whereabouts' /\ NoCommandLost'
      BY <1>6, <1>0, StillCommands DEF QueueContext, Reschedule, AddJob
<1>7. ASSUME NEW f \in Fenced, FenceFires(f) PROVE Whereabouts' /\ NoCommandLost'
      BY <1>7, <1>0, StillCommands DEF FenceFires
<1>8. ASSUME IssueStart PROVE Whereabouts' /\ NoCommandLost'
      BY <1>8, <1>0, StillCommands DEF IssueStart, TakeJobs, NoSend
<1>9. ASSUME LevelEnd PROVE Whereabouts' /\ NoCommandLost'
      BY <1>9, <1>0, StillCommands DEF LevelEnd, TakeJobs, NoSend
<1>10. ASSUME DropJob PROVE Whereabouts' /\ NoCommandLost'
      BY <1>10, <1>0, StillCommands DEF DropJob, NoSend
<1>11. ASSUME KeepJob PROVE Whereabouts' /\ NoCommandLost'
      BY <1>11, <1>0, StillCommands DEF KeepJob, PutJobBack, NoSend
<1>12. ASSUME JobBusy PROVE Whereabouts' /\ NoCommandLost'
      BY <1>12, <1>0, StillCommands DEF JobBusy, NoSend
<1>13. ASSUME StartContext PROVE Whereabouts' /\ NoCommandLost'
      BY <1>13, <1>0, StillCommands DEF StartContext, NoSend
<1>14. ASSUME PopCmd PROVE Whereabouts' /\ NoCommandLost'
  <2>1. UNCHANGED <<scene, cmdq, hw, replay, todo, retired, bad, queuedTs>>
        BY <1>14 DEF PopCmd
  <2>2. sent' = [sent EXCEPT ![ctx] = sent[ctx] + 1] /\ step = "send" /\ step' = "submit" /\ ctx' = ctx
        BY <1>14 DEF PopCmd
  <2>3. \A d \in Contexts : queuedTs'[d] \in Nat /\ queuedTs'[d] >= queuedTs[d]
        BY <1>0, <2>1 DEF TypeContexts
  <2>4. \A d \in Contexts \ bad : LastSent(d)' = LastSent(d)
    <3> SUFFICES ASSUME NEW d \in Contexts PROVE LastSent(d)' = LastSent(d) OBVIOUS
    <3>1. sent[d] \in Nat BY <1>0 DEF TypeContexts
    <3>2. LastSent(d)' = IF step' = "submit" /\ ctx' = d THEN sent'[d] - 1 ELSE sent'[d]
          BY DEF LastSent
    <3> QED BY <1>0, <2>2, <3>1, <3>2 DEF LastSent, TypeContexts
  <2> QED BY <2>1, <2>3, <2>4, FrameCommands
<1>15. ASSUME SendEnds PROVE Whereabouts' /\ NoCommandLost'
      BY <1>15, <1>0, StillCommands DEF SendEnds, ContextEnd, NoSend
<1>16. ASSUME SendBlocked PROVE Whereabouts' /\ NoCommandLost'
      BY <1>16, <1>0, StillCommands DEF SendBlocked, ContextEnd, NoSend
<1>17. ASSUME SubmitOk PROVE Whereabouts' /\ NoCommandLost'
      BY <1>17, SubmitOkCommands
<1>18. ASSUME SubmitFails PROVE Whereabouts' /\ NoCommandLost'
  <2>0. UNCHANGED <<cmdq, hw>>
    <3>1. SendFails \/ SendHalted BY <1>18 DEF SubmitFails
    <3> QED BY <3>1, Zenon, FailedSend
  <2>1. UNCHANGED <<scene, cmdq, hw, replay, todo, retired, bad, queuedTs>>
        BY <1>18, <2>0 DEF SubmitFails
  <2>2. sent' = [sent EXCEPT ![ctx] = sent[ctx] - 1] /\ step = "submit" /\ step' = "jobs"
        BY <1>18 DEF SubmitFails, PutBackCmd, ContextEnd
  <2>3. \A d \in Contexts : queuedTs'[d] \in Nat /\ queuedTs'[d] >= queuedTs[d]
        BY <1>0, <2>1 DEF TypeContexts
  <2>4. \A d \in Contexts \ bad : LastSent(d)' = LastSent(d)
    <3> SUFFICES ASSUME NEW d \in Contexts PROVE LastSent(d)' = LastSent(d) OBVIOUS
    <3>1. sent[d] \in Nat BY <1>0 DEF TypeContexts
    <3>2. LastSent(d)' = IF step' = "submit" /\ ctx' = d THEN sent'[d] - 1 ELSE sent'[d]
          BY DEF LastSent
    <3> QED BY <1>0, <2>2, <3>1, <3>2 DEF LastSent, TypeContexts
  <2> QED BY <2>1, <2>3, <2>4, FrameCommands
<1>19. ASSUME SubmitHalted PROVE Whereabouts' /\ NoCommandLost'
  <2>0. UNCHANGED <<cmdq, hw>>
    <3>1. SendFails \/ SendHalted BY <1>19 DEF SubmitHalted
    <3> QED BY <3>1, Zenon, FailedSend
  <2>1. UNCHANGED <<scene, cmdq, hw, replay, todo, retired, bad, queuedTs>>
        BY <1>19, <2>0 DEF SubmitHalted
  <2>2. sent' = [sent EXCEPT ![ctx] = sent[ctx] - 1] /\ step = "submit" /\ step' = "jobs"
        BY <1>19 DEF SubmitHalted, PutBackCmd, ContextEnd
  <2>3. \A d \in Contexts : queuedTs'[d] \in Nat /\ queuedTs'[d] >= queuedTs[d]
        BY <1>0, <2>1 DEF TypeContexts
  <2>4. \A d \in Contexts \ bad : LastSent(d)' = LastSent(d)
    <3> SUFFICES ASSUME NEW d \in Contexts PROVE LastSent(d)' = LastSent(d) OBVIOUS
    <3>1. sent[d] \in Nat BY <1>0 DEF TypeContexts
    <3>2. LastSent(d)' = IF step' = "submit" /\ ctx' = d THEN sent'[d] - 1 ELSE sent'[d]
          BY DEF LastSent
    <3> QED BY <1>0, <2>2, <3>1, <3>2 DEF LastSent, TypeContexts
  <2> QED BY <2>1, <2>3, <2>4, FrameCommands
<1>20. ASSUME WorkStart PROVE Whereabouts' /\ NoCommandLost'
  <2>1. step = "idle" BY <1>20, <1>0 DEF Holder, WorkStart
  <2> QED BY <1>20, <2>1, StillCommands DEF WorkStart
<1>21. ASSUME RetireRing PROVE Whereabouts' /\ NoCommandLost'
      BY <1>21, RetireRingCommands
<1>22. ASSUME NoFault PROVE Whereabouts' /\ NoCommandLost'
      BY <1>22, <1>0, StillCommands DEF NoFault
<1>23. ASSUME FaultDeferred PROVE Whereabouts' /\ NoCommandLost'
      BY <1>23, <1>0, StillCommands DEF FaultDeferred
<1>24. ASSUME DoFault PROVE Whereabouts' /\ NoCommandLost'
      BY <1>24, DoFaultCommands
<1>25. ASSUME RecoverRing PROVE Whereabouts' /\ NoCommandLost'
      BY <1>25, RecoverRingCommands
<1>26. ASSUME RecoverFails PROVE Whereabouts' /\ NoCommandLost'
      BY <1>26, RecoverFailsCommands
<1>27. ASSUME ReplayOk PROVE Whereabouts' /\ NoCommandLost'
      BY <1>27, ReplayOkCommands
<1>28. ASSUME ReplayFails PROVE Whereabouts' /\ NoCommandLost'
      BY <1>28, ReplayFailsCommands
<1>29. ASSUME RecoverEnd PROVE Whereabouts' /\ NoCommandLost'
      BY <1>29, <1>0, StillCommands DEF RecoverEnd, RestoredHalt
<1>30. ASSUME Finish PROVE Whereabouts' /\ NoCommandLost'
      BY <1>30, <1>0, StillCommands DEF Finish, PowerDown, KeepTimer, Idle
<1>31. ASSUME GpuRetires PROVE Whereabouts' /\ NoCommandLost'
      BY <1>31, GpuRetiresCommands
<1>32. ASSUME GpuHangs PROVE Whereabouts' /\ NoCommandLost'
      BY <1>32, <1>0, StillCommands DEF GpuHangs
<1>33. ASSUME GpuResumes PROVE Whereabouts' /\ NoCommandLost'
      BY <1>33, <1>0, StillCommands DEF GpuResumes
<1>34. ASSUME FaultIrq PROVE Whereabouts' /\ NoCommandLost'
      BY <1>34, <1>0, StillCommands DEF FaultIrq
<1>35. ASSUME TimerFires PROVE Whereabouts' /\ NoCommandLost'
      BY <1>35, <1>0, StillCommands DEF TimerFires
<1>36. ASSUME IdleCheck PROVE Whereabouts' /\ NoCommandLost'
      BY <1>36, IdleCheckCommands
<1>37. ASSUME IdleStart PROVE Whereabouts' /\ NoCommandLost'
      BY <1>37, <1>0, StillCommands DEF IdleStart
<1>38. ASSUME IdleFlushed PROVE Whereabouts' /\ NoCommandLost'
      BY <1>38, <1>0, StillCommands DEF IdleFlushed
<1>39. ASSUME IdleWaited PROVE Whereabouts' /\ NoCommandLost'
      BY <1>39, <1>0, StillCommands DEF IdleWaited, GateOpen
<1>40. ASSUME IdleEnd PROVE Whereabouts' /\ NoCommandLost'
      BY <1>40, <1>0, StillCommands DEF IdleEnd, IdleRequeues
<1>41. ASSUME SuspendPrepare PROVE Whereabouts' /\ NoCommandLost'
      BY <1>41, <1>0, StillCommands DEF SuspendPrepare, MayPrepare
<1>42. ASSUME DrainStart PROVE Whereabouts' /\ NoCommandLost'
      BY <1>42, <1>0, StillCommands DEF DrainStart
<1>43. ASSUME SuspendDenied PROVE Whereabouts' /\ NoCommandLost'
      BY <1>43, <1>0, StillCommands DEF SuspendDenied
<1>44. ASSUME SuspendDone PROVE Whereabouts' /\ NoCommandLost'
      BY <1>44, <1>0, StillCommands DEF SuspendDone, Drained
<1>45. ASSUME SuspendFails PROVE Whereabouts' /\ NoCommandLost'
      BY <1>45, <1>0, StillCommands DEF SuspendFails, Drained
<1>46. ASSUME Resume PROVE Whereabouts' /\ NoCommandLost'
      BY <1>46, <1>0, StillCommands DEF Resume, ResumeStarts
<1>47. ASSUME PostSuspend PROVE Whereabouts' /\ NoCommandLost'
      BY <1>47, <1>0, StillCommands DEF PostSuspend, PostQueues
<1>48. ASSUME NEW r \in RingIds, Preempt(r) PROVE Whereabouts' /\ NoCommandLost'
      BY <1>48, <1>0, StillCommands DEF Preempt
<1>49. ASSUME UNCHANGED vars PROVE Whereabouts' /\ NoCommandLost'
      BY <1>49, <1>0, StillCommands DEF vars
<1> QED BY <1>1, <1>2, <1>3, <1>4, <1>5, <1>6, <1>7, <1>8, <1>9, <1>10, <1>11, <1>12, <1>13, <1>14, <1>15, <1>16, <1>17, <1>18, <1>19, <1>20, <1>21, <1>22, <1>23, <1>24, <1>25, <1>26, <1>27, <1>28, <1>29, <1>30, <1>31, <1>32, <1>33, <1>34, <1>35, <1>36, <1>37, <1>38, <1>39, <1>40, <1>41, <1>42, <1>43, <1>44, <1>45, <1>46, <1>47, <1>48, <1>49 DEF Next, Issue, Work

LEMMA QueuesStep ==
    ASSUME QueueHasRoom, IInv, [Next]_vars
    PROVE  Queues'
<1>0. TypeOK /\ Holder /\ Queues /\ Whereabouts BY DEF IInv
<1>1. ASSUME NEW c \in Contexts, QueueCmd(c) PROVE Queues'
      BY <1>1, <1>0, QueuesFrame DEF QueueCmd
<1>2. ASSUME NEW c \in Contexts, QueueJob(c) PROVE Queues'
      BY <1>2, <1>0, QueuesFrame DEF QueueJob, AddJob
<1>3. ASSUME NEW c \in Contexts, LeaveToWorker(c) PROVE Queues'
      BY <1>3, <1>0, QueuesFrame DEF LeaveToWorker
<1>4. ASSUME NEW c \in Contexts, InlineStart(c) PROVE Queues'
      BY <1>4, <1>0, QueuesFrame DEF InlineStart
<1>5. ASSUME NEW c \in Contexts, InlineDefer(c) PROVE Queues'
      BY <1>5, <1>0, QueuesFrame DEF InlineDefer, InlineDefers
<1>6. ASSUME NEW c \in Contexts, QueueContext(c) PROVE Queues'
      BY <1>6, <1>0, QueuesFrame DEF QueueContext, Reschedule, AddJob
<1>7. ASSUME NEW f \in Fenced, FenceFires(f) PROVE Queues'
      BY <1>7, <1>0, QueuesFrame DEF FenceFires
<1>8. ASSUME IssueStart PROVE Queues'
      BY <1>8, <1>0, QueuesFrame DEF IssueStart, TakeJobs, NoSend
<1>9. ASSUME LevelEnd PROVE Queues'
      BY <1>9, <1>0, QueuesFrame DEF LevelEnd, TakeJobs, NoSend
<1>10. ASSUME DropJob PROVE Queues'
      BY <1>10, <1>0, QueuesFrame DEF DropJob, NoSend
<1>11. ASSUME KeepJob PROVE Queues'
      BY <1>11, <1>0, QueuesFrame DEF KeepJob, PutJobBack, NoSend
<1>12. ASSUME JobBusy PROVE Queues'
      BY <1>12, <1>0, QueuesFrame DEF JobBusy, NoSend
<1>13. ASSUME StartContext PROVE Queues'
      BY <1>13, <1>0, QueuesFrame DEF StartContext, NoSend
<1>14. ASSUME PopCmd PROVE Queues'
      BY <1>14, <1>0, QueuesFrame DEF PopCmd
<1>15. ASSUME SendEnds PROVE Queues'
      BY <1>15, <1>0, QueuesFrame DEF SendEnds, ContextEnd, NoSend
<1>16. ASSUME SendBlocked PROVE Queues'
      BY <1>16, <1>0, QueuesFrame DEF SendBlocked, ContextEnd, NoSend
<1>17. ASSUME SubmitOk PROVE Queues'
      BY <1>17, <1>0, SubmitOkQueues
<1>18. ASSUME SubmitFails PROVE Queues'
  <2>1. SendFails \/ SendHalted BY <1>18 DEF SubmitFails
  <2>2. UNCHANGED <<cmdq, inflight>> BY <2>1, Zenon, FailedSend
  <2>3. UNCHANGED <<scene, todo, replay>> BY <1>18 DEF SubmitFails
  <2> QED BY <1>0, <2>2, <2>3, QueuesFrame
<1>19. ASSUME SubmitHalted PROVE Queues'
  <2>1. SendFails \/ SendHalted BY <1>19 DEF SubmitHalted
  <2>2. UNCHANGED <<cmdq, inflight>> BY <2>1, Zenon, FailedSend
  <2>3. UNCHANGED <<scene, todo, replay>> BY <1>19 DEF SubmitHalted
  <2> QED BY <1>0, <2>2, <2>3, QueuesFrame
<1>20. ASSUME WorkStart PROVE Queues'
      BY <1>20, <1>0, QueuesFrame DEF WorkStart
<1>21. ASSUME RetireRing PROVE Queues'
      BY <1>21, <1>0, RetireRingQueues
<1>22. ASSUME NoFault PROVE Queues'
      BY <1>22, <1>0, QueuesFrame DEF NoFault
<1>23. ASSUME FaultDeferred PROVE Queues'
      BY <1>23, <1>0, QueuesFrame DEF FaultDeferred
<1>24. ASSUME DoFault PROVE Queues'
      BY <1>24, <1>0, DoFaultQueues
<1>25. ASSUME RecoverRing PROVE Queues'
  <2> DEFINE q == Head(todo)
  <2>1. q = Head(todo) OBVIOUS
  <2> HIDE DEF q
  <2> QED BY <1>25, <1>0, <2>1, RecoverRingQueues
<1>26. ASSUME RecoverFails PROVE Queues'
  <2> DEFINE q == Head(todo)
  <2>1. q = Head(todo) OBVIOUS
  <2> HIDE DEF q
  <2> QED BY <1>26, <1>0, <2>1, RecoverFailsQueues
<1>27. ASSUME ReplayOk PROVE Queues'
  <2> DEFINE q == RbOf(Head(replay)[1])
  <2>1. q = RbOf(Head(replay)[1]) OBVIOUS
  <2> HIDE DEF q
  <2> QED BY <1>27, <1>0, <2>1, ReplayOkQueues
<1>28. ASSUME ReplayFails PROVE Queues'
      BY <1>28, <1>0, ReplayFailsQueues
<1>29. ASSUME RecoverEnd PROVE Queues'
      BY <1>29, <1>0, QueuesFrame DEF RecoverEnd, RestoredHalt
<1>30. ASSUME Finish PROVE Queues'
      BY <1>30, <1>0, QueuesFrame DEF Finish, PowerDown, KeepTimer, Idle
<1>31. ASSUME GpuRetires PROVE Queues'
      BY <1>31, <1>0, QueuesFrame DEF GpuRetires, CpCallback
<1>32. ASSUME GpuHangs PROVE Queues'
      BY <1>32, <1>0, QueuesFrame DEF GpuHangs
<1>33. ASSUME GpuResumes PROVE Queues'
      BY <1>33, <1>0, QueuesFrame DEF GpuResumes
<1>34. ASSUME FaultIrq PROVE Queues'
      BY <1>34, <1>0, QueuesFrame DEF FaultIrq
<1>35. ASSUME TimerFires PROVE Queues'
      BY <1>35, <1>0, QueuesFrame DEF TimerFires
<1>36. ASSUME IdleCheck PROVE Queues'
      BY <1>36, <1>0, QueuesFrame DEF IdleCheck, MaySlumber
<1>37. ASSUME IdleStart PROVE Queues'
      BY <1>37, <1>0, QueuesFrame DEF IdleStart
<1>38. ASSUME IdleFlushed PROVE Queues'
      BY <1>38, <1>0, QueuesFrame DEF IdleFlushed
<1>39. ASSUME IdleWaited PROVE Queues'
      BY <1>39, <1>0, QueuesFrame DEF IdleWaited, GateOpen
<1>40. ASSUME IdleEnd PROVE Queues'
      BY <1>40, <1>0, QueuesFrame DEF IdleEnd, IdleRequeues
<1>41. ASSUME SuspendPrepare PROVE Queues'
      BY <1>41, <1>0, QueuesFrame DEF SuspendPrepare, MayPrepare
<1>42. ASSUME DrainStart PROVE Queues'
      BY <1>42, <1>0, QueuesFrame DEF DrainStart
<1>43. ASSUME SuspendDenied PROVE Queues'
      BY <1>43, <1>0, QueuesFrame DEF SuspendDenied
<1>44. ASSUME SuspendDone PROVE Queues'
      BY <1>44, <1>0, QueuesFrame DEF SuspendDone, Drained
<1>45. ASSUME SuspendFails PROVE Queues'
      BY <1>45, <1>0, QueuesFrame DEF SuspendFails, Drained
<1>46. ASSUME Resume PROVE Queues'
      BY <1>46, <1>0, QueuesFrame DEF Resume, ResumeStarts
<1>47. ASSUME PostSuspend PROVE Queues'
      BY <1>47, <1>0, QueuesFrame DEF PostSuspend, PostQueues
<1>48. ASSUME NEW r \in RingIds, Preempt(r) PROVE Queues'
      BY <1>48, <1>0, QueuesFrame DEF Preempt
<1>49. ASSUME UNCHANGED vars PROVE Queues'
      BY <1>49, <1>0, QueuesFrame DEF vars
<1> QED BY <1>1, <1>2, <1>3, <1>4, <1>5, <1>6, <1>7, <1>8, <1>9, <1>10, <1>11, <1>12, <1>13, <1>14, <1>15, <1>16, <1>17, <1>18, <1>19, <1>20, <1>21, <1>22, <1>23, <1>24, <1>25, <1>26, <1>27, <1>28, <1>29, <1>30, <1>31, <1>32, <1>33, <1>34, <1>35, <1>36, <1>37, <1>38, <1>39, <1>40, <1>41, <1>42, <1>43, <1>44, <1>45, <1>46, <1>47, <1>48, <1>49 DEF Next, Issue, Work

-----------------------------------------------------------------------------
(* The inductive invariant holds.                                          *)

LEMMA InitStep ==
    ASSUME Init
    PROVE  IInv
<1>1. scene \in Scenes BY DEF Init
<1>2. /\ scene.rings \in Nat \ {0} /\ scene.levels \in Nat \ {0}
      /\ scene.faults \in Nat /\ scene.hangs \in Nat /\ scene.fails \in Nat
      /\ scene.idles \in Nat /\ scene.suspends \in Nat
      /\ \A c \in Contexts : RbOf(c) \in RingIds /\ scene.quota[c] \in Nat
      /\ 0 \in RingIds /\ 0 \in LevelIds /\ DqSize \in Nat \ {0} /\ InflightMax \in Nat \ {0}
      /\ Burst \in Nat \ {0}
      BY <1>1, SceneFacts
<1>3. QOK(EmptyQueue) /\ Entries(EmptyQueue) = << >> /\ EmptyQueue.inflight = 0
      BY <1>2, EmptyQueueFacts
<1>4. EmptyQueue \in QueueType BY <1>3 DEF QOK
<1>5. Recovering = {} BY NoneRecovering DEF Init
<1>6. cmdq = [r \in RingIds |-> EmptyQueue] /\ hw = [r \in RingIds |-> << >>] /\ replay = << >>
      BY DEF Init
<1>7. \A r \in RingIds : cmdq[r] = EmptyQueue /\ hw[r] = << >> BY <1>6
<1>8. << >> \in Seq(Contexts) /\ << >> \in Seq(RingIds) /\ << >> \in Seq(Commands) OBVIOUS
<1>9. TypeOK
  <2>1. TypeContexts BY DEF Init, TypeContexts
  <2>2. TypeJobs BY <1>2, <1>8 DEF Init, TypeJobs, Steps, NoCtx
  <2>3. TypeQueues
    <3>1. cmdq \in [RingIds -> QueueType] /\ hw \in [RingIds -> Seq(Commands)]
          BY <1>4, <1>6, <1>8
    <3>2. inflight \in Nat /\ todo \in Seq(RingIds) /\ replay \in Seq(Commands)
          BY <1>8 DEF Init
    <3>3. cur \in RingIds /\ expired \subseteq RingIds /\ flt \subseteq {"hard", "timeout"}
          /\ fault \subseteq {"hard", "timeout"}
          BY <1>2 DEF Init
    <3> QED BY <3>1, <3>2, <3>3 DEF TypeQueues
  <2>4. TypeFlags BY DEF Init, TypeFlags
  <2>5. TypeNumbers BY <1>2 DEF Init, TypeNumbers
  <2> QED BY <2>1, <2>2, <2>3, <2>4, <2>5, TypeParts
<1>10. Holder BY <1>2 DEF Init, Holder
<1>11. Queues
  <2>1. InFlight = [r \in RingIds |-> 0] BY <1>3, <1>5, <1>7 DEF InFlight
  <2>2. \A r \in 0 .. scene.rings - 1 : InFlight[r] = 0 BY <2>1 DEF RingIds
  <2>3. scene.rings \in Nat BY <1>2
  <2>4. Total(InFlight, scene.rings)[scene.rings] = 0 BY <2>2, <2>3, TotalZero
  <2>5. inflight = Below[scene.rings] BY <2>4, BelowIs DEF Init
  <2>6. \A r \in RingIds : QOK(cmdq[r]) /\ cmdq[r].inflight <= InflightMax BY <1>2, <1>3, <1>7
  <2>7. \A j, k \in DOMAIN todo : j # k => todo[j] # todo[k] BY DEF Init
  <2> QED BY <1>6, <2>5, <2>6, <2>7 DEF Queues
<1>12. VoteMatchesWork BY DEF Init, VoteMatchesWork
<1>13. Gates
  <2>1. gate = ~active BY DEF Init
  <2>2. \A r \in RingIds : cmdq[r].inflight = 0 BY <1>3, <1>7
  <2>3. ipc = "idle" BY DEF Init
  <2> QED BY <1>6, <2>1, <2>2, <2>3 DEF Gates
<1>14. Halts
  <2>1. halt = 0 /\ saved = 0 /\ pm = "on" /\ nidles = 0 /\ nsuspends = 0 /\ ipc = "idle"
        BY DEF Init
  <2> QED BY <2>1 DEF Halts
<1>15. Faults BY DEF Init, Faults
<1>16. ASSUME NEW c \in Contexts PROVE OnItsWay(c) = << >> /\ Held(c) = << >>
  <2>1. hw[RbOf(c)] = << >> /\ Entries(cmdq[RbOf(c)]) = << >> BY <1>2, <1>3, <1>7
  <2>2. << >> \o << >> = << >> OBVIOUS
  <2> QED BY <1>5, <1>6, <2>1, <2>2 DEF OnItsWay, Held
<1>17. \A c : Stamps(c, << >>) = {} /\ InOrder(c, << >>) BY EmptyFacts
<1>18. Whereabouts
  <2>1. \A r \in RingIds : Entries(cmdq[r]) = << >> /\ hw[r] = << >> BY <1>3, <1>7
  <2> QED BY <1>5, <1>6, <1>16, <1>17, <2>1 DEF Whereabouts, Agree, Over
<1>19. NoCommandLost
  <2> SUFFICES ASSUME NEW c \in Contexts
               PROVE  /\ retired[c] <= LastSent(c)
                      /\ InOrder(c, OnItsWay(c)) /\ Stamps(c, OnItsWay(c)) = Due(c)
                      /\ InOrder(c, Held(c)) /\ Due(c) \subseteq Stamps(c, Held(c))
                      /\ Stamps(c, Held(c)) \subseteq 1 .. LastSent(c)
                      /\ \A n \in Stamps(c, Held(c)) : n .. LastSent(c) \subseteq Stamps(c, Held(c))
      BY DEF NoCommandLost
  <2>1. retired[c] = 0 /\ LastSent(c) = 0 BY DEF Init, LastSent
  <2>2. Due(c) = {} BY <2>1 DEF Due
  <2> QED BY <1>16, <1>17, <2>1, <2>2
<1> QED BY <1>9, <1>10, <1>11, <1>12, <1>13, <1>14, <1>15, <1>18, <1>19 DEF IInv

LEMMA NextStep ==
    ASSUME QueueHasRoom, IInv, [Next]_vars
    PROVE  IInv'
<1>1. TypeContexts' /\ TypeJobs' /\ TypeFlags' /\ TypeNumbers'
      BY TypeContextsStep, TypeJobsStep, TypeFlagsStep, TypeNumbersStep
<1>2. TypeQueues' /\ Queues' BY TypeQueuesStep, QueuesStep
<1>3. TypeOK' BY <1>1, <1>2, TypeParts
<1>4. Holder' /\ VoteMatchesWork' /\ Gates' /\ Halts' /\ Faults'
      BY HolderStep, VoteMatchesWorkStep, GatesStep, HaltsStep, FaultsStep
<1>5. Whereabouts' /\ NoCommandLost' BY CommandsStep
<1> QED BY <1>2, <1>3, <1>4, <1>5 DEF IInv

(* The inductive invariant is one: the dispatcher's counts, its power vote, *)
(* its halts and gates, its faults and the place of every command it sent.  *)
THEOREM InvariantHolds ==
    ASSUME QueueHasRoom
    PROVE  Spec => []IInv
<1>1. Init => IInv BY InitStep
<1>2. IInv /\ [Next]_vars => IInv' BY NextStep
<1> QED BY <1>1, <1>2, PTL DEF Spec

(* The records of what runs agree: dispatcher->inflight is the sum of the   *)
(* dispatch queues' counts, which are the distances from head to tail, and  *)
(* the power vote is there for commands in flight and callers of            *)
(* adreno_dispatcher_idle and for nothing else; no slumber is entered under *)
(* it.  As long as a dispatch queue may not be filled to its last slot.     *)
THEOREM RecordsStayRight ==
    ASSUME QueueHasRoom
    PROVE  Spec => []RecordsAgree
<1>1. ASSUME IInv PROVE RecordsAgree
  <2>1. \A r \in RingIds : cmdq[r].inflight = QueueLen(cmdq[r]) BY <1>1 DEF IInv, Queues, QOK
  <2>2. inflight = Below[scene.rings] BY <1>1 DEF IInv, Queues
  <2> QED BY <1>1, <2>1, <2>2 DEF IInv, RecordsAgree, CountsAgree
<1>2. Spec => []IInv BY InvariantHolds
<1> QED BY <1>1, <1>2, PTL

(* No command of a good context is lost, repeated or reordered, by bursts   *)
(* cut short, requeues, slumber, faults and their replay, whatever number   *)
(* of contexts, ringbuffers, priorities and events there is.                *)
THEOREM NothingIsLost ==
    ASSUME QueueHasRoom
    PROVE  Spec => []NoCommandLost
<1>1. IInv => NoCommandLost BY DEF IInv
<1>2. Spec => []IInv BY InvariantHolds
<1> QED BY <1>1, <1>2, PTL

(* A caller of adreno_dispatcher_idle that is told the dispatcher is idle   *)
(* finds nothing in flight, and the gate is closed while anything is.       *)
THEOREM IdleIsDrained ==
    ASSUME QueueHasRoom
    PROVE  Spec => []IdleMeansDrained
<1>1. ASSUME IInv PROVE IdleMeansDrained
  <2>1. /\ scene \in Scenes /\ DqSize \in Nat \ {0}
        /\ \A r \in RingIds : QOK(cmdq[r]) /\ cmdq[r].inflight \in Nat
                              /\ hw[r] \in Seq(Commands)
        /\ \A c \in Contexts : RbOf(c) \in RingIds
        BY <1>1, WhereFacts, InFlightFacts
  <2>2. inflight \in Nat BY <1>1, TypeParts DEF IInv, TypeQueues
  <2>3. gate = ~active BY <1>1 DEF IInv, Gates
  <2>4. (\A r \in RingIds : cmdq[r].inflight = 0) => inflight = 0
        BY <1>1, <2>1, NothingInFlight DEF IInv
  <2>5. inflight > 0 => active BY <1>1, <2>1, <2>4 DEF IInv, Gates
  <2>6. ASSUME ipc = "relock", ires = "idle"
        PROVE  inflight = 0 /\ \A c \in Contexts \ bad : Stamps(c, hw[RbOf(c)]) = {}
    <3>1. replay = << >> /\ \A r \in RingIds : cmdq[r].inflight = 0
          BY <1>1, <2>6 DEF IInv, Gates
    <3>2. \A r \in RingIds : Entries(cmdq[r]) = << >>
      <4> SUFFICES ASSUME NEW r \in RingIds PROVE Entries(cmdq[r]) = << >>
          OBVIOUS
      <4>1. Len(Entries(cmdq[r])) = 0 BY <2>1, <3>1, QueueFacts
      <4>2. Entries(cmdq[r]) \in Seq(Commands) BY <2>1 DEF QOK
      <4> QED BY <4>1, <4>2, EmptySeq
    <3>3. ASSUME NEW c \in Contexts \ bad PROVE Stamps(c, hw[RbOf(c)]) = {}
      <4> DEFINE h == hw[RbOf(c)]
      <4>1. Held(c) = << >>
        <5>1. << >> \o << >> = << >> OBVIOUS
        <5> QED BY <2>1, <3>1, <3>2, <5>1 DEF Held
      <4>2. Stamps(c, OnItsWay(c)) = {}
        <5>1. Stamps(c, Held(c)) = {} BY <4>1, EmptyFacts
        <5> QED BY <1>1, <5>1 DEF IInv, NoCommandLost
      <4>3. CASE RbOf(c) \in Recovering
        <5>1. h = << >> BY <1>1, <4>3 DEF IInv, Whereabouts
        <5> QED BY <5>1, EmptyFacts
      <4>4. CASE RbOf(c) \notin Recovering
        <5>1. OnItsWay(c) = h \o << >> BY <3>1, <4>4 DEF OnItsWay
        <5>2. h \in Seq(Commands) BY <2>1
        <5> HIDE DEF h
        <5>3. OnItsWay(c) = h BY <5>1, <5>2, NothingBehind
        <5> QED BY <4>2, <5>3 DEF h
      <4> QED BY <4>3, <4>4
    <3> QED BY <2>4, <3>1, <3>3
  <2> QED BY <2>3, <2>5, <2>6 DEF IdleMeansDrained
<1>2. Spec => []IInv BY InvariantHolds
<1> QED BY <1>1, <1>2, PTL

(* What HaltHolds says of a step                                            *)
HaltStep ==
    (\E r \in RingIds : Len(hw'[r]) > Len(hw[r]))
      => /\ ipc \in {"flush", "wait"} => step = "recover"
         /\ pm # "suspended"

LEMMA NoGrowth ==
    ASSUME IInv, \A r \in RingIds : hw'[r] = hw[r] \/ hw'[r] = << >>
    PROVE  HaltStep
<1>1. \A r \in RingIds : Len(hw[r]) \in Nat
  <2>1. \A r \in RingIds : hw[r] \in Seq(Commands) BY WhereFacts
  <2> QED BY <2>1, LenProperties
<1>2. Len(<< >>) = 0 OBVIOUS
<1>3. \A r \in RingIds : ~(Len(hw'[r]) > Len(hw[r])) BY <1>1, <1>2
<1> QED BY <1>3 DEF HaltStep

LEMMA HaltStepHolds ==
    ASSUME IInv, [Next]_vars
    PROVE  HaltStep
<1>0. TypeFlags /\ TypeNumbers /\ Halts /\ Holder /\ scene \in Scenes
      BY TypeParts DEF IInv, Holder
<1>1. ASSUME NEW c \in Contexts, QueueCmd(c) PROVE HaltStep
      BY <1>1, NoGrowth DEF QueueCmd
<1>2. ASSUME NEW c \in Contexts, QueueJob(c) PROVE HaltStep
      BY <1>2, NoGrowth DEF QueueJob, AddJob
<1>3. ASSUME NEW c \in Contexts, LeaveToWorker(c) PROVE HaltStep
      BY <1>3, NoGrowth DEF LeaveToWorker
<1>4. ASSUME NEW c \in Contexts, InlineStart(c) PROVE HaltStep
      BY <1>4, NoGrowth DEF InlineStart
<1>5. ASSUME NEW c \in Contexts, InlineDefer(c) PROVE HaltStep
      BY <1>5, NoGrowth DEF InlineDefer, InlineDefers
<1>6. ASSUME NEW c \in Contexts, QueueContext(c) PROVE HaltStep
      BY <1>6, NoGrowth DEF QueueContext, Reschedule, AddJob
<1>7. ASSUME NEW f \in Fenced, FenceFires(f) PROVE HaltStep
      BY <1>7, NoGrowth DEF FenceFires
<1>8. ASSUME IssueStart PROVE HaltStep
      BY <1>8, NoGrowth DEF IssueStart, TakeJobs, NoSend
<1>9. ASSUME LevelEnd PROVE HaltStep
      BY <1>9, NoGrowth DEF LevelEnd, TakeJobs, NoSend
<1>10. ASSUME DropJob PROVE HaltStep
      BY <1>10, NoGrowth DEF DropJob, NoSend
<1>11. ASSUME KeepJob PROVE HaltStep
      BY <1>11, NoGrowth DEF KeepJob, PutJobBack, NoSend
<1>12. ASSUME JobBusy PROVE HaltStep
      BY <1>12, NoGrowth DEF JobBusy, NoSend
<1>13. ASSUME StartContext PROVE HaltStep
      BY <1>13, NoGrowth DEF StartContext, NoSend
<1>14. ASSUME PopCmd PROVE HaltStep
      BY <1>14, NoGrowth DEF PopCmd
<1>15. ASSUME SendEnds PROVE HaltStep
      BY <1>15, NoGrowth DEF SendEnds, ContextEnd, NoSend
<1>16. ASSUME SendBlocked PROVE HaltStep
      BY <1>16, NoGrowth DEF SendBlocked, ContextEnd, NoSend
<1>17. ASSUME SubmitOk PROVE HaltStep
  <2>1. SendOk(<<ctx, sent[ctx]>>) BY <1>17 DEF SubmitOk
  <2>2. halt = 0 BY <1>0, <2>1, GoodSend DEF TypeFlags
  <2>3. saved \in Nat /\ halt \in Nat BY <1>0, SceneFacts DEF TypeNumbers
  <2>4. pm # "suspended" BY <1>0, <2>2 DEF Halts
  <2>5. ipc \in {"flush", "wait"} => step = "recover" BY <1>0, <2>2, <2>3 DEF Halts, Holder
  <2> QED BY <2>4, <2>5 DEF HaltStep
<1>18. ASSUME SubmitFails PROVE HaltStep
  <2>1. SendFails \/ SendHalted BY <1>18 DEF SubmitFails
  <2>2. UNCHANGED hw BY <2>1, Zenon, FailedSend
  <2> QED BY <2>2, NoGrowth
<1>19. ASSUME SubmitHalted PROVE HaltStep
  <2>1. SendFails \/ SendHalted BY <1>19 DEF SubmitHalted
  <2>2. UNCHANGED hw BY <2>1, Zenon, FailedSend
  <2> QED BY <2>2, NoGrowth
<1>20. ASSUME WorkStart PROVE HaltStep
      BY <1>20, NoGrowth DEF WorkStart
<1>21. ASSUME RetireRing PROVE HaltStep
      BY <1>21, NoGrowth DEF RetireRing
<1>22. ASSUME NoFault PROVE HaltStep
      BY <1>22, NoGrowth DEF NoFault
<1>23. ASSUME FaultDeferred PROVE HaltStep
      BY <1>23, NoGrowth DEF FaultDeferred
<1>24. ASSUME DoFault PROVE HaltStep
      BY <1>24, NoGrowth DEF DoFault
<1>25. ASSUME RecoverRing PROVE HaltStep
      BY <1>25, NoGrowth DEF RecoverRing, SetGuilty
<1>26. ASSUME RecoverFails PROVE HaltStep
      BY <1>26, NoGrowth DEF RecoverFails, SetGuilty
<1>27. ASSUME ReplayOk PROVE HaltStep
  <2>1. SendOk(Head(replay)) BY <1>27 DEF ReplayOk
  <2>2. halt = 0 BY <1>0, <2>1, GoodSend DEF TypeFlags
  <2>3. saved \in Nat /\ halt \in Nat BY <1>0, SceneFacts DEF TypeNumbers
  <2>4. pm # "suspended" BY <1>0, <2>2 DEF Halts
  <2>5. ipc \in {"flush", "wait"} => step = "recover" BY <1>0, <2>2, <2>3 DEF Halts, Holder
  <2> QED BY <2>4, <2>5 DEF HaltStep
<1>28. ASSUME ReplayFails PROVE HaltStep
  <2>1. SendFails \/ SendHalted BY <1>28 DEF ReplayFails
  <2>2. UNCHANGED hw BY <2>1, Zenon, FailedSend
  <2> QED BY <2>2, NoGrowth
<1>29. ASSUME RecoverEnd PROVE HaltStep
      BY <1>29, NoGrowth DEF RecoverEnd, RestoredHalt
<1>30. ASSUME Finish PROVE HaltStep
      BY <1>30, NoGrowth DEF Finish, PowerDown, KeepTimer, Idle
<1>31. ASSUME GpuRetires PROVE HaltStep
  <2>1. hw[cur] # << >> /\ hw' = [hw EXCEPT ![cur] = Tail(hw[cur])] BY <1>31 DEF GpuRetires
  <2>2. cur \in RingIds /\ hw \in [RingIds -> Seq(Commands)] BY TypeParts DEF IInv, TypeQueues
  <2>3. Len(Tail(hw[cur])) = Len(hw[cur]) - 1 /\ Len(hw[cur]) \in Nat
    <3>1. hw[cur] \in Seq(Commands) BY <2>2
    <3> QED BY <2>1, <3>1, TailFacts
  <2>4. \A r \in RingIds : hw'[r] = IF r = cur THEN Tail(hw[cur]) ELSE hw[r] BY <2>1, <2>2
  <2>5. \A r \in RingIds : Len(hw[r]) \in Nat
    <3>1. \A r \in RingIds : hw[r] \in Seq(Commands) BY <2>2
    <3> QED BY <3>1, LenProperties
  <2>6. ASSUME NEW r \in RingIds PROVE ~(Len(hw'[r]) > Len(hw[r]))
    <3>1. CASE r = cur
      <4>1. hw'[r] = Tail(hw[cur]) /\ hw[r] = hw[cur] BY <2>4, <3>1
      <4> QED BY <4>1, <2>3
    <3>2. CASE r # cur
      <4>1. hw'[r] = hw[r] BY <2>4, <3>2
      <4>2. Len(hw[r]) \in Nat BY <2>5
      <4> QED BY <4>1, <4>2
    <3> QED BY <3>1, <3>2
  <2> QED BY <2>6 DEF HaltStep
<1>32. ASSUME GpuHangs PROVE HaltStep
      BY <1>32, NoGrowth DEF GpuHangs
<1>33. ASSUME GpuResumes PROVE HaltStep
      BY <1>33, NoGrowth DEF GpuResumes
<1>34. ASSUME FaultIrq PROVE HaltStep
      BY <1>34, NoGrowth DEF FaultIrq
<1>35. ASSUME TimerFires PROVE HaltStep
      BY <1>35, NoGrowth DEF TimerFires
<1>36. ASSUME IdleCheck PROVE HaltStep
      BY <1>36, NoGrowth DEF IdleCheck
<1>37. ASSUME IdleStart PROVE HaltStep
      BY <1>37, NoGrowth DEF IdleStart
<1>38. ASSUME IdleFlushed PROVE HaltStep
      BY <1>38, NoGrowth DEF IdleFlushed
<1>39. ASSUME IdleWaited PROVE HaltStep
      BY <1>39, NoGrowth DEF IdleWaited, GateOpen
<1>40. ASSUME IdleEnd PROVE HaltStep
      BY <1>40, NoGrowth DEF IdleEnd, IdleRequeues
<1>41. ASSUME SuspendPrepare PROVE HaltStep
      BY <1>41, NoGrowth DEF SuspendPrepare, MayPrepare
<1>42. ASSUME DrainStart PROVE HaltStep
      BY <1>42, NoGrowth DEF DrainStart
<1>43. ASSUME SuspendDenied PROVE HaltStep
      BY <1>43, NoGrowth DEF SuspendDenied
<1>44. ASSUME SuspendDone PROVE HaltStep
      BY <1>44, NoGrowth DEF SuspendDone, Drained
<1>45. ASSUME SuspendFails PROVE HaltStep
      BY <1>45, NoGrowth DEF SuspendFails, Drained
<1>46. ASSUME Resume PROVE HaltStep
      BY <1>46, NoGrowth DEF Resume, ResumeStarts
<1>47. ASSUME PostSuspend PROVE HaltStep
      BY <1>47, NoGrowth DEF PostSuspend, PostQueues
<1>48. ASSUME NEW r \in RingIds, Preempt(r) PROVE HaltStep
      BY <1>48, NoGrowth DEF Preempt
<1>49. ASSUME UNCHANGED vars PROVE HaltStep
      BY <1>49, NoGrowth DEF vars
<1> QED BY <1>1, <1>2, <1>3, <1>4, <1>5, <1>6, <1>7, <1>8, <1>9, <1>10, <1>11, <1>12, <1>13, <1>14, <1>15, <1>16, <1>17, <1>18, <1>19, <1>20, <1>21, <1>22, <1>23, <1>24, <1>25, <1>26, <1>27, <1>28, <1>29, <1>30, <1>31, <1>32, <1>33, <1>34, <1>35, <1>36, <1>37, <1>38, <1>39, <1>40, <1>41, <1>42, <1>43, <1>44, <1>45, <1>46, <1>47, <1>48, <1>49 DEF Next, Issue, Work
(* While a thread holds the halt, nothing but the recovery of a fault sends *)
(* a command to the GPU, and while the system is suspended nothing does.    *)
THEOREM HaltIsKept ==
    ASSUME QueueHasRoom
    PROVE  Spec => HaltHolds
<1>1. IInv /\ [Next]_vars => [HaltStep]_vars BY HaltStepHolds
<1>2. Spec => []IInv BY InvariantHolds
<1>3. [HaltStep]_vars
        => [(\E r \in RingIds : Len(hw'[r]) > Len(hw[r]))
              => /\ ipc \in {"flush", "wait"} => step = "recover"
                 /\ pm # "suspended"]_vars
      BY DEF HaltStep
<1> QED BY <1>1, <1>2, <1>3, PTL DEF Spec, HaltHolds

(* A fault that is raised while the GPU is up is seen to, by the worker or  *)
(* at the end of a suspend, and the submission gate that a suspend closes   *)
(* is opened when it ends: two of the parts of NobodyForgotten.             *)
THEOREM FaultsAreSeen ==
    ASSUME QueueHasRoom
    PROVE  Spec => [](FaultNotForgotten /\ GateReopens)
<1>1. ASSUME IInv PROVE FaultNotForgotten /\ GateReopens
      BY <1>1 DEF IInv, Faults, Holder, FaultNotForgotten, GateReopens
<1>2. Spec => []IInv BY InvariantHolds
<1> QED BY <1>1, <1>2, PTL
=============================================================================
