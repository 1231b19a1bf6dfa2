---------------------------- MODULE MCDispatcher ----------------------------
(* Instances of Dispatcher for TLC.                                        *)
EXTENDS Dispatcher

CONSTANTS c1, c2

OneRing == [c \in Contexts |-> 0]
TwoRings == [c \in Contexts |-> IF c = c1 THEN 0 ELSE 1]
TwoAndOne == [c \in Contexts |-> IF c = c1 THEN 2 ELSE 1]
OneEach == [c \in Contexts |-> 1]
FirstFenced == {<<c2, 1>>}

\* Both contexts on one ringbuffer at one priority; and on one each
Together(q, f, h, n, i, s) ==
    [rings |-> 1, rb |-> OneRing, levels |-> 1, prio |-> OneRing, quota |-> q,
     faults |-> f, hangs |-> h, fails |-> n, idles |-> i, suspends |-> s]
Apart(q, f, h, n) ==
    [rings |-> 2, rb |-> TwoRings, levels |-> 2, prio |-> TwoRings, quota |-> q,
     faults |-> f, hangs |-> h, fails |-> n, idles |-> 0, suspends |-> 0]

Recoveries == {Apart(OneEach, 1, 1, 1), Apart(TwoAndOne, 1, 0, 1), Apart(TwoAndOne, 0, 1, 1)}
Pauses == {Together(OneEach, 1, 0, 0, 1, 1), Together(OneEach, 0, 0, 0, 1, 1),
           Together(TwoAndOne, 0, 0, 0, 1, 0), Together(TwoAndOne, 0, 0, 0, 0, 1)}
AllScenes == Recoveries \cup Pauses
OneHang == {Together(OneEach, 0, 1, 0, 0, 0)}
=============================================================================
