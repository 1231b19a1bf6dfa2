----------------------------- MODULE Ringbuffer -----------------------------
(***************************************************************************)
(* The dwords of one ringbuffer: adreno_ringbuffer_allocspace, the build   *)
(* of a submission and the CP that reads behind it.  The ring is refilled  *)
(* for ever; what is remembered of it is which dwords hold commands the CP *)
(* has still to read.                                                      *)
(***************************************************************************)
EXTENDS Integers

CONSTANTS
    Dwords,     \* KGSL_RB_DWORDS
    MaxSubmit   \* the largest space asked for: GEN7_SUBMIT_MAX and the IBs

\* A submission is much shorter than the ring: 32 KB of it, and at most some
\* hundred dwords are asked for at once.
ASSUME RingbufferAssumption ==
    /\ Dwords \in Nat \ {0} /\ MaxSubmit \in Nat \ {0}
    /\ 2 * MaxSubmit <= Dwords - 2

VARIABLES
    rptr,     \* where the CP reads, as it writes it to the scratch memory
    uwptr,    \* rb->_wptr, the end of what was allocated
    wptr,     \* rb->wptr, the end of what the CP may read
    got,      \* the submission being built: its place and space, or none
    unread,   \* dwords written for the CP that it has not read
    lost      \* dwords of those that were written over

vars == <<rptr, uwptr, wptr, got, unread, lost>>

Dword == 0 .. Dwords - 1
Nothing == [at |-> 0, size |-> 0]

\* The dwords from a to just before b, going round
Window(a, b) == IF a <= b THEN a .. b - 1 ELSE (a .. Dwords - 1) \cup (0 .. b - 1)

Init ==
    /\ rptr = 0 /\ uwptr = 0 /\ wptr = 0
    /\ got = Nothing
    /\ unread = {} /\ lost = {}

Write(dwords) ==
    /\ lost' = lost \cup (dwords \cap unread)
    /\ unread' = unread \cup dwords

FitsAtEnd(n) == rptr <= uwptr /\ uwptr + n <= Dwords - 2

Bug_FitsAtStart(n) == rptr <= uwptr /\ uwptr + n > Dwords - 2 /\ n <= rptr

FitsAtStart(n) == rptr <= uwptr /\ uwptr + n > Dwords - 2 /\ n < rptr

\* Also tried when the read pointer is behind: then it never holds
FitsBetween(n) == uwptr + n < rptr

\* adreno_ringbuffer_allocspace; at the end of the ring a NOP covers the rest
AllocAtEnd(n) ==
    /\ got = Nothing /\ FitsAtEnd(n)
    /\ got' = [at |-> uwptr, size |-> n]
    /\ uwptr' = (uwptr + n) % Dwords
    /\ UNCHANGED <<rptr, wptr, unread, lost>>

AllocAtStart(n) ==
    /\ got = Nothing /\ FitsAtStart(n)
    /\ got' = [at |-> 0, size |-> n]
    /\ uwptr' = n
    /\ Write(Window(uwptr, 0))
    /\ UNCHANGED <<rptr, wptr>>

AllocBetween(n) ==
    /\ got = Nothing /\ ~FitsAtEnd(n) /\ ~FitsAtStart(n) /\ FitsBetween(n)
    /\ got' = [at |-> uwptr, size |-> n]
    /\ uwptr' = (uwptr + n) % Dwords
    /\ UNCHANGED <<rptr, wptr, unread, lost>>

\* gen7_ringbuffer_addcmds writes n dwords of the space, gives the rest back
\* and shows the result to the CP
Submit(n) ==
    /\ got # Nothing /\ n \in 1 .. got.size
    /\ Write(got.at .. got.at + n - 1)
    /\ uwptr' = uwptr - (got.size - n)
    /\ wptr' = uwptr'
    /\ got' = Nothing
    /\ UNCHANGED rptr

\* The CP reads on, as far as the write pointer
Read ==
    /\ rptr # wptr
    /\ unread' = unread \ {rptr}
    /\ rptr' = (rptr + 1) % Dwords
    /\ UNCHANGED <<uwptr, wptr, got, lost>>

Next ==
    \/ \E n \in 1 .. MaxSubmit :
           AllocAtEnd(n) \/ AllocAtStart(n) \/ AllocBetween(n) \/ Submit(n)
    \/ Read

Spec == Init /\ [][Next]_vars

-----------------------------------------------------------------------------
(* Properties.                                                             *)

\* Every variable has its type.
TypeOK ==
    /\ rptr \in Dword /\ uwptr \in Dword /\ wptr \in Dword
    /\ got \in [at : Dword, size : 0 .. MaxSubmit]
    /\ unread \subseteq Dword /\ lost \subseteq Dword

\* No command is written over before the CP has read it, however long the
\* ring is filled, and the CP reads nothing but commands.
NothingOverwritten == lost = {} /\ (rptr # wptr => rptr \in unread)

\* A submission that is refused for want of space fits when the CP has
\* caught up: the dispatcher that sends it again gets on.
FitsWhenDrained ==
    (rptr = uwptr /\ got = Nothing) =>
        \A n \in 1 .. MaxSubmit : FitsAtEnd(n) \/ FitsAtStart(n) \/ FitsBetween(n)
=============================================================================
