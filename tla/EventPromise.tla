----------------------------- MODULE EventPromise -----------------------------
(***************************************************************************)
(* What kgsl_add_event promises whoever registers an event on a context:   *)
(* the callback runs at most once, it is told RETIRED only for a timestamp *)
(* that has retired, and it does run once the timestamp has.  Module       *)
(* EventGroup keeps the promise.                                           *)
(***************************************************************************)
EXTENDS Integers

CONSTANT Events    \* the registrations, each made at most once

VARIABLES
    state,      \* state[e]: "none", "armed" or "called"
    due,        \* due[e]: the timestamp of an armed or called event
    result,     \* result[e]: what the callback of a called event was told
    retired     \* last timestamp the context has retired

vars == <<state, due, result, retired>>

Init ==
    /\ state = [e \in Events |-> "none"]
    /\ due = [e \in Events |-> 0] /\ result = [e \in Events |-> "none"]
    /\ retired \in Nat

Arm(e) ==
    /\ state[e] = "none" /\ state' = [state EXCEPT ![e] = "armed"]
    /\ due'[e] \in Nat /\ due' = [due EXCEPT ![e] = due'[e]]
    /\ UNCHANGED <<result, retired>>

Call(e, r) ==
    /\ state[e] = "armed" /\ r = "RETIRED" => due[e] <= retired
    /\ state' = [state EXCEPT ![e] = "called"]
    /\ result' = [result EXCEPT ![e] = r]
    /\ UNCHANGED <<due, retired>>

(* The context is told of a retired event, or of a cancelled one.           *)
CallDue(e) == due[e] <= retired /\ \E r \in {"RETIRED", "CANCELLED"} : Call(e, r)

Advance == /\ retired' \in Nat /\ retired' > retired
           /\ UNCHANGED <<state, due, result>>

Next == \/ Advance
        \/ \E e \in Events : Arm(e) \/ Call(e, "RETIRED") \/ Call(e, "CANCELLED")

SafeSpec == Init /\ [][Next]_vars
Spec == SafeSpec /\ \A e \in Events : WF_vars(CallDue(e))
===============================================================================
