--------------------------- MODULE Firmware_proofs ---------------------------
(***************************************************************************)
(* Proofs about what the driver and the firmware do together, for the      *)
(* specification the run of MCFirmware checks.  Preemption: the driver's   *)
(* two threads and the CP agree on the ring that runs.  Power and queues:  *)
(* the theorems of GmuPower_proofs and HfiQueue_proofs, which hold of the  *)
(* parts of the run since its instances have the same definitions.         *)
(***************************************************************************)
EXTENDS MCFirmware, TLAPS

USE DEF P!swVars, P!ringVars, P!jobVars, P!hwVars

-----------------------------------------------------------------------------
(* Preemption.                                                             *)

DispSteps == {"idle", "sent", "schedule", "trigger", "scan", "decide", "stay", "program",
              "fire", "done", "swapped", "armed", "timers", "recover"}
IrqSteps == {"idle", "callback", "trigger", "scan", "decide", "stay", "program", "fire",
             "swapped", "armed"}
PcOK == pc \in [P!Threads -> DispSteps \cup IrqSteps]
        /\ pc["disp"] \in DispSteps /\ pc["irq"] \in IrqSteps

Owner(t) == pc[t] \in {"scan", "decide", "stay", "program"}
Ends(t) == pc[t] \in {"swapped", "armed"}
Firing == pc["disp"] = "fire" \/ pc["irq"] = "fire"

(* Where the CP is: on the current ring, about to switch to the next one,   *)
(* or there.                                                                *)
OnCur == hw.ring = cur /\ ~hw.wanted /\ "sw" \notin irqs
ToNext == /\ next \in P!Ring \ {cur}
          /\ hw.ring = cur /\ hw.wanted /\ hw.status /\ hw.restore = next
          /\ record <= wptr[next] /\ "sw" \notin irqs
OnNext == next \in P!Ring \ {cur} /\ hw.ring = next /\ ~hw.wanted

(* The state of the preemption says which thread is at it.                  *)
OneAtIt ==
    /\ Owner("disp") \/ Owner("irq") => state = "START"
    /\ Firing => state = "TRIGGERED"
    /\ ~(Owner("disp") /\ Owner("irq"))
    /\ ~(pc["disp"] = "fire" /\ pc["irq"] = "fire")
    /\ pc["irq"] = "callback" \/ Ends("irq") <=> state = "PENDING"
    /\ pc["disp"] = "done" \/ Ends("disp") => state = "COMPLETE"

Switching ==
    /\ state \in {"NONE", "START"} => OnCur
    /\ state = "TRIGGERED" /\ Firing =>
           OnCur /\ next \in P!Ring \ {cur} /\ hw.restore = next /\ record <= wptr[next]
    /\ state = "TRIGGERED" /\ ~Firing => ToNext \/ OnNext
    /\ state = "FAULTED" => ToNext \/ OnNext
    /\ state = "PENDING" /\ Ends("irq") => OnCur
    /\ state = "PENDING" /\ ~Ends("irq") => OnNext /\ "sw" \notin irqs
    /\ state = "COMPLETE" /\ Ends("disp") => OnCur
    /\ state = "COMPLETE" /\ ~Ends("disp") => OnNext
    /\ \A t \in P!Threads :
         pc[t] = "program" => at[t] \in P!Ring \ {cur} /\ record <= wptr[at[t]]

Pointers ==
    /\ hw.wptr <= wptr[hw.ring]
    /\ \A r \in P!Ring : rptr[r] <= wptr[r]

SwitchInv == P!TypeOK /\ PcOK /\ OneAtIt /\ Switching /\ Pointers

(* The record of the CP *)
CpType == [ring : P!Ring, wptr : Nat, restore : P!Ring, status : BOOLEAN,
           wanted : BOOLEAN, keepalive : BOOLEAN, hung : BOOLEAN]
SwitchAssumption == Rings \in Nat \ {0}

USE DEF P!Threads

(* What the types say of the parts *)
LEMMA SwitchTypes ==
    ASSUME SwitchAssumption, SwitchInv
    PROVE  /\ hw \in CpType /\ wptr \in [P!Ring -> Nat] /\ rptr \in [P!Ring -> Nat]
           /\ todo \in [P!Ring -> Nat] /\ cur \in P!Ring /\ hw.ring \in P!Ring
           /\ hw.restore \in P!Ring /\ hw.wptr \in Nat /\ record \in Nat
           /\ 0 \in P!Ring /\ Rings \in Nat \ {0} /\ at \in [P!Threads -> 0 .. Rings]
<1>1. hw \in CpType BY DEF SwitchInv, P!TypeOK, CpType
<1>2. hw.ring \in P!Ring /\ hw.restore \in P!Ring /\ hw.wptr \in Nat BY <1>1 DEF CpType
<1>3. 0 \in P!Ring BY DEF P!Ring, SwitchAssumption
<1> QED BY <1>1, <1>2, <1>3 DEF SwitchInv, P!TypeOK, SwitchAssumption

LEMMA SubmitStep ==
    ASSUME SwitchAssumption, SwitchInv, NEW r \in P!Ring, P!Submit(r)
    PROVE  SwitchInv'
<1> USE DEF SwitchInv
<1>1. /\ UNCHANGED <<state, cur, next, timers, works, reset, within, rptr, record, irqs, accident>>
      /\ pc["disp"] \in {"idle", "timers"} /\ pc'["disp"] = "sent" /\ pc'["irq"] = pc["irq"]
      /\ at'["irq"] = at["irq"]
      /\ hw'.ring = hw.ring /\ hw'.wanted = hw.wanted /\ hw'.restore = hw.restore /\ hw'.status = hw.status
      /\ \A q \in P!Ring : wptr'[q] = IF q = r THEN wptr[r] + 1 ELSE wptr[q]
      /\ hw'.wptr = IF state = "NONE" /\ cur = r THEN wptr[r] + 1 ELSE hw.wptr
   BY DEF P!Submit, P!TypeOK, PcOK, P!Goto, P!WritesInline, CpType
<1>7. ASSUME NEW q \in P!Ring PROVE wptr[q] \in Nat /\ wptr'[q] \in Nat /\ wptr[q] <= wptr'[q]
  <2>1. wptr[q] \in Nat BY SwitchTypes
  <2> QED BY <1>1, <2>1
<1>8. wptr[r] + 1 \in Nat /\ r \in 0 .. Rings
  <2>1. wptr[r] \in Nat BY SwitchTypes
  <2>2. r \in 0 .. Rings - 1 BY DEF P!Ring
  <2> QED BY <2>1, <2>2, SwitchTypes
<1>2. P!TypeOK'
  <2>1. todo' \in [P!Ring -> Nat]
    BY SwitchTypes DEF P!Submit
  <2>2. wptr' \in [P!Ring -> Nat]
    BY SwitchTypes, <1>8 DEF P!Submit
  <2>3. hw' \in CpType
    BY SwitchTypes, <1>8 DEF P!Submit, CpType
  <2>4. skip_inline' \in [P!Ring -> BOOLEAN]
    BY SwitchTypes, <1>1 DEF P!Submit, P!TypeOK, PcOK, SwitchAssumption, P!States, P!Ring, CpType, P!WritesInline, P!Empty
  <2>5. expired' \subseteq P!Ring
    BY SwitchTypes, <1>1 DEF P!Submit, P!TypeOK, PcOK, SwitchAssumption, P!States, P!Ring, CpType, P!WritesInline, P!Empty
  <2>6. at' \in [P!Threads -> 0 .. Rings]
    BY SwitchTypes, <1>8 DEF P!Submit, P!Threads
  <2> QED BY <1>1, <2>1, <2>2, <2>3, <2>4, <2>5, <2>6 DEF P!TypeOK, CpType
<1>3. PcOK'
   BY <1>1 DEF PcOK, DispSteps, IrqSteps, P!Submit, P!Goto, P!WritesInline, P!Empty
<1>4. OneAtIt' BY <1>1 DEF OneAtIt, PcOK, Owner, Ends, Firing
<1>5. Switching'
   <2>1. UNCHANGED <<state, cur, next, record, irqs>> BY <1>1
   <2>2. ASSUME NEW q \in P!Ring, record <= wptr[q] PROVE record <= wptr'[q]
     BY SwitchTypes, <1>7, <2>2
   <2>3. Firing' = Firing /\ Ends("irq")' = Ends("irq") /\ Ends("disp")' = Ends("disp")
     BY <1>1 DEF Firing, Ends
   <2>4. \A u \in P!Threads : pc'[u] = "program" => pc[u] = "program" /\ at'[u] = at[u]
     BY <1>1
   <2> QED BY SwitchTypes, <1>1, <2>1, <2>2, <2>3, <2>4 DEF Switching, OnCur, ToNext, OnNext
<1>6. Pointers'
   <2>1. \A q \in P!Ring : rptr'[q] <= wptr'[q]
     <3> SUFFICES ASSUME NEW q \in P!Ring PROVE rptr'[q] <= wptr'[q] OBVIOUS
     <3>1. rptr[q] \in Nat /\ rptr'[q] = rptr[q] /\ rptr[q] <= wptr[q] BY SwitchTypes, <1>1 DEF Pointers
     <3> QED BY <1>7, <3>1
   <2>2. CASE state = "NONE" /\ cur = r
     <3>1. hw'.ring = r BY <1>1, <2>2 DEF Switching, OnCur
     <3>2. hw'.wptr = wptr[r] + 1 /\ wptr'[r] = wptr[r] + 1 BY <1>1, <2>2
     <3> QED BY <1>8, <2>1, <3>1, <3>2 DEF Pointers
   <2>3. CASE ~(state = "NONE" /\ cur = r)
     <3>1. hw'.wptr = hw.wptr /\ hw'.ring = hw.ring BY <1>1, <2>3
     <3>2. hw.wptr <= wptr[hw.ring] BY DEF Pointers
     <3>3. wptr[hw.ring] \in Nat /\ wptr'[hw.ring] \in Nat /\ wptr[hw.ring] <= wptr'[hw.ring] BY SwitchTypes, <1>7
     <3> QED BY SwitchTypes, <2>1, <3>1, <3>2, <3>3 DEF Pointers
   <2> QED BY <2>2, <2>3
<1> QED BY <1>2, <1>3, <1>4, <1>5, <1>6

LEMMA SentStep ==
    ASSUME SwitchAssumption, SwitchInv, P!Sent
    PROVE  SwitchInv'
<1> USE DEF SwitchInv
<1>1. /\ UNCHANGED <<state, cur, next, todo, wptr, skip_inline, works, reset, expired, at, within, hw, rptr, record, irqs, accident>>
      /\ pc["disp"] = "sent" /\ pc'["disp"] = "schedule" /\ pc'["irq"] = pc["irq"]
   BY DEF P!Sent, P!TypeOK, PcOK, P!Goto
<1>2. P!TypeOK'
  <2>1. timers' \subseteq {"dispatch", "preempt"}
    BY SwitchTypes, <1>1 DEF P!Sent, P!TypeOK, PcOK, SwitchAssumption, P!States, P!Ring, CpType
  <2> QED BY <1>1, <2>1 DEF P!TypeOK, CpType
<1>3. PcOK'
   BY <1>1 DEF PcOK, DispSteps, IrqSteps, P!Sent, P!Goto
<1>4. OneAtIt' BY <1>1 DEF OneAtIt, PcOK, Owner, Ends, Firing
<1>5. Switching'
   BY <1>1, <1>2 DEF P!TypeOK, PcOK, OneAtIt, Switching, Owner, Ends, Firing, OnCur, ToNext, OnNext, P!Ring, CpType
<1>6. Pointers'
   BY <1>1, <1>2 DEF P!TypeOK, PcOK, OneAtIt, Switching, Owner, Ends, Firing, OnCur, ToNext, OnNext, P!Ring, CpType, Pointers
<1> QED BY <1>2, <1>3, <1>4, <1>5, <1>6

LEMMA TriggerStep ==
    ASSUME SwitchAssumption, SwitchInv, NEW t \in P!Threads, P!Trigger(t)
    PROVE  SwitchInv'
<1> USE DEF SwitchInv
<1>1. /\ UNCHANGED <<cur, next, todo, wptr, skip_inline, timers, reset, expired, hw, rptr, record, irqs, accident>>
      /\ \A u \in P!Threads : u # t => at'[u] = at[u]
      /\ pc[t] = "trigger"
      /\ state = "NONE" => state' = "START"
      /\ state = "NONE" /\ t = "disp" => pc'["disp"] = "scan" /\ pc'["irq"] = pc["irq"]
      /\ state = "NONE" /\ t = "irq" => pc'["irq"] = "scan" /\ pc'["disp"] = pc["disp"]
      /\ state # "NONE" => state' = state
      /\ state # "NONE" /\ t = "disp" => pc'["disp"] \in {"timers", "idle"} /\ pc'["irq"] = pc["irq"]
      /\ state # "NONE" /\ t = "irq" => pc'["irq"] = "idle" /\ pc'["disp"] = pc["disp"]
   BY DEF P!Trigger, P!TypeOK, PcOK, P!Goto, P!LeaveTrigger
<1>2. P!TypeOK'
  <2>1. state' \in P!States
    BY SwitchTypes, <1>1 DEF P!Trigger, P!TypeOK, PcOK, SwitchAssumption, P!States, P!Ring, CpType, P!LeaveTrigger
  <2>2. at' \in [P!Threads -> 0 .. Rings]
    <3>1. 0 \in 0 .. Rings BY SwitchTypes
    <3> QED BY SwitchTypes, <3>1 DEF P!Trigger, P!LeaveTrigger
  <2>3. works' \subseteq {"scheduler", "preempt"}
    BY SwitchTypes, <1>1 DEF P!Trigger, P!TypeOK, PcOK, SwitchAssumption, P!States, P!Ring, CpType, P!LeaveTrigger
  <2>4. within' \subseteq {"work", "cp"}
    BY SwitchTypes, <1>1 DEF P!Trigger, P!TypeOK, PcOK, SwitchAssumption, P!States, P!Ring, CpType, P!LeaveTrigger
  <2> QED BY <1>1, <2>1, <2>2, <2>3, <2>4 DEF P!TypeOK, CpType
<1>3. PcOK'
   BY <1>1 DEF PcOK, DispSteps, IrqSteps, P!Trigger, P!Goto, P!LeaveTrigger
<1>4. OneAtIt' BY <1>1 DEF OneAtIt, PcOK, Owner, Ends, Firing
<1>5. Switching'
   BY <1>1, <1>2 DEF P!TypeOK, PcOK, OneAtIt, Switching, Owner, Ends, Firing, OnCur, ToNext, OnNext, P!Ring, CpType
<1>6. Pointers'
   BY <1>1, <1>2 DEF P!TypeOK, PcOK, OneAtIt, Switching, Owner, Ends, Firing, OnCur, ToNext, OnNext, P!Ring, CpType, Pointers
<1> QED BY <1>2, <1>3, <1>4, <1>5, <1>6

LEMMA ScanStep ==
    ASSUME SwitchAssumption, SwitchInv, NEW t \in P!Threads, P!Scan(t)
    PROVE  SwitchInv'
<1> USE DEF SwitchInv
<1>1. /\ UNCHANGED <<state, cur, next, todo, wptr, skip_inline, timers, works, reset, expired, within, hw, rptr, record, irqs, accident>>
      /\ \A u \in P!Threads : u # t => at'[u] = at[u]
      /\ pc[t] = "scan"
      /\ t = "disp" => pc'["disp"] \in {"scan", "decide"} /\ pc'["irq"] = pc["irq"]
      /\ t = "irq" => pc'["irq"] \in {"scan", "decide"} /\ pc'["disp"] = pc["disp"]
   BY DEF P!Scan, P!TypeOK, PcOK, P!Goto
<1>2. P!TypeOK'
  <2>1. at' \in [P!Threads -> 0 .. Rings]
    <3>1. PICK v \in 0 .. Rings : at' = [at EXCEPT ![t] = v]
      <4>1. at[t] \in 0 .. Rings BY SwitchTypes
      <4>2. CASE P!Empty(at[t]) /\ at[t] < Rings - 1
        <5>1. at[t] + 1 \in 0 .. Rings BY SwitchTypes, <4>1, <4>2
        <5> QED BY <4>2, <5>1 DEF P!Scan
      <4>3. CASE ~(P!Empty(at[t]) /\ at[t] < Rings - 1)
        <5>1. Rings \in 0 .. Rings BY SwitchTypes
        <5>2. at' = [at EXCEPT ![t] = Rings] \/ at' = [at EXCEPT ![t] = at[t]]
          <6>1. at = [at EXCEPT ![t] = at[t]] BY SwitchTypes
          <6> QED BY <4>3, <6>1 DEF P!Scan, P!NoRing
        <5> QED BY <4>1, <5>1, <5>2
      <4> QED BY <4>2, <4>3
    <3> QED BY SwitchTypes, <3>1
  <2> QED BY <1>1, <2>1 DEF P!TypeOK, CpType
<1>3. PcOK'
   BY <1>1 DEF PcOK, DispSteps, IrqSteps, P!Scan, P!Goto, P!NoRing
<1>4. OneAtIt' BY <1>1 DEF OneAtIt, PcOK, Owner, Ends, Firing
<1>5. Switching'
   BY <1>1, <1>2 DEF P!TypeOK, PcOK, OneAtIt, Switching, Owner, Ends, Firing, OnCur, ToNext, OnNext, P!Ring, CpType
<1>6. Pointers'
   BY <1>1, <1>2 DEF P!TypeOK, PcOK, OneAtIt, Switching, Owner, Ends, Firing, OnCur, ToNext, OnNext, P!Ring, CpType, Pointers
<1> QED BY <1>2, <1>3, <1>4, <1>5, <1>6

LEMMA NothingToRunStep ==
    ASSUME SwitchAssumption, SwitchInv, NEW t \in P!Threads, P!NothingToRun(t)
    PROVE  SwitchInv'
<1> USE DEF SwitchInv
<1>1. /\ UNCHANGED <<cur, next, todo, wptr, skip_inline, timers, reset, expired, hw, rptr, record, irqs, accident>>
      /\ \A u \in P!Threads : u # t => at'[u] = at[u]
      /\ pc[t] = "decide" /\ state' = "NONE"
      /\ t = "disp" => pc'["disp"] \in {"timers", "idle"} /\ pc'["irq"] = pc["irq"]
      /\ t = "irq" => pc'["irq"] = "idle" /\ pc'["disp"] = pc["disp"]
   BY DEF P!NothingToRun, P!TypeOK, PcOK, P!Goto, P!LeaveTrigger
<1>2. P!TypeOK'
  <2>1. state' \in P!States
    BY SwitchTypes, <1>1 DEF P!NothingToRun, P!TypeOK, PcOK, SwitchAssumption, P!States, P!Ring, CpType, P!LeaveTrigger
  <2>2. at' \in [P!Threads -> 0 .. Rings]
    BY SMTT(30), ZenonT(30), SwitchTypes, <1>1 DEF P!NothingToRun, P!TypeOK, PcOK, SwitchAssumption, P!States, P!Ring, CpType, P!LeaveTrigger
  <2>3. works' \subseteq {"scheduler", "preempt"}
    BY SwitchTypes, <1>1 DEF P!NothingToRun, P!TypeOK, PcOK, SwitchAssumption, P!States, P!Ring, CpType, P!LeaveTrigger
  <2>4. within' \subseteq {"work", "cp"}
    BY SwitchTypes, <1>1 DEF P!NothingToRun, P!TypeOK, PcOK, SwitchAssumption, P!States, P!Ring, CpType, P!LeaveTrigger
  <2> QED BY <1>1, <2>1, <2>2, <2>3, <2>4 DEF P!TypeOK, CpType
<1>3. PcOK'
   BY <1>1 DEF PcOK, DispSteps, IrqSteps, P!NothingToRun, P!Goto, P!LeaveTrigger
<1>4. OneAtIt' BY <1>1 DEF OneAtIt, PcOK, Owner, Ends, Firing
<1>5. Switching'
   BY <1>1, <1>2 DEF P!TypeOK, PcOK, OneAtIt, Switching, Owner, Ends, Firing, OnCur, ToNext, OnNext, P!Ring, CpType
<1>6. Pointers'
   BY <1>1, <1>2 DEF P!TypeOK, PcOK, OneAtIt, Switching, Owner, Ends, Firing, OnCur, ToNext, OnNext, P!Ring, CpType, Pointers
<1> QED BY <1>2, <1>3, <1>4, <1>5, <1>6

LEMMA StayOnRingStep ==
    ASSUME SwitchAssumption, SwitchInv, NEW t \in P!Threads, P!StayOnRing(t)
    PROVE  SwitchInv'
<1> USE DEF SwitchInv
<1>1. /\ UNCHANGED <<state, cur, next, todo, wptr, timers, works, reset, at, within, rptr, record, irqs, accident>>
      /\ pc[t] = "decide"
      /\ t = "disp" => pc'["disp"] = "stay" /\ pc'["irq"] = pc["irq"]
      /\ t = "irq" => pc'["irq"] = "stay" /\ pc'["disp"] = pc["disp"]
      /\ hw'.ring = hw.ring /\ hw'.wanted = hw.wanted /\ hw'.restore = hw.restore /\ hw'.status = hw.status
      /\ hw'.wptr \in {hw.wptr, wptr[cur]}
   BY DEF P!StayOnRing, P!TypeOK, PcOK, P!Goto, P!UpdateWptr, CpType
<1>2. P!TypeOK'
  <2>1. hw' \in CpType
    BY SwitchTypes, <1>1 DEF P!StayOnRing, P!TypeOK, PcOK, SwitchAssumption, P!States, P!Ring, CpType, P!UpdateWptr, P!MustWrite
  <2>2. skip_inline' \in [P!Ring -> BOOLEAN]
    BY SwitchTypes, <1>1 DEF P!StayOnRing, P!TypeOK, PcOK, SwitchAssumption, P!States, P!Ring, CpType, P!UpdateWptr, P!MustWrite
  <2>3. expired' \subseteq P!Ring
    BY SwitchTypes, <1>1 DEF P!StayOnRing, P!TypeOK, PcOK, SwitchAssumption, P!States, P!Ring, CpType, P!UpdateWptr, P!MustWrite
  <2> QED BY <1>1, <2>1, <2>2, <2>3 DEF P!TypeOK, CpType
<1>3. PcOK'
   BY <1>1 DEF PcOK, DispSteps, IrqSteps, P!StayOnRing, P!Goto, P!UpdateWptr, P!MustWrite
<1>4. OneAtIt' BY <1>1 DEF OneAtIt, PcOK, Owner, Ends, Firing
<1>5. Switching'
   BY <1>1, <1>2 DEF P!TypeOK, PcOK, OneAtIt, Switching, Owner, Ends, Firing, OnCur, ToNext, OnNext, P!Ring, CpType
<1>6. Pointers'
   BY <1>1, <1>2 DEF P!TypeOK, PcOK, OneAtIt, Switching, Owner, Ends, Firing, OnCur, ToNext, OnNext, P!Ring, CpType, Pointers
<1> QED BY <1>2, <1>3, <1>4, <1>5, <1>6

LEMMA StayedStep ==
    ASSUME SwitchAssumption, SwitchInv, NEW t \in P!Threads, P!Stayed(t)
    PROVE  SwitchInv'
<1> USE DEF SwitchInv
<1>1. /\ UNCHANGED <<cur, next, todo, wptr, skip_inline, reset, expired, hw, rptr, record, irqs, accident>>
      /\ \A u \in P!Threads : u # t => at'[u] = at[u]
      /\ pc[t] = "stay" /\ state' = "NONE"
      /\ t = "disp" => pc'["disp"] \in {"timers", "idle"} /\ pc'["irq"] = pc["irq"]
      /\ t = "irq" => pc'["irq"] = "idle" /\ pc'["disp"] = pc["disp"]
   BY DEF P!Stayed, P!TypeOK, PcOK, P!Goto, P!LeaveTrigger
<1>2. P!TypeOK'
  <2>1. timers' \subseteq {"dispatch", "preempt"}
    BY SwitchTypes, <1>1 DEF P!Stayed, P!TypeOK, PcOK, SwitchAssumption, P!States, P!Ring, CpType, P!LeaveTrigger
  <2>2. state' \in P!States
    BY SwitchTypes, <1>1 DEF P!Stayed, P!TypeOK, PcOK, SwitchAssumption, P!States, P!Ring, CpType, P!LeaveTrigger
  <2>3. at' \in [P!Threads -> 0 .. Rings]
    BY SMTT(30), ZenonT(30), SwitchTypes, <1>1 DEF P!Stayed, P!TypeOK, PcOK, SwitchAssumption, P!States, P!Ring, CpType, P!LeaveTrigger
  <2>4. works' \subseteq {"scheduler", "preempt"}
    BY SwitchTypes, <1>1 DEF P!Stayed, P!TypeOK, PcOK, SwitchAssumption, P!States, P!Ring, CpType, P!LeaveTrigger
  <2>5. within' \subseteq {"work", "cp"}
    BY SwitchTypes, <1>1 DEF P!Stayed, P!TypeOK, PcOK, SwitchAssumption, P!States, P!Ring, CpType, P!LeaveTrigger
  <2> QED BY <1>1, <2>1, <2>2, <2>3, <2>4, <2>5 DEF P!TypeOK, CpType
<1>3. PcOK'
   BY <1>1 DEF PcOK, DispSteps, IrqSteps, P!Stayed, P!Goto, P!LeaveTrigger
<1>4. OneAtIt' BY <1>1 DEF OneAtIt, PcOK, Owner, Ends, Firing
<1>5. Switching'
   BY <1>1, <1>2 DEF P!TypeOK, PcOK, OneAtIt, Switching, Owner, Ends, Firing, OnCur, ToNext, OnNext, P!Ring, CpType
<1>6. Pointers'
   BY <1>1, <1>2 DEF P!TypeOK, PcOK, OneAtIt, Switching, Owner, Ends, Firing, OnCur, ToNext, OnNext, P!Ring, CpType, Pointers
<1> QED BY <1>2, <1>3, <1>4, <1>5, <1>6

LEMMA SwitchRingStep ==
    ASSUME SwitchAssumption, SwitchInv, NEW t \in P!Threads, P!SwitchRing(t)
    PROVE  SwitchInv'
<1> USE DEF SwitchInv
<1>1. /\ UNCHANGED <<state, cur, next, todo, wptr, skip_inline, works, reset, expired, at, within, hw, rptr, irqs, accident>>
      /\ pc[t] = "decide" /\ at[t] \in P!Ring \ {cur} /\ record' = wptr[at[t]]
      /\ t = "disp" => pc'["disp"] = "program" /\ pc'["irq"] = pc["irq"]
      /\ t = "irq" => pc'["irq"] = "program" /\ pc'["disp"] = pc["disp"]
   BY DEF P!SwitchRing, P!TypeOK, PcOK, P!Goto
<1>2. P!TypeOK'
  <2>1. timers' \subseteq {"dispatch", "preempt"}
    BY SwitchTypes, <1>1 DEF P!SwitchRing, P!TypeOK, PcOK, SwitchAssumption, P!States, P!Ring, CpType
  <2>2. record' \in Nat
    BY SMTT(30), ZenonT(30), SwitchTypes, <1>1 DEF P!SwitchRing, P!TypeOK, PcOK, SwitchAssumption, P!States, P!Ring, CpType
  <2> QED BY <1>1, <2>1, <2>2 DEF P!TypeOK, CpType
<1>3. PcOK'
   BY <1>1 DEF PcOK, DispSteps, IrqSteps, P!SwitchRing, P!Goto
<1>4. OneAtIt' BY <1>1 DEF OneAtIt, PcOK, Owner, Ends, Firing
<1>5. Switching'
   BY SMTT(30), ZenonT(30), <1>1, <1>2 DEF P!TypeOK, PcOK, OneAtIt, Switching, Owner, Ends, Firing, OnCur, ToNext, OnNext, P!Ring, CpType
<1>6. Pointers'
   BY <1>1, <1>2 DEF P!TypeOK, PcOK, OneAtIt, Switching, Owner, Ends, Firing, OnCur, ToNext, OnNext, P!Ring, CpType, Pointers
<1> QED BY <1>2, <1>3, <1>4, <1>5, <1>6

LEMMA ProgramStep ==
    ASSUME SwitchAssumption, SwitchInv, NEW t \in P!Threads, P!Program(t)
    PROVE  SwitchInv'
<1> USE DEF SwitchInv
<1>1. /\ UNCHANGED <<cur, todo, wptr, skip_inline, works, reset, expired, at, within, rptr, record, irqs, accident>>
      /\ pc[t] = "program" /\ next' = at[t] /\ state' = "TRIGGERED"
      /\ t = "disp" => pc'["disp"] = "fire" /\ pc'["irq"] = pc["irq"]
      /\ t = "irq" => pc'["irq"] = "fire" /\ pc'["disp"] = pc["disp"]
      /\ hw' = [hw EXCEPT !.keepalive = TRUE, !.restore = at[t]]
   BY DEF P!Program, P!TypeOK, PcOK, P!Goto
<1>2. P!TypeOK'
  <2>1. hw' \in CpType
    <3>1. at[t] \in P!Ring BY <1>1 DEF Switching
    <3> QED BY SwitchTypes, <1>1, <3>1 DEF CpType
  <2>2. next' \in 0 .. Rings
    BY SMTT(30), ZenonT(30), SwitchTypes, <1>1 DEF P!Program, P!TypeOK, PcOK, SwitchAssumption, P!States, P!Ring, CpType, Switching
  <2>3. timers' \subseteq {"dispatch", "preempt"}
    BY SwitchTypes, <1>1 DEF P!Program, P!TypeOK, PcOK, SwitchAssumption, P!States, P!Ring, CpType, Switching
  <2>4. state' \in P!States
    BY SwitchTypes, <1>1 DEF P!Program, P!TypeOK, PcOK, SwitchAssumption, P!States, P!Ring, CpType, Switching
  <2> QED BY <1>1, <2>1, <2>2, <2>3, <2>4 DEF P!TypeOK, CpType
<1>3. PcOK'
   BY <1>1 DEF PcOK, DispSteps, IrqSteps, P!Program, P!Goto, Switching
<1>4. OneAtIt' BY <1>1 DEF OneAtIt, PcOK, Owner, Ends, Firing
<1>5. Switching'
   BY SMTT(30), ZenonT(30), <1>1, <1>2 DEF P!TypeOK, PcOK, OneAtIt, Switching, Owner, Ends, Firing, OnCur, ToNext, OnNext, P!Ring, CpType
<1>6. Pointers'
   BY <1>1, <1>2 DEF P!TypeOK, PcOK, OneAtIt, Switching, Owner, Ends, Firing, OnCur, ToNext, OnNext, P!Ring, CpType, Pointers
<1> QED BY <1>2, <1>3, <1>4, <1>5, <1>6

LEMMA FireStep ==
    ASSUME SwitchAssumption, SwitchInv, NEW t \in P!Threads, P!Fire(t)
    PROVE  SwitchInv'
<1> USE DEF SwitchInv
<1>1. /\ UNCHANGED <<state, cur, next, todo, wptr, skip_inline, timers, reset, expired, rptr, record, irqs, accident>>
      /\ \A u \in P!Threads : u # t => at'[u] = at[u]
      /\ pc[t] = "fire"
      /\ t = "disp" => pc'["disp"] \in {"timers", "idle"} /\ pc'["irq"] = pc["irq"]
      /\ t = "irq" => pc'["irq"] = "idle" /\ pc'["disp"] = pc["disp"]
      /\ hw' = [hw EXCEPT !.status = TRUE, !.wanted = TRUE]
   BY DEF P!Fire, P!TypeOK, PcOK, P!Goto, P!LeaveTrigger
<1>2. P!TypeOK'
  <2>1. hw' \in CpType
    BY SwitchTypes, <1>1 DEF P!Fire, P!TypeOK, PcOK, SwitchAssumption, P!States, P!Ring, CpType, P!LeaveTrigger
  <2>2. at' \in [P!Threads -> 0 .. Rings]
    <3>1. 0 \in 0 .. Rings BY SwitchTypes
    <3> QED BY SwitchTypes, <3>1 DEF P!Fire, P!LeaveTrigger
  <2>3. works' \subseteq {"scheduler", "preempt"}
    BY SwitchTypes, <1>1 DEF P!Fire, P!TypeOK, PcOK, SwitchAssumption, P!States, P!Ring, CpType, P!LeaveTrigger
  <2>4. within' \subseteq {"work", "cp"}
    BY SwitchTypes, <1>1 DEF P!Fire, P!TypeOK, PcOK, SwitchAssumption, P!States, P!Ring, CpType, P!LeaveTrigger
  <2> QED BY <1>1, <2>1, <2>2, <2>3, <2>4 DEF P!TypeOK, CpType
<1>3. PcOK'
   BY <1>1 DEF PcOK, DispSteps, IrqSteps, P!Fire, P!Goto, P!LeaveTrigger
<1>4. OneAtIt' BY <1>1 DEF OneAtIt, PcOK, Owner, Ends, Firing
<1>5. Switching'
   BY SMTT(30), ZenonT(30), <1>1, <1>2 DEF P!TypeOK, PcOK, OneAtIt, Switching, Owner, Ends, Firing, OnCur, ToNext, OnNext, P!Ring, CpType
<1>6. Pointers'
   BY <1>1, <1>2 DEF P!TypeOK, PcOK, OneAtIt, Switching, Owner, Ends, Firing, OnCur, ToNext, OnNext, P!Ring, CpType, Pointers
<1> QED BY <1>2, <1>3, <1>4, <1>5, <1>6

LEMMA WriteFailsStep ==
    ASSUME SwitchAssumption, SwitchInv, NEW t \in P!Threads, P!WriteFails(t)
    PROVE  SwitchInv'
<1> USE DEF SwitchInv
<1>1. /\ UNCHANGED <<cur, todo, wptr, skip_inline, expired, rptr, record, irqs>>
      /\ \A u \in P!Threads : u # t => at'[u] = at[u]
      /\ pc[t] \in {"program", "fire"} /\ state' = "NONE"
      /\ t = "disp" => pc'["disp"] \in {"timers", "idle"} /\ pc'["irq"] = pc["irq"]
      /\ t = "irq" => pc'["irq"] = "idle" /\ pc'["disp"] = pc["disp"]
      /\ hw' = [hw EXCEPT !.keepalive = FALSE]
   BY DEF P!WriteFails, P!TypeOK, PcOK, P!Goto
<1>2. P!TypeOK'
  <2>1. next' \in 0 .. Rings
    BY SwitchTypes, <1>1 DEF P!WriteFails, P!TypeOK, PcOK, SwitchAssumption, P!States, P!Ring, CpType, P!SchedulerFault, P!NoRing
  <2>2. timers' \subseteq {"dispatch", "preempt"}
    BY SwitchTypes, <1>1 DEF P!WriteFails, P!TypeOK, PcOK, SwitchAssumption, P!States, P!Ring, CpType, P!SchedulerFault, P!NoRing
  <2>3. reset' \in BOOLEAN
    BY SwitchTypes, <1>1 DEF P!WriteFails, P!TypeOK, PcOK, SwitchAssumption, P!States, P!Ring, CpType, P!SchedulerFault, P!NoRing
  <2>4. works' \subseteq {"scheduler", "preempt"}
    BY SwitchTypes, <1>1 DEF P!WriteFails, P!TypeOK, PcOK, SwitchAssumption, P!States, P!Ring, CpType, P!SchedulerFault, P!NoRing
  <2>5. state' \in P!States
    BY SwitchTypes, <1>1 DEF P!WriteFails, P!TypeOK, PcOK, SwitchAssumption, P!States, P!Ring, CpType, P!SchedulerFault, P!NoRing
  <2>6. hw' \in CpType
    BY SwitchTypes, <1>1 DEF P!WriteFails, P!TypeOK, PcOK, SwitchAssumption, P!States, P!Ring, CpType, P!SchedulerFault, P!NoRing
  <2>7. at' \in [P!Threads -> 0 .. Rings]
    <3>1. 0 \in 0 .. Rings BY SwitchTypes
    <3> QED BY SwitchTypes, <3>1 DEF P!WriteFails, P!SchedulerFault
  <2>8. within' \subseteq {"work", "cp"}
    BY SwitchTypes, <1>1 DEF P!WriteFails, P!TypeOK, PcOK, SwitchAssumption, P!States, P!Ring, CpType, P!SchedulerFault, P!NoRing
  <2> QED BY <1>1, <2>1, <2>2, <2>3, <2>4, <2>5, <2>6, <2>7, <2>8 DEF P!TypeOK, CpType
<1>3. PcOK'
   BY <1>1 DEF PcOK, DispSteps, IrqSteps, P!WriteFails, P!Goto, P!SchedulerFault, P!NoRing
<1>4. OneAtIt' BY <1>1 DEF OneAtIt, PcOK, Owner, Ends, Firing
<1>5. Switching'
   BY <1>1, <1>2 DEF P!TypeOK, PcOK, OneAtIt, Switching, Owner, Ends, Firing, OnCur, ToNext, OnNext, P!Ring, CpType
<1>6. Pointers'
   BY <1>1, <1>2 DEF P!TypeOK, PcOK, OneAtIt, Switching, Owner, Ends, Firing, OnCur, ToNext, OnNext, P!Ring, CpType, Pointers
<1> QED BY <1>2, <1>3, <1>4, <1>5, <1>6

LEMMA CpInterruptStep ==
    ASSUME SwitchAssumption, SwitchInv, P!CpInterrupt
    PROVE  SwitchInv'
<1> USE DEF SwitchInv
<1>1. /\ UNCHANGED <<state, cur, next, todo, wptr, skip_inline, timers, works, reset, expired, at, hw, rptr, record, accident>>
      /\ pc["irq"] = "idle" /\ pc'["irq"] = "trigger" /\ pc'["disp"] = pc["disp"]
      /\ irqs' = irqs \ {"cp"}
   BY DEF P!CpInterrupt, P!TypeOK, PcOK, P!Goto
<1>2. P!TypeOK'
  <2>1. irqs' \subseteq {"cp", "sw"}
    BY SwitchTypes, <1>1 DEF P!CpInterrupt, P!TypeOK, PcOK, SwitchAssumption, P!States, P!Ring, CpType
  <2>2. within' \subseteq {"work", "cp"}
    BY SwitchTypes, <1>1 DEF P!CpInterrupt, P!TypeOK, PcOK, SwitchAssumption, P!States, P!Ring, CpType
  <2> QED BY <1>1, <2>1, <2>2 DEF P!TypeOK, CpType
<1>3. PcOK'
   BY <1>1 DEF PcOK, DispSteps, IrqSteps, P!CpInterrupt, P!Goto
<1>4. OneAtIt' BY <1>1 DEF OneAtIt, PcOK, Owner, Ends, Firing
<1>5. Switching'
   BY <1>1, <1>2 DEF P!TypeOK, PcOK, OneAtIt, Switching, Owner, Ends, Firing, OnCur, ToNext, OnNext, P!Ring, CpType
<1>6. Pointers'
   BY <1>1, <1>2 DEF P!TypeOK, PcOK, OneAtIt, Switching, Owner, Ends, Firing, OnCur, ToNext, OnNext, P!Ring, CpType, Pointers
<1> QED BY <1>2, <1>3, <1>4, <1>5, <1>6

LEMMA SwInterruptStep ==
    ASSUME SwitchAssumption, SwitchInv, P!SwInterrupt
    PROVE  SwitchInv'
<1> USE DEF SwitchInv
<1>1. /\ UNCHANGED <<cur, next, todo, wptr, skip_inline, timers, works, reset, expired, at, within, hw, rptr, record, accident>>
      /\ pc["irq"] = "idle" /\ irqs' = irqs \ {"sw"} /\ "sw" \in irqs
      /\ pc'["disp"] = pc["disp"]
      /\ state = "TRIGGERED" => state' = "PENDING" /\ pc'["irq"] = "callback"
      /\ state # "TRIGGERED" => state' = state /\ pc'["irq"] = "idle"
   BY DEF P!SwInterrupt, P!TypeOK, PcOK, P!Goto
<1>2. P!TypeOK'
  <2>1. irqs' \subseteq {"cp", "sw"}
    BY SwitchTypes, <1>1 DEF P!SwInterrupt, P!TypeOK, PcOK, SwitchAssumption, P!States, P!Ring, CpType
  <2>2. state' \in P!States
    BY SwitchTypes, <1>1 DEF P!SwInterrupt, P!TypeOK, PcOK, SwitchAssumption, P!States, P!Ring, CpType
  <2> QED BY <1>1, <2>1, <2>2 DEF P!TypeOK, CpType
<1>3. PcOK'
   BY <1>1 DEF PcOK, DispSteps, IrqSteps, P!SwInterrupt, P!Goto
<1>4. OneAtIt' BY <1>1 DEF OneAtIt, PcOK, Owner, Ends, Firing, Switching, OnCur
<1>5. Switching'
   BY <1>1, <1>2 DEF P!TypeOK, PcOK, OneAtIt, Switching, Owner, Ends, Firing, OnCur, ToNext, OnNext, P!Ring, CpType
<1>6. Pointers'
   BY <1>1, <1>2 DEF P!TypeOK, PcOK, OneAtIt, Switching, Owner, Ends, Firing, OnCur, ToNext, OnNext, P!Ring, CpType, Pointers
<1> QED BY <1>2, <1>3, <1>4, <1>5, <1>6

LEMMA CallbackEarlyStep ==
    ASSUME SwitchAssumption, SwitchInv, P!CallbackEarly
    PROVE  SwitchInv'
<1> USE DEF SwitchInv
<1>1. /\ UNCHANGED <<cur, next, todo, wptr, skip_inline, timers, reset, expired, at, within, hw, rptr, record, irqs, accident>>
      /\ pc["irq"] = "callback" /\ pc'["irq"] = "idle" /\ pc'["disp"] = pc["disp"]
      /\ state' = "COMPLETE"
   BY DEF P!CallbackEarly, P!TypeOK, PcOK, P!Goto
<1>2. P!TypeOK'
  <2>1. state' \in P!States
    BY SwitchTypes, <1>1 DEF P!CallbackEarly, P!TypeOK, PcOK, SwitchAssumption, P!States, P!Ring, CpType
  <2>2. works' \subseteq {"scheduler", "preempt"}
    BY SwitchTypes, <1>1 DEF P!CallbackEarly, P!TypeOK, PcOK, SwitchAssumption, P!States, P!Ring, CpType
  <2> QED BY <1>1, <2>1, <2>2 DEF P!TypeOK, CpType
<1>3. PcOK'
   BY <1>1 DEF PcOK, DispSteps, IrqSteps, P!CallbackEarly, P!Goto
<1>4. OneAtIt' BY <1>1 DEF OneAtIt, PcOK, Owner, Ends, Firing
<1>5. Switching'
   BY <1>1, <1>2 DEF P!TypeOK, PcOK, OneAtIt, Switching, Owner, Ends, Firing, OnCur, ToNext, OnNext, P!Ring, CpType
<1>6. Pointers'
   BY <1>1, <1>2 DEF P!TypeOK, PcOK, OneAtIt, Switching, Owner, Ends, Firing, OnCur, ToNext, OnNext, P!Ring, CpType, Pointers
<1> QED BY <1>2, <1>3, <1>4, <1>5, <1>6

LEMMA CallbackSwapStep ==
    ASSUME SwitchAssumption, SwitchInv, P!CallbackSwap
    PROVE  SwitchInv'
<1> USE DEF SwitchInv
<1>1. /\ UNCHANGED <<state, todo, wptr, skip_inline, works, reset, expired, at, within, rptr, record, irqs, accident>>
      /\ pc["irq"] = "callback" /\ pc'["irq"] = "swapped" /\ pc'["disp"] = pc["disp"]
      /\ cur' = next /\ next' = Rings
      /\ hw' = [hw EXCEPT !.keepalive = FALSE]
   BY DEF P!CallbackSwap, P!TypeOK, PcOK, P!Goto, P!NoRing
<1>2. P!TypeOK'
  <2>1. hw' \in CpType
    BY SwitchTypes, <1>1 DEF P!CallbackSwap, P!TypeOK, PcOK, SwitchAssumption, P!States, P!Ring, CpType, P!NoRing, Switching, OneAtIt, OnNext, Ends
  <2>2. timers' \subseteq {"dispatch", "preempt"}
    BY SwitchTypes, <1>1 DEF P!CallbackSwap, P!TypeOK, PcOK, SwitchAssumption, P!States, P!Ring, CpType, P!NoRing, Switching, OneAtIt, OnNext, Ends
  <2>3. cur' \in P!Ring
    BY SwitchTypes, <1>1 DEF P!CallbackSwap, P!TypeOK, PcOK, SwitchAssumption, P!States, P!Ring, CpType, P!NoRing, Switching, OneAtIt, OnNext, Ends
  <2>4. next' \in 0 .. Rings
    BY SwitchTypes, <1>1 DEF P!CallbackSwap, P!TypeOK, PcOK, SwitchAssumption, P!States, P!Ring, CpType, P!NoRing, Switching, OneAtIt, OnNext, Ends
  <2> QED BY <1>1, <2>1, <2>2, <2>3, <2>4 DEF P!TypeOK, CpType
<1>3. PcOK'
   BY <1>1 DEF PcOK, DispSteps, IrqSteps, P!CallbackSwap, P!Goto, P!NoRing, Switching, OneAtIt, OnNext, Ends
<1>4. OneAtIt' BY <1>1 DEF OneAtIt, PcOK, Owner, Ends, Firing
<1>5. Switching'
   BY <1>1, <1>2 DEF P!TypeOK, PcOK, OneAtIt, Switching, Owner, Ends, Firing, OnCur, ToNext, OnNext, P!Ring, CpType
<1>6. Pointers'
   BY <1>1, <1>2 DEF P!TypeOK, PcOK, OneAtIt, Switching, Owner, Ends, Firing, OnCur, ToNext, OnNext, P!Ring, CpType, Pointers
<1> QED BY <1>2, <1>3, <1>4, <1>5, <1>6

LEMMA SwappedStep ==
    ASSUME SwitchAssumption, SwitchInv, NEW t \in P!Threads, P!Swapped(t)
    PROVE  SwitchInv'
<1> USE DEF SwitchInv
<1>1. /\ UNCHANGED <<state, cur, next, todo, wptr, timers, works, reset, at, within, rptr, record, irqs, accident>>
      /\ pc[t] = "swapped"
      /\ t = "disp" => pc'["disp"] = "armed" /\ pc'["irq"] = pc["irq"]
      /\ t = "irq" => pc'["irq"] = "armed" /\ pc'["disp"] = pc["disp"]
      /\ hw'.ring = hw.ring /\ hw'.wanted = hw.wanted /\ hw'.restore = hw.restore /\ hw'.status = hw.status
      /\ hw'.wptr \in {hw.wptr, wptr[cur]}
   BY DEF P!Swapped, P!TypeOK, PcOK, P!Goto, P!UpdateWptr, CpType
<1>2. P!TypeOK'
  <2>1. hw' \in CpType
    BY SwitchTypes, <1>1 DEF P!Swapped, P!TypeOK, PcOK, SwitchAssumption, P!States, P!Ring, CpType, P!UpdateWptr, P!MustWrite
  <2>2. skip_inline' \in [P!Ring -> BOOLEAN]
    BY SwitchTypes, <1>1 DEF P!Swapped, P!TypeOK, PcOK, SwitchAssumption, P!States, P!Ring, CpType, P!UpdateWptr, P!MustWrite
  <2>3. expired' \subseteq P!Ring
    BY SwitchTypes, <1>1 DEF P!Swapped, P!TypeOK, PcOK, SwitchAssumption, P!States, P!Ring, CpType, P!UpdateWptr, P!MustWrite
  <2> QED BY <1>1, <2>1, <2>2, <2>3 DEF P!TypeOK, CpType
<1>3. PcOK'
   BY <1>1 DEF PcOK, DispSteps, IrqSteps, P!Swapped, P!Goto, P!UpdateWptr, P!MustWrite
<1>4. OneAtIt' BY <1>1 DEF OneAtIt, PcOK, Owner, Ends, Firing
<1>5. Switching'
   BY <1>1, <1>2 DEF P!TypeOK, PcOK, OneAtIt, Switching, Owner, Ends, Firing, OnCur, ToNext, OnNext, P!Ring, CpType
<1>6. Pointers'
   BY <1>1, <1>2 DEF P!TypeOK, PcOK, OneAtIt, Switching, Owner, Ends, Firing, OnCur, ToNext, OnNext, P!Ring, CpType, Pointers
<1> QED BY <1>2, <1>3, <1>4, <1>5, <1>6

LEMMA ArmedStep ==
    ASSUME SwitchAssumption, SwitchInv, NEW t \in P!Threads, P!Armed(t)
    PROVE  SwitchInv'
<1> USE DEF SwitchInv
<1>1. /\ UNCHANGED <<cur, next, todo, wptr, skip_inline, works, reset, expired, at, within, hw, rptr, record, irqs, accident>>
      /\ pc[t] = "armed" /\ state' = "NONE"
      /\ t = "disp" => pc'["disp"] = "trigger" /\ pc'["irq"] = pc["irq"]
      /\ t = "irq" => pc'["irq"] = "trigger" /\ pc'["disp"] = pc["disp"]
   BY DEF P!Armed, P!TypeOK, PcOK, P!Goto
<1>2. P!TypeOK'
  <2>1. timers' \subseteq {"dispatch", "preempt"}
    BY SwitchTypes, <1>1 DEF P!Armed, P!TypeOK, PcOK, SwitchAssumption, P!States, P!Ring, CpType, P!TimerAfterSwitch
  <2>2. state' \in P!States
    BY SwitchTypes, <1>1 DEF P!Armed, P!TypeOK, PcOK, SwitchAssumption, P!States, P!Ring, CpType, P!TimerAfterSwitch
  <2> QED BY <1>1, <2>1, <2>2 DEF P!TypeOK, CpType
<1>3. PcOK'
   BY <1>1 DEF PcOK, DispSteps, IrqSteps, P!Armed, P!Goto, P!TimerAfterSwitch
<1>4. OneAtIt' BY <1>1 DEF OneAtIt, PcOK, Owner, Ends, Firing
<1>5. Switching'
   BY <1>1, <1>2 DEF P!TypeOK, PcOK, OneAtIt, Switching, Owner, Ends, Firing, OnCur, ToNext, OnNext, P!Ring, CpType
<1>6. Pointers'
   BY <1>1, <1>2 DEF P!TypeOK, PcOK, OneAtIt, Switching, Owner, Ends, Firing, OnCur, ToNext, OnNext, P!Ring, CpType, Pointers
<1> QED BY <1>2, <1>3, <1>4, <1>5, <1>6

LEMMA PreemptTimerStep ==
    ASSUME SwitchAssumption, SwitchInv, P!PreemptTimer
    PROVE  SwitchInv'
<1> USE DEF SwitchInv
<1>1. /\ UNCHANGED <<cur, next, todo, wptr, skip_inline, reset, expired, pc, at, within, hw, rptr, record, irqs>>
      /\ pc["disp"] # "fire" /\ pc["irq"] # "fire"
      /\ state' = IF state = "TRIGGERED" THEN "FAULTED" ELSE state
   BY DEF P!PreemptTimer, P!TypeOK, PcOK, P!Goto, P!MayFault
<1>2. P!TypeOK'
  <2>1. timers' \subseteq {"dispatch", "preempt"}
    BY SwitchTypes, <1>1 DEF P!PreemptTimer, P!TypeOK, PcOK, SwitchAssumption, P!States, P!Ring, CpType
  <2>2. state' \in P!States
    BY SwitchTypes, <1>1 DEF P!PreemptTimer, P!TypeOK, PcOK, SwitchAssumption, P!States, P!Ring, CpType
  <2>3. works' \subseteq {"scheduler", "preempt"}
    BY SwitchTypes, <1>1 DEF P!PreemptTimer, P!TypeOK, PcOK, SwitchAssumption, P!States, P!Ring, CpType
  <2> QED BY <1>1, <2>1, <2>2, <2>3 DEF P!TypeOK, CpType
<1>3. PcOK'
   BY <1>1 DEF PcOK, DispSteps, IrqSteps, P!PreemptTimer, P!Goto
<1>4. OneAtIt' BY <1>1 DEF OneAtIt, PcOK, Owner, Ends, Firing
<1>5. Switching'
   BY <1>1, <1>2 DEF P!TypeOK, PcOK, OneAtIt, Switching, Owner, Ends, Firing, OnCur, ToNext, OnNext, P!Ring, CpType
<1>6. Pointers'
   BY <1>1, <1>2 DEF P!TypeOK, PcOK, OneAtIt, Switching, Owner, Ends, Firing, OnCur, ToNext, OnNext, P!Ring, CpType, Pointers
<1> QED BY <1>2, <1>3, <1>4, <1>5, <1>6

LEMMA PreemptWorkerStep ==
    ASSUME SwitchAssumption, SwitchInv, P!PreemptWorker
    PROVE  SwitchInv'
<1> USE DEF SwitchInv
<1>1. /\ UNCHANGED <<cur, next, todo, wptr, skip_inline, timers, expired, pc, at, within, hw, rptr, record, irqs, accident>>
      /\ pc["disp"] \in {"idle", "sent", "timers"}
      /\ state' = IF state = "FAULTED" /\ ~hw.status THEN "COMPLETE" ELSE state
   BY DEF P!PreemptWorker, P!TypeOK, PcOK, P!Goto
<1>2. P!TypeOK'
  <2>1. works' \subseteq {"scheduler", "preempt"}
    BY SwitchTypes, <1>1 DEF P!PreemptWorker, P!TypeOK, PcOK, SwitchAssumption, P!States, P!Ring, CpType
  <2>2. state' \in P!States
    BY SwitchTypes, <1>1 DEF P!PreemptWorker, P!TypeOK, PcOK, SwitchAssumption, P!States, P!Ring, CpType
  <2>3. reset' \in BOOLEAN
    BY SwitchTypes, <1>1 DEF P!PreemptWorker, P!TypeOK, PcOK, SwitchAssumption, P!States, P!Ring, CpType
  <2> QED BY <1>1, <2>1, <2>2, <2>3 DEF P!TypeOK, CpType
<1>3. PcOK'
   BY <1>1 DEF PcOK, DispSteps, IrqSteps, P!PreemptWorker, P!Goto
<1>4. OneAtIt' BY <1>1 DEF OneAtIt, PcOK, Owner, Ends, Firing
<1>5. Switching'
   BY <1>1, <1>2 DEF P!TypeOK, PcOK, OneAtIt, Switching, Owner, Ends, Firing, OnCur, ToNext, OnNext, P!Ring, CpType
<1>6. Pointers'
   BY <1>1, <1>2 DEF P!TypeOK, PcOK, OneAtIt, Switching, Owner, Ends, Firing, OnCur, ToNext, OnNext, P!Ring, CpType, Pointers
<1> QED BY <1>2, <1>3, <1>4, <1>5, <1>6

LEMMA ScheduleStep ==
    ASSUME SwitchAssumption, SwitchInv, P!Schedule
    PROVE  SwitchInv'
<1> USE DEF SwitchInv
<1>1. /\ UNCHANGED <<state, cur, next, todo, wptr, skip_inline, timers, works, reset, expired, at, within, hw, rptr, record, irqs, accident>>
      /\ pc["disp"] = "schedule" /\ pc'["disp"] = (IF state = "COMPLETE" THEN "done" ELSE "trigger") /\ pc'["irq"] = pc["irq"]
   BY DEF P!Schedule, P!TypeOK, PcOK, P!Goto
<1>2. P!TypeOK'
  <2> QED BY <1>1 DEF P!TypeOK, CpType
<1>3. PcOK'
   BY <1>1 DEF PcOK, DispSteps, IrqSteps, P!Schedule, P!Goto
<1>4. OneAtIt' BY <1>1 DEF OneAtIt, PcOK, Owner, Ends, Firing
<1>5. Switching'
   BY <1>1, <1>2 DEF P!TypeOK, PcOK, OneAtIt, Switching, Owner, Ends, Firing, OnCur, ToNext, OnNext, P!Ring, CpType
<1>6. Pointers'
   BY <1>1, <1>2 DEF P!TypeOK, PcOK, OneAtIt, Switching, Owner, Ends, Firing, OnCur, ToNext, OnNext, P!Ring, CpType, Pointers
<1> QED BY <1>2, <1>3, <1>4, <1>5, <1>6

LEMMA DoneStep ==
    ASSUME SwitchAssumption, SwitchInv, P!Done
    PROVE  SwitchInv'
<1> USE DEF SwitchInv
<1>1. /\ UNCHANGED <<state, todo, wptr, skip_inline, expired, at, within, hw, rptr, record, irqs, accident>>
      /\ pc["disp"] = "done" /\ "sw" \notin irqs /\ pc'["irq"] = pc["irq"]
      /\ hw.status => pc'["disp"] = "trigger" /\ cur' = cur /\ next' = next
      /\ ~hw.status => pc'["disp"] = "swapped" /\ cur' = next /\ next' = Rings
   BY DEF P!Done, P!TypeOK, PcOK, P!Goto, P!SchedulerFault, P!NoRing
<1>2. P!TypeOK'
  <2>1. reset' \in BOOLEAN
    BY SwitchTypes, <1>1 DEF P!Done, P!TypeOK, PcOK, SwitchAssumption, P!States, P!Ring, CpType, P!SchedulerFault, P!NoRing, Switching, OneAtIt, OnNext, Ends
  <2>2. works' \subseteq {"scheduler", "preempt"}
    BY SMTT(30), ZenonT(30), SwitchTypes, <1>1 DEF P!Done, P!TypeOK, PcOK, SwitchAssumption, P!States, P!Ring, CpType, P!SchedulerFault, P!NoRing, Switching, OneAtIt, OnNext, Ends
  <2>3. timers' \subseteq {"dispatch", "preempt"}
    BY SMTT(30), ZenonT(30), SwitchTypes, <1>1 DEF P!Done, P!TypeOK, PcOK, SwitchAssumption, P!States, P!Ring, CpType, P!SchedulerFault, P!NoRing, Switching, OneAtIt, OnNext, Ends
  <2>4. cur' \in P!Ring
    BY SwitchTypes, <1>1 DEF P!Done, P!TypeOK, PcOK, SwitchAssumption, P!States, P!Ring, CpType, P!SchedulerFault, P!NoRing, Switching, OneAtIt, OnNext, Ends
  <2>5. next' \in 0 .. Rings
    BY SMTT(30), ZenonT(30), SwitchTypes, <1>1 DEF P!Done, P!TypeOK, PcOK, SwitchAssumption, P!States, P!Ring, CpType, P!SchedulerFault, P!NoRing, Switching, OneAtIt, OnNext, Ends
  <2> QED BY <1>1, <2>1, <2>2, <2>3, <2>4, <2>5 DEF P!TypeOK, CpType
<1>3. PcOK'
   BY <1>1 DEF PcOK, DispSteps, IrqSteps, P!Done, P!Goto, P!SchedulerFault, P!NoRing, Switching, OneAtIt, OnNext, Ends
<1>4. OneAtIt' BY <1>1 DEF OneAtIt, PcOK, Owner, Ends, Firing
<1>5. Switching'
   BY <1>1, <1>2 DEF P!TypeOK, PcOK, OneAtIt, Switching, Owner, Ends, Firing, OnCur, ToNext, OnNext, P!Ring, CpType
<1>6. Pointers'
   BY <1>1, <1>2 DEF P!TypeOK, PcOK, OneAtIt, Switching, Owner, Ends, Firing, OnCur, ToNext, OnNext, P!Ring, CpType, Pointers
<1> QED BY <1>2, <1>3, <1>4, <1>5, <1>6

LEMMA WorkerStartStep ==
    ASSUME SwitchAssumption, SwitchInv, P!WorkerStart
    PROVE  SwitchInv'
<1> USE DEF SwitchInv
<1>1. /\ UNCHANGED <<state, cur, next, todo, wptr, skip_inline, timers, at, hw, rptr, record, irqs, accident>>
      /\ pc["disp"] = "idle" /\ pc'["disp"] \in {"recover", "schedule"} /\ pc'["irq"] = pc["irq"]
   BY DEF P!WorkerStart, P!TypeOK, PcOK, P!Goto, P!Overdue
<1>2. P!TypeOK'
  <2>1. works' \subseteq {"scheduler", "preempt"}
    BY SwitchTypes, <1>1 DEF P!WorkerStart, P!TypeOK, PcOK, SwitchAssumption, P!States, P!Ring, CpType, P!Overdue, P!Empty
  <2>2. reset' \in BOOLEAN
    BY SwitchTypes, <1>1 DEF P!WorkerStart, P!TypeOK, PcOK, SwitchAssumption, P!States, P!Ring, CpType, P!Overdue, P!Empty
  <2>3. expired' \subseteq P!Ring
    BY SwitchTypes, <1>1 DEF P!WorkerStart, P!TypeOK, PcOK, SwitchAssumption, P!States, P!Ring, CpType, P!Overdue, P!Empty
  <2>4. within' \subseteq {"work", "cp"}
    BY SwitchTypes, <1>1 DEF P!WorkerStart, P!TypeOK, PcOK, SwitchAssumption, P!States, P!Ring, CpType, P!Overdue, P!Empty
  <2> QED BY <1>1, <2>1, <2>2, <2>3, <2>4 DEF P!TypeOK, CpType
<1>3. PcOK'
   BY <1>1 DEF PcOK, DispSteps, IrqSteps, P!WorkerStart, P!Goto, P!Overdue, P!Empty
<1>4. OneAtIt' BY <1>1 DEF OneAtIt, PcOK, Owner, Ends, Firing
<1>5. Switching'
   BY <1>1, <1>2 DEF P!TypeOK, PcOK, OneAtIt, Switching, Owner, Ends, Firing, OnCur, ToNext, OnNext, P!Ring, CpType
<1>6. Pointers'
   BY <1>1, <1>2 DEF P!TypeOK, PcOK, OneAtIt, Switching, Owner, Ends, Firing, OnCur, ToNext, OnNext, P!Ring, CpType, Pointers
<1> QED BY <1>2, <1>3, <1>4, <1>5, <1>6

LEMMA WorkerEndStep ==
    ASSUME SwitchAssumption, SwitchInv, P!WorkerEnd
    PROVE  SwitchInv'
<1> USE DEF SwitchInv
<1>1. /\ UNCHANGED <<state, cur, next, todo, wptr, skip_inline, works, reset, expired, at, hw, rptr, record, irqs, accident>>
      /\ pc["disp"] = "timers" /\ pc'["disp"] = "idle" /\ pc'["irq"] = pc["irq"]
   BY DEF P!WorkerEnd, P!TypeOK, PcOK, P!Goto
<1>2. P!TypeOK'
  <2>1. timers' \subseteq {"dispatch", "preempt"}
    BY SwitchTypes, <1>1 DEF P!WorkerEnd, P!TypeOK, PcOK, SwitchAssumption, P!States, P!Ring, CpType
  <2>2. within' \subseteq {"work", "cp"}
    BY SwitchTypes, <1>1 DEF P!WorkerEnd, P!TypeOK, PcOK, SwitchAssumption, P!States, P!Ring, CpType
  <2> QED BY <1>1, <2>1, <2>2 DEF P!TypeOK, CpType
<1>3. PcOK'
   BY <1>1 DEF PcOK, DispSteps, IrqSteps, P!WorkerEnd, P!Goto
<1>4. OneAtIt' BY <1>1 DEF OneAtIt, PcOK, Owner, Ends, Firing
<1>5. Switching'
   BY <1>1, <1>2 DEF P!TypeOK, PcOK, OneAtIt, Switching, Owner, Ends, Firing, OnCur, ToNext, OnNext, P!Ring, CpType
<1>6. Pointers'
   BY <1>1, <1>2 DEF P!TypeOK, PcOK, OneAtIt, Switching, Owner, Ends, Firing, OnCur, ToNext, OnNext, P!Ring, CpType, Pointers
<1> QED BY <1>2, <1>3, <1>4, <1>5, <1>6

LEMMA RecoverStep ==
    ASSUME SwitchAssumption, SwitchInv, P!Recover
    PROVE  SwitchInv'
<1> USE DEF SwitchInv
<1>1. /\ UNCHANGED <<next, skip_inline, expired, at, within, accident>>
      /\ pc["disp"] = "recover" /\ pc["irq"] = "idle" /\ pc'["disp"] = "timers" /\ pc'["irq"] = "idle"
      /\ cur' = hw.ring /\ state' = "NONE" /\ record' = 0 /\ irqs' = {}
      /\ hw' = [hw EXCEPT !.wptr = 0, !.restore = 0, !.status = FALSE, !.wanted = FALSE, !.keepalive = FALSE, !.hung = FALSE]
      /\ \A q \in P!Ring : wptr'[q] = 0 /\ rptr'[q] = 0
   BY DEF P!Recover, P!TypeOK, PcOK, P!Goto, P!AfterReset
<1>2. P!TypeOK'
  <2>1. cur' \in P!Ring
    BY SwitchTypes, <1>1 DEF P!Recover, P!TypeOK, PcOK, SwitchAssumption, P!States, P!Ring, CpType, P!AfterReset
  <2>2. state' \in P!States
    BY SwitchTypes, <1>1 DEF P!Recover, P!TypeOK, PcOK, SwitchAssumption, P!States, P!Ring, CpType, P!AfterReset
  <2>3. todo' \in [P!Ring -> Nat]
    <3>1. ASSUME NEW q \in P!Ring PROVE todo[q] + wptr[q] - rptr[q] \in Nat
      <4>1. todo[q] \in Nat /\ wptr[q] \in Nat /\ rptr[q] \in Nat BY SwitchTypes
      <4>2. rptr[q] <= wptr[q] BY DEF Pointers
      <4> QED BY <4>1, <4>2
    <3> QED BY <3>1 DEF P!Recover
  <2>4. wptr' \in [P!Ring -> Nat]
    BY SwitchTypes, <1>1 DEF P!Recover, P!TypeOK, PcOK, SwitchAssumption, P!States, P!Ring, CpType, P!AfterReset
  <2>5. rptr' \in [P!Ring -> Nat]
    BY SwitchTypes, <1>1 DEF P!Recover, P!TypeOK, PcOK, SwitchAssumption, P!States, P!Ring, CpType, P!AfterReset
  <2>6. record' \in Nat
    BY SwitchTypes, <1>1 DEF P!Recover, P!TypeOK, PcOK, SwitchAssumption, P!States, P!Ring, CpType, P!AfterReset
  <2>7. hw' \in CpType
    BY SwitchTypes, <1>1 DEF CpType
  <2>8. irqs' \subseteq {"cp", "sw"}
    BY SwitchTypes, <1>1 DEF P!Recover, P!TypeOK, PcOK, SwitchAssumption, P!States, P!Ring, CpType, P!AfterReset
  <2>9. timers' \subseteq {"dispatch", "preempt"}
    BY SwitchTypes, <1>1 DEF P!Recover, P!TypeOK, PcOK, SwitchAssumption, P!States, P!Ring, CpType, P!AfterReset
  <2>10. reset' \in BOOLEAN
    BY SwitchTypes, <1>1 DEF P!Recover, P!TypeOK, PcOK, SwitchAssumption, P!States, P!Ring, CpType, P!AfterReset
  <2>11. works' \subseteq {"scheduler", "preempt"}
    BY SwitchTypes, <1>1 DEF P!Recover, P!TypeOK, PcOK, SwitchAssumption, P!States, P!Ring, CpType, P!AfterReset
  <2> QED BY <1>1, <2>1, <2>2, <2>3, <2>4, <2>5, <2>6, <2>7, <2>8, <2>9, <2>10, <2>11 DEF P!TypeOK, CpType
<1>3. PcOK'
   BY <1>1 DEF PcOK, DispSteps, IrqSteps, P!Recover, P!Goto, P!AfterReset
<1>4. OneAtIt' BY <1>1 DEF OneAtIt, PcOK, Owner, Ends, Firing
<1>5. Switching'
   BY <1>1, <1>2 DEF P!TypeOK, PcOK, OneAtIt, Switching, Owner, Ends, Firing, OnCur, ToNext, OnNext, P!Ring, CpType
<1>6. Pointers'
   <2>1. hw'.wptr = 0 /\ hw'.ring = hw.ring BY SwitchTypes, <1>1 DEF CpType
   <2>2. \A q \in P!Ring : wptr'[q] = 0 /\ rptr'[q] = 0 BY <1>1
   <2> QED BY SwitchTypes, <2>1, <2>2 DEF Pointers
<1> QED BY <1>2, <1>3, <1>4, <1>5, <1>6

LEMMA DispatchTimerStep ==
    ASSUME SwitchAssumption, SwitchInv, P!DispatchTimer
    PROVE  SwitchInv'
<1> USE DEF SwitchInv
<1>1. /\ UNCHANGED <<state, cur, next, todo, wptr, skip_inline, reset, pc, at, within, hw, rptr, record, irqs, accident>>
      /\ TRUE
   BY DEF P!DispatchTimer, P!TypeOK, PcOK, P!Goto
<1>2. P!TypeOK'
  <2>1. timers' \subseteq {"dispatch", "preempt"}
    BY SwitchTypes, <1>1 DEF P!DispatchTimer, P!TypeOK, PcOK, SwitchAssumption, P!States, P!Ring, CpType
  <2>2. expired' \subseteq P!Ring
    BY SwitchTypes, <1>1 DEF P!DispatchTimer, P!TypeOK, PcOK, SwitchAssumption, P!States, P!Ring, CpType
  <2>3. works' \subseteq {"scheduler", "preempt"}
    BY SwitchTypes, <1>1 DEF P!DispatchTimer, P!TypeOK, PcOK, SwitchAssumption, P!States, P!Ring, CpType
  <2> QED BY <1>1, <2>1, <2>2, <2>3 DEF P!TypeOK, CpType
<1>3. PcOK'
   BY <1>1 DEF PcOK, DispSteps, IrqSteps, P!DispatchTimer, P!Goto
<1>4. OneAtIt' BY <1>1 DEF OneAtIt, PcOK, Owner, Ends, Firing
<1>5. Switching'
   BY <1>1, <1>2 DEF P!TypeOK, PcOK, OneAtIt, Switching, Owner, Ends, Firing, OnCur, ToNext, OnNext, P!Ring, CpType
<1>6. Pointers'
   BY <1>1, <1>2 DEF P!TypeOK, PcOK, OneAtIt, Switching, Owner, Ends, Firing, OnCur, ToNext, OnNext, P!Ring, CpType, Pointers
<1> QED BY <1>2, <1>3, <1>4, <1>5, <1>6

LEMMA RunCommandStep ==
    ASSUME SwitchAssumption, SwitchInv, P!RunCommand
    PROVE  SwitchInv'
<1> USE DEF SwitchInv
<1>1. /\ UNCHANGED <<state, cur, next, todo, wptr, skip_inline, timers, works, reset, pc, at, within, hw, record, accident>>
      /\ irqs' = irqs \cup {"cp"}
      /\ hw.ring \in P!Ring /\ rptr[hw.ring] < hw.wptr
      /\ \A q \in P!Ring : rptr'[q] = IF q = hw.ring THEN rptr[q] + 1 ELSE rptr[q]
   BY DEF P!RunCommand, P!TypeOK, PcOK, P!Goto, P!Ring
<1>2. P!TypeOK'
  <2>1. rptr' \in [P!Ring -> Nat]
    <3>1. rptr[hw.ring] + 1 \in Nat
      <4>1. rptr[hw.ring] \in Nat BY SwitchTypes
      <4> QED BY <4>1
    <3> QED BY SwitchTypes, <3>1 DEF P!RunCommand
  <2>2. irqs' \subseteq {"cp", "sw"}
    BY SwitchTypes, <1>1 DEF P!RunCommand, P!TypeOK, PcOK, SwitchAssumption, P!States, P!Ring, CpType
  <2>3. expired' \subseteq P!Ring
    BY SwitchTypes, <1>1 DEF P!RunCommand, P!TypeOK, PcOK, SwitchAssumption, P!States, P!Ring, CpType
  <2> QED BY <1>1, <2>1, <2>2, <2>3 DEF P!TypeOK, CpType
<1>3. PcOK'
   BY <1>1 DEF PcOK, DispSteps, IrqSteps, P!RunCommand, P!Goto
<1>4. OneAtIt' BY <1>1 DEF OneAtIt, PcOK, Owner, Ends, Firing
<1>5. Switching'
   BY <1>1, <1>2 DEF P!TypeOK, PcOK, OneAtIt, Switching, Owner, Ends, Firing, OnCur, ToNext, OnNext, P!Ring, CpType
<1>6. Pointers'
   <2>1. hw' = hw /\ wptr' = wptr BY <1>1
   <2>2. ASSUME NEW q \in P!Ring PROVE rptr'[q] <= wptr'[q]
     <3>1. rptr[q] \in Nat /\ wptr[q] \in Nat /\ rptr[q] <= wptr[q] /\ hw.wptr <= wptr[hw.ring]
           /\ rptr[hw.ring] \in Nat /\ wptr[hw.ring] \in Nat
       BY SwitchTypes DEF Pointers
     <3>2. CASE q = hw.ring
       <4>1. rptr'[q] = rptr[q] + 1 BY <1>1, <3>2
       <4> QED BY SwitchTypes, <1>1, <2>1, <3>1, <3>2, <4>1
     <3>3. CASE q # hw.ring BY <1>1, <2>1, <3>1, <3>3
     <3> QED BY <3>2, <3>3
   <2> QED BY <2>1, <2>2 DEF Pointers
<1> QED BY <1>2, <1>3, <1>4, <1>5, <1>6

LEMMA CpSwitchesStep ==
    ASSUME SwitchAssumption, SwitchInv, P!CpSwitches
    PROVE  SwitchInv'
<1> USE DEF SwitchInv
<1>1. /\ UNCHANGED <<state, cur, next, todo, wptr, skip_inline, timers, works, reset, expired, pc, at, within, rptr>>
      /\ hw.wanted /\ record' = 0 /\ irqs' = irqs \cup {"sw"}
      /\ hw'.ring = hw.restore /\ hw'.wptr = record /\ ~hw'.wanted
   BY DEF P!CpSwitches, P!TypeOK, PcOK, P!Goto
<1>2. P!TypeOK'
  <2>1. hw' \in CpType
    <3>1. PICK clears \in BOOLEAN :
             hw' = [hw EXCEPT !.ring = hw.restore, !.wptr = record, !.restore = 0,
                              !.wanted = FALSE, !.status = clears]
      BY DEF P!CpSwitches
    <3> QED BY SwitchTypes, <3>1 DEF CpType
  <2>2. record' \in Nat
    BY SwitchTypes, <1>1 DEF P!CpSwitches, P!TypeOK, PcOK, SwitchAssumption, P!States, P!Ring, CpType
  <2>3. irqs' \subseteq {"cp", "sw"}
    BY SwitchTypes, <1>1 DEF P!CpSwitches, P!TypeOK, PcOK, SwitchAssumption, P!States, P!Ring, CpType
  <2> QED BY <1>1, <2>1, <2>2, <2>3 DEF P!TypeOK, CpType
<1>3. PcOK'
   BY <1>1 DEF PcOK, DispSteps, IrqSteps, P!CpSwitches, P!Goto
<1>4. OneAtIt' BY <1>1 DEF OneAtIt, PcOK, Owner, Ends, Firing
<1>5. Switching'
   BY <1>1, <1>2 DEF P!TypeOK, PcOK, OneAtIt, Switching, Owner, Ends, Firing, OnCur, ToNext, OnNext, P!Ring, CpType
<1>6. Pointers'
   <2>1. record <= wptr[hw.restore] BY <1>1 DEF Switching, OneAtIt, OnCur, ToNext, OnNext, P!TypeOK, P!States
   <2> QED BY <1>1, <2>1 DEF Pointers
<1> QED BY <1>2, <1>3, <1>4, <1>5, <1>6

LEMMA StatusClearsStep ==
    ASSUME SwitchAssumption, SwitchInv, P!StatusClears
    PROVE  SwitchInv'
<1> USE DEF SwitchInv
<1>1. /\ UNCHANGED <<state, cur, next, todo, wptr, skip_inline, timers, works, reset, expired, pc, at, within, rptr, record, irqs, accident>>
      /\ ~hw.wanted
      /\ hw' = [hw EXCEPT !.status = FALSE]
   BY DEF P!StatusClears, P!TypeOK, PcOK, P!Goto
<1>2. P!TypeOK'
  <2>1. hw' \in CpType
    BY SwitchTypes, <1>1 DEF P!StatusClears, P!TypeOK, PcOK, SwitchAssumption, P!States, P!Ring, CpType
  <2> QED BY <1>1, <2>1 DEF P!TypeOK, CpType
<1>3. PcOK'
   BY <1>1 DEF PcOK, DispSteps, IrqSteps, P!StatusClears, P!Goto
<1>4. OneAtIt' BY <1>1 DEF OneAtIt, PcOK, Owner, Ends, Firing
<1>5. Switching'
   BY <1>1, <1>2 DEF P!TypeOK, PcOK, OneAtIt, Switching, Owner, Ends, Firing, OnCur, ToNext, OnNext, P!Ring, CpType
<1>6. Pointers'
   BY <1>1, <1>2 DEF P!TypeOK, PcOK, OneAtIt, Switching, Owner, Ends, Firing, OnCur, ToNext, OnNext, P!Ring, CpType, Pointers
<1> QED BY <1>2, <1>3, <1>4, <1>5, <1>6

LEMMA HangStep ==
    ASSUME SwitchAssumption, SwitchInv, P!Hang
    PROVE  SwitchInv'
<1> USE DEF SwitchInv
<1>1. /\ UNCHANGED <<state, cur, next, todo, wptr, skip_inline, timers, works, reset, expired, pc, at, within, rptr, record, irqs>>
      /\ hw' = [hw EXCEPT !.hung = TRUE]
   BY DEF P!Hang, P!TypeOK, PcOK, P!Goto
<1>2. P!TypeOK'
  <2>1. hw' \in CpType
    BY SwitchTypes, <1>1 DEF P!Hang, P!TypeOK, PcOK, SwitchAssumption, P!States, P!Ring, CpType
  <2> QED BY <1>1, <2>1 DEF P!TypeOK, CpType
<1>3. PcOK'
   BY <1>1 DEF PcOK, DispSteps, IrqSteps, P!Hang, P!Goto
<1>4. OneAtIt' BY <1>1 DEF OneAtIt, PcOK, Owner, Ends, Firing
<1>5. Switching'
   BY <1>1, <1>2 DEF P!TypeOK, PcOK, OneAtIt, Switching, Owner, Ends, Firing, OnCur, ToNext, OnNext, P!Ring, CpType
<1>6. Pointers'
   BY <1>1, <1>2 DEF P!TypeOK, PcOK, OneAtIt, Switching, Owner, Ends, Firing, OnCur, ToNext, OnNext, P!Ring, CpType, Pointers
<1> QED BY <1>2, <1>3, <1>4, <1>5, <1>6

LEMMA SwitchNext ==
    ASSUME SwitchAssumption, SwitchInv, [P!Next]_P!vars
    PROVE  SwitchInv'
<1>1. CASE UNCHANGED P!vars
   BY <1>1 DEF P!vars, SwitchInv, P!TypeOK, PcOK, OneAtIt, Switching, Pointers, Owner, Ends, Firing,
               OnCur, ToNext, OnNext
<1>2. ASSUME NEW r \in P!Ring, P!Submit(r) PROVE SwitchInv' BY <1>2, SubmitStep
<1>3. CASE P!Sent BY <1>3, SentStep
<1>4. ASSUME NEW t \in P!Threads, P!Trigger(t) PROVE SwitchInv' BY <1>4, TriggerStep
<1>5. ASSUME NEW t \in P!Threads, P!Scan(t) PROVE SwitchInv' BY <1>5, ScanStep
<1>6. ASSUME NEW t \in P!Threads, P!NothingToRun(t) PROVE SwitchInv' BY <1>6, NothingToRunStep
<1>7. ASSUME NEW t \in P!Threads, P!StayOnRing(t) PROVE SwitchInv' BY <1>7, StayOnRingStep
<1>8. ASSUME NEW t \in P!Threads, P!Stayed(t) PROVE SwitchInv' BY <1>8, StayedStep
<1>9. ASSUME NEW t \in P!Threads, P!SwitchRing(t) PROVE SwitchInv' BY <1>9, SwitchRingStep
<1>10. ASSUME NEW t \in P!Threads, P!Program(t) PROVE SwitchInv' BY <1>10, ProgramStep
<1>11. ASSUME NEW t \in P!Threads, P!Fire(t) PROVE SwitchInv' BY <1>11, FireStep
<1>12. ASSUME NEW t \in P!Threads, P!WriteFails(t) PROVE SwitchInv' BY <1>12, WriteFailsStep
<1>13. CASE P!CpInterrupt BY <1>13, CpInterruptStep
<1>14. CASE P!SwInterrupt BY <1>14, SwInterruptStep
<1>15. CASE P!CallbackEarly BY <1>15, CallbackEarlyStep
<1>16. CASE P!CallbackSwap BY <1>16, CallbackSwapStep
<1>17. ASSUME NEW t \in P!Threads, P!Swapped(t) PROVE SwitchInv' BY <1>17, SwappedStep
<1>18. ASSUME NEW t \in P!Threads, P!Armed(t) PROVE SwitchInv' BY <1>18, ArmedStep
<1>19. CASE P!PreemptTimer BY <1>19, PreemptTimerStep
<1>20. CASE P!PreemptWorker BY <1>20, PreemptWorkerStep
<1>21. CASE P!Schedule BY <1>21, ScheduleStep
<1>22. CASE P!Done BY <1>22, DoneStep
<1>23. CASE P!WorkerStart BY <1>23, WorkerStartStep
<1>24. CASE P!WorkerEnd BY <1>24, WorkerEndStep
<1>25. CASE P!Recover BY <1>25, RecoverStep
<1>26. CASE P!DispatchTimer BY <1>26, DispatchTimerStep
<1>27. CASE P!RunCommand BY <1>27, RunCommandStep
<1>28. CASE P!CpSwitches BY <1>28, CpSwitchesStep
<1>29. CASE P!StatusClears BY <1>29, StatusClearsStep
<1>30. CASE P!Hang BY <1>30, HangStep
<1>31. ASSUME NEW t \in P!Threads, P!TriggerStep(t) PROVE SwitchInv'
   BY <1>31, <1>4, <1>5, <1>6, <1>7, <1>8, <1>9, <1>10, <1>11, <1>17, <1>18 DEF P!TriggerStep
<1> QED
   BY <1>1, <1>31, <1>2, <1>3, <1>12, <1>13, <1>14, <1>15, <1>16, <1>19, <1>20, <1>21, <1>22, <1>23, <1>24, <1>25, <1>26, <1>27, <1>28, <1>29, <1>30
   DEF P!Next, P!DispatcherStep, P!InterruptStep, P!Interrupt, P!CpStep

LEMMA SwitchInit ==
    ASSUME P!PreemptionAssumption, P!Init
    PROVE  SwitchInv
<1>1. P!TypeOK
  <2>1. 0 \in P!Ring /\ Rings \in 0 .. Rings BY DEF P!PreemptionAssumption, P!Ring
  <2>2. hw \in CpType BY <2>1 DEF P!Init, CpType
  <2>3. /\ P!NoWork \in [P!Ring -> Nat] /\ Work \in [P!Ring -> Nat]
        /\ [r \in P!Ring |-> FALSE] \in [P!Ring -> BOOLEAN]
        /\ [t \in P!Threads |-> 0] \in [P!Threads -> 0 .. Rings]
        BY DEF P!PreemptionAssumption, P!NoWork
  <2>4. todo = Work /\ wptr = P!NoWork /\ rptr = P!NoWork /\ skip_inline = [r \in P!Ring |-> FALSE]
        /\ at = [t \in P!Threads |-> 0]
        BY DEF P!Init
  <2>5. /\ state \in P!States /\ cur \in P!Ring /\ next \in 0 .. Rings
        /\ timers \subseteq {"dispatch", "preempt"} /\ works \subseteq {"scheduler", "preempt"}
        /\ reset \in BOOLEAN /\ expired \subseteq P!Ring
        /\ within \subseteq {"work", "cp"} /\ record \in Nat /\ irqs \subseteq {"cp", "sw"}
        BY <2>1 DEF P!Init, P!States, P!NoRing
  <2> QED BY <2>2, <2>3, <2>4, <2>5 DEF P!TypeOK, CpType
<1>2. PcOK BY DEF P!Init, PcOK, DispSteps, IrqSteps
<1>3. OneAtIt BY DEF P!Init, OneAtIt, Owner, Ends, Firing
<1>4. Switching BY DEF P!Init, Switching, OnCur, Owner, Ends, Firing
<1>5. Pointers BY DEF P!Init, Pointers, P!NoWork, P!PreemptionAssumption, P!Ring
<1> QED BY <1>1, <1>2, <1>3, <1>4, <1>5 DEF SwitchInv

-----------------------------------------------------------------------------
(* What a behaviour of the run is.                                         *)

(* A behaviour of the parts is one of each of them, which stutters where    *)
(* another one runs.                                                        *)
LEMMA PartsBehave == PartsSpec => P!Spec /\ G!Spec /\ H!Spec
<1>1. PartsInit => P!Init /\ G!Init /\ H!Init BY DEF PartsInit
<1>2. [PartsNext]_<<vars, part, switchVars, powerVars, queueVars>>
        => [P!Next]_P!vars /\ [G!Next]_G!vars /\ [H!Next]_H!vars
  <2>1. switchVars' = switchVars => UNCHANGED P!vars BY DEF switchVars, P!vars
  <2>2. powerVars' = powerVars => UNCHANGED G!vars BY DEF powerVars, G!vars
  <2>3. queueVars' = queueVars => UNCHANGED H!vars BY DEF queueVars, H!vars
  <2> QED BY <2>1, <2>2, <2>3 DEF PartsNext, Switches, Sends, Powers, Exchanges
<1> QED BY <1>1, <1>2, PTL DEF PartsSpec, P!Spec, G!Spec, H!Spec

(* The software and the CP agree on the ring that runs, in every behaviour  *)
(* of interrupts, timers, faults and failed writes, and no ring is run past *)
(* the commands it holds.                                                   *)
THEOREM SwitchesStayAgreed == PartsSpec => []SwitchesAgree
<1>1. P!PreemptionAssumption /\ SwitchAssumption
      BY FirmwareAssumption DEF P!PreemptionAssumption, SwitchAssumption
<1>2. P!Init => SwitchInv BY <1>1, SwitchInit
<1>3. SwitchInv /\ [P!Next]_P!vars => SwitchInv' BY <1>1, SwitchNext
<1>4. SwitchInv => SwitchesAgree
  <2> SUFFICES ASSUME SwitchInv PROVE SwitchesAgree OBVIOUS
  <2>1. P!SwitchesAgree
        BY DEF SwitchInv, P!TypeOK, PcOK, P!States, OneAtIt, Switching, Ends, Firing, OnCur,
               ToNext, OnNext, P!SwitchesAgree
  <2> QED BY <2>1 DEF SwitchInv, Pointers, P!NeverPastTheEnd, SwitchesAgree
<1> QED BY <1>2, <1>3, <1>4, PartsBehave, PTL DEF P!Spec

(* The theorems about the modules of their own, for the instances of the    *)
(* run: their definitions are those of G and of H.                          *)
GP == INSTANCE GmuPower_proofs WITH Scenes <- PowerScenes, left <- accidents
HP == INSTANCE HfiQueue_proofs

LEMMA SamePower ==
    /\ G!GmuPowerAssumption <=> GP!GmuPowerAssumption
    /\ G!Init <=> GP!Init
    /\ [G!Next]_G!vars <=> [GP!Next]_GP!vars
<1>1. G!GmuPowerAssumption <=> GP!GmuPowerAssumption
      BY DEF G!GmuPowerAssumption, GP!GmuPowerAssumption
<1>2. G!Init <=> GP!Init
      BY DEF G!Init, GP!Init
<1>3. G!Next <=> GP!Next
      BY
       DEF G!May, GP!May, G!Fails, GP!Fails, G!SetState, GP!SetState, G!Failed, GP!Failed,
           G!Down, GP!Down, G!IrqOff, GP!IrqOff, G!Suspend, GP!Suspend, G!Up, GP!Up,
           G!BootError, GP!BootError, G!GmuBoot, GP!GmuBoot, G!GmuPowerOff, GP!GmuPowerOff,
           G!GpuBoot, GP!GpuBoot, G!Boot, GP!Boot, G!PowerOff, GP!PowerOff, G!Becomes,
           GP!Becomes, G!StartTimer, GP!StartTimer, G!FirstOpen, GP!FirstOpen, G!Open, GP!Open,
           G!Stops, GP!Stops, G!Close, GP!Close, G!ActiveCountGet, GP!ActiveCountGet,
           G!ActiveCountPut, GP!ActiveCountPut, G!SubmitBegins, GP!SubmitBegins, G!SubmitEnds,
           GP!SubmitEnds, G!IdlePasses, GP!IdlePasses, G!TimerFires, GP!TimerFires, G!IsIdle,
           GP!IsIdle, G!Rearms, GP!Rearms, G!IdleCheck, GP!IdleCheck, G!PmSuspend,
           GP!PmSuspend, G!PmResume, GP!PmResume, G!Touch, GP!Touch, G!Fault, GP!Fault,
           G!Awake, GP!Awake, G!ResetStops, GP!ResetStops, G!Reset, GP!Reset, G!Next, GP!Next
<1>4. G!vars = GP!vars /\ G!vars' = GP!vars' BY DEF G!vars, GP!vars
<1> QED BY <1>1, <1>2, <1>3, <1>4

LEMMA SamePowerKept == GP!PowerKept => PowerKept
BY DEF PowerKept, G!PowerKept, GP!PowerKept, G!Balanced, GP!Balanced, G!UpWhenUsed, GP!UpWhenUsed,
       G!SomeoneTurnsOff, GP!SomeoneTurnsOff, G!Awake, GP!Awake

LEMMA SameQueue ==
    /\ H!HfiQueueAssumption <=> HP!HfiQueueAssumption
    /\ H!Init <=> HP!Init
    /\ [H!Next]_H!vars <=> [HP!Next]_HP!vars
<1>1. H!HfiQueueAssumption <=> HP!HfiQueueAssumption
      BY DEF H!HfiQueueAssumption, HP!HfiQueueAssumption, H!Align, HP!Align, H!Dwords, HP!Dwords
<1>2. H!Init <=> HP!Init
      BY DEF H!Init, HP!Init, H!Index, HP!Index, H!NotWriting, HP!NotWriting,
             H!NotReading, HP!NotReading
<1>3. H!Next <=> HP!Next
      BY
       DEF H!Align, HP!Align, H!Index, HP!Index, H!NotWriting, HP!NotWriting, H!NotReading,
           HP!NotReading, H!EmptySpace, HP!EmptySpace, H!HasRoom, HP!HasRoom, H!WriteStarts,
           HP!WriteStarts, H!Written, HP!Written, H!WriteDword, HP!WriteDword, H!WriteEnds,
           HP!WriteEnds, H!ReadStarts, HP!ReadStarts, H!ReadDword, HP!ReadDword, H!Past,
           HP!Past, H!ReadEnds, HP!ReadEnds, H!Next, HP!Next
<1>4. H!vars = HP!vars /\ H!vars' = HP!vars' BY DEF H!vars, HP!vars
<1> QED BY <1>1, <1>2, <1>3, <1>4

LEMMA SameContents == H!Contents = HP!Contents
BY
       DEF H!Unread, HP!Unread, H!MessageAt, HP!MessageAt, H!Start, HP!Start, H!Count,
           HP!Count, H!Contents, HP!Contents, H!Align, HP!Align, H!Dwords, HP!Dwords

LEMMA SamePromise == HP!ReadsAsWritten => ReadsAsWritten
<1>1. HP!Fifo!Init => H!Fifo!Init BY SameContents DEF HP!Fifo!Init, H!Fifo!Init
<1>2. (H!Contents = HP!Contents)' BY SameContents, PTL
<1>3. [HP!Fifo!Send \/ HP!Fifo!Receive]_<<HP!Contents, taken>>
        => [H!Fifo!Send \/ H!Fifo!Receive]_<<H!Contents, taken>>
      BY SameContents, <1>2 DEF H!Fifo!Send, HP!Fifo!Send, H!Fifo!Receive, HP!Fifo!Receive
<1> QED BY <1>1, <1>3, PTL DEF ReadsAsWritten, H!ReadsAsWritten, HP!ReadsAsWritten,
                               H!Fifo!Spec, HP!Fifo!Spec

(* The scenes TLC runs are apart.                                           *)
LEMMA MishapsAreApart == PowerScenes = Mishaps => GP!Apart
BY DEF GP!Apart, Mishaps, Trial

(* Power is kept in every behaviour of the run's specification, for all     *)
(* scenes that are apart.                                                   *)
THEOREM PowerIsKept ==
    ASSUME GP!Apart
    PROVE  PartsSpec => []PowerKept
<1>1. GP!GmuPowerAssumption BY FirmwareAssumption, SamePower
<1>2. GP!Spec => []GP!PowerKept BY <1>1, GP!PowerStaysKept
<1>3. G!Spec => GP!Spec BY SamePower, PTL DEF G!Spec, GP!Spec
<1> QED BY <1>2, <1>3, PartsBehave, SamePowerKept, PTL

(* The queues between host and GMU keep their promise in every behaviour of *)
(* the run's specification.                                                 *)
THEOREM QueuesAreFifo == PartsSpec => ReadsAsWritten
<1>1. HP!HfiQueueAssumption BY FirmwareAssumption, SameQueue
<1>2. HP!Spec => HP!ReadsAsWritten BY <1>1, HP!QueueIsFifo
<1>3. H!Spec => HP!Spec BY SameQueue, PTL DEF H!Spec, HP!Spec
<1> QED BY <1>2, <1>3, PartsBehave, SamePromise, PTL
=============================================================================
