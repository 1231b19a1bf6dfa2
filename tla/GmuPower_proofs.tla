-------------------------- MODULE GmuPower_proofs --------------------------
(***************************************************************************)
(* Proofs about GmuPower: whatever boots, stops, timeouts and faults do,   *)
(* the votes for power are balanced, whoever voted finds the GPU up, and   *)
(* somebody turns off a GPU that nobody uses.                              *)
(***************************************************************************)
EXTENDS GmuPower, TLAPS

(* The three behaviours of the code in which power is not kept (README,     *)
(* section 7): an idle time set above the one of a touch, a power-off that  *)
(* is busy during a system suspend, and a fault left over when a boot fails *)
(* early.                                                                   *)
Apart ==
    \A s \in Scenes :
        /\ ~s.long
        /\ ~("busy" \in s.may /\ "suspend" \in s.may)
        /\ ~("early" \in s.may /\ "fault" \in s.may)

States == {"none", "aware", "active", "slumber", "suspend"}
Powers == [state : States, started : BOOLEAN, gdsc : Int, clks : Int, girq : Int,
           irq : BOOLEAN, gmu_fault : BOOLEAN, fault : BOOLEAN, skip : BOOLEAN,
           ret : {"ok", "failed", "busy"}]

(* What a record of a GPU that is on, and of one that is off, holds.        *)
On(p) == /\ p.started /\ p.irq /\ p.state = "active"
         /\ p.gdsc = 1 /\ p.clks = 1 /\ p.girq = 1
Off(p) == /\ ~p.started /\ ~p.irq /\ p.state # "active"
          /\ p.gdsc = 0 /\ p.clks = 0 /\ p.girq = 0

(* A fault is left over only where the recovery does not look at it.        *)
LeftOver(p) == p.fault => "fault" \in scene.may /\ (Off(p) => p.state # "aware")

TypeOK ==
    /\ scene \in Scenes /\ power \in Powers /\ power.ret = "ok"
    /\ active \in Nat /\ open_count \in Nat /\ dead \in BOOLEAN
    /\ timer \in {"off", "idle", "touch"} /\ elapsed \in BOOLEAN /\ work \in BOOLEAN

(* A started GPU's time goes on while its timer runs; when the time is up   *)
(* and nobody votes, the timer runs still or its work waits.                *)
Watched ==
    power.started =>
        /\ ~elapsed => timer # "off"
        /\ active = 0 /\ elapsed => timer # "off" \/ work

PowerInv ==
    /\ On(power) \/ Off(power)
    /\ LeftOver(power)
    /\ active > 0 => power.started
    /\ Watched

IInv == TypeOK /\ (dead \/ PowerInv)

-----------------------------------------------------------------------------
(* What it promises follows.                                                *)
LEMMA InvImplies == IInv => PowerKept
BY DEF IInv, TypeOK, PowerInv, On, Off, Watched, PowerKept, Balanced, UpWhenUsed, Awake,
       SomeoneTurnsOff, Powers

(* The counts of a record are integers.                                     *)
LEMMA Counts ==
    ASSUME NEW p \in Powers
    PROVE  p.gdsc \in Int /\ p.clks \in Int /\ p.girq \in Int
BY DEF Powers

(* New counts and a new state keep a record's type.                         *)
LEMMA Adjusted ==
    ASSUME NEW p \in Powers, NEW m \in Int, NEW n \in Int, NEW b \in BOOLEAN
    PROVE  /\ [p EXCEPT !.clks = m, !.gdsc = n] \in Powers
           /\ [p EXCEPT !.gdsc = n, !.clks = m, !.state = "aware"] \in Powers
           /\ [p EXCEPT !.girq = n] \in Powers
           /\ [p EXCEPT !.girq = n, !.fault = b] \in Powers
BY DEF Powers, States

(* What the votes and the clocks of the GMU are given up for, ...           *)
LEMMA DownFacts ==
    ASSUME NEW p \in Powers
    PROVE  LET q == Down(p)
           IN /\ q \in Powers /\ q.state = p.state
              /\ q.started = p.started /\ q.irq = p.irq /\ q.ret = p.ret /\ q.fault = p.fault
              /\ q.gdsc = p.gdsc - 1 /\ q.clks = p.clks - 1 /\ q.girq = p.girq
<1>1. p.clks - 1 \in Int /\ p.gdsc - 1 \in Int BY Counts
<1>2. Down(p) \in Powers BY <1>1, Adjusted DEF Down
<1> QED BY <1>2 DEF Down, Powers

(* ... taken, ...                                                           *)
LEMMA UpFacts ==
    ASSUME NEW p \in Powers
    PROVE  LET q == Up(p)
           IN /\ q \in Powers /\ q.state = "aware"
              /\ q.started = p.started /\ q.irq = p.irq /\ q.ret = p.ret /\ q.fault = p.fault
              /\ q.gdsc = p.gdsc + 1 /\ q.clks = p.clks + 1 /\ q.girq = p.girq
<1>1. p.clks + 1 \in Int /\ p.gdsc + 1 \in Int BY Counts
<1>2. Up(p) \in Powers BY <1>1, Adjusted DEF Up
<1> QED BY <1>2 DEF Up, Powers

(* ... and the interrupts disabled.                                         *)
LEMMA IrqOffFacts ==
    ASSUME NEW p \in Powers
    PROVE  LET q == IrqOff(p)
           IN /\ q \in Powers /\ q.state = p.state
              /\ q.started = p.started /\ q.irq = p.irq /\ q.ret = p.ret /\ q.fault = p.fault
              /\ q.gdsc = p.gdsc /\ q.clks = p.clks /\ q.girq = p.girq - 1
<1>1. p.girq - 1 \in Int BY Counts
<1>2. IrqOff(p) \in Powers BY <1>1, Adjusted DEF IrqOff
<1> QED BY <1>2 DEF IrqOff, Powers

(* A change of the state keeps a record's type and its counts.              *)
LEMMA SetStateFacts ==
    ASSUME NEW p \in Powers, NEW s \in States
    PROVE  LET q == SetState(p, s)
           IN /\ q \in Powers /\ q.state = s
              /\ q.started = p.started /\ q.irq = p.irq /\ q.ret = p.ret /\ q.fault = p.fault
              /\ q.gdsc = p.gdsc /\ q.clks = p.clks /\ q.girq = p.girq
BY DEF SetState, Powers, States

(* The GMU stops: the votes and its interrupts are given back, whatever     *)
(* goes wrong on the way, except in a recovery that fails.                  *)
LEMMA GmuStops ==
    ASSUME NEW p \in Powers, NEW rec \in BOOLEAN, NEW q \in GmuPowerOff(p, rec)
    PROVE  /\ q \in Powers /\ q.ret = p.ret /\ q.fault = p.fault
           /\ q.started = p.started /\ q.irq = p.irq
           /\ ~rec => /\ q.state = "none"
                      /\ q.gdsc = p.gdsc - 1 /\ q.clks = p.clks - 1 /\ q.girq = p.girq - 1
<1> DEFINE r(f) == IrqOff([p EXCEPT !.gmu_fault = @ \/ f])
           error(f) == Suspend(r(f), FALSE, rec)
           good == SetState(Down(IrqOff(p)), "none")
<1>1. q = good \/ \E f \in BOOLEAN : q = error(f)
      BY DEF GmuPowerOff, Fails
<1>2. ASSUME NEW f \in BOOLEAN
      PROVE  /\ r(f) \in Powers /\ r(f).ret = p.ret /\ r(f).fault = p.fault
             /\ r(f).started = p.started /\ r(f).irq = p.irq
             /\ r(f).gdsc = p.gdsc /\ r(f).clks = p.clks /\ r(f).girq = p.girq - 1
  <2> DEFINE e == [p EXCEPT !.gmu_fault = @ \/ f]
  <2>1. /\ e \in Powers /\ e.ret = p.ret /\ e.fault = p.fault
        /\ e.started = p.started /\ e.irq = p.irq
        /\ e.gdsc = p.gdsc /\ e.clks = p.clks /\ e.girq = p.girq
        BY DEF Powers
  <2> HIDE DEF e
  <2>2. r(f) = IrqOff(e) BY DEF e
  <2> HIDE DEF r
  <2> QED BY <2>1, <2>2, IrqOffFacts
<1>5. "none" \in States BY DEF States
<1>6. CASE q = good
  <2> DEFINE i == IrqOff(p)
  <2>1. /\ i \in Powers /\ i.ret = p.ret /\ i.fault = p.fault
        /\ i.started = p.started /\ i.irq = p.irq
        /\ i.gdsc = p.gdsc /\ i.clks = p.clks /\ i.girq = p.girq - 1
        BY IrqOffFacts
  <2>2. q = SetState(Down(i), "none") BY <1>6
  <2> HIDE DEF i
  <2> QED BY <1>5, <2>1, <2>2, DownFacts, SetStateFacts
<1>7. ASSUME NEW f \in BOOLEAN, q = error(f)
      PROVE  /\ q \in Powers /\ q.ret = p.ret /\ q.fault = p.fault
             /\ q.started = p.started /\ q.irq = p.irq
             /\ ~rec => /\ q.state = "none"
                        /\ q.gdsc = p.gdsc - 1 /\ q.clks = p.clks - 1 /\ q.girq = p.girq - 1
  <2> HIDE DEF r
  <2>1. CASE rec BY <1>2, <1>7, <2>1 DEF Suspend
  <2>2. CASE ~rec
    <3>1. q = SetState(Down(r(f)), "none") BY <1>7, <2>2 DEF Suspend
    <3> QED BY <1>2, <1>5, <3>1, DownFacts, SetStateFacts
  <2> QED BY <2>1, <2>2
<1> QED BY <1>1, <1>6, <1>7

(* The GMU boots from a GPU that is off, or it does not and gives back what *)
(* it took; a boot that fails early leaves the state as if it were up.      *)
LEMMA GmuBoots ==
    ASSUME NEW p \in Powers, Off(p), p.ret = "ok", NEW rec \in BOOLEAN,
           NEW q \in GmuBoot(p, rec)
    PROVE  /\ q \in Powers
           /\ q.ret = "ok" => /\ ~q.started /\ ~q.irq /\ ~q.fault
                              /\ q.gdsc = 1 /\ q.clks = 1 /\ q.girq = 1
           /\ q.ret # "ok" /\ ~rec =>
                /\ Off(q)
                /\ q.fault => p.fault
                /\ q.fault => q.state = p.state \/ "early" \in scene.may
<1> DEFINE on == [Up(p) EXCEPT !.girq = @ + 1, !.fault = FALSE]
           up == SetState([on EXCEPT !.gmu_fault = FALSE], "aware")
           half(f) == [on EXCEPT !.gmu_fault = @ \/ f]
<1>1. \/ q = up
      \/ q = Failed(p)
      \/ May("early") /\ q = Failed(Down(Up(p)))
      \/ \E f \in BOOLEAN : q = Failed(BootError(half(f), rec))
      BY DEF GmuBoot, Fails
<1>2. /\ Up(p) \in Powers /\ Up(p).gdsc = 1 /\ Up(p).clks = 1 /\ Up(p).girq = 0
      /\ ~Up(p).started /\ ~Up(p).irq /\ Up(p).ret = "ok" /\ Up(p).fault = p.fault
      BY UpFacts DEF Off
<1>3. /\ on \in Powers /\ on.gdsc = 1 /\ on.clks = 1 /\ on.girq = 1 /\ ~on.fault
      /\ ~on.started /\ ~on.irq /\ on.ret = "ok" /\ on.state = "aware"
  <2> DEFINE u == Up(p)
  <2>1. u \in Powers /\ u.state = "aware" /\ u.girq + 1 \in Int BY <1>2, UpFacts
  <2>2. on = [u EXCEPT !.girq = u.girq + 1, !.fault = FALSE] OBVIOUS
  <2>3. u.gdsc = 1 /\ u.clks = 1 /\ u.girq = 0 /\ ~u.started /\ ~u.irq /\ u.ret = "ok"
        BY <1>2
  <2> HIDE DEF u, on
  <2>4. on \in Powers BY <2>1, <2>2, Adjusted
  <2> QED BY <2>1, <2>2, <2>3, <2>4 DEF Powers
<1> HIDE DEF on
<1>4. CASE q = up
  <2>1. [on EXCEPT !.gmu_fault = FALSE] \in Powers BY <1>3 DEF Powers
  <2>2. LET u == [on EXCEPT !.gmu_fault = FALSE]
        IN /\ u.gdsc = 1 /\ u.clks = 1 /\ u.girq = 1 /\ ~u.fault
           /\ ~u.started /\ ~u.irq /\ u.ret = "ok"
        BY <1>3 DEF Powers
  <2> QED BY <1>4, <2>1, <2>2, SetStateFacts DEF States
<1>5. CASE q = Failed(p) BY <1>5 DEF Failed, Powers, Off
<1>6. CASE May("early") /\ q = Failed(Down(Up(p)))
  <2> DEFINE u == Down(Up(p))
  <2>1. /\ u \in Powers /\ u.gdsc = 0 /\ u.clks = 0 /\ u.girq = 0
        /\ ~u.started /\ ~u.irq /\ u.state = "aware" /\ u.fault = p.fault
        BY <1>2, UpFacts, DownFacts
  <2> HIDE DEF u
  <2>2. q = Failed(u) BY <1>6 DEF u
  <2> QED BY <1>6, <2>1, <2>2 DEF Failed, Powers, Off, May
<1>7. ASSUME NEW f \in BOOLEAN, q = Failed(BootError(half(f), rec))
      PROVE  q \in Powers /\ q.ret = "failed" /\ (~rec => Off(q) /\ ~q.fault)
  <2>1. /\ half(f) \in Powers /\ half(f).gdsc = 1 /\ half(f).clks = 1 /\ half(f).girq = 1
        /\ ~half(f).fault /\ ~half(f).started /\ ~half(f).irq /\ half(f).state = "aware"
        BY <1>3 DEF Powers
  <2> HIDE DEF half
  <2> DEFINE i == IrqOff(half(f))
  <2>2. /\ i \in Powers /\ i.gdsc = 1 /\ i.clks = 1 /\ i.girq = 0
        /\ ~i.fault /\ ~i.started /\ ~i.irq /\ i.state = "aware"
        BY <2>1, IrqOffFacts
  <2> HIDE DEF i
  <2>3. /\ Down(i) \in Powers /\ Down(i).gdsc = 0 /\ Down(i).clks = 0 /\ Down(i).girq = 0
        /\ ~Down(i).fault /\ ~Down(i).started /\ ~Down(i).irq /\ Down(i).state = "aware"
        BY <2>2, DownFacts
  <2>4. BootError(half(f), rec) \in {Down(i), i, SetState(Down(i), "none")}
        BY DEF BootError, Suspend, i
  <2>5. /\ BootError(half(f), rec) \in Powers
        /\ ~rec => Off(BootError(half(f), rec)) /\ ~BootError(half(f), rec).fault
    <3>1. CASE half(f).gmu_fault /\ rec BY <2>2, <3>1 DEF BootError, Suspend, i
    <3>2. CASE half(f).gmu_fault /\ ~rec
      <4>1. BootError(half(f), rec) = SetState(Down(i), "none")
            BY <3>2 DEF BootError, Suspend, i
      <4> QED BY <2>3, <4>1, SetStateFacts DEF Off, States
    <3>3. CASE ~half(f).gmu_fault
      <4>1. BootError(half(f), rec) = Down(i) BY <3>3 DEF BootError, i
      <4> QED BY <2>3, <4>1 DEF Off
    <3> QED BY <3>1, <3>2, <3>3
  <2> QED BY <1>7, <2>5 DEF Failed, Powers, Off
<1> QED BY <1>1, <1>4, <1>5, <1>6, <1>7

(* A boot ends with the GPU on, or as it was: off, with its counts at zero. *)
LEMMA Boots ==
    ASSUME NEW p \in Powers, Off(p), p.ret = "ok", NEW rec \in BOOLEAN,
           NEW q \in Boot(p, rec)
    PROVE  /\ q \in Powers
           /\ q.ret = "ok" => On(q) /\ ~q.fault
           /\ q.ret # "ok" /\ ~rec =>
                /\ Off(q)
                /\ q.fault => p.fault
                /\ q.fault => q.state = p.state \/ "early" \in scene.may
<1> DEFINE after(u) == IF u.ret = "ok" THEN GpuBoot(u, rec) ELSE {u}
           up(u) == IF u.ret = "ok" THEN SetState([u EXCEPT !.started = TRUE], "active")
                    ELSE u
<1>1. PICK g \in GmuBoot(p, rec) : \E r \in after(g) : q = up(r)
      BY DEF Boot, Off
<1>2. PICK r \in after(g) : q = up(r) BY <1>1
<1>3. /\ g \in Powers
      /\ g.ret = "ok" => /\ ~g.started /\ ~g.irq /\ ~g.fault
                         /\ g.gdsc = 1 /\ g.clks = 1 /\ g.girq = 1
      /\ g.ret # "ok" /\ ~rec =>
           /\ Off(g)
           /\ g.fault => p.fault
           /\ g.fault => g.state = p.state \/ "early" \in scene.may
      BY GmuBoots
<1>4. CASE g.ret # "ok" BY <1>2, <1>3, <1>4
<1>5. CASE g.ret = "ok"
  <2>1. r \in GpuBoot(g, rec) BY <1>2, <1>5
  <2>2. CASE r = [g EXCEPT !.irq = TRUE]
    <3>1. LET u == [r EXCEPT !.started = TRUE]
          IN /\ u \in Powers /\ u.ret = "ok" /\ u.started /\ u.irq /\ ~u.fault
             /\ u.gdsc = 1 /\ u.clks = 1 /\ u.girq = 1
          BY <1>3, <1>5, <2>2 DEF Powers
    <3>2. q = SetState([r EXCEPT !.started = TRUE], "active")
          BY <1>2, <1>3, <1>5, <2>2 DEF Powers
    <3> QED BY <3>1, <3>2, SetStateFacts DEF States, On
  <2>3. ASSUME NEW f \in BOOLEAN, NEW u \in GmuPowerOff([g EXCEPT !.gmu_fault = f], rec),
               r = Failed(u)
        PROVE  r \in Powers /\ r.ret = "failed" /\ (~rec => Off(r) /\ ~r.fault)
    <3> DEFINE h == [g EXCEPT !.gmu_fault = f]
    <3>1. /\ h \in Powers /\ ~h.started /\ ~h.irq /\ ~h.fault
          /\ h.gdsc = 1 /\ h.clks = 1 /\ h.girq = 1
          BY <1>3, <1>5 DEF Powers
    <3> HIDE DEF h
    <3>2. u \in GmuPowerOff(h, rec) BY <2>3 DEF h
    <3>3. /\ u \in Powers /\ u.fault = h.fault /\ u.started = h.started /\ u.irq = h.irq
          /\ ~rec => /\ u.state = "none" /\ u.gdsc = h.gdsc - 1 /\ u.clks = h.clks - 1
                     /\ u.girq = h.girq - 1
          BY <3>1, <3>2, GmuStops
    <3> QED BY <2>3, <3>1, <3>3 DEF Failed, Powers, Off
  <2>4. \/ r = [g EXCEPT !.irq = TRUE]
        \/ \E f \in BOOLEAN : \E u \in GmuPowerOff([g EXCEPT !.gmu_fault = f], rec) :
              r = Failed(u)
        BY <2>1 DEF GpuBoot, Fails
  <2>5. CASE r # [g EXCEPT !.irq = TRUE]
    <3>1. r \in Powers /\ r.ret = "failed" /\ (~rec => Off(r) /\ ~r.fault)
          BY <2>3, <2>4, <2>5
    <3> QED BY <1>2, <3>1
  <2> QED BY <2>2, <2>5
<1> QED BY <1>4, <1>5

(* A started GPU is stopped, or it is busy and stays on.                    *)
LEMMA Stopped ==
    ASSUME NEW p \in Powers, On(p), p.ret = "ok", NEW q \in PowerOff(p)
    PROVE  /\ q \in Powers /\ q.fault = p.fault
           /\ \/ q.ret = "ok" /\ Off(q) /\ q.state = "slumber"
              \/ q.ret = "busy" /\ On(q) /\ May("busy")
<1> DEFINE i == [p EXCEPT !.irq = FALSE]
<1>1. \/ \E u \in GmuPowerOff(i, FALSE) :
            q = SetState([u EXCEPT !.started = FALSE], "slumber")
      \/ May("busy") /\ q = [p EXCEPT !.ret = "busy"]
      BY DEF PowerOff, Fails
<1>2. /\ i \in Powers /\ ~i.irq /\ i.ret = "ok" /\ i.fault = p.fault
      /\ i.gdsc = 1 /\ i.clks = 1 /\ i.girq = 1
      BY DEF Powers, On
<1> HIDE DEF i
<1>3. ASSUME NEW u \in GmuPowerOff(i, FALSE),
             q = SetState([u EXCEPT !.started = FALSE], "slumber")
      PROVE  q \in Powers /\ q.fault = p.fault /\ q.ret = "ok" /\ Off(q) /\ q.state = "slumber"
  <2> DEFINE v == [u EXCEPT !.started = FALSE]
  <2>0. /\ u \in Powers /\ u.irq = i.irq /\ u.ret = i.ret /\ u.fault = i.fault
        /\ u.gdsc = i.gdsc - 1 /\ u.clks = i.clks - 1 /\ u.girq = i.girq - 1
        BY <1>2, <1>3, GmuStops
  <2>1. /\ u \in Powers /\ ~u.irq /\ u.ret = "ok" /\ u.fault = p.fault
        /\ u.gdsc = 0 /\ u.clks = 0 /\ u.girq = 0
        BY <1>2, <2>0
  <2>2. /\ v \in Powers /\ ~v.irq /\ v.ret = "ok" /\ v.fault = p.fault /\ ~v.started
        /\ v.gdsc = 0 /\ v.clks = 0 /\ v.girq = 0
        BY <2>1 DEF Powers
  <2>3. q = SetState(v, "slumber") BY <1>3
  <2> HIDE DEF v
  <2> QED BY <2>2, <2>3, SetStateFacts DEF States, Off
<1>4. CASE May("busy") /\ q = [p EXCEPT !.ret = "busy"]
      BY <1>4 DEF Powers, On
<1> QED BY <1>1, <1>3, <1>4

(* What becomes of a record: only what the call returned is forgotten.      *)
LEMMA BecomesFacts ==
    ASSUME NEW p \in Powers, NEW accident, Becomes(p, accident)
    PROVE  /\ power' \in Powers /\ power'.ret = "ok"
           /\ power'.started = p.started /\ power'.state = p.state
           /\ power'.fault = p.fault
           /\ On(p) => On(power)'
           /\ Off(p) => Off(power)'
BY DEF Becomes, Powers, On, Off

(* On and off exclude each other.                                           *)
LEMMA OnOrOff == ASSUME NEW p PROVE (On(p) => p.started) /\ (Off(p) => ~p.started)
BY DEF On, Off

(* A boot outside a recovery, of whatever is there                          *)
LEMMA BootKeeps ==
    ASSUME TypeOK, PowerInv, Apart, NEW p \in Boot(power, FALSE), NEW accident,
           Becomes(p, accident), UNCHANGED scene
    PROVE  /\ power' \in Powers /\ power'.ret = "ok"
           /\ (On(power) \/ Off(power))' /\ LeftOver(power)'
           /\ p.ret = "ok" => power'.started
           /\ power.started => power'.started
           /\ p.ret # "ok" => ~power'.started
<1>1. CASE power.started
  <2>1. p = power /\ On(power) BY <1>1 DEF Boot, PowerInv, Off
  <2>2. LeftOver(power)' BY <2>1, BecomesFacts, OnOrOff DEF TypeOK, LeftOver, PowerInv
  <2> QED BY <1>1, <2>1, <2>2, BecomesFacts DEF TypeOK
<1>2. CASE ~power.started
  <2>1. Off(power) /\ power.ret = "ok" /\ power \in Powers
        BY <1>2 DEF PowerInv, On, TypeOK
  <2>2. /\ p \in Powers
        /\ p.ret = "ok" => On(p) /\ ~p.fault
        /\ p.ret # "ok" => /\ Off(p)
                           /\ p.fault => power.fault
                           /\ p.fault => p.state = power.state \/ "early" \in scene.may
        BY <2>1, Boots
  <2>3. LeftOver(power)'
    <3>1. CASE p.fault
      <4>1. p.ret # "ok" /\ power.fault BY <2>2, <3>1
      <4>2. "fault" \in scene.may /\ power.state # "aware"
            BY <2>1, <4>1 DEF PowerInv, LeftOver
      <4>3. "early" \notin scene.may BY <4>2 DEF Apart, TypeOK
      <4>4. p.state # "aware" BY <2>2, <3>1, <4>1, <4>2, <4>3
      <4> QED BY <2>2, <4>2, <4>4, BecomesFacts DEF LeftOver
    <3>2. CASE ~p.fault BY <2>2, <3>2, BecomesFacts DEF LeftOver
    <3> QED BY <3>1, <3>2
  <2> QED BY <1>2, <2>2, <2>3, BecomesFacts, OnOrOff
<1> QED BY <1>1, <1>2

(* A power-off of a started GPU                                             *)
LEMMA PowerOffKeeps ==
    ASSUME TypeOK, PowerInv, power.started, NEW q \in {power, [power EXCEPT !.skip = TRUE]},
           NEW p \in PowerOff(q), NEW accident,
           Becomes(p, accident), UNCHANGED scene
    PROVE  /\ power' \in Powers /\ power'.ret = "ok"
           /\ (On(power) \/ Off(power))' /\ LeftOver(power)'
           /\ p.ret # "busy" => ~power'.started
           /\ p.ret = "busy" => power'.started
<1>1. On(power) BY DEF PowerInv, Off
<1>2. q \in Powers /\ On(q) /\ q.ret = "ok" /\ q.fault = power.fault
      BY <1>1 DEF TypeOK, Powers, On
<1>3. /\ p \in Powers /\ p.fault = q.fault
      /\ \/ p.ret = "ok" /\ Off(p) /\ p.state = "slumber"
         \/ p.ret = "busy" /\ On(p) /\ May("busy")
      BY <1>2, Stopped
<1>4. LeftOver(power)'
      BY <1>2, <1>3, BecomesFacts, OnOrOff DEF LeftOver, PowerInv, On, Off
<1> QED BY <1>3, <1>4, BecomesFacts, OnOrOff

(* A step that leaves the power record alone keeps what is said of it.      *)
LEMMA PowerSame ==
    ASSUME TypeOK, PowerInv, UNCHANGED <<power, scene>>
    PROVE  /\ power' \in Powers /\ power'.ret = "ok"
           /\ (On(power) \/ Off(power))' /\ LeftOver(power)' /\ power'.started = power.started
BY DEF TypeOK, PowerInv, On, Off, LeftOver

(* Every step keeps the invariant.                                          *)
LEMMA NextInv == ASSUME GmuPowerAssumption, Apart, IInv, [Next]_vars PROVE IInv'
<1> USE DEF IInv
<1>1. TypeOK OBVIOUS
<1>2. CASE UNCHANGED vars
      BY <1>2 DEF vars, TypeOK, PowerInv, On, Off, LeftOver, Watched
<1>3. CASE dead /\ Next
  <2>1. SubmitEnds \/ IdlePasses \/ TimerFires
        BY <1>3 DEF Next, FirstOpen, Open, Close, ActiveCountGet, ActiveCountPut,
           SubmitBegins, IdleCheck, PmSuspend, PmResume, Touch, Fault, Reset
  <2> QED BY <1>1, <1>3, <2>1 DEF SubmitEnds, IdlePasses, TimerFires, TypeOK
<1> SUFFICES ASSUME ~dead, Next PROVE TypeOK' /\ (dead' \/ PowerInv')
    BY <1>2, <1>3
<1>4. PowerInv OBVIOUS
<1> USE <1>1, <1>4
<1>5. CASE FirstOpen
  <2> PICK p \in Boot(power, FALSE) :
        /\ Becomes(p, p.ret # "ok")
        /\ IF p.ret = "ok"
           THEN open_count' = 1 /\ booted' = TRUE /\ StartTimer
           ELSE UNCHANGED <<open_count, booted, timer, elapsed>>
      BY <1>5 DEF FirstOpen
  <2>1. UNCHANGED <<scene, active, work, dead>> BY <1>5 DEF FirstOpen
  <2>2. /\ power' \in Powers /\ power'.ret = "ok"
        /\ (On(power) \/ Off(power))' /\ LeftOver(power)'
        /\ power.started => power'.started
        /\ p.ret # "ok" => ~power'.started
        BY <2>1, BootKeeps
  <2>3. CASE p.ret = "ok"
    <3>1. open_count' = 1 /\ timer' = "idle" /\ elapsed' = FALSE BY <2>3 DEF StartTimer
    <3> QED BY <2>1, <2>2, <3>1 DEF TypeOK, PowerInv, Watched
  <2>4. CASE p.ret # "ok"
    <3>1. UNCHANGED <<open_count, timer, elapsed>> BY <2>4
    <3> QED BY <2>1, <2>2, <2>4, <3>1 DEF TypeOK, PowerInv, Watched
  <2> QED BY <2>3, <2>4
<1>6. CASE Open BY <1>6, PowerSame DEF Open, TypeOK, PowerInv, Watched
<1>7. CASE Close
  <2>1. UNCHANGED <<scene, active, elapsed, work, dead>> /\ open_count' \in Nat
        BY <1>7 DEF Close, TypeOK
  <2>2. CASE open_count = 1 /\ power.started
    <3> PICK p \in PowerOff(power) : Becomes(p, p.ret = "busy") /\ Stops(p)
        BY <1>7, <2>2 DEF Close
    <3>1. /\ power' \in Powers /\ power'.ret = "ok"
          /\ (On(power) \/ Off(power))' /\ LeftOver(power)'
          /\ p.ret # "busy" => ~power'.started
          BY <2>1, <2>2, PowerOffKeeps
    <3>2. active = 0 BY <1>7, <2>2 DEF Close
    <3> QED BY <2>1, <2>2, <3>1, <3>2 DEF TypeOK, PowerInv, Watched, Stops
  <2>3. CASE ~(open_count = 1 /\ power.started)
    <3>1. UNCHANGED <<power, timer>> BY <1>7, <2>3 DEF Close
    <3> QED BY <2>1, <3>1, PowerSame DEF TypeOK, PowerInv, Watched
  <2> QED BY <2>2, <2>3
<1>8. CASE ActiveCountGet
  <2>1. UNCHANGED <<scene, work, dead, open_count>> BY <1>8 DEF ActiveCountGet
  <2>2. CASE active = 0 /\ ~power.started
    <3> PICK p \in Boot(power, FALSE) :
          /\ Becomes(p, p.ret # "ok")
          /\ IF p.ret = "ok" THEN active' = 1 /\ StartTimer
             ELSE UNCHANGED <<active, timer, elapsed>>
        BY <1>8, <2>2 DEF ActiveCountGet
    <3>1. /\ power' \in Powers /\ power'.ret = "ok"
          /\ (On(power) \/ Off(power))' /\ LeftOver(power)'
          /\ p.ret = "ok" => power'.started
          /\ p.ret # "ok" => ~power'.started
          BY <2>1, BootKeeps
    <3>2. CASE p.ret = "ok"
      <4>1. active' = 1 /\ timer' = "idle" /\ elapsed' = FALSE BY <3>2 DEF StartTimer
      <4> QED BY <2>1, <3>1, <3>2, <4>1 DEF TypeOK, PowerInv, Watched
    <3>3. CASE p.ret # "ok"
      <4>1. UNCHANGED <<active, timer, elapsed>> BY <3>3
      <4> QED BY <2>1, <2>2, <3>1, <3>3, <4>1 DEF TypeOK, PowerInv, Watched
    <3> QED BY <3>2, <3>3
  <2>3. CASE ~(active = 0 /\ ~power.started)
    <3>1. active' = active + 1 /\ UNCHANGED <<power, timer, elapsed>>
          BY <1>8, <2>3 DEF ActiveCountGet
    <3> QED BY <2>1, <2>3, <3>1, PowerSame DEF TypeOK, PowerInv, Watched
  <2> QED BY <2>2, <2>3
<1>9. CASE ActiveCountPut
  <2>1. UNCHANGED <<scene, power, work, dead, open_count>> /\ active > 0 /\ active' = active - 1
        BY <1>9 DEF ActiveCountPut
  <2>2. IF active = 1 THEN StartTimer ELSE UNCHANGED <<timer, elapsed>>
        BY <1>9 DEF ActiveCountPut
  <2>3. CASE active = 1
    <3>1. timer' = "idle" /\ elapsed' = FALSE BY <2>2, <2>3 DEF StartTimer
    <3>2. active' = 0 BY <2>1, <2>3
    <3>3. TypeOK'
      <4>1. scene' \in Scenes /\ power' \in Powers /\ power'.ret = "ok" /\ active' \in Nat
            BY <2>1, <3>2, PowerSame DEF TypeOK
      <4> QED BY <2>1, <3>1, <4>1 DEF TypeOK
    <3>4. PowerInv' BY <2>1, <3>1, <3>2, PowerSame DEF PowerInv, Watched
    <3> QED BY <3>3, <3>4
  <2>4. CASE active # 1
    <3>1. UNCHANGED <<timer, elapsed>> /\ active' > 0 BY <2>1, <2>2, <2>4 DEF TypeOK
    <3> QED BY <2>1, <2>4, <3>1, PowerSame DEF TypeOK, PowerInv, Watched
  <2> QED BY <2>3, <2>4
<1>10. CASE SubmitBegins \/ SubmitEnds
       BY <1>10, PowerSame DEF SubmitBegins, SubmitEnds, TypeOK, PowerInv, Watched
<1>11. CASE IdlePasses
       BY <1>11, PowerSame DEF IdlePasses, TypeOK, PowerInv, Watched
<1>12. CASE TimerFires
  <2>1. ~scene.long BY DEF TypeOK, Apart
  <2> QED BY <1>12, <2>1, PowerSame DEF TimerFires, TypeOK, PowerInv, Watched
<1>13. CASE IdleCheck
  <2>1. UNCHANGED <<scene, active, open_count, dead>> /\ work' = FALSE
        BY <1>13 DEF IdleCheck
  <2>2. CASE ~IsIdle
    <3>1. UNCHANGED <<power, timer, elapsed>> BY <1>13, <2>2 DEF IdleCheck
    <3> QED BY <2>1, <2>2, <3>1, PowerSame DEF TypeOK, PowerInv, Watched, IsIdle
  <2>3. CASE IsIdle /\ submit_now
    <3>1. StartTimer /\ UNCHANGED power BY <1>13, <2>3 DEF IdleCheck
    <3> QED BY <2>1, <3>1, PowerSame DEF TypeOK, PowerInv, Watched, StartTimer
  <2>4. CASE IsIdle /\ ~submit_now
    <3> PICK p \in PowerOff([power EXCEPT !.skip = TRUE]) :
            Becomes(p, p.ret = "busy") /\ Rearms(p)
        BY <1>13, <2>4 DEF IdleCheck
    <3>1. power.started /\ active = 0 BY <2>4 DEF IsIdle, TypeOK
    <3>2. /\ power' \in Powers /\ power'.ret = "ok"
          /\ (On(power) \/ Off(power))' /\ LeftOver(power)'
          /\ p.ret # "busy" => ~power'.started
          BY <2>1, <3>1, PowerOffKeeps
    <3>3. CASE p.ret = "busy"
      <4>1. timer' = "idle" /\ elapsed' = FALSE BY <3>3 DEF Rearms, StartTimer
      <4>2. TypeOK' BY <2>1, <3>2, <4>1 DEF TypeOK
      <4>3. PowerInv' BY <2>1, <3>1, <3>2, <4>1 DEF PowerInv, Watched
      <4> QED BY <4>2, <4>3
    <3>4. CASE p.ret # "busy"
      <4>1. timer' = "off" /\ elapsed' = elapsed BY <3>4 DEF Rearms
      <4>2. TypeOK' BY <2>1, <3>2, <4>1 DEF TypeOK
      <4>3. PowerInv' BY <2>1, <3>1, <3>2, <3>4, <4>1 DEF PowerInv, Watched
      <4> QED BY <4>2, <4>3
    <3> QED BY <3>3, <3>4
  <2> QED BY <2>2, <2>3, <2>4
<1>14. CASE PmSuspend
  <2> PICK p \in (IF power.started THEN PowerOff(power) ELSE {power}) :
        Becomes(SetState(p, "suspend"), TRUE) /\ Stops(p)
      BY <1>14 DEF PmSuspend
  <2>1. /\ UNCHANGED <<scene, active, open_count, elapsed, work, dead>>
        /\ May("suspend") /\ active = 0
        BY <1>14 DEF PmSuspend
  <2>2. p \in Powers /\ Off(p) /\ p.ret = "ok" /\ p.fault = power.fault
    <3>1. CASE power.started
      <4>1. On(power) /\ power \in Powers /\ power.ret = "ok"
            BY <3>1 DEF PowerInv, Off, TypeOK
      <4>2. /\ p \in Powers /\ p.fault = power.fault
            /\ \/ p.ret = "ok" /\ Off(p)
               \/ p.ret = "busy" /\ May("busy")
            BY <3>1, <4>1, Stopped
      <4>3. ~May("busy") BY <2>1 DEF May, Apart, TypeOK
      <4> QED BY <4>2, <4>3
    <3>2. CASE ~power.started BY <3>2 DEF PowerInv, On, TypeOK
    <3> QED BY <3>1, <3>2
  <2>3. LET q == SetState(p, "suspend")
        IN q \in Powers /\ Off(q) /\ q.fault = power.fault /\ q.state = "suspend"
        BY <2>2, SetStateFacts DEF States, Off
  <2>4. power' \in Powers /\ power'.ret = "ok" /\ Off(power)' /\ ~power'.started
        /\ power'.fault = power.fault /\ power'.state = "suspend"
        BY <2>3, BecomesFacts, OnOrOff
  <2>5. LeftOver(power)' BY <2>1, <2>4 DEF LeftOver, PowerInv
  <2>6. timer' \in {"off", timer} BY DEF Stops
  <2> QED BY <2>1, <2>4, <2>5, <2>6 DEF TypeOK, PowerInv, Watched
<1>15. CASE PmResume BY <1>15, PowerSame DEF PmResume, TypeOK, PowerInv, Watched
<1>16. CASE Touch
  <2> PICK p \in Boot(power, FALSE) :
        /\ Becomes(p, TRUE)
        /\ IF p.ret = "ok" THEN timer' = "touch" ELSE UNCHANGED timer
      BY <1>16 DEF Touch
  <2>1. UNCHANGED <<scene, active, open_count, elapsed, work, dead>> BY <1>16 DEF Touch
  <2>2. /\ power' \in Powers /\ power'.ret = "ok"
        /\ (On(power) \/ Off(power))' /\ LeftOver(power)'
        /\ power.started => power'.started
        /\ p.ret # "ok" => ~power'.started
        BY <2>1, BootKeeps
  <2> QED BY <2>1, <2>2 DEF TypeOK, PowerInv, Watched
<1>17. CASE Fault
  <2> DEFINE p == [power EXCEPT !.fault = TRUE]
  <2>1. /\ UNCHANGED <<scene, active, open_count, timer, elapsed, work, dead>>
        /\ May("fault") /\ power.started /\ Becomes(p, TRUE)
        BY <1>17 DEF Fault
  <2>2. On(power) BY <2>1 DEF PowerInv, Off
  <2>3. p \in Powers /\ On(p) BY <2>2 DEF TypeOK, Powers, On
  <2> HIDE DEF p
  <2>4. power' \in Powers /\ power'.ret = "ok" /\ On(power)' /\ power'.started
        BY <2>1, <2>3, BecomesFacts, OnOrOff
  <2>5. LeftOver(power)' BY <2>1, <2>4, OnOrOff DEF LeftOver, May
  <2> QED BY <2>1, <2>4, <2>5 DEF TypeOK, PowerInv, Watched
<1>18. CASE Reset
  <2> PICK p \in Boot(ResetStops(power), TRUE) :
        /\ Becomes([p EXCEPT !.fault = FALSE], p.ret # "ok")
        /\ dead' = (p.ret # "ok")
        /\ IF p.ret = "ok" THEN StartTimer ELSE UNCHANGED <<timer, elapsed>>
      BY <1>18 DEF Reset
  <2>1. /\ UNCHANGED <<scene, active, open_count, work>> /\ power.fault /\ Awake
        BY <1>18 DEF Reset
  <2>2. On(power) BY <2>1 DEF PowerInv, LeftOver, Awake, Off
  <2> DEFINE i == [IrqOff(power) EXCEPT !.irq = FALSE, !.started = FALSE]
             off == ResetStops(power)
  <2>3. off \in Powers /\ Off(off) /\ off.ret = "ok"
    <3>1. /\ IrqOff(power) \in Powers /\ IrqOff(power).ret = "ok"
          /\ IrqOff(power).gdsc = 1 /\ IrqOff(power).clks = 1 /\ IrqOff(power).girq = 0
          BY <2>2, IrqOffFacts DEF TypeOK, On
    <3>2. /\ i \in Powers /\ i.ret = "ok" /\ ~i.irq /\ ~i.started
          /\ i.gdsc = 1 /\ i.clks = 1 /\ i.girq = 0
          BY <3>1 DEF Powers
    <3>3. off = SetState(Down(i), "none") BY DEF ResetStops, Suspend
    <3> HIDE DEF i, off
    <3> QED BY <3>2, <3>3, DownFacts, SetStateFacts DEF States, Off
  <2> HIDE DEF off
  <2>4. p \in Powers /\ (p.ret = "ok" => On(p)) BY <2>3, Boots DEF off
  <2>5. [p EXCEPT !.fault = FALSE] \in Powers
        /\ (p.ret = "ok" => On([p EXCEPT !.fault = FALSE]))
        /\ ~[p EXCEPT !.fault = FALSE].fault
        BY <2>4 DEF Powers, On
  <2>6. /\ power' \in Powers /\ power'.ret = "ok" /\ ~power'.fault
        /\ p.ret = "ok" => On(power)' /\ power'.started
        BY <2>5, BecomesFacts, OnOrOff
  <2>7. TypeOK'
    <3>1. timer' \in {"idle", timer} /\ elapsed' \in {FALSE, elapsed} BY DEF StartTimer
    <3> QED BY <2>1, <2>6, <3>1 DEF TypeOK
  <2>8. CASE p.ret = "ok"
    <3>1. timer' = "idle" /\ elapsed' = FALSE BY <2>8 DEF StartTimer
    <3> QED BY <2>1, <2>6, <2>7, <2>8, <3>1 DEF PowerInv, Watched, LeftOver
  <2>9. CASE p.ret # "ok" BY <2>7, <2>9
  <2> QED BY <2>7, <2>8, <2>9
<1> QED BY <1>5, <1>6, <1>7, <1>8, <1>9, <1>10, <1>11, <1>12, <1>13, <1>14, <1>15, <1>16,
           <1>17, <1>18 DEF Next

(* Power is kept: the votes are balanced with the GPU's use, whichever boot *)
(* or stop fails half way and whatever resets it; who voted finds it up;    *)
(* and a GPU that nobody uses is about to be turned off.                    *)
THEOREM PowerStaysKept ==
    ASSUME GmuPowerAssumption, Apart
    PROVE  Spec => []PowerKept
<1>1. Init => IInv
  <2> SUFFICES ASSUME Init PROVE IInv OBVIOUS
  <2>1. power \in Powers /\ power.ret = "ok" /\ Off(power) /\ ~power.fault /\ ~power.started
        BY DEF Init, Powers, States, Off
  <2>2. TypeOK BY <2>1 DEF Init, TypeOK
  <2>3. PowerInv BY <2>1 DEF Init, PowerInv, LeftOver, Watched
  <2> QED BY <2>2, <2>3 DEF IInv
<1>2. IInv /\ [Next]_vars => IInv' BY NextInv
<1> QED BY <1>1, <1>2, InvImplies, PTL DEF Spec

=============================================================================
