------------------------------ MODULE GmuPower ------------------------------
(***************************************************************************)
(* The power of a GPU with a GMU (adreno_gen7_gmu.c): files and the active *)
(* count turn it on, the idle timer, the last close and system suspend     *)
(* turn it off, a touch wakes it, and a fault resets it.  Each of them     *)
(* boots or stops the GMU, which may fail half way.                        *)
(*                                                                         *)
(* The device mutex is held within a step; waits that let go of it end     *)
(* with the active count zero and the mutex held.  User threads are frozen *)
(* during a system suspend.                                                *)
(***************************************************************************)
EXTENDS Integers

CONSTANTS
    MaxOpen, MaxActive,   \* bounds: open files, votes for power
    Scenes                \* records [may, left, long]: what may happen and how
                          \* often; long: idle_timer is set above wake_timeout

GmuPowerAssumption ==
    /\ MaxOpen \in Nat \ {0} /\ MaxActive \in Nat \ {0}
    /\ \A s \in Scenes : s.left \in Nat /\ s.long \in BOOLEAN

VARIABLES
    scene,
    power,       \* state: none, aware, active, slumber, suspend; started,
                 \* GMU_PRIV_GPU_STARTED; gdsc, clks, girq, votes and enables of
                 \* the power domain, the clocks and the GMU's interrupts; irq,
                 \* the GPU's; gmu_fault; fault; skip, skip_inline_submit;
                 \* ret: ok, failed, busy
    booted,      \* GMU_PRIV_FIRST_BOOT_DONE
    suspended,   \* GMU_PRIV_PM_SUSPEND
    open_count, active,
    timer,       \* the idle timer: off, idle, touch
    elapsed,     \* idle_jiffies has passed
    work,        \* idle_check_ws is queued
    submit_now,  \* an inline submission is under way
    left,        \* of scene.left
    dead         \* BUG_ON

vars == <<scene, power, booted, suspended, open_count, active, timer, elapsed, work,
          submit_now, left, dead>>

Init ==
    /\ scene \in Scenes
    /\ power = [state |-> "none", started |-> FALSE, gdsc |-> 0, clks |-> 0, girq |-> 0,
                irq |-> FALSE, gmu_fault |-> FALSE, fault |-> FALSE, skip |-> TRUE, ret |-> "ok"]
    /\ booted = FALSE /\ suspended = FALSE /\ open_count = 0 /\ active = 0
    /\ timer = "off" /\ elapsed = TRUE /\ work = FALSE /\ submit_now = FALSE
    /\ left = scene.left /\ dead = FALSE

May(kind) == kind \in scene.may /\ left > 0
Fails(kind, outcomes) == IF May(kind) THEN outcomes ELSE {}

-----------------------------------------------------------------------------
(* Boot and stop, as the sets of what they may leave of the power record.  *)
(* "rec": ADRENO_DEVICE_RESET_RECOVERY                                     *)

SetState(p, s) == [p EXCEPT !.state = s, !.skip = (s # "active")]
Failed(p) == [p EXCEPT !.ret = "failed"]

Down(p) == [p EXCEPT !.clks = @ - 1, !.gdsc = @ - 1]
IrqOff(p) == [p EXCEPT !.girq = @ - 1]

\* gen7_gmu_suspend
Suspend(p, force, rec) == IF ~force /\ rec THEN p ELSE SetState(Down(p), "none")

\* gmu_core_enable_clks has set the state.
Up(p) == [p EXCEPT !.gdsc = @ + 1, !.clks = @ + 1, !.state = "aware"]

\* After the interrupts are on: with a snapshot of the GMU, or without.
Bug_BootError(p, rec) == IF p.gmu_fault THEN Suspend(p, FALSE, rec) ELSE Down(IrqOff(p))
BootError(p, rec) == IF p.gmu_fault THEN Suspend(IrqOff(p), FALSE, rec) ELSE Down(IrqOff(p))

GmuBoot(p, rec) ==
    LET on == [Up(p) EXCEPT !.girq = @ + 1, !.fault = FALSE]
    IN {SetState([on EXCEPT !.gmu_fault = FALSE], "aware")}
       \cup Fails("gdsc", {Failed(p)})
       \cup Fails("early", {Failed(Down(Up(p)))})
       \cup Fails("gmu", {Failed(BootError([on EXCEPT !.gmu_fault = @ \/ f], rec)) :
                              f \in BOOLEAN})

\* gen7_gmu_power_off: the sequence may time out, with a snapshot or without.
Bug_GmuPowerOff(p, rec) ==
    {SetState(Down(IrqOff(p)), "none")}
    \cup Fails("sleep", {IrqOff([p EXCEPT !.gmu_fault = @ \/ f]) : f \in BOOLEAN})
GmuPowerOff(p, rec) ==
    LET error(f) == Suspend(IrqOff([p EXCEPT !.gmu_fault = @ \/ f]), FALSE, rec)
    IN (IF p.gmu_fault THEN {error(TRUE)} ELSE {SetState(Down(IrqOff(p)), "none")})
       \cup Fails("sleep", {error(f) : f \in BOOLEAN})

GpuBoot(p, rec) ==
    {[p EXCEPT !.irq = TRUE]}
    \cup Fails("gpu", UNION {{Failed(q) : q \in GmuPowerOff([p EXCEPT !.gmu_fault = f], rec)} :
                                 f \in BOOLEAN})

\* gen7_boot, and first boot
Boot(p, rec) ==
    LET after(q) == IF q.ret = "ok" THEN GpuBoot(q, rec) ELSE {q}
        active_(q) == IF q.ret = "ok" THEN SetState([q EXCEPT !.started = TRUE], "active")
                      ELSE q
    IN IF p.started THEN {p}
       ELSE {active_(r) : r \in UNION {after(q) : q \in GmuBoot(p, rec)}}

\* gen7_power_off: busy with an interrupt
PowerOff(p) ==
    {SetState([q EXCEPT !.started = FALSE], "slumber") :
         q \in GmuPowerOff([p EXCEPT !.irq = FALSE], FALSE)}
    \cup Fails("busy", {[p EXCEPT !.ret = "busy"]})

\* The record is kept, and what went wrong is counted.
Becomes(p, accident) ==
    /\ power' = [p EXCEPT !.ret = "ok"]
    /\ left' = IF accident THEN left - 1 ELSE left

StartTimer == timer' = "idle" /\ elapsed' = FALSE

-----------------------------------------------------------------------------
(* Files and votes                                                         *)

FirstOpen ==
    /\ ~dead /\ ~suspended /\ open_count = 0
    /\ \E p \in Boot(power, FALSE) :
        /\ Becomes(p, p.ret # "ok")
        /\ IF p.ret = "ok"
           THEN open_count' = 1 /\ booted' = TRUE /\ StartTimer
           ELSE UNCHANGED <<open_count, booted, timer, elapsed>>
    /\ UNCHANGED <<scene, suspended, active, work, submit_now, dead>>

Open ==
    /\ ~dead /\ ~suspended /\ open_count \in 1 .. MaxOpen - 1
    /\ open_count' = open_count + 1
    /\ UNCHANGED <<scene, power, booted, suspended, active, timer, elapsed, work, submit_now,
                   left, dead>>

\* A power-off stops the timer, unless the GPU is busy.
Stops(p) == IF p.ret = "busy" THEN UNCHANGED timer ELSE timer' = "off"

\* The last close waits for the votes.
Close ==
    /\ ~dead /\ ~suspended /\ open_count > 0
    /\ open_count' = open_count - 1
    /\ IF open_count = 1 /\ power.started
       THEN /\ active = 0
            /\ \E p \in PowerOff(power) : Becomes(p, p.ret = "busy") /\ Stops(p)
       ELSE (open_count = 1 => active = 0) /\ UNCHANGED <<power, left, timer>>
    /\ UNCHANGED <<scene, booted, suspended, active, elapsed, work, submit_now, dead>>

ActiveCountGet ==
    /\ ~dead /\ ~suspended /\ open_count > 0 /\ active < MaxActive
    /\ IF active = 0 /\ ~power.started
       THEN \E p \in Boot(power, FALSE) :
                /\ Becomes(p, p.ret # "ok")
                /\ IF p.ret = "ok" THEN active' = 1 /\ StartTimer
                   ELSE UNCHANGED <<active, timer, elapsed>>
       ELSE active' = active + 1 /\ UNCHANGED <<power, left, timer, elapsed>>
    /\ UNCHANGED <<scene, booted, suspended, open_count, work, submit_now, dead>>

ActiveCountPut ==
    /\ ~dead /\ active > 0
    /\ active' = active - 1
    /\ IF active = 1 THEN StartTimer ELSE UNCHANGED <<timer, elapsed>>
    /\ UNCHANGED <<scene, power, booted, suspended, open_count, work, submit_now, left, dead>>

\* An inline submission, and its end
SubmitBegins ==
    /\ ~dead /\ ~suspended /\ open_count > 0 /\ ~power.skip /\ ~submit_now
    /\ submit_now' = TRUE
    /\ UNCHANGED <<scene, power, booted, suspended, open_count, active, timer, elapsed, work,
                   left, dead>>

SubmitEnds ==
    /\ submit_now /\ submit_now' = FALSE
    /\ UNCHANGED <<scene, power, booted, suspended, open_count, active, timer, elapsed, work,
                   left, dead>>

-----------------------------------------------------------------------------
(* The idle timer                                                          *)

IdlePasses ==
    /\ ~elapsed /\ elapsed' = TRUE
    /\ UNCHANGED <<scene, power, booted, suspended, open_count, active, timer, work, submit_now,
                   left, dead>>

\* After a touch it expires in wake_timeout.
TimerFires ==
    /\ \/ timer = "idle" /\ elapsed
       \/ timer = "touch" /\ (elapsed \/ scene.long)
    /\ timer' = "off" /\ work' = TRUE
    /\ UNCHANGED <<scene, power, booted, suspended, open_count, active, elapsed, submit_now,
                   left, dead>>

IsIdle == active = 0 /\ elapsed /\ power.started

Bug_Rearms(p) == UNCHANGED <<timer, elapsed>>
Rearms(p) == IF p.ret = "busy" THEN StartTimer ELSE timer' = "off" /\ UNCHANGED elapsed

IdleCheck ==
    /\ ~dead /\ work /\ work' = FALSE
    /\ IF ~IsIdle THEN UNCHANGED <<power, timer, elapsed, left>>
       ELSE IF submit_now THEN StartTimer /\ UNCHANGED <<power, left>>
       ELSE \E p \in PowerOff([power EXCEPT !.skip = TRUE]) :
                Becomes(p, p.ret = "busy") /\ Rearms(p)
    /\ UNCHANGED <<scene, booted, suspended, open_count, active, submit_now, dead>>

-----------------------------------------------------------------------------
(* System suspend, a touch, a fault and its recovery                       *)

\* The drain has found no votes; what gen7_power_off returns is not looked at.
PmSuspend ==
    /\ ~dead /\ May("suspend") /\ ~suspended /\ active = 0
    /\ \E p \in (IF power.started THEN PowerOff(power) ELSE {power}) :
        Becomes(SetState(p, "suspend"), TRUE) /\ Stops(p)
    /\ suspended' = TRUE
    /\ UNCHANGED <<scene, booted, open_count, active, elapsed, work, submit_now, dead>>

PmResume ==
    /\ ~dead /\ suspended /\ suspended' = FALSE
    /\ UNCHANGED <<scene, power, booted, open_count, active, timer, elapsed, work, submit_now,
                   left, dead>>

Touch ==
    /\ ~dead /\ May("touch") /\ ~suspended /\ booted
    /\ \E p \in Boot(power, FALSE) :
        /\ Becomes(p, TRUE)
        /\ IF p.ret = "ok" THEN timer' = "touch" ELSE UNCHANGED timer
    /\ UNCHANGED <<scene, booted, suspended, open_count, active, elapsed, work, submit_now, dead>>

Fault ==
    /\ ~dead /\ May("fault") /\ power.started
    /\ Becomes([power EXCEPT !.fault = TRUE], TRUE)
    /\ UNCHANGED <<scene, booted, suspended, open_count, active, timer, elapsed, work, submit_now,
                   dead>>

\* dispatcher_do_fault, and gen7_gmu_reset in it
Awake == power.state \in {"aware", "active"}
Bug_ResetStops(p) == Suspend([IrqOff(p) EXCEPT !.irq = FALSE, !.started = FALSE], FALSE, TRUE)
ResetStops(p) == Suspend([IrqOff(p) EXCEPT !.irq = FALSE, !.started = FALSE], TRUE, TRUE)
Reset ==
    /\ ~dead /\ power.fault /\ Awake
    /\ \E p \in Boot(ResetStops(power), TRUE) :
        /\ Becomes([p EXCEPT !.fault = FALSE], p.ret # "ok")
        /\ dead' = (p.ret # "ok")
        /\ IF p.ret = "ok" THEN StartTimer ELSE UNCHANGED <<timer, elapsed>>
    /\ UNCHANGED <<scene, booted, suspended, open_count, active, work, submit_now>>

-----------------------------------------------------------------------------
Next ==
    \/ FirstOpen \/ Open \/ Close
    \/ ActiveCountGet \/ ActiveCountPut
    \/ SubmitBegins \/ SubmitEnds
    \/ IdlePasses \/ TimerFires \/ IdleCheck
    \/ PmSuspend \/ PmResume \/ Touch
    \/ Fault \/ Reset

Spec == Init /\ [][Next]_vars

\* Time passes, timers fire and work is done; a submission under way ends.
Fairness == WF_vars(IdlePasses) /\ WF_vars(TimerFires) /\ WF_vars(IdleCheck) /\ WF_vars(SubmitEnds)

-----------------------------------------------------------------------------
(* Properties                                                              *)

(* What is voted for and enabled is what a started GPU needs, whatever      *)
(* failed on the way.                                                       *)
Balanced ==
    /\ power.irq = power.started
    /\ LET n == IF power.started THEN 1 ELSE 0
       IN power.gdsc = n /\ power.clks = n /\ power.girq = n

(* Whoever voted finds the GPU up, and in a state its faults are looked at. *)
UpWhenUsed == active > 0 => power.started /\ Awake

(* A GPU nobody uses has a timer running, or its work waits.                *)
SomeoneTurnsOff == power.started /\ active = 0 => timer # "off" \/ work

PowerKept == dead \/ (Balanced /\ UpWhenUsed /\ SomeoneTurnsOff)

(* As the comment of dispatcher_do_fault expects of kgsl_state_is_awake: a  *)
(* state whose registers are read means power.  A boot that failed without  *)
(* a snapshot leaves it aware.                                              *)
AwakeIsOn == Awake => power.started

(* As the comment of adreno_input_work says: either somebody uses the GPU,  *)
(* or the idle timer puts it back into slumber.                             *)
SleepsAgain == []<>(~power.started \/ active > 0 \/ submit_now \/ dead)
=============================================================================
