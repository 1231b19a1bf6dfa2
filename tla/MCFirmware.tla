----------------------------- MODULE MCFirmware -----------------------------
(* Instances of HwFences, Preemption, GmuPower and HfiQueue for TLC: what  *)
(* the driver and the GPU's firmware do together.  They share no state; a  *)
(* behaviour is one of any of them, and "part" says of which.              *)
EXTENDS HwFences

CONSTANTS
    Rings, Work, SwitchAccidents,         \* Preemption
    PowerScenes, MaxOpen, MaxActive,      \* GmuPower
    Size, Messages, Cookie                \* HfiQueue

VARIABLES
    part,
    state, cur, next, todo, wptr, skip_inline, timers, works, reset, expired, pc, at,
    within, hw, rptr, record, irqs, accident,
    scene, power, booted, suspended, open_count, active, timer, elapsed, work, submit_now,
    accidents, dead,
    queue, write_index, read_index, writing, reading, taken

switchVars == <<state, cur, next, todo, wptr, skip_inline, timers, works, reset, expired,
                pc, at, within, hw, rptr, record, irqs, accident>>
powerVars == <<scene, power, booted, suspended, open_count, active, timer, elapsed, work,
               submit_now, accidents, dead>>
queueVars == <<queue, write_index, read_index, writing, reading, taken>>

P == INSTANCE Preemption WITH Accidents <- SwitchAccidents,
        skip <- skip_inline, fault <- reset, left <- accident
G == INSTANCE GmuPower WITH Scenes <- PowerScenes, left <- accidents
H == INSTANCE HfiQueue

\* A command for each ring
OneOne == [r \in 0 .. Rings - 1 |-> 1]

\* Failing boots and stops; faults and their recovery; system suspends
Trial(kinds, n) == [may |-> kinds, left |-> n, long |-> FALSE]
Mishaps == {Trial({"busy", "gdsc", "early", "gmu", "gpu", "sleep", "touch"}, 3),
            Trial({"fault", "gmu", "sleep", "touch"}, 3),
            Trial({"suspend", "sleep", "touch"}, 3)}

\* Messages shorter and longer than the four dwords the queue is aligned to
Mixed == {<<1>>, <<2, 5>>, <<4, 1, 2, 3>>, <<5, 2, 1, 1, 4>>}

ASSUME FirmwareAssumption ==
    P!PreemptionAssumption /\ G!GmuPowerAssumption /\ H!HfiQueueAssumption

\* One context, with commands of timestamps 1 and 3
OneThree == <<{1, 3}>>

OneAtATime == {{"late"}, {"early"}, {"hang"}, {"fail"}}
Failures == {"stuck", "slow", "fault", "guilty", "nack", "full", "signal"}

PartsInit ==
    /\ Init /\ P!Init /\ G!Init /\ H!Init
    /\ part \in {"preemption", "fences", "power", "queue"}
    /\ part # "preemption" => accident = CHOOSE a \in SwitchAccidents : TRUE
    /\ part # "power" => "fault" \in scene.may

Switches == part = "preemption" /\ P!Next /\ UNCHANGED <<part, vars, powerVars, queueVars>>
Sends == part = "fences" /\ Next /\ UNCHANGED <<part, switchVars, powerVars, queueVars>>
Powers == part = "power" /\ G!Next /\ UNCHANGED <<part, vars, switchVars, queueVars>>
Exchanges == part = "queue" /\ H!Next /\ UNCHANGED <<part, vars, switchVars, powerVars>>
PartsNext == Switches \/ Sends \/ Powers \/ Exchanges

\* The fairness of the modules, for the one that runs
SwitchFairness ==
    /\ WF_switchVars(part = "preemption" /\ P!DispatcherStep)
    /\ WF_switchVars(part = "preemption" /\ P!InterruptStep)
    /\ WF_switchVars(part = "preemption" /\ P!RunCommand)
    /\ WF_switchVars(part = "preemption" /\ P!CpSwitches)
    /\ WF_switchVars(part = "preemption" /\ P!StatusClears)
    /\ WF_switchVars(part = "preemption" /\ P!PreemptTimer)
    /\ WF_switchVars(part = "preemption" /\ P!PreemptWorker)
    /\ WF_switchVars(part = "preemption" /\ P!DispatchTimer)
FenceFairness ==
    /\ WF_vars(part = "fences" /\ Holder)
    /\ WF_vars(part = "fences" /\ Recover)
    /\ WF_vars(part = "fences" /\ Reader)
    /\ WF_vars(part = "fences" /\ Detaching)
    /\ WF_vars(part = "fences" /\ TimerFires)
    /\ WF_vars(part = "fences" /\ Timeout)
    /\ WF_vars(part = "fences" /\ GmuTakes)
    /\ \A f \in Fence : /\ SF_vars(part = "fences" /\ Awake(f))
                        /\ WF_vars(part = "fences" /\ GmuSignals(f))
    /\ \A c \in Ctx : WF_vars(part = "fences" /\ Retire(c))

PowerFairness ==
    /\ WF_powerVars(part = "power" /\ G!IdlePasses)
    /\ WF_powerVars(part = "power" /\ G!TimerFires)
    /\ WF_powerVars(part = "power" /\ G!IdleCheck)
    /\ WF_powerVars(part = "power" /\ G!SubmitEnds)

PartsSpec == PartsInit /\ [][PartsNext]_<<vars, part, switchVars, powerVars, queueVars>>
FairParts == PartsSpec /\ SwitchFairness /\ FenceFairness /\ PowerFairness

-----------------------------------------------------------------------------
(* The properties of the modules; NothingStranded is HwFences'.            *)

\* Host and CP agree on the ring that runs, and no ring runs past its end.
SwitchesAgree == P!TypeOK /\ P!SwitchesAgree /\ P!NeverPastTheEnd

\* The count of unacknowledged fences is right, and a throttle has its end.
ThrottleEnds == UnackMatches /\ SomeoneEndsThrottle

\* Fences go out once and in order, and none outlives its context.
SentInOrder == SentOnceInOrder /\ DetachedLeavesNone

\* Power is balanced, there for who voted, and somebody turns it off.
PowerKept == G!PowerKept

\* HfiQueue implements MessageQueue.
ReadsAsWritten == H!ReadsAsWritten

\* Commands run, threads asleep for the throttle return, and an unused GPU
\* sleeps.
EveryoneGetsOn ==
    /\ part = "preemption" => P!EveryCommandRuns
    /\ SleepersReturn
    /\ G!SleepsAgain
=============================================================================
