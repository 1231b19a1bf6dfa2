------------------------------- MODULE Hwsched -------------------------------
(***************************************************************************)
(* The host side of hardware scheduling (adreno_hwsched.c): contexts queue *)
(* objects, and the worker or a submitting thread, whichever holds         *)
(* hwsched->mutex, hands them to the GMU and keeps each on cmd_list until  *)
(* its timestamp retires.  hwsched->inflight counts that list; while it is *)
(* not zero the scheduler holds a vote for power and the idle gate is      *)
(* shut.  A fault is recovered by resetting the GPU and replaying the      *)
(* list.                                                                   *)
(*                                                                         *)
(* Object i of context c is <<c, i>> and i is its timestamp; the order of  *)
(* the contexts within a pass is left open.  device->mutex and             *)
(* drawctxt->lock are held within a step.                                  *)
(***************************************************************************)
EXTENDS Integers, Sequences, FiniteSets

CONSTANTS
    Ctx,        \* contexts, a 1 .. n
    Length,     \* bound: objects a context submits
    Scenes,     \* what is tried: kinds, the objects of each context, and
                \* accidents, a bound of how many happen
    HwSize,     \* bound: packets a context's GMU queue holds
    Resets,     \* what the recovery may do: hard, soft, none
    Accidents   \* what may go wrong, of those named below

Kinds == {"cmd", "big", "marker", "sync", "hwsync"}

ASSUME HwschedAssumption ==
    /\ IsFiniteSet(Ctx) /\ Ctx = 1 .. Cardinality(Ctx)
    /\ Length \in Nat /\ HwSize \in Nat \ {0}
    /\ Scenes \subseteq [kinds : [Ctx -> Seq(Kinds)], accidents : Nat]
    /\ \A s \in Scenes : \A c \in Ctx : Len(s.kinds[c]) <= Length
    /\ Resets \subseteq {"hard", "soft", "none"}
    /\ Accidents \subseteq {"hang", "watchdog", "nopower", "register", "detach", "suspend"}

VARIABLES
    script,     \* per context, the kinds of its objects: cmd, big, marker, sync,
                \* and hwsync, whose fences are hardware fences
    hwFence,    \* ADRENO_HWSCHED_HW_FENCE
    added,      \* per context, the objects submitted so far
    queue,      \* per context, its draw queue
    fast,       \* markers retired when they were submitted
    skip,       \* markers with CMDOBJ_SKIP
    expired,    \* markers with CMDOBJ_MARKER_EXPIRED
    state,      \* per context: ok, invalid, detached, gone
    thread,     \* per context, its submitting thread: idle, past (the
                \* halt gate), added (the object), sending
    retired,    \* per context, eoptimestamp
    synced,     \* per context, sync_obj_ts of its GMU queue
    signalled,  \* sync objects whose fences have signalled
    owed,       \* contexts a fence callback is about to schedule
    jobs, requeue,   \* hwsched->jobs, ->requeue
    pending,    \* scheduler_work is queued
    holder,     \* of hwsched->mutex: free, work, inline
    taken,      \* the contexts it has still to consider
    from, hand, sent,   \* the one it sends from, the object popped, sent any
    list, inflight, big,   \* cmd_list, ->inflight, ->big_cmdobj
    powered, active, gate, votes, awake,
    hwq,        \* per context, what the GMU still has to execute
    gmu,        \* runs, stuck
    news,       \* messages the f2h thread has to read: retire, bad
    fault, culprit,   \* scheduler_fault, ctxt_bad
    pm,         \* system suspend: on, drain, flush, gate, suspended
    flush,      \* runs of the worker the suspend still waits for
    halt,
    refused,    \* a power-up was refused
    left        \* accidents left

ctxs == <<script, hwFence, added, fast, skip, state, thread>>
stamps == <<expired, retired, synced, signalled, owed>>
lists == <<jobs, requeue>>
runs == <<holder, taken, from, hand, sent>>
books == <<list, inflight, big, powered, active, gate, votes, awake>>
hw == <<hwq, gmu, news, fault, culprit>>
power == <<pm, halt, flush>>
bounds == <<refused, left>>
vars == <<ctxs, queue, stamps, lists, pending, runs, books, hw, power, bounds>>

None == <<0, 0>>
Obj == Ctx \X (1 .. Length)
Kind(o) == script[o[1]][o[2]]
Objects == {o \in Obj : o[2] <= Len(script[o[1]])}
Stamped == {o \in Objects : Kind(o) \in {"cmd", "big", "marker"}}
Syncs == Objects \ Stamped

Init ==
    /\ \E s \in Scenes : script = s.kinds /\ left = s.accidents
    /\ hwFence \in BOOLEAN
    /\ added = [c \in Ctx |-> 0] /\ queue = [c \in Ctx |-> <<>>]
    /\ fast = {} /\ skip = {} /\ expired = {}
    /\ state = [c \in Ctx |-> "ok"] /\ thread = [c \in Ctx |-> "idle"]
    /\ retired = [c \in Ctx |-> 0] /\ synced = [c \in Ctx |-> 0]
    /\ signalled = {} /\ owed = {} /\ jobs = {} /\ requeue = {}
    /\ pending = FALSE
    /\ holder = "free" /\ taken = {} /\ from = 0 /\ hand = None /\ sent = FALSE
    /\ list = <<>> /\ inflight = 0 /\ big = None
    /\ powered = FALSE /\ active = FALSE /\ gate = TRUE /\ votes = 0
    /\ awake = FALSE
    /\ hwq = [c \in Ctx |-> <<>>] /\ gmu = "runs" /\ news = {}
    /\ fault = FALSE /\ culprit = None
    /\ pm = "on" /\ halt = 0 /\ flush = 0
    /\ refused = FALSE

May(accident) == accident \in Accidents /\ left > 0
Spend == left' = left - 1 /\ UNCHANGED refused

Highest(S) == CHOOSE n \in S \cup {0} : \A m \in S : m <= n
Elems(s) == {s[i] : i \in DOMAIN s}
Bad(c) == state[c] # "ok"

\* drawctxt->queued_timestamp before object i, which a marker waits for
Behind(c, i) ==
    Highest({j \in 1 .. i - 1 : <<c, j>> \in Stamped \ fast})

\* kgsl_check_timestamp, adreno_hwsched_hw_syncobj_retired
Retired(o) ==
    IF o \in Syncs THEN o[2] <= synced[o[1]] ELSE o[2] <= retired[o[1]]

-----------------------------------------------------------------------------
(* Submission: adreno_hwsched_queue_cmds and adreno_hwsched_issuecmds.     *)

\* Past the halt gate, which a suspend shuts
Enter(c) ==
    /\ thread[c] = "idle" /\ added[c] < Len(script[c]) /\ ~Bad(c) /\ pm = "on"
    /\ thread' = [thread EXCEPT ![c] = "past"]
    /\ UNCHANGED <<script, hwFence, added, fast, skip, state, queue, stamps, lists, pending, runs,
                   books, hw, power, bounds>>

\* kgsl_check_context_state
Refused(c) ==
    /\ thread[c] = "past" /\ Bad(c)
    /\ thread' = [thread EXCEPT ![c] = "idle"]
    /\ UNCHANGED <<script, hwFence, added, fast, skip, state, queue, stamps, lists, pending, runs,
                   books, hw, power, bounds>>

CanSubmit(c) == thread[c] = "past" /\ ~Bad(c)

\* The marker of _queue_markerobj that retires at once
FastMarker(c) ==
    LET i == added[c] + 1 IN
    /\ CanSubmit(c) /\ script[c][i] = "marker"
    /\ queue[c] = <<>> /\ Behind(c, i) <= retired[c]
    /\ added' = [added EXCEPT ![c] = i] /\ fast' = fast \cup {<<c, i>>}
    /\ retired' = [retired EXCEPT ![c] = i]
    /\ thread' = [thread EXCEPT ![c] = "idle"]
    /\ UNCHANGED <<script, hwFence, skip, state, expired, synced, signalled, owed, queue,
                   lists, pending, runs, books, hw, power, bounds>>

\* The object goes to the draw queue and its context on the job list; a
\* command forces the markers before it to be sent
Queue(c) ==
    LET i == added[c] + 1 IN
    /\ CanSubmit(c)
    /\ ~(script[c][i] = "marker" /\ queue[c] = <<>> /\ Behind(c, i) <= retired[c])
    /\ added' = [added EXCEPT ![c] = i]
    /\ queue' = [queue EXCEPT ![c] = Append(@, i)]
    /\ skip' = IF script[c][i] \in {"cmd", "big"}
               THEN skip \cup {o \in {c} \X Elems(queue[c]) : Kind(o) = "marker"}
               ELSE skip
    /\ thread' = [thread EXCEPT ![c] = "added"]
    /\ jobs' = jobs \cup {c}
    /\ UNCHANGED <<script, hwFence, fast, state, stamps, requeue, pending, runs, books, hw, power,
                   bounds>>

Took(who) ==
    /\ holder' = who /\ taken' = jobs \cup requeue
    /\ jobs' = {} /\ requeue' = {}
    /\ UNCHANGED <<from, hand, sent>>

\* It sends itself, unless the GPU sleeps or the scheduler is busy
Issue(c) ==
    /\ thread[c] = "added"
    /\ \/ /\ holder = "free" /\ awake /\ ~fault
          /\ Took("inline") /\ UNCHANGED pending
          /\ thread' = [thread EXCEPT ![c] = "sending"]
       \/ /\ holder = "free" /\ awake /\ fault
          /\ thread' = [thread EXCEPT ![c] = "idle"]
          /\ UNCHANGED <<runs, lists, pending>>
       \/ /\ holder # "free" \/ ~awake
          /\ thread' = [thread EXCEPT ![c] = "idle"]
          /\ pending' = TRUE /\ UNCHANGED <<runs, lists>>
    /\ UNCHANGED <<script, hwFence, added, fast, skip, state, queue, stamps, books, hw, power, bounds>>

-----------------------------------------------------------------------------
(* A pass over the contexts: hwsched_handle_jobs_list, hwsched_sendcmds.   *)

Idle == from = 0 /\ hand = None

Drop(c) ==
    /\ c \in taken /\ Bad(c) /\ Idle /\ taken' = taken \ {c}
    /\ UNCHANGED <<ctxs, queue, stamps, lists, pending, holder, from, hand, sent,
                   books, hw, power, bounds>>

Consider(c) ==
    /\ c \in taken /\ ~Bad(c) /\ Idle
    /\ taken' = taken \ {c} /\ from' = c /\ sent' = FALSE
    /\ UNCHANGED <<ctxs, queue, stamps, lists, pending, holder, hand, books, hw,
                   power, bounds>>

\* The object at place j goes without the GMU, those before it gone
Passes(c, j) ==
    LET o == <<c, queue[c][j]>> IN
    \/ o \in Syncs /\ o \in signalled
    \/ /\ Kind(o) = "marker" /\ ~hwFence
       /\ \/ Behind(c, o[2]) <= retired[c]
          \/ Behind(c, o[2]) \in {queue[c][k] : k \in 1 .. j - 1}

Passed(c) == Highest({n \in 1 .. Len(queue[c]) : \A j \in 1 .. n : Passes(c, j)})

MarkerGoes(o, at) == o \in skip \/ (hwFence /\ Behind(o[1], o[2]) <= at)

BigBlocks(o) == Kind(o) = "big" /\ big # None

Goes(o, at) ==
    \/ Kind(o) \in {"cmd", "big"} /\ ~BigBlocks(o)
    \/ Kind(o) = "marker" /\ MarkerGoes(o, at)
    \/ Kind(o) = "hwsync" /\ hwFence

\* _process_drawqueue_get_next_drawobj: retire what needs no GMU, pop what
\* goes to it, or leave the context, on the list that suits the reason
Pop(c) ==
    LET n == Passed(c)
        gone == {o \in {<<c, queue[c][j]>> : j \in 1 .. n} : o \in Stamped}
        at == Highest({o[2] : o \in gone} \cup {retired[c]})
        rest == SubSeq(queue[c], n + 1, Len(queue[c])) IN
    /\ from = c /\ hand = None
    /\ IF rest # <<>> /\ Goes(<<c, Head(rest)>>, at)
       THEN LET o == <<c, Head(rest)>>
                past == Kind(o) = "marker" /\ hwFence /\ Behind(c, o[2]) <= at IN
            /\ hand' = o /\ queue' = [queue EXCEPT ![c] = Tail(rest)]
            /\ expired' = IF past THEN expired \cup {o} ELSE expired
            /\ retired' = [retired EXCEPT ![c] = IF past THEN o[2] ELSE at]
            /\ UNCHANGED <<from, lists>>
       ELSE /\ queue' = [queue EXCEPT ![c] = rest]
            /\ retired' = [retired EXCEPT ![c] = at]
            /\ from' = 0 /\ UNCHANGED <<hand, expired>>
            /\ IF rest = <<>> /\ ~sent THEN UNCHANGED lists
               ELSE IF rest # <<>> /\ BigBlocks(<<c, Head(rest)>>)
                    THEN requeue' = requeue \cup {c} /\ UNCHANGED jobs
                    ELSE jobs' = jobs \cup {c} /\ UNCHANGED requeue
    /\ UNCHANGED <<ctxs, synced, signalled, owed, pending, holder, taken, sent,
                   books, hw, power, bounds>>

\* hwsched_dispatcher_requeue_drawobj, for the reason the send failed
Return(why) ==
    LET c == hand[1] IN
    /\ hand' = None /\ from' = 0
    /\ IF Bad(c) THEN UNCHANGED <<queue, lists>>
       ELSE /\ queue' = [queue EXCEPT ![c] = <<hand[2]>> \o @]
            /\ IF why = "nospace"
               THEN requeue' = requeue \cup {c} /\ UNCHANGED jobs
               ELSE jobs' = jobs \cup {c} /\ UNCHANGED requeue

Bug_Abort == fault

Abort == halt > 0 \/ fault   \* _abort_submission

\* hwsched_sendcmd, while the scheduler may not send
SendAborts ==
    /\ hand # None /\ (Abort \/ state[hand[1]] \in {"detached", "gone"})
    /\ IF Abort THEN Return("busy")
       ELSE hand' = None /\ from' = 0 /\ UNCHANGED <<queue, lists>>
    /\ UNCHANGED <<ctxs, stamps, pending, holder, taken, sent, books, hw, power,
                   bounds>>

MaySend ==
    hand # None /\ ~Abort /\ state[hand[1]] \notin {"detached", "gone"}

Bug_NeedsPower == inflight = 0

NeedsPower == inflight = 0 /\ ~powered

\* adreno_active_count_get fails
SendUnpowered ==
    /\ MaySend /\ NeedsPower /\ May("nopower")
    /\ left' = left - 1 /\ refused' = TRUE
    /\ Return("busy")
    /\ UNCHANGED <<ctxs, stamps, pending, holder, taken, sent, books, hw, power>>

Bug_DropsVote == TRUE

DropsVote == inflight = 0

\* submit_drawobj fails: the GMU's queue for the context is full, or the GMU
\* does not answer when the context is registered
SendFails ==
    /\ MaySend
    /\ \/ /\ hand \notin expired /\ Len(hwq[hand[1]]) >= HwSize
          /\ Return("nospace") /\ UNCHANGED <<fault, pending, bounds>>
       \/ /\ May("register") /\ hwq[hand[1]] = <<>> /\ Spend
          /\ Return("busy") /\ fault' = TRUE /\ pending' = TRUE
    /\ votes' = votes + (IF NeedsPower THEN 1 ELSE 0) - (IF DropsVote THEN 1 ELSE 0)
    /\ powered' = ((powered \/ NeedsPower) /\ ~DropsVote)
    /\ awake' = (awake \/ NeedsPower)
    /\ UNCHANGED <<ctxs, stamps, holder, taken, sent, list, inflight, big, active,
                   gate, hwq, gmu, news, culprit, power>>

\* The object is the GMU's, and on cmd_list until it retires
Send ==
    LET c == hand[1] IN
    /\ MaySend /\ (hand \in expired \/ Len(hwq[c]) < HwSize)
    /\ hwq' = IF hand \in expired THEN hwq
              ELSE [hwq EXCEPT ![c] = Append(@, hand[2])]
    /\ list' = Append(list, hand) /\ inflight' = inflight + 1
    /\ powered' = (powered \/ NeedsPower)
    /\ votes' = votes + (IF NeedsPower THEN 1 ELSE 0)
    /\ awake' = (awake \/ NeedsPower)
    /\ active' = (active \/ inflight = 0)
    /\ gate' = (gate /\ (active \/ inflight # 0))
    /\ big' = IF Kind(hand) = "big" THEN hand ELSE big
    /\ hand' = None /\ sent' = TRUE
    /\ UNCHANGED <<ctxs, queue, stamps, lists, pending, holder, taken, from, gmu,
                   news, fault, culprit, power, bounds>>

-----------------------------------------------------------------------------
(* The worker: adreno_hwsched_work, and the end of a thread's own pass.    *)

RunDone == flush' = IF flush > 0 THEN flush - 1 ELSE 0

InlineEnds ==
    /\ holder = "inline" /\ Idle /\ taken = {}
    /\ holder' = "free"
    /\ thread' = [c \in Ctx |-> IF thread[c] = "sending" THEN "idle" ELSE thread[c]]
    /\ UNCHANGED <<script, hwFence, added, fast, skip, state, queue, stamps, lists, pending, taken,
                   from, hand, sent, books, hw, power, bounds>>

\* The elements of s that are in S, in their order
Places(s, S) == {i \in DOMAIN s : s[i] \in S}
Rank(i, P) == Cardinality({j \in P : j <= i})
Only(s, S) ==
    LET P == Places(s, S)
    IN [n \in 1 .. Cardinality(P) |-> s[CHOOSE i \in P : Rank(i, P) = n]]

Keeps(S) == Only(list, Elems(list) \ S)
Counted(S) == Cardinality(Elems(list) \cap S)

Bug_Retires(S) ==
    list' = Keeps(S) /\ inflight' = inflight - Counted(S) /\ UNCHANGED big

\* adreno_hwsched_retire_cmdobj and _cmdlist_obj for the objects of S
Retires(S) ==
    /\ list' = Keeps(S) /\ inflight' = inflight - Counted(S)
    /\ big' = IF big \in S THEN None ELSE big

\* retire_drawobj_list, then a pass
WorkStarts ==
    /\ holder = "free" /\ pending /\ ~fault
    /\ pending' = FALSE
    /\ Retires({o \in Elems(list) : Retired(o)})
    /\ Took("work")
    /\ UNCHANGED <<ctxs, queue, stamps, powered, active, gate, votes, awake, hw,
                   power, bounds>>

\* hwsched_power_down when nothing is in flight
WorkEnds ==
    /\ holder = "work" /\ Idle /\ taken = {}
    /\ holder' = "free"
    /\ IF inflight = 0
       THEN /\ votes' = votes - (IF powered THEN 1 ELSE 0) /\ powered' = FALSE
            /\ gate' = (gate \/ active) /\ active' = FALSE
       ELSE UNCHANGED <<votes, powered, gate, active>>
    /\ RunDone
    /\ UNCHANGED <<ctxs, queue, stamps, lists, pending, taken, from, hand, sent,
                   list, inflight, big, awake, hw, pm, halt, bounds>>

-----------------------------------------------------------------------------
(* Recovery: adreno_hwsched_do_fault.                                      *)

\* get_fault_cmdobj
Found == culprit \in Elems(list) /\ Kind(culprit) \in {"cmd", "big"}

\* What is replayed of a context
Again(c, S) ==
    LET replayed == Only(list, {o \in Elems(list) \ S : o[1] = c})
    IN [i \in DOMAIN replayed |-> replayed[i][2]]

Bug_Dropped(ts, bad) == {o \in Elems(list) : o[1] \in bad}

\* What adreno_hwsched_drawobj_replay drops
Dropped(ts, bad) ==
    {o \in Elems(list) : \/ o[1] \in bad
                         \/ o \in Syncs /\ o[2] <= synced[o[1]]
                         \/ o \in Stamped /\ o[2] <= ts[o[1]]}

BadCtx == {c \in Ctx : Bad(c)}

\* adreno_drawctxt_set_guilty: the context is invalid and its queue gone
Guilty(c) ==
    /\ state' = [state EXCEPT ![c] = IF @ = "ok" THEN "invalid" ELSE @]
    /\ queue' = [queue EXCEPT ![c] = <<>>]

NotGuilty == UNCHANGED <<state, queue>>

\* gen7_hwsched_reset_replay; "forced" is false where the GMU is left to
\* retire the command (FORCE_RETIRE_GMU)
HardReset(guilty, forced) ==
    LET c == culprit[1]
        ts == IF guilty THEN [retired EXCEPT ![c] = added[c]]
              ELSE IF Found /\ forced THEN [retired EXCEPT ![c] = culprit[2]]
              ELSE retired
        gone == Dropped(ts, BadCtx \cup (IF guilty THEN {c} ELSE {})) IN
    /\ IF guilty THEN Guilty(c) ELSE NotGuilty
    /\ retired' = ts
    /\ Retires(gone)
    /\ hwq' = [d \in Ctx |-> Again(d, gone)]
    /\ UNCHANGED synced

\* gen8_hwsched_soft_reset: the GMU keeps its queues, without the culprit,
\* and drops those of a guilty context
SoftReset(guilty, forced) ==
    LET c == culprit[1]
        ts == IF forced THEN [retired EXCEPT ![c] = culprit[2]] ELSE retired
        gone == Dropped(ts, BadCtx) IN
    /\ Found
    /\ Retires(gone)
    /\ IF guilty
       THEN /\ Guilty(c)
            /\ retired' = [ts EXCEPT ![c] = added[c]]
            /\ synced' = [synced EXCEPT ![c] = added[c]]
            /\ hwq' = [hwq EXCEPT ![c] = <<>>]
       ELSE /\ NotGuilty
            /\ retired' = ts /\ UNCHANGED synced
            /\ hwq' = IF forced THEN [hwq EXCEPT ![c] = Tail(@)] ELSE hwq

Bug_RequeuesWork == pending' = FALSE

RequeuesWork == pending' = TRUE

Recover ==
    /\ holder = "free" /\ pending /\ fault
    /\ RequeuesWork /\ RunDone
    /\ \/ /\ awake /\ culprit' = None
          /\ \E guilty \in BOOLEAN, forced \in BOOLEAN :
                /\ guilty => Found
                /\ \/ "hard" \in Resets /\ HardReset(guilty, forced)
                   \/ "soft" \in Resets /\ SoftReset(guilty, forced)
          /\ gmu' = "runs" /\ fault' = FALSE /\ news' = {}
       \/ /\ awake /\ culprit' = None /\ "none" \in Resets   \* no reset
          /\ \E guilty \in BOOLEAN :
                IF guilty /\ Found
                THEN /\ Guilty(culprit[1])
                     /\ retired' = [retired EXCEPT ![culprit[1]] = added[culprit[1]]]
                ELSE NotGuilty /\ UNCHANGED retired
          /\ UNCHANGED <<list, inflight, big, hwq, synced, gmu, fault, news>>
       \/ /\ ~awake
          /\ UNCHANGED <<state, queue, retired, synced, list, inflight, big, hw>>
    /\ UNCHANGED <<script, hwFence, added, fast, skip, thread, expired, signalled, owed, lists, runs,
                   powered, active, gate, votes, awake, pm, halt, bounds>>

-----------------------------------------------------------------------------
(* The GMU and the thread that reads its messages.                         *)

\* The head of a queue is executed; its end is a message and an interrupt,
\* which queues the worker
Execute(c) ==
    LET o == <<c, Head(hwq[c])>> IN
    /\ gmu = "runs" /\ hwq[c] # <<>>
    /\ o \in Syncs => o \in signalled
    /\ hwq' = [hwq EXCEPT ![c] = Tail(@)]
    /\ IF o \in Syncs
       THEN /\ synced' = [synced EXCEPT ![c] = o[2]]
            /\ UNCHANGED <<retired, news, pending>>
       ELSE /\ retired' = [retired EXCEPT ![c] = o[2]]
            /\ news' = news \cup {"retire"} /\ pending' = TRUE
            /\ UNCHANGED synced
    /\ UNCHANGED <<ctxs, queue, expired, signalled, owed, lists, runs, books, gmu,
                   fault, culprit, power, bounds>>

\* A command hangs: the GMU stops and says so
Hang(c) ==
    /\ May("hang") /\ Spend /\ gmu = "runs" /\ hwq[c] # <<>>
    /\ Kind(<<c, Head(hwq[c])>>) \in {"cmd", "big"}
    /\ gmu' = "stuck" /\ news' = news \cup {"bad"} /\ pending' = TRUE
    /\ culprit' = <<c, Head(hwq[c])>>
    /\ UNCHANGED <<ctxs, queue, stamps, lists, runs, books, hwq, fault, power>>

\* The watchdog of the GMU bites
Watchdog ==
    /\ May("watchdog") /\ Spend /\ awake /\ gmu = "runs"
    /\ gmu' = "stuck" /\ fault' = TRUE /\ pending' = TRUE
    /\ UNCHANGED <<ctxs, queue, stamps, lists, runs, books, hwq, news, culprit, power>>

\* gen7_hwsched_process_msgq
ReadNews ==
    /\ news # {} /\ news' = {}
    /\ pending' = TRUE
    /\ fault' = (fault \/ "bad" \in news)
    /\ UNCHANGED <<ctxs, queue, stamps, lists, runs, books, hwq, gmu, culprit, power,
                   bounds>>

-----------------------------------------------------------------------------
(* Fences, detached contexts, slumber and system suspend.                  *)

\* The callback clears the event; the context is scheduled after that
Signal(o) ==
    /\ o \in Syncs \ signalled /\ o[2] <= added[o[1]]
    /\ signalled' = signalled \cup {o} /\ owed' = owed \cup {o[1]}
    /\ UNCHANGED <<ctxs, queue, expired, retired, synced, lists, pending, runs,
                   books, hw, power, bounds>>

\* adreno_hwsched_queue_context
Schedule(c) ==
    /\ c \in owed /\ owed' = owed \ {c}
    /\ jobs' = IF state[c] \in {"detached", "gone"} THEN jobs ELSE jobs \cup {c}
    /\ pending' = TRUE
    /\ UNCHANGED <<ctxs, queue, expired, retired, synced, signalled, requeue, runs,
                   books, hw, power, bounds>>

\* adreno_drawctxt_detach empties the queue, waits for what was sent
Detach(c) ==
    /\ May("detach") /\ Spend /\ state[c] \in {"ok", "invalid"}
    /\ state' = [state EXCEPT ![c] = "detached"]
    /\ queue' = [queue EXCEPT ![c] = <<>>]
    /\ UNCHANGED <<script, hwFence, added, fast, skip, thread, stamps, lists, pending, runs, books,
                   hw, power>>

\* ... and retires the context's last timestamp
DetachEnds(c) ==
    /\ state[c] = "detached" /\ hwq[c] = <<>>
    /\ state' = [state EXCEPT ![c] = "gone"]
    /\ retired' = [retired EXCEPT ![c] = added[c]]
    /\ UNCHANGED <<script, hwFence, added, queue, fast, skip, thread, expired, synced, signalled,
                   owed, lists, pending, runs, books, hw, power, bounds>>

\* power_off: the messages left are read, and the GMU's queues are gone
\* (adreno_hwsched_unregister_contexts)
PowerOff ==
    /\ awake' = FALSE /\ hwq' = [c \in Ctx |-> <<>>] /\ gmu' = "runs"
    /\ news' = {} /\ fault' = (fault \/ "bad" \in news)
    /\ pending' = (pending \/ news # {})
    /\ UNCHANGED culprit

\* hwsched_idle_check; its timer gives the worker 80 ms, so that a fault is
\* taken care of before
Slumber ==
    /\ awake /\ votes = 0 /\ ~fault /\ holder # "inline"
    /\ PowerOff
    /\ UNCHANGED <<ctxs, queue, stamps, lists, runs, list, inflight, big,
                   powered, active, gate, votes, power, bounds>>

\* adreno_drain shuts the gate of the submissions ...
SuspendStarts ==
    /\ May("suspend") /\ Spend /\ pm = "on"
    /\ pm' = "drain"
    /\ UNCHANGED <<ctxs, queue, stamps, lists, pending, runs, books, hw, halt, flush>>

\* ... adreno_hwsched_start opens it
Starts == pm' = "on" /\ pending' = TRUE

\* hwsched_idle: nothing more is sent, and the worker is flushed
SuspendHalts ==
    /\ pm = "drain" /\ votes = 0
    /\ IF awake
       THEN /\ pm' = "flush" /\ halt' = halt + 1
            /\ flush' = (IF pending THEN 1 ELSE 0) + (IF holder = "work" THEN 1 ELSE 0)
       ELSE pm' = "suspended" /\ halt' = halt + 1 /\ UNCHANGED flush
    /\ UNCHANGED <<ctxs, queue, stamps, lists, pending, runs, books, hw, bounds>>

DrainFails ==
    /\ pm = "drain" /\ votes > 0 /\ Starts
    /\ UNCHANGED <<ctxs, queue, stamps, lists, runs, books, hw, halt, flush, bounds>>

SuspendFlushed ==
    /\ pm = "flush" /\ flush = 0 /\ ~fault
    /\ pm' = "gate"
    /\ UNCHANGED <<ctxs, queue, stamps, lists, pending, runs, books, hw, halt, flush,
                   bounds>>

\* hw_isidle: the GPU executes nothing
Busy(c) == hwq[c] # <<>> /\ <<c, Head(hwq[c])>> \notin Syncs \ signalled
HwIdle == gmu = "runs" /\ {c \in Ctx : Busy(c)} = {}

\* A fault or a timeout
IdleFails ==
    /\ \/ pm = "flush" /\ flush = 0 /\ fault
       \/ pm = "gate" /\ (fault \/ ~gate \/ ~HwIdle)
    /\ Starts /\ halt' = halt - 1
    /\ UNCHANGED <<ctxs, queue, stamps, lists, runs, books, hw, flush, bounds>>

\* The GPU is idle; power goes off unless someone else has a vote
IdleEnds ==
    /\ pm = "gate" /\ gate /\ ~fault /\ HwIdle
    /\ IF votes > 0 THEN Starts /\ halt' = halt - 1 /\ UNCHANGED <<awake, hw>>
       ELSE pm' = "suspended" /\ PowerOff /\ UNCHANGED halt
    /\ UNCHANGED <<ctxs, queue, stamps, lists, runs, list, inflight, big, powered,
                   active, gate, votes, flush, bounds>>

Resume ==
    /\ pm = "suspended" /\ halt' = halt - 1 /\ Starts
    /\ UNCHANGED <<ctxs, queue, stamps, lists, runs, books, hw, flush, bounds>>

-----------------------------------------------------------------------------

Submit == \E c \in Ctx : Enter(c) \/ Refused(c) \/ FastMarker(c) \/ Queue(c) \/ Issue(c)

Pass ==
    \/ \E c \in Ctx : Drop(c) \/ Consider(c) \/ Pop(c)
    \/ SendAborts \/ SendUnpowered \/ SendFails \/ Send
    \/ InlineEnds \/ WorkEnds

Work == WorkStarts \/ Recover

Gmu == \E c \in Ctx : Execute(c)

Accident == (\E c \in Ctx : Hang(c) \/ Detach(c)) \/ Watchdog \/ SuspendStarts

Fences == (\E o \in Obj : Signal(o)) \/ \E c \in Ctx : Schedule(c)

Ends == \E c \in Ctx : DetachEnds(c)

Suspend ==
    \/ SuspendHalts \/ DrainFails \/ SuspendFlushed \/ IdleEnds \/ IdleFails
    \/ Resume

Next ==
    \/ Submit \/ Pass \/ Work \/ Gmu \/ ReadNews \/ Accident \/ Fences \/ Ends
    \/ Slumber \/ Suspend

Spec == Init /\ [][Next]_vars

(* The holder of the mutex runs; so do the other threads, the GMU executes  *)
(* what is not stuck, fences signal and a suspended system resumes, each of *)
(* which is a finite number of steps.  Accidents and slumber need not be.   *)
Others == Submit \/ Gmu \/ ReadNews \/ Fences \/ Ends \/ Suspend

FairSpec == Spec /\ WF_vars(Pass \/ Work) /\ WF_vars(Others)

-----------------------------------------------------------------------------
(* What the scheduler promises.                                             *)

Pending(c) == {i \in 1 .. added[c] : i \in Elems(queue[c]) \cup Elems(hwq[c])}
              \cup {i \in 1 .. added[c] : hand = <<c, i>>}

(* The variables have their types.                                          *)
TypeOK ==
    /\ hwFence \in BOOLEAN /\ \A c \in Ctx : added[c] \in 0 .. Len(script[c])
    /\ \A c \in Ctx : Elems(queue[c]) \cup Elems(hwq[c]) \subseteq 1 .. added[c]
    /\ fast \cup skip \cup expired \cup signalled \cup Elems(list) \subseteq Obj
    /\ state \in [Ctx -> {"ok", "invalid", "detached", "gone"}]
    /\ thread \in [Ctx -> {"idle", "past", "added", "sending"}]
    /\ owed \cup jobs \cup requeue \cup taken \subseteq Ctx
    /\ holder \in {"free", "work", "inline"} /\ from \in Ctx \cup {0}
    /\ {hand, big, culprit} \subseteq Obj \cup {None}
    /\ {pending, sent, powered, active, gate, awake, fault, refused} \subseteq BOOLEAN
    /\ inflight \in Nat /\ votes \in 0 .. 1 /\ halt \in 0 .. 1 /\ flush \in 0 .. 2
    /\ gmu \in {"runs", "stuck"} /\ news \subseteq {"retire", "bad"}
    /\ pm \in {"on", "drain", "flush", "gate", "suspended"} /\ left \in Nat

(* hwsched->inflight, the vote for power, ADRENO_HWSCHED_POWER and _ACTIVE, *)
(* the idle gate and big_cmdobj agree with cmd_list, through failed sends,  *)
(* retirement and recovery.                                                 *)
ListAgrees ==
    /\ inflight = Len(list)
    /\ votes = IF powered THEN 1 ELSE 0
    /\ inflight > 0 => powered /\ active
    /\ active = ~gate
    /\ {o \in Elems(list) : Kind(o) = "big"} = {big} \ {None}

(* The GMU has, in the order of submission and once each, the listed objects*)
(* that have not retired; nothing retires that is still queued or running.  *)
GmuHasTheList ==
    \A c \in Ctx :
        /\ \A i, j \in DOMAIN hwq[c] : i < j => hwq[c][i] < hwq[c][j]
        /\ \A i \in Elems(queue[c]), j \in Elems(hwq[c]) : i > j
        /\ state[c] = "ok" =>
            /\ {o \in Elems(list) : o[1] = c /\ ~Retired(o)} = {c} \X Elems(hwq[c])
            /\ \A i \in Pending(c) :
                   <<c, i>> \in Stamped \ expired => i > retired[c]

\* Nobody is about to run the scheduler
Quiet ==
    /\ holder = "free" /\ ~pending /\ news = {} /\ owed = {} /\ pm = "on"
    /\ \A c \in Ctx : thread[c] \in {"idle", "past"} /\ hwq[c] = <<>>

(* When nobody is about to run the scheduler and the GMU has nothing left,  *)
(* no context has anything it could send, unless power was refused.         *)
NothingForgotten ==
    Quiet => /\ ~fault
             /\ \A c \in Ctx :
                    queue[c] = <<>> \/ refused
                    \/ <<c, Head(queue[c])>> \in Syncs \ signalled

(* A suspended system has nothing on the GPU and no vote, however late a    *)
(* submission, a fence callback or a pass came that began before.           *)
IdleMeansDrained ==
    pm = "suspended" => /\ votes = 0 /\ inflight = 0 /\ ~awake
                        /\ \A c \in Ctx : hwq[c] = <<>>

(* The scheduler's records are right at every step, and empty in suspend.   *)
RecordsAgree == TypeOK /\ ListAgrees /\ IdleMeansDrained

(* Every timestamp given out retires in the end, and a fault is recovered.  *)
EveryObjectRetires ==
    <>[](~fault /\ (refused \/ \A o \in Stamped :
                        added[o[1]] >= o[2] => retired[o[1]] >= o[2]))

\* All that is listed has retired, and not with a message of the GMU
Lingers == list # <<>> /\ \A o \in Elems(list) : Retired(o) /\ o \in expired \cup Syncs

(* The vote for power is given back in the end, unless an object lingers.   *)
VoteReleased == <>[](~powered \/ Lingers)

(* Work ends: what is queued retires, and then the GPU may power down.      *)
AllEnds == EveryObjectRetires /\ VoteReleased

(* A fault is recovered from.                                               *)
GpuRecovers == <>[]~fault

(* A retired timestamp stays retired.                                       *)
TimestampsStay == [][\A c \in Ctx : retired'[c] >= retired[c]]_vars

=============================================================================
