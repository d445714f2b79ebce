------------------------------ MODULE PageLoop -------------------------------
(***************************************************************************)
(* JsRuntime driving the EventLoop (src/src/js_runtime.cpp): the turn, the *)
(* microtask checkpoint, run_until_idle and run_until_ready with the       *)
(* PageActivityTracker, over the JS shim's task and frame registries       *)
(* (src/src/dom_shim/40_web.js). The embedder calls in at pc = "out".      *)
(* The loads are those of fetch() and of dynamic scripts; XMLHttpRequest   *)
(* and the loads of elements are left out.                                 *)
(*                                                                         *)
(* Everything is one thread, so pc says who runs: the embedder, JS, libuv  *)
(* callbacks, or a step of the driver. Time passes while JS runs, while    *)
(* uv_run sleeps and between calls; the driver's own steps take none.      *)
(***************************************************************************)
EXTENDS EventLoop, FiniteSets

CONSTANTS
    Net,             \* the What of a network completion
    Calls,           \* the runs the embedder asks for: "idle" and WaitUntil values
    WaitTime,        \* options.wait_time
    Window,          \* options.stable_window
    Delays,          \* effective delays of the timers JS schedules
    MaxIterations,   \* kMaxIdleIterations, kMaxReadinessIterations
    MaxRounds,       \* kMaxCheckpointIterations
    MaxTransfers,    \* bound: marks raised and completions dropped at once
    MaxObserved      \* bound: observer deliveries counted at once

ASSUME PageLoopAssumption ==
    /\ What = Ids \cup {Net}
    /\ Net \notin Ids
    /\ Calls \subseteq {"idle", "load", "network-idle", "dom-stable", "ready"}
    /\ WaitTime \in Nat
    /\ Window \in Nat
    /\ Delays \subseteq Nat
    /\ MaxIterations \in Nat \ {0}
    /\ MaxRounds \in Nat \ {0}
    /\ MaxTransfers \in Nat
    /\ MaxObserved \in Nat

VARIABLES
    registry,        \* taskRegistry: what clearTimeout has not removed yet
    rafs,            \* rafRegistry
    jobs,            \* promise jobs are pending in QuickJS
    flush,           \* mutationFlushQueued: records wait for delivery
    observing,       \* pending_mutation_observers_ of the tracker
    net,             \* its counters of fetch and dynamic scripts: the marks raised
    owed,            \* the marks the running JS gives back before it returns
    loads,           \* loads with a mark and no transfer, and completions dropped
    tracker,         \* last_mutation_clock_, and whether mutation_version_ is current
    changedAt,       \* history: when the DOM really changed last
    timedOut,        \* history: js_timeout interrupted some JS
    guarded,         \* deadline_active_: js_timeout can interrupt JS
    pc,              \* who runs
    ctx,             \* where the JS that runs was called from
    after,           \* where checkpoint or uv_run returns to
    drv              \* locals of run_until_idle / run_until_ready

counterVars == <<observing, net, owed, loads>>
jsVars == <<registry, rafs, jobs, flush, counterVars>>
domVars == <<tracker, changedAt, timedOut>>
pcVars == <<pc, ctx, after>>
vars == <<loopVars, jsVars, domVars, guarded, pcVars, drv>>

Call == Calls \cup {"none"}
Entry == [interval : BOOLEAN, relevant : BOOLEAN]
\* answered: promise jobs wait that will lower the mark. waiting: async=false
\* scripts that wait their turn. lost: no code is left to lower the mark, abort
\* apart. dropped: completions in the queue whose load was aborted.
Loads == [answered : Nat, waiting : Nat, lost : Nat, dropped : Nat]
Driver == [call : Call, deadline : Nat, wakeAt : Nat, iter : Nat,
           rounds : Nat, ran : BOOLEAN, batch : Seq(Ids)]

ShimTypeOK ==
    /\ DOMAIN registry \subseteq Ids
    /\ registry \in [DOMAIN registry -> Entry]
    /\ rafs \subseteq Ids
    /\ jobs \in BOOLEAN
    /\ flush \in BOOLEAN

TrackerTypeOK ==
    /\ observing \in Nat
    /\ net \in Nat
    /\ owed \in [net : Nat, observing : Nat]
    /\ loads \in Loads
    /\ tracker \in [last : Nat, synced : BOOLEAN]
    /\ changedAt \in Nat
    /\ timedOut \in BOOLEAN

ControlTypeOK ==
    /\ guarded \in BOOLEAN
    /\ pc \in {"out", "js", "raf", "uv", "check", "begin", "turn", "task", "frame",
               "turnEnd", "loop", "poll", "judge", "sleep", "dead"}
    /\ ctx \in {"eval", "task", "frame", "check"}
    /\ after \in {"out", "begin", "frame", "turnEnd", "poll",
                  "task", "judge", "turn", "loop"}
    /\ drv \in Driver

TypeOK == QueueTypeOK /\ TimersTypeOK /\ ShimTypeOK /\ TrackerTypeOK /\ ControlTypeOK

\* The locals of a run that is not under way.
NoRun == [call |-> "none", deadline |-> 0, wakeAt |-> 0, iter |-> 0,
          rounds |-> 0, ran |-> FALSE, batch |-> <<>>]

NothingOwed == [net |-> 0, observing |-> 0]

Init ==
    /\ QueueInit
    /\ TimersInit
    /\ registry = [i \in {} |-> 0]
    /\ rafs = {}
    /\ jobs = FALSE
    /\ flush = FALSE
    /\ observing = 0
    /\ net = 0
    /\ owed = NothingOwed
    /\ loads = [answered |-> 0, waiting |-> 0, lost |-> 0, dropped |-> 0]
    /\ tracker = [last |-> 0, synced |-> TRUE]
    /\ changedAt = 0
    /\ timedOut = FALSE
    /\ guarded = FALSE
    /\ pc = "out"
    /\ ctx = "eval"
    /\ after = "out"
    /\ drv = NoRun

Earlier(a, b) == IF a < b THEN a ELSE b
IsLeast(n, S) == n \in S /\ \A m \in S : n <= m

\* An id nothing mentions any more stands for one nextTaskId has yet to hand out.
Fresh(i) ==
    /\ i \notin DOMAIN registry \cup DOMAIN timers \cup rafs
    /\ ~Contains(frames, i)
    /\ ~Contains(drv.batch, i)
    /\ \A k \in 1..Len(tasks) : tasks[k].what # i

-----------------------------------------------------------------------------
(* Calls by the embedder. *)

\* Page::eval (JsRuntime::evaluate)
EvalJs ==
    /\ pc = "out"
    /\ pc' = "js" /\ ctx' = "eval" /\ after' = "out"
    /\ guarded' = TRUE
    /\ UNCHANGED <<loopVars, jsVars, domVars, drv>>

\* Page::document() hands the embedder the DOM: its changes bypass the shim.
EmbedderMutates ==
    /\ pc = "out"
    /\ tracker' = [tracker EXCEPT !.synced = FALSE]
    /\ changedAt' = now
    /\ UNCHANGED <<loopVars, jsVars, timedOut, guarded, pcVars, drv>>

StartRun(call) ==
    /\ pc = "out"
    /\ call \in Calls
    /\ now + WaitTime <= MaxNow
    /\ drv' = [NoRun EXCEPT !.call = call, !.deadline = now + WaitTime]
    /\ guarded' = TRUE
    /\ UNCHANGED <<loopVars, jsVars, domVars, ctx>>

\* JsRuntime::run_until_idle: a checkpoint, then the budget starts.
RunUntilIdle == StartRun("idle") /\ pc' = "check" /\ after' = "begin"

\* JsRuntime::run_until_ready
RunUntilReady(goal) == StartRun(goal) /\ pc' = "loop" /\ UNCHANGED after

\* ~JsRuntime: the async loader aborts its transfers, then the loop goes.
Destroy ==
    /\ pc = "out"
    /\ pc' = "dead"
    /\ Shutdown
    /\ UNCHANGED <<clockVars, jsVars, domVars, guarded, ctx, after, drv>>

-----------------------------------------------------------------------------
(* What JS may do while it runs. *)

InJs == pc = "js"

\* queueTask with an effective delay: a zero-delay one-shot is queued at
\* once, anything else goes through a libuv timer. js_timeout may also cut JS
\* between the registry and the host's call, here and in the three calls below;
\* these cuts are left out.
SetTask(i, delay, interval, relevant) ==
    /\ InJs
    /\ Fresh(i)
    /\ interval => relevant
    /\ registry' = With(registry, i, [interval |-> interval, relevant |-> relevant])
    /\ IF ~interval /\ delay = 0
       THEN Post([what |-> i, relevant |-> relevant]) /\ UNCHANGED timerVars
       ELSE ScheduleTimer(i, delay, interval, relevant /\ ~interval)
            /\ UNCHANGED queueVars
    /\ UNCHANGED <<clockVars, rafs, jobs, flush, counterVars, domVars, guarded, pcVars, drv>>

\* clearTask
ClearTask(i) ==
    /\ InJs
    /\ i \in DOMAIN registry
    /\ registry' = Without(registry, i)
    /\ CancelTimer(i)
    /\ UNCHANGED <<queueVars, clockVars, rafs, jobs, flush, counterVars, domVars, guarded, pcVars, drv>>

\* requestAnimationFrameShim
RequestAnimationFrame(i) ==
    /\ InJs
    /\ Fresh(i)
    /\ rafs' = rafs \cup {i}
    /\ RequestFrame(i)
    /\ UNCHANGED <<queueVars, clockVars, registry, jobs, flush, counterVars, domVars, guarded, pcVars, drv>>

\* cancelAnimationFrameShim
CancelAnimationFrame(i) ==
    /\ InJs
    /\ i \in rafs
    /\ rafs' = rafs \ {i}
    /\ CancelFrame(i)
    /\ UNCHANGED <<queueVars, clockVars, registry, jobs, flush, counterVars, domVars, guarded, pcVars, drv>>

\* A shim mutation: afterMutation marks it at the loop's clock; with a
\* MutationObserver alive (observed) a flush is queued, whether or not a record
\* matched, and queueing it counts as a pending mutation observer.
MutateDom(observed) ==
    /\ InJs
    /\ tracker' = [last |-> now, synced |-> TRUE]
    /\ changedAt' = now
    /\ IF observed /\ ~flush
       THEN /\ observing < MaxObserved
            /\ flush' = TRUE
            /\ observing' = observing + 1
       ELSE UNCHANGED <<flush, observing>>
    /\ UNCHANGED <<loopVars, registry, rafs, jobs, net, owed, loads, timedOut, guarded, pcVars, drv>>

\* queueMicrotask, or a promise reaction.
QueueJob ==
    /\ InJs
    /\ jobs' = TRUE
    /\ UNCHANGED <<loopVars, registry, rafs, flush, counterVars, domVars, guarded, pcVars, drv>>

Landed == {k \in 1..Len(tasks) : tasks[k].what = Net}
Live == Minus(Cardinality(Landed), loads.dropped)

\* The next async=false script starts when the one before it is done, and no
\* script's load is aborted: none waits for nothing, unless js_timeout cut
\* drainOrderedDynamicScripts short.
NoScriptStranded ==
    loads.waiting > 0 /\ ~timedOut => external + Live + loads.answered + owed.net > 0

loadVars == <<timerVars, clockVars, registry, rafs, flush, observing,
              domVars, guarded, pcVars, drv>>

\* loadHostResourceAsync: a transfer starts, or a task is queued that answers the
\* load (the cache, a data: URL, the task-queue adapter), or the policy or a budget
\* refuses it and the rejection's reactions are queued.
LoadStarts(held) ==
    \/ BeginExternalWork /\ loads' = held /\ UNCHANGED jobs
    \/ Post([what |-> Net, relevant |-> TRUE]) /\ loads' = held /\ UNCHANGED jobs
    \/ jobs' = TRUE /\ loads' = [held EXCEPT !.answered = @ + 1] /\ UNCHANGED queueVars

\* activityBegin of fetch or of a dynamic script.
RaisesMark == InJs /\ net + loads.dropped < MaxTransfers /\ net' = net + 1

\* fetch, or a dynamic script whose load starts at once.
StartLoad ==
    /\ RaisesMark
    /\ LoadStarts(loads)
    /\ UNCHANGED <<owed, loadVars>>

\* fetch: the conversion of the body throws after activityBegin.
BodyThrows ==
    /\ RaisesMark
    /\ loads' = [loads EXCEPT !.lost = @ + 1]
    /\ UNCHANGED <<queueVars, jobs, owed, loadVars>>

\* An async=false script behind another one.
ScriptWaits ==
    /\ RaisesMark
    /\ loads' = [loads EXCEPT !.waiting = @ + 1]
    /\ UNCHANGED <<queueVars, jobs, owed, loadVars>>
    /\ NoScriptStranded'

\* onDone of an async=false script: its mark is lowered and the next one starts.
ScriptTurn ==
    /\ InJs
    /\ owed.net > 0
    /\ loads.waiting > 0
    /\ owed' = [owed EXCEPT !.net = @ - 1]
    /\ net' = Minus(net, 1)
    /\ LoadStarts([loads EXCEPT !.waiting = @ - 1])
    /\ UNCHANGED loadVars

\* The reaction of fetch to its load throws: a response header is not one the
\* Headers class accepts, and settle is never called.
ReactionBreaks ==
    /\ InJs
    /\ owed.net > 0
    /\ owed' = [owed EXCEPT !.net = @ - 1]
    /\ loads' = [loads EXCEPT !.lost = @ + 1]
    /\ UNCHANGED <<queueVars, jobs, net, loadVars>>
    /\ NoScriptStranded'

\* The abort listener of fetch lowers the mark of a load that is in flight, queued,
\* answered (before its reaction or within it) or broken.
Abort ==
    /\ InJs
    /\ net' = Minus(net, 1)
    /\ \/ /\ external > 0
          /\ external' = ExternalAfterEnd
          /\ UNCHANGED <<tasks, shutDown, owed, loads>>
       \/ /\ Live > 0
          /\ loads' = [loads EXCEPT !.dropped = @ + 1]
          /\ UNCHANGED <<queueVars, owed>>
       \/ /\ loads.answered > 0
          /\ loads' = [loads EXCEPT !.answered = @ - 1]
          /\ UNCHANGED <<queueVars, owed>>
       \/ /\ owed.net > 0
          /\ owed' = [owed EXCEPT !.net = @ - 1]
          /\ UNCHANGED <<queueVars, loads>>
       \/ /\ loads.lost > 0
          /\ loads' = [loads EXCEPT !.lost = @ - 1]
          /\ UNCHANGED <<queueVars, owed>>
    /\ UNCHANGED <<jobs, loadVars>>
    /\ NoScriptStranded'

\* JS runs to its end, the activityEnd in its finally block or settle function
\* included. A checkpoint follows, after the last callback in a frame.
JsReturns ==
    /\ InJs
    /\ pc' = IF ctx = "frame" THEN "raf" ELSE "check"
    /\ net' = Minus(net, owed.net)
    /\ observing' = Minus(observing, owed.observing)
    /\ owed' = NothingOwed
    /\ UNCHANGED <<loopVars, registry, rafs, jobs, flush, loads, domVars, guarded, ctx, after, drv>>
    /\ NoScriptStranded'

Leaves == pc' = "out" /\ drv' = NoRun

\* An evaluated script throws to the embedder: no checkpoint.
JsThrows ==
    /\ InJs
    /\ ctx = "eval"
    /\ guarded' = FALSE
    /\ Leaves
    /\ UNCHANGED <<loopVars, jsVars, domVars, ctx, after>>

\* js_timeout interrupts JS. No catch or finally block of the page or the shim
\* runs: of the promise jobs of one drain, ran lowered their marks, kept are still
\* queued, and the one interrupted may leave its mark up for good, as an observer
\* delivery does. The rest of a frame's callbacks is dropped. A task or a frame is
\* logged and the turn goes on to its checkpoint; a script throws to the embedder;
\* a checkpoint ends the run with jobs left. check_exception clears the deadline.
JsTimesOut(ran, kept, left) ==
    /\ InJs
    /\ guarded
    /\ ran + kept \in {Minus(owed.net, 1), owed.net}
    /\ kept > 0 => left
    /\ guarded' = FALSE
    /\ timedOut' = TRUE
    /\ net' = Minus(net, ran)
    /\ loads' = [loads EXCEPT !.answered = @ + kept,
                             !.lost = @ + Minus(owed.net, ran + kept)]
    /\ owed' = NothingOwed
    /\ IF ctx \in {"task", "frame"}
       THEN /\ pc' = "check"
            /\ drv' = [drv EXCEPT !.batch = <<>>]
            /\ UNCHANGED jobs
       ELSE Leaves /\ jobs' = (jobs \/ left)
    /\ UNCHANGED <<loopVars, registry, rafs, flush, observing, tracker, changedAt, ctx, after>>

\* The ways a time-out can end the JS that runs.
Interrupted == \E ran, kept \in 0..owed.net, left \in BOOLEAN : JsTimesOut(ran, kept, left)

JsStep ==
    \/ \E i \in Ids :
          \/ \E d \in Delays, interval, relevant \in BOOLEAN : SetTask(i, d, interval, relevant)
          \/ ClearTask(i)
          \/ RequestAnimationFrame(i)
          \/ CancelAnimationFrame(i)
    \/ \E observed \in BOOLEAN : MutateDom(observed)
    \/ QueueJob
    \/ StartLoad \/ BodyThrows \/ ScriptWaits \/ ScriptTurn \/ ReactionBreaks \/ Abort
    \/ JsReturns
    \/ JsThrows
    \/ Interrupted

-----------------------------------------------------------------------------
(* JsRuntime::run_microtask_checkpoint: drain, deliver, drain, again while   *)
(* records were delivered, at most MaxRounds times.                          *)

RunJs(from) == pc' = "js" /\ ctx' = from

\* The reactions of answered loads are among the jobs.
DrainJobs ==
    /\ pc = "check"
    /\ jobs
    /\ jobs' = FALSE
    /\ owed' = [owed EXCEPT !.net = loads.answered]
    /\ loads' = [loads EXCEPT !.answered = 0]
    /\ RunJs("check")
    /\ UNCHANGED <<loopVars, registry, rafs, flush, observing, net, domVars, guarded, after, drv>>

\* Mutant of DeliverObservers: no activityEnd follows the delivery.
MutantDeliverObservers ==
    /\ pc = "check" /\ ~jobs /\ flush /\ drv.rounds < MaxRounds
    /\ flush' = FALSE
    /\ drv' = [drv EXCEPT !.rounds = @ + 1]
    /\ RunJs("check")
    /\ UNCHANGED <<loopVars, registry, rafs, jobs, counterVars, domVars, guarded, after>>

DeliverObservers ==
    /\ pc = "check"
    /\ ~jobs
    /\ flush
    /\ drv.rounds < MaxRounds
    /\ flush' = FALSE
    /\ owed' = [owed EXCEPT !.observing = 1]
    /\ drv' = [drv EXCEPT !.rounds = @ + 1]
    /\ RunJs("check")
    /\ UNCHANGED <<loopVars, registry, rafs, jobs, observing, net, loads, domVars, guarded, after>>

\* Mutant of CheckpointDone: drain_jobs leaves the jobs that jobs have queued.
MutantCheckpointDone ==
    /\ pc = "check" /\ (flush => drv.rounds = MaxRounds)
    /\ drv' = [drv EXCEPT !.rounds = 0]
    /\ pc' = after
    /\ guarded' = (guarded /\ after # "out")
    /\ UNCHANGED <<loopVars, jsVars, domVars, ctx, after>>

CheckpointDone ==
    /\ pc = "check"
    /\ ~jobs
    /\ flush => drv.rounds = MaxRounds
    /\ drv' = [drv EXCEPT !.rounds = 0]
    /\ pc' = after
    /\ guarded' = (guarded /\ after # "out")
    /\ UNCHANGED <<loopVars, jsVars, domVars, ctx, after>>

-----------------------------------------------------------------------------
(* JsRuntime::run_event_loop_turn: poll, one task and a checkpoint, then the *)
(* frame if it is due and a checkpoint.                                      *)

\* uv_run is entered; its callbacks run, and then control is at next.
PollThen(next) ==
    /\ EnterUv
    /\ pc' = "uv"
    /\ after' = next
    /\ UNCHANGED <<queueVars, timerVars, jsVars, domVars, guarded, ctx>>

Turn ==
    /\ pc = "turn"
    /\ drv.call = "idle" => drv.iter < MaxIterations
    /\ PollThen("task")
    /\ drv' = [drv EXCEPT !.ran = FALSE]

\* A transfer completes inside uv_run.
Land ==
    /\ external > 0
    /\ LandAndPost([what |-> Net, relevant |-> TRUE])
    /\ UNCHANGED timerVars

UvCallback ==
    /\ pc = "uv"
    /\ \/ \E i \in Ids : TimerFired(i)
       \/ FrameTimerFired
       \/ Land
    /\ UNCHANGED <<clockVars, jsVars, domVars, guarded, pcVars, drv>>

UvReturns ==
    /\ pc = "uv"
    /\ UvDrained
    /\ pc' = after
    /\ UNCHANGED <<loopVars, jsVars, domVars, guarded, ctx, after, drv>>

\* completeResourceLoad: the promise is settled and its reaction queued, unless an
\* abort has dropped the load. No callback of the page runs in this task.
CompletionRuns ==
    /\ \/ /\ Live > 0
          /\ loads' = [loads EXCEPT !.answered = @ + 1]
          /\ jobs' = TRUE
       \/ /\ loads.dropped > 0
          /\ loads' = [loads EXCEPT !.dropped = @ - 1]
          /\ UNCHANGED jobs
    /\ pc' = "check"
    /\ UNCHANGED <<ctx, registry>>

\* runTask: the callback the id is registered for, nothing for a cleared id.
CallbackRuns(i) ==
    /\ IF i \in DOMAIN registry
       THEN /\ RunJs("task")
            /\ registry' = IF registry[i].interval THEN registry ELSE Without(registry, i)
       ELSE pc' = "check" /\ UNCHANGED <<ctx, registry>>
    /\ UNCHANGED <<jobs, loads>>

RunTask ==
    /\ pc = "task"
    /\ TakeTask
    /\ guarded' = TRUE
    /\ after' = "frame"
    /\ drv' = [drv EXCEPT !.ran = TRUE]
    /\ IF Head(tasks).what = Net THEN CompletionRuns ELSE CallbackRuns(Head(tasks).what)
    /\ UNCHANGED <<timerVars, clockVars, rafs, flush, observing, net, owed, domVars>>

NoTask ==
    /\ pc = "task"
    /\ tasks = <<>>
    /\ pc' = "frame"
    /\ UNCHANGED <<loopVars, jsVars, domVars, guarded, ctx, after, drv>>

\* JsRuntime::run_animation_frames
RunFrame ==
    /\ pc = "frame"
    /\ frameDue
    /\ TakeFrames
    /\ IF frames = <<>>
       THEN pc' = "turnEnd" /\ UNCHANGED <<guarded, after, drv>>
       ELSE /\ pc' = "raf"
            /\ guarded' = TRUE
            /\ after' = "turnEnd"
            /\ drv' = [drv EXCEPT !.ran = TRUE, !.batch = frames]
    /\ UNCHANGED <<queueVars, clockVars, jsVars, domVars, ctx>>

\* runAnimationFrames, one id of the batch: a callback that an earlier one
\* cancelled is skipped.
NextFrameCallback ==
    /\ pc = "raf"
    /\ drv.batch # <<>>
    /\ drv' = [drv EXCEPT !.batch = Tail(@)]
    /\ rafs' = rafs \ {Head(drv.batch)}
    /\ IF Head(drv.batch) \in rafs THEN RunJs("frame") ELSE UNCHANGED <<pc, ctx>>
    /\ UNCHANGED <<loopVars, registry, jobs, flush, counterVars, domVars, guarded, after>>

FrameEnds ==
    /\ pc = "raf"
    /\ drv.batch = <<>>
    /\ pc' = "check"
    /\ UNCHANGED <<loopVars, jsVars, domVars, guarded, ctx, after, drv>>

NoFrame ==
    /\ pc = "frame"
    /\ ~frameDue
    /\ pc' = "turnEnd"
    /\ UNCHANGED <<loopVars, jsVars, domVars, guarded, ctx, after, drv>>

-----------------------------------------------------------------------------
(* JsRuntime::run_until_idle                                                 *)

IdleBudgetStarts ==
    /\ pc = "begin"
    /\ pc' = "turn"
    /\ drv' = [drv EXCEPT !.deadline = Earlier(now + WaitTime, MaxNow)]
    /\ UNCHANGED <<loopVars, jsVars, domVars, guarded, ctx, after>>

IdleIterationsSpent ==
    /\ pc = "turn"
    /\ drv.call = "idle"
    /\ drv.iter >= MaxIterations
    /\ guarded' = FALSE
    /\ Leaves
    /\ UNCHANGED <<loopVars, jsVars, domVars, ctx, after>>

\* wait_for_activity: uv_run is entered and sleeps.
SleepFor(wait) ==
    /\ pc' = "sleep"
    /\ \E d \in Alarms \cup {wait} :
          /\ IsLeast(d, Alarms \cup {wait})
          /\ drv' = [drv EXCEPT !.wakeAt = Earlier(now + d, MaxNow),
                                !.iter = IF drv.call = "idle" THEN @ + 1 ELSE @]

\* Mutant of TurnEnds: turns that ran something do not count.
MutantTurnEnds ==
    /\ pc = "turnEnd"
    /\ CASE drv.call # "idle" -> pc' = "loop" /\ UNCHANGED <<guarded, drv>>
         [] drv.call = "idle" /\ drv.ran -> pc' = "turn" /\ UNCHANGED <<guarded, drv>>
         [] drv.call = "idle" /\ ~drv.ran /\ (Idle \/ now >= drv.deadline) ->
                guarded' = FALSE /\ Leaves
         [] OTHER -> SleepFor(drv.deadline - now) /\ UNCHANGED guarded
    /\ UNCHANGED <<loopVars, jsVars, domVars, ctx, after>>

TurnEnds ==
    /\ pc = "turnEnd"
    /\ CASE drv.call # "idle" -> pc' = "loop" /\ UNCHANGED <<guarded, drv>>
         [] drv.call = "idle" /\ drv.ran ->
                pc' = "turn" /\ drv' = [drv EXCEPT !.iter = @ + 1] /\ UNCHANGED guarded
         [] drv.call = "idle" /\ ~drv.ran /\ (Idle \/ now >= drv.deadline) ->
                guarded' = FALSE /\ Leaves
         [] OTHER -> SleepFor(drv.deadline - now) /\ UNCHANGED guarded
    /\ UNCHANGED <<loopVars, jsVars, domVars, ctx, after>>

\* The sleep ends at its alarm, or as soon as a socket is ready.
WakeUp ==
    /\ pc = "sleep"
    /\ now >= drv.wakeAt \/ external > 0
    /\ PollThen(IF drv.call = "idle" THEN "turn" ELSE "loop")
    /\ drv' = [drv EXCEPT !.wakeAt = 0]

-----------------------------------------------------------------------------
(* JsRuntime::run_until_ready                                                *)

ReadyIteration ==
    /\ pc = "loop"
    /\ pc' = "check"
    /\ after' = "poll"
    /\ drv' = [drv EXCEPT !.iter = @ + 1]
    /\ UNCHANGED <<loopVars, jsVars, domVars, guarded, ctx>>

ReadyPoll ==
    /\ pc = "poll"
    /\ PollThen("judge")
    /\ UNCHANGED drv

\* Mutant of TrackerAtJudge: the document's mutation version is not consulted.
MutantTrackerAtJudge == tracker

\* set_clock, then sync_mutation_version: a change nobody marked counts as made now.
TrackerAtJudge ==
    [last |-> IF tracker.synced THEN tracker.last ELSE now, synced |-> TRUE]

DomStable(t) == Window = 0 \/ now - t.last >= Window
NetworkIdle == net = 0 /\ NothingRelevantPending(Window)

\* JsRuntime::readiness_satisfied, after the load event.
Satisfied(t) ==
    /\ observing = 0
    /\ CASE drv.call = "load" -> TRUE
         [] drv.call = "network-idle" -> NetworkIdle
         [] drv.call = "dom-stable" -> NothingRelevantPending(Window) /\ (Quiescent \/ DomStable(t))
         [] drv.call = "ready" -> NetworkIdle /\ (Quiescent \/ DomStable(t))

BudgetSpent == WaitTime = 0 \/ drv.iter >= MaxIterations \/ now >= drv.deadline

\* The sleeps run_until_ready takes the shortest of.
Advances(t) ==
    WakeUpDelays \cup
        (IF drv.call \in {"dom-stable", "ready"} /\ ~DomStable(t)
         THEN {Minus(Window, now - t.last)} ELSE {})

Judging == pc = "judge" /\ tracker' = TrackerAtJudge
                        /\ UNCHANGED <<loopVars, jsVars, changedAt, timedOut, ctx, after>>

ReadyVerdict ==
    /\ Judging
    /\ Satisfied(tracker')
    /\ guarded' = FALSE
    /\ Leaves

NotReadyVerdict ==
    /\ Judging
    /\ ~Satisfied(tracker')
    /\ BudgetSpent \/ (~HasReadyTask /\ ~frameDue /\ Advances(tracker') = {} /\ Idle)
    /\ guarded' = FALSE
    /\ Leaves

ReadyTurn ==
    /\ Judging
    /\ ~Satisfied(tracker')
    /\ ~BudgetSpent
    /\ HasReadyTask \/ frameDue
    /\ pc' = "turn"
    /\ UNCHANGED <<guarded, drv>>

ReadySleep ==
    /\ Judging
    /\ ~Satisfied(tracker')
    /\ ~BudgetSpent
    /\ ~HasReadyTask /\ ~frameDue
    /\ Advances(tracker') # {} \/ ~Idle
    /\ \E wait \in Advances(tracker') \cup {drv.deadline - now} :
          /\ IsLeast(wait, Advances(tracker') \cup {drv.deadline - now})
          /\ SleepFor(AtLeastOne(wait))
    /\ UNCHANGED guarded

-----------------------------------------------------------------------------
ClockTick ==
    /\ pc \in {"out", "js", "sleep"}
    /\ Tick
    /\ UNCHANGED <<queueVars, timerVars, jsVars, domVars, guarded, pcVars, drv>>

DriverStep ==
    \/ DrainJobs \/ DeliverObservers \/ CheckpointDone
    \/ Turn \/ UvCallback \/ UvReturns
    \/ RunTask \/ NoTask
    \/ RunFrame \/ NextFrameCallback \/ FrameEnds \/ NoFrame
    \/ IdleBudgetStarts \/ IdleIterationsSpent \/ TurnEnds \/ WakeUp
    \/ ReadyIteration \/ ReadyPoll
    \/ ReadyVerdict \/ NotReadyVerdict \/ ReadyTurn \/ ReadySleep

EmbedderStep ==
    \/ EvalJs
    \/ EmbedderMutates
    \/ RunUntilIdle
    \/ \E goal \in Calls \ {"idle"} : RunUntilReady(goal)
    \/ Destroy

Next == EmbedderStep \/ JsStep \/ DriverStep \/ ClockTick

Spec == Init /\ [][Next]_vars

\* The driver and the clock never stop; JS may run forever, but while the
\* deadline is active the interrupt handler ends it.
JsIsInterrupted ==
    \/ []<>(pc \notin {"js", "raf", "check"})
    \/ <>[]~guarded
    \/ []<><<Interrupted>>_vars

LiveSpec == Spec /\ WF_vars(DriverStep) /\ WF_vars(ClockTick) /\ JsIsInterrupted

-----------------------------------------------------------------------------
(* Invariants. *)

NowhereIn(q, i) == \A k \in 1..Len(q) : q[k].what # i

OnceIn(q, i) ==
    \E k \in 1..Len(q) : q[k].what = i /\ \A j \in 1..Len(q) : q[j].what = i => j = k

\* A callback the shim still holds is never lost and never runs twice: a
\* one-shot waits either for its armed timer or for its one queued task, never
\* both; an interval keeps its timer; no timer outlives its callback
\* (queueTask, clearTask, runTask against schedule_timer, timer_fired).
CallbackIsBacked ==
    ~shutDown =>
        /\ DOMAIN timers \subseteq DOMAIN registry
        /\ \A i \in DOMAIN timers : timers[i].repeat = registry[i].interval
        /\ \A i \in DOMAIN registry \ DOMAIN timers :
              ~registry[i].interval /\ OnceIn(tasks, i)
        /\ \A i \in DOMAIN timers : ~registry[i].interval => NowhereIn(tasks, i)

\* A requested frame always has a frame timer armed or a frame due, every id
\* waiting in the loop has its callback, and no callback is stranded outside
\* the waiting list and the batch being run, unless a time-out cut a batch short.
FramesBacked ==
    ~shutDown =>
        /\ frames # <<>> => frameTimer.armed \/ frameDue
        /\ \A k \in 1..Len(frames) : frames[k] \in rafs
        /\ ~timedOut => \A i \in rafs : Contains(frames, i) \/ Contains(drv.batch, i)

\* The tracker's counters are the work they stand for, so readiness cannot miss
\* any: a mark for each load in flight, queued, answered or waiting its turn, and
\* for each delivery of records. Nothing else holds one up but what the code never
\* gives back: a fetch whose body or Response throws, and what a time-out cut.
CountersCoverWork ==
    ~shutDown =>
        LET working == external + Live + loads.answered + owed.net + loads.waiting
            deliveries == (IF flush THEN 1 ELSE 0) + owed.observing
        IN  /\ net = working + loads.lost
            /\ observing >= deliveries
            /\ ~timedOut => observing = deliveries

-----------------------------------------------------------------------------
(* Action properties. *)

\* Promise jobs queued by one task run before the next task or frame starts:
\* every path from JS to a macrotask goes through a drained checkpoint.
NoJobWaitsForATask == [][RunTask \/ RunFrame => ~jobs]_vars

RelevantTimerDue ==
    \E i \in DOMAIN registry :
        registry[i].relevant /\ ~registry[i].interval
            /\ i \in DOMAIN timers /\ timers[i].due <= now + Window

\* A page is reported ready only if it is: no job or mutation record waits; for
\* the network goals no transfer is in flight or landed unseen and no relevant
\* timeout is queued or due within the window; for the stability goals the DOM
\* has really not changed for the window, or nothing is left that could change it.
ReadySound ==
    [][ReadyVerdict =>
        /\ ~jobs /\ ~flush
        /\ drv.call \in {"network-idle", "ready"} =>
              external = 0 /\ Landed = {} /\ ~RelevantTimerDue
        /\ drv.call \in {"dom-stable", "ready"} => Quiescent \/ now - changedAt >= Window]_vars

\* Readiness is refused only for a reason: a time-out leaked a counter, a fetch
\* that broke left its mark up, the checkpoint hit its cap, relevant work is
\* pending, or the DOM is not known to be stable. Intervals, frames, aborted loads
\* and scripts that wait their turn alone never hold it open, and a page that is
\* quiescent and whole is ready at once.
NotReadyHasReason ==
    [][NotReadyVerdict \/ ReadyTurn \/ ReadySleep =>
        \/ timedOut
        \/ loads.lost > 0 /\ drv.call \in {"network-idle", "ready"}
        \/ flush
        \/ external > 0
        \/ \E k \in 1..Len(tasks) : tasks[k].relevant
        \/ RelevantTimerDue
        \/ drv.call \in {"dom-stable", "ready"} /\ ~Quiescent /\ ~DomStable(tracker')]_vars

NoWayToJs ==
    /\ pc \notin {"js", "raf"}
    /\ ~jobs /\ ~flush
    /\ tasks = <<>> /\ DOMAIN timers = {} /\ external = 0 /\ frames = <<>>

\* What makes the quiescence shortcut sound: a page judged ready while quiescent
\* has no way left to run JS, and only the embedder can give it one.
QuiescentIsFinal ==
    [][/\ ReadyVerdict /\ Quiescent => NoWayToJs
       /\ NoWayToJs => NoWayToJs' \/ EvalJs]_vars

\* run_until_ready gives up before its budget only when no timeout, transfer or
\* frame is left that another wait could bring in.
GivesUpOnlyWhenStuck ==
    [][NotReadyVerdict /\ ~BudgetSpent =>
        DOMAIN registry = {} /\ external = 0 /\ Landed = {} /\ frames = <<>>]_vars

\* run_until_idle stops before its budget only when every timeout the page set
\* has run or was cleared and every transfer was handed to JS, jobs included.
IdleMeansDone ==
    [][TurnEnds /\ pc' = "out" /\ now < drv.deadline =>
        /\ \A i \in DOMAIN registry : registry[i].interval
        /\ external = 0 /\ tasks = <<>> /\ ~jobs]_vars

\* event_loop.hpp:86-88: next_timer_delay is the delay until the timer fires, so
\* no timer fires before the due time it computed for it.
NoTimerFiresEarly ==
    [][\A i \in Ids : pc = "uv" /\ TimerFired(i) => timers[i].due <= now]_vars

\* docs/testing.md:14-16: pages that quiesce completely become ready immediately.
QuiescentPageIsReady == [][NotReadyVerdict /\ Quiescent => flush]_vars

-----------------------------------------------------------------------------
(* Liveness. *)

\* Every run of the embedder ends, whatever the page queues, as long as the
\* deadline that lets js_timeout interrupt its JS is active.
RunEnds == pc \notin {"out", "dead"} ~> pc = "out" \/ ~guarded

\* page.hpp:51-55, architecture.md:94-95: js_timeout and max_load_time bound all
\* the JavaScript of a load, so a run always ends.
JsIsBounded == pc \notin {"out", "dead"} ~> pc = "out"

=============================================================================
