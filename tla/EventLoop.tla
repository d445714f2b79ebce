------------------------------ MODULE EventLoop ------------------------------
(***************************************************************************)
(* pagecore::EventLoop (src/src/event_loop.cpp): timers and animation      *)
(* frames over libuv, on top of TaskQueue. Single-threaded: libuv          *)
(* callbacks only queue tasks, and JS runs only from tasks and frames that *)
(* the driver (module PageLoop) takes.                                     *)
(*                                                                         *)
(* Two clocks. now is uv_hrtime, which moves all the time. uvNow is        *)
(* loop->time, which libuv refreshes only inside uv_run: timers are armed  *)
(* relative to it and fire against it, while due_ms is computed from now.  *)
(***************************************************************************)
EXTENDS TaskQueue

CONSTANTS
    Ids,             \* ids the JS shim hands out (nextTaskId), never reused
    MaxNow,          \* bound: the clock stops here
    FrameInterval    \* kFrameIntervalMs

ASSUME EventLoopAssumption ==
    /\ Ids \subseteq What
    /\ MaxNow \in Nat
    /\ FrameInterval \in Nat \ {0}

VARIABLES
    timers,          \* timers_: armed timers by id
    frames,          \* pending_animation_frames_
    frameTimer,      \* what frame_timer_ is armed for, NotArmed otherwise
    frameDue,        \* frame_due_
    lastFrame,       \* last_frame_ms_
    now,             \* uv_hrtime since the loop was created
    uvNow            \* libuv's cached loop->time

timerVars == <<timers, frames, frameTimer, frameDue, lastFrame>>
clockVars == <<now, uvNow>>
loopVars == <<queueVars, timerVars, clockVars>>

NotArmed == [armed |-> FALSE, due |-> 0, fires |-> 0]
ArmedAt(due, fires) == [armed |-> TRUE, due |-> due, fires |-> fires]

\* due is entry->due_ms, fires the expiry libuv itself goes by.
Timer == [due : Nat, fires : Nat, period : Nat, repeat : BOOLEAN, relevant : BOOLEAN]

TimersTypeOK ==
    /\ DOMAIN timers \subseteq Ids
    /\ timers \in [DOMAIN timers -> Timer]
    /\ frames \in Seq(Ids)
    /\ frameTimer \in [armed : BOOLEAN, due : Nat, fires : Nat]
    /\ frameDue \in BOOLEAN
    /\ lastFrame \in Nat
    /\ now \in Nat
    /\ uvNow \in Nat

TimersInit ==
    /\ timers = [i \in {} |-> 0]
    /\ frames = <<>>
    /\ frameTimer = NotArmed
    /\ frameDue = FALSE
    /\ lastFrame = 0
    /\ now = 0
    /\ uvNow = 0

\* Mutant of Minus: the std::max(0.0, ...) around a difference is dropped.
MutantMinus(a, b) == a - b

AtLeastOne(n) == IF n = 0 THEN 1 ELSE n
Minus(a, b) == IF a > b THEN a - b ELSE 0

Contains(s, x) == \E k \in 1..Len(s) : s[k] = x
EraseAt(s, k) == [j \in 1..(Len(s) - 1) |-> IF j < k THEN s[j] ELSE s[j + 1]]

Without(f, i) == [j \in DOMAIN f \ {i} |-> f[j]]
With(f, i, v) == [j \in DOMAIN f \cup {i} |-> IF j = i THEN v ELSE f[j]]

-----------------------------------------------------------------------------
(* Calls the JS bridge makes. Each says how the timers and frames change.   *)

\* EventLoop::schedule_timer: replaces an armed timer with the same id.
ScheduleTimer(i, delay, repeat, relevant) ==
    /\ timers' = IF shutDown THEN timers
                 ELSE With(timers, i,
                           [due |-> now + delay, fires |-> uvNow + delay,
                            period |-> AtLeastOne(delay),
                            repeat |-> repeat, relevant |-> relevant])
    /\ UNCHANGED <<frames, frameTimer, frameDue, lastFrame>>

\* Mutant of CancelTimer: the handle is forgotten but keeps running.
MutantCancelTimer(i) == UNCHANGED timerVars

\* EventLoop::cancel_timer: a firing that is already queued stays queued.
CancelTimer(i) ==
    /\ timers' = Without(timers, i)
    /\ UNCHANGED <<frames, frameTimer, frameDue, lastFrame>>

\* EventLoop::arm_frame_timer
FrameTimerArmed ==
    IF frameTimer.armed \/ shutDown THEN frameTimer
    ELSE LET delay == Minus(FrameInterval, now - lastFrame)
         IN  ArmedAt(now + delay, uvNow + delay)

\* EventLoop::request_animation_frame
RequestFrame(i) ==
    /\ frames' = IF shutDown THEN frames ELSE Append(frames, i)
    /\ frameTimer' = FrameTimerArmed
    /\ UNCHANGED <<timers, frameDue, lastFrame>>

\* Mutant of CancelFrame: it stops the frame timer other ids still wait for.
MutantCancelFrame(i) ==
    /\ frames' = SelectSeq(frames, LAMBDA j : j # i)
    /\ frameTimer' = NotArmed
    /\ UNCHANGED <<timers, frameDue, lastFrame>>

\* EventLoop::cancel_animation_frame: the frame timer stays as it is.
CancelFrame(i) ==
    /\ IF Contains(frames, i)
       THEN \E k \in 1..Len(frames) : frames[k] = i /\ frames' = EraseAt(frames, k)
       ELSE frames' = frames
    /\ UNCHANGED <<timers, frameTimer, frameDue, lastFrame>>

\* EventLoop::take_due_animation_frames: the whole list goes to this frame.
TakeFrames ==
    /\ frameDue' = FALSE
    /\ frames' = <<>>
    /\ UNCHANGED <<timers, frameTimer, lastFrame>>

-----------------------------------------------------------------------------
(* libuv callbacks, which run only inside uv_run.                           *)

Expired(t) == {i \in DOMAIN timers : timers[i].fires <= t}
FrameExpired(t) == frameTimer.armed /\ frameTimer.fires <= t

\* EventLoop::timer_fired. libuv runs expired timers earliest expiry first
\* (equal expiries in any order here).
TimerFired(i) ==
    /\ i \in Expired(uvNow)
    /\ \A j \in DOMAIN timers : timers[i].fires <= timers[j].fires
    /\ FrameExpired(uvNow) => timers[i].fires <= frameTimer.fires
    /\ timers' = IF timers[i].repeat
                 THEN [timers EXCEPT ![i].due = now + timers[i].period,
                                     ![i].fires = uvNow + timers[i].period]
                 ELSE Without(timers, i)
    /\ Post([what |-> i, relevant |-> timers[i].relevant /\ ~timers[i].repeat])
    /\ UNCHANGED <<frames, frameTimer, frameDue, lastFrame>>

\* EventLoop::frame_timer_fired
FrameTimerFired ==
    /\ FrameExpired(uvNow)
    /\ \A j \in DOMAIN timers : frameTimer.fires <= timers[j].fires
    /\ frameTimer' = NotArmed
    /\ frameDue' = TRUE
    /\ lastFrame' = now
    /\ UNCHANGED <<timers, frames, queueVars>>

\* uv__update_time, on every way into uv_run (poll and wait_for_activity).
EnterUv == uvNow' = now /\ UNCHANGED now

\* wait_for_activity: uv_run(UV_RUN_ONCE) sleeps until the wake-up timer or the
\* nearest armed one, reckoned on the clock of the last uv_run.
Alarms ==
    {Minus(timers[i].fires, uvNow) : i \in DOMAIN timers}
        \cup (IF frameTimer.armed THEN {Minus(frameTimer.fires, uvNow)} ELSE {})

\* uv_run returns once every expired timer has had its callback.
UvDrained == Expired(uvNow) = {} /\ ~FrameExpired(uvNow)

\* Time passes.
Tick ==
    /\ now < MaxNow
    /\ now' = now + 1
    /\ UNCHANGED uvNow

-----------------------------------------------------------------------------
(* What the driver asks the loop.                                           *)

HasReadyTask == tasks # <<>>

\* Mutant of Idle: transfers in flight are forgotten.
MutantIdle == tasks = <<>> /\ \A i \in DOMAIN timers : timers[i].repeat

\* EventLoop::idle
Idle ==
    /\ tasks = <<>>
    /\ external = 0
    /\ \A i \in DOMAIN timers : timers[i].repeat

\* Mutant of WakeUpDelays: animation frames are forgotten.
MutantWakeUpDelays == {Minus(timers[i].due, now) : i \in DOMAIN timers}

\* EventLoop::next_timer_delay: the delays it takes the minimum of.
WakeUpDelays ==
    {Minus(timers[i].due, now) : i \in DOMAIN timers}
        \cup (IF frameTimer.armed THEN {Minus(frameTimer.due, now)} ELSE {})
        \cup (IF frameDue /\ frames # <<>> THEN {0} ELSE {})

\* Mutant of NothingRelevantPending: interval ticks count as well.
MutantNothingRelevantPending(horizon) ==
    /\ external = 0
    /\ tasks = <<>>
    /\ \A i \in DOMAIN timers : timers[i].relevant => timers[i].due > now + horizon

\* EventLoop::relevant_pending_count(horizon) = 0
NothingRelevantPending(horizon) ==
    /\ external = 0
    /\ \A k \in 1..Len(tasks) : ~tasks[k].relevant
    /\ \A i \in DOMAIN timers :
          timers[i].relevant /\ ~timers[i].repeat => timers[i].due > now + horizon

\* Mutant of Quiescent: requested frames are forgotten.
MutantQuiescent == tasks = <<>> /\ DOMAIN timers = {} /\ external = 0 /\ ~frameDue

\* EventLoop::quiescent
Quiescent ==
    /\ tasks = <<>>
    /\ DOMAIN timers = {}
    /\ external = 0
    /\ frames = <<>>
    /\ ~frameDue

\* EventLoop::shutdown. external_work_ is left alone (the async loader has
\* released its transfers before).
Shutdown ==
    /\ shutDown' = TRUE
    /\ tasks' = <<>>
    /\ frames' = <<>>
    /\ timers' = [i \in {} |-> 0]
    /\ frameTimer' = NotArmed
    /\ UNCHANGED <<external, frameDue, lastFrame>>

=============================================================================
