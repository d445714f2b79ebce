--------------------------- MODULE PageLoopProofs ----------------------------
(***************************************************************************)
(* Theorems about PageLoop, for every value of its constants: its types,   *)
(* where a callback and a frame are, what the tracker counts, when jobs    *)
(* have run and what a readiness verdict means.                            *)
(***************************************************************************)
EXTENDS PageLoop, FiniteSetTheorems, TLAPS

-----------------------------------------------------------------------------
(* The helpers on partial functions and sequences. *)

\* With (unordered_map::emplace, Map.set) adds or overwrites one key.
LEMMA WithFacts ==
    ASSUME NEW f, NEW S, f \in [DOMAIN f -> S], NEW i, NEW v \in S
    PROVE  /\ DOMAIN With(f, i, v) = DOMAIN f \cup {i}
           /\ With(f, i, v) \in [DOMAIN With(f, i, v) -> S]
           /\ With(f, i, v)[i] = v
           /\ \A j \in DOMAIN f \ {i} : With(f, i, v)[j] = f[j]
BY DEF With

\* Without (erase, Map.delete) removes at most the one key.
LEMMA WithoutFacts ==
    ASSUME NEW f, NEW S, f \in [DOMAIN f -> S], NEW i
    PROVE  /\ DOMAIN Without(f, i) = DOMAIN f \ {i}
           /\ Without(f, i) \in [DOMAIN Without(f, i) -> S]
           /\ \A j \in DOMAIN f \ {i} : Without(f, i)[j] = f[j]
BY DEF Without

\* EraseAt (deque::erase) keeps a sequence one, one element shorter.
LEMMA EraseAtFacts ==
    ASSUME NEW S, NEW s \in Seq(S), NEW k \in 1..Len(s)
    PROVE  /\ EraseAt(s, k) \in Seq(S)
           /\ Len(EraseAt(s, k)) = Len(s) - 1
           /\ \A j \in 1..(Len(s) - 1) :
                 EraseAt(s, k)[j] = IF j < k THEN s[j] ELSE s[j + 1]
<1>1. Len(s) - 1 \in Nat
  OBVIOUS
<1>2. EraseAt(s, k) \in [1..(Len(s) - 1) -> S]
  BY DEF EraseAt
<1>3. QED
  BY <1>1, <1>2 DEF EraseAt

\* A queued task keeps the queue one (EventLoop::post).
LEMMA PostedType ==
    ASSUME tasks \in Seq(Task), NEW t \in Task
    PROVE  Posted(t) \in Seq(Task)
BY DEF Posted

-----------------------------------------------------------------------------
LEMMA MinusType ==
    ASSUME NEW a \in Nat, NEW b \in Nat
    PROVE  Minus(a, b) \in Nat
BY DEF Minus

\* The updates of its locals that the driver makes leave a record of locals.
LEMMA DriverUpdates ==
    ASSUME NEW d \in Driver
    PROVE  /\ \A c \in Call : [d EXCEPT !.call = c] \in Driver
           /\ \A n \in Nat : /\ [d EXCEPT !.deadline = n] \in Driver
                             /\ [d EXCEPT !.wakeAt = n] \in Driver
                             /\ [d EXCEPT !.iter = n] \in Driver
                             /\ [d EXCEPT !.rounds = n] \in Driver
           /\ \A b \in BOOLEAN : [d EXCEPT !.ran = b] \in Driver
           /\ \A s \in Seq(Ids) : [d EXCEPT !.batch = s] \in Driver
           /\ d.deadline \in Nat /\ d.wakeAt \in Nat /\ d.iter \in Nat /\ d.rounds \in Nat
           /\ d.ran \in BOOLEAN /\ d.batch \in Seq(Ids)
BY DEF Driver

LEMMA NoRunType == NoRun \in Driver
BY DEF NoRun, Driver, Call

LEMMA EmptySeqType == ASSUME NEW S PROVE <<>> \in Seq(S)
OBVIOUS

\* The updates of the counts of loads.
LEMMA LoadsUpdates ==
    ASSUME NEW c \in Loads
    PROVE  /\ \A n \in Nat : /\ [c EXCEPT !.answered = n] \in Loads
                             /\ [c EXCEPT !.waiting = n] \in Loads
                             /\ [c EXCEPT !.lost = n] \in Loads
                             /\ [c EXCEPT !.dropped = n] \in Loads
           /\ c.answered \in Nat /\ c.waiting \in Nat /\ c.lost \in Nat /\ c.dropped \in Nat
BY DEF Loads

\* What JS does with its loads, from activityBegin to abort.
LoadStep == StartLoad \/ BodyThrows \/ ScriptWaits \/ ScriptTurn \/ ReactionBreaks \/ Abort

NetTask == [what |-> Net, relevant |-> TRUE]

LEMMA NetTaskType == NetTask \in Task
BY PageLoopAssumption DEF NetTask, Task

\* It queues at most one completion and takes no job away.
LEMMA LoadStepKeeps ==
    ASSUME LoadStep
    PROVE  /\ InJs /\ UNCHANGED <<loadVars, shutDown>>
           /\ tasks' \in {tasks, Posted(NetTask)}
           /\ jobs' \in {jobs, TRUE}
<1> USE DEF queueVars, NetTask
<1>1. \A c : LoadStarts(c) => /\ UNCHANGED shutDown
                              /\ tasks' \in {tasks, Posted(NetTask)}
                              /\ jobs' \in {jobs, TRUE}
  BY DEF LoadStarts, BeginExternalWork, Post
<1>2. CASE StartLoad \/ ScriptTurn
  BY <1>1, <1>2 DEF StartLoad, RaisesMark, ScriptTurn
<1>3. CASE BodyThrows \/ ScriptWaits
  BY <1>3 DEF BodyThrows, ScriptWaits, RaisesMark
<1>4. CASE ReactionBreaks \/ Abort
  BY <1>4 DEF ReactionBreaks, Abort
<1>5. QED
  BY <1>2, <1>3, <1>4 DEF LoadStep

-----------------------------------------------------------------------------
(* Type correctness. A step is typed one part of the state at a time; the  *)
(* parts it leaves alone are covered by the next lemma.                     *)

LEMMA PartsKept ==
    /\ QueueTypeOK /\ UNCHANGED queueVars => QueueTypeOK'
    /\ TimersTypeOK /\ UNCHANGED <<timerVars, clockVars>> => TimersTypeOK'
    /\ ShimTypeOK /\ UNCHANGED <<registry, rafs, jobs, flush>> => ShimTypeOK'
    /\ TrackerTypeOK /\ UNCHANGED <<counterVars, domVars>> => TrackerTypeOK'
    /\ ControlTypeOK /\ UNCHANGED <<guarded, pcVars, drv>> => ControlTypeOK'
<1>1. QueueTypeOK /\ UNCHANGED queueVars => QueueTypeOK'
  BY DEF QueueTypeOK, queueVars
<1>2. TimersTypeOK /\ UNCHANGED <<timerVars, clockVars>> => TimersTypeOK'
  BY DEF TimersTypeOK, timerVars, clockVars
<1>3. ShimTypeOK /\ UNCHANGED <<registry, rafs, jobs, flush>> => ShimTypeOK'
  BY DEF ShimTypeOK
<1>4. TrackerTypeOK /\ UNCHANGED <<counterVars, domVars>> => TrackerTypeOK'
  BY DEF TrackerTypeOK, counterVars, domVars
<1>5. ControlTypeOK /\ UNCHANGED <<guarded, pcVars, drv>> => ControlTypeOK'
  BY DEF ControlTypeOK, pcVars
<1>6. QED
  BY <1>1, <1>2, <1>3, <1>4, <1>5

LEMMA InitType == Init => TypeOK
<1> SUFFICES ASSUME Init PROVE TypeOK
  OBVIOUS
<1>1. QueueTypeOK
  BY EmptySeqType DEF Init, QueueInit, QueueTypeOK
<1>2. TimersTypeOK
  <2>1. frames \in Seq(Ids)
    BY EmptySeqType DEF Init, TimersInit
  <2>2. QED
    BY <2>1 DEF Init, TimersInit, TimersTypeOK, NotArmed
<1>3. ShimTypeOK
  BY DEF Init, ShimTypeOK
<1>4. TrackerTypeOK
  BY DEF Init, TrackerTypeOK, NothingOwed, Loads
<1>5. ControlTypeOK
  BY NoRunType DEF Init, ControlTypeOK
<1>6. QED
  BY <1>1, <1>2, <1>3, <1>4, <1>5 DEF TypeOK

LEMMA EmbedderType == TypeOK /\ EmbedderStep => TypeOK'
<1> SUFFICES ASSUME TypeOK, EmbedderStep PROVE TypeOK'
  OBVIOUS
<1> USE DEF TypeOK, loopVars, jsVars, counterVars, domVars
<1>1. CASE EvalJs
  <2>1. ControlTypeOK'
    BY <1>1 DEF EvalJs, ControlTypeOK
  <2>2. QED
    BY <1>1, <2>1, PartsKept DEF EvalJs
<1>2. CASE EmbedderMutates
  <2>1. TrackerTypeOK'
    BY <1>2 DEF EmbedderMutates, TrackerTypeOK, TimersTypeOK
  <2>2. QED
    BY <1>2, <2>1, PartsKept DEF EmbedderMutates
<1>3. ASSUME NEW call, StartRun(call) PROVE drv' \in Driver
  <2>1. now + WaitTime \in Nat
    BY PageLoopAssumption DEF TimersTypeOK
  <2>2. drv' = [[NoRun EXCEPT !.call = call] EXCEPT !.deadline = now + WaitTime] /\ call \in Call
    BY <1>3 DEF StartRun, Call
  <2>3. [NoRun EXCEPT !.call = call] \in Driver
    BY <2>2, NoRunType, DriverUpdates, EmptySeqType
  <2>4. QED
    BY <2>1, <2>2, <2>3, DriverUpdates, EmptySeqType
<1>4. CASE RunUntilIdle
  <2>1. ControlTypeOK'
    BY <1>3, <1>4 DEF RunUntilIdle, StartRun, ControlTypeOK
  <2>2. QED
    BY <1>4, <2>1, PartsKept DEF RunUntilIdle, StartRun
<1>5. ASSUME NEW goal \in Calls, RunUntilReady(goal) PROVE TypeOK'
  <2>1. ControlTypeOK'
    BY <1>3, <1>5 DEF RunUntilReady, StartRun, ControlTypeOK
  <2>2. QED
    BY <1>5, <2>1, PartsKept DEF RunUntilReady, StartRun
<1>6. CASE Destroy
  <2>1. QueueTypeOK'
    BY <1>6, EmptySeqType DEF Destroy, Shutdown, QueueTypeOK
  <2>2. TimersTypeOK'
    <3>1. frames' \in Seq(Ids)
      BY <1>6, EmptySeqType DEF Destroy, Shutdown
    <3>2. QED
      BY <1>6, <3>1 DEF Destroy, Shutdown, TimersTypeOK, NotArmed, clockVars
  <2>3. ControlTypeOK'
    BY <1>6 DEF Destroy, ControlTypeOK
  <2>4. QED
    BY <1>6, <2>1, <2>2, <2>3, PartsKept DEF Destroy
<1>7. QED
  BY <1>1, <1>2, <1>4, <1>5, <1>6 DEF EmbedderStep

\* loadHostResourceAsync, whichever way it goes.
LEMMA LoadStartsType ==
    ASSUME TypeOK, NEW c \in Loads, LoadStarts(c)
    PROVE  QueueTypeOK' /\ loads' \in Loads
<1>1. CASE BeginExternalWork /\ loads' = c
  BY <1>1 DEF BeginExternalWork, TypeOK, QueueTypeOK
<1>2. CASE Post(NetTask) /\ loads' = c
  BY <1>2, NetTaskType, PostedType DEF Post, TypeOK, QueueTypeOK
<1>3. CASE loads' = [c EXCEPT !.answered = @ + 1] /\ UNCHANGED queueVars
  <2>1. c.answered + 1 \in Nat
    BY LoadsUpdates
  <2>2. QED
    BY <1>3, <2>1, LoadsUpdates, PartsKept DEF TypeOK
<1>4. QED
  BY <1>1, <1>2, <1>3 DEF LoadStarts, NetTask

LEMMA LoadType == TypeOK /\ LoadStep => TypeOK'
<1> SUFFICES ASSUME TypeOK, LoadStep PROVE TypeOK'
  OBVIOUS
<1>1. /\ net \in Nat /\ owed \in [net : Nat, observing : Nat] /\ loads \in Loads
      /\ loads.answered \in Nat /\ loads.waiting \in Nat /\ loads.lost \in Nat
      /\ loads.dropped \in Nat /\ QueueTypeOK /\ external \in Nat
  BY LoadsUpdates DEF TypeOK, TrackerTypeOK, QueueTypeOK
<1>2. /\ net' \in Nat /\ owed' \in [net : Nat, observing : Nat] /\ loads' \in Loads
      /\ QueueTypeOK'
  <2> USE DEF NothingOwed
  <2>1. CASE StartLoad
    BY <1>1, <2>1, LoadStartsType DEF StartLoad, RaisesMark
  <2>2. CASE BodyThrows \/ ScriptWaits
    <3>1. loads.lost + 1 \in Nat /\ loads.waiting + 1 \in Nat /\ net + 1 \in Nat
      BY <1>1
    <3>2. \/ loads' = [loads EXCEPT !.lost = @ + 1]
          \/ loads' = [loads EXCEPT !.waiting = @ + 1]
      BY <2>2 DEF BodyThrows, ScriptWaits
    <3>3. loads' \in Loads
      BY <1>1, <3>1, <3>2, LoadsUpdates
    <3>4. UNCHANGED <<queueVars, owed>> /\ net' = net + 1
      BY <2>2 DEF BodyThrows, ScriptWaits, RaisesMark
    <3>5. QED
      BY <1>1, <3>1, <3>3, <3>4, PartsKept
  <2>3. CASE ScriptTurn
    <3>1. loads.waiting - 1 \in Nat /\ owed.net - 1 \in Nat
      BY <1>1, <2>3 DEF ScriptTurn
    <3>2. [loads EXCEPT !.waiting = @ - 1] \in Loads
      BY <1>1, <3>1, LoadsUpdates
    <3>3. QED
      BY <1>1, <2>3, <3>1, <3>2, LoadStartsType, MinusType DEF ScriptTurn
  <2>4. CASE ReactionBreaks
    <3>1. loads.lost + 1 \in Nat /\ owed.net - 1 \in Nat
      BY <1>1, <2>4 DEF ReactionBreaks
    <3>2. QED
      BY <1>1, <2>4, <3>1, LoadsUpdates, PartsKept DEF ReactionBreaks
  <2>5. CASE Abort
    <3>1. net' \in Nat
      BY <1>1, <2>5, MinusType DEF Abort
    <3>2. CASE UNCHANGED <<queueVars, owed>>
      <4>1. \/ loads' = [loads EXCEPT !.dropped = @ + 1]
            \/ loads.answered > 0 /\ loads' = [loads EXCEPT !.answered = @ - 1]
            \/ loads.lost > 0 /\ loads' = [loads EXCEPT !.lost = @ - 1]
            \/ loads' = loads
        BY <2>5, <3>2 DEF Abort
      <4>2. loads' \in Loads
        <5>1. CASE loads' = [loads EXCEPT !.dropped = @ + 1]
          <6>1. loads.dropped + 1 \in Nat
            BY <1>1
          <6>2. QED
            BY <1>1, <5>1, <6>1, LoadsUpdates
        <5>2. CASE loads.answered > 0 /\ loads' = [loads EXCEPT !.answered = @ - 1]
          <6>1. loads.answered - 1 \in Nat
            BY <1>1, <5>2
          <6>2. QED
            BY <1>1, <5>2, <6>1, LoadsUpdates
        <5>3. CASE loads.lost > 0 /\ loads' = [loads EXCEPT !.lost = @ - 1]
          <6>1. loads.lost - 1 \in Nat
            BY <1>1, <5>3
          <6>2. QED
            BY <1>1, <5>3, <6>1, LoadsUpdates
        <5>4. QED
          BY <1>1, <4>1, <5>1, <5>2, <5>3
      <4>3. QED
        BY <1>1, <3>1, <3>2, <4>2, PartsKept
    <3>3. CASE external > 0 /\ external' = ExternalAfterEnd /\ UNCHANGED <<tasks, shutDown, owed, loads>>
      BY <1>1, <3>1, <3>3 DEF ExternalAfterEnd, QueueTypeOK
    <3>4. CASE owed.net > 0 /\ owed' = [owed EXCEPT !.net = @ - 1] /\ UNCHANGED <<queueVars, loads>>
      BY <1>1, <3>1, <3>4, PartsKept
    <3>5. QED
      BY <2>5, <3>2, <3>3, <3>4 DEF Abort
  <2>6. QED
    BY <2>1, <2>2, <2>3, <2>4, <2>5 DEF LoadStep
<1>3. TrackerTypeOK'
  BY <1>2, LoadStepKeeps DEF TypeOK, TrackerTypeOK, loadVars, domVars
<1>4. ShimTypeOK'
  BY LoadStepKeeps DEF TypeOK, ShimTypeOK, loadVars
<1>5. QED
  BY <1>2, <1>3, <1>4, LoadStepKeeps, PartsKept DEF TypeOK, loadVars

LEMMA JsType == TypeOK /\ JsStep => TypeOK'
<1> SUFFICES ASSUME TypeOK, JsStep PROVE TypeOK'
  OBVIOUS
<1> USE DEF TypeOK, loopVars, jsVars, counterVars, domVars
<1>1. ASSUME NEW i \in Ids, NEW d \in Delays, NEW interval \in BOOLEAN, NEW relevant \in BOOLEAN,
             SetTask(i, d, interval, relevant)
      PROVE  TypeOK'
  <2>1. ShimTypeOK'
    <3> DEFINE e == [interval |-> interval, relevant |-> relevant]
    <3>1. e \in Entry
      BY DEF Entry
    <3>2. registry' = With(registry, i, e)
      BY <1>1 DEF SetTask
    <3> HIDE DEF e
    <3>3. DOMAIN registry' = DOMAIN registry \cup {i} /\ registry' \in [DOMAIN registry' -> Entry]
      BY <3>1, <3>2, WithFacts, ZenonT(60) DEF ShimTypeOK
    <3>4. QED
      BY <1>1, <3>3 DEF SetTask, ShimTypeOK
  <2>2. QueueTypeOK'
    <3>1. [what |-> i, relevant |-> relevant] \in Task
      BY EventLoopAssumption DEF Task
    <3>2. CASE UNCHANGED queueVars
      BY <3>2, PartsKept
    <3>3. CASE Post([what |-> i, relevant |-> relevant])
      BY <3>1, <3>3, PostedType DEF Post, QueueTypeOK
    <3>4. QED
      BY <1>1, <3>2, <3>3 DEF SetTask
  <2>3. TimersTypeOK'
    <3> DEFINE t == [due |-> now + d, fires |-> uvNow + d, period |-> AtLeastOne(d),
                     repeat |-> interval, relevant |-> relevant /\ ~interval]
    <3>1. d \in Nat /\ AtLeastOne(d) \in Nat /\ (relevant /\ ~interval) \in BOOLEAN
      BY PageLoopAssumption DEF AtLeastOne
    <3>2. t \in Timer
      BY <3>1 DEF Timer, TimersTypeOK
    <3>3. CASE UNCHANGED timerVars
      BY <1>1, <3>3, PartsKept DEF SetTask
    <3>4. CASE ScheduleTimer(i, d, interval, relevant /\ ~interval)
      <4>1. timers' = timers \/ timers' = With(timers, i, t)
        BY <3>4 DEF ScheduleTimer
      <4> HIDE DEF t
      <4>2. DOMAIN timers' \subseteq Ids /\ timers' \in [DOMAIN timers' -> Timer]
        <5>1. CASE timers' = With(timers, i, t)
          <6>1. timers \in [DOMAIN timers -> Timer] /\ DOMAIN timers \subseteq Ids
            BY DEF TimersTypeOK
          <6>2. DOMAIN timers' = DOMAIN timers \cup {i} /\ timers' \in [DOMAIN timers' -> Timer]
            BY <3>2, <5>1, <6>1, WithFacts, ZenonT(60)
          <6>3. QED
            BY <6>1, <6>2
        <5>2. CASE timers' = timers
          BY <5>2 DEF TimersTypeOK
        <5>3. QED
          BY <4>1, <5>1, <5>2
      <4>3. QED
        BY <1>1, <3>4, <4>2 DEF SetTask, ScheduleTimer, TimersTypeOK, clockVars
    <3>5. QED
      BY <1>1, <3>3, <3>4 DEF SetTask
  <2>4. QED
    BY <1>1, <2>1, <2>2, <2>3, PartsKept DEF SetTask
<1>2. ASSUME NEW i \in Ids, ClearTask(i) PROVE TypeOK'
  <2>1. ShimTypeOK'
    BY <1>2, WithoutFacts DEF ClearTask, ShimTypeOK
  <2>2. TimersTypeOK'
    BY <1>2, WithoutFacts DEF ClearTask, CancelTimer, TimersTypeOK, clockVars
  <2>3. QED
    BY <1>2, <2>1, <2>2, PartsKept DEF ClearTask
<1>3. ASSUME NEW i \in Ids, RequestAnimationFrame(i) PROVE TypeOK'
  <2>1. frameTimer' \in [armed : BOOLEAN, due : Nat, fires : Nat]
    BY <1>3, EventLoopAssumption, SMTT(60)
       DEF RequestAnimationFrame, RequestFrame, FrameTimerArmed, ArmedAt, Minus, TimersTypeOK
  <2>2. TimersTypeOK'
    BY <1>3, <2>1 DEF RequestAnimationFrame, RequestFrame, TimersTypeOK, clockVars
  <2>3. ShimTypeOK'
    BY <1>3 DEF RequestAnimationFrame, ShimTypeOK
  <2>4. QED
    BY <1>3, <2>2, <2>3, PartsKept DEF RequestAnimationFrame
<1>4. ASSUME NEW i \in Ids, CancelAnimationFrame(i) PROVE TypeOK'
  <2>1. frames' \in Seq(Ids)
    BY <1>4, EraseAtFacts DEF CancelAnimationFrame, CancelFrame, TimersTypeOK
  <2>2. TimersTypeOK'
    BY <1>4, <2>1 DEF CancelAnimationFrame, CancelFrame, TimersTypeOK, clockVars
  <2>3. ShimTypeOK'
    BY <1>4 DEF CancelAnimationFrame, ShimTypeOK
  <2>4. QED
    BY <1>4, <2>2, <2>3, PartsKept DEF CancelAnimationFrame
<1>5. ASSUME NEW observed \in BOOLEAN, MutateDom(observed) PROVE TypeOK'
  <2>1. /\ tracker' \in [last : Nat, synced : BOOLEAN] /\ changedAt' \in Nat
        /\ observing' \in Nat /\ flush' \in BOOLEAN
    <3>1. tracker' \in [last : Nat, synced : BOOLEAN] /\ changedAt' \in Nat
      BY <1>5 DEF MutateDom, TimersTypeOK
    <3>2. observing' \in Nat /\ flush' \in BOOLEAN
      <4>1. CASE observed /\ ~flush
        BY <1>5, <4>1 DEF MutateDom, TrackerTypeOK
      <4>2. CASE ~(observed /\ ~flush)
        BY <1>5, <4>2 DEF MutateDom, TrackerTypeOK, ShimTypeOK
      <4>3. QED
        BY <4>1, <4>2
    <3>3. QED
      BY <3>1, <3>2
  <2>2. TrackerTypeOK'
    BY <1>5, <2>1 DEF MutateDom, TrackerTypeOK
  <2>3. ShimTypeOK'
    BY <1>5, <2>1 DEF MutateDom, ShimTypeOK
  <2>4. QED
    BY <1>5, <2>2, <2>3, PartsKept DEF MutateDom
<1>6. CASE QueueJob
  <2>1. ShimTypeOK'
    BY <1>6 DEF QueueJob, ShimTypeOK
  <2>2. QED
    BY <1>6, <2>1, PartsKept DEF QueueJob
<1>7. CASE LoadStep
  BY <1>7, LoadType
<1>8. CASE JsReturns
  <2>1. TrackerTypeOK'
    BY <1>8, MinusType DEF JsReturns, TrackerTypeOK, NothingOwed
  <2>2. ControlTypeOK'
    BY <1>8 DEF JsReturns, ControlTypeOK
  <2>3. QED
    BY <1>8, <2>1, <2>2, PartsKept DEF JsReturns
<1>9. CASE JsThrows
  <2>1. ControlTypeOK'
    BY <1>9, NoRunType DEF JsThrows, Leaves, ControlTypeOK
  <2>2. QED
    BY <1>9, <2>1, PartsKept DEF JsThrows
<1>10. ASSUME NEW ran \in 0 .. owed.net, NEW kept \in 0 .. owed.net, NEW left \in BOOLEAN,
              JsTimesOut(ran, kept, left)
       PROVE  TypeOK'
  <2>1. drv' \in Driver /\ pc' \in {"check", "out"} /\ jobs' \in BOOLEAN
    <3>1. CASE ctx \in {"task", "frame"}
      <4>1. drv' = [drv EXCEPT !.batch = <<>>] /\ pc' = "check" /\ UNCHANGED jobs
        BY <1>10, <3>1 DEF JsTimesOut
      <4>2. <<>> \in Seq(Ids) /\ drv \in Driver
        BY EmptySeqType DEF ControlTypeOK
      <4>3. QED
        BY <4>1, <4>2, DriverUpdates DEF ShimTypeOK
    <3>2. CASE ctx \notin {"task", "frame"}
      BY <1>10, <3>2, NoRunType DEF JsTimesOut, Leaves, ShimTypeOK
    <3>3. QED
      BY <3>1, <3>2
  <2>2. TrackerTypeOK'
    <3>1. /\ owed.net \in Nat /\ ran \in Nat /\ kept \in Nat /\ loads \in Loads
          /\ loads.answered \in Nat /\ loads.lost \in Nat
      BY LoadsUpdates DEF TrackerTypeOK
    <3>2. Minus(net, ran) \in Nat /\ Minus(owed.net, ran + kept) \in Nat
      <4>1. net \in Nat /\ ran + kept \in Nat
        BY <3>1 DEF TrackerTypeOK
      <4>2. QED
        BY <3>1, <4>1, MinusType
    <3>3. [[loads EXCEPT !.answered = loads.answered + kept]
                  EXCEPT !.lost = loads.lost + Minus(owed.net, ran + kept)] \in Loads
      <4>1. /\ loads.answered + kept \in Nat
            /\ loads.lost + Minus(owed.net, ran + kept) \in Nat
        BY <3>1, <3>2
      <4>2. [loads EXCEPT !.answered = loads.answered + kept] \in Loads
        BY <3>1, <4>1, LoadsUpdates
      <4>3. QED
        BY <4>1, <4>2, LoadsUpdates
    <3>4. QED
      BY <1>10, <3>2, <3>3 DEF JsTimesOut, TrackerTypeOK, NothingOwed
  <2>3. ControlTypeOK' /\ ShimTypeOK'
    BY <1>10, <2>1 DEF JsTimesOut, ControlTypeOK, ShimTypeOK
  <2>4. QED
    BY <1>10, <2>2, <2>3, PartsKept DEF JsTimesOut
<1>11. QED
  BY <1>1, <1>2, <1>3, <1>4, <1>5, <1>6, <1>7, <1>8, <1>9, <1>10 DEF JsStep, LoadStep, Interrupted

LEMMA CheckpointType ==
    TypeOK /\ (DrainJobs \/ DeliverObservers \/ CheckpointDone) => TypeOK'
<1> SUFFICES ASSUME TypeOK, DrainJobs \/ DeliverObservers \/ CheckpointDone PROVE TypeOK'
  OBVIOUS
<1> USE DEF TypeOK, loopVars, jsVars, counterVars, domVars
<1>1. CASE DrainJobs
  <2>1. ShimTypeOK' /\ ControlTypeOK'
    BY <1>1 DEF DrainJobs, RunJs, ShimTypeOK, ControlTypeOK
  <2>2. TrackerTypeOK'
    BY <1>1, LoadsUpdates DEF DrainJobs, TrackerTypeOK
  <2>3. QED
    BY <1>1, <2>1, <2>2, PartsKept DEF DrainJobs
<1>2. CASE DeliverObservers
  <2>1. ShimTypeOK' /\ TrackerTypeOK'
    BY <1>2 DEF DeliverObservers, ShimTypeOK, TrackerTypeOK
  <2>2. ControlTypeOK'
    <3>1. drv \in Driver /\ drv.rounds + 1 \in Nat
      BY DriverUpdates DEF ControlTypeOK
    <3>2. drv' \in Driver
      BY <1>2, <3>1, DriverUpdates DEF DeliverObservers
    <3>3. QED
      BY <1>2, <3>2 DEF DeliverObservers, RunJs, ControlTypeOK
  <2>3. QED
    BY <1>2, <2>1, <2>2, PartsKept DEF DeliverObservers
<1>3. CASE CheckpointDone
  <2>1. ControlTypeOK'
    BY <1>3, DriverUpdates DEF CheckpointDone, ControlTypeOK
  <2>2. QED
    BY <1>3, <2>1, PartsKept DEF CheckpointDone
<1>4. QED
  BY <1>1, <1>2, <1>3

\* Entering uv_run from any of its callers.
LEMMA PollType ==
    ASSUME TypeOK, NEW next \in {"task", "judge", "turn", "loop"}, PollThen(next),
           guarded' \in BOOLEAN, drv' \in Driver
    PROVE  TypeOK'
<1> USE DEF TypeOK, loopVars, jsVars, counterVars, domVars
<1>1. TimersTypeOK'
  BY DEF PollThen, EnterUv, TimersTypeOK, timerVars
<1>2. ControlTypeOK'
  BY DEF PollThen, ControlTypeOK
<1>3. QED
  BY <1>1, <1>2, PartsKept DEF PollThen

LEMMA UvType == TypeOK /\ (UvCallback \/ UvReturns) => TypeOK'
<1> SUFFICES ASSUME TypeOK, UvCallback \/ UvReturns PROVE TypeOK'
  OBVIOUS
<1> USE DEF TypeOK, loopVars, jsVars, counterVars, domVars
<1>1. ASSUME NEW i \in Ids, TimerFired(i) PROVE QueueTypeOK' /\ (UNCHANGED clockVars => TimersTypeOK')
  <2> DEFINE t == [what |-> i, relevant |-> timers[i].relevant /\ ~timers[i].repeat]
  <2>1. i \in DOMAIN timers /\ timers[i] \in Timer
    BY <1>1 DEF TimerFired, Expired, TimersTypeOK
  <2>2. (timers[i].relevant /\ ~timers[i].repeat) \in BOOLEAN
    OBVIOUS
  <2>3. t \in Task
    BY <2>2, EventLoopAssumption DEF Task
  <2>4. QueueTypeOK'
    BY <1>1, <2>3, PostedType DEF TimerFired, Post, QueueTypeOK
  <2>5. DOMAIN timers' \subseteq Ids /\ timers' \in [DOMAIN timers' -> Timer]
    <3>1. CASE timers[i].repeat
      <4>1. now + timers[i].period \in Nat /\ uvNow + timers[i].period \in Nat
        BY <2>1 DEF Timer, TimersTypeOK
      <4>2. [timers[i] EXCEPT !.due = now + timers[i].period,
                              !.fires = uvNow + timers[i].period] \in Timer
        BY <2>1, <4>1 DEF Timer
      <4>3. timers' = [timers EXCEPT ![i].due = now + timers[i].period,
                                     ![i].fires = uvNow + timers[i].period]
        BY <1>1, <3>1 DEF TimerFired
      <4>4. QED
        BY <2>1, <4>2, <4>3 DEF TimersTypeOK
    <3>2. CASE ~timers[i].repeat
      <4>1. timers \in [DOMAIN timers -> Timer] /\ DOMAIN timers \subseteq Ids
        BY DEF TimersTypeOK
      <4>2. timers' = Without(timers, i)
        BY <1>1, <3>2 DEF TimerFired
      <4>3. QED
        BY <4>1, <4>2, WithoutFacts
    <3>3. QED
      BY <3>1, <3>2
  <2>6. QED
    BY <1>1, <2>4, <2>5 DEF TimerFired, TimersTypeOK, clockVars
<1>2. CASE UvCallback
  <2>1. ASSUME FrameTimerFired PROVE QueueTypeOK' /\ TimersTypeOK'
    BY <1>2, <2>1, PartsKept DEF UvCallback, FrameTimerFired, NotArmed, TimersTypeOK, clockVars
  <2>2. ASSUME Land PROVE QueueTypeOK' /\ TimersTypeOK'
    <3>1. [what |-> Net, relevant |-> TRUE] \in Task
      BY PageLoopAssumption DEF Task
    <3>2. ExternalAfterEnd \in Nat
      BY DEF ExternalAfterEnd, QueueTypeOK
    <3>3. QueueTypeOK'
      BY <2>2, <3>1, <3>2, PostedType DEF Land, LandAndPost, QueueTypeOK
    <3>4. QED
      BY <1>2, <2>2, <3>3, PartsKept DEF UvCallback, Land
  <2>3. QueueTypeOK' /\ TimersTypeOK'
    BY <1>1, <1>2, <2>1, <2>2 DEF UvCallback
  <2>4. QED
    BY <1>2, <2>3, PartsKept DEF UvCallback
<1>3. CASE UvReturns
  <2>1. ControlTypeOK'
    BY <1>3 DEF UvReturns, ControlTypeOK
  <2>2. QED
    BY <1>3, <2>1, PartsKept DEF UvReturns
<1>4. QED
  BY <1>2, <1>3

LEMMA TurnType ==
    TypeOK /\ (Turn \/ RunTask \/ NoTask \/ RunFrame \/ NextFrameCallback \/ FrameEnds \/ NoFrame)
        => TypeOK'
<1> SUFFICES ASSUME TypeOK,
                    Turn \/ RunTask \/ NoTask \/ RunFrame \/ NextFrameCallback \/ FrameEnds \/ NoFrame
             PROVE  TypeOK'
  OBVIOUS
<1> USE DEF TypeOK, loopVars, jsVars, counterVars, domVars
<1>1. CASE Turn
  <2>1. drv' \in Driver /\ guarded' \in BOOLEAN
    BY <1>1, DriverUpdates DEF Turn, PollThen, ControlTypeOK
  <2>2. QED
    BY <1>1, <2>1, PollType DEF Turn
<1>2. CASE RunTask
  <2>1. QueueTypeOK'
    BY <1>2 DEF RunTask, TakeTask, QueueTypeOK
  <2>2. ShimTypeOK' /\ TrackerTypeOK'
    <3>1. registry' = registry \/ registry' = Without(registry, Head(tasks).what)
      BY <1>2 DEF RunTask, CompletionRuns, CallbackRuns
    <3>2. DOMAIN registry' \subseteq Ids /\ registry' \in [DOMAIN registry' -> Entry]
      <4>1. registry \in [DOMAIN registry -> Entry] /\ DOMAIN registry \subseteq Ids
        BY DEF ShimTypeOK
      <4>2. CASE registry' = registry
        BY <4>1, <4>2
      <4>3. CASE registry' = Without(registry, Head(tasks).what)
        <5> DEFINE w == Head(tasks).what
        <5>1. registry' = Without(registry, w)
          BY <4>3
        <5> HIDE DEF w
        <5>2. DOMAIN registry' = DOMAIN registry \ {w} /\ registry' \in [DOMAIN registry' -> Entry]
          BY <4>1, <5>1, WithoutFacts
        <5>3. QED
          BY <4>1, <5>2
      <4>4. QED
        BY <3>1, <4>2, <4>3
    <3>3. loads' \in Loads /\ jobs' \in BOOLEAN
      <4>1. \/ loads' = loads /\ jobs' = jobs
            \/ loads' = [loads EXCEPT !.answered = @ + 1] /\ jobs' = TRUE
            \/ loads.dropped > 0 /\ loads' = [loads EXCEPT !.dropped = @ - 1] /\ jobs' = jobs
        BY <1>2 DEF RunTask, CompletionRuns, CallbackRuns
      <4>2. loads \in Loads /\ loads.answered \in Nat /\ loads.dropped \in Nat
        BY LoadsUpdates DEF TrackerTypeOK
      <4>3. loads.dropped > 0 => loads.dropped - 1 \in Nat
        BY <4>2
      <4>4. QED
        <5>1. loads.answered + 1 \in Nat
          BY <4>2
        <5>2. jobs' \in BOOLEAN
          BY <4>1 DEF ShimTypeOK
        <5>3. loads' \in Loads
          BY <4>1, <4>2, <4>3, <5>1, LoadsUpdates
        <5>4. QED
          BY <5>2, <5>3
    <3>4. QED
      BY <1>2, <3>2, <3>3 DEF RunTask, ShimTypeOK, TrackerTypeOK
  <2>3. ControlTypeOK'
    <3>1. drv' \in Driver
      BY <1>2, DriverUpdates DEF RunTask, ControlTypeOK
    <3>2. pc' \in {"js", "check"} /\ ctx' \in {"task", ctx}
      BY <1>2 DEF RunTask, CompletionRuns, CallbackRuns, RunJs
    <3>3. QED
      BY <1>2, <3>1, <3>2 DEF RunTask, ControlTypeOK
  <2>4. QED
    BY <1>2, <2>1, <2>2, <2>3, PartsKept DEF RunTask
<1>3. CASE NoTask
  <2>1. ControlTypeOK'
    BY <1>3 DEF NoTask, ControlTypeOK
  <2>2. QED
    BY <1>3, <2>1, PartsKept DEF NoTask
<1>4. CASE RunFrame
  <2>1. frames' \in Seq(Ids)
    BY <1>4, EmptySeqType DEF RunFrame, TakeFrames
  <2>2. TimersTypeOK'
    BY <1>4, <2>1 DEF RunFrame, TakeFrames, TimersTypeOK, clockVars
  <2>3. drv' \in Driver
    <3>1. CASE frames = <<>>
      BY <1>4, <3>1 DEF RunFrame, ControlTypeOK
    <3>2. CASE frames # <<>>
      <4>1. [drv EXCEPT !.ran = TRUE] \in Driver
        BY DriverUpdates DEF ControlTypeOK
      <4>2. drv' = [[drv EXCEPT !.ran = TRUE] EXCEPT !.batch = frames]
        BY <1>4, <3>2 DEF RunFrame
      <4>3. QED
        BY <4>1, <4>2, DriverUpdates DEF TimersTypeOK
    <3>3. QED
      BY <3>1, <3>2
  <2>4. pc' \in {"turnEnd", "raf"} /\ guarded' \in BOOLEAN /\ after' \in {after, "turnEnd"}
    BY <1>4 DEF RunFrame, ControlTypeOK
  <2>5. ControlTypeOK'
    BY <1>4, <2>3, <2>4 DEF RunFrame, ControlTypeOK
  <2>6. QED
    BY <1>4, <2>2, <2>5, PartsKept DEF RunFrame
<1>5. CASE NextFrameCallback
  <2>1. ShimTypeOK'
    BY <1>5 DEF NextFrameCallback, ShimTypeOK
  <2>2. drv' \in Driver
    <3>1. drv.batch \in Seq(Ids) /\ drv.batch # <<>>
      BY <1>5, DriverUpdates DEF NextFrameCallback, ControlTypeOK
    <3>2. Tail(drv.batch) \in Seq(Ids)
      BY <3>1
    <3>3. QED
      BY <1>5, <3>2, DriverUpdates DEF NextFrameCallback, ControlTypeOK
  <2>3. ControlTypeOK'
    BY <1>5, <2>2 DEF NextFrameCallback, RunJs, ControlTypeOK
  <2>4. QED
    BY <1>5, <2>1, <2>3, PartsKept DEF NextFrameCallback
<1>6. CASE FrameEnds
  <2>1. ControlTypeOK'
    BY <1>6 DEF FrameEnds, ControlTypeOK
  <2>2. QED
    BY <1>6, <2>1, PartsKept DEF FrameEnds
<1>7. CASE NoFrame
  <2>1. ControlTypeOK'
    BY <1>7 DEF NoFrame, ControlTypeOK
  <2>2. QED
    BY <1>7, <2>1, PartsKept DEF NoFrame
<1>8. QED
  BY <1>1, <1>2, <1>3, <1>4, <1>5, <1>6, <1>7

\* wait_for_activity: the alarm it sleeps until is a time.
LEMMA SleepType ==
    ASSUME TypeOK, NEW wait \in Nat, SleepFor(wait)
    PROVE  pc' = "sleep" /\ drv' \in Driver
<1> USE DEF TypeOK
<1>1. PICK d \in Alarms \cup {wait} :
         drv' = [drv EXCEPT !.wakeAt = Earlier(now + d, MaxNow),
                            !.iter = IF drv.call = "idle" THEN drv.iter + 1 ELSE drv.iter]
  BY DEF SleepFor
<1>2. Alarms \subseteq Nat
  <2>1. \A i \in DOMAIN timers : Minus(timers[i].fires, uvNow) \in Nat
    BY MinusType DEF TimersTypeOK, Timer
  <2>2. Minus(frameTimer.fires, uvNow) \in Nat
    BY MinusType DEF TimersTypeOK
  <2>3. QED
    BY <2>1, <2>2 DEF Alarms
<1>3. d \in Nat
  BY <1>1, <1>2
<1>4. Earlier(now + d, MaxNow) \in Nat
  BY <1>3, EventLoopAssumption DEF Earlier, TimersTypeOK
<1>5. drv \in Driver /\ (IF drv.call = "idle" THEN drv.iter + 1 ELSE drv.iter) \in Nat
  BY DriverUpdates DEF ControlTypeOK
<1>6. [drv EXCEPT !.wakeAt = Earlier(now + d, MaxNow)] \in Driver
  BY <1>4, <1>5, DriverUpdates
<1>7. drv' = [[drv EXCEPT !.wakeAt = Earlier(now + d, MaxNow)]
                 EXCEPT !.iter = IF drv.call = "idle" THEN drv.iter + 1 ELSE drv.iter]
  BY <1>1
<1>8. drv' \in Driver
  BY <1>5, <1>6, <1>7, DriverUpdates
<1>9. QED
  BY <1>8 DEF SleepFor

LEMMA IdleType ==
    TypeOK /\ (IdleBudgetStarts \/ IdleIterationsSpent \/ TurnEnds \/ WakeUp) => TypeOK'
<1> SUFFICES ASSUME TypeOK, IdleBudgetStarts \/ IdleIterationsSpent \/ TurnEnds \/ WakeUp
             PROVE  TypeOK'
  OBVIOUS
<1> USE DEF TypeOK, loopVars, jsVars, counterVars, domVars
<1>1. CASE IdleBudgetStarts
  <2>1. Earlier(now + WaitTime, MaxNow) \in Nat
    BY SMTT(40), EventLoopAssumption, PageLoopAssumption DEF Earlier, TimersTypeOK
  <2>2. drv' \in Driver
    BY <1>1, <2>1, DriverUpdates DEF IdleBudgetStarts, ControlTypeOK
  <2>3. ControlTypeOK'
    BY <1>1, <2>2 DEF IdleBudgetStarts, ControlTypeOK
  <2>4. QED
    BY <1>1, <2>3, PartsKept DEF IdleBudgetStarts
<1>2. CASE IdleIterationsSpent
  <2>1. ControlTypeOK'
    BY <1>2, NoRunType DEF IdleIterationsSpent, Leaves, ControlTypeOK
  <2>2. QED
    BY <1>2, <2>1, PartsKept DEF IdleIterationsSpent
<1>3. CASE TurnEnds
  <2>1. drv \in Driver /\ drv.iter + 1 \in Nat /\ drv.deadline \in Nat /\ now \in Nat
    BY DriverUpdates DEF ControlTypeOK, TimersTypeOK
  <2>2. /\ drv' \in Driver /\ guarded' \in BOOLEAN
        /\ pc' \in {"loop", "turn", "out", "sleep"}
    <3>1. CASE drv.call # "idle"
      BY <1>3, <2>1, <3>1 DEF TurnEnds, ControlTypeOK
    <3>2. CASE drv.call = "idle" /\ drv.ran
      BY <1>3, <2>1, <3>2, DriverUpdates DEF TurnEnds, ControlTypeOK
    <3>3. CASE drv.call = "idle" /\ ~drv.ran /\ (Idle \/ now >= drv.deadline)
      BY <1>3, <3>3, NoRunType DEF TurnEnds, Leaves
    <3>4. CASE drv.call = "idle" /\ ~drv.ran /\ ~(Idle \/ now >= drv.deadline)
      <4>1. SleepFor(drv.deadline - now) /\ UNCHANGED guarded
        BY <1>3, <3>4 DEF TurnEnds
      <4>2. drv.deadline - now \in Nat
        BY <2>1, <3>4
      <4>3. QED
        BY <4>1, <4>2, SleepType DEF ControlTypeOK
    <3>5. QED
      BY <3>1, <3>2, <3>3, <3>4
  <2>3. ControlTypeOK'
    BY <1>3, <2>2 DEF TurnEnds, ControlTypeOK
  <2>4. QED
    BY <1>3, <2>3, PartsKept DEF TurnEnds
<1>4. CASE WakeUp
  <2>1. drv' \in Driver /\ guarded' \in BOOLEAN
    BY <1>4, DriverUpdates DEF WakeUp, PollThen, ControlTypeOK
  <2>2. CASE drv.call = "idle"
    BY <1>4, <2>1, <2>2, PollType DEF WakeUp
  <2>3. CASE drv.call # "idle"
    BY <1>4, <2>1, <2>3, PollType DEF WakeUp
  <2>4. QED
    BY <2>2, <2>3
<1>5. QED
  BY <1>1, <1>2, <1>3, <1>4

LEMMA TrackerAtJudgeType == TypeOK => TrackerAtJudge \in [last : Nat, synced : BOOLEAN]
BY DEF TypeOK, TrackerTypeOK, TimersTypeOK, TrackerAtJudge

LEMMA ReadyType ==
    TypeOK /\ (\/ ReadyIteration \/ ReadyPoll
               \/ ReadyVerdict \/ NotReadyVerdict \/ ReadyTurn \/ ReadySleep) => TypeOK'
<1> SUFFICES ASSUME TypeOK,
                    \/ ReadyIteration \/ ReadyPoll
                    \/ ReadyVerdict \/ NotReadyVerdict \/ ReadyTurn \/ ReadySleep
             PROVE  TypeOK'
  OBVIOUS
<1> USE DEF TypeOK, loopVars, jsVars, counterVars, domVars
<1>1. CASE ReadyIteration
  <2>1. drv \in Driver /\ drv.iter + 1 \in Nat
    BY DriverUpdates DEF ControlTypeOK
  <2>2. drv' \in Driver
    BY <1>1, <2>1, DriverUpdates DEF ReadyIteration
  <2>3. ControlTypeOK'
    BY <1>1, <2>2 DEF ReadyIteration, ControlTypeOK
  <2>4. QED
    BY <1>1, <2>3, PartsKept DEF ReadyIteration
<1>2. CASE ReadyPoll
  BY <1>2, PollType DEF ReadyPoll, PollThen, ControlTypeOK
<1>3. ASSUME Judging, drv' \in Driver, guarded' \in BOOLEAN, pc' \in {"out", "turn", "sleep"}
      PROVE  TypeOK'
  <2>1. TrackerTypeOK'
    BY <1>3, TrackerAtJudgeType DEF Judging, TrackerTypeOK
  <2>2. ControlTypeOK'
    BY <1>3 DEF Judging, ControlTypeOK
  <2>3. QED
    BY <1>3, <2>1, <2>2, PartsKept DEF Judging
<1>4. CASE ReadyVerdict \/ NotReadyVerdict
  BY <1>3, <1>4, NoRunType DEF ReadyVerdict, NotReadyVerdict, Leaves
<1>5. CASE ReadyTurn
  BY <1>3, <1>5 DEF ReadyTurn, ControlTypeOK
<1>6. CASE ReadySleep
  <2>1. now \in Nat /\ uvNow \in Nat /\ drv.deadline \in Nat
    BY DriverUpdates DEF ControlTypeOK, TimersTypeOK
  <2>2. drv.deadline - now \in Nat
    BY <1>6, <2>1 DEF ReadySleep, BudgetSpent
  <2>3. tracker'.last \in Nat
    BY <1>6, TrackerAtJudgeType DEF ReadySleep, Judging
  <2>4. Advances(tracker') \subseteq Nat
    <3>1. WakeUpDelays \subseteq Nat
      <4>1. \A i \in DOMAIN timers : Minus(timers[i].due, now) \in Nat
        BY MinusType DEF TimersTypeOK, Timer
      <4>2. Minus(frameTimer.due, now) \in Nat
        BY MinusType DEF TimersTypeOK
      <4>3. QED
        BY <4>1, <4>2 DEF WakeUpDelays
    <3>2. ~DomStable(tracker') => Minus(Window, now - tracker'.last) \in Nat
      BY <2>1, <2>3, PageLoopAssumption DEF DomStable, Minus
    <3>3. QED
      BY <3>1, <3>2 DEF Advances
  <2>5. PICK wait \in Advances(tracker') \cup {drv.deadline - now} : SleepFor(AtLeastOne(wait))
    BY <1>6 DEF ReadySleep
  <2>6. AtLeastOne(wait) \in Nat
    BY <2>2, <2>4 DEF AtLeastOne
  <2>7. QED
    BY <1>3, <1>6, <2>5, <2>6, SleepType DEF ReadySleep, ControlTypeOK
<1>7. QED
  BY <1>1, <1>2, <1>4, <1>5, <1>6

LEMMA ClockType == TypeOK /\ ClockTick => TypeOK'
<1> SUFFICES ASSUME TypeOK, ClockTick PROVE TypeOK'
  OBVIOUS
<1>1. TimersTypeOK'
  BY DEF TypeOK, ClockTick, Tick, TimersTypeOK, timerVars
<1>2. QED
  BY <1>1, PartsKept DEF TypeOK, ClockTick, jsVars, counterVars, domVars

\* Every step keeps the state well typed.
LEMMA TypeStep == TypeOK /\ [Next]_vars => TypeOK'
<1> SUFFICES ASSUME TypeOK, [Next]_vars PROVE TypeOK'
  OBVIOUS
<1>1. CASE DriverStep
  BY <1>1, CheckpointType, UvType, TurnType, IdleType, ReadyType DEF DriverStep
<1>2. CASE UNCHANGED vars
  BY <1>2, PartsKept DEF TypeOK, vars, loopVars, jsVars, counterVars, domVars
<1>3. QED
  BY <1>1, <1>2, EmbedderType, JsType, ClockType DEF Next

\* TypeOK holds in every reachable state, whatever the ids, bounds and delays.
THEOREM TypeCorrect == Spec => []TypeOK
<1>1. QED
  BY InitType, TypeStep, PTL DEF Spec

-----------------------------------------------------------------------------
(* No callback is lost or runs twice. CallbackIsBacked is inductive together *)
(* with TypeOK; what it needs of the queue is in the next three lemmas.      *)

LEMMA AppendOther ==
    ASSUME NEW q \in Seq(Task), NEW t \in Task, NEW i, t.what # i
    PROVE  /\ OnceIn(q, i) => OnceIn(Append(q, t), i)
           /\ NowhereIn(q, i) => NowhereIn(Append(q, t), i)
<1>1. Len(Append(q, t)) = Len(q) + 1 /\ Len(q) \in Nat
  OBVIOUS
<1>2. /\ \A k \in 1..Len(q) : Append(q, t)[k] = q[k]
      /\ Append(q, t)[Len(q) + 1] = t
  OBVIOUS
<1>3. NowhereIn(q, i) => NowhereIn(Append(q, t), i)
  BY <1>1, <1>2 DEF NowhereIn
<1>4. ASSUME OnceIn(q, i) PROVE OnceIn(Append(q, t), i)
  <2>1. PICK k \in 1..Len(q) : q[k].what = i /\ \A j \in 1..Len(q) : q[j].what = i => j = k
    BY <1>4 DEF OnceIn
  <2>2. k \in 1..(Len(q) + 1) /\ Append(q, t)[k].what = i
    BY <1>2, <2>1
  <2>3. ASSUME NEW j \in 1..(Len(q) + 1), Append(q, t)[j].what = i PROVE j = k
    BY <1>1, <1>2, <2>1, <2>3
  <2>4. QED
    BY <1>1, <2>2, <2>3 DEF OnceIn
<1>5. QED
  BY <1>3, <1>4

LEMMA AppendSame ==
    ASSUME NEW q \in Seq(Task), NEW t \in Task, NowhereIn(q, t.what)
    PROVE  OnceIn(Append(q, t), t.what)
<1>1. Len(Append(q, t)) = Len(q) + 1 /\ Len(q) \in Nat
  OBVIOUS
<1>2. /\ \A k \in 1..Len(q) : Append(q, t)[k] = q[k]
      /\ Append(q, t)[Len(q) + 1] = t
  OBVIOUS
<1>3. ASSUME NEW j \in 1..(Len(q) + 1), Append(q, t)[j].what = t.what PROVE j = Len(q) + 1
  BY <1>1, <1>2, <1>3 DEF NowhereIn
<1>4. Len(q) + 1 \in 1..(Len(q) + 1)
  BY <1>1
<1>5. QED
  BY <1>1, <1>2, <1>3, <1>4 DEF OnceIn

LEMMA TailOther ==
    ASSUME NEW q \in Seq(Task), q # <<>>, NEW i
    PROVE  /\ Head(q).what # i /\ OnceIn(q, i) => OnceIn(Tail(q), i)
           /\ NowhereIn(q, i) => NowhereIn(Tail(q), i)
<1>1. Len(Tail(q)) = Len(q) - 1 /\ Len(q) \in Nat \ {0} /\ Head(q) = q[1]
  OBVIOUS
<1>2. \A k \in 1..(Len(q) - 1) : Tail(q)[k] = q[k + 1]
  OBVIOUS
<1>3. NowhereIn(q, i) => NowhereIn(Tail(q), i)
  BY <1>1, <1>2 DEF NowhereIn
<1>4. ASSUME Head(q).what # i, OnceIn(q, i) PROVE OnceIn(Tail(q), i)
  <2>1. PICK k \in 1..Len(q) : q[k].what = i /\ \A j \in 1..Len(q) : q[j].what = i => j = k
    BY <1>4 DEF OnceIn
  <2>2. k - 1 \in 1..(Len(q) - 1) /\ Tail(q)[k - 1].what = i
    <3>1. k # 1
      BY <1>1, <1>4, <2>1
    <3>2. k - 1 \in 1..(Len(q) - 1) /\ (k - 1) + 1 = k
      BY <1>1, <3>1
    <3>3. QED
      BY <1>2, <2>1, <3>2
  <2>3. ASSUME NEW j \in 1..(Len(q) - 1), Tail(q)[j].what = i PROVE j = k - 1
    <3>1. j + 1 \in 1..Len(q) /\ q[j + 1].what = i
      BY <1>1, <1>2, <2>3
    <3>2. j + 1 = k
      BY <2>1, <3>1
    <3>3. QED
      BY <3>2
  <2>4. QED
    BY <1>1, <2>2, <2>3 DEF OnceIn
<1>5. QED
  BY <1>3, <1>4

\* Steps that touch neither the queue, the timers nor the registry.
LEMMA BackedKept ==
    CallbackIsBacked /\ UNCHANGED <<tasks, timers, registry, shutDown>> => CallbackIsBacked'
BY DEF CallbackIsBacked

\* queueTask: the new id is on exactly one side.
LEMMA BackedSetTask ==
    ASSUME TypeOK, CallbackIsBacked, ~shutDown,
           NEW i \in Ids, NEW d \in Delays, NEW interval \in BOOLEAN, NEW relevant \in BOOLEAN,
           SetTask(i, d, interval, relevant)
    PROVE  CallbackIsBacked'
<1> DEFINE e == [interval |-> interval, relevant |-> relevant]
           k == [what |-> i, relevant |-> relevant]
<1>1. /\ i \notin DOMAIN registry /\ i \notin DOMAIN timers /\ NowhereIn(tasks, i)
      /\ registry' = With(registry, i, e)
  BY DEF SetTask, Fresh, NowhereIn
<1>2. e \in Entry /\ e.interval = interval
  BY DEF Entry
<1>3. k \in Task /\ k.what = i
  BY EventLoopAssumption DEF Task
<1>4. /\ registry \in [DOMAIN registry -> Entry] /\ timers \in [DOMAIN timers -> Timer]
      /\ tasks \in Seq(Task)
  BY DEF TypeOK, ShimTypeOK, TimersTypeOK, QueueTypeOK
<1> HIDE DEF e
<1>5. /\ DOMAIN registry' = DOMAIN registry \cup {i} /\ registry'[i].interval = interval
      /\ \A j \in DOMAIN registry : registry'[j] = registry[j]
  BY <1>1, <1>2 DEF With
<1>6. CASE ~interval /\ d = 0
  <2>1. tasks' = Append(tasks, k) /\ timers' = timers
    BY <1>6 DEF SetTask, Post, Posted, timerVars
  <2> HIDE DEF k
  <2>2. OnceIn(tasks', i)
    BY <1>1, <1>3, <1>4, <2>1, AppendSame
  <2>3. \A j : j # i => /\ OnceIn(tasks, j) => OnceIn(tasks', j)
                        /\ NowhereIn(tasks, j) => NowhereIn(tasks', j)
    BY <1>3, <1>4, <2>1, AppendOther
  <2>4. QED
    BY <1>1, <1>5, <1>6, <2>1, <2>2, <2>3 DEF CallbackIsBacked
<1>7. CASE ~(~interval /\ d = 0)
  <2> DEFINE t == [due |-> now + d, fires |-> uvNow + d, period |-> AtLeastOne(d),
                   repeat |-> interval, relevant |-> relevant /\ ~interval]
  <2>1. tasks' = tasks /\ timers' = With(timers, i, t)
    BY <1>7 DEF SetTask, ScheduleTimer, queueVars
  <2>2. t.repeat = interval
    OBVIOUS
  <2> HIDE DEF t
  <2>3. /\ DOMAIN timers' = DOMAIN timers \cup {i} /\ timers'[i] = t
        /\ \A j \in DOMAIN timers : timers'[j] = timers[j]
    BY <1>1, <2>1 DEF With
  <2>4. QED
    BY <1>1, <1>5, <2>1, <2>2, <2>3 DEF CallbackIsBacked
<1>8. QED
  BY <1>6, <1>7

\* timer_fired: a one-shot moves from the timers to the queue.
LEMMA BackedTimerFired ==
    ASSUME TypeOK, CallbackIsBacked, ~shutDown, NEW i \in Ids, TimerFired(i),
           UNCHANGED registry
    PROVE  CallbackIsBacked'
<1> DEFINE t == [what |-> i, relevant |-> timers[i].relevant /\ ~timers[i].repeat]
<1>1. /\ i \in DOMAIN timers /\ timers \in [DOMAIN timers -> Timer] /\ tasks \in Seq(Task)
      /\ tasks' = Append(tasks, t)
  BY DEF TimerFired, Expired, Post, Posted, TypeOK, TimersTypeOK, QueueTypeOK
<1>2. t \in Task /\ t.what = i
  BY EventLoopAssumption DEF Task
<1> HIDE DEF t
<1>3. \A j : j # i => /\ OnceIn(tasks, j) => OnceIn(tasks', j)
                      /\ NowhereIn(tasks, j) => NowhereIn(tasks', j)
  BY <1>1, <1>2, AppendOther
<1>4. CASE timers[i].repeat
  <2>1. /\ DOMAIN timers' = DOMAIN timers
        /\ \A j \in DOMAIN timers : timers'[j].repeat = timers[j].repeat
    BY <1>1, <1>4 DEF TimerFired, Timer
  <2>2. QED
    BY <1>1, <1>3, <1>4, <2>1 DEF CallbackIsBacked
<1>5. CASE ~timers[i].repeat
  <2>1. /\ DOMAIN timers' = DOMAIN timers \ {i}
        /\ \A j \in DOMAIN timers \ {i} : timers'[j] = timers[j]
    BY <1>5 DEF TimerFired, Without
  <2>2. NowhereIn(tasks, i) /\ ~registry[i].interval
    BY <1>1, <1>5 DEF CallbackIsBacked
  <2>3. OnceIn(tasks', i)
    BY <1>1, <1>2, <2>2, AppendSame
  <2>4. QED
    BY <1>1, <1>3, <2>1, <2>2, <2>3 DEF CallbackIsBacked
<1>6. QED
  BY <1>4, <1>5

\* runTask: a one-shot leaves the queue and the registry together.
LEMMA BackedRunTask ==
    ASSUME TypeOK, CallbackIsBacked, ~shutDown, RunTask
    PROVE  CallbackIsBacked'
<1> DEFINE w == Head(tasks).what
<1>1. /\ tasks \in Seq(Task) /\ tasks # <<>> /\ tasks' = Tail(tasks) /\ timers' = timers
  BY DEF RunTask, TakeTask, timerVars, TypeOK, QueueTypeOK
<1>2. 1 \in 1..Len(tasks) /\ Head(tasks) = tasks[1]
  BY <1>1
<1>3. ~NowhereIn(tasks, w)
  BY <1>2 DEF NowhereIn
<1>4. \A j : /\ j # w /\ OnceIn(tasks, j) => OnceIn(tasks', j)
             /\ NowhereIn(tasks, j) => NowhereIn(tasks', j)
  BY <1>1, TailOther
<1>5. \/ registry' = registry /\ (w \in DOMAIN registry => registry[w].interval)
      \/ w \in DOMAIN registry /\ ~registry[w].interval /\ registry' = Without(registry, w)
  BY PageLoopAssumption DEF RunTask, CompletionRuns, CallbackRuns, TypeOK, ShimTypeOK
<1> HIDE DEF w
<1>6. CASE registry' = registry /\ (w \in DOMAIN registry => registry[w].interval)
  BY <1>1, <1>3, <1>4, <1>6 DEF CallbackIsBacked
<1>7. CASE w \in DOMAIN registry /\ ~registry[w].interval /\ registry' = Without(registry, w)
  <2>1. /\ DOMAIN registry' = DOMAIN registry \ {w}
        /\ \A j \in DOMAIN registry \ {w} : registry'[j] = registry[j]
    BY <1>7 DEF Without
  <2>2. w \notin DOMAIN timers
    BY <1>3, <1>7 DEF CallbackIsBacked
  <2>3. QED
    BY <1>1, <1>4, <2>1, <2>2 DEF CallbackIsBacked
<1>8. QED
  BY <1>5, <1>6, <1>7

\* A completion in the queue is nobody's callback.
LEMMA BackedCompletion ==
    ASSUME TypeOK, CallbackIsBacked, ~shutDown, tasks' = Posted(NetTask),
           UNCHANGED <<timers, registry, shutDown>>
    PROVE  CallbackIsBacked'
<1>1. /\ tasks \in Seq(Task) /\ tasks' = Append(tasks, NetTask)
      /\ NetTask \in Task /\ NetTask.what = Net
  BY NetTaskType DEF TypeOK, QueueTypeOK, Posted, NetTask
<1>2. DOMAIN registry \subseteq Ids /\ DOMAIN timers \subseteq Ids /\ Net \notin Ids
  BY PageLoopAssumption DEF TypeOK, ShimTypeOK, TimersTypeOK
<1>3. \A j \in Ids : /\ OnceIn(tasks, j) => OnceIn(tasks', j)
                     /\ NowhereIn(tasks, j) => NowhereIn(tasks', j)
  BY <1>1, <1>2, AppendOther
<1>4. QED
  BY <1>1, <1>2, <1>3 DEF CallbackIsBacked

LEMMA BackedLoad ==
    ASSUME TypeOK, CallbackIsBacked, ~shutDown, LoadStep
    PROVE  CallbackIsBacked'
<1>1. UNCHANGED <<timers, registry, shutDown>> /\ tasks' \in {tasks, Posted(NetTask)}
  BY LoadStepKeeps DEF loadVars, timerVars
<1>2. QED
  BY <1>1, BackedKept, BackedCompletion

LEMMA BackedStep == TypeOK /\ CallbackIsBacked /\ [Next]_vars => CallbackIsBacked'
<1> SUFFICES ASSUME TypeOK, CallbackIsBacked, [Next]_vars, ~shutDown' PROVE CallbackIsBacked'
  BY DEF CallbackIsBacked
<1> USE DEF loopVars, queueVars, timerVars, jsVars
<1>1. CASE EmbedderStep
  BY <1>1, BackedKept
     DEF EmbedderStep, EvalJs, EmbedderMutates, RunUntilIdle, RunUntilReady, StartRun, Destroy,
         Shutdown
<1>2. CASE JsStep
  <2>1. ~shutDown
    <3>1. CASE LoadStep
      BY <3>1, LoadStepKeeps
    <3>2. CASE ~LoadStep
      BY <1>2, <3>2, ZenonT(60) DEF JsStep, LoadStep, SetTask, Post, ScheduleTimer, ClearTask,
                RequestAnimationFrame, CancelAnimationFrame, MutateDom, QueueJob,
                JsReturns, JsThrows, Interrupted, JsTimesOut
    <3>3. QED
      BY <3>1, <3>2
  <2>2. ASSUME NEW i \in Ids, ClearTask(i) PROVE CallbackIsBacked'
    <3>1. /\ DOMAIN registry' = DOMAIN registry \ {i} /\ DOMAIN timers' = DOMAIN timers \ {i}
          /\ \A j \in DOMAIN registry \ {i} : registry'[j] = registry[j]
          /\ \A j \in DOMAIN timers \ {i} : timers'[j] = timers[j]
          /\ tasks' = tasks
      BY <2>2 DEF ClearTask, CancelTimer, Without
    <3>2. QED
      BY <2>1, <3>1 DEF CallbackIsBacked
  <2>3. ASSUME NEW i \in Ids, RequestAnimationFrame(i) \/ CancelAnimationFrame(i)
        PROVE  CallbackIsBacked'
    BY <2>3, BackedKept
       DEF RequestAnimationFrame, CancelAnimationFrame, RequestFrame, CancelFrame
  <2>4. CASE LoadStep
    BY <2>1, <2>4, BackedLoad
  <2>5. CASE QueueJob \/ JsReturns \/ JsThrows
    BY <2>5, BackedKept DEF QueueJob, JsReturns, JsThrows
  <2>6. ASSUME NEW observed \in BOOLEAN, MutateDom(observed) PROVE CallbackIsBacked'
    BY <2>6, BackedKept DEF MutateDom
  <2>7. CASE Interrupted
    BY <2>7, BackedKept DEF Interrupted, JsTimesOut
  <2>8. QED
    BY <1>2, <2>1, <2>2, <2>3, <2>4, <2>5, <2>6, <2>7, BackedSetTask DEF JsStep, LoadStep
<1>3. CASE UvCallback
  <2>1. ~shutDown
    BY <1>3 DEF UvCallback, TimerFired, Post, FrameTimerFired, Land, LandAndPost
  <2>2. CASE FrameTimerFired
    BY <1>3, <2>2, BackedKept DEF UvCallback, FrameTimerFired
  <2>3. CASE Land
    <3>1. tasks' = Posted(NetTask) /\ UNCHANGED <<timers, registry, shutDown>>
      BY <1>3, <2>3 DEF UvCallback, Land, LandAndPost, NetTask
    <3>2. QED
      BY <2>1, <3>1, BackedCompletion
  <2>4. QED
    BY <1>3, <2>1, <2>2, <2>3, BackedTimerFired DEF UvCallback
<1>4. CASE RunTask
  <2>1. ~shutDown
    BY <1>4 DEF RunTask, TakeTask
  <2>2. QED
    BY <1>4, <2>1, BackedRunTask
<1>5. CASE DriverStep /\ ~UvCallback /\ ~RunTask
  <2>1. UNCHANGED <<tasks, timers, registry, shutDown>>
    BY <1>5 DEF DriverStep, DrainJobs, DeliverObservers, CheckpointDone, Turn, PollThen,
                UvReturns, NoTask, RunFrame, TakeFrames, NextFrameCallback, FrameEnds, NoFrame,
                IdleBudgetStarts, IdleIterationsSpent, TurnEnds, WakeUp, ReadyIteration,
                ReadyPoll, ReadyVerdict, NotReadyVerdict, ReadyTurn, ReadySleep, Judging
  <2>2. QED
    BY <2>1, BackedKept
<1>6. CASE ClockTick
  BY <1>6, BackedKept DEF ClockTick
<1>7. CASE UNCHANGED vars
  BY <1>7, BackedKept DEF vars
<1>8. QED
  BY <1>1, <1>2, <1>3, <1>4, <1>5, <1>6, <1>7 DEF Next

\* No timeout or interval the page set is ever lost, and no one-shot can run
\* twice: in every reachable state each has exactly one timer or queued task.
THEOREM CallbacksAreBacked == Spec => []CallbackIsBacked
<1>1. Init => CallbackIsBacked
  BY DEF Init, TimersInit, CallbackIsBacked
<1>2. QED
  BY <1>1, BackedStep, TypeCorrect, PTL DEF Spec

-----------------------------------------------------------------------------
(* The tracker's counters are the work they stand for.  The strengthening:    *)
(* marks are owed only while the jobs that lower them run, the reactions that *)
(* will owe some are among the jobs, no more completions are dropped than are *)
(* queued, and no script waits for nothing.                                   *)

Owing ==
    /\ owed # NothingOwed => pc = "js" /\ ctx = "check"
    /\ loads.answered > 0 => jobs
    /\ loads.dropped <= Cardinality(Landed)
    /\ NoScriptStranded

Working == external + Live + loads.answered + owed.net + loads.waiting
Deliveries == (IF flush THEN 1 ELSE 0) + owed.observing

NetCovered == net = Working + loads.lost
ObservingCovered == observing >= Deliveries /\ (~timedOut => observing = Deliveries)
Covered == NetCovered /\ ObservingCovered

Work == ~shutDown => Owing /\ Covered

LEMMA WorkCovers == Work => CountersCoverWork
BY DEF Work, CountersCoverWork, Covered, NetCovered, ObservingCovered, Working, Deliveries

\* The completions in a queue.
NetIn(q) == {k \in 1 .. Len(q) : q[k].what = Net}

LEMMA NetInFinite ==
    ASSUME NEW q \in Seq(Task)
    PROVE  IsFiniteSet(NetIn(q)) /\ Cardinality(NetIn(q)) \in Nat
<1>1. Len(q) \in Nat /\ NetIn(q) \subseteq 1 .. Len(q)
  BY DEF NetIn
<1>2. IsFiniteSet(1 .. Len(q))
  BY <1>1, FS_Interval
<1>3. IsFiniteSet(NetIn(q))
  BY <1>1, <1>2, FS_Subset
<1>4. QED
  BY <1>3, FS_CardinalityType

LEMMA LandedFinite ==
    ASSUME tasks \in Seq(Task)
    PROVE  IsFiniteSet(Landed) /\ Cardinality(Landed) \in Nat
BY NetInFinite DEF Landed, NetIn

\* EventLoop::post: a completion counts, anything else does not.
LEMMA LandedPosted ==
    ASSUME tasks \in Seq(Task), NEW t \in Task, tasks' = Append(tasks, t)
    PROVE  Cardinality(Landed') = Cardinality(Landed) + IF t.what = Net THEN 1 ELSE 0
<1> DEFINE n == Len(tasks) + 1
           a == Append(tasks, t)
<1>1. /\ Len(tasks) \in Nat /\ Len(a) = n /\ a[n] = t
      /\ \A k \in 1 .. Len(tasks) : a[k] = tasks[k]
      /\ 1 .. n = (1 .. Len(tasks)) \cup {n} /\ n \notin 1 .. Len(tasks)
  OBVIOUS
<1> HIDE DEF a
<1>2. tasks' = a
  BY DEF a
<1>3. Landed' = IF t.what = Net THEN Landed \cup {n} ELSE Landed
  BY <1>1, <1>2 DEF Landed
<1>4. n \notin Landed
  BY <1>1 DEF Landed
<1>5. Cardinality(Landed \cup {n}) = Cardinality(Landed) + 1
  BY <1>4, LandedFinite, FS_AddElement
<1>6. QED
  BY <1>3, <1>5, LandedFinite

\* EventLoop::run_one_task: the head leaves, and counts no more.
LEMMA LandedTaken ==
    ASSUME tasks \in Seq(Task), tasks # <<>>, tasks' = Tail(tasks)
    PROVE  Cardinality(Landed) = Cardinality(Landed') + IF Head(tasks).what = Net THEN 1 ELSE 0
<1> DEFINE rest == Landed \ {1}
<1>1. /\ Len(tasks) \in Nat \ {0} /\ Head(tasks) = tasks[1] /\ Len(tasks') = Len(tasks) - 1
      /\ \A k \in 1 .. Len(tasks') : tasks'[k] = tasks[k + 1]
  OBVIOUS
<1>2. \A k : k \in Landed' <=> k \in Nat \ {0} /\ k + 1 \in rest
  BY <1>1 DEF Landed
<1>3. Landed' \subseteq Nat /\ rest \subseteq Nat
  BY <1>1 DEF Landed
<1>4. IsFiniteSet(Landed) /\ IsFiniteSet(rest) /\ Cardinality(Landed) \in Nat
  BY LandedFinite, FS_RemoveElement
<1>5. Cardinality(Landed') = Cardinality(rest)
  <2> DEFINE f == [k \in rest |-> k - 1]
  <2>1. \A k \in rest : k - 1 \in Landed'
    BY <1>1, <1>2, <1>3 DEF Landed
  <2>2. \A k, m \in rest : k - 1 = m - 1 => k = m
    BY <1>3
  <2>3. \A j \in Landed' : \E k \in rest : k - 1 = j
    BY <1>2, <1>3
  <2>4. f \in Bijection(rest, Landed')
    BY <2>1, <2>2, <2>3 DEF Bijection, Injection, Surjection, IsInjective
  <2>5. ExistsBijection(rest, Landed')
    BY <2>4 DEF ExistsBijection
  <2>6. QED
    BY <1>4, <2>5, FS_Bijection
<1>6. 1 \in Landed <=> Head(tasks).what = Net
  BY <1>1 DEF Landed
<1>7. Cardinality(rest) = IF 1 \in Landed THEN Cardinality(Landed) - 1 ELSE Cardinality(Landed)
  BY <1>4, FS_RemoveElement
<1>8. QED
  BY <1>4, <1>5, <1>6, <1>7

\* What the arithmetic below is about.
LEMMA WorkNumbers ==
    ASSUME TypeOK
    PROVE  /\ external \in Nat /\ Cardinality(Landed) \in Nat /\ net \in Nat /\ observing \in Nat
           /\ owed.net \in Nat /\ owed.observing \in Nat /\ tasks \in Seq(Task)
           /\ loads.answered \in Nat /\ loads.waiting \in Nat /\ loads.lost \in Nat
           /\ loads.dropped \in Nat /\ Live \in Nat
           /\ loads.dropped <= Cardinality(Landed) => Live = Cardinality(Landed) - loads.dropped
<1>1. /\ external \in Nat /\ Cardinality(Landed) \in Nat /\ tasks \in Seq(Task)
      /\ net \in Nat /\ observing \in Nat /\ owed \in [net : Nat, observing : Nat]
      /\ loads \in Loads
  BY LandedFinite DEF TypeOK, QueueTypeOK, TrackerTypeOK
<1>2. /\ loads.answered \in Nat /\ loads.waiting \in Nat /\ loads.lost \in Nat
      /\ loads.dropped \in Nat
  BY <1>1, LoadsUpdates
<1>3. QED
  BY <1>1, <1>2 DEF Live, Minus

\* A step that neither posts, takes, counts nor owes.
LEMMA CoveredKept ==
    ASSUME Covered, UNCHANGED <<tasks, external, net, observing, flush, owed, loads>>,
           timedOut => timedOut'
    PROVE  Covered'
BY DEF Covered, NetCovered, ObservingCovered, Working, Deliveries, Live, Landed

LEMMA OwingKept ==
    ASSUME Owing, UNCHANGED <<tasks, external, owed, loads>>, timedOut => timedOut',
           jobs => jobs' \/ loads.answered = 0,
           owed = NothingOwed \/ UNCHANGED <<pc, ctx>>
    PROVE  Owing'
<1>1. Landed' = Landed
  BY DEF Landed
<1>2. NoScriptStranded'
  BY <1>1 DEF Owing, NoScriptStranded, Live
<1>3. QED
  BY <1>1, <1>2 DEF Owing

\* Steps that post, take or move a load: what the sums say of each.
LEMMA OwingMoved ==
    ASSUME loads'.dropped <= Cardinality(Landed'), NoScriptStranded',
           loads'.answered > 0 => jobs',
           owed' = NothingOwed \/ (pc' = "js" /\ ctx' = "check")
    PROVE  Owing'
BY DEF Owing

\* loadHostResourceAsync: one load more, in flight, queued or answered.
LEMMA StartedOne ==
    ASSUME TypeOK, ~shutDown, NEW c \in Loads, LoadStarts(c), c.dropped = loads.dropped,
           c.answered = loads.answered
    PROVE  /\ loads'.dropped = loads.dropped /\ loads'.waiting = c.waiting /\ loads'.lost = c.lost
           /\ external' + Cardinality(Landed') + loads'.answered
                 = external + Cardinality(Landed) + loads.answered + 1
           /\ external' \in Nat /\ loads'.answered \in Nat
           /\ Cardinality(Landed') \in Nat /\ Cardinality(Landed') >= Cardinality(Landed)
           /\ loads'.answered > loads.answered => jobs'
           /\ jobs => jobs'
<1>0. external \in Nat /\ Cardinality(Landed) \in Nat /\ c.answered \in Nat /\ tasks \in Seq(Task)
  BY WorkNumbers, LoadsUpdates
<1>1. CASE BeginExternalWork /\ loads' = c /\ UNCHANGED jobs
  BY <1>0, <1>1 DEF BeginExternalWork, Landed
<1>2. CASE Post(NetTask) /\ loads' = c /\ UNCHANGED jobs
  <2>1. tasks' = Append(tasks, NetTask) /\ external' = external
    BY <1>2 DEF Post, Posted
  <2>2. Cardinality(Landed') = Cardinality(Landed) + 1
    <3>1. NetTask \in Task /\ NetTask.what = Net
      BY NetTaskType DEF NetTask
    <3>2. QED
      BY <1>0, <2>1, <3>1, LandedPosted
  <2>3. loads' = c /\ (jobs => jobs')
    BY <1>2
  <2>4. loads'.answered = loads.answered /\ loads'.dropped = loads.dropped
    BY <2>3
  <2>5. loads.answered \in Nat
    BY <1>0
  <2>6. ~(loads'.answered > loads.answered)
    BY <2>4, <2>5
  <2>7. /\ external' + Cardinality(Landed') + loads'.answered
               = external + Cardinality(Landed) + loads.answered + 1
        /\ external' \in Nat /\ loads'.answered \in Nat
        /\ Cardinality(Landed') \in Nat /\ Cardinality(Landed') >= Cardinality(Landed)
    BY SMTT(40), <1>0, <2>1, <2>2, <2>4, <2>5
  <2>8. QED
    BY <2>3, <2>4, <2>6, <2>7
<1>3. CASE jobs' = TRUE /\ loads' = [c EXCEPT !.answered = @ + 1] /\ UNCHANGED queueVars
  <2>1. /\ loads'.answered = c.answered + 1 /\ loads'.dropped = c.dropped
        /\ loads'.waiting = c.waiting /\ loads'.lost = c.lost
    BY <1>3 DEF Loads
  <2>2. external' = external /\ Landed' = Landed
    BY <1>3 DEF queueVars, Landed
  <2>3. QED
    BY <1>0, <1>3, <2>1, <2>2
<1>4. QED
  BY <1>1, <1>2, <1>3 DEF LoadStarts, NetTask

LEMMA WorkLoad == TypeOK /\ Work /\ ~shutDown /\ LoadStep => Owing' /\ Covered'
<1> SUFFICES ASSUME TypeOK, Owing, Covered, ~shutDown, LoadStep PROVE Owing' /\ Covered'
  BY DEF Work
<1>1. /\ external \in Nat /\ Cardinality(Landed) \in Nat /\ net \in Nat
      /\ owed.net \in Nat /\ loads.answered \in Nat /\ loads.waiting \in Nat
      /\ loads.lost \in Nat /\ loads.dropped \in Nat
      /\ loads.dropped <= Cardinality(Landed) /\ Live = Cardinality(Landed) - loads.dropped
  BY WorkNumbers DEF Owing
<1>2. loads \in Loads /\ owed \in [net : Nat, observing : Nat]
  BY DEF TypeOK, TrackerTypeOK
<1>3. /\ UNCHANGED <<pc, ctx, flush, observing, timedOut>>
      /\ jobs' \in {jobs, TRUE}
  BY LoadStepKeeps DEF loadVars, pcVars, domVars
<1>4. net = external + (Cardinality(Landed) - loads.dropped) + loads.answered + owed.net
              + loads.waiting + loads.lost
  BY <1>1 DEF Covered, NetCovered, Working
<1>5. ASSUME loads'.dropped <= Cardinality(Landed'), Cardinality(Landed') \in Nat,
             loads'.dropped \in Nat
      PROVE  Live' = Cardinality(Landed') - loads'.dropped
  BY <1>5 DEF Live, Minus
<1>6. ASSUME owed'.observing = owed.observing PROVE ObservingCovered'
  BY <1>3, <1>6 DEF Covered, ObservingCovered, Deliveries
<1>7. loads.answered > 0 => jobs
  BY DEF Owing
<1>8. (owed = NothingOwed \/ (pc = "js" /\ ctx = "check")) /\ NoScriptStranded
  BY DEF Owing
<1> DEFINE L == Cardinality(Landed)
           sum == external' + (Cardinality(Landed') - loads'.dropped) + loads'.answered
                     + owed'.net + loads'.waiting + loads'.lost
<1>9. ASSUME net' = sum, loads'.dropped <= Cardinality(Landed'), Cardinality(Landed') \in Nat,
             loads'.dropped \in Nat, owed'.observing = owed.observing
      PROVE  Covered'
  BY <1>5, <1>6, <1>9 DEF Covered, NetCovered, Working
<1>10. CASE StartLoad
  <2>1. LoadStarts(loads) /\ net' = net + 1 /\ owed' = owed
    BY <1>10 DEF StartLoad, RaisesMark
  <2>2. /\ loads'.dropped = loads.dropped /\ loads'.waiting = loads.waiting
        /\ loads'.lost = loads.lost
        /\ external' + Cardinality(Landed') + loads'.answered = external + L + loads.answered + 1
        /\ external' \in Nat /\ loads'.answered \in Nat
        /\ Cardinality(Landed') \in Nat /\ Cardinality(Landed') >= L
        /\ loads'.answered > loads.answered => jobs'
        /\ jobs => jobs'
    BY <1>2, <2>1, StartedOne
  <2> HIDE DEF L
  <2>3. loads'.dropped <= Cardinality(Landed')
    BY <1>1, <2>2 DEF L
  <2>4. Covered'
    <3>1. net' = sum
      BY <1>1, <1>4, <2>1, <2>2 DEF L
    <3>2. QED
      BY <1>1, <1>9, <2>1, <2>2, <2>3, <3>1
  <2>5. NoScriptStranded'
    <3>1. Live' = Cardinality(Landed') - loads'.dropped
      BY <1>1, <1>5, <2>2, <2>3
    <3>2. external' + Live' + loads'.answered + owed'.net > 0
      BY <1>1, <2>1, <2>2, <2>3, <3>1 DEF L
    <3>3. QED
      BY <3>2 DEF NoScriptStranded
  <2>6. loads'.answered > 0 => jobs'
    BY <1>1, <1>7, <2>2
  <2>7. QED
    BY <1>3, <1>8, <2>1, <2>3, <2>4, <2>5, <2>6, OwingMoved
<1>11. CASE ScriptTurn
  <2> DEFINE c == [loads EXCEPT !.waiting = @ - 1]
  <2>1. /\ LoadStarts(c) /\ owed.net > 0 /\ loads.waiting > 0
        /\ net' = Minus(net, 1) /\ owed' = [owed EXCEPT !.net = @ - 1]
    BY <1>11 DEF ScriptTurn
  <2>2. /\ c \in Loads /\ c.dropped = loads.dropped /\ c.answered = loads.answered
        /\ c.waiting = loads.waiting - 1 /\ c.lost = loads.lost
    BY <1>1, <1>2, <2>1 DEF Loads
  <2> HIDE DEF c
  <2>3. /\ loads'.dropped = loads.dropped /\ loads'.waiting = loads.waiting - 1
        /\ loads'.lost = loads.lost
        /\ external' + Cardinality(Landed') + loads'.answered = external + L + loads.answered + 1
        /\ external' \in Nat /\ loads'.answered \in Nat
        /\ Cardinality(Landed') \in Nat /\ Cardinality(Landed') >= L
        /\ loads'.answered > loads.answered => jobs'
        /\ jobs => jobs'
    BY <2>1, <2>2, StartedOne
  <2> HIDE DEF L
  <2>4. owed'.net = owed.net - 1 /\ owed'.observing = owed.observing
    BY <1>2, <2>1
  <2>5. loads'.dropped <= Cardinality(Landed')
    BY <1>1, <2>3 DEF L
  <2>6. Covered'
    <3>1. net' = net - 1
      BY <1>1, <1>4, <2>1 DEF Minus
    <3>2. net' = sum
      BY <1>1, <1>4, <2>3, <2>4, <3>1 DEF L
    <3>3. QED
      BY <1>1, <1>9, <2>3, <2>4, <2>5, <3>2
  <2>7. NoScriptStranded'
    <3>1. Live' = Cardinality(Landed') - loads'.dropped
      BY <1>1, <1>5, <2>3, <2>5
    <3>2. external' + Live' + loads'.answered + owed'.net > 0
      BY <1>1, <2>1, <2>3, <2>4, <2>5, <3>1 DEF L
    <3>3. QED
      BY <3>2 DEF NoScriptStranded
  <2>8. loads'.answered > 0 => jobs'
    BY <1>1, <1>7, <2>3
  <2>9. pc' = "js" /\ ctx' = "check"
    BY <1>3, <1>8, <2>1 DEF NothingOwed
  <2>10. QED
    BY <2>5, <2>6, <2>7, <2>8, <2>9, OwingMoved
<1>12. CASE BodyThrows \/ ScriptWaits
  <2>1. /\ UNCHANGED <<tasks, external, owed, jobs>> /\ net' = net + 1
        /\ \/ loads' = [loads EXCEPT !.lost = @ + 1]
           \/ loads' = [loads EXCEPT !.waiting = @ + 1] /\ NoScriptStranded'
    BY <1>12 DEF BodyThrows, ScriptWaits, RaisesMark, queueVars
  <2>2. /\ loads'.dropped = loads.dropped /\ loads'.answered = loads.answered
        /\ \/ loads'.lost = loads.lost + 1 /\ loads'.waiting = loads.waiting
           \/ loads'.lost = loads.lost /\ loads'.waiting = loads.waiting + 1 /\ NoScriptStranded'
    BY <1>2, <2>1 DEF Loads
  <2>3. Landed' = Landed /\ Live' = Live
    BY <2>1, <2>2 DEF Live, Landed
  <2>4. NoScriptStranded'
    BY <1>3, <1>8, <2>1, <2>2, <2>3 DEF NoScriptStranded
  <2>5. net' = sum
    BY <1>1, <1>4, <2>1, <2>2, <2>3
  <2>6. QED
    BY <1>1, <1>3, <1>7, <1>8, <1>9, <2>1, <2>2, <2>3, <2>4, <2>5, OwingMoved
<1>13. CASE ReactionBreaks
  <2>1. /\ UNCHANGED <<tasks, external, jobs, net>> /\ owed.net > 0
        /\ owed' = [owed EXCEPT !.net = @ - 1] /\ loads' = [loads EXCEPT !.lost = @ + 1]
        /\ NoScriptStranded'
    BY <1>13 DEF ReactionBreaks, queueVars
  <2>2. /\ loads'.dropped = loads.dropped /\ loads'.answered = loads.answered
        /\ loads'.lost = loads.lost + 1 /\ loads'.waiting = loads.waiting
        /\ owed'.net = owed.net - 1 /\ owed'.observing = owed.observing
    BY <1>2, <2>1 DEF Loads
  <2>3. Landed' = Landed
    BY <2>1 DEF Landed
  <2>4. net' = sum
    BY <1>1, <1>4, <2>1, <2>2, <2>3
  <2>5. pc' = "js" /\ ctx' = "check"
    BY <1>3, <1>8, <2>1 DEF NothingOwed
  <2>6. QED
    BY <1>1, <1>7, <1>9, <2>1, <2>2, <2>3, <2>4, <2>5, OwingMoved
<1>14. CASE Abort
  <2>1. net' = Minus(net, 1) /\ NoScriptStranded' /\ UNCHANGED <<tasks, jobs>>
    BY <1>14 DEF Abort, queueVars
  <2>2. Landed' = Landed
    BY <2>1 DEF Landed
  <2>3. /\ loads'.answered \in Nat /\ loads'.dropped \in Nat /\ loads'.dropped <= L
        /\ loads'.answered <= loads.answered
        /\ owed'.observing = owed.observing /\ (owed' = owed \/ owed.net > 0)
        /\ net > 0 /\ sum = net - 1
    <3>1. CASE external > 0 /\ external' = ExternalAfterEnd /\ UNCHANGED <<owed, loads>>
      BY <1>1, <1>4, <2>2, <3>1 DEF ExternalAfterEnd
    <3>2. CASE Live > 0 /\ loads' = [loads EXCEPT !.dropped = @ + 1] /\ UNCHANGED <<external, owed>>
      <4>1. /\ loads'.dropped = loads.dropped + 1 /\ loads'.answered = loads.answered
            /\ loads'.lost = loads.lost /\ loads'.waiting = loads.waiting
        BY <1>2, <3>2 DEF Loads
      <4>2. QED
        BY <1>1, <1>4, <2>2, <3>2, <4>1
    <3>3. CASE /\ loads.answered > 0 /\ loads' = [loads EXCEPT !.answered = @ - 1]
               /\ UNCHANGED <<external, owed>>
      <4>1. /\ loads'.dropped = loads.dropped /\ loads'.answered = loads.answered - 1
            /\ loads'.lost = loads.lost /\ loads'.waiting = loads.waiting
        BY <1>2, <3>3 DEF Loads
      <4>2. QED
        BY <1>1, <1>4, <2>2, <3>3, <4>1
    <3>4. CASE owed.net > 0 /\ owed' = [owed EXCEPT !.net = @ - 1] /\ UNCHANGED <<external, loads>>
      <4>1. owed'.net = owed.net - 1 /\ owed'.observing = owed.observing
        BY <1>2, <3>4
      <4>2. QED
        BY <1>1, <1>4, <2>2, <3>4, <4>1
    <3>5. CASE /\ loads.lost > 0 /\ loads' = [loads EXCEPT !.lost = @ - 1]
               /\ UNCHANGED <<external, owed>>
      <4>1. /\ loads'.dropped = loads.dropped /\ loads'.answered = loads.answered
            /\ loads'.lost = loads.lost - 1 /\ loads'.waiting = loads.waiting
        BY <1>2, <3>5 DEF Loads
      <4>2. QED
        BY <1>1, <1>4, <2>2, <3>5, <4>1
    <3>6. QED
      BY <1>14, <3>1, <3>2, <3>3, <3>4, <3>5 DEF Abort, queueVars
  <2>4. net' = sum
    BY <1>1, <2>1, <2>3 DEF Minus
  <2>5. owed' = NothingOwed \/ (pc' = "js" /\ ctx' = "check")
    BY <1>3, <1>8, <2>3 DEF NothingOwed
  <2>6. loads'.answered > 0 => jobs'
    BY <1>1, <1>7, <2>1, <2>3
  <2> HIDE DEF sum
  <2>7. Covered'
    BY <1>1, <1>9, <2>2, <2>3, <2>4
  <2>8. QED
    BY <2>1, <2>2, <2>3, <2>5, <2>6, <2>7, OwingMoved
<1>15. QED
  BY <1>10, <1>11, <1>12, <1>13, <1>14 DEF LoadStep

LEMMA WorkJs == TypeOK /\ Work /\ ~shutDown /\ JsStep => Work'
<1> SUFFICES ASSUME TypeOK, Owing, Covered, ~shutDown, JsStep PROVE Owing' /\ Covered'
  BY DEF Work
<1> USE DEF loopVars, queueVars, pcVars, domVars, counterVars, jsVars
<1>1. ASSUME NEW i \in Ids, NEW d \in Delays, NEW interval \in BOOLEAN, NEW relevant \in BOOLEAN,
             SetTask(i, d, interval, relevant)
      PROVE  Owing' /\ Covered'
  <2> DEFINE t == [what |-> i, relevant |-> relevant]
  <2>1. t \in Task /\ t.what # Net
    BY PageLoopAssumption DEF Task
  <2>2. /\ tasks' = tasks \/ tasks' = Append(tasks, t)
        /\ UNCHANGED <<external, net, observing, flush, owed, loads, jobs, timedOut, pc, ctx>>
    BY <1>1 DEF SetTask, Post, Posted
  <2> HIDE DEF t
  <2>3. Cardinality(Landed') = Cardinality(Landed)
    <3>1. CASE tasks' = tasks
      BY <3>1 DEF Landed
    <3>2. CASE tasks' = Append(tasks, t)
      BY <2>1, <3>2, LandedPosted, LandedFinite DEF TypeOK, QueueTypeOK
    <3>3. QED
      BY <2>2, <3>1, <3>2
  <2>4. Live' = Live
    BY <2>2, <2>3 DEF Live
  <2>5. NoScriptStranded'
    BY <2>2, <2>4 DEF Owing, NoScriptStranded
  <2>6. QED
    BY <2>2, <2>3, <2>4, <2>5
       DEF Owing, Covered, NetCovered, ObservingCovered, Working, Deliveries
<1>2. ASSUME NEW i \in Ids, ClearTask(i) \/ RequestAnimationFrame(i) \/ CancelAnimationFrame(i)
      PROVE  Owing' /\ Covered'
  BY <1>2, CoveredKept, OwingKept DEF ClearTask, RequestAnimationFrame, CancelAnimationFrame
<1>3. CASE QueueJob
  BY <1>3, CoveredKept, OwingKept DEF QueueJob
<1>4. ASSUME NEW observed \in BOOLEAN, MutateDom(observed) PROVE Owing' /\ Covered'
  <2>1. /\ UNCHANGED <<tasks, external, net, owed, loads, jobs, timedOut, pc, ctx>>
        /\ \/ UNCHANGED <<flush, observing>>
           \/ ~flush /\ flush' /\ observing' = observing + 1
    BY <1>4 DEF MutateDom
  <2>2. Working' = Working
    BY <2>1 DEF Working, Live, Landed
  <2>3. \/ Deliveries' = Deliveries /\ observing' = observing
        \/ Deliveries' = Deliveries + 1 /\ observing' = observing + 1
    BY <2>1, WorkNumbers DEF Deliveries
  <2>4. observing \in Nat /\ Deliveries \in Nat
    BY WorkNumbers DEF Deliveries
  <2>5. ObservingCovered'
    BY <2>1, <2>3, <2>4 DEF Covered, ObservingCovered
  <2>6. NetCovered'
    BY <2>1, <2>2 DEF Covered, NetCovered
  <2>7. QED
    BY <2>1, <2>5, <2>6, OwingKept DEF Covered
<1>5. CASE LoadStep
  BY <1>5, WorkLoad DEF Work
<1>6. CASE JsReturns
  <2>1. /\ UNCHANGED <<tasks, external, flush, loads, jobs, timedOut>> /\ owed' = NothingOwed
        /\ net' = Minus(net, owed.net) /\ observing' = Minus(observing, owed.observing)
        /\ NoScriptStranded'
    BY <1>6 DEF JsReturns
  <2>2. Landed' = Landed /\ Live' = Live
    BY <2>1 DEF Landed, Live
  <2>3. owed'.net = 0 /\ owed'.observing = 0
    BY <2>1 DEF NothingOwed
  <2>4. NetCovered'
    <3>1. /\ external \in Nat /\ Live \in Nat /\ loads.answered \in Nat /\ owed.net \in Nat
          /\ loads.waiting \in Nat /\ loads.lost \in Nat
      BY WorkNumbers
    <3>2. net = external + Live + loads.answered + owed.net + loads.waiting + loads.lost
      BY <3>1 DEF Covered, NetCovered, Working
    <3>3. net' = net - owed.net
      BY <2>1, <3>1, <3>2 DEF Minus
    <3>4. net' = external' + Live' + loads'.answered + owed'.net + loads'.waiting + loads'.lost
      BY <2>1, <2>2, <2>3, <3>1, <3>2, <3>3
    <3>5. QED
      BY <3>4 DEF NetCovered, Working
  <2>5. ObservingCovered'
    BY SMTT(40), <2>1, <2>3, WorkNumbers DEF Covered, ObservingCovered, Deliveries, Minus
  <2>6. Owing'
    BY <2>1, <2>2 DEF Owing
  <2>7. QED
    BY <2>4, <2>5, <2>6 DEF Covered
<1>7. ASSUME NEW ran \in 0 .. owed.net, NEW kept \in 0 .. owed.net, NEW left \in BOOLEAN,
             JsTimesOut(ran, kept, left)
      PROVE  Owing' /\ Covered'
  <2>1. /\ UNCHANGED <<tasks, external, flush, observing>> /\ timedOut' /\ owed' = NothingOwed
        /\ net' = Minus(net, ran) /\ ran + kept \in {Minus(owed.net, 1), owed.net}
        /\ loads' = [loads EXCEPT !.answered = @ + kept, !.lost = @ + Minus(owed.net, ran + kept)]
    BY <1>7 DEF JsTimesOut
  <2>2. /\ loads'.answered = loads.answered + kept /\ loads'.dropped = loads.dropped
        /\ loads'.waiting = loads.waiting
        /\ loads'.lost = loads.lost + Minus(owed.net, ran + kept)
    BY <2>1 DEF TypeOK, TrackerTypeOK, Loads
  <2>3. Landed' = Landed /\ Live' = Live
    BY <2>1, <2>2 DEF Landed, Live
  <2>4. owed'.net = 0 /\ owed'.observing = 0
    BY <2>1 DEF NothingOwed
  <2>5. ran \in Nat /\ kept \in Nat /\ ran + kept <= owed.net /\ ran <= net
    <3>1. /\ external \in Nat /\ Live \in Nat /\ loads.answered \in Nat /\ owed.net \in Nat
          /\ loads.waiting \in Nat /\ loads.lost \in Nat /\ net \in Nat
      BY WorkNumbers
    <3>2. net = external + Live + loads.answered + owed.net + loads.waiting + loads.lost
      BY <3>1 DEF Covered, NetCovered, Working
    <3>3. ran \in Nat /\ kept \in Nat /\ ran <= owed.net
      BY <3>1
    <3>4. ran + kept <= owed.net
      BY <2>1, <3>1, <3>3 DEF Minus
    <3>5. QED
      BY <3>1, <3>2, <3>3, <3>4
  <2>6. Minus(owed.net, ran + kept) = owed.net - (ran + kept) /\ Minus(net, ran) = net - ran
    BY SMTT(40), <2>5, WorkNumbers DEF Minus
  <2>7. NetCovered'
    <3>1. /\ external \in Nat /\ Live \in Nat /\ loads.answered \in Nat /\ owed.net \in Nat
          /\ loads.waiting \in Nat /\ loads.lost \in Nat /\ net \in Nat
      BY WorkNumbers
    <3>2. net = external + Live + loads.answered + owed.net + loads.waiting + loads.lost
      BY <3>1 DEF Covered, NetCovered, Working
    <3>3. external' = external /\ net' = net - ran
      BY <2>1, <2>6
    <3>4. net' = external' + Live' + loads'.answered + owed'.net + loads'.waiting + loads'.lost
      BY <2>2, <2>3, <2>4, <2>5, <2>6, <3>1, <3>2, <3>3
    <3>5. QED
      BY <3>4 DEF NetCovered, Working
  <2>8. ObservingCovered'
    BY <2>1, <2>4, WorkNumbers DEF Covered, ObservingCovered, Deliveries
  <2>9. loads'.answered > 0 => jobs'
    <3>1. CASE kept > 0
      <4>1. owed # NothingOwed
        BY <2>5, <3>1, WorkNumbers DEF NothingOwed
      <4>2. ctx \notin {"task", "frame"} /\ left
        BY <1>7, <3>1, <4>1 DEF Owing, JsTimesOut
      <4>3. QED
        BY <1>7, <4>2 DEF JsTimesOut
    <3>2. CASE ~(kept > 0)
      <4>1. kept = 0
        BY <2>5, <3>2
      <4>2. jobs => jobs'
        BY <1>7 DEF JsTimesOut
      <4>3. QED
        BY <2>2, <4>1, <4>2, WorkNumbers DEF Owing
    <3>3. QED
      BY <3>1, <3>2
  <2>10. NoScriptStranded'
    BY <2>1 DEF NoScriptStranded
  <2>11. loads'.dropped <= Cardinality(Landed')
    BY <2>2, <2>3 DEF Owing
  <2>12. QED
    BY <2>1, <2>7, <2>8, <2>9, <2>10, <2>11, OwingMoved DEF Covered
<1>8. CASE JsThrows
  <2>1. owed = NothingOwed
    BY <1>8 DEF JsThrows, Owing
  <2>2. QED
    BY <1>8, <2>1, CoveredKept, OwingKept DEF JsThrows
<1>9. QED
  BY <1>1, <1>2, <1>3, <1>4, <1>5, <1>6, <1>7, <1>8 DEF JsStep, LoadStep, Interrupted

\* Completions: a transfer becomes a queued task, the task becomes a reaction.
LEMMA WorkUv == TypeOK /\ Work /\ ~shutDown /\ UvCallback => Work'
<1> SUFFICES ASSUME TypeOK, Owing, Covered, ~shutDown, UvCallback PROVE Owing' /\ Covered'
  BY DEF Work
<1>1. UNCHANGED <<net, observing, flush, owed, loads, jobs, timedOut, pc, ctx>>
  BY DEF UvCallback, jsVars, counterVars, domVars, pcVars
<1>2. tasks \in Seq(Task) /\ external \in Nat /\ Cardinality(Landed) \in Nat
  BY LandedFinite DEF TypeOK, QueueTypeOK
<1>3. /\ external' + Cardinality(Landed') = external + Cardinality(Landed)
      /\ Cardinality(Landed') >= Cardinality(Landed)
      /\ external' \in Nat /\ Cardinality(Landed') \in Nat
  <2>1. ASSUME NEW i \in Ids, TimerFired(i)
        PROVE  external' = external /\ Cardinality(Landed') = Cardinality(Landed)
    <3> DEFINE t == [what |-> i, relevant |-> timers[i].relevant /\ ~timers[i].repeat]
    <3>1. t \in Task /\ t.what # Net
      BY PageLoopAssumption DEF Task
    <3>2. tasks' = Append(tasks, t) /\ external' = external
      BY <2>1 DEF TimerFired, Post, Posted
    <3> HIDE DEF t
    <3>3. QED
      BY <1>2, <3>1, <3>2, LandedPosted
  <2>2. CASE FrameTimerFired
    BY <1>2, <2>2 DEF FrameTimerFired, queueVars, Landed
  <2>3. CASE Land
    <3>1. NetTask \in Task /\ NetTask.what = Net
      BY NetTaskType DEF NetTask
    <3>2. tasks' = Append(tasks, NetTask) /\ external' = external - 1 /\ external > 0
      BY <1>2, <2>3 DEF Land, LandAndPost, Posted, ExternalAfterEnd, NetTask
    <3>3. Cardinality(Landed') = Cardinality(Landed) + 1
      BY <1>2, <3>1, <3>2, LandedPosted
    <3>4. QED
      BY <1>2, <3>2, <3>3
  <2>4. QED
    BY <1>2, <2>1, <2>2, <2>3 DEF UvCallback
<1>4. loads.dropped <= Cardinality(Landed) /\ loads.dropped \in Nat
  BY WorkNumbers DEF Owing
<1>5. /\ Live = Cardinality(Landed) - loads.dropped
      /\ Live' = Cardinality(Landed') - loads.dropped
      /\ loads'.dropped <= Cardinality(Landed')
  BY <1>1, <1>2, <1>3, <1>4 DEF Live, Minus
<1>6. external' + Live' = external + Live
  BY SMTT(40), <1>2, <1>3, <1>4, <1>5
<1>7. NetCovered' /\ ObservingCovered'
  <2>1. /\ external \in Nat /\ Live \in Nat /\ external' \in Nat /\ Live' \in Nat
        /\ loads.answered \in Nat /\ owed.net \in Nat /\ loads.waiting \in Nat
    <3>1. loads'.dropped = loads.dropped
      BY <1>1
    <3>2. Live' \in Nat
      BY <1>3, <1>4, <1>5, <3>1
    <3>3. QED
      BY <1>3, <3>2, WorkNumbers
  <2>2. Working' = Working
    BY <1>1, <1>6, <2>1 DEF Working
  <2>3. QED
    BY <1>1, <2>2 DEF Covered, NetCovered, ObservingCovered, Deliveries
<1>8. NoScriptStranded'
  <2>1. external + Live + loads.answered + owed.net
           = external' + Live' + loads'.answered + owed'.net
    BY <1>1, <1>6
  <2>2. QED
    BY <1>1, <2>1 DEF Owing, NoScriptStranded
<1>9. QED
  BY <1>1, <1>5, <1>7, <1>8 DEF Owing, Covered

LEMMA WorkRunTask == TypeOK /\ Work /\ ~shutDown /\ RunTask => Work'
<1> SUFFICES ASSUME TypeOK, Owing, Covered, ~shutDown, RunTask PROVE Owing' /\ Covered'
  BY DEF Work
<1>1. owed = NothingOwed
  BY DEF RunTask, Owing
<1>2. /\ UNCHANGED <<net, observing, flush, timedOut, external, owed>>
      /\ tasks # <<>> /\ tasks' = Tail(tasks)
      /\ \/ /\ Head(tasks).what = Net /\ Live > 0
            /\ loads' = [loads EXCEPT !.answered = @ + 1] /\ jobs'
         \/ /\ Head(tasks).what = Net /\ loads.dropped > 0
            /\ loads' = [loads EXCEPT !.dropped = @ - 1] /\ jobs' = jobs
         \/ Head(tasks).what # Net /\ UNCHANGED <<loads, jobs>>
  BY DEF RunTask, CompletionRuns, CallbackRuns, TakeTask, domVars
<1>3. /\ external \in Nat /\ Cardinality(Landed) \in Nat /\ net \in Nat /\ loads \in Loads
      /\ loads.answered \in Nat /\ loads.waiting \in Nat /\ loads.lost \in Nat
      /\ loads.dropped \in Nat /\ owed.net \in Nat
      /\ loads.dropped <= Cardinality(Landed) /\ Live = Cardinality(Landed) - loads.dropped
  BY WorkNumbers DEF Owing, TypeOK, TrackerTypeOK
<1>4. /\ Cardinality(Landed') \in Nat
      /\ Cardinality(Landed) = Cardinality(Landed') + IF Head(tasks).what = Net THEN 1 ELSE 0
  <2>1. tasks \in Seq(Task) /\ tasks' \in Seq(Task)
    BY <1>2 DEF TypeOK, QueueTypeOK
  <2>2. Cardinality(Landed') \in Nat
    BY <2>1, NetInFinite DEF Landed, NetIn
  <2>3. QED
    BY <1>2, <2>1, <2>2, LandedTaken
<1>5. /\ Live' + loads'.answered = Live + loads.answered
      /\ loads'.dropped <= Cardinality(Landed')
      /\ loads'.waiting = loads.waiting /\ loads'.lost = loads.lost
      /\ Live' \in Nat /\ loads'.answered \in Nat
      /\ loads'.answered > 0 => jobs'
  <2>1. ASSUME loads'.dropped \in Nat, loads'.dropped <= Cardinality(Landed')
        PROVE  Live' = Cardinality(Landed') - loads'.dropped
    BY <1>4, <2>1 DEF Live, Minus
  <2>2. CASE Head(tasks).what = Net /\ Live > 0 /\ loads' = [loads EXCEPT !.answered = @ + 1] /\ jobs'
    <3>1. /\ loads'.answered = loads.answered + 1 /\ loads'.dropped = loads.dropped
          /\ loads'.waiting = loads.waiting /\ loads'.lost = loads.lost
      BY <1>3, <2>2 DEF Loads
    <3>2. Cardinality(Landed') = Cardinality(Landed) - 1 /\ loads.dropped <= Cardinality(Landed')
      BY <1>3, <1>4, <2>2
    <3>3. QED
      BY <1>3, <1>4, <2>1, <2>2, <3>1, <3>2
  <2>3. CASE /\ Head(tasks).what = Net /\ loads.dropped > 0
             /\ loads' = [loads EXCEPT !.dropped = @ - 1] /\ jobs' = jobs
    <3>1. /\ loads'.answered = loads.answered /\ loads'.dropped = loads.dropped - 1
          /\ loads'.waiting = loads.waiting /\ loads'.lost = loads.lost
      BY <1>3, <2>3 DEF Loads
    <3>2. Cardinality(Landed') = Cardinality(Landed) - 1 /\ loads'.dropped <= Cardinality(Landed')
      BY <1>3, <1>4, <2>3, <3>1
    <3>3. QED
      BY <1>3, <1>4, <2>1, <2>3, <3>1, <3>2 DEF Owing
  <2>4. CASE Head(tasks).what # Net /\ UNCHANGED <<loads, jobs>>
    BY <1>3, <1>4, <2>1, <2>4 DEF Owing
  <2>5. QED
    BY <1>2, <2>2, <2>3, <2>4
<1>6. NetCovered' /\ ObservingCovered'
  <2>1. Live \in Nat /\ external' = external /\ owed' = owed
    BY <1>2, WorkNumbers
  <2>2. Working' = Working
    BY <1>3, <1>5, <2>1 DEF Working
  <2>3. QED
    BY <1>2, <1>5, <2>2 DEF Covered, NetCovered, ObservingCovered, Deliveries
<1>7. NoScriptStranded'
  <2>1. Live \in Nat /\ external' = external /\ owed' = owed
    BY <1>2, WorkNumbers
  <2>2. external + Live + loads.answered + owed.net
           = external' + Live' + loads'.answered + owed'.net
    BY <1>3, <1>5, <2>1
  <2>3. QED
    BY <1>2, <1>5, <2>2 DEF Owing, NoScriptStranded
<1>8. QED
  BY <1>1, <1>2, <1>5, <1>6, <1>7 DEF Owing, Covered

\* EventLoop::shutdown is for good.
LEMMA StaysShut == [Next]_vars /\ shutDown => shutDown'
<1> SUFFICES ASSUME [Next]_vars, ~shutDown' PROVE ~shutDown
  OBVIOUS
<1> USE DEF loopVars, queueVars, timerVars, jsVars, counterVars, domVars
<1>1. CASE EmbedderStep
  BY <1>1 DEF EmbedderStep, EvalJs, EmbedderMutates, RunUntilIdle, RunUntilReady, StartRun,
              Destroy, Shutdown
<1>2. CASE JsStep
  <2>1. CASE LoadStep
    BY <2>1, LoadStepKeeps
  <2>2. CASE ~LoadStep
    BY <1>2, <2>2, ZenonT(60) DEF JsStep, LoadStep, SetTask, Post, ScheduleTimer, ClearTask,
              RequestAnimationFrame, CancelAnimationFrame, MutateDom, QueueJob,
              JsReturns, JsThrows, Interrupted, JsTimesOut
  <2>3. QED
    BY <2>1, <2>2
<1>3. CASE UvCallback
  BY <1>3 DEF UvCallback, TimerFired, Post, FrameTimerFired, Land, LandAndPost
<1>4. CASE DriverStep /\ ~UvCallback
  BY <1>4 DEF DriverStep, DrainJobs, DeliverObservers, CheckpointDone, Turn, PollThen,
              UvReturns, RunTask, TakeTask, NoTask, RunFrame, TakeFrames, NextFrameCallback,
              FrameEnds, NoFrame,
              IdleBudgetStarts, IdleIterationsSpent, TurnEnds, WakeUp, ReadyIteration,
              ReadyPoll, ReadyVerdict, NotReadyVerdict, ReadyTurn, ReadySleep, Judging
<1>5. CASE ClockTick \/ UNCHANGED vars
  BY <1>5 DEF ClockTick, vars
<1>6. QED
  BY <1>1, <1>2, <1>3, <1>4, <1>5 DEF Next

LEMMA WorkStep == TypeOK /\ Work /\ [Next]_vars => Work'
<1> SUFFICES ASSUME TypeOK, Work, [Next]_vars, ~shutDown' PROVE Work'
  BY DEF Work
<1> USE DEF loopVars, queueVars, timerVars, jsVars, counterVars, domVars
<1>1. ~shutDown
  BY StaysShut
<1>2. Owing /\ Covered
  BY <1>1 DEF Work
<1>3. CASE EmbedderStep
  <2>1. owed = NothingOwed
    BY <1>2, <1>3 DEF EmbedderStep, EvalJs, EmbedderMutates, RunUntilIdle, RunUntilReady, StartRun,
                      Destroy, Owing
  <2>2. UNCHANGED <<tasks, external, net, observing, flush, owed, loads, jobs, timedOut>>
    BY <1>1, <1>3 DEF EmbedderStep, EvalJs, EmbedderMutates, RunUntilIdle, RunUntilReady, StartRun,
                      Destroy, Shutdown
  <2>3. QED
    BY <1>2, <2>1, <2>2, CoveredKept, OwingKept DEF Work
<1>4. CASE DeliverObservers
  <2>1. owed = NothingOwed
    BY <1>2, <1>4 DEF DeliverObservers, Owing
  <2>2. /\ UNCHANGED <<tasks, external, net, observing, loads, jobs, timedOut>> /\ flush /\ ~flush'
        /\ owed' = [owed EXCEPT !.observing = 1] /\ pc' = "js" /\ ctx' = "check"
    BY <1>4 DEF DeliverObservers, RunJs
  <2>3. owed'.net = owed.net /\ owed.observing = 0 /\ owed'.observing = 1
    BY <2>1, <2>2 DEF NothingOwed
  <2>4. Working' = Working /\ Deliveries' = Deliveries /\ Live' = Live /\ Landed' = Landed
    BY <2>2, <2>3 DEF Working, Deliveries, Live, Landed
  <2>5. NoScriptStranded'
    BY <1>2, <2>2, <2>3, <2>4 DEF Owing, NoScriptStranded
  <2>6. QED
    BY <1>2, <2>2, <2>4, <2>5 DEF Work, Owing, Covered, NetCovered, ObservingCovered
<1>5. CASE DrainJobs
  <2>1. owed = NothingOwed
    BY <1>2, <1>5 DEF DrainJobs, Owing
  <2>2. /\ UNCHANGED <<tasks, external, net, observing, flush, timedOut>>
        /\ owed' = [owed EXCEPT !.net = loads.answered] /\ loads' = [loads EXCEPT !.answered = 0]
        /\ pc' = "js" /\ ctx' = "check"
    BY <1>5 DEF DrainJobs, RunJs
  <2>3. /\ owed'.net = loads.answered /\ owed.net = 0 /\ owed'.observing = owed.observing
        /\ loads'.answered = 0 /\ loads'.dropped = loads.dropped
        /\ loads'.waiting = loads.waiting /\ loads'.lost = loads.lost
    BY <2>1, <2>2 DEF NothingOwed, TypeOK, TrackerTypeOK, Loads
  <2>4. Landed' = Landed /\ Live' = Live
    BY <2>2, <2>3 DEF Live, Landed
  <2>5. NetCovered' /\ ObservingCovered'
    BY <1>2, <2>2, <2>3, <2>4, WorkNumbers
       DEF Covered, NetCovered, ObservingCovered, Working, Deliveries
  <2>6. NoScriptStranded'
    BY <1>2, <2>2, <2>3, <2>4, WorkNumbers DEF Owing, NoScriptStranded
  <2>7. QED
    BY <1>2, <2>2, <2>3, <2>4, <2>5, <2>6 DEF Work, Owing, Covered
<1>6. CASE DriverStep /\ ~UvCallback /\ ~RunTask /\ ~DeliverObservers /\ ~DrainJobs
  <2>1. /\ UNCHANGED <<tasks, external, net, observing, flush, owed, loads, jobs, timedOut>>
        /\ pc # "js"
    BY <1>6 DEF DriverStep, CheckpointDone, Turn, PollThen,
                UvReturns, NoTask, RunFrame, TakeFrames, NextFrameCallback, FrameEnds, NoFrame,
                IdleBudgetStarts, IdleIterationsSpent, TurnEnds, WakeUp, ReadyIteration,
                ReadyPoll, ReadyVerdict, NotReadyVerdict, ReadyTurn, ReadySleep, Judging
  <2>2. owed = NothingOwed
    BY <1>2, <2>1 DEF Owing
  <2>3. QED
    BY <1>2, <2>1, <2>2, CoveredKept, OwingKept DEF Work
<1>7. CASE ClockTick \/ UNCHANGED vars
  BY <1>2, <1>7, CoveredKept, OwingKept DEF ClockTick, vars, pcVars, Work
<1>8. QED
  BY <1>1, <1>3, <1>4, <1>5, <1>6, <1>7, WorkJs, WorkUv, WorkRunTask DEF Next, DriverStep

LEMMA WorkInit == Init => Work
<1> SUFFICES ASSUME Init PROVE Work
  OBVIOUS
<1>1. Landed = {} /\ Cardinality({}) = 0
  BY FS_EmptySet DEF Init, QueueInit, Landed
<1>2. QED
  BY <1>1, SMT DEF Init, QueueInit, Work, Owing, NothingOwed, NoScriptStranded, Covered, NetCovered,
                   ObservingCovered, Working, Deliveries, Live, Minus

\* PageActivityTracker's counters: in every reachable state the counter of loads
\* is the loads in flight, queued, answered or waiting their turn and the marks of
\* fetches that broke or were cut, and the counter of deliveries is at least the
\* records to deliver, exactly these until js_timeout skips an activityEnd; so
\* run_until_ready never calls a page ready over work that is under way.
THEOREM CountersAlwaysCover == Spec => []CountersCoverWork
<1>1. QED
  BY WorkInit, WorkStep, WorkCovers, TypeCorrect, PTL DEF Spec

-----------------------------------------------------------------------------
(* No frame is lost.  The strengthening: an id waits once, in the loop's list *)
(* or in the batch, and a batch is under way only inside run_animation_frames.*)

Batch == {drv.batch[k] : k \in 1 .. Len(drv.batch)}
Waiting == {frames[k] : k \in 1 .. Len(frames)}

FramesInPlace ==
    /\ frames # <<>> => frameTimer.armed \/ frameDue
    /\ Waiting \subseteq rafs
    /\ ~timedOut => rafs \subseteq Waiting \cup Batch
    /\ Waiting \cap Batch = {}
    /\ \A j, k \in 1 .. Len(frames) : frames[j] = frames[k] => j = k

InBatch == drv.batch # <<>> => pc = "raf" \/ (pc = "js" /\ ctx = "frame")

Framing == ~shutDown => FramesInPlace /\ InBatch

LEMMA FramingBacks == Framing => FramesBacked
BY DEF Framing, FramesInPlace, FramesBacked, Waiting, Batch, Contains

\* A step that leaves the frames alone.
LEMMA FramesKept ==
    ASSUME FramesInPlace, UNCHANGED <<frames, frameTimer, frameDue, rafs>>,
           drv'.batch = drv.batch, timedOut => timedOut'
    PROVE  FramesInPlace'
BY DEF FramesInPlace, Waiting, Batch

\* requestAnimationFrame: the id is new to every list, and the timer is armed.
LEMMA FramesRequested ==
    ASSUME TypeOK, FramesInPlace, ~shutDown, NEW i \in Ids, RequestAnimationFrame(i)
    PROVE  FramesInPlace'
<1> DEFINE n == Len(frames) + 1
<1>1. /\ frames' = Append(frames, i) /\ rafs' = rafs \cup {i} /\ frames \in Seq(Ids)
      /\ UNCHANGED <<drv, timedOut>>
      /\ i \notin Waiting /\ i \notin Batch
  BY DEF RequestAnimationFrame, RequestFrame, Fresh, Contains, Waiting, Batch, domVars,
         TypeOK, TimersTypeOK
<1>2. frameTimer'.armed
  BY DEF RequestAnimationFrame, RequestFrame, FrameTimerArmed, ArmedAt
<1>3. /\ Len(frames) \in Nat /\ Len(frames') = n /\ frames'[n] = i
      /\ \A k \in 1 .. Len(frames) : frames'[k] = frames[k]
      /\ 1 .. n = (1 .. Len(frames)) \cup {n}
  BY <1>1
<1>4. Waiting' = Waiting \cup {i} /\ Batch' = Batch
  BY <1>1, <1>3 DEF Waiting, Batch
<1>5. (\A j, k \in 1 .. Len(frames) : frames[j] = frames[k] => j = k)'
  <2>1. \A k \in 1 .. Len(frames) : frames[k] # i
    BY <1>1 DEF Waiting
  <2>2. QED
    BY <1>3, <2>1 DEF FramesInPlace
<1>6. QED
  BY <1>1, <1>2, <1>4, <1>5 DEF FramesInPlace

\* cancelAnimationFrame: the id leaves both lists, the others keep theirs.
LEMMA FramesCancelled ==
    ASSUME TypeOK, FramesInPlace, NEW i \in Ids, CancelAnimationFrame(i)
    PROVE  FramesInPlace'
<1>1. /\ rafs' = rafs \ {i} /\ frames \in Seq(Ids) /\ UNCHANGED <<drv, timedOut, frameTimer, frameDue>>
      /\ Batch' = Batch
  BY DEF CancelAnimationFrame, CancelFrame, domVars, TypeOK, TimersTypeOK, Batch
<1>2. CASE ~Contains(frames, i)
  <2>1. frames' = frames /\ i \notin Waiting
    BY <1>2 DEF CancelAnimationFrame, CancelFrame, Contains, Waiting
  <2>2. Waiting' = Waiting
    BY <2>1 DEF Waiting
  <2>3. QED
    BY <1>1, <2>1, <2>2 DEF FramesInPlace
<1>3. CASE Contains(frames, i)
  <2>1. PICK k \in 1 .. Len(frames) : frames[k] = i /\ frames' = EraseAt(frames, k)
    BY <1>3 DEF CancelAnimationFrame, CancelFrame
  <2>2. /\ Len(frames) \in Nat /\ Len(frames') = Len(frames) - 1
        /\ \A j \in 1 .. Len(frames') : frames'[j] = IF j < k THEN frames[j] ELSE frames[j + 1]
    <3>1. /\ Len(EraseAt(frames, k)) = Len(frames) - 1
          /\ \A j \in 1 .. (Len(frames) - 1) :
                EraseAt(frames, k)[j] = IF j < k THEN frames[j] ELSE frames[j + 1]
      BY <1>1, EraseAtFacts
    <3>2. Len(frames) \in Nat
      BY <1>1
    <3>3. QED
      BY <2>1, <3>1, <3>2
  <2> DEFINE from(j) == IF j < k THEN j ELSE j + 1
  <2>3. \A j \in 1 .. Len(frames') :
           from(j) \in 1 .. Len(frames) /\ from(j) # k /\ frames'[j] = frames[from(j)]
    BY <2>1, <2>2
  <2>4. \A j, m \in 1 .. Len(frames') : from(j) = from(m) => j = m
    BY <2>1, <2>2
  <2>5. \A j \in 1 .. Len(frames) : j # k => \E m \in 1 .. Len(frames') : from(m) = j
    <3> SUFFICES ASSUME NEW j \in 1 .. Len(frames), j # k
                 PROVE  \E m \in 1 .. Len(frames') : from(m) = j
      OBVIOUS
    <3>1. CASE j < k
      <4>1. j \in 1 .. Len(frames') /\ from(j) = j
        BY <2>1, <2>2, <3>1
      <4>2. QED
        BY <4>1
    <3>2. CASE j > k
      <4>1. j - 1 \in 1 .. Len(frames') /\ from(j - 1) = j
        BY <2>1, <2>2, <3>2
      <4>2. QED
        BY <4>1
    <3>3. QED
      BY <2>1, <3>1, <3>2
  <2> HIDE DEF from
  <2>6. /\ \A j, m \in 1 .. Len(frames) : frames[j] = frames[m] => j = m
        /\ frames # <<>>
    BY <2>1 DEF FramesInPlace
  <2>7. (\A j, m \in 1 .. Len(frames) : frames[j] = frames[m] => j = m)'
    BY <2>3, <2>4, <2>6
  <2>8. Waiting' = Waiting \ {i}
    <3>1. \A j \in 1 .. Len(frames') : frames'[j] \in Waiting /\ frames'[j] # i
      BY <2>1, <2>3, <2>6 DEF Waiting
    <3>2. \A j \in 1 .. Len(frames) : frames[j] # i => frames[j] \in Waiting'
      <4> SUFFICES ASSUME NEW j \in 1 .. Len(frames), frames[j] # i PROVE frames[j] \in Waiting'
        OBVIOUS
      <4>1. PICK m \in 1 .. Len(frames') : from(m) = j
        BY <2>1, <2>5
      <4>2. frames'[m] = frames[j]
        BY <2>3, <4>1
      <4>3. QED
        BY <4>2 DEF Waiting
    <3>3. QED
      BY <3>1, <3>2 DEF Waiting
  <2>9. QED
    BY <1>1, <2>6, <2>7, <2>8 DEF FramesInPlace
<1>4. QED
  BY <1>2, <1>3

\* take_due_animation_frames: the list becomes the batch.
LEMMA FramesTaken ==
    ASSUME TypeOK, FramesInPlace, InBatch, RunFrame
    PROVE  FramesInPlace' /\ InBatch'
<1>1. /\ drv.batch = <<>> /\ drv'.batch = frames /\ frames' = <<>> /\ frames \in Seq(Ids)
      /\ UNCHANGED <<rafs, timedOut>> /\ (frames # <<>> => pc' = "raf")
  BY DEF RunFrame, TakeFrames, InBatch, jsVars, domVars, TypeOK, TimersTypeOK, ControlTypeOK, Driver
<1>2. Batch = {} /\ Batch' = Waiting /\ Waiting' = {}
  BY <1>1 DEF Batch, Waiting
<1>3. /\ (\A j, k \in 1 .. Len(frames) : frames[j] = frames[k] => j = k)'
      /\ (frames # <<>> => frameTimer.armed \/ frameDue)'
  BY <1>1
<1>4. FramesInPlace'
  BY <1>1, <1>2, <1>3 DEF FramesInPlace
<1>5. InBatch'
  BY <1>1 DEF InBatch
<1>6. QED
  BY <1>4, <1>5

\* runAnimationFrames, one id: it leaves the batch and the registry together.
LEMMA FramesNext ==
    ASSUME TypeOK, FramesInPlace, InBatch, NextFrameCallback
    PROVE  FramesInPlace' /\ InBatch'
<1> DEFINE b == drv.batch
           h == Head(b)
<1>1. /\ b \in Seq(Ids) /\ b # <<>> /\ drv'.batch = Tail(b) /\ rafs' = rafs \ {h}
      /\ UNCHANGED <<frames, frameTimer, frameDue, timedOut>>
      /\ pc' = "raf" \/ (pc' = "js" /\ ctx' = "frame")
  BY DEF NextFrameCallback, RunJs, loopVars, timerVars, domVars, TypeOK, ControlTypeOK, Driver
<1>2. /\ Len(b) \in Nat \ {0} /\ h = b[1] /\ Len(Tail(b)) = Len(b) - 1
      /\ \A k \in 1 .. Len(b) - 1 : Tail(b)[k] = b[k + 1]
  BY <1>1
<1> HIDE DEF h
<1>3. h \in Batch /\ Batch \subseteq Batch' \cup {h} /\ Batch' \subseteq Batch
  <2>1. h \in Batch
    BY <1>2 DEF Batch
  <2>2. ASSUME NEW k \in 1 .. Len(b), b[k] # h PROVE b[k] \in Batch'
    <3>1. k - 1 \in 1 .. Len(Tail(b)) /\ Tail(b)[k - 1] = b[k]
      BY <1>2, <2>2
    <3>2. QED
      BY <1>1, <3>1 DEF Batch
  <2>3. \A k \in 1 .. Len(Tail(b)) : Tail(b)[k] \in Batch
    BY <1>2 DEF Batch
  <2>4. QED
    BY <1>1, <2>1, <2>2, <2>3 DEF Batch
<1>4. Waiting' = Waiting
  BY <1>1 DEF Waiting
<1>5. QED
  BY <1>1, <1>3, <1>4 DEF FramesInPlace, InBatch

LEMMA FramesJs == TypeOK /\ Framing /\ ~shutDown /\ JsStep => Framing'
<1> SUFFICES ASSUME TypeOK, FramesInPlace, InBatch, ~shutDown, JsStep
             PROVE  FramesInPlace' /\ InBatch'
  BY DEF Framing
<1> USE DEF loopVars, timerVars, queueVars, pcVars, domVars, counterVars, jsVars
<1>1. ASSUME NEW i \in Ids, NEW d \in Delays, NEW interval \in BOOLEAN, NEW relevant \in BOOLEAN,
             SetTask(i, d, interval, relevant)
      PROVE  FramesInPlace' /\ InBatch'
  BY <1>1, FramesKept DEF SetTask, ScheduleTimer, InBatch
<1>2. ASSUME NEW i \in Ids, ClearTask(i) PROVE FramesInPlace' /\ InBatch'
  BY <1>2, FramesKept DEF ClearTask, CancelTimer, InBatch
<1>3. ASSUME NEW i \in Ids, RequestAnimationFrame(i) PROVE FramesInPlace' /\ InBatch'
  BY <1>3, FramesRequested DEF RequestAnimationFrame, InBatch
<1>4. ASSUME NEW i \in Ids, CancelAnimationFrame(i) PROVE FramesInPlace' /\ InBatch'
  BY <1>4, FramesCancelled DEF CancelAnimationFrame, InBatch
<1>5. ASSUME NEW observed \in BOOLEAN, MutateDom(observed) PROVE FramesInPlace' /\ InBatch'
  BY <1>5, FramesKept DEF MutateDom, InBatch
<1>6. CASE QueueJob \/ LoadStep \/ JsReturns
  <2>1. CASE LoadStep
    BY <2>1, LoadStepKeeps, FramesKept DEF loadVars, InBatch
  <2>2. CASE QueueJob \/ JsReturns
    BY <2>2, FramesKept DEF QueueJob, JsReturns, InJs, InBatch
  <2>3. QED
    BY <1>6, <2>1, <2>2
<1>7. CASE JsThrows
  <2>1. drv.batch = <<>> /\ drv'.batch = <<>>
    BY <1>7 DEF JsThrows, Leaves, NoRun, InBatch, InJs
  <2>2. QED
    BY <1>7, <2>1, FramesKept DEF JsThrows, InBatch
<1>8. ASSUME NEW ran, NEW kept, NEW left, JsTimesOut(ran, kept, left)
      PROVE  FramesInPlace' /\ InBatch'
  <2>1. drv'.batch = <<>> /\ timedOut' /\ UNCHANGED <<frames, frameTimer, frameDue, rafs>>
    BY <1>8 DEF JsTimesOut, Leaves, NoRun, TypeOK, ControlTypeOK, Driver
  <2>2. Batch' = {} /\ Waiting' = Waiting
    BY <2>1 DEF Batch, Waiting
  <2>3. QED
    BY <2>1, <2>2 DEF FramesInPlace, InBatch
<1>9. QED
  BY <1>1, <1>2, <1>3, <1>4, <1>5, <1>6, <1>7, <1>8 DEF JsStep, LoadStep, Interrupted

LEMMA FramesStep == TypeOK /\ Framing /\ [Next]_vars => Framing'
<1> SUFFICES ASSUME TypeOK, Framing, [Next]_vars, ~shutDown' PROVE Framing'
  BY DEF Framing
<1> USE DEF loopVars, queueVars, timerVars, jsVars, counterVars, domVars
<1>1. ~shutDown
  BY StaysShut
<1>2. FramesInPlace /\ InBatch
  BY <1>1 DEF Framing
<1>3. drv \in Driver
  BY DEF TypeOK, ControlTypeOK
<1>4. CASE EmbedderStep
  <2>1. /\ UNCHANGED <<frames, frameTimer, frameDue, rafs, timedOut>>
        /\ drv' = drv \/ (drv'.batch = <<>> /\ drv.batch = <<>>)
    BY <1>1, <1>2, <1>4 DEF EmbedderStep, EvalJs, EmbedderMutates, RunUntilIdle, RunUntilReady,
                            StartRun, Destroy, Shutdown, InBatch, NoRun
  <2>2. drv'.batch = <<>>
    BY <1>2, <1>4, <2>1 DEF EmbedderStep, EvalJs, EmbedderMutates, RunUntilIdle, RunUntilReady,
                            StartRun, Destroy, InBatch
  <2>3. QED
    BY <1>2, <2>1, <2>2, FramesKept DEF Framing, InBatch
<1>5. CASE UvCallback
  <2>1. /\ UNCHANGED <<frames, rafs, timedOut, drv, pc, ctx>>
        /\ UNCHANGED <<frameTimer, frameDue>> \/ frameDue'
    BY <1>5 DEF UvCallback, TimerFired, FrameTimerFired, Land, pcVars
  <2>2. Waiting' = Waiting /\ Batch' = Batch
    BY <2>1 DEF Waiting, Batch
  <2>3. FramesInPlace'
    BY <1>2, <2>1, <2>2 DEF FramesInPlace
  <2>4. QED
    BY <1>2, <2>1, <2>3 DEF Framing, InBatch
<1>6. CASE DriverStep /\ ~UvCallback /\ ~RunFrame /\ ~NextFrameCallback
  <2>1. /\ UNCHANGED <<frames, frameTimer, frameDue, rafs, timedOut>>
        /\ pc # "js"
    BY <1>6 DEF DriverStep, DrainJobs, DeliverObservers, CheckpointDone, Turn, PollThen,
                UvReturns, RunTask, TakeTask, NoTask, FrameEnds, NoFrame,
                IdleBudgetStarts, IdleIterationsSpent, TurnEnds, WakeUp, ReadyIteration,
                ReadyPoll, ReadyVerdict, NotReadyVerdict, ReadyTurn, ReadySleep, Judging
  <2>2. drv.batch = <<>>
    BY <1>2, <1>6, <2>1
       DEF InBatch, DriverStep, DrainJobs, DeliverObservers, CheckpointDone, Turn,
           UvReturns, RunTask, NoTask, FrameEnds, NoFrame,
           IdleBudgetStarts, IdleIterationsSpent, TurnEnds, WakeUp, ReadyIteration,
           ReadyPoll, ReadyVerdict, NotReadyVerdict, ReadyTurn, ReadySleep, Judging
  <2>3. drv'.batch = drv.batch
    <3>1. CASE DrainJobs \/ DeliverObservers \/ CheckpointDone \/ Turn \/ UvReturns
      BY <1>3, <3>1 DEF DrainJobs, DeliverObservers, CheckpointDone, Turn, UvReturns, Driver
    <3>2. CASE RunTask \/ NoTask \/ FrameEnds \/ NoFrame \/ IdleBudgetStarts
      BY <1>3, <3>2 DEF RunTask, NoTask, FrameEnds, NoFrame, IdleBudgetStarts, Driver
    <3>3. CASE IdleIterationsSpent \/ ReadyVerdict \/ NotReadyVerdict
      BY <2>2, <3>3 DEF IdleIterationsSpent, ReadyVerdict, NotReadyVerdict, Leaves, NoRun
    <3>4. CASE TurnEnds \/ ReadySleep
      <4>1. \A w : SleepFor(w) => drv'.batch = drv.batch
        BY <1>3 DEF SleepFor, Driver
      <4>2. Leaves => drv'.batch = drv.batch
        BY <2>2 DEF Leaves, NoRun
      <4>3. CASE ReadySleep
        BY <4>1, <4>3 DEF ReadySleep
      <4>4. CASE TurnEnds
        <5>1. drv' = [drv EXCEPT !.iter = @ + 1] => drv'.batch = drv.batch
          BY <1>3 DEF Driver
        <5>2. QED
          BY <4>1, <4>2, <4>4, <5>1 DEF TurnEnds
      <4>5. QED
        BY <3>4, <4>3, <4>4
    <3>5. CASE WakeUp \/ ReadyIteration \/ ReadyPoll \/ ReadyTurn
      BY <1>3, <3>5 DEF WakeUp, ReadyIteration, ReadyPoll, ReadyTurn, Driver
    <3>6. QED
      BY <1>6, <3>1, <3>2, <3>3, <3>4, <3>5 DEF DriverStep
  <2>4. QED
    BY <1>2, <2>1, <2>2, <2>3, FramesKept DEF Framing, InBatch
<1>7. CASE RunFrame \/ NextFrameCallback
  BY <1>2, <1>7, FramesTaken, FramesNext DEF Framing
<1>8. CASE ClockTick \/ UNCHANGED vars
  BY <1>2, <1>8, FramesKept DEF ClockTick, vars, pcVars, Framing, InBatch
<1>9. QED
  BY <1>1, <1>4, <1>5, <1>6, <1>7, <1>8, FramesJs DEF Next

LEMMA FramesInit == Init => Framing
<1> SUFFICES ASSUME Init PROVE Framing
  OBVIOUS
<1>1. frames = <<>> /\ drv.batch = <<>> /\ rafs = {}
  BY DEF Init, TimersInit, NoRun
<1>2. Waiting = {} /\ Batch = {} /\ Len(frames) = 0
  BY <1>1 DEF Waiting, Batch
<1>3. QED
  BY <1>1, <1>2 DEF Framing, FramesInPlace, InBatch

\* requestAnimationFrame against cancel, take and the frame timer: a requested
\* frame always has a timer armed or a frame due, whatever the loop holds has
\* its callback, and no callback is stranded unless a time-out cut its batch.
THEOREM FramesAlwaysBacked == Spec => []FramesBacked
<1>1. QED
  BY FramesInit, FramesStep, FramingBacks, TypeCorrect, PTL DEF Spec

-----------------------------------------------------------------------------
(* Readiness means what it says.  What a verdict relies on: the checkpoint    *)
(* before it, the clock of the last change, and timers that hold readiness    *)
(* exactly when the page's callbacks do.                                      *)

JobsDone ==
    pc \in {"begin", "turn", "uv", "task", "frame", "turnEnd", "poll", "judge", "sleep"} => ~jobs

\* Which run is under way where the driver is, or will be back.
Driven(p) ==
    /\ p \in {"loop", "poll", "judge"} => drv.call \in Calls \ {"idle"}
    /\ p \in {"begin", "turn", "task", "frame", "turnEnd", "sleep"} => drv.call \in Calls
Driving == Driven(pc) /\ (pc \in {"js", "raf", "check", "uv"} => Driven(after))

Clocked == changedAt <= now /\ (tracker.synced => changedAt <= tracker.last)

Holding ==
    \A i \in DOMAIN timers : timers[i].relevant <=> registry[i].relevant /\ ~registry[i].interval

Marked == \A k \in 1 .. Len(tasks) : tasks[k].what = Net => tasks[k].relevant

Verdicts ==
    /\ JobsDone /\ Driving /\ Clocked /\ Marked
    /\ (~shutDown => Holding)
    /\ (shutDown => pc = "dead")

LEMMA JobsStep == TypeOK /\ JobsDone /\ [Next]_vars => JobsDone'
<1> SUFFICES ASSUME TypeOK, JobsDone, [Next]_vars PROVE JobsDone'
  OBVIOUS
<1> USE DEF JobsDone, jsVars, pcVars
<1>1. CASE EmbedderStep
  BY <1>1 DEF EmbedderStep, EvalJs, EmbedderMutates, RunUntilIdle, RunUntilReady, StartRun, Destroy
<1>2. CASE JsStep
  <2>1. CASE LoadStep
    BY <2>1, LoadStepKeeps DEF loadVars, InJs
  <2>2. CASE ~LoadStep
    BY <1>2, <2>2, ZenonT(60) DEF JsStep, LoadStep, SetTask, ClearTask, RequestAnimationFrame,
              CancelAnimationFrame, MutateDom, QueueJob, JsReturns, JsThrows, Interrupted,
              JsTimesOut, Leaves, InJs
  <2>3. QED
    BY <2>1, <2>2
<1>3. CASE DrainJobs \/ DeliverObservers \/ CheckpointDone \/ Turn \/ UvCallback \/ UvReturns
  BY <1>3 DEF DrainJobs, DeliverObservers, CheckpointDone, Turn, PollThen, UvCallback, UvReturns, RunJs
<1>4. CASE RunTask \/ NoTask \/ RunFrame \/ NextFrameCallback \/ FrameEnds \/ NoFrame
  BY <1>4 DEF RunTask, CompletionRuns, CallbackRuns, NoTask, RunFrame, NextFrameCallback, FrameEnds,
              NoFrame, RunJs
<1>5. CASE IdleBudgetStarts \/ IdleIterationsSpent \/ TurnEnds \/ WakeUp
  BY <1>5 DEF IdleBudgetStarts, IdleIterationsSpent, TurnEnds, WakeUp, SleepFor, PollThen, Leaves
<1>6. CASE ReadyIteration \/ ReadyPoll \/ ReadyVerdict \/ NotReadyVerdict \/ ReadyTurn \/ ReadySleep
  BY <1>6 DEF ReadyIteration, ReadyPoll, ReadyVerdict, NotReadyVerdict, ReadyTurn, ReadySleep,
              Judging, SleepFor, PollThen, Leaves
<1>7. CASE ClockTick \/ UNCHANGED vars
  BY <1>7 DEF ClockTick, vars
<1>8. QED
  BY <1>1, <1>2, <1>3, <1>4, <1>5, <1>6, <1>7 DEF Next, DriverStep

LEMMA DrivingStep == TypeOK /\ Driving /\ [Next]_vars => Driving'
<1> SUFFICES ASSUME TypeOK, Driving, [Next]_vars PROVE Driving'
  OBVIOUS
<1>0. drv \in Driver
  BY DEF TypeOK, ControlTypeOK
<1> USE DEF Driving, Driven, jsVars, pcVars
<1>1. CASE EmbedderStep
  BY <1>1 DEF EmbedderStep, EvalJs, EmbedderMutates, RunUntilIdle, RunUntilReady, StartRun, Destroy,
              NoRun
<1>2. CASE JsStep
  <2>1. ASSUME NEW ran, NEW kept, NEW left, JsTimesOut(ran, kept, left)
        PROVE  pc' = "out" \/ (pc' = "check" /\ after' = after /\ drv'.call = drv.call)
    BY <1>0, <2>1 DEF JsTimesOut, Leaves, Driver
  <2>2. CASE ~Interrupted /\ ~LoadStep
    BY <1>2, <2>2, ZenonT(60) DEF JsStep, LoadStep, SetTask, ClearTask, RequestAnimationFrame,
              CancelAnimationFrame, MutateDom, QueueJob, JsReturns, JsThrows, Leaves, InJs
  <2>3. CASE Interrupted
    <3>1. PICK ran, kept, left : JsTimesOut(ran, kept, left)
      BY <2>3 DEF Interrupted
    <3>2. pc = "js"
      BY <3>1 DEF JsTimesOut, InJs
    <3>3. QED
      BY <2>1, <3>1, <3>2
  <2>4. CASE LoadStep
    BY <2>4, LoadStepKeeps DEF loadVars, InJs
  <2>5. QED
    BY <2>2, <2>3, <2>4
<1>3. CASE DrainJobs \/ DeliverObservers \/ CheckpointDone \/ Turn \/ UvCallback \/ UvReturns
  <2>1. drv'.call = drv.call
    BY <1>0, <1>3 DEF DrainJobs, DeliverObservers, CheckpointDone, Turn, UvCallback, UvReturns, Driver
  <2>2. QED
    BY <1>3, <2>1 DEF DrainJobs, DeliverObservers, CheckpointDone, Turn, PollThen, UvCallback, UvReturns,
                      RunJs
<1>4. CASE RunTask \/ NoTask \/ RunFrame \/ NextFrameCallback \/ FrameEnds \/ NoFrame
  <2>1. drv'.call = drv.call
    BY <1>0, <1>4 DEF RunTask, NoTask, RunFrame, NextFrameCallback, FrameEnds, NoFrame, Driver
  <2>2. QED
    BY <1>4, <2>1 DEF RunTask, CompletionRuns, CallbackRuns, NoTask, RunFrame, NextFrameCallback,
                      FrameEnds, NoFrame, RunJs
<1>5. \A w : SleepFor(w) => drv'.call = drv.call /\ pc' = "sleep"
  BY <1>0 DEF SleepFor, Driver
<1>6. CASE IdleBudgetStarts \/ WakeUp \/ ReadyIteration \/ ReadyPoll \/ ReadyTurn
  <2>1. drv'.call = drv.call
    BY <1>0, <1>6 DEF IdleBudgetStarts, WakeUp, ReadyIteration, ReadyPoll, ReadyTurn, Driver
  <2>2. QED
    BY <1>6, <2>1 DEF IdleBudgetStarts, WakeUp, ReadyIteration, ReadyPoll, ReadyTurn, Judging, PollThen
<1>7. CASE TurnEnds
  <2>1. \/ pc' = "out" \/ (pc' = "sleep" /\ drv'.call = drv.call)
        \/ pc' = "loop" /\ drv' = drv /\ drv.call # "idle"
        \/ pc' = "turn" /\ drv'.call = drv.call
    BY <1>0, <1>5, <1>7 DEF TurnEnds, Leaves, Driver
  <2>2. QED
    BY <1>7, <2>1 DEF TurnEnds
<1>8. CASE IdleIterationsSpent \/ ReadyVerdict \/ NotReadyVerdict
  BY <1>8 DEF IdleIterationsSpent, ReadyVerdict, NotReadyVerdict, Leaves
<1>9. CASE ReadySleep
  BY <1>5, <1>9 DEF ReadySleep, Judging
<1>10. CASE ClockTick \/ UNCHANGED vars
  BY <1>10 DEF ClockTick, vars
<1>11. QED
  BY <1>1, <1>2, <1>3, <1>4, <1>6, <1>7, <1>8, <1>9, <1>10 DEF Next, DriverStep

LEMMA ClockedStep == TypeOK /\ Clocked /\ [Next]_vars => Clocked'
<1> SUFFICES ASSUME TypeOK, Clocked, [Next]_vars PROVE Clocked'
  OBVIOUS
<1>1. now \in Nat /\ changedAt \in Nat /\ tracker \in [last : Nat, synced : BOOLEAN]
  BY DEF TypeOK, TimersTypeOK, TrackerTypeOK
<1> USE DEF Clocked, loopVars, clockVars, domVars
<1>2. CASE EmbedderMutates
  BY <1>1, <1>2 DEF EmbedderMutates
<1>3. CASE EmbedderStep /\ ~EmbedderMutates
  BY <1>3 DEF EmbedderStep, EvalJs, RunUntilIdle, RunUntilReady, StartRun, Destroy
<1>4. ASSUME NEW observed \in BOOLEAN, MutateDom(observed) PROVE Clocked'
  BY <1>1, <1>4 DEF MutateDom
<1>5. CASE JsStep /\ ~ \E observed \in BOOLEAN : MutateDom(observed)
  <2>1. CASE LoadStep
    BY <2>1, LoadStepKeeps DEF loadVars
  <2>2. CASE ~LoadStep
    BY <1>5, <2>2 DEF JsStep, LoadStep, SetTask, ClearTask, RequestAnimationFrame,
              CancelAnimationFrame, QueueJob, JsReturns, JsThrows, Interrupted, JsTimesOut
  <2>3. QED
    BY <2>1, <2>2
<1>6. CASE ReadyVerdict \/ NotReadyVerdict \/ ReadyTurn \/ ReadySleep
  BY <1>1, <1>6 DEF ReadyVerdict, NotReadyVerdict, ReadyTurn, ReadySleep, Judging, TrackerAtJudge
<1>7. CASE DriverStep /\ ~(ReadyVerdict \/ NotReadyVerdict \/ ReadyTurn \/ ReadySleep)
  BY <1>7 DEF DriverStep, DrainJobs, DeliverObservers, CheckpointDone, Turn, PollThen, EnterUv,
              UvCallback, UvReturns, RunTask, NoTask, RunFrame, NextFrameCallback, FrameEnds, NoFrame,
              IdleBudgetStarts, IdleIterationsSpent, TurnEnds, WakeUp, ReadyIteration, ReadyPoll
<1>8. CASE ClockTick
  BY <1>1, <1>8 DEF ClockTick, Tick
<1>9. CASE UNCHANGED vars
  BY <1>9 DEF vars
<1>10. QED
  BY <1>2, <1>3, <1>4, <1>5, <1>6, <1>7, <1>8, <1>9 DEF Next

\* What a step that neither arms, fires nor cancels, queues nor takes leaves.
LEMMA MarkedKept == Marked /\ UNCHANGED tasks => Marked'
BY DEF Marked

LEMMA MarkedPosted ==
    ASSUME Marked, tasks \in Seq(Task), NEW t \in Task, t.what = Net => t.relevant,
           tasks' = Append(tasks, t)
    PROVE  Marked'
<1> DEFINE a == Append(tasks, t)
<1>1. /\ Len(a) = Len(tasks) + 1 /\ Len(tasks) \in Nat /\ a[Len(tasks) + 1] = t
      /\ \A k \in 1 .. Len(tasks) : a[k] = tasks[k]
  OBVIOUS
<1> HIDE DEF a
<1>2. tasks' = a
  BY DEF a
<1>3. QED
  BY <1>1, <1>2 DEF Marked

LEMMA MarkedStep == TypeOK /\ Marked /\ [Next]_vars => Marked'
<1> SUFFICES ASSUME TypeOK, Marked, [Next]_vars PROVE Marked'
  OBVIOUS
<1>0. tasks \in Seq(Task) /\ \A i \in Ids : i # Net
  BY PageLoopAssumption DEF TypeOK, QueueTypeOK
<1> USE DEF loopVars, queueVars, timerVars, jsVars
<1>1. CASE Destroy
  BY <1>1 DEF Destroy, Shutdown, Marked
<1>2. CASE EmbedderStep /\ ~Destroy
  BY <1>2, MarkedKept DEF EmbedderStep, EvalJs, EmbedderMutates, RunUntilIdle, RunUntilReady, StartRun
<1>3. ASSUME NEW i \in Ids, NEW d \in Delays, NEW interval \in BOOLEAN, NEW relevant \in BOOLEAN,
             SetTask(i, d, interval, relevant)
      PROVE  Marked'
  <2> DEFINE t == [what |-> i, relevant |-> relevant]
  <2>1. t \in Task /\ t.what # Net
    BY <1>0, PageLoopAssumption DEF Task
  <2>2. tasks' = tasks \/ tasks' = Append(tasks, t)
    BY <1>3 DEF SetTask, Post, Posted
  <2> HIDE DEF t
  <2>3. QED
    BY <1>0, <2>1, <2>2, MarkedKept, MarkedPosted
<1>4. CASE JsStep /\ ~ \E i \in Ids, d \in Delays, interval, relevant \in BOOLEAN :
                          SetTask(i, d, interval, relevant)
  <2>1. CASE LoadStep
    <3>1. tasks' = tasks \/ tasks' = Append(tasks, NetTask)
      BY <2>1, LoadStepKeeps DEF Posted
    <3>2. NetTask \in Task /\ NetTask.relevant
      BY NetTaskType DEF NetTask
    <3>3. QED
      BY <1>0, <3>1, <3>2, MarkedKept, MarkedPosted
  <2>2. CASE ~LoadStep
    BY <1>4, <2>2, MarkedKept
       DEF JsStep, LoadStep, ClearTask, RequestAnimationFrame, CancelAnimationFrame, MutateDom,
           QueueJob, JsReturns, JsThrows, Interrupted, JsTimesOut
  <2>3. QED
    BY <2>1, <2>2
<1>5. ASSUME NEW i \in Ids, TimerFired(i) PROVE Marked'
  <2> DEFINE t == [what |-> i, relevant |-> timers[i].relevant /\ ~timers[i].repeat]
  <2>1. t \in Task /\ t.what # Net
    BY <1>0, PageLoopAssumption DEF Task
  <2>2. tasks' = tasks \/ tasks' = Append(tasks, t)
    BY <1>5 DEF TimerFired, Post, Posted
  <2> HIDE DEF t
  <2>3. QED
    BY <1>0, <2>1, <2>2, MarkedKept, MarkedPosted
<1>6. CASE Land
  <2> DEFINE t == [what |-> Net, relevant |-> TRUE]
  <2>1. t \in Task /\ t.relevant
    BY PageLoopAssumption DEF Task
  <2>2. tasks' = tasks \/ tasks' = Append(tasks, t)
    BY <1>6 DEF Land, LandAndPost, Posted
  <2> HIDE DEF t
  <2>3. QED
    BY <1>0, <2>1, <2>2, MarkedKept, MarkedPosted
<1>7. CASE FrameTimerFired
  BY <1>7, MarkedKept DEF FrameTimerFired
<1>8. CASE RunTask
  <2>1. tasks # <<>> /\ tasks' = Tail(tasks)
    BY <1>8 DEF RunTask, TakeTask
  <2>2. /\ Len(tasks) \in Nat /\ Len(tasks') = Len(tasks) - 1
        /\ \A k \in 1 .. Len(tasks') : k + 1 \in 1 .. Len(tasks) /\ tasks'[k] = tasks[k + 1]
    BY <1>0, <2>1
  <2>3. QED
    BY <2>2 DEF Marked
<1>9. CASE DriverStep /\ ~UvCallback /\ ~RunTask
  BY <1>9, MarkedKept
     DEF DriverStep, DrainJobs, DeliverObservers, CheckpointDone, Turn, PollThen,
         UvReturns, NoTask, RunFrame, TakeFrames, NextFrameCallback, FrameEnds, NoFrame,
         IdleBudgetStarts, IdleIterationsSpent, TurnEnds, WakeUp, ReadyIteration,
         ReadyPoll, ReadyVerdict, NotReadyVerdict, ReadyTurn, ReadySleep, Judging
<1>10. CASE ClockTick \/ UNCHANGED vars
  BY <1>10, MarkedKept DEF ClockTick, vars
<1>11. QED
  BY <1>1, <1>2, <1>3, <1>4, <1>5, <1>6, <1>7, <1>8, <1>9, <1>10 DEF Next, DriverStep, UvCallback

LEMMA HoldingKept == Holding /\ UNCHANGED <<timers, registry>> => Holding'
BY DEF Holding

\* A timer holds readiness as long as the callback it stands for does.
LEMMA HoldingStep ==
    TypeOK /\ CallbackIsBacked /\ Holding /\ ~shutDown /\ ~shutDown' /\ [Next]_vars => Holding'
<1> SUFFICES ASSUME TypeOK, CallbackIsBacked, Holding, ~shutDown, ~shutDown', [Next]_vars
             PROVE  Holding'
  OBVIOUS
<1>0. /\ DOMAIN timers \subseteq DOMAIN registry
      /\ registry \in [DOMAIN registry -> Entry] /\ timers \in [DOMAIN timers -> Timer]
  BY DEF CallbackIsBacked, TypeOK, ShimTypeOK, TimersTypeOK
<1> USE DEF loopVars, queueVars, timerVars, jsVars
<1>1. CASE EmbedderStep
  BY <1>1, HoldingKept
     DEF EmbedderStep, EvalJs, EmbedderMutates, RunUntilIdle, RunUntilReady, StartRun, Destroy, Shutdown
<1>2. ASSUME NEW i \in Ids, NEW d \in Delays, NEW interval \in BOOLEAN, NEW relevant \in BOOLEAN,
             SetTask(i, d, interval, relevant)
      PROVE  Holding'
  <2> DEFINE e == [interval |-> interval, relevant |-> relevant]
             t == [due |-> now + d, fires |-> uvNow + d, period |-> AtLeastOne(d),
                   repeat |-> interval, relevant |-> relevant /\ ~interval]
  <2>1. /\ i \notin DOMAIN timers /\ i \notin DOMAIN registry /\ registry' = With(registry, i, e)
        /\ timers' = timers \/ timers' = With(timers, i, t)
    BY <1>2 DEF SetTask, Fresh, ScheduleTimer
  <2>2. t.relevant <=> e.relevant /\ ~e.interval
    OBVIOUS
  <2> HIDE DEF e, t
  <2>3. registry'[i] = e /\ \A j \in DOMAIN registry : registry'[j] = registry[j]
    BY <2>1 DEF With
  <2>4. CASE timers' = timers
    BY <1>0, <2>1, <2>3, <2>4 DEF Holding
  <2>5. CASE timers' = With(timers, i, t)
    <3>1. /\ DOMAIN timers' = DOMAIN timers \cup {i} /\ timers'[i] = t
          /\ \A j \in DOMAIN timers : timers'[j] = timers[j]
      BY <2>1, <2>5 DEF With
    <3>2. QED
      BY <1>0, <2>1, <2>2, <2>3, <3>1 DEF Holding
  <2>6. QED
    BY <2>1, <2>4, <2>5
<1>3. ASSUME NEW i \in Ids, ClearTask(i) PROVE Holding'
  <2>1. /\ DOMAIN timers' = DOMAIN timers \ {i}
        /\ \A j \in DOMAIN registry \ {i} : registry'[j] = registry[j]
        /\ \A j \in DOMAIN timers \ {i} : timers'[j] = timers[j]
    BY <1>3 DEF ClearTask, CancelTimer, Without
  <2>2. QED
    BY <1>0, <2>1 DEF Holding
<1>4. CASE JsStep /\ ~(\E i \in Ids, d \in Delays, interval, relevant \in BOOLEAN :
                          SetTask(i, d, interval, relevant)) /\ ~ \E i \in Ids : ClearTask(i)
  <2>1. CASE LoadStep
    BY <2>1, LoadStepKeeps, HoldingKept DEF loadVars
  <2>2. CASE ~LoadStep
    BY <1>4, <2>2, HoldingKept
       DEF JsStep, LoadStep, RequestAnimationFrame, RequestFrame, CancelAnimationFrame, CancelFrame,
           MutateDom, QueueJob, JsReturns, JsThrows, Interrupted, JsTimesOut
  <2>3. QED
    BY <2>1, <2>2
<1>5. ASSUME NEW i \in Ids, TimerFired(i), UNCHANGED registry PROVE Holding'
  <2>1. i \in DOMAIN timers /\ timers[i] \in Timer
    BY <1>0, <1>5 DEF TimerFired, Expired
  <2>2. DOMAIN timers' \subseteq DOMAIN timers
    BY <1>5 DEF TimerFired, Without
  <2>3. \A j \in DOMAIN timers' : timers'[j].relevant = timers[j].relevant
    BY <1>0, <1>5, <2>1 DEF TimerFired, Without, Timer
  <2>4. QED
    BY <1>5, <2>2, <2>3 DEF Holding
<1>6. CASE RunTask
  <2> DEFINE w == Head(tasks).what
  <2>1. /\ timers' = timers
        /\ registry' = registry \/ (/\ w \in DOMAIN registry /\ ~registry[w].interval
                                    /\ registry' = Without(registry, w))
    BY <1>6 DEF RunTask, CompletionRuns, CallbackRuns
  <2>2. ~NowhereIn(tasks, w)
    <3>1. 1 \in 1 .. Len(tasks) /\ Head(tasks) = tasks[1]
      BY <1>6 DEF RunTask, TakeTask, TypeOK, QueueTypeOK
    <3>2. QED
      BY <3>1 DEF NowhereIn
  <2> HIDE DEF w
  <2>3. CASE registry' = registry
    BY <2>1, <2>3, HoldingKept
  <2>4. CASE ~registry[w].interval /\ registry' = Without(registry, w)
    <3>1. w \notin DOMAIN timers
      BY <2>2, <2>4 DEF CallbackIsBacked
    <3>2. \A j \in DOMAIN registry \ {w} : registry'[j] = registry[j]
      BY <2>4 DEF Without
    <3>3. QED
      BY <1>0, <2>1, <3>1, <3>2 DEF Holding
  <2>5. QED
    BY <2>1, <2>3, <2>4
<1>7. CASE UvCallback
  BY <1>5, <1>7, HoldingKept DEF UvCallback, FrameTimerFired, Land
<1>8. CASE DriverStep /\ ~UvCallback /\ ~RunTask
  BY <1>8, HoldingKept
     DEF DriverStep, DrainJobs, DeliverObservers, CheckpointDone, Turn, PollThen,
         UvReturns, NoTask, RunFrame, TakeFrames, NextFrameCallback, FrameEnds, NoFrame,
         IdleBudgetStarts, IdleIterationsSpent, TurnEnds, WakeUp, ReadyIteration,
         ReadyPoll, ReadyVerdict, NotReadyVerdict, ReadyTurn, ReadySleep, Judging
<1>9. CASE ClockTick \/ UNCHANGED vars
  BY <1>9, HoldingKept DEF ClockTick, vars
<1>10. QED
  BY <1>1, <1>2, <1>3, <1>4, <1>6, <1>7, <1>8, <1>9 DEF Next

\* Nothing happens to a destroyed page.
LEMMA DeadStep == (shutDown => pc = "dead") /\ [Next]_vars => (shutDown' => pc' = "dead")
<1> SUFFICES ASSUME shutDown => pc = "dead", [Next]_vars, shutDown' PROVE pc' = "dead"
  OBVIOUS
<1> USE DEF loopVars, queueVars, timerVars
<1>1. CASE Destroy
  BY <1>1 DEF Destroy
<1>2. CASE EmbedderStep /\ ~Destroy
  BY <1>2 DEF EmbedderStep, EvalJs, EmbedderMutates, RunUntilIdle, RunUntilReady, StartRun, pcVars
<1>3. CASE JsStep
  <2>1. CASE LoadStep
    BY <2>1, LoadStepKeeps DEF InJs
  <2>2. CASE ~LoadStep
    BY <1>3, <2>2, ZenonT(60) DEF JsStep, LoadStep, SetTask, Post, ScheduleTimer, ClearTask,
              RequestAnimationFrame, CancelAnimationFrame, MutateDom, QueueJob,
              JsReturns, JsThrows, Interrupted, JsTimesOut, InJs
  <2>3. QED
    BY <2>1, <2>2
<1>4. CASE UvCallback
  BY <1>4 DEF UvCallback, TimerFired, Post, FrameTimerFired, Land, LandAndPost
<1>5. CASE DriverStep /\ ~UvCallback
  BY <1>5 DEF DriverStep, DrainJobs, DeliverObservers, CheckpointDone, Turn, PollThen,
              UvReturns, RunTask, TakeTask, NoTask, RunFrame, NextFrameCallback, FrameEnds, NoFrame,
              IdleBudgetStarts, IdleIterationsSpent, TurnEnds, WakeUp, ReadyIteration,
              ReadyPoll, ReadyVerdict, NotReadyVerdict, ReadyTurn, ReadySleep, Judging
<1>6. CASE ClockTick \/ UNCHANGED vars
  BY <1>6 DEF ClockTick, vars, pcVars
<1>7. QED
  BY <1>1, <1>2, <1>3, <1>4, <1>5, <1>6 DEF Next

LEMMA VerdictsInit == Init => Verdicts
<1> SUFFICES ASSUME Init PROVE Verdicts
  OBVIOUS
<1>1. JobsDone /\ Driving /\ shutDown = FALSE
  BY DEF Init, QueueInit, JobsDone, Driving, Driven
<1>2. Clocked /\ Marked /\ Holding
  BY DEF Init, QueueInit, TimersInit, Clocked, Marked, Holding
<1>3. QED
  BY <1>1, <1>2 DEF Verdicts

LEMMA VerdictsStep == TypeOK /\ CallbackIsBacked /\ Verdicts /\ [Next]_vars => Verdicts'
BY JobsStep, DrivingStep, ClockedStep, MarkedStep, HoldingStep, DeadStep, StaysShut DEF Verdicts

LEMMA VerdictsAlways == Spec => [](TypeOK /\ CallbackIsBacked /\ Work /\ Verdicts)
<1>1. Spec => [](Work)
  BY WorkInit, WorkStep, TypeCorrect, PTL DEF Spec
<1>2. QED
  BY <1>1, VerdictsInit, VerdictsStep, CallbacksAreBacked, TypeCorrect, PTL DEF Spec

\* run_microtask_checkpoint before every turn and frame (HTML's event loop):
\* no promise job queued by a callback is still waiting when the next task or
\* the next frame starts, in whichever of the two drivers the turn was taken.
THEOREM JobsNeverWait == Spec => NoJobWaitsForATask
<1>1. Verdicts /\ [Next]_vars => [RunTask \/ RunFrame => ~jobs]_vars
  BY DEF Verdicts, JobsDone, RunTask, RunFrame
<1>2. QED
  BY <1>1, VerdictsAlways, PTL DEF Spec, NoJobWaitsForATask

\* Nothing relevant pending in the loop is nothing relevant pending on the page.
LEMMA NothingDue ==
    ASSUME TypeOK, CallbackIsBacked, Holding, ~shutDown, NothingRelevantPending(Window)
    PROVE  ~RelevantTimerDue
<1>1. now \in Nat /\ Window \in Nat /\ timers \in [DOMAIN timers -> Timer]
  BY PageLoopAssumption DEF TypeOK, TimersTypeOK
<1>2. SUFFICES ASSUME NEW i \in DOMAIN registry, registry[i].relevant, ~registry[i].interval,
                      i \in DOMAIN timers, timers[i].due <= now + Window
               PROVE  FALSE
  BY DEF RelevantTimerDue
<1>3. timers[i].relevant /\ ~timers[i].repeat /\ timers[i].due \in Nat
  BY <1>1, <1>2 DEF Holding, CallbackIsBacked, Timer
<1>4. timers[i].due > now + Window
  BY <1>2, <1>3 DEF NothingRelevantPending
<1>5. QED
  BY <1>1, <1>2, <1>3, <1>4

\* What a judged page's counters say of it.
LEMMA Judged ==
    ASSUME TypeOK, Work, Verdicts, pc = "judge"
    PROVE  /\ ~shutDown /\ ~jobs /\ Holding /\ drv.call \in Calls \ {"idle"}
           /\ observing = 0 => ~flush
           /\ net = 0 => external = 0 /\ (Marked /\ NothingRelevantPending(Window) => Landed = {})
           /\ ~timedOut /\ observing # 0 => flush
           /\ ~timedOut /\ net # 0 => external > 0 \/ Landed # {} \/ loads.lost > 0
<1>1. ~shutDown /\ ~jobs /\ Holding /\ drv.call \in Calls \ {"idle"}
  BY DEF Verdicts, JobsDone, Driving, Driven
<1>2. owed = NothingOwed /\ Owing /\ Covered
  BY <1>1 DEF Work, Owing
<1>3. /\ external \in Nat /\ IsFiniteSet(Landed) /\ Cardinality(Landed) \in Nat
      /\ net \in Nat /\ observing \in Nat /\ loads \in Loads
  BY LandedFinite DEF TypeOK, QueueTypeOK, TrackerTypeOK
<1>4. /\ loads.answered \in Nat /\ loads.waiting \in Nat /\ loads.lost \in Nat
      /\ loads.dropped \in Nat /\ loads.answered = 0 /\ owed.net = 0 /\ owed.observing = 0
  BY <1>1, <1>2, <1>3, LoadsUpdates DEF Owing, NothingOwed
<1>5. Live = Cardinality(Landed) - loads.dropped /\ Live \in Nat
  BY <1>2, <1>3, <1>4 DEF Owing, Live, Minus
<1>6. net = external + Live + loads.waiting + loads.lost /\ Deliveries = IF flush THEN 1 ELSE 0
  BY <1>2, <1>3, <1>4, <1>5 DEF Covered, NetCovered, Working, Deliveries
<1>7. Live > 0 => Landed # {}
  BY <1>3, <1>4, <1>5, FS_EmptySet
<1>8. ~timedOut /\ loads.waiting > 0 => external > 0 \/ Live > 0
  BY <1>2, <1>3, <1>4, <1>5 DEF Owing, NoScriptStranded
<1>9. ASSUME Marked, NothingRelevantPending(Window) PROVE Landed = {}
  BY <1>9 DEF Landed, Marked, NothingRelevantPending
<1>10. observing = 0 => ~flush
  BY <1>2, <1>3, <1>6 DEF Covered, ObservingCovered
<1>11. ~timedOut /\ observing # 0 => flush
  BY <1>2, <1>3, <1>6 DEF Covered, ObservingCovered
<1>12. net = 0 => external = 0
  BY <1>3, <1>4, <1>5, <1>6
<1>13. ~timedOut /\ net # 0 => external > 0 \/ Landed # {} \/ loads.lost > 0
  <2>1. SUFFICES ASSUME ~timedOut, external = 0, Landed = {}, loads.lost = 0 PROVE net = 0
    BY <1>3, <1>4
  <2>2. Live = 0
    BY <1>5, <1>7, <2>1
  <2>3. loads.waiting = 0
    BY <1>4, <1>8, <2>1, <2>2
  <2>4. QED
    BY <1>6, <2>1, <2>2, <2>3
<1>14. QED
  BY <1>1, <1>9, <1>10, <1>11, <1>12, <1>13

LEMMA VerdictMeansReady ==
    ASSUME TypeOK, CallbackIsBacked, Work, Verdicts, ReadyVerdict
    PROVE  /\ ~jobs /\ ~flush
           /\ drv.call \in {"network-idle", "ready"} =>
                 external = 0 /\ Landed = {} /\ ~RelevantTimerDue
           /\ drv.call \in {"dom-stable", "ready"} => Quiescent \/ now - changedAt >= Window
<1>1. pc = "judge" /\ Satisfied(TrackerAtJudge)
  BY DEF ReadyVerdict, Judging
<1>2. observing = 0
  BY <1>1 DEF Satisfied
<1>3. /\ ~shutDown /\ ~jobs /\ ~flush /\ Holding
      /\ net = 0 => external = 0 /\ (NothingRelevantPending(Window) => Landed = {})
  BY <1>1, <1>2, Judged DEF Verdicts
<1>4. ASSUME drv.call \in {"network-idle", "ready"}
      PROVE  external = 0 /\ Landed = {} /\ ~RelevantTimerDue
  <2>1. NetworkIdle
    BY <1>1, <1>4 DEF Satisfied
  <2>2. QED
    BY <1>3, <2>1, NothingDue DEF NetworkIdle
<1>5. ASSUME drv.call \in {"dom-stable", "ready"} PROVE Quiescent \/ now - changedAt >= Window
  <2>1. Quiescent \/ DomStable(TrackerAtJudge)
    BY <1>1, <1>5 DEF Satisfied
  <2>2. ASSUME DomStable(TrackerAtJudge) PROVE now - changedAt >= Window
    <3>1. /\ now \in Nat /\ changedAt \in Nat /\ changedAt <= now /\ Window \in Nat
          /\ TrackerAtJudge.last \in Nat /\ changedAt <= TrackerAtJudge.last
      BY PageLoopAssumption DEF TypeOK, TimersTypeOK, TrackerTypeOK, Verdicts, Clocked, TrackerAtJudge
    <3>2. QED
      BY <2>2, <3>1 DEF DomStable
  <2>3. QED
    BY <2>1, <2>2
<1>6. QED
  BY <1>3, <1>4, <1>5

\* run_until_ready with PageActivityTracker: a page reported ready has no job
\* and no record waiting, for the network goals no transfer and no relevant
\* timeout within the window, for the stability goals an unchanged document,
\* for any timers, transfers, changes behind the tracker's back and time-outs.
THEOREM ReadyIsSound == Spec => ReadySound
<1>1. TypeOK /\ CallbackIsBacked /\ Work /\ Verdicts =>
        [ReadyVerdict =>
           /\ ~jobs /\ ~flush
           /\ drv.call \in {"network-idle", "ready"} =>
                 external = 0 /\ Landed = {} /\ ~RelevantTimerDue
           /\ drv.call \in {"dom-stable", "ready"} => Quiescent \/ now - changedAt >= Window]_vars
  BY VerdictMeansReady
<1>2. QED
  BY <1>1, VerdictsAlways, PTL DEF ReadySound

LEMMA RefusalHasReason ==
    ASSUME TypeOK, CallbackIsBacked, Work, Verdicts, NotReadyVerdict \/ ReadyTurn \/ ReadySleep
    PROVE  \/ timedOut
           \/ loads.lost > 0 /\ drv.call \in {"network-idle", "ready"}
           \/ flush
           \/ external > 0
           \/ \E k \in 1 .. Len(tasks) : tasks[k].relevant
           \/ RelevantTimerDue
           \/ drv.call \in {"dom-stable", "ready"} /\ ~Quiescent /\ ~DomStable(tracker')
<1>1. pc = "judge" /\ ~Satisfied(tracker')
  BY DEF NotReadyVerdict, ReadyTurn, ReadySleep, Judging
<1> SUFFICES ASSUME ~timedOut, ~(loads.lost > 0 /\ drv.call \in {"network-idle", "ready"}),
                    ~flush, ~(external > 0),
                    \A k \in 1 .. Len(tasks) : ~tasks[k].relevant, ~RelevantTimerDue
             PROVE  drv.call \in {"dom-stable", "ready"} /\ ~Quiescent /\ ~DomStable(tracker')
  OBVIOUS
<1>2. Landed = {}
  BY DEF Landed, Verdicts, Marked
<1>3. /\ ~shutDown /\ Holding /\ drv.call \in Calls \ {"idle"} /\ observing = 0
      /\ drv.call \in {"network-idle", "ready"} => net = 0
      /\ external = 0
  <2>1. external \in Nat
    BY DEF TypeOK, QueueTypeOK
  <2>2. QED
    BY <1>1, <1>2, <2>1, Judged
<1>4. NothingRelevantPending(Window)
  <2> SUFFICES ASSUME NEW i \in DOMAIN timers, timers[i].relevant, ~timers[i].repeat
               PROVE  timers[i].due > now + Window
    BY <1>3 DEF NothingRelevantPending
  <2>1. i \in DOMAIN registry /\ registry[i].relevant /\ ~registry[i].interval
    BY <1>3 DEF Holding, CallbackIsBacked
  <2>2. ~(timers[i].due <= now + Window)
    BY <2>1 DEF RelevantTimerDue
  <2>3. timers[i].due \in Nat /\ now \in Nat /\ Window \in Nat
    BY PageLoopAssumption DEF TypeOK, TimersTypeOK, Timer
  <2>4. QED
    BY <2>2, <2>3
<1>5. drv.call \in {"network-idle", "ready"} => NetworkIdle
  BY <1>3, <1>4 DEF NetworkIdle
<1>6. drv.call \in {"load", "network-idle", "dom-stable", "ready"}
  BY <1>3, PageLoopAssumption
<1>7. QED
  BY <1>1, <1>3, <1>4, <1>5, <1>6 DEF Satisfied

\* readiness_satisfied (docs/architecture.md on the goals): a refusal always has
\* one of the reasons listed, so neither an interval, a frame loop, an aborted
\* load, a script that waits its turn nor a timeout beyond the window can hold
\* readiness open; what can, without a time-out, is a fetch that broke.
THEOREM RefusalsHaveReasons == Spec => NotReadyHasReason
<1>1. TypeOK /\ CallbackIsBacked /\ Work /\ Verdicts =>
        [NotReadyVerdict \/ ReadyTurn \/ ReadySleep =>
           \/ timedOut
           \/ loads.lost > 0 /\ drv.call \in {"network-idle", "ready"}
           \/ flush
           \/ external > 0
           \/ \E k \in 1 .. Len(tasks) : tasks[k].relevant
           \/ RelevantTimerDue
           \/ drv.call \in {"dom-stable", "ready"} /\ ~Quiescent /\ ~DomStable(tracker')]_vars
  BY RefusalHasReason
<1>2. QED
  BY <1>1, VerdictsAlways, PTL DEF NotReadyHasReason

\* No way left to JS stays so, until the embedder evaluates a script.
LEMMA NoWayStays == TypeOK /\ NoWayToJs /\ [Next]_vars => NoWayToJs' \/ EvalJs
<1> SUFFICES ASSUME TypeOK, NoWayToJs, [Next]_vars, ~EvalJs PROVE NoWayToJs'
  OBVIOUS
<1> USE DEF NoWayToJs, loopVars, queueVars, timerVars, jsVars, counterVars
<1>1. CASE EmbedderStep
  <2>1. CASE Destroy
    <3>1. DOMAIN timers' = {} /\ tasks' = <<>> /\ frames' = <<>> /\ external' = external
      BY <2>1 DEF Destroy, Shutdown
    <3>2. pc' = "dead" /\ UNCHANGED jsVars
      BY <2>1 DEF Destroy
    <3>3. QED
      BY <3>1, <3>2
  <2>2. CASE EmbedderMutates
    BY <2>2 DEF EmbedderMutates, pcVars
  <2>3. CASE RunUntilIdle \/ \E goal \in Calls \ {"idle"} : RunUntilReady(goal)
    <3>1. \A c : StartRun(c) => UNCHANGED <<loopVars, jsVars>>
      BY DEF StartRun
    <3>2. UNCHANGED <<loopVars, jsVars>> /\ pc' \in {"check", "loop"}
      BY <2>3, <3>1 DEF RunUntilIdle, RunUntilReady
    <3>3. QED
      BY <3>2
  <2>4. QED
    BY <1>1, <2>1, <2>2, <2>3 DEF EmbedderStep
<1>2. CASE JsStep
  <2>1. ~LoadStep
    BY LoadStepKeeps DEF InJs
  <2>2. QED
    BY <1>2, <2>1 DEF JsStep, LoadStep, SetTask, ClearTask, RequestAnimationFrame,
              CancelAnimationFrame, MutateDom, QueueJob, JsReturns, JsThrows, Interrupted,
              JsTimesOut, InJs
<1>3. CASE DrainJobs \/ DeliverObservers \/ NextFrameCallback \/ FrameEnds \/ RunTask
  BY <1>3 DEF DrainJobs, DeliverObservers, NextFrameCallback, FrameEnds, RunTask, TakeTask
<1>4. CASE UvCallback
  <2>1. ASSUME NEW i \in Ids, TimerFired(i) PROVE FALSE
    BY <2>1 DEF TimerFired, Expired
  <2>2. ~Land
    BY DEF Land
  <2>3. QED
    BY <1>4, <2>1, <2>2 DEF UvCallback, FrameTimerFired, pcVars
<1>5. CASE CheckpointDone
  <2>1. after \notin {"js", "raf"}
    BY DEF TypeOK, ControlTypeOK
  <2>2. QED
    BY <1>5, <2>1 DEF CheckpointDone
<1>6. CASE UvReturns
  <2>1. after \notin {"js", "raf"}
    BY DEF TypeOK, ControlTypeOK
  <2>2. QED
    BY <1>6, <2>1 DEF UvReturns
<1>7. CASE Turn \/ NoTask \/ RunFrame \/ NoFrame \/ IdleBudgetStarts \/ IdleIterationsSpent
  BY <1>7 DEF Turn, PollThen, NoTask, RunFrame, TakeFrames, NoFrame, IdleBudgetStarts,
              IdleIterationsSpent, Leaves
<1>8. CASE TurnEnds \/ WakeUp \/ ReadyIteration \/ ReadyPoll
  <2>1. CASE TurnEnds
    <3>1. pc' \in {"loop", "turn", "out", "sleep"}
      BY <2>1 DEF TurnEnds, SleepFor, Leaves
    <3>2. QED
      BY <2>1, <3>1 DEF TurnEnds
  <2>2. CASE WakeUp \/ ReadyIteration \/ ReadyPoll
    BY <2>2 DEF WakeUp, ReadyIteration, ReadyPoll, PollThen
  <2>3. QED
    BY <1>8, <2>1, <2>2
<1>9. CASE ReadyVerdict \/ NotReadyVerdict \/ ReadyTurn \/ ReadySleep
  <2>1. pc' \in {"out", "turn", "sleep"} /\ Judging
    BY <1>9 DEF ReadyVerdict, NotReadyVerdict, ReadyTurn, ReadySleep, SleepFor, Leaves
  <2>2. QED
    BY <2>1 DEF Judging
<1>10. CASE ClockTick \/ UNCHANGED vars
  BY <1>10 DEF ClockTick, vars, pcVars
<1>11. QED
  BY <1>1, <1>2, <1>3, <1>4, <1>5, <1>6, <1>7, <1>8, <1>9, <1>10 DEF Next, DriverStep

LEMMA QuiescentHasNoWay ==
    ASSUME TypeOK, Work, Verdicts, ReadyVerdict, Quiescent
    PROVE  NoWayToJs
<1>1. pc = "judge" /\ observing = 0
  BY DEF ReadyVerdict, Judging, Satisfied
<1>2. ~jobs /\ ~flush
  BY <1>1, Judged
<1>3. QED
  BY <1>1, <1>2 DEF Quiescent, NoWayToJs

\* EventLoop::quiescent as run_until_ready's shortcut: a page found ready while
\* quiescent can run no JS again of itself, so nothing can change it after the
\* verdict but the embedder.
THEOREM QuiescenceIsFinal == Spec => QuiescentIsFinal
<1>1. TypeOK /\ Work /\ Verdicts /\ [Next]_vars =>
        [/\ ReadyVerdict /\ Quiescent => NoWayToJs
         /\ NoWayToJs => NoWayToJs' \/ EvalJs]_vars
  BY NoWayStays, QuiescentHasNoWay
<1>2. QED
  BY <1>1, VerdictsAlways, PTL DEF Spec, QuiescentIsFinal

LEMMA StuckHasNothing ==
    ASSUME TypeOK, CallbackIsBacked, Framing, Verdicts, NotReadyVerdict, ~BudgetSpent
    PROVE  DOMAIN registry = {} /\ external = 0 /\ Landed = {} /\ frames = <<>>
<1>1. /\ pc = "judge" /\ ~shutDown /\ ~frameDue /\ tasks = <<>> /\ external = 0
      /\ Advances(tracker') = {}
  BY DEF NotReadyVerdict, Judging, HasReadyTask, Idle, Verdicts
<1>2. DOMAIN timers = {} /\ ~frameTimer.armed
  BY <1>1 DEF Advances, WakeUpDelays
<1>3. Landed = {} /\ \A i : ~OnceIn(tasks, i)
  BY <1>1 DEF Landed, OnceIn
<1>4. DOMAIN registry = {}
  BY <1>1, <1>2, <1>3 DEF CallbackIsBacked
<1>5. frames = <<>>
  BY <1>1, <1>2 DEF Framing, FramesInPlace
<1>6. QED
  BY <1>1, <1>3, <1>4, <1>5

\* run_until_ready returns early without being ready only when nothing it could
\* still wait for is left: no timeout, no transfer, no requested frame.
THEOREM GivesUpOnlyStuck == Spec => GivesUpOnlyWhenStuck
<1>1. TypeOK /\ CallbackIsBacked /\ Framing /\ Verdicts =>
        [NotReadyVerdict /\ ~BudgetSpent =>
           DOMAIN registry = {} /\ external = 0 /\ Landed = {} /\ frames = <<>>]_vars
  BY StuckHasNothing
<1>2. Spec => []Framing
  BY FramesInit, FramesStep, TypeCorrect, PTL DEF Spec
<1>3. QED
  BY <1>1, <1>2, VerdictsAlways, PTL DEF GivesUpOnlyWhenStuck

LEMMA IdleEndHasNothing ==
    ASSUME TypeOK, CallbackIsBacked, Verdicts, TurnEnds, pc' = "out", now < drv.deadline
    PROVE  /\ \A i \in DOMAIN registry : registry[i].interval
           /\ external = 0 /\ tasks = <<>> /\ ~jobs
<1>1. pc = "turnEnd" /\ (Idle \/ now >= drv.deadline)
  BY DEF TurnEnds, SleepFor
<1>2. Idle /\ ~jobs /\ ~shutDown
  <2>1. now \in Nat /\ drv.deadline \in Nat
    BY DEF TypeOK, TimersTypeOK, ControlTypeOK, Driver
  <2>2. QED
    BY <1>1, <2>1 DEF Verdicts, JobsDone
<1>3. tasks = <<>> /\ external = 0 /\ \A i : ~OnceIn(tasks, i)
  BY <1>2 DEF Idle, OnceIn
<1>4. \A i \in DOMAIN registry : registry[i].interval
  BY <1>2, <1>3 DEF Idle, CallbackIsBacked
<1>5. QED
  BY <1>2, <1>3, <1>4

\* run_until_idle: before its budget is spent it stops only when every timeout
\* the page set has run or was cleared, every transfer was handed to JS, and
\* the promise jobs these left have run.
THEOREM IdleIsDone == Spec => IdleMeansDone
<1>1. TypeOK /\ CallbackIsBacked /\ Verdicts =>
        [TurnEnds /\ pc' = "out" /\ now < drv.deadline =>
           /\ \A i \in DOMAIN registry : registry[i].interval
           /\ external = 0 /\ tasks = <<>> /\ ~jobs]_vars
  BY IdleEndHasNothing
<1>2. QED
  BY <1>1, VerdictsAlways, PTL DEF IdleMeansDone
=============================================================================
