------------------------------ MODULE TaskQueue ------------------------------
(***************************************************************************)
(* The part of pagecore::EventLoop (src/src/event_loop.cpp) that loaders,  *)
(* timers and the JS bridge all share: one FIFO of macrotasks, the counter *)
(* of in-flight external work and the shut-down flag.                      *)
(*                                                                         *)
(* A queued task captures plain data only, so it is a record: what it will *)
(* resolve when it runs (what) and whether it holds readiness (relevant).  *)
(* The TaskSource tag is bookkeeping no code path reads and is left out.   *)
(***************************************************************************)
EXTENDS Naturals, Sequences

CONSTANT What      \* the things a queued task can be about

VARIABLES
    tasks,         \* tasks_: the queue, oldest first
    external,      \* external_work_: transfers in flight in a loader
    shutDown       \* shut_down_

queueVars == <<tasks, external, shutDown>>

Task == [what : What, relevant : BOOLEAN]

QueueTypeOK ==
    /\ tasks \in Seq(Task)
    /\ external \in Nat
    /\ shutDown \in BOOLEAN

QueueInit ==
    /\ tasks = <<>>
    /\ external = 0
    /\ shutDown = FALSE

\* EventLoop::post: the queue with t appended, or unchanged after shutdown.
Posted(t) == IF shutDown THEN tasks ELSE Append(tasks, t)

Post(t) ==
    /\ tasks' = Posted(t)
    /\ UNCHANGED <<external, shutDown>>

\* EventLoop::run_one_task: the oldest task across all sources leaves the
\* queue before its body runs.
TakeTask ==
    /\ tasks # <<>>
    /\ tasks' = Tail(tasks)
    /\ UNCHANGED <<external, shutDown>>

BeginExternalWork ==
    /\ external' = external + 1
    /\ UNCHANGED <<tasks, shutDown>>

\* The counter EventLoop::end_external_work leaves behind (it saturates).
ExternalAfterEnd == IF external > 0 THEN external - 1 ELSE 0

\* A loader callback inside uv_run ends a transfer and posts its completion.
LandAndPost(t) ==
    /\ external' = ExternalAfterEnd
    /\ tasks' = Posted(t)
    /\ UNCHANGED shutDown

=============================================================================
