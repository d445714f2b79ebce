------------------------------ MODULE AsyncLoad ------------------------------
(***************************************************************************)
(* Asynchronous resource loads started by fetch(): the page promise, the   *)
(* shim's registry of pending loads, the bridge's own registry, the engine *)
(* that serves them (curl_multi or the task-queue adapter), the cache      *)
(* probe and the load-count budget, on the event loop's queue.             *)
(*                                                                         *)
(* A load travels: started -> in the engine -> a queued Networking task -> *)
(* a promise reaction -> settled. abort() may come at each of these points *)
(* and js_timeout may interrupt the reaction. Tasks and libuv callbacks    *)
(* start only after a drained checkpoint (PageLoop!NoJobWaitsForATask), so *)
(* they wait for the queued reactions.                                     *)
(***************************************************************************)
EXTENDS TaskQueue, FiniteSets

CONSTANTS
    Loads,       \* bound: the fetch() calls of a page, by their resource-load id
    Budget       \* max_js_resource_loads

\* What makes the queued delivery of a load still valid when it runs.
Via == {"engine", "waiting", "cache"}

ASSUME AsyncLoadAssumption ==
    /\ IsFiniteSet(Loads)
    /\ What = [load : Loads, via : Via]
    /\ Budget \in Nat

VARIABLES
    engine,        \* async_loader_: CurlMultiAsyncLoader or TaskQueueAsyncLoader
    shim,          \* pendingResourceLoads of the shim: ids with a promise to settle
    pendingLoads,  \* pending_resource_loads_: an engine's id, the sentinel 0, none
    transfers,     \* transfers_: in flight in curl_multi
    waiting,       \* pending_immediate_, or the adapter's pending_
    spent,         \* js_resource_load_count_
    reactions,     \* promise jobs of completed or refused loads, oldest first
    outcome,       \* what the promise fetch() returned has come to
    active,        \* pending_xhr_fetch_ of the activity tracker
    order,         \* history: loads handed to an engine or the cache, in order
    stored,        \* history: loads whose response reached cookie jar and cache
    cancelled      \* history: loads abort() has cancelled

bridgeVars == <<shim, pendingLoads, transfers, waiting, spent>>
pageVars == <<reactions, outcome, active>>
history == <<order, stored, cancelled>>
vars == <<queueVars, engine, bridgeVars, pageVars, history>>

\* stalled: the reaction that would settle it broke. leaked: rejected, but its
\* activity mark stays. released: rejected, and an abort has taken the mark back.
Outcome == {"unsent", "pending", "resolved", "failed", "aborted",
            "stalled", "leaked", "released"}
Reaction == [load : Loads, ok : BOOLEAN]

Init ==
    /\ QueueInit
    /\ engine \in {"curl", "adapter"}
    /\ shim = {}
    /\ pendingLoads = [l \in Loads |-> "none"]
    /\ transfers = {}
    /\ waiting = {}
    /\ spent = 0
    /\ reactions = <<>>
    /\ outcome = [l \in Loads |-> "unsent"]
    /\ active = 0
    /\ order = <<>>
    /\ stored = {}
    /\ cancelled = {}

-----------------------------------------------------------------------------
(* fetch(): one action per way the start of a load can go.                  *)

\* The prologue of fetch() holds readiness from the call on.
Begin(l) ==
    /\ ~shutDown
    /\ outcome[l] = "unsent"
    /\ outcome' = [outcome EXCEPT ![l] = "pending"]
    /\ active' = active + 1
    /\ UNCHANGED <<engine, stored, cancelled>>

\* A start that throws rejects the promise the shim registered and forgets it.
Rejects(l) ==
    /\ reactions' = Append(reactions, [load |-> l, ok |-> FALSE])
    /\ UNCHANGED <<queueVars, shim, pendingLoads, transfers, waiting, order>>

\* Blocked by js_resource_load_policy, or by a budget (count, bytes or time):
\* the last two are spent by what loads brought, so any load may meet them.
Refused(l) ==
    /\ Begin(l)
    /\ Rejects(l)
    /\ UNCHANGED spent

\* Mutant of Spend: the count is recorded at completion.
MutantSpend == spent < Budget /\ spent' = Cardinality(stored)

\* Mutant of Spend: off by one at the limit.
MutantSpendPast == spent <= Budget /\ spent' = spent + 1

\* prepare_js_resource_request: checked and spent before the engine is asked.
Spend == spent < Budget /\ spent' = spent + 1

\* The engine's own policy check, curl_easy_init or curl_multi_add_handle fails.
FailsToStart(l) ==
    /\ Begin(l)
    /\ engine = "curl"
    /\ Spend
    /\ Rejects(l)

\* The bridge and the shim both remember the load.
Starts(l, entry) ==
    /\ Begin(l)
    /\ Spend
    /\ shim' = shim \cup {l}
    /\ pendingLoads' = [pendingLoads EXCEPT ![l] = entry]
    /\ order' = Append(order, l)
    /\ UNCHANGED reactions

Delivery(l, via) == [what |-> [load |-> l, via |-> via], relevant |-> TRUE]

\* Mutant of FromCache: no sentinel is left for the delivery to find.
MutantFromCache(l) ==
    /\ engine = "curl"
    /\ Starts(l, "none")
    /\ Post(Delivery(l, "cache"))
    /\ UNCHANGED <<transfers, waiting>>

\* The cache answers at once (it belongs to the page and may hold anything);
\* the completion is still delivered by a task.
FromCache(l) ==
    /\ engine = "curl"
    /\ Starts(l, "sentinel")
    /\ Post(Delivery(l, "cache"))
    /\ UNCHANGED <<transfers, waiting>>

\* TaskQueueAsyncLoader::start, and CurlMultiAsyncLoader::start of a data: or
\* file: URL: one task delivers the load unless it is cancelled before.
Queued(l) ==
    /\ Starts(l, "engine")
    /\ waiting' = waiting \cup {l}
    /\ Post(Delivery(l, "waiting"))
    /\ UNCHANGED transfers

\* CurlMultiAsyncLoader::start of a network URL.
Transfer(l) ==
    /\ engine = "curl"
    /\ Starts(l, "engine")
    /\ transfers' = transfers \cup {l}
    /\ BeginExternalWork
    /\ UNCHANGED waiting

\* bodyText throws (String(body) of an object that refuses): the promise is
\* rejected by its executor, not by settle(), after activityBegin.
BodyThrows(l) ==
    /\ ~shutDown
    /\ outcome[l] = "unsent"
    /\ outcome' = [outcome EXCEPT ![l] = "leaked"]
    /\ active' = active + 1
    /\ UNCHANGED <<queueVars, engine, bridgeVars, reactions, history>>

Fetch(l) ==
    \/ BodyThrows(l)
    \/ Refused(l)
    \/ FailsToStart(l)
    \/ FromCache(l)
    \/ Queued(l)
    \/ Transfer(l)

-----------------------------------------------------------------------------
(* The event loop's side.                                                   *)

\* CurlMultiAsyncLoader::process_messages: the transfer ends, in success or not.
Land(l) ==
    /\ ~shutDown
    /\ reactions = <<>>
    /\ l \in transfers
    /\ transfers' = transfers \ {l}
    /\ LandAndPost(Delivery(l, "engine"))
    /\ UNCHANGED <<engine, shim, pendingLoads, waiting, spent, pageVars, history>>

\* What a queued delivery looks at before it completes its load.
Valid(l, via) ==
    CASE via = "cache"   -> pendingLoads[l] # "none"
      [] via = "waiting" -> l \in waiting
      [] via = "engine"  -> TRUE

\* Mutant of Completes: a failed load is forgotten without a word to the page.
MutantCompletes(l, ok) ==
    /\ pendingLoads' = [pendingLoads EXCEPT ![l] = "none"]
    /\ waiting' = waiting \ {l}
    /\ stored' = IF ok THEN stored \cup {l} ELSE stored
    /\ shim' = shim \ {l}
    /\ reactions' = IF l \in shim /\ ok THEN Append(reactions, [load |-> l, ok |-> ok])
                                         ELSE reactions

\* finish_resource_load and the shim's completeResourceLoad.
Completes(l, ok) ==
    /\ pendingLoads' = [pendingLoads EXCEPT ![l] = "none"]
    /\ waiting' = waiting \ {l}
    /\ stored' = IF ok THEN stored \cup {l} ELSE stored
    /\ shim' = shim \ {l}
    /\ reactions' = IF l \in shim THEN Append(reactions, [load |-> l, ok |-> ok])
                                  ELSE reactions

\* Mutant of Deliver: queued completions run last in, first out.
MutantDeliver(ok) ==
    /\ ~shutDown
    /\ reactions = <<>>
    /\ tasks # <<>>
    /\ tasks' = SubSeq(tasks, 1, Len(tasks) - 1)
    /\ LET t == tasks[Len(tasks)].what
       IN  IF Valid(t.load, t.via) THEN Completes(t.load, ok)
           ELSE UNCHANGED <<pendingLoads, waiting, stored, shim, reactions>>
    /\ UNCHANGED <<external, shutDown, engine, transfers, spent, outcome, active,
                   order, cancelled>>

\* The oldest task runs; a cached response is never a failure.
Deliver(ok) ==
    /\ ~shutDown
    /\ reactions = <<>>
    /\ TakeTask
    /\ LET t == Head(tasks).what
       IN  /\ t.via = "cache" => ok
           /\ IF Valid(t.load, t.via) THEN Completes(t.load, ok)
              ELSE UNCHANGED <<pendingLoads, waiting, stored, shim, reactions>>
    /\ UNCHANGED <<engine, transfers, spent, outcome, active, order, cancelled>>

-----------------------------------------------------------------------------
(* The page's side.                                                         *)

\* settle() of fetch: the first call wins and gives readiness back.
Settles(l, how, from) ==
    IF outcome[l] \in from
    THEN /\ outcome' = [outcome EXCEPT ![l] = how]
         /\ active' = IF active > 0 THEN active - 1 ELSE 0
    ELSE UNCHANGED <<outcome, active>>

\* The reaction of fetch() to its load.
React ==
    /\ ~shutDown
    /\ reactions # <<>>
    /\ reactions' = Tail(reactions)
    /\ LET r == Head(reactions)
       IN  Settles(r.load, IF r.ok THEN "resolved" ELSE "failed", {"pending"})
    /\ UNCHANGED <<queueVars, engine, bridgeVars, history>>

\* The reaction breaks while it builds the Response: js_timeout interrupts it, or
\* a response header is not one the Headers class accepts. Nothing catches it.
ReactBreaks ==
    /\ ~shutDown
    /\ reactions # <<>>
    /\ reactions' = Tail(reactions)
    /\ LET r == Head(reactions)
       IN  /\ r.ok
           /\ outcome' = IF outcome[r.load] = "pending"
                         THEN [outcome EXCEPT ![r.load] = "stalled"] ELSE outcome
    /\ UNCHANGED <<queueVars, engine, bridgeVars, active, history>>

\* Mutant of EngineCancel: the loop is not told that the transfer is gone.
MutantEngineCancel(l) ==
    /\ waiting' = waiting \ {l}
    /\ transfers' = transfers \ {l}
    /\ UNCHANGED external

\* AsyncResourceLoader::cancel. A transfer that has landed is in neither set.
EngineCancel(l) ==
    /\ waiting' = waiting \ {l}
    /\ transfers' = transfers \ {l}
    /\ external' = IF l \in transfers THEN ExternalAfterEnd ELSE external

\* The abort listener of fetch(): cancelResourceLoad, then settle.
Abort(l) ==
    /\ ~shutDown
    /\ outcome[l] \in {"pending", "stalled", "leaked"}
    /\ shim' = shim \ {l}
    /\ pendingLoads' = [pendingLoads EXCEPT ![l] = "none"]
    /\ IF pendingLoads[l] = "engine" THEN EngineCancel(l)
       ELSE UNCHANGED <<waiting, transfers, external>>
    /\ Settles(l, IF outcome[l] = "leaked" THEN "released" ELSE "aborted",
               {"pending", "stalled", "leaked"})
    /\ cancelled' = cancelled \cup {l}
    /\ UNCHANGED <<tasks, shutDown, engine, spent, reactions, order, stored>>

\* ~JsRuntime: the curl engine drops its loads (the adapter has nothing to
\* release), then the event loop drops its tasks.
Destroy ==
    /\ ~shutDown
    /\ shutDown' = TRUE
    /\ tasks' = <<>>
    /\ IF engine = "curl"
       THEN LET n == Cardinality(transfers)
            IN  /\ external' = IF external > n THEN external - n ELSE 0
                /\ transfers' = {}
                /\ waiting' = {}
       ELSE UNCHANGED <<external, transfers, waiting>>
    /\ UNCHANGED <<engine, shim, pendingLoads, spent, pageVars, history>>

-----------------------------------------------------------------------------
TaskRuns == \E ok \in BOOLEAN : Deliver(ok)
JobRuns == React \/ ReactBreaks

Next ==
    \/ \E l \in Loads : Fetch(l) \/ Land(l) \/ Abort(l)
    \/ TaskRuns
    \/ JobRuns
    \/ Destroy

\* The embedder drives the loop, jobs are drained, and curl ends every transfer
\* within the policy's time-out.
Fairness ==
    /\ \A l \in Loads : WF_vars(Land(l))
    /\ WF_vars(TaskRuns)
    /\ WF_vars(JobRuns)

Spec == Init /\ [][Next]_vars /\ Fairness

-----------------------------------------------------------------------------
(* Properties.                                                              *)

\* Every reachable state has its type; js_resource_load_count_ stays within
\* max_js_resource_loads.
TypeOK ==
    /\ QueueTypeOK
    /\ engine \in {"curl", "adapter"}
    /\ shim \subseteq Loads
    /\ pendingLoads \in [Loads -> {"none", "engine", "sentinel"}]
    /\ transfers \subseteq Loads
    /\ waiting \subseteq Loads
    /\ spent \in 0..Budget
    /\ reactions \in Seq(Reaction)
    /\ outcome \in [Loads -> Outcome]
    /\ active \in Nat
    /\ order \in Seq(Loads)
    /\ stored \subseteq Loads
    /\ cancelled \subseteq Loads

\* The tasks that would still complete load l.
LiveTasks(l) ==
    {k \in 1..Len(tasks) : tasks[k].what.load = l /\ Valid(l, tasks[k].what.via)}

\* The three registries of a load agree, and a load both layers remember has
\* exactly one thing that will complete it, a transfer or a queued task: no
\* promise is left hanging and none is completed twice, wherever an abort comes
\* (start_resource_load, cancel_resource_load and the engines behind them).
EveryLoadIsBacked ==
    ~shutDown =>
        \A l \in Loads :
            /\ l \in shim <=> pendingLoads[l] # "none"
            /\ l \in shim =>
                  Cardinality(LiveTasks(l)) + (IF l \in transfers THEN 1 ELSE 0) = 1
            /\ outcome[l] = "pending" =>
                  \/ l \in shim
                  \/ \E k \in 1..Len(reactions) : reactions[k].load = l

\* The loop's count of external work is the number of transfers in flight, so
\* idle() and quiescent() neither miss a transfer nor wait for a cancelled one
\* (begin_external_work, end_external_work in start, abort_transfer,
\* process_messages and shutdown).
ExternalIsTransfers == external = Cardinality(transfers)

\* However many loads overlap, no more than max_js_resource_loads are in flight
\* or have been delivered (prepare_js_resource_request spends at the start).
BudgetHolds == Cardinality(shim \cup stored) <= Budget

\* With the task-queue adapter loads complete in the order they were started:
\* no later load has its response while an earlier one is still unanswered.
AdapterKeepsOrder ==
    engine = "adapter" /\ ~shutDown =>
        \A i, j \in 1..Len(order) :
            i < j /\ outcome[order[j]] \in {"resolved", "failed"}
                => outcome[order[i]] # "pending"

\* A page sees no difference between its ways to lose a request.
Promise ==
    [l \in Loads |-> CASE outcome[l] \in {"stalled", "leaked"} -> "lost"
                       [] outcome[l] = "released" -> "aborted"
                       [] OTHER -> outcome[l]]

\* fetch() over these engines keeps what LoadService promises: every request is
\* answered once, aborted, or lost by its own broken reaction or body, and
\* pending_xhr_fetch_ counts exactly those that none of this has ended.
Service == INSTANCE LoadService
    WITH promise <- Promise, busy <- active, closed <- shutDown

ImplementsLoadService == Service!Spec

\* browser-api-support.md:69 says a fetch "participates in page readiness until its
\* promise settles": the activity count is the number of unsettled promises.
SettledFetchesAreReleased ==
    active = Cardinality({l \in Loads : outcome[l] \in {"pending", "stalled"}})

\* curl_async_loader.cpp:90 says of cancel(): "a cancelled transfer's callback
\* never runs". Stated for what the callback leaves behind: once a load is
\* cancelled its response no longer reaches the cookie jar and the cache.
CancelledIsForgotten ==
    [][\A l \in cancelled : l \in stored' => l \in stored]_vars

=============================================================================
