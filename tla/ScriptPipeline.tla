--------------------------- MODULE ScriptPipeline ---------------------------
(***************************************************************************)
(* How a page runs its scripts.  Page::Impl::execute_scripts               *)
(* (src/src/page.cpp) starts every external fetch at once, then walks the  *)
(* document: inline and sync scripts in order, pumping the event loop for  *)
(* a fetch that has not landed, defer and module scripts next, then        *)
(* DOMContentLoaded, then load once no async script is pending.  Async     *)
(* scripts, and the scripts JS inserts (src/src/dom_shim/30_dom.js), run   *)
(* from tasks while the loop is pumped.                                    *)
(*                                                                         *)
(* A task is about one load: of the page (by = "page") or of the shim.     *)
(* Code that outlasts js_timeout or the load deadline is cut, its finally  *)
(* blocks skipped; `overrun` counts the jobs and observer deliveries it    *)
(* left that will be cut in their turn by the next checkpoint.             *)
(***************************************************************************)
EXTENDS TaskQueue, FiniteSets, Keeping

CONSTANTS
    Document,      \* the parser's script elements, in document order
    Dynamic,       \* script elements created by JS
    Mixes,         \* the kinds the scripts of a page may have together
    Movable,       \* the parser scripts page code may move in the tree
    MaxDocumentLoads, \* options.max_document_script_loads, 0 for no limit
    MaxOverrun,    \* bound: cut jobs waiting at once
    None

Parsed == {Document[i] : i \in DOMAIN Document}
Scripts == Parsed \cup Dynamic
Events == {"DOMContentLoaded", "load"}

ParserKinds == {"inline", "sync", "defer", "async", "module"}
CreatedKinds == {"local", "ordered", "free"}
External == {"sync", "defer", "async", "ordered", "free"}

ASSUME ScriptsAssumption ==
    /\ Document \in Seq(Parsed) /\ IsFiniteSet(Scripts) /\ Scripts \cap Events = {}
    /\ \A i, j \in DOMAIN Document : Document[i] = Document[j] => i = j
ASSUME MixesAssumption ==
    \A mix \in Mixes :
        /\ mix \in [Scripts -> ParserKinds \cup CreatedKinds]
        /\ \A s \in Scripts : mix[s] \in IF s \in Parsed THEN ParserKinds ELSE CreatedKinds
ASSUME WhatAssumption == What = [by : {"page", "shim"}, script : Scripts]
ASSUME BoundsAssumption ==
    /\ MaxDocumentLoads \in Nat /\ MaxOverrun \in Nat
    /\ Movable \subseteq Parsed

VARIABLES
    kind,      \* of each script element
    fetch,     \* of each parser script: the slot's fetch_done and fetch_failed
    flying,    \* loads in flight
    pending,   \* DocumentScriptSet::async_pending
    pc,        \* where execute_scripts is
    at,        \* the index its current pass is at
    deferred,  \* the local `deferred`
    wait,      \* run_event_loop_until: "no", "enter", "pump", "after" a task
    call,      \* the run_document_script or lifecycle event under way
    stack,     \* the scripts whose code is running, innermost last
    current,   \* document.currentScript
    started,   \* elements marked __pagecoreScriptStarted
    ordered,   \* orderedDynamicScripts
    busy,      \* orderedDynamicScriptRunning
    holds,     \* the activity tracker's DynamicScript count
    overrun,   \* what is left for a checkpoint to be cut in
    capped,    \* options.max_load_time is set
    late,      \* the wait deadline has passed
    ran,       \* history: what ran, oldest first
    inserted,  \* history: ordered scripts in the order of their insertion
    hung       \* history: whose code was cut

setVars == <<kind, fetch, pending, holds>>
loadVars == <<tasks, external, flying>>
passVars == <<pc, at, deferred, wait, call>>
shimVars == <<stack, current, started, ordered, busy, inserted>>
timeVars == <<capped, late, hung, overrun>>
vars == <<setVars, loadVars, passVars, shimVars, timeVars, ran, shutDown>>

NoCall == [script |-> None, step |-> "none", by |-> "none"]

Init ==
    /\ QueueInit
    /\ kind \in Mixes
    /\ fetch = [s \in Parsed |-> "waiting"]
    /\ flying = {} /\ pending = 0 /\ holds = 0
    /\ pc = "collect" /\ at = 1 /\ deferred = <<>> /\ wait = "no" /\ call = NoCall
    /\ stack = <<>> /\ current = None /\ started = {}
    /\ ordered = <<>> /\ busy = FALSE
    /\ overrun = 0 /\ capped \in BOOLEAN /\ late = FALSE /\ hung = {}
    /\ ran = <<>> /\ inserted = <<>>

-----------------------------------------------------------------------------
(* Fetches                                                                  *)

Load(by, s) == [by |-> by, script |-> s]
Delivery(by, s) == [what |-> Load(by, s), relevant |-> TRUE]

\* A slot exists for every parser script but the externals over the cap.
Slots ==
    LET Externals(n) == {i \in 1 .. n : kind[Document[i]] \in External}
        cut == {n \in DOMAIN Document : MaxDocumentLoads > 0 /\ n \in Externals(n)
                                       /\ Cardinality(Externals(n)) > MaxDocumentLoads}
    IN  Parsed \ {Document[n] : n \in cut}

\* A set of parser scripts, listed as the document lists them.
InDocumentOrder(S) ==
    {q \in [1 .. Cardinality(S) -> S] : \A i, j \in DOMAIN q : i < j =>
        \E k, n \in DOMAIN Document : k < n /\ Document[k] = q[i] /\ Document[n] = q[j]}

\* collect_scripts with its start_document_script_fetch calls: each external
\* slot's load is answered by the cache, flies, or fails to start.
Collect ==
    /\ pc = "collect"
    /\ \E goes \in [{s \in Slots : kind[s] \in External} -> {"cached", "flies", "refused"}] :
          LET Going(how) == {s \in DOMAIN goes : goes[s] = how}
              held == Cardinality({s \in DOMAIN goes : kind[s] = "async" /\ goes[s] # "refused"})
          IN  /\ fetch' = [s \in Parsed |-> IF s \notin Slots THEN "dropped"
                                            ELSE IF s \notin DOMAIN goes THEN "ok"
                                            ELSE IF s \in Going("refused") THEN "failed"
                                            ELSE "waiting"]
              /\ flying' = {Load("page", s) : s \in Going("flies")}
              /\ external' = Cardinality(flying')
              /\ \E cached \in InDocumentOrder(Going("cached")) :
                    tasks' = [i \in DOMAIN cached |-> Delivery("page", cached[i])]
              /\ pending' = held
              /\ holds' = held
    /\ pc' = "parse"
    /\ UNCHANGED <<kind, at, deferred, wait, call, shimVars, timeVars, ran, shutDown>>

\* libuv callbacks run while the loop is polled.
Land(l) ==
    /\ wait = "pump" /\ stack = <<>> /\ call = NoCall
    /\ l \in flying
    /\ flying' = flying \ {l}
    /\ LandAndPost([what |-> l, relevant |-> TRUE])
    /\ UNCHANGED <<setVars, passVars, shimVars, timeVars, ran>>

\* The clock reaches the wait deadline.
DeadlinePasses ==
    /\ pc \notin {"collect", "returned", "aborted"}
    /\ ~late
    /\ late' = TRUE
    /\ UNCHANGED <<setVars, loadVars, passVars, shimVars, capped, hung, overrun, ran, shutDown>>

\* JsRuntime::load_deadline_passed; LoadDeadlineGuard clears the deadline when
\* execute_scripts returns or throws.
LoadExpired == capped /\ late /\ pc \notin {"returned", "aborted"}

-----------------------------------------------------------------------------
(* The three ways a piece of JS comes back to C++                           *)

\* What a checkpoint leaves: the first overrunning job is cut, and may have
\* queued itself again.
CheckpointHolds == overrun = 0 /\ UNCHANGED overrun
CheckpointThrows == overrun > 0 /\ overrun' \in {overrun - 1, overrun}

\* The pass goes on after the script at `at`.
NextInPass == at' = at + 1 /\ UNCHANGED <<pc, wait>>

\* Mutant of AfterEvent: nothing waits for the async scripts.
MutantAfterEvent(e) ==
    /\ UNCHANGED <<at, wait>>
    /\ pc' = IF e = "DOMContentLoaded" THEN "load" ELSE "ready"

\* Where the pass goes when a lifecycle event has been fired.
AfterEvent(e) ==
    /\ UNCHANGED at
    /\ IF e = "DOMContentLoaded"
       THEN IF pending > 0 THEN pc' = "hold" /\ wait' = "enter" ELSE pc' = "load" /\ UNCHANGED wait
       ELSE pc' = "ready" /\ wait' = "enter"

\* Mutant of Returns: an async script keeps its activity mark.
MutantReturnsHolding ==
    /\ call' = NoCall
    /\ IF call.by = "task"
       THEN pending' = pending - 1 /\ UNCHANGED <<pc, at, wait, holds>>
       ELSE /\ IF call.script \in Events THEN AfterEvent(call.script) ELSE NextInPass
            /\ UNCHANGED <<pending, holds>>

\* run_document_script or fire_lifecycle_event returns to its caller.
Returns ==
    /\ call' = NoCall
    /\ IF call.by = "task"
       THEN /\ pending' = pending - 1
            /\ holds' = holds - 1
            /\ UNCHANGED <<pc, at, wait>>
       ELSE /\ IF call.script \in Events THEN AfterEvent(call.script) ELSE NextInPass
            /\ UNCHANGED <<pending, holds>>

\* An exception of the first, unprotected calls of run_document_script: nobody
\* catches it below Page::load_html (or the embedder's own run of the loop).
Escapes ==
    /\ call' = NoCall
    /\ pc' = IF pc = "returned" THEN pc ELSE "aborted"
    /\ wait' = "enter"
    /\ UNCHANGED <<at, pending, holds>>

-----------------------------------------------------------------------------
(* run_document_script, one execute() at a time                             *)

\* A one-line script of the page's own: it takes effect unless the deadline
\* it starts with is already over, and its checkpoint may throw.
OwnScript(effect, unchanged, then, throw) ==
    \/ effect /\ CheckpointHolds /\ then
    \/ effect /\ CheckpointThrows /\ throw
    \/ unchanged /\ LoadExpired /\ UNCHANGED overrun /\ throw

Step(s) == call' = [call EXCEPT !.step = s] /\ UNCHANGED <<pc, at, wait, pending, holds>>

CallMark ==
    /\ call.step = "mark"
    /\ OwnScript(started' = started \cup {call.script}, UNCHANGED started, Step("current"), Escapes)
    /\ UNCHANGED <<kind, fetch, loadVars, deferred, stack, current, ordered, busy, inserted,
                   capped, late, hung, ran, shutDown>>

CallCurrent ==
    /\ call.step = "current"
    /\ OwnScript(current' = IF kind[call.script] = "module" THEN None ELSE call.script,
                 UNCHANGED current, Step("code"), Escapes)
    /\ UNCHANGED <<kind, fetch, loadVars, deferred, stack, started, ordered, busy, inserted,
                   capped, late, hung, ran, shutDown>>

\* The script's own code starts; a lifecycle event starts here.
CallCode ==
    /\ call.step = "code"
    /\ ran' = Append(ran, Load("page", call.script))
    /\ stack' = <<<<Load("page", call.script), current>>>>
    /\ Step("running")
    /\ UNCHANGED <<kind, fetch, loadVars, deferred, current, started, ordered, busy, inserted,
                   timeVars, shutDown>>

\* An expired deadline may cut the script before its first statement.
CallCodeCut ==
    /\ call.step = "code"
    /\ LoadExpired
    /\ hung' = hung \cup {"page"}
    /\ IF call.script \in Events \/ kind[call.script] = "module" THEN Returns ELSE Step("reset")
    /\ UNCHANGED <<kind, fetch, loadVars, deferred, shimVars, capped, late, overrun, ran, shutDown>>

\* Mutant of CallReset: currentScript is left as it is.
MutantCallReset ==
    /\ call.step = "reset"
    /\ OwnScript(UNCHANGED current, UNCHANGED current, Returns, Returns)
    /\ UNCHANGED <<kind, fetch, loadVars, deferred, stack, started, ordered, busy, inserted,
                   capped, late, hung, ran, shutDown>>

\* The last execute(), whose exception is swallowed.
CallReset ==
    /\ call.step = "reset"
    /\ OwnScript(current' = None, UNCHANGED current, Returns, Returns)
    /\ UNCHANGED <<kind, fetch, loadVars, deferred, stack, started, ordered, busy, inserted,
                   capped, late, hung, ran, shutDown>>

-----------------------------------------------------------------------------
(* What running code does                                                   *)

Top == stack[Len(stack)]
Pop == SubSeq(stack, 1, Len(stack) - 1)

\* loadHostResourceAsync: the load flies, or the response cache posts it. A start
\* the policy or a budget refuses fails in a promise job, with no task
\* (10_core.js:277); it is left out.
StartShimLoad(s) ==
    \/ /\ flying' = flying \cup {Load("shim", s)}
       /\ BeginExternalWork
    \/ /\ Post(Delivery("shim", s))
       /\ UNCHANGED flying

\* Mutant of MustWait: an ordered script never queues.
MutantMustWait(s) == FALSE

\* drainOrderedDynamicScripts has a script of the ordered queue under way.
MustWait(s) == kind[s] = "ordered" /\ busy

\* executeDynamicScript, for a script put into the document: one that has not
\* started, and is classic, starts; local code runs at once, inside its caller.
Insert(s) ==
    /\ stack # <<>>
    /\ s \in (Dynamic \cup Movable) \ started
    /\ kind[s] # "module"
    /\ started' = started \cup {s}
    /\ IF kind[s] \in {"inline", "local"}
       THEN /\ stack' = Append(stack, <<Load("shim", s), current>>)
            /\ current' = s
            /\ ran' = Append(ran, Load("shim", s))
            /\ UNCHANGED <<loadVars, holds, ordered, busy, inserted>>
       ELSE /\ holds' = holds + 1
            /\ IF MustWait(s)
               THEN ordered' = Append(ordered, s) /\ UNCHANGED <<loadVars, busy>>
               ELSE StartShimLoad(s) /\ busy' = (busy \/ kind[s] = "ordered") /\ UNCHANGED ordered
            /\ inserted' = IF kind[s] = "ordered" THEN Append(inserted, s) ELSE inserted
            /\ UNCHANGED <<stack, current, ran>>
    /\ UNCHANGED <<kind, fetch, pending, passVars, timeVars, shutDown>>

\* Mutant of OnDone: the next ordered script is not started.
MutantOnDone(s) ==
    /\ holds' = holds - 1
    /\ busy' = (busy /\ kind[s] # "ordered")
    /\ UNCHANGED <<loadVars, ordered, shutDown>>

\* onDone of runDynamicExternalScript, drainOrderedDynamicScripts for an ordered one.
OnDone(s) ==
    /\ holds' = holds - 1
    /\ IF kind[s] = "ordered" /\ ordered # <<>>
       THEN StartShimLoad(Head(ordered)) /\ ordered' = Tail(ordered) /\ UNCHANGED busy
       ELSE /\ busy' = (busy /\ kind[s] # "ordered")
            /\ UNCHANGED <<loadVars, ordered, shutDown>>

\* The innermost code ends, normally or by a JS exception: a document script's
\* execute() goes on to its checkpoint, an inserted one restores currentScript.
CodeEnds ==
    /\ stack # <<>>
    /\ stack' = Pop
    /\ IF Top[1].by = "page"
       THEN /\ CheckpointHolds \/ CheckpointThrows
            /\ IF call.script \in Events \/ kind[call.script] = "module" THEN Returns ELSE Step("reset")
            /\ UNCHANGED <<current, loadVars, ordered, busy, shutDown>>
       ELSE /\ current' = Top[2]
            /\ IF kind[Top[1].script] \in {"inline", "local"}
               THEN UNCHANGED <<holds, loadVars, ordered, busy, shutDown>>
               ELSE OnDone(Top[1].script)
            /\ UNCHANGED <<pc, at, wait, call, pending, overrun>>
    /\ UNCHANGED <<kind, fetch, deferred, started, inserted, capped, late, hung, ran>>

\* js_timeout or the load deadline cuts the running code: no finally block of
\* any frame runs.  run_document_script catches the exception; in a task the
\* job is dropped.
CodeIsCut ==
    /\ stack # <<>>
    /\ stack' = <<>>
    /\ hung' = hung \cup {stack[1][1].by}
    /\ overrun' \in overrun .. MaxOverrun
    /\ IF stack[1][1].by = "shim" THEN UNCHANGED <<pc, at, wait, call, pending, holds>>
       ELSE IF call.script \in Events \/ kind[call.script] = "module" THEN Returns
       ELSE Step("reset")
    /\ UNCHANGED <<kind, fetch, loadVars, deferred, current, started, ordered, busy, inserted,
                   capped, late, ran, shutDown>>

-----------------------------------------------------------------------------
(* execute_scripts                                                          *)

Quiet == stack = <<>> /\ call = NoCall

\* The script the pass in progress is at.
PassLength == IF pc = "parse" THEN Len(Document) ELSE Len(deferred)
ScriptAt == IF pc = "parse" THEN Document[at] ELSE deferred[at]

StartCall(s) == call' = [script |-> s, step |-> "mark", by |-> "pipeline"]

\* Mutant of DefersHere: a defer script runs in place.
MutantDefersHere(s) == kind[s] = "module" /\ pc = "parse"

\* Defer and module scripts are put off by the first pass.
DefersHere(s) == kind[s] \in {"defer", "module"} /\ pc = "parse"

\* The passes over the document and over the deferred scripts.
PassStep ==
    /\ pc \in {"parse", "defer"} /\ wait = "no" /\ Quiet
    /\ at <= PassLength /\ ~LoadExpired
    /\ LET s == ScriptAt
           skipped == fetch[s] = "dropped" \/ kind[s] = "async"
           later == DefersHere(s)
       IN  IF skipped \/ later
           THEN /\ at' = at + 1
                /\ deferred' = IF later /\ ~skipped THEN Append(deferred, s) ELSE deferred
                /\ UNCHANGED <<pc, wait, call>>
           ELSE /\ UNCHANGED <<pc, deferred>>
                /\ CASE fetch[s] = "waiting" -> wait' = "enter" /\ UNCHANGED <<at, call>>
                     [] fetch[s] = "failed"  -> at' = at + 1 /\ UNCHANGED <<wait, call>>
                     [] OTHER                -> StartCall(s) /\ UNCHANGED <<at, wait>>
    /\ UNCHANGED <<setVars, loadVars, shimVars, timeVars, ran, shutDown>>

PassEnds ==
    /\ pc \in {"parse", "defer"} /\ wait = "no" /\ Quiet
    /\ at > PassLength \/ LoadExpired
    /\ pc' = IF pc = "parse" THEN "defer" ELSE "DOMContentLoaded"
    /\ at' = 1
    /\ UNCHANGED <<setVars, loadVars, deferred, wait, call, shimVars, timeVars, ran, shutDown>>

FireLifecycleEvent ==
    /\ pc \in Events /\ Quiet
    /\ call' = [script |-> pc, step |-> "code", by |-> "pipeline"]
    /\ UNCHANGED <<setVars, loadVars, pc, at, deferred, wait, shimVars, timeVars, ran, shutDown>>

-----------------------------------------------------------------------------
(* run_event_loop_until, and run_until_ready or an embedder's run later     *)

Condition ==
    \/ pc \in {"parse", "defer"} /\ fetch[ScriptAt] # "waiting"
    \/ pc = "hold" /\ pending = 0

\* The wait is over: its script runs if it has been fetched, or is skipped.
\* A throwing checkpoint ends the wait as well, whatever the deadline says.
WaitEnds ==
    CASE pc \in {"parse", "defer"} ->
            /\ wait' = "no"
            /\ IF fetch[ScriptAt] = "ok" THEN StartCall(ScriptAt) /\ UNCHANGED at
                                         ELSE at' = at + 1 /\ UNCHANGED call
            /\ UNCHANGED pc
      [] pc = "hold" -> pc' = "load" /\ wait' = "no" /\ UNCHANGED <<at, call>>
      [] OTHER -> pc' = (IF pc = "ready" THEN "returned" ELSE pc) /\ wait' = "enter"
                  /\ UNCHANGED <<at, call>>

\* The checkpoint the wait starts with, and the one after each task.
WaitCheckpoint ==
    /\ wait \in {"enter", "after"} /\ Quiet
    /\ \/ CheckpointHolds /\ wait' = "pump" /\ UNCHANGED <<pc, at, call>>
       \/ CheckpointThrows /\ WaitEnds
    /\ UNCHANGED <<setVars, loadVars, deferred, shimVars, capped, late, hung, ran, shutDown>>

\* Mutant of WaitLeaves: the deadline is not looked at.
MutantWaitLeaves ==
    /\ wait = "pump" /\ Quiet
    /\ Condition \/ pc = "ready"
    /\ WaitEnds
    /\ UNCHANGED <<setVars, loadVars, deferred, shimVars, timeVars, ran, shutDown>>

\* The condition holds, the deadline has passed, or readiness is judged.
WaitLeaves ==
    /\ wait = "pump" /\ Quiet
    /\ Condition \/ (late /\ pc \in {"parse", "defer", "hold"}) \/ pc = "ready"
    /\ WaitEnds
    /\ UNCHANGED <<setVars, loadVars, deferred, shimVars, timeVars, ran, shutDown>>

\* One task of a turn: the completion lambda of start_document_script_fetch, or
\* the completion of a shim load, whose reaction runs the script.
RunTask(ok) ==
    /\ wait = "pump" /\ Quiet
    /\ pc \in {"parse", "defer", "hold"} => ~Condition /\ ~late
    /\ tasks # <<>>
    /\ wait' = "after"
    /\ LET l == Head(tasks).what
           s == l.script
       IN  IF l.by = "page"
           THEN /\ TakeTask
                /\ fetch' = [fetch EXCEPT ![s] = IF ok THEN "ok" ELSE "failed"]
                /\ CASE kind[s] # "async" -> UNCHANGED <<pending, holds, call>>
                     [] kind[s] = "async" /\ ok /\ ~LoadExpired ->
                           /\ call' = [script |-> s, step |-> "mark", by |-> "task"]
                           /\ UNCHANGED <<pending, holds>>
                     [] OTHER -> /\ pending' = pending - 1
                                 /\ holds' = holds - 1
                                 /\ UNCHANGED call
                /\ UNCHANGED <<flying, stack, current, ordered, busy, ran>>
           ELSE /\ IF ok
                   THEN /\ stack' = <<<<l, current>>>>
                        /\ current' = s
                        /\ ran' = Append(ran, l)
                        /\ TakeTask
                        /\ UNCHANGED <<flying, holds, ordered, busy>>
                   ELSE /\ UNCHANGED <<stack, current, ran>>
                        /\ holds' = holds - 1
                        /\ IF kind[s] = "ordered" /\ ordered # <<>>
                           THEN /\ flying' = flying \cup {Load("shim", Head(ordered))}
                                /\ tasks' = Tail(tasks) /\ external' = external + 1
                                /\ ordered' = Tail(ordered) /\ UNCHANGED <<busy, shutDown>>
                           ELSE /\ busy' = (busy /\ kind[s] # "ordered")
                                /\ TakeTask /\ UNCHANGED <<flying, ordered>>
                /\ UNCHANGED <<fetch, pending, call>>
    /\ UNCHANGED <<kind, pc, at, deferred, started, inserted, timeVars>>

Next ==
    \/ Collect \/ DeadlinePasses
    \/ \E l \in flying : Land(l)
    \/ PassStep \/ PassEnds \/ FireLifecycleEvent
    \/ CallMark \/ CallCurrent \/ CallCode \/ CallCodeCut \/ CallReset
    \/ \E s \in Scripts : Insert(s)
    \/ CodeEnds \/ CodeIsCut
    \/ WaitCheckpoint \/ WaitLeaves
    \/ \E ok \in BOOLEAN : RunTask(ok)
\* The clock, landings and insertions owe nothing; whatever C++ has started it
\* carries on with, running code ends or is cut, and the deadline comes.
Fairness ==
    /\ WF_vars(Collect \/ PassStep \/ PassEnds \/ FireLifecycleEvent)
    /\ WF_vars(CallMark \/ CallCurrent \/ CallCode \/ CallReset)
    /\ WF_vars(CodeEnds)
    /\ WF_vars(WaitCheckpoint) /\ WF_vars(WaitLeaves)
    /\ WF_vars(\E ok \in BOOLEAN : RunTask(ok))
    /\ WF_vars(DeadlinePasses)
    /\ \A l \in What : WF_vars(Land(l))

Spec == Init /\ [][Next]_vars
FairSpec == Spec /\ Fairness

-----------------------------------------------------------------------------
(* Properties                                                               *)

PageRecords == [by : {"page"}, script : Scripts \cup Events]
PageEntries == Kept(ran, PageRecords)

PageOrder == [i \in DOMAIN PageEntries |-> PageEntries[i].script]

Order == INSTANCE ScriptOrder WITH order <- PageOrder

\* The pipeline keeps the documented order of parser scripts and lifecycle
\* events, whatever lands, fails, is cut or throws in between.
OrderSpec == Order!Spec

RanBy(by) == {ran[i].script : i \in {j \in DOMAIN ran : ran[j].by = by}}
InProgress(s) == call.script = s
AsyncOpen == {s \in Slots : kind[s] = "async" /\ (fetch[s] = "waiting" \/ (InProgress(s) /\ call.by = "task"))}

\* load fires only after every async script has been fetched and has run (or
\* failed to load), unless the deadline passed or running code was cut.
LoadWaitsForAsync ==
    Load("page", "load") \in {ran[i] : i \in DOMAIN ran} =>
        \/ late \/ hung # {}
        \/ AsyncOpen = {} /\ \A s \in Slots : kind[s] = "async" /\ fetch[s] = "ok" => s \in RanBy("page")

Loading(s) == Load("shim", s) \in flying \/ \E i \in DOMAIN tasks : tasks[i].what = Load("shim", s)
Running(s) == \E i \in DOMAIN stack : stack[i][1] = Load("shim", s)
Waiting(s) == \E i \in DOMAIN ordered : ordered[i] = s
ShimOpen == {s \in Scripts : kind[s] \in External /\ (Loading(s) \/ Running(s) \/ Waiting(s))}

\* The activity count that holds readiness is exactly the async scripts of the
\* parser plus the inserted external scripts that are not over, as long as no
\* script of a task was cut and no exception escaped.
HoldsAreBacked ==
    "shim" \notin hung /\ pc \notin {"collect", "aborted"} =>
        /\ pending = Cardinality(AsyncOpen)
        /\ holds = pending + Cardinality(ShimOpen)

\* A script with async = false runs only when every one inserted before it is
\* over: loaded and run, or failed.
OrderedInTurn ==
    \A j \in DOMAIN inserted : inserted[j] \in RanBy("shim") =>
        \A i \in 1 .. j - 1 : ~Loading(inserted[i]) /\ ~Running(inserted[i]) /\ ~Waiting(inserted[i])

\* document.currentScript is the classic script whose code is running, and
\* null when no code runs, as long as nothing was cut (the load deadline cuts
\* the page's own one-line scripts too).
CurrentIsRunning ==
    hung = {} /\ ~(capped /\ late) =>
        IF stack = <<>> THEN Quiet /\ pc # "aborted" => current = None
        ELSE LET s == Top[1].script
             IN  current = IF s \in Events \/ kind[s] = "module" THEN None ELSE s

\* A load always comes to an end: no fetch that never lands keeps it waiting.
LoadEnds == <>(pc \in {"returned", "aborted"})

\* Every script queued with async = false is over at last, unless running code
\* is cut.
OrderedDrain ==
    \A s \in Dynamic :
        Waiting(s) ~> (~Waiting(s) /\ ~Loading(s) /\ ~Running(s)) \/ hung # {}

\* Documented: "do not rerun when moved" (src/docs/browser-api-support.md).
EachRunsOnce == \A i, j \in DOMAIN ran : ran[i].script = ran[j].script => i = j

\* Documented: script exceptions "do not abort later scripts or lifecycle
\* dispatch" (src/docs/architecture.md).
NothingAborts == pc # "aborted"

\* Commented: "onDone always runs exactly once, after execution or failure"
\* (src/src/dom_shim/30_dom.js): the ordered queue is busy only with a script.
BusyIsBacked == busy => \E s \in Dynamic : kind[s] = "ordered" /\ (Loading(s) \/ Running(s))
=============================================================================
