# A TLA+ model of pagecore

pagecore loads an HTML page, runs its JavaScript in QuickJS over a libuv event
loop, and answers layout and style queries, in one process and, but for the
resource cache, on one thread. What is hard to get right in it is order and
agreement: JS, libuv callbacks, promise jobs, loads and embedder calls interleave
at well-defined points, the same fact is kept in several structures (a C++ map, a
JS registry, a counter, a queue), `js_timeout` may cut any JS short without
running its `finally` blocks, and "idle", "ready" and "fresh" are judged from all
of these at once. The modules here model those parts, TLC checks them on small
instances, and TLAPS proves the central invariants for all instances. Paths
below are relative to `src/`; line numbers are in `PROJECT.json`.

## 1. Inventory

For each component: the state it keeps, its operations, who it talks to, what is
hard, and what makes it correct.

**EventLoop** (`src/event_loop.cpp`). State: a FIFO of tasks, armed timers by id,
pending animation frames and one frame timer, the external-work counter, the
shut-down flag; two clocks, `uv_hrtime` and libuv's cached `loop->time`.
Operations: post, schedule/cancel timer, request/cancel/take frames, poll, wait,
run one task, begin/end external work, idle, quiescent, next-delay and
relevant-pending queries, shutdown. Called by the JS bridge, the loaders and the
driver. Hard: a timer fires in libuv, its callback runs turns later, and JS may
clear it in between; predicates read several structures. Correct when every
callback is in exactly one place and the predicates miss nothing.

**JsRuntime driver** (`src/js_runtime.cpp:1874-2215`). State: locals of
`run_until_idle` and `run_until_ready`, the JS deadline. Operations: evaluate, the
turn, the microtask checkpoint, the two runs, teardown. Hard: iteration and time
budgets, time-outs in the middle of a turn, an early exit when nothing can happen
any more. Correct when a checkpoint separates macrotasks, runs end, and each verdict
(idle, ready, gave up) is what it says.

**PageActivityTracker** (`src/page_activity_tracker.cpp`). State: counters of
pending fetches, scripts, resources and mutation deliveries, the clock of the last
mutation and the mutation version it knows. Fed by the shim's activity marks and
by the driver; asked by `readiness_satisfied`. Hard: a counter is lowered by code
that may not run. Correct when no counter is below the work it stands for.

**DOM shim, scheduling part** (`src/dom_shim/40_web.js`, `20_events.js`,
`10_core.js`). State: `taskRegistry`, `rafRegistry`, pending loads,
`mutationFlushQueued`. Correct when it agrees with the C++ side.

**Async resource loads** (`src/async_loader.hpp`, `src/curl_async_loader.cpp`,
`src/js_runtime.cpp:2343-2516, 2588-2671`). State: the shim's and the bridge's
registries of pending loads, transfers in curl_multi, deliveries waiting in the
queue, the load budgets. Operations: start (five ways to go), land, deliver,
cancel, shutdown. Hard: an abort at each stage, a sentinel id for cache hits.
Correct when each load is completed once, or not at all once cancelled.

**Shim network clients** (`src/dom_shim/90_install.js` fetch, `40_web.js`
XMLHttpRequest, `30_dom.js` dynamic scripts and element loads). State: one small
machine per request, the ordered-script queue. Hard: exceptions and aborts inside
the handlers they call. Correct when each request settles once and gives its
activity mark back.

**Page, script pipeline** (`src/page.cpp:323-520`). State: the document's script
slots, `async_pending`, wait deadlines. Hard: async scripts run from completion
tasks while the pipeline waits for a sync one; late answers; an exception on the way
out. Correct when sync and deferred scripts run in document order, each at most once,
before DOMContentLoaded, and `load` waits for the async ones.

**Page, style and geometry caches** (`src/page.cpp:897-1503`). State: a styled
document with the version it was built for, per-node computed styles under a digest,
last-known values for the bounded mode. Hard: reuse across versions, patching from a
journal. Correct when no stale value is returned outside the bounded mode.

**DomDocument** (`src/dom_document.cpp`). State: a tree, node ids, mutation versions,
the layout journal of 64 records, the created-node budget. Correct when a
journal that reads as complete is complete, and ids are never reused across a reparse.

**Resource loaders and response cache** (`src/resource_loader.cpp`). State: the policy,
an LRU map and list under a mutex, the multi handle's batch, the header lines of a
transfer in flight. Operations: `load`, `load_all` in two error modes, `clear`,
`set_policy`. Hard: the inner load runs unlocked; a batch finishes in any order; curl
follows redirects while the policy may change. Correct when map and list are the same
set within the bound, results and errors come in request order, each cookie is filed
under the response that set it, and what a call gets is allowed by its own policy.

**Cookie jar** (`src/cookie_jar.cpp`). State: cookies with creation and access order.
Operations: store from a response (its redirects included), the `document.cookie`
getter and setter, the Cookie header of a request, clear. Hard: several writers with
different rights reach one cookie by different domains and paths; eviction happens
inside a store. Correct when a cookie stays in its site, protected ones survive writers
who may not see them, and caps hold.

**Subresource scanner and render loaders** (`src/subresource_scanner.cpp`,
`src/render_resource_loaders.cpp`, the loads of `src/litehtml_layout.cpp`). State: the
render's budget, the persistent response cache, the font set. Operations: two waves, the
font pass, the layout's own requests, reset. Hard: four loaders stacked on each other, each
answering a part of a batch; the prefetch must guess the very requests the layout will
make. Correct when answers are in place, the budget is exact, and a warm entry is hit.

**The rest**: layout, raster, images and fonts, parsing helpers, the wide DOM API surface,
the command-line tools. They are sequential computation or I/O; `PROJECT.json` gives a
reason for each.

How they interact: the embedder calls `Page`, which calls the driver; the driver
polls libuv, whose callbacks only append to the task queue; a task runs JS; JS calls
the bridge, which arms timers, starts loads, mutates the DOM, asks for styles and boxes
and marks activity; a checkpoint follows every task. A style read or a render may rebuild
the styled document, which prefetches through the render loaders, the cookie jar and the
caches. Only the response cache and the loaders are shared between threads.

## 2. Modules

| module | models | extends / composes |
|---|---|---|
| `TaskQueue` | queue, external work, shut-down flag | - |
| `EventLoop` | timers, frames, clocks, predicates | `TaskQueue` |
| `PageLoop` | driver, checkpoint, tracker, shim registries | `EventLoop` |
| `LoadService` | abstract: what fetch promises | - |
| `AsyncLoad` | loads from fetch to settlement | `TaskQueue`; implements `LoadService` |
| `ScriptOrder` | abstract: the order of a document's scripts | - |
| `ScriptPipeline` | document scripts, inserted scripts, waits, lifecycle events | `TaskQueue`, `Keeping`; implements `ScriptOrder` |
| `DomDocument` | tree, ids, versions, journal, node budget, digest (operators on a document) | - |
| `StyleCache` | styled document, computed styles, geometry, bounded modes | `DomDocument` |
| `WebUrl` | URLs, joining a reference to a base, origins, referrers (operators) | - |
| `HostAddresses` | addresses as bytes, what is private (operators) | - |
| `ResourceRules` | policy checks, header lines, cache entries and keys (operators) | `WebUrl`, `HostAddresses` |
| `SharedLoads` | threads loading through one cache | `ResourceRules` |
| `Keeping` | a loop that drops elements (one operator) | - |
| `CookieRules` | one jar's rules: sites, matching, writing, eviction (operators) | `WebUrl`, `Keeping` |
| `CookieJar` | writers and readers of one jar | `CookieRules` |
| `RenderLoads` | a render's prefetch, layout requests and layers | `ResourceRules`, `CookieRules` |
| `PageLoopProofs`, `AsyncLoadProofs`, `SharedLoadsProofs`, `StyleCacheProofs`, `CookieJarProofs`, `RenderLoadsProofs`, `ScriptPipelineProofs` | theorems | the module each is named after |
| `InductionLemmas` | induction on the numbers, what a recursive function is there to be, what `Kept` keeps | `Keeping` |

Operators that several components use are in modules without variables; each component
with a life of its own has one module with `Init`, one action per operation and `Next`. No
module declares a `RECURSIVE` operator: what recurses is a recursive function or a fold.

## 3. What is modelled

### TaskQueue, EventLoop
`tasks`, `external`, `shutDown` are `tasks_`, `external_work_`, `shut_down_`. A task is
a record: what it resolves and whether it holds readiness; the C++ closure captures
nothing else that matters. Timers are a partial function from ids to records with
both due times: `due` (from `uv_hrtime`) which the code's delay computations read, and
`fires` (from `loop->time`) which libuv goes by. `uvNow` moves only on entering `uv_run`.
Time is an integer number of ticks.

### PageLoop
One thread, so `pc` says who runs: `out` (the embedder), `js`, `uv` (libuv callbacks), the
driver's steps (`check`, `turn`, `task`, `frame`, `turnEnd`, `loop`, `poll`, `judge`, ...), `dead`.
`drv` is the locals of the run; `after` is the return address of a checkpoint or a
poll. JS is a nondeterministic sequence of bridge calls (`JsStep`), ended by
`JsReturns`, `JsThrows` or `JsTimesOut`; the last one skips what the shim's `finally`
blocks would have done (`owed`) and clears the deadline, as `check_exception` does.

What it abstracts: promise jobs are one flag (some are pending or none); the three network
counters of the tracker are one; readiness is judged after the load event; JS and
sleeping take time, the driver's own statements do not; a delivery with no
callbacks is a delivery whose JS returns at once; an interruption between
queueing a flush and marking it is left out. `history` variables `changedAt` and
`timedOut` only serve properties.

`net` counts the activity marks of `fetch` and of inserted scripts, and everything else about
loads says where the code is that will lower one: a transfer (`external`), a queued completion,
a promise job (`loads.answered`), the JS that runs (`owed`), a turn in the queue of `async=false`
scripts (`loads.waiting`), or nowhere (`loads.lost`). `LoadStarts` is a start that flies, is
answered by a task, or is refused; `BodyThrows` and `ReactionBreaks` are the two exceptions of
`fetch` that strand its mark; `Abort` lowers a mark wherever its load is, and leaves a completion
that finds nothing (`loads.dropped`). Left out: XMLHttpRequest, whose `open` and `send` in a handler
can let one mark stand for two loads; the loads of document scripts, which hold readiness by
another count (`ScriptPipeline`); an interruption within `setTask`, `clearTask` or a frame call
(`40_web.js:2520`, `2549`, `2574`), between the registry's change and the host call.
`NoTimerFiresEarly`, `QuiescentPageIsReady` and `JsIsBounded` state what documents say and the code does not keep; section 5 tells what breaks them.

### AsyncLoad, LoadService
A load is identified by its resource-load id. `engine` is which `AsyncResourceLoader` the
constructor chose; `shim` and `pendingLoads` are the two registries; `transfers` and
`waiting` the engine's own sets; `reactions` the promise jobs queued for settled loads;
`outcome` and `active` what the page and the tracker see. `Fetch` is one action per way a
start can go (`BodyThrows`, `Refused`, `FailsToStart`, `FromCache`, `Queued`, `Transfer`);
`Land`, `Deliver`, `React`, `ReactBreaks`, `Abort` and `Destroy` are the rest of its life.
Tasks and libuv callbacks wait for queued reactions, because a checkpoint separates
them, which `PageLoop` checks (`NoJobWaitsForATask`).

What it abstracts: success or failure is chosen when a load is delivered; the cache may
hold anything; the byte and time budgets are a refusal that can always happen. It leaves out
interruptions inside the four statements of `completeResourceLoad` and inside `settle`
itself, libuv handles and curl's sockets, the synchronous `loadResource`, and loads
without a js id (document scripts).

`LoadService` is the promise: start, answer, abort, lose, close, with an exact count
of busy requests and no request pending for ever. `lost` is a request whose own page
code broke: it stays busy unless aborted. The mapping reads `stalled` and `leaked` as
lost and `released` as aborted.

### ScriptPipeline, ScriptOrder
`pc` is where the page's thread stands in `execute_scripts`; `call` the execution of one script
through its parts (`CallMark`, `CallCurrent`, `CallCode`, `CallReset`), each of which can throw,
be cut by `js_timeout` or by the load deadline; `stack` the scripts running inside each other,
because inserting an inline script runs it at once. `fetch` is the state of each parser script's
load, `flying` and `tasks` the loads under way and the completions queued; `pending` and `holds`
are `async_pending` and the activity count; `ordered` and `busy` the shim's queue of scripts with
`async = false`; `current` is `document.currentScript`. While the pipeline waits for a sync
script (`WaitCheckpoint`, `WaitLeaves`) it runs queued tasks, so async completions interleave
with it. `hung` records who was cut in the middle, for the properties. A script's code does
one of: insert a created script, move a parser script, end, throw, be cut. Each load lands
with an answer or a failure, at any time. Left out: a start that the policy or a budget refuses (it
ends like a load that fails, without one), the module loader's external scripts (`page.cpp:295-297`).
`HoldsAreBacked` and `LoadWaitsForAsync` set apart an async script whose first step throws, and
`CurrentIsRunning` everything after a cut. `ScriptOrder` is the documented order; the mapping
reads what the page has run.

### DomDocument, StyleCache
A document is a record and each operation of the class an operator on it; a tree is a function
from live ids to nodes. A node's data is what the caches tell apart: its kind, an inline style
(none, plain, one that needs a new tree), one service attribute a selector may name, a text's
value. `StyleCache` keeps the page's caches: `styled` with its key, `styles` by node under a
digest, `geometry`, the two bounded modes. The engine is `Cascade`: the inputs on which a node's
style depends, read from the view the engine was given, stand for the result; a stale answer is
one whose inputs have changed. The digest is the tuple it hashes. How expensive a rebuild was
is free (`Costs`), the engine may refuse a patch, and a rebuild may throw half way.

`memo` is what `level_context_for` keeps: the contexts of the levels digests have passed, until the layout
version moves. A scan that changes what digests fold (`dom_document.cpp:1402-1415`) does not clear it, so
a digest taken later can mix levels folded before the scan with a chain folded after it. `memo.early` notes
that such levels may be there.

Left out: selectors on viewport and base URL, selectors on `style` with the gate that refuses to patch under
them (`page.cpp:1159`), shadow roots, external sheets, `noscript`, dirty epochs (they only label trace events). `history.crossed`
marks moves the marking rules do not see, `mixed` marks entries whose digest, or a remembered level in it, is
older than the scan that the document's stylesheets call for: `StyledIsFresh` and `ReuseIsSound` set them apart, section 5 says what
happens then. A behaviour's mutations come after its `Make`s; new nodes are loose, and
nothing the page keeps depends on them. Nothing but text is put into a style or a script, and a fragment is one node at most.

### WebUrl, HostAddresses, ResourceRules, SharedLoads
A host is its labels from the top, a path its segments, an address its bytes; a reference is what
parsing it gave (absolute, `//host`, rooted, relative, or a relative one that
`looks_like_host_reference` takes for a host). A redirect is read twice: `ResolveUrl` is the code's
reading, by which `write_header` names the next hop, and `CurlTarget` libcurl's, which is where the transfer
goes (RFC 3986, external). `IsBlocked` works on bytes as
`is_blocked_socket_address` does, with the four ways an IPv4 address hides in an IPv6 one.
`WriteHeader` is the header callback, line by line. A client is a thread in `load` or
`load_all`; its `call` goes through probe (under the lock), fetch, flight (without it), store (under it
again, one entry at a time) and returns or raises. `Hop` is the next response of one of its
transfers, which redirects it or ends it, and `Breaks` a failure. `open` is the pool of connections all loads
share: a hop either opens a socket, which `guarded_open_socket` may refuse (`HopOverNew`, `SocketRefused`), or
takes a connection that is open, of which nobody asks the guard (`HopOverKept`). A connection carries whether
its opener's policy kept private addresses out, a transfer its `trail`: the hops it made and over what. An HTTP answer
is a status line with any headers, `Location` among them any number of times; libcurl follows the first that is not
empty, of the last response. `Fetch` copies the policy, once for a
batch; `SetPolicy` and `Clear` may come at any moment. A server's cookie carries, as its value, the URL that
sends it, so that `CookiesNameTheirHop` can compare.

Left out: methods, bodies and other headers (one cached request differs from another by URL, kind,
referrer and cookies), proxies, MIME inference and decoding, queries, fragments and user names. `FetchSerially` is the fallback
without a multi handle.

### CookieRules, CookieJar
An offer is a parsed Set-Cookie line. The rules are operators on a sequence of cookies in creation
order, with access times; `CookieJar` lets responses (with their redirects), scripts and the
clock act on one jar. The text of lines and dates, repeated attributes and a jar without
public-suffix data are left out. Ties between equally heavy domains fall to any of them, as the code's
unordered map decides them. `ProtectedCookiesStay` excuses
the loss of a domain's oldest cookie at a cap, whoever fills it, and checks Secure against responses of one hop. `StaysInItsSite` asks for a shared domain that is no public suffix, not for the
same registrable domain: below a suffix of its own (`github.io` under `io`, the instance has one) a host may set
a cookie for the domain that suffix hangs from, and the code lets it.

### RenderLoads
One rebuild: `StartRebuild` collects the document's references, `Batch` sends a wave through the
layers (`Through`: budget, filter of a geometry rebuild, cookies, cache, page loader), the second
wave follows the sheets that came, then the font pass, then the layout asks on its own (`ImportCss`,
`DecodedImageFor`). `Through` computes, for a batch, who is blocked, skipped, served and
transferred, and puts the answers back. The page loader may fail one URL of a load or throw for a
whole batch. Scripts write cookies between rebuilds; `Reset` is a new loader. Left out: nested `@import` (the engine's), `data:` and
`blob:` references (filtered before), and the time the budget
measures, which is only a guard here. The cache evicts at its bound (`subresource_scanner.cpp:303` sets 4096
entries): below it nothing is lost, which is the premise of `WarmStaysWarm`. A URL the web of the instance does
not know fails like one whose transfer fails.

## 4. What the runs check

| run | instance | states | shows |
|---|---|---|---|
| `turns` | 2 ids, delays 0 and 1, clock to 2, idle runs, symmetry in ids | 3.2 M | no callback lost or doubled, frames never stranded, a drained checkpoint before every task |
| `ready` | 1 id, 1 mark, 1 observer, `ready` runs | 3.9 M | types; counters cover the work; each verdict of `run_until_ready` is justified |
| `ends` | 1 id, 2 marks, idle and load runs, fairness | 694 k | runs end; idle means done |
| `loads` | 3 fetches, budget 2, both engines | 33 k | every load has exactly one completer; counts exact; order; implements `LoadService`, liveness included |
| `scripts` | 2 parser and 2 inserted scripts in 4 mixes of kinds, fairness | 415 k | implements `ScriptOrder`; `load` waits; holds exact; ordered scripts in turn and at last; loading ends |
| `styles` | 2 documents of 4 nodes, 2 mutations, 2 reads, journal of 1 | 341 k | nothing stale is reused; journal complete; ids for life; bounded modes seeded |
| `cookies` | 2 sites, a subdomain, an address, 8 offers, caps 2 and 3 | 6.5 k | cookies stay in their site, protected ones survive, caps are paid by who fills them |
| `shared_loads` | 2 threads, 2 of 6 calls, cache of 2, 10 URLs, 2 policies, 1 connection | 1.1 M | map and list agree; batches in order; cookies at their hop; what is blocked comes in by kept connections only |
| `renders` | 2 rebuilds, 2 documents, budget 6 | 52 k | budget exact, answers in place, warm entries hit, jar moved only by transfers |
| `run_twice` | 2 parser scripts, 1 inserted | | violated: a moved parser script runs twice |
| `stale_style` | as `styles` | | violated: equal digests, different cascades |
| `starved` | 1 rebuild, budget 3 | | violated: the prefetch spends the layout's budget |

Why the bounds are enough. The hazards of the loop involve at most two ids (one cleared,
cancelled or re-requested while another runs), delays that are zero or not, and a clock
with room for one stale interval; ids are reused once nothing mentions them, so a
behaviour may create any number of callbacks. Iterations are capped at 2, so both
"cap reached" and "cap not reached" occur, and the checkpoint at 1 round, so the
capped flush occurs. One mark and one counted delivery suffice for `ready` because the
properties about them are about zero against not zero and about exact equality; one load at a time already
flies, is refused, aborted in each place, broken and given up. `ends` has two, so that a script can wait for another. Three
fetches with a budget of 2 give two overlapping loads and a refused third; aborts, breaks
and teardown are possible at every point.

Scripts: the mixes put each kind of parser script beside each kind it can race with, and
two inserted ones give the ordered queue somebody to wait for. `MaxOverrun = 1`
lets the code that was cut leave one job that is cut again, which is what makes a checkpoint
throw. `MaxDocumentLoads = 0` is the option's "no limit": the cap only takes scripts out before
anything starts.
Styles: with a journal of one record every second mutation evicts, so complete and incomplete
journals both occur; two mutations and two reads are the shortest stale reuse (read, change, read,
change back, or change, read), and a behaviour reads either styles or boxes, which share nothing
but the styled document. Ids up to 6 leave room for one inserted or cloned node beside each
document, or for one reload of the smaller one.
Cookies: caps of 2 and 3 let one domain overflow alone and two together. Shared loads: two
threads and a cache of two entries give duplicate stores, evictions between lookup and store,
and a clear in between. Two calls give each pair of them, before, across and after a change of policy: a
connection opened by the first under a lax policy is met by the second under a strict one, and a pool of one
closes it for another. Each URL of the server is there for one rule (a redirect inside the site, one to a
private address, a `Location` that looks like a host, two `Location`s, an error, a host written as an
address, a file, a data URL).
Renders: the sheet redirects, so that its final URL and base differ from what was asked, sets a
cookie, and names an image and a font; the second document asks for an image that the sheet
names too. `MaxNow`, `MaxTransfers`, `MaxObserved`, `Ids`, `Loads`, `MaxId`, `MaxReads`, `MaxMutations`,
`MaxCalls`, `MaxSets`, `MaxOpen`, `MaxRebuilds` and `MaxWrites` are the model's own bounds; near `MaxNow` budgets and
sleeps are shortened to it. `CHECK_DEADLOCK FALSE` everywhere: after teardown, a finished load, or at a
bound the system has stopped for good.

Each property of a passing run has a mutant in the module it tests, the operator named
`Mutant...` before the definition it replaces; each stands for a plausible slip (a
dropped cancel, a missing `activityEnd`, an off-by-one, a stale read, a key without its cookies).

Fairness. `WF(DriverStep)`: the driver is a loop in C++ with no wait but `uv_run`.
`WF(ClockTick)`: time passes. `JsIsInterrupted`: JS may loop for ever, but while
`deadline_active_` is set QuickJS calls the interrupt handler and the call ends; without
the deadline nothing is assumed, which is why `RunEnds` excuses runs whose guard is
off. In `AsyncLoad`: curl ends each transfer within `CURLOPT_TIMEOUT_MS`, and tasks and jobs run as
long as the embedder drives the loop; nothing is assumed of aborts, starts and teardown. In
`ScriptPipeline`: the pipeline and the call in progress go on, code ends or is cut, waits poll, queued
tasks run, the load deadline passes, and each load lands because curl has a time-out. That code ends
(`WF(CodeEnds)`) is an assumption on pages: `js_timeout` and the load deadline cut code that runs on, but
code reached after a logged time-out has no deadline (`JsIsBounded` below), so `LoadEnds` says nothing of a page that
loops there. Nothing
is assumed of what code inserts. The other modules state no liveness: their operations return.

## 5. Where code and documents disagree

With a run that shows it:

* **run_twice** (`30_dom.js:260`): code that moves a later parser script runs it at once; the
  pipeline, which marks a script as started but never looks, runs it again in its turn.
* **stale_style** (`page.cpp:1391`): a digest is taken before the scan that decides what digests
  fold; the value is stored under it and returned later for a document the cascade answers
  differently.
* **starved** (`render_resource_loaders.cpp:93`): the render budget counts cache hits, so with a
  small one the prefetch spends what the layout needs to be served from the cache it warmed.

Stated as a property that the code does not keep (the name is the definition), with no run kept:

* `NoTimerFiresEarly` (`event_loop.cpp:103`): due times come from the live clock, but libuv arms
  relative to its cached time, so a timer set late in a long turn fires early by as much as the
  turn had run; `event_loop.hpp:86` gives the delay until a timer fires.
* `QuiescentPageIsReady` (`20_events.js:708`): `js_timeout` skips the `finally` that ends a
  mutation delivery; the counter stays up and no later state of the page is ready, although
  `docs/testing.md:14` says such pages "become ready immediately".
* `JsIsBounded` (`js_runtime.cpp:2907`): a logged time-out switches the deadline off for the
  checkpoint that follows it, although `page.hpp:51` has a ceiling on all JavaScript of a load.
* `CancelledIsForgotten` (`js_runtime.cpp:2513`): the curl engine forgets a transfer as it lands; a
  cancel between landing and delivery finds nothing, and the queued completion still stores
  cookies and cache entry (the page itself sees nothing of it).
* `SettledFetchesAreReleased` (`90_install.js:697`): an exception while converting the body leaves
  fetch without `settle()`, so its activity mark is never given back.
* `NothingAborts` (`page.cpp:398`): the page's own calls before a script are not in its `try`; when the
  load deadline cuts one, or its checkpoint throws, the exception leaves `execute_scripts` and
  `load_html`, although `docs/architecture.md:57` says that script exceptions "do not abort later
  scripts or lifecycle dispatch".
* `BusyIsBacked` (`30_dom.js:238`): a cut in an ordered script skips `onDone`, so the queue stays busy
  for ever, though the comment at `30_dom.js:207` says that onDone "always runs exactly once".
* `KnownStyleIsKept` (`page.cpp:921`): in bounded mode an inline value read under a new digest
  starts a new entry and drops the last-known values of the other properties.

Seen while modelling:

* Loop: a time-out inside a batch of frames drops the rest of it; `run_until_ready` can give up with
  a flush left by the 100-round cap; timers with equal stale expiries may fire out of due order; a
  response header the shim's `Headers` refuses makes the reaction of fetch throw and its promise
  never settles (`ReactBreaks`, `ReactionBreaks`): like a body whose conversion throws, it holds readiness for
  the rest of the page with no time-out in sight.
* Scripts: the calls before an async script's code (`page.cpp:393-404`) are in no `try` of their own, so when one
  throws the completion never lowers `async_pending` and the activity count; a checkpoint that throws ends a wait before its deadline, so a sync script whose fetch is fine is
  skipped; `currentScript` can stay stale after the load deadline.
* Document and styles: `set_text_content` empties the node before the budget refuses the text, with no version
  moved; `set_inner_html` inserts its nodes and then is over the budget; moving a script among
  siblings, or a node out of where it did not count, moves no layout version though selectors see it;
  a scan leaves the memo of levels as it was (`dom_document.cpp:1402-1415`), so digests mix levels of before and
  after it, which is a second way to `stale_style`; `forget_version` clears the last-known geometry of every element, so in bounded mode a known box becomes null.
* Resources: the lenient fallback of `load_all` can throw (`resource_loader.hpp:121-124` says it never
  does); a `Location` that looks like a host, one of several, or one whose path `resolve_url` shortens makes
  `write_header` (188, 2008) file the next hop's Set-Cookie under a URL libcurl never went to; a connection to
  a private address opened under a lax policy is reused under a strict one, with no socket for the guard
  to see (78, 602, 1424-1426, 1776); a late store can overwrite a newer answer or put data back after `clear()`.
* Renders: the Cookie header is part of the cache key, so a Set-Cookie during a rebuild makes the
  layout fetch again; `import_css` lets a loader's exception out although a failed prefetch does not abort
  a render (`docs/architecture.md:211`); requests a geometry rebuild skips spend the budget.

## 6. What is proved

`PageLoopProofs` proves, from `PageLoopAssumption` and `EventLoopAssumption` only, for any
set of ids, any delays, caps and budgets:

* `TypeCorrect`: `Spec => []TypeOK`. Inductive as it stands; one lemma per group of
  actions (embedder, JS, checkpoint, libuv, turn, idle run, ready run, clock).
* `CallbacksAreBacked`: `Spec => []CallbackIsBacked`. It is inductive together with
  `TypeOK`: the interesting steps are `SetTask` (a fresh id goes to exactly one side),
  `TimerFired` (a one-shot moves from the timers to the queue), `RunTask` (it leaves the queue
  and the registry together) and `ClearTask` (a queued id is left behind with nothing
  registered). Lemmas about `Append` and `Tail` say what they do to "once in" and "nowhere in".

It also proves the other safety properties of the passing runs of `PageLoop`:

* `CountersAlwaysCover`: `Spec => []CountersCoverWork`. The invariant, `Work`, adds that a counter is
  owed only while the JS that lowers it runs, and that the marks are exactly the sum of where the code that lowers them is (`net = external +
  live completions + answered + waiting + lost + owed`). Until JS is interrupted `lost` counts just the fetches whose
  own exceptions stranded a mark. Lemmas count the completions in the queue when one
  is posted or taken, so a transfer keeps its unit from its start to its handler's end.
* `FramesAlwaysBacked`: `Spec => []FramesBacked`. The invariant, `Framing`: an id waits once, in the loop's
  list or in the batch but not both, and a batch is under way only inside `run_animation_frames`.
* `ReadyIsSound`, `RefusalsHaveReasons`, `QuiescenceIsFinal`, `GivesUpOnlyStuck`, `IdleIsDone` and
  `JobsNeverWait`: the action properties on readiness, idleness and checkpoints. They need `Work`,
  `Framing`, `CallbackIsBacked` and `Verdicts`: jobs are drained wherever the driver is past a checkpoint,
  the locations belong to the run that was asked for, the tracker's last change is not older
  than the real one unless the document's version tells, and a timer is relevant exactly when its
  callback is.

`AsyncLoadProofs` proves, from `AsyncLoadAssumption`, for any finite set of loads and any
budget:

* `LoadTypes`: `Spec => []TypeOK`.
* `ExternalCountsTransfers`: `Spec => []ExternalIsTransfers`, so `end_external_work` never
  saturates. It is inductive with `TypeOK` and "a load in flight has started", by the
  cardinality of a finite set with one element more or less.
* `BudgetIsKept`: `Spec => []BudgetHolds`. The counter bounds the history of starts, which holds
  every load in flight or delivered; the interesting step is a start, which spends first.
* `FetchKeepsItsPromise`: the initial states of `AsyncLoad` map to initial states of
  `LoadService` and every step to a step or a stutter. The invariant it needs is
  `ActiveCounts`, the activity count is the number of fetches that have not given their mark
  back: without it the saturating decrement of the tracker could stutter where the service
  must count down.
* `EveryLoadAlwaysBacked`: `Spec => []EveryLoadIsBacked`. The property alone is not inductive: a
  second queued completion, or one queued while the transfer flies, would break it one step later.
  `Backed(l)` adds that a load has one queued task at most, none while it is in flight, and nothing
  before it is sent.
* `AdapterAlwaysKeepsOrder`: `Spec => []AdapterKeepsOrder`. The invariant, `Prefix`: the adapter's
  queue is the latest starts in their order, what was delivered is a prefix of all starts, and
  only the last delivered can still be in its reaction.

`ScriptPipelineProofs` proves `OrderedAlwaysInTurn`, `Spec => []OrderedInTurn`, from `ScriptsAssumption`,
`MixesAssumption` and `WhatAssumption`, for any document, created scripts, mixes of kinds and bounds. The
invariant, `InTurn`: the shim's queue holds the latest ordered insertions in their order, so those released
from it are a prefix; only the last released is loading, landed or running, in one place, and
then `busy` holds. The steps that matter are the insertion (it starts a load only when nothing is under
way), the landing, and the end of a script or its failure, which release the next one.

It also proves the pipeline's other safety properties, with `BoundsAssumption` besides:
`HoldsAlwaysBacked`, `CurrentAlwaysRunning` and `LoadAlwaysWaitsForAsync`. None is inductive alone; the
invariant, `HoldsInv`, has named parts. `Control`: where the pass stands, which call may be under way there
and which frames may be on the stack above it. `Places`: every load, and every inserted script, is in one
place (in flight, queued, waiting, running), which is what a count can be compared with. `Counted`
is the property about `pending` and `holds`, by cardinalities of those places. `Restoring`: while no code was
cut, each frame remembers what `currentScript` was below it; the theorem, too, says nothing after a cut, nor
of promise callbacks that run between a script's end and the reset (`page.cpp:406-415`), which see the script. `Awaited`: past the load event no async script
of the parser is left, unless something was cut or the deadline passed.

And it proves that the pipeline implements the abstract specification: `PipelineKeepsOrder`, `Spec => OrderSpec`,
every step of `ScriptPipeline` is a step of `ScriptOrder` or leaves its order alone. The invariant, `Marching`,
joins what the page has run to where the pass stands: in the first pass only inline and sync scripts at places
it has passed, or at the one it is at once their code has started (`ScriptsToCome`); the list put off is in
document order, and behind the first pass (`PutOff`); a wait or a call of the pass is about the script at its
place (`AtPlace`); an event is new when its call starts (`EventsToCome`), and so is an async script's
code, since a load lands once (`AsyncOnce`, with `Places`).

`SharedLoadsProofs` proves:

* `OrderIsAlwaysMap`: `Spec => []OrderIsMap`, for any number of threads, calls, URLs and entries. The
  invariant, `Sound(cache)`, is a property of the cache alone: the order is an injective sequence over
  exactly the held keys, within the cap. Each of `Touch`, `Put` and `Clear` keeps it whatever the state it is
  called in, which is why the unlocked inner load does no harm to it.
* `BatchAlwaysInOrder`, `CookiesAlwaysNameTheirHop` and `BlockedAlwaysOnlyOverKept`, from one invariant,
  `CallingInv`, and two assumptions on the instance: calls ask for URLs the server knows (`CallsAssumption`),
  and the server speaks HTTP as libcurl follows it (`ServerAssumption`: a status line comes first; a redirect
  goes where the first `Location` of the last response that is not empty leads, by libcurl's reading). Nothing is
  assumed about how the code reads a `Location`: `CookiesNameTheirHop` covers a transfer up to the first hop at which
  the two readings part (`ReadsAlike`). The invariant says per step of a call what its lists hold: which indices
  have answers, that the misses are the others in rising order, what a slot's header lines came to, and that
  each hop of a transfer went over a socket the policy copied at its start lets through, or over a kept
  connection that was let through by the policy it was opened under. `KeysTell` joins
  calls: an entry of the cache would have been the answer of any request with its key.

`CookieJarProofs` proves, from `CookieAssumption` and `JarAssumption` (hosts are sequences of labels;
responses follow redirects between known URLs), for any suffix list, URLs, offers and caps:

* `JarAlwaysWithinCaps`: `Spec => []TypeOK`, with each identity once and the caps held. An eviction loop is
  a recursive function; `KeptUnfolds` shows that it takes the steps it is defined by (by `RecursiveFunction`),
  and induction over them that what is left is a part of the jar, in its order.
* `CookiesAlwaysStayInTheirSite`: `Spec => []StaysInItsSite`. The invariant, `InScope`, is about the cookie
  as stored: its domain is the host that set it, or a domain of that host that is no public suffix.
* `ProtectedCookiesAlwaysStay`: `Spec => ProtectedCookiesStay`, and `NeighboursAlwaysSpared`: `Spec =>
  NeighboursAreSpared`. `GoneFacts` says what may take a cookie in one write: its identity, the wider match of an
  expired one, or an eviction, and then at which cap and of which domain.

`RenderLoadsProofs` proves, from `RenderAssumption` (a limit is a number; what documents and sheets refer to are
lists) and `ResourceAssumption`, for any documents, answers, offers, limits and cache size:

* `LayersAlwaysHold`: `Spec => []LayersHold`. A layer's list of indices is `Rising`: it holds the positions it lets
  through, in their order and each once, so `Placed` gives back to each request its own answer, three layers deep.
  What the budget lets through is a list of rising numbers below what is left of it, so no longer than that.
* `WarmAlwaysStaysWarm`: `Spec => []WarmStaysWarm`. The invariant, `LoadsInv`, says of the cache that an entry's key
  is that of the request it answers (`Labelled`) and that below its bound it holds what the running rebuild's
  prefetch got (`WarmInv`); of the rebuild, that whatever it asks for next, over the second wave, the fonts, the
  imports and the images, has the document as its referrer (`AskList`). Two requests of one target then have one
  key, unless their cookies differ.
* `JarAlwaysMovesByTransfers`: `Spec => JarMovesByTransfers`. A load that missed nothing has only answers from
  the cache, and the loop over them leaves the jar as it was.

`StyleCacheProofs` proves, from `DomAssumption` and `StyleAssumption` (a document is a tree numbered in its
order, in which a style or a script holds only text, as a parser makes it; a fragment is empty or one node;
scripts create anything but documents), for any documents, caps and budgets:

* `JournalAlwaysCovers`: `Spec => []JournalCovers`. The invariant, `Sound(dom)`: the records carry
  the versions after the base, in order, and every id in use is below `next`. One lemma per
  operation shows `Follows(d, op(d))`; all but the clone and the reparse are an edit of the
  tree (`Edits`) and then `MarkMutated`, whose eviction moves the base with the record it drops.
* `IdsAreForLife`: `Spec => IdsAreNeverReused`, from the same lemmas.
* `BoundedModeAlwaysSeeded`: `Spec => []BoundedModeIsSeeded`. The invariant, `Seeded`: while a mode is on and
  no id was forgotten since, every node it was seeded with still has a known value. The property speaks of nodes
  still live; the invariant of all that were, and a read that finds an id forgotten starts
  from nothing. Most of the proof is that a patch, a rebuild and a reset of the document touch neither the versions nor
  the values it compares.
* `StyledAlwaysFresh`: `Spec => []StyledIsFresh`. The property is about one version; the invariant, `Fresh0`, about
  all of them. `Whole(dom)`: `Sound`, and a document that is a tree (`Tree`: ups and kids agree, each kid once,
  no node above itself, and text stands only where text may) with its root on top. `Near(dom, styled)`: whatever the
  version of the view, if the records since are all inline-style patches, the view differs from what the
  engine would be shown now in the inline styles of the nodes those records name, and in nothing else. A patch
  sets exactly those; a structural record makes the premise false until the next rebuild; and a change
  that writes no record must be `Unseen`. One lemma per operation shows that it is: what a change
  to a subtree, a loose node, a script's or a template's content or a comment does to the set of nodes shown, to their kept children and
  to the texts of the stylesheets (`Sheets`). They rest on the lemmas about trees: that each edit keeps a tree
  (`TakenOffTree`, `PutUnderTree`, `EmptiedTree`, ...) and what it does to the ancestors of each node, by induction
  along the parents (`TreeInduction`). `KeptApart`, `InsertApart` and their kin, in `InductionLemmas`, say what
  keeping part of a sequence does after a removal or an insertion.
* `ReuseAlwaysSound`: `Spec => []ReuseIsSound`. An entry may be many mutations old when its digest matches again,
  and the digest leaves the texts of the stylesheets out. So the proof first shows that a digest tells the
  cascade all but those: `Told(digest, texts)` rebuilds the cascade's rows from the digest's, counting a node's
  place among the siblings that are no templates, and `CascadeIsTold` shows that it is the cascade whenever the
  service attributes the selectors name are known (`dom.sens = SelectsMark(dom)`). Then, one lemma per operation
  (`SetMarkSheets`, ...), that the texts and the attributes named stay unless the generation moves (`Sheeted`): a
  change that moves no generation leaves the trees `Apart` only where no stylesheet's text is, and one that is
  not even a layout change leaves what `StyledAlwaysFresh` says of a view just built. Two invariants, until a
  move crosses. `Recalled`: the memo's levels are `early`, or those of a document that shows what this one shows and
  whose scan is done (`Memoed`), so a digest made with them is the digest made without. `Trusted`: in the
  ordinary mode every entry not mixed, of the present generation, holds what its own digest tells with the
  present texts (`Truthful`), and no digest of this document can be older than its scan any more (`Ripe`). It speaks
  of all digests, not of the present one, so it needs no past document.

Induction. The provers cannot instantiate a predicate parameter, so `InductionLemmas` states induction
for a set of numbers (`SetInduction`) and derives from it that a recursive function takes its steps
(`RecursiveFunction`); the proofs about loops over a jar, a cache or a list of requests, and about what a recursive function returns, rest
on it.

Only model-checked: liveness (`RunEnds`, `LoadEnds`, `OrderedDrain`, the fairness half of
`ImplementsLoadService`), which is out of the prover's reach.

## 7. Not modelled

XMLHttpRequest (its re-entrant handlers over the loads of `AsyncLoad`) and the module loader's import
graph; libuv handles and libcurl's sockets; layout, raster, images and fonts, which are numeric computation;
text parsing, encodings and base64, pure functions with unit tests; the DOM API surface, forms and
streams; the command-line and test tools. Memory and JS heap limits are not modelled. The two halves
that meet in a page, loop and styles, are composed only through what each leaves free to the other:
a style read is a step of JS, and JS may mutate between any two reads.

## 8. Files

`MC*.tla` instantiate a module for TLC, `MC*.cfg` one run each. `PROJECT.json` maps
every definition to the lines it models and lists runs, mutants, hazards and theorems.
