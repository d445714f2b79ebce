----------------------------- MODULE SharedLoads -----------------------------
(***************************************************************************)
(* Threads that share a CachingResourceLoader in front of a                *)
(* CurlResourceLoader (src/src/resource_loader.cpp).  A call probes the    *)
(* cache under its lock, loads what it misses without, and stores under it *)
(* again, one entry at a time; meanwhile other calls run, the cache is     *)
(* cleared and the policy replaced.  The transfers of a batch land in any  *)
(* order, follow redirects and fail.                                       *)
(***************************************************************************)
EXTENDS ResourceRules

CONSTANTS Clients,    \* the threads
          Calls,      \* what they ask for: sequences of requests
          Policies,   \* the policies set_policy is given
          Server,     \* url -> what answers there
          MaxOpen,    \* the connections libcurl keeps
          MaxCalls,   \* bound: the calls of a behaviour
          MaxSets     \* bound: its set_policy and clear calls

ASSUME CallsAssumption ==
  \A reqs \in Calls :
    /\ Len(reqs) > 0 /\ reqs \in Seq(ToSet(reqs))
    /\ \A q \in ToSet(reqs) :
         /\ DOMAIN q = {"url", "kind", "referrer", "base", "cookies"}
         /\ q.url \in DOMAIN Server

\* How HTTP answers, interim responses included: a status line comes first, and
\* libcurl follows the first Location of the last response that is not empty.
\* A cookie's value is, in this model, the URL that sent it.
LocationsOf(lines) == {i \in DOMAIN lines : lines[i].is = "location"}
IsLast(lines, i) == \A j \in DOMAIN lines : lines[j].is = "status" => j < i
IsHttpAnswer(url, answer) ==
  LET lines == answer.lines
      Followed == {i \in LocationsOf(lines) :
                     IsLast(lines, i) /\ lines[i].value.is # "empty"}
  IN /\ answer.status # 0
     /\ lines \in Seq(ToSet(lines))
     /\ lines # <<>> => lines[1].is = "status"
     /\ \A i \in DOMAIN lines : lines[i].is = "cookie" => lines[i].value = url
     /\ answer.to # Absent =>
          /\ CurlTarget(url, answer.to[1]) \in DOMAIN Server
          /\ \E i \in Followed :
               lines[i].value = answer.to[1] /\ \A j \in Followed : i <= j

ASSUME ServerAssumption ==
  \A url \in DOMAIN Server : IsNetwork(url) => IsHttpAnswer(url, Server[url])

VARIABLES cache,    \* cache_ and order_
          lock,     \* who holds mutex_
          policy,   \* policy_
          open,     \* the connections shared_ keeps
          call,     \* what each thread is doing
          left      \* bound: calls, policies and clears to come
vars == <<cache, lock, policy, open, call, left>>

Free == "free"
Idle == [pc |-> "idle"]

\* One request of a batch on its way: where it is, which responses came and
\* over what connections, what they left, what it became.
Flying(request, snap) ==
  [st |-> "flying", url |-> request.url, trail |-> <<>>, h |-> NoHeaders(request.url),
   status |-> 0, snap |-> snap]
Failed(slot) == [slot EXCEPT !.st = "failed"]
Waiting(request, snap) == [Flying(request, snap) EXCEPT !.st = "waiting"]

Init ==
  /\ cache = EmptyCache /\ lock = Free /\ policy \in Policies /\ open = {}
  /\ call = [c \in Clients |-> Idle]
  /\ left = [calls |-> MaxCalls, sets |-> MaxSets]

-----------------------------------------------------------------------------
(* CachingResourceLoader.                                                  *)

\* load() of one request, or load_all() in one of its modes.
Start(c, requests, mode) ==
  /\ call[c].pc = "idle" /\ left.calls > 0
  /\ mode = "load" => Len(requests) = 1
  /\ call' = [call EXCEPT ![c] =
       [pc |-> "probe", reqs |-> requests, mode |-> mode, at |-> 1,
        answers |-> [i \in DOMAIN requests |-> Absent],
        misses |-> <<>>, serial |-> FALSE, slots |-> <<>>]]
  /\ left' = [left EXCEPT !.calls = @ - 1]
  /\ UNCHANGED <<cache, lock, policy, open>>

\* The lock is taken for the first request and given back after the last.
Passes(c, last) == lock \in {Free, c} /\ lock' = IF last THEN Free ELSE c

Probe(c) ==
  LET k == call[c]
      key == CacheKeyFor(k.reqs[k.at])
      hit == Holds(cache, key)
      last == k.at = Len(k.reqs)
      misses == IF hit THEN k.misses ELSE Append(k.misses, k.at)
  IN /\ k.pc = "probe" /\ Passes(c, last)
     /\ cache' = IF hit THEN Touch(cache, key) ELSE cache
     /\ call' = [call EXCEPT ![c] =
          [k EXCEPT !.misses = misses,
             !.answers[k.at] = IF hit THEN <<FromCache(cache.held[key])>> ELSE @,
             !.at = IF last THEN 1 ELSE @ + 1,
             !.pc = IF ~last THEN @ ELSE IF misses = <<>> THEN "answered" ELSE "fetch"]]
     /\ UNCHANGED <<policy, open, left>>

\* miss_slots
SlotOf(k, m) == k.misses[m]

Store(c) ==
  LET k == call[c]
      request == k.reqs[k.misses[k.at]]
      response == Response(request, k.slots[k.at].url, k.slots[k.at].status,
                           k.slots[k.at].h.cookies)
      answer == IF k.slots[k.at].st = "done" THEN response ELSE Placeholder(request)
      last == k.at = Len(k.misses)
  IN /\ k.pc = "store" /\ Passes(c, last)
     /\ cache' = IF Storable(answer, k.mode # "load")
                 THEN Put(cache, CacheKeyFor(request), answer) ELSE cache
     /\ call' = [call EXCEPT ![c] =
          [k EXCEPT !.answers[SlotOf(k, k.at)] = <<answer>>, !.at = @ + 1,
             !.pc = IF last THEN "answered" ELSE @]]
     /\ UNCHANGED <<policy, open, left>>

Return(c) ==
  /\ call[c].pc \in {"answered", "raised"}
  /\ call' = [call EXCEPT ![c] = Idle]
  /\ UNCHANGED <<cache, lock, policy, open, left>>

Clear ==
  /\ lock = Free /\ left.sets > 0
  /\ cache' = EmptyCache
  /\ left' = [left EXCEPT !.sets = @ - 1]
  /\ UNCHANGED <<lock, policy, open, call>>

-----------------------------------------------------------------------------
(* CurlResourceLoader.                                                     *)

\* What a slot is once its request is let through, or not: data and files
\* answer at once.
Begun(request, snap) ==
  LET slot == Flying(request, snap)
      answer == Server[request.url]
  IN CASE ~RequestAllowed(request, snap) -> Failed(slot)
       [] RequestAllowed(request, snap) /\ IsNetwork(request.url) -> slot
       [] OTHER -> IF Local(request.url, answer, snap)
                   THEN [slot EXCEPT !.st = "done", !.status = 200] ELSE Failed(slot)

\* One snapshot of the policy for the whole batch.
Fetch(c) ==
  LET k == call[c] IN
  /\ k.pc = "fetch"
  /\ call' = [call EXCEPT ![c] =
       [k EXCEPT !.pc = "flight",
          !.slots = [m \in DOMAIN k.misses |-> Begun(k.reqs[k.misses[m]], policy)]]]
  /\ UNCHANGED <<cache, lock, policy, open, left>>

\* There is no multi handle: the requests of a batch go one after the other,
\* each with a snapshot of its own, and the first failure is thrown whatever
\* the mode.
FetchSerially(c) ==
  LET k == call[c] IN
  /\ k.pc = "fetch" /\ Len(k.misses) > 1
  /\ call' = [call EXCEPT ![c] =
       [k EXCEPT !.pc = "flight", !.serial = TRUE,
          !.slots = [m \in DOMAIN k.misses |-> Waiting(k.reqs[k.misses[m]], policy)]]]
  /\ UNCHANGED <<cache, lock, policy, open, left>>

BeginNext(c, m) ==
  LET k == call[c] IN
  /\ k.pc = "flight" /\ k.serial /\ m \in DOMAIN k.slots /\ k.slots[m].st = "waiting"
  /\ \A i \in 1..(m - 1) : k.slots[i].st = "done"
  /\ call' = [call EXCEPT ![c].slots[m] = Begun(k.reqs[k.misses[m]], policy)]
  /\ UNCHANGED <<cache, lock, policy, open, left>>

\* A response arrives: a hop of the transfer, or its end.  libcurl follows a
\* redirect where it reads it to lead.  The last checks see the URL the
\* redirects led to.
Arrived(request, slot, answer, guarded) ==
  LET here == [slot EXCEPT !.h = HeadersAfter(@, answer.lines),
                           !.trail = Append(@, [url |-> slot.url, guarded |-> guarded])]
      to == CurlTarget(slot.url, answer.to[1])
  IN IF answer.to # Absent
     THEN IF Len(slot.trail) = MaxRedirects \/ ~RedirectAllowed(to, slot.snap) THEN Failed(here)
          ELSE [here EXCEPT !.url = to]
     ELSE IF /\ ResponseAllowed(answer.size, slot.snap)
             /\ RequestAllowed([request EXCEPT !.url = slot.url], slot.snap)
          THEN [here EXCEPT !.st = "done", !.status = answer.status] ELSE Failed(here)

\* A connection leads to an origin, and was guarded when it was opened or not.
Connection(url, snap) == [to |-> OriginOf(url), guarded |-> snap.private]

InTransfer(c, m) ==
  call[c].pc = "flight" /\ m \in DOMAIN call[c].slots /\ call[c].slots[m].st = "flying"
Hop(c, m, guarded) ==
  LET k == call[c] IN
  /\ call' = [call EXCEPT ![c].slots[m] =
       Arrived(k.reqs[k.misses[m]], @, Server[k.slots[m].url], guarded)]
  /\ UNCHANGED <<cache, lock, policy, left>>

\* A new socket meets the guard and is kept for all loads to come, if need be in
\* the place of another.
HopOverNew(c, m) ==
  LET slot == call[c].slots[m] IN
  /\ InTransfer(c, m) /\ OpensSocket(slot.url, slot.snap)
  /\ \E others \in SUBSET open :
       /\ open' = others \cup {Connection(slot.url, slot.snap)}
       /\ Cardinality(open') <= MaxOpen /\ Cardinality(open) < MaxOpen => others = open
  /\ Hop(c, m, slot.snap.private)

\* Nobody asks the guard about a connection that is open.
HopOverKept(c, m) ==
  /\ InTransfer(c, m)
  /\ \E kept \in open :
       kept.to = OriginOf(call[c].slots[m].url) /\ Hop(c, m, kept.guarded)
  /\ UNCHANGED open

SocketRefused(c, m) ==
  /\ InTransfer(c, m) /\ ~OpensSocket(call[c].slots[m].url, call[c].slots[m].snap)
  /\ call' = [call EXCEPT ![c].slots[m] = Failed(@)]
  /\ UNCHANGED <<cache, lock, policy, open, left>>

\* A server or libcurl closes a connection.
Closes ==
  /\ \E kept \in open : open' = open \ {kept}
  /\ UNCHANGED <<cache, lock, policy, call, left>>

\* A time-out, a broken transfer, or a poll that fails under all of them.
Breaks(c, m) ==
  /\ InTransfer(c, m)
  /\ call' = [call EXCEPT ![c].slots[m] = Failed(@)]
  /\ UNCHANGED <<cache, lock, policy, open, left>>

FailedSlots(k) == {m \in DOMAIN k.slots : k.slots[m].st = "failed"}
Raised(failed) == CHOOSE m \in failed : \A i \in failed : m <= i
Throws(k) == FailedSlots(k) # {} /\ (k.serial \/ k.mode # "lenient")

\* All have landed, or one by one the first has failed.
Collect(c) ==
  LET k == call[c] IN
  /\ k.pc = "flight"
  /\ \/ \A m \in DOMAIN k.slots : k.slots[m].st \in {"done", "failed"}
     \/ k.serial /\ FailedSlots(k) # {}
  /\ call' = [call EXCEPT ![c] =
       IF Throws(k) THEN [k EXCEPT !.pc = "raised", !.at = Raised(FailedSlots(k))]
       ELSE [k EXCEPT !.pc = "store"]]
  /\ UNCHANGED <<cache, lock, policy, open, left>>

SetPolicy ==
  /\ left.sets > 0
  /\ policy' \in Policies \ {policy}
  /\ left' = [left EXCEPT !.sets = @ - 1]
  /\ UNCHANGED <<cache, lock, open, call>>

-----------------------------------------------------------------------------

Step(c) ==
  \/ Probe(c) \/ Store(c) \/ Return(c) \/ Fetch(c) \/ FetchSerially(c) \/ Collect(c)
  \/ \E m \in DOMAIN call[c].slots :
       BeginNext(c, m) \/ HopOverNew(c, m) \/ HopOverKept(c, m) \/ SocketRefused(c, m) \/ Breaks(c, m)
Next ==
  \/ \E c \in Clients, r \in Calls, mode \in {"load", "failfast", "lenient"} : Start(c, r, mode)
  \/ \E c \in Clients : call[c].pc # "idle" /\ Step(c)
  \/ Clear
  \/ SetPolicy
  \/ Closes
Spec == Init /\ [][Next]_vars

-----------------------------------------------------------------------------
(* Properties.                                                             *)

\* The order lists exactly the keys that are held, each once, and no more than
\* the cap, whatever calls, clears and evictions interleave: an entry missing
\* from it could never be evicted, one too many would evict another twice
\* (CachingResourceLoader, resource_loader.cpp:1865-1982).
OrderIsMap ==
  /\ \A i, j \in DOMAIN cache.order : cache.order[i] = cache.order[j] => i = j
  /\ {cache.order[i] : i \in DOMAIN cache.order} = DOMAIN cache.held
  /\ Len(cache.order) <= MaxEntries

\* A batch answers its requests in their order, however hits, misses, files and
\* transfers mix and land: each answer is one that a request with the same URL,
\* cookies and referrer got, so that a cached one never serves somebody else's,
\* and a call that throws throws the failure of the first request that failed,
\* as one request after the other would have (resource_loader.hpp:120-127,
\* resource_loader.cpp:1913, 1757).
BatchKeepsItsOrder ==
  \A c \in Clients :
    /\ call[c].pc = "answered" =>
         \A i \in DOMAIN call[c].reqs :
           /\ call[c].answers[i] # Absent
           /\ Seen(call[c].answers[i][1].asked) = Seen(call[c].reqs[i])
           /\ call[c].answers[i][1].status = 0 => call[c].mode = "lenient"
    /\ call[c].pc = "raised" =>
         \A i \in 1..(call[c].misses[call[c].at] - 1) :
           \/ call[c].answers[i] # Absent
           \/ \E m \in DOMAIN call[c].misses :
                call[c].misses[m] = i /\ call[c].slots[m].st = "done"

\* An answer whose Locations write_header and libcurl read alike: none but those
\* of the last response, and the last of them leads where libcurl goes.
ReadsAlike(url, answer) ==
  LET Locations == LocationsOf(answer.lines)
  IN /\ \A i \in Locations : IsLast(answer.lines, i)
     /\ answer.to # Absent =>
          \E i \in Locations :
            /\ \A j \in Locations : j <= i
            /\ ResolveUrl(url, answer.lines[i].value) = CurlTarget(url, answer.to[1])

\* Every Set-Cookie is kept with the URL of the response that carried it, across
\* redirects, interim responses and relative Locations, so that the jar files
\* it there (write_header, resource_loader.cpp:163; store_from_response,
\* cookie_jar.cpp:432), but where this response or one before it had Locations
\* that libcurl reads otherwise: more than one, one that looks like a host, one
\* whose path resolve_url shortens.  A cookie's value here is the URL that sent
\* it.
CookiesNameTheirHop ==
  \A c \in Clients : call[c].pc \in {"flight", "store"} =>
    \A m \in DOMAIN call[c].slots :
      LET slot == call[c].slots[m] IN
      \A cookie \in ToSet(slot.h.cookies) :
        \/ cookie[1] = cookie[2]
        \/ \E n \in DOMAIN slot.trail :
             /\ slot.trail[n].url = cookie[2]
             /\ \E i \in 1..n : ~ReadsAlike(slot.trail[i].url, Server[slot.trail[i].url])

\* Whatever name a host goes by, wherever redirects lead and however the policy
\* is replaced meanwhile: a socket opened under a policy that keeps private
\* addresses out never leads to one, and what a call gets from an address its
\* own policy keeps out, an answer or a cookie of a hop, came over a connection
\* opened under a policy that let it in and kept since
\* (guarded_open_socket, build_network_response, the snapshot of load and
\* load_all and the connections shared_ keeps, resource_loader.cpp:602, 1482,
\* 1636, 78, 1776).  A host the policy names by itself never answers.
BlockedOnlyOverKept ==
  /\ \A kept \in open : kept.guarded => ~BlockedPeer(kept.to[2])
  /\ \A c \in Clients : call[c].pc \in {"flight", "store"} =>
       \A m \in DOMAIN call[c].slots :
         LET slot == call[c].slots[m]
             senders == {cookie[2] : cookie \in ToSet(slot.h.cookies)}
             answers == slot.st = "done" /\ IsNetwork(slot.url)
         IN /\ slot.snap.private =>
                 \A u \in senders \cup (IF answers THEN {slot.url} ELSE {}) :
                   BlockedPeer(u.host) =>
                     \E n \in DOMAIN slot.trail :
                       slot.trail[n].url = u /\ ~slot.trail[n].guarded
            /\ answers => slot.url.host \notin slot.snap.blocked
=============================================================================
