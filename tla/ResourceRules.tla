---------------------------- MODULE ResourceRules ----------------------------
(***************************************************************************)
(* What the loaders of src/src/resource_loader.cpp decide about a request  *)
(* and make of an answer, and the cache of answers, as operators.          *)
(*   request   [url, kind, referrer, base, cookies]; the last is the       *)
(*             Cookie header it carries                                    *)
(*   policy    ResourcePolicy: [schemes, network, file, fileFromNetwork,   *)
(*             root, private, blocked, sameOrigin, maxBytes]               *)
(*   answer    what a server or a disk has for a URL:                      *)
(*             [lines, status, size, to], to the reference it redirects    *)
(*             to; a file's answer is [found, status, size], with the path *)
(*             it is found at once "..", links and the like are followed   *)
(*   response  [asked, url, status, cookies, fromCache]; asked is the      *)
(*             model's: the request it answers                             *)
(***************************************************************************)
EXTENDS WebUrl, HostAddresses

CONSTANTS MaxRedirects,  \* CURLOPT_MAXREDIRS
          MaxEntries     \* max_entries_

ASSUME ResourceAssumption ==
  /\ MaxRedirects \in Nat
  /\ MaxEntries \in Nat \ {0}

-----------------------------------------------------------------------------
(* Policy.                                                                 *)

IsBlockedLiteralHost(host, policy) ==
  \/ host \in policy.blocked
  \/ policy.private /\ BlockedAsWritten(host)

RequestAllowed(request, policy) ==
  LET url == request.url
      initiator == IF request.referrer # Absent THEN request.referrer ELSE request.base
  IN /\ url.scheme \in policy.schemes
     /\ IsNetwork(url) => policy.network /\ ~IsBlockedLiteralHost(url.host, policy)
     /\ url.scheme = "file" =>
          /\ policy.file
          /\ policy.fileFromNetwork \/ initiator = Absent \/ ~IsNetwork(initiator[1])
     /\ policy.sameOrigin /\ request.referrer # Absent =>
          \/ "data" \in {url.scheme, request.referrer[1].scheme}
          \/ OriginOf(url) = OriginOf(request.referrer[1])

ResponseAllowed(size, policy) == policy.maxBytes = 0 \/ size <= policy.maxBytes

\* A file is read from below the root only, where links and dots lead it.
ReadsFile(answer, policy) == policy.root = Absent \/ IsPrefix(policy.root[1], answer.found)

\* load_data_url and read_file: what needs no transfer is there or fails.
Local(url, answer, policy) ==
  /\ url.scheme # "data" => ReadsFile(answer, policy)
  /\ answer.status = 200 /\ ResponseAllowed(answer.size, policy)

MutantOpensSocket(url, policy) == ~(policy.private /\ BlockedAsWritten(url.host))
\* guarded_open_socket
OpensSocket(url, policy) == ~(policy.private /\ BlockedPeer(url.host))

\* The protocols a redirect may lead to.
RedirectAllowed(url, policy) ==
  IsNetwork(url) /\ policy.network /\ url.scheme \in policy.schemes

-----------------------------------------------------------------------------
(* Headers.                                                                *)

\* What the server sees of a request.
Seen(request) ==
  [url |-> request.url, referrer |-> ReferrerForTarget(request.referrer, request.url),
   cookies |-> request.cookies]

NoHeaders(url) == [current |-> url, next |-> Absent, fields |-> <<>>, cookies |-> <<>>]

MutantWriteHeader(h, line) ==
  CASE line.is = "status" -> [h EXCEPT !.fields = <<>>]
    [] line.is = "cookie" -> [h EXCEPT !.cookies = Append(@, <<h.current, line.value>>)]
    [] line.is = "location" -> [h EXCEPT !.next = <<ResolveUrl(h.current, line.value)>>]
    [] OTHER -> [h EXCEPT !.fields = Append(@, line.value)]
\* A status line starts the headers of one more response, of where the last
\* Location led; cookies are kept over all of them with their source.
WriteHeader(h, line) ==
  CASE line.is = "status" ->
         [h EXCEPT !.current = IF h.next = Absent THEN @ ELSE h.next[1],
                   !.next = Absent, !.fields = <<>>]
    [] line.is = "cookie" -> [h EXCEPT !.cookies = Append(@, <<h.current, line.value>>)]
    [] line.is = "location" ->
         [h EXCEPT !.next = <<ResolveUrl(h.current, line.value)>>,
                   !.fields = Append(@, line.value)]
    [] OTHER -> [h EXCEPT !.fields = Append(@, line.value)]

\* The callback sees the lines of an answer one by one.
HeadersAfter(h, lines) ==
  LET read[n \in 0..Len(lines)] ==
        IF n = 0 THEN h ELSE WriteHeader(read[n - 1], lines[n])
  IN read[Len(lines)]

-----------------------------------------------------------------------------
(* Responses.                                                              *)

Response(request, url, status, cookies) ==
  [asked |-> request, url |-> url, status |-> status, cookies |-> cookies, fromCache |-> FALSE]
Placeholder(request) == Response(request, request.url, 0, <<>>)
MutantFromCache(response) == response
FromCache(response) == [response EXCEPT !.fromCache = TRUE]

-----------------------------------------------------------------------------
(* The cache: [order, held], order from the least recently used key on.    *)

MutantCacheKeyFor(request) == <<request.kind, request.url, request.referrer>>
\* Everything the server sees of a request; not the base its URL was resolved
\* with.
CacheKeyFor(request) ==
  <<request.kind, request.url, request.referrer, request.cookies>>

EmptyCache == [order |-> <<>>, held |-> <<>>]
Holds(cache, key) == key \in DOMAIN cache.held

First(order, key) ==
  CHOOSE i \in DOMAIN order : order[i] = key /\ \A j \in 1..(i - 1) : order[j] # key
Without(order, key) ==
  IF key \in ToSet(order) THEN RemoveAt(order, First(order, key)) ELSE order
Touch(cache, key) == [cache EXCEPT !.order = Append(Without(@, key), key)]

\* load() keeps what is no error, load_all() what is a success.
Storable(response, batch) ==
  IF batch THEN response.status \in 200..399
  ELSE response.status # 0 /\ response.status < 400

MutantPut(cache, key, response) ==
  [order |-> IF Len(cache.order) < MaxEntries THEN Append(cache.order, key)
             ELSE Append(Tail(cache.order), key),
   held |-> [k \in DOMAIN cache.held \cup {key} |->
               IF k = key THEN response ELSE cache.held[k]]]
\* A new key may cost the oldest entry; a known one keeps its place.
Put(cache, key, response) ==
  LET full == Len(cache.order) = MaxEntries
      kept == IF full THEN DOMAIN cache.held \ {Head(cache.order)} ELSE DOMAIN cache.held
      order == IF full THEN Tail(cache.order) ELSE cache.order
  IN IF Holds(cache, key) THEN [cache EXCEPT !.held[key] = response]
     ELSE [order |-> Append(order, key),
           held |-> [k \in kept \cup {key} |-> IF k = key THEN response ELSE cache.held[k]]]
=============================================================================
