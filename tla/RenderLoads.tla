---------------------------- MODULE RenderLoads ----------------------------
(***************************************************************************)
(* How a page loads what a render needs: every rebuild of the styled       *)
(* document prefetches in waves (src/src/subresource_scanner.cpp), then    *)
(* the layout engine asks for sheets and images one by one                 *)
(* (src/src/litehtml_layout.cpp).  Both go through a budget, in geometry   *)
(* mode a filter, the cookie jar (src/src/render_resource_loaders.cpp) and *)
(* a cache that outlives the rebuild.                                      *)
(*   document  [base, images, links, styles, faces], references as the     *)
(*             DOM has them; a style is [kind, ref], a face [face, ref]    *)
(*   the web   url -> [at, status, size, cookies, styles, faces], the last *)
(*             two what a stylesheet holds                                 *)
(***************************************************************************)
EXTENDS CookieRules, ResourceRules

CONSTANTS
  Documents,    \* the documents mutations lead to
  Web,          \* what the network answers
  ScriptOffers, \* what scripts write to document.cookie
  MaxLoads, MaxBytes, MaxTime,  \* the render budgets; Absent for no limit
  MaxRebuilds,  \* bound: rebuilds of a behaviour
  MaxWrites     \* bound: its cookie writes and resets

IsList(s) == s \in Seq(ToSet(s))
ASSUME RenderAssumption ==
  /\ MaxLoads # Absent => MaxLoads[1] \in Nat
  /\ \A d \in Documents : IsList(d.images) /\ IsList(d.links) /\ IsList(d.styles) /\ IsList(d.faces)
  /\ \A u \in DOMAIN Web : IsList(Web[u].styles) /\ IsList(Web[u].faces)

VARIABLES jar,      \* the page's cookies; its clock stands still
          cache,    \* render_resource_cache_
          budget,   \* load_count_, loaded_bytes_, elapsed_us_
          rebuild,  \* the rebuild under way, then its engine
          last,     \* history: the load that came last
          net,      \* history: how many transfers the rebuild has made
          left      \* bound: rebuilds and writes to come
vars == <<jar, cache, budget, rebuild, last, net, left>>

NoLoad == [reqs |-> <<>>, sent |-> <<>>, answers |-> <<>>, missed |-> <<>>, demand |-> FALSE]
Fresh == [loads |-> 0, bytes |-> 0, time |-> 0]

Init ==
  /\ jar = <<>> /\ cache = EmptyCache /\ budget = Fresh
  /\ rebuild = [pc |-> "idle"] /\ last = NoLoad /\ net = 0
  /\ left = [rebuilds |-> MaxRebuilds, writes |-> MaxWrites]

-----------------------------------------------------------------------------
(* The layers.                                                             *)

\* block_reason
Blocked(pending) ==
  \/ MaxLoads # Absent /\ budget.loads + pending >= MaxLoads[1]
  \/ MaxBytes # Absent /\ budget.bytes >= MaxBytes[1]
  \/ MaxTime # Absent /\ budget.time >= MaxTime[1]

Indices(s, picked) == Kept([i \in DOMAIN s |-> i], picked)
Picked(s, indices) == [p \in DOMAIN indices |-> s[indices[p]]]
MutantPlaced(reqs, indices, answers) ==
  [i \in DOMAIN reqs |-> IF i \in DOMAIN answers THEN answers[i] ELSE Placeholder(reqs[i])]
\* Back to the requests a layer let through; an empty answer for the others.
Placed(reqs, indices, answers) ==
  [i \in DOMAIN reqs |->
     IF i \in ToSet(indices) THEN answers[CHOOSE p \in DOMAIN indices : indices[p] = i]
     ELSE Placeholder(reqs[i])]

WithCookies(request) ==
  [request EXCEPT !.cookies =
     CookiesFor(jar, 0, request.url, request.kind, "GET", "same-origin", rebuild.document.base)]

Body(response) == IF response.status = 0 THEN 0 ELSE Web[response.asked.url].size
Fails(url, down) == url \in down \/ url \notin DOMAIN Web
Fetched(request) ==
  LET answer == Web[request.url]
  IN Response(request, answer.at, answer.status, answer.cookies)

\* What one load or load_all does to the cache and to the jar: first the hits
\* count as used, then what came is kept, then its cookies are.
Touched(c, keys) ==
  LET after[n \in 0..Len(keys)] == IF n = 0 THEN c ELSE Touch(after[n - 1], keys[n])
  IN after[Len(keys)]
Stored(c, keys, responses, batch) ==
  LET after[n \in 0..Len(keys)] ==
        IF n = 0 THEN c
        ELSE IF Storable(responses[n], batch) THEN Put(after[n - 1], keys[n], responses[n])
        ELSE after[n - 1]
  IN after[Len(keys)]
JarsAfter(sent, responses) ==
  LET after[n \in 0..Len(sent)] ==
        IF n = 0 THEN {jar}
        ELSE UNION {StoreFromResponse(j, 0, sent[n].url, responses[n].fromCache,
                      responses[n].cookies, "same-origin", rebuild.document.base) : j \in after[n - 1]}
  IN after[Len(sent)]

\* Every layer's part in one load or load_all, with what the network does not
\* deliver.
Through(reqs, batch, down) ==
  LET allowed == Indices(reqs, {i \in DOMAIN reqs : ~Blocked(i - 1)})
      admitted == Picked(reqs, allowed)
      wanted == Indices(admitted, {i \in DOMAIN admitted :
                  rebuild.mode = "full" \/ admitted[i].kind = "stylesheet"})
      sent == [p \in DOMAIN wanted |-> WithCookies(admitted[wanted[p]])]
      keys == [i \in DOMAIN sent |-> CacheKeyFor(sent[i])]
      hits == Indices(sent, {i \in DOMAIN sent : Holds(cache, keys[i])})
      misses == Indices(sent, {i \in DOMAIN sent : ~Holds(cache, keys[i])})
      missed == Picked(sent, misses)
      fetched == [m \in DOMAIN missed |->
                    IF Fails(missed[m].url, down) THEN Placeholder(missed[m]) ELSE Fetched(missed[m])]
      touched == Touched(cache, Picked(keys, hits))
      placed == Placed(sent, misses, fetched)
      cached == [i \in DOMAIN sent |->
                   IF Holds(cache, keys[i]) THEN FromCache(cache.held[keys[i]]) ELSE placed[i]]
  IN [answers |-> Placed(reqs, allowed, Placed(admitted, wanted, cached)),
      sent |-> sent, admitted |-> Len(allowed), missed |-> missed,
      touched |-> touched, stored |-> Stored(touched, Picked(keys, misses), fetched, batch),
      bytes |-> FoldLeft(LAMBDA n, i : n + Body(cached[i]), 0, [i \in DOMAIN sent |-> i]),
      jars |-> JarsAfter(sent, cached)]

\* record_load, also when the load throws.
RecordLoad(loads, bytes, time) ==
  [loads |-> budget.loads + loads, bytes |-> budget.bytes + bytes,
   time |-> budget.time + IF loads = 0 THEN 0 ELSE time]

\* A load comes back, or throws what a layer below threw.
Returns(t, reqs, demand, time) ==
  /\ budget' = RecordLoad(t.admitted, t.bytes, time)
  /\ cache' = t.stored /\ jar' \in t.jars
  /\ last' = [reqs |-> reqs, sent |-> t.sent, answers |-> t.answers, missed |-> t.missed,
              demand |-> demand]
  /\ net' = net + Len(t.missed)
Throws(t, time) ==
  /\ t.missed # <<>>
  /\ budget' = RecordLoad(t.admitted, 0, time)
  /\ cache' = t.touched /\ UNCHANGED jar
  /\ last' = NoLoad
  /\ net' = net + Len(t.missed)

-----------------------------------------------------------------------------
(* What a rebuild asks for.                                                *)

Ask(kind, base, ref, referrer) ==
  [url |-> ResolveUrl(base, ref), kind |-> kind, referrer |-> <<referrer>>,
   base |-> <<base>>, cookies |-> <<>>]
SameTarget(a, b) == a.kind = b.kind /\ a.url = b.url

\* add_subresource for each of reqs, found being those it has added before: a
\* resource once, with the base of where it was found first.
AddSubresources(found, reqs) ==
  Picked(reqs, Indices(reqs, {i \in DOMAIN reqs :
    /\ reqs[i].url.scheme \notin {"data", "blob"}
    /\ ~\E f \in ToSet(found) : SameTarget(f, reqs[i])
    /\ ~\E j \in 1..(i - 1) : SameTarget(reqs[j], reqs[i])}))
Stylesheets(reqs) == Kept(reqs, {q \in ToSet(reqs) : q.kind = "stylesheet"})

LinkRequests(document) ==
  [i \in DOMAIN document.links |-> Ask("stylesheet", document.base, document.links[i], document.base)]
StyleRequests(styles, base, referrer) ==
  [i \in DOMAIN styles |-> Ask(styles[i].kind, base, styles[i].ref, referrer)]
CollectDomSubresources(document) ==
  AddSubresources(<<>>,
    [i \in DOMAIN document.images |-> Ask("image", document.base, document.images[i], document.base)]
    \o LinkRequests(document)
    \o StyleRequests(document.styles, document.base, document.base))

Succeeded(response) == response.status \in 200..399

MutantSecondWave(first, answers, document) ==
  AddSubresources(first, FlattenSeq([i \in DOMAIN first |->
    IF first[i].kind = "stylesheet" /\ Succeeded(answers[i])
    THEN StyleRequests(Web[first[i].url].styles, answers[i].url, answers[i].url)
    ELSE <<>>]))
\* The urls of the sheets that came, each resolved where its sheet came from.
SecondWave(first, answers, document) ==
  AddSubresources(first, FlattenSeq([i \in DOMAIN first |->
    IF first[i].kind = "stylesheet" /\ Succeeded(answers[i])
    THEN StyleRequests(Web[first[i].url].styles, answers[i].url, document.base)
    ELSE <<>>]))

\* add_font_request: a font once per face and URL.
AddFonts(fonts) ==
  Picked(fonts, Indices(fonts, {i \in DOMAIN fonts : \A j \in 1..(i - 1) : fonts[j] # fonts[i]}))
Fonts(faces, base, referrer) ==
  [i \in DOMAIN faces |-> <<faces[i].face, Ask("font", base, faces[i].ref, referrer)>>]
FontSheets(document) == AddSubresources(<<>>, LinkRequests(document))
PendingFonts(document, sheets, answers) ==
  AddFonts(Fonts(document.faces, document.base, document.base)
           \o FlattenSeq([i \in DOMAIN sheets |->
                IF Succeeded(answers[i])
                THEN Fonts(Web[sheets[i].url].faces, answers[i].url, document.base)
                ELSE <<>>]))
FontRequests(fonts) == [i \in DOMAIN fonts |-> fonts[i][2]]

-----------------------------------------------------------------------------
(* A rebuild.                                                              *)

StartRebuild(document, mode) ==
  LET found == CollectDomSubresources(document) IN
  /\ rebuild.pc \in {"idle", "layout"} /\ left.rebuilds > 0
  /\ rebuild' = [pc |-> "wave1", mode |-> mode, document |-> document,
                 reqs |-> IF mode = "full" THEN found ELSE Stylesheets(found),
                 warm |-> {}, next |-> 1, sheets |-> {}, decoded |-> {}]
  /\ budget' = Fresh /\ net' = 0 /\ last' = NoLoad
  /\ left' = [left EXCEPT !.rebuilds = @ - 1]
  /\ UNCHANGED <<jar, cache>>

\* Where a batch leads to: the fonts are for full rebuilds only.
ToFonts == IF rebuild.mode = "full" THEN "sheets" ELSE "import"
AfterBatch(answers) ==
  CASE rebuild.pc = "wave1" /\ rebuild.mode = "full" ->
         [rebuild EXCEPT !.pc = "wave2",
            !.reqs = SecondWave(rebuild.reqs, answers, rebuild.document)]
    [] rebuild.pc \in {"wave1", "wave2"} /\ ToFonts = "import" -> [rebuild EXCEPT !.pc = "import"]
    [] rebuild.pc = "wave2" ->
         [rebuild EXCEPT !.pc = "sheets", !.reqs = FontSheets(rebuild.document)]
    [] rebuild.pc = "sheets" ->
         [rebuild EXCEPT !.pc = "fonts",
            !.reqs = FontRequests(PendingFonts(rebuild.document, rebuild.reqs, answers))]
    [] rebuild.pc = "fonts" -> [rebuild EXCEPT !.pc = "import"]

\* What a batch that threw leaves: nothing of it, and no second wave.
AfterThrow ==
  CASE rebuild.pc \in {"wave1", "wave2"} ->
         [rebuild EXCEPT !.pc = ToFonts, !.reqs = FontSheets(rebuild.document)]
    [] rebuild.pc = "sheets" ->
         [rebuild EXCEPT !.pc = "fonts",
            !.reqs = FontRequests(PendingFonts(rebuild.document, <<>>, <<>>))]
    [] rebuild.pc = "fonts" -> [rebuild EXCEPT !.pc = "import"]

\* The requests of a prefetch that came, as they left.
Warmed(t) == {q \in ToSet(t.sent) :
                \E i \in DOMAIN t.answers : SameTarget(t.answers[i].asked, q) /\ Succeeded(t.answers[i])}

Batch(down, time) ==
  /\ rebuild.pc \in {"wave1", "wave2", "sheets", "fonts"}
  /\ \E t \in {Through(rebuild.reqs, TRUE, down)} :
       \/ /\ Returns(t, rebuild.reqs, FALSE, time)
          /\ rebuild' = [AfterBatch(t.answers) EXCEPT !.warm = @ \cup Warmed(t)]
       \/ Throws(t, time) /\ rebuild' = AfterThrow
  /\ UNCHANGED left

\* import_css for the next link of the document; what it throws ends the
\* rebuild.
ImportCss(down, time) ==
  LET document == rebuild.document
      request == Ask("stylesheet", document.base, document.links[rebuild.next], document.base)
      Source(answer) == IF answer.status = 0 THEN {} ELSE {<<request.url, answer.url>>}
  IN /\ rebuild.pc = "import" /\ rebuild.next <= Len(document.links)
     /\ \E t \in {Through(<<request>>, FALSE, down)} :
          IF t.missed # <<>> /\ Fails(request.url, down)
          THEN Throws(t, time) /\ rebuild' = [pc |-> "idle"]
          ELSE /\ Returns(t, <<request>>, TRUE, time)
               /\ rebuild' = [rebuild EXCEPT !.next = @ + 1, !.sheets = @ \cup Source(t.answers[1])]
     /\ UNCHANGED left

Laid ==
  /\ rebuild.pc = "import" /\ rebuild.next > Len(rebuild.document.links)
  /\ rebuild' = [rebuild EXCEPT !.pc = "layout"]
  /\ UNCHANGED <<jar, cache, budget, last, net, left>>

\* What layout and painting may need: the document's own images and those of
\* the sheets that were imported.
ImageRequests ==
  LET document == rebuild.document
      Of(reqs) == {q \in ToSet(reqs) : q.kind = "image"}
  IN {Ask("image", document.base, ref, document.base) : ref \in ToSet(document.images)}
     \cup Of(StyleRequests(document.styles, document.base, document.base))
     \cup UNION {Of(StyleRequests(Web[s[1]].styles, s[2], document.base)) : s \in rebuild.sheets}

\* decoded_image_for: an image once per engine, whether it came or not.
DecodedImageFor(request, down, time) ==
  /\ request.url \notin rebuild.decoded
  /\ \E t \in {Through(<<request>>, FALSE, down)} :
       IF t.missed # <<>> /\ Fails(request.url, down) THEN Throws(t, time)
       ELSE Returns(t, <<request>>, TRUE, time)
  /\ rebuild' = [rebuild EXCEPT !.decoded = @ \cup {request.url}]
  /\ UNCHANGED left

-----------------------------------------------------------------------------
(* Around it.                                                              *)

ScriptWrites(offer) ==
  /\ rebuild.pc = "layout" /\ left.writes > 0
  /\ jar' \in SetCookieFromHeader(jar, rebuild.document.base, offer, FALSE, 0)
  /\ left' = [left EXCEPT !.writes = @ - 1]
  /\ UNCHANGED <<cache, budget, rebuild, last, net>>

\* invalidate_display_list_cache: another loader, another document.
Reset ==
  /\ rebuild.pc \in {"idle", "layout"} /\ left.writes > 0
  /\ cache' = EmptyCache /\ rebuild' = [pc |-> "idle"] /\ last' = NoLoad
  /\ left' = [left EXCEPT !.writes = @ - 1]
  /\ UNCHANGED <<jar, budget, net>>

Downs == {{}} \cup {{u} : u \in DOMAIN Web}
Next ==
  \/ \E d \in Documents, m \in {"full", "geometry"} : StartRebuild(d, m)
  \/ \E down \in Downs, time \in IF MaxTime = Absent THEN {0} ELSE {0, 1} :
       \/ Batch(down, time)
       \/ ImportCss(down, time)
       \/ rebuild.pc = "layout" /\ \E q \in ImageRequests : DecodedImageFor(q, down, time)
  \/ Laid
  \/ \E o \in ScriptOffers : ScriptWrites(o)
  \/ Reset
Spec == Init /\ [][Next]_vars

-----------------------------------------------------------------------------
(* Properties.                                                             *)

\* "Use max_external_resource_loads for a hard, exact ceiling"
\* (include/pagecore/render.hpp:36): waves, fonts and single loads together
\* reach the loader no more often than that in one rebuild, failures counted.
BudgetIsExact == MaxLoads # Absent => net <= MaxLoads[1] /\ budget.loads <= MaxLoads[1]
\* A geometry rebuild transfers stylesheets only.
SheetsOnly ==
  rebuild.pc # "idle" /\ rebuild.mode = "geometry" =>
    \A q \in ToSet(last.missed) : q.kind = "stylesheet"
\* Every answer is in the place of its request, through three lists of indices
\* (render_resource_loaders.cpp:85 and 171, resource_loader.cpp:1920).
AnswersInPlace == \A i \in DOMAIN last.reqs : SameTarget(last.answers[i].asked, last.reqs[i])
LayersHold == BudgetIsExact /\ SheetsOnly /\ AnswersInPlace

\* What the layout asks for is the request the prefetch made: the same URL,
\* base and referrer found by another way, so that a resource it got is not
\* transferred again, unless the cookies it would be asked with have changed
\* meanwhile, or the cache has come to its bound and evicts
\* (subresource_scanner.cpp:303 and 361-379, litehtml_layout.cpp:319-335).
WarmStaysWarm ==
  last.demand /\ Len(cache.order) < MaxEntries =>
    \A q \in ToSet(last.missed) :
      ~\E w \in rebuild.warm : SameTarget(w, q) /\ w.cookies = q.cookies

\* Cookies change when a script writes them or a response was transferred: an
\* answer from the cache never sets its cookies again, over what a script or a
\* later response has made of them (store_from_response, cookie_jar.cpp:430).
JarMovesByTransfers ==
  [][jar' # jar => net' > net \/ \E o \in ScriptOffers : ScriptWrites(o)]_vars

\* "warms a CachingResourceLoader ... so the layout's otherwise-synchronous,
\* one-at-a-time requests hit a warm cache" (docs/architecture.md:207-209): what
\* a rebuild's prefetch got, the same rebuild's layout gets.
PrefetchedIsServed ==
  last.demand =>
    \A i \in DOMAIN last.reqs :
      (\E w \in rebuild.warm : SameTarget(w, last.reqs[i])) => last.answers[i].status # 0
=============================================================================
