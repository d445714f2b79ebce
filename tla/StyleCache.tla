------------------------------ MODULE StyleCache ------------------------------
(***************************************************************************)
(* What Page keeps of the engine's answers (src/src/page.cpp): the styled  *)
(* document with its key, patched from the journal or rebuilt; computed    *)
(* styles under the digest they were computed for; last known geometry;    *)
(* and the two bounded modes that stop forced rebuilds.  Scripts mutate    *)
(* the document and read in any order, the embedder renders.               *)
(*                                                                         *)
(* The engine's answer for a node is Cascade of the view it was given: the *)
(* inputs of the cascade stand for its result.  How long a rebuild takes   *)
(* is free.  "inline" stands for the properties an inline style can set,   *)
(* "sheet" for those it does not.                                          *)
(***************************************************************************)
EXTENDS DomDocument

CONSTANTS Documents,     \* the documents load_html may be given, as trees
          Fragments,     \* what innerHTML may parse to: sequences of nodes, at most one long
          Kinds,         \* what scripts create
          ReadKinds,     \* bound: the elements scripts ask about and give attributes
          Viewports,     \* the viewports the embedder renders with
          MaxReads,      \* bound: reads, renders, failures and resets
          MaxMutations   \* bound: mutations, loads included

\* A document comes numbered in tree order, its first node the document.  A
\* parser makes text only of what stands in a style or a script.
IsDocument(t) ==
  /\ IsFiniteSet(DOMAIN t)
  /\ DOMAIN t = 1..Cardinality(DOMAIN t) /\ Cardinality(DOMAIN t) \in 1..MaxId
  /\ t[1].kind = "doc"
  /\ \A n \in DOMAIN t :
       /\ DOMAIN t[n] = DOMAIN Node("elem", 0) /\ t[n].kind \in NodeKinds
       /\ t[n].up \in 0..(n - 1) /\ (t[n].up = 0 <=> n = 1)
       /\ t[n].kids \in Seq(DOMAIN t) /\ IsInjective(t[n].kids)
       /\ \A m \in DOMAIN t : m \in ToSet(t[n].kids) <=> t[m].up = n
       /\ n # 1 => /\ t[t[n].up].kind \notin {"text", "comment"}
                   /\ t[t[n].up].kind \in {"style", "script"} => t[n].kind = "text"

ASSUME StyleAssumption ==
  /\ \A t \in Documents : IsDocument(t)
  /\ \A f \in Fragments : f = <<>> \/ \E k \in NodeKinds \ {"doc"}, v \in -1..1 : f = <<Node(k, v)>>
  /\ Kinds \subseteq NodeKinds \ {"doc"}
  /\ ReadKinds \subseteq Elements \ {"script"}

VARIABLES dom,        \* document
          memo,       \* its level_context_cache, empty when its version is not the document's
          viewport,   \* last_render_options.viewport
          styled,     \* styled_document, its key and flags
          styles,     \* computed_style_cache and its mode
          geometry,   \* last_known_geometry and its mode
          history,    \* what happened, for the properties only
          reading     \* bound: what this behaviour reads, and how often yet
pageVars == <<viewport, styled, styles, geometry>>
vars == <<dom, memo, viewport, styled, styles, geometry, history, reading>>

Props == {"inline", "sheet"}
None == <<>>
Some(v) == <<v>>
Default == <<"default">>

Empty == [valid |-> FALSE, laidOut |-> FALSE, view |-> <<>>,
          version |-> 0, viewport |-> 0, mode |-> "none", corrected |-> FALSE]
NoStyles(d) == [bounded |-> FALSE, forget |-> d.forget, snapshot |-> 0,
                entries |-> [n \in Ids |-> None]]
NoGeometry(d) == [bounded |-> FALSE, forget |-> d.forget,
                  known |-> [n \in Ids |-> "none"]]
NoHistory == [crossed |-> FALSE, seededStyles |-> {}, seededBoxes |-> {}]

Init ==
  /\ \E t \in Documents : dom = Parse(Blank, t)
  /\ memo = NoMemo
  /\ viewport \in Viewports
  /\ styled = Empty /\ styles = NoStyles(dom) /\ geometry = NoGeometry(dom)
  /\ history = NoHistory
  /\ reading \in [asks : {"styles", "boxes"}, left : {MaxReads}]

-----------------------------------------------------------------------------
(* The styled document.                                                    *)

\* What the cascade of n depends on, in a view.
Cascade(view, n, vp) ==
  IF n \notin DOMAIN view THEN None
  ELSE LET Sel(m) == <<view[m].kind, view[m].mark>>
           Level(m) == ElementKids(view, view[m].up)
           chain == Kept(Chain(view, n), ElementsOf(view))
           levels == [i \in DOMAIN chain |-> Level(chain[i])]
       IN <<{view[m].val : m \in {k \in DOMAIN view : view[k].kind = "text"
                /\ \E a \in ToSet(Chain(view, k)) : view[a].kind = "style"}},
            vp,
            [i \in DOMAIN chain |->
               <<Sel(chain[i]), view[chain[i]].style, IndexOf(levels[i], chain[i]),
                 [j \in DOMAIN levels[i] |-> Sel(levels[i][j])]>>]>>

Hit(d, s, vp, mode, corrected) ==
  /\ s.valid /\ s.version = d.layout /\ s.viewport = vp
  /\ s.mode = mode /\ s.corrected = corrected

MutantMayPatch(d, s, vp, mode, corrected) ==
  LET records == RecordsSince(d, s.version) IN
  /\ s.valid /\ ~corrected /\ ~s.corrected
  /\ s.viewport = vp /\ s.mode = mode /\ records # <<>>
  /\ \A r \in ToSet(records) :
       /\ r.inline /\ ~r.rebuild
       /\ IsConnected(d, r.node) /\ d.tree[r.node].style # 3
       /\ r.node \in DOMAIN s.view
\* The gates of try_patch_styled_document, but for the fifth (page.cpp:1159): no
\* sheet of the model selects on the style attribute.
MayPatch(d, s, vp, mode, corrected) ==
  LET records == RecordsSince(d, s.version) IN
  /\ s.valid /\ ~corrected /\ ~s.corrected
  /\ s.viewport = vp /\ s.mode = mode
  /\ CompleteSince(d, s.version) /\ records # <<>>
  /\ \A r \in ToSet(records) :
       /\ r.inline /\ ~r.rebuild
       /\ IsConnected(d, r.node) /\ d.tree[r.node].style # 3
       /\ r.node \in DOMAIN s.view
Patched(d, s) ==
  LET touched == {r.node : r \in ToSet(RecordsSince(d, s.version))}
  IN [s EXCEPT !.version = d.layout, !.laidOut = FALSE,
        !.view = [n \in DOMAIN @ |->
                    IF n \in touched THEN [@[n] EXCEPT !.style = d.tree[n].style] ELSE @[n]]]

\* A rebuild scans the stylesheets first and so learns which service
\* attributes they select on.
Scanned(d) == [d EXCEPT !.sens = SelectsMark(d)]
Rebuilt(d, vp, mode, corrected) ==
  [valid |-> TRUE, laidOut |-> FALSE, view |-> LayoutView(d), version |-> d.layout,
   viewport |-> vp, mode |-> mode, corrected |-> corrected]

\* ensure_styled_document: the outcomes, as pairs of document and styled
\* document.  The engine may refuse a patch.
Ensured(d, s, vp, mode, corrected) ==
  IF Hit(d, s, vp, mode, corrected) THEN {<<d, s>>}
  ELSE {<<Scanned(d), Rebuilt(d, vp, mode, corrected)>>}
       \cup IF MayPatch(d, s, vp, mode, corrected) THEN {<<d, Patched(d, s)>>} ELSE {}

LaidOut(s) == [s EXCEPT !.laidOut = TRUE]
Answer(s, n) == Cascade(s.view, n, s.viewport)

\* cached_display_list: a second pass over the same document when the first
\* finds widths to correct.
Render ==
  /\ viewport' \in Viewports
  /\ \E first \in Ensured(dom, styled, viewport', "full", FALSE) :
       /\ dom' = first[1]
       /\ \/ styled' = LaidOut(first[2])
          \/ \E second \in Ensured(first[1], LaidOut(first[2]), viewport', "full", TRUE) :
               styled' = LaidOut(second[2])
  /\ UNCHANGED <<memo, styles, geometry, history>>

Digest(d, m, n) == LayoutInputDigest(d, m, n, viewport)
StyleTarget(n) == n \in DOMAIN dom.tree /\ dom.tree[n].kind \in ReadKinds
\* A digest of n was taken.
Digests(n) == memo' = Remembered(dom, memo, {n})

\* The engine or a load throws half way, at a render or at a read, which has
\* taken its digest: the scan has been done.
RebuildFails ==
  /\ ~Hit(dom, styled, viewport, "sheets", FALSE)
  /\ dom' = Scanned(dom)
  /\ UNCHANGED memo \/ \E n \in Ids : StyleTarget(n) /\ IsConnected(dom, n) /\ Digests(n)
  /\ UNCHANGED <<viewport, styled, styles, geometry, history>>

-----------------------------------------------------------------------------
(* Computed styles.                                                        *)

Synced(d, c) ==
  IF c.forget = d.forget THEN c
  ELSE [c EXCEPT !.forget = d.forget, !.snapshot = 0, !.entries = [n \in Ids |-> None]]

\* mixed (history): the digest, or a level in it, was folded before the scan
\* its stylesheets call for.
Fresh(digest, mixed) ==
  [digest |-> digest, full |-> None, props |-> [p \in Props |-> None], mixed |-> mixed]
MutantEntryFor(c, n, digest, mixed) ==
  IF c.entries[n] # None THEN [c.entries[n][1] EXCEPT !.digest = digest]
  ELSE Fresh(digest, mixed)
EntryFor(c, n, digest, mixed) ==
  IF c.entries[n] # None /\ c.entries[n][1].digest = digest
  THEN [c.entries[n][1] EXCEPT !.mixed = @ \/ mixed]
  ELSE Fresh(digest, mixed)
RememberProperty(d, c, n, digest, p, v, mixed) ==
  [Synced(d, c) EXCEPT !.entries[n] =
     IF IsConnected(d, n)
     THEN Some([EntryFor(Synced(d, c), n, digest, mixed) EXCEPT !.props[p] = Some(v)])
     ELSE None]
RememberFull(d, c, n, digest, v, mixed) ==
  [Synced(d, c) EXCEPT !.entries[n] =
     IF IsConnected(d, n)
     THEN Some([EntryFor(Synced(d, c), n, digest, mixed) EXCEPT
                  !.full = IF v = None THEN None ELSE Some(v)])
     ELSE None]

InDocument(d) == {n \in DOMAIN d.tree : d.tree[n].kind \in Elements /\ IsConnected(d, n)}

\* snapshot_computed_styles: every element of the document, at this version.
Snapshot(d, m, c, s) ==
  LET synced == Synced(d, c) IN
  [synced EXCEPT !.snapshot = d.layout,
     !.entries = [n \in Ids |->
        IF n \in InDocument(d)
        THEN Some([EntryFor(synced, n, Digest(d, m, n), m.early) EXCEPT
                     !.full = IF Answer(s, n) = None THEN None ELSE Some(Answer(s, n))])
        ELSE @[n]]]

ReusableProperty(d, m, c, n, p) ==
  /\ c.forget = d.forget /\ c.entries[n] # None
  /\ c.entries[n][1].digest = Digest(d, m, n)
  /\ c.entries[n][1].props[p] # None \/ c.entries[n][1].full # None
ReusableFull(d, m, c, n) ==
  /\ c.entries[n] # None
  /\ c.entries[n][1].digest = Digest(d, m, n) /\ c.entries[n][1].full # None

StyleHit == Hit(dom, styled, viewport, "full", FALSE) \/ Hit(dom, styled, viewport, "sheets", FALSE)

\* A read of a node that is not in the document forgets it.
ReadDetachedStyle(n) ==
  /\ StyleTarget(n) /\ ~IsConnected(dom, n)
  /\ styles' = [styles EXCEPT !.entries[n] = None]
  /\ history' = [history EXCEPT !.seededStyles = @ \ {n}]
  /\ UNCHANGED <<dom, memo, viewport, styled, geometry>>

\* Either read of a style finds what it asks for under the same digest.
ReuseStyle(n) ==
  /\ StyleTarget(n) /\ IsConnected(dom, n) /\ ~StyleHit
  /\ \/ ReusableFull(dom, memo, styles, n)
     \/ \E p \in Props : ReusableProperty(dom, memo, styles, n, p)
  /\ Digests(n)
  /\ UNCHANGED <<dom, viewport, styled, styles, geometry, history>>

\* computed_style
ReadStyle(n) ==
  /\ StyleTarget(n) /\ IsConnected(dom, n)
  /\ StyleHit \/ ~ReusableFull(dom, memo, styles, n)
  /\ Digests(n)
  /\ \E done \in IF StyleHit THEN {<<dom, styled>>}
                 ELSE Ensured(dom, styled, viewport, "sheets", FALSE) :
       /\ dom' = done[1] /\ styled' = done[2]
       /\ styles' = RememberFull(done[1], styles, n, Digest(dom, memo, n),
                                 Answer(done[2], n), memo'.early)
  /\ UNCHANGED <<viewport, geometry, history>>

\* computed_style_property on a document whose version is current
ReadCurrentProperty(n, p) ==
  /\ StyleTarget(n) /\ IsConnected(dom, n) /\ StyleHit
  /\ Digests(n)
  /\ styles' = RememberProperty(dom, styles, n, Digest(dom, memo, n), p, Answer(styled, n),
                                memo'.early)
  /\ UNCHANGED <<dom, viewport, styled, geometry, history>>

\* What a forced rebuild cost: it was cheap; itself long; of a document found
\* expensive; or the second one and over the budget.
Costs == {"cheap", "long", "expensive", "spent"}
MutantShouldSnapshot(cost) == cost = "spent"
ShouldSnapshot(cost) == cost # "cheap"
Trips(cost) == cost \in {"expensive", "spent"}

Misses(n, p) ==
  StyleTarget(n) /\ IsConnected(dom, n) /\ ~StyleHit /\ ~ReusableProperty(dom, memo, Synced(dom, styles), n, p)

\* Not yet bounded: one exact rebuild, the value kept under the digest taken
\* before it.
ForceProperty(n, p) ==
  /\ Misses(n, p) /\ ~styles.bounded
  /\ \E done \in Ensured(dom, styled, viewport, "sheets", FALSE), cost \in Costs :
       LET first == Remembered(dom, memo, {n})
           c == IF ShouldSnapshot(cost)
                THEN Snapshot(done[1], first, styles, done[2]) ELSE styles
           trips == Trips(cost)
           kept == RememberProperty(done[1], c, n, Digest(dom, memo, n), p, Answer(done[2], n),
                                    first.early)
       IN /\ dom' = done[1] /\ styled' = done[2]
          /\ memo' = IF ShouldSnapshot(cost)
                     THEN Remembered(done[1], first, InDocument(done[1])) ELSE first
          /\ styles' = [kept EXCEPT !.bounded = trips]
          /\ history' = [history EXCEPT !.seededStyles = IF trips THEN InDocument(dom) ELSE @]
  /\ UNCHANGED <<viewport, geometry>>

\* Bounded, and this node was never resolved: one rebuild for all of them.
SnapshotProperty(n, p) ==
  /\ Misses(n, p) /\ styles.bounded
  /\ LET c == Synced(dom, styles) IN c.entries[n] = None /\ c.snapshot # dom.layout
  /\ \E done \in Ensured(dom, styled, viewport, "sheets", FALSE) :
       LET first == Remembered(dom, memo, {n}) IN
       /\ dom' = done[1] /\ styled' = done[2]
       /\ memo' = Remembered(done[1], first, InDocument(done[1]))
       /\ styles' = RememberProperty(done[1], Snapshot(done[1], first, styles, done[2]), n,
                                     Digest(done[1], first, n), p, Answer(done[2], n), first.early)
  /\ UNCHANGED <<viewport, geometry, history>>

\* bounded_computed_style_property: the inline value, what is known of it
\* under any digest, or the initial value of the property.
KnownProperty(c, n, p) ==
  /\ c.entries[n] # None
  /\ \/ c.entries[n][1].props[p] # None /\ c.entries[n][1].props[p][1] # None
     \/ c.entries[n][1].full # None
BoundedProperty(n, p) ==
  /\ Misses(n, p) /\ styles.bounded
  /\ Digests(n)
  /\ LET c == Synced(dom, styles)
         Put(v) == RememberProperty(dom, c, n, Digest(dom, memo, n), p, v, memo'.early)
     IN
       /\ c.entries[n] # None \/ c.snapshot = dom.layout
       /\ CASE p = "inline" /\ dom.tree[n].style # 0 ->
                 styles' = Put(<<"inline">>)
            [] ~(p = "inline" /\ dom.tree[n].style # 0) /\ KnownProperty(c, n, p) -> styles' = c
            [] OTHER -> styles' = Put(Default)
  /\ UNCHANGED <<dom, viewport, styled, geometry, history>>

-----------------------------------------------------------------------------
(* Geometry.                                                               *)

SyncedBoxes(d, g) ==
  IF g.forget = d.forget THEN g
  ELSE [g EXCEPT !.forget = d.forget, !.known = [n \in Ids |-> "none"]]
Box(s, n) == IF n \in DOMAIN s.view THEN "box" ELSE "null"
HasCurrentLayout ==
  /\ styled.laidOut
  /\ \E mode \in {"full", "sheets"} : Hit(dom, styled, viewport, mode, FALSE)

ReadDetachedGeometry(n) ==
  /\ StyleTarget(n) /\ ~IsConnected(dom, n)
  /\ geometry' = [SyncedBoxes(dom, geometry) EXCEPT !.known[n] = "none"]
  /\ history' = [history EXCEPT !.seededBoxes = @ \ {n}]
  /\ UNCHANGED <<dom, memo, viewport, styled, styles>>

\* element_geometry from the current layout
ReadCurrentGeometry(n) ==
  /\ StyleTarget(n) /\ IsConnected(dom, n) /\ HasCurrentLayout
  /\ geometry' = [SyncedBoxes(dom, geometry) EXCEPT !.known[n] = Box(styled, n)]
  /\ UNCHANGED <<dom, memo, viewport, styled, styles, history>>

\* element_geometry by a forced layout, which may snapshot every element and
\* trip the bounded mode
ForceGeometry(n) ==
  /\ StyleTarget(n) /\ IsConnected(dom, n)
  /\ ~HasCurrentLayout /\ ~geometry.bounded
  /\ \E done \in Ensured(dom, styled, viewport, "sheets", FALSE), cost \in Costs :
       LET s == LaidOut(done[2])
           g == SyncedBoxes(dom, geometry)
           trips == Trips(cost)
       IN /\ dom' = done[1] /\ styled' = s
          /\ geometry' = [g EXCEPT !.bounded = trips,
               !.known = [m \in Ids |->
                  IF m = n \/ (ShouldSnapshot(cost) /\ m \in InDocument(dom))
                  THEN Box(s, m) ELSE g.known[m]]]
          /\ history' = [history EXCEPT !.seededBoxes = IF trips THEN InDocument(dom) ELSE @]
  /\ UNCHANGED <<memo, viewport, styles>>

\* The deadline backstop: what is known is returned as it is.
BoundedGeometry(n) ==
  /\ StyleTarget(n) /\ IsConnected(dom, n)
  /\ ~HasCurrentLayout /\ geometry.bounded
  /\ geometry' = SyncedBoxes(dom, geometry)
  /\ UNCHANGED <<dom, memo, viewport, styled, styles, history>>

\* exact_element_geometry and elements_at_point keep nothing.
ExactGeometry ==
  /\ ~HasCurrentLayout
  /\ \E done \in Ensured(dom, styled, viewport, "sheets", FALSE) :
       dom' = done[1] /\ styled' = LaidOut(done[2])
  /\ UNCHANGED <<memo, viewport, styles, geometry, history>>

-----------------------------------------------------------------------------
(* Mutations and loads.                                                    *)

\* A move that the versions do not see, by the code's own rules: scripts do
\* not count, though selectors count them among siblings; the effect is judged
\* where the node was, its stylesheets where it is.
Crosses(t, u, c) ==
  \/ \E m \in DOMAIN t : t[m].kind = "script" /\ (m = c \/ t[m].up # u[m].up)
  \/ NodeAffectsLayout(t, c) # NodeAffectsLayout(u, c)
  \/ MutationAffectsStylesheets(t, c) /\ ~MutationAffectsStylesheets(u, c)
Moves(c, d) ==
  /\ dom' = d
  /\ history' = [history EXCEPT !.crossed = @ \/ Crosses(dom.tree, d.tree, c)]
Changes(d) ==
  /\ dom' = d /\ d # dom
  /\ history' = IF d.forget = dom.forget THEN history
                ELSE [history EXCEPT !.seededStyles = {}, !.seededBoxes = {}]

\* Text the budget refuses after the children have gone.
Fills(n, v) ==
  /\ dom' = SetTextContent(dom, n, v) /\ dom' # dom
  /\ history' = [history EXCEPT !.crossed =
       @ \/ (v # Nothing /\ dom.tree[n].kind \in Elements /\ ~Affordable(dom, 1))]

\* bound: nothing but text is put into a style or a script, by a move or as
\* innerHTML, which a parser takes as text there.
Mutate ==
  /\ dom.mut < MaxMutations
  /\ \E n \in DOMAIN dom.tree :
       \/ /\ dom.tree[n].kind \in ReadKinds
          /\ \/ \E v \in {0, 1, 3} : Changes(SetStyle(dom, n, v))
             \/ \E v \in 0..1 : Changes(SetMark(dom, n, v))
       \/ /\ dom.tree[n].kind \in ReadKinds
          /\ \E f \in Fragments :
               /\ dom.next + Len(f) <= MaxId + 1
               /\ dom.tree[n].kind = "style" => \A i \in DOMAIN f : f[i].kind = "text"
               /\ Changes(SetInnerHtml(dom, n, f))
       \/ /\ dom.tree[n].kind # "doc" /\ dom.next <= MaxId
          /\ \E v \in Nothing..1 :
               (v = 1 => MutationAffectsStylesheets(dom.tree, n)) /\ Fills(n, v)
       \/ \E p \in DOMAIN dom.tree :
            /\ MayHold(dom.tree, p, n)
            /\ dom.tree[p].kind \in {"style", "script"} => dom.tree[n].kind = "text"
            /\ \/ Moves(n, AppendChild(dom, p, n))
               \/ \E r \in ToSet(dom.tree[p].kids) \ {n} :
                    \/ Moves(n, InsertBefore(dom, p, n, r))
                    \/ Moves(n, ReplaceChild(dom, n, r))
       \/ dom.tree[n].up # 0 /\ Moves(n, RemoveChild(dom, n))
  /\ UNCHANGED pageVars

\* New nodes are loose; nothing the page keeps depends on them.
\* bound: they are made before the first read and the first mutation, and
\* leave two ids.
Make ==
  /\ reading.left = MaxReads /\ dom.mut = Blank.mut + 1 /\ dom.next + 2 <= MaxId
  /\ \/ \E k \in Kinds : dom' = Create(dom, k, 0)
     \/ \E n \in DOMAIN dom.tree, deep \in BOOLEAN :
          /\ dom.tree[n].kind \in ReadKinds
          /\ dom.next + Cardinality(Subtree(dom.tree, n)) <= MaxId + 1
          /\ dom' = CloneNode(dom, n, deep)
  /\ UNCHANGED <<viewport, styled, styles, geometry, history>>

\* invalidate_display_list_cache, by a new loader, a new engine factory or a load
Invalidated(d) ==
  styled' = Empty /\ styles' = NoStyles(d) /\ geometry' = NoGeometry(d)
SetLoaderOrFactory ==
  /\ Invalidated(dom)
  /\ history' = [NoHistory EXCEPT !.crossed = history.crossed]
  /\ UNCHANGED <<dom, memo, viewport>>
LoadHtml ==
  /\ dom.mut < MaxMutations
  /\ \E t \in Documents :
       /\ dom.next + Cardinality(DOMAIN t) <= MaxId + 1
       /\ dom' = Parse(dom, t)
  /\ Invalidated(dom)
  /\ history' = NoHistory
  /\ UNCHANGED viewport

Read ==
  \/ reading.asks = "styles" /\ \E n \in Ids, p \in Props :
       ReadCurrentProperty(n, p) \/ ForceProperty(n, p) \/ SnapshotProperty(n, p) \/ BoundedProperty(n, p)
  \/ reading.asks = "styles" /\ \E n \in Ids : ReadDetachedStyle(n) \/ ReadStyle(n) \/ ReuseStyle(n)
  \/ reading.asks = "boxes" /\ \E n \in Ids :
       \/ ReadDetachedGeometry(n) \/ ReadCurrentGeometry(n) \/ ForceGeometry(n) \/ BoundedGeometry(n)
  \/ reading.asks = "boxes" /\ ExactGeometry

\* bounds: how often a behaviour reads, and its first crossing ends it
Reading == ~history.crossed /\ reading.left > 0 /\ reading' = [reading EXCEPT !.left = @ - 1]
\* The memo is cleared where the layout version moves; the code clears it when
\* it is next read.
Writing ==
  /\ ~history.crossed /\ UNCHANGED reading
  /\ memo' = IF dom'.layout = dom.layout THEN memo ELSE NoMemo

Next ==
  \/ Reading /\ Read
  \/ Reading /\ Render
  \/ Reading /\ RebuildFails
  \/ Reading /\ SetLoaderOrFactory
  \/ Mutate /\ Writing
  \/ Make /\ Writing
  \/ LoadHtml /\ Writing
Spec == Init /\ [][Next]_vars

-----------------------------------------------------------------------------
(* Properties.                                                             *)

\* A styled document whose version is the document's shows the document as it
\* is, however it got there: rebuilt, patched from the journal, or kept since
\* before mutations that were judged not to matter
\* (ensure_styled_document, page.cpp:1215).  The moves the marking rules do not
\* see are set apart; they are described in the README.
StyledIsFresh ==
  styled.valid /\ styled.version = dom.layout /\ ~history.crossed
    => styled.view = LayoutView(dom)

\* While no bounded mode is on, whatever a read would take from the cache is
\* what the cascade gives now, across any number of versions
\* (try_reuse_computed_style_property, page.cpp:947).  Set apart: the moves
\* above, and entries whose digest, or a remembered level in it, is older than
\* the scan its stylesheets call for.
ReusesOnlyTruth(n) ==
  LET e == styles.entries[n][1]
      truth == Cascade(LayoutView(dom), n, viewport)
  IN /\ ReusableFull(dom, memo, styles, n) => e.full = None \/ e.full[1] = truth
     /\ \A p \in Props : ReusableProperty(dom, memo, styles, n, p) /\ e.props[p] # None
                          => e.props[p][1] = truth
ReuseIsSound ==
  ~styles.bounded /\ ~history.crossed =>
    \A n \in InDocument(dom) :
      styles.entries[n] # None /\ ~styles.entries[n][1].mixed => ReusesOnlyTruth(n)

\* The same with nothing set apart: "identical digest => identical cascade
\* result" (dom.hpp:159).  It does not hold.
SameDigestSameStyle ==
  ~styles.bounded => \A n \in InDocument(dom) : styles.entries[n] # None => ReusesOnlyTruth(n)

\* When a bounded mode trips, every element of the document has been measured,
\* and stays known until a detached read or a forgotten id drops it, so the
\* backstop does not answer for it from nothing (page.cpp:1480 and 1528).
BoundedModeIsSeeded ==
  /\ styles.bounded /\ styles.forget = dom.forget =>
       \A n \in history.seededStyles : IsConnected(dom, n) => styles.entries[n] # None
  /\ geometry.bounded /\ geometry.forget = dom.forget =>
       \A n \in history.seededBoxes : IsConnected(dom, n) => geometry.known[n] # "none"

\* The retained records cover exactly the versions after the base, one each,
\* so a journal that reads as complete is complete (dom_document.hpp:55-60).
JournalCovers ==
  /\ Len(dom.journal) <= JournalCap
  /\ [i \in DOMAIN dom.journal |-> dom.journal[i].version] =
       [i \in 1..(dom.layout - dom.base) |-> dom.base + i]

\* An id, once given, never names another node: not after its node is
\* forgotten, not in the next document (parse, dom_document.cpp:1050).
IdsAreNeverReused ==
  [][/\ \A n \in DOMAIN dom'.tree : n >= dom.next \/ n \in DOMAIN dom.tree
     /\ LoadHtml => DOMAIN dom'.tree \cap DOMAIN dom.tree = {}]_vars

\* What is known of an element in bounded mode is not forgotten while it stays
\* in the document and no id is: "inline value -> last-known cached value"
\* (page.cpp:1024).  It does not hold: a read of an inline value starts a new
\* entry and drops what was known of the other properties.
KnownStyleIsKept ==
  [][styles.bounded /\ styles'.bounded /\ styles'.forget = styles.forget =>
       \A n \in InDocument(dom) \cap InDocument(dom'), p \in Props :
         KnownProperty(styles, n, p) => KnownProperty(styles', n, p)]_vars
=============================================================================
