----------------------------- MODULE DomDocument -----------------------------
(***************************************************************************)
(* DomDocument (src/src/dom_document.cpp): a Lexbor tree, ids that are     *)
(* never reused, and the versions and the journal from which the page      *)
(* decides what it may keep.  A document is a record d and each            *)
(* operation of the class an operator from documents to documents; what    *)
(* throws before it changes anything returns d.                            *)
(*   d.tree    live id -> node       d.next     next_id                    *)
(*   d.mut     mutation_version      d.layout   layout_mutation_version    *)
(*   d.sheets  stylesheet_generation d.forget   forget_version             *)
(*   d.base, d.journal  the journal  d.created  created_nodes              *)
(*   d.sens    a service attribute is listed as layout sensitive           *)
(* The dirty epochs only label trace events and are left out.              *)
(* A node: kind; style, its inline style (0 none, 1 plain, 3 one     *)
(* that needs a new tree); mark, a service attribute (0 absent); val, a    *)
(* text's contents; up and kids, its place.  In a stylesheet the text 1    *)
(* has a selector on the service attribute, 0 has none.                    *)
(***************************************************************************)
EXTENDS Integers, Sequences, FiniteSets, SequencesExt, Keeping

CONSTANTS MaxId,        \* bound: ids a behaviour may use
          JournalCap,   \* kLayoutJournalCap
          MaxCreated    \* max_created_nodes, 0 for no limit

ASSUME DomAssumption ==
  /\ MaxId \in Nat \ {0}
  /\ JournalCap \in Nat \ {0}
  /\ MaxCreated \in Nat

Ids == 1..MaxId
Nothing == -1   \* the empty string
Elements == {"elem", "head", "style", "script", "template"}
NodeKinds == Elements \cup {"doc", "text", "comment"}
Node(kind, val) ==
  [kind |-> kind, style |-> 0, mark |-> 0, val |-> val, up |-> 0, kids |-> <<>>]

-----------------------------------------------------------------------------
(* The tree.                                                               *)

\* A node and its ancestors, the node first.
Chain(t, n) ==
  LET chain[m \in DOMAIN t \cup {0}] ==
        IF m = 0 THEN <<>> ELSE <<m>> \o chain[t[m].up]
  IN chain[n]
Covers(t, n, m) == n \in ToSet(Chain(t, m))
Subtree(t, n) == {m \in DOMAIN t : Covers(t, n, m)}
IsConnected(d, n) == n \in DOMAIN d.tree /\ Covers(d.tree, d.root, n)
IndexOf(s, e) == CHOOSE i \in DOMAIN s : s[i] = e
ElementsOf(t) == {m \in DOMAIN t : t[m].kind \in Elements}
ElementKids(t, n) == Kept(t[n].kids, ElementsOf(t))

Detach(t, c) ==
  IF t[c].up = 0 THEN t
  ELSE [t EXCEPT ![t[c].up].kids = Kept(@, DOMAIN t \ {c}), ![c].up = 0]
PlaceAt(t, p, c, i) ==
  [t EXCEPT ![p].kids = InsertAt(@, i, c), ![c].up = p]

\* What lxb_dom_node_append_child and its kin accept.
MayHold(t, p, c) ==
  /\ t[p].kind \in Elements \cup {"doc"}
  /\ t[c].kind # "doc"
  /\ ~Covers(t, c, p)

-----------------------------------------------------------------------------
(* What a mutation touches.                                                *)

NodeAffectsLayout(t, n) ==
  /\ t[n].kind # "comment"
  /\ ~(t[n].kind = "text" /\ t[n].up # 0 /\ t[t[n].up].kind = "head")
  /\ \A m \in ToSet(Chain(t, n)) : t[m].kind # "script"

MutationAffectsStylesheets(t, n) ==
  \E m \in ToSet(Chain(t, n)) \cup Subtree(t, n) : t[m].kind = "style"

MutantRecordLayoutMutation(d, record) ==
  [d EXCEPT !.journal = IF Len(@) < JournalCap THEN Append(@, record)
                        ELSE Append(Tail(@), record)]

RecordLayoutMutation(d, record) ==
  LET journal == Append(d.journal, record)
  IN IF Len(journal) <= JournalCap THEN [d EXCEPT !.journal = journal]
     ELSE [d EXCEPT !.base = Head(journal).version, !.journal = Tail(journal)]

\* inline: the mutation is a write of this node's style; rebuild: its old or
\* new declarations need a new tree.
MarkMutated(d, affects, n, sheets, inline, rebuild) ==
  LET m == [d EXCEPT !.mut = @ + 1]
      l == [m EXCEPT !.layout = @ + 1, !.sheets = IF sheets THEN @ + 1 ELSE @]
  IN IF ~affects THEN m
     ELSE RecordLayoutMutation(l,
            [version |-> l.layout, node |-> n, inline |-> inline, rebuild |-> rebuild])

Affordable(d, more) == MaxCreated = 0 \/ more <= MaxCreated - d.created
Charge(d, more) == IF MaxCreated = 0 THEN d ELSE [d EXCEPT !.created = @ + more]

\* The node gets an id when it is made; the code gives one when it is asked.
Adopt(d, node) ==
  [d EXCEPT !.tree = [m \in DOMAIN @ \cup {d.next} |-> IF m = d.next THEN node ELSE @[m]],
            !.next = @ + 1]

-----------------------------------------------------------------------------
(* The operations.                                                         *)

Create(d, kind, val) ==
  IF Affordable(d, 1) THEN Adopt(Charge(d, 1), Node(kind, val)) ELSE d

\* The style attribute, set or (0) removed; removing what is not there is no
\* mutation.
SetStyle(d, n, v) ==
  IF v = 0 /\ d.tree[n].style = 0 THEN d
  ELSE MarkMutated([d EXCEPT !.tree[n].style = v], NodeAffectsLayout(d.tree, n), n,
                   d.tree[n].kind = "style", d.tree[n].kind # "style",
                   3 \in {v, d.tree[n].style})

\* The service attribute; it affects layout only while a selector names it.
SetMark(d, n, v) ==
  IF v = 0 /\ d.tree[n].mark = 0 THEN d
  ELSE MarkMutated([d EXCEPT !.tree[n].mark = v],
                   NodeAffectsLayout(d.tree, n) /\ d.sens, n,
                   d.tree[n].kind = "style", FALSE, FALSE)

Emptied(t, n) ==
  [m \in DOMAIN t |->
    IF m = n THEN [t[m] EXCEPT !.kids = <<>>]
    ELSE IF t[m].up = n THEN [t[m] EXCEPT !.up = 0] ELSE t[m]]

\* The children go before the text that replaces them is paid for: when the
\* budget refuses it, they are gone and no version has moved.
SetTextContent(d, n, v) ==
  LET sheets == MutationAffectsStylesheets(d.tree, n)
      empty == [d EXCEPT !.tree = Emptied(@, n)]
      text == Adopt(Charge(empty, 1), Node("text", v))
      filled == [text EXCEPT !.tree = PlaceAt(@, n, d.next, 1)]
  IN CASE d.tree[n].kind \in {"text", "comment"} ->
            MarkMutated([d EXCEPT !.tree[n].val = v], NodeAffectsLayout(d.tree, n), n,
                        sheets, FALSE, FALSE)
       [] d.tree[n].kind \notin {"text", "comment"} /\ v = Nothing ->
            IF d.tree[n].kids = <<>> THEN d
            ELSE MarkMutated(empty, NodeAffectsLayout(d.tree, n), n, sheets, FALSE, FALSE)
       [] OTHER ->
            IF ~Affordable(d, 1) THEN empty
            ELSE MarkMutated(filled, NodeAffectsLayout(d.tree, n), n, sheets, FALSE, FALSE)

\* The new contents are one node or none.  The old ones lose their ids, the
\* mutation is recorded, and only then the new ones are charged.
SetInnerHtml(d, n, nodes) ==
  LET old == Subtree(d.tree, n) \ {n}
      kept == [m \in DOMAIN d.tree \ old |->
                IF m = n THEN [d.tree[m] EXCEPT !.kids = <<>>] ELSE d.tree[m]]
      bare == [d EXCEPT !.tree = kept, !.forget = @ + Cardinality(old)]
      full == IF nodes = <<>> THEN bare
              ELSE LET e == Adopt(bare, nodes[1])
                   IN [e EXCEPT !.tree = PlaceAt(@, n, d.next, 1)]
      marked == MarkMutated(full, NodeAffectsLayout(full.tree, n), n,
                  \/ \E m \in old : d.tree[m].kind = "style"
                  \/ MutationAffectsStylesheets(full.tree, n), FALSE, FALSE)
  IN IF Affordable(d, Len(nodes)) THEN Charge(marked, Len(nodes)) ELSE marked

\* Both ways of inserting: the effect is judged by where the child was, the
\* stylesheets by where it is now.
PlaceChild(d, p, c, before) ==
  LET affects == NodeAffectsLayout(d.tree, p) /\ NodeAffectsLayout(d.tree, c)
      loose == Detach(d.tree, c)
      at == IF before = 0 THEN Len(loose[p].kids) + 1
            ELSE CHOOSE i \in DOMAIN loose[p].kids : loose[p].kids[i] = before
      placed == [d EXCEPT !.tree = PlaceAt(loose, p, c, at)]
  IN MarkMutated(placed, affects, c,
                 MutationAffectsStylesheets(placed.tree, c), FALSE, FALSE)
AppendChild(d, p, c) == PlaceChild(d, p, c, 0)
InsertBefore(d, p, c, r) == PlaceChild(d, p, c, r)

RemoveChild(d, c) ==
  LET p == d.tree[c].up
      affects == NodeAffectsLayout(d.tree, p) /\ NodeAffectsLayout(d.tree, c)
      sheets == MutationAffectsStylesheets(d.tree, c)
  IN MarkMutated([d EXCEPT !.tree = Detach(@, c)], affects, c, sheets, FALSE, FALSE)

ReplaceChild(d, c, r) ==
  LET p == d.tree[r].up
      affects == /\ NodeAffectsLayout(d.tree, p)
                 /\ NodeAffectsLayout(d.tree, c) \/ NodeAffectsLayout(d.tree, r)
      sheets == MutationAffectsStylesheets(d.tree, r)
      loose == Detach(d.tree, c)
      at == CHOOSE i \in DOMAIN loose[p].kids : loose[p].kids[i] = r
      placed == [d EXCEPT !.tree = Detach(PlaceAt(loose, p, c, at), r)]
  IN MarkMutated(placed, affects, c,
                 sheets \/ MutationAffectsStylesheets(placed.tree, c), FALSE, FALSE)

CloneNode(d, n, deep) ==
  LET copied == IF deep THEN Subtree(d.tree, n) ELSE {n}
      New(m) == d.next + Cardinality({k \in copied : k < m})
      Copy(m) == [d.tree[m] EXCEPT
                    !.up = IF m = n THEN 0 ELSE New(@),
                    !.kids = IF deep THEN [i \in DOMAIN @ |-> New(@[i])] ELSE <<>>]
      new == d.next .. d.next + Cardinality(copied) - 1
  IN IF ~Affordable(d, Cardinality(copied)) THEN d
     ELSE [Charge(d, Cardinality(copied)) EXCEPT
             !.tree = [m \in DOMAIN @ \cup new |->
                         IF m \in new THEN Copy(CHOOSE k \in copied : New(k) = m) ELSE @[m]],
             !.next = @ + Cardinality(copied)]

\* A document as Lexbor parses it, its nodes numbered from 1.
Numbered(t, from) ==
  [m \in {from + n : n \in DOMAIN t} |->
    [t[m - from] EXCEPT !.up = IF @ = 0 THEN 0 ELSE from + @,
                        !.kids = [i \in DOMAIN @ |-> from + @[i]]]]

\* Ids and versions are carried into the new document.
MutantParse(d, t) ==
  [tree |-> t, root |-> 1, next |-> 1 + Cardinality(DOMAIN t),
   mut |-> d.mut + 1, layout |-> d.layout + 1, sheets |-> d.sheets + 1,
   forget |-> d.forget + 1, base |-> d.layout + 1, journal |-> <<>>,
   created |-> 0, sens |-> FALSE]
Parse(d, t) ==
  [tree |-> Numbered(t, d.next - 1), root |-> d.next, next |-> d.next + Cardinality(DOMAIN t),
   mut |-> d.mut + 1, layout |-> d.layout + 1, sheets |-> d.sheets + 1,
   forget |-> d.forget + 1, base |-> d.layout + 1, journal |-> <<>>,
   created |-> 0, sens |-> FALSE]

Blank == [next |-> 1, mut |-> 1, layout |-> 1, sheets |-> 1, forget |-> 1]

\* layout_mutations_since
CompleteSince(d, version) == version >= d.base
RecordsSince(d, version) == Kept(d.journal, {r \in ToSet(d.journal) : r.version > version})

-----------------------------------------------------------------------------
(* The layout view and the digest.                                         *)

\* The texts of the connected stylesheets.
SheetTexts(d) ==
  {d.tree[m].val : m \in {k \in DOMAIN d.tree :
      /\ d.tree[k].kind = "text" /\ IsConnected(d, k)
      /\ \E a \in ToSet(Chain(d.tree, k)) : d.tree[a].kind = "style"}}
SelectsMark(d) == 1 \in SheetTexts(d)

\* visit_layout_tree, as far as a box or a style depends on it: the nodes the
\* engine is shown, without comments, templates and what scripts hold.
Shown(d) ==
  {m \in DOMAIN d.tree :
     /\ IsConnected(d, m)
     /\ d.tree[m].kind = "script" \/ NodeAffectsLayout(d.tree, m)
     /\ \A a \in ToSet(Chain(d.tree, m)) : d.tree[a].kind # "template"}
LayoutView(d) ==
  LET shown == Shown(d)
      selects == SelectsMark(d)
  IN [m \in shown |->
       [d.tree[m] EXCEPT !.kids = Kept(@, shown),
                         !.mark = IF selects THEN @ ELSE 0]]

\* layout_input_digest with its hash taken as injective, for one viewport.  The
\* contexts of the levels below the nodes it passes are remembered until the
\* layout version moves, whatever a scan does to what digests fold:
\*   memo.levels  node -> the contexts of its child elements
\*   memo.early   (history) a level was folded before the scan its stylesheets
\*                call for
Folds(d, n) == <<d.tree[n].kind, IF d.sens THEN d.tree[n].mark ELSE 0>>
ChildPresence(t, n) ==
  {t[m].kind = "text" : m \in {k \in ToSet(t[n].kids) : t[k].kind # "comment"}}
FoldElementSelectors(d, n) == <<Folds(d, n), ChildPresence(d.tree, n)>>
NoMemo == [early |-> FALSE, levels |-> <<>>]
LevelContext(d, p) ==
  LET level == ElementKids(d.tree, p)
      folds == [i \in DOMAIN level |-> FoldElementSelectors(d, level[i])]
  IN [m \in ToSet(level) |-> <<folds, IndexOf(level, m)>>]
LevelContextFor(d, memo, n) ==
  LET p == d.tree[n].up
      context == IF p \in DOMAIN memo.levels THEN memo.levels[p] ELSE LevelContext(d, p)
  IN IF p = 0 THEN <<>> ELSE IF n \in DOMAIN context THEN context[n] ELSE <<<<>>, 0>>
LayoutInputDigest(d, memo, n, viewport) ==
  LET chain == Kept(Chain(d.tree, n), ElementsOf(d.tree))
  IN <<d.sheets, viewport,
       [i \in DOMAIN chain |-> <<FoldElementSelectors(d, chain[i]), d.tree[chain[i]].style,
                                 LevelContextFor(d, memo, chain[i])>>]>>

\* What digests of the nodes of S leave in the memo.
Remembered(d, memo, S) ==
  LET passed == UNION {ToSet(Kept(Chain(d.tree, n), ElementsOf(d.tree))) : n \in S}
      parents == {d.tree[m].up : m \in passed} \ {0}
  IN [early |-> memo.early \/ d.sens # SelectsMark(d),
      levels |-> [p \in DOMAIN memo.levels \cup parents |->
                    IF p \in DOMAIN memo.levels THEN memo.levels[p] ELSE LevelContext(d, p)]]
=============================================================================
