--------------------------- MODULE StyleCacheProofs ---------------------------
(***************************************************************************)
(* Theorems about the document under StyleCache, for any documents, caps   *)
(* and budgets: the journal never reads as complete when it is not, no id  *)
(* is ever given twice, a styled document whose versions are the           *)
(* document's shows the document as it is, and a style that is reused is   *)
(* what the cascade would make now.                                        *)
(***************************************************************************)
EXTENDS StyleCache, InductionLemmas, FiniteSetTheorems, TLAPS

Fields == {"tree", "root", "next", "mut", "layout", "sheets", "forget", "base",
           "journal", "created", "sens"}

\* The records are those of the versions after the base, in their order.
Journaled(d) ==
  /\ d.layout \in Nat /\ d.base \in Nat /\ d.base <= d.layout
  /\ \E S : d.journal \in Seq(S)
  /\ Len(d.journal) = d.layout - d.base
  /\ \A i \in 1..Len(d.journal) : d.journal[i].version = d.base + i
  /\ Len(d.journal) <= JournalCap
\* Every id that is in use has been given.
Given(d) ==
  /\ d.next \in Nat \ {0}
  /\ DOMAIN d.tree \subseteq 1..(d.next - 1)
Sound(d) == DOMAIN d = Fields /\ Journaled(d) /\ Given(d)

\* e's ids are d's or new ones.
NewIds(d, e) ==
  /\ e.next >= d.next
  /\ \A n \in DOMAIN e.tree : n >= d.next \/ n \in DOMAIN d.tree
Follows(d, e) == Sound(e) /\ NewIds(d, e)

\* e is d with another tree and perhaps more ids; the journal has not moved.
Edits(d, e) ==
  /\ DOMAIN e = DOMAIN d
  /\ e.layout = d.layout /\ e.base = d.base /\ e.journal = d.journal
  /\ e.next \in Nat /\ e.next >= d.next
  /\ DOMAIN e.tree \subseteq DOMAIN d.tree \cup d.next..(e.next - 1)

LEMMA SoundIsCovered == Sound(dom) => JournalCovers
<1> SUFFICES ASSUME Sound(dom) PROVE JournalCovers
  OBVIOUS
<1> DEFINE j == dom.journal
<1>1. PICK S : j \in Seq(S)
  BY DEF Sound, Journaled
<1>2. DOMAIN j = 1..(dom.layout - dom.base)
  BY <1>1 DEF Sound, Journaled
<1>3. \A i \in DOMAIN j : j[i].version = dom.base + i
  BY <1>1, <1>2 DEF Sound, Journaled
<1>4. [i \in DOMAIN j |-> j[i].version]
        = [i \in 1..(dom.layout - dom.base) |-> dom.base + i]
  BY <1>2, <1>3
<1>5. QED
  BY <1>4 DEF Sound, Journaled, JournalCovers

LEMMA EditFollows ==
  ASSUME NEW d, Sound(d), NEW e, Edits(d, e)
  PROVE  Follows(d, e)
<1>1. Journaled(e)
  BY DEF Sound, Journaled, Edits
<1>2. Given(e) /\ NewIds(d, e)
  BY DEF Sound, Given, NewIds, Edits
<1>3. QED
  BY <1>1, <1>2 DEF Sound, Follows, Edits

LEMMA FollowsOn ==
  ASSUME NEW d, NEW e, NEW f, Sound(d), Follows(d, e), Follows(e, f)
  PROVE  Follows(d, f)
BY DEF Follows, Sound, Given, NewIds

\* mark_mutated: a record for every layout version, and the base moves with the
\* record that is dropped.
LEMMA MarkFollows ==
  ASSUME NEW d, Sound(d), NEW affects \in BOOLEAN, NEW n, NEW sheets, NEW inline, NEW rebuild
  PROVE  Follows(d, MarkMutated(d, affects, n, sheets, inline, rebuild))
<1> DEFINE m == [d EXCEPT !.mut = @ + 1]
           l == [m EXCEPT !.layout = @ + 1, !.sheets = IF sheets THEN @ + 1 ELSE @]
           r == [version |-> l.layout, node |-> n, inline |-> inline, rebuild |-> rebuild]
           j == Append(l.journal, r)
           e == MarkMutated(d, affects, n, sheets, inline, rebuild)
<1>1. Edits(d, m)
  <2>1. /\ DOMAIN m = DOMAIN d /\ m.layout = d.layout /\ m.base = d.base
        /\ m.journal = d.journal /\ m.next = d.next /\ m.tree = d.tree
    BY DEF Sound, Fields
  <2> HIDE DEF m
  <2>2. QED
    BY <2>1 DEF Sound, Given, Edits
<1>2. CASE ~affects
  <2>1. e = m
    BY <1>2 DEF MarkMutated
  <2>2. QED
    BY <1>1, <2>1, EditFollows
<1>3. /\ DOMAIN l = Fields /\ l.layout = d.layout + 1 /\ l.base = d.base
      /\ l.journal = d.journal /\ l.next = d.next /\ l.tree = d.tree
  BY DEF Sound, Fields
<1>4. r.version = d.layout + 1
  BY <1>3
<1>5. PICK S : d.journal \in Seq(S)
  BY DEF Sound, Journaled
<1> HIDE DEF m, l
<1>6. /\ j \in Seq(S \cup {r}) /\ Len(j) = Len(d.journal) + 1
      /\ \A i \in 1..Len(j) : j[i].version = d.base + i
  <2>1. d.journal \in Seq(S \cup {r}) /\ j = Append(d.journal, r)
    BY <1>3, <1>5
  <2> HIDE DEF r, j
  <2>2. /\ j \in Seq(S \cup {r}) /\ Len(j) = Len(d.journal) + 1
        /\ j[Len(d.journal) + 1] = r
        /\ \A i \in 1..Len(d.journal) : j[i] = d.journal[i]
    BY <2>1
  <2>3. Len(d.journal) \in Nat /\ Len(d.journal) = d.layout - d.base
    BY <1>5 DEF Sound, Journaled
  <2>4. \A i \in 1..Len(d.journal) : j[i].version = d.base + i
    BY <2>2 DEF Sound, Journaled
  <2>5. j[Len(d.journal) + 1].version = d.base + (Len(d.journal) + 1)
    BY <1>4, <2>2, <2>3 DEF Sound, Journaled
  <2>6. QED
    BY <2>2, <2>3, <2>4, <2>5
<1> HIDE DEF r, j
<1>7. CASE affects /\ Len(j) <= JournalCap
  <2>1. e = [l EXCEPT !.journal = j]
    BY <1>7 DEF MarkMutated, RecordLayoutMutation, m, l, r, j
  <2>2. /\ DOMAIN e = Fields /\ e.layout = d.layout + 1 /\ e.base = d.base
        /\ e.journal = j /\ e.next = d.next /\ e.tree = d.tree
    BY <1>3, <2>1 DEF Fields
  <2> HIDE DEF e
  <2>3. Journaled(e)
    BY <1>6, <1>7, <2>2 DEF Sound, Journaled
  <2>4. Follows(d, e)
    BY <2>2, <2>3 DEF Sound, Given, NewIds, Follows
  <2>5. QED
    BY <2>4 DEF e
<1>8. CASE affects /\ ~(Len(j) <= JournalCap)
  <2>1. e = [l EXCEPT !.base = Head(j).version, !.journal = Tail(j)]
    BY <1>8 DEF MarkMutated, RecordLayoutMutation, m, l, r, j
  <2>2. Head(j).version = d.base + 1
    <3>1. Len(j) >= 1 /\ Head(j) = j[1]
      BY <1>6 DEF Sound, Journaled
    <3>2. QED
      BY <1>6, <3>1
  <2>3. /\ DOMAIN e = Fields /\ e.layout = d.layout + 1 /\ e.base = d.base + 1
        /\ e.journal = Tail(j) /\ e.next = d.next /\ e.tree = d.tree
    BY <1>3, <2>1, <2>2 DEF Fields
  <2>4. /\ Tail(j) \in Seq(S \cup {r}) /\ Len(Tail(j)) = Len(d.journal)
        /\ \A i \in 1..Len(Tail(j)) : Tail(j)[i].version = d.base + 1 + i
    <3>1. /\ Tail(j) \in Seq(S \cup {r}) /\ Len(Tail(j)) = Len(j) - 1
          /\ \A i \in 1..Len(Tail(j)) : Tail(j)[i] = j[i + 1]
      BY <1>6
    <3>2. Len(d.journal) \in Nat /\ d.base \in Nat
      BY <1>5 DEF Sound, Journaled
    <3>3. ASSUME NEW i \in 1..Len(Tail(j))
          PROVE  Tail(j)[i].version = d.base + 1 + i
      <4>1. i + 1 \in 1..Len(j) /\ Tail(j)[i] = j[i + 1]
        BY <1>6, <3>1, <3>2
      <4>2. j[i + 1].version = d.base + (i + 1)
        BY <1>6, <4>1
      <4>3. QED
        BY <3>1, <3>2, <4>1, <4>2
    <3>4. QED
      BY <1>6, <3>1, <3>2, <3>3
  <2> HIDE DEF e
  <2>5. Journaled(e)
    BY <2>3, <2>4 DEF Sound, Journaled
  <2>6. Follows(d, e)
    BY <2>3, <2>5 DEF Sound, Given, NewIds, Follows
  <2>7. QED
    BY <2>6 DEF e
<1>9. QED
  BY <1>2, <1>7, <1>8

-----------------------------------------------------------------------------
(* What the operations do to the record.                                   *)

LEMMA EditsOn ==
  ASSUME NEW d, Sound(d), NEW e, Edits(d, e), NEW f, Edits(e, f)
  PROVE  Edits(d, f)
BY DEF Sound, Given, Edits

LEMMA EditIsSound ==
  ASSUME NEW d, Sound(d), NEW e, Edits(d, e)
  PROVE  Sound(e)
BY EditFollows DEF Follows

LEMMA MarkAfterEdit ==
  ASSUME NEW d, Sound(d), NEW e, Edits(d, e),
         NEW affects \in BOOLEAN, NEW n, NEW sheets, NEW inline, NEW rebuild
  PROVE  Follows(d, MarkMutated(e, affects, n, sheets, inline, rebuild))
<1>1. Sound(e) /\ Follows(d, e)
  BY EditFollows, EditIsSound
<1>2. Follows(e, MarkMutated(e, affects, n, sheets, inline, rebuild))
  BY <1>1, MarkFollows
<1>3. QED
  BY <1>1, <1>2, FollowsOn

LEMMA TreeEdits ==
  ASSUME NEW d, Sound(d), NEW t, DOMAIN t \subseteq DOMAIN d.tree, NEW f
  PROVE  /\ Edits(d, [d EXCEPT !.tree = t])
         /\ Edits(d, [d EXCEPT !.tree = t, !.forget = f])
<1>1. ASSUME NEW e, e = [d EXCEPT !.tree = t] \/ e = [d EXCEPT !.tree = t, !.forget = f]
      PROVE  /\ DOMAIN e = DOMAIN d /\ e.layout = d.layout /\ e.base = d.base
             /\ e.journal = d.journal /\ e.next = d.next /\ e.tree = t
  BY <1>1 DEF Sound, Fields
<1>2. ASSUME NEW e, e.layout = d.layout, e.base = d.base, DOMAIN e = DOMAIN d,
             e.journal = d.journal, e.next = d.next, e.tree = t
      PROVE  Edits(d, e)
  BY <1>2 DEF Sound, Given, Edits
<1>3. QED
  BY <1>1, <1>2

LEMMA ChargeEdits ==
  ASSUME NEW d, Sound(d), NEW more
  PROVE  Edits(d, Charge(d, more)) /\ Charge(d, more).next = d.next
<1> DEFINE e == Charge(d, more)
<1>1. /\ DOMAIN e = DOMAIN d /\ e.layout = d.layout /\ e.base = d.base
      /\ e.journal = d.journal /\ e.next = d.next /\ e.tree = d.tree
  BY DEF Sound, Fields, Charge
<1> HIDE DEF e
<1>2. QED
  BY <1>1 DEF Sound, Given, Edits, e

LEMMA AdoptEdits ==
  ASSUME NEW d, Sound(d), NEW node
  PROVE  Edits(d, Adopt(d, node))
<1> DEFINE e == Adopt(d, node)
<1>1. /\ DOMAIN e = DOMAIN d /\ e.layout = d.layout /\ e.base = d.base
      /\ e.journal = d.journal /\ e.next = d.next + 1
      /\ DOMAIN e.tree = DOMAIN d.tree \cup {d.next}
  BY DEF Sound, Fields, Adopt
<1> HIDE DEF e
<1>2. QED
  BY <1>1 DEF Sound, Given, Edits, e

LEMMA CreateFollows ==
  ASSUME NEW d, Sound(d), NEW kind, NEW val
  PROVE  Follows(d, Create(d, kind, val))
<1> DEFINE c == Charge(d, 1)
<1>1. Edits(d, c) /\ Sound(c)
  BY ChargeEdits, EditIsSound
<1>2. Edits(d, Adopt(c, Node(kind, val))) /\ Edits(d, d)
  BY <1>1, AdoptEdits, EditsOn DEF Edits, Sound, Given
<1>3. QED
  BY <1>2, EditFollows DEF Create

LEMMA AffectsIsBoolean == ASSUME NEW t, NEW n PROVE NodeAffectsLayout(t, n) \in BOOLEAN
BY DEF NodeAffectsLayout

-----------------------------------------------------------------------------
(* The mutations.                                                          *)

LEMMA SetStyleFollows ==
  ASSUME NEW d, Sound(d), NEW n, NEW v
  PROVE  Follows(d, SetStyle(d, n, v))
<1> DEFINE t == [d.tree EXCEPT ![n].style = v]
<1>1. Edits(d, [d EXCEPT !.tree = t]) /\ Edits(d, d)
  BY TreeEdits DEF Edits, Sound, Given
<1>2. [d EXCEPT !.tree[n].style = v] = [d EXCEPT !.tree = t]
  BY DEF Sound, Fields
<1>3. Edits(d, [d EXCEPT !.tree[n].style = v])
  BY <1>1, <1>2
<1>4. QED
  BY <1>1, <1>3, EditFollows, MarkAfterEdit, AffectsIsBoolean DEF SetStyle

LEMMA SetMarkFollows ==
  ASSUME NEW d, Sound(d), NEW n, NEW v
  PROVE  Follows(d, SetMark(d, n, v))
<1> DEFINE t == [d.tree EXCEPT ![n].mark = v]
<1>1. Edits(d, [d EXCEPT !.tree = t]) /\ Edits(d, d)
  BY TreeEdits DEF Edits, Sound, Given
<1>2. [d EXCEPT !.tree[n].mark = v] = [d EXCEPT !.tree = t]
  BY DEF Sound, Fields
<1>3. Edits(d, [d EXCEPT !.tree[n].mark = v])
  BY <1>1, <1>2
<1>4. (NodeAffectsLayout(d.tree, n) /\ d.sens) \in BOOLEAN
  OBVIOUS
<1>5. QED
  BY <1>1, <1>3, <1>4, EditFollows, MarkAfterEdit DEF SetMark

LEMMA PlaceKeepsIds ==
  ASSUME NEW t, NEW p, NEW c, NEW i
  PROVE  DOMAIN PlaceAt(t, p, c, i) = DOMAIN t /\ DOMAIN Detach(t, c) = DOMAIN t
BY DEF PlaceAt, Detach

LEMMA SetTextContentFollows ==
  ASSUME NEW d, Sound(d), NEW n, NEW v
  PROVE  Follows(d, SetTextContent(d, n, v))
<1> DEFINE empty == [d EXCEPT !.tree = Emptied(@, n)]
           text == Adopt(Charge(empty, 1), Node("text", v))
           filled == [text EXCEPT !.tree = PlaceAt(@, n, d.next, 1)]
           t == [d.tree EXCEPT ![n].val = v]
<1>1. Edits(d, d) /\ Edits(d, empty)
  BY TreeEdits DEF Emptied, Edits, Sound, Given
<1>2. Edits(d, text)
  <2>1. Sound(empty)
    BY <1>1, EditIsSound
  <2>2. Edits(empty, Charge(empty, 1)) /\ Sound(Charge(empty, 1))
    BY <2>1, ChargeEdits, EditIsSound
  <2>3. Edits(Charge(empty, 1), text)
    BY <2>2, AdoptEdits
  <2>4. QED
    BY <1>1, <2>1, <2>2, <2>3, EditsOn
<1>3. Edits(d, filled)
  <2>1. Sound(text)
    BY <1>2, EditIsSound
  <2> HIDE DEF text
  <2>2. DOMAIN PlaceAt(text.tree, n, d.next, 1) = DOMAIN text.tree
    BY PlaceKeepsIds
  <2>3. Edits(text, filled)
    BY <2>1, <2>2, TreeEdits
  <2>4. QED
    BY <1>2, <2>1, <2>3, EditsOn
<1>4. Edits(d, [d EXCEPT !.tree[n].val = v])
  <2>1. [d EXCEPT !.tree[n].val = v] = [d EXCEPT !.tree = t]
    BY DEF Sound, Fields
  <2>2. QED
    BY <2>1, TreeEdits
<1> HIDE DEF empty, text, filled
<1>5. ASSUME NEW e, Edits(d, e), NEW sheets
      PROVE  Follows(d, MarkMutated(e, NodeAffectsLayout(d.tree, n), n, sheets, FALSE, FALSE))
  BY <1>5, MarkAfterEdit, AffectsIsBoolean
<1>6. CASE d.tree[n].kind \in {"text", "comment"}
  BY <1>4, <1>5, <1>6 DEF SetTextContent
<1>7. CASE d.tree[n].kind \notin {"text", "comment"} /\ v = Nothing
  BY <1>1, <1>5, <1>7, EditFollows DEF SetTextContent, empty
<1>8. CASE d.tree[n].kind \notin {"text", "comment"} /\ v # Nothing
  BY <1>1, <1>3, <1>5, <1>8, EditFollows DEF SetTextContent, empty, text, filled
<1>9. QED
  BY <1>6, <1>7, <1>8

LEMMA PlaceChildFollows ==
  ASSUME NEW d, Sound(d), NEW p, NEW c, NEW r
  PROVE  Follows(d, AppendChild(d, p, c)) /\ Follows(d, InsertBefore(d, p, c, r))
<1>1. ASSUME NEW before PROVE Follows(d, PlaceChild(d, p, c, before))
  <2> DEFINE loose == Detach(d.tree, c)
             at == IF before = 0 THEN Len(loose[p].kids) + 1
                   ELSE CHOOSE i \in DOMAIN loose[p].kids : loose[p].kids[i] = before
  <2>1. Edits(d, [d EXCEPT !.tree = PlaceAt(loose, p, c, at)])
    <3> HIDE DEF at
    <3>1. DOMAIN PlaceAt(loose, p, c, at) = DOMAIN d.tree
      BY PlaceKeepsIds
    <3>2. QED
      BY <3>1, TreeEdits
  <2>2. (NodeAffectsLayout(d.tree, p) /\ NodeAffectsLayout(d.tree, c)) \in BOOLEAN
    OBVIOUS
  <2>3. QED
    BY <2>1, <2>2, MarkAfterEdit DEF PlaceChild
<1>2. QED
  BY <1>1 DEF AppendChild, InsertBefore

LEMMA RemoveChildFollows ==
  ASSUME NEW d, Sound(d), NEW c
  PROVE  Follows(d, RemoveChild(d, c))
<1>1. Edits(d, [d EXCEPT !.tree = Detach(@, c)])
  BY TreeEdits, PlaceKeepsIds
<1>2. (NodeAffectsLayout(d.tree, d.tree[c].up) /\ NodeAffectsLayout(d.tree, c)) \in BOOLEAN
  OBVIOUS
<1>3. QED
  BY <1>1, <1>2, MarkAfterEdit DEF RemoveChild

LEMMA ReplaceChildFollows ==
  ASSUME NEW d, Sound(d), NEW c, NEW r
  PROVE  Follows(d, ReplaceChild(d, c, r))
<1> DEFINE p == d.tree[r].up
           loose == Detach(d.tree, c)
           at == CHOOSE i \in DOMAIN loose[p].kids : loose[p].kids[i] = r
           affects == /\ NodeAffectsLayout(d.tree, p)
                      /\ NodeAffectsLayout(d.tree, c) \/ NodeAffectsLayout(d.tree, r)
<1>1. Edits(d, [d EXCEPT !.tree = Detach(PlaceAt(loose, p, c, at), r)])
  <2> HIDE DEF at, p
  <2>1. DOMAIN Detach(PlaceAt(loose, p, c, at), r) = DOMAIN d.tree
    BY PlaceKeepsIds
  <2>2. QED
    BY <2>1, TreeEdits
<1>2. affects \in BOOLEAN
  OBVIOUS
<1>3. QED
  BY <1>1, <1>2, MarkAfterEdit DEF ReplaceChild

LEMMA SetInnerHtmlFollows ==
  ASSUME NEW d, Sound(d), NEW n, NEW nodes
  PROVE  Follows(d, SetInnerHtml(d, n, nodes))
<1> DEFINE old == Subtree(d.tree, n) \ {n}
           kept == [m \in DOMAIN d.tree \ old |->
                     IF m = n THEN [d.tree[m] EXCEPT !.kids = <<>>] ELSE d.tree[m]]
           bare == [d EXCEPT !.tree = kept, !.forget = @ + Cardinality(old)]
           e == Adopt(bare, nodes[1])
           grown == [e EXCEPT !.tree = PlaceAt(@, n, d.next, 1)]
           full == IF nodes = <<>> THEN bare ELSE grown
           sheets == \/ \E m \in old : d.tree[m].kind = "style"
                     \/ MutationAffectsStylesheets(full.tree, n)
           marked == MarkMutated(full, NodeAffectsLayout(full.tree, n), n, sheets, FALSE, FALSE)
<1>1. Edits(d, bare)
  <2> HIDE DEF old
  <2>1. DOMAIN kept \subseteq DOMAIN d.tree
    OBVIOUS
  <2> HIDE DEF kept
  <2>2. QED
    BY <2>1, TreeEdits
<1> HIDE DEF bare
<1>2. Edits(d, grown)
  <2>1. Sound(bare) /\ Edits(bare, e)
    BY <1>1, EditIsSound, AdoptEdits
  <2> HIDE DEF e
  <2>2. Sound(e) /\ Edits(d, e)
    BY <1>1, <2>1, EditIsSound, EditsOn
  <2>3. DOMAIN PlaceAt(e.tree, n, d.next, 1) = DOMAIN e.tree
    BY PlaceKeepsIds
  <2>4. Edits(e, grown)
    BY <2>2, <2>3, TreeEdits
  <2>5. QED
    BY <2>2, <2>4, EditsOn
<1> HIDE DEF grown
<1>3. Edits(d, full)
  BY <1>1, <1>2
<1> HIDE DEF full, sheets
<1>4. Follows(d, marked)
  BY <1>3, MarkAfterEdit, AffectsIsBoolean
<1> HIDE DEF marked
<1>5. Follows(d, Charge(marked, Len(nodes)))
  BY <1>4, ChargeEdits, EditFollows, FollowsOn DEF Follows
<1>6. SetInnerHtml(d, n, nodes)
        = IF Affordable(d, Len(nodes)) THEN Charge(marked, Len(nodes)) ELSE marked
  BY DEF SetInnerHtml, marked, sheets, full, grown, bare
<1>7. QED
  BY <1>4, <1>5, <1>6

LEMMA CloneNodeFollows ==
  ASSUME NEW d, Sound(d), NEW n \in DOMAIN d.tree, NEW deep \in BOOLEAN
  PROVE  Follows(d, CloneNode(d, n, deep))
<1> DEFINE copied == IF deep THEN Subtree(d.tree, n) ELSE {n}
           c == Charge(d, Cardinality(copied))
           e == CloneNode(d, n, deep)
<1>1. Cardinality(copied) \in Nat
  <2>1. copied \subseteq 1..(d.next - 1)
    BY DEF Subtree, Sound, Given
  <2>2. IsFiniteSet(1..(d.next - 1))
    BY FS_Interval DEF Sound, Given
  <2> HIDE DEF copied
  <2>3. IsFiniteSet(copied)
    BY <2>1, <2>2, FS_Subset
  <2>4. QED
    BY <2>3, FS_CardinalityType
<1>2. CASE ~Affordable(d, Cardinality(copied))
  <2>1. e = d /\ Edits(d, d)
    BY <1>2 DEF CloneNode, Edits, Sound, Given
  <2>2. QED
    BY <2>1, EditFollows
<1>3. CASE Affordable(d, Cardinality(copied))
  <2>1. Edits(d, c) /\ Sound(c) /\ c.next = d.next
    BY ChargeEdits, EditIsSound
  <2> DEFINE new == d.next .. d.next + Cardinality(copied) - 1
             New(m) == d.next + Cardinality({k \in copied : k < m})
             Copy(m) == [d.tree[m] EXCEPT
                           !.up = IF m = n THEN 0 ELSE New(@),
                           !.kids = IF deep THEN [i \in DOMAIN @ |-> New(@[i])] ELSE <<>>]
             t == [m \in DOMAIN c.tree \cup new |->
                     IF m \in new THEN Copy(CHOOSE k \in copied : New(k) = m) ELSE c.tree[m]]
  <2>2. e = [c EXCEPT !.tree = t, !.next = @ + Cardinality(copied)]
    BY <1>3 DEF CloneNode
  <2>3. DOMAIN t = DOMAIN c.tree \cup new
    OBVIOUS
  <2> HIDE DEF t, c
  <2>4. /\ DOMAIN e = DOMAIN c /\ e.layout = c.layout /\ e.base = c.base
        /\ e.journal = c.journal /\ e.next = c.next + Cardinality(copied) /\ e.tree = t
    BY <2>1, <2>2 DEF Sound, Fields
  <2> HIDE DEF e, copied
  <2>5. Edits(c, e)
    BY <1>1, <2>1, <2>3, <2>4 DEF Sound, Given, Edits
  <2>6. QED
    BY <2>1, <2>5, EditsOn, EditFollows DEF e
<1>4. QED
  BY <1>2, <1>3

\* Blank, too, says how a document goes on.
LEMMA ParseFollows ==
  ASSUME NEW d, d.next \in Nat \ {0}, d.layout \in Nat, NEW t \in Documents
  PROVE  /\ Sound(Parse(d, t)) /\ Parse(d, t).next >= d.next
         /\ \A n \in DOMAIN Parse(d, t).tree : n >= d.next
<1> DEFINE e == Parse(d, t)
           size == Cardinality(DOMAIN t)
<1>1. size \in Nat /\ DOMAIN t = 1..size
  BY StyleAssumption, FS_CardinalityType DEF IsDocument
<1>2. /\ DOMAIN e = Fields /\ e.layout = d.layout + 1 /\ e.base = d.layout + 1
      /\ e.journal = <<>> /\ e.next = d.next + size
      /\ DOMAIN e.tree = {d.next - 1 + n : n \in DOMAIN t}
  BY DEF Parse, Numbered, Fields
<1> HIDE DEF e, size
<1>3. /\ DOMAIN e.tree \subseteq 1..(e.next - 1)
      /\ \A n \in DOMAIN e.tree : n >= d.next
  BY <1>1, <1>2
<1>4. Journaled(e)
  <2>1. e.journal \in Seq({}) /\ Len(e.journal) = 0
    BY <1>2
  <2>2. QED
    BY <1>2, <2>1, DomAssumption DEF Journaled
<1>5. QED
  BY <1>1, <1>2, <1>3, <1>4 DEF Sound, Given, e

-----------------------------------------------------------------------------
(* The steps.                                                              *)

LEMMA ScanFollows ==
  ASSUME NEW d, Sound(d)
  PROVE  Follows(d, d) /\ Follows(d, Scanned(d))
<1> DEFINE e == Scanned(d)
<1>1. /\ DOMAIN e = DOMAIN d /\ e.layout = d.layout /\ e.base = d.base
      /\ e.journal = d.journal /\ e.next = d.next /\ e.tree = d.tree
  BY DEF Scanned, Sound, Fields
<1> HIDE DEF e
<1>2. Edits(d, e) /\ Edits(d, d)
  BY <1>1 DEF Edits, Sound, Given
<1>3. QED
  BY <1>2, EditFollows DEF e

LEMMA EnsuredFollows ==
  ASSUME NEW d, Sound(d), NEW s, NEW vp, NEW mode, NEW corrected,
         NEW done \in Ensured(d, s, vp, mode, corrected)
  PROVE  Follows(d, done[1])
<1>1. done[1] = d \/ done[1] = Scanned(d)
  BY DEF Ensured
<1>2. QED
  BY <1>1, ScanFollows

LEMMA MutateFollows == ASSUME Sound(dom), Mutate PROVE Follows(dom, dom')
<1>1. PICK n \in DOMAIN dom.tree :
        \/ \E v \in {0, 1, 3} : dom' = SetStyle(dom, n, v)
        \/ \E v \in 0..1 : dom' = SetMark(dom, n, v)
        \/ \E f \in Fragments : dom' = SetInnerHtml(dom, n, f)
        \/ \E v \in Nothing..1 : dom' = SetTextContent(dom, n, v)
        \/ \E p \in DOMAIN dom.tree :
             \/ dom' = AppendChild(dom, p, n)
             \/ \E r \in ToSet(dom.tree[p].kids) \ {n} :
                  \/ dom' = InsertBefore(dom, p, n, r)
                  \/ dom' = ReplaceChild(dom, n, r)
        \/ dom' = RemoveChild(dom, n)
  BY ZenonT(40) DEF Mutate, Changes, Moves, Fills
<1>2. QED
  BY <1>1, SetStyleFollows, SetMarkFollows, SetInnerHtmlFollows, SetTextContentFollows,
     PlaceChildFollows, ReplaceChildFollows, RemoveChildFollows

LEMMA MakeFollows == ASSUME Sound(dom), Make PROVE Follows(dom, dom')
BY CreateFollows, CloneNodeFollows DEF Make

LEMMA ReadFollows ==
  ASSUME Sound(dom), Read \/ Render \/ RebuildFails \/ SetLoaderOrFactory
  PROVE  Follows(dom, dom')
<1>1. CASE Read
  <2>1. PICK n, p : \/ ReadDetachedStyle(n) \/ ReadCurrentProperty(n, p)
                    \/ BoundedProperty(n, p) \/ ReadDetachedGeometry(n)
                    \/ ReadCurrentGeometry(n) \/ BoundedGeometry(n)
                    \/ ForceProperty(n, p) \/ SnapshotProperty(n, p) \/ ReadStyle(n)
                    \/ ForceGeometry(n) \/ ExactGeometry \/ ReuseStyle(n)
    BY <1>1, Zenon DEF Read
  <2>2. CASE \/ ReadDetachedStyle(n) \/ ReadCurrentProperty(n, p)
             \/ BoundedProperty(n, p) \/ ReadDetachedGeometry(n)
             \/ ReadCurrentGeometry(n) \/ BoundedGeometry(n) \/ ReuseStyle(n)
    <3>1. dom' = dom
      BY <2>2 DEF ReadDetachedStyle, ReadCurrentProperty, BoundedProperty,
                  ReadDetachedGeometry, ReadCurrentGeometry, BoundedGeometry, ReuseStyle
    <3>2. QED
      BY <3>1, ScanFollows
  <2>3. CASE ForceProperty(n, p)
    <3>1. PICK done \in Ensured(dom, styled, viewport, "sheets", FALSE) : dom' = done[1]
      BY <2>3 DEF ForceProperty
    <3>2. QED
      BY <3>1, EnsuredFollows
  <2>4. CASE SnapshotProperty(n, p)
    BY <2>4, EnsuredFollows, Zenon DEF SnapshotProperty
  <2>5. CASE ReadStyle(n)
    <3>1. PICK done \in IF StyleHit THEN {<<dom, styled>>}
                        ELSE Ensured(dom, styled, viewport, "sheets", FALSE) : dom' = done[1]
      BY <2>5 DEF ReadStyle
    <3>2. CASE StyleHit
      <4>1. done = <<dom, styled>>
        BY <3>2
      <4>2. QED
        BY <3>1, <4>1, ScanFollows
    <3>3. CASE ~StyleHit
      <4>1. done \in Ensured(dom, styled, viewport, "sheets", FALSE)
        BY <3>3
      <4>2. QED
        BY <3>1, <4>1, EnsuredFollows
    <3>4. QED
      BY <3>2, <3>3
  <2>6. CASE ForceGeometry(n)
    <3>1. PICK done \in Ensured(dom, styled, viewport, "sheets", FALSE) : dom' = done[1]
      BY <2>6 DEF ForceGeometry
    <3>2. QED
      BY <3>1, EnsuredFollows
  <2>7. CASE ExactGeometry
    BY <2>7, EnsuredFollows, Zenon DEF ExactGeometry
  <2>8. QED
    BY <2>1, <2>2, <2>3, <2>4, <2>5, <2>6, <2>7
<1>2. CASE Render
  BY <1>2, EnsuredFollows, Zenon DEF Render
<1>3. CASE RebuildFails \/ SetLoaderOrFactory
  BY <1>3, ScanFollows DEF RebuildFails, SetLoaderOrFactory
<1>4. QED
  BY <1>1, <1>2, <1>3

LEMMA LoadFollows ==
  ASSUME Sound(dom), LoadHtml
  PROVE  /\ Follows(dom, dom')
         /\ DOMAIN dom'.tree \cap DOMAIN dom.tree = {}
<1>1. PICK t \in Documents : dom' = Parse(dom, t)
  BY DEF LoadHtml
<1>2. /\ Sound(dom') /\ dom'.next >= dom.next
      /\ \A n \in DOMAIN dom'.tree : n >= dom.next
  BY <1>1, ParseFollows, ZenonT(40) DEF Sound, Given, Journaled
<1>3. QED
  BY <1>2 DEF Sound, Given, Follows, NewIds

LEMMA StepFollows ==
  ASSUME Sound(dom), [Next]_vars
  PROVE  Follows(dom, dom')
<1>1. CASE UNCHANGED vars
  BY <1>1, ScanFollows DEF vars
<1>2. CASE Next
  BY <1>2, MutateFollows, MakeFollows, ReadFollows, LoadFollows, Zenon DEF Next
<1>3. QED
  BY <1>1, <1>2

\* The inductive invariant of both results: the journal's records carry the
\* versions after the base, and every id in use has been given.
THEOREM SoundAlways == Spec => []Sound(dom)
<1>1. Init => Sound(dom)
  <2>1. Blank.next \in Nat \ {0} /\ Blank.layout \in Nat
    BY DEF Blank
  <2>2. QED
    BY <2>1, ParseFollows DEF Init
<1>2. Sound(dom) /\ [Next]_vars => Sound(dom)'
  BY StepFollows DEF Follows
<1>3. QED
  BY <1>1, <1>2, PTL DEF Spec

\* Whatever the documents, the mutations, the cap and the budgets, the journal
\* holds one record for every layout version after its base, so what
\* layout_mutations_since calls complete is complete.
THEOREM JournalAlwaysCovers == Spec => []JournalCovers
BY SoundAlways, SoundIsCovered, PTL

\* No id is ever given a second time, and a document that is loaded shares none
\* with the one it replaces.
THEOREM IdsAreForLife == Spec => IdsAreNeverReused
<1>1. Sound(dom) /\ [Next]_vars =>
        [/\ \A n \in DOMAIN dom'.tree : n >= dom.next \/ n \in DOMAIN dom.tree
         /\ LoadHtml => DOMAIN dom'.tree \cap DOMAIN dom.tree = {}]_vars
  <2>1. ASSUME Sound(dom), [Next]_vars
        PROVE  /\ \A n \in DOMAIN dom'.tree : n >= dom.next \/ n \in DOMAIN dom.tree
               /\ LoadHtml => DOMAIN dom'.tree \cap DOMAIN dom.tree = {}
    BY <2>1, StepFollows, LoadFollows DEF Follows, NewIds
  <2>2. QED
    BY <2>1
<1>2. QED
  BY <1>1, SoundAlways, PTL DEF Spec, IdsAreNeverReused

-----------------------------------------------------------------------------
(* Bounded modes.                                                          *)

\* A style mode's promise: what it was seeded with is kept, or there is nothing
\* left to promise.  That no id was forgotten since is part of it: a read that
\* finds one forgotten starts from nothing.
StylesSeeded(d, c, seeded) ==
  /\ DOMAIN c = {"bounded", "forget", "snapshot", "entries"} /\ DOMAIN c.entries = Ids
  /\ c.bounded => \A n \in seeded : n \in Ids /\ c.forget = d.forget /\ c.entries[n] # None
BoxesSeeded(d, g, seeded) ==
  /\ DOMAIN g = {"bounded", "forget", "known"} /\ DOMAIN g.known = Ids
  /\ g.bounded => \A n \in seeded : n \in Ids /\ g.forget = d.forget /\ g.known[n] # "none"
Seeded ==
  /\ Sound(dom) /\ dom.next <= MaxId + 1
  /\ DOMAIN history = {"crossed", "seededStyles", "seededBoxes"}
  /\ StylesSeeded(dom, styles, history.seededStyles)
  /\ BoxesSeeded(dom, geometry, history.seededBoxes)

LEMMA SeededIsEnough == Seeded => BoundedModeIsSeeded
BY DEF Seeded, StylesSeeded, BoxesSeeded, BoundedModeIsSeeded

\* An operation forgets no id and takes at most so many.
Takes(d, e, k) == DOMAIN e = Fields /\ e.forget = d.forget /\ e.next \in d.next .. d.next + k

LEMMA TakesOn ==
  ASSUME NEW d, NEW e, NEW f, NEW k, NEW l, k \in Nat, l \in Nat, d.next \in Nat, e.next \in Nat,
         f.next \in Nat, Takes(d, e, k), Takes(e, f, l)
  PROVE  Takes(d, f, k + l)
BY DEF Takes

LEMMA MarkTakes ==
  ASSUME NEW d, DOMAIN d = Fields, d.next \in Nat, NEW affects \in BOOLEAN,
         NEW n, NEW sheets, NEW inline, NEW rebuild
  PROVE  /\ Takes(d, MarkMutated(d, affects, n, sheets, inline, rebuild), 0)
         /\ MarkMutated(d, affects, n, sheets, inline, rebuild).next = d.next
<1> DEFINE m == [d EXCEPT !.mut = @ + 1]
           l == [m EXCEPT !.layout = @ + 1, !.sheets = IF sheets THEN @ + 1 ELSE @]
           r == [version |-> l.layout, node |-> n, inline |-> inline, rebuild |-> rebuild]
           j == Append(l.journal, r)
           e == MarkMutated(d, affects, n, sheets, inline, rebuild)
           full == [l EXCEPT !.base = Head(j).version, !.journal = Tail(j)]
<1>1. DOMAIN m = Fields /\ m.next = d.next /\ m.forget = d.forget
  BY DEF Fields
<1>2. DOMAIN l = Fields /\ l.next = d.next /\ l.forget = d.forget
  <2> HIDE DEF m
  <2>1. QED
    BY <1>1 DEF Fields
<1>3. e = m \/ e = [l EXCEPT !.journal = j] \/ e = full
  BY DEF MarkMutated, RecordLayoutMutation
<1> HIDE DEF m, l, r, j
<1>4. DOMAIN full = Fields /\ full.next = d.next /\ full.forget = d.forget
  BY <1>2 DEF Fields
<1> HIDE DEF full
<1>5. DOMAIN e = Fields /\ e.next = d.next /\ e.forget = d.forget
  BY <1>1, <1>2, <1>3, <1>4 DEF Fields
<1>6. QED
  BY <1>5 DEF Takes

LEMMA ChargeTakes ==
  ASSUME NEW d, DOMAIN d = Fields, d.next \in Nat, NEW more
  PROVE  Takes(d, Charge(d, more), 0) /\ Charge(d, more).next = d.next
BY DEF Takes, Charge, Fields

LEMMA AdoptTakes ==
  ASSUME NEW d, DOMAIN d = Fields, d.next \in Nat, NEW node
  PROVE  Takes(d, Adopt(d, node), 1) /\ Adopt(d, node).next = d.next + 1
<1> DEFINE e == Adopt(d, node)
<1>1. DOMAIN e = Fields /\ e.forget = d.forget /\ e.next = d.next + 1
  BY DEF Adopt, Fields
<1>2. QED
  BY <1>1 DEF Takes

LEMMA TreeTakes ==
  ASSUME NEW d, DOMAIN d = Fields, d.next \in Nat, NEW t
  PROVE  Takes(d, [d EXCEPT !.tree = t], 0) /\ [d EXCEPT !.tree = t].next = d.next
BY DEF Takes, Fields

LEMMA MutationsTake ==
  ASSUME NEW d, Sound(d)
  PROVE  /\ \A n, v : Takes(d, SetStyle(d, n, v), 0) /\ Takes(d, SetMark(d, n, v), 0)
         /\ \A n, v : Takes(d, SetTextContent(d, n, v), 1)
         /\ \A p, c, r : /\ Takes(d, AppendChild(d, p, c), 0) /\ Takes(d, InsertBefore(d, p, c, r), 0)
                         /\ Takes(d, ReplaceChild(d, c, r), 0) /\ Takes(d, RemoveChild(d, c), 0)
         /\ \A k, v : Takes(d, Create(d, k, v), 1)
<1>1. DOMAIN d = Fields /\ d.next \in Nat /\ Takes(d, d, 0) /\ Takes(d, d, 1)
  BY DEF Sound, Given, Takes
<1>2. ASSUME NEW e, Takes(d, e, 0), e.next = d.next,
             NEW affects \in BOOLEAN, NEW n, NEW sheets, NEW inline, NEW rebuild
      PROVE  Takes(d, MarkMutated(e, affects, n, sheets, inline, rebuild), 0)
  <2>1. DOMAIN e = Fields /\ e.next \in Nat
    BY <1>1, <1>2 DEF Takes
  <2>2. QED
    BY <1>1, <1>2, <2>1, MarkTakes DEF Takes
<1>3. ASSUME NEW t, NEW affects \in BOOLEAN, NEW n, NEW sheets, NEW inline, NEW rebuild
      PROVE  Takes(d, MarkMutated([d EXCEPT !.tree = t], affects, n, sheets, inline, rebuild), 0)
  <2> DEFINE e == [d EXCEPT !.tree = t]
  <2>1. Takes(d, e, 0) /\ e.next = d.next
    BY <1>1, TreeTakes
  <2> HIDE DEF e
  <2>2. Takes(d, MarkMutated(e, affects, n, sheets, inline, rebuild), 0)
    BY <1>2, <2>1
  <2>3. QED
    BY <2>2 DEF e
<1>4. \A n, v : Takes(d, SetStyle(d, n, v), 0)
  <2> TAKE n, v
  <2>1. [d EXCEPT !.tree[n].style = v] = [d EXCEPT !.tree = [@ EXCEPT ![n].style = v]]
    BY <1>1 DEF Fields
  <2>2. QED
    BY <1>1, <1>3, <2>1, AffectsIsBoolean DEF SetStyle
<1>5. \A n, v : Takes(d, SetMark(d, n, v), 0)
  <2> TAKE n, v
  <2>1. [d EXCEPT !.tree[n].mark = v] = [d EXCEPT !.tree = [@ EXCEPT ![n].mark = v]]
    BY <1>1 DEF Fields
  <2>2. (NodeAffectsLayout(d.tree, n) /\ d.sens) \in BOOLEAN
    OBVIOUS
  <2>3. QED
    BY <1>1, <1>3, <2>1, <2>2 DEF SetMark
<1>6. \A n, v : Takes(d, SetTextContent(d, n, v), 1)
  <2> TAKE n, v
  <2> DEFINE empty == [d EXCEPT !.tree = Emptied(@, n)]
             paid == Charge(empty, 1)
             text == Adopt(paid, Node("text", v))
             filled == [text EXCEPT !.tree = PlaceAt(@, n, d.next, 1)]
             affects == NodeAffectsLayout(d.tree, n)
  <2>1. [d EXCEPT !.tree[n].val = v] = [d EXCEPT !.tree = [@ EXCEPT ![n].val = v]]
    BY <1>1 DEF Fields
  <2>2. \A sheets : Takes(d, MarkMutated([d EXCEPT !.tree[n].val = v], affects, n, sheets, FALSE, FALSE), 0)
    BY <1>3, <2>1, AffectsIsBoolean
  <2>3. Takes(d, empty, 0) /\ empty.next = d.next
    BY <1>1, TreeTakes
  <2> HIDE DEF empty
  <2>4. \A sheets : Takes(d, MarkMutated(empty, affects, n, sheets, FALSE, FALSE), 0)
    BY <1>2, <2>3, AffectsIsBoolean
  <2>5. Takes(empty, paid, 0) /\ paid.next = d.next
    BY <1>1, <2>3, ChargeTakes DEF Takes
  <2> HIDE DEF paid
  <2>6. Takes(paid, text, 1) /\ text.next = d.next + 1
    BY <1>1, <2>5, AdoptTakes DEF Takes
  <2> HIDE DEF text
  <2>7. Takes(text, filled, 0) /\ filled.next = text.next
    BY <1>1, <2>6, TreeTakes DEF Takes
  <2>8. \A sheets : Takes(d, MarkMutated(filled, affects, n, sheets, FALSE, FALSE), 1)
    <3>1. affects \in BOOLEAN
      BY AffectsIsBoolean
    <3> HIDE DEF filled, affects
    <3>2. DOMAIN filled = Fields /\ filled.next \in Nat /\ filled.next = d.next + 1
      BY <1>1, <2>6, <2>7 DEF Takes
    <3> TAKE sheets
    <3> DEFINE e == MarkMutated(filled, affects, n, sheets, FALSE, FALSE)
    <3>3. Takes(filled, e, 0) /\ e.next = filled.next
      <4>1. ASSUME NEW inline, NEW rebuild
            PROVE  LET g == MarkMutated(filled, affects, n, sheets, inline, rebuild)
                   IN Takes(filled, g, 0) /\ g.next = filled.next
        BY <3>1, <3>2, MarkTakes
      <4>2. QED
        BY <4>1
    <3> HIDE DEF e
    <3>4. Takes(d, e, 1)
      BY <1>1, <2>3, <2>5, <2>6, <2>7, <3>2, <3>3 DEF Takes
    <3>5. QED
      BY <3>4 DEF e
  <2>9. \A e : Takes(d, e, 0) => Takes(d, e, 1)
    BY <1>1 DEF Takes
  <2>10. SetTextContent(d, n, v) \in
           {d, empty} \cup {MarkMutated([d EXCEPT !.tree[n].val = v], affects, n, sheets, FALSE, FALSE) : sheets \in BOOLEAN}
             \cup {MarkMutated(empty, affects, n, sheets, FALSE, FALSE) : sheets \in BOOLEAN}
             \cup {MarkMutated(filled, affects, n, sheets, FALSE, FALSE) : sheets \in BOOLEAN}
    <3>1. MutationAffectsStylesheets(d.tree, n) \in BOOLEAN
      BY DEF MutationAffectsStylesheets
    <3>2. QED
      BY <3>1 DEF SetTextContent, filled, text, paid, empty
  <2>11. QED
    BY <1>1, <2>2, <2>3, <2>4, <2>8, <2>9, <2>10
<1>7. \A p, c, before : Takes(d, PlaceChild(d, p, c, before), 0)
  <2> TAKE p, c, before
  <2>1. (NodeAffectsLayout(d.tree, p) /\ NodeAffectsLayout(d.tree, c)) \in BOOLEAN
    OBVIOUS
  <2>2. QED
    BY <1>3, <2>1 DEF PlaceChild
<1>8. \A c, r : Takes(d, ReplaceChild(d, c, r), 0)
  <2> TAKE c, r
  <2>1. (/\ NodeAffectsLayout(d.tree, d.tree[r].up)
         /\ NodeAffectsLayout(d.tree, c) \/ NodeAffectsLayout(d.tree, r)) \in BOOLEAN
    OBVIOUS
  <2>2. QED
    BY <1>3, <2>1 DEF ReplaceChild
<1>9. \A c : Takes(d, RemoveChild(d, c), 0)
  <2> TAKE c
  <2>1. (NodeAffectsLayout(d.tree, d.tree[c].up) /\ NodeAffectsLayout(d.tree, c)) \in BOOLEAN
    OBVIOUS
  <2>2. QED
    BY <1>3, <2>1 DEF RemoveChild
<1>10. \A k, v : Takes(d, Create(d, k, v), 1)
  <2> TAKE k, v
  <2> DEFINE paid == Charge(d, 1)
  <2>1. Takes(d, paid, 0) /\ paid.next = d.next
    BY <1>1, ChargeTakes
  <2> HIDE DEF paid
  <2>2. Takes(paid, Adopt(paid, Node(k, v)), 1)
    BY <1>1, <2>1, AdoptTakes DEF Takes
  <2>3. Takes(d, Adopt(paid, Node(k, v)), 1)
    BY <1>1, <2>1, <2>2 DEF Takes
  <2>4. QED
    BY <1>1, <2>3 DEF Create, paid
<1>11. QED
  BY <1>4, <1>5, <1>6, <1>7, <1>8, <1>9, <1>10 DEF AppendChild, InsertBefore

LEMMA ContentsTake ==
  ASSUME NEW d, Sound(d), NEW n, NEW f \in Fragments
  PROVE  /\ SetInnerHtml(d, n, f).next <= d.next + Len(f)
         /\ DOMAIN SetInnerHtml(d, n, f) = Fields
<1> DEFINE old == Subtree(d.tree, n) \ {n}
           kept == [m \in DOMAIN d.tree \ old |->
                     IF m = n THEN [d.tree[m] EXCEPT !.kids = <<>>] ELSE d.tree[m]]
           bare == [d EXCEPT !.tree = kept, !.forget = @ + Cardinality(old)]
           e == Adopt(bare, f[1])
           grown == [e EXCEPT !.tree = PlaceAt(@, n, d.next, 1)]
           full == IF f = <<>> THEN bare ELSE grown
           sheets == \/ \E m \in old : d.tree[m].kind = "style"
                     \/ MutationAffectsStylesheets(full.tree, n)
           affects == NodeAffectsLayout(full.tree, n)
           marked == MarkMutated(full, affects, n, sheets, FALSE, FALSE)
<1>1. DOMAIN d = Fields /\ d.next \in Nat
  BY DEF Sound, Given
<1>2. Len(f) = IF f = <<>> THEN 0 ELSE 1
  <2>1. f = <<>> \/ f = <<f[1]>>
    BY StyleAssumption
  <2>2. QED
    BY <2>1
<1> HIDE DEF old, kept
<1>3. DOMAIN bare = Fields /\ bare.next = d.next
  BY <1>1 DEF Fields
<1> HIDE DEF bare
<1>4. DOMAIN e = Fields /\ e.next = d.next + 1
  BY <1>1, <1>3, AdoptTakes DEF Takes
<1> HIDE DEF e
<1>5. DOMAIN grown = Fields /\ grown.next = d.next + 1
  BY <1>1, <1>4 DEF Fields
<1> HIDE DEF grown
<1>6. DOMAIN full = Fields /\ full.next = d.next + Len(f) /\ full.next \in Nat
  BY <1>1, <1>2, <1>3, <1>5
<1> HIDE DEF sheets
<1>7. affects \in BOOLEAN
  BY AffectsIsBoolean
<1> HIDE DEF full, affects
<1>8. DOMAIN marked = Fields /\ marked.next = d.next + Len(f) /\ marked.next \in Nat
  <2>1. Takes(full, marked, 0) /\ marked.next = full.next
    <3>1. ASSUME NEW inline, NEW rebuild
          PROVE  LET g == MarkMutated(full, affects, n, sheets, inline, rebuild)
                 IN Takes(full, g, 0) /\ g.next = full.next
      BY <1>6, <1>7, MarkTakes
    <3>2. QED
      BY <3>1
  <2> HIDE DEF marked
  <2>2. QED
    BY <1>6, <2>1 DEF Takes
<1> HIDE DEF marked
<1>9. /\ DOMAIN Charge(marked, Len(f)) = Fields
      /\ Charge(marked, Len(f)).next = d.next + Len(f)
  BY <1>8, ChargeTakes DEF Takes
<1>10. SetInnerHtml(d, n, f) = IF Affordable(d, Len(f)) THEN Charge(marked, Len(f)) ELSE marked
  BY DEF SetInnerHtml, marked, affects, sheets, full, grown, e, bare, kept, old
<1>11. QED
  BY <1>1, <1>2, <1>8, <1>9, <1>10

LEMMA SeededIfKept ==
  ASSUME Seeded, Sound(dom'), dom'.next <= MaxId + 1, UNCHANGED <<styles, geometry>>,
         DOMAIN history' = DOMAIN history,
         \/ /\ dom'.forget = dom.forget
            /\ history'.seededStyles = history.seededStyles
            /\ history'.seededBoxes = history.seededBoxes
         \/ history'.seededStyles = {} /\ history'.seededBoxes = {}
  PROVE  Seeded'
BY DEF Seeded, StylesSeeded, BoxesSeeded

LEMMA MutateSeeds == ASSUME Seeded, Mutate PROVE Seeded'
<1>1. Sound(dom) /\ Sound(dom') /\ UNCHANGED <<styles, geometry>> /\ dom.next \in Nat
  BY MutateFollows DEF Seeded, Follows, Mutate, pageVars, Sound, Given
<1>2. DOMAIN history = {"crossed", "seededStyles", "seededBoxes"} /\ dom.next <= MaxId + 1 /\ MaxId \in Nat
  BY DomAssumption DEF Seeded
<1>3. ASSUME NEW c, NEW d, Moves(c, d), Takes(dom, d, 0) PROVE Seeded'
  <2>1. /\ dom' = d /\ DOMAIN history' = DOMAIN history /\ dom'.forget = dom.forget
        /\ history'.seededStyles = history.seededStyles
        /\ history'.seededBoxes = history.seededBoxes
    BY <1>2, <1>3 DEF Moves, Takes
  <2>2. dom'.next <= MaxId + 1
    BY <1>1, <1>2, <1>3, <2>1 DEF Takes
  <2>3. QED
    BY <1>1, <2>1, <2>2, SeededIfKept
<1>4. ASSUME NEW d, Changes(d), d.next <= MaxId + 1 PROVE Seeded'
  <2>1. dom' = d /\ DOMAIN history' = DOMAIN history
    BY <1>2, <1>4 DEF Changes
  <2>2. \/ /\ dom'.forget = dom.forget
           /\ history'.seededStyles = history.seededStyles
           /\ history'.seededBoxes = history.seededBoxes
        \/ history'.seededStyles = {} /\ history'.seededBoxes = {}
    BY <1>2, <1>4 DEF Changes
  <2>3. QED
    BY <1>1, <1>4, <2>1, <2>2, SeededIfKept
<1>5. ASSUME NEW n, NEW v, Fills(n, v), dom.next <= MaxId PROVE Seeded'
  <2>1. Takes(dom, SetTextContent(dom, n, v), 1)
    BY <1>1, MutationsTake
  <2>2. /\ dom'.forget = dom.forget /\ DOMAIN history' = DOMAIN history
        /\ history'.seededStyles = history.seededStyles
        /\ history'.seededBoxes = history.seededBoxes
    BY <1>2, <1>5, <2>1 DEF Fills, Takes
  <2>3. dom'.next <= MaxId + 1
    BY <1>1, <1>2, <1>5, <2>1 DEF Fills, Takes
  <2>4. QED
    BY <1>1, <2>2, <2>3, SeededIfKept
<1>6. PICK n \in DOMAIN dom.tree :
        \/ \E v \in {0, 1, 3} : Changes(SetStyle(dom, n, v))
        \/ \E v \in 0..1 : Changes(SetMark(dom, n, v))
        \/ \E f \in Fragments : dom.next + Len(f) <= MaxId + 1 /\ Changes(SetInnerHtml(dom, n, f))
        \/ dom.next <= MaxId /\ \E v \in Nothing..1 : Fills(n, v)
        \/ \E p \in DOMAIN dom.tree :
             \/ Moves(n, AppendChild(dom, p, n))
             \/ \E r \in ToSet(dom.tree[p].kids) \ {n} :
                  \/ Moves(n, InsertBefore(dom, p, n, r))
                  \/ Moves(n, ReplaceChild(dom, n, r))
        \/ Moves(n, RemoveChild(dom, n))
  BY Zenon DEF Mutate
<1>7. CASE \/ \E v \in {0, 1, 3} : Changes(SetStyle(dom, n, v))
           \/ \E v \in 0..1 : Changes(SetMark(dom, n, v))
  <2>1. PICK d : Changes(d) /\ Takes(dom, d, 0)
    BY <1>1, <1>7, MutationsTake
  <2>2. d.next <= MaxId + 1
    BY <1>1, <1>2, <2>1 DEF Takes
  <2>3. QED
    BY <1>4, <2>1, <2>2
<1>8. CASE \E f \in Fragments : dom.next + Len(f) <= MaxId + 1 /\ Changes(SetInnerHtml(dom, n, f))
  <2>1. PICK f \in Fragments : dom.next + Len(f) <= MaxId + 1 /\ Changes(SetInnerHtml(dom, n, f))
    BY <1>8
  <2>2. Len(f) \in Nat
    <3>1. f = <<>> \/ f = <<f[1]>>
      BY StyleAssumption
    <3>2. QED
      BY <3>1
  <2>3. SetInnerHtml(dom, n, f).next <= MaxId + 1
    <3>1. Follows(dom, SetInnerHtml(dom, n, f))
      BY <1>1, SetInnerHtmlFollows
    <3>2. SetInnerHtml(dom, n, f).next \in Nat
      BY <3>1 DEF Follows, Sound, Given
    <3>3. QED
      BY <1>1, <1>2, <2>1, <2>2, <3>2, ContentsTake
  <2>4. QED
    BY <1>4, <2>1, <2>3
<1>9. CASE dom.next <= MaxId /\ \E v \in Nothing..1 : Fills(n, v)
  BY <1>5, <1>9
<1>10. CASE \/ \E p \in DOMAIN dom.tree :
                 \/ Moves(n, AppendChild(dom, p, n))
                 \/ \E r \in ToSet(dom.tree[p].kids) \ {n} :
                      \/ Moves(n, InsertBefore(dom, p, n, r))
                      \/ Moves(n, ReplaceChild(dom, n, r))
            \/ Moves(n, RemoveChild(dom, n))
  <2>1. PICK d : Moves(n, d) /\ Takes(dom, d, 0)
    BY <1>1, <1>10, MutationsTake
  <2>2. QED
    BY <1>3, <2>1
<1>11. QED
  BY <1>6, <1>7, <1>8, <1>9, <1>10

LEMMA MakeSeeds == ASSUME Seeded, Make PROVE Seeded'
<1>1. Sound(dom) /\ Sound(dom') /\ UNCHANGED <<styles, geometry, history>>
  BY MakeFollows DEF Seeded, Follows, Make
<1>2. dom.next \in Nat /\ dom'.next \in Nat /\ dom.next + 2 <= MaxId /\ MaxId \in Nat
      /\ DOMAIN dom = Fields
  BY <1>1, DomAssumption DEF Make, Sound, Given
<1>3. CASE \E k \in Kinds : dom' = Create(dom, k, 0)
  <2>1. Takes(dom, dom', 1)
    BY <1>1, <1>3, MutationsTake
  <2>2. dom'.next <= MaxId + 1 /\ dom'.forget = dom.forget
    BY <1>2, <2>1 DEF Takes
  <2>3. QED
    BY <1>1, <2>2, SeededIfKept
<1>4. CASE \E n \in DOMAIN dom.tree, deep \in BOOLEAN :
             /\ dom.next + Cardinality(Subtree(dom.tree, n)) <= MaxId + 1
             /\ dom' = CloneNode(dom, n, deep)
  <2>1. PICK n \in DOMAIN dom.tree, deep \in BOOLEAN :
          /\ dom.next + Cardinality(Subtree(dom.tree, n)) <= MaxId + 1
          /\ dom' = CloneNode(dom, n, deep)
    BY <1>4
  <2> DEFINE copied == IF deep THEN Subtree(dom.tree, n) ELSE {n}
             k == Cardinality(copied)
             paid == Charge(dom, k)
             t == [m \in DOMAIN paid.tree \cup dom.next .. dom.next + k - 1 |->
                     IF m \in dom.next .. dom.next + k - 1
                     THEN LET New(i) == dom.next + Cardinality({j \in copied : j < i})
                              Copy(i) == [dom.tree[i] EXCEPT
                                !.up = IF i = n THEN 0 ELSE New(@),
                                !.kids = IF deep THEN [l \in DOMAIN @ |-> New(@[l])] ELSE <<>>]
                          IN Copy(CHOOSE i \in copied : New(i) = m)
                     ELSE paid.tree[m]]
  <2>2. dom' = IF ~Affordable(dom, k) THEN dom
               ELSE [paid EXCEPT !.tree = t, !.next = @ + k]
    BY <2>1 DEF CloneNode
  <2>3. dom.next + k <= MaxId + 1
    BY <1>2, <2>1, FS_Singleton
  <2> HIDE DEF t, k
  <2>4. DOMAIN paid = Fields /\ paid.next = dom.next /\ paid.forget = dom.forget
    BY <1>2, ChargeTakes DEF Takes
  <2> HIDE DEF paid
  <2>5. /\ [paid EXCEPT !.tree = t, !.next = @ + k].next = dom.next + k
        /\ [paid EXCEPT !.tree = t, !.next = @ + k].forget = dom.forget
    BY <2>4 DEF Fields
  <2>6. dom'.next <= MaxId + 1 /\ dom'.forget = dom.forget
    BY <1>2, <2>2, <2>3, <2>5
  <2>7. QED
    BY <1>1, <2>6, SeededIfKept
<1>5. QED
  BY <1>3, <1>4 DEF Make

\* What a rebuild or a patch leaves of a document: all but what it listens to.
SameTree(d, e) ==
  /\ DOMAIN e = Fields /\ e.tree = d.tree /\ e.root = d.root
  /\ e.forget = d.forget /\ e.next = d.next /\ e.layout = d.layout

LEMMA ScanKeepsTree ==
  ASSUME NEW d, Sound(d)
  PROVE  SameTree(d, d) /\ SameTree(d, Scanned(d))
BY DEF SameTree, Sound, Fields, Scanned

LEMMA EnsuredKeepsTree ==
  ASSUME NEW d, Sound(d), NEW s, NEW vp, NEW mode, NEW corrected,
         NEW done \in Ensured(d, s, vp, mode, corrected)
  PROVE  SameTree(d, done[1])
<1>1. done[1] = d \/ done[1] = Scanned(d)
  BY DEF Ensured
<1>2. QED
  BY <1>1, ScanKeepsTree

LEMMA SameTreeFacts ==
  ASSUME NEW d, NEW e, SameTree(d, e)
  PROVE  /\ \A n : IsConnected(e, n) <=> IsConnected(d, n)
         /\ InDocument(e) = InDocument(d)
         /\ \A c, S : StylesSeeded(d, c, S) <=> StylesSeeded(e, c, S)
         /\ \A g, S : BoxesSeeded(d, g, S) <=> BoxesSeeded(e, g, S)
<1>1. \A n : IsConnected(e, n) <=> IsConnected(d, n)
  BY DEF SameTree, IsConnected
<1>2. InDocument(e) = InDocument(d)
  BY <1>1 DEF SameTree, InDocument
<1>3. QED
  BY <1>1, <1>2 DEF SameTree, StylesSeeded, BoxesSeeded

LEMMA SyncedSeeds ==
  ASSUME NEW d, NEW c, NEW S, StylesSeeded(d, c, S)
  PROVE  /\ StylesSeeded(d, Synced(d, c), S)
         /\ Synced(d, c).forget = d.forget /\ Synced(d, c).bounded = c.bounded
<1>1. CASE c.forget = d.forget
  BY <1>1 DEF Synced
<1>2. CASE c.forget # d.forget
  <2> DEFINE e == Synced(d, c)
  <2>1. /\ DOMAIN e = DOMAIN c /\ e.forget = d.forget /\ e.bounded = c.bounded
        /\ e.entries = [n \in Ids |-> None]
    BY <1>2 DEF Synced, StylesSeeded
  <2>2. c.bounded => S = {}
    BY <1>2 DEF StylesSeeded
  <2>3. StylesSeeded(d, e, S)
    BY <2>1, <2>2 DEF StylesSeeded
  <2>4. QED
    BY <2>1, <2>3
<1>3. QED
  BY <1>1, <1>2

\* An entry that is written for a connected node is there.
LEMMA WrittenSeeds ==
  ASSUME NEW d, NEW c, NEW S, StylesSeeded(d, c, S), NEW n, NEW v, v # None \/ n \notin S
  PROVE  StylesSeeded(d, [Synced(d, c) EXCEPT !.entries[n] = v], S)
<1> DEFINE b == Synced(d, c)
           e == [b EXCEPT !.entries[n] = v]
<1>1. StylesSeeded(d, b, S)
  BY SyncedSeeds
<1> HIDE DEF b
<1>2. /\ DOMAIN e = DOMAIN b /\ e.bounded = b.bounded /\ e.forget = b.forget
      /\ e.entries = [b.entries EXCEPT ![n] = v]
  BY <1>1 DEF StylesSeeded
<1> HIDE DEF e
<1>3. StylesSeeded(d, e, S)
  BY <1>1, <1>2 DEF StylesSeeded
<1>4. QED
  BY <1>3 DEF e, b

LEMMA SomeIsThere == ASSUME NEW v PROVE Some(v) # None
<1>1. Len(<<v>>) = 1 /\ Len(<<>>) = 0
  OBVIOUS
<1>2. QED
  BY <1>1 DEF Some, None

LEMMA RememberSeeds ==
  ASSUME NEW d, NEW c, NEW S, StylesSeeded(d, c, S), NEW n, IsConnected(d, n),
         NEW digest, NEW p, NEW v, NEW mixed
  PROVE  /\ StylesSeeded(d, RememberProperty(d, c, n, digest, p, v, mixed), S)
         /\ StylesSeeded(d, RememberFull(d, c, n, digest, v, mixed), S)
<1>1. \A w : StylesSeeded(d, [Synced(d, c) EXCEPT !.entries[n] = Some(w)], S)
  BY WrittenSeeds, SomeIsThere
<1>2. QED
  BY <1>1 DEF RememberProperty, RememberFull

LEMMA SnapshotSeeds ==
  ASSUME NEW d, NEW m, NEW c, NEW S, StylesSeeded(d, c, S), DOMAIN d.tree \subseteq Ids, NEW s
  PROVE  /\ StylesSeeded(d, Snapshot(d, m, c, s), S)
         /\ Snapshot(d, m, c, s).forget = d.forget /\ Snapshot(d, m, c, s).bounded = c.bounded
         /\ \A n \in InDocument(d) : n \in Ids /\ Snapshot(d, m, c, s).entries[n] # None
<1> DEFINE b == Synced(d, c)
           New(n) == [EntryFor(b, n, Digest(d, m, n), m.early) EXCEPT
                        !.full = IF Answer(s, n) = None THEN None ELSE Some(Answer(s, n))]
           f == [n \in Ids |-> IF n \in InDocument(d) THEN Some(New(n)) ELSE b.entries[n]]
           e == Snapshot(d, m, c, s)
<1>1. StylesSeeded(d, b, S) /\ b.forget = d.forget /\ b.bounded = c.bounded
  BY SyncedSeeds
<1>2. e = [b EXCEPT !.snapshot = d.layout, !.entries = f]
  BY DEF Snapshot
<1>3. \A n \in Ids : f[n] = IF n \in InDocument(d) THEN Some(New(n)) ELSE b.entries[n]
  OBVIOUS
<1>4. \A n \in Ids : n \in InDocument(d) => f[n] # None
  <2> HIDE DEF New, f
  <2>1. QED
    BY <1>3, SomeIsThere
<1>5. DOMAIN f = Ids
  OBVIOUS
<1>6. \A n \in Ids : n \notin InDocument(d) => f[n] = b.entries[n]
  BY <1>3
<1> HIDE DEF f, b, New
<1>7. /\ DOMAIN e = DOMAIN b /\ e.forget = b.forget /\ e.bounded = b.bounded /\ e.entries = f
  BY <1>1, <1>2 DEF StylesSeeded
<1> HIDE DEF e
<1>8. StylesSeeded(d, e, S)
  BY <1>1, <1>4, <1>5, <1>6, <1>7 DEF StylesSeeded
<1>9. InDocument(d) \subseteq Ids
  BY DEF InDocument
<1>10. QED
  BY <1>1, <1>4, <1>7, <1>8, <1>9 DEF e

LEMMA SeededFacts ==
  ASSUME Seeded
  PROVE  /\ Sound(dom) /\ dom.next <= MaxId + 1
         /\ DOMAIN history = {"crossed", "seededStyles", "seededBoxes"}
         /\ StylesSeeded(dom, styles, history.seededStyles)
         /\ BoxesSeeded(dom, geometry, history.seededBoxes)
         /\ DOMAIN dom.tree \subseteq Ids /\ InDocument(dom) \subseteq Ids
<1>1. DOMAIN dom.tree \subseteq Ids
  BY DomAssumption DEF Seeded, Sound, Given, Ids
<1>2. QED
  BY <1>1 DEF Seeded, InDocument

\* A step that leaves the tree, told by what it makes of the two caches.
LEMMA SeededByCaches ==
  ASSUME Seeded, SameTree(dom, dom'), Sound(dom'),
         DOMAIN history' = DOMAIN history,
         StylesSeeded(dom, styles', history'.seededStyles),
         BoxesSeeded(dom, geometry', history'.seededBoxes)
  PROVE  Seeded'
<1>1. dom'.next <= MaxId + 1
  BY DEF Seeded, SameTree
<1>2. StylesSeeded(dom', styles', history'.seededStyles) /\ BoxesSeeded(dom', geometry', history'.seededBoxes)
  BY DEF SameTree, StylesSeeded, BoxesSeeded
<1>3. QED
  BY <1>1, <1>2 DEF Seeded

LEMMA StyleReadsSeed ==
  ASSUME Seeded, NEW n, NEW p,
         \/ ReadCurrentProperty(n, p) \/ ForceProperty(n, p) \/ SnapshotProperty(n, p)
         \/ BoundedProperty(n, p) \/ ReadDetachedStyle(n) \/ ReadStyle(n)
         \/ ReuseStyle(n),
         Sound(dom')
  PROVE  Seeded'
<1> DEFINE S == history.seededStyles
<1>1. /\ Sound(dom) /\ StylesSeeded(dom, styles, S) /\ BoxesSeeded(dom, geometry, history.seededBoxes)
      /\ DOMAIN history = {"crossed", "seededStyles", "seededBoxes"}
      /\ DOMAIN dom.tree \subseteq Ids
  BY SeededFacts
<1>2. ASSUME dom' = dom, geometry' = geometry, history' = history,
             StylesSeeded(dom, styles', S)
      PROVE  Seeded'
  BY <1>1, <1>2, ScanKeepsTree, SeededByCaches
<1>3. ASSUME NEW done \in Ensured(dom, styled, viewport, "sheets", FALSE),
             dom' = done[1], geometry' = geometry, history' = history,
             StylesSeeded(done[1], styles', S)
      PROVE  Seeded'
  <2>1. SameTree(dom, dom')
    BY <1>1, <1>3, EnsuredKeepsTree
  <2>2. StylesSeeded(dom, styles', S)
    BY <1>3, <2>1, SameTreeFacts
  <2>3. QED
    BY <1>1, <1>3, <2>1, <2>2, SeededByCaches
<1>4. CASE ReadCurrentProperty(n, p)
  <2>1. IsConnected(dom, n) /\ dom' = dom /\ geometry' = geometry /\ history' = history
        /\ styles' = RememberProperty(dom, styles, n, Digest(dom, memo, n), p, Answer(styled, n),
                                      memo'.early)
    BY <1>4 DEF ReadCurrentProperty
  <2>2. QED
    BY <1>1, <1>2, <2>1, RememberSeeds
<1>5. CASE ForceProperty(n, p)
  <2>1. IsConnected(dom, n) /\ ~styles.bounded /\ geometry' = geometry
    BY <1>5 DEF ForceProperty, Misses
  <2>2. PICK done \in Ensured(dom, styled, viewport, "sheets", FALSE), cost \in Costs :
          LET first == Remembered(dom, memo, {n})
              c == IF ShouldSnapshot(cost) THEN Snapshot(done[1], first, styles, done[2]) ELSE styles
              kept == RememberProperty(done[1], c, n, Digest(dom, memo, n), p, Answer(done[2], n),
                                       first.early)
          IN /\ dom' = done[1] /\ styles' = [kept EXCEPT !.bounded = Trips(cost)]
             /\ history' = [history EXCEPT !.seededStyles = IF Trips(cost) THEN InDocument(dom) ELSE @]
    BY <1>5 DEF ForceProperty
  <2> DEFINE d == done[1]
             first == Remembered(dom, memo, {n})
             c == IF ShouldSnapshot(cost) THEN Snapshot(d, first, styles, done[2]) ELSE styles
             digest == Digest(dom, memo, n)
             answer == Answer(done[2], n)
             mixed == first.early
             kept == RememberProperty(d, c, n, digest, p, answer, mixed)
             T == history'.seededStyles
  <2>3. /\ SameTree(dom, d) /\ dom' = d /\ DOMAIN history' = DOMAIN history
        /\ history'.seededBoxes = history.seededBoxes
        /\ T = IF Trips(cost) THEN InDocument(dom) ELSE S
        /\ styles' = [kept EXCEPT !.bounded = Trips(cost)]
    BY <1>1, <2>2, EnsuredKeepsTree
  <2>4. IsConnected(d, n) /\ StylesSeeded(d, styles, S) /\ InDocument(d) = InDocument(dom)
        /\ DOMAIN d.tree \subseteq Ids
    BY <1>1, <2>1, <2>3, SameTreeFacts DEF SameTree
  <2> HIDE DEF d, digest, answer, mixed, first
  <2>5. StylesSeeded(d, c, S)
    BY <2>4, SnapshotSeeds
  <2>6. Trips(cost) => StylesSeeded(d, c, InDocument(d))
    <3> SUFFICES ASSUME Trips(cost) PROVE StylesSeeded(d, c, InDocument(d))
      OBVIOUS
    <3>1. c = Snapshot(d, first, styles, done[2])
      BY DEF Trips, ShouldSnapshot
    <3> DEFINE x == Snapshot(d, first, styles, done[2])
    <3>4. /\ StylesSeeded(d, x, S) /\ x.forget = d.forget
          /\ \A m \in InDocument(d) : m \in Ids /\ x.entries[m] # None
      BY <2>4, SnapshotSeeds
    <3> HIDE DEF c, x
    <3>2. /\ StylesSeeded(d, c, S) /\ c.forget = d.forget
          /\ \A m \in InDocument(d) : m \in Ids /\ c.entries[m] # None
      BY <3>1, <3>4 DEF x
    <3>3. QED
      BY <3>2 DEF StylesSeeded
  <2> HIDE DEF c
  <2>7. /\ StylesSeeded(d, kept, S)
        /\ Trips(cost) => StylesSeeded(d, kept, InDocument(d))
    BY <2>4, <2>5, <2>6, RememberSeeds
  <2>8. Trips(cost) => \A m \in InDocument(d) :
          m \in Ids /\ kept.forget = d.forget /\ kept.entries[m] # None
    <3> SUFFICES ASSUME Trips(cost) PROVE \A m \in InDocument(d) :
          m \in Ids /\ kept.forget = d.forget /\ kept.entries[m] # None
      OBVIOUS
    <3> DEFINE b == Synced(d, c)
               entry == Some([EntryFor(b, n, digest, mixed) EXCEPT !.props[p] = Some(answer)])
    <3>1. c = Snapshot(d, first, styles, done[2])
      BY DEF Trips, ShouldSnapshot, c
    <3>2. /\ c.forget = d.forget /\ DOMAIN c = {"bounded", "forget", "snapshot", "entries"}
          /\ DOMAIN c.entries = Ids
          /\ \A m \in InDocument(d) : m \in Ids /\ c.entries[m] # None
      <4> DEFINE x == Snapshot(d, first, styles, done[2])
      <4>3. /\ StylesSeeded(d, x, S) /\ x.forget = d.forget
            /\ \A m \in InDocument(d) : m \in Ids /\ x.entries[m] # None
        BY <2>4, SnapshotSeeds
      <4> HIDE DEF x
      <4>1. /\ StylesSeeded(d, c, S) /\ c.forget = d.forget
            /\ \A m \in InDocument(d) : m \in Ids /\ c.entries[m] # None
        BY <3>1, <4>3 DEF x
      <4>2. QED
        BY <4>1 DEF StylesSeeded
    <3>3. b = c
      BY <3>2 DEF Synced
    <3>4. kept = [b EXCEPT !.entries[n] = entry]
      BY <2>4 DEF RememberProperty
    <3>5. entry # None
      BY SomeIsThere
    <3> HIDE DEF entry, b, kept
    <3>6. kept.forget = d.forget /\ kept.entries = [c.entries EXCEPT ![n] = entry]
      BY <3>2, <3>3, <3>4
    <3>7. QED
      BY <3>2, <3>5, <3>6
  <2> HIDE DEF kept
  <2>9. StylesSeeded(d, styles', T)
    BY <2>3, <2>4, <2>7, <2>8 DEF StylesSeeded
  <2>10. StylesSeeded(dom, styles', T)
    BY <2>3, <2>9, SameTreeFacts
  <2>11. QED
    BY <1>1, <2>1, <2>3, <2>10, SeededByCaches
<1>6. CASE SnapshotProperty(n, p)
  <2>1. IsConnected(dom, n) /\ geometry' = geometry /\ history' = history
    BY <1>6 DEF SnapshotProperty, Misses
  <2>2. PICK done \in Ensured(dom, styled, viewport, "sheets", FALSE) :
          /\ dom' = done[1]
          /\ LET first == Remembered(dom, memo, {n})
             IN styles' = RememberProperty(done[1], Snapshot(done[1], first, styles, done[2]), n,
                         Digest(done[1], first, n), p, Answer(done[2], n), first.early)
    BY <1>6 DEF SnapshotProperty
  <2> DEFINE d == done[1]
             first == Remembered(dom, memo, {n})
  <2>3. SameTree(dom, d)
    BY <1>1, EnsuredKeepsTree
  <2>4. IsConnected(d, n) /\ StylesSeeded(d, styles, S) /\ DOMAIN d.tree \subseteq Ids
    BY <1>1, <2>1, <2>3, SameTreeFacts DEF SameTree
  <2>5. StylesSeeded(d, Snapshot(d, first, styles, done[2]), S)
    BY <2>4, SnapshotSeeds
  <2>6. StylesSeeded(d, styles', S)
    BY <2>2, <2>4, <2>5, RememberSeeds
  <2>7. QED
    BY <1>3, <2>1, <2>2, <2>6
<1>7. CASE BoundedProperty(n, p)
  <2>1. IsConnected(dom, n) /\ dom' = dom /\ geometry' = geometry /\ history' = history
    BY <1>7 DEF BoundedProperty, Misses
  <2> DEFINE b == Synced(dom, styles)
  <2>2. \/ styles' = b
        \/ \E v : styles' = RememberProperty(dom, b, n, Digest(dom, memo, n), p, v, memo'.early)
    BY <1>7 DEF BoundedProperty
  <2>3. StylesSeeded(dom, b, S)
    BY <1>1, SyncedSeeds
  <2> HIDE DEF b
  <2>4. StylesSeeded(dom, styles', S)
    BY <2>1, <2>2, <2>3, RememberSeeds
  <2>5. QED
    BY <1>2, <2>1, <2>4
<1>8. CASE ReadDetachedStyle(n)
  <2>1. /\ dom' = dom /\ geometry' = geometry /\ styles' = [styles EXCEPT !.entries[n] = None]
        /\ history' = [history EXCEPT !.seededStyles = S \ {n}]
    BY <1>8 DEF ReadDetachedStyle
  <2>2. /\ DOMAIN history' = DOMAIN history /\ history'.seededStyles = S \ {n}
        /\ history'.seededBoxes = history.seededBoxes
    BY <1>1, <2>1
  <2> HIDE DEF S
  <2>3. /\ DOMAIN styles' = DOMAIN styles /\ styles'.bounded = styles.bounded
        /\ styles'.forget = styles.forget /\ styles'.entries = [styles.entries EXCEPT ![n] = None]
    BY <1>1, <2>1 DEF StylesSeeded
  <2>4. StylesSeeded(dom, styles', S \ {n})
    BY <1>1, <2>3 DEF StylesSeeded
  <2>5. QED
    BY <1>1, <2>1, <2>2, <2>4, ScanKeepsTree, SeededByCaches
<1>9. CASE ReadStyle(n)
  <2>1. IsConnected(dom, n) /\ geometry' = geometry /\ history' = history
    BY <1>9 DEF ReadStyle
  <2>2. PICK done \in IF StyleHit THEN {<<dom, styled>>}
                      ELSE Ensured(dom, styled, viewport, "sheets", FALSE) :
          /\ dom' = done[1]
          /\ styles' = RememberFull(done[1], styles, n, Digest(dom, memo, n),
                                    Answer(done[2], n), memo'.early)
    BY <1>9 DEF ReadStyle
  <2>3. SameTree(dom, done[1])
    <3>1. CASE StyleHit
      <4>1. done = <<dom, styled>>
        BY <2>2, <3>1
      <4>2. QED
        BY <1>1, <4>1, ScanKeepsTree
    <3>2. CASE ~StyleHit
      <4>1. done \in Ensured(dom, styled, viewport, "sheets", FALSE)
        BY <2>2, <3>2
      <4>2. QED
        BY <1>1, <4>1, EnsuredKeepsTree
    <3>3. QED
      BY <3>1, <3>2
  <2>4. IsConnected(done[1], n) /\ StylesSeeded(done[1], styles, S)
    BY <1>1, <2>1, <2>3, SameTreeFacts
  <2>5. StylesSeeded(done[1], styles', S)
    BY <2>2, <2>4, RememberSeeds
  <2>6. StylesSeeded(dom, styles', S)
    BY <2>3, <2>5, SameTreeFacts
  <2>7. QED
    BY <1>1, <2>1, <2>2, <2>3, <2>6, SeededByCaches
<1>10. CASE ReuseStyle(n)
  BY <1>1, <1>2, <1>10 DEF ReuseStyle
<1>11. QED
  BY <1>4, <1>5, <1>6, <1>7, <1>8, <1>9, <1>10

LEMMA SyncedBoxesSeed ==
  ASSUME NEW d, NEW g, NEW S, BoxesSeeded(d, g, S)
  PROVE  /\ BoxesSeeded(d, SyncedBoxes(d, g), S)
         /\ SyncedBoxes(d, g).forget = d.forget /\ SyncedBoxes(d, g).bounded = g.bounded
<1>1. CASE g.forget = d.forget
  BY <1>1 DEF SyncedBoxes
<1>2. CASE g.forget # d.forget
  <2> DEFINE e == SyncedBoxes(d, g)
  <2>1. /\ DOMAIN e = DOMAIN g /\ e.forget = d.forget /\ e.bounded = g.bounded
        /\ e.known = [n \in Ids |-> "none"]
    BY <1>2 DEF SyncedBoxes, BoxesSeeded
  <2>2. g.bounded => S = {}
    BY <1>2 DEF BoxesSeeded
  <2>3. BoxesSeeded(d, e, S)
    BY <2>1, <2>2 DEF BoxesSeeded
  <2>4. QED
    BY <2>1, <2>3
<1>3. QED
  BY <1>1, <1>2

LEMMA BoxReadsSeed ==
  ASSUME Seeded, NEW n,
         \/ ReadDetachedGeometry(n) \/ ReadCurrentGeometry(n) \/ ForceGeometry(n)
         \/ BoundedGeometry(n) \/ ExactGeometry,
         Sound(dom')
  PROVE  Seeded'
<1> DEFINE S == history.seededBoxes
           g == SyncedBoxes(dom, geometry)
<1>1. /\ Sound(dom) /\ StylesSeeded(dom, styles, history.seededStyles)
      /\ BoxesSeeded(dom, geometry, S) /\ InDocument(dom) \subseteq Ids
      /\ DOMAIN history = {"crossed", "seededStyles", "seededBoxes"}
  BY SeededFacts
<1>2. BoxesSeeded(dom, g, S) /\ g.forget = dom.forget /\ g.bounded = geometry.bounded
  BY <1>1, SyncedBoxesSeed
<1>3. \A m, s : Box(s, m) # "none"
  BY DEF Box
<1> HIDE DEF g
<1>4. CASE ReadDetachedGeometry(n)
  <2>1. /\ dom' = dom /\ styles' = styles /\ geometry' = [g EXCEPT !.known[n] = "none"]
        /\ history' = [history EXCEPT !.seededBoxes = S \ {n}]
    BY <1>4 DEF ReadDetachedGeometry, g
  <2>2. /\ DOMAIN history' = DOMAIN history /\ history'.seededStyles = history.seededStyles
        /\ history'.seededBoxes = S \ {n}
    BY <1>1, <2>1
  <2> HIDE DEF S
  <2>3. /\ DOMAIN geometry' = DOMAIN g /\ geometry'.bounded = g.bounded
        /\ geometry'.forget = g.forget /\ geometry'.known = [g.known EXCEPT ![n] = "none"]
    BY <1>2, <2>1 DEF BoxesSeeded
  <2>4. BoxesSeeded(dom, geometry', S \ {n})
    BY <1>2, <2>3 DEF BoxesSeeded
  <2>5. QED
    BY <1>1, <2>1, <2>2, <2>4, ScanKeepsTree, SeededByCaches
<1>5. CASE ReadCurrentGeometry(n)
  <2>1. /\ dom' = dom /\ styles' = styles /\ history' = history
        /\ geometry' = [g EXCEPT !.known[n] = Box(styled, n)]
    BY <1>5 DEF ReadCurrentGeometry, g
  <2>2. /\ DOMAIN geometry' = DOMAIN g /\ geometry'.bounded = g.bounded
        /\ geometry'.forget = g.forget /\ geometry'.known = [g.known EXCEPT ![n] = Box(styled, n)]
    BY <1>2, <2>1 DEF BoxesSeeded
  <2>3. BoxesSeeded(dom, geometry', S)
    BY <1>2, <1>3, <2>2 DEF BoxesSeeded
  <2>4. QED
    BY <1>1, <2>1, <2>3, ScanKeepsTree, SeededByCaches
<1>6. CASE ForceGeometry(n)
  <2>1. styles' = styles /\ ~geometry.bounded
    BY <1>6, Zenon DEF ForceGeometry
  <2>2. PICK done \in Ensured(dom, styled, viewport, "sheets", FALSE), cost \in Costs :
          LET s == LaidOut(done[2]) IN
          /\ dom' = done[1]
          /\ geometry' = [g EXCEPT !.bounded = Trips(cost),
               !.known = [m \in Ids |->
                  IF m = n \/ (ShouldSnapshot(cost) /\ m \in InDocument(dom))
                  THEN Box(s, m) ELSE g.known[m]]]
          /\ history' = [history EXCEPT !.seededBoxes = IF Trips(cost) THEN InDocument(dom) ELSE @]
    BY <1>6, Zenon DEF ForceGeometry, g
  <2> DEFINE s == LaidOut(done[2])
             T == IF Trips(cost) THEN InDocument(dom) ELSE S
             known == [m \in Ids |-> IF m = n \/ (ShouldSnapshot(cost) /\ m \in InDocument(dom))
                                     THEN Box(s, m) ELSE g.known[m]]
  <2>3. SameTree(dom, dom')
    BY <1>1, <2>2, EnsuredKeepsTree
  <2>4. /\ DOMAIN history' = DOMAIN history /\ history'.seededStyles = history.seededStyles
        /\ history'.seededBoxes = T
    BY <1>1, <2>2
  <2>5. geometry' = [g EXCEPT !.bounded = Trips(cost), !.known = known]
    BY <1>2, <2>2 DEF BoxesSeeded
  <2>6. Trips(cost) => \A m \in InDocument(dom) : known[m] # "none"
    BY <1>1, <1>3 DEF Trips, ShouldSnapshot
  <2>7. DOMAIN known = Ids
    OBVIOUS
  <2> HIDE DEF known, s
  <2>8. /\ DOMAIN geometry' = DOMAIN g /\ geometry'.bounded = Trips(cost)
        /\ geometry'.forget = dom.forget /\ geometry'.known = known
    BY <1>2, <2>5 DEF BoxesSeeded
  <2>9. BoxesSeeded(dom, geometry', T)
    BY <1>1, <1>2, <2>6, <2>7, <2>8 DEF BoxesSeeded
  <2>10. QED
    BY <1>1, <2>1, <2>3, <2>4, <2>9, SeededByCaches
<1>7. CASE BoundedGeometry(n)
  <2>1. dom' = dom /\ styles' = styles /\ history' = history /\ geometry' = g
    BY <1>7 DEF BoundedGeometry, g
  <2>2. QED
    BY <1>1, <1>2, <2>1, ScanKeepsTree, SeededByCaches
<1>8. CASE ExactGeometry
  <2>1. PICK done \in Ensured(dom, styled, viewport, "sheets", FALSE) : dom' = done[1]
    BY <1>8 DEF ExactGeometry
  <2>2. SameTree(dom, dom') /\ styles' = styles /\ geometry' = geometry /\ history' = history
    BY <1>1, <1>8, <2>1, EnsuredKeepsTree DEF ExactGeometry
  <2>3. QED
    BY <1>1, <2>2, SeededByCaches
<1>9. QED
  BY <1>4, <1>5, <1>6, <1>7, <1>8

LEMMA OtherStepsSeed ==
  ASSUME Seeded, Render \/ RebuildFails \/ SetLoaderOrFactory \/ LoadHtml, Sound(dom')
  PROVE  Seeded'
<1>1. /\ Sound(dom) /\ StylesSeeded(dom, styles, history.seededStyles)
      /\ BoxesSeeded(dom, geometry, history.seededBoxes)
      /\ DOMAIN history = {"crossed", "seededStyles", "seededBoxes"}
  BY SeededFacts
<1>2. \A d : StylesSeeded(d, NoStyles(d), {}) /\ BoxesSeeded(d, NoGeometry(d), {})
  BY DEF StylesSeeded, BoxesSeeded, NoStyles, NoGeometry
<1>3. CASE Render
  <2>1. PICK first \in Ensured(dom, styled, viewport', "full", FALSE) : dom' = first[1]
    BY <1>3 DEF Render
  <2>2. SameTree(dom, dom') /\ UNCHANGED <<styles, geometry, history>>
    BY <1>1, <1>3, <2>1, EnsuredKeepsTree DEF Render
  <2>3. QED
    BY <1>1, <2>2, SeededByCaches
<1>4. CASE RebuildFails
  <2>1. SameTree(dom, dom') /\ UNCHANGED <<styles, geometry, history>>
    BY <1>1, <1>4, ScanKeepsTree DEF RebuildFails
  <2>2. QED
    BY <1>1, <2>1, SeededByCaches
<1>5. CASE SetLoaderOrFactory
  <2>1. /\ dom' = dom /\ styles' = NoStyles(dom) /\ geometry' = NoGeometry(dom)
        /\ DOMAIN history' = DOMAIN history /\ history'.seededStyles = {} /\ history'.seededBoxes = {}
    BY <1>1, <1>5 DEF SetLoaderOrFactory, Invalidated, NoHistory
  <2>2. QED
    BY <1>1, <1>2, <2>1, ScanKeepsTree, SeededByCaches
<1>6. CASE LoadHtml
  <2>1. PICK t \in Documents : dom.next + Cardinality(DOMAIN t) <= MaxId + 1 /\ dom' = Parse(dom, t)
    BY <1>6 DEF LoadHtml
  <2>2. dom'.next <= MaxId + 1
    BY <2>1 DEF Parse
  <2>3. /\ styles' = NoStyles(dom) /\ geometry' = NoGeometry(dom)
        /\ DOMAIN history' = DOMAIN history /\ history'.seededStyles = {} /\ history'.seededBoxes = {}
    BY <1>1, <1>6 DEF LoadHtml, Invalidated, NoHistory
  <2>4. StylesSeeded(dom', styles', {}) /\ BoxesSeeded(dom', geometry', {})
    BY <2>3 DEF StylesSeeded, BoxesSeeded, NoStyles, NoGeometry
  <2>5. QED
    BY <1>1, <2>2, <2>3, <2>4 DEF Seeded
<1>7. QED
  BY <1>3, <1>4, <1>5, <1>6

LEMMA SeededAlways == Spec => []Seeded
<1>1. Init => Seeded
  <2> SUFFICES ASSUME Init PROVE Seeded
    OBVIOUS
  <2>1. PICK t \in Documents : dom = Parse(Blank, t)
    BY DEF Init
  <2>2. Sound(dom)
    <3>1. Blank.next \in Nat \ {0} /\ Blank.layout \in Nat
      BY DEF Blank
    <3>2. QED
      BY <2>1, <3>1, ParseFollows
  <2>3. dom.next <= MaxId + 1
    <3>1. Cardinality(DOMAIN t) \in Nat /\ Cardinality(DOMAIN t) <= MaxId
      BY StyleAssumption, FS_CardinalityType, DomAssumption DEF IsDocument
    <3>2. dom.next = 1 + Cardinality(DOMAIN t)
      BY <2>1 DEF Parse, Blank
    <3>3. QED
      BY <3>1, <3>2, DomAssumption
  <2>4. StylesSeeded(dom, styles, {}) /\ BoxesSeeded(dom, geometry, {})
    BY DEF Init, StylesSeeded, BoxesSeeded, NoStyles, NoGeometry
  <2>5. /\ DOMAIN history = {"crossed", "seededStyles", "seededBoxes"}
        /\ history.seededStyles = {} /\ history.seededBoxes = {}
    BY DEF Init, NoHistory
  <2>6. QED
    BY <2>2, <2>3, <2>4, <2>5 DEF Seeded
<1>2. Seeded /\ [Next]_vars => Seeded'
  <2> SUFFICES ASSUME Seeded, [Next]_vars PROVE Seeded'
    OBVIOUS
  <2>1. Sound(dom')
    BY StepFollows DEF Seeded, Follows
  <2>2. CASE UNCHANGED vars
    BY <2>2 DEF vars, Seeded, StylesSeeded, BoxesSeeded
  <2>3. CASE Read
    <3>1. CASE \E n \in Ids, p \in Props :
                 \/ ReadCurrentProperty(n, p) \/ ForceProperty(n, p)
                 \/ SnapshotProperty(n, p) \/ BoundedProperty(n, p)
                 \/ ReadDetachedStyle(n) \/ ReadStyle(n) \/ ReuseStyle(n)
      BY <2>1, <3>1, StyleReadsSeed
    <3>2. CASE \E n \in Ids : ReadDetachedStyle(n) \/ ReadStyle(n) \/ ReuseStyle(n)
      BY <2>1, <3>2, StyleReadsSeed
    <3>3. CASE \/ \E n \in Ids : \/ ReadDetachedGeometry(n) \/ ReadCurrentGeometry(n)
                                 \/ ForceGeometry(n) \/ BoundedGeometry(n)
               \/ ExactGeometry
      BY <2>1, <3>3, BoxReadsSeed
    <3>4. QED
      BY <2>3, <3>1, <3>2, <3>3, Zenon DEF Read
  <2>4. CASE Render \/ RebuildFails \/ SetLoaderOrFactory \/ LoadHtml
    BY <2>1, <2>4, OtherStepsSeed
  <2>5. CASE Mutate \/ Make
    BY <2>5, MutateSeeds, MakeSeeds
  <2>6. QED
    BY <2>2, <2>3, <2>4, <2>5, Zenon DEF Next
<1>3. QED
  BY <1>1, <1>2, PTL DEF Spec

\* Once a bounded mode trips, whatever was then in the document and has not been
\* found detached or forgotten since has an answer in it.
THEOREM BoundedModeAlwaysSeeded == Spec => []BoundedModeIsSeeded
BY SeededAlways, SeededIsEnough, PTL

-----------------------------------------------------------------------------
(* Trees.                                                                  *)

NodeFields == {"kind", "style", "mark", "val", "up", "kids"}
Typed(t) == \A m \in DOMAIN t : DOMAIN t[m] = NodeFields /\ t[m].kind \in NodeKinds
\* No node is above itself.
Ranks(t, rank) == \A m \in DOMAIN t : t[m].up # 0 => rank[t[m].up] < rank[m]
Ranked(t) == \E L \in Nat : \E rank \in [DOMAIN t -> 0..L] : Ranks(t, rank)
\* Ups and kids say the same.
Joined(t) ==
  /\ 0 \notin DOMAIN t
  /\ \A m \in DOMAIN t :
       /\ t[m].up \in DOMAIN t \cup {0} /\ t[m].kids \in Seq(DOMAIN t) /\ IsInjective(t[m].kids)
       /\ \A k \in DOMAIN t : k \in ToSet(t[m].kids) <=> t[k].up = m
\* What may stand where.
Fit(t, m, p) ==
  t[p].kind \notin {"text", "comment"} /\ (t[p].kind \in {"style", "script"} => t[m].kind = "text")
Placed(t) == \A m \in DOMAIN t : t[m].up # 0 => Fit(t, m, t[m].up)
Tree(t) == Typed(t) /\ Ranked(t) /\ Joined(t) /\ Placed(t)

Above(t, n) == ToSet(Chain(t, n))

\* What holds of a node if it holds of its parent holds of all.
LEMMA TreeInduction ==
  ASSUME NEW t, Tree(t), NEW S,
         \A m \in DOMAIN t : (t[m].up # 0 => t[m].up \in S) => m \in S
  PROVE  DOMAIN t \subseteq S
<1> SUFFICES ASSUME DOMAIN t \ S # {} PROVE FALSE
  OBVIOUS
<1>1. PICK rank \in [DOMAIN t -> Nat] : Ranks(t, rank)
  <2>1. PICK L \in Nat : \E rank \in [DOMAIN t -> 0..L] : Ranks(t, rank)
    BY DEF Tree, Ranked
  <2>2. PICK rank \in [DOMAIN t -> 0..L] : Ranks(t, rank)
    BY <2>1
  <2>3. rank \in [DOMAIN t -> Nat]
    BY <2>2
  <2>4. QED
    BY <2>2, <2>3
<1> DEFINE T == {rank[m] : m \in DOMAIN t \ S}
<1>2. T \in SUBSET Nat /\ T # {}
  OBVIOUS
<1>3. PICK k \in T : \A l \in T : k <= l
  <2> HIDE DEF T
  <2>1. QED
    BY <1>2, LeastNumber
<1>4. PICK m \in DOMAIN t \ S : k = rank[m]
  BY <1>3
<1>5. t[m].up # 0 /\ t[m].up \in DOMAIN t \ S
  BY <1>4 DEF Tree, Joined
<1>6. rank[t[m].up] \in T /\ rank[t[m].up] < rank[m]
  BY <1>1, <1>4, <1>5 DEF Ranks
<1>7. rank[t[m].up] \in Nat /\ rank[m] \in Nat
  BY <1>4, <1>5
<1> HIDE DEF T
<1>8. QED
  BY <1>3, <1>4, <1>6, <1>7

\* The recursion of Chain is well founded in a tree.
LEMMA ChainUnfolds ==
  ASSUME NEW t, Tree(t)
  PROVE  /\ Chain(t, 0) = <<>>
         /\ \A n \in DOMAIN t : /\ Chain(t, n) \in Seq(DOMAIN t)
                                /\ Chain(t, n) = <<n>> \o Chain(t, t[n].up)
<1> DEFINE D == DOMAIN t \cup {0}
           Q == Seq(DOMAIN t)
           V == [D -> Q]
           first == [m \in D |-> <<>>]
           On(f) == [m \in D |-> IF m = 0 THEN <<>> ELSE <<m>> \o f[t[m].up]]
           Step == [k \in Nat |-> [f \in V |-> On(f)]]
           Is(f) == f = [m \in D |-> IF m = 0 THEN <<>> ELSE <<m>> \o f[t[m].up]]
<1>1. 0 \notin DOMAIN t /\ \A m \in DOMAIN t : t[m].up \in D
  BY DEF Tree, Joined
<1>2. first \in V
  OBVIOUS
<1>3. \A f \in V : On(f) \in V
  <2> TAKE f \in V
  <2>1. \A m \in D : (IF m = 0 THEN <<>> ELSE <<m>> \o f[t[m].up]) \in Q
    <3> TAKE m \in D
    <3>1. CASE m = 0
      BY <3>1
    <3>2. CASE m # 0
      <4>1. f[t[m].up] \in Q /\ <<m>> \in Q
        BY <1>1, <3>2
      <4>2. QED
        BY <3>2, <4>1
    <3>3. QED
      BY <3>1, <3>2
  <2>2. QED
    BY <2>1
<1>4. Step \in [Nat -> [V -> V]]
  BY <1>3
<1>4a. PICK top \in Nat : \E rank \in [DOMAIN t -> 0..top] : Ranks(t, rank)
  BY DEF Tree, Ranked
<1>5. PICK rank \in [DOMAIN t -> 0..top] : Ranks(t, rank)
  BY <1>4a
<1>6. \A L \in Nat : \E f \in V :
        f[0] = <<>> /\ \A m \in DOMAIN t : rank[m] < L => f[m] = <<m>> \o f[t[m].up]
  <2> DEFINE Good(L, f) == f[0] = <<>> /\ \A m \in DOMAIN t : rank[m] < L => f[m] = <<m>> \o f[t[m].up]
             T == {L \in Nat : \E f \in V : Good(L, f)}
  <2>1. 0 \in T
    <3>1. Good(0, first)
      BY <1>5
    <3>2. QED
      BY <1>2, <3>1
  <2>2. ASSUME NEW L \in T PROVE L + 1 \in T
    <3>1. PICK f \in V : Good(L, f)
      OBVIOUS
    <3> DEFINE g == On(f)
    <3>2. g \in V
      BY <1>3
    <3>3. g[0] = <<>> /\ \A m \in DOMAIN t : g[m] = <<m>> \o f[t[m].up]
      BY <1>1
    <3>4. ASSUME NEW m \in DOMAIN t, rank[m] < L + 1 PROVE g[m] = <<m>> \o g[t[m].up]
      <4>1. g[t[m].up] = f[t[m].up]
        <5>1. CASE t[m].up = 0
          BY <3>1, <3>3, <5>1
        <5>2. CASE t[m].up # 0
          <6>1. t[m].up \in DOMAIN t /\ rank[t[m].up] < rank[m]
            BY <1>1, <1>5, <5>2 DEF Ranks
          <6>2. rank[t[m].up] \in Nat /\ rank[m] \in Nat /\ L \in Nat
            BY <1>5, <6>1
          <6>3. rank[t[m].up] < L
            BY <3>4, <6>1, <6>2
          <6>4. QED
            BY <3>1, <3>3, <6>1, <6>3
        <5>3. QED
          BY <5>1, <5>2
      <4>2. QED
        BY <3>3, <4>1
    <3> HIDE DEF g
    <3>5. Good(L + 1, g)
      BY <3>3, <3>4
    <3>6. L + 1 \in Nat
      OBVIOUS
    <3> HIDE DEF Good, V
    <3>7. QED
      BY <3>2, <3>5, <3>6
  <2>3. T = Nat
    <3> HIDE DEF T
    <3>1. T \in SUBSET Nat
      BY DEF T
    <3>2. QED
      BY <2>1, <2>2, <3>1, SetInduction
  <2>4. QED
    BY <2>3
<1>7. PICK f \in V : f[0] = <<>> /\ \A m \in DOMAIN t : f[m] = <<m>> \o f[t[m].up]
  <2>1. \A m \in DOMAIN t : rank[m] < top + 1
    BY <1>5
  <2>2. top + 1 \in Nat
    BY <1>5
  <2>3. QED
    BY <1>6, <2>1, <2>2
<1>8. Is(f)
  <2>1. \A m \in D : f[m] = IF m = 0 THEN <<>> ELSE <<m>> \o f[t[m].up]
    BY <1>1, <1>7
  <2>2. f = [m \in D |-> f[m]]
    BY <1>7
  <2>3. QED
    BY <2>1, <2>2, Zenon
<1> DEFINE h == CHOOSE g : Is(g)
<1>9. Is(h)
  BY <1>8
<1>10. \A n : Chain(t, n) = h[n]
  BY DEF Chain
<1> HIDE DEF h
<1>11. h[0] = <<>> /\ \A m \in DOMAIN t : h[m] = <<m>> \o h[t[m].up]
  <2>1. \A m \in D : h[m] = IF m = 0 THEN <<>> ELSE <<m>> \o h[t[m].up]
    BY <1>9, Zenon
  <2>2. QED
    BY <1>1, <2>1
<1>12. \A m \in DOMAIN t : h[m] \in Q
  <2> DEFINE S == {m \in DOMAIN t : h[m] \in Q}
  <2>1. ASSUME NEW m \in DOMAIN t, t[m].up # 0 => t[m].up \in S PROVE m \in S
    <3>1. h[t[m].up] \in Q
      <4>1. <<>> \in Q
        OBVIOUS
      <4>2. QED
        BY <1>1, <1>11, <2>1, <4>1
    <3>2. <<m>> \in Q
      OBVIOUS
    <3>3. <<m>> \o h[t[m].up] \in Q
      BY <3>1, <3>2
    <3>4. QED
      BY <1>11, <3>3
  <2> HIDE DEF S
  <2>2. DOMAIN t \subseteq S
    BY <2>1, TreeInduction
  <2>3. QED
    BY <2>2 DEF S
<1>13. QED
  BY <1>10, <1>11, <1>12

\* A node, and what is above it.
LEMMA AboveFacts ==
  ASSUME NEW t, Tree(t)
  PROVE  \A n \in DOMAIN t :
           /\ Above(t, n) = {n} \cup (IF t[n].up = 0 THEN {} ELSE Above(t, t[n].up))
           /\ Above(t, n) \subseteq DOMAIN t
<1> TAKE n \in DOMAIN t
<1>1. /\ Chain(t, 0) = <<>> /\ Chain(t, n) \in Seq(DOMAIN t)
      /\ Chain(t, n) = <<n>> \o Chain(t, t[n].up)
  BY ChainUnfolds
<1>2. t[n].up \in DOMAIN t \cup {0}
  BY DEF Tree, Joined
<1>3. Chain(t, t[n].up) \in Seq(DOMAIN t)
  BY <1>1, <1>2, ChainUnfolds
<1>4. ASSUME NEW s \in Seq(DOMAIN t) PROVE ToSet(<<n>> \o s) = {n} \cup ToSet(s)
  <2> DEFINE r == <<n>> \o s
  <2>1. /\ Len(r) = Len(s) + 1 /\ Len(s) \in Nat /\ DOMAIN r = 1..Len(r) /\ DOMAIN s = 1..Len(s)
        /\ r[1] = n /\ \A i \in 1..Len(s) : r[i + 1] = s[i]
    BY <1>4
  <2> HIDE DEF r
  <2>2. ToSet(r) \subseteq {n} \cup ToSet(s)
    <3>1. ASSUME NEW i \in DOMAIN r PROVE r[i] = n \/ \E j \in DOMAIN s : r[i] = s[j]
      <4>1. i = 1 \/ (i - 1 \in 1..Len(s) /\ r[(i - 1) + 1] = s[i - 1] /\ (i - 1) + 1 = i)
        BY <2>1
      <4>2. QED
        BY <2>1, <4>1
    <3>2. QED
      BY <3>1 DEF ToSet
  <2>3. {n} \cup ToSet(s) \subseteq ToSet(r)
    <3>1. \A j \in DOMAIN s : j + 1 \in DOMAIN r
      BY <2>1
    <3>2. 1 \in DOMAIN r
      BY <2>1
    <3>3. QED
      BY <2>1, <3>1, <3>2 DEF ToSet
  <2>4. QED
    BY <2>2, <2>3 DEF r
<1>5. ToSet(<<>>) = {}
  BY DEF ToSet
<1>6. Above(t, n) = {n} \cup Above(t, t[n].up)
  BY <1>1, <1>3, <1>4 DEF Above
<1>7. t[n].up = 0 => Above(t, t[n].up) = {}
  BY <1>1, <1>5 DEF Above
<1>8. \A s \in Seq(DOMAIN t) : ToSet(s) \subseteq DOMAIN t
  BY SeqFacts
<1>9. Above(t, n) \subseteq DOMAIN t
  BY <1>1, <1>8 DEF Above
<1>10. QED
  BY <1>6, <1>7, <1>9

\* Above is closed upwards.
LEMMA AboveTrans ==
  ASSUME NEW t, Tree(t)
  PROVE  \A n \in DOMAIN t : \A a \in Above(t, n) : Above(t, a) \subseteq Above(t, n)
<1> DEFINE S == {n \in DOMAIN t : \A a \in Above(t, n) : Above(t, a) \subseteq Above(t, n)}
<1>1. ASSUME NEW m \in DOMAIN t, t[m].up # 0 => t[m].up \in S PROVE m \in S
  <2>1. Above(t, m) = {m} \cup (IF t[m].up = 0 THEN {} ELSE Above(t, t[m].up))
    BY AboveFacts
  <2>2. ASSUME NEW a \in Above(t, m) PROVE Above(t, a) \subseteq Above(t, m)
    BY <1>1, <2>1
  <2>3. QED
    BY <2>2
<1>2. DOMAIN t \subseteq S
  <2> HIDE DEF S
  <2>1. QED
    BY <1>1, TreeInduction
<1>3. QED
  BY <1>2

\* A node above another has a child above it, unless they are the same.
LEMMA AboveSteps ==
  ASSUME NEW t, Tree(t)
  PROVE  \A n \in DOMAIN t : \A a \in Above(t, n) : a # n => \E k \in Above(t, n) : t[k].up = a
<1> DEFINE S == {n \in DOMAIN t : \A a \in Above(t, n) : a # n => \E k \in Above(t, n) : t[k].up = a}
<1>1. ASSUME NEW m \in DOMAIN t, t[m].up # 0 => t[m].up \in S PROVE m \in S
  <2>1. Above(t, m) = {m} \cup (IF t[m].up = 0 THEN {} ELSE Above(t, t[m].up))
    BY AboveFacts
  <2>2. ASSUME NEW a \in Above(t, m), a # m PROVE \E k \in Above(t, m) : t[k].up = a
    <3>1. t[m].up # 0 /\ a \in Above(t, t[m].up)
      BY <2>1, <2>2
    <3>2. CASE a = t[m].up
      BY <2>1, <3>2
    <3>3. CASE a # t[m].up
      <4>1. \E k \in Above(t, t[m].up) : t[k].up = a
        BY <1>1, <3>1, <3>3
      <4>2. QED
        BY <2>1, <3>1, <4>1
    <3>4. QED
      BY <3>2, <3>3
  <2>3. QED
    BY <2>2
<1>2. DOMAIN t \subseteq S
  <2> HIDE DEF S
  <2>1. QED
    BY <1>1, TreeInduction
<1>3. QED
  BY <1>2

LEMMA AboveRank ==
  ASSUME NEW t, Tree(t), NEW rank \in [DOMAIN t -> Nat], Ranks(t, rank)
  PROVE  \A n \in DOMAIN t : \A a \in Above(t, n) : rank[a] <= rank[n]
<1> DEFINE S == {n \in DOMAIN t : \A a \in Above(t, n) : rank[a] <= rank[n]}
<1>1. ASSUME NEW m \in DOMAIN t, t[m].up # 0 => t[m].up \in S PROVE m \in S
  <2>1. Above(t, m) = {m} \cup (IF t[m].up = 0 THEN {} ELSE Above(t, t[m].up))
    BY AboveFacts
  <2>2. Above(t, m) \subseteq DOMAIN t
    BY AboveFacts
  <2>3. ASSUME NEW a \in Above(t, m) PROVE rank[a] <= rank[m]
    <3>1. rank[a] \in Nat /\ rank[m] \in Nat
      BY <2>2
    <3>2. CASE a = m
      BY <3>1, <3>2
    <3>3. CASE a # m
      <4>1. t[m].up # 0 /\ a \in Above(t, t[m].up)
        BY <2>1, <3>3
      <4>2. rank[a] <= rank[t[m].up] /\ t[m].up \in DOMAIN t
        BY <1>1, <4>1
      <4>3. rank[t[m].up] < rank[m] /\ rank[t[m].up] \in Nat
        BY <4>1, <4>2 DEF Ranks
      <4>4. QED
        BY <3>1, <4>2, <4>3
    <3>4. QED
      BY <3>2, <3>3
  <2>4. QED
    BY <2>3
<1>2. DOMAIN t \subseteq S
  <2> HIDE DEF S
  <2>1. QED
    BY <1>1, TreeInduction
<1>3. QED
  BY <1>2

LEMMA NotAboveItself ==
  ASSUME NEW t, Tree(t), NEW n \in DOMAIN t, t[n].up # 0
  PROVE  n \notin Above(t, t[n].up) /\ t[n].up \in DOMAIN t /\ t[n].up # n
<1>1. PICK rank \in [DOMAIN t -> Nat] : Ranks(t, rank)
  <2>1. PICK L \in Nat : \E rank \in [DOMAIN t -> 0..L] : Ranks(t, rank)
    BY DEF Tree, Ranked
  <2>2. PICK rank \in [DOMAIN t -> 0..L] : Ranks(t, rank)
    BY <2>1
  <2>3. rank \in [DOMAIN t -> Nat]
    BY <2>2
  <2>4. QED
    BY <2>2, <2>3
<1>2. t[n].up \in DOMAIN t /\ rank[t[n].up] < rank[n]
  BY <1>1 DEF Ranks, Tree, Joined
<1>3. \A a \in Above(t, t[n].up) : rank[a] <= rank[t[n].up]
  BY <1>1, <1>2, AboveRank
<1>4. rank[n] \in Nat /\ rank[t[n].up] \in Nat
  BY <1>1, <1>2
<1>5. QED
  BY <1>2, <1>3, <1>4

\* A text or a comment is above nothing else, a style or a script only above
\* its own texts.
LEMMA AboveKinds ==
  ASSUME NEW t, Tree(t), NEW n \in DOMAIN t, NEW a \in Above(t, n), a # n
  PROVE  /\ a \in DOMAIN t /\ t[a].kind \notin {"text", "comment"}
         /\ t[a].kind \in {"style", "script"} => t[n].up = a /\ t[n].kind = "text"
<1>1. Above(t, n) \subseteq DOMAIN t
  BY AboveFacts
<1>2. ASSUME NEW b \in Above(t, n), b # n
      PROVE  \E k \in Above(t, n) : t[k].up = b /\ k \in DOMAIN t /\ t[k].up # 0 /\ Fit(t, k, b)
  <2>1. PICK k \in Above(t, n) : t[k].up = b
    BY <1>2, AboveSteps
  <2>2. b # 0
    BY <1>1 DEF Tree, Joined
  <2>3. QED
    BY <1>1, <2>1, <2>2 DEF Tree, Placed
<1>3. \A b \in Above(t, n) : b # n => t[b].kind \notin {"text", "comment"}
  BY <1>2 DEF Fit
<1>4. ASSUME t[a].kind \in {"style", "script"} PROVE t[n].up = a /\ t[n].kind = "text"
  <2>1. PICK k \in Above(t, n) : t[k].up = a /\ Fit(t, k, a)
    BY <1>2
  <2>2. t[k].kind = "text"
    BY <1>4, <2>1 DEF Fit
  <2>3. k = n
    BY <1>3, <2>2
  <2>4. QED
    BY <2>1, <2>2, <2>3
<1>5. QED
  BY <1>1, <1>3, <1>4

-----------------------------------------------------------------------------
(* What the marking rules say of a tree, told by a node and its parent.    *)

\* n is a text of p's kind of element.
TextIn(t, n, kinds) == t[n].kind = "text" /\ t[n].up # 0 /\ t[t[n].up].kind \in kinds

LEMMA AffectsFacts ==
  ASSUME NEW t, Tree(t), NEW n \in DOMAIN t
  PROVE  NodeAffectsLayout(t, n)
           <=> t[n].kind \notin {"comment", "script"} /\ ~TextIn(t, n, {"head", "script"})
<1>1. /\ n \in Above(t, n) /\ Above(t, n) \subseteq DOMAIN t
      /\ t[n].up # 0 => t[n].up \in Above(t, n)
  <2>1. t[n].up # 0 => t[n].up \in DOMAIN t
    BY DEF Tree, Joined
  <2>2. QED
    BY <2>1, AboveFacts
<1>2. (\A m \in Above(t, n) : t[m].kind # "script") <=> t[n].kind # "script" /\ ~TextIn(t, n, {"script"})
  <2>1. ASSUME NEW m \in Above(t, n), t[m].kind = "script"
        PROVE  t[n].kind = "script" \/ TextIn(t, n, {"script"})
    <3>1. CASE m = n
      BY <2>1, <3>1
    <3>2. CASE m # n
      <4>1. t[n].up = m /\ t[n].kind = "text" /\ m \in DOMAIN t
        BY <2>1, <3>2, AboveKinds
      <4>2. m # 0
        BY <4>1 DEF Tree, Joined
      <4>3. QED
        BY <2>1, <4>1, <4>2 DEF TextIn
    <3>3. QED
      BY <3>1, <3>2
  <2>2. QED
    BY <1>1, <2>1 DEF TextIn
<1>3. QED
  BY <1>2 DEF NodeAffectsLayout, TextIn, Above

LEMMA SheetFacts ==
  ASSUME NEW t, Tree(t), NEW n \in DOMAIN t
  PROVE  (\E a \in Above(t, n) : t[a].kind = "style") <=> t[n].kind = "style" \/ TextIn(t, n, {"style"})
<1>1. /\ n \in Above(t, n) /\ Above(t, n) \subseteq DOMAIN t
      /\ t[n].up # 0 => t[n].up \in Above(t, n)
  <2>1. t[n].up # 0 => t[n].up \in DOMAIN t
    BY DEF Tree, Joined
  <2>2. QED
    BY <2>1, AboveFacts
<1>2. ASSUME NEW m \in Above(t, n), t[m].kind = "style"
      PROVE  t[n].kind = "style" \/ TextIn(t, n, {"style"})
  <2>1. CASE m = n
    BY <1>2, <2>1
  <2>2. CASE m # n
    <3>1. t[n].up = m /\ t[n].kind = "text" /\ m \in DOMAIN t
      BY <1>2, <2>2, AboveKinds
    <3>2. m # 0
      BY <3>1 DEF Tree, Joined
    <3>3. QED
      BY <1>2, <3>1, <3>2 DEF TextIn
  <2>3. QED
    BY <2>1, <2>2
<1>3. QED
  BY <1>1, <1>2 DEF TextIn

-----------------------------------------------------------------------------
(* What moves a node, and what a tree is after it.                         *)

\* y is x, perhaps elsewhere.
Like(x, y) ==
  DOMAIN y = NodeFields /\ y.kind = x.kind /\ y.style = x.style /\ y.mark = x.mark /\ y.val = x.val

\* u is t after the move that takes c off, or puts it under p.
TakenOff(t, u, c) ==
  /\ DOMAIN u = DOMAIN t
  /\ \A m \in DOMAIN t :
       /\ Like(t[m], u[m])
       /\ u[m].up = IF m = c THEN 0 ELSE t[m].up
       /\ u[m].kids = IF m = t[c].up THEN Kept(t[m].kids, DOMAIN t \ {c}) ELSE t[m].kids
PutUnder(t, u, p, c, i) ==
  /\ DOMAIN u = DOMAIN t
  /\ \A m \in DOMAIN t :
       /\ Like(t[m], u[m])
       /\ u[m].up = IF m = c THEN p ELSE t[m].up
       /\ u[m].kids = IF m = p THEN InsertAt(t[p].kids, i, c) ELSE t[m].kids

LEMMA DetachShape ==
  ASSUME NEW t, Tree(t), NEW c \in DOMAIN t
  PROVE  TakenOff(t, Detach(t, c), c)
<1>1. \A m \in DOMAIN t : DOMAIN t[m] = NodeFields
  BY DEF Tree, Typed
<1>2. CASE t[c].up = 0
  <2>1. Detach(t, c) = t
    BY <1>2 DEF Detach
  <2>2. \A m \in DOMAIN t : Like(t[m], t[m]) /\ m # 0
    BY <1>1 DEF Like, Tree, Joined
  <2>3. QED
    BY <1>2, <2>1, <2>2 DEF TakenOff
<1>3. CASE t[c].up # 0
  <2> DEFINE a == t[c].up
             kids == Kept(t[a].kids, DOMAIN t \ {c})
             v == [t EXCEPT ![a].kids = kids]
             u == [v EXCEPT ![c].up = 0]
  <2>1. a \in DOMAIN t /\ a # c
    BY <1>3, NotAboveItself
  <2>2. Detach(t, c) = u
    <3>1. Detach(t, c) = [t EXCEPT ![t[c].up].kids = Kept(@, DOMAIN t \ {c}), ![c].up = 0]
      BY <1>3 DEF Detach
    <3>2. QED
      BY <3>1
  <2> HIDE DEF a, kids
  <2>3. /\ DOMAIN v = DOMAIN t
        /\ \A m \in DOMAIN t : /\ Like(t[m], v[m]) /\ v[m].up = t[m].up
                               /\ v[m].kids = IF m = a THEN kids ELSE t[m].kids
    BY <1>1, <2>1 DEF Like, NodeFields
  <2> HIDE DEF v
  <2>4. \A m \in DOMAIN v : DOMAIN v[m] = NodeFields
    BY <2>3 DEF Like
  <2>5. /\ DOMAIN u = DOMAIN v
        /\ \A m \in DOMAIN v : /\ Like(v[m], u[m]) /\ u[m].up = IF m = c THEN 0 ELSE v[m].up
                               /\ u[m].kids = v[m].kids
    BY <2>1, <2>3, <2>4 DEF Like, NodeFields
  <2> HIDE DEF u
  <2>6. ASSUME NEW m \in DOMAIN t
        PROVE  /\ Like(t[m], u[m]) /\ u[m].up = IF m = c THEN 0 ELSE t[m].up
               /\ u[m].kids = IF m = a THEN kids ELSE t[m].kids
    BY <2>3, <2>5 DEF Like
  <2>7. \A m \in DOMAIN t : m = a => kids = Kept(t[m].kids, DOMAIN t \ {c})
    BY DEF kids
  <2>8. TakenOff(t, u, c)
    BY <2>3, <2>5, <2>6, <2>7 DEF TakenOff, a
  <2>9. QED
    BY <2>2, <2>8
<1>4. QED
  BY <1>2, <1>3

LEMMA PlaceShape ==
  ASSUME NEW t, \A m \in DOMAIN t : DOMAIN t[m] = NodeFields,
         NEW p \in DOMAIN t, NEW c \in DOMAIN t, p # c, NEW i
  PROVE  PutUnder(t, PlaceAt(t, p, c, i), p, c, i)
<1> DEFINE kids == InsertAt(t[p].kids, i, c)
           v == [t EXCEPT ![p].kids = kids]
           u == [v EXCEPT ![c].up = p]
<1>1. PlaceAt(t, p, c, i) = u
  BY DEF PlaceAt
<1> HIDE DEF kids
<1>2. /\ DOMAIN v = DOMAIN t
      /\ \A m \in DOMAIN t : /\ Like(t[m], v[m]) /\ v[m].up = t[m].up
                             /\ v[m].kids = IF m = p THEN kids ELSE t[m].kids
  BY DEF Like, NodeFields
<1> HIDE DEF v
<1>3. \A m \in DOMAIN v : DOMAIN v[m] = NodeFields
  BY <1>2 DEF Like
<1>4. /\ DOMAIN u = DOMAIN v
      /\ \A m \in DOMAIN v : /\ Like(v[m], u[m]) /\ u[m].up = IF m = c THEN p ELSE v[m].up
                             /\ u[m].kids = v[m].kids
  BY <1>2, <1>3 DEF Like, NodeFields
<1> HIDE DEF u
<1>5. ASSUME NEW m \in DOMAIN t
      PROVE  /\ Like(t[m], u[m]) /\ u[m].up = IF m = c THEN p ELSE t[m].up
             /\ u[m].kids = IF m = p THEN kids ELSE t[m].kids
  BY <1>2, <1>4 DEF Like
<1>6. PutUnder(t, u, p, c, i)
  BY <1>2, <1>4, <1>5 DEF PutUnder, kids
<1>7. QED
  BY <1>1, <1>6

\* Only what hangs where is told of a tree by these.
LEMMA RetouchedTree ==
  ASSUME NEW t, Tree(t), NEW u, DOMAIN u = DOMAIN t,
         \A m \in DOMAIN t : /\ DOMAIN u[m] = NodeFields /\ u[m].kind = t[m].kind
                             /\ u[m].up = t[m].up /\ u[m].kids = t[m].kids
  PROVE  Tree(u)
<1>1. Typed(u) /\ Placed(u) /\ Joined(u)
  BY DEF Tree, Typed, Placed, Fit, Joined
<1>2. Ranked(u)
  BY DEF Tree, Ranked, Ranks
<1>3. QED
  BY <1>1, <1>2 DEF Tree

LEMMA TakenOffTree ==
  ASSUME NEW t, Tree(t), NEW c \in DOMAIN t, NEW u, TakenOff(t, u, c)
  PROVE  Tree(u)
<1> DEFINE D == DOMAIN t
<1>1. DOMAIN u = D /\ \A m \in D : Like(t[m], u[m])
  BY DEF TakenOff
<1>2. \A m \in D : u[m].up = IF m = c THEN 0 ELSE t[m].up
  BY DEF TakenOff
<1>3. \A m \in D : u[m].kids = IF m = t[c].up THEN Kept(t[m].kids, D \ {c}) ELSE t[m].kids
  BY DEF TakenOff
<1>4. /\ 0 \notin D
      /\ \A m \in D : /\ t[m].up \in D \cup {0} /\ t[m].kids \in Seq(D) /\ IsInjective(t[m].kids)
                      /\ \A k \in D : k \in ToSet(t[m].kids) <=> t[k].up = m
  BY DEF Tree, Joined
<1>5. Typed(u)
  BY <1>1 DEF Tree, Typed, Like
<1>6. Placed(u)
  BY <1>1, <1>2, <1>4 DEF Tree, Placed, Fit, Like
<1>7. Ranked(u)
  <2>1. PICK L \in Nat : \E rank \in [D -> 0..L] : Ranks(t, rank)
    BY DEF Tree, Ranked
  <2>2. PICK rank \in [D -> 0..L] : Ranks(t, rank)
    BY <2>1
  <2>3. Ranks(u, rank)
    BY <1>1, <1>2, <2>2 DEF Ranks
  <2>4. QED
    BY <1>1, <2>2, <2>3 DEF Ranked
<1>8. ASSUME NEW m \in D
      PROVE  /\ u[m].kids \in Seq(D) /\ IsInjective(u[m].kids)
             /\ \A k \in D : k \in ToSet(u[m].kids) <=> u[k].up = m
  <2>1. CASE m # t[c].up
    <3>1. u[m].kids = t[m].kids /\ m # 0
      BY <1>3, <1>4, <2>1
    <3>2. QED
      BY <1>2, <1>4, <2>1, <3>1
  <2>2. CASE m = t[c].up
    <3> DEFINE s == t[m].kids
               q == Kept(s, D \ {c})
    <3>1. s \in Seq(D) /\ IsInjective(s)
      BY <1>4
    <3>2. u[m].kids = q /\ m # 0
      BY <1>3, <1>4, <2>2
    <3> HIDE DEF s
    <3>3. q \in Seq(D) /\ ToSet(q) = ToSet(s) \cap (D \ {c})
      BY <3>1, KeptFacts
    <3>4. IsInjective(q)
      BY <3>1, KeptApart
    <3> HIDE DEF q
    <3>5. \A k \in D : k \in ToSet(s) <=> t[k].up = m
      BY <1>4 DEF s
    <3>6. QED
      BY <1>2, <3>2, <3>3, <3>4, <3>5
  <2>3. QED
    BY <2>1, <2>2
<1>9. Joined(u)
  BY <1>1, <1>2, <1>4, <1>8 DEF Joined
<1>10. QED
  BY <1>5, <1>6, <1>7, <1>9 DEF Tree

LEMMA PutUnderTree ==
  ASSUME NEW t, Tree(t), NEW p \in DOMAIN t, NEW c \in DOMAIN t, t[c].up = 0,
         c \notin Above(t, p), Fit(t, c, p), NEW i \in 1..Len(t[p].kids) + 1,
         NEW u, PutUnder(t, u, p, c, i)
  PROVE  Tree(u)
<1> DEFINE D == DOMAIN t
<1>1. DOMAIN u = D /\ \A m \in D : Like(t[m], u[m])
  BY DEF PutUnder
<1>2. \A m \in D : u[m].up = IF m = c THEN p ELSE t[m].up
  BY DEF PutUnder
<1>3. \A m \in D : u[m].kids = IF m = p THEN InsertAt(t[p].kids, i, c) ELSE t[m].kids
  BY DEF PutUnder
<1>4. /\ 0 \notin D
      /\ \A m \in D : /\ t[m].up \in D \cup {0} /\ t[m].kids \in Seq(D) /\ IsInjective(t[m].kids)
                      /\ \A k \in D : k \in ToSet(t[m].kids) <=> t[k].up = m
  BY DEF Tree, Joined
<1>5. Typed(u)
  BY <1>1 DEF Tree, Typed, Like
<1>6. Placed(u)
  <2>1. \A m, a \in D : Fit(t, m, a) => Fit(u, m, a)
    BY <1>1 DEF Fit, Like
  <2>2. \A m \in D : t[m].up # 0 => t[m].up \in D /\ Fit(t, m, t[m].up)
    BY <1>4 DEF Tree, Placed
  <2>3. QED
    BY <1>1, <1>2, <2>1, <2>2 DEF Placed
<1>7. Ranked(u)
  <2>1. PICK L \in Nat : \E rank \in [D -> 0..L] : Ranks(t, rank)
    BY DEF Tree, Ranked
  <2>2. PICK rank \in [D -> 0..L] : Ranks(t, rank)
    BY <2>1
  <2> DEFINE lifted == [m \in D |-> IF c \in Above(t, m) THEN rank[m] + L + 1 ELSE rank[m]]
             top == L + L + 1
  <2>3. \A m \in D : rank[m] \in 0..L
    BY <2>2
  <2>4. lifted \in [D -> 0..top] /\ top \in Nat
    BY <2>1, <2>3
  <2>5. ASSUME NEW m \in D, u[m].up # 0 PROVE lifted[u[m].up] < lifted[m]
    <3>1. CASE m = c
      <4>1. u[m].up = p /\ c \in Above(t, c)
        BY <1>2, <3>1, AboveFacts
      <4>2. QED
        BY <2>1, <2>3, <3>1, <4>1
    <3>2. CASE m # c
      <4>1. u[m].up = t[m].up /\ t[m].up # 0 /\ t[m].up \in D
        BY <1>2, <1>4, <2>5, <3>2
      <4>2. c \in Above(t, m) <=> c \in Above(t, t[m].up)
        BY <3>2, <4>1, AboveFacts
      <4>3. rank[t[m].up] < rank[m]
        BY <2>2, <4>1 DEF Ranks
      <4>4. QED
        BY <2>1, <2>3, <4>1, <4>2, <4>3
    <3>3. QED
      BY <3>1, <3>2
  <2> HIDE DEF lifted, top
  <2>6. Ranks(u, lifted)
    BY <1>1, <2>5 DEF Ranks
  <2>7. QED
    BY <1>1, <2>4, <2>6 DEF Ranked
<1>8. ASSUME NEW m \in D
      PROVE  /\ u[m].kids \in Seq(D) /\ IsInjective(u[m].kids)
             /\ \A k \in D : k \in ToSet(u[m].kids) <=> u[k].up = m
  <2>1. CASE m # p
    <3>1. u[m].kids = t[m].kids
      BY <1>3, <2>1
    <3>2. \A k \in D : u[k].up = m <=> t[k].up = m
      BY <1>2, <1>4, <2>1
    <3>3. QED
      BY <1>4, <3>1, <3>2
  <2>2. CASE m = p
    <3> DEFINE s == t[p].kids
               q == InsertAt(s, i, c)
    <3>1. s \in Seq(D) /\ IsInjective(s) /\ i \in 1..Len(s) + 1
      BY <1>4
    <3>2. u[m].kids = q
      BY <1>3, <2>2
    <3>3. \A k \in D : k \in ToSet(s) <=> t[k].up = p
      BY <1>4
    <3>4. c \notin ToSet(s)
      BY <1>4, <3>3
    <3> HIDE DEF s
    <3>5. q \in Seq(D) /\ ToSet(q) = ToSet(s) \cup {c}
      BY <3>1, InsertFacts
    <3>6. IsInjective(q)
      BY <3>1, <3>4, InsertApart
    <3> HIDE DEF q
    <3>7. QED
      BY <1>2, <2>2, <3>2, <3>3, <3>5, <3>6
  <2>3. QED
    BY <2>1, <2>2
<1>9. Joined(u)
  BY <1>1, <1>2, <1>4, <1>8, ZenonT(40) DEF Joined
<1>10. QED
  BY <1>5, <1>6, <1>7, <1>9 DEF Tree

LEMMA AdoptedTree ==
  ASSUME NEW t, Tree(t), NEW x, x \notin DOMAIN t, x # 0, NEW node,
         DOMAIN node = NodeFields, node.kind \in NodeKinds, node.up = 0, node.kids = <<>>,
         NEW u, DOMAIN u = DOMAIN t \cup {x}, u[x] = node, \A m \in DOMAIN t : u[m] = t[m]
  PROVE  Tree(u)
<1> DEFINE D == DOMAIN t
           E == D \cup {x}
<1>1. /\ 0 \notin D
      /\ \A m \in D : /\ t[m].up \in D \cup {0} /\ t[m].kids \in Seq(D) /\ IsInjective(t[m].kids)
                      /\ \A k \in D : k \in ToSet(t[m].kids) <=> t[k].up = m
  BY DEF Tree, Joined
<1>2. Typed(u) /\ Placed(u)
  BY <1>1 DEF Tree, Typed, Placed, Fit
<1>3. Ranked(u)
  <2>1. PICK L \in Nat : \E rank \in [D -> 0..L] : Ranks(t, rank)
    BY DEF Tree, Ranked
  <2>2. PICK rank \in [D -> 0..L] : Ranks(t, rank)
    BY <2>1
  <2> DEFINE more == [m \in E |-> IF m = x THEN 0 ELSE rank[m]]
  <2>3. more \in [E -> 0..L] /\ \A m \in D : more[m] = rank[m]
    BY <2>1, <2>2
  <2> HIDE DEF more
  <2>4. Ranks(u, more)
    BY <1>1, <2>2, <2>3 DEF Ranks
  <2>5. QED
    BY <2>1, <2>3, <2>4 DEF Ranked
<1>4. <<>> \in Seq(E) /\ ToSet(<<>>) = {} /\ IsInjective(<<>>)
  BY DEF ToSet, IsInjective
<1>5. \A m \in D : t[m].kids \in Seq(E) /\ x \notin ToSet(t[m].kids)
  <2>1. \A s \in Seq(D) : s \in Seq(E) /\ ToSet(s) \subseteq D
    BY SeqFacts
  <2>2. QED
    BY <1>1, <2>1
<1>6. Joined(u)
  <2>1. \A m \in E : u[m].up \in E \cup {0} /\ u[m].kids \in Seq(E) /\ IsInjective(u[m].kids)
    <3>1. u[x].up \in E \cup {0} /\ u[x].kids \in Seq(E) /\ IsInjective(u[x].kids)
      BY <1>4
    <3>2. \A m \in D : u[m].up \in E \cup {0} /\ u[m].kids \in Seq(E) /\ IsInjective(u[m].kids)
      BY <1>1, <1>5
    <3>3. QED
      BY <3>1, <3>2
  <2>2. \A m, k \in E : k \in ToSet(u[m].kids) <=> u[k].up = m
    BY <1>1, <1>4, <1>5
  <2>3. QED
    BY <1>1, <2>1, <2>2 DEF Joined
<1>7. QED
  BY <1>2, <1>3, <1>6 DEF Tree

LEMMA EmptiedShape ==
  ASSUME NEW t, Tree(t), NEW n \in DOMAIN t
  PROVE  /\ DOMAIN Emptied(t, n) = DOMAIN t
         /\ \A m \in DOMAIN t : /\ Like(t[m], Emptied(t, n)[m])
                                /\ Emptied(t, n)[m].up = IF t[m].up = n THEN 0 ELSE t[m].up
                                /\ Emptied(t, n)[m].kids = IF m = n THEN <<>> ELSE t[m].kids
<1>1. \A m \in DOMAIN t : DOMAIN t[m] = NodeFields
  BY DEF Tree, Typed
<1>2. t[n].up # n
  BY NotAboveItself DEF Tree, Joined
<1>3. QED
  BY <1>1, <1>2 DEF Emptied, Like, NodeFields

LEMMA EmptiedTree ==
  ASSUME NEW t, Tree(t), NEW n \in DOMAIN t
  PROVE  Tree(Emptied(t, n))
<1> DEFINE D == DOMAIN t
           u == Emptied(t, n)
<1>1. /\ DOMAIN u = D
      /\ \A m \in D : /\ Like(t[m], u[m]) /\ u[m].up = (IF t[m].up = n THEN 0 ELSE t[m].up)
                      /\ u[m].kids = (IF m = n THEN <<>> ELSE t[m].kids)
  BY EmptiedShape
<1> HIDE DEF u
<1>2. /\ 0 \notin D
      /\ \A m \in D : /\ t[m].up \in D \cup {0} /\ t[m].kids \in Seq(D) /\ IsInjective(t[m].kids)
                      /\ \A k \in D : k \in ToSet(t[m].kids) <=> t[k].up = m
  BY DEF Tree, Joined
<1>3. Typed(u) /\ Placed(u)
  <2>1. Typed(u)
    BY <1>1 DEF Tree, Typed, Like
  <2>2. \A m, a \in D : Fit(t, m, a) => Fit(u, m, a)
    BY <1>1 DEF Fit, Like
  <2>3. \A m \in D : t[m].up # 0 => t[m].up \in D /\ Fit(t, m, t[m].up)
    BY <1>2 DEF Tree, Placed
  <2>4. QED
    BY <1>1, <2>1, <2>2, <2>3 DEF Placed
<1>4. Ranked(u)
  <2>1. PICK L \in Nat : \E rank \in [D -> 0..L] : Ranks(t, rank)
    BY DEF Tree, Ranked
  <2>2. PICK rank \in [D -> 0..L] : Ranks(t, rank)
    BY <2>1
  <2>3. Ranks(u, rank)
    BY <1>1, <2>2 DEF Ranks
  <2>4. QED
    BY <1>1, <2>2, <2>3 DEF Ranked
<1>5. <<>> \in Seq(D) /\ ToSet(<<>>) = {} /\ IsInjective(<<>>)
  BY DEF ToSet, IsInjective
<1>6. Joined(u)
  <2>1. \A m \in D : u[m].up \in D \cup {0} /\ u[m].kids \in Seq(D) /\ IsInjective(u[m].kids)
    BY <1>1, <1>2, <1>5
  <2>2. \A m, k \in D : k \in ToSet(u[m].kids) <=> u[k].up = m
    BY <1>1, <1>2, <1>5
  <2>3. QED
    BY <1>1, <1>2, <2>1, <2>2 DEF Joined
<1>7. QED
  BY <1>3, <1>4, <1>6 DEF Tree, u

\* A subtree is what hangs below its node and that node.
LEMMA SubtreeFacts ==
  ASSUME NEW t, Tree(t), NEW n \in DOMAIN t
  PROVE  /\ Subtree(t, n) = {m \in DOMAIN t : n \in Above(t, m)} /\ n \in Subtree(t, n)
         /\ \A m \in DOMAIN t : m # n => (m \in Subtree(t, n) <=> t[m].up \in Subtree(t, n))
         /\ t[n].up \notin Subtree(t, n)
<1>1. Subtree(t, n) = {m \in DOMAIN t : n \in Above(t, m)}
  BY DEF Subtree, Covers, Above
<1>2. ASSUME NEW m \in DOMAIN t, m # n PROVE m \in Subtree(t, n) <=> t[m].up \in Subtree(t, n)
  <2>1. Above(t, m) = {m} \cup (IF t[m].up = 0 THEN {} ELSE Above(t, t[m].up))
    BY AboveFacts
  <2>2. t[m].up \in DOMAIN t \cup {0} /\ 0 \notin DOMAIN t
    BY DEF Tree, Joined
  <2>3. QED
    BY <1>1, <1>2, <2>1, <2>2
<1>3. n \in Above(t, n)
  BY AboveFacts
<1>4. t[n].up \notin Subtree(t, n)
  <2>1. 0 \notin DOMAIN t
    BY DEF Tree, Joined
  <2>2. QED
    BY <1>1, <2>1, NotAboveItself
<1>5. QED
  BY <1>1, <1>2, <1>3, <1>4

\* u is t without what hangs below n.
Dropped(t, u, n, old) ==
  /\ old = Subtree(t, n) \ {n} /\ DOMAIN u = DOMAIN t \ old
  /\ \A m \in DOMAIN t \ old : /\ Like(t[m], u[m]) /\ u[m].up = t[m].up
                               /\ u[m].kids = IF m = n THEN <<>> ELSE t[m].kids

LEMMA DroppedTree ==
  ASSUME NEW t, Tree(t), NEW n \in DOMAIN t, NEW old, NEW u, Dropped(t, u, n, old)
  PROVE  Tree(u)
<1> DEFINE D == DOMAIN t
           E == D \ old
<1> USE DEF Dropped
<1>1. /\ 0 \notin D
      /\ \A m \in D : /\ t[m].up \in D \cup {0} /\ t[m].kids \in Seq(D) /\ IsInjective(t[m].kids)
                      /\ \A k \in D : k \in ToSet(t[m].kids) <=> t[k].up = m
  BY DEF Tree, Joined
<1>2. \A m \in E : t[m].up \in E \cup {0} /\ t[m].up # n
  <2>1. \A m \in D : m # n => (m \in Subtree(t, n) <=> t[m].up \in Subtree(t, n))
    BY SubtreeFacts
  <2>2. n \in Subtree(t, n) /\ t[n].up \notin Subtree(t, n)
    BY SubtreeFacts
  <2>3. QED
    BY <1>1, <2>1, <2>2
<1>3. \A m \in E \ {n} : \A k \in D : t[k].up = m => k \in E
  <2>1. \A k \in D : k # n => (k \in Subtree(t, n) <=> t[k].up \in Subtree(t, n))
    BY SubtreeFacts
  <2>2. QED
    BY <2>1
<1>4. Typed(u) /\ Placed(u)
  <2>1. Typed(u)
    BY DEF Tree, Typed, Like
  <2>2. \A m, a \in E : Fit(t, m, a) => Fit(u, m, a)
    BY DEF Fit, Like
  <2>3. \A m \in E : t[m].up # 0 => t[m].up \in E /\ Fit(t, m, t[m].up)
    BY <1>2 DEF Tree, Placed
  <2>4. QED
    BY <2>1, <2>2, <2>3 DEF Placed
<1>5. Ranked(u)
  <2>1. PICK L \in Nat : \E rank \in [D -> 0..L] : Ranks(t, rank)
    BY DEF Tree, Ranked
  <2>2. PICK rank \in [D -> 0..L] : Ranks(t, rank)
    BY <2>1
  <2> DEFINE less == [m \in E |-> rank[m]]
  <2>3. less \in [E -> 0..L] /\ \A m \in E : less[m] = rank[m]
    BY <2>2
  <2> HIDE DEF less
  <2>4. Ranks(u, less)
    BY <1>2, <2>2, <2>3 DEF Ranks
  <2>5. QED
    BY <2>1, <2>3, <2>4 DEF Ranked
<1>6. <<>> \in Seq(E) /\ ToSet(<<>>) = {} /\ IsInjective(<<>>)
  BY DEF ToSet, IsInjective
<1>7. \A m \in E \ {n} : t[m].kids \in Seq(E)
  <2> TAKE m \in E \ {n}
  <2> DEFINE s == t[m].kids
  <2>1. s \in Seq(D) /\ ToSet(s) \subseteq E
    <3>1. s \in Seq(D) /\ \A k \in D : k \in ToSet(s) <=> t[k].up = m
      BY <1>1
    <3>2. ToSet(s) \subseteq D
      BY <3>1, SeqFacts
    <3>3. QED
      BY <1>3, <3>1, <3>2
  <2> HIDE DEF s, E
  <2>2. \A i \in 1..Len(s) : s[i] \in E
    BY <2>1 DEF ToSet
  <2>3. s \in Seq(E)
    BY <2>1, <2>2
  <2>4. QED
    BY <2>3 DEF s
<1>8. Joined(u)
  <2>1. \A m \in E : u[m].up \in E \cup {0} /\ u[m].kids \in Seq(E) /\ IsInjective(u[m].kids)
    BY <1>1, <1>2, <1>6, <1>7, ZenonT(40)
  <2>2. \A m, k \in E : k \in ToSet(u[m].kids) <=> u[k].up = m
    BY <1>1, <1>2, <1>6
  <2>3. QED
    BY <1>1, <2>1, <2>2 DEF Joined
<1>9. QED
  BY <1>4, <1>5, <1>8 DEF Tree

LEMMA NumberedTree ==
  ASSUME NEW t, IsDocument(t), NEW from \in Nat
  PROVE  /\ Tree(Numbered(t, from)) /\ DOMAIN Numbered(t, from) = {from + n : n \in DOMAIN t}
         /\ from + 1 \in DOMAIN Numbered(t, from)
         /\ Numbered(t, from)[from + 1].kind = "doc" /\ Numbered(t, from)[from + 1].up = 0
<1> DEFINE D == DOMAIN t
           E == {from + n : n \in D}
           u == Numbered(t, from)
           size == Cardinality(D)
<1>1. /\ size \in Nat /\ D = 1..size /\ 1 \in D
      /\ t[1].kind = "doc" /\ t[1].up = 0
  <2>1. size \in Nat /\ D = 1..size /\ size \in 1..MaxId /\ t[1].kind = "doc"
    BY FS_CardinalityType DEF IsDocument
  <2> HIDE DEF size, D
  <2>2. 1 \in D
    BY <2>1, DomAssumption
  <2>3. t[1].up = 0
    BY <2>2 DEF IsDocument, D
  <2>4. QED
    BY <2>1, <2>2, <2>3
<1>2. \A n \in D : /\ DOMAIN t[n] = NodeFields /\ t[n].kind \in NodeKinds
                   /\ t[n].up \in 0..(n - 1) /\ (t[n].up = 0 <=> n = 1)
                   /\ t[n].kids \in Seq(D) /\ IsInjective(t[n].kids)
  BY DEF IsDocument, Node, NodeFields
<1>3. \A n, m \in D : m \in ToSet(t[n].kids) <=> t[m].up = n
  BY DEF IsDocument
<1>4. \A n \in D : n # 1 => Fit(t, n, t[n].up) /\ t[n].up \in D
  <2>1. \A n \in D : n # 1 => Fit(t, n, t[n].up)
    BY DEF IsDocument, Fit
  <2> HIDE DEF size
  <2>2. \A n \in D : n # 1 => t[n].up \in D
    BY <1>1, <1>2
  <2>3. QED
    BY <2>1, <2>2
<1>5. DOMAIN u = E
  BY DEF Numbered
<1>6. ASSUME NEW n \in D
      PROVE  /\ from + n \in E /\ Like(t[n], u[from + n])
             /\ u[from + n].up = (IF t[n].up = 0 THEN 0 ELSE from + t[n].up)
             /\ u[from + n].kids = [i \in DOMAIN t[n].kids |-> from + t[n].kids[i]]
  <2>1. from + n \in E /\ (from + n) - from = n
    BY <1>1
  <2>2. u[from + n] = [t[n] EXCEPT !.up = IF @ = 0 THEN 0 ELSE from + @,
                                   !.kids = [i \in DOMAIN @ |-> from + @[i]]]
    BY <2>1 DEF Numbered
  <2>3. QED
    BY <1>2, <2>1, <2>2 DEF Like, NodeFields
<1> HIDE DEF u, size
<1>7. 0 \notin E /\ \A n, m \in D : from + n = from + m => n = m
  BY <1>1
<1>8. Typed(u)
  <2>1. \A n \in D : DOMAIN u[from + n] = NodeFields /\ u[from + n].kind \in NodeKinds
    BY <1>2, <1>6 DEF Like
  <2>2. QED
    BY <1>5, <2>1 DEF Typed
<1>9. \A n \in D : (u[from + n].up = 0 <=> n = 1) /\ (n # 1 => u[from + n].up = from + t[n].up)
  <2> TAKE n \in D
  <2>1. u[from + n].up = (IF t[n].up = 0 THEN 0 ELSE from + t[n].up) /\ (t[n].up = 0 <=> n = 1)
    BY <1>2, <1>6
  <2>2. n # 1 => from + t[n].up # 0
    BY <1>4, <1>7
  <2>3. QED
    BY <2>1, <2>2
<1>10. Placed(u)
  <2>1. ASSUME NEW n \in D, u[from + n].up # 0 PROVE Fit(u, from + n, u[from + n].up)
    <3>1. n # 1 /\ u[from + n].up = from + t[n].up /\ t[n].up \in D /\ Fit(t, n, t[n].up)
      BY <1>4, <1>9, <2>1
    <3>2. u[from + n].kind = t[n].kind /\ u[from + t[n].up].kind = t[t[n].up].kind
      BY <1>6, <3>1 DEF Like
    <3>3. QED
      BY <3>1, <3>2 DEF Fit
  <2>2. QED
    BY <1>5, <2>1 DEF Placed
<1>11. Ranked(u)
  <2> DEFINE rank == [m \in E |-> m - from]
  <2>1. rank \in [E -> 0..size]
    BY <1>1
  <2>2. Ranks(u, rank)
    <3>1. ASSUME NEW n \in D, u[from + n].up # 0 PROVE rank[u[from + n].up] < rank[from + n]
      <4>1. n # 1 /\ u[from + n].up = from + t[n].up /\ t[n].up \in D /\ t[n].up \in 0..(n - 1)
        BY <1>2, <1>4, <1>9, <3>1
      <4>2. rank[from + n] = n /\ rank[from + t[n].up] = t[n].up
        BY <1>1, <4>1
      <4> HIDE DEF rank
      <4>3. QED
        BY <1>1, <4>1, <4>2
    <3> HIDE DEF rank
    <3>2. QED
      BY <1>5, <3>1 DEF Ranks
  <2> HIDE DEF rank
  <2>3. QED
    BY <1>1, <1>5, <2>1, <2>2 DEF Ranked
<1>12. ASSUME NEW n \in D
       PROVE  /\ u[from + n].kids \in Seq(E) /\ IsInjective(u[from + n].kids)
              /\ \A m \in D : from + m \in ToSet(u[from + n].kids) <=> m \in ToSet(t[n].kids)
  <2> DEFINE s == t[n].kids
             q == [i \in DOMAIN s |-> from + s[i]]
  <2>1. s \in Seq(D) /\ IsInjective(s) /\ u[from + n].kids = q
    BY <1>2, <1>6
  <2> HIDE DEF s
  <2>2. DOMAIN s = 1..Len(s) /\ Len(s) \in Nat /\ \A i \in DOMAIN s : s[i] \in D
    BY <2>1
  <2>3. q \in Seq(E)
    <3>1. q \in [1..Len(s) -> E]
      BY <2>2
    <3>2. QED
      BY <2>2, <3>1
  <2>4. DOMAIN q = DOMAIN s /\ \A i \in DOMAIN s : q[i] = from + s[i]
    OBVIOUS
  <2> HIDE DEF q
  <2>5. IsInjective(q)
    BY <1>7, <2>1, <2>2, <2>4 DEF IsInjective
  <2>6. \A m \in D : from + m \in ToSet(q) <=> m \in ToSet(s)
    BY <1>7, <2>2, <2>4 DEF ToSet
  <2>7. QED
    BY <2>1, <2>3, <2>5, <2>6 DEF s
<1>13. Joined(u)
  <2>1. \A n, m \in D : from + m \in ToSet(u[from + n].kids) <=> u[from + m].up = from + n
    <3> TAKE n, m \in D
    <3>1. from + m \in ToSet(u[from + n].kids) <=> t[m].up = n
      BY <1>3, <1>12
    <3>2. CASE m = 1
      BY <1>1, <1>2, <1>7, <1>9, <3>1, <3>2
    <3>3. CASE m # 1
      BY <1>4, <1>7, <1>9, <3>1, <3>3
    <3>4. QED
      BY <3>2, <3>3
  <2>2. \A n \in D : u[from + n].up \in E \cup {0}
    BY <1>4, <1>9
  <2>3. QED
    BY <1>5, <1>7, <1>12, <2>1, <2>2 DEF Joined
<1>14. from + 1 \in E /\ u[from + 1].kind = "doc" /\ u[from + 1].up = 0
  BY <1>1, <1>6 DEF Like
<1>15. QED
  BY <1>5, <1>8, <1>10, <1>11, <1>13, <1>14 DEF Tree, u

\* Ids given in their order are given once each.
LEMMA Counting ==
  ASSUME NEW C \in SUBSET Nat, IsFiniteSet(C), NEW next \in Nat
  PROVE  [m \in C |-> next + Cardinality({k \in C : k < m})]
           \in Bijection(C, next .. next + Cardinality(C) - 1)
<1> DEFINE size == Cardinality(C)
           Before(m) == {k \in C : k < m}
           new == next .. next + size - 1
           g == [m \in C |-> next + Cardinality(Before(m))]
<1>1. size \in Nat
  BY FS_CardinalityType
<1>2. \A m \in C : IsFiniteSet(Before(m)) /\ Cardinality(Before(m)) \in Nat
  <2>1. \A m \in C : Before(m) \in SUBSET C
    OBVIOUS
  <2> HIDE DEF Before
  <2>2. \A m \in C : IsFiniteSet(Before(m))
    BY <2>1, FS_Subset
  <2>3. QED
    BY <2>2, FS_CardinalityType
<1>3. ASSUME NEW m \in C, NEW k \in C, k < m
      PROVE  Cardinality(Before(k)) < Cardinality(Before(m))
  <2>1. Before(k) \cup {k} \in SUBSET Before(m) /\ k \notin Before(k)
    <3>1. m \in Nat /\ k \in Nat /\ \A j \in C : j \in Nat
      OBVIOUS
    <3>2. ASSUME NEW j \in Before(k) PROVE j \in Before(m)
      BY <1>3, <3>1
    <3>3. k \in Before(m)
      BY <1>3
    <3>4. k \notin Before(k)
      BY <3>1
    <3> HIDE DEF Before
    <3>5. QED
      BY <3>2, <3>3, <3>4
  <2> HIDE DEF Before
  <2>2. Cardinality(Before(k) \cup {k}) = Cardinality(Before(k)) + 1
    BY <1>2, <2>1, FS_AddElement
  <2>3. Cardinality(Before(k) \cup {k}) <= Cardinality(Before(m))
    BY <1>2, <2>1, FS_Subset
  <2>4. QED
    BY <1>2, <2>2, <2>3
<1>4. ASSUME NEW m \in C PROVE Cardinality(Before(m)) < size
  <2>1. Before(m) \cup {m} \in SUBSET C /\ m \notin Before(m)
    BY <1>4
  <2> HIDE DEF Before, size
  <2>2. Cardinality(Before(m) \cup {m}) = Cardinality(Before(m)) + 1
    BY <1>2, <2>1, FS_AddElement
  <2>3. Cardinality(Before(m) \cup {m}) <= Cardinality(C)
    BY <2>1, FS_Subset
  <2>4. QED
    BY <1>1, <1>2, <2>2, <2>3 DEF size
<1> HIDE DEF Before, size
<1>5. g \in [C -> new]
  BY <1>1, <1>2, <1>4
<1>6. ASSUME NEW m \in C, NEW k \in C, g[m] = g[k] PROVE m = k
  <2>1. Cardinality(Before(m)) = Cardinality(Before(k))
    BY <1>2, <1>6
  <2>2. ~(m < k) /\ ~(k < m)
    BY <1>2, <1>3, <2>1
  <2>3. QED
    BY <2>2
<1>7. IsFiniteSet(new) /\ Cardinality(new) = size
  BY <1>1, FS_Interval
<1> HIDE DEF g, new
<1>8. g \in Injection(C, new)
  BY <1>5, <1>6 DEF Injection, IsInjective
<1>9. g \in Surjection(C, new)
  BY <1>7, <1>8, FS_Injection DEF size
<1>10. g \in Bijection(C, new)
  BY <1>8, <1>9 DEF Bijection
<1>11. QED
  BY <1>10 DEF g, new, size, Before

\* u is t with a copy of C, node for node, hanging from g[n].
Copied(t, u, n, C, g, N, deep) ==
  /\ n \in C /\ C \subseteq DOMAIN t /\ C = IF deep THEN Subtree(t, n) ELSE {n}
  /\ g \in Bijection(C, N) /\ N \cap DOMAIN t = {} /\ 0 \notin N
  /\ DOMAIN u = DOMAIN t \cup N
  /\ \A m \in DOMAIN t : u[m] = t[m]
  /\ \A k \in C : /\ Like(t[k], u[g[k]])
                  /\ u[g[k]].up = IF k = n THEN 0 ELSE g[t[k].up]
                  /\ u[g[k]].kids = IF deep THEN [i \in DOMAIN t[k].kids |-> g[t[k].kids[i]]] ELSE <<>>

LEMMA CopiedTree ==
  ASSUME NEW t, Tree(t), NEW n \in DOMAIN t, NEW C, NEW g, NEW N, NEW deep \in BOOLEAN,
         NEW u, Copied(t, u, n, C, g, N, deep)
  PROVE  Tree(u) /\ \A x \in N : u[x].up \in N \cup {0}
<1> DEFINE D == DOMAIN t
           E == D \cup N
<1>1. /\ 0 \notin D
      /\ \A m \in D : /\ t[m].up \in D \cup {0} /\ t[m].kids \in Seq(D) /\ IsInjective(t[m].kids)
                      /\ \A k \in D : k \in ToSet(t[m].kids) <=> t[k].up = m
  BY DEF Tree, Joined
<1>2. /\ g \in [C -> N] /\ \A k, l \in C : g[k] = g[l] => k = l
      /\ \A x \in N : \E k \in C : g[k] = x
  BY DEF Copied, Bijection, Injection, Surjection, IsInjective
<1>3. /\ n \in C /\ C \subseteq D /\ N \cap D = {} /\ 0 \notin N /\ DOMAIN u = E
      /\ \A m \in D : u[m] = t[m]
      /\ \A k \in C : Like(t[k], u[g[k]]) /\ u[g[k]].up = IF k = n THEN 0 ELSE g[t[k].up]
  BY DEF Copied
<1>4. \A k \in C : k # n => t[k].up \in C
  <2>1. CASE deep
    <3>1. C = Subtree(t, n)
      BY <2>1 DEF Copied
    <3>2. \A m \in D : m # n => (m \in Subtree(t, n) <=> t[m].up \in Subtree(t, n))
      BY SubtreeFacts
    <3>3. QED
      BY <1>3, <3>1, <3>2
  <2>2. CASE ~deep
    BY <2>2 DEF Copied
  <2>3. QED
    BY <2>1, <2>2
<1>5. \A x \in N : u[x].up \in N \cup {0}
  BY <1>2, <1>3, <1>4
<1>6. Typed(u)
  <2>1. \A k \in C : DOMAIN u[g[k]] = NodeFields /\ u[g[k]].kind \in NodeKinds
    BY <1>3 DEF Tree, Typed, Like
  <2>2. QED
    BY <1>2, <1>3, <2>1 DEF Tree, Typed
<1>7. Placed(u)
  <2>1. ASSUME NEW k \in C, u[g[k]].up # 0 PROVE Fit(u, g[k], u[g[k]].up)
    <3>1. k # n /\ u[g[k]].up = g[t[k].up] /\ t[k].up \in C /\ t[k].up # 0
      BY <1>1, <1>3, <1>4, <2>1
    <3>2. Fit(t, k, t[k].up)
      BY <1>3, <3>1 DEF Tree, Placed
    <3>3. u[g[k]].kind = t[k].kind /\ u[g[t[k].up]].kind = t[t[k].up].kind
      BY <1>3, <3>1 DEF Like
    <3>4. QED
      BY <3>1, <3>2, <3>3 DEF Fit
  <2>2. ASSUME NEW m \in D, u[m].up # 0 PROVE Fit(u, m, u[m].up)
    <3>1. u[m] = t[m] /\ t[m].up \in D /\ u[t[m].up] = t[t[m].up] /\ Fit(t, m, t[m].up)
      BY <1>1, <1>3, <2>2 DEF Tree, Placed
    <3>2. QED
      BY <3>1 DEF Fit
  <2>3. QED
    BY <1>2, <1>3, <2>1, <2>2 DEF Placed
<1>8. Ranked(u)
  <2>1. PICK L \in Nat : \E rank \in [D -> 0..L] : Ranks(t, rank)
    BY DEF Tree, Ranked
  <2>2. PICK rank \in [D -> 0..L] : Ranks(t, rank)
    BY <2>1
  <2> DEFINE From(x) == CHOOSE k \in C : g[k] = x
             both == [m \in E |-> IF m \in D THEN rank[m] ELSE rank[From(m)]]
  <2>3. \A k \in C : From(g[k]) = k
    BY <1>2
  <2> HIDE DEF From
  <2>4. both \in [E -> 0..L] /\ (\A m \in D : both[m] = rank[m]) /\ \A k \in C : both[g[k]] = rank[k]
    <3>1. \A x \in N : From(x) \in D
      BY <1>2, <1>3, <2>3
    <3>2. \A k \in C : g[k] \in E /\ g[k] \notin D
      BY <1>2, <1>3
    <3>3. QED
      BY <2>2, <2>3, <3>1, <3>2
  <2> HIDE DEF both
  <2>5. ASSUME NEW k \in C, u[g[k]].up # 0 PROVE both[u[g[k]].up] < both[g[k]]
    <3>1. k # n /\ u[g[k]].up = g[t[k].up] /\ t[k].up \in C /\ t[k].up # 0
      BY <1>1, <1>3, <1>4, <2>5
    <3>2. rank[t[k].up] < rank[k]
      BY <1>3, <2>2, <3>1 DEF Ranks
    <3>3. QED
      BY <2>4, <3>1, <3>2
  <2>6. ASSUME NEW m \in D, u[m].up # 0 PROVE both[u[m].up] < both[m]
    <3>1. u[m].up = t[m].up /\ t[m].up \in D
      BY <1>1, <1>3, <2>6
    <3>2. rank[t[m].up] < rank[m]
      BY <2>2, <2>6, <3>1 DEF Ranks
    <3>3. QED
      BY <2>4, <3>1, <3>2
  <2>7. Ranks(u, both)
    BY <1>2, <1>3, <2>5, <2>6 DEF Ranks
  <2>8. QED
    BY <1>3, <2>1, <2>4, <2>7 DEF Ranked
<1>9. ASSUME NEW k \in C
      PROVE  /\ u[g[k]].kids \in Seq(E) /\ IsInjective(u[g[k]].kids) /\ ToSet(u[g[k]].kids) \subseteq N
             /\ \A l \in C : g[l] \in ToSet(u[g[k]].kids) <=> u[g[l]].up = g[k]
  <2>1. CASE ~deep
    <3>1. u[g[k]].kids = <<>> /\ C = {n}
      BY <2>1 DEF Copied
    <3>2. \A l \in C : u[g[l]].up = 0
      BY <1>3, <3>1
    <3>3. g[k] # 0
      BY <1>2, <1>3
    <3>4. <<>> \in Seq(E) /\ ToSet(<<>>) = {} /\ IsInjective(<<>>)
      BY DEF ToSet, IsInjective
    <3>5. QED
      BY <3>1, <3>2, <3>3, <3>4
  <2>2. CASE deep
    <3> DEFINE s == t[k].kids
               q == [i \in DOMAIN s |-> g[s[i]]]
    <3>1. u[g[k]].kids = q /\ C = Subtree(t, n)
      BY <2>2 DEF Copied
    <3>2. s \in Seq(D) /\ IsInjective(s) /\ \A l \in D : l \in ToSet(s) <=> t[l].up = k
      BY <1>1, <1>3
    <3>3. ToSet(s) \subseteq C /\ n \notin ToSet(s)
      <4>1. ToSet(s) \subseteq D
        BY <3>2, SeqFacts
      <4>2. \A m \in D : m # n => (m \in Subtree(t, n) <=> t[m].up \in Subtree(t, n))
        BY SubtreeFacts
      <4>3. n \in Subtree(t, n) /\ t[n].up \notin Subtree(t, n)
        BY SubtreeFacts
      <4> HIDE DEF s
      <4>4. QED
        BY <3>1, <3>2, <4>1, <4>2, <4>3
    <3>4. \A l \in C : l # n => u[g[l]].up = g[t[l].up] /\ t[l].up \in C
      BY <1>3, <1>4
    <3>5. u[g[n]].up = 0 /\ g[k] # 0
      BY <1>2, <1>3
    <3> HIDE DEF s
    <3>6. DOMAIN s = 1..Len(s) /\ Len(s) \in Nat /\ \A i \in DOMAIN s : s[i] \in C
      BY <3>2, <3>3 DEF ToSet
    <3>7. q \in Seq(E)
      <4>1. \A i \in DOMAIN s : g[s[i]] \in E
        BY <1>2, <3>6
      <4>2. q \in [1..Len(s) -> E]
        BY <3>6, <4>1
      <4>3. QED
        BY <3>6, <4>2
    <3>8. DOMAIN q = DOMAIN s /\ \A i \in DOMAIN s : q[i] = g[s[i]]
      OBVIOUS
    <3> HIDE DEF q
    <3>9. IsInjective(q)
      BY <1>2, <3>2, <3>6, <3>8 DEF IsInjective
    <3>10. \A l \in C : g[l] \in ToSet(q) <=> l \in ToSet(s)
      BY <1>2, <3>6, <3>8 DEF ToSet
    <3>11. ToSet(q) \subseteq N
      BY <1>2, <3>6, <3>8 DEF ToSet
    <3>12. \A l \in C : l \in ToSet(s) <=> u[g[l]].up = g[k]
      <4> TAKE l \in C
      <4>1. CASE l = n
        BY <3>3, <3>5, <4>1
      <4>2. CASE l # n
        <5>1. l \in ToSet(s) <=> t[l].up = k
          BY <1>3, <3>2
        <5>2. g[t[l].up] = g[k] <=> t[l].up = k
          BY <1>2, <3>4, <4>2
        <5>3. QED
          BY <3>4, <4>2, <5>1, <5>2
      <4>3. QED
        BY <4>1, <4>2
    <3>13. QED
      BY <3>1, <3>7, <3>9, <3>10, <3>11, <3>12
  <2>3. QED
    BY <2>1, <2>2
<1>10. Joined(u)
  <2>1. \A m \in D : t[m].kids \in Seq(E) /\ ToSet(t[m].kids) \subseteq D
    <3>1. \A s \in Seq(D) : s \in Seq(E) /\ ToSet(s) \subseteq D
      BY SeqFacts
    <3>2. QED
      BY <1>1, <3>1
  <2>2. \A m \in D : u[m].up \in E \cup {0} /\ u[m].kids \in Seq(E) /\ IsInjective(u[m].kids)
    BY <1>1, <1>3, <2>1
  <2>3. \A x \in N : u[x].up \in E \cup {0} /\ u[x].kids \in Seq(E) /\ IsInjective(u[x].kids)
    BY <1>2, <1>5, <1>9
  <2>4. \A m \in D : \A k \in D : k \in ToSet(u[m].kids) <=> u[k].up = m
    BY <1>1, <1>3
  <2>5. \A m \in D : \A x \in N : x \notin ToSet(u[m].kids) /\ u[x].up # m
    BY <1>1, <1>3, <1>5, <2>1
  <2>6. \A x \in N : \A m \in D : m \notin ToSet(u[x].kids) /\ u[m].up # x
    BY <1>1, <1>2, <1>3, <1>9
  <2>7. \A x \in N : \A y \in N : y \in ToSet(u[x].kids) <=> u[y].up = x
    BY <1>2, <1>9
  <2>8. QED
    BY <1>1, <1>3, <2>2, <2>3, <2>4, <2>5, <2>6, <2>7 DEF Joined
<1>11. QED
  BY <1>5, <1>6, <1>7, <1>8, <1>10 DEF Tree

-----------------------------------------------------------------------------
(* What the engine is shown.                                               *)

Rooted(d) == d.root \in DOMAIN d.tree /\ d.tree[d.root].kind = "doc" /\ d.tree[d.root].up = 0
Whole(d) == Sound(d) /\ Tree(d.tree) /\ Rooted(d)

LEMMA ConnectedFacts ==
  ASSUME NEW d
  PROVE  \A n : IsConnected(d, n) <=> n \in DOMAIN d.tree /\ d.root \in Above(d.tree, n)
BY DEF IsConnected, Covers, Above

\* The texts of the document's stylesheets, as nodes.
Sheets(d) == {m \in DOMAIN d.tree : IsConnected(d, m) /\ TextIn(d.tree, m, {"style"})}

LEMMA SheetTextFacts ==
  ASSUME NEW d, Tree(d.tree)
  PROVE  SheetTexts(d) = {d.tree[m].val : m \in Sheets(d)}
<1> DEFINE K == {k \in DOMAIN d.tree :
              /\ d.tree[k].kind = "text" /\ IsConnected(d, k)
              /\ \E a \in ToSet(Chain(d.tree, k)) : d.tree[a].kind = "style"}
<1>1. \A n \in DOMAIN d.tree :
        (\E a \in ToSet(Chain(d.tree, n)) : d.tree[a].kind = "style")
          <=> d.tree[n].kind = "style" \/ TextIn(d.tree, n, {"style"})
  BY SheetFacts DEF Above
<1>2. \A n : TextIn(d.tree, n, {"style"}) => d.tree[n].kind = "text"
  BY DEF TextIn
<1>3. K = Sheets(d)
  <2>1. ASSUME NEW k \in DOMAIN d.tree PROVE k \in K <=> k \in Sheets(d)
    BY <1>1, <1>2 DEF Sheets
  <2>2. K \subseteq DOMAIN d.tree /\ Sheets(d) \subseteq DOMAIN d.tree
    BY DEF Sheets
  <2> HIDE DEF K
  <2>3. QED
    BY <2>1, <2>2
<1>4. SheetTexts(d) = {d.tree[m].val : m \in K}
  BY DEF SheetTexts
<1>5. QED
  BY <1>3, <1>4

LEMMA ShownFacts ==
  ASSUME NEW d, Tree(d.tree)
  PROVE  \A m : m \in Shown(d) <=>
           /\ m \in DOMAIN d.tree /\ IsConnected(d, m) /\ d.tree[m].kind # "comment"
           /\ ~TextIn(d.tree, m, {"head", "script"})
           /\ \A a \in Above(d.tree, m) : d.tree[a].kind # "template"
<1>1. \A m \in DOMAIN d.tree : NodeAffectsLayout(d.tree, m)
        <=> d.tree[m].kind \notin {"comment", "script"} /\ ~TextIn(d.tree, m, {"head", "script"})
  BY AffectsFacts
<1>2. \A m : d.tree[m].kind = "script" => d.tree[m].kind # "comment" /\ ~TextIn(d.tree, m, {"head", "script"})
  BY DEF TextIn
<1>3. QED
  BY <1>1, <1>2 DEF Shown, Above

IsNode(x) == x = [f \in NodeFields |-> x[f]]
LEMMA SameNode ==
  ASSUME NEW x, NEW y, IsNode(x), IsNode(y), x.kind = y.kind, x.style = y.style, x.mark = y.mark,
         x.val = y.val, x.up = y.up, x.kids = y.kids
  PROVE  x = y
<1>1. \A f \in NodeFields : x[f] = y[f]
  BY DEF NodeFields
<1>2. [f \in NodeFields |-> x[f]] = [f \in NodeFields |-> y[f]]
  BY <1>1
<1>3. QED
  BY <1>2 DEF IsNode

LEMMA ViewFacts ==
  ASSUME NEW d, Tree(d.tree)
  PROVE  /\ DOMAIN LayoutView(d) = Shown(d)
         /\ LayoutView(d) = [m \in Shown(d) |-> LayoutView(d)[m]]
         /\ \A m \in Shown(d) :
              LET x == LayoutView(d)[m]
                  y == d.tree[m]
              IN /\ IsNode(x) /\ DOMAIN x = NodeFields
                 /\ x.kind = y.kind /\ x.style = y.style /\ x.val = y.val /\ x.up = y.up
                 /\ x.kids = Kept(y.kids, Shown(d))
                 /\ x.mark = IF SelectsMark(d) THEN y.mark ELSE 0
<1>1. LayoutView(d) = [m \in Shown(d) |->
         [d.tree[m] EXCEPT !.kids = Kept(@, Shown(d)),
                           !.mark = IF SelectsMark(d) THEN @ ELSE 0]]
  BY DEF LayoutView
<1>2. \A m \in Shown(d) : DOMAIN d.tree[m] = NodeFields
  BY DEF Shown, Tree, Typed
<1>4. ASSUME NEW m \in Shown(d)
      PROVE  LET x == LayoutView(d)[m]
                 y == d.tree[m]
             IN /\ IsNode(x) /\ DOMAIN x = NodeFields
                /\ x.kind = y.kind /\ x.style = y.style /\ x.val = y.val /\ x.up = y.up
                /\ x.kids = Kept(y.kids, Shown(d))
                /\ x.mark = IF SelectsMark(d) THEN y.mark ELSE 0
  <2> DEFINE node == d.tree[m]
             kids == Kept(node.kids, Shown(d))
             mark == IF SelectsMark(d) THEN node.mark ELSE 0
             seen == [node EXCEPT !.kids = kids, !.mark = mark]
  <2>1. LayoutView(d)[m] = seen
    BY <1>1
  <2>2. DOMAIN node = NodeFields
    BY <1>2
  <2> HIDE DEF node, kids, mark
  <2>3. /\ IsNode(seen) /\ DOMAIN seen = NodeFields
        /\ seen.kind = node.kind /\ seen.style = node.style /\ seen.val = node.val
        /\ seen.up = node.up /\ seen.kids = kids /\ seen.mark = mark
    BY <2>2 DEF IsNode, NodeFields
  <2> HIDE DEF seen
  <2>4. QED
    BY <2>1, <2>3 DEF kids, mark, node
<1>5. QED
  BY <1>1, <1>4, Zenon

\* The view is a matter of the tree and its root.
LEMMA SightOf ==
  ASSUME NEW d, NEW e, e.tree = d.tree, e.root = d.root
  PROVE  /\ Shown(e) = Shown(d) /\ Sheets(e) = Sheets(d) /\ SheetTexts(e) = SheetTexts(d)
         /\ LayoutView(e) = LayoutView(d) /\ (SelectsMark(e) <=> SelectsMark(d))
<1>1. \A n : IsConnected(e, n) <=> IsConnected(d, n)
  BY DEF IsConnected
<1>2. Shown(e) = Shown(d) /\ Sheets(e) = Sheets(d) /\ SheetTexts(e) = SheetTexts(d)
  BY <1>1 DEF Shown, Sheets, SheetTexts
<1>3. SelectsMark(e) <=> SelectsMark(d)
  BY <1>2 DEF SelectsMark
<1>4. QED
  BY <1>2, <1>3 DEF LayoutView

\* What the nodes outside X are below is not changed by what happens to X.
LEMMA SameAbove ==
  ASSUME NEW t, Tree(t), NEW u, Tree(u), NEW X,
         \A m \in DOMAIN t \ X : m \in DOMAIN u /\ u[m].up = t[m].up /\ t[m].up \notin X
  PROVE  \A m \in DOMAIN t \ X : Above(u, m) = Above(t, m) /\ Above(t, m) \cap X = {}
<1> DEFINE S == X \cup {m \in DOMAIN t : Above(u, m) = Above(t, m) /\ Above(t, m) \cap X = {}}
<1>1. ASSUME NEW m \in DOMAIN t, t[m].up # 0 => t[m].up \in S PROVE m \in S
  <2>1. CASE m \in X
    BY <2>1
  <2>2. CASE m \notin X
    <3>1. /\ Above(t, m) = {m} \cup (IF t[m].up = 0 THEN {} ELSE Above(t, t[m].up))
          /\ Above(u, m) = {m} \cup (IF u[m].up = 0 THEN {} ELSE Above(u, u[m].up))
      BY <2>2, AboveFacts
    <3>2. u[m].up = t[m].up /\ t[m].up \notin X
      BY <2>2
    <3>3. QED
      BY <1>1, <2>2, <3>1, <3>2
  <2>3. QED
    BY <2>1, <2>2
<1>2. DOMAIN t \subseteq S
  <2> HIDE DEF S
  <2>1. QED
    BY <1>1, TreeInduction
<1>3. QED
  BY <1>2

-----------------------------------------------------------------------------
(* Changes the engine is not shown.                                        *)

\* e is d but for the nodes in X, which the engine is shown in neither.
Quietly(d, e, X) ==
  /\ e.root = d.root
  /\ DOMAIN e.tree \ X = DOMAIN d.tree \ X
  /\ \A m \in DOMAIN d.tree \ X :
       /\ e.tree[m].kind = d.tree[m].kind /\ e.tree[m].val = d.tree[m].val
       /\ e.tree[m].up = d.tree[m].up /\ d.tree[m].up \notin X
       /\ \A S : S \cap X = {} => Kept(e.tree[m].kids, S) = Kept(d.tree[m].kids, S)
  /\ \A m \in X : m \notin Shown(d) \cup Sheets(d) \cup Shown(e) \cup Sheets(e)

LEMMA SameShown ==
  ASSUME NEW d, NEW e, Tree(d.tree), Tree(e.tree), NEW X, Quietly(d, e, X)
  PROVE  /\ Shown(e) = Shown(d) /\ Shown(d) \cap X = {}
         /\ SheetTexts(e) = SheetTexts(d) /\ (SelectsMark(e) <=> SelectsMark(d))
<1> DEFINE t == d.tree
           u == e.tree
           D == DOMAIN t \ X
<1>1. /\ e.root = d.root /\ DOMAIN u \ X = D
      /\ \A m \in D : /\ m \in DOMAIN u /\ u[m].kind = t[m].kind /\ u[m].val = t[m].val
                      /\ u[m].up = t[m].up /\ t[m].up \notin X
      /\ \A m \in X : m \notin Shown(d) /\ m \notin Sheets(d) /\ m \notin Shown(e) /\ m \notin Sheets(e)
  BY DEF Quietly
<1>2. \A m \in D : Above(u, m) = Above(t, m) /\ Above(t, m) \cap X = {}
  BY <1>1, SameAbove
<1>3. \A m \in D : Above(t, m) \subseteq D
  BY <1>2, AboveFacts
<1>4. \A m \in D : t[m].up # 0 => t[m].up \in D
  BY <1>1 DEF Tree, Joined
<1>5. ASSUME NEW m \in D, NEW kinds PROVE TextIn(u, m, kinds) <=> TextIn(t, m, kinds)
  BY <1>1, <1>4 DEF TextIn
<1>6. \A m \in D : IsConnected(e, m) <=> IsConnected(d, m)
  BY <1>1, <1>2, ConnectedFacts
<1>7. Shown(e) = Shown(d)
  <2>1. /\ \A m : m \in Shown(d) <=>
             /\ m \in DOMAIN t /\ IsConnected(d, m) /\ t[m].kind # "comment"
             /\ ~TextIn(t, m, {"head", "script"})
             /\ \A a \in Above(t, m) : t[a].kind # "template"
        /\ \A m : m \in Shown(e) <=>
             /\ m \in DOMAIN u /\ IsConnected(e, m) /\ u[m].kind # "comment"
             /\ ~TextIn(u, m, {"head", "script"})
             /\ \A a \in Above(u, m) : u[a].kind # "template"
    BY ShownFacts
  <2>2. ASSUME NEW m \in D PROVE m \in Shown(e) <=> m \in Shown(d)
    <3>1. (\A a \in Above(u, m) : u[a].kind # "template") <=> (\A a \in Above(t, m) : t[a].kind # "template")
      BY <1>1, <1>2, <1>3
    <3>2. TextIn(u, m, {"head", "script"}) <=> TextIn(t, m, {"head", "script"})
      BY <1>5
    <3>3. QED
      BY <1>1, <1>6, <2>1, <3>1, <3>2
  <2>3. Shown(d) \subseteq DOMAIN t /\ Shown(e) \subseteq DOMAIN u
    BY <2>1
  <2>4. QED
    BY <1>1, <2>2, <2>3
<1>8. Sheets(e) = Sheets(d) /\ Sheets(d) \subseteq D
  <2>1. \A m \in D : TextIn(u, m, {"style"}) <=> TextIn(t, m, {"style"})
    BY <1>5
  <2>2. \A m \in D : m \in Sheets(e) <=> m \in Sheets(d)
    BY <1>1, <1>6, <2>1 DEF Sheets
  <2>3. Sheets(d) \subseteq DOMAIN t /\ Sheets(e) \subseteq DOMAIN u
    BY DEF Sheets
  <2>4. QED
    BY <1>1, <2>2, <2>3
<1>9. SheetTexts(e) = SheetTexts(d)
  <2>1. SheetTexts(e) = {u[m].val : m \in Sheets(e)} /\ SheetTexts(d) = {t[m].val : m \in Sheets(d)}
    BY SheetTextFacts
  <2>2. \A m \in Sheets(d) : u[m].val = t[m].val
    BY <1>1, <1>8
  <2> HIDE DEF u, t
  <2>3. QED
    BY <1>8, <2>1, <2>2
<1>10. QED
  BY <1>1, <1>7, <1>9 DEF SelectsMark

LEMMA SameView ==
  ASSUME NEW d, NEW e, Tree(d.tree), Tree(e.tree), NEW X, Quietly(d, e, X),
         \A m \in Shown(d) : /\ e.tree[m].style = d.tree[m].style
                             /\ SelectsMark(d) => e.tree[m].mark = d.tree[m].mark
  PROVE  LayoutView(e) = LayoutView(d)
<1>1. Shown(e) = Shown(d) /\ Shown(d) \cap X = {} /\ (SelectsMark(e) <=> SelectsMark(d))
  BY SameShown
<1>2. Shown(d) \subseteq DOMAIN d.tree
  BY DEF Shown
<1>3. ASSUME NEW m \in Shown(d) PROVE LayoutView(e)[m] = LayoutView(d)[m]
  <2>1. /\ e.tree[m].kind = d.tree[m].kind /\ e.tree[m].val = d.tree[m].val
        /\ e.tree[m].up = d.tree[m].up
        /\ Kept(e.tree[m].kids, Shown(d)) = Kept(d.tree[m].kids, Shown(d))
    BY <1>1, <1>2 DEF Quietly
  <2> DEFINE x == LayoutView(d)[m]
             y == LayoutView(e)[m]
  <2>2. /\ IsNode(x) /\ x.kind = d.tree[m].kind /\ x.style = d.tree[m].style
        /\ x.val = d.tree[m].val /\ x.up = d.tree[m].up
        /\ x.kids = Kept(d.tree[m].kids, Shown(d))
        /\ x.mark = IF SelectsMark(d) THEN d.tree[m].mark ELSE 0
    BY ViewFacts
  <2>3. /\ IsNode(y) /\ y.kind = e.tree[m].kind /\ y.style = e.tree[m].style
        /\ y.val = e.tree[m].val /\ y.up = e.tree[m].up
        /\ y.kids = Kept(e.tree[m].kids, Shown(d))
        /\ y.mark = IF SelectsMark(d) THEN e.tree[m].mark ELSE 0
    BY <1>1, ViewFacts
  <2> HIDE DEF x, y
  <2>4. x.mark = y.mark
    BY <2>2, <2>3
  <2>5. x = y
    BY <2>1, <2>2, <2>3, <2>4, SameNode
  <2>6. QED
    BY <2>5 DEF x, y
<1>4. /\ LayoutView(d) = [m \in Shown(d) |-> LayoutView(d)[m]]
      /\ LayoutView(e) = [m \in Shown(d) |-> LayoutView(e)[m]]
  BY <1>1, ViewFacts
<1>5. [m \in Shown(d) |-> LayoutView(e)[m]] = [m \in Shown(d) |-> LayoutView(d)[m]]
  BY <1>3
<1>6. QED
  BY <1>4, <1>5, Zenon

Restyled(x, v) == [x EXCEPT !.style = v]

LEMMA RestyledFacts ==
  ASSUME NEW x, IsNode(x), NEW v
  PROVE  /\ IsNode(Restyled(x, v)) /\ Restyled(x, x.style) = x
         /\ \A w : Restyled(Restyled(x, v), w) = Restyled(x, w)
         /\ Restyled(x, v).kind = x.kind /\ Restyled(x, v).style = v /\ Restyled(x, v).mark = x.mark
         /\ Restyled(x, v).val = x.val /\ Restyled(x, v).up = x.up /\ Restyled(x, v).kids = x.kids
<1> DEFINE F == NodeFields
<1>1. x = [f \in F |-> x[f]] /\ "style" \in F
  BY DEF IsNode, NodeFields
<1>2. \A w : Restyled(x, w) = [f \in F |-> IF f = "style" THEN w ELSE x[f]]
  BY <1>1 DEF Restyled
<1>3. \A w : Restyled(Restyled(x, v), w) = Restyled(x, w)
  <2> TAKE w
  <2> DEFINE y == [f \in F |-> IF f = "style" THEN v ELSE x[f]]
  <2>1. Restyled(y, w) = [f \in F |-> IF f = "style" THEN w ELSE y[f]]
    BY <1>1 DEF Restyled
  <2>2. [f \in F |-> IF f = "style" THEN w ELSE y[f]] = [f \in F |-> IF f = "style" THEN w ELSE x[f]]
    OBVIOUS
  <2> HIDE DEF y
  <2>3. QED
    BY <1>2, <2>1, <2>2, Zenon DEF y
<1>4. Restyled(x, x.style) = x
  <2>1. [f \in F |-> IF f = "style" THEN x.style ELSE x[f]] = [f \in F |-> x[f]]
    OBVIOUS
  <2>2. QED
    BY <1>1, <1>2, <2>1, Zenon
<1>5. IsNode(Restyled(x, v))
  <2>1. DOMAIN Restyled(x, v) = F
    BY <1>2
  <2>2. QED
    BY <1>2, <2>1 DEF IsNode
<1>6. /\ Restyled(x, v).kind = x.kind /\ Restyled(x, v).style = v /\ Restyled(x, v).mark = x.mark
      /\ Restyled(x, v).val = x.val /\ Restyled(x, v).up = x.up /\ Restyled(x, v).kids = x.kids
  BY <1>2 DEF NodeFields
<1>7. QED
  BY <1>3, <1>4, <1>5, <1>6

\* The view after a write of n's style.
StyledAt(view, n, v) == [m \in DOMAIN view |-> IF m = n THEN Restyled(view[m], v) ELSE view[m]]
StyleWritten(t, u, n, v) ==
  \A m \in DOMAIN t : /\ u[m].style = IF m = n THEN v ELSE t[m].style
                      /\ u[m].mark = t[m].mark

LEMMA RestyledView ==
  ASSUME NEW d, NEW e, Tree(d.tree), Tree(e.tree), NEW X, Quietly(d, e, X), NEW n, NEW v,
         X = {}, StyleWritten(d.tree, e.tree, n, v)
  PROVE  LayoutView(e) = StyledAt(LayoutView(d), n, v)
<1>1. Shown(e) = Shown(d) /\ (SelectsMark(e) <=> SelectsMark(d))
  BY SameShown
<1>2. /\ Shown(d) \subseteq DOMAIN d.tree
      /\ \A m \in Shown(d) : /\ e.tree[m].style = IF m = n THEN v ELSE d.tree[m].style
                             /\ e.tree[m].mark = d.tree[m].mark
  BY DEF Shown, StyleWritten
<1>3. ASSUME NEW m \in Shown(d)
      PROVE  LayoutView(e)[m] = IF m = n THEN Restyled(LayoutView(d)[m], v) ELSE LayoutView(d)[m]
  <2>1. /\ e.tree[m].kind = d.tree[m].kind /\ e.tree[m].val = d.tree[m].val
        /\ e.tree[m].up = d.tree[m].up
        /\ Kept(e.tree[m].kids, Shown(d)) = Kept(d.tree[m].kids, Shown(d))
    BY <1>2 DEF Quietly
  <2> DEFINE x == LayoutView(d)[m]
             y == LayoutView(e)[m]
             z == Restyled(x, v)
  <2>2. /\ IsNode(x) /\ x.kind = d.tree[m].kind /\ x.style = d.tree[m].style
        /\ x.val = d.tree[m].val /\ x.up = d.tree[m].up
        /\ x.kids = Kept(d.tree[m].kids, Shown(d))
        /\ x.mark = IF SelectsMark(d) THEN d.tree[m].mark ELSE 0
    BY ViewFacts
  <2>3. /\ IsNode(y) /\ y.kind = e.tree[m].kind /\ y.style = e.tree[m].style
        /\ y.val = e.tree[m].val /\ y.up = e.tree[m].up
        /\ y.kids = Kept(e.tree[m].kids, Shown(d))
        /\ y.mark = IF SelectsMark(d) THEN e.tree[m].mark ELSE 0
    BY <1>1, <1>2, ViewFacts
  <2> HIDE DEF x, y
  <2>4. /\ IsNode(z) /\ z.kind = x.kind /\ z.style = v /\ z.mark = x.mark
        /\ z.val = x.val /\ z.up = x.up /\ z.kids = x.kids
    BY <2>2, RestyledFacts
  <2> HIDE DEF z
  <2>5. x.mark = y.mark
    BY <1>2, <2>2, <2>3
  <2>6. CASE m = n
    <3>1. y.style = v
      BY <1>2, <2>3, <2>6
    <3>2. z = y
      BY <2>1, <2>2, <2>3, <2>4, <2>5, <3>1, SameNode
    <3>3. QED
      BY <2>6, <3>2 DEF x, y, z
  <2>7. CASE m # n
    <3>1. y.style = x.style
      BY <1>2, <2>2, <2>3, <2>7
    <3>2. x = y
      BY <2>1, <2>2, <2>3, <2>5, <3>1, SameNode
    <3>3. QED
      BY <2>7, <3>2 DEF x, y
  <2>8. QED
    BY <2>6, <2>7
<1>4. LayoutView(e) = [m \in Shown(d) |-> LayoutView(e)[m]]
  BY <1>1, ViewFacts
<1>5. [m \in Shown(d) |-> LayoutView(e)[m]]
        = [m \in Shown(d) |-> IF m = n THEN Restyled(LayoutView(d)[m], v) ELSE LayoutView(d)[m]]
  BY <1>3
<1>6. DOMAIN LayoutView(d) = Shown(d)
  BY ViewFacts
<1>7. QED
  BY <1>4, <1>5, <1>6, Zenon DEF StyledAt

-----------------------------------------------------------------------------
(* What a styled document owes to the journal.                             *)

Newer(d, v) == {r \in ToSet(d.journal) : r.version > v}
Touched(d, v) == {r.node : r \in Newer(d, v)}
\* The journal reaches back to version v and has nothing but style writes since.
OnlyInline(d, v) == d.base <= v /\ \A r \in Newer(d, v) : r.inline
\* The view is that of d, the styles of the touched nodes apart.
Shows(d, view, touched) ==
  LET now == LayoutView(d) IN
  /\ d.sens = SelectsMark(d)
  /\ view = [m \in DOMAIN now |-> Restyled(now[m], view[m].style)]
  /\ \A m \in DOMAIN now \ touched : view[m] = now[m]
StyledFields == {"valid", "laidOut", "view", "version", "viewport", "mode", "corrected"}
Near(d, s) ==
  s.valid => /\ DOMAIN s = StyledFields /\ s.version \in Nat /\ s.version <= d.layout
             /\ OnlyInline(d, s.version) => Shows(d, s.view, Touched(d, s.version))

LEMMA JournalFacts ==
  ASSUME NEW d, Sound(d)
  PROVE  /\ \A r \in ToSet(d.journal) : r.version \in Nat /\ r.version > d.base /\ r.version <= d.layout
         /\ Newer(d, d.layout) = {}
<1>1. /\ d.layout \in Nat /\ d.base \in Nat /\ d.base <= d.layout
      /\ Len(d.journal) = d.layout - d.base
      /\ \A i \in 1..Len(d.journal) : d.journal[i].version = d.base + i
  BY DEF Sound, Journaled
<1>2. PICK S : d.journal \in Seq(S)
  BY DEF Sound, Journaled
<1>3. ASSUME NEW r \in ToSet(d.journal)
      PROVE  r.version \in Nat /\ r.version > d.base /\ r.version <= d.layout
  <2>1. PICK i \in DOMAIN d.journal : r = d.journal[i]
    BY <1>2, SeqFacts
  <2>2. i \in 1..Len(d.journal)
    BY <1>2, <2>1
  <2>3. r.version = d.base + i
    BY <1>1, <2>1, <2>2
  <2>4. QED
    BY <1>1, <2>2, <2>3
<1>4. QED
  BY <1>1, <1>3 DEF Newer

\* A view that no record touches is the document's.
LEMMA NearIsFresh ==
  ASSUME NEW d, Sound(d), NEW s, Near(d, s), s.valid, s.version = d.layout
  PROVE  s.view = LayoutView(d)
<1>1. Newer(d, s.version) = {} /\ d.base <= s.version
  BY JournalFacts DEF Sound, Journaled
<1>2. Shows(d, s.view, {})
  BY <1>1 DEF Near, OnlyInline, Touched
<1> DEFINE now == LayoutView(d)
<1>3. now = [m \in DOMAIN now |-> now[m]]
  BY DEF LayoutView
<1>4. /\ s.view = [m \in DOMAIN now |-> Restyled(now[m], s.view[m].style)]
      /\ \A m \in DOMAIN now : s.view[m] = now[m]
  BY <1>2 DEF Shows
<1> HIDE DEF now
<1>5. DOMAIN s.view = DOMAIN now /\ s.view = [m \in DOMAIN s.view |-> s.view[m]]
  BY <1>4
<1>6. [m \in DOMAIN now |-> s.view[m]] = [m \in DOMAIN now |-> now[m]]
  BY <1>4
<1>7. QED
  BY <1>3, <1>5, <1>6, Zenon DEF now

\* mark_mutated: nothing, or one more record; one that is dropped is not newer
\* than the base.
Marked(d, e, affects, n, sheets, inline) ==
  /\ e.tree = d.tree /\ e.root = d.root /\ e.sens = d.sens
  /\ ~affects => /\ e.layout = d.layout /\ e.base = d.base /\ e.journal = d.journal
                 /\ e.sheets = d.sheets
  /\ affects => /\ e.layout = d.layout + 1 /\ e.base >= d.base
                /\ \E r \in ToSet(e.journal) : r.version = e.layout /\ r.node = n /\ r.inline = inline
                /\ \A r \in ToSet(e.journal) :
                     \/ r \in ToSet(d.journal)
                     \/ r.version = e.layout /\ r.node = n /\ r.inline = inline
                /\ \A r \in ToSet(d.journal) : r.version > e.base => r \in ToSet(e.journal)
                /\ e.sheets = IF sheets THEN d.sheets + 1 ELSE d.sheets

LEMMA MarkFacts ==
  ASSUME NEW d, Sound(d), NEW affects \in BOOLEAN, NEW n, NEW sheets, NEW inline, NEW rebuild
  PROVE  Marked(d, MarkMutated(d, affects, n, sheets, inline, rebuild), affects, n, sheets, inline)
<1> DEFINE e == MarkMutated(d, affects, n, sheets, inline, rebuild)
<1> SUFFICES Marked(d, e, affects, n, sheets, inline)
  OBVIOUS
<1>0. e = MarkMutated(d, affects, n, sheets, inline, rebuild)
  OBVIOUS
<1> HIDE DEF e
<1> DEFINE m == [d EXCEPT !.mut = @ + 1]
           l == [m EXCEPT !.layout = @ + 1, !.sheets = IF sheets THEN @ + 1 ELSE @]
           r0 == [version |-> l.layout, node |-> n, inline |-> inline, rebuild |-> rebuild]
           j == Append(l.journal, r0)
<1>1. /\ DOMAIN m = Fields /\ m.layout = d.layout /\ m.base = d.base /\ m.journal = d.journal
      /\ m.tree = d.tree /\ m.root = d.root /\ m.sens = d.sens /\ m.sheets = d.sheets
  BY DEF Sound, Fields
<1> HIDE DEF m
<1>2. /\ DOMAIN l = Fields /\ l.layout = d.layout + 1 /\ l.base = d.base /\ l.journal = d.journal
      /\ l.tree = d.tree /\ l.root = d.root /\ l.sens = d.sens
      /\ l.sheets = IF sheets THEN d.sheets + 1 ELSE d.sheets
  BY <1>1 DEF Fields
<1> HIDE DEF l
<1>3. CASE ~affects
  <2>1. e = m
    BY <1>0, <1>3 DEF MarkMutated, m
  <2>2. QED
    BY <1>1, <1>3, <2>1 DEF Marked
<1>4. r0.version = d.layout + 1 /\ r0.node = n /\ r0.inline = inline
  BY <1>2
<1>5. /\ d.layout \in Nat /\ d.base \in Nat /\ Len(d.journal) = d.layout - d.base
      /\ Len(d.journal) <= JournalCap /\ JournalCap \in Nat
      /\ \A i \in 1..Len(d.journal) : d.journal[i].version = d.base + i
  BY DomAssumption DEF Sound, Journaled
<1>6. PICK S : d.journal \in Seq(S)
  BY DEF Sound, Journaled
<1> HIDE DEF r0
<1>7. /\ j \in Seq(S \cup {r0}) /\ Len(j) = Len(d.journal) + 1 /\ Len(d.journal) \in Nat
      /\ j[Len(d.journal) + 1] = r0 /\ \A i \in 1..Len(d.journal) : j[i] = d.journal[i]
  BY <1>2, <1>6
<1> HIDE DEF j
<1>8. /\ ToSet(d.journal) = {d.journal[i] : i \in 1..Len(d.journal)}
      /\ ToSet(j) = {j[i] : i \in 1..Len(d.journal) + 1}
  BY <1>6, <1>7 DEF ToSet
<1>9. ToSet(j) = ToSet(d.journal) \cup {r0}
  BY <1>7, <1>8, SMTT(30)
<1>10. ASSUME affects, Len(j) <= JournalCap
       PROVE  /\ e.tree = d.tree /\ e.root = d.root /\ e.sens = d.sens
              /\ e.sheets = IF sheets THEN d.sheets + 1 ELSE d.sheets
              /\ e.layout = d.layout + 1 /\ e.base >= d.base
              /\ r0 \in ToSet(e.journal) /\ ToSet(e.journal) \subseteq ToSet(d.journal) \cup {r0}
              /\ \A r \in ToSet(d.journal) : r.version > e.base => r \in ToSet(e.journal)
  <2>1. e = [l EXCEPT !.journal = j]
    BY <1>0, <1>10 DEF MarkMutated, RecordLayoutMutation, m, l, r0, j
  <2>2. /\ e.layout = d.layout + 1 /\ e.base = d.base /\ e.journal = j
        /\ e.tree = d.tree /\ e.root = d.root /\ e.sens = d.sens
        /\ e.sheets = IF sheets THEN d.sheets + 1 ELSE d.sheets
    BY <1>2, <2>1 DEF Fields
  <2>3. QED
    BY <1>5, <1>9, <2>2
<1>11. ASSUME affects, ~(Len(j) <= JournalCap)
       PROVE  /\ e.tree = d.tree /\ e.root = d.root /\ e.sens = d.sens
              /\ e.sheets = IF sheets THEN d.sheets + 1 ELSE d.sheets
              /\ e.layout = d.layout + 1 /\ e.base >= d.base
              /\ r0 \in ToSet(e.journal) /\ ToSet(e.journal) \subseteq ToSet(d.journal) \cup {r0}
              /\ \A r \in ToSet(d.journal) : r.version > e.base => r \in ToSet(e.journal)
  <2>1. e = [l EXCEPT !.base = Head(j).version, !.journal = Tail(j)]
    BY <1>0, <1>11 DEF MarkMutated, RecordLayoutMutation, m, l, r0, j
  <2>2. Len(d.journal) >= 1
    BY <1>5, <1>7, <1>11, DomAssumption
  <2>3. Head(j) = d.journal[1] /\ d.journal[1].version = d.base + 1
    BY <1>5, <1>7, <2>2
  <2>4. /\ e.layout = d.layout + 1 /\ e.base = d.base + 1 /\ e.journal = Tail(j)
        /\ e.tree = d.tree /\ e.root = d.root /\ e.sens = d.sens
        /\ e.sheets = IF sheets THEN d.sheets + 1 ELSE d.sheets
    BY <1>2, <2>1, <2>3 DEF Fields
  <2>5. /\ Tail(j) \in Seq(S \cup {r0}) /\ Len(Tail(j)) = Len(d.journal)
        /\ \A i \in 1..Len(Tail(j)) : Tail(j)[i] = j[i + 1]
    BY <1>7
  <2>6. ToSet(Tail(j)) = {j[i + 1] : i \in 1..Len(d.journal)}
    <3> DEFINE q == Tail(j)
    <3>1. q \in Seq(S \cup {r0}) /\ Len(q) = Len(d.journal) /\ \A i \in 1..Len(d.journal) : q[i] = j[i + 1]
      BY <2>5
    <3> HIDE DEF q
    <3>2. ToSet(q) = {q[i] : i \in 1..Len(d.journal)}
      BY <3>1 DEF ToSet
    <3>3. QED
      BY <3>1, <3>2 DEF q
  <2>7. r0 \in ToSet(Tail(j))
    <3>1. Len(d.journal) \in 1..Len(d.journal)
      BY <1>7, <2>2
    <3>2. QED
      BY <1>7, <2>6, <3>1
  <2>8. ToSet(Tail(j)) \subseteq ToSet(j)
    <3>1. \A i \in 1..Len(d.journal) : i + 1 \in 1..Len(d.journal) + 1
      BY <1>7
    <3>2. QED
      BY <1>8, <2>6, <3>1
  <2>9. ASSUME NEW r \in ToSet(d.journal), r.version > e.base PROVE r \in ToSet(Tail(j))
    <3>1. PICK i \in 1..Len(d.journal) : r = d.journal[i]
      BY <1>8
    <3>2. i # 1 /\ i \in Nat
      BY <1>5, <2>4, <2>9, <3>1
    <3>3. i - 1 \in 1..Len(d.journal) /\ (i - 1) + 1 = i
      BY <1>7, <3>1, <3>2
    <3>4. r = j[(i - 1) + 1]
      BY <1>7, <3>1, <3>3
    <3>5. QED
      BY <2>6, <3>3, <3>4
  <2>10. QED
    BY <1>5, <1>9, <2>4, <2>7, <2>8, <2>9
<1>12. CASE affects
  <2>1. /\ e.tree = d.tree /\ e.root = d.root /\ e.sens = d.sens
        /\ e.sheets = IF sheets THEN d.sheets + 1 ELSE d.sheets
        /\ e.layout = d.layout + 1 /\ e.base >= d.base
        /\ r0 \in ToSet(e.journal) /\ ToSet(e.journal) \subseteq ToSet(d.journal) \cup {r0}
        /\ \A r \in ToSet(d.journal) : r.version > e.base => r \in ToSet(e.journal)
    BY <1>10, <1>11, <1>12
  <2>2. r0.version = e.layout
    BY <1>4, <2>1
  <2>3. \E r \in ToSet(e.journal) : r.version = e.layout /\ r.node = n /\ r.inline = inline
    BY <1>4, <2>1, <2>2, Zenon
  <2>4. \A r \in ToSet(e.journal) :
          r \in ToSet(d.journal) \/ (r.version = e.layout /\ r.node = n /\ r.inline = inline)
    BY <1>4, <2>1, <2>2, Zenon
  <2>5. QED
    BY <1>12, <2>1, <2>3, <2>4 DEF Marked
<1>13. QED
  BY <1>3, <1>12

-----------------------------------------------------------------------------
(* What keeps a styled document near.                                      *)

LEMMA NearKept ==
  ASSUME NEW d, NEW s, Near(d, s), NEW e,
         e.layout = d.layout, e.base = d.base, e.journal = d.journal,
         d.sens = SelectsMark(d) => e.sens = SelectsMark(e) /\ LayoutView(e) = LayoutView(d)
  PROVE  Near(e, s)
<1>1. \A v : Newer(e, v) = Newer(d, v) /\ Touched(e, v) = Touched(d, v)
             /\ (OnlyInline(e, v) <=> OnlyInline(d, v))
  BY DEF Newer, Touched, OnlyInline
<1>2. \A view, touched : Shows(d, view, touched) => Shows(e, view, touched)
  BY DEF Shows
<1>3. QED
  BY <1>1, <1>2 DEF Near

\* A record that is not a style write leaves nothing to show.
LEMMA NearVoid ==
  ASSUME NEW d, Sound(d), NEW s, Near(d, s), NEW e, Sound(e), e.layout = d.layout + 1,
         \E r \in ToSet(e.journal) : r.version = e.layout /\ r.inline = FALSE
  PROVE  Near(e, s)
<1>1. ASSUME s.valid PROVE s.version \in Nat /\ s.version < e.layout /\ e.layout \in Nat
  BY <1>1 DEF Near, Sound, Journaled
<1>2. ASSUME s.valid PROVE ~OnlyInline(e, s.version)
  BY <1>1, <1>2 DEF OnlyInline, Newer
<1>3. QED
  BY <1>1, <1>2 DEF Near

\* A style write adds its node to what is touched.
LEMMA NearStyled ==
  ASSUME NEW d, Sound(d), NEW s, Near(d, s), NEW e, Sound(e), NEW n, NEW v,
         e.sens = d.sens, SelectsMark(e) <=> SelectsMark(d),
         e.layout = d.layout + 1, e.base >= d.base,
         \E r \in ToSet(e.journal) : r.version = e.layout /\ r.node = n,
         \A r \in ToSet(d.journal) : r.version > e.base => r \in ToSet(e.journal),
         \A m \in DOMAIN LayoutView(d) : IsNode(LayoutView(d)[m]),
         LayoutView(e) = StyledAt(LayoutView(d), n, v)
  PROVE  Near(e, s)
<1> SUFFICES ASSUME s.valid PROVE /\ s.version \in Nat /\ s.version <= e.layout
                                  /\ DOMAIN s = StyledFields
                                  /\ OnlyInline(e, s.version) => Shows(e, s.view, Touched(e, s.version))
  BY DEF Near
<1>1. s.version \in Nat /\ s.version <= d.layout /\ s.version < e.layout
      /\ DOMAIN s = StyledFields /\ d.base \in Nat /\ e.base \in Nat /\ e.layout \in Nat
  BY DEF Near, Sound, Journaled
<1> SUFFICES ASSUME OnlyInline(e, s.version) PROVE Shows(e, s.view, Touched(e, s.version))
  BY <1>1
<1>2. Newer(d, s.version) \subseteq Newer(e, s.version) /\ e.base <= s.version
  <2>1. \A r \in ToSet(d.journal) : r.version \in Nat
    BY JournalFacts
  <2>2. \A r \in ToSet(d.journal) : r.version > s.version => r.version > e.base
    BY <1>1, <2>1 DEF OnlyInline
  <2>3. QED
    BY <2>2 DEF Newer, OnlyInline
<1>3. OnlyInline(d, s.version)
  BY <1>1, <1>2 DEF OnlyInline
<1>4. Touched(d, s.version) \cup {n} \subseteq Touched(e, s.version)
  <2>1. \E r \in Newer(e, s.version) : r.node = n
    BY <1>1 DEF Newer
  <2>2. QED
    BY <1>2, <2>1 DEF Touched
<1> DEFINE now == LayoutView(d)
           then == LayoutView(e)
           D == DOMAIN now
<1>5. /\ d.sens = SelectsMark(d)
      /\ s.view = [m \in D |-> Restyled(now[m], s.view[m].style)]
      /\ \A m \in D : m \notin Touched(d, s.version) => s.view[m] = now[m]
  BY <1>3 DEF Near, Shows
<1>6. DOMAIN then = D /\ \A m \in D : then[m] = IF m = n THEN Restyled(now[m], v) ELSE now[m]
  BY DEF StyledAt
<1>7. \A m \in D : IsNode(now[m])
  OBVIOUS
<1> HIDE DEF now, then, D
<1>8. ASSUME NEW m \in D, NEW w PROVE Restyled(then[m], w) = Restyled(now[m], w)
  <2>1. CASE m = n
    BY <1>6, <1>7, <2>1, RestyledFacts
  <2>2. CASE m # n
    BY <1>6, <2>2
  <2>3. QED
    BY <2>1, <2>2
<1>9. [m \in D |-> Restyled(now[m], s.view[m].style)] = [m \in D |-> Restyled(then[m], s.view[m].style)]
  BY <1>8
<1>10. \A m \in D : m \notin Touched(e, s.version) => s.view[m] = then[m]
  BY <1>4, <1>5, <1>6
<1>11. e.sens = SelectsMark(e)
  <2>1. SelectsMark(d) \in BOOLEAN /\ SelectsMark(e) \in BOOLEAN
    BY DEF SelectsMark
  <2>2. QED
    BY <1>5, <2>1
<1>12. s.view = [m \in D |-> Restyled(then[m], s.view[m].style)]
  BY <1>5, <1>9, Zenon
<1>13. QED
  BY <1>6, <1>10, <1>11, <1>12 DEF Shows, then

LEMMA NearScanned ==
  ASSUME NEW d, Sound(d), NEW s, Near(d, s)
  PROVE  Near(Scanned(d), s)
<1> DEFINE e == Scanned(d)
<1>1. /\ e.layout = d.layout /\ e.base = d.base /\ e.journal = d.journal
      /\ e.tree = d.tree /\ e.root = d.root /\ e.sens = SelectsMark(d)
  BY DEF Scanned, Sound, Fields
<1> HIDE DEF e
<1>2. LayoutView(e) = LayoutView(d) /\ (SelectsMark(e) <=> SelectsMark(d))
  BY <1>1, SightOf
<1>3. e.sens = SelectsMark(e)
  BY <1>1, <1>2 DEF SelectsMark
<1>4. Near(e, s)
  BY <1>1, <1>2, <1>3, NearKept
<1>5. QED
  BY <1>4 DEF e

LEMMA NearRebuilt ==
  ASSUME NEW d, Whole(d), NEW vp, NEW mode, NEW corrected
  PROVE  Near(Scanned(d), Rebuilt(d, vp, mode, corrected))
<1> DEFINE e == Scanned(d)
           s == Rebuilt(d, vp, mode, corrected)
           now == LayoutView(d)
<1>1. e.layout = d.layout /\ e.tree = d.tree /\ e.root = d.root /\ e.sens = SelectsMark(d)
  BY DEF Scanned, Whole, Sound, Fields
<1>2. s.version = d.layout /\ s.view = now /\ d.layout \in Nat /\ DOMAIN s = StyledFields
  BY DEF StyledFields, Rebuilt, Whole, Sound, Journaled
<1>3. LayoutView(e) = now /\ e.sens = SelectsMark(e)
  <2> HIDE DEF e
  <2>1. LayoutView(e) = now /\ (SelectsMark(e) <=> SelectsMark(d))
    BY <1>1, SightOf
  <2>2. QED
    BY <1>1, <2>1 DEF SelectsMark
<1>4. \A m \in DOMAIN now : IsNode(now[m])
  BY ViewFacts DEF Whole
<1>5. now = [m \in DOMAIN now |-> now[m]]
  BY DEF LayoutView
<1> HIDE DEF e, s, now
<1>6. \A m \in DOMAIN now : now[m] = Restyled(now[m], now[m].style)
  BY <1>4, RestyledFacts
<1>7. [m \in DOMAIN now |-> now[m]] = [m \in DOMAIN now |-> Restyled(now[m], now[m].style)]
  BY <1>6
<1>8. now = [m \in DOMAIN now |-> Restyled(now[m], now[m].style)]
  BY <1>5, <1>7, Zenon
<1>9. \A touched : Shows(e, s.view, touched)
  BY <1>2, <1>3, <1>8 DEF Shows
<1>10. Near(e, s)
  BY <1>1, <1>2, <1>9 DEF Near
<1>11. QED
  BY <1>10 DEF e, s

\* A patch makes the view the document's.
LEMMA NearPatched ==
  ASSUME NEW d, Whole(d), NEW s, Near(d, s), NEW vp, NEW mode, NEW corrected,
         MayPatch(d, s, vp, mode, corrected)
  PROVE  Near(d, Patched(d, s))
<1>1. PICK S : d.journal \in Seq(S)
  BY DEF Whole, Sound, Journaled
<1>2. ToSet(RecordsSince(d, s.version)) = Newer(d, s.version)
  <2> DEFINE keep == {r \in ToSet(d.journal) : r.version > s.version}
  <2>1. ToSet(Kept(d.journal, keep)) = ToSet(d.journal) \cap keep
    BY <1>1, KeptFacts
  <2>2. QED
    BY <2>1 DEF RecordsSince, Newer
<1>3. s.valid /\ s.version >= d.base /\ \A r \in Newer(d, s.version) : r.inline
  BY <1>2 DEF MayPatch, CompleteSince
<1>4. s.version \in Nat /\ d.base \in Nat /\ d.layout \in Nat
  BY <1>3 DEF Near, Whole, Sound, Journaled
<1>5. OnlyInline(d, s.version)
  BY <1>3, <1>4 DEF OnlyInline
<1> DEFINE now == LayoutView(d)
           touched == Touched(d, s.version)
           p == Patched(d, s)
           D == DOMAIN now
<1>6. /\ d.sens = SelectsMark(d)
      /\ s.view = [m \in D |-> Restyled(now[m], s.view[m].style)]
      /\ \A m \in D : m \notin touched => s.view[m] = now[m]
  BY <1>3, <1>5 DEF Near, Shows
<1>7. /\ \A m \in D : IsNode(now[m]) /\ now[m].style = d.tree[m].style
      /\ now = [m \in D |-> now[m]]
  BY ViewFacts DEF Whole
<1>8. /\ DOMAIN p = StyledFields /\ p.valid = s.valid /\ p.version = d.layout
      /\ p.view = [m \in DOMAIN s.view |->
                    IF m \in touched THEN Restyled(s.view[m], d.tree[m].style) ELSE s.view[m]]
  <2>1. touched = {r.node : r \in ToSet(RecordsSince(d, s.version))}
    BY <1>2 DEF Touched
  <2>2. DOMAIN s = StyledFields
    BY <1>3 DEF Near
  <2>3. /\ DOMAIN p = StyledFields /\ p.valid = s.valid /\ p.version = d.layout
        /\ p.view = [n \in DOMAIN s.view |->
            IF n \in touched THEN [s.view[n] EXCEPT !.style = d.tree[n].style] ELSE s.view[n]]
    BY <2>1, <2>2 DEF Patched, StyledFields
  <2>4. QED
    BY <2>3 DEF Restyled
<1> HIDE DEF p, now, touched
<1>9. DOMAIN s.view = D
  BY <1>6
<1>10. ASSUME NEW m \in D PROVE p.view[m] = now[m] /\ now[m] = Restyled(now[m], now[m].style)
  <2>1. IsNode(now[m]) /\ now[m].style = d.tree[m].style
    BY <1>7
  <2>2. now[m] = Restyled(now[m], now[m].style)
    BY <2>1, RestyledFacts
  <2>3. CASE m \in touched
    <3>1. p.view[m] = Restyled(Restyled(now[m], s.view[m].style), now[m].style)
      BY <1>6, <1>8, <1>9, <2>1, <2>3
    <3>2. QED
      BY <2>1, <2>2, <3>1, RestyledFacts
  <2>4. CASE m \notin touched
    BY <1>6, <1>8, <1>9, <2>2, <2>4
  <2>5. QED
    BY <2>3, <2>4
<1>11. p.view = [m \in D |-> Restyled(now[m], p.view[m].style)]
  <2>1. p.view = [m \in D |-> p.view[m]]
    BY <1>8, <1>9
  <2>2. [m \in D |-> p.view[m]] = [m \in D |-> Restyled(now[m], p.view[m].style)]
    BY <1>10
  <2>3. QED
    BY <2>1, <2>2, Zenon
<1>12. \A more : Shows(d, p.view, more)
  BY <1>6, <1>10, <1>11 DEF Shows, now
<1>13. QED
  BY <1>4, <1>8, <1>12 DEF Near, p

\* Whatever ensure_styled_document leaves is near.
LEMMA NearEnsured ==
  ASSUME NEW d, Whole(d), NEW s, Near(d, s), NEW vp, NEW mode, NEW corrected,
         NEW done \in Ensured(d, s, vp, mode, corrected)
  PROVE  /\ Whole(done[1]) /\ Near(done[1], done[2]) /\ Near(done[1], LaidOut(done[2]))
<1>1. Whole(Scanned(d))
  <2>1. Sound(Scanned(d)) /\ Scanned(d).tree = d.tree /\ Scanned(d).root = d.root
    BY ScanFollows, ScanKeepsTree DEF Whole, Follows, SameTree
  <2>2. QED
    BY <2>1 DEF Whole, Rooted
<1>2. Whole(done[1]) /\ Near(done[1], done[2])
  <2>1. CASE done = <<d, s>>
    BY <2>1
  <2>2. CASE done = <<Scanned(d), Rebuilt(d, vp, mode, corrected)>>
    BY <1>1, <2>2, NearRebuilt
  <2>3. CASE MayPatch(d, s, vp, mode, corrected) /\ done = <<d, Patched(d, s)>>
    BY <2>3, NearPatched
  <2>4. QED
    BY <2>1, <2>2, <2>3 DEF Ensured
<1>3. Near(done[1], LaidOut(done[2]))
  <2> DEFINE s2 == done[2]
             l == LaidOut(s2)
  <2>1. s2.valid /\ DOMAIN s2 = StyledFields => DOMAIN l = StyledFields /\ l.version = s2.version /\ l.view = s2.view
    BY DEF LaidOut, StyledFields
  <2>2. l.valid => s2.valid
    BY DEF LaidOut
  <2> HIDE DEF s2, l
  <2>3. Near(done[1], s2)
    BY <1>2 DEF s2
  <2>4. Near(done[1], l)
    BY <2>1, <2>2, <2>3 DEF Near
  <2>5. QED
    BY <2>4 DEF l, s2
<1>4. QED
  BY <1>2, <1>3

-----------------------------------------------------------------------------
(* The mutations keep a document whole and a styled document near.         *)

\* f is d with another tree, before anything is marked.
Redone(d, f) == Edits(d, f) /\ f.sens = d.sens /\ f.root = d.root
\* What an operation must keep.
Keeps(d, e, s) == Whole(e) /\ Near(e, s)
\* The engine cannot tell f from d.
Unseen(d, f) ==
  d.sens = SelectsMark(d) => LayoutView(f) = LayoutView(d) /\ (SelectsMark(f) <=> SelectsMark(d))

LEMMA WithTree ==
  ASSUME NEW d, Sound(d), NEW t, DOMAIN t \subseteq DOMAIN d.tree
  PROVE  Redone(d, [d EXCEPT !.tree = t]) /\ [d EXCEPT !.tree = t].tree = t
<1>1. Edits(d, [d EXCEPT !.tree = t])
  BY TreeEdits
<1>2. /\ [d EXCEPT !.tree = t].sens = d.sens /\ [d EXCEPT !.tree = t].root = d.root
      /\ [d EXCEPT !.tree = t].tree = t
  BY DEF Sound, Fields
<1>3. QED
  BY <1>1, <1>2 DEF Redone

LEMMA RedoneOn ==
  ASSUME NEW d, Sound(d), NEW e, Redone(d, e), NEW f, Redone(e, f)
  PROVE  Redone(d, f) /\ Sound(e) /\ Sound(f)
BY EditsOn, EditIsSound DEF Redone

LEMMA MarkedKeeps ==
  ASSUME NEW d, Whole(d), NEW s, Near(d, s), NEW f, Redone(d, f), Tree(f.tree), Rooted(f),
         NEW affects \in BOOLEAN, NEW n, NEW sheets, NEW rebuild,
         affects \/ Unseen(d, f),
         NEW e, e = MarkMutated(f, affects, n, sheets, FALSE, rebuild)
  PROVE  Keeps(d, e, s)
<1>1. /\ Sound(f) /\ f.layout = d.layout /\ f.base = d.base /\ f.journal = d.journal /\ f.sens = d.sens
  BY EditIsSound DEF Redone, Edits, Whole
<1>2. /\ e.tree = f.tree /\ e.root = f.root /\ e.sens = f.sens
      /\ ~affects => e.layout = f.layout /\ e.base = f.base /\ e.journal = f.journal
      /\ affects => /\ e.layout = f.layout + 1
                    /\ \E r \in ToSet(e.journal) : r.version = e.layout /\ r.inline = FALSE
  <2> DEFINE inline == FALSE
  <2>1. e = MarkMutated(f, affects, n, sheets, inline, rebuild)
    OBVIOUS
  <2> HIDE DEF inline
  <2>2. Marked(f, e, affects, n, sheets, inline)
    BY <1>1, <2>1, MarkFacts
  <2>3. QED
    BY <2>2 DEF Marked, inline
<1>3. Sound(e)
  BY <1>1, MarkFollows DEF Follows
<1>4. Whole(e)
  BY <1>2, <1>3 DEF Whole, Rooted
<1>5. CASE affects
  BY <1>1, <1>2, <1>3, <1>4, <1>5, NearVoid DEF Keeps, Whole
<1>6. CASE ~affects
  <2>1. LayoutView(e) = LayoutView(f) /\ (SelectsMark(e) <=> SelectsMark(f))
    BY <1>2, SightOf
  <2>2. d.sens = SelectsMark(d) => LayoutView(e) = LayoutView(d) /\ (SelectsMark(e) <=> SelectsMark(d))
    BY <1>6, <2>1 DEF Unseen
  <2>3. d.sens = SelectsMark(d) => e.sens = SelectsMark(e)
    <3>1. SelectsMark(d) \in BOOLEAN /\ SelectsMark(e) \in BOOLEAN
      BY DEF SelectsMark
    <3>2. QED
      BY <1>1, <1>2, <2>2, <3>1
  <2>4. Near(e, s)
    BY <1>1, <1>2, <1>6, <2>2, <2>3, NearKept
  <2>5. QED
    BY <1>4, <2>4 DEF Keeps
<1>7. QED
  BY <1>5, <1>6

\* f's nodes hang where d's do.
LEMMA RetouchedFacts ==
  ASSUME NEW d, Whole(d), NEW f, f.root = d.root, DOMAIN f.tree = DOMAIN d.tree,
         \A m \in DOMAIN d.tree :
           /\ DOMAIN f.tree[m] = NodeFields /\ f.tree[m].kind = d.tree[m].kind
           /\ f.tree[m].up = d.tree[m].up /\ f.tree[m].kids = d.tree[m].kids
  PROVE  /\ Tree(f.tree) /\ Rooted(f)
         /\ (\A m \in DOMAIN d.tree : f.tree[m].val = d.tree[m].val) => Quietly(d, f, {})
<1>1. Tree(f.tree)
  <2> DEFINE t == d.tree
             u == f.tree
  <2>1. /\ Tree(t) /\ DOMAIN u = DOMAIN t
        /\ \A m \in DOMAIN t : /\ DOMAIN u[m] = NodeFields /\ u[m].kind = t[m].kind
                               /\ u[m].up = t[m].up /\ u[m].kids = t[m].kids
    BY DEF Whole
  <2> HIDE DEF t, u
  <2>2. Tree(u)
    BY <2>1, RetouchedTree
  <2>3. QED
    BY <2>2 DEF u
<1>2. Rooted(f)
  BY DEF Rooted, Whole
<1>3. ASSUME \A m \in DOMAIN d.tree : f.tree[m].val = d.tree[m].val PROVE Quietly(d, f, {})
  BY <1>3 DEF Quietly
<1>4. QED
  BY <1>1, <1>2, <1>3

LEMMA ReadKindsAffect ==
  ASSUME NEW t, Tree(t), NEW n \in DOMAIN t, t[n].kind \in ReadKinds
  PROVE  NodeAffectsLayout(t, n)
<1>1. t[n].kind \in Elements /\ t[n].kind # "script"
  BY StyleAssumption
<1>2. t[n].kind \notin {"comment", "script"} /\ ~TextIn(t, n, {"head", "script"})
  BY <1>1 DEF Elements, TextIn
<1>3. QED
  BY <1>2, AffectsFacts

LEMMA SetMarkKeeps ==
  ASSUME NEW d, Whole(d), NEW s, Near(d, s), NEW n \in DOMAIN d.tree,
         d.tree[n].kind \in ReadKinds, NEW v
  PROVE  Keeps(d, SetMark(d, n, v), s)
<1> DEFINE t == [d.tree EXCEPT ![n].mark = v]
           f == [d EXCEPT !.tree = t]
           affects == NodeAffectsLayout(d.tree, n) /\ d.sens
           sheets == d.tree[n].kind = "style"
           e == MarkMutated(f, affects, n, sheets, FALSE, FALSE)
<1>1. SetMark(d, n, v) = d \/ SetMark(d, n, v) = e
  <2>1. [d EXCEPT !.tree[n].mark = v] = f
    BY DEF Whole, Sound, Fields
  <2>2. QED
    BY <2>1, Zenon DEF SetMark
<1>2. /\ DOMAIN t = DOMAIN d.tree
      /\ \A m \in DOMAIN d.tree :
           /\ DOMAIN t[m] = NodeFields /\ t[m].kind = d.tree[m].kind /\ t[m].up = d.tree[m].up
           /\ t[m].kids = d.tree[m].kids /\ t[m].val = d.tree[m].val /\ t[m].style = d.tree[m].style
  BY DEF Whole, Tree, Typed, NodeFields
<1> HIDE DEF t
<1>3. Redone(d, f) /\ f.tree = t /\ f.root = d.root
  BY <1>2, WithTree DEF Whole, Redone
<1> HIDE DEF f
<1>4. Tree(f.tree) /\ Rooted(f) /\ Quietly(d, f, {})
  BY <1>2, <1>3, RetouchedFacts
<1>5. affects \in BOOLEAN /\ (affects \/ Unseen(d, f))
  <2>1. affects \in BOOLEAN
    OBVIOUS
  <2>2. CASE d.sens = SelectsMark(d) /\ ~affects
    <3>1. Tree(d.tree)
      BY DEF Whole
    <3>2. SelectsMark(f) <=> SelectsMark(d)
      BY <1>4, <3>1, SameShown
    <3>3. NodeAffectsLayout(d.tree, n)
      BY <3>1, ReadKindsAffect
    <3>4. ~SelectsMark(d)
      BY <2>2, <3>3
    <3>5. \A m \in Shown(d) : m \in DOMAIN d.tree
      BY DEF Shown
    <3>6. LayoutView(f) = LayoutView(d)
      BY <1>2, <1>3, <1>4, <3>1, <3>4, <3>5, SameView
    <3>7. QED
      BY <3>2, <3>6 DEF Unseen
  <2>3. QED
    BY <2>1, <2>2 DEF Unseen
<1> HIDE DEF affects, sheets
<1>6. Keeps(d, e, s)
  BY <1>3, <1>4, <1>5, MarkedKeeps
<1>7. Keeps(d, d, s)
  BY DEF Keeps
<1> HIDE DEF e
<1>8. QED
  BY <1>1, <1>6, <1>7

LEMMA SetStyleKeeps ==
  ASSUME NEW d, Whole(d), NEW s, Near(d, s), NEW n \in DOMAIN d.tree,
         d.tree[n].kind \in ReadKinds, NEW v
  PROVE  Keeps(d, SetStyle(d, n, v), s)
<1> DEFINE t == [d.tree EXCEPT ![n].style = v]
           f == [d EXCEPT !.tree = t]
           affects == NodeAffectsLayout(d.tree, n)
           inline == d.tree[n].kind # "style"
           sheets == d.tree[n].kind = "style"
           rebuild == 3 \in {v, d.tree[n].style}
           e == MarkMutated(f, affects, n, sheets, inline, rebuild)
<1>1. SetStyle(d, n, v) = d \/ SetStyle(d, n, v) = e
  <2>1. [d EXCEPT !.tree[n].style = v] = f
    BY DEF Whole, Sound, Fields
  <2>2. QED
    BY <2>1, Zenon DEF SetStyle
<1>2. /\ DOMAIN t = DOMAIN d.tree
      /\ \A m \in DOMAIN d.tree :
           /\ DOMAIN t[m] = NodeFields /\ t[m].kind = d.tree[m].kind /\ t[m].up = d.tree[m].up
           /\ t[m].kids = d.tree[m].kids /\ t[m].val = d.tree[m].val /\ t[m].mark = d.tree[m].mark
           /\ t[m].style = IF m = n THEN v ELSE d.tree[m].style
  BY DEF Whole, Tree, Typed, NodeFields
<1> HIDE DEF t
<1>3. Redone(d, f) /\ f.tree = t /\ f.root = d.root
  BY <1>2, WithTree DEF Whole, Redone
<1> HIDE DEF f
<1>4. Tree(f.tree) /\ Rooted(f) /\ Quietly(d, f, {}) /\ Tree(d.tree)
  BY <1>2, <1>3, RetouchedFacts DEF Whole
<1>5. affects /\ inline \in BOOLEAN
  BY <1>4, ReadKindsAffect
<1>6. CASE ~inline
  <2>1. e = MarkMutated(f, affects, n, sheets, FALSE, rebuild)
    BY <1>6
  <2> HIDE DEF e, affects, sheets, rebuild, inline
  <2>2. affects \in BOOLEAN
    BY <1>5
  <2>3. Keeps(d, e, s)
    BY <1>3, <1>4, <1>5, <2>1, <2>2, MarkedKeeps
  <2>4. QED
    BY <1>1, <2>3 DEF Keeps
<1>7. CASE inline
  <2>1. Sound(f) /\ Sound(d)
    BY <1>3, EditIsSound DEF Redone, Whole
  <2> HIDE DEF affects, sheets, rebuild, inline
  <2>a. affects \in BOOLEAN
    BY <1>5
  <2>2. Marked(f, e, affects, n, sheets, inline)
    BY <2>1, <2>a, MarkFacts
  <2>3. Sound(e)
    BY <2>1, <2>a, MarkFollows DEF Follows
  <2> HIDE DEF e
  <2>4. /\ e.tree = f.tree /\ e.root = f.root /\ e.sens = d.sens
        /\ e.layout = d.layout + 1 /\ e.base >= d.base
        /\ \E r \in ToSet(e.journal) : r.version = e.layout /\ r.node = n
        /\ \A r \in ToSet(d.journal) : r.version > e.base => r \in ToSet(e.journal)
    BY <1>3, <1>5, <2>2 DEF Marked, Redone, Edits
  <2>5. Whole(e)
    BY <1>4, <2>3, <2>4 DEF Whole, Rooted
  <2>6. LayoutView(e) = LayoutView(f) /\ (SelectsMark(e) <=> SelectsMark(f)) /\ (SelectsMark(f) <=> SelectsMark(d))
    BY <1>4, <2>4, SightOf, SameShown
  <2>7. StyleWritten(d.tree, f.tree, n, v)
    BY <1>2, <1>3 DEF StyleWritten
  <2>8. LayoutView(f) = StyledAt(LayoutView(d), n, v)
    <3> DEFINE X == {}
    <3>1. Quietly(d, f, X) /\ X = {}
      BY <1>4
    <3> HIDE DEF X
    <3>2. QED
      BY <1>4, <2>7, <3>1, RestyledView
  <2>9. \A m \in DOMAIN LayoutView(d) : IsNode(LayoutView(d)[m])
    BY <1>4, ViewFacts
  <2>10. LayoutView(e) = StyledAt(LayoutView(d), n, v)
    BY <2>6, <2>8
  <2>11. Near(e, s)
    BY <2>1, <2>3, <2>4, <2>6, <2>9, <2>10, NearStyled
  <2>12. QED
    BY <1>1, <2>5, <2>11 DEF Keeps
<1>8. QED
  BY <1>6, <1>7

\* What is not in the document, or is judged not to affect it, is not shown.
LEMMA LooseIsHidden ==
  ASSUME NEW d, Tree(d.tree), NEW n \in DOMAIN d.tree, ~IsConnected(d, n)
  PROVE  n \notin Shown(d) /\ n \notin Sheets(d)
BY DEF Shown, Sheets

LEMMA LooseFacts ==
  ASSUME NEW d, Tree(d.tree), NEW n \in DOMAIN d.tree, d.tree[n].up = 0, n # d.root
  PROVE  n \notin Shown(d) /\ n \notin Sheets(d)
<1>1. Above(d.tree, n) = {n}
  BY AboveFacts
<1>2. ~IsConnected(d, n)
  BY <1>1, ConnectedFacts
<1>3. QED
  BY <1>2, LooseIsHidden

LEMMA QuietIsHidden ==
  ASSUME NEW d, Tree(d.tree), NEW n \in DOMAIN d.tree, ~NodeAffectsLayout(d.tree, n),
         d.tree[n].kind # "script"
  PROVE  n \notin Shown(d) /\ n \notin Sheets(d)
<1>1. d.tree[n].kind = "comment" \/ TextIn(d.tree, n, {"head", "script"})
  BY AffectsFacts
<1>2. ~TextIn(d.tree, n, {"style"})
  BY <1>1 DEF TextIn
<1>3. QED
  BY <1>2 DEF Shown, Sheets

LEMMA UnseenIfQuiet ==
  ASSUME NEW d, NEW f, Tree(d.tree), Tree(f.tree), NEW X, Quietly(d, f, X),
         \A m \in DOMAIN d.tree \ X : /\ f.tree[m].style = d.tree[m].style
                                      /\ f.tree[m].mark = d.tree[m].mark
  PROVE  Unseen(d, f)
<1>1. Shown(d) \cap X = {} /\ (SelectsMark(f) <=> SelectsMark(d))
  BY SameShown
<1>2. \A m \in Shown(d) : m \in DOMAIN d.tree \ X
  BY <1>1 DEF Shown
<1>3. LayoutView(f) = LayoutView(d)
  BY <1>2, SameView
<1>4. QED
  BY <1>1, <1>3 DEF Unseen

LEMMA UnseenOn ==
  ASSUME NEW d, NEW e, NEW f, e.sens = d.sens, Unseen(d, e), Unseen(e, f)
  PROVE  Unseen(d, f)
<1>1. SelectsMark(d) \in BOOLEAN /\ SelectsMark(e) \in BOOLEAN
  BY DEF SelectsMark
<1>2. QED
  BY <1>1 DEF Unseen

\* Nothing hangs below a text or a comment.
LEMMA LeafFacts ==
  ASSUME NEW t, Tree(t), NEW c \in DOMAIN t, t[c].kind \in {"text", "comment"}
  PROVE  (\A m \in DOMAIN t : t[m].up # c) /\ (\A m \in DOMAIN t : m # c => c \notin Above(t, m))
<1>1. \A m \in DOMAIN t : t[m].up # c
  BY DEF Tree, Joined, Placed, Fit
<1>2. \A m \in DOMAIN t : m # c => c \notin Above(t, m)
  BY AboveKinds
<1>3. QED
  BY <1>1, <1>2

LEMMA KeptWithout ==
  ASSUME NEW X, NEW s \in Seq(X), NEW A, NEW S, NEW c, A = X \ {c}, c \notin S
  PROVE  Kept(Kept(s, A), S) = Kept(s, S)
<1>1. Kept(Kept(s, A), S) = Kept(s, A \cap S)
  BY KeptTwice
<1>2. ToSet(s) \subseteq X
  BY SeqFacts
<1>3. ToSet(s) \cap (A \cap S) = ToSet(s) \cap S
  BY <1>2
<1>4. Kept(s, A \cap S) = Kept(s, S)
  BY <1>3, KeptSame
<1>5. QED
  BY <1>1, <1>4

\* Taking off, or putting under, a leaf that is hidden before and after.
LEMMA UnseenTakenOff ==
  ASSUME NEW d, Tree(d.tree), NEW f, f.root = d.root, NEW c \in DOMAIN d.tree,
         TakenOff(d.tree, f.tree, c), c # d.root, d.tree[c].kind \in {"text", "comment"},
         c \notin Shown(d), c \notin Sheets(d)
  PROVE  Unseen(d, f) /\ Tree(f.tree) /\ f.tree[c].up = 0
<1> DEFINE t == d.tree
           u == f.tree
<1>1. Tree(t) /\ Tree(u) /\ u[c].up = 0
  <2>1. Tree(t) /\ TakenOff(t, u, c) /\ c \in DOMAIN t
    OBVIOUS
  <2> HIDE DEF t, u
  <2>2. QED
    BY <2>1, TakenOffTree, ZenonT(40) DEF TakenOff
<1>2. /\ DOMAIN u = DOMAIN t
      /\ \A m \in DOMAIN t :
           /\ u[m].kind = t[m].kind /\ u[m].val = t[m].val /\ u[m].style = t[m].style /\ u[m].mark = t[m].mark
           /\ m # c => u[m].up = t[m].up
           /\ u[m].kids = IF m = t[c].up THEN Kept(t[m].kids, DOMAIN t \ {c}) ELSE t[m].kids
  BY DEF TakenOff, Like
<1>3. \A m \in DOMAIN t : t[m].up # c /\ t[m].kids \in Seq(DOMAIN t)
  <2>1. \A m \in DOMAIN t : t[m].up # c
    <3>1. c \in DOMAIN t /\ t[c].kind \in {"text", "comment"}
      OBVIOUS
    <3> HIDE DEF t
    <3>2. QED
      BY <1>1, <3>1, LeafFacts
  <2>2. \A m \in DOMAIN t : t[m].kids \in Seq(DOMAIN t)
    BY <1>1 DEF Tree, Joined
  <2>3. QED
    BY <2>1, <2>2
<1>4. ASSUME NEW m \in DOMAIN t, NEW S, S \cap {c} = {}
      PROVE  Kept(u[m].kids, S) = Kept(t[m].kids, S)
  <2>1. CASE m = t[c].up
    <3> DEFINE A == DOMAIN t \ {c}
               q == t[m].kids
    <3>1. q \in Seq(DOMAIN t) /\ c \notin S /\ u[m].kids = Kept(q, A)
      BY <1>2, <1>3, <1>4, <2>1
    <3>2. A = DOMAIN t \ {c}
      OBVIOUS
    <3> HIDE DEF A, q
    <3>3. Kept(Kept(q, A), S) = Kept(q, S)
      BY <3>1, <3>2, KeptWithout
    <3>4. QED
      BY <3>1, <3>3 DEF q
  <2>2. CASE m # t[c].up
    BY <1>2, <2>2
  <2>3. QED
    BY <2>1, <2>2
<1>5. c \notin Shown(f) /\ c \notin Sheets(f)
  BY <1>1, <1>2, LooseFacts
<1>6. Quietly(d, f, {c})
  BY <1>2, <1>3, <1>4, <1>5 DEF Quietly
<1>7. Unseen(d, f)
  BY <1>1, <1>2, <1>6, UnseenIfQuiet
<1>8. QED
  BY <1>1, <1>7

LEMMA UnseenPutUnder ==
  ASSUME NEW d, Tree(d.tree), NEW f, f.root = d.root, NEW p \in DOMAIN d.tree, NEW c \in DOMAIN d.tree,
         d.tree[c].up = 0, Fit(d.tree, c, p), NEW i \in 1..Len(d.tree[p].kids) + 1,
         PutUnder(d.tree, f.tree, p, c, i), c # d.root, c # p, d.tree[c].kind \in {"text", "comment"},
         ~NodeAffectsLayout(f.tree, c)
  PROVE  Unseen(d, f) /\ Tree(f.tree)
<1> DEFINE t == d.tree
           u == f.tree
<1>1. Tree(t) /\ Tree(u)
  <2>1. /\ Tree(t) /\ PutUnder(t, u, p, c, i) /\ c \in DOMAIN t /\ p \in DOMAIN t /\ t[c].up = 0 /\ Fit(t, c, p)
        /\ i \in 1..Len(t[p].kids) + 1 /\ t[c].kind \in {"text", "comment"}
    OBVIOUS
  <2> HIDE DEF t, u
  <2>2. c \notin Above(t, p)
    BY <2>1, LeafFacts
  <2>3. QED
    BY <2>1, <2>2, PutUnderTree
<1>2. /\ DOMAIN u = DOMAIN t
      /\ \A m \in DOMAIN t :
           /\ u[m].kind = t[m].kind /\ u[m].val = t[m].val /\ u[m].style = t[m].style /\ u[m].mark = t[m].mark
           /\ m # c => u[m].up = t[m].up
           /\ u[m].kids = IF m = p THEN InsertAt(t[p].kids, i, c) ELSE t[m].kids
  BY DEF PutUnder, Like
<1>3. \A m \in DOMAIN t : t[m].up # c /\ t[m].kids \in Seq(DOMAIN t)
  <2>1. \A m \in DOMAIN t : t[m].up # c
    <3>1. c \in DOMAIN t /\ t[c].kind \in {"text", "comment"}
      OBVIOUS
    <3> HIDE DEF t
    <3>2. QED
      BY <1>1, <3>1, LeafFacts
  <2>2. \A m \in DOMAIN t : t[m].kids \in Seq(DOMAIN t)
    BY <1>1 DEF Tree, Joined
  <2>3. QED
    BY <2>1, <2>2
<1>4. ASSUME NEW m \in DOMAIN t, NEW S, S \cap {c} = {}
      PROVE  Kept(u[m].kids, S) = Kept(t[m].kids, S)
  <2>1. CASE m = p
    <3> DEFINE q == t[m].kids
    <3>1. q \in Seq(DOMAIN t) /\ c \notin S /\ u[m].kids = InsertAt(q, i, c) /\ i \in 1..Len(q) + 1
      BY <1>2, <1>3, <1>4, <2>1
    <3> HIDE DEF q
    <3>2. Kept(InsertAt(q, i, c), S) = Kept(q, S)
      BY <3>1, InsertFacts
    <3>3. QED
      BY <3>1, <3>2 DEF q
  <2>2. CASE m # p
    BY <1>2, <2>2
  <2>3. QED
    BY <2>1, <2>2
<1>5. c \notin Shown(d) /\ c \notin Sheets(d) /\ c \notin Shown(f) /\ c \notin Sheets(f)
  <2>1. c \notin Shown(d) /\ c \notin Sheets(d)
    BY <1>1, LooseFacts
  <2>2. c \notin Shown(f) /\ c \notin Sheets(f)
    BY <1>1, <1>2, QuietIsHidden
  <2>3. QED
    BY <2>1, <2>2
<1>6. Quietly(d, f, {c})
  BY <1>2, <1>3, <1>4, <1>5 DEF Quietly
<1>7. Unseen(d, f)
  BY <1>1, <1>2, <1>6, UnseenIfQuiet
<1>8. QED
  BY <1>1, <1>7

-----------------------------------------------------------------------------
(* The moves.                                                              *)

LEMMA AffectsSame ==
  ASSUME NEW t, NEW u, Tree(t), Tree(u), NEW n \in DOMAIN t, n \in DOMAIN u,
         u[n].kind = t[n].kind, u[n].up = t[n].up,
         t[n].up # 0 => u[t[n].up].kind = t[t[n].up].kind
  PROVE  NodeAffectsLayout(u, n) <=> NodeAffectsLayout(t, n)
<1>1. TextIn(u, n, {"head", "script"}) <=> TextIn(t, n, {"head", "script"})
  BY DEF TextIn
<1>2. QED
  BY <1>1, AffectsFacts

\* A parent that does not affect the layout is a script, and its texts do not.
LEMMA QuietParent ==
  ASSUME NEW t, Tree(t), NEW p \in DOMAIN t, t[p].kind \notin {"text", "comment"},
         ~NodeAffectsLayout(t, p)
  PROVE  t[p].kind = "script"
<1>1. ~TextIn(t, p, {"head", "script"})
  BY DEF TextIn
<1>2. QED
  BY <1>1, AffectsFacts

LEMMA QuietText ==
  ASSUME NEW t, Tree(t), NEW p \in DOMAIN t, t[p].kind = "script",
         NEW c \in DOMAIN t, t[c].kind = "text", t[c].up = p
  PROVE  ~NodeAffectsLayout(t, c)
<1>1. p # 0
  BY DEF Tree, Joined
<1>2. TextIn(t, c, {"head", "script"})
  BY <1>1 DEF TextIn
<1>3. QED
  BY <1>2, AffectsFacts

LEMMA QuietKinds ==
  ASSUME NEW t, Tree(t), NEW c \in DOMAIN t, ~NodeAffectsLayout(t, c), t[c].kind # "script"
  PROVE  t[c].kind \in {"text", "comment"}
<1>1. t[c].kind = "comment" \/ TextIn(t, c, {"head", "script"})
  BY AffectsFacts
<1>2. QED
  BY <1>1 DEF TextIn

\* What a move may do: p takes c.
May(t, p, c) == MayHold(t, p, c) /\ (t[p].kind \in {"style", "script"} => t[c].kind = "text")

LEMMA MovedTree ==
  ASSUME NEW t, Tree(t), NEW p \in DOMAIN t, NEW c \in DOMAIN t, May(t, p, c),
         NEW u, TakenOff(t, u, c), NEW i \in 1..Len(u[p].kids) + 1, NEW w, PutUnder(u, w, p, c, i)
  PROVE  /\ Tree(u) /\ Tree(w) /\ p # c /\ p \in DOMAIN u /\ c \in DOMAIN u
         /\ u[c].up = 0 /\ Fit(u, c, p)
<1>1. Tree(u)
  BY TakenOffTree
<1>2. DOMAIN u = DOMAIN t /\ u[c].up = 0 /\ \A m \in DOMAIN t : u[m].kind = t[m].kind /\ (m # c => u[m].up = t[m].up)
  BY DEF TakenOff, Like
<1>3. c \notin Above(t, p)
  BY DEF May, MayHold, Covers, Above
<1>4. p # c
  BY <1>3, AboveFacts
<1> DEFINE X == Subtree(t, c)
<1>5. /\ X = {m \in DOMAIN t : c \in Above(t, m)} /\ c \in X
      /\ \A m \in DOMAIN t : m # c => (m \in X <=> t[m].up \in X)
  BY SubtreeFacts
<1> HIDE DEF X
<1>6. \A m \in DOMAIN t \ X : m \in DOMAIN u /\ u[m].up = t[m].up /\ t[m].up \notin X
  BY <1>2, <1>5
<1>7. p \in DOMAIN t \ X
  BY <1>3, <1>5
<1>8. Above(u, p) = Above(t, p)
  BY <1>1, <1>6, <1>7, SameAbove
<1>9. t[p].kind \notin {"text", "comment"}
  BY DEF May, MayHold, Elements
<1>10. Fit(u, c, p)
  BY <1>2, <1>9 DEF Fit, May
<1>11. c \notin Above(u, p) /\ p \in DOMAIN u /\ c \in DOMAIN u
  BY <1>2, <1>3, <1>8
<1>12. Tree(w)
  BY <1>1, <1>2, <1>10, <1>11, PutUnderTree
<1>13. QED
  BY <1>1, <1>2, <1>4, <1>10, <1>11, <1>12

LEMMA MovedUnseen ==
  ASSUME NEW d, Whole(d), NEW p \in DOMAIN d.tree, NEW c \in DOMAIN d.tree, May(d.tree, p, c),
         NEW f, f.root = d.root, f.sens = d.sens, TakenOff(d.tree, f.tree, c),
         NEW i \in 1..Len(f.tree[p].kids) + 1,
         NEW g, g.root = d.root, PutUnder(f.tree, g.tree, p, c, i),
         ~NodeAffectsLayout(d.tree, c), ~NodeAffectsLayout(g.tree, c), d.tree[c].kind # "script"
  PROVE  Unseen(d, g)
<1>1. Tree(d.tree) /\ d.tree[c].kind \in {"text", "comment"} /\ c # d.root
  BY QuietKinds DEF Whole, Rooted
<1>2. c \notin Shown(d) /\ c \notin Sheets(d)
  BY <1>1, QuietIsHidden
<1>3. Unseen(d, f) /\ Tree(f.tree) /\ f.tree[c].up = 0
  BY <1>1, <1>2, UnseenTakenOff
<1>4. p # c /\ p \in DOMAIN f.tree /\ c \in DOMAIN f.tree /\ Fit(f.tree, c, p)
  <2> DEFINE t == d.tree
             u == f.tree
             w == g.tree
  <2>1. Tree(t) /\ p \in DOMAIN t /\ c \in DOMAIN t /\ May(t, p, c) /\ TakenOff(t, u, c)
        /\ i \in 1..Len(u[p].kids) + 1 /\ PutUnder(u, w, p, c, i)
    BY <1>1
  <2> HIDE DEF t, u, w
  <2>2. p # c /\ p \in DOMAIN u /\ c \in DOMAIN u /\ Fit(u, c, p)
    BY <2>1, MovedTree
  <2>3. QED
    BY <2>2 DEF u
<1>5. f.tree[c].kind \in {"text", "comment"}
  BY <1>1 DEF TakenOff, Like
<1>6. Unseen(f, g)
  <2>1. g.root = f.root /\ c # f.root
    BY <1>1
  <2>2. QED
    BY <1>3, <1>4, <1>5, <2>1, UnseenPutUnder
<1>7. QED
  BY <1>3, <1>6, UnseenOn

\* A move that is not marked, and does not cross, concerns what nobody sees.
LEMMA QuietMove ==
  ASSUME NEW t, Tree(t), NEW u, Tree(u), NEW p \in DOMAIN t, NEW c \in DOMAIN t, May(t, p, c),
         DOMAIN u = DOMAIN t, u[c].up = p, \A m \in DOMAIN t : u[m].kind = t[m].kind,
         ~Crosses(t, u, c), ~(NodeAffectsLayout(t, p) /\ NodeAffectsLayout(t, c))
  PROVE  ~NodeAffectsLayout(t, c) /\ ~NodeAffectsLayout(u, c) /\ t[c].kind # "script"
<1>1. t[c].kind # "script" /\ (NodeAffectsLayout(t, c) <=> NodeAffectsLayout(u, c))
  BY AffectsIsBoolean DEF Crosses
<1>2. ASSUME NodeAffectsLayout(t, c) PROVE FALSE
  <2>1. ~NodeAffectsLayout(t, p) /\ t[p].kind \notin {"text", "comment"}
    BY <1>2 DEF May, MayHold, Elements
  <2>2. t[p].kind = "script"
    BY <2>1, QuietParent
  <2>3. u[p].kind = "script" /\ u[c].kind = "text"
    BY <2>2 DEF May
  <2>4. ~NodeAffectsLayout(u, c)
    BY <2>3, QuietText
  <2>5. QED
    BY <1>1, <1>2, <2>4
<1>3. QED
  BY <1>1, <1>2

\* The place of a child among the others.
Spot(u, p, r) == CHOOSE i \in DOMAIN u[p].kids : u[p].kids[i] = r

LEMMA SpotFacts ==
  ASSUME NEW t, Tree(t), NEW c, NEW u, Tree(u), TakenOff(t, u, c), NEW p \in DOMAIN t,
         NEW r \in ToSet(t[p].kids), r # c
  PROVE  Spot(u, p, r) \in 1..Len(u[p].kids) + 1
<1>1. u[p].kids \in Seq(DOMAIN t) /\ t[p].kids \in Seq(DOMAIN t)
  BY DEF TakenOff, Tree, Joined
<1>2. Len(u[p].kids) \in Nat /\ DOMAIN u[p].kids = 1..Len(u[p].kids)
  BY <1>1
<1>3. r \in ToSet(u[p].kids)
  <2>1. r \in DOMAIN t
    BY <1>1, SeqFacts
  <2>2. CASE p = t[c].up
    <3> DEFINE keep == DOMAIN t \ {c}
               q == t[p].kids
    <3>1. u[p].kids = Kept(q, keep) /\ q \in Seq(DOMAIN t) /\ r \in ToSet(q) \cap keep
      BY <1>1, <2>1, <2>2 DEF TakenOff
    <3> HIDE DEF keep, q
    <3>2. ToSet(Kept(q, keep)) = ToSet(q) \cap keep
      BY <3>1, KeptFacts
    <3>3. QED
      BY <3>1, <3>2
  <2>3. CASE p # t[c].up
    BY <2>3 DEF TakenOff
  <2>4. QED
    BY <2>2, <2>3
<1>4. \E i \in DOMAIN u[p].kids : u[p].kids[i] = r
  BY <1>1, <1>3, SeqFacts
<1>5. Spot(u, p, r) \in DOMAIN u[p].kids
  BY <1>4 DEF Spot
<1>6. QED
  BY <1>2, <1>5

LEMMA PlaceChildKeeps ==
  ASSUME NEW d, Whole(d), NEW s, Near(d, s), NEW p \in DOMAIN d.tree, NEW c \in DOMAIN d.tree,
         May(d.tree, p, c), NEW before, before = 0 \/ before \in ToSet(d.tree[p].kids) \ {c}
  PROVE  /\ Whole(PlaceChild(d, p, c, before))
         /\ Crosses(d.tree, PlaceChild(d, p, c, before).tree, c) \/ Near(PlaceChild(d, p, c, before), s)
<1> DEFINE t == d.tree
           u == Detach(t, c)
           at == IF before = 0 THEN Len(u[p].kids) + 1
                 ELSE CHOOSE i \in DOMAIN u[p].kids : u[p].kids[i] = before
           w == PlaceAt(u, p, c, at)
           f == [d EXCEPT !.tree = u]
           g == [d EXCEPT !.tree = w]
           affects == NodeAffectsLayout(t, p) /\ NodeAffectsLayout(t, c)
           sheets == MutationAffectsStylesheets(g.tree, c)
           e == MarkMutated(g, affects, c, sheets, FALSE, FALSE)
<1>1. PlaceChild(d, p, c, before) = e
  BY DEF PlaceChild
<1>2. Tree(t) /\ p \in DOMAIN t /\ c \in DOMAIN t /\ May(t, p, c) /\ Sound(d)
      /\ (before = 0 \/ before \in ToSet(t[p].kids) \ {c})
  BY DEF Whole
<1>3. TakenOff(t, u, c)
  BY <1>2, DetachShape
<1>4. Redone(d, f) /\ f.tree = u
  <2> HIDE DEF t, u
  <2>1. DOMAIN u \subseteq DOMAIN d.tree
    BY <1>3 DEF TakenOff, t
  <2>2. QED
    BY <1>2, <2>1, WithTree
<1> HIDE DEF u, f
<1>5. Tree(u) /\ DOMAIN u = DOMAIN t /\ u[c].up = 0
      /\ \A m \in DOMAIN t : DOMAIN u[m] = NodeFields /\ u[m].kind = t[m].kind
  <2> HIDE DEF t
  <2>1. Tree(u)
    BY <1>2, <1>3, TakenOffTree
  <2>2. QED
    BY <1>2, <1>3, <2>1 DEF TakenOff, Like
<1>6. p # c
  BY <1>2, AboveFacts DEF May, MayHold, Covers, Above
<1>7. at \in 1..Len(u[p].kids) + 1
  <2>1. Len(u[p].kids) \in Nat
    BY <1>2, <1>5 DEF Tree, Joined
  <2>2. ASSUME before # 0 PROVE Spot(u, p, before) \in 1..Len(u[p].kids) + 1
    <3>1. before \in ToSet(t[p].kids) /\ before # c
      BY <1>2, <2>2
    <3> HIDE DEF t
    <3>2. QED
      BY <1>2, <1>3, <1>5, <3>1, SpotFacts
  <2>3. QED
    BY <2>1, <2>2 DEF Spot
<1> HIDE DEF at
<1>8. PutUnder(u, w, p, c, at)
  <2>1. p \in DOMAIN u /\ c \in DOMAIN u
    BY <1>2, <1>5
  <2>2. QED
    BY <1>5, <1>6, <2>1, PlaceShape
<1> HIDE DEF w
<1>9. Tree(w)
  <2> HIDE DEF t
  <2>1. QED
    BY <1>2, <1>3, <1>7, <1>8, MovedTree
<1>10. DOMAIN w = DOMAIN t /\ w[c].up = p /\ \A m \in DOMAIN t : w[m].kind = t[m].kind /\ (m # c => w[m].up = t[m].up)
  BY <1>2, <1>3, <1>8 DEF TakenOff, PutUnder, Like
<1>11. Redone(d, g) /\ g.tree = w
  BY <1>2, <1>10, WithTree
<1> HIDE DEF g
<1>12. Rooted(g) /\ g.root = d.root /\ f.root = d.root /\ f.sens = d.sens
  BY <1>2, <1>4, <1>10, <1>11 DEF Whole, Rooted, Redone, May, MayHold
<1>13. affects \in BOOLEAN
  OBVIOUS
<1>14. e.tree = w /\ Whole(e)
  <2>1. Sound(g)
    BY <1>2, <1>11, EditIsSound DEF Redone
  <2> HIDE DEF affects, sheets
  <2>2. Marked(g, e, affects, c, sheets, FALSE) /\ Sound(e)
    BY <1>13, <2>1, MarkFacts, MarkFollows DEF Follows
  <2> HIDE DEF e
  <2>3. QED
    BY <1>9, <1>11, <1>12, <2>2 DEF Marked, Whole, Rooted
<1>15. ASSUME ~Crosses(t, w, c) PROVE affects \/ Unseen(d, g)
  <2> SUFFICES ASSUME ~affects PROVE Unseen(d, g)
    OBVIOUS
  <2>1. ~NodeAffectsLayout(t, c) /\ ~NodeAffectsLayout(w, c) /\ t[c].kind # "script"
    <3> HIDE DEF t
    <3>1. QED
      BY <1>2, <1>9, <1>10, <1>15, QuietMove
  <2>2. QED
    BY <1>2, <1>3, <1>4, <1>7, <1>8, <1>11, <1>12, <2>1, MovedUnseen
<1> HIDE DEF affects, sheets, t
<1>16. ASSUME ~Crosses(t, w, c) PROVE Near(e, s)
  BY <1>9, <1>11, <1>12, <1>13, <1>15, <1>16, MarkedKeeps DEF Keeps
<1> HIDE DEF e
<1>17. QED
  BY <1>1, <1>14, <1>16 DEF t

LEMMA RemoveChildKeeps ==
  ASSUME NEW d, Whole(d), NEW s, Near(d, s), NEW c \in DOMAIN d.tree, d.tree[c].up # 0
  PROVE  /\ Whole(RemoveChild(d, c))
         /\ Crosses(d.tree, RemoveChild(d, c).tree, c) \/ Near(RemoveChild(d, c), s)
<1> DEFINE t == d.tree
           p == t[c].up
           u == Detach(t, c)
           f == [d EXCEPT !.tree = u]
           affects == NodeAffectsLayout(t, p) /\ NodeAffectsLayout(t, c)
           sheets == MutationAffectsStylesheets(t, c)
           e == MarkMutated(f, affects, c, sheets, FALSE, FALSE)
<1>1. RemoveChild(d, c) = e
  BY DEF RemoveChild
<1>2. Tree(t) /\ c \in DOMAIN t /\ Sound(d) /\ p \in DOMAIN t /\ Fit(t, c, p) /\ c # d.root
  BY DEF Whole, Rooted, Tree, Joined, Placed
<1>3. TakenOff(t, u, c)
  BY <1>2, DetachShape
<1>4. Redone(d, f) /\ f.tree = u
  <2> HIDE DEF t, u
  <2>1. DOMAIN u \subseteq DOMAIN d.tree
    BY <1>3 DEF TakenOff, t
  <2>2. QED
    BY <1>2, <2>1, WithTree
<1> HIDE DEF u, f
<1>5. Tree(u)
  <2> HIDE DEF t
  <2>1. QED
    BY <1>2, <1>3, TakenOffTree
<1>6. DOMAIN u = DOMAIN t /\ \A m \in DOMAIN t : u[m].kind = t[m].kind /\ (m # c => u[m].up = t[m].up)
  BY <1>2, <1>3 DEF TakenOff, Like
<1>7. Rooted(f) /\ f.root = d.root
  BY <1>2, <1>4, <1>6 DEF Whole, Rooted, Redone
<1>8. affects \in BOOLEAN
  OBVIOUS
<1>9. e.tree = u /\ Whole(e)
  <2>1. Sound(f)
    BY <1>2, <1>4, EditIsSound DEF Redone
  <2> HIDE DEF affects, sheets
  <2>2. Marked(f, e, affects, c, sheets, FALSE) /\ Sound(e)
    BY <1>8, <2>1, MarkFacts, MarkFollows DEF Follows
  <2> HIDE DEF e
  <2>3. QED
    BY <1>4, <1>5, <1>7, <2>2 DEF Marked, Whole, Rooted
<1>10. ASSUME ~Crosses(t, u, c) PROVE affects \/ Unseen(d, f)
  <2> SUFFICES ASSUME ~affects PROVE Unseen(d, f)
    OBVIOUS
  <2>1. t[c].kind # "script"
    BY <1>2, <1>10 DEF Crosses
  <2>2. ~NodeAffectsLayout(t, c)
    <3>1. CASE ~NodeAffectsLayout(t, p)
      <4>1. t[p].kind = "script" /\ t[c].kind = "text"
        BY <1>2, <3>1, QuietParent DEF Fit
      <4>2. QED
        BY <1>2, <4>1, QuietText
    <3>2. QED
      BY <3>1
  <2>3. t[c].kind \in {"text", "comment"} /\ c \notin Shown(d) /\ c \notin Sheets(d)
    BY <1>2, <2>1, <2>2, QuietKinds, QuietIsHidden
  <2>4. QED
    BY <1>2, <1>3, <1>4, <1>7, <2>3, UnseenTakenOff
<1> HIDE DEF affects, sheets, t
<1>11. ASSUME ~Crosses(t, u, c) PROVE Near(e, s)
  BY <1>4, <1>5, <1>7, <1>8, <1>10, <1>11, MarkedKeeps DEF Keeps
<1> HIDE DEF e
<1>12. QED
  BY <1>1, <1>9, <1>11 DEF t

LEMMA ReplaceChildKeeps ==
  ASSUME NEW d, Whole(d), NEW s, Near(d, s), NEW p \in DOMAIN d.tree, NEW c \in DOMAIN d.tree,
         May(d.tree, p, c), NEW r \in ToSet(d.tree[p].kids) \ {c}
  PROVE  /\ Whole(ReplaceChild(d, c, r))
         /\ Crosses(d.tree, ReplaceChild(d, c, r).tree, c) \/ Near(ReplaceChild(d, c, r), s)
<1> DEFINE t == d.tree
           u == Detach(t, c)
           at == CHOOSE i \in DOMAIN u[p].kids : u[p].kids[i] = r
           w == PlaceAt(u, p, c, at)
           x == Detach(w, r)
           f == [d EXCEPT !.tree = u]
           g == [d EXCEPT !.tree = w]
           h == [d EXCEPT !.tree = x]
           affects == /\ NodeAffectsLayout(t, p)
                      /\ NodeAffectsLayout(t, c) \/ NodeAffectsLayout(t, r)
           sheets == MutationAffectsStylesheets(t, r) \/ MutationAffectsStylesheets(h.tree, c)
           e == MarkMutated(h, affects, c, sheets, FALSE, FALSE)
<1>1. /\ Tree(t) /\ p \in DOMAIN t /\ c \in DOMAIN t /\ May(t, p, c) /\ Sound(d)
      /\ r \in ToSet(t[p].kids) /\ r # c
  BY DEF Whole
<1>2. r \in DOMAIN t /\ t[r].up = p /\ p # 0 /\ r # p
  <2>1. t[p].kids \in Seq(DOMAIN t) /\ 0 \notin DOMAIN t /\ \A k \in DOMAIN t : k \in ToSet(t[p].kids) <=> t[k].up = p
    BY <1>1 DEF Tree, Joined
  <2>2. r \in DOMAIN t
    BY <1>1, <2>1, SeqFacts
  <2>3. r # p
    BY <1>1, <2>1, <2>2, NotAboveItself
  <2>4. QED
    BY <1>1, <2>1, <2>2, <2>3
<1>3. ReplaceChild(d, c, r) = e
  BY <1>2 DEF ReplaceChild
<1>4. TakenOff(t, u, c)
  BY <1>1, DetachShape
<1>5. Redone(d, f) /\ f.tree = u
  <2> HIDE DEF t, u
  <2>1. DOMAIN u \subseteq DOMAIN d.tree
    BY <1>4 DEF TakenOff, t
  <2>2. QED
    BY <1>1, <2>1, WithTree
<1> HIDE DEF u, f
<1>6. Tree(u) /\ DOMAIN u = DOMAIN t /\ u[c].up = 0
      /\ \A m \in DOMAIN t : DOMAIN u[m] = NodeFields /\ u[m].kind = t[m].kind
  <2> HIDE DEF t
  <2>1. Tree(u)
    BY <1>1, <1>4, TakenOffTree
  <2>2. QED
    BY <1>1, <1>4, <2>1 DEF TakenOff, Like
<1>7. p # c
  BY <1>1, AboveFacts DEF May, MayHold, Covers, Above
<1>8. at \in 1..Len(u[p].kids) + 1
  <2>1. at = Spot(u, p, r)
    BY DEF Spot
  <2>2. Spot(u, p, r) \in 1..Len(u[p].kids) + 1
    <3> HIDE DEF t, at
    <3>1. QED
      BY <1>1, <1>4, <1>6, SpotFacts
  <2>3. QED
    BY <2>1, <2>2
<1> HIDE DEF at
<1>9. PutUnder(u, w, p, c, at)
  <2>1. p \in DOMAIN u /\ c \in DOMAIN u
    BY <1>1, <1>6
  <2>2. QED
    BY <1>6, <1>7, <2>1, PlaceShape
<1> HIDE DEF w
<1>10. Tree(w)
  <2> HIDE DEF t
  <2>1. QED
    BY <1>1, <1>4, <1>8, <1>9, MovedTree
<1>11. DOMAIN w = DOMAIN t /\ w[c].up = p /\ \A m \in DOMAIN t : w[m].kind = t[m].kind /\ (m # c => w[m].up = t[m].up)
  BY <1>1, <1>4, <1>9 DEF TakenOff, PutUnder, Like
<1>12. Redone(d, g) /\ g.tree = w
  BY <1>1, <1>11, WithTree
<1> HIDE DEF g
<1>13. TakenOff(w, x, r) /\ r \in DOMAIN w
  BY <1>2, <1>10, <1>11, DetachShape
<1> HIDE DEF x
<1>14. Tree(x)
  BY <1>10, <1>13, TakenOffTree
<1>15. /\ DOMAIN x = DOMAIN t /\ x[c].up = p /\ x[r].up = 0
       /\ \A m \in DOMAIN t : x[m].kind = t[m].kind /\ (m # c /\ m # r => x[m].up = t[m].up)
  BY <1>1, <1>11, <1>13 DEF TakenOff, Like
<1>16. Redone(d, h) /\ h.tree = x
  BY <1>1, <1>15, WithTree
<1> HIDE DEF h
<1>17. /\ Rooted(h) /\ h.root = d.root /\ g.root = d.root /\ f.root = d.root /\ f.sens = d.sens /\ g.sens = d.sens
       /\ r # d.root
  BY <1>1, <1>2, <1>5, <1>12, <1>15, <1>16 DEF Whole, Rooted, Redone, May, MayHold
<1>18. affects \in BOOLEAN
  OBVIOUS
<1>19. e.tree = x /\ Whole(e)
  <2>1. Sound(h)
    BY <1>1, <1>16, EditIsSound DEF Redone
  <2> HIDE DEF affects, sheets
  <2>2. Marked(h, e, affects, c, sheets, FALSE) /\ Sound(e)
    BY <1>18, <2>1, MarkFacts, MarkFollows DEF Follows
  <2> HIDE DEF e
  <2>3. QED
    BY <1>14, <1>16, <1>17, <2>2 DEF Marked, Whole, Rooted
<1>20. ASSUME ~Crosses(t, x, c) PROVE affects \/ Unseen(d, h)
  <2> SUFFICES ASSUME ~affects PROVE Unseen(d, h)
    OBVIOUS
  <2>1. ~(NodeAffectsLayout(t, p) /\ NodeAffectsLayout(t, c))
    OBVIOUS
  <2>2. ~NodeAffectsLayout(t, c) /\ ~NodeAffectsLayout(x, c) /\ t[c].kind # "script"
    <3> HIDE DEF t, affects
    <3>1. QED
      BY <1>1, <1>14, <1>15, <1>20, <2>1, QuietMove
  <2>3. t[r].kind # "script"
    BY <1>2, <1>15, <1>20 DEF Crosses
  <2>4. ~NodeAffectsLayout(t, r)
    <3>1. CASE ~NodeAffectsLayout(t, p)
      <4>1. t[p].kind \notin {"text", "comment"}
        BY <1>1 DEF May, MayHold, Elements
      <4>2. t[p].kind = "script"
        BY <1>1, <3>1, <4>1, QuietParent
      <4>3. t[r].kind = "text"
        BY <1>1, <1>2, <4>2 DEF Tree, Placed, Fit
      <4>4. QED
        BY <1>1, <1>2, <4>2, <4>3, QuietText
    <3>2. QED
      BY <3>1
  <2>5. ~NodeAffectsLayout(w, c)
    <3>1. NodeAffectsLayout(x, c) <=> NodeAffectsLayout(w, c)
      <4> HIDE DEF t, affects
      <4>1. /\ c \in DOMAIN w /\ c \in DOMAIN x /\ x[c].kind = w[c].kind /\ x[c].up = w[c].up
            /\ w[c].up # 0 => x[w[c].up].kind = w[w[c].up].kind
        BY <1>1, <1>11, <1>15
      <4>2. QED
        BY <1>10, <1>14, <4>1, AffectsSame
    <3>2. QED
      BY <2>2, <3>1
  <2>6. ~NodeAffectsLayout(w, r)
    <3>1. NodeAffectsLayout(w, r) <=> NodeAffectsLayout(t, r)
      <4> HIDE DEF t, affects
      <4>1. /\ r \in DOMAIN w /\ r \in DOMAIN t /\ w[r].kind = t[r].kind /\ w[r].up = t[r].up
            /\ t[r].up # 0 => w[t[r].up].kind = t[t[r].up].kind
        BY <1>1, <1>2, <1>11
      <4>2. QED
        BY <1>1, <1>10, <4>1, AffectsSame
    <3>2. QED
      BY <2>4, <3>1
  <2>7. Unseen(d, g)
    BY <1>1, <1>4, <1>5, <1>8, <1>9, <1>12, <1>17, <2>2, <2>5, MovedUnseen
  <2>8. w[r].kind \in {"text", "comment"} /\ r \notin Shown(g) /\ r \notin Sheets(g)
    <3>1. w[r].kind # "script"
      BY <1>2, <1>11, <2>3
    <3>2. QED
      BY <1>10, <1>12, <1>13, <2>6, <3>1, QuietKinds, QuietIsHidden
  <2>9. Unseen(g, h)
    <3> HIDE DEF t, affects
    <3>1. Tree(g.tree) /\ h.root = g.root /\ r \in DOMAIN g.tree /\ TakenOff(g.tree, h.tree, r)
          /\ r # g.root /\ g.tree[r].kind \in {"text", "comment"}
      BY <1>10, <1>12, <1>13, <1>16, <1>17, <2>8
    <3>2. QED
      BY <2>8, <3>1, UnseenTakenOff
  <2>10. QED
    BY <1>17, <2>7, <2>9, UnseenOn
<1> HIDE DEF affects, sheets, t
<1>21. ASSUME ~Crosses(t, x, c) PROVE Near(e, s)
  BY <1>14, <1>16, <1>17, <1>18, <1>20, <1>21, MarkedKeeps DEF Keeps
<1> HIDE DEF e
<1>22. QED
  BY <1>3, <1>19, <1>21 DEF t

-----------------------------------------------------------------------------
(* Contents.                                                               *)

LEMMA ChargeRedone ==
  ASSUME NEW d, Sound(d), NEW more
  PROVE  Redone(d, Charge(d, more)) /\ Charge(d, more).tree = d.tree
<1>1. Edits(d, Charge(d, more))
  BY ChargeEdits
<1>2. /\ Charge(d, more).tree = d.tree /\ Charge(d, more).sens = d.sens
      /\ Charge(d, more).root = d.root
  BY DEF Sound, Fields, Charge
<1>3. QED
  BY <1>1, <1>2 DEF Redone

\* A new node is loose.
LEMMA AdoptShape ==
  ASSUME NEW d, Sound(d), NEW node
  PROVE  LET f == Adopt(d, node) IN
         /\ Redone(d, f) /\ DOMAIN f.tree = DOMAIN d.tree \cup {d.next}
         /\ f.tree[d.next] = node /\ \A m \in DOMAIN d.tree : f.tree[m] = d.tree[m]
         /\ d.next \notin DOMAIN d.tree /\ d.next # 0
<1> DEFINE f == Adopt(d, node)
<1>1. Edits(d, f)
  BY AdoptEdits
<1>2. d.next \notin DOMAIN d.tree /\ d.next # 0
  BY DEF Sound, Given
<1>3. /\ f.sens = d.sens /\ f.root = d.root
      /\ f.tree = [m \in DOMAIN d.tree \cup {d.next} |-> IF m = d.next THEN node ELSE d.tree[m]]
  BY DEF Sound, Fields, Adopt
<1> HIDE DEF f
<1>4. QED
  BY <1>1, <1>2, <1>3 DEF Redone, f

\* e is d with a new loose node x.
WithLoose(d, e, x) ==
  /\ e.root = d.root /\ x \notin DOMAIN d.tree /\ x # 0 /\ DOMAIN e.tree = DOMAIN d.tree \cup {x}
  /\ DOMAIN e.tree[x] = NodeFields /\ e.tree[x].kind \in NodeKinds
  /\ e.tree[x].up = 0 /\ e.tree[x].kids = <<>>
  /\ \A m \in DOMAIN d.tree : e.tree[m] = d.tree[m]

LEMMA LooseKeeps ==
  ASSUME NEW d, Tree(d.tree), Rooted(d), NEW x, NEW e, WithLoose(d, e, x)
  PROVE  Tree(e.tree) /\ Rooted(e) /\ Unseen(d, e)
<1>1. Tree(e.tree)
  <2> DEFINE t == d.tree
             u == e.tree
             node == e.tree[x]
  <2>1. /\ Tree(t) /\ x \notin DOMAIN t /\ x # 0 /\ DOMAIN node = NodeFields
        /\ node.kind \in NodeKinds /\ node.up = 0 /\ node.kids = <<>>
        /\ DOMAIN u = DOMAIN t \cup {x} /\ u[x] = node /\ \A m \in DOMAIN t : u[m] = t[m]
    BY DEF WithLoose
  <2> HIDE DEF t, u, node
  <2>2. Tree(u)
    BY <2>1, AdoptedTree
  <2>3. QED
    BY <2>2 DEF u
<1>2. Rooted(e)
  BY DEF Rooted, WithLoose
<1>3. x \notin Shown(d) /\ x \notin Sheets(d)
  BY DEF Shown, Sheets, WithLoose
<1>4. x \notin Shown(e) /\ x \notin Sheets(e)
  <2>1. x \in DOMAIN e.tree /\ e.tree[x].up = 0 /\ x # e.root
    BY DEF WithLoose, Rooted
  <2>2. QED
    BY <1>1, <2>1, LooseFacts
<1>5. \A m \in DOMAIN d.tree : e.tree[m] = d.tree[m] /\ d.tree[m].up # x
  BY DEF WithLoose, Tree, Joined
<1>6. Quietly(d, e, {x})
  BY <1>3, <1>4, <1>5 DEF Quietly, WithLoose
<1>7. Unseen(d, e)
  <2> DEFINE X == {x}
  <2>1. Quietly(d, e, X) /\ \A m \in DOMAIN d.tree \ X : e.tree[m].style = d.tree[m].style /\ e.tree[m].mark = d.tree[m].mark
    BY <1>5, <1>6
  <2> HIDE DEF X
  <2>2. QED
    BY <1>1, <2>1, UnseenIfQuiet
<1>8. QED
  BY <1>1, <1>2, <1>7

\* What hangs below a script is its texts, which nobody sees.
LEMMA UnseenEmptied ==
  ASSUME NEW d, Tree(d.tree), Rooted(d), NEW n \in DOMAIN d.tree, d.tree[n].kind = "script",
         NEW e, e.root = d.root, e.tree = Emptied(d.tree, n)
  PROVE  Unseen(d, e)
<1> DEFINE t == d.tree
           u == e.tree
           X == {m \in DOMAIN t : t[m].up = n}
<1>1. Tree(t) /\ Tree(u)
  BY EmptiedTree
<1>2. /\ DOMAIN u = DOMAIN t
      /\ \A m \in DOMAIN t : /\ Like(t[m], u[m]) /\ u[m].up = (IF t[m].up = n THEN 0 ELSE t[m].up)
                             /\ u[m].kids = (IF m = n THEN <<>> ELSE t[m].kids)
  BY EmptiedShape
<1>3. n \in DOMAIN t /\ n # 0 /\ t[n].kind = "script"
  BY <1>1 DEF Tree, Joined
<1>4. \A m \in X : m \in DOMAIN t /\ t[m].up = n /\ t[m].kind = "text" /\ m # d.root
  BY <1>1, <1>3 DEF Tree, Placed, Fit, Rooted
<1>5. \A m \in DOMAIN t : t[m].up \notin X
  <2>1. ASSUME NEW m \in DOMAIN t, t[m].up \in X PROVE FALSE
    <3>1. t[t[m].up].kind = "text" /\ t[m].up # 0
      BY <1>1, <1>4, <2>1 DEF Tree, Joined
    <3>2. QED
      BY <1>1, <3>1 DEF Tree, Placed, Fit
  <2>2. QED
    BY <2>1
<1>6. ASSUME NEW S, S \cap X = {} PROVE Kept(u[n].kids, S) = Kept(t[n].kids, S)
  <2> DEFINE s == t[n].kids
             D == DOMAIN t
  <2>1. s \in Seq(D) /\ \A k \in D : k \in ToSet(s) <=> k \in X
    BY <1>1, <1>3 DEF Tree, Joined
  <2> HIDE DEF s, D, X
  <2>2. ToSet(s) \subseteq D
    BY <2>1, SeqFacts
  <2>3. ToSet(s) \cap S = {}
    BY <1>6, <2>1, <2>2
  <2>4. ToSet(Kept(s, S)) = {} /\ Kept(s, S) \in Seq(D)
    BY <2>1, <2>3, KeptFacts
  <2>5. Kept(s, S) = <<>>
    <3> DEFINE q == Kept(s, S)
    <3>1. q \in Seq(D) /\ ToSet(q) = {}
      BY <2>4
    <3> HIDE DEF q
    <3>2. ToSet(q) = {q[i] : i \in DOMAIN q}
      BY DEF ToSet
    <3>3. DOMAIN q = {}
      BY <3>1, <3>2, Zenon
    <3>4. Len(q) = 0
      <4>1. DOMAIN q = 1..Len(q) /\ Len(q) \in Nat
        BY <3>1
      <4>2. QED
        BY <3>3, <4>1
    <3>5. q = <<>>
      BY <3>1, <3>4
    <3>6. QED
      BY <3>5 DEF q
  <2>6. Kept(<<>>, S) = <<>>
    BY KeptEmpty
  <2>7. QED
    BY <1>2, <1>3, <2>5, <2>6 DEF s
<1>7. ASSUME NEW m \in X PROVE m \notin Shown(d) /\ m \notin Sheets(d) /\ m \notin Shown(e) /\ m \notin Sheets(e)
  <2>1. ~NodeAffectsLayout(t, m) /\ t[m].kind # "script"
    <3>1. Tree(t) /\ m \in DOMAIN t /\ t[m].kind = "text" /\ t[m].up = n /\ n \in DOMAIN t /\ t[n].kind = "script"
      BY <1>1, <1>3, <1>4
    <3> HIDE DEF t
    <3>2. QED
      BY <3>1, QuietText
  <2>2. m \notin Shown(d) /\ m \notin Sheets(d)
    BY <1>1, <1>4, <2>1, QuietIsHidden
  <2>3. m \in DOMAIN u /\ u[m].up = 0 /\ m # e.root
    BY <1>2, <1>4
  <2>4. m \notin Shown(e) /\ m \notin Sheets(e)
    BY <1>1, <2>3, LooseFacts
  <2>5. QED
    BY <2>2, <2>4
<1>8. Quietly(d, e, X)
  <2>1. \A m \in DOMAIN t \ X : u[m].kind = t[m].kind /\ u[m].val = t[m].val /\ u[m].up = t[m].up /\ t[m].up \notin X
    BY <1>2, <1>5 DEF Like
  <2>2. ASSUME NEW m \in DOMAIN t \ X, NEW S, S \cap X = {} PROVE Kept(u[m].kids, S) = Kept(t[m].kids, S)
    BY <1>2, <1>6, <2>2
  <2> HIDE DEF X
  <2>3. QED
    BY <1>2, <1>7, <2>1, <2>2 DEF Quietly
<1>9. \A m \in DOMAIN t \ X : u[m].style = t[m].style /\ u[m].mark = t[m].mark
  BY <1>2 DEF Like
<1> HIDE DEF X
<1>10. QED
  BY <1>1, <1>8, <1>9, UnseenIfQuiet

\* A node's text is replaced.
LEMMA SetValKeeps ==
  ASSUME NEW d, Whole(d), NEW s, Near(d, s), NEW n \in DOMAIN d.tree,
         d.tree[n].kind \in {"text", "comment"}, NEW v, NEW sheets,
         NEW f, Redone(d, f), f.tree = [d.tree EXCEPT ![n].val = v],
         NEW affects, affects = NodeAffectsLayout(d.tree, n)
  PROVE  Keeps(d, MarkMutated(f, affects, n, sheets, FALSE, FALSE), s)
<1> DEFINE t == d.tree
           u == [d.tree EXCEPT ![n].val = v]
<1>2. /\ DOMAIN u = DOMAIN d.tree
      /\ \A m \in DOMAIN d.tree :
           /\ DOMAIN u[m] = NodeFields /\ u[m].kind = d.tree[m].kind /\ u[m].up = d.tree[m].up
           /\ u[m].kids = d.tree[m].kids /\ u[m].style = d.tree[m].style /\ u[m].mark = d.tree[m].mark
           /\ m # n => u[m].val = d.tree[m].val
  BY DEF Whole, Tree, Typed, NodeFields
<1> HIDE DEF u
<1>3. f.tree = u /\ f.root = d.root
  BY DEF Redone, u
<1>4. Tree(f.tree) /\ Rooted(f) /\ Tree(d.tree)
  <2>1. /\ DOMAIN f.tree = DOMAIN d.tree /\ f.root = d.root
        /\ \A m \in DOMAIN d.tree :
             /\ DOMAIN f.tree[m] = NodeFields /\ f.tree[m].kind = d.tree[m].kind
             /\ f.tree[m].up = d.tree[m].up /\ f.tree[m].kids = d.tree[m].kids
    BY <1>2, <1>3
  <2> HIDE DEF t
  <2>2. Tree(f.tree) /\ Rooted(f)
    BY <2>1, RetouchedFacts
  <2>3. QED
    BY <2>2 DEF Whole
<1>5. affects \in BOOLEAN
  BY AffectsIsBoolean
<1>6. ASSUME ~affects PROVE Unseen(d, f)
  <2>1. NodeAffectsLayout(u, n) <=> NodeAffectsLayout(d.tree, n)
    <3>1. /\ n \in DOMAIN u /\ u[n].kind = t[n].kind /\ u[n].up = t[n].up /\ Tree(u) /\ Tree(t)
          /\ t[n].up # 0 => u[t[n].up].kind = t[t[n].up].kind
      <4>1. t[n].up \in DOMAIN t \cup {0}
        BY <1>4 DEF Tree, Joined
      <4>2. QED
        BY <1>2, <1>3, <1>4, <4>1
    <3>2. n \in DOMAIN t
      OBVIOUS
    <3> HIDE DEF t
    <3>3. NodeAffectsLayout(u, n) <=> NodeAffectsLayout(t, n)
      BY <3>1, <3>2, AffectsSame
    <3>4. QED
      BY <3>3 DEF t
  <2>2. n \notin Shown(d) /\ n \notin Sheets(d)
    BY <1>4, <1>6, QuietIsHidden
  <2>3. n \notin Shown(f) /\ n \notin Sheets(f)
    <3>1. n \in DOMAIN f.tree /\ ~NodeAffectsLayout(f.tree, n) /\ f.tree[n].kind # "script"
      BY <1>2, <1>3, <1>6, <2>1
    <3>2. QED
      BY <1>4, <3>1, QuietIsHidden
  <2>4. \A m \in DOMAIN t : t[m].up # n
    <3>1. n \in DOMAIN t /\ t[n].kind \in {"text", "comment"} /\ Tree(t)
      BY <1>4
    <3> HIDE DEF t
    <3>2. QED
      BY <3>1, LeafFacts
  <2> DEFINE X == {n}
  <2>5. Quietly(d, f, X)
    BY <1>2, <1>3, <2>2, <2>3, <2>4 DEF Quietly
  <2>6. \A m \in DOMAIN d.tree \ X : f.tree[m].style = d.tree[m].style /\ f.tree[m].mark = d.tree[m].mark
    BY <1>2, <1>3
  <2> HIDE DEF X
  <2>7. QED
    BY <1>4, <2>5, <2>6, UnseenIfQuiet
<1> DEFINE rebuild == FALSE
           e == MarkMutated(f, affects, n, sheets, FALSE, rebuild)
<1>7. affects \/ Unseen(d, f)
  BY <1>6
<1> HIDE DEF rebuild
<1>8. Keeps(d, e, s)
  BY <1>3, <1>4, <1>5, <1>7, MarkedKeeps
<1>9. QED
  BY <1>8 DEF rebuild

\* A new node goes under one that holds nothing.
LEMMA FilledTree ==
  ASSUME NEW e, Tree(e.tree), Rooted(e), NEW n \in DOMAIN e.tree, e.tree[n].kind \in Elements,
         e.tree[n].kids = <<>>, NEW g, NEW x, WithLoose(e, g, x),
         e.tree[n].kind \in {"style", "script"} => g.tree[x].kind = "text",
         NEW h, h.root = g.root, h.tree = PlaceAt(g.tree, n, x, 1)
  PROVE  /\ Tree(h.tree) /\ Rooted(h) /\ PutUnder(g.tree, h.tree, n, x, 1)
         /\ x \in DOMAIN g.tree /\ n \in DOMAIN g.tree /\ x # n /\ x # g.root
         /\ g.tree[x].up = 0 /\ g.tree[n].kids = <<>> /\ Fit(g.tree, x, n)
<1>1. Tree(g.tree) /\ Rooted(g)
  BY LooseKeeps
<1>2. /\ x \in DOMAIN g.tree /\ n \in DOMAIN g.tree /\ x # n /\ x # 0 /\ n # 0
      /\ g.tree[x].up = 0 /\ g.tree[n].kind = e.tree[n].kind /\ g.tree[n].kids = <<>> /\ x # g.root
  BY <1>1 DEF WithLoose, Rooted, Tree, Joined
<1>3. Fit(g.tree, x, n)
  BY <1>2 DEF Fit, Elements
<1>4. PutUnder(g.tree, h.tree, n, x, 1)
  <2>1. \A m \in DOMAIN g.tree : DOMAIN g.tree[m] = NodeFields
    BY <1>1 DEF Tree, Typed
  <2> DEFINE u == g.tree
             w == h.tree
             i == 1
  <2>2. w = PlaceAt(u, n, x, i) /\ n \in DOMAIN u /\ x \in DOMAIN u /\ n # x
        /\ \A m \in DOMAIN u : DOMAIN u[m] = NodeFields
    BY <1>2, <2>1
  <2> HIDE DEF u, w, i
  <2>3. PutUnder(u, w, n, x, i)
    BY <2>2, PlaceShape
  <2>4. QED
    BY <2>3 DEF u, w, i
<1>5. x \notin Above(g.tree, n)
  <2>1. \A m \in DOMAIN g.tree : g.tree[m].up # x
    BY <1>2 DEF WithLoose, Tree, Joined
  <2>2. SUFFICES ASSUME x \in Above(g.tree, n) PROVE FALSE
    OBVIOUS
  <2>3. PICK k \in Above(g.tree, n) : g.tree[k].up = x
    BY <1>1, <1>2, <2>2, AboveSteps
  <2>4. k \in DOMAIN g.tree
    BY <1>1, <1>2, AboveFacts
  <2>5. QED
    BY <2>1, <2>3, <2>4
<1>6. Tree(h.tree)
  <2> DEFINE u == g.tree
             w == h.tree
             i == 1
  <2>1. /\ Tree(u) /\ n \in DOMAIN u /\ x \in DOMAIN u /\ u[x].up = 0 /\ x \notin Above(u, n)
        /\ Fit(u, x, n) /\ i \in 1..Len(u[n].kids) + 1 /\ PutUnder(u, w, n, x, i)
    BY <1>1, <1>2, <1>3, <1>4, <1>5
  <2> HIDE DEF u, w, i
  <2>2. Tree(w)
    BY <2>1, PutUnderTree
  <2>3. QED
    BY <2>2 DEF w
<1>7. Rooted(h)
  BY <1>1, <1>2, <1>4 DEF Rooted, PutUnder, Like
<1>8. QED
  BY <1>2, <1>3, <1>4, <1>6, <1>7

\* Text goes under a node that has just been emptied.
LEMMA FilledFacts ==
  ASSUME NEW d, Whole(d), NEW n \in DOMAIN d.tree, d.tree[n].kind \in Elements, NEW v,
         NEW e, Redone(d, e), e.tree = Emptied(d.tree, n),
         NEW g, Redone(e, g), WithLoose(e, g, d.next), g.tree[d.next].kind = "text",
         NEW h, Redone(g, h), h.tree = PlaceAt(g.tree, n, d.next, 1)
  PROVE  /\ Redone(d, h) /\ Tree(h.tree) /\ Rooted(h)
         /\ NodeAffectsLayout(d.tree, n) \/ Unseen(d, h)
<1> DEFINE x == d.next
<1>1. Sound(d) /\ Tree(d.tree) /\ Rooted(d) /\ n # 0
  BY DEF Whole, Tree, Joined
<1>2. Redone(d, g) /\ Redone(d, h) /\ e.root = d.root /\ g.root = d.root /\ h.root = d.root
      /\ e.sens = d.sens /\ g.sens = d.sens /\ Sound(e)
  BY <1>1, RedoneOn DEF Redone
<1>3. Tree(e.tree) /\ DOMAIN e.tree = DOMAIN d.tree
      /\ \A m \in DOMAIN d.tree : /\ e.tree[m].kind = d.tree[m].kind
                                  /\ e.tree[m].up = (IF d.tree[m].up = n THEN 0 ELSE d.tree[m].up)
                                  /\ e.tree[m].kids = (IF m = n THEN <<>> ELSE d.tree[m].kids)
  BY <1>1, EmptiedTree, EmptiedShape DEF Like
<1>4. Rooted(e)
  BY <1>1, <1>2, <1>3 DEF Rooted
<1>5. Tree(g.tree) /\ Rooted(g) /\ Unseen(e, g)
  BY <1>3, <1>4, LooseKeeps
<1>6. /\ Tree(h.tree) /\ Rooted(h) /\ PutUnder(g.tree, h.tree, n, x, 1)
      /\ x \in DOMAIN g.tree /\ n \in DOMAIN g.tree /\ x # n /\ x # g.root
      /\ g.tree[x].up = 0 /\ g.tree[n].kids = <<>> /\ Fit(g.tree, x, n)
  BY <1>2, <1>3, <1>4, FilledTree DEF Redone
<1> HIDE DEF x
<1>7. /\ g.tree[x].kind = "text" /\ 1 \in 1..Len(g.tree[n].kids) + 1
      /\ g.tree[n].kind = d.tree[n].kind
  BY <1>3, <1>6 DEF x, WithLoose
<1>8. ASSUME ~NodeAffectsLayout(d.tree, n) PROVE Unseen(d, h)
  <2>1. d.tree[n].kind = "script"
    BY <1>1, <1>8, QuietParent DEF Elements
  <2>2. Unseen(d, e)
    BY <1>1, <1>2, <2>1, UnseenEmptied
  <2>3. ~NodeAffectsLayout(h.tree, x)
    <3>1. /\ n \in DOMAIN h.tree /\ h.tree[n].kind = "script" /\ x \in DOMAIN h.tree
          /\ h.tree[x].kind = "text" /\ h.tree[x].up = n
      BY <1>6, <1>7, <2>1 DEF PutUnder, Like
    <3> DEFINE w == h.tree
    <3>2. Tree(w) /\ n \in DOMAIN w /\ w[n].kind = "script" /\ x \in DOMAIN w /\ w[x].kind = "text" /\ w[x].up = n
      BY <1>6, <3>1
    <3> HIDE DEF w
    <3>3. ~NodeAffectsLayout(w, x)
      BY <3>2, QuietText
    <3>4. QED
      BY <3>3 DEF w
  <2>4. Unseen(g, h)
    <3> DEFINE i == 1
    <3>1. i \in 1..Len(g.tree[n].kids) + 1 /\ PutUnder(g.tree, h.tree, n, x, i)
      BY <1>6, <1>7
    <3>2. h.root = g.root /\ g.tree[x].kind \in {"text", "comment"}
      BY <1>2, <1>7
    <3> HIDE DEF i
    <3>3. QED
      BY <1>5, <1>6, <2>3, <3>1, <3>2, UnseenPutUnder
  <2>5. Unseen(e, h)
    BY <1>2, <1>5, <2>4, UnseenOn
  <2>6. QED
    BY <1>2, <2>2, <2>5, UnseenOn
<1>9. QED
  BY <1>2, <1>6, <1>8

\* Text the budget refuses leaves the node empty and nothing marked.
Refused(d, n, v) ==
  v # Nothing /\ d.tree[n].kind \in Elements /\ ~Affordable(d, 1)

LEMMA SetTextContentKeeps ==
  ASSUME NEW d, Whole(d), NEW s, Near(d, s), NEW n \in DOMAIN d.tree,
         d.tree[n].kind # "doc", NEW v
  PROVE  /\ Whole(SetTextContent(d, n, v))
         /\ Refused(d, n, v) \/ Near(SetTextContent(d, n, v), s)
<1> DEFINE affects == NodeAffectsLayout(d.tree, n)
           sheets == MutationAffectsStylesheets(d.tree, n)
           empty == [d EXCEPT !.tree = Emptied(@, n)]
           paid == Charge(empty, 1)
           text == Adopt(paid, Node("text", v))
           filled == [text EXCEPT !.tree = PlaceAt(@, n, d.next, 1)]
           e == SetTextContent(d, n, v)
<1>1. CASE d.tree[n].kind \in {"text", "comment"}
  <2> DEFINE f == [d EXCEPT !.tree[n].val = v]
  <2>1. e = MarkMutated(f, affects, n, sheets, FALSE, FALSE)
    BY <1>1 DEF SetTextContent
  <2> DEFINE u == [d.tree EXCEPT ![n].val = v]
  <2>2. f = [d EXCEPT !.tree = u] /\ DOMAIN u \subseteq DOMAIN d.tree
    BY DEF Whole, Sound, Fields
  <2> HIDE DEF f, u
  <2>3. Redone(d, f) /\ f.tree = u
    BY <2>2, WithTree DEF Whole
  <2>4. Redone(d, f) /\ f.tree = [d.tree EXCEPT ![n].val = v] /\ affects = NodeAffectsLayout(d.tree, n)
    BY <2>3 DEF u
  <2> HIDE DEF affects, sheets
  <2>5. Keeps(d, MarkMutated(f, affects, n, sheets, FALSE, FALSE), s)
    BY <1>1, <2>4, SetValKeeps
  <2>6. QED
    BY <2>1, <2>5 DEF Keeps
<1>2. CASE d.tree[n].kind \notin {"text", "comment"}
  <2>1. d.tree[n].kind \in Elements /\ Sound(d) /\ Tree(d.tree) /\ Rooted(d)
    BY <1>2 DEF Whole, Tree, Typed, NodeKinds
  <2>2. Redone(d, empty) /\ empty.tree = Emptied(d.tree, n)
    <3> DEFINE t == Emptied(d.tree, n)
    <3>1. DOMAIN t \subseteq DOMAIN d.tree /\ empty = [d EXCEPT !.tree = t]
      BY DEF Emptied
    <3> HIDE DEF t
    <3>2. QED
      BY <2>1, <3>1, WithTree DEF t
  <2> HIDE DEF empty
  <2>3. Tree(empty.tree) /\ Rooted(empty)
    <3>1. Tree(empty.tree)
      BY <2>1, <2>2, EmptiedTree
    <3>2. Rooted(empty)
      BY <2>1, <2>2, EmptiedShape DEF Redone, Rooted, Like
    <3>3. QED
      BY <3>1, <3>2
  <2>4. affects \/ Unseen(d, empty)
    <3>1. ASSUME ~affects PROVE d.tree[n].kind = "script"
      BY <2>1, <3>1, QuietParent DEF Elements
    <3>2. ASSUME ~affects PROVE Unseen(d, empty)
      BY <2>1, <2>2, <3>1, <3>2, UnseenEmptied DEF Redone
    <3>3. QED
      BY <3>2
  <2>5. affects \in BOOLEAN
    BY AffectsIsBoolean
  <2>6. CASE v = Nothing
    <3>1. e = d \/ e = MarkMutated(empty, affects, n, sheets, FALSE, FALSE)
      BY <1>2, <2>6 DEF SetTextContent, empty
    <3> DEFINE rebuild == FALSE
               h == MarkMutated(empty, affects, n, sheets, FALSE, rebuild)
    <3>2. e = d \/ e = h
      BY <3>1
    <3> HIDE DEF affects, sheets, e, rebuild
    <3>3. Keeps(d, h, s)
      BY <2>2, <2>3, <2>4, <2>5, MarkedKeeps
    <3>4. QED
      BY <3>2, <3>3 DEF Keeps, e
  <2>7. CASE v # Nothing /\ ~Affordable(d, 1)
    <3>1. e = empty
      BY <1>2, <2>7 DEF SetTextContent, empty
    <3>2. Sound(empty)
      BY <2>1, <2>2, EditIsSound DEF Redone
    <3>3. Refused(d, n, v)
      BY <2>1, <2>7 DEF Refused
    <3>4. QED
      BY <2>3, <3>1, <3>2, <3>3 DEF Whole
  <2>8. CASE v # Nothing /\ Affordable(d, 1)
    <3>1. e = MarkMutated(filled, affects, n, sheets, FALSE, FALSE)
      BY <1>2, <2>8 DEF SetTextContent, empty
    <3>2. Sound(empty) /\ empty.next = d.next
      <4>1. Sound(empty)
        BY <2>1, <2>2, EditIsSound DEF Redone
      <4>2. empty.next = d.next
        BY <2>1 DEF empty, Sound, Fields
      <4>3. QED
        BY <4>1, <4>2
    <3>3. Redone(empty, paid) /\ paid.tree = empty.tree /\ paid.next = d.next /\ Sound(paid)
      BY <3>2, ChargeRedone, ChargeEdits, EditIsSound DEF Redone
    <3> DEFINE node == Node("text", v)
    <3>4. /\ DOMAIN node = NodeFields /\ node.kind = "text" /\ node.kind \in NodeKinds
          /\ node.up = 0 /\ node.kids = <<>>
      BY DEF Node, NodeFields, NodeKinds
    <3> HIDE DEF node, paid
    <3>5. /\ Redone(paid, text) /\ DOMAIN text.tree = DOMAIN paid.tree \cup {paid.next}
          /\ text.tree[paid.next] = node /\ \A m \in DOMAIN paid.tree : text.tree[m] = paid.tree[m]
          /\ paid.next \notin DOMAIN paid.tree /\ paid.next # 0
      <4>1. text = Adopt(paid, node)
        BY DEF node
      <4> HIDE DEF text
      <4>2. QED
        BY <3>3, <4>1, AdoptShape
    <3> HIDE DEF text
    <3>6. Redone(empty, text) /\ WithLoose(empty, text, d.next) /\ text.tree[d.next].kind = "text" /\ Sound(text)
      <4>1. Redone(empty, text) /\ Sound(text)
        BY <3>2, <3>3, <3>5, RedoneOn
      <4>2. QED
        BY <3>3, <3>4, <3>5, <4>1 DEF WithLoose, Redone
    <3>7. Redone(text, filled) /\ filled.tree = PlaceAt(text.tree, n, d.next, 1)
      <4> DEFINE w == PlaceAt(text.tree, n, d.next, 1)
      <4>1. DOMAIN w \subseteq DOMAIN text.tree /\ filled = [text EXCEPT !.tree = w]
        BY PlaceKeepsIds
      <4> HIDE DEF w
      <4>2. QED
        BY <3>6, <4>1, WithTree DEF w
    <3> HIDE DEF filled
    <3>8. /\ Redone(d, filled) /\ Tree(filled.tree) /\ Rooted(filled)
          /\ affects \/ Unseen(d, filled)
      BY <2>1, <2>2, <3>6, <3>7, FilledFacts
    <3> DEFINE rebuild == FALSE
               h == MarkMutated(filled, affects, n, sheets, FALSE, rebuild)
    <3>9. e = h
      BY <3>1
    <3> HIDE DEF affects, sheets, e, rebuild
    <3>10. Keeps(d, h, s)
      BY <2>5, <3>8, MarkedKeeps
    <3>11. QED
      BY <3>9, <3>10 DEF Keeps, e
  <2>9. QED
    BY <2>6, <2>7, <2>8
<1>3. QED
  BY <1>1, <1>2

\* A change that is not recorded and not seen.
LEMMA UnmarkedKeeps ==
  ASSUME NEW d, Whole(d), NEW s, Near(d, s), NEW f, Redone(d, f), Tree(f.tree), Rooted(f), Unseen(d, f)
  PROVE  Keeps(d, f, s)
<1>1. Sound(f)
  BY EditIsSound DEF Redone, Whole
<1>2. d.sens = SelectsMark(d) => f.sens = SelectsMark(f) /\ LayoutView(f) = LayoutView(d)
  <2>1. SelectsMark(d) \in BOOLEAN /\ SelectsMark(f) \in BOOLEAN
    BY DEF SelectsMark
  <2>2. QED
    BY <2>1 DEF Unseen, Redone
<1>3. Near(f, s)
  BY <1>2, NearKept DEF Redone, Edits
<1>4. QED
  BY <1>1, <1>3 DEF Keeps, Whole

LEMMA ChargeKeeps ==
  ASSUME NEW d, Whole(d), NEW s, Near(d, s), NEW more
  PROVE  Keeps(d, Charge(d, more), s)
<1> DEFINE f == Charge(d, more)
<1>1. Redone(d, f) /\ f.tree = d.tree
  BY ChargeRedone DEF Whole
<1> HIDE DEF f
<1>2. Tree(f.tree) /\ Rooted(f) /\ f.root = d.root
  BY <1>1 DEF Whole, Rooted, Redone
<1>3. Unseen(d, f)
  BY <1>1, <1>2, SightOf DEF Unseen
<1>4. Keeps(d, f, s)
  BY <1>1, <1>2, <1>3, UnmarkedKeeps
<1>5. QED
  BY <1>4 DEF f

\* The contents of n are dropped, with their ids.
LEMMA BareFacts ==
  ASSUME NEW d, Whole(d), NEW n \in DOMAIN d.tree, NEW old, NEW e, Redone(d, e),
         Dropped(d.tree, e.tree, n, old)
  PROVE  /\ Tree(e.tree) /\ Rooted(e) /\ n \in DOMAIN e.tree
         /\ e.tree[n].kids = <<>> /\ e.tree[n].kind = d.tree[n].kind
<1>1. Tree(d.tree)
  BY DEF Whole
<1>2. Tree(e.tree)
  <2> DEFINE t == d.tree
             u == e.tree
  <2>1. Tree(t) /\ n \in DOMAIN t /\ Dropped(t, u, n, old)
    BY <1>1
  <2> HIDE DEF t, u
  <2>2. Tree(u)
    BY <2>1, DroppedTree
  <2>3. QED
    BY <2>2 DEF u
<1>3. d.root \notin old
  <2> DEFINE S == Subtree(d.tree, n)
  <2>1. /\ S \subseteq DOMAIN d.tree /\ 0 \notin DOMAIN d.tree
        /\ \A m \in DOMAIN d.tree : m # n => (m \in S <=> d.tree[m].up \in S)
    BY <1>1, SubtreeFacts DEF Tree, Joined
  <2> HIDE DEF S
  <2>2. QED
    BY <2>1 DEF Whole, Rooted, S, Dropped
<1>4. Rooted(e)
  BY <1>3 DEF Whole, Rooted, Redone, Like, Dropped
<1>5. QED
  BY <1>2, <1>4 DEF Like, Dropped

LEMMA SetInnerHtmlKeeps ==
  ASSUME NEW d, Whole(d), NEW s, Near(d, s), NEW n \in DOMAIN d.tree, d.tree[n].kind \in ReadKinds,
         NEW nodes, nodes = <<>> \/ \E k \in NodeKinds \ {"doc"}, v \in -1..1 : nodes = <<Node(k, v)>>,
         d.tree[n].kind = "style" => \A i \in DOMAIN nodes : nodes[i].kind = "text"
  PROVE  Keeps(d, SetInnerHtml(d, n, nodes), s)
<1> DEFINE old == Subtree(d.tree, n) \ {n}
           kept == [m \in DOMAIN d.tree \ old |->
                     IF m = n THEN [d.tree[m] EXCEPT !.kids = <<>>] ELSE d.tree[m]]
           bare == [d EXCEPT !.tree = kept, !.forget = @ + Cardinality(old)]
           grown == Adopt(bare, nodes[1])
           placed == [grown EXCEPT !.tree = PlaceAt(@, n, d.next, 1)]
           full == IF nodes = <<>> THEN bare ELSE placed
           affects == NodeAffectsLayout(full.tree, n)
           sheets == \/ \E m \in old : d.tree[m].kind = "style"
                     \/ MutationAffectsStylesheets(full.tree, n)
           marked == MarkMutated(full, affects, n, sheets, FALSE, FALSE)
<1>1. SetInnerHtml(d, n, nodes) = IF Affordable(d, Len(nodes)) THEN Charge(marked, Len(nodes)) ELSE marked
  BY DEF SetInnerHtml
<1>2. Sound(d) /\ Tree(d.tree) /\ Rooted(d) /\ d.tree[n].kind \in Elements /\ d.tree[n].kind # "script"
  BY StyleAssumption DEF Whole
<1>3. DOMAIN kept \subseteq DOMAIN d.tree /\ Dropped(d.tree, kept, n, old)
  BY <1>2 DEF Tree, Typed, Like, NodeFields, Dropped
<1> HIDE DEF old, kept
<1>4. Redone(d, bare) /\ bare.tree = kept /\ bare.next = d.next
  <2>1. /\ DOMAIN bare = DOMAIN d /\ bare.tree = kept /\ bare.next = d.next
        /\ bare.layout = d.layout /\ bare.base = d.base /\ bare.journal = d.journal
        /\ bare.sens = d.sens /\ bare.root = d.root
    BY <1>2 DEF Sound, Fields
  <2> HIDE DEF bare
  <2>2. Edits(d, bare)
    BY <1>2, <1>3, <2>1 DEF Sound, Given, Edits
  <2>3. QED
    BY <2>1, <2>2 DEF Redone
<1> HIDE DEF old, kept, bare
<1>6. Tree(bare.tree) /\ Rooted(bare) /\ n \in DOMAIN bare.tree
      /\ bare.tree[n].kids = <<>> /\ bare.tree[n].kind = d.tree[n].kind /\ Sound(bare)
  <2>1. Dropped(d.tree, bare.tree, n, old)
    BY <1>3, <1>4
  <2>2. Tree(bare.tree) /\ Rooted(bare) /\ n \in DOMAIN bare.tree
        /\ bare.tree[n].kids = <<>> /\ bare.tree[n].kind = d.tree[n].kind
    BY <1>4, <2>1, BareFacts, ZenonT(40)
  <2>3. QED
    BY <1>2, <1>4, <2>2, EditIsSound DEF Redone
<1>7. Redone(d, full) /\ Tree(full.tree) /\ Rooted(full) /\ n \in DOMAIN full.tree
      /\ full.tree[n].kind = d.tree[n].kind
  <2>1. CASE nodes = <<>>
    BY <1>4, <1>6, <2>1
  <2>2. CASE nodes # <<>>
    <3>1. PICK k \in NodeKinds \ {"doc"}, v \in -1..1 : nodes = <<Node(k, v)>>
      BY <2>2
    <3> DEFINE node == nodes[1]
    <3>2. /\ DOMAIN node = NodeFields /\ node.kind \in NodeKinds /\ node.up = 0 /\ node.kids = <<>>
          /\ d.tree[n].kind = "style" => node.kind = "text"
      <4>1. 1 \in DOMAIN nodes /\ node = Node(k, v)
        BY <3>1
      <4>2. QED
        BY <4>1 DEF Node, NodeFields, NodeKinds
    <3> HIDE DEF node
    <3>3. /\ Redone(bare, grown) /\ WithLoose(bare, grown, d.next) /\ grown.tree[d.next] = node
      <4>1. grown = Adopt(bare, node)
        BY DEF node
      <4> HIDE DEF grown
      <4>2. /\ Redone(bare, grown) /\ DOMAIN grown.tree = DOMAIN bare.tree \cup {bare.next}
            /\ grown.tree[bare.next] = node /\ \A m \in DOMAIN bare.tree : grown.tree[m] = bare.tree[m]
            /\ bare.next \notin DOMAIN bare.tree /\ bare.next # 0
        BY <1>6, <4>1, AdoptShape
      <4>3. QED
        BY <1>4, <3>2, <4>2 DEF WithLoose, Redone
    <3> HIDE DEF grown
    <3>4. Redone(d, grown) /\ Sound(grown)
      BY <1>2, <1>4, <3>3, RedoneOn
    <3>5. Redone(grown, placed) /\ placed.tree = PlaceAt(grown.tree, n, d.next, 1)
      <4> DEFINE w == PlaceAt(grown.tree, n, d.next, 1)
      <4>1. DOMAIN w \subseteq DOMAIN grown.tree /\ placed = [grown EXCEPT !.tree = w]
        BY PlaceKeepsIds
      <4> HIDE DEF w
      <4>2. QED
        BY <3>4, <4>1, WithTree DEF w
    <3> HIDE DEF placed
    <3>6. /\ Tree(placed.tree) /\ Rooted(placed) /\ PutUnder(grown.tree, placed.tree, n, d.next, 1)
          /\ n \in DOMAIN grown.tree
      <4>1. bare.tree[n].kind \in Elements
            /\ (bare.tree[n].kind \in {"style", "script"} => grown.tree[d.next].kind = "text")
        BY <1>2, <1>6, <3>2, <3>3
      <4>2. placed.root = grown.root
        BY <3>5 DEF Redone
      <4> HIDE DEF affects, sheets, marked
      <4>3. QED
        BY <1>6, <3>3, <3>5, <4>1, <4>2, FilledTree
    <3>7. n \in DOMAIN placed.tree /\ placed.tree[n].kind = d.tree[n].kind
      BY <1>6, <3>3, <3>6 DEF PutUnder, Like, WithLoose
    <3>8. Redone(d, placed)
      BY <1>2, <3>4, <3>5, RedoneOn
    <3>9. QED
      BY <2>2, <3>6, <3>7, <3>8
  <2>3. QED
    BY <2>1, <2>2
<1> HIDE DEF full
<1>8. affects /\ affects \in BOOLEAN
  BY <1>7, ReadKindsAffect
<1> DEFINE rebuild == FALSE
<1>9. marked = MarkMutated(full, affects, n, sheets, FALSE, rebuild)
  OBVIOUS
<1> HIDE DEF affects, sheets, rebuild, marked
<1>10. Keeps(d, marked, s)
  BY <1>7, <1>8, <1>9, MarkedKeeps
<1>11. Keeps(marked, Charge(marked, Len(nodes)), s)
  BY <1>10, ChargeKeeps DEF Keeps
<1>12. QED
  BY <1>1, <1>10, <1>11 DEF Keeps

-----------------------------------------------------------------------------
(* New nodes and new documents.                                            *)

LEMMA CreateKeeps ==
  ASSUME NEW d, Whole(d), NEW s, Near(d, s), NEW k \in NodeKinds, NEW v
  PROVE  Keeps(d, Create(d, k, v), s)
<1> DEFINE paid == Charge(d, 1)
           node == Node(k, v)
           made == Adopt(paid, node)
<1>1. Create(d, k, v) = d \/ Create(d, k, v) = made
  BY DEF Create
<1>2. Keeps(d, paid, s) /\ Whole(paid) /\ Near(paid, s)
  BY ChargeKeeps DEF Keeps
<1>3. DOMAIN node = NodeFields /\ node.kind \in NodeKinds /\ node.up = 0 /\ node.kids = <<>>
  BY DEF Node, NodeFields
<1> HIDE DEF paid, node
<1>4. /\ Redone(paid, made) /\ DOMAIN made.tree = DOMAIN paid.tree \cup {paid.next}
      /\ made.tree[paid.next] = node /\ \A m \in DOMAIN paid.tree : made.tree[m] = paid.tree[m]
      /\ paid.next \notin DOMAIN paid.tree /\ paid.next # 0
  BY <1>2, AdoptShape DEF Whole
<1> HIDE DEF made
<1>5. WithLoose(paid, made, paid.next)
  BY <1>3, <1>4 DEF WithLoose, Redone
<1>6. Tree(made.tree) /\ Rooted(made) /\ Unseen(paid, made)
  BY <1>2, <1>5, LooseKeeps DEF Whole
<1>7. Keeps(paid, made, s)
  BY <1>2, <1>4, <1>6, UnmarkedKeeps
<1>8. QED
  BY <1>1, <1>7 DEF Keeps

\* A copy hangs from nothing, so nobody sees it.
LEMMA UnseenCopied ==
  ASSUME NEW d, Tree(d.tree), Rooted(d), NEW n \in DOMAIN d.tree, NEW C, NEW g, NEW N,
         NEW deep \in BOOLEAN, NEW e, e.root = d.root, Copied(d.tree, e.tree, n, C, g, N, deep)
  PROVE  Tree(e.tree) /\ Rooted(e) /\ Unseen(d, e)
<1> DEFINE t == d.tree
           u == e.tree
<1>1. Tree(u) /\ \A x \in N : u[x].up \in N \cup {0}
  <2>1. Tree(t) /\ n \in DOMAIN t /\ Copied(t, u, n, C, g, N, deep) /\ deep \in BOOLEAN
    OBVIOUS
  <2> HIDE DEF t, u
  <2>2. \A v : Tree(v) => \A a \in DOMAIN v : \A D, h, M : \A b \in BOOLEAN : \A w :
          Copied(v, w, a, D, h, M, b) => Tree(w) /\ \A x \in M : w[x].up \in M \cup {0}
    BY CopiedTree
  <2>3. \A a \in DOMAIN t : \A D, h, M : \A b \in BOOLEAN : \A w :
          Copied(t, w, a, D, h, M, b) => Tree(w) /\ \A x \in M : w[x].up \in M \cup {0}
    BY <2>1, <2>2, Zenon
  <2>4. \A D, h, M : \A b \in BOOLEAN : \A w :
          Copied(t, w, n, D, h, M, b) => Tree(w) /\ \A x \in M : w[x].up \in M \cup {0}
    BY <2>1, <2>3, Zenon
  <2>5. \A b \in BOOLEAN : \A w :
          Copied(t, w, n, C, g, N, b) => Tree(w) /\ \A x \in N : w[x].up \in N \cup {0}
    BY <2>4, Zenon
  <2>6. \A w : Copied(t, w, n, C, g, N, deep) => Tree(w) /\ \A x \in N : w[x].up \in N \cup {0}
    BY <2>1, <2>5, Zenon
  <2>7. QED
    BY <2>1, <2>6, Zenon
<1>2. /\ DOMAIN u = DOMAIN t \cup N /\ N \cap DOMAIN t = {} /\ 0 \notin N
      /\ \A m \in DOMAIN t : u[m] = t[m] /\ t[m].up \notin N /\ m \notin N
  BY DEF Copied, Tree, Joined
<1>3. Rooted(e)
  BY <1>2 DEF Rooted
<1>4. \A x \in N : Above(u, x) \subseteq N
  <2> DEFINE S == {m \in DOMAIN u : m \in N => Above(u, m) \subseteq N}
  <2>1. ASSUME NEW m \in DOMAIN u, u[m].up # 0 => u[m].up \in S PROVE m \in S
    <3>1. Above(u, m) = {m} \cup (IF u[m].up = 0 THEN {} ELSE Above(u, u[m].up))
      BY <1>1, AboveFacts
    <3>2. QED
      BY <1>1, <2>1, <3>1
  <2>2. DOMAIN u \subseteq S
    <3> HIDE DEF S, u
    <3>1. QED
      BY <1>1, <2>1, TreeInduction
  <2>3. QED
    BY <1>2, <2>2
<1>5. \A x \in N : x \notin Shown(e) /\ x \notin Sheets(e) /\ x \notin Shown(d) /\ x \notin Sheets(d)
  <2>1. d.root \notin N
    BY <1>2 DEF Rooted
  <2>2. \A x \in N : ~IsConnected(e, x) /\ ~IsConnected(d, x)
    BY <1>2, <1>4, <2>1, ConnectedFacts
  <2>3. QED
    BY <2>2 DEF Shown, Sheets
<1>6. Quietly(d, e, N)
  BY <1>2, <1>5 DEF Quietly
<1>7. \A m \in DOMAIN d.tree \ N : e.tree[m].style = d.tree[m].style /\ e.tree[m].mark = d.tree[m].mark
  BY <1>2
<1>8. Unseen(d, e)
  BY <1>1, <1>6, <1>7, UnseenIfQuiet
<1>9. QED
  BY <1>1, <1>3, <1>8

LEMMA CloneNodeKeeps ==
  ASSUME NEW d, Whole(d), NEW s, Near(d, s), NEW n \in DOMAIN d.tree, NEW deep \in BOOLEAN
  PROVE  Keeps(d, CloneNode(d, n, deep), s)
<1> DEFINE copied == IF deep THEN Subtree(d.tree, n) ELSE {n}
           size == Cardinality(copied)
           paid == Charge(d, size)
           new == d.next .. d.next + size - 1
           g == [m \in copied |-> d.next + Cardinality({k \in copied : k < m})]
           New(m) == d.next + Cardinality({k \in copied : k < m})
           Copy(m) == [d.tree[m] EXCEPT
                         !.up = IF m = n THEN 0 ELSE New(@),
                         !.kids = IF deep THEN [i \in DOMAIN @ |-> New(@[i])] ELSE <<>>]
           t == [m \in DOMAIN paid.tree \cup new |->
                   IF m \in new THEN Copy(CHOOSE k \in copied : New(k) = m) ELSE paid.tree[m]]
           made == [paid EXCEPT !.tree = t, !.next = @ + size]
<1>1. CloneNode(d, n, deep) = d \/ CloneNode(d, n, deep) = made
  BY DEF CloneNode
<1>2. /\ Keeps(d, paid, s) /\ Whole(paid) /\ Near(paid, s) /\ paid.tree = d.tree
      /\ paid.next = d.next /\ paid.root = d.root /\ Sound(d) /\ Tree(d.tree) /\ Rooted(d)
  <2>1. Sound(d)
    BY DEF Whole
  <2> HIDE DEF size
  <2>2. Redone(d, paid) /\ paid.tree = d.tree /\ paid.next = d.next
    BY <2>1, ChargeRedone, ChargeEdits
  <2>3. Keeps(d, paid, s)
    BY ChargeKeeps
  <2>4. QED
    BY <2>2, <2>3 DEF Keeps, Whole, Redone
<1>3. /\ copied \subseteq DOMAIN d.tree /\ copied \in SUBSET Nat /\ IsFiniteSet(copied) /\ n \in copied
      /\ d.next \in Nat \ {0} /\ DOMAIN d.tree \subseteq 1..(d.next - 1)
  <2>1. DOMAIN d.tree \subseteq 1..(d.next - 1) /\ d.next \in Nat \ {0}
    BY <1>2 DEF Sound, Given
  <2>2. IsFiniteSet(1..(d.next - 1))
    BY <2>1, FS_Interval
  <2>3. copied \subseteq DOMAIN d.tree /\ n \in copied
    BY <1>2, SubtreeFacts
  <2> HIDE DEF copied
  <2>4. copied \subseteq 1..(d.next - 1) /\ copied \in SUBSET Nat
    BY <2>1, <2>3
  <2>5. IsFiniteSet(copied)
    BY <2>2, <2>4, FS_Subset
  <2>6. QED
    BY <2>1, <2>3, <2>4, <2>5
<1>4. size \in Nat
  <2> HIDE DEF copied
  <2>1. QED
    BY <1>3, FS_CardinalityType
<1>5. g \in Bijection(copied, new)
  <2> HIDE DEF copied
  <2>1. QED
    BY <1>3, Counting
<1>6. ASSUME NEW m \in copied PROVE d.next + Cardinality({k \in copied : k < m}) = g[m]
  BY <1>6
<1>7. /\ \A m \in copied : g[m] \in new /\ (m # n => deep /\ d.tree[m].up \in copied)
      /\ \A m, k \in copied : g[m] = g[k] => m = k
      /\ new \cap DOMAIN d.tree = {} /\ 0 \notin new
      /\ deep => \A m \in copied : \A i \in DOMAIN d.tree[m].kids : d.tree[m].kids[i] \in copied
  <2>1. (\A m \in copied : g[m] \in new) /\ \A m, k \in copied : g[m] = g[k] => m = k
    <3> HIDE DEF g, copied, new
    <3>1. QED
      BY <1>5 DEF Bijection, Injection, Surjection, IsInjective
  <2>2. \A m \in copied : m # n => deep /\ d.tree[m].up \in copied
    BY <1>2, <1>3, SubtreeFacts
  <2>3. new \cap DOMAIN d.tree = {} /\ 0 \notin new
    <3> HIDE DEF size
    <3>1. QED
      BY <1>3, <1>4
  <2>4. ASSUME deep, NEW m \in copied, NEW i \in DOMAIN d.tree[m].kids PROVE d.tree[m].kids[i] \in copied
    <3> DEFINE q == d.tree[m].kids
               D == DOMAIN d.tree
    <3>1. q \in Seq(D) /\ \A k \in D : k \in ToSet(q) <=> d.tree[k].up = m
      BY <1>2, <1>3 DEF Tree, Joined
    <3>2. i \in DOMAIN q
      OBVIOUS
    <3>3. \A k \in D : d.tree[k].up \in copied => k \in copied
      <4>1. \A k \in DOMAIN d.tree : k # n => (k \in Subtree(d.tree, n) <=> d.tree[k].up \in Subtree(d.tree, n))
        BY <1>2, SubtreeFacts
      <4>2. QED
        BY <1>3, <2>4, <4>1
    <3> HIDE DEF q, D, copied
    <3>4. q[i] \in D /\ q[i] \in ToSet(q)
      <4>1. ToSet(q) = {q[j] : j \in DOMAIN q} /\ \A j \in DOMAIN q : q[j] \in D
        BY <3>1, SeqFacts
      <4>2. QED
        BY <3>2, <4>1
    <3>5. q[i] \in copied
      BY <3>1, <3>3, <3>4
    <3>6. QED
      BY <3>5 DEF q
  <2>5. QED
    BY <2>1, <2>2, <2>3, <2>4
<1>8. ASSUME NEW k \in copied
      PROVE  /\ Like(d.tree[k], t[g[k]]) /\ t[g[k]].up = (IF k = n THEN 0 ELSE g[d.tree[k].up])
             /\ t[g[k]].kids = (IF deep THEN [i \in DOMAIN d.tree[k].kids |-> g[d.tree[k].kids[i]]] ELSE <<>>)
  <2>1. t[g[k]] = Copy(CHOOSE m \in copied : New(m) = g[k])
    <3> HIDE DEF Copy, New, g, copied, new
    <3>1. g[k] \in new
      BY <1>7
    <3>2. QED
      BY <3>1
  <2>2. (CHOOSE m \in copied : New(m) = g[k]) = k
    <3>1. \A m \in copied : New(m) = g[m]
      OBVIOUS
    <3> HIDE DEF New, g, copied
    <3>2. QED
      BY <1>7, <3>1
  <2>3. t[g[k]] = Copy(k)
    <3> HIDE DEF Copy, New, g, copied, t
    <3>1. QED
      BY <2>1, <2>2, Zenon
  <2>4. DOMAIN d.tree[k] = NodeFields
    BY <1>2, <1>3 DEF Tree, Typed
  <2>5. New(d.tree[k].up) = g[d.tree[k].up] \/ k = n
    BY <1>7
  <2>6. deep => [i \in DOMAIN d.tree[k].kids |-> New(d.tree[k].kids[i])]
                  = [i \in DOMAIN d.tree[k].kids |-> g[d.tree[k].kids[i]]]
    <3>1. \A m \in copied : New(m) = g[m]
      OBVIOUS
    <3> HIDE DEF New, g, copied
    <3>2. QED
      BY <1>7, <3>1
  <2> HIDE DEF t, New, g, copied
  <2>7. QED
    BY <2>3, <2>4, <2>5, <2>6 DEF Like, NodeFields
<1>9. DOMAIN t = DOMAIN d.tree \cup new /\ \A m \in DOMAIN d.tree : t[m] = d.tree[m]
  <2> HIDE DEF paid, new, Copy, New
  <2>1. QED
    BY <1>2, <1>7
<1>10. Copied(d.tree, t, n, copied, g, new, deep)
  <2>1. copied = IF deep THEN Subtree(d.tree, n) ELSE {n}
    OBVIOUS
  <2> HIDE DEF t, g, copied, new
  <2>2. QED
    BY <1>3, <1>5, <1>7, <1>8, <1>9, <2>1 DEF Copied
<1> HIDE DEF t, g, copied, paid
<1>11. Redone(paid, made) /\ made.tree = t /\ made.root = d.root
  <2>1. /\ DOMAIN made = DOMAIN paid /\ made.layout = paid.layout /\ made.base = paid.base
        /\ made.journal = paid.journal /\ made.next = paid.next + size /\ made.tree = t
        /\ made.root = paid.root /\ made.sens = paid.sens
    BY <1>2 DEF Whole, Sound, Fields
  <2> HIDE DEF made, size
  <2>2. Edits(paid, made)
    BY <1>2, <1>3, <1>4, <1>9, <2>1 DEF Whole, Sound, Given, Edits
  <2>3. QED
    BY <1>2, <2>1, <2>2 DEF Redone
<1> HIDE DEF made, new
<1>12. Tree(made.tree) /\ Rooted(made) /\ Unseen(paid, made)
  <2>1. Copied(paid.tree, made.tree, n, copied, g, new, deep) /\ n \in DOMAIN paid.tree /\ made.root = paid.root
    BY <1>2, <1>10, <1>11
  <2>2. QED
    BY <1>2, <2>1, UnseenCopied DEF Whole
<1>13. Keeps(paid, made, s)
  BY <1>2, <1>11, <1>12, UnmarkedKeeps
<1>14. QED
  BY <1>1, <1>13 DEF Keeps

LEMMA ParseWhole ==
  ASSUME NEW d, d.next \in Nat \ {0}, d.layout \in Nat, NEW t \in Documents
  PROVE  Whole(Parse(d, t))
<1> DEFINE e == Parse(d, t)
           from == d.next - 1
<1>1. Sound(e)
  BY ParseFollows
<1>2. IsDocument(t) /\ from \in Nat
  BY StyleAssumption
<1>3. e.tree = Numbered(t, from) /\ e.root = from + 1
  BY DEF Parse
<1> HIDE DEF e, from
<1>4. /\ Tree(Numbered(t, from)) /\ from + 1 \in DOMAIN Numbered(t, from)
      /\ Numbered(t, from)[from + 1].kind = "doc" /\ Numbered(t, from)[from + 1].up = 0
  BY <1>2, NumberedTree
<1>5. QED
  BY <1>1, <1>3, <1>4 DEF Whole, Rooted, e

-----------------------------------------------------------------------------
(* The steps.                                                              *)

\* Until a move crosses, the styled document is near the document.
Fresh0 ==
  /\ Whole(dom) /\ DOMAIN history = {"crossed", "seededStyles", "seededBoxes"}
  /\ ~history.crossed => Near(dom, styled)

LEMMA Fresh0IsEnough == Fresh0 => StyledIsFresh
BY NearIsFresh DEF Fresh0, StyledIsFresh, Whole

\* A mutation keeps whatever was near the document near it.
LEMMA MutateKeeps ==
  ASSUME Whole(dom), DOMAIN history = {"crossed", "seededStyles", "seededBoxes"}, Mutate,
         NEW s, Near(dom, s)
  PROVE  DOMAIN history' = DOMAIN history /\ Whole(dom') /\ (~history'.crossed => Near(dom', s))
<1> DEFINE Goal == DOMAIN history' = DOMAIN history /\ Whole(dom') /\ (~history'.crossed => Near(dom', s))
<1>1. Whole(dom) /\ Near(dom, s) /\ DOMAIN history = {"crossed", "seededStyles", "seededBoxes"}
  OBVIOUS
<1>2. ASSUME NEW d, Changes(d), Keeps(dom, d, s) PROVE Goal
  <2>1. dom' = d /\ DOMAIN history' = DOMAIN history
    BY <1>1, <1>2 DEF Changes
  <2>2. Whole(dom') /\ Near(dom', s)
    BY <1>1, <1>2, <2>1 DEF Keeps
  <2>3. QED
    BY <1>1, <2>1, <2>2
<1>3. ASSUME NEW c, NEW d, Moves(c, d), Whole(d), Crosses(dom.tree, d.tree, c) \/ Near(d, s)
      PROVE Goal
  <2>1. dom' = d /\ DOMAIN history' = DOMAIN history
        /\ (Crosses(dom.tree, d.tree, c) => history'.crossed)
    BY <1>1, <1>3 DEF Moves
  <2>2. Whole(dom') /\ (~history'.crossed => Near(dom', s))
    BY <1>1, <1>3, <2>1
  <2>3. QED
    BY <1>1, <2>1, <2>2
<1>4. ASSUME NEW n \in DOMAIN dom.tree, dom.tree[n].kind # "doc", NEW v, Fills(n, v) PROVE Goal
  <2>1. dom' = SetTextContent(dom, n, v) /\ DOMAIN history' = DOMAIN history
        /\ (Refused(dom, n, v) => history'.crossed)
    BY <1>1, <1>4 DEF Fills, Refused
  <2>2. Whole(SetTextContent(dom, n, v)) /\ (Refused(dom, n, v) \/ Near(SetTextContent(dom, n, v), s))
    BY <1>1, <1>4, SetTextContentKeeps
  <2>3. Whole(dom') /\ (~history'.crossed => Near(dom', s))
    BY <1>1, <2>1, <2>2
  <2>4. QED
    BY <1>1, <2>1, <2>3
<1>5. PICK n \in DOMAIN dom.tree :
        \/ dom.tree[n].kind \in ReadKinds /\ \E v : Changes(SetStyle(dom, n, v)) \/ Changes(SetMark(dom, n, v))
        \/ /\ dom.tree[n].kind \in ReadKinds
           /\ \E f \in Fragments :
                /\ dom.tree[n].kind = "style" => \A i \in DOMAIN f : f[i].kind = "text"
                /\ Changes(SetInnerHtml(dom, n, f))
        \/ dom.tree[n].kind # "doc" /\ \E v : Fills(n, v)
        \/ \E p \in DOMAIN dom.tree :
             /\ May(dom.tree, p, n)
             /\ \/ Moves(n, AppendChild(dom, p, n))
                \/ \E r \in ToSet(dom.tree[p].kids) \ {n} :
                     \/ Moves(n, InsertBefore(dom, p, n, r))
                     \/ Moves(n, ReplaceChild(dom, n, r))
        \/ dom.tree[n].up # 0 /\ Moves(n, RemoveChild(dom, n))
  BY Zenon DEF Mutate, May
<1>6. CASE dom.tree[n].kind \in ReadKinds /\ \E v : Changes(SetStyle(dom, n, v)) \/ Changes(SetMark(dom, n, v))
  <2>1. PICK v : Changes(SetStyle(dom, n, v)) \/ Changes(SetMark(dom, n, v))
    BY <1>6
  <2>2. Keeps(dom, SetStyle(dom, n, v), s) /\ Keeps(dom, SetMark(dom, n, v), s)
    BY <1>1, <1>6, SetStyleKeeps, SetMarkKeeps
  <2>3. QED
    BY <1>2, <2>1, <2>2
<1>7. CASE /\ dom.tree[n].kind \in ReadKinds
           /\ \E f \in Fragments :
                /\ dom.tree[n].kind = "style" => \A i \in DOMAIN f : f[i].kind = "text"
                /\ Changes(SetInnerHtml(dom, n, f))
  <2>1. PICK f \in Fragments :
          /\ dom.tree[n].kind = "style" => \A i \in DOMAIN f : f[i].kind = "text"
          /\ Changes(SetInnerHtml(dom, n, f))
    BY <1>7
  <2>2. f = <<>> \/ \E k \in NodeKinds \ {"doc"}, v \in -1..1 : f = <<Node(k, v)>>
    BY StyleAssumption
  <2>3. Keeps(dom, SetInnerHtml(dom, n, f), s)
    BY <1>1, <1>7, <2>1, <2>2, SetInnerHtmlKeeps
  <2>4. QED
    BY <1>2, <2>1, <2>3
<1>8. CASE dom.tree[n].kind # "doc" /\ \E v : Fills(n, v)
  BY <1>4, <1>8
<1>9. CASE \E p \in DOMAIN dom.tree :
             /\ May(dom.tree, p, n)
             /\ \/ Moves(n, AppendChild(dom, p, n))
                \/ \E r \in ToSet(dom.tree[p].kids) \ {n} :
                     \/ Moves(n, InsertBefore(dom, p, n, r))
                     \/ Moves(n, ReplaceChild(dom, n, r))
  <2>1. PICK p \in DOMAIN dom.tree :
             /\ May(dom.tree, p, n)
             /\ \/ Moves(n, AppendChild(dom, p, n))
                \/ \E r \in ToSet(dom.tree[p].kids) \ {n} :
                     \/ Moves(n, InsertBefore(dom, p, n, r))
                     \/ Moves(n, ReplaceChild(dom, n, r))
    BY <1>9
  <2>2. ASSUME NEW before, before = 0 \/ before \in ToSet(dom.tree[p].kids) \ {n},
               Moves(n, PlaceChild(dom, p, n, before))
        PROVE  Goal
    <3> DEFINE e == PlaceChild(dom, p, n, before)
    <3>1. Whole(e) /\ (Crosses(dom.tree, e.tree, n) \/ Near(e, s))
      BY <1>1, <2>1, <2>2, PlaceChildKeeps
    <3>2. Moves(n, e)
      BY <2>2
    <3> HIDE DEF e
    <3>3. QED
      BY <1>3, <3>1, <3>2
  <2>3. ASSUME NEW r \in ToSet(dom.tree[p].kids) \ {n}, Moves(n, ReplaceChild(dom, n, r))
        PROVE  Goal
    <3> DEFINE e == ReplaceChild(dom, n, r)
    <3>1. Whole(e) /\ (Crosses(dom.tree, e.tree, n) \/ Near(e, s))
      BY <1>1, <2>1, <2>3, ReplaceChildKeeps
    <3>2. Moves(n, e)
      BY <2>3
    <3> HIDE DEF e
    <3>3. QED
      BY <1>3, <3>1, <3>2
  <2>4. CASE Moves(n, AppendChild(dom, p, n))
    <3> DEFINE before == 0
    <3>1. before = 0 /\ Moves(n, PlaceChild(dom, p, n, before))
      BY <2>4 DEF AppendChild
    <3> HIDE DEF before
    <3>2. QED
      BY <2>2, <3>1
  <2>5. CASE \E r \in ToSet(dom.tree[p].kids) \ {n} :
               Moves(n, InsertBefore(dom, p, n, r)) \/ Moves(n, ReplaceChild(dom, n, r))
    BY <2>2, <2>3, <2>5 DEF InsertBefore
  <2>6. QED
    BY <2>1, <2>4, <2>5
<1>10. CASE dom.tree[n].up # 0 /\ Moves(n, RemoveChild(dom, n))
  <2> DEFINE e == RemoveChild(dom, n)
  <2>1. Whole(e) /\ (Crosses(dom.tree, e.tree, n) \/ Near(e, s))
    BY <1>1, <1>10, RemoveChildKeeps
  <2>2. Moves(n, e)
    BY <1>10
  <2> HIDE DEF e
  <2>3. QED
    BY <1>3, <2>1, <2>2
<1>11. QED
  BY <1>5, <1>6, <1>7, <1>8, <1>9, <1>10

LEMMA MutateIsNear == ASSUME Fresh0, ~history.crossed, Mutate PROVE Fresh0'
<1>1. /\ Whole(dom) /\ Near(dom, styled) /\ styled' = styled
      /\ DOMAIN history = {"crossed", "seededStyles", "seededBoxes"}
  BY DEF Fresh0, Mutate, pageVars
<1>2. DOMAIN history' = DOMAIN history /\ Whole(dom') /\ (~history'.crossed => Near(dom', styled))
  BY <1>1, MutateKeeps
<1>3. QED
  BY <1>1, <1>2 DEF Fresh0

LEMMA MakeKeeps == ASSUME Whole(dom), Make, NEW s, Near(dom, s) PROVE Keeps(dom, dom', s)
<1>1. Keeps(dom, dom', s)
  <2>1. CASE \E k \in Kinds : dom' = Create(dom, k, 0)
    <3>1. PICK k \in Kinds : dom' = Create(dom, k, 0)
      BY <2>1
    <3>2. k \in NodeKinds
      BY StyleAssumption
    <3>3. QED
      BY <3>1, <3>2, CreateKeeps
  <2>2. CASE \E n \in DOMAIN dom.tree, deep \in BOOLEAN : dom' = CloneNode(dom, n, deep)
    BY <2>2, CloneNodeKeeps
  <2>3. QED
    BY <2>1, <2>2 DEF Make
<1>2. QED
  BY <1>1

LEMMA MakeIsNear == ASSUME Fresh0, ~history.crossed, Make PROVE Fresh0'
<1>1. Whole(dom) /\ Near(dom, styled) /\ styled' = styled /\ history' = history
  BY DEF Fresh0, Make
<1>2. Keeps(dom, dom', styled)
  BY <1>1, MakeKeeps
<1>3. QED
  BY <1>1, <1>2 DEF Keeps, Fresh0

\* What is ensured is of the version it is ensured for.
LEMMA EnsuredIsCurrent ==
  ASSUME NEW d, NEW s, Near(d, s), NEW vp, NEW mode, NEW corrected,
         NEW done \in Ensured(d, s, vp, mode, corrected)
  PROVE  LaidOut(done[2]).valid /\ LaidOut(done[2]).version = done[1].layout
<1>1. done[2].valid /\ done[2].version = done[1].layout /\ DOMAIN done[2] = StyledFields
  <2>1. CASE Hit(d, s, vp, mode, corrected) /\ done = <<d, s>>
    BY <2>1 DEF Hit, Near
  <2>2. CASE done = <<Scanned(d), Rebuilt(d, vp, mode, corrected)>>
    <3>1. Scanned(d).layout = d.layout
      BY DEF Scanned
    <3>2. QED
      BY <2>2, <3>1 DEF Rebuilt, StyledFields
  <2>3. CASE MayPatch(d, s, vp, mode, corrected) /\ done = <<d, Patched(d, s)>>
    <3>1. s.valid /\ DOMAIN s = StyledFields
      BY <2>3 DEF MayPatch, Near
    <3>2. QED
      BY <2>3, <3>1 DEF Patched, StyledFields
  <2>4. QED
    BY <2>1, <2>2, <2>3 DEF Ensured
<1>2. QED
  BY <1>1 DEF LaidOut, StyledFields

\* A second pass over a current document scans what has been scanned.
LEMMA EnsuredAgain ==
  ASSUME NEW d, Whole(d), NEW s, Near(d, s), s.valid, s.version = d.layout,
         NEW vp, NEW mode, NEW corrected, NEW done \in Ensured(d, s, vp, mode, corrected)
  PROVE  Near(d, LaidOut(done[2]))
<1>1. Near(done[1], LaidOut(done[2]))
  BY NearEnsured
<1>2. CASE done[1] = d
  BY <1>1, <1>2
<1>3. CASE done[1] = Scanned(d)
  <2> DEFINE e == Scanned(d)
             l == LaidOut(done[2])
  <2>1. e.layout = d.layout /\ e.base = d.base /\ e.journal = d.journal /\ e.tree = d.tree /\ e.root = d.root
    BY DEF Scanned
  <2>2. d.sens = SelectsMark(d)
    <3>1. OnlyInline(d, s.version)
      BY JournalFacts DEF OnlyInline, Whole, Sound, Journaled
    <3>2. QED
      BY <3>1 DEF Near, Shows
  <2> HIDE DEF e, l
  <2>3. LayoutView(d) = LayoutView(e)
    BY <2>1, SightOf
  <2>4. Near(d, l)
    <3>1. Near(e, l)
      BY <1>1, <1>3 DEF e, l
    <3>2. QED
      BY <2>1, <2>2, <2>3, <3>1, NearKept
  <2>5. QED
    BY <2>4 DEF l
<1>4. QED
  BY <1>2, <1>3 DEF Ensured

LEMMA ReadIsNear ==
  ASSUME Fresh0, ~history.crossed, Read \/ Render \/ RebuildFails
  PROVE  Fresh0'
<1>1. Whole(dom) /\ Near(dom, styled) /\ DOMAIN history = {"crossed", "seededStyles", "seededBoxes"}
  BY DEF Fresh0
<1>2. SUFFICES DOMAIN history' = DOMAIN history /\ Whole(dom') /\ Near(dom', styled')
  BY <1>1 DEF Fresh0
<1>3. ASSUME NEW mode, NEW corrected, NEW done \in Ensured(dom, styled, viewport, mode, corrected),
             dom' = done[1], styled' = done[2] \/ styled' = LaidOut(done[2])
      PROVE  Whole(dom') /\ Near(dom', styled')
  <2>1. Whole(done[1]) /\ Near(done[1], done[2]) /\ Near(done[1], LaidOut(done[2]))
    BY <1>1, <1>3, NearEnsured
  <2>2. QED
    BY <1>3, <2>1
<1>4. CASE Read
  <2>1. PICK n, p : \/ ReadDetachedStyle(n) \/ ReadCurrentProperty(n, p)
                    \/ BoundedProperty(n, p) \/ ReadDetachedGeometry(n)
                    \/ ReadCurrentGeometry(n) \/ BoundedGeometry(n)
                    \/ ForceProperty(n, p) \/ SnapshotProperty(n, p) \/ ReadStyle(n)
                    \/ ForceGeometry(n) \/ ExactGeometry \/ ReuseStyle(n)
    BY <1>4, Zenon DEF Read
  <2>2. CASE \/ ReadDetachedStyle(n) \/ ReadCurrentProperty(n, p)
             \/ BoundedProperty(n, p) \/ ReadDetachedGeometry(n)
             \/ ReadCurrentGeometry(n) \/ BoundedGeometry(n) \/ ReuseStyle(n)
    <3>1. dom' = dom /\ styled' = styled /\ DOMAIN history' = DOMAIN history
      BY <1>1, <2>2 DEF ReadDetachedStyle, ReadCurrentProperty, BoundedProperty,
                        ReadDetachedGeometry, ReadCurrentGeometry, BoundedGeometry, ReuseStyle
    <3>2. QED
      BY <1>1, <3>1
  <2>3. CASE ForceProperty(n, p)
    <3>1. PICK done \in Ensured(dom, styled, viewport, "sheets", FALSE) :
            dom' = done[1] /\ styled' = done[2] /\ DOMAIN history' = DOMAIN history
      BY <2>3 DEF ForceProperty
    <3>2. QED
      BY <1>3, <3>1
  <2>4. CASE SnapshotProperty(n, p)
    <3>1. PICK done \in Ensured(dom, styled, viewport, "sheets", FALSE) :
            dom' = done[1] /\ styled' = done[2]
      BY <2>4 DEF SnapshotProperty
    <3>2. history' = history
      BY <2>4 DEF SnapshotProperty
    <3>3. QED
      BY <1>3, <3>1, <3>2
  <2>5. CASE ReadStyle(n)
    <3>1. PICK done \in IF StyleHit THEN {<<dom, styled>>}
                        ELSE Ensured(dom, styled, viewport, "sheets", FALSE) :
            dom' = done[1] /\ styled' = done[2]
      BY <2>5 DEF ReadStyle
    <3>2. history' = history
      BY <2>5 DEF ReadStyle
    <3>3. CASE StyleHit
      <4>1. done = <<dom, styled>>
        BY <3>1, <3>3
      <4>2. QED
        BY <1>1, <3>1, <3>2, <4>1
    <3>4. CASE ~StyleHit
      <4>1. done \in Ensured(dom, styled, viewport, "sheets", FALSE)
        BY <3>1, <3>4
      <4>2. QED
        BY <1>3, <3>1, <3>2, <4>1
    <3>5. QED
      BY <3>3, <3>4
  <2>6. CASE ForceGeometry(n)
    <3>1. PICK done \in Ensured(dom, styled, viewport, "sheets", FALSE) :
            dom' = done[1] /\ styled' = LaidOut(done[2]) /\ DOMAIN history' = DOMAIN history
      BY <2>6 DEF ForceGeometry
    <3>2. QED
      BY <1>3, <3>1
  <2>7. CASE ExactGeometry
    <3>1. PICK done \in Ensured(dom, styled, viewport, "sheets", FALSE) :
            dom' = done[1] /\ styled' = LaidOut(done[2]) /\ history' = history
      BY <2>7 DEF ExactGeometry
    <3>2. QED
      BY <1>3, <3>1
  <2>8. QED
    BY <2>1, <2>2, <2>3, <2>4, <2>5, <2>6, <2>7
<1>5. CASE Render
  <2>1. PICK first \in Ensured(dom, styled, viewport', "full", FALSE) :
          /\ dom' = first[1]
          /\ \/ styled' = LaidOut(first[2])
             \/ \E second \in Ensured(first[1], LaidOut(first[2]), viewport', "full", TRUE) :
                  styled' = LaidOut(second[2])
    BY <1>5, Zenon DEF Render
  <2>2. history' = history
    BY <1>5 DEF Render
  <2> DEFINE vp == viewport'
             mode == "full"
             once == FALSE
             again == TRUE
  <2>3. /\ first \in Ensured(dom, styled, vp, mode, once)
        /\ \/ styled' = LaidOut(first[2])
           \/ \E second \in Ensured(first[1], LaidOut(first[2]), vp, mode, again) :
                styled' = LaidOut(second[2])
    BY <2>1
  <2> HIDE DEF vp, mode, once, again
  <2>4. Whole(first[1]) /\ Near(first[1], LaidOut(first[2]))
        /\ LaidOut(first[2]).valid /\ LaidOut(first[2]).version = first[1].layout
    BY <1>1, <2>3, NearEnsured, EnsuredIsCurrent
  <2>5. CASE styled' = LaidOut(first[2])
    BY <2>1, <2>2, <2>4, <2>5
  <2>6. CASE \E second \in Ensured(first[1], LaidOut(first[2]), vp, mode, again) :
               styled' = LaidOut(second[2])
    <3> DEFINE d == first[1]
               s == LaidOut(first[2])
    <3>1. PICK second \in Ensured(d, s, vp, mode, again) : styled' = LaidOut(second[2])
      BY <2>6
    <3>2. Whole(d) /\ Near(d, s) /\ s.valid /\ s.version = d.layout /\ dom' = d
      BY <2>1, <2>4
    <3> HIDE DEF d, s
    <3>3. Near(d, LaidOut(second[2]))
      BY <3>1, <3>2, EnsuredAgain
    <3>4. QED
      BY <2>2, <3>1, <3>2, <3>3
  <2>7. QED
    BY <2>3, <2>5, <2>6
<1>6. CASE RebuildFails
  <2>1. dom' = Scanned(dom) /\ styled' = styled /\ history' = history
    BY <1>6 DEF RebuildFails
  <2>2. Whole(Scanned(dom))
    <3>1. Sound(Scanned(dom)) /\ Scanned(dom).tree = dom.tree /\ Scanned(dom).root = dom.root
      BY <1>1, ScanFollows, ScanKeepsTree DEF Whole, Follows, SameTree
    <3>2. QED
      BY <1>1, <3>1 DEF Whole, Rooted
  <2>3. Near(Scanned(dom), styled)
    BY <1>1, NearScanned DEF Whole
  <2>4. QED
    BY <2>1, <2>2, <2>3
<1>7. QED
  BY <1>4, <1>5, <1>6

LEMMA ResetIsNear == ASSUME Fresh0, SetLoaderOrFactory \/ LoadHtml PROVE Fresh0'
<1>1. Whole(dom')
  <2>1. CASE SetLoaderOrFactory
    BY <2>1 DEF SetLoaderOrFactory, Fresh0
  <2>2. CASE LoadHtml
    <3>1. PICK t \in Documents : dom' = Parse(dom, t)
      BY <2>2 DEF LoadHtml
    <3>2. dom.next \in Nat \ {0} /\ dom.layout \in Nat
      BY DEF Fresh0, Whole, Sound, Given, Journaled
    <3>3. QED
      BY <3>1, <3>2, ParseWhole
  <2>3. QED
    BY <2>1, <2>2
<1>2. styled' = Empty /\ DOMAIN history' = {"crossed", "seededStyles", "seededBoxes"}
  BY DEF SetLoaderOrFactory, LoadHtml, Invalidated, NoHistory
<1>3. Near(dom', styled')
  BY <1>2 DEF Near, Empty
<1>4. QED
  BY <1>1, <1>2, <1>3 DEF Fresh0

LEMMA Fresh0Always == Spec => []Fresh0
<1>1. Init => Fresh0
  <2> SUFFICES ASSUME Init PROVE Fresh0
    OBVIOUS
  <2>1. PICK t \in Documents : dom = Parse(Blank, t)
    BY DEF Init
  <2>2. Whole(dom)
    <3> DEFINE d == Blank
    <3>1. d.next \in Nat \ {0} /\ d.layout \in Nat /\ dom = Parse(d, t)
      BY <2>1 DEF Blank
    <3> HIDE DEF d
    <3>2. QED
      BY <3>1, ParseWhole
  <2>3. QED
    BY <2>2 DEF Init, Fresh0, Near, Empty, NoHistory
<1>2. Fresh0 /\ [Next]_vars => Fresh0'
  <2> SUFFICES ASSUME Fresh0, [Next]_vars PROVE Fresh0'
    OBVIOUS
  <2>1. CASE UNCHANGED vars
    BY <2>1 DEF vars, Fresh0
  <2>2. CASE Next
    <3>1. ~history.crossed
      BY <2>2 DEF Next, Reading, Writing
    <3>2. Mutate \/ Make \/ Read \/ Render \/ RebuildFails \/ SetLoaderOrFactory \/ LoadHtml
      BY <2>2 DEF Next
    <3>3. QED
      BY <3>1, <3>2, MutateIsNear, MakeIsNear, ReadIsNear, ResetIsNear
  <2>3. QED
    BY <2>1, <2>2
<1>3. QED
  BY <1>1, <1>2, PTL DEF Spec

\* A styled document whose version is the document's shows the document as it
\* is, whatever happened in between (ensure_styled_document): rebuilt, patched
\* from the journal, or kept over mutations that were judged not to matter.
\* The moves the marking rules do not see are set apart.
THEOREM StyledAlwaysFresh == Spec => []StyledIsFresh
BY Fresh0Always, Fresh0IsEnough, PTL

-----------------------------------------------------------------------------
(* What a digest tells.                                                    *)

\* The texts of the stylesheets the engine is shown.
ViewTexts(d) == {d.tree[m].val : m \in Shown(d) \cap Sheets(d)}

LEMMA IndexFacts ==
  ASSUME NEW s, IsInjective(s), NEW i \in DOMAIN s
  PROVE  IndexOf(s, s[i]) = i
BY DEF IndexOf, IsInjective

LEMMA ShownUp ==
  ASSUME NEW d, Whole(d), NEW m \in Shown(d)
  PROVE  /\ d.tree[m].up # 0 => d.tree[m].up \in Shown(d)
         /\ d.tree[m].up = 0 => m = d.root
<1> DEFINE t == d.tree
           p == t[m].up
<1>1. /\ Tree(t) /\ d.root \in DOMAIN t /\ t[d.root].up = 0
      /\ m \in DOMAIN t /\ d.root \in Above(t, m) /\ \A a \in Above(t, m) : t[a].kind # "template"
  BY ShownFacts, ConnectedFacts DEF Whole, Rooted
<1>2. Above(t, m) = {m} \cup (IF p = 0 THEN {} ELSE Above(t, p))
  BY <1>1, AboveFacts
<1>3. CASE p = 0
  BY <1>1, <1>2, <1>3
<1>4. CASE p # 0
  <2>1. p \in DOMAIN t /\ t[p].kind \notin {"text", "comment"}
    BY <1>1, <1>4 DEF Tree, Joined, Placed, Fit
  <2>2. d.root \in Above(t, p) /\ \A a \in Above(t, p) : t[a].kind # "template"
    BY <1>1, <1>2, <1>4
  <2>3. ~TextIn(t, p, {"head", "script"})
    BY <2>1 DEF TextIn
  <2>4. p \in Shown(d)
    BY <1>1, <2>1, <2>2, <2>3, ShownFacts, ConnectedFacts
  <2>5. QED
    BY <1>4, <2>4
<1>5. QED
  BY <1>3, <1>4

LEMMA NarrowSeq ==
  ASSUME NEW X, NEW s \in Seq(X), NEW Y, ToSet(s) \subseteq Y
  PROVE  s \in Seq(Y)
<1>1. \A i \in 1 .. Len(s) : s[i] \in Y
  BY DEF ToSet
<1>2. QED
  BY <1>1

LEMMA ViewIsTree ==
  ASSUME NEW d, Whole(d)
  PROVE  Tree(LayoutView(d))
<1> DEFINE t == d.tree
           u == LayoutView(d)
           Z == Shown(d)
<1>1. Tree(t) /\ Typed(t) /\ Ranked(t) /\ Joined(t) /\ Placed(t) /\ Z \subseteq DOMAIN t
  BY ShownFacts DEF Whole, Tree
<1>2. /\ DOMAIN u = Z
      /\ \A m \in Z : /\ DOMAIN u[m] = NodeFields /\ u[m].kind = t[m].kind /\ u[m].up = t[m].up
                      /\ u[m].kids = Kept(t[m].kids, Z)
  BY <1>1, ViewFacts
<1>3. \A m \in Z : t[m].up \in Z \cup {0}
  BY ShownUp
<1> HIDE DEF t, u, Z
<1>4. Typed(u)
  BY <1>1, <1>2 DEF Typed
<1>5. Ranked(u)
  <2>1. PICK L \in Nat : \E rank \in [DOMAIN t -> 0..L] : Ranks(t, rank)
    BY <1>1 DEF Ranked
  <2>2. PICK rank \in [DOMAIN t -> 0..L] : Ranks(t, rank)
    BY <2>1
  <2> DEFINE r == [m \in Z |-> rank[m]]
  <2>3. r \in [DOMAIN u -> 0..L]
    BY <1>1, <1>2
  <2>4. Ranks(u, r)
    BY <1>1, <1>2, <1>3, <2>2 DEF Ranks
  <2>5. QED
    BY <2>3, <2>4 DEF Ranked
<1>6. Joined(u)
  <2>1. 0 \notin DOMAIN u
    BY <1>1, <1>2 DEF Joined
  <2>2. ASSUME NEW m \in Z
        PROVE  /\ u[m].up \in Z \cup {0} /\ u[m].kids \in Seq(Z) /\ IsInjective(u[m].kids)
               /\ \A k \in Z : k \in ToSet(u[m].kids) <=> u[k].up = m
    <3> DEFINE s == t[m].kids
               q == Kept(s, Z)
               D == DOMAIN t
    <3>1. s \in Seq(D) /\ IsInjective(s) /\ \A k \in D : k \in ToSet(s) <=> t[k].up = m
      BY <1>1 DEF Joined
    <3>2. u[m].up \in Z \cup {0} /\ u[m].kids = q
      BY <1>2, <1>3
    <3> HIDE DEF s, D
    <3>3. q \in Seq(D) /\ ToSet(q) = ToSet(s) \cap Z /\ IsInjective(q)
      BY <3>1, KeptFacts, KeptApart
    <3> HIDE DEF q
    <3>4. q \in Seq(Z)
      BY <3>3, NarrowSeq
    <3>5. \A k \in Z : k \in ToSet(q) <=> u[k].up = m
      BY <1>1, <1>2, <3>1, <3>3 DEF D
    <3>6. QED
      BY <3>2, <3>3, <3>4, <3>5
  <2>3. QED
    BY <1>2, <2>1, <2>2 DEF Joined
<1>7. Placed(u)
  <2>1. \A m \in Z : t[m].up # 0 => Fit(t, m, t[m].up)
    BY <1>1 DEF Placed
  <2>2. \A m \in Z : u[m].up # 0 => Fit(u, m, u[m].up)
    BY <1>2, <1>3, <2>1 DEF Fit
  <2>3. QED
    BY <1>2, <2>2 DEF Placed
<1>8. QED
  BY <1>4, <1>5, <1>6, <1>7 DEF Tree, u

LEMMA ViewChains ==
  ASSUME NEW d, Whole(d)
  PROVE  \A m \in Shown(d) : /\ Chain(LayoutView(d), m) = Chain(d.tree, m)
                             /\ Above(d.tree, m) \subseteq Shown(d)
<1> DEFINE t == d.tree
           u == LayoutView(d)
           Z == Shown(d)
           S == {m \in Z : Chain(u, m) = Chain(t, m) /\ Above(t, m) \subseteq Z}
<1>1. Tree(t) /\ Tree(u) /\ DOMAIN u = Z /\ Z \subseteq DOMAIN t /\ \A m \in Z : u[m].up = t[m].up
  BY ViewIsTree, ViewFacts, ShownFacts DEF Whole
<1>2. \A m \in Z : t[m].up # 0 => t[m].up \in Z
  BY ShownUp
<1> HIDE DEF t, u, Z
<1>3. /\ Chain(t, 0) = <<>> /\ Chain(u, 0) = <<>>
      /\ \A m \in Z : Chain(t, m) = <<m>> \o Chain(t, t[m].up)
      /\ \A m \in Z : Chain(u, m) = <<m>> \o Chain(u, u[m].up)
  BY <1>1, ChainUnfolds
<1>4. \A m \in Z : Above(t, m) = {m} \cup (IF t[m].up = 0 THEN {} ELSE Above(t, t[m].up))
  BY <1>1, AboveFacts
<1>5. ASSUME NEW m \in Z, u[m].up # 0 => u[m].up \in S PROVE m \in S
  <2>1. CASE t[m].up = 0
    <3>1. Chain(u, m) = Chain(t, m)
      BY <1>1, <1>3, <2>1
    <3>2. Above(t, m) \subseteq Z
      BY <1>4, <2>1
    <3>3. QED
      BY <3>1, <3>2
  <2>2. CASE t[m].up # 0
    <3>1. t[m].up \in S
      BY <1>1, <1>5, <2>2
    <3>2. Chain(u, m) = Chain(t, m)
      BY <1>1, <1>3, <3>1
    <3>3. Above(t, m) \subseteq Z
      BY <1>4, <2>2, <3>1
    <3>4. QED
      BY <3>2, <3>3
  <2>3. QED
    BY <2>1, <2>2
<1>6. Z \subseteq S
  <2> HIDE DEF S
  <2>1. \A m \in DOMAIN u : (u[m].up # 0 => u[m].up \in S) => m \in S
    BY <1>1, <1>5
  <2>2. QED
    BY <1>1, <2>1, TreeInduction
<1>7. QED
  BY <1>6 DEF t, u, Z

NotTemplates(t) == {k \in DOMAIN t : t[k].kind # "template"}

\* The elements of a level that the engine is shown: all but the templates.
LEMMA LevelFacts ==
  ASSUME NEW d, Whole(d), NEW a \in Shown(d), d.tree[a].kind \in Elements,
         NEW p, p = d.tree[a].up, NEW level, level = ElementKids(d.tree, p)
  PROVE  /\ p \in Shown(d) /\ level \in Seq(DOMAIN d.tree) /\ IsInjective(level) /\ a \in ToSet(level)
         /\ ElementKids(LayoutView(d), p) = Kept(level, NotTemplates(d.tree))
         /\ ElementKids(LayoutView(d), p) \in Seq(Shown(d)) /\ a \in ToSet(ElementKids(LayoutView(d), p))
<1> DEFINE t == d.tree
           u == LayoutView(d)
           Z == Shown(d)
           D == DOMAIN t
           NT == NotTemplates(t)
           kids == t[p].kids
<1>1. Tree(t) /\ Tree(u) /\ DOMAIN u = Z /\ Z \subseteq D /\ \A m \in Z : u[m].kind = t[m].kind
  BY ViewIsTree, ViewFacts, ShownFacts DEF Whole
<1>2. p \in Z /\ p # 0
  <2>1. a # d.root
    BY DEF Whole, Rooted, Elements
  <2>2. p # 0
    BY <2>1, ShownUp
  <2>3. QED
    BY <2>2, ShownUp
<1>3. u[p].kids = Kept(kids, Z)
  BY <1>2, ViewFacts DEF Whole
<1>4. kids \in Seq(D) /\ IsInjective(kids) /\ \A k \in D : k \in ToSet(kids) <=> t[k].up = p
  BY <1>1, <1>2 DEF Tree, Joined
<1>5. ASSUME NEW k \in D, t[k].up = p, t[k].kind \in Elements
      PROVE  k \in Z <=> t[k].kind # "template"
  <2>1. Above(t, k) = {k} \cup Above(t, p) /\ k \in Above(t, k)
    BY <1>1, <1>2, <1>5, AboveFacts
  <2>2. d.root \in Above(t, p) /\ \A b \in Above(t, p) : t[b].kind # "template"
    BY <1>1, <1>2, ShownFacts, ConnectedFacts
  <2>3. t[k].kind # "comment" /\ ~TextIn(t, k, {"head", "script"})
    BY <1>5 DEF TextIn, Elements
  <2>4. QED
    BY <1>1, <2>1, <2>2, <2>3, ShownFacts, ConnectedFacts
<1>6. level \in Seq(D) /\ IsInjective(level) /\ a \in ToSet(level)
  <2>1. level = Kept(kids, ElementsOf(t))
    BY DEF ElementKids
  <2>2. a \in D /\ a \in ElementsOf(t) /\ a \in ToSet(kids)
    BY <1>1, <1>4 DEF ElementsOf
  <2> HIDE DEF kids, D, t
  <2>3. QED
    BY <1>4, <2>1, <2>2, KeptFacts, KeptApart
<1>7. ElementKids(u, p) = Kept(level, NT)
  <2> DEFINE A == ElementsOf(t)
             B == ElementsOf(u)
  <2>1. ElementKids(u, p) = Kept(Kept(kids, Z), B) /\ level = Kept(kids, A)
    BY <1>3 DEF ElementKids
  <2>2. ToSet(kids) \cap (Z \cap B) = ToSet(kids) \cap (A \cap NT)
    <3>1. ToSet(kids) \subseteq D
      BY <1>4, SeqFacts
    <3>2. ASSUME NEW k \in ToSet(kids) PROVE k \in Z \cap B <=> k \in A \cap NT
      <4>1. k \in D /\ t[k].up = p
        BY <1>4, <3>1
      <4>2. k \in B <=> k \in Z /\ t[k].kind \in Elements
        BY <1>1 DEF ElementsOf
      <4>3. k \in A <=> t[k].kind \in Elements
        BY <4>1 DEF ElementsOf
      <4>4. k \in NT <=> t[k].kind # "template"
        BY <4>1 DEF NotTemplates
      <4>5. QED
        BY <1>5, <4>1, <4>2, <4>3, <4>4
    <3>3. QED
      BY <3>2
  <2> HIDE DEF A, B, kids, D, t, NT, u, Z
  <2>3. Kept(Kept(kids, Z), B) = Kept(kids, Z \cap B)
    BY <1>4, KeptTwice
  <2>4. Kept(Kept(kids, A), NT) = Kept(kids, A \cap NT)
    BY <1>4, KeptTwice
  <2>5. Kept(kids, Z \cap B) = Kept(kids, A \cap NT)
    <3> DEFINE K == Z \cap B
               L == A \cap NT
    <3>1. ToSet(kids) \cap K = ToSet(kids) \cap L
      BY <2>2
    <3> HIDE DEF K, L
    <3>2. Kept(kids, K) = Kept(kids, L)
      BY <1>4, <3>1, KeptSame
    <3>3. QED
      BY <3>2 DEF K, L
  <2>6. QED
    BY <2>1, <2>3, <2>4, <2>5
<1>8. ElementKids(u, p) \in Seq(Z) /\ a \in ToSet(ElementKids(u, p))
  <2> DEFINE s == u[p].kids
             B == ElementsOf(u)
  <2>1. s \in Seq(Z) /\ ElementKids(u, p) = Kept(s, B)
    BY <1>1, <1>2 DEF Tree, Joined, ElementKids
  <2>2. a \in ToSet(s) /\ a \in B
    <3>1. u[a].up = p
      BY <1>1, ViewFacts
    <3>2. a \in ToSet(s)
      BY <1>1, <1>2, <3>1 DEF Tree, Joined
    <3>3. QED
      BY <1>1, <3>2 DEF ElementsOf
  <2> HIDE DEF s, B, Z
  <2>3. QED
    BY <2>1, <2>2, KeptFacts
<1>9. QED
  BY <1>2, <1>6, <1>7, <1>8

SelectorOf(view, m) == <<view[m].kind, view[m].mark>>
ViewRow(view, a) ==
  LET level == ElementKids(view, view[a].up)
  IN <<SelectorOf(view, a), view[a].style, IndexOf(level, a),
       [j \in DOMAIN level |-> SelectorOf(view, level[j])]>>
LevelOf(d, a) ==
  LET level == ElementKids(d.tree, d.tree[a].up)
  IN <<[i \in DOMAIN level |-> FoldElementSelectors(d, level[i])], IndexOf(level, a)>>
DigestRow(d, mem, a) == <<FoldElementSelectors(d, a), d.tree[a].style, LevelContextFor(d, mem, a)>>
\* The row where no level is remembered.
FreshRow(d, a) == <<FoldElementSelectors(d, a), d.tree[a].style, LevelOf(d, a)>>
\* The row of the view, from that of the digest.
KindOf(fold) == fold[1][1]
Seen(level) == Kept([j \in 1 .. Len(level) |-> j], {j \in 1 .. Len(level) : KindOf(level[j]) # "template"})
TellRow(row) ==
  LET level == row[3][1]
      seen == Seen(level)
  IN <<row[1][1], row[2], IndexOf(seen, row[3][2]), [j \in DOMAIN seen |-> level[seen[j]][1]]>>

LEMMA SelectorFacts ==
  ASSUME NEW d, Whole(d), d.sens = SelectsMark(d), NEW m \in Shown(d)
  PROVE  SelectorOf(LayoutView(d), m) = Folds(d, m)
<1> DEFINE x == LayoutView(d)[m]
<1>1. x.kind = d.tree[m].kind /\ x.mark = IF SelectsMark(d) THEN d.tree[m].mark ELSE 0
  BY ViewFacts DEF Whole
<1> HIDE DEF x
<1>2. <<x.kind, x.mark>> = Folds(d, m)
  BY <1>1 DEF Folds
<1>3. QED
  BY <1>2 DEF SelectorOf, x

LEMMA RowIsTold ==
  ASSUME NEW d, Whole(d), d.sens = SelectsMark(d), NEW a \in Shown(d), d.tree[a].kind \in Elements
  PROVE  ViewRow(LayoutView(d), a) = TellRow(FreshRow(d, a))
<1> DEFINE t == d.tree
           u == LayoutView(d)
           Z == Shown(d)
           D == DOMAIN t
           NT == NotTemplates(t)
           p == t[a].up
           s == ElementKids(t, p)
           q == ElementKids(u, p)
           F == [i \in DOMAIN s |-> FoldElementSelectors(d, s[i])]
           P == Spots(s, NT)
           k == IndexOf(s, a)
<1>1. /\ s \in Seq(D) /\ IsInjective(s) /\ a \in ToSet(s)
      /\ q = Kept(s, NT) /\ q \in Seq(Z) /\ a \in ToSet(q) /\ p # 0
  <2> HIDE DEF q, Z, D
  <2>1. p \in Z /\ s \in Seq(D) /\ IsInjective(s) /\ a \in ToSet(s)
        /\ q = Kept(s, NT) /\ q \in Seq(Z) /\ a \in ToSet(q)
    <3> HIDE DEF p, s, NT
    <3>1. p = d.tree[a].up /\ s = ElementKids(d.tree, p) /\ NT = NotTemplates(d.tree)
      BY DEF p, s, NT
    <3>2. QED
      BY <3>1, LevelFacts DEF q, Z, D
  <2>2. 0 \notin Z
    BY ShownFacts DEF Z, Whole, Tree, Joined
  <2>3. QED
    BY <2>1, <2>2
<1>2. u[a].up = p /\ u[a].style = t[a].style /\ Z \subseteq D
  BY ViewFacts, ShownFacts DEF Whole
<1>3. \A m \in Z : SelectorOf(u, m) = Folds(d, m)
  BY SelectorFacts
<1>4. \A m : FoldElementSelectors(d, m)[1] = Folds(d, m) /\ Folds(d, m)[1] = t[m].kind
  BY DEF FoldElementSelectors, Folds
<1>5. LevelOf(d, a) = <<F, k>>
  BY <1>1 DEF LevelOf
<1> HIDE DEF u, Z, D, t, p, q, s
<1>6. /\ Len(s) \in Nat /\ DOMAIN s = 1 .. Len(s) /\ \A j \in 1 .. Len(s) : s[j] \in D
      /\ DOMAIN F = 1 .. Len(s) /\ Len(F) = Len(s) /\ \A j \in 1 .. Len(s) : F[j] = FoldElementSelectors(d, s[j])
  BY <1>1
<1> HIDE DEF F
<1>7. Seen(F) = P
  <2>1. \A j \in 1 .. Len(s) : KindOf(F[j]) = t[s[j]].kind
    BY <1>4, <1>6 DEF KindOf
  <2>2. \A j \in 1 .. Len(s) : s[j] \in NT <=> t[s[j]].kind # "template"
    BY <1>6 DEF NotTemplates, D
  <2>3. {j \in 1 .. Len(F) : KindOf(F[j]) # "template"} = {j \in 1 .. Len(s) : s[j] \in NT}
    BY <1>6, <2>1, <2>2
  <2> HIDE DEF NT
  <2>4. QED
    BY <1>6, <2>3 DEF Seen, Spots
<1> HIDE DEF NT
<1>8. /\ P \in Seq(Nat) /\ Len(q) = Len(P)
      /\ \A i \in 1 .. Len(P) : P[i] \in 1 .. Len(s) /\ q[i] = s[P[i]]
  BY <1>1, SpotsFacts DEF SpotsRight
<1>9. IsInjective(P)
  <2> DEFINE ids == [j \in 1 .. Len(s) |-> j]
             K == {j \in 1 .. Len(s) : s[j] \in NT}
  <2>1. ids \in Seq(Nat) /\ IsInjective(ids)
    BY <1>6 DEF IsInjective
  <2>2. P = Kept(ids, K)
    BY DEF Spots
  <2> HIDE DEF ids, K, P
  <2>3. QED
    BY <2>1, <2>2, KeptApart
<1> HIDE DEF P
<1>10. IndexOf(q, a) = IndexOf(P, k)
  <2>1. PICK i \in DOMAIN q : q[i] = a
    BY <1>1 DEF ToSet
  <2>2. PICK j \in DOMAIN s : s[j] = a
    BY <1>1 DEF ToSet
  <2>3. k = j
    BY <1>1, <2>2, IndexFacts
  <2>4. i \in DOMAIN P /\ P[i] \in DOMAIN s /\ s[P[i]] = a
    BY <1>1, <1>6, <1>8, <2>1
  <2>5. P[i] = k
    BY <1>1, <2>2, <2>3, <2>4 DEF IsInjective
  <2>6. IsInjective(q)
    BY <1>1, KeptApart
  <2>7. IndexOf(q, a) = i
    BY <2>1, <2>6, IndexFacts
  <2>8. IndexOf(P, k) = i
    BY <1>9, <2>4, <2>5, IndexFacts
  <2>9. QED
    BY <2>7, <2>8
<1>11. [j \in DOMAIN q |-> SelectorOf(u, q[j])] = [j \in DOMAIN P |-> F[P[j]][1]]
  <2>1. DOMAIN q = DOMAIN P /\ DOMAIN P = 1 .. Len(P) /\ \A j \in DOMAIN q : q[j] \in Z
    BY <1>1, <1>8
  <2>2. ASSUME NEW j \in DOMAIN P PROVE SelectorOf(u, q[j]) = F[P[j]][1]
    <3>1. q[j] = s[P[j]] /\ F[P[j]] = FoldElementSelectors(d, s[P[j]]) /\ q[j] \in Z
      BY <1>6, <1>8, <2>1
    <3>2. QED
      BY <1>3, <1>4, <3>1
  <2>3. QED
    BY <2>1, <2>2
<1>12. SelectorOf(u, a) = Folds(d, a)
  BY <1>3 DEF Z
<1>13. ViewRow(u, a) = <<Folds(d, a), t[a].style, IndexOf(P, k), [j \in DOMAIN P |-> F[P[j]][1]]>>
  BY <1>2, <1>10, <1>11, <1>12 DEF ViewRow, q
<1>14. TellRow(FreshRow(d, a)) = <<Folds(d, a), t[a].style, IndexOf(P, k), [j \in DOMAIN P |-> F[P[j]][1]]>>
  <2> DEFINE row == FreshRow(d, a)
  <2>1. row[1][1] = Folds(d, a) /\ row[2] = t[a].style /\ row[3] = <<F, k>>
    BY <1>4, <1>5 DEF FreshRow, t
  <2> HIDE DEF row, k
  <2>2. row[3][1] = F /\ row[3][2] = k
    BY <2>1
  <2>3. TellRow(row) = <<row[1][1], row[2], IndexOf(Seen(row[3][1]), row[3][2]),
                         [j \in DOMAIN Seen(row[3][1]) |-> row[3][1][Seen(row[3][1])[j]][1]]>>
    BY Zenon DEF TellRow
  <2>4. TellRow(row) = <<row[1][1], row[2], IndexOf(P, k), [j \in DOMAIN P |-> F[P[j]][1]]>>
    BY <1>7, <2>2, <2>3, Zenon
  <2>5. QED
    BY <2>1, <2>4 DEF row
<1>15. QED
  BY <1>13, <1>14 DEF u

\* The levels that are remembered, unless some are early, are those of
\* documents that looked like this one.
Looks(d, f) == Whole(f) /\ f.sens = SelectsMark(f) /\ LayoutView(f) = LayoutView(d)
Memoed(d, mem) ==
  ~mem.early => \A p \in DOMAIN mem.levels :
    d.sens = SelectsMark(d) /\ \E f : Looks(d, f) /\ mem.levels[p] = LevelContext(f, p)

LEMMA ContextOfLevel ==
  ASSUME NEW d, Whole(d), NEW a \in Shown(d), d.tree[a].kind \in Elements, NEW p, p = d.tree[a].up
  PROVE  /\ p # 0 /\ a \in DOMAIN LevelContext(d, p)
         /\ LevelContext(d, p)[a] = LevelOf(d, a)
<1> DEFINE level == ElementKids(d.tree, p)
<1>1. p \in Shown(d) /\ a \in ToSet(level)
  BY LevelFacts
<1>2. 0 \notin Shown(d)
  BY ShownFacts DEF Whole, Tree, Joined
<1>3. QED
  BY <1>1, <1>2 DEF LevelContext, LevelOf

LEMMA RememberedRowIsTold ==
  ASSUME NEW d, Whole(d), d.sens = SelectsMark(d), NEW a \in Shown(d), d.tree[a].kind \in Elements,
         NEW mem, Memoed(d, mem), ~mem.early
  PROVE  ViewRow(LayoutView(d), a) = TellRow(DigestRow(d, mem, a))
<1> DEFINE p == d.tree[a].up
           u == LayoutView(d)
           row == DigestRow(d, mem, a)
<1>1. ViewRow(u, a) = TellRow(FreshRow(d, a))
  BY RowIsTold
<1>2. p # 0 /\ a \in DOMAIN LevelContext(d, p) /\ LevelContext(d, p)[a] = LevelOf(d, a)
  BY ContextOfLevel
<1>3. CASE p \notin DOMAIN mem.levels
  <2>1. LevelContextFor(d, mem, a) = LevelOf(d, a)
    BY <1>2, <1>3 DEF LevelContextFor
  <2>2. row = FreshRow(d, a)
    BY <2>1 DEF DigestRow, FreshRow
  <2>3. QED
    BY <1>1, <2>2
<1>4. CASE p \in DOMAIN mem.levels
  <2>1. PICK f : Looks(d, f) /\ mem.levels[p] = LevelContext(f, p)
    BY <1>4 DEF Memoed
  <2>2. a \in Shown(f) /\ f.tree[a].up = p /\ f.tree[a].kind \in Elements
    <3>1. /\ DOMAIN u = Shown(d) /\ DOMAIN LayoutView(f) = Shown(f) /\ u = LayoutView(f)
          /\ u[a].up = p /\ u[a].kind = d.tree[a].kind
      BY <2>1, ViewFacts DEF Looks, Whole
    <3>2. a \in Shown(f)
      BY <3>1
    <3>3. LayoutView(f)[a].up = f.tree[a].up /\ LayoutView(f)[a].kind = f.tree[a].kind
      BY <2>1, <3>2, ViewFacts DEF Looks, Whole
    <3>4. QED
      BY <3>1, <3>2, <3>3
  <2>3. a \in DOMAIN LevelContext(f, p) /\ LevelContext(f, p)[a] = LevelOf(f, a)
    BY <2>1, <2>2, ContextOfLevel DEF Looks
  <2>4. LevelContextFor(d, mem, a) = LevelOf(f, a)
    BY <1>2, <1>4, <2>1, <2>3 DEF LevelContextFor
  <2>5. ViewRow(u, a) = TellRow(FreshRow(f, a))
    BY <2>1, <2>2, RowIsTold DEF Looks
  <2> DEFINE mine == FreshRow(d, a)
             other == FreshRow(f, a)
             I(x) == IndexOf(Seen(x[1]), x[2])
             L(x) == [j \in DOMAIN Seen(x[1]) |-> x[1][Seen(x[1])[j]][1]]
  <2>6. \A x : TellRow(x) = <<x[1][1], x[2], I(x[3]), L(x[3])>>
    BY Zenon DEF TellRow
  <2>7. row[1] = mine[1] /\ row[2] = mine[2] /\ row[3] = other[3]
    BY <2>4 DEF DigestRow, FreshRow
  <2> HIDE DEF row, mine, other, I, L
  <2>8. /\ TellRow(mine) = <<mine[1][1], mine[2], I(mine[3]), L(mine[3])>>
        /\ TellRow(other) = <<other[1][1], other[2], I(other[3]), L(other[3])>>
        /\ TellRow(row) = <<row[1][1], row[2], I(row[3]), L(row[3])>>
    BY <2>6
  <2>9. TellRow(mine) = TellRow(other)
    BY <1>1, <2>5 DEF mine, other
  <2>10. /\ TellRow(row)[1] = TellRow(mine)[1] /\ TellRow(row)[2] = TellRow(mine)[2]
         /\ I(row[3]) = I(other[3]) /\ L(row[3]) = L(other[3])
    BY <2>7, <2>8
  <2>11. row[1][1] = mine[1][1] /\ row[2] = mine[2] /\ I(row[3]) = I(mine[3]) /\ L(row[3]) = L(mine[3])
    BY <2>7, <2>8, <2>9, <2>10
  <2>12. TellRow(row) = TellRow(mine)
    BY <2>8, <2>11
  <2>13. QED
    BY <1>1, <2>12 DEF row, mine
<1>5. QED
  BY <1>3, <1>4

\* What the cascade makes of a digest and the texts of the stylesheets.
Told(digest, texts) ==
  LET rows == digest[3] IN
  IF \E i \in DOMAIN rows : KindOf(rows[i][1]) = "template" THEN None
  ELSE <<texts, digest[2], [i \in DOMAIN rows |-> TellRow(rows[i])]>>

Elems(t, n) == Kept(Chain(t, n), ElementsOf(t))

LEMMA DigestShape ==
  ASSUME NEW d, NEW mem, NEW n, NEW vp
  PROVE  LayoutInputDigest(d, mem, n, vp)
           = <<d.sheets, vp, [i \in DOMAIN Elems(d.tree, n) |-> DigestRow(d, mem, Elems(d.tree, n)[i])]>>
BY Zenon DEF LayoutInputDigest, Elems, DigestRow

LEMMA CascadeShape ==
  ASSUME NEW view, NEW n \in DOMAIN view, NEW vp
  PROVE  Cascade(view, n, vp)
           = <<{view[m].val : m \in {k \in DOMAIN view : view[k].kind = "text"
                                        /\ \E a \in ToSet(Chain(view, k)) : view[a].kind = "style"}},
               vp, [i \in DOMAIN Elems(view, n) |-> ViewRow(view, Elems(view, n)[i])]>>
<1> DEFINE chain == Elems(view, n)
           texts == {view[m].val : m \in {k \in DOMAIN view : view[k].kind = "text"
                                        /\ \E a \in ToSet(Chain(view, k)) : view[a].kind = "style"}}
           Level(m) == ElementKids(view, view[m].up)
           levels == [i \in DOMAIN chain |-> Level(chain[i])]
           Row(i) == <<<<view[chain[i]].kind, view[chain[i]].mark>>, view[chain[i]].style,
                       IndexOf(levels[i], chain[i]),
                       [j \in DOMAIN levels[i] |-> <<view[levels[i][j]].kind, view[levels[i][j]].mark>>]>>
<1>1. Cascade(view, n, vp) = <<texts, vp, [i \in DOMAIN chain |-> Row(i)]>>
  BY Zenon DEF Cascade, Elems
<1>2. ASSUME NEW i \in DOMAIN chain PROVE Row(i) = ViewRow(view, chain[i])
  <2>1. levels[i] = Level(chain[i])
    BY <1>2, Zenon
  <2>2. QED
    BY <2>1, Zenon DEF ViewRow, SelectorOf
<1> HIDE DEF texts, chain, Row
<1>3. [i \in DOMAIN chain |-> Row(i)] = [i \in DOMAIN chain |-> ViewRow(view, chain[i])]
  BY <1>2, Zenon
<1>4. Cascade(view, n, vp) = <<texts, vp, [i \in DOMAIN chain |-> ViewRow(view, chain[i])]>>
  BY <1>1, <1>3, Zenon
<1>5. QED
  BY <1>4 DEF texts, chain

LEMMA ViewTextFacts ==
  ASSUME NEW d, Whole(d), NEW view, view = LayoutView(d)
  PROVE  {view[m].val : m \in {k \in DOMAIN view : view[k].kind = "text"
                                 /\ \E a \in ToSet(Chain(view, k)) : view[a].kind = "style"}}
           = ViewTexts(d)
<1> DEFINE t == d.tree
           Z == Shown(d)
           K == {k \in DOMAIN view : view[k].kind = "text"
                                 /\ \E a \in ToSet(Chain(view, k)) : view[a].kind = "style"}
<1>1. /\ Tree(t) /\ DOMAIN view = Z /\ Z \subseteq DOMAIN t
      /\ \A m \in Z : view[m].kind = t[m].kind /\ view[m].val = t[m].val
  BY ViewFacts, ShownFacts DEF Whole
<1>2. \A m \in Z : ToSet(Chain(view, m)) = Above(t, m) /\ Above(t, m) \subseteq Z
  BY ViewChains DEF Above
<1>3. \A m \in Z : IsConnected(d, m)
  BY <1>1, ShownFacts
<1>4. ASSUME NEW m \in Z PROVE m \in K <=> m \in Sheets(d)
  <2>1. (\E a \in ToSet(Chain(view, m)) : view[a].kind = "style") <=> (\E a \in Above(t, m) : t[a].kind = "style")
    BY <1>1, <1>2
  <2>2. (\E a \in Above(t, m) : t[a].kind = "style") <=> t[m].kind = "style" \/ TextIn(t, m, {"style"})
    BY <1>1, SheetFacts
  <2>3. TextIn(t, m, {"style"}) => t[m].kind = "text"
    BY DEF TextIn
  <2>4. m \in Sheets(d) <=> TextIn(t, m, {"style"})
    BY <1>1, <1>3 DEF Sheets
  <2>5. QED
    BY <1>1, <2>1, <2>2, <2>3, <2>4
<1>5. K = Z \cap Sheets(d)
  BY <1>1, <1>4
<1>6. {view[m].val : m \in K} = {t[m].val : m \in Z \cap Sheets(d)}
  BY <1>1, <1>5
<1>7. QED
  BY <1>6 DEF ViewTexts

\* A digest that folds what the selectors name, in the levels it remembers too,
\* tells the cascade all but the texts of the stylesheets.
LEMMA CascadeIsTold ==
  ASSUME NEW d, Whole(d), d.sens = SelectsMark(d), NEW n \in InDocument(d), NEW vp,
         NEW mem, Memoed(d, mem), ~mem.early
  PROVE  Cascade(LayoutView(d), n, vp) = Told(LayoutInputDigest(d, mem, n, vp), ViewTexts(d))
<1> DEFINE t == d.tree
           u == LayoutView(d)
           Z == Shown(d)
           c == Elems(t, n)
           rows == [i \in DOMAIN c |-> DigestRow(d, mem, c[i])]
           g == LayoutInputDigest(d, mem, n, vp)
<1>1. /\ Tree(t) /\ n \in DOMAIN t /\ t[n].kind \in Elements /\ IsConnected(d, n)
      /\ DOMAIN u = Z /\ Z \subseteq DOMAIN t /\ \A m \in Z : u[m].kind = t[m].kind
  BY ViewFacts, ShownFacts DEF Whole, InDocument
<1>2. g[2] = vp /\ g[3] = rows
  <2> HIDE DEF rows
  <2>1. g = <<d.sheets, vp, rows>>
    BY DigestShape DEF rows
  <2>2. QED
    BY <2>1
<1>3. c \in Seq(DOMAIN t) /\ ToSet(c) = Above(t, n) \cap ElementsOf(t)
  <2> DEFINE s == Chain(t, n)
             E == ElementsOf(t)
             D == DOMAIN t
  <2>1. s \in Seq(D)
    BY <1>1, ChainUnfolds
  <2>2. c = Kept(s, E) /\ Above(t, n) = ToSet(s)
    BY DEF Elems, Above
  <2> HIDE DEF s, E, D, c
  <2>3. c \in Seq(D) /\ ToSet(c) = ToSet(s) \cap E
    BY <2>1, <2>2, KeptFacts
  <2>4. QED
    BY <2>2, <2>3 DEF E, D
<1>4. \A i \in DOMAIN c : c[i] \in ToSet(c) /\ c[i] \in DOMAIN t /\ t[c[i]].kind \in Elements
  <2>1. \A i \in DOMAIN c : c[i] \in ToSet(c)
    BY DEF ToSet
  <2>2. QED
    BY <1>3, <2>1 DEF ElementsOf
<1>5. \A i \in DOMAIN c : KindOf(rows[i][1]) = t[c[i]].kind
  <2>1. \A m : KindOf(DigestRow(d, mem, m)[1]) = t[m].kind
    BY DEF DigestRow, FoldElementSelectors, Folds, KindOf
  <2>2. QED
    BY <2>1
<1> HIDE DEF t, u, Z, c, rows, g
<1>6. CASE n \notin Z
  <2>1. PICK a \in Above(t, n) : t[a].kind = "template"
    <3>1. t[n].kind # "comment" /\ ~TextIn(t, n, {"head", "script"})
      BY <1>1 DEF TextIn, Elements
    <3>2. QED
      BY <1>1, <1>6, <3>1, ShownFacts DEF t, Z
  <2>2. a \in ToSet(c)
    <3>1. a \in DOMAIN t
      BY <1>1, AboveFacts
    <3>2. QED
      BY <1>3, <2>1, <3>1 DEF ElementsOf, Elements
  <2>3. PICK i \in DOMAIN c : c[i] = a
    BY <2>2 DEF ToSet
  <2>4. i \in DOMAIN rows /\ KindOf(rows[i][1]) = "template"
    BY <1>5, <2>1, <2>3 DEF rows
  <2>5. Told(g, ViewTexts(d)) = None
    BY <1>2, <2>4 DEF Told
  <2>6. Cascade(u, n, vp) = None
    BY <1>1, <1>6 DEF Cascade
  <2>7. QED
    BY <2>5, <2>6 DEF u, g
<1>7. CASE n \in Z
  <2>1. Above(t, n) \subseteq Z /\ Chain(u, n) = Chain(t, n)
    BY <1>7, ViewChains DEF u, t, Z
  <2>2. \A a \in Above(t, n) : t[a].kind # "template"
    BY <1>1, <1>7, ShownFacts DEF t, Z
  <2>3. \A i \in DOMAIN c : c[i] \in Z /\ t[c[i]].kind # "template"
    BY <1>3, <1>4, <2>1, <2>2
  <2>4. Elems(u, n) = c
    <3> DEFINE s == Chain(t, n)
               A == ElementsOf(u)
               B == ElementsOf(t)
               D == DOMAIN t
    <3>1. s \in Seq(D) /\ ToSet(s) \subseteq Z
      BY <1>1, <2>1, ChainUnfolds DEF Above
    <3>2. ToSet(s) \cap A = ToSet(s) \cap B
      <4>1. A = {m \in Z : t[m].kind \in Elements}
        BY <1>1 DEF ElementsOf
      <4>2. QED
        BY <1>1, <3>1, <4>1 DEF ElementsOf
    <3>3. Elems(u, n) = Kept(s, A) /\ c = Kept(s, B)
      BY <2>1 DEF Elems, c
    <3> HIDE DEF s, A, B, D
    <3>4. Kept(s, A) = Kept(s, B)
      BY <3>1, <3>2, KeptSame
    <3>5. QED
      BY <3>3, <3>4
  <2>5. [i \in DOMAIN c |-> ViewRow(u, c[i])] = [i \in DOMAIN rows |-> TellRow(rows[i])]
    <3>1. DOMAIN rows = DOMAIN c /\ \A i \in DOMAIN c : rows[i] = DigestRow(d, mem, c[i])
      BY DEF rows
    <3>2. ASSUME NEW i \in DOMAIN c PROVE ViewRow(u, c[i]) = TellRow(rows[i])
      <4> DEFINE a == c[i]
      <4>1. a \in Shown(d) /\ d.tree[a].kind \in Elements
        BY <1>4, <2>3 DEF Z, t
      <4> HIDE DEF a
      <4>2. ViewRow(LayoutView(d), a) = TellRow(DigestRow(d, mem, a))
        BY <4>1, RememberedRowIsTold
      <4>3. QED
        BY <3>1, <4>2 DEF a, u
    <3>3. QED
      BY <3>1, <3>2
  <2>6. Cascade(u, n, vp) = <<ViewTexts(d), vp, [i \in DOMAIN c |-> ViewRow(u, c[i])]>>
    <3> DEFINE texts == {u[m].val : m \in {k \in DOMAIN u : u[k].kind = "text"
                                 /\ \E a \in ToSet(Chain(u, k)) : u[a].kind = "style"}}
    <3>1. Cascade(u, n, vp) = <<texts, vp, [i \in DOMAIN c |-> ViewRow(u, c[i])]>>
      BY <1>1, <1>7, <2>4, CascadeShape
    <3>2. texts = ViewTexts(d)
      BY ViewTextFacts DEF u
    <3>3. QED
      BY <3>1, <3>2
  <2>7. Told(g, ViewTexts(d)) = <<ViewTexts(d), vp, [i \in DOMAIN rows |-> TellRow(rows[i])]>>
    <3>1. ~\E i \in DOMAIN rows : KindOf(rows[i][1]) = "template"
      BY <1>5, <2>3 DEF rows
    <3>2. QED
      BY <1>2, <3>1, Zenon DEF Told
  <2>8. QED
    BY <2>5, <2>6, <2>7 DEF u, g
<1>8. QED
  BY <1>6, <1>7

-----------------------------------------------------------------------------
(* What the stylesheets say changes with their generation.                 *)

\* The trees are alike outside X, and no text of a stylesheet is in it.
Apart(t, u, X) ==
  /\ DOMAIN u \ X = DOMAIN t \ X
  /\ \A m \in DOMAIN t \ X : /\ u[m].kind = t[m].kind /\ u[m].val = t[m].val /\ u[m].up = t[m].up
                             /\ t[m].up \notin X
  /\ \A m \in X : /\ m \in DOMAIN t => ~TextIn(t, m, {"style"})
                  /\ m \in DOMAIN u => ~TextIn(u, m, {"style"})

LEMMA ApartTexts ==
  ASSUME NEW d, NEW e, Whole(d), Whole(e), e.root = d.root, NEW X, Apart(d.tree, e.tree, X)
  PROVE  ViewTexts(e) = ViewTexts(d) /\ (SelectsMark(e) <=> SelectsMark(d))
<1> DEFINE t == d.tree
           u == e.tree
           D == DOMAIN t \ X
<1>1. /\ Tree(t) /\ Tree(u) /\ DOMAIN u \ X = D
      /\ \A m \in D : /\ m \in DOMAIN t /\ m \in DOMAIN u /\ m \notin X /\ u[m].kind = t[m].kind
                      /\ u[m].val = t[m].val /\ u[m].up = t[m].up /\ t[m].up \notin X
      /\ \A m \in X : /\ m \in DOMAIN t => ~TextIn(t, m, {"style"})
                      /\ m \in DOMAIN u => ~TextIn(u, m, {"style"})
  BY DEF Apart, Whole
<1>2. \A m \in D : Above(u, m) = Above(t, m) /\ Above(t, m) \cap X = {}
  <2> HIDE DEF t, u
  <2>1. \A m \in DOMAIN t \ X : m \in DOMAIN u /\ u[m].up = t[m].up /\ t[m].up \notin X
    BY <1>1
  <2>2. QED
    BY <1>1, <2>1, SameAbove
<1>3. \A m \in D : Above(t, m) \subseteq D /\ t[m].up \in D \cup {0}
  <2>1. \A m \in DOMAIN t : Above(t, m) \subseteq DOMAIN t /\ t[m].up \in DOMAIN t \cup {0}
    BY <1>1, AboveFacts DEF Tree, Joined
  <2>2. QED
    BY <1>1, <1>2, <2>1
<1>4. \A m \in D : (IsConnected(e, m) <=> IsConnected(d, m))
  <2>1. \A m \in D : (d.root \in Above(u, m)) <=> (d.root \in Above(t, m))
    BY <1>2
  <2>2. QED
    BY <1>1, <2>1, ConnectedFacts
<1>5. \A m \in D : \A kinds : TextIn(u, m, kinds) <=> TextIn(t, m, kinds)
  BY <1>1, <1>3 DEF TextIn
<1>6. Sheets(d) \subseteq D /\ Sheets(e) \subseteq D
  BY <1>1 DEF Sheets
<1>7. Sheets(e) = Sheets(d)
  <2>1. \A m \in D : m \in Sheets(e) <=> m \in Sheets(d)
    BY <1>1, <1>4, <1>5 DEF Sheets
  <2>2. QED
    BY <1>6, <2>1
<1>8. SheetTexts(e) = SheetTexts(d)
  <2>1. {u[m].val : m \in Sheets(e)} = {t[m].val : m \in Sheets(d)}
    BY <1>1, <1>6, <1>7
  <2>2. QED
    BY <1>1, <2>1, SheetTextFacts
<1>9. \A m \in D : m \in Shown(e) <=> m \in Shown(d)
  <2>1. \A m \in D : (\A a \in Above(u, m) : u[a].kind # "template") <=> (\A a \in Above(t, m) : t[a].kind # "template")
    BY <1>1, <1>2, <1>3
  <2>2. QED
    BY <1>1, <1>4, <1>5, <2>1, ShownFacts
<1>10. Shown(e) \cap Sheets(e) = Shown(d) \cap Sheets(d)
  BY <1>6, <1>7, <1>9
<1>11. ViewTexts(e) = ViewTexts(d)
  <2>1. \A m \in Shown(d) \cap Sheets(d) : u[m].val = t[m].val
    BY <1>1, <1>6
  <2> DEFINE S == Shown(d) \cap Sheets(d)
  <2>2. ViewTexts(e) = {u[m].val : m \in S} /\ ViewTexts(d) = {t[m].val : m \in S}
    BY <1>10 DEF ViewTexts
  <2> HIDE DEF S, t, u
  <2>3. QED
    BY <2>1, <2>2 DEF S
<1>12. QED
  BY <1>8, <1>11 DEF SelectsMark

\* Nodes C are moved and N are new; neither they nor what hangs below them is
\* in a stylesheet, before or after.
LEMMA MovedApart ==
  ASSUME NEW t, Tree(t), NEW u, Tree(u), NEW C, NEW N, DOMAIN u = DOMAIN t \cup N, N \cap DOMAIN t = {},
         \A m \in DOMAIN t : /\ u[m].kind = t[m].kind /\ u[m].val = t[m].val
                             /\ m \notin C => u[m].up = t[m].up,
         \A c \in C : c \in DOMAIN t /\ ~MutationAffectsStylesheets(t, c) /\ ~TextIn(u, c, {"style"}),
         \A x \in N : ~TextIn(u, x, {"style"})
  PROVE  \E X : Apart(t, u, X)
<1> DEFINE B == {m \in DOMAIN t : \E c \in C : c \in Above(t, m)}
           X == B \cup N
<1>1. 0 \notin DOMAIN t /\ 0 \notin DOMAIN u /\ \A m \in DOMAIN t : t[m].up \in DOMAIN t \cup {0}
  BY DEF Tree, Joined
<1>2. \A m \in DOMAIN t : /\ Above(t, m) = {m} \cup (IF t[m].up = 0 THEN {} ELSE Above(t, t[m].up))
                          /\ Above(t, m) \subseteq DOMAIN t
  BY AboveFacts
<1>3. \A c \in C : /\ \A a \in Above(t, c) : t[a].kind # "style"
                   /\ \A m \in DOMAIN t : c \in Above(t, m) => t[m].kind # "style"
  <2>1. \A c \in C : Subtree(t, c) = {m \in DOMAIN t : c \in Above(t, m)}
    BY SubtreeFacts
  <2>2. QED
    BY <2>1 DEF MutationAffectsStylesheets, Above
<1>4. ASSUME NEW m \in DOMAIN t \ X
      PROVE  u[m].kind = t[m].kind /\ u[m].val = t[m].val /\ u[m].up = t[m].up /\ t[m].up \notin X
  <2>1. m \notin C
    BY <1>2, <1>4
  <2>2. t[m].up \notin B
    BY <1>1, <1>2, <1>4
  <2>3. t[m].up \notin N
    BY <1>1
  <2>4. QED
    BY <2>1, <2>2, <2>3
<1>5. ASSUME NEW m \in B PROVE ~TextIn(t, m, {"style"}) /\ ~TextIn(u, m, {"style"})
  <2>1. PICK c \in C : c \in Above(t, m)
    OBVIOUS
  <2>2. ASSUME TextIn(t, m, {"style"}) PROVE FALSE
    <3> DEFINE p == t[m].up
    <3>1. p \in DOMAIN t /\ t[p].kind = "style" /\ Above(t, m) = {m} \cup Above(t, p) /\ p \in Above(t, p)
      BY <1>1, <1>2, <2>2 DEF TextIn
    <3>2. CASE c = m
      BY <1>3, <3>1, <3>2
    <3>3. CASE c # m
      BY <1>3, <2>1, <3>1, <3>3
    <3>4. QED
      BY <3>2, <3>3
  <2>3. ASSUME TextIn(u, m, {"style"}) PROVE FALSE
    <3>1. m \notin C
      BY <2>3
    <3>2. u[m].up = t[m].up /\ u[m].kind = t[m].kind
      BY <3>1
    <3>3. TextIn(t, m, {"style"})
      BY <1>1, <2>3, <3>2 DEF TextIn
    <3>4. QED
      BY <2>2, <3>3
  <2>4. QED
    BY <2>2, <2>3
<1>6. DOMAIN u \ X = DOMAIN t \ X
  OBVIOUS
<1>7. Apart(t, u, X)
  BY <1>4, <1>5, <1>6 DEF Apart
<1>8. QED
  BY <1>7

\* Until the generation moves, what the sheets say does not.
Sheeted(d, e) ==
  /\ e.sheets \in Nat /\ e.sheets >= d.sheets
  /\ e.sheets = d.sheets /\ d.sens = SelectsMark(d) =>
       e.sens = SelectsMark(e) /\ ViewTexts(e) = ViewTexts(d)
\* Whatever was near d is near e.
Nears(d, e) == Whole(e) /\ \A s : Near(d, s) => Near(e, s)

\* The styled document of d, had it just been built.
AsBuilt(d) == [valid |-> TRUE, laidOut |-> FALSE, view |-> LayoutView(d), version |-> d.layout,
               viewport |-> 0, mode |-> "none", corrected |-> FALSE]

LEMMA AsBuiltIsNear ==
  ASSUME NEW d, Whole(d), d.sens = SelectsMark(d)
  PROVE  Near(d, AsBuilt(d))
<1> DEFINE s == AsBuilt(d)
           now == LayoutView(d)
<1>1. s.version = d.layout /\ s.view = now /\ d.layout \in Nat /\ DOMAIN s = StyledFields
  BY DEF StyledFields, AsBuilt, Whole, Sound, Journaled
<1>2. \A m \in DOMAIN now : IsNode(now[m])
  BY ViewFacts DEF Whole
<1>3. now = [m \in DOMAIN now |-> now[m]]
  BY DEF LayoutView
<1> HIDE DEF s, now
<1>4. \A m \in DOMAIN now : now[m] = Restyled(now[m], now[m].style)
  BY <1>2, RestyledFacts
<1>5. [m \in DOMAIN now |-> now[m]] = [m \in DOMAIN now |-> Restyled(now[m], now[m].style)]
  BY <1>4
<1>6. now = [m \in DOMAIN now |-> Restyled(now[m], now[m].style)]
  BY <1>3, <1>5, Zenon
<1>7. \A touched : Shows(d, s.view, touched)
  BY <1>1, <1>6 DEF Shows, now
<1>8. QED
  BY <1>1, <1>7 DEF Near, s

\* A document of the same version says what it said.
LEMMA SaysSame ==
  ASSUME NEW d, Whole(d), d.sens = SelectsMark(d), NEW e, Whole(e), Near(e, AsBuilt(d)),
         e.layout = d.layout
  PROVE  LayoutView(e) = LayoutView(d) /\ e.sens = SelectsMark(e) /\ ViewTexts(e) = ViewTexts(d)
<1> DEFINE s == AsBuilt(d)
<1>1. s.version = e.layout /\ s.view = LayoutView(d) /\ s.valid
  BY DEF AsBuilt
<1>2. Near(e, s) /\ Whole(e)
  OBVIOUS
<1> HIDE DEF s
<1>3. LayoutView(e) = LayoutView(d)
  BY <1>1, <1>2, NearIsFresh DEF Whole
<1>4. e.sens = SelectsMark(e)
  <2>1. OnlyInline(e, s.version)
    BY <1>1, <1>2, JournalFacts DEF OnlyInline, Whole, Sound, Journaled
  <2>2. QED
    BY <1>1, <1>2, <2>1 DEF Near, Shows
<1>5. ViewTexts(e) = ViewTexts(d)
  <2> DEFINE view == LayoutView(d)
             K == {view[m].val : m \in {k \in DOMAIN view : view[k].kind = "text"
                                 /\ \E a \in ToSet(Chain(view, k)) : view[a].kind = "style"}}
  <2>1. view = LayoutView(d) /\ view = LayoutView(e)
    BY <1>3
  <2> HIDE DEF view
  <2>2. K = ViewTexts(d)
    BY <2>1, ViewTextFacts
  <2>3. K = ViewTexts(e)
    BY <1>2, <2>1, ViewTextFacts
  <2>4. QED
    BY <2>2, <2>3
<1>6. QED
  BY <1>3, <1>4, <1>5

LEMMA NearsSame ==
  ASSUME NEW d, Whole(d), d.sens = SelectsMark(d), NEW e, Nears(d, e), e.layout = d.layout
  PROVE  LayoutView(e) = LayoutView(d) /\ e.sens = SelectsMark(e) /\ ViewTexts(e) = ViewTexts(d)
BY AsBuiltIsNear, SaysSame DEF Nears

LEMMA MarkedSheets ==
  ASSUME NEW d, Whole(d), d.sheets \in Nat, NEW f, Redone(d, f), f.sheets = d.sheets,
         NEW affects \in BOOLEAN, NEW n, NEW sheets, NEW inline, NEW rebuild,
         NEW e, e = MarkMutated(f, affects, n, sheets, inline, rebuild), Nears(d, e),
         affects => sheets \/ \E X : Apart(d.tree, f.tree, X)
  PROVE  Sheeted(d, e)
<1>1. Sound(f) /\ f.layout = d.layout /\ f.sens = d.sens /\ f.root = d.root
  BY EditIsSound DEF Redone, Edits, Whole
<1>2. Marked(f, e, affects, n, sheets, inline)
  BY <1>1, MarkFacts
<1>3. e.tree = f.tree /\ e.root = d.root /\ e.sens = d.sens /\ Whole(e)
  BY <1>1, <1>2 DEF Marked, Nears
<1>4. CASE ~affects
  <2>1. e.sheets = d.sheets /\ e.layout = d.layout
    BY <1>1, <1>2, <1>4 DEF Marked
  <2>2. QED
    BY <2>1, NearsSame DEF Sheeted
<1>5. CASE affects /\ sheets
  <2>1. e.sheets = d.sheets + 1
    BY <1>2, <1>5 DEF Marked
  <2>2. QED
    BY <2>1 DEF Sheeted
<1>6. CASE affects /\ ~sheets
  <2>1. e.sheets = d.sheets
    BY <1>2, <1>6 DEF Marked
  <2>2. PICK X : Apart(d.tree, e.tree, X)
    BY <1>3, <1>6
  <2>3. ViewTexts(e) = ViewTexts(d) /\ (SelectsMark(e) <=> SelectsMark(d))
    BY <1>3, <2>2, ApartTexts
  <2>4. SelectsMark(e) = SelectsMark(d)
    BY <2>3 DEF SelectsMark
  <2>5. QED
    BY <1>3, <2>1, <2>3, <2>4 DEF Sheeted
<1>7. QED
  BY <1>4, <1>5, <1>6

LEMMA NearsIfKept ==
  ASSUME NEW d, NEW e, \A s : Near(d, s) => Keeps(d, e, s)
  PROVE  Nears(d, e)
<1>1. Near(d, Empty)
  BY DEF Near, Empty
<1>2. QED
  BY <1>1 DEF Nears, Keeps

LEMMA SheetedSame ==
  ASSUME NEW d, d.sheets \in Nat, NEW e, e.sheets = d.sheets, Nears(d, e), Whole(d), e.layout = d.layout
  PROVE  Sheeted(d, e)
<1>1. d.sens = SelectsMark(d) => e.sens = SelectsMark(e) /\ ViewTexts(e) = ViewTexts(d)
  BY NearsSame
<1>2. QED
  BY <1>1 DEF Sheeted

LEMMA SheetedOn ==
  ASSUME NEW d, NEW e, NEW f, d.sheets \in Nat, Sheeted(d, e), Sheeted(e, f)
  PROVE  Sheeted(d, f)
BY DEF Sheeted

\* A tree that differs in what is no text and no place.
LEMMA RetouchedApart ==
  ASSUME NEW t, NEW u, DOMAIN u = DOMAIN t,
         \A m \in DOMAIN t : u[m].kind = t[m].kind /\ u[m].val = t[m].val /\ u[m].up = t[m].up
  PROVE  \E X : Apart(t, u, X)
<1>1. Apart(t, u, {})
  BY DEF Apart
<1>2. QED
  BY <1>1

LEMMA SetMarkSheets ==
  ASSUME NEW d, Whole(d), d.sheets \in Nat, NEW n \in DOMAIN d.tree, d.tree[n].kind \in ReadKinds, NEW v
  PROVE  Sheeted(d, SetMark(d, n, v))
<1> DEFINE t == [d.tree EXCEPT ![n].mark = v]
           f == [d EXCEPT !.tree = t]
           affects == NodeAffectsLayout(d.tree, n) /\ d.sens
           sheets == d.tree[n].kind = "style"
           inline == FALSE
           rebuild == FALSE
           e == MarkMutated(f, affects, n, sheets, inline, rebuild)
<1>1. SetMark(d, n, v) = d \/ SetMark(d, n, v) = e
  <2>1. [d EXCEPT !.tree[n].mark = v] = f
    BY DEF Whole, Sound, Fields
  <2>2. QED
    BY <2>1, Zenon DEF SetMark
<1>2. /\ DOMAIN t = DOMAIN d.tree
      /\ \A m \in DOMAIN d.tree :
           t[m].kind = d.tree[m].kind /\ t[m].up = d.tree[m].up /\ t[m].val = d.tree[m].val
  BY DEF Whole, Tree, Typed, NodeFields
<1>3. Nears(d, SetMark(d, n, v))
  BY SetMarkKeeps, NearsIfKept
<1> HIDE DEF t
<1>4. Redone(d, f) /\ f.tree = t /\ f.sheets = d.sheets
  <2>1. Redone(d, f) /\ f.tree = t
    BY <1>2, WithTree DEF Whole
  <2>2. f.sheets = d.sheets
    BY DEF Whole, Sound, Fields
  <2>3. QED
    BY <2>1, <2>2
<1> HIDE DEF f
<1>5. \E X : Apart(d.tree, f.tree, X)
  BY <1>2, <1>4, RetouchedApart
<1>6. affects \in BOOLEAN
  OBVIOUS
<1> HIDE DEF affects, sheets, inline, rebuild
<1>7. CASE SetMark(d, n, v) = e
  <2>1. Nears(d, e)
    BY <1>3, <1>7
  <2> HIDE DEF e
  <2>2. Sheeted(d, e)
    BY <1>4, <1>5, <1>6, <2>1, MarkedSheets DEF e
  <2>3. QED
    BY <1>7, <2>2
<1>8. CASE SetMark(d, n, v) = d
  BY <1>8 DEF Sheeted
<1>9. QED
  BY <1>1, <1>7, <1>8

LEMMA SetStyleSheets ==
  ASSUME NEW d, Whole(d), d.sheets \in Nat, NEW n \in DOMAIN d.tree, d.tree[n].kind \in ReadKinds, NEW v
  PROVE  Sheeted(d, SetStyle(d, n, v))
<1> DEFINE t == [d.tree EXCEPT ![n].style = v]
           f == [d EXCEPT !.tree = t]
           affects == NodeAffectsLayout(d.tree, n)
           inline == d.tree[n].kind # "style"
           sheets == d.tree[n].kind = "style"
           rebuild == 3 \in {v, d.tree[n].style}
           e == MarkMutated(f, affects, n, sheets, inline, rebuild)
<1>1. SetStyle(d, n, v) = d \/ SetStyle(d, n, v) = e
  <2>1. [d EXCEPT !.tree[n].style = v] = f
    BY DEF Whole, Sound, Fields
  <2>2. QED
    BY <2>1, Zenon DEF SetStyle
<1>2. /\ DOMAIN t = DOMAIN d.tree
      /\ \A m \in DOMAIN d.tree :
           t[m].kind = d.tree[m].kind /\ t[m].up = d.tree[m].up /\ t[m].val = d.tree[m].val
  BY DEF Whole, Tree, Typed, NodeFields
<1>3. Nears(d, SetStyle(d, n, v))
  BY SetStyleKeeps, NearsIfKept
<1> HIDE DEF t
<1>4. Redone(d, f) /\ f.tree = t /\ f.sheets = d.sheets
  <2>1. Redone(d, f) /\ f.tree = t
    BY <1>2, WithTree DEF Whole
  <2>2. f.sheets = d.sheets
    BY DEF Whole, Sound, Fields
  <2>3. QED
    BY <2>1, <2>2
<1> HIDE DEF f
<1>5. \E X : Apart(d.tree, f.tree, X)
  BY <1>2, <1>4, RetouchedApart
<1>6. affects \in BOOLEAN
  BY AffectsIsBoolean
<1> HIDE DEF affects, sheets, inline, rebuild
<1>7. CASE SetStyle(d, n, v) = e
  <2>1. Nears(d, e)
    BY <1>3, <1>7
  <2> HIDE DEF e
  <2>2. Sheeted(d, e)
    BY <1>4, <1>5, <1>6, <2>1, MarkedSheets DEF e
  <2>3. QED
    BY <1>7, <2>2
<1>8. CASE SetStyle(d, n, v) = d
  BY <1>8 DEF Sheeted
<1>9. QED
  BY <1>1, <1>7, <1>8

LEMMA RemoveChildSheets ==
  ASSUME NEW d, Whole(d), d.sheets \in Nat, NEW c \in DOMAIN d.tree, d.tree[c].up # 0,
         ~Crosses(d.tree, RemoveChild(d, c).tree, c)
  PROVE  Sheeted(d, RemoveChild(d, c))
<1> DEFINE t == d.tree
           p == t[c].up
           u == Detach(t, c)
           f == [d EXCEPT !.tree = u]
           affects == NodeAffectsLayout(t, p) /\ NodeAffectsLayout(t, c)
           sheets == MutationAffectsStylesheets(t, c)
           inline == FALSE
           rebuild == FALSE
           e == MarkMutated(f, affects, c, sheets, inline, rebuild)
<1>1. RemoveChild(d, c) = e
  BY DEF RemoveChild
<1>2. Tree(t) /\ c \in DOMAIN t /\ Sound(d)
  BY DEF Whole
<1>3. TakenOff(t, u, c)
  BY <1>2, DetachShape
<1>4. Nears(d, e)
  <2>1. \A s : Near(d, s) => Keeps(d, RemoveChild(d, c), s)
    BY RemoveChildKeeps DEF Keeps
  <2>2. QED
    BY <1>1, <2>1, NearsIfKept
<1>5. Redone(d, f) /\ f.tree = u /\ f.sheets = d.sheets
  <2> HIDE DEF t, u
  <2>1. DOMAIN u \subseteq DOMAIN d.tree
    BY <1>3 DEF TakenOff, t
  <2>2. Redone(d, f) /\ f.tree = u
    BY <1>2, <2>1, WithTree
  <2>3. f.sheets = d.sheets
    BY <1>2 DEF Sound, Fields
  <2>4. QED
    BY <2>2, <2>3
<1> HIDE DEF u, f
<1>6. affects \in BOOLEAN
  OBVIOUS
<1>7. ASSUME ~sheets PROVE \E X : Apart(t, u, X)
  <2> DEFINE C == {c}
             N == {}
  <2>1. Tree(u)
    <3> HIDE DEF t
    <3>1. QED
      BY <1>2, <1>3, TakenOffTree
  <2>2. /\ DOMAIN u = DOMAIN t \cup N /\ N \cap DOMAIN t = {}
        /\ \A m \in DOMAIN t : /\ u[m].kind = t[m].kind /\ u[m].val = t[m].val
                               /\ m \notin C => u[m].up = t[m].up
        /\ \A x \in C : x \in DOMAIN t /\ ~MutationAffectsStylesheets(t, x) /\ ~TextIn(u, x, {"style"})
        /\ \A x \in N : ~TextIn(u, x, {"style"})
    BY <1>2, <1>3, <1>7 DEF TakenOff, Like, TextIn
  <2> HIDE DEF t, C, N
  <2>3. QED
    BY <1>2, <2>1, <2>2, MovedApart
<1> HIDE DEF affects, sheets, inline, rebuild, e
<1>8. Sheeted(d, e)
  BY <1>2, <1>4, <1>5, <1>6, <1>7, MarkedSheets DEF e, t
<1>9. QED
  BY <1>1, <1>8

LEMMA PlaceChildSheets ==
  ASSUME NEW d, Whole(d), d.sheets \in Nat, NEW p \in DOMAIN d.tree, NEW c \in DOMAIN d.tree,
         May(d.tree, p, c), NEW before, before = 0 \/ before \in ToSet(d.tree[p].kids) \ {c},
         ~Crosses(d.tree, PlaceChild(d, p, c, before).tree, c)
  PROVE  Sheeted(d, PlaceChild(d, p, c, before))
<1> DEFINE t == d.tree
           u == Detach(t, c)
           at == IF before = 0 THEN Len(u[p].kids) + 1
                 ELSE CHOOSE i \in DOMAIN u[p].kids : u[p].kids[i] = before
           w == PlaceAt(u, p, c, at)
           g == [d EXCEPT !.tree = w]
           affects == NodeAffectsLayout(t, p) /\ NodeAffectsLayout(t, c)
           sheets == MutationAffectsStylesheets(g.tree, c)
           inline == FALSE
           rebuild == FALSE
           e == MarkMutated(g, affects, c, sheets, inline, rebuild)
<1>1. PlaceChild(d, p, c, before) = e
  BY DEF PlaceChild
<1>2. Tree(t) /\ p \in DOMAIN t /\ c \in DOMAIN t /\ May(t, p, c) /\ Sound(d) /\ ~Crosses(t, e.tree, c)
  BY <1>1 DEF Whole
<1>3. Nears(d, e)
  <2>1. \A s : Near(d, s) => Keeps(d, PlaceChild(d, p, c, before), s)
    BY PlaceChildKeeps DEF Keeps
  <2>2. QED
    BY <1>1, <2>1, NearsIfKept
<1>4. TakenOff(t, u, c)
  BY <1>2, DetachShape
<1> HIDE DEF u
<1>5. DOMAIN u = DOMAIN t /\ \A m \in DOMAIN t : DOMAIN u[m] = NodeFields
  BY <1>2, <1>4 DEF TakenOff, Like
<1>6. p # c
  BY <1>2, AboveFacts DEF May, MayHold, Covers, Above
<1> HIDE DEF at
<1>7. PutUnder(u, w, p, c, at)
  <2>1. p \in DOMAIN u /\ c \in DOMAIN u
    BY <1>2, <1>5
  <2>2. QED
    BY <1>5, <1>6, <2>1, PlaceShape
<1> HIDE DEF w
<1>8. /\ DOMAIN w = DOMAIN t
      /\ \A m \in DOMAIN t : w[m].kind = t[m].kind /\ w[m].val = t[m].val /\ (m # c => w[m].up = t[m].up)
  BY <1>2, <1>4, <1>7 DEF TakenOff, PutUnder, Like
<1>9. Redone(d, g) /\ g.tree = w /\ g.sheets = d.sheets
  <2>1. Redone(d, g) /\ g.tree = w
    BY <1>2, <1>8, WithTree
  <2>2. g.sheets = d.sheets
    BY <1>2 DEF Sound, Fields
  <2>3. QED
    BY <2>1, <2>2
<1> HIDE DEF g
<1>10. affects \in BOOLEAN
  OBVIOUS
<1> HIDE DEF affects, inline, rebuild
<1>11. e.tree = w /\ Tree(w)
  <2> HIDE DEF sheets
  <2>1. Sound(g)
    BY <1>2, <1>9, EditIsSound DEF Redone
  <2>2. Marked(g, e, affects, c, sheets, inline)
    BY <1>10, <2>1, MarkFacts
  <2> HIDE DEF e
  <2>3. e.tree = w
    BY <1>9, <2>2 DEF Marked
  <2>4. QED
    BY <1>3, <2>3 DEF Nears, Whole
<1> HIDE DEF e
<1>12. ASSUME ~sheets PROVE \E X : Apart(t, w, X)
  <2> DEFINE C == {c}
             N == {}
  <2>1. ~MutationAffectsStylesheets(w, c)
    BY <1>9, <1>12
  <2>2. ~MutationAffectsStylesheets(t, c)
    BY <1>2, <1>11, <2>1 DEF Crosses
  <2>3. ~TextIn(w, c, {"style"})
    <3>1. c \in DOMAIN w /\ \A a \in Above(w, c) : w[a].kind # "style"
      BY <1>2, <1>8, <2>1 DEF MutationAffectsStylesheets, Above
    <3>2. QED
      BY <1>11, <3>1, SheetFacts
  <2>4. /\ DOMAIN w = DOMAIN t \cup N /\ N \cap DOMAIN t = {}
        /\ \A m \in DOMAIN t : /\ w[m].kind = t[m].kind /\ w[m].val = t[m].val
                               /\ m \notin C => w[m].up = t[m].up
        /\ \A x \in C : x \in DOMAIN t /\ ~MutationAffectsStylesheets(t, x) /\ ~TextIn(w, x, {"style"})
        /\ \A x \in N : ~TextIn(w, x, {"style"})
    BY <1>2, <1>8, <2>2, <2>3
  <2> HIDE DEF t, C, N
  <2>5. QED
    BY <1>2, <1>11, <2>4, MovedApart
<1> HIDE DEF sheets
<1>13. Sheeted(d, e)
  BY <1>2, <1>3, <1>9, <1>10, <1>12, MarkedSheets DEF e, t
<1>14. QED
  BY <1>1, <1>13

LEMMA ReplaceChildSheets ==
  ASSUME NEW d, Whole(d), d.sheets \in Nat, NEW p \in DOMAIN d.tree, NEW c \in DOMAIN d.tree,
         May(d.tree, p, c), NEW r \in ToSet(d.tree[p].kids) \ {c},
         ~Crosses(d.tree, ReplaceChild(d, c, r).tree, c)
  PROVE  Sheeted(d, ReplaceChild(d, c, r))
<1> DEFINE t == d.tree
           u == Detach(t, c)
           at == CHOOSE i \in DOMAIN u[p].kids : u[p].kids[i] = r
           w == PlaceAt(u, p, c, at)
           x == Detach(w, r)
           h == [d EXCEPT !.tree = x]
           affects == /\ NodeAffectsLayout(t, p)
                      /\ NodeAffectsLayout(t, c) \/ NodeAffectsLayout(t, r)
           sheets == MutationAffectsStylesheets(t, r) \/ MutationAffectsStylesheets(h.tree, c)
           inline == FALSE
           rebuild == FALSE
           e == MarkMutated(h, affects, c, sheets, inline, rebuild)
<1>1. /\ Tree(t) /\ p \in DOMAIN t /\ c \in DOMAIN t /\ May(t, p, c) /\ Sound(d)
      /\ r \in ToSet(t[p].kids) /\ r # c
  BY DEF Whole
<1>2. r \in DOMAIN t /\ t[r].up = p /\ p # 0 /\ r # p
  <2>1. t[p].kids \in Seq(DOMAIN t) /\ 0 \notin DOMAIN t /\ \A k \in DOMAIN t : k \in ToSet(t[p].kids) <=> t[k].up = p
    BY <1>1 DEF Tree, Joined
  <2>2. r \in DOMAIN t
    BY <1>1, <2>1, SeqFacts
  <2>3. r # p
    BY <1>1, <2>1, <2>2, NotAboveItself
  <2>4. QED
    BY <1>1, <2>1, <2>2, <2>3
<1>3. ReplaceChild(d, c, r) = e
  BY <1>2 DEF ReplaceChild
<1>4. Nears(d, e) /\ ~Crosses(t, e.tree, c)
  <2>1. \A s : Near(d, s) => Keeps(d, ReplaceChild(d, c, r), s)
    BY ReplaceChildKeeps DEF Keeps
  <2>2. QED
    BY <1>3, <2>1, NearsIfKept
<1>5. TakenOff(t, u, c)
  BY <1>1, DetachShape
<1>6. Tree(u) /\ DOMAIN u = DOMAIN t /\ \A m \in DOMAIN t : DOMAIN u[m] = NodeFields
  <2> HIDE DEF t, u
  <2>1. Tree(u)
    BY <1>1, <1>5, TakenOffTree
  <2>2. QED
    BY <1>1, <1>5, <2>1 DEF TakenOff, Like
<1>7. p # c
  BY <1>1, AboveFacts DEF May, MayHold, Covers, Above
<1>8. at \in 1..Len(u[p].kids) + 1
  <2>1. at = Spot(u, p, r)
    BY DEF Spot
  <2>2. Spot(u, p, r) \in 1..Len(u[p].kids) + 1
    <3> HIDE DEF t, u, at
    <3>1. QED
      BY <1>1, <1>5, <1>6, SpotFacts
  <2>3. QED
    BY <2>1, <2>2
<1> HIDE DEF u, at
<1>9. PutUnder(u, w, p, c, at)
  <2>1. p \in DOMAIN u /\ c \in DOMAIN u
    BY <1>1, <1>6
  <2>2. QED
    BY <1>6, <1>7, <2>1, PlaceShape
<1> HIDE DEF w
<1>10. Tree(w)
  <2> HIDE DEF t
  <2>1. QED
    BY <1>1, <1>5, <1>8, <1>9, MovedTree
<1>11. /\ DOMAIN w = DOMAIN t
       /\ \A m \in DOMAIN t : w[m].kind = t[m].kind /\ w[m].val = t[m].val /\ (m # c => w[m].up = t[m].up)
  BY <1>1, <1>5, <1>9 DEF TakenOff, PutUnder, Like
<1>12. TakenOff(w, x, r)
  BY <1>2, <1>10, <1>11, DetachShape
<1> HIDE DEF x
<1>13. /\ DOMAIN x = DOMAIN t /\ x[r].up = 0
       /\ \A m \in DOMAIN t : x[m].kind = t[m].kind /\ x[m].val = t[m].val
                              /\ (m # c /\ m # r => x[m].up = t[m].up)
  BY <1>2, <1>11, <1>12 DEF TakenOff, Like
<1>14. Redone(d, h) /\ h.tree = x /\ h.sheets = d.sheets
  <2>1. Redone(d, h) /\ h.tree = x
    BY <1>1, <1>13, WithTree
  <2>2. h.sheets = d.sheets
    BY <1>1 DEF Sound, Fields
  <2>3. QED
    BY <2>1, <2>2
<1> HIDE DEF h
<1>15. affects \in BOOLEAN
  OBVIOUS
<1> HIDE DEF affects, inline, rebuild
<1>16. e.tree = x /\ Tree(x)
  <2> HIDE DEF sheets
  <2>1. Sound(h)
    BY <1>1, <1>14, EditIsSound DEF Redone
  <2>2. Marked(h, e, affects, c, sheets, inline)
    BY <1>15, <2>1, MarkFacts
  <2> HIDE DEF e
  <2>3. e.tree = x
    BY <1>14, <2>2 DEF Marked
  <2>4. QED
    BY <1>4, <2>3 DEF Nears, Whole
<1> HIDE DEF e
<1>17. ASSUME ~sheets PROVE \E X : Apart(t, x, X)
  <2> DEFINE C == {c, r}
             N == {}
  <2>1. ~MutationAffectsStylesheets(x, c) /\ ~MutationAffectsStylesheets(t, r)
    BY <1>14, <1>17
  <2>2. ~MutationAffectsStylesheets(t, c)
    BY <1>4, <1>16, <2>1 DEF Crosses
  <2>3. ~TextIn(x, c, {"style"})
    <3>1. c \in DOMAIN x /\ \A a \in Above(x, c) : x[a].kind # "style"
      BY <1>1, <1>13, <2>1 DEF MutationAffectsStylesheets, Above
    <3>2. QED
      BY <1>16, <3>1, SheetFacts
  <2>4. ~TextIn(x, r, {"style"})
    BY <1>13 DEF TextIn
  <2>5. /\ DOMAIN x = DOMAIN t \cup N /\ N \cap DOMAIN t = {}
        /\ \A m \in DOMAIN t : /\ x[m].kind = t[m].kind /\ x[m].val = t[m].val
                               /\ m \notin C => x[m].up = t[m].up
        /\ \A k \in C : k \in DOMAIN t /\ ~MutationAffectsStylesheets(t, k) /\ ~TextIn(x, k, {"style"})
        /\ \A k \in N : ~TextIn(x, k, {"style"})
    BY <1>1, <1>2, <1>13, <2>1, <2>2, <2>3, <2>4
  <2> HIDE DEF t, C, N
  <2>6. QED
    BY <1>1, <1>16, <2>5, MovedApart
<1> HIDE DEF sheets
<1>18. Sheeted(d, e)
  BY <1>1, <1>4, <1>14, <1>15, <1>17, MarkedSheets DEF e, t
<1>19. QED
  BY <1>3, <1>18

\* A node that no stylesheet holds is emptied, and may be given new contents.
LEMMA EmptiedApart ==
  ASSUME NEW t, Tree(t), NEW n \in DOMAIN t, ~MutationAffectsStylesheets(t, n),
         NEW u, Tree(u), NEW N, DOMAIN u = DOMAIN t \cup N, N \cap DOMAIN t = {},
         \A m \in DOMAIN t : /\ u[m].kind = t[m].kind /\ u[m].val = t[m].val
                             /\ u[m].up = IF t[m].up = n THEN 0 ELSE t[m].up,
         \A x \in N : u[x].up = n
  PROVE  \E X : Apart(t, u, X)
<1> DEFINE C == {m \in DOMAIN t : t[m].up = n}
           S == Subtree(t, n)
<1>1. /\ \A a \in Above(t, n) : t[a].kind # "style"
      /\ \A m \in S : t[m].kind # "style"
  BY DEF MutationAffectsStylesheets, Above
<1>2. n # 0 /\ n \in S /\ S = {m \in DOMAIN t : n \in Above(t, m)} /\ n \in Above(t, n)
  BY SubtreeFacts, AboveFacts DEF Tree, Joined
<1>3. ASSUME NEW c \in C PROVE ~MutationAffectsStylesheets(t, c)
  <2>1. Above(t, c) = {c} \cup Above(t, n) /\ c \in Above(t, c)
    BY <1>2, AboveFacts
  <2>2. c \in S
    BY <1>2, <2>1
  <2>3. Subtree(t, c) \subseteq S
    <3>1. Subtree(t, c) = {m \in DOMAIN t : c \in Above(t, m)}
      BY SubtreeFacts
    <3>2. \A m \in DOMAIN t : c \in Above(t, m) => n \in Above(t, m)
      BY <1>2, <2>1, AboveTrans
    <3>3. QED
      BY <1>2, <3>1, <3>2
  <2>4. \A m \in Above(t, c) \cup Subtree(t, c) : t[m].kind # "style"
    BY <1>1, <2>1, <2>2, <2>3
  <2>5. QED
    BY <2>4 DEF MutationAffectsStylesheets, Above
<1>4. \A c \in C : c \in DOMAIN t /\ ~MutationAffectsStylesheets(t, c) /\ ~TextIn(u, c, {"style"})
  BY <1>3 DEF TextIn
<1>5. \A x \in N : ~TextIn(u, x, {"style"})
  <2>1. u[n].kind = t[n].kind /\ t[n].kind # "style"
    BY <1>1, <1>2
  <2>2. QED
    BY <2>1 DEF TextIn
<1>6. \A m \in DOMAIN t : /\ u[m].kind = t[m].kind /\ u[m].val = t[m].val
                          /\ m \notin C => u[m].up = t[m].up
  OBVIOUS
<1> HIDE DEF C
<1>7. QED
  BY <1>4, <1>5, <1>6, MovedApart

LEMMA SetTextContentSheets ==
  ASSUME NEW d, Whole(d), d.sheets \in Nat, NEW n \in DOMAIN d.tree, d.tree[n].kind # "doc", NEW v,
         ~Refused(d, n, v)
  PROVE  Sheeted(d, SetTextContent(d, n, v))
<1> DEFINE t == d.tree
           affects == NodeAffectsLayout(d.tree, n)
           sheets == MutationAffectsStylesheets(d.tree, n)
           inline == FALSE
           rebuild == FALSE
           empty == [d EXCEPT !.tree = Emptied(@, n)]
           paid == Charge(empty, 1)
           text == Adopt(paid, Node("text", v))
           filled == [text EXCEPT !.tree = PlaceAt(@, n, d.next, 1)]
           e == SetTextContent(d, n, v)
<1>1. Nears(d, e) /\ Sound(d) /\ Tree(d.tree) /\ affects \in BOOLEAN
  <2>1. \A s : Near(d, s) => Keeps(d, e, s)
    BY SetTextContentKeeps DEF Keeps
  <2> HIDE DEF e
  <2>2. QED
    BY <2>1, NearsIfKept, AffectsIsBoolean DEF Whole
<1>2. CASE d.tree[n].kind \in {"text", "comment"}
  <2> DEFINE f == [d EXCEPT !.tree[n].val = v]
             u == [d.tree EXCEPT ![n].val = v]
  <2>1. e = MarkMutated(f, affects, n, sheets, inline, rebuild)
    BY <1>2 DEF SetTextContent
  <2>2. f = [d EXCEPT !.tree = u] /\ DOMAIN u \subseteq DOMAIN d.tree /\ f.sheets = d.sheets
    BY <1>1 DEF Sound, Fields
  <2>3. /\ DOMAIN u = DOMAIN t
        /\ \A m \in DOMAIN t : /\ u[m].kind = t[m].kind /\ u[m].up = t[m].up
                               /\ m # n => u[m].val = t[m].val
    BY <1>1 DEF Tree, Typed, NodeFields
  <2> HIDE DEF f, u, e
  <2>4. Redone(d, f) /\ f.tree = u
    BY <1>1, <2>2, WithTree
  <2>5. ASSUME ~sheets PROVE \E X : Apart(t, u, X)
    <3> DEFINE X == {n}
    <3>1. ~TextIn(t, n, {"style"})
      <4>1. \A a \in Above(t, n) : t[a].kind # "style"
        BY <2>5 DEF MutationAffectsStylesheets, Above
      <4>2. QED
        BY <1>1, <4>1, SheetFacts
    <3>2. ~TextIn(u, n, {"style"})
      <4>1. t[n].up \in DOMAIN t \cup {0}
        BY <1>1 DEF Tree, Joined
      <4>2. QED
        BY <2>3, <3>1, <4>1 DEF TextIn
    <3>3. \A m \in DOMAIN t : t[m].up # n
      <4>1. n \in DOMAIN t /\ t[n].kind \in {"text", "comment"} /\ Tree(t)
        BY <1>1, <1>2
      <4> HIDE DEF t
      <4>2. QED
        BY <4>1, LeafFacts
    <3>4. Apart(t, u, X)
      BY <2>3, <3>1, <3>2, <3>3 DEF Apart
    <3>5. QED
      BY <3>4
  <2> HIDE DEF affects, sheets, inline, rebuild
  <2>6. Sheeted(d, e)
    BY <1>1, <2>1, <2>2, <2>4, <2>5, MarkedSheets
  <2>7. QED
    BY <2>6 DEF e
<1>3. CASE d.tree[n].kind \notin {"text", "comment"}
  <2>1. d.tree[n].kind \in Elements /\ Rooted(d)
    BY <1>1, <1>3 DEF Whole, Tree, Typed, NodeKinds
  <2>2. Redone(d, empty) /\ empty.tree = Emptied(d.tree, n) /\ empty.sheets = d.sheets /\ empty.next = d.next
    <3> DEFINE z == Emptied(d.tree, n)
    <3>1. DOMAIN z \subseteq DOMAIN d.tree /\ empty = [d EXCEPT !.tree = z]
      BY DEF Emptied
    <3>2. empty.sheets = d.sheets /\ empty.next = d.next
      BY <1>1 DEF Sound, Fields
    <3> HIDE DEF z, empty
    <3>3. QED
      BY <1>1, <3>1, <3>2, WithTree DEF z
  <2>3. e = d \/ e = MarkMutated(empty, affects, n, sheets, inline, rebuild)
             \/ (v # Nothing /\ Affordable(d, 1) /\ e = MarkMutated(filled, affects, n, sheets, inline, rebuild))
    <3>1. v # Nothing => Affordable(d, 1)
      BY <2>1 DEF Refused
    <3>2. QED
      BY <1>3, <3>1 DEF SetTextContent
  <2> HIDE DEF empty
  <2>4. Tree(empty.tree) /\ Rooted(empty)
        /\ DOMAIN empty.tree = DOMAIN t
        /\ \A m \in DOMAIN t : /\ empty.tree[m].kind = t[m].kind /\ empty.tree[m].val = t[m].val
                               /\ empty.tree[m].up = IF t[m].up = n THEN 0 ELSE t[m].up
                               /\ empty.tree[m].kids = IF m = n THEN <<>> ELSE t[m].kids
    <3>1. Tree(empty.tree)
      BY <1>1, <2>2, EmptiedTree
    <3>2. Rooted(empty)
      BY <1>1, <2>1, <2>2, EmptiedShape DEF Redone, Rooted, Like
    <3>3. QED
      BY <1>1, <2>2, <3>1, <3>2, EmptiedShape DEF Like
  <2>5. CASE e = MarkMutated(empty, affects, n, sheets, inline, rebuild)
    <3>1. ASSUME ~sheets PROVE \E X : Apart(d.tree, empty.tree, X)
      <4> DEFINE N == {}
                 u == empty.tree
      <4>1. DOMAIN u = DOMAIN t \cup N /\ N \cap DOMAIN t = {} /\ \A x \in N : u[x].up = n
        BY <2>4
      <4> HIDE DEF N
      <4>2. Tree(t) /\ n \in DOMAIN t /\ ~MutationAffectsStylesheets(t, n) /\ Tree(u)
            /\ \A m \in DOMAIN t : /\ u[m].kind = t[m].kind /\ u[m].val = t[m].val
                                   /\ u[m].up = IF t[m].up = n THEN 0 ELSE t[m].up
        BY <1>1, <2>4, <3>1
      <4> HIDE DEF t, u
      <4>3. \E X : Apart(t, u, X)
        BY <4>1, <4>2, EmptiedApart
      <4>4. QED
        BY <4>3 DEF t, u
    <3> HIDE DEF affects, sheets, inline, rebuild, e
    <3>2. Sheeted(d, e)
      BY <1>1, <2>2, <2>5, <3>1, MarkedSheets
    <3>3. QED
      BY <3>2 DEF e
  <2>6. CASE v # Nothing /\ Affordable(d, 1) /\ e = MarkMutated(filled, affects, n, sheets, inline, rebuild)
    <3>2. Sound(empty)
      BY <1>1, <2>2, EditIsSound DEF Redone
    <3>3. Redone(empty, paid) /\ paid.tree = empty.tree /\ paid.next = d.next /\ Sound(paid)
          /\ paid.sheets = d.sheets
      <4>1. Redone(empty, paid) /\ paid.tree = empty.tree /\ paid.next = d.next /\ Sound(paid)
        BY <2>2, <3>2, ChargeRedone, ChargeEdits, EditIsSound DEF Redone
      <4>2. paid.sheets = d.sheets
        BY <2>2, <3>2 DEF Charge, Sound, Fields
      <4>3. QED
        BY <4>1, <4>2
    <3> DEFINE node == Node("text", v)
    <3>4. /\ DOMAIN node = NodeFields /\ node.kind = "text" /\ node.kind \in NodeKinds
          /\ node.up = 0 /\ node.kids = <<>>
      BY DEF Node, NodeFields, NodeKinds
    <3> HIDE DEF node, paid
    <3>5. /\ Redone(paid, text) /\ DOMAIN text.tree = DOMAIN paid.tree \cup {paid.next}
          /\ text.tree[paid.next] = node /\ \A m \in DOMAIN paid.tree : text.tree[m] = paid.tree[m]
          /\ paid.next \notin DOMAIN paid.tree /\ paid.next # 0 /\ text.sheets = d.sheets
      <4>1. text = Adopt(paid, node)
        BY DEF node
      <4>2. text.sheets = d.sheets
        BY <3>3 DEF Adopt, Sound, Fields
      <4> HIDE DEF text
      <4>3. QED
        BY <3>3, <4>1, <4>2, AdoptShape
    <3> HIDE DEF text
    <3>6. Redone(empty, text) /\ WithLoose(empty, text, d.next) /\ text.tree[d.next].kind = "text" /\ Sound(text)
      <4>1. Redone(empty, text) /\ Sound(text)
        BY <3>2, <3>3, <3>5, RedoneOn
      <4>2. QED
        BY <3>3, <3>4, <3>5, <4>1 DEF WithLoose, Redone
    <3>7. Redone(text, filled) /\ filled.tree = PlaceAt(text.tree, n, d.next, 1) /\ filled.sheets = d.sheets
      <4> DEFINE w == PlaceAt(text.tree, n, d.next, 1)
      <4>1. DOMAIN w \subseteq DOMAIN text.tree /\ filled = [text EXCEPT !.tree = w]
        BY PlaceKeepsIds
      <4>2. filled.sheets = d.sheets
        BY <3>5, <3>6 DEF Sound, Fields
      <4> HIDE DEF w
      <4>3. QED
        BY <3>6, <4>1, <4>2, WithTree DEF w
    <3> HIDE DEF filled
    <3>8. Redone(d, filled) /\ Tree(filled.tree) /\ PutUnder(text.tree, filled.tree, n, d.next, 1)
      <4>1. Redone(d, filled) /\ Tree(filled.tree)
        BY <2>1, <2>2, <3>6, <3>7, FilledFacts
      <4>2. n \in DOMAIN empty.tree /\ empty.tree[n].kind \in Elements /\ empty.tree[n].kids = <<>>
            /\ (empty.tree[n].kind \in {"style", "script"} => text.tree[d.next].kind = "text")
            /\ filled.root = text.root
        BY <2>1, <2>4, <3>6, <3>7 DEF Redone
      <4> HIDE DEF affects, sheets, e, t
      <4>3. PutUnder(text.tree, filled.tree, n, d.next, 1)
        BY <2>4, <3>6, <3>7, <4>2, FilledTree
      <4>4. QED
        BY <4>1, <4>3
    <3>9. ASSUME ~sheets PROVE \E X : Apart(d.tree, filled.tree, X)
      <4> DEFINE x == d.next
                 N == {x}
                 u == filled.tree
      <4>1. /\ x \notin DOMAIN t /\ DOMAIN u = DOMAIN t \cup {x} /\ u[x].up = n
            /\ \A m \in DOMAIN t : /\ u[m].kind = empty.tree[m].kind /\ u[m].val = empty.tree[m].val
                                   /\ u[m].up = empty.tree[m].up
        BY <2>4, <3>6, <3>8 DEF WithLoose, PutUnder, Like
      <4>2. DOMAIN u = DOMAIN t \cup N /\ N \cap DOMAIN t = {} /\ \A k \in N : u[k].up = n
        BY <4>1
      <4>3. Tree(t) /\ n \in DOMAIN t /\ ~MutationAffectsStylesheets(t, n) /\ Tree(u)
            /\ \A m \in DOMAIN t : /\ u[m].kind = t[m].kind /\ u[m].val = t[m].val
                                   /\ u[m].up = IF t[m].up = n THEN 0 ELSE t[m].up
        BY <1>1, <2>4, <3>8, <3>9, <4>1
      <4> HIDE DEF t, u, N
      <4>4. \E X : Apart(t, u, X)
        BY <4>2, <4>3, EmptiedApart
      <4>5. QED
        BY <4>4 DEF t, u
    <3> HIDE DEF affects, sheets, inline, rebuild, e
    <3>10. Sheeted(d, e)
      BY <1>1, <2>6, <3>7, <3>8, <3>9, MarkedSheets
    <3>11. QED
      BY <3>10 DEF e
  <2>7. CASE e = d
    BY <2>7 DEF Sheeted
  <2>8. QED
    BY <2>3, <2>5, <2>6, <2>7
<1>4. QED
  BY <1>2, <1>3

LEMMA ChargeSheets ==
  ASSUME NEW d, Whole(d), d.sheets \in Nat, NEW more
  PROVE  Sheeted(d, Charge(d, more)) /\ Charge(d, more).sheets = d.sheets
<1> DEFINE e == Charge(d, more)
<1>1. Nears(d, e)
  BY ChargeKeeps, NearsIfKept
<1>2. e.sheets = d.sheets /\ e.layout = d.layout
  BY DEF Whole, Sound, Fields, Charge
<1> HIDE DEF e
<1>3. Sheeted(d, e)
  BY <1>1, <1>2, SheetedSame
<1>4. QED
  BY <1>2, <1>3 DEF e

\* The contents go with their ids, and one node may take their place.
LEMMA DroppedApart ==
  ASSUME NEW t, Tree(t), NEW n \in DOMAIN t, NEW old, old = Subtree(t, n) \ {n},
         \A m \in old : t[m].kind # "style",
         NEW u, Tree(u), NEW N, DOMAIN u = (DOMAIN t \ old) \cup N, N \cap DOMAIN t = {}, n \in DOMAIN u,
         \A m \in DOMAIN t \ old : /\ u[m].kind = t[m].kind /\ u[m].val = t[m].val /\ u[m].up = t[m].up,
         \A x \in N : u[x].up = n,
         ~MutationAffectsStylesheets(u, n)
  PROVE  \E X : Apart(t, u, X)
<1> DEFINE X == old \cup N
<1>1. /\ 0 \notin DOMAIN t /\ \A m \in DOMAIN t : t[m].up \in DOMAIN t \cup {0}
      /\ \A m \in DOMAIN t : m # n => (m \in Subtree(t, n) <=> t[m].up \in Subtree(t, n))
      /\ t[n].up \notin Subtree(t, n) /\ n \in Subtree(t, n)
  BY SubtreeFacts DEF Tree, Joined
<1>2. ASSUME NEW m \in DOMAIN t \ X
      PROVE  u[m].kind = t[m].kind /\ u[m].val = t[m].val /\ u[m].up = t[m].up /\ t[m].up \notin X
  <2>1. t[m].up \notin old
    BY <1>1
  <2>2. t[m].up \notin N
    <3>1. 0 \notin N
      BY DEF Tree, Joined
    <3>2. QED
      BY <1>1, <3>1
  <2>3. QED
    BY <2>1, <2>2
<1>3. u[n].kind # "style" /\ t[n].kind # "style"
  <2>1. n \in Subtree(u, n)
    BY SubtreeFacts
  <2>2. u[n].kind # "style"
    BY <2>1 DEF MutationAffectsStylesheets
  <2>3. QED
    BY <2>2
<1>4. ASSUME NEW m \in old PROVE m \in DOMAIN t /\ ~TextIn(t, m, {"style"}) /\ m \notin DOMAIN u
  <2>1. m \in DOMAIN t /\ m # n /\ t[m].up \in Subtree(t, n)
    BY <1>1 DEF Subtree
  <2>2. t[t[m].up].kind # "style"
    BY <1>3, <2>1
  <2>3. QED
    BY <2>1, <2>2 DEF TextIn
<1>5. ASSUME NEW m \in N PROVE m \notin DOMAIN t /\ ~TextIn(u, m, {"style"})
  BY <1>3 DEF TextIn
<1>6. DOMAIN u \ X = DOMAIN t \ X
  OBVIOUS
<1>7. Apart(t, u, X)
  <2>1. \A m \in X : /\ m \in DOMAIN t => ~TextIn(t, m, {"style"})
                     /\ m \in DOMAIN u => ~TextIn(u, m, {"style"})
    BY <1>4, <1>5
  <2> HIDE DEF X
  <2>2. QED
    BY <1>2, <1>6, <2>1 DEF Apart
<1>8. QED
  BY <1>7

LEMMA SetInnerHtmlSheets ==
  ASSUME NEW d, Whole(d), d.sheets \in Nat, NEW n \in DOMAIN d.tree, d.tree[n].kind \in ReadKinds,
         NEW nodes, nodes = <<>> \/ \E k \in NodeKinds \ {"doc"}, v \in -1..1 : nodes = <<Node(k, v)>>,
         d.tree[n].kind = "style" => \A i \in DOMAIN nodes : nodes[i].kind = "text"
  PROVE  Sheeted(d, SetInnerHtml(d, n, nodes))
<1> DEFINE old == Subtree(d.tree, n) \ {n}
           kept == [m \in DOMAIN d.tree \ old |->
                     IF m = n THEN [d.tree[m] EXCEPT !.kids = <<>>] ELSE d.tree[m]]
           bare == [d EXCEPT !.tree = kept, !.forget = @ + Cardinality(old)]
           grown == Adopt(bare, nodes[1])
           placed == [grown EXCEPT !.tree = PlaceAt(@, n, d.next, 1)]
           full == IF nodes = <<>> THEN bare ELSE placed
           affects == NodeAffectsLayout(full.tree, n)
           sheets == \/ \E m \in old : d.tree[m].kind = "style"
                     \/ MutationAffectsStylesheets(full.tree, n)
           marked == MarkMutated(full, affects, n, sheets, FALSE, FALSE)
<1>1. SetInnerHtml(d, n, nodes) = IF Affordable(d, Len(nodes)) THEN Charge(marked, Len(nodes)) ELSE marked
  BY DEF SetInnerHtml
<1>2. Sound(d) /\ Tree(d.tree) /\ Rooted(d) /\ d.tree[n].kind \in Elements /\ d.tree[n].kind # "script"
  BY StyleAssumption DEF Whole
<1>3. DOMAIN kept \subseteq DOMAIN d.tree /\ Dropped(d.tree, kept, n, old)
  BY <1>2 DEF Tree, Typed, Like, NodeFields, Dropped
<1> HIDE DEF old, kept
<1>4. Redone(d, bare) /\ bare.tree = kept /\ bare.next = d.next /\ bare.sheets = d.sheets
  <2>1. /\ DOMAIN bare = DOMAIN d /\ bare.tree = kept /\ bare.next = d.next
        /\ bare.layout = d.layout /\ bare.base = d.base /\ bare.journal = d.journal
        /\ bare.sens = d.sens /\ bare.root = d.root /\ bare.sheets = d.sheets
    BY <1>2 DEF Sound, Fields
  <2> HIDE DEF bare
  <2>2. Edits(d, bare)
    BY <1>2, <1>3, <2>1 DEF Sound, Given, Edits
  <2>3. QED
    BY <2>1, <2>2 DEF Redone
<1> HIDE DEF old, kept, bare
<1>6. Tree(bare.tree) /\ Rooted(bare) /\ n \in DOMAIN bare.tree
      /\ bare.tree[n].kids = <<>> /\ bare.tree[n].kind = d.tree[n].kind /\ Sound(bare)
  <2>1. Dropped(d.tree, bare.tree, n, old)
    BY <1>3, <1>4
  <2>2. Tree(bare.tree) /\ Rooted(bare) /\ n \in DOMAIN bare.tree
        /\ bare.tree[n].kids = <<>> /\ bare.tree[n].kind = d.tree[n].kind
    <3>1. Redone(d, bare) /\ Dropped(d.tree, bare.tree, n, old)
      BY <1>4, <2>1
    <3>2. QED
      BY <3>1, BareFacts, ZenonT(40)
  <2>3. QED
    BY <1>2, <1>4, <2>2, EditIsSound DEF Redone
<1>7. /\ Redone(d, full) /\ Tree(full.tree) /\ Rooted(full) /\ n \in DOMAIN full.tree
      /\ full.tree[n].kind = d.tree[n].kind /\ full.sheets = d.sheets
      /\ \A m \in DOMAIN bare.tree : /\ full.tree[m].kind = bare.tree[m].kind
                                     /\ full.tree[m].val = bare.tree[m].val
                                     /\ full.tree[m].up = bare.tree[m].up
      /\ \E N : /\ DOMAIN full.tree = DOMAIN bare.tree \cup N /\ N \cap DOMAIN d.tree = {}
                /\ \A x \in N : full.tree[x].up = n
  <2>1. CASE nodes = <<>>
    <3> DEFINE N == {}
    <3>1. full = bare
      BY <2>1
    <3>2. DOMAIN full.tree = DOMAIN bare.tree \cup N /\ N \cap DOMAIN d.tree = {}
          /\ \A x \in N : full.tree[x].up = n
      BY <3>1
    <3> HIDE DEF N, full
    <3>3. QED
      BY <1>4, <1>6, <3>1, <3>2
  <2>2. CASE nodes # <<>>
    <3>1. PICK k \in NodeKinds \ {"doc"}, v \in -1..1 : nodes = <<Node(k, v)>>
      BY <2>2
    <3> DEFINE node == nodes[1]
    <3>2. /\ DOMAIN node = NodeFields /\ node.kind \in NodeKinds /\ node.up = 0 /\ node.kids = <<>>
          /\ d.tree[n].kind = "style" => node.kind = "text"
      <4>1. 1 \in DOMAIN nodes /\ node = Node(k, v)
        BY <3>1
      <4>2. QED
        BY <4>1 DEF Node, NodeFields, NodeKinds
    <3> HIDE DEF node
    <3>3. /\ Redone(bare, grown) /\ WithLoose(bare, grown, d.next) /\ grown.tree[d.next] = node
          /\ grown.sheets = d.sheets
      <4>1. grown = Adopt(bare, node)
        BY DEF node
      <4>0. grown.sheets = d.sheets
        BY <1>4, <1>6 DEF Adopt, Sound, Fields
      <4> HIDE DEF grown
      <4>2. /\ Redone(bare, grown) /\ DOMAIN grown.tree = DOMAIN bare.tree \cup {bare.next}
            /\ grown.tree[bare.next] = node /\ \A m \in DOMAIN bare.tree : grown.tree[m] = bare.tree[m]
            /\ bare.next \notin DOMAIN bare.tree /\ bare.next # 0
        BY <1>6, <4>1, AdoptShape
      <4>3. QED
        BY <1>4, <3>2, <4>0, <4>2 DEF WithLoose, Redone
    <3> HIDE DEF grown
    <3>4. Redone(d, grown) /\ Sound(grown)
      BY <1>2, <1>4, <3>3, RedoneOn
    <3>5. Redone(grown, placed) /\ placed.tree = PlaceAt(grown.tree, n, d.next, 1)
          /\ placed.sheets = d.sheets
      <4> DEFINE w == PlaceAt(grown.tree, n, d.next, 1)
      <4>1. DOMAIN w \subseteq DOMAIN grown.tree /\ placed = [grown EXCEPT !.tree = w]
        BY PlaceKeepsIds
      <4>0. placed.sheets = d.sheets
        BY <3>3, <3>4 DEF Sound, Fields
      <4> HIDE DEF w
      <4>2. QED
        BY <3>4, <4>0, <4>1, WithTree DEF w
    <3> HIDE DEF placed
    <3>6. /\ Tree(placed.tree) /\ Rooted(placed) /\ PutUnder(grown.tree, placed.tree, n, d.next, 1)
          /\ n \in DOMAIN grown.tree
      <4>1. bare.tree[n].kind \in Elements
            /\ (bare.tree[n].kind \in {"style", "script"} => grown.tree[d.next].kind = "text")
        BY <1>2, <1>6, <3>2, <3>3
      <4>2. placed.root = grown.root
        BY <3>5 DEF Redone
      <4> HIDE DEF affects, sheets, marked
      <4>3. QED
        BY <1>6, <3>3, <3>5, <4>1, <4>2, FilledTree
    <3> DEFINE x == d.next
               N == {x}
    <3>7. /\ n \in DOMAIN placed.tree /\ placed.tree[n].kind = d.tree[n].kind
          /\ x \notin DOMAIN bare.tree /\ DOMAIN placed.tree = DOMAIN bare.tree \cup {x}
          /\ placed.tree[x].up = n
          /\ \A m \in DOMAIN bare.tree : /\ placed.tree[m].kind = bare.tree[m].kind
                                         /\ placed.tree[m].val = bare.tree[m].val
                                         /\ placed.tree[m].up = bare.tree[m].up
      BY <1>6, <3>3, <3>6 DEF PutUnder, Like, WithLoose
    <3>8. Redone(d, placed)
      BY <1>2, <3>4, <3>5, RedoneOn
    <3>9. x \notin DOMAIN d.tree
      BY <1>2 DEF Sound, Given
    <3>10. DOMAIN placed.tree = DOMAIN bare.tree \cup N /\ N \cap DOMAIN d.tree = {}
           /\ \A y \in N : placed.tree[y].up = n
      BY <3>7, <3>9
    <3>11. full = placed
      BY <2>2
    <3> HIDE DEF x, N, full
    <3>12. QED
      BY <3>5, <3>6, <3>7, <3>8, <3>10, <3>11
  <2>3. QED
    BY <2>1, <2>2
<1> HIDE DEF full
<1>8. affects /\ affects \in BOOLEAN
  BY <1>7, ReadKindsAffect
<1> DEFINE rebuild == FALSE
           inline == FALSE
<1>9. marked = MarkMutated(full, affects, n, sheets, inline, rebuild)
  OBVIOUS
<1>10. sheets <=> (\E m \in old : d.tree[m].kind = "style") \/ MutationAffectsStylesheets(full.tree, n)
  OBVIOUS
<1> HIDE DEF affects, sheets, rebuild, marked
<1>11. Nears(d, marked)
  <2>1. \A s : Near(d, s) => Keeps(d, marked, s)
    BY <1>7, <1>8, <1>9, MarkedKeeps DEF inline
  <2>2. QED
    BY <2>1, NearsIfKept
<1> HIDE DEF inline
<1>12. ASSUME ~sheets PROVE \E X : Apart(d.tree, full.tree, X)
  <2> DEFINE t == d.tree
             u == full.tree
  <2>1. PICK N : /\ DOMAIN u = DOMAIN bare.tree \cup N /\ N \cap DOMAIN t = {}
                 /\ \A x \in N : u[x].up = n
    BY <1>7
  <2>2. Dropped(t, bare.tree, n, old)
    BY <1>3, <1>4
  <2>3. /\ Tree(t) /\ n \in DOMAIN t /\ old = Subtree(t, n) \ {n} /\ \A m \in old : t[m].kind # "style"
        /\ Tree(u) /\ DOMAIN u = (DOMAIN t \ old) \cup N /\ n \in DOMAIN u
        /\ \A m \in DOMAIN t \ old : /\ u[m].kind = t[m].kind /\ u[m].val = t[m].val /\ u[m].up = t[m].up
        /\ ~MutationAffectsStylesheets(u, n)
    BY <1>2, <1>7, <1>10, <1>12, <2>1, <2>2 DEF Dropped, Like
  <2> HIDE DEF t, u
  <2>4. \E X : Apart(t, u, X)
    BY <2>1, <2>3, DroppedApart
  <2>5. QED
    BY <2>4 DEF t, u
<1>13. Sheeted(d, marked)
  BY <1>7, <1>8, <1>9, <1>11, <1>12, MarkedSheets
<1>14. Sheeted(marked, Charge(marked, Len(nodes)))
  <2>1. Whole(marked) /\ marked.sheets \in Nat
    BY <1>11, <1>13 DEF Nears, Sheeted
  <2>2. QED
    BY <2>1, ChargeSheets
<1>15. QED
  BY <1>1, <1>13, <1>14, SheetedOn

LEMMA CreateSheets ==
  ASSUME NEW d, Whole(d), d.sheets \in Nat, NEW k \in NodeKinds, NEW v
  PROVE  Sheeted(d, Create(d, k, v))
<1> DEFINE e == Create(d, k, v)
<1>1. Nears(d, e)
  <2>1. \A s : Near(d, s) => Keeps(d, e, s)
    BY CreateKeeps
  <2> HIDE DEF e
  <2>2. QED
    BY <2>1, NearsIfKept
<1>2. e.sheets = d.sheets /\ e.layout = d.layout
  BY DEF Whole, Sound, Fields, Charge, Adopt, Create
<1> HIDE DEF e
<1>3. Sheeted(d, e)
  BY <1>1, <1>2, SheetedSame
<1>4. QED
  BY <1>3 DEF e

LEMMA CloneNodeSheets ==
  ASSUME NEW d, Whole(d), d.sheets \in Nat, NEW n \in DOMAIN d.tree, NEW deep \in BOOLEAN
  PROVE  Sheeted(d, CloneNode(d, n, deep))
<1> DEFINE e == CloneNode(d, n, deep)
<1>1. Nears(d, e)
  <2>1. \A s : Near(d, s) => Keeps(d, e, s)
    BY CloneNodeKeeps
  <2> HIDE DEF e
  <2>2. QED
    BY <2>1, NearsIfKept
<1>2. e.sheets = d.sheets /\ e.layout = d.layout
  BY DEF Whole, Sound, Fields, Charge, CloneNode
<1> HIDE DEF e
<1>3. Sheeted(d, e)
  BY <1>1, <1>2, SheetedSame
<1>4. QED
  BY <1>3 DEF e

LEMMA ScannedSheets ==
  ASSUME NEW d, Whole(d), d.sheets \in Nat
  PROVE  Sheeted(d, Scanned(d)) /\ Scanned(d).sheets = d.sheets /\ Scanned(d).sens = SelectsMark(Scanned(d))
<1> DEFINE e == Scanned(d)
<1>1. /\ e.tree = d.tree /\ e.root = d.root /\ e.sheets = d.sheets /\ e.sens = SelectsMark(d)
  BY DEF Scanned, Whole, Sound, Fields
<1> HIDE DEF e
<1>2. \A n : IsConnected(e, n) <=> IsConnected(d, n)
  BY <1>1 DEF IsConnected
<1>3. Shown(e) = Shown(d) /\ Sheets(e) = Sheets(d)
  BY <1>1, <1>2 DEF Shown, Sheets
<1>4. ViewTexts(e) = ViewTexts(d)
  BY <1>1, <1>3 DEF ViewTexts
<1>5. SelectsMark(e) = SelectsMark(d)
  <2>1. SheetTexts(e) = SheetTexts(d)
    BY <1>1, <1>2 DEF SheetTexts
  <2>2. QED
    BY <2>1 DEF SelectsMark
<1>6. QED
  BY <1>1, <1>4, <1>5 DEF Sheeted, e

\* What a read ensures, as the caches need it.
Answers(e, s, vp) == Near(e, s) /\ s.valid /\ s.version = e.layout /\ s.viewport = vp

LEMMA EnsuredSheets ==
  ASSUME NEW d, Whole(d), d.sheets \in Nat, NEW s, Near(d, s), NEW vp, NEW mode, NEW corrected,
         NEW done \in Ensured(d, s, vp, mode, corrected)
  PROVE  /\ Whole(done[1]) /\ Sheeted(d, done[1]) /\ Answers(done[1], done[2], vp)
         /\ done[1].sheets = d.sheets /\ done[1].tree = d.tree /\ done[1].root = d.root
<1>1. Whole(done[1]) /\ Near(done[1], done[2])
  BY NearEnsured
<1>2. done[2].valid /\ done[2].version = done[1].layout /\ done[2].viewport = vp
  <2>1. CASE Hit(d, s, vp, mode, corrected) /\ done = <<d, s>>
    BY <2>1 DEF Hit, Near
  <2>2. CASE done = <<Scanned(d), Rebuilt(d, vp, mode, corrected)>>
    <3>1. Scanned(d).layout = d.layout
      BY DEF Scanned
    <3>2. QED
      BY <2>2, <3>1 DEF Rebuilt, StyledFields
  <2>3. CASE MayPatch(d, s, vp, mode, corrected) /\ done = <<d, Patched(d, s)>>
    <3>1. s.valid /\ DOMAIN s = StyledFields /\ s.viewport = vp
      BY <2>3 DEF MayPatch, Near
    <3>2. QED
      BY <2>3, <3>1 DEF Patched, StyledFields
  <2>4. QED
    BY <2>1, <2>2, <2>3 DEF Ensured
<1>3. done[1] = d \/ done[1] = Scanned(d)
  BY DEF Ensured
<1>4. Sheeted(d, d)
  BY DEF Sheeted
<1>5. Sheeted(d, Scanned(d)) /\ Scanned(d).sheets = d.sheets
  BY ScannedSheets
<1>6. Scanned(d).tree = d.tree /\ Scanned(d).root = d.root
  BY ScanKeepsTree DEF Whole, SameTree
<1>7. QED
  BY <1>1, <1>2, <1>3, <1>4, <1>5, <1>6 DEF Answers

\* A scan changes nothing that is seen.
LEMMA ScannedLooks ==
  ASSUME NEW d, Whole(d), NEW e, e = d \/ e = Scanned(d)
  PROVE  /\ Whole(e) /\ LayoutView(e) = LayoutView(d) /\ SelectsMark(e) = SelectsMark(d)
         /\ d.sens = SelectsMark(d) => e.sens = SelectsMark(e)
<1>1. /\ e.tree = d.tree /\ e.root = d.root /\ Sound(e)
      /\ d.sens = SelectsMark(d) => e.sens = SelectsMark(d)
  <2>1. Sound(Scanned(d)) /\ Scanned(d).tree = d.tree /\ Scanned(d).root = d.root
    BY ScanFollows, ScanKeepsTree DEF Whole, Follows, SameTree
  <2>2. Scanned(d).sens = SelectsMark(d)
    BY DEF Scanned, Whole, Sound, Fields
  <2>3. QED
    BY <2>1, <2>2 DEF Whole
<1>2. \A n : IsConnected(e, n) <=> IsConnected(d, n)
  BY <1>1 DEF IsConnected
<1>3. SelectsMark(e) = SelectsMark(d)
  <2>1. SheetTexts(e) = SheetTexts(d)
    BY <1>1, <1>2 DEF SheetTexts
  <2>2. QED
    BY <2>1 DEF SelectsMark
<1>4. Shown(e) = Shown(d)
  BY <1>1, <1>2 DEF Shown
<1>5. LayoutView(e) = LayoutView(d)
  BY <1>1, <1>3, <1>4 DEF LayoutView
<1>6. QED
  BY <1>1, <1>3, <1>5 DEF Whole, Rooted

\* What is remembered stays that of a document that looks like this one.
LEMMA MemoedOn ==
  ASSUME NEW d, NEW mem, Memoed(d, mem), NEW e, LayoutView(e) = LayoutView(d),
         d.sens = SelectsMark(d) => e.sens = SelectsMark(e)
  PROVE  Memoed(e, mem)
BY DEF Memoed, Looks

LEMMA NothingMemoed == ASSUME NEW d PROVE Memoed(d, NoMemo)
BY DEF Memoed, NoMemo

LEMMA RememberedFacts ==
  ASSUME NEW d, Whole(d), NEW mem, Memoed(d, mem), NEW S
  PROVE  LET k == Remembered(d, mem, S)
         IN Memoed(d, k) /\ k.early = (mem.early \/ d.sens # SelectsMark(d))
<1> DEFINE k == Remembered(d, mem, S)
           early == mem.early \/ d.sens # SelectsMark(d)
           passed == UNION {ToSet(Kept(Chain(d.tree, n), ElementsOf(d.tree))) : n \in S}
           D == DOMAIN mem.levels \cup ({d.tree[m].up : m \in passed} \ {0})
           levels == [p \in D |-> IF p \in DOMAIN mem.levels THEN mem.levels[p] ELSE LevelContext(d, p)]
<1>1. k = [early |-> early, levels |-> levels]
  BY DEF Remembered
<1>2. DOMAIN levels = D /\ \A p \in D : levels[p] = IF p \in DOMAIN mem.levels THEN mem.levels[p]
                                                 ELSE LevelContext(d, p)
  OBVIOUS
<1> HIDE DEF levels, D, k
<1>3. k.levels = levels /\ k.early = early
  BY <1>1
<1>4. ASSUME ~k.early, NEW p \in DOMAIN k.levels
      PROVE  d.sens = SelectsMark(d) /\ \E f : Looks(d, f) /\ k.levels[p] = LevelContext(f, p)
  <2>1. ~mem.early /\ d.sens = SelectsMark(d) /\ p \in D
    BY <1>2, <1>3, <1>4
  <2>2. CASE p \in DOMAIN mem.levels
    <3>1. k.levels[p] = mem.levels[p]
      BY <1>2, <1>3, <2>1, <2>2
    <3>2. QED
      BY <2>1, <2>2, <3>1 DEF Memoed
  <2>3. CASE p \notin DOMAIN mem.levels
    <3>1. k.levels[p] = LevelContext(d, p)
      BY <1>2, <1>3, <2>1, <2>3
    <3>2. Looks(d, d)
      BY <2>1 DEF Looks
    <3>3. QED
      BY <2>1, <3>1, <3>2
  <2>4. QED
    BY <2>2, <2>3
<1>5. Memoed(d, k)
  BY <1>4 DEF Memoed
<1>6. QED
  BY <1>3, <1>5 DEF k, early

\* A styled document of the version answers what the digest tells.
LEMMA AnswerIsTold ==
  ASSUME NEW d, Whole(d), NEW s, NEW vp, Answers(d, s, vp), NEW n \in InDocument(d),
         NEW mem, Memoed(d, mem), ~mem.early
  PROVE  /\ d.sens = SelectsMark(d)
         /\ Answer(s, n) = Told(LayoutInputDigest(d, mem, n, vp), ViewTexts(d))
<1>1. d.sens = SelectsMark(d)
  <2>1. OnlyInline(d, s.version)
    BY JournalFacts DEF OnlyInline, Whole, Sound, Journaled, Answers
  <2>2. QED
    BY <2>1 DEF Near, Shows, Answers
<1>2. s.view = LayoutView(d)
  BY NearIsFresh DEF Whole, Answers
<1>3. QED
  BY <1>1, <1>2, CascadeIsTold DEF Answer, Answers

-----------------------------------------------------------------------------
(* What the cache remembers.                                               *)

EntryFields == {"digest", "full", "props", "mixed"}
\* No digest of this document can be older than the scan it needed.
Ripe(d, mem) == d.sens = SelectsMark(d) /\ ~mem.early
\* An entry of this generation, told by one digest, holds what it tells.
Truthful(d, mem, e) ==
  /\ DOMAIN e = EntryFields /\ DOMAIN e.props = Props /\ e.mixed \in BOOLEAN
  /\ e.digest[1] \in Nat /\ e.digest[1] <= d.sheets
  /\ ~e.mixed /\ e.digest[1] = d.sheets =>
       /\ Ripe(d, mem)
       /\ e.full # None => e.full[1] = Told(e.digest, ViewTexts(d))
       /\ \A p \in Props : e.props[p] # None => e.props[p][1] = Told(e.digest, ViewTexts(d))
IsCache(c) == DOMAIN c = {"bounded", "forget", "snapshot", "entries"} /\ DOMAIN c.entries = Ids
Trusty(d, mem, c) == IsCache(c) /\ \A n \in Ids : c.entries[n] # None => Truthful(d, mem, c.entries[n][1])

LEMMA SheetedTruth ==
  ASSUME NEW d, d.sheets \in Nat, NEW mem, NEW c, Trusty(d, mem, c), NEW e, Sheeted(d, e),
         NEW k, Ripe(d, mem) /\ e.sheets = d.sheets => ~k.early
  PROVE  Trusty(e, k, c)
<1>1. ASSUME NEW x, Truthful(d, mem, x) PROVE Truthful(e, k, x)
  BY <1>1 DEF Truthful, Sheeted, Ripe
<1>2. QED
  BY <1>1 DEF Trusty

\* A digest of this generation, and what was answered for it.
Tells(d, mem, digest, v, mixed) ==
  /\ digest[1] = d.sheets /\ mixed \in BOOLEAN
  /\ ~mixed => Ripe(d, mem) /\ v = Told(digest, ViewTexts(d))

LEMMA EntryTruth ==
  ASSUME NEW d, d.sheets \in Nat, NEW mem, NEW c, Trusty(d, mem, c), NEW n \in Ids, NEW digest, NEW v, NEW mixed,
         Tells(d, mem, digest, v, mixed)
  PROVE  LET e == EntryFor(c, n, digest, mixed)
         IN Truthful(d, mem, e) /\ e.digest = digest /\ (mixed => e.mixed)
<1> DEFINE x == c.entries[n][1]
           e == EntryFor(c, n, digest, mixed)
           g == Fresh(digest, mixed)
           joined == [x EXCEPT !.mixed = @ \/ mixed]
<1>1. CASE c.entries[n] # None /\ x.digest = digest
  <2>1. e = joined
    BY <1>1 DEF EntryFor
  <2>2. Truthful(d, mem, x)
    BY <1>1 DEF Trusty
  <2> HIDE DEF x
  <2>3. /\ DOMAIN joined = EntryFields /\ joined.digest = x.digest /\ joined.props = x.props
        /\ joined.full = x.full /\ joined.mixed = (x.mixed \/ mixed)
    BY <2>2 DEF Truthful, EntryFields
  <2> HIDE DEF joined
  <2>4. joined.mixed \in BOOLEAN /\ (~joined.mixed => ~x.mixed) /\ (mixed => joined.mixed)
    BY <2>2, <2>3 DEF Truthful, Tells
  <2>5. Truthful(d, mem, joined)
    BY <2>2, <2>3, <2>4 DEF Truthful
  <2>6. QED
    BY <1>1, <2>1, <2>3, <2>4, <2>5 DEF x
<1>2. CASE ~(c.entries[n] # None /\ x.digest = digest)
  <2>1. e = g
    BY <1>2 DEF EntryFor
  <2>2. /\ DOMAIN g = EntryFields /\ g.digest = digest /\ g.full = None /\ g.mixed = mixed
        /\ DOMAIN g.props = Props /\ \A p \in Props : g.props[p] = None
    BY DEF Fresh, EntryFields
  <2> HIDE DEF g
  <2>3. Truthful(d, mem, g)
    BY <2>2 DEF Truthful, Tells
  <2>4. QED
    BY <2>1, <2>2, <2>3
<1>3. QED
  BY <1>1, <1>2

LEMMA WriteTruth ==
  ASSUME NEW d, d.sheets \in Nat, NEW mem, NEW e, Truthful(d, mem, e), NEW digest, e.digest = digest, NEW v, NEW mixed,
         Tells(d, mem, digest, v, mixed), mixed => e.mixed
  PROVE  /\ \A p \in Props : Truthful(d, mem, [e EXCEPT !.props[p] = Some(v)])
         /\ Truthful(d, mem, [e EXCEPT !.full = IF v = None THEN None ELSE Some(v)])
<1>0. Some(v)[1] = v
  BY DEF Some
<1>1. ASSUME NEW p \in Props PROVE Truthful(d, mem, [e EXCEPT !.props[p] = Some(v)])
  <2> DEFINE f == [e EXCEPT !.props[p] = Some(v)]
             w == Some(v)
  <2>1. /\ DOMAIN f = EntryFields /\ f.digest = digest /\ f.full = e.full /\ f.mixed = e.mixed
        /\ f.props = [e.props EXCEPT ![p] = w]
    BY DEF Truthful, EntryFields
  <2> HIDE DEF f, w
  <2>2. DOMAIN f.props = Props /\ f.props[p] = w /\ \A q \in Props \ {p} : f.props[q] = e.props[q]
    BY <2>1 DEF Truthful
  <2>3. w[1] = v
    BY <1>0 DEF w
  <2>4. Truthful(d, mem, f)
    BY <2>1, <2>2, <2>3 DEF Truthful, Tells
  <2>5. QED
    BY <2>4 DEF f
<1>2. Truthful(d, mem, [e EXCEPT !.full = IF v = None THEN None ELSE Some(v)])
  <2> DEFINE w == IF v = None THEN None ELSE Some(v)
             f == [e EXCEPT !.full = w]
  <2>1. /\ DOMAIN f = EntryFields /\ f.digest = digest /\ f.full = w /\ f.mixed = e.mixed
        /\ f.props = e.props
    BY DEF Truthful, EntryFields
  <2>2. w # None => w[1] = v
    BY <1>0
  <2> HIDE DEF f, w
  <2>3. Truthful(d, mem, f)
    BY <2>1, <2>2 DEF Truthful, Tells
  <2>4. QED
    BY <2>3 DEF f, w
<1>3. QED
  BY <1>1, <1>2

LEMMA SyncedTruth ==
  ASSUME NEW d, NEW mem, NEW c, Trusty(d, mem, c)
  PROVE  Trusty(d, mem, Synced(d, c)) /\ Synced(d, c).bounded = c.bounded
<1>1. CASE c.forget = d.forget
  BY <1>1 DEF Synced
<1>2. CASE c.forget # d.forget
  <2> DEFINE e == Synced(d, c)
  <2>1. /\ DOMAIN e = DOMAIN c /\ e.bounded = c.bounded /\ e.entries = [n \in Ids |-> None]
    BY <1>2 DEF Synced, Trusty, IsCache
  <2> HIDE DEF e
  <2>2. Trusty(d, mem, e)
    BY <2>1 DEF Trusty, IsCache
  <2>3. QED
    BY <2>1, <2>2 DEF e
<1>3. QED
  BY <1>1, <1>2

\* One entry is written, or dropped.
LEMMA PutTruth ==
  ASSUME NEW d, NEW mem, NEW c, Trusty(d, mem, c), NEW n \in Ids, NEW v, v = None \/ Truthful(d, mem, v[1])
  PROVE  Trusty(d, mem, [c EXCEPT !.entries[n] = v]) /\ [c EXCEPT !.entries[n] = v].bounded = c.bounded
<1> DEFINE e == [c EXCEPT !.entries[n] = v]
<1>1. /\ DOMAIN e = DOMAIN c /\ e.bounded = c.bounded
      /\ e.entries = [c.entries EXCEPT ![n] = v]
  BY DEF Trusty, IsCache
<1> HIDE DEF e
<1>2. DOMAIN e.entries = Ids /\ e.entries[n] = v /\ \A m \in Ids \ {n} : e.entries[m] = c.entries[m]
  BY <1>1 DEF Trusty, IsCache
<1>3. Trusty(d, mem, e)
  BY <1>1, <1>2 DEF Trusty, IsCache
<1>4. QED
  BY <1>1, <1>3 DEF e

LEMMA RememberTruth ==
  ASSUME NEW d, d.sheets \in Nat, NEW mem, NEW c, Trusty(d, mem, c), NEW n \in Ids, NEW digest, NEW v, NEW mixed,
         Tells(d, mem, digest, v, mixed)
  PROVE  /\ \A p \in Props : Trusty(d, mem, RememberProperty(d, c, n, digest, p, v, mixed))
         /\ Trusty(d, mem, RememberFull(d, c, n, digest, v, mixed))
<1> DEFINE b == Synced(d, c)
           e == EntryFor(b, n, digest, mixed)
           full == IF v = None THEN None ELSE Some(v)
<1>1. Trusty(d, mem, b)
  BY SyncedTruth
<1>2. Truthful(d, mem, e) /\ e.digest = digest /\ (mixed => e.mixed)
  <2> HIDE DEF b
  <2>1. QED
    BY <1>1, EntryTruth
<1>3. ASSUME NEW p \in Props PROVE Trusty(d, mem, RememberProperty(d, c, n, digest, p, v, mixed))
  <2> DEFINE f == [e EXCEPT !.props[p] = Some(v)]
             w == IF IsConnected(d, n) THEN Some(f) ELSE None
  <2>1. RememberProperty(d, c, n, digest, p, v, mixed) = [b EXCEPT !.entries[n] = w]
    BY DEF RememberProperty
  <2>2. Truthful(d, mem, f)
    <3> HIDE DEF e
    <3>1. QED
      BY <1>2, WriteTruth
  <2> HIDE DEF f
  <2>3. w = None \/ Truthful(d, mem, w[1])
    BY <2>2 DEF Some
  <2> HIDE DEF w, b
  <2>4. Trusty(d, mem, [b EXCEPT !.entries[n] = w])
    BY <1>1, <2>3, PutTruth
  <2>5. QED
    BY <2>1, <2>4
<1>4. Trusty(d, mem, RememberFull(d, c, n, digest, v, mixed))
  <2> DEFINE f == [e EXCEPT !.full = full]
             w == IF IsConnected(d, n) THEN Some(f) ELSE None
  <2>1. RememberFull(d, c, n, digest, v, mixed) = [b EXCEPT !.entries[n] = w]
    BY DEF RememberFull
  <2>2. Truthful(d, mem, f)
    <3> HIDE DEF e
    <3>1. QED
      BY <1>2, WriteTruth
  <2> HIDE DEF f
  <2>3. w = None \/ Truthful(d, mem, w[1])
    BY <2>2 DEF Some
  <2> HIDE DEF w, b
  <2>4. Trusty(d, mem, [b EXCEPT !.entries[n] = w])
    BY <1>1, <2>3, PutTruth
  <2>5. QED
    BY <2>1, <2>4
<1>5. QED
  BY <1>3, <1>4

LEMMA RememberBounds ==
  ASSUME NEW d, NEW c, IsCache(c), NEW n, NEW digest, NEW v, NEW mixed
  PROVE  /\ \A p : /\ RememberProperty(d, c, n, digest, p, v, mixed).bounded = c.bounded
                   /\ DOMAIN RememberProperty(d, c, n, digest, p, v, mixed) = DOMAIN c
         /\ RememberFull(d, c, n, digest, v, mixed).bounded = c.bounded
<1> DEFINE b == Synced(d, c)
<1>1. DOMAIN b = DOMAIN c /\ b.bounded = c.bounded
  BY DEF Synced, IsCache
<1> HIDE DEF b
<1>2. \A w : [b EXCEPT !.entries[n] = w].bounded = c.bounded /\ DOMAIN [b EXCEPT !.entries[n] = w] = DOMAIN c
  BY <1>1 DEF IsCache
<1>3. QED
  BY <1>2 DEF RememberProperty, RememberFull, b

\* A snapshot writes an entry for every element of the document.
LEMMA SnapshotTruth ==
  ASSUME NEW d, Whole(d), d.sheets \in Nat, NEW k, NEW c, Trusty(d, k, c), NEW s, Answers(d, s, viewport),
         NEW mem, Memoed(d, mem), mem.early \in BOOLEAN, ~mem.early => ~k.early
  PROVE  Trusty(d, k, Snapshot(d, mem, c, s)) /\ Snapshot(d, mem, c, s).bounded = c.bounded
<1> DEFINE b == Synced(d, c)
           Full(n) == IF Answer(s, n) = None THEN None ELSE Some(Answer(s, n))
           New(n) == [EntryFor(b, n, Digest(d, mem, n), mem.early) EXCEPT !.full = Full(n)]
           f == [n \in Ids |-> IF n \in InDocument(d) THEN Some(New(n)) ELSE b.entries[n]]
           e == Snapshot(d, mem, c, s)
<1>1. Trusty(d, k, b) /\ b.bounded = c.bounded
  BY SyncedTruth
<1>2. e = [b EXCEPT !.snapshot = d.layout, !.entries = f]
  BY DEF Snapshot
<1>3. ASSUME NEW n \in Ids, n \in InDocument(d) PROVE Truthful(d, k, New(n))
  <2> DEFINE digest == Digest(d, mem, n)
             v == Answer(s, n)
             mixed == mem.early
             x == EntryFor(b, n, digest, mixed)
  <2>1. Tells(d, k, digest, v, mixed)
    <3>1. digest[1] = d.sheets
      <4> DEFINE rows == [i \in DOMAIN Elems(d.tree, n) |-> DigestRow(d, mem, Elems(d.tree, n)[i])]
      <4>1. digest = <<d.sheets, viewport, rows>>
        BY DigestShape DEF Digest
      <4> HIDE DEF rows, digest
      <4>2. QED
        BY <4>1
    <3>2. ~mixed => Ripe(d, k) /\ v = Told(digest, ViewTexts(d))
      BY <1>3, AnswerIsTold DEF Digest, Ripe
    <3>3. QED
      BY <3>1, <3>2 DEF Tells
  <2> HIDE DEF b, digest, v, mixed
  <2>2. Truthful(d, k, x) /\ x.digest = digest /\ (mixed => x.mixed)
    BY <1>1, <1>3, <2>1, EntryTruth
  <2> DEFINE w == [x EXCEPT !.full = IF v = None THEN None ELSE Some(v)]
  <2> HIDE DEF x
  <2>3. Truthful(d, k, w)
    BY <2>1, <2>2, WriteTruth
  <2>4. New(n) = w
    BY DEF x, digest, v, mixed
  <2>5. QED
    BY <2>3, <2>4
<1>4. \A n \in Ids : n \in InDocument(d) => Truthful(d, k, f[n][1])
  <2>1. ASSUME NEW n \in Ids, n \in InDocument(d) PROVE Truthful(d, k, f[n][1])
    <3>1. f[n] = Some(New(n))
      BY <2>1
    <3>2. Truthful(d, k, New(n))
      BY <1>3, <2>1
    <3> HIDE DEF New, f
    <3>3. f[n][1] = New(n)
      BY <3>1 DEF Some
    <3>4. QED
      BY <3>2, <3>3
  <2>2. QED
    BY <2>1
<1>5. DOMAIN f = Ids /\ \A n \in Ids : n \notin InDocument(d) => f[n] = b.entries[n]
  OBVIOUS
<1> HIDE DEF f, b, New
<1>6. /\ DOMAIN e = DOMAIN b /\ e.bounded = b.bounded /\ e.entries = f
  BY <1>1, <1>2 DEF Trusty, IsCache
<1> HIDE DEF e
<1>7. Trusty(d, k, e)
  <2>1. \A n \in Ids : e.entries[n] # None => Truthful(d, k, e.entries[n][1])
    BY <1>1, <1>4, <1>5, <1>6 DEF Trusty
  <2>2. QED
    BY <1>1, <1>5, <1>6, <2>1 DEF Trusty, IsCache
<1>8. QED
  BY <1>1, <1>6, <1>7 DEF e

\* What a read learnt from what it ensured, told by the digest it took before.
LEMMA ReadTells ==
  ASSUME NEW d, Whole(d), d.sheets \in Nat, NEW mem, Memoed(d, mem),
         NEW e, e = d \/ e = Scanned(d), Sheeted(d, e), e.sheets = d.sheets,
         NEW s, Answers(e, s, viewport), NEW n \in InDocument(d),
         NEW mixed, mixed = (mem.early \/ d.sens # SelectsMark(d)), NEW k, ~mixed => ~k.early
  PROVE  Tells(e, k, Digest(d, mem, n), Answer(s, n), mixed)
<1> DEFINE g == Digest(d, mem, n)
<1>1. g[1] = e.sheets
  <2> DEFINE rows == [i \in DOMAIN Elems(d.tree, n) |-> DigestRow(d, mem, Elems(d.tree, n)[i])]
  <2>1. g = <<d.sheets, viewport, rows>>
    BY DigestShape DEF Digest
  <2> HIDE DEF rows, g
  <2>2. QED
    BY <2>1
<1>2. ASSUME ~mixed PROVE Ripe(e, k) /\ Answer(s, n) = Told(g, ViewTexts(e))
  <2>1. d.sens = SelectsMark(d) /\ ~mem.early
    BY <1>2
  <2>2. Whole(e) /\ LayoutView(e) = LayoutView(d) /\ e.sens = SelectsMark(e)
    BY <2>1, ScannedLooks
  <2>3. ViewTexts(e) = ViewTexts(d)
    BY <2>1 DEF Sheeted
  <2>4. s.view = LayoutView(d) /\ s.viewport = viewport
    BY <2>2, NearIsFresh DEF Whole, Answers
  <2>5. Cascade(LayoutView(d), n, viewport) = Told(g, ViewTexts(d))
    BY <2>1, CascadeIsTold DEF Digest
  <2>6. QED
    BY <1>2, <2>2, <2>3, <2>4, <2>5 DEF Ripe, Answer
<1>3. mixed \in BOOLEAN
  OBVIOUS
<1> HIDE DEF g
<1>4. Tells(e, k, g, Answer(s, n), mixed)
  BY <1>1, <1>2, <1>3 DEF Tells
<1>5. QED
  BY <1>4 DEF g

-----------------------------------------------------------------------------
(* The steps, as the cache of styles sees them.                            *)

\* Until a move crosses, the memo holds levels of a document that looks like
\* this one, unless it says otherwise of itself.
Recalled == ~history.crossed => Memoed(dom, memo) /\ memo.early \in BOOLEAN

\* The levels stay while the layout version does.
LEMMA WritingRecalls ==
  ASSUME Fresh0, Recalled, ~history.crossed, Writing, Whole(dom'),
         ~history'.crossed => \A s : Near(dom, s) => Near(dom', s)
  PROVE  Recalled'
<1>1. Whole(dom) /\ Memoed(dom, memo) /\ memo.early \in BOOLEAN
  BY DEF Fresh0, Recalled
<1>2. SUFFICES ASSUME ~history'.crossed PROVE Memoed(dom', memo') /\ memo'.early \in BOOLEAN
  BY DEF Recalled
<1>3. CASE dom'.layout # dom.layout
  <2>1. memo' = NoMemo
    BY <1>3 DEF Writing
  <2>2. Memoed(dom', NoMemo) /\ NoMemo.early \in BOOLEAN
    BY NothingMemoed DEF NoMemo
  <2>3. QED
    BY <2>1, <2>2
<1>4. CASE dom'.layout = dom.layout
  <2>1. memo' = memo
    BY <1>4 DEF Writing
  <2>2. CASE dom.sens = SelectsMark(dom)
    <3> DEFINE d == dom
               e == dom'
    <3>1. Whole(d) /\ Whole(e) /\ d.sens = SelectsMark(d) /\ e.layout = d.layout
      BY <1>1, <1>4, <2>2
    <3>2. Near(e, AsBuilt(d))
      BY <1>1, <1>2, <2>2, AsBuiltIsNear
    <3> HIDE DEF d, e
    <3>3. LayoutView(e) = LayoutView(d) /\ e.sens = SelectsMark(e)
      BY <3>1, <3>2, SaysSame
    <3>4. Memoed(d, memo)
      BY <1>1 DEF d
    <3>5. Memoed(e, memo)
      BY <3>3, <3>4, MemoedOn
    <3>6. QED
      BY <1>1, <2>1, <3>5 DEF e
  <2>3. CASE dom.sens # SelectsMark(dom)
    BY <1>1, <2>1, <2>3 DEF Memoed
  <2>4. QED
    BY <2>2, <2>3
<1>5. QED
  BY <1>3, <1>4

\* What the digests of a read leave behind.
LEMMA DigestsRecall ==
  ASSUME NEW d, Whole(d), NEW mem, Memoed(d, mem), mem.early \in BOOLEAN,
         NEW e, e = d \/ e = Scanned(d), NEW S, NEW T, NEW k,
         k = mem \/ k = Remembered(d, mem, S) \/ k = Remembered(e, Remembered(d, mem, S), T)
  PROVE  /\ Memoed(e, k) /\ k.early \in BOOLEAN /\ (Ripe(d, mem) => ~k.early)
         /\ k = mem \/ (~(mem.early \/ d.sens # SelectsMark(d)) => ~k.early)
<1> DEFINE f == Remembered(d, mem, S)
           g == Remembered(e, f, T)
<1>1. /\ Whole(e) /\ LayoutView(e) = LayoutView(d)
      /\ d.sens = SelectsMark(d) => e.sens = SelectsMark(e)
  BY ScannedLooks
<1>2. Memoed(d, f) /\ f.early = (mem.early \/ d.sens # SelectsMark(d))
  BY RememberedFacts
<1> HIDE DEF f
<1>3. Memoed(e, mem) /\ Memoed(e, f)
  BY <1>1, <1>2, MemoedOn
<1>4. Memoed(e, g) /\ g.early = (f.early \/ e.sens # SelectsMark(e))
  BY <1>1, <1>3, RememberedFacts
<1> HIDE DEF g
<1>5. k = mem \/ k = f \/ k = g
  BY DEF f, g
<1>6. QED
  BY <1>1, <1>2, <1>3, <1>4, <1>5 DEF Ripe

LEMMA ReadingRecalls ==
  ASSUME Fresh0, Recalled, ~history.crossed, Read \/ Render \/ RebuildFails
  PROVE  /\ Memoed(dom', memo') /\ memo'.early \in BOOLEAN
         /\ Ripe(dom, memo) => ~memo'.early
<1>1. Whole(dom) /\ Memoed(dom, memo) /\ memo.early \in BOOLEAN
  BY DEF Fresh0, Recalled
<1>2. ASSUME NEW mode, NEW corrected, NEW vp, NEW done \in Ensured(dom, styled, vp, mode, corrected)
      PROVE  done[1] = dom \/ done[1] = Scanned(dom)
  BY <1>2 DEF Ensured
<1>3. ASSUME NEW e, e = dom \/ e = Scanned(dom), dom' = e, NEW S, NEW T,
             \/ memo' = memo \/ memo' = Remembered(dom, memo, S)
             \/ memo' = Remembered(e, Remembered(dom, memo, S), T)
      PROVE  /\ Memoed(dom', memo') /\ memo'.early \in BOOLEAN
             /\ Ripe(dom, memo) => ~memo'.early
  BY <1>1, <1>3, DigestsRecall
<1>4. ASSUME NEW n, ReadDetachedStyle(n) \/ ReadDetachedGeometry(n) \/ ReadCurrentGeometry(n)
                      \/ BoundedGeometry(n)
      PROVE  dom' = dom /\ memo' = memo
  <2>1. CASE ReadDetachedStyle(n)
    BY <2>1 DEF ReadDetachedStyle
  <2>2. CASE ReadDetachedGeometry(n)
    BY <2>2 DEF ReadDetachedGeometry
  <2>3. CASE ReadCurrentGeometry(n)
    BY <2>3 DEF ReadCurrentGeometry
  <2>4. CASE BoundedGeometry(n)
    BY <2>4 DEF BoundedGeometry
  <2>5. QED
    BY <1>4, <2>1, <2>2, <2>3, <2>4
<1>5. ASSUME NEW n, NEW p, ReadCurrentProperty(n, p) \/ BoundedProperty(n, p) \/ ReuseStyle(n)
      PROVE  dom' = dom /\ memo' = Remembered(dom, memo, {n})
  <2>1. CASE ReadCurrentProperty(n, p)
    BY <2>1 DEF ReadCurrentProperty, Digests
  <2>2. CASE BoundedProperty(n, p)
    BY <2>2, Zenon DEF BoundedProperty, Digests
  <2>3. CASE ReuseStyle(n)
    BY <2>3 DEF ReuseStyle, Digests
  <2>4. QED
    BY <1>5, <2>1, <2>2, <2>3
<1>6. ASSUME NEW n, ReadStyle(n)
      PROVE  memo' = Remembered(dom, memo, {n}) /\ (dom' = dom \/ dom' = Scanned(dom))
  <2>1. memo' = Remembered(dom, memo, {n})
    BY <1>6, Zenon DEF ReadStyle, Digests
  <2>2. PICK done \in IF StyleHit THEN {<<dom, styled>>}
                      ELSE Ensured(dom, styled, viewport, "sheets", FALSE) : dom' = done[1]
    BY <1>6, Zenon DEF ReadStyle
  <2>3. CASE StyleHit
    BY <2>1, <2>2, <2>3
  <2>4. CASE ~StyleHit
    <3>1. done \in Ensured(dom, styled, viewport, "sheets", FALSE)
      BY <2>2, <2>4
    <3>2. QED
      BY <1>2, <2>1, <2>2, <3>1
  <2>5. QED
    BY <2>3, <2>4
<1>7. ASSUME NEW n, NEW p, ForceProperty(n, p) \/ SnapshotProperty(n, p)
      PROVE  /\ dom' = dom \/ dom' = Scanned(dom)
             /\ \/ memo' = Remembered(dom, memo, {n})
                \/ \E T : memo' = Remembered(dom', Remembered(dom, memo, {n}), T)
  <2>1. CASE ForceProperty(n, p)
    <3>1. PICK done \in Ensured(dom, styled, viewport, "sheets", FALSE), cost \in Costs :
            LET first == Remembered(dom, memo, {n}) IN
            /\ dom' = done[1]
            /\ memo' = IF ShouldSnapshot(cost)
                       THEN Remembered(done[1], first, InDocument(done[1])) ELSE first
      BY <2>1, Zenon DEF ForceProperty
    <3>2. done[1] = dom \/ done[1] = Scanned(dom)
      BY <1>2
    <3>3. QED
      BY <3>1, <3>2
  <2>2. CASE SnapshotProperty(n, p)
    <3>1. PICK done \in Ensured(dom, styled, viewport, "sheets", FALSE) :
            LET first == Remembered(dom, memo, {n}) IN
            /\ dom' = done[1]
            /\ memo' = Remembered(done[1], first, InDocument(done[1]))
      BY <2>2, Zenon DEF SnapshotProperty
    <3>2. done[1] = dom \/ done[1] = Scanned(dom)
      BY <1>2
    <3>3. QED
      BY <3>1, <3>2
  <2>3. QED
    BY <1>7, <2>1, <2>2
<1>8. ASSUME (\E n : ForceGeometry(n)) \/ ExactGeometry
      PROVE  memo' = memo /\ (dom' = dom \/ dom' = Scanned(dom))
  <2>1. memo' = memo
    BY <1>8, Zenon DEF ForceGeometry, ExactGeometry
  <2>2. PICK done \in Ensured(dom, styled, viewport, "sheets", FALSE) : dom' = done[1]
    BY <1>8, Zenon DEF ForceGeometry, ExactGeometry
  <2>3. QED
    BY <1>2, <2>1, <2>2
<1>9. CASE Read
  <2>1. PICK n, p :
        \/ ReadDetachedStyle(n) \/ ReadDetachedGeometry(n) \/ ReadCurrentGeometry(n) \/ BoundedGeometry(n)
        \/ ReadCurrentProperty(n, p) \/ BoundedProperty(n, p) \/ ReuseStyle(n)
        \/ ReadStyle(n)
        \/ ForceProperty(n, p) \/ SnapshotProperty(n, p)
        \/ ForceGeometry(n) \/ ExactGeometry
    BY <1>9, Zenon DEF Read
  <2>2. dom' = dom \/ dom' = Scanned(dom)
    BY <1>4, <1>5, <1>6, <1>7, <1>8, <2>1
  <2>3. \/ memo' = memo \/ memo' = Remembered(dom, memo, {n})
        \/ \E T : memo' = Remembered(dom', Remembered(dom, memo, {n}), T)
    BY <1>4, <1>5, <1>6, <1>7, <1>8, <2>1
  <2>4. QED
    BY <1>3, <2>2, <2>3
<1>10. CASE Render
  <2> DEFINE vp == viewport'
             mode == "full"
             once == FALSE
  <2>1. PICK first \in Ensured(dom, styled, vp, mode, once) : dom' = first[1]
    BY <1>10, Zenon DEF Render
  <2>2. memo' = memo
    BY <1>10 DEF Render
  <2> HIDE DEF vp, mode, once
  <2>3. dom' = dom \/ dom' = Scanned(dom)
    BY <1>2, <2>1
  <2>4. QED
    BY <1>3, <2>2, <2>3
<1>11. CASE RebuildFails
  <2>1. dom' = Scanned(dom)
    BY <1>11 DEF RebuildFails
  <2>2. memo' = memo \/ \E n \in Ids : memo' = Remembered(dom, memo, {n})
    BY <1>11, Zenon DEF RebuildFails, Digests
  <2>3. QED
    BY <1>3, <2>1, <2>2
<1>12. QED
  BY <1>9, <1>10, <1>11

LEMMA RecalledAlways == Spec => []Recalled
<1>1. Init => Recalled
  <2>1. Init => memo = NoMemo
    BY DEF Init
  <2>2. Memoed(dom, NoMemo) /\ NoMemo.early \in BOOLEAN
    BY NothingMemoed DEF NoMemo
  <2>3. QED
    BY <2>1, <2>2 DEF Recalled
<1>2. Fresh0 /\ Recalled /\ [Next]_vars => Recalled'
  <2> SUFFICES ASSUME Fresh0, Recalled, [Next]_vars PROVE Recalled'
    OBVIOUS
  <2>1. CASE UNCHANGED vars
    BY <2>1 DEF vars, Recalled
  <2>2. CASE Next
    <3>1. ~history.crossed
      BY <2>2 DEF Next, Reading, Writing
    <3>2. Whole(dom) /\ DOMAIN history = {"crossed", "seededStyles", "seededBoxes"}
      BY DEF Fresh0
    <3>3. CASE Read \/ Render \/ RebuildFails
      BY <3>1, <3>3, ReadingRecalls DEF Recalled
    <3>4. CASE SetLoaderOrFactory
      <4>1. dom' = dom /\ memo' = memo
        BY <3>4 DEF SetLoaderOrFactory
      <4>2. QED
        BY <3>1, <4>1 DEF Recalled
    <3>5. CASE Mutate /\ Writing
      <4>1. Whole(dom')
        <5>1. Near(dom, Empty)
          BY DEF Near, Empty
        <5>2. QED
          BY <3>2, <3>5, <5>1, MutateKeeps
      <4>2. ~history'.crossed => \A s : Near(dom, s) => Near(dom', s)
        <5>1. ASSUME NEW s, Near(dom, s), ~history'.crossed PROVE Near(dom', s)
          BY <3>2, <3>5, <5>1, MutateKeeps
        <5>2. QED
          BY <5>1
      <4>3. QED
        BY <3>1, <3>5, <4>1, <4>2, WritingRecalls
    <3>6. CASE Make /\ Writing
      <4>1. Whole(dom')
        <5>1. Near(dom, Empty)
          BY DEF Near, Empty
        <5>2. QED
          BY <3>2, <3>6, <5>1, MakeKeeps DEF Keeps
      <4>2. \A s : Near(dom, s) => Near(dom', s)
        <5>1. ASSUME NEW s, Near(dom, s) PROVE Near(dom', s)
          BY <3>2, <3>6, <5>1, MakeKeeps DEF Keeps
        <5>2. QED
          BY <5>1
      <4>3. QED
        BY <3>1, <3>6, <4>1, <4>2, WritingRecalls
    <3>7. CASE LoadHtml /\ Writing
      <4>1. PICK t \in Documents : dom' = Parse(dom, t)
        BY <3>7 DEF LoadHtml
      <4>2. dom'.layout # dom.layout
        <5>1. dom'.layout = dom.layout + 1
          BY <4>1 DEF Parse
        <5>2. dom.layout \in Nat
          BY <3>2 DEF Whole, Sound, Journaled
        <5>3. QED
          BY <5>1, <5>2
      <4>3. memo' = NoMemo
        BY <3>7, <4>2 DEF Writing
      <4>4. Memoed(dom', NoMemo) /\ NoMemo.early \in BOOLEAN
        BY NothingMemoed DEF NoMemo
      <4>5. QED
        BY <4>3, <4>4 DEF Recalled
    <3>8. QED
      BY <2>2, <3>3, <3>4, <3>5, <3>6, <3>7 DEF Next
  <2>3. QED
    BY <2>1, <2>2
<1>3. QED
  BY <1>1, <1>2, Fresh0Always, PTL DEF Spec

\* Until a move crosses, what the ordinary mode remembers is the truth.
Trusted ==
  ~history.crossed => dom.sheets \in Nat /\ (~styles.bounded => Trusty(dom, memo, styles))

\* The document changes and the styles stay.
LEMMA TrustedOn ==
  ASSUME Trusted, ~history.crossed, styles' = styles, Sheeted(dom, dom'),
         Ripe(dom, memo) => ~memo'.early
  PROVE  Trusted'
<1>1. dom'.sheets \in Nat
  BY DEF Sheeted
<1>2. ~styles'.bounded => Trusty(dom', memo', styles')
  BY SheetedTruth DEF Trusted
<1>3. QED
  BY <1>1, <1>2 DEF Trusted

LEMMA WritingRipens == Writing /\ Ripe(dom, memo) => ~memo'.early
BY DEF Writing, Ripe, NoMemo

LEMMA MutateIsTrusted ==
  ASSUME Fresh0, Trusted, ~history.crossed, Mutate, Writing
  PROVE  Trusted'
<1>0. Ripe(dom, memo) => ~memo'.early
  BY WritingRipens
<1>1. Whole(dom) /\ dom.sheets \in Nat /\ styles' = styles
      /\ DOMAIN history = {"crossed", "seededStyles", "seededBoxes"}
  BY DEF Fresh0, Trusted, Mutate, pageVars
<1>2. ASSUME NEW d, Changes(d), Sheeted(dom, d) PROVE Trusted'
  BY <1>0, <1>1, <1>2, TrustedOn DEF Changes
<1>3. ASSUME NEW c, NEW d, Moves(c, d), ~Crosses(dom.tree, d.tree, c) => Sheeted(dom, d)
      PROVE Trusted'
  <2>1. dom' = d /\ (Crosses(dom.tree, d.tree, c) => history'.crossed)
    BY <1>1, <1>3 DEF Moves
  <2>2. CASE history'.crossed
    BY <2>2 DEF Trusted
  <2>3. CASE ~history'.crossed
    BY <1>0, <1>1, <1>3, <2>1, <2>3, TrustedOn
  <2>4. QED
    BY <2>2, <2>3
<1>4. ASSUME NEW n \in DOMAIN dom.tree, dom.tree[n].kind # "doc", NEW v, Fills(n, v) PROVE Trusted'
  <2>1. dom' = SetTextContent(dom, n, v) /\ (Refused(dom, n, v) => history'.crossed)
    BY <1>1, <1>4 DEF Fills, Refused
  <2>2. CASE history'.crossed
    BY <2>2 DEF Trusted
  <2>3. CASE ~history'.crossed
    <3>1. ~Refused(dom, n, v)
      BY <2>1, <2>3
    <3>2. Sheeted(dom, SetTextContent(dom, n, v))
      BY <1>1, <1>4, <3>1, SetTextContentSheets
    <3>3. QED
      BY <1>0, <1>1, <2>1, <3>2, TrustedOn
  <2>4. QED
    BY <2>2, <2>3
<1>5. PICK n \in DOMAIN dom.tree :
        \/ dom.tree[n].kind \in ReadKinds /\ \E v : Changes(SetStyle(dom, n, v)) \/ Changes(SetMark(dom, n, v))
        \/ /\ dom.tree[n].kind \in ReadKinds
           /\ \E f \in Fragments :
                /\ dom.tree[n].kind = "style" => \A i \in DOMAIN f : f[i].kind = "text"
                /\ Changes(SetInnerHtml(dom, n, f))
        \/ dom.tree[n].kind # "doc" /\ \E v : Fills(n, v)
        \/ \E p \in DOMAIN dom.tree :
             /\ May(dom.tree, p, n)
             /\ \/ Moves(n, AppendChild(dom, p, n))
                \/ \E r \in ToSet(dom.tree[p].kids) \ {n} :
                     \/ Moves(n, InsertBefore(dom, p, n, r))
                     \/ Moves(n, ReplaceChild(dom, n, r))
        \/ dom.tree[n].up # 0 /\ Moves(n, RemoveChild(dom, n))
  BY Zenon DEF Mutate, May
<1>6. CASE dom.tree[n].kind \in ReadKinds /\ \E v : Changes(SetStyle(dom, n, v)) \/ Changes(SetMark(dom, n, v))
  <2>1. PICK v : Changes(SetStyle(dom, n, v)) \/ Changes(SetMark(dom, n, v))
    BY <1>6
  <2>2. Sheeted(dom, SetStyle(dom, n, v)) /\ Sheeted(dom, SetMark(dom, n, v))
    BY <1>1, <1>6, SetStyleSheets, SetMarkSheets
  <2>3. QED
    BY <1>2, <2>1, <2>2
<1>7. CASE /\ dom.tree[n].kind \in ReadKinds
           /\ \E f \in Fragments :
                /\ dom.tree[n].kind = "style" => \A i \in DOMAIN f : f[i].kind = "text"
                /\ Changes(SetInnerHtml(dom, n, f))
  <2>1. PICK f \in Fragments :
          /\ dom.tree[n].kind = "style" => \A i \in DOMAIN f : f[i].kind = "text"
          /\ Changes(SetInnerHtml(dom, n, f))
    BY <1>7
  <2>2. f = <<>> \/ \E k \in NodeKinds \ {"doc"}, v \in -1..1 : f = <<Node(k, v)>>
    BY StyleAssumption
  <2>3. Sheeted(dom, SetInnerHtml(dom, n, f))
    BY <1>1, <1>7, <2>1, <2>2, SetInnerHtmlSheets
  <2>4. QED
    BY <1>2, <2>1, <2>3
<1>8. CASE dom.tree[n].kind # "doc" /\ \E v : Fills(n, v)
  BY <1>4, <1>8
<1>9. CASE \E p \in DOMAIN dom.tree :
             /\ May(dom.tree, p, n)
             /\ \/ Moves(n, AppendChild(dom, p, n))
                \/ \E r \in ToSet(dom.tree[p].kids) \ {n} :
                     \/ Moves(n, InsertBefore(dom, p, n, r))
                     \/ Moves(n, ReplaceChild(dom, n, r))
  <2>1. PICK p \in DOMAIN dom.tree :
             /\ May(dom.tree, p, n)
             /\ \/ Moves(n, AppendChild(dom, p, n))
                \/ \E r \in ToSet(dom.tree[p].kids) \ {n} :
                     \/ Moves(n, InsertBefore(dom, p, n, r))
                     \/ Moves(n, ReplaceChild(dom, n, r))
    BY <1>9
  <2>2. ASSUME NEW before, before = 0 \/ before \in ToSet(dom.tree[p].kids) \ {n},
               Moves(n, PlaceChild(dom, p, n, before))
        PROVE  Trusted'
    <3> DEFINE e == PlaceChild(dom, p, n, before)
    <3>1. ~Crosses(dom.tree, e.tree, n) => Sheeted(dom, e)
      BY <1>1, <2>1, <2>2, PlaceChildSheets
    <3>2. Moves(n, e)
      BY <2>2
    <3> HIDE DEF e
    <3>3. QED
      BY <1>3, <3>1, <3>2
  <2>3. ASSUME NEW r \in ToSet(dom.tree[p].kids) \ {n}, Moves(n, ReplaceChild(dom, n, r))
        PROVE  Trusted'
    <3> DEFINE e == ReplaceChild(dom, n, r)
    <3>1. ~Crosses(dom.tree, e.tree, n) => Sheeted(dom, e)
      BY <1>1, <2>1, <2>3, ReplaceChildSheets
    <3>2. Moves(n, e)
      BY <2>3
    <3> HIDE DEF e
    <3>3. QED
      BY <1>3, <3>1, <3>2
  <2>4. CASE Moves(n, AppendChild(dom, p, n))
    <3> DEFINE before == 0
    <3>1. before = 0 /\ Moves(n, PlaceChild(dom, p, n, before))
      BY <2>4 DEF AppendChild
    <3> HIDE DEF before
    <3>2. QED
      BY <2>2, <3>1
  <2>5. CASE \E r \in ToSet(dom.tree[p].kids) \ {n} :
               Moves(n, InsertBefore(dom, p, n, r)) \/ Moves(n, ReplaceChild(dom, n, r))
    BY <2>2, <2>3, <2>5 DEF InsertBefore
  <2>6. QED
    BY <2>1, <2>4, <2>5
<1>10. CASE dom.tree[n].up # 0 /\ Moves(n, RemoveChild(dom, n))
  <2> DEFINE e == RemoveChild(dom, n)
  <2>1. ~Crosses(dom.tree, e.tree, n) => Sheeted(dom, e)
    BY <1>1, <1>10, RemoveChildSheets
  <2>2. Moves(n, e)
    BY <1>10
  <2> HIDE DEF e
  <2>3. QED
    BY <1>3, <2>1, <2>2
<1>11. QED
  BY <1>5, <1>6, <1>7, <1>8, <1>9, <1>10

LEMMA MakeIsTrusted ==
  ASSUME Fresh0, Trusted, ~history.crossed, Make, Writing
  PROVE  Trusted'
<1>1. Whole(dom) /\ dom.sheets \in Nat /\ styles' = styles
  BY DEF Fresh0, Trusted, Make
<1>2. Sheeted(dom, dom')
  <2>1. CASE \E k \in Kinds : dom' = Create(dom, k, 0)
    <3>1. PICK k \in Kinds : dom' = Create(dom, k, 0)
      BY <2>1
    <3>2. k \in NodeKinds
      BY StyleAssumption
    <3> DEFINE v == 0
    <3> HIDE DEF v
    <3>3. Sheeted(dom, Create(dom, k, v))
      BY <1>1, <3>2, CreateSheets
    <3>4. QED
      BY <3>1, <3>3 DEF v
  <2>2. CASE \E n \in DOMAIN dom.tree, deep \in BOOLEAN : dom' = CloneNode(dom, n, deep)
    BY <1>1, <2>2, CloneNodeSheets
  <2>3. QED
    BY <2>1, <2>2 DEF Make
<1>3. QED
  BY <1>1, <1>2, WritingRipens, TrustedOn

\* What the read of a style ensures: nothing new, if the styled document will do.
LEMMA StyleHitAnswers ==
  ASSUME Fresh0, ~history.crossed, StyleHit
  PROVE  Answers(dom, styled, viewport)
BY DEF Fresh0, StyleHit, Hit, Answers

LEMMA ReadIsTrusted ==
  ASSUME Seeded, Fresh0, Recalled, Trusted, ~history.crossed, Read
  PROVE  Trusted'
<1>0. /\ Memoed(dom, memo) /\ memo.early \in BOOLEAN
      /\ Ripe(dom, memo) => ~memo'.early
  BY ReadingRecalls DEF Recalled
<1>1. /\ Whole(dom) /\ Near(dom, styled) /\ dom.sheets \in Nat /\ IsCache(styles)
      /\ (~styles.bounded => Trusty(dom, memo, styles))
      /\ DOMAIN history = {"crossed", "seededStyles", "seededBoxes"}
  BY DEF Seeded, StylesSeeded, IsCache, Fresh0, Trusted
<1>2. ASSUME NEW mode, NEW corrected, NEW done \in Ensured(dom, styled, viewport, mode, corrected)
      PROVE  /\ Whole(done[1]) /\ Sheeted(dom, done[1]) /\ Answers(done[1], done[2], viewport)
             /\ done[1].sheets = dom.sheets /\ done[1].tree = dom.tree
             /\ done[1].sheets \in Nat /\ (~styles.bounded => Trusty(done[1], memo', styles))
             /\ InDocument(done[1]) = InDocument(dom)
             /\ done[1] = dom \/ done[1] = Scanned(dom)
  <2>1. /\ Whole(done[1]) /\ Sheeted(dom, done[1]) /\ Answers(done[1], done[2], viewport)
        /\ done[1].sheets = dom.sheets /\ done[1].tree = dom.tree /\ done[1].root = dom.root
    BY <1>1, <1>2, EnsuredSheets
  <2>2. InDocument(done[1]) = InDocument(dom)
    BY <2>1 DEF InDocument, IsConnected
  <2>3. ~styles.bounded => Trusty(done[1], memo', styles)
    BY <1>0, <1>1, <2>1, SheetedTruth
  <2>4. done[1] = dom \/ done[1] = Scanned(dom)
    BY <1>2 DEF Ensured
  <2>5. QED
    BY <1>1, <2>1, <2>2, <2>3, <2>4
<1>3. \A n : StyleTarget(n) /\ IsConnected(dom, n) => n \in InDocument(dom)
  BY StyleAssumption DEF StyleTarget, InDocument
<1>4. ASSUME dom'.sheets \in Nat, ~styles.bounded /\ ~styles'.bounded => Trusty(dom', memo', styles'),
             styles.bounded => styles'.bounded
      PROVE  Trusted'
  BY <1>4 DEF Trusted
<1>20. ~styles.bounded => Trusty(dom, memo', styles)
  <2>1. Sheeted(dom, dom)
    BY <1>1 DEF Sheeted
  <2>2. QED
    BY <1>0, <1>1, <2>1, SheetedTruth
<1>21. \A n : /\ Memoed(dom, Remembered(dom, memo, {n}))
             /\ Remembered(dom, memo, {n}).early = (memo.early \/ dom.sens # SelectsMark(dom))
  BY <1>0, <1>1, RememberedFacts
<1>5. ASSUME NEW done, done \in Ensured(dom, styled, viewport, "sheets", FALSE), dom' = done[1],
             styles' = styles
      PROVE  Trusted'
  BY <1>1, <1>2, <1>4, <1>5
<1>6. PICK n \in Ids, p \in Props :
        \/ ReadDetachedStyle(n) \/ ReadCurrentProperty(n, p)
        \/ BoundedProperty(n, p) \/ ReadDetachedGeometry(n)
        \/ ReadCurrentGeometry(n) \/ BoundedGeometry(n)
        \/ ForceProperty(n, p) \/ SnapshotProperty(n, p) \/ ReadStyle(n) \/ ReuseStyle(n)
        \/ ForceGeometry(n) \/ ExactGeometry
  <2>1. 1 \in Ids /\ "inline" \in Props
    BY DomAssumption DEF Ids, Props
  <2>2. QED
    BY <2>1, Zenon DEF Read
<1>7. CASE ReadDetachedStyle(n)
  <2>1. dom' = dom /\ styles' = [styles EXCEPT !.entries[n] = None]
    BY <1>7 DEF ReadDetachedStyle
  <2>2. styles'.bounded = styles.bounded
    BY <1>1, <2>1 DEF IsCache
  <2> DEFINE v == None
  <2>3. v = None /\ styles' = [styles EXCEPT !.entries[n] = v]
    BY <2>1
  <2> HIDE DEF v
  <2>4. ~styles.bounded => Trusty(dom, memo', styles')
    BY <1>20, <2>3, PutTruth
  <2>5. QED
    BY <1>1, <1>4, <2>1, <2>2, <2>4
<1>8. CASE ReadCurrentProperty(n, p)
  <2> DEFINE v == Answer(styled, n)
             digest == Digest(dom, memo, n)
             mixed == memo'.early
  <2>1. /\ StyleTarget(n) /\ IsConnected(dom, n) /\ StyleHit /\ dom' = dom
        /\ memo' = Remembered(dom, memo, {n})
        /\ styles' = RememberProperty(dom, styles, n, digest, p, v, mixed)
    BY <1>8 DEF ReadCurrentProperty, Digests
  <2>2. mixed = (memo.early \/ dom.sens # SelectsMark(dom))
    BY <1>21, <2>1
  <2>3. Answers(dom, styled, viewport) /\ n \in InDocument(dom)
    BY <1>3, <2>1, StyleHitAnswers
  <2>4. Tells(dom, memo', digest, v, mixed)
    <3> DEFINE k == memo'
    <3>1. Sheeted(dom, dom) /\ (~mixed => ~k.early)
      BY <1>1 DEF Sheeted
    <3> HIDE DEF k, mixed
    <3>2. Tells(dom, k, digest, v, mixed)
      BY <1>0, <1>1, <2>2, <2>3, <3>1, ReadTells
    <3>3. QED
      BY <3>2 DEF k
  <2> HIDE DEF v, digest, mixed
  <2>5. styles' = RememberProperty(dom, styles, n, digest, p, v, mixed)
    BY <2>1 DEF v, digest, mixed
  <2>6. styles'.bounded = styles.bounded
    BY <1>1, <2>5, RememberBounds
  <2>7. ~styles.bounded => Trusty(dom, memo', styles')
    BY <1>1, <1>20, <2>4, <2>5, RememberTruth
  <2>8. QED
    BY <1>1, <1>4, <2>1, <2>6, <2>7
<1>9. CASE ForceProperty(n, p)
  <2> DEFINE first == Remembered(dom, memo, {n})
  <2>1. PICK done \in Ensured(dom, styled, viewport, "sheets", FALSE), cost \in Costs :
          LET c == IF ShouldSnapshot(cost) THEN Snapshot(done[1], first, styles, done[2]) ELSE styles
              kept == RememberProperty(done[1], c, n, Digest(dom, memo, n), p, Answer(done[2], n),
                                       first.early)
          IN /\ dom' = done[1]
             /\ memo' = IF ShouldSnapshot(cost)
                        THEN Remembered(done[1], first, InDocument(done[1])) ELSE first
             /\ styles' = [kept EXCEPT !.bounded = Trips(cost)]
    BY <1>9, Zenon DEF ForceProperty
  <2>2. StyleTarget(n) /\ IsConnected(dom, n) /\ ~styles.bounded
    BY <1>9 DEF ForceProperty, Misses
  <2> DEFINE c == IF ShouldSnapshot(cost) THEN Snapshot(done[1], first, styles, done[2]) ELSE styles
             v == Answer(done[2], n)
             digest == Digest(dom, memo, n)
             mixed == first.early
             kept == RememberProperty(done[1], c, n, digest, p, v, mixed)
             trips == Trips(cost)
  <2>3. dom' = done[1] /\ styles' = [kept EXCEPT !.bounded = trips]
    BY <2>1
  <2> DEFINE e == done[1]
             s == done[2]
  <2>4. /\ Whole(e) /\ e.sheets \in Nat /\ Answers(e, s, viewport) /\ Trusty(e, memo', styles)
        /\ e.sheets = dom.sheets /\ e.tree = dom.tree /\ n \in InDocument(e) /\ n \in InDocument(dom)
        /\ Sheeted(dom, e) /\ (e = dom \/ e = Scanned(dom))
    BY <1>2, <1>3, <2>2
  <2>11. /\ mixed = (memo.early \/ dom.sens # SelectsMark(dom)) /\ Memoed(dom, first)
         /\ first.early \in BOOLEAN
    BY <1>0, <1>21
  <2>12. Memoed(e, first) /\ (~mixed => ~memo'.early)
    <3> DEFINE k == memo'
               S == {n}
               T == InDocument(e)
    <3>1. k = Remembered(dom, memo, S) \/ k = Remembered(e, Remembered(dom, memo, S), T)
      BY <2>1
    <3>2. first = Remembered(dom, memo, S)
      OBVIOUS
    <3> HIDE DEF k, S, T, e, first
    <3>3. Memoed(e, first)
      BY <1>0, <1>1, <2>4, <3>2, DigestsRecall
    <3>4. /\ Ripe(dom, memo) => ~k.early
      BY <1>0, <1>1, <2>4, <3>1, DigestsRecall
    <3>5. QED
      BY <2>11, <3>3, <3>4 DEF Ripe, k
  <2> HIDE DEF first
  <2>5. Tells(e, memo', digest, v, mixed)
    <3> DEFINE k == memo'
    <3>1. ~mixed => ~k.early
      BY <2>12
    <3> HIDE DEF e, s, k, mixed
    <3>2. Tells(e, k, Digest(dom, memo, n), Answer(s, n), mixed)
      BY <1>0, <1>1, <2>4, <2>11, <3>1, ReadTells
    <3>3. QED
      BY <3>2 DEF e, s, k
  <2>6. Trusty(e, memo', c)
    <3>1. Trusty(e, memo', Snapshot(e, first, styles, s))
      <4> DEFINE k == memo'
      <4>1. ~first.early => ~k.early
        BY <2>12
      <4>2. Trusty(e, k, styles)
        BY <2>4
      <4> HIDE DEF e, s, k
      <4>3. Trusty(e, k, Snapshot(e, first, styles, s))
        BY <2>4, <2>11, <2>12, <4>1, <4>2, SnapshotTruth
      <4>4. QED
        BY <4>3 DEF k
    <3>2. QED
      BY <2>4, <3>1
  <2> HIDE DEF c, v, digest, mixed, trips
  <2>7. Trusty(e, memo', kept)
    <3> HIDE DEF e, kept
    <3>1. kept = RememberProperty(e, c, n, digest, p, v, mixed)
      BY DEF kept, e
    <3>2. QED
      BY <2>4, <2>5, <2>6, <3>1, RememberTruth
  <2> HIDE DEF kept, e, s
  <2>8. DOMAIN styles' = DOMAIN kept /\ styles'.entries = kept.entries
    BY <2>3, <2>7 DEF Trusty, IsCache
  <2>9. Trusty(e, memo', styles')
    BY <2>7, <2>8 DEF Trusty, IsCache
  <2>10. QED
    BY <1>4, <2>2, <2>3, <2>4, <2>9 DEF e
<1>10. CASE ReadStyle(n)
  <2>1. PICK done \in IF StyleHit THEN {<<dom, styled>>}
                      ELSE Ensured(dom, styled, viewport, "sheets", FALSE) :
          /\ dom' = done[1]
          /\ styles' = RememberFull(done[1], styles, n, Digest(dom, memo, n), Answer(done[2], n),
                                    memo'.early)
    BY <1>10, Zenon DEF ReadStyle
  <2>2. StyleTarget(n) /\ IsConnected(dom, n) /\ memo' = Remembered(dom, memo, {n})
    BY <1>10, Zenon DEF ReadStyle, Digests
  <2> DEFINE e == done[1]
             s == done[2]
             v == Answer(s, n)
             digest == Digest(dom, memo, n)
             mixed == memo'.early
  <2>3. dom' = e /\ styles' = RememberFull(e, styles, n, digest, v, mixed)
    BY <2>1
  <2>4. /\ Whole(e) /\ e.sheets \in Nat /\ Answers(e, s, viewport)
        /\ (~styles.bounded => Trusty(e, memo', styles))
        /\ e.sheets = dom.sheets /\ Sheeted(dom, e) /\ (e = dom \/ e = Scanned(dom))
    <3>1. CASE StyleHit
      <4>1. done[1] = dom /\ done[2] = styled
        BY <2>1, <3>1
      <4>2. Answers(dom, styled, viewport)
        BY <3>1, StyleHitAnswers
      <4>3. Sheeted(dom, dom)
        BY <1>1 DEF Sheeted
      <4>4. QED
        BY <1>1, <1>20, <4>1, <4>2, <4>3
    <3>2. CASE ~StyleHit
      <4>1. done \in Ensured(dom, styled, viewport, "sheets", FALSE)
        BY <2>1, <3>2
      <4>2. QED
        BY <1>2, <4>1
    <3>3. QED
      BY <3>1, <3>2
  <2> HIDE DEF e, s
  <2>9. n \in InDocument(dom) /\ mixed = (memo.early \/ dom.sens # SelectsMark(dom))
    BY <1>3, <1>21, <2>2
  <2>5. Tells(e, memo', digest, v, mixed)
    <3> DEFINE k == memo'
    <3>1. ~mixed => ~k.early
      OBVIOUS
    <3> HIDE DEF k, mixed
    <3>2. Tells(e, k, digest, v, mixed)
      BY <1>0, <1>1, <2>4, <2>9, <3>1, ReadTells
    <3>3. QED
      BY <3>2 DEF k
  <2> HIDE DEF v, digest, mixed
  <2>6. styles'.bounded = styles.bounded
    BY <1>1, <2>3, RememberBounds
  <2>7. ~styles.bounded => Trusty(e, memo', styles')
    BY <2>3, <2>4, <2>5, RememberTruth
  <2>8. QED
    BY <1>4, <2>3, <2>4, <2>6, <2>7
<1>11. CASE SnapshotProperty(n, p)
  <2> DEFINE first == Remembered(dom, memo, {n})
  <2>1. PICK done \in Ensured(dom, styled, viewport, "sheets", FALSE) :
          /\ dom' = done[1]
          /\ styles' = RememberProperty(done[1], Snapshot(done[1], first, styles, done[2]), n,
                                        Digest(done[1], first, n), p, Answer(done[2], n), first.early)
    BY <1>11, Zenon DEF SnapshotProperty
  <2>2. styles.bounded
    BY <1>11 DEF SnapshotProperty, Misses
  <2> HIDE DEF first
  <2> DEFINE c == Snapshot(done[1], first, styles, done[2])
  <2>3. IsCache(c) /\ c.bounded = styles.bounded
    <3> DEFINE b == Synced(done[1], styles)
    <3>1. DOMAIN b = DOMAIN styles /\ b.bounded = styles.bounded
      BY <1>1 DEF Synced, IsCache
    <3>2. \A f, w : [b EXCEPT !.snapshot = w, !.entries = f].bounded = styles.bounded
                    /\ DOMAIN [b EXCEPT !.snapshot = w, !.entries = f] = DOMAIN styles
                    /\ [b EXCEPT !.snapshot = w, !.entries = f].entries = f
      BY <1>1, <3>1 DEF IsCache
    <3> DEFINE New(m) == IF m \in InDocument(done[1])
                         THEN Some([EntryFor(b, m, Digest(done[1], first, m), first.early) EXCEPT
                                !.full = IF Answer(done[2], m) = None THEN None
                                         ELSE Some(Answer(done[2], m))])
                         ELSE b.entries[m]
               f == [m \in Ids |-> New(m)]
               w == done[1].layout
    <3>3. c = [b EXCEPT !.snapshot = w, !.entries = f]
      BY DEF Snapshot
    <3>4. DOMAIN f = Ids
      OBVIOUS
    <3> HIDE DEF f, w, b, c
    <3>5. c.bounded = styles.bounded /\ DOMAIN c = DOMAIN styles /\ c.entries = f
      BY <3>2, <3>3
    <3>6. QED
      BY <1>1, <3>4, <3>5 DEF IsCache
  <2>4. styles'.bounded = c.bounded
    <3> DEFINE v == Answer(done[2], n)
               digest == Digest(done[1], first, n)
               mixed == first.early
    <3>1. styles' = RememberProperty(done[1], c, n, digest, p, v, mixed)
      BY <2>1
    <3> HIDE DEF c, v, digest, mixed
    <3>2. QED
      BY <2>3, <3>1, RememberBounds
  <2>5. dom'.sheets \in Nat
    BY <1>2, <2>1
  <2>6. QED
    BY <1>4, <2>2, <2>3, <2>4, <2>5
<1>12. CASE BoundedProperty(n, p)
  <2> DEFINE c == Synced(dom, styles)
             digest == Digest(dom, memo, n)
             mixed == memo'.early
  <2>1. /\ styles.bounded /\ dom' = dom
        /\ styles' = c \/ \E v : styles' = RememberProperty(dom, c, n, digest, p, v, mixed)
    BY <1>12, Zenon DEF BoundedProperty, Misses
  <2>2. IsCache(c) /\ c.bounded = styles.bounded
    BY <1>1 DEF Synced, IsCache
  <2> HIDE DEF c, digest, mixed
  <2>3. \A v : RememberProperty(dom, c, n, digest, p, v, mixed).bounded = c.bounded
    BY <2>2, RememberBounds
  <2>4. styles'.bounded = c.bounded
    BY <2>1, <2>3
  <2>5. QED
    BY <1>1, <1>4, <2>1, <2>2, <2>4
<1>13. CASE ReadDetachedGeometry(n) \/ ReadCurrentGeometry(n) \/ BoundedGeometry(n) \/ ReuseStyle(n)
  <2>1. dom' = dom /\ styles' = styles
    <3>1. CASE ReadDetachedGeometry(n)
      BY <3>1 DEF ReadDetachedGeometry
    <3>2. CASE ReadCurrentGeometry(n)
      BY <3>2 DEF ReadCurrentGeometry
    <3>3. CASE BoundedGeometry(n)
      BY <3>3 DEF BoundedGeometry
    <3>4. CASE ReuseStyle(n)
      BY <3>4 DEF ReuseStyle
    <3>5. QED
      BY <1>13, <3>1, <3>2, <3>3, <3>4
  <2>2. QED
    BY <1>1, <1>4, <1>20, <2>1
<1>14. CASE ForceGeometry(n) \/ ExactGeometry
  <2>1. styles' = styles
    BY <1>14, Zenon DEF ForceGeometry, ExactGeometry
  <2>2. \E done \in Ensured(dom, styled, viewport, "sheets", FALSE) : dom' = done[1]
    BY <1>14, Zenon DEF ForceGeometry, ExactGeometry
  <2>3. QED
    BY <1>5, <2>1, <2>2
<1>15. QED
  BY <1>6, <1>7, <1>8, <1>9, <1>10, <1>11, <1>12, <1>13, <1>14

LEMMA RenderIsTrusted ==
  ASSUME Fresh0, Recalled, Trusted, ~history.crossed, Render \/ RebuildFails
  PROVE  Trusted'
<1>0. Ripe(dom, memo) => ~memo'.early
  BY ReadingRecalls
<1>1. /\ Whole(dom) /\ Near(dom, styled) /\ dom.sheets \in Nat
  BY DEF Fresh0, Trusted
<1>2. CASE Render
  <2> DEFINE vp == viewport'
             mode == "full"
             once == FALSE
  <2>1. PICK first \in Ensured(dom, styled, vp, mode, once) : dom' = first[1]
    BY <1>2, Zenon DEF Render
  <2>2. styles' = styles
    BY <1>2 DEF Render
  <2> HIDE DEF vp, mode, once
  <2>3. Sheeted(dom, first[1])
    BY <1>1, <2>1, EnsuredSheets
  <2>4. QED
    BY <1>0, <2>1, <2>2, <2>3, TrustedOn
<1>3. CASE RebuildFails
  <2>1. dom' = Scanned(dom) /\ styles' = styles
    BY <1>3 DEF RebuildFails
  <2>2. Sheeted(dom, Scanned(dom))
    BY <1>1, ScannedSheets
  <2>3. QED
    BY <1>0, <2>1, <2>2, TrustedOn
<1>4. QED
  BY <1>2, <1>3

LEMMA NothingIsTrusted == ASSUME NEW d, NEW mem, NEW e PROVE Trusty(d, mem, NoStyles(e))
BY DEF NoStyles, Trusty, IsCache

LEMMA ResetIsTrusted ==
  ASSUME Trusted, ~history.crossed, SetLoaderOrFactory \/ LoadHtml
  PROVE  Trusted'
<1>1. styles' = NoStyles(dom) \/ styles' = NoStyles(dom')
  BY DEF SetLoaderOrFactory, LoadHtml, Invalidated
<1>2. Trusty(dom', memo', styles')
  BY <1>1, NothingIsTrusted
<1>3. dom'.sheets \in Nat
  <2>1. dom.sheets \in Nat
    BY DEF Trusted
  <2>2. CASE SetLoaderOrFactory
    BY <2>1, <2>2 DEF SetLoaderOrFactory
  <2>3. CASE LoadHtml
    <3>1. PICK t \in Documents : dom' = Parse(dom, t)
      BY <2>3 DEF LoadHtml
    <3>2. dom'.sheets = dom.sheets + 1
      BY <3>1 DEF Parse
    <3>3. QED
      BY <2>1, <3>2
  <2>4. QED
    BY <2>2, <2>3
<1>4. QED
  BY <1>2, <1>3 DEF Trusted

\* What is remembered for the digest of now is what the cascade makes of now.
LEMMA TrustIsEnough == Fresh0 /\ Seeded /\ Recalled /\ Trusted => ReuseIsSound
<1> SUFFICES ASSUME Fresh0, Seeded, Recalled, Trusted, ~styles.bounded, ~history.crossed,
                    NEW n \in InDocument(dom),
                    styles.entries[n] # None, ~styles.entries[n][1].mixed
             PROVE  ReusesOnlyTruth(n)
  BY DEF ReuseIsSound
<1> DEFINE e == styles.entries[n][1]
           truth == Cascade(LayoutView(dom), n, viewport)
<1>1. n \in Ids /\ Whole(dom)
  BY SeededFacts DEF Fresh0
<1>2. Truthful(dom, memo, e) /\ Memoed(dom, memo)
  BY <1>1 DEF Trusted, Trusty, Recalled
<1>3. ASSUME e.digest = Digest(dom, memo, n)
      PROVE  /\ e.full # None => e.full[1] = truth
             /\ \A p \in Props : e.props[p] # None => e.props[p][1] = truth
  <2>1. e.digest[1] = dom.sheets
    <3> DEFINE rows == [i \in DOMAIN Elems(dom.tree, n) |-> DigestRow(dom, memo, Elems(dom.tree, n)[i])]
    <3>1. e.digest = <<dom.sheets, viewport, rows>>
      BY <1>3, DigestShape DEF Digest
    <3> HIDE DEF rows, e
    <3>2. QED
      BY <3>1
  <2> HIDE DEF e, truth
  <2>2. /\ Ripe(dom, memo)
        /\ e.full # None => e.full[1] = Told(e.digest, ViewTexts(dom))
        /\ \A p \in Props : e.props[p] # None => e.props[p][1] = Told(e.digest, ViewTexts(dom))
    BY <1>2, <2>1 DEF Truthful, e
  <2>3. Told(e.digest, ViewTexts(dom)) = truth
    BY <1>1, <1>2, <1>3, <2>2, CascadeIsTold DEF Digest, Ripe, truth
  <2>4. QED
    BY <2>2, <2>3
<1>4. ReusableFull(dom, memo, styles, n) => e.digest = Digest(dom, memo, n)
  BY DEF ReusableFull
<1>5. \A p \in Props : ReusableProperty(dom, memo, styles, n, p) => e.digest = Digest(dom, memo, n)
  BY DEF ReusableProperty
<1>6. ReusesOnlyTruth(n)
  <2> HIDE DEF truth
  <2>1. (ReusableFull(dom, memo, styles, n) => e.full = None \/ e.full[1] = truth)
    BY <1>3, <1>4
  <2>2. \A p \in Props : (ReusableProperty(dom, memo, styles, n, p) /\ e.props[p] # None) => e.props[p][1] = truth
    BY <1>3, <1>5
  <2>3. QED
    BY <2>1, <2>2, Zenon DEF ReusesOnlyTruth, truth
<1>7. QED
  BY <1>6

LEMMA TrustedAlways == Spec => []Trusted
<1>1. Init => Trusted
  <2> SUFFICES ASSUME Init PROVE Trusted
    OBVIOUS
  <2>1. PICK t \in Documents : dom = Parse(Blank, t)
    BY DEF Init
  <2>2. dom.sheets = 2
    BY <2>1 DEF Parse, Blank
  <2>3. Trusty(dom, memo, styles)
    BY NothingIsTrusted DEF Init
  <2>4. QED
    BY <2>2, <2>3 DEF Trusted
<1>2. Seeded /\ Fresh0 /\ Recalled /\ Trusted /\ [Next]_vars => Trusted'
  <2> SUFFICES ASSUME Seeded, Fresh0, Recalled, Trusted, [Next]_vars PROVE Trusted'
    OBVIOUS
  <2>1. CASE UNCHANGED vars
    BY <2>1 DEF vars, Trusted, Trusty, IsCache
  <2>2. CASE Next
    <3>1. ~history.crossed
      BY <2>2 DEF Next, Reading, Writing
    <3>2. (Mutate /\ Writing) \/ (Make /\ Writing) \/ Read \/ Render \/ RebuildFails \/ SetLoaderOrFactory \/ LoadHtml
      BY <2>2 DEF Next
    <3>3. QED
      BY <3>1, <3>2, MutateIsTrusted, MakeIsTrusted, ReadIsTrusted, RenderIsTrusted, ResetIsTrusted
  <2>3. QED
    BY <2>1, <2>2
<1>3. QED
  BY <1>1, <1>2, SeededAlways, Fresh0Always, RecalledAlways, PTL DEF Spec

\* A computed style that is remembered and reused is what the cascade would
\* make now (layout_input_digest): the digest leaves out the texts of the
\* stylesheets, and what it leaves out cannot change without its generation;
\* the levels it takes from the memo are those of a document that looks the
\* same.  Set apart: entries whose digest, or a remembered level in it, is
\* older than the scan its stylesheets call for, the bounded mode, and the
\* moves the marking rules do not see.
THEOREM ReuseAlwaysSound == Spec => []ReuseIsSound
<1>1. Fresh0 /\ Seeded /\ Recalled /\ Trusted => ReuseIsSound
  BY TrustIsEnough
<1>2. QED
  BY <1>1, SeededAlways, Fresh0Always, RecalledAlways, TrustedAlways, PTL
=============================================================================
