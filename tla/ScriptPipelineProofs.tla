------------------------- MODULE ScriptPipelineProofs -------------------------
(***************************************************************************)
(* Theorems about ScriptPipeline, for any document, created scripts, mixes *)
(* of kinds and bounds.                                                    *)
(***************************************************************************)
EXTENDS ScriptPipeline, FiniteSetTheorems, InductionLemmas, TLAPS

\* A sequence, whatever it holds.
Listing(q) == q \in Seq({q[i] : i \in DOMAIN q})

Types ==
    /\ kind \in Mixes
    /\ tasks \in Seq(Task)
    /\ flying \subseteq What
    /\ shutDown = FALSE
    /\ busy \in BOOLEAN
    /\ ordered \in Seq(Scripts)
    /\ inserted \in Seq(Scripts)
    /\ Listing(stack) /\ Listing(ran)
    /\ \A k \in DOMAIN stack : stack[k][1].by \in {"page", "shim"}

-----------------------------------------------------------------------------
(* Ordered scripts run in turn.  The strengthening: the queue holds the      *)
(* latest insertions in their order, so those released from it are a prefix, *)
(* and only the last of these is loading or running, in one place.           *)

IsOrdered(l) == l.by = "shim" /\ kind[l.script] = "ordered"

Released == Len(inserted) - Len(ordered)
InTheAir == {l \in flying : IsOrdered(l)}
Queued == {k \in DOMAIN tasks : IsOrdered(tasks[k].what)}
OnStack == {k \in DOMAIN stack : IsOrdered(stack[k][1])}
Latest(l) == busy /\ Released \in DOMAIN inserted /\ l.script = inserted[Released]

InTurn ==
    /\ Released \in Nat
    /\ \A k \in DOMAIN ordered : ordered[k] = inserted[Released + k]
    /\ \A i, j \in DOMAIN inserted : inserted[i] = inserted[j] => i = j
    /\ \A i \in DOMAIN inserted : inserted[i] \in started /\ kind[inserted[i]] = "ordered"
    /\ ~busy => ordered = <<>>
    /\ \A l \in InTheAir : Latest(l) /\ Queued = {} /\ OnStack = {}
    /\ \A k \in Queued : Latest(tasks[k].what) /\ OnStack = {} /\ Queued = {k}
    /\ \A k \in OnStack : Latest(stack[k][1]) /\ k = 1
    /\ \A i \in DOMAIN ran : IsOrdered(ran[i]) =>
          \E j \in DOMAIN inserted : j <= Released /\ ran[i].script = inserted[j]

\* What appending and dropping the last do to a sequence.
LEMMA Appended ==
    ASSUME NEW q, Listing(q), NEW e
    PROVE  /\ Listing(Append(q, e)) /\ Len(q) \in Nat /\ DOMAIN q = 1 .. Len(q)
           /\ DOMAIN Append(q, e) = DOMAIN q \cup {Len(q) + 1}
           /\ Append(q, e)[Len(q) + 1] = e
           /\ \A i \in DOMAIN q : Append(q, e)[i] = q[i]
<1> DEFINE S == {q[i] : i \in DOMAIN q}
           T == S \cup {e}
           a == Append(q, e)
<1>1. q \in Seq(S)
  BY DEF Listing
<1> HIDE DEF S
<1>2. q \in Seq(T) /\ e \in T
  BY <1>1
<1>3. /\ a \in Seq(T) /\ Len(q) \in Nat /\ DOMAIN q = 1 .. Len(q)
      /\ DOMAIN a = DOMAIN q \cup {Len(q) + 1} /\ DOMAIN a = 1 .. Len(a)
      /\ a[Len(q) + 1] = e /\ \A i \in DOMAIN q : a[i] = q[i]
  BY <1>2
<1> HIDE DEF T, a
<1>4. a \in Seq({a[i] : i \in DOMAIN a})
  BY <1>3
<1>5. QED
  BY <1>3, <1>4 DEF Listing, a

LEMMA Popped ==
    ASSUME NEW q, Listing(q), q # <<>>
    PROVE  LET r == SubSeq(q, 1, Len(q) - 1)
           IN  /\ Listing(r) /\ Len(q) \in DOMAIN q /\ DOMAIN q = 1 .. Len(q)
               /\ DOMAIN r = DOMAIN q \ {Len(q)}
               /\ \A i \in DOMAIN r : r[i] = q[i]
<1> DEFINE S == {q[i] : i \in DOMAIN q}
           r == SubSeq(q, 1, Len(q) - 1)
<1>1. q \in Seq(S)
  BY DEF Listing
<1> HIDE DEF S
<1>2. /\ r \in Seq(S) /\ Len(q) \in DOMAIN q /\ DOMAIN q = 1 .. Len(q)
      /\ DOMAIN r = DOMAIN q \ {Len(q)} /\ DOMAIN r = 1 .. Len(r)
      /\ \A i \in DOMAIN r : r[i] = q[i]
  BY <1>1
<1> HIDE DEF r
<1>3. r \in Seq({r[i] : i \in DOMAIN r})
  BY <1>2
<1>4. QED
  BY <1>2, <1>3 DEF Listing, r

LEMMA Singleton == ASSUME NEW e PROVE Listing(<<e>>) /\ Listing(<<>>) /\ DOMAIN <<>> = {}
<1>1. <<e>> \in Seq({e}) /\ {<<e>>[i] : i \in DOMAIN <<e>>} = {e}
  OBVIOUS
<1>2. QED
  BY <1>1 DEF Listing

-----------------------------------------------------------------------------
(* Types. *)

LEMMA WhatType == \A by \in {"page", "shim"}, s \in Scripts : Load(by, s) \in What
BY WhatAssumption DEF Load

LEMMA PostedType ==
    ASSUME Types, NEW l \in What
    PROVE  /\ Posted([what |-> l, relevant |-> TRUE]) = Append(tasks, [what |-> l, relevant |-> TRUE])
           /\ Posted([what |-> l, relevant |-> TRUE]) \in Seq(Task)
<1>1. [what |-> l, relevant |-> TRUE] \in Task
  BY DEF Task
<1>2. QED
  BY <1>1 DEF Types, Posted

LEMMA TypesInit == Init => Types
<1>1. \A S : <<>> \in Seq(S)
  OBVIOUS
<1>2. Listing(<<>>) /\ DOMAIN <<>> = {}
  BY Singleton
<1>3. QED
  BY <1>1, <1>2 DEF Init, QueueInit, Types

\* The steps of C++ between pieces of JS, and those of the page's own JS.
Aside ==
    /\ UNCHANGED <<kind, loadVars, shutDown, stack, ordered, busy, inserted, ran>>
    /\ started \subseteq started'

Between ==
    \/ DeadlinePasses \/ PassStep \/ PassEnds \/ FireLifecycleEvent
    \/ CallMark \/ CallCurrent \/ CallCodeCut \/ CallReset
    \/ WaitCheckpoint \/ WaitLeaves

LEMMA BetweenAside == Between => Aside
<1>1. DeadlinePasses \/ PassStep \/ PassEnds \/ FireLifecycleEvent => Aside
  BY DEF Aside, DeadlinePasses, PassStep, PassEnds, FireLifecycleEvent, setVars, shimVars
<1>2. CallMark => Aside
  BY DEF Aside, CallMark, OwnScript
<1>3. CallCurrent \/ CallReset => Aside
  BY DEF Aside, CallCurrent, CallReset
<1>4. CallCodeCut => Aside
  BY DEF Aside, CallCodeCut, shimVars
<1>5. WaitCheckpoint \/ WaitLeaves => Aside
  BY DEF Aside, WaitCheckpoint, WaitLeaves, setVars, shimVars
<1>6. QED
  BY <1>1, <1>2, <1>3, <1>4, <1>5 DEF Between

LEMMA CollectTypes == Types /\ Collect => Types'
<1> SUFFICES ASSUME Types, Collect PROVE Types'
  OBVIOUS
<1>1. /\ UNCHANGED <<kind, shutDown, stack, ordered, busy, inserted, ran>>
      /\ \E S \in SUBSET Slots : \E q \in InDocumentOrder(S) :
            tasks' = [i \in DOMAIN q |-> Delivery("page", q[i])]
      /\ \E S \in SUBSET Slots : flying' = {Load("page", s) : s \in S}
  <2>1. PICK goes \in [{s \in Slots : kind[s] \in External} -> {"cached", "flies", "refused"}] :
          /\ flying' = {Load("page", s) : s \in {x \in DOMAIN goes : goes[x] = "flies"}}
          /\ \E q \in InDocumentOrder({x \in DOMAIN goes : goes[x] = "cached"}) :
               tasks' = [i \in DOMAIN q |-> Delivery("page", q[i])]
    BY DEF Collect
  <2>2. {x \in DOMAIN goes : goes[x] = "flies"} \in SUBSET Slots
        /\ {x \in DOMAIN goes : goes[x] = "cached"} \in SUBSET Slots
    OBVIOUS
  <2>3. UNCHANGED <<kind, shutDown, stack, ordered, busy, inserted, ran>>
    BY DEF Collect, shimVars
  <2>4. QED
    BY <2>1, <2>2, <2>3
<1>2. Slots \subseteq Scripts
  BY DEF Slots, Scripts
<1>3. flying' \subseteq What
  BY <1>1, <1>2, WhatType
<1>4. tasks' \in Seq(Task)
  <2>0. PICK S \in SUBSET Slots : \E q \in InDocumentOrder(S) :
          tasks' = [i \in DOMAIN q |-> Delivery("page", q[i])]
    BY <1>1
  <2>1. PICK q \in InDocumentOrder(S) : tasks' = [i \in DOMAIN q |-> Delivery("page", q[i])]
    BY <2>0
  <2>2. Cardinality(S) \in Nat
    BY <1>2, ScriptsAssumption, FS_Subset, FS_CardinalityType
  <2>3. q \in [1 .. Cardinality(S) -> S]
    BY DEF InDocumentOrder
  <2>4. \A i \in 1 .. Cardinality(S) : Delivery("page", q[i]) \in Task
    BY <1>2, <2>3, WhatType DEF Delivery, Task
  <2>5. QED
    BY <2>1, <2>2, <2>3, <2>4
<1>5. QED
  BY <1>1, <1>3, <1>4 DEF Types

LEMMA StartTypes ==
    ASSUME Types, NEW s \in Scripts, StartShimLoad(s)
    PROVE  tasks' \in Seq(Task) /\ flying' \subseteq What /\ UNCHANGED shutDown
<1>1. Load("shim", s) \in What
  BY WhatType
<1>2. Posted(Delivery("shim", s)) \in Seq(Task)
  BY <1>1, PostedType DEF Delivery
<1>3. QED
  BY <1>1, <1>2 DEF StartShimLoad, Post, BeginExternalWork, Types

LEMMA InsertTypes ==
    ASSUME Types, NEW s \in Scripts, Insert(s)
    PROVE  Types'
<1>1. kind' = kind /\ shutDown' = shutDown /\ busy' \in BOOLEAN
  BY DEF Insert, Types
<1>2. CASE kind[s] \in {"inline", "local"}
  <2> DEFINE e == <<Load("shim", s), current>>
             l == Load("shim", s)
  <2>1. stack' = Append(stack, e) /\ ran' = Append(ran, l)
    BY <1>2 DEF Insert
  <2>2. UNCHANGED <<tasks, flying, ordered, inserted>>
    BY <1>2 DEF Insert, loadVars
  <2>3. e[1].by = "shim"
    BY DEF Load
  <2> HIDE DEF e, l
  <2>4. Listing(stack') /\ Listing(ran') /\ \A k \in DOMAIN stack' : stack'[k][1].by \in {"page", "shim"}
    BY <2>1, <2>3, Appended DEF Types
  <2>5. QED
    BY <1>1, <2>2, <2>4 DEF Types
<1>3. CASE kind[s] \notin {"inline", "local"}
  <2>1. stack' = stack /\ ran' = ran
    BY <1>3 DEF Insert
  <2>2. inserted' \in Seq(Scripts) /\ ordered' \in Seq(Scripts)
    <3>1. inserted' \in {inserted, Append(inserted, s)} /\ ordered' \in {ordered, Append(ordered, s)}
      BY <1>3 DEF Insert
    <3>2. ordered \in Seq(Scripts) /\ inserted \in Seq(Scripts)
      BY DEF Types
    <3>3. Append(inserted, s) \in Seq(Scripts) /\ Append(ordered, s) \in Seq(Scripts)
      BY <3>2
    <3>4. QED
      BY <3>1, <3>2, <3>3
  <2>3. tasks' \in Seq(Task) /\ flying' \subseteq What
    BY <1>3, StartTypes DEF Insert, Types, loadVars
  <2>4. QED
    BY <1>1, <2>1, <2>2, <2>3 DEF Types
<1>4. QED
  BY <1>2, <1>3

LEMMA OnDoneTypes ==
    ASSUME Types, NEW s, OnDone(s)
    PROVE  /\ tasks' \in Seq(Task) /\ flying' \subseteq What /\ ordered' \in Seq(Scripts)
           /\ UNCHANGED shutDown /\ busy' \in BOOLEAN
<1>1. CASE kind[s] = "ordered" /\ ordered # <<>>
  <2>1. Head(ordered) \in Scripts /\ Tail(ordered) \in Seq(Scripts)
    BY <1>1 DEF Types
  <2>2. StartShimLoad(Head(ordered)) /\ ordered' = Tail(ordered)
    BY <1>1 DEF OnDone
  <2>3. busy' \in BOOLEAN
    BY <1>1 DEF OnDone, Types
  <2>4. QED
    BY <2>1, <2>2, <2>3, StartTypes
<1>2. CASE ~(kind[s] = "ordered" /\ ordered # <<>>)
  <2>1. UNCHANGED <<loadVars, ordered, shutDown>>
    BY <1>2 DEF OnDone
  <2>2. busy' \in BOOLEAN
    BY <1>2 DEF OnDone, Types
  <2>3. QED
    BY <2>1, <2>2 DEF Types, loadVars
<1>3. QED
  BY <1>1, <1>2

LEMMA CodeEndsTypes == Types /\ CodeEnds => Types'
<1> SUFFICES ASSUME Types, CodeEnds PROVE Types'
  OBVIOUS
<1>1. UNCHANGED <<kind, inserted, ran>> /\ stack # <<>> /\ stack' = Pop
  BY DEF CodeEnds
<1>2. Listing(stack') /\ \A k \in DOMAIN stack' : stack'[k][1].by \in {"page", "shim"}
  BY <1>1, Popped DEF Types, Pop
<1>3. tasks' \in Seq(Task) /\ flying' \subseteq What /\ ordered' \in Seq(Scripts)
      /\ shutDown' = shutDown /\ busy' \in BOOLEAN
  <2>1. UNCHANGED <<loadVars, ordered, busy, shutDown>> \/ OnDone(Top[1].script)
    BY DEF CodeEnds
  <2>2. QED
    BY <2>1, OnDoneTypes DEF Types, loadVars
<1>4. QED
  BY <1>1, <1>2, <1>3 DEF Types

LEMMA TaskHead ==
    ASSUME Types, tasks # <<>>
    PROVE  /\ Head(tasks) \in Task /\ Head(tasks).what \in What
           /\ Head(tasks).what.script \in Scripts
           /\ Tail(tasks) \in Seq(Task) /\ Head(tasks) = tasks[1] /\ 1 \in DOMAIN tasks
           /\ DOMAIN tasks \subseteq Nat /\ DOMAIN Tail(tasks) \subseteq Nat
           /\ \A k \in DOMAIN Tail(tasks) : k + 1 \in DOMAIN tasks /\ Tail(tasks)[k] = tasks[k + 1]
<1>1. tasks \in Seq(Task)
  BY DEF Types
<1>2. Head(tasks) \in Task
  BY <1>1
<1>3. Head(tasks).what \in What
  BY <1>2 DEF Task
<1>4. Head(tasks).what.script \in Scripts
  BY <1>3, WhatAssumption
<1>5. QED
  BY <1>1, <1>2, <1>3, <1>4

LEMMA RunTaskTypes ==
    ASSUME Types, NEW ok \in BOOLEAN, RunTask(ok)
    PROVE  Types'
<1> DEFINE l == Head(tasks).what
<1>1. /\ tasks # <<>> /\ UNCHANGED <<kind, inserted>>
      /\ tasks' = Tail(tasks) /\ shutDown' = shutDown /\ busy' \in BOOLEAN
  BY DEF RunTask, TakeTask, Types
<1>2. tasks' \in Seq(Task)
  BY <1>1, TaskHead
<1>3. /\ Listing(stack') /\ Listing(ran')
      /\ \A k \in DOMAIN stack' : stack'[k][1].by \in {"page", "shim"}
  <2> DEFINE e == <<l, current>>
  <2>1. \/ stack' = stack /\ ran' = ran
        \/ stack' = <<e>> /\ ran' = Append(ran, l)
    BY DEF RunTask
  <2>2. e[1].by \in {"page", "shim"}
    BY <1>1, TaskHead, WhatAssumption
  <2> HIDE DEF e, l
  <2>3. /\ Listing(stack) /\ Listing(ran)
        /\ \A k \in DOMAIN stack : stack[k][1].by \in {"page", "shim"}
    BY DEF Types
  <2>4. Listing(<<e>>) /\ Listing(Append(ran, l))
    BY <2>3, Appended, Singleton
  <2>5. \A k \in DOMAIN <<e>> : <<e>>[k][1].by \in {"page", "shim"}
    BY <2>2
  <2>6. QED
    BY <2>1, <2>3, <2>4, <2>5
<1>4. flying' \subseteq What /\ ordered' \in Seq(Scripts)
  <2>1. \/ flying' = flying /\ ordered' = ordered
        \/ /\ ordered # <<>> /\ ordered' = Tail(ordered)
           /\ flying' = flying \cup {Load("shim", Head(ordered))}
    BY DEF RunTask
  <2>2. ordered # <<>> => Head(ordered) \in Scripts /\ Tail(ordered) \in Seq(Scripts)
    BY DEF Types
  <2>3. QED
    BY <2>1, <2>2, WhatType DEF Types
<1>5. QED
  BY <1>1, <1>2, <1>3, <1>4 DEF Types

LEMMA TypesStep == Types /\ [Next]_vars => Types'
<1> SUFFICES ASSUME Types, [Next]_vars PROVE Types'
  OBVIOUS
<1>1. CASE UNCHANGED vars
  BY <1>1 DEF vars, setVars, loadVars, shimVars, Types
<1>2. ASSUME NEW l \in flying, Land(l) PROVE Types'
  BY <1>2, PostedType DEF Land, LandAndPost, Types, setVars, shimVars
<1>3. CASE CallCode
  <2> DEFINE l == Load("page", call.script)
             e == <<l, current>>
  <2>1. /\ stack' = <<e>> /\ ran' = Append(ran, l) /\ l.by = "page"
        /\ UNCHANGED <<kind, tasks, flying, shutDown, busy, ordered, inserted>>
    BY <1>3 DEF CallCode, loadVars, Load
  <2>2. \A k \in DOMAIN <<e>> : <<e>>[k][1].by \in {"page", "shim"}
    BY <2>1
  <2> HIDE DEF l, e
  <2>3. Listing(stack') /\ Listing(ran')
    BY <2>1, Appended, Singleton DEF Types
  <2>4. QED
    BY <2>1, <2>2, <2>3 DEF Types
<1>4. CASE CodeIsCut
  <2>1. stack' = <<>> /\ UNCHANGED <<kind, tasks, flying, shutDown, busy, ordered, inserted, ran>>
    BY <1>4 DEF CodeIsCut, loadVars
  <2>2. Listing(<<>>) /\ DOMAIN <<>> = {}
    BY Singleton
  <2>3. QED
    BY <2>1, <2>2 DEF Types
<1>5. CASE Between
  BY <1>5, BetweenAside DEF Aside, Types, loadVars
<1>6. QED
  BY <1>1, <1>2, <1>3, <1>4, <1>5, CollectTypes, InsertTypes, CodeEndsTypes, RunTaskTypes
     DEF Next, Between

-----------------------------------------------------------------------------
(* Ordered scripts run in turn. *)

LEMMA InTurnInit == Init => InTurn
BY DEF Init, QueueInit, InTurn, Released, InTheAir, Queued, OnStack

\* A step that starts no ordered script leaves the turn as it is: what is
\* ordered stays where it was, or moves up in the queue by d.
LEMMA TurnKept ==
    ASSUME Types, Types', InTurn, NEW d \in {0, 1},
           UNCHANGED <<kind, ordered, inserted, busy>>, started \subseteq started',
           InTheAir' \subseteq InTheAir,
           \A k \in Queued' : k + d \in Queued /\ tasks'[k] = tasks[k + d],
           \A k \in OnStack' : k \in OnStack /\ stack'[k] = stack[k],
           \A i \in DOMAIN ran' : IsOrdered(ran[i])' => i \in DOMAIN ran /\ ran'[i] = ran[i]
    PROVE  InTurn'
<1>1. Released' = Released /\ \A l : (IsOrdered(l)' <=> IsOrdered(l)) /\ (Latest(l)' <=> Latest(l))
  BY DEF Released, IsOrdered, Latest
<1>2. /\ Released \in Nat
      /\ \A k \in DOMAIN ordered' : ordered'[k] = inserted'[Released + k]
      /\ \A i, j \in DOMAIN inserted' : inserted'[i] = inserted'[j] => i = j
      /\ \A i \in DOMAIN inserted' : inserted'[i] \in started' /\ kind'[inserted'[i]] = "ordered"
      /\ ~busy' => ordered' = <<>>
  BY DEF InTurn
<1>3. /\ Queued # {} \/ Queued' = {}
      /\ OnStack = {} => OnStack' = {}
  OBVIOUS
<1>4. \A l \in InTheAir' : Latest(l) /\ Queued' = {} /\ OnStack' = {}
  BY <1>3 DEF InTurn
<1>5. \A k \in Queued' : Latest(tasks'[k].what) /\ OnStack' = {} /\ Queued' = {k}
  <2> SUFFICES ASSUME NEW k \in Queued'
               PROVE  Latest(tasks'[k].what) /\ OnStack' = {} /\ Queued' = {k}
    OBVIOUS
  <2>1. Queued = {k + d} /\ OnStack = {} /\ Latest(tasks[k + d].what)
    BY DEF InTurn
  <2>2. \A n \in Queued' : n + d = k + d /\ n \in Nat
    BY <2>1 DEF Queued, Types
  <2>3. \A n \in Queued' : n = k
    BY <2>2
  <2>4. QED
    BY <1>3, <2>1, <2>3
<1>6. \A k \in OnStack' : Latest(stack'[k][1]) /\ k = 1
  BY DEF InTurn
<1>7. \A i \in DOMAIN ran' : IsOrdered(ran'[i]) =>
          \E j \in DOMAIN inserted : j <= Released /\ ran'[i].script = inserted[j]
  BY <1>1 DEF InTurn
<1>8. QED
  BY <1>1, <1>2, <1>4, <1>5, <1>6, <1>7 DEF InTurn

LEMMA AppendLast ==
    ASSUME NEW S, NEW q \in Seq(S), NEW e \in S
    PROVE  /\ DOMAIN Append(q, e) = DOMAIN q \cup {Len(q) + 1}
           /\ \A k \in DOMAIN q : Append(q, e)[k] = q[k]
           /\ Append(q, e)[Len(q) + 1] = e /\ Len(q) + 1 \notin DOMAIN q
OBVIOUS

\* One delivery more in the queue.
LEMMA PostedOne ==
    ASSUME Types, NEW l \in What, kind' = kind,
           tasks' = Posted([what |-> l, relevant |-> TRUE])
    PROVE  /\ Queued' = IF IsOrdered(l) THEN Queued \cup {Len(tasks) + 1} ELSE Queued
           /\ \A k \in Queued : tasks'[k] = tasks[k]
           /\ tasks'[Len(tasks) + 1].what = l
<1> DEFINE t == [what |-> l, relevant |-> TRUE]
<1>1. t \in Task /\ t.what = l
  BY DEF Task
<1>2. tasks \in Seq(Task) /\ tasks' = Append(tasks, t)
  BY PostedType DEF Types
<1> HIDE DEF t
<1>3. /\ DOMAIN tasks' = DOMAIN tasks \cup {Len(tasks) + 1}
      /\ \A k \in DOMAIN tasks : tasks'[k] = tasks[k]
      /\ tasks'[Len(tasks) + 1] = t /\ Len(tasks) + 1 \notin DOMAIN tasks
  <2>1. t \in Task /\ tasks \in Seq(Task)
    BY <1>1, <1>2
  <2> DEFINE a == Append(tasks, t)
  <2>2. /\ DOMAIN a = DOMAIN tasks \cup {Len(tasks) + 1}
        /\ \A k \in DOMAIN tasks : a[k] = tasks[k]
        /\ a[Len(tasks) + 1] = t /\ Len(tasks) + 1 \notin DOMAIN tasks
    BY <2>1, AppendLast
  <2> HIDE DEF a
  <2>3. tasks' = a
    BY <1>2 DEF a
  <2>4. QED
    BY <2>2, <2>3
<1>4. \A k : IsOrdered(tasks[k].what)' <=> IsOrdered(tasks'[k].what)
  BY DEF IsOrdered
<1>5. QED
  BY <1>1, <1>3, <1>4, ZenonT(40) DEF Queued

\* One delivery fewer.
LEMMA TakenOne ==
    ASSUME Types, kind' = kind, tasks # <<>>, tasks' = Tail(tasks)
    PROVE  /\ \A k \in Queued' : k + 1 \in Queued /\ tasks'[k] = tasks[k + 1] /\ k \in Nat \ {0}
           /\ IsOrdered(Head(tasks).what) => 1 \in Queued
<1>1. /\ Head(tasks) = tasks[1] /\ 1 \in DOMAIN tasks
      /\ \A k \in DOMAIN tasks' : k + 1 \in DOMAIN tasks /\ tasks'[k] = tasks[k + 1]
                                 /\ k \in Nat \ {0}
  <2>1. tasks \in Seq(Task)
    BY DEF Types
  <2>2. QED
    BY <2>1
<1>2. \A k : IsOrdered(tasks[k].what)' <=> IsOrdered(tasks'[k].what)
  BY DEF IsOrdered
<1>3. QED
  BY <1>1, <1>2 DEF Queued

LEMMA CollectInTurn == Types /\ Types' /\ InTurn /\ Collect => InTurn'
<1> SUFFICES ASSUME Types, Types', InTurn, Collect PROVE InTurn'
  OBVIOUS
<1>1. UNCHANGED <<kind, ordered, inserted, busy, started, stack, ran>>
  BY DEF Collect, shimVars
<1>2. PICK goes \in [{s \in Slots : kind[s] \in External} -> {"cached", "flies", "refused"}] :
        /\ flying' = {Load("page", s) : s \in {x \in DOMAIN goes : goes[x] = "flies"}}
        /\ \E q \in InDocumentOrder({x \in DOMAIN goes : goes[x] = "cached"}) :
             tasks' = [i \in DOMAIN q |-> Delivery("page", q[i])]
  BY DEF Collect
<1>3. \A l \in flying' : l.by = "page"
  BY <1>2 DEF Load
<1>4. \A k \in DOMAIN tasks' : tasks'[k].what.by = "page"
  BY <1>2 DEF Delivery, Load
<1>5. InTheAir' = {} /\ Queued' = {}
  BY <1>3, <1>4 DEF InTheAir, Queued, IsOrdered
<1>6. OnStack' = OnStack /\ \A l : IsOrdered(l)' <=> IsOrdered(l)
  BY <1>1 DEF OnStack, IsOrdered
<1>7. QED
  BY <1>1, <1>5, <1>6, TurnKept

\* A load that is all there is of its kind, on its way or landed.
LEMMA OnlyOne ==
    ASSUME Types', NEW l, IsOrdered(l)', Latest(l)', OnStack' = {},
           \/ InTheAir' = {l} /\ Queued' = {}
           \/ InTheAir' = {} /\ \E k : Queued' = {k} /\ tasks'[k].what = l
    PROVE  /\ (\A m \in InTheAir : Latest(m) /\ Queued = {} /\ OnStack = {})'
           /\ (\A k \in Queued : Latest(tasks[k].what) /\ OnStack = {} /\ Queued = {k})'
           /\ (\A k \in OnStack : Latest(stack[k][1]) /\ k = 1)'
OBVIOUS

LEMMA LandInTurn ==
    ASSUME Types, Types', InTurn, NEW l \in flying, Land(l)
    PROVE  InTurn'
<1>1. /\ UNCHANGED <<kind, ordered, inserted, busy, started, stack, ran>>
      /\ flying' = flying \ {l} /\ tasks' = Posted([what |-> l, relevant |-> TRUE])
  BY DEF Land, LandAndPost, setVars, shimVars
<1>2. /\ Queued' = IF IsOrdered(l) THEN Queued \cup {Len(tasks) + 1} ELSE Queued
      /\ \A k \in Queued : tasks'[k] = tasks[k]
      /\ tasks'[Len(tasks) + 1].what = l
  BY <1>1, PostedOne DEF Types
<1>3. /\ OnStack' = OnStack /\ InTheAir' = InTheAir \ {l} /\ Released' = Released
      /\ \A m : (IsOrdered(m)' <=> IsOrdered(m)) /\ (Latest(m)' <=> Latest(m))
  BY <1>1 DEF OnStack, IsOrdered, InTheAir, Released, Latest
<1>4. CASE ~IsOrdered(l)
  <2>1. \A k \in Queued' : k + 0 \in Queued /\ tasks'[k] = tasks[k + 0]
    BY <1>2, <1>4 DEF Queued, Types
  <2>2. QED
    BY <1>1, <1>3, <2>1, TurnKept
<1>5. CASE IsOrdered(l)
  <2>1. l \in InTheAir
    BY <1>5 DEF InTheAir
  <2>2. Latest(l) /\ Queued = {} /\ OnStack = {}
    BY <2>1 DEF InTurn
  <2>3. InTheAir' = {}
    <3> SUFFICES ASSUME NEW m \in InTheAir PROVE m = l
      BY <1>3
    <3>1. m \in What /\ l \in What /\ m.by = l.by
      BY <1>5 DEF InTheAir, IsOrdered, Types
    <3>2. m.script = l.script
      BY <2>2 DEF InTurn, Latest
    <3>3. QED
      BY <3>1, <3>2, WhatAssumption
  <2>4. Queued' = {Len(tasks) + 1}
    BY <1>2, <1>5, <2>2
  <2>5. /\ (\A m \in InTheAir : Latest(m) /\ Queued = {} /\ OnStack = {})'
        /\ (\A k \in Queued : Latest(tasks[k].what) /\ OnStack = {} /\ Queued = {k})'
        /\ (\A k \in OnStack : Latest(stack[k][1]) /\ k = 1)'
    BY <1>2, <1>3, <1>5, <2>2, <2>3, <2>4, OnlyOne
  <2>6. (\A i \in DOMAIN ran : IsOrdered(ran[i]) =>
          \E j \in DOMAIN inserted : j <= Released /\ ran[i].script = inserted[j])'
    BY <1>1, <1>3 DEF InTurn
  <2>7. QED
    BY <1>1, <1>3, <2>5, <2>6 DEF InTurn
<1>6. QED
  BY <1>4, <1>5

\* runDynamicExternalScript for an ordered script, when none is under way.
LEMMA StartOrdered ==
    ASSUME Types, Types', NEW s \in Scripts, kind[s] = "ordered", StartShimLoad(s),
           kind' = kind, InTheAir = {}, Queued = {}, OnStack' = {}, Latest(Load("shim", s))'
    PROVE  /\ (\A m \in InTheAir : Latest(m) /\ Queued = {} /\ OnStack = {})'
           /\ (\A k \in Queued : Latest(tasks[k].what) /\ OnStack = {} /\ Queued = {k})'
           /\ (\A k \in OnStack : Latest(stack[k][1]) /\ k = 1)'
<1> DEFINE l == Load("shim", s)
<1>1. l \in What /\ IsOrdered(l) /\ IsOrdered(l)' /\ \A m : IsOrdered(m)' <=> IsOrdered(m)
  BY WhatType DEF IsOrdered, Load
<1>2. \/ flying' = flying \cup {l} /\ tasks' = tasks
      \/ flying' = flying /\ tasks' = Posted([what |-> l, relevant |-> TRUE])
  BY DEF StartShimLoad, BeginExternalWork, Post, Delivery
<1> HIDE DEF l
<1>3. CASE flying' = flying \cup {l} /\ tasks' = tasks
  <2>1. InTheAir' = {l} /\ Queued' = {}
    BY <1>1, <1>3 DEF InTheAir, Queued
  <2>2. QED
    BY <1>1, <2>1, OnlyOne DEF l
<1>4. CASE flying' = flying /\ tasks' = Posted([what |-> l, relevant |-> TRUE])
  <2>1. Queued' = {Len(tasks) + 1} /\ tasks'[Len(tasks) + 1].what = l
    BY <1>1, <1>4, PostedOne
  <2>2. InTheAir' = {}
    BY <1>1, <1>4 DEF InTheAir
  <2>3. QED
    BY <1>1, <2>1, <2>2, OnlyOne DEF l
<1>5. QED
  BY <1>2, <1>3, <1>4

\* The same for a script that is not ordered.
LEMMA StartFree ==
    ASSUME Types, NEW s \in Scripts, kind[s] # "ordered", StartShimLoad(s), kind' = kind
    PROVE  InTheAir' = InTheAir /\ \A k \in Queued' : k + 0 \in Queued /\ tasks'[k] = tasks[k + 0]
<1> DEFINE l == Load("shim", s)
<1>1. l \in What /\ ~IsOrdered(l) /\ \A m : IsOrdered(m)' <=> IsOrdered(m)
  BY WhatType DEF IsOrdered, Load
<1>2. \/ flying' = flying \cup {l} /\ tasks' = tasks
      \/ flying' = flying /\ tasks' = Posted([what |-> l, relevant |-> TRUE])
  BY DEF StartShimLoad, BeginExternalWork, Post, Delivery
<1> HIDE DEF l
<1>3. InTheAir' = InTheAir
  BY <1>1, <1>2 DEF InTheAir
<1>4. Queued' = Queued /\ \A k \in Queued : tasks'[k] = tasks[k]
  BY <1>1, <1>2, PostedOne DEF Queued
<1>5. \A k \in Queued : k \in Nat
  BY DEF Queued, Types
<1>6. QED
  BY <1>3, <1>4, <1>5

LEMMA StillThere ==
    ASSUME Types, UNCHANGED <<kind, tasks, flying>>
    PROVE  InTheAir' = InTheAir /\ \A k \in Queued' : k + 0 \in Queued /\ tasks'[k] = tasks[k + 0]
<1>1. InTheAir' = InTheAir /\ Queued' = Queued
  BY DEF InTheAir, Queued, IsOrdered
<1>2. \A k \in Queued : k \in Nat
  BY DEF Queued, Types
<1>3. QED
  BY <1>1, <1>2

\* An inserted ordered script joins the queue or, if none is under way, starts.
LEMMA InsertOrdered ==
    ASSUME Types, Types', InTurn, NEW s \in Scripts, Insert(s), kind[s] = "ordered"
    PROVE  InTurn'
<1>1. /\ s \notin started /\ started' = started \cup {s} /\ inserted' = Append(inserted, s)
      /\ UNCHANGED <<kind, stack, ran>>
  BY DEF Insert
<1> DEFINE n == Len(inserted) + 1
<1>2. /\ DOMAIN inserted' = DOMAIN inserted \cup {n} /\ inserted'[n] = s
      /\ \A i \in DOMAIN inserted : inserted'[i] = inserted[i]
      /\ DOMAIN inserted = 1 .. Len(inserted) /\ Len(inserted) \in Nat /\ Len(inserted') = n
  <2>1. inserted \in Seq(Scripts) /\ s \in Scripts
    BY DEF Types
  <2>2. /\ Len(inserted) \in Nat /\ DOMAIN inserted = 1 .. Len(inserted)
        /\ Len(Append(inserted, s)) = n
    BY <2>1
  <2>3. QED
    BY <1>1, <2>1, <2>2, AppendLast
<1>3. \A i \in DOMAIN inserted : inserted[i] # s
  BY <1>1 DEF InTurn
<1>4. /\ \A i, j \in DOMAIN inserted' : inserted'[i] = inserted'[j] => i = j
      /\ \A i \in DOMAIN inserted' : inserted'[i] \in started' /\ kind'[inserted'[i]] = "ordered"
  BY <1>1, <1>2, <1>3 DEF InTurn
<1>5. OnStack' = OnStack /\ \A m : IsOrdered(m)' <=> IsOrdered(m)
  BY <1>1 DEF OnStack, IsOrdered
<1>6. CASE busy
  <2>1. ordered' = Append(ordered, s) /\ UNCHANGED <<flying, tasks, busy>>
    BY <1>6 DEF Insert, MustWait, loadVars
  <2>2. /\ DOMAIN ordered' = DOMAIN ordered \cup {Len(ordered) + 1}
        /\ ordered'[Len(ordered) + 1] = s /\ \A k \in DOMAIN ordered : ordered'[k] = ordered[k]
        /\ DOMAIN ordered = 1 .. Len(ordered) /\ Len(ordered) \in Nat
        /\ Len(ordered') = Len(ordered) + 1
    <3>1. ordered \in Seq(Scripts) /\ s \in Scripts
      BY DEF Types
    <3>2. /\ Len(ordered) \in Nat /\ DOMAIN ordered = 1 .. Len(ordered)
          /\ Len(Append(ordered, s)) = Len(ordered) + 1
      BY <3>1
    <3>3. QED
      BY <2>1, <3>1, <3>2, AppendLast
  <2>3. Released' = Released /\ Released \in Nat /\ Released + (Len(ordered) + 1) = n
    BY <1>2, <2>2 DEF Released, InTurn
  <2>4. \A m : Latest(m) => Latest(m)'
    BY <1>2, <2>1, <2>3 DEF Latest
  <2>5. \A k \in DOMAIN ordered' : ordered'[k] = inserted'[Released + k]
    <3>1. \A k \in DOMAIN ordered : Released + k \in DOMAIN inserted
      BY <1>2, <2>2, <2>3
    <3>2. QED
      BY <1>2, <2>2, <2>3, <3>1 DEF InTurn
  <2>6. InTheAir' = InTheAir /\ Queued' = Queued
    BY <1>5, <2>1 DEF InTheAir, Queued
  <2>7. /\ (\A m \in InTheAir : Latest(m) /\ Queued = {} /\ OnStack = {})'
        /\ (\A k \in Queued : Latest(tasks[k].what) /\ OnStack = {} /\ Queued = {k})'
        /\ (\A k \in OnStack : Latest(stack[k][1]) /\ k = 1)'
    BY <1>1, <1>5, <2>1, <2>4, <2>6 DEF InTurn
  <2>8. (\A i \in DOMAIN ran : IsOrdered(ran[i]) =>
          \E j \in DOMAIN inserted : j <= Released /\ ran[i].script = inserted[j])'
    BY <1>1, <1>2, <1>5, <2>3 DEF InTurn
  <2>9. QED
    BY <1>4, <1>6, <2>1, <2>3, <2>5, <2>7, <2>8 DEF InTurn
<1>7. CASE ~busy
  <2>1. /\ StartShimLoad(s) /\ ordered' = ordered /\ busy' = TRUE
    BY <1>7 DEF Insert, MustWait
  <2>2. ordered = <<>> /\ InTheAir = {} /\ Queued = {} /\ OnStack = {}
    BY <1>7 DEF InTurn, Latest
  <2>3. Released' = n /\ Released = Len(inserted)
    BY <1>2, <2>1, <2>2 DEF Released
  <2>4. Latest(Load("shim", s))'
    BY <1>2, <2>1, <2>3 DEF Latest, Load
  <2>5. /\ (\A m \in InTheAir : Latest(m) /\ Queued = {} /\ OnStack = {})'
        /\ (\A k \in Queued : Latest(tasks[k].what) /\ OnStack = {} /\ Queued = {k})'
        /\ (\A k \in OnStack : Latest(stack[k][1]) /\ k = 1)'
    BY <1>1, <1>5, <2>1, <2>2, <2>4, StartOrdered
  <2>6. (\A i \in DOMAIN ran : IsOrdered(ran[i]) =>
          \E j \in DOMAIN inserted : j <= Released /\ ran[i].script = inserted[j])'
    <3>1. \A j \in DOMAIN inserted : j <= n
      BY <1>2
    <3>2. QED
      BY <1>1, <1>2, <1>5, <2>3, <3>1 DEF InTurn
  <2>7. QED
    BY <1>2, <1>4, <2>1, <2>2, <2>3, <2>5, <2>6 DEF InTurn
<1>8. QED
  BY <1>6, <1>7

LEMMA InsertInTurn ==
    ASSUME Types, Types', InTurn, NEW s \in Scripts, Insert(s)
    PROVE  InTurn'
<1>1. kind' = kind /\ started \subseteq started' /\ \A m : IsOrdered(m)' <=> IsOrdered(m)
  BY DEF Insert, IsOrdered
<1>2. CASE kind[s] \in {"inline", "local"}
  <2> DEFINE l == Load("shim", s)
             e == <<l, current>>
  <2>1. /\ stack' = Append(stack, e) /\ ran' = Append(ran, l)
        /\ UNCHANGED <<tasks, flying, ordered, inserted, busy>>
    BY <1>2 DEF Insert, loadVars
  <2>2. ~IsOrdered(l) /\ e[1] = l
    BY <1>2 DEF IsOrdered, Load
  <2> HIDE DEF l, e
  <2>3. \A k \in OnStack' : k \in OnStack /\ stack'[k] = stack[k]
    BY <1>1, <2>1, <2>2, Appended DEF Types, OnStack
  <2>4. \A i \in DOMAIN ran' : IsOrdered(ran[i])' => i \in DOMAIN ran /\ ran'[i] = ran[i]
    BY <1>1, <2>1, <2>2, Appended DEF Types
  <2>5. QED
    BY <1>1, <2>1, <2>3, <2>4, StillThere, TurnKept
<1>3. CASE kind[s] \notin {"inline", "local", "ordered"}
  <2>1. UNCHANGED <<stack, ran, ordered, inserted, busy>> /\ StartShimLoad(s)
    <3>1. ~MustWait(s)
      BY <1>3 DEF MustWait
    <3>2. /\ UNCHANGED <<stack, ran, ordered, inserted>> /\ StartShimLoad(s)
          /\ busy' = (busy \/ kind[s] = "ordered")
      BY <1>3, <3>1 DEF Insert
    <3>3. busy' = busy
      BY <1>3, <3>2 DEF Types
    <3>4. QED
      BY <3>2, <3>3
  <2>2. OnStack' = OnStack
    BY <1>1, <2>1 DEF OnStack
  <2>3. QED
    BY <1>1, <1>3, <2>1, <2>2, StartFree, TurnKept
<1>4. QED
  BY <1>2, <1>3, InsertOrdered

\* The ordered script under way is over, and the queue has the next one.
LEMMA NextInTurn ==
    ASSUME Types, Types', InTurn, busy, ordered # <<>>, ordered' = Tail(ordered),
           UNCHANGED <<kind, inserted, busy>>, started' = started,
           NEW h \in Scripts, h = Head(ordered),
           \A i \in DOMAIN ran' : IsOrdered(ran[i])' => i \in DOMAIN ran /\ ran'[i] = ran[i]
    PROVE  /\ Latest(Load("shim", h))' /\ kind[h] = "ordered"
           /\ (/\ \A m \in InTheAir : Latest(m) /\ Queued = {} /\ OnStack = {}
               /\ \A k \in Queued : Latest(tasks[k].what) /\ OnStack = {} /\ Queued = {k}
               /\ \A k \in OnStack : Latest(stack[k][1]) /\ k = 1)' => InTurn'
<1>1. /\ Len(inserted) \in Nat /\ DOMAIN inserted = 1 .. Len(inserted)
      /\ Len(ordered) \in Nat /\ Len(ordered') = Len(ordered) - 1 /\ 1 \in DOMAIN ordered
      /\ h = ordered[1]
      /\ \A k \in DOMAIN ordered' : /\ k \in Nat /\ k + 1 \in DOMAIN ordered
                                   /\ ordered'[k] = ordered[k + 1]
      /\ Len(ordered) >= 1
  <2>1. ordered \in Seq(Scripts) /\ inserted \in Seq(Scripts)
    BY DEF Types
  <2>2. QED
    BY <2>1
<1>2. Released' = Released + 1 /\ Released \in Nat /\ Released + 1 \in DOMAIN inserted
  BY <1>1 DEF Released, InTurn
<1>3. h = inserted[Released + 1] /\ kind[h] = "ordered"
  <2>1. /\ \A k \in DOMAIN ordered : ordered[k] = inserted[Released + k]
        /\ \A i \in DOMAIN inserted : kind[inserted[i]] = "ordered"
    BY DEF InTurn
  <2>2. ordered[1] = inserted[Released + 1]
    BY <1>1, <2>1
  <2>3. kind[inserted[Released + 1]] = "ordered"
    BY <1>2, <2>1
  <2>4. QED
    BY <1>1, <2>2, <2>3
<1>4. Latest(Load("shim", h))'
  BY <1>2, <1>3 DEF Latest, Load
<1>5. \A k \in DOMAIN ordered' : ordered'[k] = inserted[Released + 1 + k]
  <2> SUFFICES ASSUME NEW k \in DOMAIN ordered' PROVE ordered'[k] = inserted[Released + 1 + k]
    OBVIOUS
  <2>1. ordered'[k] = inserted[Released + (k + 1)] /\ k \in Nat
    BY <1>1 DEF InTurn
  <2>2. Released + (k + 1) = Released + 1 + k
    BY <1>2, <2>1
  <2>3. QED
    BY <2>1, <2>2
<1>6. (\A i \in DOMAIN ran : IsOrdered(ran[i]) =>
          \E j \in DOMAIN inserted : j <= Released /\ ran[i].script = inserted[j])'
  <2>1. \A j \in DOMAIN inserted : j <= Released => j <= Released + 1
    BY <1>1, <1>2
  <2>2. \A m : IsOrdered(m)' <=> IsOrdered(m)
    BY DEF IsOrdered
  <2>3. QED
    BY <1>2, <2>1, <2>2 DEF InTurn
<1>7. ASSUME (/\ \A m \in InTheAir : Latest(m) /\ Queued = {} /\ OnStack = {}
              /\ \A k \in Queued : Latest(tasks[k].what) /\ OnStack = {} /\ Queued = {k}
              /\ \A k \in OnStack : Latest(stack[k][1]) /\ k = 1)'
      PROVE  InTurn'
  <2>1. (Released \in Nat)'
    BY <1>2
  <2>2. (\A k \in DOMAIN ordered : ordered[k] = inserted[Released + k])'
    BY <1>2, <1>5
  <2>3. /\ (\A i, j \in DOMAIN inserted : inserted[i] = inserted[j] => i = j)'
        /\ (\A i \in DOMAIN inserted : inserted[i] \in started /\ kind[inserted[i]] = "ordered")'
    BY DEF InTurn
  <2>4. (~busy => ordered = <<>>)'
    OBVIOUS
  <2>5. QED
    BY <1>6, <1>7, <2>1, <2>2, <2>3, <2>4 DEF InTurn
<1>8. QED
  BY <1>3, <1>1, <1>4, <1>7

\* It is over, or was cut, and none is under way any more.
LEMMA NoneInTurn ==
    ASSUME Types, Types', InTurn, UNCHANGED <<kind, ordered, inserted, started>>,
           \A i \in DOMAIN ran' : IsOrdered(ran[i])' => i \in DOMAIN ran /\ ran'[i] = ran[i],
           busy' \/ ordered = <<>>, InTheAir' = {}, Queued' = {}, OnStack' = {}
    PROVE  InTurn'
<1>1. Released' = Released /\ \A m : IsOrdered(m)' <=> IsOrdered(m)
  BY DEF Released, IsOrdered
<1>2. QED
  BY <1>1 DEF InTurn

LEMMA CodeEndsInTurn == Types /\ Types' /\ InTurn /\ CodeEnds => InTurn'
<1> SUFFICES ASSUME Types, Types', InTurn, CodeEnds PROVE InTurn'
  OBVIOUS
<1> DEFINE s == Top[1].script
<1>1. UNCHANGED <<kind, inserted, ran, started>> /\ stack # <<>> /\ stack' = Pop
  BY DEF CodeEnds
<1>2. /\ Top = stack[Len(stack)] /\ Len(stack) \in DOMAIN stack
      /\ DOMAIN stack' = DOMAIN stack \ {Len(stack)}
      /\ \A k \in DOMAIN stack' : stack'[k] = stack[k]
  BY <1>1, Popped DEF Types, Pop, Top
<1>3. OnStack' = OnStack \ {Len(stack)} /\ \A m : IsOrdered(m)' <=> IsOrdered(m)
  <2>1. \A m : IsOrdered(m)' <=> IsOrdered(m)
    BY <1>1 DEF IsOrdered
  <2>2. QED
    BY <1>2, <2>1 DEF OnStack
<1>4. CASE ~IsOrdered(Top[1])
  <2>1. UNCHANGED <<loadVars, ordered, busy>>
    <3>1. CASE Top[1].by = "page" \/ kind[s] \in {"inline", "local"}
      BY <3>1 DEF CodeEnds
    <3>2. CASE ~(Top[1].by = "page" \/ kind[s] \in {"inline", "local"})
      <4>1. Top[1].by = "shim" /\ kind[s] # "ordered"
        BY <1>2, <1>4, <3>2 DEF IsOrdered, Types
      <4>2. OnDone(s)
        BY <3>2 DEF CodeEnds
      <4>3. UNCHANGED <<loadVars, ordered>> /\ busy' = (busy /\ kind[s] # "ordered")
        BY <4>1, <4>2 DEF OnDone
      <4>4. busy' = busy
        BY <4>1, <4>3 DEF Types
      <4>5. QED
        BY <4>3, <4>4
    <3>3. QED
      BY <3>1, <3>2
  <2>2. \A k \in OnStack' : k \in OnStack /\ stack'[k] = stack[k]
    BY <1>2, <1>3 DEF OnStack
  <2>3. \A i \in DOMAIN ran' : i \in DOMAIN ran /\ ran'[i] = ran[i]
    BY <1>1
  <2>4. QED
    BY <1>1, <2>1, <2>2, <2>3, StillThere, TurnKept DEF loadVars
<1>5. CASE IsOrdered(Top[1])
  <2>1. Len(stack) \in OnStack
    BY <1>2, <1>5 DEF OnStack
  <2>2. /\ busy /\ InTheAir = {} /\ Queued = {} /\ OnStack' = {}
    BY <1>3, <2>1 DEF InTurn, Latest
  <2>3. OnDone(s) /\ kind[s] = "ordered"
    BY <1>5 DEF CodeEnds, IsOrdered
  <2>4. CASE ordered # <<>>
    <3>1. StartShimLoad(Head(ordered)) /\ ordered' = Tail(ordered) /\ busy' = busy
      BY <2>3, <2>4 DEF OnDone
    <3>2. PICK h \in Scripts : h = Head(ordered)
      BY <2>4 DEF Types
    <3>3. Latest(Load("shim", h))' /\ kind[h] = "ordered"
      BY <1>1, <2>2, <2>4, <3>1, <3>2, NextInTurn
    <3>4. /\ (\A m \in InTheAir : Latest(m) /\ Queued = {} /\ OnStack = {})'
          /\ (\A k \in Queued : Latest(tasks[k].what) /\ OnStack = {} /\ Queued = {k})'
          /\ (\A k \in OnStack : Latest(stack[k][1]) /\ k = 1)'
      BY <1>1, <2>2, <3>1, <3>2, <3>3, StartOrdered
    <3>5. QED
      BY <1>1, <2>2, <2>4, <3>1, <3>2, <3>4, NextInTurn
  <2>5. CASE ordered = <<>>
    <3>1. UNCHANGED <<loadVars, ordered>>
      BY <2>3, <2>5 DEF OnDone
    <3>2. InTheAir' = {} /\ Queued' = {}
      BY <1>3, <2>2, <3>1 DEF InTheAir, Queued, loadVars
    <3>3. QED
      BY <1>1, <2>2, <2>5, <3>1, <3>2, NoneInTurn
  <2>6. QED
    BY <2>4, <2>5
<1>6. QED
  BY <1>4, <1>5

\* The code is cut: what was under way on the stack is under way no more.
LEMMA CodeIsCutInTurn == Types /\ Types' /\ InTurn /\ CodeIsCut => InTurn'
<1> SUFFICES ASSUME Types, Types', InTurn, CodeIsCut PROVE InTurn'
  OBVIOUS
<1>1. /\ UNCHANGED <<kind, tasks, flying, ordered, inserted, busy, started, ran>>
      /\ stack' = <<>>
  BY DEF CodeIsCut, loadVars
<1>2. OnStack' = {}
  BY <1>1, Singleton DEF OnStack
<1>3. QED
  BY <1>1, <1>2, StillThere, TurnKept

\* A document script or a lifecycle event starts.
LEMMA CallCodeInTurn == Types /\ Types' /\ InTurn /\ CallCode => InTurn'
<1> SUFFICES ASSUME Types, Types', InTurn, CallCode PROVE InTurn'
  OBVIOUS
<1> DEFINE l == Load("page", call.script)
           e == <<l, current>>
<1>1. /\ UNCHANGED <<kind, tasks, flying, ordered, inserted, busy, started>>
      /\ stack' = <<e>> /\ ran' = Append(ran, l)
  BY DEF CallCode, loadVars
<1>2. e[1] = l /\ l.by = "page"
  BY DEF Load
<1> HIDE DEF l, e
<1>3. OnStack' = {}
  <2>1. stack'[1][1] = l /\ DOMAIN stack' = {1}
    BY <1>1, <1>2
  <2>2. QED
    BY <1>2, <2>1 DEF OnStack, IsOrdered
<1>4. \A i \in DOMAIN ran' : IsOrdered(ran[i])' => i \in DOMAIN ran /\ ran'[i] = ran[i]
  BY <1>1, <1>2, Appended DEF Types, IsOrdered
<1>5. QED
  BY <1>1, <1>3, <1>4, StillThere, TurnKept

LEMMA BetweenInTurn == Types /\ Types' /\ InTurn /\ Between => InTurn'
<1> SUFFICES ASSUME Types, Types', InTurn, Between PROVE InTurn'
  OBVIOUS
<1>1. Aside
  BY BetweenAside
<1>2. /\ UNCHANGED <<kind, tasks, flying, ordered, inserted, busy, stack, ran>>
      /\ started \subseteq started'
  BY <1>1 DEF Aside, loadVars
<1>3. OnStack' = OnStack
  BY <1>2 DEF OnStack, IsOrdered
<1>4. QED
  BY <1>2, <1>3, StillThere, TurnKept

\* The page's own delivery, or that of a script that is not ordered.
LEMMA RunFreeInTurn ==
    ASSUME Types, Types', InTurn, NEW ok \in BOOLEAN, RunTask(ok), ~IsOrdered(Head(tasks).what)
    PROVE  InTurn'
<1> DEFINE l == Head(tasks).what
           e == <<l, current>>
<1>1. /\ UNCHANGED <<kind, inserted, started>> /\ tasks # <<>> /\ l \in What
      /\ Quiet /\ \A m : IsOrdered(m)' <=> IsOrdered(m)
  BY TaskHead DEF RunTask, IsOrdered
<1>2. /\ UNCHANGED <<flying, ordered>> /\ tasks' = Tail(tasks)
      /\ busy' = busy \/ busy' = (busy /\ kind[l.script] # "ordered")
      /\ \/ UNCHANGED <<stack, ran>>
         \/ stack' = <<e>> /\ ran' = Append(ran, l)
  <2>1. CASE l.by = "page"
    BY <2>1 DEF RunTask, TakeTask
  <2>2. CASE l.by # "page" /\ ok
    BY <2>2 DEF RunTask, TakeTask
  <2>3. CASE l.by # "page" /\ ~ok
    <3>1. kind[l.script] # "ordered"
      BY <1>1, <2>3, WhatAssumption DEF IsOrdered
    <3>2. QED
      BY <2>3, <3>1 DEF RunTask, TakeTask
  <2>4. QED
    BY <2>1, <2>2, <2>3
<1>3. busy' = busy
  <2>1. CASE busy' = (busy /\ kind[l.script] # "ordered") /\ kind[l.script] # "ordered"
    BY <2>1 DEF Types
  <2>2. CASE l.by = "page"
    BY <2>2 DEF RunTask
  <2>3. kind[l.script] # "ordered" \/ l.by = "page"
    BY <1>1, WhatAssumption DEF IsOrdered
  <2>4. QED
    BY <1>2, <2>1, <2>2, <2>3
<1>4. InTheAir' = InTheAir
  BY <1>1, <1>2 DEF InTheAir
<1>5. \A k \in Queued' : k + 1 \in Queued /\ tasks'[k] = tasks[k + 1]
  BY <1>1, <1>2, TakenOne
<1>6. e[1] = l /\ ~IsOrdered(l)
  OBVIOUS
<1> HIDE DEF l, e
<1>7. \A k \in OnStack' : k \in OnStack /\ stack'[k] = stack[k]
  <2>1. CASE UNCHANGED stack
    BY <1>1, <2>1 DEF OnStack
  <2>2. CASE stack' = <<e>>
    <3>1. DOMAIN stack' = {1} /\ stack'[1] = e
      BY <2>2
    <3>2. QED
      BY <1>1, <1>6, <3>1 DEF OnStack
  <2>3. QED
    BY <1>2, <2>1, <2>2
<1>8. \A i \in DOMAIN ran' : IsOrdered(ran[i])' => i \in DOMAIN ran /\ ran'[i] = ran[i]
  <2>1. CASE ran' = Append(ran, l)
    BY <1>1, <1>6, <2>1, Appended DEF Types
  <2>2. QED
    BY <1>2, <2>1
<1>9. QED
  BY <1>1, <1>2, <1>3, <1>4, <1>5, <1>7, <1>8, TurnKept

\* The delivery of an ordered script: it runs, or has failed to load.
LEMMA RunOrderedInTurn ==
    ASSUME Types, Types', InTurn, NEW ok \in BOOLEAN, RunTask(ok), IsOrdered(Head(tasks).what)
    PROVE  InTurn'
<1>0. PICK l \in What : l = Head(tasks).what
  BY TaskHead DEF RunTask
<1> DEFINE e == <<l, current>>
<1>1. /\ UNCHANGED <<kind, inserted, started>> /\ tasks # <<>>
      /\ l.by = "shim" /\ kind[l.script] = "ordered" /\ Quiet
      /\ \A m : IsOrdered(m)' <=> IsOrdered(m)
  BY <1>0 DEF RunTask, IsOrdered
<1>2. 1 \in Queued /\ tasks[1].what = l
  <2>1. tasks' = Tail(tasks)
    BY <1>0, <1>1 DEF RunTask, TakeTask
  <2>2. Head(tasks) = tasks[1]
    BY <1>1 DEF Types
  <2>3. QED
    BY <1>0, <1>1, <2>1, <2>2, TakenOne
<1>3. Latest(l) /\ OnStack = {} /\ Queued = {1} /\ InTheAir = {} /\ busy
  BY <1>2 DEF InTurn, Latest
<1>4. ASSUME tasks' = Tail(tasks) PROVE Queued' = {}
  <2>1. \A k \in Queued' : k + 1 = 1 /\ k \in Nat \ {0}
    BY <1>1, <1>3, <1>4, TakenOne
  <2>2. \A k \in Queued' : FALSE
    BY <2>1
  <2>3. QED
    BY <2>2
<1>5. CASE ok
  <2>1. /\ UNCHANGED <<flying, ordered, busy>> /\ tasks' = Tail(tasks)
        /\ stack' = <<e>> /\ ran' = Append(ran, l)
    BY <1>0, <1>1, <1>5 DEF RunTask, TakeTask
  <2>2. e[1] = l /\ IsOrdered(l)
    BY <1>0
  <2> HIDE DEF e
  <2>3. InTheAir' = {} /\ Queued' = {}
    BY <1>1, <1>3, <1>4, <2>1 DEF InTheAir
  <2>4. Released' = Released /\ Latest(l)' /\ Released \in DOMAIN inserted /\ Released \in Nat
    BY <1>1, <1>3, <2>1 DEF Released, Latest, InTurn
  <2>5. OnStack' = {1} /\ stack'[1][1] = l
    <3>1. DOMAIN stack' = {1} /\ stack'[1] = e
      BY <2>1
    <3>2. QED
      BY <1>1, <2>2, <3>1 DEF OnStack
  <2>6. (\A i \in DOMAIN ran : IsOrdered(ran[i]) =>
          \E j \in DOMAIN inserted : j <= Released /\ ran[i].script = inserted[j])'
    <3>1. /\ DOMAIN ran' = DOMAIN ran \cup {Len(ran) + 1} /\ ran'[Len(ran) + 1] = l
          /\ \A i \in DOMAIN ran : ran'[i] = ran[i]
      BY <2>1, Appended DEF Types
    <3>2. l.script = inserted[Released] /\ Released <= Released
      BY <1>3, <2>4 DEF Latest
    <3>3. QED
      BY <1>1, <2>4, <3>1, <3>2 DEF InTurn
  <2>7. QED
    BY <1>1, <2>1, <2>3, <2>4, <2>5, <2>6 DEF InTurn
<1>6. CASE ~ok /\ ordered # <<>>
  <2>1. /\ flying' = flying \cup {Load("shim", Head(ordered))} /\ ordered' = Tail(ordered)
        /\ tasks' = Tail(tasks) /\ UNCHANGED <<busy, stack, ran>>
    BY <1>0, <1>1, <1>6 DEF RunTask
  <2>2. PICK h \in Scripts : h = Head(ordered)
    BY <1>6 DEF Types
  <2>3. Latest(Load("shim", h))' /\ kind[h] = "ordered"
    BY <1>1, <1>3, <1>6, <2>1, <2>2, NextInTurn
  <2>4. IsOrdered(Load("shim", h)) /\ IsOrdered(Load("shim", h))'
    BY <1>1, <2>3 DEF IsOrdered, Load
  <2>5. InTheAir' = {Load("shim", h)} /\ Queued' = {} /\ OnStack' = {}
    BY <1>1, <1>3, <1>4, <2>1, <2>2, <2>4 DEF InTheAir, OnStack
  <2>6. /\ (\A m \in InTheAir : Latest(m) /\ Queued = {} /\ OnStack = {})'
        /\ (\A k \in Queued : Latest(tasks[k].what) /\ OnStack = {} /\ Queued = {k})'
        /\ (\A k \in OnStack : Latest(stack[k][1]) /\ k = 1)'
    BY <2>3, <2>4, <2>5, OnlyOne
  <2>7. QED
    BY <1>1, <1>3, <1>6, <2>1, <2>2, <2>6, NextInTurn
<1>7. CASE ~ok /\ ordered = <<>>
  <2>1. UNCHANGED <<flying, ordered, stack, ran>> /\ tasks' = Tail(tasks)
    BY <1>0, <1>1, <1>7 DEF RunTask, TakeTask
  <2>2. InTheAir' = {} /\ Queued' = {} /\ OnStack' = {}
    BY <1>1, <1>3, <1>4, <2>1 DEF InTheAir, OnStack
  <2>3. QED
    BY <1>1, <1>7, <2>1, <2>2, NoneInTurn
<1>8. QED
  BY <1>5, <1>6, <1>7

LEMMA InTurnStep == Types /\ Types' /\ InTurn /\ [Next]_vars => InTurn'
<1> SUFFICES ASSUME Types, Types', InTurn, [Next]_vars PROVE InTurn'
  OBVIOUS
<1>1. ASSUME NEW l \in flying, Land(l) PROVE InTurn'
  BY <1>1, LandInTurn
<1>2. ASSUME NEW s \in Scripts, Insert(s) PROVE InTurn'
  BY <1>2, InsertInTurn
<1>3. ASSUME NEW ok \in BOOLEAN, RunTask(ok) PROVE InTurn'
  BY <1>3, RunFreeInTurn, RunOrderedInTurn
<1>4. CASE UNCHANGED vars
  <2>1. UNCHANGED <<kind, tasks, flying, ordered, inserted, busy, stack, ran, started>>
    BY <1>4 DEF vars, setVars, loadVars, shimVars
  <2>2. OnStack' = OnStack
    BY <2>1 DEF OnStack, IsOrdered
  <2>3. QED
    BY <2>1, <2>2, StillThere, TurnKept
<1>5. QED
  BY <1>1, <1>2, <1>3, <1>4, CollectInTurn, CodeEndsInTurn, CodeIsCutInTurn, CallCodeInTurn,
     BetweenInTurn DEF Next, Between

\* What the turns are for: whoever has run came out of the queue, so none of
\* those before it is loading, running or waiting.
LEMMA InTurnImplies == Types /\ InTurn => OrderedInTurn
<1> SUFFICES ASSUME Types, InTurn, NEW j \in DOMAIN inserted, inserted[j] \in RanBy("shim"),
                    NEW i \in 1 .. j - 1
             PROVE  ~Loading(inserted[i]) /\ ~Running(inserted[i]) /\ ~Waiting(inserted[i])
  BY DEF OrderedInTurn
<1>1. j \in Nat /\ i \in Nat /\ i < j /\ i \in DOMAIN inserted /\ Released \in Nat
  <2>1. inserted \in Seq(Scripts)
    BY DEF Types
  <2>2. QED
    BY <2>1 DEF InTurn
<1>2. kind[inserted[i]] = "ordered" /\ kind[inserted[j]] = "ordered"
  BY <1>1 DEF InTurn
<1>3. j <= Released
  <2>1. PICK n \in DOMAIN ran : ran[n].by = "shim" /\ ran[n].script = inserted[j]
    BY DEF RanBy
  <2>2. PICK m \in DOMAIN inserted : m <= Released /\ ran[n].script = inserted[m]
    BY <1>2, <2>1 DEF InTurn, IsOrdered
  <2>3. m = j
    BY <2>1, <2>2 DEF InTurn
  <2>4. QED
    BY <2>2, <2>3
<1>4. ~Latest(Load("shim", inserted[i]))
  <2>1. SUFFICES ASSUME Latest(Load("shim", inserted[i])) PROVE FALSE
    OBVIOUS
  <2>2. Released \in DOMAIN inserted /\ inserted[i] = inserted[Released]
    BY <2>1 DEF Latest, Load
  <2>3. i = Released
    BY <1>1, <2>2 DEF InTurn
  <2>4. QED
    BY <1>1, <1>3, <2>3
<1>5. IsOrdered(Load("shim", inserted[i]))
  BY <1>2 DEF IsOrdered, Load
<1>6. ~Loading(inserted[i])
  BY <1>4, <1>5 DEF Loading, InTurn, InTheAir, Queued
<1>7. ~Running(inserted[i])
  BY <1>4, <1>5 DEF Running, InTurn, OnStack
<1>8. ~Waiting(inserted[i])
  <2> SUFFICES ASSUME NEW k \in DOMAIN ordered, ordered[k] = inserted[i] PROVE FALSE
    BY DEF Waiting
  <2>1. /\ k \in Nat /\ 1 <= k /\ k <= Len(ordered) /\ Len(ordered) \in Nat
        /\ Len(inserted) \in Nat /\ DOMAIN inserted = 1 .. Len(inserted)
    <3>1. ordered \in Seq(Scripts) /\ inserted \in Seq(Scripts)
      BY DEF Types
    <3>2. QED
      BY <3>1
  <2>2. Released + k \in DOMAIN inserted
    BY <1>1, <2>1 DEF Released
  <2>3. inserted[i] = inserted[Released + k]
    BY DEF InTurn
  <2>4. i = Released + k
    BY <1>1, <2>2, <2>3 DEF InTurn
  <2>5. QED
    BY <1>1, <1>3, <2>1, <2>4
<1>9. QED
  BY <1>6, <1>7, <1>8

\* drainOrderedDynamicScripts (src/src/dom_shim/30_dom.js): a script with
\* async = false runs only when every one inserted before it has been loaded
\* and has run, or has failed, whatever order the loads land in, and whatever
\* code is cut, throws or inserts more in between.
THEOREM OrderedAlwaysInTurn == Spec => []OrderedInTurn
<1>1. Init => Types /\ InTurn
  BY TypesInit, InTurnInit
<1>2. Types /\ InTurn /\ [Next]_vars => Types' /\ InTurn'
  BY TypesStep, InTurnStep
<1>3. Types /\ InTurn => OrderedInTurn
  BY InTurnImplies
<1>4. QED
  BY <1>1, <1>2, <1>3, PTL DEF Spec

-----------------------------------------------------------------------------
(* What the pipeline counts, restores and waits for.                       *)


Inline == {"inline", "local"}

\* The walk over the document: what it puts off, and that it never waits beyond
\* its end nor at a lifecycle event.
Walking ==
    /\ at \in Nat \ {0}
    /\ deferred \in Seq(Parsed)
    /\ pc \in {"parse", "defer"} /\ wait # "no" => at <= PassLength
    /\ pc \in Events => wait = "no"

\* Nothing has happened before collect_scripts.
Fresh ==
    pc = "collect" =>
        /\ wait = "no" /\ call = NoCall /\ stack = <<>>
        /\ tasks = <<>> /\ flying = {} /\ ordered = <<>> /\ ran = <<>>

\* The loop is polled only once a checkpoint found nothing to cut.
Pumping == wait = "pump" => overrun = 0 /\ Quiet

\* The call under way: of the pass, at its place, or of a task, for an async
\* script whose count it holds.
CallSteps == {"mark", "current", "code", "running", "reset"}
OneCall(c) ==
    /\ DOMAIN c = {"script", "step", "by"}
    /\ c.by \in {"pipeline", "task"}
    /\ c.step \in CallSteps
    /\ c.by = "pipeline" =>
          \/ pc \in {"parse", "defer"} /\ c.script \in Scripts /\ wait = "no"
          \/ pc \in Events /\ c.script = pc /\ c.step \in {"code", "running"}
    /\ c.by = "task" =>
          /\ c.script \in Slots /\ kind[c.script] = "async" /\ fetch[c.script] = "ok"
          /\ c.step \in {"mark", "current"} => overrun = 0
          /\ c.step \in {"running", "reset"} /\ hung = {} => c.script \in RanBy("page")
Calls == call # NoCall => OneCall(call)

\* What runs: the code of the call at the bottom, or a loaded script of the
\* shim when there is no call, and inserted local code above.
Frames ==
    /\ \A k \in DOMAIN stack : k > 1 =>
          /\ stack[k][1].by = "shim" /\ kind[stack[k][1].script] \in Inline
          /\ stack[k][1].script \in Scripts
    /\ stack # <<>> =>
          \/ call # NoCall /\ call.step = "running" /\ stack[1][1] = Load("page", call.script)
          \/ /\ call = NoCall /\ stack[1][1] \in What /\ stack[1][1].by = "shim"
             /\ kind[stack[1][1].script] \in External
    /\ stack = <<>> => call = NoCall \/ call.step # "running"

-----------------------------------------------------------------------------
(* Every load, and every inserted script, is in one place.                   *)

Queueing == {tasks[k].what : k \in DOMAIN tasks}
Loads == flying \cup Queueing
OnceQueued == \A j, k \in DOMAIN tasks : tasks[j].what = tasks[k].what => j = k
Flights == {s \in Scripts : Load("shim", s) \in Loads}
Runs == {s \in Scripts : Running(s)}
Waits == {s \in Scripts : Waiting(s)}
Ext == {s \in Scripts : kind[s] \in External}

PageLoads == \A l \in Loads : l.by = "page" => l.script \in Slots /\ fetch[l.script] = "waiting"
Once == OnceQueued /\ flying \cap Queueing = {}
Listed == \A i, j \in DOMAIN ordered : ordered[i] = ordered[j] => i = j
Apart ==
    /\ Flights \subseteq started \cap Ext /\ Waits \subseteq started \cap Ext /\ Runs \subseteq started
    /\ Flights \cap Runs = {} /\ Flights \cap Waits = {} /\ Waits \cap Runs = {}
Places == DOMAIN fetch = Parsed /\ PageLoads /\ Once /\ Listed /\ Apart

\* As long as no script of a task was cut and no exception escaped.
Counting == "shim" \notin hung /\ pc \notin {"collect", "aborted"}
Counted == HoldsAreBacked

\* Nothing was cut so far, and nothing will be for the deadline.
Calm == hung = {} /\ ~(capped /\ late)
Shows(s) == IF s \in Events \/ kind[s] = "module" THEN None ELSE s
Unshown(c) == c = NoCall \/ c.step \in {"mark", "current"}
Restored ==
    /\ overrun = 0 /\ pc # "aborted"
    /\ stack = <<>> /\ Unshown(call) => current = None
    /\ stack = <<>> /\ call.step = "code" => current = Shows(call.script)
    /\ stack # <<>> => current = Shows(Top[1].script)
    /\ \A k \in DOMAIN stack : k > 1 => stack[k][2] = Shows(stack[k - 1][1].script)
    /\ stack # <<>> /\ stack[1][1].by = "shim" => stack[1][2] = None
Restoring == Calm => Restored

\* Before the deadline and the first cut, nothing async is open when load fires.
Awaited ==
    ~late /\ hung = {} =>
        /\ pc \in {"load", "ready", "returned"} => AsyncOpen = {}
        /\ Load("page", "load") \in {ran[i] : i \in DOMAIN ran} => pc \in {"load", "ready", "returned"}
        /\ \A s \in Slots : kind[s] = "async" /\ fetch[s] = "ok" =>
              s \in RanBy("page") \/ (call.script = s /\ call.by = "task")

-----------------------------------------------------------------------------

LEMMA KeptType == Slots \subseteq Parsed /\ Parsed \subseteq Scripts /\ IsFiniteSet(Slots)
<1>1. Slots \subseteq Parsed /\ Parsed \subseteq Scripts
  BY DEF Slots, Scripts
<1>2. QED
  BY <1>1, ScriptsAssumption, FS_Subset

LEMMA KeptStays == kind' = kind => Slots' = Slots
BY DEF Slots

LEMMA RanGrows ==
    ASSUME Listing(ran), NEW l, ran' = Append(ran, l), NEW by
    PROVE  RanBy(by)' = IF l.by = by THEN RanBy(by) \cup {l.script} ELSE RanBy(by)
<1>1. /\ DOMAIN ran' = DOMAIN ran \cup {Len(ran) + 1} /\ ran'[Len(ran) + 1] = l
      /\ \A i \in DOMAIN ran : ran'[i] = ran[i]
  BY Appended
<1>2. QED
  BY <1>1 DEF RanBy

\* Where execute_scripts goes on when a call returns.
LEMMA ReturnsWhere ==
    ASSUME Returns, OneCall(call)
    PROVE  /\ call' = NoCall
           /\ \/ /\ call.by = "task" /\ pending' = pending - 1 /\ holds' = holds - 1
                 /\ UNCHANGED <<pc, at, wait>>
              \/ /\ call.by = "pipeline" /\ UNCHANGED <<pending, holds>>
                 /\ \/ call.script \in Scripts /\ at' = at + 1 /\ UNCHANGED <<pc, wait>>
                    \/ /\ call.script = pc /\ pc \in Events /\ at' = at
                       /\ \/ pc = "DOMContentLoaded" /\ pending > 0 /\ pc' = "hold" /\ wait' = "enter"
                          \/ pc = "DOMContentLoaded" /\ ~(pending > 0) /\ pc' = "load" /\ wait' = wait
                          \/ pc = "load" /\ pc' = "ready" /\ wait' = "enter"
<1>1. CASE call.by = "task"
  BY <1>1 DEF Returns
<1>2. CASE call.by = "pipeline"
  <2>1. CASE call.script \in Scripts
    <3>1. call.script \notin Events
      BY <2>1, ScriptsAssumption
    <3>2. QED
      BY <1>2, <2>1, <3>1 DEF Returns, NextInPass
  <2>2. CASE call.script \notin Scripts
    <3>1. call.script = pc /\ pc \in Events
      BY <1>2, <2>2 DEF OneCall
    <3>2. QED
      BY <1>2, <3>1 DEF Returns, AfterEvent, Events
  <2>3. QED
    BY <2>1, <2>2
<1>3. QED
  BY <1>1, <1>2 DEF OneCall

-----------------------------------------------------------------------------
(* Where everything is: the pass, the loop, the call and the stack.          *)

Control == Walking /\ Fresh /\ Pumping /\ Calls /\ Frames

LEMMA ControlInit == Init => Control
<1> SUFFICES ASSUME Init PROVE Control
  OBVIOUS
<1>1. DOMAIN stack = {} /\ stack = <<>> /\ call = NoCall
  BY Singleton DEF Init
<1>2. Walking /\ Fresh /\ Pumping
  BY <1>1 DEF Init, QueueInit, Walking, Fresh, Pumping, Quiet, Events
<1>3. Calls /\ Frames
  BY <1>1 DEF Calls, Frames
<1>4. QED
  BY <1>2, <1>3 DEF Control

\* What a step needs to leave the call as it is.
LEMMA CallStays ==
    ASSUME Calls, call' = call, UNCHANGED <<kind, pc, wait, fetch>>,
           overrun = 0 => overrun' = 0, hung' = {} => hung = {},
           RanBy("page") \subseteq RanBy("page")'
    PROVE  Calls'
<1>1. Slots' = Slots
  BY KeptStays
<1>2. QED
  BY <1>1 DEF Calls, OneCall

LEMMA FramesStay == Frames /\ UNCHANGED <<stack, call, kind>> => Frames'
BY DEF Frames

LEMMA PlainControl ==
    ASSUME Control,
           \/ DeadlinePasses \/ UNCHANGED vars
           \/ \E l \in flying : Land(l)
    PROVE  Control'
<1>1. UNCHANGED <<kind, fetch, pc, at, deferred, wait, call, stack, ordered, hung, overrun, ran>>
  BY DEF DeadlinePasses, Land, vars, setVars, passVars, shimVars, timeVars
<1>2. pc # "collect" \/ UNCHANGED <<tasks, flying>>
  BY DEF DeadlinePasses, Land, vars, loadVars, Control, Fresh
<1>3. Walking' /\ Fresh' /\ Pumping'
  BY <1>1, <1>2 DEF Control, Walking, Fresh, Pumping, Quiet, PassLength
<1>4. Calls' /\ Frames'
  <2>1. RanBy("page")' = RanBy("page")
    BY <1>1 DEF RanBy
  <2>2. QED
    BY <1>1, <2>1, CallStays, FramesStay DEF Control
<1>5. QED
  BY <1>3, <1>4 DEF Control

LEMMA CollectControl == Control /\ Collect => Control'
<1> SUFFICES ASSUME Control, Collect PROVE Control'
  OBVIOUS
<1>1. /\ pc = "collect" /\ pc' = "parse" /\ UNCHANGED <<kind, at, deferred, wait, call, stack>>
      /\ UNCHANGED <<overrun>>
  BY DEF Collect, shimVars, timeVars
<1>2. wait = "no" /\ call = NoCall /\ stack = <<>>
  BY <1>1 DEF Control, Fresh
<1>3. Walking' /\ Fresh' /\ Pumping' /\ Calls'
  BY <1>1, <1>2 DEF Control, Walking, Fresh, Pumping, Calls, Events
<1>4. QED
  BY <1>1, <1>3, FramesStay DEF Control

\* The pass is at one of its scripts.
LEMMA ScriptOfPass ==
    ASSUME Walking, pc \in {"parse", "defer"}, at <= PassLength
    PROVE  ScriptAt \in Parsed /\ ScriptAt \in Scripts
<1>1. Document \in Seq(Parsed) /\ deferred \in Seq(Parsed) /\ at \in Nat \ {0}
  BY ScriptsAssumption DEF Walking
<1>2. ScriptAt \in Parsed
  BY <1>1 DEF ScriptAt, PassLength
<1>3. QED
  BY <1>2, KeptType

LEMMA StartedCall ==
    ASSUME NEW s \in Scripts, StartCall(s), pc' \in {"parse", "defer"}, wait' = "no"
    PROVE  Calls' /\ call' # NoCall /\ call'.step = "mark"
<1>1. /\ call'.script = s /\ call'.step = "mark" /\ call'.by = "pipeline"
      /\ DOMAIN call' = {"script", "step", "by"}
  BY DEF StartCall
<1>2. OneCall(call)'
  BY <1>1 DEF OneCall, CallSteps
<1>3. QED
  BY <1>1, <1>2 DEF Calls, NoCall

LEMMA PassStepControl == Control /\ PassStep => Control'
<1> SUFFICES ASSUME Control, PassStep PROVE Control'
  OBVIOUS
<1>1. /\ pc \in {"parse", "defer"} /\ pc' = pc /\ wait = "no" /\ call = NoCall /\ stack = <<>>
      /\ at <= PassLength /\ UNCHANGED <<kind, stack, tasks, flying, ordered, ran, overrun>>
  BY DEF PassStep, Quiet, setVars, loadVars, shimVars, timeVars, StartCall
<1>2. ScriptAt \in Parsed /\ ScriptAt \in Scripts
  BY <1>1, ScriptOfPass DEF Control
<1>3. \/ /\ at' = at + 1 /\ UNCHANGED <<wait, call>>
         /\ deferred' \in {deferred, Append(deferred, ScriptAt)}
      \/ deferred' = deferred /\ at' = at /\ wait' = "enter" /\ call' = call
      \/ deferred' = deferred /\ StartCall(ScriptAt) /\ at' = at /\ wait' = wait
  BY DEF PassStep
<1>4. deferred' \in Seq(Parsed) /\ at' \in Nat \ {0}
  <2>1. deferred \in Seq(Parsed) /\ at \in Nat \ {0}
    BY DEF Control, Walking
  <2>2. Append(deferred, ScriptAt) \in Seq(Parsed)
    BY <1>2, <2>1
  <2>3. QED
    BY <1>3, <2>1, <2>2
<1>5. Walking'
  BY <1>1, <1>3, <1>4 DEF Walking, PassLength, Events
<1>6. Fresh' /\ Pumping'
  BY <1>1, <1>3 DEF Fresh, Pumping
<1>7. Calls' /\ (call' = NoCall \/ call'.step = "mark")
  <2>1. CASE call' = call
    BY <1>1, <2>1 DEF Calls
  <2>2. CASE StartCall(ScriptAt) /\ wait' = wait
    BY <1>1, <1>2, <2>2, StartedCall
  <2>3. QED
    BY <1>3, <2>1, <2>2
<1>8. Frames'
  BY <1>1, <1>7 DEF Control, Frames
<1>9. QED
  BY <1>5, <1>6, <1>7, <1>8 DEF Control

LEMMA PassEndsControl == Control /\ PassEnds => Control'
<1> SUFFICES ASSUME Control, PassEnds PROVE Control'
  OBVIOUS
<1>1. /\ pc \in {"parse", "defer"} /\ pc' \in {"defer", "DOMContentLoaded"}
      /\ wait = "no" /\ wait' = "no" /\ call = NoCall
      /\ at' = 1 /\ UNCHANGED <<kind, stack, deferred, call>>
  BY DEF PassEnds, Quiet, setVars, shimVars
<1>2. Walking' /\ Fresh' /\ Pumping' /\ Calls'
  BY <1>1 DEF Control, Walking, Fresh, Pumping, Calls
<1>3. QED
  BY <1>1, <1>2, FramesStay DEF Control

LEMMA FireControl == Control /\ FireLifecycleEvent => Control'
<1> SUFFICES ASSUME Control, FireLifecycleEvent PROVE Control'
  OBVIOUS
<1>1. /\ pc \in Events /\ UNCHANGED <<kind, pc, at, deferred, wait, stack, overrun>>
      /\ stack = <<>>
      /\ call'.script = pc /\ call'.step = "code" /\ call'.by = "pipeline"
      /\ DOMAIN call' = {"script", "step", "by"}
      /\ call = NoCall
  BY DEF FireLifecycleEvent, Quiet, setVars, shimVars, timeVars
<1>2. Walking' /\ Fresh'
  BY <1>1 DEF Control, Walking, Fresh, PassLength, Events
<1>3. Calls'
  BY <1>1 DEF Calls, OneCall, CallSteps, Events
<1>4. Frames'
  BY <1>1, Singleton DEF Frames
<1>5. wait # "pump"
  BY <1>1 DEF Control, Walking
<1>6. Pumping'
  BY <1>1, <1>5 DEF Pumping
<1>7. QED
  BY <1>2, <1>3, <1>4, <1>6 DEF Control

LEMMA CallIs ==
    ASSUME Control, call # NoCall
    PROVE  /\ OneCall(call) /\ wait # "pump" /\ pc # "collect"
           /\ call.step # "running" => stack = <<>>
           /\ call.step = "running" => stack # <<>> /\ stack[1][1] = Load("page", call.script)
<1>1. OneCall(call) /\ wait # "pump" /\ pc # "collect"
  BY DEF Control, Calls, Pumping, Quiet, Fresh
<1>2. call.step # "running" => stack = <<>>
  BY DEF Control, Frames
<1>3. call.step = "running" => stack # <<>> /\ stack[1][1] = Load("page", call.script)
  BY DEF Control, Frames
<1>4. QED
  BY <1>1, <1>2, <1>3

LEMMA EscapesControl ==
    ASSUME Control, call # NoCall, Escapes, stack' = <<>>, UNCHANGED <<kind, deferred>>
    PROVE  Control'
<1>1. /\ call' = NoCall /\ wait' = "enter" /\ at' = at /\ pc' \in {"returned", "aborted"}
  BY DEF Escapes
<1>2. Walking' /\ Fresh' /\ Pumping' /\ Calls'
  BY <1>1 DEF Control, Walking, Fresh, Pumping, Calls, Events
<1>3. Frames'
  BY <1>1, Singleton DEF Frames
<1>4. QED
  BY <1>2, <1>3 DEF Control

LEMMA ReturnsControl ==
    ASSUME Control, call # NoCall, Returns, stack' = <<>>, UNCHANGED <<kind, deferred>>
    PROVE  Control'
<1>1. OneCall(call) /\ wait # "pump" /\ pc # "collect"
  BY CallIs
<1>2. call' = NoCall
  BY <1>1, ReturnsWhere
<1>3. at \in Nat \ {0} /\ deferred \in Seq(Parsed)
  BY DEF Control, Walking
<1>4. CASE UNCHANGED <<pc, at, wait>>
  <2>1. Walking'
    BY <1>4 DEF Control, Walking, PassLength
  <2>2. QED
    BY <1>1, <1>2, <1>4, <2>1, Singleton DEF Control, Fresh, Pumping, Calls, Frames
<1>5. CASE at' = at + 1 /\ UNCHANGED <<pc, wait>> /\ call.by = "pipeline" /\ call.script \in Scripts
  <2>1. pc \in {"parse", "defer"} /\ wait = "no"
    BY <1>1, <1>5, ScriptsAssumption DEF OneCall
  <2>2. Walking'
    BY <1>3, <1>5, <2>1 DEF Walking, Events
  <2>3. QED
    BY <1>1, <1>2, <1>5, <2>1, <2>2, Singleton DEF Control, Fresh, Pumping, Calls, Frames
<1>6. CASE /\ at' = at
           /\ \/ pc' = "hold" /\ wait' = "enter"
              \/ pc \in Events /\ pc' = "load" /\ wait' = wait
              \/ pc' = "ready" /\ wait' = "enter"
  <2>1. pc \in Events => wait = "no"
    BY DEF Control, Walking
  <2>2. Walking' /\ Fresh' /\ Pumping'
    BY <1>3, <1>6, <2>1 DEF Walking, Events, Fresh, Pumping
  <2>3. QED
    BY <1>2, <2>2, Singleton DEF Control, Calls, Frames
<1>7. QED
  BY <1>1, <1>4, <1>5, <1>6, ReturnsWhere

LEMMA StepControl ==
    ASSUME Control, call # NoCall, NEW t \in {"current", "code", "reset"}, Step(t),
           stack' = <<>>, UNCHANGED <<kind, deferred, fetch>>, call.script \in Scripts,
           call.by = "task" =>
              /\ t = "current" => overrun' = 0
              /\ t = "reset" /\ hung' = {} => call.script \in RanBy("page")'
    PROVE  Control'
<1>1. OneCall(call) /\ wait # "pump" /\ pc # "collect"
  BY CallIs
<1>2. /\ call' = [call EXCEPT !.step = t] /\ UNCHANGED <<pc, at, wait>>
  BY DEF Step
<1>3. /\ call'.script = call.script /\ call'.by = call.by /\ call'.step = t
      /\ DOMAIN call' = {"script", "step", "by"} /\ call' # NoCall
  BY <1>1, <1>2 DEF OneCall, NoCall
<1>4. Walking' /\ Fresh' /\ Pumping'
  BY <1>1, <1>2 DEF Control, Walking, Fresh, Pumping, PassLength
<1>5. Slots' = Slots
  BY KeptStays
<1>6. OneCall(call)'
  BY <1>1, <1>2, <1>3, <1>5, ScriptsAssumption DEF OneCall, CallSteps
<1>7. Frames'
  BY <1>3, Singleton DEF Frames
<1>8. QED
  BY <1>4, <1>6, <1>7 DEF Control, Calls

LEMMA MarkControl == Control /\ (CallMark \/ CallCurrent) => Control'
<1> SUFFICES ASSUME Control, CallMark \/ CallCurrent PROVE Control'
  OBVIOUS
<1>1. /\ call.step \in {"mark", "current"} /\ call # NoCall
      /\ UNCHANGED <<kind, fetch, deferred, stack>>
  BY DEF CallMark, CallCurrent, NoCall
<1>2. OneCall(call) /\ stack = <<>>
  BY <1>1, CallIs
<1>3. call.script \in Scripts
  BY <1>1, <1>2, KeptType DEF OneCall
<1>4. \/ Escapes
      \/ overrun' = overrun /\ call.step = "mark" /\ Step("current")
      \/ Step("code")
  <2>1. CASE CallMark
    BY <2>1 DEF CallMark, OwnScript, CheckpointHolds
  <2>2. CASE CallCurrent
    BY <2>2 DEF CallCurrent, OwnScript, CheckpointHolds
  <2>3. QED
    BY <2>1, <2>2
<1>5. CASE Escapes
  BY <1>1, <1>2, <1>5, EscapesControl
<1>6. CASE overrun' = overrun /\ call.step = "mark" /\ Step("current")
  <2>1. call.by = "task" => overrun' = 0
    BY <1>2, <1>6 DEF OneCall
  <2>2. QED
    BY <1>1, <1>2, <1>3, <1>6, <2>1, StepControl
<1>7. CASE Step("code")
  BY <1>1, <1>2, <1>3, <1>7, StepControl
<1>8. QED
  BY <1>4, <1>5, <1>6, <1>7

LEMMA ResetControl == Control /\ (CallCodeCut \/ CallReset) => Control'
<1> SUFFICES ASSUME Control, CallCodeCut \/ CallReset PROVE Control'
  OBVIOUS
<1>1. /\ call.step \in {"code", "reset"} /\ call # NoCall
      /\ UNCHANGED <<kind, fetch, deferred, stack>>
  BY DEF CallCodeCut, CallReset, NoCall, shimVars
<1>2. OneCall(call) /\ stack = <<>>
  BY <1>1, CallIs
<1>3. CASE Returns
  BY <1>1, <1>2, <1>3, ReturnsControl
<1>4. CASE CallCodeCut /\ Step("reset") /\ call.script \notin Events
  <2>1. call.script \in Scripts
    BY <1>2, <1>4, KeptType DEF OneCall
  <2>2. hung' # {}
    BY <1>4 DEF CallCodeCut
  <2>3. QED
    BY <1>1, <1>2, <1>4, <2>1, <2>2, StepControl
<1>5. Returns \/ (CallCodeCut /\ Step("reset") /\ call.script \notin Events)
  BY DEF CallCodeCut, CallReset, OwnScript
<1>6. QED
  BY <1>3, <1>4, <1>5

LEMMA CodeControl == Types /\ Control /\ CallCode => Control'
<1> SUFFICES ASSUME Types, Control, CallCode PROVE Control'
  OBVIOUS
<1> DEFINE l == Load("page", call.script)
           e == <<l, current>>
<1>1. /\ call.step = "code" /\ call # NoCall /\ ran' = Append(ran, l) /\ stack' = <<e>>
      /\ call' = [call EXCEPT !.step = "running"]
      /\ UNCHANGED <<kind, fetch, deferred, pc, at, wait, hung>>
  BY DEF CallCode, Step, NoCall, timeVars
<1>2. OneCall(call) /\ wait # "pump" /\ pc # "collect"
  BY <1>1, CallIs
<1>3. /\ call'.script = call.script /\ call'.by = call.by /\ call'.step = "running"
      /\ DOMAIN call' = {"script", "step", "by"} /\ call' # NoCall
  BY <1>1, <1>2 DEF OneCall, NoCall
<1>4. l.by = "page" /\ l.script = call.script /\ e[1] = l
  BY DEF Load
<1> HIDE DEF e
<1>5. Walking' /\ Fresh' /\ Pumping'
  BY <1>1, <1>2 DEF Control, Walking, Fresh, Pumping, PassLength
<1>6. Slots' = Slots
  BY <1>1, KeptStays
<1>7. call.script \in RanBy("page")'
  BY <1>1, <1>4, RanGrows DEF Types
<1>8. OneCall(call)'
  BY <1>1, <1>2, <1>3, <1>6, <1>7, ScriptsAssumption DEF OneCall, CallSteps
<1>9. DOMAIN stack' = {1} /\ stack'[1] = e
  BY <1>1
<1>10. Frames'
  BY <1>3, <1>4, <1>9 DEF Frames, Load
<1>11. QED
  BY <1>5, <1>8, <1>10 DEF Control, Calls

\* The innermost frame, and the stack without it.
LEMMA TopOfStack ==
    ASSUME Types, stack # <<>>
    PROVE  /\ Len(stack) \in DOMAIN stack /\ DOMAIN stack = 1 .. Len(stack) /\ Len(stack) \in Nat
           /\ Listing(Pop) /\ DOMAIN Pop = DOMAIN stack \ {Len(stack)}
           /\ \A k \in DOMAIN Pop : Pop[k] = stack[k]
           /\ Pop = <<>> => Len(stack) = 1
<1>1. /\ Len(stack) \in DOMAIN stack /\ DOMAIN stack = 1 .. Len(stack)
      /\ Listing(Pop) /\ DOMAIN Pop = DOMAIN stack \ {Len(stack)}
      /\ \A k \in DOMAIN Pop : Pop[k] = stack[k]
  BY Popped DEF Types, Pop
<1>2. Len(stack) \in Nat
  BY DEF Types, Listing
<1>3. Pop = <<>> => Len(stack) = 1
  <2> SUFFICES ASSUME Pop = <<>> PROVE Len(stack) = 1
    OBVIOUS
  <2>1. DOMAIN Pop = {}
    BY Singleton
  <2>2. 1 \in DOMAIN stack /\ \A k \in DOMAIN stack : k = Len(stack)
    BY <1>1, <1>2, <2>1
  <2>3. QED
    BY <2>2
<1>4. QED
  BY <1>1, <1>2, <1>3

LEMMA PageOnTop ==
    ASSUME Types, Control, stack # <<>>, Top[1].by = "page"
    PROVE  /\ Len(stack) = 1 /\ stack[1][1] = Load("page", call.script)
           /\ call # NoCall /\ call.step = "running"
<1>1. Len(stack) \in DOMAIN stack /\ Len(stack) \in Nat \ {0} /\ Top = stack[Len(stack)]
  BY TopOfStack DEF Top
<1>2. Len(stack) > 1 => stack[Len(stack)][1].by = "shim"
  BY <1>1 DEF Control, Frames
<1>3. stack[Len(stack)][1].by = "page"
  BY <1>1, Zenon
<1>4. \A n \in Nat \ {0} : ~(n > 1) => n = 1
  OBVIOUS
<1>5. Len(stack) = 1 /\ stack[1][1].by = "page"
  BY <1>1, <1>2, <1>3, <1>4
<1>6. QED
  BY <1>5 DEF Control, Frames, Load

LEMMA InsertControl ==
    ASSUME Types, Control, NEW s \in Scripts, Insert(s)
    PROVE  Control'
<1>1. /\ stack # <<>> /\ UNCHANGED <<kind, fetch, pc, at, deferred, wait, call, hung, overrun>>
      /\ kind[s] # "module"
  BY DEF Insert, passVars, timeVars
<1>2. pc # "collect"
  BY <1>1 DEF Control, Fresh
<1>3. Walking' /\ Fresh'
  BY <1>1, <1>2 DEF Control, Walking, Fresh, PassLength
<1>4. Pumping'
  BY <1>1 DEF Control, Pumping, Quiet
<1>5. CASE kind[s] \in Inline
  <2> DEFINE l == Load("shim", s)
             e == <<l, current>>
  <2>1. stack' = Append(stack, e) /\ ran' = Append(ran, l)
    BY <1>5 DEF Insert, Inline
  <2>2. e[1] = l /\ l.by = "shim" /\ l.script = s
    BY DEF Load
  <2> HIDE DEF e, l
  <2>3. /\ DOMAIN stack' = DOMAIN stack \cup {Len(stack) + 1} /\ Len(stack) \in Nat
        /\ DOMAIN stack = 1 .. Len(stack)
        /\ stack'[Len(stack) + 1] = e /\ \A i \in DOMAIN stack : stack'[i] = stack[i]
    BY <2>1, Appended DEF Types
  <2>4. 1 \in DOMAIN stack /\ stack'[1] = stack[1] /\ stack' # <<>>
    <3>1. Len(stack) \in DOMAIN stack
      BY <1>1, TopOfStack
    <3>2. 1 \in DOMAIN stack
      BY <2>3, <3>1
    <3>3. QED
      BY <2>3, <3>2, Singleton
  <2>5. Frames'
    BY <1>1, <1>5, <2>2, <2>3, <2>4 DEF Control, Frames
  <2>6. RanBy("page") \subseteq RanBy("page")'
    BY <2>1, <2>2, RanGrows DEF Types
  <2>7. Calls'
    BY <1>1, <2>6, CallStays DEF Control
  <2>8. QED
    BY <1>3, <1>4, <2>5, <2>7 DEF Control
<1>6. CASE kind[s] \notin Inline
  <2>1. UNCHANGED <<stack, ran>>
    BY <1>6 DEF Insert, Inline
  <2>2. RanBy("page")' = RanBy("page")
    BY <2>1 DEF RanBy
  <2>3. QED
    BY <1>1, <1>3, <1>4, <2>1, <2>2, CallStays, FramesStay DEF Control
<1>7. QED
  BY <1>5, <1>6

LEMMA CodeEndsControl == Types /\ Control /\ CodeEnds => Control'
<1> SUFFICES ASSUME Types, Control, CodeEnds PROVE Control'
  OBVIOUS
<1>1. stack # <<>> /\ stack' = Pop /\ UNCHANGED <<kind, fetch, deferred, hung, ran>>
  BY DEF CodeEnds
<1>2. pc # "collect" /\ RanBy("page")' = RanBy("page")
  BY <1>1 DEF Control, Fresh, RanBy
<1>3. /\ Len(stack) \in DOMAIN stack /\ DOMAIN stack = 1 .. Len(stack) /\ Len(stack) \in Nat
      /\ DOMAIN stack' = DOMAIN stack \ {Len(stack)}
      /\ \A k \in DOMAIN stack' : stack'[k] = stack[k]
      /\ stack' = <<>> => Len(stack) = 1
  BY <1>1, TopOfStack
<1>4. CASE Top[1].by = "page"
  <2>1. Len(stack) = 1 /\ stack' = <<>>
    <3>1. Len(stack) = 1
      <4>1. ~(Len(stack) > 1)
        BY <1>3, <1>4 DEF Control, Frames, Top
      <4>2. QED
        BY <1>3, <4>1
    <3>2. Pop = <<>>
      BY <3>1 DEF Pop
    <3>3. QED
      BY <1>1, <3>1, <3>2
  <2>2. call # NoCall /\ call.step = "running"
    BY <1>1, <1>4, <2>1 DEF Control, Frames, Top
  <2>3. Returns \/ (Step("reset") /\ call.script \notin Events)
    BY <1>4 DEF CodeEnds
  <2>4. CASE Returns
    BY <1>1, <2>1, <2>2, <2>4, ReturnsControl
  <2>5. CASE Step("reset") /\ call.script \notin Events
    <3>1. OneCall(call)
      BY <2>2, CallIs
    <3>2. call.script \in Scripts
      BY <2>5, <3>1, KeptType DEF OneCall
    <3>3. call.by = "task" /\ hung' = {} => call.script \in RanBy("page")'
      BY <1>1, <1>2, <2>2, <3>1 DEF OneCall
    <3>4. QED
      BY <1>1, <2>1, <2>2, <2>5, <3>2, <3>3, StepControl
  <2>6. QED
    BY <2>3, <2>4, <2>5
<1>5. CASE Top[1].by # "page"
  <2>1. UNCHANGED <<pc, at, wait, call, overrun>>
    BY <1>5 DEF CodeEnds
  <2>2. Walking' /\ Fresh'
    BY <1>1, <1>2, <2>1 DEF Control, Walking, Fresh, PassLength
  <2>3. Pumping'
    BY <1>1, <2>1 DEF Control, Pumping, Quiet
  <2>4. Calls'
    BY <1>1, <1>2, <2>1, CallStays DEF Control
  <2>5. Frames'
    <3>1. stack' # <<>> => stack'[1] = stack[1]
      <4>1. stack' # <<>> => 1 \in DOMAIN stack'
        <5>1. Listing(stack')
          BY <1>1, TopOfStack
        <5>2. QED
          BY <5>1 DEF Listing
      <4>2. QED
        BY <1>3, <4>1
    <3>2. stack' = <<>> => call = NoCall \/ call.step # "running"
      <4>1. stack' = <<>> => Top = stack[1]
        BY <1>3 DEF Top
      <4>2. QED
        BY <1>1, <1>5, <4>1 DEF Control, Frames, Load
    <3>3. QED
      BY <1>1, <1>3, <2>1, <3>1, <3>2 DEF Control, Frames
  <2>6. QED
    BY <2>2, <2>3, <2>4, <2>5 DEF Control
<1>6. QED
  BY <1>4, <1>5

LEMMA CodeIsCutControl == Types /\ Control /\ CodeIsCut => Control'
<1> SUFFICES ASSUME Types, Control, CodeIsCut PROVE Control'
  OBVIOUS
<1>1. /\ stack # <<>> /\ stack' = <<>> /\ UNCHANGED <<kind, fetch, deferred, ran>>
      /\ hung' = hung \cup {stack[1][1].by}
  BY DEF CodeIsCut
<1>2. pc # "collect" /\ hung' # {}
  BY <1>1 DEF Control, Fresh
<1>3. CASE stack[1][1].by = "shim"
  <2>1. UNCHANGED <<pc, at, wait, call>> /\ call = NoCall
    BY <1>1, <1>3 DEF CodeIsCut, Control, Frames, Load
  <2>2. Walking' /\ Fresh' /\ Calls' /\ Frames'
    BY <1>1, <1>2, <2>1, Singleton DEF Control, Walking, Fresh, PassLength, Calls, Frames
  <2>3. wait # "pump"
    BY <1>1 DEF Control, Pumping, Quiet
  <2>4. QED
    BY <2>1, <2>2, <2>3 DEF Control, Pumping
<1>4. CASE stack[1][1].by # "shim"
  <2>1. call # NoCall
    BY <1>1, <1>4 DEF Control, Frames
  <2>2. OneCall(call)
    BY <2>1, CallIs
  <2>3. Returns \/ (Step("reset") /\ call.script \notin Events)
    BY <1>4 DEF CodeIsCut
  <2>4. CASE Returns
    BY <1>1, <2>1, <2>4, ReturnsControl
  <2>5. CASE Step("reset") /\ call.script \notin Events
    <3>1. call.script \in Scripts
      BY <2>2, <2>5, KeptType DEF OneCall
    <3>2. QED
      BY <1>1, <1>2, <2>1, <2>5, <3>1, StepControl
  <2>6. QED
    BY <2>3, <2>4, <2>5
<1>5. QED
  BY <1>3, <1>4

LEMMA WaitControl == Control /\ (WaitCheckpoint \/ WaitLeaves) => Control'
<1> SUFFICES ASSUME Control, WaitCheckpoint \/ WaitLeaves PROVE Control'
  OBVIOUS
<1>1. /\ wait # "no" /\ call = NoCall /\ stack = <<>>
      /\ UNCHANGED <<kind, fetch, deferred, stack, tasks, flying, ordered, ran, hung>>
  BY DEF WaitCheckpoint, WaitLeaves, Quiet, setVars, loadVars, shimVars, timeVars
<1>2. pc # "collect" /\ pc \notin Events /\ at \in Nat \ {0} /\ deferred \in Seq(Parsed)
  BY <1>1 DEF Control, Walking, Fresh
<1>3. CASE overrun' = 0 /\ wait' = "pump" /\ UNCHANGED <<pc, at, call>>
  <2>1. Walking' /\ Fresh' /\ Pumping' /\ Calls'
    BY <1>1, <1>2, <1>3 DEF Control, Walking, Fresh, Pumping, Calls, PassLength, Quiet
  <2>2. QED
    BY <1>1, <1>3, <2>1, FramesStay DEF Control
<1>4. CASE WaitEnds
  <2>1. CASE pc \in {"parse", "defer"}
    <3>1. /\ wait' = "no" /\ pc' = pc
          /\ \/ StartCall(ScriptAt) /\ at' = at
             \/ at' = at + 1 /\ call' = call
      BY <1>4, <2>1 DEF WaitEnds
    <3>2. ScriptAt \in Scripts
      BY <1>1, <2>1, ScriptOfPass DEF Control, Walking
    <3>3. Walking' /\ Fresh' /\ Pumping'
      BY <1>1, <1>2, <2>1, <3>1 DEF Walking, Fresh, Pumping, Events
    <3>4. Calls' /\ (call' = NoCall \/ call'.step = "mark")
      <4>1. CASE StartCall(ScriptAt)
        BY <2>1, <3>1, <3>2, <4>1, StartedCall
      <4>2. CASE call' = call
        BY <1>1, <4>2 DEF Calls
      <4>3. QED
        BY <3>1, <4>1, <4>2
    <3>5. Frames'
      BY <1>1, <3>4, Singleton DEF Frames
    <3>6. QED
      BY <3>3, <3>4, <3>5 DEF Control
  <2>2. CASE pc = "hold"
    <3>1. pc' = "load" /\ wait' = "no" /\ UNCHANGED <<at, call>>
      BY <1>4, <2>2 DEF WaitEnds
    <3>2. Walking' /\ Fresh' /\ Pumping' /\ Calls'
      BY <1>1, <1>2, <3>1 DEF Walking, Fresh, Pumping, Calls
    <3>3. QED
      BY <1>1, <3>1, <3>2, FramesStay DEF Control
  <2>3. CASE pc \notin {"parse", "defer", "hold"}
    <3>1. pc' \in {pc, "returned"} /\ wait' = "enter" /\ UNCHANGED <<at, call>>
      BY <1>4, <2>3 DEF WaitEnds
    <3>2. Walking' /\ Fresh' /\ Pumping' /\ Calls'
      BY <1>1, <1>2, <2>3, <3>1 DEF Walking, Fresh, Pumping, Calls, Events
    <3>3. QED
      BY <1>1, <3>1, <3>2, FramesStay DEF Control
  <2>4. QED
    BY <2>1, <2>2, <2>3
<1>5. QED
  BY <1>3, <1>4 DEF WaitCheckpoint, WaitLeaves, CheckpointHolds

\* What the oldest delivery is about.
LEMMA NextDelivery ==
    ASSUME Types, Places, tasks # <<>>
    PROVE  LET l == Head(tasks).what
           IN  /\ l \in What /\ l \in Queueing /\ l \notin flying
               /\ l.by \in {"page", "shim"} /\ l = Load(l.by, l.script) /\ l.script \in Scripts
               /\ l.by = "page" => /\ l.script \in Slots /\ fetch[l.script] = "waiting"
                                   /\ l.script \in DOMAIN fetch
               /\ l.by = "shim" => l.script \in Flights
<1> DEFINE l == Head(tasks).what
<1>1. /\ l \in What /\ l.script \in Scripts /\ Head(tasks) = tasks[1] /\ 1 \in DOMAIN tasks
  BY TaskHead
<1>2. l \in Queueing
  BY <1>1 DEF Queueing
<1>3. l.by \in {"page", "shim"} /\ l = Load(l.by, l.script)
  BY <1>1, WhatAssumption DEF Load
<1> HIDE DEF l
<1>4. QED
  BY <1>1, <1>2, <1>3, KeptType DEF Places, PageLoads, Once, Flights, Loads, l

LEMMA RunTaskControl ==
    ASSUME Types, Control, Places, NEW ok \in BOOLEAN, RunTask(ok)
    PROVE  Control'
<1>0. PICK l \in What : l = Head(tasks).what
  BY TaskHead DEF RunTask
<1>1. /\ tasks # <<>> /\ wait = "pump" /\ wait' = "after" /\ call = NoCall /\ stack = <<>>
      /\ overrun = 0 /\ pc # "collect" /\ pc \notin Events
      /\ UNCHANGED <<kind, pc, at, deferred, hung, overrun>>
  <2>1. /\ tasks # <<>> /\ wait = "pump" /\ wait' = "after" /\ call = NoCall /\ stack = <<>>
        /\ UNCHANGED <<kind, pc, at, deferred, hung, overrun>>
    BY DEF RunTask, Quiet, timeVars
  <2>2. QED
    BY <2>1 DEF Control, Pumping, Fresh, Walking
<1>2. Walking' /\ Fresh' /\ Pumping'
  BY <1>1 DEF Control, Walking, Fresh, Pumping, PassLength
<1>3. CASE call' = call /\ stack' = stack
  BY <1>1, <1>2, <1>3, FramesStay DEF Control, Calls
<1>4. CASE /\ l.by = "page" /\ kind[l.script] = "async" /\ ok
           /\ call' = [script |-> l.script, step |-> "mark", by |-> "task"]
           /\ stack' = stack
  <2>1. /\ call'.script = l.script /\ call'.step = "mark" /\ call'.by = "task"
        /\ DOMAIN call' = {"script", "step", "by"}
    BY <1>4
  <2>2. l.script \in Slots /\ l.script \in DOMAIN fetch
    BY <1>0, <1>1, <1>4, NextDelivery
  <2>3. fetch' = [fetch EXCEPT ![l.script] = "ok"]
    BY <1>0, <1>4 DEF RunTask
  <2>4. l.script \in Slots' /\ fetch'[l.script] = "ok"
    BY <1>1, <2>2, <2>3, KeptStays
  <2>5. OneCall(call)'
    BY <1>1, <1>4, <2>1, <2>4 DEF OneCall, CallSteps
  <2>6. Frames'
    BY <1>1, <1>4, <2>1, Singleton DEF Frames
  <2>7. QED
    BY <1>2, <2>5, <2>6 DEF Control, Calls
<1>5. CASE l.by = "shim" /\ call' = call /\ stack' = <<<<l, current>>>>
  <2>1. l.script \in Scripts /\ kind[l.script] \in External
    BY <1>0, <1>1, <1>5, NextDelivery DEF Places, Apart, Ext
  <2> DEFINE e == <<l, current>>
  <2>2. e[1] = l
    OBVIOUS
  <2>3. stack' = <<e>>
    BY <1>5
  <2> HIDE DEF e
  <2>4. DOMAIN stack' = {1} /\ stack'[1] = e
    BY <2>3
  <2>5. Frames'
    BY <1>1, <1>5, <2>1, <2>2, <2>4 DEF Frames
  <2>6. QED
    BY <1>1, <1>2, <1>5, <2>5 DEF Control, Calls
<1>6. QED
  <2>1. l.by \in {"page", "shim"}
    BY WhatAssumption
  <2>2. CASE l.by = "page"
    BY <1>0, <1>3, <1>4, <2>2 DEF RunTask
  <2>3. CASE l.by = "shim"
    BY <1>0, <1>3, <1>5, <2>3 DEF RunTask
  <2>4. QED
    BY <2>1, <2>2, <2>3

LEMMA ControlStep == Types /\ Places /\ Control /\ [Next]_vars => Control'
<1> SUFFICES ASSUME Types, Places, Control, [Next]_vars PROVE Control'
  OBVIOUS
<1>1. ASSUME NEW ok \in BOOLEAN, RunTask(ok) PROVE Control'
  BY <1>1, RunTaskControl
<1>2. ASSUME NEW s \in Scripts, Insert(s) PROVE Control'
  BY <1>2, InsertControl
<1>3. QED
  BY <1>1, <1>2, PlainControl, CollectControl, PassStepControl, PassEndsControl, FireControl,
     MarkControl, CodeControl, ResetControl, CodeEndsControl, CodeIsCutControl, WaitControl
     DEF Next

-----------------------------------------------------------------------------
(* What the steps do to the places a script can be in.                       *)

LEMMA QueueAppended ==
    ASSUME Types, OnceQueued, NEW l \in What \ Queueing,
           tasks' = Posted([what |-> l, relevant |-> TRUE])
    PROVE  OnceQueued' /\ Queueing' = Queueing \cup {l}
<1> DEFINE t == [what |-> l, relevant |-> TRUE]
<1>1. tasks' = Append(tasks, t) /\ tasks \in Seq(Task) /\ t \in Task /\ t.what = l
  BY PostedType DEF Types, Task
<1> HIDE DEF t
<1>2. /\ DOMAIN tasks' = DOMAIN tasks \cup {Len(tasks) + 1} /\ tasks'[Len(tasks) + 1] = t
      /\ \A k \in DOMAIN tasks : tasks'[k] = tasks[k]
  <2>1. /\ DOMAIN Append(tasks, t) = DOMAIN tasks \cup {Len(tasks) + 1}
        /\ Append(tasks, t)[Len(tasks) + 1] = t
        /\ \A k \in DOMAIN tasks : Append(tasks, t)[k] = tasks[k]
    BY <1>1, AppendLast
  <2>2. QED
    BY <1>1, <2>1, Zenon
<1>3. \A k \in DOMAIN tasks : tasks[k].what # l
  BY DEF Queueing
<1>4. OnceQueued'
  BY <1>1, <1>2, <1>3 DEF OnceQueued
<1>5. Queueing' = Queueing \cup {l}
  <2>1. \A x : x \in Queueing' <=> x \in Queueing \/ x = l
    BY <1>1, <1>2 DEF Queueing
  <2>2. QED
    BY <2>1
<1>6. QED
  BY <1>4, <1>5

LEMMA QueueTaken ==
    ASSUME Types, OnceQueued, tasks # <<>>, tasks' = Tail(tasks)
    PROVE  /\ OnceQueued' /\ Head(tasks).what \in Queueing
           /\ Queueing' = Queueing \ {Head(tasks).what}
<1>1. /\ Head(tasks) = tasks[1] /\ DOMAIN tasks = 1 .. Len(tasks) /\ Len(tasks) \in Nat \ {0}
      /\ DOMAIN tasks' = 1 .. (Len(tasks) - 1)
      /\ \A k \in DOMAIN tasks' : tasks'[k] = tasks[k + 1]
  BY DEF Types
<1>2. OnceQueued'
  <2> SUFFICES ASSUME NEW j \in DOMAIN tasks', NEW k \in DOMAIN tasks',
                      tasks'[j].what = tasks'[k].what
               PROVE  j = k
    BY DEF OnceQueued
  <2>1. j + 1 \in DOMAIN tasks /\ k + 1 \in DOMAIN tasks /\ tasks[j + 1].what = tasks[k + 1].what
    BY <1>1
  <2>2. j + 1 = k + 1
    BY <2>1 DEF OnceQueued
  <2>3. QED
    BY <1>1, <2>2
<1>3. Head(tasks).what \in Queueing
  BY <1>1 DEF Queueing
<1>4. ASSUME NEW l \in Queueing \ {Head(tasks).what} PROVE l \in Queueing'
  <2>1. PICK k \in DOMAIN tasks : l = tasks[k].what
    BY DEF Queueing
  <2>2. k - 1 \in DOMAIN tasks' /\ tasks'[k - 1] = tasks[k]
    BY <1>1, <1>4, <2>1
  <2>3. QED
    BY <2>1, <2>2 DEF Queueing
<1>5. ASSUME NEW l \in Queueing' PROVE l \in Queueing \ {Head(tasks).what}
  <2>1. PICK k \in DOMAIN tasks' : l = tasks'[k].what
    BY DEF Queueing
  <2>2. k + 1 \in DOMAIN tasks /\ l = tasks[k + 1].what /\ 1 \in DOMAIN tasks /\ k + 1 # 1
    BY <1>1, <2>1
  <2>3. tasks[k + 1].what # tasks[1].what
    BY <2>2 DEF OnceQueued
  <2>4. QED
    BY <1>1, <2>2, <2>3 DEF Queueing
<1>6. QED
  BY <1>2, <1>3, <1>4, <1>5

LEMMA OrderedAppended ==
    ASSUME Types, Listed, NEW s \in Scripts \ Waits, ordered' = Append(ordered, s)
    PROVE  Listed' /\ Waits' = Waits \cup {s}
<1>1. /\ DOMAIN ordered' = DOMAIN ordered \cup {Len(ordered) + 1} /\ ordered'[Len(ordered) + 1] = s
      /\ \A k \in DOMAIN ordered : ordered'[k] = ordered[k]
  BY AppendLast DEF Types
<1>2. \A k \in DOMAIN ordered : ordered[k] # s
  BY DEF Waits, Waiting
<1>3. Listed'
  BY <1>1, <1>2 DEF Listed
<1>4. Waits' = Waits \cup {s}
  BY <1>1 DEF Waits, Waiting
<1>5. QED
  BY <1>3, <1>4

LEMMA OrderedTaken ==
    ASSUME Types, Listed, ordered # <<>>, ordered' = Tail(ordered)
    PROVE  /\ Listed' /\ Head(ordered) \in Waits /\ Waits' = Waits \ {Head(ordered)}
<1>1. /\ Head(ordered) = ordered[1] /\ DOMAIN ordered = 1 .. Len(ordered)
      /\ Len(ordered) \in Nat \ {0} /\ Head(ordered) \in Scripts
      /\ DOMAIN ordered' = 1 .. (Len(ordered) - 1)
      /\ \A k \in DOMAIN ordered' : ordered'[k] = ordered[k + 1]
  BY DEF Types
<1>2. Listed'
  <2> SUFFICES ASSUME NEW j \in DOMAIN ordered', NEW k \in DOMAIN ordered',
                      ordered'[j] = ordered'[k]
               PROVE  j = k
    BY DEF Listed
  <2>1. j + 1 \in DOMAIN ordered /\ k + 1 \in DOMAIN ordered /\ ordered[j + 1] = ordered[k + 1]
    BY <1>1
  <2>2. j + 1 = k + 1
    BY <2>1 DEF Listed
  <2>3. QED
    BY <1>1, <2>2
<1>3. Head(ordered) \in Waits
  BY <1>1 DEF Waits, Waiting
<1>4. ASSUME NEW s \in Waits \ {Head(ordered)} PROVE s \in Waits'
  <2>1. PICK k \in DOMAIN ordered : s = ordered[k]
    BY DEF Waits, Waiting
  <2>2. k - 1 \in DOMAIN ordered' /\ ordered'[k - 1] = ordered[k]
    BY <1>1, <1>4, <2>1
  <2>3. QED
    BY <2>1, <2>2 DEF Waits, Waiting
<1>5. ASSUME NEW s \in Waits' PROVE s \in Waits \ {Head(ordered)}
  <2>1. s \in Scripts /\ \E k \in DOMAIN ordered' : s = ordered'[k]
    BY DEF Waits, Waiting
  <2>2. PICK k \in DOMAIN ordered' : s = ordered'[k]
    BY <2>1
  <2>3. k + 1 \in DOMAIN ordered /\ s = ordered[k + 1] /\ 1 \in DOMAIN ordered /\ k + 1 # 1
    BY <1>1, <2>2
  <2>4. ordered[k + 1] # ordered[1]
    BY <2>3 DEF Listed
  <2>5. QED
    BY <1>1, <2>1, <2>3, <2>4 DEF Waits, Waiting
<1>6. QED
  BY <1>2, <1>3, <1>4, <1>5

LEMMA WaitsStay == UNCHANGED ordered => Waits' = Waits /\ (Listed => Listed')
BY DEF Waits, Waiting, Listed
LEMMA RunsStay == UNCHANGED stack => Runs' = Runs
BY DEF Runs, Running
LEMMA LoadsStay == UNCHANGED <<tasks, flying>> => Loads' = Loads /\ Flights' = Flights /\ (Once => Once')
BY DEF Flights, Loads, Queueing, Once, OnceQueued

LEMMA ShimLoads == \A s, z : Load("shim", s) = Load("shim", z) <=> s = z
BY DEF Load

\* A load of the shim starts, or the cache has answered it.
LEMMA LoadStarted ==
    ASSUME Types, Once, NEW s \in Scripts \ Flights, StartShimLoad(s)
    PROVE  /\ Once' /\ Loads' = Loads \cup {Load("shim", s)} /\ Flights' = Flights \cup {s}
<1>1. PICK l \in What : l = Load("shim", s)
  BY WhatType
<1>2. l \notin flying /\ l \notin Queueing
  BY <1>1 DEF Flights, Loads
<1>3. Once' /\ Loads' = Loads \cup {l}
  <2>1. CASE flying' = flying \cup {l} /\ tasks' = tasks
    <3>1. Queueing' = Queueing /\ OnceQueued'
      BY <2>1 DEF Queueing, OnceQueued, Once
    <3>2. QED
      BY <1>2, <2>1, <3>1 DEF Once, Loads
  <2>2. CASE tasks' = Posted([what |-> l, relevant |-> TRUE]) /\ flying' = flying
    <3>1. Queueing' = Queueing \cup {l} /\ OnceQueued'
      BY <1>2, <2>2, QueueAppended DEF Once
    <3>2. QED
      BY <1>2, <2>2, <3>1 DEF Once, Loads
  <2>3. QED
    BY <1>1, <2>1, <2>2 DEF StartShimLoad, BeginExternalWork, Post, Delivery
<1>4. Flights' = Flights \cup {s}
  BY <1>1, <1>3, ShimLoads DEF Flights
<1>5. QED
  BY <1>1, <1>3, <1>4

\* A script is over, and the next of the ordered queue starts.
LEMMA DoneEffect ==
    ASSUME Types, Places, NEW s, OnDone(s)
    PROVE  /\ Once' /\ Listed' /\ holds' = holds - 1
           /\ \A l \in Loads' : l.by = "page" => l \in Loads
           /\ \/ Flights' = Flights /\ Waits' = Waits
              \/ \E h \in Waits : Flights' = Flights \cup {h} /\ Waits' = Waits \ {h}
<1>1. CASE kind[s] = "ordered" /\ ordered # <<>>
  <2>1. StartShimLoad(Head(ordered)) /\ ordered' = Tail(ordered) /\ holds' = holds - 1
    BY <1>1 DEF OnDone
  <2>2. Listed' /\ Head(ordered) \in Waits /\ Waits' = Waits \ {Head(ordered)}
    BY <1>1, <2>1, OrderedTaken DEF Places
  <2>3. Head(ordered) \in Scripts \ Flights
    BY <2>2 DEF Places, Apart, Waits
  <2>4. /\ Once' /\ Loads' = Loads \cup {Load("shim", Head(ordered))}
        /\ Flights' = Flights \cup {Head(ordered)}
    BY <2>1, <2>3, LoadStarted DEF Places
  <2>5. QED
    BY <2>1, <2>2, <2>4 DEF Load
<1>2. CASE ~(kind[s] = "ordered" /\ ordered # <<>>)
  <2>1. UNCHANGED <<tasks, flying, ordered>> /\ holds' = holds - 1
    BY <1>2 DEF OnDone, loadVars
  <2>2. QED
    BY <2>1, LoadsStay, WaitsStay DEF Places
<1>3. QED
  BY <1>1, <1>2

LEMMA KindIs ==
    ASSUME Types, NEW s \in Scripts, kind[s] # "module"
    PROVE  s \in Ext <=> kind[s] \notin Inline
<1>1. kind[s] \in ParserKinds \cup CreatedKinds
  BY MixesAssumption DEF Types
<1>2. QED
  BY <1>1 DEF ParserKinds, CreatedKinds, Ext, Inline, External

LEMMA InsertEffect ==
    ASSUME Types, Places, NEW s \in Scripts, Insert(s)
    PROVE  /\ Once' /\ Listed' /\ s \notin started /\ started' = started \cup {s}
           /\ UNCHANGED <<kind, fetch, pending, pc, call, hung>>
           /\ \A l \in Loads' : l.by = "page" => l \in Loads
           /\ \/ /\ s \notin Ext /\ holds' = holds /\ Flights' = Flights /\ Waits' = Waits
                 /\ Runs' = Runs \cup {s}
              \/ /\ s \in Ext /\ holds' = holds + 1 /\ Runs' = Runs
                 /\ \/ Flights' = Flights \cup {s} /\ Waits' = Waits
                    \/ Flights' = Flights /\ Waits' = Waits \cup {s}
<1>1. /\ s \notin started /\ started' = started \cup {s} /\ kind[s] # "module"
      /\ UNCHANGED <<kind, fetch, pending, pc, call, hung>>
  BY DEF Insert, passVars, timeVars
<1>2. s \in Scripts \ Flights /\ s \in Scripts \ Waits
  BY <1>1 DEF Places, Apart
<1>3. CASE kind[s] \in Inline
  <2> DEFINE l == Load("shim", s)
             e == <<l, current>>
  <2>1. stack' = Append(stack, e) /\ UNCHANGED <<tasks, flying, ordered, holds>>
    BY <1>3 DEF Insert, Inline, loadVars
  <2>2. e[1] = l /\ l = Load("shim", s)
    OBVIOUS
  <2> HIDE DEF e, l
  <2>3. /\ DOMAIN stack' = DOMAIN stack \cup {Len(stack) + 1}
        /\ stack'[Len(stack) + 1] = e /\ \A i \in DOMAIN stack : stack'[i] = stack[i]
    BY <2>1, Appended DEF Types
  <2>4. Runs' = Runs \cup {s}
    BY <2>2, <2>3, ShimLoads DEF Runs, Running
  <2>5. s \notin Ext
    BY <1>1, <1>3, KindIs
  <2>6. QED
    BY <1>1, <2>1, <2>4, <2>5, LoadsStay, WaitsStay DEF Places
<1>4. CASE kind[s] \notin Inline
  <2>1. s \in Ext /\ holds' = holds + 1 /\ Runs' = Runs
    <3>1. stack' = stack /\ holds' = holds + 1
      BY <1>4 DEF Insert, Inline
    <3>2. QED
      BY <1>1, <1>4, <3>1, KindIs, RunsStay
  <2>2. CASE ordered' = Append(ordered, s) /\ UNCHANGED <<tasks, flying>>
    BY <1>1, <1>2, <2>1, <2>2, OrderedAppended, LoadsStay DEF Places
  <2>3. CASE StartShimLoad(s) /\ UNCHANGED ordered
    <3>1. Once' /\ Loads' = Loads \cup {Load("shim", s)} /\ Flights' = Flights \cup {s}
      BY <1>2, <2>3, LoadStarted DEF Places
    <3>2. QED
      BY <1>1, <2>1, <2>3, <3>1, WaitsStay DEF Places, Load
  <2>4. QED
    BY <1>4, <2>2, <2>3 DEF Insert, Inline, loadVars
<1>5. QED
  BY <1>3, <1>4
-----------------------------------------------------------------------------
(* Every step keeps every load, and every inserted script, in one place.     *)

LEMMA PlacesInit == Init => Places
<1> SUFFICES ASSUME Init PROVE Places
  OBVIOUS
<1>1. /\ DOMAIN tasks = {} /\ DOMAIN ordered = {} /\ DOMAIN stack = {} /\ flying = {}
      /\ DOMAIN fetch = Parsed
  BY Singleton DEF Init, QueueInit
<1>2. Queueing = {} /\ Flights = {} /\ Runs = {} /\ Waits = {} /\ Loads = {}
  BY <1>1 DEF Queueing, Flights, Loads, Runs, Running, Waits, Waiting
<1>3. QED
  BY <1>1, <1>2 DEF Places, PageLoads, Once, OnceQueued, Listed, Apart

LEMMA LoadsType ==
    ASSUME Types
    PROVE  /\ Loads \subseteq What
           /\ \A l \in Loads : /\ l.by \in {"page", "shim"} /\ l.script \in Scripts
                                /\ l = Load(l.by, l.script)
<1>1. Queueing \subseteq What
  <2> SUFFICES ASSUME NEW k \in DOMAIN tasks PROVE tasks[k].what \in What
    BY DEF Queueing
  <2>1. tasks[k] \in Task
    BY DEF Types
  <2>2. QED
    BY <2>1 DEF Task
<1>2. Loads \subseteq What
  BY <1>1 DEF Loads, Types
<1>3. QED
  BY <1>2, WhatAssumption DEF Load

\* What keeps the places of a step that neither fetches nor renames.
LEMMA PlacesFrom ==
    ASSUME Places, Once', Listed', UNCHANGED <<kind, fetch>>, started \subseteq started',
           \A l \in Loads' : l.by = "page" => l \in Loads,
           Flights' \subseteq started' \cap Ext, Waits' \subseteq started' \cap Ext,
           Runs' \subseteq started',
           Flights' \cap Runs' = {}, Flights' \cap Waits' = {}, Waits' \cap Runs' = {}
    PROVE  Places'
<1>1. Slots' = Slots /\ Ext' = Ext
  BY KeptStays DEF Ext
<1>2. PageLoads'
  BY <1>1 DEF Places, PageLoads
<1>3. QED
  BY <1>1, <1>2 DEF Places, Apart

LEMMA AsidePlaces ==
    ASSUME Places, UNCHANGED <<kind, fetch, tasks, flying, ordered>>,
           started \subseteq started', Runs' \subseteq Runs
    PROVE  Places'
<1>1. Loads' = Loads /\ Flights' = Flights /\ Once' /\ Waits' = Waits /\ Listed'
  BY LoadsStay, WaitsStay DEF Places
<1>2. QED
  BY <1>1, PlacesFrom DEF Places, Apart

LEMMA CodePlaces == Places /\ CallCode => Places'
<1> SUFFICES ASSUME Places, CallCode PROVE Places'
  OBVIOUS
<1> DEFINE e == <<Load("page", call.script), current>>
<1>1. UNCHANGED <<kind, fetch, tasks, flying, ordered, started>> /\ stack' = <<e>>
  BY DEF CallCode, loadVars
<1>2. e[1].by # "shim"
  BY DEF Load
<1> HIDE DEF e
<1>3. DOMAIN stack' = {1} /\ stack'[1] = e
  BY <1>1
<1>4. Runs' = {}
  BY <1>2, <1>3 DEF Runs, Running, Load
<1>5. QED
  BY <1>1, <1>4, AsidePlaces

LEMMA InsertPlaces ==
    ASSUME Types, Places, NEW s \in Scripts, Insert(s)
    PROVE  Places'
<1>1. /\ Flights \subseteq started \cap Ext /\ Waits \subseteq started \cap Ext
      /\ Runs \subseteq started
      /\ Flights \cap Runs = {} /\ Flights \cap Waits = {} /\ Waits \cap Runs = {}
  BY DEF Places, Apart
<1>2. /\ Once' /\ Listed' /\ s \notin started /\ started' = started \cup {s}
      /\ UNCHANGED <<kind, fetch>>
      /\ \A l \in Loads' : l.by = "page" => l \in Loads
      /\ \/ Flights' = Flights /\ Waits' = Waits /\ Runs' = Runs \cup {s}
         \/ /\ s \in Ext /\ Runs' = Runs
            /\ \/ Flights' = Flights \cup {s} /\ Waits' = Waits
               \/ Flights' = Flights /\ Waits' = Waits \cup {s}
  BY InsertEffect
<1>3. QED
  BY <1>1, <1>2, PlacesFrom

LEMMA LandEffect ==
    ASSUME Types, Places, NEW l \in flying, Land(l)
    PROVE  Once' /\ Loads' = Loads /\ Flights' = Flights /\ UNCHANGED <<stack, ordered>>
<1>1. /\ flying' = flying \ {l} /\ tasks' = Posted([what |-> l, relevant |-> TRUE])
      /\ UNCHANGED <<stack, ordered>>
  BY DEF Land, LandAndPost, shimVars
<1>2. l \in What \ Queueing
  BY DEF Types, Places, Once
<1>3. OnceQueued' /\ Queueing' = Queueing \cup {l}
  BY <1>1, <1>2, QueueAppended DEF Places, Once
<1>4. Once' /\ Loads' = Loads
  BY <1>1, <1>3 DEF Places, Once, Loads
<1>5. QED
  BY <1>1, <1>4 DEF Flights

LEMMA LandPlaces ==
    ASSUME Types, Places, NEW l \in flying, Land(l)
    PROVE  Places'
<1>1. Once' /\ Loads' = Loads /\ Flights' = Flights /\ UNCHANGED <<stack, ordered>>
  BY LandEffect
<1>2. UNCHANGED <<kind, fetch, started>>
  BY DEF Land, setVars, shimVars
<1>3. Runs' = Runs /\ Waits' = Waits /\ Listed'
  BY <1>1, RunsStay, WaitsStay DEF Places
<1>4. QED
  BY <1>1, <1>2, <1>3, PlacesFrom DEF Places, Apart

\* The innermost code ends: the page's own, inserted local code, or a script of
\* a task, which is then over.
LEMMA CodeEndsEffect ==
    ASSUME Types, Places, Control, CodeEnds
    PROVE  /\ UNCHANGED <<kind, fetch, started, hung>> /\ Once' /\ Listed'
           /\ \A l \in Loads' : l.by = "page" => l \in Loads
           /\ \/ /\ Top[1].by = "page" /\ call # NoCall /\ Runs = {} /\ Runs' = {}
                 /\ Flights' = Flights /\ Waits' = Waits /\ stack' = <<>>
              \/ /\ Top[1].by = "shim" /\ UNCHANGED <<pc, call, pending, holds>>
                 /\ Runs' \subseteq Runs /\ Runs' \cap Ext = Runs \cap Ext
                 /\ Flights' = Flights /\ Waits' = Waits
              \/ \E s \in Ext :
                 /\ Top[1].by = "shim" /\ UNCHANGED <<pc, call, pending>>
                 /\ Runs = {s} /\ Runs' = {} /\ holds' = holds - 1
                 /\ \/ Flights' = Flights /\ Waits' = Waits
                    \/ \E h \in Waits : Flights' = Flights \cup {h} /\ Waits' = Waits \ {h}
<1> DEFINE n == Len(stack)
<1>1. /\ stack # <<>> /\ stack' = Pop /\ UNCHANGED <<kind, fetch, started, hung>>
      /\ Top = stack[n]
  BY DEF CodeEnds, Top
<1>2. /\ n \in DOMAIN stack /\ n \in Nat /\ DOMAIN stack = 1 .. n /\ DOMAIN stack' = DOMAIN stack \ {n}
      /\ \A i \in DOMAIN stack' : stack'[i] = stack[i]
  BY <1>1, Popped DEF Types, Pop
<1>3. /\ \A k \in DOMAIN stack : k > 1 =>
            /\ stack[k][1].by = "shim" /\ kind[stack[k][1].script] \in Inline
            /\ stack[k][1].script \in Scripts
      /\ \/ call # NoCall /\ stack[1][1].by = "page"
         \/ /\ call = NoCall /\ stack[1][1] \in What /\ stack[1][1].by = "shim"
            /\ kind[stack[1][1].script] \in External
  BY <1>1 DEF Control, Frames, Load
<1> HIDE DEF n
<1>4. Runs' \subseteq Runs
  BY <1>2 DEF Runs, Running
<1>5. CASE Top[1].by = "page"
  <2>1. n = 1 /\ stack[1][1].by = "page" /\ call # NoCall
    BY <1>1, <1>2, <1>3, <1>5
  <2>2. DOMAIN stack = {1} /\ DOMAIN stack' = {}
    BY <1>2, <2>1
  <2>3. Runs = {} /\ Runs' = {}
    BY <2>1, <2>2 DEF Runs, Running, Load
  <2>4. UNCHANGED <<tasks, flying, ordered>>
    BY <1>5 DEF CodeEnds, loadVars
  <2>5. stack' = <<>>
    <3>1. Listing(stack')
      BY <1>1, Popped DEF Types, Pop
    <3>2. stack' \in Seq({stack'[i] : i \in DOMAIN stack'})
      BY <3>1 DEF Listing
    <3>3. QED
      BY <2>2, <3>2
  <2>6. QED
    BY <1>1, <1>5, <2>1, <2>3, <2>4, <2>5, LoadsStay, WaitsStay DEF Places
<1>6. CASE Top[1].by # "page" /\ kind[Top[1].script] \in Inline
  <2>1. UNCHANGED <<tasks, flying, ordered, pc, call, pending, holds>>
    BY <1>6 DEF CodeEnds, loadVars, Inline
  <2>2. Top[1].by = "shim"
    BY <1>1, <1>2, <1>6 DEF Types
  <2>3. \A x \in Runs \cap Ext : x \in Runs'
    <3> SUFFICES ASSUME NEW x \in Runs \cap Ext PROVE x \in Runs'
      OBVIOUS
    <3>1. PICK i \in DOMAIN stack : stack[i][1] = Load("shim", x)
      BY DEF Runs, Running
    <3>2. kind[x] \in External /\ x \in Scripts
      BY DEF Ext
    <3>3. i # n
      BY <1>1, <1>6, <3>1, <3>2 DEF Load, External, Inline
    <3>4. i \in DOMAIN stack' /\ stack'[i] = stack[i]
      BY <1>2, <3>1, <3>3
    <3>5. QED
      BY <3>1, <3>2, <3>4 DEF Runs, Running
  <2>4. QED
    BY <1>1, <1>4, <2>1, <2>2, <2>3, LoadsStay, WaitsStay DEF Places
<1>7. CASE Top[1].by # "page" /\ kind[Top[1].script] \notin Inline
  <2>1. OnDone(Top[1].script) /\ UNCHANGED <<pc, call, pending>>
    BY <1>7 DEF CodeEnds, Inline
  <2>2. n = 1 /\ Top[1].by = "shim" /\ stack[1][1] \in What /\ kind[Top[1].script] \in External
    BY <1>1, <1>2, <1>3, <1>7 DEF Types
  <2>3. PICK s \in Ext : stack[1][1] = Load("shim", s)
    BY <1>1, <2>2, WhatAssumption DEF Load, Ext
  <2>4. DOMAIN stack = {1} /\ DOMAIN stack' = {}
    BY <1>2, <2>2
  <2>5. Runs = {s} /\ Runs' = {}
    BY <2>3, <2>4, ShimLoads DEF Runs, Running, Ext
  <2>6. /\ Once' /\ Listed' /\ holds' = holds - 1
        /\ \A l \in Loads' : l.by = "page" => l \in Loads
        /\ \/ Flights' = Flights /\ Waits' = Waits
           \/ \E h \in Waits : Flights' = Flights \cup {h} /\ Waits' = Waits \ {h}
    BY <2>1, DoneEffect
  <2>7. QED
    BY <1>1, <2>1, <2>2, <2>5, <2>6
<1>8. QED
  BY <1>5, <1>6, <1>7

LEMMA CodeEndsPlaces == Types /\ Places /\ Control /\ CodeEnds => Places'
<1> SUFFICES ASSUME Types, Places, Control, CodeEnds PROVE Places'
  OBVIOUS
<1>1. /\ Flights \subseteq started \cap Ext /\ Waits \subseteq started \cap Ext
      /\ Runs \subseteq started
      /\ Flights \cap Runs = {} /\ Flights \cap Waits = {} /\ Waits \cap Runs = {}
  BY DEF Places, Apart
<1>2. /\ UNCHANGED <<kind, fetch, started>> /\ Once' /\ Listed'
      /\ \A l \in Loads' : l.by = "page" => l \in Loads
      /\ \/ Runs' \subseteq Runs /\ Flights' = Flights /\ Waits' = Waits
         \/ Runs' = {} /\ \E h \in Waits : Flights' = Flights \cup {h} /\ Waits' = Waits \ {h}
  BY CodeEndsEffect
<1>3. QED
  BY <1>1, <1>2, PlacesFrom

\* Cut code is gone with its frames; under the page's own there was only local
\* code.
LEMMA CodeIsCutEffect ==
    ASSUME Types, Control, CodeIsCut
    PROVE  /\ UNCHANGED <<kind, fetch, tasks, flying, ordered, started>> /\ Runs' = {} /\ stack' = <<>>
           /\ "shim" \notin hung' =>
                 /\ Runs \cap Ext = {} /\ call # NoCall
                 /\ Returns \/ (Step("reset") /\ call.script \notin Events)
<1>1. /\ UNCHANGED <<kind, fetch, tasks, flying, ordered, started>> /\ stack' = <<>>
      /\ stack # <<>> /\ hung' = hung \cup {stack[1][1].by}
      /\ stack[1][1].by # "shim" => Returns \/ (Step("reset") /\ call.script \notin Events)
  BY DEF CodeIsCut, loadVars
<1>2. Runs' = {}
  BY <1>1, Singleton DEF Runs, Running
<1>3. ASSUME "shim" \notin hung' PROVE Runs \cap Ext = {} /\ call # NoCall /\ stack[1][1].by # "shim"
  <2>1. stack[1][1].by # "shim"
    BY <1>1, <1>3
  <2>2. call # NoCall
    BY <1>1, <2>1 DEF Control, Frames
  <2>3. \A i \in DOMAIN stack : i > 1 => kind[stack[i][1].script] \in Inline
    BY DEF Control, Frames
  <2>4. DOMAIN stack \subseteq Nat \ {0}
    <3>1. Listing(stack)
      BY DEF Types
    <3>2. DOMAIN stack = 1 .. Len(stack) /\ Len(stack) \in Nat
      BY <3>1, Appended
    <3>3. QED
      BY <3>2
  <2>5. ASSUME NEW x \in Runs \cap Ext PROVE FALSE
    <3>1. PICK i \in DOMAIN stack : stack[i][1] = Load("shim", x)
      BY DEF Runs, Running
    <3>2. stack[i][1].by = "shim" /\ kind[stack[i][1].script] \in External
      BY <3>1 DEF Ext, Load
    <3>3. i # 1 /\ i \in Nat \ {0}
      BY <2>1, <2>4, <3>2
    <3>4. QED
      BY <2>3, <3>2, <3>3 DEF Inline, External
  <2>6. QED
    BY <2>1, <2>2, <2>5
<1>4. QED
  BY <1>1, <1>2, <1>3

\* Why a piece of the page's own JS throws: nothing was left to cut, so the
\* deadline is over.
LEMMA EscapesWhere ==
    ASSUME Control, call # NoCall, Escapes, call.step \in {"mark", "current"},
           overrun > 0 \/ LoadExpired
    PROVE  pc' = "aborted" /\ call' = NoCall /\ UNCHANGED <<at, pending, holds>>
<1>1. OneCall(call)
  BY CallIs
<1>2. pc # "returned"
  <2>1. call.by = "pipeline" => pc # "returned"
    BY <1>1 DEF OneCall, Events
  <2>2. call.by = "task" => ~(overrun > 0)
    BY <1>1 DEF OneCall
  <2>3. LoadExpired => pc # "returned"
    BY DEF LoadExpired
  <2>4. QED
    BY <1>1, <2>1, <2>2, <2>3 DEF OneCall
<1>3. QED
  BY <1>2 DEF Escapes

\* A task: the fetch of a parser script has landed, or the shim's load has, and
\* its script runs or is over.
LEMMA RunTaskEffect ==
    ASSUME Types, Places, NEW ok \in BOOLEAN, RunTask(ok), NEW l, l = Head(tasks).what
    PROVE  /\ UNCHANGED <<kind, started, hung, pc>> /\ Once' /\ Listed' /\ Runs = {}
           /\ call = NoCall /\ stack = <<>> /\ l \in Loads
           /\ \/ /\ l.by = "page" /\ l.script \in Slots /\ fetch[l.script] = "waiting"
                 /\ fetch' = [fetch EXCEPT ![l.script] = IF ok THEN "ok" ELSE "failed"]
                 /\ Loads' = Loads \ {l} /\ Flights' = Flights /\ Runs' = {} /\ Waits' = Waits
                 /\ \/ kind[l.script] # "async" /\ UNCHANGED <<pending, holds, call>>
                    \/ /\ kind[l.script] = "async" /\ ok /\ ~LoadExpired /\ UNCHANGED <<pending, holds>>
                       /\ call' = [script |-> l.script, step |-> "mark", by |-> "task"]
                    \/ /\ kind[l.script] = "async" /\ ~(ok /\ ~LoadExpired) /\ UNCHANGED call
                       /\ pending' = pending - 1 /\ holds' = holds - 1
              \/ /\ l.by = "shim" /\ l.script \in Flights /\ UNCHANGED <<fetch, pending, call>>
                 /\ \A x \in Loads' : x.by = "page" => x \in Loads
                 /\ \/ /\ Flights' = Flights \ {l.script} /\ Runs' = {l.script} /\ Waits' = Waits
                       /\ UNCHANGED holds
                    \/ /\ Runs' = {} /\ holds' = holds - 1
                       /\ \/ Flights' = Flights \ {l.script} /\ Waits' = Waits
                          \/ \E h \in Waits : /\ Flights' = (Flights \ {l.script}) \cup {h}
                                              /\ Waits' = Waits \ {h}
<1>1. /\ tasks # <<>> /\ call = NoCall /\ stack = <<>> /\ tasks' = Tail(tasks)
      /\ UNCHANGED <<kind, started, hung, pc>>
  BY DEF RunTask, Quiet, TakeTask, timeVars
<1>2. /\ l \in What /\ l \in Queueing /\ l \notin flying
      /\ l.by \in {"page", "shim"} /\ l = Load(l.by, l.script) /\ l.script \in Scripts
      /\ l.by = "page" => l.script \in Slots /\ fetch[l.script] = "waiting"
      /\ l.by = "shim" => l.script \in Flights
  BY <1>1, NextDelivery
<1>3. OnceQueued' /\ Queueing' = Queueing \ {l}
  BY <1>1, QueueTaken DEF Places, Once
<1>4. flying \cap Queueing = {}
  BY DEF Places, Once
<1>5. l \in Loads /\ Runs = {} /\ (stack' = <<>> => Runs' = {})
  BY <1>1, <1>2, Singleton DEF Loads, Runs, Running
<1>6. ASSUME flying' = flying PROVE Once' /\ Loads' = Loads \ {l}
  BY <1>2, <1>3, <1>4, <1>6 DEF Once, Loads
<1>7. CASE l.by = "page"
  <2>1. /\ UNCHANGED <<flying, stack, ordered>>
        /\ fetch' = [fetch EXCEPT ![l.script] = IF ok THEN "ok" ELSE "failed"]
        /\ \/ kind[l.script] # "async" /\ UNCHANGED <<pending, holds, call>>
           \/ /\ kind[l.script] = "async" /\ ok /\ ~LoadExpired /\ UNCHANGED <<pending, holds>>
              /\ call' = [script |-> l.script, step |-> "mark", by |-> "task"]
           \/ /\ kind[l.script] = "async" /\ ~(ok /\ ~LoadExpired) /\ UNCHANGED call
              /\ pending' = pending - 1 /\ holds' = holds - 1
    BY <1>7 DEF RunTask
  <2>2. Once' /\ Loads' = Loads \ {l}
    BY <1>6, <2>1
  <2>3. Flights' = Flights
    BY <1>7, <2>2 DEF Flights, Load
  <2>4. QED
    BY <1>1, <1>2, <1>5, <1>7, <2>1, <2>2, <2>3, WaitsStay DEF Places
<1>8. CASE l.by = "shim"
  <2>1. UNCHANGED <<fetch, pending, call>>
    BY <1>8 DEF RunTask
  <2>2. l = Load("shim", l.script)
    BY <1>2, <1>8
  <2>3. ASSUME flying' = flying
        PROVE  Once' /\ Flights' = Flights \ {l.script} /\ \A x \in Loads' : x \in Loads
    <3>1. Once' /\ Loads' = Loads \ {l}
      BY <1>6, <2>3
    <3>2. QED
      BY <2>2, <3>1, ShimLoads DEF Flights
  <2>4. CASE ok
    <3> DEFINE e == <<l, current>>
    <3>1. UNCHANGED <<flying, holds, ordered>> /\ stack' = <<e>>
      BY <1>8, <2>4 DEF RunTask
    <3>2. e[1] = l
      OBVIOUS
    <3> HIDE DEF e
    <3>3. DOMAIN stack' = {1} /\ stack'[1] = e
      BY <3>1
    <3>4. Runs' = {l.script}
      BY <1>2, <2>2, <3>2, <3>3, ShimLoads DEF Runs, Running
    <3>5. QED
      BY <1>1, <1>2, <1>5, <1>8, <2>1, <2>3, <3>1, <3>4, WaitsStay DEF Places
  <2>5. CASE ~ok /\ kind[l.script] = "ordered" /\ ordered # <<>>
    <3>1. /\ stack' = stack /\ holds' = holds - 1 /\ ordered' = Tail(ordered)
          /\ flying' = flying \cup {Load("shim", Head(ordered))}
      BY <1>8, <2>5 DEF RunTask
    <3>2. Listed' /\ Head(ordered) \in Waits /\ Waits' = Waits \ {Head(ordered)}
      BY <2>5, <3>1, OrderedTaken DEF Places
    <3>3. PICK h \in Waits : h = Head(ordered)
      BY <3>2
    <3>4. h \in Scripts /\ h \notin Flights
      BY <3>2, <3>3 DEF Places, Apart, Waits
    <3>5. Load("shim", h) \notin Loads
      BY <3>4 DEF Flights
    <3>6. Once' /\ Loads' = (Loads \ {l}) \cup {Load("shim", h)}
      BY <1>2, <1>3, <1>4, <3>1, <3>3, <3>5 DEF Once, Loads
    <3>7. Flights' = (Flights \ {l.script}) \cup {h}
      BY <2>2, <3>4, <3>6, ShimLoads DEF Flights
    <3>8. \A x \in Loads' : x.by = "page" => x \in Loads
      BY <3>6 DEF Load
    <3>9. QED
      BY <1>1, <1>2, <1>5, <1>8, <2>1, <3>1, <3>2, <3>3, <3>6, <3>7, <3>8
  <2>6. CASE ~ok /\ ~(kind[l.script] = "ordered" /\ ordered # <<>>)
    <3>1. UNCHANGED <<stack, flying, ordered>> /\ holds' = holds - 1
      BY <1>8, <2>6 DEF RunTask
    <3>2. QED
      BY <1>1, <1>2, <1>5, <1>8, <2>1, <2>3, <3>1, WaitsStay DEF Places
  <2>7. QED
    BY <2>4, <2>5, <2>6
<1>9. QED
  BY <1>2, <1>7, <1>8

LEMMA RunTaskPlaces ==
    ASSUME Types, Places, NEW ok \in BOOLEAN, RunTask(ok)
    PROVE  Places'
<1>0. PICK l \in What : l = Head(tasks).what
  BY TaskHead DEF RunTask
<1>1. /\ Flights \subseteq started \cap Ext /\ Waits \subseteq started \cap Ext
      /\ Flights \cap Waits = {}
  BY DEF Places, Apart
<1>2. /\ UNCHANGED <<kind, started>> /\ Once' /\ Listed' /\ l \in Loads
      /\ \/ /\ l.by = "page"
            /\ fetch' = [fetch EXCEPT ![l.script] = IF ok THEN "ok" ELSE "failed"]
            /\ Loads' = Loads \ {l} /\ Flights' = Flights /\ Runs' = {} /\ Waits' = Waits
         \/ /\ l.by = "shim" /\ l.script \in Flights /\ fetch' = fetch
            /\ \A x \in Loads' : x.by = "page" => x \in Loads
            /\ \/ Flights' = Flights \ {l.script} /\ Runs' = {l.script} /\ Waits' = Waits
               \/ /\ Runs' = {}
                  /\ \/ Flights' = Flights \ {l.script} /\ Waits' = Waits
                     \/ \E h \in Waits : /\ Flights' = (Flights \ {l.script}) \cup {h}
                                         /\ Waits' = Waits \ {h}
  BY <1>0, RunTaskEffect
<1>3. CASE l.by = "shim" /\ fetch' = fetch
  BY <1>1, <1>2, <1>3, PlacesFrom
<1>4. CASE /\ l.by = "page"
           /\ fetch' = [fetch EXCEPT ![l.script] = IF ok THEN "ok" ELSE "failed"]
           /\ Loads' = Loads \ {l} /\ Flights' = Flights /\ Runs' = {} /\ Waits' = Waits
  <2>1. Slots' = Slots /\ Ext' = Ext
    BY <1>2, KeptStays DEF Ext
  <2>2. DOMAIN fetch' = Parsed /\ \A s : s # l.script => fetch'[s] = fetch[s] \/ s \notin Parsed
    BY <1>4 DEF Places
  <2>3. ASSUME NEW x \in Loads', x.by = "page"
        PROVE  x.script \in Slots' /\ fetch'[x.script] = "waiting"
    <3>1. x \in Loads /\ x # l
      BY <1>4, <2>3
    <3>2. x = Load("page", x.script) /\ l = Load("page", l.script)
      BY <1>2, <1>4, <2>3, <3>1, LoadsType
    <3>3. x.script # l.script
      BY <3>1, <3>2
    <3>4. x.script \in Slots /\ fetch[x.script] = "waiting"
      BY <2>3, <3>1 DEF Places, PageLoads
    <3>5. QED
      BY <2>1, <2>2, <3>3, <3>4, KeptType
  <2>4. PageLoads'
    BY <2>3 DEF PageLoads
  <2>5. Apart'
    BY <1>1, <1>2, <1>4, <2>1 DEF Apart
  <2>6. QED
    BY <1>2, <2>2, <2>4, <2>5 DEF Places
<1>5. QED
  BY <1>2, <1>3, <1>4

\* Document order lists a script once.
LEMMA ListedInOrder ==
    ASSUME NEW S \in SUBSET Slots, NEW q \in InDocumentOrder(S)
    PROVE  /\ Cardinality(S) \in Nat /\ q \in [1 .. Cardinality(S) -> S]
           /\ \A i, j \in DOMAIN q : q[i] = q[j] => i = j
<1>1. IsFiniteSet(S) /\ Cardinality(S) \in Nat
  BY KeptType, FS_Subset, FS_CardinalityType
<1>2. q \in [1 .. Cardinality(S) -> S]
  BY DEF InDocumentOrder
<1>3. ASSUME NEW i \in DOMAIN q, NEW j \in DOMAIN q, i < j PROVE q[i] # q[j]
  <2>1. PICK k \in DOMAIN Document, n \in DOMAIN Document :
          k < n /\ Document[k] = q[i] /\ Document[n] = q[j]
    BY <1>3 DEF InDocumentOrder
  <2>2. k # n
    <3>1. k \in Nat /\ n \in Nat
      BY ScriptsAssumption
    <3>2. QED
      BY <2>1, <3>1
  <2>3. QED
    BY <2>1, <2>2, ScriptsAssumption
<1>4. QED
  BY <1>1, <1>2, <1>3

LEMMA CollectEffect ==
    ASSUME Control, Collect
    PROVE  /\ UNCHANGED <<kind, started, stack, ordered, call, hung>>
           /\ pc' = "parse" /\ call = NoCall /\ stack = <<>> /\ ordered = <<>>
           /\ DOMAIN fetch' = Parsed /\ Once' /\ pending' = Cardinality(AsyncOpen')
           /\ holds' = pending' /\ pending' \in Nat
           /\ \A l \in Loads' : l.by = "page" /\ l.script \in Slots /\ fetch'[l.script] = "waiting"
<1>1. PICK goes \in [{s \in Slots : kind[s] \in External} -> {"cached", "flies", "refused"}] :
        LET Going(how) == {s \in DOMAIN goes : goes[s] = how}
            held == Cardinality({s \in DOMAIN goes : kind[s] = "async" /\ goes[s] # "refused"})
        IN  /\ fetch' = [s \in Parsed |-> IF s \notin Slots THEN "dropped"
                                          ELSE IF s \notin DOMAIN goes THEN "ok"
                                          ELSE IF s \in Going("refused") THEN "failed"
                                          ELSE "waiting"]
            /\ flying' = {Load("page", s) : s \in Going("flies")}
            /\ \E cached \in InDocumentOrder(Going("cached")) :
                  tasks' = [i \in DOMAIN cached |-> Delivery("page", cached[i])]
            /\ pending' = held /\ holds' = held
  BY DEF Collect
<1> DEFINE Cached == {s \in DOMAIN goes : goes[s] = "cached"}
           Flies == {s \in DOMAIN goes : goes[s] = "flies"}
           Held == {s \in DOMAIN goes : kind[s] = "async" /\ goes[s] # "refused"}
<1>2. /\ Cached \in SUBSET Slots /\ Flies \in SUBSET Slots /\ Cached \cap Flies = {}
      /\ DOMAIN fetch' = Parsed /\ \A s \in Cached \cup Flies : fetch'[s] = "waiting"
  BY <1>1, KeptType
<1>3. PICK cached \in InDocumentOrder(Cached) :
        tasks' = [i \in DOMAIN cached |-> Delivery("page", cached[i])]
  BY <1>1
<1>4. flying' = {Load("page", s) : s \in Flies}
  BY <1>1
<1>5. /\ UNCHANGED <<kind, started, stack, ordered, call, hung>>
      /\ pc = "collect" /\ pc' = "parse"
  BY DEF Collect, shimVars, timeVars
<1>6. call = NoCall /\ stack = <<>> /\ ordered = <<>>
  BY <1>5 DEF Control, Fresh
<1>7. AsyncOpen' = Held
  <2>1. Slots' = Slots /\ call'.by # "task"
    BY <1>5, <1>6, KeptStays DEF NoCall
  <2>2. \A s \in Slots : kind[s] = "async" => (fetch'[s] = "waiting" <=> s \in Held)
    <3> SUFFICES ASSUME NEW s \in Slots, kind[s] = "async"
                 PROVE  fetch'[s] = "waiting" <=> s \in Held
      OBVIOUS
    <3>1. s \in DOMAIN goes /\ s \in Parsed
      BY KeptType DEF External
    <3>2. QED
      BY <1>1, <3>1
  <2>3. AsyncOpen' = {s \in Slots : kind[s] = "async" /\ fetch'[s] = "waiting"}
    BY <1>5, <2>1 DEF AsyncOpen, InProgress
  <2>4. QED
    BY <2>2, <2>3
<1>8. pending' = Cardinality(Held) /\ holds' = Cardinality(Held) /\ Cardinality(Held) \in Nat
  <2>1. Held \subseteq Slots
    OBVIOUS
  <2>2. Cardinality(Held) \in Nat
    BY <2>1, KeptType, FS_Subset, FS_CardinalityType
  <2>3. QED
    BY <1>1, <2>2
<1> HIDE DEF Cached, Flies, Held
<1>9. /\ Cardinality(Cached) \in Nat /\ cached \in [1 .. Cardinality(Cached) -> Cached]
      /\ \A i, j \in DOMAIN cached : cached[i] = cached[j] => i = j
  BY <1>2, <1>3, ListedInOrder
<1>10. /\ DOMAIN tasks' = DOMAIN cached
       /\ \A i \in DOMAIN cached : tasks'[i].what = Load("page", cached[i])
  BY <1>3 DEF Delivery
<1>11. OnceQueued'
  <2> SUFFICES ASSUME NEW j \in DOMAIN tasks', NEW k \in DOMAIN tasks',
                      tasks'[j].what = tasks'[k].what
               PROVE  j = k
    BY DEF OnceQueued
  <2>1. Load("page", cached[j]) = Load("page", cached[k])
    BY <1>10
  <2>2. cached[j] = cached[k]
    BY <2>1 DEF Load
  <2>3. QED
    BY <1>9, <1>10, <2>2
<1>12. Queueing' \subseteq {Load("page", s) : s \in Cached}
  BY <1>9, <1>10 DEF Queueing
<1>13. flying' \cap Queueing' = {}
  BY <1>2, <1>4, <1>12 DEF Load
<1>14. \A l \in Loads' : l.by = "page" /\ l.script \in Cached \cup Flies
  BY <1>4, <1>12 DEF Loads, Load
<1>15. QED
  BY <1>2, <1>5, <1>6, <1>7, <1>8, <1>11, <1>13, <1>14 DEF Once

LEMMA CollectPlaces == Control /\ Collect => Places'
<1> SUFFICES ASSUME Control, Collect PROVE Places'
  OBVIOUS
<1>1. /\ kind' = kind /\ UNCHANGED <<stack, ordered>> /\ stack = <<>> /\ ordered = <<>>
      /\ DOMAIN fetch' = Parsed /\ Once'
      /\ \A l \in Loads' : l.by = "page" /\ l.script \in Slots /\ fetch'[l.script] = "waiting"
  BY CollectEffect
<1>2. Runs' = {} /\ Waits' = {} /\ Listed'
  BY <1>1, Singleton DEF Runs, Running, Waits, Waiting, Listed
<1>3. Flights' = {}
  BY <1>1 DEF Flights, Load
<1>4. PageLoads'
  BY <1>1, KeptStays DEF PageLoads
<1>5. QED
  BY <1>1, <1>2, <1>3, <1>4 DEF Places, Apart

LEMMA PlacesStep == Types /\ Control /\ Places /\ [Next]_vars => Places'
<1> SUFFICES ASSUME Types, Control, Places, [Next]_vars PROVE Places'
  OBVIOUS
<1>1. ASSUME Between \/ UNCHANGED vars PROVE Places'
  <2>1. /\ UNCHANGED <<kind, tasks, flying, stack, ordered>> /\ started \subseteq started'
    BY <1>1, BetweenAside DEF Aside, loadVars, vars, setVars, shimVars
  <2>2. fetch' = fetch
    BY <1>1 DEF Between, DeadlinePasses, PassStep, PassEnds, FireLifecycleEvent, CallMark,
                CallCurrent, CallCodeCut, CallReset, WaitCheckpoint, WaitLeaves, vars, setVars
  <2>3. QED
    BY <2>1, <2>2, RunsStay, AsidePlaces
<1>2. ASSUME CodeIsCut PROVE Places'
  BY <1>2, CodeIsCutEffect, AsidePlaces
<1>3. ASSUME NEW s \in Scripts, Insert(s) PROVE Places'
  BY <1>3, InsertPlaces
<1>4. ASSUME NEW l \in flying, Land(l) PROVE Places'
  BY <1>4, LandPlaces
<1>5. ASSUME NEW ok \in BOOLEAN, RunTask(ok) PROVE Places'
  BY <1>5, RunTaskPlaces
<1>6. QED
  BY <1>1, <1>2, <1>3, <1>4, <1>5, CollectPlaces, CodePlaces, CodeEndsPlaces DEF Next, Between

-----------------------------------------------------------------------------
(* The activity count.                                                       *)

LEMMA Sizes ==
    /\ IsFiniteSet(AsyncOpen) /\ Cardinality(AsyncOpen) \in Nat
    /\ IsFiniteSet(ShimOpen) /\ Cardinality(ShimOpen) \in Nat
    /\ ShimOpen = Ext \cap (Flights \cup Runs \cup Waits)
<1>1. IsFiniteSet(AsyncOpen) /\ IsFiniteSet(ShimOpen)
  <2>1. AsyncOpen \subseteq Slots /\ ShimOpen \subseteq Scripts
    BY DEF AsyncOpen, ShimOpen
  <2>2. QED
    BY <2>1, KeptType, ScriptsAssumption, FS_Subset
<1>2. ShimOpen = Ext \cap (Flights \cup Runs \cup Waits)
  BY DEF ShimOpen, Ext, Flights, Loads, Queueing, Loading, Runs, Waits
<1>3. QED
  BY <1>1, <1>2, FS_CardinalityType

LEMMA ShimOpenNext == kind' = kind => ShimOpen' = Ext \cap (Flights' \cup Runs' \cup Waits')
<1> SUFFICES ASSUME kind' = kind PROVE ShimOpen' = Ext \cap (Flights' \cup Runs' \cup Waits')
  OBVIOUS
<1>1. ShimOpen' = (Ext \cap (Flights \cup Runs \cup Waits))'
  BY DEF ShimOpen, Ext, Flights, Loads, Queueing, Loading, Runs, Waits
<1>2. Ext' = Ext
  BY DEF Ext
<1>3. QED
  BY <1>1, <1>2

\* An async script of the parser is open while its load is, and while a task
\* runs it.
LEMMA AsyncOpenIs ==
    AsyncOpen = {s \in Slots : kind[s] = "async" /\ (fetch[s] = "waiting" \/ (call.script = s /\ call.by = "task"))}
BY DEF AsyncOpen, InProgress

LEMMA AsyncOpenNext ==
    kind' = kind =>
        AsyncOpen' = {s \in Slots : kind[s] = "async"
                        /\ (fetch'[s] = "waiting" \/ (call'.script = s /\ call'.by = "task"))}
<1> SUFFICES ASSUME kind' = kind
             PROVE  AsyncOpen' = {s \in Slots : kind[s] = "async"
                                    /\ (fetch'[s] = "waiting" \/ (call'.script = s /\ call'.by = "task"))}
  OBVIOUS
<1>1. Slots' = Slots
  BY KeptStays
<1>2. QED
  BY <1>1 DEF AsyncOpen, InProgress

LEMMA CountedNext ==
    ASSUME Counting' => /\ pending' = Cardinality(AsyncOpen')
                        /\ holds' = pending' + Cardinality(ShimOpen')
    PROVE  Counted'
BY DEF Counted, HoldsAreBacked, Counting

LEMMA CountStays ==
    ASSUME Counted, Counting' => Counting,
           Counting' => UNCHANGED <<pending, holds>> /\ AsyncOpen' = AsyncOpen /\ ShimOpen' = ShimOpen
    PROVE  Counted'
BY DEF Counted, HoldsAreBacked, Counting

\* A call gives back what it holds when it returns, and keeps it until then.
LEMMA CallCount ==
    ASSUME Control, Counted, Counting' => Counting, call # NoCall, UNCHANGED <<kind, fetch>>,
           Counting' => ShimOpen' = ShimOpen,
           Returns \/ (\E t \in {"current", "code", "running", "reset"} : Step(t))
                   \/ (Escapes /\ pc' = "aborted")
    PROVE  Counted'
<1>1. OneCall(call)
  BY CallIs
<1>2. CASE Escapes /\ pc' = "aborted"
  BY <1>2 DEF Counted, HoldsAreBacked
<1>3. CASE \E t \in {"current", "code", "running", "reset"} : Step(t)
  <2>1. call'.script = call.script /\ call'.by = call.by /\ UNCHANGED <<pending, holds>>
    BY <1>1, <1>3 DEF Step, OneCall
  <2>2. AsyncOpen' = AsyncOpen
    BY <2>1, AsyncOpenIs, AsyncOpenNext
  <2>3. QED
    BY <2>1, <2>2, CountStays
<1>4. CASE Returns /\ call.by = "pipeline"
  <2>1. call' = NoCall /\ UNCHANGED <<pending, holds>>
    BY <1>1, <1>4, ReturnsWhere
  <2>2. AsyncOpen' = AsyncOpen
    BY <1>4, <2>1, AsyncOpenIs, AsyncOpenNext DEF NoCall
  <2>3. QED
    BY <2>1, <2>2, CountStays
<1>5. CASE Returns /\ call.by = "task"
  <2>1. call' = NoCall /\ pending' = pending - 1 /\ holds' = holds - 1
    BY <1>1, <1>5, ReturnsWhere
  <2>2. call.script \in Slots /\ kind[call.script] = "async" /\ fetch[call.script] = "ok"
    BY <1>1, <1>5 DEF OneCall
  <2>3. AsyncOpen' = AsyncOpen \ {call.script} /\ call.script \in AsyncOpen
    BY <1>5, <2>1, <2>2, AsyncOpenIs, AsyncOpenNext DEF NoCall
  <2>4. Cardinality(AsyncOpen') = Cardinality(AsyncOpen) - 1
    BY <2>3, Sizes, FS_RemoveElement
  <2>5. QED
    <3> SUFFICES ASSUME Counting'
                 PROVE  pending' = Cardinality(AsyncOpen') /\ holds' = pending' + Cardinality(ShimOpen')
      BY CountedNext
    <3>1. ShimOpen' = ShimOpen /\ Counting
      OBVIOUS
    <3>2. pending = Cardinality(AsyncOpen) /\ holds = pending + Cardinality(ShimOpen)
      BY <3>1 DEF Counted, HoldsAreBacked, Counting
    <3>3. QED
      BY <2>1, <2>4, <3>1, <3>2, Sizes
<1>6. QED
  BY <1>1, <1>2, <1>3, <1>4, <1>5 DEF OneCall

\* What is cut stays cut.
LEMMA HungGrows == [Next]_vars => hung \subseteq hung' /\ capped' = capped /\ (late => late')
<1> SUFFICES ASSUME [Next]_vars PROVE hung \subseteq hung' /\ capped' = capped /\ (late => late')
  OBVIOUS
<1>1. ASSUME NEW ok \in BOOLEAN, RunTask(ok) PROVE UNCHANGED <<hung, capped, late>>
  BY <1>1 DEF RunTask, timeVars
<1>2. ASSUME NEW s \in Scripts, Insert(s) PROVE UNCHANGED <<hung, capped, late>>
  BY <1>2 DEF Insert, timeVars
<1>3. ASSUME NEW l \in flying, Land(l) PROVE UNCHANGED <<hung, capped, late>>
  BY <1>3 DEF Land, timeVars
<1>4. ASSUME CallCodeCut \/ CodeIsCut PROVE hung \subseteq hung' /\ UNCHANGED <<capped, late>>
  BY <1>4 DEF CallCodeCut, CodeIsCut
<1>5. ASSUME \/ Collect \/ PassStep \/ PassEnds \/ FireLifecycleEvent \/ CallMark
             \/ CallCurrent \/ CallCode \/ CallReset \/ CodeEnds \/ WaitCheckpoint \/ WaitLeaves
             \/ UNCHANGED vars
      PROVE  UNCHANGED <<hung, capped, late>>
  BY <1>5 DEF Collect, PassStep, PassEnds, FireLifecycleEvent, CallMark, CallCurrent,
              CallCode, CallReset, CodeEnds, WaitCheckpoint, WaitLeaves, timeVars, vars
<1>6. ASSUME DeadlinePasses PROVE UNCHANGED <<hung, capped>> /\ late'
  BY <1>6 DEF DeadlinePasses
<1>7. QED
  BY <1>1, <1>2, <1>3, <1>4, <1>5, <1>6 DEF Next

\* Which steps end the counting, if any.
LEMMA CountingBefore == Types /\ Control /\ [Next]_vars /\ ~Collect => (Counting' => Counting)
<1> SUFFICES ASSUME Types, Control, [Next]_vars, ~Collect, Counting' PROVE Counting
  OBVIOUS
<1>1. hung \subseteq hung'
  BY HungGrows
<1>2. pc = "collect" => pc' = "collect"
  <2> SUFFICES ASSUME pc = "collect" PROVE pc' = "collect"
    OBVIOUS
  <2>1. wait = "no" /\ call = NoCall /\ stack = <<>> /\ flying = {}
    BY DEF Control, Fresh
  <2>2. QED
    BY <2>1 DEF Next, DeadlinePasses, Land, PassStep, PassEnds, FireLifecycleEvent, CallMark,
             CallCurrent, CallCode, CallCodeCut, CallReset, Insert, CodeEnds, CodeIsCut,
             WaitCheckpoint, WaitLeaves, RunTask, NoCall, Events, vars, passVars
<1>3. pc = "aborted" => pc' = "aborted"
  <2> SUFFICES ASSUME pc = "aborted" PROVE pc' = "aborted"
    OBVIOUS
  <2>1. call # NoCall => call.by = "task"
    BY DEF Control, Calls, OneCall, Events
  <2>2. ASSUME Returns \/ (\E t : Step(t)) \/ Escapes, call # NoCall PROVE pc' = "aborted"
    BY <2>1, <2>2 DEF Returns, Step, Escapes
  <2>3. ASSUME CallMark \/ CallCurrent \/ CallCode \/ CallReset \/ CallCodeCut PROVE pc' = "aborted"
    <3>1. call # NoCall
      BY <2>3 DEF CallMark, CallCurrent, CallCode, CallReset, CallCodeCut, NoCall
    <3>2. Returns \/ (\E t : Step(t)) \/ Escapes
      BY <2>3 DEF CallMark, CallCurrent, CallCode, CallReset, CallCodeCut, OwnScript
    <3>3. QED
      BY <2>2, <3>1, <3>2
  <2>4. ASSUME CodeEnds PROVE pc' = "aborted"
    <3>1. pc' = pc \/ (Top[1].by = "page" /\ (Returns \/ Step("reset")))
      BY <2>4 DEF CodeEnds
    <3>2. ASSUME Top[1].by = "page" PROVE call # NoCall
      BY <2>4, <3>2, PageOnTop DEF CodeEnds
    <3>3. QED
      BY <2>2, <3>1, <3>2
  <2>5. ASSUME CodeIsCut PROVE pc' = "aborted"
    <3>1. stack # <<>> /\ (pc' = pc \/ (stack[1][1].by # "shim" /\ (Returns \/ Step("reset"))))
      BY <2>5 DEF CodeIsCut
    <3>2. stack[1][1].by # "shim" => call # NoCall
      BY <3>1 DEF Control, Frames
    <3>3. QED
      BY <2>2, <3>1, <3>2
  <2>6. ASSUME \/ DeadlinePasses \/ (\E l \in flying : Land(l)) \/ PassStep \/ PassEnds
               \/ FireLifecycleEvent \/ (\E s \in Scripts : Insert(s)) \/ WaitCheckpoint
               \/ WaitLeaves \/ (\E ok \in BOOLEAN : RunTask(ok)) \/ UNCHANGED vars
        PROVE  pc' = "aborted"
    BY <2>6 DEF DeadlinePasses, Land, PassStep, PassEnds, FireLifecycleEvent, Insert, Events,
             WaitCheckpoint, WaitLeaves, WaitEnds, RunTask, vars, passVars
  <2>7. QED
    BY <2>3, <2>4, <2>5, <2>6 DEF Next
<1>4. QED
  BY <1>1, <1>2, <1>3 DEF Counting

LEMMA InsertCount ==
    ASSUME Types, Places, Counted, NEW s \in Scripts, Insert(s)
    PROVE  Counted'
<1>1. /\ UNCHANGED <<kind, fetch, pending, pc, call, hung>> /\ s \notin started
      /\ \/ /\ s \notin Ext /\ holds' = holds /\ Flights' = Flights /\ Waits' = Waits
            /\ Runs' = Runs \cup {s}
         \/ /\ s \in Ext /\ holds' = holds + 1 /\ Runs' = Runs
            /\ \/ Flights' = Flights \cup {s} /\ Waits' = Waits
               \/ Flights' = Flights /\ Waits' = Waits \cup {s}
  BY InsertEffect
<1>2. /\ ShimOpen' = Ext \cap (Flights' \cup Runs' \cup Waits')
      /\ ShimOpen = Ext \cap (Flights \cup Runs \cup Waits)
  BY <1>1, ShimOpenNext, Sizes
<1>3. AsyncOpen' = AsyncOpen /\ (Counting' <=> Counting)
  BY <1>1, AsyncOpenIs, AsyncOpenNext DEF Counting
<1>4. CASE s \notin Ext /\ holds' = holds /\ ShimOpen' = ShimOpen
  BY <1>1, <1>3, <1>4, CountStays
<1>5. CASE s \in Ext /\ holds' = holds + 1 /\ ShimOpen' = ShimOpen \cup {s}
  <2>1. s \notin ShimOpen
    BY <1>1, <1>2 DEF Places, Apart
  <2>2. Cardinality(ShimOpen') = Cardinality(ShimOpen) + 1
    BY <1>5, <2>1, Sizes, FS_AddElement
  <2>3. Counting' => pending = Cardinality(AsyncOpen) /\ holds = pending + Cardinality(ShimOpen)
    BY <1>3 DEF Counted, HoldsAreBacked, Counting
  <2>4. QED
    BY <1>1, <1>3, <1>5, <2>2, <2>3, Sizes, CountedNext
<1>6. QED
  BY <1>1, <1>2, <1>4, <1>5

\* A script of the shim is over.
LEMMA ShimDoneCount ==
    ASSUME Counted, Counting' => Counting, NEW s \in ShimOpen, kind' = kind,
           ShimOpen' = ShimOpen \ {s}, AsyncOpen' = AsyncOpen, pending' = pending, holds' = holds - 1
    PROVE  Counted'
<1>1. Cardinality(ShimOpen') = Cardinality(ShimOpen) - 1
  BY Sizes, FS_RemoveElement
<1>2. Counting' => pending = Cardinality(AsyncOpen) /\ holds = pending + Cardinality(ShimOpen)
  BY DEF Counted, HoldsAreBacked, Counting
<1>3. QED
  BY <1>1, <1>2, Sizes, CountedNext

LEMMA CodeEndsCount ==
    ASSUME Types, Places, Control, Counted, Counting' => Counting, CodeEnds
    PROVE  Counted'
<1>1. /\ UNCHANGED <<kind, fetch>>
      /\ \/ /\ Top[1].by = "page" /\ call # NoCall /\ Runs = {} /\ Runs' = {}
            /\ Flights' = Flights /\ Waits' = Waits
         \/ /\ Top[1].by = "shim" /\ UNCHANGED <<pc, call, pending, holds>>
            /\ Runs' \subseteq Runs /\ Runs' \cap Ext = Runs \cap Ext
            /\ Flights' = Flights /\ Waits' = Waits
         \/ \E s \in Ext :
            /\ Top[1].by = "shim" /\ UNCHANGED <<pc, call, pending>>
            /\ Runs = {s} /\ Runs' = {} /\ holds' = holds - 1
            /\ \/ Flights' = Flights /\ Waits' = Waits
               \/ \E h \in Waits : Flights' = Flights \cup {h} /\ Waits' = Waits \ {h}
  BY CodeEndsEffect
<1>2. /\ ShimOpen' = Ext \cap (Flights' \cup Runs' \cup Waits')
      /\ ShimOpen = Ext \cap (Flights \cup Runs \cup Waits)
  BY <1>1, ShimOpenNext, Sizes
<1>3. CASE /\ Top[1].by = "page" /\ call # NoCall /\ Runs = {} /\ Runs' = {}
           /\ Flights' = Flights /\ Waits' = Waits
  <2>1. Returns \/ Step("reset")
    BY <1>3 DEF CodeEnds
  <2>2. ShimOpen' = ShimOpen
    BY <1>2, <1>3
  <2>3. QED
    BY <1>1, <1>3, <2>1, <2>2, CallCount
<1>4. ASSUME UNCHANGED call PROVE AsyncOpen' = AsyncOpen
  BY <1>1, <1>4, AsyncOpenIs, AsyncOpenNext
<1>5. CASE /\ UNCHANGED <<pc, call, pending, holds>> /\ Runs' \cap Ext = Runs \cap Ext
           /\ Flights' = Flights /\ Waits' = Waits
  <2>1. ShimOpen' = ShimOpen
    BY <1>2, <1>5
  <2>2. QED
    BY <1>4, <1>5, <2>1, CountStays
<1>6. ASSUME NEW s \in Ext, UNCHANGED <<pc, call, pending>>,
             Runs = {s}, Runs' = {}, holds' = holds - 1,
             \/ Flights' = Flights /\ Waits' = Waits
             \/ \E h \in Waits : Flights' = Flights \cup {h} /\ Waits' = Waits \ {h}
      PROVE  Counted'
  <2>1. s \notin Flights /\ s \notin Waits /\ Waits \subseteq Ext
    BY <1>6 DEF Places, Apart
  <2>2. s \in ShimOpen /\ ShimOpen' = ShimOpen \ {s}
    BY <1>2, <1>6, <2>1
  <2>3. QED
    BY <1>1, <1>4, <1>6, <2>2, ShimDoneCount
<1>7. QED
  BY <1>1, <1>3, <1>5, <1>6

LEMMA CodeIsCutCount ==
    ASSUME Types, Places, Control, Counted, Counting' => Counting, CodeIsCut
    PROVE  Counted'
<1>1. /\ UNCHANGED <<kind, fetch, tasks, flying, ordered>> /\ Runs' = {}
      /\ "shim" \notin hung' => /\ Runs \cap Ext = {} /\ call # NoCall
                                /\ Returns \/ Step("reset")
  BY CodeIsCutEffect
<1>2. CASE "shim" \in hung'
  BY <1>2, CountedNext DEF Counting
<1>3. CASE "shim" \notin hung'
  <2>1. /\ ShimOpen' = Ext \cap (Flights' \cup Runs' \cup Waits')
        /\ ShimOpen = Ext \cap (Flights \cup Runs \cup Waits)
    BY <1>1, ShimOpenNext, Sizes
  <2>2. ShimOpen' = ShimOpen
    BY <1>1, <1>3, <2>1, LoadsStay, WaitsStay
  <2>3. QED
    BY <1>1, <1>3, <2>2, CallCount
<1>4. QED
  BY <1>2, <1>3

LEMMA RunTaskCount ==
    ASSUME Types, Places, Counted, Counting' => Counting, NEW ok \in BOOLEAN, RunTask(ok)
    PROVE  Counted'
<1>0. PICK l \in What : l = Head(tasks).what
  BY TaskHead DEF RunTask
<1>1. /\ UNCHANGED <<kind, hung, pc>> /\ Runs = {} /\ call = NoCall
      /\ \/ /\ l.by = "page" /\ l.script \in Slots /\ fetch[l.script] = "waiting"
            /\ fetch' = [fetch EXCEPT ![l.script] = IF ok THEN "ok" ELSE "failed"]
            /\ Flights' = Flights /\ Runs' = {} /\ Waits' = Waits
            /\ \/ kind[l.script] # "async" /\ UNCHANGED <<pending, holds, call>>
               \/ /\ kind[l.script] = "async" /\ UNCHANGED <<pending, holds>>
                  /\ call' = [script |-> l.script, step |-> "mark", by |-> "task"]
               \/ /\ kind[l.script] = "async" /\ UNCHANGED call
                  /\ pending' = pending - 1 /\ holds' = holds - 1
         \/ /\ l.by = "shim" /\ l.script \in Flights /\ UNCHANGED <<fetch, pending, call>>
            /\ \/ /\ Flights' = Flights \ {l.script} /\ Runs' = {l.script} /\ Waits' = Waits
                  /\ UNCHANGED holds
               \/ /\ Runs' = {} /\ holds' = holds - 1
                  /\ \/ Flights' = Flights \ {l.script} /\ Waits' = Waits
                     \/ \E h \in Waits : /\ Flights' = (Flights \ {l.script}) \cup {h}
                                         /\ Waits' = Waits \ {h}
  BY <1>0, RunTaskEffect
<1>2. /\ ShimOpen' = Ext \cap (Flights' \cup Runs' \cup Waits')
      /\ ShimOpen = Ext \cap (Flights \cup Runs \cup Waits)
  BY <1>1, ShimOpenNext, Sizes
<1>3. Flights \subseteq Ext /\ Waits \subseteq Ext /\ Flights \cap Waits = {} /\ DOMAIN fetch = Parsed
  BY DEF Places, Apart
<1>4. call.by # "task"
  BY <1>1 DEF NoCall
<1>5. CASE l.by = "shim"
  <2>0. l.by # "page"
    BY <1>5
  <2>1. AsyncOpen' = AsyncOpen
    BY <1>1, <2>0, AsyncOpenIs, AsyncOpenNext
  <2>2. CASE UNCHANGED holds /\ Flights' = Flights \ {l.script} /\ Runs' = {l.script} /\ Waits' = Waits
    <3>1. ShimOpen' = ShimOpen
      BY <1>1, <1>2, <1>3, <2>0, <2>2
    <3>2. QED
      BY <1>1, <2>0, <2>1, <2>2, <3>1, CountStays
  <2>3. CASE /\ Runs' = {} /\ holds' = holds - 1
             /\ \/ Flights' = Flights \ {l.script} /\ Waits' = Waits
                \/ \E h \in Waits : /\ Flights' = (Flights \ {l.script}) \cup {h}
                                    /\ Waits' = Waits \ {h}
    <3>1. l.script \in ShimOpen /\ ShimOpen' = ShimOpen \ {l.script}
      BY <1>1, <1>2, <1>3, <2>0, <2>3
    <3>2. QED
      BY <1>1, <2>0, <2>1, <2>3, <3>1, ShimDoneCount
  <2>4. QED
    BY <1>1, <2>0, <2>2, <2>3
<1>6. CASE l.by = "page"
  <2> DEFINE s == l.script
  <2>1. /\ s \in Slots /\ fetch[s] = "waiting" /\ s \in Parsed /\ ShimOpen' = ShimOpen
        /\ fetch' = [fetch EXCEPT ![s] = IF ok THEN "ok" ELSE "failed"]
        /\ \/ kind[s] # "async" /\ UNCHANGED <<pending, holds, call>>
           \/ /\ kind[s] = "async" /\ UNCHANGED <<pending, holds>>
              /\ call' = [script |-> s, step |-> "mark", by |-> "task"]
           \/ /\ kind[s] = "async" /\ UNCHANGED call
              /\ pending' = pending - 1 /\ holds' = holds - 1
    BY <1>1, <1>2, <1>6, KeptType
  <2> HIDE DEF s
  <2>2. fetch'[s] # "waiting" /\ \A x \in Slots : x # s => fetch'[x] = fetch[x]
    BY <1>3, <2>1, KeptType
  <2>3. CASE kind[s] # "async" /\ UNCHANGED <<pending, holds, call>>
    <3>1. AsyncOpen' = AsyncOpen
      BY <1>1, <2>2, <2>3, AsyncOpenIs, AsyncOpenNext
    <3>2. QED
      BY <2>1, <2>3, <3>1, CountStays
  <2>4. CASE /\ kind[s] = "async" /\ UNCHANGED <<pending, holds>>
             /\ call' = [script |-> s, step |-> "mark", by |-> "task"]
    <3>1. call'.script = s /\ call'.by = "task"
      BY <2>4
    <3>2. AsyncOpen' = AsyncOpen
      BY <1>1, <1>4, <2>1, <2>2, <2>4, <3>1, AsyncOpenIs, AsyncOpenNext
    <3>3. QED
      BY <2>1, <2>4, <3>2, CountStays
  <2>5. CASE /\ kind[s] = "async" /\ UNCHANGED call /\ pending' = pending - 1 /\ holds' = holds - 1
    <3>1. s \in AsyncOpen /\ AsyncOpen' = AsyncOpen \ {s}
      BY <1>1, <1>4, <2>1, <2>2, <2>5, AsyncOpenIs, AsyncOpenNext
    <3>2. Cardinality(AsyncOpen') = Cardinality(AsyncOpen) - 1
      BY <3>1, Sizes, FS_RemoveElement
    <3>3. Counting' => pending = Cardinality(AsyncOpen) /\ holds = pending + Cardinality(ShimOpen)
      BY DEF Counted, HoldsAreBacked, Counting
    <3>4. QED
      BY <2>1, <2>5, <3>2, <3>3, Sizes, CountedNext
  <2>6. QED
    BY <2>1, <2>3, <2>4, <2>5
<1>7. QED
  BY <1>1, <1>5, <1>6

LEMMA CollectCount == Control /\ Collect => Counted'
<1> SUFFICES ASSUME Control, Collect PROVE Counted'
  OBVIOUS
<1>1. /\ kind' = kind /\ UNCHANGED <<stack, ordered>> /\ stack = <<>> /\ ordered = <<>>
      /\ pending' = Cardinality(AsyncOpen') /\ holds' = pending' /\ pending' \in Nat
      /\ \A l \in Loads' : l.by = "page"
  BY CollectEffect
<1>2. Runs' = {} /\ Waits' = {}
  BY <1>1, Singleton DEF Runs, Running, Waits, Waiting
<1>3. Flights' = {}
  BY <1>1 DEF Flights, Load
<1>4. ShimOpen' = {}
  BY <1>1, <1>2, <1>3, ShimOpenNext
<1>5. Cardinality(ShimOpen') = 0
  BY <1>4, FS_EmptySet
<1>6. QED
  BY <1>1, <1>5, CountedNext

LEMMA CountedStep ==
    ASSUME Types, Places, Control, Counted, [Next]_vars
    PROVE  Counted'
<1>1. ~Collect => (Counting' => Counting)
  BY CountingBefore
<1>2. ASSUME UNCHANGED <<kind, tasks, flying, stack, ordered>> PROVE ShimOpen' = ShimOpen
  <2>1. Flights' = Flights /\ Runs' = Runs /\ Waits' = Waits
    BY <1>2, LoadsStay, RunsStay, WaitsStay
  <2>2. QED
    BY <1>2, <2>1, ShimOpenNext, Sizes
<1>3. ASSUME \/ DeadlinePasses \/ PassStep \/ PassEnds \/ FireLifecycleEvent
             \/ WaitCheckpoint \/ WaitLeaves \/ UNCHANGED vars, ~Collect
      PROVE  Counted'
  <2>1. UNCHANGED <<kind, fetch, pending, holds, tasks, flying, stack, ordered>>
    BY <1>3 DEF DeadlinePasses, PassStep, PassEnds, FireLifecycleEvent, WaitCheckpoint, WaitLeaves,
             vars, setVars, loadVars, shimVars
  <2>2. \/ call' = call
        \/ call.by # "task" /\ call'.by # "task"
    BY <1>3 DEF DeadlinePasses, PassStep, PassEnds, FireLifecycleEvent, WaitCheckpoint, WaitLeaves,
             WaitEnds, StartCall, Quiet, NoCall, vars, passVars
  <2>3. AsyncOpen' = AsyncOpen
    BY <2>1, <2>2, AsyncOpenIs, AsyncOpenNext
  <2>4. QED
    BY <1>1, <1>2, <1>3, <2>1, <2>3, CountStays
<1>4. ASSUME CallMark \/ CallCurrent \/ CallCode \/ CallCodeCut \/ CallReset, ~Collect
      PROVE  Counted'
  <2>1. call # NoCall /\ UNCHANGED <<kind, fetch, tasks, flying, ordered>>
    <3>1. call.step # "none"
      BY <1>4 DEF CallMark, CallCurrent, CallCode, CallCodeCut, CallReset
    <3>2. ASSUME CallMark \/ CallCurrent PROVE UNCHANGED <<kind, fetch, tasks, flying, ordered>>
      BY <3>2 DEF CallMark, CallCurrent, loadVars
    <3>3. ASSUME CallCode \/ CallCodeCut \/ CallReset
          PROVE  UNCHANGED <<kind, fetch, tasks, flying, ordered>>
      BY <3>3 DEF CallCode, CallCodeCut, CallReset, loadVars, shimVars
    <3>4. QED
      BY <1>4, <3>1, <3>2, <3>3 DEF NoCall
  <2>2. ShimOpen' = ShimOpen
    <3>1. CASE CallMark \/ CallCurrent \/ CallCodeCut \/ CallReset
      BY <1>2, <2>1, <3>1 DEF CallMark, CallCurrent, CallCodeCut, CallReset, shimVars
    <3>2. CASE CallCode
      <4>1. stack = <<>>
        BY <2>1, <3>2, CallIs DEF CallCode
      <4>2. Runs = {}
        BY <4>1, Singleton DEF Runs, Running
      <4> DEFINE e == <<Load("page", call.script), current>>
      <4>3. stack' = <<e>>
        BY <3>2 DEF CallCode
      <4>4. e[1].by # "shim"
        BY DEF Load
      <4> HIDE DEF e
      <4>5. DOMAIN stack' = {1} /\ stack'[1] = e
        BY <4>3
      <4>6. Runs' = {}
        BY <4>4, <4>5 DEF Runs, Running, Load
      <4>7. QED
        BY <2>1, <4>2, <4>6, LoadsStay, WaitsStay, ShimOpenNext, Sizes
    <3>3. QED
      BY <1>4, <3>1, <3>2
  <2>3. \/ Returns \/ (\E t \in {"current", "code", "running", "reset"} : Step(t))
        \/ (Escapes /\ pc' = "aborted")
    <3>1. CASE CallMark \/ CallCurrent
      <4>1. \/ \E t \in {"current", "code", "running", "reset"} : Step(t)
            \/ Escapes /\ (overrun > 0 \/ LoadExpired)
        BY <3>1 DEF CallMark, CallCurrent, OwnScript, CheckpointThrows
      <4>2. call.step \in {"mark", "current"}
        BY <3>1 DEF CallMark, CallCurrent
      <4>3. QED
        BY <2>1, <4>1, <4>2, EscapesWhere
    <3>2. CASE CallCode \/ CallCodeCut \/ CallReset
      BY <3>2 DEF CallCode, CallCodeCut, CallReset, OwnScript
    <3>3. QED
      BY <1>4, <3>1, <3>2
  <2>4. QED
    BY <1>1, <1>4, <2>1, <2>2, <2>3, CallCount
<1>5. ASSUME NEW l \in flying, Land(l), ~Collect PROVE Counted'
  <2>1. /\ Flights' = Flights /\ UNCHANGED <<stack, ordered, kind, fetch, call, pending, holds>>
    BY <1>5, LandEffect DEF Land, setVars, passVars
  <2>2. ShimOpen' = ShimOpen
    BY <2>1, RunsStay, WaitsStay, ShimOpenNext, Sizes
  <2>3. AsyncOpen' = AsyncOpen
    BY <2>1, AsyncOpenIs, AsyncOpenNext
  <2>4. QED
    BY <1>1, <1>5, <2>1, <2>2, <2>3, CountStays
<1>6. ASSUME NEW s \in Scripts, Insert(s) PROVE Counted'
  BY <1>6, InsertCount
<1>7. ASSUME NEW ok \in BOOLEAN, RunTask(ok), ~Collect PROVE Counted'
  BY <1>1, <1>7, RunTaskCount
<1>8. QED
  BY <1>1, <1>3, <1>4, <1>5, <1>6, <1>7, CollectCount, CodeEndsCount, CodeIsCutCount DEF Next

-----------------------------------------------------------------------------
(* How the pass moves on.                                                    *)

LEMMA CalmBefore == [Next]_vars /\ Calm' => Calm
BY HungGrows DEF Calm

\* The steps of a call, and of the code that runs.
JsStep == CallMark \/ CallCurrent \/ CallCode \/ CallCodeCut \/ CallReset \/ CodeEnds \/ CodeIsCut

LEMMA JsMoves ==
    ASSUME Types, Control, JsStep
    PROVE  /\ UNCHANGED <<kind, fetch>> /\ pc # "collect"
           /\ \/ UNCHANGED <<pc, call, pending>>
              \/ call # NoCall /\ \E t \in {"current", "code", "running", "reset"} : Step(t)
              \/ call # NoCall /\ Returns /\ (call.step \in {"running", "reset"} \/ hung' # {})
              \/ /\ call # NoCall /\ Escapes /\ call.step \in {"mark", "current"}
                 /\ overrun > 0 \/ LoadExpired
<1>1. CASE CallMark \/ CallCurrent
  <2>1. /\ call.step \in {"mark", "current"} /\ UNCHANGED <<kind, fetch>>
        /\ \/ \E t \in {"current", "code", "running", "reset"} : Step(t)
           \/ Escapes /\ (overrun > 0 \/ LoadExpired)
    BY <1>1 DEF CallMark, CallCurrent, OwnScript, CheckpointThrows
  <2>2. call # NoCall
    BY <2>1 DEF NoCall
  <2>3. QED
    BY <2>1, <2>2, CallIs
<1>2. CASE CallCode \/ CallCodeCut \/ CallReset
  <2>1. /\ call.step \in {"code", "reset"} /\ UNCHANGED <<kind, fetch>>
        /\ \/ \E t \in {"current", "code", "running", "reset"} : Step(t)
           \/ Returns /\ (call.step = "reset" \/ hung' # {})
    BY <1>2 DEF CallCode, CallCodeCut, CallReset, OwnScript
  <2>2. call # NoCall
    BY <2>1 DEF NoCall
  <2>3. QED
    BY <2>1, <2>2, CallIs
<1>3. CASE CodeEnds
  <2>1. stack # <<>> /\ UNCHANGED <<kind, fetch>>
    BY <1>3 DEF CodeEnds
  <2>2. pc # "collect"
    BY <2>1 DEF Control, Fresh
  <2>3. CASE Top[1].by = "page"
    <3>1. Returns \/ Step("reset")
      BY <1>3, <2>3 DEF CodeEnds
    <3>2. call # NoCall /\ call.step = "running"
      BY <2>1, <2>3, PageOnTop
    <3>3. QED
      BY <2>1, <2>2, <3>1, <3>2
  <2>4. CASE Top[1].by # "page"
    BY <1>3, <2>1, <2>2, <2>4 DEF CodeEnds
  <2>5. QED
    BY <2>3, <2>4
<1>4. CASE CodeIsCut
  <2>1. /\ stack # <<>> /\ UNCHANGED <<kind, fetch>> /\ hung' # {}
        /\ IF stack[1][1].by = "shim" THEN UNCHANGED <<pc, call, pending>>
           ELSE Returns \/ Step("reset")
    BY <1>4 DEF CodeIsCut
  <2>2. pc # "collect" /\ (stack[1][1].by # "shim" => call # NoCall)
    BY <2>1 DEF Control, Fresh, Frames
  <2>3. QED
    BY <2>1, <2>2
<1>5. QED
  BY <1>1, <1>2, <1>3, <1>4 DEF JsStep

\* The steps that are none of a call's.
LEMMA OtherSteps ==
    ASSUME [Next]_vars, ~Collect, ~JsStep
    PROVE  /\ hung' = hung
           /\ \/ DeadlinePasses \/ PassStep \/ PassEnds \/ FireLifecycleEvent
              \/ WaitCheckpoint \/ WaitLeaves \/ UNCHANGED vars
              \/ \E l \in flying : Land(l)
              \/ \E s \in Scripts : Insert(s)
              \/ \E ok \in BOOLEAN : RunTask(ok)
<1>1. \/ DeadlinePasses \/ PassStep \/ PassEnds \/ FireLifecycleEvent
      \/ WaitCheckpoint \/ WaitLeaves \/ UNCHANGED vars
      \/ \E l \in flying : Land(l)
      \/ \E s \in Scripts : Insert(s)
      \/ \E ok \in BOOLEAN : RunTask(ok)
  BY DEF Next, JsStep
<1>2. hung' = hung
  BY <1>1 DEF DeadlinePasses, PassStep, PassEnds, FireLifecycleEvent, WaitCheckpoint, WaitLeaves,
              Land, Insert, RunTask, timeVars, vars
<1>3. QED
  BY <1>1, <1>2

LoadOn == {"load", "ready", "returned"}

\* Before the deadline and without anything cut, the pass comes to load with no
\* async script pending, and never comes back.
LEMMA LoadComes ==
    ASSUME Types, Control, [Next]_vars, overrun = 0, ~late, pc' # "aborted"
    PROVE  /\ pc \in LoadOn => pc' \in LoadOn
           /\ pc' \in LoadOn => pc \in LoadOn \/ (~Collect /\ ~(pending > 0))
<1>1. CASE Collect
  BY <1>1 DEF Collect, LoadOn
<1>2. CASE JsStep
  <2>1. ~Collect
    BY <1>2, JsMoves DEF Collect
  <2>2. CASE UNCHANGED pc
    BY <2>2
  <2>3. CASE call # NoCall /\ Returns
    <3>1. OneCall(call)
      BY <2>3, CallIs
    <3>2. QED
      BY <2>1, <2>3, <3>1, ReturnsWhere DEF LoadOn
  <2>4. CASE call # NoCall /\ Escapes /\ call.step \in {"mark", "current"} /\ (overrun > 0 \/ LoadExpired)
    BY <2>4, EscapesWhere
  <2>5. QED
    BY <1>2, <2>2, <2>3, <2>4, JsMoves DEF Step
<1>3. CASE ~Collect /\ ~JsStep
  <2>1. ASSUME WaitCheckpoint \/ WaitLeaves, pc' # pc
        PROVE  \/ pc = "hold" /\ pc' = "load" /\ pending = 0
               \/ pc = "ready" /\ pc' = "returned"
    <3>1. WaitLeaves /\ WaitEnds
      BY <2>1 DEF WaitCheckpoint, WaitLeaves, CheckpointThrows
    <3>2. pc = "hold" => pending = 0
      BY <3>1 DEF WaitLeaves, Condition
    <3>3. QED
      BY <2>1, <3>1, <3>2 DEF WaitEnds
  <2>2. ASSUME \/ DeadlinePasses \/ PassStep \/ PassEnds \/ FireLifecycleEvent \/ UNCHANGED vars
               \/ (\E l \in flying : Land(l)) \/ (\E s \in Scripts : Insert(s))
               \/ (\E ok \in BOOLEAN : RunTask(ok))
        PROVE  pc' = pc \/ (pc \notin LoadOn /\ pc' \notin LoadOn)
    BY <2>2 DEF DeadlinePasses, PassStep, PassEnds, FireLifecycleEvent, Land, Insert, RunTask,
             LoadOn, vars, passVars
  <2>3. QED
    BY <1>3, <2>1, <2>2, OtherSteps DEF LoadOn
<1>4. QED
  BY <1>1, <1>2, <1>3

\* Once the fetches have started, no async script opens any more.
LEMMA AsyncOpenShrinks ==
    ASSUME Types, Places, Control, [Next]_vars, ~Collect
    PROVE  AsyncOpen' \subseteq AsyncOpen
<1>1. CASE JsStep
  <2>1. UNCHANGED <<kind, fetch>>
    BY <1>1, JsMoves
  <2>2. call' = call \/ call'.by # "task" \/ (call'.script = call.script /\ call'.by = call.by)
    <3>1. ASSUME call # NoCall, \E t : Step(t) PROVE call'.script = call.script /\ call'.by = call.by
      BY <3>1, CallIs DEF Step, OneCall
    <3>2. ASSUME Returns \/ Escapes PROVE call'.by # "task"
      BY <3>2 DEF Returns, Escapes, NoCall
    <3>3. QED
      BY <1>1, <3>1, <3>2, JsMoves
  <2>3. QED
    BY <2>1, <2>2, AsyncOpenIs, AsyncOpenNext
<1>2. CASE ~JsStep
  <2>1. ASSUME \/ DeadlinePasses \/ PassStep \/ PassEnds \/ FireLifecycleEvent \/ WaitCheckpoint
               \/ WaitLeaves \/ UNCHANGED vars
               \/ (\E l \in flying : Land(l)) \/ (\E s \in Scripts : Insert(s))
        PROVE  UNCHANGED <<kind, fetch>> /\ (call' = call \/ call'.by # "task")
    <3>1. ASSUME \/ DeadlinePasses \/ PassEnds \/ UNCHANGED vars
                 \/ (\E l \in flying : Land(l)) \/ (\E s \in Scripts : Insert(s))
          PROVE  UNCHANGED <<kind, fetch, call>>
      BY <3>1 DEF DeadlinePasses, PassEnds, Land, Insert, vars, passVars, setVars
    <3>2. ASSUME PassStep \/ FireLifecycleEvent
          PROVE  UNCHANGED <<kind, fetch>> /\ (call' = call \/ call'.by = "pipeline")
      BY <3>2 DEF PassStep, FireLifecycleEvent, StartCall, setVars
    <3>3. ASSUME WaitCheckpoint \/ WaitLeaves
          PROVE  UNCHANGED <<kind, fetch>> /\ (call' = call \/ call'.by = "pipeline")
      BY <3>3 DEF WaitCheckpoint, WaitLeaves, WaitEnds, StartCall, setVars
    <3>4. QED
      BY <2>1, <3>1, <3>2, <3>3
  <2>2. ASSUME NEW ok \in BOOLEAN, RunTask(ok) PROVE AsyncOpen' \subseteq AsyncOpen
    <3>0. PICK l \in What : l = Head(tasks).what
      BY <2>2, TaskHead DEF RunTask
    <3>1. /\ kind' = kind /\ call = NoCall
          /\ \/ /\ l.script \in Slots /\ fetch[l.script] = "waiting"
                /\ fetch' = [fetch EXCEPT ![l.script] = IF ok THEN "ok" ELSE "failed"]
                /\ \/ call' = call
                   \/ call' = [script |-> l.script, step |-> "mark", by |-> "task"]
             \/ UNCHANGED <<fetch, call>>
      BY <2>2, <3>0, RunTaskEffect
    <3>2. DOMAIN fetch = Parsed
      BY DEF Places
    <3>3. \A s \in Slots : fetch'[s] = "waiting" => fetch[s] = "waiting"
      BY <3>1, <3>2, KeptType
    <3>4. \A s \in Slots : call'.script = s /\ call'.by = "task" => fetch[s] = "waiting"
      BY <3>1 DEF NoCall
    <3>5. QED
      BY <3>1, <3>3, <3>4, AsyncOpenIs, AsyncOpenNext
  <2>3. QED
    BY <1>2, <2>1, <2>2, OtherSteps, AsyncOpenIs, AsyncOpenNext
<1>3. QED
  BY <1>1, <1>2

\* What is added to the history.
LEMMA RanMoves ==
    ASSUME Types, Control, [Next]_vars
    PROVE  \/ ran' = ran
           \/ \E l : /\ ran' = Append(ran, l)
                     /\ l = Load("page", "load") => pc = "load" /\ pc' = "load"
<1>1. ASSUME CallCode PROVE \E l : ran' = Append(ran, l) /\ (l = Load("page", "load") => pc = "load" /\ pc' = "load")
  <2>1. ran' = Append(ran, Load("page", call.script)) /\ call # NoCall /\ pc' = pc
    BY <1>1 DEF CallCode, Step, NoCall
  <2>2. OneCall(call)
    BY <2>1, CallIs
  <2>3. call.script = "load" => pc = "load"
    BY <2>2, KeptType, ScriptsAssumption DEF OneCall, Events
  <2>4. QED
    BY <2>1, <2>3 DEF Load
<1>2. ASSUME NEW s \in Scripts, Insert(s) PROVE ran' = ran \/ ran' = Append(ran, Load("shim", s))
  BY <1>2 DEF Insert
<1>3. ASSUME NEW ok \in BOOLEAN, RunTask(ok)
      PROVE  ran' = ran \/ \E l : ran' = Append(ran, l) /\ l.by # "page"
  BY <1>3 DEF RunTask
<1>4. ASSUME \/ CallMark \/ CallCurrent \/ CallCodeCut \/ CallReset \/ CodeEnds \/ CodeIsCut
             \/ Collect \/ DeadlinePasses \/ PassStep \/ PassEnds \/ FireLifecycleEvent
             \/ WaitCheckpoint \/ WaitLeaves \/ UNCHANGED vars \/ (\E l \in flying : Land(l))
      PROVE  ran' = ran
  <2>1. ASSUME CallMark \/ CallCurrent \/ CallCodeCut \/ CallReset PROVE ran' = ran
    BY <2>1 DEF CallMark, CallCurrent, CallCodeCut, CallReset
  <2>2. ASSUME CodeEnds \/ CodeIsCut \/ Collect \/ DeadlinePasses \/ PassEnds PROVE ran' = ran
    BY <2>2 DEF CodeEnds, CodeIsCut, Collect, DeadlinePasses, PassEnds
  <2>3. ASSUME \/ PassStep \/ FireLifecycleEvent \/ WaitCheckpoint \/ WaitLeaves \/ UNCHANGED vars
               \/ (\E l \in flying : Land(l))
        PROVE  ran' = ran
    BY <2>3 DEF PassStep, FireLifecycleEvent, WaitCheckpoint, WaitLeaves, Land, vars
  <2>4. QED
    BY <1>4, <2>1, <2>2, <2>3
<1>5. \A l : l.by # "page" => l # Load("page", "load")
  BY DEF Load
<1>6. \A s : Load("shim", s).by # "page"
  BY DEF Load
<1>7. ran' = ran \/ CallCode \/ \E l : ran' = Append(ran, l) /\ l.by # "page"
  BY <1>2, <1>3, <1>4, <1>6 DEF Next
<1>8. QED
  BY <1>1, <1>5, <1>7

-----------------------------------------------------------------------------
(* document.currentScript.                                                   *)

LEMMA ShowsScript == \A s \in Scripts : kind[s] # "module" => Shows(s) = s
BY ScriptsAssumption DEF Shows

\* A step that leaves the stack and the current script alone.
LEMMA RestoredStays ==
    ASSUME Restored, UNCHANGED <<kind, stack, current>>, overrun' = 0, pc' # "aborted",
           stack = <<>> /\ Unshown(call') => current = None,
           stack = <<>> /\ call'.step = "code" => current = Shows(call'.script)
    PROVE  Restored'
BY DEF Restored, Shows, Top, Unshown

\* The steps outside calls and code.
LEMMA PlainRestored ==
    ASSUME Control, Restored,
           \/ Collect \/ DeadlinePasses \/ PassStep \/ PassEnds \/ FireLifecycleEvent
           \/ WaitCheckpoint \/ WaitLeaves \/ UNCHANGED vars \/ (\E l \in flying : Land(l))
    PROVE  Restored'
<1>1. overrun = 0 /\ pc # "aborted"
  BY DEF Restored
<1>2. CASE \/ Collect \/ DeadlinePasses \/ PassEnds \/ UNCHANGED vars \/ (\E l \in flying : Land(l))
  <2>1. UNCHANGED <<kind, stack, current, call, overrun>> /\ (pc' = pc \/ pc' # "aborted")
    BY <1>2 DEF Collect, DeadlinePasses, PassEnds, Land, vars, passVars, setVars, shimVars, timeVars
  <2>2. QED
    BY <1>1, <2>1, RestoredStays DEF Restored
<1>3. CASE PassStep \/ FireLifecycleEvent
  <2>1. /\ UNCHANGED <<kind, stack, current, overrun, pc>> /\ stack = <<>> /\ call = NoCall
        /\ \/ call' = NoCall
           \/ call'.step = "mark"
           \/ call'.step = "code" /\ call'.script \in Events
    BY <1>3 DEF PassStep, FireLifecycleEvent, StartCall, Quiet, setVars, shimVars, timeVars
  <2>2. QED
    BY <1>1, <2>1, RestoredStays DEF Restored, Unshown, Shows, NoCall
<1>4. CASE WaitCheckpoint \/ WaitLeaves
  <2>1. /\ UNCHANGED <<kind, stack, current, overrun>> /\ stack = <<>> /\ call = NoCall
    BY <1>1, <1>4 DEF WaitCheckpoint, WaitLeaves, CheckpointHolds, CheckpointThrows, Quiet,
                      setVars, shimVars, timeVars
  <2>2. (call' = NoCall \/ call'.step = "mark") /\ (pc' = pc \/ pc' # "aborted")
    BY <1>1, <1>4 DEF WaitCheckpoint, WaitLeaves, CheckpointThrows, WaitEnds, StartCall, Quiet
  <2>3. QED
    BY <1>1, <2>1, <2>2, RestoredStays DEF Restored, Unshown, NoCall
<1>5. QED
  BY <1>2, <1>3, <1>4

\* A call goes on, or returns, with nothing to cut.
LEMMA CalmCall ==
    ASSUME Control, Restored, call # NoCall, NEW t \in {"current", "code", "running", "reset"},
           Step(t) \/ Returns
    PROVE  /\ pc' # "aborted"
           /\ Step(t) => call'.script = call.script /\ call'.step = t /\ call' # NoCall
           /\ Returns => call' = NoCall
<1>1. OneCall(call)
  BY CallIs
<1>2. pc # "aborted"
  BY DEF Restored
<1>3. CASE Step(t)
  <2>1. call'.script = call.script /\ call'.step = t /\ pc' = pc
    BY <1>1, <1>3 DEF Step, OneCall
  <2>2. Returns => call' = NoCall
    BY DEF Returns
  <2>3. QED
    BY <1>2, <2>1, <2>2 DEF NoCall
<1>4. CASE Returns
  <2>1. pc' # "aborted"
    BY <1>1, <1>2, <1>4, ReturnsWhere
  <2>2. call' = NoCall
    BY <1>4 DEF Returns
  <2>3. Step(t) => call'.script = call.script /\ call'.step = t /\ call' # NoCall
    BY <1>1 DEF Step, OneCall, NoCall
  <2>4. QED
    BY <2>1, <2>2, <2>3
<1>5. QED
  BY <1>3, <1>4

LEMMA MarkRestored ==
    ASSUME Control, Restored, ~LoadExpired, CallMark \/ CallCurrent \/ CallReset
    PROVE  Restored'
<1>1. /\ call # NoCall /\ UNCHANGED <<kind, stack>> /\ overrun = 0
      /\ call.step \in {"mark", "current", "reset"}
  BY DEF CallMark, CallCurrent, CallReset, NoCall, Restored
<1>2. stack = <<>> /\ OneCall(call)
  BY <1>1, CallIs
<1>3. CASE CallMark
  <2>1. Step("current") /\ overrun' = 0 /\ UNCHANGED current
    BY <1>1, <1>3 DEF CallMark, OwnScript, CheckpointThrows, CheckpointHolds
  <2>2. current = None
    BY <1>2, <1>3 DEF Restored, Unshown, CallMark
  <2>3. call'.step = "current" /\ pc' # "aborted"
    BY <1>1, <2>1, CalmCall
  <2>4. QED
    BY <1>1, <2>1, <2>2, <2>3, RestoredStays
<1>4. CASE CallCurrent
  <2>1. /\ Step("code") /\ overrun' = 0
        /\ current' = IF kind[call.script] = "module" THEN None ELSE call.script
    BY <1>1, <1>4 DEF CallCurrent, OwnScript, CheckpointThrows, CheckpointHolds
  <2>2. call.script \in Scripts
    BY <1>2, <1>4, KeptType DEF OneCall, CallCurrent
  <2>3. current' = Shows(call.script)
    BY <2>1, <2>2, ShowsScript DEF Shows
  <2>4. call'.step = "code" /\ call'.script = call.script /\ pc' # "aborted" /\ call' # NoCall
    BY <1>1, <2>1, CalmCall
  <2>5. QED
    BY <1>1, <1>2, <2>1, <2>3, <2>4, Singleton DEF Restored, Unshown, Shows
<1>5. CASE CallReset
  <2>1. Returns /\ overrun' = 0 /\ current' = None
    BY <1>1, <1>5 DEF CallReset, OwnScript, CheckpointThrows, CheckpointHolds
  <2>2. call' = NoCall /\ pc' # "aborted"
    BY <1>1, <2>1, CalmCall
  <2>3. QED
    BY <1>1, <1>2, <2>1, <2>2, Singleton DEF Restored, NoCall
<1>6. QED
  BY <1>3, <1>4, <1>5

LEMMA CodeRestored ==
    ASSUME Control, Restored, CallCode
    PROVE  Restored'
<1> DEFINE e == <<Load("page", call.script), current>>
<1>1. /\ call # NoCall /\ call.step = "code" /\ stack' = <<e>> /\ Step("running")
      /\ UNCHANGED <<kind, current, overrun>>
  BY DEF CallCode, NoCall, timeVars
<1>2. stack = <<>>
  BY <1>1, CallIs
<1>3. current = Shows(call.script)
  BY <1>1, <1>2 DEF Restored
<1>4. pc' # "aborted"
  BY <1>1, CalmCall
<1>5. e[1].script = call.script /\ e[1].by = "page"
  BY DEF Load
<1> HIDE DEF e
<1>6. DOMAIN stack' = {1} /\ stack'[1] = e /\ Len(stack') = 1 /\ stack' # <<>>
  BY <1>1
<1>7. overrun' = 0
  BY <1>1 DEF Restored
<1>8. current' = Shows(Top[1].script)'
  BY <1>1, <1>3, <1>5, <1>6 DEF Shows, Top
<1>9. QED
  BY <1>4, <1>5, <1>6, <1>7, <1>8 DEF Restored

LEMMA InsertRestored ==
    ASSUME Types, Restored, NEW s \in Scripts, Insert(s)
    PROVE  Restored'
<1>1. /\ stack # <<>> /\ kind[s] # "module" /\ UNCHANGED <<kind, pc, call, overrun>>
  BY DEF Insert, passVars, timeVars
<1>2. CASE kind[s] \in Inline
  <2> DEFINE l == Load("shim", s)
             e == <<l, current>>
             n == Len(stack)
  <2>1. stack' = Append(stack, e) /\ current' = s
    BY <1>2 DEF Insert, Inline
  <2>2. e[1].script = s /\ e[2] = current /\ e[1].by = "shim"
    BY DEF Load
  <2> HIDE DEF e, l
  <2>3. /\ n \in DOMAIN stack /\ n \in Nat \ {0} /\ DOMAIN stack = 1 .. n
    BY <1>1, TopOfStack
  <2>4. /\ DOMAIN stack' = DOMAIN stack \cup {n + 1} /\ stack'[n + 1] = e
        /\ \A k \in DOMAIN stack : stack'[k] = stack[k]
    <3> DEFINE w == Append(stack, e)
    <3>1. /\ DOMAIN w = DOMAIN stack \cup {n + 1} /\ w[n + 1] = e
          /\ \A k \in DOMAIN stack : w[k] = stack[k]
      BY Appended DEF Types
    <3> HIDE DEF w
    <3>2. stack' = w
      BY <2>1 DEF w
    <3>3. QED
      BY <3>1, <3>2
  <2>5. Len(stack') = n + 1 /\ stack' # <<>>
    <3>1. Listing(stack')
      BY <2>1, Appended DEF Types
    <3>2. Len(stack') \in Nat /\ DOMAIN stack' = 1 .. Len(stack')
      BY <3>1, Appended
    <3>3. DOMAIN stack' = 1 .. (n + 1)
      BY <2>3, <2>4
    <3>4. Len(stack') = n + 1
      <4>1. \A a \in Nat, b \in Nat : 1 .. a = 1 .. b => a = b
        OBVIOUS
      <4>2. n + 1 \in Nat
        BY <2>3
      <4>3. QED
        BY <3>2, <3>3, <4>1, <4>2, Zenon
    <3>5. QED
      BY <2>3, <3>3, <3>4, Singleton
  <2>6. current = Shows(stack[n][1].script)
    BY <1>1 DEF Restored, Top
  <2> HIDE DEF n
  <2>7. current' = Shows(Top[1].script)'
    BY <1>1, <2>1, <2>2, <2>4, <2>5, ShowsScript DEF Shows, Top
  <2>8. ASSUME NEW k \in DOMAIN stack', k > 1
        PROVE  stack'[k][2] = Shows(stack[k - 1][1].script)'
    <3>1. CASE k = n + 1
      <4>1. k - 1 = n /\ stack'[k - 1] = stack[n] /\ stack'[k] = e
        BY <2>3, <2>4, <3>1
      <4>2. QED
        BY <1>1, <2>2, <2>6, <4>1 DEF Shows
    <3>2. CASE k # n + 1
      <4>1. k \in DOMAIN stack /\ k - 1 \in DOMAIN stack /\ stack'[k] = stack[k] /\ stack'[k - 1] = stack[k - 1]
        BY <2>3, <2>4, <2>8, <3>2
      <4>2. stack[k][2] = Shows(stack[k - 1][1].script)
        BY <2>8, <4>1 DEF Restored
      <4>3. QED
        BY <1>1, <4>1, <4>2 DEF Shows
    <3>3. QED
      BY <3>1, <3>2
  <2>9. stack'[1][1].by = "shim" => stack'[1][2] = None
    BY <1>1, <2>3, <2>4 DEF Restored
  <2>10. QED
    BY <1>1, <2>5, <2>7, <2>8, <2>9 DEF Restored
<1>3. CASE kind[s] \notin Inline
  <2>1. UNCHANGED <<stack, current>>
    BY <1>3 DEF Insert, Inline
  <2>2. QED
    BY <1>1, <2>1, RestoredStays DEF Restored
<1>4. QED
  BY <1>2, <1>3

LEMMA CodeEndsRestored ==
    ASSUME Types, Control, Restored, CodeEnds
    PROVE  Restored'
<1>0. PICK n \in Nat \ {0} : n = Len(stack) /\ n \in DOMAIN stack /\ DOMAIN stack = 1 .. n
  <2>1. Len(stack) \in DOMAIN stack /\ DOMAIN stack = 1 .. Len(stack) /\ Len(stack) \in Nat
    BY TopOfStack DEF CodeEnds
  <2>2. Len(stack) # 0
    BY <2>1
  <2>3. QED
    BY <2>1, <2>2
<1>1. stack # <<>> /\ stack' = Pop /\ kind' = kind /\ Top = stack[n]
  BY <1>0 DEF CodeEnds, Top
<1>2. DOMAIN stack' = DOMAIN stack \ {n} /\ \A k \in DOMAIN stack' : stack'[k] = stack[k]
  BY <1>0, <1>1, TopOfStack
<1>3. Len(stack') = n - 1
  <2>1. Listing(stack')
    BY <1>1, TopOfStack
  <2>2. Len(stack') \in Nat /\ DOMAIN stack' = 1 .. Len(stack')
    BY <2>1, Appended
  <2>3. DOMAIN stack' = 1 .. (n - 1) /\ n - 1 \in Nat
    BY <1>0, <1>2
  <2>4. QED
    BY <2>2, <2>3
<1>4. overrun = 0 /\ pc # "aborted"
  BY DEF Restored
<1>5. CASE Top[1].by = "page"
  <2>1. n = 1 /\ Top[1].script = call.script /\ call # NoCall
    <3>1. Len(stack) = 1 /\ stack[1][1] = Load("page", call.script) /\ call # NoCall
      BY <1>1, <1>5, PageOnTop
    <3>2. n = 1 /\ Top = stack[1]
      BY <1>0, <1>1, <3>1
    <3>3. QED
      BY <3>1, <3>2 DEF Load
  <2>2. current' = current /\ overrun' = 0
    BY <1>4, <1>5 DEF CodeEnds, CheckpointHolds, CheckpointThrows
  <2>3. current = Shows(call.script)
    BY <1>1, <2>1 DEF Restored
  <2>4. \/ Returns /\ (call.script \in Events \/ kind[call.script] = "module")
        \/ Step("reset")
    BY <1>5 DEF CodeEnds
  <2>5. /\ pc' # "aborted"
        /\ \/ call' = NoCall /\ current = None
           \/ call'.step = "reset" /\ call' # NoCall
    BY <2>1, <2>3, <2>4, CalmCall DEF Shows
  <2>6. stack' = <<>>
    BY <1>1, <1>3, <2>1, TopOfStack DEF Listing
  <2>7. DOMAIN stack' = {}
    BY <2>6, Singleton
  <2>8. QED
    BY <2>2, <2>5, <2>6, <2>7 DEF Restored, Unshown, NoCall
<1>6. CASE Top[1].by # "page"
  <2>1. UNCHANGED <<pc, call, overrun>> /\ current' = Top[2]
    BY <1>6 DEF CodeEnds
  <2>2. CASE n = 1
    <3>1. Top = stack[1] /\ stack[1][1].by = "shim"
      BY <1>0, <1>1, <1>2, <1>6, <2>2 DEF Types
    <3>2. call = NoCall
      BY <1>1, <3>1 DEF Control, Frames, Load
    <3>3. current' = None
      BY <1>1, <2>1, <3>1 DEF Restored
    <3>4. stack' = <<>>
      BY <1>1, <1>3, <2>2, TopOfStack DEF Listing
    <3>5. DOMAIN stack' = {}
      BY <3>4, Singleton
    <3>6. QED
      BY <1>4, <2>1, <3>2, <3>3, <3>4, <3>5 DEF Restored, NoCall
  <2>3. CASE n # 1
    <3>0. n > 1 /\ n - 1 \in 1 .. n /\ n - 1 # n
      BY <2>3
    <3>1. n - 1 \in DOMAIN stack' /\ stack'[n - 1] = stack[n - 1] /\ stack' # <<>>
      BY <1>0, <1>2, <3>0, Singleton
    <3>2. current' = Shows(stack[n - 1][1].script)
      BY <1>0, <1>1, <2>1, <3>0 DEF Restored
    <3>3. current' = Shows(Top[1].script)'
      <4>1. Top' = stack[n - 1]
        BY <1>3, <3>1 DEF Top
      <4>2. QED
        BY <1>1, <3>2, <4>1 DEF Shows
    <3>4. ASSUME NEW k \in DOMAIN stack', k > 1
          PROVE  stack'[k][2] = Shows(stack[k - 1][1].script)'
      <4>1. k \in DOMAIN stack /\ k - 1 \in DOMAIN stack' /\ stack'[k] = stack[k]
            /\ stack'[k - 1] = stack[k - 1]
        BY <1>0, <1>2, <3>4
      <4>2. stack[k][2] = Shows(stack[k - 1][1].script)
        BY <3>4, <4>1 DEF Restored
      <4>3. QED
        BY <1>1, <4>1, <4>2 DEF Shows
    <3>5. stack'[1][1].by = "shim" => stack'[1][2] = None
      <4>1. 1 \in DOMAIN stack'
        BY <1>0, <1>2, <3>0
      <4>2. QED
        BY <1>0, <1>1, <1>2, <4>1 DEF Restored
    <3>6. QED
      BY <1>4, <2>1, <3>1, <3>3, <3>4, <3>5 DEF Restored
  <2>4. QED
    BY <2>2, <2>3
<1>7. QED
  BY <1>5, <1>6

LEMMA RunTaskRestored ==
    ASSUME Types, Places, Restored, NEW ok \in BOOLEAN, RunTask(ok)
    PROVE  Restored'
<1>0. PICK l \in What : l = Head(tasks).what
  BY TaskHead DEF RunTask
<1>1. /\ tasks # <<>> /\ UNCHANGED <<kind, pc, overrun>> /\ stack = <<>> /\ call = NoCall
  BY DEF RunTask, Quiet, timeVars
<1>2. overrun' = 0 /\ pc' # "aborted" /\ current = None
  BY <1>1 DEF Restored, Unshown
<1>3. CASE UNCHANGED <<stack, current>> /\ (call' = call \/ call'.step = "mark")
  BY <1>1, <1>2, <1>3, RestoredStays DEF Unshown, NoCall
<1>4. CASE l.by = "shim" /\ stack' = <<<<l, current>>>> /\ current' = l.script /\ call' = call
  <2> DEFINE e == <<l, current>>
  <2>1. stack' = <<e>> /\ e[1] = l /\ e[2] = None
    BY <1>2, <1>4
  <2> HIDE DEF e
  <2>2. DOMAIN stack' = {1} /\ stack'[1] = e /\ Len(stack') = 1 /\ stack' # <<>>
    BY <2>1
  <2>3. l.script \in Flights
    BY <1>0, <1>1, <1>4, NextDelivery
  <2>4. l.script \in Scripts /\ kind[l.script] # "module"
    BY <2>3 DEF Places, Apart, Ext, External
  <2>5. current' = Shows(Top[1].script)'
    BY <1>1, <1>4, <2>1, <2>2, <2>4, ShowsScript DEF Shows, Top
  <2>6. QED
    BY <1>2, <2>1, <2>2, <2>5 DEF Restored
<1>5. QED
  <2>1. l.by \in {"page", "shim"}
    BY WhatAssumption
  <2>2. CASE l.by = "page"
    BY <1>0, <1>3, <2>2 DEF RunTask
  <2>3. CASE l.by = "shim"
    BY <1>0, <1>3, <1>4, <2>3 DEF RunTask
  <2>4. QED
    BY <2>1, <2>2, <2>3

LEMMA RestoringStep == Types /\ Places /\ Control /\ Restoring /\ [Next]_vars => Restoring'
<1> SUFFICES ASSUME Types, Places, Control, Restoring, [Next]_vars, Calm' PROVE Restored'
  BY DEF Restoring
<1>1. Restored /\ ~LoadExpired
  BY CalmBefore DEF Restoring, Calm, LoadExpired
<1>2. ~CallCodeCut /\ ~CodeIsCut
  BY DEF CallCodeCut, CodeIsCut, Calm
<1>3. ASSUME NEW s \in Scripts, Insert(s) PROVE Restored'
  BY <1>1, <1>3, InsertRestored
<1>4. ASSUME NEW ok \in BOOLEAN, RunTask(ok) PROVE Restored'
  BY <1>1, <1>4, RunTaskRestored
<1>5. QED
  BY <1>1, <1>2, <1>3, <1>4, PlainRestored, MarkRestored, CodeRestored, CodeEndsRestored DEF Next

-----------------------------------------------------------------------------
(* load waits for the async scripts.                                         *)

LEMMA RanByGrows ==
    ASSUME Types, Control, [Next]_vars
    PROVE  RanBy("page") \subseteq RanBy("page")'
<1>1. CASE ran' = ran
  BY <1>1 DEF RanBy
<1>2. CASE \E l : ran' = Append(ran, l)
  <2>1. PICK l : ran' = Append(ran, l)
    BY <1>2
  <2>2. Listing(ran)
    BY DEF Types
  <2>3. RanBy("page")' = IF l.by = "page" THEN RanBy("page") \cup {l.script} ELSE RanBy("page")
    BY <2>1, <2>2, RanGrows
  <2>4. QED
    BY <2>3
<1>3. QED
  BY <1>1, <1>2, RanMoves

\* No async script has been fetched when the fetches start.
LEMMA CollectAsync ==
    ASSUME Collect, NEW s \in Slots, kind[s] = "async"
    PROVE  fetch'[s] # "ok"
<1>1. PICK goes \in [{x \in Slots : kind[x] \in External} -> {"cached", "flies", "refused"}] :
        fetch' = [x \in Parsed |-> IF x \notin Slots THEN "dropped"
                                   ELSE IF x \notin DOMAIN goes THEN "ok"
                                   ELSE IF x \in {y \in DOMAIN goes : goes[y] = "refused"} THEN "failed"
                                   ELSE "waiting"]
  BY DEF Collect
<1>2. s \in DOMAIN goes /\ s \in Parsed
  BY KeptType DEF External
<1>3. QED
  BY <1>1, <1>2

\* A fetched async script has run, or runs.
Fetched(s) == s \in RanBy("page") \/ (call.script = s /\ call.by = "task")

LEMMA FetchedStep ==
    ASSUME Types, Places, Control, Restored, [Next]_vars, ~late', hung' = {},
           \A x \in Slots : kind[x] = "async" /\ fetch[x] = "ok" => Fetched(x),
           NEW s \in Slots', kind'[s] = "async", fetch'[s] = "ok"
    PROVE  Fetched(s)'
<1>1. /\ RanBy("page") \subseteq RanBy("page")' /\ overrun = 0 /\ pc # "aborted"
      /\ ~late /\ hung = {} /\ ~LoadExpired
  BY RanByGrows, HungGrows DEF Restored, LoadExpired
<1>2. ASSUME Collect PROVE FALSE
  <2>1. kind' = kind
    BY <1>2 DEF Collect
  <2>2. s \in Slots
    BY <2>1, KeptStays
  <2>3. QED
    BY <1>2, <2>1, <2>2, CollectAsync
<1>3. CASE JsStep
  <2>1. /\ UNCHANGED <<kind, fetch>>
        /\ \/ call' = call
           \/ call # NoCall /\ \E t \in {"current", "code", "running", "reset"} : Step(t)
           \/ call # NoCall /\ Returns /\ call.step \in {"running", "reset"}
    BY <1>1, <1>3, JsMoves
  <2>2. s \in Slots /\ Fetched(s)
    BY <2>1, KeptStays
  <2>3. CASE call' = call
    BY <1>1, <2>2, <2>3 DEF Fetched
  <2>4. CASE call # NoCall /\ \E t \in {"current", "code", "running", "reset"} : Step(t)
    <3>1. call'.script = call.script /\ call'.by = call.by
      BY <2>4, CallIs DEF Step, OneCall
    <3>2. QED
      BY <1>1, <2>2, <3>1 DEF Fetched
  <2>5. CASE call # NoCall /\ Returns /\ call.step \in {"running", "reset"}
    <3>1. call.by = "task" => call.script \in RanBy("page")
      BY <1>1, <2>5, CallIs DEF OneCall
    <3>2. QED
      BY <1>1, <2>2, <3>1 DEF Fetched
  <2>6. QED
    BY <2>1, <2>3, <2>4, <2>5
<1>4. CASE ~JsStep /\ ~\E ok \in BOOLEAN : RunTask(ok)
  <2>1. ASSUME \/ DeadlinePasses \/ PassEnds \/ UNCHANGED vars
               \/ (\E l \in flying : Land(l)) \/ (\E x \in Scripts : Insert(x))
        PROVE  UNCHANGED <<kind, fetch, call>>
    BY <2>1 DEF DeadlinePasses, PassEnds, Land, Insert, vars, passVars, setVars
  <2>2. ASSUME PassStep \/ FireLifecycleEvent
        PROVE  UNCHANGED <<kind, fetch>> /\ call = NoCall
    BY <2>2 DEF PassStep, FireLifecycleEvent, Quiet, setVars
  <2>3. ASSUME WaitCheckpoint \/ WaitLeaves
        PROVE  UNCHANGED <<kind, fetch>> /\ call = NoCall
    BY <2>3 DEF WaitCheckpoint, WaitLeaves, Quiet, setVars
  <2>4. UNCHANGED <<kind, fetch>> /\ (call' = call \/ call = NoCall)
    BY <1>2, <1>4, <2>1, <2>2, <2>3, OtherSteps
  <2>5. s \in Slots /\ Fetched(s)
    BY <2>4, KeptStays
  <2>6. QED
    BY <1>1, <2>4, <2>5 DEF Fetched, NoCall
<1>5. ASSUME NEW ok \in BOOLEAN, RunTask(ok) PROVE Fetched(s)'
  <2>0. PICK l \in What : l = Head(tasks).what
    BY <1>5, TaskHead DEF RunTask
  <2>1. /\ kind' = kind /\ call = NoCall
        /\ \/ /\ fetch' = [fetch EXCEPT ![l.script] = IF ok THEN "ok" ELSE "failed"]
              /\ \/ kind[l.script] # "async"
                 \/ call' = [script |-> l.script, step |-> "mark", by |-> "task"]
                 \/ ~ok
           \/ fetch' = fetch
    BY <1>1, <1>5, <2>0, RunTaskEffect
  <2>2. s \in Slots /\ s \in DOMAIN fetch
    BY <2>1, KeptStays, KeptType DEF Places
  <2>3. CASE fetch[s] = "ok"
    <3>1. Fetched(s)
      BY <2>1, <2>2, <2>3
    <3>2. QED
      BY <1>1, <2>1, <3>1 DEF Fetched, NoCall
  <2>4. CASE fetch[s] # "ok"
    <3>1. s = l.script /\ fetch' = [fetch EXCEPT ![s] = IF ok THEN "ok" ELSE "failed"]
      BY <2>1, <2>2, <2>4
    <3>2. ok
      BY <2>2, <3>1
    <3>3. call' = [script |-> s, step |-> "mark", by |-> "task"]
      BY <2>1, <2>4, <3>1, <3>2
    <3>4. QED
      BY <3>3 DEF Fetched
  <2>5. QED
    BY <2>3, <2>4
<1>6. QED
  BY <1>2, <1>3, <1>4, <1>5

LEMMA AwaitedStep ==
    ASSUME Types, Places, Control, Counted, Restoring, Restoring', Awaited, [Next]_vars
    PROVE  Awaited'
<1> SUFFICES ASSUME ~late', hung' = {}
             PROVE  /\ pc' \in {"load", "ready", "returned"} => AsyncOpen' = {}
                    /\ Load("page", "load") \in {ran'[i] : i \in DOMAIN ran'} => pc' \in {"load", "ready", "returned"}
                    /\ \A s \in Slots' : kind'[s] = "async" /\ fetch'[s] = "ok" => Fetched(s)'
  BY DEF Awaited, Fetched
<1>1. ~late /\ hung = {} /\ Calm /\ Calm'
  BY HungGrows DEF Calm
<1>2. Restored /\ pc' # "aborted" /\ overrun = 0 /\ pc # "aborted"
  BY <1>1 DEF Restoring, Restored
<1>3. /\ pc \in LoadOn => AsyncOpen = {}
      /\ Load("page", "load") \in {ran[i] : i \in DOMAIN ran} => pc \in LoadOn
      /\ \A s \in Slots : kind[s] = "async" /\ fetch[s] = "ok" => Fetched(s)
  BY <1>1 DEF Awaited, LoadOn, Fetched
<1>4. /\ pc \in LoadOn => pc' \in LoadOn
      /\ pc' \in LoadOn => pc \in LoadOn \/ (~Collect /\ ~(pending > 0))
  BY <1>1, <1>2, LoadComes
<1>5. ASSUME pc' \in LoadOn PROVE AsyncOpen' = {}
  <2>1. ~Collect
    BY <1>4, <1>5 DEF Collect, LoadOn
  <2>2. AsyncOpen' \subseteq AsyncOpen
    BY <2>1, AsyncOpenShrinks
  <2>3. CASE pc \in LoadOn
    BY <1>3, <2>2, <2>3
  <2>4. CASE ~(pending > 0)
    <3>1. Counting' => Counting
      BY <2>1, CountingBefore
    <3>2. Counting'
      BY <1>5 DEF Counting, LoadOn
    <3>3. pending = Cardinality(AsyncOpen)
      BY <3>1, <3>2 DEF Counted, HoldsAreBacked, Counting
    <3>4. Cardinality(AsyncOpen) = 0
      BY <2>4, <3>3, Sizes
    <3>5. AsyncOpen = {}
      BY <3>4, Sizes, FS_EmptySet
    <3>6. QED
      BY <2>2, <3>5
  <2>5. QED
    BY <1>4, <1>5, <2>3, <2>4
<1>6. ASSUME Load("page", "load") \in {ran'[i] : i \in DOMAIN ran'} PROVE pc' \in LoadOn
  <2>1. CASE ran' = ran
    BY <1>3, <1>4, <1>6, <2>1
  <2>2. ASSUME NEW l, ran' = Append(ran, l), l = Load("page", "load") => pc' = "load" PROVE pc' \in LoadOn
    <3>1. /\ DOMAIN ran' = DOMAIN ran \cup {Len(ran) + 1} /\ ran'[Len(ran) + 1] = l
          /\ \A i \in DOMAIN ran : ran'[i] = ran[i]
      BY <2>2, Appended DEF Types
    <3>2. Load("page", "load") \in {ran[i] : i \in DOMAIN ran} \/ l = Load("page", "load")
      BY <1>6, <3>1
    <3>3. QED
      BY <1>3, <1>4, <2>2, <3>2 DEF LoadOn
  <2>3. QED
    BY <2>1, <2>2, RanMoves
<1>7. ASSUME NEW s \in Slots', kind'[s] = "async", fetch'[s] = "ok" PROVE Fetched(s)'
  BY <1>2, <1>3, <1>7, FetchedStep
<1>8. QED
  BY <1>5, <1>6, <1>7 DEF LoadOn

-----------------------------------------------------------------------------
(* The theorems.                                                             *)

HoldsInv == Types /\ Places /\ Control /\ Counted /\ Restoring /\ Awaited

LEMMA HoldsInit == Init => HoldsInv
<1> SUFFICES ASSUME Init PROVE HoldsInv
  OBVIOUS
<1>1. Types /\ Places /\ Control
  BY TypesInit, PlacesInit, ControlInit
<1>2. /\ pc = "collect" /\ overrun = 0 /\ stack = <<>> /\ current = None /\ call = NoCall /\ ran = <<>>
      /\ fetch = [s \in Parsed |-> "waiting"] /\ DOMAIN stack = {} /\ DOMAIN ran = {}
  BY Singleton DEF Init
<1>3. Counted
  BY <1>2 DEF Counted, HoldsAreBacked
<1>4. Restoring
  BY <1>2 DEF Restoring, Restored, NoCall
<1>5. Awaited
  BY <1>2, KeptType DEF Awaited
<1>6. QED
  BY <1>1, <1>3, <1>4, <1>5 DEF HoldsInv

LEMMA HoldsStep == HoldsInv /\ [Next]_vars => HoldsInv'
<1> SUFFICES ASSUME HoldsInv, [Next]_vars PROVE HoldsInv'
  OBVIOUS
<1>1. Types /\ Places /\ Control /\ Counted /\ Restoring /\ Awaited
  BY DEF HoldsInv
<1>2. Types' /\ Places' /\ Control' /\ Counted' /\ Restoring'
  BY <1>1, TypesStep, PlacesStep, ControlStep, CountedStep, RestoringStep
<1>3. Awaited'
  BY <1>1, <1>2, AwaitedStep
<1>4. QED
  BY <1>2, <1>3 DEF HoldsInv

LEMMA HoldsAlways == Spec => []HoldsInv
BY HoldsInit, HoldsStep, PTL DEF Spec

\* The activity count that keeps a page from being ready is always the async
\* scripts and the inserted external scripts that are not over: the marks that
\* run_document_script and runDynamicExternalScript take and give back match,
\* until a task's script is cut or an exception escapes.
THEOREM HoldsAlwaysBacked == Spec => []HoldsAreBacked
<1>1. HoldsInv => HoldsAreBacked
  BY DEF HoldsInv, Counted
<1>2. QED
  BY <1>1, HoldsAlways, PTL

\* document.currentScript is always the classic script whose code runs, however
\* deep the code it inserts nests, and null when none runs, until something is
\* cut: what run_document_script sets and executeDynamicScript restores.
THEOREM CurrentAlwaysRunning == Spec => []CurrentIsRunning
<1>1. HoldsInv => CurrentIsRunning
  <2> SUFFICES ASSUME HoldsInv, Calm PROVE
         IF stack = <<>> THEN Quiet /\ pc # "aborted" => current = None
         ELSE current = Shows(Top[1].script)
    BY DEF CurrentIsRunning, Calm, Shows
  <2>1. Restored
    BY DEF HoldsInv, Restoring
  <2>2. QED
    BY <2>1 DEF Restored, Unshown, Quiet
<1>2. QED
  BY <1>1, HoldsAlways, PTL

\* load fires only when every async script of the parser has been fetched and
\* has run, or has failed to load, whatever lands, fails or is inserted while
\* execute_scripts pumps the loop, unless the deadline passed or code was cut.
THEOREM LoadAlwaysWaitsForAsync == Spec => []LoadWaitsForAsync
<1>1. HoldsInv => LoadWaitsForAsync
  <2> SUFFICES ASSUME HoldsInv, ~late, hung = {},
                      Load("page", "load") \in {ran[i] : i \in DOMAIN ran}
               PROVE  AsyncOpen = {} /\ \A s \in Slots : kind[s] = "async" /\ fetch[s] = "ok" => s \in RanBy("page")
    BY DEF LoadWaitsForAsync
  <2>1. /\ AsyncOpen = {}
        /\ \A s \in Slots : kind[s] = "async" /\ fetch[s] = "ok" => Fetched(s)
    BY DEF HoldsInv, Awaited, Fetched
  <2>2. \A s \in Slots : kind[s] = "async" /\ call.script = s => call.by # "task"
    BY <2>1, AsyncOpenIs
  <2>3. QED
    BY <2>1, <2>2 DEF Fetched
<1>2. QED
  BY <1>1, HoldsAlways, PTL

-----------------------------------------------------------------------------
(* The page's own scripts run in the documented order.                       *)

\* What the page itself has run.
Past == {e \in Scripts \cup Events : Load("page", e) \in {ran[i] : i \in DOMAIN ran}}

\* The pass runs its script, or has run it and has not gone on.
Underway == call.by = "pipeline" /\ call.step \in {"running", "reset"}
Reached(i) == i < at \/ (i = at /\ Underway)

\* The pass waits for, and runs, the script it is at, which is its own to run.
AtPlace ==
    pc \in {"parse", "defer"} /\ (wait # "no" \/ call.by = "pipeline") =>
        /\ at <= PassLength
        /\ kind[ScriptAt] # "async" /\ ~DefersHere(ScriptAt)
        /\ call.by = "pipeline" => call.script = ScriptAt

\* The scripts put off are listed as the document lists them.
PutOff ==
    /\ \A k \in DOMAIN deferred :
          /\ kind[deferred[k]] \in {"defer", "module"}
          /\ pc \in {"collect", "parse"} => Order!Position(deferred[k]) < at
    /\ \A j, k \in DOMAIN deferred : j < k => Order!Position(deferred[j]) < Order!Position(deferred[k])

\* No event has fired before its turn.
EventsToCome ==
    /\ pc \in {"collect", "parse", "defer"} => Past \cap Events = {}
    /\ pc \in {"DOMContentLoaded", "hold"} => "load" \notin Past
    /\ pc \in Events /\ pc \in Past => Underway

\* No script has run before the pass reached it.
ScriptsToCome ==
    \A i \in DOMAIN Document : Document[i] \in Past /\ kind[Document[i]] # "async" =>
        /\ pc = "parse" => kind[Document[i]] \in {"inline", "sync"} /\ Reached(i)
        /\ pc = "defer" =>
              \/ kind[Document[i]] \in {"inline", "sync"}
              \/ \E k \in DOMAIN deferred : deferred[k] = Document[i] /\ Reached(k)

\* An async script runs after its fetch, and a task runs it once.
AsyncOnce ==
    \A s \in Past \cap Parsed : kind[s] = "async" =>
        /\ fetch[s] # "waiting"
        /\ ~(call.by = "task" /\ call.script = s /\ call.step \in {"mark", "current", "code"})

Marching == AtPlace /\ PutOff /\ EventsToCome /\ ScriptsToCome /\ AsyncOnce
LEMMA PlaceOf == \A i \in DOMAIN Document : Order!Position(Document[i]) = i
<1> SUFFICES ASSUME NEW i \in DOMAIN Document PROVE Order!Position(Document[i]) = i
  OBVIOUS
<1>1. \A j \in DOMAIN Document : Document[j] = Document[i] => j = i
  BY ScriptsAssumption
<1>2. QED
  BY <1>1 DEF Order!Position

LEMMA ShapeOfDocument ==
    /\ Document \in Seq(Parsed) /\ Len(Document) \in Nat /\ DOMAIN Document = 1 .. Len(Document)
    /\ \A i \in DOMAIN Document : Document[i] \in Parsed /\ Document[i] \in Scripts /\ Document[i] \notin Events
    /\ \A s \in Parsed : \E i \in DOMAIN Document : Document[i] = s
<1>1. Document \in Seq(Parsed)
  BY ScriptsAssumption
<1>2. Len(Document) \in Nat /\ DOMAIN Document = 1 .. Len(Document)
  BY <1>1
<1>3. \A i \in DOMAIN Document : Document[i] \in Parsed
  BY DEF Parsed
<1>4. \A s \in Parsed : \E i \in DOMAIN Document : Document[i] = s
  BY DEF Parsed
<1>5. \A i \in DOMAIN Document : Document[i] \in Scripts /\ Document[i] \notin Events
  BY <1>3, KeptType, ScriptsAssumption
<1>6. QED
  BY <1>1, <1>2, <1>3, <1>4, <1>5

LEMMA ParserKind ==
    ASSUME Types, NEW s \in Parsed
    PROVE  kind[s] \in {"inline", "sync", "defer", "async", "module"}
<1>1. s \in Scripts
  BY KeptType
<1>2. QED
  BY <1>1, MixesAssumption DEF Types, ParserKinds

\* What the page has run, when code of its own starts or none does.
LEMMA PastStays ==
    ASSUME Types, ran' = ran \/ \E l : ran' = Append(ran, l) /\ l.by # "page"
    PROVE  Past' = Past
<1>1. CASE ran' = ran
  BY <1>1 DEF Past
<1>2. ASSUME NEW l, ran' = Append(ran, l), l.by # "page" PROVE Past' = Past
  <2>1. /\ DOMAIN ran' = DOMAIN ran \cup {Len(ran) + 1} /\ ran'[Len(ran) + 1] = l
        /\ \A i \in DOMAIN ran : ran'[i] = ran[i]
    BY <1>2, Appended DEF Types
  <2>2. \A e : Load("page", e) # l
    BY <1>2 DEF Load
  <2>3. QED
    BY <2>1, <2>2 DEF Past
<1>3. QED
  BY <1>1, <1>2

LEMMA PastGrows ==
    ASSUME Types, NEW e \in Scripts \cup Events, ran' = Append(ran, Load("page", e))
    PROVE  Past' = Past \cup {e}
<1> DEFINE l == Load("page", e)
<1>1. \A x : Load("page", x) = l <=> x = e
  BY DEF Load
<1>2. ran' = Append(ran, l)
  OBVIOUS
<1> HIDE DEF l
<1>3. /\ DOMAIN ran' = DOMAIN ran \cup {Len(ran) + 1} /\ ran'[Len(ran) + 1] = l
      /\ \A i \in DOMAIN ran : ran'[i] = ran[i]
  BY <1>2, Appended DEF Types
<1>4. \A x : Load("page", x) \in {ran'[i] : i \in DOMAIN ran'}
               <=> Load("page", x) \in {ran[i] : i \in DOMAIN ran} \/ x = e
  BY <1>1, <1>3
<1>5. QED
  BY <1>4 DEF Past

\* The steps of a call, one by one.
LEMMA CallMoves ==
    ASSUME Types, Control, JsStep
    PROVE  /\ UNCHANGED <<kind, fetch, deferred>>
           /\ \/ UNCHANGED <<pc, at, wait, call, ran>>
              \/ /\ call # NoCall /\ ran' = ran
                 /\ \/ call.step = "mark" /\ Step("current")
                    \/ call.step = "current" /\ Step("code")
                    \/ call.step \in {"code", "running"} /\ Step("reset")
              \/ /\ call # NoCall /\ CallCode
                 /\ call.step = "code" /\ Step("running") /\ ran' = Append(ran, Load("page", call.script))
              \/ call # NoCall /\ ran' = ran /\ (Returns \/ Escapes)
<1>1. CASE CallMark \/ CallCurrent
  <2>1. /\ call.step \in {"mark", "current"} /\ UNCHANGED <<kind, fetch, deferred, ran>>
        /\ \/ call.step = "mark" /\ Step("current")
           \/ call.step = "current" /\ Step("code")
           \/ Escapes
    BY <1>1 DEF CallMark, CallCurrent, OwnScript
  <2>2. call # NoCall
    BY <2>1 DEF NoCall
  <2>3. QED
    BY <2>1, <2>2
<1>2. CASE CallCode
  <2>1. call.step = "code" /\ Step("running") /\ ran' = Append(ran, Load("page", call.script))
        /\ UNCHANGED <<kind, fetch, deferred>>
    BY <1>2 DEF CallCode
  <2>2. call # NoCall
    BY <2>1 DEF NoCall
  <2>3. QED
    BY <1>2, <2>1, <2>2
<1>3. CASE CallCodeCut \/ CallReset
  <2>1. /\ call.step \in {"code", "reset"} /\ UNCHANGED <<kind, fetch, deferred, ran>>
        /\ (call.step = "code" /\ Step("reset")) \/ Returns
    BY <1>3 DEF CallCodeCut, CallReset, OwnScript
  <2>2. call # NoCall
    BY <2>1 DEF NoCall
  <2>3. QED
    BY <2>1, <2>2
<1>4. CASE CodeEnds
  <2>1. stack # <<>> /\ UNCHANGED <<kind, fetch, deferred, ran>>
    BY <1>4 DEF CodeEnds
  <2>2. CASE Top[1].by = "page"
    <3>1. Returns \/ Step("reset")
      BY <1>4, <2>2 DEF CodeEnds
    <3>2. call # NoCall /\ call.step = "running"
      BY <2>1, <2>2, PageOnTop
    <3>3. QED
      BY <2>1, <3>1, <3>2
  <2>3. CASE Top[1].by # "page"
    BY <1>4, <2>1, <2>3 DEF CodeEnds
  <2>4. QED
    BY <2>2, <2>3
<1>5. CASE CodeIsCut
  <2>1. /\ stack # <<>> /\ UNCHANGED <<kind, fetch, deferred, ran>>
        /\ IF stack[1][1].by = "shim" THEN UNCHANGED <<pc, at, wait, call>>
           ELSE Returns \/ Step("reset")
    BY <1>5 DEF CodeIsCut
  <2>2. stack[1][1].by # "shim" => call # NoCall /\ call.step = "running"
    BY <2>1 DEF Control, Frames
  <2>3. QED
    BY <2>1, <2>2
<1>6. QED
  BY <1>1, <1>2, <1>3, <1>4, <1>5 DEF JsStep
LEMMA MarchingInit == Init => Marching
<1> SUFFICES ASSUME Init PROVE Marching
  OBVIOUS
<1>1. /\ pc = "collect" /\ deferred = <<>> /\ ran = <<>> /\ DOMAIN deferred = {} /\ DOMAIN ran = {}
  BY Singleton DEF Init
<1>2. Past = {}
  BY <1>1 DEF Past
<1>3. QED
  BY <1>1, <1>2 DEF Marching, AtPlace, PutOff, EventsToCome, ScriptsToCome, AsyncOnce, Events

\* A step that leaves the pass and the call where they are.
LEMMA StillMarching ==
    ASSUME Marching, UNCHANGED <<kind, fetch, pc, at, deferred, wait, call>>, Past' = Past
    PROVE  Marching'
<1>1. AtPlace'
  BY DEF Marching, AtPlace, PassLength, ScriptAt, DefersHere
<1>2. PutOff'
  BY DEF Marching, PutOff
<1>3. EventsToCome' /\ ScriptsToCome' /\ AsyncOnce'
  BY DEF Marching, EventsToCome, ScriptsToCome, AsyncOnce, Underway, Reached
<1>4. QED
  BY <1>1, <1>2, <1>3 DEF Marching

LEMMA CollectMarching == Types /\ Control /\ Marching /\ Collect => Marching'
<1> SUFFICES ASSUME Types, Control, Marching, Collect PROVE Marching'
  OBVIOUS
<1>1. /\ pc = "collect" /\ pc' = "parse" /\ UNCHANGED <<kind, at, deferred, wait, call, ran>>
  BY DEF Collect
<1>2. wait = "no" /\ call = NoCall /\ ran = <<>>
  BY <1>1 DEF Control, Fresh
<1>3. Past' = {}
  BY <1>1, <1>2, Singleton DEF Past
<1>4. PutOff'
  BY <1>1 DEF Marching, PutOff
<1>5. QED
  BY <1>1, <1>2, <1>3, <1>4 DEF Marching, AtPlace, EventsToCome, ScriptsToCome, AsyncOnce, NoCall, Events

\* A call that goes on to its next step.
LEMMA StepMarching ==
    ASSUME Types, Control, Marching, call # NoCall, UNCHANGED <<kind, fetch, deferred>>, ran' = ran,
           \/ call.step = "mark" /\ Step("current")
           \/ call.step = "current" /\ Step("code")
           \/ call.step \in {"code", "running"} /\ Step("reset")
    PROVE  Marching'
<1>1. Past' = Past
  BY PastStays
<1>2. OneCall(call)
  BY CallIs
<1>3. UNCHANGED <<pc, at, wait>> /\ call'.script = call.script /\ call'.by = call.by
  BY <1>2 DEF Step, OneCall
<1>4. \/ call.step = "mark" /\ call'.step = "current"
      \/ call.step = "current" /\ call'.step = "code"
      \/ call.step \in {"code", "running"} /\ call'.step = "reset"
  BY <1>2 DEF Step, OneCall
<1>5. Underway => Underway'
  BY <1>3, <1>4 DEF Underway
<1>6. AtPlace'
  BY <1>3 DEF Marching, AtPlace, PassLength, ScriptAt, DefersHere
<1>7. PutOff'
  BY <1>3 DEF Marching, PutOff
<1>8. EventsToCome'
  BY <1>1, <1>3, <1>5 DEF Marching, EventsToCome
<1>9. ScriptsToCome'
  BY <1>1, <1>3, <1>5 DEF Marching, ScriptsToCome, Reached
<1>10. AsyncOnce'
  BY <1>1, <1>3, <1>4 DEF Marching, AsyncOnce
<1>11. QED
  BY <1>6, <1>7, <1>8, <1>9, <1>10 DEF Marching

\* Whose code a call of the page starts: an async script's for the first time,
\* the event the pass is at, or the script it is at.
LEMMA WhoseCode ==
    ASSUME Types, Control, Marching, call # NoCall, call.step = "code"
    PROVE  /\ call.script \in Scripts \cup Events
           /\ \/ /\ call.by = "task" /\ call.script \in Parsed /\ kind[call.script] = "async"
                 /\ call.script \notin Past /\ fetch[call.script] = "ok"
              \/ call.by = "pipeline" /\ pc \in Events /\ call.script = pc /\ pc \notin Past
              \/ /\ call.by = "pipeline" /\ pc \in {"parse", "defer"} /\ pc \notin Events
                 /\ at \in Nat /\ at <= PassLength
                 /\ call.script = ScriptAt /\ ScriptAt \in Parsed
                 /\ kind[ScriptAt] # "async" /\ ~DefersHere(ScriptAt)
<1>1. OneCall(call) /\ ~Underway
  BY CallIs DEF Underway
<1>2. CASE call.by = "task"
  <2>1. call.script \in Parsed /\ kind[call.script] = "async" /\ fetch[call.script] = "ok"
    BY <1>1, <1>2, KeptType DEF OneCall
  <2>2. call.script \notin Past
    BY <1>2, <2>1 DEF Marching, AsyncOnce
  <2>3. QED
    BY <1>2, <2>1, <2>2, KeptType
<1>3. CASE call.by = "pipeline" /\ pc \in Events
  <2>1. call.script = pc
    BY <1>1, <1>3 DEF OneCall, Events
  <2>2. pc \notin Past
    BY <1>1, <1>3 DEF Marching, EventsToCome
  <2>3. QED
    BY <1>3, <2>1, <2>2
<1>4. CASE call.by = "pipeline" /\ pc \notin Events
  <2>1. pc \in {"parse", "defer"}
    BY <1>1, <1>4 DEF OneCall
  <2>2. /\ at <= PassLength /\ call.script = ScriptAt
        /\ kind[ScriptAt] # "async" /\ ~DefersHere(ScriptAt)
    BY <1>4, <2>1 DEF Marching, AtPlace
  <2>3. ScriptAt \in Parsed /\ ScriptAt \in Scripts /\ at \in Nat
    BY <2>1, <2>2, ScriptOfPass DEF Control, Walking
  <2>4. QED
    BY <1>4, <2>1, <2>2, <2>3
<1>5. QED
  BY <1>1, <1>2, <1>3, <1>4 DEF OneCall

LEMMA CodeMarching ==
    ASSUME Types, Control, Marching, call # NoCall, UNCHANGED <<kind, fetch, deferred>>,
           call.step = "code", Step("running"), ran' = Append(ran, Load("page", call.script))
    PROVE  Marching'
<1>1. Past' = Past \cup {call.script}
  BY WhoseCode, PastGrows
<1>2. OneCall(call) /\ ~Underway
  BY CallIs DEF Underway
<1>3. UNCHANGED <<pc, at, wait>> /\ call'.script = call.script /\ call'.by = call.by /\ call'.step = "running"
  BY <1>2 DEF Step, OneCall
<1>4. Underway' <=> call.by = "pipeline"
  BY <1>3 DEF Underway
<1>5. AtPlace'
  BY <1>3 DEF Marching, AtPlace, PassLength, ScriptAt, DefersHere
<1>6. PutOff'
  BY <1>3 DEF Marching, PutOff
<1>7. EventsToCome'
  <2>1. \/ call.script \notin Events
        \/ call.by = "pipeline" /\ pc \in Events /\ call.script = pc
    BY WhoseCode, KeptType, ScriptsAssumption
  <2>2. pc \in Events => pc \notin Past
    BY <1>2 DEF Marching, EventsToCome
  <2>3. QED
    BY <1>1, <1>3, <1>4, <2>1, <2>2 DEF Marching, EventsToCome, Events
<1>8. ScriptsToCome'
  <2> SUFFICES ASSUME NEW i \in DOMAIN Document, Document[i] \in Past', kind[Document[i]] # "async"
               PROVE  /\ pc = "parse" => kind[Document[i]] \in {"inline", "sync"} /\ Reached(i)'
                      /\ pc = "defer" =>
                            \/ kind[Document[i]] \in {"inline", "sync"}
                            \/ \E k \in DOMAIN deferred : deferred[k] = Document[i] /\ Reached(k)'
    BY <1>3 DEF ScriptsToCome
  <2>1. \A k : Reached(k) => Reached(k)'
    BY <1>2, <1>3 DEF Reached
  <2>2. CASE Document[i] \in Past
    BY <2>1, <2>2 DEF Marching, ScriptsToCome
  <2>3. CASE Document[i] = call.script /\ pc \in {"parse", "defer"}
    <3>1. /\ call.by = "pipeline" /\ at \in Nat /\ at <= PassLength
          /\ Document[i] = ScriptAt /\ ScriptAt \in Parsed /\ ~DefersHere(ScriptAt)
      BY <2>3, WhoseCode DEF Events
    <3>2. \A k : k = at => Reached(k)'
      BY <1>3, <1>4, <3>1 DEF Reached
    <3>3. CASE pc = "parse"
      <4>1. Document[i] = Document[at] /\ at \in DOMAIN Document
        BY <3>1, <3>3, ShapeOfDocument DEF ScriptAt, PassLength, Control, Walking
      <4>2. i = at
        BY <4>1, ScriptsAssumption
      <4>3. kind[Document[i]] \in {"inline", "sync"}
        BY <3>1, <3>3, ParserKind DEF DefersHere
      <4>4. QED
        BY <3>2, <3>3, <4>2, <4>3
    <3>4. CASE pc = "defer"
      <4>1. deferred \in Seq(Parsed) /\ at \in Nat \ {0}
        BY DEF Control, Walking
      <4>2. Document[i] = deferred[at] /\ at \in DOMAIN deferred
        BY <3>1, <3>4, <4>1 DEF ScriptAt, PassLength
      <4>3. QED
        BY <3>2, <3>4, <4>2
    <3>5. QED
      BY <2>3, <3>3, <3>4
  <2>4. QED
    BY <1>1, <2>2, <2>3
<1>9. AsyncOnce'
  <2> SUFFICES ASSUME NEW s \in Past', s \in Parsed, kind[s] = "async"
               PROVE  fetch[s] # "waiting"
    BY <1>3 DEF AsyncOnce
  <2>1. CASE s \in Past
    BY <2>1 DEF Marching, AsyncOnce
  <2>2. CASE s = call.script
    <3>1. s \notin Events
      BY KeptType, ScriptsAssumption
    <3>2. QED
      BY <2>2, <3>1, WhoseCode
  <2>3. QED
    BY <1>1, <2>1, <2>2
<1>10. QED
  BY <1>5, <1>6, <1>7, <1>8, <1>9 DEF Marching

LEMMA PlaceOfDeferred ==
    ASSUME deferred \in Seq(Parsed)
    PROVE  \A k \in DOMAIN deferred : deferred[k] \in Parsed /\ Order!Position(deferred[k]) \in Nat
<1>1. ASSUME NEW s \in Parsed PROVE Order!Position(s) \in Nat
  <2>1. PICK i \in DOMAIN Document : Document[i] = s
    BY ShapeOfDocument
  <2>2. i \in Nat
    BY ShapeOfDocument
  <2>3. QED
    BY <2>1, <2>2, PlaceOf
<1>2. QED
  BY <1>1

LEMMA ReturnMarching ==
    ASSUME Types, Control, Marching, call # NoCall, UNCHANGED <<kind, fetch, deferred>>, ran' = ran,
           Returns \/ Escapes
    PROVE  Marching'
<1>1. Past' = Past
  BY PastStays
<1>2. OneCall(call)
  BY CallIs
<1>3. call' = NoCall /\ call'.by = "none"
  BY <1>2, ReturnsWhere DEF Escapes, NoCall
<1>4. AsyncOnce'
  BY <1>1, <1>3 DEF Marching, AsyncOnce
<1>5. at \in Nat
  BY DEF Control, Walking
<1>6. CASE Returns /\ call.by = "task"
  <2>1. UNCHANGED <<pc, at, wait>>
    BY <1>2, <1>6, ReturnsWhere
  <2>2. ~Underway
    BY <1>6 DEF Underway
  <2>3. AtPlace'
    BY <1>3, <2>1 DEF Marching, AtPlace, PassLength, ScriptAt, DefersHere
  <2>4. PutOff'
    BY <2>1 DEF Marching, PutOff
  <2>5. EventsToCome' /\ ScriptsToCome'
    BY <1>1, <2>1, <2>2 DEF Marching, EventsToCome, ScriptsToCome, Reached
  <2>6. QED
    BY <1>4, <2>3, <2>4, <2>5 DEF Marching
<1>7. CASE Returns /\ call.by = "pipeline" /\ pc \notin Events
  <2>1. at' = at + 1 /\ UNCHANGED <<pc, wait>>
    BY <1>2, <1>7, ReturnsWhere
  <2>2. pc \in {"parse", "defer"} /\ wait = "no"
    BY <1>2, <1>7 DEF OneCall
  <2>3. AtPlace'
    BY <1>3, <2>1, <2>2 DEF AtPlace
  <2>4. PutOff'
    <3>1. \A k \in DOMAIN deferred : Order!Position(deferred[k]) \in Nat
      BY PlaceOfDeferred DEF Control, Walking
    <3>2. QED
      BY <1>5, <2>1, <3>1 DEF Marching, PutOff
  <2>5. EventsToCome'
    BY <1>1, <2>1, <2>2 DEF Marching, EventsToCome, Events
  <2>6. \A k \in Nat : Reached(k) => Reached(k)'
    BY <1>5, <2>1 DEF Reached
  <2>7. ScriptsToCome'
    <3>1. DOMAIN Document \subseteq Nat /\ DOMAIN deferred \subseteq Nat
      BY ShapeOfDocument DEF Control, Walking
    <3>2. QED
      BY <1>1, <2>1, <2>6, <3>1 DEF Marching, ScriptsToCome
  <2>8. QED
    BY <1>4, <2>3, <2>4, <2>5, <2>7 DEF Marching
<1>8. CASE Returns /\ call.by = "pipeline" /\ pc \in Events
  <2>1. call.script = pc
    BY <1>2, <1>8 DEF OneCall, Events
  <2>2. /\ at' = at
        /\ \/ pc = "DOMContentLoaded" /\ pc' = "hold"
           \/ pc = "DOMContentLoaded" /\ pc' = "load"
           \/ pc = "load" /\ pc' = "ready"
    BY <1>2, <1>8, <2>1, ReturnsWhere, ScriptsAssumption
  <2>3. AtPlace' /\ ScriptsToCome'
    BY <2>2 DEF AtPlace, ScriptsToCome
  <2>4. PutOff'
    BY <2>2 DEF Marching, PutOff
  <2>5. EventsToCome'
    BY <1>1, <2>2 DEF Marching, EventsToCome, Events
  <2>6. QED
    BY <1>4, <2>3, <2>4, <2>5 DEF Marching
<1>9. CASE Escapes
  <2>1. at' = at /\ pc' \in {"returned", "aborted"}
    BY <1>9 DEF Escapes
  <2>2. AtPlace' /\ EventsToCome' /\ ScriptsToCome'
    BY <2>1 DEF AtPlace, EventsToCome, ScriptsToCome, Events
  <2>3. PutOff'
    BY <2>1 DEF Marching, PutOff
  <2>4. QED
    BY <1>4, <2>2, <2>3 DEF Marching
<1>10. QED
  BY <1>2, <1>6, <1>7, <1>8, <1>9 DEF OneCall

\* A step of the pass: nothing of its own has run since it came to its place.
LEMMA PassStepMarching == Types /\ Control /\ Marching /\ PassStep => Marching'
<1> SUFFICES ASSUME Types, Control, Marching, PassStep PROVE Marching'
  OBVIOUS
<1> DEFINE s == ScriptAt
<1>1. /\ pc \in {"parse", "defer"} /\ pc' = pc /\ wait = "no" /\ call = NoCall
      /\ at <= PassLength /\ UNCHANGED <<kind, fetch, ran>>
      /\ pc \notin Events /\ call.by = "none" /\ ~Underway
  BY DEF PassStep, Quiet, setVars, Events, NoCall, Underway
<1>2. \/ at' = at + 1 /\ UNCHANGED <<wait, call, deferred>>
      \/ /\ at' = at + 1 /\ UNCHANGED <<wait, call>>
         /\ deferred' = Append(deferred, s) /\ DefersHere(s)
      \/ /\ UNCHANGED <<at, deferred>> /\ kind[s] # "async" /\ ~DefersHere(s)
         /\ (wait' = "enter" /\ call' = call) \/ (StartCall(s) /\ wait' = wait)
  BY DEF PassStep
<1>3. Past' = Past
  BY <1>1, PastStays
<1>4. at \in Nat /\ at > 0 /\ deferred \in Seq(Parsed) /\ s \in Parsed
  BY <1>1, ScriptOfPass DEF Control, Walking
<1>5. call'.by # "task" /\ ~Underway' /\ (call'.by = "pipeline" => call'.script = s)
  BY <1>1, <1>2 DEF Underway, StartCall
<1>6. AsyncOnce'
  BY <1>1, <1>3, <1>5 DEF Marching, AsyncOnce
<1>7. EventsToCome'
  BY <1>1, <1>3 DEF Marching, EventsToCome, Events
<1>8. AtPlace'
  <2>1. CASE at' = at + 1 /\ UNCHANGED <<wait, call>>
    BY <1>1, <2>1 DEF AtPlace
  <2>2. CASE UNCHANGED <<at, deferred>> /\ kind[s] # "async" /\ ~DefersHere(s)
    <3>1. ScriptAt' = s /\ PassLength' = PassLength /\ (DefersHere(s)' <=> DefersHere(s))
      BY <1>1, <2>2 DEF ScriptAt, PassLength, DefersHere
    <3>2. kind'[ScriptAt'] # "async" /\ ~DefersHere(ScriptAt)' /\ at' <= PassLength'
      BY <1>1, <2>2, <3>1 DEF DefersHere
    <3>3. QED
      BY <1>5, <3>1, <3>2 DEF AtPlace
  <2>3. QED
    BY <1>2, <2>1, <2>2
<1>9. \A k \in DOMAIN deferred : Order!Position(deferred[k]) \in Nat
  BY <1>4, PlaceOfDeferred
<1>10. CASE deferred' = deferred
  <2>1. at' \in {at, at + 1}
    BY <1>2
  <2>2. PutOff'
    BY <1>1, <1>4, <1>9, <1>10, <2>1 DEF Marching, PutOff
  <2>3. \A k \in Nat : Reached(k) => Reached(k)'
    BY <1>1, <1>4, <2>1 DEF Reached
  <2>4. DOMAIN Document \subseteq Nat /\ DOMAIN deferred \subseteq Nat
    BY <1>4, ShapeOfDocument
  <2>5. ScriptsToCome'
    BY <1>1, <1>3, <1>10, <2>3, <2>4 DEF Marching, ScriptsToCome
  <2>6. QED
    BY <1>6, <1>7, <1>8, <2>2, <2>5 DEF Marching
<1>11. CASE at' = at + 1 /\ deferred' = Append(deferred, s) /\ DefersHere(s)
  <2>1. pc = "parse" /\ kind[s] \in {"defer", "module"} /\ s = Document[at] /\ at \in DOMAIN Document
    BY <1>1, <1>4, <1>11, ShapeOfDocument DEF DefersHere, ScriptAt, PassLength
  <2>2. Order!Position(s) = at
    BY <2>1, PlaceOf
  <2>3. /\ DOMAIN deferred = 1 .. Len(deferred) /\ Len(deferred) \in Nat
        /\ DOMAIN deferred' = DOMAIN deferred \cup {Len(deferred) + 1}
        /\ deferred'[Len(deferred) + 1] = s
        /\ \A k \in DOMAIN deferred : deferred'[k] = deferred[k]
    BY <1>4, <1>11, AppendFacts
  <2>4. \A k \in DOMAIN deferred : /\ kind[deferred[k]] \in {"defer", "module"}
                                   /\ Order!Position(deferred[k]) < at
    BY <2>1 DEF Marching, PutOff
  <2>5. ASSUME NEW k \in DOMAIN deferred' PROVE Order!Position(deferred'[k]) < at' /\ kind'[deferred'[k]] \in {"defer", "module"}
    BY <1>1, <1>4, <1>9, <1>11, <2>1, <2>2, <2>3, <2>4
  <2>6. ASSUME NEW j \in DOMAIN deferred', NEW k \in DOMAIN deferred', j < k
        PROVE  Order!Position(deferred'[j]) < Order!Position(deferred'[k])
    <3>1. j \in DOMAIN deferred
      BY <2>3, <2>6
    <3>2. CASE k \in DOMAIN deferred
      BY <2>3, <2>6, <3>1, <3>2 DEF Marching, PutOff
    <3>3. CASE k = Len(deferred) + 1
      BY <2>2, <2>3, <2>4, <3>1, <3>3
    <3>4. QED
      BY <2>3, <3>2, <3>3
  <2>7. PutOff'
    BY <2>5, <2>6 DEF PutOff
  <2>8. \A k \in Nat : Reached(k) => Reached(k)'
    BY <1>1, <1>4, <1>11 DEF Reached
  <2>9. ScriptsToCome'
    BY <1>1, <1>3, <2>1, <2>8, ShapeOfDocument DEF Marching, ScriptsToCome
  <2>10. QED
    BY <1>6, <1>7, <1>8, <2>7, <2>9 DEF Marching
<1>12. QED
  BY <1>2, <1>10, <1>11

LEMMA PassEndsMarching == Types /\ Control /\ Marching /\ PassEnds => Marching'
<1> SUFFICES ASSUME Types, Control, Marching, PassEnds PROVE Marching'
  OBVIOUS
<1>1. /\ \/ pc = "parse" /\ pc' = "defer"
         \/ pc = "defer" /\ pc' = "DOMContentLoaded"
      /\ wait' = "no" /\ call = NoCall /\ call' = NoCall
      /\ UNCHANGED <<kind, fetch, deferred, ran>>
  BY DEF PassEnds, Quiet, setVars
<1>2. Past' = Past
  BY <1>1, PastStays
<1>3. AtPlace' /\ AsyncOnce'
  BY <1>1, <1>2 DEF AtPlace, Marching, AsyncOnce, NoCall
<1>4. PutOff'
  BY <1>1 DEF Marching, PutOff
<1>5. EventsToCome'
  BY <1>1, <1>2 DEF Marching, EventsToCome, Events
<1>6. ScriptsToCome'
  BY <1>1, <1>2 DEF Marching, ScriptsToCome
<1>7. QED
  BY <1>3, <1>4, <1>5, <1>6 DEF Marching

LEMMA FireMarching == Types /\ Control /\ Marching /\ FireLifecycleEvent => Marching'
<1> SUFFICES ASSUME Types, Control, Marching, FireLifecycleEvent PROVE Marching'
  OBVIOUS
<1>1. /\ pc \in Events /\ call = NoCall /\ call'.by = "pipeline"
      /\ UNCHANGED <<kind, fetch, pc, at, deferred, wait, ran>>
  BY DEF FireLifecycleEvent, Quiet, setVars
<1>2. Past' = Past /\ ~Underway
  BY <1>1, PastStays DEF Underway, NoCall
<1>3. AtPlace' /\ AsyncOnce'
  BY <1>1, <1>2 DEF AtPlace, Marching, AsyncOnce, Events
<1>4. PutOff'
  BY <1>1 DEF Marching, PutOff
<1>5. EventsToCome' /\ ScriptsToCome'
  BY <1>1, <1>2 DEF Marching, EventsToCome, ScriptsToCome, Events
<1>6. QED
  BY <1>3, <1>4, <1>5 DEF Marching

LEMMA WaitMarching == Types /\ Control /\ Marching /\ (WaitCheckpoint \/ WaitLeaves) => Marching'
<1> SUFFICES ASSUME Types, Control, Marching, WaitCheckpoint \/ WaitLeaves PROVE Marching'
  OBVIOUS
<1>1. /\ wait # "no" /\ call = NoCall /\ UNCHANGED <<kind, fetch, deferred, ran>>
      /\ WaitEnds \/ (wait' = "pump" /\ UNCHANGED <<pc, at, call>>)
  BY DEF WaitCheckpoint, WaitLeaves, Quiet, setVars
<1>2. Past' = Past /\ ~Underway
  BY <1>1, PastStays DEF Underway, NoCall
<1>3. at \in Nat /\ deferred \in Seq(Parsed)
  BY DEF Control, Walking
<1>4. \A k \in DOMAIN deferred : Order!Position(deferred[k]) \in Nat
  BY <1>3, PlaceOfDeferred
<1>5. DOMAIN Document \subseteq Nat /\ DOMAIN deferred \subseteq Nat
  BY <1>3, ShapeOfDocument
<1>6. CASE wait' = "pump" /\ UNCHANGED <<pc, at, call>>
  <2>1. AtPlace'
    BY <1>1, <1>6 DEF Marching, AtPlace, PassLength, ScriptAt, DefersHere
  <2>2. PutOff'
    BY <1>1, <1>6 DEF Marching, PutOff
  <2>3. EventsToCome' /\ ScriptsToCome' /\ AsyncOnce'
    BY <1>1, <1>2, <1>6 DEF Marching, EventsToCome, ScriptsToCome, AsyncOnce, Reached
  <2>4. QED
    BY <2>1, <2>2, <2>3 DEF Marching
<1>7. CASE WaitEnds /\ pc \in {"parse", "defer"}
  <2>1. /\ wait' = "no" /\ pc' = pc
        /\ \/ StartCall(ScriptAt) /\ at' = at
           \/ at' = at + 1 /\ call' = call
    BY <1>7 DEF WaitEnds
  <2>2. at <= PassLength /\ kind[ScriptAt] # "async" /\ ~DefersHere(ScriptAt)
    BY <1>1, <1>7 DEF Marching, AtPlace
  <2>3. call'.by # "task" /\ (call'.by = "pipeline" => call'.script = ScriptAt /\ at' = at)
    BY <1>1, <2>1 DEF StartCall, NoCall
  <2>4. AtPlace'
    <3>1. at' = at => ScriptAt' = ScriptAt /\ PassLength' = PassLength
      BY <1>1, <2>1 DEF ScriptAt, PassLength
    <3>2. at' = at => kind'[ScriptAt'] # "async" /\ ~DefersHere(ScriptAt)' /\ at' <= PassLength'
      BY <1>1, <2>1, <2>2, <3>1 DEF DefersHere
    <3>3. QED
      BY <2>1, <2>3, <3>1, <3>2 DEF AtPlace
  <2>5. PutOff'
    BY <1>1, <1>3, <1>4, <2>1 DEF Marching, PutOff
  <2>6. \A k \in Nat : Reached(k) => Reached(k)'
    BY <1>2, <1>3, <2>1 DEF Reached
  <2>7. ScriptsToCome'
    BY <1>1, <1>2, <1>5, <2>1, <2>6 DEF Marching, ScriptsToCome
  <2>8. EventsToCome' /\ AsyncOnce'
    BY <1>1, <1>2, <1>7, <2>1, <2>3 DEF Marching, EventsToCome, AsyncOnce, Events
  <2>9. QED
    BY <2>4, <2>5, <2>7, <2>8 DEF Marching
<1>8. CASE WaitEnds /\ pc \notin {"parse", "defer"}
  <2>1. /\ UNCHANGED <<at, call>>
        /\ \/ pc' = pc
           \/ pc = "hold" /\ pc' = "load"
           \/ pc' = "returned"
    BY <1>8 DEF WaitEnds
  <2>2. pc \notin Events
    BY <1>1 DEF Control, Walking
  <2>3. AtPlace' /\ ScriptsToCome'
    BY <1>8, <2>1 DEF AtPlace, ScriptsToCome
  <2>4. PutOff'
    BY <1>1, <1>8, <2>1 DEF Marching, PutOff
  <2>5. EventsToCome' /\ AsyncOnce'
    BY <1>1, <1>2, <1>8, <2>1, <2>2 DEF Marching, EventsToCome, AsyncOnce, Events
  <2>6. QED
    BY <2>3, <2>4, <2>5 DEF Marching
<1>9. QED
  BY <1>1, <1>6, <1>7, <1>8

\* A task never starts a script of the page twice: it comes of a load that has
\* not landed before.
LEMMA RunTaskMarching ==
    ASSUME Types, Places, Control, Marching, NEW ok \in BOOLEAN, RunTask(ok)
    PROVE  Marching'
<1>0. PICK l \in What : l = Head(tasks).what
  BY TaskHead DEF RunTask
<1>1. /\ wait = "pump" /\ wait' = "after" /\ call = NoCall
      /\ UNCHANGED <<kind, pc, at, deferred>> /\ (ran' = ran \/ (ran' = Append(ran, l) /\ l.by # "page"))
  BY <1>0 DEF RunTask, Quiet
<1>2. /\ \/ /\ l.by = "page" /\ l.script \in Slots /\ fetch[l.script] = "waiting"
            /\ fetch' = [fetch EXCEPT ![l.script] = IF ok THEN "ok" ELSE "failed"]
            /\ \/ call' = call
               \/ call' = [script |-> l.script, step |-> "mark", by |-> "task"]
         \/ UNCHANGED <<fetch, call>>
  BY <1>0, RunTaskEffect
<1>3. Past' = Past /\ ~Underway
  BY <1>1, PastStays DEF Underway, NoCall
<1>4. call'.by # "pipeline"
  BY <1>1, <1>2 DEF NoCall
<1>5. AtPlace'
  BY <1>1, <1>4 DEF Marching, AtPlace, PassLength, ScriptAt, DefersHere
<1>6. PutOff'
  BY <1>1 DEF Marching, PutOff
<1>7. EventsToCome' /\ ScriptsToCome'
  BY <1>1, <1>3 DEF Marching, EventsToCome, ScriptsToCome, Reached
<1>8. AsyncOnce'
  <2> SUFFICES ASSUME NEW s \in Past, s \in Parsed, kind[s] = "async"
               PROVE  fetch'[s] # "waiting" /\ ~(call'.by = "task" /\ call'.script = s)
    BY <1>1, <1>3 DEF AsyncOnce
  <2>1. fetch[s] # "waiting" /\ DOMAIN fetch = Parsed
    BY DEF Marching, AsyncOnce, Places
  <2>2. QED
    BY <1>1, <1>2, <2>1 DEF NoCall
<1>9. QED
  BY <1>5, <1>6, <1>7, <1>8 DEF Marching

LEMMA MarchingStep == Types /\ Places /\ Control /\ Marching /\ [Next]_vars => Marching'
<1> SUFFICES ASSUME Types, Places, Control, Marching, [Next]_vars PROVE Marching'
  OBVIOUS
<1>1. CASE JsStep
  <2>1. CASE UNCHANGED <<pc, at, wait, call, ran>> /\ UNCHANGED <<kind, fetch, deferred>>
    BY <2>1, PastStays, StillMarching
  <2>2. QED
    BY <1>1, <2>1, CallMoves, StepMarching, CodeMarching, ReturnMarching
<1>2. ASSUME NEW ok \in BOOLEAN, RunTask(ok) PROVE Marching'
  BY <1>2, RunTaskMarching
<1>3. ASSUME \/ DeadlinePasses \/ UNCHANGED vars
             \/ (\E l \in flying : Land(l)) \/ (\E s \in Scripts : Insert(s))
      PROVE  Marching'
  <2>1. /\ UNCHANGED <<kind, fetch, pc, at, deferred, wait, call>>
        /\ ran' = ran \/ \E s \in Scripts : ran' = Append(ran, Load("shim", s))
    BY <1>3 DEF DeadlinePasses, Land, Insert, vars, setVars, passVars
  <2>2. \A s : Load("shim", s).by # "page"
    BY DEF Load
  <2>3. Past' = Past
    BY <2>1, <2>2, PastStays
  <2>4. QED
    BY <2>1, <2>3, StillMarching
<1>4. QED
  BY <1>1, <1>2, <1>3, OtherSteps, CollectMarching, PassStepMarching, PassEndsMarching,
     FireMarching, WaitMarching

-----------------------------------------------------------------------------
(* Every step is a step of ScriptOrder, or leaves its order alone.           *)

\* The order holds what the page has run.
LEMMA OrderHolds ==
    ASSUME Types, NEW e \in Scripts \cup Events
    PROVE  Order!Ran(e) <=> e \in Past
<1> DEFINE X == {ran[i] : i \in DOMAIN ran}
<1>1. ran \in Seq(X) /\ ToSet(ran) = X
  BY DEF Types, Listing, ToSet
<1>2. PageEntries \in Seq(X) /\ ToSet(PageEntries) = X \cap PageRecords
  BY <1>1, KeptFacts DEF PageEntries
<1>3. ToSet(PageEntries) = {PageEntries[i] : i \in DOMAIN PageEntries}
  BY DEF ToSet
<1>4. Order!Ran(e) <=> \E i \in DOMAIN PageEntries : PageEntries[i].script = e
  BY DEF Order!Ran, PageOrder
<1>5. \A r \in PageRecords : r.script = e <=> r = Load("page", e)
  BY DEF PageRecords, Load
<1>6. Load("page", e) \in PageRecords
  BY DEF PageRecords, Load
<1>7. Order!Ran(e) <=> Load("page", e) \in X
  BY <1>2, <1>3, <1>4, <1>5, <1>6
<1>8. QED
  BY <1>7 DEF Past

LEMMA OrderStays ==
    ASSUME Types, ran' = ran \/ \E l : ran' = Append(ran, l) /\ l.by # "page"
    PROVE  PageOrder' = PageOrder
<1>1. CASE ran' = ran
  BY <1>1 DEF PageOrder, PageEntries, PageRecords
<1>2. ASSUME NEW l, ran' = Append(ran, l), l.by # "page" PROVE PageOrder' = PageOrder
  <2> DEFINE X == {ran[i] : i \in DOMAIN ran} \cup {l}
  <2>1. ran \in Seq(X) /\ l \in X
    <3>1. ran \in Seq({ran[i] : i \in DOMAIN ran})
      BY DEF Types, Listing
    <3>2. QED
      BY <3>1
  <2>2. l \notin PageRecords
    BY <1>2 DEF PageRecords
  <2>3. Kept(ran', PageRecords) = Kept(ran, PageRecords)
    BY <1>2, <2>1, <2>2, KeptAppend
  <2>4. PageEntries' = PageEntries
    BY <2>3 DEF PageEntries, PageRecords
  <2>5. QED
    BY <2>4 DEF PageOrder
<1>3. QED
  BY <1>1, <1>2

LEMMA OrderGrows ==
    ASSUME Types, NEW e \in Scripts \cup Events, ran' = Append(ran, Load("page", e))
    PROVE  PageOrder' = Append(PageOrder, e)
<1> DEFINE l == Load("page", e)
           X == {ran[i] : i \in DOMAIN ran} \cup {l}
<1>1. ran \in Seq(X) /\ l \in X
  <2>1. ran \in Seq({ran[i] : i \in DOMAIN ran})
    BY DEF Types, Listing
  <2>2. QED
    BY <2>1
<1>2. l \in PageRecords /\ l.script = e /\ ran' = Append(ran, l)
  BY DEF PageRecords, Load
<1> HIDE DEF X, l
<1>3. Kept(ran', PageRecords) = Append(Kept(ran, PageRecords), l) /\ Kept(ran, PageRecords) \in Seq(X)
  <2>1. Kept(ran, PageRecords) \in Seq(X)
    BY <1>1, KeptFacts
  <2>2. Kept(Append(ran, l), PageRecords) = Append(Kept(ran, PageRecords), l)
    BY <1>1, <1>2, KeptAppend
  <2>3. QED
    BY <1>2, <2>1, <2>2
<1>4. PageEntries' = Append(PageEntries, l) /\ PageEntries \in Seq(X)
  BY <1>3 DEF PageEntries, PageRecords
<1>5. /\ DOMAIN PageEntries = 1 .. Len(PageEntries) /\ Len(PageEntries) \in Nat
      /\ DOMAIN PageEntries' = 1 .. Len(PageEntries) + 1
      /\ PageEntries'[Len(PageEntries) + 1] = l
      /\ \A i \in DOMAIN PageEntries : PageEntries'[i] = PageEntries[i]
  BY <1>1, <1>4, AppendFacts
<1> DEFINE n == Len(PageEntries)
           Y == {PageEntries[i].script : i \in DOMAIN PageEntries} \cup {e}
<1>6. PageOrder \in Seq(Y) /\ Len(PageOrder) = n /\ e \in Y
  <2>1. PageOrder \in [1 .. n -> Y] /\ n \in Nat
    BY <1>5 DEF PageOrder
  <2> HIDE DEF n, Y
  <2>2. PageOrder \in Seq(Y) /\ Len(PageOrder) = n
    BY <2>1
  <2>3. QED
    BY <2>2 DEF Y
<1>7. PageOrder' = [i \in 1 .. n + 1 |-> IF i = n + 1 THEN e ELSE PageOrder[i]]
  BY <1>2, <1>5 DEF PageOrder
<1> HIDE DEF Y
<1>8. Append(PageOrder, e) = [i \in 1 .. n + 1 |-> IF i = n + 1 THEN e ELSE PageOrder[i]]
  <2> DEFINE q == PageOrder
             a == Append(q, e)
  <2>1. q \in Seq(Y) /\ Len(q) = n /\ n \in Nat /\ e \in Y
    BY <1>5, <1>6
  <2> HIDE DEF q, n
  <2>2. a \in Seq(Y) /\ Len(a) = n + 1 /\ \A i \in 1 .. n + 1 : a[i] = IF i = n + 1 THEN e ELSE q[i]
    BY <2>1
  <2> HIDE DEF a
  <2>3. a = [i \in 1 .. n + 1 |-> IF i = n + 1 THEN e ELSE q[i]]
    <3>1. a = [i \in 1 .. n + 1 |-> a[i]]
      BY <2>2
    <3>2. QED
      BY <2>2, <3>1
  <2>4. QED
    BY <2>3 DEF a, q
<1>9. QED
  BY <1>7, <1>8

\* Whatever code of the page starts, ScriptOrder may run it or fire it now.
LEMMA MayRun ==
    ASSUME Types, Control, Marching, call # NoCall, call.step = "code",
           PageOrder' = Append(PageOrder, call.script)
    PROVE  \/ \E i \in DOMAIN Document : Order!Run(Document[i])
           \/ \E e \in {"DOMContentLoaded", "load"} : Order!Fire(e)
<1> DEFINE s == call.script
<1>1. ~Underway /\ at \in Nat
  BY DEF Underway, Control, Walking
<1>2. \A e \in Scripts \cup Events : Order!Ran(e) <=> e \in Past
  BY OrderHolds
<1>3. "load" \in Events /\ "DOMContentLoaded" \in Events /\ Events = {"DOMContentLoaded", "load"}
  BY DEF Events
<1>4. CASE call.by = "task"
  <2>1. s \in Parsed /\ kind[s] = "async" /\ s \notin Past /\ s \in Scripts
    BY <1>4, WhoseCode, KeptType
  <2>2. PICK i \in DOMAIN Document : Document[i] = s
    BY <2>1, ShapeOfDocument
  <2>3. Order!Run(s)
    BY <1>2, <2>1 DEF Order!Run, Order!InTurn
  <2>4. QED
    BY <2>2, <2>3
<1>5. CASE call.by = "pipeline" /\ pc \in Events
  <2>1. s = pc /\ pc \notin Past
    BY <1>5, WhoseCode
  <2>2. "load" \notin Past
    BY <1>3, <1>5, <2>1 DEF Marching, EventsToCome
  <2>3. Order!Fire(s)
    BY <1>2, <1>3, <1>5, <2>1, <2>2 DEF Order!Fire
  <2>4. QED
    BY <1>3, <1>5, <2>1, <2>3
<1>6. CASE call.by = "pipeline" /\ pc \notin Events
  <2>1. /\ pc \in {"parse", "defer"} /\ at <= PassLength
        /\ s = ScriptAt /\ s \in Parsed /\ s \in Scripts /\ kind[s] # "async" /\ ~DefersHere(s)
    BY <1>6, WhoseCode, KeptType
  <2>2. PICK p \in DOMAIN Document : Document[p] = s
    BY <2>1, ShapeOfDocument
  <2>3. p \in Nat /\ Order!Position(s) = p /\ \A i \in DOMAIN Document : i \in Nat
    BY <2>2, PlaceOf, ShapeOfDocument
  <2>4. ~Order!Fired
    BY <1>2, <1>3, <2>1 DEF Marching, EventsToCome, Order!Fired
  <2>5. CASE pc = "parse"
    <3>1. p = at /\ kind[s] \in {"inline", "sync"}
      <4>1. at \in DOMAIN Document /\ Document[at] = s
        BY <2>1, <2>5, ShapeOfDocument DEF ScriptAt, PassLength, Control, Walking
      <4>2. kind[s] \in {"inline", "sync"}
        BY <2>1, <2>5, ParserKind DEF DefersHere
      <4>3. QED
        BY <2>2, <4>1, <4>2, ScriptsAssumption
    <3>2. ASSUME NEW i \in DOMAIN Document, Document[i] \in Past, kind[Document[i]] # "async"
          PROVE  kind[Document[i]] \in {"inline", "sync"} /\ i < p
      BY <1>1, <2>5, <3>1, <3>2 DEF Marching, ScriptsToCome, Reached
    <3>3. s \notin Past
      BY <2>1, <2>2, <2>3, <3>2
    <3>4. ASSUME NEW i \in DOMAIN Document, Order!Ran(Document[i])
          PROVE  kind[Document[i]] = "async" \/ (Order!InPhase(Document[i], Order!Parsing) /\ i < Order!Position(s))
      BY <1>2, <2>3, <3>2, <3>4, ShapeOfDocument DEF Order!InPhase, Order!Parsing
    <3>5. Order!InTurn(s)
      BY <2>4, <3>4 DEF Order!InTurn
    <3>6. Order!Run(s)
      BY <1>2, <2>1, <3>3, <3>5 DEF Order!Run
    <3>7. QED
      BY <2>2, <3>6
  <2>6. CASE pc = "defer"
    <3>1. deferred \in Seq(Parsed) /\ DOMAIN deferred \subseteq Nat
      BY DEF Control, Walking
    <3>2. at \in DOMAIN deferred /\ deferred[at] = s
      BY <2>1, <2>6 DEF ScriptAt, PassLength, Control, Walking
    <3>3. kind[s] \in {"defer", "module"}
      BY <3>2 DEF Marching, PutOff
    <3>4. ASSUME NEW i \in DOMAIN Document, Document[i] \in Past, kind[Document[i]] # "async"
          PROVE  \/ kind[Document[i]] \in {"inline", "sync"}
                 \/ kind[Document[i]] \in {"defer", "module"} /\ i < p
      <4>1. ASSUME NEW k \in DOMAIN deferred, deferred[k] = Document[i], Reached(k)
            PROVE  kind[Document[i]] \in {"defer", "module"} /\ i < p
        <5>1. k < at /\ kind[deferred[k]] \in {"defer", "module"}
          BY <1>1, <4>1 DEF Reached, Marching, PutOff
        <5>2. Order!Position(deferred[k]) < Order!Position(deferred[at])
          BY <3>2, <5>1 DEF Marching, PutOff
        <5>3. Order!Position(Document[i]) = i
          BY PlaceOf
        <5>4. QED
          BY <2>3, <3>2, <4>1, <5>1, <5>2, <5>3
      <4>2. QED
        BY <2>6, <3>4, <4>1 DEF Marching, ScriptsToCome
    <3>5. s \notin Past
      BY <2>1, <2>2, <2>3, <3>3, <3>4
    <3>6. ASSUME NEW i \in DOMAIN Document, Order!Ran(Document[i])
          PROVE  \/ kind[Document[i]] = "async"
                 \/ Order!InPhase(Document[i], Order!Parsing) /\ Order!InPhase(s, Order!Deferred)
                 \/ Order!InPhase(Document[i], Order!Deferred) /\ Order!InPhase(s, Order!Deferred) /\ i < Order!Position(s)
      BY <1>2, <2>3, <3>3, <3>4, <3>6, ShapeOfDocument DEF Order!InPhase, Order!Parsing, Order!Deferred
    <3>7. Order!InTurn(s)
      BY <2>4, <3>6 DEF Order!InTurn
    <3>8. Order!Run(s)
      BY <1>2, <2>1, <3>5, <3>7 DEF Order!Run
    <3>9. QED
      BY <2>2, <3>8
  <2>7. QED
    BY <2>1, <2>5, <2>6
<1>7. QED
  BY <1>4, <1>5, <1>6, WhoseCode

\* Only the call of the page adds to what the page has run.
LEMMA OrderMoves ==
    ASSUME Types, Places, Control, [Next]_vars
    PROVE  /\ kind' = kind
           /\ \/ ran' = ran \/ \E l : ran' = Append(ran, l) /\ l.by # "page"
              \/ call # NoCall /\ call.step = "code" /\ ran' = Append(ran, Load("page", call.script))
<1>1. \A s : Load("shim", s).by # "page"
  BY DEF Load
<1>2. CASE JsStep
  <2>1. CASE UNCHANGED <<pc, at, wait, call, ran>>
    BY <1>2, <2>1, CallMoves
  <2>2. QED
    BY <1>2, <2>1, CallMoves
<1>3. CASE Collect
  BY <1>3 DEF Collect
<1>4. ASSUME NEW s \in Scripts, Insert(s) PROVE kind' = kind /\ (ran' = ran \/ ran' = Append(ran, Load("shim", s)))
  BY <1>4 DEF Insert
<1>5. ASSUME NEW ok \in BOOLEAN, RunTask(ok)
      PROVE  kind' = kind /\ (ran' = ran \/ \E l : ran' = Append(ran, l) /\ l.by # "page")
  BY <1>5 DEF RunTask
<1>6. ASSUME \/ DeadlinePasses \/ PassStep \/ PassEnds \/ FireLifecycleEvent
             \/ WaitCheckpoint \/ WaitLeaves \/ UNCHANGED vars \/ (\E l \in flying : Land(l))
      PROVE  kind' = kind /\ ran' = ran
  <2>1. ASSUME DeadlinePasses \/ PassStep \/ PassEnds \/ FireLifecycleEvent PROVE kind' = kind /\ ran' = ran
    BY <2>1 DEF DeadlinePasses, PassStep, PassEnds, FireLifecycleEvent, setVars
  <2>2. ASSUME WaitCheckpoint \/ WaitLeaves \/ UNCHANGED vars \/ (\E l \in flying : Land(l)) PROVE kind' = kind /\ ran' = ran
    BY <2>2 DEF WaitCheckpoint, WaitLeaves, Land, vars, setVars
  <2>3. QED
    BY <1>6, <2>1, <2>2
<1>7. QED
  BY <1>1, <1>2, <1>3, <1>4, <1>5, <1>6, OtherSteps

LEMMA OrderStep == HoldsInv /\ Marching /\ [Next]_vars => [Order!Next]_<<kind, PageOrder>>
<1> SUFFICES ASSUME HoldsInv, Marching, [Next]_vars PROVE [Order!Next]_<<kind, PageOrder>>
  OBVIOUS
<1>1. Types /\ Places /\ Control
  BY DEF HoldsInv
<1>2. CASE ran' = ran \/ \E l : ran' = Append(ran, l) /\ l.by # "page"
  <2>1. PageOrder' = PageOrder /\ kind' = kind
    BY <1>1, <1>2, OrderStays, OrderMoves
  <2>2. QED
    BY <2>1
<1>3. CASE call # NoCall /\ call.step = "code" /\ ran' = Append(ran, Load("page", call.script))
  <2>1. call.script \in Scripts \cup Events
    BY <1>1, <1>3, WhoseCode
  <2>2. PageOrder' = Append(PageOrder, call.script)
    BY <1>1, <1>3, <2>1, OrderGrows
  <2>3. \/ \E i \in DOMAIN Document : Order!Run(Document[i])
        \/ \E e \in {"DOMContentLoaded", "load"} : Order!Fire(e)
    BY <1>1, <1>3, <2>2, MayRun
  <2>4. kind' = kind
    BY <1>1, OrderMoves
  <2>5. QED
    BY <2>3, <2>4 DEF Order!Next
<1>4. QED
  BY <1>1, <1>2, <1>3, OrderMoves

LEMMA OrderInit == Init => Order!Init
<1> SUFFICES ASSUME Init PROVE PageOrder = <<>>
  BY DEF Order!Init
<1>1. ran = <<>>
  BY DEF Init
<1>2. PageEntries = <<>>
  <2>1. \A X : <<>> \in Seq(X)
    OBVIOUS
  <2>2. <<>> \in Seq({1}) /\ 1 \in {1}
    BY <2>1
  <2>3. Kept(<<>>, PageRecords) = <<>>
    BY <2>2, KeptAppend
  <2>4. QED
    BY <1>1, <2>3 DEF PageEntries
<1>3. QED
  BY <1>2 DEF PageOrder

\* The page's scripts always run in the documented order, inline and sync ones
\* in document order, then defer and module ones, then DOMContentLoaded and
\* load, each at most once, whatever lands, fails, throws, is cut or is inserted
\* while execute_scripts pumps the loop: every step of the pipeline is a step of
\* ScriptOrder or leaves its order alone.
THEOREM PipelineKeepsOrder == Spec => OrderSpec
<1>1. Init => HoldsInv /\ Marching /\ Order!Init
  BY HoldsInit, MarchingInit, OrderInit
<1>2. HoldsInv /\ Marching /\ [Next]_vars => (HoldsInv /\ Marching)' /\ [Order!Next]_<<kind, PageOrder>>
  BY HoldsStep, MarchingStep, OrderStep DEF HoldsInv
<1>3. QED
  BY <1>1, <1>2, PTL DEF Spec, OrderSpec, Order!Spec
=============================================================================
