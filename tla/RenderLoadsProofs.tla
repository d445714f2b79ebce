-------------------------- MODULE RenderLoadsProofs --------------------------
(***************************************************************************)
(* Theorems about RenderLoads, for any documents, answers, budgets and     *)
(* cache size.                                                             *)
(***************************************************************************)
EXTENDS RenderLoads, FiniteSetTheorems, InductionLemmas, TLAPS

-----------------------------------------------------------------------------
(* Lists of requests, and the lists of indices the layers work with.       *)

LEMMA ListFacts ==
  ASSUME NEW s, IsList(s)
  PROVE  /\ Len(s) \in Nat /\ DOMAIN s = 1..Len(s)
         /\ ToSet(s) = {s[i] : i \in DOMAIN s}
BY DEF IsList, ToSet

LEMMA MappedIsList ==
  ASSUME NEW n \in Nat, NEW f, f = [i \in 1..n |-> f[i]]
  PROVE  IsList(f) /\ Len(f) = n /\ DOMAIN f = 1..n
<1>1. DOMAIN f = 1..n
  OBVIOUS
<1>2. f \in Seq({f[i] : i \in 1..n}) /\ Len(f) = n
  <2>1. \A i \in 1..n : f[i] \in {f[j] : j \in 1..n}
    OBVIOUS
  <2>2. QED
    BY <1>1, <2>1
<1>3. QED
  BY <1>1, <1>2 DEF IsList, ToSet

\* The picked indices, rising, each once, no more than their bound.
Rising(ix, picked) ==
  /\ Len(ix) \in Nat /\ DOMAIN ix = 1..Len(ix)
  /\ \A p \in DOMAIN ix : ix[p] \in picked
  /\ \A i \in picked : \E p \in DOMAIN ix : ix[p] = i
  /\ \A p, q \in DOMAIN ix : p < q => ix[p] < ix[q]

LEMMA IndicesRise ==
  ASSUME NEW s, IsList(s), NEW picked \in SUBSET DOMAIN s
  PROVE  Rising(Indices(s, picked), picked)
<1> DEFINE id == [i \in DOMAIN s |-> i]
           ix == Indices(s, picked)
<1>1. Len(s) \in Nat /\ DOMAIN s = 1..Len(s)
  BY ListFacts
<1>2. id \in Seq(1..Len(s)) /\ DOMAIN id = DOMAIN s /\ ToSet(id) = DOMAIN s
  <2>1. id \in Seq(1..Len(s)) /\ DOMAIN id = DOMAIN s
    BY <1>1
  <2>2. QED
    BY <2>1 DEF ToSet
<1>3. ix = Kept(id, picked)
  BY DEF Indices
<1>4. ix \in Seq(1..Len(s)) /\ Part(ix, id) /\ ToSet(ix) = picked
  <2> HIDE DEF id, ix
  <2>1. Kept(id, picked) \in Seq(1..Len(s)) /\ Part(Kept(id, picked), id)
        /\ ToSet(Kept(id, picked)) = ToSet(id) \cap picked
    BY <1>2, KeptFacts
  <2>2. QED
    BY <1>2, <1>3, <2>1
<1>5. PICK e \in [DOMAIN ix -> DOMAIN id] : IsPart(ix, id, e)
  BY <1>4 DEF Part
<1>6. /\ \A p \in DOMAIN ix : e[p] \in DOMAIN s /\ ix[p] = id[e[p]]
      /\ \A p, q \in DOMAIN ix : p < q => e[p] < e[q]
  <2> HIDE DEF ix, id
  <2>1. QED
    BY <1>2, <1>5 DEF IsPart
<1>7. \A p \in DOMAIN ix : ix[p] = e[p]
  <2> HIDE DEF ix
  <2>1. QED
    BY <1>6
<1> HIDE DEF ix, id
<1>8. \A p, q \in DOMAIN ix : p < q => ix[p] < ix[q]
  BY <1>6, <1>7
<1>9. Len(ix) \in Nat /\ DOMAIN ix = 1..Len(ix)
  BY <1>4
<1>10. Rising(ix, picked)
  BY <1>4, <1>8, <1>9 DEF Rising, ToSet
<1>11. QED
  BY <1>10 DEF ix

LEMMA RisingIsOnce ==
  ASSUME NEW ix, NEW picked \in SUBSET Nat, Rising(ix, picked), NEW p \in DOMAIN ix, NEW q \in DOMAIN ix,
         ix[p] = ix[q]
  PROVE  p = q
<1>0. ix[p] \in picked /\ p \in Nat /\ q \in Nat
  BY DEF Rising
<1>1. p \in Nat /\ q \in Nat /\ ix[p] \in Nat
  BY <1>0
<1>2. ~(p < q) /\ ~(q < p)
  BY <1>1 DEF Rising
<1>3. QED
  BY <1>1, <1>2

LEMMA RisingIsBounded ==
  ASSUME NEW ix, NEW b \in Nat, NEW picked \in SUBSET (1..b), Rising(ix, picked)
  PROVE  Len(ix) <= b
<1> DEFINE e == [p \in 1..Len(ix) |-> ix[p]]
<1>2. e \in [1..Len(ix) -> 1..b] /\ \A i, j \in 1..Len(ix) : i < j => e[i] < e[j]
  BY DEF Rising
<1>3. IsFiniteSet(1..b) /\ Cardinality(1..b) = b /\ Cardinality(1..Len(ix)) = Len(ix)
  <2>1. Len(ix) \in Nat
    BY DEF Rising
  <2>2. \A n \in Nat : IsFiniteSet(1..n) /\ Cardinality(1..n) = n
    BY FS_Interval
  <2>3. QED
    BY <2>1, <2>2
<1>4. 1..Len(ix) \in SUBSET Nat /\ 1..b \in SUBSET Nat
  OBVIOUS
<1> HIDE DEF e
<1>5. Cardinality(1..Len(ix)) <= Cardinality(1..b)
  BY <1>2, <1>3, <1>4, IncreasingCount
<1>6. QED
  BY <1>3, <1>5

\* Where a layer's answers come to lie.
LEMMA PlacedFacts ==
  ASSUME NEW reqs, NEW ix, NEW picked \in SUBSET DOMAIN reqs, Rising(ix, picked), NEW answers
  PROVE  /\ DOMAIN Placed(reqs, ix, answers) = DOMAIN reqs
         /\ \A i \in DOMAIN reqs \ picked : Placed(reqs, ix, answers)[i] = Placeholder(reqs[i])
         /\ \A i \in picked : \E p \in DOMAIN ix :
              ix[p] = i /\ Placed(reqs, ix, answers)[i] = answers[p]
<1>1. ToSet(ix) = picked
  BY DEF Rising, ToSet
<1>2. ASSUME NEW i \in picked
      PROVE  \E p \in DOMAIN ix : ix[p] = i /\ Placed(reqs, ix, answers)[i] = answers[p]
  <2> DEFINE p == CHOOSE k \in DOMAIN ix : ix[k] = i
  <2>1. p \in DOMAIN ix /\ ix[p] = i
    BY DEF Rising
  <2>2. Placed(reqs, ix, answers)[i] = answers[p]
    BY <1>1 DEF Placed
  <2>3. QED
    BY <2>1, <2>2
<1>3. QED
  BY <1>1, <1>2 DEF Placed

-----------------------------------------------------------------------------
(* The steps of the loops.                                                 *)

\* A hit after the other.
LEMMA TouchedInSteps ==
  ASSUME NEW c, NEW keys, Len(keys) \in Nat
  PROVE  \E f : /\ f[0] = c /\ Touched(c, keys) = f[Len(keys)]
               /\ \A n \in 1..Len(keys) : f[n] = Touch(f[n - 1], keys[n])
<1> DEFINE Step(f, n) == IF n = 0 THEN c ELSE Touch(f[n - 1], keys[n])
           Runs(f, m) == f = [n \in 0..m |-> Step(f, n)]
           Known == {m \in Nat : \E f : Runs(f, m)}
<1>1. 0 \in Known
  <2> DEFINE f == [n \in 0..0 |-> c]
  <2>1. f = [n \in 0..0 |-> Step(f, n)]
    OBVIOUS
  <2>2. QED
    BY <2>1
<1>2. ASSUME NEW m \in Known PROVE m + 1 \in Known
  <2>1. PICK f : Runs(f, m)
    OBVIOUS
  <2> DEFINE g == [n \in 0..(m + 1) |-> IF n = m + 1 THEN Step(f, n) ELSE f[n]]
  <2>2. ASSUME NEW n \in 0..(m + 1) PROVE g[n] = Step(g, n)
    <3>1. CASE n = m + 1
      <4>1. n # 0 /\ g[n - 1] = f[n - 1]
        BY <3>1
      <4>2. QED
        BY <3>1, <4>1
    <3>2. CASE n \in 0..m
      <4>1. f[n] = Step(f, n)
        BY <2>1, <3>2
      <4>2. g[n] = f[n] /\ (n # 0 => g[n - 1] = f[n - 1])
        BY <3>2
      <4>3. QED
        BY <4>1, <4>2
    <3>3. QED
      BY <3>1, <3>2
  <2>3. Runs(g, m + 1)
    BY <2>2
  <2>4. QED
    <3> HIDE DEF g, Runs
    <3>1. m + 1 \in Nat /\ \E e : Runs(e, m + 1)
      BY <2>3
    <3>2. QED
      BY <3>1
<1>3. Len(keys) \in Known
  <2>1. Known \in SUBSET Nat
    OBVIOUS
  <2> HIDE DEF Known
  <2>2. QED
    BY <1>1, <1>2, <2>1, SetInduction
<1> DEFINE run == CHOOSE f : Runs(f, Len(keys))
<1>4. Runs(run, Len(keys))
  BY <1>3
<1>5. Touched(c, keys) = run[Len(keys)]
  BY DEF Touched
<1> HIDE DEF run
<1>6. run[0] = c /\ \A n \in 1..Len(keys) : run[n] = Touch(run[n - 1], keys[n])
  BY <1>4
<1>7. QED
  BY <1>5, <1>6

\* A stored answer after the other.
LEMMA StoredInSteps ==
  ASSUME NEW c, NEW keys, NEW responses, NEW batch, Len(keys) \in Nat
  PROVE  \E f : /\ f[0] = c /\ Stored(c, keys, responses, batch) = f[Len(keys)]
               /\ \A n \in 1..Len(keys) : f[n] = IF Storable(responses[n], batch) THEN Put(f[n - 1], keys[n], responses[n]) ELSE f[n - 1]
<1> DEFINE Step(f, n) == IF n = 0 THEN c ELSE IF Storable(responses[n], batch) THEN Put(f[n - 1], keys[n], responses[n]) ELSE f[n - 1]
           Runs(f, m) == f = [n \in 0..m |-> Step(f, n)]
           Known == {m \in Nat : \E f : Runs(f, m)}
<1>1. 0 \in Known
  <2> DEFINE f == [n \in 0..0 |-> c]
  <2>1. f = [n \in 0..0 |-> Step(f, n)]
    OBVIOUS
  <2>2. QED
    BY <2>1
<1>2. ASSUME NEW m \in Known PROVE m + 1 \in Known
  <2>1. PICK f : Runs(f, m)
    OBVIOUS
  <2> DEFINE g == [n \in 0..(m + 1) |-> IF n = m + 1 THEN Step(f, n) ELSE f[n]]
  <2>2. ASSUME NEW n \in 0..(m + 1) PROVE g[n] = Step(g, n)
    <3>1. CASE n = m + 1
      <4>1. n # 0 /\ g[n - 1] = f[n - 1]
        BY <3>1
      <4>2. QED
        BY <3>1, <4>1
    <3>2. CASE n \in 0..m
      <4>1. f[n] = Step(f, n)
        BY <2>1, <3>2
      <4>2. g[n] = f[n] /\ (n # 0 => g[n - 1] = f[n - 1])
        BY <3>2
      <4>3. QED
        BY <4>1, <4>2
    <3>3. QED
      BY <3>1, <3>2
  <2>3. Runs(g, m + 1)
    BY <2>2
  <2>4. QED
    <3> HIDE DEF g, Runs
    <3>1. m + 1 \in Nat /\ \E e : Runs(e, m + 1)
      BY <2>3
    <3>2. QED
      BY <3>1
<1>3. Len(keys) \in Known
  <2>1. Known \in SUBSET Nat
    OBVIOUS
  <2> HIDE DEF Known
  <2>2. QED
    BY <1>1, <1>2, <2>1, SetInduction
<1> DEFINE run == CHOOSE f : Runs(f, Len(keys))
<1>4. Runs(run, Len(keys))
  BY <1>3
<1>5. Stored(c, keys, responses, batch) = run[Len(keys)]
  BY DEF Stored
<1> HIDE DEF run
<1>6. run[0] = c /\ \A n \in 1..Len(keys) : run[n] = IF Storable(responses[n], batch) THEN Put(run[n - 1], keys[n], responses[n]) ELSE run[n - 1]
  BY <1>4
<1>7. QED
  BY <1>5, <1>6

JarsThen(jars, request, response) ==
  UNION {StoreFromResponse(j, 0, request.url, response.fromCache, response.cookies,
           "same-origin", rebuild.document.base) : j \in jars}
JarsRun(f, sent, responses) ==
  /\ f[0] = {jar} /\ JarsAfter(sent, responses) = f[Len(sent)]
  /\ \A n \in 1..Len(sent) : f[n] = JarsThen(f[n - 1], sent[n], responses[n])

\* The cookies of an answer after those of the other.
LEMMA JarsInSteps ==
  ASSUME NEW sent, NEW responses, Len(sent) \in Nat
  PROVE  \E f : JarsRun(f, sent, responses)
<1> DEFINE Step(f, n) == IF n = 0 THEN {jar} ELSE JarsThen(f[n - 1], sent[n], responses[n])
           Runs(f, m) == f = [n \in 0..m |-> Step(f, n)]
           Known == {m \in Nat : \E f : Runs(f, m)}
<1>1. 0 \in Known
  <2> DEFINE f == [n \in 0..0 |-> {jar}]
  <2>1. f = [n \in 0..0 |-> Step(f, n)]
    OBVIOUS
  <2>2. QED
    BY <2>1
<1>2. ASSUME NEW m \in Known PROVE m + 1 \in Known
  <2>1. PICK f : Runs(f, m)
    OBVIOUS
  <2> DEFINE g == [n \in 0..(m + 1) |-> IF n = m + 1 THEN Step(f, n) ELSE f[n]]
  <2>2. ASSUME NEW n \in 0..(m + 1) PROVE g[n] = Step(g, n)
    <3>1. CASE n = m + 1
      <4>1. n # 0 /\ g[n - 1] = f[n - 1]
        BY <3>1
      <4>2. QED
        BY <3>1, <4>1
    <3>2. CASE n \in 0..m
      <4>1. f[n] = Step(f, n)
        BY <2>1, <3>2
      <4>2. g[n] = f[n] /\ (n # 0 => g[n - 1] = f[n - 1])
        BY <3>2
      <4>3. QED
        BY <4>1, <4>2
    <3>3. QED
      BY <3>1, <3>2
  <2>3. Runs(g, m + 1)
    BY <2>2
  <2>4. QED
    <3> HIDE DEF g, Runs
    <3>1. m + 1 \in Nat /\ \E e : Runs(e, m + 1)
      BY <2>3
    <3>2. QED
      BY <3>1
<1>3. Len(sent) \in Known
  <2>1. Known \in SUBSET Nat
    OBVIOUS
  <2> HIDE DEF Known
  <2>2. QED
    BY <1>1, <1>2, <2>1, SetInduction
<1> DEFINE run == CHOOSE f : Runs(f, Len(sent))
<1>4. Runs(run, Len(sent))
  BY <1>3
<1>5. JarsAfter(sent, responses) = run[Len(sent)]
  BY DEF JarsAfter, JarsThen
<1> HIDE DEF run
<1>6. \A n \in 0..Len(sent) : run[n] = Step(run, n)
  <2> HIDE DEF Step
  <2>1. QED
    BY <1>4
<1>7. run[0] = {jar} /\ \A n \in 1..Len(sent) : run[n] = JarsThen(run[n - 1], sent[n], responses[n])
  BY <1>6
<1>8. JarsRun(run, sent, responses)
  BY <1>5, <1>7 DEF JarsRun
<1>9. QED
  BY <1>8


\* A list after the other.
LEMMA FlattenedInSteps ==
  ASSUME NEW seqs, Len(seqs) \in Nat \ {0}
  PROVE  \E f : /\ f[1] = seqs[1] /\ FlattenSeq(seqs) = f[Len(seqs)]
               /\ \A n \in 2..Len(seqs) : f[n] = f[n - 1] \o seqs[n]
<1> DEFINE Step(f, n) == IF n = 1 THEN seqs[n] ELSE f[n - 1] \o seqs[n]
           Runs(f, m) == f = [n \in 1..m |-> Step(f, n)]
           Known == {m \in Nat : \E f : Runs(f, m)}
<1>1. 0 \in Known
  <2> DEFINE f == [n \in 1..0 |-> seqs[n]]
  <2>1. f = [n \in 1..0 |-> Step(f, n)]
    OBVIOUS
  <2>2. QED
    BY <2>1
<1>2. ASSUME NEW m \in Known PROVE m + 1 \in Known
  <2>1. PICK f : Runs(f, m)
    OBVIOUS
  <2> DEFINE g == [n \in 1..(m + 1) |-> IF n = m + 1 THEN Step(f, n) ELSE f[n]]
  <2>2. ASSUME NEW n \in 1..(m + 1) PROVE g[n] = Step(g, n)
    <3>1. CASE n = m + 1
      <4>1. n # 1 => g[n - 1] = f[n - 1]
        BY <3>1
      <4>2. QED
        BY <3>1, <4>1
    <3>2. CASE n \in 1..m
      <4>1. f[n] = Step(f, n)
        BY <2>1, <3>2
      <4>2. g[n] = f[n] /\ (n # 1 => g[n - 1] = f[n - 1])
        BY <3>2
      <4>3. QED
        BY <4>1, <4>2
    <3>3. QED
      BY <3>1, <3>2
  <2>3. Runs(g, m + 1)
    BY <2>2
  <2>4. QED
    <3> HIDE DEF g, Runs
    <3>1. m + 1 \in Nat /\ \E e : Runs(e, m + 1)
      BY <2>3
    <3>2. QED
      BY <3>1
<1>3. Len(seqs) \in Known
  <2>1. Known \in SUBSET Nat
    OBVIOUS
  <2> HIDE DEF Known
  <2>2. QED
    BY <1>1, <1>2, <2>1, SetInduction
<1> DEFINE run == CHOOSE f : Runs(f, Len(seqs))
<1>4. Runs(run, Len(seqs))
  BY <1>3
<1>5. FlattenSeq(seqs) = run[Len(seqs)]
  BY DEF FlattenSeq
<1> HIDE DEF run
<1>6. \A n \in 1..Len(seqs) : run[n] = Step(run, n)
  <2> HIDE DEF Step
  <2>1. QED
    BY <1>4
<1>7. run[1] = seqs[1] /\ \A n \in 2..Len(seqs) : run[n] = run[n - 1] \o seqs[n]
  <2>1. /\ 1 \in 1..Len(seqs)
        /\ \A n \in 2..Len(seqs) : n \in 1..Len(seqs) /\ n # 1
    OBVIOUS
  <2>2. run[1] = Step(run, 1) /\ \A n \in 2..Len(seqs) : run[n] = Step(run, n) /\ n # 1
    BY <1>6, <2>1, Zenon
  <2>3. QED
    BY <2>2, Zenon
<1>8. QED
  BY <1>5, <1>7

-----------------------------------------------------------------------------
(* What a rebuild asks for is a list of requests of its document.          *)

IsAsk(q, base) ==
  {"url", "kind", "referrer", "cookies"} \subseteq DOMAIN q /\ q.referrer = <<base>>
AskList(reqs, base) == IsList(reqs) /\ \A q \in ToSet(reqs) : IsAsk(q, base)

LEMMA AskIsAsk == ASSUME NEW kind, NEW at, NEW ref, NEW base PROVE IsAsk(Ask(kind, at, ref, base), base)
BY DEF IsAsk, Ask

LEMMA AskListOver ==
  ASSUME NEW base, NEW R, \A q \in R : IsAsk(q, base), NEW reqs \in Seq(R)
  PROVE  AskList(reqs, base)
<1>1. ToSet(reqs) \subseteq R /\ reqs \in Seq(ToSet(reqs))
  <2>1. \A i \in 1..Len(reqs) : reqs[i] \in R
    OBVIOUS
  <2>2. DOMAIN reqs = 1..Len(reqs) /\ Len(reqs) \in Nat
    OBVIOUS
  <2>3. ToSet(reqs) = {reqs[i] : i \in 1..Len(reqs)}
    BY <2>2 DEF ToSet
  <2>4. QED
    BY <2>1, <2>3
<1>2. QED
  BY <1>1 DEF AskList, IsList

LEMMA AskListIsOver ==
  ASSUME NEW base, NEW reqs, AskList(reqs, base)
  PROVE  reqs \in Seq({q \in ToSet(reqs) : IsAsk(q, base)})
<1>1. {q \in ToSet(reqs) : IsAsk(q, base)} = ToSet(reqs)
  BY DEF AskList
<1>2. QED
  BY <1>1 DEF AskList, IsList

LEMMA MappedAsks ==
  ASSUME NEW base, NEW s, IsList(s), NEW f, f = [i \in DOMAIN s |-> f[i]],
         \A i \in DOMAIN s : IsAsk(f[i], base)
  PROVE  AskList(f, base)
<1>1. Len(s) \in Nat /\ DOMAIN s = 1..Len(s)
  BY ListFacts
<1>2. IsList(f) /\ DOMAIN f = DOMAIN s
  BY <1>1, MappedIsList
<1>3. ToSet(f) = {f[i] : i \in DOMAIN s}
  BY <1>2, ListFacts
<1>4. QED
  BY <1>2, <1>3 DEF AskList

LEMMA NoAsks == ASSUME NEW base PROVE AskList(<<>>, base)
<1>1. <<>> \in Seq({})
  OBVIOUS
<1>2. QED
  BY <1>1, AskListOver

LEMMA JoinedAsks ==
  ASSUME NEW base, NEW a, AskList(a, base), NEW b, AskList(b, base)
  PROVE  AskList(a \o b, base)
<1> DEFINE R == {q \in ToSet(a) \cup ToSet(b) : IsAsk(q, base)}
<1>1. a \in Seq({q \in ToSet(a) : IsAsk(q, base)}) /\ b \in Seq({q \in ToSet(b) : IsAsk(q, base)})
  BY AskListIsOver
<1>2. a \in Seq(R) /\ b \in Seq(R)
  <2>1. {q \in ToSet(a) : IsAsk(q, base)} \subseteq R /\ {q \in ToSet(b) : IsAsk(q, base)} \subseteq R
    OBVIOUS
  <2> HIDE DEF R
  <2>2. QED
    BY <1>1, <2>1
<1>3. a \o b \in Seq(R)
  <2> HIDE DEF R
  <2>1. QED
    BY <1>2
<1>4. \A q \in R : IsAsk(q, base)
  OBVIOUS
<1>5. QED
  <2> HIDE DEF R
  <2>1. QED
    BY <1>3, <1>4, AskListOver

\* Picking from a list.
LEMMA PickedFacts ==
  ASSUME NEW s, IsList(s), NEW picked \in SUBSET DOMAIN s, NEW ix, Rising(ix, picked)
  PROVE  /\ IsList(Picked(s, ix)) /\ DOMAIN Picked(s, ix) = DOMAIN ix /\ Len(Picked(s, ix)) = Len(ix)
         /\ \A p \in DOMAIN ix : Picked(s, ix)[p] = s[ix[p]] /\ ix[p] \in DOMAIN s
         /\ ToSet(Picked(s, ix)) \subseteq ToSet(s)
<1> DEFINE k == Picked(s, ix)
<1>1. Len(ix) \in Nat /\ DOMAIN ix = 1..Len(ix) /\ \A p \in DOMAIN ix : ix[p] \in DOMAIN s
  BY DEF Rising
<1>2. k = [p \in 1..Len(ix) |-> k[p]] /\ \A p \in DOMAIN ix : k[p] = s[ix[p]]
  BY <1>1 DEF Picked
<1> HIDE DEF k
<1>3. IsList(k) /\ DOMAIN k = DOMAIN ix /\ Len(k) = Len(ix)
  BY <1>1, <1>2, MappedIsList
<1>4. ToSet(k) \subseteq ToSet(s)
  BY <1>1, <1>2, <1>3 DEF ToSet
<1>5. QED
  BY <1>1, <1>2, <1>3, <1>4 DEF k

LEMMA PickedAsks ==
  ASSUME NEW base, NEW reqs, AskList(reqs, base), NEW picked \in SUBSET DOMAIN reqs
  PROVE  AskList(Picked(reqs, Indices(reqs, picked)), base)
<1>1. Rising(Indices(reqs, picked), picked)
  BY IndicesRise DEF AskList
<1>2. QED
  BY <1>1, PickedFacts DEF AskList

LEMMA AddedAsks ==
  ASSUME NEW base, NEW found, NEW reqs, AskList(reqs, base)
  PROVE  AskList(AddSubresources(found, reqs), base)
<1> DEFINE new == {i \in DOMAIN reqs :
                     /\ reqs[i].url.scheme \notin {"data", "blob"}
                     /\ ~\E f \in ToSet(found) : SameTarget(f, reqs[i])
                     /\ ~\E j \in 1..(i - 1) : SameTarget(reqs[j], reqs[i])}
<1>1. new \in SUBSET DOMAIN reqs
  OBVIOUS
<1>2. AddSubresources(found, reqs) = Picked(reqs, Indices(reqs, new))
  BY DEF AddSubresources
<1> HIDE DEF new
<1>3. QED
  BY <1>1, <1>2, PickedAsks

LEMMA SheetAsks ==
  ASSUME NEW base, NEW reqs, AskList(reqs, base)
  PROVE  AskList(Stylesheets(reqs), base)
<1> DEFINE R == {q \in ToSet(reqs) : IsAsk(q, base)}
           keep == {q \in ToSet(reqs) : q.kind = "stylesheet"}
<1>1. reqs \in Seq(R)
  BY AskListIsOver
<1>2. \A q \in R : IsAsk(q, base)
  OBVIOUS
<1>3. Stylesheets(reqs) = Kept(reqs, keep)
  BY DEF Stylesheets
<1> HIDE DEF R, keep
<1>4. Kept(reqs, keep) \in Seq(R)
  BY <1>1, KeptFacts
<1>5. QED
  BY <1>2, <1>3, <1>4, AskListOver

\* Lists joined to one.
LEMMA FlattenedIsList ==
  ASSUME NEW R, NEW L \in Nat, NEW seqs \in [1..L -> Seq(R)]
  PROVE  FlattenSeq(seqs) \in Seq(R)
<1>1. seqs \in Seq(Seq(R)) /\ Len(seqs) = L
  OBVIOUS
<1>2. CASE L = 0
  <2>1. FlattenSeq(seqs) = seqs /\ seqs = <<>>
    BY <1>1, <1>2 DEF FlattenSeq
  <2>2. QED
    BY <2>1
<1>3. CASE L # 0
  <2>1. PICK f : /\ f[1] = seqs[1] /\ FlattenSeq(seqs) = f[L]
                 /\ \A n \in 2..L : f[n] = f[n - 1] \o seqs[n]
    BY <1>1, <1>3, FlattenedInSteps
  <2> DEFINE S == {n \in Nat : n + 1 <= L => f[n + 1] \in Seq(R)}
  <2>2. 0 \in S
    <3>1. f[0 + 1] = seqs[1] /\ seqs[1] \in Seq(R)
      BY <2>1, <1>3
    <3>2. QED
      BY <3>1
  <2>3. ASSUME NEW n \in S PROVE n + 1 \in S
    <3>1. SUFFICES ASSUME (n + 1) + 1 <= L PROVE f[(n + 1) + 1] \in Seq(R)
      OBVIOUS
    <3> DEFINE a == f[n + 1]
               b == seqs[n + 2]
    <3>2. n \in Nat /\ n + 2 \in 2..L /\ (n + 2) - 1 = n + 1 /\ (n + 1) + 1 = n + 2
      BY <3>1
    <3>3. f[n + 2] = f[(n + 2) - 1] \o b
      BY <2>1, <3>2
    <3>4. a \in Seq(R) /\ b \in Seq(R)
      BY <3>2
    <3> HIDE DEF a, b
    <3>5. a \o b \in Seq(R)
      BY <3>4
    <3>6. QED
      BY <3>2, <3>3, <3>5 DEF a
  <2>4. S = Nat
    <3>1. S \in SUBSET Nat
      OBVIOUS
    <3> HIDE DEF S
    <3>2. QED
      BY <2>2, <2>3, <3>1, SetInduction
  <2>5. L - 1 \in S /\ (L - 1) + 1 = L
    <3>1. L - 1 \in Nat /\ (L - 1) + 1 = L
      BY <1>3
    <3> HIDE DEF S
    <3>2. QED
      BY <2>4, <3>1
  <2>6. f[L] \in Seq(R)
    BY <2>5
  <2>7. QED
    BY <2>1, <2>6
<1>4. QED
  BY <1>2, <1>3

LEMMA FlattenedAsks ==
  ASSUME NEW base, NEW s, IsList(s), NEW seqs, seqs = [i \in DOMAIN s |-> seqs[i]],
         \A i \in DOMAIN s : AskList(seqs[i], base)
  PROVE  AskList(FlattenSeq(seqs), base)
<1> DEFINE R == {q \in UNION {ToSet(seqs[i]) : i \in DOMAIN s} : IsAsk(q, base)}
<1>1. Len(s) \in Nat /\ DOMAIN s = 1..Len(s)
  BY ListFacts
<1>2. ASSUME NEW i \in DOMAIN s PROVE seqs[i] \in Seq(R)
  <2>1. seqs[i] \in Seq({q \in ToSet(seqs[i]) : IsAsk(q, base)})
    BY AskListIsOver
  <2>2. {q \in ToSet(seqs[i]) : IsAsk(q, base)} \subseteq R
    OBVIOUS
  <2> HIDE DEF R
  <2>3. QED
    BY <2>1, <2>2
<1>3. \A q \in R : IsAsk(q, base)
  OBVIOUS
<1> HIDE DEF R
<1>4. seqs \in [1..Len(s) -> Seq(R)]
  BY <1>1, <1>2
<1>5. FlattenSeq(seqs) \in Seq(R)
  BY <1>1, <1>4, FlattenedIsList
<1>6. QED
  BY <1>3, <1>5, AskListOver

LEMMA StyleAsks ==
  ASSUME NEW styles, IsList(styles), NEW at, NEW base
  PROVE  AskList(StyleRequests(styles, at, base), base)
<1> DEFINE f == StyleRequests(styles, at, base)
<1>1. f = [i \in DOMAIN styles |-> f[i]] /\ \A i \in DOMAIN styles : IsAsk(f[i], base)
  BY AskIsAsk DEF StyleRequests
<1> HIDE DEF f
<1>2. AskList(f, base)
  BY <1>1, MappedAsks
<1>3. QED
  BY <1>2 DEF f

LEMMA LinkAsks ==
  ASSUME NEW d \in Documents
  PROVE  AskList(LinkRequests(d), d.base)
<1> DEFINE f == LinkRequests(d)
<1>1. f = [i \in DOMAIN d.links |-> f[i]] /\ \A i \in DOMAIN d.links : IsAsk(f[i], d.base)
  BY AskIsAsk DEF LinkRequests
<1>2. IsList(d.links)
  BY RenderAssumption DEF RenderAssumption
<1> HIDE DEF f
<1>3. AskList(f, d.base)
  BY <1>1, <1>2, MappedAsks
<1>4. QED
  BY <1>3 DEF f

LEMMA CollectedAsks ==
  ASSUME NEW d \in Documents
  PROVE  AskList(CollectDomSubresources(d), d.base)
<1> DEFINE images == [i \in DOMAIN d.images |-> Ask("image", d.base, d.images[i], d.base)]
           all == images \o LinkRequests(d) \o StyleRequests(d.styles, d.base, d.base)
<1>1. IsList(d.images) /\ IsList(d.styles)
  BY RenderAssumption DEF RenderAssumption
<1>2. AskList(images, d.base)
  <2>1. images = [i \in DOMAIN d.images |-> images[i]] /\ \A i \in DOMAIN d.images : IsAsk(images[i], d.base)
    BY AskIsAsk
  <2> HIDE DEF images
  <2>2. QED
    BY <1>1, <2>1, MappedAsks
<1>3. AskList(all, d.base)
  <2>1. AskList(LinkRequests(d), d.base) /\ AskList(StyleRequests(d.styles, d.base, d.base), d.base)
    BY <1>1, LinkAsks, StyleAsks
  <2> HIDE DEF images
  <2>2. AskList(images \o LinkRequests(d), d.base)
    BY <1>2, <2>1, JoinedAsks
  <2>3. QED
    BY <2>1, <2>2, JoinedAsks
<1>4. CollectDomSubresources(d) = AddSubresources(<<>>, all)
  BY DEF CollectDomSubresources
<1> HIDE DEF all
<1>5. QED
  BY <1>3, <1>4, AddedAsks

\* An answer that succeeded is to a request for something there is.
Known(reqs, answers) ==
  \A i \in DOMAIN reqs : Succeeded(answers[i]) => reqs[i].url \in DOMAIN Web

LEMMA SecondAsks ==
  ASSUME NEW d \in Documents, NEW first, IsList(first), NEW answers, Known(first, answers)
  PROVE  AskList(SecondWave(first, answers, d), d.base)
<1> DEFINE lists == [i \in DOMAIN first |->
                       IF first[i].kind = "stylesheet" /\ Succeeded(answers[i])
                       THEN StyleRequests(Web[first[i].url].styles, answers[i].url, d.base)
                       ELSE <<>>]
<1>1. SecondWave(first, answers, d) = AddSubresources(first, FlattenSeq(lists))
  BY DEF SecondWave
<1>2. ASSUME NEW i \in DOMAIN first PROVE AskList(lists[i], d.base)
  <2>1. CASE first[i].kind = "stylesheet" /\ Succeeded(answers[i])
    <3>1. IsList(Web[first[i].url].styles)
      BY <2>1, RenderAssumption DEF RenderAssumption, Known
    <3>2. AskList(StyleRequests(Web[first[i].url].styles, answers[i].url, d.base), d.base)
      BY <3>1, StyleAsks
    <3>3. QED
      BY <2>1, <3>2
  <2>2. CASE ~(first[i].kind = "stylesheet" /\ Succeeded(answers[i]))
    <3>1. lists[i] = <<>>
      BY <2>2
    <3>2. QED
      BY <3>1, NoAsks
  <2>3. QED
    BY <2>1, <2>2
<1>3. lists = [i \in DOMAIN first |-> lists[i]]
  OBVIOUS
<1> HIDE DEF lists
<1>4. AskList(FlattenSeq(lists), d.base)
  BY <1>2, <1>3, FlattenedAsks
<1>5. QED
  BY <1>1, <1>4, AddedAsks

LEMMA FontAsks ==
  ASSUME NEW d \in Documents, NEW sheets, IsList(sheets), NEW answers, Known(sheets, answers)
  PROVE  AskList(FontRequests(PendingFonts(d, sheets, answers)), d.base)
<1> DEFINE own == Fonts(d.faces, d.base, d.base)
           lists == [i \in DOMAIN sheets |->
                       IF Succeeded(answers[i])
                       THEN Fonts(Web[sheets[i].url].faces, answers[i].url, d.base)
                       ELSE <<>>]
           R == {f \in ToSet(own) \cup UNION {ToSet(lists[i]) : i \in DOMAIN sheets} :
                   IsAsk(f[2], d.base)}
           all == own \o FlattenSeq(lists)
<1>1. ASSUME NEW faces, IsList(faces), NEW at
      PROVE  LET fonts == Fonts(faces, at, d.base)
             IN fonts \in Seq({f \in ToSet(fonts) : IsAsk(f[2], d.base)})
  <2> DEFINE fonts == Fonts(faces, at, d.base)
  <2>1. Len(faces) \in Nat /\ DOMAIN faces = 1..Len(faces)
    BY ListFacts
  <2>2. fonts = [i \in 1..Len(faces) |-> fonts[i]] /\ \A i \in 1..Len(faces) : IsAsk(fonts[i][2], d.base)
    BY <2>1, AskIsAsk DEF Fonts
  <2> HIDE DEF fonts
  <2>3. IsList(fonts) /\ DOMAIN fonts = 1..Len(faces)
    BY <2>1, <2>2, MappedIsList
  <2>4. ToSet(fonts) = {fonts[i] : i \in 1..Len(faces)}
    BY <2>3, ListFacts
  <2>5. {f \in ToSet(fonts) : IsAsk(f[2], d.base)} = ToSet(fonts)
    BY <2>2, <2>4
  <2>6. fonts \in Seq({f \in ToSet(fonts) : IsAsk(f[2], d.base)})
    BY <2>3, <2>5 DEF IsList
  <2>7. QED
    BY <2>6 DEF fonts
<1>2. own \in Seq(R)
  <2>1. IsList(d.faces)
    BY RenderAssumption DEF RenderAssumption
  <2>2. own \in Seq({f \in ToSet(own) : IsAsk(f[2], d.base)})
    BY <1>1, <2>1
  <2>3. {f \in ToSet(own) : IsAsk(f[2], d.base)} \subseteq R
    OBVIOUS
  <2> HIDE DEF R, own
  <2>4. QED
    BY <2>2, <2>3
<1>3. ASSUME NEW i \in DOMAIN sheets PROVE lists[i] \in Seq(R)
  <2>1. CASE Succeeded(answers[i])
    <3>1. IsList(Web[sheets[i].url].faces)
      BY <2>1, RenderAssumption DEF RenderAssumption, Known
    <3>2. lists[i] = Fonts(Web[sheets[i].url].faces, answers[i].url, d.base)
      BY <2>1
    <3>3. lists[i] \in Seq({f \in ToSet(lists[i]) : IsAsk(f[2], d.base)})
      BY <1>1, <3>1, <3>2
    <3>4. {f \in ToSet(lists[i]) : IsAsk(f[2], d.base)} \subseteq R
      OBVIOUS
    <3> HIDE DEF R, lists
    <3>5. QED
      BY <3>3, <3>4
  <2>2. CASE ~Succeeded(answers[i])
    <3>1. lists[i] = <<>>
      BY <2>2
    <3> HIDE DEF R, lists
    <3>2. QED
      BY <3>1
  <2>3. QED
    BY <2>1, <2>2
<1>4. lists = [i \in DOMAIN sheets |-> lists[i]]
  OBVIOUS
<1>5. PendingFonts(d, sheets, answers) = AddFonts(all)
  BY DEF PendingFonts
<1>6. \A f \in R : IsAsk(f[2], d.base)
  OBVIOUS
<1>7. Len(sheets) \in Nat /\ DOMAIN sheets = 1..Len(sheets)
  BY ListFacts
<1>8. all \in Seq(R)
  <2> HIDE DEF own, lists, R
  <2>1. lists \in [1..Len(sheets) -> Seq(R)]
    BY <1>3, <1>4, <1>7
  <2>2. FlattenSeq(lists) \in Seq(R)
    BY <1>7, <2>1, FlattenedIsList
  <2>3. QED
    BY <1>2, <2>2
<1> DEFINE first == {i \in DOMAIN all : \A j \in 1..(i - 1) : all[j] # all[i]}
           fonts == AddFonts(all)
<1> HIDE DEF own, lists, R, all
<1>9. first \in SUBSET DOMAIN all /\ fonts = Picked(all, Indices(all, first))
  BY DEF AddFonts
<1>10. IsList(all) /\ \A i \in DOMAIN all : all[i] \in R
  <2>1. ToSet(all) = {all[i] : i \in 1..Len(all)} /\ \A i \in 1..Len(all) : all[i] \in R
    BY <1>8 DEF ToSet
  <2>2. QED
    BY <1>8, <2>1 DEF IsList
<1> HIDE DEF first, fonts
<1>11. Rising(Indices(all, first), first)
  BY <1>9, <1>10, IndicesRise
<1>12. IsList(fonts) /\ \A i \in DOMAIN fonts : fonts[i] \in R
  BY <1>9, <1>10, <1>11, PickedFacts
<1> DEFINE reqs == FontRequests(fonts)
<1>13. reqs = [i \in DOMAIN fonts |-> reqs[i]] /\ \A i \in DOMAIN fonts : IsAsk(reqs[i], d.base)
  BY <1>6, <1>12 DEF FontRequests
<1> HIDE DEF reqs
<1>14. AskList(reqs, d.base)
  BY <1>12, <1>13, MappedAsks
<1>15. QED
  BY <1>5, <1>14 DEF reqs, fonts

-----------------------------------------------------------------------------
(* The cache: what its order and its entries have in common, and that a    *)
(* cache that is not full has lost nothing.                                *)

Fits(c) ==
  /\ DOMAIN c = {"order", "held"} /\ IsList(c.order) /\ Len(c.order) <= MaxEntries
  /\ DOMAIN c.held \subseteq ToSet(c.order)
Answers(r, key) ==
  /\ {"asked", "status", "fromCache"} \subseteq DOMAIN r
  /\ CacheKeyFor(r.asked) = key /\ r.asked.url \in DOMAIN Web
Labelled(c) == \A key \in DOMAIN c.held : Answers(c.held[key], key)

LEMMA EmptyFits == Fits(EmptyCache) /\ Labelled(EmptyCache)
<1>1. MaxEntries \in Nat /\ IsList(<<>>)
  BY ResourceAssumption DEF ResourceAssumption, IsList, ToSet
<1>2. DOMAIN EmptyCache.held = {} /\ EmptyCache.order = <<>> /\ DOMAIN EmptyCache = {"order", "held"}
  BY DEF EmptyCache
<1>3. Len(<<>>) = 0
  OBVIOUS
<1>4. QED
  BY <1>1, <1>2, <1>3 DEF Fits, Labelled

LEMMA FirstFacts ==
  ASSUME NEW s, IsList(s), NEW key \in ToSet(s)
  PROVE  First(s, key) \in DOMAIN s /\ s[First(s, key)] = key
<1> DEFINE T == {i \in DOMAIN s : s[i] = key}
<1>1. T \in SUBSET Nat /\ T # {} /\ DOMAIN s = 1..Len(s) /\ Len(s) \in Nat
  BY ListFacts
<1>2. PICK i \in T : \A m \in T : i <= m
  <2> HIDE DEF T
  <2>1. QED
    BY <1>1, LeastNumber
<1>3. i \in DOMAIN s /\ s[i] = key /\ \A j \in 1..(i - 1) : s[j] # key
  BY <1>1, <1>2
<1>4. QED
  BY <1>3 DEF First

LEMMA WithoutFacts ==
  ASSUME NEW s, IsList(s), NEW key \in ToSet(s)
  PROVE  /\ IsList(Without(s, key)) /\ Len(Without(s, key)) = Len(s) - 1
         /\ ToSet(s) \subseteq ToSet(Without(s, key)) \cup {key}
<1> DEFINE X == ToSet(s)
           f == First(s, key)
           w == Without(s, key)
           front == SubSeq(s, 1, f - 1)
           back == SubSeq(s, f + 1, Len(s))
<1>1. s \in Seq(X) /\ f \in 1..Len(s) /\ s[f] = key
  BY FirstFacts, ListFacts DEF IsList
<1>2. w = front \o back
  BY DEF Without, RemoveAt
<1>3. /\ front \in Seq(X) /\ Len(front) = f - 1
      /\ \A i \in 1..(f - 1) : front[i] = s[i]
  <2> HIDE DEF X, f
  <2>1. QED
    BY <1>1
<1>4. /\ back \in Seq(X) /\ Len(back) = Len(s) - f
      /\ \A i \in 1..(Len(s) - f) : back[i] = s[f + i]
  <2> HIDE DEF X, f
  <2>1. QED
    BY <1>1
<1>5. ToSet(s) = {s[i] : i \in 1..Len(s)} /\ Len(s) \in Nat
  BY ListFacts
<1> HIDE DEF X, f, front, back, w
<1>6. /\ w \in Seq(X) /\ Len(w) = Len(s) - 1 /\ DOMAIN w = 1..(Len(s) - 1)
      /\ \A i \in 1..(f - 1) : w[i] = s[i]
      /\ \A i \in (f + 1)..Len(s) : w[i - 1] = s[i]
  <2>1. w \in Seq(X) /\ Len(w) = Len(s) - 1 /\ DOMAIN w = 1..(Len(s) - 1)
    <3>1. f \in Int /\ Len(s) \in Nat /\ (f - 1) + (Len(s) - f) = Len(s) - 1
      BY <1>1, <1>5
    <3>2. w \in Seq(X) /\ Len(w) = Len(front) + Len(back)
      <4>1. front \in Seq(X) /\ back \in Seq(X)
        BY <1>3, <1>4
      <4>2. QED
        BY <1>2, <4>1
    <3>3. Len(w) = Len(s) - 1
      BY <1>3, <1>4, <3>1, <3>2
    <3>4. DOMAIN w = 1..Len(w)
      BY <3>2
    <3>5. QED
      BY <3>2, <3>3, <3>4
  <2>2. ASSUME NEW i \in 1..(f - 1) PROVE w[i] = s[i]
    BY <1>1, <1>2, <1>3, <1>4, <1>5
  <2>3. ASSUME NEW i \in (f + 1)..Len(s) PROVE w[i - 1] = s[i]
    <3>1. i - f \in 1..(Len(s) - f) /\ i - 1 = Len(front) + (i - f) /\ f + (i - f) = i
      BY <1>1, <1>3, <1>5
    <3>2. w[i - 1] = back[i - f]
      BY <1>1, <1>2, <1>3, <1>4, <1>5, <3>1
    <3>3. QED
      BY <1>4, <3>1, <3>2
  <2>4. QED
    BY <2>1, <2>2, <2>3
<1>7. ToSet(w) = {w[i] : i \in 1..(Len(s) - 1)}
  BY <1>6 DEF ToSet
<1>8. ASSUME NEW i \in 1..Len(s), s[i] # key PROVE s[i] \in ToSet(w)
  <2>1. i # f
    BY <1>1, <1>8
  <2>2. CASE i < f
    <3>1. i \in 1..(f - 1) /\ i \in 1..(Len(s) - 1)
      BY <1>1, <1>5, <2>2
    <3>2. w[i] = s[i]
      BY <1>6, <3>1
    <3>3. QED
      BY <1>7, <3>1, <3>2
  <2>3. CASE f < i
    <3>1. i - 1 \in 1..(Len(s) - 1) /\ w[i - 1] = s[i]
      BY <1>1, <1>5, <1>6, <2>3
    <3>2. QED
      BY <1>7, <3>1
  <2>4. QED
    BY <1>1, <2>1, <2>2, <2>3
<1>9. IsList(w)
  <2>1. \A i \in 1..Len(w) : w[i] \in ToSet(w)
    BY <1>6, <1>7
  <2>2. w \in Seq(ToSet(w))
    BY <1>6, <2>1
  <2>3. QED
    BY <2>2 DEF IsList
<1>10. QED
  BY <1>5, <1>6, <1>8, <1>9 DEF w

LEMMA AppendedIsList ==
  ASSUME NEW s, IsList(s), NEW key
  PROVE  /\ IsList(Append(s, key)) /\ Len(Append(s, key)) = Len(s) + 1
         /\ ToSet(Append(s, key)) = ToSet(s) \cup {key}
<1> DEFINE X == ToSet(s) \cup {key}
           a == Append(s, key)
<1>1. s \in Seq(X) /\ key \in X /\ Len(s) \in Nat /\ ToSet(s) = {s[i] : i \in 1..Len(s)}
  BY ListFacts DEF IsList
<1>2. /\ a \in Seq(X) /\ Len(a) = Len(s) + 1 /\ DOMAIN a = 1..(Len(s) + 1)
      /\ a[Len(s) + 1] = key /\ \A i \in 1..Len(s) : a[i] = s[i]
  <2> HIDE DEF X
  <2>1. QED
    BY <1>1, AppendFacts
<1>3. ToSet(a) = {a[i] : i \in 1..(Len(s) + 1)}
  <2> HIDE DEF a
  <2>1. QED
    BY <1>2 DEF ToSet
<1> HIDE DEF a
<1>4. ToSet(a) = X
  BY <1>1, <1>2, <1>3
<1>5. QED
  BY <1>2, <1>4 DEF IsList, a

LEMMA TouchFits ==
  ASSUME NEW c, Fits(c), NEW key, Holds(c, key)
  PROVE  /\ Fits(Touch(c, key)) /\ Touch(c, key).held = c.held
         /\ Len(Touch(c, key).order) = Len(c.order)
<1> DEFINE w == Without(c.order, key)
           t == Touch(c, key)
<1>1. IsList(c.order) /\ key \in ToSet(c.order) /\ Len(c.order) \in Nat
  BY ListFacts DEF Fits, Holds
<1>2. IsList(w) /\ Len(w) = Len(c.order) - 1 /\ ToSet(c.order) \subseteq ToSet(w) \cup {key}
  BY <1>1, WithoutFacts
<1>3. t.order = Append(w, key) /\ t.held = c.held /\ DOMAIN t = {"order", "held"}
  BY DEF Touch, Fits
<1> HIDE DEF w, t
<1>4. IsList(t.order) /\ Len(t.order) = Len(c.order) /\ ToSet(c.order) \subseteq ToSet(t.order)
  BY <1>1, <1>2, <1>3, AppendedIsList
<1>5. Fits(t)
  BY <1>3, <1>4 DEF Fits
<1>6. QED
  BY <1>3, <1>4, <1>5 DEF t

LEMMA TailFacts ==
  ASSUME NEW s, IsList(s), Len(s) > 0
  PROVE  /\ IsList(Tail(s)) /\ Len(Tail(s)) = Len(s) - 1
         /\ ToSet(s) \subseteq ToSet(Tail(s)) \cup {Head(s)}
<1> DEFINE X == ToSet(s)
           t == Tail(s)
<1>1. s \in Seq(X) /\ Len(s) \in Nat /\ X = {s[i] : i \in 1..Len(s)}
  BY ListFacts DEF IsList
<1>2. /\ t \in Seq(X) /\ Len(t) = Len(s) - 1 /\ DOMAIN t = 1..(Len(s) - 1) /\ Head(s) = s[1]
      /\ \A i \in 1..(Len(s) - 1) : t[i] = s[i + 1]
  <2> HIDE DEF X
  <2>1. QED
    BY <1>1
<1> HIDE DEF t, X
<1>3. ToSet(t) = {t[i] : i \in 1..(Len(s) - 1)}
  BY <1>2 DEF ToSet
<1>4. ASSUME NEW i \in 1..Len(s), i # 1 PROVE s[i] \in ToSet(t)
  <2>1. i - 1 \in 1..(Len(s) - 1) /\ t[i - 1] = s[i]
    <3>1. i - 1 \in 1..(Len(s) - 1) /\ (i - 1) + 1 = i
      BY <1>1, <1>4
    <3>2. t[i - 1] = s[(i - 1) + 1]
      BY <1>2, <3>1
    <3>3. QED
      BY <3>1, <3>2
  <2>2. QED
    BY <1>3, <2>1
<1>5. \A i \in 1..Len(t) : t[i] \in ToSet(t)
  BY <1>2, <1>3
<1>6. IsList(t)
  BY <1>2, <1>5 DEF IsList
<1>7. QED
  BY <1>1, <1>2, <1>4, <1>6 DEF t, X

LEMMA PutFits ==
  ASSUME NEW c, Fits(c), NEW key, NEW r
  PROVE  /\ Fits(Put(c, key, r)) /\ Len(c.order) <= Len(Put(c, key, r).order)
         /\ DOMAIN Put(c, key, r).held \subseteq DOMAIN c.held \cup {key}
         /\ \A k \in DOMAIN Put(c, key, r).held :
              Put(c, key, r).held[k] = IF k = key THEN r ELSE c.held[k]
         /\ Len(Put(c, key, r).order) < MaxEntries =>
              DOMAIN Put(c, key, r).held = DOMAIN c.held \cup {key}
<1> DEFINE p == Put(c, key, r)
           Done(x) == /\ Fits(x) /\ Len(c.order) <= Len(x.order)
                      /\ DOMAIN x.held \subseteq DOMAIN c.held \cup {key}
                      /\ \A k \in DOMAIN x.held : x.held[k] = IF k = key THEN r ELSE c.held[k]
                      /\ Len(x.order) < MaxEntries => DOMAIN x.held = DOMAIN c.held \cup {key}
<1>1. /\ MaxEntries \in Nat \ {0} /\ IsList(c.order) /\ Len(c.order) \in Nat
      /\ Len(c.order) <= MaxEntries /\ DOMAIN c.held \subseteq ToSet(c.order)
  BY ResourceAssumption, ListFacts DEF ResourceAssumption, Fits
<1>2. CASE Holds(c, key)
  <2>1. /\ p.order = c.order /\ DOMAIN p.held = DOMAIN c.held /\ DOMAIN p = {"order", "held"}
        /\ \A k \in DOMAIN p.held : p.held[k] = IF k = key THEN r ELSE c.held[k]
    BY <1>2 DEF Put, Fits
  <2> HIDE DEF p
  <2>2. Done(p)
    BY <1>1, <1>2, <2>1 DEF Fits, Holds
  <2>3. QED
    BY <2>2 DEF p
<1>3. CASE ~Holds(c, key) /\ Len(c.order) # MaxEntries
  <2>1. /\ p.order = Append(c.order, key) /\ DOMAIN p.held = DOMAIN c.held \cup {key}
        /\ DOMAIN p = {"order", "held"}
        /\ \A k \in DOMAIN p.held : p.held[k] = IF k = key THEN r ELSE c.held[k]
    BY <1>3 DEF Put
  <2> HIDE DEF p
  <2>2. IsList(p.order) /\ Len(p.order) = Len(c.order) + 1 /\ ToSet(p.order) = ToSet(c.order) \cup {key}
    BY <1>1, <2>1, AppendedIsList
  <2>3. Done(p)
    BY <1>1, <1>3, <2>1, <2>2 DEF Fits
  <2>4. QED
    BY <2>3 DEF p
<1>4. CASE ~Holds(c, key) /\ Len(c.order) = MaxEntries
  <2> DEFINE rest == Tail(c.order)
             old == Head(c.order)
  <2>1. /\ p.order = Append(rest, key) /\ DOMAIN p.held = (DOMAIN c.held \ {old}) \cup {key}
        /\ DOMAIN p = {"order", "held"}
        /\ \A k \in DOMAIN p.held : p.held[k] = IF k = key THEN r ELSE c.held[k]
    BY <1>4 DEF Put
  <2>2. IsList(rest) /\ Len(rest) = MaxEntries - 1 /\ ToSet(c.order) \subseteq ToSet(rest) \cup {old}
    BY <1>1, <1>4, TailFacts
  <2> HIDE DEF p, rest, old
  <2>3. IsList(p.order) /\ Len(p.order) = MaxEntries /\ ToSet(p.order) = ToSet(rest) \cup {key}
    BY <1>1, <2>1, <2>2, AppendedIsList
  <2>4. Done(p)
    BY <1>1, <1>4, <2>1, <2>2, <2>3 DEF Fits
  <2>5. QED
    BY <2>4 DEF p
<1>5. QED
  BY <1>2, <1>3, <1>4

\* Hits change the order only.
LEMMA TouchedFits ==
  ASSUME NEW c, Fits(c), NEW keys, Len(keys) \in Nat, \A n \in 1..Len(keys) : Holds(c, keys[n])
  PROVE  /\ Fits(Touched(c, keys)) /\ Touched(c, keys).held = c.held
         /\ Len(Touched(c, keys).order) = Len(c.order)
<1> DEFINE L == Len(keys)
<1>1. PICK f : /\ f[0] = c /\ Touched(c, keys) = f[L]
               /\ \A n \in 1..L : f[n] = Touch(f[n - 1], keys[n])
  BY TouchedInSteps
<1> DEFINE Fine(x) == Fits(x) /\ x.held = c.held /\ Len(x.order) = Len(c.order)
           S == {n \in Nat : n <= L => Fine(f[n])}
<1>2. 0 \in S
  BY <1>1
<1>3. ASSUME NEW n \in S PROVE n + 1 \in S
  <2>1. SUFFICES ASSUME n + 1 <= L PROVE Fine(f[n + 1])
    OBVIOUS
  <2>2. n + 1 \in 1..L /\ (n + 1) - 1 = n /\ n <= L
    BY <2>1
  <2>3. Fine(f[n]) /\ f[n + 1] = Touch(f[n], keys[n + 1]) /\ Holds(c, keys[n + 1])
    <3>1. f[n + 1] = Touch(f[(n + 1) - 1], keys[n + 1]) /\ Holds(c, keys[n + 1])
      BY <1>1, <2>2
    <3>2. QED
      BY <2>2, <3>1
  <2>4. Holds(f[n], keys[n + 1])
    BY <2>3 DEF Holds
  <2>5. QED
    BY <2>3, <2>4, TouchFits
<1>4. S = Nat
  <2>1. S \in SUBSET Nat
    OBVIOUS
  <2> HIDE DEF S
  <2>2. QED
    BY <1>2, <1>3, <2>1, SetInduction
<1>5. L \in S
  <2> HIDE DEF S
  <2>1. QED
    BY <1>4
<1>6. QED
  BY <1>1, <1>5

\* What was kept is there, and what was there before, unless the cache is full.
KeptAll(c, d, keys, responses, batch, n) ==
  /\ Fits(d) /\ Labelled(d) /\ Len(c.order) <= Len(d.order)
  /\ Len(d.order) < MaxEntries =>
       /\ DOMAIN c.held \subseteq DOMAIN d.held
       /\ \A i \in 1..n : Storable(responses[i], batch) => keys[i] \in DOMAIN d.held

LEMMA StoredFits ==
  ASSUME NEW c, Fits(c), Labelled(c), NEW keys, Len(keys) \in Nat, NEW responses, NEW batch,
         \A n \in 1..Len(keys) : Storable(responses[n], batch) => Answers(responses[n], keys[n])
  PROVE  KeptAll(c, Stored(c, keys, responses, batch), keys, responses, batch, Len(keys))
<1> DEFINE L == Len(keys)
<1>1. PICK f : /\ f[0] = c /\ Stored(c, keys, responses, batch) = f[L]
               /\ \A n \in 1..L : f[n] = IF Storable(responses[n], batch)
                                         THEN Put(f[n - 1], keys[n], responses[n]) ELSE f[n - 1]
  BY StoredInSteps
<1> DEFINE S == {n \in Nat : n <= L => KeptAll(c, f[n], keys, responses, batch, n)}
<1>2. 0 \in S
  <2>1. Len(c.order) \in Nat
    BY ListFacts DEF Fits
  <2>2. QED
    BY <1>1, <2>1 DEF KeptAll
<1>3. ASSUME NEW n \in S PROVE n + 1 \in S
  <2>1. SUFFICES ASSUME n + 1 <= L PROVE KeptAll(c, f[n + 1], keys, responses, batch, n + 1)
    OBVIOUS
  <2> DEFINE d == f[n]
             e == f[n + 1]
             key == keys[n + 1]
             r == responses[n + 1]
  <2>2. n \in Nat /\ n + 1 \in 1..L /\ (n + 1) - 1 = n /\ n <= L
    BY <2>1
  <2>3. /\ KeptAll(c, d, keys, responses, batch, n)
        /\ e = IF Storable(r, batch) THEN Put(d, key, r) ELSE d
        /\ Storable(r, batch) => Answers(r, key)
    <3>1. e = IF Storable(r, batch) THEN Put(f[(n + 1) - 1], key, r) ELSE f[(n + 1) - 1]
      BY <1>1, <2>2
    <3>2. QED
      BY <2>2, <3>1
  <2>4. \A i \in 1..(n + 1) : i = n + 1 \/ i \in 1..n
    BY <2>2
  <2>5. Len(c.order) \in Nat /\ Len(d.order) \in Nat /\ MaxEntries \in Nat
    BY <2>3, ListFacts, ResourceAssumption DEF Fits, KeptAll, ResourceAssumption
  <2>6. CASE ~Storable(r, batch)
    <3>1. e = d
      BY <2>3, <2>6
    <3> HIDE DEF d, e, key
    <3>2. QED
      BY <2>3, <2>4, <2>6, <3>1 DEF KeptAll, r, e
  <2>7. CASE Storable(r, batch)
    <3>1. e = Put(d, key, r) /\ Answers(r, key)
      BY <2>3, <2>7
    <3> HIDE DEF d, e, key, r
    <3>2. Fits(d) /\ Labelled(d)
      BY <2>3 DEF KeptAll
    <3>3. /\ Fits(e) /\ Len(d.order) <= Len(e.order)
          /\ DOMAIN e.held \subseteq DOMAIN d.held \cup {key}
          /\ \A k \in DOMAIN e.held : e.held[k] = IF k = key THEN r ELSE d.held[k]
          /\ Len(e.order) < MaxEntries => DOMAIN e.held = DOMAIN d.held \cup {key}
      BY <3>1, <3>2, PutFits
    <3>4. Len(e.order) \in Nat
      BY <3>3, ListFacts DEF Fits
    <3>5. Labelled(e)
      BY <3>1, <3>2, <3>3 DEF Labelled
    <3>6. ASSUME Len(e.order) < MaxEntries
          PROVE  /\ DOMAIN c.held \subseteq DOMAIN e.held
                 /\ \A i \in 1..(n + 1) : Storable(responses[i], batch) => keys[i] \in DOMAIN e.held
      <4>1. Len(d.order) < MaxEntries
        BY <2>5, <3>3, <3>4, <3>6
      <4>2. /\ DOMAIN c.held \subseteq DOMAIN d.held
            /\ \A i \in 1..n : Storable(responses[i], batch) => keys[i] \in DOMAIN d.held
        BY <2>3, <4>1 DEF KeptAll
      <4>3. DOMAIN e.held = DOMAIN d.held \cup {key}
        BY <3>3, <3>6
      <4>4. QED
        BY <2>4, <4>2, <4>3 DEF key
    <3>7. Len(c.order) <= Len(e.order)
      BY <2>3, <2>5, <3>3, <3>4 DEF KeptAll
    <3>8. KeptAll(c, e, keys, responses, batch, n + 1)
      BY <3>3, <3>5, <3>6, <3>7 DEF KeptAll
    <3>9. QED
      BY <3>8 DEF e
  <2>8. QED
    BY <2>6, <2>7
<1>4. S = Nat
  <2>1. S \in SUBSET Nat
    OBVIOUS
  <2> HIDE DEF S
  <2>2. QED
    BY <1>2, <1>3, <2>1, SetInduction
<1>5. L \in S
  <2> HIDE DEF S
  <2>1. QED
    BY <1>4
<1>6. QED
  BY <1>1, <1>5

\* Answers from the cache leave the jar as it is.
LEMMA CachedSetsNothing ==
  ASSUME NEW sent, Len(sent) \in Nat, NEW responses,
         \A n \in 1..Len(sent) : responses[n].fromCache
  PROVE  JarsAfter(sent, responses) = {jar}
<1> DEFINE L == Len(sent)
<1>0. PICK f : JarsRun(f, sent, responses)
  BY JarsInSteps
<1>1. /\ f[0] = {jar} /\ JarsAfter(sent, responses) = f[L]
      /\ \A n \in 1..L : f[n] = JarsThen(f[n - 1], sent[n], responses[n])
  BY <1>0 DEF JarsRun
<1> DEFINE S == {n \in Nat : n <= L => f[n] = {jar}}
<1>2. 0 \in S
  BY <1>1
<1>3. ASSUME NEW n \in S PROVE n + 1 \in S
  <2>1. SUFFICES ASSUME n + 1 <= L PROVE f[n + 1] = {jar}
    OBVIOUS
  <2>2. n + 1 \in 1..L /\ (n + 1) - 1 = n /\ f[n] = {jar}
    BY <2>1
  <2>3. f[n + 1] = JarsThen(f[(n + 1) - 1], sent[n + 1], responses[n + 1])
    BY <1>1, <2>2
  <2>4. responses[n + 1].fromCache
    BY <2>2
  <2>5. JarsThen({jar}, sent[n + 1], responses[n + 1]) = {jar}
    BY <2>4 DEF JarsThen, StoreFromResponse
  <2>6. QED
    BY <2>2, <2>3, <2>5
<1>4. S = Nat
  <2>1. S \in SUBSET Nat
    OBVIOUS
  <2> HIDE DEF S
  <2>2. QED
    BY <1>2, <1>3, <2>1, SetInduction
<1>5. L \in S
  <2> HIDE DEF S
  <2>1. QED
    BY <1>4
<1>6. QED
  BY <1>1, <1>5

-----------------------------------------------------------------------------
(* One load or batch through the layers, layer by layer.                   *)

Base == rebuild.document.base
Admits(reqs) == {i \in DOMAIN reqs : ~Blocked(i - 1)}
Allowed(reqs) == Indices(reqs, Admits(reqs))
Admitted(reqs) == Picked(reqs, Allowed(reqs))
Wants(reqs) == {i \in DOMAIN Admitted(reqs) :
                  rebuild.mode = "full" \/ Admitted(reqs)[i].kind = "stylesheet"}
Wanted(reqs) == Indices(Admitted(reqs), Wants(reqs))
Sent(reqs) == [p \in DOMAIN Wanted(reqs) |-> WithCookies(Admitted(reqs)[Wanted(reqs)[p]])]
Keys(reqs) == [i \in DOMAIN Sent(reqs) |-> CacheKeyFor(Sent(reqs)[i])]
Hit(reqs) == {i \in DOMAIN Sent(reqs) : Holds(cache, Keys(reqs)[i])}
Hits(reqs) == Indices(Sent(reqs), Hit(reqs))
Miss(reqs) == {i \in DOMAIN Sent(reqs) : ~Holds(cache, Keys(reqs)[i])}
Misses(reqs) == Indices(Sent(reqs), Miss(reqs))
Missed(reqs) == Picked(Sent(reqs), Misses(reqs))
Came(reqs, down) ==
  [m \in DOMAIN Missed(reqs) |->
     IF Fails(Missed(reqs)[m].url, down) THEN Placeholder(Missed(reqs)[m]) ELSE Fetched(Missed(reqs)[m])]
PutBack(reqs, down) == Placed(Sent(reqs), Misses(reqs), Came(reqs, down))
Cached(reqs, down) ==
  [i \in DOMAIN Sent(reqs) |->
     IF Holds(cache, Keys(reqs)[i]) THEN FromCache(cache.held[Keys(reqs)[i]]) ELSE PutBack(reqs, down)[i]]
Used(reqs) == Touched(cache, Picked(Keys(reqs), Hits(reqs)))

LEMMA ThroughLayers ==
  ASSUME NEW reqs, NEW batch, NEW down
  PROVE  LET t == Through(reqs, batch, down) IN
         /\ t.answers = Placed(reqs, Allowed(reqs),
                               Placed(Admitted(reqs), Wanted(reqs), Cached(reqs, down)))
         /\ t.sent = Sent(reqs) /\ t.admitted = Len(Allowed(reqs)) /\ t.missed = Missed(reqs)
         /\ t.touched = Used(reqs)
         /\ t.stored = Stored(Used(reqs), Picked(Keys(reqs), Misses(reqs)), Came(reqs, down), batch)
         /\ t.jars = JarsAfter(Sent(reqs), Cached(reqs, down))
BY DEF Through, Admits, Allowed, Admitted, Wants, Wanted, Sent, Keys, Hit, Hits, Miss, Misses,
       Missed, Came, PutBack, Cached, Used

\* What leaves with cookies asks for what it asked for.
LEMMA CookiesAdded ==
  ASSUME NEW q, IsAsk(q, Base)
  PROVE  LET w == WithCookies(q) IN
         /\ w.url = q.url /\ w.kind = q.kind /\ w.referrer = <<Base>>
         /\ w.cookies = CookiesFor(jar, 0, q.url, q.kind, "GET", "same-origin", Base)
BY DEF WithCookies, IsAsk, Base

LEMMA AllowedFacts ==
  ASSUME NEW reqs, AskList(reqs, Base)
  PROVE  /\ Rising(Allowed(reqs), Admits(reqs)) /\ Admits(reqs) \in SUBSET DOMAIN reqs
         /\ Len(Allowed(reqs)) \in Nat
         /\ AskList(Admitted(reqs), Base) /\ DOMAIN Admitted(reqs) = DOMAIN Allowed(reqs)
         /\ Len(Admitted(reqs)) = Len(Allowed(reqs))
         /\ \A p \in DOMAIN Allowed(reqs) : Admitted(reqs)[p] = reqs[Allowed(reqs)[p]]
<1>1. Admits(reqs) \in SUBSET DOMAIN reqs
  BY DEF Admits
<1>2. Rising(Allowed(reqs), Admits(reqs))
  BY <1>1, IndicesRise DEF Allowed, AskList
<1>3. AskList(Admitted(reqs), Base)
  BY <1>1, PickedAsks DEF Admitted, Allowed
<1>4. Len(Allowed(reqs)) \in Nat
  BY <1>2 DEF Rising
<1>5. IsList(reqs)
  BY DEF AskList
<1>6. LET k == Picked(reqs, Allowed(reqs)) IN
        /\ DOMAIN k = DOMAIN Allowed(reqs) /\ Len(k) = Len(Allowed(reqs))
        /\ \A p \in DOMAIN Allowed(reqs) : k[p] = reqs[Allowed(reqs)[p]]
  BY <1>1, <1>2, <1>5, PickedFacts, SMTT(40)
<1>7. QED
  BY <1>1, <1>2, <1>3, <1>4, <1>6 DEF Admitted

\* The budget lets through what is left of it.
LEMMA AdmittedFit ==
  ASSUME NEW reqs, AskList(reqs, Base), MaxLoads # Absent,
         budget.loads \in Nat, budget.loads <= MaxLoads[1]
  PROVE  budget.loads + Len(Allowed(reqs)) <= MaxLoads[1]
<1> DEFINE b == MaxLoads[1] - budget.loads
<1>1. MaxLoads[1] \in Nat /\ b \in Nat
  BY RenderAssumption DEF RenderAssumption
<1>2. Len(reqs) \in Nat /\ DOMAIN reqs = 1..Len(reqs)
  BY ListFacts DEF AskList
<1>3. Admits(reqs) \in SUBSET (1..b)
  <2> SUFFICES ASSUME NEW i \in Admits(reqs) PROVE i \in 1..b
    OBVIOUS
  <2>1. i \in 1..Len(reqs) /\ ~Blocked(i - 1)
    BY <1>2 DEF Admits
  <2>2. ~(budget.loads + (i - 1) >= MaxLoads[1])
    BY <2>1 DEF Blocked
  <2>3. QED
    BY <1>1, <1>2, <2>1, <2>2
<1> HIDE DEF b
<1>4. Len(Allowed(reqs)) <= b
  BY <1>1, <1>3, AllowedFacts, RisingIsBounded
<1>5. QED
  BY <1>1, <1>4, AllowedFacts DEF b

LEMMA SentFacts ==
  ASSUME NEW reqs, AskList(reqs, Base)
  PROVE  /\ Rising(Wanted(reqs), Wants(reqs)) /\ Wants(reqs) \in SUBSET DOMAIN Admitted(reqs)
         /\ IsList(Sent(reqs)) /\ DOMAIN Sent(reqs) = DOMAIN Wanted(reqs)
         /\ Len(Sent(reqs)) \in Nat /\ Len(Sent(reqs)) <= Len(Allowed(reqs))
         /\ \A p \in DOMAIN Sent(reqs) :
              LET q == Sent(reqs)[p]
                  r == Admitted(reqs)[Wanted(reqs)[p]]
              IN /\ q.url = r.url /\ q.kind = r.kind /\ q.referrer = <<Base>>
                 /\ q.cookies = CookiesFor(jar, 0, q.url, q.kind, "GET", "same-origin", Base)
                 /\ rebuild.mode = "full" \/ q.kind = "stylesheet"
<1> DEFINE ix == Wanted(reqs)
           adm == Admitted(reqs)
           sent == Sent(reqs)
<1>1. IsList(adm) /\ AskList(adm, Base) /\ Len(adm) = Len(Allowed(reqs))
  BY AllowedFacts DEF AskList
<1>2. Wants(reqs) \in SUBSET DOMAIN adm
  BY DEF Wants
<1>3. Rising(ix, Wants(reqs))
  <2> HIDE DEF adm
  <2>1. Rising(Indices(adm, Wants(reqs)), Wants(reqs))
    BY <1>1, <1>2, IndicesRise
  <2>2. QED
    BY <2>1 DEF Wanted, adm
<1>4. Len(ix) \in Nat /\ DOMAIN ix = 1..Len(ix) /\ Len(adm) \in Nat /\ DOMAIN adm = 1..Len(adm)
  BY <1>1, <1>3, ListFacts DEF Rising
<1>5. sent = [p \in 1..Len(ix) |-> sent[p]]
  BY <1>4 DEF Sent
<1>6. \A p \in 1..Len(ix) : sent[p] = WithCookies(adm[ix[p]])
  BY <1>4 DEF Sent
<1> HIDE DEF ix, adm, sent
<1>7. IsList(sent) /\ Len(sent) = Len(ix) /\ DOMAIN sent = 1..Len(ix)
  BY <1>4, <1>5, MappedIsList
<1>8. Len(ix) <= Len(adm)
  BY <1>2, <1>3, <1>4, RisingIsBounded
<1>9. ASSUME NEW p \in DOMAIN sent
      PROVE  LET q == sent[p]
                 r == adm[ix[p]]
             IN /\ q.url = r.url /\ q.kind = r.kind /\ q.referrer = <<Base>>
                /\ q.cookies = CookiesFor(jar, 0, q.url, q.kind, "GET", "same-origin", Base)
                /\ rebuild.mode = "full" \/ q.kind = "stylesheet"
  <2>1. ix[p] \in Wants(reqs) /\ ix[p] \in DOMAIN adm
    BY <1>2, <1>3, <1>4, <1>7 DEF Rising
  <2>2. IsAsk(adm[ix[p]], Base)
    BY <1>1, <2>1, ListFacts DEF AskList
  <2>3. rebuild.mode = "full" \/ adm[ix[p]].kind = "stylesheet"
    BY <2>1 DEF Wants, adm
  <2>4. sent[p] = WithCookies(adm[ix[p]])
    BY <1>6, <1>7
  <2>5. QED
    BY <2>2, <2>3, <2>4, CookiesAdded
<1>10. DOMAIN sent = DOMAIN ix /\ Len(sent) \in Nat /\ Len(sent) <= Len(Allowed(reqs))
  BY <1>1, <1>4, <1>7, <1>8
<1>11. QED
  BY <1>2, <1>3, <1>7, <1>9, <1>10 DEF ix, adm, sent

LEMMA MissedFacts ==
  ASSUME NEW reqs, AskList(reqs, Base)
  PROVE  /\ Rising(Misses(reqs), Miss(reqs)) /\ Miss(reqs) \in SUBSET DOMAIN Sent(reqs)
         /\ IsList(Missed(reqs)) /\ Len(Missed(reqs)) = Len(Misses(reqs))
         /\ DOMAIN Missed(reqs) = DOMAIN Misses(reqs)
         /\ Len(Missed(reqs)) \in Nat /\ Len(Missed(reqs)) <= Len(Sent(reqs))
         /\ \A m \in DOMAIN Misses(reqs) :
              /\ Misses(reqs)[m] \in DOMAIN Sent(reqs)
              /\ Missed(reqs)[m] = Sent(reqs)[Misses(reqs)[m]]
              /\ ~Holds(cache, CacheKeyFor(Missed(reqs)[m]))
<1> DEFINE ix == Misses(reqs)
           sent == Sent(reqs)
           missed == Missed(reqs)
<1>1. IsList(sent) /\ Len(sent) \in Nat /\ DOMAIN sent = 1..Len(sent)
  BY SentFacts, ListFacts
<1>2. Miss(reqs) \in SUBSET DOMAIN sent
  BY DEF Miss
<1>3. Rising(ix, Miss(reqs))
  <2> HIDE DEF sent
  <2>1. Rising(Indices(sent, Miss(reqs)), Miss(reqs))
    BY <1>1, <1>2, IndicesRise
  <2>2. QED
    BY <2>1 DEF Misses, sent
<1>4. /\ IsList(missed) /\ DOMAIN missed = DOMAIN ix /\ Len(missed) = Len(ix)
      /\ \A m \in DOMAIN ix : missed[m] = sent[ix[m]]
  <2> HIDE DEF sent, ix
  <2>1. /\ IsList(Picked(sent, ix)) /\ DOMAIN Picked(sent, ix) = DOMAIN ix
        /\ Len(Picked(sent, ix)) = Len(ix)
        /\ \A m \in DOMAIN ix : Picked(sent, ix)[m] = sent[ix[m]] /\ ix[m] \in DOMAIN sent
    BY <1>1, <1>2, <1>3, PickedFacts
  <2>2. missed = Picked(sent, ix)
    BY DEF Missed, sent, ix
  <2>3. QED
    BY <2>1, <2>2
<1>5. \A i \in Miss(reqs) : ~Holds(cache, CacheKeyFor(sent[i]))
  BY DEF Miss, Keys
<1> HIDE DEF ix, sent, missed
<1>6. Len(ix) \in Nat /\ Len(ix) <= Len(sent)
  <2>1. Miss(reqs) \in SUBSET (1..Len(sent)) /\ Len(ix) \in Nat
    BY <1>1, <1>2, <1>3 DEF Rising
  <2>2. QED
    BY <1>1, <1>3, <2>1, RisingIsBounded
<1>7. \A m \in DOMAIN ix : ix[m] \in Miss(reqs)
  BY <1>3 DEF Rising
<1>8. \A m \in DOMAIN ix : ix[m] \in DOMAIN sent
  BY <1>2, <1>7
<1>9. \A m \in DOMAIN ix : ~Holds(cache, CacheKeyFor(missed[m]))
  BY <1>4, <1>5, <1>7
<1>10. QED
  BY <1>2, <1>3, <1>4, <1>6, <1>8, <1>9 DEF ix, sent, missed

\* What the network is asked is a sent request.
LEMMA MissedWereSent ==
  ASSUME NEW reqs, AskList(reqs, Base), NEW q \in ToSet(Missed(reqs))
  PROVE  /\ q \in ToSet(Sent(reqs)) /\ ~Holds(cache, CacheKeyFor(q)) /\ q.referrer = <<Base>>
         /\ q.cookies = CookiesFor(jar, 0, q.url, q.kind, "GET", "same-origin", Base)
         /\ rebuild.mode = "full" \/ q.kind = "stylesheet"
<1>1. PICK m \in DOMAIN Misses(reqs) : q = Missed(reqs)[m]
  BY MissedFacts, ListFacts
<1>2. /\ Misses(reqs)[m] \in DOMAIN Sent(reqs) /\ q = Sent(reqs)[Misses(reqs)[m]]
      /\ ~Holds(cache, CacheKeyFor(q))
  BY <1>1, MissedFacts
<1>3. q \in ToSet(Sent(reqs))
  BY <1>2 DEF ToSet
<1>4. QED
  BY <1>2, <1>3, SentFacts

\* What came from the network answers what was missed; a failure has no status.
LEMMA CameFacts ==
  ASSUME NEW reqs, NEW down, NEW m \in DOMAIN Missed(reqs)
  PROVE  LET r == Came(reqs, down)[m] IN
         /\ r.asked = Missed(reqs)[m] /\ {"asked", "status", "fromCache"} \subseteq DOMAIN r
         /\ r.status # 0 => r.asked.url \in DOMAIN Web
<1> DEFINE q == Missed(reqs)[m]
<1>1. Came(reqs, down)[m] = IF Fails(q.url, down) THEN Placeholder(q) ELSE Fetched(q)
  BY DEF Came
<1> HIDE DEF q
<1>2. CASE Fails(q.url, down)
  BY <1>1, <1>2 DEF Placeholder, Response, q
<1>3. CASE ~Fails(q.url, down)
  BY <1>1, <1>3 DEF Fetched, Fails, Response, q
<1>4. QED
  BY <1>2, <1>3

\* An entry answers for every request of its key.
LEMMA HeldFacts ==
  ASSUME NEW c, Labelled(c), NEW q, Holds(c, CacheKeyFor(q))
  PROVE  LET r == FromCache(c.held[CacheKeyFor(q)]) IN
         SameTarget(r.asked, q) /\ r.asked.url \in DOMAIN Web /\ r.fromCache
<1> DEFINE e == c.held[CacheKeyFor(q)]
<1>1. /\ {"asked", "status", "fromCache"} \subseteq DOMAIN e
      /\ CacheKeyFor(e.asked) = CacheKeyFor(q) /\ e.asked.url \in DOMAIN Web
  BY DEF Labelled, Answers, Holds
<1> HIDE DEF e
<1>2. e.asked.kind = q.kind /\ e.asked.url = q.url
  BY <1>1 DEF CacheKeyFor
<1>3. FromCache(e).asked = e.asked /\ FromCache(e).fromCache
  BY <1>1 DEF FromCache
<1>4. QED
  BY <1>1, <1>2, <1>3 DEF SameTarget, e

\* What a cache layer answers p with: from the cache, or as it came.
Kindly(reqs, down, p) ==
  LET r == Cached(reqs, down)[p]
      q == Sent(reqs)[p]
  IN /\ SameTarget(r.asked, q)
     /\ r.status # 0 => q.url \in DOMAIN Web
     /\ \/ Holds(cache, CacheKeyFor(q)) /\ r.fromCache
        \/ \E m \in DOMAIN Misses(reqs) : Misses(reqs)[m] = p /\ r = Came(reqs, down)[m]

LEMMA CachedFacts ==
  ASSUME NEW reqs, AskList(reqs, Base), Labelled(cache), NEW down, NEW p \in DOMAIN Sent(reqs)
  PROVE  Kindly(reqs, down, p)
<1> DEFINE q == Sent(reqs)[p]
           r == Cached(reqs, down)[p]
<1>1. r = IF Holds(cache, CacheKeyFor(q)) THEN FromCache(cache.held[CacheKeyFor(q)])
          ELSE PutBack(reqs, down)[p]
  BY DEF Cached, Keys
<1> HIDE DEF q, r
<1>2. CASE Holds(cache, CacheKeyFor(q))
  <2>1. r = FromCache(cache.held[CacheKeyFor(q)])
    BY <1>1, <1>2
  <2>2. SameTarget(r.asked, q) /\ r.asked.url \in DOMAIN Web /\ r.fromCache
    BY <1>2, <2>1, HeldFacts
  <2>3. QED
    BY <1>2, <2>2 DEF Kindly, SameTarget, q, r
<1>3. CASE ~Holds(cache, CacheKeyFor(q))
  <2>1. p \in Miss(reqs)
    BY <1>3 DEF Miss, Keys, q
  <2>2. PICK m \in DOMAIN Misses(reqs) :
          Misses(reqs)[m] = p /\ PutBack(reqs, down)[p] = Came(reqs, down)[m]
    <3>1. Rising(Misses(reqs), Miss(reqs)) /\ Miss(reqs) \in SUBSET DOMAIN Sent(reqs)
      BY MissedFacts
    <3>2. \E m \in DOMAIN Misses(reqs) : Misses(reqs)[m] = p
            /\ Placed(Sent(reqs), Misses(reqs), Came(reqs, down))[p] = Came(reqs, down)[m]
      BY <2>1, <3>1, PlacedFacts
    <3>3. QED
      BY <3>2 DEF PutBack
  <2>3. r = Came(reqs, down)[m]
    BY <1>1, <1>3, <2>2
  <2>4. Missed(reqs)[m] = q /\ m \in DOMAIN Missed(reqs)
    BY <2>2, MissedFacts DEF q
  <2>5. r.asked = q /\ (r.status # 0 => r.asked.url \in DOMAIN Web)
    BY <2>3, <2>4, CameFacts
  <2>6. QED
    BY <2>2, <2>3, <2>5 DEF Kindly, SameTarget, q, r
<1>4. QED
  BY <1>2, <1>3

\* Every answer a caller gets is to its request, and one that is no failure is
\* to something there is.
LEMMA AnswersFacts ==
  ASSUME NEW reqs, AskList(reqs, Base), Labelled(cache), NEW batch, NEW down
  PROVE  LET a == Through(reqs, batch, down).answers IN
         /\ DOMAIN a = DOMAIN reqs
         /\ \A i \in DOMAIN reqs :
              /\ SameTarget(a[i].asked, reqs[i])
              /\ a[i].status # 0 =>
                   /\ reqs[i].url \in DOMAIN Web
                   /\ \E p \in DOMAIN Sent(reqs) :
                        SameTarget(Sent(reqs)[p], reqs[i]) /\ a[i] = Cached(reqs, down)[p]
<1> DEFINE adm == Admitted(reqs)
           inner == Placed(adm, Wanted(reqs), Cached(reqs, down))
           a == Through(reqs, batch, down).answers
           Fine(r, q) == /\ SameTarget(r.asked, q)
                         /\ r.status # 0 =>
                              /\ q.url \in DOMAIN Web
                              /\ \E p \in DOMAIN Sent(reqs) :
                                   SameTarget(Sent(reqs)[p], q) /\ r = Cached(reqs, down)[p]
<1>1. a = Placed(reqs, Allowed(reqs), inner)
  BY ThroughLayers
<1>2. \A q : Fine(Placeholder(q), q)
  BY DEF Placeholder, Response, SameTarget
<1>3. ASSUME NEW j \in DOMAIN adm PROVE Fine(inner[j], adm[j])
  <2>1. Rising(Wanted(reqs), Wants(reqs)) /\ Wants(reqs) \in SUBSET DOMAIN adm
    BY SentFacts
  <2>2. CASE j \notin Wants(reqs)
    <3>1. inner[j] = Placeholder(adm[j])
      <4> HIDE DEF adm
      <4>1. QED
        BY <1>3, <2>1, <2>2, PlacedFacts
    <3> HIDE DEF inner, adm, Fine
    <3>2. QED
      BY <1>2, <3>1
  <2>3. CASE j \in Wants(reqs)
    <3>1. PICK p \in DOMAIN Wanted(reqs) : Wanted(reqs)[p] = j /\ inner[j] = Cached(reqs, down)[p]
      <4> HIDE DEF adm
      <4>1. QED
        BY <2>1, <2>3, PlacedFacts
    <3>2. /\ p \in DOMAIN Sent(reqs)
          /\ Sent(reqs)[p].url = adm[j].url /\ Sent(reqs)[p].kind = adm[j].kind
      BY <3>1, SentFacts
    <3>3. Kindly(reqs, down, p)
      BY <3>2, CachedFacts
    <3> DEFINE r == inner[j]
               q == adm[j]
               s == Sent(reqs)[p]
    <3>4. SameTarget(r.asked, s) /\ (r.status # 0 => s.url \in DOMAIN Web) /\ SameTarget(s, q)
      <4>1. s.url = q.url /\ s.kind = q.kind /\ r = Cached(reqs, down)[p]
        BY <3>1, <3>2
      <4> HIDE DEF r, q
      <4>2. QED
        BY <3>3, <4>1 DEF Kindly, SameTarget
    <3>5. SameTarget(r.asked, q) /\ s.url = q.url
      <4> HIDE DEF r, q, s
      <4>1. QED
        BY <3>4 DEF SameTarget
    <3>6. r = Cached(reqs, down)[p] /\ p \in DOMAIN Sent(reqs)
      BY <3>1, <3>2
    <3> HIDE DEF inner, adm, r, q
    <3>7. Fine(r, q)
      BY <3>4, <3>5, <3>6
    <3>8. QED
      BY <3>7 DEF r, q
  <2>4. QED
    BY <2>2, <2>3
<1> HIDE DEF inner
<1>4. ASSUME NEW i \in DOMAIN reqs PROVE Fine(a[i], reqs[i])
  <2>1. Rising(Allowed(reqs), Admits(reqs)) /\ Admits(reqs) \in SUBSET DOMAIN reqs
    BY AllowedFacts
  <2>2. CASE i \notin Admits(reqs)
    <3>1. a[i] = Placeholder(reqs[i])
      <4> HIDE DEF a
      <4>1. QED
        BY <1>1, <1>4, <2>1, <2>2, PlacedFacts
    <3> HIDE DEF a, Fine
    <3>2. QED
      BY <1>2, <3>1
  <2>3. CASE i \in Admits(reqs)
    <3>1. PICK j \in DOMAIN Allowed(reqs) : Allowed(reqs)[j] = i /\ a[i] = inner[j]
      <4> HIDE DEF a
      <4>1. QED
        BY <1>1, <2>1, <2>3, PlacedFacts
    <3>2. j \in DOMAIN adm /\ adm[j] = reqs[i]
      BY <3>1, AllowedFacts
    <3> HIDE DEF a, adm, Fine
    <3>3. QED
      BY <1>3, <3>1, <3>2
  <2>4. QED
    BY <2>2, <2>3
<1>5. DOMAIN a = DOMAIN reqs
  BY <1>1 DEF Placed
<1> HIDE DEF a
<1>6. \A i \in DOMAIN reqs : Fine(a[i], reqs[i])
  BY <1>4
<1>7. QED
  BY <1>5, <1>6 DEF a

LEMMA KeysFacts ==
  ASSUME NEW reqs, AskList(reqs, Base)
  PROVE  /\ IsList(Keys(reqs)) /\ DOMAIN Keys(reqs) = DOMAIN Sent(reqs)
         /\ \A i \in DOMAIN Sent(reqs) : Keys(reqs)[i] = CacheKeyFor(Sent(reqs)[i])
<1> DEFINE n == Len(Sent(reqs))
           keys == Keys(reqs)
<1>1. n \in Nat /\ DOMAIN Sent(reqs) = 1..n
  BY SentFacts, ListFacts
<1>2. keys = [i \in 1..n |-> keys[i]]
  BY <1>1 DEF Keys
<1>3. \A i \in DOMAIN Sent(reqs) : keys[i] = CacheKeyFor(Sent(reqs)[i])
  BY DEF Keys
<1> HIDE DEF n, keys
<1>4. IsList(keys) /\ DOMAIN keys = 1..n
  BY <1>1, <1>2, MappedIsList
<1>5. QED
  BY <1>1, <1>3, <1>4 DEF keys

LEMMA UsedFits ==
  ASSUME NEW reqs, AskList(reqs, Base), Fits(cache), Labelled(cache)
  PROVE  /\ Fits(Used(reqs)) /\ Labelled(Used(reqs)) /\ Used(reqs).held = cache.held
         /\ Len(Used(reqs).order) = Len(cache.order)
<1> DEFINE keys == Keys(reqs)
           ix == Hits(reqs)
           hits == Picked(keys, ix)
<1>1. IsList(keys) /\ DOMAIN keys = DOMAIN Sent(reqs)
  BY KeysFacts
<1>2. Hit(reqs) \in SUBSET DOMAIN Sent(reqs) /\ \A i \in Hit(reqs) : Holds(cache, keys[i])
  BY DEF Hit
<1>3. Rising(ix, Hit(reqs))
  BY <1>2, SentFacts, IndicesRise DEF Hits
<1> HIDE DEF keys, ix
<1>4. /\ IsList(hits) /\ DOMAIN hits = DOMAIN ix /\ Len(hits) = Len(ix)
      /\ \A p \in DOMAIN ix : hits[p] = keys[ix[p]] /\ ix[p] \in DOMAIN keys
  BY <1>1, <1>2, <1>3, PickedFacts
<1>5. Used(reqs) = Touched(cache, hits)
  BY DEF Used, keys, ix
<1> HIDE DEF hits
<1>6. Len(hits) \in Nat /\ DOMAIN hits = 1..Len(hits)
  BY <1>4, ListFacts
<1>7. \A n \in 1..Len(hits) : Holds(cache, hits[n])
  <2>1. \A p \in DOMAIN ix : ix[p] \in Hit(reqs)
    BY <1>3 DEF Rising
  <2>2. QED
    BY <1>2, <1>4, <1>6, <2>1
<1>8. /\ Fits(Used(reqs)) /\ Used(reqs).held = cache.held
      /\ Len(Used(reqs).order) = Len(cache.order)
  BY <1>5, <1>6, <1>7, TouchedFits
<1>9. QED
  BY <1>8 DEF Labelled

LEMMA GoodIsStored ==
  ASSUME NEW r, NEW batch
  PROVE  /\ Succeeded(r) => Storable(r, batch) /\ r.status # 0
         /\ Storable(r, batch) => r.status # 0
<1>1. \A x : x \in 200..399 => x # 0 /\ x < 400
  OBVIOUS
<1>2. QED
  BY <1>1, Zenon DEF Succeeded, Storable

\* A load or batch that returns has kept what was good of what came.
LEMMA KeptFromBatch ==
  ASSUME NEW reqs, AskList(reqs, Base), Fits(cache), Labelled(cache), NEW batch, NEW down
  PROVE  LET c == Through(reqs, batch, down).stored IN
         /\ Fits(c) /\ Labelled(c) /\ Len(cache.order) <= Len(c.order)
         /\ Len(c.order) < MaxEntries =>
              /\ DOMAIN cache.held \subseteq DOMAIN c.held
              /\ \A m \in DOMAIN Misses(reqs) : Storable(Came(reqs, down)[m], batch) =>
                   Holds(c, CacheKeyFor(Missed(reqs)[m]))
<1> DEFINE keys == Picked(Keys(reqs), Misses(reqs))
           came == Came(reqs, down)
           used == Used(reqs)
           c == Through(reqs, batch, down).stored
<1>1. /\ DOMAIN Missed(reqs) = DOMAIN Misses(reqs) /\ Len(Misses(reqs)) \in Nat
      /\ DOMAIN Misses(reqs) = 1..Len(Misses(reqs))
  BY MissedFacts DEF Rising
<1>2. /\ IsList(keys) /\ DOMAIN keys = DOMAIN Misses(reqs) /\ Len(keys) = Len(Misses(reqs))
      /\ \A m \in DOMAIN Misses(reqs) : keys[m] = Keys(reqs)[Misses(reqs)[m]]
  <2>1. /\ IsList(Keys(reqs)) /\ Miss(reqs) \in SUBSET DOMAIN Keys(reqs)
        /\ Rising(Misses(reqs), Miss(reqs))
    BY KeysFacts, MissedFacts
  <2>2. QED
    BY <2>1, PickedFacts
<1>3. \A m \in DOMAIN Misses(reqs) : keys[m] = CacheKeyFor(Missed(reqs)[m])
  BY <1>2, KeysFacts, MissedFacts
<1>4. c = Stored(used, keys, came, batch)
  BY ThroughLayers
<1> HIDE DEF keys, came, used, c
<1>5. ASSUME NEW m \in 1..Len(keys), Storable(came[m], batch) PROVE Answers(came[m], keys[m])
  <2>1. m \in DOMAIN Missed(reqs) /\ m \in DOMAIN Misses(reqs)
    BY <1>1, <1>2
  <2>2. came[m].status # 0
    BY <1>5, GoodIsStored
  <2>3. /\ came[m].asked = Missed(reqs)[m] /\ {"asked", "status", "fromCache"} \subseteq DOMAIN came[m]
        /\ came[m].status # 0 => came[m].asked.url \in DOMAIN Web
    BY <2>1, CameFacts DEF came
  <2>4. QED
    BY <1>3, <2>1, <2>2, <2>3 DEF Answers
<1>6. Fits(used) /\ Labelled(used) /\ used.held = cache.held /\ Len(used.order) = Len(cache.order)
  BY UsedFits DEF used
<1>7. KeptAll(used, c, keys, came, batch, Len(keys))
  BY <1>1, <1>2, <1>4, <1>5, <1>6, StoredFits
<1>8. Len(c.order) < MaxEntries =>
        /\ DOMAIN cache.held \subseteq DOMAIN c.held
        /\ \A m \in DOMAIN Misses(reqs) : Storable(came[m], batch) =>
             Holds(c, CacheKeyFor(Missed(reqs)[m]))
  BY <1>1, <1>2, <1>3, <1>6, <1>7 DEF KeptAll, Holds
<1>9. QED
  BY <1>6, <1>7, <1>8 DEF KeptAll, c, came

\* Two requests of one load for the same target have the same key.
LEMMA SameKey ==
  ASSUME NEW reqs, AskList(reqs, Base), NEW p \in DOMAIN Sent(reqs), NEW w \in ToSet(Sent(reqs)),
         SameTarget(Sent(reqs)[p], w)
  PROVE  CacheKeyFor(Sent(reqs)[p]) = CacheKeyFor(w) /\ w.referrer = <<Base>>
<1>1. PICK n \in DOMAIN Sent(reqs) : w = Sent(reqs)[n]
  BY DEF ToSet
<1> DEFINE q == Sent(reqs)[p]
<1>2. /\ q.referrer = <<Base>> /\ w.referrer = <<Base>>
      /\ q.cookies = CookiesFor(jar, 0, q.url, q.kind, "GET", "same-origin", Base)
      /\ w.cookies = CookiesFor(jar, 0, w.url, w.kind, "GET", "same-origin", Base)
  BY <1>1, SentFacts
<1> HIDE DEF q
<1>3. q.kind = w.kind /\ q.url = w.url
  BY DEF SameTarget, q
<1>4. QED
  BY <1>2, <1>3 DEF CacheKeyFor, q

\* What a prefetch got is in the cache it leaves, unless that is full.
LEMMA WarmedIsHeld ==
  ASSUME NEW reqs, AskList(reqs, Base), Fits(cache), Labelled(cache), NEW batch,
         NEW down, NEW t, t = Through(reqs, batch, down), NEW w \in Warmed(t)
  PROVE  w.referrer = <<Base>> /\ (Len(t.stored.order) < MaxEntries => Holds(t.stored, CacheKeyFor(w)))
<1>1. w \in ToSet(Sent(reqs))
  BY ThroughLayers DEF Warmed
<1> DEFINE a == t.answers
<1>2. PICK i \in DOMAIN a : SameTarget(a[i].asked, w) /\ Succeeded(a[i])
  BY DEF Warmed
<1>3. a[i].status # 0
  BY <1>2, GoodIsStored
<1>4. PICK p \in DOMAIN Sent(reqs) :
        SameTarget(Sent(reqs)[p], w) /\ a[i] = Cached(reqs, down)[p]
  <2>1. i \in DOMAIN reqs /\ SameTarget(a[i].asked, reqs[i])
        /\ \E p \in DOMAIN Sent(reqs) :
             SameTarget(Sent(reqs)[p], reqs[i]) /\ a[i] = Cached(reqs, down)[p]
    BY <1>2, <1>3, AnswersFacts
  <2>2. QED
    BY <1>2, <2>1 DEF SameTarget
<1>5. CacheKeyFor(Sent(reqs)[p]) = CacheKeyFor(w) /\ w.referrer = <<Base>>
  BY <1>1, <1>4, SameKey
<1>6. Kindly(reqs, down, p)
  BY CachedFacts
<1> DEFINE c == t.stored
<1>7. Len(c.order) < MaxEntries =>
        /\ DOMAIN cache.held \subseteq DOMAIN c.held
        /\ \A m \in DOMAIN Misses(reqs) : Storable(Came(reqs, down)[m], batch) =>
             Holds(c, CacheKeyFor(Missed(reqs)[m]))
  BY KeptFromBatch
<1> HIDE DEF a, c
<1>8. ASSUME Len(c.order) < MaxEntries PROVE Holds(c, CacheKeyFor(w))
  <2>1. CASE Holds(cache, CacheKeyFor(Sent(reqs)[p]))
    BY <1>5, <1>7, <1>8, <2>1 DEF Holds
  <2>2. CASE ~Holds(cache, CacheKeyFor(Sent(reqs)[p]))
    <3>1. PICK m \in DOMAIN Misses(reqs) :
            Misses(reqs)[m] = p /\ Cached(reqs, down)[p] = Came(reqs, down)[m]
      BY <1>6, <2>2 DEF Kindly
    <3>2. Storable(Came(reqs, down)[m], batch)
      BY <1>2, <1>4, <3>1, GoodIsStored DEF a
    <3>3. Missed(reqs)[m] = Sent(reqs)[p]
      BY <3>1, MissedFacts
    <3>4. Holds(c, CacheKeyFor(Missed(reqs)[m]))
      BY <1>7, <1>8, <3>2
    <3>5. QED
      BY <1>5, <3>3, <3>4
  <2>3. QED
    BY <2>1, <2>2
<1>9. QED
  BY <1>5, <1>8 DEF c

-----------------------------------------------------------------------------
(* What one load or batch does, all layers together.                       *)

Sound(t, reqs) ==
  /\ t.admitted \in Nat /\ IsList(t.missed)
  /\ Len(t.missed) \in Nat /\ Len(t.missed) <= t.admitted
  /\ MaxLoads # Absent => budget.loads + t.admitted <= MaxLoads[1]
  /\ \A i \in DOMAIN reqs :
       /\ SameTarget(t.answers[i].asked, reqs[i])
       /\ t.answers[i].status # 0 => reqs[i].url \in DOMAIN Web
  /\ \A q \in ToSet(t.missed) :
       /\ ~Holds(cache, CacheKeyFor(q)) /\ q.referrer = <<Base>>
       /\ rebuild.mode = "full" \/ q.kind = "stylesheet"
  /\ Fits(t.touched) /\ Labelled(t.touched) /\ t.touched.held = cache.held
  /\ Len(t.touched.order) = Len(cache.order)
  /\ Fits(t.stored) /\ Labelled(t.stored) /\ Len(cache.order) <= Len(t.stored.order)
  /\ Len(t.stored.order) < MaxEntries => DOMAIN cache.held \subseteq DOMAIN t.stored.held
  /\ \A w \in Warmed(t) :
       /\ w.referrer = <<Base>>
       /\ Len(t.stored.order) < MaxEntries => Holds(t.stored, CacheKeyFor(w))
  /\ t.missed = <<>> => t.jars = {jar}

BudgetInv ==
  /\ budget.loads \in Nat /\ net \in Nat /\ net <= budget.loads
  /\ MaxLoads # Absent => budget.loads <= MaxLoads[1]
CacheInv == Fits(cache) /\ Labelled(cache)

LEMMA LoadIsSound ==
  ASSUME BudgetInv, CacheInv, NEW reqs, AskList(reqs, Base), NEW batch, NEW down
  PROVE  Sound(Through(reqs, batch, down), reqs)
<1> DEFINE t == Through(reqs, batch, down)
<1>1. Fits(cache) /\ Labelled(cache)
  BY DEF CacheInv
<1>2. t.admitted = Len(Allowed(reqs)) /\ t.missed = Missed(reqs) /\ t.touched = Used(reqs)
  BY ThroughLayers
<1>3. /\ t.admitted \in Nat /\ IsList(t.missed)
      /\ Len(t.missed) \in Nat /\ Len(t.missed) <= t.admitted
  <2>1. /\ IsList(Missed(reqs)) /\ Len(Missed(reqs)) \in Nat /\ Len(Missed(reqs)) <= Len(Sent(reqs))
        /\ Len(Sent(reqs)) \in Nat /\ Len(Sent(reqs)) <= Len(Allowed(reqs))
        /\ Len(Allowed(reqs)) \in Nat
    BY MissedFacts, SentFacts, AllowedFacts
  <2> HIDE DEF t
  <2>2. QED
    BY <1>2, <2>1
<1>4. MaxLoads # Absent => budget.loads + t.admitted <= MaxLoads[1]
  <2> HIDE DEF t
  <2>1. QED
    BY <1>2, AdmittedFit DEF BudgetInv
<1>5. \A i \in DOMAIN reqs :
        /\ SameTarget(t.answers[i].asked, reqs[i])
        /\ t.answers[i].status # 0 => reqs[i].url \in DOMAIN Web
  BY <1>1, AnswersFacts
<1>6. \A q \in ToSet(t.missed) :
        /\ ~Holds(cache, CacheKeyFor(q)) /\ q.referrer = <<Base>>
        /\ rebuild.mode = "full" \/ q.kind = "stylesheet"
  <2> HIDE DEF t
  <2>1. QED
    BY <1>2, MissedWereSent
<1>7. /\ Fits(t.touched) /\ Labelled(t.touched) /\ t.touched.held = cache.held
      /\ Len(t.touched.order) = Len(cache.order)
  <2> HIDE DEF t
  <2>1. QED
    BY <1>1, <1>2, UsedFits
<1>8. /\ Fits(t.stored) /\ Labelled(t.stored) /\ Len(cache.order) <= Len(t.stored.order)
      /\ Len(t.stored.order) < MaxEntries => DOMAIN cache.held \subseteq DOMAIN t.stored.held
  BY <1>1, KeptFromBatch
<1>9. \A w \in Warmed(t) :
       /\ w.referrer = <<Base>>
       /\ Len(t.stored.order) < MaxEntries => Holds(t.stored, CacheKeyFor(w))
  BY <1>1, WarmedIsHeld
<1>10. ASSUME t.missed = <<>> PROVE t.jars = {jar}
  <2>1. Missed(reqs) = <<>>
    BY <1>2, <1>10
  <2>2. DOMAIN Misses(reqs) = {}
    BY <2>1, MissedFacts
  <2>3. \A p \in DOMAIN Sent(reqs) : Kindly(reqs, down, p)
    BY <1>1, CachedFacts
  <2>4. \A p \in DOMAIN Sent(reqs) : Cached(reqs, down)[p].fromCache
    BY <2>2, <2>3 DEF Kindly
  <2>5. Len(Sent(reqs)) \in Nat /\ DOMAIN Sent(reqs) = 1..Len(Sent(reqs))
    BY SentFacts, ListFacts
  <2>6. JarsAfter(Sent(reqs), Cached(reqs, down)) = {jar}
    BY <2>4, <2>5, CachedSetsNothing
  <2>7. t.jars = JarsAfter(Sent(reqs), Cached(reqs, down))
    BY ThroughLayers
  <2>8. QED
    BY <2>6, <2>7
<1> HIDE DEF t
<1>11. Sound(t, reqs)
  BY <1>3, <1>4, <1>5, <1>6, <1>7, <1>8, <1>9, <1>10 DEF Sound
<1>12. QED
  BY <1>11 DEF t

-----------------------------------------------------------------------------
(* The invariant.                                                          *)

Fields == {"pc", "mode", "document", "reqs", "warm", "next", "sheets", "decoded"}
Prefetching == {"wave1", "wave2", "sheets", "fonts"}
Running(r) ==
  /\ r.pc \in Prefetching \cup {"import", "layout"} /\ DOMAIN r = Fields
  /\ r.mode \in {"full", "geometry"} /\ r.document \in Documents
  /\ AskList(r.reqs, r.document.base)
  /\ r.next \in Nat \ {0}
  /\ \A s \in r.sheets : s[1] \in DOMAIN Web
RebuildInv == Running(rebuild) \/ (rebuild.pc = "idle" /\ last = NoLoad)
\* What the prefetch got is still there as long as nothing has been evicted.
WarmInv ==
  rebuild.pc # "idle" =>
    \A w \in rebuild.warm :
      /\ w.referrer = <<Base>>
      /\ Len(cache.order) < MaxEntries => Holds(cache, CacheKeyFor(w))
LoadsInv ==
  /\ BudgetInv /\ CacheInv /\ RebuildInv /\ WarmInv
  /\ SheetsOnly /\ AnswersInPlace /\ WarmStaysWarm

\* A rebuild going on to its next stage keeps its document.
Moved(r) ==
  /\ Running(r) /\ r.mode = rebuild.mode /\ r.document = rebuild.document
  /\ r.warm = rebuild.warm /\ r.sheets = rebuild.sheets
GoesOn(r, pc, reqs) ==
  r = [rebuild EXCEPT !.pc = pc] \/ r = [rebuild EXCEPT !.pc = pc, !.reqs = reqs]

LEMMA MovingOn ==
  ASSUME Running(rebuild), NEW pc \in Prefetching \cup {"import", "layout"},
         NEW reqs, AskList(reqs, Base), NEW r, GoesOn(r, pc, reqs)
  PROVE  Moved(r)
<1>1. CASE r = [rebuild EXCEPT !.pc = pc]
  BY <1>1 DEF Moved, Running, Fields
<1>2. CASE r = [rebuild EXCEPT !.pc = pc, !.reqs = reqs]
  BY <1>2 DEF Moved, Running, Fields, Base
<1>3. QED
  BY <1>1, <1>2 DEF GoesOn

LEMMA AfterBatchRuns ==
  ASSUME Running(rebuild), rebuild.pc \in Prefetching, NEW answers, Known(rebuild.reqs, answers)
  PROVE  Moved(AfterBatch(answers))
<1> DEFINE r == AfterBatch(answers)
           d == rebuild.document
           second == SecondWave(rebuild.reqs, answers, d)
           sheets == FontSheets(d)
           fonts == FontRequests(PendingFonts(d, rebuild.reqs, answers))
<1>1. d \in Documents /\ IsList(rebuild.reqs) /\ AskList(rebuild.reqs, d.base)
  BY DEF Running, AskList
<1>2. AskList(second, Base)
  BY <1>1, SecondAsks DEF Base
<1>3. AskList(sheets, Base)
  <2>1. AskList(AddSubresources(<<>>, LinkRequests(d)), d.base)
    BY <1>1, LinkAsks, AddedAsks
  <2>2. QED
    BY <2>1 DEF FontSheets, Base
<1>4. AskList(fonts, Base)
  BY <1>1, FontAsks DEF Base
<1>5. \/ r = [rebuild EXCEPT !.pc = "wave2", !.reqs = second]
      \/ r = [rebuild EXCEPT !.pc = "import"]
      \/ r = [rebuild EXCEPT !.pc = "sheets", !.reqs = sheets]
      \/ r = [rebuild EXCEPT !.pc = "fonts", !.reqs = fonts]
  <2> HIDE DEF second, sheets, fonts
  <2>1. QED
    BY DEF AfterBatch, ToFonts, Prefetching, second, sheets, fonts
<1> HIDE DEF r, second, sheets, fonts
<1>6. CASE r = [rebuild EXCEPT !.pc = "wave2", !.reqs = second]
  <2> DEFINE pc == "wave2"
  <2>1. pc \in Prefetching \cup {"import", "layout"}
    BY DEF Prefetching
  <2>2. GoesOn(r, pc, second)
    BY <1>6 DEF GoesOn
  <2> HIDE DEF pc
  <2>3. Moved(r)
    BY <1>2, <2>2, <2>1, MovingOn
  <2>4. QED
    BY <2>3 DEF r
<1>7. CASE r = [rebuild EXCEPT !.pc = "import"]
  <2> DEFINE pc == "import"
  <2>1. pc \in Prefetching \cup {"import", "layout"}
    BY DEF Prefetching
  <2>2. GoesOn(r, pc, second)
    BY <1>7 DEF GoesOn
  <2> HIDE DEF pc
  <2>3. Moved(r)
    BY <1>2, <2>2, <2>1, MovingOn
  <2>4. QED
    BY <2>3 DEF r
<1>8. CASE r = [rebuild EXCEPT !.pc = "sheets", !.reqs = sheets]
  <2> DEFINE pc == "sheets"
  <2>1. pc \in Prefetching \cup {"import", "layout"}
    BY DEF Prefetching
  <2>2. GoesOn(r, pc, sheets)
    BY <1>8 DEF GoesOn
  <2> HIDE DEF pc
  <2>3. Moved(r)
    BY <1>3, <2>2, <2>1, MovingOn
  <2>4. QED
    BY <2>3 DEF r
<1>9. CASE r = [rebuild EXCEPT !.pc = "fonts", !.reqs = fonts]
  <2> DEFINE pc == "fonts"
  <2>1. pc \in Prefetching \cup {"import", "layout"}
    BY DEF Prefetching
  <2>2. GoesOn(r, pc, fonts)
    BY <1>9 DEF GoesOn
  <2> HIDE DEF pc
  <2>3. Moved(r)
    BY <1>4, <2>2, <2>1, MovingOn
  <2>4. QED
    BY <2>3 DEF r
<1>10. QED
  BY <1>5, <1>6, <1>7, <1>8, <1>9

LEMMA AfterThrowRuns ==
  ASSUME Running(rebuild), rebuild.pc \in Prefetching
  PROVE  Moved(AfterThrow)
<1> DEFINE r == AfterThrow
           d == rebuild.document
           sheets == FontSheets(d)
           fonts == FontRequests(PendingFonts(d, <<>>, <<>>))
<1>1. d \in Documents
  BY DEF Running
<1>2. AskList(sheets, Base)
  <2>1. AskList(AddSubresources(<<>>, LinkRequests(d)), d.base)
    BY <1>1, LinkAsks, AddedAsks
  <2>2. QED
    BY <2>1 DEF FontSheets, Base
<1>3. AskList(fonts, Base)
  <2>1. IsList(<<>>) /\ Known(<<>>, <<>>)
    BY DEF IsList, ToSet, Known
  <2>2. QED
    BY <1>1, <2>1, FontAsks DEF Base
<1>4. \/ r = [rebuild EXCEPT !.pc = "sheets", !.reqs = sheets]
      \/ r = [rebuild EXCEPT !.pc = "import", !.reqs = sheets]
      \/ r = [rebuild EXCEPT !.pc = "fonts", !.reqs = fonts]
      \/ r = [rebuild EXCEPT !.pc = "import"]
  <2> HIDE DEF sheets, fonts
  <2>1. QED
    BY DEF AfterThrow, ToFonts, Prefetching, sheets, fonts
<1> HIDE DEF r, sheets, fonts
<1>5. CASE r = [rebuild EXCEPT !.pc = "sheets", !.reqs = sheets]
  <2> DEFINE pc == "sheets"
  <2>1. pc \in Prefetching \cup {"import", "layout"}
    BY DEF Prefetching
  <2>2. GoesOn(r, pc, sheets)
    BY <1>5 DEF GoesOn
  <2> HIDE DEF pc
  <2>3. Moved(r)
    BY <1>2, <2>2, <2>1, MovingOn
  <2>4. QED
    BY <2>3 DEF r
<1>6. CASE r = [rebuild EXCEPT !.pc = "import", !.reqs = sheets]
  <2> DEFINE pc == "import"
  <2>1. pc \in Prefetching \cup {"import", "layout"}
    BY DEF Prefetching
  <2>2. GoesOn(r, pc, sheets)
    BY <1>6 DEF GoesOn
  <2> HIDE DEF pc
  <2>3. Moved(r)
    BY <1>2, <2>2, <2>1, MovingOn
  <2>4. QED
    BY <2>3 DEF r
<1>7. CASE r = [rebuild EXCEPT !.pc = "fonts", !.reqs = fonts]
  <2> DEFINE pc == "fonts"
  <2>1. pc \in Prefetching \cup {"import", "layout"}
    BY DEF Prefetching
  <2>2. GoesOn(r, pc, fonts)
    BY <1>7 DEF GoesOn
  <2> HIDE DEF pc
  <2>3. Moved(r)
    BY <1>3, <2>2, <2>1, MovingOn
  <2>4. QED
    BY <2>3 DEF r
<1>8. CASE r = [rebuild EXCEPT !.pc = "import"]
  <2> DEFINE pc == "import"
  <2>1. pc \in Prefetching \cup {"import", "layout"}
    BY DEF Prefetching
  <2>2. GoesOn(r, pc, sheets)
    BY <1>8 DEF GoesOn
  <2> HIDE DEF pc
  <2>3. Moved(r)
    BY <1>2, <2>2, <2>1, MovingOn
  <2>4. QED
    BY <2>3 DEF r
<1>9. QED
  BY <1>4, <1>5, <1>6, <1>7, <1>8

LEMMA OneAsk ==
  ASSUME NEW base, NEW q, IsAsk(q, base)
  PROVE  AskList(<<q>>, base)
<1>1. <<q>> \in Seq({q})
  OBVIOUS
<1>2. \A x \in {q} : IsAsk(x, base)
  OBVIOUS
<1>3. QED
  BY <1>1, <1>2, AskListOver

LEMMA ImagesAreAsks ==
  ASSUME Running(rebuild), NEW q \in ImageRequests
  PROVE  IsAsk(q, Base)
<1> DEFINE d == rebuild.document
           Own == {Ask("image", d.base, ref, d.base) : ref \in ToSet(d.images)}
           Styled == StyleRequests(d.styles, d.base, d.base)
           Of(s) == StyleRequests(Web[s[1]].styles, s[2], d.base)
<1>1. d \in Documents /\ \A s \in rebuild.sheets : s[1] \in DOMAIN Web
  BY DEF Running
<1>2. \/ q \in Own \/ q \in ToSet(Styled)
      \/ \E s \in rebuild.sheets : q \in ToSet(Of(s))
  BY DEF ImageRequests
<1>3. CASE q \in Own
  BY <1>3, AskIsAsk DEF Base
<1>4. CASE q \in ToSet(Styled)
  <2>1. IsList(d.styles)
    BY <1>1, RenderAssumption DEF RenderAssumption
  <2>2. AskList(Styled, d.base)
    BY <2>1, StyleAsks
  <2> HIDE DEF Styled
  <2>3. QED
    BY <1>4, <2>2 DEF AskList, Base
<1>5. ASSUME NEW s \in rebuild.sheets, q \in ToSet(Of(s)) PROVE IsAsk(q, Base)
  <2>1. IsList(Web[s[1]].styles)
    BY <1>1, RenderAssumption DEF RenderAssumption
  <2>2. AskList(Of(s), d.base)
    BY <2>1, StyleAsks
  <2> HIDE DEF Of
  <2>3. QED
    BY <1>5, <2>2 DEF AskList, Base
<1>6. QED
  BY <1>2, <1>3, <1>4, <1>5

-----------------------------------------------------------------------------
(* A load that comes back, and one that throws.                            *)

LEMMA NothingLast == last = NoLoad => SheetsOnly /\ AnswersInPlace /\ WarmStaysWarm
BY DEF NoLoad, SheetsOnly, AnswersInPlace, WarmStaysWarm, ToSet

\* What a rebuild keeps over a load.
SamePage == rebuild'.mode = rebuild.mode /\ rebuild'.document = rebuild.document

LEMMA AfterReturn ==
  ASSUME LoadsInv, Running(rebuild), NEW t, NEW reqs, Sound(t, reqs), NEW demand \in BOOLEAN, NEW time,
         Returns(t, reqs, demand, time), SamePage,
         \/ rebuild'.warm = rebuild.warm
         \/ ~demand /\ rebuild'.warm = rebuild.warm \cup Warmed(t)
  PROVE  /\ BudgetInv' /\ CacheInv' /\ WarmInv' /\ SheetsOnly' /\ AnswersInPlace' /\ WarmStaysWarm'
         /\ jar' # jar => net' > net
<1>0. rebuild.pc # "idle" /\ BudgetInv /\ CacheInv /\ WarmInv
  BY DEF LoadsInv, Running, Prefetching
<1>1. BudgetInv'
  <2>1. budget'.loads = budget.loads + t.admitted /\ net' = net + Len(t.missed)
    BY DEF Returns, RecordLoad
  <2>2. t.admitted \in Nat /\ Len(t.missed) \in Nat /\ Len(t.missed) <= t.admitted
        /\ (MaxLoads # Absent => budget.loads + t.admitted <= MaxLoads[1])
    BY DEF Sound
  <2>3. QED
    BY <1>0, <2>1, <2>2 DEF BudgetInv
<1>2. cache' = t.stored /\ Len(cache.order) \in Nat /\ Len(cache'.order) \in Nat /\ MaxEntries \in Nat
  BY <1>0, ListFacts, ResourceAssumption DEF Returns, Sound, CacheInv, Fits, ResourceAssumption
<1>3. CacheInv'
  BY <1>2 DEF CacheInv, Sound
<1>4. Len(cache'.order) < MaxEntries => Len(cache.order) < MaxEntries
  BY <1>2 DEF Sound
<1>5. WarmInv'
  <2>1. SUFFICES ASSUME NEW w \in rebuild'.warm
                 PROVE  /\ w.referrer = <<Base>>
                        /\ Len(cache'.order) < MaxEntries => Holds(cache', CacheKeyFor(w))
    BY DEF WarmInv, SamePage, Base
  <2>2. CASE w \in rebuild.warm
    <3>1. w.referrer = <<Base>> /\ (Len(cache.order) < MaxEntries => Holds(cache, CacheKeyFor(w)))
      BY <1>0, <2>2 DEF WarmInv
    <3>2. Len(cache'.order) < MaxEntries => DOMAIN cache.held \subseteq DOMAIN cache'.held
      BY <1>2 DEF Sound
    <3>3. QED
      BY <1>4, <3>1, <3>2 DEF Holds
  <2>3. CASE w \in Warmed(t)
    BY <1>2, <2>3 DEF Sound
  <2>4. QED
    BY <2>1, <2>2, <2>3
<1>6. /\ last'.reqs = reqs /\ last'.answers = t.answers /\ last'.missed = t.missed
      /\ last'.demand = demand
  BY DEF Returns
<1>7. SheetsOnly'
  <2>1. \A q \in ToSet(t.missed) : rebuild.mode = "full" \/ q.kind = "stylesheet"
    BY DEF Sound
  <2>2. rebuild'.mode = rebuild.mode
    BY DEF SamePage
  <2>3. QED
    BY <1>6, <2>1, <2>2 DEF SheetsOnly
<1>8. AnswersInPlace'
  BY <1>6 DEF AnswersInPlace, Sound
<1>9. WarmStaysWarm'
  <2>1. SUFFICES ASSUME demand, Len(cache'.order) < MaxEntries, NEW q \in ToSet(t.missed),
                        NEW w \in rebuild'.warm, SameTarget(w, q), w.cookies = q.cookies
                 PROVE  FALSE
    BY <1>6 DEF WarmStaysWarm
  <2>2. w.referrer = <<Base>> /\ Holds(cache, CacheKeyFor(w))
    BY <1>0, <1>4, <2>1 DEF WarmInv
  <2>3. q.referrer = <<Base>> /\ ~Holds(cache, CacheKeyFor(q))
    BY DEF Sound
  <2>4. CacheKeyFor(w) = CacheKeyFor(q)
    BY <2>1, <2>2, <2>3 DEF CacheKeyFor, SameTarget
  <2>5. QED
    BY <2>2, <2>3, <2>4
<1>10. ASSUME jar' # jar PROVE net' > net
  <2>1. jar' \in t.jars /\ net' = net + Len(t.missed) /\ Len(t.missed) \in Nat /\ net \in Nat
    BY <1>0 DEF Returns, Sound, BudgetInv
  <2>2. t.missed # <<>>
    BY <1>10, <2>1 DEF Sound
  <2>3. Len(t.missed) # 0
    <3>1. t.missed \in Seq(ToSet(t.missed))
      BY DEF Sound, IsList
    <3>2. QED
      BY <2>2, <3>1
  <2>4. QED
    BY <2>1, <2>3
<1>11. QED
  BY <1>1, <1>3, <1>5, <1>7, <1>8, <1>9, <1>10

LEMMA AfterThrown ==
  ASSUME LoadsInv, Running(rebuild), NEW t, NEW reqs, Sound(t, reqs), NEW time, Throws(t, time),
         rebuild'.pc = "idle" \/ (SamePage /\ rebuild'.warm = rebuild.warm)
  PROVE  /\ BudgetInv' /\ CacheInv' /\ WarmInv' /\ SheetsOnly' /\ AnswersInPlace' /\ WarmStaysWarm'
         /\ jar' = jar /\ last' = NoLoad
<1>0. rebuild.pc # "idle" /\ BudgetInv /\ CacheInv /\ WarmInv
  BY DEF LoadsInv, Running, Prefetching
<1>1. BudgetInv'
  <2>1. budget'.loads = budget.loads + t.admitted /\ net' = net + Len(t.missed)
    BY DEF Throws, RecordLoad
  <2>2. t.admitted \in Nat /\ Len(t.missed) \in Nat /\ Len(t.missed) <= t.admitted
        /\ (MaxLoads # Absent => budget.loads + t.admitted <= MaxLoads[1])
    BY DEF Sound
  <2>3. QED
    BY <1>0, <2>1, <2>2 DEF BudgetInv
<1>2. /\ cache' = t.touched /\ cache'.held = cache.held /\ Len(cache'.order) = Len(cache.order)
      /\ Fits(cache') /\ Labelled(cache')
  BY DEF Throws, Sound
<1>3. CacheInv'
  BY <1>2 DEF CacheInv
<1>4. WarmInv'
  BY <1>0, <1>2 DEF WarmInv, SamePage, Base, Holds
<1>5. last' = NoLoad /\ jar' = jar
  BY DEF Throws
<1>6. SheetsOnly' /\ AnswersInPlace' /\ WarmStaysWarm'
  BY <1>5 DEF NoLoad, SheetsOnly, AnswersInPlace, WarmStaysWarm, ToSet
<1>7. QED
  BY <1>1, <1>3, <1>4, <1>5, <1>6

-----------------------------------------------------------------------------
(* The steps.                                                              *)

LEMMA InitHolds == Init => LoadsInv
<1> SUFFICES ASSUME Init PROVE LoadsInv
  OBVIOUS
<1>1. BudgetInv
  BY RenderAssumption DEF Init, Fresh, BudgetInv, RenderAssumption
<1>2. CacheInv
  BY EmptyFits DEF Init, CacheInv
<1>3. rebuild.pc = "idle" /\ last = NoLoad
  BY DEF Init
<1>4. QED
  BY <1>1, <1>2, <1>3, NothingLast DEF LoadsInv, RebuildInv, WarmInv

\* Every step keeps the invariant, and moves the jar with a transfer or as a
\* script writes.
StepDone == LoadsInv' /\ (jar' # jar => net' > net \/ \E o \in ScriptOffers : ScriptWrites(o))

LEMMA StartDone ==
  ASSUME LoadsInv, NEW d \in Documents, NEW m \in {"full", "geometry"}, StartRebuild(d, m)
  PROVE  StepDone
<1>1. BudgetInv'
  BY RenderAssumption DEF StartRebuild, Fresh, BudgetInv, RenderAssumption
<1>2. CacheInv'
  BY DEF StartRebuild, LoadsInv, CacheInv, Fits, Labelled, Answers
<1>3. AskList(rebuild'.reqs, d.base)
  <2>1. rebuild'.reqs = CollectDomSubresources(d) \/ rebuild'.reqs = Stylesheets(CollectDomSubresources(d))
    BY DEF StartRebuild
  <2>2. QED
    BY <2>1, CollectedAsks, SheetAsks
<1>4. Running(rebuild')
  <2>1. /\ rebuild'.pc = "wave1" /\ DOMAIN rebuild' = Fields /\ rebuild'.mode = m
        /\ rebuild'.document = d /\ rebuild'.next = 1 /\ rebuild'.sheets = {}
    BY DEF StartRebuild, Fields
  <2>2. QED
    BY <1>3, <2>1 DEF Running, Prefetching
<1>5. rebuild'.warm = {} /\ last' = NoLoad /\ jar' = jar
  BY DEF StartRebuild
<1>6. SheetsOnly' /\ AnswersInPlace' /\ WarmStaysWarm'
  BY <1>5 DEF NoLoad, SheetsOnly, AnswersInPlace, WarmStaysWarm, ToSet
<1>7. WarmInv' /\ RebuildInv'
  BY <1>4, <1>5 DEF WarmInv, RebuildInv, Running
<1>8. QED
  BY <1>1, <1>2, <1>5, <1>6, <1>7 DEF StepDone, LoadsInv

LEMMA BatchDone ==
  ASSUME LoadsInv, NEW down, NEW time, Batch(down, time)
  PROVE  StepDone
<1> DEFINE b == TRUE
           t == Through(rebuild.reqs, b, down)
           demand == FALSE
<1>1. rebuild.pc \in Prefetching
  BY DEF Batch, Prefetching
<1>2. Running(rebuild) /\ BudgetInv /\ CacheInv
  BY <1>1 DEF LoadsInv, RebuildInv, Prefetching
<1>3. AskList(rebuild.reqs, Base)
  BY <1>2 DEF Running, Base
<1>4. \/ /\ Returns(t, rebuild.reqs, demand, time)
         /\ rebuild' = [AfterBatch(t.answers) EXCEPT !.warm = @ \cup Warmed(t)]
      \/ Throws(t, time) /\ rebuild' = AfterThrow
  BY DEF Batch
<1>5. demand \in BOOLEAN /\ ~demand
  OBVIOUS
<1> HIDE DEF b, demand
<1>6. Sound(t, rebuild.reqs)
  BY <1>2, <1>3, LoadIsSound
<1> HIDE DEF t
<1>7. CASE Returns(t, rebuild.reqs, demand, time)
           /\ rebuild' = [AfterBatch(t.answers) EXCEPT !.warm = @ \cup Warmed(t)]
  <2> DEFINE r == AfterBatch(t.answers)
  <2>1. Known(rebuild.reqs, t.answers)
    BY <1>6, GoodIsStored DEF Known, Sound
  <2>2. Moved(r)
    BY <1>1, <1>2, <2>1, AfterBatchRuns
  <2>3. rebuild' = [r EXCEPT !.warm = @ \cup Warmed(t)]
    BY <1>7
  <2> HIDE DEF r
  <2>4. /\ Running(rebuild') /\ SamePage
        /\ rebuild'.warm = rebuild.warm \cup Warmed(t)
    BY <2>2, <2>3 DEF Moved, Running, Fields, SamePage
  <2>5. /\ BudgetInv' /\ CacheInv' /\ WarmInv' /\ SheetsOnly' /\ AnswersInPlace' /\ WarmStaysWarm'
        /\ jar' # jar => net' > net
    BY <1>2, <1>5, <1>6, <1>7, <2>4, AfterReturn
  <2>6. RebuildInv'
    BY <2>4 DEF RebuildInv
  <2>7. QED
    BY <2>5, <2>6 DEF StepDone, LoadsInv
<1>8. CASE Throws(t, time) /\ rebuild' = AfterThrow
  <2>1. Moved(rebuild')
    BY <1>1, <1>2, <1>8, AfterThrowRuns
  <2>2. Running(rebuild') /\ SamePage /\ rebuild'.warm = rebuild.warm
    BY <2>1 DEF Moved, SamePage
  <2>3. /\ BudgetInv' /\ CacheInv' /\ WarmInv' /\ SheetsOnly' /\ AnswersInPlace' /\ WarmStaysWarm'
        /\ jar' = jar /\ last' = NoLoad
    BY <1>2, <1>6, <1>8, <2>2, AfterThrown
  <2>4. RebuildInv'
    BY <2>2 DEF RebuildInv
  <2>5. QED
    BY <2>3, <2>4 DEF StepDone, LoadsInv
<1>9. QED
  BY <1>4, <1>7, <1>8

LEMMA ImportDone ==
  ASSUME LoadsInv, NEW down, NEW time, ImportCss(down, time)
  PROVE  StepDone
<1> DEFINE document == rebuild.document
           request == Ask("stylesheet", document.base, document.links[rebuild.next], document.base)
           b == FALSE
           demand == TRUE
           reqs == <<request>>
           t == Through(reqs, b, down)
           answer == t.answers[1]
           base == IF answer.status = 0 THEN {} ELSE {<<request.url, answer.url>>}
<1>1. rebuild.pc = "import"
  BY DEF ImportCss
<1>2. Running(rebuild) /\ BudgetInv /\ CacheInv
  BY <1>1 DEF LoadsInv, RebuildInv
<1>3. AskList(reqs, Base) /\ DOMAIN reqs = {1} /\ reqs[1] = request
  <2>1. IsAsk(request, Base)
    BY AskIsAsk DEF Base
  <2> HIDE DEF request
  <2>2. QED
    BY <2>1, OneAsk
<1>4. \/ Throws(t, time) /\ rebuild' = [pc |-> "idle"]
      \/ /\ Returns(t, reqs, demand, time)
         /\ rebuild' = [rebuild EXCEPT !.next = @ + 1, !.sheets = @ \cup base]
  BY DEF ImportCss
<1>5. demand \in BOOLEAN
  OBVIOUS
<1> HIDE DEF b, demand, reqs
<1>6. Sound(t, reqs)
  BY <1>2, <1>3, LoadIsSound
<1>7. \A s \in base : s[1] \in DOMAIN Web
  <2> HIDE DEF t, request
  <2>1. answer.status # 0 => request.url \in DOMAIN Web
    BY <1>3, <1>6 DEF Sound
  <2>2. QED
    BY <2>1
<1> HIDE DEF t, base
<1>8. CASE Throws(t, time) /\ rebuild' = [pc |-> "idle"]
  <2>1. rebuild'.pc = "idle"
    BY <1>8
  <2>2. /\ BudgetInv' /\ CacheInv' /\ WarmInv' /\ SheetsOnly' /\ AnswersInPlace' /\ WarmStaysWarm'
        /\ jar' = jar /\ last' = NoLoad
    BY <1>2, <1>6, <1>8, <2>1, AfterThrown
  <2>3. RebuildInv'
    BY <2>1, <2>2 DEF RebuildInv
  <2>4. QED
    BY <2>2, <2>3 DEF StepDone, LoadsInv
<1>9. CASE /\ Returns(t, reqs, demand, time)
           /\ rebuild' = [rebuild EXCEPT !.next = @ + 1, !.sheets = @ \cup base]
  <2>1. /\ Running(rebuild') /\ SamePage /\ rebuild'.warm = rebuild.warm
    BY <1>2, <1>7, <1>9 DEF Running, Fields, SamePage
  <2>2. /\ BudgetInv' /\ CacheInv' /\ WarmInv' /\ SheetsOnly' /\ AnswersInPlace' /\ WarmStaysWarm'
        /\ jar' # jar => net' > net
    BY <1>2, <1>5, <1>6, <1>9, <2>1, AfterReturn
  <2>3. RebuildInv'
    BY <2>1 DEF RebuildInv
  <2>4. QED
    BY <2>2, <2>3 DEF StepDone, LoadsInv
<1>10. QED
  BY <1>4, <1>8, <1>9

LEMMA ImageDone ==
  ASSUME LoadsInv, rebuild.pc = "layout", NEW request \in ImageRequests, NEW down, NEW time,
         DecodedImageFor(request, down, time)
  PROVE  StepDone
<1> DEFINE b == FALSE
           demand == TRUE
           reqs == <<request>>
           t == Through(reqs, b, down)
<1>1. Running(rebuild) /\ BudgetInv /\ CacheInv
  BY DEF LoadsInv, RebuildInv
<1>2. AskList(reqs, Base)
  BY <1>1, ImagesAreAsks, OneAsk
<1>3. Throws(t, time) \/ Returns(t, reqs, demand, time)
  BY DEF DecodedImageFor
<1>4. demand \in BOOLEAN
  OBVIOUS
<1> HIDE DEF b, demand, reqs
<1>5. Sound(t, reqs)
  BY <1>1, <1>2, LoadIsSound
<1> HIDE DEF t
<1>6. /\ Running(rebuild') /\ SamePage /\ rebuild'.warm = rebuild.warm
  <2>1. rebuild' = [rebuild EXCEPT !.decoded = @ \cup {request.url}]
    BY DEF DecodedImageFor
  <2>2. QED
    BY <1>1, <2>1 DEF Running, Fields, SamePage
<1>7. RebuildInv'
  BY <1>6 DEF RebuildInv
<1>8. CASE Throws(t, time)
  <2>1. /\ BudgetInv' /\ CacheInv' /\ WarmInv' /\ SheetsOnly' /\ AnswersInPlace' /\ WarmStaysWarm'
        /\ jar' = jar /\ last' = NoLoad
    BY <1>1, <1>5, <1>6, <1>8, AfterThrown
  <2>2. QED
    BY <1>7, <2>1 DEF StepDone, LoadsInv
<1>9. CASE Returns(t, reqs, demand, time)
  <2>1. /\ BudgetInv' /\ CacheInv' /\ WarmInv' /\ SheetsOnly' /\ AnswersInPlace' /\ WarmStaysWarm'
        /\ jar' # jar => net' > net
    BY <1>1, <1>4, <1>5, <1>6, <1>9, AfterReturn
  <2>2. QED
    BY <1>7, <2>1 DEF StepDone, LoadsInv
<1>10. QED
  BY <1>3, <1>8, <1>9

LEMMA LaidDone ==
  ASSUME LoadsInv, Laid
  PROVE  StepDone
<1>1. /\ jar' = jar /\ cache' = cache /\ budget' = budget /\ last' = last /\ net' = net
      /\ rebuild.pc = "import" /\ rebuild' = [rebuild EXCEPT !.pc = "layout"]
  BY DEF Laid
<1>2. Running(rebuild)
  BY <1>1 DEF LoadsInv, RebuildInv
<1>3. /\ Running(rebuild') /\ rebuild'.mode = rebuild.mode /\ rebuild'.warm = rebuild.warm
      /\ rebuild'.document = rebuild.document /\ rebuild.pc # "idle"
  BY <1>1, <1>2 DEF Running, Fields
<1>4. BudgetInv' /\ CacheInv' /\ AnswersInPlace'
  BY <1>1 DEF LoadsInv, BudgetInv, CacheInv, Fits, Labelled, Answers, AnswersInPlace
<1>5. WarmInv'
  BY <1>1, <1>3 DEF LoadsInv, WarmInv, Base
<1>6. SheetsOnly' /\ WarmStaysWarm'
  BY <1>1, <1>3 DEF LoadsInv, SheetsOnly, WarmStaysWarm
<1>7. QED
  BY <1>1, <1>3, <1>4, <1>5, <1>6 DEF StepDone, LoadsInv, RebuildInv

LEMMA WriteDone ==
  ASSUME LoadsInv, NEW offer \in ScriptOffers, ScriptWrites(offer)
  PROVE  StepDone
<1>1. cache' = cache /\ budget' = budget /\ rebuild' = rebuild /\ last' = last /\ net' = net
  BY DEF ScriptWrites
<1>2. LoadsInv'
  BY <1>1 DEF LoadsInv, BudgetInv, CacheInv, Fits, Labelled, Answers, AnswersInPlace, WarmInv,
              RebuildInv, SheetsOnly, WarmStaysWarm, Base
<1>3. QED
  BY <1>2 DEF StepDone

LEMMA ResetDone ==
  ASSUME LoadsInv, Reset
  PROVE  StepDone
<1>1. /\ cache' = EmptyCache /\ budget' = budget /\ rebuild'.pc = "idle" /\ last' = NoLoad
      /\ net' = net /\ jar' = jar
  BY DEF Reset
<1>2. BudgetInv' /\ WarmInv' /\ RebuildInv'
  BY <1>1 DEF LoadsInv, BudgetInv, WarmInv, RebuildInv
<1>3. CacheInv'
  BY <1>1, EmptyFits DEF CacheInv
<1>4. SheetsOnly' /\ AnswersInPlace' /\ WarmStaysWarm'
  BY <1>1 DEF NoLoad, SheetsOnly, AnswersInPlace, WarmStaysWarm, ToSet
<1>5. QED
  BY <1>1, <1>2, <1>3, <1>4 DEF StepDone, LoadsInv

LEMMA NextDone == LoadsInv /\ [Next]_vars => StepDone
<1> SUFFICES ASSUME LoadsInv, [Next]_vars PROVE StepDone
  OBVIOUS
<1>1. CASE \E d \in Documents, m \in {"full", "geometry"} : StartRebuild(d, m)
  BY <1>1, StartDone
<1>2. CASE \E down, time : Batch(down, time)
  BY <1>2, BatchDone
<1>3. CASE \E down, time : ImportCss(down, time)
  BY <1>3, ImportDone
<1>4. CASE rebuild.pc = "layout" /\ \E down, time : \E q \in ImageRequests : DecodedImageFor(q, down, time)
  BY <1>4, ImageDone
<1>5. CASE Laid
  BY <1>5, LaidDone
<1>6. CASE \E o \in ScriptOffers : ScriptWrites(o)
  BY <1>6, WriteDone
<1>7. CASE Reset
  BY <1>7, ResetDone
<1>8. CASE UNCHANGED vars
  <2>1. LoadsInv'
    BY <1>8 DEF vars, LoadsInv, BudgetInv, CacheInv, Fits, Labelled, Answers, AnswersInPlace, WarmInv,
                RebuildInv, SheetsOnly, WarmStaysWarm, Base
  <2>2. QED
    BY <1>8, <2>1 DEF vars, StepDone
<1>9. QED
  BY <1>1, <1>2, <1>3, <1>4, <1>5, <1>6, <1>7, <1>8 DEF Next

LEMMA LoadsInvHolds == Spec => []LoadsInv
<1>1. LoadsInv /\ [Next]_vars => LoadsInv'
  BY NextDone DEF StepDone
<1>2. QED
  BY <1>1, InitHolds, PTL DEF Spec

\* However the waves, the fonts and the single loads of a rebuild come out, and
\* whatever the documents, the answers and the limits are: no more transfers
\* and no more loads than max_external_resource_loads, nothing but stylesheets
\* transferred for geometry, and every answer in the place of its request
\* (render_resource_loaders.cpp:85 and 171, resource_loader.cpp:1920).
THEOREM LayersAlwaysHold == Spec => []LayersHold
<1>1. LoadsInv => LayersHold
  <2>1. SUFFICES ASSUME LoadsInv PROVE BudgetIsExact
    BY DEF LoadsInv, LayersHold
  <2>2. ASSUME MaxLoads # Absent PROVE net <= MaxLoads[1] /\ budget.loads <= MaxLoads[1]
    BY <2>1, <2>2, RenderAssumption DEF LoadsInv, BudgetInv, RenderAssumption
  <2>3. QED
    BY <2>2 DEF BudgetIsExact
<1>2. QED
  BY <1>1, LoadsInvHolds, PTL

\* What the prefetch got is not transferred again for the layout, for any
\* documents and answers: the layout's request has the key the prefetch's had,
\* and a cache below its bound has lost nothing (subresource_scanner.cpp:303,
\* litehtml_layout.cpp:319-335).
THEOREM WarmAlwaysStaysWarm == Spec => []WarmStaysWarm
<1>1. LoadsInv => WarmStaysWarm
  BY DEF LoadsInv
<1>2. QED
  BY <1>1, LoadsInvHolds, PTL

\* The jar changes by a script's write or with a transfer: no answer from the
\* cache stores its cookies a second time (store_from_response,
\* cookie_jar.cpp:430).
THEOREM JarAlwaysMovesByTransfers == Spec => JarMovesByTransfers
<1>1. LoadsInv /\ [Next]_vars =>
        [jar' # jar => net' > net \/ \E o \in ScriptOffers : ScriptWrites(o)]_vars
  BY NextDone DEF StepDone
<1>2. QED
  BY <1>1, LoadsInvHolds, PTL DEF Spec, JarMovesByTransfers
=============================================================================
