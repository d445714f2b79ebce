-------------------------- MODULE InductionLemmas --------------------------
(***************************************************************************)
(* Induction on the natural numbers, stated for sets of them: the provers  *)
(* can instantiate a set where they cannot instantiate a predicate.  With  *)
(* it, that recursive functions exist, and what Kept returns.              *)
(***************************************************************************)
EXTENDS Keeping, SequencesExt, FiniteSetTheorems, WellFoundedInduction, TLAPS

\* A set of numbers with a member has a least one.
LEMMA LeastNumber ==
  ASSUME NEW T \in SUBSET Nat, T # {}
  PROVE  \E n \in T : \A m \in T : n <= m
<1> DEFINE Below == {p \in Nat \X Nat : p[1] < p[2]}
<1>1. IsWellFoundedOn(Below, Nat)
  BY NatLessThanWellFounded DEF OpToRel
<1>2. PICK n \in T : \A m \in T : ~(<<m, n>> \in Below)
  <2> HIDE DEF Below
  <2>1. QED
    BY <1>1, WFMin
<1>3. ASSUME NEW m \in T PROVE n <= m
  <2> DEFINE pair == <<m, n>>
  <2>1. pair \in Nat \X Nat /\ pair[1] = m /\ pair[2] = n
    OBVIOUS
  <2>2. pair \notin Below
    BY <1>2
  <2>3. ~(pair[1] < pair[2])
    <3> HIDE DEF pair
    <3>1. QED
      BY <2>1, <2>2
  <2>4. QED
    BY <2>1, <2>3
<1>4. QED
  BY <1>3

\* A set of numbers that holds 0, and with each number the next, holds all.
LEMMA SetInduction ==
  ASSUME NEW S \in SUBSET Nat, 0 \in S, \A n \in S : n + 1 \in S
  PROVE  S = Nat
<1> SUFFICES ASSUME Nat \ S # {} PROVE FALSE
  OBVIOUS
<1>1. PICK n \in Nat \ S : \A m \in Nat \ S : n <= m
  BY LeastNumber
<1>2. n - 1 \in Nat /\ n - 1 \notin Nat \ S
  BY <1>1
<1>3. QED
  BY <1>1, <1>2

\* Some f starts as first and takes step n by Step[n], up to step L.
Recurs(V, first, Step, L) ==
  \E f \in [0 .. L -> V] : f[0] = first /\ \A n \in 1 .. L : f[n] = Step[n][f[n - 1]]

\* What a recursive function of a module is there to be.
LEMMA RecursiveFunction ==
  ASSUME NEW V, NEW first \in V, NEW Step \in [Nat -> [V -> V]], NEW L \in Nat
  PROVE  Recurs(V, first, Step, L)
<1> DEFINE Good(n, f) == f[0] = first /\ \A i \in 1 .. n : f[i] = Step[i][f[i - 1]]
           S == {n \in Nat : \E f \in [0 .. n -> V] : Good(n, f)}
<1>1. 0 \in S
  <2>1. [i \in 0 .. 0 |-> first] \in [0 .. 0 -> V] /\ Good(0, [i \in 0 .. 0 |-> first])
    OBVIOUS
  <2>2. QED
    BY <2>1
<1>2. ASSUME NEW n \in S PROVE n + 1 \in S
  <2>1. PICK f \in [0 .. n -> V] : Good(n, f)
    OBVIOUS
  <2> DEFINE g == [i \in 0 .. n + 1 |-> IF i = n + 1 THEN Step[n + 1][f[n]] ELSE f[i]]
  <2>2. n \in Nat /\ f[n] \in V
    OBVIOUS
  <2>3. Step[n + 1][f[n]] \in V
    BY <2>2
  <2>4. g \in [0 .. n + 1 -> V]
    BY <2>2, <2>3
  <2>5. \A i \in 0 .. n : g[i] = f[i]
    BY <2>2
  <2>6. g[n + 1] = Step[n + 1][f[n]]
    BY <2>2
  <2>7. Good(n + 1, g)
    <3> HIDE DEF g
    <3>1. g[0] = first
      BY <2>1, <2>2, <2>5
    <3>2. ASSUME NEW i \in 1 .. n + 1 PROVE g[i] = Step[i][g[i - 1]]
      <4>1. CASE i = n + 1
        <5>1. i - 1 = n /\ g[n] = f[n]
          BY <2>2, <2>5, <4>1
        <5>2. QED
          BY <2>6, <4>1, <5>1
      <4>2. CASE i # n + 1
        <5>1. i \in 1 .. n /\ i \in 0 .. n /\ i - 1 \in 0 .. n
          BY <2>2, <4>2
        <5>2. g[i] = f[i] /\ g[i - 1] = f[i - 1]
          BY <2>5, <5>1
        <5>3. QED
          BY <2>1, <5>1, <5>2
      <4>3. QED
        BY <4>1, <4>2
    <3>3. QED
      BY <3>1, <3>2
  <2>8. QED
    <3> HIDE DEF g, Good
    <3>1. n + 1 \in Nat
      BY <2>2
    <3>2. QED
      BY <2>4, <2>7, <3>1
<1>3. S = Nat
  <2> HIDE DEF S
  <2>1. S \in SUBSET Nat
    BY DEF S
  <2>2. QED
    BY <1>1, <1>2, <2>1, SetInduction
<1>4. QED
  BY <1>3 DEF Recurs

-----------------------------------------------------------------------------
(* Sequences, and the part a loop keeps of one.                            *)

\* The steps of a loop that keeps some elements.
KeptInSteps(X, s, keep, f) ==
  /\ f \in [0 .. Len(s) -> Seq(X)] /\ f[0] = <<>> /\ Kept(s, keep) = f[Len(s)]
  /\ \A n \in 1 .. Len(s) : f[n] = IF s[n] \in keep THEN Append(f[n - 1], s[n]) ELSE f[n - 1]

LEMMA KeptUnfolds ==
  ASSUME NEW X, NEW s \in Seq(X), NEW keep
  PROVE  \E f : KeptInSteps(X, s, keep, f)
<1> DEFINE L == Len(s)
           Step == [n \in Nat |-> [q \in Seq(X) |->
                     IF n \in 1 .. L /\ s[n] \in keep THEN Append(q, s[n]) ELSE q]]
           Is(f) == f = [n \in 0 .. L |-> IF n = 0 THEN <<>>
                           ELSE IF s[n] \in keep THEN Append(f[n - 1], s[n]) ELSE f[n - 1]]
<1>1. L \in Nat /\ <<>> \in Seq(X) /\ \A n \in 1 .. L : s[n] \in X
  OBVIOUS
<1>2. Step \in [Nat -> [Seq(X) -> Seq(X)]]
  <2>1. ASSUME NEW n \in 1 .. L, NEW q \in Seq(X) PROVE Append(q, s[n]) \in Seq(X)
    BY <1>1
  <2>2. QED
    BY <2>1
<1>3. PICK f \in [0 .. L -> Seq(X)] : f[0] = <<>> /\ \A n \in 1 .. L : f[n] = Step[n][f[n - 1]]
  <2> DEFINE V == Seq(X)
             first == <<>>
  <2>1. first \in V
    BY <1>1
  <2>2. Step \in [Nat -> [V -> V]]
    BY <1>2
  <2>3. L \in Nat
    BY <1>1
  <2> HIDE DEF Step, L, V, first
  <2>4. Recurs(V, first, Step, L)
    BY <2>1, <2>2, <2>3, RecursiveFunction
  <2>5. QED
    BY <2>4 DEF V, first, Recurs
<1>4. ASSUME NEW n \in 1 .. L
      PROVE  f[n] = IF s[n] \in keep THEN Append(f[n - 1], s[n]) ELSE f[n - 1]
  <2>1. n \in Nat /\ f[n - 1] \in Seq(X)
    BY <1>1
  <2>2. Step[n][f[n - 1]] = IF s[n] \in keep THEN Append(f[n - 1], s[n]) ELSE f[n - 1]
    BY <2>1
  <2>3. QED
    BY <1>3, <2>2
<1>5. Is(f)
  <2> HIDE DEF L, Step
  <2>1. \A n \in 0 .. L : n # 0 => n \in 1 .. L
    BY <1>1
  <2>2. \A n \in 0 .. L : f[n] = IF n = 0 THEN <<>>
                           ELSE IF s[n] \in keep THEN Append(f[n - 1], s[n]) ELSE f[n - 1]
    BY <1>3, <1>4, <2>1
  <2>3. f = [n \in 0 .. L |-> f[n]]
    OBVIOUS
  <2>4. QED
    BY <2>2, <2>3, Zenon
<1>6. Kept(s, keep) = (CHOOSE g : Is(g))[L]
  BY DEF Kept
<1> DEFINE h == CHOOSE g : Is(g)
<1>7. Is(h)
  BY <1>5
<1> HIDE DEF h
<1>8. h[0] = <<>> /\ \A n \in 1 .. L : h[n] = IF s[n] \in keep THEN Append(h[n - 1], s[n]) ELSE h[n - 1]
  <2> HIDE DEF L
  <2>1. \A n \in 0 .. L : h[n] = IF n = 0 THEN <<>>
                           ELSE IF s[n] \in keep THEN Append(h[n - 1], s[n]) ELSE h[n - 1]
    BY <1>7, Zenon
  <2>2. 0 \in 0 .. L /\ \A n \in 1 .. L : n \in 0 .. L /\ n # 0
    BY <1>1
  <2>3. QED
    BY <2>1, <2>2
<1>9. h \in [0 .. L -> Seq(X)]
  <2> DEFINE T == {n \in Nat : n <= L => h[n] \in Seq(X)}
  <2>1. 0 \in T
    BY <1>1, <1>8
  <2>2. ASSUME NEW n \in T PROVE n + 1 \in T
    <3> SUFFICES ASSUME n + 1 <= L PROVE h[n + 1] \in Seq(X)
      OBVIOUS
    <3> HIDE DEF Is, L
    <3>1. n + 1 \in 1 .. L /\ (n + 1) - 1 = n /\ h[n] \in Seq(X)
      BY <1>1
    <3>2. h[n + 1] = IF s[n + 1] \in keep THEN Append(h[n], s[n + 1]) ELSE h[n]
      BY <1>8, <3>1
    <3>3. s[n + 1] \in X
      BY <1>1, <3>1
    <3>4. QED
      BY <3>1, <3>2, <3>3
  <2>3. T = Nat
    <3> HIDE DEF T
    <3>1. T \in SUBSET Nat
      BY DEF T
    <3>2. QED
      BY <2>1, <2>2, <3>1, SetInduction
  <2>4. \A n \in 0 .. L : h[n] \in Seq(X)
    BY <1>1, <2>3
  <2>5. h = [n \in 0 .. L |-> h[n]]
    BY <1>7
  <2>6. QED
    BY <2>4, <2>5
<1>10. Kept(s, keep) = h[L]
  BY <1>6 DEF h
<1>11. KeptInSteps(X, s, keep, h)
  BY <1>8, <1>9, <1>10 DEF KeptInSteps
<1>12. QED
  BY <1>11

\* part has elements of whole in the order whole has them.
IsPart(part, whole, e) ==
  /\ e \in [DOMAIN part -> DOMAIN whole]
  /\ \A i \in DOMAIN part : part[i] = whole[e[i]]
  /\ \A i, j \in DOMAIN part : i < j => e[i] < e[j]
Part(part, whole) == \E e \in [DOMAIN part -> DOMAIN whole] : IsPart(part, whole, e)

LEMMA SeqFacts ==
  ASSUME NEW X, NEW s \in Seq(X)
  PROVE  /\ Len(s) \in Nat /\ DOMAIN s = 1 .. Len(s)
         /\ \A i \in DOMAIN s : i \in Nat /\ s[i] \in X
         /\ ToSet(s) = {s[i] : i \in DOMAIN s} /\ ToSet(s) \subseteq X
BY DEF ToSet

LEMMA AppendFacts ==
  ASSUME NEW X, NEW s \in Seq(X), NEW c \in X
  PROVE  /\ Append(s, c) \in Seq(X)
         /\ DOMAIN Append(s, c) = DOMAIN s \cup {Len(s) + 1}
         /\ Len(Append(s, c)) = Len(s) + 1 /\ Len(s) + 1 \notin DOMAIN s
         /\ Append(s, c)[Len(s) + 1] = c
         /\ \A i \in DOMAIN s : Append(s, c)[i] = s[i]
OBVIOUS

\* Keeping all changes nothing, keeping some leaves a part.
LEMMA KeptFacts ==
  ASSUME NEW X, NEW s \in Seq(X), NEW keep
  PROVE  /\ Kept(s, keep) \in Seq(X)
         /\ Part(Kept(s, keep), s)
         /\ ToSet(Kept(s, keep)) = ToSet(s) \cap keep
         /\ ToSet(s) \subseteq keep => Kept(s, keep) = s
<1> DEFINE L == Len(s)
<1>1. PICK f \in [0 .. L -> Seq(X)] :
         /\ f[0] = <<>> /\ Kept(s, keep) = f[L]
         /\ \A n \in 1 .. L : f[n] = IF s[n] \in keep THEN Append(f[n - 1], s[n]) ELSE f[n - 1]
  <2>1. PICK f : KeptInSteps(X, s, keep, f)
    BY KeptUnfolds
  <2>2. QED
    BY <2>1 DEF KeptInSteps
<1>2. L \in Nat /\ DOMAIN s = 1 .. L /\ \A n \in 1 .. L : s[n] \in X
  OBVIOUS
<1> DEFINE Of(n, e) ==
             /\ e \in [DOMAIN f[n] -> 1 .. n]
             /\ \A i \in DOMAIN f[n] : f[n][i] = s[e[i]] /\ s[e[i]] \in keep
             /\ \A i, j \in DOMAIN f[n] : i < j => e[i] < e[j]
             /\ \A m \in 1 .. n : s[m] \in keep => \E i \in DOMAIN f[n] : e[i] = m
           Good(n) == \E e \in [DOMAIN f[n] -> 1 .. n] : Of(n, e)
           T == {n \in Nat : n <= L => Good(n)}
<1> HIDE DEF L
<1>3. 0 \in T
  <2>1. DOMAIN f[0] = {} /\ 1 .. 0 = {}
    BY <1>1
  <2> DEFINE e == [i \in {} |-> 0]
  <2>2. Of(0, e)
    BY <2>1
  <2>3. QED
    BY <2>1, <2>2
<1>4. ASSUME NEW n \in T PROVE n + 1 \in T
  <2> SUFFICES ASSUME n + 1 <= L PROVE Good(n + 1)
    <3> HIDE DEF Good
    <3>1. n + 1 \in Nat
      OBVIOUS
    <3>2. QED
      BY <3>1
  <2>1. n \in Nat /\ Good(n) /\ n \in 0 .. L /\ n + 1 \in 1 .. L /\ (n + 1) - 1 = n
    <3> HIDE DEF Good
    <3>1. QED
      BY <1>2
  <2>2. PICK e \in [DOMAIN f[n] -> 1 .. n] : Of(n, e)
    BY <2>1
  <2>3. f[n] \in Seq(X) /\ s[n + 1] \in X
    BY <1>2, <2>1
  <2>4. f[n + 1] = IF s[n + 1] \in keep THEN Append(f[n], s[n + 1]) ELSE f[n]
    BY <1>1, <2>1
  <2>5. CASE s[n + 1] \notin keep
    <3>1. f[n + 1] = f[n] /\ 1 .. n \subseteq 1 .. n + 1
      BY <2>1, <2>4, <2>5
    <3>2. \A m \in 1 .. n + 1 : m = n + 1 \/ m \in 1 .. n
      BY <2>1
    <3>3. Of(n + 1, e)
      BY <2>2, <2>5, <3>1, <3>2
    <3>4. e \in [DOMAIN f[n + 1] -> 1 .. n + 1]
      BY <3>3
    <3>5. QED
      BY <3>3, <3>4
  <2>6. CASE s[n + 1] \in keep
    <3> DEFINE q == f[n]
               k == Len(q) + 1
               r == f[n + 1]
               d == [i \in DOMAIN q \cup {k} |-> IF i = k THEN n + 1 ELSE e[i]]
    <3>1. r = Append(q, s[n + 1])
      BY <2>4, <2>6
    <3>2. /\ DOMAIN r = DOMAIN q \cup {k} /\ k \notin DOMAIN q
          /\ r[k] = s[n + 1] /\ \A i \in DOMAIN q : r[i] = q[i]
      <4> HIDE DEF r
      <4>1. QED
        BY <2>3, <3>1, AppendFacts
    <3>3. \A i \in DOMAIN q : i \in Nat /\ i < k
      BY <2>3
    <3>4. k \in Nat
      BY <2>3
    <3> HIDE DEF q, k, r
    <3>5. /\ e \in [DOMAIN q -> 1 .. n]
          /\ \A i \in DOMAIN q : q[i] = s[e[i]] /\ s[e[i]] \in keep
          /\ \A i, j \in DOMAIN q : i < j => e[i] < e[j]
          /\ \A m \in 1 .. n : s[m] \in keep => \E i \in DOMAIN q : e[i] = m
      BY <2>2 DEF q
    <3>6. d[k] = n + 1 /\ \A i \in DOMAIN q : d[i] = e[i] /\ d[i] \in 1 .. n
      BY <3>2, <3>5
    <3>7. d \in [DOMAIN r -> 1 .. n + 1]
      BY <2>1, <3>2, <3>5
    <3> HIDE DEF d
    <3>8. \A i \in DOMAIN r : r[i] = s[d[i]] /\ s[d[i]] \in keep
      BY <2>6, <3>2, <3>5, <3>6
    <3>9. ASSUME NEW i \in DOMAIN r, NEW j \in DOMAIN r, i < j PROVE d[i] < d[j]
      <4>1. i # k
        BY <3>2, <3>3, <3>4, <3>9
      <4>2. i \in DOMAIN q /\ d[i] = e[i] /\ d[i] \in 1 .. n
        BY <3>2, <3>6, <4>1
      <4>3. CASE j = k
        BY <2>1, <3>6, <4>2, <4>3
      <4>4. CASE j # k
        BY <3>2, <3>5, <3>6, <3>9, <4>2, <4>4
      <4>5. QED
        BY <4>3, <4>4
    <3>10. ASSUME NEW m \in 1 .. n + 1, s[m] \in keep PROVE \E i \in DOMAIN r : d[i] = m
      <4>1. CASE m = n + 1
        BY <3>2, <3>6, <4>1
      <4>2. CASE m # n + 1
        <5>1. m \in 1 .. n
          BY <2>1, <4>2
        <5>2. QED
          BY <3>2, <3>5, <3>6, <3>10, <5>1
      <4>3. QED
        BY <4>1, <4>2
    <3>11. Of(n + 1, d)
      BY <3>7, <3>8, <3>9, <3>10 DEF r
    <3>12. QED
      BY <3>7, <3>11 DEF r
  <2>7. QED
    BY <2>5, <2>6
<1>5. Good(L)
  <2> HIDE DEF Good
  <2>1. T \in SUBSET Nat
    OBVIOUS
  <2> HIDE DEF T
  <2>2. T = Nat
    BY <1>3, <1>4, <2>1, SetInduction
  <2>3. L \in T /\ L <= L
    BY <1>2, <2>2
  <2>4. QED
    BY <2>3, Zenon DEF T
<1>6. L \in 0 .. L
  BY <1>2
<1> DEFINE k == f[L]
<1>7. PICK e \in [DOMAIN k -> DOMAIN s] :
         /\ \A i \in DOMAIN k : k[i] = s[e[i]] /\ s[e[i]] \in keep
         /\ \A i, j \in DOMAIN k : i < j => e[i] < e[j]
         /\ \A m \in DOMAIN s : s[m] \in keep => \E i \in DOMAIN k : e[i] = m
  <2> HIDE DEF k
  <2>1. Good(L)
    BY <1>5
  <2>2. QED
    BY <1>2, <2>1 DEF k
<1>8. k \in Seq(X) /\ Kept(s, keep) = k
  BY <1>1, <1>6
<1> HIDE DEF k
<1>9. Part(k, s)
  BY <1>7 DEF Part, IsPart
<1>10. ToSet(k) = ToSet(s) \cap keep
  <2>1. ASSUME NEW i \in DOMAIN k PROVE k[i] \in ToSet(s) \cap keep
    BY <1>7 DEF ToSet
  <2>2. ASSUME NEW m \in DOMAIN s, s[m] \in keep PROVE s[m] \in ToSet(k)
    <3>1. PICK i \in DOMAIN k : e[i] = m
      BY <1>7, <2>2
    <3>2. k[i] = s[m]
      BY <1>7, <3>1
    <3>3. QED
      BY <3>2 DEF ToSet
  <2>3. QED
    BY <2>1, <2>2 DEF ToSet
<1>11. ASSUME ToSet(s) \subseteq keep PROVE k = s
  <2> DEFINE U == {n \in Nat : n <= L => Len(f[n]) = n /\ \A i \in 1 .. n : f[n][i] = s[i]}
  <2>1. 0 \in U
    BY <1>1
  <2>2. ASSUME NEW n \in U PROVE n + 1 \in U
    <3> SUFFICES ASSUME n + 1 <= L
                 PROVE  Len(f[n + 1]) = n + 1 /\ \A i \in 1 .. n + 1 : f[n + 1][i] = s[i]
      OBVIOUS
    <3>1. n \in Nat /\ n \in 0 .. L /\ n + 1 \in 1 .. L /\ (n + 1) - 1 = n
      BY <1>2
    <3>2. s[n + 1] \in keep
      BY <1>2, <1>11, <3>1 DEF ToSet
    <3>3. f[n + 1] = Append(f[n], s[n + 1])
      BY <1>1, <3>1, <3>2
    <3>4. f[n] \in Seq(X) /\ s[n + 1] \in X /\ Len(f[n]) = n /\ \A i \in 1 .. n : f[n][i] = s[i]
      BY <1>2, <3>1
    <3> DEFINE q == f[n]
               r == f[n + 1]
    <3> HIDE DEF q, r
    <3>5. /\ DOMAIN q = 1 .. n /\ Len(r) = n + 1
          /\ r[n + 1] = s[n + 1] /\ \A i \in DOMAIN q : r[i] = q[i]
      BY <3>3, <3>4, AppendFacts DEF q, r
    <3>6. \A i \in 1 .. n + 1 : i = n + 1 \/ i \in 1 .. n
      BY <3>1
    <3>7. QED
      BY <3>4, <3>5, <3>6 DEF q, r
  <2>3. U = Nat
    <3>1. U \in SUBSET Nat
      OBVIOUS
    <3> HIDE DEF U
    <3>2. QED
      BY <2>1, <2>2, <3>1, SetInduction
  <2>4. Len(k) = L /\ \A i \in 1 .. L : k[i] = s[i]
    BY <1>2, <2>3 DEF k
  <2>5. QED
    BY <1>2, <1>8, <2>4 DEF L
<1>12. QED
  BY <1>8, <1>9, <1>10, <1>11

\* An increasing map from a finite set counts it.
LEMMA IncreasingCount ==
  ASSUME NEW A \in SUBSET Nat, NEW B \in SUBSET Nat, IsFiniteSet(B),
         NEW e \in [A -> B], \A i, j \in A : i < j => e[i] < e[j]
  PROVE  IsFiniteSet(A) /\ Cardinality(A) <= Cardinality(B)
<1>1. ASSUME NEW i \in A, NEW j \in A, e[i] = e[j] PROVE i = j
  <2>1. i \in Nat /\ j \in Nat /\ e[i] \in Nat /\ e[j] \in Nat
    OBVIOUS
  <2>2. ~(i < j) /\ ~(j < i)
    BY <1>1, <2>1
  <2>3. QED
    BY <2>1, <2>2
<1>2. e \in Injection(A, B)
  BY <1>1 DEF Injection, IsInjective
<1>3. QED
  BY <1>2, FS_Injection

\* What keeping does with one element more.
LEMMA KeptAppend ==
  ASSUME NEW X, NEW s \in Seq(X), NEW x \in X, NEW keep
  PROVE  /\ Kept(<<>>, keep) = <<>>
         /\ Kept(Append(s, x), keep) = IF x \in keep THEN Append(Kept(s, keep), x) ELSE Kept(s, keep)
<1> DEFINE r == Append(s, x)
           L == Len(s)
<1>1. r \in Seq(X) /\ Len(r) = L + 1 /\ L \in Nat /\ r[L + 1] = x /\ \A i \in 1 .. L : r[i] = s[i]
  OBVIOUS
<1>2. PICK f : KeptInSteps(X, s, keep, f)
  BY KeptUnfolds
<1>3. PICK g : KeptInSteps(X, r, keep, g)
  BY <1>1, KeptUnfolds
<1> DEFINE T == {n \in Nat : n <= L => g[n] = f[n]}
<1> HIDE DEF r, L
<1>4. 0 \in T
  BY <1>2, <1>3 DEF KeptInSteps
<1>5. ASSUME NEW n \in T PROVE n + 1 \in T
  <2> SUFFICES ASSUME n + 1 <= L PROVE g[n + 1] = f[n + 1]
    OBVIOUS
  <2>1. n + 1 \in 1 .. L /\ n + 1 \in 1 .. L + 1 /\ (n + 1) - 1 = n /\ g[n] = f[n]
    BY <1>1
  <2>2. f[n + 1] = IF s[n + 1] \in keep THEN Append(f[n], s[n + 1]) ELSE f[n]
    BY <1>2, <2>1 DEF KeptInSteps, L
  <2>3. g[n + 1] = IF r[n + 1] \in keep THEN Append(g[n], r[n + 1]) ELSE g[n]
    BY <1>1, <1>3, <2>1 DEF KeptInSteps
  <2>4. r[n + 1] = s[n + 1]
    BY <1>1, <2>1
  <2>5. QED
    BY <2>1, <2>2, <2>3, <2>4
<1>6. T = Nat
  <2> HIDE DEF T
  <2>1. T \in SUBSET Nat
    BY DEF T
  <2>2. QED
    BY <1>4, <1>5, <2>1, SetInduction
<1>7. g[L] = Kept(s, keep)
  BY <1>1, <1>2, <1>6 DEF KeptInSteps, L
<1>8. g[L + 1] = IF x \in keep THEN Append(g[L], x) ELSE g[L]
  <2>1. L + 1 \in 1 .. L + 1 /\ (L + 1) - 1 = L
    BY <1>1
  <2>2. QED
    BY <1>1, <1>3, <2>1 DEF KeptInSteps
<1>9. Kept(r, keep) = g[L + 1]
  BY <1>1, <1>3 DEF KeptInSteps
<1>10. Kept(<<>>, keep) = <<>>
  <2>1. PICK h : KeptInSteps(X, <<>>, keep, h)
    <3>1. <<>> \in Seq(X)
      OBVIOUS
    <3>2. QED
      BY <3>1, KeptUnfolds
  <2>2. QED
    BY <2>1 DEF KeptInSteps
<1>11. QED
  BY <1>7, <1>8, <1>9, <1>10 DEF r

\* What a sequence starts with.
LEMMA StartFacts ==
  ASSUME NEW X, NEW s \in Seq(X), NEW n \in Nat, n <= Len(s)
  PROVE  /\ SubSeq(s, 1, n) \in Seq(X) /\ Len(SubSeq(s, 1, n)) = n
         /\ \A i \in 1 .. n : SubSeq(s, 1, n)[i] = s[i]
<1>1. Len(s) \in Nat /\ \A i \in 1 .. n : s[i] \in X
  OBVIOUS
<1>2. SubSeq(s, 1, n) = [i \in 1 .. n |-> s[i]]
  <2>1. SubSeq(s, 1, n) = [i \in 1 .. (1 + n - 1) |-> s[i + 1 - 1]]
    BY <1>1
  <2>2. QED
    BY <2>1
<1>3. QED
  BY <1>1, <1>2

\* Induction on sequences, for sets of them.
LEMMA SeqInduction ==
  ASSUME NEW X, NEW S \in SUBSET Seq(X), <<>> \in S, \A s \in S, x \in X : Append(s, x) \in S
  PROVE  S = Seq(X)
<1> DEFINE T == {n \in Nat : \A s \in Seq(X) : Len(s) = n => s \in S}
<1>1. 0 \in T
  <2>1. \A s \in Seq(X) : Len(s) = 0 => s = <<>>
    OBVIOUS
  <2>2. QED
    BY <2>1
<1>2. ASSUME NEW n \in T PROVE n + 1 \in T
  <2>1. n \in Nat /\ n + 1 \in Nat
    OBVIOUS
  <2>2. ASSUME NEW s \in Seq(X), Len(s) = n + 1 PROVE s \in S
    <3> DEFINE r == SubSeq(s, 1, n)
               x == s[n + 1]
    <3>1. r \in Seq(X) /\ Len(r) = n /\ x \in X /\ \A i \in 1 .. n : r[i] = s[i]
      <4>1. r \in Seq(X) /\ Len(r) = n
        BY <2>1, <2>2, StartFacts
      <4>2. \A i \in 1 .. n : r[i] = s[i]
        BY <2>1, <2>2, StartFacts
      <4>3. x \in X
        BY <2>1, <2>2
      <4>4. QED
        BY <4>1, <4>2, <4>3
    <3>2. x = s[n + 1]
      OBVIOUS
    <3> HIDE DEF r, x
    <3> DEFINE q == Append(r, x)
    <3>3. q \in Seq(X) /\ Len(q) = n + 1 /\ q[n + 1] = x /\ \A i \in 1 .. n : q[i] = r[i]
      <4>1. q \in Seq(X) /\ DOMAIN q = DOMAIN r \cup {Len(r) + 1} /\ Len(q) = Len(r) + 1
            /\ q[Len(r) + 1] = x /\ \A i \in DOMAIN r : q[i] = r[i]
        <5>1. r \in Seq(X) /\ x \in X
          BY <3>1
        <5>2. QED
          BY <5>1, AppendFacts
      <4>2. DOMAIN r = 1 .. n
        BY <2>1, <3>1
      <4> HIDE DEF q
      <4>3. QED
        BY <2>1, <3>1, <4>1, <4>2
    <3> HIDE DEF q
    <3>4. \A i \in 1 .. n + 1 : q[i] = s[i]
      <4> TAKE i \in 1 .. n + 1
      <4>1. i = n + 1 \/ i \in 1 .. n
        BY <2>1
      <4>2. QED
        BY <3>1, <3>2, <3>3, <4>1
    <3>5. q = s
      BY <2>2, <3>3, <3>4
    <3>6. r \in S
      BY <2>1, <3>1
    <3>7. QED
      BY <3>1, <3>5, <3>6 DEF q
  <2>3. QED
    BY <2>1, <2>2
<1>3. T = Nat
  <2> HIDE DEF T
  <2>1. T \in SUBSET Nat
    BY DEF T
  <2>2. QED
    BY <1>1, <1>2, <2>1, SetInduction
<1>4. \A s \in Seq(X) : Len(s) \in Nat
  OBVIOUS
<1>5. QED
  BY <1>3, <1>4

LEMMA KeptEmpty == \A keep : Kept(<<>>, keep) = <<>>
<1> TAKE keep
<1>1. <<>> \in Seq({}) /\ ToSet(<<>>) \subseteq keep
  BY DEF ToSet
<1>2. QED
  BY <1>1, KeptFacts

LEMMA ConcatFacts ==
  ASSUME NEW X, NEW p \in Seq(X), NEW q \in Seq(X)
  PROVE  /\ p \o q \in Seq(X) /\ Len(p \o q) = Len(p) + Len(q)
         /\ \A k \in 1 .. Len(p) + Len(q) :
              (p \o q)[k] = IF k <= Len(p) THEN p[k] ELSE q[k - Len(p)]
         /\ ToSet(p \o q) = ToSet(p) \cup ToSet(q)
<1> DEFINE w == p \o q
<1>1. w \in Seq(X) /\ Len(w) = Len(p) + Len(q) /\ Len(p) \in Nat /\ Len(q) \in Nat
  OBVIOUS
<1>2. \A k \in 1 .. Len(p) + Len(q) : w[k] = IF k <= Len(p) THEN p[k] ELSE q[k - Len(p)]
  OBVIOUS
<1>3. DOMAIN w = 1 .. Len(p) + Len(q) /\ DOMAIN p = 1 .. Len(p) /\ DOMAIN q = 1 .. Len(q)
  BY <1>1
<1> HIDE DEF w
<1>4. ASSUME NEW k \in DOMAIN w PROVE w[k] \in ToSet(p) \cup ToSet(q)
  <2>1. CASE k <= Len(p)
    <3>1. k \in DOMAIN p /\ w[k] = p[k]
      BY <1>1, <1>2, <1>3, <2>1
    <3>2. QED
      BY <3>1 DEF ToSet
  <2>2. CASE ~(k <= Len(p))
    <3>1. k - Len(p) \in DOMAIN q /\ w[k] = q[k - Len(p)]
      BY <1>1, <1>2, <1>3, <2>2
    <3>2. QED
      BY <3>1 DEF ToSet
  <2>3. QED
    BY <2>1, <2>2
<1>5. ASSUME NEW k \in DOMAIN p PROVE p[k] \in ToSet(w)
  <2>1. k \in DOMAIN w /\ w[k] = p[k]
    BY <1>1, <1>2, <1>3
  <2>2. QED
    BY <2>1 DEF ToSet
<1>6. ASSUME NEW k \in DOMAIN q PROVE q[k] \in ToSet(w)
  <2>1. k + Len(p) \in DOMAIN w /\ ~(k + Len(p) <= Len(p)) /\ (k + Len(p)) - Len(p) = k
    BY <1>1, <1>3
  <2>2. w[k + Len(p)] = q[k]
    BY <1>2, <1>3, <2>1
  <2>3. QED
    BY <2>1, <2>2 DEF ToSet
<1>7. ToSet(w) = ToSet(p) \cup ToSet(q)
  BY <1>4, <1>5, <1>6 DEF ToSet
<1>8. QED
  BY <1>1, <1>2, <1>7 DEF w

LEMMA KeptTwice ==
  ASSUME NEW X, NEW s \in Seq(X), NEW A, NEW B
  PROVE  Kept(Kept(s, A), B) = Kept(s, A \cap B)
<1> DEFINE S == {q \in Seq(X) : Kept(Kept(q, A), B) = Kept(q, A \cap B)}
<1>1. <<>> \in S
  <2>1. <<>> \in Seq(X) /\ \A K : Kept(<<>>, K) = <<>>
    BY KeptEmpty
  <2>2. QED
    BY <2>1
<1>2. ASSUME NEW q \in S, NEW x \in X PROVE Append(q, x) \in S
  <2>1. q \in Seq(X) /\ Append(q, x) \in Seq(X) /\ Kept(Kept(q, A), B) = Kept(q, A \cap B)
    OBVIOUS
  <2>2. Kept(q, A) \in Seq(X)
    BY <2>1, KeptFacts
  <2>3. \A K : Kept(Append(q, x), K) = IF x \in K THEN Append(Kept(q, K), x) ELSE Kept(q, K)
    BY <2>1, KeptAppend
  <2>4. Kept(Append(Kept(q, A), x), B)
          = IF x \in B THEN Append(Kept(Kept(q, A), B), x) ELSE Kept(Kept(q, A), B)
    <3> DEFINE k == Kept(q, A)
    <3>1. k \in Seq(X)
      BY <2>2
    <3> HIDE DEF k, S
    <3>2. Kept(Append(k, x), B) = IF x \in B THEN Append(Kept(k, B), x) ELSE Kept(k, B)
      BY <3>1, KeptAppend
    <3>3. QED
      BY <3>2 DEF k
  <2> DEFINE a == Append(q, x)
  <2>5. CASE x \in A
    <3>1. Kept(a, A) = Append(Kept(q, A), x)
      BY <2>3, <2>5, Zenon
    <3>2. Kept(a, A \cap B) = IF x \in B THEN Append(Kept(q, A \cap B), x) ELSE Kept(q, A \cap B)
      <4>1. x \in A \cap B <=> x \in B
        BY <2>5
      <4>2. QED
        BY <2>3, <4>1, Zenon
    <3>3. Kept(Kept(a, A), B) = Kept(a, A \cap B)
      BY <2>1, <2>4, <3>1, <3>2, Zenon
    <3>4. QED
      BY <2>1, <3>3, Zenon
  <2>6. CASE x \notin A
    <3>1. Kept(a, A) = Kept(q, A)
      BY <2>3, <2>6, Zenon
    <3>2. x \notin A \cap B
      BY <2>6
    <3>3. Kept(a, A \cap B) = Kept(q, A \cap B)
      BY <2>3, <3>2, Zenon
    <3>4. Kept(Kept(a, A), B) = Kept(a, A \cap B)
      BY <2>1, <3>1, <3>3, Zenon
    <3>5. QED
      BY <2>1, <3>4, Zenon
  <2>7. QED
    BY <2>5, <2>6
<1>3. S = Seq(X)
  <2>1. S \in SUBSET Seq(X)
    OBVIOUS
  <2> HIDE DEF S
  <2>2. QED
    BY <1>1, <1>2, <2>1, SeqInduction
<1>4. QED
  BY <1>3

LEMMA AppendSet ==
  ASSUME NEW X, NEW s \in Seq(X), NEW x \in X
  PROVE  ToSet(Append(s, x)) = ToSet(s) \cup {x}
<1> DEFINE r == Append(s, x)
<1>1. /\ DOMAIN r = DOMAIN s \cup {Len(s) + 1} /\ r[Len(s) + 1] = x
      /\ \A i \in DOMAIN s : r[i] = s[i]
  BY AppendFacts
<1> HIDE DEF r
<1>2. ToSet(r) = ToSet(s) \cup {x}
  BY <1>1 DEF ToSet
<1>3. QED
  BY <1>2 DEF r

LEMMA KeptSame ==
  ASSUME NEW X, NEW s \in Seq(X), NEW A, NEW B, ToSet(s) \cap A = ToSet(s) \cap B
  PROVE  Kept(s, A) = Kept(s, B)
<1> DEFINE S == {q \in Seq(X) : ToSet(q) \cap A = ToSet(q) \cap B => Kept(q, A) = Kept(q, B)}
<1>1. <<>> \in S
  <2>1. <<>> \in Seq(X) /\ \A K : Kept(<<>>, K) = <<>>
    BY KeptEmpty
  <2>2. QED
    BY <2>1
<1>2. ASSUME NEW q \in S, NEW x \in X PROVE Append(q, x) \in S
  <2>1. q \in Seq(X) /\ Append(q, x) \in Seq(X)
    OBVIOUS
  <2>2. \A K : Kept(Append(q, x), K) = IF x \in K THEN Append(Kept(q, K), x) ELSE Kept(q, K)
    BY <2>1, KeptAppend
  <2>3. ToSet(Append(q, x)) = ToSet(q) \cup {x}
    BY <2>1, AppendSet
  <2>4. QED
    BY <2>1, <2>2, <2>3
<1>3. S = Seq(X)
  <2>1. S \in SUBSET Seq(X)
    OBVIOUS
  <2> HIDE DEF S
  <2>2. QED
    BY <1>1, <1>2, <2>1, SeqInduction
<1>4. QED
  BY <1>3

LEMMA KeptConcat ==
  ASSUME NEW X, NEW s \in Seq(X), NEW r \in Seq(X), NEW keep
  PROVE  Kept(s \o r, keep) = Kept(s, keep) \o Kept(r, keep)
<1> DEFINE S == {q \in Seq(X) : Kept(s \o q, keep) = Kept(s, keep) \o Kept(q, keep)}
<1>1. <<>> \in S
  <2>1. <<>> \in Seq(X) /\ Kept(<<>>, keep) = <<>> /\ Kept(s, keep) \in Seq(X)
    BY KeptEmpty, KeptFacts
  <2>2. s \o <<>> = s /\ Kept(s, keep) \o <<>> = Kept(s, keep)
    BY <2>1
  <2>3. QED
    BY <2>1, <2>2
<1>2. ASSUME NEW q \in S, NEW x \in X PROVE Append(q, x) \in S
  <2>1. q \in Seq(X) /\ Append(q, x) \in Seq(X) /\ Kept(s \o q, keep) = Kept(s, keep) \o Kept(q, keep)
    OBVIOUS
  <2>2. s \o q \in Seq(X) /\ s \o Append(q, x) = Append(s \o q, x)
    BY <2>1
  <2>3. Kept(q, keep) \in Seq(X) /\ Kept(s, keep) \in Seq(X)
    BY <2>1, KeptFacts
  <2>4. Kept(s, keep) \o Append(Kept(q, keep), x) = Append(Kept(s, keep) \o Kept(q, keep), x)
    BY <2>3
  <2>5. Kept(Append(q, x), keep) = IF x \in keep THEN Append(Kept(q, keep), x) ELSE Kept(q, keep)
    BY <2>1, KeptAppend
  <2>6. Kept(Append(s \o q, x), keep)
          = IF x \in keep THEN Append(Kept(s \o q, keep), x) ELSE Kept(s \o q, keep)
    <3> DEFINE w == s \o q
    <3>1. w \in Seq(X)
      BY <2>2
    <3> HIDE DEF w
    <3>2. Kept(Append(w, x), keep) = IF x \in keep THEN Append(Kept(w, keep), x) ELSE Kept(w, keep)
      BY <3>1, KeptAppend
    <3>3. QED
      BY <3>2 DEF w
  <2>7. Kept(s \o Append(q, x), keep) = Kept(s, keep) \o Kept(Append(q, x), keep)
    BY <2>1, <2>2, <2>4, <2>5, <2>6, Zenon
  <2>8. QED
    BY <2>1, <2>7
<1>3. S = Seq(X)
  <2>1. S \in SUBSET Seq(X)
    OBVIOUS
  <2> HIDE DEF S
  <2>2. QED
    BY <1>1, <1>2, <2>1, SeqInduction
<1>4. QED
  BY <1>3

\* An element put among the others, and what keeping and telling apart make of it.
LEMMA InsertFacts ==
  ASSUME NEW X, NEW s \in Seq(X), NEW x \in X, NEW i \in 1 .. Len(s) + 1
  PROVE  /\ InsertAt(s, i, x) \in Seq(X)
         /\ ToSet(InsertAt(s, i, x)) = ToSet(s) \cup {x}
         /\ \A keep : x \notin keep => Kept(InsertAt(s, i, x), keep) = Kept(s, keep)
<1>1. PICK a, b : /\ a \in Seq(X) /\ b \in Seq(X) /\ a \o b = s
                  /\ InsertAt(s, i, x) = (a \o <<x>>) \o b
  <2> DEFINE a == SubSeq(s, 1, i - 1)
             b == SubSeq(s, i, Len(s))
  <2>1. a \in Seq(X) /\ b \in Seq(X)
    OBVIOUS
  <2>2. /\ Len(a) = i - 1 /\ Len(b) = Len(s) - (i - 1) /\ Len(s) \in Nat /\ i \in 1 .. Len(s) + 1
        /\ \A k \in 1 .. i - 1 : a[k] = s[k]
        /\ \A k \in 1 .. Len(b) : b[k] = s[k + (i - 1)]
    OBVIOUS
  <2>3. InsertAt(s, i, x) = (a \o <<x>>) \o b
    BY DEF InsertAt
  <2> HIDE DEF a, b
  <2> DEFINE q == a \o b
  <2>4. /\ q \in Seq(X) /\ Len(q) = Len(a) + Len(b)
        /\ \A k \in 1 .. Len(a) + Len(b) : q[k] = IF k <= Len(a) THEN a[k] ELSE b[k - Len(a)]
    BY <2>1, ConcatFacts
  <2> HIDE DEF q
  <2>5. Len(q) = Len(s)
    BY <2>2, <2>4
  <2>6. \A k \in 1 .. Len(q) : q[k] = s[k]
    <3> TAKE k \in 1 .. Len(q)
    <3>1. CASE k <= Len(a)
      <4>1. q[k] = a[k] /\ k \in 1 .. i - 1
        BY <2>2, <2>4, <2>5, <3>1
      <4>2. QED
        BY <2>2, <4>1
    <3>2. CASE ~(k <= Len(a))
      <4>1. k - Len(a) \in 1 .. Len(b) /\ (k - Len(a)) + (i - 1) = k
        BY <2>2, <2>5, <3>2
      <4>2. q[k] = b[k - Len(a)]
        BY <2>2, <2>4, <2>5, <3>2
      <4>3. QED
        BY <2>2, <4>1, <4>2
    <3>3. QED
      BY <3>1, <3>2
  <2>7. q = s
    BY <2>4, <2>5, <2>6
  <2>8. QED
    BY <2>1, <2>3, <2>7 DEF q
<1>2. a \o <<x>> = Append(a, x) /\ Append(a, x) \in Seq(X)
  BY <1>1
<1> DEFINE c == Append(a, x)
           r == InsertAt(s, i, x)
<1>3. r = c \o b /\ c \in Seq(X) /\ ToSet(c) = ToSet(a) \cup {x}
  <2>1. \A q \in Seq(X) : ToSet(Append(q, x)) = ToSet(q) \cup {x}
    BY AppendSet
  <2>2. a \in Seq(X)
    BY <1>1
  <2>3. ToSet(c) = ToSet(a) \cup {x}
    BY <2>1, <2>2, Zenon
  <2>4. QED
    BY <1>1, <1>2, <2>3, Zenon
<1>4. \A keep : x \notin keep => Kept(c, keep) = Kept(a, keep)
  BY <1>1, KeptAppend
<1> HIDE DEF c, r
<1>5. r \in Seq(X) /\ ToSet(r) = ToSet(c) \cup ToSet(b) /\ ToSet(s) = ToSet(a) \cup ToSet(b)
  <2>1. \A p, q \in Seq(X) : p \o q \in Seq(X) /\ ToSet(p \o q) = ToSet(p) \cup ToSet(q)
    BY ConcatFacts
  <2>2. a \in Seq(X) /\ b \in Seq(X) /\ c \in Seq(X)
    BY <1>1, <1>3, Zenon
  <2>3. c \o b \in Seq(X) /\ ToSet(c \o b) = ToSet(c) \cup ToSet(b)
        /\ ToSet(a \o b) = ToSet(a) \cup ToSet(b)
    BY <2>1, <2>2, Zenon
  <2>4. QED
    BY <1>1, <1>3, <2>3, Zenon
<1>6. ASSUME NEW keep, x \notin keep PROVE Kept(r, keep) = Kept(s, keep)
  <2>1. \A p, q \in Seq(X) : Kept(p \o q, keep) = Kept(p, keep) \o Kept(q, keep)
    BY KeptConcat
  <2>2. a \in Seq(X) /\ b \in Seq(X) /\ c \in Seq(X)
    BY <1>1, <1>3, Zenon
  <2>3. /\ Kept(c \o b, keep) = Kept(c, keep) \o Kept(b, keep)
        /\ Kept(a \o b, keep) = Kept(a, keep) \o Kept(b, keep)
    BY <2>1, <2>2, Zenon
  <2>4. QED
    BY <1>1, <1>3, <1>4, <1>6, <2>3, Zenon
<1>7. QED
  BY <1>3, <1>5, <1>6 DEF r

\* A filter keeps elements apart.
LEMMA KeptApart ==
  ASSUME NEW X, NEW s \in Seq(X), IsInjective(s), NEW keep
  PROVE  IsInjective(Kept(s, keep))
<1> DEFINE q == Kept(s, keep)
<1>1. q \in Seq(X) /\ Part(q, s)
  BY KeptFacts
<1> HIDE DEF q
<1>2. PICK e \in [DOMAIN q -> DOMAIN s] : IsPart(q, s, e)
  BY <1>1 DEF Part
<1>3. DOMAIN q \subseteq Nat /\ DOMAIN s \subseteq Nat
  BY <1>1
<1>4. ASSUME NEW i \in DOMAIN q, NEW j \in DOMAIN q, q[i] = q[j] PROVE i = j
  <2>1. e[i] = e[j]
    BY <1>2, <1>4 DEF IsPart, IsInjective
  <2>2. ~(i < j) /\ ~(j < i)
    <3>1. e[i] \in Nat /\ e[j] \in Nat
      BY <1>2, <1>3
    <3>2. QED
      BY <1>2, <2>1, <3>1 DEF IsPart
  <2>3. QED
    BY <1>3, <2>2
<1>5. QED
  BY <1>4 DEF IsInjective, q

\* So does putting in one that was not there.
LEMMA InsertApart ==
  ASSUME NEW X, NEW s \in Seq(X), NEW x \in X, NEW i \in 1 .. Len(s) + 1,
         IsInjective(s), x \notin ToSet(s)
  PROVE  IsInjective(InsertAt(s, i, x))
<1> DEFINE r == InsertAt(s, i, x)
           Old(k) == IF k < i THEN k ELSE k - 1
<1>1. Len(s) \in Nat /\ i \in Nat /\ DOMAIN s = 1 .. Len(s)
  OBVIOUS
<1>2. /\ r \in Seq(X) /\ DOMAIN r = 1 .. Len(s) + 1
      /\ r[i] = x /\ \A k \in 1 .. Len(s) + 1 : k # i => r[k] = s[Old(k)] /\ Old(k) \in DOMAIN s
  <2> DEFINE a == SubSeq(s, 1, i - 1)
             b == SubSeq(s, i, Len(s))
  <2>1. /\ a \in Seq(X) /\ b \in Seq(X) /\ Len(a) = i - 1 /\ Len(b) = Len(s) - (i - 1)
        /\ \A k \in 1 .. i - 1 : a[k] = s[k]
        /\ \A k \in 1 .. Len(b) : b[k] = s[k + (i - 1)]
    OBVIOUS
  <2>2. r = (a \o <<x>>) \o b
    BY DEF InsertAt
  <2> HIDE DEF a, b, r
  <2> DEFINE c == a \o <<x>>
  <2>3. /\ c \in Seq(X) /\ Len(c) = i /\ c[i] = x /\ \A k \in 1 .. i - 1 : c[k] = s[k]
    <3>1. c = Append(a, x) /\ Len(a) \in Nat
      BY <2>1
    <3>2. DOMAIN a = 1 .. i - 1
      BY <1>1, <2>1
    <3>3. /\ Append(a, x) \in Seq(X) /\ Len(Append(a, x)) = Len(a) + 1
          /\ Append(a, x)[Len(a) + 1] = x
          /\ \A k \in DOMAIN a : Append(a, x)[k] = a[k]
      BY <2>1, AppendFacts
    <3>4. Len(a) + 1 = i
      BY <1>1, <2>1
    <3>5. QED
      BY <2>1, <3>1, <3>2, <3>3, <3>4
  <2> HIDE DEF c
  <2>4. /\ c \o b \in Seq(X) /\ Len(c \o b) = Len(c) + Len(b)
        /\ \A k \in 1 .. Len(c) + Len(b) : (c \o b)[k] = IF k <= Len(c) THEN c[k] ELSE b[k - Len(c)]
    <3>1. b \in Seq(X) /\ c \in Seq(X)
      BY <2>1, <2>3
    <3>2. QED
      BY <3>1, ConcatFacts
  <2>5. r = c \o b
    BY <2>2 DEF c
  <2>6. /\ r \in Seq(X) /\ Len(r) = Len(s) + 1
        /\ \A k \in 1 .. Len(s) + 1 : r[k] = IF k <= i THEN c[k] ELSE b[k - i]
    <3>1. Len(c) + Len(b) = Len(s) + 1
      BY <1>1, <2>1, <2>3
    <3>2. QED
      BY <2>3, <2>4, <2>5, <3>1
  <2>7. ASSUME NEW k \in 1 .. Len(s) + 1, k # i PROVE r[k] = s[Old(k)] /\ Old(k) \in DOMAIN s
    <3>1. CASE k < i
      BY <1>1, <2>3, <2>6, <2>7, <3>1
    <3>2. CASE ~(k < i)
      <4> DEFINE z == Len(b)
      <4>0. z = Len(s) - (i - 1) /\ k \in Nat /\ Len(s) \in Nat
        BY <1>1, <2>1
      <4> HIDE DEF z
      <4>1. ~(k <= i) /\ k - i \in 1 .. z /\ (k - i) + (i - 1) = k - 1 /\ k - 1 \in DOMAIN s
        BY <1>1, <2>7, <3>2, <4>0
      <4>2. b[k - i] = s[(k - i) + (i - 1)]
        BY <2>1, <4>1 DEF z
      <4>3. QED
        BY <2>6, <3>2, <4>1, <4>2
    <3>3. QED
      BY <3>1, <3>2
  <2>8. DOMAIN r = 1 .. Len(s) + 1
    BY <2>6
  <2>9. r[i] = x
    BY <1>1, <2>3, <2>6
  <2>10. QED
    BY <2>6, <2>7, <2>8, <2>9
<1> HIDE DEF r
<1>3. \A k \in DOMAIN s : s[k] # x
  BY DEF ToSet
<1>4. ASSUME NEW k \in DOMAIN r, NEW l \in DOMAIN r, r[k] = r[l] PROVE k = l
  <2>1. CASE k = i \/ l = i
    BY <1>2, <1>3, <1>4, <2>1
  <2>2. CASE k # i /\ l # i
    <3>1. /\ r[k] = s[Old(k)] /\ Old(k) \in DOMAIN s /\ r[l] = s[Old(l)] /\ Old(l) \in DOMAIN s
      BY <1>2, <2>2
    <3>2. Old(k) = Old(l)
      <4> HIDE DEF Old
      <4>1. QED
        BY <1>4, <3>1 DEF IsInjective
    <3>3. QED
      BY <1>1, <1>2, <2>2, <3>2
  <2>3. QED
    BY <2>1, <2>2
<1>5. QED
  BY <1>4 DEF IsInjective, r

\* Where the kept of s stand in s.
Spots(s, keep) == Kept([j \in 1 .. Len(s) |-> j], {j \in 1 .. Len(s) : s[j] \in keep})

LEMMA SpotsAppend ==
  ASSUME NEW X, NEW s \in Seq(X), NEW x \in X, NEW keep
  PROVE  Spots(Append(s, x), keep)
           = IF x \in keep THEN Append(Spots(s, keep), Len(s) + 1) ELSE Spots(s, keep)
<1> DEFINE r == Append(s, x)
           L == Len(s)
           ids == [j \in 1 .. L |-> j]
           more == [j \in 1 .. L + 1 |-> j]
           K == {j \in 1 .. L : s[j] \in keep}
           M == {j \in 1 .. L + 1 : r[j] \in keep}
<1>1. L \in Nat /\ Len(r) = L + 1 /\ r[L + 1] = x /\ \A i \in 1 .. L : r[i] = s[i]
  OBVIOUS
<1>2. ids \in Seq(Nat) /\ more = Append(ids, L + 1) /\ L + 1 \in Nat
  <2>1. ids \in Seq(Nat) /\ Len(ids) = L
    BY <1>1
  <2>2. more = Append(ids, L + 1)
    BY <1>1, <2>1
  <2>3. QED
    BY <1>1, <2>1, <2>2
<1>3. ToSet(ids) \cap M = ToSet(ids) \cap K /\ (L + 1 \in M <=> x \in keep)
  <2>1. ToSet(ids) = 1 .. L
    BY DEF ToSet
  <2>2. M \cap (1 .. L) = K
    BY <1>1
  <2>3. QED
    BY <1>1, <2>1, <2>2
<1>4. Spots(r, keep) = Kept(more, M) /\ Spots(s, keep) = Kept(ids, K)
  BY <1>1 DEF Spots
<1> HIDE DEF ids, more, K, M, r, L
<1>5. Kept(more, M) = IF L + 1 \in M THEN Append(Kept(ids, M), L + 1) ELSE Kept(ids, M)
  <2> DEFINE N == Nat
  <2> HIDE DEF N
  <2>1. \A q \in Seq(N), y \in N :
          Kept(Append(q, y), M) = IF y \in M THEN Append(Kept(q, M), y) ELSE Kept(q, M)
    BY KeptAppend
  <2>2. QED
    BY <1>2, <2>1, Zenon DEF N
<1>6. Kept(ids, M) = Kept(ids, K)
  <2>1. \A q \in Seq(Nat) : ToSet(q) \cap M = ToSet(q) \cap K => Kept(q, M) = Kept(q, K)
    BY KeptSame
  <2>2. QED
    BY <1>2, <1>3, <2>1, Zenon
<1>7. Spots(r, keep) = IF x \in keep THEN Append(Spots(s, keep), L + 1) ELSE Spots(s, keep)
  BY <1>3, <1>4, <1>5, <1>6
<1>8. QED
  BY <1>7 DEF r, L

SpotsRight(X, s, keep) ==
  /\ Spots(s, keep) \in Seq(Nat) /\ Kept(s, keep) \in Seq(X)
  /\ Len(Kept(s, keep)) = Len(Spots(s, keep))
  /\ \A i \in 1 .. Len(Spots(s, keep)) :
       Spots(s, keep)[i] \in 1 .. Len(s) /\ Kept(s, keep)[i] = s[Spots(s, keep)[i]]

LEMMA SpotsStep ==
  ASSUME NEW X, NEW s \in Seq(X), NEW x \in X, NEW keep, SpotsRight(X, s, keep)
  PROVE  SpotsRight(X, Append(s, x), keep)
<1> DEFINE r == Append(s, x)
           p == Spots(s, keep)
           q == Spots(r, keep)
           k == Kept(s, keep)
           l == Kept(r, keep)
           L == Len(s)
<1>1. L \in Nat /\ Len(r) = L + 1 /\ r[L + 1] = x /\ \A i \in 1 .. L : r[i] = s[i]
  OBVIOUS
<1>2. q = IF x \in keep THEN Append(p, L + 1) ELSE p
  BY SpotsAppend
<1>3. l = IF x \in keep THEN Append(k, x) ELSE k
  BY KeptAppend
<1>4. p \in Seq(Nat) /\ k \in Seq(X) /\ Len(k) = Len(p) /\ \A i \in 1 .. Len(p) : p[i] \in 1 .. L /\ k[i] = s[p[i]]
  BY DEF SpotsRight
<1> HIDE DEF p, q, k, l, L, r
<1>5. CASE x \notin keep
  <2>1. q = p /\ l = k
    BY <1>2, <1>3, <1>5
  <2>2. ASSUME NEW i \in 1 .. Len(p) PROVE p[i] \in 1 .. L + 1 /\ k[i] = r[p[i]]
    <3>1. p[i] \in 1 .. L /\ k[i] = s[p[i]]
      BY <1>4, Zenon
    <3>2. r[p[i]] = s[p[i]]
      BY <1>1, <3>1, Zenon
    <3>3. p[i] \in 1 .. L + 1
      BY <1>1, <3>1
    <3>4. QED
      BY <3>1, <3>2, <3>3, Zenon
  <2>3. QED
    BY <1>1, <1>4, <2>1, <2>2 DEF SpotsRight, q, l, r
<1>6. CASE x \in keep
  <2>1. q = Append(p, L + 1) /\ l = Append(k, x)
    BY <1>2, <1>3, <1>6
  <2> DEFINE N == Len(p)
  <2>2. N \in Nat
    BY <1>4
  <2>3. /\ q \in Seq(Nat) /\ Len(q) = N + 1 /\ q[N + 1] = L + 1 /\ \A i \in 1 .. N : q[i] = p[i]
    BY <1>1, <1>4, <2>1
  <2>4. /\ l \in Seq(X) /\ Len(l) = N + 1 /\ l[N + 1] = x /\ \A i \in 1 .. N : l[i] = k[i]
    BY <1>4, <2>1
  <2>5. ASSUME NEW i \in 1 .. N + 1 PROVE q[i] \in 1 .. L + 1 /\ l[i] = r[q[i]]
    <3>1. CASE i = N + 1
      BY <1>1, <2>3, <2>4, <3>1
    <3>2. CASE i \in 1 .. N
      <4>1. q[i] = p[i] /\ l[i] = k[i]
        BY <2>3, <2>4, <3>2, Zenon
      <4>2. p[i] \in 1 .. L /\ k[i] = s[p[i]]
        BY <1>4, <3>2, Zenon
      <4>3. r[p[i]] = s[p[i]]
        BY <1>1, <4>2, Zenon
      <4>4. p[i] \in 1 .. L + 1
        BY <1>1, <4>2
      <4>5. QED
        BY <4>1, <4>2, <4>3, <4>4, Zenon
    <3>3. QED
      BY <2>2, <3>1, <3>2
  <2>6. QED
    BY <1>1, <2>3, <2>4, <2>5 DEF SpotsRight, q, l, r
<1>7. QED
  BY <1>5, <1>6

\* What is kept of a sequence is what stands at its spots.
LEMMA SpotsFacts ==
  ASSUME NEW X, NEW s \in Seq(X), NEW keep
  PROVE  SpotsRight(X, s, keep)
<1> DEFINE S == {q \in Seq(X) : SpotsRight(X, q, keep)}
<1>1. <<>> \in S
  <2>1. <<>> \in Seq(X) /\ Len(<<>>) = 0 /\ Kept(<<>>, keep) = <<>>
    BY KeptEmpty
  <2>2. Spots(<<>>, keep) = <<>>
    <3>1. [j \in 1 .. Len(<<>>) |-> j] = <<>>
      OBVIOUS
    <3>2. QED
      BY <3>1, KeptEmpty DEF Spots
  <2> DEFINE e == <<>>
  <2>3. e \in Seq(X) /\ e \in Seq(Nat) /\ Len(e) = 0 /\ Kept(e, keep) = e /\ Spots(e, keep) = e
    BY <2>1, <2>2
  <2> HIDE DEF e
  <2>5. SpotsRight(X, e, keep)
    <3>1. 1 .. 0 = {}
      OBVIOUS
    <3>2. QED
      BY <2>3, <3>1, Zenon DEF SpotsRight
  <2>6. QED
    BY <2>1, <2>5 DEF e
<1>2. ASSUME NEW q \in S, NEW x \in X PROVE Append(q, x) \in S
  BY SpotsStep
<1>3. S = Seq(X)
  <2>1. S \in SUBSET Seq(X)
    OBVIOUS
  <2> HIDE DEF S
  <2>2. QED
    BY <1>1, <1>2, <2>1, SeqInduction
<1>4. QED
  BY <1>3
=============================================================================
