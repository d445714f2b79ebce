--------------------------- MODULE CookieJarProofs ---------------------------
(***************************************************************************)
(* Theorems about CookieJar, for any URLs, offers, suffixes and caps.      *)
(***************************************************************************)
EXTENDS CookieJar, FiniteSetTheorems, InductionLemmas, TLAPS

-----------------------------------------------------------------------------
(* Parts of a jar.                                                         *)

\* count_if over a jar.
LEMMA WeightType ==
  ASSUME NEW X, NEW s \in Seq(X), NEW d
  PROVE  /\ OfDomain(s, d) \in SUBSET Nat /\ OfDomain(s, d) \subseteq DOMAIN s
         /\ IsFiniteSet(OfDomain(s, d)) /\ Weight(s, d) \in Nat
<1>1. DOMAIN s = 1 .. Len(s) /\ Len(s) \in Nat
  OBVIOUS
<1>2. IsFiniteSet(1 .. Len(s))
  BY <1>1, FS_Interval
<1>3. OfDomain(s, d) \in SUBSET (1 .. Len(s))
  BY <1>1 DEF OfDomain
<1>4. IsFiniteSet(OfDomain(s, d))
  BY <1>2, <1>3, FS_Subset
<1>5. QED
  BY <1>1, <1>3, <1>4, FS_CardinalityType DEF Weight

\* A part of a jar is no longer and no heavier.
LEMMA PartFacts ==
  ASSUME NEW X, NEW k \in Seq(X), NEW s \in Seq(X), Part(k, s)
  PROVE  /\ Len(k) <= Len(s) /\ ToSet(k) \subseteq ToSet(s)
         /\ \A d : Weight(k, d) <= Weight(s, d)
<1>1. PICK e \in [DOMAIN k -> DOMAIN s] : IsPart(k, s, e)
  BY DEF Part
<1>2. /\ \A i \in DOMAIN k : k[i] = s[e[i]]
      /\ \A i, j \in DOMAIN k : i < j => e[i] < e[j]
  BY <1>1 DEF IsPart
<1>3. /\ DOMAIN k = 1 .. Len(k) /\ Len(k) \in Nat
      /\ DOMAIN s = 1 .. Len(s) /\ Len(s) \in Nat
  OBVIOUS
<1>4. DOMAIN k \in SUBSET Nat /\ DOMAIN s \in SUBSET Nat
  BY <1>3
<1>5. /\ IsFiniteSet(DOMAIN s) /\ Cardinality(DOMAIN s) = Len(s)
      /\ IsFiniteSet(DOMAIN k) /\ Cardinality(DOMAIN k) = Len(k)
  <2>1. ASSUME NEW n \in Nat PROVE IsFiniteSet(1 .. n) /\ Cardinality(1 .. n) = n
    BY FS_Interval
  <2>2. QED
    BY <1>3, <2>1
<1>6. Len(k) <= Len(s)
  <2>1. Cardinality(DOMAIN k) <= Cardinality(DOMAIN s)
    BY <1>2, <1>4, <1>5, IncreasingCount
  <2>2. QED
    BY <1>5, <2>1
<1>7. ToSet(k) \subseteq ToSet(s)
  BY <1>2 DEF ToSet
<1>8. ASSUME NEW d PROVE Weight(k, d) <= Weight(s, d)
  <2> DEFINE A == OfDomain(k, d)
             B == OfDomain(s, d)
             g == [i \in A |-> e[i]]
  <2>1. A \in SUBSET Nat /\ B \in SUBSET Nat /\ IsFiniteSet(B) /\ A \subseteq DOMAIN k
    BY WeightType
  <2>2. ASSUME NEW i \in A PROVE e[i] \in B
    BY <1>2, <2>1 DEF OfDomain
  <2> HIDE DEF A, B
  <2>3. g \in [A -> B]
    BY <2>2
  <2>4. \A i, j \in A : i < j => g[i] < g[j]
    BY <1>2, <2>1
  <2> HIDE DEF g
  <2>5. Cardinality(A) <= Cardinality(B)
    BY <2>1, <2>3, <2>4, IncreasingCount
  <2>6. QED
    BY <2>5 DEF A, B, Weight
<1>9. QED
  BY <1>6, <1>7, <1>8

LEMMA ConcatType ==
  ASSUME NEW X, NEW p \in Seq(X), NEW q \in Seq(X)
  PROVE  p \o q \in Seq(X) /\ Len(p \o q) = Len(p) + Len(q)
OBVIOUS

\* vector::erase at one place.
LEMMA RemoveAtFacts ==
  ASSUME NEW X, NEW s \in Seq(X), NEW a \in DOMAIN s
  PROVE  /\ RemoveAt(s, a) \in Seq(X) /\ Len(RemoveAt(s, a)) = Len(s) - 1
         /\ Part(RemoveAt(s, a), s)
         /\ \A m \in DOMAIN s : m # a => s[m] \in ToSet(RemoveAt(s, a))
         /\ Weight(RemoveAt(s, a), s[a].domain) <= Weight(s, s[a].domain) - 1
<1> DEFINE w == RemoveAt(s, a)
           front == SubSeq(s, 1, a - 1)
           back == SubSeq(s, a + 1, Len(s))
           N == Len(s)
<1>1. N \in Nat /\ a \in 1 .. N /\ DOMAIN s = 1 .. N
  OBVIOUS
<1>2. /\ w \in Seq(X) /\ Len(w) = N - 1
      /\ \A i \in 1..(N - 1) : w[i] = IF i < a THEN s[i] ELSE s[i + 1]
  <2>1. /\ front \in Seq(X) /\ Len(front) = a - 1
        /\ \A i \in 1..(a - 1) : front[i] = s[i]
    BY <1>1
  <2>2. /\ back \in Seq(X) /\ Len(back) = N - a
        /\ \A i \in 1..(N - a) : back[i] = s[a + i]
    BY <1>1
  <2>3. w = front \o back
    BY DEF RemoveAt
  <2> HIDE DEF front, back, w
  <2>4. w \in Seq(X) /\ Len(w) = N - 1
    <3>1. w \in Seq(X) /\ Len(w) = Len(front) + Len(back)
      BY <2>1, <2>2, <2>3, ConcatType
    <3> HIDE DEF N
    <3>2. (a - 1) + (N - a) = N - 1
      BY <1>1
    <3>3. QED
      BY <2>1, <2>2, <3>1, <3>2
  <2>5. ASSUME NEW i \in 1..(N - 1) PROVE w[i] = IF i < a THEN s[i] ELSE s[i + 1]
    <3>1. CASE i < a
      <4>1. i \in 1 .. (a - 1)
        BY <1>1, <3>1
      <4>2. QED
        BY <1>1, <2>1, <2>2, <2>3, <3>1, <4>1
    <3>2. CASE ~(i < a)
      <4>1. i - (a - 1) \in 1..(N - a) /\ a + (i - (a - 1)) = i + 1
        BY <1>1, <3>2
      <4>2. w[i] = back[i - (a - 1)]
        BY <1>1, <2>1, <2>2, <2>3, <3>2, <4>1, SMTT(40)
      <4>3. QED
        BY <2>2, <3>2, <4>1, <4>2
    <3>3. QED
      BY <3>1, <3>2
  <2>6. QED
    BY <2>4, <2>5
<1> HIDE DEF w, N
<1>3. DOMAIN w = 1 .. (N - 1) /\ N - 1 \in Nat
  BY <1>1, <1>2
<1> DEFINE e == [i \in DOMAIN w |-> IF i < a THEN i ELSE i + 1]
<1>4. \A i \in DOMAIN w : e[i] \in DOMAIN s /\ e[i] # a /\ w[i] = s[e[i]]
  BY <1>1, <1>2, <1>3
<1>5. \A i, j \in DOMAIN w : i < j => e[i] < e[j]
  BY <1>1, <1>3
<1>6. e \in [DOMAIN w -> DOMAIN s]
  BY <1>4
<1>7. ASSUME NEW m \in DOMAIN s, m # a PROVE s[m] \in ToSet(w)
  <2>1. CASE m < a
    <3>1. m \in DOMAIN w /\ w[m] = s[m]
      BY <1>1, <1>2, <1>3, <2>1
    <3>2. QED
      BY <3>1 DEF ToSet
  <2>2. CASE ~(m < a)
    <3>1. m - 1 \in DOMAIN w /\ (m - 1) + 1 = m /\ ~(m - 1 < a)
      BY <1>1, <1>3, <1>7, <2>2
    <3>2. w[m - 1] = s[m]
      BY <1>2, <1>3, <3>1
    <3>3. QED
      BY <3>1, <3>2 DEF ToSet
  <2>3. QED
    BY <2>1, <2>2
<1> HIDE DEF e
<1>8. IsPart(w, s, e)
  BY <1>4, <1>5, <1>6 DEF IsPart
<1>9. Part(w, s)
  BY <1>6, <1>8 DEF Part
<1>10. Weight(w, s[a].domain) <= Weight(s, s[a].domain) - 1
  <2> DEFINE d == s[a].domain
             A == OfDomain(w, d)
             B == OfDomain(s, d)
             g == [i \in A |-> e[i]]
  <2>1. /\ A \in SUBSET Nat /\ B \in SUBSET Nat /\ IsFiniteSet(B) /\ A \subseteq DOMAIN w
        /\ a \in B /\ Cardinality(B) \in Nat
    BY <1>1, <1>2, WeightType DEF OfDomain, Weight
  <2>2. ASSUME NEW i \in A PROVE e[i] \in B \ {a}
    BY <1>4, <2>1 DEF OfDomain
  <2> HIDE DEF A, B
  <2>3. IsFiniteSet(B \ {a}) /\ Cardinality(B \ {a}) = Cardinality(B) - 1
    BY <2>1, FS_RemoveElement
  <2>4. g \in [A -> B \ {a}]
    BY <2>2
  <2>5. \A i, j \in A : i < j => g[i] < g[j]
    BY <1>5, <2>1
  <2> HIDE DEF g
  <2>6. Cardinality(A) <= Cardinality(B \ {a})
    BY <2>1, <2>3, <2>4, <2>5, IncreasingCount
  <2>7. QED
    BY <2>3, <2>6 DEF A, B, Weight
<1>11. QED
  BY <1>2, <1>7, <1>9, <1>10 DEF w, N

\* push_back adds one to its own domain's count.
LEMMA AppendWeight ==
  ASSUME NEW X, NEW s \in Seq(X), NEW c \in X, NEW d
  PROVE  Weight(Append(s, c), d) = IF c.domain = d THEN Weight(s, d) + 1 ELSE Weight(s, d)
<1> DEFINE r == Append(s, c)
           N == Len(s) + 1
<1>1. /\ DOMAIN r = DOMAIN s \cup {N} /\ N \notin DOMAIN s
      /\ r[N] = c /\ \A i \in DOMAIN s : r[i] = s[i]
  BY AppendFacts
<1> HIDE DEF r, N
<1>2. OfDomain(r, d) = IF c.domain = d THEN OfDomain(s, d) \cup {N} ELSE OfDomain(s, d)
  BY <1>1 DEF OfDomain
<1>3. N \notin OfDomain(s, d) /\ IsFiniteSet(OfDomain(s, d))
  BY <1>1, WeightType
<1>4. Cardinality(OfDomain(s, d) \cup {N}) = Cardinality(OfDomain(s, d)) + 1
  BY <1>3, FS_AddElement
<1>5. QED
  BY <1>2, <1>4 DEF Weight, r

-----------------------------------------------------------------------------
(* What a write makes of a jar.                                            *)

\* A cookie's domain is the host it is from or, where it is wider, one above it
\* that is no public suffix.
InScope(c) ==
  /\ c.domain \in Seq(STRING) /\ c.by \in Seq(STRING) /\ c.domain # <<>>
  /\ c.hostOnly => c.domain = c.by
  /\ ~c.hostOnly => c.domain \notin PublicSuffixes /\ IsPrefix(c.domain, c.by)

Cookies ==
  {c \in {Offered(u, o, h, t) : u \in Urls, o \in Offers, h \in BOOLEAN, t \in 0..MaxNow} :
     InScope(c)}

Once(j) == \A i, k \in DOMAIN j : SameIdentity(j[i], j[k]) => i = k
Sound(j) ==
  /\ Once(j)
  /\ \A c \in ToSet(j) : Weight(j, c.domain) <= MaxPerDomain
  /\ Len(j) <= MaxTotal
Jars == {j \in Seq(Cookies) : Sound(j)}

LEMMA PrefixOfItself ==
  ASSUME NEW X, NEW s \in Seq(X)
  PROVE  IsPrefix(s, s)
BY DEF IsPrefix

\* The check of the Domain attribute.
LEMMA OfferedFacts ==
  ASSUME NEW u \in Urls, NEW o \in Offers, NEW h \in BOOLEAN, NEW t \in 0..MaxNow,
         u.host # <<>>, DomainAccepted(o, u)
  PROVE  Offered(u, o, h, t) \in Cookies /\ DomainMatch(u.host, Offered(u, o, h, t).domain)
<1> DEFINE c == Offered(u, o, h, t)
<1>1. /\ c.domain = IF Widens(o, u) THEN o.domain[1] ELSE u.host
      /\ c.hostOnly = ~Widens(o, u) /\ c.by = u.host
  BY DEF Offered
<1>2. c \in {Offered(v, p, g, s) : v \in Urls, p \in Offers, g \in BOOLEAN, s \in 0..MaxNow}
  OBVIOUS
<1>3. u.host \in Seq(STRING) /\ IsPrefix(u.host, u.host)
  BY JarAssumption, PrefixOfItself
<1> HIDE DEF c
<1>4. CASE ~Widens(o, u)
  <2>1. InScope(c)
    BY <1>1, <1>3, <1>4 DEF InScope
  <2>2. QED
    BY <1>1, <1>2, <1>3, <1>4, <2>1 DEF c, Cookies, DomainMatch
<1>5. CASE Widens(o, u)
  <2>1. /\ o.domain # Absent /\ u.host \notin IpHosts /\ ~IsPublicSuffix(o.domain[1])
        /\ o.domain[1] # <<>> /\ DomainMatch(u.host, o.domain[1])
    BY <1>5 DEF Widens, DomainAccepted
  <2>2. o.domain[1] \in Seq(STRING)
    BY <2>1, JarAssumption
  <2>3. InScope(c)
    BY <1>1, <1>3, <1>5, <2>1, <2>2 DEF InScope, IsPublicSuffix, DomainMatch
  <2>4. QED
    BY <1>1, <1>2, <1>5, <2>1, <2>3 DEF c, Cookies
<1>6. QED
  BY <1>4, <1>5

LEMMA WeightEverywhere ==
  ASSUME NEW j \in Jars, NEW d
  PROVE  Weight(j, d) \in Nat /\ Weight(j, d) <= MaxPerDomain
<1>1. j \in Seq(Cookies) /\ Sound(j)
  BY DEF Jars
<1>2. Weight(j, d) \in Nat
  BY <1>1, WeightType
<1>3. CASE OfDomain(j, d) = {}
  <2>1. Weight(j, d) = 0
    BY <1>3, FS_EmptySet DEF Weight
  <2>2. QED
    BY <2>1, CookieAssumption
<1>4. CASE OfDomain(j, d) # {}
  <2>1. PICK i \in DOMAIN j : j[i].domain = d
    BY <1>4 DEF OfDomain
  <2>2. j[i] \in ToSet(j)
    BY DEF ToSet
  <2>3. QED
    BY <1>1, <1>2, <2>1, <2>2 DEF Sound
<1>5. QED
  BY <1>2, <1>3, <1>4

\* Removals keep a jar sound.
LEMMA OncePart ==
  ASSUME NEW k \in Seq(Cookies), NEW s \in Seq(Cookies), Part(k, s), Once(s)
  PROVE  Once(k)
<1>1. PICK e \in [DOMAIN k -> DOMAIN s] : IsPart(k, s, e)
  BY DEF Part
<1>2. ASSUME NEW i \in DOMAIN k, NEW j \in DOMAIN k, SameIdentity(k[i], k[j])
      PROVE  i = j
  <2>1. k[i] = s[e[i]] /\ k[j] = s[e[j]] /\ e[i] \in DOMAIN s /\ e[j] \in DOMAIN s
    BY <1>1 DEF IsPart
  <2>2. e[i] = e[j]
    BY <1>2, <2>1 DEF Once
  <2>3. e[i] \in Nat /\ i \in Nat /\ j \in Nat
    BY <2>1
  <2>4. ~(i < j) /\ ~(j < i)
    BY <1>1, <2>2, <2>3 DEF IsPart
  <2>5. QED
    BY <2>3, <2>4
<1>3. QED
  BY <1>2 DEF Once

LEMMA SoundPart ==
  ASSUME NEW k \in Seq(Cookies), NEW s \in Jars, Part(k, s)
  PROVE  k \in Jars
<1>1. s \in Seq(Cookies) /\ Sound(s)
  BY DEF Jars
<1>2. Once(k)
  BY <1>1, OncePart DEF Sound
<1>3. Len(k) <= MaxTotal
  <2>1. Len(k) <= Len(s) /\ Len(s) <= MaxTotal /\ Len(k) \in Nat /\ Len(s) \in Nat
    BY <1>1, PartFacts DEF Sound
  <2>2. QED
    BY <2>1, CookieAssumption
<1>4. ASSUME NEW d PROVE Weight(k, d) <= MaxPerDomain
  <2>1. Weight(k, d) <= Weight(s, d) /\ Weight(s, d) <= MaxPerDomain
    BY <1>1, PartFacts, WeightEverywhere
  <2>2. Weight(k, d) \in Nat /\ Weight(s, d) \in Nat
    BY <1>1, WeightType
  <2>3. QED
    BY <2>1, <2>2, CookieAssumption
<1>5. QED
  BY <1>2, <1>3, <1>4 DEF Jars, Sound

\* find_if for the domain, then erase.
LEMMA OldestFacts ==
  ASSUME NEW s \in Seq(Cookies), NEW d, OfDomain(s, d) # {}
  PROVE  \E a \in OfDomain(s, d) :
           (\A b \in OfDomain(s, d) : a <= b) /\ WithoutOldest(s, d) = RemoveAt(s, a)
<1> DEFINE O == OfDomain(s, d)
           a == CHOOSE i \in O : \A b \in O : i <= b
<1>1. O \in SUBSET Nat
  BY WeightType
<1> HIDE DEF O
<1>2. \E i \in O : \A b \in O : i <= b
  BY <1>1, LeastNumber DEF O
<1>3. a \in O /\ \A b \in O : a <= b
  BY <1>2
<1>4. WithoutOldest(s, d) = RemoveAt(s, a)
  BY DEF WithoutOldest, O
<1> HIDE DEF a
<1>5. QED
  BY <1>3, <1>4 DEF O

\* The jar between push_back and the two eviction loops.
LEMMA ReplacedFacts ==
  ASSUME NEW j \in Jars, NEW c \in Cookies, NEW u, NEW h \in BOOLEAN, MayWrite(j, c, u, h)
  PROVE  /\ Replaced(j, c, h) \in Seq(Cookies) /\ Once(Replaced(j, c, h))
         /\ Len(Replaced(j, c, h)) <= MaxTotal + 1
         /\ \A d : Weight(Replaced(j, c, h), d)
                     <= IF c.domain = d THEN MaxPerDomain + 1 ELSE MaxPerDomain
<1> DEFINE keep == ToSet(j) \ Rewritten(j, c, h)
           k == Kept(j, keep)
           r == Replaced(j, c, h)
           N == Len(k) + 1
<1>1. j \in Seq(Cookies) /\ Sound(j)
  BY DEF Jars
<1>2. k \in Seq(Cookies) /\ Part(k, j) /\ ToSet(k) = ToSet(j) \cap keep
  <2> HIDE DEF keep
  <2>1. QED
    BY <1>1, KeptFacts
<1>3. k \in Jars
  BY <1>2, SoundPart
<1>4. r = Append(k, c)
  BY DEF Replaced
<1>5. ASSUME NEW i \in DOMAIN k PROVE ~SameIdentity(k[i], c)
  <2> SUFFICES ASSUME SameIdentity(k[i], c) PROVE FALSE
    OBVIOUS
  <2>1. k[i] \in ToSet(k)
    BY DEF ToSet
  <2>2. k[i] \in ToSet(j) /\ k[i] \notin Rewritten(j, c, h)
    BY <1>2, <2>1
  <2>3. ~h /\ k[i].httpOnly
    BY <2>2 DEF Rewritten, CanModify
  <2>4. QED
    BY <2>2, <2>3 DEF MayWrite
<1> HIDE DEF k, r, N, keep
<1>6. /\ r \in Seq(Cookies) /\ DOMAIN r = DOMAIN k \cup {N} /\ Len(r) = N
      /\ r[N] = c /\ \A i \in DOMAIN k : r[i] = k[i]
  BY <1>2, <1>4, AppendFacts DEF N
<1>7. Once(r)
  <2>1. Once(k)
    BY <1>3 DEF Jars, Sound
  <2>2. ASSUME NEW i \in DOMAIN r, NEW m \in DOMAIN r, SameIdentity(r[i], r[m]) PROVE i = m
    <3>1. CASE i = N /\ m = N
      BY <3>1
    <3>2. CASE i = N /\ m # N
      <4>1. m \in DOMAIN k /\ SameIdentity(k[m], c)
        BY <1>6, <2>2, <3>2 DEF SameIdentity
      <4>2. QED
        BY <1>5, <4>1
    <3>3. CASE i # N /\ m = N
      <4>1. i \in DOMAIN k /\ SameIdentity(k[i], c)
        BY <1>6, <2>2, <3>3
      <4>2. QED
        BY <1>5, <4>1
    <3>4. CASE i # N /\ m # N
      BY <1>6, <2>1, <2>2, <3>4 DEF Once
    <3>5. QED
      BY <3>1, <3>2, <3>3, <3>4
  <2>3. QED
    BY <2>2 DEF Once
<1>8. Len(r) <= MaxTotal + 1
  <2>1. Len(k) <= MaxTotal /\ Len(k) \in Nat
    BY <1>2, <1>3 DEF Jars, Sound
  <2>2. QED
    BY <1>6, <2>1, CookieAssumption DEF N
<1>9. ASSUME NEW d
      PROVE  Weight(r, d) <= IF c.domain = d THEN MaxPerDomain + 1 ELSE MaxPerDomain
  <2>1. Weight(r, d) = IF c.domain = d THEN Weight(k, d) + 1 ELSE Weight(k, d)
    BY <1>2, <1>4, AppendWeight
  <2>2. Weight(k, d) \in Nat /\ Weight(k, d) <= MaxPerDomain
    BY <1>3, WeightEverywhere
  <2>3. QED
    BY <2>1, <2>2, CookieAssumption
<1>10. QED
  BY <1>6, <1>7, <1>8, <1>9 DEF r

\* An eviction takes one cookie of the domain.
LEMMA WithoutOldestFacts ==
  ASSUME NEW s \in Seq(Cookies), NEW d, OfDomain(s, d) # {}
  PROVE  /\ WithoutOldest(s, d) \in Seq(Cookies) /\ Part(WithoutOldest(s, d), s)
         /\ Len(WithoutOldest(s, d)) = Len(s) - 1
         /\ Weight(WithoutOldest(s, d), d) <= Weight(s, d) - 1
<1>1. PICK a \in OfDomain(s, d) : WithoutOldest(s, d) = RemoveAt(s, a)
  BY OldestFacts
<1>2. a \in DOMAIN s /\ s[a].domain = d
  BY DEF OfDomain
<1>3. QED
  BY <1>1, <1>2, RemoveAtFacts

\* A jar that is not empty has a heaviest domain: of no cookies, then of one.
LEMMA HeaviestFacts ==
  ASSUME NEW s, NEW d \in Heaviest(s)
  PROVE  /\ OfDomain(s, d) # {}
         /\ \A c \in ToSet(s) : Weight(s, c.domain) <= Weight(s, d)
<1>1. PICK c \in ToSet(s) : c.domain = d
  BY DEF Heaviest
<1>2. PICK i \in DOMAIN s : s[i] = c
  BY DEF ToSet
<1>3. QED
  BY <1>1, <1>2 DEF OfDomain, Heaviest

\* The eviction loops bring a jar that is one cookie over back within its caps.
LEMMA BoundedFacts ==
  ASSUME NEW r \in Seq(Cookies), NEW dom, Once(r), Len(r) <= MaxTotal + 1,
         \A d : Weight(r, d) <= IF dom = d THEN MaxPerDomain + 1 ELSE MaxPerDomain,
         NEW k \in Bounded(r, dom)
  PROVE  k \in Jars
<1> DEFINE kept == IF Weight(r, dom) > MaxPerDomain THEN WithoutOldest(r, dom) ELSE r
<1>1. /\ kept \in Seq(Cookies) /\ Once(kept) /\ Len(kept) <= MaxTotal + 1
      /\ \A d : Weight(kept, d) \in Nat /\ Weight(kept, d) <= MaxPerDomain
  <2>1. Weight(r, dom) \in Nat /\ \A d : Weight(r, d) \in Nat
    BY WeightType
  <2>2. CASE Weight(r, dom) > MaxPerDomain
    <3>1. OfDomain(r, dom) # {}
      <4> SUFFICES ASSUME OfDomain(r, dom) = {} PROVE FALSE
        OBVIOUS
      <4>1. Weight(r, dom) = 0
        BY FS_EmptySet DEF Weight
      <4>2. QED
        BY <2>2, <4>1, CookieAssumption
    <3> DEFINE w == WithoutOldest(r, dom)
    <3>2. /\ w \in Seq(Cookies) /\ Part(w, r) /\ Len(w) = Len(r) - 1
          /\ Weight(w, dom) <= Weight(r, dom) - 1
      BY <3>1, WithoutOldestFacts
    <3>3. kept = w
      BY <2>2
    <3> HIDE DEF w, kept
    <3>4. Once(w)
      BY <3>2, OncePart
    <3>5. Len(w) <= MaxTotal + 1
      <4>1. Len(w) \in Nat /\ Len(r) \in Nat
        BY <3>2
      <4>2. QED
        BY <3>2, <4>1, CookieAssumption
    <3>6. ASSUME NEW d PROVE Weight(w, d) \in Nat /\ Weight(w, d) <= MaxPerDomain
      <4>1. Weight(w, d) \in Nat /\ Weight(w, d) <= Weight(r, d)
        BY <3>2, PartFacts, WeightType
      <4>2. Weight(r, d) \in Nat
        BY <2>1
      <4>3. CASE d = dom
        BY <2>1, <3>2, <4>1, <4>3, CookieAssumption
      <4>4. CASE d # dom
        BY <4>1, <4>2, <4>4, CookieAssumption
      <4>5. QED
        BY <4>3, <4>4
    <3>7. QED
      BY <3>2, <3>3, <3>4, <3>5, <3>6
  <2>3. CASE ~(Weight(r, dom) > MaxPerDomain)
    <3>1. kept = r
      BY <2>3
    <3> HIDE DEF kept
    <3>2. ASSUME NEW d PROVE Weight(r, d) \in Nat /\ Weight(r, d) <= MaxPerDomain
      BY <2>1, <2>3, CookieAssumption
    <3>3. QED
      BY <3>1, <3>2
  <2>4. QED
    BY <2>2, <2>3
<1>2. k \in IF Len(kept) <= MaxTotal THEN {kept}
             ELSE {WithoutOldest(kept, d) : d \in Heaviest(kept)}
  BY DEF Bounded
<1> HIDE DEF kept
<1>3. CASE Len(kept) <= MaxTotal
  <2>1. k = kept
    BY <1>2, <1>3
  <2>2. QED
    BY <1>1, <1>3, <2>1 DEF Jars, Sound
<1>4. CASE ~(Len(kept) <= MaxTotal)
  <2>1. PICK d \in Heaviest(kept) : k = WithoutOldest(kept, d)
    BY <1>2, <1>4
  <2>2. OfDomain(kept, d) # {}
    BY HeaviestFacts
  <2>3. k \in Seq(Cookies) /\ Part(k, kept) /\ Len(k) = Len(kept) - 1
    BY <1>1, <2>1, <2>2, WithoutOldestFacts
  <2>4. Once(k)
    BY <1>1, <2>3, OncePart
  <2>5. Len(k) <= MaxTotal
    <3>1. Len(kept) \in Nat
      BY <1>1
    <3>2. QED
      BY <1>1, <2>3, <3>1, CookieAssumption
  <2>6. ASSUME NEW e PROVE Weight(k, e) <= MaxPerDomain
    <3>1. Weight(k, e) \in Nat /\ Weight(k, e) <= Weight(kept, e)
      BY <1>1, <2>3, PartFacts, WeightType
    <3>2. QED
      BY <1>1, <3>1, CookieAssumption
  <2>7. QED
    BY <2>3, <2>4, <2>5, <2>6 DEF Jars, Sound
<1>5. QED
  BY <1>3, <1>4

\* set_cookie_from_header: its ways out, and what a way that writes has passed.
Accepted(j, u, o, h, t) ==
  u.host # <<>> /\ DomainAccepted(o, u) /\ MayWrite(j, Offered(u, o, h, t), u, h)

LEMMA WriteCases ==
  ASSUME NEW j, NEW u, NEW o, NEW h, NEW t, NEW k \in SetCookieFromHeader(j, u, o, h, t)
  PROVE  \/ k = j
         \/ Accepted(j, u, o, h, t) /\ k = Deleted(j, Offered(u, o, h, t), u, h)
         \/ /\ Accepted(j, u, o, h, t)
            /\ k \in Bounded(Replaced(j, Offered(u, o, h, t), h), Offered(u, o, h, t).domain)
<1> DEFINE c == Offered(u, o, h, t)
<1> HIDE DEF c
<1>1. k \in CASE \/ u.host = <<>> \/ ~o.sound \/ ~DomainAccepted(o, u)
                 \/ ~PrefixHolds(c, u) \/ ~MayWrite(j, c, u, h) -> {j}
              [] OTHER -> IF IsExpired(c, t) THEN {Deleted(j, c, u, h)}
                          ELSE Bounded(Replaced(j, c, h), c.domain)
  BY DEF SetCookieFromHeader, c
<1>2. CASE u.host = <<>> \/ ~DomainAccepted(o, u) \/ ~MayWrite(j, c, u, h) \/ ~o.sound \/ ~PrefixHolds(c, u)
  BY <1>1, <1>2
<1>3. CASE ~(u.host = <<>> \/ ~DomainAccepted(o, u) \/ ~MayWrite(j, c, u, h) \/ ~o.sound \/ ~PrefixHolds(c, u))
  <2>1. k \in IF IsExpired(c, t) THEN {Deleted(j, c, u, h)} ELSE Bounded(Replaced(j, c, h), c.domain)
    BY <1>1, <1>3
  <2>2. Accepted(j, u, o, h, t)
    BY <1>3 DEF Accepted, c
  <2>3. QED
    BY <2>1, <2>2 DEF c
<1>4. QED
  BY <1>2, <1>3

LEMMA DeletedFacts ==
  ASSUME NEW j \in Jars, NEW c, NEW u, NEW h
  PROVE  Deleted(j, c, u, h) \in Jars
<1>1. j \in Seq(Cookies)
  BY DEF Jars
<1>2. ASSUME NEW keep PROVE Kept(j, keep) \in Jars
  BY <1>1, KeptFacts, SoundPart
<1>3. QED
  BY <1>2 DEF Deleted

LEMMA WritesKeepJars ==
  ASSUME NEW j \in Jars, NEW u \in Urls, NEW o \in Offers, NEW h \in BOOLEAN,
         NEW t \in 0..MaxNow
  PROVE  SetCookieFromHeader(j, u, o, h, t) \subseteq Jars
<1> SUFFICES ASSUME NEW k \in SetCookieFromHeader(j, u, o, h, t) PROVE k \in Jars
  OBVIOUS
<1> DEFINE c == Offered(u, o, h, t)
           r == Replaced(j, c, h)
<1>1. CASE k = j
  BY <1>1
<1>2. CASE Accepted(j, u, o, h, t) /\ k = Deleted(j, c, u, h)
  BY <1>2, DeletedFacts
<1>3. CASE Accepted(j, u, o, h, t) /\ k \in Bounded(r, c.domain)
  <2>1. c \in Cookies /\ MayWrite(j, c, u, h)
    BY <1>3, OfferedFacts DEF Accepted
  <2> HIDE DEF c
  <2>2. /\ r \in Seq(Cookies) /\ Once(r) /\ Len(r) <= MaxTotal + 1
        /\ \A d : Weight(r, d) <= IF c.domain = d THEN MaxPerDomain + 1 ELSE MaxPerDomain
    BY <2>1, ReplacedFacts
  <2> HIDE DEF r
  <2>3. QED
    BY <1>3, <2>2, BoundedFacts
<1>4. QED
  BY <1>1, <1>2, <1>3, WriteCases

-----------------------------------------------------------------------------
(* The hops of a response.                                                 *)

Hop(x, hop, t) == SetCookieFromHeader(x, hop[1], hop[2], TRUE, t)
HopsInSteps(j, t, cookies, f) ==
  /\ f \in [0 .. Len(cookies) -> SUBSET Jars] /\ f[0] = {j}
  /\ \A n \in 1 .. Len(cookies) : f[n] = UNION {Hop(x, cookies[n], t) : x \in f[n - 1]}

\* What store_from_response may leave: nothing stored, or all headers gone through.
Stores(j, t, cookies, jars) ==
  jars = {j} \/ \E f : HopsInSteps(j, t, cookies, f) /\ jars = f[Len(cookies)]

\* store_from_response stores nothing or goes through its headers.
LEMMA StoreUnfolds ==
  ASSUME NEW j \in Jars, NEW t \in 0..MaxNow, NEW cookies \in Seq(Urls \X Offers),
         NEW url, NEW credentials, NEW document
  PROVE  Stores(j, t, cookies,
                StoreFromResponse(j, t, url, FALSE, cookies, credentials, document))
<1> DEFINE L == Len(cookies)
           V == SUBSET Jars
           first == {j}
           Next1(n, S) == UNION {Hop(x, cookies[n], t) : x \in S}
           Step == [n \in Nat |-> [S \in V |-> IF n \in 1 .. L THEN Next1(n, S) ELSE S]]
           Is(f) == f = [n \in 0 .. L |-> IF n = 0 THEN {j} ELSE Next1(n, f[n - 1])]
           stored == StoreFromResponse(j, t, url, FALSE, cookies, credentials, document)
<1>1. L \in Nat /\ \A n \in 1 .. L : cookies[n] \in Urls \X Offers
  OBVIOUS
<1>2. ASSUME NEW n \in 1 .. L, NEW S \in V PROVE Next1(n, S) \in V
  <2>1. ASSUME NEW x \in S PROVE Hop(x, cookies[n], t) \subseteq Jars
    <3>1. x \in Jars /\ cookies[n][1] \in Urls /\ cookies[n][2] \in Offers
      BY <1>1
    <3>2. QED
      BY <3>1, WritesKeepJars DEF Hop
  <2>2. QED
    BY <2>1
<1> HIDE DEF Next1, L
<1>3. first \in V
  OBVIOUS
<1>4. Step \in [Nat -> [V -> V]]
  <2> HIDE DEF V
  <2>1. QED
    BY <1>2
<1>5. PICK f \in [0 .. L -> V] : f[0] = first /\ \A n \in 1 .. L : f[n] = Step[n][f[n - 1]]
  <2> HIDE DEF Step, V, first
  <2>1. Recurs(V, first, Step, L)
    BY <1>1, <1>3, <1>4, RecursiveFunction
  <2>2. QED
    BY <2>1 DEF Recurs
<1>6. \A n \in 1 .. L : n \in Nat /\ n \in 0 .. L /\ n - 1 \in 0 .. L
  BY <1>1
<1>7. \A n \in 1 .. L : f[n] = Next1(n, f[n - 1])
  <2>1. \A n \in 1 .. L : f[n - 1] \in V
    BY <1>6
  <2> HIDE DEF V
  <2>2. QED
    BY <1>5, <1>6, <2>1
<1>8. Is(f)
  <2>1. \A n \in 0 .. L : n # 0 => n \in 1 .. L
    BY <1>1
  <2>2. \A n \in 0 .. L : f[n] = IF n = 0 THEN {j} ELSE Next1(n, f[n - 1])
    BY <1>5, <1>7, <2>1
  <2>3. f = [n \in 0 .. L |-> f[n]]
    OBVIOUS
  <2>4. QED
    BY <2>2, <2>3, Zenon
<1> DEFINE h == CHOOSE g : Is(g)
<1>9. Is(h)
  BY <1>8
<1>10. stored = {j} \/ stored = h[L]
  BY DEF StoreFromResponse, Next1, Hop, L
<1> HIDE DEF h
<1>11. h[0] = {j} /\ \A n \in 1 .. L : h[n] = Next1(n, h[n - 1])
  <2>1. \A n \in 0 .. L : h[n] = IF n = 0 THEN {j} ELSE Next1(n, h[n - 1])
    BY <1>9, Zenon
  <2>2. 0 \in 0 .. L /\ \A n \in 1 .. L : n \in 0 .. L /\ n # 0
    BY <1>1
  <2>3. QED
    BY <2>1, <2>2
<1>12. h \in [0 .. L -> V]
  <2> DEFINE T == {n \in Nat : n <= L => h[n] \in V}
  <2>1. 0 \in T
    BY <1>3, <1>11
  <2>2. ASSUME NEW n \in T PROVE n + 1 \in T
    <3> HIDE DEF V
    <3> SUFFICES ASSUME n + 1 <= L PROVE h[n + 1] \in V
      OBVIOUS
    <3>1. n + 1 \in 1 .. L /\ (n + 1) - 1 = n /\ h[n] \in V
      BY <1>1
    <3>2. h[n + 1] = Next1(n + 1, h[n])
      BY <1>11, <3>1
    <3>3. QED
      BY <1>2, <3>1, <3>2
  <2>3. T = Nat
    <3>1. T \in SUBSET Nat
      OBVIOUS
    <3> HIDE DEF T
    <3>2. QED
      BY <2>1, <2>2, <3>1, SetInduction
  <2> HIDE DEF V
  <2>4. \A n \in 0 .. L : h[n] \in V
    BY <1>1, <2>3
  <2>5. h = [n \in 0 .. L |-> h[n]]
    BY <1>9
  <2>6. QED
    BY <2>4, <2>5
<1>13. HopsInSteps(j, t, cookies, h)
  BY <1>11, <1>12 DEF HopsInSteps, L, Next1
<1>14. QED
  BY <1>10, <1>13 DEF L, Stores

LEMMA StoreKeepsJars ==
  ASSUME NEW j \in Jars, NEW t \in 0..MaxNow, NEW cookies \in Seq(Urls \X Offers),
         NEW url, NEW credentials, NEW document
  PROVE  StoreFromResponse(j, t, url, FALSE, cookies, credentials, document) \subseteq Jars
<1> DEFINE stored == StoreFromResponse(j, t, url, FALSE, cookies, credentials, document)
<1> SUFFICES stored \subseteq Jars
  OBVIOUS
<1>1. Stores(j, t, cookies, stored)
  BY StoreUnfolds
<1> HIDE DEF stored
<1>2. CASE stored = {j}
  BY <1>2
<1>3. ASSUME NEW f, HopsInSteps(j, t, cookies, f), stored = f[Len(cookies)]
      PROVE  stored \subseteq Jars
  <2>1. Len(cookies) \in 0 .. Len(cookies)
    OBVIOUS
  <2>2. QED
    BY <1>3, <2>1 DEF HopsInSteps
<1>4. QED
  BY <1>1, <1>2, <1>3 DEF Stores

\* A response without redirects stores what its one header says, or nothing.
LEMMA OneHop ==
  ASSUME NEW j \in Jars, NEW t \in 0..MaxNow, NEW u \in Urls, NEW o \in Offers,
         NEW url, NEW credentials, NEW document,
         NEW k \in StoreFromResponse(j, t, url, FALSE, <<<<u, o>>>>, credentials, document)
  PROVE  k = j \/ k \in SetCookieFromHeader(j, u, o, TRUE, t)
<1> DEFINE cookies == <<<<u, o>>>>
           stored == StoreFromResponse(j, t, url, FALSE, cookies, credentials, document)
<1>1. cookies \in Seq(Urls \X Offers) /\ Len(cookies) = 1 /\ cookies[1] = <<u, o>>
  OBVIOUS
<1>2. k \in stored
  OBVIOUS
<1>3. Stores(j, t, cookies, stored)
  <2> HIDE DEF cookies
  <2>1. QED
    BY <1>1, StoreUnfolds
<1> HIDE DEF cookies, stored
<1>4. CASE stored = {j}
  BY <1>2, <1>4
<1>5. ASSUME NEW f, HopsInSteps(j, t, cookies, f), stored = f[Len(cookies)]
      PROVE  k \in SetCookieFromHeader(j, u, o, TRUE, t)
  <2>1. f[1] = UNION {Hop(x, cookies[1], t) : x \in f[0]} /\ f[0] = {j} /\ stored = f[1]
    <3>1. 1 \in 1 .. Len(cookies) /\ 1 - 1 = 0
      BY <1>1
    <3>2. f[1] = UNION {Hop(x, cookies[1], t) : x \in f[1 - 1]}
      BY <1>5, <3>1 DEF HopsInSteps
    <3>3. QED
      BY <1>1, <1>5, <3>1, <3>2 DEF HopsInSteps
  <2>2. f[1] = Hop(j, cookies[1], t)
    BY <2>1
  <2>3. cookies[1][1] = u /\ cookies[1][2] = o
    BY <1>1
  <2>4. QED
    BY <1>2, <2>1, <2>2, <2>3 DEF Hop
<1>6. QED
  BY <1>3, <1>4, <1>5 DEF Stores

-----------------------------------------------------------------------------
(* The jar's invariant.                                                    *)

JarInv == now \in 0..MaxNow /\ jar \in Jars

LEMMA EmptyJar == <<>> \in Jars
<1>1. <<>> \in Seq(Cookies) /\ DOMAIN <<>> = {} /\ Len(<<>>) = 0
  OBVIOUS
<1>2. Sound(<<>>)
  BY <1>1, CookieAssumption DEF Sound, Once, ToSet
<1>3. QED
  BY <1>1, <1>2 DEF Jars

LEMMA JarInit == Init => JarInv
BY EmptyJar, JarAssumption DEF Init, JarInv

LEMMA JarStep == JarInv /\ [Next]_vars => JarInv'
<1> SUFFICES ASSUME JarInv, [Next]_vars PROVE JarInv'
  OBVIOUS
<1>1. jar \in Jars /\ now \in 0..MaxNow
  BY DEF JarInv
<1>2. ASSUME NEW u \in Urls, NEW o \in Offers, SetDocumentCookie(u, o) PROVE JarInv'
  <2>1. jar' \in SetCookieFromHeader(jar, u, o, FALSE, now) /\ now' = now
    BY <1>2 DEF SetDocumentCookie
  <2>2. SetCookieFromHeader(jar, u, o, FALSE, now) \subseteq Jars
    BY <1>1, WritesKeepJars
  <2>3. QED
    BY <1>1, <2>1, <2>2 DEF JarInv
<1>3. ASSUME NEW cookies \in Seq(Urls \X Offers), NEW c, NEW d, Store(cookies, c, d) PROVE JarInv'
  <2> DEFINE stored == StoreFromResponse(jar, now, Head(cookies)[1], FALSE, cookies, c, d)
  <2>1. jar' \in stored /\ now' = now
    BY <1>3 DEF Store
  <2>2. stored \subseteq Jars
    BY <1>1, StoreKeepsJars
  <2>3. QED
    BY <1>1, <2>1, <2>2 DEF JarInv
<1>4. ASSUME NEW u \in Urls, NEW o \in Offers, NEW d \in Urls,
             Store(<<<<u, o>>>>, "same-origin", d)
      PROVE  JarInv'
  <2>1. <<<<u, o>>>> \in Seq(Urls \X Offers)
    OBVIOUS
  <2>2. QED
    BY <1>3, <1>4, <2>1
<1>5. ASSUME NEW r \in Redirects, NEW o \in Offers, NEW c,
             Store(<<<<r[1], o>>, <<r[2], o>>>>, c, r[1])
      PROVE  JarInv'
  <2>1. r[1] \in Urls /\ r[2] \in Urls
    BY JarAssumption
  <2>2. <<<<r[1], o>>, <<r[2], o>>>> \in Seq(Urls \X Offers)
    BY <2>1
  <2>3. QED
    BY <1>3, <1>5, <2>2
<1>6. CASE Clear
  BY <1>1, <1>6, EmptyJar DEF Clear, JarInv
<1>7. CASE Tick
  BY <1>1, <1>7, JarAssumption DEF Tick, JarInv
<1>8. CASE UNCHANGED vars
  BY <1>1, <1>8 DEF vars, JarInv
<1>9. QED
  BY <1>2, <1>4, <1>5, <1>6, <1>7, <1>8 DEF Next

LEMMA JarAlways == Spec => []JarInv
<1>1. QED
  BY JarInit, JarStep, PTL DEF Spec

\* A jar holds each identity once and no more cookies than its caps, however
\* writes, deletions, evictions and redirects follow each other.
THEOREM JarAlwaysWithinCaps == Spec => []TypeOK
<1>1. JarInv => TypeOK
  BY DEF JarInv, Jars, Sound, Once, TypeOK
<1>2. QED
  BY <1>1, JarAlways, PTL

LEMMA ReadFacts ==
  ASSUME NEW j \in Seq(Cookies), NEW url, NEW script, NEW site, NEW navigates, NEW method,
         NEW t, NEW c \in ToSet(CookieHeaderForUrl(j, t, url, script, site, navigates, method))
  PROVE  c \in ToSet(j) /\ CookieMatches(c, url)
<1> DEFINE keep == {d \in ToSet(j) :
                      /\ ~IsExpired(d, t) /\ CookieMatches(d, url)
                      /\ IF script THEN ~d.httpOnly
                         ELSE SameSiteAllowsCookie(d, url, site, navigates, method)}
<1>1. c \in ToSet(IF url.host = <<>> THEN <<>> ELSE Kept(j, keep))
  BY DEF CookieHeaderForUrl
<1>2. ToSet(<<>>) = {}
  BY DEF ToSet
<1>3. c \in ToSet(Kept(j, keep))
  <2> HIDE DEF keep
  <2>1. QED
    BY <1>1, <1>2
<1>4. c \in keep
  <2> HIDE DEF keep
  <2>1. QED
    BY <1>3, KeptFacts
<1>5. QED
  BY <1>4

\* A cookie reaches its own host and hosts it shares a domain with that is no
\* public suffix, and no others, whatever the suffix list and the offers.
THEOREM CookiesAlwaysStayInTheirSite == Spec => []StaysInItsSite
<1>1. ASSUME JarInv PROVE StaysInItsSite
  <2>1. jar \in Seq(Cookies)
    BY <1>1 DEF JarInv, Jars
  <2>2. ASSUME NEW u \in Urls, NEW c \in ToSet(jar), CookieMatches(c, u)
        PROVE  u.host = c.by \/ SharesDomain(c.by, u.host)
    <3>1. c \in Cookies
      BY <2>1, SeqFacts
    <3>2. InScope(c)
      BY <3>1 DEF Cookies
    <3>3. CASE c.hostOnly
      BY <2>2, <3>2, <3>3 DEF InScope, CookieMatches
    <3>4. CASE ~c.hostOnly
      <4> DEFINE D == c.domain
                 n == Len(D)
      <4>1. /\ D \in Seq(STRING) /\ c.by \in Seq(STRING) /\ D # <<>>
            /\ D \notin PublicSuffixes /\ IsPrefix(D, c.by) /\ IsPrefix(D, u.host)
        BY <2>2, <3>2, <3>4 DEF InScope, CookieMatches, DomainMatch
      <4> HIDE DEF D
      <4>2. n \in 1 .. Len(c.by) /\ SubSeq(c.by, 1, n) = D
        <5>1. n <= Len(c.by) /\ SubSeq(D, 1, n) = SubSeq(c.by, 1, n)
          BY <4>1 DEF IsPrefix
        <5>2. n \in Nat /\ n # 0 /\ Len(c.by) \in Nat /\ SubSeq(D, 1, n) = D
          BY <4>1
        <5>3. QED
          BY <5>1, <5>2
      <4>3. QED
        BY <4>1, <4>2 DEF SharesDomain
    <3>5. QED
      BY <3>3, <3>4
  <2>3. ASSUME NEW u \in Urls, NEW d \in Urls,
               NEW c \in ToSet(CookiesFor(jar, now, u, "image", "GET", "include", d))
        PROVE  c \in ToSet(jar) /\ CookieMatches(c, u)
    <3>1. c \in ToSet(CookieHeaderForUrl(jar, now, u, FALSE, d, "image" = "document", "GET"))
      BY <2>3 DEF CookiesFor, CredentialsAllow
    <3>2. QED
      BY <2>1, <3>1, ReadFacts
  <2>4. ASSUME NEW u \in Urls, NEW c \in ToSet(DocumentCookie(jar, now, u))
        PROVE  c \in ToSet(jar) /\ CookieMatches(c, u)
    BY <2>1, <2>4, ReadFacts DEF DocumentCookie
  <2>5. QED
    BY <2>2, <2>3, <2>4 DEF StaysInItsSite
<1>2. QED
  BY <1>1, JarAlways, PTL

-----------------------------------------------------------------------------
(* What a step takes from the jar.                                         *)

\* A part without one of the cookies is shorter, and lighter in its domain.
LEMMA PartLoses ==
  ASSUME NEW X, NEW k \in Seq(X), NEW s \in Seq(X), Part(k, s),
         NEW m \in DOMAIN s, s[m] \notin ToSet(k)
  PROVE  Len(k) <= Len(s) - 1 /\ Weight(k, s[m].domain) <= Weight(s, s[m].domain) - 1
<1>1. PICK e \in [DOMAIN k -> DOMAIN s] : IsPart(k, s, e)
  BY DEF Part
<1>2. /\ \A i \in DOMAIN k : k[i] = s[e[i]] /\ e[i] \in DOMAIN s
      /\ \A i, j \in DOMAIN k : i < j => e[i] < e[j]
  BY <1>1 DEF IsPart
<1>3. \A i \in DOMAIN k : e[i] # m
  BY <1>2 DEF ToSet
<1>4. /\ DOMAIN k = 1 .. Len(k) /\ Len(k) \in Nat
      /\ DOMAIN s = 1 .. Len(s) /\ Len(s) \in Nat
  OBVIOUS
<1>5. ASSUME NEW A \in SUBSET DOMAIN k, NEW B \in SUBSET DOMAIN s, m \in B,
             \A i \in A : e[i] \in B
      PROVE  Cardinality(A) <= Cardinality(B) - 1
  <2> DEFINE g == [i \in A |-> e[i]]
  <2>1. A \in SUBSET Nat /\ B \in SUBSET Nat
    BY <1>4
  <2>2. IsFiniteSet(DOMAIN s)
    BY <1>4, FS_Interval
  <2>3. IsFiniteSet(B)
    BY <2>2, FS_Subset
  <2>4. IsFiniteSet(B \ {m}) /\ Cardinality(B \ {m}) = Cardinality(B) - 1
    BY <1>5, <2>3, FS_RemoveElement
  <2>5. g \in [A -> B \ {m}] /\ B \ {m} \in SUBSET Nat
    BY <1>3, <1>5, <2>1
  <2>6. \A i, j \in A : i < j => g[i] < g[j]
    BY <1>2
  <2> HIDE DEF g
  <2>7. QED
    BY <2>1, <2>4, <2>5, <2>6, IncreasingCount
<1>6. Len(k) <= Len(s) - 1
  <2>1. Cardinality(DOMAIN k) <= Cardinality(DOMAIN s) - 1
    BY <1>2, <1>5
  <2>2. \A n \in Nat : Cardinality(1 .. n) = n
    BY FS_Interval
  <2>3. QED
    BY <1>4, <2>1, <2>2
<1>7. Weight(k, s[m].domain) <= Weight(s, s[m].domain) - 1
  <2> DEFINE A == OfDomain(k, s[m].domain)
             B == OfDomain(s, s[m].domain)
  <2>1. A \in SUBSET DOMAIN k /\ B \in SUBSET DOMAIN s /\ m \in B /\ \A i \in A : e[i] \in B
    BY <1>2 DEF OfDomain
  <2> HIDE DEF A, B
  <2>2. Cardinality(A) <= Cardinality(B) - 1
    BY <1>5, <2>1
  <2>3. QED
    BY <2>2 DEF A, B, Weight
<1>8. QED
  BY <1>6, <1>7

\* Evicting from a jar that just gained a cookie takes the oldest the jar had
\* of that domain, or the new one.
LEMMA ShedFacts ==
  ASSUME NEW j \in Seq(Cookies), NEW new \in Cookies, NEW d,
         OfDomain(Append(j, new), d) # {},
         NEW c \in ToSet(j) \ ToSet(WithoutOldest(Append(j, new), d))
  PROVE  /\ c.domain = d
         /\ \A i \in DOMAIN j : j[i].domain = c.domain /\ j[i] # c
              => \E k \in DOMAIN j : k < i /\ j[k] = c
<1> DEFINE r == Append(j, new)
           w == WithoutOldest(r, d)
<1>1. r \in Seq(Cookies) /\ DOMAIN j \subseteq DOMAIN r /\ \A i \in DOMAIN j : r[i] = j[i]
  BY AppendFacts
<1>2. OfDomain(r, d) # {} /\ c \in ToSet(j) /\ c \notin ToSet(w)
  OBVIOUS
<1> HIDE DEF r
<1>3. PICK a \in OfDomain(r, d) : (\A b \in OfDomain(r, d) : a <= b) /\ w = RemoveAt(r, a)
  BY <1>1, <1>2, OldestFacts
<1>4. a \in DOMAIN r /\ r[a].domain = d
  BY DEF OfDomain
<1>5. \A m \in DOMAIN r : m # a => r[m] \in ToSet(w)
  BY <1>1, <1>3, <1>4, RemoveAtFacts
<1> HIDE DEF w
<1>6. PICK m \in DOMAIN j : j[m] = c
  BY <1>2 DEF ToSet
<1>7. m = a
  BY <1>1, <1>2, <1>5, <1>6
<1>8. c.domain = d /\ j[a] = c /\ a \in DOMAIN j
  BY <1>1, <1>4, <1>6, <1>7
<1>9. ASSUME NEW i \in DOMAIN j, j[i].domain = c.domain, j[i] # c
      PROVE  a < i
  <2>1. i \in OfDomain(r, d)
    BY <1>1, <1>8, <1>9 DEF OfDomain
  <2>2. a <= i /\ a # i /\ a \in Nat /\ i \in Nat
    BY <1>3, <1>8, <1>9, <2>1
  <2>3. QED
    BY <2>2
<1>10. QED
  BY <1>8, <1>9

\* The cookie is one this write may replace or delete.
Hit(c, cookie, u, h) ==
  /\ CanModify(c, h)
  /\ SameIdentity(c, cookie) \/ (c.name = cookie.name /\ CookieMatches(c, u))

\* The cookie is evicted, and whose write pays for it.
Shed(c, cookie, k) ==
  /\ MayBeShed(c)
  /\ \/ c.domain = cookie.domain
     \/ /\ Len(jar) = MaxTotal
        /\ \A e \in ToSet(k) : Weight(k, e.domain) <= Weight(jar, c.domain)

\* Writing again an identity the jar has makes room for itself.
LEMMA RewriteFits ==
  ASSUME jar \in Jars, NEW cookie \in Cookies, NEW h, Rewritten(jar, cookie, h) # {}
  PROVE  LET r == Replaced(jar, cookie, h)
         IN  Weight(r, cookie.domain) <= MaxPerDomain /\ Len(r) <= MaxTotal
<1> DEFINE own == Rewritten(jar, cookie, h)
           k == Kept(jar, ToSet(jar) \ own)
           r == Replaced(jar, cookie, h)
<1>1. jar \in Seq(Cookies) /\ Len(jar) <= MaxTotal
  BY DEF Jars, Sound
<1>2. k \in Seq(Cookies) /\ Part(k, jar) /\ ToSet(k) = ToSet(jar) \cap (ToSet(jar) \ own)
  <2> HIDE DEF own
  <2>1. QED
    BY <1>1, KeptFacts
<1>3. r = Append(k, cookie)
  BY DEF Replaced
<1> HIDE DEF k, r
<1>4. PICK m \in DOMAIN jar : jar[m] \in own /\ jar[m].domain = cookie.domain
  <2>1. PICK x \in ToSet(jar) : x \in own /\ SameIdentity(x, cookie)
    BY DEF Rewritten
  <2>2. QED
    BY <2>1 DEF ToSet, SameIdentity
<1>5. jar[m] \notin ToSet(k)
  BY <1>2, <1>4
<1>6. Len(k) <= Len(jar) - 1 /\ Weight(k, cookie.domain) <= Weight(jar, cookie.domain) - 1
  BY <1>1, <1>2, <1>4, <1>5, PartLoses
<1>7. /\ Len(k) \in Nat /\ Len(jar) \in Nat
      /\ Weight(k, cookie.domain) \in Nat /\ Weight(jar, cookie.domain) \in Nat
      /\ Weight(jar, cookie.domain) <= MaxPerDomain
  BY <1>1, <1>2, WeightType, WeightEverywhere
<1>8. Len(r) = Len(k) + 1 /\ Weight(r, cookie.domain) = Weight(k, cookie.domain) + 1
  BY <1>2, <1>3, AppendFacts, AppendWeight
<1>9. QED
  BY <1>1, <1>6, <1>7, <1>8, CookieAssumption DEF r

\* set_cookie_from_header takes only what it may replace or delete, and evicts
\* only at a cap.
LEMMA GoneFacts ==
  ASSUME JarInv, NEW u \in Urls, NEW o \in Offers, NEW h \in BOOLEAN,
         NEW k \in SetCookieFromHeader(jar, u, o, h, now),
         NEW c \in ToSet(jar) \ ToSet(k)
  PROVE  /\ Accepted(jar, u, o, h, now)
         /\ Hit(c, Offered(u, o, h, now), u, h) \/ Shed(c, Offered(u, o, h, now), k)
<1> DEFINE cookie == Offered(u, o, h, now)
           own == Rewritten(jar, cookie, h)
           r == Replaced(jar, cookie, h)
           dom == cookie.domain
<1>1. jar \in Jars /\ jar \in Seq(Cookies) /\ Len(jar) <= MaxTotal /\ now \in 0..MaxNow
  BY DEF JarInv, Jars, Sound
<1>2. c \in ToSet(jar) /\ c \notin ToSet(k)
  OBVIOUS
<1>3. k # jar
  BY <1>2
<1>4. /\ Accepted(jar, u, o, h, now)
      /\ k = Deleted(jar, cookie, u, h) \/ k \in Bounded(r, dom)
  BY <1>3, WriteCases
<1>5. cookie \in Cookies
  BY <1>1, <1>4, OfferedFacts DEF Accepted
<1> HIDE DEF cookie
<1>6. CASE k = Deleted(jar, cookie, u, h)
  <2> DEFINE reached == {x \in ToSet(jar) :
                           CanModify(x, h) /\ x.name = cookie.name /\ CookieMatches(x, u)}
             gone == IF own # {} THEN own ELSE reached
  <2>1. k = Kept(jar, ToSet(jar) \ gone)
    BY <1>6 DEF Deleted
  <2> HIDE DEF gone
  <2>2. ToSet(k) = ToSet(jar) \cap (ToSet(jar) \ gone)
    BY <1>1, <2>1, KeptFacts
  <2>3. c \in gone
    BY <1>2, <2>2
  <2>4. Hit(c, cookie, u, h)
    BY <2>3 DEF gone, Rewritten, Hit
  <2>5. QED
    BY <1>4, <2>4 DEF cookie
<1>7. CASE k \in Bounded(r, dom) /\ c \in own
  <2>1. Hit(c, cookie, u, h)
    BY <1>7 DEF Rewritten, Hit
  <2>2. QED
    BY <1>4, <2>1 DEF cookie
<1>8. CASE k \in Bounded(r, dom) /\ c \notin own
  <2> DEFINE p == Kept(jar, ToSet(jar) \ own)
             N == Len(p) + 1
             kept == IF Weight(r, dom) > MaxPerDomain THEN WithoutOldest(r, dom) ELSE r
  <2>1. /\ p \in Seq(Cookies) /\ ToSet(p) = ToSet(jar) \cap (ToSet(jar) \ own)
        /\ ToSet(jar) \subseteq ToSet(jar) \ own => p = jar
    <3> HIDE DEF own
    <3>1. QED
      BY <1>1, KeptFacts
  <2>2. r = Append(p, cookie)
    BY DEF Replaced
  <2>3. k \in IF Len(kept) <= MaxTotal THEN {kept}
               ELSE {WithoutOldest(kept, d) : d \in Heaviest(kept)}
    BY <1>8 DEF Bounded
  <2>4. c \in ToSet(p)
    BY <1>2, <1>8, <2>1
  <2> HIDE DEF p, r, kept, dom
  <2>5. r \in Seq(Cookies) /\ ToSet(r) = ToSet(p) \cup {cookie}
    <3>1. /\ r \in Seq(Cookies) /\ DOMAIN r = DOMAIN p \cup {N}
          /\ r[N] = cookie /\ \A i \in DOMAIN p : r[i] = p[i]
      BY <1>5, <2>1, <2>2, AppendFacts
    <3> HIDE DEF N
    <3>2. QED
      BY <3>1 DEF ToSet
  <2>6. k # r
    BY <1>2, <2>4, <2>5
  <2>7. own = {}
    <3> SUFFICES ASSUME own # {} PROVE FALSE
      OBVIOUS
    <3>1. Weight(r, dom) <= MaxPerDomain /\ Len(r) <= MaxTotal
      BY <1>1, <1>5, RewriteFits DEF r, dom
    <3>2. Weight(r, dom) \in Nat
      BY <2>5, WeightType
    <3>3. ~(Weight(r, dom) > MaxPerDomain)
      BY <3>1, <3>2, CookieAssumption
    <3>4. kept = r
      BY <3>3 DEF kept
    <3>5. QED
      BY <2>3, <2>6, <3>1, <3>4
  <2>8. r = Append(jar, cookie)
    BY <2>1, <2>2, <2>7
  <2>9. /\ Len(r) = Len(jar) + 1 /\ Len(jar) \in Nat
        /\ \A d : /\ Weight(r, d) = IF dom = d THEN Weight(jar, d) + 1 ELSE Weight(jar, d)
                  /\ Weight(jar, d) \in Nat /\ Weight(jar, d) <= MaxPerDomain
    BY <1>1, <1>5, <2>8, AppendFacts, AppendWeight, WeightEverywhere DEF dom
  <2>10. CASE Weight(r, dom) > MaxPerDomain
    <3>1. kept = WithoutOldest(r, dom) /\ Weight(jar, dom) = MaxPerDomain
      <4>1. Weight(jar, dom) + 1 > MaxPerDomain /\ Weight(jar, dom) \in Nat /\ Weight(jar, dom) <= MaxPerDomain
        BY <2>9, <2>10
      <4>2. QED
        BY <2>10, <4>1, CookieAssumption DEF kept
    <3>2. OfDomain(r, dom) # {}
      <4> SUFFICES ASSUME OfDomain(r, dom) = {} PROVE FALSE
        OBVIOUS
      <4>1. Weight(r, dom) = 0
        BY FS_EmptySet DEF Weight
      <4>2. QED
        BY <2>10, <4>1, CookieAssumption
    <3>3. Len(kept) = Len(r) - 1
      BY <2>5, <3>1, <3>2, WithoutOldestFacts
    <3>4. Len(kept) <= MaxTotal
      BY <1>1, <2>9, <3>3
    <3>5. k = WithoutOldest(r, dom)
      BY <2>3, <3>1, <3>4
    <3>6. /\ c.domain = dom
          /\ \A i \in DOMAIN jar : jar[i].domain = c.domain /\ jar[i] # c
               => \E n \in DOMAIN jar : n < i /\ jar[n] = c
      BY <1>1, <1>2, <1>5, <2>8, <3>2, <3>5, ShedFacts
    <3>7. Shed(c, cookie, k)
      BY <3>1, <3>6 DEF Shed, MayBeShed, dom
    <3>8. QED
      BY <1>4, <3>7 DEF cookie
  <2>11. CASE ~(Weight(r, dom) > MaxPerDomain)
    <3>1. kept = r
      BY <2>11 DEF kept
    <3>2. ~(Len(r) <= MaxTotal)
      BY <2>3, <2>6, <3>1
    <3>3. Len(jar) = MaxTotal
      BY <1>1, <2>9, <3>2, CookieAssumption
    <3>4. PICK d \in Heaviest(r) : k = WithoutOldest(r, d)
      BY <2>3, <3>1, <3>2
    <3>5. OfDomain(r, d) # {} /\ \A e \in ToSet(r) : Weight(r, e.domain) <= Weight(r, d)
      BY HeaviestFacts
    <3>6. /\ c.domain = d
          /\ \A i \in DOMAIN jar : jar[i].domain = c.domain /\ jar[i] # c
               => \E n \in DOMAIN jar : n < i /\ jar[n] = c
      BY <1>1, <1>2, <1>5, <2>8, <3>4, <3>5, ShedFacts
    <3>7. MayBeShed(c)
      BY <3>3, <3>6 DEF MayBeShed
    <3>8. CASE d = dom
      <4>1. Shed(c, cookie, k)
        BY <3>6, <3>7, <3>8 DEF Shed, dom
      <4>2. QED
        BY <1>4, <4>1 DEF cookie
    <3>9. CASE d # dom
      <4>1. Weight(r, d) = Weight(jar, c.domain) /\ Weight(r, d) \in Nat
        BY <2>9, <3>6, <3>9
      <4>2. k \in Seq(Cookies) /\ Part(k, r)
        BY <2>5, <3>4, <3>5, WithoutOldestFacts
      <4>3. ASSUME NEW e \in ToSet(k) PROVE Weight(k, e.domain) <= Weight(jar, c.domain)
        <5>1. e \in ToSet(r) /\ Weight(k, e.domain) <= Weight(r, e.domain)
          BY <2>5, <4>2, PartFacts
        <5>2. Weight(k, e.domain) \in Nat /\ Weight(r, e.domain) \in Nat
          BY <2>5, <4>2, WeightType
        <5>3. Weight(r, e.domain) <= Weight(r, d)
          BY <3>5, <5>1
        <5>4. QED
          BY <4>1, <5>1, <5>2, <5>3
      <4>4. Shed(c, cookie, k)
        BY <3>3, <3>7, <4>3 DEF Shed
      <4>5. QED
        BY <1>4, <4>4 DEF cookie
    <3>10. QED
      BY <3>8, <3>9
  <2>12. QED
    BY <2>10, <2>11
<1>9. QED
  BY <1>4, <1>6, <1>7, <1>8

\* Hit and accepted together: where the writer is.
LEMMA HitFacts ==
  ASSUME JarInv, NEW u \in Urls, NEW o \in Offers, NEW h \in BOOLEAN, NEW c \in ToSet(jar),
         Accepted(jar, u, o, h, now), Hit(c, Offered(u, o, h, now), u, h)
  PROVE  /\ DomainMatch(u.host, c.domain)
         /\ c.secure => Secure(u)
         /\ c.httpOnly => h
<1> DEFINE cookie == Offered(u, o, h, now)
<1>1. u.host # <<>> /\ DomainAccepted(o, u) /\ MayWrite(jar, cookie, u, h) /\ now \in 0..MaxNow
  BY DEF Accepted, JarInv
<1>2. DomainMatch(u.host, cookie.domain)
  BY <1>1, OfferedFacts
<1>3. IsPrefix(u.host, u.host)
  BY JarAssumption, PrefixOfItself
<1> HIDE DEF cookie
<1>4. DomainMatch(u.host, c.domain) /\ c.name = cookie.name
  <2>1. CASE SameIdentity(c, cookie)
    BY <1>2, <2>1 DEF SameIdentity
  <2>2. CASE c.name = cookie.name /\ CookieMatches(c, u)
    BY <1>1, <1>3, <2>2 DEF CookieMatches, DomainMatch
  <2>3. QED
    BY <2>1, <2>2 DEF Hit, cookie
<1>5. c.secure => Secure(u)
  BY <1>1, <1>4 DEF MayWrite
<1>6. c.httpOnly => h
  BY DEF Hit, CanModify
<1>7. QED
  BY <1>4, <1>5, <1>6

\* No step that a script's write explains takes an HttpOnly cookie, and none that
\* a response over plain http explains a Secure one, other than by eviction.
THEOREM ProtectedCookiesAlwaysStay == Spec => ProtectedCookiesStay
<1> DEFINE A == \A c \in Gone :
                  \/ MayBeShed(c)
                  \/ /\ c.httpOnly => ~\E u \in Urls, o \in Offers : SetDocumentCookie(u, o)
                     /\ c.secure => ~\E u \in {x \in Urls : ~Secure(x)}, o \in Offers :
                                       Store(<<<<u, o>>>>, "include", u)
<1>1. ASSUME JarInv, NEW c \in Gone, ~MayBeShed(c), c.httpOnly,
             NEW u \in Urls, NEW o \in Offers, SetDocumentCookie(u, o)
      PROVE  FALSE
  <2>1. jar' \in SetCookieFromHeader(jar, u, o, FALSE, now)
    BY <1>1 DEF SetDocumentCookie
  <2>2. c \in ToSet(jar) \ ToSet(jar')
    BY DEF Gone
  <2>3. /\ Accepted(jar, u, o, FALSE, now)
        /\ Hit(c, Offered(u, o, FALSE, now), u, FALSE) \/ Shed(c, Offered(u, o, FALSE, now), jar')
    BY <1>1, <2>1, <2>2, GoneFacts
  <2>4. Hit(c, Offered(u, o, FALSE, now), u, FALSE)
    BY <1>1, <2>3 DEF Shed
  <2>5. QED
    BY <1>1, <2>2, <2>3, <2>4, HitFacts
<1>2. ASSUME JarInv, NEW c \in Gone, ~MayBeShed(c), c.secure,
             NEW u \in Urls, ~Secure(u), NEW o \in Offers, Store(<<<<u, o>>>>, "include", u)
      PROVE  FALSE
  <2>1. c \in ToSet(jar) \ ToSet(jar')
    BY DEF Gone
  <2>2. jar' # jar
    BY <2>1
  <2>3. jar' \in SetCookieFromHeader(jar, u, o, TRUE, now)
    BY <1>2, <2>2, OneHop DEF JarInv, Store
  <2>4. /\ Accepted(jar, u, o, TRUE, now)
        /\ Hit(c, Offered(u, o, TRUE, now), u, TRUE) \/ Shed(c, Offered(u, o, TRUE, now), jar')
    BY <1>2, <2>1, <2>3, GoneFacts
  <2>5. Hit(c, Offered(u, o, TRUE, now), u, TRUE)
    BY <1>2, <2>4 DEF Shed
  <2>6. QED
    BY <1>2, <2>1, <2>4, <2>5, HitFacts
<1>3. JarInv /\ [Next]_vars => [A]_vars
  BY <1>1, <1>2
<1>4. QED
  BY <1>3, JarAlways, PTL DEF Spec, ProtectedCookiesStay

\* No step that a response of a host explains takes a cookie of a domain the
\* host is not in, unless the jar is full and that domain as heavy as any.
THEOREM NeighboursAlwaysSpared == Spec => NeighboursAreSpared
<1> DEFINE A == \A c \in Gone :
                  \/ /\ Len(jar) = MaxTotal
                     /\ \A e \in ToSet(jar') : Weight(jar', e.domain) <= Weight(jar, c.domain)
                  \/ ~\E u \in {x \in Urls : ~DomainMatch(x.host, c.domain)}, o \in Offers :
                        Store(<<<<u, o>>>>, "include", u)
<1>1. ASSUME JarInv, NEW c \in Gone, NEW u \in Urls, ~DomainMatch(u.host, c.domain),
             NEW o \in Offers, Store(<<<<u, o>>>>, "include", u)
      PROVE  /\ Len(jar) = MaxTotal
             /\ \A e \in ToSet(jar') : Weight(jar', e.domain) <= Weight(jar, c.domain)
  <2> DEFINE cookie == Offered(u, o, TRUE, now)
  <2>1. c \in ToSet(jar) \ ToSet(jar')
    BY DEF Gone
  <2>2. jar' # jar
    BY <2>1
  <2>3. jar' \in SetCookieFromHeader(jar, u, o, TRUE, now)
    BY <1>1, <2>2, OneHop DEF JarInv, Store
  <2>4. /\ Accepted(jar, u, o, TRUE, now)
        /\ Hit(c, cookie, u, TRUE) \/ Shed(c, cookie, jar')
    BY <1>1, <2>1, <2>3, GoneFacts
  <2>5. ~Hit(c, cookie, u, TRUE)
    BY <1>1, <2>1, <2>4, HitFacts
  <2>6. DomainMatch(u.host, cookie.domain)
    BY <1>1, <2>4, OfferedFacts DEF Accepted, JarInv
  <2>7. QED
    BY <1>1, <2>4, <2>5, <2>6 DEF Shed
<1>2. JarInv /\ [Next]_vars => [A]_vars
  BY <1>1
<1>3. QED
  BY <1>2, JarAlways, PTL DEF Spec, NeighboursAreSpared
=============================================================================
