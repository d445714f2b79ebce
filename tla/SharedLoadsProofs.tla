-------------------------- MODULE SharedLoadsProofs --------------------------
(***************************************************************************)
(* Theorems about SharedLoads, for any threads, calls, policies, servers   *)
(* and cache size.                                                         *)
(***************************************************************************)
EXTENDS SharedLoads, InductionLemmas, TLAPS

\* The part of the invariant that induction needs besides OrderIsMap: the order
\* is a sequence of held keys, and the cache has its two fields.
Shaped(c) ==
  /\ DOMAIN c = {"order", "held"}
  /\ c.order \in Seq(DOMAIN c.held)
Each(s) == {s[i] : i \in DOMAIN s}
Once(s) == \A i, j \in DOMAIN s : s[i] = s[j] => i = j
Sound(c) ==
  /\ Shaped(c)
  /\ Once(c.order)
  /\ Each(c.order) = DOMAIN c.held
  /\ Len(c.order) <= MaxEntries

LEMMA SoundIsOrderIsMap == Sound(cache) => OrderIsMap
BY DEF Sound, OrderIsMap, Once, Each

LEMMA EmptyIsSound == Sound(EmptyCache)
<1>1. MaxEntries \in Nat
  BY ResourceAssumption DEF ResourceAssumption
<1>2. DOMAIN EmptyCache.held = {}
  BY DEF EmptyCache
<1>3. QED
  BY <1>1, <1>2 DEF Sound, Shaped, Once, Each, EmptyCache

\* touch_locked finds the key where it is and erases it there.
LEMMA WithoutOne ==
  ASSUME NEW S, NEW s \in Seq(S), Once(s), NEW key \in Each(s)
  PROVE  /\ Without(s, key) \in Seq(S)
         /\ Len(Without(s, key)) = Len(s) - 1
         /\ Once(Without(s, key))
         /\ Each(Without(s, key)) = Each(s) \ {key}
<1> DEFINE f == First(s, key)
<1>1. f \in 1..Len(s) /\ s[f] = key
  <2>1. PICK i \in 1..Len(s) : s[i] = key
    BY DEF Each
  <2>2. \A j \in 1..(i - 1) : s[j] # key
    BY <2>1 DEF Once
  <2>3. QED
    BY <2>1, <2>2 DEF First
<1>2. Without(s, key) = SubSeq(s, 1, f - 1) \o SubSeq(s, f + 1, Len(s))
  BY DEF Without, RemoveAt, ToSet, Each
<1> DEFINE w == Without(s, key)
           front == SubSeq(s, 1, f - 1)
           back == SubSeq(s, f + 1, Len(s))
<1>3. /\ w \in Seq(S) /\ Len(w) = Len(s) - 1
      /\ \A i \in 1..(Len(s) - 1) : w[i] = IF i < f THEN s[i] ELSE s[i + 1]
  <2>1. /\ front \in Seq(S) /\ Len(front) = f - 1
        /\ \A i \in 1..(f - 1) : front[i] = s[i]
    BY <1>1
  <2>2. /\ back \in Seq(S) /\ Len(back) = Len(s) - f
        /\ \A i \in 1..(Len(s) - f) : back[i] = s[f + i]
    BY <1>1
  <2> HIDE DEF f, front, back, w
  <2>3. w = front \o back
    BY <1>2 DEF front, back, w
  <2>4. w \in Seq(S) /\ Len(w) = Len(s) - 1
    BY <1>1, <2>1, <2>2, <2>3
  <2>5. ASSUME NEW i \in 1..(Len(s) - 1)
        PROVE  w[i] = IF i < f THEN s[i] ELSE s[i + 1]
    <3>1. CASE i < f
      BY <1>1, <2>1, <2>2, <2>3, <3>1
    <3>2. CASE i >= f
      <4>1. w[i] = back[i - (f - 1)]
        BY <1>1, <2>1, <2>2, <2>3, <3>2
      <4>2. back[i - (f - 1)] = s[f + (i - (f - 1))]
        BY <1>1, <2>2, <3>2
      <4>3. QED
        BY <1>1, <3>2, <4>1, <4>2
    <3>3. QED
      BY <1>1, <3>1, <3>2
  <2>6. QED
    BY <2>4, <2>5
<1> DEFINE At(i) == IF i < f THEN i ELSE i + 1
<1> HIDE DEF w, f
<1>4. \A i \in DOMAIN w : At(i) \in 1..Len(s) /\ At(i) # f /\ w[i] = s[At(i)]
  BY <1>1, <1>3
<1>5. Once(w)
  <2> SUFFICES ASSUME NEW i \in DOMAIN w, NEW j \in DOMAIN w, w[i] = w[j] PROVE i = j
    BY DEF Once
  <2>1. At(i) = At(j)
    BY <1>4 DEF Once
  <2>2. QED
    BY <1>1, <1>3, <2>1
<1>6. Each(w) = Each(s) \ {key}
  <2>1. Each(w) \subseteq Each(s) \ {key}
    <3> SUFFICES ASSUME NEW i \in DOMAIN w PROVE w[i] \in Each(s) \ {key}
      BY DEF Each
    <3>1. s[At(i)] # key
      BY <1>1, <1>4 DEF Once
    <3>2. QED
      BY <1>4, <3>1 DEF Each
  <2>2. ASSUME NEW i \in 1..Len(s), s[i] # key PROVE s[i] \in Each(w)
    <3>1. CASE i < f
      BY <1>1, <1>3, <2>2, <3>1 DEF Each
    <3>2. CASE i > f
      <4>1. i - 1 \in DOMAIN w /\ w[i - 1] = s[i]
        BY <1>1, <1>3, <3>2
      <4>2. QED
        BY <4>1 DEF Each
    <3>3. QED
      BY <1>1, <2>2, <3>1, <3>2
  <2>3. QED
    BY <2>1, <2>2, SMTT(40) DEF Each
<1>7. QED
  BY <1>3, <1>5, <1>6 DEF w

\* A key that is not there yet goes to the end.
LEMMA AppendOne ==
  ASSUME NEW S, NEW s \in Seq(S), Once(s), NEW key \in S \ Each(s)
  PROVE  /\ Append(s, key) \in Seq(S)
         /\ Len(Append(s, key)) = Len(s) + 1
         /\ Once(Append(s, key))
         /\ Each(Append(s, key)) = Each(s) \cup {key}
<1> DEFINE a == Append(s, key)
<1>1. /\ a \in Seq(S) /\ Len(a) = Len(s) + 1
      /\ \A i \in 1..Len(s) : a[i] = s[i] /\ s[i] # key
      /\ a[Len(s) + 1] = key
  BY DEF Each
<1> HIDE DEF a
<1>2. Once(a)
  <2> SUFFICES ASSUME NEW i \in DOMAIN a, NEW j \in DOMAIN a, a[i] = a[j] PROVE i = j
    BY DEF Once
  <2>1. CASE i \in 1..Len(s) /\ j \in 1..Len(s)
    BY <1>1, <2>1 DEF Once
  <2>2. CASE i = Len(s) + 1 \/ j = Len(s) + 1
    BY <1>1, <2>2
  <2>3. QED
    BY <1>1, <2>1, <2>2
<1>3. Each(a) = Each(s) \cup {key}
  BY <1>1 DEF Each
<1>4. QED
  BY <1>1, <1>2, <1>3 DEF a

\* A hit moves its key to the end and keeps every entry.
LEMMA TouchIsSound ==
  ASSUME NEW c, Sound(c), NEW key, Holds(c, key)
  PROVE  Sound(Touch(c, key))
<1> DEFINE w == Without(c.order, key)
           t == Touch(c, key)
<1>1. key \in Each(c.order) /\ c.order \in Seq(DOMAIN c.held)
  BY DEF Sound, Shaped, Holds
<1>2. /\ w \in Seq(DOMAIN c.held) /\ Len(w) = Len(c.order) - 1
      /\ Once(w) /\ Each(w) = Each(c.order) \ {key}
  BY <1>1, WithoutOne DEF Sound
<1>3. t.order = Append(w, key) /\ t.held = c.held /\ DOMAIN t = {"order", "held"}
  BY DEF Touch, Sound, Shaped
<1> HIDE DEF w, t
<1>4. /\ Append(w, key) \in Seq(DOMAIN c.held) /\ Once(Append(w, key))
      /\ Len(Append(w, key)) = Len(c.order) /\ Each(Append(w, key)) = Each(c.order)
  <2>1. key \in DOMAIN c.held \ Each(w)
    BY <1>1, <1>2 DEF Sound
  <2>2. Len(c.order) \in Nat
    BY <1>1
  <2>3. QED
    BY <1>1, <1>2, <2>1, <2>2, AppendOne
<1>5. Sound(t)
  BY <1>3, <1>4 DEF Sound, Shaped
<1>6. QED
  BY <1>5 DEF t

\* An evicted key leaves the order and the map together.
LEMMA TailLosesHead ==
  ASSUME NEW S, NEW s \in Seq(S), Once(s), Len(s) > 0
  PROVE  /\ Tail(s) \in Seq(S \ {Head(s)})
         /\ Len(Tail(s)) = Len(s) - 1
         /\ Once(Tail(s))
         /\ Each(Tail(s)) = Each(s) \ {Head(s)}
<1> DEFINE t == Tail(s)
<1>1. /\ t \in Seq(S) /\ Len(t) = Len(s) - 1 /\ Head(s) = s[1]
      /\ \A i \in 1..(Len(s) - 1) : t[i] = s[i + 1]
  OBVIOUS
<1> HIDE DEF t
<1>2. \A i \in 1..Len(t) : t[i] \in S \ {Head(s)}
  BY <1>1 DEF Once
<1>3. Once(t)
  <2> SUFFICES ASSUME NEW i \in DOMAIN t, NEW j \in DOMAIN t, t[i] = t[j] PROVE i = j
    BY DEF Once
  <2>1. i + 1 \in DOMAIN s /\ j + 1 \in DOMAIN s /\ s[i + 1] = s[j + 1]
    BY <1>1
  <2>2. QED
    BY <2>1, <1>1 DEF Once
<1>4. Each(t) = Each(s) \ {Head(s)}
  <2>1. Each(t) \subseteq Each(s) \ {Head(s)}
    <3> SUFFICES ASSUME NEW i \in 1..Len(t) PROVE t[i] \in Each(s) \ {Head(s)}
      BY <1>1 DEF Each
    <3>1. i + 1 \in DOMAIN s /\ t[i] = s[i + 1]
      BY <1>1
    <3>2. QED
      BY <1>2, <3>1 DEF Each
  <2>2. ASSUME NEW i \in 1..Len(s), s[i] # Head(s) PROVE s[i] \in Each(t)
    <3>1. i - 1 \in DOMAIN t /\ t[i - 1] = s[i]
      BY <1>1, <2>2
    <3>2. QED
      BY <3>1 DEF Each
  <2>3. Each(s) \ {Head(s)} \subseteq Each(t)
    BY <2>2 DEF Each
  <2>4. QED
    BY <2>1, <2>3
<1>5. t \in Seq(S \ {Head(s)})
  BY <1>1, <1>2
<1>6. QED
  BY <1>1, <1>3, <1>4, <1>5 DEF t

\* store, and what load_all does under its lock.
LEMMA PutIsSound ==
  ASSUME NEW c, Sound(c), NEW key, NEW response
  PROVE  Sound(Put(c, key, response))
<1> DEFINE p == Put(c, key, response)
<1>1. /\ MaxEntries \in Nat \ {0} /\ c.order \in Seq(DOMAIN c.held) /\ Len(c.order) \in Nat
  BY ResourceAssumption DEF ResourceAssumption, Sound, Shaped
<1>2. CASE Holds(c, key)
  <2>1. p.order = c.order /\ DOMAIN p.held = DOMAIN c.held /\ DOMAIN p = {"order", "held"}
    BY <1>2 DEF Put, Sound, Shaped
  <2> HIDE DEF p
  <2>2. Sound(p)
    BY <1>1, <2>1 DEF Sound, Shaped
  <2>3. QED
    BY <2>2 DEF p
<1>3. CASE ~Holds(c, key) /\ Len(c.order) # MaxEntries
  <2>1. /\ p.order = Append(c.order, key) /\ DOMAIN p.held = DOMAIN c.held \cup {key}
        /\ DOMAIN p = {"order", "held"}
    BY <1>3 DEF Put
  <2>2. /\ p.order \in Seq(DOMAIN p.held) /\ Len(p.order) = Len(c.order) + 1
        /\ Once(p.order) /\ Each(p.order) = DOMAIN p.held
    <3>1. c.order \in Seq(DOMAIN p.held) /\ key \in DOMAIN p.held \ Each(c.order)
      BY <1>1, <1>3, <2>1 DEF Sound, Holds
    <3> HIDE DEF p
    <3>2. QED
      BY <2>1, <3>1, AppendOne DEF Sound
  <2> HIDE DEF p
  <2>3. Sound(p)
    BY <1>1, <1>3, <2>1, <2>2 DEF Sound, Shaped
  <2>4. QED
    BY <2>3 DEF p
<1>4. CASE ~Holds(c, key) /\ Len(c.order) = MaxEntries
  <2> DEFINE old == Head(c.order)
             rest == Tail(c.order)
  <2>1. /\ p.order = Append(rest, key)
        /\ DOMAIN p.held = (DOMAIN c.held \ {old}) \cup {key}
        /\ DOMAIN p = {"order", "held"}
    BY <1>4 DEF Put
  <2>2. /\ rest \in Seq(DOMAIN c.held \ {old}) /\ Len(rest) = MaxEntries - 1
        /\ Once(rest) /\ Each(rest) = DOMAIN c.held \ {old}
    <3>1. Len(c.order) > 0 /\ Once(c.order) /\ Each(c.order) = DOMAIN c.held
      BY <1>1, <1>4 DEF Sound
    <3> HIDE DEF p, old, rest
    <3>2. /\ Tail(c.order) \in Seq(DOMAIN c.held \ {Head(c.order)})
          /\ Len(Tail(c.order)) = Len(c.order) - 1
          /\ Once(Tail(c.order))
          /\ Each(Tail(c.order)) = Each(c.order) \ {Head(c.order)}
      BY <1>1, <3>1, TailLosesHead
    <3>3. QED
      BY <1>4, <3>1, <3>2 DEF old, rest
  <2> HIDE DEF p, old, rest
  <2>3. rest \in Seq(DOMAIN p.held) /\ key \in DOMAIN p.held \ Each(rest)
    BY <1>4, <2>1, <2>2 DEF Holds
  <2>4. /\ p.order \in Seq(DOMAIN p.held) /\ Len(p.order) = MaxEntries
        /\ Once(p.order) /\ Each(p.order) = DOMAIN p.held
    BY <1>1, <2>1, <2>2, <2>3, AppendOne
  <2>5. Sound(p)
    BY <1>1, <2>1, <2>4 DEF Sound, Shaped
  <2>6. QED
    BY <2>5 DEF p
<1>5. QED
  BY <1>2, <1>3, <1>4

-----------------------------------------------------------------------------

\* Only a probe that hits, a store that keeps and a clear touch the cache.
LEMMA StepKeepsSound ==
  ASSUME Sound(cache), [Next]_vars
  PROVE  Sound(cache)'
<1>1. ASSUME NEW c \in Clients, Probe(c) PROVE Sound(cache')
  BY <1>1, TouchIsSound DEF Probe
<1>2. ASSUME NEW c \in Clients, Store(c) PROVE Sound(cache')
  BY <1>2, PutIsSound DEF Store
<1>3. ASSUME Clear PROVE Sound(cache')
  BY <1>3, EmptyIsSound DEF Clear
<1>4. ASSUME NEW c \in Clients, Return(c) \/ Fetch(c) \/ FetchSerially(c) \/ Collect(c)
      PROVE  Sound(cache')
  BY <1>4 DEF Return, Fetch, FetchSerially, Collect
<1>5. ASSUME NEW c \in Clients, NEW m \in DOMAIN call[c].slots,
             \/ BeginNext(c, m) \/ HopOverNew(c, m) \/ HopOverKept(c, m)
             \/ SocketRefused(c, m) \/ Breaks(c, m)
      PROVE  Sound(cache')
  BY <1>5 DEF BeginNext, HopOverNew, HopOverKept, Hop, SocketRefused, Breaks
<1>6. ASSUME NEW c \in Clients, NEW r \in Calls, NEW mode, Start(c, r, mode)
      PROVE  Sound(cache')
  BY <1>6 DEF Start
<1>7. ASSUME SetPolicy \/ Closes \/ UNCHANGED vars PROVE Sound(cache')
  BY <1>7 DEF SetPolicy, Closes, vars
<1>8. Sound(cache)' <=> Sound(cache')
  BY DEF Sound, Shaped
<1>9. QED
  BY <1>1, <1>2, <1>3, <1>4, <1>5, <1>6, <1>7, <1>8 DEF Next, Step

\* However calls, clears and evictions interleave, the LRU order and the map
\* hold the same keys, each once, within the cap (resource_loader.cpp:1865-1982).
THEOREM OrderIsAlwaysMap == Spec => []OrderIsMap
<1>1. Init => Sound(cache)
  BY EmptyIsSound DEF Init
<1>2. Sound(cache) /\ [Next]_vars => Sound(cache)'
  BY StepKeepsSound
<1>3. QED
  BY <1>1, <1>2, SoundIsOrderIsMap, PTL DEF Spec

-----------------------------------------------------------------------------
(* What the header callback makes of the lines of an answer.               *)

\* The headers after each line: the function that HeadersAfter defines is there.
ReadInTurn(read, h, lines) ==
  /\ read[0] = h
  /\ \A n \in 1..Len(lines) : read[n] = WriteHeader(read[n - 1], lines[n])
  /\ HeadersAfter(h, lines) = read[Len(lines)]
LEMMA HeadersAreRead ==
  ASSUME NEW h, NEW lines, Len(lines) \in Nat
  PROVE  \E read : ReadInTurn(read, h, lines)
<1> DEFINE Body(f, n) == IF n = 0 THEN h ELSE WriteHeader(f[n - 1], lines[n])
           Reads(f, m) == f = [n \in 0..m |-> Body(f, n)]
           Known == {m \in Nat : \E f : Reads(f, m)}
<1>1. 0 \in Known
  <2> DEFINE f == [n \in 0..0 |-> h]
  <2>1. f = [n \in 0..0 |-> Body(f, n)]
    OBVIOUS
  <2>2. QED
    BY <2>1
<1>2. ASSUME NEW m \in Known PROVE m + 1 \in Known
  <2>1. PICK f : Reads(f, m)
    OBVIOUS
  <2> DEFINE g == [n \in 0..(m + 1) |->
                     IF n = m + 1 THEN WriteHeader(f[m], lines[m + 1]) ELSE f[n]]
  <2>2. ASSUME NEW n \in 0..(m + 1) PROVE g[n] = Body(g, n)
    <3>1. CASE n = m + 1
      BY <3>1
    <3>2. CASE n \in 0..m
      <4>1. f[n] = Body(f, n)
        BY <2>1, <3>2
      <4>2. g[n] = f[n] /\ (n # 0 => g[n - 1] = f[n - 1])
        BY <3>2
      <4>3. QED
        BY <4>1, <4>2
    <3>3. QED
      BY <3>1, <3>2
  <2>3. Reads(g, m + 1)
    BY <2>2
  <2>4. \E e : Reads(e, m + 1)
    <3> HIDE DEF g, Reads
    <3>1. QED
      BY <2>3
  <2>5. QED
    <3> HIDE DEF g, Reads
    <3>1. QED
      BY <2>4
<1>3. Len(lines) \in Known
  <2>1. Known \in SUBSET Nat
    OBVIOUS
  <2> HIDE DEF Known
  <2>2. QED
    BY <1>1, <1>2, <2>1, SetInduction
<1> DEFINE read == CHOOSE f : Reads(f, Len(lines))
<1>4. Reads(read, Len(lines))
  BY <1>3
<1>5. HeadersAfter(h, lines) = read[Len(lines)]
  BY DEF HeadersAfter
<1> HIDE DEF read
<1>6. read[0] = h /\ \A n \in 1..Len(lines) : read[n] = WriteHeader(read[n - 1], lines[n])
  BY <1>4
<1>7. QED
  BY <1>5, <1>6 DEF ReadInTurn

Sites == DOMAIN Server
Alike(u) == ReadsAlike(u, Server[u])
\* Where the next status line comes from.
NextHop(h) == IF h.next = Absent THEN h.current ELSE h.next[1]
IsSequence(s) == \E S : s \in Seq(S)
IsHeaders(h) ==
  /\ DOMAIN h = {"current", "next", "fields", "cookies"}
  /\ IsSequence(h.cookies)
\* The cookies that were there, and those of one more response: each with its
\* sender, which also names it where names are right.
Grown(cookies, before, url, right) ==
  \A i \in DOMAIN cookies :
    \/ i \in DOMAIN before /\ cookies[i] = before[i]
    \/ cookies[i][2] = url /\ (right => cookies[i][1] = url)

LEMMA AppendGrows ==
  ASSUME NEW s, IsSequence(s), NEW before, NEW url, NEW right, Grown(s, before, url, right),
         NEW name, right => name = url
  PROVE  LET a == Append(s, <<name, url>>)
         IN IsSequence(a) /\ Grown(a, before, url, right)
<1> DEFINE x == <<name, url>>
           a == Append(s, x)
<1>1. PICK S : s \in Seq(S)
  BY DEF IsSequence
<1>2. x[1] = name /\ x[2] = url
  OBVIOUS
<1> HIDE DEF x
<1>3. /\ a \in Seq(S \cup {x}) /\ DOMAIN a = 1..(Len(s) + 1) /\ Len(s) \in Nat
      /\ \A i \in 1..Len(s) : a[i] = s[i] /\ i \in DOMAIN s
      /\ a[Len(s) + 1] = x
  BY <1>1
<1> HIDE DEF a
<1>4. \A i \in DOMAIN a : i \in 1..Len(s) \/ i = Len(s) + 1
  BY <1>3
<1>5. Grown(a, before, url, right)
  BY <1>2, <1>3, <1>4 DEF Grown
<1>6. QED
  BY <1>3, <1>5 DEF IsSequence, a, x

\* An answer adds cookies of its own only; where its Locations are read alike
\* they are named for it, and the headers lead where it redirects.
LEMMA HeadersOfAnswer ==
  ASSUME NEW url, NEW h, IsHeaders(h), NEW answer, IsHttpAnswer(url, answer)
  PROVE  LET after == HeadersAfter(h, answer.lines)
             right == NextHop(h) = url /\ ReadsAlike(url, answer)
         IN /\ IsHeaders(after) /\ Grown(after.cookies, h.cookies, url, right)
            /\ right /\ answer.to # Absent => NextHop(after) = CurlTarget(url, answer.to[1])
<1> DEFINE lines == answer.lines
           Loc(i) == lines[i].is = "location"
           right == NextHop(h) = url /\ ReadsAlike(url, answer)
<1>1. /\ lines \in Seq(ToSet(lines)) /\ Len(lines) \in Nat /\ DOMAIN lines = 1..Len(lines)
      /\ lines # <<>> => lines[1].is = "status"
      /\ \A i \in 1..Len(lines) : lines[i].is = "cookie" => lines[i].value = url
  BY DEF IsHttpAnswer
<1>2. ASSUME right
      PROVE  /\ \A i, j \in 1..Len(lines) : Loc(i) /\ lines[j].is = "status" => j < i
             /\ answer.to # Absent =>
                  \E i \in 1..Len(lines) :
                    /\ Loc(i) /\ \A j \in 1..Len(lines) : Loc(j) => j <= i
                    /\ ResolveUrl(url, lines[i].value) = CurlTarget(url, answer.to[1])
  BY <1>1, <1>2 DEF ReadsAlike, LocationsOf, IsLast
<1>3. NextHop(h) = url \/ ~right
  OBVIOUS
<1> HIDE DEF lines, right
<1>4. PICK read : ReadInTurn(read, h, lines)
  <2>1. Len(lines) \in Nat => \E read : ReadInTurn(read, h, lines)
    BY HeadersAreRead, Zenon
  <2>2. QED
    BY <1>1, <2>1
<1>5. /\ read[0] = h
      /\ \A n \in 1..Len(lines) : read[n] = WriteHeader(read[n - 1], lines[n])
      /\ HeadersAfter(h, lines) = read[Len(lines)]
  BY <1>4 DEF ReadInTurn
<1> DEFINE Led(n) ==
             /\ read[n].current = url
             /\ (\A i \in 1..n : ~Loc(i)) => read[n].next = Absent
             /\ \A i \in 1..n :
                  Loc(i) /\ (\A j \in 1..n : Loc(j) => j <= i)
                    => read[n].next = <<ResolveUrl(url, lines[i].value)>>
           Fine == {n \in Nat : n <= Len(lines) =>
                      /\ IsHeaders(read[n]) /\ Grown(read[n].cookies, h.cookies, url, right)
                      /\ n > 0 /\ right => Led(n)}
<1>6. 0 \in Fine
  BY <1>5 DEF Grown
<1>7. ASSUME NEW n \in Fine PROVE n + 1 \in Fine
  <2> SUFFICES ASSUME n + 1 <= Len(lines)
               PROVE  /\ IsHeaders(read[n + 1])
                      /\ Grown(read[n + 1].cookies, h.cookies, url, right)
                      /\ right => Led(n + 1)
    OBVIOUS
  <2> DEFINE g == read[n]
             line == lines[n + 1]
             next == read[n + 1]
  <2>1. /\ n + 1 \in 1..Len(lines) /\ n \in Nat
        /\ IsHeaders(g) /\ Grown(g.cookies, h.cookies, url, right)
        /\ n > 0 /\ right => Led(n)
        /\ n = 0 => g = h
        /\ next = WriteHeader(g, line)
    BY <1>5
  <2>2. CASE line.is = "status"
    <3>1. right => \A i \in 1..(n + 1) : ~Loc(i)
      BY <1>1, <1>2, <2>1, <2>2
    <3>2. right => NextHop(g) = url
      BY <1>3, <2>1, <3>1 DEF NextHop
    <3>3. next = [g EXCEPT !.current = IF g.next = Absent THEN g.current ELSE g.next[1],
                           !.next = Absent, !.fields = <<>>]
      BY <2>1, <2>2 DEF WriteHeader
    <3>4. /\ next.current = NextHop(g) /\ next.next = Absent
          /\ next.cookies = g.cookies /\ DOMAIN next = DOMAIN g
      BY <2>1, <3>3 DEF IsHeaders, NextHop
    <3> HIDE DEF g, next
    <3>5. right => Led(n + 1)
      BY <2>1, <3>1, <3>2, <3>4 DEF next
    <3>6. QED
      BY <2>1, <3>4, <3>5 DEF IsHeaders, next
  <2>3. CASE line.is # "status"
    <3>1. n > 0 /\ (right => Led(n))
      BY <1>1, <2>1, <2>3
    <3>2. CASE line.is = "cookie"
      <4>1. next = [g EXCEPT !.cookies = Append(g.cookies, <<g.current, url>>)]
        BY <1>1, <2>1, <3>2 DEF WriteHeader
      <4>2. right => g.current = url
        BY <3>1
      <4>3. /\ next.cookies = Append(g.cookies, <<g.current, url>>)
            /\ DOMAIN next = DOMAIN g
            /\ next.current = g.current /\ next.next = g.next
        BY <2>1, <4>1 DEF IsHeaders
      <4>4. ~Loc(n + 1)
        BY <3>2
      <4>5. right => Led(n + 1)
        BY <2>1, <3>1, <4>3, <4>4
      <4>6. IsSequence(next.cookies) /\ Grown(next.cookies, h.cookies, url, right)
        BY <2>1, <4>2, <4>3, AppendGrows DEF IsHeaders
      <4>7. QED
        BY <2>1, <4>3, <4>5, <4>6 DEF IsHeaders
    <3>3. CASE line.is = "location"
      <4>1. next = [g EXCEPT !.next = <<ResolveUrl(g.current, line.value)>>,
                             !.fields = Append(g.fields, line.value)]
        BY <2>1, <3>3 DEF WriteHeader
      <4>2. /\ next.cookies = g.cookies /\ DOMAIN next = DOMAIN g
            /\ next.current = g.current
            /\ right => next.next = <<ResolveUrl(url, line.value)>>
        BY <2>1, <3>1, <4>1 DEF IsHeaders
      <4>3. Loc(n + 1)
        BY <3>3
      <4>4. right => Led(n + 1)
        BY <2>1, <3>1, <4>2, <4>3
      <4>5. QED
        BY <2>1, <4>2, <4>4 DEF IsHeaders
    <3>4. CASE line.is \notin {"cookie", "location"}
      <4>1. next = [g EXCEPT !.fields = Append(g.fields, line.value)]
        BY <2>1, <2>3, <3>4 DEF WriteHeader
      <4>2. /\ next.cookies = g.cookies /\ DOMAIN next = DOMAIN g
            /\ next.current = g.current /\ next.next = g.next
        BY <2>1, <4>1 DEF IsHeaders
      <4>3. ~Loc(n + 1)
        BY <3>4
      <4>4. right => Led(n + 1)
        BY <2>1, <3>1, <4>2, <4>3
      <4>5. QED
        BY <2>1, <4>2, <4>4 DEF IsHeaders
    <3>5. QED
      BY <3>2, <3>3, <3>4
  <2>4. QED
    BY <2>2, <2>3
<1>8. Len(lines) \in Fine
  <2>1. Fine \in SUBSET Nat
    OBVIOUS
  <2> HIDE DEF Fine
  <2>2. QED
    BY <1>1, <1>6, <1>7, <2>1, SetInduction
<1>9. ASSUME right, answer.to # Absent
      PROVE  NextHop(read[Len(lines)]) = CurlTarget(url, answer.to[1])
  <2>1. PICK i \in 1..Len(lines) :
          /\ Loc(i) /\ \A j \in 1..Len(lines) : Loc(j) => j <= i
          /\ ResolveUrl(url, lines[i].value) = CurlTarget(url, answer.to[1])
    BY <1>2, <1>9
  <2>2. read[Len(lines)].next = <<CurlTarget(url, answer.to[1])>>
    BY <1>1, <1>8, <1>9, <2>1
  <2>3. QED
    BY <2>2 DEF NextHop, Absent
<1>10. QED
  BY <1>1, <1>5, <1>8, <1>9 DEF lines, right

-----------------------------------------------------------------------------
(* The calls under way.                                                    *)

CallFields == {"pc", "reqs", "mode", "at", "answers", "misses", "serial", "slots"}
SlotFields == {"st", "url", "trail", "h", "status", "snap"}
AnswerFields == {"asked", "url", "status", "cookies", "fromCache"}

\* An entry answers exactly the requests with its key.
KeysTell(c) ==
  \A key \in DOMAIN c.held :
    /\ DOMAIN c.held[key] = AnswerFields
    /\ CacheKeyFor(c.held[key].asked) = key /\ c.held[key].status # 0

Suits(answer, request, mode) ==
  /\ Seen(answer.asked) = Seen(request)
  /\ answer.status = 0 => mode = "lenient"

\* A guarded connection led to no blocked address.
FineTrail(trail) ==
  /\ IsSequence(trail)
  /\ \A n \in DOMAIN trail : trail[n].guarded => ~BlockedPeer(trail[n].url.host)
\* Each cookie comes from a response on the trail, and is misnamed only if that
\* or one before it may be read in two ways.
Astray(trail, n) == \E i \in 1..n : ~Alike(trail[i].url)
Named(cookies, trail) ==
  \A i \in DOMAIN cookies :
    \E n \in DOMAIN trail :
      /\ trail[n].url = cookies[i][2]
      /\ cookies[i][1] = cookies[i][2] \/ Astray(trail, n)

\* A slot on its way is at a site of the network, which its headers lead to
\* unless they went astray; one that is done ended where its policy lets it.
FineSlot(s) ==
  /\ DOMAIN s = SlotFields
  /\ s.st \in {"waiting", "flying", "done", "failed"}
  /\ IsHeaders(s.h) /\ FineTrail(s.trail) /\ Named(s.h.cookies, s.trail)
  /\ s.st = "flying" =>
       /\ s.url \in Sites /\ IsNetwork(s.url)
       /\ NextHop(s.h) = s.url \/ Astray(s.trail, Len(s.trail))
  /\ s.st = "done" =>
       /\ s.status # 0
       /\ IsNetwork(s.url) =>
            /\ \E n \in DOMAIN s.trail : s.trail[n].url = s.url
            /\ s.url.host \notin s.snap.blocked

Missed(k) == Each(k.misses)
Rising(s) == \A a, b \in DOMAIN s : a < b => s[a] < s[b]
HasAnswer(k, i) == k.answers[i] # Absent

\* What holds of a call in every state.
FineCall(k) ==
  /\ DOMAIN k = CallFields
  /\ k.reqs \in Calls
  /\ DOMAIN k.answers = DOMAIN k.reqs
  /\ \A i \in DOMAIN k.reqs : HasAnswer(k, i) => Suits(k.answers[i][1], k.reqs[i], k.mode)
  /\ k.misses \in Seq(DOMAIN k.reqs) /\ Rising(k.misses)

\* What holds of it in each.
Probing(k) ==
  /\ k.at \in DOMAIN k.reqs /\ k.serial = FALSE
  /\ \A i \in DOMAIN k.reqs : i < k.at => HasAnswer(k, i) \/ i \in Missed(k)
  /\ \A i \in Missed(k) : i < k.at
Probed(k) == \A i \in DOMAIN k.reqs : HasAnswer(k, i) \/ i \in Missed(k)
Ready(k) == Probed(k) /\ k.at = 1 /\ k.misses # <<>>
Fetching(k) == Ready(k) /\ k.serial = FALSE
HasSlots(k) ==
  /\ DOMAIN k.slots = DOMAIN k.misses
  /\ \A m \in DOMAIN k.slots : FineSlot(k.slots[m])
\* One by one, a request begins once all before it are done.
InTurns(k) ==
  k.serial # FALSE =>
    \A m \in DOMAIN k.slots : k.slots[m].st # "waiting" =>
      \A i \in 1..(m - 1) : k.slots[i].st = "done"
InFlight(k) == Ready(k) /\ HasSlots(k) /\ InTurns(k)
Storing(k) ==
  /\ Probed(k) /\ HasSlots(k) /\ k.at \in DOMAIN k.misses
  /\ \A m \in DOMAIN k.slots : k.slots[m].st = "done" \/ k.mode = "lenient"
  /\ \A m \in DOMAIN k.misses : m < k.at => HasAnswer(k, k.misses[m])
Raising(k) ==
  /\ Probed(k) /\ k.at \in DOMAIN k.misses
  /\ \A m \in 1..(k.at - 1) : k.slots[m].st = "done"

InStep(k) ==
  CASE k.pc = "idle" -> TRUE
    [] k.pc = "probe" -> FineCall(k) /\ Probing(k)
    [] k.pc = "fetch" -> FineCall(k) /\ Fetching(k)
    [] k.pc = "flight" -> FineCall(k) /\ InFlight(k)
    [] k.pc = "store" -> FineCall(k) /\ Storing(k)
    [] k.pc = "answered" -> FineCall(k) /\ \A i \in DOMAIN k.reqs : HasAnswer(k, i)
    [] k.pc = "raised" -> FineCall(k) /\ Raising(k)
    [] OTHER -> FALSE

\* What was opened under a policy that keeps private addresses out leads to none.
Guarded(connections) ==
  \A kept \in connections : kept.guarded => ~BlockedPeer(kept.to[2])

Calling ==
  /\ KeysTell(cache)
  /\ DOMAIN call = Clients
  /\ \A c \in Clients : InStep(call[c])

-----------------------------------------------------------------------------
(* The entries of the cache.                                               *)

LEMMA EmptyTells == KeysTell(EmptyCache)
BY DEF KeysTell, EmptyCache

LEMMA TouchTells ==
  ASSUME NEW c, Sound(c), KeysTell(c), NEW key
  PROVE  KeysTell(Touch(c, key))
<1>1. Touch(c, key).held = c.held
  BY DEF Touch, Sound, Shaped
<1>2. QED
  BY <1>1 DEF KeysTell

LEMMA PutTells ==
  ASSUME NEW c, Sound(c), KeysTell(c), NEW response, DOMAIN response = AnswerFields,
         response.status # 0, NEW key, CacheKeyFor(response.asked) = key
  PROVE  KeysTell(Put(c, key, response))
<1> DEFINE p == Put(c, key, response)
<1>1. CASE Holds(c, key)
  <2>1. p.held = [c.held EXCEPT ![key] = response]
    BY <1>1 DEF Put, Sound, Shaped
  <2> HIDE DEF p
  <2>2. KeysTell(p)
    BY <1>1, <2>1 DEF KeysTell, Holds
  <2>3. QED
    BY <2>2 DEF p
<1>2. CASE ~Holds(c, key)
  <2> DEFINE kept == IF Len(c.order) = MaxEntries
                     THEN DOMAIN c.held \ {Head(c.order)} ELSE DOMAIN c.held
  <2>1. p.held = [k \in kept \cup {key} |-> IF k = key THEN response ELSE c.held[k]]
    BY <1>2 DEF Put
  <2>2. kept \subseteq DOMAIN c.held
    OBVIOUS
  <2> HIDE DEF p, kept
  <2>3. KeysTell(p)
    BY <2>1, <2>2 DEF KeysTell
  <2>4. QED
    BY <2>3 DEF p
<1>3. QED
  BY <1>1, <1>2

\* Requests with one key look the same to the server.
LEMMA KeyTellsSeen ==
  ASSUME NEW a, NEW b, CacheKeyFor(a) = CacheKeyFor(b)
  PROVE  Seen(a) = Seen(b)
BY DEF CacheKeyFor, Seen

\* An answer from the cache suits whoever asks with its key.
LEMMA CachedSuits ==
  ASSUME NEW c, KeysTell(c), NEW request, Holds(c, CacheKeyFor(request)), NEW mode
  PROVE  Suits(FromCache(c.held[CacheKeyFor(request)]), request, mode)
<1> DEFINE entry == c.held[CacheKeyFor(request)]
<1>1. /\ DOMAIN entry = AnswerFields /\ entry.status # 0
      /\ CacheKeyFor(entry.asked) = CacheKeyFor(request)
  BY DEF KeysTell, Holds
<1> HIDE DEF entry
<1>2. FromCache(entry).asked = entry.asked /\ FromCache(entry).status = entry.status
  BY <1>1 DEF FromCache, AnswerFields
<1>3. QED
  BY <1>1, <1>2, KeyTellsSeen DEF Suits, entry

-----------------------------------------------------------------------------
(* One slot.                                                               *)

LEMMA NewSlot ==
  ASSUME NEW request, request.url \in Sites, NEW snap
  PROVE  /\ FineSlot(Begun(request, snap)) /\ Begun(request, snap).st # "waiting"
         /\ FineSlot(Waiting(request, snap)) /\ Waiting(request, snap).st = "waiting"
<1> DEFINE f == Flying(request, snap)
<1>1. /\ DOMAIN f = SlotFields /\ f.st = "flying" /\ f.url = request.url /\ f.snap = snap
      /\ f.h = NoHeaders(request.url) /\ f.trail = <<>>
  BY DEF Flying, SlotFields
<1>2. /\ IsHeaders(f.h) /\ NextHop(f.h) = request.url
      /\ FineTrail(f.trail) /\ Named(f.h.cookies, f.trail)
  <2>1. f.h.cookies = <<>> /\ f.trail = <<>> /\ IsSequence(<<>>) /\ DOMAIN <<>> = {}
    <3>1. <<>> \in Seq({})
      OBVIOUS
    <3>2. QED
      BY <1>1, <3>1 DEF NoHeaders, IsSequence
  <2>2. DOMAIN f.h = {"current", "next", "fields", "cookies"} /\ NextHop(f.h) = request.url
    BY <1>1 DEF NextHop, NoHeaders, Absent
  <2>3. QED
    BY <2>1, <2>2 DEF IsHeaders, FineTrail, Named
<1>3. Begun(request, snap) \in
        {Failed(f), IF IsNetwork(request.url) THEN f ELSE Failed(f),
         IF IsNetwork(request.url) THEN f ELSE [f EXCEPT !.st = "done", !.status = 200]}
  BY DEF Begun
<1>4. Waiting(request, snap) = [f EXCEPT !.st = "waiting"]
  BY DEF Waiting
<1> HIDE DEF f
<1>5. FineSlot(Failed(f)) /\ Failed(f).st = "failed"
  BY <1>1, <1>2 DEF FineSlot, Failed, SlotFields
<1>6. FineSlot([f EXCEPT !.st = "waiting"]) /\ [f EXCEPT !.st = "waiting"].st = "waiting"
  BY <1>1, <1>2 DEF FineSlot, SlotFields
<1>7. IsNetwork(request.url) => FineSlot(f)
  BY <1>1, <1>2 DEF FineSlot
<1>8. ~IsNetwork(request.url) =>
        /\ FineSlot([f EXCEPT !.st = "done", !.status = 200])
        /\ [f EXCEPT !.st = "done", !.status = 200].st = "done"
  BY <1>1, <1>2 DEF FineSlot, SlotFields
<1>9. QED
  BY <1>1, <1>3, <1>4, <1>5, <1>6, <1>7, <1>8, ZenonT(40)

LEMMA FailedSlot ==
  ASSUME NEW s, FineSlot(s)
  PROVE  FineSlot(Failed(s)) /\ Failed(s).st = "failed"
BY DEF FineSlot, Failed, SlotFields

\* One more response on a trail.
LEMMA LongerTrail ==
  ASSUME NEW trail, FineTrail(trail), NEW url, NEW guarded, guarded => ~BlockedPeer(url.host)
  PROVE  LET longer == Append(trail, [url |-> url, guarded |-> guarded])
         IN /\ FineTrail(longer)
            /\ Len(trail) \in Nat /\ DOMAIN trail = 1..Len(trail)
            /\ DOMAIN longer = 1..(Len(trail) + 1) /\ Len(longer) = Len(trail) + 1
            /\ \A n \in 1..Len(trail) : longer[n] = trail[n]
            /\ longer[Len(trail) + 1].url = url
<1> DEFINE x == [url |-> url, guarded |-> guarded]
           longer == Append(trail, x)
<1>1. PICK S : trail \in Seq(S)
  BY DEF FineTrail, IsSequence
<1>2. x.url = url /\ x.guarded = guarded
  OBVIOUS
<1> HIDE DEF x
<1>3. /\ longer \in Seq(S \cup {x}) /\ Len(trail) \in Nat /\ DOMAIN trail = 1..Len(trail)
      /\ DOMAIN longer = 1..(Len(trail) + 1) /\ Len(longer) = Len(trail) + 1
      /\ \A n \in 1..Len(trail) : longer[n] = trail[n]
      /\ longer[Len(trail) + 1] = x
  BY <1>1
<1> HIDE DEF longer
<1>4. IsSequence(longer)
  BY <1>3 DEF IsSequence
<1>5. \A n \in DOMAIN longer : longer[n].guarded => ~BlockedPeer(longer[n].url.host)
  <2> SUFFICES ASSUME NEW n \in DOMAIN longer, longer[n].guarded
               PROVE  ~BlockedPeer(longer[n].url.host)
    OBVIOUS
  <2>1. CASE n \in 1..Len(trail)
    BY <1>3, <2>1 DEF FineTrail
  <2>2. CASE n = Len(trail) + 1
    BY <1>2, <1>3, <2>2
  <2>3. QED
    BY <1>3, <2>1, <2>2
<1>6. QED
  BY <1>2, <1>3, <1>4, <1>5 DEF FineTrail, longer, x

\* The names of a longer trail's cookies.
LEMMA LongerNames ==
  ASSUME NEW trail, NEW n \in Nat, DOMAIN trail = 1..n, NEW longer, DOMAIN longer = 1..(n + 1),
         \A i \in 1..n : longer[i] = trail[i], NEW url, longer[n + 1].url = url,
         NEW before, Named(before, trail),
         NEW cookies, NEW right, Grown(cookies, before, url, right),
         right \/ Astray(longer, n + 1)
  PROVE  Named(cookies, longer)
<1> SUFFICES ASSUME NEW i \in DOMAIN cookies
             PROVE  \E l \in DOMAIN longer :
                      /\ longer[l].url = cookies[i][2]
                      /\ cookies[i][1] = cookies[i][2] \/ Astray(longer, l)
  BY DEF Named
<1>1. CASE i \in DOMAIN before /\ cookies[i] = before[i]
  <2>1. PICK l \in 1..n :
          /\ trail[l].url = cookies[i][2]
          /\ cookies[i][1] = cookies[i][2] \/ Astray(trail, l)
    BY <1>1 DEF Named
  <2>2. Astray(trail, l) => Astray(longer, l)
    BY <2>1 DEF Astray
  <2>3. QED
    BY <2>1, <2>2
<1>2. CASE cookies[i][2] = url /\ (right => cookies[i][1] = url)
  BY <1>2
<1>3. QED
  BY <1>1, <1>2 DEF Grown

\* A response that arrives: its cookies come from it, a redirect is followed to
\* another site of the network, and what ends there passed the policy.
LEMMA ArrivedSlot ==
  ASSUME NEW s, FineSlot(s), s.st = "flying", NEW request, "url" \in DOMAIN request,
         NEW guarded, guarded => ~BlockedPeer(s.url.host)
  PROVE  /\ FineSlot(Arrived(request, s, Server[s.url], guarded))
         /\ Arrived(request, s, Server[s.url], guarded).st # "waiting"
<1> DEFINE answer == Server[s.url]
           h == HeadersAfter(s.h, answer.lines)
           trail == Append(s.trail, [url |-> s.url, guarded |-> guarded])
           here == [s EXCEPT !.h = h, !.trail = trail]
           to == CurlTarget(s.url, answer.to[1])
           after == Arrived(request, s, answer, guarded)
           right == NextHop(s.h) = s.url /\ ReadsAlike(s.url, answer)
           n == Len(s.trail)
<1>1. /\ s.url \in Sites /\ IsNetwork(s.url) /\ IsHeaders(s.h) /\ FineTrail(s.trail)
      /\ NextHop(s.h) = s.url \/ Astray(s.trail, n)
      /\ Named(s.h.cookies, s.trail)
      /\ DOMAIN s = SlotFields /\ IsHttpAnswer(s.url, answer)
  BY ServerAssumption DEF FineSlot, ServerAssumption, Sites
<1>2. /\ FineTrail(trail) /\ n \in Nat /\ DOMAIN s.trail = 1..n
      /\ DOMAIN trail = 1..(n + 1) /\ Len(trail) = n + 1
      /\ \A i \in 1..n : trail[i] = s.trail[i]
      /\ trail[n + 1].url = s.url
  BY <1>1, LongerTrail
<1>3. /\ IsHeaders(h) /\ Grown(h.cookies, s.h.cookies, s.url, right)
      /\ right /\ answer.to # Absent => NextHop(h) = to
  BY <1>1, HeadersOfAnswer
<1>4. Alike(s.url) <=> ReadsAlike(s.url, answer)
  BY DEF Alike
<1>5. /\ DOMAIN here = SlotFields /\ here.st = "flying" /\ here.url = s.url
      /\ here.snap = s.snap /\ here.h = h /\ here.trail = trail
  BY <1>1 DEF SlotFields
<1>6. after = IF answer.to # Absent
              THEN IF n = MaxRedirects \/ ~RedirectAllowed(to, s.snap) THEN Failed(here)
                   ELSE [here EXCEPT !.url = to]
              ELSE IF /\ ResponseAllowed(answer.size, s.snap)
                      /\ RequestAllowed([request EXCEPT !.url = s.url], s.snap)
                   THEN [here EXCEPT !.st = "done", !.status = answer.status]
                   ELSE Failed(here)
  BY <1>5 DEF Arrived
<1> HIDE DEF answer, here, to, after, h, trail, n
<1>7. right \/ Astray(trail, n + 1)
  <2>1. CASE ~ReadsAlike(s.url, answer)
    <3>1. ~Alike(trail[n + 1].url) /\ n + 1 \in 1..(n + 1)
      BY <1>2, <1>4, <2>1
    <3>2. QED
      BY <3>1 DEF Astray
  <2>2. CASE Astray(s.trail, n)
    <3>1. \A i \in 1..n : i \in 1..(n + 1)
      BY <1>2
    <3>2. QED
      BY <1>2, <2>2, <3>1 DEF Astray
  <2>3. QED
    BY <1>1, <2>1, <2>2
<1> HIDE DEF right
<1>8. Named(h.cookies, trail)
  BY <1>1, <1>2, <1>3, <1>7, LongerNames
<1>9. FineSlot(Failed(here)) /\ Failed(here).st = "failed"
  BY <1>2, <1>3, <1>5, <1>8 DEF FineSlot, Failed, SlotFields
<1>10. ASSUME answer.to # Absent, RedirectAllowed(to, s.snap)
       PROVE  FineSlot([here EXCEPT !.url = to]) /\ [here EXCEPT !.url = to].st = "flying"
  <2>1. to \in Sites
    BY <1>1, <1>10 DEF IsHttpAnswer, Sites, to
  <2>2. IsNetwork(to)
    BY <1>10 DEF RedirectAllowed
  <2>3. NextHop(h) = to \/ Astray(trail, Len(trail))
    BY <1>2, <1>3, <1>7, <1>10
  <2>4. QED
    BY <1>2, <1>3, <1>5, <1>8, <2>1, <2>2, <2>3 DEF FineSlot, SlotFields
<1>11. ASSUME RequestAllowed([request EXCEPT !.url = s.url], s.snap)
       PROVE  LET done == [here EXCEPT !.st = "done", !.status = answer.status]
              IN FineSlot(done) /\ done.st = "done"
  <2>1. s.url.host \notin s.snap.blocked
    BY <1>1, <1>11 DEF RequestAllowed, IsBlockedLiteralHost
  <2>2. answer.status # 0
    BY <1>1 DEF IsHttpAnswer
  <2>3. \E l \in DOMAIN trail : trail[l].url = s.url
    BY <1>2
  <2>4. QED
    BY <1>2, <1>3, <1>5, <1>8, <2>1, <2>2, <2>3 DEF FineSlot, SlotFields
<1>12. QED
  BY <1>6, <1>9, <1>10, <1>11 DEF after, answer

-----------------------------------------------------------------------------
(* One step of a call.                                                     *)

LEMMA CallingNext ==
  Calling' <=> KeysTell(cache') /\ DOMAIN call' = Clients /\ \A c \in Clients : InStep(call'[c])
BY DEF Calling, InStep, FineCall, Probing, Probed, Ready, Fetching, HasSlots, InTurns, InFlight,
       Storing, Raising, KeysTell, HasAnswer, Missed, FineSlot, Suits

LEMMA OneCall ==
  ASSUME Calling, NEW c \in Clients, NEW k, InStep(k),
         call' = [call EXCEPT ![c] = k], KeysTell(cache')
  PROVE  Calling'
<1>1. DOMAIN call' = Clients /\ \A d \in Clients : call'[d] = IF d = c THEN k ELSE call[d]
  BY DEF Calling
<1>2. \A d \in Clients : InStep(call'[d])
  BY <1>1 DEF Calling
<1>3. QED
  BY <1>1, <1>2, CallingNext

LEMMA CallsAreFine ==
  ASSUME NEW reqs \in Calls
  PROVE  /\ Len(reqs) \in Nat \ {0} /\ DOMAIN reqs = 1..Len(reqs)
         /\ \A i \in DOMAIN reqs : reqs[i].url \in Sites /\ "url" \in DOMAIN reqs[i]
<1>1. /\ Len(reqs) > 0 /\ reqs \in Seq(ToSet(reqs))
      /\ \A q \in ToSet(reqs) : "url" \in DOMAIN q /\ q.url \in DOMAIN Server
  BY CallsAssumption DEF CallsAssumption
<1>2. \A i \in DOMAIN reqs : reqs[i] \in ToSet(reqs)
  BY DEF ToSet
<1>3. QED
  BY <1>1, <1>2 DEF Sites

LEMMA StartIsFine ==
  ASSUME Calling, NEW c \in Clients, NEW reqs \in Calls, NEW mode, Start(c, reqs, mode)
  PROVE  Calling'
<1> DEFINE k == [pc |-> "probe", reqs |-> reqs, mode |-> mode, at |-> 1,
                 answers |-> [i \in DOMAIN reqs |-> Absent],
                 misses |-> <<>>, serial |-> FALSE, slots |-> <<>>]
<1>1. call' = [call EXCEPT ![c] = k] /\ cache' = cache
  BY DEF Start
<1>2. /\ DOMAIN k = CallFields /\ k.reqs = reqs /\ k.pc = "probe" /\ k.at = 1
      /\ k.misses = <<>> /\ k.mode = mode /\ k.serial = FALSE
      /\ k.answers = [i \in DOMAIN reqs |-> Absent]
  BY DEF CallFields
<1> HIDE DEF k
<1>3. k.misses \in Seq(DOMAIN k.reqs) /\ Rising(k.misses) /\ Missed(k) = {}
  BY <1>2 DEF Rising, Missed, Each
<1>4. FineCall(k) /\ Probing(k)
  BY <1>2, <1>3, CallsAreFine DEF FineCall, Probing, HasAnswer
<1>5. InStep(k)
  BY <1>2, <1>4 DEF InStep
<1>6. QED
  BY <1>1, <1>5, OneCall DEF Calling

\* A number larger than all before it goes to the end.
LEMMA AppendRises ==
  ASSUME NEW S \in SUBSET Int, NEW s \in Seq(S), Rising(s), NEW n \in S, \A i \in Each(s) : i < n
  PROVE  /\ Append(s, n) \in Seq(S) /\ Rising(Append(s, n)) /\ Append(s, n) # <<>>
         /\ Each(Append(s, n)) = Each(s) \cup {n}
<1> DEFINE a == Append(s, n)
<1>1. /\ a \in Seq(S) /\ Len(a) = Len(s) + 1 /\ Len(s) \in Nat
      /\ \A i \in 1..Len(s) : a[i] = s[i] /\ s[i] \in S
      /\ a[Len(s) + 1] = n
  OBVIOUS
<1> HIDE DEF a
<1>2. Rising(a)
  <2> SUFFICES ASSUME NEW i \in DOMAIN a, NEW j \in DOMAIN a, i < j PROVE a[i] < a[j]
    BY DEF Rising
  <2>1. CASE j \in 1..Len(s)
    BY <1>1, <2>1 DEF Rising
  <2>2. CASE j = Len(s) + 1
    BY <1>1, <2>2 DEF Each
  <2>3. QED
    BY <1>1, <2>1, <2>2
<1>3. Each(a) = Each(s) \cup {n}
  BY <1>1 DEF Each
<1>4. QED
  BY <1>1, <1>2, <1>3 DEF a

LEMMA ProbeIsFine ==
  ASSUME Calling, Sound(cache), NEW c \in Clients, Probe(c)
  PROVE  Calling'
<1> DEFINE k == call[c]
           request == k.reqs[k.at]
           key == CacheKeyFor(request)
           hit == Holds(cache, key)
           last == k.at = Len(k.reqs)
           misses == IF hit THEN k.misses ELSE Append(k.misses, k.at)
           answer == IF hit THEN <<FromCache(cache.held[key])>> ELSE k.answers[k.at]
           new == [k EXCEPT !.misses = misses, !.answers[k.at] = answer,
                            !.at = IF last THEN 1 ELSE k.at + 1,
                            !.pc = IF ~last THEN k.pc
                                   ELSE IF misses = <<>> THEN "answered" ELSE "fetch"]
<1>1. /\ k.pc = "probe" /\ FineCall(k) /\ Probing(k) /\ KeysTell(cache)
      /\ call' = [call EXCEPT ![c] = new]
      /\ cache' = IF hit THEN Touch(cache, key) ELSE cache
  BY DEF Calling, InStep, Probe
<1>2. KeysTell(cache')
  BY <1>1, TouchTells
<1>3. Suits(FromCache(cache.held[key]), request, k.mode) \/ ~hit
  BY <1>1, CachedSuits
<1>4. /\ DOMAIN k = CallFields /\ k.reqs \in Calls /\ DOMAIN k.answers = DOMAIN k.reqs
      /\ k.misses \in Seq(DOMAIN k.reqs) /\ Rising(k.misses)
      /\ Len(k.reqs) \in Nat \ {0} /\ DOMAIN k.reqs = 1..Len(k.reqs) /\ k.at \in 1..Len(k.reqs)
  BY <1>1, CallsAreFine DEF FineCall, Probing
<1>5. /\ misses \in Seq(DOMAIN k.reqs) /\ Rising(misses)
      /\ Each(misses) = IF hit THEN Missed(k) ELSE Missed(k) \cup {k.at}
  <2>1. \A i \in Each(k.misses) : i < k.at
    BY <1>1 DEF Probing, Missed
  <2>2. DOMAIN k.reqs \in SUBSET Int /\ k.at \in DOMAIN k.reqs
    BY <1>4
  <2>3. Append(k.misses, k.at) \in Seq(DOMAIN k.reqs) /\ Rising(Append(k.misses, k.at))
        /\ Each(Append(k.misses, k.at)) = Each(k.misses) \cup {k.at}
    <3> HIDE DEF k
    <3>1. QED
      BY <1>4, <2>1, <2>2, AppendRises
  <2>4. QED
    BY <1>4, <2>3 DEF Missed
<1> HIDE DEF misses, answer, hit
<1>6. /\ DOMAIN new = CallFields /\ new.reqs = k.reqs /\ new.mode = k.mode
      /\ new.misses = misses /\ new.serial = k.serial
      /\ new.answers = [k.answers EXCEPT ![k.at] = answer]
      /\ new.at = IF last THEN 1 ELSE k.at + 1
      /\ new.pc = IF ~last THEN "probe" ELSE IF misses = <<>> THEN "answered" ELSE "fetch"
  BY <1>1, <1>4 DEF CallFields
<1> HIDE DEF new, k
<1>7. \A i \in DOMAIN k.reqs :
        HasAnswer(new, i) <=> IF i = k.at THEN answer # Absent ELSE HasAnswer(k, i)
  BY <1>4, <1>6 DEF HasAnswer
<1>8. answer # Absent \/ k.at \in Each(misses)
  BY <1>5 DEF answer, Absent, hit
<1>9. answer # Absent => Suits(answer[1], request, k.mode)
  BY <1>1, <1>3, <1>4 DEF answer, FineCall, HasAnswer
<1>10. FineCall(new)
  <2>1. ASSUME NEW i \in DOMAIN k.reqs, HasAnswer(new, i)
        PROVE  Suits(new.answers[i][1], k.reqs[i], k.mode)
    <3>1. CASE i = k.at
      BY <1>4, <1>6, <1>7, <1>9, <2>1, <3>1
    <3>2. CASE i # k.at
      BY <1>1, <1>4, <1>6, <1>7, <2>1, <3>2 DEF FineCall
    <3>3. QED
      BY <3>1, <3>2
  <2>2. QED
    BY <1>4, <1>5, <1>6, <2>1 DEF FineCall
<1>11. \A i \in DOMAIN k.reqs : i < k.at + 1 => HasAnswer(new, i) \/ i \in Missed(new)
  BY <1>1, <1>4, <1>5, <1>6, <1>7, <1>8 DEF Probing, Missed
<1>12. \A i \in Missed(new) : i < k.at + 1
  <2>1. Missed(k) \subseteq 1..Len(k.reqs)
    BY <1>4 DEF Missed, Each
  <2>2. Missed(new) \subseteq Missed(k) \cup {k.at}
    BY <1>5, <1>6 DEF Missed
  <2>3. QED
    BY <1>1, <1>4, <2>1, <2>2 DEF Probing
<1>13. CASE ~last
  <2>1. new.at = k.at + 1 /\ new.at \in DOMAIN new.reqs
    BY <1>4, <1>6, <1>13
  <2>2. \A i \in DOMAIN new.reqs : i < new.at => HasAnswer(new, i) \/ i \in Missed(new)
    BY <1>6, <1>11, <2>1
  <2>3. new.serial = FALSE
    BY <1>1, <1>6 DEF Probing
  <2>4. Probing(new)
    BY <1>12, <2>1, <2>2, <2>3 DEF Probing
  <2>5. QED
    BY <1>1, <1>2, <1>6, <1>10, <1>13, <2>4, OneCall DEF InStep
<1>14. CASE last
  <2>1. Probed(new)
    BY <1>4, <1>6, <1>11, <1>14 DEF Probed
  <2>2. misses = <<>> => \A i \in DOMAIN new.reqs : HasAnswer(new, i)
    BY <1>6, <2>1 DEF Probed, Missed, Each
  <2>3. misses # <<>> => Fetching(new)
    BY <1>1, <1>6, <1>14, <2>1 DEF Fetching, Ready, Probing
  <2>4. InStep(new)
    BY <1>6, <1>10, <1>14, <2>2, <2>3 DEF InStep
  <2>5. QED
    BY <1>1, <1>2, <2>4, OneCall
<1>15. QED
  BY <1>13, <1>14

LEMMA StoreIsFine ==
  ASSUME Calling, Sound(cache), NEW c \in Clients, Store(c)
  PROVE  Calling'
<1> DEFINE k == call[c]
           slot == k.slots[k.at]
           i == k.misses[k.at]
           request == k.reqs[i]
           response == Response(request, slot.url, slot.status, slot.h.cookies)
           answer == IF slot.st = "done" THEN response ELSE Placeholder(request)
           last == k.at = Len(k.misses)
           new == [k EXCEPT !.answers[i] = <<answer>>, !.at = k.at + 1,
                            !.pc = IF last THEN "answered" ELSE k.pc]
<1>1. /\ k.pc = "store" /\ FineCall(k) /\ Storing(k) /\ KeysTell(cache)
      /\ call' = [call EXCEPT ![c] = new]
      /\ cache' = IF Storable(answer, k.mode # "load")
                  THEN Put(cache, CacheKeyFor(request), answer) ELSE cache
  BY DEF Calling, InStep, Store, SlotOf
<1>2. /\ DOMAIN k = CallFields /\ k.reqs \in Calls /\ DOMAIN k.answers = DOMAIN k.reqs
      /\ k.misses \in Seq(DOMAIN k.reqs) /\ Len(k.misses) \in Nat
      /\ DOMAIN k.misses = 1..Len(k.misses) /\ k.at \in 1..Len(k.misses)
      /\ i \in DOMAIN k.reqs
      /\ DOMAIN k.slots = DOMAIN k.misses
  <2>1. /\ DOMAIN k = CallFields /\ k.reqs \in Calls /\ DOMAIN k.answers = DOMAIN k.reqs
        /\ k.misses \in Seq(DOMAIN k.reqs) /\ k.at \in DOMAIN k.misses
    BY <1>1 DEF FineCall, Storing
  <2>2. DOMAIN k.slots = DOMAIN k.misses
    BY <1>1 DEF Storing, HasSlots
  <2> HIDE DEF k
  <2>3. QED
    BY <2>1, <2>2
<1>3. FineSlot(slot) /\ (slot.st = "done" \/ k.mode = "lenient")
  BY <1>1, <1>2 DEF Storing, HasSlots
<1>4. DOMAIN answer = AnswerFields /\ answer.asked = request
  BY DEF Response, Placeholder, AnswerFields
<1>5. answer.status = 0 => k.mode = "lenient"
  BY <1>3 DEF Response, FineSlot
<1> HIDE DEF answer, slot
<1>6. Suits(answer, request, k.mode)
  <2> HIDE DEF request, k
  <2>1. QED
    BY <1>4, <1>5 DEF Suits
<1>7. KeysTell(cache')
  <2>1. Storable(answer, k.mode # "load") => answer.status # 0
    <3> HIDE DEF k
    <3>1. QED
      BY DEF Storable
  <2>2. QED
    BY <1>1, <1>4, <2>1, PutTells
<1>8. /\ DOMAIN new = CallFields /\ new.reqs = k.reqs /\ new.mode = k.mode
      /\ new.misses = k.misses /\ new.slots = k.slots
      /\ new.answers = [k.answers EXCEPT ![i] = <<answer>>]
      /\ new.at = k.at + 1
      /\ new.pc = IF last THEN "answered" ELSE "store"
  BY <1>1, <1>2 DEF CallFields
<1> HIDE DEF new, k
<1>9. \A j \in DOMAIN k.reqs :
        /\ new.answers[j] = IF j = i THEN <<answer>> ELSE k.answers[j]
        /\ HasAnswer(new, j) <=> j = i \/ HasAnswer(k, j)
  BY <1>2, <1>8 DEF HasAnswer, Absent
<1>10. FineCall(new)
  <2>1. ASSUME NEW j \in DOMAIN k.reqs, HasAnswer(new, j)
        PROVE  Suits(new.answers[j][1], k.reqs[j], k.mode)
    BY <1>1, <1>6, <1>9, <2>1 DEF FineCall
  <2>2. QED
    BY <1>1, <1>2, <1>8, <2>1 DEF FineCall
<1>11. Probed(new)
  BY <1>1, <1>8, <1>9 DEF Probed, Storing, Missed
<1>12. \A m \in DOMAIN k.misses : m < k.at + 1 => HasAnswer(new, k.misses[m])
  <2> SUFFICES ASSUME NEW m \in DOMAIN k.misses, m < k.at + 1
               PROVE  HasAnswer(new, k.misses[m])
    OBVIOUS
  <2>1. m < k.at \/ m = k.at
    BY <1>2
  <2>2. k.misses[m] \in DOMAIN k.reqs
    BY <1>2
  <2>3. QED
    BY <1>1, <1>9, <2>1, <2>2 DEF Storing
<1>13. CASE last
  <2>1. \A j \in DOMAIN k.reqs : HasAnswer(new, j)
    <3> SUFFICES ASSUME NEW j \in DOMAIN k.reqs, j \in Missed(k) PROVE HasAnswer(new, j)
      BY <1>8, <1>11 DEF Probed, Missed
    <3>1. PICK m \in DOMAIN k.misses : k.misses[m] = j
      BY DEF Missed, Each
    <3>2. QED
      BY <1>2, <1>12, <1>13, <3>1
  <2>2. InStep(new)
    BY <1>8, <1>10, <1>13, <2>1 DEF InStep
  <2>3. QED
    BY <1>1, <1>7, <2>2, OneCall
<1>14. CASE ~last
  <2>1. /\ new.at \in DOMAIN new.misses
        /\ \A m \in DOMAIN new.misses : m < new.at => HasAnswer(new, new.misses[m])
    BY <1>2, <1>8, <1>12, <1>14
  <2>2. HasSlots(new) /\ \A m \in DOMAIN new.slots : new.slots[m].st = "done" \/ new.mode = "lenient"
    BY <1>1, <1>8 DEF Storing, HasSlots
  <2>3. Storing(new)
    BY <1>11, <2>1, <2>2 DEF Storing
  <2>4. InStep(new)
    BY <1>8, <1>10, <1>14, <2>3 DEF InStep
  <2>5. QED
    BY <1>1, <1>7, <2>4, OneCall
<1>15. QED
  BY <1>13, <1>14

LEMMA ReturnIsFine ==
  ASSUME Calling, NEW c \in Clients, Return(c)
  PROVE  Calling'
<1>1. call' = [call EXCEPT ![c] = Idle] /\ cache' = cache /\ InStep(Idle)
  BY DEF Return, InStep, Idle
<1>2. QED
  BY <1>1, OneCall DEF Calling

\* A call once its slots are there.
Launched(k, serial, slots) == [k EXCEPT !.pc = "flight", !.serial = serial, !.slots = slots]
LEMMA SlotsMade ==
  ASSUME Calling, NEW c \in Clients, call[c].pc = "fetch",
         NEW slots, DOMAIN slots = DOMAIN call[c].misses,
         \A m \in DOMAIN slots : FineSlot(slots[m]),
         NEW serial, serial # FALSE => \A m \in DOMAIN slots : slots[m].st = "waiting",
         call' = [call EXCEPT ![c] = Launched(call[c], serial, slots)],
         cache' = cache
  PROVE  Calling'
<1> DEFINE k == call[c]
           new == Launched(k, serial, slots)
<1>1. FineCall(k) /\ Fetching(k) /\ KeysTell(cache)
  BY DEF Calling, InStep
<1>2. /\ DOMAIN new = CallFields /\ new.reqs = k.reqs /\ new.mode = k.mode
      /\ new.misses = k.misses /\ new.slots = slots /\ new.answers = k.answers
      /\ new.at = k.at /\ new.pc = "flight" /\ new.serial = serial
  BY <1>1 DEF FineCall, CallFields, Launched
<1> HIDE DEF new
<1>3. FineCall(new) /\ Ready(new)
  BY <1>1, <1>2 DEF FineCall, Fetching, Ready, Probed, HasAnswer, Missed
<1>4. HasSlots(new) /\ InTurns(new)
  BY <1>2 DEF HasSlots, InTurns
<1>5. InStep(new)
  BY <1>2, <1>3, <1>4 DEF InStep, InFlight
<1>6. QED
  BY <1>1, <1>5, OneCall DEF new

LEMMA FetchIsFine ==
  ASSUME Calling, NEW c \in Clients, Fetch(c) \/ FetchSerially(c)
  PROVE  Calling'
<1> DEFINE k == call[c]
           begun == [m \in DOMAIN k.misses |-> Begun(k.reqs[k.misses[m]], policy)]
           waiting == [m \in DOMAIN k.misses |-> Waiting(k.reqs[k.misses[m]], policy)]
<1>1. k.pc = "fetch" /\ FineCall(k) /\ Fetching(k) /\ cache' = cache
  BY DEF Calling, InStep, Fetch, FetchSerially
<1>2. \A m \in DOMAIN k.misses : k.reqs[k.misses[m]].url \in Sites
  BY <1>1, CallsAreFine DEF FineCall
<1>3. CASE Fetch(c)
  <2>1. /\ DOMAIN begun = DOMAIN k.misses
        /\ \A m \in DOMAIN begun : FineSlot(begun[m])
    BY <1>2, NewSlot
  <2>2. call' = [call EXCEPT ![c] = [k EXCEPT !.pc = "flight", !.slots = begun]]
    BY <1>3 DEF Fetch
  <2> HIDE DEF begun
  <2>3. [k EXCEPT !.pc = "flight", !.slots = begun] = Launched(k, FALSE, begun)
    BY <1>1 DEF FineCall, CallFields, Fetching, Launched
  <2>4. QED
    BY <1>1, <2>1, <2>2, <2>3, SlotsMade
<1>4. CASE FetchSerially(c)
  <2>1. /\ DOMAIN waiting = DOMAIN k.misses
        /\ \A m \in DOMAIN waiting : FineSlot(waiting[m]) /\ waiting[m].st = "waiting"
    BY <1>2, NewSlot
  <2>2. call' = [call EXCEPT ![c] = Launched(k, TRUE, waiting)]
    BY <1>4 DEF FetchSerially, Launched
  <2> HIDE DEF waiting
  <2>3. QED
    BY <1>1, <2>1, <2>2, SlotsMade
<1>5. QED
  BY <1>3, <1>4

\* One slot of a call in flight becomes another, which is not waiting.
LEMMA OneSlot ==
  ASSUME Calling, NEW c \in Clients, call[c].pc = "flight",
         NEW m \in DOMAIN call[c].slots,
         call[c].slots[m].st \in {"waiting", "flying"},
         call[c].slots[m].st = "waiting" =>
           \A i \in 1..(m - 1) : call[c].slots[i].st = "done",
         NEW slot, FineSlot(slot), slot.st # "waiting",
         call' = [call EXCEPT ![c].slots[m] = slot], cache' = cache
  PROVE  Calling'
<1> DEFINE k == call[c]
           new == [k EXCEPT !.slots[m] = slot]
<1>1. FineCall(k) /\ Ready(k) /\ HasSlots(k) /\ InTurns(k) /\ KeysTell(cache)
  BY DEF Calling, InStep, InFlight
<1>2. call' = [call EXCEPT ![c] = new]
  OBVIOUS
<1>3. /\ DOMAIN new = CallFields /\ new.reqs = k.reqs /\ new.mode = k.mode
      /\ new.misses = k.misses /\ new.slots = [k.slots EXCEPT ![m] = slot]
      /\ new.answers = k.answers /\ new.at = k.at /\ new.pc = "flight" /\ new.serial = k.serial
  BY <1>1 DEF FineCall, CallFields
<1>4. /\ DOMAIN k.slots = DOMAIN k.misses /\ DOMAIN k.misses = 1..Len(k.misses)
      /\ Len(k.misses) \in Nat /\ m \in 1..Len(k.misses)
  BY <1>1 DEF FineCall, HasSlots
<1> HIDE DEF new
<1>5. FineCall(new) /\ Ready(new)
  BY <1>1, <1>3 DEF FineCall, Ready, Probed, HasAnswer, Missed
<1>6. HasSlots(new)
  BY <1>1, <1>3 DEF HasSlots
<1>7. ASSUME k.serial # FALSE, NEW j \in DOMAIN k.slots, new.slots[j].st # "waiting",
             NEW i \in 1..(j - 1)
      PROVE  new.slots[i].st = "done"
  <2>1. i \in DOMAIN k.slots /\ i < j
    BY <1>4, <1>7
  <2>2. CASE j = m
    <3>1. k.slots[i].st = "done"
      BY <1>1, <1>7, <2>2 DEF InTurns
    <3>2. QED
      BY <1>3, <1>4, <2>1, <2>2, <3>1
  <2>3. CASE j # m
    <3>1. k.slots[j].st # "waiting"
      BY <1>3, <1>7, <2>3
    <3>2. k.slots[i].st = "done"
      BY <1>1, <1>7, <3>1 DEF InTurns
    <3>3. i # m
      BY <3>2
    <3>4. QED
      BY <1>3, <2>1, <3>2, <3>3
  <2>4. QED
    BY <2>2, <2>3
<1>8. InTurns(new)
  BY <1>3, <1>7 DEF InTurns
<1>9. InStep(new)
  BY <1>3, <1>5, <1>6, <1>8 DEF InStep, InFlight
<1>10. QED
  BY <1>1, <1>2, <1>9, OneCall

LEMMA SlotStepIsFine ==
  ASSUME Calling, Guarded(open), NEW c \in Clients, NEW m \in DOMAIN call[c].slots,
         \/ BeginNext(c, m) \/ HopOverNew(c, m) \/ HopOverKept(c, m)
         \/ SocketRefused(c, m) \/ Breaks(c, m)
  PROVE  Calling'
<1> DEFINE k == call[c]
           request == k.reqs[k.misses[m]]
<1>1. k.pc = "flight" /\ FineCall(k) /\ HasSlots(k) /\ cache' = cache
  BY DEF Calling, InStep, InFlight, BeginNext, HopOverNew, HopOverKept, Hop, SocketRefused,
         Breaks, InTransfer
<1>2. k.misses[m] \in DOMAIN k.reqs /\ FineSlot(k.slots[m])
  BY <1>1 DEF FineCall, HasSlots
<1>3. request.url \in Sites /\ "url" \in DOMAIN request
  BY <1>1, <1>2, CallsAreFine DEF FineCall
<1>4. CASE BeginNext(c, m)
  <2> DEFINE slot == Begun(request, policy)
  <2>1. FineSlot(slot) /\ slot.st # "waiting"
    BY <1>3, NewSlot
  <2>2. /\ k.slots[m].st = "waiting" /\ \A i \in 1..(m - 1) : k.slots[i].st = "done"
        /\ call' = [call EXCEPT ![c].slots[m] = slot]
    BY <1>4 DEF BeginNext
  <2> HIDE DEF slot
  <2>3. QED
    BY <1>1, <2>1, <2>2, OneSlot
<1>5. ASSUME InTransfer(c, m), NEW guarded, guarded => ~BlockedPeer(k.slots[m].url.host),
             Hop(c, m, guarded)
      PROVE  Calling'
  <2> DEFINE slot == Arrived(request, k.slots[m], Server[k.slots[m].url], guarded)
  <2>1. k.slots[m].st = "flying" /\ call' = [call EXCEPT ![c].slots[m] = slot]
    BY <1>5 DEF Hop, InTransfer
  <2>2. FineSlot(slot) /\ slot.st # "waiting"
    BY <1>2, <1>3, <1>5, <2>1, ArrivedSlot
  <2> HIDE DEF slot
  <2>3. QED
    BY <1>1, <2>1, <2>2, OneSlot
<1>6. CASE HopOverNew(c, m)
  BY <1>5, <1>6 DEF HopOverNew, OpensSocket
<1>7. CASE HopOverKept(c, m)
  <2>1. PICK kept \in open : kept.to = OriginOf(k.slots[m].url) /\ Hop(c, m, kept.guarded)
    BY <1>7 DEF HopOverKept
  <2>2. kept.to[2] = k.slots[m].url.host
    BY <2>1 DEF OriginOf
  <2>3. kept.guarded => ~BlockedPeer(k.slots[m].url.host)
    BY <2>2 DEF Guarded
  <2>4. QED
    BY <1>5, <1>7, <2>1, <2>3 DEF HopOverKept
<1>8. CASE SocketRefused(c, m) \/ Breaks(c, m)
  <2> DEFINE slot == Failed(k.slots[m])
  <2>1. k.slots[m].st = "flying" /\ call' = [call EXCEPT ![c].slots[m] = slot]
    BY <1>8 DEF SocketRefused, Breaks, InTransfer
  <2>2. FineSlot(slot) /\ slot.st # "waiting"
    BY <1>2, FailedSlot
  <2> HIDE DEF slot
  <2>3. QED
    BY <1>1, <2>1, <2>2, OneSlot
<1>9. QED
  BY <1>4, <1>6, <1>7, <1>8

\* The failure that is thrown is the first, and all before it are done.
LEMMA CollectIsFine ==
  ASSUME Calling, NEW c \in Clients, Collect(c)
  PROVE  Calling'
<1> DEFINE k == call[c]
           failed == FailedSlots(k)
           raised == [k EXCEPT !.pc = "raised", !.at = Raised(failed)]
           stored == [k EXCEPT !.pc = "store"]
<1>1. /\ k.pc = "flight" /\ FineCall(k) /\ Ready(k) /\ HasSlots(k) /\ InTurns(k)
      /\ KeysTell(cache) /\ cache' = cache
  BY DEF Calling, InStep, InFlight, Collect
<1>2. /\ DOMAIN k.slots = DOMAIN k.misses /\ DOMAIN k.misses = 1..Len(k.misses)
      /\ Len(k.misses) \in Nat /\ DOMAIN k = CallFields
      /\ failed = {m \in DOMAIN k.slots : k.slots[m].st = "failed"}
  BY <1>1 DEF FineCall, HasSlots, FailedSlots
<1>3. \/ \A m \in DOMAIN k.slots : k.slots[m].st \in {"done", "failed"}
      \/ k.serial /\ failed # {}
  BY DEF Collect
<1>4. CASE Throws(k)
  <2>1. failed # {} /\ failed \in SUBSET Nat
    BY <1>2, <1>4 DEF Throws
  <2>2. \E m \in failed : \A i \in failed : m <= i
    BY <2>1, LeastNumber
  <2> DEFINE first == Raised(failed)
  <2>3. first \in failed /\ \A i \in failed : first <= i
    BY <2>2 DEF Raised
  <2>4. call' = [call EXCEPT ![c] = raised]
    BY <1>4 DEF Collect
  <2> HIDE DEF first, failed
  <2>5. first \in DOMAIN k.misses /\ k.slots[first].st = "failed"
    BY <1>2, <2>3
  <2>6. ASSUME NEW m \in 1..(first - 1) PROVE k.slots[m].st = "done"
    <3>1. m \in DOMAIN k.slots /\ m < first /\ m \notin failed
      BY <1>2, <2>3, <2>5
    <3>2. CASE k.serial
      BY <1>1, <1>2, <2>5, <3>2 DEF InTurns
    <3>3. CASE \A i \in DOMAIN k.slots : k.slots[i].st \in {"done", "failed"}
      BY <1>2, <3>1, <3>3
    <3>4. QED
      BY <1>3, <3>2, <3>3
  <2>7. /\ DOMAIN raised = CallFields /\ raised.reqs = k.reqs /\ raised.mode = k.mode
        /\ raised.misses = k.misses /\ raised.slots = k.slots /\ raised.answers = k.answers
        /\ raised.at = first /\ raised.pc = "raised"
    BY <1>2 DEF CallFields, first
  <2> HIDE DEF raised
  <2>8. FineCall(raised)
    BY <1>1, <2>7 DEF FineCall, HasAnswer
  <2>9. Raising(raised)
    BY <1>1, <2>5, <2>6, <2>7 DEF Raising, Ready, Probed, HasAnswer, Missed
  <2>10. InStep(raised)
    BY <2>7, <2>8, <2>9 DEF InStep
  <2>11. QED
    BY <1>1, <2>4, <2>10, OneCall
<1>5. CASE ~Throws(k)
  <2>1. call' = [call EXCEPT ![c] = stored]
    BY <1>5 DEF Collect
  <2>2. \A m \in DOMAIN k.slots : k.slots[m].st = "done" \/ k.mode = "lenient"
    BY <1>2, <1>3, <1>5 DEF Throws
  <2>3. /\ DOMAIN stored = CallFields /\ stored.reqs = k.reqs /\ stored.mode = k.mode
        /\ stored.misses = k.misses /\ stored.slots = k.slots /\ stored.answers = k.answers
        /\ stored.at = k.at /\ stored.pc = "store"
    BY <1>2 DEF CallFields
  <2> HIDE DEF stored
  <2>4. FineCall(stored)
    BY <1>1, <2>3 DEF FineCall, HasAnswer
  <2>5. k.at \in DOMAIN k.misses /\ k.at = 1
    BY <1>1, <1>2 DEF Ready, FineCall
  <2>6. Probed(stored) /\ HasSlots(stored)
    BY <1>1, <2>3 DEF Ready, Probed, HasSlots, HasAnswer, Missed
  <2>7. Storing(stored)
    BY <1>2, <2>2, <2>3, <2>5, <2>6 DEF Storing
  <2>8. InStep(stored)
    BY <2>3, <2>4, <2>7 DEF InStep
  <2>9. QED
    BY <1>1, <2>1, <2>8, OneCall
<1>6. QED
  BY <1>4, <1>5

-----------------------------------------------------------------------------

LEMMA InitIsFine == Init => Calling
<1> SUFFICES ASSUME Init PROVE Calling
  OBVIOUS
<1>1. InStep(Idle)
  BY DEF InStep, Idle
<1>2. QED
  BY <1>1, EmptyTells DEF Init, Calling

\* Only a new socket adds a connection.
LEMMA StepKeepsGuarded ==
  ASSUME Guarded(open), [Next]_vars
  PROVE  Guarded(open')
<1>1. ASSUME open' \subseteq open PROVE Guarded(open')
  BY <1>1 DEF Guarded
<1>2. ASSUME NEW c \in Clients, NEW m, HopOverNew(c, m) PROVE Guarded(open')
  <2> DEFINE slot == call[c].slots[m]
             new == Connection(slot.url, slot.snap)
  <2>1. open' \subseteq open \cup {new} /\ OpensSocket(slot.url, slot.snap)
    BY <1>2 DEF HopOverNew
  <2>2. new.guarded => ~BlockedPeer(new.to[2])
    BY <2>1 DEF Connection, OriginOf, OpensSocket
  <2> HIDE DEF new
  <2>3. QED
    BY <2>1, <2>2 DEF Guarded
<1>3. ASSUME NEW c \in Clients, Step(c) PROVE Guarded(open')
  <2>1. CASE \E m \in DOMAIN call[c].slots : HopOverNew(c, m)
    BY <1>2, <2>1
  <2>2. CASE ~\E m \in DOMAIN call[c].slots : HopOverNew(c, m)
    BY <1>1, <1>3, <2>2 DEF Step, Probe, Store, Return, Fetch, FetchSerially, Collect, BeginNext,
                            HopOverKept, SocketRefused, Breaks
  <2>3. QED
    BY <2>1, <2>2
<1>4. CASE \E c \in Clients, r \in Calls, mode \in {"load", "failfast", "lenient"} : Start(c, r, mode)
  BY <1>1, <1>4 DEF Start
<1>5. CASE Clear \/ SetPolicy \/ Closes \/ UNCHANGED vars
  BY <1>1, <1>5 DEF Clear, SetPolicy, Closes, vars
<1>6. QED
  BY <1>3, <1>4, <1>5 DEF Next

LEMMA StepIsFine ==
  ASSUME Sound(cache), Guarded(open), Calling, [Next]_vars
  PROVE  Calling'
<1>1. ASSUME NEW c \in Clients, NEW r \in Calls, NEW mode, Start(c, r, mode) PROVE Calling'
  BY <1>1, StartIsFine
<1>2. ASSUME NEW c \in Clients, Step(c) PROVE Calling'
  BY <1>2, ProbeIsFine, StoreIsFine, ReturnIsFine, FetchIsFine, CollectIsFine, SlotStepIsFine
     DEF Step
<1>3. ASSUME call' = call, KeysTell(cache') PROVE Calling'
  <2>1. \A c \in Clients : InStep(call'[c])
    BY <1>3 DEF Calling
  <2>2. QED
    BY <1>3, <2>1, CallingNext DEF Calling
<1>4. CASE Clear
  BY <1>3, <1>4, EmptyTells DEF Clear
<1>5. CASE SetPolicy \/ Closes \/ UNCHANGED vars
  BY <1>3, <1>5 DEF SetPolicy, Closes, vars, Calling
<1>6. QED
  BY <1>1, <1>2, <1>4, <1>5 DEF Next

CallingInv == Sound(cache) /\ Guarded(open) /\ Calling
LEMMA AlwaysCalling == Spec => []CallingInv
<1>1. Init => CallingInv
  BY InitIsFine, EmptyIsSound DEF Init, CallingInv, Guarded
<1>2. CallingInv /\ [Next]_vars => CallingInv'
  <2>1. Guarded(open') => Guarded(open)'
    BY DEF Guarded
  <2>2. QED
    BY <2>1, StepKeepsSound, StepKeepsGuarded, StepIsFine DEF CallingInv
<1>3. QED
  BY <1>1, <1>2, PTL DEF Spec

\* A batch answers its requests in their order and never one with the answer
\* of another, whatever hits, misses, evictions, clears and other calls mix; one
\* that throws throws the failure of the first request that failed
\* (CachingResourceLoader::load_all, resource_loader.cpp:1899-1960, 1757).
THEOREM BatchAlwaysInOrder == Spec => []BatchKeepsItsOrder
<1>1. Calling => BatchKeepsItsOrder
  <2> SUFFICES ASSUME Calling, NEW c \in Clients
      PROVE  LET k == call[c] IN
             /\ k.pc = "answered" =>
                  \A i \in DOMAIN k.reqs :
                    /\ k.answers[i] # Absent
                    /\ Seen(k.answers[i][1].asked) = Seen(k.reqs[i])
                    /\ k.answers[i][1].status = 0 => k.mode = "lenient"
             /\ k.pc = "raised" =>
                  \A i \in 1..(k.misses[k.at] - 1) :
                    \/ k.answers[i] # Absent
                    \/ \E m \in DOMAIN k.misses : k.misses[m] = i /\ k.slots[m].st = "done"
    BY DEF BatchKeepsItsOrder
  <2> DEFINE k == call[c]
  <2>1. ASSUME k.pc = "answered", NEW i \in DOMAIN k.reqs
        PROVE  /\ k.answers[i] # Absent
               /\ Seen(k.answers[i][1].asked) = Seen(k.reqs[i])
               /\ k.answers[i][1].status = 0 => k.mode = "lenient"
    BY <2>1 DEF Calling, InStep, FineCall, HasAnswer, Suits
  <2>2. ASSUME k.pc = "raised", NEW i \in 1..(k.misses[k.at] - 1), k.answers[i] = Absent
        PROVE  \E m \in DOMAIN k.misses : k.misses[m] = i /\ k.slots[m].st = "done"
    <3>1. FineCall(k) /\ Raising(k)
      BY <2>2 DEF Calling, InStep
    <3> HIDE DEF k
    <3> DEFINE s == k.misses
               n == Len(k.reqs)
    <3>2. /\ s \in Seq(1..n) /\ k.at \in DOMAIN s /\ Rising(s)
          /\ DOMAIN k.reqs = 1..n /\ n \in Nat
      BY <3>1, CallsAreFine DEF FineCall, Raising
    <3> HIDE DEF s, n
    <3>3. DOMAIN s = 1..Len(s) /\ Len(s) \in Nat /\ s[k.at] \in 1..n
      BY <3>2
    <3>4. i \in 1..n /\ i < s[k.at]
      <4> DEFINE top == s[k.at]
      <4>1. i \in 1..(top - 1) /\ top \in 1..n
        BY <2>2, <3>3 DEF s
      <4> HIDE DEF top
      <4>2. i \in 1..n /\ i < top
        BY <3>2, <4>1
      <4>3. QED
        BY <4>2 DEF top
    <3>5. PICK m \in DOMAIN s : s[m] = i
      BY <2>2, <3>1, <3>2, <3>4 DEF Raising, Probed, HasAnswer, Missed, Each, s
    <3>6. m < k.at
      <4>1. k.at \in 1..Len(s) /\ m \in 1..Len(s)
        BY <3>2, <3>3, <3>5
      <4>2. ASSUME k.at < m PROVE FALSE
        <5>1. s[k.at] < s[m]
          BY <3>2, <3>5, <4>2 DEF Rising
        <5>2. QED
          BY <3>3, <3>4, <3>5, <5>1
      <4>3. m # k.at
        BY <3>3, <3>4, <3>5
      <4>4. QED
        BY <4>1, <4>2, <4>3, <3>3
    <3>7. k.slots[m].st = "done"
      BY <3>1, <3>2, <3>3, <3>5, <3>6 DEF Raising
    <3>8. QED
      BY <3>5, <3>7 DEF s
  <2>3. QED
    BY <2>1, <2>2
<1>2. QED
  BY <1>1, AlwaysCalling, PTL DEF CallingInv

\* What holds of every slot a call has.
LEMMA SlotsAreFine ==
  ASSUME Calling, NEW c \in Clients, call[c].pc \in {"flight", "store"},
         NEW m \in DOMAIN call[c].slots
  PROVE  FineSlot(call[c].slots[m])
BY DEF Calling, InStep, InFlight, Storing, HasSlots

\* Every Set-Cookie is kept with the URL of the response that carried it, for
\* any number of hops and interim responses, unless that response or one before
\* it had Locations that write_header and libcurl read differently
\* (write_header, resource_loader.cpp:163).
THEOREM CookiesAlwaysNameTheirHop == Spec => []CookiesNameTheirHop
<1>1. Calling => CookiesNameTheirHop
  <2> SUFFICES ASSUME Calling, NEW c \in Clients, call[c].pc \in {"flight", "store"},
                      NEW m \in DOMAIN call[c].slots,
                      NEW cookie \in ToSet(call[c].slots[m].h.cookies)
               PROVE  LET trail == call[c].slots[m].trail IN
                      \/ cookie[1] = cookie[2]
                      \/ \E n \in DOMAIN trail :
                           /\ trail[n].url = cookie[2]
                           /\ \E i \in 1..n : ~ReadsAlike(trail[i].url, Server[trail[i].url])
    BY DEF CookiesNameTheirHop
  <2> DEFINE slot == call[c].slots[m]
  <2>1. Named(slot.h.cookies, slot.trail)
    BY SlotsAreFine DEF FineSlot
  <2> HIDE DEF slot
  <2>2. QED
    BY <2>1 DEF Named, Astray, Alike, ToSet, slot
<1>2. QED
  BY <1>1, AlwaysCalling, PTL DEF CallingInv

\* What a call gets from an address its snapshot of the policy keeps out came
\* over a connection that was opened while a policy let it in, and no guarded
\* socket leads to one, for any policies and however they are replaced
\* (guarded_open_socket, resource_loader.cpp:602).
THEOREM BlockedAlwaysOnlyOverKept == Spec => []BlockedOnlyOverKept
<1>1. Guarded(open) /\ Calling => BlockedOnlyOverKept
  <2> SUFFICES ASSUME Calling, NEW c \in Clients, call[c].pc \in {"flight", "store"},
                      NEW m \in DOMAIN call[c].slots
      PROVE  LET slot == call[c].slots[m]
                 senders == {cookie[2] : cookie \in ToSet(slot.h.cookies)}
                 answers == slot.st = "done" /\ IsNetwork(slot.url)
             IN /\ slot.snap.private =>
                     \A u \in senders \cup (IF answers THEN {slot.url} ELSE {}) :
                       BlockedPeer(u.host) =>
                         \E n \in DOMAIN slot.trail :
                           slot.trail[n].url = u /\ ~slot.trail[n].guarded
                /\ answers => slot.url.host \notin slot.snap.blocked
    BY DEF BlockedOnlyOverKept, Guarded
  <2> DEFINE slot == call[c].slots[m]
             senders == {cookie[2] : cookie \in ToSet(slot.h.cookies)}
             answers == slot.st = "done" /\ IsNetwork(slot.url)
  <2>1. FineSlot(slot)
    BY SlotsAreFine
  <2> HIDE DEF slot
  <2>2. \A u \in senders : \E n \in DOMAIN slot.trail : slot.trail[n].url = u
    BY <2>1 DEF FineSlot, Named, ToSet
  <2>3. answers => /\ \E n \in DOMAIN slot.trail : slot.trail[n].url = slot.url
                   /\ slot.url.host \notin slot.snap.blocked
    BY <2>1 DEF FineSlot
  <2>4. \A n \in DOMAIN slot.trail :
          slot.trail[n].guarded => ~BlockedPeer(slot.trail[n].url.host)
    BY <2>1 DEF FineSlot, FineTrail
  <2>5. ASSUME NEW u \in senders \cup (IF answers THEN {slot.url} ELSE {}), BlockedPeer(u.host)
        PROVE  \E n \in DOMAIN slot.trail : slot.trail[n].url = u /\ ~slot.trail[n].guarded
    <3>1. PICK n \in DOMAIN slot.trail : slot.trail[n].url = u
      BY <2>2, <2>3
    <3>2. QED
      BY <2>4, <2>5, <3>1
  <2>6. QED
    BY <2>3, <2>5 DEF slot
<1>2. QED
  BY <1>1, AlwaysCalling, PTL DEF CallingInv
=============================================================================
