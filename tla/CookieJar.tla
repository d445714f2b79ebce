------------------------------ MODULE CookieJar ------------------------------
(***************************************************************************)
(* A page's cookie jar: responses and scripts write it, time passes,       *)
(* cookies are read (src/src/cookie_jar.cpp).  Every operation holds the   *)
(* jar's lock from its first look at the cookies to its last change.       *)
(***************************************************************************)
EXTENDS CookieRules

CONSTANTS Urls,      \* where documents and resources are
          Redirects, \* pairs of them: a response and where it leads
          Offers,    \* the Set-Cookie values servers and scripts write
          MaxNow     \* bound: the jar's time

ASSUME JarAssumption ==
  /\ MaxNow \in Nat
  /\ Redirects \subseteq Urls \X Urls
  /\ \A u \in Urls : u.host \in Seq(STRING)
  /\ \A o \in Offers : o.domain = Absent \/ o.domain[1] \in Seq(STRING)

VARIABLES jar,   \* cookies_
          now    \* system_clock::now()
vars == <<jar, now>>

Init == jar = <<>> /\ now = 0

SetDocumentCookie(url, offer) ==
  /\ jar' \in SetCookieFromHeader(jar, url, offer, FALSE, now)
  /\ UNCHANGED now

\* A response that came over up to two hops, one cookie from each.
Store(cookies, credentials, document) ==
  /\ jar' \in StoreFromResponse(jar, now, Head(cookies)[1], FALSE, cookies, credentials, document)
  /\ UNCHANGED now

Clear == jar' = <<>> /\ UNCHANGED now
Tick == now < MaxNow /\ now' = now + 1 /\ UNCHANGED jar

Next ==
  \/ \E u \in Urls, o \in Offers : SetDocumentCookie(u, o)
  \/ \E u, d \in Urls, o \in Offers : Store(<<<<u, o>>>>, "same-origin", d)
  \/ \E r \in Redirects, o \in Offers, c \in {"omit", "include"} :
       Store(<<<<r[1], o>>, <<r[2], o>>>>, c, r[1])
  \/ Clear
  \/ Tick
Spec == Init /\ [][Next]_vars

-----------------------------------------------------------------------------
(* Properties.                                                             *)

\* A jar holds one cookie per name, domain, path and scope, no domain has more
\* than its cap and all together no more than the jar's, however writes,
\* deletions and evictions follow each other (set_cookie_from_header,
\* cookie_jar.cpp:672-724).
TypeOK ==
  /\ now \in 0..MaxNow
  /\ \A i, j \in DOMAIN jar : SameIdentity(jar[i], jar[j]) => i = j
  /\ \A c \in ToSet(jar) : Weight(jar, c.domain) <= MaxPerDomain
  /\ Len(jar) <= MaxTotal

SharesDomain(host, other) ==
  \E n \in 1..Len(host) :
    SubSeq(host, 1, n) \notin PublicSuffixes /\ IsPrefix(SubSeq(host, 1, n), other)

\* A cookie only ever reaches the host that set it and hosts that share with it
\* a domain that is no public suffix: what the Domain attribute may widen
\* (cookie_jar.cpp:557) and what a read matches (cookie_jar.cpp:304) never join
\* two registrants of one suffix, for requests and for scripts.
StaysInItsSite ==
  \A u, d \in Urls :
    \A c \in ToSet(CookiesFor(jar, now, u, "image", "GET", "include", d))
              \cup ToSet(DocumentCookie(jar, now, u)) :
      u.host = c.by \/ SharesDomain(c.by, u.host)

Gone == ToSet(jar) \ ToSet(jar')
\* An eviction takes the oldest cookie of a domain, at one of the caps.
MayBeShed(c) ==
  /\ \A i \in DOMAIN jar : jar[i].domain = c.domain /\ jar[i] # c
       => \E k \in DOMAIN jar : k < i /\ jar[k] = c
  /\ Weight(jar, c.domain) = MaxPerDomain \/ Len(jar) = MaxTotal

\* A script never removes or replaces a cookie it may not see, and nothing
\* that came over plain http removes or replaces a Secure one: not by its
\* identity, not by the wider match of an expired write
\* (cookie_jar.cpp:653 and 662).  Evictions are no one's write.
ProtectedCookiesStay ==
  [][\A c \in Gone :
       \/ MayBeShed(c)
       \/ /\ c.httpOnly => ~\E u \in Urls, o \in Offers : SetDocumentCookie(u, o)
          /\ c.secure => ~\E u \in {x \in Urls : ~Secure(x)}, o \in Offers :
                            Store(<<<<u, o>>>>, "include", u)]_vars

\* A write costs another domain's cookie only when the jar is full and that
\* domain is still at least as heavy as any: "the origin that filled the jar
\* sheds its own oldest entries first" (cookie_jar.cpp:698-701).
NeighboursAreSpared ==
  [][\A c \in Gone :
       \/ /\ Len(jar) = MaxTotal
          /\ \A e \in ToSet(jar') : Weight(jar', e.domain) <= Weight(jar, c.domain)
       \/ ~\E u \in {x \in Urls : ~DomainMatch(x.host, c.domain)}, o \in Offers :
             Store(<<<<u, o>>>>, "include", u)]_vars
=============================================================================
