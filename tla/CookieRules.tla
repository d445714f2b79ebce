----------------------------- MODULE CookieRules -----------------------------
(***************************************************************************)
(* The rules of CookieJar (src/src/cookie_jar.cpp), as operators on jars.  *)
(* A jar is a sequence of cookies, oldest first.  A Set-Cookie header is   *)
(* an offer, with what its attributes say; absent ones are empty tuples,   *)
(* present ones hold their value:                                          *)
(*   domain, path, maxAge, expires   the last two in the jar's time        *)
(*   sound   false when the name or value is empty, too long or has a      *)
(*           control character                                             *)
(***************************************************************************)
EXTENDS WebUrl, Keeping

CONSTANTS PublicSuffixes,  \* what libpsl calls a public suffix
          IpHosts,         \* the hosts that are IP addresses
          SecureNames,     \* the names that start with __Secure-
          HostNames,       \* the names that start with __Host-
          MaxAge,          \* kMaxCookieAgeSeconds
          MaxPerDomain,    \* kMaxCookiesPerDomain
          MaxTotal         \* kMaxCookiesTotal

ASSUME CookieAssumption ==
  /\ MaxAge \in Nat \ {0}
  /\ MaxPerDomain \in Nat \ {0}
  /\ MaxTotal \in Nat \ {0}

Lower(a, b) == IF a < b THEN a ELSE b
Higher(a, b) == IF a < b THEN b ELSE a

-----------------------------------------------------------------------------
(* Hosts and sites.                                                        *)

DomainMatch(host, domain) == domain # <<>> /\ IsPrefix(domain, host)

\* A cookie's path that ends in a slash covers what lies below it only.
PathMatch(asked, path) ==
  \/ path = <<"">>
  \/ IsPrefix(path, asked)
  \/ Last(path) = "" /\ Len(path) <= Len(asked) /\ IsPrefix(Front(path), asked)

DefaultPathFor(path) == IF Len(path) <= 1 THEN <<"">> ELSE Front(path)

MutantIsPublicSuffix(host) == host = <<>>
IsPublicSuffix(host) == host = <<>> \/ host \in PublicSuffixes

\* One label more than the longest public suffix; a public suffix or an
\* address stands for itself.
RegistrableDomain(host) ==
  LET suffixes == {n \in 1..Len(host) : SubSeq(host, 1, n) \in PublicSuffixes}
      longest == CHOOSE n \in suffixes \cup {0} : \A m \in suffixes : m <= n
  IN IF host \in IpHosts THEN host
     ELSE SubSeq(host, 1, Lower(longest + 1, Len(host)))

SiteOf(url) == <<url.scheme, RegistrableDomain(url.host)>>
SameSiteUrl(a, b) == a.host # <<>> /\ b.host # <<>> /\ SiteOf(a) = SiteOf(b)

-----------------------------------------------------------------------------
(* Reading.                                                                *)

IsSafeMethod(method) == method \in {"GET", "HEAD", "OPTIONS", "TRACE"}
IsExpired(cookie, now) == cookie.expires # Absent /\ cookie.expires[1] <= now

CookieMatches(cookie, url) ==
  /\ cookie.secure => Secure(url)
  /\ IF cookie.hostOnly THEN url.host = cookie.domain
     ELSE DomainMatch(url.host, cookie.domain)
  /\ PathMatch(url.path, cookie.path)

SameSiteAllowsCookie(cookie, url, site, navigates, method) ==
  \/ SameSiteUrl(url, site)
  \/ cookie.sameSite = "None"
  \/ cookie.sameSite # "Strict" /\ navigates /\ IsSafeMethod(method)

CredentialsAllow(credentials, url, document) ==
  \/ credentials = "include"
  \/ credentials = "same-origin" /\ SameOrigin(url, document)

\* cookie_header_for_url: the cookies themselves for their text.
CookieHeaderForUrl(jar, now, url, script, site, navigates, method) ==
  IF url.host = <<>> THEN <<>>
  ELSE Kept(jar, {c \in ToSet(jar) :
         /\ ~IsExpired(c, now) /\ CookieMatches(c, url)
         /\ IF script THEN ~c.httpOnly
            ELSE SameSiteAllowsCookie(c, url, site, navigates, method)})

DocumentCookie(jar, now, document) ==
  CookieHeaderForUrl(jar, now, document, TRUE, document, FALSE, "GET")

\* with_cookie_header for a request that has no Cookie header of its own: the
\* cookies it leaves with.
CookiesFor(jar, now, url, kind, method, credentials, document) ==
  IF ~CredentialsAllow(credentials, url, document) THEN <<>>
  ELSE CookieHeaderForUrl(jar, now, url, FALSE, document, kind = "document", method)

-----------------------------------------------------------------------------
(* Writing.                                                                *)

\* Whether the Domain attribute is one the host may give.
DomainAccepted(offer, url) ==
  \/ offer.domain = Absent
  \/ offer.domain[1] # <<>> /\
     IF url.host \in IpHosts \/ IsPublicSuffix(offer.domain[1])
     THEN offer.domain[1] = url.host
     ELSE DomainMatch(url.host, offer.domain[1])

\* The attribute widens the cookie's scope, unless it only names an address or
\* a suffix.
Widens(offer, url) ==
  /\ offer.domain # Absent
  /\ url.host \notin IpHosts /\ ~IsPublicSuffix(offer.domain[1])

\* Max-Age, clamped, wins over Expires.
Expiry(offer, now) ==
  IF offer.maxAge = Absent THEN offer.expires
  ELSE <<now + Lower(MaxAge, Higher(-MaxAge, offer.maxAge[1]))>>

\* by is the model's: the host the cookie is from, for the properties.
Offered(url, offer, fromHttp, now) ==
  [name |-> offer.name, value |-> offer.value,
   domain |-> IF Widens(offer, url) THEN offer.domain[1] ELSE url.host,
   hostOnly |-> ~Widens(offer, url),
   path |-> IF offer.path = Absent THEN DefaultPathFor(url.path) ELSE offer.path[1],
   secure |-> offer.secure, httpOnly |-> offer.httpOnly /\ fromHttp,
   sameSite |-> offer.sameSite, expires |-> Expiry(offer, now),
   by |-> url.host]

PrefixHolds(cookie, url) ==
  /\ cookie.name \in SecureNames => cookie.secure /\ Secure(url)
  /\ cookie.name \in HostNames =>
       cookie.secure /\ Secure(url) /\ cookie.hostOnly /\ cookie.path = <<"">>

SameIdentity(a, b) ==
  a.name = b.name /\ a.domain = b.domain /\ a.path = b.path /\ a.hostOnly = b.hostOnly
CanModify(cookie, fromHttp) == fromHttp \/ ~cookie.httpOnly

MutantMayWrite(jar, cookie, url, fromHttp) ==
  /\ cookie.secure => Secure(url)
  /\ cookie.sameSite = "None" => cookie.secure
  /\ ~fromHttp => ~\E c \in ToSet(jar) : c.httpOnly /\ SameIdentity(c, cookie)
\* Neither what scripts may not touch nor what only a secure transport may.
MayWrite(jar, cookie, url, fromHttp) ==
  /\ cookie.secure => Secure(url)
  /\ cookie.sameSite = "None" => cookie.secure
  /\ ~fromHttp => ~\E c \in ToSet(jar) : c.httpOnly /\ SameIdentity(c, cookie)
  /\ ~Secure(url) =>
       ~\E c \in ToSet(jar) :
          c.secure /\ c.name = cookie.name /\ DomainMatch(url.host, c.domain)

Rewritten(jar, cookie, fromHttp) ==
  {c \in ToSet(jar) : CanModify(c, fromHttp) /\ SameIdentity(c, cookie)}

\* An expired offer deletes its own identity or, where that is not there,
\* whatever of its name the URL reaches.
Deleted(jar, cookie, url, fromHttp) ==
  LET own == Rewritten(jar, cookie, fromHttp)
      reached == {c \in ToSet(jar) :
                    CanModify(c, fromHttp) /\ c.name = cookie.name /\ CookieMatches(c, url)}
  IN Kept(jar, ToSet(jar) \ (IF own # {} THEN own ELSE reached))

MutantReplaced(jar, cookie, fromHttp) == Append(jar, cookie)
\* A cookie written again becomes the youngest.
Replaced(jar, cookie, fromHttp) ==
  Append(Kept(jar, ToSet(jar) \ Rewritten(jar, cookie, fromHttp)), cookie)

OfDomain(jar, domain) == {i \in DOMAIN jar : jar[i].domain = domain}
Weight(jar, domain) == Cardinality(OfDomain(jar, domain))
WithoutOldest(jar, domain) ==
  RemoveAt(jar, CHOOSE i \in OfDomain(jar, domain) :
                  \A j \in OfDomain(jar, domain) : i <= j)
MutantHeaviest(jar) == {Head(jar).domain}
Heaviest(jar) ==
  {d \in {c.domain : c \in ToSet(jar)} :
     \A c \in ToSet(jar) : Weight(jar, c.domain) <= Weight(jar, d)}

\* One cookie was added, so each of the code's loops runs once at most.  Of
\* two domains as heavy the unordered map decides.
Bounded(jar, domain) ==
  LET kept == IF Weight(jar, domain) > MaxPerDomain THEN WithoutOldest(jar, domain) ELSE jar
  IN IF Len(kept) <= MaxTotal THEN {kept}
     ELSE {WithoutOldest(kept, d) : d \in Heaviest(kept)}

\* set_cookie_from_header: the jars it may leave.
SetCookieFromHeader(jar, url, offer, fromHttp, now) ==
  LET cookie == Offered(url, offer, fromHttp, now) IN
  CASE \/ url.host = <<>> \/ ~offer.sound \/ ~DomainAccepted(offer, url)
       \/ ~PrefixHolds(cookie, url) \/ ~MayWrite(jar, cookie, url, fromHttp) -> {jar}
    [] OTHER ->
       IF IsExpired(cookie, now) THEN {Deleted(jar, cookie, url, fromHttp)}
       ELSE Bounded(Replaced(jar, cookie, fromHttp), cookie.domain)

\* store_from_response: the headers of every hop, each with the URL it came
\* from; an answer from the cache was stored when it was fetched.
StoreFromResponse(jar, now, url, fromCache, cookies, credentials, document) ==
  IF fromCache \/ ~CredentialsAllow(credentials, url, document) THEN {jar}
  ELSE LET after[n \in 0..Len(cookies)] ==
             IF n = 0 THEN {jar}
             ELSE UNION {SetCookieFromHeader(j, cookies[n][1], cookies[n][2], TRUE, now) :
                           j \in after[n - 1]}
       IN after[Len(cookies)]
=============================================================================
