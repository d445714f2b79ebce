------------------------------- MODULE WebUrl -------------------------------
(***************************************************************************)
(* URLs and references as the loaders read them (resource_loader.cpp,      *)
(* cookie_jar.cpp under src/src).  A URL is a record:                      *)
(*   host   labels, the top-level one first; empty when there is none      *)
(*   port   0 when none is given                                           *)
(*   path   segments, <<"">> for "/", a last "" for a trailing slash       *)
(* Queries, fragments and user names are left out.  A reference is a       *)
(* record [is, url, host, path] with is one of "absolute", "network",      *)
(* "root", "relative", "hostlike" and "empty"; a hostlike one is relative, *)
(* and its first segment reads as a host's name (looks_like_host_reference,*)
(* 1235): path has that segment, host its labels.                          *)
(***************************************************************************)
EXTENDS Integers, Sequences, FiniteSets, SequencesExt

Absent == <<>>

Url(scheme, host, port, path) ==
  [scheme |-> scheme, host |-> host, port |-> port, path |-> path]
Secure(url) == url.scheme = "https"
IsNetwork(url) == url.scheme \in {"http", "https"}

\* A default port names the same origin as none.
OriginOf(url) ==
  <<url.scheme, url.host,
    IF url.port # 0 THEN url.port
    ELSE IF url.scheme = "http" THEN 80 ELSE IF Secure(url) THEN 443 ELSE 0>>
SameOrigin(a, b) == a.host # <<>> /\ OriginOf(a) = OriginOf(b)

\* What is left of a path once its empty and dot segments are gone; a leading
\* ".." has nothing to remove.
NormalizeUrlPath(path) ==
  LET Walk(kept, segment) ==
        CASE segment \in {"", "."} -> kept
          [] segment = ".." -> IF kept = <<>> THEN kept ELSE Front(kept)
          [] OTHER -> Append(kept, segment)
      kept == FoldLeft(Walk, <<>>, path)
  IN IF kept = <<>> \/ Last(path) = "" THEN Append(kept, "") ELSE kept

DirectoryOf(path) == Front(path)

ResolveUrl(base, ref) ==
  LET Normal(url) == IF IsNetwork(url) \/ url.scheme = "file"
                     THEN [url EXCEPT !.path = NormalizeUrlPath(@)] ELSE url
  IN CASE ref.is = "empty" -> base
       [] ref.is = "absolute" -> Normal(ref.url)
       [] ref.is = "network" -> Normal([base EXCEPT !.host = ref.host, !.port = 0, !.path = ref.path])
       [] ref.is = "hostlike" ->
            Normal([base EXCEPT !.host = ref.host, !.port = 0, !.path = Tail(ref.path)])
       [] ref.is = "root" -> Normal([base EXCEPT !.path = ref.path])
       [] ref.is = "relative" -> Normal([base EXCEPT !.path = DirectoryOf(@) \o ref.path])

\* How libcurl reads a redirect, as RFC 3986 has it: no name is a host unless
\* "//" leads it, and only dot segments go.
DotsRemoved(path) ==
  LET Walk(kept, segment) ==
        CASE segment = "." -> kept
          [] segment = ".." -> IF kept = <<>> THEN kept ELSE Front(kept)
          [] OTHER -> Append(kept, segment)
      kept == FoldLeft(Walk, <<>>, path)
  IN IF path = <<>> \/ Last(path) \in {".", ".."} THEN Append(kept, "") ELSE kept
CurlTarget(base, ref) ==
  LET Joined(url) == [url EXCEPT !.path = DotsRemoved(@)]
  IN CASE ref.is = "empty" -> base
       [] ref.is = "absolute" -> Joined(ref.url)
       [] ref.is = "network" -> Joined([base EXCEPT !.host = ref.host, !.port = 0, !.path = ref.path])
       [] ref.is = "root" -> Joined([base EXCEPT !.path = ref.path])
       [] ref.is \in {"relative", "hostlike"} ->
            Joined([base EXCEPT !.path = DirectoryOf(@) \o ref.path])

\* The Referer a request leaves with: only its origin when it goes elsewhere,
\* none for what is not on the network.
ReferrerForTarget(referrer, target) ==
  IF referrer = Absent \/ ~IsNetwork(referrer[1]) THEN Absent
  ELSE IF OriginOf(referrer[1]) = OriginOf(target) THEN referrer
  ELSE <<[referrer[1] EXCEPT !.path = <<"">>]>>
=============================================================================
