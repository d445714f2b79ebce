---------------------------- MODULE MCSharedLoads ----------------------------
(* Two threads: a URL that redirects within its site, one that redirects to  *)
(* where an address is refused, one whose Location looks like a host, one    *)
(* with two Locations, an address as people write it that answers an error,  *)
(* a file outside the root and a data URL.                                   *)
EXTENDS SharedLoads, TLC

HostA == <<"com", "a">>
HostB == <<"com", "b">>
Inside == <<"lan", "in">>
A1 == Url("https", HostA, 0, <<"d", "x">>)
A2 == Url("https", HostA, 0, <<"y">>)
B1 == Url("http", HostB, 0, <<"">>)
P1 == Url("http", Inside, 0, <<"">>)
Loop == <<"1", "127">>
L1 == Url("http", Loop, 0, <<"">>)
H1 == Url("https", HostA, 0, <<"h">>)
K1 == Url("https", HostA, 0, <<"bank.com", "x">>)
M1 == Url("http", HostB, 0, <<"m">>)
D1 == Url("data", <<>>, 0, <<"">>)
F1 == Url("file", <<>>, 0, <<"f">>)

Relative == [is |-> "relative", url |-> A1, host |-> <<>>, path |-> <<"..", "y">>]
Elsewhere == [is |-> "absolute", url |-> P1, host |-> <<>>, path |-> <<>>]
Hostlike == [is |-> "hostlike", url |-> A1, host |-> <<"com", "bank">>, path |-> <<"bank.com", "x">>]
Back == [is |-> "absolute", url |-> A2, host |-> <<>>, path |-> <<>>]
Status == [is |-> "status", value |-> <<>>]
Location(ref) == [is |-> "location", value |-> ref]
Cookie(url) == [is |-> "cookie", value |-> url]
Answer(lines, status, to) == [lines |-> lines, status |-> status, size |-> 1, to |-> to]

MCServer ==
  A1 :> Answer(<<Status, Cookie(A1), Location(Relative)>>, 302, <<Relative>>) @@
  A2 :> Answer(<<Status, Status, Cookie(A2)>>, 200, Absent) @@
  B1 :> Answer(<<Status, Location(Elsewhere), Cookie(B1)>>, 302, <<Elsewhere>>) @@
  P1 :> Answer(<<Status, Cookie(P1)>>, 200, Absent) @@
  H1 :> Answer(<<Status, Location(Hostlike)>>, 302, <<Hostlike>>) @@
  K1 :> Answer(<<Status, Cookie(K1)>>, 200, Absent) @@
  M1 :> Answer(<<Status, Location(Back), Location(Elsewhere)>>, 302, <<Back>>) @@
  L1 :> Answer(<<Status>>, 404, Absent) @@
  F1 :> [status |-> 200, size |-> 1, found |-> <<"etc", "f">>] @@
  D1 :> Answer(<<>>, 200, Absent)

Request(url) == [url |-> url, kind |-> "image", referrer |-> <<A2>>, base |-> <<A2>>, cookies |-> <<>>]
Known(url) == [Request(url) EXCEPT !.cookies = <<"session">>]
MCCalls ==
  {<<Request(A1)>>, <<Request(B1), Request(A1)>>, <<Known(A1), Request(D1)>>,
   <<Request(F1), Request(L1)>>, <<Request(H1)>>, <<Request(M1)>>}

Public == [schemes |-> {"http", "https", "data", "file"}, network |-> TRUE, file |-> TRUE,
           fileFromNetwork |-> TRUE, root |-> <<<<"srv">>>>, private |-> TRUE,
           blocked |-> {}, sameOrigin |-> FALSE, maxBytes |-> 1]
MCPolicies == {Public, [Public EXCEPT !.private = FALSE, !.blocked = {HostB}, !.maxBytes = 0]}
MCWritten == Loop :> [is |-> "v4", parts |-> <<<<127>>, <<1>>>>]
MCResolved == Inside :> <<0, 0, 0, 0, 0, 0, 0, 0, 0, 0, 255, 255, 10, 0, 0, 1>> @@
              Loop :> <<127, 0, 0, 1>>
Symmetry == Permutations(Clients)
=============================================================================
