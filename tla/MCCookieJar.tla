----------------------------- MODULE MCCookieJar -----------------------------
(* A site with a suffix of its own below it and a customer of that suffix, *)
(* another site, an address; small caps.                                   *)
EXTENDS CookieJar

MCSuffixes == {<<"com">>, <<"com", "a", "s">>}
MCIpHosts == {<<"4", "1">>}
A == <<"com", "a">>
Plain1 == Url("http", A, 0, <<"">>)
Deep1 == Url("https", A, 0, <<"x", "y">>)
Sub1 == Url("https", <<"com", "a", "s", "t">>, 0, <<"x">>)
MCRedirects == {<<Plain1, Deep1>>, <<Sub1, Plain1>>}
MCUrls == {Deep1, Plain1, Sub1,
           Url("https", <<"com", "b">>, 443, <<"">>), Url("http", <<"4", "1">>, 0, <<"">>)}

Plain == [name |-> "n", value |-> 1, sound |-> TRUE, domain |-> Absent, path |-> Absent,
          secure |-> FALSE, httpOnly |-> FALSE, sameSite |-> "DefaultLax",
          maxAge |-> Absent, expires |-> Absent]
MCOffers ==
  {Plain, [Plain EXCEPT !.httpOnly = TRUE, !.domain = <<A>>],
   [Plain EXCEPT !.secure = TRUE, !.path = <<<<"x", "">>>>],
   [Plain EXCEPT !.domain = <<<<"com">>>>],
   [Plain EXCEPT !.domain = <<<<"4">>>>, !.sameSite = "None"],
   [Plain EXCEPT !.maxAge = <<0>>, !.expires = <<9>>, !.path = <<<<"x", "">>>>],
   [Plain EXCEPT !.maxAge = <<-1>>, !.domain = <<A>>],
   [Plain EXCEPT !.name = "__Host-h", !.secure = TRUE, !.path = <<<<"">>>>, !.expires = <<1>>]}
=============================================================================
