--------------------------- MODULE MCRenderLoads ---------------------------
(* A page with an image or two and a sheet; the sheet redirects, sets a      *)
(* cookie, names an image next to where it was found, and a font.            *)
EXTENDS RenderLoads, TLC

Host == <<"com", "a">>
At(path) == Url("https", Host, 0, path)
Relative(path) == [is |-> "relative", url |-> At(<<"">>), host |-> <<>>, path |-> path]
Page == At(<<"d", "">>)
Image == At(<<"d", "i">>)
Sheet == At(<<"d", "s">>)
Found == At(<<"c", "s">>)
Inner == At(<<"c", "b">>)
Font == At(<<"c", "f">>)

Plain(name, value) ==
  [name |-> name, value |-> value, sound |-> TRUE, domain |-> Absent, path |-> Absent,
   secure |-> FALSE, httpOnly |-> FALSE, sameSite |-> "Lax", maxAge |-> Absent, expires |-> Absent]
Root(offer) == [offer EXCEPT !.path = <<<<"">>>>]

Answer(at, status, cookies) ==
  [at |-> at, status |-> status, size |-> 1, cookies |-> cookies, styles |-> <<>>, faces |-> <<>>]
MCWeb ==
  Image :> Answer(Image, 200, <<>>) @@
  Sheet :> [Answer(Found, 200, <<<<Sheet, Root(Plain("n", 1))>>>>) EXCEPT
              !.styles = <<[kind |-> "image", ref |-> Relative(<<"b">>)]>>,
              !.faces = <<[face |-> "f", ref |-> Relative(<<"f">>)]>>] @@
  Inner :> Answer(Inner, 200, <<>>) @@
  Font :> Answer(Font, 404, <<>>)

Shown(images, links) ==
  [base |-> Page, images |-> images, links |-> links, styles |-> <<>>, faces |-> <<>>]
Links == <<Relative(<<"s">>)>>
MCDocuments ==
  {Shown(<<Relative(<<"i">>)>>, Links),
   Shown(<<Relative(<<"i">>), Relative(<<"..", "c", "b">>)>>, Links)}
MCScriptOffers == {Root(Plain("n", 2)), [Root(Plain("n", 1)) EXCEPT !.maxAge = <<0>>]}

Three == <<3>>
Six == <<6>>
Nowhere == <<>>
=============================================================================
