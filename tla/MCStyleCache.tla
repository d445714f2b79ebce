---------------------------- MODULE MCStyleCache ----------------------------
(* Small documents, fragments and viewports for StyleCache. *)
EXTENDS StyleCache

At(kind, val, up, kids) == [Node(kind, val) EXCEPT !.up = up, !.kids = kids]

\* A stylesheet whose rule selects on a service attribute, and an element.
Page1 == <<At("doc", 0, 0, <<2, 4>>), At("style", 0, 1, <<3>>), At("text", 1, 2, <<>>),
           [At("elem", 0, 1, <<>>) EXCEPT !.mark = 1]>>
\* An element and a script.
Page2 == <<At("doc", 0, 0, <<2, 3>>), At("elem", 0, 1, <<>>), At("script", 0, 1, <<>>)>>
MCDocuments == {Page1, Page2}
MCFragments == {<<>>, <<Node("elem", 0)>>}
=============================================================================
