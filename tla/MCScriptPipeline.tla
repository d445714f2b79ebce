-------------------------- MODULE MCScriptPipeline --------------------------
(* Instances of ScriptPipeline for TLC: a few mixes of script kinds that put  *)
(* each kind beside each kind it can race with.                              *)
EXTENDS ScriptPipeline, TLC
CONSTANTS p1, p2, d1, d2

TwoScripts == <<p1, p2>>
TwoCreated == {d1, d2}
OneCreated == {d1}
NoScripts == {}
FirstMovable == {p2}
Loads == [by : {"page", "shim"}, script : Scripts]

Mix(a, b, c, d) == (p1 :> a) @@ (p2 :> b) @@ (d1 :> c) @@ (d2 :> d)
PassMixes ==
    {Mix("sync", "async", "ordered", "ordered"), Mix("defer", "inline", "ordered", "free"),
     Mix("async", "module", "local", "ordered"), Mix("async", "defer", "free", "local")}
OneOrdered == {[s \in Scripts |-> IF s = d1 THEN "ordered" ELSE "inline"]}
Classic == {[s \in Scripts |-> IF s = d1 THEN "local" ELSE IF s = p1 THEN "inline" ELSE "defer"]}
=============================================================================
