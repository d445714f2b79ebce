----------------------------- MODULE ScriptOrder -----------------------------
(***************************************************************************)
(* What the page promises about the order of its own scripts               *)
(* (src/docs/architecture.md, "Script loading"): inline and sync scripts   *)
(* run in document order, then defer and module scripts in document order, *)
(* then DOMContentLoaded and load fire, each at most once; an async script *)
(* runs at any moment, once.  Any of them may be skipped.                  *)
(***************************************************************************)
EXTENDS Naturals, Sequences

CONSTANT Document

VARIABLES
    kind,   \* of each script, never changing
    order   \* the scripts and events so far, oldest first

Position(s) == CHOOSE i \in DOMAIN Document : Document[i] = s
Ran(e) == \E i \in DOMAIN order : order[i] = e
Fired == Ran("DOMContentLoaded") \/ Ran("load")

InPhase(s, kinds) == kind[s] \in kinds
Parsing == {"inline", "sync"}
Deferred == {"defer", "module"}

\* No script that must come after s has run.
InTurn(s) ==
    \/ kind[s] = "async"
    \/ /\ ~Fired
       /\ \A i \in DOMAIN Document :
             LET later == Document[i]
             IN  Ran(later) =>
                   \/ kind[later] = "async"
                   \/ InPhase(later, Parsing) /\ (InPhase(s, Deferred) \/ i < Position(s))
                   \/ InPhase(later, Deferred) /\ InPhase(s, Deferred) /\ i < Position(s)

Run(s) ==
    /\ ~Ran(s) /\ InTurn(s)
    /\ order' = Append(order, s)

Fire(e) ==
    /\ ~Ran(e) /\ ~Ran("load")
    /\ order' = Append(order, e)

Init == order = <<>>

Next ==
    /\ UNCHANGED kind
    /\ \/ \E i \in DOMAIN Document : Run(Document[i])
       \/ \E e \in {"DOMContentLoaded", "load"} : Fire(e)

Spec == Init /\ [][Next]_<<kind, order>>
=============================================================================
