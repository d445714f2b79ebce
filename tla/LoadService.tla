---------------------------- MODULE LoadService -----------------------------
(***************************************************************************)
(* What fetch() promises a page, whatever engine, cache or queue serves    *)
(* it: each request is answered once, or aborted, or lost by the page's    *)
(* own broken code, and the count of busy requests that holds readiness    *)
(* back is exact.                                                          *)
(***************************************************************************)
EXTENDS Naturals

CONSTANT Loads

VARIABLES
    promise,    \* what each request has come to
    busy,       \* how many requests hold readiness back
    closed      \* the page is gone

vars == <<promise, busy, closed>>

Init ==
    /\ promise = [l \in Loads |-> "unsent"]
    /\ busy = 0
    /\ closed = FALSE

Start(l) ==
    /\ ~closed
    /\ promise[l] = "unsent"
    /\ promise' = [promise EXCEPT ![l] = "pending"]
    /\ busy' = busy + 1
    /\ UNCHANGED closed

Settle(l, how) ==
    /\ ~closed
    /\ promise' = [promise EXCEPT ![l] = how]
    /\ busy' = busy - 1
    /\ UNCHANGED closed

\* A request breaks on the page's side: js_timeout, or an exception in its own
\* body, headers or reaction. It stays busy unless it is aborted.
Lose(l) ==
    /\ ~closed
    /\ promise[l] \in {"unsent", "pending"}
    /\ promise' = [promise EXCEPT ![l] = "lost"]
    /\ busy' = IF promise[l] = "unsent" THEN busy + 1 ELSE busy
    /\ UNCHANGED closed

\* A pending request is answered, with a response or a failure.
Answer(l) ==
    /\ promise[l] = "pending"
    /\ \E how \in {"resolved", "failed"} : Settle(l, how)

Abort(l) ==
    /\ promise[l] \in {"pending", "lost"}
    /\ Settle(l, "aborted")

Close ==
    /\ closed' = TRUE
    /\ UNCHANGED <<promise, busy>>

Next ==
    \/ \E l \in Loads : Start(l) \/ Answer(l) \/ Lose(l) \/ Abort(l)
    \/ Close

\* No request stays pending for ever on a page that lives.
Fairness ==
    \A l \in Loads : WF_vars(Answer(l) \/ (promise[l] = "pending" /\ Lose(l)))

Spec == Init /\ [][Next]_vars /\ Fairness

=============================================================================
