------------------------------- MODULE Keeping -------------------------------
(* What a loop that drops elements leaves of a sequence. *)
EXTENDS Naturals, Sequences

\* The elements of s that are in keep, in their order.
Kept(s, keep) ==
  LET after[n \in 0..Len(s)] ==
        IF n = 0 THEN <<>>
        ELSE IF s[n] \in keep THEN Append(after[n - 1], s[n]) ELSE after[n - 1]
  IN after[Len(s)]
=============================================================================
