----------------------------- MODULE MCPageLoop ------------------------------
(* Instances of PageLoop for TLC. *)
EXTENDS PageLoop, TLC

\* Ids are model values that only equality tells apart.
Symmetry == Permutations(Ids)

=============================================================================
