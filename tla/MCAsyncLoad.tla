----------------------------- MODULE MCAsyncLoad -----------------------------
(* Instances of AsyncLoad for TLC. *)
EXTENDS AsyncLoad

MCWhat == [load : Loads, via : Via]

=============================================================================
