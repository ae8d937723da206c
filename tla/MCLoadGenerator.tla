-------------------------- MODULE MCLoadGenerator --------------------------
(* LoadGenerator with a few clients. *)
EXTENDS LoadGenerator, TLC

Symmetry == Permutations(Workers)
=============================================================================
