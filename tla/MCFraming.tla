----------------------------- MODULE MCFraming -----------------------------
(* Framing with a few short packets. *)
EXTENDS Framing

(* Where packets of the given sizes begin. *)
Begin(s1, s2, s3) == [p \in 0..3 |-> <<0, s1, s1 + s2, s1 + s2 + s3>>[p + 1]]
Down == {Begin(3, 1, 2), Begin(1, 3, 3)}
Up == {Begin(3, 2, 1), Begin(4, 2, 2)}
=============================================================================
