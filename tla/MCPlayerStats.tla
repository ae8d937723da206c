---------------------------- MODULE MCPlayerStats ----------------------------
(* PlayerStats on a small instance. *)
EXTENDS PlayerStats

(* What is read through int16_t may come back negative. *)
MCExp == -1
MCExps == {MCExp}
=============================================================================
