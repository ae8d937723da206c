--------------------------- MODULE MCNpcLifecycle ---------------------------
(* NpcLifecycle on small instances, an aggressive and a peaceful NPC. *)
EXTENDS NpcLifecycle, TLC

CONSTANTS w1, w2, p1, p2

MCWorkers == {w1, w2}
MCPlayers == {p1, p2}
Symmetric == Permutations(MCWorkers) \union Permutations(MCPlayers)

=============================================================================
