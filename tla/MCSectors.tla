------------------------------ MODULE MCSectors ------------------------------
(* Sectors on a map of three by three sectors.                              *)
EXTENDS Sectors, TLC

(* Two positions in one sector, and one in the next.                        *)
ThreePositions == {<<2, 2>>, <<3, 2>>, <<4, 2>>}

Symmetric == Permutations(Threads) \union Permutations(Entities)

=============================================================================
