---------------------------- MODULE MCVisibility -----------------------------
(* Visibility on a small instance. *)
EXTENDS Visibility, TLC

(* Two positions in sight of each other, and one apart. *)
ThreeSpots == {0, 1, 3}

(* Players may log in everywhere, so the NPC need not start everywhere: the  *)
(* first two positions are alike, and a move takes it to the third.         *)
OneStart == Init /\ \A e \in Entities : at[e] = 0
SpecOneStart == OneStart /\ [][Next]_vars

Symmetric == Permutations(Threads) \union Permutations(Players)
=============================================================================
