----------------------------- MODULE SectorGrid -----------------------------
(***************************************************************************)
(* The geometry of sectors and of sight: which square sector a position    *)
(* lies in, which sectors a search visits, and which positions see each    *)
(* other.                                                                  *)
(***************************************************************************)
EXTENDS Integers

CONSTANTS
  VIEW_RANGE,
  MAP_WIDTH,
  MAP_HEIGHT

ASSUME GridAssumption ==
  /\ VIEW_RANGE \in Nat \ {0}
  /\ MAP_WIDTH \in Nat \ {0}
  /\ MAP_HEIGHT \in Nat \ {0}

VIEW_DIAM == VIEW_RANGE * 2
SECTOR_WIDTH == MAP_WIDTH \div VIEW_DIAM + 1
SECTOR_HEIGHT == MAP_HEIGHT \div VIEW_DIAM + 1

(* The positions can_move lets an entity move to. *)
Grid == (0 .. MAP_WIDTH) \X (0 .. MAP_HEIGHT)

get_sector_idx(p) == <<p[1] \div VIEW_DIAM, p[2] \div VIEW_DIAM>>

SectorIds == (0 .. SECTOR_WIDTH - 1) \X (0 .. SECTOR_HEIGHT - 1)

(* Bug: one sector too many. *)
ValidWithEdge(s) ==
  /\ s[1] <= SECTOR_WIDTH
  /\ s[2] <= SECTOR_HEIGHT
  /\ s[1] > 0
  /\ s[2] > 0

is_valid_sector(s) ==
  /\ s[1] < SECTOR_WIDTH
  /\ s[2] < SECTOR_HEIGHT
  /\ s[1] > 0
  /\ s[2] > 0

DIRECTIONS ==
  <<<<0, 0>>, <<0, -1>>, <<0, 1>>, <<-1, 0>>, <<1, 0>>,
    <<-1, -1>>, <<1, -1>>, <<-1, 1>>, <<1, 1>>>>
DIR_CNT == 9

(* The nine sectors around s, and those of them a search visits, each with   *)
(* its place in the order.                                                  *)
Beside(s, dir) == <<s[1] + DIRECTIONS[dir][1], s[2] + DIRECTIONS[dir][2]>>
Around(s) == {Beside(s, dir) : dir \in 1 .. DIR_CNT}
Searched(s) ==
  {<<dir, Beside(s, dir)>> : dir \in {d \in 1 .. DIR_CNT : is_valid_sector(Beside(s, d))}}

Distance(a, b) == IF a >= b THEN a - b ELSE b - a

can_see(p, q) ==
  /\ Distance(p[1], q[1]) <= VIEW_RANGE
  /\ Distance(p[2], q[2]) <= VIEW_RANGE

=============================================================================
