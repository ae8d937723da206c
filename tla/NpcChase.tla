------------------------------ MODULE NpcChase ------------------------------
(***************************************************************************)
(* Where an NPC goes: its random steps, the script that makes it choose a  *)
(* player that comes near, its steps towards that player, and its attacks, *)
(* on the map. The handlers, which NpcLifecycle takes apart, are one step  *)
(* each here; there is one NPC and one player, and others may be in the    *)
(* way.                                                                    *)
(***************************************************************************)
EXTENDS SectorGrid

VARIABLES
  npc,          (* (_x, _y) of the NPC                                      *)
  player,       (* and of the player                                        *)
  target,       (* _target_player is the player                             *)
  active,       (* _is_active of the NPC                                    *)
  hit           (* the last step dispatched a GameEventGetDamage to the player *)

chaseVars == <<npc, player, target, active, hit>>

Plus(p, d) == <<p[1] + d[1], p[2] + d[2]>>
Minus(p, q) == <<p[1] - q[1], p[2] - q[2]>>

ChaseInit ==
  /\ npc \in (0 .. MAP_WIDTH - 1) \X (0 .. MAP_HEIGHT - 1)
  /\ player \in Grid
  /\ target = FALSE
  /\ active = FALSE
  /\ hit = FALSE

-----------------------------------------------------------------------------
(* do_npc_move: a cell where somebody stands is not entered, be it the      *)
(* player or another entity (free).                                         *)
can_move(p, free) == p \in Grid /\ p # player /\ p # npc /\ free
do_npc_move(d, free) ==
  npc' = IF can_move(Plus(npc, d), free) THEN Plus(npc, d) ELSE npc

(* The search for players: nothing is ever found in an invalid sector.      *)
insert_player_view_list(p) ==
  /\ get_sector_idx(p) \in Around(get_sector_idx(npc))
  /\ is_valid_sector(get_sector_idx(p))
  /\ can_see(npc, p)

(* The search of a player at p: it visits the valid ones of the sectors     *)
(* around the player, and it is the NPC's sector that must be among them.   *)
update_view_list(p) ==
  /\ get_sector_idx(npc) \in Around(get_sector_idx(p))
  /\ is_valid_sector(get_sector_idx(npc))
  /\ can_see(npc, p)

(* dx and dy are 0 where the switch tests them.                             *)
RandomSteps ==
  {<<IF 0 < MAP_WIDTH - 1 THEN 1 ELSE 0, 0>>, <<IF 0 > 0 THEN -1 ELSE 0, 0>>,
   <<0, IF 0 < MAP_HEIGHT - 1 THEN 1 ELSE 0>>, <<0, IF 0 > 0 THEN -1 ELSE 0>>}
do_npc_random_move(free) ==
  /\ \E d \in RandomSteps : do_npc_move(d, free)
  /\ hit' = FALSE

Sign(n) == IF n > 0 THEN 1 ELSE IF n < 0 THEN -1 ELSE 0

Adjacent(d) == Distance(d[1], 0) + Distance(d[2], 0) <= 1
Diagonal(d) == Distance(d[1], 0) = 1 /\ Distance(d[2], 0) = 1
ChaseStep(d) == IF Diagonal(d) THEN <<1, 0>> ELSE <<Sign(d[1]), Sign(d[2])>>

(* Whoever was found and stands on one of the nine cells around the NPC is  *)
(* hit.                                                                     *)
AttackedCells(p) == {Plus(p, DIRECTIONS[dir]) : dir \in 1 .. DIR_CNT}
attack ==
  /\ hit' = (insert_player_view_list(player) /\ player \in AttackedCells(npc))
  /\ UNCHANGED npc

chase_target(free) ==
  LET d == Minus(player, npc)
  IN IF Adjacent(d)
       THEN attack
       ELSE do_npc_move(ChaseStep(d), free) /\ hit' = FALSE

-----------------------------------------------------------------------------
(* OP_NPC_MOVE, when some player is in view.                                *)
process_event_npc_move(free) ==
  /\ active
  /\ insert_player_view_list(player)
  /\ IF target THEN chase_target(free) ELSE do_npc_random_move(free)
  /\ UNCHANGED <<player, target, active>>

(* And when nobody is.                                                      *)
FallAsleep ==
  /\ active
  /\ ~insert_player_view_list(player)
  /\ active' = FALSE
  /\ hit' = FALSE
  /\ UNCHANGED <<npc, player, target>>

(* What the script reads: the player may be gone by the time of either call. *)
API_get_x(p) == {p[1], -1}
API_get_y(p) == {p[2], -1}

agro_range == 11
InAgroRange(p, q) == /\ Distance(p[1], q[1]) < agro_range
                     /\ Distance(p[2], q[2]) < agro_range
event_player_move ==
  /\ \E x \in API_get_x(player), y \in API_get_y(player) :
       target' = (x # -1 /\ y # -1 /\ InAgroRange(<<x, y>>, npc))
  /\ hit' = FALSE
  /\ UNCHANGED <<npc, player, active>>

(* The player moves, or is put somewhere by its respawn, and wakes the NPC  *)
(* if it finds it. From the first row or column it finds an NPC of the next *)
(* one, which does not find the player and falls asleep at its next move.   *)
do_player_move ==
  /\ player' \in Grid \ {npc}
  /\ active' = (active \/ update_view_list(player'))
  /\ hit' = FALSE
  /\ UNCHANGED <<npc, target>>

(* The player hits the NPC.                                                 *)
GetDamage ==
  /\ target' = TRUE
  /\ hit' = FALSE
  /\ UNCHANGED <<npc, player, active>>

ChaseNext ==
  \/ \E free \in BOOLEAN : process_event_npc_move(free)
  \/ FallAsleep
  \/ event_player_move
  \/ do_player_move
  \/ GetDamage

ChaseSpec == ChaseInit /\ [][ChaseNext]_chaseVars

=============================================================================
