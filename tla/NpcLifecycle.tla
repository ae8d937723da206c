---------------------------- MODULE NpcLifecycle ----------------------------
(***************************************************************************)
(* The life of one NPC: it is woken by a player that comes into view,      *)
(* moves once per OP_NPC_MOVE event for as long as a player stays in view, *)
(* falls asleep when nobody is left, is killed by damage events and is     *)
(* revived by an OP_NPC_RESPAWN event.                                     *)
(*                                                                         *)
(* The events are handled by the IOCP worker threads, any of which may     *)
(* pick any event, so several handlers of the same NPC interleave at every *)
(* access to the fields they share: the atomics _hp and _is_active, the    *)
(* plain field _target_player, and the NPC's membership of the sector grid.*)
(*                                                                         *)
(* The timer map and the completion port between the posting of an event   *)
(* and its handling are one bag, "pending": the delivery takes arbitrarily *)
(* long and keeps no order (see TimerQueue for the timer itself).          *)
(***************************************************************************)
EXTENDS Integers, FiniteSets

CONSTANTS
  Workers,      (* the worker threads                                       *)
  Players,      (* ids of the player sessions around the NPC                *)
  SystemId,     (* SYSTEM_ID: "no target"                                   *)
  MaxHp,        (* _max_hp of the NPC (level * 100)                         *)
  RespawnHp,    (* the argument of try_respawn (100)                        *)
  Damages,      (* the damage values an attack may roll                     *)
  Agro,         (* TRUE for an AgroNpc, FALSE for a PeaceNpc                *)
  MaxMoves,     (* bound: number of player moves near the NPC               *)
  MaxAttacks    (* bound: number of attacks on the NPC                      *)

ASSUME LifecycleAssumption ==
  /\ SystemId \notin Players
  /\ MaxHp \in Nat \ {0}
  /\ RespawnHp \in 1 .. MaxHp
  /\ Damages \subseteq Nat
  /\ Agro \in BOOLEAN
  /\ MaxMoves \in Nat
  /\ MaxAttacks \in Nat

VARIABLES
  hp,           (* _hp, atomic                                              *)
  active,       (* _is_active, atomic                                       *)
  inSector,     (* the NPC's id is in the sector of its position            *)
  target,       (* _target_player                                           *)
  session,      (* players whose entry of _sessions is not null             *)
  near,         (* players in game within VIEW_RANGE of the NPC             *)
  pending,      (* events posted for the NPC and not yet handled            *)
  killEvents,   (* GameEventKillEnemy events posted to each player          *)
  pc,           (* program counter of each worker                           *)
  ev,           (* the event a worker handles                               *)
  look,         (* players check_player_in_view_range has still to look at  *)
  old,          (* old_hp of try_respawn                                    *)
  aborted,      (* _sessions.at threw and ended the process                 *)
  moves,        (* player moves so far                                      *)
  attacks       (* attacks so far                                           *)

npcVars   == <<hp, active, inSector, target>>
worldVars == <<session, near, killEvents, moves, attacks>>
localVars == <<ev, look, old>>
vars == <<npcVars, worldVars, localVars, pending, pc, aborted>>

-----------------------------------------------------------------------------
(* Events.                                                                  *)

Event(type, from, damage) == [type |-> type, from |-> from, damage |-> damage]

Move            == Event("OP_NPC_MOVE", SystemId, 0)
Respawn         == Event("OP_NPC_RESPAWN", SystemId, 0)
CheckAgro(p)    == Event("OP_NPC_CHECK_AGRO", p, 0)
GetDamage(p, d) == Event("EVENT_GET_DAMAGE", p, d)
PlayerMove(p)   == Event("C2S_P_MOVE", p, 0)

PostedEvents ==
  {Move, Respawn} \union {CheckAgro(p) : p \in Players}
                  \union {GetDamage(p, d) : p \in Players, d \in Damages}
Events == PostedEvents \union {PlayerMove(p) : p \in Players}
NoEvent == Event("none", SystemId, 0)

Post(e)   == pending' = [pending EXCEPT ![e] = @ + 1]

Init ==
  /\ hp = MaxHp
  /\ active = FALSE
  /\ inSector = TRUE
  /\ target = SystemId
  /\ session = Players
  /\ near = {}
  /\ pending = [e \in PostedEvents |-> 0]
  /\ killEvents = [p \in Players |-> 0]
  /\ pc = [w \in Workers |-> "idle"]
  /\ ev = [w \in Workers |-> NoEvent]
  /\ look = [w \in Workers |-> {}]
  /\ old = [w \in Workers |-> 0]
  /\ aborted = FALSE
  /\ moves = 0
  /\ attacks = 0

-----------------------------------------------------------------------------
(* Worker bookkeeping.                                                      *)

At(w, label)   == ~aborted /\ pc[w] = label
Goto(w, label) == pc' = [pc EXCEPT ![w] = label]

(* The handler returns; its locals go out of scope. *)
Return(w) ==
  /\ Goto(w, "idle")
  /\ ev' = [ev EXCEPT ![w] = NoEvent]
  /\ look' = [look EXCEPT ![w] = {}]
  /\ old' = [old EXCEPT ![w] = 0]

(* worker_thread picks a completion and calls the handler of its type. *)
EntryOf(type) ==
  CASE type = "OP_NPC_MOVE"       -> "mv_active"
    [] type = "OP_NPC_RESPAWN"    -> "rs_load"
    [] type = "OP_NPC_CHECK_AGRO" -> "agro"
    [] type = "EVENT_GET_DAMAGE"  -> "dm_hp"

Take(w, e) ==
  /\ At(w, "idle")
  /\ pending[e] > 0
  /\ pending' = [pending EXCEPT ![e] = @ - 1]
  /\ ev' = [ev EXCEPT ![w] = e]
  /\ Goto(w, EntryOf(e.type))
  /\ UNCHANGED <<npcVars, worldVars, look, old, aborted>>

-----------------------------------------------------------------------------
(* OP_NPC_MOVE.                                                             *)

(* dispatch_npc_update: an inactive NPC drops the event. *)
MoveDropped(w) ==
  /\ At(w, "mv_active")
  /\ ~active
  /\ Return(w)
  /\ UNCHANGED <<npcVars, worldVars, pending, aborted>>

MoveAccepted(w) ==
  /\ At(w, "mv_active")
  /\ active
  /\ look' = [look EXCEPT ![w] = Players]
  /\ Goto(w, "mv_look")
  /\ UNCHANGED <<npcVars, worldVars, ev, old, pending, aborted>>

(* check_player_in_view_range looks at one entity at a time, taking the     *)
(* lock of one sector after the other, and stops at the first it can see.   *)
LookAt(w, p) ==
  /\ At(w, "mv_look")
  /\ p \in look[w]
  /\ look' = [look EXCEPT ![w] = IF p \in near THEN {} ELSE @ \ {p}]
  /\ Goto(w, IF p \in near THEN "mv_target"
             ELSE IF look[w] = {p} THEN "mv_sleep" ELSE "mv_look")
  /\ UNCHANGED <<npcVars, worldVars, ev, old, pending, aborted>>

(* Bug: the NPC drops the event chain and forgets to clear _is_active. *)
DozeOff(w) ==
  /\ At(w, "mv_sleep")
  /\ Return(w)
  /\ UNCHANGED <<npcVars, worldVars, pending, aborted>>

(* Nobody in view: update_active_state(false) stores, it does not compare.  *)
FallAsleep(w) ==
  /\ At(w, "mv_sleep")
  /\ active' = FALSE
  /\ Return(w)
  /\ UNCHANGED <<hp, inSector, target, worldVars, pending, aborted>>

(* do_npc_move: a step across a sector border erases the id from the old    *)
(* sector and inserts it into the new one, whether or not it was in the old *)
(* one; any other step (or can_move refusing it) leaves the grid alone.     *)
DoNpcMove == inSector' \in {inSector, TRUE}

(* process_event_npc_move reads _target_player: no target, random move. *)
RandomMove(w) ==
  /\ At(w, "mv_target")
  /\ target = SystemId
  /\ target' = SystemId
  /\ DoNpcMove
  /\ Goto(w, "mv_repost")
  /\ UNCHANGED <<hp, active, worldVars, localVars, pending, aborted>>

StartChase(w) ==
  /\ At(w, "mv_target")
  /\ target # SystemId
  /\ Goto(w, "mv_chase")
  /\ UNCHANGED <<npcVars, worldVars, localVars, pending, aborted>>

(* chase_target reads _target_player again to look the session up:          *)
(* _sessions.at throws for SYSTEM_ID and nothing catches the exception.     *)
(* Attacking posts events to players only and moves nothing.                *)
ChaseTarget(w) ==
  /\ At(w, "mv_chase")
  /\ \/ /\ target = SystemId
        /\ aborted' = TRUE
        /\ UNCHANGED <<npcVars, pc>>
     \/ /\ target # SystemId
        /\ IF target \in session
             THEN DoNpcMove /\ UNCHANGED target
             ELSE target' = SystemId /\ UNCHANGED inSector
        /\ Goto(w, "mv_repost")
        /\ UNCHANGED <<hp, active, aborted>>
  /\ UNCHANGED <<worldVars, localVars, pending>>

(* Bug: a dead NPC is not moved on, and _is_active is left to the handler   *)
(* of the damage event, which may have run before.                          *)
RepostMoveIfAlive(w) ==
  /\ At(w, "mv_repost")
  /\ IF hp > 0 THEN Post(Move) ELSE UNCHANGED pending
  /\ Return(w)
  /\ UNCHANGED <<npcVars, worldVars, aborted>>

(* The next OP_NPC_MOVE is posted whatever has happened to the NPC since.   *)
RepostMove(w) ==
  /\ At(w, "mv_repost")
  /\ Post(Move)
  /\ Return(w)
  /\ UNCHANGED <<npcVars, worldVars, aborted>>

-----------------------------------------------------------------------------
(* OP_NPC_CHECK_AGRO: event_player_move of agro_npc.lua, under _lua_lock,   *)
(* returns the player when it is within agro_range and -1 otherwise.        *)
ProcessEventPlayerMove(w) ==
  /\ At(w, "agro")
  /\ target' = IF ev[w].from \in session \intersect near
                 THEN ev[w].from ELSE SystemId
  /\ Return(w)
  /\ UNCHANGED <<hp, active, inSector, worldVars, pending, aborted>>

-----------------------------------------------------------------------------
(* EVENT_GET_DAMAGE: Npc::process_game_event.                               *)

(* Bug: the sign of the difference is lost, and so is the clamp. *)
UpdateHpUpwards(w) ==
  /\ At(w, "dm_hp")
  /\ hp' = hp + ev[w].damage
  /\ Goto(w, "dm_target")
  /\ UNCHANGED <<active, inSector, target, worldVars, localVars, pending, aborted>>

(* update_hp(-damage): fetch_add, then clamp to _max_hp; hp only falls here, *)
(* so the clamp never stores and the two steps are one.                      *)
UpdateHp(w) ==
  /\ At(w, "dm_hp")
  /\ LET sum == hp - ev[w].damage
     IN hp' = IF MaxHp < sum THEN MaxHp ELSE sum
  /\ Goto(w, "dm_target")
  /\ UNCHANGED <<active, inSector, target, worldVars, localVars, pending, aborted>>

RetargetAttacker(w) ==
  /\ At(w, "dm_target")
  /\ target' = ev[w].from
  /\ Goto(w, "dm_check")
  /\ UNCHANGED <<hp, active, inSector, worldVars, localVars, pending, aborted>>

(* Bug: an NPC with exactly no hit points left is not dead. *)
BelowZero == hp < 0
IsDead == hp <= 0

Survived(w) ==
  /\ At(w, "dm_check")
  /\ ~IsDead
  /\ Return(w)
  /\ UNCHANGED <<npcVars, worldVars, pending, aborted>>

Died(w) ==
  /\ At(w, "dm_check")
  /\ IsDead
  /\ Goto(w, "dm_down")
  /\ UNCHANGED <<npcVars, worldVars, localVars, pending, aborted>>

(* Bug: "only the one who deactivates it buries it" - an NPC that is asleep *)
(* when it is killed is never buried.                                       *)
DeactivateOnce(w) ==
  /\ At(w, "dm_down")
  /\ \/ active /\ active' = FALSE /\ Goto(w, "dm_erase") /\ UNCHANGED localVars
     \/ ~active /\ Return(w) /\ UNCHANGED active
  /\ UNCHANGED <<hp, inSector, target, worldVars, pending, aborted>>

Deactivate(w) ==
  /\ At(w, "dm_down")
  /\ active' = FALSE
  /\ Goto(w, "dm_erase")
  /\ UNCHANGED <<hp, inSector, target, worldVars, localVars, pending, aborted>>

(* The sector is that of the position read before dm_check: when another    *)
(* worker has moved the NPC across a border since, its id stays in the grid. *)
EraseFromSector(w) ==
  /\ At(w, "dm_erase")
  /\ inSector' \in {inSector, FALSE}
  /\ Goto(w, "dm_respawn")
  /\ UNCHANGED <<hp, active, target, worldVars, localVars, pending, aborted>>

ScheduleRespawn(w) ==
  /\ At(w, "dm_respawn")
  /\ Post(Respawn)
  /\ Goto(w, "dm_reward")
  /\ UNCHANGED <<npcVars, worldVars, localVars, aborted>>

(* The killer is rewarded if it still has a session. *)
RewardKiller(w) ==
  /\ At(w, "dm_reward")
  /\ killEvents' = IF ev[w].from \in session
                     THEN [killEvents EXCEPT ![ev[w].from] = @ + 1]
                     ELSE killEvents
  /\ Return(w)
  /\ UNCHANGED <<npcVars, session, near, moves, attacks, pending, aborted>>

-----------------------------------------------------------------------------
(* OP_NPC_RESPAWN: ServerEntity::try_respawn, then Sectors::insert.         *)

LoadHp(w) ==
  /\ At(w, "rs_load")
  /\ old' = [old EXCEPT ![w] = hp]
  /\ Goto(w, "rs_cas")
  /\ UNCHANGED <<npcVars, worldVars, ev, look, pending, aborted>>

CasHp(w) ==
  /\ At(w, "rs_cas")
  /\ hp = old[w]
  /\ hp' = RespawnHp
  /\ Goto(w, "rs_insert")
  /\ UNCHANGED <<active, inSector, target, worldVars, localVars, pending, aborted>>

CasHpFails(w) ==
  /\ At(w, "rs_cas")
  /\ hp # old[w]
  /\ Return(w)
  /\ UNCHANGED <<npcVars, worldVars, pending, aborted>>

InsertIntoSector(w) ==
  /\ At(w, "rs_insert")
  /\ inSector' = TRUE
  /\ Return(w)
  /\ UNCHANGED <<hp, active, target, worldVars, pending, aborted>>

-----------------------------------------------------------------------------
(* The players around the NPC.                                              *)

(* do_player_move into, or within, view range: the position first ...       *)
MoveIntoView(w, p) ==
  /\ At(w, "idle")
  /\ moves < MaxMoves
  /\ p \in session
  /\ near' = near \union {p}
  /\ moves' = moves + 1
  /\ ev' = [ev EXCEPT ![w] = PlayerMove(p)]
  /\ Goto(w, "pl_scan")
  /\ UNCHANGED <<npcVars, session, killEvents, attacks, look, old, pending, aborted>>

(* ... then the near list from the sectors, and wakeup_npc for the NPCs in it. *)
ScanSectors(w) ==
  /\ At(w, "pl_scan")
  /\ \/ inSector /\ Goto(w, "wk_agro") /\ UNCHANGED localVars
     \/ ~inSector /\ Return(w)
  /\ UNCHANGED <<npcVars, worldVars, pending, aborted>>

MoveOutOfView(w, p) ==
  /\ At(w, "idle")
  /\ p \in near
  /\ near' = near \ {p}
  /\ UNCHANGED <<npcVars, session, killEvents, moves, attacks, localVars, pending, pc, aborted>>

Disconnect(w, p) ==
  /\ At(w, "idle")
  /\ p \in session
  /\ session' = session \ {p}
  /\ near' = near \ {p}
  /\ UNCHANGED <<npcVars, killEvents, moves, attacks, localVars, pending, pc, aborted>>

(* attack_near_area finds the NPC active next to the player and attacks it. *)
Attack(w, p, d) ==
  /\ At(w, "idle")
  /\ attacks < MaxAttacks
  /\ p \in near
  /\ active
  /\ attacks' = attacks + 1
  /\ Post(GetDamage(p, d))
  /\ UNCHANGED <<npcVars, session, near, killEvents, moves, localVars, pc, aborted>>

-----------------------------------------------------------------------------
(* ServerFrame::wakeup_npc.                                                 *)

WakeCheckAgro(w) ==
  /\ At(w, "wk_agro")
  /\ IF Agro THEN Post(CheckAgro(ev[w].from)) ELSE UNCHANGED pending
  /\ Goto(w, "wk_active")
  /\ UNCHANGED <<npcVars, worldVars, localVars, aborted>>

WakeReadActive(w) ==
  /\ At(w, "wk_active")
  /\ \/ active /\ Return(w)
     \/ ~active /\ Goto(w, "wk_hp") /\ UNCHANGED localVars
  /\ UNCHANGED <<npcVars, worldVars, pending, aborted>>

WakeReadHp(w) ==
  /\ At(w, "wk_hp")
  /\ \/ hp <= 0 /\ Return(w)
     \/ hp > 0 /\ Goto(w, "wk_cas") /\ UNCHANGED localVars
  /\ UNCHANGED <<npcVars, worldVars, pending, aborted>>

WakeCas(w) ==
  /\ At(w, "wk_cas")
  /\ \/ active /\ Return(w) /\ UNCHANGED active
     \/ ~active /\ active' = TRUE /\ Goto(w, "wk_post") /\ UNCHANGED localVars
  /\ UNCHANGED <<hp, inSector, target, worldVars, pending, aborted>>

WakePost(w) ==
  /\ At(w, "wk_post")
  /\ Post(Move)
  /\ Return(w)
  /\ UNCHANGED <<npcVars, worldVars, aborted>>

-----------------------------------------------------------------------------

HandleMove(w) ==
  \/ MoveDropped(w)
  \/ MoveAccepted(w)
  \/ \E p \in Players : LookAt(w, p)
  \/ FallAsleep(w)
  \/ RandomMove(w)
  \/ StartChase(w)
  \/ ChaseTarget(w)
  \/ RepostMove(w)

HandleDamage(w) ==
  \/ UpdateHp(w)
  \/ RetargetAttacker(w)
  \/ Survived(w)
  \/ Died(w)
  \/ Deactivate(w)
  \/ EraseFromSector(w)
  \/ ScheduleRespawn(w)
  \/ RewardKiller(w)

HandleRespawn(w) == LoadHp(w) \/ CasHp(w) \/ CasHpFails(w) \/ InsertIntoSector(w)

HandlePlayerMove(w) ==
  \/ ScanSectors(w)
  \/ WakeCheckAgro(w)
  \/ WakeReadActive(w)
  \/ WakeReadHp(w)
  \/ WakeCas(w)
  \/ WakePost(w)

(* A step of a handler that worker w has started. *)
Handler(w) ==
  \/ HandleMove(w)
  \/ ProcessEventPlayerMove(w)
  \/ HandleDamage(w)
  \/ HandleRespawn(w)
  \/ HandlePlayerMove(w)

Player(w) ==
  \/ \E p \in Players :
       MoveIntoView(w, p) \/ MoveOutOfView(w, p) \/ Disconnect(w, p)
  \/ \E p \in Players, d \in Damages : Attack(w, p, d)

(* The process is gone, or nothing is left to handle: nothing happens. *)
Rest ==
  /\ \/ aborted
     \/ \A w \in Workers, e \in PostedEvents : pc[w] = "idle" /\ pending[e] = 0
  /\ UNCHANGED vars

Next ==
  \/ \E w \in Workers : Handler(w) \/ Player(w)
  \/ \E w \in Workers, e \in PostedEvents : Take(w, e)
  \/ Rest

Spec == Init /\ [][Next]_vars

(* A started handler runs on; the completion port is a FIFO queue, so every *)
(* posted event is taken some day. Players need not do anything.            *)
Fairness ==
  /\ \A w \in Workers : WF_vars(Handler(w))
  /\ \A e \in PostedEvents : SF_vars(\E w \in Workers : Take(w, e))

FairSpec == Spec /\ Fairness

-----------------------------------------------------------------------------

Labels ==
  {"idle", "mv_active", "mv_look", "mv_sleep", "mv_target", "mv_chase", "mv_repost",
   "agro", "dm_hp", "dm_target", "dm_check", "dm_down", "dm_erase", "dm_respawn",
   "dm_reward", "rs_load", "rs_cas", "rs_insert", "pl_scan", "wk_agro", "wk_active",
   "wk_hp", "wk_cas", "wk_post"}

(* Every variable has its type, and hp never exceeds the maximum. *)
TypeOK ==
  /\ hp \in Int /\ hp <= MaxHp
  /\ active \in BOOLEAN
  /\ inSector \in BOOLEAN
  /\ target \in Players \union {SystemId}
  /\ session \subseteq Players
  /\ near \subseteq session
  /\ pending \in [PostedEvents -> Nat]
  /\ killEvents \in [Players -> Nat]
  /\ pc \in [Workers -> Labels]
  /\ ev \in [Workers -> Events \union {NoEvent}]
  /\ look \in [Workers -> SUBSET Players]
  /\ old \in [Workers -> Int]
  /\ aborted \in BOOLEAN
  /\ moves \in 0 .. MaxMoves
  /\ attacks \in 0 .. MaxAttacks

-----------------------------------------------------------------------------
(* Properties.                                                              *)

(* Workers that will still post an OP_NPC_MOVE, or clear _is_active. *)
Movers ==
  {w \in Workers : pc[w] \in {"wk_post", "mv_active", "mv_look", "mv_sleep",
                              "mv_target", "mv_chase", "mv_repost"}}

(* wakeup_npc refuses an NPC that is active, so nobody but its own event     *)
(* chain moves an active NPC: one that is active always has an OP_NPC_MOVE   *)
(* on its way, or a worker between two links of the chain. Otherwise it      *)
(* would stand still for ever.                                               *)
ActiveHasMover == ~aborted /\ active => pending[Move] > 0 \/ Movers # {}

(* Workers that will bring a dead NPC to life or post OP_NPC_RESPAWN for it. *)
Revivers ==
  {w \in Workers :
     \/ pc[w] \in {"dm_target", "dm_check", "dm_down", "dm_erase", "dm_respawn", "rs_load"}
     \/ pc[w] = "rs_cas" /\ old[w] = hp}

(* try_respawn does not retry a failed compare-and-swap, and OP_NPC_RESPAWN  *)
(* is posted once per death: however damage and respawn overlap, a dead NPC  *)
(* always has a respawn on its way.                                          *)
DeadHasRespawn == ~aborted /\ hp <= 0 => pending[Respawn] > 0 \/ Revivers # {}

(* A dead NPC is revived. *)
DeadIsRevived == hp <= 0 ~> hp > 0 \/ aborted

(* When the players have gone for good the NPC stops moving. *)
LonelyFallsAsleep == (<>[](near = {})) => <>[](~active \/ aborted)

=============================================================================
