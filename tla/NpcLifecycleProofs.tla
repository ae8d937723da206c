------------------------- MODULE NpcLifecycleProofs -------------------------
(***************************************************************************)
(* Proofs about NpcLifecycle, for any number of workers, players and       *)
(* events. ActiveHasMover and DeadHasRespawn are inductive relative to     *)
(* TypeOK: each handler hands its obligation on, to an event it posts or   *)
(* to its own next step, before it gives it up.                            *)
(***************************************************************************)
EXTENDS NpcLifecycle, TLAPS

(* The fields of the events have their types. *)
LEMMA EventFields ==
  ASSUME NEW e \in Events \union {NoEvent}
  PROVE  /\ e.from \in Players \union {SystemId}
         /\ e.damage \in Nat
<1>1. CASE e \in {Move, Respawn, NoEvent}
  BY <1>1 DEF Move, Respawn, NoEvent, Event
<1>2. CASE \E p \in Players : e = CheckAgro(p) \/ e = PlayerMove(p)
  BY <1>2 DEF CheckAgro, PlayerMove, Event
<1>3. CASE \E p \in Players, d \in Damages : e = GetDamage(p, d)
  BY <1>3, LifecycleAssumption DEF GetDamage, Event
<1> QED
  BY <1>1, <1>2, <1>3 DEF Events, PostedEvents

(* Events of different types are different. *)
LEMMA EventTypes ==
  /\ Move.type = "OP_NPC_MOVE"
  /\ Respawn.type = "OP_NPC_RESPAWN"
  /\ Move \in PostedEvents
  /\ Respawn \in PostedEvents
  /\ PostedEvents \subseteq Events
BY DEF Move, Respawn, Event, PostedEvents, Events

(* Posting an event keeps the type of the bag. *)
LEMMA PostType ==
  ASSUME NEW f \in [PostedEvents -> Nat], NEW e
  PROVE  [f EXCEPT ![e] = @ + 1] \in [PostedEvents -> Nat]
<1>1. \A x \in PostedEvents : [f EXCEPT ![e] = @ + 1][x] = IF x = e THEN f[x] + 1 ELSE f[x]
  OBVIOUS
<1>2. \A x \in PostedEvents : f[x] \in Nat /\ f[x] + 1 \in Nat
  OBVIOUS
<1> QED
  BY <1>1, <1>2

(* The handler of an event is one of the program's labels. *)
LEMMA EntryLabel ==
  ASSUME NEW e \in PostedEvents
  PROVE  EntryOf(e.type) \in Labels
<1>1. e.type \in {"OP_NPC_MOVE", "OP_NPC_RESPAWN", "OP_NPC_CHECK_AGRO", "EVENT_GET_DAMAGE"}
  BY DEF PostedEvents, Move, Respawn, CheckAgro, GetDamage, Event
<1> QED
  BY <1>1 DEF EntryOf, Labels

(* TypeOK: every variable keeps its type, and hp never exceeds _max_hp. *)
THEOREM TypeCorrect == Spec => []TypeOK
<1> USE LifecycleAssumption
<1>1. Init => TypeOK
  <2> SUFFICES ASSUME Init PROVE TypeOK
    OBVIOUS
  <2>1. hp \in Int /\ hp <= MaxHp /\ moves \in 0 .. MaxMoves /\ attacks \in 0 .. MaxAttacks
    BY DEF Init
  <2>2. active \in BOOLEAN /\ inSector \in BOOLEAN /\ aborted \in BOOLEAN
    BY DEF Init
  <2>3. pc \in [Workers -> Labels]
    BY DEF Init, Labels
  <2>4. ev \in [Workers -> Events \union {NoEvent}]
    BY DEF Init
  <2>5. pending \in [PostedEvents -> Nat] /\ killEvents \in [Players -> Nat]
    BY DEF Init
  <2>6. look \in [Workers -> SUBSET Players] /\ old \in [Workers -> Int]
    BY DEF Init
  <2> QED
    BY <2>1, <2>2, <2>3, <2>4, <2>5, <2>6 DEF Init, TypeOK
<1>2. TypeOK /\ [Next]_vars => TypeOK'
  <2> SUFFICES ASSUME TypeOK, [Next]_vars PROVE TypeOK'
    OBVIOUS
  <2>1. ASSUME NEW w \in Workers, MoveDropped(w) PROVE TypeOK'
    BY <2>1 DEF MoveDropped, At, Goto, Return, TypeOK, Labels, npcVars, worldVars, localVars
  <2>2. ASSUME NEW w \in Workers, MoveAccepted(w) PROVE TypeOK'
    BY <2>2 DEF MoveAccepted, At, Goto, Return, TypeOK, Labels, npcVars, worldVars, localVars
  <2>3. ASSUME NEW w \in Workers, NEW p \in Players, LookAt(w, p) PROVE TypeOK'
    <3>1. look' \in [Workers -> SUBSET Players]
      BY <2>3 DEF LookAt, TypeOK
    <3>2. pc' \in [Workers -> Labels]
      BY <2>3 DEF LookAt, Goto, TypeOK, Labels
    <3>3. UNCHANGED <<hp, active, inSector, target, session, near, killEvents, moves,
                      attacks, ev, old, pending, aborted>>
      BY <2>3 DEF LookAt, npcVars, worldVars
    <3> QED
      BY <3>1, <3>2, <3>3 DEF TypeOK
  <2>4. ASSUME NEW w \in Workers, FallAsleep(w) PROVE TypeOK'
    <3>1. active' \in BOOLEAN
      BY <2>4 DEF FallAsleep
    <3> QED
      BY <2>4, <3>1 DEF FallAsleep, Goto, Return, TypeOK, Labels, worldVars
  <2>5. ASSUME NEW w \in Workers, RandomMove(w) PROVE TypeOK'
    BY <2>5 DEF RandomMove, At, Goto, Return, TypeOK, Labels, npcVars, worldVars, localVars, DoNpcMove
  <2>6. ASSUME NEW w \in Workers, StartChase(w) PROVE TypeOK'
    BY <2>6 DEF StartChase, At, Goto, Return, TypeOK, Labels, npcVars, worldVars, localVars
  <2>7. ASSUME NEW w \in Workers, ChaseTarget(w) PROVE TypeOK'
    BY <2>7 DEF ChaseTarget, At, Goto, Return, TypeOK, Labels, npcVars, worldVars, localVars, DoNpcMove
  <2>8. ASSUME NEW w \in Workers, RepostMove(w) PROVE TypeOK'
    BY <2>8, PostType DEF RepostMove, At, Goto, Return, TypeOK, Labels, npcVars, worldVars, localVars, Post
  <2>9. ASSUME NEW w \in Workers, ProcessEventPlayerMove(w) PROVE TypeOK'
    BY <2>9 DEF ProcessEventPlayerMove, At, Goto, Return, TypeOK, Labels, npcVars, worldVars, localVars
  <2>10. ASSUME NEW w \in Workers, UpdateHp(w) PROVE TypeOK'
    BY <2>10, EventFields DEF UpdateHp, At, Goto, Return, TypeOK, Labels, npcVars, worldVars, localVars
  <2>11. ASSUME NEW w \in Workers, RetargetAttacker(w) PROVE TypeOK'
    BY <2>11, EventFields DEF RetargetAttacker, At, Goto, Return, TypeOK, Labels, npcVars, worldVars, localVars
  <2>12. ASSUME NEW w \in Workers, Survived(w) PROVE TypeOK'
    BY <2>12 DEF Survived, At, Goto, Return, TypeOK, Labels, npcVars, worldVars, localVars, IsDead
  <2>13. ASSUME NEW w \in Workers, Died(w) PROVE TypeOK'
    BY <2>13 DEF Died, At, Goto, Return, TypeOK, Labels, npcVars, worldVars, localVars, IsDead
  <2>14. ASSUME NEW w \in Workers, Deactivate(w) PROVE TypeOK'
    BY <2>14 DEF Deactivate, At, Goto, Return, TypeOK, Labels, npcVars, worldVars, localVars
  <2>15. ASSUME NEW w \in Workers, EraseFromSector(w) PROVE TypeOK'
    BY <2>15 DEF EraseFromSector, At, Goto, Return, TypeOK, Labels, npcVars, worldVars, localVars
  <2>16. ASSUME NEW w \in Workers, ScheduleRespawn(w) PROVE TypeOK'
    BY <2>16, PostType DEF ScheduleRespawn, At, Goto, Return, TypeOK, Labels, npcVars, worldVars, localVars, Post
  <2>17. ASSUME NEW w \in Workers, RewardKiller(w) PROVE TypeOK'
    BY <2>17 DEF RewardKiller, At, Goto, Return, TypeOK, Labels, npcVars, worldVars, localVars
  <2>18. ASSUME NEW w \in Workers, LoadHp(w) PROVE TypeOK'
    BY <2>18 DEF LoadHp, At, Goto, Return, TypeOK, Labels, npcVars, worldVars, localVars
  <2>19. ASSUME NEW w \in Workers, CasHp(w) PROVE TypeOK'
    BY <2>19 DEF CasHp, At, Goto, Return, TypeOK, Labels, npcVars, worldVars, localVars
  <2>20. ASSUME NEW w \in Workers, CasHpFails(w) PROVE TypeOK'
    BY <2>20 DEF CasHpFails, At, Goto, Return, TypeOK, Labels, npcVars, worldVars, localVars
  <2>21. ASSUME NEW w \in Workers, InsertIntoSector(w) PROVE TypeOK'
    BY <2>21 DEF InsertIntoSector, At, Goto, Return, TypeOK, Labels, npcVars, worldVars, localVars
  <2>22. ASSUME NEW w \in Workers, ScanSectors(w) PROVE TypeOK'
    BY <2>22 DEF ScanSectors, At, Goto, Return, TypeOK, Labels, npcVars, worldVars, localVars
  <2>23. ASSUME NEW w \in Workers, WakeCheckAgro(w) PROVE TypeOK'
    BY <2>23, PostType DEF WakeCheckAgro, At, Goto, Return, TypeOK, Labels, npcVars, worldVars, localVars, Post
  <2>24. ASSUME NEW w \in Workers, WakeReadActive(w) PROVE TypeOK'
    BY <2>24 DEF WakeReadActive, At, Goto, Return, TypeOK, Labels, npcVars, worldVars, localVars
  <2>25. ASSUME NEW w \in Workers, WakeReadHp(w) PROVE TypeOK'
    BY <2>25 DEF WakeReadHp, At, Goto, Return, TypeOK, Labels, npcVars, worldVars, localVars
  <2>26. ASSUME NEW w \in Workers, WakeCas(w) PROVE TypeOK'
    <3>1. active' \in BOOLEAN
      BY <2>26 DEF WakeCas, TypeOK
    <3>2. /\ pc' \in [Workers -> Labels]
          /\ ev' \in [Workers -> Events \union {NoEvent}]
          /\ look' \in [Workers -> SUBSET Players]
          /\ old' \in [Workers -> Int]
      BY <2>26 DEF WakeCas, Goto, Return, TypeOK, Labels, localVars
    <3> QED
      BY <2>26, <3>1, <3>2 DEF WakeCas, TypeOK, worldVars
  <2>27. ASSUME NEW w \in Workers, WakePost(w) PROVE TypeOK'
    BY <2>27, PostType DEF WakePost, At, Goto, Return, TypeOK, Labels, npcVars, worldVars, localVars, Post
  <2>28. ASSUME NEW w \in Workers, NEW p \in Players, MoveIntoView(w, p) PROVE TypeOK'
    BY <2>28 DEF MoveIntoView, At, Goto, Return, TypeOK, Labels, npcVars, worldVars, localVars, Events, PlayerMove
  <2>29. ASSUME NEW w \in Workers, NEW p \in Players, MoveOutOfView(w, p) PROVE TypeOK'
    BY <2>29 DEF MoveOutOfView, At, Goto, Return, TypeOK, Labels, npcVars, worldVars, localVars
  <2>30. ASSUME NEW w \in Workers, NEW p \in Players, Disconnect(w, p) PROVE TypeOK'
    BY <2>30 DEF Disconnect, At, Goto, Return, TypeOK, Labels, npcVars, worldVars, localVars
  <2>31. ASSUME NEW w \in Workers, NEW p \in Players, NEW d \in Damages, Attack(w, p, d) PROVE TypeOK'
    BY <2>31, PostType DEF Attack, At, Goto, Return, TypeOK, Labels, npcVars, worldVars, localVars, Post
  <2>32. ASSUME NEW w \in Workers, NEW e \in PostedEvents, Take(w, e) PROVE TypeOK'
    BY <2>32, EntryLabel, EventTypes DEF Take, At, Goto, Return, TypeOK, Labels, npcVars, worldVars, localVars
  <2>33. CASE UNCHANGED vars
    BY <2>33 DEF vars, TypeOK, npcVars, worldVars, localVars
  <2> QED
    BY <2>1, <2>2, <2>3, <2>4, <2>5, <2>6, <2>7, <2>8, <2>9, <2>10, <2>11, <2>12, <2>13, <2>14, <2>15, <2>16, <2>17, <2>18, <2>19, <2>20, <2>21, <2>22, <2>23, <2>24, <2>25, <2>26, <2>27, <2>28, <2>29, <2>30, <2>31, <2>32, <2>33
       DEF Next, Handler, HandleMove, HandleDamage, HandleRespawn, HandlePlayerMove, Player, Rest
<1> QED
  BY <1>1, <1>2, PTL DEF Spec

(* An active NPC always has an OP_NPC_MOVE on its way or a worker between   *)
(* two links of its event chain, however the handlers interleave.           *)
THEOREM ActiveHasMoverInvariant == Spec => []ActiveHasMover
<1> USE LifecycleAssumption
<1>1. Init => ActiveHasMover
  BY DEF Init, ActiveHasMover, Movers
<1>2. TypeOK /\ ActiveHasMover /\ [Next]_vars => ActiveHasMover'
  <2> SUFFICES ASSUME TypeOK, ActiveHasMover, [Next]_vars PROVE ActiveHasMover'
    OBVIOUS
  <2>1. ASSUME NEW w \in Workers, MoveDropped(w) PROVE ActiveHasMover'
    BY <2>1, EventTypes DEF MoveDropped, At, Goto, Return, TypeOK, npcVars, worldVars, localVars, ActiveHasMover, Movers
  <2>2. ASSUME NEW w \in Workers, MoveAccepted(w) PROVE ActiveHasMover'
    BY <2>2, EventTypes DEF MoveAccepted, At, Goto, Return, TypeOK, npcVars, worldVars, localVars, ActiveHasMover, Movers
  <2>3. ASSUME NEW w \in Workers, NEW p \in Players, LookAt(w, p) PROVE ActiveHasMover'
    BY <2>3, EventTypes DEF LookAt, At, Goto, Return, TypeOK, npcVars, worldVars, localVars, ActiveHasMover, Movers
  <2>4. ASSUME NEW w \in Workers, FallAsleep(w) PROVE ActiveHasMover'
    BY <2>4, EventTypes DEF FallAsleep, At, Goto, Return, TypeOK, npcVars, worldVars, localVars, ActiveHasMover, Movers
  <2>5. ASSUME NEW w \in Workers, RandomMove(w) PROVE ActiveHasMover'
    BY <2>5, EventTypes DEF RandomMove, At, Goto, Return, TypeOK, npcVars, worldVars, localVars, ActiveHasMover, Movers
  <2>6. ASSUME NEW w \in Workers, StartChase(w) PROVE ActiveHasMover'
    BY <2>6, EventTypes DEF StartChase, At, Goto, Return, TypeOK, npcVars, worldVars, localVars, ActiveHasMover, Movers
  <2>7. ASSUME NEW w \in Workers, ChaseTarget(w) PROVE ActiveHasMover'
    BY <2>7, EventTypes DEF ChaseTarget, At, Goto, Return, TypeOK, npcVars, worldVars, localVars, ActiveHasMover, Movers
  <2>8. ASSUME NEW w \in Workers, RepostMove(w) PROVE ActiveHasMover'
    BY <2>8, EventTypes DEF RepostMove, At, Goto, Return, TypeOK, npcVars, worldVars, localVars, ActiveHasMover, Movers, Post
  <2>9. ASSUME NEW w \in Workers, ProcessEventPlayerMove(w) PROVE ActiveHasMover'
    BY <2>9, EventTypes DEF ProcessEventPlayerMove, At, Goto, Return, TypeOK, npcVars, worldVars, localVars, ActiveHasMover, Movers
  <2>10. ASSUME NEW w \in Workers, UpdateHp(w) PROVE ActiveHasMover'
    BY <2>10, EventTypes, EventFields DEF UpdateHp, At, Goto, Return, TypeOK, npcVars, worldVars, localVars, ActiveHasMover, Movers
  <2>11. ASSUME NEW w \in Workers, RetargetAttacker(w) PROVE ActiveHasMover'
    BY <2>11, EventTypes, EventFields DEF RetargetAttacker, At, Goto, Return, TypeOK, npcVars, worldVars, localVars, ActiveHasMover, Movers
  <2>12. ASSUME NEW w \in Workers, Survived(w) PROVE ActiveHasMover'
    BY <2>12, EventTypes DEF Survived, At, Goto, Return, TypeOK, npcVars, worldVars, localVars, ActiveHasMover, Movers, IsDead
  <2>13. ASSUME NEW w \in Workers, Died(w) PROVE ActiveHasMover'
    BY <2>13, EventTypes DEF Died, At, Goto, Return, TypeOK, npcVars, worldVars, localVars, ActiveHasMover, Movers, IsDead
  <2>14. ASSUME NEW w \in Workers, Deactivate(w) PROVE ActiveHasMover'
    BY <2>14, EventTypes DEF Deactivate, At, Goto, Return, TypeOK, npcVars, worldVars, localVars, ActiveHasMover, Movers
  <2>15. ASSUME NEW w \in Workers, EraseFromSector(w) PROVE ActiveHasMover'
    BY <2>15, EventTypes DEF EraseFromSector, At, Goto, Return, TypeOK, npcVars, worldVars, localVars, ActiveHasMover, Movers
  <2>16. ASSUME NEW w \in Workers, ScheduleRespawn(w) PROVE ActiveHasMover'
    BY <2>16, EventTypes DEF ScheduleRespawn, At, Goto, Return, TypeOK, npcVars, worldVars, localVars, ActiveHasMover, Movers, Post
  <2>17. ASSUME NEW w \in Workers, RewardKiller(w) PROVE ActiveHasMover'
    BY <2>17, EventTypes DEF RewardKiller, At, Goto, Return, TypeOK, npcVars, worldVars, localVars, ActiveHasMover, Movers
  <2>18. ASSUME NEW w \in Workers, LoadHp(w) PROVE ActiveHasMover'
    BY <2>18, EventTypes DEF LoadHp, At, Goto, Return, TypeOK, npcVars, worldVars, localVars, ActiveHasMover, Movers
  <2>19. ASSUME NEW w \in Workers, CasHp(w) PROVE ActiveHasMover'
    BY <2>19, EventTypes DEF CasHp, At, Goto, Return, TypeOK, npcVars, worldVars, localVars, ActiveHasMover, Movers
  <2>20. ASSUME NEW w \in Workers, CasHpFails(w) PROVE ActiveHasMover'
    BY <2>20, EventTypes DEF CasHpFails, At, Goto, Return, TypeOK, npcVars, worldVars, localVars, ActiveHasMover, Movers
  <2>21. ASSUME NEW w \in Workers, InsertIntoSector(w) PROVE ActiveHasMover'
    BY <2>21, EventTypes DEF InsertIntoSector, At, Goto, Return, TypeOK, npcVars, worldVars, localVars, ActiveHasMover, Movers
  <2>22. ASSUME NEW w \in Workers, ScanSectors(w) PROVE ActiveHasMover'
    BY <2>22, EventTypes DEF ScanSectors, At, Goto, Return, TypeOK, npcVars, worldVars, localVars, ActiveHasMover, Movers
  <2>23. ASSUME NEW w \in Workers, WakeCheckAgro(w) PROVE ActiveHasMover'
    BY <2>23, EventTypes DEF WakeCheckAgro, At, Goto, Return, TypeOK, npcVars, worldVars, localVars, ActiveHasMover, Movers, Post, CheckAgro, Event, Move, Respawn
  <2>24. ASSUME NEW w \in Workers, WakeReadActive(w) PROVE ActiveHasMover'
    BY <2>24, EventTypes DEF WakeReadActive, At, Goto, Return, TypeOK, npcVars, worldVars, localVars, ActiveHasMover, Movers
  <2>25. ASSUME NEW w \in Workers, WakeReadHp(w) PROVE ActiveHasMover'
    BY <2>25, EventTypes DEF WakeReadHp, At, Goto, Return, TypeOK, npcVars, worldVars, localVars, ActiveHasMover, Movers
  <2>26. ASSUME NEW w \in Workers, WakeCas(w) PROVE ActiveHasMover'
    BY <2>26, EventTypes DEF WakeCas, At, Goto, Return, TypeOK, npcVars, worldVars, localVars, ActiveHasMover, Movers
  <2>27. ASSUME NEW w \in Workers, WakePost(w) PROVE ActiveHasMover'
    BY <2>27, EventTypes DEF WakePost, At, Goto, Return, TypeOK, npcVars, worldVars, localVars, ActiveHasMover, Movers, Post
  <2>28. ASSUME NEW w \in Workers, NEW p \in Players, MoveIntoView(w, p) PROVE ActiveHasMover'
    BY <2>28, EventTypes DEF MoveIntoView, At, Goto, Return, TypeOK, npcVars, worldVars, localVars, ActiveHasMover, Movers
  <2>29. ASSUME NEW w \in Workers, NEW p \in Players, MoveOutOfView(w, p) PROVE ActiveHasMover'
    BY <2>29, EventTypes DEF MoveOutOfView, At, Goto, Return, TypeOK, npcVars, worldVars, localVars, ActiveHasMover, Movers
  <2>30. ASSUME NEW w \in Workers, NEW p \in Players, Disconnect(w, p) PROVE ActiveHasMover'
    BY <2>30, EventTypes DEF Disconnect, At, Goto, Return, TypeOK, npcVars, worldVars, localVars, ActiveHasMover, Movers
  <2>31. ASSUME NEW w \in Workers, NEW p \in Players, NEW d \in Damages, Attack(w, p, d) PROVE ActiveHasMover'
    BY <2>31, EventTypes DEF Attack, At, Goto, Return, TypeOK, npcVars, worldVars, localVars, ActiveHasMover, Movers, Post, GetDamage, Move, Respawn, Event
  <2>32. ASSUME NEW w \in Workers, NEW e \in PostedEvents, Take(w, e) PROVE ActiveHasMover'
    BY <2>32, EventTypes DEF Take, At, Goto, Return, TypeOK, npcVars, worldVars, localVars, ActiveHasMover, Movers, EntryOf, PostedEvents, Move, Respawn, CheckAgro, GetDamage, Event
  <2>33. CASE UNCHANGED vars
    BY <2>33 DEF vars, npcVars, worldVars, localVars, ActiveHasMover, Movers
  <2> QED
    BY <2>1, <2>2, <2>3, <2>4, <2>5, <2>6, <2>7, <2>8, <2>9, <2>10, <2>11, <2>12, <2>13, <2>14, <2>15, <2>16, <2>17, <2>18, <2>19, <2>20, <2>21, <2>22, <2>23, <2>24, <2>25, <2>26, <2>27, <2>28, <2>29, <2>30, <2>31, <2>32, <2>33
       DEF Next, Handler, HandleMove, HandleDamage, HandleRespawn, HandlePlayerMove, Player, Rest
<1> QED
  BY <1>1, <1>2, TypeCorrect, PTL DEF Spec

(* A dead NPC always has an OP_NPC_RESPAWN on its way, or a worker that is  *)
(* about to post one or to swap the hit points it has read.                 *)
THEOREM DeadHasRespawnInvariant == Spec => []DeadHasRespawn
<1> USE LifecycleAssumption
<1>1. Init => DeadHasRespawn
  BY DEF Init, DeadHasRespawn, Revivers
<1>2. TypeOK /\ DeadHasRespawn /\ [Next]_vars => DeadHasRespawn'
  <2> SUFFICES ASSUME TypeOK, DeadHasRespawn, [Next]_vars PROVE DeadHasRespawn'
    OBVIOUS
  <2>1. ASSUME NEW w \in Workers, MoveDropped(w) PROVE DeadHasRespawn'
    BY <2>1, EventTypes DEF MoveDropped, At, Goto, Return, TypeOK, npcVars, worldVars, localVars, DeadHasRespawn, Revivers
  <2>2. ASSUME NEW w \in Workers, MoveAccepted(w) PROVE DeadHasRespawn'
    BY <2>2, EventTypes DEF MoveAccepted, At, Goto, Return, TypeOK, npcVars, worldVars, localVars, DeadHasRespawn, Revivers
  <2>3. ASSUME NEW w \in Workers, NEW p \in Players, LookAt(w, p) PROVE DeadHasRespawn'
    BY <2>3, EventTypes DEF LookAt, At, Goto, Return, TypeOK, npcVars, worldVars, localVars, DeadHasRespawn, Revivers
  <2>4. ASSUME NEW w \in Workers, FallAsleep(w) PROVE DeadHasRespawn'
    BY <2>4, EventTypes DEF FallAsleep, At, Goto, Return, TypeOK, npcVars, worldVars, localVars, DeadHasRespawn, Revivers
  <2>5. ASSUME NEW w \in Workers, RandomMove(w) PROVE DeadHasRespawn'
    BY <2>5, EventTypes DEF RandomMove, At, Goto, Return, TypeOK, npcVars, worldVars, localVars, DeadHasRespawn, Revivers
  <2>6. ASSUME NEW w \in Workers, StartChase(w) PROVE DeadHasRespawn'
    BY <2>6, EventTypes DEF StartChase, At, Goto, Return, TypeOK, npcVars, worldVars, localVars, DeadHasRespawn, Revivers
  <2>7. ASSUME NEW w \in Workers, ChaseTarget(w) PROVE DeadHasRespawn'
    BY <2>7, EventTypes DEF ChaseTarget, At, Goto, Return, TypeOK, npcVars, worldVars, localVars, DeadHasRespawn, Revivers
  <2>8. ASSUME NEW w \in Workers, RepostMove(w) PROVE DeadHasRespawn'
    BY <2>8, EventTypes DEF RepostMove, At, Goto, Return, TypeOK, npcVars, worldVars, localVars, DeadHasRespawn, Revivers, Post
  <2>9. ASSUME NEW w \in Workers, ProcessEventPlayerMove(w) PROVE DeadHasRespawn'
    BY <2>9, EventTypes DEF ProcessEventPlayerMove, At, Goto, Return, TypeOK, npcVars, worldVars, localVars, DeadHasRespawn, Revivers
  <2>10. ASSUME NEW w \in Workers, UpdateHp(w) PROVE DeadHasRespawn'
    BY <2>10, EventTypes, EventFields DEF UpdateHp, At, Goto, Return, TypeOK, npcVars, worldVars, localVars, DeadHasRespawn, Revivers
  <2>11. ASSUME NEW w \in Workers, RetargetAttacker(w) PROVE DeadHasRespawn'
    BY <2>11, EventTypes, EventFields DEF RetargetAttacker, At, Goto, Return, TypeOK, npcVars, worldVars, localVars, DeadHasRespawn, Revivers
  <2>12. ASSUME NEW w \in Workers, Survived(w) PROVE DeadHasRespawn'
    BY <2>12, EventTypes DEF Survived, At, Goto, Return, TypeOK, npcVars, worldVars, localVars, DeadHasRespawn, Revivers, IsDead
  <2>13. ASSUME NEW w \in Workers, Died(w) PROVE DeadHasRespawn'
    BY <2>13, EventTypes DEF Died, At, Goto, Return, TypeOK, npcVars, worldVars, localVars, DeadHasRespawn, Revivers, IsDead
  <2>14. ASSUME NEW w \in Workers, Deactivate(w) PROVE DeadHasRespawn'
    BY <2>14, EventTypes DEF Deactivate, At, Goto, Return, TypeOK, npcVars, worldVars, localVars, DeadHasRespawn, Revivers
  <2>15. ASSUME NEW w \in Workers, EraseFromSector(w) PROVE DeadHasRespawn'
    BY <2>15, EventTypes DEF EraseFromSector, At, Goto, Return, TypeOK, npcVars, worldVars, localVars, DeadHasRespawn, Revivers
  <2>16. ASSUME NEW w \in Workers, ScheduleRespawn(w) PROVE DeadHasRespawn'
    BY <2>16, EventTypes DEF ScheduleRespawn, At, Goto, Return, TypeOK, npcVars, worldVars, localVars, DeadHasRespawn, Revivers, Post
  <2>17. ASSUME NEW w \in Workers, RewardKiller(w) PROVE DeadHasRespawn'
    BY <2>17, EventTypes DEF RewardKiller, At, Goto, Return, TypeOK, npcVars, worldVars, localVars, DeadHasRespawn, Revivers
  <2>18. ASSUME NEW w \in Workers, LoadHp(w) PROVE DeadHasRespawn'
    BY <2>18, EventTypes DEF LoadHp, At, Goto, Return, TypeOK, npcVars, worldVars, localVars, DeadHasRespawn, Revivers
  <2>19. ASSUME NEW w \in Workers, CasHp(w) PROVE DeadHasRespawn'
    BY <2>19, EventTypes DEF CasHp, At, Goto, Return, TypeOK, npcVars, worldVars, localVars, DeadHasRespawn, Revivers
  <2>20. ASSUME NEW w \in Workers, CasHpFails(w) PROVE DeadHasRespawn'
    BY <2>20, EventTypes DEF CasHpFails, At, Goto, Return, TypeOK, npcVars, worldVars, localVars, DeadHasRespawn, Revivers
  <2>21. ASSUME NEW w \in Workers, InsertIntoSector(w) PROVE DeadHasRespawn'
    BY <2>21, EventTypes DEF InsertIntoSector, At, Goto, Return, TypeOK, npcVars, worldVars, localVars, DeadHasRespawn, Revivers
  <2>22. ASSUME NEW w \in Workers, ScanSectors(w) PROVE DeadHasRespawn'
    BY <2>22, EventTypes DEF ScanSectors, At, Goto, Return, TypeOK, npcVars, worldVars, localVars, DeadHasRespawn, Revivers
  <2>23. ASSUME NEW w \in Workers, WakeCheckAgro(w) PROVE DeadHasRespawn'
    BY <2>23, EventTypes DEF WakeCheckAgro, At, Goto, Return, TypeOK, npcVars, worldVars, localVars, DeadHasRespawn, Revivers, Post, CheckAgro, Event, Move, Respawn
  <2>24. ASSUME NEW w \in Workers, WakeReadActive(w) PROVE DeadHasRespawn'
    BY <2>24, EventTypes DEF WakeReadActive, At, Goto, Return, TypeOK, npcVars, worldVars, localVars, DeadHasRespawn, Revivers
  <2>25. ASSUME NEW w \in Workers, WakeReadHp(w) PROVE DeadHasRespawn'
    BY <2>25, EventTypes DEF WakeReadHp, At, Goto, Return, TypeOK, npcVars, worldVars, localVars, DeadHasRespawn, Revivers
  <2>26. ASSUME NEW w \in Workers, WakeCas(w) PROVE DeadHasRespawn'
    BY <2>26, EventTypes DEF WakeCas, At, Goto, Return, TypeOK, npcVars, worldVars, localVars, DeadHasRespawn, Revivers
  <2>27. ASSUME NEW w \in Workers, WakePost(w) PROVE DeadHasRespawn'
    BY <2>27, EventTypes DEF WakePost, At, Goto, Return, TypeOK, npcVars, worldVars, localVars, DeadHasRespawn, Revivers, Post
  <2>28. ASSUME NEW w \in Workers, NEW p \in Players, MoveIntoView(w, p) PROVE DeadHasRespawn'
    BY <2>28, EventTypes DEF MoveIntoView, At, Goto, Return, TypeOK, npcVars, worldVars, localVars, DeadHasRespawn, Revivers
  <2>29. ASSUME NEW w \in Workers, NEW p \in Players, MoveOutOfView(w, p) PROVE DeadHasRespawn'
    BY <2>29, EventTypes DEF MoveOutOfView, At, Goto, Return, TypeOK, npcVars, worldVars, localVars, DeadHasRespawn, Revivers
  <2>30. ASSUME NEW w \in Workers, NEW p \in Players, Disconnect(w, p) PROVE DeadHasRespawn'
    BY <2>30, EventTypes DEF Disconnect, At, Goto, Return, TypeOK, npcVars, worldVars, localVars, DeadHasRespawn, Revivers
  <2>31. ASSUME NEW w \in Workers, NEW p \in Players, NEW d \in Damages, Attack(w, p, d) PROVE DeadHasRespawn'
    BY <2>31, EventTypes DEF Attack, At, Goto, Return, TypeOK, npcVars, worldVars, localVars, DeadHasRespawn, Revivers, Post, GetDamage, Move, Respawn, Event
  <2>32. ASSUME NEW w \in Workers, NEW e \in PostedEvents, Take(w, e) PROVE DeadHasRespawn'
    BY <2>32, EventTypes DEF Take, At, Goto, Return, TypeOK, npcVars, worldVars, localVars, DeadHasRespawn, Revivers, EntryOf, PostedEvents, Move, Respawn, CheckAgro, GetDamage, Event
  <2>33. CASE UNCHANGED vars
    BY <2>33 DEF vars, npcVars, worldVars, localVars, DeadHasRespawn, Revivers
  <2> QED
    BY <2>1, <2>2, <2>3, <2>4, <2>5, <2>6, <2>7, <2>8, <2>9, <2>10, <2>11, <2>12, <2>13, <2>14, <2>15, <2>16, <2>17, <2>18, <2>19, <2>20, <2>21, <2>22, <2>23, <2>24, <2>25, <2>26, <2>27, <2>28, <2>29, <2>30, <2>31, <2>32, <2>33
       DEF Next, Handler, HandleMove, HandleDamage, HandleRespawn, HandlePlayerMove, Player, Rest
<1> QED
  BY <1>1, <1>2, TypeCorrect, PTL DEF Spec
=============================================================================
