-------------------------- MODULE PlayerStatsProofs --------------------------
(***************************************************************************)
(* Proofs about PlayerStats, for any number of workers, hits, kills and    *)
(* logins: the level lock, the chains of heals, that a player nobody is    *)
(* busy with is active and, unless it has logged in twice, not above its   *)
(* maximum of hit points, and that no reward is lost.                      *)
(***************************************************************************)
EXTENDS PlayerStats, FiniteSetTheorems, WellFoundedInduction, TLAPS

(* What a worker handles at each label, and that a level up adds levels. *)
Handles(w) ==
  /\ pc[w] = "idle" => ev[w] = NoEvent
  /\ pc[w] \in {"add", "compare", "clamp"} =>
       ev[w].type \in {"EVENT_GET_DAMAGE", "EVENT_HEAL"}
  /\ pc[w] = "repost" => ev[w].type \in {"EVENT_HEAL", "OP_DB_LOGIN"}
  /\ pc[w] \in Entering => ev[w].type = "OP_DB_LOGIN"
  /\ pc[w] \in {"dropped", "dead", "claim", "readExp", "halve", "restore", "relocate", "activate"}
       => ev[w].type = "EVENT_GET_DAMAGE"
  /\ pc[w] \in {"lock"} \union Holding => ev[w].type = "EVENT_KILL_ENEMY"
  /\ pc[w] \in {"levelUp", "raise"} => reg[w] >= 0
  /\ pc[w] # "idle" => ev[w] \in Events

Typed == TypeOK /\ \A w \in Workers : Handles(w)

LEMMA EventTypes ==
  /\ \A d : GetDamage(d).type = "EVENT_GET_DAMAGE" /\ GetDamage(d).amount = d
  /\ Heal.type = "EVENT_HEAL" /\ Heal.amount = 0
  /\ KillEnemy.type = "EVENT_KILL_ENEMY" /\ KillEnemy.amount = Reward
  /\ LogIn.type = "OP_DB_LOGIN" /\ LogIn.amount = 0
  /\ NoEvent.type = "none" /\ NoEvent.amount = 0
  /\ \A d \in Damages : GetDamage(d) \in Events
  /\ Heal \in Events /\ KillEnemy \in Events /\ LogIn \in Events /\ NoEvent \notin Events
BY DEF GetDamage, Heal, KillEnemy, LogIn, NoEvent, Event, Events

LEMMA EventAmounts ==
  ASSUME NEW e \in Events \union {NoEvent}
  PROVE  /\ e.amount \in Nat
         /\ e.type \in {"EVENT_GET_DAMAGE", "EVENT_HEAL", "EVENT_KILL_ENEMY", "OP_DB_LOGIN", "none"}
BY EventTypes, StatsAssumption DEF Events

LEMMA DiffsAreNumbers ==
  ASSUME NEW w \in Workers, ev[w] \in Events \union {NoEvent}, NEW diff \in Diffs(w)
  PROVE  diff \in Int /\ (ev[w].type = "EVENT_HEAL" => diff >= 0)
BY EventAmounts, StatsAssumption DEF Diffs

LEMMA ProductsArePositive == \A a, b \in Nat \ {0} : a * b \in Nat \ {0}
<1> SUFFICES ASSUME NEW a \in Nat \ {0}, NEW b \in Nat \ {0} PROVE a * b \in Nat \ {0}
  OBVIOUS
<1>1. a * b \in Nat /\ 1 * b <= a * b
  OBVIOUS
<1> QED
  BY <1>1

LEMMA StartHpIsPositive == StartHp \in Nat \ {0}
BY ProductsArePositive, StatsAssumption DEF StartHp

LEMMA TypedAtFirst == Init => Typed
<1> SUFFICES ASSUME Init PROVE Typed
  OBVIOUS
<1>1. StartLevel * StartLevel * ExpPerLevel \in Nat \ {0}
  BY ProductsArePositive, StatsAssumption
<1>2. pending \in [Events -> Nat]
  BY DEF Init
<1>3. \A w \in Workers : pc[w] = "idle" /\ ev[w] = NoEvent /\ reg[w] = 0 /\ levelLock # w
  BY StatsAssumption DEF Init
<1>4. \A w \in Workers : Handles(w)
  BY <1>3 DEF Handles, Holding, Entering
<1>5. /\ hp \in Int /\ maxHp \in Nat \ {0} /\ exp \in Int /\ level \in Nat \ {0}
      /\ levelLock = None
      /\ hits \in 0 .. MaxHits /\ kills \in 0 .. MaxKills /\ logins \in 1 .. MaxLogins
  <2>1. /\ hp = StartHp /\ maxHp = StartHp /\ exp = StartExp /\ level = StartLevel
        /\ levelLock = None /\ hits = 0 /\ kills = 0 /\ logins = 1
    BY DEF Init, StartHp
  <2> QED
    BY <2>1, StartHpIsPositive, StatsAssumption
<1>6. active \in BOOLEAN /\ died \in BOOLEAN /\ again \in BOOLEAN
  BY Zenon DEF Init
<1>7. maxExp \in Nat \ {0}
  BY <1>1, Zenon DEF Init
<1>8. /\ pc \in [Workers -> Labels] /\ ev \in [Workers -> Events \union {NoEvent}]
      /\ reg \in [Workers -> Int]
  BY DEF Init, Labels
<1>9. TypeOK
  BY <1>2, <1>3, <1>5, <1>6, <1>7, <1>8 DEF TypeOK, Holding
<1> QED
  BY <1>4, <1>9 DEF Typed

LEMMA TypeInvariant == Typed /\ [Next]_vars => Typed'
<1> SUFFICES ASSUME Typed, [Next]_vars PROVE Typed'
  OBVIOUS
<1> USE DEF Typed, TypeOK, Handles, Labels, Holding, Entering, growth, world, history, Goto, Return,
            Post
<1>1. ASSUME NEW w \in Workers, Taking(w) PROVE Typed'
  <2>1. ASSUME NEW d \in Damages, TakeDamage(w, d) PROVE Typed'
    BY <2>1, EventTypes DEF TakeDamage, Take
  <2>2. CASE TakeHeal(w)
    BY <2>2, EventTypes DEF TakeHeal, Take
  <2>3. CASE TakeKillEnemy(w)
    BY <2>3, EventTypes DEF TakeKillEnemy, Take
  <2>4. CASE TakeLogIn(w)
    BY <2>4, EventTypes DEF TakeLogIn, Take
  <2> QED
    BY <1>1, <2>1, <2>2, <2>3, <2>4 DEF Taking
<1>2. ASSUME NEW w \in Workers, Handler(w) PROVE Typed'
  <2>1. CASE Drop(w)
    BY <2>1 DEF Drop
  <2>2. CASE Add(w)
    <3>1. hp' \in Int
      BY <2>2, DiffsAreNumbers DEF Add
    <3> QED
      BY <2>2, <3>1 DEF Add
  <2>3. CASE Compare(w)
    BY <2>3 DEF Compare, Updated
  <2>4. CASE Clamp(w)
    BY <2>4 DEF Clamp, Updated
  <2>5. CASE PostHeal(w)
    BY <2>5, EventTypes DEF PostHeal
  <2>6. CASE TestDead(w)
    BY <2>6 DEF TestDead
  <2>7. CASE Claim(w) \/ ClaimFails(w)
    <3>1. CASE Claim(w)
      BY <3>1 DEF Claim
    <3>2. CASE ClaimFails(w)
      BY <3>2 DEF ClaimFails
    <3> QED
      BY <2>7, <3>1, <3>2
  <2>8. CASE ReadExp(w)
    <3>1. Halved(exp) \in Int
      BY Z3 DEF Halved
    <3> QED
      BY <2>8, <3>1 DEF ReadExp
  <2>9. CASE Halve(w)
    BY <2>9 DEF Halve
  <2>10. CASE Restore(w)
    BY <2>10 DEF Restore
  <2>11. CASE Relocate(w) \/ Activate(w)
    <3>1. CASE Relocate(w)
      BY <3>1 DEF Relocate
    <3>2. CASE Activate(w)
      BY <3>2 DEF Activate
    <3> QED
      BY <2>11, <3>1, <3>2
  <2>12. CASE LockLevel(w)
    <3>1. exp + ev[w].amount \in Int
      BY EventAmounts
    <3>2. pc[w] = "lock" /\ ev[w].type = "EVENT_KILL_ENEMY" /\ ev[w] \in Events
      BY <2>12 DEF LockLevel
    <3>3. \A u \in Workers : pc[u] \notin Holding
      BY <2>12, StatsAssumption DEF LockLevel
    <3>4. /\ hp' = hp /\ maxHp' = maxHp /\ active' = active /\ exp' = exp /\ level' = level
          /\ maxExp' = maxExp /\ pending' = pending /\ hits' = hits /\ kills' = kills
          /\ logins' = logins /\ died' = died /\ again' = again /\ ev' = ev
          /\ levelLock' = w /\ pc' = [pc EXCEPT ![w] = "gain"]
          /\ reg' = [reg EXCEPT ![w] = exp + ev[w].amount]
      BY <2>12 DEF LockLevel
    <3>5. TypeOK'
      BY <3>1, <3>3, <3>4
    <3>6. \A u \in Workers : Handles(u)'
      BY <3>2, <3>4
    <3> QED
      BY <3>5, <3>6
  <2>13. CASE Gain(w)
    BY <2>13 DEF Gain
  <2>14. CASE ReadDiff(w)
    <3>1. exp - maxExp \in Int /\ (exp >= maxExp => exp - maxExp >= 0)
      OBVIOUS
    <3>2. \A u \in Workers : u # None
      BY StatsAssumption
    <3> QED
      BY <2>14, <3>1, <3>2 DEF ReadDiff
  <2>15. CASE LevelUp(w)
    <3>1. reg[w] \in Int /\ maxExp \in Nat \ {0}
      OBVIOUS
    <3>2. reg[w] % maxExp \in Int
      BY <3>1, Z3
    <3> QED
      BY <2>15, <3>2 DEF LevelUp
  <2>16. CASE Raise(w)
    <3>1. reg[w] \in Nat /\ maxExp \in Nat \ {0} /\ level \in Nat \ {0}
      BY <2>16 DEF Raise
    <3>2. reg[w] \div maxExp \in Nat
      BY <3>1, Z3
    <3>3. level' \in Nat \ {0}
      BY <2>16, <3>1, <3>2 DEF Raise
    <3> QED
      BY <2>16, <3>3 DEF Raise
  <2>17. CASE RaiseMax(w)
    <3>1. level * ExpPerLevel \in Nat \ {0}
      BY ProductsArePositive, StatsAssumption
    <3> QED
      BY <2>17, <3>1 DEF RaiseMax
  <2>18. CASE Refill(w)
    <3>1. \A u \in Workers : u # None
      BY StatsAssumption
    <3> QED
      BY <2>18, <3>1 DEF Refill
  <2>19. CASE Enter(w) \/ Fill(w)
    <3>1. CASE Enter(w)
      BY <3>1 DEF Enter
    <3>2. CASE Fill(w)
      BY <3>2 DEF Fill
    <3> QED
      BY <2>19, <3>1, <3>2
  <2>20. CASE Load(w)
    <3>1. exp' \in Int /\ level' \in Nat \ {0}
      BY <2>20, StatsAssumption DEF Load
    <3> QED
      BY <2>20, <3>1 DEF Load
  <2>21. CASE SetMaxHp(w)
    <3>1. level * HpPerLevel \in Nat \ {0}
      BY ProductsArePositive, StatsAssumption
    <3> QED
      BY <2>21, <3>1 DEF SetMaxHp
  <2>22. CASE SetMaxExp(w)
    <3>1. level * level * ExpPerLevel \in Nat \ {0}
      BY ProductsArePositive, StatsAssumption
    <3> QED
      BY <2>22, <3>1 DEF SetMaxExp
  <2> QED
    BY <1>2, <2>1, <2>2, <2>3, <2>4, <2>5, <2>6, <2>7, <2>8, <2>9, <2>10, <2>11, <2>12, <2>13,
       <2>14, <2>15, <2>16, <2>17, <2>18, <2>19, <2>20, <2>21, <2>22 DEF Handler
<1>3. ASSUME NEW d \in Damages, Hit(d) PROVE Typed'
  BY <1>3, EventTypes, StatsAssumption DEF Hit
<1>4. CASE Kill
  BY <1>4, EventTypes, StatsAssumption DEF Kill
<1>5. CASE AskLogIn
  BY <1>5, EventTypes, StatsAssumption DEF AskLogIn
<1>6. CASE UNCHANGED vars
  BY <1>6 DEF vars
<1> QED
  BY <1>1, <1>2, <1>3, <1>4, <1>5, <1>6 DEF Next

(* Types and ranges, and the level lock: whoever is between its lock and     *)
(* unlock holds it, so there is one such worker at most.                    *)
THEOREM TypeCorrect == Spec => []TypeOK
<1>1. Typed => TypeOK
  BY DEF Typed
<1> QED
  BY <1>1, TypedAtFirst, TypeInvariant, PTL DEF Spec

-----------------------------------------------------------------------------
(* Heals.                                                                   *)

LEMMA HealingIsFinite == IsFiniteSet(Healing) /\ Cardinality(Healing) \in Nat
<1>1. Healing \subseteq Workers
  BY DEF Healing
<1> QED
  BY <1>1, StatsAssumption, FS_Subset, FS_CardinalityType

(* Steps that take and post no heal and no login leave their number. *)
LEMMA ChainsStay ==
  ASSUME OneHealPerLogin, logins' = logins,
         pending'[Heal] = pending[Heal], pending'[LogIn] = pending[LogIn],
         \A w \in Workers :
           ev'[w].type \in {"EVENT_HEAL", "OP_DB_LOGIN"} <=>
             ev[w].type \in {"EVENT_HEAL", "OP_DB_LOGIN"}
  PROVE  OneHealPerLogin'
<1>1. Healing' = Healing
  BY DEF Healing
<1> QED
  BY <1>1 DEF OneHealPerLogin

LEMMA ChainsAreKept == Typed /\ OneHealPerLogin /\ [Next]_vars => OneHealPerLogin'
<1> SUFFICES ASSUME Typed, OneHealPerLogin, [Next]_vars PROVE OneHealPerLogin'
  OBVIOUS
<1>0. /\ IsFiniteSet(Healing) /\ Cardinality(Healing) \in Nat
      /\ pending[Heal] \in Nat /\ pending[LogIn] \in Nat /\ logins \in Nat
  BY HealingIsFinite, EventTypes, StatsAssumption DEF Typed, TypeOK
<1>1. /\ Heal # LogIn /\ Heal # KillEnemy /\ LogIn # KillEnemy
      /\ \A d : GetDamage(d) # Heal /\ GetDamage(d) # LogIn
  BY EventTypes
<1> USE DEF Typed, TypeOK, Handles, Labels, Holding, Entering, growth, world, history, Goto, Return,
            Post
<1>2. ASSUME NEW w \in Workers, Taking(w) PROVE OneHealPerLogin'
  <2>0. ev[w] = NoEvent
    BY <1>2 DEF Taking, TakeDamage, TakeHeal, TakeKillEnemy, TakeLogIn, Take
  <2>1. ASSUME NEW d \in Damages, TakeDamage(w, d) PROVE OneHealPerLogin'
    BY <1>1, <2>0, <2>1, EventTypes, ChainsStay DEF TakeDamage, Take
  <2>2. ASSUME NEW e \in {Heal, LogIn}, Take(w, e), logins' = logins PROVE OneHealPerLogin'
    <3>1. /\ e \in Events /\ pending[e] > 0 /\ pending' = [pending EXCEPT ![e] = @ - 1]
          /\ ev' = [ev EXCEPT ![w] = e]
      BY <2>2, EventTypes DEF Take
    <3>2. pending'[Heal] + pending'[LogIn] = pending[Heal] + pending[LogIn] - 1
      BY <1>0, <1>1, <3>1, EventTypes
    <3>3. Healing' = Healing \union {w} /\ w \notin Healing
      BY <2>0, <3>1, EventTypes DEF Healing
    <3>4. Cardinality(Healing') = Cardinality(Healing) + 1
      BY <1>0, <3>3, FS_AddElement
    <3>5. pending'[Heal] \in Int /\ pending'[LogIn] \in Int
      BY <1>0, <3>1, EventTypes
    <3> QED
      BY <1>0, <2>2, <3>2, <3>4, <3>5 DEF OneHealPerLogin
  <2>3. CASE TakeKillEnemy(w)
    BY <1>1, <2>0, <2>3, EventTypes, ChainsStay DEF TakeKillEnemy, Take
  <2>4. CASE TakeHeal(w) \/ TakeLogIn(w)
    BY <2>2, <2>4 DEF TakeHeal, TakeLogIn
  <2> QED
    BY <1>2, <2>1, <2>3, <2>4 DEF Taking
<1>3. ASSUME NEW w \in Workers, Handler(w) PROVE OneHealPerLogin'
  <2>1. CASE PostHeal(w)
    <3>1. /\ pc[w] = "repost" /\ pending' = [pending EXCEPT ![Heal] = @ + 1]
          /\ ev' = [ev EXCEPT ![w] = NoEvent] /\ logins' = logins
      BY <2>1 DEF PostHeal
    <3>2. Healing' = Healing \ {w} /\ w \in Healing
      BY <3>1, EventTypes DEF Healing
    <3>3. Cardinality(Healing') = Cardinality(Healing) - 1
      BY <1>0, <3>2, FS_RemoveElement
    <3>4. pending'[Heal] = pending[Heal] + 1 /\ pending'[LogIn] = pending[LogIn]
      BY <1>1, <3>1, EventTypes
    <3> QED
      BY <1>0, <3>1, <3>3, <3>4 DEF OneHealPerLogin
  <2>2. CASE Drop(w) \/ TestDead(w) \/ ClaimFails(w) \/ Activate(w) \/ ReadDiff(w) \/ Refill(w)
    <3>1. /\ ev[w].type \notin {"EVENT_HEAL", "OP_DB_LOGIN"} /\ pending' = pending
          /\ logins' = logins
      BY <2>2 DEF Drop, TestDead, ClaimFails, Activate, ReadDiff, Refill
    <3>2. ev' = ev \/ ev' = [ev EXCEPT ![w] = NoEvent]
      BY <2>2 DEF Drop, TestDead, ClaimFails, Activate, ReadDiff, Refill
    <3> QED
      BY <3>1, <3>2, EventTypes, ChainsStay
  <2>3. CASE \/ Add(w) \/ Compare(w) \/ Clamp(w) \/ Claim(w) \/ ReadExp(w) \/ Halve(w)
             \/ Restore(w) \/ Relocate(w) \/ LockLevel(w) \/ Gain(w) \/ LevelUp(w) \/ Raise(w)
             \/ RaiseMax(w) \/ Enter(w) \/ Load(w) \/ SetMaxHp(w) \/ Fill(w) \/ SetMaxExp(w)
    <3>1. ev' = ev /\ pending' = pending /\ logins' = logins
      BY <2>3 DEF Add, Compare, Clamp, Claim, ReadExp, Halve, Restore, Relocate, LockLevel, Gain,
                  LevelUp, Raise, RaiseMax, Enter, Load, SetMaxHp, Fill, SetMaxExp
    <3> QED
      BY <3>1, ChainsStay
  <2> QED
    BY <1>3, <2>1, <2>2, <2>3 DEF Handler
<1>4. CASE (\E d \in Damages : Hit(d)) \/ Kill
  <2>1. /\ ev' = ev /\ logins' = logins
        /\ pending'[Heal] = pending[Heal] /\ pending'[LogIn] = pending[LogIn]
    BY <1>1, <1>4, EventTypes DEF Hit, Kill
  <2> QED
    BY <2>1, ChainsStay
<1>5. CASE AskLogIn
  <2>1. /\ pending'[Heal] = pending[Heal] /\ pending'[LogIn] = pending[LogIn] + 1
        /\ logins' = logins + 1 /\ Healing' = Healing
    BY <1>1, <1>5, EventTypes DEF AskLogIn, Healing
  <2> QED
    BY <1>0, <2>1 DEF OneHealPerLogin
<1>6. CASE UNCHANGED vars
  BY <1>6, ChainsStay DEF vars
<1> QED
  BY <1>2, <1>3, <1>4, <1>5, <1>6 DEF Next

(* A login posts a heal, and a heal the next one when it is handled: the     *)
(* heals on their way or in the hands of a worker, with the logins still to  *)
(* post theirs, are as many as there were logins, through hits, deaths and   *)
(* respawns.                                                                *)
THEOREM HealingGoesOn == Spec => []OneHealPerLogin
<1>1. Init => OneHealPerLogin
  <2> SUFFICES ASSUME Init PROVE OneHealPerLogin
    OBVIOUS
  <2>1. pending[Heal] = 1 /\ pending[LogIn] = 0 /\ logins = 1
    BY EventTypes DEF Init
  <2>2. Healing = {}
    BY EventTypes DEF Init, Healing
  <2> QED
    BY <2>1, <2>2, FS_EmptySet DEF OneHealPerLogin
<1> QED
  BY <1>1, TypedAtFirst, TypeInvariant, ChainsAreKept, PTL DEF Spec

-----------------------------------------------------------------------------
(* Another login.                                                           *)

(* Until there is one nobody enters, and _max_hp is what the first has set. *)
OnlyOnce == ~again => maxHp = StartHp /\ \A w \in Workers : pc[w] \notin Entering

LEMMA OnlyOnceIsKept == Typed /\ OnlyOnce /\ [Next]_vars => OnlyOnce'
<1> SUFFICES ASSUME Typed, OnlyOnce, [Next]_vars, ~again'
             PROVE  maxHp' = StartHp /\ \A w \in Workers : pc'[w] \notin Entering
  BY DEF OnlyOnce
<1> USE DEF Typed, TypeOK, growth, world, history, Goto, Return
<1>1. ASSUME NEW w \in Workers, Taking(w) PROVE OnlyOnce'
  <2>1. /\ ~again /\ maxHp' = maxHp /\ pc'[w] \notin Entering
        /\ \A u \in Workers \ {w} : pc'[u] = pc[u]
    BY <1>1 DEF Taking, TakeDamage, TakeHeal, TakeKillEnemy, TakeLogIn, Take, Entering
  <2> QED
    BY <2>1 DEF OnlyOnce
<1>2. ASSUME NEW w \in Workers, Handler(w) PROVE OnlyOnce'
  <2>1. again' = again /\ \A u \in Workers \ {w} : pc'[u] = pc[u]
    BY <1>2 DEF Handler, Drop, Add, Compare, Clamp, PostHeal, TestDead, Claim, ClaimFails,
       ReadExp, Halve, Restore, Relocate, Activate, LockLevel, Gain, ReadDiff, LevelUp, Raise,
       RaiseMax, Refill, Enter, Load, SetMaxHp, Fill, SetMaxExp
  <2>2. pc[w] \notin Entering
    BY <2>1 DEF OnlyOnce
  <2>3. maxHp' = maxHp /\ pc'[w] \notin Entering
    BY <1>2, <2>2 DEF Handler, Drop, Add, Compare, Clamp, PostHeal, TestDead, Claim, ClaimFails,
       ReadExp, Halve, Restore, Relocate, Activate, LockLevel, Gain, ReadDiff, LevelUp, Raise,
       RaiseMax, Refill, Enter, Load, SetMaxHp, Fill, SetMaxExp, Updated, Entering
  <2> QED
    BY <2>1, <2>3 DEF OnlyOnce
<1>3. CASE \/ \E d \in Damages : Hit(d)
           \/ Kill
           \/ AskLogIn
           \/ UNCHANGED vars
  BY <1>3 DEF Hit, Kill, AskLogIn, vars, OnlyOnce
<1> QED
  BY <1>1, <1>2, <1>3 DEF Next, OnlyOnce

(* What that leaves of a step before there is one. *)
LEMMA FirstLogin ==
  ASSUME Typed, OnlyOnce, [Next]_vars, ~again'
  PROVE  /\ ~again /\ maxHp = StartHp /\ maxHp' = StartHp
         /\ \A w \in Workers :
              /\ ~TakeLogIn(w) /\ ~Enter(w) /\ ~Load(w)
              /\ ~SetMaxHp(w) /\ ~Fill(w) /\ ~SetMaxExp(w)
<1>1. OnlyOnce'
  BY OnlyOnceIsKept
<1>2. again' = again \/ again' = TRUE
  BY DEF Next, Taking, TakeDamage, TakeHeal, TakeKillEnemy, TakeLogIn, Handler, Drop, Add, Compare,
     Clamp, PostHeal, TestDead, Claim, ClaimFails, ReadExp, Halve, Restore, Relocate, Activate,
     LockLevel, Gain, ReadDiff, LevelUp, Raise, RaiseMax, Refill, Enter, Load, SetMaxHp, Fill,
     SetMaxExp, Hit, Kill, AskLogIn, vars, history
<1>3. ~again /\ maxHp = StartHp /\ maxHp' = StartHp /\ \A w \in Workers : pc[w] \notin Entering
  BY <1>1, <1>2 DEF OnlyOnce
<1>4. \A w \in Workers : ~TakeLogIn(w)
  BY DEF TakeLogIn
<1> QED
  BY <1>3, <1>4 DEF Enter, Load, SetMaxHp, Fill, SetMaxExp, Entering

-----------------------------------------------------------------------------
(* Coming back.                                                             *)

Respawning(w) == pc[w] \in {"readExp", "halve", "restore", "relocate", "activate"}
Clamping(w) == pc[w] \in {"compare", "clamp"}
Attended ==
  /\ ~active => \E w \in Workers : Respawning(w)
  /\ ~again /\ hp > StartHp => \E w \in Workers : Clamping(w)

LEMMA AttendedIsKept == Typed /\ OnlyOnce /\ Attended /\ [Next]_vars => Attended'
<1> SUFFICES ASSUME Typed, OnlyOnce, Attended, [Next]_vars PROVE Attended'
  OBVIOUS
<1> USE DEF Typed, TypeOK, growth, world, history, Goto, Return
<1>1. ASSUME NEW w \in Workers, Taking(w) PROVE Attended'
  <2>1. /\ active' = active /\ hp' = hp /\ pc[w] = "idle" /\ (~again' => ~again)
        /\ \A u \in Workers \ {w} : pc'[u] = pc[u]
    BY <1>1 DEF Taking, TakeDamage, TakeHeal, TakeKillEnemy, TakeLogIn, Take
  <2> QED
    BY <2>1 DEF Attended, Respawning, Clamping
<1>2. ASSUME NEW w \in Workers, Handler(w) PROVE Attended'
  <2>0. \A u \in Workers \ {w} : pc'[u] = pc[u]
    BY <1>2 DEF Handler, Drop, Add, Compare, Clamp, PostHeal, TestDead, Claim, ClaimFails,
       ReadExp, Halve, Restore, Relocate, Activate, LockLevel, Gain, ReadDiff, LevelUp, Raise,
       RaiseMax, Refill, Enter, Load, SetMaxHp, Fill, SetMaxExp
  <2>1. ~active' => \E u \in Workers : Respawning(u)'
    <3>1. CASE active' = TRUE
      BY <3>1
    <3>2. CASE ~active /\ ~Respawning(w) /\ active' = active
      BY <2>0, <3>2 DEF Attended, Respawning
    <3>3. CASE Respawning(w)'
      BY <3>3
    <3>4. \/ active' = TRUE
          \/ ~Respawning(w) /\ active' = active
          \/ Respawning(w)'
      BY <1>2 DEF Respawning, Handler, Drop, Add, Compare, Clamp, PostHeal, TestDead, Claim,
         ClaimFails, ReadExp, Halve, Restore, Relocate, Activate, LockLevel, Gain, ReadDiff,
         LevelUp, Raise, RaiseMax, Refill, Enter, Load, SetMaxHp, Fill, SetMaxExp, Updated
    <3> QED
      BY <3>1, <3>2, <3>3, <3>4
  <2>2. ASSUME ~again', hp' > StartHp PROVE \E u \in Workers : Clamping(u)'
    <3>0. ~again /\ maxHp = StartHp /\ StartHp \in Nat
      BY <2>2, FirstLogin, StartHpIsPositive
    <3>1. \/ hp' <= StartHp
          \/ ~Clamping(w) /\ hp' = hp
          \/ Clamping(w)'
      BY <1>2, <2>2, <3>0, FirstLogin DEF Clamping, Handler, Drop, Add, Compare, Clamp, PostHeal,
         TestDead, Claim, ClaimFails, ReadExp, Halve, Restore, Relocate, Activate, LockLevel,
         Gain, ReadDiff, LevelUp, Raise, RaiseMax, Refill, Enter, Load, SetMaxHp, Fill, SetMaxExp
    <3>2. CASE hp' <= StartHp
      BY <2>2, <3>0, <3>2, TypeInvariant
    <3>3. CASE ~Clamping(w) /\ hp' = hp
      BY <2>0, <2>2, <3>0, <3>3 DEF Attended, Clamping
    <3> QED
      BY <3>1, <3>2, <3>3
  <2> QED
    BY <2>1, <2>2 DEF Attended
<1>3. ASSUME \/ \E d \in Damages : Hit(d)
             \/ Kill
             \/ AskLogIn
             \/ UNCHANGED vars
      PROVE  Attended'
  BY <1>3 DEF Hit, Kill, AskLogIn, vars, Attended, Respawning, Clamping
<1> QED
  BY <1>1, <1>2, <1>3 DEF Next

-----------------------------------------------------------------------------
(* Staying alive: hits that found the player active before it died.         *)

Others == Cardinality(Workers) - 1
MaxStray == IF Others = 0 THEN 0 ELSE (StartHp - 1) \div Others
Stray == {w \in Workers : pc[w] = "add" /\ ev[w].type = "EVENT_GET_DAMAGE"}

(* Since the hit points were restored each of the other workers has taken    *)
(* off one hit at most, and those that are at it will.                      *)
Worn == hp >= StartHp - MaxStray * (Others - Cardinality(Stray))

Restored(w) == pc[w] \in {"relocate", "activate"}
Noticing(w) ==
  /\ pc[w] \in {"compare", "clamp", "dead", "claim"}
  /\ ev[w].type = "EVENT_GET_DAMAGE"

OneRespawn ==
  \A w \in Workers : Respawning(w) => ~active /\ \A u \in Workers : Respawning(u) => u = w
Lively ==
  /\ OneRespawn
  /\ Survivable =>
       /\ active /\ hp <= 0 => \E w \in Workers : Noticing(w)
       /\ \A w \in Workers : Restored(w) => Worn

LEMMA StrayHits ==
  ASSUME Survivable, NEW c \in Workers
  PROVE  /\ Others \in Nat /\ MaxStray \in Nat
         /\ MaxStray * Others < StartHp
         /\ Others # 0 => \A d \in Damages : d <= MaxStray
<1>0. StartHp \in Nat \ {0}
  BY StartHpIsPositive
<1>1. Others \in Nat
  <2>1. Cardinality(Workers) \in Nat /\ Cardinality(Workers) # 0
    BY StatsAssumption, FS_CardinalityType, FS_EmptySet
  <2> QED
    BY <2>1 DEF Others
<1>2. CASE Others = 0
  BY <1>0, <1>2 DEF MaxStray
<1>3. CASE Others # 0
  <2> DEFINE k == Others
             m == StartHp - 1
             q == m \div k
  <2>1. k \in Nat \ {0} /\ m \in Nat
    BY <1>0, <1>1, <1>3
  <2>2. MaxStray = q
    BY <1>3 DEF MaxStray
  <2> HIDE DEF k, m
  <2>3. q \in Nat /\ k * q <= m /\ m < k * (q + 1)
    BY <2>1, Z3
  <2> HIDE DEF q
  <2>4. q * k = k * q
    BY <2>1, <2>3
  <2>5. ASSUME NEW d \in Damages PROVE d <= q
    <3>1. d \in Nat /\ k * d <= m
      BY <1>0, <1>1, <2>1, StatsAssumption DEF Survivable, Others, k, m
    <3>2. ASSUME q + 1 <= d PROVE FALSE
      <4>1. k * (q + 1) <= k * d
        BY <2>1, <2>3, <3>1, <3>2
      <4> QED
        BY <2>1, <2>3, <3>1, <4>1
    <3> QED
      BY <2>3, <3>1, <3>2
  <2> QED
    BY <1>0, <1>1, <2>1, <2>2, <2>3, <2>4, <2>5 DEF k, m
<1> QED
  BY <1>2, <1>3

LEMMA StrayCount ==
  ASSUME NEW c \in Workers, pc[c] # "add"
  PROVE  /\ IsFiniteSet(Stray) /\ Cardinality(Stray) \in Nat
         /\ Cardinality(Stray) <= Others
<1>1. Stray \subseteq Workers \ {c}
  BY DEF Stray
<1>2. IsFiniteSet(Workers \ {c}) /\ Cardinality(Workers \ {c}) = Others
  BY StatsAssumption, FS_RemoveElement DEF Others
<1> QED
  BY <1>1, <1>2, FS_Subset, FS_CardinalityType

(* What the bound asks of a step. *)
LEMMA WornHolds ==
  ASSUME Typed, Typed', Survivable, NEW c \in Workers, pc[c] # "add", pc'[c] # "add",
         \/ hp' = StartHp
         \/ Worn /\ hp' >= hp /\ Stray' = Stray
         \/ /\ Worn
            /\ \E w \in Stray : /\ Stray' = Stray \ {w}
                                /\ \E d \in Damages : hp' = hp - d
  PROVE  Worn'
<1> DEFINE n == Cardinality(Stray)
           m == Cardinality(Stray')
           D == MaxStray
           k == Others
<1>1. /\ k \in Nat /\ D \in Nat
      /\ k # 0 => \A d \in Damages : d <= D
  BY StrayHits
<1>2. /\ IsFiniteSet(Stray) /\ n \in Nat /\ n <= k
  BY StrayCount
<1>3. m \in Nat /\ m <= k
  <2>1. Stray' \subseteq Workers \ {c}
    BY DEF Stray
  <2>2. IsFiniteSet(Workers \ {c}) /\ Cardinality(Workers \ {c}) = Others
    BY StatsAssumption, FS_RemoveElement DEF Others
  <2> QED
    BY <2>1, <2>2, FS_Subset, FS_CardinalityType
<1>4. hp \in Int /\ hp' \in Int /\ StartHp \in Nat
  BY StartHpIsPositive DEF Typed, TypeOK
<1>5. /\ Worn <=> hp >= StartHp - D * (k - n)
      /\ Worn' <=> hp' >= StartHp - D * (k - m)
  BY DEF Worn
<1>6. CASE hp' = StartHp
  <2> HIDE DEF D, k, m
  <2>1. k - m \in Nat
    BY <1>1, <1>3
  <2>2. D * (k - m) \in Nat
    BY <1>1, <2>1
  <2> QED
    BY <1>4, <1>5, <1>6, <2>2
<1>7. CASE Worn /\ hp' >= hp /\ Stray' = Stray
  <2>1. m = n
    BY <1>7
  <2> HIDE DEF D, k, m, n
  <2>2. D * (k - n) \in Int
    BY <1>1, <1>2
  <2> QED
    BY <1>4, <1>5, <1>7, <2>1, <2>2
<1>8. ASSUME Worn, NEW w \in Stray, Stray' = Stray \ {w}, NEW d \in Damages, hp' = hp - d
      PROVE  Worn'
  <2>1. m = n - 1
    BY <1>2, <1>8, FS_RemoveElement
  <2>2. d \in Nat /\ k # 0
    <3>1. n # 0
      BY <1>2, FS_EmptySet
    <3> QED
      BY <1>1, <1>2, <3>1, StatsAssumption
  <2>3. d <= D
    BY <1>1, <2>2
  <2> HIDE DEF D, k, m, n
  <2>4. k - m = (k - n) + 1 /\ k - n \in Nat
    BY <1>1, <1>2, <2>1
  <2>5. D * (k - m) = D * (k - n) + D /\ D * (k - n) \in Nat
    BY <1>1, <2>4
  <2> QED
    BY <1>1, <1>4, <1>5, <1>8, <2>2, <2>3, <2>5
<1> QED
  BY <1>6, <1>7, <1>8

LEMMA OneRespawnIsKept == Typed /\ OnlyOnce /\ OneRespawn /\ [Next]_vars /\ ~again' => OneRespawn'
<1> SUFFICES ASSUME Typed, OnlyOnce, OneRespawn, [Next]_vars, ~again' PROVE OneRespawn'
  OBVIOUS
<1> USE DEF Typed, TypeOK, growth, world, history, Goto, Return
<1>1. ASSUME NEW w \in Workers, Taking(w) PROVE OneRespawn'
  <2>1. /\ active' = active
        /\ \A u \in Workers : Respawning(u)' => Respawning(u)
    BY <1>1 DEF Respawning, Taking, TakeDamage, TakeHeal, TakeKillEnemy, TakeLogIn, Take
  <2> QED
    BY <2>1 DEF OneRespawn
<1>2. ASSUME NEW w \in Workers, Handler(w) PROVE OneRespawn'
  <2>1. \A u \in Workers \ {w} : Respawning(u)' <=> Respawning(u)
    BY <1>2 DEF Respawning, Handler, Drop, Add, Compare, Clamp, PostHeal, TestDead,
       Claim, ClaimFails, ReadExp, Halve, Restore, Relocate, Activate, LockLevel, Gain, ReadDiff,
       LevelUp, Raise, RaiseMax, Refill, Enter, Load, SetMaxHp, Fill, SetMaxExp
  <2>2. \/ active' = active /\ (Respawning(w)' => Respawning(w))
        \/ active /\ ~active' /\ Respawning(w)'
        \/ Respawning(w) /\ active' /\ ~Respawning(w)'
    BY <1>2, FirstLogin DEF Respawning, Handler, Drop, Add, Compare, Clamp, PostHeal, TestDead,
       Claim, ClaimFails, ReadExp, Halve, Restore, Relocate, Activate, LockLevel, Gain, ReadDiff,
       LevelUp, Raise, RaiseMax, Refill, Enter, Load, SetMaxHp, Fill, SetMaxExp, Updated
  <2> QED
    BY <2>1, <2>2 DEF OneRespawn
<1>3. ASSUME \/ \E d \in Damages : Hit(d)
             \/ Kill
             \/ AskLogIn
             \/ UNCHANGED vars
      PROVE  OneRespawn'
  BY <1>3 DEF Hit, Kill, AskLogIn, vars, OneRespawn, Respawning
<1> QED
  BY <1>1, <1>2, <1>3 DEF Next

LEMMA LivelyIsKept == Typed /\ OnlyOnce /\ Lively /\ [Next]_vars /\ ~again' => Lively'
<1> SUFFICES ASSUME Typed, OnlyOnce, Lively, [Next]_vars, ~again', Survivable
             PROVE  /\ active' /\ hp' <= 0 => \E w \in Workers : Noticing(w)'
                    /\ \A w \in Workers : Restored(w)' => Worn'
  BY OneRespawnIsKept DEF Lively
<1>0. Typed' /\ OneRespawn /\ OneRespawn' /\ maxHp = StartHp /\ StartHp \in Nat \ {0}
  BY FirstLogin, StartHpIsPositive, TypeInvariant, OneRespawnIsKept DEF Lively
<1>1. /\ active /\ hp <= 0 => \E w \in Workers : Noticing(w)
      /\ \A w \in Workers : Restored(w) => Worn
  BY DEF Lively
<1> DEFINE Noticed == active' /\ hp' <= 0 => \E w \in Workers : Noticing(w)'
           Bounded == \A w \in Workers : Restored(w)' => Worn'
<1> USE DEF Typed, TypeOK, Handles, growth, world, history, Goto, Return
<1>2. \A c \in Workers : Restored(c) => pc[c] # "add" /\ ~active
  BY <1>0 DEF Restored, Respawning, OneRespawn
<1>3. \A c \in Workers : Restored(c)' => pc'[c] # "add"
  BY DEF Restored
(* Steps that leave the hit points, and what Worn and Noticing speak of.     *)
<1>4. ASSUME hp' = hp, Stray' = Stray,
             \A c \in Workers : Restored(c)' => Restored(c)
      PROVE  Bounded
  <2> SUFFICES ASSUME NEW c \in Workers, Restored(c)' PROVE Worn'
    OBVIOUS
  <2>1. Worn /\ pc[c] # "add" /\ pc'[c] # "add"
    BY <1>1, <1>2, <1>3, <1>4
  <2>2. hp' >= hp
    BY <1>4
  <2> QED
    BY <1>0, <1>4, <2>1, <2>2, WornHolds
<1>5. ASSUME hp' = StartHp PROVE Noticed
  BY <1>0, <1>5
<1>6. ASSUME hp' = StartHp, \A c \in Workers : Restored(c)' => pc[c] # "add" PROVE Bounded
  BY <1>0, <1>3, <1>6, WornHolds
<1>7. ASSUME NEW w \in Workers, Taking(w) PROVE Noticed /\ Bounded
  <2>1. /\ active' = active /\ hp' = hp /\ pc[w] = "idle"
        /\ \A u \in Workers \ {w} : pc'[u] = pc[u] /\ ev'[u] = ev[u]
        /\ pc'[w] \in {"add", "dropped", "lock"}
        /\ ~active /\ pc'[w] = "add" => ev'[w].type = "EVENT_HEAL"
    BY <1>7, EventTypes DEF Taking, TakeDamage, TakeHeal, TakeKillEnemy, TakeLogIn, Take
  <2>2. Noticed
    BY <1>1, <2>1 DEF Noticing
  <2>3. \A c \in Workers : Restored(c)' => Restored(c)
    BY <2>1 DEF Restored
  <2>4. ~active => Stray' = Stray
    BY <2>1 DEF Stray
  <2> QED
    BY <1>2, <1>4, <2>1, <2>2, <2>3, <2>4
<1>8. ASSUME NEW w \in Workers, Handler(w) PROVE Noticed /\ Bounded
  <2>0. \A u \in Workers \ {w} : pc'[u] = pc[u] /\ ev'[u] = ev[u]
    BY <1>8 DEF Handler, Drop, Add, Compare, Clamp, PostHeal, TestDead,
       Claim, ClaimFails, ReadExp, Halve, Restore, Relocate, Activate, LockLevel, Gain, ReadDiff,
       LevelUp, Raise, RaiseMax, Refill, Enter, Load, SetMaxHp, Fill, SetMaxExp
  <2>1. CASE Add(w)
    <3>1. /\ active' = active /\ pc[w] = "add" /\ pc'[w] = "compare" /\ ev' = ev
          /\ \E diff \in Diffs(w) : hp' = hp + diff
      BY <2>1 DEF Add
    <3>2. ev[w] \in Events /\ ev[w].type \in {"EVENT_GET_DAMAGE", "EVENT_HEAL"}
      BY <3>1
    <3>3. CASE ev[w].type = "EVENT_HEAL"
      <4>1. hp' >= hp /\ hp' \in Int
        BY <3>1, <3>2, <3>3, DiffsAreNumbers
      <4>2. Noticed
        BY <1>1, <2>0, <3>1, <3>3, <4>1 DEF Noticing
      <4>3. Stray' = Stray
        BY <2>0, <3>1, <3>3 DEF Stray
      <4>4. ASSUME NEW c \in Workers, Restored(c)' PROVE Worn'
        <5>1. Restored(c)
          BY <2>0, <3>1, <4>4 DEF Restored
        <5> QED
          BY <1>0, <1>1, <1>2, <1>3, <4>1, <4>3, <4>4, <5>1, WornHolds
      <4> QED
        BY <4>2, <4>4
    <3>4. CASE ev[w].type = "EVENT_GET_DAMAGE"
      <4>1. PICK d \in Damages : ev[w] = GetDamage(d)
        BY <3>2, <3>4, EventTypes DEF Events
      <4>2. hp' = hp - d
        BY <3>1, <3>4, <4>1, EventTypes, StatsAssumption DEF Diffs
      <4>3. Noticed
        BY <3>1, <3>4 DEF Noticing
      <4>4. w \in Stray /\ Stray' = Stray \ {w}
        BY <2>0, <3>1, <3>4 DEF Stray
      <4>5. ASSUME NEW c \in Workers, Restored(c)' PROVE Worn'
        <5>1. Restored(c)
          BY <2>0, <3>1, <4>5 DEF Restored
        <5> QED
          BY <1>0, <1>1, <1>2, <1>3, <4>2, <4>4, <4>5, <5>1, WornHolds
      <4> QED
        BY <4>3, <4>5
    <3> QED
      BY <3>2, <3>3, <3>4
  <2>2. CASE Clamp(w) \/ Refill(w) \/ Restore(w)
    <3>1. hp' = StartHp /\ pc[w] # "add"
      BY <1>0, <2>2 DEF Clamp, Refill, Restore
    <3>2. \A c \in Workers : Restored(c)' => pc[c] # "add"
      BY <1>3, <2>0, <3>1
    <3> QED
      BY <1>5, <1>6, <3>1, <3>2
  <2>3. CASE \/ Drop(w) \/ Compare(w) \/ PostHeal(w) \/ TestDead(w) \/ Claim(w) \/ ClaimFails(w)
             \/ ReadExp(w) \/ Halve(w) \/ Relocate(w) \/ Activate(w)
             \/ LockLevel(w) \/ Gain(w) \/ ReadDiff(w) \/ LevelUp(w) \/ Raise(w) \/ RaiseMax(w)
    <3>1. hp' = hp /\ pc[w] # "add" /\ pc'[w] # "add"
      BY <2>3 DEF Drop, Compare, PostHeal, TestDead, Claim, ClaimFails, ReadExp, Halve,
         Relocate, Activate, LockLevel, Gain, ReadDiff, LevelUp, Raise, RaiseMax, Updated
    <3>2. Stray' = Stray
      BY <2>0, <3>1 DEF Stray
    <3>3. Restored(w)' => Restored(w)
      BY <2>3 DEF Restored, Drop, Compare, PostHeal, TestDead, Claim, ClaimFails, ReadExp, Halve,
         Relocate, Activate, LockLevel, Gain, ReadDiff, LevelUp, Raise, RaiseMax, Updated
    <3>4. \A c \in Workers : Restored(c)' => Restored(c)
      BY <2>0, <3>3 DEF Restored
    <3>5. Bounded
      BY <1>4, <3>1, <3>2, <3>4
    <3>6. CASE active' = active /\ (hp <= 0 /\ active /\ Noticing(w) => Noticing(w)')
      <4>1. ASSUME active', hp' <= 0 PROVE \E u \in Workers : Noticing(u)'
        <5>1. PICK u \in Workers : Noticing(u)
          BY <1>1, <3>1, <3>6, <4>1
        <5>2. u # w => Noticing(u)'
          BY <2>0, <5>1 DEF Noticing
        <5> QED
          BY <3>1, <3>6, <4>1, <5>1, <5>2
      <4> QED
        BY <3>5, <4>1
    <3>7. CASE Claim(w)
      BY <3>5, <3>7 DEF Claim
    <3>8. CASE Activate(w)
      <4>1. Worn /\ pc[w] # "add"
        BY <1>1, <3>8 DEF Activate, Restored
      <4>2. hp > 0
        <5> DEFINE D == MaxStray
                   k == Others
                   n == Cardinality(Stray)
        <5>1. k \in Nat /\ D \in Nat /\ D * k < StartHp /\ n \in Nat /\ n <= k
          BY <4>1, StrayHits, StrayCount
        <5>2. hp >= StartHp - D * (k - n) /\ hp \in Int /\ StartHp \in Nat
          BY <1>0, <4>1 DEF Worn
        <5> HIDE DEF D, k, n
        <5>3. D * (k - n) <= D * k /\ D * (k - n) \in Nat /\ D * k \in Nat
          <6>1. k - n \in Nat /\ k - n <= k
            BY <5>1
          <6> QED
            BY <5>1, <6>1
        <5> QED
          BY <5>1, <5>2, <5>3
      <4> QED
        BY <3>1, <3>5, <4>2
    <3>9. \/ active' = active /\ (hp <= 0 /\ active /\ Noticing(w) => Noticing(w)')
          \/ Claim(w) \/ Activate(w)
      BY <2>3, EventTypes DEF Noticing, Drop, Compare, PostHeal, TestDead, ClaimFails, ReadExp,
         Halve, Relocate, LockLevel, Gain, ReadDiff, LevelUp, Raise, RaiseMax, Updated
    <3> QED
      BY <3>5, <3>6, <3>7, <3>8, <3>9
  <2> QED
    BY <1>8, <2>1, <2>2, <2>3, FirstLogin DEF Handler
<1>9. ASSUME \/ \E d \in Damages : Hit(d)
             \/ Kill
             \/ AskLogIn
             \/ UNCHANGED vars
      PROVE  Noticed /\ Bounded
  <2>1. hp' = hp /\ active' = active /\ pc' = pc /\ ev' = ev
    BY <1>9 DEF Hit, Kill, AskLogIn, vars
  <2>2. Stray' = Stray /\ Noticed
    BY <1>1, <2>1 DEF Stray, Noticing
  <2>3. \A c \in Workers : Restored(c)' => Restored(c)
    BY <2>1 DEF Restored
  <2> QED
    BY <1>4, <2>1, <2>2, <2>3
<1> QED
  BY <1>7, <1>8, <1>9 DEF Next

(* Whatever overlapped, when no worker is busy with the player it is active, *)
(* and unless it has logged in again not above its maximum of hit points,    *)
(* and, if one hit of every other worker cannot use up a life, alive.        *)
THEOREM NobodyStaysDead == Spec => []AliveAtRest
<1> DEFINE Inv == Typed /\ OnlyOnce /\ Attended /\ (~again => Lively)
<1>1. Init => Inv
  <2> SUFFICES ASSUME Init PROVE OnlyOnce /\ Attended /\ Lively
    BY TypedAtFirst
  <2>1. /\ active /\ hp = StartHp /\ maxHp = StartHp /\ StartHp \in Nat \ {0}
        /\ \A w \in Workers : pc[w] = "idle"
    BY StartHpIsPositive DEF Init, StartHp
  <2> QED
    BY <2>1 DEF OnlyOnce, Entering, Attended, Lively, OneRespawn, Respawning, Restored
<1>2. Inv /\ [Next]_vars => Inv'
  BY TypeInvariant, OnlyOnceIsKept, AttendedIsKept, LivelyIsKept, FirstLogin
<1>3. ASSUME Inv PROVE AliveAtRest
  <2>1. AtRest => active
    BY <1>3 DEF AtRest, Attended, Respawning
  <2>2. ASSUME AtRest, ~again PROVE hp <= StartHp /\ hp \in Int
    BY <1>3, <2>2, StartHpIsPositive DEF AtRest, Attended, Clamping, Typed, TypeOK
  <2>3. ASSUME AtRest, ~again, Survivable PROVE hp > 0
    BY <1>3, <2>1, <2>2, <2>3 DEF AtRest, Lively, Noticing
  <2> QED
    BY <2>1, <2>2, <2>3 DEF AliveAtRest
<1> HIDE DEF Inv
<1> QED
  BY <1>1, <1>2, <1>3, PTL DEF Spec

-----------------------------------------------------------------------------
(* What n rewards come to: Rewarded is the function its recursion describes. *)

(* Induction, over a set instead of a predicate. *)
LEMMA LeastNumber ==
  ASSUME NEW A \in SUBSET Nat, A # {}
  PROVE  \E a \in A : \A b \in A : a <= b
<1> PICK n \in A : TRUE
  OBVIOUS
<1> DEFINE Below(a) == 0 .. a
           Sets == {Below(a) : a \in {b \in A : b <= n}}
           R == StrictSubsetOrdering(0 .. n)
<1>1. Sets \subseteq FiniteSubsetsOf(0 .. n) /\ Sets # {}
  <2>1. IsFiniteSet(0 .. n)
    BY FS_Interval
  <2>2. \A a \in A : a <= n => Below(a) \subseteq 0 .. n
    OBVIOUS
  <2>3. n \in {b \in A : b <= n}
    OBVIOUS
  <2> QED
    BY <2>1, <2>2, <2>3, FS_Subset DEF FiniteSubsetsOf
<1>2. PICK S \in Sets : \A U \in Sets : <<U, S>> \notin R
  BY <1>1, FS_StrictSubsetOrderingWellFounded, WFMin
<1>3. PICK a \in A : a <= n /\ S = Below(a)
  OBVIOUS
<1>4. ASSUME NEW b \in A, b < a PROVE FALSE
  <2>1. Below(b) \subseteq Below(a) /\ a \in Below(a) /\ a \notin Below(b)
    BY <1>4
  <2>2. Below(a) \in SUBSET (0 .. n) /\ Below(b) \in SUBSET (0 .. n)
    BY <1>3, <1>4
  <2>3. <<Below(b), Below(a)>> \in R
    BY <2>1, <2>2 DEF StrictSubsetOrdering
  <2>4. Below(b) \in Sets
    BY <1>3, <1>4
  <2> QED
    BY <1>2, <1>3, <2>3, <2>4
<1> QED
  BY <1>4

LEMMA SetInduction ==
  ASSUME NEW A, 0 \in A, \A n \in Nat : n \in A => n + 1 \in A
  PROVE  Nat \subseteq A
<1> SUFFICES ASSUME Nat \ A # {} PROVE FALSE
  OBVIOUS
<1>1. PICK n \in Nat \ A : \A m \in Nat \ A : n <= m
  BY LeastNumber
<1>2. n - 1 \in Nat /\ n - 1 \in A
  BY <1>1
<1> QED
  BY <1>1, <1>2

Growths == [level : Nat \ {0}, exp : Int, maxExp : Nat \ {0}]

LEMMA GrowthType ==
  /\ AtLogin \in Growths
  /\ \A p \in Growths : AfterReward(p) \in Growths
<1>1. StartLevel * StartLevel * ExpPerLevel \in Nat \ {0}
  BY ProductsArePositive, StatsAssumption
<1>2. AtLogin \in Growths
  BY <1>1, StatsAssumption DEF AtLogin, Growth, Growths
<1>3. ASSUME NEW p \in Growths PROVE AfterReward(p) \in Growths
  <2> DEFINE gained == p.exp + Reward
             diff == gained - p.maxExp
             next == p.level + diff \div p.maxExp + 1
  <2>1. /\ p.level \in Nat \ {0} /\ p.exp \in Int /\ p.maxExp \in Nat \ {0}
        /\ gained \in Int /\ diff \in Int
    BY StatsAssumption DEF Growths
  <2>2. CASE diff < 0
    <3>1. AfterReward(p) = Growth(p.level, gained, p.maxExp)
      BY <2>2 DEF AfterReward
    <3> QED
      BY <2>1, <3>1 DEF Growth, Growths
  <2>3. CASE ~(diff < 0)
    <3>1. AfterReward(p) = Growth(next, diff % p.maxExp, next * ExpPerLevel)
      BY <2>3 DEF AfterReward
    <3>2. diff \div p.maxExp \in Nat /\ diff % p.maxExp \in Nat
      <4>1. diff \in Nat
        BY <2>1, <2>3
      <4> HIDE DEF diff
      <4> QED
        BY <2>1, <4>1, Z3
    <3> HIDE DEF diff
    <3>3. next \in Nat \ {0}
      BY <2>1, <3>2
    <3> HIDE DEF next
    <3>4. next * ExpPerLevel \in Nat \ {0}
      BY <3>3, ProductsArePositive, StatsAssumption
    <3> QED
      BY <3>1, <3>2, <3>3, <3>4 DEF Growth, Growths
  <2> QED
    BY <2>2, <2>3
<1> QED
  BY <1>2, <1>3

(* There is a function that Rewarded describes: what n rewards come to, for  *)
(* each n, by the finite tables that say so up to n.                        *)
LEMMA Iterates ==
  \E f \in [Nat -> Growths] :
    f[0] = AtLogin /\ \A n \in Nat : f[n + 1] = AfterReward(f[n])
<1> DEFINE Approximates(g, n) ==
             /\ g \in [0 .. n -> Growths]
             /\ g[0] = AtLogin
             /\ \A i \in 0 .. (n - 1) : g[i + 1] = AfterReward(g[i])
           Good == {n \in Nat : \E g : Approximates(g, n)}
<1>1. Nat \subseteq Good
  <2>1. 0 \in Good
    <3> DEFINE h == [i \in 0 .. 0 |-> AtLogin]
    <3>1. h \in [0 .. 0 -> Growths] /\ h[0] = AtLogin
      BY GrowthType
    <3> HIDE DEF h
    <3>2. Approximates(h, 0)
      BY <3>1
    <3> QED
      BY <3>2
  <2>2. ASSUME NEW n \in Nat, n \in Good PROVE n + 1 \in Good
    <3>1. PICK g : Approximates(g, n)
      BY <2>2
    <3> DEFINE h == [i \in 0 .. (n + 1) |-> IF i = n + 1 THEN AfterReward(g[n]) ELSE g[i]]
    <3>2. h \in [0 .. (n + 1) -> Growths]
      <4>1. g[n] \in Growths /\ AfterReward(g[n]) \in Growths
        BY <3>1, GrowthType
      <4>2. ASSUME NEW i \in 0 .. (n + 1), i # n + 1 PROVE g[i] \in Growths
        BY <3>1, <4>2
      <4> QED
        BY <4>1, <4>2
    <3>3. h[0] = AtLogin
      BY <3>1
    <3>4. ASSUME NEW i \in 0 .. ((n + 1) - 1) PROVE h[i + 1] = AfterReward(h[i])
      BY <3>1
    <3> HIDE DEF h
    <3>5. Approximates(h, n + 1)
      BY <3>2, <3>3, <3>4
    <3> HIDE DEF Approximates
    <3> QED
      BY <3>5
  <2> HIDE DEF Good
  <2> QED
    BY <2>1, <2>2, SetInduction
<1>2. ASSUME NEW m \in Nat, NEW n \in Nat, NEW g, NEW h, Approximates(g, m), Approximates(h, n)
      PROVE  \A i \in Nat : i <= m /\ i <= n => g[i] = h[i]
  <2> DEFINE Same == {i \in Nat : i <= m /\ i <= n => g[i] = h[i]}
  <2>1. 0 \in Same
    BY <1>2
  <2>2. ASSUME NEW i \in Nat, i \in Same PROVE i + 1 \in Same
    <3> SUFFICES ASSUME i + 1 <= m, i + 1 <= n PROVE g[i + 1] = h[i + 1]
      OBVIOUS
    <3>1. g[i] = h[i]
      BY <2>2
    <3>2. i \in 0 .. (m - 1) /\ i \in 0 .. (n - 1)
      OBVIOUS
    <3> QED
      BY <1>2, <3>1, <3>2
  <2> HIDE DEF Same
  <2>3. Nat \subseteq Same
    BY <2>1, <2>2, SetInduction
  <2> QED
    BY <2>3 DEF Same
<1> DEFINE a(n) == CHOOSE g : Approximates(g, n)
           f == [n \in Nat |-> a(n)[n]]
<1>3. \A n \in Nat : Approximates(a(n), n)
  BY <1>1
<1> HIDE DEF a
<1>4. f \in [Nat -> Growths]
  BY <1>3
<1>5. f[0] = AtLogin
  BY <1>3
<1>6. ASSUME NEW n \in Nat PROVE f[n + 1] = AfterReward(f[n])
  <2>1. a(n + 1)[n + 1] = AfterReward(a(n + 1)[n])
    BY <1>3
  <2>2. a(n + 1)[n] = a(n)[n]
    <3>1. /\ Approximates(a(n + 1), n + 1) /\ Approximates(a(n), n)
          /\ n + 1 \in Nat /\ n <= n + 1 /\ n <= n
      BY <1>3
    <3> HIDE DEF Approximates
    <3> QED
      BY <1>2, <3>1
  <2> QED
    BY <2>1, <2>2
<1> QED
  BY <1>4, <1>5, <1>6

LEMMA RewardedIs ==
  /\ Rewarded[0] = AtLogin
  /\ \A n \in Nat : Rewarded[n] \in Growths /\ Rewarded[n + 1] = AfterReward(Rewarded[n])
<1> DEFINE Unfolds(f) == f = [n \in Nat |-> IF n = 0 THEN AtLogin ELSE AfterReward(f[n - 1])]
<1>1. PICK f \in [Nat -> Growths] : f[0] = AtLogin /\ \A n \in Nat : f[n + 1] = AfterReward(f[n])
  BY Iterates
<1>2. Unfolds(f)
  <2>1. ASSUME NEW n \in Nat, n # 0 PROVE f[n] = AfterReward(f[n - 1])
    <3>1. n - 1 \in Nat /\ (n - 1) + 1 = n
      BY <2>1
    <3> QED
      BY <1>1, <3>1
  <2> QED
    BY <1>1, <2>1
<1>3. Rewarded = CHOOSE g : Unfolds(g)
  BY DEF Rewarded
<1> HIDE DEF Unfolds
<1>4. Unfolds(Rewarded)
  BY <1>2, <1>3
<1>5. Rewarded = [n \in Nat |-> IF n = 0 THEN AtLogin ELSE AfterReward(Rewarded[n - 1])]
  BY <1>4 DEF Unfolds
<1>6. Rewarded[0] = AtLogin
  BY <1>5
<1>7. ASSUME NEW n \in Nat PROVE Rewarded[n + 1] = AfterReward(Rewarded[n])
  BY <1>5
<1> DEFINE Good == {n \in Nat : Rewarded[n] \in Growths}
<1>8. Nat \subseteq Good
  <2>1. 0 \in Good
    BY <1>6, GrowthType
  <2>2. ASSUME NEW n \in Nat, n \in Good PROVE n + 1 \in Good
    BY <1>7, <2>2, GrowthType
  <2> HIDE DEF Good
  <2> QED
    BY <2>1, <2>2, SetInduction
<1> QED
  BY <1>6, <1>7, <1>8

-----------------------------------------------------------------------------
(* Rewards.                                                                 *)

Locking == {w \in Workers : pc[w] = "lock"}
Current == Growth(level, exp, maxExp)

(* With n rewards counted in full, what the holder of the lock has come to. *)
Counting(n) ==
  LET p == Rewarded[n]
      gained == Growth(p.level, p.exp + Reward, p.maxExp)
      diff == p.exp + Reward - p.maxExp
      next == p.level + diff \div p.maxExp + 1
  IN /\ levelLock = None => Current = p
     /\ \A w \in Workers :
          /\ pc[w] = "gain" => Current = p /\ reg[w] = exp + Reward
          /\ pc[w] = "diff" => Current = gained
          /\ pc[w] = "levelUp" => Current = gained /\ exp >= maxExp /\ reg[w] = exp - maxExp
          /\ pc[w] = "raise" =>
               /\ Current = Growth(p.level, diff % p.maxExp, p.maxExp)
               /\ diff >= 0 /\ reg[w] = diff
          /\ pc[w] = "raiseMax" =>
               /\ Current = Growth(next, diff % p.maxExp, p.maxExp)
               /\ diff >= 0
          /\ pc[w] = "refill" => Current = Rewarded[n + 1]
InHand == Cardinality(Locking) + (IF levelLock = None THEN 0 ELSE 1)
Counted == \E n \in Nat : kills = pending[KillEnemy] + InHand + n /\ Counting(n)
EveryReward ==
  ~died /\ ~again =>
    /\ \A w \in Workers : pc[w] \notin {"readExp", "halve"}
    /\ Counted

LEMMA LockingIsFinite == IsFiniteSet(Locking) /\ Cardinality(Locking) \in Nat
<1>1. Locking \subseteq Workers
  BY DEF Locking
<1> QED
  BY <1>1, StatsAssumption, FS_Subset, FS_CardinalityType

(* Steps that have nothing to do with rewards. *)
LEMMA RewardsStay ==
  ASSUME Typed, Counted, UNCHANGED <<exp, level, maxExp, levelLock>>,
         kills' - pending'[KillEnemy] = kills - pending[KillEnemy],
         kills' \in Nat, pending'[KillEnemy] \in Nat,
         NEW w \in Workers, \A u \in Workers \ {w} : pc'[u] = pc[u] /\ reg'[u] = reg[u],
         \/ pc'[w] = pc[w] /\ reg'[w] = reg[w]
         \/ pc[w] \notin {"lock"} \union Holding /\ pc'[w] \notin {"lock"} \union Holding
  PROVE  Counted'
<1>1. PICK n \in Nat : kills = pending[KillEnemy] + InHand + n /\ Counting(n)
  BY DEF Counted
<1>2. Locking' = Locking
  BY DEF Locking
<1>3. InHand' = InHand /\ InHand \in Nat
  BY <1>2, LockingIsFinite DEF InHand
<1>4. Counting(n)'
  BY <1>1 DEF Counting, Current, Holding, Growth
<1>5. kills' = pending'[KillEnemy] + InHand' + n
  BY <1>1, <1>3, EventTypes DEF Typed, TypeOK
<1> QED
  BY <1>4, <1>5 DEF Counted

LEMMA RewardsAreCounted == Typed /\ OnlyOnce /\ EveryReward /\ [Next]_vars => EveryReward'
<1> SUFFICES ASSUME Typed, OnlyOnce, EveryReward, [Next]_vars, ~died', ~again' PROVE EveryReward'
  BY DEF EveryReward
<1>0. Typed'
  BY TypeInvariant
<1>1. ~died
  BY <1>0, FirstLogin DEF Next, Taking, TakeDamage, TakeHeal, TakeKillEnemy, Handler, Drop, Add,
     Compare, Clamp, PostHeal, TestDead, Claim, ClaimFails, ReadExp, Halve, Restore, Relocate,
     Activate, LockLevel, Gain, ReadDiff, LevelUp, Raise, RaiseMax, Refill, Hit, Kill, AskLogIn,
     vars, history
<1>2. Counted /\ \A w \in Workers : pc[w] \notin {"readExp", "halve"}
  BY <1>1, FirstLogin DEF EveryReward
<1>3. /\ kills \in Nat /\ pending[KillEnemy] \in Nat
      /\ kills' \in Nat /\ pending'[KillEnemy] \in Nat
  BY <1>0, EventTypes, StatsAssumption DEF Typed, TypeOK
<1>4. IsFiniteSet(Locking) /\ Cardinality(Locking) \in Nat
  BY LockingIsFinite
<1>5. PICK n \in Nat : kills = pending[KillEnemy] + InHand + n /\ Counting(n)
  BY <1>2 DEF Counted
<1>6. \A k \in Nat : Rewarded[k] \in Growths /\ Rewarded[k + 1] = AfterReward(Rewarded[k])
  BY RewardedIs
<1> USE DEF growth, world, history, Goto, Return, Post
<1>7. ASSUME NEW w \in Workers, Taking(w) PROVE EveryReward'
  <2>1. CASE \/ \E d \in Damages : TakeDamage(w, d)
             \/ TakeHeal(w)
    <3>1. /\ pending'[KillEnemy] = pending[KillEnemy] /\ kills' = kills
          /\ pc[w] = "idle" /\ pc'[w] \in {"add", "dropped"}
          /\ \A u \in Workers \ {w} : pc'[u] = pc[u]
          /\ reg' = reg /\ UNCHANGED <<exp, level, maxExp, levelLock>>
      BY <2>1, EventTypes DEF TakeDamage, TakeHeal, Take, Typed, TypeOK
    <3>2. Counted'
      BY <1>2, <1>3, <3>1, RewardsStay DEF Holding
    <3> QED
      BY <1>2, <3>1, <3>2 DEF EveryReward
  <2>2. CASE TakeKillEnemy(w)
    <3>1. /\ pending[KillEnemy] > 0 /\ pending'[KillEnemy] = pending[KillEnemy] - 1
          /\ kills' = kills /\ pc[w] = "idle" /\ pc'[w] = "lock"
          /\ \A u \in Workers \ {w} : pc'[u] = pc[u]
          /\ reg' = reg /\ UNCHANGED <<exp, level, maxExp, levelLock>>
      BY <2>2, EventTypes DEF TakeKillEnemy, Take, Typed, TypeOK
    <3>2. Locking' = Locking \union {w} /\ w \notin Locking
      BY <3>1 DEF Locking
    <3>3. InHand' = InHand + 1 /\ InHand \in Nat
      <4>1. Cardinality(Locking') = Cardinality(Locking) + 1
        BY <1>4, <3>2, FS_AddElement
      <4> QED
        BY <1>4, <3>1, <4>1 DEF InHand
    <3>4. Counting(n)'
      BY <1>5, <3>1 DEF Counting, Current, Growth
    <3>5. Counted'
      BY <1>3, <1>5, <3>1, <3>3, <3>4 DEF Counted
    <3> QED
      BY <1>2, <3>1, <3>5 DEF EveryReward
  <2> QED
    BY <1>7, <2>1, <2>2, FirstLogin DEF Taking
<1>8. ASSUME NEW w \in Workers, Handler(w) PROVE EveryReward'
  <2>0. \A u \in Workers \ {w} : pc'[u] = pc[u] /\ reg'[u] = reg[u]
    BY <1>8 DEF Typed, TypeOK, Handler, Drop, Add, Compare, Clamp, PostHeal, TestDead, Claim,
       ClaimFails, ReadExp, Halve, Restore, Relocate, Activate, LockLevel, Gain, ReadDiff, LevelUp,
       Raise, RaiseMax, Refill, Enter, Load, SetMaxHp, Fill, SetMaxExp
  <2>1. CASE \/ Drop(w) \/ Add(w) \/ Compare(w) \/ Clamp(w) \/ PostHeal(w)
             \/ TestDead(w) \/ ClaimFails(w) \/ Restore(w) \/ Relocate(w) \/ Activate(w)
    <3>1. /\ pending'[KillEnemy] = pending[KillEnemy] /\ kills' = kills
          /\ pc[w] \notin {"lock"} \union Holding
          /\ pc'[w] \notin {"lock", "readExp", "halve"} \union Holding
          /\ UNCHANGED <<exp, level, maxExp, levelLock>>
      BY <2>1, EventTypes DEF Drop, Add, Compare, Clamp, PostHeal, TestDead, ClaimFails,
         Restore, Relocate, Activate, Updated, Holding, Typed, TypeOK
    <3>2. Counted'
      BY <1>2, <1>3, <2>0, <3>1, RewardsStay
    <3> QED
      BY <1>2, <2>0, <3>1, <3>2 DEF EveryReward
  <2>2. CASE Claim(w) \/ ReadExp(w) \/ Halve(w)
    BY <1>2, <2>2 DEF Claim, ReadExp, Halve
  <2>3. ASSUME pc'[w] \notin {"lock", "readExp", "halve"}, kills' = kills, pending' = pending,
               NEW m \in Nat, Counting(m)', InHand' + m = InHand + n
        PROVE  EveryReward'
    <3>1. InHand \in Nat /\ InHand' \in Nat
      <4>1. Locking' \subseteq Workers
        BY DEF Locking
      <4>2. Cardinality(Locking') \in Nat
        BY <4>1, StatsAssumption, FS_Subset, FS_CardinalityType
      <4> QED
        BY <1>4, <4>2 DEF InHand
    <3> DEFINE a == InHand
               b == InHand'
               k == pending[KillEnemy]
    <3>2. kills' = k + b + m
      <4>1. kills' = k + a + n /\ b + m = a + n /\ k \in Nat /\ a \in Nat /\ b \in Nat
        BY <1>3, <1>5, <2>3, <3>1
      <4> HIDE DEF a, b, k
      <4> QED
        BY <4>1
    <3>3. kills' = pending'[KillEnemy] + InHand' + m
      BY <2>3, <3>2
    <3> QED
      BY <1>2, <2>0, <2>3, <3>3 DEF EveryReward, Counted
  <2> DEFINE p == Rewarded[n]
             gained == Growth(p.level, p.exp + Reward, p.maxExp)
             diff == p.exp + Reward - p.maxExp
             next == p.level + diff \div p.maxExp + 1
  <2>4. /\ p \in Growths /\ Rewarded[n + 1] = AfterReward(p)
        /\ p.level \in Nat \ {0} /\ p.exp \in Int /\ p.maxExp \in Nat \ {0} /\ Reward \in Nat
    BY <1>6, StatsAssumption DEF Growths
  <2>5. \A u \in Workers : pc[u] \in Holding <=> levelLock = u
    BY DEF Typed, TypeOK
  <2>6. CASE LockLevel(w)
    <3>1. /\ pc[w] = "lock" /\ pc'[w] = "gain" /\ levelLock = None /\ levelLock' = w
          /\ reg'[w] = exp + Reward /\ kills' = kills /\ pending' = pending
          /\ UNCHANGED <<exp, level, maxExp>>
      <4>1. ev[w].amount = Reward
        BY <2>6, EventTypes DEF LockLevel, Typed, Handles, Events
      <4> QED
        BY <2>6, <4>1 DEF LockLevel, Typed, TypeOK
    <3>2. Locking' = Locking \ {w} /\ w \in Locking
      BY <2>0, <3>1 DEF Locking
    <3>3. InHand' = InHand
      <4>1. Cardinality(Locking') = Cardinality(Locking) - 1
        BY <1>4, <3>2, FS_RemoveElement
      <4>2. levelLock' # None
        BY <3>1, StatsAssumption
      <4> QED
        BY <1>4, <3>1, <4>1, <4>2 DEF InHand
    <3>4. Counting(n)'
      BY <1>5, <2>0, <2>5, <3>1, StatsAssumption DEF Counting, Current, Growth, Holding
    <3> QED
      BY <2>3, <3>1, <3>3, <3>4
  <2>7. CASE Gain(w) \/ ReadDiff(w) \/ LevelUp(w) \/ Raise(w) \/ RaiseMax(w) \/ Refill(w)
    <3>1. /\ levelLock = w /\ w # None
          /\ \A u \in Workers \ {w} : pc[u] \notin Holding /\ pc'[u] \notin Holding
      BY <2>0, <2>5, <2>7, StatsAssumption DEF Gain, ReadDiff, LevelUp, Raise, RaiseMax, Refill,
         Holding
    <3>2. /\ kills' = kills /\ pending' = pending
          /\ Locking' = Locking
      BY <2>0, <2>7 DEF Gain, ReadDiff, LevelUp, Raise, RaiseMax, Refill, Locking, Typed, TypeOK
    <3>3. /\ levelLock' = w => InHand' = InHand
          /\ levelLock' = None => InHand' + 1 = InHand
      BY <1>4, <3>1, <3>2 DEF InHand
    <3>4. CASE Gain(w)
      <4>1. /\ pc[w] = "gain" /\ pc'[w] = "diff" /\ exp' = reg[w] /\ levelLock' = w
            /\ UNCHANGED <<level, maxExp>>
        BY <3>1, <3>4 DEF Gain, Typed, TypeOK
      <4>2. Current = p /\ reg[w] = exp + Reward
        BY <1>5, <4>1 DEF Counting
      <4>3. Current' = gained
        BY <4>1, <4>2 DEF Current, Growth
      <4>4. Counting(n)'
        BY <3>1, <4>1, <4>3 DEF Counting, Holding
      <4> QED
        BY <2>3, <3>2, <3>3, <4>1, <4>4
    <3>5. CASE ReadDiff(w) /\ exp >= maxExp
      <4>1. /\ pc[w] = "diff" /\ pc'[w] = "levelUp" /\ reg'[w] = exp - maxExp /\ levelLock' = w
            /\ UNCHANGED <<exp, level, maxExp>>
        BY <3>1, <3>5 DEF ReadDiff, Typed, TypeOK
      <4>2. Current' = gained
        BY <1>5, <4>1 DEF Counting, Current, Growth
      <4>3. Counting(n)'
        BY <3>1, <3>5, <4>1, <4>2 DEF Counting, Holding
      <4> QED
        BY <2>3, <3>2, <3>3, <4>1, <4>3
    <3>6. CASE ReadDiff(w) /\ ~(exp >= maxExp)
      <4>1. /\ pc[w] = "diff" /\ pc'[w] = "idle" /\ levelLock' = None
            /\ UNCHANGED <<exp, level, maxExp>>
        BY <3>6 DEF ReadDiff, Typed, TypeOK
      <4>2. Current = gained
        BY <1>5, <4>1 DEF Counting
      <4>3. p.exp + Reward - p.maxExp < 0
        BY <2>4, <3>6, <4>2 DEF Current, Growth
      <4>4. Current' = Rewarded[n + 1]
        BY <2>4, <4>1, <4>2, <4>3 DEF AfterReward, Current, Growth
      <4>5. Counting(n + 1)'
        BY <3>1, <4>1, <4>4 DEF Counting, Holding
      <4>6. InHand' + (n + 1) = InHand + n
        BY <1>4, <3>2, <3>3, <4>1, <3>1 DEF InHand
      <4> QED
        BY <2>3, <3>2, <4>1, <4>5, <4>6
    <3>7. CASE LevelUp(w)
      <4>1. /\ pc[w] = "levelUp" /\ pc'[w] = "raise" /\ levelLock' = w
            /\ exp' = reg[w] % maxExp /\ reg' = reg
            /\ UNCHANGED <<level, maxExp>>
        BY <3>1, <3>7 DEF LevelUp, Typed, TypeOK
      <4>2. Current = gained /\ exp >= maxExp /\ reg[w] = exp - maxExp
        BY <1>5, <4>1 DEF Counting
      <4>3. level = p.level /\ exp = p.exp + Reward /\ maxExp = p.maxExp
        BY <4>2 DEF Current, Growth
      <4>4. reg[w] = diff /\ diff >= 0
        BY <2>4, <4>2, <4>3
      <4>5. Current' = Growth(p.level, diff % p.maxExp, p.maxExp)
        BY <4>1, <4>3, <4>4, Zenon DEF Current
      <4>6. Counting(n)'
        BY <3>1, <4>1, <4>4, <4>5 DEF Counting, Holding
      <4> QED
        BY <2>3, <3>2, <3>3, <4>1, <4>6
    <3>8. CASE Raise(w)
      <4>1. /\ pc[w] = "raise" /\ pc'[w] = "raiseMax" /\ levelLock' = w
            /\ level' = level + reg[w] \div maxExp + 1
            /\ UNCHANGED <<exp, maxExp>>
        BY <3>1, <3>8 DEF Raise, Typed, TypeOK
      <4>2. /\ Current = Growth(p.level, diff % p.maxExp, p.maxExp)
            /\ diff >= 0 /\ reg[w] = diff
        BY <1>5, <4>1 DEF Counting
      <4>3. level = p.level /\ exp = diff % p.maxExp /\ maxExp = p.maxExp
        BY <4>2 DEF Current, Growth
      <4>4. level' = next
        BY <4>1, <4>2, <4>3, Zenon
      <4>5. Current' = Growth(next, diff % p.maxExp, p.maxExp)
        BY <4>1, <4>3, <4>4, Zenon DEF Current
      <4>6. Counting(n)'
        BY <3>1, <4>1, <4>2, <4>5 DEF Counting, Holding
      <4> QED
        BY <2>3, <3>2, <3>3, <4>1, <4>6
    <3>9. CASE RaiseMax(w)
      <4>1. /\ pc[w] = "raiseMax" /\ pc'[w] = "refill" /\ levelLock' = w
            /\ maxExp' = level * ExpPerLevel
            /\ UNCHANGED <<exp, level>>
        BY <3>1, <3>9 DEF RaiseMax, Typed, TypeOK
      <4>2. Current = Growth(next, diff % p.maxExp, p.maxExp) /\ diff >= 0
        BY <1>5, <4>1 DEF Counting
      <4>3. level = next /\ exp = diff % p.maxExp
        BY <4>2 DEF Current, Growth
      <4>4. Rewarded[n + 1] = Growth(next, diff % p.maxExp, next * ExpPerLevel)
        BY <2>4, <4>2 DEF AfterReward
      <4>5. Current' = Rewarded[n + 1]
        BY <4>1, <4>3, <4>4, Zenon DEF Current
      <4>6. Counting(n)'
        BY <3>1, <4>1, <4>5 DEF Counting, Holding
      <4> QED
        BY <2>3, <3>2, <3>3, <4>1, <4>6
    <3>10. CASE Refill(w)
      <4>1. /\ pc[w] = "refill" /\ pc'[w] = "idle" /\ levelLock' = None
            /\ UNCHANGED <<exp, level, maxExp>>
        BY <3>10 DEF Refill, Typed, TypeOK
      <4>2. Current' = Rewarded[n + 1]
        BY <1>5, <4>1 DEF Counting, Current, Growth
      <4>3. Counting(n + 1)'
        BY <3>1, <4>1, <4>2 DEF Counting, Holding
      <4>4. InHand' + (n + 1) = InHand + n
        BY <1>4, <3>2, <3>3, <4>1, <3>1 DEF InHand
      <4> QED
        BY <2>3, <3>2, <4>1, <4>3, <4>4
    <3> QED
      BY <2>7, <3>4, <3>5, <3>6, <3>7, <3>8, <3>9, <3>10
  <2> QED
    BY <1>8, <2>1, <2>2, <2>6, <2>7, FirstLogin DEF Handler
<1>9. ASSUME \/ \E d \in Damages : Hit(d)
             \/ Kill
             \/ AskLogIn
             \/ UNCHANGED vars
      PROVE  EveryReward'
  <2>1. /\ kills' - pending'[KillEnemy] = kills - pending[KillEnemy]
        /\ pc' = pc /\ reg' = reg /\ UNCHANGED <<exp, level, maxExp, levelLock>>
    <3>1. CASE \E d \in Damages : Hit(d)
      BY <3>1, EventTypes DEF Hit, Typed, TypeOK
    <3>2. CASE Kill
      BY <1>3, <3>2, EventTypes DEF Kill, Typed, TypeOK
    <3>3. CASE AskLogIn
      BY <3>3, EventTypes DEF AskLogIn, Typed, TypeOK
    <3>4. CASE UNCHANGED vars
      BY <3>4 DEF vars
    <3> QED
      BY <1>9, <3>1, <3>2, <3>3, <3>4
  <2>2. Counted'
    <3>1. CASE Workers = {}
      <4>1. InHand' = InHand /\ Counting(n)'
        BY <1>5, <2>1, <3>1 DEF InHand, Locking, Counting, Current, Growth
      <4>2. InHand \in Nat
        BY <1>4 DEF InHand
      <4> QED
        BY <1>3, <1>5, <2>1, <4>1, <4>2 DEF Counted
    <3>2. CASE Workers # {}
      BY <1>2, <1>3, <2>1, <3>2, RewardsStay
    <3> QED
      BY <3>1, <3>2
  <2> QED
    BY <1>2, <2>1, <2>2 DEF EveryReward
<1> QED
  BY <1>7, <1>8, <1>9 DEF Next

(* Rewards that arrive together count as if they came one by one, until the  *)
(* player dies or logs in again.                                            *)
THEOREM RewardsAreKept == Spec => []NoRewardLost
<1>1. Init => OnlyOnce /\ EveryReward
  <2> SUFFICES ASSUME Init PROVE OnlyOnce /\ EveryReward
    OBVIOUS
  <2>0. OnlyOnce
    BY DEF Init, OnlyOnce, StartHp, Entering
  <2>1. /\ level = StartLevel /\ exp = StartExp /\ maxExp = StartLevel * StartLevel * ExpPerLevel
        /\ levelLock = None /\ kills = 0 /\ \A w \in Workers : pc[w] = "idle"
    BY DEF Init
  <2>2. pending[KillEnemy] = 0
    BY EventTypes DEF Init
  <2>3. Locking = {}
    BY <2>1 DEF Locking
  <2>4. InHand = 0
    BY <2>1, <2>3, FS_EmptySet DEF InHand
  <2>5. Current = Rewarded[0]
    BY <2>1, RewardedIs DEF Current, AtLogin
  <2>6. Counting(0)
    BY <2>1, <2>5 DEF Counting
  <2>7. kills = pending[KillEnemy] + InHand + 0
    BY <2>1, <2>2, <2>4
  <2> QED
    BY <2>0, <2>1, <2>6, <2>7 DEF EveryReward, Counted
<1>2. ASSUME Typed, EveryReward PROVE NoRewardLost
  <2> SUFFICES ASSUME AtRest, ~died, ~again PROVE Current = Rewarded[kills - pending[KillEnemy]]
    BY DEF NoRewardLost, Current
  <2>1. PICK n \in Nat : kills = pending[KillEnemy] + InHand + n /\ Counting(n)
    BY <1>2 DEF EveryReward, Counted
  <2>2. levelLock = None /\ Locking = {}
    BY <1>2 DEF AtRest, Typed, TypeOK, Holding, Locking
  <2>3. InHand = 0
    BY <2>2, FS_EmptySet DEF InHand
  <2>4. kills - pending[KillEnemy] = n
    BY <1>2, <2>1, <2>3, EventTypes, StatsAssumption DEF Typed, TypeOK
  <2> QED
    BY <2>1, <2>2, <2>4 DEF Counting
<1> QED
  BY <1>1, <1>2, TypedAtFirst, TypeInvariant, OnlyOnceIsKept, RewardsAreCounted, PTL DEF Spec

=============================================================================
