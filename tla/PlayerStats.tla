----------------------------- MODULE PlayerStats -----------------------------
(***************************************************************************)
(* Hit points, experience and level of one player in the game. Hits, heals *)
(* and rewards are game events; the worker threads handle any number of    *)
(* them at once, and logins of the player, which nothing refuses after the *)
(* first. _hp and _is_active are atomic, _exp and _level plain fields, and *)
(* _level_lock is taken for a reward and in a login but not for a death. A *)
(* step is one access to one of these, or what a login does under the      *)
(* lock. What is on its way to the player, in the timer or in the          *)
(* completion port, is "pending"; levels are small numbers, and a heal     *)
(* restores any of the amounts in Heals.                                   *)
(***************************************************************************)
EXTENDS Integers, FiniteSets

CONSTANTS
  Workers,        (* the worker threads                                     *)
  None,           (* no worker                                              *)
  Damages,        (* what an attack may roll                                *)
  Heals,          (* _level * 5                                             *)
  Reward,         (* what an NPC is worth                                   *)
  StartLevel,     (* _level and _exp of the first login                     *)
  StartExp,
  Levels,         (* what the user a later login names may have             *)
  Exps,
  HpPerLevel,     (* the 100 of _max_hp                                     *)
  ExpPerLevel,    (* the 100 of _max_exp                                    *)
  MaxHits,        (* bound: number of attacks on the player                 *)
  MaxKills,       (* bound: number of NPCs it kills                         *)
  MaxLogins       (* bound: number of logins, with the first                *)

ASSUME StatsAssumption ==
  /\ IsFiniteSet(Workers)
  /\ None \notin Workers
  /\ Damages \subseteq Nat \ {0}
  /\ Heals \subseteq Nat \ {0}
  /\ Reward \in Nat
  /\ Levels \subseteq Nat \ {0} /\ StartLevel \in Levels
  /\ Exps \subseteq Int /\ StartExp \in Exps
  /\ HpPerLevel \in Nat \ {0}
  /\ ExpPerLevel \in Nat \ {0}
  /\ MaxHits \in Nat
  /\ MaxKills \in Nat
  /\ MaxLogins \in Nat \ {0}

VARIABLES
  hp,           (* _hp                                                      *)
  maxHp,        (* _max_hp, which only login sets                           *)
  active,       (* _is_active                                               *)
  exp,          (* _exp                                                     *)
  level,        (* _level                                                   *)
  maxExp,       (* _max_exp                                                 *)
  levelLock,    (* _level_lock                                              *)
  pending,      (* events posted and not yet taken                          *)
  pc,           (* program counter of each worker                           *)
  ev,           (* the event it handles                                     *)
  reg,          (* what it has read of _exp                                 *)
  hits,         (* attacks so far                                           *)
  kills,        (* NPCs killed so far                                       *)
  logins,       (* logins asked for so far                                  *)
  died,         (* history: the player has died                             *)
  again         (* history: it has logged in once more                      *)

growth == <<exp, level, maxExp, levelLock>>
world == <<pending, hits, kills, logins>>
history == <<died, again>>
vars == <<hp, maxHp, active, growth, world, pc, ev, reg, history>>

Event(type, amount) == [type |-> type, amount |-> amount]
GetDamage(d) == Event("EVENT_GET_DAMAGE", d)
Heal == Event("EVENT_HEAL", 0)
KillEnemy == Event("EVENT_KILL_ENEMY", Reward)
LogIn == Event("OP_DB_LOGIN", 0)
NoEvent == Event("none", 0)

Events == {GetDamage(d) : d \in Damages} \union {Heal, KillEnemy, LogIn}

(* The first login is over: the player has all its hit points, and the first *)
(* heal is posted.                                                          *)
Init ==
  /\ hp = StartLevel * HpPerLevel
  /\ maxHp = StartLevel * HpPerLevel
  /\ active = TRUE
  /\ exp = StartExp
  /\ level = StartLevel
  /\ maxExp = StartLevel * StartLevel * ExpPerLevel
  /\ levelLock = None
  /\ pending = [e \in Events |-> IF e = Heal THEN 1 ELSE 0]
  /\ pc = [w \in Workers |-> "idle"]
  /\ ev = [w \in Workers |-> NoEvent]
  /\ reg = [w \in Workers |-> 0]
  /\ hits = 0
  /\ kills = 0
  /\ logins = 1
  /\ died = FALSE
  /\ again = FALSE

Post(e) == pending' = [pending EXCEPT ![e] = @ + 1]
Goto(w, label) == pc' = [pc EXCEPT ![w] = label]

Return(w) ==
  /\ Goto(w, "idle")
  /\ ev' = [ev EXCEPT ![w] = NoEvent]
  /\ reg' = [reg EXCEPT ![w] = 0]

Take(w, e) ==
  /\ pc[w] = "idle"
  /\ pending[e] > 0
  /\ pending' = [pending EXCEPT ![e] = @ - 1]
  /\ ev' = [ev EXCEPT ![w] = e]

-----------------------------------------------------------------------------
(* process_game_event: an event is taken.                                   *)

(* Bug: a player that is dead or respawning is hit like any other. *)
TakeDamageAlways(w, d) ==
  /\ Take(w, GetDamage(d))
  /\ Goto(w, "add")
  /\ UNCHANGED <<hp, maxHp, active, growth, reg, hits, kills, logins, history>>

(* A hit counts if the player is active and its sender still exists.        *)
TakeDamage(w, d) ==
  /\ Take(w, GetDamage(d))
  /\ \/ active /\ Goto(w, "add")
     \/ Goto(w, "dropped")
  /\ UNCHANGED <<hp, maxHp, active, growth, reg, hits, kills, logins, history>>

(* Bug: a player that is respawning is not healed, nor ever again. *)
TakeHealActive(w) ==
  /\ Take(w, Heal)
  /\ Goto(w, IF active THEN "add" ELSE "dropped")
  /\ UNCHANGED <<hp, maxHp, active, growth, reg, hits, kills, logins, history>>

TakeHeal(w) ==
  /\ Take(w, Heal)
  /\ Goto(w, "add")
  /\ UNCHANGED <<hp, maxHp, active, growth, reg, hits, kills, logins, history>>

TakeKillEnemy(w) ==
  /\ Take(w, KillEnemy)
  /\ Goto(w, "lock")
  /\ UNCHANGED <<hp, maxHp, active, growth, reg, hits, kills, logins, history>>

(* C2S_P_LOGIN of a player that is in the game: the answer of the table, or   *)
(* the packet itself for a dummy client, calls login as the first one did.  *)
TakeLogIn(w) ==
  /\ Take(w, LogIn)
  /\ Goto(w, "enter")
  /\ again' = TRUE
  /\ UNCHANGED <<hp, maxHp, active, growth, reg, hits, kills, logins, died>>

Drop(w) ==
  /\ pc[w] = "dropped"
  /\ Return(w)
  /\ UNCHANGED <<hp, maxHp, active, growth, world, history>>

-----------------------------------------------------------------------------
(* update_hp, of a hit or of a heal.                                        *)

Diffs(w) == IF ev[w].type = "EVENT_HEAL" THEN Heals ELSE {-ev[w].amount}

Add(w) ==
  /\ pc[w] = "add"
  /\ \E diff \in Diffs(w) : hp' = hp + diff
  /\ Goto(w, "compare")
  /\ UNCHANGED <<maxHp, active, growth, world, ev, reg, history>>

Updated(w) == IF ev[w].type = "EVENT_HEAL" THEN "repost" ELSE "dead"

(* Bug: nothing keeps the hit points below the maximum. *)
CompareNever(w) ==
  /\ pc[w] = "compare"
  /\ Goto(w, Updated(w))
  /\ UNCHANGED <<hp, maxHp, active, growth, world, ev, reg, history>>

Compare(w) ==
  /\ pc[w] = "compare"
  /\ Goto(w, IF maxHp < hp THEN "clamp" ELSE Updated(w))
  /\ UNCHANGED <<hp, maxHp, active, growth, world, ev, reg, history>>

(* Here and below _max_hp is read and stored in one step: it changes only in  *)
(* another login, after which nothing is claimed of the hit points.        *)
Clamp(w) ==
  /\ pc[w] = "clamp"
  /\ hp' = maxHp
  /\ Goto(w, Updated(w))
  /\ UNCHANGED <<maxHp, active, growth, world, ev, reg, history>>

(* The next heal, after a heal; the first one of a chain, after a login.      *)
PostHeal(w) ==
  /\ pc[w] = "repost"
  /\ Post(Heal)
  /\ Return(w)
  /\ UNCHANGED <<hp, maxHp, active, growth, hits, kills, logins, history>>

-----------------------------------------------------------------------------
(* A hit that kills, and try_respawn.                                       *)

TestDead(w) ==
  /\ pc[w] = "dead"
  /\ IF hp <= 0
       THEN Goto(w, "claim") /\ UNCHANGED <<ev, reg>>
       ELSE Return(w)
  /\ UNCHANGED <<hp, maxHp, active, growth, world, history>>

(* update_active_state_cas: one of the hits that found the player dead goes *)
(* on.                                                                      *)
Claim(w) ==
  /\ pc[w] = "claim"
  /\ active
  /\ active' = FALSE
  /\ died' = TRUE
  /\ Goto(w, "readExp")
  /\ UNCHANGED <<hp, maxHp, growth, world, ev, reg, again>>

ClaimFails(w) ==
  /\ pc[w] = "claim"
  /\ ~active
  /\ Return(w)
  /\ UNCHANGED <<hp, maxHp, active, growth, world, history>>

(* _exp /= 2, without the lock; division is towards zero.                   *)
Halved(e) == IF e < 0 THEN -((-e) \div 2) ELSE e \div 2

ReadExp(w) ==
  /\ pc[w] = "readExp"
  /\ reg' = [reg EXCEPT ![w] = Halved(exp)]
  /\ Goto(w, "halve")
  /\ UNCHANGED <<hp, maxHp, active, growth, world, ev, history>>

Halve(w) ==
  /\ pc[w] = "halve"
  /\ exp' = reg[w]
  /\ Goto(w, "restore")
  /\ UNCHANGED <<hp, maxHp, active, level, maxExp, levelLock, world, ev, reg, history>>

Restore(w) ==
  /\ pc[w] = "restore"
  /\ hp' = maxHp
  /\ Goto(w, "relocate")
  /\ UNCHANGED <<maxHp, active, growth, world, ev, reg, history>>

(* Bug: a respawn on a cell that is taken is given up. *)
RelocateOrGiveUp(w) ==
  /\ pc[w] = "relocate"
  /\ \/ Goto(w, "activate") /\ UNCHANGED <<ev, reg>>
     \/ Return(w)
  /\ UNCHANGED <<hp, maxHp, active, growth, world, history>>

(* do_player_move, which moves the player or not (see Sectors).             *)
Relocate(w) ==
  /\ pc[w] = "relocate"
  /\ Goto(w, "activate")
  /\ UNCHANGED <<hp, maxHp, active, growth, world, ev, reg, history>>

Activate(w) ==
  /\ pc[w] = "activate"
  /\ active' = TRUE
  /\ Return(w)
  /\ UNCHANGED <<hp, maxHp, growth, world, history>>

-----------------------------------------------------------------------------
(* process_kill_enemy_event.                                                *)

(* Bug: rewards are added without the lock. *)
LockLevelNever(w) ==
  /\ pc[w] = "lock"
  /\ reg' = [reg EXCEPT ![w] = exp + ev[w].amount]
  /\ Goto(w, "gain")
  /\ UNCHANGED <<hp, maxHp, active, growth, world, ev, history>>

LockLevel(w) ==
  /\ pc[w] = "lock"
  /\ levelLock = None
  /\ levelLock' = w
  /\ reg' = [reg EXCEPT ![w] = exp + ev[w].amount]
  /\ Goto(w, "gain")
  /\ UNCHANGED <<hp, maxHp, active, exp, level, maxExp, world, ev, history>>

Gain(w) ==
  /\ pc[w] = "gain"
  /\ exp' = reg[w]
  /\ Goto(w, "diff")
  /\ UNCHANGED <<hp, maxHp, active, level, maxExp, levelLock, world, ev, reg, history>>

(* Bug: a reward that is not enough for a level keeps the lock. *)
ReadDiffKeepsLock(w) ==
  /\ pc[w] = "diff"
  /\ IF exp >= maxExp
       THEN /\ reg' = [reg EXCEPT ![w] = exp - maxExp]
            /\ Goto(w, "levelUp")
            /\ UNCHANGED ev
       ELSE Return(w)
  /\ UNCHANGED <<hp, maxHp, active, growth, world, history>>

(* diff_exp. *)
ReadDiff(w) ==
  /\ pc[w] = "diff"
  /\ IF exp >= maxExp
       THEN /\ reg' = [reg EXCEPT ![w] = exp - maxExp]
            /\ Goto(w, "levelUp")
            /\ UNCHANGED <<ev, levelLock>>
       ELSE /\ levelLock' = None
            /\ Return(w)
  /\ UNCHANGED <<hp, maxHp, active, exp, level, maxExp, world, history>>

LevelUp(w) ==
  /\ pc[w] = "levelUp"
  /\ exp' = reg[w] % maxExp
  /\ Goto(w, "raise")
  /\ UNCHANGED <<hp, maxHp, active, level, maxExp, levelLock, world, ev, reg, history>>

Raise(w) ==
  /\ pc[w] = "raise"
  /\ level' = level + reg[w] \div maxExp + 1
  /\ Goto(w, "raiseMax")
  /\ UNCHANGED <<hp, maxHp, active, exp, maxExp, levelLock, world, ev, reg, history>>

RaiseMax(w) ==
  /\ pc[w] = "raiseMax"
  /\ maxExp' = level * ExpPerLevel
  /\ Goto(w, "refill")
  /\ UNCHANGED <<hp, maxHp, active, exp, level, levelLock, world, ev, reg, history>>

Refill(w) ==
  /\ pc[w] = "refill"
  /\ hp' = maxHp
  /\ levelLock' = None
  /\ Return(w)
  /\ UNCHANGED <<maxHp, active, exp, level, maxExp, world, history>>

-----------------------------------------------------------------------------
(* Another login, with whatever the table has of the user it names.           *)

Enter(w) ==
  /\ pc[w] = "enter"
  /\ active' = TRUE
  /\ Goto(w, "load")
  /\ UNCHANGED <<hp, maxHp, growth, world, ev, reg, history>>

Load(w) ==
  /\ pc[w] = "load"
  /\ levelLock = None
  /\ exp' \in Exps
  /\ level' \in Levels
  /\ Goto(w, "setMaxHp")
  /\ UNCHANGED <<hp, maxHp, active, maxExp, levelLock, world, ev, reg, history>>

SetMaxHp(w) ==
  /\ pc[w] = "setMaxHp"
  /\ maxHp' = level * HpPerLevel
  /\ Goto(w, "fill")
  /\ UNCHANGED <<hp, active, growth, world, ev, reg, history>>

Fill(w) ==
  /\ pc[w] = "fill"
  /\ hp' = maxHp
  /\ Goto(w, "setMaxExp")
  /\ UNCHANGED <<maxHp, active, growth, world, ev, reg, history>>

SetMaxExp(w) ==
  /\ pc[w] = "setMaxExp"
  /\ maxExp' = level * level * ExpPerLevel
  /\ Goto(w, "repost")
  /\ UNCHANGED <<hp, maxHp, active, exp, level, levelLock, world, ev, reg, history>>

-----------------------------------------------------------------------------
(* What others post. An attacker has found the player active, which may     *)
(* have changed since.                                                      *)

Hit(d) ==
  /\ hits < MaxHits
  /\ hits' = hits + 1
  /\ Post(GetDamage(d))
  /\ UNCHANGED <<hp, maxHp, active, growth, pc, ev, reg, kills, logins, history>>

Kill ==
  /\ kills < MaxKills
  /\ kills' = kills + 1
  /\ Post(KillEnemy)
  /\ UNCHANGED <<hp, maxHp, active, growth, pc, ev, reg, hits, logins, history>>

AskLogIn ==
  /\ logins < MaxLogins
  /\ logins' = logins + 1
  /\ Post(LogIn)
  /\ UNCHANGED <<hp, maxHp, active, growth, pc, ev, reg, hits, kills, history>>

-----------------------------------------------------------------------------

Taking(w) ==
  \/ \E d \in Damages : TakeDamage(w, d)
  \/ TakeHeal(w)
  \/ TakeKillEnemy(w)
  \/ TakeLogIn(w)

Handler(w) ==
  \/ Drop(w) \/ Add(w) \/ Compare(w) \/ Clamp(w) \/ PostHeal(w)
  \/ TestDead(w) \/ Claim(w) \/ ClaimFails(w)
  \/ ReadExp(w) \/ Halve(w) \/ Restore(w) \/ Relocate(w) \/ Activate(w)
  \/ LockLevel(w) \/ Gain(w) \/ ReadDiff(w) \/ LevelUp(w) \/ Raise(w) \/ RaiseMax(w) \/ Refill(w)
  \/ Enter(w) \/ Load(w) \/ SetMaxHp(w) \/ Fill(w) \/ SetMaxExp(w)

Next ==
  \/ \E w \in Workers : Taking(w) \/ Handler(w)
  \/ \E d \in Damages : Hit(d)
  \/ Kill
  \/ AskLogIn

(* A handler that has started runs on. *)
Fairness == \A w \in Workers : WF_vars(Handler(w))

Spec == Init /\ [][Next]_vars /\ Fairness

-----------------------------------------------------------------------------

Holding == {"gain", "diff", "levelUp", "raise", "raiseMax", "refill"}
Entering == {"enter", "load", "setMaxHp", "fill", "setMaxExp"}
Labels ==
  {"idle", "dropped", "add", "compare", "clamp", "repost", "dead", "claim", "readExp",
   "halve", "restore", "relocate", "activate", "lock"} \union Holding \union Entering

(* Every variable has its type, and the level lock is held by the worker    *)
(* between lock and unlock and by no other.                                 *)
TypeOK ==
  /\ hp \in Int
  /\ maxHp \in Nat \ {0}
  /\ active \in BOOLEAN
  /\ exp \in Int
  /\ level \in Nat \ {0}
  /\ maxExp \in Nat \ {0}
  /\ levelLock \in Workers \union {None}
  /\ \A w \in Workers : pc[w] \in Holding <=> levelLock = w
  /\ pending \in [Events -> Nat]
  /\ pc \in [Workers -> Labels]
  /\ ev \in [Workers -> Events \union {NoEvent}]
  /\ reg \in [Workers -> Int]
  /\ hits \in 0 .. MaxHits
  /\ kills \in 0 .. MaxKills
  /\ logins \in 1 .. MaxLogins
  /\ died \in BOOLEAN /\ again \in BOOLEAN

AtRest == \A w \in Workers : pc[w] = "idle"

(* A worker that tested _is_active before the player died may hit it once   *)
(* more after its hit points have been restored; all of them together do    *)
(* not kill it again.                                                       *)
StartHp == StartLevel * HpPerLevel
Survivable == \A d \in Damages : (Cardinality(Workers) - 1) * d < StartHp

(* However hits, heals, respawns and logins overlap, when the dust settles   *)
(* the player is active. And unless it has logged in twice, it is alive: its *)
(* hit points are not above the maximum, although update_hp clamps them in a *)
(* step of its own, and (if stray hits cannot use up a whole life) not used  *)
(* up, although a hit that finds it dead and already claimed does nothing.   *)
AliveAtRest ==
  AtRest => active /\ (~again => hp <= StartHp /\ (Survivable => hp > 0))

(* "Players recover ... every 5 seconds" (the design document, chapter 3):   *)
(* a login posts a heal, and a heal the next one when it is handled. So each *)
(* login there has been, or is yet to be handled, has its own chain of heals *)
(* and no chain ends or splits, whatever else happens to the player; one     *)
(* that logs in twice recovers twice as fast (process_packet, login).        *)
Healing == {w \in Workers : ev[w].type \in {"EVENT_HEAL", "OP_DB_LOGIN"}}
OneHealPerLogin == pending[Heal] + pending[LogIn] + Cardinality(Healing) = logins

(* What the level of a player is after login, after one more reward, and     *)
(* after n rewards that come one after the other.                           *)
Growth(l, e, m) == [level |-> l, exp |-> e, maxExp |-> m]
AtLogin == Growth(StartLevel, StartExp, StartLevel * StartLevel * ExpPerLevel)
AfterReward(p) ==
  LET gained == p.exp + Reward
      diff == gained - p.maxExp
      next == p.level + diff \div p.maxExp + 1
  IN IF diff < 0
       THEN Growth(p.level, gained, p.maxExp)
       ELSE Growth(next, diff % p.maxExp, next * ExpPerLevel)
Rewarded[n \in Nat] == IF n = 0 THEN AtLogin ELSE AfterReward(Rewarded[n - 1])

(* Rewards that arrive together count as if they came one by one, under      *)
(* _level_lock. A death, which halves _exp without it, may cost a reward, and *)
(* another login replaces what has been gained.                             *)
NoRewardLost ==
  AtRest /\ ~died /\ ~again =>
    Growth(level, exp, maxExp) = Rewarded[kills - pending[KillEnemy]]

(* A player that dies comes back.                                           *)
DeadComesBack == ~active ~> active

=============================================================================
