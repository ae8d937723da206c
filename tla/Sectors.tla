------------------------------- MODULE Sectors -------------------------------
(***************************************************************************)
(* The sectors of g_sector under concurrent handlers: entities log in,     *)
(* move, respawn and leave, each on the thread that runs its handler, and  *)
(* every move and login searches the sectors around for what it can see.   *)
(* A critical section on one sector lock is one step; update_sector, which *)
(* holds two, takes them one at a time.                                    *)
(***************************************************************************)
EXTENDS SectorGrid

CONSTANTS
  Threads,      (* IOCP workers                                             *)
  Entities,     (* players                                                  *)
  Positions,    (* the positions they use                                   *)
  None          (* no thread, no entity                                     *)

ASSUME SectorsAssumption ==
  /\ Positions \subseteq Grid
  /\ None \notin Threads \union Entities
  /\ MAP_WIDTH = MAP_HEIGHT

VARIABLES
  pos,          (* _x and _y                                                *)
  state,        (* _state                                                   *)
  sectors,      (* _sectors                                                 *)
  lock,         (* _sector_lock: the thread that holds it                   *)
  pc,           (* program counter of each thread                           *)
  ent,          (* the entity it runs a handler of                          *)
  from,         (* old_x and old_y                                          *)
  to,           (* the new position, as update_sector or insert sees it     *)
  todo,         (* sectors it has still to search                           *)
  found,        (* near_list                                                *)
  noticed,      (* what the last search of each entity found                *)
  strayed       (* history: entities with handlers that overlapped, that    *)
                (* moved outside the game or logged in twice                *)

Origin == <<0, 0>>

local == <<pc, ent, from, to, todo, found>>
vars == <<pos, state, sectors, lock, local, noticed, strayed>>

Init ==
  /\ pos = [e \in Entities |-> Origin]
  /\ state = [e \in Entities |-> "ST_ALLOC"]
  /\ sectors = [s \in SectorIds |-> {}]
  /\ lock = [s \in SectorIds |-> None]
  /\ pc = [t \in Threads |-> "idle"]
  /\ ent = [t \in Threads |-> None]
  /\ from = [t \in Threads |-> Origin]
  /\ to = [t \in Threads |-> Origin]
  /\ todo = [t \in Threads |-> {}]
  /\ found = [t \in Threads |-> {}]
  /\ noticed = [e \in Entities |-> {}]
  /\ strayed = {}

Goto(t, label) == pc' = [pc EXCEPT ![t] = label]
Free(s) == lock[s] = None
Busy(e) == \E t \in Threads : pc[t] # "idle" /\ ent[t] = e
Members(e) == {s \in SectorIds : e \in sectors[s]}

(* A handler of e starts on thread t.                                       *)
Begin(t, e, astray) ==
  /\ pc[t] = "idle"
  /\ ent' = [ent EXCEPT ![t] = e]
  /\ strayed' = IF Busy(e) \/ astray THEN strayed \union {e} ELSE strayed

(* The handler is over. *)
End(t) ==
  /\ Goto(t, "idle")
  /\ ent' = [ent EXCEPT ![t] = None]
  /\ from' = [from EXCEPT ![t] = Origin]
  /\ to' = [to EXCEPT ![t] = Origin]
  /\ todo' = [todo EXCEPT ![t] = {}]
  /\ found' = [found EXCEPT ![t] = {}]

(* A search starts around position p; where the move went is forgotten.     *)
Search(t, p) ==
  /\ Goto(t, "search")
  /\ from' = [from EXCEPT ![t] = Origin]
  /\ to' = [to EXCEPT ![t] = Origin]
  /\ todo' = [todo EXCEPT ![t] = Searched(get_sector_idx(p))]
  /\ found' = [found EXCEPT ![t] = {}]

-----------------------------------------------------------------------------
(* do_player_move: a key of the player, or its respawn anywhere.            *)

(* can_move, with the lock of the sector that p is in.                      *)
StartMove(t, e, p) ==
  /\ state[e] # "ST_FREE"
  /\ Begin(t, e, state[e] # "ST_INGAME")
  /\ Free(get_sector_idx(p))
  /\ \A f \in sectors[get_sector_idx(p)] : state[f] = "ST_FREE" \/ pos[f] # p
  /\ from' = [from EXCEPT ![t] = pos[e]]
  /\ to' = [to EXCEPT ![t] = p]
  /\ Goto(t, "write")
  /\ UNCHANGED <<pos, state, sectors, lock, todo, found, noticed>>

WritePosition(t) ==
  /\ pc[t] = "write"
  /\ pos' = [pos EXCEPT ![ent[t]] = to[t]]
  /\ Goto(t, "update")
  /\ UNCHANGED <<state, sectors, lock, ent, from, to, todo, found, noticed, strayed>>

(* Bug: a player that stays in its sector sees nothing new. *)
UpdateSectorOnly(t) ==
  /\ pc[t] = "update"
  /\ LET p == pos[ent[t]]
     IN IF get_sector_idx(from[t]) = get_sector_idx(p)
          THEN End(t)
          ELSE /\ to' = [to EXCEPT ![t] = p]
               /\ Goto(t, "lock1")
               /\ UNCHANGED <<ent, from, todo, found>>
  /\ UNCHANGED <<pos, state, sectors, lock, noticed, strayed>>

(* The arguments of update_sector: the position is read once more.          *)
UpdateSector(t) ==
  /\ pc[t] = "update"
  /\ LET p == pos[ent[t]]
     IN IF get_sector_idx(from[t]) = get_sector_idx(p)
          THEN Search(t, p)
          ELSE /\ to' = [to EXCEPT ![t] = p]
               /\ Goto(t, "lock1")
               /\ UNCHANGED <<from, todo, found>>
  /\ UNCHANGED <<pos, state, sectors, lock, ent, noticed, strayed>>

(* Locks are taken in the order of their addresses.                         *)
Address(s) == s[1] * SECTOR_WIDTH + s[2]
Prev(t) == get_sector_idx(from[t])
Curr(t) == get_sector_idx(to[t])

(* Bug: the sector left is locked first, wherever it lies. *)
PrevFirst(t) == Prev(t)

FirstLock(t) == IF Address(Prev(t)) < Address(Curr(t)) THEN Prev(t) ELSE Curr(t)
SecondLock(t) == IF FirstLock(t) = Prev(t) THEN Curr(t) ELSE Prev(t)

LockFirst(t) ==
  /\ pc[t] = "lock1"
  /\ Free(FirstLock(t))
  /\ lock' = [lock EXCEPT ![FirstLock(t)] = t]
  /\ Goto(t, "lock2")
  /\ UNCHANGED <<pos, state, sectors, ent, from, to, todo, found, noticed, strayed>>

LockSecond(t) ==
  /\ pc[t] = "lock2"
  /\ Free(SecondLock(t))
  /\ lock' = [lock EXCEPT ![SecondLock(t)] = t]
  /\ Goto(t, "swap")
  /\ UNCHANGED <<pos, state, sectors, ent, from, to, todo, found, noticed, strayed>>

(* Bug: the entity stays in the sector it left. *)
SwapInsertOnly(t) ==
  /\ pc[t] = "swap"
  /\ sectors' = [sectors EXCEPT ![Curr(t)] = @ \union {ent[t]}]
  /\ lock' = [lock EXCEPT ![Prev(t)] = None, ![Curr(t)] = None]
  /\ Search(t, to[t])
  /\ UNCHANGED <<pos, state, ent, noticed, strayed>>

Swap(t) ==
  /\ pc[t] = "swap"
  /\ sectors' = [sectors EXCEPT ![Prev(t)] = @ \ {ent[t]},
                                ![Curr(t)] = @ \union {ent[t]}]
  /\ lock' = [lock EXCEPT ![Prev(t)] = None, ![Curr(t)] = None]
  /\ Search(t, to[t])
  /\ UNCHANGED <<pos, state, ent, noticed, strayed>>

-----------------------------------------------------------------------------
(* update_view_list, and the search of login: one sector after the other.   *)

Visible(e, f) == state[f] = "ST_INGAME" /\ can_see(pos[e], pos[f])

SearchSector(t) ==
  /\ pc[t] = "search"
  /\ \E next \in todo[t] :
       /\ \A later \in todo[t] : next[1] <= later[1]
       /\ Free(next[2])
       /\ found' = [found EXCEPT ![t] = @ \union
            {f \in sectors[next[2]] \ {ent[t]} : Visible(ent[t], f)}]
       /\ todo' = [todo EXCEPT ![t] = @ \ {next}]
  /\ UNCHANGED <<pos, state, sectors, lock, pc, ent, from, to, noticed, strayed>>

SearchDone(t) ==
  /\ pc[t] = "search"
  /\ todo[t] = {}
  /\ noticed' = [noticed EXCEPT ![ent[t]] = found[t]]
  /\ End(t)
  /\ UNCHANGED <<pos, state, sectors, lock, strayed>>

-----------------------------------------------------------------------------
(* login, and disconnect.                                                   *)

StartLogin(t, e, p) ==
  /\ state[e] # "ST_FREE"
  /\ Begin(t, e, state[e] = "ST_INGAME")
  /\ state' = [state EXCEPT ![e] = "ST_INGAME"]
  /\ pos' = [pos EXCEPT ![e] = p]
  /\ Goto(t, "insert")
  /\ UNCHANGED <<sectors, lock, from, to, todo, found, noticed>>

Insert(t) ==
  /\ pc[t] = "insert"
  /\ LET p == pos[ent[t]]
     IN /\ Free(get_sector_idx(p))
        /\ sectors' = [sectors EXCEPT ![get_sector_idx(p)] = @ \union {ent[t]}]
        /\ Search(t, p)
  /\ UNCHANGED <<pos, state, lock, ent, noticed, strayed>>

StartLeave(t, e) ==
  /\ state[e] # "ST_FREE"
  /\ Begin(t, e, FALSE)
  /\ from' = [from EXCEPT ![t] = pos[e]]
  /\ Goto(t, "erase")
  /\ UNCHANGED <<pos, state, sectors, lock, to, todo, found, noticed>>

Erase(t) ==
  /\ pc[t] = "erase"
  /\ Free(Prev(t))
  /\ sectors' = [sectors EXCEPT ![Prev(t)] = @ \ {ent[t]}]
  /\ Goto(t, "free")
  /\ UNCHANGED <<pos, state, lock, ent, from, to, todo, found, noticed, strayed>>

ChangeState(t) ==
  /\ pc[t] = "free"
  /\ state' = [state EXCEPT ![ent[t]] = "ST_FREE"]
  /\ End(t)
  /\ UNCHANGED <<pos, sectors, lock, noticed, strayed>>

-----------------------------------------------------------------------------

Moving(t) ==
  \/ \E e \in Entities, p \in Positions : StartMove(t, e, p)
  \/ WritePosition(t)
  \/ UpdateSector(t)
  \/ LockFirst(t)
  \/ LockSecond(t)
  \/ Swap(t)

Searching(t) ==
  \/ SearchSector(t)
  \/ SearchDone(t)

Coming(t) ==
  \/ \E e \in Entities, p \in Positions : StartLogin(t, e, p)
  \/ Insert(t)

Leaving(t) ==
  \/ \E e \in Entities : StartLeave(t, e)
  \/ Erase(t)
  \/ ChangeState(t)

(* Every player has left.                                                   *)
GameOver ==
  /\ \A e \in Entities : state[e] = "ST_FREE"
  /\ \A t \in Threads : pc[t] = "idle"
  /\ UNCHANGED vars

Next ==
  \/ \E t \in Threads : Moving(t) \/ Searching(t) \/ Coming(t) \/ Leaving(t)
  \/ GameOver

Spec == Init /\ [][Next]_vars

-----------------------------------------------------------------------------

Labels ==
  {"idle", "write", "update", "lock1", "lock2", "swap", "search", "insert", "erase", "free"}

(* Every variable has its type, and every position has its sector: the far  *)
(* edge of the map is inside the arrays.                                    *)
TypeOK ==
  /\ pos \in [Entities -> Positions \union {Origin}]
  /\ \A e \in Entities : get_sector_idx(pos[e]) \in SectorIds
  /\ state \in [Entities -> {"ST_FREE", "ST_ALLOC", "ST_INGAME"}]
  /\ sectors \in [SectorIds -> SUBSET Entities]
  /\ lock \in [SectorIds -> Threads \union {None}]
  /\ pc \in [Threads -> Labels]
  /\ ent \in [Threads -> Entities \union {None}]
  /\ from \in [Threads -> Positions \union {Origin}]
  /\ to \in [Threads -> Positions \union {Origin}]
  /\ todo \in [Threads -> SUBSET ((1 .. DIR_CNT) \X SectorIds)]
  /\ found \in [Threads -> SUBSET Entities]
  /\ noticed \in [Entities -> SUBSET Entities]
  /\ strayed \subseteq Entities

(* Between its handlers a player in the game is in the sector of its        *)
(* position and in no other, and one that has left or has not come is in    *)
(* none, although moving takes two writes and two locks. The handlers of a  *)
(* player that overlap can leave it in no sector, or in two.                *)
InOneSector ==
  \A e \in Entities \ strayed :
    ~Busy(e) =>
      Members(e) = IF state[e] = "ST_INGAME" THEN {get_sector_idx(pos[e])} ELSE {}

(* update_sector's "always lock in the same order to avoid a deadlock"      *)
(* (sector.cpp:30): of the threads that hold one lock and want another, one *)
(* wants a lock that none of them holds.                                    *)
Waiting == {t \in Threads : pc[t] = "lock2"}
NoDeadlock ==
  \A W \in (SUBSET Waiting) \ {{}} :
    \E t \in W : \A u \in W : SecondLock(t) # FirstLock(u)

AtRest(e) == state[e] = "ST_INGAME" /\ ~Busy(e) /\ e \notin strayed
InSight(e, f) == e # f /\ AtRest(e) /\ AtRest(f) /\ can_see(pos[e], pos[f])

(* Two players that have come into each other's sight, however their moves  *)
(* and logins overlapped, have not missed each other: one of them at least  *)
(* has found the other in its last search. This rests on each being in its  *)
(* new sector before it searches (session.cpp:337-347, 217-245).            *)
(* Sectors in the first row and column, which no search visits, are out.    *)
SightIsMutual ==
  \A e, f \in Entities :
    /\ InSight(e, f)
    /\ is_valid_sector(get_sector_idx(pos[e]))
    /\ is_valid_sector(get_sector_idx(pos[f]))
    => f \in noticed[e] \/ e \in noticed[f]

=============================================================================
