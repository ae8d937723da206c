----------------------------- MODULE Visibility ------------------------------
(***************************************************************************)
(* What a client has been told of the entities around its player: the view *)
(* list of each session, the enter, move and leave packets that logins,    *)
(* moves and departures send, and the table of objects the client keeps    *)
(* from them. Positions lie on a line and in one sector (see Sectors for   *)
(* the search over several). A critical section is one step, but for       *)
(* login, which holds the sector's lock while it sends; so is the call     *)
(* that hands a packet to the socket, after which it arrives in order.     *)
(***************************************************************************)
EXTENDS Integers

CONSTANTS
  Threads,      (* IOCP workers                                             *)
  Players,      (* ids of players                                           *)
  Npcs,         (* ids of NPCs                                              *)
  Spots,        (* the positions they use                                   *)
  VIEW_RANGE,
  None,         (* no thread, no entity                                     *)
  MaxMoves      (* bound: number of moves, and of hits NPCs take            *)

Entities == Players \union Npcs

ASSUME VisibilityAssumption ==
  /\ None \notin Threads \union Entities
  /\ Players \intersect Npcs = {}
  /\ Spots \subseteq Int
  /\ Spots # {}
  /\ VIEW_RANGE \in Nat
  /\ MaxMoves \in Nat

VARIABLES
  at,           (* _x and _y                                                *)
  state,        (* _state                                                   *)
  published,    (* entities whose entry of _sessions is not null            *)
  sector,       (* the set of the sector                                    *)
  lock,         (* its lock: the thread in login that holds it              *)
  viewList,     (* _view_list                                               *)
  objects,      (* the client's players: not there, made by a packet that   *)
                (* is no ENTER, or there                                    *)
  pc,           (* program counter of each thread                           *)
  ent,          (* the entity it runs a handler of                          *)
  to,           (* where an NPC moves                                       *)
  old,          (* old_vlist, old_vl                                        *)
  near,         (* near_list, new_vl                                        *)
  todo,         (* what the loop has still to visit                         *)
  peer,         (* what it visits                                           *)
  mail,         (* the packet that is about to be sent                      *)
  moves,        (* number of moves so far                                   *)
  found,        (* history: the players each one found in its last search  *)
  raced,        (* history: entities whose handlers have overlapped         *)
  killed,       (* history: NPCs that have been killed                      *)
  parted        (* history: <<p, q>> such that p was sent a leave of q      *)

world == <<at, state, published, sector, lock>>
local == <<ent, to, old, near, todo, peer>>
history == <<moves, found, raced, killed, parted>>
vars == <<world, viewList, objects, pc, local, mail, history>>

Packet(receiver, kind, subject, next) ==
  [receiver |-> receiver, kind |-> kind, subject |-> subject, next |-> next]
Nowhere == CHOOSE s \in Spots : TRUE
NoMail == Packet(None, "none", None, "idle")

Init ==
  /\ at \in [Entities -> Spots]
  /\ \A p \in Players : at[p] = Nowhere
  /\ state = [e \in Entities |-> IF e \in Npcs THEN "ST_INGAME" ELSE "ST_ALLOC"]
  /\ published = Entities
  /\ sector = Npcs
  /\ lock = None
  /\ viewList = [p \in Players |-> {}]
  /\ objects = [p \in Players |-> [e \in Entities |-> "none"]]
  /\ pc = [t \in Threads |-> "idle"]
  /\ ent = [t \in Threads |-> None]
  /\ to = [t \in Threads |-> Nowhere]
  /\ old = [t \in Threads |-> {}]
  /\ near = [t \in Threads |-> {}]
  /\ todo = [t \in Threads |-> {}]
  /\ peer = [t \in Threads |-> None]
  /\ mail = [t \in Threads |-> NoMail]
  /\ moves = 0
  /\ found = [p \in Players |-> {}]
  /\ raced = {}
  /\ killed = {}
  /\ parted = {}

can_see(e, f) == at[e] - at[f] \in -VIEW_RANGE .. VIEW_RANGE

(* can_move: nobody stands there.                                           *)
can_move(s) == lock = None /\ \A e \in sector \intersect published : at[e] # s

(* update_view_list and insert_player_view_list. *)
Around(e) == {f \in (sector \intersect published) \ {e} :
                state[f] = "ST_INGAME" /\ can_see(e, f)}

Goto(t, label) == pc' = [pc EXCEPT ![t] = label]

(* Entities whose handler e starts in the middle of: its own, and those of  *)
(* an NPC and a player.                                                     *)
Overlapping(e) ==
  {f \in {ent[t] : t \in {u \in Threads : pc[u] # "idle"}} :
     f = e \/ {e, f} \intersect Npcs # {}}

Begin(t, e) ==
  /\ pc[t] = "idle"
  /\ ent' = [ent EXCEPT ![t] = e]
  /\ raced' = raced \union {{e, f} : f \in Overlapping(e)}

Return(t) ==
  /\ Goto(t, "idle")
  /\ ent' = [ent EXCEPT ![t] = None]
  /\ to' = [to EXCEPT ![t] = Nowhere]
  /\ old' = [old EXCEPT ![t] = {}]
  /\ near' = [near EXCEPT ![t] = {}]
  /\ todo' = [todo EXCEPT ![t] = {}]
  /\ peer' = [peer EXCEPT ![t] = None]

(* The loop goes on with f. *)
Visit(t, f) ==
  /\ f \in todo[t]
  /\ todo' = [todo EXCEPT ![t] = @ \ {f}]

(* Bug: what is still in sight is taken off with the rest. *)
NextLoopAll(t) ==
  /\ todo[t] = {}
  /\ todo' = [todo EXCEPT ![t] = old[t]]
  /\ old' = [old EXCEPT ![t] = {}]
  /\ near' = [near EXCEPT ![t] = {}]

(* With everything visited, the next loop is over what has left the sight.  *)
NextLoop(t) ==
  /\ todo[t] = {}
  /\ todo' = [todo EXCEPT ![t] = old[t] \ near[t]]
  /\ old' = [old EXCEPT ![t] = {}]
  /\ near' = [near EXCEPT ![t] = {}]

-----------------------------------------------------------------------------
(* Packets.                                                                 *)

Mail(t, p, kind, e, next) ==
  /\ mail' = [mail EXCEPT ![t] = Packet(p, kind, e, next)]
  /\ Goto(t, "send")

(* send_enter_packet(e) of p's session: if e exists, it is listed first,    *)
(* and then sent.                                                           *)
send_enter_packet(t, p, e, next) ==
  /\ IF e \in published
       THEN /\ viewList' = [viewList EXCEPT ![p] = @ \union {e}]
            /\ Mail(t, p, "S2C_P_ENTER", e, next)
       ELSE Goto(t, next) /\ UNCHANGED <<viewList, mail>>
  /\ UNCHANGED parted

(* send_move_packet(e), likewise without the list.                          *)
send_move_packet(t, p, e, next) ==
  IF e \in published
    THEN Mail(t, p, "S2C_P_MOVE", e, next)
    ELSE Goto(t, next) /\ UNCHANGED mail

(* send_leave_packet(e) of p's session: only for what is listed.            *)
send_leave_packet(t, p, e, next) ==
  IF e \in viewList[p]
    THEN /\ viewList' = [viewList EXCEPT ![p] = @ \ {e}]
         /\ parted' = parted \union ({<<p, e>>} \intersect (Players \X Players))
         /\ Mail(t, p, "S2C_P_LEAVE", e, next)
    ELSE /\ Goto(t, next)
         /\ UNCHANGED <<viewList, parted, mail>>

(* send_stat_change_packet(e), whatever is listed.                          *)
send_stat_change_packet(t, p, e, next) ==
  IF e \in published
    THEN Mail(t, p, "S2C_P_STAT_CHANGE", e, next)
    ELSE Goto(t, next) /\ UNCHANGED mail

(* do_send, and process_packet of the client that receives it: a move of an *)
(* object it does not have, or news of its hit points, make an empty one.   *)
Touched(was) == IF was = "none" THEN "empty" ELSE was
Shown(was, kind) ==
  CASE kind = "S2C_P_ENTER"                         -> "shown"
    [] kind = "S2C_P_LEAVE"                         -> "none"
    [] kind \in {"S2C_P_MOVE", "S2C_P_STAT_CHANGE"} -> Touched(was)

do_send(t) ==
  /\ pc[t] = "send"
  /\ LET m == mail[t]
     IN /\ objects' = [objects EXCEPT ![m.receiver][m.subject] = Shown(@, m.kind)]
        /\ Goto(t, m.next)
  /\ mail' = [mail EXCEPT ![t] = NoMail]
  /\ UNCHANGED <<world, viewList, local, history>>

-----------------------------------------------------------------------------
(* do_player_move.                                                          *)

(* The cell is tested and taken; Sectors looks at what is between the two.  *)
StartMove(t, p, s) ==
  /\ moves < MaxMoves
  /\ state[p] # "ST_ALLOC" /\ p \in published
  /\ can_move(s)
  /\ Begin(t, p)
  /\ moves' = moves + 1
  /\ at' = [at EXCEPT ![p] = s]
  /\ Goto(t, "copy")
  /\ UNCHANGED <<state, published, sector, lock, viewList, objects, to, old, near, todo,
                 peer, mail, found, killed, parted>>

CopyViewList(t) ==
  /\ pc[t] = "copy"
  /\ old' = [old EXCEPT ![t] = viewList[ent[t]]]
  /\ Goto(t, "look")
  /\ UNCHANGED <<world, viewList, objects, ent, to, near, todo, peer, mail, history>>

Look(t) ==
  /\ pc[t] = "look"
  /\ lock = None
  /\ near' = [near EXCEPT ![t] = Around(ent[t])]
  /\ todo' = [todo EXCEPT ![t] = Around(ent[t])]
  /\ found' = [found EXCEPT ![ent[t]] = Around(ent[t]) \intersect Players]
  /\ Goto(t, "greet")
  /\ UNCHANGED <<world, viewList, objects, ent, to, old, peer, mail, moves, raced, killed, parted>>

(* Bug: the other client is sent a move, whatever it has on its list. *)
GreetUntested(t, f) ==
  /\ pc[t] = "greet"
  /\ Visit(t, f)
  /\ peer' = [peer EXCEPT ![t] = f]
  /\ IF f \in Players /\ f \in published
       THEN send_move_packet(t, f, ent[t], "greetBack")
       ELSE Goto(t, IF f \in published THEN "greetBack" ELSE "greet") /\ UNCHANGED mail
  /\ UNCHANGED <<world, viewList, objects, ent, to, old, near, history>>

(* A player that has the mover on its list is sent a move, another one an   *)
(* enter; an NPC is woken.                                                  *)
Greet(t, f) ==
  /\ pc[t] = "greet"
  /\ Visit(t, f)
  /\ peer' = [peer EXCEPT ![t] = f]
  /\ IF f \in Players /\ f \in published /\ ent[t] \in viewList[f]
       THEN send_move_packet(t, f, ent[t], "greetBack")
       ELSE /\ Goto(t, IF f \notin published THEN "greet"
                       ELSE IF f \in Players THEN "enter" ELSE "greetBack")
            /\ UNCHANGED mail
  /\ UNCHANGED <<world, viewList, objects, ent, to, old, near, history>>

EnterPeer(t) ==
  /\ pc[t] = "enter"
  /\ send_enter_packet(t, peer[t], ent[t], "greetBack")
  /\ UNCHANGED <<world, objects, local, moves, found, raced, killed>>

GreetBack(t) ==
  /\ pc[t] = "greetBack"
  /\ IF peer[t] \notin old[t]
       THEN send_enter_packet(t, ent[t], peer[t], "greet")
       ELSE Goto(t, "greet") /\ UNCHANGED <<viewList, mail, parted>>
  /\ peer' = [peer EXCEPT ![t] = None]
  /\ UNCHANGED <<world, objects, ent, to, old, near, todo, moves, found, raced, killed>>

AllGreeted(t) ==
  /\ pc[t] = "greet"
  /\ NextLoop(t)
  /\ Goto(t, "part")
  /\ UNCHANGED <<world, viewList, objects, ent, to, peer, mail, history>>

(* What is out of sight is taken off the list, if it still exists. The      *)
(* other player is not told.                                                *)
Part(t, f) ==
  /\ pc[t] = "part"
  /\ Visit(t, f)
  /\ IF f \in published
       THEN send_leave_packet(t, ent[t], f, "part")
       ELSE Goto(t, "part") /\ UNCHANGED <<viewList, mail, parted>>
  /\ UNCHANGED <<world, objects, ent, to, old, near, peer, moves, found, raced, killed>>

AllVisited(t) ==
  /\ pc[t] \in {"part", "npcPart", "npcHit"}
  /\ todo[t] = {}
  /\ Return(t)
  /\ UNCHANGED <<world, viewList, objects, mail, history>>

-----------------------------------------------------------------------------
(* login.                                                                   *)

StartLogin(t, p, s) ==
  /\ state[p] = "ST_ALLOC" /\ p \in published
  /\ Begin(t, p)
  /\ state' = [state EXCEPT ![p] = "ST_INGAME"]
  /\ at' = [at EXCEPT ![p] = s]
  /\ Goto(t, "insert")
  /\ UNCHANGED <<published, sector, lock, viewList, objects, to, old, near, todo, peer,
                 mail, moves, found, killed, parted>>

Insert(t) ==
  /\ pc[t] = "insert"
  /\ lock = None
  /\ sector' = sector \union {ent[t]}
  /\ Goto(t, "lock")
  /\ UNCHANGED <<at, state, published, lock, viewList, objects, local, mail, history>>

LockSector(t) ==
  /\ pc[t] = "lock"
  /\ lock = None
  /\ lock' = t
  /\ todo' = [todo EXCEPT ![t] = sector \ {ent[t]}]
  /\ Goto(t, "meet")
  /\ UNCHANGED <<at, state, published, sector, viewList, objects, ent, to, old, near, peer,
                 mail, history>>

(* What is in sight is listed; a player that is met so is not told.         *)
Meet(t, f) ==
  /\ pc[t] = "meet"
  /\ Visit(t, f)
  /\ IF f \in Around(ent[t])
       THEN /\ found' = [found EXCEPT ![ent[t]] = @ \union ({f} \intersect Players)]
            /\ send_enter_packet(t, ent[t], f, "meet")
       ELSE Goto(t, "meet") /\ UNCHANGED <<viewList, mail, found, parted>>
  /\ UNCHANGED <<world, objects, ent, to, old, near, peer, moves, raced, killed>>

(* Bug: the lock outlives the search. *)
UnlockSectorNever(t) ==
  /\ pc[t] = "meet"
  /\ todo[t] = {}
  /\ Return(t)
  /\ UNCHANGED <<world, viewList, objects, mail, history>>

UnlockSector(t) ==
  /\ pc[t] = "meet"
  /\ todo[t] = {}
  /\ lock' = None
  /\ Return(t)
  /\ UNCHANGED <<at, state, published, sector, viewList, objects, mail, history>>

-----------------------------------------------------------------------------
(* disconnect.                                                              *)

StartLeave(t, p) ==
  /\ p \in published
  /\ Begin(t, p)
  /\ Goto(t, "erase")
  /\ UNCHANGED <<world, viewList, objects, to, old, near, todo, peer, mail, moves, found,
                 killed, parted>>

Erase(t) ==
  /\ pc[t] = "erase"
  /\ lock = None
  /\ sector' = sector \ {ent[t]}
  /\ Goto(t, "copyToTell")
  /\ UNCHANGED <<at, state, published, lock, viewList, objects, local, mail, history>>

CopyToTell(t) ==
  /\ pc[t] = "copyToTell"
  /\ todo' = [todo EXCEPT ![t] = (viewList[ent[t]] \intersect Players) \ {ent[t]}]
  /\ Goto(t, "tell")
  /\ UNCHANGED <<world, viewList, objects, ent, to, old, near, peer, mail, history>>

Tell(t, f) ==
  /\ pc[t] = "tell"
  /\ Visit(t, f)
  /\ IF f \in published /\ state[f] = "ST_INGAME"
       THEN send_leave_packet(t, f, ent[t], "tell")
       ELSE Goto(t, "tell") /\ UNCHANGED <<viewList, mail, parted>>
  /\ UNCHANGED <<world, objects, ent, to, old, near, peer, moves, found, raced, killed>>

ChangeState(t) ==
  /\ pc[t] = "tell"
  /\ todo[t] = {}
  /\ state' = [state EXCEPT ![ent[t]] = "ST_FREE"]
  /\ Goto(t, "unpublish")
  /\ UNCHANGED <<at, published, sector, lock, viewList, objects, local, mail, history>>

(* The session is gone; what is known of it is forgotten.                   *)
Unpublish(t) ==
  /\ pc[t] = "unpublish"
  /\ published' = published \ {ent[t]}
  /\ at' = [at EXCEPT ![ent[t]] = Nowhere]
  /\ viewList' = [viewList EXCEPT ![ent[t]] = {}]
  /\ objects' = [objects EXCEPT ![ent[t]] = [e \in Entities |-> "none"]]
  /\ found' = [found EXCEPT ![ent[t]] = {}]
  /\ raced' = {r \in raced : ent[t] \notin r}
  /\ parted' = {r \in parted : r[1] # ent[t]}
  /\ Return(t)
  /\ UNCHANGED <<state, sector, lock, mail, moves, killed>>

-----------------------------------------------------------------------------
(* do_npc_move, of an NPC that is alive and has found a player near.        *)

StartNpcMove(t, n, s) ==
  /\ moves < MaxMoves
  /\ Around(n) \intersect Players # {} /\ n \in sector
  /\ can_move(s)
  /\ Begin(t, n)
  /\ moves' = moves + 1
  /\ to' = [to EXCEPT ![t] = s]
  /\ old' = [old EXCEPT ![t] = Around(n) \intersect Players]
  /\ Goto(t, "npcMove")
  /\ UNCHANGED <<world, viewList, objects, near, todo, peer, mail, found, killed, parted>>

NpcMove(t) ==
  /\ pc[t] = "npcMove"
  /\ at' = [at EXCEPT ![ent[t]] = to[t]]
  /\ to' = [to EXCEPT ![t] = Nowhere]
  /\ Goto(t, "npcLook")
  /\ UNCHANGED <<state, published, sector, lock, viewList, objects, ent, old, near, todo, peer,
                 mail, history>>

NpcLook(t) ==
  /\ pc[t] = "npcLook"
  /\ lock = None
  /\ near' = [near EXCEPT ![t] = Around(ent[t]) \intersect Players]
  /\ todo' = [todo EXCEPT ![t] = Around(ent[t]) \intersect Players]
  /\ Goto(t, "npcTell")
  /\ UNCHANGED <<world, viewList, objects, ent, to, old, peer, mail, history>>

NpcTell(t, f) ==
  /\ pc[t] = "npcTell"
  /\ Visit(t, f)
  /\ IF f \in published /\ f \notin old[t]
       THEN send_enter_packet(t, f, ent[t], "npcTell")
       ELSE /\ UNCHANGED <<viewList, parted>>
            /\ IF f \in published
                 THEN send_move_packet(t, f, ent[t], "npcTell")
                 ELSE Goto(t, "npcTell") /\ UNCHANGED mail
  /\ UNCHANGED <<world, objects, ent, to, old, near, peer, moves, found, raced, killed>>

(* Bug: a player the NPC moves away from keeps it on its list. *)
AllToldAndDone(t) ==
  /\ pc[t] = "npcTell"
  /\ todo[t] = {}
  /\ Return(t)
  /\ UNCHANGED <<world, viewList, objects, mail, history>>

AllTold(t) ==
  /\ pc[t] = "npcTell"
  /\ NextLoop(t)
  /\ Goto(t, "npcPart")
  /\ UNCHANGED <<world, viewList, objects, ent, to, peer, mail, history>>

NpcPart(t, f) ==
  /\ pc[t] = "npcPart"
  /\ Visit(t, f)
  /\ IF f \in published
       THEN send_leave_packet(t, f, ent[t], "npcPart")
       ELSE Goto(t, "npcPart") /\ UNCHANGED <<viewList, mail, parted>>
  /\ UNCHANGED <<world, objects, ent, to, old, near, peer, moves, found, raced, killed>>

-----------------------------------------------------------------------------
(* EVENT_GET_DAMAGE of an NPC, a lethal hit or another one, and its respawn. *)

(* A hit that finds the NPC alive and some player near; NpcLifecycle has the *)
(* others.                                                                  *)
StartNpcHit(t, n) ==
  /\ moves < MaxMoves
  /\ lock = None
  /\ Around(n) \intersect Players # {} /\ n \in sector
  /\ Begin(t, n)
  /\ moves' = moves + 1
  /\ todo' = [todo EXCEPT ![t] = Around(n) \intersect Players]
  /\ \/ Goto(t, "npcHit") /\ UNCHANGED killed
     \/ Goto(t, "npcKill") /\ killed' = killed \union {n}
  /\ UNCHANGED <<world, viewList, objects, to, old, near, peer, mail, found, parted>>

(* Who is near is told its hit points, and, if none are left, that it left. *)
TellHp(t, f) ==
  /\ pc[t] \in {"npcHit", "npcKill"}
  /\ Visit(t, f)
  /\ peer' = [peer EXCEPT ![t] = f]
  /\ IF f \in published
       THEN send_stat_change_packet(t, f, ent[t], IF pc[t] = "npcKill" THEN "npcLeave" ELSE "npcHit")
       ELSE UNCHANGED <<pc, mail>>
  /\ UNCHANGED <<world, viewList, objects, ent, to, old, near, history>>

TellDeath(t) ==
  /\ pc[t] = "npcLeave"
  /\ send_leave_packet(t, peer[t], ent[t], "npcKill")
  /\ peer' = [peer EXCEPT ![t] = None]
  /\ UNCHANGED <<world, objects, ent, to, old, near, todo, moves, found, raced, killed>>

Bury(t) ==
  /\ pc[t] = "npcKill"
  /\ todo[t] = {} /\ lock = None
  /\ sector' = sector \ {ent[t]}
  /\ Return(t)
  /\ UNCHANGED <<at, state, published, lock, viewList, objects, mail, history>>

(* OP_NPC_RESPAWN, where it stood. Nobody is told.                           *)
Respawn(n) ==
  /\ n \notin sector
  /\ lock = None
  /\ sector' = sector \union {n}
  /\ raced' = raced \union {{n, f} : f \in Overlapping(n)}
  /\ UNCHANGED <<at, state, published, lock, viewList, objects, pc, local, mail, moves, found,
                 killed, parted>>

-----------------------------------------------------------------------------

Moving(t) ==
  \/ \E p \in Players, s \in Spots : StartMove(t, p, s)
  \/ \E f \in Entities : Greet(t, f) \/ Part(t, f)
  \/ CopyViewList(t) \/ Look(t) \/ EnterPeer(t) \/ GreetBack(t) \/ AllGreeted(t)
  \/ AllVisited(t)

LoggingIn(t) ==
  \/ \E p \in Players, s \in Spots : StartLogin(t, p, s)
  \/ \E f \in Entities : Meet(t, f)
  \/ Insert(t) \/ LockSector(t) \/ UnlockSector(t)

Leaving(t) ==
  \/ \E p \in Players : StartLeave(t, p)
  \/ \E f \in Entities : Tell(t, f)
  \/ Erase(t) \/ CopyToTell(t) \/ ChangeState(t) \/ Unpublish(t)

NpcMoving(t) ==
  \/ \E n \in Npcs, s \in Spots : StartNpcMove(t, n, s)
  \/ \E f \in Players : NpcTell(t, f) \/ NpcPart(t, f)
  \/ NpcMove(t) \/ NpcLook(t) \/ AllTold(t)

NpcHurt(t) ==
  \/ \E n \in Npcs : StartNpcHit(t, n)
  \/ \E f \in Players : TellHp(t, f)
  \/ TellDeath(t) \/ Bury(t)

AtRest == \A t \in Threads : pc[t] = "idle"

(* Everybody has left, and nothing moves any more. *)
GameOver ==
  /\ AtRest
  /\ published = Npcs
  /\ UNCHANGED vars

Next ==
  \/ \E t \in Threads :
       do_send(t) \/ Moving(t) \/ LoggingIn(t) \/ Leaving(t) \/ NpcMoving(t) \/ NpcHurt(t)
  \/ \E n \in Npcs : Respawn(n)
  \/ GameOver

Spec == Init /\ [][Next]_vars

-----------------------------------------------------------------------------

Kinds == {"none", "S2C_P_ENTER", "S2C_P_MOVE", "S2C_P_LEAVE", "S2C_P_STAT_CHANGE"}
Labels ==
  {"idle", "send", "copy", "look", "greet", "enter", "greetBack", "part", "insert", "lock",
   "meet", "erase", "copyToTell", "tell", "unpublish", "npcMove", "npcLook", "npcTell",
   "npcPart", "npcHit", "npcKill", "npcLeave"}

(* Every variable has its type, and the sector's lock is held by a login    *)
(* that visits those in it.                                                 *)
TypeOK ==
  /\ at \in [Entities -> Spots]
  /\ state \in [Entities -> {"ST_FREE", "ST_ALLOC", "ST_INGAME"}]
  /\ published \subseteq Entities
  /\ sector \subseteq Entities
  /\ lock \in Threads \union {None}
  /\ viewList \in [Players -> SUBSET Entities]
  /\ objects \in [Players -> [Entities -> {"none", "empty", "shown"}]]
  /\ pc \in [Threads -> Labels]
  /\ ent \in [Threads -> Entities \union {None}]
  /\ to \in [Threads -> Spots]
  /\ old \in [Threads -> SUBSET Entities]
  /\ near \in [Threads -> SUBSET Entities]
  /\ todo \in [Threads -> SUBSET Entities]
  /\ peer \in [Threads -> Entities \union {None}]
  /\ mail \in [Threads -> [receiver : Players \union {None}, kind : Kinds,
                           subject : Entities \union {None}, next : Labels]]
  /\ \A t \in Threads : lock = t => pc[t] = "meet" \/ mail[t].next = "meet"
  /\ moves \in 0 .. MaxMoves
  /\ found \in [Players -> SUBSET Players]
  /\ raced \subseteq {{e, f} : e, f \in Entities}
  /\ killed \subseteq Npcs
  /\ parted \subseteq Players \X Players

InGame(p) == state[p] = "ST_INGAME" /\ {p} \notin raced

(* A player that found another one in its last search has it on its list,   *)
(* however the handlers of the two overlapped: nobody but the player itself,*)
(* and the one that leaves, takes it off. It has it on its screen, too,     *)
(* unless it was sent a leave of it before: an enter that is sent meanwhile *)
(* may arrive first, and what is on the list is never entered again.        *)
FoundIsShown ==
  AtRest =>
    \A p, q \in Players :
      InGame(p) /\ state[q] = "ST_INGAME" /\ q \in found[p]
        => /\ q \in viewList[p]
           /\ <<p, q>> \notin parted => objects[p][q] = "shown"

(* The list is changed before the packet is sent, by two steps that those   *)
(* of other handlers come between: moves can overtake the enter they follow.*)
(* As long as no leave has been sent, the client still ends up with just    *)
(* the players on the list, and with none that a move has made.             *)
ShownAsListed ==
  AtRest =>
    \A p, q \in Players :
      InGame(p) /\ <<p, q>> \notin parted
        => objects[p][q] = IF q \in viewList[p] THEN "shown" ELSE "none"

(* Of an NPC whose handlers have not overlapped with the player's own, the  *)
(* player sees it exactly while it is in sight, whichever of them moves.    *)
(* Once it has been killed it still never sees one that is dead or away;    *)
(* but a player that stands by when it comes back does not see that.        *)
NpcShownInSight ==
  AtRest =>
    \A p \in Players, n \in Npcs :
      InGame(p) /\ {n} \notin raced /\ {p, n} \notin raced
        => LET present == can_see(p, n) /\ n \in sector
           IN /\ objects[p][n] = "shown" => present
              /\ present /\ n \notin killed => objects[p][n] = "shown"
              /\ n \notin killed /\ ~present => objects[p][n] = "none"

=============================================================================
