-------------------------- MODULE VisibilityProofs --------------------------
(***************************************************************************)
(* Proofs about Visibility, for any number of threads, players and NPCs    *)
(* and any positions: what a player found is on its list, what is on the   *)
(* list is on its screen, and which NPCs it sees. The inductive invariant  *)
(* says what is so at every step of the handlers: what is still to be      *)
(* greeted, entered or parted, and which packet is on its way.             *)
(***************************************************************************)
EXTENDS Visibility, TLAPS

PlayerLabels ==
  {"copy", "look", "greet", "enter", "greetBack", "part", "insert", "lock", "meet"}
LeaveLabels == {"erase", "copyToTell", "tell", "unpublish"}
NpcLabels == {"npcMove", "npcLook", "npcTell", "npcPart", "npcHit", "npcKill", "npcLeave"}

(* Where a thread is in its handler; a packet about to be sent is an aside.  *)
Label(t) == IF pc[t] = "send" THEN mail[t].next ELSE pc[t]

(* What threads have in hand at each label.                                  *)
Handles(t) ==
  /\ pc[t] = "idle" <=> ent[t] = None
  /\ pc[t] = "idle" => old[t] = {} /\ near[t] = {} /\ todo[t] = {}
  /\ Label(t) \in PlayerLabels \union LeaveLabels => ent[t] \in Players
  /\ Label(t) \in NpcLabels =>
       ent[t] \in Npcs /\ old[t] \subseteq Players /\ near[t] \subseteq Players /\ todo[t] \subseteq Players
  /\ Label(t) = "tell" => todo[t] \subseteq Players
  /\ Label(t) = "greetBack" => peer[t] \in Entities
  /\ Label(t) \in {"enter", "npcLeave"} => peer[t] \in Players
  /\ Label(t) = "unpublish" => state[ent[t]] = "ST_FREE"
  /\ Label(t) \in {"npcKill", "npcLeave"} => ent[t] \in killed
(* The packet in hand is of its own entity, or to it.                         *)
Mails(t) ==
  LET m == mail[t]
  IN IF pc[t] = "send"
       THEN /\ m.receiver \in Players /\ m.subject \in Entities /\ m.kind # "none"
            /\ m.next \in PlayerLabels \union LeaveLabels \union NpcLabels
            /\ ent[t] \in {m.receiver, m.subject}
       ELSE m = NoMail
(* NPCs are always there, alive or dead; a session that is gone is free.     *)
Standing ==
  /\ \A n \in Npcs : state[n] = "ST_INGAME" /\ (n \in sector \/ n \in killed)
  /\ \A e \in Entities : state[e] # "ST_FREE" => e \in published
Typed == TypeOK /\ Standing /\ \A t \in Threads : Handles(t) /\ Mails(t)

(* Of two handlers that overlap it is recorded, unless one's entity is gone.  *)
Overlaps(e, f) == e = f \/ {e, f} \intersect Npcs # {}
RacesKnown ==
  \A t, u \in Threads :
    t # u /\ pc[t] # "idle" /\ pc[u] # "idle" /\ Overlaps(ent[t], ent[u]) =>
      {ent[t], ent[u]} \in raced \/ state[ent[t]] = "ST_FREE" \/ state[ent[u]] = "ST_FREE"

(* A player that has not logged in is known to nobody, and knows nobody.     *)
Unknown(p) ==
  /\ p \notin sector
  /\ viewList[p] = {} /\ \A e \in Entities : objects[p][e] = "none"
  /\ \A q \in Players : p \notin viewList[q]
  /\ \A t \in Threads :
       /\ p \notin todo[t] \union old[t] /\ peer[t] # p /\ mail[t].receiver # p
       /\ ent[t] = p => Label(t) \in LeaveLabels
Unmet == \A p \in Players : state[p] = "ST_ALLOC" => Unknown(p)

(* Packets of p's about q. *)
Carries(t, p, q) == pc[t] = "send" /\ mail[t].receiver = p /\ mail[t].subject = q
Entering(p, q) == \E t \in Threads : Carries(t, p, q) /\ mail[t].kind = "S2C_P_ENTER"
(* q is on the list exactly while it is on the screen or about to be, and    *)
(* only enters and moves of it are on their way.                            *)
Tracked(p, q) ==
  /\ \A t \in Threads : Carries(t, p, q) =>
       q \in viewList[p] /\ mail[t].kind \in {"S2C_P_ENTER", "S2C_P_MOVE"}
  /\ IF q \in viewList[p] THEN objects[p][q] = "shown" \/ Entering(p, q)
                          ELSE objects[p][q] = "none"
ListsTracked ==
  \A p, q \in Players : state[p] # "ST_FREE" /\ <<p, q>> \notin parted => Tracked(p, q)

(* What p has found is on its list, or its handler has still to greet it; and *)
(* what was on the list before is not entered again.                        *)
Greeting == {"greet", "enter", "greetBack"}
ToGreet(t, e) ==
  /\ Label(t) \in Greeting
  /\ e \in todo[t] \/ (Label(t) \in {"enter", "greetBack"} /\ peer[t] = e)
Leaves(q) ==
  state[q] = "ST_FREE" \/ \E t \in Threads : ent[t] = q /\ Label(t) \in LeaveLabels
Sole(p) == state[p] # "ST_FREE" /\ {p} \notin raced
OnItsWay(t, p, q) ==
  /\ Label(t) \in Greeting \union {"look"} /\ q \in old[t] => q \in viewList[p]
  /\ Label(t) \in Greeting /\ q \in found[p] => q \in near[t]
  /\ Label(t) = "part" /\ q \in found[p] => q \notin todo[t]
FoundBy(p, q) ==
  /\ q \in found[p] =>
       q \in viewList[p] \/ \E t \in Threads : ent[t] = p /\ ToGreet(t, q)
  /\ \A t \in Threads : ent[t] = p => OnItsWay(t, p, q)
FoundListed == \A p, q \in Players : Sole(p) /\ ~Leaves(q) => FoundBy(p, q)

(* What the player's client shows of an NPC, and will once the packet in     *)
(* hand is sent, at each label of the one's handler and of the other's.      *)
Alone(p, n) ==
  state[p] = "ST_INGAME" /\ {p} \notin raced /\ {n} \notin raced /\ {p, n} \notin raced
Present(p, n) == can_see(p, n) /\ n \in sector
Listed(p, n) == n \in viewList[p]
Sees(t, p, n) ==
  IF Carries(t, p, n) THEN Shown(objects[p][n], mail[t].kind) ELSE objects[p][n]
Consistent(s, p, n) ==
  /\ s = "shown" <=> Listed(p, n)
  /\ n \notin killed => s # "empty"
Exact(p, n) ==
  /\ Listed(p, n) => Present(p, n)
  /\ n \notin killed /\ Present(p, n) => Listed(p, n)
Quiet(p, n) == p \in sector /\ Consistent(objects[p][n], p, n) /\ Exact(p, n)

PlayerAt(t, p, n) ==
  Label(t) \in PlayerLabels =>
  /\ Consistent(Sees(t, p, n), p, n)
  /\ Label(t) # "insert" => p \in sector
  /\ Label(t) = "look" => (n \in old[t] <=> Listed(p, n))
  /\ Label(t) \in Greeting =>
       /\ n \in near[t] <=> Present(p, n)
       /\ ToGreet(t, n) => Present(p, n)
       /\ Present(p, n) /\ ~ToGreet(t, n) => Listed(p, n)
       /\ Listed(p, n) => n \in old[t] \/ Present(p, n)
       /\ n \in old[t] => Listed(p, n)
  /\ Label(t) = "part" =>
       /\ Listed(p, n) <=> Present(p, n) \/ n \in todo[t]
       /\ n \in todo[t] => ~Present(p, n)
  /\ Label(t) \in {"insert", "lock"} => ~Listed(p, n)
  /\ Label(t) = "meet" => (Listed(p, n) <=> Present(p, n) /\ n \notin todo[t])

NpcAt(t, p, n) ==
  /\ p \in sector
  /\ Consistent(Sees(t, p, n), p, n)
  /\ Label(t) \in {"npcMove", "npcLook", "npcTell", "npcPart", "npcHit"} => n \in sector
  /\ Label(t) = "npcMove" => Exact(p, n) /\ (p \in old[t] <=> Present(p, n))
  /\ Label(t) \in {"npcLook", "npcTell"} => (n \notin killed /\ p \in old[t] => Listed(p, n))
  /\ Label(t) = "npcLook" => (Listed(p, n) => p \in old[t])
  /\ Label(t) = "npcTell" =>
       /\ p \in near[t] <=> Present(p, n)
       /\ p \in todo[t] => Present(p, n)
       /\ Listed(p, n) => p \in old[t] \/ (Present(p, n) /\ p \notin todo[t])
       /\ n \notin killed /\ Present(p, n) /\ p \notin todo[t] => Listed(p, n)
  /\ Label(t) = "npcPart" =>
       /\ Listed(p, n) => Present(p, n) \/ p \in todo[t]
       /\ n \notin killed /\ Present(p, n) => Listed(p, n) /\ p \notin todo[t]
       /\ p \in todo[t] => ~Present(p, n)
  /\ Label(t) = "npcHit" => Exact(p, n) /\ (p \in todo[t] => Present(p, n))
  /\ Label(t) = "npcKill" => (Listed(p, n) => p \in todo[t])
  /\ Label(t) = "npcLeave" => (Listed(p, n) => p \in todo[t] \/ peer[t] = p)

Told(p, n) ==
  /\ (\A t \in Threads : ent[t] \notin {p, n}) => Quiet(p, n)
  /\ \A t \in Threads : ent[t] = p => PlayerAt(t, p, n)
  /\ \A t \in Threads : ent[t] = n => NpcAt(t, p, n)
NpcsTold == \A p \in Players, n \in Npcs : Alone(p, n) => Told(p, n)

IInv == Typed /\ RacesKnown /\ Unmet /\ ListsTracked /\ FoundListed /\ NpcsTold

-----------------------------------------------------------------------------
(* Types. *)

LEMMA Values ==
  /\ None \notin Threads /\ None \notin Entities
  /\ Players \subseteq Entities /\ Npcs \subseteq Entities
  /\ \A n \in Npcs : n \notin Players
  /\ Nowhere \in Spots
  /\ Spots \subseteq Int /\ VIEW_RANGE \in Nat /\ MaxMoves \in Nat
BY VisibilityAssumption DEF Entities, Nowhere

LEMMA TypedAtFirst == Init => Typed
<1> SUFFICES ASSUME Init PROVE Typed
  OBVIOUS
<1> USE Values
<1>1. TypeOK
  BY DEF Init, TypeOK, NoMail, Packet, Kinds, Labels
<1>2. Standing
  BY DEF Init, Standing
<1>3. \A t \in Threads : Handles(t) /\ Mails(t)
  BY DEF Init, Handles, Mails, Label, NoMail, Packet, PlayerLabels, LeaveLabels, NpcLabels
<1> QED
  BY <1>1, <1>2, <1>3 DEF Typed

LEMMA BeginTyped ==
  ASSUME Typed, NEW t \in Threads, NEW e \in Entities, Begin(t, e)
  PROVE  /\ ent' \in [Threads -> Entities \union {None}]
         /\ raced' \subseteq {{f, g} : f, g \in Entities}
<1>1. Overlapping(e) \subseteq Entities
  BY Values DEF Overlapping, Typed, TypeOK, Handles
<1> QED
  BY <1>1, Values DEF Begin, Typed, TypeOK

(* What the steps of a thread leave alone: everything of the other threads.  *)
OthersWait(t) ==
  \A u \in Threads \ {t} :
    /\ pc'[u] = pc[u] /\ mail'[u] = mail[u] /\ ent'[u] = ent[u] /\ to'[u] = to[u]
    /\ old'[u] = old[u] /\ near'[u] = near[u] /\ todo'[u] = todo[u] /\ peer'[u] = peer[u]

(* A packet is sent, or not, and the handler goes on at next.                *)
Goes(t, p, e, next) ==
  /\ pc' \in [Threads -> Labels]
  /\ \A u \in Threads \ {t} : pc'[u] = pc[u] /\ mail'[u] = mail[u]
  /\ \/ pc'[t] = next /\ mail' = mail
     \/ /\ pc'[t] = "send"
        /\ mail'[t].receiver = p /\ mail'[t].subject = e /\ mail'[t].next = next
        /\ mail'[t].kind \in Kinds \ {"none"}
        /\ mail' \in [Threads -> [receiver : Players \union {None}, kind : Kinds,
                                  subject : Entities \union {None}, next : Labels]]

LEMMA SendsGo ==
  ASSUME Typed, NEW t \in Threads, NEW p \in Players, NEW e \in Entities, NEW next \in Labels,
         pc[t] # "send",
         \/ send_enter_packet(t, p, e, next)
         \/ send_move_packet(t, p, e, next)
         \/ send_leave_packet(t, p, e, next)
         \/ send_stat_change_packet(t, p, e, next)
  PROVE  Goes(t, p, e, next)
<1> DEFINE Packets == [receiver : Players \union {None}, kind : Kinds,
                       subject : Entities \union {None}, next : Labels]
<1>1. \/ \E kind \in Kinds \ {"none"} : Mail(t, p, kind, e, next)
      \/ Goto(t, next) /\ UNCHANGED mail
  BY DEF send_enter_packet, send_move_packet, send_leave_packet, send_stat_change_packet, Kinds
<1>2. ASSUME NEW kind \in Kinds \ {"none"}, Mail(t, p, kind, e, next) PROVE Goes(t, p, e, next)
  <2>1. Packet(p, kind, e, next) \in Packets
    BY DEF Packet
  <2>2. mail' \in [Threads -> Packets] /\ mail'[t] = Packet(p, kind, e, next)
    BY <1>2, <2>1 DEF Mail, Typed, TypeOK
  <2> QED
    BY <1>2, <2>2 DEF Mail, Goto, Goes, Packet, Typed, TypeOK, Labels
<1>3. CASE Goto(t, next) /\ UNCHANGED mail
  BY <1>3 DEF Goto, Goes, Typed, TypeOK
<1> QED
  BY <1>1, <1>2, <1>3

LEMMA ListsTyped ==
  ASSUME Typed, NEW t \in Threads, NEW p \in Players, NEW e \in Entities, NEW next \in Labels,
         send_enter_packet(t, p, e, next) \/ send_leave_packet(t, p, e, next)
  PROVE  viewList' \in [Players -> SUBSET Entities] /\ parted' \subseteq Players \X Players
<1>1. viewList[p] \union {e} \in SUBSET Entities /\ viewList[p] \ {e} \in SUBSET Entities
  BY DEF Typed, TypeOK
<1>2. viewList' \in [Players -> SUBSET Entities]
  <2>1. CASE UNCHANGED viewList
    BY <2>1 DEF Typed, TypeOK
  <2>2. CASE viewList' = [viewList EXCEPT ![p] = @ \union {e}]
    BY <1>1, <2>2 DEF Typed, TypeOK
  <2>3. CASE viewList' = [viewList EXCEPT ![p] = @ \ {e}]
    BY <1>1, <2>3 DEF Typed, TypeOK
  <2> QED
    BY <2>1, <2>2, <2>3 DEF send_enter_packet, send_leave_packet
<1>3. parted' \subseteq Players \X Players
  BY DEF send_enter_packet, send_leave_packet, Typed, TypeOK
<1> QED
  BY <1>2, <1>3

LEMMA GoesOn ==
  ASSUME Typed, NEW t \in Threads, NEW next \in Labels, Goto(t, next), UNCHANGED mail
  PROVE  \A p, e : Goes(t, p, e, next)
BY DEF Goto, Goes, Typed, TypeOK
(* Who is gone stays away, who is dead has died.                             *)
Forward ==
  /\ \A e \in Entities : state[e] = "ST_FREE" => state'[e] = "ST_FREE"
  /\ killed \subseteq killed'

(* What every step of thread t keeps. *)
Kept(t) == TypeOK' /\ Standing' /\ OthersWait(t) /\ Forward /\ Handles(t)' /\ Mails(t)'

LEMMA AroundTyped ==
  ASSUME Typed, NEW e \in Entities
  PROVE  Around(e) \subseteq Entities
BY DEF Around, Typed, TypeOK

(* do_player_move. *)
LEMMA MovingTyped ==
  ASSUME Typed, NEW t \in Threads, Moving(t)
  PROVE  Kept(t)
<1>1. ASSUME NEW p \in Players, NEW s \in Spots, StartMove(t, p, s) PROVE Kept(t)
  <2> USE <1>1, Values DEF StartMove, Goto
  <2>1. p \in Entities /\ Begin(t, p)
    OBVIOUS
  <2>2. TypeOK'
    <3> USE DEF Typed, TypeOK
    <3>1. pc' \in [Threads -> Labels] /\ UNCHANGED <<lock, mail>>
      BY DEF Labels, world
    <3>2. \A u \in Threads : lock' = u => pc'[u] = "meet" \/ mail'[u].next = "meet"
      BY <2>1 DEF Begin, world
    <3>3. at' \in [Entities -> Spots] /\ state' \in [Entities -> {"ST_FREE", "ST_ALLOC", "ST_INGAME"}]
      BY <2>1 DEF world
    <3>4. /\ to' \in [Threads -> Spots] /\ moves' \in 0 .. MaxMoves /\ killed' \subseteq Npcs
          /\ old' \in [Threads -> SUBSET Entities] /\ todo' \in [Threads -> SUBSET Entities]
      BY <2>1, AroundTyped
    <3> QED
      BY <2>1, <3>1, <3>2, <3>3, <3>4, BeginTyped DEF world
  <2>3. Standing'
    BY <2>1 DEF Typed, TypeOK, Standing, world
  <2>4. OthersWait(t) /\ Forward
    BY <2>1 DEF Typed, TypeOK, OthersWait, Forward, world, Begin
  <2>5. Handles(t)' /\ Mails(t)'
    BY <2>1 DEF Typed, TypeOK, Handles, Mails, Label, world, PlayerLabels,
       LeaveLabels, NpcLabels, NoMail, Packet, Around, Begin
  <2> QED
    BY <2>2, <2>3, <2>4, <2>5 DEF Kept
<1>2. ASSUME NEW f \in Entities, Greet(t, f) PROVE Kept(t)
  <2> USE <1>2, Values DEF Greet, Visit
  <2>1. ent[t] \in Players
    BY DEF Typed, TypeOK, Handles, Label, PlayerLabels, LeaveLabels, NpcLabels
  <2>2. PICK p \in Players, e \in Entities, next \in {"greetBack", "greet", "enter"} :
          Goes(t, p, e, next) /\ ent[t] \in {p, e} /\ (next = "enter" => f \in Players)
    BY <2>1, SendsGo, GoesOn DEF Labels, Typed, Handles, Label
  <2>3. viewList' \in [Players -> SUBSET Entities] /\ parted' \subseteq Players \X Players
    BY <2>1, ListsTyped DEF Labels, Typed, TypeOK, Handles, Label, history
  <2>4. /\ todo' \in [Threads -> SUBSET Entities] /\ peer' \in [Threads -> Entities \union {None}]
        /\ found' \in [Players -> SUBSET Players]
    BY <2>1 DEF Typed, TypeOK, history
  <2>5. \A u \in Threads : lock' = u => pc'[u] = "meet" \/ mail'[u].next = "meet"
    BY <2>2 DEF Goes, world, Typed, TypeOK, Mails, NoMail, Packet
  <2>6. TypeOK'
    BY <2>2, <2>3, <2>4, <2>5 DEF Goes, Typed, TypeOK, world, history, local
  <2>7. Standing'
    BY DEF Typed, TypeOK, Standing, world, history, local
  <2>8. OthersWait(t) /\ Forward
    BY <2>2 DEF Goes, Typed, TypeOK, OthersWait, Forward, world, local, history
  <2>9. Handles(t)' /\ Mails(t)'
    BY <2>1, <2>2 DEF Goes, Typed, TypeOK, Handles, Mails, Label, world, local, history,
       PlayerLabels,
       LeaveLabels, NpcLabels, NoMail, Packet, Around
  <2> QED
    BY <2>6, <2>7, <2>8, <2>9 DEF Kept
<1>3. ASSUME NEW f \in Entities, Part(t, f) PROVE Kept(t)
  <2> USE <1>3, Values DEF Part, Visit
  <2>1. ent[t] \in Players
    BY DEF Typed, TypeOK, Handles, Label, PlayerLabels, LeaveLabels, NpcLabels
  <2>2. PICK p \in Players, e \in Entities, next \in {"part"} :
          Goes(t, p, e, next) /\ ent[t] \in {p, e}
    BY <2>1, SendsGo, GoesOn DEF Labels, Typed, Handles, Label
  <2>3. viewList' \in [Players -> SUBSET Entities] /\ parted' \subseteq Players \X Players
    BY <2>1, ListsTyped DEF Labels, Typed, TypeOK, Handles, Label, history
  <2>4. /\ todo' \in [Threads -> SUBSET Entities] /\ peer' \in [Threads -> Entities \union {None}]
        /\ found' \in [Players -> SUBSET Players]
    BY <2>1 DEF Typed, TypeOK, history
  <2>5. \A u \in Threads : lock' = u => pc'[u] = "meet" \/ mail'[u].next = "meet"
    BY <2>2 DEF Goes, world, Typed, TypeOK, Mails, NoMail, Packet
  <2>6. TypeOK'
    BY <2>2, <2>3, <2>4, <2>5 DEF Goes, Typed, TypeOK, world, history, local
  <2>7. Standing'
    BY DEF Typed, TypeOK, Standing, world, history, local
  <2>8. OthersWait(t) /\ Forward
    BY <2>2 DEF Goes, Typed, TypeOK, OthersWait, Forward, world, local, history
  <2>9. Handles(t)' /\ Mails(t)'
    BY <2>1, <2>2 DEF Goes, Typed, TypeOK, Handles, Mails, Label, world, local, history,
       PlayerLabels,
       LeaveLabels, NpcLabels, NoMail, Packet, Around
  <2> QED
    BY <2>6, <2>7, <2>8, <2>9 DEF Kept
<1>4. ASSUME CopyViewList(t) PROVE Kept(t)
  <2> USE <1>4, Values DEF CopyViewList, Goto
  <2>1. ent[t] \in Players
    BY DEF Typed, TypeOK, Handles, Label, PlayerLabels, LeaveLabels, NpcLabels
  <2>2. TypeOK'
    BY <2>1, AroundTyped DEF Typed, TypeOK, world, history, local, Labels
  <2>3. Standing'
    BY <2>1 DEF Typed, TypeOK, Standing, world, history, local, Handles, Label, LeaveLabels
  <2>4. OthersWait(t) /\ Forward
    BY DEF Typed, TypeOK, OthersWait, Forward, world, local, history
  <2>5. Handles(t)' /\ Mails(t)'
    BY <2>1 DEF Typed, TypeOK, Handles, Mails, Label, world, local, history, PlayerLabels,
       LeaveLabels, NpcLabels, NoMail, Packet, Around
  <2> QED
    BY <2>2, <2>3, <2>4, <2>5 DEF Kept
<1>5. ASSUME Look(t) PROVE Kept(t)
  <2> USE <1>5, Values DEF Look, Goto
  <2>1. ent[t] \in Players
    BY DEF Typed, TypeOK, Handles, Label, PlayerLabels, LeaveLabels, NpcLabels
  <2>2. TypeOK'
    BY <2>1, AroundTyped DEF Typed, TypeOK, world, history, local, Labels
  <2>3. Standing'
    BY <2>1 DEF Typed, TypeOK, Standing, world, history, local, Handles, Label, LeaveLabels
  <2>4. OthersWait(t) /\ Forward
    BY DEF Typed, TypeOK, OthersWait, Forward, world, local, history
  <2>5. Handles(t)' /\ Mails(t)'
    BY <2>1 DEF Typed, TypeOK, Handles, Mails, Label, world, local, history, PlayerLabels,
       LeaveLabels, NpcLabels, NoMail, Packet, Around
  <2> QED
    BY <2>2, <2>3, <2>4, <2>5 DEF Kept
<1>6. ASSUME EnterPeer(t) PROVE Kept(t)
  <2> USE <1>6, Values DEF EnterPeer, Visit
  <2>1. ent[t] \in Players /\ peer[t] \in Players
    BY DEF Typed, TypeOK, Handles, Label, PlayerLabels, LeaveLabels, NpcLabels
  <2>2. PICK p \in Players, e \in Entities, next \in {"greetBack"} :
          Goes(t, p, e, next) /\ ent[t] \in {p, e}
    BY <2>1, SendsGo, GoesOn DEF Labels, Typed, Handles, Label
  <2>3. viewList' \in [Players -> SUBSET Entities] /\ parted' \subseteq Players \X Players
    BY <2>1, ListsTyped DEF Labels, Typed, TypeOK, Handles, Label, history
  <2>4. /\ todo' \in [Threads -> SUBSET Entities] /\ peer' \in [Threads -> Entities \union {None}]
        /\ found' \in [Players -> SUBSET Players]
    BY <2>1 DEF Typed, TypeOK, history, local
  <2>5. \A u \in Threads : lock' = u => pc'[u] = "meet" \/ mail'[u].next = "meet"
    BY <2>2 DEF Goes, world, Typed, TypeOK, Mails, NoMail, Packet
  <2>6. TypeOK'
    BY <2>2, <2>3, <2>4, <2>5 DEF Goes, Typed, TypeOK, world, history, local
  <2>7. Standing'
    BY DEF Typed, TypeOK, Standing, world, history, local
  <2>8. OthersWait(t) /\ Forward
    BY <2>2 DEF Goes, Typed, TypeOK, OthersWait, Forward, world, local, history
  <2>9. Handles(t)' /\ Mails(t)'
    BY <2>1, <2>2 DEF Goes, Typed, TypeOK, Handles, Mails, Label, world, local, history,
       PlayerLabels,
       LeaveLabels, NpcLabels, NoMail, Packet, Around
  <2> QED
    BY <2>6, <2>7, <2>8, <2>9 DEF Kept
<1>7. ASSUME GreetBack(t) PROVE Kept(t)
  <2> USE <1>7, Values DEF GreetBack, Visit
  <2>1. ent[t] \in Players /\ peer[t] \in Entities
    BY DEF Typed, TypeOK, Handles, Label, PlayerLabels, LeaveLabels, NpcLabels
  <2>2. PICK p \in Players, e \in Entities, next \in {"greet"} :
          Goes(t, p, e, next) /\ ent[t] \in {p, e}
    BY <2>1, SendsGo, GoesOn DEF Labels, Typed, Handles, Label
  <2>3. viewList' \in [Players -> SUBSET Entities] /\ parted' \subseteq Players \X Players
    BY <2>1, ListsTyped DEF Labels, Typed, TypeOK, Handles, Label, history
  <2>4. /\ todo' \in [Threads -> SUBSET Entities] /\ peer' \in [Threads -> Entities \union {None}]
        /\ found' \in [Players -> SUBSET Players]
    BY <2>1 DEF Typed, TypeOK, history
  <2>5. \A u \in Threads : lock' = u => pc'[u] = "meet" \/ mail'[u].next = "meet"
    BY <2>2 DEF Goes, world, Typed, TypeOK, Mails, NoMail, Packet
  <2>6. TypeOK'
    BY <2>2, <2>3, <2>4, <2>5 DEF Goes, Typed, TypeOK, world, history, local
  <2>7. Standing'
    BY DEF Typed, TypeOK, Standing, world, history, local
  <2>8. OthersWait(t) /\ Forward
    BY <2>2 DEF Goes, Typed, TypeOK, OthersWait, Forward, world, local, history
  <2>9. Handles(t)' /\ Mails(t)'
    <3>1. Label(t)' = "greet" /\ pc'[t] # "idle" /\ ent'[t] = ent[t]
      BY <2>2 DEF Goes, Label
    <3>2. Handles(t)'
      BY <2>1, <3>1, Zenon DEF Handles, PlayerLabels, LeaveLabels, NpcLabels
    <3>3. mail[t] = NoMail
      BY DEF Typed, Mails
    <3>4. Mails(t)'
      BY <2>1, <2>2, <3>1, <3>3 DEF Goes, Typed, TypeOK, Mails, NoMail, Packet, PlayerLabels
    <3> QED
      BY <3>2, <3>4
  <2> QED
    BY <2>6, <2>7, <2>8, <2>9 DEF Kept
<1>8. ASSUME AllGreeted(t) PROVE Kept(t)
  <2> USE <1>8, Values DEF AllGreeted, NextLoop, Goto
  <2>1. ent[t] \in Players
    BY DEF Typed, TypeOK, Handles, Label, PlayerLabels, LeaveLabels, NpcLabels
  <2>2. TypeOK'
    BY <2>1, AroundTyped DEF Typed, TypeOK, world, history, local, Labels
  <2>3. Standing'
    BY <2>1 DEF Typed, TypeOK, Standing, world, history, local, Handles, Label, LeaveLabels
  <2>4. OthersWait(t) /\ Forward
    BY DEF Typed, TypeOK, OthersWait, Forward, world, local, history
  <2>5. Handles(t)' /\ Mails(t)'
    BY <2>1 DEF Typed, TypeOK, Handles, Mails, Label, world, local, history, PlayerLabels,
       LeaveLabels, NpcLabels, NoMail, Packet, Around
  <2> QED
    BY <2>2, <2>3, <2>4, <2>5 DEF Kept
<1>9. ASSUME AllVisited(t) PROVE Kept(t)
  <2> USE <1>9, Values DEF AllVisited, Return, Goto
  <2>1. ent[t] \in Entities
    BY DEF Typed, TypeOK, Handles, Label, PlayerLabels, LeaveLabels, NpcLabels
  <2>2. TypeOK'
    BY <2>1, AroundTyped DEF Typed, TypeOK, world, history, local, Labels
  <2>3. Standing'
    BY <2>1 DEF Typed, TypeOK, Standing, world, history, local, Handles, Label, LeaveLabels
  <2>4. OthersWait(t) /\ Forward
    BY DEF Typed, TypeOK, OthersWait, Forward, world, local, history
  <2>5. Handles(t)' /\ Mails(t)'
    BY <2>1 DEF Typed, TypeOK, Handles, Mails, Label, world, local, history, PlayerLabels,
       LeaveLabels, NpcLabels, NoMail, Packet, Around
  <2> QED
    BY <2>2, <2>3, <2>4, <2>5 DEF Kept
<1> QED
  BY <1>1, <1>2, <1>3, <1>4, <1>5, <1>6, <1>7, <1>8, <1>9 DEF Moving

(* login. *)
LEMMA LoggingInTyped ==
  ASSUME Typed, NEW t \in Threads, LoggingIn(t)
  PROVE  Kept(t)
<1>1. ASSUME NEW p \in Players, NEW s \in Spots, StartLogin(t, p, s) PROVE Kept(t)
  <2> USE <1>1, Values DEF StartLogin, Goto
  <2>1. p \in Entities /\ Begin(t, p)
    OBVIOUS
  <2>2. TypeOK'
    <3> USE DEF Typed, TypeOK
    <3>1. pc' \in [Threads -> Labels] /\ UNCHANGED <<lock, mail>>
      BY DEF Labels, world
    <3>2. \A u \in Threads : lock' = u => pc'[u] = "meet" \/ mail'[u].next = "meet"
      BY <2>1 DEF Begin, world
    <3>3. at' \in [Entities -> Spots] /\ state' \in [Entities -> {"ST_FREE", "ST_ALLOC", "ST_INGAME"}]
      BY <2>1 DEF world
    <3>4. /\ to' \in [Threads -> Spots] /\ moves' \in 0 .. MaxMoves /\ killed' \subseteq Npcs
          /\ old' \in [Threads -> SUBSET Entities] /\ todo' \in [Threads -> SUBSET Entities]
      BY <2>1, AroundTyped
    <3> QED
      BY <2>1, <3>1, <3>2, <3>3, <3>4, BeginTyped DEF world
  <2>3. Standing'
    BY <2>1 DEF Typed, TypeOK, Standing, world
  <2>4. OthersWait(t) /\ Forward
    BY <2>1 DEF Typed, TypeOK, OthersWait, Forward, world, Begin
  <2>5. Handles(t)' /\ Mails(t)'
    BY <2>1 DEF Typed, TypeOK, Handles, Mails, Label, world, PlayerLabels,
       LeaveLabels, NpcLabels, NoMail, Packet, Around, Begin
  <2> QED
    BY <2>2, <2>3, <2>4, <2>5 DEF Kept
<1>2. ASSUME NEW f \in Entities, Meet(t, f) PROVE Kept(t)
  <2> USE <1>2, Values DEF Meet, Visit
  <2>1. ent[t] \in Players
    BY DEF Typed, TypeOK, Handles, Label, PlayerLabels, LeaveLabels, NpcLabels
  <2>2. PICK p \in Players, e \in Entities, next \in {"meet"} :
          Goes(t, p, e, next) /\ ent[t] \in {p, e}
    BY <2>1, SendsGo, GoesOn DEF Labels, Typed, Handles, Label
  <2>3. viewList' \in [Players -> SUBSET Entities] /\ parted' \subseteq Players \X Players
    BY <2>1, ListsTyped DEF Labels, Typed, TypeOK, Handles, Label, history
  <2>4. /\ todo' \in [Threads -> SUBSET Entities] /\ peer' \in [Threads -> Entities \union {None}]
        /\ found' \in [Players -> SUBSET Players]
    <3>1. PICK l \in SUBSET Players : found' = found \/ found' = [found EXCEPT ![ent[t]] = l]
      <4>1. found[ent[t]] \union ({f} \intersect Players) \in SUBSET Players
        BY <2>1 DEF Typed, TypeOK
      <4> QED
        BY <4>1
    <3>2. found \in [Players -> SUBSET Players]
      BY DEF Typed, TypeOK
    <3>3. found' \in [Players -> SUBSET Players]
      BY <3>1, <3>2, Zenon
    <3> QED
      BY <3>3 DEF Typed, TypeOK, local
  <2>5. \A u \in Threads : lock' = u => pc'[u] = "meet" \/ mail'[u].next = "meet"
    BY <2>2 DEF Goes, world, Typed, TypeOK, Mails, NoMail, Packet
  <2>6. TypeOK'
    BY <2>2, <2>3, <2>4, <2>5 DEF Goes, Typed, TypeOK, world, history, local
  <2>7. Standing'
    BY DEF Typed, TypeOK, Standing, world, history, local
  <2>8. OthersWait(t) /\ Forward
    BY <2>2 DEF Goes, Typed, TypeOK, OthersWait, Forward, world, local, history
  <2>9. Handles(t)' /\ Mails(t)'
    BY <2>1, <2>2 DEF Goes, Typed, TypeOK, Handles, Mails, Label, world, local, history,
       PlayerLabels,
       LeaveLabels, NpcLabels, NoMail, Packet, Around
  <2> QED
    BY <2>6, <2>7, <2>8, <2>9 DEF Kept
<1>3. ASSUME Insert(t) PROVE Kept(t)
  <2> USE <1>3, Values DEF Insert, Goto
  <2>1. ent[t] \in Players
    BY DEF Typed, TypeOK, Handles, Label, PlayerLabels, LeaveLabels, NpcLabels
  <2>2. TypeOK'
    BY <2>1, AroundTyped DEF Typed, TypeOK, world, history, local, Labels
  <2>3. Standing'
    BY <2>1 DEF Typed, TypeOK, Standing, world, history, local, Handles, Label, LeaveLabels
  <2>4. OthersWait(t) /\ Forward
    BY DEF Typed, TypeOK, OthersWait, Forward, world, local, history
  <2>5. Handles(t)' /\ Mails(t)'
    BY <2>1 DEF Typed, TypeOK, Handles, Mails, Label, world, local, history, PlayerLabels,
       LeaveLabels, NpcLabels, NoMail, Packet, Around
  <2> QED
    BY <2>2, <2>3, <2>4, <2>5 DEF Kept
<1>4. ASSUME LockSector(t) PROVE Kept(t)
  <2> USE <1>4, Values DEF LockSector, Goto
  <2>1. ent[t] \in Players
    BY DEF Typed, TypeOK, Handles, Label, PlayerLabels, LeaveLabels, NpcLabels
  <2>2. TypeOK'
    BY <2>1, AroundTyped DEF Typed, TypeOK, world, history, local, Labels
  <2>3. Standing'
    BY <2>1 DEF Typed, TypeOK, Standing, world, history, local, Handles, Label, LeaveLabels
  <2>4. OthersWait(t) /\ Forward
    BY DEF Typed, TypeOK, OthersWait, Forward, world, local, history
  <2>5. Handles(t)' /\ Mails(t)'
    BY <2>1 DEF Typed, TypeOK, Handles, Mails, Label, world, local, history, PlayerLabels,
       LeaveLabels, NpcLabels, NoMail, Packet, Around
  <2> QED
    BY <2>2, <2>3, <2>4, <2>5 DEF Kept
<1>5. ASSUME UnlockSector(t) PROVE Kept(t)
  <2> USE <1>5, Values DEF UnlockSector, Return, Goto
  <2>1. ent[t] \in Players
    BY DEF Typed, TypeOK, Handles, Label, PlayerLabels, LeaveLabels, NpcLabels
  <2>2. TypeOK'
    BY <2>1, AroundTyped DEF Typed, TypeOK, world, history, local, Labels
  <2>3. Standing'
    BY <2>1 DEF Typed, TypeOK, Standing, world, history, local, Handles, Label, LeaveLabels
  <2>4. OthersWait(t) /\ Forward
    BY DEF Typed, TypeOK, OthersWait, Forward, world, local, history
  <2>5. Handles(t)' /\ Mails(t)'
    BY <2>1 DEF Typed, TypeOK, Handles, Mails, Label, world, local, history, PlayerLabels,
       LeaveLabels, NpcLabels, NoMail, Packet, Around
  <2> QED
    BY <2>2, <2>3, <2>4, <2>5 DEF Kept
<1> QED
  BY <1>1, <1>2, <1>3, <1>4, <1>5 DEF LoggingIn

(* disconnect. *)
LEMMA LeavingTyped ==
  ASSUME Typed, NEW t \in Threads, Leaving(t)
  PROVE  Kept(t)
<1>1. ASSUME NEW p \in Players, StartLeave(t, p) PROVE Kept(t)
  <2> USE <1>1, Values DEF StartLeave, Goto
  <2>1. p \in Entities /\ Begin(t, p)
    OBVIOUS
  <2>2. TypeOK'
    <3> USE DEF Typed, TypeOK
    <3>1. pc' \in [Threads -> Labels] /\ UNCHANGED <<lock, mail>>
      BY DEF Labels, world
    <3>2. \A u \in Threads : lock' = u => pc'[u] = "meet" \/ mail'[u].next = "meet"
      BY <2>1 DEF Begin, world
    <3>3. at' \in [Entities -> Spots] /\ state' \in [Entities -> {"ST_FREE", "ST_ALLOC", "ST_INGAME"}]
      BY <2>1 DEF world
    <3>4. /\ to' \in [Threads -> Spots] /\ moves' \in 0 .. MaxMoves /\ killed' \subseteq Npcs
          /\ old' \in [Threads -> SUBSET Entities] /\ todo' \in [Threads -> SUBSET Entities]
      BY <2>1, AroundTyped
    <3> QED
      BY <2>1, <3>1, <3>2, <3>3, <3>4, BeginTyped DEF world
  <2>3. Standing'
    BY <2>1 DEF Typed, TypeOK, Standing, world
  <2>4. OthersWait(t) /\ Forward
    BY <2>1 DEF Typed, TypeOK, OthersWait, Forward, world, Begin
  <2>5. Handles(t)' /\ Mails(t)'
    BY <2>1 DEF Typed, TypeOK, Handles, Mails, Label, world, PlayerLabels,
       LeaveLabels, NpcLabels, NoMail, Packet, Around, Begin
  <2> QED
    BY <2>2, <2>3, <2>4, <2>5 DEF Kept
<1>2. ASSUME NEW f \in Entities, Tell(t, f) PROVE Kept(t)
  <2> USE <1>2, Values DEF Tell, Visit
  <2>1. ent[t] \in Players /\ f \in Players
    BY DEF Typed, TypeOK, Handles, Label, PlayerLabels, LeaveLabels, NpcLabels
  <2>2. PICK p \in Players, e \in Entities, next \in {"tell"} :
          Goes(t, p, e, next) /\ ent[t] \in {p, e}
    BY <2>1, SendsGo, GoesOn DEF Labels, Typed, Handles, Label
  <2>3. viewList' \in [Players -> SUBSET Entities] /\ parted' \subseteq Players \X Players
    BY <2>1, ListsTyped DEF Labels, Typed, TypeOK, Handles, Label, history
  <2>4. /\ todo' \in [Threads -> SUBSET Entities] /\ peer' \in [Threads -> Entities \union {None}]
        /\ found' \in [Players -> SUBSET Players]
    BY <2>1 DEF Typed, TypeOK, history
  <2>5. \A u \in Threads : lock' = u => pc'[u] = "meet" \/ mail'[u].next = "meet"
    BY <2>2 DEF Goes, world, Typed, TypeOK, Mails, NoMail, Packet
  <2>6. TypeOK'
    BY <2>2, <2>3, <2>4, <2>5 DEF Goes, Typed, TypeOK, world, history, local
  <2>7. Standing'
    BY DEF Typed, TypeOK, Standing, world, history, local
  <2>8. OthersWait(t) /\ Forward
    BY <2>2 DEF Goes, Typed, TypeOK, OthersWait, Forward, world, local, history
  <2>9. Handles(t)' /\ Mails(t)'
    BY <2>1, <2>2 DEF Goes, Typed, TypeOK, Handles, Mails, Label, world, local, history,
       PlayerLabels,
       LeaveLabels, NpcLabels, NoMail, Packet, Around
  <2> QED
    BY <2>6, <2>7, <2>8, <2>9 DEF Kept
<1>3. ASSUME Erase(t) PROVE Kept(t)
  <2> USE <1>3, Values DEF Erase, Goto
  <2>1. ent[t] \in Players
    BY DEF Typed, TypeOK, Handles, Label, PlayerLabels, LeaveLabels, NpcLabels
  <2>2. TypeOK'
    BY <2>1, AroundTyped DEF Typed, TypeOK, world, history, local, Labels
  <2>3. Standing'
    BY <2>1 DEF Typed, TypeOK, Standing, world, history, local, Handles, Label, LeaveLabels
  <2>4. OthersWait(t) /\ Forward
    BY DEF Typed, TypeOK, OthersWait, Forward, world, local, history
  <2>5. Handles(t)' /\ Mails(t)'
    BY <2>1 DEF Typed, TypeOK, Handles, Mails, Label, world, local, history, PlayerLabels,
       LeaveLabels, NpcLabels, NoMail, Packet, Around
  <2> QED
    BY <2>2, <2>3, <2>4, <2>5 DEF Kept
<1>4. ASSUME CopyToTell(t) PROVE Kept(t)
  <2> USE <1>4, Values DEF CopyToTell, Goto
  <2>1. ent[t] \in Players
    BY DEF Typed, TypeOK, Handles, Label, PlayerLabels, LeaveLabels, NpcLabels
  <2>2. TypeOK'
    BY <2>1, AroundTyped DEF Typed, TypeOK, world, history, local, Labels
  <2>3. Standing'
    BY <2>1 DEF Typed, TypeOK, Standing, world, history, local, Handles, Label, LeaveLabels
  <2>4. OthersWait(t) /\ Forward
    BY DEF Typed, TypeOK, OthersWait, Forward, world, local, history
  <2>5. Handles(t)' /\ Mails(t)'
    BY <2>1 DEF Typed, TypeOK, Handles, Mails, Label, world, local, history, PlayerLabels,
       LeaveLabels, NpcLabels, NoMail, Packet, Around
  <2> QED
    BY <2>2, <2>3, <2>4, <2>5 DEF Kept
<1>5. ASSUME ChangeState(t) PROVE Kept(t)
  <2> USE <1>5, Values DEF ChangeState, Goto
  <2>1. ent[t] \in Players
    BY DEF Typed, TypeOK, Handles, Label, PlayerLabels, LeaveLabels, NpcLabels
  <2>2. TypeOK'
    BY <2>1, AroundTyped DEF Typed, TypeOK, world, history, local, Labels
  <2>3. Standing'
    BY <2>1 DEF Typed, TypeOK, Standing, world, history, local, Handles, Label, LeaveLabels
  <2>4. OthersWait(t) /\ Forward
    BY DEF Typed, TypeOK, OthersWait, Forward, world, local, history
  <2>5. Handles(t)' /\ Mails(t)'
    BY <2>1 DEF Typed, TypeOK, Handles, Mails, Label, world, local, history, PlayerLabels,
       LeaveLabels, NpcLabels, NoMail, Packet, Around
  <2> QED
    BY <2>2, <2>3, <2>4, <2>5 DEF Kept
<1>6. ASSUME Unpublish(t) PROVE Kept(t)
  <2> USE <1>6, Values DEF Unpublish, Return, Goto
  <2>1. ent[t] \in Players
    BY DEF Typed, TypeOK, Handles, Label, PlayerLabels, LeaveLabels, NpcLabels
  <2>2. TypeOK'
    BY <2>1, AroundTyped DEF Typed, TypeOK, world, history, local, Labels
  <2>3. Standing'
    BY <2>1 DEF Typed, TypeOK, Standing, world, history, local, Handles, Label, LeaveLabels
  <2>4. OthersWait(t) /\ Forward
    BY DEF Typed, TypeOK, OthersWait, Forward, world, local, history
  <2>5. Handles(t)' /\ Mails(t)'
    BY <2>1 DEF Typed, TypeOK, Handles, Mails, Label, world, local, history, PlayerLabels,
       LeaveLabels, NpcLabels, NoMail, Packet, Around
  <2> QED
    BY <2>2, <2>3, <2>4, <2>5 DEF Kept
<1> QED
  BY <1>1, <1>2, <1>3, <1>4, <1>5, <1>6 DEF Leaving

(* do_npc_move. *)
LEMMA NpcMovingTyped ==
  ASSUME Typed, NEW t \in Threads, NpcMoving(t)
  PROVE  Kept(t)
<1>1. ASSUME NEW n \in Npcs, NEW s \in Spots, StartNpcMove(t, n, s) PROVE Kept(t)
  <2> USE <1>1, Values DEF StartNpcMove, Goto
  <2>1. n \in Entities /\ Begin(t, n)
    OBVIOUS
  <2>2. TypeOK'
    <3> USE DEF Typed, TypeOK
    <3>1. pc' \in [Threads -> Labels] /\ UNCHANGED <<lock, mail>>
      BY DEF Labels, world
    <3>2. \A u \in Threads : lock' = u => pc'[u] = "meet" \/ mail'[u].next = "meet"
      BY <2>1 DEF Begin, world
    <3>3. at' \in [Entities -> Spots] /\ state' \in [Entities -> {"ST_FREE", "ST_ALLOC", "ST_INGAME"}]
      BY <2>1 DEF world
    <3>4. /\ to' \in [Threads -> Spots] /\ moves' \in 0 .. MaxMoves /\ killed' \subseteq Npcs
          /\ old' \in [Threads -> SUBSET Entities] /\ todo' \in [Threads -> SUBSET Entities]
      BY <2>1, AroundTyped
    <3> QED
      BY <2>1, <3>1, <3>2, <3>3, <3>4, BeginTyped DEF world
  <2>3. Standing'
    BY <2>1 DEF Typed, TypeOK, Standing, world
  <2>4. OthersWait(t) /\ Forward
    BY <2>1 DEF Typed, TypeOK, OthersWait, Forward, world, Begin
  <2>5. Handles(t)' /\ Mails(t)'
    BY <2>1 DEF Typed, TypeOK, Handles, Mails, Label, world, PlayerLabels,
       LeaveLabels, NpcLabels, NoMail, Packet, Around, Begin
  <2> QED
    BY <2>2, <2>3, <2>4, <2>5 DEF Kept
<1>2. ASSUME NEW f \in Players, NpcTell(t, f) PROVE Kept(t)
  <2> USE <1>2, Values DEF NpcTell, Visit
  <2>1. ent[t] \in Npcs
    BY DEF Typed, TypeOK, Handles, Label, PlayerLabels, LeaveLabels, NpcLabels
  <2>2. PICK p \in Players, e \in Entities, next \in {"npcTell"} :
          Goes(t, p, e, next) /\ ent[t] \in {p, e}
    BY <2>1, SendsGo, GoesOn DEF Labels, Typed, Handles, Label
  <2>3. viewList' \in [Players -> SUBSET Entities] /\ parted' \subseteq Players \X Players
    BY <2>1, ListsTyped DEF Labels, Typed, TypeOK, Handles, Label, history
  <2>4. /\ todo' \in [Threads -> SUBSET Entities] /\ peer' \in [Threads -> Entities \union {None}]
        /\ found' \in [Players -> SUBSET Players]
    BY <2>1 DEF Typed, TypeOK, history
  <2>5. \A u \in Threads : lock' = u => pc'[u] = "meet" \/ mail'[u].next = "meet"
    BY <2>2 DEF Goes, world, Typed, TypeOK, Mails, NoMail, Packet
  <2>6. TypeOK'
    BY <2>2, <2>3, <2>4, <2>5 DEF Goes, Typed, TypeOK, world, history, local
  <2>7. Standing'
    BY DEF Typed, TypeOK, Standing, world, history, local
  <2>8. OthersWait(t) /\ Forward
    BY <2>2 DEF Goes, Typed, TypeOK, OthersWait, Forward, world, local, history
  <2>9. Handles(t)' /\ Mails(t)'
    BY <2>1, <2>2 DEF Goes, Typed, TypeOK, Handles, Mails, Label, world, local, history,
       PlayerLabels,
       LeaveLabels, NpcLabels, NoMail, Packet, Around
  <2> QED
    BY <2>6, <2>7, <2>8, <2>9 DEF Kept
<1>3. ASSUME NEW f \in Players, NpcPart(t, f) PROVE Kept(t)
  <2> USE <1>3, Values DEF NpcPart, Visit
  <2>1. ent[t] \in Npcs
    BY DEF Typed, TypeOK, Handles, Label, PlayerLabels, LeaveLabels, NpcLabels
  <2>2. PICK p \in Players, e \in Entities, next \in {"npcPart"} :
          Goes(t, p, e, next) /\ ent[t] \in {p, e}
    BY <2>1, SendsGo, GoesOn DEF Labels, Typed, Handles, Label
  <2>3. viewList' \in [Players -> SUBSET Entities] /\ parted' \subseteq Players \X Players
    BY <2>1, ListsTyped DEF Labels, Typed, TypeOK, Handles, Label, history
  <2>4. /\ todo' \in [Threads -> SUBSET Entities] /\ peer' \in [Threads -> Entities \union {None}]
        /\ found' \in [Players -> SUBSET Players]
    BY <2>1 DEF Typed, TypeOK, history
  <2>5. \A u \in Threads : lock' = u => pc'[u] = "meet" \/ mail'[u].next = "meet"
    BY <2>2 DEF Goes, world, Typed, TypeOK, Mails, NoMail, Packet
  <2>6. TypeOK'
    BY <2>2, <2>3, <2>4, <2>5 DEF Goes, Typed, TypeOK, world, history, local
  <2>7. Standing'
    BY DEF Typed, TypeOK, Standing, world, history, local
  <2>8. OthersWait(t) /\ Forward
    BY <2>2 DEF Goes, Typed, TypeOK, OthersWait, Forward, world, local, history
  <2>9. Handles(t)' /\ Mails(t)'
    BY <2>1, <2>2 DEF Goes, Typed, TypeOK, Handles, Mails, Label, world, local, history,
       PlayerLabels,
       LeaveLabels, NpcLabels, NoMail, Packet, Around
  <2> QED
    BY <2>6, <2>7, <2>8, <2>9 DEF Kept
<1>4. ASSUME NpcMove(t) PROVE Kept(t)
  <2> USE <1>4, Values DEF NpcMove, Goto
  <2>1. ent[t] \in Npcs
    BY DEF Typed, TypeOK, Handles, Label, PlayerLabels, LeaveLabels, NpcLabels
  <2>2. TypeOK'
    BY <2>1, AroundTyped DEF Typed, TypeOK, world, history, local, Labels
  <2>3. Standing'
    BY <2>1 DEF Typed, TypeOK, Standing, world, history, local, Handles, Label, LeaveLabels
  <2>4. OthersWait(t) /\ Forward
    BY DEF Typed, TypeOK, OthersWait, Forward, world, local, history
  <2>5. Handles(t)' /\ Mails(t)'
    BY <2>1 DEF Typed, TypeOK, Handles, Mails, Label, world, local, history, PlayerLabels,
       LeaveLabels, NpcLabels, NoMail, Packet, Around
  <2> QED
    BY <2>2, <2>3, <2>4, <2>5 DEF Kept
<1>5. ASSUME NpcLook(t) PROVE Kept(t)
  <2> USE <1>5, Values DEF NpcLook, Goto
  <2>1. ent[t] \in Npcs
    BY DEF Typed, TypeOK, Handles, Label, PlayerLabels, LeaveLabels, NpcLabels
  <2>2. TypeOK'
    BY <2>1, AroundTyped DEF Typed, TypeOK, world, history, local, Labels
  <2>3. Standing'
    BY <2>1 DEF Typed, TypeOK, Standing, world, history, local, Handles, Label, LeaveLabels
  <2>4. OthersWait(t) /\ Forward
    BY DEF Typed, TypeOK, OthersWait, Forward, world, local, history
  <2>5. Handles(t)' /\ Mails(t)'
    BY <2>1 DEF Typed, TypeOK, Handles, Mails, Label, world, local, history, PlayerLabels,
       LeaveLabels, NpcLabels, NoMail, Packet, Around
  <2> QED
    BY <2>2, <2>3, <2>4, <2>5 DEF Kept
<1>6. ASSUME AllTold(t) PROVE Kept(t)
  <2> USE <1>6, Values DEF AllTold, NextLoop, Goto
  <2>1. ent[t] \in Npcs
    BY DEF Typed, TypeOK, Handles, Label, PlayerLabels, LeaveLabels, NpcLabels
  <2>2. TypeOK'
    BY <2>1, AroundTyped DEF Typed, TypeOK, world, history, local, Labels
  <2>3. Standing'
    BY <2>1 DEF Typed, TypeOK, Standing, world, history, local, Handles, Label, LeaveLabels
  <2>4. OthersWait(t) /\ Forward
    BY DEF Typed, TypeOK, OthersWait, Forward, world, local, history
  <2>5. Handles(t)' /\ Mails(t)'
    BY <2>1 DEF Typed, TypeOK, Handles, Mails, Label, world, local, history, PlayerLabels,
       LeaveLabels, NpcLabels, NoMail, Packet, Around
  <2> QED
    BY <2>2, <2>3, <2>4, <2>5 DEF Kept
<1> QED
  BY <1>1, <1>2, <1>3, <1>4, <1>5, <1>6 DEF NpcMoving

(* EVENT_GET_DAMAGE of an NPC. *)
LEMMA NpcHurtTyped ==
  ASSUME Typed, NEW t \in Threads, NpcHurt(t)
  PROVE  Kept(t)
<1>1. ASSUME NEW n \in Npcs, StartNpcHit(t, n) PROVE Kept(t)
  <2> USE <1>1, Values DEF StartNpcHit, Goto
  <2>1. n \in Entities /\ Begin(t, n)
    OBVIOUS
  <2>2. TypeOK'
    <3> USE DEF Typed, TypeOK
    <3>1. pc' \in [Threads -> Labels] /\ UNCHANGED <<lock, mail>>
      BY DEF Labels, world
    <3>2. \A u \in Threads : lock' = u => pc'[u] = "meet" \/ mail'[u].next = "meet"
      BY <2>1 DEF Begin, world
    <3>3. at' \in [Entities -> Spots] /\ state' \in [Entities -> {"ST_FREE", "ST_ALLOC", "ST_INGAME"}]
      BY <2>1 DEF world
    <3>4. /\ to' \in [Threads -> Spots] /\ moves' \in 0 .. MaxMoves /\ killed' \subseteq Npcs
          /\ old' \in [Threads -> SUBSET Entities] /\ todo' \in [Threads -> SUBSET Entities]
      BY <2>1, AroundTyped
    <3> QED
      BY <2>1, <3>1, <3>2, <3>3, <3>4, BeginTyped DEF world
  <2>3. Standing'
    BY <2>1 DEF Typed, TypeOK, Standing, world
  <2>4. OthersWait(t) /\ Forward
    BY <2>1 DEF Typed, TypeOK, OthersWait, Forward, world, Begin
  <2>5. Handles(t)' /\ Mails(t)'
    BY <2>1 DEF Typed, TypeOK, Handles, Mails, Label, world, PlayerLabels,
       LeaveLabels, NpcLabels, NoMail, Packet, Around, Begin
  <2> QED
    BY <2>2, <2>3, <2>4, <2>5 DEF Kept
<1>2. ASSUME NEW f \in Players, TellHp(t, f) PROVE Kept(t)
  <2> USE <1>2, Values DEF TellHp, Visit
  <2>1. ent[t] \in Npcs
    BY DEF Typed, TypeOK, Handles, Label, PlayerLabels, LeaveLabels, NpcLabels
  <2>2. PICK p \in Players, e \in Entities, next \in {"npcKill", "npcHit", "npcLeave"} :
          /\ Goes(t, p, e, next) /\ ent[t] \in {p, e}
          /\ next \in {"npcKill", "npcLeave"} => pc[t] = "npcKill"
    <3>1. CASE f \in published
      BY <2>1, <3>1, SendsGo, GoesOn DEF Labels
    <3>2. CASE f \notin published
      BY <2>1, <3>2 DEF Goes, Typed, TypeOK
    <3> QED
      BY <3>1, <3>2
  <2>3. viewList' \in [Players -> SUBSET Entities] /\ parted' \subseteq Players \X Players
    BY <2>1, ListsTyped DEF Labels, Typed, TypeOK, Handles, Label, history
  <2>4. /\ todo' \in [Threads -> SUBSET Entities] /\ peer' \in [Threads -> Entities \union {None}]
        /\ found' \in [Players -> SUBSET Players]
    BY <2>1 DEF Typed, TypeOK, history
  <2>5. \A u \in Threads : lock' = u => pc'[u] = "meet" \/ mail'[u].next = "meet"
    BY <2>2 DEF Goes, world, Typed, TypeOK, Mails, NoMail, Packet
  <2>6. TypeOK'
    BY <2>2, <2>3, <2>4, <2>5 DEF Goes, Typed, TypeOK, world, history, local
  <2>7. Standing'
    BY DEF Typed, TypeOK, Standing, world, history, local
  <2>8. OthersWait(t) /\ Forward
    BY <2>2 DEF Goes, Typed, TypeOK, OthersWait, Forward, world, local, history
  <2>9. Handles(t)' /\ Mails(t)'
    BY <2>1, <2>2 DEF Goes, Typed, TypeOK, Handles, Mails, Label, world, local, history,
       PlayerLabels,
       LeaveLabels, NpcLabels, NoMail, Packet, Around
  <2> QED
    BY <2>6, <2>7, <2>8, <2>9 DEF Kept
<1>3. ASSUME TellDeath(t) PROVE Kept(t)
  <2> USE <1>3, Values DEF TellDeath, Visit
  <2>1. ent[t] \in Npcs /\ peer[t] \in Players
    BY DEF Typed, TypeOK, Handles, Label, PlayerLabels, LeaveLabels, NpcLabels
  <2>2. PICK p \in Players, e \in Entities, next \in {"npcKill"} :
          Goes(t, p, e, next) /\ ent[t] \in {p, e}
    BY <2>1, SendsGo, GoesOn DEF Labels, Typed, Handles, Label
  <2>3. viewList' \in [Players -> SUBSET Entities] /\ parted' \subseteq Players \X Players
    BY <2>1, ListsTyped DEF Labels, Typed, TypeOK, Handles, Label, history
  <2>4. /\ todo' \in [Threads -> SUBSET Entities] /\ peer' \in [Threads -> Entities \union {None}]
        /\ found' \in [Players -> SUBSET Players]
    BY <2>1 DEF Typed, TypeOK, history
  <2>5. \A u \in Threads : lock' = u => pc'[u] = "meet" \/ mail'[u].next = "meet"
    BY <2>2 DEF Goes, world, Typed, TypeOK, Mails, NoMail, Packet
  <2>6. TypeOK'
    BY <2>2, <2>3, <2>4, <2>5 DEF Goes, Typed, TypeOK, world, history, local
  <2>7. Standing'
    BY DEF Typed, TypeOK, Standing, world, history, local
  <2>8. OthersWait(t) /\ Forward
    BY <2>2 DEF Goes, Typed, TypeOK, OthersWait, Forward, world, local, history
  <2>9. Handles(t)' /\ Mails(t)'
    BY <2>1, <2>2 DEF Goes, Typed, TypeOK, Handles, Mails, Label, world, local, history,
       PlayerLabels,
       LeaveLabels, NpcLabels, NoMail, Packet, Around
  <2> QED
    BY <2>6, <2>7, <2>8, <2>9 DEF Kept
<1>4. ASSUME Bury(t) PROVE Kept(t)
  <2> USE <1>4, Values DEF Bury, Return, Goto
  <2>1. ent[t] \in Npcs
    BY DEF Typed, TypeOK, Handles, Label, PlayerLabels, LeaveLabels, NpcLabels
  <2>2. TypeOK'
    BY <2>1, AroundTyped DEF Typed, TypeOK, world, history, local, Labels
  <2>3. Standing'
    BY <2>1 DEF Typed, TypeOK, Standing, world, history, local, Handles, Label, LeaveLabels
  <2>4. OthersWait(t) /\ Forward
    BY DEF Typed, TypeOK, OthersWait, Forward, world, local, history
  <2>5. Handles(t)' /\ Mails(t)'
    BY <2>1 DEF Typed, TypeOK, Handles, Mails, Label, world, local, history, PlayerLabels,
       LeaveLabels, NpcLabels, NoMail, Packet, Around
  <2> QED
    BY <2>2, <2>3, <2>4, <2>5 DEF Kept
<1> QED
  BY <1>1, <1>2, <1>3, <1>4 DEF NpcHurt

(* do_send: the handler goes on where it was to. *)
LEMMA SendTyped ==
  ASSUME Typed, NEW t \in Threads, do_send(t)
  PROVE  Kept(t) /\ Label(t)' = Label(t)
<1> DEFINE m == mail[t]
<1> USE Values
<1>1. /\ pc[t] = "send"
      /\ m.receiver \in Players /\ m.subject \in Entities /\ m.kind \in Kinds \ {"none"}
      /\ m.next \in Labels \ {"send", "idle"}
  BY DEF do_send, Typed, TypeOK, Mails, PlayerLabels, LeaveLabels, NpcLabels, Labels
<1>2. pc' = [pc EXCEPT ![t] = m.next] /\ mail' = [mail EXCEPT ![t] = NoMail]
  BY DEF do_send, Goto
<1>3. pc' \in [Threads -> Labels] /\ pc'[t] = m.next /\ mail'[t] = NoMail
  BY <1>1, <1>2 DEF Typed, TypeOK
<1>4. mail' \in [Threads -> [receiver : Players \union {None}, kind : Kinds,
                             subject : Entities \union {None}, next : Labels]]
  BY <1>2 DEF Typed, TypeOK, NoMail, Packet, Kinds, Labels
<1>5. objects' \in [Players -> [Entities -> {"none", "empty", "shown"}]]
  <2>1. Shown(objects[m.receiver][m.subject], m.kind) \in {"none", "empty", "shown"}
    BY <1>1 DEF Typed, TypeOK, Shown, Touched, Kinds
  <2>2. objects' = [objects EXCEPT ![m.receiver][m.subject] =
                      Shown(objects[m.receiver][m.subject], m.kind)]
    BY DEF do_send
  <2> QED
    BY <1>1, <2>1, <2>2 DEF Typed, TypeOK
<1>6. \A u \in Threads : lock' = u => pc'[u] = "meet" \/ mail'[u].next = "meet"
  BY <1>1, <1>2, <1>3 DEF do_send, world, Typed, TypeOK
<1>7. TypeOK'
  BY <1>3, <1>4, <1>5, <1>6 DEF do_send, Typed, TypeOK, world, local, history
<1>8. OthersWait(t) /\ Forward /\ Standing'
  BY <1>2 DEF do_send, Typed, TypeOK, Standing, OthersWait, Forward, world, local, history
<1>9. Label(t)' = Label(t)
  BY <1>1, <1>3 DEF Label
<1>10. Handles(t)' /\ Mails(t)'
  <2>1. Handles(t)
    BY DEF Typed
  <2>2. Handles(t)'
    BY <1>1, <1>3, <1>9, <2>1 DEF do_send, Handles, world, local, history, Typed
  <2>3. Mails(t)'
    BY <1>1, <1>3 DEF Mails
  <2> QED
    BY <2>2, <2>3
<1> QED
  BY <1>7, <1>8, <1>9, <1>10 DEF Kept

(* The steps that are not of a thread. *)
LEMMA RestTyped ==
  ASSUME Typed, (\E n \in Npcs : Respawn(n)) \/ GameOver \/ UNCHANGED vars
  PROVE  Typed'
<1>1. ASSUME NEW n \in Npcs, Respawn(n) PROVE Typed'
  <2>1. n \in Entities
    BY Values
  <2>2. raced' \subseteq {{f, g} : f, g \in Entities}
    <3>1. Overlapping(n) \subseteq Entities
      BY Values DEF Overlapping, Typed, TypeOK, Handles
    <3> QED
      BY <1>1, <2>1, <3>1 DEF Respawn, Typed, TypeOK
  <2>3. sector' \subseteq Entities
    BY <1>1, <2>1 DEF Respawn, Typed, TypeOK
  <2>4. TypeOK'
    <3>1. UNCHANGED <<at, state, published, lock, viewList, objects, pc, ent, to, old, near,
                      todo, peer, mail, moves, found, killed, parted>>
      BY <1>1 DEF Respawn, local
    <3> QED
      BY <2>2, <2>3, <3>1 DEF Typed, TypeOK
  <2>5. Standing'
    BY <1>1 DEF Respawn, Typed, Standing
  <2>6. \A t \in Threads : Handles(t)' /\ Mails(t)'
    BY <1>1 DEF Respawn, Typed, Handles, Mails, Label, local
  <2> QED
    BY <2>4, <2>5, <2>6 DEF Typed
<1>2. ASSUME UNCHANGED vars PROVE Typed'
  <2>1. TypeOK' /\ Standing'
    BY <1>2 DEF vars, world, local, history, Typed, TypeOK, Standing
  <2>2. \A t \in Threads : Handles(t)' /\ Mails(t)'
    BY <1>2 DEF vars, world, local, history, Typed, Handles, Mails, Label
  <2> QED
    BY <2>1, <2>2 DEF Typed
<1> QED
  BY <1>1, <1>2 DEF GameOver

Steps(t) == do_send(t) \/ Moving(t) \/ LoggingIn(t) \/ Leaving(t) \/ NpcMoving(t) \/ NpcHurt(t)

LEMMA StepsTyped ==
  ASSUME Typed, NEW t \in Threads, Steps(t)
  PROVE  Kept(t) /\ Typed'
<1>1. Kept(t)
  BY SendTyped, MovingTyped, LoggingInTyped, LeavingTyped, NpcMovingTyped, NpcHurtTyped DEF Steps
<1>2. ASSUME NEW u \in Threads PROVE Handles(u)' /\ Mails(u)'
  <2>1. CASE u = t
    BY <1>1, <2>1 DEF Kept
  <2>2. CASE u # t
    <3>1. /\ Handles(u) /\ Mails(u) /\ ent[u] \in Entities \union {None}
          /\ OthersWait(t) /\ Forward
      BY <1>1 DEF Kept, Typed, TypeOK
    <3>2. Handles(u)'
      BY <2>2, <3>1, Values DEF OthersWait, Forward, Handles, Label, LeaveLabels
    <3>3. Mails(u)'
      BY <2>2, <3>1 DEF OthersWait, Mails
    <3> QED
      BY <3>2, <3>3
  <2> QED
    BY <2>1, <2>2
<1> QED
  BY <1>1, <1>2 DEF Kept, Typed

LEMMA TypedStays == Typed /\ [Next]_vars => Typed'
BY StepsTyped, RestTyped DEF Next, Steps

-----------------------------------------------------------------------------
(* Packets, lists and what the clients show.                                *)

(* What q is to p: whether it is on the list, what is on the screen, and     *)
(* which packets are about to be sent.                                      *)
Untouched(p, q) ==
  /\ q \in viewList'[p] <=> q \in viewList[p]
  /\ objects'[p][q] = objects[p][q]
  /\ \A u \in Threads :
       /\ Carries(u, p, q)' <=> Carries(u, p, q)
       /\ Carries(u, p, q) => mail'[u].kind = mail[u].kind
Posts(t, p, q, kind) ==
  /\ Carries(t, p, q)' /\ mail'[t].kind = kind
  /\ objects'[p][q] = objects[p][q]

LEMMA CalmStep ==
  ASSUME Typed, NEW t \in Threads, OthersWait(t), pc[t] # "send", pc'[t] # "send",
         UNCHANGED <<viewList, objects>>
  PROVE  \A p, q : Untouched(p, q)
BY DEF OthersWait, Untouched, Carries

LEMMA EnterSent ==
  ASSUME Typed, NEW t \in Threads, OthersWait(t), pc[t] # "send", UNCHANGED objects,
         NEW x \in Players, NEW e \in Entities, NEW next \in Labels \ {"send"},
         send_enter_packet(t, x, e, next)
  PROVE  /\ \A p \in Players, q \in Entities : p # x \/ q # e => Untouched(p, q)
         /\ e \notin published => Untouched(x, e)
         /\ e \in published => e \in viewList'[x] /\ Posts(t, x, e, "S2C_P_ENTER")
<1>1. CASE e \in published
  <2>1. /\ viewList' = [viewList EXCEPT ![x] = @ \union {e}]
        /\ mail'[t] = Packet(x, "S2C_P_ENTER", e, next) /\ pc'[t] = "send"
    BY <1>1 DEF send_enter_packet, Mail, Goto, Typed, TypeOK
  <2>2. ASSUME NEW p \in Players, NEW q \in Entities, p # x \/ q # e PROVE Untouched(p, q)
    BY <2>1, <2>2 DEF Untouched, Carries, OthersWait, Packet, Typed, TypeOK
  <2>3. e \in viewList'[x] /\ Posts(t, x, e, "S2C_P_ENTER")
    BY <2>1 DEF Posts, Carries, Packet, Typed, TypeOK
  <2> QED
    BY <1>1, <2>2, <2>3
<1>2. CASE e \notin published
  <2>1. pc'[t] = next /\ UNCHANGED viewList
    BY <1>2 DEF send_enter_packet, Goto, Typed, TypeOK
  <2> QED
    BY <1>2, <2>1, CalmStep
<1> QED
  BY <1>1, <1>2

LEMMA MoveSent ==
  ASSUME Typed, NEW t \in Threads, OthersWait(t), pc[t] # "send", UNCHANGED <<viewList, objects>>,
         NEW x \in Players, NEW e \in Entities, NEW next \in Labels \ {"send"},
         NEW kind \in {"S2C_P_MOVE", "S2C_P_STAT_CHANGE"},
         IF kind = "S2C_P_MOVE" THEN send_move_packet(t, x, e, next)
                                ELSE send_stat_change_packet(t, x, e, next)
  PROVE  /\ \A p \in Players, q \in Entities : p # x \/ q # e => Untouched(p, q)
         /\ e \notin published => Untouched(x, e)
         /\ e \in published => Posts(t, x, e, kind)
<1>1. CASE e \in published
  <2>1. mail'[t] = Packet(x, kind, e, next) /\ pc'[t] = "send"
    BY <1>1 DEF send_move_packet, send_stat_change_packet, Mail, Goto, Typed, TypeOK
  <2>2. ASSUME NEW p \in Players, NEW q \in Entities, p # x \/ q # e PROVE Untouched(p, q)
    BY <2>1, <2>2 DEF Untouched, Carries, OthersWait, Packet
  <2>3. Posts(t, x, e, kind)
    BY <2>1 DEF Posts, Carries, Packet
  <2> QED
    BY <1>1, <2>2, <2>3
<1>2. CASE e \notin published
  <2>1. pc'[t] = next
    BY <1>2 DEF send_move_packet, send_stat_change_packet, Goto, Typed, TypeOK
  <2> QED
    BY <1>2, <2>1, CalmStep
<1> QED
  BY <1>1, <1>2

LEMMA LeaveToOther ==
  ASSUME Typed, NEW t \in Threads, OthersWait(t), pc[t] # "send", UNCHANGED objects,
         NEW x \in Players, NEW e \in Entities, NEW next \in Labels \ {"send"},
         send_leave_packet(t, x, e, next),
         NEW p \in Players, NEW q \in Entities, p # x \/ q # e
  PROVE  Untouched(p, q)
<1>1. CASE e \in viewList[x]
  <2>1. /\ viewList' = [viewList EXCEPT ![x] = @ \ {e}]
        /\ mail'[t] = Packet(x, "S2C_P_LEAVE", e, next) /\ pc'[t] = "send"
    BY <1>1 DEF send_leave_packet, Mail, Goto, Typed, TypeOK
  <2> QED
    BY <2>1 DEF Untouched, Carries, OthersWait, Packet, Typed, TypeOK
<1>2. CASE e \notin viewList[x]
  <2>1. pc'[t] = next /\ UNCHANGED viewList
    BY <1>2 DEF send_leave_packet, Goto, Typed, TypeOK
  <2> QED
    BY <2>1, CalmStep
<1> QED
  BY <1>1, <1>2

LEMMA LeaveSent ==
  ASSUME Typed, NEW t \in Threads, OthersWait(t), pc[t] # "send", UNCHANGED objects,
         NEW x \in Players, NEW e \in Entities, NEW next \in Labels \ {"send"},
         send_leave_packet(t, x, e, next)
  PROVE  /\ e \notin viewList[x] => Untouched(x, e) /\ UNCHANGED parted
         /\ e \in viewList[x] =>
              /\ e \notin viewList'[x] /\ Posts(t, x, e, "S2C_P_LEAVE")
              /\ e \in Players => <<x, e>> \in parted'
         /\ parted \subseteq parted'
<1>1. CASE e \in viewList[x]
  <2>1. /\ viewList' = [viewList EXCEPT ![x] = @ \ {e}]
        /\ mail'[t] = Packet(x, "S2C_P_LEAVE", e, next) /\ pc'[t] = "send"
        /\ parted' = parted \union ({<<x, e>>} \intersect (Players \X Players))
    BY <1>1 DEF send_leave_packet, Mail, Goto, Typed, TypeOK
  <2>2. e \notin viewList'[x] /\ Posts(t, x, e, "S2C_P_LEAVE")
    BY <2>1 DEF Posts, Carries, Packet, Typed, TypeOK
  <2>3. (e \in Players => <<x, e>> \in parted') /\ parted \subseteq parted'
    BY <2>1
  <2> QED
    BY <1>1, <2>2, <2>3
<1>2. CASE e \notin viewList[x]
  <2>1. pc'[t] = next /\ UNCHANGED <<viewList, parted>>
    BY <1>2 DEF send_leave_packet, Goto, Typed, TypeOK
  <2> QED
    BY <1>2, <2>1, CalmStep
<1> QED
  BY <1>1, <1>2

LEMMA UntouchedIsTracked ==
  ASSUME NEW p, NEW q, Untouched(p, q), Tracked(p, q)
  PROVE  Tracked(p, q)'
BY DEF Untouched, Tracked, Entering

(* The steps that send nothing. *)
CalmMove(t) ==
  \/ \E p \in Players, s \in Spots : StartMove(t, p, s)
  \/ CopyViewList(t) \/ Look(t) \/ AllGreeted(t) \/ AllVisited(t)
CalmLogin(t) ==
  \/ \E p \in Players, s \in Spots : StartLogin(t, p, s)
  \/ Insert(t) \/ LockSector(t) \/ UnlockSector(t)
CalmLeave(t) ==
  \/ \E p \in Players : StartLeave(t, p)
  \/ Erase(t) \/ CopyToTell(t) \/ ChangeState(t)
CalmNpc(t) ==
  \/ \E n \in Npcs, s \in Spots : StartNpcMove(t, n, s)
  \/ \E n \in Npcs : StartNpcHit(t, n)
  \/ NpcMove(t) \/ NpcLook(t) \/ AllTold(t) \/ Bury(t)
Calm(t) == CalmMove(t) \/ CalmLogin(t) \/ CalmLeave(t) \/ CalmNpc(t)

LEMMA CalmSteps ==
  ASSUME Typed, NEW t \in Threads, Calm(t)
  PROVE  /\ OthersWait(t) /\ Forward /\ UNCHANGED <<parted, mail>>
         /\ pc[t] # "send" /\ pc'[t] # "send" /\ UNCHANGED <<viewList, objects>>
         /\ \A p, q : Untouched(p, q)
<1>1. Steps(t)
  BY DEF Calm, CalmMove, CalmLogin, CalmLeave, CalmNpc, Steps, Moving, LoggingIn, Leaving,
     NpcMoving, NpcHurt
<1>2. OthersWait(t) /\ Forward
  BY <1>1, StepsTyped DEF Kept
<1>3. pc \in [Threads -> Labels]
  BY DEF Typed, TypeOK
<1> DEFINE Silent == /\ pc[t] # "send" /\ pc'[t] # "send"
                     /\ UNCHANGED <<viewList, objects, parted, mail>>
<1>4. ASSUME CalmMove(t) PROVE Silent
  <2>1. CASE \E p \in Players, s \in Spots : StartMove(t, p, s)
    BY <1>3, <2>1 DEF StartMove, Begin, Goto, history
  <2>2. CASE CopyViewList(t)
    BY <1>3, <2>2 DEF CopyViewList, Goto, history
  <2>3. CASE Look(t)
    BY <1>3, <2>3 DEF Look, Goto, history
  <2>4. CASE AllGreeted(t)
    BY <1>3, <2>4 DEF AllGreeted, Goto, history
  <2>5. CASE AllVisited(t)
    BY <1>3, <2>5 DEF AllVisited, Return, Goto, history
  <2> QED
    BY <1>4, <2>1, <2>2, <2>3, <2>4, <2>5 DEF CalmMove
<1>5. ASSUME CalmLogin(t) PROVE Silent
  <2>1. CASE \E p \in Players, s \in Spots : StartLogin(t, p, s)
    BY <1>3, <2>1 DEF StartLogin, Begin, Goto, history
  <2>2. CASE Insert(t)
    BY <1>3, <2>2 DEF Insert, Goto, history
  <2>3. CASE LockSector(t)
    BY <1>3, <2>3 DEF LockSector, Goto, history
  <2>4. CASE UnlockSector(t)
    BY <1>3, <2>4 DEF UnlockSector, Return, Goto, history
  <2> QED
    BY <1>5, <2>1, <2>2, <2>3, <2>4 DEF CalmLogin
<1>6. ASSUME CalmLeave(t) PROVE Silent
  <2>1. CASE \E p \in Players : StartLeave(t, p)
    BY <1>3, <2>1 DEF StartLeave, Begin, Goto, history
  <2>2. CASE Erase(t)
    BY <1>3, <2>2 DEF Erase, Goto, history
  <2>3. CASE CopyToTell(t)
    BY <1>3, <2>3 DEF CopyToTell, Goto, history
  <2>4. CASE ChangeState(t)
    BY <1>3, <2>4 DEF ChangeState, Goto, history
  <2> QED
    BY <1>6, <2>1, <2>2, <2>3, <2>4 DEF CalmLeave
<1>7. ASSUME CalmNpc(t) PROVE Silent
  <2>1. CASE \E n \in Npcs, s \in Spots : StartNpcMove(t, n, s)
    BY <1>3, <2>1 DEF StartNpcMove, Begin, Goto, history
  <2>2. CASE \E n \in Npcs : StartNpcHit(t, n)
    BY <1>3, <2>2 DEF StartNpcHit, Begin, Goto, history
  <2>3. CASE NpcMove(t)
    BY <1>3, <2>3 DEF NpcMove, Goto, history
  <2>4. CASE NpcLook(t)
    BY <1>3, <2>4 DEF NpcLook, Goto, history
  <2>5. CASE AllTold(t)
    BY <1>3, <2>5 DEF AllTold, Goto, history
  <2>6. CASE Bury(t)
    BY <1>3, <2>6 DEF Bury, Return, Goto, history
  <2> QED
    BY <1>7, <2>1, <2>2, <2>3, <2>4, <2>5, <2>6 DEF CalmNpc
<1>8. Silent
  BY <1>4, <1>5, <1>6, <1>7 DEF Calm
<1> QED
  BY <1>2, <1>8, CalmStep

(* The client that is sent a packet shows what it says. *)
LEMMA Received ==
  ASSUME Typed, NEW t \in Threads, do_send(t), NEW p \in Players, NEW q \in Entities
  PROVE  /\ q \in viewList'[p] <=> q \in viewList[p]
         /\ ~Carries(t, p, q)'
         /\ \A u \in Threads \ {t} :
              /\ Carries(u, p, q)' <=> Carries(u, p, q)
              /\ mail'[u].kind = mail[u].kind
         /\ objects'[p][q] = IF Carries(t, p, q) THEN Shown(objects[p][q], mail[t].kind)
                                                 ELSE objects[p][q]
<1>1. OthersWait(t) /\ Mails(t) /\ Mails(t)' /\ Label(t)' = Label(t)
  BY SendTyped DEF Kept, Typed
<1>2. pc[t] = "send" /\ pc'[t] # "send"
  BY <1>1 DEF do_send, Mails, Goto, Typed, TypeOK, PlayerLabels, LeaveLabels, NpcLabels
<1>3. objects'[p][q] = IF Carries(t, p, q) THEN Shown(objects[p][q], mail[t].kind)
                                           ELSE objects[p][q]
  BY <1>1, <1>2 DEF do_send, Carries, Mails, Typed, TypeOK
<1> QED
  BY <1>1, <1>2, <1>3 DEF OthersWait, Carries, do_send

(* The steps that send a packet, if need be: of its own entity or to it, and  *)
(* of or to what it has in hand.                                            *)
InHand(t, e) ==
  e \in todo[t] \union {peer[t]} \/ (e = ent[t] /\ pc[t] \notin LeaveLabels)
Sends(t) ==
  \E x \in Players, e \in Entities, next \in Labels \ {"send"} :
    /\ pc[t] # "send" /\ UNCHANGED objects
    /\ ent[t] \in {x, e} /\ InHand(t, x)
    /\ \/ send_enter_packet(t, x, e, next) /\ InHand(t, e)
       \/ send_leave_packet(t, x, e, next) /\ (ent[t] = x \/ e \in Npcs \/ pc[t] = "tell")
       \/ /\ UNCHANGED <<viewList, parted>>
          /\ \/ send_move_packet(t, x, e, next) /\ (e \in viewList[x] \/ e \in Npcs)
             \/ send_stat_change_packet(t, x, e, next) /\ e \in Npcs
             \/ Goto(t, next)

LEMMA WhatStepsDo ==
  ASSUME Typed, NEW t \in Threads, Steps(t)
  PROVE  Calm(t) \/ do_send(t) \/ Unpublish(t) \/ Sends(t)
<1> USE Values DEF Sends, InHand, LeaveLabels, Labels, Visit, history, local
<1>1. pc \in [Threads -> Labels] /\ Handles(t)
  BY DEF Typed, TypeOK
<1>2. ASSUME NEW f \in Entities, Greet(t, f) PROVE Sends(t)
  BY <1>1, <1>2 DEF Greet, Handles, Label, PlayerLabels, Goto
<1>3. ASSUME NEW f \in Entities, Part(t, f) PROVE Sends(t)
  BY <1>1, <1>3 DEF Part, Handles, Label, PlayerLabels, Goto
<1>4. CASE EnterPeer(t)
  BY <1>1, <1>4 DEF EnterPeer, Handles, Label, PlayerLabels, Goto
<1>5. CASE GreetBack(t)
  BY <1>1, <1>5 DEF GreetBack, Handles, Label, PlayerLabels, Goto
<1>6. ASSUME NEW f \in Entities, Meet(t, f) PROVE Sends(t)
  BY <1>1, <1>6 DEF Meet, Handles, Label, PlayerLabels, Goto
<1>7. ASSUME NEW f \in Entities, Tell(t, f) PROVE Sends(t)
  BY <1>1, <1>7 DEF Tell, Handles, Label, LeaveLabels, Goto
<1>8. ASSUME NEW f \in Players, NpcTell(t, f) PROVE Sends(t)
  BY <1>1, <1>8 DEF NpcTell, Handles, Label, NpcLabels, Goto
<1>9. ASSUME NEW f \in Players, NpcPart(t, f) PROVE Sends(t)
  BY <1>1, <1>9 DEF NpcPart, Handles, Label, NpcLabels, Goto
<1>10. ASSUME NEW f \in Players, TellHp(t, f) PROVE Sends(t)
  BY <1>1, <1>10 DEF TellHp, Handles, Label, NpcLabels, Goto
<1>11. CASE TellDeath(t)
  BY <1>1, <1>11 DEF TellDeath, Handles, Label, NpcLabels, Goto
<1> HIDE DEF Sends
<1> QED
  BY <1>2, <1>3, <1>4, <1>5, <1>6, <1>7, <1>8, <1>9, <1>10, <1>11 DEF Steps, Moving, LoggingIn,
     Leaving, NpcMoving, NpcHurt, Calm, CalmMove, CalmLogin, CalmLeave, CalmNpc

LEMMA TrackedByStep ==
  ASSUME Typed, NEW t \in Threads, Steps(t),
         NEW p \in Players, NEW q \in Players, state[p] # "ST_FREE", Tracked(p, q)
  PROVE  Tracked(p, q)' \/ <<p, q>> \in parted'
<1>1. Kept(t) /\ q \in Entities
  BY StepsTyped, Values
<1>2. ASSUME Untouched(p, q) PROVE Tracked(p, q)'
  BY <1>2, UntouchedIsTracked
<1>3. ASSUME q \in viewList'[p], Posts(t, p, q, "S2C_P_ENTER"), pc[t] # "send"
      PROVE  Tracked(p, q)'
  <2>1. ASSUME NEW u \in Threads, Carries(u, p, q)'
        PROVE  mail'[u].kind \in {"S2C_P_ENTER", "S2C_P_MOVE"}
    BY <1>1, <1>3, <2>1 DEF Posts, Tracked, Kept, OthersWait, Carries
  <2> QED
    BY <1>3, <2>1 DEF Tracked, Entering, Posts
<1>4. ASSUME q \in viewList[p], UNCHANGED viewList, Posts(t, p, q, "S2C_P_MOVE"), pc[t] # "send"
      PROVE  Tracked(p, q)'
  <2>1. ASSUME NEW u \in Threads, Carries(u, p, q)'
        PROVE  mail'[u].kind \in {"S2C_P_ENTER", "S2C_P_MOVE"}
    BY <1>1, <1>4, <2>1 DEF Posts, Tracked, Kept, OthersWait, Carries
  <2>2. Entering(p, q) => Entering(p, q)'
    BY <1>1, <1>4 DEF Entering, Kept, OthersWait, Carries
  <2> QED
    BY <1>4, <2>1, <2>2 DEF Tracked, Posts
<1>5. CASE Calm(t)
  BY <1>2, <1>5, CalmSteps
<1>6. CASE do_send(t)
  <2>1. /\ q \in viewList'[p] <=> q \in viewList[p]
        /\ ~Carries(t, p, q)'
        /\ \A u \in Threads \ {t} :
             (Carries(u, p, q)' <=> Carries(u, p, q)) /\ mail'[u].kind = mail[u].kind
        /\ objects'[p][q] = IF Carries(t, p, q) THEN Shown(objects[p][q], mail[t].kind)
                                                ELSE objects[p][q]
    BY <1>1, <1>6, Received
  <2>2. \A u \in Threads : Carries(u, p, q)' =>
          q \in viewList'[p] /\ mail'[u].kind \in {"S2C_P_ENTER", "S2C_P_MOVE"}
    BY <2>1 DEF Tracked
  <2>3. CASE q \notin viewList[p]
    BY <2>1, <2>2, <2>3 DEF Tracked
  <2>4. CASE q \in viewList[p]
    <3>1. objects'[p][q] = "shown" \/ Entering(p, q)'
      BY <2>1, <2>4 DEF Tracked, Entering, Shown, Touched
    <3> QED
      BY <2>1, <2>2, <2>4, <3>1 DEF Tracked
  <2> QED
    BY <2>3, <2>4
<1>7. CASE Unpublish(t)
  <2>1. ent[t] # p /\ pc[t] # "send" /\ pc'[t] # "send"
    BY <1>7 DEF Unpublish, Return, Goto, Typed, TypeOK, Handles, Label
  <2>2. Untouched(p, q)
    BY <1>1, <1>7, <2>1 DEF Unpublish, Untouched, Carries, Kept, OthersWait, Typed, TypeOK
  <2> QED
    BY <1>2, <2>2
<1>8. ASSUME NEW x \in Players, NEW e \in Entities, NEW next \in Labels \ {"send"}, pc[t] # "send",
             UNCHANGED objects, send_enter_packet(t, x, e, next)
      PROVE  Tracked(p, q)'
  BY <1>1, <1>2, <1>3, <1>8, EnterSent DEF Kept
<1>9. ASSUME NEW x \in Players, NEW e \in Entities, NEW next \in Labels \ {"send"}, pc[t] # "send",
             UNCHANGED objects, send_leave_packet(t, x, e, next)
      PROVE  Tracked(p, q)' \/ <<p, q>> \in parted'
  <2>1. x # p \/ e # q \/ e \notin viewList[x] => Untouched(p, q)
    <3>1. x # p \/ e # q => Untouched(p, q)
      BY <1>1, <1>9, LeaveToOther DEF Kept
    <3>2. e \notin viewList[x] => Untouched(x, e)
      BY <1>1, <1>9, LeaveSent DEF Kept
    <3> QED
      BY <3>1, <3>2
  <2>2. x = p /\ e = q /\ e \in viewList[x] => <<p, q>> \in parted'
    BY <1>1, <1>9, LeaveSent DEF Kept
  <2> QED
    BY <1>2, <2>1, <2>2
<1>10. ASSUME NEW x \in Players, NEW e \in Entities, NEW next \in Labels \ {"send"}, pc[t] # "send",
              UNCHANGED <<viewList, objects>>, send_move_packet(t, x, e, next),
              e \in viewList[x] \/ e \in Npcs
       PROVE  Tracked(p, q)'
  <2>1. x # p \/ e # q => Untouched(p, q)
    BY <1>1, <1>10, MoveSent DEF Kept
  <2>2. x = p /\ e = q => Untouched(p, q) \/ (Posts(t, p, q, "S2C_P_MOVE") /\ q \in viewList[p])
    BY <1>1, <1>10, Values, MoveSent DEF Kept
  <2> QED
    BY <1>2, <1>4, <1>10, <2>1, <2>2
<1>11. ASSUME NEW x \in Players, NEW e \in Npcs, NEW next \in Labels \ {"send"}, pc[t] # "send",
              UNCHANGED <<viewList, objects>>, send_stat_change_packet(t, x, e, next)
       PROVE  Tracked(p, q)'
  <2>1. e # q /\ e \in Entities
    BY Values
  <2> QED
    BY <1>1, <1>2, <1>11, <2>1, MoveSent DEF Kept
<1>12. ASSUME NEW next \in Labels \ {"send"}, pc[t] # "send", Goto(t, next), UNCHANGED <<viewList, objects>>
       PROVE  Tracked(p, q)'
  BY <1>1, <1>2, <1>12, CalmStep DEF Kept, Goto, Typed, TypeOK
<1>13. CASE Sends(t)
  BY <1>8, <1>9, <1>10, <1>11, <1>12, <1>13 DEF Sends
<1> QED
  BY <1>5, <1>6, <1>7, <1>13, WhatStepsDo

LEMMA PartedStays ==
  ASSUME Typed, NEW t \in Threads, Steps(t),
         NEW p \in Players, NEW q \in Players, state[p] # "ST_FREE", <<p, q>> \in parted
  PROVE  <<p, q>> \in parted'
<1>1. CASE Calm(t)
  BY <1>1, CalmSteps
<1>2. CASE do_send(t)
  BY <1>2 DEF do_send, history
<1>3. CASE Unpublish(t)
  BY <1>3 DEF Unpublish, Typed, Handles, Label
<1>4. CASE Sends(t)
  BY <1>4 DEF Sends, send_enter_packet, send_leave_packet
<1> QED
  BY <1>1, <1>2, <1>3, <1>4, WhatStepsDo

LEMMA ListsTrackedAtFirst == Init => ListsTracked
BY Values DEF Init, ListsTracked, Tracked, Carries

LEMMA ListsStayTracked == Typed /\ ListsTracked /\ [Next]_vars => ListsTracked'
<1> SUFFICES ASSUME Typed, ListsTracked, [Next]_vars,
                    NEW p \in Players, NEW q \in Players,
                    state'[p] # "ST_FREE", <<p, q>> \notin parted'
             PROVE  Tracked(p, q)'
  BY DEF ListsTracked
<1>1. ASSUME NEW t \in Threads, Steps(t) PROVE Tracked(p, q)'
  <2>1. state[p] # "ST_FREE"
    BY <1>1, StepsTyped, Values DEF Kept, Forward
  <2> QED
    BY <1>1, <2>1, PartedStays, TrackedByStep DEF ListsTracked
<1>2. CASE (\E n \in Npcs : Respawn(n)) \/ UNCHANGED vars
  <2>1. UNCHANGED <<state, viewList, objects, pc, mail, parted>>
    BY <1>2 DEF Respawn, vars, world, local, history
  <2> QED
    BY <2>1 DEF ListsTracked, Tracked, Entering, Carries
<1> QED
  BY <1>1, <1>2 DEF Next, Steps, GameOver

-----------------------------------------------------------------------------
(* Handlers that overlap.                                                   *)

LEMMA HandlerBeginsOrGoesOn ==
  ASSUME Typed, NEW t \in Threads, Steps(t)
  PROVE  \/ \E e \in Entities : Begin(t, e)
         \/ pc[t] # "idle" /\ ent'[t] \in {ent[t], None} /\ UNCHANGED raced
         \/ Unpublish(t)
<1> USE Values
<1>1. ent \in [Threads -> Entities \union {None}]
  BY DEF Typed, TypeOK
<1>2. CASE Moving(t)
  BY <1>1, <1>2 DEF Moving, StartMove, Greet, Part, CopyViewList, Look, EnterPeer, GreetBack,
     AllGreeted,
     AllVisited, Return, history, local
<1>3. CASE LoggingIn(t)
  BY <1>1, <1>3 DEF LoggingIn, StartLogin, Meet, Insert, LockSector, UnlockSector, Return,
     history, local
<1>4. CASE Leaving(t)
  BY <1>1, <1>4 DEF Leaving, StartLeave, Tell, Erase, CopyToTell, ChangeState, history, local
<1>5. CASE NpcMoving(t)
  BY <1>1, <1>5 DEF NpcMoving, StartNpcMove, NpcTell, NpcPart, NpcMove, NpcLook, AllTold,
     history, local
<1>6. CASE NpcHurt(t)
  BY <1>1, <1>6 DEF NpcHurt, StartNpcHit, TellHp, TellDeath, Bury, Return, history, local
<1>7. CASE do_send(t)
  BY <1>1, <1>7 DEF do_send, history, local
<1> QED
  BY <1>2, <1>3, <1>4, <1>5, <1>6, <1>7 DEF Steps

(* Overlapping handlers are recorded, until one's entity is gone for good. *)
LEMMA RacesStayKnown == Typed /\ RacesKnown /\ [Next]_vars => RacesKnown'
<1> SUFFICES ASSUME Typed, RacesKnown, [Next]_vars PROVE RacesKnown'
  OBVIOUS
<1>1. ASSUME NEW t \in Threads, Steps(t) PROVE RacesKnown'
  <2>1. OthersWait(t) /\ Forward /\ Typed'
    BY <1>1, StepsTyped DEF Kept
  <2> SUFFICES ASSUME NEW u \in Threads, NEW v \in Threads, u # v,
                      pc'[u] # "idle", pc'[v] # "idle", Overlaps(ent'[u], ent'[v])
               PROVE  \/ {ent'[u], ent'[v]} \in raced'
                      \/ state'[ent'[u]] = "ST_FREE" \/ state'[ent'[v]] = "ST_FREE"
    BY DEF RacesKnown
  <2>2. ent'[u] \in Entities /\ ent'[v] \in Entities
    BY <2>1 DEF Typed, TypeOK, Handles
  <2>3. CASE \E e \in Entities : Begin(t, e)
    <3>1. PICK e \in Entities : Begin(t, e)
      BY <2>3
    <3>2. ent'[t] = e /\ raced' = raced \union {{e, f} : f \in Overlapping(e)}
      BY <3>1 DEF Begin, Typed, TypeOK
    <3>3. ASSUME NEW w \in Threads \ {t}, pc'[w] # "idle", Overlaps(e, ent'[w])
          PROVE  {e, ent'[w]} \in raced'
      <4>1. pc[w] # "idle" /\ ent'[w] = ent[w]
        BY <2>1, <3>3 DEF OthersWait
      <4>2. ent[w] \in Overlapping(e)
        BY <3>3, <4>1 DEF Overlapping, Overlaps
      <4> QED
        BY <3>2, <4>1, <4>2
    <3>4. CASE u = t
      BY <3>2, <3>3, <3>4
    <3>5. CASE v = t
      <4>1. Overlaps(e, ent'[u])
        BY <3>2, <3>5 DEF Overlaps
      <4>2. {e, ent'[u]} = {ent'[u], ent'[v]}
        BY <3>2, <3>5
      <4> QED
        BY <3>3, <3>5, <4>1, <4>2
    <3>6. CASE u # t /\ v # t
      <4>1. \A w \in {u, v} : ent'[w] = ent[w] /\ pc[w] # "idle"
        BY <2>1, <3>6 DEF OthersWait
      <4>2. \/ {ent'[u], ent'[v]} \in raced
            \/ state[ent'[u]] = "ST_FREE" \/ state[ent'[v]] = "ST_FREE"
        BY <4>1 DEF RacesKnown
      <4> QED
        BY <2>1, <2>2, <3>2, <4>2 DEF Forward
    <3> QED
      BY <3>4, <3>5, <3>6
  <2>4. CASE pc[t] # "idle" /\ ent'[t] \in {ent[t], None} /\ UNCHANGED raced
    <3>1. \A w \in {u, v} : ent'[w] = ent[w] /\ pc[w] # "idle"
      BY <2>1, <2>2, <2>4, Values DEF OthersWait
    <3> QED
      BY <2>1, <2>2, <2>4, <3>1 DEF RacesKnown, Forward
  <2>5. CASE Unpublish(t)
    <3>1. /\ pc'[t] = "idle" /\ state[ent[t]] = "ST_FREE" /\ state' = state
          /\ raced' = {r \in raced : ent[t] \notin r}
      BY <2>5 DEF Unpublish, Return, Goto, Typed, TypeOK, Handles, Label
    <3>2. \A w \in {u, v} : w # t /\ ent'[w] = ent[w] /\ pc[w] # "idle"
      BY <2>1, <3>1 DEF OthersWait
    <3> QED
      BY <3>1, <3>2 DEF RacesKnown
  <2> QED
    BY <1>1, <2>3, <2>4, <2>5, HandlerBeginsOrGoesOn
<1>2. ASSUME NEW n \in Npcs, Respawn(n) PROVE RacesKnown'
  BY <1>2 DEF Respawn, RacesKnown, local
<1>3. CASE UNCHANGED vars
  BY <1>3 DEF RacesKnown, vars, world, local, history
<1> QED
  BY <1>1, <1>2, <1>3 DEF Next, Steps, GameOver

LEMMA RacesKnownAtFirst == Init => RacesKnown
BY DEF Init, RacesKnown

(* Who leaves is not stopped, and who has not raced had not before.           *)
LEMMA LeaverGoesOn ==
  ASSUME Typed, NEW t \in Threads, Steps(t), ent[t] \in Players, Label(t) \in LeaveLabels
  PROVE  IF Unpublish(t) THEN state[ent[t]] = "ST_FREE"
                         ELSE ent'[t] = ent[t] /\ Label(t)' \in LeaveLabels
<1>1. Kept(t) /\ pc \in [Threads -> Labels] /\ Handles(t)
  BY StepsTyped DEF Typed, TypeOK
<1>2. CASE do_send(t)
  BY <1>2, SendTyped DEF do_send, local, Unpublish
<1>3. CASE ~do_send(t)
  <2>1. pc[t] \in LeaveLabels
    BY <1>3 DEF Steps, Label, LeaveLabels, Moving, LoggingIn, Leaving, NpcMoving, NpcHurt,
       StartMove, Begin, Greet, Part, CopyViewList, Look, EnterPeer, GreetBack, AllGreeted,
       AllVisited, StartLogin, Meet, Insert, LockSector, UnlockSector, StartLeave, Tell, Erase,
       CopyToTell, ChangeState, Unpublish, StartNpcMove, NpcTell, NpcPart, NpcMove, NpcLook,
       AllTold, StartNpcHit, TellHp, TellDeath, Bury
  <2>2. Erase(t) \/ CopyToTell(t) \/ (\E f \in Entities : Tell(t, f)) \/ ChangeState(t) \/ Unpublish(t)
    BY <1>3, <2>1 DEF Steps, LeaveLabels, Moving, LoggingIn, Leaving, NpcMoving, NpcHurt,
       StartMove, Begin, Greet, Part, CopyViewList, Look, EnterPeer, GreetBack, AllGreeted,
       AllVisited, StartLogin, Meet, Insert, LockSector, UnlockSector, StartLeave,
       StartNpcMove, NpcTell, NpcPart, NpcMove, NpcLook,
       AllTold, StartNpcHit, TellHp, TellDeath, Bury
  <2>3. CASE Erase(t) \/ CopyToTell(t) \/ ChangeState(t)
    BY <1>1, <2>3 DEF Erase, CopyToTell, ChangeState, Goto, Label, LeaveLabels, local, Unpublish
  <2>4. ASSUME NEW f \in Entities, Tell(t, f)
        PROVE  ent'[t] = ent[t] /\ Label(t)' \in LeaveLabels /\ pc[t] # "unpublish"
    <3>1. f \in Players /\ pc[t] = "tell" /\ ent[t] \in Entities
      BY <2>4, Values DEF Tell, Visit, Typed, Handles, Label
    <3>2. Goes(t, f, ent[t], "tell")
      BY <2>4, <3>1, SendsGo, GoesOn DEF Tell, Labels
    <3> QED
      BY <2>4, <3>1, <3>2 DEF Goes, Tell, Label, LeaveLabels
  <2>5. CASE Unpublish(t)
    BY <1>1, <2>5 DEF Unpublish, Handles, Label
  <2> QED
    BY <2>2, <2>3, <2>4, <2>5 DEF Unpublish
<1> QED
  BY <1>2, <1>3

LEMMA LeavesStay ==
  ASSUME Typed, NEW t \in Threads, Steps(t), NEW q \in Players, Leaves(q)
  PROVE  Leaves(q)'
<1>1. Kept(t) /\ q \in Entities
  BY StepsTyped, Values
<1>2. CASE state[q] = "ST_FREE"
  BY <1>1, <1>2 DEF Kept, Forward, Leaves
<1>3. ASSUME NEW u \in Threads, ent[u] = q, Label(u) \in LeaveLabels PROVE Leaves(q)'
  <2>1. CASE u # t
    BY <1>1, <1>3, <2>1 DEF Kept, OthersWait, Leaves, Label
  <2>2. CASE u = t
    BY <1>1, <1>2, <1>3, <2>2, LeaverGoesOn DEF Leaves
  <2> QED
    BY <2>1, <2>2
<1> QED
  BY <1>2, <1>3 DEF Leaves

LEMMA RacedStays ==
  ASSUME Typed, NEW t \in Threads, Steps(t), NEW r \in raced,
         \A e \in r : state[e] # "ST_FREE"
  PROVE  r \in raced'
<1>1. CASE Unpublish(t)
  BY <1>1 DEF Unpublish, Typed, Handles, Label
<1> QED
  BY <1>1, HandlerBeginsOrGoesOn DEF Begin

LEMMA SoleBefore ==
  ASSUME Typed, NEW t \in Threads, Steps(t), NEW p \in Players, Sole(p)'
  PROVE  Sole(p)
<1>1. state[p] # "ST_FREE"
  BY StepsTyped, Values DEF Sole, Kept, Forward
<1>2. {p} \in raced => {p} \in raced'
  BY <1>1, RacedStays
<1> QED
  BY <1>1, <1>2 DEF Sole

(* A player that is in the game and has not raced is handled by one thread. *)
LEMMA OneHandler ==
  ASSUME Typed, RacesKnown, NEW p \in Players, Sole(p),
         NEW t \in Threads, NEW u \in Threads, ent[t] = p, ent[u] = p
  PROVE  t = u
<1>1. pc[t] # "idle" /\ pc[u] # "idle"
  BY Values DEF Typed, Handles
<1>2. {ent[t], ent[u]} = {p}
  OBVIOUS
<1> QED
  BY <1>1, <1>2 DEF RacesKnown, Sole, Overlaps

-----------------------------------------------------------------------------
(* What a player found is on its list.                                      *)

(* The steps of a player's handler once it has begun. *)
PlayerSteps(t) ==
  \/ \E f \in Entities : Greet(t, f) \/ Part(t, f) \/ Meet(t, f) \/ Tell(t, f)
  \/ CopyViewList(t) \/ Look(t) \/ EnterPeer(t) \/ GreetBack(t) \/ AllGreeted(t) \/ AllVisited(t)
  \/ Insert(t) \/ LockSector(t) \/ UnlockSector(t)
  \/ Erase(t) \/ CopyToTell(t) \/ ChangeState(t) \/ Unpublish(t)

LEMMA WhoStepsIsPlayer ==
  ASSUME Typed, NEW t \in Threads, Steps(t), ent[t] \in Players
  PROVE  do_send(t) \/ PlayerSteps(t)
<1>1. pc[t] # "idle" /\ Handles(t)
  BY Values DEF Typed, Handles
<1>2. ~NpcHurt(t) /\ ~NpcMoving(t)
  BY <1>1, Values DEF Handles, Label, NpcLabels, NpcMoving, NpcHurt, StartNpcMove, NpcTell,
     NpcPart, NpcMove, NpcLook,
     AllTold, StartNpcHit, TellHp, TellDeath, Bury, Begin
<1>3. CASE Moving(t)
  BY <1>1, <1>3 DEF Moving, StartMove, Begin, PlayerSteps
<1>4. CASE LoggingIn(t)
  BY <1>1, <1>4 DEF LoggingIn, StartLogin, Begin, PlayerSteps
<1>5. CASE Leaving(t)
  BY <1>1, <1>5 DEF Leaving, StartLeave, Begin, PlayerSteps
<1> QED
  BY <1>2, <1>3, <1>4, <1>5 DEF Steps

LEMMA GoesTo ==
  ASSUME NEW t \in Threads, NEW p, NEW e, NEW next \in Labels \ {"send"}, Goes(t, p, e, next)
  PROVE  Label(t)' = next
BY DEF Goes, Label

(* A step of p's own handler keeps what p found on its list, or still to be   *)
(* entered.                                                                 *)
LEMMA OwnStepFinds ==
  ASSUME Typed, NEW t \in Threads, Steps(t), NEW p \in Players, NEW q \in Players, ent[t] = p,
         q \in published, ~Leaves(q), state[p] # "ST_FREE",
         q \in found[p] => q \in viewList[p] \/ ToGreet(t, q),
         OnItsWay(t, p, q)
  PROVE  /\ q \in found'[p] => q \in viewList'[p] \/ (ent'[t] = p /\ ToGreet(t, q)')
         /\ ent'[t] = p => OnItsWay(t, p, q)'
<1> DEFINE Goal == /\ q \in found'[p] => q \in viewList'[p] \/ (ent'[t] = p /\ ToGreet(t, q)')
                   /\ ent'[t] = p => OnItsWay(t, p, q)'
<1>1. Kept(t) /\ q \in Entities /\ p # None
  BY StepsTyped, Values
<1>2. CASE do_send(t)
  <2>1. Label(t)' = Label(t)
    BY <1>2, SendTyped
  <2> QED
    BY <1>2, <2>1 DEF do_send, local, history, ToGreet, OnItsWay
<1>3. CASE CopyViewList(t)
  BY <1>3 DEF CopyViewList, history, Goto, OnItsWay, ToGreet, Label, Greeting, Typed, TypeOK
<1>4. CASE Look(t)
  BY <1>4 DEF Look, Goto, OnItsWay, ToGreet, Label, Greeting, Typed, TypeOK
<1>5. ASSUME NEW f \in Entities, Greet(t, f) PROVE Goal
  <2>1. Label(t) = "greet" /\ pc[t] # "send"
    BY <1>5 DEF Greet, Label
  <2>2. Label(t)' \in Greeting /\ (f = q => Label(t)' \in {"enter", "greetBack"})
    <3>1. CASE f \in Players /\ f \in published /\ p \in viewList[f]
      <4>1. Goes(t, f, p, "greetBack")
        BY <1>5, <2>1, <3>1, Values, SendsGo DEF Greet, Labels
      <4> QED
        BY <4>1, GoesTo DEF Labels, Greeting
    <3>2. CASE ~(f \in Players /\ f \in published /\ p \in viewList[f])
      BY <1>5, <3>2 DEF Greet, Goto, Label, Greeting, Typed, TypeOK
    <3> QED
      BY <3>1, <3>2
  <2>3. /\ todo'[t] = todo[t] \ {f} /\ peer'[t] = f
        /\ UNCHANGED <<found, viewList, old, near, ent>>
    BY <1>5 DEF Greet, Visit, history, Typed, TypeOK
  <2> QED
    BY <2>1, <2>2, <2>3 DEF ToGreet, OnItsWay, Greeting
<1>6. ASSUME NEW f \in Entities, Part(t, f) PROVE Goal
  <2>1. Label(t) = "part" /\ pc[t] # "send"
    BY <1>6 DEF Part, Label
  <2>2. Goes(t, p, f, "part")
    BY <1>6, <2>1, SendsGo, GoesOn DEF Part, Labels
  <2>3. Label(t)' = "part"
    BY <2>2, GoesTo DEF Labels
  <2>4. /\ todo'[t] = todo[t] \ {f} /\ f \in todo[t]
        /\ UNCHANGED <<found, old, near, ent>>
    BY <1>6 DEF Part, Visit, Typed, TypeOK
  <2>5. q \in viewList[p] /\ q # f => q \in viewList'[p]
    BY <1>6 DEF Part, send_leave_packet, Typed, TypeOK
  <2> QED
    BY <2>1, <2>3, <2>4, <2>5 DEF ToGreet, OnItsWay, Greeting
<1>7. ASSUME EnterPeer(t) PROVE Goal
  <2>1. Label(t) = "enter" /\ pc[t] # "send" /\ peer[t] \in Players
    BY <1>7 DEF EnterPeer, Label, Typed, Handles
  <2>2. Goes(t, peer[t], p, "greetBack")
    BY <1>7, <2>1, Values, SendsGo DEF EnterPeer, Labels
  <2>3. Label(t)' = "greetBack"
    BY <2>2, GoesTo DEF Labels
  <2>4. UNCHANGED <<found, old, near, todo, peer, ent>>
    BY <1>7 DEF EnterPeer, local
  <2>5. q \in viewList[p] => q \in viewList'[p]
    <3>1. viewList \in [Players -> SUBSET Entities]
      BY DEF Typed, TypeOK
    <3> QED
      BY <1>7, <2>1, <3>1 DEF EnterPeer, send_enter_packet
  <2> QED
    BY <2>1, <2>3, <2>4, <2>5 DEF ToGreet, OnItsWay, Greeting
<1>8. ASSUME GreetBack(t) PROVE Goal
  <2>1. Label(t) = "greetBack" /\ pc[t] # "send" /\ peer[t] \in Entities
    BY <1>8 DEF GreetBack, Label, Typed, Handles
  <2>2. Goes(t, p, peer[t], "greet")
    BY <1>8, <2>1, SendsGo, GoesOn DEF GreetBack, Labels
  <2>3. Label(t)' = "greet"
    BY <2>2, GoesTo DEF Labels
  <2>4. UNCHANGED <<found, old, near, todo, ent>>
    BY <1>8 DEF GreetBack
  <2>5. q \in viewList[p] => q \in viewList'[p]
    BY <1>8 DEF GreetBack, send_enter_packet, Typed, TypeOK
  <2>6. peer[t] = q => q \in viewList'[p]
    BY <1>8, <2>1 DEF GreetBack, send_enter_packet, Typed, TypeOK, OnItsWay, Greeting
  <2> QED
    BY <2>1, <2>3, <2>4, <2>5, <2>6 DEF ToGreet, OnItsWay, Greeting
<1>9. CASE AllGreeted(t)
  BY <1>9 DEF AllGreeted, NextLoop, history, Goto, OnItsWay, ToGreet, Label, Greeting, Typed, TypeOK
<1>10. CASE AllVisited(t)
  BY <1>1, <1>10 DEF AllVisited, Return, history, Goto, OnItsWay, ToGreet, Label, Greeting,
     Typed, TypeOK
<1>11. CASE Insert(t)
  BY <1>11 DEF Insert, history, local, Goto, OnItsWay, ToGreet, Label, Greeting, Typed, TypeOK
<1>12. CASE LockSector(t)
  BY <1>12 DEF LockSector, history, Goto, OnItsWay, ToGreet, Label, Greeting, Typed, TypeOK
<1>13. ASSUME NEW f \in Entities, Meet(t, f) PROVE Goal
  <2>1. Label(t) = "meet" /\ pc[t] # "send"
    BY <1>13 DEF Meet, Label
  <2>2. Goes(t, p, f, "meet")
    BY <1>13, <2>1, SendsGo, GoesOn DEF Meet, Labels
  <2>3. Label(t)' = "meet"
    BY <2>2, GoesTo DEF Labels
  <2>4. UNCHANGED <<old, near, ent>>
    BY <1>13 DEF Meet
  <2>5. q \in viewList[p] => q \in viewList'[p]
    BY <1>13 DEF Meet, send_enter_packet, Typed, TypeOK
  <2>6. q \in found'[p] => q \in found[p] \/ q \in viewList'[p]
    BY <1>13 DEF Meet, send_enter_packet, Typed, TypeOK, Around
  <2> QED
    BY <2>1, <2>3, <2>4, <2>5, <2>6 DEF ToGreet, OnItsWay, Greeting
<1>14. CASE UnlockSector(t)
  BY <1>1, <1>14 DEF UnlockSector, Return, history, Goto, OnItsWay, ToGreet, Label, Greeting,
     Typed, TypeOK
<1>15. CASE Erase(t) \/ CopyToTell(t) \/ ChangeState(t)
  BY <1>15 DEF Erase, CopyToTell, ChangeState, history, local, Goto, OnItsWay, ToGreet, Label,
     Greeting, Typed, TypeOK
<1>16. ASSUME NEW f \in Entities, Tell(t, f) PROVE Goal
  <2>1. Label(t) = "tell" /\ pc[t] # "send" /\ f \in Players /\ p # q
    BY <1>16 DEF Tell, Visit, Label, Typed, Handles, Leaves, LeaveLabels
  <2>2. Goes(t, f, p, "tell")
    BY <1>16, <2>1, Values, SendsGo, GoesOn DEF Tell, Labels
  <2>3. Label(t)' = "tell"
    BY <2>2, GoesTo DEF Labels
  <2>4. UNCHANGED <<found, old, near, ent>>
    BY <1>16 DEF Tell
  <2>5. q \in viewList[p] => q \in viewList'[p]
    <3>1. viewList \in [Players -> SUBSET Entities]
      BY DEF Typed, TypeOK
    <3>2. viewList' = viewList \/ viewList' = [viewList EXCEPT ![f] = @ \ {p}]
      BY <1>16 DEF Tell, send_leave_packet
    <3> QED
      BY <2>1, <3>1, <3>2
  <2> QED
    BY <2>1, <2>3, <2>4, <2>5 DEF ToGreet, OnItsWay, Greeting
<1>17. CASE Unpublish(t)
  BY <1>17 DEF Unpublish, Typed, Handles, Label
<1> QED
  BY <1>2, <1>3, <1>4, <1>5, <1>6, <1>7, <1>8, <1>9, <1>10, <1>11, <1>12, <1>13, <1>14, <1>15,
     <1>16, <1>17,
     WhoStepsIsPlayer DEF PlayerSteps

LEMMA WhatBegins ==
  ASSUME Typed, NEW t \in Threads, Steps(t), pc[t] = "idle"
  PROVE  \/ \E p \in Players, s \in Spots : StartMove(t, p, s) \/ StartLogin(t, p, s)
         \/ \E p \in Players : StartLeave(t, p)
         \/ \E n \in Npcs : Begin(t, n) /\ ((\E s \in Spots : StartNpcMove(t, n, s)) \/ StartNpcHit(t, n))
<1>1. CASE Moving(t)
  BY <1>1 DEF Moving, Greet, Part, CopyViewList, Look, EnterPeer, GreetBack, AllGreeted, AllVisited
<1>2. CASE LoggingIn(t)
  BY <1>2 DEF LoggingIn, Meet, Insert, LockSector, UnlockSector
<1>3. CASE Leaving(t)
  BY <1>3 DEF Leaving, Tell, Erase, CopyToTell, ChangeState, Unpublish
<1>4. CASE NpcMoving(t)
  BY <1>4 DEF NpcMoving, StartNpcMove, NpcTell, NpcPart, NpcMove, NpcLook, AllTold
<1>5. CASE NpcHurt(t)
  BY <1>5 DEF NpcHurt, StartNpcHit, TellHp, TellDeath, Bury
<1>6. CASE do_send(t)
  BY <1>6 DEF do_send
<1> QED
  BY <1>1, <1>2, <1>3, <1>4, <1>5, <1>6 DEF Steps

LEMMA WhoBegins ==
  ASSUME Typed, NEW t \in Threads, Steps(t), NEW p \in Players, ent[t] # p, ent'[t] = p
  PROVE  /\ Begin(t, p)
         /\ \/ \E s \in Spots : StartMove(t, p, s) \/ StartLogin(t, p, s)
            \/ StartLeave(t, p)
<1> USE Values
<1>1. p # None /\ ent'[t] # None /\ \A n \in Npcs : n # p
  OBVIOUS
<1>2. PICK e \in Entities : Begin(t, e)
  <2>1. ~Unpublish(t)
    BY <1>1 DEF Unpublish, Return, Typed, TypeOK
  <2> QED
    BY <1>1, <2>1, HandlerBeginsOrGoesOn
<1>3. \A x \in Entities : Begin(t, x) => x = p
  BY DEF Begin, Typed, TypeOK
<1>4. pc[t] = "idle" /\ e = p
  BY <1>2, <1>3 DEF Begin
<1>5. \/ \E x \in Players, s \in Spots : StartMove(t, x, s) \/ StartLogin(t, x, s)
      \/ \E x \in Players : StartLeave(t, x)
      \/ \E n \in Npcs : Begin(t, n)
  BY <1>4, WhatBegins
<1> QED
  BY <1>1, <1>2, <1>3, <1>4, <1>5 DEF StartMove, StartLogin, StartLeave

(* Another one's step takes a player off p's list only to leave itself.       *)
LEMMA OtherStepFinds ==
  ASSUME Typed, NEW t \in Threads, Steps(t), NEW p \in Players, NEW q \in Players, ent[t] # p,
         ~Leaves(q)
  PROVE  /\ found'[p] = found[p]
         /\ q \in viewList[p] => q \in viewList'[p]
         /\ ent'[t] = p => Label(t)' \in {"copy", "insert", "erase"}
<1> USE Values
<1>1. found'[p] = found[p]
  <2>1. found \in [Players -> SUBSET Players]
    BY DEF Typed, TypeOK
  <2>2. CASE Moving(t)
    BY <2>1, <2>2 DEF Moving, StartMove, Greet, Part, CopyViewList, Look, EnterPeer, GreetBack,
       AllGreeted,
       AllVisited, history
  <2>3. CASE LoggingIn(t)
    BY <2>1, <2>3 DEF LoggingIn, StartLogin, Meet, Insert, LockSector, UnlockSector, history
  <2>4. CASE Leaving(t)
    BY <2>1, <2>4 DEF Leaving, StartLeave, Tell, Erase, CopyToTell, ChangeState, Unpublish, history
  <2>5. CASE NpcMoving(t)
    BY <2>5 DEF NpcMoving, StartNpcMove, NpcTell, NpcPart, NpcMove, NpcLook, AllTold, history
  <2>6. CASE NpcHurt(t)
    BY <2>6 DEF NpcHurt, StartNpcHit, TellHp, TellDeath, Bury, history
  <2>7. CASE do_send(t)
    BY <2>7 DEF do_send, history
  <2> QED
    BY <2>2, <2>3, <2>4, <2>5, <2>6, <2>7 DEF Steps
<1>2. q \in viewList[p] => q \in viewList'[p]
  <2>1. viewList \in [Players -> SUBSET Entities]
    BY DEF Typed, TypeOK
  <2>2. CASE Calm(t) \/ do_send(t)
    BY <2>2, CalmSteps DEF do_send
  <2>3. CASE Unpublish(t)
    BY <2>1, <2>3 DEF Unpublish
  <2>4. CASE Sends(t)
    <3>1. PICK x \in Players, e \in Entities, next \in Labels :
            /\ pc[t] # "send" /\ ent[t] \in {x, e}
            /\ \/ send_enter_packet(t, x, e, next)
               \/ send_leave_packet(t, x, e, next) /\ (ent[t] = x \/ e \in Npcs \/ pc[t] = "tell")
               \/ UNCHANGED viewList
      BY <2>4 DEF Sends
    <3>2. CASE send_enter_packet(t, x, e, next) \/ UNCHANGED viewList
      BY <2>1, <3>2 DEF send_enter_packet
    <3>3. CASE send_leave_packet(t, x, e, next) /\ (ent[t] = x \/ e \in Npcs \/ pc[t] = "tell")
      <4>1. x # p \/ e # q
        BY <3>1, <3>3 DEF Leaves, Label, LeaveLabels
      <4>2. viewList' = viewList \/ viewList' = [viewList EXCEPT ![x] = @ \ {e}]
        BY <3>3 DEF send_leave_packet
      <4> QED
        BY <2>1, <4>1, <4>2
    <3> QED
      BY <3>1, <3>2, <3>3
  <2> QED
    BY <2>2, <2>3, <2>4, WhatStepsDo
<1>3. ent'[t] = p => Label(t)' \in {"copy", "insert", "erase"}
  <2> SUFFICES ASSUME ent'[t] = p PROVE Label(t)' \in {"copy", "insert", "erase"}
    OBVIOUS
  <2>1. \/ \E s \in Spots : StartMove(t, p, s) \/ StartLogin(t, p, s)
        \/ StartLeave(t, p)
    BY WhoBegins
  <2>2. Goto(t, "copy") \/ Goto(t, "insert") \/ Goto(t, "erase")
    BY <2>1 DEF StartMove, StartLogin, StartLeave
  <2>3. pc \in [Threads -> Labels]
    BY DEF Typed, TypeOK
  <2> QED
    BY <2>2, <2>3 DEF Goto, Label
<1> QED
  BY <1>1, <1>2, <1>3

LEMMA FoundStaysListed ==
  Typed /\ RacesKnown /\ FoundListed /\ [Next]_vars => FoundListed'
<1> SUFFICES ASSUME Typed, RacesKnown, FoundListed, [Next]_vars,
                    NEW p \in Players, NEW q \in Players, Sole(p)', ~Leaves(q)'
             PROVE  FoundBy(p, q)'
  BY DEF FoundListed
<1>1. ASSUME NEW t \in Threads, Steps(t) PROVE FoundBy(p, q)'
  <2>1. Sole(p) /\ ~Leaves(q)
    BY <1>1, SoleBefore, LeavesStay
  <2>2. FoundBy(p, q) /\ OthersWait(t)
    BY <1>1, <2>1, StepsTyped DEF FoundListed, Kept
  <2>3. ASSUME NEW u \in Threads \ {t}
        PROVE  /\ ent'[u] = ent[u] /\ Label(u)' = Label(u)
               /\ ToGreet(u, q)' <=> ToGreet(u, q)
               /\ UNCHANGED <<old[u], near[u], todo[u]>>
    BY <2>2 DEF OthersWait, Label, ToGreet
  <2>4. CASE ent[t] = p
    <3>1. ASSUME NEW u \in Threads \ {t} PROVE ent'[u] # p
      BY <2>1, <2>3, <2>4, <3>1, OneHandler
    <3>2. /\ q \in found[p] => q \in viewList[p] \/ ToGreet(t, q)
          /\ OnItsWay(t, p, q)
      BY <2>1, <2>2, <2>4, OneHandler DEF FoundBy
    <3>3. q \in published /\ state[p] # "ST_FREE"
      BY <2>1, Values DEF Sole, Leaves, Typed, Standing
    <3>4. /\ q \in found'[p] => q \in viewList'[p] \/ (ent'[t] = p /\ ToGreet(t, q)')
          /\ ent'[t] = p => OnItsWay(t, p, q)'
      BY <1>1, <2>1, <2>4, <3>2, <3>3, OwnStepFinds
    <3> QED
      BY <3>1, <3>4 DEF FoundBy
  <2>5. CASE ent[t] # p
    <3>1. /\ found'[p] = found[p]
          /\ q \in viewList[p] => q \in viewList'[p]
          /\ ent'[t] = p => Label(t)' \in {"copy", "insert", "erase"}
      BY <1>1, <2>1, <2>5, OtherStepFinds
    <3>2. ASSUME NEW u \in Threads, ent'[u] = p PROVE OnItsWay(u, p, q)'
      <4>1. CASE u = t
        BY <3>1, <3>2, <4>1 DEF OnItsWay, Greeting
      <4>2. CASE u # t
        BY <2>2, <2>3, <3>1, <3>2, <4>2 DEF OnItsWay, FoundBy
      <4> QED
        BY <4>1, <4>2
    <3>3. q \in found'[p] => q \in viewList'[p] \/ \E u \in Threads : ent'[u] = p /\ ToGreet(u, q)'
      BY <2>2, <2>3, <2>5, <3>1 DEF FoundBy
    <3> QED
      BY <3>2, <3>3 DEF FoundBy
  <2> QED
    BY <2>4, <2>5
<1>2. CASE (\E n \in Npcs : Respawn(n)) \/ UNCHANGED vars
  <2>1. UNCHANGED <<state, viewList, pc, ent, old, near, todo, peer, mail, found>>
    BY <1>2 DEF Respawn, vars, world, local, history
  <2>2. {p} \in raced => {p} \in raced'
    BY <1>2 DEF Respawn, vars, history
  <2>3. Sole(p) /\ ~Leaves(q)
    BY <2>1, <2>2 DEF Sole, Leaves, Label
  <2>4. FoundBy(p, q)
    BY <2>3 DEF FoundListed
  <2> QED
    BY <2>1, <2>4 DEF FoundBy, ToGreet, OnItsWay, Label
<1> QED
  BY <1>1, <1>2 DEF Next, Steps, GameOver

LEMMA FoundListedAtFirst == Init => FoundListed
BY Values DEF Init, FoundListed, FoundBy, OnItsWay, Label, Greeting

-----------------------------------------------------------------------------
(* Who has not logged in yet is unknown. *)

(* What a step takes in hand.                                               *)
LEMMA HandsTake ==
  ASSUME Typed, NEW t \in Threads, Steps(t)
  PROVE  /\ ent[t] \in Players =>
              /\ todo'[t] \subseteq todo[t] \union old[t] \union sector \union viewList[ent[t]]
              /\ old'[t] \subseteq old[t] \union viewList[ent[t]]
         /\ ent[t] \notin Players =>
              /\ todo'[t] \subseteq todo[t] \union old[t] \union sector
              /\ old'[t] \subseteq old[t] \union sector
         /\ peer'[t] \in todo[t] \union {peer[t], None}
<1> USE Values DEF Visit, NextLoop, Return, Around
<1>1. /\ todo \in [Threads -> SUBSET Entities] /\ old \in [Threads -> SUBSET Entities]
      /\ peer \in [Threads -> Entities \union {None}] /\ Handles(t)
  BY DEF Typed, TypeOK
<1>2. CASE Moving(t)
  <2>1. ASSUME NEW x \in Players, NEW s \in Spots, StartMove(t, x, s) PROVE UNCHANGED <<todo, old, peer>>
    BY <2>1 DEF StartMove
  <2>2. ASSUME ~\E x \in Players, s \in Spots : StartMove(t, x, s) PROVE ent[t] \in Players \/ AllVisited(t)
    BY <1>1, <1>2, <2>2 DEF Moving, Greet, Part, CopyViewList, Look, EnterPeer, GreetBack,
       AllGreeted,
       Handles, Label, PlayerLabels
  <2> QED
    BY <1>1, <1>2, <2>1, <2>2 DEF Moving, Greet, Part, CopyViewList, Look, EnterPeer, GreetBack,
       AllGreeted,
       AllVisited, history, local
<1>3. CASE LoggingIn(t)
  BY <1>1, <1>3 DEF LoggingIn, StartLogin, Meet, Insert, LockSector, UnlockSector, history, local
<1>4. CASE Leaving(t)
  <2>1. ASSUME NEW x \in Players, StartLeave(t, x) PROVE UNCHANGED <<todo, old, peer>>
    BY <2>1 DEF StartLeave
  <2>2. ASSUME ~\E x \in Players : StartLeave(t, x) PROVE ent[t] \in Players
    BY <1>1, <1>4, <2>2 DEF Leaving, Tell, Erase, CopyToTell, ChangeState, Unpublish,
       Handles, Label, LeaveLabels
  <2> QED
    BY <1>1, <1>4, <2>1, <2>2 DEF Leaving, Tell, Erase, CopyToTell, ChangeState, Unpublish,
       history, local
<1>5. CASE NpcMoving(t)
  <2>1. ent[t] \notin Players
    BY <1>1, <1>5 DEF NpcMoving, StartNpcMove, NpcTell, NpcPart, NpcMove, NpcLook, AllTold,
       Begin, Handles, Label, NpcLabels
  <2> QED
    BY <1>1, <1>5, <2>1 DEF NpcMoving, StartNpcMove, NpcTell, NpcPart, NpcMove, NpcLook, AllTold,
       history, local
<1>6. CASE NpcHurt(t)
  <2>1. ent[t] \notin Players
    BY <1>1, <1>6 DEF NpcHurt, StartNpcHit, TellHp, TellDeath, Bury,
       Begin, Handles, Label, NpcLabels
  <2> QED
    BY <1>1, <1>6, <2>1 DEF NpcHurt, StartNpcHit, TellHp, TellDeath, Bury, history, local
<1>7. CASE do_send(t)
  BY <1>1, <1>7 DEF do_send, history, local
<1> QED
  BY <1>2, <1>3, <1>4, <1>5, <1>6, <1>7 DEF Steps

LEMMA WhoEnters ==
  ASSUME Typed, NEW t \in Threads, Steps(t), NEW e \in Players, e \in sector', e \notin sector
  PROVE  ent[t] = e /\ Label(t) = "insert"
<1>1. CASE Moving(t)
  BY <1>1 DEF Moving, StartMove, Greet, Part, CopyViewList, Look, EnterPeer, GreetBack, AllGreeted,
     AllVisited, world
<1>2. CASE LoggingIn(t)
  BY <1>2 DEF LoggingIn, StartLogin, Meet, Insert, LockSector, UnlockSector, world, Label
<1>3. CASE Leaving(t)
  BY <1>3 DEF Leaving, StartLeave, Tell, Erase, CopyToTell, ChangeState, Unpublish, world
<1>4. CASE NpcMoving(t)
  BY <1>4 DEF NpcMoving, StartNpcMove, NpcTell, NpcPart, NpcMove, NpcLook, AllTold, world
<1>5. CASE NpcHurt(t)
  BY <1>5 DEF NpcHurt, StartNpcHit, TellHp, TellDeath, Bury, world
<1>6. CASE do_send(t)
  BY <1>6 DEF do_send, world
<1> QED
  BY <1>1, <1>2, <1>3, <1>4, <1>5, <1>6 DEF Steps

(* A state only goes from waiting to login to being in the game, by a login.  *)
LEMMA WhatStateDoes ==
  ASSUME Typed, NEW t \in Threads, Steps(t), NEW p \in Players
  PROVE  /\ state'[p] = "ST_ALLOC" => state[p] = "ST_ALLOC"
         /\ state'[p] = "ST_INGAME" => state[p] = "ST_INGAME" \/ \E s \in Spots : StartLogin(t, p, s)
         /\ \A s \in Spots : StartLogin(t, p, s) => state'[p] = "ST_INGAME"
<1>1. state \in [Entities -> {"ST_FREE", "ST_ALLOC", "ST_INGAME"}] /\ p \in Entities
  BY Values DEF Typed, TypeOK
<1>2. CASE Moving(t)
  BY <1>1, <1>2 DEF Moving, StartMove, Greet, Part, CopyViewList, Look, EnterPeer, GreetBack,
     AllGreeted,
     AllVisited, world, StartLogin
<1>3. CASE LoggingIn(t)
  BY <1>1, <1>3, Values DEF LoggingIn, StartLogin, Meet, Insert, LockSector, UnlockSector, world
<1>4. CASE Leaving(t)
  BY <1>1, <1>4 DEF Leaving, StartLeave, Tell, Erase, CopyToTell, ChangeState, Unpublish, world,
     StartLogin
<1>5. CASE NpcMoving(t)
  BY <1>1, <1>5 DEF NpcMoving, StartNpcMove, NpcTell, NpcPart, NpcMove, NpcLook, AllTold, world,
     StartLogin
<1>6. CASE NpcHurt(t)
  BY <1>1, <1>6 DEF NpcHurt, StartNpcHit, TellHp, TellDeath, Bury, world, StartLogin
<1>7. CASE do_send(t)
  BY <1>1, <1>7 DEF do_send, world, StartLogin
<1> QED
  BY <1>2, <1>3, <1>4, <1>5, <1>6, <1>7 DEF Steps

LEMMA UnmetStep ==
  ASSUME Typed, NEW t \in Threads, Steps(t), NEW p \in Players, state'[p] = "ST_ALLOC", Unknown(p)
  PROVE  Unknown(p)'
<1> USE Values
<1>1. Kept(t) /\ state[p] = "ST_ALLOC" /\ p \in Entities /\ p # None
  BY StepsTyped, WhatStateDoes
<1>2. p \notin sector'
  BY WhoEnters DEF Unknown, LeaveLabels
<1>3. ~InHand(t, p) \/ pc[t] = "send"
  BY DEF InHand, Unknown, Label
<1>4. viewList \in [Players -> SUBSET Entities] /\ objects \in [Players -> [Entities -> {"none", "empty", "shown"}]]
  BY DEF Typed, TypeOK
<1>5. viewList'[p] = {} /\ \A q \in Players : p \notin viewList'[q]
  <2>1. CASE Calm(t) \/ do_send(t)
    BY <2>1, CalmSteps DEF do_send, Unknown
  <2>2. CASE Unpublish(t)
    BY <1>4, <2>2 DEF Unpublish, Unknown
  <2>3. CASE Sends(t)
    <3>1. PICK x \in Players, e \in Entities, next \in Labels :
            /\ pc[t] # "send" /\ InHand(t, x)
            /\ \/ send_enter_packet(t, x, e, next) /\ InHand(t, e)
               \/ send_leave_packet(t, x, e, next)
               \/ UNCHANGED viewList
      BY <2>3 DEF Sends
    <3>2. CASE send_enter_packet(t, x, e, next) /\ InHand(t, e)
      <4>1. viewList' = viewList \/ viewList' = [viewList EXCEPT ![x] = @ \union {e}]
        BY <3>2 DEF send_enter_packet
      <4> QED
        BY <1>3, <1>4, <3>1, <3>2, <4>1 DEF Unknown
    <3>3. CASE send_leave_packet(t, x, e, next)
      <4>1. viewList' = viewList \/ viewList' = [viewList EXCEPT ![x] = @ \ {e}]
        BY <3>3 DEF send_leave_packet
      <4> QED
        BY <1>4, <4>1 DEF Unknown
    <3> QED
      BY <3>1, <3>2, <3>3 DEF Unknown
  <2> QED
    BY <2>1, <2>2, <2>3, WhatStepsDo
<1>6. mail'[t].receiver # p
  <2>1. CASE Calm(t) \/ Unpublish(t)
    BY <2>1, CalmSteps DEF Unpublish, Unknown
  <2>2. CASE do_send(t)
    BY <1>1, <2>2 DEF do_send, NoMail, Packet, Typed, TypeOK
  <2>3. CASE Sends(t)
    <3>1. PICK x \in Players, e \in Entities, next \in Labels \ {"send"} :
            /\ pc[t] # "send" /\ InHand(t, x)
            /\ \/ send_enter_packet(t, x, e, next) \/ send_leave_packet(t, x, e, next)
               \/ send_move_packet(t, x, e, next) \/ send_stat_change_packet(t, x, e, next)
               \/ Goto(t, next)
      BY <2>3 DEF Sends
    <3>2. CASE ~Goto(t, next)
      BY <1>3, <3>1, <3>2, SendsGo DEF Goes, Unknown
    <3>3. CASE Goto(t, next)
      <4>1. mail'[t] = NoMail \/ pc'[t] = "send"
        BY <1>1 DEF Kept, Mails
      <4> QED
        BY <3>1, <3>3, <4>1 DEF Goto, Typed, TypeOK, NoMail, Packet
    <3> QED
      BY <3>2, <3>3
  <2> QED
    BY <2>1, <2>2, <2>3, WhatStepsDo
<1>7. \A e \in Entities : objects'[p][e] = "none"
  <2>1. CASE Calm(t) \/ Sends(t)
    BY <2>1, CalmSteps DEF Unknown, Sends
  <2>2. CASE do_send(t)
    BY <1>4, <2>2 DEF do_send, Unknown
  <2>3. CASE Unpublish(t)
    BY <1>4, <2>3 DEF Unpublish, Unknown
  <2> QED
    BY <2>1, <2>2, <2>3, WhatStepsDo
<1>8. p \notin todo'[t] \union old'[t] /\ peer'[t] # p
  BY <1>1, HandsTake DEF Unknown
<1>9. ASSUME ent'[t] = p PROVE Label(t)' \in LeaveLabels
  <2>1. CASE ent[t] = p
    BY <1>1, <1>9, <2>1, LeaverGoesOn DEF Unknown
  <2>2. CASE ent[t] # p
    <3>1. StartLeave(t, p)
      <4>1. \A s \in Spots : ~StartLogin(t, p, s)
        BY <1>1, WhatStateDoes
      <4> QED
        BY <1>1, <1>9, <2>2, <4>1, WhoBegins DEF StartMove
    <3> QED
      BY <3>1 DEF StartLeave, Goto, Label, LeaveLabels, Typed, TypeOK
  <2> QED
    BY <2>1, <2>2
<1>10. ASSUME NEW u \in Threads
       PROVE  /\ p \notin todo'[u] \union old'[u] /\ peer'[u] # p /\ mail'[u].receiver # p
              /\ ent'[u] = p => Label(u)' \in LeaveLabels
  BY <1>1, <1>6, <1>8, <1>9 DEF Kept, OthersWait, Unknown, Label
<1> QED
  BY <1>2, <1>5, <1>7, <1>10 DEF Unknown

LEMMA UnmetAtFirst == Init => Unmet
BY Values DEF Init, Unmet, Unknown, NoMail, Packet

LEMMA UnmetStays == Typed /\ Unmet /\ [Next]_vars => Unmet'
<1> SUFFICES ASSUME Typed, Unmet, [Next]_vars, NEW p \in Players, state'[p] = "ST_ALLOC"
             PROVE  Unknown(p)'
  BY DEF Unmet
<1>1. ASSUME NEW t \in Threads, Steps(t) PROVE Unknown(p)'
  BY <1>1, UnmetStep, WhatStateDoes DEF Unmet
<1>2. ASSUME NEW n \in Npcs, Respawn(n) PROVE Unknown(p)'
  BY <1>2, Values DEF Respawn, Unmet, Unknown, Label, local
<1>3. CASE UNCHANGED vars
  BY <1>3 DEF vars, world, local, history, Unmet, Unknown, Label
<1> QED
  BY <1>1, <1>2, <1>3 DEF Next, Steps, GameOver

-----------------------------------------------------------------------------
(* What players see of NPCs. *)

(* What a step of another handler leaves alone.                              *)
Apart(p, n) ==
  /\ can_see(p, n)' <=> can_see(p, n)
  /\ n \in sector' <=> n \in sector
  /\ p \in sector' <=> p \in sector
  /\ n \in killed' <=> n \in killed
  /\ n \in viewList'[p] <=> n \in viewList[p]
  /\ objects'[p][n] = objects[p][n]

LEMMA SeenBothWays ==
  ASSUME Typed, NEW e \in Entities, NEW f \in Entities
  PROVE  can_see(e, f) <=> can_see(f, e)
<1>1. at[e] \in Spots /\ at[f] \in Spots
  BY DEF Typed, TypeOK
<1>2. at[e] \in Int /\ at[f] \in Int /\ VIEW_RANGE \in Nat
  BY <1>1, Values
<1> QED
  BY <1>2 DEF can_see

(* The place of an entity changes by its own handler only, and so do its      *)
(* being in the sector and its death.                                       *)
LEMMA PlacesKept ==
  ASSUME Typed, NEW t \in Threads, Steps(t), NEW e \in Entities, ent[t] # e, ent'[t] # e
  PROVE  at'[e] = at[e] /\ (e \in sector' <=> e \in sector) /\ (e \in killed' <=> e \in killed)
<1>1. at \in [Entities -> Spots] /\ ent \in [Threads -> Entities \union {None}]
  BY DEF Typed, TypeOK
<1>2. CASE Moving(t)
  BY <1>1, <1>2 DEF Moving, StartMove, Begin, Greet, Part, CopyViewList, Look, EnterPeer,
     GreetBack, AllGreeted,
     AllVisited, world, history
<1>3. CASE LoggingIn(t)
  BY <1>1, <1>3 DEF LoggingIn, StartLogin, Begin, Meet, Insert, LockSector, UnlockSector, world,
     history
<1>4. CASE Leaving(t)
  BY <1>1, <1>4 DEF Leaving, StartLeave, Tell, Erase, CopyToTell, ChangeState, Unpublish, world,
     history
<1>5. CASE NpcMoving(t)
  BY <1>1, <1>5 DEF NpcMoving, StartNpcMove, NpcTell, NpcPart, NpcMove, NpcLook, AllTold, world,
     history
<1>6. CASE NpcHurt(t)
  BY <1>1, <1>6 DEF NpcHurt, StartNpcHit, Begin, TellHp, TellDeath, Bury, world, history
<1>7. CASE do_send(t)
  BY <1>7 DEF do_send, world, history
<1> QED
  BY <1>2, <1>3, <1>4, <1>5, <1>6, <1>7 DEF Steps

LEMMA ListsKept ==
  ASSUME Typed, NEW t \in Threads, Steps(t), NEW p \in Players, NEW n \in Npcs, ent[t] \notin {p, n}
  PROVE  /\ n \in viewList'[p] <=> n \in viewList[p]
         /\ objects'[p][n] = objects[p][n]
<1> USE Values
<1>1. viewList \in [Players -> SUBSET Entities] /\ objects \in [Players -> [Entities -> {"none", "empty", "shown"}]]
  BY DEF Typed, TypeOK
<1>2. CASE Calm(t)
  BY <1>2, CalmSteps
<1>3. CASE do_send(t)
  <2>1. ~Carries(t, p, n)
    BY DEF Carries, Typed, Mails
  <2> QED
    BY <1>3, <2>1, Received
<1>4. CASE Unpublish(t)
  BY <1>1, <1>4 DEF Unpublish
<1>5. CASE Sends(t)
  <2>1. PICK x \in Players, e \in Entities, next \in Labels :
          /\ ent[t] \in {x, e} /\ UNCHANGED objects
          /\ \/ send_enter_packet(t, x, e, next) \/ send_leave_packet(t, x, e, next)
             \/ UNCHANGED viewList
    BY <1>5 DEF Sends
  <2>2. x # p \/ e # n
    BY <2>1
  <2>3. \/ viewList' = viewList \/ viewList' = [viewList EXCEPT ![x] = @ \union {e}]
        \/ viewList' = [viewList EXCEPT ![x] = @ \ {e}]
    BY <2>1 DEF send_enter_packet, send_leave_packet
  <2> QED
    BY <1>1, <2>1, <2>2, <2>3
<1> QED
  BY <1>2, <1>3, <1>4, <1>5, WhatStepsDo

LEMMA BystanderKeeps ==
  ASSUME Typed, NEW t \in Threads, Steps(t), NEW p \in Players, NEW n \in Npcs,
         ent[t] \notin {p, n}, ent'[t] \notin {p, n}
  PROVE  Apart(p, n)
BY Values, PlacesKept, ListsKept DEF Apart, can_see

(* What is so of a player and an NPC stays so while others step.             *)
LEMMA TheirsStays ==
  ASSUME NEW p \in Players, NEW n \in Npcs, Apart(p, n)
  PROVE  /\ Quiet(p, n)' <=> Quiet(p, n)
         /\ \A u \in Threads :
              UNCHANGED <<pc[u], mail[u], old[u], near[u], todo[u], peer[u]>> =>
                /\ PlayerAt(u, p, n)' <=> PlayerAt(u, p, n)
                /\ NpcAt(u, p, n)' <=> NpcAt(u, p, n)
<1>1. /\ Exact(p, n)' <=> Exact(p, n)
      /\ Present(p, n)' <=> Present(p, n)
      /\ Listed(p, n)' <=> Listed(p, n)
      /\ n \in killed' <=> n \in killed
      /\ p \in sector' <=> p \in sector
      /\ n \in sector' <=> n \in sector
  BY DEF Apart, Exact, Present, Listed
<1>2. Quiet(p, n)' <=> Quiet(p, n)
  BY <1>1 DEF Apart, Quiet, Consistent
<1>3. ASSUME NEW u \in Threads, UNCHANGED <<pc[u], mail[u], old[u], near[u], todo[u], peer[u]>>
      PROVE  /\ PlayerAt(u, p, n)' <=> PlayerAt(u, p, n)
             /\ NpcAt(u, p, n)' <=> NpcAt(u, p, n)
  <2>1. /\ Label(u)' = Label(u)
        /\ Consistent(Sees(u, p, n), p, n)' <=> Consistent(Sees(u, p, n), p, n)
        /\ ToGreet(u, n)' <=> ToGreet(u, n)
    BY <1>1, <1>3 DEF Apart, Label, Consistent, Sees, Carries, ToGreet
  <2> QED
    BY <1>1, <1>3, <2>1 DEF PlayerAt, NpcAt
<1> QED
  BY <1>2, <1>3

(* What the client shows once a handler has taken a step. *)
LEMMA SeesTheSame ==
  ASSUME NEW t \in Threads, NEW p, NEW n, Untouched(p, n), pc[t] # "send"
  PROVE  /\ Sees(t, p, n)' = Sees(t, p, n) /\ Sees(t, p, n) = objects[p][n]
         /\ Listed(p, n)' <=> Listed(p, n)
BY DEF Untouched, Sees, Carries, Listed

LEMMA SeesPosted ==
  ASSUME NEW t \in Threads, NEW p, NEW n, NEW kind, Posts(t, p, n, kind)
  PROVE  Sees(t, p, n)' = Shown(objects[p][n], kind)
BY DEF Posts, Sees

LEMMA SeesNews ==
  ASSUME NEW t \in Threads, NEW p, NEW n, NEW kind \in {"S2C_P_MOVE", "S2C_P_STAT_CHANGE"},
         Posts(t, p, n, kind), UNCHANGED viewList, pc[t] # "send"
  PROVE  /\ Sees(t, p, n)' = Touched(objects[p][n]) /\ Sees(t, p, n) = objects[p][n]
         /\ Listed(p, n)' <=> Listed(p, n)
<1>1. Sees(t, p, n)' = Shown(objects[p][n], kind)
  BY SeesPosted
<1>2. Shown(objects[p][n], kind) = Touched(objects[p][n])
  BY DEF Shown
<1>3. Sees(t, p, n) = objects[p][n] /\ (Listed(p, n)' <=> Listed(p, n))
  BY DEF Sees, Carries, Listed
<1> QED
  BY <1>1, <1>2, <1>3

LEMMA SeesSent ==
  ASSUME Typed, NEW t \in Threads, do_send(t), NEW p \in Players, NEW n \in Entities
  PROVE  /\ Sees(t, p, n)' = Sees(t, p, n) /\ objects'[p][n] = Sees(t, p, n)
         /\ Listed(p, n)' <=> Listed(p, n)
BY Received DEF Sees, Listed

LEMMA InSightIsPresent ==
  ASSUME Typed, NEW p \in Players, NEW n \in Npcs
  PROVE  /\ n \in published /\ state[n] = "ST_INGAME"
         /\ n \in Around(p) <=> Present(p, n)
BY Values DEF Typed, Standing, Around, Present

(* Where the two are does not change. *)
Steady(p, n) ==
  /\ Present(p, n)' <=> Present(p, n)
  /\ p \in sector' <=> p \in sector
  /\ n \in killed' <=> n \in killed

LEMMA SteadyWorld ==
  ASSUME NEW p, NEW n, UNCHANGED <<at, sector, killed>>
  PROVE  Steady(p, n)
BY DEF Steady, Present, can_see

(* A step of the player's own handler, of do_player_move.                   *)
LEMMA MovingTold ==
  ASSUME Typed, NEW t \in Threads, Moving(t), NEW p \in Players, NEW n \in Npcs, ent[t] = p,
         PlayerAt(t, p, n)
  PROVE  IF ent'[t] = p THEN PlayerAt(t, p, n)' ELSE Quiet(p, n)'
<1> DEFINE Goal == IF ent'[t] = p THEN PlayerAt(t, p, n)' ELSE Quiet(p, n)'
<1> USE DEF PlayerLabels, Greeting, ToGreet
<1>1. /\ OthersWait(t) /\ n \in Entities /\ p \in Entities /\ p # n /\ p # None /\ Handles(t)
      /\ pc \in [Threads -> Labels] /\ pc[t] # "idle" /\ n \in published
      /\ n \in Around(p) <=> Present(p, n)
  BY MovingTyped, InSightIsPresent, Values DEF Kept, Typed, TypeOK, Handles
<1>2. CASE CopyViewList(t)
  <2>1. Label(t) = "copy" /\ Label(t)' = "look" /\ pc[t] # "send" /\ Untouched(p, n)
    BY <1>1, <1>2, CalmSteps DEF CopyViewList, Label, Goto, Calm, CalmMove
  <2>2. Steady(p, n)
    BY <1>2, SteadyWorld DEF CopyViewList, world, history
  <2>3. old'[t] = viewList[p] /\ ent'[t] = p
    BY <1>2 DEF CopyViewList, Typed, TypeOK
  <2> QED
    BY <2>1, <2>2, <2>3, SeesTheSame DEF PlayerAt, Steady, Consistent, Listed
<1>3. CASE Look(t)
  <2>1. Label(t) = "look" /\ Label(t)' = "greet" /\ pc[t] # "send" /\ Untouched(p, n)
    BY <1>1, <1>3, CalmSteps DEF Look, Label, Goto, Calm, CalmMove
  <2>2. Steady(p, n)
    BY <1>3, SteadyWorld DEF Look, world
  <2>3. /\ near'[t] = Around(p) /\ todo'[t] = Around(p) /\ old'[t] = old[t] /\ ent'[t] = p
    BY <1>3 DEF Look, Typed, TypeOK
  <2> QED
    BY <1>1, <2>1, <2>2, <2>3, SeesTheSame DEF PlayerAt, Steady, Consistent
<1>4. ASSUME NEW f \in Entities, Greet(t, f) PROVE Goal
  <2>1. Label(t) = "greet" /\ pc[t] # "send"
    BY <1>4 DEF Greet, Label
  <2>2. /\ Label(t)' \in Greeting /\ (f = n => Label(t)' \in {"enter", "greetBack"})
        /\ Untouched(p, n)
    <3>1. CASE f \in Players /\ f \in published /\ p \in viewList[f]
      <4>1. send_move_packet(t, f, p, "greetBack") /\ UNCHANGED <<viewList, objects>>
        BY <1>4, <3>1 DEF Greet
      <4>2. Goes(t, f, p, "greetBack")
        BY <1>1, <2>1, <3>1, <4>1, SendsGo DEF Labels
      <4>3. Untouched(p, n)
        BY <1>1, <2>1, <3>1, <4>1, MoveSent DEF Labels
      <4> QED
        BY <4>2, <4>3, GoesTo DEF Labels
    <3>2. CASE ~(f \in Players /\ f \in published /\ p \in viewList[f])
      <4>1. Label(t)' \in Greeting /\ (f = n => Label(t)' \in {"enter", "greetBack"}) /\ pc'[t] # "send"
        BY <1>1, <1>4, <3>2 DEF Greet, Goto, Label
      <4>2. Untouched(p, n)
        BY <1>1, <1>4, <2>1, <4>1, CalmStep DEF Greet
      <4> QED
        BY <4>1, <4>2
    <3> QED
      BY <3>1, <3>2
  <2>3. Steady(p, n)
    BY <1>4, SteadyWorld DEF Greet, world, history
  <2>4. /\ todo'[t] = todo[t] \ {f} /\ peer'[t] = f /\ f \in todo[t]
        /\ UNCHANGED <<old, near, ent>>
    BY <1>4 DEF Greet, Visit, Typed, TypeOK
  <2> QED
    BY <2>1, <2>2, <2>3, <2>4, SeesTheSame DEF PlayerAt, Steady, Consistent
<1>5. ASSUME EnterPeer(t) PROVE Goal
  <2>1. Label(t) = "enter" /\ pc[t] # "send" /\ peer[t] \in Players
    BY <1>1, <1>5 DEF EnterPeer, Label, Handles
  <2>2. send_enter_packet(t, peer[t], p, "greetBack") /\ UNCHANGED objects
    BY <1>5 DEF EnterPeer
  <2>3. Label(t)' = "greetBack"
    BY <1>1, <2>1, <2>2, SendsGo, GoesTo DEF Labels
  <2>4. Untouched(p, n)
    BY <1>1, <2>1, <2>2, EnterSent DEF Labels
  <2>5. Steady(p, n)
    BY <1>5, SteadyWorld DEF EnterPeer, world
  <2>6. UNCHANGED <<old, near, todo, peer, ent>>
    BY <1>5 DEF EnterPeer, local
  <2> QED
    BY <2>1, <2>3, <2>4, <2>5, <2>6, SeesTheSame DEF PlayerAt, Steady, Consistent
<1>6. ASSUME GreetBack(t) PROVE Goal
  <2>1. Label(t) = "greetBack" /\ pc[t] # "send" /\ peer[t] \in Entities
    BY <1>1, <1>6 DEF GreetBack, Label, Handles
  <2>2. \/ peer[t] \notin old[t] /\ send_enter_packet(t, p, peer[t], "greet")
        \/ peer[t] \in old[t] /\ Goto(t, "greet") /\ UNCHANGED <<viewList, mail>>
    BY <1>6 DEF GreetBack
  <2>3. Label(t)' = "greet" /\ UNCHANGED objects
    <3>1. Goes(t, p, peer[t], "greet")
      BY <1>1, <2>1, <2>2, SendsGo, GoesOn DEF Labels
    <3> QED
      BY <1>6, <3>1, GoesTo DEF Labels, GreetBack
  <2>4. Steady(p, n)
    BY <1>6, SteadyWorld DEF GreetBack, world
  <2>5. UNCHANGED <<old, near, todo, ent>>
    BY <1>6 DEF GreetBack
  <2>6. CASE Untouched(p, n) /\ (peer[t] = n => n \in old[t])
    BY <2>1, <2>3, <2>4, <2>5, <2>6, SeesTheSame DEF PlayerAt, Steady, Consistent
  <2>7. CASE peer[t] = n /\ Listed(p, n)' /\ Posts(t, p, n, "S2C_P_ENTER")
    <3>1. Sees(t, p, n)' = "shown"
      BY <2>7, SeesPosted DEF Shown
    <3> QED
      BY <2>1, <2>3, <2>4, <2>5, <2>7, <3>1 DEF PlayerAt, Steady, Consistent
  <2>8. \/ Untouched(p, n) /\ (peer[t] = n => n \in old[t])
        \/ peer[t] = n /\ Listed(p, n)' /\ Posts(t, p, n, "S2C_P_ENTER")
    <3>1. CASE peer[t] \notin old[t] /\ send_enter_packet(t, p, peer[t], "greet")
      <4>1. peer[t] # n => Untouched(p, n)
        BY <1>1, <2>1, <2>3, <3>1, EnterSent DEF Labels
      <4>2. peer[t] = n => Listed(p, n)' /\ Posts(t, p, n, "S2C_P_ENTER")
        BY <1>1, <2>1, <2>3, <3>1, EnterSent DEF Labels, Listed
      <4> QED
        BY <4>1, <4>2
    <3>2. CASE peer[t] \in old[t] /\ Goto(t, "greet") /\ UNCHANGED <<viewList, mail>>
      BY <1>1, <2>1, <2>3, <3>2, CalmStep DEF Goto
    <3> QED
      BY <2>2, <3>1, <3>2
  <2> QED
    BY <2>6, <2>7, <2>8
<1>7. CASE AllGreeted(t)
  <2>1. Label(t) = "greet" /\ Label(t)' = "part" /\ pc[t] # "send" /\ Untouched(p, n)
    BY <1>1, <1>7, CalmSteps DEF AllGreeted, Label, Goto, Calm, CalmMove
  <2>2. Steady(p, n)
    BY <1>7, SteadyWorld DEF AllGreeted, world, history
  <2>3. /\ todo[t] = {} /\ todo'[t] = old[t] \ near[t] /\ ent'[t] = p
    BY <1>7 DEF AllGreeted, NextLoop, Typed, TypeOK
  <2> QED
    BY <2>1, <2>2, <2>3, SeesTheSame DEF PlayerAt, Steady, Consistent
<1>8. ASSUME NEW f \in Entities, Part(t, f) PROVE Goal
  <2>1. Label(t) = "part" /\ pc[t] # "send"
    BY <1>8 DEF Part, Label
  <2>2. IF f \in published THEN send_leave_packet(t, p, f, "part")
                           ELSE Goto(t, "part") /\ UNCHANGED <<viewList, mail>>
    BY <1>8 DEF Part
  <2>3. Label(t)' = "part" /\ UNCHANGED objects
    BY <1>1, <1>8, <2>1, <2>2, SendsGo, GoesOn, GoesTo DEF Labels, Part
  <2>4. Steady(p, n)
    BY <1>8, SteadyWorld DEF Part, world
  <2>5. todo'[t] = todo[t] \ {f} /\ f \in todo[t] /\ ent'[t] = p
    BY <1>8 DEF Part, Visit, Typed, TypeOK
  <2>6. CASE f # n
    <3>1. CASE f \in published
      <4>1. send_leave_packet(t, p, f, "part") /\ "part" \in Labels \ {"send"}
        BY <2>2, <3>1 DEF Labels
      <4>2. Untouched(p, n)
        BY <1>1, <2>1, <2>3, <2>6, <4>1, LeaveToOther
      <4> QED
        BY <1>1, <2>1, <2>3, <2>4, <2>5, <2>6, <4>2, SeesTheSame DEF PlayerAt, Steady, Consistent
    <3>2. CASE f \notin published
      <4>1. Untouched(p, n)
        BY <1>1, <2>1, <2>2, <2>3, <3>2, CalmStep DEF Goto
      <4> QED
        BY <2>1, <2>3, <2>4, <2>5, <2>6, <4>1, SeesTheSame DEF PlayerAt, Steady, Consistent
    <3> QED
      BY <3>1, <3>2
  <2>7. CASE f = n
    <3>1. n \in viewList[p] /\ ~Present(p, n)
      BY <2>1, <2>5, <2>7 DEF PlayerAt, Listed
    <3>2. ~Listed(p, n)' /\ Posts(t, p, n, "S2C_P_LEAVE")
      BY <1>1, <2>1, <2>2, <2>3, <2>7, <3>1, LeaveSent DEF Labels, Listed
    <3>3. Sees(t, p, n)' = "none"
      BY <3>2, SeesPosted DEF Shown
    <3> QED
      BY <2>1, <2>3, <2>4, <2>5, <2>7, <3>1, <3>2, <3>3 DEF PlayerAt, Steady, Consistent
  <2> QED
    BY <2>6, <2>7
<1>9. CASE AllVisited(t)
  <2>1. Label(t) = "part" /\ pc[t] # "send" /\ Untouched(p, n)
    BY <1>1, <1>9, Values, CalmSteps DEF AllVisited, Label, Calm, CalmMove, Handles, NpcLabels
  <2>2. Steady(p, n)
    BY <1>9, SteadyWorld DEF AllVisited, world, history
  <2>3. todo[t] = {} /\ ent'[t] = None
    BY <1>9 DEF AllVisited, Return, Typed, TypeOK
  <2>4. objects'[p][n] = objects[p][n] /\ (Listed(p, n)' <=> Listed(p, n)) /\ Sees(t, p, n) = objects[p][n]
    BY <2>1, SeesTheSame DEF Untouched
  <2> QED
    BY <1>1, <2>1, <2>2, <2>3, <2>4 DEF PlayerAt, Steady, Consistent, Quiet, Exact
<1>10. ~\E x \in Players, s \in Spots : StartMove(t, x, s)
  BY <1>1 DEF StartMove, Begin
<1> QED
  BY <1>2, <1>3, <1>4, <1>5, <1>6, <1>7, <1>8, <1>9, <1>10 DEF Moving

(* ... of login. *)
LEMMA LoggingInTold ==
  ASSUME Typed, NEW t \in Threads, LoggingIn(t), NEW p \in Players, NEW n \in Npcs, ent[t] = p,
         PlayerAt(t, p, n)
  PROVE  IF ent'[t] = p THEN PlayerAt(t, p, n)' ELSE Quiet(p, n)'
<1> DEFINE Goal == IF ent'[t] = p THEN PlayerAt(t, p, n)' ELSE Quiet(p, n)'
<1> USE DEF PlayerLabels, Greeting
<1>1. /\ OthersWait(t) /\ n \in Entities /\ p \in Entities /\ p # n /\ p # None /\ Handles(t)
      /\ pc \in [Threads -> Labels] /\ pc[t] # "idle" /\ n \in published
      /\ n \in Around(p) <=> Present(p, n)
  BY LoggingInTyped, InSightIsPresent, Values DEF Kept, Typed, TypeOK, Handles
<1>2. CASE Insert(t)
  <2>1. Label(t) = "insert" /\ Label(t)' = "lock" /\ pc[t] # "send" /\ Untouched(p, n)
    BY <1>1, <1>2, CalmSteps DEF Insert, Label, Goto, Calm, CalmLogin
  <2>2. /\ Present(p, n)' <=> Present(p, n)
        /\ p \in sector' /\ killed' = killed /\ ent' = ent
    BY <1>1, <1>2 DEF Insert, Present, can_see, local, history
  <2> QED
    BY <2>1, <2>2, SeesTheSame DEF PlayerAt, Consistent
<1>3. CASE LockSector(t)
  <2>1. Label(t) = "lock" /\ Label(t)' = "meet" /\ pc[t] # "send" /\ Untouched(p, n)
    BY <1>1, <1>3, CalmSteps DEF LockSector, Label, Goto, Calm, CalmLogin
  <2>2. Steady(p, n)
    BY <1>3, SteadyWorld DEF LockSector, history
  <2>3. todo'[t] = sector \ {p} /\ ent'[t] = p
    BY <1>3 DEF LockSector, Typed, TypeOK
  <2> QED
    BY <1>1, <2>1, <2>2, <2>3, SeesTheSame DEF PlayerAt, Steady, Consistent, Present
<1>4. ASSUME NEW f \in Entities, Meet(t, f) PROVE Goal
  <2>1. Label(t) = "meet" /\ pc[t] # "send"
    BY <1>4 DEF Meet, Label
  <2>2. IF f \in Around(p) THEN send_enter_packet(t, p, f, "meet")
                           ELSE Goto(t, "meet") /\ UNCHANGED <<viewList, mail>>
    BY <1>4 DEF Meet
  <2>3. Label(t)' = "meet" /\ UNCHANGED objects
    <3>1. Goes(t, p, f, "meet")
      BY <1>1, <2>1, <2>2, SendsGo, GoesOn DEF Labels
    <3> QED
      BY <1>4, <3>1, GoesTo DEF Labels, Meet
  <2>4. Steady(p, n)
    BY <1>4, SteadyWorld DEF Meet, world
  <2>5. todo'[t] = todo[t] \ {f} /\ f \in todo[t] /\ ent'[t] = p
    BY <1>4 DEF Meet, Visit, Typed, TypeOK
  <2>6. CASE f = n /\ n \in Around(p)
    <3>1. Listed(p, n)' /\ Posts(t, p, n, "S2C_P_ENTER")
      BY <1>1, <2>1, <2>2, <2>3, <2>6, EnterSent DEF Labels, Listed
    <3>2. Sees(t, p, n)' = "shown"
      BY <3>1, SeesPosted DEF Shown
    <3> QED
      BY <1>1, <2>1, <2>3, <2>4, <2>5, <2>6, <3>1, <3>2 DEF PlayerAt, Steady, Consistent
  <2>7. CASE f # n \/ n \notin Around(p)
    <3>1. Untouched(p, n)
      <4>1. CASE f \in Around(p)
        BY <1>1, <2>1, <2>2, <2>3, <2>7, <4>1, EnterSent DEF Labels
      <4>2. CASE f \notin Around(p)
        BY <1>1, <2>1, <2>2, <2>3, <4>2, CalmStep DEF Goto
      <4> QED
        BY <4>1, <4>2
    <3> QED
      BY <1>1, <2>1, <2>3, <2>4, <2>5, <2>7, <3>1, SeesTheSame DEF PlayerAt, Steady, Consistent
  <2> QED
    BY <2>6, <2>7
<1>5. CASE UnlockSector(t)
  <2>1. Label(t) = "meet" /\ pc[t] # "send" /\ Untouched(p, n)
    BY <1>1, <1>5, CalmSteps DEF UnlockSector, Label, Calm, CalmLogin
  <2>2. Steady(p, n)
    BY <1>5, SteadyWorld DEF UnlockSector, history
  <2>3. todo[t] = {} /\ ent'[t] = None
    BY <1>5 DEF UnlockSector, Return, Typed, TypeOK
  <2>4. objects'[p][n] = objects[p][n] /\ (Listed(p, n)' <=> Listed(p, n)) /\ Sees(t, p, n) = objects[p][n]
    BY <2>1, SeesTheSame DEF Untouched
  <2> QED
    BY <1>1, <2>1, <2>2, <2>3, <2>4 DEF PlayerAt, Steady, Consistent, Quiet, Exact
<1>6. ~\E x \in Players, s \in Spots : StartLogin(t, x, s)
  BY <1>1 DEF StartLogin, Begin
<1> QED
  BY <1>2, <1>3, <1>4, <1>5, <1>6 DEF LoggingIn

(* ... and any of them, the sending of a packet and disconnect included.     *)
LEMMA PlayerStepTold ==
  ASSUME Typed, NEW t \in Threads, Steps(t), NEW p \in Players, NEW n \in Npcs, ent[t] = p,
         state'[p] # "ST_FREE", PlayerAt(t, p, n)
  PROVE  IF ent'[t] = p THEN PlayerAt(t, p, n)' ELSE Quiet(p, n)'
<1>1. Handles(t) /\ pc[t] # "idle" /\ \A x \in Npcs : x # p
  BY Values DEF Typed, Handles
<1>2. CASE do_send(t)
  <2>1. /\ Label(t)' = Label(t) /\ Sees(t, p, n)' = Sees(t, p, n)
        /\ Listed(p, n)' <=> Listed(p, n)
    BY <1>2, Values, SendTyped, SeesSent
  <2>2. Steady(p, n) /\ UNCHANGED local
    BY <1>2, SteadyWorld DEF do_send, world, history
  <2> QED
    BY <2>1, <2>2 DEF PlayerAt, ToGreet, Steady, Consistent, local
<1>3. CASE Label(t) \in LeaveLabels
  <2>1. Unpublish(t) => state'[p] = "ST_FREE"
    BY <1>3, LeaverGoesOn DEF Unpublish
  <2>2. ent'[t] = p /\ Label(t)' \in LeaveLabels
    BY <1>3, <2>1, LeaverGoesOn
  <2> QED
    BY <2>2 DEF PlayerAt, PlayerLabels, LeaveLabels
<1>4. CASE Leaving(t) /\ ~do_send(t)
  <2>1. Label(t) \in LeaveLabels
    BY <1>1, <1>4 DEF Leaving, StartLeave, Begin, Tell, Erase, CopyToTell, ChangeState,
       Unpublish, Label, LeaveLabels
  <2> QED
    BY <1>3, <2>1
<1>5. ~NpcMoving(t) /\ ~NpcHurt(t)
  BY <1>1 DEF Handles, Label, NpcLabels, NpcMoving, NpcHurt, StartNpcMove, NpcTell, NpcPart,
     NpcMove, NpcLook,
     AllTold, StartNpcHit, TellHp, TellDeath, Bury, Begin
<1> QED
  BY <1>2, <1>4, <1>5, MovingTold, LoggingInTold DEF Steps

LEMMA InSightOfNpc ==
  ASSUME Typed, NEW p \in Players, NEW n \in Npcs, state[p] = "ST_INGAME", p \in sector
  PROVE  /\ p \in published
         /\ p \in Around(n) <=> can_see(p, n)
<1>1. can_see(n, p) <=> can_see(p, n)
  BY Values, SeenBothWays
<1> QED
  BY <1>1, Values DEF Typed, Standing, Around

(* A step of the NPC's own handler, of do_npc_move.                          *)
LEMMA NpcMovingTold ==
  ASSUME Typed, NEW t \in Threads, NpcMoving(t), NEW p \in Players, NEW n \in Npcs, ent[t] = n,
         state[p] = "ST_INGAME", NpcAt(t, p, n)
  PROVE  IF ent'[t] = n THEN NpcAt(t, p, n)' ELSE Quiet(p, n)'
<1> DEFINE Goal == IF ent'[t] = n THEN NpcAt(t, p, n)' ELSE Quiet(p, n)'
<1>1. /\ OthersWait(t) /\ n \in Entities /\ p \in Entities /\ p # n /\ n # None /\ Handles(t)
      /\ pc \in [Threads -> Labels] /\ pc[t] # "idle" /\ p \in sector /\ p \in published
      /\ p \in Around(n) <=> can_see(p, n)
  BY NpcMovingTyped, InSightOfNpc, Values DEF Kept, Typed, TypeOK, Handles, NpcAt
<1>2. CASE NpcMove(t)
  <2>1. Label(t) = "npcMove" /\ Label(t)' = "npcLook" /\ pc[t] # "send" /\ Untouched(p, n)
    BY <1>1, <1>2, CalmSteps DEF NpcMove, Label, Goto, Calm, CalmNpc
  <2>2. UNCHANGED <<sector, killed, old, ent>>
    BY <1>2 DEF NpcMove, history
  <2> QED
    BY <1>1, <2>1, <2>2, SeesTheSame DEF NpcAt, Consistent, Exact
<1>3. CASE NpcLook(t)
  <2>1. Label(t) = "npcLook" /\ Label(t)' = "npcTell" /\ pc[t] # "send" /\ Untouched(p, n)
    BY <1>1, <1>3, CalmSteps DEF NpcLook, Label, Goto, Calm, CalmNpc
  <2>2. Steady(p, n) /\ UNCHANGED <<sector, killed, old, ent>>
    BY <1>3, SteadyWorld DEF NpcLook, world, history
  <2>3. near'[t] = Around(n) \intersect Players /\ todo'[t] = Around(n) \intersect Players
    BY <1>3 DEF NpcLook, Typed, TypeOK
  <2> QED
    BY <1>1, <2>1, <2>2, <2>3, SeesTheSame DEF NpcAt, Consistent, Steady, Present
<1>4. ASSUME NEW f \in Players, NpcTell(t, f) PROVE Goal
  <2>1. Label(t) = "npcTell" /\ pc[t] # "send"
    BY <1>4 DEF NpcTell, Label
  <2>2. \/ f \in published /\ f \notin old[t] /\ send_enter_packet(t, f, n, "npcTell")
        \/ f \in published /\ f \in old[t] /\ UNCHANGED viewList /\ send_move_packet(t, f, n, "npcTell")
        \/ f \notin published /\ UNCHANGED viewList /\ Goto(t, "npcTell") /\ UNCHANGED mail
    BY <1>4 DEF NpcTell
  <2>3. Label(t)' = "npcTell" /\ UNCHANGED objects
    <3>1. Goes(t, f, n, "npcTell")
      BY <1>1, <2>1, <2>2, SendsGo, GoesOn DEF Labels
    <3> QED
      BY <1>4, <3>1, GoesTo DEF Labels, NpcTell
  <2>4. Steady(p, n) /\ UNCHANGED <<sector, killed, old, near, ent>>
    BY <1>4, SteadyWorld DEF NpcTell, world
  <2>5. todo'[t] = todo[t] \ {f} /\ f \in todo[t]
    BY <1>4 DEF NpcTell, Visit, Typed, TypeOK
  <2>6. CASE f # p
    <3>1. Untouched(p, n)
      <4>1. CASE send_enter_packet(t, f, n, "npcTell")
        BY <1>1, <2>1, <2>3, <2>6, <4>1, EnterSent DEF Labels
      <4>2. CASE UNCHANGED viewList /\ send_move_packet(t, f, n, "npcTell")
        BY <1>1, <2>1, <2>3, <2>6, <4>2, MoveSent DEF Labels
      <4>3. CASE UNCHANGED viewList /\ Goto(t, "npcTell")
        BY <1>1, <2>1, <2>3, <4>3, CalmStep DEF Goto
      <4> QED
        BY <2>2, <4>1, <4>2, <4>3
    <3> QED
      BY <1>1, <2>1, <2>3, <2>4, <2>5, <2>6, <3>1, SeesTheSame DEF NpcAt, Consistent, Steady
  <2>7. CASE f = p /\ p \notin old[t]
    <3>1. n \in published
      BY InSightIsPresent
    <3>2. Listed(p, n)' /\ Posts(t, p, n, "S2C_P_ENTER")
      BY <1>1, <2>1, <2>2, <2>3, <2>7, <3>1, EnterSent DEF Labels, Listed
    <3>3. Sees(t, p, n)' = "shown"
      BY <3>2, SeesPosted DEF Shown
    <3> QED
      BY <1>1, <2>1, <2>3, <2>4, <2>5, <2>7, <3>2, <3>3 DEF NpcAt, Consistent, Steady
  <2>8. CASE f = p /\ p \in old[t]
    <3>1. n \in published
      BY InSightIsPresent
    <3>2. UNCHANGED viewList /\ Posts(t, p, n, "S2C_P_MOVE")
      BY <1>1, <2>1, <2>2, <2>3, <2>8, <3>1, MoveSent DEF Labels
    <3>3. /\ Sees(t, p, n)' = Touched(objects[p][n]) /\ Sees(t, p, n) = objects[p][n]
          /\ Listed(p, n)' <=> Listed(p, n)
      BY <2>1, <3>2, SeesNews
    <3> QED
      BY <1>1, <2>1, <2>3, <2>4, <2>5, <2>8, <3>3 DEF NpcAt, Consistent, Steady, Touched
  <2> QED
    BY <2>6, <2>7, <2>8
<1>5. CASE AllTold(t)
  <2>1. Label(t) = "npcTell" /\ Label(t)' = "npcPart" /\ pc[t] # "send" /\ Untouched(p, n)
    BY <1>1, <1>5, CalmSteps DEF AllTold, Label, Goto, Calm, CalmNpc
  <2>2. Steady(p, n) /\ UNCHANGED <<sector, killed, ent>>
    BY <1>5, SteadyWorld DEF AllTold, world, history
  <2>3. todo[t] = {} /\ todo'[t] = old[t] \ near[t]
    BY <1>5 DEF AllTold, NextLoop, Typed, TypeOK
  <2> QED
    BY <1>1, <2>1, <2>2, <2>3, SeesTheSame DEF NpcAt, Consistent, Steady
<1>6. ASSUME NEW f \in Players, NpcPart(t, f) PROVE Goal
  <2>1. Label(t) = "npcPart" /\ pc[t] # "send"
    BY <1>6 DEF NpcPart, Label
  <2>2. IF f \in published THEN send_leave_packet(t, f, n, "npcPart")
                           ELSE Goto(t, "npcPart") /\ UNCHANGED <<viewList, mail>>
    BY <1>6 DEF NpcPart
  <2>3. Label(t)' = "npcPart" /\ UNCHANGED objects
    <3>1. Goes(t, f, n, "npcPart")
      BY <1>1, <2>1, <2>2, SendsGo, GoesOn DEF Labels
    <3> QED
      BY <1>6, <3>1, GoesTo DEF Labels, NpcPart
  <2>4. Steady(p, n) /\ UNCHANGED <<sector, killed, ent>>
    BY <1>6, SteadyWorld DEF NpcPart, world
  <2>5. todo'[t] = todo[t] \ {f} /\ f \in todo[t]
    BY <1>6 DEF NpcPart, Visit, Typed, TypeOK
  <2>6. CASE f # p
    <3>1. Untouched(p, n)
      <4>1. CASE f \in published
        BY <1>1, <2>1, <2>2, <2>3, <2>6, <4>1, LeaveToOther DEF Labels
      <4>2. CASE f \notin published
        BY <1>1, <2>1, <2>2, <2>3, <4>2, CalmStep DEF Goto
      <4> QED
        BY <4>1, <4>2
    <3> QED
      BY <1>1, <2>1, <2>3, <2>4, <2>5, <2>6, <3>1, SeesTheSame DEF NpcAt, Consistent, Steady
  <2>7. CASE f = p /\ ~Listed(p, n)
    <3>1. Untouched(p, n)
      BY <1>1, <2>1, <2>2, <2>3, <2>7, LeaveSent DEF Labels, Listed
    <3> QED
      BY <1>1, <2>1, <2>3, <2>4, <2>5, <2>7, <3>1, SeesTheSame DEF NpcAt, Consistent, Steady
  <2>8. CASE f = p /\ Listed(p, n)
    <3>1. ~Listed(p, n)' /\ Posts(t, p, n, "S2C_P_LEAVE")
      BY <1>1, <2>1, <2>2, <2>3, <2>8, LeaveSent DEF Labels, Listed
    <3>2. Sees(t, p, n)' = "none"
      BY <3>1, SeesPosted DEF Shown
    <3> QED
      BY <1>1, <2>1, <2>3, <2>4, <2>5, <2>8, <3>1, <3>2 DEF NpcAt, Consistent, Steady
  <2> QED
    BY <2>6, <2>7, <2>8
<1>7. ~\E x \in Npcs, s \in Spots : StartNpcMove(t, x, s)
  BY <1>1 DEF StartNpcMove, Begin
<1> QED
  BY <1>2, <1>3, <1>4, <1>5, <1>6, <1>7 DEF NpcMoving

(* ... of the damage event. *)
LEMMA NpcHurtTold ==
  ASSUME Typed, NEW t \in Threads, NpcHurt(t), NEW p \in Players, NEW n \in Npcs, ent[t] = n,
         state[p] = "ST_INGAME", NpcAt(t, p, n)
  PROVE  IF ent'[t] = n THEN NpcAt(t, p, n)' ELSE Quiet(p, n)'
<1> DEFINE Goal == IF ent'[t] = n THEN NpcAt(t, p, n)' ELSE Quiet(p, n)'
<1>1. /\ OthersWait(t) /\ n \in Entities /\ p \in Entities /\ p # n /\ n # None /\ Handles(t)
      /\ pc \in [Threads -> Labels] /\ pc[t] # "idle" /\ p \in sector /\ p \in published
      /\ n \in published
  BY NpcHurtTyped, InSightOfNpc, InSightIsPresent, Values DEF Kept, Typed, TypeOK, Handles, NpcAt
<1>2. ASSUME NEW f \in Players, TellHp(t, f) PROVE Goal
  <2> DEFINE next == IF pc[t] = "npcKill" THEN "npcLeave" ELSE "npcHit"
  <2>1. Label(t) = pc[t] /\ pc[t] \in {"npcHit", "npcKill"} /\ next \in Labels \ {"send"}
    BY <1>2 DEF TellHp, Label, Labels
  <2>2. IF f \in published THEN send_stat_change_packet(t, f, n, next) ELSE UNCHANGED <<pc, mail>>
    BY <1>2 DEF TellHp
  <2>3. Label(t)' = IF f \in published THEN next ELSE pc[t]
    <3>1. CASE f \in published
      <4>1. Goes(t, f, n, next)
        BY <1>1, <2>1, <2>2, <3>1, SendsGo
      <4> QED
        BY <2>1, <3>1, <4>1, GoesTo
    <3>2. CASE f \notin published
      BY <2>1, <2>2, <3>2 DEF Label
    <3> QED
      BY <3>1, <3>2
  <2>4. Steady(p, n) /\ UNCHANGED <<sector, killed, ent, viewList, objects>>
    BY <1>2, SteadyWorld DEF TellHp, world, history
  <2>5. todo'[t] = todo[t] \ {f} /\ f \in todo[t] /\ peer'[t] = f
    BY <1>2 DEF TellHp, Visit, Typed, TypeOK
  <2>6. CASE f # p
    <3>1. Untouched(p, n)
      <4>1. CASE f \in published
        BY <1>1, <2>1, <2>2, <2>4, <2>6, <4>1, MoveSent
      <4>2. CASE f \notin published
        BY <1>1, <2>1, <2>2, <2>4, <4>2, CalmStep
      <4> QED
        BY <4>1, <4>2
    <3> QED
      BY <1>1, <2>1, <2>3, <2>4, <2>5, <2>6, <3>1, SeesTheSame DEF NpcAt, Consistent, Steady, Exact
  <2>7. CASE f = p
    <3>1. Posts(t, p, n, "S2C_P_STAT_CHANGE")
      BY <1>1, <2>1, <2>2, <2>4, <2>7, MoveSent
    <3>2. /\ Sees(t, p, n)' = Touched(objects[p][n]) /\ Sees(t, p, n) = objects[p][n]
          /\ Listed(p, n)' <=> Listed(p, n)
      BY <2>1, <2>4, <3>1, SeesNews
    <3>3. pc[t] = "npcKill" => n \in killed
      BY <1>1, <2>1 DEF Handles
    <3> QED
      BY <1>1, <2>1, <2>3, <2>4, <2>5, <2>7, <3>2, <3>3 DEF NpcAt, Consistent, Steady, Exact,
         Touched
  <2> QED
    BY <2>6, <2>7
<1>3. ASSUME TellDeath(t) PROVE Goal
  <2>1. Label(t) = "npcLeave" /\ pc[t] # "send" /\ peer[t] \in Players /\ "npcKill" \in Labels \ {"send"}
    BY <1>1, <1>3 DEF TellDeath, Label, Handles, Labels
  <2>2. send_leave_packet(t, peer[t], n, "npcKill")
    BY <1>3 DEF TellDeath
  <2>3. Label(t)' = "npcKill" /\ UNCHANGED objects
    <3>1. Goes(t, peer[t], n, "npcKill")
      BY <1>1, <2>1, <2>2, SendsGo
    <3> QED
      BY <1>3, <2>1, <3>1, GoesTo DEF TellDeath
  <2>4. Steady(p, n) /\ UNCHANGED <<sector, killed, ent, todo>>
    BY <1>3, SteadyWorld DEF TellDeath, world
  <2>5. CASE peer[t] # p
    <3>1. Untouched(p, n)
      BY <1>1, <2>1, <2>2, <2>3, <2>5, LeaveToOther
    <3> QED
      BY <1>1, <2>1, <2>3, <2>4, <2>5, <3>1, SeesTheSame DEF NpcAt, Consistent, Steady
  <2>6. CASE peer[t] = p /\ ~Listed(p, n)
    <3>1. Untouched(p, n)
      BY <1>1, <2>1, <2>2, <2>3, <2>6, LeaveSent DEF Listed
    <3> QED
      BY <1>1, <2>1, <2>3, <2>4, <2>6, <3>1, SeesTheSame DEF NpcAt, Consistent, Steady
  <2>7. CASE peer[t] = p /\ Listed(p, n)
    <3>1. ~Listed(p, n)' /\ Posts(t, p, n, "S2C_P_LEAVE")
      BY <1>1, <2>1, <2>2, <2>3, <2>7, LeaveSent DEF Listed
    <3>2. Sees(t, p, n)' = "none"
      BY <3>1, SeesPosted DEF Shown
    <3> QED
      BY <1>1, <2>1, <2>3, <2>4, <2>7, <3>1, <3>2 DEF NpcAt, Consistent, Steady
  <2> QED
    BY <2>5, <2>6, <2>7
<1>4. CASE Bury(t)
  <2>1. Label(t) = "npcKill" /\ pc[t] # "send" /\ Untouched(p, n) /\ n \in killed
    BY <1>1, <1>4, CalmSteps DEF Bury, Label, Calm, CalmNpc, Handles
  <2>2. todo[t] = {} /\ ent'[t] = None /\ p \in sector' /\ killed' = killed
    BY <1>1, <1>4 DEF Bury, Return, Typed, TypeOK, history
  <2>3. objects'[p][n] = objects[p][n] /\ (Listed(p, n)' <=> Listed(p, n)) /\ Sees(t, p, n) = objects[p][n]
    BY <2>1, SeesTheSame DEF Untouched
  <2> QED
    BY <1>1, <2>1, <2>2, <2>3 DEF NpcAt, Consistent, Quiet, Exact
<1>5. ~\E x \in Npcs : StartNpcHit(t, x)
  BY <1>1 DEF StartNpcHit, Begin
<1> QED
  BY <1>2, <1>3, <1>4, <1>5 DEF NpcHurt

(* ... and any of them.                                                     *)
LEMMA NpcStepTold ==
  ASSUME Typed, NEW t \in Threads, Steps(t), NEW p \in Players, NEW n \in Npcs, ent[t] = n,
         state[p] = "ST_INGAME", NpcAt(t, p, n)
  PROVE  IF ent'[t] = n THEN NpcAt(t, p, n)' ELSE Quiet(p, n)'
<1>1. Handles(t) /\ pc[t] # "idle" /\ n \notin Players /\ n # None /\ pc \in [Threads -> Labels]
  BY Values DEF Typed, TypeOK, Handles
<1>2. CASE do_send(t)
  <2>1. /\ Label(t)' = Label(t) /\ Sees(t, p, n)' = Sees(t, p, n)
        /\ Listed(p, n)' <=> Listed(p, n)
    BY <1>2, Values, SendTyped, SeesSent
  <2>2. Steady(p, n) /\ UNCHANGED <<local, sector, killed>>
    BY <1>2, SteadyWorld DEF do_send, world, history
  <2> QED
    BY <2>1, <2>2 DEF NpcAt, Steady, Consistent, Exact, local
<1>3. CASE AllVisited(t)
  <2>1. Label(t) \in {"npcPart", "npcHit"} /\ pc[t] # "send" /\ Untouched(p, n)
    BY <1>1, <1>3, CalmSteps DEF AllVisited, Label, Calm, CalmMove, Handles, PlayerLabels
  <2>2. Steady(p, n)
    BY <1>3, SteadyWorld DEF AllVisited, world, history
  <2>3. todo[t] = {} /\ ent'[t] = None
    BY <1>3 DEF AllVisited, Return, Typed, TypeOK
  <2>4. objects'[p][n] = objects[p][n] /\ (Listed(p, n)' <=> Listed(p, n)) /\ Sees(t, p, n) = objects[p][n]
    BY <2>1, SeesTheSame DEF Untouched
  <2> QED
    BY <1>1, <2>1, <2>2, <2>3, <2>4 DEF NpcAt, Steady, Consistent, Quiet, Exact
<1>4. CASE Moving(t)
  BY <1>1, <1>3, <1>4 DEF Moving, StartMove, Begin, Greet, Part, CopyViewList, Look, EnterPeer,
     GreetBack,
     AllGreeted, Handles, Label, PlayerLabels
<1>5. ~LoggingIn(t) /\ ~Leaving(t)
  BY <1>1 DEF LoggingIn, Leaving, StartLogin, StartLeave, Begin, Meet, Insert, LockSector,
     UnlockSector, Tell,
     Erase, CopyToTell, ChangeState, Unpublish, Handles, Label, PlayerLabels, LeaveLabels
<1> QED
  BY <1>2, <1>4, <1>5, NpcMovingTold, NpcHurtTold DEF Steps

(* The first step of a handler. *)
LEMMA PlayerBegins ==
  ASSUME Typed, NEW t \in Threads, Steps(t), NEW p \in Players, NEW n \in Npcs,
         ent[t] # p, ent'[t] = p,
         IF state[p] = "ST_ALLOC" THEN Unknown(p) ELSE Quiet(p, n)
  PROVE  PlayerAt(t, p, n)'
<1> USE DEF PlayerLabels, Greeting
<1>1. n \in Entities /\ pc \in [Threads -> Labels]
  BY Values DEF Typed, TypeOK
<1>2. ASSUME NEW s \in Spots, StartMove(t, p, s) PROVE PlayerAt(t, p, n)'
  <2>1. Quiet(p, n)
    BY <1>2 DEF StartMove
  <2>2. Label(t)' = "copy" /\ pc'[t] # "send"
    BY <1>1, <1>2 DEF StartMove, Goto, Label
  <2>3. UNCHANGED <<sector, viewList, objects, killed>>
    BY <1>2 DEF StartMove
  <2> QED
    BY <2>1, <2>2, <2>3 DEF Quiet, PlayerAt, Consistent, Sees, Carries, Listed
<1>3. ASSUME NEW s \in Spots, StartLogin(t, p, s) PROVE PlayerAt(t, p, n)'
  <2>1. Label(t)' = "insert" /\ pc'[t] # "send"
    BY <1>1, <1>3 DEF StartLogin, Goto, Label
  <2>2. UNCHANGED <<sector, viewList, objects, killed>>
    BY <1>3 DEF StartLogin
  <2>3. Unknown(p)
    BY <1>3 DEF StartLogin
  <2> QED
    BY <1>1, <2>1, <2>2, <2>3 DEF Unknown, PlayerAt, Consistent, Sees, Carries, Listed
<1>4. CASE StartLeave(t, p)
  BY <1>1, <1>4 DEF StartLeave, Goto, Label, PlayerAt
<1> QED
  BY <1>2, <1>3, <1>4, WhoBegins

LEMMA NpcBegins ==
  ASSUME Typed, NEW t \in Threads, Steps(t), NEW p \in Players, NEW n \in Npcs,
         ent[t] # n, ent'[t] = n, state[p] = "ST_INGAME", Quiet(p, n)
  PROVE  NpcAt(t, p, n)'
<1>1. n \in Entities /\ pc \in [Threads -> Labels] /\ p \in sector /\ (p \in Around(n) <=> can_see(p, n))
  BY Values, InSightOfNpc DEF Typed, TypeOK, Quiet
<1>2. ASSUME NEW s \in Spots, StartNpcMove(t, n, s) PROVE NpcAt(t, p, n)'
  <2>1. Label(t)' = "npcMove" /\ pc'[t] # "send"
    BY <1>1, <1>2 DEF StartNpcMove, Goto, Label
  <2>2. UNCHANGED <<at, sector, viewList, objects, killed>> /\ n \in sector
    BY <1>2 DEF StartNpcMove, world
  <2>3. old'[t] = Around(n) \intersect Players
    BY <1>2 DEF StartNpcMove, Typed, TypeOK
  <2> QED
    BY <1>1, <2>1, <2>2, <2>3
    DEF Quiet, NpcAt, Consistent, Sees, Carries, Listed, Exact, Present, can_see
<1>3. ASSUME StartNpcHit(t, n) PROVE NpcAt(t, p, n)'
  <2>1. /\ Label(t)' \in {"npcHit", "npcKill"} /\ pc'[t] # "send"
        /\ killed' = killed \/ (Label(t)' = "npcKill" /\ killed' = killed \union {n})
    BY <1>1, <1>3 DEF StartNpcHit, Goto, Label
  <2>2. UNCHANGED <<at, sector, viewList, objects>> /\ n \in sector
    BY <1>3 DEF StartNpcHit, world
  <2>3. todo'[t] = Around(n) \intersect Players
    BY <1>3 DEF StartNpcHit, Typed, TypeOK
  <2> QED
    BY <1>1, <2>1, <2>2, <2>3
    DEF Quiet, NpcAt, Consistent, Sees, Carries, Listed, Exact, Present, can_see
<1>4. (\E s \in Spots : StartNpcMove(t, n, s)) \/ StartNpcHit(t, n)
  <2>1. PICK e \in Entities : Begin(t, e)
    <3>1. n # None /\ ~Unpublish(t)
      BY Values DEF Unpublish, Return, Typed, TypeOK
    <3> QED
      BY <3>1, HandlerBeginsOrGoesOn
  <2>2. pc[t] = "idle" /\ n \notin Players /\ \A x \in Entities : Begin(t, x) => x = n
    BY <2>1, Values DEF Begin, Typed, TypeOK
  <2>3. \A x \in Players : ~Begin(t, x)
    BY <2>2, Values
  <2> QED
    BY <2>2, <2>3, Values, WhatBegins DEF StartMove, StartLogin, StartLeave
<1> QED
  BY <1>2, <1>3, <1>4

(* Of a player and an NPC that have not raced, one at most is being handled. *)
AtMostOne ==
  \A p \in Players, n \in Npcs, t, u \in Threads :
    Alone(p, n) /\ ent[t] \in {p, n} /\ ent[u] \in {p, n} => t = u

LEMMA OnePair == Typed /\ RacesKnown => AtMostOne
<1> SUFFICES ASSUME Typed, RacesKnown, NEW p \in Players, NEW n \in Npcs,
                    NEW t \in Threads, NEW u \in Threads,
                    Alone(p, n), ent[t] \in {p, n}, ent[u] \in {p, n}, t # u
             PROVE  FALSE
  BY DEF AtMostOne
<1>1. pc[t] # "idle" /\ pc[u] # "idle"
  BY Values DEF Typed, Handles
<1>2. state[ent[t]] # "ST_FREE" /\ state[ent[u]] # "ST_FREE"
  BY DEF Alone, Typed, Standing
<1>3. {ent[t], ent[u]} \in {{p}, {n}, {p, n}} /\ Overlaps(ent[t], ent[u])
  BY DEF Overlaps
<1> QED
  BY <1>1, <1>2, <1>3 DEF RacesKnown, Alone

LEMMA AloneBefore ==
  ASSUME Typed, NEW t \in Threads, Steps(t), NEW p \in Players, NEW n \in Npcs,
         Alone(p, n)', state[p] = "ST_INGAME"
  PROVE  Alone(p, n)
<1>1. \A r \in {{p}, {n}, {p, n}} : \A e \in r : state[e] # "ST_FREE"
  BY DEF Typed, Standing
<1> QED
  BY <1>1, RacedStays DEF Alone

LEMMA ToldByStep ==
  ASSUME Typed, RacesKnown, Typed', RacesKnown', Unmet, NpcsTold, NEW t \in Threads, Steps(t),
         NEW p \in Players, NEW n \in Npcs, Alone(p, n)'
  PROVE  Told(p, n)'
<1>1. /\ OthersWait(t) /\ p # n /\ p # None /\ n # None
      /\ AtMostOne'
  <2>1. AtMostOne'
    BY OnePair, PTL
  <2> QED
    BY <2>1, StepsTyped, Values DEF Kept
<1>2. ASSUME NEW u \in Threads \ {t}
      PROVE  ent'[u] = ent[u] /\ UNCHANGED <<pc[u], mail[u], old[u], near[u], todo[u], peer[u]>>
  BY <1>1 DEF OthersWait
<1>3. state[p] # "ST_INGAME" => state[p] = "ST_ALLOC" /\ \E s \in Spots : StartLogin(t, p, s)
  BY WhatStateDoes DEF Alone, StartLogin
<1>4. ASSUME state[p] = "ST_INGAME" PROVE Alone(p, n) /\ Told(p, n) /\ AtMostOne
  BY <1>4, AloneBefore, OnePair DEF NpcsTold
<1>5. CASE ent[t] \notin {p, n} /\ ent'[t] \in {p, n}
  <2>1. ASSUME NEW u \in Threads \ {t} PROVE ent'[u] \notin {p, n}
    BY <1>1, <1>5, <2>1 DEF AtMostOne
  <2>2. IF state[p] = "ST_ALLOC" THEN Unknown(p) ELSE state[p] = "ST_INGAME" /\ Quiet(p, n)
    <3>1. \A u \in Threads : ent[u] \notin {p, n}
      BY <1>2, <1>5, <2>1
    <3> QED
      BY <1>3, <1>4, <3>1 DEF Unmet, Told
  <2>3. CASE ent'[t] = p
    <3>1. PlayerAt(t, p, n)'
      BY <1>5, <2>2, <2>3, PlayerBegins
    <3> QED
      BY <1>1, <2>1, <2>3, <3>1 DEF Told
  <2>4. CASE ent'[t] = n
    <3>1. state[p] = "ST_INGAME"
      BY <1>1, <1>3, <2>4 DEF StartLogin, Begin, Typed, TypeOK
    <3>2. NpcAt(t, p, n)'
      BY <1>5, <2>2, <2>4, <3>1, NpcBegins
    <3> QED
      BY <1>1, <2>1, <2>4, <3>2 DEF Told
  <2> QED
    BY <1>5, <2>3, <2>4
<1>6. CASE ent[t] \notin {p, n} /\ ent'[t] \notin {p, n}
  <2>1. state[p] = "ST_INGAME"
    BY <1>3, <1>6 DEF StartLogin, Begin, Typed, TypeOK
  <2>2. Told(p, n)
    BY <1>4, <2>1
  <2>3. Apart(p, n)
    BY <1>6, BystanderKeeps
  <2>4. ASSUME NEW u \in Threads
        PROVE  /\ ent'[u] \in {p, n} <=> ent[u] \in {p, n}
               /\ ent'[u] \in {p, n} => u # t /\ ent'[u] = ent[u]
    BY <1>2, <1>6
  <2>5. ASSUME NEW u \in Threads, ent'[u] = p PROVE PlayerAt(u, p, n)'
    BY <1>2, <2>2, <2>3, <2>4, <2>5, TheirsStays DEF Told
  <2>6. ASSUME NEW u \in Threads, ent'[u] = n PROVE NpcAt(u, p, n)'
    BY <1>2, <2>2, <2>3, <2>4, <2>6, TheirsStays DEF Told
  <2>7. ASSUME \A u \in Threads : ent'[u] \notin {p, n} PROVE Quiet(p, n)'
    BY <2>2, <2>3, <2>4, <2>7, TheirsStays DEF Told
  <2> QED
    BY <2>5, <2>6, <2>7 DEF Told
<1>7. CASE ent[t] \in {p, n}
  <2>1. pc[t] # "idle"
    BY <1>1, <1>7 DEF Typed, Handles
  <2>2. state[p] = "ST_INGAME"
    BY <1>3, <2>1 DEF StartLogin, Begin
  <2>3. Told(p, n) /\ AtMostOne /\ Alone(p, n)
    BY <1>4, <2>2
  <2>4. ASSUME NEW u \in Threads \ {t} PROVE ent'[u] \notin {p, n}
    BY <1>2, <1>7, <2>3, <2>4 DEF AtMostOne
  <2>5. ent'[t] \in {ent[t], None}
    BY <2>1, HandlerBeginsOrGoesOn DEF Begin, Unpublish, Return, Typed, TypeOK
  <2>6. CASE ent[t] = p
    <3>1. IF ent'[t] = p THEN PlayerAt(t, p, n)' ELSE Quiet(p, n)'
      <4>1. state'[p] # "ST_FREE" /\ PlayerAt(t, p, n)
        BY <2>3, <2>6 DEF Told, Alone
      <4> QED
        BY <2>6, <4>1, PlayerStepTold
    <3> QED
      BY <1>1, <2>4, <2>5, <2>6, <3>1 DEF Told
  <2>7. CASE ent[t] = n
    <3>1. IF ent'[t] = n THEN NpcAt(t, p, n)' ELSE Quiet(p, n)'
      <4>1. NpcAt(t, p, n)
        BY <2>3, <2>7 DEF Told
      <4> QED
        BY <2>2, <2>7, <4>1, NpcStepTold
    <3> QED
      BY <1>1, <2>4, <2>5, <2>7, <3>1 DEF Told
  <2> QED
    BY <1>7, <2>6, <2>7
<1> QED
  BY <1>5, <1>6, <1>7

(* An NPC that comes back while neither is being handled has been forgotten.  *)
LEMMA ToldByRespawn ==
  ASSUME Typed, NpcsTold, NEW m \in Npcs, Respawn(m),
         NEW p \in Players, NEW n \in Npcs, Alone(p, n)'
  PROVE  Told(p, n)'
<1>1. /\ UNCHANGED <<at, state, viewList, objects, pc, ent, old, near, todo, peer, mail, killed>>
      /\ sector' = sector \union {m}
      /\ raced' = raced \union {{m, f} : f \in Overlapping(m)} /\ p # m /\ p # n /\ m \notin sector
  BY Values DEF Respawn, local
<1>2. Alone(p, n) /\ Told(p, n)
  BY <1>1 DEF Alone, NpcsTold
<1>3. CASE m # n
  <2>1. Apart(p, n)
    BY <1>1, <1>3 DEF Apart, can_see
  <2> QED
    BY <1>1, <1>2, <2>1, TheirsStays DEF Told
<1>4. CASE m = n
  <2>1. ASSUME NEW t \in Threads PROVE ent[t] \notin {p, n}
    <3>1. SUFFICES ASSUME ent[t] \in {p, n} PROVE FALSE
      OBVIOUS
    <3>2. pc[t] # "idle"
      BY <3>1, Values DEF Typed, Handles
    <3>3. ent[t] \in Overlapping(n)
      BY <3>2 DEF Overlapping
    <3>4. {n, ent[t]} \in raced' /\ {n, ent[t]} \in {{n}, {p, n}}
      BY <1>1, <1>4, <3>1, <3>3
    <3> QED
      BY <3>4 DEF Alone
  <2>2. Quiet(p, n) /\ n \in killed
    BY <1>1, <1>2, <1>4, <2>1 DEF Told, Typed, Standing
  <2>3. Quiet(p, n)'
    BY <1>1, <1>4, <2>2 DEF Quiet, Consistent, Exact, Listed, Present, can_see
  <2> QED
    BY <1>1, <2>1, <2>3 DEF Told
<1> QED
  BY <1>3, <1>4

LEMMA NpcsToldAtFirst == Init => NpcsTold
BY Values DEF Init, NpcsTold, Alone

LEMMA NpcsStayTold == Typed /\ RacesKnown /\ Unmet /\ NpcsTold /\ [Next]_vars => NpcsTold'
<1> SUFFICES ASSUME Typed, RacesKnown, Unmet, NpcsTold, [Next]_vars, Typed', RacesKnown',
                    NEW p \in Players, NEW n \in Npcs, Alone(p, n)'
             PROVE  Told(p, n)'
  BY TypedStays, RacesStayKnown DEF NpcsTold
<1>1. ASSUME NEW t \in Threads, Steps(t) PROVE Told(p, n)'
  BY <1>1, ToldByStep
<1>2. ASSUME NEW m \in Npcs, Respawn(m) PROVE Told(p, n)'
  BY <1>2, ToldByRespawn
<1>3. ASSUME UNCHANGED vars PROVE Told(p, n)'
  <2>1. UNCHANGED <<at, state, sector, viewList, objects, pc, ent, old, near, todo, peer, mail, killed, raced>>
    BY <1>3 DEF vars, world, local, history
  <2>2. Apart(p, n) /\ Told(p, n)
    BY <2>1 DEF Apart, can_see, Alone, NpcsTold
  <2> QED
    BY <2>1, <2>2, TheirsStays DEF Told
<1> QED
  BY <1>1, <1>2, <1>3 DEF Next, Steps, GameOver

-----------------------------------------------------------------------------
(* What holds. *)

LEMMA Invariant == Spec => []IInv
<1>1. Init => IInv
  BY TypedAtFirst, RacesKnownAtFirst, UnmetAtFirst, ListsTrackedAtFirst, FoundListedAtFirst,
     NpcsToldAtFirst DEF IInv
<1>2. IInv /\ [Next]_vars => IInv'
  BY TypedStays, RacesStayKnown, UnmetStays, ListsStayTracked, FoundStaysListed, NpcsStayTold
     DEF IInv
<1> QED
  BY <1>1, <1>2, PTL DEF Spec

(* Every variable has its type, and the lock of the sector is with a login    *)
(* that visits those in it (server_frame.cpp).                               *)
THEOREM TypeCorrect == Spec => []TypeOK
<1>1. IInv => TypeOK
  BY DEF IInv, Typed
<1> QED
  BY <1>1, Invariant, PTL

(* When nothing is being handled a client that has been sent no leave of a    *)
(* player shows it exactly if it is on the view list (session.cpp).          *)
THEOREM ScreenFollowsList == Spec => []ShownAsListed
<1>1. IInv => ShownAsListed
  BY DEF IInv, ListsTracked, Tracked, Entering, Carries, ShownAsListed, AtRest, InGame
<1> QED
  BY <1>1, Invariant, PTL

(* When nothing is being handled, what a player has found is on its list,     *)
(* and on its screen if it was sent no leave of it (session.cpp,             *)
(* do_player_move and login).                                               *)
THEOREM FoundOnScreen == Spec => []FoundIsShown
<1>1. IInv => FoundIsShown
  <2> SUFFICES ASSUME IInv, AtRest, NEW p \in Players, NEW q \in Players,
                      InGame(p), state[q] = "ST_INGAME", q \in found[p]
               PROVE  /\ q \in viewList[p]
                      /\ <<p, q>> \notin parted => objects[p][q] = "shown"
    BY DEF FoundIsShown
  <2>1. \A t \in Threads : ent[t] = None /\ pc[t] = "idle"
    BY DEF AtRest, IInv, Typed, Handles
  <2>2. Sole(p) /\ ~Leaves(q)
    BY <2>1, Values DEF InGame, Sole, Leaves
  <2>3. q \in viewList[p]
    BY <2>1, <2>2, Values DEF IInv, FoundListed, FoundBy
  <2> QED
    BY <2>1, <2>2, <2>3 DEF IInv, Sole, ListsTracked, Tracked, Entering, Carries
<1> QED
  BY <1>1, Invariant, PTL

(* When nothing is being handled, a player whose handlers have overlapped     *)
(* neither with each other nor with the NPC's sees the NPC while it is in     *)
(* sight, and no NPC that is dead or away (session.cpp, npc.cpp).             *)
THEOREM NpcsOnScreen == Spec => []NpcShownInSight
<1>1. IInv => NpcShownInSight
  <2> SUFFICES ASSUME Typed, NpcsTold, AtRest, NEW p \in Players, NEW n \in Npcs, Alone(p, n)
               PROVE  /\ objects[p][n] = "shown" => Present(p, n)
                      /\ Present(p, n) /\ n \notin killed => objects[p][n] = "shown"
                      /\ n \notin killed /\ ~Present(p, n) => objects[p][n] = "none"
    BY DEF IInv, NpcShownInSight, InGame, Alone, Present
  <2>1. \A t \in Threads : ent[t] \notin {p, n}
    <3>1. p # None /\ n # None /\ \A t \in Threads : ent[t] = None
      BY Values DEF AtRest, Typed, Handles
    <3> QED
      BY <3>1
  <2>2. Quiet(p, n) /\ objects[p][n] \in {"none", "empty", "shown"}
    BY <2>1, Values DEF NpcsTold, Told, Typed, TypeOK
  <2> QED
    BY <2>2 DEF Quiet, Consistent, Exact
<1> QED
  BY <1>1, Invariant, PTL

=============================================================================
