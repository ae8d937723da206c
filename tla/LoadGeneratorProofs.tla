------------------------- MODULE LoadGeneratorProofs -------------------------
(***************************************************************************)
(* Proofs about LoadGenerator, for any number of workers and clients.       *)
(***************************************************************************)
EXTENDS LoadGenerator, FiniteSetTheorems, TLAPS

Holds(w, c) == pc[w] \in {"avatar", "count", "packet"} /\ at[w] = c

(* A slot is used from Connect on.                                          *)
SlotsUsed ==
  \A c \in Clients :
    sock[c] # "none" \/ recv[c] \/ c \in answered =>
      c < next \/ (c = next /\ pc[Test] = "register")

(* One worker at a time handles what a client has received, and then there  *)
(* is no receive up.                                                       *)
OneHandler ==
  /\ \A w \in Workers : \A c \in Clients : Holds(w, c) => c \in answered /\ ~recv[c]
  /\ \A v, w \in Workers : \A c \in Clients : Holds(v, c) /\ Holds(w, c) => v = w

(* Until its avatar information has been handled, a client has not been      *)
(* connected, and there is one such packet.                                *)
Untold(c) ==
  \/ c \notin answered
  \/ c \in avatars
  \/ \E w \in Workers : pc[w] = "avatar" /\ at[w] = c

ToldOnce ==
  /\ \A w \in Workers : pc[w] = "avatar" => at[w] \in answered \ avatars
  /\ \A c \in Clients : Untold(c) => ~connected[c] /\ sock[c] # "closed"
  /\ \A t \in Threads : pc[t] = "close" => at[t] \in Clients /\ ~Untold(at[t])

AnswersCounted == Cardinality(answered) <= MaxUser

(* Only the test thread registers, and only workers handle packets.          *)
Roles ==
  /\ \A w \in Workers : pc[w] \notin {"register", "wrecked"}
  /\ pc[Test] \notin {"avatar", "count", "packet"}
  /\ \A t \in Threads : pc[t] \in {"avatar", "count", "packet", "close"} => at[t] \in Clients
  /\ \A w \in Workers : pc[w] = "disconnect" => at[w] \in Clients
  /\ pc[Test] = "disconnect" => at[Test] + 1 = toClose
  /\ pc[Test] = "register" => next < MaxClients

(* What client_to_close has passed was not connected then, or never will be  *)
(* again, except for the slot the test thread is about to look at.         *)
Behind ==
  \A c \in Clients : c < toClose =>
    \/ c \in passed
    \/ pc[Test] = "disconnect" /\ at[Test] = c
    \/ ~Untold(c) /\ ~connected[c]

IInv ==
  /\ TypeOK /\ Roles /\ SlotsUsed /\ OneHandler /\ ToldOnce /\ Behind
  /\ AnswersCounted /\ ConnectedIsHeard

LEMMA Sets ==
  /\ MaxClients \in Nat /\ MaxTest \in Nat /\ MaxUser \in Nat /\ MaxUser <= MaxTest /\ Part \in Nat \ {0}
  /\ Clients \subseteq Nat /\ IsFiniteSet(Clients)
  /\ IsFiniteSet(Threads) /\ IsFiniteSet(Workers) /\ Test \notin Workers
  /\ Test \in Threads /\ Workers \subseteq Threads
<1>1. IsFiniteSet(Clients)
  BY LoadAssumption, FS_Interval DEF Clients
<1>2. IsFiniteSet(Threads)
  BY LoadAssumption, FS_Singleton, FS_Union DEF Threads
<1> QED BY <1>1, <1>2, LoadAssumption DEF Clients, Threads

(* The invariant holds initially. *)
LEMMA InitInvariant == Init => IInv
<1> SUFFICES ASSUME Init PROVE IInv
  OBVIOUS
<1>1. TypeOK
  <2>1. connected \in [Clients -> BOOLEAN] /\ recv \in [Clients -> BOOLEAN] /\ increasing \in BOOLEAN /\ late \in BOOLEAN
    BY DEF Init
  <2>2. active \in Int /\ maxLimit \in Int /\ next \in 0..MaxClients /\ toClose \in Nat
    BY Sets DEF Init, Infinite
  <2>3. sock \in [Clients -> {"none", "open", "closed"}] /\ at \in [Threads -> Nat] /\ passed \subseteq Clients
        /\ pc \in [Threads -> {"idle", "avatar", "count", "packet", "disconnect", "close", "register",
                              "wrecked"}]
    BY DEF Init
  <2>4. sends \subseteq Clients /\ gone \subseteq Clients /\ answered \subseteq Clients /\ avatars \subseteq answered
    BY DEF Init
  <2> QED BY <2>1, <2>2, <2>3, <2>4 DEF TypeOK
<1>2. Roles /\ SlotsUsed /\ OneHandler /\ ToldOnce /\ Behind /\ ConnectedIsHeard
  BY Sets DEF Init, Roles, SlotsUsed, OneHandler, Holds, ToldOnce, Untold, Behind, ConnectedIsHeard, Connected
<1>3. AnswersCounted
  BY Sets, FS_EmptySet DEF Init, AnswersCounted
<1> QED BY <1>1, <1>2, <1>3 DEF IInv

-----------------------------------------------------------------------------
(* Every action keeps the types. *)
LEMMA TypeKept ==
  ASSUME IInv, Next
  PROVE  TypeOK' /\ Roles'
<1> USE Sets DEF IInv, TypeOK, Roles, Goto, GotoWith, Done, controlVars, serverVars
<1>1. ASSUME NEW c \in Clients, Answer(c) \/ ServerCloses(c) PROVE TypeOK' /\ Roles'
  BY <1>1 DEF Answer, ServerCloses
<1>2. ASSUME NEW c \in Clients, NEW w \in Workers, TakePackets(w, c) \/ TakeEnd(w, c) \/ TakeSent(w, c)
      PROVE  TypeOK' /\ Roles'
  <2>1. CASE TakePackets(w, c)
    BY <2>1 DEF TakePackets
  <2>2. CASE TakeEnd(w, c)
    BY <2>2 DEF TakeEnd
  <2>3. CASE TakeSent(w, c)
    BY <2>3 DEF TakeSent
  <2> QED BY <1>2, <2>1, <2>2, <2>3
<1>3. ASSUME NEW c \in Clients, SendMove(c) PROVE TypeOK' /\ Roles'
  BY <1>3 DEF SendMove, SendPacket
<1>4. ASSUME NEW w \in Workers, AvatarInfo(w) \/ CountActive(w) \/ MovePacket(w) \/ Rearm(w)
      PROVE  TypeOK' /\ Roles'
  <2>1. CASE AvatarInfo(w)
    BY <2>1 DEF AvatarInfo
  <2>2. CASE CountActive(w)
    BY <2>2 DEF CountActive
  <2>3. CASE MovePacket(w)
    BY <2>3 DEF MovePacket
  <2>4. CASE Rearm(w)
    <3>1. at[w] \in Clients /\ w # Test
      BY <2>4 DEF Rearm
    <3>2. CASE recv' = [recv EXCEPT ![at[w]] = TRUE] /\ Done(w)
      <4>1. TypeOK'
        BY <2>4, <3>1, <3>2 DEF Rearm
      <4>2. Roles'
        BY <2>4, <3>1, <3>2 DEF Rearm
      <4> QED BY <4>1, <4>2
    <3>3. CASE Goto(w, "disconnect") /\ UNCHANGED recv
      <4>1. TypeOK'
        BY <2>4, <3>1, <3>3 DEF Rearm
      <4>2. Roles'
        BY <2>4, <3>1, <3>3 DEF Rearm
      <4> QED BY <4>1, <4>2
    <3> QED BY <2>4, <3>2, <3>3 DEF Rearm
  <2> QED BY <1>4, <2>1, <2>2, <2>3, <2>4
<1>5. ASSUME NEW t \in Threads, Exchange(t) \/ CloseSocket(t) PROVE TypeOK' /\ Roles'
  <2>1. CASE Exchange(t)
    <3>1. at[t] \in Clients
      BY <2>1 DEF Exchange
    <3>2. CASE connected[at[t]]
      BY <2>1, <3>1, <3>2 DEF Exchange
    <3>3. CASE ~connected[at[t]]
      <4>1. /\ pc' = [pc EXCEPT ![t] = "idle"] /\ at' = [at EXCEPT ![t] = 0]
            /\ passed' \subseteq Clients
            /\ UNCHANGED <<connected, sock, recv, sends, active, next, toClose, maxLimit, increasing, late,
                           gone, answered, avatars>>
        BY <2>1, <3>1, <3>3 DEF Exchange
      <4>2. TypeOK'
        BY <4>1
      <4>3. Roles'
        BY <4>1
      <4> QED BY <4>2, <4>3
    <3> QED BY <3>2, <3>3
  <2>2. CASE CloseSocket(t)
    <3>1. at[t] \in Clients /\ active - 1 \in Int
      BY <2>2 DEF CloseSocket
    <3>2. TypeOK'
      BY <2>2, <3>1 DEF CloseSocket
    <3>3. Roles'
      BY <2>2, <3>1 DEF CloseSocket
    <3> QED BY <3>2, <3>3
  <2> QED BY <1>5, <2>1, <2>2
<1>6. CASE Overloaded
  <2>1. maxLimit' \in Int /\ increasing' \in BOOLEAN
    BY <1>6 DEF Overloaded
  <2>2. CASE GotoWith(Test, "disconnect", toClose) /\ toClose' = toClose + 1
    BY <1>6, <2>1, <2>2 DEF Overloaded, Adjusting
  <2>3. CASE UNCHANGED <<toClose, pc, at>>
    BY <1>6, <2>1, <2>3 DEF Overloaded, Adjusting
  <2> QED BY <1>6, <2>2, <2>3 DEF Overloaded
<1>7. CASE Connect \/ ConnectFails
  <2>1. next \in Clients
    BY <1>7 DEF Connect, ConnectFails, SendPacket, MayConnect, Adjusting, Clients
  <2>2. increasing' = TRUE /\ next < MaxClients
    BY <1>7 DEF Connect, ConnectFails, SendPacket, MayConnect, Adjusting
  <2>3. CASE Connect
    BY <2>1, <2>2, <2>3 DEF Connect, SendPacket, MayConnect, Adjusting
  <2>4. CASE ConnectFails
    BY <2>1, <2>2, <2>4 DEF ConnectFails, SendPacket, MayConnect, Adjusting
  <2> QED BY <1>7, <2>3, <2>4
<1>8. CASE Register
  BY <1>8 DEF Register
<1>9. CASE Overrun
  BY <1>9 DEF Overrun
<1> QED BY <1>1, <1>2, <1>3, <1>4, <1>5, <1>6, <1>7, <1>8, <1>9 DEF Next, Worker, Taking

(* Slots are taken in order, and one worker handles a client's packets.      *)
LEMMA HandlersKept ==
  ASSUME IInv, Next
  PROVE  SlotsUsed' /\ OneHandler'
<1> USE Sets DEF IInv, TypeOK, Roles, SlotsUsed, OneHandler, Holds, Goto, GotoWith, Done, controlVars, serverVars
<1>1. ASSUME NEW c \in Clients, Answer(c) \/ ServerCloses(c) PROVE SlotsUsed' /\ OneHandler'
  BY <1>1 DEF Answer, ServerCloses
<1>2. ASSUME NEW c \in Clients, NEW w \in Workers, TakePackets(w, c) \/ TakeEnd(w, c) \/ TakeSent(w, c)
      PROVE  SlotsUsed' /\ OneHandler'
  <2>1. CASE TakePackets(w, c)
    BY <2>1 DEF TakePackets
  <2>2. CASE TakeEnd(w, c)
    BY <2>2 DEF TakeEnd
  <2>3. CASE TakeSent(w, c)
    BY <2>3 DEF TakeSent
  <2> QED BY <1>2, <2>1, <2>2, <2>3
<1>3. ASSUME NEW c \in Clients, SendMove(c) PROVE SlotsUsed' /\ OneHandler'
  BY <1>3 DEF SendMove, SendPacket
<1>4. ASSUME NEW w \in Workers, AvatarInfo(w) \/ CountActive(w) \/ MovePacket(w) \/ Rearm(w)
      PROVE  SlotsUsed' /\ OneHandler'
  <2>1. CASE AvatarInfo(w)
    BY <2>1 DEF AvatarInfo
  <2>2. CASE CountActive(w)
    BY <2>2 DEF CountActive
  <2>3. CASE MovePacket(w)
    BY <2>3 DEF MovePacket
  <2>4. CASE Rearm(w)
    BY <2>4 DEF Rearm
  <2> QED BY <1>4, <2>1, <2>2, <2>3, <2>4
<1>5. ASSUME NEW t \in Threads, Exchange(t) \/ CloseSocket(t) PROVE SlotsUsed' /\ OneHandler'
  <2>1. CASE Exchange(t)
    BY <2>1 DEF Exchange
  <2>2. CASE CloseSocket(t)
    BY <2>2 DEF CloseSocket, ToldOnce, Untold
  <2> QED BY <1>5, <2>1, <2>2
<1>6. CASE Overloaded
  BY <1>6 DEF Overloaded, Adjusting
<1>7. CASE Connect \/ ConnectFails
  <2>1. next \in Clients /\ pc[Test] = "idle" /\ next \notin answered
    BY <1>7 DEF Connect, ConnectFails, SendPacket, MayConnect, Adjusting, Clients
  <2> QED BY <1>7, <2>1 DEF Connect, ConnectFails, SendPacket, MayConnect, Adjusting
<1>8. CASE Register
  <2>1. SlotsUsed'
    BY <1>8 DEF Register, Clients
  <2>2. OneHandler'
    BY <1>8 DEF Register
  <2> QED BY <2>1, <2>2
<1>9. CASE Overrun
  BY <1>9 DEF Overrun
<1> QED BY <1>1, <1>2, <1>3, <1>4, <1>5, <1>6, <1>7, <1>8, <1>9 DEF Next, Worker, Taking

(* A client is told once. *)
LEMMA ToldKept ==
  ASSUME IInv, Next
  PROVE  ToldOnce'
<1> USE Sets DEF IInv, TypeOK, Roles, OneHandler, Holds, ToldOnce, Untold, Goto, GotoWith, Done, controlVars, serverVars
<1>1. ASSUME NEW c \in Clients, Answer(c) \/ ServerCloses(c) PROVE ToldOnce'
  BY <1>1 DEF Answer, ServerCloses
<1>2. ASSUME NEW c \in Clients, NEW w \in Workers, TakePackets(w, c) \/ TakeEnd(w, c) \/ TakeSent(w, c)
      PROVE  ToldOnce'
  <2>1. CASE TakePackets(w, c)
    BY <2>1 DEF TakePackets
  <2>2. CASE TakeEnd(w, c)
    BY <2>2 DEF TakeEnd
  <2>3. CASE TakeSent(w, c)
    BY <2>3 DEF TakeSent
  <2> QED BY <1>2, <2>1, <2>2, <2>3
<1>3. ASSUME NEW c \in Clients, SendMove(c) PROVE ToldOnce'
  BY <1>3 DEF SendMove, SendPacket
<1>4. ASSUME NEW w \in Workers, AvatarInfo(w) \/ CountActive(w) \/ MovePacket(w) \/ Rearm(w)
      PROVE  ToldOnce'
  <2>1. CASE AvatarInfo(w)
    BY <2>1 DEF AvatarInfo
  <2>2. CASE CountActive(w)
    BY <2>2 DEF CountActive
  <2>3. CASE MovePacket(w)
    BY <2>3 DEF MovePacket
  <2>4. CASE Rearm(w)
    BY <2>4 DEF Rearm
  <2> QED BY <1>4, <2>1, <2>2, <2>3, <2>4
<1>5. ASSUME NEW t \in Threads, Exchange(t) \/ CloseSocket(t) PROVE ToldOnce'
  <2>1. CASE Exchange(t)
    <3>1. at[t] \in Clients
      BY <2>1 DEF Exchange
    <3>2. CASE connected[at[t]]
      <4>1. ~Untold(at[t])
        BY <3>1, <3>2
      <4>2. pc' = [pc EXCEPT ![t] = "close"] /\ connected' = [connected EXCEPT ![at[t]] = FALSE]
            /\ UNCHANGED <<at, sock, answered, avatars>>
        BY <2>1, <3>2 DEF Exchange
      <4>3. \A c \in Clients : Untold(c)' = Untold(c)
        BY <2>1, <4>2 DEF Exchange
      <4>4. \A c \in Clients : Untold(c)' => ~connected'[c] /\ sock'[c] # "closed"
        BY <3>1, <4>2, <4>3
      <4>5. \A u \in Threads : pc'[u] = "close" => at'[u] \in Clients /\ ~Untold(at[u])'
        BY <3>1, <4>1, <4>2, <4>3
      <4>6. \A w \in Workers : pc'[w] = "avatar" => at'[w] \in answered' \ avatars'
        BY <4>2
      <4> QED BY <4>2, <4>4, <4>5, <4>6 DEF ToldOnce
    <3>3. CASE ~connected[at[t]]
      BY <2>1, <3>1, <3>3 DEF Exchange
    <3> QED BY <3>2, <3>3
  <2>2. CASE CloseSocket(t)
    BY <2>2 DEF CloseSocket
  <2> QED BY <1>5, <2>1, <2>2
<1>6. CASE Overloaded
  BY <1>6 DEF Overloaded, Adjusting
<1>7. CASE Connect \/ ConnectFails
  BY <1>7 DEF Connect, ConnectFails, SendPacket, MayConnect, Adjusting
<1>8. CASE Register
  BY <1>8 DEF Register
<1>9. CASE Overrun
  BY <1>9 DEF Overrun
<1> QED BY <1>1, <1>2, <1>3, <1>4, <1>5, <1>6, <1>7, <1>8, <1>9 DEF Next, Worker, Taking

LEMMA HeardKept ==
  ASSUME IInv, Next
  PROVE  ConnectedIsHeard'
<1> USE Sets DEF IInv, TypeOK, Roles, OneHandler, Holds, ConnectedIsHeard, Connected, Goto, GotoWith, Done, controlVars, serverVars
<1>1. ASSUME NEW c \in Clients, Answer(c) \/ ServerCloses(c) PROVE ConnectedIsHeard'
  BY <1>1 DEF Answer, ServerCloses
<1>2. ASSUME NEW c \in Clients, NEW w \in Workers, TakePackets(w, c) \/ TakeEnd(w, c) \/ TakeSent(w, c)
      PROVE  ConnectedIsHeard'
  <2>1. CASE TakePackets(w, c)
    BY <2>1 DEF TakePackets
  <2>2. CASE TakeEnd(w, c)
    BY <2>2 DEF TakeEnd
  <2>3. CASE TakeSent(w, c)
    BY <2>3 DEF TakeSent
  <2> QED BY <1>2, <2>1, <2>2, <2>3
<1>3. ASSUME NEW c \in Clients, SendMove(c) PROVE ConnectedIsHeard'
  BY <1>3 DEF SendMove, SendPacket
<1>4. ASSUME NEW w \in Workers, AvatarInfo(w) \/ CountActive(w) \/ MovePacket(w) \/ Rearm(w)
      PROVE  ConnectedIsHeard'
  <2>1. CASE AvatarInfo(w)
    BY <2>1 DEF AvatarInfo
  <2>2. CASE CountActive(w)
    BY <2>2 DEF CountActive
  <2>3. CASE MovePacket(w)
    BY <2>3 DEF MovePacket
  <2>4. CASE Rearm(w)
    BY <2>4 DEF Rearm
  <2> QED BY <1>4, <2>1, <2>2, <2>3, <2>4
<1>5. ASSUME NEW t \in Threads, Exchange(t) \/ CloseSocket(t) PROVE ConnectedIsHeard'
  <2>1. CASE Exchange(t)
    <3>1. at[t] \in Clients
      BY <2>1 DEF Exchange
    <3>2. CASE connected[at[t]]
      BY <2>1, <3>1, <3>2 DEF Exchange
    <3>3. CASE ~connected[at[t]]
      BY <2>1, <3>1, <3>3 DEF Exchange
    <3> QED BY <3>2, <3>3
  <2>2. CASE CloseSocket(t)
    BY <2>2 DEF CloseSocket
  <2> QED BY <1>5, <2>1, <2>2
<1>6. CASE Overloaded
  BY <1>6 DEF Overloaded, Adjusting
<1>7. CASE Connect \/ ConnectFails
  BY <1>7 DEF Connect, ConnectFails, SendPacket, MayConnect, Adjusting
<1>8. CASE Register
  BY <1>8 DEF Register
<1>9. CASE Overrun
  BY <1>9 DEF Overrun
<1> QED BY <1>1, <1>2, <1>3, <1>4, <1>5, <1>6, <1>7, <1>8, <1>9 DEF Next, Worker, Taking

(* What has been passed stays passed. *)
LEMMA BehindKept ==
  ASSUME IInv, Next
  PROVE  Behind'
<1> USE Sets DEF IInv, TypeOK, Roles, ToldOnce, Untold, Behind, Goto, GotoWith, Done, controlVars, serverVars
<1>1. ASSUME NEW c \in Clients, Answer(c) \/ ServerCloses(c) PROVE Behind'
  BY <1>1 DEF Answer, ServerCloses
<1>2. ASSUME NEW c \in Clients, NEW w \in Workers, TakePackets(w, c) \/ TakeEnd(w, c) \/ TakeSent(w, c)
      PROVE  Behind'
  <2>1. CASE TakePackets(w, c)
    BY <2>1 DEF TakePackets
  <2>2. CASE TakeEnd(w, c)
    BY <2>2 DEF TakeEnd
  <2>3. CASE TakeSent(w, c)
    BY <2>3 DEF TakeSent
  <2> QED BY <1>2, <2>1, <2>2, <2>3
<1>3. ASSUME NEW c \in Clients, SendMove(c) PROVE Behind'
  BY <1>3 DEF SendMove, SendPacket
<1>4. ASSUME NEW w \in Workers, AvatarInfo(w) \/ CountActive(w) \/ MovePacket(w) \/ Rearm(w)
      PROVE  Behind'
  <2>1. CASE AvatarInfo(w)
    BY <2>1 DEF AvatarInfo
  <2>2. CASE CountActive(w)
    BY <2>2 DEF CountActive
  <2>3. CASE MovePacket(w)
    BY <2>3 DEF MovePacket
  <2>4. CASE Rearm(w)
    BY <2>4 DEF Rearm
  <2> QED BY <1>4, <2>1, <2>2, <2>3, <2>4
<1>5. ASSUME NEW t \in Threads, Exchange(t) PROVE Behind'
  <2>1. \A c \in Clients : Untold(c)' => Untold(c)
    BY <1>5 DEF Exchange
  <2>2. CASE connected[at[t]]
    <3>1. ~Untold(at[t])
      BY <1>5, <2>2 DEF Exchange
    <3>2. connected' = [connected EXCEPT ![at[t]] = FALSE] /\ UNCHANGED <<passed, toClose, at>>
          /\ pc' = [pc EXCEPT ![t] = "close"]
      BY <1>5, <2>2 DEF Exchange
    <3> QED BY <1>5, <2>1, <3>1, <3>2 DEF Exchange
  <2>3. CASE ~connected[at[t]]
    BY <1>5, <2>1, <2>3 DEF Exchange
  <2> QED BY <2>2, <2>3
<1>6. ASSUME NEW t \in Threads, CloseSocket(t) PROVE Behind'
  BY <1>6 DEF CloseSocket
<1>7. CASE Overloaded
  <2>1. \A c \in Clients : c < toClose + 1 => c < toClose \/ c = toClose
    OBVIOUS
  <2> QED BY <1>7, <2>1 DEF Overloaded, Adjusting
<1>8. CASE Connect \/ ConnectFails
  BY <1>8 DEF Connect, ConnectFails, SendPacket, MayConnect, Adjusting
<1>9. CASE Register
  BY <1>9 DEF Register
<1>10. CASE Overrun
  BY <1>10 DEF Overrun
<1> QED BY <1>1, <1>2, <1>3, <1>4, <1>5, <1>6, <1>7, <1>8, <1>9, <1>10 DEF Next, Worker, Taking

LEMMA AnswersKept ==
  ASSUME IInv, Next
  PROVE  AnswersCounted'
<1>1. ASSUME NEW c \in Clients, Answer(c) PROVE AnswersCounted'
  <2>1. IsFiniteSet(answered) /\ Cardinality(answered) \in Nat /\ c \notin answered
    BY <1>1, Sets, FS_Subset, FS_CardinalityType DEF IInv, TypeOK, Answer
  <2>2. Cardinality(answered \cup {c}) = Cardinality(answered) + 1
    BY <2>1, FS_AddElement
  <2> QED BY <1>1, <2>1, <2>2, Sets DEF Answer, AnswersCounted
<1>2. CASE UNCHANGED answered
  BY <1>2 DEF IInv, AnswersCounted
<1>3. (\E c \in Clients : Answer(c)) \/ UNCHANGED answered
  BY DEF Next, ServerCloses, Taking, TakePackets, TakeEnd, TakeSent, SendMove, SendPacket, Worker, AvatarInfo,
         CountActive, MovePacket, Rearm, Exchange, Overrun, CloseSocket, Overloaded, Connect, ConnectFails,
         Register, MayConnect, Adjusting, serverVars
<1> QED BY <1>1, <1>2, <1>3

LEMMA Invariance == Spec => []IInv
<1>1. ASSUME IInv, Next PROVE IInv'
  BY <1>1, TypeKept, HandlersKept, ToldKept, BehindKept, HeardKept, AnswersKept DEF IInv
<1>2. ASSUME IInv, UNCHANGED vars PROVE IInv'
  BY <1>2 DEF vars, controlVars, serverVars, IInv, TypeOK, Roles, SlotsUsed, OneHandler, Holds,
       ToldOnce, Untold, Behind, AnswersCounted, ConnectedIsHeard, Connected
<1> QED BY InitInvariant, <1>1, <1>2, PTL DEF Spec

-----------------------------------------------------------------------------
(* Moving an element into a set, or out of it, changes its size by one. *)
LEMMA OneMore ==
  ASSUME NEW S, IsFiniteSet(S), NEW x, x \notin S, NEW T, T = S \cup {x}
  PROVE  Cardinality(T) = Cardinality(S) + 1 /\ Cardinality(S) \in Nat
BY FS_AddElement, FS_CardinalityType

LEMMA OneLess ==
  ASSUME NEW S, IsFiniteSet(S), NEW x \in S, NEW T, T = S \ {x}
  PROVE  Cardinality(T) = Cardinality(S) - 1 /\ Cardinality(S) \in Nat
BY FS_RemoveElement, FS_CardinalityType

(* The marks and the count of active clients stay in step. *)
LEMMA CountKept ==
  ASSUME IInv, ActiveIsConnected, Next
  PROVE  ActiveIsConnected'
<1>1. /\ IsFiniteSet(Marking) /\ IsFiniteSet(Closing) /\ IsFiniteSet(Connected)
      /\ Cardinality(Marking) \in Nat /\ Cardinality(Closing) \in Nat /\ Cardinality(Connected) \in Nat
      /\ active \in Int
  <2>1. Marking \subseteq Workers /\ Closing \subseteq Threads /\ Connected \subseteq Clients
    BY DEF Marking, Closing, Connected
  <2>2. IsFiniteSet(Marking) /\ IsFiniteSet(Closing) /\ IsFiniteSet(Connected)
    BY <2>1, Sets, FS_Subset
  <2> QED BY <2>2, FS_CardinalityType DEF IInv, TypeOK
<1>2. ASSUME NEW w \in Workers, AvatarInfo(w) PROVE ActiveIsConnected'
  <2>1. at[w] \in Clients /\ ~connected[at[w]] /\ pc[w] = "avatar" /\ w \in Threads
    BY <1>2, Sets DEF AvatarInfo, IInv, Roles, ToldOnce, Untold
  <2>2. w \notin Marking /\ Marking' = Marking \cup {w}
    BY <1>2, <2>1, Sets DEF AvatarInfo, Marking, Goto, IInv, TypeOK
  <2>3. at[w] \notin Connected /\ Connected' = Connected \cup {at[w]}
    BY <1>2, <2>1 DEF AvatarInfo, Connected, IInv, TypeOK
  <2>4. Closing' = Closing /\ active' = active
    BY <1>2, <2>1, Sets DEF AvatarInfo, Closing, Goto, IInv, TypeOK
  <2>5. Cardinality(Marking') = Cardinality(Marking) + 1 /\ Cardinality(Connected') = Cardinality(Connected) + 1
    BY <1>1, <2>2, <2>3, OneMore
  <2> QED BY <1>1, <2>4, <2>5 DEF ActiveIsConnected
<1>3. ASSUME NEW w \in Workers, CountActive(w) PROVE ActiveIsConnected'
  <2>1. w \in Marking /\ Marking' = Marking \ {w}
    BY <1>3, Sets DEF CountActive, Marking, Goto, IInv, TypeOK
  <2>2. Connected' = Connected /\ Closing' = Closing /\ active' = active + 1
    BY <1>3, Sets DEF CountActive, Connected, Closing, Goto, IInv, TypeOK
  <2>3. Cardinality(Marking') = Cardinality(Marking) - 1
    BY <1>1, <2>1, OneLess
  <2> QED BY <1>1, <2>2, <2>3 DEF ActiveIsConnected
<1>4. ASSUME NEW t \in Threads, Exchange(t), connected[at[t]] PROVE ActiveIsConnected'
  <2>1. at[t] \in Clients
    BY <1>4 DEF Exchange, IInv, Roles
  <2>2. at[t] \in Connected /\ Connected' = Connected \ {at[t]}
    BY <1>4, <2>1 DEF Exchange, Connected, IInv, TypeOK
  <2>3. t \notin Closing /\ Closing' = Closing \cup {t}
    BY <1>4 DEF Exchange, Closing, Goto, IInv, TypeOK
  <2>4. Marking' = Marking /\ active' = active
    BY <1>4, Sets DEF Exchange, Marking, Goto, IInv, TypeOK
  <2>5. Cardinality(Connected') = Cardinality(Connected) - 1
    BY <1>1, <2>2, OneLess
  <2>6. Cardinality(Closing') = Cardinality(Closing) + 1
    BY <1>1, <2>3, OneMore
  <2> QED BY <1>1, <2>4, <2>5, <2>6 DEF ActiveIsConnected
<1>5. ASSUME NEW t \in Threads, CloseSocket(t) PROVE ActiveIsConnected'
  <2>1. t \in Closing /\ Closing' = Closing \ {t}
    BY <1>5 DEF CloseSocket, Closing, Done, GotoWith, IInv, TypeOK
  <2>2. Marking' = Marking /\ Connected' = Connected /\ active' = active - 1
    BY <1>5, Sets DEF CloseSocket, Marking, Connected, Done, GotoWith, IInv, TypeOK
  <2>3. Cardinality(Closing') = Cardinality(Closing) - 1
    BY <1>1, <2>1, OneLess
  <2> QED BY <1>1, <2>2, <2>3 DEF ActiveIsConnected
<1>6. ASSUME UNCHANGED <<connected, active>>,
             \A t \in Threads : pc'[t] \in {"count", "close"} \/ pc[t] \in {"count", "close"} => pc'[t] = pc[t]
      PROVE  ActiveIsConnected'
  <2>1. Marking' = Marking /\ Closing' = Closing /\ Connected' = Connected
    BY <1>6, Sets DEF Marking, Closing, Connected
  <2> QED BY <1>6, <2>1 DEF ActiveIsConnected
<1> USE Sets DEF IInv, TypeOK, Goto, GotoWith, Done, controlVars, serverVars
<1>7. ASSUME NEW c \in Clients, Answer(c) \/ ServerCloses(c) \/ SendMove(c) PROVE ActiveIsConnected'
  BY <1>6, <1>7 DEF Answer, ServerCloses, SendMove, SendPacket
<1>8. ASSUME NEW c \in Clients, NEW w \in Workers, TakePackets(w, c) \/ TakeEnd(w, c) \/ TakeSent(w, c)
      PROVE  ActiveIsConnected'
  BY <1>6, <1>8 DEF TakePackets, TakeEnd, TakeSent
<1>9. ASSUME NEW w \in Workers, MovePacket(w) \/ Rearm(w) PROVE ActiveIsConnected'
  BY <1>6, <1>9 DEF MovePacket, Rearm
<1>10. ASSUME NEW t \in Threads, Exchange(t), ~connected[at[t]] PROVE ActiveIsConnected'
  BY <1>6, <1>10 DEF Exchange
<1>11. CASE Overloaded \/ Connect \/ ConnectFails \/ Register \/ Overrun
  BY <1>6, <1>11 DEF Overloaded, Overrun, Connect, ConnectFails, SendPacket, Register, MayConnect, Adjusting
<1> QED BY <1>2, <1>3, <1>4, <1>5, <1>7, <1>8, <1>9, <1>10, <1>11 DEF Next, Worker, Taking

-----------------------------------------------------------------------------
(* The types of the variables: num_connections stays within g_clients and no  *)
(* worker uses a slot beyond it (client_to_close may, see Overrun).         *)
THEOREM TypeCorrect == Spec => []TypeOK
BY Invariance, PTL DEF IInv

(* active_clients is off by no more than the threads that are between the    *)
(* mark and the count (ProcessPacket, DisconnectClient), for any number of  *)
(* threads and clients: the exchange on connected makes sure of it.         *)
THEOREM ActiveCountIsRight == Spec => []ActiveIsConnected
<1>1. Init => ActiveIsConnected
  <2>1. ASSUME Init PROVE Marking = {} /\ Closing = {} /\ Connected = {} /\ active = 0
    BY <2>1, Sets DEF Init, Marking, Closing, Connected
  <2> QED BY <2>1, FS_EmptySet DEF ActiveIsConnected
<1>2. IInv /\ ActiveIsConnected /\ UNCHANGED vars => ActiveIsConnected'
  BY DEF vars, ActiveIsConnected, Marking, Closing, Connected
<1>3. IInv /\ ActiveIsConnected /\ [Next]_vars => ActiveIsConnected'
  BY <1>2, CountKept
<1> QED BY <1>1, <1>3, Invariance, PTL DEF Spec

(* client_to_close runs out of g_clients only behind MinActive clients that   *)
(* were connected after it had passed them, or are being counted out       *)
(* (Adjust_Number_Of_Client), for any number of threads and clients.       *)
THEOREM EndIsBehindStragglers == Spec => EndNeedsStragglers
<1> DEFINE Step == toClose >= MaxClients /\ toClose' # toClose =>
                     Cardinality(Stragglers) + Cardinality(Closing) >= MinActive
<1>1. ASSUME IInv, ActiveIsConnected, Next PROVE Step
  <2> SUFFICES ASSUME toClose >= MaxClients, toClose' # toClose
               PROVE  Cardinality(Stragglers) + Cardinality(Closing) >= MinActive
    OBVIOUS
  <2>1. active >= MinActive /\ pc[Test] = "idle"
    BY <1>1 DEF Next, Answer, ServerCloses, Taking, TakePackets, TakeEnd, TakeSent, SendMove, Worker, AvatarInfo,
       CountActive, MovePacket, Rearm, Exchange, Overrun, CloseSocket, Overloaded, Connect, ConnectFails,
       Register, MayConnect, Adjusting, controlVars
  <2>2. Connected \subseteq passed
    BY <1>1, <2>1, Sets DEF IInv, TypeOK, Behind, Connected, Clients
  <2>3. Stragglers = Connected
    BY <2>2 DEF Stragglers
  <2>4. IsFiniteSet(Marking)
    BY Sets, FS_Subset DEF Marking
  <2>5. IsFiniteSet(Connected) /\ IsFiniteSet(Closing)
    BY Sets, FS_Subset DEF Connected, Closing
  <2>6. Cardinality(Marking) \in Nat /\ Cardinality(Connected) \in Nat /\ Cardinality(Closing) \in Nat
    BY <2>4, <2>5, FS_CardinalityType
  <2> QED BY <1>1, <2>1, <2>3, <2>6, LoadAssumption DEF ActiveIsConnected, IInv, TypeOK
<1>2. IInv /\ ActiveIsConnected /\ [Next]_vars => [Step]_vars
  BY <1>1
<1> HIDE DEF Step
<1>3. Spec => [][Step]_vars
  BY <1>2, Invariance, ActiveCountIsRight, PTL DEF Spec
<1> QED BY <1>3 DEF EndNeedsStragglers, Step

(* A connected client's socket has a receive up, or a worker is at it        *)
(* (Worker_Thread).                                                        *)
THEOREM NobodyUnheard == Spec => []ConnectedIsHeard
BY Invariance, PTL DEF IInv

(* point_cloud is never overrun, because the server answers at most MAX_USER *)
(* logins and a slot is drawn only if it was connected (GetPointCloud).     *)
THEOREM PointsFit == Spec => []PointCloudFits
<1>1. IInv => PointCloudFits
  <2> SUFFICES ASSUME IInv PROVE Cardinality(MayBeDrawn) <= MaxTest
    BY DEF PointCloudFits
  <2>1. MayBeDrawn \subseteq answered
    BY Sets DEF IInv, TypeOK, ToldOnce, Untold, MayBeDrawn, Clients
  <2>2. IsFiniteSet(answered)
    BY Sets, FS_Subset DEF IInv, TypeOK
  <2>3. Cardinality(MayBeDrawn) <= Cardinality(answered)
        /\ Cardinality(MayBeDrawn) \in Nat /\ Cardinality(answered) \in Nat
    BY <2>1, <2>2, FS_Subset, FS_CardinalityType
  <2> QED BY <2>3, Sets DEF IInv, AnswersCounted
<1> QED BY <1>1, Invariance, PTL

=============================================================================
