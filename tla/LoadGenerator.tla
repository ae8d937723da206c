---------------------------- MODULE LoadGenerator ----------------------------
(***************************************************************************)
(* The load generator: the test thread connects clients, makes them walk,   *)
(* and closes some again while the server answers slowly; the workers      *)
(* handle what completes on the clients' sockets. A client is the index of *)
(* its slot in g_clients. Packets are received whole (the loop that puts   *)
(* them together is that of process_data, see Framing); positions are not  *)
(* kept, and packets that change nothing else are not counted. The server  *)
(* is known by what it sends.                                              *)
(***************************************************************************)
EXTENDS Integers, FiniteSets

CONSTANTS
  Workers,      (* worker threads                                           *)
  MaxClients,   (* MAX_CLIENTS: slots                                       *)
  MaxTest,      (* MAX_TEST: clients that may be active                     *)
  MaxUser,      (* MAX_USER: logins the server answers                      *)
  MinActive,    (* 100: with fewer clients none is closed                   *)
  Part,         (* 20: the part of the limit that is left free              *)
  MaxClose,     (* bound: clients closed for being too slow                 *)
  Test          (* the test thread                                          *)

ASSUME LoadAssumption ==
  /\ IsFiniteSet(Workers) /\ Test \notin Workers
  /\ {MaxClients, MaxTest, MaxUser, MinActive, MaxClose} \subseteq Nat
  /\ Part \in Nat \ {0}
  /\ MaxUser <= MaxTest       (* both are 10000                             *)

VARIABLES
  connected, sock, recv,  (* per client: connected; client_socket; the WSARecv *)
  sends,                  (* clients with a WSASend outstanding             *)
  next,                   (* num_connections                                *)
  active,                 (* active_clients                                 *)
  toClose,                (* client_to_close                                *)
  maxLimit, increasing,   (* max_limit, increasing                          *)
  late,                   (* global_delay is above DELAY_LIMIT2             *)
  pc, at,                 (* of each thread: where it is, and with which client *)
  passed,                 (* history: slots found unconnected by the test thread *)
  gone,                   (* open sockets whose connection the server has closed *)
  answered,               (* clients whose login the server has answered    *)
  avatars                 (* those whose avatar information is on its way   *)

controlVars == <<next, toClose, maxLimit, increasing, late>>
serverVars == <<gone, answered, avatars>>
vars == <<connected, sock, recv, sends, active, controlVars, pc, at, passed, serverVars>>

Clients == 0..(MaxClients - 1)
Threads == Workers \cup {Test}
Infinite == MaxClients + 1     (* MAXINT *)

Init ==
  /\ connected = [c \in Clients |-> FALSE]
  /\ sock = [c \in Clients |-> "none"]
  /\ recv = [c \in Clients |-> FALSE]
  /\ sends = {}
  /\ next = 0 /\ active = 0 /\ toClose = 0
  /\ maxLimit = Infinite /\ increasing = TRUE
  /\ late = FALSE
  /\ pc = [t \in Threads |-> "idle"]
  /\ at = [t \in Threads |-> 0]
  /\ passed = {}
  /\ gone = {} /\ answered = {} /\ avatars = {}

Goto(t, label) == pc' = [pc EXCEPT ![t] = label] /\ UNCHANGED at
GotoWith(t, label, c) ==
  /\ pc' = [pc EXCEPT ![t] = label]
  /\ at' = [at EXCEPT ![t] = c]
Done(t) == GotoWith(t, "idle", 0)

-----------------------------------------------------------------------------
(* The server. It answers a login with avatar information, MAX_USER times at *)
(* most (it never uses an id again), and sends any packets but that and    *)
(* LOGIN_FAIL afterwards. A connection may break at any time.              *)

Answer(c) ==
  /\ sock[c] = "open"
  /\ c \notin answered \cup gone
  /\ Cardinality(answered) < MaxUser
  /\ answered' = answered \cup {c}
  /\ avatars' = avatars \cup {c}
  /\ UNCHANGED <<connected, sock, recv, sends, active, controlVars, pc, at, passed, gone>>

ServerCloses(c) ==
  /\ sock[c] = "open" /\ c \notin gone
  /\ gone' = gone \cup {c}
  /\ UNCHANGED <<connected, sock, recv, sends, active, controlVars, pc, at, passed, answered, avatars>>

-----------------------------------------------------------------------------
(* Mutant: the flag is cleared without a look at it.                         *)
ExchangeAlways(t) ==
  /\ pc[t] = "disconnect" /\ at[t] \in Clients
  /\ connected' = [connected EXCEPT ![at[t]] = FALSE]
  /\ Goto(t, "close")
  /\ UNCHANGED <<sock, recv, sends, active, controlVars, passed, serverVars>>

(* DisconnectClient, by any thread: only the one whose exchange succeeds     *)
(* closes the socket and counts.                                           *)

Exchange(t) ==
  /\ pc[t] = "disconnect" /\ at[t] \in Clients
  /\ IF connected[at[t]]
     THEN /\ connected' = [connected EXCEPT ![at[t]] = FALSE]
          /\ Goto(t, "close")
          /\ UNCHANGED passed
     ELSE /\ Done(t)
          /\ passed' = passed \cup (IF t = Test THEN {at[t]} ELSE {})
          /\ UNCHANGED connected
  /\ UNCHANGED <<sock, recv, sends, active, controlVars, serverVars>>

(* Nothing keeps client_to_close inside g_clients. Beyond its end the flag is *)
(* some other memory: either it does not read as connected, or what follows *)
(* is not the program any more, and the model ends.                        *)
Overrun ==
  /\ pc[Test] = "disconnect" /\ at[Test] \notin Clients
  /\ Done(Test) \/ Goto(Test, "wrecked")
  /\ UNCHANGED <<connected, sock, recv, sends, active, controlVars, passed, serverVars>>

CloseSocket(t) ==
  /\ pc[t] = "close"
  /\ sock' = [sock EXCEPT ![at[t]] = "closed"]
  /\ gone' = gone \ {at[t]}
  /\ active' = active - 1
  /\ Done(t)
  /\ UNCHANGED <<connected, recv, sends, controlVars, passed, answered, avatars>>

-----------------------------------------------------------------------------
(* The workers. *)

(* A receive brings packets, the avatar information first.                   *)
TakePackets(w, c) ==
  /\ pc[w] = "idle"
  /\ recv[c] /\ sock[c] = "open" /\ c \in answered
  /\ recv' = [recv EXCEPT ![c] = FALSE]
  /\ avatars' = avatars \ {c}
  /\ GotoWith(w, IF c \in avatars THEN "avatar" ELSE "packet", c)
  /\ UNCHANGED <<connected, sock, sends, active, controlVars, passed, gone, answered>>

(* It fails when the socket is closed, or brings nothing at its end.         *)
TakeEnd(w, c) ==
  /\ pc[w] = "idle"
  /\ recv[c]
  /\ sock[c] = "closed" \/ c \in gone \ avatars
  /\ recv' = [recv EXCEPT ![c] = FALSE]
  /\ GotoWith(w, "disconnect", c)
  /\ UNCHANGED <<connected, sock, sends, active, controlVars, passed, serverVars>>

(* A send may fail, or be incomplete, at any time.                           *)
TakeSent(w, c) ==
  /\ pc[w] = "idle"
  /\ c \in sends
  /\ sends' = sends \ {c}
  /\ GotoWith(w, "disconnect", c) \/ UNCHANGED <<pc, at>>
  /\ UNCHANGED <<connected, sock, recv, active, controlVars, passed, serverVars>>

(* ProcessPacket: AVATAR_INFO makes the client a connected one, then counts   *)
(* it.                                                                     *)
AvatarInfo(w) ==
  /\ pc[w] = "avatar"
  /\ connected' = [connected EXCEPT ![at[w]] = TRUE]
  /\ Goto(w, "count")
  /\ UNCHANGED <<sock, recv, sends, active, controlVars, passed, serverVars>>

CountActive(w) ==
  /\ pc[w] = "count"
  /\ active' = active + 1
  /\ Goto(w, "packet")
  /\ UNCHANGED <<connected, sock, recv, sends, controlVars, passed, serverVars>>

(* A move of its own may take the measured delay over the limit, or back.    *)
MovePacket(w) ==
  /\ pc[w] = "packet"
  /\ late' \in BOOLEAN
  /\ UNCHANGED <<connected, sock, recv, sends, active, next, toClose, maxLimit, increasing,
                 pc, at, passed, serverVars>>

(* Mutant: a receive that fails is left at that.                             *)
RearmOrNot(w) ==
  /\ pc[w] = "packet"
  /\ \/ /\ sock[at[w]] = "open"
        /\ recv' = [recv EXCEPT ![at[w]] = TRUE]
     \/ /\ sock[at[w]] = "closed" \/ at[w] \in gone
        /\ UNCHANGED recv
  /\ Done(w)
  /\ UNCHANGED <<connected, sock, sends, active, controlVars, passed, serverVars>>

(* The next receive. It fails if the socket has been closed, and may if the   *)
(* connection has.                                                         *)
Rearm(w) ==
  /\ pc[w] = "packet"
  /\ \/ /\ sock[at[w]] = "open"
        /\ recv' = [recv EXCEPT ![at[w]] = TRUE]
        /\ Done(w)
     \/ /\ sock[at[w]] = "closed" \/ at[w] \in gone
        /\ Goto(w, "disconnect")
        /\ UNCHANGED recv
  /\ UNCHANGED <<connected, sock, sends, active, controlVars, passed, serverVars>>

-----------------------------------------------------------------------------
(* Mutant: nobody asks whether there is a slot left.                         *)
AdjustingBeyond ==
  /\ pc[Test] = "idle"
  /\ active < MaxTest
  /\ UNCHANGED <<connected, active, passed, serverVars>>

(* The test thread. Adjust_Number_Of_Client reads active_clients several     *)
(* times and here once; it may find at any time that enough of it has gone  *)
(* by since last_connect_time, so delay_multiplier makes no difference, and *)
(* nothing happens while the delay is between the two limits.               *)

Adjusting ==
  /\ pc[Test] = "idle"
  /\ active < MaxTest /\ next < MaxClients
  /\ UNCHANGED <<connected, active, passed, serverVars>>

(* Mutant: one is closed however few there are.                              *)
OverloadedAnyway ==
  /\ Adjusting
  /\ late
  /\ maxLimit' = (IF increasing THEN active ELSE maxLimit)
  /\ increasing' = FALSE
  /\ toClose < MaxClose
  /\ GotoWith(Test, "disconnect", toClose)
  /\ toClose' = toClose + 1
  /\ UNCHANGED <<sock, recv, sends, next, late>>

(* Too slow: close one, if there are enough of them and the last adjustment   *)
(* is long enough ago.                                                     *)
Overloaded ==
  /\ Adjusting
  /\ late
  /\ maxLimit' = (IF increasing THEN active ELSE maxLimit)
  /\ increasing' = FALSE
  /\ \/ /\ active >= MinActive /\ toClose < MaxClose
        /\ GotoWith(Test, "disconnect", toClose)
        /\ toClose' = toClose + 1
     \/ UNCHANGED <<toClose, pc, at>>
  /\ UNCHANGED <<sock, recv, sends, next, late>>

(* A share of max_limit; division is towards zero.                           *)
Share == IF maxLimit < 0 THEN - ((- maxLimit) \div Part) ELSE maxLimit \div Part

MayConnect ==
  /\ Adjusting
  /\ ~late
  /\ active <= maxLimit - Share
  /\ increasing' = TRUE
  /\ UNCHANGED <<next, toClose, maxLimit, late>>

SendPacket(c) == sends' = sends \cup {c}

(* The login is sent and a receive is up before the slot is counted.         *)
Connect ==
  /\ MayConnect
  /\ sock' = [sock EXCEPT ![next] = "open"]
  /\ recv' = [recv EXCEPT ![next] = TRUE]
  /\ SendPacket(next)
  /\ Goto(Test, "register")

(* If the first receive fails, the slot is used again; a login sent there     *)
(* may still complete.                                                     *)
ConnectFails ==
  /\ MayConnect
  /\ SendPacket(next) \/ UNCHANGED sends
  /\ UNCHANGED <<sock, recv, pc, at>>

Register ==
  /\ pc[Test] = "register"
  /\ next' = next + 1
  /\ Done(Test)
  /\ UNCHANGED <<connected, sock, recv, sends, active, toClose, maxLimit, increasing, late,
                 passed, serverVars>>

(* Between two adjustments every connected client may walk. A send on a       *)
(* socket that has been closed since fails without a completion.           *)
SendMove(c) ==
  /\ pc[Test] = "idle"
  /\ c < next /\ connected[c]
  /\ SendPacket(c)
  /\ UNCHANGED <<connected, sock, recv, active, controlVars, pc, at, passed, serverVars>>

-----------------------------------------------------------------------------

Worker(w) ==
  AvatarInfo(w) \/ CountActive(w) \/ MovePacket(w) \/ Rearm(w) \/ Exchange(w) \/ CloseSocket(w)

Taking(c) == \E w \in Workers : TakePackets(w, c) \/ TakeEnd(w, c)

Next ==
  /\ pc[Test] # "wrecked"
  /\ \/ \E c \in Clients : Answer(c) \/ ServerCloses(c)
     \/ \E c \in Clients : Taking(c) \/ SendMove(c) \/ \E w \in Workers : TakeSent(w, c)
     \/ \E w \in Workers : Worker(w)
     \/ Exchange(Test) \/ Overrun \/ CloseSocket(Test)
     \/ Overloaded \/ Connect \/ ConnectFails \/ Register

Spec == Init /\ [][Next]_vars

-----------------------------------------------------------------------------

(* Types and ranges: num_connections does not leave g_clients, while          *)
(* client_to_close may.                                                    *)
TypeOK ==
  /\ connected \in [Clients -> BOOLEAN]
  /\ sock \in [Clients -> {"none", "open", "closed"}]
  /\ recv \in [Clients -> BOOLEAN]
  /\ sends \subseteq Clients
  /\ next \in 0..MaxClients
  /\ active \in Int /\ maxLimit \in Int
  /\ toClose \in Nat
  /\ increasing \in BOOLEAN /\ late \in BOOLEAN
  /\ pc \in [Threads -> {"idle", "avatar", "count", "packet", "disconnect", "close", "register",
                       "wrecked"}]
  /\ at \in [Threads -> Nat] /\ passed \subseteq Clients
  /\ gone \subseteq Clients /\ answered \subseteq Clients /\ avatars \subseteq answered

(* active_clients is the number of connected clients, but for those a thread *)
(* has just marked and is about to count (ProcessPacket, DisconnectClient).  *)
Marking == {w \in Workers : pc[w] = "count"}
Closing == {t \in Threads : pc[t] = "close"}
Connected == {c \in Clients : connected[c]}

ActiveIsConnected ==
  active + Cardinality(Marking) = Cardinality(Connected) + Cardinality(Closing)

(* Mutant: every slot that has been used is drawn.                           *)
EverySlot == 0..(next - 1)

(* GetPointCloud looks at the slots one after the other while clients come   *)
(* and go: it draws at most those that have been connected at some time.   *)
MayBeDrawn == {c \in 0..(next - 1) : connected[c] \/ sock[c] = "closed"}

(* point_cloud has room for them, although nothing counts clients whose      *)
(* login is on its way when the next one is connected.                     *)
PointCloudFits == Cardinality(MayBeDrawn) <= MaxTest

(* A connected client never goes unheard: a receive is up on its socket, so   *)
(* that the end of the connection would be noticed, or a worker is about to *)
(* post one or to disconnect it (Worker_Thread).                           *)
ConnectedIsHeard ==
  \A c \in Connected :
    recv[c] \/ \E w \in Workers : at[w] = c /\ pc[w] \in {"avatar", "count", "packet", "disconnect"}

(* client_to_close runs out of g_clients only behind clients that were        *)
(* connected after it had passed them: DisconnectClient found nothing to   *)
(* close, and their answers came later. It takes 100 of them, less those   *)
(* being counted out (Adjust_Number_Of_Client).                            *)
Stragglers == Connected \cap passed

EndNeedsStragglers ==
  [][toClose >= MaxClients /\ toClose' # toClose =>
       Cardinality(Stragglers) + Cardinality(Closing) >= MinActive]_vars

=============================================================================
