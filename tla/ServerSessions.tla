--------------------------- MODULE ServerSessions ---------------------------
(***************************************************************************)
(* The life of the sessions of ServerFrame: connections are accepted,      *)
(* published in _sessions under a new id, looked up by the handlers of     *)
(* every thread, and retired when an I/O operation of theirs fails.        *)
(*                                                                         *)
(* Thread 0 is the database thread, the others are IOCP workers. A handler *)
(* is a sequence of steps with one access to the shared state each, and    *)
(* handlers of all threads interleave.                                     *)
(***************************************************************************)
EXTENDS SessionEbr, FiniteSets

CONSTANTS
  MaxUser,      (* MAX_USER: the ids of players are 0 .. MaxUser - 1        *)
  MaxSends,     (* bound: sends of one client outstanding at a time         *)
  MaxEpoch,     (* bound: number of handlers run                            *)
  Null,         (* nullptr                                                  *)
  Absent        (* no entry in _sessions                                    *)

ASSUME SessionsAssumption ==
  /\ MaxUser \in Nat \ {0}
  /\ MaxSends \in Nat
  /\ MaxEpoch \in Nat
  /\ Null \notin Objects
  /\ Absent \notin Objects
  /\ Null # Absent

Clients == 0 .. MaxUser - 1
Workers == Threads \ {0}

VARIABLES
  sessions,     (* _sessions, the part with the ids of players              *)
  newClientId,  (* _new_client_id                                           *)
  accept,       (* the one AcceptEx: "armed", "done", "failed" or "none"    *)
  connected,    (* clients whose peer has not gone                          *)
  open,         (* clients whose socket has not been closed                 *)
  recv,         (* clients with an outstanding WSARecv                      *)
  sends,        (* number of outstanding WSASends of each client            *)
  dbLogin,      (* clients with a queued OP_DB_LOGIN                        *)
  loggedIn,     (* clients with a posted OP_DB_LOGIN completion             *)
  pc,           (* program counter of each thread                           *)
  ev,           (* the completion a thread handles                          *)
  epoch,        (* the value fetch_add returned                             *)
  held,         (* session objects the handler has a pointer to             *)
  ptr,          (* the one it retires, or constructs                        *)
  scan,         (* the next slot pop_ptr looks at                           *)
  retired,      (* history: clients whose session was retired               *)
  twice         (* history: objects retired for a client already retired    *)

netVars   == <<accept, connected, open, recv, sends, dbLogin, loggedIn>>
localVars == <<pc, ev, epoch, held, ptr, scan>>
history   == <<retired, twice>>
vars == <<ebrVars, sessions, newClientId, netVars, localVars, history>>

Completion(kind, client) == [kind |-> kind, client |-> client]
Kinds == {"accept", "badAccept", "recv", "login", "fail", "dbLogin"}
NoCompletion == Completion("none", 0)

(* run() listens and posts the one AcceptEx before it starts the threads.    *)
NetInit ==
  /\ accept = "armed"
  /\ connected = {} /\ open = {} /\ recv = {}
  /\ sends = [c \in Clients |-> 0]
  /\ dbLogin = {} /\ loggedIn = {}

Init ==
  /\ EbrInit
  /\ NetInit
  /\ sessions = [c \in Clients |-> Absent]
  /\ newClientId = 0
  /\ pc = [t \in Threads |-> "idle"]
  /\ ev = [t \in Threads |-> NoCompletion]
  /\ epoch = [t \in Threads |-> 0]
  /\ held = [t \in Threads |-> {}]
  /\ ptr = [t \in Threads |-> Null]
  /\ scan = [t \in Threads |-> 0]
  /\ retired = {}
  /\ twice = {}

Goto(t, label) == pc' = [pc EXCEPT ![t] = label]

-----------------------------------------------------------------------------
(* The network.                                                             *)

AcceptCompletes ==
  /\ accept = "armed"
  /\ accept' \in {"done", "failed"}
  /\ UNCHANGED <<ebrVars, sessions, newClientId, connected, open, recv, sends,
                 dbLogin, loggedIn, localVars, history>>

PeerLeaves(c) ==
  /\ c \in connected
  /\ connected' = connected \ {c}
  /\ UNCHANGED <<ebrVars, sessions, newClientId, accept, open, recv, sends,
                 dbLogin, loggedIn, localVars, history>>

-----------------------------------------------------------------------------
(* A thread takes a completion and its SessionEbrGuard enters an epoch.     *)

Begin(t, kind, c) ==
  /\ pc[t] = "idle"
  /\ epochCounter <= MaxEpoch
  /\ FetchEpoch
  /\ epoch' = [epoch EXCEPT ![t] = epochCounter]
  /\ ev' = [ev EXCEPT ![t] = Completion(kind, c)]
  /\ Goto(t, "enter")
  /\ UNCHANGED <<epochArray, freeQueue, stamp, allocated, sessions, newClientId,
                 connected, open, held, ptr, scan, history>>

TakeAccept(t) ==
  /\ t \in Workers
  /\ \/ accept = "done" /\ Begin(t, "accept", 0)
     \/ accept = "failed" /\ Begin(t, "badAccept", 0)
  /\ accept' = "none"
  /\ UNCHANGED <<recv, sends, dbLogin, loggedIn>>

(* A receive completes with data. *)
TakeRecv(t, c) ==
  /\ t \in Workers
  /\ c \in recv
  /\ Begin(t, "recv", c)
  /\ recv' = recv \ {c}
  /\ UNCHANGED <<accept, sends, dbLogin, loggedIn>>

(* A receive or a send completes with an error or with no bytes, because    *)
(* the peer has gone or the socket was closed.                              *)
TakeFailure(t, c) ==
  /\ t \in Workers
  /\ c \notin connected \intersect open
  /\ \/ c \in recv /\ recv' = recv \ {c} /\ UNCHANGED sends
     \/ sends[c] > 0 /\ sends' = [sends EXCEPT ![c] = @ - 1] /\ UNCHANGED recv
  /\ Begin(t, "fail", c)
  /\ UNCHANGED <<accept, dbLogin, loggedIn>>

TakeLogin(t, c) ==
  /\ t \in Workers
  /\ c \in loggedIn
  /\ Begin(t, "login", c)
  /\ loggedIn' = loggedIn \ {c}
  /\ UNCHANGED <<accept, recv, sends, dbLogin>>

TakeDbLogin(t, c) ==
  /\ t \notin Workers
  /\ c \in dbLogin
  /\ Begin(t, "dbLogin", c)
  /\ dbLogin' = dbLogin \ {c}
  /\ UNCHANGED <<accept, recv, sends, loggedIn>>

(* A send completes; its buffer is deleted and no session is touched.       *)
SendCompletes(c) ==
  /\ sends[c] > 0
  /\ sends' = [sends EXCEPT ![c] = @ - 1]
  /\ UNCHANGED <<ebrVars, sessions, newClientId, accept, connected, open, recv,
                 dbLogin, loggedIn, localVars, history>>

EntryOf(kind) ==
  CASE kind \in {"accept", "badAccept"} -> "ac_id"
    [] kind \in {"recv", "login"}       -> "lookup"
    [] kind = "fail"                    -> "dc_lookup"
    [] kind = "dbLogin"                 -> "db"

Enter(t) ==
  /\ pc[t] = "enter"
  /\ StoreEpoch(t, epoch[t])
  /\ Goto(t, EntryOf(ev[t].kind))
  /\ UNCHANGED <<epochCounter, freeQueue, stamp, allocated, sessions, newClientId,
                 netVars, ev, epoch, held, ptr, scan, history>>

(* The guard's destructor; the handler's pointers go out of scope.          *)
Leave(t) ==
  /\ pc[t] = "leave"
  /\ EndEpoch(t)
  /\ Goto(t, "idle")
  /\ ev' = [ev EXCEPT ![t] = NoCompletion]
  /\ epoch' = [epoch EXCEPT ![t] = 0]
  /\ held' = [held EXCEPT ![t] = {}]
  /\ ptr' = [ptr EXCEPT ![t] = Null]
  /\ scan' = [scan EXCEPT ![t] = 0]
  /\ UNCHANGED <<epochCounter, freeQueue, stamp, allocated, sessions, newClientId,
                 netVars, history>>

-----------------------------------------------------------------------------
(* do_accept.                                                               *)

(* Bug: the id of a player that has left is given out again. *)
NewClientIdFreed(t) ==
  LET free == {c \in Clients : sessions[c] = Null}
      id   == IF free = {} THEN newClientId ELSE CHOOSE c \in free : TRUE
  IN /\ pc[t] = "ac_id"
     /\ newClientId' = IF free = {} THEN newClientId + 1 ELSE newClientId
     /\ IF id # MaxUser
          THEN Goto(t, "ac_pop") /\ UNCHANGED accept
          ELSE Goto(t, "leave")
               /\ accept' = IF ev[t].kind = "accept" THEN "none" ELSE "armed"
     /\ ev' = [ev EXCEPT ![t].client = id]
     /\ UNCHANGED <<ebrVars, sessions, connected, open, recv, sends, dbLogin, loggedIn,
                    epoch, held, ptr, scan, history>>

(* A failed accept is reported and then treated like a successful one. Id   *)
(* MaxUser is refused: AcceptEx is armed again with the same socket, which  *)
(* fails at once when the socket is connected.                              *)
NewClientId(t) ==
  /\ pc[t] = "ac_id"
  /\ newClientId' = newClientId + 1
  /\ IF newClientId # MaxUser
       THEN Goto(t, "ac_pop") /\ UNCHANGED accept
       ELSE Goto(t, "leave")
            /\ accept' = IF ev[t].kind = "accept" THEN "none" ELSE "armed"
  /\ ev' = [ev EXCEPT ![t].client = newClientId]
  /\ UNCHANGED <<ebrVars, sessions, connected, open, recv, sends, dbLogin, loggedIn,
                 epoch, held, ptr, scan, history>>

PopEmpty(t) ==
  /\ pc[t] = "ac_pop"
  /\ freeQueue[t] = <<>>
  /\ Goto(t, "ac_new")
  /\ UNCHANGED <<ebrVars, sessions, newClientId, netVars, ev, epoch, held, ptr, scan,
                 history>>

StartScan(t) ==
  /\ pc[t] = "ac_pop"
  /\ freeQueue[t] # <<>>
  /\ scan' = [scan EXCEPT ![t] = 0]
  /\ Goto(t, "ac_scan")
  /\ UNCHANGED <<ebrVars, sessions, newClientId, netVars, ev, epoch, held, ptr, history>>

(* Bug: the scan stops short of the last slot. *)
ScanShort(t) ==
  /\ pc[t] = "ac_scan"
  /\ scan[t] < N - 1
  /\ IF MayUseHead(t, scan[t])
       THEN Goto(t, "ac_new") /\ UNCHANGED scan
       ELSE /\ scan' = [scan EXCEPT ![t] = IF @ = N - 2 THEN N ELSE @ + 1]
            /\ UNCHANGED pc
  /\ UNCHANGED <<ebrVars, sessions, newClientId, netVars, ev, epoch, held, ptr, history>>

ScanSlot(t) ==
  /\ pc[t] = "ac_scan"
  /\ scan[t] < N
  /\ IF MayUseHead(t, scan[t])
       THEN Goto(t, "ac_new") /\ UNCHANGED scan
       ELSE scan' = [scan EXCEPT ![t] = @ + 1] /\ UNCHANGED pc
  /\ UNCHANGED <<ebrVars, sessions, newClientId, netVars, ev, epoch, held, ptr, history>>

NewSession(t, o) ==
  /\ pc[t] = "ac_new"
  /\ AllocateNew(o)
  /\ ptr' = [ptr EXCEPT ![t] = o]
  /\ Goto(t, "ac_insert")
  /\ UNCHANGED <<epochCounter, epochArray, sessions, newClientId, netVars, ev, epoch,
                 held, scan, history>>

Reclaim(t) ==
  /\ pc[t] = "ac_scan"
  /\ scan[t] = N
  /\ ReuseHead(t)
  /\ ptr' = [ptr EXCEPT ![t] = Head(freeQueue[t])]
  /\ Goto(t, "ac_insert")
  /\ UNCHANGED <<epochCounter, epochArray, sessions, newClientId, netVars, ev, epoch,
                 held, scan, history>>

(* The session is published and its first receive issued, which fails at    *)
(* once on a socket that is not connected. The id of an NPC, beyond         *)
(* MaxUser, has an entry already: insert and do_accept give up.             *)
InsertSession(t) ==
  /\ pc[t] = "ac_insert"
  /\ LET c == ev[t].client
     IN IF c \notin Clients
          THEN Goto(t, "leave") /\ UNCHANGED <<sessions, connected, open, recv>>
          ELSE /\ sessions' = [sessions EXCEPT ![c] = ptr[t]]
               /\ open' = open \union {c}
               /\ IF ev[t].kind = "accept"
                    THEN connected' = connected \union {c} /\ recv' = recv \union {c}
                    ELSE UNCHANGED <<connected, recv>>
               /\ Goto(t, "ac_arm")
  /\ UNCHANGED <<ebrVars, newClientId, accept, sends, dbLogin, loggedIn, ev, epoch,
                 held, ptr, scan, history>>

(* Bug: after a failed accept the worker returns to its loop at once. *)
ArmAfterSuccess(t) ==
  /\ pc[t] = "ac_arm"
  /\ accept' = IF ev[t].kind = "accept" THEN "armed" ELSE "none"
  /\ Goto(t, "leave")
  /\ UNCHANGED <<ebrVars, sessions, newClientId, connected, open, recv, sends, dbLogin,
                 loggedIn, ev, epoch, held, ptr, scan, history>>

ArmAccept(t) ==
  /\ pc[t] = "ac_arm"
  /\ accept' = "armed"
  /\ Goto(t, "leave")
  /\ UNCHANGED <<ebrVars, sessions, newClientId, connected, open, recv, sends, dbLogin,
                 loggedIn, ev, epoch, held, ptr, scan, history>>

-----------------------------------------------------------------------------
(* OP_RECV and OP_DB_LOGIN.                                                 *)

Lookup(t) ==
  /\ pc[t] = "lookup"
  /\ LET o == sessions[ev[t].client]
     IN IF o \in Objects
          THEN held' = [held EXCEPT ![t] = @ \union {o}] /\ Goto(t, "use")
          ELSE UNCHANGED held /\ Goto(t, "leave")
  /\ UNCHANGED <<ebrVars, sessions, newClientId, netVars, ev, epoch, ptr, scan, history>>

(* A handler looks up another player near it and sends it a packet, through *)
(* a pointer it keeps until it is done with that player. A send on a closed *)
(* socket fails at once.                                                    *)
SendTo(t, c) ==
  /\ pc[t] \in {"use", "dc_close"}
  /\ sessions[c] \in Objects
  /\ held' = [held EXCEPT ![t] = @ \union {sessions[c]}]
  /\ IF c \in open
       THEN sends[c] < MaxSends /\ sends' = [sends EXCEPT ![c] = @ + 1]
       ELSE UNCHANGED sends
  /\ UNCHANGED <<ebrVars, sessions, newClientId, accept, connected, open, recv, dbLogin,
                 loggedIn, pc, ev, epoch, ptr, scan, history>>

(* C2S_P_LOGIN queues OP_DB_LOGIN for the database thread.                  *)
RequestLogin(t) ==
  /\ pc[t] = "use"
  /\ ev[t].kind = "recv"
  /\ dbLogin' = dbLogin \union {ev[t].client}
  /\ Goto(t, "receive")
  /\ UNCHANGED <<ebrVars, sessions, newClientId, accept, connected, open, recv, sends,
                 loggedIn, ev, epoch, held, ptr, scan, history>>

Processed(t) ==
  /\ pc[t] = "use"
  /\ Goto(t, IF ev[t].kind = "recv" THEN "receive" ELSE "leave")
  /\ UNCHANGED <<ebrVars, sessions, newClientId, netVars, ev, epoch, held, ptr, scan,
                 history>>

(* do_recv: WSARecv fails at once on a closed socket, and may do so when    *)
(* the peer has gone.                                                       *)
DoRecv(t) ==
  /\ pc[t] = "receive"
  /\ LET c == ev[t].client
     IN \/ c \in open /\ recv' = recv \union {c}
        \/ c \notin open \intersect connected /\ UNCHANGED recv
  /\ Goto(t, "leave")
  /\ UNCHANGED <<ebrVars, sessions, newClientId, accept, connected, open, sends, dbLogin,
                 loggedIn, ev, epoch, held, ptr, scan, history>>

(* The database thread: the login completes, or the user cannot be created. *)
DbLoginDone(t) ==
  /\ pc[t] = "db"
  /\ loggedIn' = loggedIn \union {ev[t].client}
  /\ Goto(t, "leave")
  /\ UNCHANGED <<ebrVars, sessions, newClientId, accept, connected, open, recv, sends,
                 dbLogin, ev, epoch, held, ptr, scan, history>>

DbLoginFailed(t) ==
  /\ pc[t] = "db"
  /\ Goto(t, "dc_lookup")
  /\ UNCHANGED <<ebrVars, sessions, newClientId, netVars, ev, epoch, held, ptr, scan,
                 history>>

-----------------------------------------------------------------------------
(* ServerFrame::disconnect.                                                 *)

(* Bug: the session is used without testing it for nullptr. *)
DisconnectUntested(t) ==
  /\ pc[t] = "dc_lookup"
  /\ held' = [held EXCEPT ![t] = @ \union {sessions[ev[t].client]}]
  /\ ptr' = [ptr EXCEPT ![t] = sessions[ev[t].client]]
  /\ Goto(t, "dc_close")
  /\ UNCHANGED <<ebrVars, sessions, newClientId, netVars, ev, epoch, scan, history>>

DisconnectLookup(t) ==
  /\ pc[t] = "dc_lookup"
  /\ LET o == sessions[ev[t].client]
     IN IF o \in Objects
          THEN /\ held' = [held EXCEPT ![t] = @ \union {o}]
               /\ ptr' = [ptr EXCEPT ![t] = o]
               /\ Goto(t, "dc_close")
          ELSE UNCHANGED <<held, ptr>> /\ Goto(t, "leave")
  /\ UNCHANGED <<ebrVars, sessions, newClientId, netVars, ev, epoch, scan, history>>

CloseSocket(t) ==
  /\ pc[t] = "dc_close"
  /\ open' = open \ {ev[t].client}
  /\ Goto(t, "dc_push")
  /\ UNCHANGED <<ebrVars, sessions, newClientId, accept, connected, recv, sends, dbLogin,
                 loggedIn, ev, epoch, held, ptr, scan, history>>

(* The object is retired while it is still published. *)
Retire(t) ==
  /\ pc[t] = "dc_push"
  /\ PushPtr(t, ptr[t])
  /\ retired' = retired \union {ev[t].client}
  /\ twice' = IF ev[t].client \in retired THEN twice \union {ptr[t]} ELSE twice
  /\ Goto(t, "dc_null")
  /\ UNCHANGED <<epochCounter, epochArray, allocated, sessions, newClientId, netVars, ev,
                 epoch, held, ptr, scan>>

(* Bug: the entry is left for a later clean-up. *)
KeepPublished(t) ==
  /\ pc[t] = "dc_null"
  /\ Goto(t, "leave")
  /\ UNCHANGED <<ebrVars, sessions, newClientId, netVars, ev, epoch, held, ptr, scan,
                 history>>

Unpublish(t) ==
  /\ pc[t] = "dc_null"
  /\ sessions' = [sessions EXCEPT ![ev[t].client] = Null]
  /\ Goto(t, "leave")
  /\ UNCHANGED <<ebrVars, newClientId, netVars, ev, epoch, held, ptr, scan, history>>

-----------------------------------------------------------------------------

Accepting(t) ==
  \/ NewClientId(t)
  \/ PopEmpty(t)
  \/ StartScan(t)
  \/ ScanSlot(t)
  \/ \E o \in Objects : NewSession(t, o)
  \/ Reclaim(t)
  \/ InsertSession(t)
  \/ ArmAccept(t)

Handling(t) ==
  \/ Lookup(t)
  \/ \E c \in Clients : SendTo(t, c)
  \/ RequestLogin(t)
  \/ Processed(t)
  \/ DoRecv(t)
  \/ DbLoginDone(t)
  \/ DbLoginFailed(t)

Disconnecting(t) ==
  \/ DisconnectLookup(t)
  \/ CloseSocket(t)
  \/ Retire(t)
  \/ Unpublish(t)

Take(t) ==
  \/ TakeAccept(t)
  \/ \E c \in Clients :
       TakeRecv(t, c) \/ TakeFailure(t, c) \/ TakeLogin(t, c) \/ TakeDbLogin(t, c)

Network ==
  \/ AcceptCompletes
  \/ \E c \in Clients : PeerLeaves(c) \/ SendCompletes(c)

(* Every thread waits: for a completion, or for the bound to be raised.     *)
Rest ==
  /\ \A t \in Threads : pc[t] = "idle"
  /\ UNCHANGED vars

Next ==
  \/ \E t \in Threads :
       Take(t) \/ Enter(t) \/ Leave(t) \/ Accepting(t) \/ Handling(t) \/ Disconnecting(t)
  \/ Network
  \/ Rest

Spec == Init /\ [][Next]_vars

-----------------------------------------------------------------------------

AcceptLabels == {"ac_id", "ac_pop", "ac_scan", "ac_new", "ac_insert", "ac_arm"}
Labels ==
  AcceptLabels \union
  {"idle", "enter", "leave", "lookup", "use", "receive", "db",
   "dc_lookup", "dc_close", "dc_push", "dc_null"}

NetTypeOK ==
  /\ accept \in {"armed", "done", "failed", "none"}
  /\ connected \subseteq Clients
  /\ open \subseteq Clients
  /\ recv \subseteq Clients
  /\ sends \in [Clients -> Nat]
  /\ dbLogin \subseteq Clients
  /\ loggedIn \subseteq Clients

TableTypeOK ==
  /\ sessions \in [Clients -> Objects \union {Null, Absent}]
  /\ newClientId \in Nat
  /\ retired \subseteq Clients
  /\ twice \subseteq Objects

ThreadTypeOK ==
  /\ pc \in [Threads -> Labels]
  /\ ev \in [Threads -> [kind : Kinds \union {"none"}, client : Nat]]
  /\ epoch \in [Threads -> Nat]
  /\ held \in [Threads -> SUBSET Objects]
  /\ ptr \in [Threads -> Objects \union {Null}]
  /\ scan \in [Threads -> 0 .. N]

(* Every variable has its type. *)
TypeOK == EbrTypeOK /\ NetTypeOK /\ TableTypeOK /\ ThreadTypeOK

Queued(t, o) == \E i \in 1 .. Len(freeQueue[t]) : freeQueue[t][i] = o

(* disconnect retires an object (push_ptr) before it unpublishes it: an      *)
(* object waiting for reuse can be looked up only while the thread that      *)
(* retired it is between these two lines. Objects retired twice, by two      *)
(* failing operations of one client, are beyond any such promise.            *)
RetiredIsUnpublished ==
  \A t \in Threads, c \in Clients, o \in Objects \ twice :
    Queued(t, o) /\ sessions[c] = o => pc[t] = "dc_null" /\ ev[t].client = c

(* The memory of a session is reused only when no thread that entered its    *)
(* epoch before the session was retired still has a pointer to it, although  *)
(* entering takes two steps and the slots are read one at a time.            *)
ReclaimSafe ==
  [][\A t \in Threads, u \in Threads :
       LET o == Head(freeQueue[t])
       IN Reclaim(t) /\ o \notin twice /\ o \in held[u] => epochArray[u] >= stamp[o]]_vars

(* _client_socket and _accept_over belong to the one outstanding AcceptEx or *)
(* to the one worker in do_accept, never to two; and until id MaxUser has    *)
(* been handed out one of them has them, so the server goes on accepting.    *)
AcceptOwners ==
  {t \in Threads : \/ pc[t] \in AcceptLabels
                   \/ pc[t] = "enter" /\ ev[t].kind \in {"accept", "badAccept"}}
AcceptHasOneOwner ==
  /\ accept # "none" => AcceptOwners = {}
  /\ \A t, u \in AcceptOwners : t = u
  /\ newClientId <= MaxUser /\ accept = "none" => AcceptOwners # {}

(* An id names one session for good: once published, its entry can only      *)
(* become null. Ids are kept in timer events, view lists, the targets of NPCs *)
(* and requests to the database long after the session is gone, and do_accept *)
(* reuses the memory of the session; what was meant for one player never      *)
(* finds another under the same id.                                           *)
IdNeverReused ==
  [][\A c \in Clients :
       sessions[c] # Absent => sessions'[c] \in {sessions[c], Null}]_vars

=============================================================================
