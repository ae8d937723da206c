------------------------ MODULE ServerSessionsProofs ------------------------
(***************************************************************************)
(* Proofs about ServerSessions: the owner of the accept socket, and the    *)
(* safety of reusing session objects, for any number of threads, players   *)
(* and objects.                                                            *)
(***************************************************************************)
EXTENDS ServerSessions, TLAPS

DisconnectLabels == {"dc_close", "dc_push", "dc_null"}
ClientLabels == {"lookup", "use", "receive", "db", "dc_lookup"} \union DisconnectLabels
AcceptKinds == {"accept", "badAccept"}
ClientKinds == Kinds \ AcceptKinds

(* Which handler a thread is in. *)
KindInv ==
  \A t \in Threads :
    /\ pc[t] = "enter" => ev[t].kind \in Kinds
    /\ pc[t] \in AcceptLabels => ev[t].kind \in AcceptKinds
    /\ pc[t] \in ClientLabels => ev[t].kind \in ClientKinds
    /\ ev[t].kind \in ClientKinds => ev[t].client \in Clients

(* A thread has pointers only inside an epoch. *)
EpochInv ==
  \A t \in Threads :
    /\ pc[t] = "enter" => epoch[t] # 0
    /\ pc[t] \notin {"idle", "enter"} => epochArray[t] # 0
    /\ pc[t] \in {"idle", "enter"} => held[t] = {}
    /\ pc[t] \in DisconnectLabels => ptr[t] \in Objects
    /\ pc[t] = "ac_insert" => ptr[t] \in Objects
    /\ pc[t] = "ac_scan" => freeQueue[t] # <<>>

(* An id is new until the session it was drawn for is inserted. *)
IdInv ==
  /\ \A c \in Clients : c >= newClientId => sessions[c] = Absent
  /\ \A t \in Threads :
       pc[t] \in AcceptLabels \ {"ac_id", "ac_arm"} =>
         /\ ev[t].client < newClientId
         /\ ev[t].client \in Clients => sessions[ev[t].client] = Absent
  /\ \A t \in Threads :
       pc[t] \in DisconnectLabels => sessions[ev[t].client] # Absent

(* Nothing is known of an address that new has not returned yet. *)
AllocatedInv ==
  /\ \A t \in Threads, i \in Nat : i \in 1 .. Len(freeQueue[t]) => freeQueue[t][i] \in allocated
  /\ \A c \in Clients : sessions[c] \in Objects => sessions[c] \in allocated
  /\ \A t \in Threads : held[t] \subseteq allocated
  /\ \A t \in Threads : ptr[t] # Null => ptr[t] \in allocated

(* An object is in one queue, once. *)
QueuedOnce ==
  \A t, u \in Threads, i, j \in Nat :
    /\ i \in 1 .. Len(freeQueue[t])
    /\ j \in 1 .. Len(freeQueue[u])
    /\ freeQueue[t][i] = freeQueue[u][j]
    /\ freeQueue[t][i] \notin twice
    => t = u /\ i = j

(* An object is published under one id. *)
PublishedOnce ==
  \A c, d \in Clients :
    sessions[c] = sessions[d] /\ sessions[c] \in Objects \ twice => c = d

(* The object of a session that is about to be inserted is nobody else's.   *)
ConstructedInv ==
  \A t \in Threads :
    pc[t] = "ac_insert" /\ ptr[t] \notin twice =>
      /\ \A u \in Threads : ~Queued(u, ptr[t])
      /\ \A c \in Clients : sessions[c] # ptr[t]

(* Before a client is retired, whoever is about to retire it has the object *)
(* that is published for it.                                                *)
DisconnectInv ==
  \A t \in Threads :
    /\ pc[t] \in {"dc_close", "dc_push"} /\ ev[t].client \notin retired
         => sessions[ev[t].client] = ptr[t]
    /\ pc[t] = "dc_null" => ev[t].client \in retired

(* The slots a scan has passed hold no thread that can still use the object.*)
ScanInv ==
  \A t, u \in Threads :
    /\ pc[t] = "ac_scan"
    /\ u < scan[t]
    /\ Head(freeQueue[t]) \notin twice
    /\ Head(freeQueue[t]) \in held[u]
    => epochArray[u] >= stamp[Head(freeQueue[t])]

IInv ==
  /\ TypeOK
  /\ KindInv
  /\ EpochInv
  /\ IdInv
  /\ AllocatedInv
  /\ AcceptHasOneOwner
  /\ QueuedOnce
  /\ PublishedOnce
  /\ ConstructedInv
  /\ DisconnectInv
  /\ RetiredIsUnpublished
  /\ ScanInv
-----------------------------------------------------------------------------
(* Facts about single steps.                                                *)

(* Append, element by element. *)
LEMMA AppendFacts ==
  ASSUME NEW S, NEW q \in Seq(S), NEW e \in S
  PROVE  /\ Append(q, e) \in Seq(S)
         /\ Len(Append(q, e)) = Len(q) + 1
         /\ \A i \in 1 .. Len(q) : Append(q, e)[i] = q[i]
         /\ Append(q, e)[Len(q) + 1] = e
         /\ Len(q) \in Nat
OBVIOUS

(* Tail, element by element. *)
LEMMA TailFacts ==
  ASSUME NEW S, NEW q \in Seq(S), q # <<>>
  PROVE  /\ Tail(q) \in Seq(S)
         /\ Len(q) \in Nat \ {0}
         /\ Len(Tail(q)) = Len(q) - 1
         /\ \A i \in 1 .. Len(q) - 1 : Tail(q)[i] = q[i + 1]
         /\ Head(q) = q[1]
         /\ Head(q) \in S
OBVIOUS

(* The handler a thread enters is that of its completion. *)
LEMMA EntryFacts ==
  ASSUME NEW kind \in Kinds
  PROVE  \/ kind \in AcceptKinds /\ EntryOf(kind) = "ac_id"
         \/ kind \in ClientKinds /\ EntryOf(kind) \in {"lookup", "dc_lookup", "db"}
BY DEF Kinds, AcceptKinds, ClientKinds, EntryOf

(* Taking a completion, whatever it is. *)
LEMMA TakeFacts ==
  ASSUME TypeOK, NEW t \in Threads, Take(t)
  PROVE  /\ ThreadTypeOK'
         /\ pc[t] = "idle" /\ pc'[t] = "enter" /\ epoch'[t] = epochCounter
         /\ epochCounter' = epochCounter + 1
         /\ ev'[t].kind \in Kinds
         /\ ev'[t].kind \in ClientKinds => ev'[t].client \in Clients
         /\ \A u \in Threads \ {t} : pc'[u] = pc[u] /\ ev'[u] = ev[u] /\ epoch'[u] = epoch[u]
         /\ UNCHANGED <<epochArray, freeQueue, stamp, allocated, sessions, newClientId,
                        held, ptr, scan, retired, twice>>
<1>1. PICK kind \in Kinds, c \in Nat :
        Begin(t, kind, c) /\ (kind \in ClientKinds => c \in Clients)
  <2>1. CASE TakeAccept(t)
    BY <2>1 DEF TakeAccept, Kinds, AcceptKinds, ClientKinds
  <2>2. ASSUME NEW c \in Clients,
               TakeRecv(t, c) \/ TakeFailure(t, c) \/ TakeLogin(t, c) \/ TakeDbLogin(t, c)
        PROVE  \E kind \in Kinds : Begin(t, kind, c)
    BY <2>2 DEF TakeRecv, TakeFailure, TakeLogin, TakeDbLogin, Kinds
  <2>3. Clients \subseteq Nat
    BY SessionsAssumption DEF Clients
  <2> QED
    BY <2>1, <2>2, <2>3 DEF Take
<1>2. Completion(kind, c) \in [kind : Kinds \union {"none"}, client : Nat]
  BY DEF Completion
<1>3. "enter" \in Labels
  BY DEF Labels
<1>4. /\ pc' = [pc EXCEPT ![t] = "enter"] /\ ev' = [ev EXCEPT ![t] = Completion(kind, c)]
      /\ epoch' = [epoch EXCEPT ![t] = epochCounter]
      /\ epochCounter' = epochCounter + 1
      /\ pc[t] = "idle"
      /\ UNCHANGED <<epochArray, freeQueue, stamp, allocated, sessions, newClientId,
                     held, ptr, scan, retired, twice>>
  BY <1>1 DEF Begin, Goto, FetchEpoch, history
<1>5. ThreadTypeOK'
  BY <1>2, <1>3, <1>4 DEF TypeOK, EbrTypeOK, ThreadTypeOK
<1> QED
  BY <1>1, <1>4, <1>5 DEF Completion, TypeOK, ThreadTypeOK

(* Entering the epoch leads to the first step of the handler.              *)
LEMMA EnterFacts ==
  ASSUME IInv, NEW t \in Threads, Enter(t)
  PROVE  /\ pc[t] = "enter"
         /\ pc'[t] \in {"ac_id", "lookup", "dc_lookup", "db"}
         /\ pc'[t] = "ac_id" <=> ev[t].kind \in AcceptKinds
         /\ \A u \in Threads \ {t} : pc'[u] = pc[u] /\ epochArray'[u] = epochArray[u]
         /\ epochArray'[t] # 0
BY EntryFacts
   DEF Enter, Goto, StoreEpoch, IInv, KindInv, EpochInv, TypeOK, EbrTypeOK, ThreadTypeOK,
       AcceptKinds, ClientKinds

(* What happens to the queues when a session is retired. If its object has  *)
(* not been retired twice, it was published and in no queue.                *)
LEMMA RetireFacts ==
  ASSUME IInv, NEW t \in Threads, Retire(t)
  PROVE  /\ ptr[t] \in Objects
         /\ ev[t].client \in Clients
         /\ \A u \in Threads : \A o : Queued(u, o)' <=> Queued(u, o) \/ (u = t /\ o = ptr[t])
         /\ ptr[t] \notin twice' => /\ ev[t].client \notin retired
                                   /\ sessions[ev[t].client] = ptr[t]
                                   /\ \A u \in Threads : ~Queued(u, ptr[t])
<1>1. ptr[t] \in Objects /\ ev[t].client \in Clients
  BY DEF IInv, EpochInv, KindInv, Retire, DisconnectLabels, ClientLabels
<1>2. /\ freeQueue \in [Threads -> Seq(Objects)]
      /\ freeQueue' = [freeQueue EXCEPT ![t] = Append(@, ptr[t])]
  BY DEF IInv, TypeOK, EbrTypeOK, Retire, PushPtr
<1>3. ASSUME NEW u \in Threads, NEW o
      PROVE  Queued(u, o)' <=> Queued(u, o) \/ (u = t /\ o = ptr[t])
  <2>1. CASE u = t
    <3>1. freeQueue'[u] = Append(freeQueue[u], ptr[t])
      BY <1>2, <2>1
    <3> QED
      BY <1>1, <1>2, <2>1, <3>1, AppendFacts DEF Queued
  <2>2. CASE u # t
    BY <1>2, <2>2 DEF Queued
  <2> QED
    BY <2>1, <2>2
<1>4. ASSUME ptr[t] \notin twice'
      PROVE  /\ ev[t].client \notin retired
             /\ sessions[ev[t].client] = ptr[t]
             /\ \A u \in Threads : ~Queued(u, ptr[t])
  <2>1. ev[t].client \notin retired /\ ptr[t] \notin twice
    BY <1>4 DEF Retire
  <2>2. sessions[ev[t].client] = ptr[t]
    BY <2>1 DEF IInv, DisconnectInv, Retire
  <2>3. ASSUME NEW u \in Threads, Queued(u, ptr[t]) PROVE FALSE
    BY <1>1, <2>1, <2>2, <2>3 DEF IInv, RetiredIsUnpublished, DisconnectInv
  <2> QED
    BY <2>1, <2>2, <2>3
<1> QED
  BY <1>1, <1>3, <1>4

(* What happens to the queues when an object is reused.                     *)
LEMMA ReclaimFacts ==
  ASSUME IInv, NEW t \in Threads, Reclaim(t)
  PROVE  /\ ptr'[t] = Head(freeQueue[t])
         /\ Head(freeQueue[t]) \in Objects
         /\ Queued(t, Head(freeQueue[t]))
         /\ \A u \in Threads : \A o : Queued(u, o)' => Queued(u, o)
         /\ \A u \in Threads : \A o : o = Head(freeQueue[t]) /\ Queued(u, o)' => o \in twice
<1>1. /\ freeQueue \in [Threads -> Seq(Objects)]
      /\ freeQueue[t] # <<>>
      /\ freeQueue' = [freeQueue EXCEPT ![t] = Tail(@)]
      /\ ptr'[t] = Head(freeQueue[t])
  BY DEF IInv, TypeOK, EbrTypeOK, ThreadTypeOK, EpochInv, Reclaim, ReuseHead
<1>2. Head(freeQueue[t]) \in Objects /\ Queued(t, Head(freeQueue[t]))
  BY <1>1, TailFacts DEF Queued
<1>3. ASSUME NEW u \in Threads, NEW o, Queued(u, o)'
      PROVE  Queued(u, o) /\ (o = Head(freeQueue[t]) => o \in twice)
  <2>1. PICK i \in 1 .. Len(freeQueue'[u]) : freeQueue'[u][i] = o
    BY <1>3 DEF Queued
  <2>2. CASE u = t
    <3>1. /\ freeQueue[t] \in Seq(Objects)
          /\ freeQueue'[t] = Tail(freeQueue[t])
      BY <1>1
    <3>2. i \in 1 .. Len(freeQueue[t]) - 1
      BY <1>1, <2>1, <2>2, <3>1, TailFacts
    <3>3. /\ i \in Nat /\ i + 1 \in Nat
          /\ i + 1 \in 1 .. Len(freeQueue[t]) /\ 1 \in 1 .. Len(freeQueue[t])
          /\ freeQueue[t][i + 1] = o
          /\ Head(freeQueue[t]) = freeQueue[t][1]
      BY <1>1, <2>1, <2>2, <3>1, <3>2, TailFacts
    <3>4. i + 1 # 1
      BY <3>2
    <3> QED
      BY <2>2, <3>3, <3>4 DEF Queued, IInv, QueuedOnce
  <2>3. CASE u # t
    <3>1. i \in Nat /\ i \in 1 .. Len(freeQueue[u]) /\ freeQueue[u][i] = o
      BY <1>1, <2>1, <2>3
    <3>2. 1 \in 1 .. Len(freeQueue[t]) /\ Head(freeQueue[t]) = freeQueue[t][1]
      BY <1>1, TailFacts
    <3> QED
      BY <2>3, <3>1, <3>2 DEF Queued, IInv, QueuedOnce
  <2> QED
    BY <2>2, <2>3
<1> QED
  BY <1>1, <1>2, <1>3

(* The queues change when a session is retired and when one is reused.      *)
LEMMA QueueFrame ==
  ASSUME [Next]_vars
  PROVE  \/ UNCHANGED <<freeQueue, twice>>
         \/ \E t \in Threads : Retire(t) \/ Reclaim(t)
<1>1. ASSUME NEW t \in Threads, Take(t) \/ Enter(t) \/ Leave(t)
      PROVE  UNCHANGED <<freeQueue, twice>>
  BY <1>1 DEF Take, TakeAccept, TakeRecv, TakeFailure, TakeLogin, TakeDbLogin, Begin, Enter,
              Leave, history
<1>2. ASSUME NEW t \in Threads, Accepting(t), ~Reclaim(t)
      PROVE  UNCHANGED <<freeQueue, twice>>
  BY <1>2 DEF Accepting, NewClientId, PopEmpty, StartScan, ScanSlot, NewSession, AllocateNew,
              InsertSession, ArmAccept, ebrVars, history
<1>3. ASSUME NEW t \in Threads, Handling(t)
      PROVE  UNCHANGED <<freeQueue, twice>>
  BY <1>3 DEF Handling, Lookup, SendTo, RequestLogin, Processed, DoRecv, DbLoginDone,
              DbLoginFailed, ebrVars, history
<1>4. ASSUME NEW t \in Threads, Disconnecting(t), ~Retire(t)
      PROVE  UNCHANGED <<freeQueue, twice>>
  BY <1>4 DEF Disconnecting, DisconnectLookup, CloseSocket, Unpublish, ebrVars, history
<1>5. Network \/ UNCHANGED vars => UNCHANGED <<freeQueue, twice>>
  BY DEF Network, AcceptCompletes, PeerLeaves, SendCompletes, vars, ebrVars, history
<1> QED
  BY <1>1, <1>2, <1>3, <1>4, <1>5 DEF Next, Rest

(* _sessions changes when a session is inserted and when one is unpublished.*)
LEMMA TableFrame ==
  ASSUME [Next]_vars
  PROVE  /\ twice \subseteq twice'
         /\ \/ UNCHANGED sessions
            \/ \E t \in Threads : InsertSession(t) \/ Unpublish(t)
<1>1. twice \subseteq twice'
  BY QueueFrame DEF Retire, Reclaim, history
<1>2. ASSUME NEW t \in Threads, Take(t) \/ Enter(t) \/ Leave(t) PROVE UNCHANGED sessions
  BY <1>2 DEF Take, TakeAccept, TakeRecv, TakeFailure, TakeLogin, TakeDbLogin, Begin, Enter,
              Leave
<1>3. ASSUME NEW t \in Threads, Accepting(t), ~InsertSession(t) PROVE UNCHANGED sessions
  BY <1>3 DEF Accepting, NewClientId, PopEmpty, StartScan, ScanSlot, NewSession, Reclaim,
              ArmAccept
<1>4. ASSUME NEW t \in Threads, Handling(t) PROVE UNCHANGED sessions
  BY <1>4 DEF Handling, Lookup, SendTo, RequestLogin, Processed, DoRecv, DbLoginDone,
              DbLoginFailed
<1>5. ASSUME NEW t \in Threads, Disconnecting(t), ~Unpublish(t) PROVE UNCHANGED sessions
  BY <1>5 DEF Disconnecting, DisconnectLookup, CloseSocket, Retire
<1>6. Network \/ UNCHANGED vars => UNCHANGED sessions
  BY DEF Network, AcceptCompletes, PeerLeaves, SendCompletes, vars
<1> QED
  BY <1>1, <1>2, <1>3, <1>4, <1>5, <1>6 DEF Next, Rest

(* A thread's step leaves what belongs to another thread alone.             *)
LEMMA OthersUnchanged ==
  ASSUME TypeOK, NEW t \in Threads, NEW u \in Threads, u # t,
         Take(t) \/ Enter(t) \/ Leave(t) \/ Accepting(t) \/ Handling(t) \/ Disconnecting(t)
  PROVE  UNCHANGED <<pc[u], ev[u], epochArray[u], held[u], ptr[u], scan[u], freeQueue[u]>>
<1> USE DEF Goto, TypeOK, EbrTypeOK, ThreadTypeOK
<1>1. CASE Take(t)
  BY <1>1, TakeFacts
<1>2. CASE Enter(t) \/ Leave(t)
  BY <1>2 DEF Enter, StoreEpoch, Leave, EndEpoch
<1>3. ASSUME NewClientId(t) \/ PopEmpty(t) \/ StartScan(t) \/ ScanSlot(t) \/ InsertSession(t)
             \/ ArmAccept(t)
      PROVE  UNCHANGED <<pc[u], ev[u], epochArray[u], held[u], ptr[u], scan[u], freeQueue[u]>>
  BY <1>3 DEF NewClientId, PopEmpty, StartScan, ScanSlot, InsertSession, ArmAccept, ebrVars
<1>4. ASSUME NEW o \in Objects, NewSession(t, o)
      PROVE  UNCHANGED <<pc[u], ev[u], epochArray[u], held[u], ptr[u], scan[u], freeQueue[u]>>
  BY <1>4 DEF NewSession, AllocateNew
<1>5. CASE Reclaim(t)
  BY <1>5 DEF Reclaim, ReuseHead
<1>6. CASE Handling(t)
  BY <1>6 DEF Handling, Lookup, SendTo, RequestLogin, Processed, DoRecv, DbLoginDone,
              DbLoginFailed, ebrVars
<1>7. CASE Disconnecting(t)
  BY <1>7 DEF Disconnecting, DisconnectLookup, CloseSocket, Retire, PushPtr, Unpublish, ebrVars
<1> QED
  BY <1>1, <1>2, <1>3, <1>4, <1>5, <1>6, <1>7 DEF Accepting

(* A step is a step of one thread, of the network, or a stutter.            *)
LEMMA Stepper ==
  ASSUME TypeOK, [Next]_vars, NEW u \in Threads
  PROVE  \/ Take(u) \/ Enter(u) \/ Leave(u) \/ Accepting(u) \/ Handling(u) \/ Disconnecting(u)
         \/ UNCHANGED <<pc[u], ev[u], epochArray[u], held[u], ptr[u], scan[u], freeQueue[u]>>
<1>1. CASE Network \/ UNCHANGED vars
  BY <1>1 DEF Network, AcceptCompletes, PeerLeaves, SendCompletes, vars, ebrVars, localVars
<1> QED
  BY <1>1, OthersUnchanged DEF Next, Rest

(* How a thread comes to hold a session it has constructed.                 *)
LEMMA InsertFrame ==
  ASSUME IInv, [Next]_vars, NEW t \in Threads, pc'[t] = "ac_insert"
  PROVE  \/ \E o \in Objects : NewSession(t, o)
         \/ Reclaim(t)
         \/ pc[t] = "ac_insert" /\ ptr'[t] = ptr[t]
<1> USE DEF IInv, TypeOK, ThreadTypeOK, Goto
<1>1. CASE Take(t) \/ Enter(t) \/ Leave(t)
  BY <1>1, TakeFacts, EnterFacts DEF Leave
<1>2. ASSUME NewClientId(t) \/ PopEmpty(t) \/ StartScan(t) \/ ScanSlot(t) \/ InsertSession(t)
             \/ ArmAccept(t)
      PROVE  FALSE
  BY <1>2 DEF NewClientId, PopEmpty, StartScan, ScanSlot, InsertSession, ArmAccept
<1>3. CASE Handling(t)
  BY <1>3 DEF Handling, Lookup, SendTo, RequestLogin, Processed, DoRecv, DbLoginDone,
              DbLoginFailed
<1>4. CASE Disconnecting(t)
  BY <1>4 DEF Disconnecting, DisconnectLookup, CloseSocket, Retire, Unpublish
<1> QED
  BY <1>1, <1>2, <1>3, <1>4, Stepper DEF Accepting

(* How a thread comes to be scanning.                                       *)
LEMMA ScanFrame ==
  ASSUME IInv, [Next]_vars, NEW t \in Threads, pc'[t] = "ac_scan"
  PROVE  \/ StartScan(t)
         \/ ScanSlot(t)
         \/ pc[t] = "ac_scan" /\ scan'[t] = scan[t] /\ freeQueue'[t] = freeQueue[t]
<1> USE DEF IInv, TypeOK, ThreadTypeOK, Goto
<1>1. CASE Take(t) \/ Enter(t) \/ Leave(t)
  BY <1>1, TakeFacts, EnterFacts DEF Leave
<1>2. ASSUME NewClientId(t) \/ PopEmpty(t) \/ (\E o \in Objects : NewSession(t, o))
             \/ Reclaim(t) \/ InsertSession(t) \/ ArmAccept(t)
      PROVE  FALSE
  BY <1>2 DEF NewClientId, PopEmpty, NewSession, Reclaim, InsertSession, ArmAccept
<1>3. CASE Handling(t)
  BY <1>3 DEF Handling, Lookup, SendTo, RequestLogin, Processed, DoRecv, DbLoginDone,
              DbLoginFailed
<1>4. CASE Disconnecting(t)
  BY <1>4 DEF Disconnecting, DisconnectLookup, CloseSocket, Retire, Unpublish
<1> QED
  BY <1>1, <1>2, <1>3, <1>4, Stepper DEF Accepting

(* Between Retire and Unpublish a thread does nothing else.                 *)
LEMMA NullFrame ==
  ASSUME IInv, [Next]_vars, NEW t \in Threads, pc[t] = "dc_null"
  PROVE  Unpublish(t) \/ (pc'[t] = pc[t] /\ ev'[t] = ev[t])
<1>1. CASE Take(t) \/ Enter(t) \/ Leave(t)
  BY <1>1, TakeFacts, EnterFacts DEF Leave, IInv
<1>2. CASE Accepting(t)
  BY <1>2 DEF Accepting, NewClientId, PopEmpty, StartScan, ScanSlot, NewSession, Reclaim,
              InsertSession, ArmAccept
<1>3. CASE Handling(t)
  BY <1>3 DEF Handling, Lookup, SendTo, RequestLogin, Processed, DoRecv, DbLoginDone,
              DbLoginFailed
<1>4. CASE Disconnecting(t)
  BY <1>4 DEF Disconnecting, DisconnectLookup, CloseSocket, Retire, Unpublish
<1> QED
  BY <1>1, <1>2, <1>3, <1>4, Stepper DEF IInv

(* How a thread comes to have a pointer to a session.                       *)
LEMMA HeldFrame ==
  ASSUME IInv, [Next]_vars, NEW u \in Threads, NEW o, o \in held'[u]
  PROVE  /\ epochArray'[u] = epochArray[u]
         /\ o \in held[u] \/ \E c \in Clients : sessions[c] = o
<1> USE DEF IInv, TypeOK, ThreadTypeOK
<1>1. CASE Take(u)
  BY <1>1, TakeFacts
<1>2. CASE Enter(u) \/ Leave(u)
  BY <1>2 DEF Enter, Leave, EpochInv
<1>3. CASE Accepting(u)
  BY <1>3 DEF Accepting, NewClientId, PopEmpty, StartScan, ScanSlot, NewSession, Reclaim,
              InsertSession, ArmAccept, ebrVars
<1>4. CASE Lookup(u)
  BY <1>4 DEF Lookup, KindInv, ClientLabels, ebrVars
<1>5. ASSUME NEW c \in Clients, SendTo(u, c)
      PROVE  epochArray'[u] = epochArray[u] /\ (o \in held[u] \/ sessions[c] = o)
  BY <1>5 DEF SendTo, ebrVars
<1>6. CASE RequestLogin(u) \/ Processed(u) \/ DoRecv(u) \/ DbLoginDone(u) \/ DbLoginFailed(u)
  BY <1>6 DEF RequestLogin, Processed, DoRecv, DbLoginDone, DbLoginFailed, ebrVars
<1>7. CASE DisconnectLookup(u)
  BY <1>7 DEF DisconnectLookup, KindInv, ClientLabels, ebrVars
<1>8. CASE CloseSocket(u) \/ Retire(u) \/ Unpublish(u)
  BY <1>8 DEF CloseSocket, Retire, Unpublish, ebrVars
<1> QED
  BY <1>1, <1>2, <1>3, <1>4, <1>5, <1>6, <1>7, <1>8, Stepper DEF Handling, Disconnecting

(* A stamp changes when its object is allocated, retired or reused.         *)
LEMMA StampFrame ==
  ASSUME TypeOK, [Next]_vars, NEW o \in Objects
  PROVE  \/ stamp'[o] = stamp[o]
         \/ \E t \in Threads : \/ NewSession(t, o)
                               \/ Reclaim(t) /\ Head(freeQueue[t]) = o
                               \/ Retire(t) /\ ptr[t] = o
<1> USE DEF TypeOK, EbrTypeOK
<1>1. ASSUME NEW t \in Threads, Take(t) \/ Enter(t) \/ Leave(t) PROVE UNCHANGED stamp
  BY <1>1, TakeFacts DEF Enter, Leave
<1>2. ASSUME NEW t \in Threads, NEW e \in Objects, NewSession(t, e)
      PROVE  stamp'[o] = stamp[o] \/ e = o
  BY <1>2 DEF NewSession, AllocateNew
<1>3. ASSUME NEW t \in Threads, Reclaim(t)
      PROVE  stamp'[o] = stamp[o] \/ Head(freeQueue[t]) = o
  BY <1>3 DEF Reclaim, ReuseHead
<1>4. ASSUME NEW t \in Threads, Retire(t) PROVE stamp'[o] = stamp[o] \/ ptr[t] = o
  BY <1>4 DEF Retire, PushPtr
<1>5. ASSUME NEW t \in Threads, Accepting(t), ~Reclaim(t), \A e \in Objects : ~NewSession(t, e)
      PROVE  UNCHANGED stamp
  BY <1>5 DEF Accepting, NewClientId, PopEmpty, StartScan, ScanSlot, InsertSession, ArmAccept,
              ebrVars
<1>6. ASSUME NEW t \in Threads, Handling(t) PROVE UNCHANGED stamp
  BY <1>6 DEF Handling, Lookup, SendTo, RequestLogin, Processed, DoRecv, DbLoginDone,
              DbLoginFailed, ebrVars
<1>7. ASSUME NEW t \in Threads, Disconnecting(t), ~Retire(t) PROVE UNCHANGED stamp
  BY <1>7 DEF Disconnecting, DisconnectLookup, CloseSocket, Unpublish, ebrVars
<1>8. Network \/ UNCHANGED vars => UNCHANGED stamp
  BY DEF Network, AcceptCompletes, PeerLeaves, SendCompletes, vars, ebrVars
<1> QED
  BY <1>1, <1>2, <1>3, <1>4, <1>5, <1>6, <1>7, <1>8 DEF Next, Rest

(* TypeOK: epochs and queues. *)
LEMMA EbrTypeStep ==
  ASSUME IInv, [Next]_vars
  PROVE  EbrTypeOK'
<1> USE ThreadsAssumption, SessionsAssumption
<1>1. ASSUME NEW t \in Threads, Take(t) PROVE EbrTypeOK'
  <2>1. epochCounter + 1 \in Nat \ {0}
    BY DEF IInv, TypeOK, EbrTypeOK
  <2> QED
    BY <1>1, <2>1, TakeFacts DEF IInv, TypeOK, EbrTypeOK
<1> USE DEF Goto, ebrVars, netVars, localVars, history, IInv, TypeOK,
       EbrTypeOK, EpochInv, DisconnectLabels, ThreadTypeOK
<1>2. ASSUME NEW t \in Threads, Enter(t) PROVE EbrTypeOK'
  BY <1>2 DEF Enter, StoreEpoch, EntryOf
<1>3. ASSUME NEW t \in Threads, Leave(t) PROVE EbrTypeOK'
  BY <1>3 DEF Leave, EndEpoch, NoCompletion, Completion
<1>4. ASSUME NEW t \in Threads,
            \/ NewClientId(t)
            \/ PopEmpty(t)
            \/ StartScan(t)
     PROVE  EbrTypeOK'
  BY <1>4 DEF NewClientId, PopEmpty, StartScan
<1>5. ASSUME NEW t \in Threads, ScanSlot(t) PROVE EbrTypeOK'
  BY <1>5 DEF ScanSlot, MayUseHead
<1>6. ASSUME NEW t \in Threads,
            \/ \E o \in Objects : NewSession(t, o)
            \/ ArmAccept(t)
     PROVE  EbrTypeOK'
  BY <1>6 DEF NewSession, AllocateNew, ArmAccept
<1>7. ASSUME NEW t \in Threads, Reclaim(t) PROVE EbrTypeOK'
  BY <1>7 DEF Reclaim, ReuseHead
<1>8. ASSUME NEW t \in Threads, InsertSession(t) PROVE EbrTypeOK'
  BY <1>8 DEF InsertSession
<1>9. ASSUME NEW t \in Threads,
            \/ Lookup(t)
            \/ \E c \in Clients : SendTo(t, c)
     PROVE  EbrTypeOK'
  BY <1>9 DEF Lookup, SendTo
<1>10. ASSUME NEW t \in Threads,
            \/ RequestLogin(t)
            \/ Processed(t)
            \/ DoRecv(t)
     PROVE  EbrTypeOK'
  BY <1>10 DEF RequestLogin, Processed, DoRecv
<1>11. ASSUME NEW t \in Threads,
            \/ DbLoginDone(t)
            \/ DbLoginFailed(t)
     PROVE  EbrTypeOK'
  BY <1>11 DEF DbLoginDone, DbLoginFailed
<1>12. ASSUME NEW t \in Threads, DisconnectLookup(t) PROVE EbrTypeOK'
  BY <1>12 DEF DisconnectLookup
<1>13. ASSUME NEW t \in Threads, CloseSocket(t) PROVE EbrTypeOK'
  BY <1>13 DEF CloseSocket
<1>14. ASSUME NEW t \in Threads, Retire(t) PROVE EbrTypeOK'
  BY <1>14 DEF Retire, PushPtr
<1>15. ASSUME NEW t \in Threads, Unpublish(t) PROVE EbrTypeOK'
  BY <1>15 DEF Unpublish
<1>16. CASE Network
  BY <1>16 DEF Network, AcceptCompletes, PeerLeaves, SendCompletes
<1>17. CASE UNCHANGED vars
  BY <1>17 DEF vars
<1> QED
  BY <1>1, <1>2, <1>3, <1>4, <1>5, <1>6, <1>7, <1>8, <1>9, <1>10, <1>11,
     <1>12, <1>13, <1>14, <1>15, <1>16, <1>17
     DEF Next, Accepting, Handling, Disconnecting, Rest

(* TypeOK: the network. *)
LEMMA NetTypeStep ==
  ASSUME IInv, [Next]_vars
  PROVE  NetTypeOK'
<1> USE ThreadsAssumption, SessionsAssumption
<1>1. ASSUME NEW t \in Threads, Take(t) PROVE NetTypeOK'
  <2>1. CASE TakeAccept(t)
    BY <2>1 DEF TakeAccept, Begin, IInv, TypeOK, NetTypeOK
  <2>2. ASSUME NEW c \in Clients,
               TakeRecv(t, c) \/ TakeLogin(t, c) \/ TakeDbLogin(t, c)
        PROVE  NetTypeOK'
    BY <2>2 DEF TakeRecv, TakeLogin, TakeDbLogin, Begin, IInv, TypeOK, NetTypeOK
  <2>3. ASSUME NEW c \in Clients, TakeFailure(t, c) PROVE NetTypeOK'
    <3>1. recv' \subseteq Clients /\ sends' \in [Clients -> Nat]
      BY <2>3 DEF TakeFailure, IInv, TypeOK, NetTypeOK
    <3> QED
      BY <2>3, <3>1 DEF TakeFailure, Begin, IInv, TypeOK, NetTypeOK
  <2> QED
    BY <1>1, <2>1, <2>2, <2>3 DEF Take
<1>2. ASSUME NEW t \in Threads, NEW c \in Clients, SendTo(t, c) PROVE NetTypeOK'
  <2>1. sends' \in [Clients -> Nat]
    BY <1>2 DEF SendTo, IInv, TypeOK, NetTypeOK
  <2> QED
    BY <1>2, <2>1 DEF SendTo, IInv, TypeOK, NetTypeOK
<1> USE DEF Goto, ebrVars, netVars, localVars, history, IInv, TypeOK,
       NetTypeOK, KindInv, ThreadTypeOK, AcceptLabels, ClientLabels,
       DisconnectLabels
<1>3. ASSUME NEW t \in Threads, Enter(t) PROVE NetTypeOK'
  BY <1>3 DEF Enter, StoreEpoch, EntryOf
<1>4. ASSUME NEW t \in Threads, Leave(t) PROVE NetTypeOK'
  BY <1>4 DEF Leave, EndEpoch, NoCompletion, Completion
<1>5. ASSUME NEW t \in Threads,
            \/ NewClientId(t)
            \/ PopEmpty(t)
            \/ StartScan(t)
     PROVE  NetTypeOK'
  BY <1>5 DEF NewClientId, PopEmpty, StartScan
<1>6. ASSUME NEW t \in Threads, ScanSlot(t) PROVE NetTypeOK'
  BY <1>6 DEF ScanSlot, MayUseHead
<1>7. ASSUME NEW t \in Threads,
            \/ \E o \in Objects : NewSession(t, o)
            \/ ArmAccept(t)
     PROVE  NetTypeOK'
  BY <1>7 DEF NewSession, AllocateNew, ArmAccept
<1>8. ASSUME NEW t \in Threads, Reclaim(t) PROVE NetTypeOK'
  BY <1>8 DEF Reclaim, ReuseHead
<1>9. ASSUME NEW t \in Threads, InsertSession(t) PROVE NetTypeOK'
  BY <1>9 DEF InsertSession
<1>10. ASSUME NEW t \in Threads, Lookup(t) PROVE NetTypeOK'
  BY <1>10 DEF Lookup
<1>11. ASSUME NEW t \in Threads,
            \/ RequestLogin(t)
            \/ Processed(t)
            \/ DoRecv(t)
     PROVE  NetTypeOK'
  BY <1>11 DEF RequestLogin, Processed, DoRecv
<1>12. ASSUME NEW t \in Threads,
            \/ DbLoginDone(t)
            \/ DbLoginFailed(t)
     PROVE  NetTypeOK'
  BY <1>12 DEF DbLoginDone, DbLoginFailed
<1>13. ASSUME NEW t \in Threads, DisconnectLookup(t) PROVE NetTypeOK'
  BY <1>13 DEF DisconnectLookup
<1>14. ASSUME NEW t \in Threads, CloseSocket(t) PROVE NetTypeOK'
  BY <1>14 DEF CloseSocket
<1>15. ASSUME NEW t \in Threads, Retire(t) PROVE NetTypeOK'
  BY <1>15 DEF Retire, PushPtr
<1>16. ASSUME NEW t \in Threads, Unpublish(t) PROVE NetTypeOK'
  BY <1>16 DEF Unpublish
<1>17. CASE Network
  BY <1>17 DEF Network, AcceptCompletes, PeerLeaves, SendCompletes
<1>18. CASE UNCHANGED vars
  BY <1>18 DEF vars
<1> QED
  BY <1>1, <1>2, <1>3, <1>4, <1>5, <1>6, <1>7, <1>8, <1>9, <1>10, <1>11,
     <1>12, <1>13, <1>14, <1>15, <1>16, <1>17, <1>18
     DEF Next, Accepting, Handling, Disconnecting, Rest

(* TypeOK: the table of sessions. *)
LEMMA TableTypeStep ==
  ASSUME IInv, [Next]_vars
  PROVE  TableTypeOK'
<1> USE ThreadsAssumption, SessionsAssumption
<1> USE DEF Goto, ebrVars, netVars, localVars, history, IInv, TypeOK,
       TableTypeOK, KindInv, EpochInv, ThreadTypeOK, AcceptLabels,
       ClientLabels, DisconnectLabels
<1>1. ASSUME NEW t \in Threads, Take(t) PROVE TableTypeOK'
  BY <1>1, TakeFacts
<1>2. ASSUME NEW t \in Threads, Enter(t) PROVE TableTypeOK'
  BY <1>2 DEF Enter, StoreEpoch, EntryOf
<1>3. ASSUME NEW t \in Threads, Leave(t) PROVE TableTypeOK'
  BY <1>3 DEF Leave, EndEpoch, NoCompletion, Completion
<1>4. ASSUME NEW t \in Threads,
            \/ NewClientId(t)
            \/ PopEmpty(t)
            \/ StartScan(t)
     PROVE  TableTypeOK'
  BY <1>4 DEF NewClientId, PopEmpty, StartScan
<1>5. ASSUME NEW t \in Threads, ScanSlot(t) PROVE TableTypeOK'
  BY <1>5 DEF ScanSlot, MayUseHead
<1>6. ASSUME NEW t \in Threads,
            \/ \E o \in Objects : NewSession(t, o)
            \/ ArmAccept(t)
     PROVE  TableTypeOK'
  BY <1>6 DEF NewSession, AllocateNew, ArmAccept
<1>7. ASSUME NEW t \in Threads, Reclaim(t) PROVE TableTypeOK'
  BY <1>7 DEF Reclaim, ReuseHead
<1>8. ASSUME NEW t \in Threads, InsertSession(t) PROVE TableTypeOK'
  BY <1>8 DEF InsertSession
<1>9. ASSUME NEW t \in Threads,
            \/ Lookup(t)
            \/ \E c \in Clients : SendTo(t, c)
     PROVE  TableTypeOK'
  BY <1>9 DEF Lookup, SendTo
<1>10. ASSUME NEW t \in Threads,
            \/ RequestLogin(t)
            \/ Processed(t)
            \/ DoRecv(t)
     PROVE  TableTypeOK'
  BY <1>10 DEF RequestLogin, Processed, DoRecv
<1>11. ASSUME NEW t \in Threads,
            \/ DbLoginDone(t)
            \/ DbLoginFailed(t)
     PROVE  TableTypeOK'
  BY <1>11 DEF DbLoginDone, DbLoginFailed
<1>12. ASSUME NEW t \in Threads, DisconnectLookup(t) PROVE TableTypeOK'
  BY <1>12 DEF DisconnectLookup
<1>13. ASSUME NEW t \in Threads, CloseSocket(t) PROVE TableTypeOK'
  BY <1>13 DEF CloseSocket
<1>14. ASSUME NEW t \in Threads, Retire(t) PROVE TableTypeOK'
  BY <1>14 DEF Retire, PushPtr
<1>15. ASSUME NEW t \in Threads, Unpublish(t) PROVE TableTypeOK'
  BY <1>15 DEF Unpublish
<1>16. CASE Network
  BY <1>16 DEF Network, AcceptCompletes, PeerLeaves, SendCompletes
<1>17. CASE UNCHANGED vars
  BY <1>17 DEF vars
<1> QED
  BY <1>1, <1>2, <1>3, <1>4, <1>5, <1>6, <1>7, <1>8, <1>9, <1>10, <1>11,
     <1>12, <1>13, <1>14, <1>15, <1>16, <1>17
     DEF Next, Accepting, Handling, Disconnecting, Rest

(* TypeOK: the threads. *)
LEMMA ThreadTypeStep ==
  ASSUME IInv, [Next]_vars
  PROVE  ThreadTypeOK'
<1> USE ThreadsAssumption, SessionsAssumption
<1>1. ASSUME NEW t \in Threads, Enter(t) PROVE ThreadTypeOK'
  <2>1. EntryOf(ev[t].kind) \in Labels
    BY <1>1, EntryFacts DEF Enter, IInv, KindInv, Labels, AcceptLabels
  <2> QED
    BY <1>1, <2>1 DEF Enter, Goto, IInv, TypeOK, ThreadTypeOK
<1>2. ASSUME NEW t \in Threads, PopEmpty(t) PROVE ThreadTypeOK'
  BY <1>2 DEF PopEmpty, Goto, IInv, TypeOK, ThreadTypeOK, Labels, AcceptLabels
<1>3. ASSUME NEW t \in Threads, StartScan(t) PROVE ThreadTypeOK'
  BY <1>3 DEF StartScan, Goto, IInv, TypeOK, ThreadTypeOK, Labels, AcceptLabels
<1>4. ASSUME NEW t \in Threads, NEW o \in Objects, NewSession(t, o) PROVE ThreadTypeOK'
  BY <1>4 DEF NewSession, Goto, IInv, TypeOK, ThreadTypeOK, Labels, AcceptLabels
<1>5. ASSUME NEW t \in Threads, Reclaim(t) PROVE ThreadTypeOK'
  <2>1. Head(freeQueue[t]) \in Objects /\ "ac_insert" \in Labels
    BY <1>5, ReclaimFacts DEF Labels, AcceptLabels
  <2> QED
    BY <1>5, <2>1 DEF Reclaim, Goto, IInv, TypeOK, ThreadTypeOK
<1>6. ASSUME NEW t \in Threads, Lookup(t) PROVE ThreadTypeOK'
  <2>1. held' \in [Threads -> SUBSET Objects]
    BY <1>6 DEF Lookup, IInv, TypeOK, ThreadTypeOK
  <2>2. pc' \in [Threads -> Labels]
    BY <1>6 DEF Lookup, Goto, IInv, TypeOK, ThreadTypeOK, Labels
  <2> QED
    BY <1>6, <2>1, <2>2 DEF Lookup, IInv, TypeOK, ThreadTypeOK
<1> USE DEF Goto, ebrVars, netVars, localVars, history, IInv, TypeOK,
       TableTypeOK, ThreadTypeOK, Labels, AcceptLabels
<1>7. ASSUME NEW t \in Threads, Take(t) PROVE ThreadTypeOK'
  BY <1>7, TakeFacts
<1>8. ASSUME NEW t \in Threads, Leave(t) PROVE ThreadTypeOK'
  BY <1>8 DEF Leave, EndEpoch, NoCompletion, Completion
<1>9. ASSUME NEW t \in Threads, NewClientId(t) PROVE ThreadTypeOK'
  BY <1>9 DEF NewClientId
<1>10. ASSUME NEW t \in Threads, ScanSlot(t) PROVE ThreadTypeOK'
  BY <1>10 DEF ScanSlot, MayUseHead
<1>11. ASSUME NEW t \in Threads, ArmAccept(t) PROVE ThreadTypeOK'
  BY <1>11 DEF ArmAccept
<1>12. ASSUME NEW t \in Threads, InsertSession(t) PROVE ThreadTypeOK'
  BY <1>12 DEF InsertSession
<1>13. ASSUME NEW t \in Threads, NEW c \in Clients, SendTo(t, c) PROVE ThreadTypeOK'
  BY <1>13 DEF SendTo
<1>14. ASSUME NEW t \in Threads,
            \/ RequestLogin(t)
            \/ Processed(t)
            \/ DoRecv(t)
     PROVE  ThreadTypeOK'
  BY <1>14 DEF RequestLogin, Processed, DoRecv
<1>15. ASSUME NEW t \in Threads,
            \/ DbLoginDone(t)
            \/ DbLoginFailed(t)
     PROVE  ThreadTypeOK'
  BY <1>15 DEF DbLoginDone, DbLoginFailed
<1>16. ASSUME NEW t \in Threads, DisconnectLookup(t) PROVE ThreadTypeOK'
  BY <1>16 DEF DisconnectLookup
<1>17. ASSUME NEW t \in Threads, CloseSocket(t) PROVE ThreadTypeOK'
  BY <1>17 DEF CloseSocket
<1>18. ASSUME NEW t \in Threads, Retire(t) PROVE ThreadTypeOK'
  BY <1>18 DEF Retire, PushPtr
<1>19. ASSUME NEW t \in Threads, Unpublish(t) PROVE ThreadTypeOK'
  BY <1>19 DEF Unpublish
<1>20. CASE Network
  BY <1>20 DEF Network, AcceptCompletes, PeerLeaves, SendCompletes
<1>21. CASE UNCHANGED vars
  BY <1>21 DEF vars
<1> QED
  BY <1>1, <1>2, <1>3, <1>4, <1>5, <1>6, <1>7, <1>8, <1>9, <1>10, <1>11,
     <1>12, <1>13, <1>14, <1>15, <1>16, <1>17, <1>18, <1>19, <1>20, <1>21
     DEF Next, Accepting, Handling, Disconnecting, Rest

(* A thread runs the handler of its completion. *)
LEMMA KindStep ==
  ASSUME IInv, [Next]_vars
  PROVE  KindInv'
<1> USE ThreadsAssumption, SessionsAssumption
<1>1. ASSUME NEW t \in Threads, Enter(t) PROVE KindInv'
  BY <1>1, EntryFacts
     DEF Enter, Goto, IInv, TypeOK, ThreadTypeOK, KindInv, AcceptLabels, ClientLabels,
         DisconnectLabels, Kinds, AcceptKinds, ClientKinds
<1> USE DEF Goto, ebrVars, netVars, localVars, history, IInv, TypeOK,
       ThreadTypeOK, KindInv, AcceptLabels, ClientLabels, DisconnectLabels,
       Kinds, AcceptKinds, ClientKinds
<1>2. ASSUME NEW t \in Threads, Take(t) PROVE KindInv'
  BY <1>2, TakeFacts
<1>3. ASSUME NEW t \in Threads, Leave(t) PROVE KindInv'
  BY <1>3 DEF Leave, EndEpoch, NoCompletion, Completion
<1>4. ASSUME NEW t \in Threads,
            \/ NewClientId(t)
            \/ PopEmpty(t)
            \/ StartScan(t)
     PROVE  KindInv'
  BY <1>4 DEF NewClientId, PopEmpty, StartScan
<1>5. ASSUME NEW t \in Threads, ScanSlot(t) PROVE KindInv'
  BY <1>5 DEF ScanSlot, MayUseHead
<1>6. ASSUME NEW t \in Threads,
            \/ \E o \in Objects : NewSession(t, o)
            \/ ArmAccept(t)
     PROVE  KindInv'
  BY <1>6 DEF NewSession, AllocateNew, ArmAccept
<1>7. ASSUME NEW t \in Threads, Reclaim(t) PROVE KindInv'
  BY <1>7 DEF Reclaim, ReuseHead
<1>8. ASSUME NEW t \in Threads, InsertSession(t) PROVE KindInv'
  BY <1>8 DEF InsertSession
<1>9. ASSUME NEW t \in Threads,
            \/ Lookup(t)
            \/ \E c \in Clients : SendTo(t, c)
     PROVE  KindInv'
  BY <1>9 DEF Lookup, SendTo
<1>10. ASSUME NEW t \in Threads,
            \/ RequestLogin(t)
            \/ Processed(t)
            \/ DoRecv(t)
     PROVE  KindInv'
  BY <1>10 DEF RequestLogin, Processed, DoRecv
<1>11. ASSUME NEW t \in Threads,
            \/ DbLoginDone(t)
            \/ DbLoginFailed(t)
     PROVE  KindInv'
  BY <1>11 DEF DbLoginDone, DbLoginFailed
<1>12. ASSUME NEW t \in Threads, DisconnectLookup(t) PROVE KindInv'
  BY <1>12 DEF DisconnectLookup
<1>13. ASSUME NEW t \in Threads, CloseSocket(t) PROVE KindInv'
  BY <1>13 DEF CloseSocket
<1>14. ASSUME NEW t \in Threads, Retire(t) PROVE KindInv'
  BY <1>14 DEF Retire, PushPtr
<1>15. ASSUME NEW t \in Threads, Unpublish(t) PROVE KindInv'
  BY <1>15 DEF Unpublish
<1>16. CASE Network
  BY <1>16 DEF Network, AcceptCompletes, PeerLeaves, SendCompletes
<1>17. CASE UNCHANGED vars
  BY <1>17 DEF vars
<1> QED
  BY <1>1, <1>2, <1>3, <1>4, <1>5, <1>6, <1>7, <1>8, <1>9, <1>10, <1>11,
     <1>12, <1>13, <1>14, <1>15, <1>16, <1>17
     DEF Next, Accepting, Handling, Disconnecting, Rest

(* A thread has pointers only inside an epoch. *)
LEMMA EpochStep ==
  ASSUME IInv, [Next]_vars
  PROVE  EpochInv'
<1> USE ThreadsAssumption, SessionsAssumption
<1>1. ASSUME NEW t \in Threads, Take(t) PROVE EpochInv'
  <2>1. epochCounter # 0
    BY DEF IInv, TypeOK, EbrTypeOK
  <2> QED
    BY <1>1, <2>1, TakeFacts DEF IInv, EpochInv, DisconnectLabels
<1>2. ASSUME NEW t \in Threads, Enter(t) PROVE EpochInv'
  BY <1>2, EnterFacts DEF Enter, IInv, EpochInv, DisconnectLabels
<1>3. ASSUME NEW t \in Threads, DisconnectLookup(t) PROVE EpochInv'
  <2>1. /\ pc' = [pc EXCEPT ![t] = pc'[t]] /\ pc'[t] \in {"dc_close", "leave"}
        /\ pc'[t] = "dc_close" => ptr'[t] \in Objects
        /\ \A u \in Threads \ {t} : ptr'[u] = ptr[u] /\ held'[u] = held[u]
        /\ UNCHANGED <<epoch, epochArray, freeQueue>>
    BY <1>3 DEF DisconnectLookup, Goto, IInv, TypeOK, ThreadTypeOK, ebrVars
  <2>2. pc[t] = "dc_lookup"
    BY <1>3 DEF DisconnectLookup
  <2> QED
    BY <2>1, <2>2 DEF IInv, TypeOK, ThreadTypeOK, EpochInv, DisconnectLabels
<1> USE DEF Goto, ebrVars, netVars, localVars, history, IInv, TypeOK,
       EbrTypeOK, ThreadTypeOK, TableTypeOK, EpochInv, AcceptLabels,
       ClientLabels, DisconnectLabels
<1>4. ASSUME NEW t \in Threads, Leave(t) PROVE EpochInv'
  BY <1>4 DEF Leave, EndEpoch, NoCompletion, Completion
<1>5. ASSUME NEW t \in Threads, NewClientId(t) PROVE EpochInv'
  BY <1>5 DEF NewClientId
<1>6. ASSUME NEW t \in Threads, PopEmpty(t) PROVE EpochInv'
  BY <1>6 DEF PopEmpty
<1>7. ASSUME NEW t \in Threads, StartScan(t) PROVE EpochInv'
  BY <1>7 DEF StartScan
<1>8. ASSUME NEW t \in Threads, ScanSlot(t) PROVE EpochInv'
  BY <1>8 DEF ScanSlot, MayUseHead
<1>9. ASSUME NEW t \in Threads, NEW o \in Objects, NewSession(t, o) PROVE EpochInv'
  BY <1>9 DEF NewSession, AllocateNew
<1>10. ASSUME NEW t \in Threads, ArmAccept(t) PROVE EpochInv'
  BY <1>10 DEF ArmAccept
<1>11. ASSUME NEW t \in Threads, Reclaim(t) PROVE EpochInv'
  BY <1>11 DEF Reclaim, ReuseHead
<1>12. ASSUME NEW t \in Threads, InsertSession(t) PROVE EpochInv'
  BY <1>12 DEF InsertSession
<1>13. ASSUME NEW t \in Threads,
            \/ Lookup(t)
            \/ \E c \in Clients : SendTo(t, c)
     PROVE  EpochInv'
  <2>1. CASE Lookup(t)
    BY <2>1 DEF Lookup
  <2>2. ASSUME NEW c \in Clients, SendTo(t, c) PROVE EpochInv'
    <3>1. /\ UNCHANGED <<pc, epoch, epochArray, ptr, freeQueue>>
          /\ pc[t] \in {"use", "dc_close"} /\ \A u \in Threads \ {t} : held'[u] = held[u]
      BY <2>2 DEF SendTo
    <3> QED
      BY <3>1
  <2> QED
    BY <1>13, <2>1, <2>2
<1>14. ASSUME NEW t \in Threads,
            \/ RequestLogin(t)
            \/ Processed(t)
            \/ DoRecv(t)
     PROVE  EpochInv'
  <2>1. CASE RequestLogin(t)
    BY <2>1 DEF RequestLogin
  <2>2. CASE Processed(t)
    BY <2>2 DEF Processed
  <2>3. CASE DoRecv(t)
    BY <2>3 DEF DoRecv
  <2> QED
    BY <1>14, <2>1, <2>2, <2>3
<1>15. ASSUME NEW t \in Threads,
            \/ DbLoginDone(t)
            \/ DbLoginFailed(t)
     PROVE  EpochInv'
  BY <1>15 DEF DbLoginDone, DbLoginFailed
<1>16. ASSUME NEW t \in Threads, CloseSocket(t) PROVE EpochInv'
  BY <1>16 DEF CloseSocket
<1>17. ASSUME NEW t \in Threads, Retire(t) PROVE EpochInv'
  BY <1>17 DEF Retire, PushPtr
<1>18. ASSUME NEW t \in Threads, Unpublish(t) PROVE EpochInv'
  BY <1>18 DEF Unpublish
<1>19. CASE Network
  BY <1>19 DEF Network, AcceptCompletes, PeerLeaves, SendCompletes
<1>20. CASE UNCHANGED vars
  BY <1>20 DEF vars
<1> QED
  BY <1>1, <1>2, <1>3, <1>4, <1>5, <1>6, <1>7, <1>8, <1>9, <1>10, <1>11,
     <1>12, <1>13, <1>14, <1>15, <1>16, <1>17, <1>18, <1>19, <1>20
     DEF Next, Accepting, Handling, Disconnecting, Rest

(* New ids are new. *)
LEMMA IdStep ==
  ASSUME IInv, [Next]_vars
  PROVE  IdInv'
<1> USE ThreadsAssumption, SessionsAssumption
<1>1. ASSUME NEW t \in Threads, Take(t) PROVE IdInv'
  BY <1>1, TakeFacts DEF IInv, IdInv, AcceptLabels, DisconnectLabels
<1>2. ASSUME NEW t \in Threads, Enter(t) PROVE IdInv'
  BY <1>2, EnterFacts DEF Enter, IInv, IdInv, AcceptLabels, DisconnectLabels
<1>3. ASSUME NEW t \in Threads, NewClientId(t) PROVE IdInv'
  <2>1. /\ newClientId \in Nat /\ newClientId' = newClientId + 1 /\ UNCHANGED sessions
        /\ pc'[t] \in {"ac_pop", "leave"} /\ ev'[t].client = newClientId
        /\ \A u \in Threads \ {t} : pc'[u] = pc[u] /\ ev'[u] = ev[u]
    BY <1>3 DEF NewClientId, Goto, IInv, TypeOK, TableTypeOK, ThreadTypeOK
  <2>2. Clients \subseteq Nat
    BY DEF Clients
  <2>3. \A u \in Threads : ev[u].client \in Nat
    BY DEF IInv, TypeOK, ThreadTypeOK
  <2>4. ASSUME NEW d \in Clients, d >= newClientId' PROVE sessions'[d] = Absent
    BY <2>1, <2>2, <2>4 DEF IInv, IdInv
  <2>5. ASSUME NEW u \in Threads, pc'[u] \in AcceptLabels \ {"ac_id", "ac_arm"}
        PROVE  /\ ev'[u].client < newClientId'
               /\ ev'[u].client \in Clients => sessions'[ev'[u].client] = Absent
    <3>1. CASE u = t
      BY <2>1, <2>2, <3>1 DEF IInv, IdInv
    <3>2. CASE u # t
      <4>1. /\ ev[u].client < newClientId
            /\ ev[u].client \in Clients => sessions[ev[u].client] = Absent
        BY <2>1, <2>5, <3>2 DEF IInv, IdInv
      <4> QED
        BY <2>1, <2>3, <3>2, <4>1
    <3> QED
      BY <3>1, <3>2
  <2>6. ASSUME NEW u \in Threads, pc'[u] \in DisconnectLabels
        PROVE  sessions'[ev'[u].client] # Absent
    <3>1. u # t
      BY <2>1, <2>6 DEF DisconnectLabels
    <3> QED
      BY <2>1, <2>6, <3>1 DEF IInv, IdInv
  <2> QED
    BY <2>4, <2>5, <2>6 DEF IdInv
<1>4. ASSUME NEW t \in Threads, InsertSession(t) PROVE IdInv'
  <2> DEFINE c == ev[t].client
  <2>1. /\ pc[t] = "ac_insert" /\ pc'[t] \in {"leave", "ac_arm"}
        /\ \A u \in Threads \ {t} : pc'[u] = pc[u]
        /\ UNCHANGED <<ev, newClientId>>
        /\ \A d \in Clients \ {c} : sessions'[d] = sessions[d]
    BY <1>4 DEF InsertSession, Goto, IInv, TypeOK, TableTypeOK, ThreadTypeOK
  <2>2. c \in Clients => sessions'[c] = ptr[t] /\ ptr[t] # Absent
    BY <1>4 DEF InsertSession, IInv, TypeOK, TableTypeOK, EpochInv
  <2>3. \A u \in Threads \ {t} : pc[u] \notin AcceptLabels
    BY <2>1 DEF IInv, AcceptHasOneOwner, AcceptOwners, AcceptLabels
  <2>4. c < newClientId /\ c \in Nat /\ newClientId \in Nat /\ Clients \subseteq Nat
    <3>1. c < newClientId
      BY <2>1 DEF IInv, IdInv, AcceptLabels
    <3> QED
      BY <3>1 DEF IInv, TypeOK, ThreadTypeOK, TableTypeOK, Clients
  <2>5. \A d \in Clients : d >= newClientId' => sessions'[d] = Absent
    <3>1. \A d \in Clients : d >= newClientId => d # c
      BY <2>4
    <3> QED
      BY <2>1, <3>1 DEF IInv, IdInv
  <2>6. ASSUME NEW u \in Threads, pc'[u] \in DisconnectLabels
        PROVE  sessions'[ev'[u].client] # Absent
    <3>1. u # t /\ pc[u] \in DisconnectLabels /\ ev[u].client \in Clients
      BY <2>1, <2>6 DEF DisconnectLabels, ClientLabels, IInv, KindInv
    <3> QED
      BY <2>1, <2>2, <3>1 DEF IInv, IdInv
  <2> QED
    BY <2>1, <2>3, <2>5, <2>6 DEF IdInv, AcceptLabels
<1> USE DEF Goto, ebrVars, netVars, localVars, history, IInv, TypeOK,
       ThreadTypeOK, TableTypeOK, IdInv, AcceptLabels, ClientLabels,
       DisconnectLabels
<1>5. ASSUME NEW t \in Threads, Leave(t) PROVE IdInv'
  BY <1>5 DEF Leave, EndEpoch, NoCompletion, Completion
<1>6. ASSUME NEW t \in Threads, PopEmpty(t) PROVE IdInv'
  BY <1>6 DEF PopEmpty
<1>7. ASSUME NEW t \in Threads, StartScan(t) PROVE IdInv'
  BY <1>7 DEF StartScan
<1>8. ASSUME NEW t \in Threads, ScanSlot(t) PROVE IdInv'
  BY <1>8 DEF ScanSlot, MayUseHead
<1>9. ASSUME NEW t \in Threads, NEW o \in Objects, NewSession(t, o) PROVE IdInv'
  BY <1>9 DEF NewSession, AllocateNew
<1>10. ASSUME NEW t \in Threads, ArmAccept(t) PROVE IdInv'
  BY <1>10 DEF ArmAccept
<1>11. ASSUME NEW t \in Threads, Reclaim(t) PROVE IdInv'
  BY <1>11 DEF Reclaim, ReuseHead
<1>12. ASSUME NEW t \in Threads,
            \/ Lookup(t)
            \/ \E c \in Clients : SendTo(t, c)
     PROVE  IdInv'
  BY <1>12 DEF Lookup, SendTo
<1>13. ASSUME NEW t \in Threads,
            \/ RequestLogin(t)
            \/ Processed(t)
            \/ DoRecv(t)
     PROVE  IdInv'
  BY <1>13 DEF RequestLogin, Processed, DoRecv
<1>14. ASSUME NEW t \in Threads,
            \/ DbLoginDone(t)
            \/ DbLoginFailed(t)
     PROVE  IdInv'
  BY <1>14 DEF DbLoginDone, DbLoginFailed
<1>15. ASSUME NEW t \in Threads, DisconnectLookup(t) PROVE IdInv'
  BY <1>15 DEF DisconnectLookup
<1>16. ASSUME NEW t \in Threads, CloseSocket(t) PROVE IdInv'
  BY <1>16 DEF CloseSocket
<1>17. ASSUME NEW t \in Threads, Retire(t) PROVE IdInv'
  BY <1>17 DEF Retire, PushPtr
<1>18. ASSUME NEW t \in Threads, Unpublish(t) PROVE IdInv'
  BY <1>18 DEF Unpublish
<1>19. CASE Network
  BY <1>19 DEF Network, AcceptCompletes, PeerLeaves, SendCompletes
<1>20. CASE UNCHANGED vars
  BY <1>20 DEF vars
<1> QED
  BY <1>1, <1>2, <1>3, <1>4, <1>5, <1>6, <1>7, <1>8, <1>9, <1>10, <1>11,
     <1>12, <1>13, <1>14, <1>15, <1>16, <1>17, <1>18, <1>19, <1>20
     DEF Next, Accepting, Handling, Disconnecting, Rest

(* What threads know of has been allocated. *)
LEMMA AllocatedStep ==
  ASSUME IInv, [Next]_vars
  PROVE  AllocatedInv'
<1> USE ThreadsAssumption, SessionsAssumption
<1>1. ASSUME NEW t \in Threads, Take(t) PROVE AllocatedInv'
  BY <1>1, TakeFacts DEF IInv, AllocatedInv, Begin, Take, TakeAccept, TakeRecv, TakeFailure
<1>2. ASSUME NEW t \in Threads, Lookup(t) PROVE AllocatedInv'
  <2>1. held'[t] \subseteq allocated /\ \A u \in Threads \ {t} : held'[u] = held[u]
    BY <1>2 DEF Lookup, IInv, TypeOK, ThreadTypeOK, TableTypeOK, AllocatedInv, KindInv, ClientLabels
  <2> QED
    BY <1>2, <2>1 DEF Lookup, IInv, AllocatedInv, ebrVars
<1>3. ASSUME NEW t \in Threads, DisconnectLookup(t) PROVE AllocatedInv'
  <2>1. /\ held'[t] \subseteq allocated /\ \A u \in Threads \ {t} : held'[u] = held[u]
        /\ ptr'[t] # Null => ptr'[t] \in allocated
        /\ \A u \in Threads \ {t} : ptr'[u] = ptr[u]
    BY <1>3 DEF DisconnectLookup, IInv, TypeOK, ThreadTypeOK, TableTypeOK, AllocatedInv, KindInv,
             ClientLabels
  <2> QED
    BY <1>3, <2>1 DEF DisconnectLookup, IInv, AllocatedInv, ebrVars
<1> USE DEF Goto, ebrVars, netVars, localVars, history, IInv, TypeOK,
       EbrTypeOK, ThreadTypeOK, TableTypeOK, AllocatedInv, EpochInv,
       DisconnectLabels
<1>4. ASSUME NEW t \in Threads, Enter(t) PROVE AllocatedInv'
  BY <1>4 DEF Enter, StoreEpoch, EntryOf
<1>5. ASSUME NEW t \in Threads, Leave(t) PROVE AllocatedInv'
  BY <1>5 DEF Leave, EndEpoch, NoCompletion, Completion
<1>6. ASSUME NEW t \in Threads, NewClientId(t) PROVE AllocatedInv'
  BY <1>6 DEF NewClientId
<1>7. ASSUME NEW t \in Threads, PopEmpty(t) PROVE AllocatedInv'
  BY <1>7 DEF PopEmpty
<1>8. ASSUME NEW t \in Threads, StartScan(t) PROVE AllocatedInv'
  BY <1>8 DEF StartScan
<1>9. ASSUME NEW t \in Threads, ScanSlot(t) PROVE AllocatedInv'
  BY <1>9 DEF ScanSlot, MayUseHead
<1>10. ASSUME NEW t \in Threads, NEW o \in Objects, NewSession(t, o) PROVE AllocatedInv'
  BY <1>10 DEF NewSession, AllocateNew
<1>11. ASSUME NEW t \in Threads, ArmAccept(t) PROVE AllocatedInv'
  BY <1>11 DEF ArmAccept
<1>12. ASSUME NEW t \in Threads, Reclaim(t) PROVE AllocatedInv'
  BY <1>12 DEF Reclaim, ReuseHead
<1>13. ASSUME NEW t \in Threads, InsertSession(t) PROVE AllocatedInv'
  BY <1>13 DEF InsertSession
<1>14. ASSUME NEW t \in Threads, NEW c \in Clients, SendTo(t, c) PROVE AllocatedInv'
  BY <1>14 DEF SendTo
<1>15. ASSUME NEW t \in Threads,
            \/ RequestLogin(t)
            \/ Processed(t)
            \/ DoRecv(t)
     PROVE  AllocatedInv'
  BY <1>15 DEF RequestLogin, Processed, DoRecv
<1>16. ASSUME NEW t \in Threads,
            \/ DbLoginDone(t)
            \/ DbLoginFailed(t)
     PROVE  AllocatedInv'
  BY <1>16 DEF DbLoginDone, DbLoginFailed
<1>17. ASSUME NEW t \in Threads, CloseSocket(t) PROVE AllocatedInv'
  BY <1>17 DEF CloseSocket
<1>18. ASSUME NEW t \in Threads, Retire(t) PROVE AllocatedInv'
  BY <1>18 DEF Retire, PushPtr
<1>19. ASSUME NEW t \in Threads, Unpublish(t) PROVE AllocatedInv'
  BY <1>19 DEF Unpublish
<1>20. CASE Network
  BY <1>20 DEF Network, AcceptCompletes, PeerLeaves, SendCompletes
<1>21. CASE UNCHANGED vars
  BY <1>21 DEF vars
<1> QED
  BY <1>1, <1>2, <1>3, <1>4, <1>5, <1>6, <1>7, <1>8, <1>9, <1>10, <1>11,
     <1>12, <1>13, <1>14, <1>15, <1>16, <1>17, <1>18, <1>19, <1>20, <1>21
     DEF Next, Accepting, Handling, Disconnecting, Rest

(* The accept socket has one owner. *)
LEMMA AcceptStep ==
  ASSUME IInv, [Next]_vars
  PROVE  AcceptHasOneOwner'
<1> USE ThreadsAssumption, SessionsAssumption
<1>1. ASSUME NEW t \in Threads, Take(t) PROVE AcceptHasOneOwner'
  <2>1. CASE TakeAccept(t)
    <3>1. /\ accept # "none" /\ accept' = "none" /\ pc[t] = "idle" /\ UNCHANGED newClientId
          /\ pc' = [pc EXCEPT ![t] = "enter"]
          /\ ev'[t].kind \in AcceptKinds
          /\ \A u \in Threads \ {t} : ev'[u] = ev[u]
      BY <2>1 DEF TakeAccept, Begin, Goto, Completion, AcceptKinds, IInv, TypeOK, ThreadTypeOK
    <3>2. AcceptOwners' = {t}
      BY <3>1 DEF IInv, AcceptHasOneOwner, AcceptOwners, AcceptKinds, TypeOK, ThreadTypeOK,
                  AcceptLabels
    <3> QED
      BY <3>1, <3>2 DEF AcceptHasOneOwner
  <2>2. ASSUME NEW c \in Clients,
               TakeRecv(t, c) \/ TakeFailure(t, c) \/ TakeLogin(t, c) \/ TakeDbLogin(t, c)
        PROVE  AcceptHasOneOwner'
    <3>1. /\ pc[t] = "idle" /\ UNCHANGED <<accept, newClientId>>
          /\ pc' = [pc EXCEPT ![t] = "enter"]
          /\ ev'[t].kind \notin AcceptKinds
          /\ \A u \in Threads \ {t} : ev'[u] = ev[u]
      BY <2>2 DEF TakeRecv, TakeFailure, TakeLogin, TakeDbLogin, Begin, Goto, Completion,
                  AcceptKinds, IInv, TypeOK, ThreadTypeOK
    <3>2. AcceptOwners' = AcceptOwners
      BY <3>1 DEF AcceptOwners, AcceptKinds, IInv, TypeOK, ThreadTypeOK, AcceptLabels
    <3> QED
      BY <3>1, <3>2 DEF AcceptHasOneOwner, IInv
  <2> QED
    BY <1>1, <2>1, <2>2 DEF Take
<1>2. ASSUME NEW t \in Threads, Enter(t) PROVE AcceptHasOneOwner'
  <2>1. AcceptOwners' = AcceptOwners
    BY <1>2, EnterFacts DEF Enter, AcceptOwners, AcceptLabels, AcceptKinds
  <2> QED
    BY <1>2, <2>1 DEF Enter, IInv, AcceptHasOneOwner, netVars
<1>3. ASSUME NEW t \in Threads, InsertSession(t) PROVE AcceptHasOneOwner'
  <2>1. pc[t] = "ac_insert" /\ pc' = [pc EXCEPT ![t] = pc'[t]] /\ pc'[t] \in {"leave", "ac_arm"}
    BY <1>3 DEF InsertSession, Goto, IInv, TypeOK, ThreadTypeOK
  <2>2. UNCHANGED <<accept, newClientId, ev>>
    BY <1>3 DEF InsertSession
  <2>3. t \in AcceptOwners /\ \A u \in AcceptOwners : u = t
    BY <2>1 DEF IInv, AcceptHasOneOwner, AcceptOwners, AcceptLabels
  <2>4. CASE pc'[t] = "ac_arm"
    <3>1. AcceptOwners' = AcceptOwners
      BY <2>1, <2>2, <2>4 DEF AcceptOwners, AcceptLabels, IInv, TypeOK, ThreadTypeOK
    <3> QED
      BY <2>2, <3>1 DEF IInv, AcceptHasOneOwner
  <2>5. CASE pc'[t] = "leave"
    <3>1. newClientId > MaxUser
      <4>1. ev[t].client \notin Clients /\ ev[t].client < newClientId
        BY <1>3, <2>1, <2>5 DEF InsertSession, Goto, IInv, TypeOK, ThreadTypeOK, IdInv, AcceptLabels
      <4> QED
        BY <4>1 DEF Clients, IInv, TypeOK, ThreadTypeOK, TableTypeOK
    <3>2. AcceptOwners' = {}
      BY <2>1, <2>2, <2>3, <2>5 DEF AcceptOwners, AcceptLabels, IInv, TypeOK, ThreadTypeOK
    <3> QED
      BY <2>2, <3>1, <3>2 DEF AcceptHasOneOwner, IInv, TypeOK, TableTypeOK
  <2> QED
    BY <2>1, <2>4, <2>5
<1> USE DEF Goto, ebrVars, netVars, localVars, history, IInv, TypeOK,
       ThreadTypeOK, TableTypeOK, AcceptHasOneOwner, AcceptOwners, KindInv,
       AcceptLabels, ClientLabels, DisconnectLabels, Kinds, AcceptKinds,
       ClientKinds
<1>4. ASSUME NEW t \in Threads, Leave(t) PROVE AcceptHasOneOwner'
  BY <1>4 DEF Leave, EndEpoch, NoCompletion, Completion
<1>5. ASSUME NEW t \in Threads, NewClientId(t) PROVE AcceptHasOneOwner'
  BY <1>5 DEF NewClientId
<1>6. ASSUME NEW t \in Threads, PopEmpty(t) PROVE AcceptHasOneOwner'
  BY <1>6 DEF PopEmpty
<1>7. ASSUME NEW t \in Threads, StartScan(t) PROVE AcceptHasOneOwner'
  BY <1>7 DEF StartScan
<1>8. ASSUME NEW t \in Threads, ScanSlot(t) PROVE AcceptHasOneOwner'
  BY <1>8 DEF ScanSlot, MayUseHead
<1>9. ASSUME NEW t \in Threads, NEW o \in Objects, NewSession(t, o) PROVE AcceptHasOneOwner'
  BY <1>9 DEF NewSession, AllocateNew
<1>10. ASSUME NEW t \in Threads, ArmAccept(t) PROVE AcceptHasOneOwner'
  BY <1>10 DEF ArmAccept
<1>11. ASSUME NEW t \in Threads, Reclaim(t) PROVE AcceptHasOneOwner'
  BY <1>11 DEF Reclaim, ReuseHead
<1>12. ASSUME NEW t \in Threads,
            \/ Lookup(t)
            \/ \E c \in Clients : SendTo(t, c)
     PROVE  AcceptHasOneOwner'
  BY <1>12 DEF Lookup, SendTo
<1>13. ASSUME NEW t \in Threads,
            \/ RequestLogin(t)
            \/ Processed(t)
            \/ DoRecv(t)
     PROVE  AcceptHasOneOwner'
  BY <1>13 DEF RequestLogin, Processed, DoRecv
<1>14. ASSUME NEW t \in Threads,
            \/ DbLoginDone(t)
            \/ DbLoginFailed(t)
     PROVE  AcceptHasOneOwner'
  BY <1>14 DEF DbLoginDone, DbLoginFailed
<1>15. ASSUME NEW t \in Threads, DisconnectLookup(t) PROVE AcceptHasOneOwner'
  BY <1>15 DEF DisconnectLookup
<1>16. ASSUME NEW t \in Threads, CloseSocket(t) PROVE AcceptHasOneOwner'
  BY <1>16 DEF CloseSocket
<1>17. ASSUME NEW t \in Threads, Retire(t) PROVE AcceptHasOneOwner'
  BY <1>17 DEF Retire, PushPtr
<1>18. ASSUME NEW t \in Threads, Unpublish(t) PROVE AcceptHasOneOwner'
  BY <1>18 DEF Unpublish
<1>19. CASE Network
  BY <1>19 DEF Network, AcceptCompletes, PeerLeaves, SendCompletes
<1>20. CASE UNCHANGED vars
  BY <1>20 DEF vars
<1> QED
  BY <1>1, <1>2, <1>3, <1>4, <1>5, <1>6, <1>7, <1>8, <1>9, <1>10, <1>11,
     <1>12, <1>13, <1>14, <1>15, <1>16, <1>17, <1>18, <1>19, <1>20
     DEF Next, Accepting, Handling, Disconnecting, Rest

(* An object is in one queue, once. *)
LEMMA QueuedOnceStep ==
  ASSUME IInv, [Next]_vars
  PROVE  QueuedOnce'
<1>1. CASE UNCHANGED <<freeQueue, twice>>
  BY <1>1 DEF IInv, QueuedOnce
<1>2. ASSUME NEW t \in Threads, Retire(t) PROVE QueuedOnce'
  <2> SUFFICES ASSUME NEW u \in Threads, NEW v \in Threads, NEW i \in Nat, NEW j \in Nat,
                      i \in 1 .. Len(freeQueue'[u]), j \in 1 .. Len(freeQueue'[v]),
                      freeQueue'[u][i] = freeQueue'[v][j],
                      freeQueue'[u][i] \notin twice'
               PROVE  u = v /\ i = j
    BY DEF QueuedOnce
  <2> DEFINE o == ptr[t]
             q == freeQueue[t]
  <2>1. /\ freeQueue \in [Threads -> Seq(Objects)]
        /\ freeQueue' = [freeQueue EXCEPT ![t] = Append(@, o)]
        /\ twice \subseteq twice'
    BY <1>2, TableFrame DEF IInv, TypeOK, EbrTypeOK, Retire, PushPtr
  <2>2. o \in Objects /\ q \in Seq(Objects)
    BY <1>2, <2>1, RetireFacts
  <2>3. /\ Len(q) \in Nat
        /\ Len(freeQueue'[t]) = Len(q) + 1
        /\ \A k \in 1 .. Len(q) : freeQueue'[t][k] = q[k]
        /\ freeQueue'[t][Len(q) + 1] = o
        /\ \A w \in Threads \ {t} : freeQueue'[w] = freeQueue[w]
    BY <2>1, <2>2, AppendFacts
  <2>4. o \notin twice' => \A w \in Threads : \A k \in 1 .. Len(freeQueue[w]) : freeQueue[w][k] # o
    BY <1>2, RetireFacts DEF Queued
  <2>5. CASE freeQueue'[u][i] = o
    <3>1. ASSUME NEW w \in Threads, NEW k \in 1 .. Len(freeQueue'[w]), freeQueue'[w][k] = o
          PROVE  w = t /\ k = Len(q) + 1
      <4>1. CASE w = t
        <5>1. k \notin 1 .. Len(q)
          BY <2>3, <2>4, <2>5, <3>1, <4>1
        <5> QED
          BY <2>3, <3>1, <4>1, <5>1
      <4>2. CASE w # t
        BY <2>3, <2>4, <2>5, <3>1, <4>2
      <4> QED
        BY <4>1, <4>2
    <3>2. u = t /\ i = Len(q) + 1
      BY <2>5, <3>1
    <3>3. freeQueue'[v][j] = o
      BY <2>5
    <3>4. v = t /\ j = Len(q) + 1
      BY <3>1, <3>3
    <3> QED
      BY <3>2, <3>4
  <2>6. CASE freeQueue'[u][i] # o
    <3>1. /\ i \in 1 .. Len(freeQueue[u]) /\ freeQueue'[u][i] = freeQueue[u][i]
          /\ j \in 1 .. Len(freeQueue[v]) /\ freeQueue'[v][j] = freeQueue[v][j]
      <4>1. ASSUME NEW w \in Threads, NEW k \in 1 .. Len(freeQueue'[w]), freeQueue'[w][k] # o
            PROVE  k \in 1 .. Len(freeQueue[w]) /\ freeQueue'[w][k] = freeQueue[w][k]
        <5>1. CASE w = t
          <6>1. k \in 1 .. Len(q) + 1 /\ k # Len(q) + 1
            BY <2>3, <4>1, <5>1
          <6> QED
            BY <2>3, <5>1, <6>1
        <5>2. CASE w # t
          BY <2>3, <4>1, <5>2
        <5> QED
          BY <5>1, <5>2
      <4> QED
        BY <2>6, <4>1
    <3> QED
      BY <2>1, <3>1 DEF IInv, QueuedOnce
  <2> QED
    BY <2>5, <2>6
<1>3. ASSUME NEW t \in Threads, Reclaim(t) PROVE QueuedOnce'
  <2> SUFFICES ASSUME NEW u \in Threads, NEW v \in Threads, NEW i \in Nat, NEW j \in Nat,
                      i \in 1 .. Len(freeQueue'[u]), j \in 1 .. Len(freeQueue'[v]),
                      freeQueue'[u][i] = freeQueue'[v][j],
                      freeQueue'[u][i] \notin twice'
               PROVE  u = v /\ i = j
    BY DEF QueuedOnce
  <2> DEFINE pos(w, k) == IF w = t THEN k + 1 ELSE k
  <2>1. /\ freeQueue \in [Threads -> Seq(Objects)]
        /\ freeQueue[t] # <<>>
        /\ freeQueue' = [freeQueue EXCEPT ![t] = Tail(@)]
        /\ twice' = twice
    BY <1>3 DEF IInv, TypeOK, EbrTypeOK, EpochInv, Reclaim, ReuseHead, history
  <2>2. ASSUME NEW w \in Threads, NEW k \in Nat, k \in 1 .. Len(freeQueue'[w])
        PROVE  /\ pos(w, k) \in Nat
               /\ pos(w, k) \in 1 .. Len(freeQueue[w])
               /\ freeQueue[w][pos(w, k)] = freeQueue'[w][k]
    <3>1. CASE w = t
      <4>1. freeQueue'[w] = Tail(freeQueue[t]) /\ freeQueue[t] \in Seq(Objects)
        BY <2>1, <3>1
      <4> QED
        BY <2>1, <2>2, <3>1, <4>1, TailFacts
    <3>2. CASE w # t
      BY <2>1, <2>2, <3>2
    <3> QED
      BY <3>1, <3>2
  <2>3. u = v /\ pos(u, i) = pos(v, j)
    <3>1. /\ pos(u, i) \in Nat /\ pos(u, i) \in 1 .. Len(freeQueue[u])
          /\ pos(v, j) \in Nat /\ pos(v, j) \in 1 .. Len(freeQueue[v])
          /\ freeQueue[u][pos(u, i)] = freeQueue[v][pos(v, j)]
          /\ freeQueue[u][pos(u, i)] \notin twice
      BY <2>1, <2>2
    <3> HIDE DEF pos
    <3> QED
      BY <3>1 DEF IInv, QueuedOnce
  <2> QED
    BY <2>3
<1> QED
  BY <1>1, <1>2, <1>3, QueueFrame

(* An object is published under one id. *)
LEMMA PublishedOnceStep ==
  ASSUME IInv, [Next]_vars
  PROVE  PublishedOnce'
<1>1. CASE UNCHANGED sessions
  BY <1>1, TableFrame DEF IInv, PublishedOnce
<1>2. ASSUME NEW t \in Threads, InsertSession(t) PROVE PublishedOnce'
  BY <1>2 DEF InsertSession, IInv, TypeOK, TableTypeOK, PublishedOnce, ConstructedInv, history
<1>3. ASSUME NEW t \in Threads, Unpublish(t) PROVE PublishedOnce'
  BY <1>3, SessionsAssumption
     DEF Unpublish, IInv, TypeOK, TableTypeOK, PublishedOnce, history
<1> QED
  BY <1>1, <1>2, <1>3, TableFrame

(* The object of a session that is about to be inserted is nobody else's.   *)
LEMMA ConstructedStep ==
  ASSUME IInv, [Next]_vars
  PROVE  ConstructedInv'
<1> SUFFICES ASSUME NEW t \in Threads, NEW o, pc'[t] = "ac_insert", ptr'[t] = o,
                    o \notin twice'
             PROVE  /\ \A u \in Threads : ~Queued(u, o)'
                    /\ \A c \in Clients : sessions'[c] # o
  BY DEF ConstructedInv, Queued
<1>1. ASSUME NEW e \in Objects, NewSession(t, e)
      PROVE  /\ \A u \in Threads : ~Queued(u, o)'
             /\ \A c \in Clients : sessions'[c] # o
  <2>1. o = e /\ o \notin allocated /\ UNCHANGED <<freeQueue, sessions>>
    BY <1>1 DEF NewSession, AllocateNew, IInv, TypeOK, ThreadTypeOK
  <2>2. \A u \in Threads : ~Queued(u, o)
    BY <2>1 DEF Queued, IInv, AllocatedInv, TypeOK, EbrTypeOK
  <2>3. \A c \in Clients : sessions[c] # o
    BY <2>1 DEF IInv, AllocatedInv
  <2> QED
    BY <2>1, <2>2, <2>3 DEF Queued
<1>2. CASE Reclaim(t)
  <2>1. /\ o \notin twice /\ UNCHANGED sessions
        /\ pc[t] = "ac_scan"
    BY <1>2 DEF Reclaim, history
  <2>2. /\ o \in Objects /\ Queued(t, o)
        /\ \A u \in Threads : ~Queued(u, o)'
    <3>1. o = Head(freeQueue[t]) /\ Head(freeQueue[t]) \in Objects
      BY <1>2, ReclaimFacts
    <3> QED
      BY <1>2, <2>1, <3>1, ReclaimFacts
  <2>3. \A c \in Clients : sessions[c] # o
    BY <2>1, <2>2 DEF IInv, RetiredIsUnpublished
  <2> QED
    BY <2>1, <2>2, <2>3
<1>3. CASE pc[t] = "ac_insert" /\ ptr'[t] = ptr[t]
  <2>1. /\ o \in Objects /\ o \notin twice /\ o = ptr[t]
        /\ \A u \in Threads : ~Queued(u, o)
        /\ \A c \in Clients : sessions[c] # o
    BY <1>3, TableFrame DEF IInv, EpochInv, ConstructedInv
  <2>2. ASSUME NEW u \in Threads, Queued(u, o)' PROVE FALSE
    <3>1. CASE UNCHANGED <<freeQueue, twice>>
      BY <2>1, <2>2, <3>1 DEF Queued
    <3>2. ASSUME NEW v \in Threads, Retire(v) PROVE FALSE
      <4>1. ptr[v] = o
        BY <2>1, <2>2, <3>2, RetireFacts
      <4> QED
        BY <1>3, <2>1, <3>2, <4>1, RetireFacts
    <3>3. ASSUME NEW v \in Threads, Reclaim(v) PROVE FALSE
      BY <2>1, <2>2, <3>3, ReclaimFacts
    <3> QED
      BY <3>1, <3>2, <3>3, QueueFrame
  <2>3. ASSUME NEW c \in Clients, sessions'[c] = o PROVE FALSE
    <3>1. ASSUME NEW v \in Threads, InsertSession(v) PROVE FALSE
      <4>1. v # t
        BY <3>1 DEF InsertSession, Goto, IInv, TypeOK, ThreadTypeOK
      <4>2. v \in AcceptOwners /\ t \in AcceptOwners
        BY <1>3, <3>1 DEF InsertSession, AcceptOwners, AcceptLabels
      <4> QED
        BY <4>1, <4>2 DEF IInv, AcceptHasOneOwner
    <3>2. ASSUME NEW v \in Threads, Unpublish(v) PROVE FALSE
      BY <2>1, <2>3, <3>2, SessionsAssumption DEF Unpublish, IInv, TypeOK, TableTypeOK
    <3> QED
      BY <2>1, <2>3, <3>1, <3>2, TableFrame
  <2> QED
    BY <1>3, <2>2, <2>3
<1> QED
  BY <1>1, <1>2, <1>3, InsertFrame

(* Before a client is retired its object is published. *)
LEMMA DisconnectStep ==
  ASSUME IInv, [Next]_vars
  PROVE  DisconnectInv'
<1> USE ThreadsAssumption, SessionsAssumption
<1>1. ASSUME NEW t \in Threads, Take(t) PROVE DisconnectInv'
  BY <1>1, TakeFacts DEF IInv, DisconnectInv
<1>2. ASSUME NEW t \in Threads, Enter(t) PROVE DisconnectInv'
  BY <1>2, EnterFacts DEF Enter, IInv, DisconnectInv, history
<1>3. ASSUME NEW t \in Threads, InsertSession(t) PROVE DisconnectInv'
  <2>1. pc[t] = "ac_insert"
    BY <1>3 DEF InsertSession
  <2>2. /\ pc'[t] \notin DisconnectLabels /\ UNCHANGED <<ev, ptr, retired>>
        /\ \A u \in Threads \ {t} : pc'[u] = pc[u]
        /\ \A d \in Clients \ {ev[t].client} : sessions'[d] = sessions[d]
    BY <1>3 DEF InsertSession, Goto, history, IInv, TypeOK, ThreadTypeOK, TableTypeOK,
             DisconnectLabels
  <2>3. ASSUME NEW u \in Threads, pc[u] \in DisconnectLabels
        PROVE  ev[u].client \in Clients /\ ev[u].client # ev[t].client
    <3>1. ev[u].client \in Clients
      BY <2>3 DEF IInv, KindInv, ClientLabels
    <3>2. sessions[ev[u].client] # Absent
      BY <2>3 DEF IInv, IdInv
    <3>3. ev[t].client \in Clients => sessions[ev[t].client] = Absent
      BY <2>1 DEF IInv, IdInv, AcceptLabels
    <3> QED
      BY <3>1, <3>2, <3>3
  <2> QED
    BY <2>2, <2>3 DEF IInv, DisconnectInv, DisconnectLabels
<1> USE DEF Goto, ebrVars, netVars, localVars, history, IInv, TypeOK,
       TableTypeOK, ThreadTypeOK, DisconnectInv, IdInv, DisconnectLabels
<1>4. ASSUME NEW t \in Threads, Leave(t) PROVE DisconnectInv'
  BY <1>4 DEF Leave, EndEpoch, NoCompletion, Completion
<1>5. ASSUME NEW t \in Threads, NewClientId(t) PROVE DisconnectInv'
  BY <1>5 DEF NewClientId
<1>6. ASSUME NEW t \in Threads, PopEmpty(t) PROVE DisconnectInv'
  BY <1>6 DEF PopEmpty
<1>7. ASSUME NEW t \in Threads, StartScan(t) PROVE DisconnectInv'
  BY <1>7 DEF StartScan
<1>8. ASSUME NEW t \in Threads, ScanSlot(t) PROVE DisconnectInv'
  BY <1>8 DEF ScanSlot, MayUseHead
<1>9. ASSUME NEW t \in Threads, NEW o \in Objects, NewSession(t, o) PROVE DisconnectInv'
  BY <1>9 DEF NewSession, AllocateNew
<1>10. ASSUME NEW t \in Threads, ArmAccept(t) PROVE DisconnectInv'
  BY <1>10 DEF ArmAccept
<1>11. ASSUME NEW t \in Threads, Reclaim(t) PROVE DisconnectInv'
  BY <1>11 DEF Reclaim, ReuseHead
<1>12. ASSUME NEW t \in Threads,
            \/ Lookup(t)
            \/ \E c \in Clients : SendTo(t, c)
     PROVE  DisconnectInv'
  BY <1>12 DEF Lookup, SendTo
<1>13. ASSUME NEW t \in Threads,
            \/ RequestLogin(t)
            \/ Processed(t)
            \/ DoRecv(t)
     PROVE  DisconnectInv'
  BY <1>13 DEF RequestLogin, Processed, DoRecv
<1>14. ASSUME NEW t \in Threads,
            \/ DbLoginDone(t)
            \/ DbLoginFailed(t)
     PROVE  DisconnectInv'
  BY <1>14 DEF DbLoginDone, DbLoginFailed
<1>15. ASSUME NEW t \in Threads, DisconnectLookup(t) PROVE DisconnectInv'
  BY <1>15 DEF DisconnectLookup
<1>16. ASSUME NEW t \in Threads, CloseSocket(t) PROVE DisconnectInv'
  BY <1>16 DEF CloseSocket
<1>17. ASSUME NEW t \in Threads, Retire(t) PROVE DisconnectInv'
  BY <1>17 DEF Retire, PushPtr
<1>18. ASSUME NEW t \in Threads, Unpublish(t) PROVE DisconnectInv'
  BY <1>18 DEF Unpublish
<1>19. CASE Network
  BY <1>19 DEF Network, AcceptCompletes, PeerLeaves, SendCompletes
<1>20. CASE UNCHANGED vars
  BY <1>20 DEF vars
<1> QED
  BY <1>1, <1>2, <1>3, <1>4, <1>5, <1>6, <1>7, <1>8, <1>9, <1>10, <1>11,
     <1>12, <1>13, <1>14, <1>15, <1>16, <1>17, <1>18, <1>19, <1>20
     DEF Next, Accepting, Handling, Disconnecting, Rest

(* A retired object is published only until its thread unpublishes it.      *)
LEMMA RetiredStep ==
  ASSUME IInv, [Next]_vars
  PROVE  RetiredIsUnpublished'
<1> SUFFICES ASSUME NEW t \in Threads, NEW c \in Clients, NEW o \in Objects, o \notin twice',
                    Queued(t, o)', sessions'[c] = o
             PROVE  pc'[t] = "dc_null" /\ ev'[t].client = c
  BY DEF RetiredIsUnpublished, Queued
<1>1. o \notin twice
  BY TableFrame
<1>2. sessions[c] = o
  <2>1. ASSUME NEW u \in Threads, InsertSession(u), sessions[c] # o PROVE FALSE
    <3>1. /\ pc[u] = "ac_insert" /\ ptr[u] = o
          /\ UNCHANGED freeQueue
      BY <2>1 DEF InsertSession, ebrVars, IInv, TypeOK, TableTypeOK
    <3> QED
      BY <1>1, <3>1 DEF Queued, IInv, ConstructedInv
  <2>2. ASSUME NEW u \in Threads, Unpublish(u), sessions[c] # o PROVE FALSE
    BY <2>2, SessionsAssumption DEF Unpublish, IInv, TypeOK, TableTypeOK
  <2> QED
    BY <2>1, <2>2, TableFrame
<1>3. CASE Queued(t, o)
  <2>1. pc[t] = "dc_null" /\ ev[t].client = c
    BY <1>1, <1>2, <1>3 DEF IInv, RetiredIsUnpublished
  <2>2. ~Unpublish(t)
    BY <2>1, SessionsAssumption DEF Unpublish, IInv, TypeOK, TableTypeOK
  <2> QED
    BY <2>1, <2>2, NullFrame
<1>4. CASE ~Queued(t, o)
  <2>1. Retire(t) /\ o = ptr[t]
    <3>1. ~UNCHANGED freeQueue
      BY <1>4 DEF Queued
    <3>2. ASSUME NEW u \in Threads, Reclaim(u) PROVE FALSE
      BY <1>4, <3>2, ReclaimFacts
    <3>3. ASSUME NEW u \in Threads, Retire(u) PROVE u = t /\ o = ptr[t]
      BY <1>4, <3>3, RetireFacts
    <3> QED
      BY <3>1, <3>2, <3>3, QueueFrame
  <2>2. sessions[ev[t].client] = o /\ ev[t].client \in Clients
    BY <2>1, RetireFacts
  <2>3. ev[t].client = c
    BY <1>1, <1>2, <2>2 DEF IInv, PublishedOnce
  <2> QED
    BY <2>1, <2>3 DEF Retire, Goto, IInv, TypeOK, ThreadTypeOK
<1> QED
  BY <1>3, <1>4

(* A slot that was found safe stays safe while the scan goes on.            *)
LEMMA ScanStep ==
  ASSUME IInv, [Next]_vars
  PROVE  ScanInv'
<1> SUFFICES ASSUME NEW t \in Threads, NEW u \in Threads, pc'[t] = "ac_scan", u < scan'[t],
                    Head(freeQueue'[t]) \notin twice', Head(freeQueue'[t]) \in held'[u]
             PROVE  epochArray'[u] >= stamp'[Head(freeQueue'[t])]
  BY DEF ScanInv
<1>1. ~StartScan(t)
  BY ThreadsAssumption DEF StartScan, IInv, TypeOK, ThreadTypeOK, Threads
<1>2. CASE ScanSlot(t)
  <2> DEFINE h == Head(freeQueue[t])
  <2>1. /\ pc[t] = "ac_scan" /\ scan'[t] = scan[t] + 1 /\ ~MayUseHead(t, scan[t])
        /\ UNCHANGED <<freeQueue, stamp, epochArray, held, twice>>
    BY <1>2 DEF ScanSlot, Goto, ebrVars, history, IInv, TypeOK, ThreadTypeOK
  <2>2. /\ u \in Nat /\ scan[t] \in Nat /\ epochArray[u] \in Nat
        /\ h \in Objects /\ stamp[h] \in Nat
    <3>1. freeQueue[t] \in Seq(Objects) /\ freeQueue[t] # <<>>
      BY <2>1 DEF IInv, TypeOK, EbrTypeOK, EpochInv
    <3>2. h \in Objects
      BY <3>1, TailFacts
    <3>3. u \in Nat /\ scan[t] \in Nat
      BY ThreadsAssumption DEF IInv, TypeOK, ThreadTypeOK, Threads
    <3> QED
      BY <3>2, <3>3 DEF IInv, TypeOK, EbrTypeOK
  <2>3. CASE u < scan[t]
    BY <2>1, <2>3 DEF IInv, ScanInv
  <2>4. CASE u = scan[t]
    <3>1. epochArray[u] # 0
      BY <2>1 DEF IInv, EpochInv
    <3> QED
      BY <2>1, <2>2, <2>4, <3>1 DEF MayUseHead
  <2> QED
    BY <2>1, <2>2, <2>3, <2>4
<1>3. CASE pc[t] = "ac_scan" /\ scan'[t] = scan[t] /\ freeQueue'[t] = freeQueue[t]
  <2> PICK h : h = Head(freeQueue[t])
    OBVIOUS
  <2>1. /\ freeQueue[t] \in Seq(Objects) /\ freeQueue[t] # <<>>
        /\ h \notin twice
    BY <1>3, TableFrame DEF IInv, TypeOK, EbrTypeOK, EpochInv
  <2>2. h \in Objects /\ Queued(t, h)
    BY <2>1, TailFacts DEF Queued
  <2>3. h \in held[u] /\ epochArray'[u] = epochArray[u]
    <3>1. \A c \in Clients : sessions[c] # h
      BY <1>3, <2>1, <2>2 DEF IInv, RetiredIsUnpublished
    <3> QED
      BY <1>3, <3>1, HeldFrame
  <2>4. stamp'[h] = stamp[h]
    <3>1. ASSUME NEW v \in Threads, NewSession(v, h) PROVE FALSE
      BY <2>2, <3>1 DEF NewSession, AllocateNew, Queued, IInv, AllocatedInv, TypeOK, EbrTypeOK
    <3>2. ASSUME NEW v \in Threads, Reclaim(v), Head(freeQueue[v]) = h PROVE FALSE
      <4>1. Queued(t, h)'
        BY <1>3, <2>2 DEF Queued
      <4> QED
        BY <2>1, <3>2, <4>1, ReclaimFacts
    <3>3. ASSUME NEW v \in Threads, Retire(v), ptr[v] = h PROVE FALSE
      BY <1>3, <2>2, <3>3, RetireFacts
    <3> QED
      BY <2>2, <3>1, <3>2, <3>3, StampFrame DEF IInv
  <2> QED
    BY <1>3, <2>1, <2>3, <2>4 DEF IInv, ScanInv
<1> QED
  BY <1>1, <1>2, <1>3, ScanFrame

(* The invariant holds initially. *)
LEMMA InitIInv == Init => IInv
<1> SUFFICES ASSUME Init PROVE IInv
  OBVIOUS
<1> USE ThreadsAssumption, SessionsAssumption DEF Init, NetInit, EbrInit
<1>1. EbrTypeOK /\ NetTypeOK /\ TableTypeOK
  BY DEF EbrTypeOK, NetTypeOK, TableTypeOK, Clients
<1>2. ThreadTypeOK
  BY DEF ThreadTypeOK, Labels, NoCompletion, Completion, Threads
<1>3. KindInv /\ EpochInv /\ IdInv /\ DisconnectInv
  BY DEF KindInv, EpochInv, IdInv, DisconnectInv, AcceptLabels, ClientLabels, DisconnectLabels,
         ClientKinds, AcceptKinds, Kinds, NoCompletion, Completion
<1>4. \A t \in Threads : freeQueue[t] = <<>> /\ Len(freeQueue[t]) = 0
  OBVIOUS
<1>5. QueuedOnce /\ RetiredIsUnpublished /\ AllocatedInv /\ PublishedOnce
  BY <1>4 DEF QueuedOnce, RetiredIsUnpublished, Queued, AllocatedInv, PublishedOnce
<1>6. ConstructedInv /\ ScanInv
  BY DEF ConstructedInv, ScanInv
<1>7. AcceptHasOneOwner
  BY DEF AcceptHasOneOwner, AcceptOwners, AcceptLabels, NoCompletion, Completion
<1> QED
  BY <1>1, <1>2, <1>3, <1>5, <1>6, <1>7 DEF IInv, TypeOK

(* The invariant is inductive. *)
THEOREM Invariant == Spec => []IInv
<1>1. ASSUME IInv, [Next]_vars PROVE IInv'
  <2>1. TypeOK'
    BY <1>1, EbrTypeStep, NetTypeStep, TableTypeStep, ThreadTypeStep DEF TypeOK
  <2> QED
    BY <1>1, <2>1, KindStep, EpochStep, IdStep, AllocatedStep, AcceptStep, QueuedOnceStep,
       PublishedOnceStep, ConstructedStep, DisconnectStep, RetiredStep, ScanStep DEF IInv
<1> QED
  BY <1>1, InitIInv, PTL DEF Spec

(* Every variable has its type. *)
THEOREM TypeCorrect == Spec => []TypeOK
<1>1. IInv => TypeOK
  BY DEF IInv
<1> QED
  BY <1>1, Invariant, PTL

(* The accept socket and its OVERLAPPED are never shared, and never lost     *)
(* while ids are left.                                                       *)
THEOREM AcceptSocketHasOneOwner == Spec => []AcceptHasOneOwner
<1>1. IInv => AcceptHasOneOwner
  BY DEF IInv
<1> QED
  BY <1>1, Invariant, PTL

(* A session waiting for reuse is found by no lookup, except between the two *)
(* lines of disconnect that retire and unpublish it.                         *)
THEOREM RetiredSessionIsUnpublished == Spec => []RetiredIsUnpublished
<1>1. IInv => RetiredIsUnpublished
  BY DEF IInv
<1> QED
  BY <1>1, Invariant, PTL

(* The memory of a session is not reused under a thread that entered its     *)
(* epoch before the session was retired.                                     *)
THEOREM ReclaimIsSafe == Spec => ReclaimSafe
<1> DEFINE Safe ==
      \A t \in Threads, u \in Threads :
        LET o == Head(freeQueue[t])
        IN Reclaim(t) /\ o \notin twice /\ o \in held[u] => epochArray[u] >= stamp[o]
<1>1. ASSUME IInv PROVE Safe
  <2> SUFFICES ASSUME NEW t \in Threads, NEW u \in Threads, Reclaim(t),
                      Head(freeQueue[t]) \notin twice, Head(freeQueue[t]) \in held[u]
               PROVE  epochArray[u] >= stamp[Head(freeQueue[t])]
    OBVIOUS
  <2>1. pc[t] = "ac_scan" /\ scan[t] = N
    BY DEF Reclaim
  <2>2. u < scan[t]
    BY <2>1, ThreadsAssumption DEF Threads
  <2> QED
    BY <1>1, <2>1, <2>2 DEF IInv, ScanInv
<1>2. IInv => [Safe]_vars
  BY <1>1
<1> HIDE DEF Safe
<1>3. Spec => [][Safe]_vars
  BY <1>2, Invariant, PTL
<1> QED
  BY <1>3 DEF ReclaimSafe, Safe

(* An id that was given to a session is never given to another one, whatever *)
(* the interleaving: the accepting thread inserts under an id that has no    *)
(* entry yet, and nothing but disconnect touches an entry after that.        *)
THEOREM IdsAreNeverReused == Spec => IdNeverReused
<1> DEFINE Kept ==
      \A c \in Clients : sessions[c] # Absent => sessions'[c] \in {sessions[c], Null}
<1>1. ASSUME IInv, [Next]_vars PROVE Kept
  <2> SUFFICES ASSUME NEW c \in Clients, sessions[c] # Absent
               PROVE  sessions'[c] \in {sessions[c], Null}
    OBVIOUS
  <2>1. CASE UNCHANGED sessions
    BY <2>1
  <2>2. ASSUME NEW t \in Threads, InsertSession(t)
        PROVE  sessions'[c] \in {sessions[c], Null}
    BY <1>1, <2>2 DEF InsertSession, IInv, IdInv, AcceptLabels, TypeOK, TableTypeOK
  <2>3. ASSUME NEW t \in Threads, Unpublish(t)
        PROVE  sessions'[c] \in {sessions[c], Null}
    BY <1>1, <2>3 DEF Unpublish, IInv, TypeOK, TableTypeOK
  <2> QED
    BY <1>1, <2>1, <2>2, <2>3, TableFrame
<1>2. IInv /\ [Next]_vars => [Kept]_vars
  BY <1>1
<1> HIDE DEF Kept
<1>3. Spec => [][Kept]_vars
  BY <1>2, Invariant, PTL DEF Spec
<1> QED
  BY <1>3 DEF IdNeverReused, Kept

=============================================================================
