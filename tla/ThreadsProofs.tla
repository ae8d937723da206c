---------------------------- MODULE ThreadsProofs -----------------------------
(***************************************************************************)
(* Proofs about the two threads that work for the IOCP workers. Of the     *)
(* database's (Accounts), for any number of sessions, users and threads in *)
(* disconnect, and any width of the integers: whoever was alone in the     *)
(* game under a name, and got an answer to its login, comes back with the  *)
(* progress it left with, cut to int16_t. Of the timer's (TimerQueue), for *)
(* any number of events, any delays and any bound on the clock: its        *)
(* invariants, and that it implements DelayedDelivery.                     *)
(***************************************************************************)
EXTENDS Accounts, TimerQueue, SequenceTheorems, TLAPS

(* Where the login of a session is queued, and what it has been answered.    *)
Logins(c) ==
  {i \in Unfinished : TaskAt(i).op = "OP_DB_LOGIN" /\ TaskAt(i).client = c}
Answers(c) == {p \in Progress : posted[c][p] > 0}

Typed ==
  /\ TypeOK
  /\ dbPc \in {"run", "create"} => task \in Tasks
  /\ dbPc = "create" => task.op = "OP_DB_LOGIN"
  /\ leave[DbId].at # "idle" => dbPc = "disconnect"
  /\ \A t \in Threads :
       /\ leave[t].at # "idle" => leave[t].client \in Clients
       /\ leave[t].at \in {"read", "queued"} => leave[t].client \in saved
  /\ \A c \in Clients :
       /\ state[c] = "none" => name[c] = NoName
       /\ Logins(c) # {} \/ Answers(c) # {} \/ state[c] = "ST_INGAME" => name[c] \in Names
-----------------------------------------------------------------------------
(* What becomes of the places of the tasks.                                 *)

LEMMA Places ==
  ASSUME queue \in Seq(Tasks)
  PROVE  /\ Len(queue) \in Nat
         /\ Unfinished \subseteq 0 .. Len(queue)
         /\ 0 \in Unfinished <=> dbPc \in {"run", "create"}
         /\ \A i \in 1 .. Len(queue) : i \in Unfinished /\ queue[i] \in Tasks /\ TaskAt(i) = queue[i]
         /\ TaskAt(0) = task
         /\ \A c : Logins(c) \subseteq Unfinished
         /\ \A n : Updates(n) \subseteq Unfinished
BY DEF Unfinished, TaskAt, Logins, Updates

(* The database thread goes on without taking a task or being done with one. *)
LEMMA NoneDone ==
  ASSUME queue' = queue, task' = task,
         dbPc' \in {"run", "create"} <=> dbPc \in {"run", "create"}
  PROVE  /\ Unfinished' = Unfinished
         /\ \A i : TaskAt(i)' = TaskAt(i)
         /\ \A c : Logins(c)' = Logins(c)
         /\ \A n : Updates(n)' = Updates(n)
BY DEF Unfinished, TaskAt, Logins, Updates

(* A task is taken. *)
LEMMA OneTaken ==
  ASSUME queue \in Seq(Tasks), PopTask
  PROVE  /\ queue' \in Seq(Tasks)
         /\ task' \in Tasks
         /\ \A i \in Int : i \in Unfinished' <=> i + 1 \in Unfinished
         /\ \A i \in Unfinished' : TaskAt(i)' = TaskAt(i + 1)
         /\ \A c : \A i \in Int : i \in Logins(c)' <=> i + 1 \in Logins(c)
         /\ \A n : \A i \in Int : i \in Updates(n)' <=> i + 1 \in Updates(n)
<1>1. /\ queue # <<>> /\ dbPc = "pop" /\ dbPc' = "run"
      /\ task' = Head(queue) /\ queue' = Tail(queue)
  BY DEF PopTask
<1>2. /\ Len(queue) \in Nat \ {0} /\ queue' \in Seq(Tasks) /\ Len(queue') = Len(queue) - 1
      /\ task' = queue[1] /\ task' \in Tasks
      /\ \A i \in 1 .. Len(queue') : queue'[i] = queue[i + 1]
  BY <1>1, HeadTailProperties, EmptySeq, LenProperties
<1>3. Unfinished = 1 .. Len(queue) /\ Unfinished' = 0 .. (Len(queue) - 1)
  BY <1>1, <1>2 DEF Unfinished
<1>4. ASSUME NEW i \in Unfinished' PROVE TaskAt(i)' = TaskAt(i + 1)
  <2>1. CASE i = 0
    BY <1>2, <2>1 DEF TaskAt
  <2>2. CASE i # 0
    BY <1>2, <1>3, <2>2 DEF TaskAt
  <2> QED
    BY <2>1, <2>2
<1>5. \A i \in Int : i \in Unfinished' <=> i + 1 \in Unfinished
  BY <1>2, <1>3
<1>6. Unfinished \subseteq Int /\ Unfinished' \subseteq Int
  BY <1>2, <1>3
<1>7. \A c : \A i \in Int : i \in Logins(c)' <=> i + 1 \in Logins(c)
  BY <1>4, <1>5 DEF Logins
<1>8. \A n : \A i \in Int : i \in Updates(n)' <=> i + 1 \in Updates(n)
  BY <1>4, <1>5 DEF Updates
<1> QED
  BY <1>2, <1>4, <1>5, <1>7, <1>8

(* The database thread is done with its task, and nothing is queued. *)
LEMMA OneDone ==
  ASSUME queue \in Seq(Tasks), queue' = queue, task' = task, dbPc' \notin {"run", "create"}
  PROVE  /\ \A i \in Unfinished' : TaskAt(i)' = TaskAt(i)
         /\ \A c : Logins(c)' = Logins(c) \ {0}
         /\ \A n : Updates(n)' = Updates(n) \ {0}
<1>1. Unfinished' = Unfinished \ {0}
  BY LenProperties DEF Unfinished
<1>2. \A i : TaskAt(i)' = TaskAt(i)
  BY DEF TaskAt
<1> QED
  BY <1>1, <1>2 DEF Logins, Updates

(* A task is queued, maybe by the database thread when it is done with one.  *)
Done == IF dbPc' = dbPc THEN {} ELSE {0}

LEMMA OneQueued ==
  ASSUME queue \in Seq(Tasks), NEW ev \in Tasks, Push(ev), task' = task,
         dbPc' = dbPc \/ dbPc' = "pop"
  PROVE  /\ queue' \in Seq(Tasks)
         /\ \E k \in Nat :
              /\ k \notin Unfinished
              /\ \A i \in Unfinished : i < k
              /\ TaskAt(k)' = ev
              /\ \A i \in Unfinished : TaskAt(i)' = TaskAt(i)
              /\ \A c : Logins(c)' =
                   (Logins(c) \ Done) \union
                     (IF ev.op = "OP_DB_LOGIN" /\ ev.client = c THEN {k} ELSE {})
              /\ \A n : Updates(n)' =
                   (Updates(n) \ Done) \union
                     (IF ev.op = "OP_DB_UPDATE_USER_INFO" /\ ev.name = n THEN {k} ELSE {})
<1>0. Len(queue) \in Nat
  BY LenProperties
<1>1. PICK k \in Nat : k = Len(queue) + 1
  BY <1>0
<1>2. /\ queue' \in Seq(Tasks) /\ Len(queue') = k /\ queue'[k] = ev
      /\ \A i \in 1 .. Len(queue) : queue'[i] = queue[i]
  BY <1>0, <1>1, AppendProperties DEF Push
<1>3. /\ k # 0 /\ k \notin Unfinished
      /\ Unfinished \subseteq 0 .. Len(queue)
      /\ \A i \in Unfinished : i < k
  BY <1>0, <1>1 DEF Unfinished
<1>4. Unfinished' = (Unfinished \ Done) \union {k}
  BY <1>0, <1>1, <1>2 DEF Unfinished, Done
<1>5. TaskAt(k)' = ev
  BY <1>2, <1>3 DEF TaskAt
<1>6. \A i \in Unfinished : TaskAt(i)' = TaskAt(i)
  BY <1>0, <1>2, <1>3 DEF TaskAt
<1>7. ASSUME NEW c
      PROVE  Logins(c)' =
               (Logins(c) \ Done) \union
                 (IF ev.op = "OP_DB_LOGIN" /\ ev.client = c THEN {k} ELSE {})
  BY <1>3, <1>4, <1>5, <1>6 DEF Logins
<1>8. ASSUME NEW n
      PROVE  Updates(n)' =
               (Updates(n) \ Done) \union
                 (IF ev.op = "OP_DB_UPDATE_USER_INFO" /\ ev.name = n THEN {k} ELSE {})
  BY <1>3, <1>4, <1>5, <1>6 DEF Updates
<1> QED
  BY <1>2, <1>3, <1>5, <1>6, <1>7, <1>8

LEMMA LoginQueued ==
  ASSUME queue \in Seq(Tasks), NEW ev \in Tasks, ev.op = "OP_DB_LOGIN",
         Push(ev), task' = task, dbPc' = dbPc
  PROVE  /\ queue' \in Seq(Tasks)
         /\ \E k \in Nat :
              /\ \A i \in Unfinished : i < k /\ TaskAt(i)' = TaskAt(i)
              /\ Logins(ev.client)' = Logins(ev.client) \union {k}
              /\ \A c : c # ev.client => Logins(c)' = Logins(c)
              /\ \A n : Updates(n)' = Updates(n)
<1>1. Done = {} /\ ev.op # "OP_DB_UPDATE_USER_INFO"
  BY DEF Done
<1>2. /\ queue' \in Seq(Tasks)
      /\ \E k \in Nat :
           /\ k \notin Unfinished
           /\ \A i \in Unfinished : i < k
           /\ TaskAt(k)' = ev
           /\ \A i \in Unfinished : TaskAt(i)' = TaskAt(i)
           /\ \A c : Logins(c)' = (Logins(c) \ {}) \union (IF ev.client = c THEN {k} ELSE {})
           /\ \A n : Updates(n)' = (Updates(n) \ {}) \union {}
  BY <1>1, OneQueued
<1> QED
  BY <1>2

LEMMA UpdateQueued ==
  ASSUME queue \in Seq(Tasks), NEW ev \in Tasks, ev.op = "OP_DB_UPDATE_USER_INFO",
         Push(ev), task' = task, dbPc' = dbPc \/ dbPc' = "pop"
  PROVE  /\ queue' \in Seq(Tasks)
         /\ \E k \in Nat :
              /\ \A i \in Unfinished : i < k /\ TaskAt(i)' = TaskAt(i)
              /\ TaskAt(k)' = ev
              /\ \A c : Logins(c)' = Logins(c) \ Done
              /\ Updates(ev.name)' = (Updates(ev.name) \ Done) \union {k}
              /\ \A n : n # ev.name => Updates(n)' = Updates(n) \ Done
<1>1. ev.op # "OP_DB_LOGIN"
  OBVIOUS
<1>2. /\ queue' \in Seq(Tasks)
      /\ \E k \in Nat :
           /\ k \notin Unfinished
           /\ \A i \in Unfinished : i < k
           /\ TaskAt(k)' = ev
           /\ \A i \in Unfinished : TaskAt(i)' = TaskAt(i)
           /\ \A c : Logins(c)' = (Logins(c) \ Done) \union {}
           /\ \A n : Updates(n)' = (Updates(n) \ Done) \union (IF ev.name = n THEN {k} ELSE {})
  BY <1>1, OneQueued
<1> QED
  BY <1>2
-----------------------------------------------------------------------------
(* Numbers.                                                                 *)

(* What fits an int16_t is not changed by the cast; what does not comes out  *)
(* as a number that fits.                                                   *)
THEOREM ShortsFit ==
  /\ \A n \in -Half .. (Half - 1) : AsShort(n) = n
  /\ \A n \in Int : AsShort(n) \in -Half .. (Half - 1)
<1>1. ASSUME NEW k \in Nat \ {0}, NEW a \in 0 .. (k - 1) PROVE a % k = a
  BY <1>1, Z3
<1>2. ASSUME NEW k \in Nat \ {0}, NEW a \in Int PROVE a % k \in 0 .. (k - 1)
  BY <1>2, Z3
<1>3. 2 * Half \in Nat \ {0} /\ Half \in Nat
  BY AccountsAssumption
<1>4. ASSUME NEW n \in -Half .. (Half - 1) PROVE AsShort(n) = n
  <2>1. n + Half \in 0 .. (2 * Half - 1)
    BY <1>3
  <2>2. (n + Half) % (2 * Half) = n + Half
    BY <1>1, <1>3, <2>1
  <2> QED
    BY <1>3, <2>2 DEF AsShort
<1>5. ASSUME NEW n \in Int PROVE AsShort(n) \in -Half .. (Half - 1)
  <2>1. (n + Half) % (2 * Half) \in 0 .. (2 * Half - 1)
    BY <1>2, <1>3
  <2> QED
    BY <1>3, <2>1 DEF AsShort
<1> QED
  BY <1>4, <1>5

LEMMA Numbers ==
  /\ Fresh \in Progress /\ NoRow \notin Progress
  /\ \A p \in Progress : p < MaxProgress => p + 1 \in Progress
  /\ \A p \in Progress : Halved(p) \in Progress
  /\ \A p \in Progress : AsShort(p) \in Progress /\ AsShort(p) < Half
  /\ Fresh < Half /\ AsShort(Fresh) = Fresh
<1>1. Fresh \in Progress /\ NoRow \notin Progress
  BY AccountsAssumption DEF Fresh, Progress
<1>2. \A p \in Progress : p < MaxProgress => p + 1 \in Progress
  BY AccountsAssumption DEF Progress
<1>3. ASSUME NEW p \in Nat, NEW q \in Nat, p <= q PROVE p \div 2 \in Nat /\ p \div 2 <= q
  BY <1>3, Z3
<1>4. ASSUME NEW p \in Progress PROVE Halved(p) \in Progress
  <2>1. CASE p < 0
    <3>1. -p \in Nat /\ -p <= Half
      BY <2>1, AccountsAssumption DEF Progress
    <3>2. (-p) \div 2 \in Nat /\ (-p) \div 2 <= Half
      BY <1>3, <3>1, AccountsAssumption
    <3> QED
      BY <2>1, <3>2, AccountsAssumption DEF Halved, Progress
  <2>2. CASE ~(p < 0)
    <3>1. p \in Nat /\ p <= MaxProgress
      BY <2>2, AccountsAssumption DEF Progress
    <3>2. p \div 2 \in Nat /\ p \div 2 <= MaxProgress
      BY <1>3, <3>1, AccountsAssumption
    <3> QED
      BY <2>2, <3>2, AccountsAssumption DEF Halved, Progress
  <2> QED
    BY <2>1, <2>2
<1>5. ASSUME NEW p \in Progress PROVE AsShort(p) \in Progress /\ AsShort(p) < Half
  <2>1. AsShort(p) \in -Half .. (Half - 1) /\ (p < Half => AsShort(p) = p)
    BY ShortsFit, AccountsAssumption DEF Progress
  <2> QED
    BY <2>1, AccountsAssumption DEF Progress
<1>6. Fresh < Half /\ AsShort(Fresh) = Fresh
  BY ShortsFit, AccountsAssumption DEF Fresh
<1> QED
  BY <1>1, <1>2, <1>4, <1>5, <1>6

LEMMA TaskTypes ==
  ASSUME TypeOK
  PROVE  /\ \A c \in Clients :
              LoginTask(c) \in Tasks /\ LoginTask(c).op = "OP_DB_LOGIN" /\ LoginTask(c).client = c
         /\ \A c \in Clients, p \in Progress :
              /\ UpdateTask(c, p) \in Tasks
              /\ UpdateTask(c, p).op = "OP_DB_UPDATE_USER_INFO"
              /\ UpdateTask(c, p).name = name[c] /\ UpdateTask(c, p).info = p
BY Numbers DEF TypeOK, Tasks, LoginTask, UpdateTask

-----------------------------------------------------------------------------
(* Types.                                                                   *)

LEMMA TypedAtFirst == Init => Typed
<1> SUFFICES ASSUME Init PROVE Typed
  OBVIOUS
<1>1. queue = <<>> /\ hasTask = FALSE /\ adding = 0 /\ dbPc = "pop" /\ task = NoTask
  BY DEF Init, QueueInit
<1>2. queue \in Seq(Tasks) /\ \A c : Logins(c) = {}
  <2>1. Unfinished = {}
    BY <1>1 DEF Unfinished
  <2> QED
    BY <1>1, <2>1 DEF Logins
<1>3. /\ \A c \in Clients, p \in Progress : posted[c][p] = 0
      /\ \A c \in Clients : Answers(c) = {}
  BY DEF Init, Answers
<1>4. \A t \in Threads : leave[t] = NotLeaving
  BY DEF Init
<1>5. NotLeaving \in [at : {"idle", "found", "read", "queued"},
                      client : Clients \union {NoName}, info : Progress]
  BY Numbers DEF NotLeaving
<1>6. /\ leave \in [Threads -> [at : {"idle", "found", "read", "queued"},
                                client : Clients \union {NoName}, info : Progress]]
      /\ posted \in [Clients -> [Progress -> Nat]]
  BY <1>5 DEF Init
<1>7. state \in [Clients -> {"none", "ST_ALLOC", "ST_INGAME", "ST_FREE"}]
      /\ name \in [Clients -> Names \union {NoName}]
      /\ progress \in [Clients -> Progress]
      /\ row \in [Names -> Progress \union {NoRow}]
      /\ last \in [Names -> Progress]
  BY Numbers DEF Init
<1>8. TypeOK
  <2>1. \A c \in Clients, p \in Progress : posted[c][p] > 0 => p < Half
    BY <1>3
  <2>2. adding \in 0 .. MaxAdding
    BY <1>1, QueueAssumption
  <2>3. /\ again \subseteq Clients /\ saved \subseteq Clients
        /\ shared \subseteq Names /\ lost \subseteq Names
    BY DEF Init
  <2> QED
    BY <1>1, <1>2, <1>6, <1>7, <2>1, <2>2, <2>3 DEF TypeOK
<1>9. DbId \in Threads /\ NotLeaving.at = "idle"
  BY DEF Threads, NotLeaving
<1> QED
  BY <1>1, <1>2, <1>3, <1>4, <1>8, <1>9 DEF Typed, Init

(* What thread t does in disconnect, and what it leaves alone.              *)
LEMMA LeavingTyped ==
  ASSUME Typed, NEW t \in Threads, Leaving(t)
  PROVE  /\ Typed'
         /\ \A c : Logins(c)' = Logins(c)
<1> DEFINE c == leave[t].client
<1> USE DEF history, queueVars
<1>0. /\ TypeOK /\ queue \in Seq(Tasks)
      /\ leave[t] \in [at : {"idle", "found", "read", "queued"},
                       client : Clients \union {NoName}, info : Progress]
      /\ leave[t].at # "idle" => c \in Clients
  BY DEF Typed, TypeOK
<1>1. CASE ReadInfo(t)
  <2>1. /\ leave[t].at = "found" /\ c \in Clients
        /\ leave' = [leave EXCEPT ![t].at = "read", ![t].info = progress[c]]
        /\ saved' = saved \union {c}
        /\ last' = [m \in Names |-> IF m = name[c] THEN progress[c] ELSE last[m]]
        /\ lost' = lost \/ lost' = lost \union ({name[c]} \intersect Names)
        /\ UNCHANGED <<queueVars, state, name, progress, row, posted, again, shared>>
    BY <1>0, <1>1 DEF ReadInfo, get_user_info
  <2>2. progress[c] \in Progress
    BY <1>0, <2>1 DEF TypeOK
  <2>3. /\ leave' \in [Threads -> [at : {"idle", "found", "read", "queued"},
                                   client : Clients \union {NoName}, info : Progress]]
        /\ leave'[t].client = c /\ leave'[t].at = "read"
        /\ \A u \in Threads \ {t} : leave'[u] = leave[u]
    BY <1>0, <2>1, <2>2 DEF TypeOK
  <2>4. last' \in [Names -> Progress] /\ lost' \subseteq Names
    BY <1>0, <2>1, <2>2 DEF TypeOK
  <2>5. \A d : Logins(d)' = Logins(d)
    BY <2>1, NoneDone
  <2>6. \A d : Answers(d)' = Answers(d)
    BY <2>1 DEF Answers
  <2>7. TypeOK'
    BY <1>0, <2>1, <2>3, <2>4 DEF TypeOK
  <2>8. leave'[DbId].at # "idle" => dbPc' = "disconnect"
    BY <2>1, <2>3 DEF Typed, Threads
  <2> QED
    BY <2>1, <2>3, <2>5, <2>6, <2>7, <2>8 DEF Typed
<1>2. CASE QueueUpdate(t)
  <2>1. /\ leave[t].at = "read" /\ c \in Clients
        /\ leave' = [leave EXCEPT ![t].at = "queued", ![t].info = Fresh]
        /\ Push(UpdateTask(c, leave[t].info))
        /\ UNCHANGED <<hasTask, dbPc, task, state, name, progress, row, posted, again, history>>
    BY <1>0, <1>2 DEF QueueUpdate
  <2>2. /\ UpdateTask(c, leave[t].info) \in Tasks
        /\ UpdateTask(c, leave[t].info).op = "OP_DB_UPDATE_USER_INFO"
    BY <1>0, <2>1, TaskTypes
  <2>3. /\ leave' \in [Threads -> [at : {"idle", "found", "read", "queued"},
                                   client : Clients \union {NoName}, info : Progress]]
        /\ leave'[t].client = c
        /\ \A u \in Threads \ {t} : leave'[u] = leave[u]
    BY <1>0, <2>1, Numbers DEF TypeOK
  <2>4. queue' \in Seq(Tasks) /\ \A d : Logins(d)' = Logins(d) \ Done
    BY <1>0, <2>1, <2>2, UpdateQueued
  <2>5. Done = {} /\ adding' \in 0 .. MaxAdding
    BY <1>0, <2>1, QueueAssumption DEF Done, Push, TypeOK
  <2>6. \A d : Answers(d)' = Answers(d)
    BY <2>1 DEF Answers
  <2>7. TypeOK'
    BY <1>0, <2>1, <2>3, <2>4, <2>5 DEF TypeOK
  <2>8. leave'[DbId].at # "idle" => dbPc' = "disconnect"
    BY <2>1, <2>3 DEF Typed, Threads
  <2> QED
    BY <2>1, <2>3, <2>4, <2>5, <2>6, <2>7, <2>8 DEF Typed
<1>3. CASE Unpublish(t)
  <2>1. /\ leave[t].at = "queued" /\ c \in Clients
        /\ leave' = [leave EXCEPT ![t] = NotLeaving]
        /\ state' = [state EXCEPT ![c] = "ST_FREE"]
        /\ dbPc' = IF t = DbId THEN "pop" ELSE dbPc
        /\ UNCHANGED <<queue, hasTask, adding, task, name, progress, row, posted, again, history>>
    BY <1>0, <1>3 DEF Unpublish
  <2>2. NotLeaving \in [at : {"idle", "found", "read", "queued"},
                        client : Clients \union {NoName}, info : Progress]
        /\ NotLeaving.at = "idle"
    BY Numbers DEF NotLeaving
  <2>3. /\ leave' \in [Threads -> [at : {"idle", "found", "read", "queued"},
                                   client : Clients \union {NoName}, info : Progress]]
        /\ leave'[t] = NotLeaving
        /\ \A u \in Threads \ {t} : leave'[u] = leave[u]
    BY <1>0, <2>1, <2>2 DEF TypeOK
  <2>4. t = DbId => dbPc = "disconnect"
    BY <2>1 DEF Typed
  <2>5. \A d : Logins(d)' = Logins(d)
    BY <2>1, <2>4, NoneDone
  <2>6. \A d : Answers(d)' = Answers(d)
    BY <2>1 DEF Answers
  <2>7. state' \in [Clients -> {"none", "ST_ALLOC", "ST_INGAME", "ST_FREE"}]
        /\ \A d \in Clients : state'[d] = state[d] \/ state'[d] = "ST_FREE"
    BY <1>0, <2>1 DEF TypeOK
  <2>8. TypeOK'
    BY <1>0, <2>1, <2>3, <2>7 DEF TypeOK
  <2>9. leave'[DbId].at # "idle" => dbPc' = "disconnect"
    BY <2>1, <2>2, <2>3 DEF Typed, Threads
  <2>10. \A u \in Threads :
           /\ leave'[u].at # "idle" => leave'[u].client \in Clients
           /\ leave'[u].at \in {"read", "queued"} => leave'[u].client \in saved'
    BY <2>1, <2>2, <2>3 DEF Typed
  <2>11. dbPc' \in {"run", "create"} => dbPc' = dbPc
    BY <2>1
  <2> QED
    BY <2>1, <2>5, <2>6, <2>7, <2>8, <2>9, <2>10, <2>11 DEF Typed
<1> QED
  BY <1>1, <1>2, <1>3 DEF Leaving

(* A thread finds a session to take away. *)
LEMMA LookUpTyped ==
  ASSUME TypeOK, NEW t \in Threads, NEW c \in Clients, LookUp(t, c)
  PROVE  /\ leave' \in [Threads -> [at : {"idle", "found", "read", "queued"},
                                    client : Clients \union {NoName}, info : Progress]]
         /\ leave[t].at = "idle"
         /\ leave'[t].client = c /\ leave'[t].at = "found"
         /\ \A u \in Threads \ {t} : leave'[u] = leave[u]
         /\ shared \subseteq shared' /\ shared' \subseteq Names
BY Numbers DEF TypeOK, LookUp, SharedWith

(* An answer is on its way. *)
LEMMA ReplyTyped ==
  ASSUME TypeOK, NEW c \in Clients, NEW p \in Progress, Reply(c, p)
  PROVE  /\ posted' \in [Clients -> [Progress -> Nat]]
         /\ \A d \in Clients \ {c} : posted'[d] = posted[d] /\ Answers(d)' = Answers(d)
         /\ posted'[c][p] = posted[c][p] + 1
         /\ \A q \in Progress \ {p} : posted'[c][q] = posted[c][q]
         /\ Answers(c)' = Answers(c) \union {p}
<1>1. /\ posted' \in [Clients -> [Progress -> Nat]]
      /\ \A d \in Clients \ {c} : posted'[d] = posted[d]
      /\ posted'[c][p] = posted[c][p] + 1
      /\ \A q \in Progress \ {p} : posted'[c][q] = posted[c][q]
  BY DEF TypeOK, Reply
<1>2. posted[c][p] \in Nat
  BY DEF TypeOK
<1> QED
  BY <1>1, <1>2 DEF Answers

(* An answer has arrived. *)
LEMMA LoginTyped ==
  ASSUME TypeOK, NEW c \in Clients, Login(c)
  PROVE  \E p \in Progress :
           /\ p \in Answers(c)
           /\ posted' \in [Clients -> [Progress -> Nat]]
           /\ \A d \in Clients \ {c} : posted'[d] = posted[d] /\ Answers(d)' = Answers(d)
           /\ posted'[c][p] = posted[c][p] - 1
           /\ \A q \in Progress \ {p} : posted'[c][q] = posted[c][q]
           /\ IF Connected(c)
                THEN /\ state' = [state EXCEPT ![c] = "ST_INGAME"]
                     /\ progress' = [progress EXCEPT ![c] = p]
                ELSE UNCHANGED <<state, progress>>
           /\ UNCHANGED <<queueVars, name, row, leave, again, history>>
<1>1. PICK p \in Progress :
        /\ posted[c][p] > 0
        /\ posted' = [posted EXCEPT ![c][p] = @ - 1]
        /\ IF Connected(c)
             THEN /\ state' = [state EXCEPT ![c] = "ST_INGAME"]
                  /\ progress' = [progress EXCEPT ![c] = p]
             ELSE UNCHANGED <<state, progress>>
        /\ UNCHANGED <<queueVars, name, row, leave, again, history>>
  BY DEF Login
<1>2. posted[c][p] \in Nat /\ p \in Answers(c)
  BY <1>1 DEF TypeOK, Answers
<1>3. /\ posted' \in [Clients -> [Progress -> Nat]]
      /\ \A d \in Clients \ {c} : posted'[d] = posted[d]
      /\ posted'[c][p] = posted[c][p] - 1
      /\ \A q \in Progress \ {p} : posted'[c][q] = posted[c][q]
  BY <1>1, <1>2 DEF TypeOK
<1>4. \A d \in Clients \ {c} : Answers(d)' = Answers(d)
  BY <1>3 DEF Answers
<1> QED
  BY <1>1, <1>2, <1>3, <1>4

LEMMA TypeInvariant == Typed /\ [Next]_vars => Typed'
<1> SUFFICES ASSUME Typed, [Next]_vars PROVE Typed'
  OBVIOUS
<1>0. /\ TypeOK /\ queue \in Seq(Tasks) /\ (dbPc \in {"run", "create"} => 0 \in Unfinished)
      /\ DbId \in Threads /\ Workers \subseteq Threads /\ DbId \notin Workers
  BY Places, AccountsAssumption DEF Typed, TypeOK, Threads
<1> USE DEF history, queueVars
<1>1. ASSUME UNCHANGED <<task, state, name, progress, row, posted, leave, again, history>>,
             queue' = queue, dbPc' = dbPc, hasTask' \in BOOLEAN, adding' \in 0 .. MaxAdding
      PROVE  Typed'
  <2>1. (\A d : Logins(d)' = Logins(d)) /\ \A d : Answers(d)' = Answers(d)
    BY <1>1, NoneDone DEF Answers
  <2>2. TypeOK'
    BY <1>0, <1>1 DEF TypeOK
  <2> QED
    BY <1>1, <2>1, <2>2 DEF Typed
<1>2. ASSUME NEW c \in Clients, Worker(c) PROVE Typed'
  <2>1. CASE Connect(c)
    <3>1. (\A d : Logins(d)' = Logins(d)) /\ \A d : Answers(d)' = Answers(d)
      BY <2>1, NoneDone DEF Connect, Answers
    <3>2. TypeOK'
      BY <1>0, <2>1 DEF Connect, TypeOK
    <3>3. \A d \in Clients : state'[d] = state[d] \/ state'[d] = "ST_ALLOC"
      BY <1>0, <2>1 DEF Connect, TypeOK
    <3> QED
      BY <2>1, <3>1, <3>2, <3>3 DEF Connect, Typed
  <2>2. ASSUME NEW n \in Names, RequestLogin(c, n) PROVE Typed'
    <3>1. /\ LoginTask(c) \in Tasks /\ Push(LoginTask(c))
          /\ LoginTask(c).op = "OP_DB_LOGIN" /\ LoginTask(c).client = c
      BY <1>0, <2>2, TaskTypes DEF RequestLogin
    <3>2. /\ queue' \in Seq(Tasks)
          /\ \A d \in Clients : d # c => Logins(d)' = Logins(d)
      BY <1>0, <2>2, <3>1, LoginQueued DEF RequestLogin
    <3>3. \A d : Answers(d)' = Answers(d)
      BY <2>2 DEF RequestLogin, Answers
    <3>4. /\ name' \in [Clients -> Names \union {NoName}] /\ name'[c] = n
          /\ \A d \in Clients \ {c} : name'[d] = name[d]
      BY <1>0, <2>2 DEF RequestLogin, TypeOK
    <3>5. /\ adding' \in 0 .. MaxAdding /\ again' \subseteq Clients
          /\ shared' \subseteq Names /\ lost' \subseteq Names
      BY <1>0, <2>2, <3>1, QueueAssumption DEF RequestLogin, Push, SharedWith, TypeOK
    <3>6. /\ UNCHANGED <<hasTask, dbPc, task, state, progress, row, posted, leave, saved, last>>
          /\ state[c] # "none"
      BY <2>2 DEF RequestLogin, Connected
    <3>7. TypeOK'
      BY <1>0, <3>2, <3>4, <3>5, <3>6 DEF TypeOK
    <3> QED
      BY <3>2, <3>3, <3>4, <3>6, <3>7 DEF Typed
  <2>3. CASE Login(c)
    <3>1. PICK p \in Progress :
            /\ p \in Answers(c)
            /\ posted' \in [Clients -> [Progress -> Nat]]
            /\ \A d \in Clients \ {c} : posted'[d] = posted[d] /\ Answers(d)' = Answers(d)
            /\ posted'[c][p] = posted[c][p] - 1
            /\ \A q \in Progress \ {p} : posted'[c][q] = posted[c][q]
            /\ IF Connected(c)
                 THEN /\ state' = [state EXCEPT ![c] = "ST_INGAME"]
                      /\ progress' = [progress EXCEPT ![c] = p]
                 ELSE UNCHANGED <<state, progress>>
            /\ UNCHANGED <<queueVars, name, row, leave, again, history>>
      BY <1>0, <2>3, LoginTyped
    <3>2. \A d : Logins(d)' = Logins(d)
      BY <3>1, NoneDone
    <3>3. \A q \in Progress : posted[c][q] \in Nat /\ (posted'[c][q] > 0 => posted[c][q] > 0)
      <4>1. \A q \in Progress : posted[c][q] \in Nat
        BY <1>0 DEF TypeOK
      <4>2. posted[c][p] > 0
        BY <3>1 DEF Answers
      <4> QED
        BY <3>1, <4>1, <4>2
    <3>4. \A d \in Clients, q \in Progress : posted'[d][q] > 0 => q < Half
      BY <1>0, <3>1, <3>3 DEF TypeOK
    <3>5. /\ state' \in [Clients -> {"none", "ST_ALLOC", "ST_INGAME", "ST_FREE"}]
          /\ progress' \in [Clients -> Progress]
          /\ \A d \in Clients \ {c} : state'[d] = state[d]
          /\ state'[c] = "none" => state[c] = "none"
      BY <1>0, <3>1 DEF TypeOK
    <3>6. TypeOK'
      BY <1>0, <3>1, <3>4, <3>5 DEF TypeOK
    <3>7. name[c] \in Names
      BY <3>1 DEF Typed
    <3> QED
      BY <3>1, <3>2, <3>5, <3>6, <3>7 DEF Typed
  <2>4. CASE Play(c)
    <3>1. (\A d : Logins(d)' = Logins(d)) /\ \A d : Answers(d)' = Answers(d)
      BY <2>4, NoneDone DEF Play, Answers
    <3>2. progress' \in [Clients -> Progress]
      <4>1. progress[c] \in Progress
        BY <1>0 DEF TypeOK
      <4> QED
        BY <1>0, <2>4, <4>1, Numbers DEF Play, TypeOK
    <3>3. TypeOK'
      BY <1>0, <2>4, <3>2 DEF Play, TypeOK
    <3> QED
      BY <2>4, <3>1, <3>3 DEF Play, Typed
  <2>5. ASSUME NEW t \in Workers, Disconnect(t, c) PROVE Typed'
    <3>1. /\ t \in Threads /\ t # DbId /\ LookUp(t, c)
          /\ UNCHANGED <<queueVars, state, name, progress, row, posted, again, saved, last, lost>>
      BY <1>0, <2>5 DEF Disconnect
    <3>2. (\A d : Logins(d)' = Logins(d)) /\ \A d : Answers(d)' = Answers(d)
      BY <3>1, NoneDone DEF Answers
    <3>3. /\ leave' \in [Threads -> [at : {"idle", "found", "read", "queued"},
                                     client : Clients \union {NoName}, info : Progress]]
          /\ leave'[t].client = c /\ leave'[t].at = "found"
          /\ \A u \in Threads \ {t} : leave'[u] = leave[u]
          /\ shared' \subseteq Names
      BY <1>0, <3>1, LookUpTyped
    <3>4. TypeOK'
      BY <1>0, <3>1, <3>3 DEF TypeOK
    <3> QED
      BY <1>0, <3>1, <3>2, <3>3, <3>4 DEF Typed
  <2> QED
    BY <1>2, <2>1, <2>2, <2>3, <2>4, <2>5 DEF Worker
<1>3. CASE DbThread
  <2>0. PICK c \in Clients : c = task.client
    BY <1>3 DEF DbThread, FindUser, CreateUser, CreateFails, UpdateUser, Typed, Tasks
  <2>1. CASE dbPc = "run" /\ FindUser /\ Reply(c, AsShort(row[name[c]])) /\ DbDone
             /\ row[name[c]] # NoRow
    <3>1. 0 \in Logins(c)
      BY <1>0, <2>0, <2>1 DEF FindUser, Logins, TaskAt
    <3>2. name[c] \in Names
      BY <3>1 DEF Typed
    <3>3. AsShort(row[name[c]]) \in Progress /\ AsShort(row[name[c]]) < Half
      BY <1>0, <2>1, <3>2, Numbers DEF TypeOK
    <3>4. /\ posted' \in [Clients -> [Progress -> Nat]]
          /\ \A d \in Clients \ {c} : Answers(d)' = Answers(d)
          /\ Answers(c)' = Answers(c) \union {AsShort(row[name[c]])}
      BY <1>0, <2>1, <3>3, ReplyTyped
    <3>5. \A d : Logins(d)' \subseteq Logins(d)
      BY <1>0, <2>1, OneDone DEF FindUser, DbDone
    <3>6. \A d \in Clients, q \in Progress : posted'[d][q] > 0 => q < Half
      BY <1>0, <3>3, <3>4 DEF TypeOK, Answers
    <3>7. TypeOK'
      BY <1>0, <2>1, <3>4, <3>6 DEF TypeOK, FindUser, DbDone
    <3> QED
      BY <2>1, <3>2, <3>4, <3>5, <3>7 DEF Typed, FindUser, DbDone
  <2>2. CASE FindUser /\ dbPc' = "create" /\ UNCHANGED <<hasTask, task, posted>>
    <3>1. (\A d : Logins(d)' = Logins(d)) /\ \A d : Answers(d)' = Answers(d)
      BY <2>2, NoneDone DEF FindUser, Answers
    <3>2. TypeOK'
      BY <1>0, <2>2 DEF FindUser, TypeOK
    <3> QED
      BY <2>2, <3>1, <3>2 DEF FindUser, Typed
  <2>3. CASE CreateUser
    <3>1. /\ Reply(c, Fresh) /\ row' = [row EXCEPT ![name[c]] = Fresh] /\ DbDone
          /\ dbPc = "create"
          /\ UNCHANGED <<queue, adding, state, name, progress, leave, again, history>>
      BY <2>0, <2>3 DEF CreateUser
    <3>2. 0 \in Logins(c)
      BY <1>0, <2>0, <3>1 DEF Logins, TaskAt, Typed
    <3>3. name[c] \in Names
      BY <3>2 DEF Typed
    <3>4. /\ posted' \in [Clients -> [Progress -> Nat]]
          /\ \A d \in Clients \ {c} : Answers(d)' = Answers(d)
          /\ Answers(c)' = Answers(c) \union {Fresh}
      BY <1>0, <3>1, Numbers, ReplyTyped
    <3>5. \A d : Logins(d)' \subseteq Logins(d)
      BY <1>0, <3>1, OneDone DEF DbDone
    <3>6. \A d \in Clients, q \in Progress : posted'[d][q] > 0 => q < Half
      <4>1. \A d \in Clients, q \in Progress : q \in Answers(d)' => q < Half
        <5>1. \A d \in Clients, q \in Progress : q \in Answers(d) => q < Half
          BY <1>0 DEF TypeOK, Answers
        <5> QED
          BY <3>4, <5>1, Numbers
      <4> QED
        BY <4>1 DEF Answers
    <3>7. row' \in [Names -> Progress \union {NoRow}]
      BY <1>0, <3>1, Numbers DEF TypeOK
    <3>8. TypeOK'
      BY <1>0, <3>1, <3>4, <3>6, <3>7 DEF TypeOK, DbDone
    <3> QED
      BY <3>1, <3>3, <3>4, <3>5, <3>8 DEF Typed, DbDone
  <2>4. CASE CreateFails
    <3>1. /\ dbPc = "create" /\ dbPc' \in {"pop", "disconnect"}
          /\ UNCHANGED <<queue, hasTask, adding, task>>
          /\ UNCHANGED <<state, name, progress, row, posted, again, saved, last, lost>>
      BY <2>4 DEF CreateFails
    <3>2. (\A d : Logins(d)' \subseteq Logins(d)) /\ \A d : Answers(d)' = Answers(d)
      BY <1>0, <3>1, OneDone DEF Answers
    <3>3. /\ leave' \in [Threads -> [at : {"idle", "found", "read", "queued"},
                                     client : Clients \union {NoName}, info : Progress]]
          /\ \A u \in Threads : leave'[u] = leave[u] \/ (leave'[u].client = c /\ leave'[u].at = "found")
          /\ shared' \subseteq Names
      <4>1. CASE LookUp(DbId, c)
        BY <1>0, <4>1, LookUpTyped
      <4>2. CASE UNCHANGED <<leave, shared>>
        BY <1>0, <4>2 DEF TypeOK
      <4> QED
        BY <2>0, <2>4, <4>1, <4>2 DEF CreateFails
    <3>4. leave'[DbId].at # "idle" => dbPc' = "disconnect"
      <4>1. leave[DbId].at = "idle"
        BY <3>1 DEF Typed
      <4> QED
        BY <2>4, <4>1 DEF CreateFails
    <3>5. TypeOK'
      BY <1>0, <3>1, <3>3 DEF TypeOK
    <3> QED
      BY <3>1, <3>2, <3>3, <3>4, <3>5 DEF Typed
  <2>5. CASE UpdateUser
    <3>1. /\ dbPc = "run" /\ DbDone
          /\ UNCHANGED <<queue, adding, state, name, progress, posted, leave, again, saved, last, shared>>
          /\ lost' \subseteq Names
          /\ row' = row \/ row' = [row EXCEPT ![task.name] = task.info]
      BY <1>0, <2>5 DEF UpdateUser, TypeOK
    <3>2. task.info \in Progress
      BY <3>1 DEF Typed, Tasks
    <3>3. (\A d : Logins(d)' \subseteq Logins(d)) /\ \A d : Answers(d)' = Answers(d)
      BY <1>0, <3>1, OneDone DEF DbDone, Answers
    <3>4. TypeOK'
      BY <1>0, <3>1, <3>2 DEF TypeOK, DbDone
    <3> QED
      BY <3>1, <3>3, <3>4 DEF Typed, DbDone
  <2> QED
    BY <1>3, <2>0, <2>1, <2>2, <2>3, <2>4, <2>5 DEF DbThread, FindUser
<1>4. CASE Waiting
  <2>1. CASE PopTask
    <3>1. /\ queue' \in Seq(Tasks) /\ task' \in Tasks
          /\ \A d : \A i \in Int : i \in Logins(d)' => i + 1 \in Logins(d)
      BY <1>0, <2>1, OneTaken
    <3>2. \A d : Logins(d)' \subseteq Int
      BY DEF Logins, Unfinished
    <3>3. \A d : Logins(d)' # {} => Logins(d) # {}
      BY <3>1, <3>2
    <3>4. \A d : Answers(d)' = Answers(d)
      BY <1>4 DEF Waiting, Answers
    <3>5. /\ dbPc = "pop" /\ dbPc' = "run" /\ UNCHANGED <<hasTask, adding>>
          /\ UNCHANGED <<state, name, progress, row, posted, leave, again, history>>
      BY <1>4, <2>1 DEF Waiting, PopTask
    <3>6. TypeOK'
      BY <1>0, <3>1, <3>5 DEF TypeOK
    <3> QED
      BY <3>1, <3>3, <3>4, <3>5, <3>6 DEF Typed
  <2>2. CASE Signal
    <3>1. adding' \in 0 .. MaxAdding
      BY <1>0, <2>2, QueueAssumption DEF TypeOK, Signal
    <3> QED
      BY <1>1, <1>4, <2>2, <3>1 DEF Waiting, Signal
  <2>3. CASE PopNothing \/ StoreFalse \/ WaitReturns
    <3>1. \A d : Logins(d)' = Logins(d)
      BY <2>3, NoneDone DEF PopNothing, StoreFalse, WaitReturns
    <3>2. \A d : Answers(d)' = Answers(d)
      BY <1>4 DEF Waiting, Answers
    <3>3. /\ adding' = adding /\ queue' = queue /\ task' = task
          /\ dbPc # "disconnect" /\ dbPc' \in {"pop", "store", "wait"}
      BY <2>3 DEF PopNothing, StoreFalse, WaitReturns
    <3>4. hasTask' = hasTask \/ hasTask' = FALSE
      BY <2>3 DEF PopNothing, StoreFalse, WaitReturns
    <3>5. UNCHANGED <<state, name, progress, row, posted, leave, again, history>>
      BY <1>4 DEF Waiting
    <3>6. TypeOK'
      BY <1>0, <3>3, <3>4, <3>5 DEF TypeOK
    <3> QED
      BY <3>1, <3>2, <3>3, <3>5, <3>6 DEF Typed
  <2> QED
    BY <1>4, <2>1, <2>2, <2>3 DEF Waiting, QueueStep
<1>5. CASE UNCHANGED vars
  BY <1>0, <1>1, <1>5 DEF vars, TypeOK
<1>6. ASSUME NEW t \in Threads, Leaving(t) PROVE Typed'
  BY <1>6, LeavingTyped
<1> QED
  BY <1>2, <1>3, <1>4, <1>5, <1>6 DEF Next, GameOver

(* Every variable has its type, and what a login is answered fits int16_t,   *)
(* whether the row was there or has just been made.                         *)
THEOREM TypeCorrect == Spec => []TypeOK
<1>1. Typed => TypeOK
  BY DEF Typed
<1> QED
  BY <1>1, TypedAtFirst, TypeInvariant, PTL DEF Spec

(* A user once beyond the promise stays there. *)
LEMMA BeyondStays == [Next]_vars => shared \subseteq shared' /\ lost \subseteq lost'
<1> SUFFICES ASSUME [Next]_vars PROVE shared \subseteq shared' /\ lost \subseteq lost'
  OBVIOUS
<1> USE DEF history, SharedWith
<1>1. ASSUME NEW c \in Clients, Worker(c) PROVE shared \subseteq shared' /\ lost \subseteq lost'
  BY <1>1 DEF Worker, Connect, RequestLogin, Login, Play, Disconnect, LookUp
<1>2. ASSUME NEW t \in Threads, Leaving(t) PROVE shared \subseteq shared' /\ lost \subseteq lost'
  BY <1>2 DEF Leaving, ReadInfo, QueueUpdate, Unpublish
<1>3. CASE DbThread
  BY <1>3 DEF DbThread, FindUser, CreateUser, CreateFails, UpdateUser, LookUp
<1>4. CASE Waiting \/ UNCHANGED vars
  BY <1>4 DEF Waiting, vars
<1> QED
  BY <1>1, <1>2, <1>3, <1>4 DEF Next, GameOver
-----------------------------------------------------------------------------
(* The login of a session within the promise is queued or answered once,     *)
(* disconnect has not read its progress before that, and from the answer on  *)
(* its user has a row.                                                      *)

OneLogin(c) ==
  name[c] \in Names \ lost =>
    /\ \A i, j \in Logins(c) : i = j
    /\ Logins(c) # {} => Answers(c) = {}
    /\ \A p, q \in Answers(c) : p = q /\ posted[c][p] = 1
    /\ Logins(c) # {} \/ Answers(c) # {} => state[c] = "ST_ALLOC"
    /\ state[c] = "ST_ALLOC" => c \notin saved
    /\ Answers(c) # {} \/ state[c] # "ST_ALLOC" => row[name[c]] # NoRow
LoginsAreOne == \A c \in Clients : OneLogin(c)

(* Sessions that are not part of a step. *)
LEMMA OneLoginStays ==
  ASSUME NEW c \in Clients, OneLogin(c), lost \subseteq lost', name'[c] = name[c],
         \A i \in Logins(c)', j \in Logins(c)' : name[c] \notin lost => i = j,
         Logins(c)' # {} => Logins(c) # {},
         posted'[c] = posted[c], state'[c] = state[c],
         c \in saved' => c \in saved,
         name[c] \in Names /\ row[name[c]] # NoRow => row'[name[c]] # NoRow
  PROVE  OneLogin(c)'
<1>1. Answers(c)' = Answers(c)
  BY DEF Answers
<1> QED
  BY <1>1 DEF OneLogin

LEMMA LoginsStayOne == Typed /\ LoginsAreOne /\ [Next]_vars => LoginsAreOne'
<1> SUFFICES ASSUME Typed, LoginsAreOne, [Next]_vars, NEW d \in Clients PROVE OneLogin(d)'
  BY DEF LoginsAreOne
<1>0. /\ TypeOK /\ queue \in Seq(Tasks) /\ OneLogin(d)
      /\ shared \subseteq shared' /\ lost \subseteq lost'
      /\ (dbPc \in {"run", "create"} => 0 \in Unfinished)
  BY BeyondStays, Places DEF Typed, TypeOK, LoginsAreOne
<1> USE DEF history, queueVars
<1>1. ASSUME Logins(d)' \subseteq Logins(d), name'[d] = name[d], row' = row,
             posted'[d] = posted[d], state'[d] = state[d], d \in saved' => d \in saved
      PROVE  OneLogin(d)'
  <2>1. \A i \in Logins(d)', j \in Logins(d)' : name[d] \notin lost => i = j
    <3>1. CASE name[d] \in Names
      BY <1>0, <1>1, <3>1 DEF OneLogin
    <3>2. CASE name[d] \notin Names
      BY <1>0, <1>1, <3>2 DEF Typed
    <3> QED
      BY <3>1, <3>2
  <2> QED
    BY <1>0, <1>1, <2>1, OneLoginStays
<1>2. ASSUME NEW c \in Clients, Worker(c) PROVE OneLogin(d)'
  <2>1. CASE Connect(c)
    <3>1. Logins(d)' = Logins(d)
      BY <2>1, NoneDone DEF Connect
    <3>2. CASE c = d
      <4>1. name'[d] = NoName
        BY <2>1, <3>2 DEF Connect, Typed
      <4> QED
        BY <4>1, AccountsAssumption DEF OneLogin
    <3>3. CASE c # d
      BY <1>0, <1>1, <2>1, <3>1, <3>3 DEF Connect, TypeOK
    <3> QED
      BY <3>2, <3>3
  <2>2. ASSUME NEW n \in Names, RequestLogin(c, n) PROVE OneLogin(d)'
    <3>1. LoginTask(c) \in Tasks /\ LoginTask(c).op = "OP_DB_LOGIN" /\ LoginTask(c).client = c
      BY <1>0, TaskTypes
    <3>2. PICK k \in Nat : /\ Logins(c)' = Logins(c) \union {k}
                           /\ \A b : b # c => Logins(b)' = Logins(b)
      BY <1>0, <2>2, <3>1, LoginQueued DEF RequestLogin
    <3>3. UNCHANGED <<posted, state, row, saved>> /\ Connected(c)
      BY <2>2 DEF RequestLogin
    <3>4. CASE d = c
      <4>1. name'[c] = n
        BY <1>0, <2>2 DEF RequestLogin, TypeOK
      <4>2. CASE name[c] # NoName \/ c \in saved
        <5>1. n \in lost'
          BY <2>2, <4>2 DEF RequestLogin
        <5> QED
          BY <3>4, <4>1, <5>1 DEF OneLogin
      <4>3. CASE name[c] = NoName /\ c \notin saved
        <5>1. Logins(c) = {} /\ Answers(c) = {} /\ state[c] # "ST_INGAME"
          BY <4>3, AccountsAssumption DEF Typed
        <5>2. Answers(c)' = {} /\ state'[c] = "ST_ALLOC"
          BY <3>3, <5>1 DEF Answers, Connected
        <5> QED
          BY <3>2, <3>3, <3>4, <4>3, <5>1, <5>2 DEF OneLogin
      <4> QED
        BY <4>2, <4>3
    <3>5. CASE d # c
      <4>1. name'[d] = name[d]
        BY <1>0, <2>2, <3>5 DEF RequestLogin, TypeOK
      <4> QED
        BY <1>1, <3>2, <3>3, <3>5, <4>1
    <3> QED
      BY <3>4, <3>5
  <2>3. CASE Login(c)
    <3>1. PICK p \in Progress :
            /\ p \in Answers(c)
            /\ posted' \in [Clients -> [Progress -> Nat]]
            /\ \A b \in Clients \ {c} : posted'[b] = posted[b]
            /\ posted'[c][p] = posted[c][p] - 1
            /\ \A q \in Progress \ {p} : posted'[c][q] = posted[c][q]
            /\ IF Connected(c) THEN state' = [state EXCEPT ![c] = "ST_INGAME"] ELSE state' = state
            /\ UNCHANGED <<queueVars, name, row, leave, again, history>>
      BY <1>0, <2>3, LoginTyped
    <3>2. Logins(d)' = Logins(d)
      BY <3>1, NoneDone
    <3>3. CASE d = c
      <4> SUFFICES ASSUME name[c] \in Names \ lost PROVE OneLogin(c)'
        BY <3>1, <3>3 DEF OneLogin
      <4>1. /\ Logins(c) = {} /\ state[c] = "ST_ALLOC" /\ posted[c][p] = 1
            /\ \A q \in Answers(c) : q = p
            /\ row[name[c]] # NoRow
        BY <1>0, <3>1, <3>3 DEF OneLogin
      <4>2. Answers(c)' = {}
        <5>1. posted'[c][p] = 0
          BY <3>1, <4>1
        <5>2. \A q \in Progress \ {p} : ~(posted'[c][q] > 0)
          BY <3>1, <4>1 DEF Answers
        <5> QED
          BY <5>1, <5>2 DEF Answers
      <4>3. state'[c] = "ST_INGAME"
        BY <1>0, <3>1, <4>1 DEF Connected, TypeOK
      <4> QED
        BY <3>1, <3>2, <3>3, <4>1, <4>2, <4>3 DEF OneLogin
    <3>4. CASE d # c
      <4>1. state'[d] = state[d]
        BY <1>0, <3>1, <3>4 DEF TypeOK
      <4> QED
        BY <1>1, <3>1, <3>2, <3>4, <4>1
    <3> QED
      BY <3>3, <3>4
  <2>4. CASE Play(c) \/ \E t \in Workers : Disconnect(t, c)
    <3>1. Logins(d)' = Logins(d)
      BY <2>4, NoneDone DEF Play, Disconnect
    <3> QED
      BY <1>1, <2>4, <3>1 DEF Play, Disconnect
  <2> QED
    BY <1>2, <2>1, <2>2, <2>3, <2>4 DEF Worker
<1>3. ASSUME NEW t \in Threads, Leaving(t) PROVE OneLogin(d)'
  <2>1. Logins(d)' = Logins(d)
    BY <1>3, LeavingTyped
  <2>2. CASE ReadInfo(t)
    <3>1. CASE d = leave[t].client
      <4>1. /\ UNCHANGED <<name, posted, state, row>> /\ saved' = saved \union {d}
            /\ state[d] = "ST_ALLOC" /\ name[d] \in Names => name[d] \in lost'
        BY <2>2, <3>1 DEF ReadInfo
      <4>2. Answers(d)' = Answers(d)
        BY <4>1 DEF Answers
      <4> QED
        BY <1>0, <2>1, <4>1, <4>2 DEF OneLogin
    <3>2. CASE d # leave[t].client
      BY <1>1, <2>1, <2>2, <3>2 DEF ReadInfo
    <3> QED
      BY <3>1, <3>2
  <2>3. CASE QueueUpdate(t)
    BY <1>1, <2>1, <2>3 DEF QueueUpdate
  <2>4. CASE Unpublish(t)
    <3>1. CASE d = leave[t].client
      <4>1. /\ UNCHANGED <<name, posted, row, saved, lost>> /\ state'[d] = "ST_FREE"
        BY <1>0, <2>4, <3>1 DEF Unpublish, TypeOK
      <4>2. Answers(d)' = Answers(d)
        BY <4>1 DEF Answers
      <4>3. d \in saved
        BY <2>4, <3>1 DEF Unpublish, Typed
      <4> QED
        BY <1>0, <2>1, <4>1, <4>2, <4>3 DEF OneLogin
    <3>2. CASE d # leave[t].client
      BY <1>0, <1>1, <2>1, <2>4, <3>2 DEF Unpublish, TypeOK
    <3> QED
      BY <3>1, <3>2
  <2> QED
    BY <1>3, <2>2, <2>3, <2>4 DEF Leaving
<1>4. CASE DbThread
  <2>0. PICK b \in Clients : b = task.client
    BY <1>4 DEF DbThread, FindUser, CreateUser, CreateFails, UpdateUser, Typed, Tasks
  <2>1. CASE \/ /\ FindUser /\ row[name[b]] # NoRow
                /\ Reply(b, AsShort(row[name[b]])) /\ DbDone
             \/ CreateUser
    <3>1. /\ Logins(d)' = Logins(d) \ {0} /\ UNCHANGED <<state, name, saved, lost>>
      BY <1>0, <2>1, OneDone DEF FindUser, CreateUser, DbDone
    <3>2. 0 \in Logins(b)
      BY <1>0, <2>0, <2>1, Places DEF FindUser, CreateUser, Logins, Typed
    <3>3. name[b] \in Names /\ row'[name[b]] # NoRow
      <4>1. name[b] \in Names
        BY <3>2 DEF Typed
      <4> QED
        BY <1>0, <2>0, <2>1, <4>1, Numbers DEF FindUser, CreateUser, TypeOK
    <3>4. PICK i \in Progress : Reply(b, i)
      <4>1. row[name[b]] # NoRow => AsShort(row[name[b]]) \in Progress
        BY <1>0, <3>3, Numbers DEF TypeOK
      <4> QED
        BY <2>0, <2>1, <4>1, Numbers DEF FindUser, CreateUser
    <3>5. \A u \in Names : row[u] # NoRow => row'[u] # NoRow
      BY <1>0, <2>0, <2>1, <3>3, Numbers DEF FindUser, CreateUser, TypeOK
    <3>6. /\ \A a \in Clients \ {b} : posted'[a] = posted[a]
          /\ posted'[b][i] = posted[b][i] + 1
          /\ Answers(b)' = Answers(b) \union {i}
      BY <1>0, <3>4, ReplyTyped
    <3>7. CASE d = b
      <4> SUFFICES ASSUME name[b] \in Names \ lost PROVE OneLogin(b)'
        BY <3>1, <3>7 DEF OneLogin
      <4>1. /\ Logins(b)' = {} /\ Answers(b) = {}
            /\ state[b] = "ST_ALLOC" /\ b \notin saved
        BY <1>0, <3>1, <3>2, <3>7 DEF OneLogin
      <4>2. posted[b][i] \in Nat /\ ~(posted[b][i] > 0)
        BY <1>0, <4>1 DEF Answers, TypeOK
      <4>3. posted'[b][i] = 1 /\ Answers(b)' = {i}
        BY <3>6, <4>1, <4>2
      <4> QED
        BY <3>1, <3>3, <3>7, <4>1, <4>3 DEF OneLogin
    <3>8. CASE d # b
      <4>1. \A j \in Logins(d)', k \in Logins(d)' : name[d] \notin lost => j = k
        <5>1. Logins(d)' # {} => name[d] \in Names
          BY <3>1 DEF Typed
        <5> QED
          BY <1>0, <3>1, <5>1 DEF OneLogin
      <4> QED
        BY <1>0, <3>1, <3>5, <3>6, <3>8, <4>1, OneLoginStays
    <3> QED
      BY <3>7, <3>8
  <2>2. CASE FindUser /\ dbPc' = "create" /\ UNCHANGED <<hasTask, task, posted>>
    <3>1. Logins(d)' = Logins(d)
      BY <2>2, NoneDone DEF FindUser
    <3> QED
      BY <1>1, <2>2, <3>1 DEF FindUser
  <2>3. CASE CreateFails
    <3>1. Logins(d)' \subseteq Logins(d)
      BY <1>0, <2>3, OneDone DEF CreateFails
    <3> QED
      BY <1>1, <2>3, <3>1 DEF CreateFails
  <2>4. CASE UpdateUser
    <3>1. Logins(d)' \subseteq Logins(d)
      BY <1>0, <2>4, OneDone DEF UpdateUser, DbDone
    <3>2. UNCHANGED <<posted, name, state, saved>>
      BY <2>4 DEF UpdateUser
    <3>3. \A u \in Names : row[u] # NoRow => row'[u] # NoRow
      <4>1. row'= row \/ row' = [row EXCEPT ![task.name] = task.info]
        BY <2>4 DEF UpdateUser
      <4>2. task.info \in Progress
        BY <2>4 DEF UpdateUser, Typed, Tasks
      <4> QED
        BY <1>0, <4>1, <4>2, Numbers DEF TypeOK
    <3>4. \A i \in Logins(d)', j \in Logins(d)' : name[d] \notin lost => i = j
      <4>1. Logins(d)' # {} => name[d] \in Names
        BY <3>1 DEF Typed
      <4> QED
        BY <1>0, <3>1, <4>1 DEF OneLogin
    <3> QED
      BY <1>0, <3>1, <3>2, <3>3, <3>4, OneLoginStays
  <2> QED
    BY <1>4, <2>0, <2>1, <2>2, <2>3, <2>4 DEF DbThread, FindUser
<1>5. CASE Waiting
  <2>0. UNCHANGED <<state, name, progress, row, posted, leave, again, history>>
    BY <1>5 DEF Waiting
  <2>1. CASE PopTask
    <3>1. \A i \in Int : i \in Logins(d)' <=> i + 1 \in Logins(d)
      BY <1>0, <2>1, OneTaken
    <3>2. Logins(d)' \subseteq Int
      BY DEF Logins, Unfinished
    <3>3. \A i \in Logins(d)' : i \in Int /\ i + 1 \in Logins(d)
      BY <3>1, <3>2
    <3>4. ASSUME NEW i \in Logins(d)', NEW j \in Logins(d)', name[d] \notin lost PROVE i = j
      <4>1. name[d] \in Names
        BY <3>3, <3>4 DEF Typed
      <4>2. i + 1 = j + 1 /\ i \in Int /\ j \in Int
        BY <1>0, <3>3, <3>4, <4>1 DEF OneLogin
      <4> QED
        BY <4>2
    <3> QED
      BY <1>0, <2>0, <3>3, <3>4, OneLoginStays
  <2>2. CASE Signal \/ PopNothing \/ StoreFalse \/ WaitReturns
    <3>1. Logins(d)' = Logins(d)
      BY <2>2, NoneDone DEF Signal, PopNothing, StoreFalse, WaitReturns
    <3> QED
      BY <1>1, <2>0, <3>1
  <2> QED
    BY <1>5, <2>1, <2>2 DEF Waiting, QueueStep
<1>6. CASE UNCHANGED vars
  <2>1. Logins(d)' = Logins(d)
    BY <1>6, NoneDone DEF vars
  <2> QED
    BY <1>1, <1>6, <2>1 DEF vars
<1> QED
  BY <1>2, <1>3, <1>4, <1>5, <1>6 DEF Next, GameOver
-----------------------------------------------------------------------------
(* A user with one session at a time.                                       *)

Alone ==
  \A c, d \in Clients :
    Present(c) /\ Present(d) /\ name[c] = name[d] /\ name[c] \in Names =>
      c = d \/ name[c] \in shared

(* Nobody is present now as a user who was not there before as that user. *)
LEMMA AloneStays ==
  ASSUME Alone, shared \subseteq shared',
         \A c \in Clients : Present(c)' /\ name'[c] \in Names => Present(c) /\ name[c] = name'[c]
  PROVE  Alone'
BY DEF Alone

(* A session comes, or comes back, as a user. *)
LEMMA AloneStaysWith ==
  ASSUME Alone, shared \subseteq shared', NEW c \in Clients,
         \A d \in Clients \ {c} : (Present(d)' => Present(d)) /\ name'[d] = name[d],
         shared' = SharedWith(c, name'[c])
  PROVE  Alone'
BY DEF Alone, SharedWith

LEMMA AloneIsKept == Typed /\ Alone /\ [Next]_vars => Alone'
<1> SUFFICES ASSUME Typed, Alone, [Next]_vars PROVE Alone'
  OBVIOUS
<1>0. /\ TypeOK /\ shared \subseteq shared' /\ Workers \subseteq Threads /\ DbId \in Threads
  BY BeyondStays DEF Typed, Threads
<1> USE DEF history, queueVars
<1>1. ASSUME UNCHANGED <<state, name, saved, leave>> PROVE Alone'
  BY <1>0, <1>1, AloneStays DEF Present, BeingLeft, Leaves, Connected
<1>2. ASSUME NEW c \in Clients, NEW t \in Threads, LookUp(t, c), UNCHANGED <<state, name, saved>>
      PROVE  Alone'
  <2>1. /\ leave'[t].client = c /\ leave'[t].at = "found" /\ leave[t].at = "idle"
        /\ \A u \in Threads \ {t} : leave'[u] = leave[u]
    BY <1>0, <1>2, LookUpTyped
  <2>2. \A d \in Clients \ {c} : Present(d)' => Present(d)
    BY <1>2, <2>1 DEF Present, BeingLeft, Leaves, Connected
  <2>3. shared' = SharedWith(c, name'[c])
    BY <1>2 DEF LookUp
  <2> QED
    BY <1>0, <1>2, <2>2, <2>3, AloneStaysWith
<1>3. ASSUME NEW c \in Clients, Worker(c) PROVE Alone'
  <2>1. CASE Connect(c)
    <3>1. \A d \in Clients : Present(d)' /\ name'[d] \in Names => Present(d) /\ name[d] = name'[d]
      <4>1. /\ state' = [state EXCEPT ![c] = "ST_ALLOC"] /\ state[c] = "none"
            /\ UNCHANGED <<name, saved, leave>>
        BY <2>1 DEF Connect
      <4>2. name[c] \notin Names
        BY <4>1, AccountsAssumption DEF Typed
      <4>3. \A d \in Clients : d # c => (Present(d)' <=> Present(d))
        BY <1>0, <4>1 DEF TypeOK, Present, BeingLeft, Leaves, Connected
      <4> QED
        BY <4>1, <4>2, <4>3
    <3> QED
      BY <1>0, <3>1, AloneStays
  <2>2. ASSUME NEW n \in Names, RequestLogin(c, n) PROVE Alone'
    <3>1. /\ name' = [name EXCEPT ![c] = n] /\ UNCHANGED <<state, saved, leave>>
          /\ shared' = SharedWith(c, n)
      BY <2>2 DEF RequestLogin
    <3>2. name'[c] = n /\ \A d \in Clients \ {c} : name'[d] = name[d]
      BY <1>0, <3>1 DEF TypeOK
    <3>3. \A d \in Clients : Present(d)' <=> Present(d)
      BY <3>1 DEF Present, BeingLeft, Leaves, Connected
    <3> QED
      BY <1>0, <3>1, <3>2, <3>3, AloneStaysWith
  <2>3. CASE Login(c)
    <3>1. /\ UNCHANGED <<name, saved, leave>>
          /\ state' = state \/ (Connected(c) /\ state' = [state EXCEPT ![c] = "ST_INGAME"])
      BY <2>3 DEF Login
    <3>2. \A d \in Clients : Connected(d)' => Connected(d)
      BY <1>0, <3>1 DEF TypeOK, Connected
    <3> QED
      BY <1>0, <3>1, <3>2, AloneStays DEF Present, BeingLeft, Leaves
  <2>4. CASE Play(c)
    BY <1>1, <2>4 DEF Play
  <2>5. ASSUME NEW t \in Workers, Disconnect(t, c) PROVE Alone'
    BY <1>0, <1>2, <2>5 DEF Disconnect
  <2> QED
    BY <1>3, <2>1, <2>2, <2>3, <2>4, <2>5 DEF Worker
<1>4. ASSUME NEW t \in Threads, Leaving(t) PROVE Alone'
  <2>1. /\ name' = name /\ saved \subseteq saved'
        /\ \A d \in Clients : Connected(d)' => Connected(d)
    BY <1>0, <1>4 DEF Leaving, ReadInfo, QueueUpdate, Unpublish, TypeOK, Connected
  <2>2. \A d \in Clients, u \in Threads : Leaves(u, d)' => Leaves(u, d)
    <3>1. \A u \in Threads \ {t} : leave'[u] = leave[u]
      BY <1>0, <1>4 DEF Leaving, ReadInfo, QueueUpdate, Unpublish, TypeOK
    <3>2. CASE ReadInfo(t)
      BY <1>0, <3>1, <3>2 DEF ReadInfo, Leaves, TypeOK
    <3>3. CASE QueueUpdate(t) \/ Unpublish(t)
      <4>1. leave'[t].at \notin {"found", "read"}
        <5>1. CASE QueueUpdate(t)
          BY <1>0, <5>1 DEF QueueUpdate, TypeOK
        <5>2. CASE Unpublish(t)
          BY <1>0, <5>2 DEF Unpublish, TypeOK, NotLeaving
        <5> QED
          BY <3>3, <5>1, <5>2
      <4> QED
        BY <3>1, <4>1 DEF Leaves
    <3> QED
      BY <1>4, <3>2, <3>3 DEF Leaving
  <2>3. \A d \in Clients : Present(d)' => Present(d)
    BY <2>1, <2>2 DEF Present, BeingLeft
  <2> QED
    BY <1>0, <2>1, <2>3, AloneStays
<1>5. CASE DbThread
  <2>1. CASE FindUser \/ CreateUser \/ UpdateUser
    BY <1>1, <2>1 DEF FindUser, CreateUser, UpdateUser
  <2>2. CASE CreateFails
    <3>1. UNCHANGED <<state, name, saved>> /\ task.client \in Clients
      BY <2>2 DEF CreateFails, Typed, Tasks
    <3>2. LookUp(DbId, task.client) \/ leave' = leave
      BY <2>2 DEF CreateFails
    <3> QED
      BY <1>0, <1>1, <1>2, <3>1, <3>2
  <2> QED
    BY <1>5, <2>1, <2>2 DEF DbThread
<1>6. CASE Waiting \/ UNCHANGED vars
  BY <1>1, <1>6 DEF Waiting, vars
<1> QED
  BY <1>3, <1>4, <1>5, <1>6 DEF Next, GameOver

-----------------------------------------------------------------------------
(* The row of a user within the promise: what is queued for it ends with     *)
(* what was read last of it, unless that has still to be queued; the login  *)
(* of whoever is in the game is behind all of that, and is answered with    *)
(* the same.                                                                *)

InStep(n) ==
  /\ row[n] = NoRow => Updates(n) = {} /\ last[n] = Fresh
  /\ row[n] # NoRow /\ ~Owed(n) /\ Updates(n) = {} => row[n] = last[n]
  /\ ~Owed(n) =>
       \A i \in Updates(n) :
         (\A j \in Updates(n) : j <= i) => TaskAt(i).info = last[n]
  /\ \A t \in Threads :
       leave[t].at = "read" /\ name[leave[t].client] = n => leave[t].info = last[n]
  /\ \A c \in Clients :
       name[c] = n =>
         /\ \A i \in Logins(c) : ~Owed(n) /\ \A j \in Updates(n) : j < i
         /\ \A p \in Answers(c) : p = AsShort(last[n])
RowsInStep == \A n \in Names \ (shared \union lost) : InStep(n)

(* The threads that have read the progress of user n, and what they read.    *)
Debts(n) == {t \in Threads : leave[t].at = "read" /\ name[leave[t].client] = n}

(* What a step leaves as it is, but for the places of the tasks. *)
LEMMA InStepStays ==
  ASSUME NEW n \in Names, InStep(n), row'[n] = row[n], last'[n] = last[n],
         NEW s \in {0, 1},
         \A i \in Updates(n)' :
           i \in Int /\ i + s \in Updates(n) /\ TaskAt(i)' = TaskAt(i + s),
         \A i \in Updates(n) : i \in Int /\ i - s \in Updates(n)',
         Debts(n)' = Debts(n),
         \A t \in Debts(n) : leave'[t].info = leave[t].info,
         \A c \in Clients :
           name'[c] = n =>
             /\ name[c] = n
             /\ \A i \in Logins(c)' : i \in Int /\ i + s \in Logins(c)
             /\ Answers(c)' \subseteq Answers(c)
  PROVE  InStep(n)'
<1>1. Updates(n)' = {} <=> Updates(n) = {}
  OBVIOUS
<1>2. Owed(n)' <=> Owed(n)
  <2>1. Owed(n) <=> Debts(n) # {}
    BY DEF Owed, Debts
  <2>2. Owed(n)' <=> Debts(n)' # {}
    BY DEF Owed, Debts
  <2> QED
    BY <2>1, <2>2
<1>3. ASSUME NEW i \in Updates(n)', \A j \in Updates(n)' : j <= i, ~Owed(n)'
      PROVE  TaskAt(i)'.info = last'[n]
  <2>1. \A j \in Updates(n) : j <= i + s
    BY <1>3
  <2> QED
    BY <1>2, <1>3, <2>1 DEF InStep
<1>4. ASSUME NEW c \in Clients, name'[c] = n
      PROVE  /\ \A i \in Logins(c)' : ~Owed(n)' /\ \A j \in Updates(n)' : j < i
             /\ \A p \in Answers(c)' : p = AsShort(last'[n])
  <2>1. ASSUME NEW i \in Logins(c)', NEW j \in Updates(n)' PROVE j < i
    <3>1. j + s < i + s /\ i \in Int /\ j \in Int
      BY <1>4, <2>1 DEF InStep
    <3> QED
      BY <3>1
  <2> QED
    BY <1>2, <1>4, <2>1 DEF InStep
<1>5. ASSUME NEW t \in Threads, leave'[t].at = "read", name'[leave'[t].client] = n
      PROVE  leave'[t].info = last'[n]
  <2>1. t \in Debts(n)
    BY <1>5 DEF Debts
  <2>2. leave[t].info = last[n]
    BY <2>1 DEF Debts, InStep
  <2> QED
    BY <2>1, <2>2
<1> QED
  BY <1>1, <1>2, <1>3, <1>4, <1>5 DEF InStep

(* The queue is left alone. *)
LEMMA InStepAway ==
  ASSUME Typed, NEW n \in Names, InStep(n), row'[n] = row[n], last'[n] = last[n],
         Updates(n)' = Updates(n),
         \A i \in Updates(n) : TaskAt(i)' = TaskAt(i),
         Debts(n)' = Debts(n),
         \A t \in Debts(n) : leave'[t].info = leave[t].info,
         \A c \in Clients :
           name'[c] = n =>
             /\ name[c] = n
             /\ Logins(c)' \subseteq Logins(c)
             /\ Answers(c)' \subseteq Answers(c)
  PROVE  InStep(n)'
<1>1. Updates(n) \subseteq Int /\ \A c \in Clients : Logins(c) \subseteq Int
  BY Places DEF Typed, TypeOK, Unfinished
<1>2. \A i \in Int : i + 0 = i /\ i - 0 = i
  OBVIOUS
<1> QED
  BY <1>1, <1>2, InStepStays

(* A thread reads what it is to write back, or queues it. *)
LEMMA InStepOfLeave ==
  ASSUME Typed, LoginsAreOne, Alone, NEW n \in Names, InStep(n), n \notin shared, n \notin lost',
         lost \subseteq lost', NEW t \in Threads, Leaving(t)
  PROVE  InStep(n)'
<1> DEFINE c == leave[t].client
<1> USE DEF history, queueVars
<1>0. /\ TypeOK /\ queue \in Seq(Tasks)
      /\ leave[t].at # "idle" => c \in Clients
      /\ leave[t].info \in Progress
      /\ \A u \in Threads : leave[u].at # "idle" => leave[u].client \in Clients
  BY DEF Typed, TypeOK
<1>1. \A d : Logins(d)' = Logins(d)
  BY LeavingTyped
<1>2. /\ UNCHANGED <<name, row, posted, task>>
      /\ \A u \in Threads \ {t} : leave'[u] = leave[u]
  BY <1>0 DEF Leaving, ReadInfo, QueueUpdate, Unpublish, TypeOK
<1>3. \A d : Answers(d)' = Answers(d)
  BY <1>2 DEF Answers
<1>4. Updates(n) \subseteq Int /\ Updates(n) \subseteq Unfinished
  BY <1>0, Places DEF Unfinished
<1>5. CASE ReadInfo(t)
  <2>1. /\ leave[t].at = "found" /\ c \in Clients
        /\ leave' = [leave EXCEPT ![t].at = "read", ![t].info = progress[c]]
        /\ last' = [m \in Names |-> IF m = name[c] THEN progress[c] ELSE last[m]]
        /\ state[c] = "ST_ALLOC" \/ (c \in saved /\ last' # last) =>
             {name[c]} \intersect Names \subseteq lost'
        /\ UNCHANGED queueVars
    BY <1>0, <1>5 DEF ReadInfo, get_user_info
  <2>2. /\ Updates(n)' = Updates(n)
        /\ \A i : TaskAt(i)' = TaskAt(i)
    BY <2>1, NoneDone
  <2>3. leave'[t].at = "read" /\ leave'[t].client = c /\ leave'[t].info = progress[c]
    BY <1>0, <2>1 DEF TypeOK
  <2>4. CASE name[c] # n
    <3>1. last'[n] = last[n]
      BY <2>1, <2>4
    <3>2. Debts(n)' = Debts(n)
      BY <1>2, <2>1, <2>3, <2>4 DEF Debts
    <3>3. \A u \in Debts(n) : leave'[u].info = leave[u].info
      BY <1>2, <2>1 DEF Debts
    <3> QED
      BY <1>1, <1>2, <1>3, <2>2, <3>1, <3>2, <3>3, InStepAway
  <2>5. CASE name[c] = n
    <3>1. state[c] # "ST_ALLOC" /\ (c \in saved => last' = last) /\ last'[n] = progress[c]
      BY <2>1, <2>5
    <3>2. Present(c)
      BY <2>1 DEF Present, BeingLeft, Leaves
    <3>3. Owed(n)'
      BY <1>2, <2>3, <2>5 DEF Owed
    <3>4. row'[n] # NoRow
      BY <1>2, <2>1, <2>5, <3>1 DEF LoginsAreOne, OneLogin
    <3>5. ASSUME NEW u \in Threads, leave'[u].at = "read", name'[leave'[u].client] = n
          PROVE  leave'[u].info = last'[n]
      <4>1. CASE u = t
        BY <2>3, <3>1, <4>1
      <4>2. CASE u # t
        <5>1. leave'[u] = leave[u] /\ leave[u].client \in Clients /\ name[leave[u].client] = n
          BY <1>0, <1>2, <3>5, <4>2
        <5>2. Present(leave[u].client)
          BY <3>5, <5>1 DEF Present, BeingLeft, Leaves
        <5>3. leave[u].client = c
          BY <2>1, <2>5, <3>2, <5>1, <5>2 DEF Alone
        <5>4. c \in saved
          BY <3>5, <5>1, <5>3 DEF Typed
        <5> QED
          BY <3>1, <3>5, <5>1, <5>4 DEF InStep
      <4> QED
        BY <4>1, <4>2
    <3>6. ASSUME NEW d \in Clients, name'[d] = n PROVE Logins(d)' = {} /\ Answers(d)' = {}
      <4>1. name[d] = n
        BY <1>2, <3>6
      <4>2. ASSUME Logins(d) # {} \/ Answers(d) # {} PROVE FALSE
        <5>1. state[d] = "ST_ALLOC" /\ d \notin saved
          BY <4>1, <4>2 DEF LoginsAreOne, OneLogin
        <5>2. Present(d)
          BY <5>1 DEF Present, Connected
        <5>3. d = c
          BY <2>1, <2>5, <3>2, <4>1, <5>2 DEF Alone
        <5> QED
          BY <3>1, <5>1, <5>3
      <4> QED
        BY <1>1, <1>3, <4>2
    <3> QED
      BY <3>3, <3>4, <3>5, <3>6 DEF InStep
  <2> QED
    BY <2>4, <2>5
<1>6. CASE QueueUpdate(t)
  <2>1. /\ leave[t].at = "read" /\ c \in Clients
        /\ leave' = [leave EXCEPT ![t].at = "queued", ![t].info = Fresh]
        /\ Push(UpdateTask(c, leave[t].info))
        /\ UNCHANGED <<task, dbPc, last>>
    BY <1>0, <1>6 DEF QueueUpdate
  <2>2. PICK ev \in Tasks :
          /\ ev.op = "OP_DB_UPDATE_USER_INFO" /\ ev.name = name[c] /\ ev.info = leave[t].info
          /\ Push(ev)
    BY <1>0, <2>1, TaskTypes
  <2>3. PICK k \in Nat :
          /\ \A i \in Unfinished : i < k /\ TaskAt(i)' = TaskAt(i)
          /\ TaskAt(k)' = ev
          /\ Updates(ev.name)' = (Updates(ev.name) \ Done) \union {k}
          /\ \A u : u # ev.name => Updates(u)' = Updates(u) \ Done
    BY <1>0, <2>1, <2>2, UpdateQueued
  <2>4. Done = {}
    BY <2>1 DEF Done
  <2>5. leave'[t].at = "queued"
    BY <1>0, <2>1 DEF TypeOK
  <2>6. CASE name[c] # n
    <3>1. Updates(n)' = Updates(n)
      BY <2>2, <2>3, <2>4, <2>6
    <3>2. Debts(n)' = Debts(n)
      BY <1>2, <2>5, <2>6 DEF Debts
    <3>3. \A u \in Debts(n) : leave'[u].info = leave[u].info
      BY <1>2, <2>6 DEF Debts
    <3>4. last'[n] = last[n] /\ row'[n] = row[n] /\ \A i \in Updates(n) : TaskAt(i)' = TaskAt(i)
      BY <1>2, <1>4, <2>1, <2>3
    <3> QED
      BY <1>1, <1>2, <1>3, <3>1, <3>2, <3>3, <3>4, InStepAway
  <2>7. CASE name[c] = n
    <3>0. Updates(n)' = Updates(n) \union {k}
      BY <2>2, <2>3, <2>4, <2>7
    <3>1. leave[t].info = last[n] /\ Owed(n)
      BY <2>1, <2>7 DEF InStep, Owed
    <3>2. row'[n] # NoRow
      <4>1. c \in saved
        BY <2>1 DEF Typed
      <4> QED
        BY <1>2, <2>1, <2>7, <4>1 DEF LoginsAreOne, OneLogin
    <3>3. ASSUME NEW i \in Updates(n)', \A j \in Updates(n)' : j <= i
          PROVE  TaskAt(i)'.info = last'[n]
      <4>1. k <= i /\ (i \in Updates(n) \/ i = k)
        BY <3>0, <3>3
      <4>2. i \in Updates(n) => i \in Int /\ i < k
        BY <1>4, <2>3
      <4>3. i = k
        BY <4>1, <4>2
      <4> QED
        BY <2>1, <2>2, <2>3, <3>1, <4>3
    <3>4. Updates(n)' # {}
      BY <3>0
    <3>5. ASSUME NEW u \in Threads, leave'[u].at = "read", name'[leave'[u].client] = n
          PROVE  leave'[u].info = last'[n]
      BY <1>2, <2>1, <2>5, <3>5 DEF InStep
    <3>6. \A d \in Clients : name'[d] = n =>
            Logins(d)' = {} /\ \A p \in Answers(d)' : p = AsShort(last'[n])
      BY <1>1, <1>2, <1>3, <2>1, <3>1 DEF InStep
    <3> QED
      BY <3>2, <3>3, <3>4, <3>5, <3>6 DEF InStep
  <2> QED
    BY <2>6, <2>7
<1>7. CASE Unpublish(t)
  <2>1. /\ leave[t].at = "queued" /\ leave' = [leave EXCEPT ![t] = NotLeaving]
        /\ dbPc' = IF t = DbId THEN "pop" ELSE dbPc
        /\ UNCHANGED <<queue, task, last>>
    BY <1>7 DEF Unpublish
  <2>2. t = DbId => dbPc = "disconnect"
    BY <2>1 DEF Typed
  <2>3. /\ Updates(n)' = Updates(n)
        /\ \A i : TaskAt(i)' = TaskAt(i)
    BY <2>1, <2>2, NoneDone
  <2>4. leave'[t].at = "idle"
    BY <1>0, <2>1 DEF TypeOK, NotLeaving
  <2>5. Debts(n)' = Debts(n)
    BY <1>2, <2>1, <2>4 DEF Debts
  <2>6. \A u \in Debts(n) : leave'[u].info = leave[u].info
    BY <1>2, <2>1 DEF Debts
  <2> QED
    BY <1>1, <1>2, <1>3, <2>1, <2>3, <2>5, <2>6, InStepAway
<1> QED
  BY <1>5, <1>6, <1>7 DEF Leaving

(* A session asks for the row of a user. *)
LEMMA InStepOfRequest ==
  ASSUME Typed, LoginsAreOne, Alone, NEW n \in Names, InStep(n),
         n \notin shared', n \notin lost', lost \subseteq lost', shared \subseteq shared',
         NEW c \in Clients, NEW u \in Names, RequestLogin(c, u)
  PROVE  InStep(n)'
<1> USE DEF history, queueVars
<1>0. TypeOK /\ queue \in Seq(Tasks) /\ NoName \notin Names
  BY AccountsAssumption DEF Typed, TypeOK
<1>1. LoginTask(c) \in Tasks /\ LoginTask(c).op = "OP_DB_LOGIN" /\ LoginTask(c).client = c
  BY <1>0, TaskTypes
<1>2. PICK k \in Nat : /\ \A i \in Unfinished : i < k /\ TaskAt(i)' = TaskAt(i)
                       /\ Logins(c)' = Logins(c) \union {k}
                       /\ \A b : b # c => Logins(b)' = Logins(b)
                       /\ \A v : Updates(v)' = Updates(v)
  BY <1>0, <1>1, LoginQueued DEF RequestLogin
<1>3. /\ UNCHANGED <<posted, state, row, leave, last>>
      /\ name' = [name EXCEPT ![c] = u]
      /\ shared' = SharedWith(c, u)
      /\ name[c] # NoName \/ BeingLeft(c) => {u, name[c]} \intersect Names \subseteq lost'
  BY DEF RequestLogin
<1>4. /\ name'[c] = u /\ \A d \in Clients \ {c} : name'[d] = name[d]
      /\ \A d : Answers(d)' = Answers(d)
  BY <1>0, <1>3 DEF TypeOK, Answers
<1>5. Updates(n) \subseteq Unfinished /\ \A i \in Updates(n) : i < k /\ TaskAt(i)' = TaskAt(i)
  BY <1>0, <1>2, Places
<1>6. name[c] # n
  BY <1>0, <1>3
<1>7. CASE n # u
  <2>1. \A d \in Clients : name'[d] = n => d # c /\ name[d] = n
    BY <1>4, <1>7
  <2>2. \A d \in Clients : name[d] = n => d # c /\ name'[d] = n
    BY <1>4, <1>6
  <2>3. Debts(n)' = Debts(n)
    BY <1>3, <2>1, <2>2 DEF Debts, Typed
  <2> QED
    BY <1>2, <1>3, <1>4, <1>5, <2>1, <2>3, InStepAway
<1>8. CASE n = u
  <2>1. name[c] = NoName /\ ~BeingLeft(c)
    BY <1>3, <1>8
  <2>2. \A d \in Clients \ {c} : Present(d) => name[d] # n
    BY <1>3, <1>8 DEF SharedWith
  <2>3. ASSUME NEW t \in Threads, leave'[t].at = "read", name'[leave'[t].client] = n
        PROVE  FALSE
    <3>1. leave[t].at = "read" /\ leave[t].client \in Clients
      BY <1>3, <2>3 DEF Typed
    <3>2. Leaves(t, leave[t].client)
      BY <3>1 DEF Leaves
    <3>3. leave[t].client # c /\ Present(leave[t].client)
      BY <2>1, <3>2 DEF BeingLeft, Present
    <3> QED
      BY <1>3, <1>4, <2>2, <2>3, <3>1, <3>3
  <2>4. ~Owed(n)'
    BY <2>3 DEF Owed
  <2>5. ~Owed(n)
    <3>1. ASSUME NEW t \in Threads, leave[t].at = "read", name[leave[t].client] = n PROVE FALSE
      <4>1. leave[t].client \in Clients /\ leave[t].client # c
        BY <1>6, <3>1 DEF Typed
      <4> QED
        BY <1>3, <1>4, <2>3, <3>1, <4>1
    <3> QED
      BY <3>1 DEF Owed
  <2>6. Logins(c) = {} /\ Answers(c) = {}
    BY <1>0, <2>1 DEF Typed
  <2>7. ASSUME NEW d \in Clients, name'[d] = n
        PROVE  /\ \A i \in Logins(d)', j \in Updates(n)' : j < i
               /\ \A p \in Answers(d)' : p = AsShort(last'[n])
    <3>1. CASE d = c
      BY <1>2, <1>4, <1>5, <2>6, <3>1
    <3>2. CASE d # c
      BY <1>2, <1>3, <1>4, <2>7, <3>2 DEF InStep
    <3> QED
      BY <3>1, <3>2
  <2>8. \A i \in Updates(n)' : (\A j \in Updates(n)' : j <= i) => TaskAt(i)'.info = last'[n]
    BY <1>2, <1>3, <1>5, <2>5 DEF InStep
  <2>9. /\ row'[n] = NoRow => Updates(n)' = {} /\ last'[n] = Fresh
        /\ row'[n] # NoRow /\ Updates(n)' = {} => row'[n] = last'[n]
    BY <1>2, <1>3, <2>5 DEF InStep
  <2> QED
    BY <2>3, <2>4, <2>7, <2>8, <2>9 DEF InStep
<1> QED
  BY <1>7, <1>8

LEMMA RowsStayInStep ==
  Typed /\ LoginsAreOne /\ Alone /\ RowsInStep /\ [Next]_vars => RowsInStep'
<1> SUFFICES ASSUME Typed, LoginsAreOne, Alone, RowsInStep, [Next]_vars,
                    NEW n \in Names, n \notin shared', n \notin lost'
             PROVE  InStep(n)'
  BY DEF RowsInStep
<1>0. /\ TypeOK /\ queue \in Seq(Tasks)
      /\ shared \subseteq shared' /\ lost \subseteq lost'
      /\ (dbPc \in {"run", "create"} => 0 \in Unfinished)
  BY BeyondStays, Places DEF Typed, TypeOK
<1>1. n \notin shared /\ n \notin lost
  BY <1>0
<1>2. InStep(n)
  BY <1>1 DEF RowsInStep
<1>3. Updates(n) \subseteq Int /\ \A c \in Clients : Logins(c) \subseteq Int
  BY <1>0, Places DEF Unfinished
<1> USE DEF history, queueVars
<1>4. ASSUME UNCHANGED <<row, last, name>>,
             Updates(n)' = Updates(n), \A i \in Updates(n) : TaskAt(i)' = TaskAt(i),
             \A c : Logins(c)' \subseteq Logins(c),
             \A c \in Clients : Answers(c)' \subseteq Answers(c),
             \A t \in Threads : leave'[t] = leave[t] \/ (leave[t].at = "idle" /\ leave'[t].at = "found")
      PROVE  InStep(n)'
  <2>1. Debts(n)' = Debts(n)
    <3>1. \A t \in Threads : leave[t].at = "read" <=> leave'[t].at = "read"
      BY <1>4
    <3>2. \A t \in Threads : leave[t].at = "read" => leave'[t] = leave[t]
      BY <1>4
    <3> QED
      BY <1>4, <3>1, <3>2 DEF Debts
  <2>2. \A t \in Debts(n) : leave'[t].info = leave[t].info
    BY <1>4 DEF Debts
  <2> QED
    BY <1>2, <1>4, <2>1, <2>2, InStepAway
<1>5. ASSUME NEW c \in Clients, NEW t \in Threads, LookUp(t, c)
      PROVE  \A u \in Threads :
               leave'[u] = leave[u] \/ (leave[u].at = "idle" /\ leave'[u].at = "found")
  BY <1>0, <1>5, LookUpTyped
<1>6. ASSUME NEW c \in Clients, Worker(c) PROVE InStep(n)'
  <2>1. CASE Connect(c) \/ Play(c)
    <3>1. /\ Updates(n)' = Updates(n)
          /\ \A i : TaskAt(i)' = TaskAt(i)
          /\ \A d : Logins(d)' = Logins(d)
      BY <2>1, NoneDone DEF Connect, Play
    <3>2. UNCHANGED <<row, last, name, leave, posted>>
      BY <2>1 DEF Connect, Play
    <3> QED
      BY <1>4, <3>1, <3>2 DEF Answers
  <2>2. ASSUME NEW u \in Names, RequestLogin(c, u) PROVE InStep(n)'
    BY <1>0, <1>2, <2>2, InStepOfRequest
  <2>3. CASE Login(c)
    <3>1. PICK p \in Progress :
            /\ p \in Answers(c)
            /\ \A d \in Clients \ {c} : Answers(d)' = Answers(d)
            /\ posted'[c][p] = posted[c][p] - 1
            /\ \A q \in Progress \ {p} : posted'[c][q] = posted[c][q]
            /\ UNCHANGED <<queueVars, name, row, leave, again, history>>
      BY <1>0, <2>3, LoginTyped
    <3>2. /\ Updates(n)' = Updates(n)
          /\ \A i : TaskAt(i)' = TaskAt(i)
          /\ \A d : Logins(d)' = Logins(d)
      BY <3>1, NoneDone
    <3>3. Answers(c)' \subseteq Answers(c)
      <4>1. \A q \in Progress \ {p} : q \in Answers(c)' => q \in Answers(c)
        BY <3>1 DEF Answers
      <4> QED
        BY <3>1, <4>1 DEF Answers
    <3> QED
      BY <1>4, <3>1, <3>2, <3>3
  <2>4. ASSUME NEW t \in Workers, Disconnect(t, c) PROVE InStep(n)'
    <3>1. /\ Updates(n)' = Updates(n)
          /\ \A i : TaskAt(i)' = TaskAt(i)
          /\ \A d : Logins(d)' = Logins(d)
      BY <2>4, NoneDone DEF Disconnect
    <3>2. t \in Threads /\ LookUp(t, c) /\ UNCHANGED <<row, last, name, posted>>
      BY <2>4 DEF Disconnect, Threads
    <3> QED
      BY <1>4, <1>5, <3>1, <3>2 DEF Answers
  <2> QED
    BY <1>6, <2>1, <2>2, <2>3, <2>4 DEF Worker
<1>7. ASSUME NEW t \in Threads, Leaving(t) PROVE InStep(n)'
  BY <1>0, <1>1, <1>2, <1>7, InStepOfLeave
<1>8. CASE DbThread
  <2>0. ASSUME dbPc' \notin {"run", "create"}, task' = task, queue' = queue
        PROVE  /\ Updates(n)' = Updates(n) \ {0}
               /\ \A i \in Updates(n)' : TaskAt(i)' = TaskAt(i)
               /\ \A d : Logins(d)' = Logins(d) \ {0}
    <3>1. /\ \A i \in Unfinished' : TaskAt(i)' = TaskAt(i)
          /\ \A d : Logins(d)' = Logins(d) \ {0}
          /\ \A u : Updates(u)' = Updates(u) \ {0}
      BY <1>0, <2>0, OneDone
    <3>2. Updates(n)' \subseteq Unfinished'
      BY DEF Updates
    <3> QED
      BY <3>1, <3>2
  <2>01. task.op = "OP_DB_LOGIN" => 0 \notin Updates(n)
    BY DEF Updates, TaskAt
  <2>02. PICK b \in Clients : b = task.client
    BY <1>8 DEF DbThread, FindUser, CreateUser, CreateFails, UpdateUser, Typed, Tasks
  <2>1. CASE \/ /\ FindUser /\ row[name[b]] # NoRow
                /\ Reply(b, AsShort(row[name[b]])) /\ DbDone
             \/ CreateUser
    <3>1. /\ task.op = "OP_DB_LOGIN" /\ dbPc \in {"run", "create"}
          /\ dbPc' = "pop" /\ task' = task /\ queue' = queue
          /\ UNCHANGED <<last, leave, name>>
      BY <2>1 DEF FindUser, CreateUser, Typed, DbDone
    <3>2. 0 \in Logins(b)
      BY <1>0, <2>02, <3>1, Places DEF Logins
    <3>3. /\ Updates(n)' = Updates(n)
          /\ \A i \in Updates(n) : TaskAt(i)' = TaskAt(i)
          /\ \A d : Logins(d)' \subseteq Logins(d)
      BY <2>0, <2>01, <3>1
    <3>4. name[b] \in Names
      BY <3>2 DEF Typed
    <3>5. PICK i \in Progress :
            /\ Reply(b, i)
            /\ \/ row' = row /\ i = AsShort(row[name[b]]) /\ row[name[b]] # NoRow
               \/ /\ row[name[b]] = NoRow /\ i = AsShort(Fresh)
                  /\ row' = [row EXCEPT ![name[b]] = Fresh]
      <4>1. row[name[b]] # NoRow => AsShort(row[name[b]]) \in Progress
        BY <1>0, <3>4, Numbers DEF TypeOK
      <4>2. CASE FindUser /\ row[name[b]] # NoRow /\ Reply(b, AsShort(row[name[b]])) /\ DbDone
        BY <4>1, <4>2 DEF FindUser
      <4>3. CASE CreateUser
        BY <2>02, <4>3, Numbers DEF CreateUser
      <4> QED
        BY <2>1, <4>2, <4>3
    <3>6. /\ \A d \in Clients : d # b => Answers(d)' = Answers(d)
          /\ Answers(b)' = Answers(b) \union {i}
      BY <1>0, <3>5, ReplyTyped
    <3>7. Debts(n)' = Debts(n) /\ (Owed(n)' <=> Owed(n))
      BY <3>1 DEF Debts, Owed
    <3>8. CASE name[b] # n
      <4>1. row'[n] = row[n]
        BY <1>0, <3>4, <3>5, <3>8 DEF TypeOK
      <4> QED
        BY <1>2, <3>1, <3>3, <3>6, <3>7, <3>8, <4>1, InStepAway
    <3>9. CASE name[b] = n
      <4>1. row[n] = NoRow => Updates(n) = {} /\ last[n] = Fresh
        BY <1>2 DEF InStep
      <4>2. row'[n] # NoRow /\ (~Owed(n) /\ Updates(n) = {} => row'[n] = last[n])
        BY <1>0, <1>2, <3>5, <3>9, <4>1, Numbers DEF InStep, TypeOK
      <4>3. Answers(b) = {}
        BY <1>1, <3>2, <3>9 DEF LoginsAreOne, OneLogin
      <4>4. ~Owed(n) /\ Updates(n) = {}
        <5>1. ~Owed(n) /\ \A j \in Updates(n) : j < 0
          BY <1>2, <3>2, <3>9 DEF InStep
        <5>2. \A j \in Updates(n) : j >= 0
          BY <1>0, Places
        <5> QED
          BY <1>3, <5>1, <5>2
      <4>5. i = AsShort(last[n])
        BY <1>2, <3>5, <3>9, <4>1, <4>4 DEF InStep
      <4>6. \A d \in Clients : name[d] = n => \A p \in Answers(d)' : p = AsShort(last[n])
        BY <1>2, <3>6, <4>3, <4>5 DEF InStep
      <4> QED
        BY <1>2, <3>1, <3>3, <3>7, <4>2, <4>4, <4>6 DEF InStep
    <3> QED
      BY <3>8, <3>9
  <2>2. CASE FindUser /\ dbPc' = "create" /\ UNCHANGED <<hasTask, task, posted>>
    <3>1. /\ Updates(n)' = Updates(n)
          /\ \A i : TaskAt(i)' = TaskAt(i)
          /\ \A d : Logins(d)' = Logins(d)
      BY <2>2, NoneDone DEF FindUser
    <3>2. UNCHANGED <<row, last, name, leave, posted>>
      BY <2>2 DEF FindUser
    <3> QED
      BY <1>4, <3>1, <3>2 DEF Answers
  <2>3. CASE CreateFails
    <3>1. /\ task.op = "OP_DB_LOGIN" /\ dbPc' \notin {"run", "create"} /\ task' = task
          /\ UNCHANGED <<queue, row, last, name, posted>>
      BY <2>3 DEF CreateFails, Typed
    <3>2. /\ Updates(n)' = Updates(n) /\ \A i \in Updates(n) : TaskAt(i)' = TaskAt(i)
          /\ \A d : Logins(d)' \subseteq Logins(d)
      BY <2>0, <2>01, <3>1
    <3>3. LookUp(DbId, b) \/ leave' = leave
      BY <2>02, <2>3 DEF CreateFails
    <3>4. DbId \in Threads
      BY DEF Threads
    <3> QED
      BY <1>4, <1>5, <3>1, <3>2, <3>3, <3>4 DEF Answers
  <2>4. CASE UpdateUser
    <3>1. /\ dbPc' = "pop" /\ task' = task /\ dbPc = "run"
          /\ UNCHANGED <<queue, posted, last, leave, name>>
          /\ task.op = "OP_DB_UPDATE_USER_INFO"
      BY <2>4 DEF UpdateUser, DbDone
    <3>2. \A d \in Clients : Answers(d)' = Answers(d)
      BY <3>1 DEF Answers
    <3>3. Debts(n)' = Debts(n) /\ (Owed(n)' <=> Owed(n))
      BY <3>1 DEF Debts, Owed
    <3>4. CASE task.name # n
      <4>1. 0 \notin Updates(n)
        BY <3>4 DEF Updates, TaskAt
      <4>2. row'[n] = row[n]
        BY <1>0, <2>4, <3>4 DEF UpdateUser, TypeOK
      <4> QED
        BY <1>2, <2>0, <3>1, <3>2, <3>3, <4>1, <4>2, InStepAway
    <3>5. CASE task.name = n
      <4>1. 0 \in Updates(n) /\ TaskAt(0) = task
        BY <1>0, <3>1, <3>5, Places DEF Updates
      <4>2. row[n] # NoRow
        BY <1>2, <4>1 DEF InStep
      <4>3. row' = [row EXCEPT ![n] = task.info]
        BY <2>4, <3>5, <4>2 DEF UpdateUser
      <4>4. task.info \in Progress /\ row'[n] = task.info /\ row'[n] # NoRow
        BY <1>0, <3>1, <4>3, Numbers DEF Typed, TypeOK, Tasks
      <4>5. \A i \in Updates(n) : i >= 0
        BY <1>0, Places
      <4>6. ASSUME Updates(n)' = {}, ~Owed(n) PROVE row'[n] = last'[n]
        <5>1. \A j \in Updates(n) : j = 0
          BY <2>0, <3>1, <4>6
        <5> QED
          BY <1>2, <3>1, <4>1, <4>4, <4>6, <5>1 DEF InStep
      <4>7. ASSUME NEW i \in Updates(n)', \A j \in Updates(n)' : j <= i, ~Owed(n)
            PROVE  TaskAt(i)'.info = last'[n]
        <5>1. i \in Updates(n) /\ i # 0 /\ TaskAt(i)' = TaskAt(i)
          BY <2>0, <3>1
        <5>2. \A j \in Updates(n) : j <= i
          BY <1>3, <2>0, <3>1, <4>5, <4>7, <5>1
        <5> QED
          BY <1>2, <3>1, <4>7, <5>1, <5>2 DEF InStep
      <4>8. \A d \in Clients : name'[d] = n =>
              /\ \A i \in Logins(d)' : ~Owed(n) /\ \A j \in Updates(n)' : j < i
              /\ \A p \in Answers(d)' : p = AsShort(last'[n])
        BY <1>2, <2>0, <3>1, <3>2 DEF InStep
      <4>9. \A t \in Threads :
              leave'[t].at = "read" /\ name'[leave'[t].client] = n => leave'[t].info = last'[n]
        BY <1>2, <3>1 DEF InStep
      <4> QED
        BY <3>3, <4>4, <4>6, <4>7, <4>8, <4>9 DEF InStep
    <3> QED
      BY <3>4, <3>5
  <2> QED
    BY <1>8, <2>02, <2>1, <2>2, <2>3, <2>4 DEF DbThread, FindUser
<1>9. CASE Waiting
  <2>0. /\ UNCHANGED <<row, last, posted, name, leave>>
        /\ \A d \in Clients : Answers(d)' = Answers(d)
    BY <1>9 DEF Waiting, Answers
  <2>1. CASE PopTask
    <3>1. /\ \A i \in Unfinished' : TaskAt(i)' = TaskAt(i + 1)
          /\ \A d : \A i \in Int : i \in Logins(d)' <=> i + 1 \in Logins(d)
          /\ \A i \in Int : i \in Updates(n)' <=> i + 1 \in Updates(n)
      BY <1>0, <2>1, OneTaken
    <3>2. /\ Updates(n)' \subseteq Unfinished' /\ Unfinished' \subseteq Int
          /\ \A d : Logins(d)' \subseteq Int
      BY DEF Updates, Logins, Unfinished
    <3>3. \A i \in Updates(n) : i \in Int /\ i - 1 \in Int /\ (i - 1) + 1 = i
      BY <1>3
    <3>4. Debts(n)' = Debts(n)
      BY <2>0 DEF Debts
    <3> QED
      BY <1>2, <2>0, <3>1, <3>2, <3>3, <3>4, InStepStays
  <2>2. CASE Signal \/ PopNothing \/ StoreFalse \/ WaitReturns
    <3>1. /\ Updates(n)' = Updates(n)
          /\ \A i : TaskAt(i)' = TaskAt(i)
          /\ \A d : Logins(d)' = Logins(d)
      BY <2>2, NoneDone DEF Signal, PopNothing, StoreFalse, WaitReturns
    <3> QED
      BY <1>4, <2>0, <3>1
  <2> QED
    BY <1>9, <2>1, <2>2 DEF Waiting, QueueStep
<1>10. CASE UNCHANGED vars
  <2>1. /\ Updates(n)' = Updates(n)
        /\ \A i : TaskAt(i)' = TaskAt(i)
        /\ \A d : Logins(d)' = Logins(d)
    BY <1>10, NoneDone DEF vars
  <2> QED
    BY <1>4, <1>10, <2>1 DEF vars, Answers
<1> QED
  BY <1>6, <1>7, <1>8, <1>9, <1>10 DEF Next, GameOver

-----------------------------------------------------------------------------

IInv == Typed /\ LoginsAreOne /\ Alone /\ RowsInStep

LEMMA IInvHolds == Spec => []IInv
<1>1. Init => IInv
  <2> SUFFICES ASSUME Init PROVE LoginsAreOne /\ Alone /\ RowsInStep
    BY TypedAtFirst DEF IInv
  <2>1. Unfinished = {} /\ \A c \in Clients, p \in Progress : posted[c][p] = 0
    BY DEF Init, QueueInit, Unfinished
  <2>2. /\ \A c \in Clients : Logins(c) = {} /\ Answers(c) = {} /\ name[c] \notin Names
        /\ \A n : Updates(n) = {}
    BY <2>1, AccountsAssumption DEF Init, Logins, Answers, Updates
  <2>3. \A t \in Threads : leave[t].at = "idle"
    BY DEF Init, NotLeaving
  <2>4. \A n \in Names : InStep(n)
    BY <2>2, <2>3 DEF Init, InStep, Owed
  <2> QED
    BY <2>2, <2>4 DEF LoginsAreOne, OneLogin, Alone, RowsInStep
<1>2. IInv /\ [Next]_vars => IInv'
  BY TypeInvariant, LoginsStayOne, AloneIsKept, RowsStayInStep DEF IInv
<1> QED
  BY <1>1, <1>2, PTL DEF Spec

(* Disconnect forgets no session, and no older update comes after a newer,   *)
(* though several threads take the same session away.                       *)
THEOREM RowsCatchUp == Spec => []RowCatchesUp
<1>1. IInv => RowCatchesUp
  BY DEF IInv, RowsInStep, InStep, RowCatchesUp
<1> QED
  BY <1>1, IInvHolds, PTL

(* A user comes back with the progress it left with, cut to int16_t. *)
THEOREM ProgressIsKept == Spec => ProgressSurvives
<1>1. ASSUME IInv
      PROVE  \A c \in Clients :
               Login(c) /\ Connected(c) /\ name[c] \notin shared \union lost =>
                 progress'[c] = AsShort(last[name[c]])
  <2> SUFFICES ASSUME NEW c \in Clients, Login(c), Connected(c),
                      name[c] \notin shared \union lost
               PROVE  progress'[c] = AsShort(last[name[c]])
    OBVIOUS
  <2>0. TypeOK
    BY <1>1 DEF IInv, Typed
  <2>1. PICK p \in Answers(c) : progress' = [progress EXCEPT ![c] = p]
    BY <2>0, LoginTyped
  <2>2. name[c] \in Names
    BY <1>1, <2>1 DEF IInv, Typed
  <2>3. p = AsShort(last[name[c]])
    BY <1>1, <2>1, <2>2 DEF IInv, RowsInStep, InStep
  <2> QED
    BY <2>0, <2>1, <2>3 DEF TypeOK
<1> QED
  BY <1>1, IInvHolds, PTL DEF ProgressSurvives

(* What fits an int16_t comes back as it was. *)
FitsSurvives ==
  [][\A c \in Clients :
       /\ Login(c) /\ Connected(c) /\ name[c] \notin shared \union lost
       /\ last[name[c]] \in -Half .. (Half - 1)
       => progress'[c] = last[name[c]]]_vars

THEOREM FitsAreKept == Spec => FitsSurvives
<1>1. ASSUME [\A c \in Clients :
                Login(c) /\ Connected(c) /\ name[c] \notin shared \union lost =>
                  progress'[c] = AsShort(last[name[c]])]_vars
      PROVE  [\A c \in Clients :
                /\ Login(c) /\ Connected(c) /\ name[c] \notin shared \union lost
                /\ last[name[c]] \in -Half .. (Half - 1)
                => progress'[c] = last[name[c]]]_vars
  BY <1>1, ShortsFit
<1> QED
  BY <1>1, ProgressIsKept, PTL DEF ProgressSurvives, FitsSurvives

-----------------------------------------------------------------------------
(* The timer. *)

(* What the timer thread has taken was due when it read the clock.          *)
TakenIsDue ==
  /\ current <= clock
  /\ \A e \in Events : stage[e] = "taken" => due[e] <= clock

(* InOrder for the events in the vector: what precedes one of them in the   *)
(* map is in the vector, too, or has been posted.                           *)
BatchInOrder ==
  \A e, f \in Events :
    Inserted(e) /\ stage[f] = "taken" /\ turn[e] < turn[f] /\ due[e] <= due[f] =>
      stage[e] \in {"taken", "posted"}

(* Insertions are numbered upwards.                                         *)
TurnsCounted == \A e \in Events : Inserted(e) => turn[e] < inserted

TimerInv == TimerTypeOK /\ TakenIsDue /\ TurnsCounted /\ BatchInOrder /\ InOrder

(* A step that leaves the events alone keeps what is said of them. *)
LEMMA EventsUntouched ==
  ASSUME TimerInv, UNCHANGED <<stage, due, turn, inserted>>
  PROVE  TurnsCounted' /\ BatchInOrder' /\ InOrder'
BY DEF TimerInv, TurnsCounted, BatchInOrder, InOrder, Inserted

(* The invariant holds initially. *)
LEMMA InitInvariant == TimerInit => TimerInv
BY TimerAssumption
DEF TimerInit, TimerInv, TimerTypeOK, TakenIsDue, TurnsCounted, BatchInOrder, InOrder, Inserted, In, Stages

(* The steps of the callers of add_timer_event keep the invariant. *)
LEMMA ReadClockKeeps ==
  ASSUME TimerInv, NEW e \in Events, NEW delay \in Delays, ReadClock(e, delay)
  PROVE  TimerInv'
<1>1. delay \in Nat /\ clock + delay \in Nat
  BY TimerAssumption DEF TimerInv, TimerTypeOK
<1>2. TimerTypeOK'
  BY <1>1 DEF TimerInv, TimerTypeOK, ReadClock, threadVars, In, Stages
<1>3. TakenIsDue'
  BY <1>1 DEF TimerInv, TimerTypeOK, TakenIsDue, ReadClock, threadVars
<1>4. TurnsCounted' /\ BatchInOrder' /\ InOrder'
  BY <1>1 DEF TimerInv, TimerTypeOK, TurnsCounted, BatchInOrder, InOrder, Inserted, ReadClock
<1> QED BY <1>2, <1>3, <1>4 DEF TimerInv

LEMMA InsertKeeps ==
  ASSUME TimerInv, NEW e \in Events, Insert(e)
  PROVE  TimerInv'
<1>1. TimerTypeOK'
  BY DEF TimerInv, TimerTypeOK, Insert, threadVars, In, Stages
<1>2. TakenIsDue'
  BY DEF TimerInv, TimerTypeOK, TakenIsDue, Insert, threadVars
<1>3. TurnsCounted'
  BY DEF TimerInv, TimerTypeOK, TurnsCounted, Inserted, Insert
<1>4. ASSUME NEW a \in Events, NEW b \in Events,
             Inserted(a)', (stage[b] \in {"taken", "posted"})', (turn[a] < turn[b])'
      PROVE  a # e /\ b # e
  BY <1>4 DEF TimerInv, TimerTypeOK, TurnsCounted, Inserted, Insert
<1>5. BatchInOrder' /\ InOrder'
  BY <1>4 DEF TimerInv, TimerTypeOK, BatchInOrder, InOrder, Inserted, Insert
<1> QED BY <1>1, <1>2, <1>3, <1>5 DEF TimerInv

(* The steps of the timer thread keep the invariant. *)
LEMMA TakeBatchKeeps ==
  ASSUME TimerInv, TakeBatch
  PROVE  TimerInv'
<1>1. TimerTypeOK'
  BY DEF TimerInv, TimerTypeOK, TakeBatch, Executable, In, Stages
<1>2. TakenIsDue'
  BY DEF TimerInv, TimerTypeOK, TakenIsDue, TakeBatch, Executable, In
<1>3. TurnsCounted'
  BY DEF TimerInv, TimerTypeOK, TurnsCounted, Inserted, TakeBatch, Executable, In
<1>4. BatchInOrder'
  BY DEF TimerInv, TimerTypeOK, BatchInOrder, Inserted, TakeBatch, Executable, In, Stages
<1>5. InOrder'
  BY DEF TimerInv, TimerTypeOK, InOrder, Inserted, TakeBatch, Executable, In, Stages
<1> QED BY <1>1, <1>2, <1>3, <1>4, <1>5 DEF TimerInv

LEMMA PostNextKeeps ==
  ASSUME TimerInv, NEW e \in Events, PostNext(e)
  PROVE  TimerInv'
<1>1. TimerTypeOK'
  BY DEF TimerInv, TimerTypeOK, PostNext, threadVars, In, Stages
<1>2. TakenIsDue'
  BY DEF TimerInv, TimerTypeOK, TakenIsDue, PostNext, threadVars
<1>3. TurnsCounted'
  BY DEF TimerInv, TimerTypeOK, TurnsCounted, Inserted, PostNext
<1>4. BatchInOrder'
  BY DEF TimerInv, TimerTypeOK, BatchInOrder, Inserted, PostNext
<1>5. ASSUME NEW a \in Events, Inserted(a), turn[a] < turn[e], due[a] <= due[e]
      PROVE  stage[a] = "posted"
  <2>1. stage[a] \in {"taken", "posted"}
    BY <1>5 DEF TimerInv, BatchInOrder, PostNext
  <2>2. stage[a] # "taken"
    BY <1>5 DEF TimerInv, TimerTypeOK, PostNext, Before, In
  <2> QED BY <2>1, <2>2
<1>6. InOrder'
  BY <1>5 DEF TimerInv, TimerTypeOK, InOrder, Inserted, PostNext
<1> QED BY <1>1, <1>2, <1>3, <1>4, <1>6 DEF TimerInv

(* Every step keeps the invariant. *)
LEMMA NextInvariant == TimerInv /\ [TimerNext]_timerVars => TimerInv'
<1> SUFFICES ASSUME TimerInv, [TimerNext]_timerVars PROVE TimerInv'
  OBVIOUS
<1> USE DEF TimerInv, TimerTypeOK, TakenIsDue, In
<1>1. CASE Tick
  <2>1. TimerTypeOK' /\ TakenIsDue'
    BY <1>1, TimerAssumption DEF Tick, threadVars
  <2> QED BY <1>1, <2>1, EventsUntouched DEF Tick
<1>2. CASE ReadCurrentTime
  <2>1. TimerTypeOK' /\ TakenIsDue'
    BY <1>2, TimerAssumption DEF ReadCurrentTime
  <2> QED BY <1>2, <2>1, EventsUntouched DEF ReadCurrentTime
<1>3. CASE LockMap \/ NothingToDo \/ BatchPosted
  <2>1. TimerTypeOK' /\ TakenIsDue'
    BY <1>3 DEF LockMap, NothingToDo, BatchPosted
  <2> QED BY <1>3, <2>1, EventsUntouched DEF LockMap, NothingToDo, BatchPosted
<1>4. CASE TakeBatch
  BY <1>4, TakeBatchKeeps
<1>5. CASE \E e \in Events : PostNext(e)
  BY <1>5, PostNextKeeps
<1>6. CASE \E e \in Events : Adding(e)
  BY <1>6, ReadClockKeeps, InsertKeeps DEF Adding
<1>7. CASE UNCHANGED timerVars
  <2>1. TimerTypeOK' /\ TakenIsDue'
    BY <1>7 DEF timerVars, threadVars
  <2> QED BY <1>7, <2>1, EventsUntouched DEF timerVars
<1> QED BY <1>1, <1>2, <1>3, <1>4, <1>5, <1>6, <1>7 DEF TimerNext, TimerThread

(* The inductive invariant of the timer. *)
THEOREM Invariant == TimerSpec => []TimerInv
BY InitInvariant, NextInvariant, PTL DEF TimerSpec

(* The variables of the timer have their types, and its vector is empty at   *)
(* the start of each round (server_frame.cpp:394-433).                      *)
THEOREM TimerTypeCorrect == TimerSpec => []TimerTypeOK
<1>1. TimerInv => TimerTypeOK
  BY DEF TimerInv
<1> QED BY <1>1, Invariant, PTL

(* No event overtakes one that was in the map before it and is due no later  *)
(* (server_frame.cpp:406-427).                                              *)
THEOREM PostedInOrder == TimerSpec => []InOrder
<1>1. TimerInv => InOrder
  BY DEF TimerInv
<1> QED BY <1>1, Invariant, PTL

-----------------------------------------------------------------------------

(* The initial state is that of a delayed delivery. *)
LEMMA InitRefines == TimerInit => Delivery!Init
BY DEF TimerInit, Delivery!Init

(* A step of the timer is a step of a delayed delivery, or none of its.      *)
LEMMA StepRefines == TimerInv /\ [TimerNext]_timerVars => [Delivery!Next]_Delivery!vars
<1> DEFINE Status == [e \in Events |-> IF stage[e] = "new" THEN "none"
                                      ELSE IF stage[e] = "posted" THEN "delivered"
                                      ELSE "waiting"]
<1> SUFFICES ASSUME TimerInv, [TimerNext]_timerVars PROVE [Delivery!Next]_Delivery!vars
  OBVIOUS
<1>1. CASE Tick
  <2>1. Delivery!Tick
    BY <1>1 DEF Tick, Delivery!Tick
  <2> QED BY <2>1 DEF Delivery!Next
<1>2. CASE ReadCurrentTime \/ LockMap \/ NothingToDo \/ BatchPosted
  BY <1>2 DEF ReadCurrentTime, LockMap, NothingToDo, BatchPosted, Delivery!vars
<1>3. CASE TakeBatch
  <2>1. ASSUME NEW e \in Events
        PROVE  Status[e]' = Status[e]
    BY <1>3 DEF TakeBatch, Executable, In, TimerInv, TimerTypeOK
  <2>2. Status' = Status
    BY <2>1
  <2> QED BY <1>3, <2>2 DEF TakeBatch, Delivery!vars
<1>4. ASSUME NEW e \in Events, PostNext(e)
      PROVE  Delivery!Deliver(e)
  <2>1. Status[e] = "waiting" /\ due[e] <= clock
    BY <1>4 DEF PostNext, TimerInv, TakenIsDue
  <2>2. Status' = [Status EXCEPT ![e] = "delivered"]
    BY <1>4 DEF PostNext, TimerInv, TimerTypeOK
  <2>3. UNCHANGED <<clock, due>>
    BY <1>4 DEF PostNext
  <2> QED BY <2>1, <2>2, <2>3 DEF Delivery!Deliver
<1>5. ASSUME NEW e \in Events, NEW delay \in Delays, ReadClock(e, delay)
      PROVE  Delivery!Ask(e, delay)
  <2>1. Status[e] = "none" /\ clock + delay <= MaxClock
    BY <1>5 DEF ReadClock
  <2>2. Status' = [Status EXCEPT ![e] = "waiting"]
    BY <1>5 DEF ReadClock, TimerInv, TimerTypeOK
  <2>3. due' = [due EXCEPT ![e] = clock + delay] /\ UNCHANGED clock
    BY <1>5 DEF ReadClock
  <2> QED BY <2>1, <2>2, <2>3 DEF Delivery!Ask
<1>6. ASSUME NEW e \in Events, Insert(e)
      PROVE  UNCHANGED Delivery!vars
  <2>1. Status' = Status
    BY <1>6 DEF Insert, TimerInv, TimerTypeOK
  <2> QED BY <1>6, <2>1 DEF Insert, Delivery!vars
<1>7. CASE UNCHANGED timerVars
  BY <1>7 DEF timerVars, Delivery!vars
<1>8. CASE \E e \in Events : PostNext(e)
  BY <1>8, <1>4 DEF Delivery!Next
<1>9. CASE \E e \in Events : Adding(e)
  BY <1>9, <1>5, <1>6 DEF Adding, Delivery!Next
<1> QED BY <1>1, <1>2, <1>3, <1>7, <1>8, <1>9 DEF TimerNext, TimerThread

(* The timer implements the delayed delivery that the handlers rely on:      *)
(* every event once, and none before it is due (server_frame.cpp:87-94,     *)
(* 394-433).                                                                *)
THEOREM TimerImplements == TimerSpec => Implements
BY InitRefines, StepRefines, Invariant, PTL DEF TimerSpec, Implements, Delivery!Spec

=============================================================================
