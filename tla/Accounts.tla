------------------------------ MODULE Accounts ------------------------------
(***************************************************************************)
(* What becomes of a player's progress: a login asks the database thread   *)
(* for the row of a name, the session plays on from there, and disconnect  *)
(* queues its state to be written back. Several threads may be in          *)
(* disconnect for one session: nothing but its null test keeps a second    *)
(* out. Progress stands for what DbUserInfo holds; Fresh is the progress   *)
(* of a new user, and of a session that has not logged in.                 *)
(***************************************************************************)
EXTENDS DbQueue, Integers

CONSTANTS
  Clients,      (* sessions; the id of a session is not used again          *)
  Names,        (* users                                                    *)
  Workers,      (* workers that are in disconnect at a time                 *)
  DbId,         (* the database thread                                      *)
  NoName,       (* the name of a session that has sent no login             *)
  NoRow,        (* no row for the user                                      *)
  Half,         (* half of the numbers an int16_t holds                     *)
  MaxProgress   (* bound: progress a player makes                           *)

ASSUME AccountsAssumption ==
  /\ MaxProgress \in Nat
  /\ Half \in Nat \ {0}
  /\ NoRow \notin Int
  /\ NoName \notin Names
  /\ DbId \notin Workers

Fresh == 0
Progress == -Half .. MaxProgress
Threads == Workers \union {DbId}

VARIABLES
  state,        (* of each session: "none", then its _state                 *)
  name,         (* _name                                                    *)
  progress,     (* _x, _y, _exp and _level                                  *)
  row,          (* external: the table of users                             *)
  posted,       (* OP_DB_LOGIN completions on their way to the workers: how *)
                (* many for each session with each progress                 *)
  leave,        (* of each thread: where it is in disconnect                *)
  again,        (* sessions that sent a second login (bound: no third)      *)
  saved,        (* history: sessions whose progress disconnect has read     *)
  last,         (* history: the progress read last of each user             *)
  shared,       (* history: users with two sessions at a time               *)
  lost          (* history: users that left before their login was answered,*)
                (* made progress between two disconnects of their session,  *)
                (* logged in twice in one session, or whose update the      *)
                (* database refused                                         *)

history == <<saved, last, shared, lost>>
vars == <<queueVars, state, name, progress, row, posted, leave, again, history>>

get_user_info(c) == progress[c]

LoginTask(c) == [op |-> "OP_DB_LOGIN", client |-> c, name |-> NoName, info |-> Fresh]
UpdateTask(c, info) ==
  [op |-> "OP_DB_UPDATE_USER_INFO", client |-> c, name |-> name[c], info |-> info]
NoTask == [op |-> "none", client |-> NoName, name |-> NoName, info |-> Fresh]
NotLeaving == [at |-> "idle", client |-> NoName, info |-> Fresh]

Init ==
  /\ QueueInit(NoTask)
  /\ state = [c \in Clients |-> "none"]
  /\ name = [c \in Clients |-> NoName]
  /\ progress = [c \in Clients |-> Fresh]
  /\ row = [n \in Names |-> NoRow]
  /\ posted = [c \in Clients |-> [p \in Progress |-> 0]]
  /\ leave = [t \in Threads |-> NotLeaving]
  /\ again = {}
  /\ saved = {}
  /\ last = [n \in Names |-> Fresh]
  /\ shared = {}
  /\ lost = {}

Connected(c) == state[c] \in {"ST_ALLOC", "ST_INGAME"}

(* A thread has found the session, and is to read and queue its progress.    *)
Leaves(t, c) == leave[t].client = c /\ leave[t].at \in {"found", "read"}
BeingLeft(c) == \E t \in Threads : Leaves(t, c)

(* The session may still change what becomes of its user.                   *)
Present(c) == (Connected(c) /\ c \notin saved) \/ BeingLeft(c)

(* The users with two sessions, when session c is present as user n.         *)
SharedWith(c, n) ==
  IF \E d \in Clients \ {c} : Present(d) /\ name[d] = n
    THEN shared \union ({n} \intersect Names) ELSE shared

-----------------------------------------------------------------------------
(* The workers.                                                             *)

Connect(c) ==
  /\ state[c] = "none"
  /\ state' = [state EXCEPT ![c] = "ST_ALLOC"]
  /\ UNCHANGED <<queueVars, name, progress, row, posted, leave, again, history>>

(* C2S_P_LOGIN, whatever the session has asked for before.                  *)
RequestLogin(c, n) ==
  /\ Connected(c)
  /\ c \notin again
  /\ again' = IF name[c] = NoName THEN again ELSE again \union {c}
  /\ name' = [name EXCEPT ![c] = n]
  /\ Push(LoginTask(c))
  /\ shared' = SharedWith(c, n)
  /\ lost' = IF name[c] # NoName \/ c \in saved \/ BeingLeft(c)
                THEN lost \union ({n, name[c]} \intersect Names) ELSE lost
  /\ UNCHANGED <<hasTask, dbPc, task, state, progress, row, posted, leave, saved, last>>

(* OP_DB_LOGIN is completed: Session::login, if there is a session still.   *)
Login(c) ==
  \E info \in Progress :
    /\ posted[c][info] > 0
    /\ posted' = [posted EXCEPT ![c][info] = @ - 1]
    /\ IF Connected(c)
         THEN /\ state' = [state EXCEPT ![c] = "ST_INGAME"]
              /\ progress' = [progress EXCEPT ![c] = info]
         ELSE UNCHANGED <<state, progress>>
    /\ UNCHANGED <<queueVars, name, row, leave, again, history>>

Halved(n) == IF n < 0 THEN -((-n) \div 2) ELSE n \div 2

(* The player gains experience, or dies and loses half of it; a handler that *)
(* has its session goes on with it while disconnect takes it away.          *)
Play(c) ==
  /\ state[c] = "ST_INGAME" \/ BeingLeft(c)
  /\ \/ progress[c] < MaxProgress /\ progress' = [progress EXCEPT ![c] = @ + 1]
     \/ progress' = [progress EXCEPT ![c] = Halved(@)]
  /\ UNCHANGED <<queueVars, state, name, row, posted, leave, again, history>>

-----------------------------------------------------------------------------
(* ServerFrame::disconnect, on a worker or on the database thread. Dummy    *)
(* clients, which have no row, are left out.                                *)

LookUp(t, c) ==
  /\ leave[t].at = "idle"
  /\ Connected(c)
  /\ leave' = [leave EXCEPT ![t] = [at |-> "found", client |-> c, info |-> Fresh]]
  /\ shared' = SharedWith(c, name[c])

Disconnect(t, c) ==
  /\ LookUp(t, c)
  /\ UNCHANGED <<queueVars, state, name, progress, row, posted, again, saved, last, lost>>

(* What is read here counts from here on as the user's progress.            *)
ReadInfo(t) ==
  /\ leave[t].at = "found"
  /\ LET c == leave[t].client
         n == name[c]
     IN /\ leave' = [leave EXCEPT ![t].at = "read", ![t].info = get_user_info(c)]
        /\ saved' = saved \union {c}
        /\ last' = [m \in Names |-> IF m = n THEN get_user_info(c) ELSE last[m]]
        /\ lost' = IF state[c] = "ST_ALLOC" \/ (c \in saved /\ last' # last)
                     THEN lost \union ({n} \intersect Names) ELSE lost
  /\ UNCHANGED <<queueVars, state, name, progress, row, posted, again, shared>>

(* Bug: the progress of a player in the game is not queued. *)
QueueNothing(t) ==
  /\ leave[t].at = "read"
  /\ leave' = [leave EXCEPT ![t].at = "queued", ![t].info = Fresh]
  /\ IF state[leave[t].client] = "ST_INGAME" THEN UNCHANGED <<queue, adding>>
     ELSE Push(UpdateTask(leave[t].client, leave[t].info))
  /\ UNCHANGED <<hasTask, dbPc, task, state, name, progress, row, posted, again, history>>

QueueUpdate(t) ==
  /\ leave[t].at = "read"
  /\ leave' = [leave EXCEPT ![t].at = "queued", ![t].info = Fresh]
  /\ Push(UpdateTask(leave[t].client, leave[t].info))
  /\ UNCHANGED <<hasTask, dbPc, task, state, name, progress, row, posted, again, history>>

(* The session is out of the table, maybe for the second time.              *)
Unpublish(t) ==
  /\ leave[t].at = "queued"
  /\ leave' = [leave EXCEPT ![t] = NotLeaving]
  /\ state' = [state EXCEPT ![leave[t].client] = "ST_FREE"]
  /\ dbPc' = IF t = DbId THEN "pop" ELSE dbPc
  /\ UNCHANGED <<queue, hasTask, adding, task, name, progress, row, posted, again, history>>

-----------------------------------------------------------------------------
(* The database thread.                                                     *)

DbDone == dbPc' = "pop" /\ UNCHANGED <<hasTask, task>>
Reply(c, info) == posted' = [posted EXCEPT ![c][info] = @ + 1]

(* static_cast<int16_t>                                                     *)
AsShort(n) == ((n + Half) % (2 * Half)) - Half

(* Bug: the row is taken as it is. *)
FindInFull ==
  /\ dbPc = "run"
  /\ task.op = "OP_DB_LOGIN"
  /\ LET c == task.client
         n == name[c]
     IN \/ Connected(c) /\ row[n] # NoRow /\ Reply(c, row[n]) /\ DbDone
        \/ dbPc' = "create" /\ UNCHANGED <<hasTask, task, posted>>
  /\ UNCHANGED <<queue, adding, state, name, progress, row, leave, again, history>>

(* db_login: the session is looked up for its name, and what is read of the *)
(* row is cut to int16_t. Without a session, a row or a statement that      *)
(* succeeds the user is taken for a new one.                                *)
FindUser ==
  /\ dbPc = "run"
  /\ task.op = "OP_DB_LOGIN"
  /\ LET c == task.client
         n == name[c]
     IN \/ Connected(c) /\ row[n] # NoRow /\ Reply(c, AsShort(row[n])) /\ DbDone
        \/ dbPc' = "create" /\ UNCHANGED <<hasTask, task, posted>>
  /\ UNCHANGED <<queue, adding, state, name, progress, row, leave, again, history>>

(* db_create_new_user: the session is looked up again. (External: users are *)
(* unique, a second row of a user is refused.)                              *)
CreateUser ==
  /\ dbPc = "create"
  /\ LET c == task.client
     IN /\ Connected(c)
        /\ row[name[c]] = NoRow
        /\ row' = [row EXCEPT ![name[c]] = Fresh]
        /\ Reply(c, Fresh)
  /\ DbDone
  /\ UNCHANGED <<queue, adding, state, name, progress, leave, again, history>>

(* It is gone, or the statement fails: disconnect, which finds nothing in    *)
(* the first case.                                                          *)
CreateFails ==
  /\ dbPc = "create"
  /\ \/ Connected(task.client) /\ LookUp(DbId, task.client) /\ dbPc' = "disconnect"
     \/ ~Connected(task.client) /\ dbPc' = "pop" /\ UNCHANGED <<leave, shared>>
  /\ UNCHANGED <<queue, hasTask, adding, task>>
  /\ UNCHANGED <<state, name, progress, row, posted, again, saved, last, lost>>

(* db_update_user_info; a user without a row has nothing to update.         *)
UpdateUser ==
  /\ dbPc = "run"
  /\ task.op = "OP_DB_UPDATE_USER_INFO"
  /\ LET n == task.name
     IN IF n \in Names /\ row[n] # NoRow
          THEN \/ row' = [row EXCEPT ![n] = task.info] /\ UNCHANGED lost
               \/ lost' = lost \union {n} /\ UNCHANGED row
          ELSE UNCHANGED <<row, lost>>
  /\ DbDone
  /\ UNCHANGED <<queue, adding, state, name, progress, posted, leave, again>>
  /\ UNCHANGED <<saved, last, shared>>

-----------------------------------------------------------------------------

Worker(c) ==
  \/ Connect(c)
  \/ \E n \in Names : RequestLogin(c, n)
  \/ Login(c)
  \/ Play(c)
  \/ \E t \in Workers : Disconnect(t, c)

Leaving(t) == ReadInfo(t) \/ QueueUpdate(t) \/ Unpublish(t)

DbThread == FindUser \/ CreateUser \/ CreateFails \/ UpdateUser

Waiting ==
  /\ QueueStep
  /\ UNCHANGED <<state, name, progress, row, posted, leave, again, history>>

(* Every session has come and gone, and the database thread sleeps.         *)
GameOver ==
  /\ \A c \in Clients : state[c] = "ST_FREE" /\ \A p \in Progress : posted[c][p] = 0
  /\ \A t \in Threads : leave[t] = NotLeaving
  /\ dbPc = "wait" /\ ~hasTask /\ adding = 0
  /\ UNCHANGED vars

Next ==
  \/ \E c \in Clients : Worker(c)
  \/ \E t \in Threads : Leaving(t)
  \/ DbThread
  \/ Waiting
  \/ GameOver

Spec == Init /\ [][Next]_vars

(* The database thread and the workers go on; players do as they like.      *)
FairSpec ==
  /\ Spec
  /\ WF_vars(DbThread)
  /\ WF_vars(Waiting)
  /\ \A t \in Threads : WF_vars(Leaving(t))
  /\ \A c \in Clients : WF_vars(Login(c))

-----------------------------------------------------------------------------

Tasks ==
  [op : {"OP_DB_LOGIN", "OP_DB_UPDATE_USER_INFO"}, client : Clients,
   name : Names \union {NoName}, info : Progress]

(* Every variable has its type: a login is answered with a progress cut to   *)
(* int16_t (server_frame.cpp:452-475, db_functions.cpp:42-45).              *)
TypeOK ==
  /\ queue \in Seq(Tasks)
  /\ hasTask \in BOOLEAN
  /\ adding \in 0 .. MaxAdding
  /\ dbPc \in {"pop", "store", "wait", "run", "create", "disconnect"}
  /\ task \in Tasks \union {NoTask}
  /\ state \in [Clients -> {"none", "ST_ALLOC", "ST_INGAME", "ST_FREE"}]
  /\ name \in [Clients -> Names \union {NoName}]
  /\ progress \in [Clients -> Progress]
  /\ row \in [Names -> Progress \union {NoRow}]
  /\ posted \in [Clients -> [Progress -> Nat]]
  /\ \A c \in Clients, p \in Progress : posted[c][p] > 0 => p < Half
  /\ leave \in [Threads -> [at : {"idle", "found", "read", "queued"},
                            client : Clients \union {NoName}, info : Progress]]
  /\ again \subseteq Clients
  /\ saved \subseteq Clients
  /\ last \in [Names -> Progress]
  /\ shared \subseteq Names
  /\ lost \subseteq Names

(* A user comes back with the progress it left with, cut to int16_t,        *)
(* although another thread writes it some time after the session has gone,  *)
(* the new login may already be asked for, and two threads may have taken   *)
(* the session away (server_frame.cpp:71-85, 448-483). What fits an int16_t *)
(* comes back as it was (theorem FitsAreKept). Beyond this promise are users*)
(* that were in the game twice at a time, the second while a thread was     *)
(* still about to write for the first too; that left before their login was *)
(* answered, or made progress between two disconnects of their session;     *)
(* that logged in twice in one session; and whose update failed.            *)
ProgressSurvives ==
  [][\A c \in Clients :
       Login(c) /\ Connected(c) /\ name[c] \notin shared \union lost =>
         progress'[c] = AsShort(last[name[c]])]_vars

(* Where tasks are that the database thread has not done with: at 0 the one  *)
(* it executes, at 1 and up the queue. Which of them update a user.         *)
Unfinished == (IF dbPc \in {"run", "create"} THEN 0 ELSE 1) .. Len(queue)
TaskAt(i) == IF i = 0 THEN task ELSE queue[i]
Updates(n) ==
  {i \in Unfinished : TaskAt(i).op = "OP_DB_UPDATE_USER_INFO" /\ TaskAt(i).name = n}

(* A thread has read the progress of the user and has still to queue it.    *)
Owed(n) == \E t \in Threads : leave[t].at = "read" /\ name[leave[t].client] = n

(* The row of a user, once the updates queued for it are made, holds the     *)
(* progress it left with last, unless its update has still to be queued:    *)
(* disconnect forgets no session and no older update comes after a newer    *)
(* (server_frame.cpp:77-80).                                                *)
RowCatchesUp ==
  \A n \in Names \ (shared \union lost) :
    row[n] # NoRow /\ ~Owed(n) =>
      /\ Updates(n) = {} => row[n] = last[n]
      /\ \A i \in Updates(n) :
           (\A j \in Updates(n) : j <= i) => TaskAt(i).info = last[n]

(* A user is in the game with one session at a time: a login of a user that *)
(* is in the game is to be refused as "in use by another client"            *)
(* (game_header.h:106).                                                     *)
OneSessionPerUser ==
  \A c, d \in Clients :
    c # d /\ state[c] = "ST_INGAME" /\ state[d] = "ST_INGAME" => name[c] # name[d]

(* The database thread runs whenever there is work, or work arrives (the    *)
(* promise made of _has_db_task): what is queued is popped sooner or later. *)
WorkIsTaken == queue # <<>> ~> dbPc = "run"

=============================================================================
