------------------------------- MODULE DbQueue -------------------------------
(***************************************************************************)
(* The queue between the handlers and the database thread: add_db_event,   *)
(* and the loop of db_thread that pops tasks and sleeps on _has_db_task.   *)
(***************************************************************************)
EXTENDS Naturals, Sequences

CONSTANT MaxAdding  (* bound: handlers in add_db_event at a time            *)

ASSUME QueueAssumption == MaxAdding \in Nat

VARIABLES
  queue,        (* _db_queue                                                *)
  hasTask,      (* _has_db_task                                             *)
  adding,       (* handlers in add_db_event, between push and store         *)
  dbPc,         (* program counter of the database thread                   *)
  task          (* ev, the task it executes                                 *)

queueVars == <<queue, hasTask, adding, dbPc, task>>

QueueInit(noTask) ==
  /\ queue = <<>>
  /\ hasTask = FALSE
  /\ adding = 0
  /\ dbPc = "pop"
  /\ task = noTask

(* Bug: the newest task is served first. *)
PushFront(ev) ==
  /\ adding < MaxAdding
  /\ queue' = <<ev>> \o queue
  /\ adding' = adding + 1

(* add_db_event: the task is queued ...                                     *)
Push(ev) ==
  /\ adding < MaxAdding
  /\ queue' = Append(queue, ev)
  /\ adding' = adding + 1

(* ... and the thread is told: store(true) and notify_one.                  *)
Signal ==
  /\ adding > 0
  /\ hasTask' = TRUE
  /\ adding' = adding - 1
  /\ UNCHANGED <<queue, dbPc, task>>

PopTask ==
  /\ dbPc = "pop"
  /\ queue # <<>>
  /\ task' = Head(queue)
  /\ queue' = Tail(queue)
  /\ dbPc' = "run"
  /\ UNCHANGED <<hasTask, adding>>

PopNothing ==
  /\ dbPc = "pop"
  /\ queue = <<>>
  /\ dbPc' = "store"
  /\ UNCHANGED <<queue, hasTask, adding, task>>

(* _has_db_task.store(false), whatever has been stored since the queue was   *)
(* found empty.                                                             *)
StoreFalse ==
  /\ dbPc = "store"
  /\ hasTask' = FALSE
  /\ dbPc' = "wait"
  /\ UNCHANGED <<queue, adding, task>>

(* wait(false) returns once the flag is found true.                         *)
WaitReturns ==
  /\ dbPc = "wait"
  /\ hasTask
  /\ dbPc' = "pop"
  /\ UNCHANGED <<queue, hasTask, adding, task>>

QueueStep == Signal \/ PopTask \/ PopNothing \/ StoreFalse \/ WaitReturns

=============================================================================
