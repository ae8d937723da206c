----------------------------- MODULE TimerQueue -----------------------------
(***************************************************************************)
(* The timer: any thread adds events (add_timer_event), and the timer       *)
(* thread takes those that are due out of the map and posts them to the    *)
(* completion port. The multimap is the set of events in stage "queued",   *)
(* ordered by the time they are due, and by insertion where that is equal; *)
(* the timer thread's vector is the set of those in stage "taken".         *)
(***************************************************************************)
EXTENDS Naturals

CONSTANTS
  Events,       (* calls of add_timer_event                                 *)
  Delays,       (* the delays asked for                                     *)
  MaxClock      (* bound: the time at which the last event is due           *)

ASSUME TimerAssumption ==
  /\ Delays \subseteq Nat
  /\ MaxClock \in Nat

VARIABLES
  clock,        (* the system clock                                         *)
  stage,        (* how far each event has come                              *)
  due,          (* excute_time                                              *)
  turn,         (* the number of insertions before its own                  *)
  inserted,     (* number of insertions                                     *)
  pc,           (* program counter of the timer thread                      *)
  current       (* its current_time                                         *)

threadVars == <<pc, current>>
timerVars == <<clock, stage, due, turn, inserted, threadVars>>

TimerInit ==
  /\ clock = 0
  /\ stage = [e \in Events |-> "new"]
  /\ due = [e \in Events |-> 0]
  /\ turn = [e \in Events |-> 0]
  /\ inserted = 0
  /\ pc = "clock"
  /\ current = 0

In(s) == {e \in Events : stage[e] = s}

Tick ==
  /\ clock < MaxClock
  /\ clock' = clock + 1
  /\ UNCHANGED <<stage, due, turn, inserted, threadVars>>

-----------------------------------------------------------------------------
(* add_timer_event: the clock is read before the lock is taken.             *)

ReadClock(e, delay) ==
  /\ stage[e] = "new"
  /\ clock + delay <= MaxClock
  /\ due' = [due EXCEPT ![e] = clock + delay]
  /\ stage' = [stage EXCEPT ![e] = "timed"]
  /\ UNCHANGED <<clock, turn, inserted, threadVars>>

(* The timer thread holds the lock while it looks into the map.             *)
Insert(e) ==
  /\ stage[e] = "timed"
  /\ pc # "look"
  /\ stage' = [stage EXCEPT ![e] = "queued"]
  /\ turn' = [turn EXCEPT ![e] = inserted]
  /\ inserted' = inserted + 1
  /\ UNCHANGED <<clock, due, threadVars>>

-----------------------------------------------------------------------------
(* timer_thread: the clock is read before the lock is taken, too.           *)

(* Bug: the clock is read once, before the loop. *)
KeepCurrentTime ==
  /\ pc = "clock"
  /\ pc' = "lock"
  /\ UNCHANGED <<clock, stage, due, turn, inserted, current>>

ReadCurrentTime ==
  /\ pc = "clock"
  /\ current' = clock
  /\ pc' = "lock"
  /\ UNCHANGED <<clock, stage, due, turn, inserted>>

LockMap ==
  /\ pc = "lock"
  /\ pc' = "look"
  /\ UNCHANGED <<clock, stage, due, turn, inserted, current>>

(* Bug: what is due within the next tick is taken as well. *)
ExecutableSoon == {e \in In("queued") : due[e] <= current + 1}

(* From begin() to upper_bound(current_time). *)
Executable == {e \in In("queued") : due[e] <= current}

NothingToDo ==
  /\ pc = "look"
  /\ Executable = {}
  /\ pc' = "clock"
  /\ UNCHANGED <<clock, stage, due, turn, inserted, current>>

TakeBatch ==
  /\ pc = "look"
  /\ Executable # {}
  /\ stage' = [e \in Events |-> IF e \in Executable THEN "taken" ELSE stage[e]]
  /\ pc' = "post"
  /\ UNCHANGED <<clock, due, turn, inserted, current>>

(* Bug: an order by time alone, as that of a heap. *)
BeforeByTime(e, f) == due[e] <= due[f]

Before(e, f) ==
  \/ due[e] < due[f]
  \/ /\ due[e] = due[f]
     /\ turn[e] <= turn[f]

PostNext(e) ==
  /\ pc = "post"
  /\ stage[e] = "taken"
  /\ \A f \in In("taken") : Before(e, f)
  /\ stage' = [stage EXCEPT ![e] = "posted"]
  /\ UNCHANGED <<clock, due, turn, inserted, threadVars>>

(* Bug: only the first event of a batch is posted. *)
FirstPosted ==
  /\ pc = "post"
  /\ \E e \in Events : stage[e] = "posted"
  /\ pc' = "clock"
  /\ UNCHANGED <<clock, stage, due, turn, inserted, current>>

(* The batch is posted; the thread sleeps for a millisecond.                *)
BatchPosted ==
  /\ pc = "post"
  /\ In("taken") = {}
  /\ pc' = "clock"
  /\ UNCHANGED <<clock, stage, due, turn, inserted, current>>

-----------------------------------------------------------------------------

Adding(e) == Insert(e) \/ \E delay \in Delays : ReadClock(e, delay)

TimerThread ==
  \/ ReadCurrentTime
  \/ LockMap
  \/ NothingToDo
  \/ TakeBatch
  \/ \E e \in Events : PostNext(e)
  \/ BatchPosted

TimerNext == Tick \/ TimerThread \/ \E e \in Events : Adding(e)

TimerSpec == TimerInit /\ [][TimerNext]_timerVars

(* Time goes by, the timer thread runs, and a thread that wants the lock     *)
(* gets it while the timer thread sleeps. Nobody need call add_timer_event. *)
TimerFairSpec ==
  /\ TimerSpec
  /\ WF_timerVars(Tick)
  /\ WF_timerVars(TimerThread)
  /\ \A e \in Events : SF_timerVars(Insert(e))

-----------------------------------------------------------------------------

Stages == {"new", "timed", "queued", "taken", "posted"}

(* Every variable has its type, and the vector is empty whenever the timer   *)
(* thread starts another round: nothing that was taken out of the map is    *)
(* left behind (server_frame.cpp:415-427).                                  *)
TimerTypeOK ==
  /\ clock \in 0 .. MaxClock
  /\ stage \in [Events -> Stages]
  /\ due \in [Events -> Nat]
  /\ turn \in [Events -> Nat]
  /\ inserted \in Nat
  /\ pc \in {"clock", "lock", "look", "post"}
  /\ current \in Nat
  /\ pc # "post" => In("taken") = {}

Inserted(e) == stage[e] \in {"queued", "taken", "posted"}

(* Events are posted in the order they are due, and in the order they were   *)
(* added where that is the same (a hit, then the next), across batches too: *)
(* an event overtakes none that was in the map before it and is due no      *)
(* later (server_frame.cpp:406-427).                                        *)
InOrder ==
  \A e, f \in Events :
    Inserted(e) /\ stage[f] = "posted" /\ turn[e] < turn[f] /\ due[e] <= due[f] =>
      stage[e] = "posted"

(* The timer keeps what add_timer_event promises: an event is delivered      *)
(* once, and not before it is due, although both sides read the clock       *)
(* before they take the lock.                                               *)
Delivery == INSTANCE DelayedDelivery WITH
  status <- [e \in Events |-> IF stage[e] = "new" THEN "none"
                              ELSE IF stage[e] = "posted" THEN "delivered"
                              ELSE "waiting"]
Implements == Delivery!Spec

(* Every event added is posted: the timer thread forgets none, and posters   *)
(* and timer thread do not lock each other out.                             *)
AllPosted == \A e \in Events : stage[e] = "timed" ~> stage[e] = "posted"

=============================================================================
