--------------------------- MODULE DelayedDelivery ---------------------------
(***************************************************************************)
(* What the server's handlers rely on when they call add_timer_event: an    *)
(* event is delivered to the completion port once, and no sooner than its  *)
(* delay after the call. NpcLifecycle forgets the delay, too: its "pending" *)
(* is the bag of the events that wait here.                                 *)
(***************************************************************************)
EXTENDS Naturals

CONSTANTS
  Events,       (* calls of add_timer_event                                 *)
  Delays,       (* the delays asked for                                     *)
  MaxClock      (* bound: the time at which the last event is due           *)

VARIABLES
  clock,        (* the time                                                 *)
  status,       (* of each event: "none", "waiting" or "delivered"          *)
  due           (* when it is to be delivered                               *)

vars == <<clock, status, due>>

Init ==
  /\ clock = 0
  /\ status = [e \in Events |-> "none"]
  /\ due = [e \in Events |-> 0]

Tick ==
  /\ clock < MaxClock
  /\ clock' = clock + 1
  /\ UNCHANGED <<status, due>>

Ask(e, delay) ==
  /\ status[e] = "none"
  /\ clock + delay <= MaxClock
  /\ status' = [status EXCEPT ![e] = "waiting"]
  /\ due' = [due EXCEPT ![e] = clock + delay]
  /\ UNCHANGED clock

Deliver(e) ==
  /\ status[e] = "waiting"
  /\ due[e] <= clock
  /\ status' = [status EXCEPT ![e] = "delivered"]
  /\ UNCHANGED <<clock, due>>

Next ==
  \/ Tick
  \/ \E e \in Events : Deliver(e) \/ \E delay \in Delays : Ask(e, delay)

Spec == Init /\ [][Next]_vars

=============================================================================
