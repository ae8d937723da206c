---------------------------- MODULE MCTimerQueue ----------------------------
(* TimerQueue with a few events. *)
EXTENDS TimerQueue
=============================================================================
