----------------------------- MODULE MCTimerList ----------------------------
(* TimerList for TLC: the addresses of the timers are interchangeable, and *)
(* neither Spec nor a property tells one from another.                     *)
EXTENDS TimerList, TLC

Symmetry == Permutations(Timers)
=============================================================================
