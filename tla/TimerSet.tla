------------------------------ MODULE TimerSet ------------------------------
(***************************************************************************)
(* What sort_timer_lst promises main: a set of timers with deadlines, and  *)
(* a tick that expires exactly the timers that are due.                    *)
(***************************************************************************)
CONSTANTS Timers, Times

VARIABLES deadline,  \* function from the pending timers to their deadlines
          now        \* time of the last tick

LOCAL INSTANCE Integers

Pending == DOMAIN deadline

With(t, e) == [u \in Pending \cup {t} |-> IF u = t THEN e ELSE deadline[u]]

Without(S) == [u \in Pending \ S |-> deadline[u]]

Add(t, e) == t \notin Pending /\ deadline' = With(t, e) /\ UNCHANGED now

Adjust(t, e) == t \in Pending /\ deadline' = With(t, e) /\ UNCHANGED now

Delete(t) == t \in Pending /\ deadline' = Without({t}) /\ UNCHANGED now

Tick(cur) ==
    /\ now' = cur
    /\ deadline' = Without({u \in Pending : deadline[u] <= cur})

Next ==
    \/ \E t \in Timers : \/ \E e \in Times : Add(t, e) \/ Adjust(t, e)
                         \/ Delete(t)
    \/ \E cur \in Times : Tick(cur)

Spec == Pending = {} /\ [][Next]_<<deadline, now>>
=============================================================================
