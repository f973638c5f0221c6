----------------------------- MODULE TimerList ------------------------------
(***************************************************************************)
(* sort_timer_lst (timer/lst_timer.cpp): the timers of all connections in  *)
(* a doubly linked list, in ascending order of expire.  The list belongs   *)
(* to the main thread; each call is one step.                              *)
(***************************************************************************)
EXTENDS Integers, FiniteSets

CONSTANTS Timers,  \* addresses of util_timer objects
          Times,   \* values of expire and of time(NULL)
          NULL

ASSUME TimerAssumption == NULL \notin Timers /\ Times \subseteq Int

VARIABLES head, tail,  \* of the list
          prev, next,  \* fields of the util_timer objects
          expire,
          live,        \* addresses that are allocated
          now          \* time(NULL) at the last tick()

vars == <<head, tail, prev, next, expire, live, now>>

Pointer == Timers \cup {NULL}

(* The list as one value, so that an operation can go on with the list an  *)
(* earlier part of it has made.                                            *)
List == [head |-> head, tail |-> tail, prev |-> prev, next |-> next]

Becomes(l) ==
    /\ head' = l.head
    /\ tail' = l.tail
    /\ prev' = l.prev
    /\ next' = l.next

(* The last node, starting at n, that the loop of the private add_timer()  *)
(* leaves in its variable prev: the next one expires later than t, or is   *)
(* not there.                                                              *)
LastBefore(l, exp, t, n) ==
    LET walk[m \in Timers] ==
          IF l.next[m] = NULL \/ exp[t] < exp[l.next[m]]
            THEN m
            ELSE walk[l.next[m]]
    IN  walk[n]

(* add_timer(timer, lst_head): behind the last node that does not expire   *)
(* later.                                                                  *)
InsertAfter(l, exp, t, lst_head) ==
    LET p   == LastBefore(l, exp, t, lst_head)
        tmp == l.next[p]
    IN  [l EXCEPT !.next = [@ EXCEPT ![p] = t, ![t] = tmp],
                  !.prev = [q \in Timers |-> IF q = t THEN p
                                             ELSE IF q = tmp THEN t ELSE @[q]],
                  !.tail = IF tmp = NULL THEN t ELSE @]

(* add_timer(timer) *)
Added(l, exp, t) ==
    IF l.head = NULL
      THEN [l EXCEPT !.head = t, !.tail = t]
    ELSE IF exp[t] < exp[l.head]
      THEN [l EXCEPT !.next[t] = l.head, !.prev[l.head] = t, !.head = t]
    ELSE InsertAfter(l, exp, t, l.head)

(* Mutant: a timer taken from the middle is not linked out backwards. *)
AdjustedHalfUnlinked(l, exp, t) ==
    LET tmp == l.next[t]
    IN  IF tmp = NULL \/ exp[t] < exp[tmp]
          THEN l
        ELSE IF t = l.head
          THEN InsertAfter([l EXCEPT !.head = tmp, !.prev[tmp] = NULL,
                                     !.next[t] = NULL], exp, t, tmp)
        ELSE InsertAfter([l EXCEPT !.next[l.prev[t]] = tmp], exp, t, tmp)

(* adjust_timer(timer): timer->expire has been set already. *)
Adjusted(l, exp, t) ==
    LET tmp == l.next[t]
    IN  IF tmp = NULL \/ exp[t] < exp[tmp]
          THEN l
        ELSE IF t = l.head
          THEN InsertAfter([l EXCEPT !.head = tmp, !.prev[tmp] = NULL,
                                     !.next[t] = NULL], exp, t, tmp)
        ELSE InsertAfter([l EXCEPT !.next[l.prev[t]] = tmp,
                                   !.prev[tmp] = l.prev[t]], exp, t, tmp)

(* del_timer(timer) *)
Deleted(l, t) ==
    IF t = l.head /\ t = l.tail
      THEN [l EXCEPT !.head = NULL, !.tail = NULL]
    ELSE IF t = l.head
      THEN [l EXCEPT !.head = l.next[t], !.prev[l.next[t]] = NULL]
    ELSE IF t = l.tail
      THEN [l EXCEPT !.tail = l.prev[t], !.next[l.prev[t]] = NULL]
    ELSE [l EXCEPT !.next[l.prev[t]] = l.next[t], !.prev[l.next[t]] = l.prev[t]]

(* Mutant: a timer is not due at its deadline but after it. *)
DueLate(exp, t, cur) == exp[t] < cur

(* tick(): the loop goes on while the current time is not before expire. *)
Due(exp, t, cur) == ~(cur < exp[t])

(* The nodes tick() calls cb_func for and deletes, from the head on. *)
Expired(l, exp, cur) ==
    LET walk[m \in Pointer] ==
          IF m = NULL \/ ~Due(exp, m, cur) THEN {} ELSE {m} \cup walk[l.next[m]]
    IN  walk[l.head]

(* The node at which the loop of tick() stops, or NULL. *)
FirstLeft(l, dead) ==
    LET walk[m \in Pointer] == IF m \in dead THEN walk[l.next[m]] ELSE m
    IN  walk[l.head]

(* Mutant: head is only set when a timer is left. *)
TickedKeepsHead(l, exp, cur) ==
    LET h == FirstLeft(l, Expired(l, exp, cur))
    IN  IF h = NULL
          THEN l
          ELSE [l EXCEPT !.head = h, !.prev[h] = NULL]

(* tick(): the first node that is left, if any, is the new head; tail is   *)
(* not touched, even when the list becomes empty.                          *)
Ticked(l, exp, cur) ==
    LET h == FirstLeft(l, Expired(l, exp, cur))
    IN  IF h = NULL
          THEN [l EXCEPT !.head = NULL]
          ELSE [l EXCEPT !.head = h, !.prev[h] = NULL]
-----------------------------------------------------------------------------
Init ==
    /\ head = NULL
    /\ tail = NULL
    /\ prev = [t \in Timers |-> NULL]
    /\ next = [t \in Timers |-> NULL]
    /\ expire \in {[t \in Timers |-> e] : e \in Times}
    /\ live = {}
    /\ now \in Times

(* main, accept: new util_timer, expire, timer_lst.add_timer(timer). *)
Add(t, e) ==
    /\ t \notin live
    /\ live' = live \cup {t}
    /\ expire' = [expire EXCEPT ![t] = e]
    /\ Becomes(Added([List EXCEPT !.prev[t] = NULL, !.next[t] = NULL], expire', t))
    /\ UNCHANGED now

(* main, after a read or a write: expire, timer_lst.adjust_timer(timer). *)
Adjust(t, e) ==
    /\ t \in live
    /\ expire' = [expire EXCEPT ![t] = e]
    /\ Becomes(Adjusted(List, expire', t))
    /\ UNCHANGED <<live, now>>

(* main, a connection is closed: timer_lst.del_timer(timer). *)
Delete(t) ==
    /\ t \in live
    /\ live' = live \ {t}
    /\ Becomes(Deleted(List, t))
    /\ UNCHANGED <<expire, now>>

(* timer_handler(): timer_lst.tick(). *)
Tick(cur) ==
    /\ now' = cur
    /\ live' = live \ Expired(List, expire, cur)
    /\ Becomes(Ticked(List, expire, cur))
    /\ UNCHANGED expire

(* A deadline is only ever put off: it is time(NULL) + 3*TIMESLOT each     *)
(* time, and the clock goes forward.                                       *)
Next ==
    \/ \E t \in Timers, e \in Times :
          Add(t, e) \/ (expire[t] <= e /\ Adjust(t, e))
    \/ \E t \in Timers : Delete(t)
    \/ \E cur \in Times : Tick(cur)

Spec == Init /\ [][Next]_vars
-----------------------------------------------------------------------------
(* Type invariant; tail and the fields of freed timers may dangle, head    *)
(* never does.                                                             *)
TypeOK ==
    /\ head \in live \cup {NULL}
    /\ tail \in Pointer
    /\ prev \in [Timers -> Pointer]
    /\ next \in [Timers -> Pointer]
    /\ expire \in [Timers -> Times]
    /\ live \in SUBSET Timers
    /\ now \in Times

(* The nodes that following next from head reaches. *)
Reachable ==
    LET Closed(S) == /\ {head} \ {NULL} \subseteq S
                     /\ {next[t] : t \in S} \subseteq S \cup {NULL}
    IN  {t \in Timers : \A S \in SUBSET Timers : Closed(S) => t \in S}

(* The list holds exactly the allocated timers, prev undoes next, and tail *)
(* ends it: no call follows a pointer to a freed timer or loses one.       *)
(* lst_timer.cpp: "the list container is in ascending order"; tick() stops *)
(* at the first timer that is not due on the strength of it.               *)
WellLinked ==
    /\ Reachable = live
    /\ head # NULL => prev[head] = NULL /\ tail \in live /\ next[tail] = NULL
    /\ \A t \in live : IF next[t] = NULL THEN t = tail
                         ELSE prev[next[t]] = t /\ expire[t] <= expire[next[t]]

(* The list is a set of timers to its caller: whatever the calls before,   *)
(* tick() expires all timers that are due, and no other.                   *)
Abstract == INSTANCE TimerSet
              WITH deadline <- [t \in live |-> expire[t]]
ImplementsTimerSet == Abstract!Spec
=============================================================================
