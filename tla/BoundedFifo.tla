---------------------------- MODULE BoundedFifo -----------------------------
(***************************************************************************)
(* What block_queue<T> promises its users: a first-in first-out queue of   *)
(* at most Capacity items, each of which is handed to exactly one caller   *)
(* of pop().                                                               *)
(***************************************************************************)
EXTENDS Integers, Sequences

CONSTANTS Items, Consumers, Capacity

VARIABLES queue,      \* accepted items, oldest first
          delivered   \* the item the last pop() of each consumer returned

Push(x) ==
    /\ Len(queue) < Capacity
    /\ queue' = Append(queue, x)
    /\ UNCHANGED delivered

Pop(c) ==
    /\ queue # <<>>
    /\ delivered' = [delivered EXCEPT ![c] = Head(queue)]
    /\ queue' = Tail(queue)

Next ==
    \/ \E x \in Items : Push(x)
    \/ \E c \in Consumers : Pop(c)

Spec == queue = <<>> /\ [][Next]_<<queue, delivered>>
=============================================================================
