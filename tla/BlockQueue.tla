----------------------------- MODULE BlockQueue -----------------------------
(***************************************************************************)
(* block_queue<T> (log/block_queue.h): a ring buffer with one mutex and    *)
(* one condition variable.  m_front is the index of the element last       *)
(* popped, m_back of the one last pushed; both start at -1.                *)
(*                                                                         *)
(* All state is protected by m_mutex, so an operation that locks, works    *)
(* and unlocks is one step; pop() is split at m_cond.wait(), which gives   *)
(* the mutex away.  clear(), front(), back() and the timed pop() have no   *)
(* caller in the server and are left out.                                  *)
(***************************************************************************)
EXTENDS Integers, Sequences, FiniteSets

CONSTANTS Consumers,   \* threads that pop
          Items,       \* what is queued
          m_max_size,  \* capacity, at least 1
          NULL         \* a slot never written, or no item

VARIABLES m_array,  \* the slots, 0 .. m_max_size - 1
          m_size, m_front, m_back,
          m_cond,   \* consumers blocked in m_cond.wait()
          cpc,      \* where each consumer is
          item      \* the item the last pop() of each consumer returned

ring == <<m_array, m_size, m_front, m_back>>
vars == <<ring, m_cond, cpc, item>>

Slots == 0..(m_max_size - 1)

(* full() *)
Full == m_size >= m_max_size

(* The queued items, oldest first. *)
Contents == [i \in 1..m_size |-> m_array[(m_front + i) % m_max_size]]
-----------------------------------------------------------------------------
(* The constructor. *)
Init ==
    /\ m_array = [i \in Slots |-> NULL]
    /\ m_size = 0
    /\ m_front = -1
    /\ m_back = -1
    /\ m_cond = {}
    /\ cpc = [c \in Consumers |-> "idle"]
    /\ item = [c \in Consumers |-> NULL]

(* Mutant: nobody is woken. *)
NoBroadcast == UNCHANGED <<m_cond, cpc>>

(* m_cond.broadcast(): all who wait have to get the mutex again. *)
Broadcast ==
    /\ m_cond' = {}
    /\ cpc' = [c \in Consumers |-> IF c \in m_cond THEN "woken" ELSE cpc[c]]

(* push() on a full queue wakes the waiters and returns false. *)
PushFull ==
    /\ Full
    /\ Broadcast
    /\ UNCHANGED <<ring, item>>

(* Mutant: a full queue is detected one element too late. *)
PushOverwrites(x) ==
    /\ m_size <= m_max_size
    /\ m_back' = (m_back + 1) % m_max_size
    /\ m_array' = [m_array EXCEPT ![m_back'] = x]
    /\ m_size' = m_size + 1
    /\ Broadcast
    /\ UNCHANGED <<m_front, item>>

(* push() *)
Push(x) ==
    /\ ~Full
    /\ m_back' = (m_back + 1) % m_max_size
    /\ m_array' = [m_array EXCEPT ![m_back'] = x]
    /\ m_size' = m_size + 1
    /\ Broadcast
    /\ UNCHANGED <<m_front, item>>

(* pop(), on entry or back from m_cond.wait(): nothing to take. *)
PopWait(c) ==
    /\ cpc[c] # "wait"
    /\ m_size <= 0
    /\ m_cond' = m_cond \cup {c}
    /\ cpc' = [cpc EXCEPT ![c] = "wait"]
    /\ UNCHANGED <<ring, item>>

(* Mutant: the element pushed last is taken. *)
PopNewest(c) ==
    /\ cpc[c] # "wait"
    /\ m_size > 0
    /\ item' = [item EXCEPT ![c] = m_array[m_back]]
    /\ m_back' = (m_back - 1) % m_max_size
    /\ m_size' = m_size - 1
    /\ cpc' = [cpc EXCEPT ![c] = "idle"]
    /\ UNCHANGED <<m_array, m_front, m_cond>>

(* pop(), on entry or back from m_cond.wait(): takes an element. *)
Pop(c) ==
    /\ cpc[c] # "wait"
    /\ m_size > 0
    /\ m_front' = (m_front + 1) % m_max_size
    /\ item' = [item EXCEPT ![c] = m_array[m_front']]
    /\ m_size' = m_size - 1
    /\ cpc' = [cpc EXCEPT ![c] = "idle"]
    /\ UNCHANGED <<m_array, m_back, m_cond>>

(* pthread_cond_wait may return without a broadcast. *)
SpuriousWakeup(c) ==
    /\ c \in m_cond
    /\ m_cond' = m_cond \ {c}
    /\ cpc' = [cpc EXCEPT ![c] = "woken"]
    /\ UNCHANGED <<ring, item>>
-----------------------------------------------------------------------------
Next ==
    \/ PushFull
    \/ \E x \in Items : Push(x)
    \/ \E c \in Consumers : Pop(c) \/ PopWait(c) \/ SpuriousWakeup(c)

Spec == Init /\ [][Next]_vars
-----------------------------------------------------------------------------
(* Type invariant: the size and both indices stay within the ring. *)
TypeOK ==
    /\ m_array \in [Slots -> Items \cup {NULL}]
    /\ m_size \in 0..m_max_size
    /\ m_front \in -1..(m_max_size - 1)
    /\ m_back \in -1..(m_max_size - 1)
    /\ m_cond \in SUBSET Consumers
    /\ cpc \in [Consumers -> {"idle", "wait", "woken"}]
    /\ item \in [Consumers -> Items \cup {NULL}]

(* The ring buffer with its three indices is a bounded FIFO queue: pop()   *)
(* returns the items push() accepted, in their order, each one once.       *)
Fifo == INSTANCE BoundedFifo WITH queue <- Contents, delivered <- item,
                                  Capacity <- m_max_size
ImplementsFifo == Fifo!Spec
=============================================================================
