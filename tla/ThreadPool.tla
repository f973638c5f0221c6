----------------------------- MODULE ThreadPool -----------------------------
(***************************************************************************)
(* threadpool<T> (threadpool/threadpool.h) over sem and locker             *)
(* (lock/locker.h): the main thread appends requests to a list, workers    *)
(* wait on the semaphore m_queuestat and take the requests off the front.  *)
(*                                                                         *)
(* A section under m_queuelocker is one step; the post and the wait of the *)
(* semaphore, which the code does outside the mutex, are steps of their    *)
(* own, and so is the unlocked test of m_stop.                             *)
(***************************************************************************)
EXTENDS Integers, Sequences, FiniteSets

CONSTANTS Workers,        \* the threads the constructor creates
          Requests,       \* the objects append_job is called with
          m_max_requests, \* limit given to the constructor
          NULL            \* no request

ASSUME ThreadPoolAssumption ==
    /\ IsFiniteSet(Workers)
    /\ Workers # {}
    /\ m_max_requests \in Nat \ {0}
    /\ NULL \notin Requests

VARIABLES m_workqueue,  \* list of pending requests
          m_queuestat,  \* value of the semaphore
          m_stop,       \* set by the destructor
          apc,          \* main thread: "idle", or "post" inside append_job
          wpc,          \* where each worker is in run()
          request       \* the request each worker has taken

vars == <<m_workqueue, m_queuestat, m_stop, apc, wpc, request>>

Woken == {w \in Workers : wpc[w] = "pop"}

GotoW(w, l) == wpc' = [wpc EXCEPT ![w] = l]
-----------------------------------------------------------------------------
(* The constructor: an empty list, sem() is 0, every worker enters run(). *)
Init ==
    /\ m_workqueue = <<>>
    /\ m_queuestat = 0
    /\ m_stop = FALSE
    /\ apc = "idle"
    /\ wpc = [w \in Workers |-> "loop"]
    /\ request = [w \in Workers |-> NULL]

(* append_job(): the list is full. *)
QueueFull == Len(m_workqueue) > m_max_requests

(* append_job() returns false; nothing was appended. *)
AppendRefused(r) ==
    /\ apc = "idle"
    /\ QueueFull
    /\ UNCHANGED vars

(* append_job(): the locked section. *)
AppendPush(r) ==
    /\ apc = "idle"
    /\ ~QueueFull
    /\ m_workqueue' = Append(m_workqueue, r)
    /\ apc' = "post"
    /\ UNCHANGED <<m_queuestat, m_stop, wpc, request>>

(* Mutant: the post is forgotten when requests were already pending. *)
PostWhenEmpty ==
    /\ apc = "post"
    /\ m_queuestat' = IF Len(m_workqueue) > 1 THEN m_queuestat
                                              ELSE m_queuestat + 1
    /\ apc' = "idle"
    /\ UNCHANGED <<m_workqueue, m_stop, wpc, request>>

(* append_job(): m_queuestat.post() after the unlock. *)
AppendPost ==
    /\ apc = "post"
    /\ m_queuestat' = m_queuestat + 1
    /\ apc' = "idle"
    /\ UNCHANGED <<m_workqueue, m_stop, wpc, request>>

(* run(): while(!m_stop). *)
TestStop(w) ==
    /\ wpc[w] = "loop"
    /\ GotoW(w, IF m_stop THEN "exit" ELSE "wait")
    /\ UNCHANGED <<m_workqueue, m_queuestat, m_stop, apc, request>>

(* Mutant: does not block when the semaphore is 0. *)
WaitStatNoBlock(w) ==
    /\ wpc[w] = "wait"
    /\ m_queuestat' = m_queuestat - 1
    /\ GotoW(w, "pop")
    /\ UNCHANGED <<m_workqueue, m_stop, apc, request>>

(* run(): m_queuestat.wait(). *)
WaitStat(w) ==
    /\ wpc[w] = "wait"
    /\ m_queuestat > 0
    /\ m_queuestat' = m_queuestat - 1
    /\ GotoW(w, "pop")
    /\ UNCHANGED <<m_workqueue, m_stop, apc, request>>

(* run(): a signal handler runs in a blocked worker, sem_wait returns      *)
(* EINTR, and run() does not look at the result of wait().                 *)
WaitInterrupted(w) ==
    /\ wpc[w] = "wait"
    /\ m_queuestat = 0
    /\ GotoW(w, "pop")
    /\ UNCHANGED <<m_workqueue, m_queuestat, m_stop, apc, request>>

(* Mutant: takes the newest request. *)
PopBack(w) ==
    /\ wpc[w] = "pop"
    /\ IF m_workqueue = <<>>
         THEN /\ GotoW(w, "loop")
              /\ UNCHANGED <<m_workqueue, request>>
         ELSE /\ request' = [request EXCEPT ![w] = m_workqueue[Len(m_workqueue)]]
              /\ m_workqueue' = SubSeq(m_workqueue, 1, Len(m_workqueue) - 1)
              /\ GotoW(w, "run")
    /\ UNCHANGED <<m_queuestat, m_stop, apc>>

(* run(): the locked section, which finds the list empty or takes its      *)
(* front.  The test for a null request is never true: main passes          *)
(* users + sockfd.                                                         *)
Pop(w) ==
    /\ wpc[w] = "pop"
    /\ IF m_workqueue = <<>>
         THEN /\ GotoW(w, "loop")
              /\ UNCHANGED <<m_workqueue, request>>
         ELSE /\ request' = [request EXCEPT ![w] = Head(m_workqueue)]
              /\ m_workqueue' = Tail(m_workqueue)
              /\ GotoW(w, "run")
    /\ UNCHANGED <<m_queuestat, m_stop, apc>>

(* run(): process() has returned and the connectionRAII object is gone. *)
Finish(w) ==
    /\ wpc[w] = "run"
    /\ request' = [request EXCEPT ![w] = NULL]
    /\ GotoW(w, "loop")
    /\ UNCHANGED <<m_workqueue, m_queuestat, m_stop, apc>>

(* ~threadpool(): only sets the flag; nothing wakes or joins a worker. *)
Destroy ==
    /\ apc = "idle"
    /\ m_stop' = TRUE
    /\ apc' = "gone"
    /\ UNCHANGED <<m_workqueue, m_queuestat, wpc, request>>
-----------------------------------------------------------------------------
WorkerStep(w) ==
    \/ TestStop(w)
    \/ WaitStat(w)
    \/ Pop(w)
    \/ Finish(w)

MainStep ==
    \/ AppendPost
    \/ \E r \in Requests : AppendRefused(r) \/ AppendPush(r)

Next ==
    \/ MainStep
    \/ \E w \in Workers : WorkerStep(w) \/ WaitInterrupted(w)
    \/ Destroy

Spec == Init /\ [][Next]_vars

(* The scheduler runs every worker that can run, append_job() is not left  *)
(* half done, and process() returns.  Neither requests nor signals are     *)
(* promised, nor is the semaphore fair to any one worker.                  *)
Fairness ==
    /\ WF_vars(AppendPost)
    /\ \A w \in Workers : WF_vars(WorkerStep(w))

FairSpec == Spec /\ Fairness
-----------------------------------------------------------------------------
Locations == {"loop", "wait", "pop", "run", "exit"}

(* Type invariant: run() holds a request exactly while it processes one. *)
TypeOK ==
    /\ m_workqueue \in Seq(Requests)
    /\ m_queuestat \in Nat
    /\ m_stop \in BOOLEAN
    /\ apc \in {"idle", "post", "gone"}
    /\ wpc \in [Workers -> Locations]
    /\ request \in [Workers -> Requests \cup {NULL}]
    /\ \A w \in Workers : request[w] # NULL <=> wpc[w] = "run"

PendingPost == IF apc = "post" THEN 1 ELSE 0

(* Every pending request has a wake-up of its own: a unit of the semaphore, *)
(* a worker already awake, or the post append_job() is about to do.  A      *)
(* request never sits in the list with all workers asleep, whatever wakes   *)
(* and signals the workers have seen.                                       *)
WakeupPerJob ==
    Len(m_workqueue) <= m_queuestat + Cardinality(Woken) + PendingPost

(* A pending request is processed, unless the pool is destroyed.            *)
JobsRun ==
    \A r \in Requests :
        (\E i \in DOMAIN m_workqueue : m_workqueue[i] = r)
            ~> m_stop \/ \E w \in Workers : request[w] = r
=============================================================================
