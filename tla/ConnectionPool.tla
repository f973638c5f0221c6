--------------------------- MODULE ConnectionPool ---------------------------
(***************************************************************************)
(* connection_pool and connectionRAII (CGImysql/sql_connection_pool.cpp):  *)
(* a list of MySQL handles, the semaphore `reserve' that counts the free   *)
(* ones, and two unsigned counters.  A thread takes a handle in the        *)
(* constructor of connectionRAII and gives it back in its destructor.      *)
(*                                                                         *)
(* Each section between lock.lock() and lock.unlock() is one step.  What   *)
(* the code does outside the mutex is a step of its own: the test of       *)
(* connList.size(), the wait on `reserve' and the post of `reserve'.       *)
(***************************************************************************)
EXTENDS Integers, Sequences, FiniteSets

CONSTANTS Threads,   \* threads that build connectionRAII objects
          Conns,     \* handles mysql_real_connect() can return
          NULL,      \* nullptr
          UIntRange  \* number of values of an unsigned int (2^32 in the build)

ASSUME PoolAssumption ==
    /\ IsFiniteSet(Threads)
    /\ IsFiniteSet(Conns)
    /\ Conns # {}
    /\ NULL \notin Conns
    /\ UIntRange \in Nat
    /\ UIntRange > Cardinality(Conns)

VARIABLES m_maxConn,   \* number of handles init() has opened
          connList,    \* list of free handles
          reserve,     \* value of the semaphore
          m_freeConn,  \* unsigned count of free handles
          m_curConn,   \* unsigned count of handles in use
          closed,      \* handles passed to mysql_close
          pc,          \* where each thread is in getConnection/releaseConnection
          conRAII      \* the handle a thread's connectionRAII object keeps

vars == <<m_maxConn, connList, reserve, m_freeConn, m_curConn, closed, pc, conRAII>>

Listed == {connList[i] : i \in DOMAIN connList}

At(l) == {t \in Threads : pc[t] = l}

Goto(t, l) == pc' = [pc EXCEPT ![t] = l]

Injective(s) == \A i, j \in DOMAIN s : s[i] = s[j] => i = j
-----------------------------------------------------------------------------
(* init(): each of maxConn handles is connected and listed, then           *)
(* reserve = sem(m_freeConn).                                              *)
Init ==
    /\ m_maxConn \in 1..Cardinality(Conns)
    /\ connList \in [1..m_maxConn -> Conns]
    /\ Injective(connList)
    /\ reserve = m_maxConn
    /\ m_freeConn = m_maxConn
    /\ m_curConn = 0
    /\ closed = {}
    /\ pc = [t \in Threads |-> "out"]
    /\ conRAII = [t \in Threads |-> NULL]

(* getConnection(): the test of connList.size(), which holds no lock. *)
CheckSize(t) ==
    /\ pc[t] = "out"
    /\ Goto(t, IF connList = <<>> THEN "use" ELSE "wait")
    /\ UNCHANGED <<connList, reserve, m_freeConn, m_curConn, closed, conRAII>>

(* Mutant: does not block when the semaphore is 0. *)
WaitNoBlock(t) ==
    /\ pc[t] = "wait"
    /\ reserve' = reserve - 1
    /\ Goto(t, "take")
    /\ UNCHANGED <<connList, m_freeConn, m_curConn, closed, conRAII>>

(* getConnection(): reserve.wait() blocks while the semaphore is 0. *)
WaitReserve(t) ==
    /\ pc[t] = "wait"
    /\ reserve > 0
    /\ reserve' = reserve - 1
    /\ Goto(t, "take")
    /\ UNCHANGED <<connList, m_freeConn, m_curConn, closed, conRAII>>

(* getConnection(): a signal handler runs in the blocked thread (SIGALRM   *)
(* and SIGTERM are installed without SA_RESTART), sem_wait returns EINTR   *)
(* and the result of reserve.wait() is not looked at.                      *)
WaitInterrupted(t) ==
    /\ pc[t] = "wait"
    /\ reserve = 0
    /\ Goto(t, "take")
    /\ UNCHANGED <<connList, reserve, m_freeConn, m_curConn, closed, conRAII>>

(* Mutant: reads the front of the list without popping it. *)
TakeKeepsFront(t) ==
    /\ pc[t] = "take"
    /\ connList # <<>>
    /\ conRAII' = [conRAII EXCEPT ![t] = Head(connList)]
    /\ m_freeConn' = (m_freeConn - 1) % UIntRange
    /\ m_curConn' = (m_curConn + 1) % UIntRange
    /\ Goto(t, "use")
    /\ UNCHANGED <<connList, reserve, closed>>

(* getConnection(): the locked section.  front() and pop_front() of an     *)
(* empty list are undefined; the thread goes no further in the model, and  *)
(* FrontExists says whether that can happen.                               *)
Take(t) ==
    /\ pc[t] = "take"
    /\ connList # <<>>
    /\ conRAII' = [conRAII EXCEPT ![t] = Head(connList)]
    /\ connList' = Tail(connList)
    /\ m_freeConn' = (m_freeConn - 1) % UIntRange
    /\ m_curConn' = (m_curConn + 1) % UIntRange
    /\ Goto(t, "use")
    /\ UNCHANGED <<reserve, closed>>

(* ~connectionRAII when getConnection() returned nullptr. *)
ReleaseNull(t) ==
    /\ pc[t] = "use"
    /\ conRAII[t] = NULL
    /\ Goto(t, "out")
    /\ UNCHANGED <<connList, reserve, m_freeConn, m_curConn, closed, conRAII>>

(* Mutant: the handle does not go back to the list. *)
ReleaseLeaks(t) ==
    /\ pc[t] = "use"
    /\ conRAII[t] # NULL
    /\ m_freeConn' = (m_freeConn + 1) % UIntRange
    /\ m_curConn' = (m_curConn - 1) % UIntRange
    /\ conRAII' = [conRAII EXCEPT ![t] = NULL]
    /\ Goto(t, "post")
    /\ UNCHANGED <<connList, reserve, closed>>

(* Mutant: the counters are left alone on release. *)
ReleaseForgetsCounters(t) ==
    /\ pc[t] = "use"
    /\ conRAII[t] # NULL
    /\ connList' = Append(connList, conRAII[t])
    /\ conRAII' = [conRAII EXCEPT ![t] = NULL]
    /\ Goto(t, "post")
    /\ UNCHANGED <<reserve, m_freeConn, m_curConn, closed>>

(* releaseConnection(): the locked section. *)
Release(t) ==
    /\ pc[t] = "use"
    /\ conRAII[t] # NULL
    /\ connList' = Append(connList, conRAII[t])
    /\ m_freeConn' = (m_freeConn + 1) % UIntRange
    /\ m_curConn' = (m_curConn - 1) % UIntRange
    /\ conRAII' = [conRAII EXCEPT ![t] = NULL]
    /\ Goto(t, "post")
    /\ UNCHANGED <<reserve, closed>>

(* Mutant: the semaphore is not posted. *)
NoPost(t) ==
    /\ pc[t] = "post"
    /\ Goto(t, "out")
    /\ UNCHANGED <<connList, reserve, m_freeConn, m_curConn, closed, conRAII>>

(* releaseConnection(): reserve.post(), after the mutex is released. *)
Post(t) ==
    /\ pc[t] = "post"
    /\ reserve' = reserve + 1
    /\ Goto(t, "out")
    /\ UNCHANGED <<connList, m_freeConn, m_curConn, closed, conRAII>>

(* Mutant: closes the handles in use as well as the listed ones. *)
DestroyClosesAll ==
    /\ closed = {}
    /\ connList # <<>>
    /\ closed' = Conns
    /\ connList' = <<>>
    /\ m_curConn' = 0
    /\ m_freeConn' = 0
    /\ UNCHANGED <<reserve, pc, conRAII>>

(* destroyPool(), from the destructor of the static pool object when main  *)
(* returns: once, with the detached workers still running.  It does        *)
(* nothing to an empty list, and never touches the semaphore.              *)
DestroyPool ==
    /\ closed = {}
    /\ connList # <<>>
    /\ closed' = closed \cup Listed
    /\ connList' = <<>>
    /\ m_curConn' = 0
    /\ m_freeConn' = 0
    /\ UNCHANGED <<reserve, pc, conRAII>>
-----------------------------------------------------------------------------
Step(t) ==
    \/ CheckSize(t)
    \/ WaitReserve(t)
    \/ Take(t)
    \/ ReleaseNull(t)
    \/ Release(t)
    \/ Post(t)

Next ==
    /\ \/ \E t \in Threads : Step(t) \/ WaitInterrupted(t)
       \/ DestroyPool
    /\ UNCHANGED m_maxConn

Spec == Init /\ [][Next]_vars

(* Every thread that can take its next step does: the scheduler parks no   *)
(* thread for ever, and a query returns.  No signal is promised.           *)
FairSpec == Spec /\ \A t \in Threads : WF_vars(Step(t) /\ UNCHANGED m_maxConn)
-----------------------------------------------------------------------------
(* The pool is in service and has a handle for every thread: 8 and 8 in    *)
(* main.                                                                   *)
Enough == closed = {} /\ Cardinality(Threads) <= m_maxConn

Holders == {t \in Threads : conRAII[t] # NULL}

Locations == {"out", "wait", "take", "use", "post"}

(* Type invariant. *)
TypeOK ==
    /\ m_maxConn \in 1..Cardinality(Conns)
    /\ connList \in Seq(Conns)
    /\ reserve \in Nat
    /\ m_freeConn \in 0..(UIntRange - 1)
    /\ m_curConn \in 0..(UIntRange - 1)
    /\ closed \in SUBSET Conns
    /\ pc \in [Threads -> Locations]
    /\ conRAII \in [Threads -> Conns \cup {NULL}]

(* With no more threads than handles a thread that has passed              *)
(* reserve.wait() finds a handle in the list: connList.front() in          *)
(* getConnection() is never called on an empty list, although other        *)
(* threads popped it since the size() test.                                *)
FrontExists ==
    Enough => \A t \in At("take") : connList # <<>>

(* A handle is in the free list at most once, and then in no thread's      *)
(* hands; two threads never hold the same handle.                          *)
HandleExclusive ==
    /\ Injective(connList)
    /\ \A t \in Holders : conRAII[t] \notin Listed
    /\ \A t, u \in Holders : conRAII[t] = conRAII[u] => t = u

(* While the pool is in service the counters say what their declarations   *)
(* say: m_freeConn the free handles, m_curConn the handles in use.         *)
CountersExact ==
    closed = {} => /\ m_freeConn = Len(connList)
                   /\ m_curConn = Cardinality(Holders)

(* With no more threads than handles getConnection() neither returns       *)
(* nullptr nor blocks in reserve.wait().                                   *)
NeverShort ==
    Enough =>
        /\ \A t \in At("use") : conRAII[t] # NULL
        /\ \A t \in At("wait") : reserve > 0

(* No thread queries a handle that destroyPool() has closed, and none is   *)
(* handed out.                                                             *)
NoUseAfterClose ==
    /\ \A t \in Holders : conRAII[t] \notin closed
    /\ Listed \cap closed = {}

(* With no more threads than handles, a thread that waits for one gets it, *)
(* unless the pool is destroyed.                                           *)
WaitEnds ==
    \A t \in Threads : pc[t] = "wait" /\ Enough ~> pc[t] = "use" \/ closed # {}
=============================================================================
