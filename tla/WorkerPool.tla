----------------------------- MODULE WorkerPool -----------------------------
(***************************************************************************)
(* The path of a request through main, threadpool<http_conn>::run() and    *)
(* connection_pool: main reads from an armed connection and appends its    *)
(* http_conn object; a worker takes it, builds a connectionRAII object     *)
(* that stores a handle in request->mysql, runs process(), which re-arms   *)
(* or closes the connection, and only then gives the handle back.          *)
(*                                                                         *)
(* Between the re-arming in process() and the destructor of connectionRAII *)
(* main may append the same http_conn again and another worker may start   *)
(* on it.  A descriptor may be closed, by its worker or by main (a timer), *)
(* while its object is queued or in process(), and accept() may return the *)
(* number again: the calls of close_conn() and the modfd after it are      *)
(* steps of their own, and meet whatever connection has the number by then.*)
(***************************************************************************)
EXTENDS Integers, Sequences, FiniteSets

CONSTANTS Workers,        \* threads of the pool
          Requests,       \* http_conn objects, one per descriptor
          m_max_requests, \* limit of the request list
          Conns,          \* MySQL handles
          NULL,
          UIntRange

ASSUME WorkerPoolAssumption ==
    /\ IsFiniteSet(Workers) /\ IsFiniteSet(Conns) /\ Conns # {}
    /\ NULL \notin Conns
    /\ UIntRange \in Nat /\ UIntRange > Cardinality(Conns)
    /\ Cardinality(Workers) <= Cardinality(Conns)  \* main makes 8 of each

VARIABLES m_workqueue, m_queuestat, m_stop, apc, wpc, request,
          connList, reserve, m_freeConn, m_curConn, closed, pc, conRAII,
          interest,  \* what epoll waits for on each connection
          m_sockfd,  \* of each object: the descriptor, or NULL for -1
          cpc,       \* where each worker is in close_conn()
          mysql,     \* http_conn::mysql of each object
          returned,  \* workers whose process() has returned
          crossed    \* history: objects taken over by a new connection while
                     \* they were queued or in process()

TP == INSTANCE ThreadPool
CP == INSTANCE ConnectionPool
        WITH Threads <- Workers, m_maxConn <- Cardinality(Conns)

tpvars == <<m_workqueue, m_queuestat, m_stop, apc, wpc, request>>
cpvars == <<connList, reserve, m_freeConn, m_curConn, closed, pc, conRAII>>
connvars == <<interest, m_sockfd, crossed>>
vars == <<tpvars, cpvars, connvars, mysql, cpc, returned>>

(* Armed states of an EPOLLONESHOT registration, "off" once an event was   *)
(* delivered, "closed" when no connection uses the descriptor.             *)
Interest == {"in", "out", "off", "closed"}

Rearmed(r, i) == interest' = [interest EXCEPT ![r] = i]

Processing(w) == wpc[w] = "run" /\ w \notin returned

Queued(r) == {i \in DOMAIN m_workqueue : m_workqueue[i] = r}

Handling(r) == {w \in Workers : Processing(w) /\ request[w] = r}

InFlight(r) == Queued(r) # {} \/ Handling(r) # {}
-----------------------------------------------------------------------------
Init ==
    /\ TP!Init
    /\ CP!Init
    /\ interest = [r \in Requests |-> "in"]
    /\ mysql = [r \in Requests |-> NULL]
    /\ m_sockfd = [r \in Requests |-> r]
    /\ cpc = [w \in Workers |-> "out"]
    /\ returned = {}
    /\ crossed = {}

(* main, EPOLLIN: read() succeeds and append_job() is called; its result   *)
(* is not looked at.                                                       *)
OnReadable(r) ==
    /\ interest[r] = "in"
    /\ m_sockfd[r] # NULL
    /\ TP!AppendPush(r) \/ TP!AppendRefused(r)
    /\ Rearmed(r, "off")
    /\ UNCHANGED <<cpvars, m_sockfd, crossed, mysql, cpc, returned>>

(* main, EPOLLOUT: write() ends with modfd (of -1: the connection stays    *)
(* disarmed) for the next request or for the rest of the response.  One    *)
(* that loops for ever is a main that takes no further step.               *)
OnWritable(r) ==
    /\ interest[r] = "out"
    /\ apc = "idle"
    /\ \E i \in IF m_sockfd[r] = NULL THEN {"off"} ELSE {"in", "out"} : Rearmed(r, i)
    /\ UNCHANGED <<tpvars, cpvars, m_sockfd, crossed, mysql, cpc, returned>>

(* cb_func(): an event of the connection, a failed read() or write(), or a *)
(* timer made for the number, at any time.  m_sockfd stays as it is.       *)
CloseByMain(r) ==
    /\ interest[r] # "closed"
    /\ apc = "idle"
    /\ Rearmed(r, "closed")
    /\ UNCHANGED <<tpvars, cpvars, m_sockfd, crossed, mysql, cpc, returned>>

(* main, a new connection gets the descriptor: users[connfd].init(). *)
OnAccept(r) ==
    /\ interest[r] = "closed"
    /\ apc = "idle"
    /\ Rearmed(r, "in")
    /\ m_sockfd' = [m_sockfd EXCEPT ![r] = r]
    /\ crossed' = IF InFlight(r) THEN crossed \cup {r} ELSE crossed \ {r}
    /\ UNCHANGED <<tpvars, cpvars, mysql, cpc, returned>>

AppendPost ==
    /\ TP!AppendPost
    /\ UNCHANGED <<cpvars, connvars, mysql, cpc, returned>>

(* run() up to the request it takes off the list. *)
TakeRequest(w) ==
    /\ TP!TestStop(w) \/ TP!WaitStat(w) \/ TP!Pop(w)
    /\ UNCHANGED <<cpvars, connvars, mysql, cpc, returned>>

Interrupted(w) ==
    /\ TP!WaitInterrupted(w)
    /\ UNCHANGED <<cpvars, connvars, mysql, cpc, returned>>

(* Mutant: takes a handle off the list without waiting for the semaphore. *)
GetWithoutReserve(w) ==
    /\ Processing(w)
    /\ pc[w] = "out"
    /\ connList # <<>>
    /\ conRAII' = [conRAII EXCEPT ![w] = Head(connList)]
    /\ connList' = Tail(connList)
    /\ m_freeConn' = (m_freeConn - 1) % UIntRange
    /\ m_curConn' = (m_curConn + 1) % UIntRange
    /\ pc' = [pc EXCEPT ![w] = "use"]
    /\ mysql' = [mysql EXCEPT ![request[w]] = conRAII'[w]]
    /\ UNCHANGED <<tpvars, reserve, closed, connvars, cpc, returned>>

(* run(): connectionRAII mysqlcon(&request->mysql, m_connPool).  The value *)
(* getConnection() returns is stored in request->mysql and copied.         *)
GetConnection(w) ==
    /\ Processing(w)
    /\ \/ CP!CheckSize(w)
       \/ CP!WaitReserve(w)
       \/ CP!WaitInterrupted(w)
       \/ CP!Take(w)
    /\ mysql' = IF pc'[w] = "use"
                  THEN [mysql EXCEPT ![request[w]] = conRAII'[w]]
                  ELSE mysql
    /\ UNCHANGED <<tpvars, connvars, cpc, returned>>

(* modfd(m_epollfd, m_sockfd, ...) fails if m_sockfd is -1 or not in epoll. *)
Modfd(r, events) ==
    \E i \in events :
        IF m_sockfd[r] = NULL \/ interest[r] = "closed" THEN UNCHANGED interest
        ELSE Rearmed(r, i)

(* Mutant: the response is armed when the request is taken. *)
ProcessArmsEarly(w) ==
    /\ Processing(w) /\ cpc[w] = "out"
    /\ pc[w] \in {"wait", "use"}
    /\ interest[request[w]] = "off"
    /\ Modfd(request[w], {"in", "out"})
    /\ returned' = IF pc[w] = "use" THEN returned \cup {w} ELSE returned
    /\ UNCHANGED <<tpvars, cpvars, m_sockfd, crossed, mysql, cpc>>

(* run(): request->process() asks for more input, or makes a response and  *)
(* arms it.                                                                *)
Process(w) ==
    /\ Processing(w) /\ cpc[w] = "out"
    /\ pc[w] = "use"
    /\ Modfd(request[w], {"in", "out"})
    /\ returned' = returned \cup {w}
    /\ UNCHANGED <<tpvars, cpvars, m_sockfd, crossed, mysql, cpc>>

(* process(), process_write() fails: close_conn() tests m_sockfd and closes *)
(* the descriptor.                                                         *)
CloseRemoves(w) ==
    /\ Processing(w) /\ cpc[w] = "out"
    /\ pc[w] = "use"
    /\ IF m_sockfd[request[w]] = NULL
         THEN UNCHANGED interest /\ cpc' = [cpc EXCEPT ![w] = "modfd"]
         ELSE Rearmed(request[w], "closed") /\ cpc' = [cpc EXCEPT ![w] = "clear"]
    /\ UNCHANGED <<tpvars, cpvars, m_sockfd, crossed, mysql, returned>>

(* close_conn(): m_sockfd = -1 *)
CloseClears(w) ==
    /\ cpc[w] = "clear"
    /\ m_sockfd' = [m_sockfd EXCEPT ![request[w]] = NULL]
    /\ cpc' = [cpc EXCEPT ![w] = "modfd"]
    /\ UNCHANGED <<tpvars, cpvars, interest, crossed, mysql, returned>>

(* The modfd for EPOLLOUT after close_conn(), the end of process(). *)
ModfdAfterClose(w) ==
    /\ cpc[w] = "modfd"
    /\ Modfd(request[w], {"out"})
    /\ cpc' = [cpc EXCEPT ![w] = "out"]
    /\ returned' = returned \cup {w}
    /\ UNCHANGED <<tpvars, cpvars, m_sockfd, crossed, mysql>>

(* ~connectionRAII at the end of the loop body. *)
ReleaseConnection(w) ==
    /\ w \in returned
    /\ CP!Release(w) \/ CP!ReleaseNull(w) \/ CP!Post(w)
    /\ UNCHANGED <<tpvars, connvars, mysql, cpc, returned>>

(* Mutant: the next iteration starts without the destructor. *)
EndIterationEarly(w) ==
    /\ w \in returned
    /\ TP!Finish(w)
    /\ returned' = returned \ {w}
    /\ UNCHANGED <<cpvars, connvars, mysql, cpc>>

(* The next iteration of run(). *)
EndIteration(w) ==
    /\ w \in returned
    /\ pc[w] = "out"
    /\ TP!Finish(w)
    /\ returned' = returned \ {w}
    /\ UNCHANGED <<cpvars, connvars, mysql, cpc>>
-----------------------------------------------------------------------------
WorkerStep(w) ==
    \/ TakeRequest(w)
    \/ GetConnection(w)
    \/ Process(w) \/ CloseRemoves(w) \/ CloseClears(w) \/ ModfdAfterClose(w)
    \/ ReleaseConnection(w)
    \/ EndIteration(w)

Next ==
    \/ AppendPost
    \/ \E r \in Requests :
          OnReadable(r) \/ OnWritable(r) \/ CloseByMain(r) \/ OnAccept(r)
    \/ \E w \in Workers : WorkerStep(w) \/ Interrupted(w)

Spec == Init /\ [][Next]_vars
-----------------------------------------------------------------------------
(* Type invariant of the state this module adds; a connectionRAII object   *)
(* lives within the loop body of run(), on a request, and close_conn() is  *)
(* called within its life.                                                 *)
TypeOK ==
    /\ interest \in [Requests -> Interest]
    /\ m_sockfd \in [Requests -> Requests \cup {NULL}]
    /\ mysql \in [Requests -> Conns \cup {NULL}]
    /\ returned \in SUBSET {w \in Workers : wpc[w] = "run"}
    /\ crossed \in SUBSET Requests
    /\ cpc \in [Workers -> {"out", "clear", "modfd"}]
    /\ \A w \in Workers : /\ pc[w] # "out" => wpc[w] = "run"
                          /\ cpc[w] # "out" => Processing(w) /\ pc[w] = "use"

(* EPOLLONESHOT at work: an http_conn is armed, or in the request list     *)
(* once, or inside process() of one worker, never two of these, so main    *)
(* and the workers never touch the object at the same time, whatever main  *)
(* closes under a worker.  The one way out: the number is accepted again   *)
(* while the object is still queued or in process(), and the modfd at the  *)
(* end of that process() arms the new connection (http_conn.cpp:867-872).  *)
(* It ends with the next accept() of the number that finds it idle.        *)
SingleFlight ==
    \A r \in Requests \ crossed :
        Cardinality(Queued(r)) + Cardinality(Handling(r))
          + (IF interest[r] \in {"in", "out"} THEN 1 ELSE 0) <= 1

(* While process() runs, request->mysql is the handle its own worker holds *)
(* although the worker before it may not have released its own yet; with   *)
(* the exception of SingleFlight (threadpool.h:132 overwrites it).         *)
OwnHandle ==
    \A w \in Workers :
        Processing(w) /\ pc[w] = "use" /\ request[w] \notin crossed =>
            mysql[request[w]] = conRAII[w] /\ conRAII[w] # NULL

(* The workers use the connection pool the way ConnectionPool describes,   *)
(* and no handle is given to two of them.                                  *)
ImplementsPool == CP!Spec
=============================================================================
