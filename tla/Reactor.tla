------------------------------- MODULE Reactor -------------------------------
(***************************************************************************)
(* The event loop of main() (server.cpp) with the life of a connection     *)
(* around it: accept, the http_conn object users[fd], the timer of the     *)
(* connection, the batch of events epoll_wait returned, the signals that   *)
(* come through the pipe, the idle timeout, and the workers inside         *)
(* http_conn::process(), which re-arm or close a descriptor concurrently.  *)
(*                                                                         *)
(* A descriptor is used by one connection after another; users[fd],        *)
(* users_timer[fd], pending events and timers carry the number, not the    *)
(* connection.  Main handles an event in one step: what it shares with the *)
(* workers (registration, m_sockfd, the counter) it touches once each.     *)
(* The calls a worker makes while it closes a connection are separate      *)
(* steps.  The list of timers is the set TimerSet describes, with the time *)
(* left in place of the deadline.                                          *)
(***************************************************************************)
EXTENDS Integers, Sequences, FiniteSets

CONSTANTS Fds,            \* descriptor numbers accept() can return
          Conns,          \* connections clients make, and their timers
          Workers,        \* worker threads
          NULL,
          MAX_FD,         \* limit on m_user_count
          Lifetime,       \* idle time allowed, in TIMESLOTs
          MaxActs         \* bound: how often each client sends, and whether
                          \* it does anything at all

ASSUME ReactorAssumption ==
    /\ IsFiniteSet(Fds) /\ IsFiniteSet(Conns)
    /\ NULL \notin Fds \cup Conns
    /\ MAX_FD \in Nat /\ Lifetime \in Nat \ {0} /\ MaxActs \in [Conns -> Nat]

VARIABLES
    main,          \* "run"; "accept" in the accept loop; "hung" in a write()
                   \* that never returns; "exit" after the loop; "undefined"
                   \* after the use of a freed timer
    batch,         \* events of the last epoll_wait not handled yet
    stop_server,
    alarmed,       \* alarm(TIMESLOT) is pending
    pipe,          \* signals written to pipefd[1] and not read
    sock,          \* connection that is open on each descriptor, or NULL
    ep,            \* registration in epollfd: "none", "in", "out" or "off"
    m_sockfd,      \* users[fd].m_sockfd
    m_read_buf,    \* descriptors whose users[fd] holds data
    m_iv,          \* of users[fd]: "whole" as process_write() left it; "rest"
                   \* after EAGAIN; "none" if EAGAIN left no byte in it
    users_timer,   \* users_timer[fd].timer, which may have been freed
    user_data,     \* descriptor each timer was made for
    left,          \* time left of each timer in the list
    m_user_count,
    m_workqueue,   \* requests of the thread pool
    wpc, request,  \* where each worker is in process(), and on which users[fd]
    loaded,        \* m_user_count as the worker has loaded it
    unread,        \* connections with data that has not been read
    ended,         \* connections whose client has closed its end
    acts,          \* how often each client may still send
    backlog        \* connections accept() has not returned yet

connvars == <<sock, ep, m_sockfd, m_read_buf, m_iv, m_user_count>>
timervars == <<users_timer, user_data, left>>
workvars == <<m_workqueue, wpc, request, loaded>>
clientvars == <<unread, ended, acts, backlog>>
loopvars == <<main, batch, stop_server, alarmed, pipe>>
vars == <<loopvars, connvars, timervars, workvars, clientvars>>

Live == DOMAIN left

Event == [kind : {"listen", "pipe"}, fd : {NULL}]
           \cup [kind : {"hup", "in", "out"}, fd : Fds]

Without(S) == [c \in Live \ S |-> left[c]]

Prolonged(c) == [left EXCEPT ![c] = Lifetime]
-----------------------------------------------------------------------------
Init ==
    /\ main = "run"
    /\ batch = {}
    /\ stop_server = FALSE
    /\ alarmed = TRUE
    /\ pipe = {}
    /\ sock = [f \in Fds |-> NULL]
    /\ ep = [f \in Fds |-> "none"]
    /\ m_sockfd = [f \in Fds |-> NULL]
    /\ m_read_buf = {}
    /\ m_iv = [f \in Fds |-> "whole"]
    /\ users_timer = [f \in Fds |-> NULL]
    /\ user_data = [c \in Conns |-> NULL]
    /\ left = [c \in {} |-> 0]
    /\ m_user_count = 0
    /\ m_workqueue = <<>>
    /\ wpc = [w \in Workers |-> "idle"]
    /\ request = [w \in Workers |-> NULL]
    /\ loaded = [w \in Workers |-> 0]
    /\ unread = {}
    /\ ended = {}
    /\ acts = MaxActs
    /\ backlog = {}
-----------------------------------------------------------------------------
(* Clients, time and signals. *)

(* A client connects; each element of Conns does so once. *)
Connect(c) ==
    /\ c \notin backlog
    /\ user_data[c] = NULL
    /\ c \notin ended
    /\ backlog' = backlog \cup {c}
    /\ UNCHANGED <<loopvars, connvars, timervars, workvars, unread, ended, acts>>

Open(c) == c \in backlog \/ \E f \in Fds : sock[f] = c

ClientSends(c) ==
    /\ Open(c)
    /\ c \notin unread \cup ended
    /\ acts[c] > 0
    /\ unread' = unread \cup {c}
    /\ acts' = [acts EXCEPT ![c] = @ - 1]
    /\ UNCHANGED <<loopvars, connvars, timervars, workvars, ended, backlog>>

(* The client closes its end; one that never sends never does. *)
ClientEnds(c) ==
    /\ Open(c)
    /\ MaxActs[c] # 0 /\ c \notin ended
    /\ ended' = ended \cup {c}
    /\ UNCHANGED <<loopvars, connvars, timervars, workvars, unread, acts, backlog>>

(* One TIMESLOT passes; a pending alarm goes off and sig_handler writes    *)
(* SIGALRM to the pipe.                                                    *)
Tock ==
    /\ left' = [c \in Live |-> IF left[c] = 0 THEN 0 ELSE left[c] - 1]
    /\ pipe' = IF alarmed THEN pipe \cup {"SIGALRM"} ELSE pipe
    /\ alarmed' = FALSE
    /\ UNCHANGED <<main, batch, stop_server, connvars, users_timer, user_data,
                   workvars, clientvars>>

(* SIGTERM comes, but not again after it was handled. *)
Terminate ==
    /\ "SIGTERM" \notin pipe /\ ~stop_server
    /\ pipe' = pipe \cup {"SIGTERM"}
    /\ UNCHANGED <<main, batch, stop_server, alarmed, connvars, timervars,
                   workvars, clientvars>>
-----------------------------------------------------------------------------
(* main() *)

(* What epoll reports of a registered connection: an end of the stream     *)
(* whatever it waits for, input, or room for output, which is always there. *)
Reported(f) ==
    IF sock[f] = NULL \/ ep[f] \notin {"in", "out"} THEN {}
    ELSE IF sock[f] \in ended THEN {"hup"}
    ELSE IF ep[f] = "out" THEN {"out"}
    ELSE IF sock[f] \in unread THEN {"in"}
    ELSE {}

Ready ==
    [kind : {"listen" : b \in backlog} \cup {"pipe" : s \in pipe}, fd : {NULL}]
      \cup UNION {[kind : Reported(f), fd : {f}] : f \in Fds}

(* EPOLLONESHOT: a connection that is reported is disarmed. *)
Disarmed(F) == [f \in Fds |-> IF f \in F THEN "off" ELSE ep[f]]

(* epoll_wait() returns all ready events. *)
EpollWait ==
    /\ main = "run" /\ batch = {} /\ ~stop_server
    /\ Ready # {}
    /\ batch' = Ready
    /\ ep' = Disarmed({e.fd : e \in Ready} \ {NULL})
    /\ UNCHANGED <<main, stop_server, alarmed, pipe, sock, m_sockfd, m_read_buf,
                   m_iv, m_user_count, timervars, workvars, clientvars>>

(* while(!stop_server) ends, and with main() the process. *)
Exit ==
    /\ main = "run" /\ batch = {} /\ stop_server
    /\ main' = "exit"
    /\ UNCHANGED <<batch, stop_server, alarmed, pipe, connvars, timervars,
                   workvars, clientvars>>

Handle(kind, f) ==
    LET e == [kind |-> kind, fd |-> f]
    IN  main = "run" /\ e \in batch /\ batch' = batch \ {e}

(* listenfd is readable: while(1) accept(). *)
OnListen ==
    /\ Handle("listen", NULL)
    /\ main' = "accept"
    /\ UNCHANGED <<stop_server, alarmed, pipe, connvars, timervars, workvars,
                   clientvars>>

(* The test for too many users. *)
LimitReached == m_user_count >= MAX_FD

(* Mutant: the timer is not stored in users_timer[connfd]. *)
NewTimerUnbound(c, f) ==
    /\ user_data' = [user_data EXCEPT ![c] = f]
    /\ left' = [d \in Live \cup {c} |-> IF d = c THEN Lifetime ELSE left[d]]
    /\ UNCHANGED users_timer

(* new util_timer, which replaces whatever users_timer[f].timer pointed to. *)
NewTimer(c, f) ==
    /\ user_data' = [user_data EXCEPT ![c] = f]
    /\ left' = [d \in Live \cup {c} |-> IF d = c THEN Lifetime ELSE left[d]]
    /\ users_timer' = [users_timer EXCEPT ![f] = c]

(* accept() returns f for c: users[f].init() and a new timer. *)
Accept(c, f) ==
    /\ main = "accept" /\ c \in backlog /\ sock[f] = NULL
    /\ ~LimitReached
    /\ backlog' = backlog \ {c}
    /\ sock' = [sock EXCEPT ![f] = c]
    /\ m_sockfd' = [m_sockfd EXCEPT ![f] = f]
    /\ ep' = [ep EXCEPT ![f] = "in"]
    /\ m_user_count' = m_user_count + 1
    /\ m_read_buf' = m_read_buf \ {f}
    /\ NewTimer(c, f)
    /\ UNCHANGED <<loopvars, m_iv, workvars, unread, ended, acts>>

(* Too many users: show_error() closes the new socket, the loop ends. *)
AcceptRefused(c) ==
    /\ main = "accept" /\ c \in backlog
    /\ \E f \in Fds : sock[f] = NULL
    /\ LimitReached
    /\ backlog' = backlog \ {c}
    /\ ended' = ended \cup {c}
    /\ main' = "run"
    /\ UNCHANGED <<batch, stop_server, alarmed, pipe, connvars, timervars, workvars,
                   unread, acts>>

(* accept() < 0: nobody waits, or the process has no descriptor left. *)
AcceptEnds ==
    /\ main = "accept"
    /\ backlog = {} \/ \A f \in Fds : sock[f] # NULL
    /\ main' = "run"
    /\ UNCHANGED <<batch, stop_server, alarmed, pipe, connvars, timervars,
                   workvars, clientvars>>

(* Mutant: the counter is left alone. *)
CbFuncNoCount(T) ==
    LET F == {user_data[c] : c \in T}
    IN  /\ ep' = [f \in Fds |-> IF f \in F THEN "none" ELSE ep[f]]
        /\ sock' = [f \in Fds |-> IF f \in F THEN NULL ELSE sock[f]]
        /\ UNCHANGED m_user_count

(* cb_func() for each timer of T: whatever connection has the descriptor   *)
(* is removed from epoll and closed.  users[fd].m_sockfd stays as it is.   *)
CbFunc(T) ==
    LET F == {user_data[c] : c \in T}
    IN  /\ ep' = [f \in Fds |-> IF f \in F THEN "none" ELSE ep[f]]
        /\ sock' = [f \in Fds |-> IF f \in F THEN NULL ELSE sock[f]]
        /\ m_user_count' = m_user_count - Cardinality(T)

(* Every branch for a connection goes through users_timer[f].timer.  It is *)
(* undefined behaviour when a tick earlier in the batch has freed it.      *)
OnFreedTimer(kind, f) ==
    /\ Handle(kind, f)
    /\ users_timer[f] \notin Live
    /\ main' = "undefined"
    /\ UNCHANGED <<stop_server, alarmed, pipe, connvars, timervars, workvars,
                   clientvars>>

(* Mutant: the timer stays in the list. *)
CloseKeepsTimer(f) ==
    /\ CbFunc({users_timer[f]})
    /\ UNCHANGED <<main, stop_server, alarmed, pipe, m_sockfd, m_read_buf, m_iv,
                   timervars, workvars, clientvars>>

(* timer->cb_func(&users_timer[sockfd]); timer_lst.del_timer(timer). *)
CloseByMain(f) ==
    /\ CbFunc({users_timer[f]})
    /\ left' = Without({users_timer[f]})
    /\ UNCHANGED <<main, stop_server, alarmed, pipe, m_sockfd, m_read_buf, m_iv,
                   users_timer, user_data, workvars, clientvars>>

OnHangup(f) ==
    /\ Handle("hup", f)
    /\ users_timer[f] \in Live
    /\ CloseByMain(f)

(* recv() through m_sockfd meets an open socket whose peer has not ended.  *)
CanRead(f) == m_sockfd[f] # NULL /\ sock[f] # NULL /\ sock[f] \notin ended

(* EPOLLIN, read() is true: what is there (after the descriptor changed    *)
(* hands it may be nothing) is read.  append_job() refuses the request if  *)
(* the list is full, of requests this model need not have; main does not   *)
(* look at the result, and puts the timer off.                             *)
OnReadable(f) ==
    /\ Handle("in", f)
    /\ users_timer[f] \in Live
    /\ CanRead(f)
    /\ m_read_buf' = IF sock[f] \in unread THEN m_read_buf \cup {f} ELSE m_read_buf
    /\ unread' = unread \ {sock[f]}
    /\ m_workqueue' \in {Append(m_workqueue, f), m_workqueue}
    /\ left' = Prolonged(users_timer[f])
    /\ UNCHANGED <<main, stop_server, alarmed, pipe, sock, ep, m_sockfd, m_iv,
                   m_user_count, users_timer, user_data, wpc, request, loaded,
                   ended, acts, backlog>>

(* EPOLLIN, read() is false: the peer ended, an error, or a full buffer. *)
OnReadFails(f) ==
    /\ Handle("in", f)
    /\ users_timer[f] \in Live
    /\ CloseByMain(f)

(* writev() through m_sockfd meets an open socket. *)
CanWrite(f) == m_sockfd[f] # NULL /\ sock[f] # NULL

(* EPOLLOUT, write() sends all of the response, the connection is kept. *)
OnWritable(f) ==
    /\ Handle("out", f)
    /\ users_timer[f] \in Live
    /\ CanWrite(f) /\ m_iv[f] # "none"
    /\ ep' = [ep EXCEPT ![f] = "in"]
    /\ m_read_buf' = m_read_buf \ {f}
    /\ left' = Prolonged(users_timer[f])
    /\ UNCHANGED <<main, stop_server, alarmed, pipe, sock, m_sockfd, m_iv,
                   m_user_count, users_timer, user_data, workvars, clientvars>>

(* EPOLLOUT, the output buffer fills up: EAGAIN (bound: once for each       *)
(* response).  One without a file may be left with m_iv[0] of length 0,    *)
(* and bytes_to_send above 0.                                              *)
OnWriteBlocks(f) ==
    /\ Handle("out", f)
    /\ users_timer[f] \in Live
    /\ CanWrite(f) /\ m_iv[f] = "whole"
    /\ ep' = [ep EXCEPT ![f] = "out"]
    /\ \E i \in {"rest", "none"} : m_iv' = [m_iv EXCEPT ![f] = i]
    /\ left' = Prolonged(users_timer[f])
    /\ UNCHANGED <<main, stop_server, alarmed, pipe, sock, m_sockfd, m_read_buf,
                   m_user_count, users_timer, user_data, workvars, clientvars>>

(* EPOLLOUT, write() never returns: writev() has nothing to send and says  *)
(* 0, bytes_to_send stays above 0, and main stays in the loop.             *)
OnWriteHangs(f) ==
    /\ Handle("out", f)
    /\ users_timer[f] \in Live
    /\ CanWrite(f) /\ m_iv[f] = "none"
    /\ main' = "hung"
    /\ UNCHANGED <<stop_server, alarmed, pipe, connvars, timervars, workvars,
                   clientvars>>

(* EPOLLOUT, write() is false: an error, or all is sent without keep-alive. *)
OnWriteFails(f) ==
    /\ Handle("out", f)
    /\ users_timer[f] \in Live
    /\ CloseByMain(f)

(* Mutant: the next alarm is not set. *)
TimerHandlerOnce ==
    LET due == {c \in Live : left[c] = 0}
    IN  CbFunc(due) /\ left' = Without(due) /\ UNCHANGED alarmed

(* timer_handler(): tick(), alarm(TIMESLOT). *)
TimerHandler ==
    LET due == {c \in Live : left[c] = 0}
    IN  CbFunc(due) /\ left' = Without(due) /\ alarmed' = TRUE

(* pipefd[0]: all signals are read; SIGALRM sets timeout, and the same     *)
(* turn of the for loop ends with timer_handler().                         *)
OnSignals ==
    /\ Handle("pipe", NULL)
    /\ pipe' = {}
    /\ stop_server' = (stop_server \/ "SIGTERM" \in pipe)
    /\ IF "SIGALRM" \in pipe
         THEN TimerHandler
         ELSE UNCHANGED <<ep, sock, m_user_count, left, alarmed>>
    /\ UNCHANGED <<main, m_sockfd, m_read_buf, m_iv, users_timer, user_data,
                   workvars, clientvars>>
-----------------------------------------------------------------------------
(* Workers: http_conn::process() on users[request[w]]. *)

GotoW(w, l) == wpc' = [wpc EXCEPT ![w] = l]

Take(w) ==
    /\ wpc[w] = "idle"
    /\ m_workqueue # <<>>
    /\ request' = [request EXCEPT ![w] = Head(m_workqueue)]
    /\ m_workqueue' = Tail(m_workqueue)
    /\ GotoW(w, "process")
    /\ UNCHANGED <<loopvars, connvars, timervars, loaded, clientvars>>

(* process_read() wants more input. *)
ProcessIncomplete(w) ==
    /\ wpc[w] = "process"
    /\ GotoW(w, "mod_in")
    /\ UNCHANGED <<loopvars, connvars, timervars, m_workqueue, request, loaded,
                   clientvars>>

(* process_write() makes a response. *)
ProcessResponds(w) ==
    LET f == request[w]
    IN  /\ wpc[w] = "process"
        /\ f \in m_read_buf
        /\ m_iv' = [m_iv EXCEPT ![f] = "whole"]
        /\ GotoW(w, "mod_out")
        /\ UNCHANGED <<loopvars, sock, ep, m_sockfd, m_read_buf, m_user_count,
                       timervars, m_workqueue, request, loaded, clientvars>>

(* process_write() is false: BAD_REQUEST, NO_RESOURCE, an empty file. *)
ProcessFails(w) ==
    /\ wpc[w] = "process"
    /\ request[w] \in m_read_buf
    /\ GotoW(w, "close")
    /\ UNCHANGED <<loopvars, connvars, timervars, m_workqueue, request, loaded,
                   clientvars>>

(* close_conn(): the test of m_sockfd, and removefd(). *)
CloseRemoves(w) ==
    LET f == request[w]
    IN  /\ wpc[w] = "close"
        /\ IF m_sockfd[f] = NULL
             THEN /\ GotoW(w, "mod_out")
                  /\ UNCHANGED <<ep, sock>>
             ELSE /\ ep' = [ep EXCEPT ![f] = "none"]
                  /\ sock' = [sock EXCEPT ![f] = NULL]
                  /\ GotoW(w, "clear")
        /\ UNCHANGED <<loopvars, m_sockfd, m_read_buf, m_iv, m_user_count,
                       timervars, m_workqueue, request, loaded, clientvars>>

(* close_conn(): m_sockfd = -1, and the load of m_user_count--. *)
CloseClears(w) ==
    /\ wpc[w] = "clear"
    /\ m_sockfd' = [m_sockfd EXCEPT ![request[w]] = NULL]
    /\ loaded' = [loaded EXCEPT ![w] = m_user_count]
    /\ GotoW(w, "store")
    /\ UNCHANGED <<loopvars, sock, ep, m_read_buf, m_iv, m_user_count, timervars,
                   m_workqueue, request, clientvars>>

(* close_conn(): the store of m_user_count--, a plain int.  If another     *)
(* thread changed it since the load, either update may be lost.            *)
CloseCounts(w) ==
    /\ wpc[w] = "store"
    /\ m_user_count' \in IF m_user_count = loaded[w]
                           THEN {loaded[w] - 1}
                           ELSE {loaded[w] - 1, m_user_count - 1, m_user_count}
    /\ loaded' = [loaded EXCEPT ![w] = 0]
    /\ GotoW(w, "mod_out")
    /\ UNCHANGED <<loopvars, sock, ep, m_sockfd, m_read_buf, m_iv, timervars,
                   m_workqueue, request, clientvars>>

(* Mutant: run() keeps the request. *)
ModfdKeepsRequest(w) ==
    LET f  == request[w]
        to == IF wpc[w] = "mod_in" THEN "in" ELSE "out"
    IN  /\ wpc[w] \in {"mod_in", "mod_out"}
        /\ ep' = IF m_sockfd[f] # NULL /\ ep[f] # "none"
                   THEN [ep EXCEPT ![f] = to] ELSE ep
        /\ GotoW(w, "idle")
        /\ UNCHANGED <<loopvars, sock, m_sockfd, m_read_buf, m_iv, m_user_count,
                       timervars, m_workqueue, request, loaded, clientvars>>

(* modfd(m_epollfd, m_sockfd, EPOLLIN or EPOLLOUT), the end of process():  *)
(* fails, unnoticed, if m_sockfd is -1 or not registered.                  *)
Modfd(w) ==
    LET f  == request[w]
        to == IF wpc[w] = "mod_in" THEN "in" ELSE "out"
    IN  /\ wpc[w] \in {"mod_in", "mod_out"}
        /\ ep' = IF m_sockfd[f] # NULL /\ ep[f] # "none"
                   THEN [ep EXCEPT ![f] = to] ELSE ep
        /\ request' = [request EXCEPT ![w] = NULL]
        /\ GotoW(w, "idle")
        /\ UNCHANGED <<loopvars, sock, m_sockfd, m_read_buf, m_iv, m_user_count,
                       timervars, m_workqueue, loaded, clientvars>>
-----------------------------------------------------------------------------
MainStep ==
    \/ EpollWait \/ Exit \/ OnListen \/ AcceptEnds \/ OnSignals
    \/ \E c \in Conns : AcceptRefused(c) \/ \E f \in Fds : Accept(c, f)
    \/ \E f \in Fds :
          \/ OnHangup(f)
          \/ OnReadable(f) \/ OnReadFails(f)
          \/ OnWritable(f) \/ OnWriteBlocks(f) \/ OnWriteFails(f) \/ OnWriteHangs(f)
          \/ \E kind \in {"hup", "in", "out"} : OnFreedTimer(kind, f)

WorkerStep(w) ==
    \/ Take(w)
    \/ ProcessIncomplete(w) \/ ProcessResponds(w) \/ ProcessFails(w)
    \/ CloseRemoves(w) \/ CloseClears(w) \/ CloseCounts(w)
    \/ Modfd(w)

Running == main \in {"run", "accept"}

(* The process is over, or may do anything; while main hangs, the rest of  *)
(* the program goes on.                                                    *)
Over == main \in {"exit", "undefined"}

Next ==
    /\ ~Over
    /\ \/ MainStep
       \/ \E w \in Workers : WorkerStep(w)
       \/ \E c \in Conns : Connect(c) \/ ClientSends(c) \/ ClientEnds(c)
       \/ Tock
       \/ Terminate

Spec == Init /\ [][Next]_vars

(* The threads run and time goes by; clients and SIGTERM owe nothing. *)
FairSpec ==
    /\ Spec
    /\ WF_vars(~Over /\ MainStep)
    /\ \A w \in Workers : WF_vars(~Over /\ WorkerStep(w))
    /\ WF_vars(~Over /\ Tock)
-----------------------------------------------------------------------------
LoopType ==
    /\ main \in {"run", "accept", "hung", "exit", "undefined"}
    /\ batch \in SUBSET Event
    /\ stop_server \in BOOLEAN /\ alarmed \in BOOLEAN
    /\ pipe \in SUBSET {"SIGALRM", "SIGTERM"}

ConnType ==
    /\ sock \in [Fds -> Conns \cup {NULL}]
    /\ ep \in [Fds -> {"none", "in", "out", "off"}]
    /\ m_sockfd \in [Fds -> Fds \cup {NULL}]
    /\ m_read_buf \in SUBSET Fds
    /\ m_iv \in [Fds -> {"whole", "rest", "none"}]
    /\ m_user_count \in Int

TimerType ==
    /\ users_timer \in [Fds -> Conns \cup {NULL}]
    /\ user_data \in [Conns -> Fds \cup {NULL}]
    /\ left \in [Live -> 0..Lifetime]
    /\ Live \subseteq {c \in Conns : user_data[c] # NULL}

WorkType ==
    /\ m_workqueue \in Seq(Fds)
    /\ wpc \in [Workers -> {"idle", "process", "mod_in", "mod_out", "close",
                            "clear", "store"}]
    /\ request \in [Workers -> Fds \cup {NULL}]
    /\ \A w \in Workers : request[w] = NULL <=> wpc[w] = "idle"
    /\ loaded \in [Workers -> Int]

ClientType ==
    /\ unread \in SUBSET Conns
    /\ ended \in SUBSET Conns
    /\ acts \in [Conns -> Nat]
    /\ backlog \in SUBSET Conns

(* Type invariant: a timer in the list has a descriptor, a worker has a    *)
(* request exactly while it is not idle.                                   *)
TypeOK == LoopType /\ ConnType /\ TimerType /\ WorkType /\ ClientType

OpenFds == {f \in Fds : sock[f] # NULL}

(* Every open connection is under its own timer, which is the one its      *)
(* descriptor points to: however descriptors, stale timers, workers and    *)
(* ticks cross, no connection is left open with nobody to time it out      *)
(* (server.cpp:257-269, cb_func, close_conn).                              *)
OpenHasTimer ==
    \A f \in OpenFds :
        LET c == sock[f]
        IN  c \in Live /\ users_timer[f] = c /\ user_data[c] = f

(* Timers in the list that will close a descriptor their connection has    *)
(* lost, when they expire.                                                 *)
Stale(f) == {c \in Live : user_data[c] = f /\ sock[f] # c}

(* Only the close_conn() of a worker leaves a timer behind: a descriptor   *)
(* gets no more stale timers from main, which deletes the timer of what it *)
(* closes (server.cpp:277-283), from accept() on a number with stale       *)
(* timers, or from a tick that closes a connection through one of them.    *)
StaleFromWorkers ==
    [][\A f \in Fds :
          Cardinality(Stale(f)') > Cardinality(Stale(f)) =>
             \E w \in Workers : wpc[w] = "close" /\ request[w] = f]_vars

(* Main keeps m_user_count in step with its timers, whatever it accepts,   *)
(* closes or times out; only the unlocked m_user_count-- of a worker, for  *)
(* a connection whose timer stays in the list, parts the two               *)
(* (http_conn.cpp:128, server.cpp:89).                                     *)
CountFollowsTimers ==
    [][m_user_count' - Cardinality(Live') # m_user_count - Cardinality(Live) =>
          \E w \in Workers : wpc[w] = "store" /\ wpc'[w] # "store"]_vars

(* server.cpp:83: cb_func removes and closes "inactive connections", when  *)
(* the timer expires: a tick closes no connection whose own timer has time *)
(* left.                                                                   *)
TickClosesInactive ==
    [][pipe # {} /\ pipe' = {} =>
         \A f \in OpenFds : sock'[f] = NULL => left[sock[f]] = 0]_vars

(* server.cpp:277: the server closes the connection and removes its timer, *)
(* which is therefore there when the branch for an event looks for it.     *)
TimerIsThere == main # "undefined"

(* Clients that go silent, at whatever point, lose their connections: each *)
(* connects once and sends a bounded number of times, so there is always a *)
(* later moment at which none is open.  A request that append_job() has    *)
(* refused (server.cpp:333) does not keep its connection open: the alarm   *)
(* keeps ringing and tick() gets there (server.cpp:382-385).  Unless main  *)
(* is not in its loop any more: the server stops, a freed timer was used,  *)
(* or main hangs in a write() (http_conn.cpp:644-700), which no signal     *)
(* ends.                                                                   *)
SilentClosed == []<>(OpenFds = {} \/ ~Running)
=============================================================================
