---------------------------- MODULE ReactorProofs ---------------------------
(***************************************************************************)
(* Proofs about Reactor, for any number of descriptors, connections and    *)
(* workers, and any limits.                                                *)
(***************************************************************************)
EXTENDS Reactor, FiniteSetTheorems, TLAPS

(* The program starts in its types.                                        *)
LEMMA InitType == Init => TypeOK
<1> SUFFICES ASSUME Init PROVE TypeOK
  OBVIOUS
<1>0. LoopType
  BY DEF Init, LoopType
<1>1. ConnType
  BY DEF Init, ConnType
<1>2. TimerType
  BY ReactorAssumption DEF Init, TimerType, Live
<1>3. WorkType
  <2>1. m_workqueue \in Seq(Fds)
    BY DEF Init
  <2> QED BY <2>1 DEF Init, WorkType
<1>4. ClientType
  BY ReactorAssumption DEF Init, ClientType
<1> QED BY <1>0, <1>1, <1>2, <1>3, <1>4 DEF TypeOK

(* The clients, the clock and the signal from outside. *)
LEMMA EnvironmentType ==
    ASSUME TypeOK,
           \/ \E c \in Conns : Connect(c) \/ ClientSends(c) \/ ClientEnds(c)
           \/ Tock
           \/ Terminate
    PROVE  TypeOK'
<1>1. ASSUME NEW c \in Conns, Connect(c) \/ ClientSends(c) \/ ClientEnds(c)
      PROVE  TypeOK'
  <2>1. LoopType' /\ ConnType' /\ TimerType' /\ WorkType'
    BY <1>1 DEF TypeOK, Connect, ClientSends, ClientEnds, loopvars, connvars,
                timervars, workvars, LoopType, ConnType, TimerType, WorkType, Live
  <2>2. acts' \in [Conns -> Nat]
    BY <1>1
       DEF TypeOK, Connect, ClientSends, ClientEnds, ClientType
  <2>3. ClientType'
    BY <1>1, <2>2 DEF TypeOK, Connect, ClientSends, ClientEnds, ClientType
  <2> QED BY <2>1, <2>3 DEF TypeOK
<1>2. CASE Tock
  <2>1. LoopType'
    BY <1>2 DEF TypeOK, Tock, LoopType
  <2>2. TimerType'
    BY <1>2, ReactorAssumption DEF TypeOK, Tock, TimerType, Live
  <2>3. ConnType' /\ WorkType' /\ ClientType'
    BY <1>2 DEF TypeOK, Tock, connvars, workvars, clientvars, ConnType, WorkType,
                ClientType
  <2> QED BY <2>1, <2>2, <2>3 DEF TypeOK
<1>3. CASE Terminate
  BY <1>3 DEF TypeOK, Terminate, connvars, timervars, workvars, clientvars,
              LoopType, ConnType, TimerType, WorkType, ClientType, Live
<1> QED BY <1>1, <1>2, <1>3

(* epoll reports the events main has branches for, and no other.           *)
LEMMA ReadyEvents == ASSUME TypeOK PROVE Ready \subseteq Event
<1>1. \A f \in Fds : Reported(f) \subseteq {"hup", "in", "out"}
  BY DEF Reported
<1>2. {"listen" : b \in backlog} \cup {"pipe" : s \in pipe} \subseteq {"listen", "pipe"}
  OBVIOUS
<1> QED BY <1>1, <1>2 DEF Ready, Event

(* cb_func() leaves registrations, sockets and the counter in their types. *)
LEMMA CbFuncType ==
    ASSUME TypeOK, NEW T \in SUBSET Live, CbFunc(T)
    PROVE  /\ sock' \in [Fds -> Conns \cup {NULL}]
           /\ ep' \in [Fds -> {"none", "in", "out", "off"}]
           /\ m_user_count' \in Int
<1>1. IsFiniteSet(T)
  BY ReactorAssumption, FS_Subset DEF TypeOK, TimerType
<1>2. Cardinality(T) \in Nat
  BY <1>1, FS_CardinalityType
<1> QED BY <1>2 DEF CbFunc, TypeOK, ConnType

(* The loop, accept() and the signals. *)
LEMMA LoopStepType ==
    ASSUME TypeOK,
           \/ EpollWait \/ Exit \/ OnListen \/ AcceptEnds \/ OnSignals
           \/ \E c \in Conns : AcceptRefused(c) \/ \E f \in Fds : Accept(c, f)
    PROVE  TypeOK'
<1>1. CASE EpollWait
  <2>1. LoopType'
    BY <1>1, ReadyEvents DEF TypeOK, EpollWait, LoopType
  <2>2. ConnType'
    BY <1>1 DEF TypeOK, EpollWait, Disarmed, ConnType
  <2>3. TimerType' /\ WorkType' /\ ClientType'
    BY <1>1 DEF TypeOK, EpollWait, timervars, workvars, clientvars, TimerType,
                WorkType, ClientType, Live
  <2> QED BY <2>1, <2>2, <2>3 DEF TypeOK
<1>2. CASE Exit \/ OnListen \/ AcceptEnds
  <2>1. LoopType'
    BY <1>2 DEF TypeOK, Exit, OnListen, AcceptEnds, Handle, LoopType
  <2>2. ConnType' /\ TimerType' /\ WorkType' /\ ClientType'
    BY <1>2 DEF TypeOK, Exit, OnListen, AcceptEnds, connvars, timervars, workvars,
                clientvars, ConnType, TimerType, WorkType, ClientType, Live
  <2> QED BY <2>1, <2>2 DEF TypeOK
<1>3. CASE OnSignals
  <2>1. LoopType'
    BY <1>3 DEF TypeOK, OnSignals, Handle, TimerHandler, LoopType
  <2>2. ConnType'
    <3>1. CASE TimerHandler
      BY <1>3, <3>1, CbFuncType DEF TypeOK, OnSignals, TimerHandler, ConnType
    <3>2. CASE UNCHANGED <<ep, sock, m_user_count, left, alarmed>>
      BY <1>3, <3>2 DEF TypeOK, OnSignals, ConnType
    <3> QED BY <1>3, <3>1, <3>2 DEF OnSignals
  <2>3. TimerType'
    BY <1>3 DEF TypeOK, OnSignals, TimerHandler, Without, TimerType, Live
  <2>4. WorkType' /\ ClientType'
    BY <1>3 DEF TypeOK, OnSignals, workvars, clientvars, WorkType, ClientType
  <2> QED BY <2>1, <2>2, <2>3, <2>4 DEF TypeOK
<1>4. ASSUME NEW c \in Conns, AcceptRefused(c) PROVE TypeOK'
  BY <1>4 DEF TypeOK, AcceptRefused, connvars, timervars, workvars, LoopType,
              ConnType, TimerType, WorkType, ClientType, Live
<1>5. ASSUME NEW c \in Conns, NEW f \in Fds, Accept(c, f) PROVE TypeOK'
  <2>1. ConnType'
    BY <1>5 DEF TypeOK, Accept, ConnType
  <2>2. TimerType'
    BY <1>5, ReactorAssumption DEF TypeOK, Accept, NewTimer, TimerType, Live
  <2>3. LoopType' /\ WorkType' /\ ClientType'
    BY <1>5 DEF TypeOK, Accept, loopvars, workvars, LoopType, WorkType, ClientType
  <2> QED BY <2>1, <2>2, <2>3 DEF TypeOK
<1> QED BY <1>1, <1>2, <1>3, <1>4, <1>5

(* A branch that closes its connection keeps the types.                    *)
LEMMA CloseType ==
    ASSUME TypeOK, NEW f \in Fds, NEW kind, Handle(kind, f),
           users_timer[f] \in Live, CloseByMain(f)
    PROVE  TypeOK'
<1>1. ConnType'
  BY CbFuncType DEF CloseByMain, TypeOK, ConnType
<1>2. TimerType'
  BY DEF CloseByMain, Without, TypeOK, TimerType, Live
<1>3. LoopType' /\ WorkType' /\ ClientType'
  BY DEF CloseByMain, Handle, TypeOK, workvars, clientvars, LoopType, WorkType,
         ClientType
<1> QED BY <1>1, <1>2, <1>3 DEF TypeOK

(* The branches for a connection. *)
LEMMA EventStepType ==
    ASSUME TypeOK, NEW f \in Fds,
           \/ OnHangup(f)
           \/ OnReadable(f) \/ OnReadFails(f)
           \/ OnWritable(f) \/ OnWriteBlocks(f) \/ OnWriteFails(f) \/ OnWriteHangs(f)
           \/ \E kind \in {"hup", "in", "out"} : OnFreedTimer(kind, f)
    PROVE  TypeOK'
<1>1. CASE OnHangup(f) \/ OnReadFails(f) \/ OnWriteFails(f)
  BY <1>1, CloseType DEF OnHangup, OnReadFails, OnWriteFails
<1>2. CASE OnReadable(f)
  <2>1. LoopType' /\ ConnType'
    BY <1>2 DEF TypeOK, OnReadable, CanRead, Handle, LoopType, ConnType
  <2>2. TimerType'
    BY <1>2, ReactorAssumption DEF TypeOK, OnReadable, Prolonged, TimerType, Live
  <2>3. m_workqueue' \in Seq(Fds)
    BY <1>2 DEF TypeOK, OnReadable, WorkType
  <2>4. WorkType' /\ ClientType'
    BY <1>2, <2>3 DEF TypeOK, OnReadable, WorkType, ClientType
  <2> QED BY <2>1, <2>2, <2>4 DEF TypeOK
<1>3. CASE OnWritable(f)
  <2>1. LoopType' /\ ConnType' /\ WorkType' /\ ClientType'
    BY <1>3 DEF TypeOK, OnWritable, Handle, workvars, clientvars, LoopType,
                ConnType, WorkType, ClientType
  <2>2. TimerType'
    BY <1>3, ReactorAssumption DEF TypeOK, OnWritable, Prolonged, TimerType, Live
  <2> QED BY <2>1, <2>2 DEF TypeOK
<1>4. CASE OnWriteBlocks(f)
  <2>1. LoopType' /\ ConnType' /\ WorkType' /\ ClientType'
    BY <1>4 DEF TypeOK, OnWriteBlocks, Handle, workvars, clientvars, LoopType,
                ConnType, WorkType, ClientType
  <2>2. TimerType'
    BY <1>4, ReactorAssumption DEF TypeOK, OnWriteBlocks, Prolonged, TimerType, Live
  <2> QED BY <2>1, <2>2 DEF TypeOK
<1>5. ASSUME NEW kind \in {"hup", "in", "out"}, OnFreedTimer(kind, f)
      PROVE  TypeOK'
  BY <1>5 DEF TypeOK, OnFreedTimer, Handle, connvars, timervars, workvars,
              clientvars, LoopType, ConnType, TimerType, WorkType, ClientType, Live
<1>6. CASE OnWriteHangs(f)
  BY <1>6 DEF TypeOK, OnWriteHangs, Handle, connvars, timervars, workvars,
              clientvars, LoopType, ConnType, TimerType, WorkType, ClientType, Live
<1> QED BY <1>1, <1>2, <1>3, <1>4, <1>5, <1>6

(* The workers. *)
LEMMA WorkerStepType ==
    ASSUME TypeOK, NEW w \in Workers, WorkerStep(w)
    PROVE  TypeOK'
<1>0. NULL \notin Fds
  BY ReactorAssumption
<1>1. CASE Take(w)
  <2>1. Head(m_workqueue) \in Fds /\ Tail(m_workqueue) \in Seq(Fds)
    BY <1>1 DEF Take, TypeOK, WorkType
  <2>2. WorkType'
    BY <1>0, <1>1, <2>1 DEF TypeOK, Take, GotoW, WorkType
  <2>3. LoopType' /\ ConnType' /\ TimerType' /\ ClientType'
    BY <1>1 DEF TypeOK, Take, loopvars, connvars, timervars, clientvars, LoopType,
                ConnType, TimerType, ClientType, Live
  <2> QED BY <2>2, <2>3 DEF TypeOK
<1>2. CASE ProcessIncomplete(w) \/ ProcessFails(w)
  <2>1. WorkType'
    BY <1>2 DEF TypeOK, ProcessIncomplete, ProcessFails, GotoW, WorkType
  <2>2. LoopType' /\ ConnType' /\ TimerType' /\ ClientType'
    BY <1>2 DEF TypeOK, ProcessIncomplete, ProcessFails, loopvars, connvars,
                timervars, clientvars, LoopType, ConnType, TimerType, ClientType,
                Live
  <2> QED BY <2>1, <2>2 DEF TypeOK
<1>3. CASE \/ ProcessResponds(w) \/ CloseRemoves(w) \/ CloseClears(w)
           \/ CloseCounts(w) \/ Modfd(w)
  <2>1. wpc[w] # "idle" => request[w] \in Fds
    BY DEF TypeOK, WorkType
  <2>2. CASE ProcessResponds(w)
    BY <2>1, <2>2 DEF TypeOK, ProcessResponds, GotoW, loopvars, timervars,
       clientvars, LoopType, ConnType, TimerType, WorkType, ClientType, Live
  <2>3. CASE CloseRemoves(w)
    <3>1. ConnType'
      BY <2>1, <2>3 DEF TypeOK, CloseRemoves, ConnType, WorkType
    <3>2. WorkType'
      BY <2>1, <2>3 DEF TypeOK, CloseRemoves, GotoW, WorkType
    <3>3. LoopType' /\ TimerType' /\ ClientType'
      BY <2>3 DEF TypeOK, CloseRemoves, loopvars, timervars, clientvars, LoopType,
                  TimerType, ClientType, Live
    <3> QED BY <3>1, <3>2, <3>3 DEF TypeOK
  <2>4. CASE CloseClears(w)
    BY <2>1, <2>4 DEF TypeOK, CloseClears, GotoW, loopvars, timervars,
       clientvars, LoopType, ConnType, TimerType, WorkType, ClientType, Live
  <2>5. CASE CloseCounts(w)
    BY <2>1, <2>5 DEF TypeOK, CloseCounts, GotoW, loopvars, timervars,
       clientvars, LoopType, ConnType, TimerType, WorkType, ClientType, Live
  <2>6. CASE Modfd(w)
    BY <2>1, <2>6 DEF TypeOK, Modfd, GotoW, loopvars, timervars,
       clientvars, LoopType, ConnType, TimerType, WorkType, ClientType, Live
  <2> QED BY <1>3, <2>2, <2>3, <2>4, <2>5, <2>6
<1> QED BY <1>1, <1>2, <1>3 DEF WorkerStep

(* A step of Next, or a stutter, keeps the types. *)
LEMMA StepType == TypeOK /\ [Next]_vars => TypeOK'
<1>1. ASSUME TypeOK, UNCHANGED vars PROVE TypeOK'
  BY <1>1 DEF vars, loopvars, connvars, timervars, workvars, clientvars, TypeOK,
              LoopType, ConnType, TimerType, WorkType, ClientType, Live
<1> QED
  BY <1>1, EnvironmentType, LoopStepType, EventStepType, WorkerStepType
     DEF Next, MainStep

(* Whatever main, the workers, clients and signals do, in whatever order.  *)
THEOREM TypeCorrect == Spec => []TypeOK
<1> QED BY StepType, InitType, PTL DEF Spec
-----------------------------------------------------------------------------
(* A connection accept() has not returned has no timer yet, so the timer   *)
(* made for it is not one an open descriptor points to.                    *)
BacklogFresh == \A c \in backlog : user_data[c] = NULL

TimerInv == OpenHasTimer /\ BacklogFresh

(* cb_func() for timers that leave the list with it closes the connections *)
(* that would lose their timer.                                            *)
LEMMA CbFuncKeepsTimers ==
    ASSUME TypeOK, TimerInv, NEW T \in SUBSET Live,
           CbFunc(T), left' = Without(T), UNCHANGED <<users_timer, user_data>>
    PROVE  OpenHasTimer'
<1> SUFFICES ASSUME NEW f \in Fds, sock'[f] # NULL
             PROVE  /\ sock'[f] \in Live' /\ users_timer[f] = sock'[f]
                    /\ user_data[sock'[f]] = f
  BY DEF OpenHasTimer, OpenFds
<1>1. f \notin {user_data[c] : c \in T} /\ sock[f] # NULL /\ sock'[f] = sock[f]
  BY DEF CbFunc
<1>2. sock[f] \in Live /\ users_timer[f] = sock[f] /\ user_data[sock[f]] = f
  BY <1>1 DEF TimerInv, OpenHasTimer, OpenFds
<1>3. sock[f] \notin T
  BY <1>1, <1>2
<1> QED BY <1>1, <1>2, <1>3 DEF Without, Live

(* accept() gives the new connection a timer and takes none from another.  *)
LEMMA AcceptKeepsTimers ==
    ASSUME TypeOK, TimerInv, NEW c \in Conns, NEW f \in Fds, Accept(c, f)
    PROVE  TimerInv'
<1>0. /\ Live' = Live \cup {c}
      /\ \A g \in Fds : sock'[g] = IF g = f THEN c ELSE sock[g]
      /\ \A g \in Fds : users_timer'[g] = IF g = f THEN c ELSE users_timer[g]
      /\ \A d \in Conns : user_data'[d] = IF d = c THEN f ELSE user_data[d]
  BY DEF Accept, NewTimer, TypeOK, ConnType, TimerType, Live
<1>1. ASSUME NEW g \in Fds, g # f, sock[g] # NULL
      PROVE  /\ sock[g] \in Live /\ users_timer[g] = sock[g]
             /\ user_data'[sock[g]] = g
  <2>1. sock[g] \in Live /\ users_timer[g] = sock[g] /\ user_data[sock[g]] = g
    BY <1>1 DEF TimerInv, OpenHasTimer, OpenFds
  <2>2. user_data[c] = NULL
    BY DEF Accept, TimerInv, BacklogFresh
  <2>3. sock[g] # c
    BY <2>1, <2>2, ReactorAssumption
  <2> QED BY <1>0, <2>1, <2>3 DEF TypeOK, TimerType
<1>2. OpenHasTimer'
  BY <1>0, <1>1 DEF OpenHasTimer, OpenFds
<1>3. BacklogFresh'
  BY <1>0 DEF Accept, TimerInv, BacklogFresh, TypeOK, ClientType
<1> QED BY <1>2, <1>3 DEF TimerInv

(* Both hold from the start and through every step. *)
LEMMA TimerInvHolds == Spec => []TimerInv
<1>1. Init => TimerInv
  BY DEF Init, TimerInv, OpenHasTimer, OpenFds, BacklogFresh
<1>2. TypeOK /\ TimerInv /\ [Next]_vars => TimerInv'
  <2> SUFFICES ASSUME TypeOK, TimerInv, [Next]_vars PROVE TimerInv'
    OBVIOUS
  <2>0. ASSUME UNCHANGED <<backlog, user_data>> PROVE BacklogFresh'
    BY <2>0 DEF TimerInv, BacklogFresh
  <2>1. ASSUME UNCHANGED <<sock, users_timer, user_data>>, Live' = Live
        PROVE  OpenHasTimer'
    BY <2>1 DEF TimerInv, OpenHasTimer, OpenFds
  <2>2. CASE \E c \in Conns : Connect(c) \/ ClientSends(c) \/ ClientEnds(c)
    <3>1. OpenHasTimer'
      BY <2>1, <2>2 DEF Connect, ClientSends, ClientEnds, connvars, timervars, Live
    <3>2. BacklogFresh'
      BY <2>2 DEF Connect, ClientSends, ClientEnds, timervars, TimerInv,
                  BacklogFresh
    <3> QED BY <3>1, <3>2 DEF TimerInv
  <2>3. CASE Tock \/ Terminate
    BY <2>0, <2>1, <2>3
       DEF Tock, Terminate, connvars, timervars, clientvars, TimerInv, Live
  <2>4. CASE EpollWait \/ Exit \/ OnListen \/ AcceptEnds
    BY <2>0, <2>1, <2>4 DEF EpollWait, Exit, OnListen, AcceptEnds, connvars,
       timervars, clientvars, TimerInv, Live
  <2>5. CASE OnSignals
    <3>1. OpenHasTimer'
      <4>1. CASE TimerHandler
        BY <2>5, <4>1, CbFuncKeepsTimers DEF OnSignals, TimerHandler
      <4>2. CASE UNCHANGED <<ep, sock, m_user_count, left, alarmed>>
        BY <2>1, <2>5, <4>2 DEF OnSignals, Live
      <4> QED BY <2>5, <4>1, <4>2 DEF OnSignals
    <3> QED BY <2>0, <2>5, <3>1 DEF OnSignals, clientvars, TimerInv
  <2>6. ASSUME NEW c \in Conns, AcceptRefused(c) PROVE TimerInv'
    <3>1. OpenHasTimer'
      BY <2>1, <2>6 DEF AcceptRefused, connvars, timervars, Live
    <3>2. BacklogFresh'
      BY <2>6 DEF AcceptRefused, timervars, TimerInv, BacklogFresh
    <3> QED BY <3>1, <3>2 DEF TimerInv
  <2>7. ASSUME NEW c \in Conns, NEW f \in Fds, Accept(c, f) PROVE TimerInv'
    BY <2>7, AcceptKeepsTimers
  <2>8. ASSUME NEW f \in Fds, OnHangup(f) \/ OnReadFails(f) \/ OnWriteFails(f)
        PROVE  TimerInv'
    <3>1. CloseByMain(f) /\ {users_timer[f]} \in SUBSET Live
      BY <2>8 DEF OnHangup, OnReadFails, OnWriteFails
    <3>2. OpenHasTimer'
      BY <3>1, CbFuncKeepsTimers DEF CloseByMain
    <3> QED BY <2>0, <3>1, <3>2 DEF CloseByMain, clientvars, TimerInv
  <2>9. ASSUME NEW f \in Fds, OnReadable(f) \/ OnWritable(f) \/ OnWriteBlocks(f)
        PROVE  TimerInv'
    <3>1. Live' = Live
      BY <2>9 DEF OnReadable, OnWritable, OnWriteBlocks, Prolonged, Live, TypeOK,
                  TimerType
    <3> QED BY <2>0, <2>1, <2>9, <3>1
            DEF OnReadable, OnWritable, OnWriteBlocks, clientvars, TimerInv
  <2>10. ASSUME NEW f \in Fds, NEW kind, OnFreedTimer(kind, f) \/ OnWriteHangs(f)
         PROVE  TimerInv'
    BY <2>0, <2>1, <2>10 DEF OnFreedTimer, OnWriteHangs, connvars, timervars, clientvars,
       TimerInv, Live
  <2>11. ASSUME NEW w \in Workers, WorkerStep(w) PROVE TimerInv'
    <3>1. UNCHANGED <<backlog, users_timer, user_data, left>>
      BY <2>11 DEF WorkerStep, Take, ProcessIncomplete, ProcessResponds,
         ProcessFails, CloseRemoves, CloseClears, CloseCounts, Modfd, timervars,
         clientvars
    <3>2. \A f \in Fds : sock'[f] \in {sock[f], NULL}
      BY <2>11 DEF WorkerStep, Take, ProcessIncomplete, ProcessResponds,
         ProcessFails, CloseRemoves, CloseClears, CloseCounts, Modfd, connvars,
         TypeOK, ConnType
    <3>3. OpenHasTimer'
      BY <3>1, <3>2 DEF TimerInv, OpenHasTimer, OpenFds, Live
    <3> QED BY <2>0, <3>1, <3>3 DEF TimerInv
  <2>12. CASE UNCHANGED vars
    BY <2>0, <2>1, <2>12 DEF vars, connvars, timervars, clientvars, TimerInv, Live
  <2> QED
    BY <2>2, <2>3, <2>4, <2>5, <2>6, <2>7, <2>8, <2>9, <2>10, <2>11, <2>12
       DEF Next, MainStep
<1> QED BY <1>1, <1>2, TypeCorrect, PTL DEF Spec
(* No connection is left open without its timer, however descriptors are   *)
(* reused, stale timers fire, and workers close connections.               *)
THEOREM OpenHasTimerHolds == Spec => []OpenHasTimer
<1>1. TimerInv => OpenHasTimer
  BY DEF TimerInv
<1> QED BY <1>1, TimerInvHolds, PTL
-----------------------------------------------------------------------------
(* The steps that change which connections are open, or which timers are   *)
(* in the list, or the counter.                                            *)
LEMMA StepKinds ==
    ASSUME TypeOK, [Next]_vars
    PROVE  \/ UNCHANGED <<sock, user_data, m_user_count>> /\ Live' = Live
           \/ \E T \in SUBSET Live :
                 CbFunc(T) /\ left' = Without(T) /\ UNCHANGED user_data
           \/ \E c \in Conns, f \in Fds : Accept(c, f)
           \/ \E w \in Workers : CloseRemoves(w) \/ CloseCounts(w)
<1> DEFINE Quiet == UNCHANGED <<sock, user_data, m_user_count>> /\ Live' = Live
           Closing == \E T \in SUBSET Live :
                         CbFunc(T) /\ left' = Without(T) /\ UNCHANGED user_data
<1>1. CASE \E c \in Conns : Connect(c) \/ ClientSends(c) \/ ClientEnds(c)
  <2>1. Quiet
    BY <1>1 DEF Connect, ClientSends, ClientEnds, connvars, timervars, Live
  <2> QED BY <2>1
<1>2. CASE Tock \/ Terminate
  <2>1. Quiet
    BY <1>2 DEF Tock, Terminate, connvars, timervars, Live
  <2> QED BY <2>1
<1>3. ASSUME EpollWait \/ Exit \/ OnListen \/ AcceptEnds PROVE Quiet
  BY <1>3 DEF EpollWait, Exit, OnListen, AcceptEnds, connvars, timervars, Live
<1>4. ASSUME OnSignals PROVE Quiet \/ Closing
  <2>1. ASSUME TimerHandler PROVE Closing
    BY <1>4, <2>1 DEF OnSignals, TimerHandler
  <2>2. ASSUME UNCHANGED <<ep, sock, m_user_count, left, alarmed>> PROVE Quiet
    BY <1>4, <2>2 DEF OnSignals, Live
  <2> QED BY <1>4, <2>1, <2>2 DEF OnSignals
<1>5. ASSUME NEW c \in Conns, AcceptRefused(c) PROVE Quiet
  BY <1>5 DEF AcceptRefused, connvars, timervars, Live
<1>6. ASSUME NEW f \in Fds, OnHangup(f) \/ OnReadFails(f) \/ OnWriteFails(f)
      PROVE  Closing
  <2>1. CloseByMain(f) /\ {users_timer[f]} \in SUBSET Live
    BY <1>6 DEF OnHangup, OnReadFails, OnWriteFails
  <2> QED BY <2>1 DEF CloseByMain
<1>7. ASSUME NEW f \in Fds, OnReadable(f) \/ OnWritable(f) \/ OnWriteBlocks(f)
      PROVE  Quiet
  BY <1>7 DEF OnReadable, OnWritable, OnWriteBlocks, Prolonged, Live, TypeOK,
              TimerType
<1>8. ASSUME NEW f \in Fds, NEW kind, OnFreedTimer(kind, f) \/ OnWriteHangs(f)
      PROVE  Quiet
  BY <1>8 DEF OnFreedTimer, OnWriteHangs, connvars, timervars, Live
<1>9. ASSUME NEW w \in Workers, WorkerStep(w), ~CloseRemoves(w), ~CloseCounts(w)
      PROVE  Quiet
  BY <1>9 DEF WorkerStep, Take, ProcessIncomplete, ProcessResponds, ProcessFails,
              CloseClears, Modfd, connvars, timervars, Live
<1>10. CASE UNCHANGED vars
  <2>1. Quiet
    BY <1>10 DEF vars, connvars, timervars, Live
  <2> QED BY <2>1
<1> HIDE DEF Quiet, Closing
<1>11. CASE MainStep
  <2>1. Quiet \/ Closing \/ \E c \in Conns, f \in Fds : Accept(c, f)
    BY <1>3, <1>4, <1>5, <1>6, <1>7, <1>8, <1>11 DEF MainStep
  <2> QED BY <2>1 DEF Quiet, Closing
<1>12. CASE \E w \in Workers : WorkerStep(w)
  <2>1. Quiet \/ \E w \in Workers : CloseRemoves(w) \/ CloseCounts(w)
    BY <1>9, <1>12
  <2> QED BY <2>1 DEF Quiet
<1> QED
  BY <1>1, <1>2, <1>10, <1>11, <1>12 DEF Next

(* There are finitely many timers. *)
LEMMA LiveFinite ==
    ASSUME TypeOK
    PROVE  Live \subseteq Conns /\ IsFiniteSet(Live) /\ Cardinality(Live) \in Nat
<1>1. Live \subseteq Conns
  BY DEF TypeOK, TimerType
<1> QED BY <1>1, ReactorAssumption, FS_Subset, FS_CardinalityType

(* Main counts what it accepts up and each timer it ends down, once: only  *)
(* a worker's m_user_count-- parts the counter from the timers in the list.*)
THEOREM CountFollowsTimersHolds == Spec => CountFollowsTimers
<1> DEFINE Kept == m_user_count' - Cardinality(Live')
                     = m_user_count - Cardinality(Live)
           Parted == m_user_count' - Cardinality(Live')
                       # m_user_count - Cardinality(Live)
           Counts == \E w \in Workers : wpc[w] = "store" /\ wpc'[w] # "store"
<1>1. ASSUME TypeOK, TimerInv, [Next]_vars PROVE Kept \/ Counts
  <2>0. m_user_count \in Int /\ IsFiniteSet(Live) /\ Cardinality(Live) \in Nat
    BY <1>1, LiveFinite DEF TypeOK, ConnType
  <2>1. CASE UNCHANGED <<sock, user_data, m_user_count>> /\ Live' = Live
    BY <2>1
  <2>2. ASSUME NEW T \in SUBSET Live, CbFunc(T), left' = Without(T) PROVE Kept
    <3>1. Live' = Live \ T /\ Live \cap T = T
      BY <2>2 DEF Without, Live
    <3>2. IsFiniteSet(T) /\ Cardinality(T) \in Nat
      BY <2>0, FS_Subset, FS_CardinalityType
    <3>3. Cardinality(Live \ T) = Cardinality(Live) - Cardinality(T)
      BY <2>0, <3>1, FS_Difference
    <3> QED BY <2>0, <2>2, <3>1, <3>2, <3>3 DEF CbFunc
  <2>3. ASSUME NEW c \in Conns, NEW f \in Fds, Accept(c, f) PROVE Kept
    <3>1. Live' = Live \cup {c}
      BY <2>3 DEF Accept, NewTimer, Live
    <3>2. c \notin Live
      BY <1>1, <2>3 DEF Accept, TimerInv, BacklogFresh, TypeOK, TimerType
    <3>3. Cardinality(Live \cup {c}) = Cardinality(Live) + 1
      BY <2>0, <3>2, FS_AddElement
    <3> QED BY <2>0, <2>3, <3>1, <3>3 DEF Accept
  <2>4. ASSUME NEW w \in Workers, CloseRemoves(w) PROVE Kept
    BY <2>4 DEF CloseRemoves, timervars, Live
  <2>5. ASSUME NEW w \in Workers, CloseCounts(w) PROVE Counts
    BY <1>1, <2>5 DEF CloseCounts, GotoW, TypeOK, WorkType
  <2> QED
    BY <1>1, <2>1, <2>2, <2>3, <2>4, <2>5, StepKinds
<1>2. TypeOK /\ TimerInv /\ [Next]_vars => [Parted => Counts]_vars
  BY <1>1
<1> QED
  BY <1>2, TypeCorrect, TimerInvHolds, PTL DEF Spec, CountFollowsTimers

(* Closing through a timer of T leaves no more stale timers than before:   *)
(* the timer of the connection that loses the descriptor may become one,   *)
(* but then the timer it was closed through was one.                       *)
LEMMA CbFuncStale ==
    ASSUME TypeOK, NEW T \in SUBSET Live, NEW f \in Fds,
           CbFunc(T), left' = Without(T), UNCHANGED user_data
    PROVE  Cardinality(Stale(f)') \leq Cardinality(Stale(f))
<1>0. Live' = Live \ T /\ Stale(f) \subseteq Live
  BY DEF Without, Live, Stale
<1>1. IsFiniteSet(Stale(f)) /\ Cardinality(Stale(f)) \in Nat
  BY <1>0, LiveFinite, FS_Subset, FS_CardinalityType
<1>2. CASE Stale(f)' \subseteq Stale(f)
  BY <1>1, <1>2, FS_Subset, FS_CardinalityType
<1>3. CASE ~ (Stale(f)' \subseteq Stale(f))
  <2>1. sock'[f] # sock[f]
    BY <1>0, <1>3 DEF Stale
  <2>2. PICK d \in T : user_data[d] = f
    BY <2>1 DEF CbFunc, TypeOK, ConnType
  <2>3. Stale(f)' \subseteq (Stale(f) \ T) \cup {sock[f]}
    BY <1>0 DEF Stale
  <2>4. sock[f] \notin T
    BY <1>0, <1>3, <2>3 DEF Stale
  <2>5. d \in Stale(f)
    BY <2>2, <2>4 DEF Stale
  <2>6. Cardinality(Stale(f) \ {d}) = Cardinality(Stale(f)) - 1
          /\ IsFiniteSet(Stale(f) \ {d})
    BY <1>1, <2>5, FS_RemoveElement
  <2>7. Cardinality((Stale(f) \ {d}) \cup {sock[f]}) \leq Cardinality(Stale(f))
          /\ IsFiniteSet((Stale(f) \ {d}) \cup {sock[f]})
    <3> DEFINE S == Stale(f) \ {d}
    <3>1. IsFiniteSet(S)
      BY <2>6
    <3> HIDE DEF S
    <3>2. IsFiniteSet(S \cup {sock[f]}) /\ Cardinality(S \cup {sock[f]}) =
             IF sock[f] \in S THEN Cardinality(S) ELSE Cardinality(S) + 1
      BY <3>1, FS_AddElement
    <3> QED BY <1>1, <2>6, <3>2 DEF S
  <2>8. Stale(f)' \subseteq (Stale(f) \ {d}) \cup {sock[f]}
    BY <2>2, <2>3
  <2>9. Cardinality(Stale(f)') \leq Cardinality((Stale(f) \ {d}) \cup {sock[f]})
    BY <2>7, <2>8, FS_Subset
  <2>10. /\ Cardinality(Stale(f)') \in Nat
         /\ Cardinality((Stale(f) \ {d}) \cup {sock[f]}) \in Nat
    BY <2>7, <2>8, FS_Subset, FS_CardinalityType
  <2> QED BY <1>1, <2>7, <2>9, <2>10
<1> QED BY <1>2, <1>3

(* Only close_conn() in a worker adds to the timers that will close a      *)
(* descriptor their connection has lost.                                   *)
THEOREM StaleFromWorkersHolds == Spec => StaleFromWorkers
<1> DEFINE More(f) == Cardinality(Stale(f)') > Cardinality(Stale(f))
           Closes(f) == \E w \in Workers : wpc[w] = "close" /\ request[w] = f
<1>1. ASSUME TypeOK, [Next]_vars, NEW f \in Fds, More(f) PROVE Closes(f)
  <2>0. IsFiniteSet(Stale(f)) /\ Cardinality(Stale(f)) \in Nat
    <3>1. Stale(f) \subseteq Live
      BY DEF Stale
    <3> QED BY <1>1, <3>1, LiveFinite, FS_Subset, FS_CardinalityType
  <2>1. ASSUME Stale(f)' \subseteq Stale(f) PROVE FALSE
    <3>1. Cardinality(Stale(f)') \leq Cardinality(Stale(f))
            /\ Cardinality(Stale(f)') \in Nat
      BY <2>0, <2>1, FS_Subset, FS_CardinalityType
    <3> QED BY <1>1, <2>0, <3>1
  <2>2. CASE UNCHANGED <<sock, user_data, m_user_count>> /\ Live' = Live
    BY <2>1, <2>2 DEF Stale
  <2>3. ASSUME NEW T \in SUBSET Live, CbFunc(T), left' = Without(T),
               UNCHANGED user_data
        PROVE  FALSE
    <3>1. Cardinality(Stale(f)') \leq Cardinality(Stale(f))
      BY <1>1, <2>3, CbFuncStale
    <3>2. IsFiniteSet(Stale(f)') /\ Cardinality(Stale(f)') \in Nat
      <4>1. Stale(f)' \subseteq Live
        BY <2>3 DEF Stale, Without, Live
      <4> QED BY <1>1, <4>1, LiveFinite, FS_Subset, FS_CardinalityType
    <3> QED BY <1>1, <2>0, <3>1, <3>2
  <2>4. ASSUME NEW c \in Conns, NEW g \in Fds, Accept(c, g) PROVE FALSE
    <3>1. /\ Live' = Live \cup {c} /\ sock[g] = NULL
          /\ \A h \in Fds : sock'[h] = IF h = g THEN c ELSE sock[h]
          /\ \A d \in Conns : user_data'[d] = IF d = c THEN g ELSE user_data[d]
      BY <1>1, <2>4 DEF Accept, NewTimer, TypeOK, ConnType, TimerType, Live
    <3>2. Live \subseteq Conns /\ NULL \notin Conns
      BY <1>1, LiveFinite, ReactorAssumption
    <3>3. Stale(f)' \subseteq Stale(f)
      BY <3>1, <3>2 DEF Stale
    <3> QED BY <2>1, <3>3
  <2>5. ASSUME NEW w \in Workers, CloseRemoves(w) PROVE Closes(f)
    <3>1. CASE request[w] = f
      BY <2>5, <3>1 DEF CloseRemoves
    <3>2. CASE request[w] # f
      <4>1. sock'[f] = sock[f] /\ UNCHANGED <<user_data, left>>
        BY <1>1, <2>5, <3>2 DEF CloseRemoves, timervars, TypeOK, ConnType
      <4> QED BY <2>1, <4>1 DEF Stale, Live
    <3> QED BY <3>1, <3>2
  <2>6. ASSUME NEW w \in Workers, CloseCounts(w) PROVE FALSE
    BY <2>1, <2>6 DEF CloseCounts, timervars, Stale, Live
  <2> QED BY <1>1, <2>2, <2>3, <2>4, <2>5, <2>6, StepKinds
<1>2. TypeOK /\ [Next]_vars => [\A f \in Fds : More(f) => Closes(f)]_vars
  BY <1>1
<1> QED BY <1>2, TypeCorrect, PTL DEF Spec, StaleFromWorkers
=============================================================================
