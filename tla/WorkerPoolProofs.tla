-------------------------- MODULE WorkerPoolProofs --------------------------
(***************************************************************************)
(* For any numbers of workers and http_conn objects, no fewer handles than *)
(* workers, and any limit of the request list: EPOLLONESHOT and the        *)
(* re-arming at the end of process() keep every object in one place at a   *)
(* time, and each worker queries with a handle of its own, unless the      *)
(* number of an object in flight is closed and accepted again; and the     *)
(* workers use the connection pool as it is meant to be used, whatever is  *)
(* closed and accepted.                                                    *)
(***************************************************************************)
EXTENDS WorkerPool, FiniteSetTheorems, TLAPS

(* The types of the state that SingleFlight speaks of; a worker is in      *)
(* close_conn() within process().                                          *)
FlightType ==
    /\ m_workqueue \in Seq(Requests)
    /\ wpc \in [Workers -> TP!Locations]
    /\ request \in [Workers -> Requests \cup {NULL}]
    /\ \A w \in Workers : wpc[w] = "run" => request[w] \in Requests
    /\ interest \in [Requests -> Interest]
    /\ returned \in SUBSET Workers
    /\ cpc \in [Workers -> {"out", "clear", "modfd"}]
    /\ \A w \in Workers : cpc[w] # "out" => Processing(w)

Disarmed == {"off", "closed"}

(* What is queued is disarmed, and is queued once. *)
QueueAlone ==
    \A i \in DOMAIN m_workqueue : m_workqueue[i] \notin crossed =>
        /\ interest[m_workqueue[i]] \in Disarmed
        /\ \A j \in DOMAIN m_workqueue : m_workqueue[i] = m_workqueue[j] => i = j

(* What is processed is disarmed, not queued, and with one worker. *)
WorkersAlone ==
    \A w \in Workers : Processing(w) /\ request[w] \notin crossed =>
        /\ interest[request[w]] \in Disarmed
        /\ \A i \in DOMAIN m_workqueue : m_workqueue[i] # request[w]
        /\ \A v \in Workers : Processing(v) /\ request[v] = request[w] => v = w

(* The inductive invariant: the counts of SingleFlight alone would not say *)
(* which place an object is in.                                            *)
IInv == FlightType /\ QueueAlone /\ WorkersAlone

(* At first every connection is armed, nothing is queued or processed.     *)
LEMMA InvInit == Init => IInv
<1> SUFFICES ASSUME Init PROVE IInv
  OBVIOUS
<1>1. m_workqueue = <<>> /\ m_workqueue \in Seq(Requests)
  BY DEF Init, TP!Init
<1>2. FlightType
  BY <1>1 DEF Init, TP!Init, FlightType, TP!Locations, Interest
<1>3. WorkersAlone
  BY DEF Init, TP!Init, WorkersAlone, Processing
<1> QED
  BY <1>1, <1>2, <1>3 DEF IInv, QueueAlone

(* A step after which no more is queued or processed, and whatever still   *)
(* is was not crossed before and has not been armed.                       *)
LEMMA NoMoreInFlight ==
  ASSUME IInv, FlightType', UNCHANGED m_workqueue,
         \A w \in Workers : Processing(w)' => Processing(w) /\ request'[w] = request[w],
         \A i \in DOMAIN m_workqueue : m_workqueue[i] \notin crossed' =>
            /\ m_workqueue[i] \notin crossed
            /\ interest[m_workqueue[i]] \in Disarmed
                 => interest'[m_workqueue[i]] \in Disarmed,
         \A w \in Workers : Processing(w)' /\ request[w] \notin crossed' =>
            /\ request[w] \notin crossed
            /\ interest[request[w]] \in Disarmed => interest'[request[w]] \in Disarmed
  PROVE  IInv'
<1>1. QueueAlone'
  BY DEF IInv, QueueAlone
<1>2. WorkersAlone'
  <2> SUFFICES ASSUME NEW w \in Workers, Processing(w)', request'[w] \notin crossed'
               PROVE  /\ interest'[request'[w]] \in Disarmed
                      /\ \A i \in DOMAIN m_workqueue' : m_workqueue'[i] # request'[w]
                      /\ \A v \in Workers : Processing(v)' /\ request'[v] = request'[w]
                                                => v = w
    BY DEF WorkersAlone
  <2> QED
    BY DEF IInv, WorkersAlone
<1> QED
  BY <1>1, <1>2 DEF IInv

(* A step that changes none of the variables keeps the invariant. *)
LEMMA NothingChanges ==
  ASSUME IInv,
         UNCHANGED <<m_workqueue, wpc, request, interest, returned, cpc, crossed>>
  PROVE  IInv'
  BY DEF IInv, FlightType, QueueAlone, WorkersAlone, Processing

(* main arms an armed connection anew, or disarms or closes any. *)
LEMMA MainChanges ==
  ASSUME IInv, NEW r \in Requests, NEW i \in Interest, Rearmed(r, i),
         interest[r] \in {"in", "out"} \/ i \in Disarmed,
         UNCHANGED <<m_workqueue, wpc, request, returned, cpc, crossed>>
  PROVE  IInv'
<1>1. FlightType' /\ \A w \in Workers : Processing(w)' <=> Processing(w)
  BY DEF IInv, FlightType, Rearmed, Processing
<1>2. \A q \in Requests : interest[q] \in Disarmed => interest'[q] \in Disarmed
  BY DEF IInv, FlightType, Rearmed, Disarmed
<1>3. \A j \in DOMAIN m_workqueue : m_workqueue[j] \in Requests
  BY DEF IInv, FlightType
<1>4. \A w \in Workers : Processing(w) => request[w] \in Requests
  BY DEF IInv, FlightType, Processing
<1> QED
  BY <1>1, <1>2, <1>3, <1>4, NoMoreInFlight

(* OnAccept(): either nothing of the object is in flight, or it crosses.   *)
LEMMA Accepted ==
  ASSUME IInv, NEW r \in Requests, OnAccept(r)
  PROVE  IInv'
<1>1. /\ UNCHANGED <<m_workqueue, wpc, request, returned, cpc>> /\ Rearmed(r, "in")
      /\ crossed' = IF InFlight(r) THEN crossed \cup {r} ELSE crossed \ {r}
  BY DEF OnAccept, tpvars
<1>2. FlightType' /\ \A w \in Workers : Processing(w)' <=> Processing(w)
  BY <1>1 DEF IInv, FlightType, Rearmed, Processing, Interest
<1>3. \A q \in Requests : q # r => interest'[q] = interest[q] /\ (q \in crossed' <=> q \in crossed)
  BY <1>1 DEF IInv, FlightType, Rearmed
<1>4. r \notin crossed' => Queued(r) = {} /\ Handling(r) = {}
  BY <1>1 DEF InFlight
<1>5. \A j \in DOMAIN m_workqueue : m_workqueue[j] \in Requests
  BY DEF IInv, FlightType
<1>6. \A w \in Workers : Processing(w) => request[w] \in Requests
  BY DEF IInv, FlightType, Processing
<1>7. ASSUME NEW j \in DOMAIN m_workqueue, m_workqueue[j] \notin crossed'
      PROVE  m_workqueue[j] # r
  BY <1>4, <1>7 DEF Queued
<1>8. ASSUME NEW w \in Workers, Processing(w), request[w] \notin crossed'
      PROVE  request[w] # r
  BY <1>4, <1>8 DEF Handling
<1> QED
  BY <1>1, <1>2, <1>3, <1>5, <1>6, <1>7, <1>8, NoMoreInFlight

(* A worker that does not enter or leave the loop body keeps the invariant. *)
LEMMA WorkerMoves ==
  ASSUME IInv, NEW w \in Workers, wpc[w] # "run",
         NEW l \in TP!Locations \ {"run"}, TP!GotoW(w, l),
         UNCHANGED <<m_workqueue, request, interest, returned, cpc, crossed>>
  PROVE  IInv'
<1>1. \A v \in Workers : Processing(v)' <=> Processing(v)
  BY DEF IInv, FlightType, TP!GotoW, Processing
<1>2. FlightType'
  BY <1>1 DEF IInv, FlightType, TP!GotoW
<1> QED
  BY <1>1, <1>2 DEF IInv, QueueAlone, WorkersAlone

(* OnReadable(): the object goes from armed into the list.                 *)
LEMMA Appended ==
  ASSUME IInv, NEW r \in Requests, interest[r] = "in",
         m_workqueue' = Append(m_workqueue, r), Rearmed(r, "off"),
         UNCHANGED <<wpc, request, returned, cpc, crossed>>
  PROVE  IInv'
<1>1. /\ m_workqueue' \in Seq(Requests)
      /\ DOMAIN m_workqueue' = 1..(Len(m_workqueue) + 1)
      /\ \A i \in DOMAIN m_workqueue : m_workqueue'[i] = m_workqueue[i]
      /\ m_workqueue'[Len(m_workqueue) + 1] = r
      /\ DOMAIN m_workqueue = 1..Len(m_workqueue) /\ Len(m_workqueue) \in Nat
  BY DEF IInv, FlightType
<1>2. /\ interest' \in [Requests -> Interest] /\ interest'[r] \in Disarmed
      /\ \A q \in Requests : q # r => interest'[q] = interest[q]
      /\ interest[r] \notin Disarmed
  BY DEF IInv, FlightType, Rearmed, Interest, Disarmed
<1>3. FlightType'
  BY <1>1, <1>2 DEF IInv, FlightType, Processing
<1>4. \A i \in DOMAIN m_workqueue :
         m_workqueue[i] \in Requests /\ (m_workqueue[i] = r => r \in crossed)
  BY <1>2 DEF IInv, FlightType, QueueAlone
<1>5. QueueAlone'
  <2> SUFFICES ASSUME NEW i \in DOMAIN m_workqueue', m_workqueue'[i] \notin crossed
               PROVE  /\ interest'[m_workqueue'[i]] \in Disarmed
                      /\ \A j \in DOMAIN m_workqueue' :
                            m_workqueue'[i] = m_workqueue'[j] => i = j
    BY DEF QueueAlone
  <2>1. interest'[m_workqueue'[i]] \in Disarmed
    BY <1>1, <1>2, <1>4 DEF IInv, QueueAlone
  <2>2. ASSUME NEW j \in DOMAIN m_workqueue', m_workqueue'[i] = m_workqueue'[j]
        PROVE  i = j
    <3>1. CASE i \in DOMAIN m_workqueue /\ j \in DOMAIN m_workqueue
      BY <1>1, <2>2, <3>1 DEF IInv, QueueAlone
    <3>2. CASE i \notin DOMAIN m_workqueue \/ j \notin DOMAIN m_workqueue
      BY <1>1, <1>4, <2>2, <3>2
    <3> QED
      BY <3>1, <3>2
  <2> QED
    BY <2>1, <2>2
<1>6. \A w \in Workers : Processing(w) =>
         request[w] \in Requests /\ (request[w] = r => r \in crossed)
  BY <1>2 DEF IInv, FlightType, WorkersAlone, Processing
<1>7. WorkersAlone'
  <2> SUFFICES ASSUME NEW w \in Workers, Processing(w), request[w] \notin crossed
               PROVE  /\ interest'[request[w]] \in Disarmed
                      /\ \A i \in DOMAIN m_workqueue' : m_workqueue'[i] # request[w]
                      /\ \A v \in Workers :
                            Processing(v) /\ request[v] = request[w] => v = w
    BY DEF WorkersAlone, Processing
  <2> QED
    BY <1>1, <1>2, <1>6 DEF IInv, WorkersAlone
<1> QED
  BY <1>3, <1>5, <1>7 DEF IInv

(* Pop(w), with a request: the object goes from the list to the worker.    *)
LEMMA Popped ==
  ASSUME IInv, NEW w \in Workers, m_workqueue # <<>>,
         wpc[w] = "pop", TP!GotoW(w, "run"),
         request' = [request EXCEPT ![w] = Head(m_workqueue)],
         m_workqueue' = Tail(m_workqueue),
         UNCHANGED <<interest, returned, cpc, crossed>>
  PROVE  IInv'
<1> DEFINE n == Len(m_workqueue)
<1>1. /\ n \in Nat \ {0} /\ DOMAIN m_workqueue = 1..n
      /\ Head(m_workqueue) = m_workqueue[1] /\ m_workqueue[1] \in Requests
      /\ m_workqueue' \in Seq(Requests)
      /\ DOMAIN m_workqueue' = 1..(n - 1)
      /\ \A i \in 1..(n - 1) : m_workqueue'[i] = m_workqueue[i + 1]
  BY DEF IInv, FlightType
<1>2. /\ wpc' \in [Workers -> TP!Locations] /\ wpc'[w] = "run"
      /\ \A v \in Workers : v # w => wpc'[v] = wpc[v]
  BY DEF IInv, FlightType, TP!GotoW, TP!Locations
<1>3. /\ request' \in [Workers -> Requests \cup {NULL}]
      /\ request'[w] = m_workqueue[1]
      /\ \A v \in Workers : v # w => request'[v] = request[v]
  BY <1>1 DEF IInv, FlightType
<1>4. FlightType'
  BY <1>1, <1>2, <1>3 DEF IInv, FlightType, Processing
<1>5. \A i \in DOMAIN m_workqueue' :
         i + 1 \in DOMAIN m_workqueue /\ m_workqueue'[i] = m_workqueue[i + 1]
  BY <1>1
<1>6. QueueAlone'
  <2> SUFFICES ASSUME NEW i \in DOMAIN m_workqueue', m_workqueue'[i] \notin crossed
               PROVE  /\ interest[m_workqueue'[i]] \in Disarmed
                      /\ \A j \in DOMAIN m_workqueue' :
                            m_workqueue'[i] = m_workqueue'[j] => i = j
    BY DEF QueueAlone
  <2>1. interest[m_workqueue'[i]] \in Disarmed
    BY <1>5 DEF IInv, QueueAlone
  <2>2. ASSUME NEW j \in DOMAIN m_workqueue', m_workqueue'[i] = m_workqueue'[j]
        PROVE  i = j
    <3>1. i + 1 = j + 1
      BY <1>5, <2>2 DEF IInv, QueueAlone
    <3> QED
      BY <1>1, <3>1
  <2> QED
    BY <2>1, <2>2
<1>7. /\ 1 \in DOMAIN m_workqueue
      /\ m_workqueue[1] \notin crossed =>
           /\ interest[m_workqueue[1]] \in Disarmed
           /\ \A j \in DOMAIN m_workqueue : m_workqueue[1] = m_workqueue[j] => j = 1
  BY <1>1 DEF IInv, QueueAlone
<1>8. ASSUME NEW v \in Workers, v # w, Processing(v)'
      PROVE  /\ Processing(v) /\ request'[v] = request[v]
             /\ request[v] = m_workqueue[1] => m_workqueue[1] \in crossed
  BY <1>2, <1>3, <1>7, <1>8 DEF IInv, WorkersAlone, Processing
<1>9. ASSUME NEW v \in Workers, Processing(v)', request'[v] \notin crossed
      PROVE  /\ interest'[request'[v]] \in Disarmed
             /\ \A i \in DOMAIN m_workqueue' : m_workqueue'[i] # request'[v]
             /\ \A u \in Workers : Processing(u)' /\ request'[u] = request'[v] => u = v
  <2>1. CASE v = w
    <3>1. m_workqueue[1] \notin crossed
      BY <1>3, <1>9, <2>1
    <3>2. \A i \in DOMAIN m_workqueue' : m_workqueue'[i] # m_workqueue[1]
      <4> SUFFICES ASSUME NEW i \in DOMAIN m_workqueue',
                          m_workqueue'[i] = m_workqueue[1]
                   PROVE  FALSE
        OBVIOUS
      <4>1. i + 1 = 1
        BY <1>5, <1>7, <3>1
      <4> QED
        BY <1>1, <4>1
    <3> QED
      BY <1>3, <1>7, <1>8, <2>1, <3>1, <3>2
  <2>2. CASE v # w
    <3>1. /\ Processing(v) /\ request'[v] = request[v] /\ request[v] \notin crossed
          /\ request[v] # m_workqueue[1]
      BY <1>8, <1>9, <2>2
    <3>2. interest[request[v]] \in Disarmed
          /\ \A i \in DOMAIN m_workqueue : m_workqueue[i] # request[v]
      BY <3>1 DEF IInv, WorkersAlone
    <3>3. ASSUME NEW u \in Workers, Processing(u)', request'[u] = request'[v]
          PROVE  u = v
      <4>1. u # w
        BY <1>3, <3>1, <3>3
      <4>2. Processing(u) /\ request'[u] = request[u]
        BY <1>8, <3>3, <4>1
      <4> QED
        BY <3>1, <3>3, <4>2 DEF IInv, WorkersAlone
    <3> QED
      BY <1>5, <3>1, <3>2, <3>3
  <2> QED
    BY <2>1, <2>2
<1>10. WorkersAlone'
  BY <1>9 DEF WorkersAlone
<1> QED
  BY <1>4, <1>6, <1>10 DEF IInv

(* process() returns: whatever its last modfd armed is not its own any     *)
(* more, and was nobody else's if the object has not crossed.              *)
LEMMA Processed ==
  ASSUME IInv, NEW w \in Workers, Process(w) \/ ModfdAfterClose(w)
  PROVE  IInv'
<1> DEFINE r == request[w]
<1>1. /\ Processing(w) /\ wpc[w] = "run" /\ r \in Requests
      /\ UNCHANGED <<m_workqueue, wpc, request, crossed>>
      /\ returned' = returned \cup {w}
      /\ cpc' \in [Workers -> {"out", "clear", "modfd"}]
      /\ cpc'[w] = "out" /\ \A v \in Workers : v # w => cpc'[v] = cpc[v]
  BY DEF Process, ModfdAfterClose, Processing, tpvars, IInv, FlightType
<1>2. /\ interest' \in [Requests -> Interest]
      /\ \A q \in Requests : q # r => interest'[q] = interest[q]
  BY <1>1 DEF Process, ModfdAfterClose, Modfd, Rearmed, Interest, IInv, FlightType
<1>3. ASSUME NEW v \in Workers, Processing(v)' PROVE Processing(v) /\ v # w
  BY <1>1, <1>3 DEF Processing
<1>4. FlightType'
  BY <1>1, <1>2 DEF IInv, FlightType, Processing
<1>5. \A j \in DOMAIN m_workqueue : m_workqueue[j] \in Requests
  BY DEF IInv, FlightType
<1>6. \A j \in DOMAIN m_workqueue : m_workqueue[j] = r => r \in crossed
  BY <1>1 DEF IInv, WorkersAlone
<1>7. ASSUME NEW v \in Workers, Processing(v)', request[v] \notin crossed
      PROVE  request[v] \in Requests /\ request[v] # r
  BY <1>1, <1>3, <1>7 DEF IInv, WorkersAlone, FlightType, Processing
<1> QED
  BY <1>1, <1>2, <1>3, <1>4, <1>5, <1>6, <1>7, NoMoreInFlight

(* close_conn() closes whatever connection has the number. *)
LEMMA Closed ==
  ASSUME IInv, NEW w \in Workers, CloseRemoves(w) \/ CloseClears(w)
  PROVE  IInv'
<1>1. /\ Processing(w) /\ UNCHANGED <<m_workqueue, wpc, request, crossed, returned>>
      /\ cpc' \in [Workers -> {"out", "clear", "modfd"}]
      /\ \A v \in Workers : v # w => cpc'[v] = cpc[v]
  BY DEF CloseRemoves, CloseClears, IInv, FlightType, tpvars
<1>2. /\ interest' \in [Requests -> Interest]
      /\ \A q \in Requests : interest[q] \in Disarmed => interest'[q] \in Disarmed
  BY DEF CloseRemoves, CloseClears, Rearmed, IInv, FlightType, Disarmed, Interest
<1>3. FlightType' /\ \A v \in Workers : Processing(v)' <=> Processing(v)
  BY <1>1, <1>2 DEF IInv, FlightType, Processing
<1>4. \A j \in DOMAIN m_workqueue : m_workqueue[j] \in Requests
  BY DEF IInv, FlightType
<1>5. \A v \in Workers : Processing(v) => request[v] \in Requests
  BY DEF IInv, FlightType, Processing
<1> QED
  BY <1>1, <1>2, <1>3, <1>4, <1>5, NoMoreInFlight

(* The next iteration of run(): the worker's object is no longer its own,  *)
(* and the worker is not processing.                                       *)
LEMMA Ended ==
  ASSUME IInv, NEW w \in Workers, EndIteration(w)
  PROVE  IInv'
<1>1. /\ w \in returned /\ returned' = returned \ {w}
      /\ wpc' = [wpc EXCEPT ![w] = "loop"] /\ request' = [request EXCEPT ![w] = NULL]
      /\ UNCHANGED <<m_workqueue, interest, crossed, cpc>>
  BY DEF EndIteration, TP!Finish, TP!GotoW, connvars
<1>2. "loop" \in TP!Locations
  BY DEF TP!Locations
<1>3. \A v \in Workers : Processing(v)' <=> Processing(v)
  BY <1>1 DEF IInv, FlightType, Processing
<1>4. FlightType'
  BY <1>1, <1>2, <1>3 DEF IInv, FlightType
<1>5. \A v \in Workers : Processing(v)' => request'[v] = request[v]
  BY <1>1 DEF IInv, FlightType, Processing
<1> QED
  BY <1>1, <1>3, <1>4, <1>5, NoMoreInFlight
-----------------------------------------------------------------------------
(* Every step of main and of the workers keeps the invariant. *)
LEMMA InvStep == IInv /\ [Next]_vars => IInv'
<1> SUFFICES ASSUME IInv, [Next]_vars PROVE IInv'
  OBVIOUS
<1>1. CASE AppendPost
  BY <1>1, NothingChanges DEF AppendPost, TP!AppendPost, connvars
<1>2. ASSUME NEW r \in Requests, OnReadable(r) PROVE IInv'
  <2>1. CASE TP!AppendPush(r)
    BY <1>2, <2>1, Appended DEF OnReadable, TP!AppendPush
  <2>2. CASE TP!AppendRefused(r)
    BY <1>2, <2>2, MainChanges
    DEF OnReadable, TP!AppendRefused, TP!vars, Disarmed, Interest
  <2> QED
    BY <1>2, <2>1, <2>2 DEF OnReadable
<1>3. ASSUME NEW r \in Requests, OnWritable(r) \/ CloseByMain(r) PROVE IInv'
  <2>1. UNCHANGED <<m_workqueue, wpc, request, returned, cpc, crossed>>
    BY <1>3 DEF OnWritable, CloseByMain, tpvars
  <2>2. CASE OnWritable(r)
    <3>1. PICK i \in Interest : Rearmed(r, i)
      BY <2>2 DEF OnWritable, Interest
    <3>2. interest[r] \in {"in", "out"}
      BY <2>2 DEF OnWritable
    <3> QED
      BY <2>1, <3>1, <3>2, MainChanges
  <2>3. CASE CloseByMain(r)
    <3>1. "closed" \in Interest /\ "closed" \in Disarmed /\ Rearmed(r, "closed")
      BY <2>3 DEF CloseByMain, Interest, Disarmed
    <3> QED
      BY <2>1, <3>1, MainChanges
  <2> QED
    BY <1>3, <2>2, <2>3
<1>4. ASSUME NEW r \in Requests, OnAccept(r) PROVE IInv'
  BY <1>4, Accepted
<1>5. ASSUME NEW w \in Workers, TakeRequest(w) \/ Interrupted(w) PROVE IInv'
  <2>0. UNCHANGED <<interest, returned, cpc, crossed>>
    BY <1>5 DEF TakeRequest, Interrupted, connvars
  <2>1. CASE TP!TestStop(w) \/ TP!WaitStat(w) \/ TP!WaitInterrupted(w)
    <3>1. PICK l \in TP!Locations \ {"run"} : TP!GotoW(w, l)
      BY <2>1 DEF TP!TestStop, TP!WaitStat, TP!WaitInterrupted, TP!Locations
    <3>2. wpc[w] # "run" /\ UNCHANGED <<m_workqueue, request>>
      BY <2>1 DEF TP!TestStop, TP!WaitStat, TP!WaitInterrupted
    <3> QED
      BY <2>0, <3>1, <3>2, WorkerMoves
  <2>2. CASE TP!Pop(w) /\ m_workqueue = <<>>
    <3>1. "loop" \in TP!Locations \ {"run"}
      BY DEF TP!Locations
    <3> QED
      BY <2>0, <2>2, <3>1, WorkerMoves DEF TP!Pop
  <2>3. CASE TP!Pop(w) /\ m_workqueue # <<>>
    BY <2>0, <2>3, Popped DEF TP!Pop
  <2> QED
    BY <1>5, <2>1, <2>2, <2>3 DEF TakeRequest, Interrupted
<1>6. ASSUME NEW w \in Workers, GetConnection(w) \/ ReleaseConnection(w) PROVE IInv'
  BY <1>6, NothingChanges DEF GetConnection, ReleaseConnection, tpvars, connvars
<1>7. ASSUME NEW w \in Workers, Process(w) \/ ModfdAfterClose(w) PROVE IInv'
  BY <1>7, Processed
<1>8. ASSUME NEW w \in Workers, CloseRemoves(w) \/ CloseClears(w) PROVE IInv'
  BY <1>8, Closed
<1>9. ASSUME NEW w \in Workers, EndIteration(w) PROVE IInv'
  BY <1>9, Ended
<1>10. CASE UNCHANGED vars
  BY <1>10, NothingChanges DEF vars, tpvars, connvars
<1> QED
  BY <1>1, <1>2, <1>3, <1>4, <1>5, <1>6, <1>7, <1>8, <1>9, <1>10 DEF Next, WorkerStep

(* The invariant counts: no object is in two of the three places. *)
LEMMA InvSingle == IInv => SingleFlight
<1> SUFFICES ASSUME IInv, NEW r \in Requests, r \notin crossed
             PROVE  Cardinality(Queued(r)) + Cardinality(Handling(r))
                      + (IF interest[r] \in {"in", "out"} THEN 1 ELSE 0) <= 1
  BY DEF SingleFlight
<1>1. Queued(r) = {} \/ \E i \in DOMAIN m_workqueue : Queued(r) = {i}
  BY DEF IInv, QueueAlone, Queued
<1>2. Handling(r) = {} \/ \E w \in Workers : Handling(r) = {w}
  BY DEF IInv, WorkersAlone, Handling
<1>3. Cardinality(Queued(r)) \in {0, 1} /\ (Queued(r) = {} <=> Cardinality(Queued(r)) = 0)
  BY <1>1, FS_EmptySet, FS_Singleton
<1>4. Cardinality(Handling(r)) \in {0, 1}
      /\ (Handling(r) = {} <=> Cardinality(Handling(r)) = 0)
  BY <1>2, FS_EmptySet, FS_Singleton
<1>5. Queued(r) # {} => interest[r] \in Disarmed
  BY DEF IInv, QueueAlone, Queued
<1>6. Handling(r) # {} => interest[r] \in Disarmed /\ Queued(r) = {}
  BY DEF IInv, WorkersAlone, Handling, Queued
<1> QED
  BY <1>3, <1>4, <1>5, <1>6 DEF Disarmed

(* Main and the workers never hold one http_conn object at the same time:  *)
(* it is armed, or queued once, or in process() of one worker, unless its  *)
(* number was accepted again while it was queued or in process().          *)
THEOREM SingleFlightHolds == Spec => []SingleFlight
<1> QED
  BY InvInit, InvStep, InvSingle, PTL DEF Spec
-----------------------------------------------------------------------------
(* The workers and the connection pool: what ConnectionPoolProofs proves   *)
(* of a pool holds of this one.                                            *)
Pool == INSTANCE ConnectionPoolProofs
          WITH Threads <- Workers, m_maxConn <- Cardinality(Conns)

(* Cardinalities are the same here and there. *)
LEMMA SameCardinality ==
    /\ \A S : CP!Cardinality(S) = Cardinality(S)
    /\ \A S : Pool!Cardinality(S) = Cardinality(S)
    /\ \A S : Pool!IsFiniteSet(S) <=> IsFiniteSet(S)
  BY DEF Cardinality, CP!Cardinality, Pool!Cardinality, IsFiniteSet, Pool!IsFiniteSet

(* The constants are those of a pool. *)
LEMMA PoolConstants == Pool!PoolAssumption
  BY SameCardinality, WorkerPoolAssumption DEF Pool!PoolAssumption

(* Every step is one of the pool, or leaves the pool alone. *)
LEMMA PoolStep == [Next]_vars => [CP!Next]_CP!vars
<1> SUFFICES ASSUME [Next]_vars PROVE [CP!Next]_CP!vars
  OBVIOUS
<1>1. CASE UNCHANGED cpvars
  BY <1>1 DEF cpvars, CP!vars
<1>2. CASE AppendPost \/ UNCHANGED vars
  BY <1>1, <1>2 DEF AppendPost, vars
<1>3. ASSUME NEW r \in Requests,
             OnReadable(r) \/ OnWritable(r) \/ CloseByMain(r) \/ OnAccept(r)
      PROVE  UNCHANGED cpvars
  BY <1>3 DEF OnReadable, OnWritable, CloseByMain, OnAccept
<1>4. ASSUME NEW w \in Workers,
             TakeRequest(w) \/ Interrupted(w) \/ Process(w) \/ CloseRemoves(w)
               \/ CloseClears(w) \/ ModfdAfterClose(w) \/ EndIteration(w)
      PROVE  UNCHANGED cpvars
  BY <1>4 DEF TakeRequest, Interrupted, Process, CloseRemoves, CloseClears,
     ModfdAfterClose, EndIteration
<1>5. ASSUME NEW w \in Workers, GetConnection(w) \/ ReleaseConnection(w)
      PROVE  CP!Next
  BY <1>5 DEF GetConnection, ReleaseConnection, CP!Next, CP!Step
<1> QED
  BY <1>1, <1>2, <1>3, <1>4, <1>5 DEF Next, WorkerStep

(* The workers use the connection pool as it is meant to be used.          *)
THEOREM PoolRefined == Spec => ImplementsPool
<1>1. Init => CP!Init
  BY DEF Init
<1> QED
  BY <1>1, PoolStep, PTL DEF Spec, ImplementsPool, CP!Spec

(* The pool's own invariants, here.                                        *)
LEMMA PoolInvariants == Spec => [](Pool!TypeOK /\ Pool!NeverShort)
<1>1. CP!Init => Pool!Init
  BY SameCardinality DEF CP!Init, Pool!Init, CP!Injective, Pool!Injective
<1>2. [CP!Next]_CP!vars => [Pool!Next]_Pool!vars
  BY SameCardinality
  DEF CP!Next, Pool!Next, CP!Step, Pool!Step, CP!CheckSize, Pool!CheckSize,
      CP!WaitReserve, Pool!WaitReserve, CP!WaitInterrupted, Pool!WaitInterrupted,
      CP!Take, Pool!Take, CP!ReleaseNull, Pool!ReleaseNull, CP!Release, Pool!Release,
      CP!Post, Pool!Post, CP!DestroyPool, Pool!DestroyPool, CP!Goto, Pool!Goto,
      CP!Listed, Pool!Listed, CP!vars, Pool!vars
<1>3. Pool!Spec => []Pool!TypeOK
  BY PoolConstants, Pool!TypeCorrect
<1>4. Pool!Spec => []Pool!NeverShort
  BY PoolConstants, Pool!NeverShortHolds
<1> QED
  BY <1>1, <1>2, <1>3, <1>4, PoolRefined, PTL DEF ImplementsPool, CP!Spec, Pool!Spec

(* What a worker holds is in request->mysql, and it has a handle on its    *)
(* way only while it handles a request.  WorkersAlone is what keeps        *)
(* another worker from writing the same request->mysql.                    *)
HandleInv ==
    /\ TypeOK
    /\ closed = {}
    /\ \A w \in Workers :
          Processing(w) /\ pc[w] = "use" /\ request[w] \notin crossed =>
              mysql[request[w]] = conRAII[w]

(* At first nobody holds a handle. *)
LEMMA HandleInit == Init => HandleInv
  BY DEF Init, CP!Init, TP!Init, HandleInv, TypeOK, Interest, Processing

(* Steps that touch neither the pool nor request->mysql.                   *)
LEMMA HandleKept ==
    ASSUME HandleInv, TypeOK', UNCHANGED <<pc, conRAII, closed, mysql>>,
           \A v \in Workers :
              Processing(v)' /\ pc[v] # "out" /\ request'[v] \notin crossed' =>
                 Processing(v) /\ request'[v] = request[v] /\ request[v] \notin crossed
    PROVE  HandleInv'
  BY DEF HandleInv

(* getConnection() of one worker. *)
LEMMA HandleTaken ==
    ASSUME IInv, HandleInv, NEW w \in Workers, GetConnection(w),
           Pool!TypeOK, Pool!TypeOK'
    PROVE  HandleInv'
<1>1. /\ pc \in [Workers -> Pool!Locations] /\ pc' \in [Workers -> Pool!Locations]
      /\ conRAII \in [Workers -> Conns \cup {NULL}]
      /\ conRAII' \in [Workers -> Conns \cup {NULL}]
  BY DEF Pool!TypeOK
<1>2. /\ Processing(w) /\ pc[w] # "use" /\ request[w] \in Requests
      /\ UNCHANGED <<tpvars, connvars, cpc, returned, closed>>
      /\ \A v \in Workers : v # w => pc'[v] = pc[v] /\ conRAII'[v] = conRAII[v]
      /\ mysql' = IF pc'[w] = "use" THEN [mysql EXCEPT ![request[w]] = conRAII'[w]]
                                     ELSE mysql
  BY <1>1 DEF GetConnection, Processing, IInv, FlightType, CP!CheckSize, CP!WaitReserve,
     CP!WaitInterrupted, CP!Take, CP!Goto
<1>3. TypeOK'
  BY <1>1, <1>2 DEF HandleInv, TypeOK, tpvars, connvars, Processing
<1>4. ASSUME NEW v \in Workers, Processing(v)', pc'[v] = "use", request'[v] \notin crossed'
      PROVE  mysql'[request'[v]] = conRAII'[v]
  <2>1. CASE v = w
    BY <1>2, <1>4, <2>1 DEF tpvars, connvars, HandleInv, TypeOK
  <2>2. CASE v # w
    <3>1. Processing(v) /\ request'[v] = request[v] /\ pc[v] = "use" /\ request[v] \notin crossed
      BY <1>2, <1>4, <2>2 DEF tpvars, connvars, Processing
    <3>2. request[v] # request[w]
      BY <1>2, <2>2, <3>1 DEF IInv, WorkersAlone
    <3> QED
      BY <1>2, <2>2, <3>1, <3>2 DEF HandleInv, TypeOK
  <2> QED
    BY <2>1, <2>2
<1> QED
  BY <1>2, <1>3, <1>4 DEF HandleInv

(* ~connectionRAII of one worker, after process(). *)
LEMMA HandleReleased ==
    ASSUME IInv, HandleInv, NEW w \in Workers, ReleaseConnection(w), Pool!TypeOK
    PROVE  HandleInv'
<1>1. /\ w \in returned /\ UNCHANGED <<tpvars, connvars, mysql, cpc, returned, closed>>
      /\ \A v \in Workers : v # w => pc'[v] = pc[v] /\ conRAII'[v] = conRAII[v]
  BY DEF Pool!TypeOK, ReleaseConnection, CP!Release, CP!ReleaseNull, CP!Post, CP!Goto
<1>2. cpc[w] = "out"
  BY <1>1 DEF HandleInv, TypeOK, Processing
<1>3. TypeOK'
  BY <1>1, <1>2 DEF HandleInv, TypeOK, tpvars, connvars, Processing
<1>4. ASSUME NEW v \in Workers, Processing(v)', pc'[v] = "use", request'[v] \notin crossed'
      PROVE  mysql'[request'[v]] = conRAII'[v]
  BY <1>1, <1>4 DEF HandleInv, Processing, tpvars, connvars
<1> QED
  BY <1>1, <1>3, <1>4 DEF HandleInv

(* Every step of main and of the workers keeps it. *)
LEMMA HandleStep ==
    IInv /\ IInv' /\ HandleInv /\ Pool!TypeOK /\ Pool!TypeOK' /\ [Next]_vars
      => HandleInv'
<1> SUFFICES ASSUME IInv, IInv', HandleInv, Pool!TypeOK, Pool!TypeOK', [Next]_vars
             PROVE  HandleInv'
  OBVIOUS
<1>1. ASSUME NEW w \in Workers, GetConnection(w) PROVE HandleInv'
  BY <1>1, HandleTaken
<1>2. ASSUME NEW w \in Workers, ReleaseConnection(w) PROVE HandleInv'
  BY <1>2, HandleReleased
<1>3. CASE AppendPost \/ UNCHANGED vars
      \/ \E r \in Requests : OnReadable(r) \/ OnWritable(r) \/ CloseByMain(r)
  <2>1. UNCHANGED <<pc, conRAII, closed, mysql, returned, wpc, request, m_sockfd, cpc, crossed>>
    BY <1>3 DEF AppendPost, vars, tpvars, cpvars, connvars, TP!AppendPost, OnReadable,
       OnWritable, CloseByMain, TP!AppendPush, TP!AppendRefused, TP!vars
  <2>2. TypeOK'
    BY <2>1 DEF HandleInv, TypeOK, Processing, IInv, FlightType
  <2> QED
    BY <2>1, <2>2, HandleKept DEF Processing
<1>4. ASSUME NEW r \in Requests, OnAccept(r) PROVE HandleInv'
  <2>1. /\ UNCHANGED <<pc, conRAII, closed, mysql, returned, wpc, request, cpc>>
        /\ m_sockfd' = [m_sockfd EXCEPT ![r] = r]
        /\ crossed' = IF InFlight(r) THEN crossed \cup {r} ELSE crossed \ {r}
    BY <1>4 DEF OnAccept, tpvars, cpvars
  <2>2. TypeOK'
    BY <2>1 DEF HandleInv, TypeOK, Processing, IInv, FlightType
  <2>3. ASSUME NEW v \in Workers, Processing(v)', request'[v] \notin crossed'
        PROVE  Processing(v) /\ request'[v] = request[v] /\ request[v] \notin crossed
    <3>1. Processing(v) /\ request'[v] = request[v]
      BY <2>1, <2>3 DEF Processing
    <3>2. request[v] = r => v \in Handling(r)
      BY <3>1 DEF Handling
    <3> QED
      BY <2>1, <2>3, <3>1, <3>2 DEF InFlight
  <2> QED
    BY <2>1, <2>2, <2>3, HandleKept
<1>5. ASSUME NEW w \in Workers, TakeRequest(w) \/ Interrupted(w) PROVE HandleInv'
  <2>1. /\ UNCHANGED <<pc, conRAII, closed, mysql, returned, m_sockfd, cpc, crossed, interest>>
        /\ wpc[w] # "run"
        /\ \A v \in Workers : v # w => wpc'[v] = wpc[v] /\ request'[v] = request[v]
    BY <1>5 DEF TakeRequest, Interrupted, cpvars, connvars, TP!TestStop, TP!WaitStat,
       TP!Pop, TP!WaitInterrupted, TP!GotoW, IInv, FlightType
  <2>2. pc[w] = "out" /\ w \notin returned
    BY <2>1 DEF HandleInv, TypeOK
  <2>3. TypeOK'
    BY <2>1, <2>2 DEF HandleInv, TypeOK, Processing
  <2> QED
    BY <2>1, <2>2, <2>3, HandleKept DEF Processing
<1>6. ASSUME NEW w \in Workers, Process(w) \/ ModfdAfterClose(w) PROVE HandleInv'
  <2>1. /\ UNCHANGED <<pc, conRAII, closed, mysql, m_sockfd, crossed, wpc, request>>
        /\ Processing(w) /\ returned' = returned \cup {w}
    BY <1>6 DEF Process, ModfdAfterClose, tpvars, cpvars, IInv, FlightType
  <2>2. /\ cpc' \in [Workers -> {"out", "clear", "modfd"}] /\ cpc'[w] = "out"
        /\ \A v \in Workers : v # w => cpc'[v] = cpc[v]
    BY <1>6 DEF Process, ModfdAfterClose, HandleInv, TypeOK
  <2>3. TypeOK'
    BY <2>1, <2>2 DEF HandleInv, TypeOK, Processing, IInv, FlightType
  <2> QED
    BY <2>1, <2>3, HandleKept DEF Processing
<1>7. ASSUME NEW w \in Workers, CloseRemoves(w) \/ CloseClears(w) PROVE HandleInv'
  <2>1. /\ UNCHANGED <<pc, conRAII, closed, mysql, crossed, wpc, request, returned>>
        /\ Processing(w) /\ pc[w] = "use" /\ request[w] \in Requests
    BY <1>7 DEF CloseRemoves, CloseClears, tpvars, cpvars, IInv, FlightType, Processing,
       HandleInv, TypeOK
  <2>2. /\ cpc' \in [Workers -> {"out", "clear", "modfd"}]
        /\ \A v \in Workers : v # w => cpc'[v] = cpc[v]
        /\ m_sockfd' \in [Requests -> Requests \cup {NULL}]
    BY <1>7, <2>1 DEF CloseRemoves, CloseClears, HandleInv, TypeOK
  <2>3. TypeOK'
    BY <2>1, <2>2 DEF HandleInv, TypeOK, Processing, IInv, FlightType
  <2> QED
    BY <2>1, <2>3, HandleKept DEF Processing
<1>8. ASSUME NEW w \in Workers, EndIteration(w) PROVE HandleInv'
  <2>1. /\ UNCHANGED <<pc, conRAII, closed, mysql, m_sockfd, cpc, crossed, interest>>
        /\ pc[w] = "out" /\ w \in returned /\ returned' = returned \ {w}
        /\ wpc'[w] # "run"
        /\ \A v \in Workers : v # w => wpc'[v] = wpc[v] /\ request'[v] = request[v]
    BY <1>8 DEF EndIteration, cpvars, connvars, TP!Finish, TP!GotoW, IInv, FlightType
  <2>2. TypeOK'
    BY <2>1 DEF HandleInv, TypeOK, Processing
  <2> QED
    BY <2>1, <2>2, HandleKept DEF Processing
<1> QED
  BY <1>1, <1>2, <1>3, <1>4, <1>5, <1>6, <1>7, <1>8 DEF Next, WorkerStep

(* The three invariants together are inductive. *)
LEMMA HandleInvHolds == Spec => []HandleInv
  BY InvInit, InvStep, HandleInit, HandleStep, PoolInvariants, PTL DEF Spec

(* The variables this module adds keep their types, a connectionRAII       *)
(* object lives only within the loop body of run(), and close_conn() is    *)
(* called within its life.                                                 *)
THEOREM TypeCorrect == Spec => []TypeOK
<1>1. HandleInv => TypeOK
  BY DEF HandleInv
<1> QED
  BY <1>1, HandleInvHolds, PTL

(* While process() runs, request->mysql is the handle its worker holds,    *)
(* and there is one (threadpool.h run(), sql_connection_pool.cpp           *)
(* getConnection()), unless the number of the object was accepted again    *)
(* while it was in flight.                                                 *)
THEOREM OwnHandleHolds == Spec => []OwnHandle
<1>1. HandleInv /\ Pool!NeverShort => OwnHandle
  BY SameCardinality, WorkerPoolAssumption
  DEF HandleInv, Pool!NeverShort, Pool!Enough, Pool!At, OwnHandle
<1> QED
  BY <1>1, HandleInvHolds, PoolInvariants, PTL
=============================================================================
