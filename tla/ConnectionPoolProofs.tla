------------------------ MODULE ConnectionPoolProofs ------------------------
(***************************************************************************)
(* Proofs about ConnectionPool, for any number of threads and of handles,  *)
(* and any width of the counters.                                          *)
(***************************************************************************)
EXTENDS ConnectionPool, FiniteSetTheorems, TLAPS

(* Any number of handles fits into an unsigned int.                        *)
LEMMA Width ==
    UIntRange \in Nat /\ Cardinality(Conns) \in Nat /\ Cardinality(Conns) < UIntRange
  BY PoolAssumption, FS_CardinalityType

(* m_maxConn, which init() sets to the number of handles it has opened,    *)
(* fits as well.                                                           *)
LEMMA MaxConnNat ==
    ASSUME m_maxConn \in 1..Cardinality(Conns)
    PROVE  m_maxConn \in Nat /\ m_maxConn < UIntRange
  BY Width

(* Unsigned arithmetic wraps around and stays in range.                    *)
LEMMA Wrap == \A n \in Int : n % UIntRange \in 0..(UIntRange - 1)
  BY Width

(* An unsigned value in range is its own remainder.                        *)
LEMMA Modulo ==
    ASSUME NEW x \in 0..(UIntRange - 1)
    PROVE  x % UIntRange = x
  BY PoolAssumption

(* getConnection() and releaseConnection() keep the pool in its types.     *)
THEOREM TypeCorrect == Spec => []TypeOK
<1>1. Init => TypeOK
  <2> SUFFICES ASSUME Init PROVE TypeOK
    OBVIOUS
  <2>0. m_maxConn \in 1..Cardinality(Conns) /\ m_maxConn \in Nat
    BY MaxConnNat DEF Init
  <2>1. connList \in Seq(Conns)
    BY <2>0 DEF Init
  <2>2. m_freeConn \in 0..(UIntRange - 1) /\ m_curConn \in 0..(UIntRange - 1)
    BY <2>0, MaxConnNat, Width DEF Init
  <2>3. reserve \in Nat /\ closed \in SUBSET Conns
    BY <2>0 DEF Init
  <2>4. pc \in [Threads -> Locations] /\ conRAII \in [Threads -> Conns \cup {NULL}]
    BY DEF Init, Locations
  <2> QED BY <2>0, <2>1, <2>2, <2>3, <2>4 DEF TypeOK
<1>2. TypeOK /\ [Next]_vars => TypeOK'
  <2> SUFFICES ASSUME TypeOK, [Next]_vars PROVE TypeOK'
    OBVIOUS
  <2>0. /\ (m_freeConn - 1) % UIntRange \in 0..(UIntRange - 1)
        /\ (m_freeConn + 1) % UIntRange \in 0..(UIntRange - 1)
        /\ (m_curConn - 1) % UIntRange \in 0..(UIntRange - 1)
        /\ (m_curConn + 1) % UIntRange \in 0..(UIntRange - 1)
    <3>1. /\ m_freeConn - 1 \in Int /\ m_freeConn + 1 \in Int
          /\ m_curConn - 1 \in Int /\ m_curConn + 1 \in Int
      BY Width DEF TypeOK
    <3> QED BY <3>1, Wrap, Zenon
  <2>00. m_maxConn' = m_maxConn
    BY DEF Next, vars
  <2>1. ASSUME NEW t \in Threads,
               CheckSize(t) \/ WaitReserve(t) \/ WaitInterrupted(t) \/ Post(t)
        PROVE  TypeOK'
    BY <2>00, <2>1 DEF TypeOK, CheckSize, WaitReserve, WaitInterrupted, Post, Goto,
                Locations
  <2>2. ASSUME NEW t \in Threads, ReleaseNull(t) PROVE TypeOK'
    BY <2>00, <2>2 DEF TypeOK, ReleaseNull, Goto, Locations
  <2>3. ASSUME NEW t \in Threads, Take(t) PROVE TypeOK'
    <3>1. Head(connList) \in Conns /\ Tail(connList) \in Seq(Conns)
      BY <2>3 DEF Take, TypeOK
    <3> QED BY <2>00, <2>0, <2>3, <3>1 DEF TypeOK, Take, Goto, Locations
  <2>4. ASSUME NEW t \in Threads, Release(t) PROVE TypeOK'
    <3>1. Append(connList, conRAII[t]) \in Seq(Conns)
      BY <2>4 DEF Release, TypeOK
    <3> QED BY <2>00, <2>0, <2>4, <3>1 DEF TypeOK, Release, Goto, Locations
  <2>5. CASE DestroyPool
    <3>1. connList' = <<>> /\ connList' \in Seq(Conns)
      BY <2>5 DEF DestroyPool
    <3>2. Listed \subseteq Conns
      BY DEF Listed, TypeOK
    <3> QED BY <2>00, <2>5, <3>1, <3>2, Width DEF TypeOK, DestroyPool
  <2>6. CASE UNCHANGED vars
    BY <2>6 DEF TypeOK, vars
  <2> QED BY <2>1, <2>2, <2>3, <2>4, <2>5, <2>6 DEF Next, Step
<1> QED BY <1>1, <1>2, PTL DEF Spec
-----------------------------------------------------------------------------
(* No handle is listed twice or held twice, or both at once: true of any   *)
(* number of threads, also of more threads than handles.                   *)
THEOREM HandleExclusiveHolds == Spec => []HandleExclusive
<1>1. Init => HandleExclusive
  BY DEF Init, HandleExclusive, Holders, Listed
<1>2. TypeOK /\ HandleExclusive /\ [Next]_vars => HandleExclusive'
  <2> SUFFICES ASSUME TypeOK, HandleExclusive, [Next]_vars PROVE HandleExclusive'
    OBVIOUS
  <2>1. ASSUME UNCHANGED <<connList, conRAII>> PROVE HandleExclusive'
    BY <2>1 DEF HandleExclusive, Holders, Listed, Injective
  <2>2. ASSUME NEW t \in Threads,
               \/ CheckSize(t) \/ WaitReserve(t) \/ WaitInterrupted(t)
               \/ Post(t) \/ ReleaseNull(t)
        PROVE  HandleExclusive'
    BY <2>1, <2>2 DEF CheckSize, WaitReserve, WaitInterrupted, Post, ReleaseNull
  <2>3. ASSUME NEW t \in Threads, Take(t) PROVE HandleExclusive'
    <3>1. /\ DOMAIN connList = 1..Len(connList)
          /\ Len(connList) \in Nat \ {0}
          /\ Len(connList') = Len(connList) - 1
          /\ DOMAIN connList' = 1..(Len(connList) - 1)
          /\ \A i \in DOMAIN connList' : connList'[i] = connList[i+1]
      BY <2>3 DEF Take, TypeOK
    <3>2. Head(connList) = connList[1]
      BY <2>3 DEF Take, TypeOK
    <3>3. Injective(connList')
      BY <3>1 DEF Injective, HandleExclusive
    <3>4. Head(connList) \in Listed /\ Listed' = Listed \ {Head(connList)}
      <4>1. \A i \in DOMAIN connList' : connList[i+1] # connList[1]
        BY <3>1 DEF Injective, HandleExclusive
      <4>2. Listed' = {connList[i+1] : i \in 1..(Len(connList) - 1)}
        BY <3>1 DEF Listed
      <4>3. \A j \in 1..Len(connList) :
               j = 1 \/ (j - 1 \in 1..(Len(connList) - 1) /\ (j - 1) + 1 = j)
        BY <3>1
      <4>4. \A x \in Listed : x = connList[1] \/ x \in Listed'
        <5> SUFFICES ASSUME NEW j \in 1..Len(connList), j # 1
                     PROVE  connList[j] \in Listed'
          BY <3>1 DEF Listed
        <5>1. connList[(j - 1) + 1] \in Listed'
          BY <4>2, <4>3
        <5> QED BY <4>3, <5>1
      <4>5. Listed' \subseteq Listed /\ connList[1] \in Listed
        BY <3>1, <4>2 DEF Listed
      <4>6. connList[1] \notin Listed'
        BY <3>1, <4>1, <4>2
      <4> QED BY <3>2, <4>4, <4>5, <4>6
    <3>5. conRAII' = [conRAII EXCEPT ![t] = Head(connList)]
      BY <2>3 DEF Take
    <3> QED BY <3>3, <3>4, <3>5 DEF HandleExclusive, Holders, TypeOK
  <2>4. ASSUME NEW t \in Threads, Release(t) PROVE HandleExclusive'
    <3>1. /\ DOMAIN connList = 1..Len(connList)
          /\ Len(connList) \in Nat
          /\ DOMAIN connList' = 1..(Len(connList) + 1)
          /\ \A i \in DOMAIN connList : connList'[i] = connList[i]
          /\ connList'[Len(connList) + 1] = conRAII[t]
      BY <2>4 DEF Release, TypeOK
    <3>2. conRAII[t] \notin Listed /\ t \in Holders
      BY <2>4 DEF Release, HandleExclusive, Holders
    <3>3. Injective(connList')
      BY <3>1, <3>2 DEF Injective, HandleExclusive, Listed
    <3>4. Listed' = Listed \cup {conRAII[t]}
      BY <3>1 DEF Listed
    <3>5. conRAII' = [conRAII EXCEPT ![t] = NULL]
      BY <2>4 DEF Release
    <3> QED BY <3>2, <3>3, <3>4, <3>5 DEF HandleExclusive, Holders, TypeOK
  <2>5. CASE DestroyPool
    <3>1. Listed' = {} /\ Injective(connList')
      BY <2>5 DEF DestroyPool, Listed, Injective
    <3> QED BY <2>5, <3>1 DEF DestroyPool, HandleExclusive, Holders
  <2>6. CASE UNCHANGED vars
    BY <2>1, <2>6 DEF vars
  <2> QED BY <2>2, <2>3, <2>4, <2>5, <2>6 DEF Next, Step
<1> QED BY <1>1, <1>2, TypeCorrect, PTL DEF Spec
-----------------------------------------------------------------------------
(* Only a thread past getConnection() has a handle. *)
HoldersUse == \A t \in Holders : pc[t] = "use"

(* Threads between reserve.wait() and reserve.post(). *)
Busy == At("take") \cup At("use") \cup At("post")

(* Until destroyPool() every handle is listed or held.  Every unit of the  *)
(* semaphore is free or with a busy thread; this one needs that no wait is *)
(* interrupted and no getConnection() returns nullptr, which follows where *)
(* there are enough handles.                                               *)
Accounts ==
    /\ HoldersUse
    /\ closed = {} => Len(connList) + Cardinality(Holders) = m_maxConn
    /\ Enough => /\ Holders = At("use")
                 /\ reserve + Cardinality(Busy) = m_maxConn

(* Sets of threads are finite, and grow and shrink by one.                 *)
LEMMA Finite ==
    \A S \in SUBSET Threads :
        /\ IsFiniteSet(S) /\ Cardinality(S) \in Nat
        /\ Cardinality(S) <= Cardinality(Threads)
        /\ \A t \in Threads :
              /\ t \notin S => Cardinality(S \cup {t}) = Cardinality(S) + 1
              /\ t \in S => Cardinality(S \ {t}) = Cardinality(S) - 1
<1> SUFFICES ASSUME NEW S \in SUBSET Threads, NEW t \in Threads
             PROVE  /\ IsFiniteSet(S) /\ Cardinality(S) \in Nat
                    /\ Cardinality(S) <= Cardinality(Threads)
                    /\ t \notin S => Cardinality(S \cup {t}) = Cardinality(S) + 1
                    /\ t \in S => Cardinality(S \ {t}) = Cardinality(S) - 1
  <2>1. CASE Threads = {}
    <3>1. ASSUME NEW S \in SUBSET Threads PROVE S = {}
      BY <2>1, <3>1
    <3> QED BY <2>1, <3>1, FS_EmptySet
  <2>2. CASE Threads # {}
    BY <2>2
  <2> QED BY <2>1, <2>2
<1>1. IsFiniteSet(S) /\ Cardinality(S) <= Cardinality(Threads)
  BY PoolAssumption, FS_Subset
<1> QED BY <1>1, FS_CardinalityType, FS_AddElement, FS_RemoveElement

(* A thread that is not in the set is one thread less for the set. *)
LEMMA OneLess ==
    ASSUME NEW S \in SUBSET Threads, NEW t \in Threads, t \notin S
    PROVE  Cardinality(S) < Cardinality(Threads)
<1>1. Cardinality(S \cup {t}) = Cardinality(S) + 1
  BY Finite
<1>2. Cardinality(S \cup {t}) <= Cardinality(Threads)
  BY Finite
<1> QED BY <1>1, <1>2, Finite, PoolAssumption, FS_CardinalityType

(* With a handle for every thread, a thread that has no unit yet leaves    *)
(* one, and a thread that holds no handle leaves one in the list.          *)
LEMMA Room ==
    ASSUME TypeOK, Accounts, Enough, NEW t \in Threads
    PROVE  /\ t \notin Busy => reserve > 0
           /\ pc[t] # "use" => connList # <<>>
<1>1. Busy \in SUBSET Threads /\ At("use") \in SUBSET Threads
  BY DEF Busy, At
<1>2. /\ closed = {} /\ m_maxConn \in Nat
      /\ Cardinality(Threads) <= m_maxConn /\ Cardinality(Threads) \in Nat
  BY PoolAssumption, FS_CardinalityType, MaxConnNat DEF Enough, TypeOK
<1>3. ASSUME t \notin Busy PROVE reserve > 0
  BY <1>1, <1>2, <1>3, OneLess, Finite DEF Accounts, TypeOK
<1>4. ASSUME pc[t] # "use" PROVE connList # <<>>
  <2>1. Cardinality(At("use")) < m_maxConn /\ Cardinality(At("use")) \in Nat
    <3>1. t \notin At("use")
      BY <1>4 DEF At
    <3>2. Cardinality(At("use")) < Cardinality(Threads)
      BY <1>1, <3>1, OneLess
    <3> QED BY <1>1, <1>2, <3>2, Finite
  <2>2. Len(connList) > 0
    BY <1>2, <2>1 DEF Accounts, TypeOK
  <2> QED BY <2>2
<1> QED BY <1>3, <1>4

(* Each handle and each unit of the semaphore is accounted for. *)
THEOREM AccountsHold == Spec => []Accounts
<1>1. Init => Accounts
  <2> SUFFICES ASSUME Init PROVE Accounts
    OBVIOUS
  <2>1. Holders = {} /\ At("use") = {} /\ Busy = {}
    BY DEF Init, Holders, At, Busy
  <2>2. Len(connList) = m_maxConn /\ m_maxConn \in Nat
    BY MaxConnNat DEF Init
  <2> QED BY <2>1, <2>2, FS_EmptySet DEF Init, Accounts, HoldersUse
<1>2. TypeOK /\ Accounts /\ [Next]_vars => Accounts'
  <2> SUFFICES ASSUME TypeOK, Accounts, [Next]_vars PROVE Accounts'
    OBVIOUS
  <2>0. /\ Holders \in SUBSET Threads /\ Busy \in SUBSET Threads
        /\ reserve \in Nat /\ Len(connList) \in Nat
        /\ m_maxConn' = m_maxConn /\ m_maxConn \in Nat
    BY MaxConnNat DEF Holders, Busy, At, TypeOK, Next, vars
  <2>00. HoldersUse'
    BY DEF Accounts, HoldersUse, Holders, Next, Step, CheckSize, WaitReserve,
           WaitInterrupted, Take, ReleaseNull, Release, Post, DestroyPool, Goto,
           TypeOK, vars
  <2>1. ASSUME NEW t \in Threads, CheckSize(t) PROVE Accounts'
    <3>1. Holders' = Holders
      BY <2>1 DEF CheckSize, Holders
    <3>2. ASSUME Enough PROVE At("use")' = At("use") /\ Busy' = Busy
      BY <2>1, <3>2, Room DEF CheckSize, Goto, At, Busy, TypeOK
    <3> QED BY <2>0, <2>00, <2>1, <3>1, <3>2 DEF CheckSize, Accounts, Enough
  <2>2. ASSUME NEW t \in Threads, WaitReserve(t) PROVE Accounts'
    <3>1. /\ Holders' = Holders /\ At("use")' = At("use")
          /\ t \notin Busy /\ Busy' = Busy \cup {t}
      BY <2>2 DEF WaitReserve, Goto, At, Busy, Holders, TypeOK
    <3>2. Cardinality(Busy') = Cardinality(Busy) + 1
      BY <2>0, <3>1, Finite
    <3> QED BY <2>00, <2>0, <2>2, <3>1, <3>2, Finite DEF WaitReserve, Accounts, Enough
  <2>3. ASSUME NEW t \in Threads, WaitInterrupted(t) PROVE Accounts'
    <3>1. Holders' = Holders /\ UNCHANGED <<connList, reserve, closed>>
      BY <2>3 DEF WaitInterrupted, Holders
    <3>2. ~Enough
      <4>1. reserve = 0 /\ t \notin Busy
        BY <2>3 DEF WaitInterrupted, Busy, At
      <4> QED BY <2>0, <4>1, Room
    <3> QED BY <2>0, <2>00, <3>1, <3>2 DEF Accounts, Enough
  <2>4. ASSUME NEW t \in Threads, Take(t) PROVE Accounts'
    <3>1. Len(connList') = Len(connList) - 1 /\ Head(connList) # NULL
      BY <2>4, PoolAssumption DEF Take, TypeOK
    <3>2. Busy' = Busy /\ At("use")' = At("use") \cup {t}
      BY <2>4 DEF Take, Goto, At, Busy, TypeOK
    <3>3. Holders' = Holders \cup {t}
      BY <2>4, <3>1 DEF Take, Holders, TypeOK
    <3>4. t \notin Holders
      BY <2>4 DEF Take, Accounts, HoldersUse
    <3>5. Cardinality(Holders') = Cardinality(Holders) + 1
      BY <2>0, <3>3, <3>4, Finite
    <3>6. closed = {} => Len(connList') + Cardinality(Holders') = m_maxConn
      <4>1. Cardinality(Holders) \in Nat
        BY <2>0, Finite
      <4>2. closed = {} => Len(connList) + Cardinality(Holders) = m_maxConn
        BY DEF Accounts
      <4> QED BY <2>0, <3>1, <3>5, <4>1, <4>2
    <3>7. UNCHANGED <<reserve, closed>>
      BY <2>4 DEF Take
    <3> QED BY <2>0, <2>00, <3>2, <3>3, <3>6, <3>7 DEF Accounts, Enough
  <2>5. ASSUME NEW t \in Threads, ReleaseNull(t) PROVE Accounts'
    <3>1. Holders' = Holders /\ UNCHANGED <<connList, reserve, closed>>
      BY <2>5 DEF ReleaseNull, Holders
    <3>2. ~Enough
      BY <2>5 DEF ReleaseNull, Accounts, Holders, At
    <3> QED BY <2>0, <2>00, <3>1, <3>2 DEF Accounts, Enough
  <2>6. ASSUME NEW t \in Threads, Release(t) PROVE Accounts'
    <3>1. Len(connList') = Len(connList) + 1
      BY <2>6 DEF Release, TypeOK
    <3>2. Busy' = Busy /\ At("use")' = At("use") \ {t}
      BY <2>6 DEF Release, Goto, At, Busy, TypeOK
    <3>3. t \in Holders /\ Holders' = Holders \ {t}
      BY <2>6 DEF Release, Holders, TypeOK
    <3>4. Cardinality(Holders') = Cardinality(Holders) - 1
      BY <2>0, <3>3, Finite
    <3>5. closed = {} => Len(connList') + Cardinality(Holders') = m_maxConn
      <4>1. Cardinality(Holders) \in Nat
        BY <2>0, Finite
      <4>2. closed = {} => Len(connList) + Cardinality(Holders) = m_maxConn
        BY DEF Accounts
      <4> QED BY <2>0, <3>1, <3>4, <4>1, <4>2
    <3>6. UNCHANGED <<reserve, closed>>
      BY <2>6 DEF Release
    <3> QED BY <2>0, <2>00, <3>2, <3>3, <3>5, <3>6 DEF Accounts, Enough
  <2>7. ASSUME NEW t \in Threads, Post(t) PROVE Accounts'
    <3>1. /\ Holders' = Holders /\ At("use")' = At("use")
          /\ t \in Busy /\ Busy' = Busy \ {t}
      BY <2>7 DEF Post, Goto, At, Busy, Holders, TypeOK
    <3>2. Cardinality(Busy') = Cardinality(Busy) - 1
      BY <2>0, <3>1, Finite
    <3>3. UNCHANGED <<connList, closed>> /\ reserve' = reserve + 1
      BY <2>7 DEF Post
    <3>4. reserve' + Cardinality(Busy') = reserve + Cardinality(Busy)
      <4>1. Cardinality(Busy) \in Nat /\ reserve \in Nat
        BY <2>0, Finite
      <4> QED BY <3>2, <3>3, <4>1
    <3> QED BY <2>0, <2>00, <3>1, <3>3, <3>4 DEF Accounts, Enough
  <2>8. CASE DestroyPool
    <3>1. Listed # {}
      <4>1. 1 \in DOMAIN connList
        BY <2>8 DEF DestroyPool, TypeOK
      <4> QED BY <4>1 DEF Listed
    <3>2. closed' # {}
      BY <2>8, <3>1 DEF DestroyPool
    <3> QED BY <2>00, <3>2 DEF Accounts, Enough
  <2>9. CASE UNCHANGED vars
    BY <2>00, <2>9 DEF vars, Accounts, Enough, Holders, Busy, At
  <2> QED BY <2>1, <2>2, <2>3, <2>4, <2>5, <2>6, <2>7, <2>8, <2>9 DEF Next, Step
<1> QED BY <1>1, <1>2, TypeCorrect, PTL DEF Spec

(* Neither unsigned counter wraps around while the pool is in service, and *)
(* each is what its declaration says.                                      *)
THEOREM CountersExactHolds == Spec => []CountersExact
<1>1. Init => CountersExact
  <2> SUFFICES ASSUME Init PROVE CountersExact
    OBVIOUS
  <2>1. Holders = {}
    BY DEF Init, Holders
  <2>2. Len(connList) = m_maxConn
    BY MaxConnNat DEF Init
  <2> QED BY <2>1, <2>2, FS_EmptySet DEF Init, CountersExact
<1>2. TypeOK /\ TypeOK' /\ Accounts /\ Accounts' /\ CountersExact /\ [Next]_vars
        => CountersExact'
  <2> SUFFICES ASSUME TypeOK, TypeOK', Accounts, Accounts', CountersExact, [Next]_vars
               PROVE  CountersExact'
    OBVIOUS
  <2>0. /\ Len(connList) \in Nat /\ Len(connList') \in Nat
        /\ Holders \in SUBSET Threads /\ Holders' \in SUBSET Threads
    BY DEF TypeOK, Holders
  <2>1. Cardinality(Holders) \in Nat /\ Cardinality(Holders') \in Nat
    BY <2>0, Finite
  (* The sizes stay below m_maxConn, hence within an unsigned int.         *)
  <2>2. ASSUME closed' = {}
        PROVE  /\ Len(connList') \in 0..(UIntRange - 1)
               /\ Cardinality(Holders') \in 0..(UIntRange - 1)
    <3>1. Len(connList') + Cardinality(Holders') = m_maxConn'
      BY <2>2 DEF Accounts
    <3>2. m_maxConn' \in Nat /\ m_maxConn' < UIntRange
      BY PoolAssumption, Width DEF TypeOK
    <3> QED BY <2>0, <2>1, <3>1, <3>2, PoolAssumption
  <2>3. ASSUME UNCHANGED <<connList, conRAII, closed, m_freeConn, m_curConn>>
        PROVE  CountersExact'
    BY <2>3 DEF CountersExact, Holders
  <2>4. ASSUME NEW t \in Threads,
               \/ CheckSize(t) \/ WaitReserve(t) \/ WaitInterrupted(t)
               \/ Post(t) \/ ReleaseNull(t)
        PROVE  CountersExact'
    BY <2>3, <2>4 DEF CheckSize, WaitReserve, WaitInterrupted, Post, ReleaseNull
  <2>5. ASSUME NEW t \in Threads, Take(t), closed' = {}
        PROVE  m_freeConn' = Len(connList') /\ m_curConn' = Cardinality(Holders')
    <3>1. Len(connList') = Len(connList) - 1 /\ Head(connList) # NULL
      BY <2>5, PoolAssumption DEF Take, TypeOK
    <3>2. t \notin Holders /\ Holders' = Holders \cup {t}
      BY <2>5, <3>1 DEF Take, Holders, Accounts, HoldersUse, TypeOK
    <3>3. Cardinality(Holders') = Cardinality(Holders) + 1
      BY <2>0, <3>2, Finite
    <3>4. m_freeConn = Len(connList) /\ m_curConn = Cardinality(Holders)
      BY <2>5 DEF Take, CountersExact
    <3>5. /\ m_freeConn' = Len(connList') % UIntRange
          /\ m_curConn' = Cardinality(Holders') % UIntRange
      BY <2>5, <3>1, <3>3, <3>4 DEF Take
    <3> QED BY <2>2, <2>5, <3>5, Modulo
  <2>6. ASSUME NEW t \in Threads, Release(t), closed' = {}
        PROVE  m_freeConn' = Len(connList') /\ m_curConn' = Cardinality(Holders')
    <3>1. Len(connList') = Len(connList) + 1
      BY <2>6 DEF Release, TypeOK
    <3>2. t \in Holders /\ Holders' = Holders \ {t}
      BY <2>6 DEF Release, Holders, TypeOK
    <3>3. Cardinality(Holders') = Cardinality(Holders) - 1
      BY <2>0, <3>2, Finite
    <3>4. m_freeConn = Len(connList) /\ m_curConn = Cardinality(Holders)
      BY <2>6 DEF Release, CountersExact
    <3>5. /\ m_freeConn' = Len(connList') % UIntRange
          /\ m_curConn' = Cardinality(Holders') % UIntRange
      BY <2>6, <3>1, <3>3, <3>4 DEF Release
    <3> QED BY <2>2, <2>6, <3>5, Modulo
  <2>7. CASE DestroyPool
    <3>1. closed' # {}
      <4>1. 1 \in DOMAIN connList
        BY <2>7 DEF DestroyPool, TypeOK
      <4> QED BY <2>7, <4>1 DEF DestroyPool, Listed
    <3> QED BY <3>1 DEF CountersExact
  <2>8. CASE UNCHANGED vars
    BY <2>3, <2>8 DEF vars
  <2> QED BY <2>4, <2>5, <2>6, <2>7, <2>8 DEF Next, Step, CountersExact
<1> QED BY <1>1, <1>2, TypeCorrect, AccountsHold, PTL DEF Spec

(* With at least as many handles as threads (8 and 8 in main), until       *)
(* destroyPool(), getConnection() never calls connList.front() on an empty *)
(* list.                                                                   *)
THEOREM FrontExistsHolds == Spec => []FrontExists
<1>1. TypeOK /\ Accounts => FrontExists
  BY Room DEF FrontExists, At
<1> QED BY <1>1, TypeCorrect, AccountsHold, PTL

(* Nor does it block or return nullptr: process() always has a handle.     *)
THEOREM NeverShortHolds == Spec => []NeverShort
<1>1. TypeOK /\ Accounts => NeverShort
  <2> SUFFICES ASSUME TypeOK, Accounts, Enough,
                      NEW t \in Threads
               PROVE  /\ pc[t] = "use" => conRAII[t] # NULL
                      /\ pc[t] = "wait" => reserve > 0
    BY DEF NeverShort, At
  <2>1. pc[t] = "use" => conRAII[t] # NULL
    BY DEF Accounts, Holders, At
  <2>2. pc[t] = "wait" => t \notin Busy
    BY DEF Busy, At
  <2> QED BY <2>1, <2>2, Room
<1> QED BY <1>1, TypeCorrect, AccountsHold, PTL
-----------------------------------------------------------------------------
(* destroyPool() closes only what is listed, and a handle is listed or     *)
(* held but not both: no thread is left with a closed handle, nor gets one *)
(* afterwards.                                                             *)
THEOREM NoUseAfterCloseHolds == Spec => []NoUseAfterClose
<1>1. Init => NoUseAfterClose
  BY DEF Init, NoUseAfterClose
<1>2. TypeOK /\ HandleExclusive /\ NoUseAfterClose /\ [Next]_vars => NoUseAfterClose'
  <2> SUFFICES ASSUME TypeOK, HandleExclusive, NoUseAfterClose, [Next]_vars
               PROVE  NoUseAfterClose'
    OBVIOUS
  <2>1. ASSUME UNCHANGED <<connList, conRAII, closed>> PROVE NoUseAfterClose'
    BY <2>1 DEF NoUseAfterClose, Holders, Listed
  <2>2. ASSUME NEW t \in Threads,
               \/ CheckSize(t) \/ WaitReserve(t) \/ WaitInterrupted(t)
               \/ Post(t) \/ ReleaseNull(t)
        PROVE  NoUseAfterClose'
    BY <2>1, <2>2 DEF CheckSize, WaitReserve, WaitInterrupted, Post, ReleaseNull
  <2>3. ASSUME NEW t \in Threads, Take(t) PROVE NoUseAfterClose'
    <3>1. Head(connList) \in Listed /\ Listed' \subseteq Listed
      <4>1. /\ Head(connList) = connList[1] /\ 1 \in DOMAIN connList
            /\ \A i \in DOMAIN connList' :
                  i + 1 \in DOMAIN connList /\ connList'[i] = connList[i+1]
        BY <2>3 DEF Take, TypeOK
      <4> QED BY <4>1 DEF Listed
    <3> QED BY <2>3, <3>1 DEF Take, NoUseAfterClose, Holders, TypeOK
  <2>4. ASSUME NEW t \in Threads, Release(t) PROVE NoUseAfterClose'
    <3>1. Listed' \subseteq Listed \cup {conRAII[t]}
      <4>1. \A i \in DOMAIN connList' :
               connList'[i] = conRAII[t]
                 \/ (i \in DOMAIN connList /\ connList'[i] = connList[i])
        BY <2>4 DEF Release, TypeOK
      <4> QED BY <4>1 DEF Listed
    <3> QED BY <2>4, <3>1 DEF Release, NoUseAfterClose, Holders, TypeOK
  <2>5. CASE DestroyPool
    <3>1. Listed' = {}
      BY <2>5 DEF DestroyPool, Listed
    <3> QED BY <2>5, <3>1 DEF DestroyPool, NoUseAfterClose, HandleExclusive, Holders
  <2>6. CASE UNCHANGED vars
    BY <2>1, <2>6 DEF vars
  <2> QED BY <2>2, <2>3, <2>4, <2>5, <2>6 DEF Next, Step
<1> QED BY <1>1, <1>2, TypeCorrect, HandleExclusiveHolds, PTL DEF Spec
=============================================================================
