-------------------------- MODULE ThreadPoolProofs --------------------------
(***************************************************************************)
(* Proofs about ThreadPool, for any number of workers and any limit.       *)
(***************************************************************************)
EXTENDS ThreadPool, FiniteSetTheorems, TLAPS

(* run() and append_job() keep every variable of the pool in its type.     *)
THEOREM TypeCorrect == Spec => []TypeOK
<1>1. Init => TypeOK
  <2> SUFFICES ASSUME Init PROVE TypeOK
    OBVIOUS
  <2>1. m_workqueue \in Seq(Requests)
    BY DEF Init
  <2>2. /\ wpc \in [Workers -> Locations]
        /\ request \in [Workers -> Requests \cup {NULL}]
    BY DEF Init, Locations
  <2>3. \A w \in Workers : request[w] # NULL <=> wpc[w] = "run"
    BY DEF Init
  <2> QED BY <2>1, <2>2, <2>3 DEF Init, TypeOK
<1>2. TypeOK /\ [Next]_vars => TypeOK'
  <2> SUFFICES ASSUME TypeOK, [Next]_vars PROVE TypeOK'
    OBVIOUS
  <2>0. NULL \notin Requests
    BY ThreadPoolAssumption
  <2>1. ASSUME NEW r \in Requests, AppendPush(r) PROVE TypeOK'
    <3>1. m_workqueue' \in Seq(Requests)
      BY <2>1 DEF TypeOK, AppendPush
    <3> QED BY <2>1, <3>1 DEF TypeOK, AppendPush
  <2>2. CASE AppendPost
    BY <2>2 DEF TypeOK, AppendPost
  <2>3. ASSUME NEW w \in Workers, TestStop(w) PROVE TypeOK'
    BY <2>3 DEF TypeOK, TestStop, GotoW, Locations
  <2>4. ASSUME NEW w \in Workers, WaitStat(w) PROVE TypeOK'
    BY <2>4 DEF TypeOK, WaitStat, GotoW, Locations
  <2>5. ASSUME NEW w \in Workers, WaitInterrupted(w) PROVE TypeOK'
    BY <2>5 DEF TypeOK, WaitInterrupted, GotoW, Locations
  <2>6. ASSUME NEW w \in Workers, Pop(w) PROVE TypeOK'
    <3>1. CASE m_workqueue = <<>>
      BY <2>6, <3>1 DEF TypeOK, Pop, GotoW, Locations
    <3>2. CASE m_workqueue # <<>>
      <4>1. Head(m_workqueue) \in Requests /\ Tail(m_workqueue) \in Seq(Requests)
        BY <3>2 DEF TypeOK
      <4> QED BY <2>0, <2>6, <3>2, <4>1 DEF TypeOK, Pop, GotoW, Locations
    <3> QED BY <3>1, <3>2
  <2>7. ASSUME NEW w \in Workers, Finish(w) PROVE TypeOK'
    BY <2>7 DEF TypeOK, Finish, GotoW, Locations
  <2>8. ASSUME NEW r \in Requests, AppendRefused(r) PROVE TypeOK'
    BY <2>8 DEF TypeOK, AppendRefused, vars
  <2>9. CASE Destroy
    BY <2>9 DEF TypeOK, Destroy
  <2>10. CASE UNCHANGED vars
    BY <2>10 DEF TypeOK, vars
  <2> QED
    BY <2>1, <2>2, <2>3, <2>4, <2>5, <2>6, <2>7, <2>8, <2>9, <2>10
       DEF Next, MainStep, WorkerStep
<1> QED BY <1>1, <1>2, PTL DEF Spec
-----------------------------------------------------------------------------
(* A worker that wakes up, or goes on, changes Woken by itself alone.      *)
LEMMA WokenSize ==
    ASSUME TypeOK
    PROVE  /\ IsFiniteSet(Woken) /\ Cardinality(Woken) \in Nat
           /\ \A w \in Workers, l \in Locations :
                GotoW(w, l) =>
                  /\ wpc[w] # "pop" /\ l = "pop" =>
                       Cardinality(Woken') = Cardinality(Woken) + 1
                  /\ wpc[w] = "pop" /\ l # "pop" =>
                       Cardinality(Woken') = Cardinality(Woken) - 1
                  /\ wpc[w] # "pop" /\ l # "pop" => Woken' = Woken
<1>1. IsFiniteSet(Woken)
  BY ThreadPoolAssumption, FS_Subset DEF Woken
<1>2. Cardinality(Woken) \in Nat
  BY <1>1, FS_CardinalityType
<1>3. ASSUME NEW w \in Workers, NEW l \in Locations, GotoW(w, l)
      PROVE  Woken' = IF l = "pop" THEN Woken \cup {w} ELSE Woken \ {w}
  BY <1>3 DEF GotoW, Woken, TypeOK
<1>4. \A w \in Workers :
        /\ w \notin Woken => Cardinality(Woken \cup {w}) = Cardinality(Woken) + 1
        /\ w \in Woken => Cardinality(Woken \ {w}) = Cardinality(Woken) - 1
  BY <1>1, FS_AddElement, FS_RemoveElement
<1>5. \A w \in Workers : w \in Woken <=> wpc[w] = "pop"
  BY DEF Woken
<1>6. ASSUME NEW w \in Workers, w \notin Woken PROVE Woken \ {w} = Woken
  BY <1>6
<1> QED BY <1>1, <1>2, <1>3, <1>4, <1>5, <1>6

(* A pending request always has a wake-up of its own, for any number of    *)
(* workers and of pending requests, with signals interrupting the waits.   *)
THEOREM WakeupPerJobHolds == Spec => []WakeupPerJob
<1>1. Init => WakeupPerJob
  <2> SUFFICES ASSUME Init PROVE WakeupPerJob
    OBVIOUS
  <2>1. Woken = {}
    BY DEF Init, Woken
  <2> QED BY <2>1, FS_EmptySet DEF Init, WakeupPerJob, PendingPost
<1>2. TypeOK /\ TypeOK' /\ WakeupPerJob /\ [Next]_vars => WakeupPerJob'
  <2> SUFFICES ASSUME TypeOK, WakeupPerJob, [Next]_vars PROVE WakeupPerJob'
    OBVIOUS
  <2>0. /\ Cardinality(Woken) \in Nat
        /\ m_queuestat \in Nat /\ Len(m_workqueue) \in Nat
    BY WokenSize DEF TypeOK
  <2>1. ASSUME NEW r \in Requests, AppendPush(r) PROVE WakeupPerJob'
    <3>1. Len(m_workqueue') = Len(m_workqueue) + 1 /\ Woken' = Woken
      BY <2>1 DEF AppendPush, TypeOK, Woken
    <3> QED BY <2>0, <2>1, <3>1 DEF AppendPush, WakeupPerJob, PendingPost
  <2>2. CASE AppendPost
    <3>1. Woken' = Woken
      BY <2>2 DEF AppendPost, Woken
    <3> QED BY <2>0, <2>2, <3>1 DEF AppendPost, WakeupPerJob, PendingPost
  <2>3. ASSUME NEW w \in Workers, TestStop(w) PROVE WakeupPerJob'
    <3>1. Woken' = Woken
      BY <2>3, WokenSize DEF TestStop, Locations
    <3> QED BY <2>0, <2>3, <3>1 DEF TestStop, WakeupPerJob, PendingPost
  <2>4. ASSUME NEW w \in Workers, WaitStat(w) PROVE WakeupPerJob'
    <3>1. Cardinality(Woken') = Cardinality(Woken) + 1
      BY <2>4, WokenSize DEF WaitStat, Locations
    <3> QED BY <2>0, <2>4, <3>1 DEF WaitStat, WakeupPerJob, PendingPost
  <2>5. ASSUME NEW w \in Workers, WaitInterrupted(w) PROVE WakeupPerJob'
    <3>1. Cardinality(Woken') = Cardinality(Woken) + 1
      BY <2>5, WokenSize DEF WaitInterrupted, Locations
    <3> QED BY <2>0, <2>5, <3>1 DEF WaitInterrupted, WakeupPerJob, PendingPost
  <2>6. ASSUME NEW w \in Workers, Pop(w) PROVE WakeupPerJob'
    <3>1. Cardinality(Woken') = Cardinality(Woken) - 1
      BY <2>6, WokenSize DEF Pop, Locations
    <3>2. CASE m_workqueue = <<>>
      <4>1. Len(m_workqueue') = 0
        BY <2>6, <3>2 DEF Pop
      <4>2. Cardinality(Woken') \in Nat
        <5>1. Woken' \subseteq Workers
          BY DEF Woken
        <5> QED BY <5>1, ThreadPoolAssumption, FS_Subset, FS_CardinalityType
      <4> QED BY <2>0, <2>6, <4>1, <4>2 DEF Pop, WakeupPerJob, PendingPost
    <3>3. CASE m_workqueue # <<>>
      <4>1. Len(m_workqueue') = Len(m_workqueue) - 1
        BY <2>6, <3>3 DEF Pop, TypeOK
      <4> QED BY <2>0, <2>6, <3>1, <4>1 DEF Pop, WakeupPerJob, PendingPost
    <3> QED BY <3>2, <3>3
  <2>7. ASSUME NEW w \in Workers, Finish(w) PROVE WakeupPerJob'
    <3>1. Woken' = Woken
      BY <2>7, WokenSize DEF Finish, Locations
    <3> QED BY <2>0, <2>7, <3>1 DEF Finish, WakeupPerJob, PendingPost
  <2>8. ASSUME NEW r \in Requests, AppendRefused(r) PROVE WakeupPerJob'
    BY <2>8 DEF AppendRefused, vars, WakeupPerJob, PendingPost, Woken
  <2>9. CASE Destroy
    BY <2>9 DEF Destroy, WakeupPerJob, PendingPost, Woken
  <2>10. CASE UNCHANGED vars
    BY <2>10 DEF vars, WakeupPerJob, PendingPost, Woken
  <2> QED
    BY <2>1, <2>2, <2>3, <2>4, <2>5, <2>6, <2>7, <2>8, <2>9, <2>10
       DEF Next, MainStep, WorkerStep
<1> QED BY <1>1, <1>2, TypeCorrect, PTL DEF Spec
=============================================================================
