--------------------------- MODULE AccountsProofs ---------------------------
(***************************************************************************)
(* For any numbers of workers, names and passwords, with or without a      *)
(* unique key on the table, and over restarts and failing INSERTs: what    *)
(* was acknowledged is in the table, the map differs from the table only   *)
(* by registrations whose INSERT reported an error, and /welcome.html is   *)
(* given to registered names only, with a registered password or, while    *)
(* the name is being stored, with the empty one.                           *)
(***************************************************************************)
EXTENDS Accounts, TLAPS

(* A step of Next, or a stutter, keeps the types. *)
LEMMA TypeStep == TypeOK /\ [Next]_vars => TypeOK'
<1> SUFFICES ASSUME TypeOK, [Next]_vars PROVE TypeOK'
  OBVIOUS
<1> USE AccountsAssumption
<1>1. ASSUME NEW w \in Workers, NEW f \in Form, Submit(w, f) PROVE TypeOK'
  BY <1>1 DEF TypeOK, Submit, GotoA, Known
<1>2. ASSUME NEW w \in Workers, RegisterFind(w) PROVE TypeOK'
  BY <1>2 DEF TypeOK, RegisterFind, Answer, GotoA, Known
<1>3. ASSUME NEW w \in Workers, Login(w) PROVE TypeOK'
  BY <1>3 DEF TypeOK, Login, Answer, GotoA, Known
<1>4. ASSUME NEW w \in Workers, Lock(w) PROVE TypeOK'
  BY <1>4 DEF TypeOK, Lock, GotoA, Known
<1>5. ASSUME NEW w \in Workers, Insert(w) PROVE TypeOK'
  <2>1. RowOf(w) \in Row
    BY DEF TypeOK, RowOf, Form
  <2>2. table' \in SUBSET Row /\ refused' \in SUBSET Row
    BY <1>5, <2>1 DEF TypeOK, Insert
  <2> QED
    BY <1>5, <2>2 DEF TypeOK, Insert, GotoA, Known
<1>6. ASSUME NEW w \in Workers, Store(w) PROVE TypeOK'
  <2>1. RowOf(w).name \in Names
    BY DEF TypeOK, RowOf, Form, Row
  <2>2. Known' \in SUBSET Names /\ users' \in [Known' -> Passwords]
    BY <1>6, <2>1 DEF TypeOK, Store, Known
  <2> QED
    BY <1>6, <2>2 DEF TypeOK, Store, GotoA
<1>7. ASSUME NEW w \in Workers, Assign(w) PROVE TypeOK'
  <2>1. RowOf(w) \in Row
    BY DEF TypeOK, RowOf, Form
  <2>2. RowOf(w).password \in Passwords
    BY <2>1 DEF Row
  <2>3. Known' \in SUBSET Names /\ users' \in [Known' -> Passwords]
    BY <1>7, <2>2 DEF TypeOK, Assign, Known
  <2>4. acked' \in SUBSET Row
    BY <1>7, <2>1 DEF TypeOK, Assign
  <2> QED
    BY <1>7, <2>3, <2>4 DEF TypeOK, Assign, Answer, GotoA
<1>8. CASE Restart
  <2>1. Known' \in SUBSET Names /\ users' \in [Known' -> Passwords]
    BY <1>8 DEF TypeOK, Restart, Known, Row
  <2> QED
    BY <1>8, <2>1 DEF TypeOK, Restart
<1>9. CASE UNCHANGED vars
  BY <1>9 DEF TypeOK, vars, Known
<1> QED
  BY <1>1, <1>2, <1>3, <1>4, <1>5, <1>6, <1>7, <1>8, <1>9 DEF Next, Step

(* The type invariant holds: in particular m_lock is held by the worker    *)
(* that is between lock() and unlock(), and by no other                    *)
(* (http_conn.cpp:501-507).                                                *)
THEOREM TypeCorrect == Spec => []TypeOK
<1>1. Init => TypeOK
  BY AccountsAssumption DEF Init, TypeOK, Known
<1> QED
  BY <1>1, TypeStep, PTL DEF Spec

-----------------------------------------------------------------------------
(* Between INSERT and unlock() the form is in the table, or its INSERT     *)
(* reported an error; its name is in the map once users[name] was called.  *)
Recorded ==
    \A w \in Storing :
        /\ RowOf(w) \in IF res[w] THEN table ELSE refused
        /\ apc[w] = "assign" => RowOf(w).name \in Known

(* A name in the map has a password that was registered for it, unless it  *)
(* is still empty and the worker that has m_lock is just assigning it.     *)
MapInv ==
    \A n \in Known :
        \/ [name |-> n, password |-> users[n]] \in table \cup refused
        \/ users[n] = Empty /\ \E w \in Workers : apc[w] = "assign" /\ RowOf(w).name = n

TableInv ==
    \A r \in table : r.name \in Known \/ \E w \in Storing : RowOf(w).name = r.name

(* The inductive invariant the safety properties follow from. *)
IInv == TypeOK /\ Recorded /\ MapInv /\ TableInv /\ AckedDurable /\ WelcomeRegistered

(* Initially the map, the table and the history are empty. *)
LEMMA InvInit == Init => IInv
  BY AccountsAssumption
  DEF Init, IInv, TypeOK, Known, Recorded, Storing, MapInv, TableInv, AckedDurable,
      WelcomeRegistered

(* A worker that stores a name holds m_lock, so there is at most one. *)
LEMMA OneStoring ==
  ASSUME TypeOK, NEW v \in Storing, NEW w \in Workers,
         apc[w] \in {"insert", "store", "assign"}
  PROVE  v = w
  BY DEF TypeOK, Storing

(* A row is given by its name and its password. *)
LEMMA RowForm ==
  ASSUME TypeOK, NEW w \in Workers
  PROVE  /\ RowOf(w) \in Row
         /\ RowOf(w).name \in Names /\ RowOf(w).password \in Passwords
         /\ RowOf(w) = [name |-> RowOf(w).name, password |-> RowOf(w).password]
<1>1. RowOf(w) \in Row
  BY DEF TypeOK, RowOf, Form
<1> QED
  BY <1>1 DEF Row

(* Every step keeps the inductive invariant. *)
LEMMA InvStep == IInv /\ [Next]_vars => IInv'
<1> SUFFICES ASSUME IInv, [Next]_vars PROVE IInv'
  OBVIOUS
<1> USE AccountsAssumption
<1>0. TypeOK /\ TypeOK'
  BY TypeStep DEF IInv
<1>1. ASSUME NEW w \in Workers, NEW f \in Form, Submit(w, f) PROVE IInv'
  <2>1. UNCHANGED <<users, table, Known, res, acked, refused>>
    BY <1>1 DEF Submit, Known
  <2>2. \A v \in Workers : apc'[v] \in {"store", "assign"} =>
           /\ v # w /\ apc[v] = apc'[v] /\ RowOf(v)' = RowOf(v)
    BY <1>0, <1>1 DEF Submit, GotoA, TypeOK, RowOf
  <2>3. Storing' = Storing /\ \A v \in Storing : RowOf(v)' = RowOf(v) /\ apc'[v] = apc[v]
    BY <1>0, <1>1, <2>2 DEF Storing, Submit, GotoA, TypeOK
  <2>4. Recorded' /\ TableInv' /\ AckedDurable'
    BY <2>1, <2>3 DEF IInv, Recorded, TableInv, AckedDurable
  <2>5. MapInv'
    BY <2>1, <2>3 DEF IInv, MapInv, Storing
  <2>6. WelcomeRegistered'
    BY <1>0, <1>1, <2>1 DEF IInv, WelcomeRegistered, Submit, TypeOK, RowOf
  <2> QED
    BY <1>0, <2>4, <2>5, <2>6 DEF IInv
<1>2. ASSUME NEW w \in Workers, RegisterFind(w) \/ Lock(w) PROVE IInv'
  <2>1. UNCHANGED <<users, table, Known, form, res, acked, refused>>
    BY <1>2 DEF RegisterFind, Lock, Known
  <2>2. Storing' = Storing /\ \A v \in Storing : apc'[v] = apc[v]
    BY <1>0, <1>2 DEF Storing, RegisterFind, Lock, Answer, GotoA, TypeOK
  <2>3. Recorded' /\ TableInv' /\ AckedDurable' /\ MapInv'
    BY <2>1, <2>2 DEF IInv, Recorded, TableInv, AckedDurable, RowOf, MapInv, Storing
  <2>4. WelcomeRegistered'
    BY <1>0, <1>2, <2>1
    DEF IInv, WelcomeRegistered, RegisterFind, Lock, Answer, TypeOK, RowOf
  <2> QED
    BY <1>0, <2>3, <2>4 DEF IInv
<1>3. ASSUME NEW w \in Workers, Login(w) PROVE IInv'
  <2>1. UNCHANGED <<users, table, Known, form, res, acked, refused>>
    BY <1>3 DEF Login, Known
  <2>2. Storing' = Storing /\ \A v \in Storing : apc'[v] = apc[v]
    BY <1>0, <1>3 DEF Storing, Login, Answer, GotoA, TypeOK
  <2>3. Recorded' /\ TableInv' /\ AckedDurable' /\ MapInv'
    BY <2>1, <2>2 DEF IInv, Recorded, TableInv, AckedDurable, RowOf, MapInv, Storing
  <2>4. ASSUME page'[w] = "/welcome.html"
        PROVE  \E r \in table \cup refused :
                   r.name = RowOf(w).name /\ RowOf(w).password \in {r.password, Empty}
    <3>1. PICK found \in Finds(RowOf(w).name) :
             page'[w] = IF found /\ users[RowOf(w).name] = RowOf(w).password
                          THEN "/welcome.html" ELSE "/logError.html"
      BY <1>0, <1>3 DEF Login, Answer, TypeOK
    <3>2. found /\ users[RowOf(w).name] = RowOf(w).password
      BY <2>4, <3>1
    <3>3. RowOf(w).name \in Known
      BY <3>1, <3>2 DEF Finds
    <3>4. CASE RowOf(w) \in table \cup refused
      BY <3>4
    <3>5. CASE RowOf(w) \notin table \cup refused
      <4>1. PICK v \in Workers : apc[v] = "assign" /\ RowOf(v).name = RowOf(w).name
        BY <1>0, <3>2, <3>3, <3>5, RowForm DEF IInv, MapInv
      <4>2. RowOf(v) \in table \cup refused
        BY <4>1 DEF IInv, Recorded, Storing
      <4>3. RowOf(w).password = Empty
        BY <1>0, <3>2, <3>3, <3>5, RowForm DEF IInv, MapInv
      <4> QED
        BY <4>1, <4>2, <4>3
    <3> QED
      BY <3>4, <3>5
  <2>5. WelcomeRegistered'
    BY <1>0, <1>3, <2>1, <2>4
    DEF IInv, WelcomeRegistered, Login, Answer, TypeOK, RowOf
  <2> QED
    BY <1>0, <2>3, <2>5 DEF IInv
<1>4. ASSUME NEW w \in Workers, Insert(w) PROVE IInv'
  <2>1. PICK ok \in BOOLEAN, executed \in BOOLEAN :
           /\ ok => executed
           /\ table' = IF executed THEN table \cup {RowOf(w)} ELSE table
           /\ refused' = IF ok THEN refused ELSE refused \cup {RowOf(w)}
           /\ res' = [res EXCEPT ![w] = ok]
    BY <1>4 DEF Insert
  <2>2. UNCHANGED <<users, Known, form, page, acked>> /\ apc[w] = "insert"
    BY <1>4 DEF Insert, Known
  <2>3. Storing = {} /\ Storing' = {w} /\ apc'[w] = "store"
    BY <1>0, <1>4, OneStoring DEF Insert, GotoA, Storing, TypeOK
  <2>4. Recorded'
    BY <1>0, <2>1, <2>2, <2>3 DEF Recorded, RowOf, TypeOK
  <2>5. MapInv'
    BY <2>1, <2>2, <2>3 DEF IInv, MapInv, RowOf, Storing
  <2>6. TableInv'
    BY <2>1, <2>2, <2>3 DEF IInv, TableInv, RowOf
  <2>7. AckedDurable' /\ WelcomeRegistered'
    BY <2>1, <2>2 DEF IInv, AckedDurable, WelcomeRegistered, RowOf
  <2> QED
    BY <1>0, <2>4, <2>5, <2>6, <2>7 DEF IInv
<1>5. ASSUME NEW w \in Workers, Store(w) PROVE IInv'
  <2> DEFINE n == RowOf(w).name
  <2>1. UNCHANGED <<table, form, res, page, acked, refused>>
    BY <1>5 DEF Store
  <2>2. Known' = Known \cup {n} /\ users'[n] = (IF n \in Known THEN users[n] ELSE Empty)
        /\ \A m \in Known : users'[m] = users[m]
    BY <1>5 DEF Store, Known
  <2>3. w \in Storing /\ Storing' = Storing /\ apc'[w] = "assign"
    BY <1>0, <1>5 DEF Store, GotoA, Storing, TypeOK
  <2>4. \A v \in Storing : v = w
    BY <1>0, <2>3, OneStoring DEF Storing
  <2>5. Recorded'
    BY <2>1, <2>2, <2>3, <2>4 DEF IInv, Recorded, RowOf
  <2>6. MapInv'
    BY <2>1, <2>2, <2>3, <2>4 DEF IInv, MapInv, RowOf, Storing
  <2>7. TableInv' /\ AckedDurable' /\ WelcomeRegistered'
    BY <2>1, <2>2, <2>3 DEF IInv, TableInv, AckedDurable, WelcomeRegistered, RowOf
  <2> QED
    BY <1>0, <2>5, <2>6, <2>7 DEF IInv
<1>6. ASSUME NEW w \in Workers, Assign(w) PROVE IInv'
  <2> DEFINE n == RowOf(w).name
  <2>1. UNCHANGED <<table, form, res, refused>> /\ apc[w] = "assign"
    BY <1>6 DEF Assign
  <2>2. w \in Storing /\ n \in Known /\ RowOf(w) \in IF res[w] THEN table ELSE refused
    BY <2>1 DEF IInv, Recorded, Storing
  <2>3. Known' = Known /\ users'[n] = RowOf(w).password
        /\ \A m \in Known : m # n => users'[m] = users[m]
    BY <1>0, <1>6, <2>2 DEF Assign, Known, TypeOK
  <2>4. \A v \in Storing : v = w
    BY <1>0, <2>1, OneStoring
  <2>5. Storing' = {}
    BY <1>0, <1>6, <2>4 DEF Assign, Answer, GotoA, Storing, TypeOK
  <2>6. Recorded'
    BY <2>5 DEF Recorded
  <2>7. MapInv'
    <3> SUFFICES ASSUME NEW m \in Known
                 PROVE  [name |-> m, password |-> users'[m]] \in table \cup refused
      BY <2>1, <2>3 DEF MapInv
    <3>1. CASE m = n
      BY <1>0, <2>2, <2>3, <3>1, RowForm
    <3>2. CASE m # n
      BY <2>3, <2>4, <3>2 DEF IInv, MapInv, Storing
    <3> QED
      BY <3>1, <3>2
  <2>8. TableInv'
    BY <2>1, <2>2, <2>3, <2>4 DEF IInv, TableInv
  <2>9. AckedDurable'
    BY <1>6, <2>1, <2>2 DEF IInv, AckedDurable, Assign
  <2>10. WelcomeRegistered'
    BY <1>0, <1>6, <2>1 DEF IInv, WelcomeRegistered, Assign, Answer, RowOf, TypeOK
  <2> QED
    BY <1>0, <2>6, <2>7, <2>8, <2>9, <2>10 DEF IInv
<1>7. CASE Restart
  <2>1. UNCHANGED <<table, form, acked, refused>>
    BY <1>7 DEF Restart
  <2>2. Storing' = {} /\ \A v \in Workers : page'[v] = "none"
    BY <1>7 DEF Restart, Storing
  <2>3. Known' = {r.name : r \in table} /\ users' \in [Known' -> Passwords]
        /\ \A n \in Known' : [name |-> n, password |-> users'[n]] \in table
    BY <1>7 DEF Restart, Known, Loaded
  <2>4. Recorded' /\ AckedDurable' /\ WelcomeRegistered'
    BY <2>1, <2>2 DEF IInv, Recorded, AckedDurable, WelcomeRegistered
  <2>5. MapInv'
    BY <2>1, <2>3 DEF MapInv
  <2>6. TableInv'
    BY <2>1, <2>3 DEF TableInv
  <2> QED
    BY <1>0, <2>4, <2>5, <2>6 DEF IInv
<1>8. CASE UNCHANGED vars
  BY <1>0, <1>8 DEF IInv, vars, Recorded, MapInv, TableInv, AckedDurable,
     WelcomeRegistered, Storing, RowOf, Known
<1> QED
  BY <1>1, <1>2, <1>3, <1>4, <1>5, <1>6, <1>7, <1>8 DEF Next, Step

(* The inductive invariant holds of the specification. *)
THEOREM InvHolds == Spec => []IInv
<1> QED
  BY InvInit, InvStep, PTL DEF Spec

(* What was answered with /log.html is in the table user for good: over    *)
(* restarts, failing INSERTs and registrations of the same name.           *)
THEOREM AckedDurableHolds == Spec => []AckedDurable
<1>1. IInv => AckedDurable
  BY DEF IInv
<1> QED
  BY <1>1, InvHolds, PTL

(* The map and the table differ by registrations whose INSERT reported an  *)
(* error, and by no other.                                                 *)
THEOREM MapFollowsTableHolds == Spec => []MapFollowsTable
<1>1. IInv => MapFollowsTable
  BY DEF IInv, MapInv, TableInv, MapFollowsTable
<1> QED
  BY <1>1, InvHolds, PTL

(* Although users is looked up without m_lock, /welcome.html answers only  *)
(* names that were registered, with a password that was registered for the *)
(* name or with the empty one (http_conn.cpp:504, 530).                    *)
THEOREM WelcomeRegisteredHolds == Spec => []WelcomeRegistered
<1>1. IInv => WelcomeRegistered
  BY DEF IInv
<1> QED
  BY <1>1, InvHolds, PTL
=============================================================================
