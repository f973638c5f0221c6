-------------------------- MODULE TimerListProofs ---------------------------
(***************************************************************************)
(* Proofs about TimerList, for any number of timers and any deadlines.     *)
(* Induction over the list is one more part of the invariant: whatever     *)
(* holds of head and passes along next holds of every node (FromHead), and *)
(* the same from tail along prev.  Each call is shown to keep both.        *)
(***************************************************************************)
EXTENDS TimerList, TLAPS

(* The nodes a walk along nx from m passes, up to its stop: the smallest   *)
(* set that holds m and the successors of its nodes that are no stops.     *)
Path(D, stop, nx, m) ==
    {x \in D : \A S \in SUBSET D :
                 m \in S /\ (\A y \in S \ stop : nx[y] \in S) => x \in S}

(* A walk passes its first node, and what the walk from the next one does. *)
LEMMA PathUnfolds ==
    ASSUME NEW D, NEW stop \in SUBSET D, NEW nx, \A m \in D \ stop : nx[m] \in D,
           NEW m \in D
    PROVE  Path(D, stop, nx, m) =
             IF m \in stop THEN {m} ELSE {m} \cup Path(D, stop, nx, nx[m])
<1>1. CASE m \in stop
  <2>1. {m} \in SUBSET D /\ \A y \in {m} \ stop : nx[y] \in {m}
    BY <1>1
  <2> QED BY <1>1, <2>1 DEF Path
<1>2. CASE m \notin stop
  <2> DEFINE P(n) == Path(D, stop, nx, n)
             T == {m} \cup P(nx[m])
  <2>0. nx[m] \in D
    BY <1>2
  <2>1. \A n \in D : /\ P(n) \in SUBSET D /\ n \in P(n)
                     /\ \A y \in P(n) \ stop : nx[y] \in P(n)
    BY DEF Path
  <2>2. T \in SUBSET D /\ m \in T /\ \A y \in T \ stop : nx[y] \in T
    BY <2>0, <2>1
  <2>3. P(m) \subseteq T
    BY <2>2 DEF Path
  <2>4. P(nx[m]) \subseteq P(m)
    <3>1. nx[m] \in P(m)
      BY <1>2, <2>1
    <3> QED BY <3>1, <2>1, <2>0 DEF Path
  <2> QED BY <1>2, <2>1, <2>3, <2>4
<1> QED BY <1>1, <1>2

(* A walk that does not stop stays among the nodes of D. *)
Stays(D, stop, nx) == stop \in SUBSET D /\ \A m \in D \ stop : nx[m] \in D

(* The functions from a node to the stop the walk from it ends at. *)
Walks(D, stop, nx) ==
    {w \in [D -> D \cup {NULL}] :
       \A m \in D : (m \in stop => w[m] = m) /\ (m \notin stop => w[m] = w[nx[m]])}

(* There is such a function, whether or not the walks end: the stop on the *)
(* path, or NULL.  So a recursive function that walks is what its equation *)
(* says.                                                                   *)
LEMMA WalkExists ==
    ASSUME NEW D, NEW stop, NEW nx, Stays(D, stop, nx)
    PROVE  Walks(D, stop, nx) # {}
<1> DEFINE End(m) == Path(D, stop, nx, m) \cap stop
           w == [m \in D |-> IF End(m) = {} THEN NULL ELSE CHOOSE x \in D : x \in End(m)]
<1> USE DEF Stays
<1>1. ASSUME NEW m \in D
      PROVE  (m \in stop => w[m] = m) /\ (m \notin stop => w[m] = w[nx[m]])
  <2>1. CASE m \in stop
    <3>1. End(m) = {m}
      BY <2>1, PathUnfolds
    <3> QED BY <2>1, <3>1
  <2>2. CASE m \notin stop
    <3>1. nx[m] \in D
      BY <2>2
    <3>2. End(m) = End(nx[m])
      BY <2>2, PathUnfolds
    <3> HIDE DEF End
    <3>3. w[m] = w[nx[m]]
      BY <3>1, <3>2
    <3> QED BY <2>2, <3>3
  <2> QED BY <2>1, <2>2
<1>2. w \in [D -> D \cup {NULL}]
  <2>1. \A m \in D : End(m) # {} => \E x \in D : x \in End(m)
    BY DEF Path
  <2> HIDE DEF End
  <2> QED BY <2>1
<1> HIDE DEF w
<1> QED BY <1>1, <1>2 DEF Walks

(* One turn of the loop in the private add_timer(). *)
LEMMA LastBeforeStep ==
    ASSUME NEW l, l.next \in [Timers -> Pointer], NEW exp,
           NEW t \in Timers, NEW n \in Timers
    PROVE  LastBefore(l, exp, t, n) =
             IF l.next[n] = NULL \/ exp[t] < exp[l.next[n]] THEN n
             ELSE LastBefore(l, exp, t, l.next[n])
<1> DEFINE W(w) == [m \in Timers |-> IF l.next[m] = NULL \/ exp[t] < exp[l.next[m]]
                                      THEN m ELSE w[l.next[m]]]
           walk == CHOOSE w : w = W(w)
           stop == {m \in Timers : l.next[m] = NULL \/ exp[t] < exp[l.next[m]]}
<1>1. \E w : w = W(w)
  <2>1. Stays(Timers, stop, l.next)
    BY DEF Stays, Pointer
  <2>2. PICK w : w \in Walks(Timers, stop, l.next)
    <3> HIDE DEF stop
    <3> QED BY <2>1, WalkExists
  <2>3. w = W(w)
    BY <2>2 DEF Walks
  <2> QED BY <2>3
<1>2. walk = W(walk)
  BY <1>1
<1>3. \A m \in Timers : LastBefore(l, exp, t, m) = walk[m]
  BY DEF LastBefore
<1>4. l.next[n] # NULL => l.next[n] \in Timers
  BY DEF Pointer
<1> HIDE DEF walk
<1> QED BY <1>2, <1>3, <1>4
-----------------------------------------------------------------------------
(* A list whose pointers point to nodes or nowhere. *)
ListType == [head : Pointer, tail : Pointer,
             prev : [Timers -> Pointer], next : [Timers -> Pointer]]

(* head and tail are the ends of the list of the nodes L. *)
Ends(l, L) ==
    /\ l.head = NULL => L = {}
    /\ L # {} => /\ l.head \in L /\ l.prev[l.head] = NULL
               /\ l.tail \in L /\ l.next[l.tail] = NULL

(* Inside the list, next and prev undo each other. *)
Links(l, L) ==
    \A x \in L :
        /\ l.next[x] = NULL => x = l.tail
        /\ l.next[x] # NULL => l.next[x] \in L /\ l.prev[l.next[x]] = x
        /\ l.prev[x] = NULL => x = l.head
        /\ l.prev[x] # NULL => l.prev[x] \in L /\ l.next[l.prev[x]] = x

(* Whatever holds of head and goes from a node to the next holds of all    *)
(* nodes: the list is in one piece and next leads through all of it.       *)
FromHead(l, L) ==
    \A S \in SUBSET L :
        l.head \in S /\ (\A x \in S : l.next[x] \in S \cup {NULL}) => S = L

(* The same from tail along prev, which is how walks along next end. *)
FromTail(l, L) ==
    \A S \in SUBSET L :
        l.tail \in S /\ (\A x \in S : l.prev[x] \in S \cup {NULL}) => S = L

(* l is a doubly linked list of the nodes L. *)
Linked(l, L) ==
    /\ l.head \in L \cup {NULL}
    /\ Ends(l, L) /\ Links(l, L)
    /\ FromHead(l, L) /\ FromTail(l, L)

(* "the list container is in ascending order" *)
Sorted(l, L, exp) ==
    \A x \in L : l.next[x] # NULL => exp[x] <= exp[l.next[x]]

(* What every call of the list relies on and keeps. *)
ListInv == List \in ListType /\ Linked(List, live) /\ Sorted(List, live, expire)

(* From a node that expires no later than t, the loop of add_timer() ends  *)
(* at a node t fits behind.                                                *)
LEMMA LastBeforeFits ==
    ASSUME NEW l \in ListType, NEW L \in SUBSET Timers, Linked(l, L),
           NEW exp \in [Timers -> Times], NEW t \in Timers,
           NEW n \in L, exp[n] <= exp[t]
    PROVE  LET p == LastBefore(l, exp, t, n)
           IN  /\ p \in L /\ exp[p] <= exp[t]
               /\ l.next[p] # NULL => exp[t] <= exp[l.next[p]]
<1> DEFINE Fits(p) == /\ p \in L /\ exp[p] <= exp[t]
                      /\ l.next[p] # NULL => exp[t] <= exp[l.next[p]]
           B(m) == LastBefore(l, exp, t, m)
           S == {m \in L : exp[m] <= exp[t] => Fits(B(m))}
<1>0. l.next \in [Timers -> Pointer] /\ l.prev \in [Timers -> Pointer]
  BY DEF ListType
<1>1. \A m \in L : B(m) = IF l.next[m] = NULL \/ exp[t] < exp[l.next[m]]
                          THEN m ELSE B(l.next[m])
  BY <1>0, LastBeforeStep
<1>2. \A m \in Timers : exp[m] \in Int
  BY TimerAssumption
<1> HIDE DEF B
<1>3. l.tail \in S
  BY <1>1 DEF Linked, Ends
<1>4. ASSUME NEW x \in S PROVE l.prev[x] \in S \cup {NULL}
  <2> SUFFICES ASSUME l.prev[x] # NULL, exp[l.prev[x]] <= exp[t]
               PROVE  l.prev[x] \in L /\ Fits(B(l.prev[x]))
    BY DEF Linked, Links
  <2>1. l.prev[x] \in L /\ l.next[l.prev[x]] = x
    BY DEF Linked, Links
  <2>2. CASE exp[t] < exp[x]
    BY <1>0, <1>1, <1>2, <2>1, <2>2
  <2>3. CASE ~(exp[t] < exp[x])
    <3>1. B(l.prev[x]) = B(x)
      BY <1>1, <2>1, <2>3, TimerAssumption
    <3>2. exp[x] <= exp[t]
      BY <1>2, <2>3
    <3> QED BY <2>1, <3>1, <3>2
  <2> QED BY <2>2, <2>3
<1>5. S = L
  BY <1>3, <1>4 DEF Linked, FromTail
<1> QED BY <1>5 DEF B

(* add_timer(timer, lst_head) puts a new node into its place. *)
LEMMA InsertLinks ==
    ASSUME NEW l \in ListType, NEW L \in SUBSET Timers, Linked(l, L),
           NEW exp \in [Timers -> Times], Sorted(l, L, exp), NEW t \in Timers \ L,
           NEW n \in L, exp[n] <= exp[t]
    PROVE  LET k == InsertAfter(l, exp, t, n)
           IN  k \in ListType /\ Linked(k, L \cup {t}) /\ Sorted(k, L \cup {t}, exp)
<1> DEFINE p   == LastBefore(l, exp, t, n)
           tmp == l.next[p]
           k   == InsertAfter(l, exp, t, n)
           M   == L \cup {t}
<1>0. p \in L /\ exp[p] <= exp[t] /\ (tmp # NULL => exp[t] <= exp[tmp])
  BY LastBeforeFits
<1> HIDE DEF p
<1>1. /\ l.next \in [Timers -> Pointer] /\ l.prev \in [Timers -> Pointer]
      /\ l.head \in Pointer /\ l.tail \in Pointer
  BY DEF ListType
<1>2. tmp \in L \cup {NULL} /\ tmp # t /\ t # p /\ NULL \notin M
  BY <1>0, TimerAssumption DEF Linked, Links
<1>3. k = [l EXCEPT !.next = [@ EXCEPT ![p] = t, ![t] = tmp],
                    !.prev = [q \in Timers |-> IF q = t THEN p
                                               ELSE IF q = tmp THEN t ELSE @[q]],
                    !.tail = IF tmp = NULL THEN t ELSE @]
  BY DEF InsertAfter, p
<1>4. /\ k \in ListType
      /\ k.head = l.head /\ k.tail = IF tmp = NULL THEN t ELSE l.tail
      /\ \A x \in Timers :
            /\ k.next[x] = IF x = t THEN tmp ELSE IF x = p THEN t ELSE l.next[x]
            /\ k.prev[x] = IF x = t THEN p ELSE IF x = tmp THEN t ELSE l.prev[x]
  <2> DEFINE nx == [l.next EXCEPT ![p] = t, ![t] = tmp]
             pr == [q \in Timers |-> IF q = t THEN p
                                     ELSE IF q = tmp THEN t ELSE l.prev[q]]
             tl == IF tmp = NULL THEN t ELSE l.tail
  <2>1. k = [head |-> l.head, tail |-> tl, prev |-> pr, next |-> nx]
    BY <1>3 DEF ListType
  <2>2. /\ nx \in [Timers -> Pointer]
        /\ \A x \in Timers :
              nx[x] = IF x = t THEN tmp ELSE IF x = p THEN t ELSE l.next[x]
    BY <1>0, <1>1, <1>2 DEF Pointer
  <2>3. /\ pr \in [Timers -> Pointer]
        /\ \A x \in Timers :
              pr[x] = IF x = t THEN p ELSE IF x = tmp THEN t ELSE l.prev[x]
    BY <1>0, <1>1, <1>2 DEF Pointer
  <2>4. tl \in Pointer
    BY <1>1 DEF Pointer
  <2> HIDE DEF nx, pr, tl, k
  <2>5. k.head = l.head /\ k.tail = tl /\ k.prev = pr /\ k.next = nx
    BY <2>1
  <2>6. k \in ListType
    BY <1>1, <2>1, <2>2, <2>3, <2>4 DEF ListType
  <2> QED BY <2>2, <2>3, <2>5, <2>6 DEF tl
<1> HIDE DEF k
<1>5. /\ l.head \in L /\ l.prev[l.head] = NULL /\ l.tail \in L /\ l.next[l.tail] = NULL
      /\ tmp = NULL => p = l.tail
      /\ tmp # NULL => l.prev[tmp] = p
      /\ l.next[p] = tmp
      /\ \A x \in L : l.next[x] # t /\ l.prev[x] # t
      /\ \A x \in L : l.next[x] \in L \cup {NULL} /\ l.prev[x] \in L \cup {NULL}
  BY <1>0, TimerAssumption DEF Linked, Ends, Links
<1>6. Ends(k, M)
  BY <1>0, <1>2, <1>4, <1>5, TimerAssumption DEF Ends
<1>7. Links(k, M)
  <2>1. ASSUME NEW x \in L
        PROVE  /\ l.next[x] = NULL => x = l.tail
               /\ l.next[x] # NULL => l.next[x] \in L /\ l.prev[l.next[x]] = x
               /\ l.prev[x] = NULL => x = l.head
               /\ l.prev[x] # NULL => l.prev[x] \in L /\ l.next[l.prev[x]] = x
    BY DEF Linked, Links
  <2>2. ASSUME NEW x \in M
        PROVE  /\ k.next[x] = NULL => x = k.tail
               /\ k.next[x] # NULL => k.next[x] \in M /\ k.prev[k.next[x]] = x
    BY <1>0, <1>2, <1>4, <1>5, <2>1, TimerAssumption
  <2>3. ASSUME NEW x \in M
        PROVE  /\ k.prev[x] = NULL => x = k.head
               /\ k.prev[x] # NULL => k.prev[x] \in M /\ k.next[k.prev[x]] = x
    BY <1>0, <1>2, <1>4, <1>5, <2>1, TimerAssumption
  <2> QED BY <2>2, <2>3 DEF Links
<1>8. FromHead(k, M)
  <2> SUFFICES ASSUME NEW S \in SUBSET M, k.head \in S,
                      \A x \in S : k.next[x] \in S \cup {NULL}
               PROVE  S = M
    BY DEF FromHead
  <2>1. l.head \in S \ {t}
    BY <1>2, <1>4, <1>5
  <2>2. \A x \in S \ {t} : l.next[x] \in (S \ {t}) \cup {NULL}
    BY <1>0, <1>2, <1>4, <1>5
  <2>3. S \ {t} = L
    BY <2>1, <2>2 DEF Linked, FromHead
  <2>4. t \in S
    BY <1>0, <1>2, <1>4, <2>3
  <2> QED BY <2>3, <2>4
<1>9. FromTail(k, M)
  <2> SUFFICES ASSUME NEW S \in SUBSET M, k.tail \in S,
                      \A x \in S : k.prev[x] \in S \cup {NULL}
               PROVE  S = M
    BY DEF FromTail
  <2>1. l.tail \in S \ {t}
    BY <1>0, <1>2, <1>4, <1>5
  <2>2. \A x \in S \ {t} : l.prev[x] \in (S \ {t}) \cup {NULL}
    BY <1>0, <1>2, <1>4, <1>5
  <2>3. S \ {t} = L
    BY <2>1, <2>2 DEF Linked, FromTail
  <2>4. t \in S
    BY <1>0, <1>2, <1>4, <1>5, <2>3
  <2> QED BY <2>3, <2>4
<1>10. Sorted(k, M, exp)
  BY <1>0, <1>2, <1>4, <1>5 DEF Sorted
<1>11. k.head \in M \cup {NULL}
  BY <1>4, <1>5
<1> QED BY <1>4, <1>6, <1>7, <1>8, <1>9, <1>10, <1>11 DEF Linked, k

(* So does add_timer(timer) for a node that expires before all others. *)
LEMMA PushLinks ==
    ASSUME NEW l \in ListType, NEW L \in SUBSET Timers, Linked(l, L), l.head # NULL,
           NEW exp \in [Timers -> Times], Sorted(l, L, exp), NEW t \in Timers \ L,
           exp[t] < exp[l.head], l.prev[t] = NULL
    PROVE  LET k == [l EXCEPT !.next[t] = l.head, !.prev[l.head] = t, !.head = t]
           IN  k \in ListType /\ Linked(k, L \cup {t}) /\ Sorted(k, L \cup {t}, exp)
<1> DEFINE k == [l EXCEPT !.next[t] = l.head, !.prev[l.head] = t, !.head = t]
           M == L \cup {t}
<1>1. /\ l.next \in [Timers -> Pointer] /\ l.prev \in [Timers -> Pointer]
      /\ l.head \in L /\ l.tail \in L /\ NULL \notin M
      /\ l.prev[l.head] = NULL /\ l.next[l.tail] = NULL
  BY TimerAssumption DEF ListType, Linked, Ends
<1>2. /\ k \in ListType
      /\ k.head = t /\ k.tail = l.tail
      /\ \A x \in Timers : k.next[x] = IF x = t THEN l.head ELSE l.next[x]
      /\ \A x \in Timers : k.prev[x] = IF x = l.head THEN t ELSE l.prev[x]
  BY <1>1 DEF ListType, Pointer
<1> HIDE DEF k
<1>3. ASSUME NEW x \in L
      PROVE  /\ l.next[x] = NULL => x = l.tail
             /\ l.next[x] # NULL => l.next[x] \in L /\ l.prev[l.next[x]] = x
             /\ l.prev[x] = NULL => x = l.head
             /\ l.prev[x] # NULL => l.prev[x] \in L /\ l.next[l.prev[x]] = x
  BY DEF Linked, Links
<1>4. Ends(k, M)
  BY <1>1, <1>2 DEF Ends
<1>5. Links(k, M)
  <2>1. ASSUME NEW x \in M
        PROVE  /\ k.next[x] = NULL => x = k.tail
               /\ k.next[x] # NULL => k.next[x] \in M /\ k.prev[k.next[x]] = x
    BY <1>1, <1>2, <1>3
  <2>2. ASSUME NEW x \in M
        PROVE  /\ k.prev[x] = NULL => x = k.head
               /\ k.prev[x] # NULL => k.prev[x] \in M /\ k.next[k.prev[x]] = x
    BY <1>1, <1>2, <1>3
  <2> QED BY <2>1, <2>2 DEF Links
<1>6. FromHead(k, M)
  <2> SUFFICES ASSUME NEW S \in SUBSET M, k.head \in S,
                      \A x \in S : k.next[x] \in S \cup {NULL}
               PROVE  S = M
    BY DEF FromHead
  <2>1. l.head \in S \ {t} /\ \A x \in S \ {t} : l.next[x] \in (S \ {t}) \cup {NULL}
    BY <1>1, <1>2, <1>3
  <2>2. S \ {t} = L
    BY <2>1 DEF Linked, FromHead
  <2> QED BY <1>2, <2>2
<1>7. FromTail(k, M)
  <2> SUFFICES ASSUME NEW S \in SUBSET M, k.tail \in S,
                      \A x \in S : k.prev[x] \in S \cup {NULL}
               PROVE  S = M
    BY DEF FromTail
  <2>1. l.tail \in S \ {t} /\ \A x \in S \ {t} : l.prev[x] \in (S \ {t}) \cup {NULL}
    BY <1>1, <1>2, <1>3
  <2>2. S \ {t} = L
    BY <2>1 DEF Linked, FromTail
  <2> QED BY <1>1, <1>2, <2>2
<1>8. Sorted(k, M, exp)
  <2>1. exp[t] \in Int /\ exp[l.head] \in Int
    BY <1>1, TimerAssumption
  <2> QED BY <1>1, <1>2, <1>3, <2>1 DEF Sorted
<1>9. k.head \in M \cup {NULL}
  BY <1>2
<1> QED BY <1>2, <1>4, <1>5, <1>6, <1>7, <1>8, <1>9 DEF Linked, k

(* add_timer(timer), for a node whose pointers are still null. *)
LEMMA AddedLinks ==
    ASSUME NEW l \in ListType, NEW L \in SUBSET Timers, Linked(l, L),
           NEW exp \in [Timers -> Times], Sorted(l, L, exp), NEW t \in Timers \ L,
           l.prev[t] = NULL, l.next[t] = NULL
    PROVE  LET k == Added(l, exp, t)
           IN  k \in ListType /\ Linked(k, L \cup {t}) /\ Sorted(k, L \cup {t}, exp)
<1> DEFINE k == Added(l, exp, t)
<1>1. CASE l.head = NULL
  <2>1. L = {} /\ t # NULL
    BY <1>1, TimerAssumption DEF Linked, Ends
  <2>2. k \in ListType /\ k.head = t /\ k.tail = t /\ k.prev = l.prev /\ k.next = l.next
    BY <1>1 DEF Added, ListType, Pointer
  <2> QED BY <2>1, <2>2 DEF Linked, Ends, Links, FromHead, FromTail, Sorted
<1>2. CASE l.head # NULL /\ exp[t] < exp[l.head]
  BY <1>2, PushLinks DEF Added
<1>3. CASE l.head # NULL /\ ~(exp[t] < exp[l.head])
  <2>1. l.head \in L
    BY <1>3 DEF Linked
  <2>2. exp[l.head] \in Int /\ exp[t] \in Int
    BY <2>1, TimerAssumption
  <2>3. exp[l.head] <= exp[t] /\ k = InsertAfter(l, exp, t, l.head)
    BY <1>3, <2>2 DEF Added
  <2> QED BY <2>1, <2>3, InsertLinks
<1> QED BY <1>1, <1>2, <1>3

(* No node of a list follows or precedes itself: it would be all of it. *)
LEMMA NotOwnNeighbour ==
    ASSUME NEW l \in ListType, NEW L \in SUBSET Timers, Linked(l, L), NEW t \in L
    PROVE  l.next[t] # t /\ l.prev[t] # t
<1>1. SUFFICES ASSUME l.next[t] = t \/ l.prev[t] = t PROVE FALSE
  OBVIOUS
<1>2. l.prev[l.head] = NULL /\ NULL \notin L
  BY TimerAssumption DEF Linked, Ends
<1>3. l.next[t] = t /\ l.prev[t] = t
  BY <1>1, <1>2 DEF Linked, Links
<1>4. l.head \in L \ {t}
  BY <1>2, <1>3 DEF Linked, Ends
<1>5. \A x \in L \ {t} : l.next[x] \in (L \ {t}) \cup {NULL}
  BY <1>2, <1>3 DEF Linked, Links
<1>6. L \ {t} = L
  BY <1>4, <1>5 DEF Linked, FromHead
<1> QED BY <1>6

(* k is l without t, as far as the other nodes go. *)
Unlinked(l, k, L, t) ==
    /\ k.head = IF t = l.head THEN l.next[t] ELSE l.head
    /\ k.tail = IF t = l.tail THEN l.prev[t] ELSE l.tail
    /\ \A x \in L \ {t} : /\ k.next[x] = IF x = l.prev[t] THEN l.next[t] ELSE l.next[x]
                          /\ k.prev[x] = IF x = l.next[t] THEN l.prev[t] ELSE l.prev[x]

(* Unlinking a node leaves a sorted list of the others. *)
LEMMA UnlinkedLinks ==
    ASSUME NEW l \in ListType, NEW L \in SUBSET Timers, Linked(l, L),
           NEW t \in L, NEW k \in ListType, Unlinked(l, k, L, t)
    PROVE  /\ Linked(k, L \ {t})
           /\ \A exp \in [Timers -> Times] : Sorted(l, L, exp) => Sorted(k, L \ {t}, exp)
<1> DEFINE M == L \ {t}
           a == l.prev[t]
           b == l.next[t]
<1>1. /\ l.head \in L /\ l.tail \in L /\ NULL \notin L
      /\ l.prev[l.head] = NULL /\ l.next[l.tail] = NULL
  BY TimerAssumption DEF ListType, Linked, Ends
<1>2. ASSUME NEW x \in L
      PROVE  /\ l.next[x] = NULL => x = l.tail
             /\ l.next[x] # NULL => l.next[x] \in L /\ l.prev[l.next[x]] = x
             /\ l.prev[x] = NULL => x = l.head
             /\ l.prev[x] # NULL => l.prev[x] \in L /\ l.next[l.prev[x]] = x
  BY DEF Linked, Links
<1>3. /\ k.head = IF t = l.head THEN b ELSE l.head
      /\ k.tail = IF t = l.tail THEN a ELSE l.tail
      /\ \A x \in M : k.next[x] = IF x = a THEN b ELSE l.next[x]
      /\ \A x \in M : k.prev[x] = IF x = b THEN a ELSE l.prev[x]
  BY DEF Unlinked
<1>4. b # t /\ a # t
  BY NotOwnNeighbour
<1>5. /\ \A x \in M : k.next[x] = NULL => x = k.tail
      /\ \A x \in M : k.next[x] # NULL => k.next[x] \in M /\ k.prev[k.next[x]] = x
      /\ \A x \in M : k.prev[x] = NULL => x = k.head
      /\ \A x \in M : k.prev[x] # NULL => k.prev[x] \in M /\ k.next[k.prev[x]] = x
  BY <1>1, <1>2, <1>3, <1>4
<1>6. k.head = NULL => M = {}
  <2> SUFFICES ASSUME k.head = NULL PROVE M = {}
    OBVIOUS
  <2>1. t = l.head /\ b = NULL
    BY <1>1, <1>3
  <2>2. {t} \in SUBSET L /\ l.head \in {t} /\ \A x \in {t} : l.next[x] \in {t} \cup {NULL}
    BY <2>1
  <2> QED BY <2>2 DEF Linked, FromHead
<1>7. ASSUME M # {} PROVE /\ k.head \in M /\ k.prev[k.head] = NULL
                          /\ k.tail \in M /\ k.next[k.tail] = NULL
  <2>1. ~(t = l.tail /\ a = NULL)
    <3>1. SUFFICES ASSUME t = l.tail, a = NULL PROVE FALSE
      OBVIOUS
    <3>2. /\ {t} \in SUBSET L /\ l.tail \in {t}
          /\ \A x \in {t} : l.prev[x] \in {t} \cup {NULL}
      BY <3>1
    <3> QED BY <1>7, <3>2 DEF Linked, FromTail
  <2> QED BY <1>1, <1>2, <1>3, <1>4, <1>6, <1>7, <2>1
<1>8. FromHead(k, M)
  <2> SUFFICES ASSUME NEW S \in SUBSET M, k.head \in S,
                      \A x \in S : k.next[x] \in S \cup {NULL}
               PROVE  S = M
    BY DEF FromHead
  <2> DEFINE T == S \cup {t}
  <2>1. a \in T \cup {NULL}
    <3>1. SUFFICES ASSUME a \notin T, a # NULL PROVE FALSE
      OBVIOUS
    <3>2. l.head \in S /\ \A x \in S : l.next[x] \in S \cup {NULL}
      BY <1>1, <1>2, <1>3, <3>1
    <3> QED BY <3>2 DEF Linked, FromHead
  <2>2. l.head \in T /\ \A x \in T : l.next[x] \in T \cup {NULL}
    BY <1>1, <1>2, <1>3, <1>4, <2>1
  <2>3. T = L
    <3>1. T \in SUBSET L
      OBVIOUS
    <3> HIDE DEF T
    <3> QED BY <2>2, <3>1 DEF Linked, FromHead
  <2> QED BY <2>3
<1>9. FromTail(k, M)
  <2> SUFFICES ASSUME NEW S \in SUBSET M, k.tail \in S,
                      \A x \in S : k.prev[x] \in S \cup {NULL}
               PROVE  S = M
    BY DEF FromTail
  <2> DEFINE T == S \cup {t}
  <2>1. b \in T \cup {NULL}
    <3>1. SUFFICES ASSUME b \notin T, b # NULL PROVE FALSE
      OBVIOUS
    <3>2. l.tail \in S /\ \A x \in S : l.prev[x] \in S \cup {NULL}
      BY <1>1, <1>2, <1>3, <3>1
    <3> QED BY <3>2 DEF Linked, FromTail
  <2>2. l.tail \in T /\ \A x \in T : l.prev[x] \in T \cup {NULL}
    BY <1>1, <1>2, <1>3, <1>4, <2>1
  <2>3. T = L
    <3>1. T \in SUBSET L
      OBVIOUS
    <3> HIDE DEF T
    <3> QED BY <2>2, <3>1 DEF Linked, FromTail
  <2> QED BY <2>3
<1>10. ASSUME NEW exp \in [Timers -> Times], Sorted(l, L, exp) PROVE Sorted(k, M, exp)
  <2>1. \A x \in L : exp[x] \in Int
    BY TimerAssumption
  <2>2. a # NULL /\ b # NULL => exp[a] <= exp[b]
    <3> SUFFICES ASSUME a # NULL, b # NULL PROVE exp[a] <= exp[b]
      OBVIOUS
    <3>1. a \in L /\ b \in L /\ l.next[a] = t
      BY <1>2
    <3>2. exp[a] <= exp[t] /\ exp[t] <= exp[b]
      BY <1>1, <1>10, <3>1 DEF Sorted
    <3> QED BY <2>1, <3>1, <3>2
  <2> QED BY <1>2, <1>3, <1>10, <2>2, TimerAssumption DEF Sorted
<1>11. k.head \in M \cup {NULL}
  BY <1>6, <1>7, <1>1, <1>2, <1>3, <1>4
<1>12. Ends(k, M) /\ Links(k, M)
  BY <1>5, <1>6, <1>7 DEF Ends, Links
<1> QED BY <1>8, <1>9, <1>10, <1>11, <1>12 DEF Linked

(* del_timer() unlinks the node, in each of its four branches. *)
LEMMA DeletedLinks ==
    ASSUME NEW l \in ListType, NEW L \in SUBSET Timers, Linked(l, L), NEW t \in L
    PROVE  Deleted(l, t) \in ListType /\ Unlinked(l, Deleted(l, t), L, t)
<1> DEFINE k == Deleted(l, t)
<1>0. /\ l.next \in [Timers -> Pointer] /\ l.prev \in [Timers -> Pointer]
      /\ l.head \in Timers /\ l.tail \in Timers /\ NULL \notin Timers /\ t \in Timers
      /\ l.prev[l.head] = NULL /\ l.next[l.tail] = NULL
  BY TimerAssumption DEF ListType, Linked, Ends
<1>1. /\ l.next[t] = NULL => t = l.tail
      /\ l.next[t] # NULL => l.next[t] \in Timers
      /\ l.prev[t] = NULL => t = l.head
      /\ l.prev[t] # NULL => l.prev[t] \in Timers
  BY DEF Linked, Links
<1> DEFINE a == l.prev[t]
           b == l.next[t]
<1>2. CASE t = l.head /\ t = l.tail
  <2>1. {t} \in SUBSET L /\ l.head \in {t} /\ \A x \in {t} : l.next[x] \in {t} \cup {NULL}
    BY <1>0, <1>2
  <2>2. L = {t}
    BY <2>1 DEF Linked, FromHead
  <2>3. k \in ListType /\ k.head = NULL /\ k.tail = NULL
    BY <1>2 DEF Deleted, ListType, Pointer
  <2> QED BY <1>0, <1>2, <2>2, <2>3 DEF Unlinked
<1>3. CASE t = l.head /\ t # l.tail
  <2>1. k = [l EXCEPT !.head = b, !.prev[b] = NULL] /\ b \in Timers
    BY <1>1, <1>3 DEF Deleted
  <2> HIDE DEF b, k
  <2>2. /\ k \in ListType /\ k.head = b /\ k.tail = l.tail /\ k.next = l.next
        /\ \A x \in Timers : k.prev[x] = IF x = b THEN NULL ELSE l.prev[x]
    BY <1>0, <2>1 DEF ListType, Pointer
  <2> QED BY <1>0, <1>3, <2>2 DEF Unlinked, b, k
<1>4. CASE t # l.head /\ t = l.tail
  <2>1. k = [l EXCEPT !.tail = a, !.next[a] = NULL] /\ a \in Timers
    BY <1>1, <1>4 DEF Deleted
  <2> HIDE DEF a, k
  <2>2. /\ k \in ListType /\ k.head = l.head /\ k.tail = a /\ k.prev = l.prev
        /\ \A x \in Timers : k.next[x] = IF x = a THEN NULL ELSE l.next[x]
    BY <1>0, <2>1 DEF ListType, Pointer
  <2> QED BY <1>0, <1>4, <2>2 DEF Unlinked, a, k
<1>5. CASE t # l.head /\ t # l.tail
  <2>1. k = [l EXCEPT !.next[a] = b, !.prev[b] = a] /\ a \in Timers /\ b \in Timers
    BY <1>1, <1>5 DEF Deleted
  <2> HIDE DEF a, b, k
  <2>2. /\ k \in ListType /\ k.head = l.head /\ k.tail = l.tail
        /\ \A x \in Timers : k.next[x] = IF x = a THEN b ELSE l.next[x]
        /\ \A x \in Timers : k.prev[x] = IF x = b THEN a ELSE l.prev[x]
    BY <1>0, <2>1 DEF ListType, Pointer
  <2> QED BY <1>5, <2>2 DEF Unlinked, a, b, k
<1> QED BY <1>2, <1>3, <1>4, <1>5

(* adjust_timer() moves a node whose deadline is put off to its place. *)
LEMMA AdjustedLinks ==
    ASSUME NEW l \in ListType, NEW L \in SUBSET Timers, Linked(l, L), NEW t \in L,
           NEW old \in [Timers -> Times], Sorted(l, L, old),
           NEW e \in Times, old[t] <= e
    PROVE  LET exp == [old EXCEPT ![t] = e]
               k   == Adjusted(l, exp, t)
           IN  k \in ListType /\ Linked(k, L) /\ Sorted(k, L, exp)
<1> DEFINE exp == [old EXCEPT ![t] = e]
           k   == Adjusted(l, exp, t)
           tmp == l.next[t]
<1> SUFFICES k \in ListType /\ Linked(k, L) /\ Sorted(k, L, exp)
  OBVIOUS
<1>0. /\ exp \in [Timers -> Times] /\ \A x \in L \ {t} : exp[x] = old[x]
      /\ \A x \in L : old[x] \in Int /\ exp[x] \in Int
      /\ exp[t] = e /\ e \in Int
  BY TimerAssumption
<1> HIDE DEF exp
<1>1. CASE tmp = NULL \/ exp[t] < exp[tmp]
  <2>1. k = l
    BY <1>1 DEF Adjusted
  <2>2. \A x \in L : l.next[x] # NULL => l.next[x] \in L /\ old[x] <= old[l.next[x]]
    BY DEF Sorted, Linked, Links
  <2>3. Sorted(l, L, exp)
    <3> SUFFICES ASSUME NEW x \in L, l.next[x] # NULL PROVE exp[x] <= exp[l.next[x]]
      BY DEF Sorted
    <3>1. l.next[x] \in L /\ old[x] <= old[l.next[x]]
      BY <2>2
    <3>2. CASE x = t
      BY <1>0, <1>1, <3>1, <3>2
    <3>3. CASE x # t
      BY <1>0, <3>1, <3>3
    <3> QED BY <3>2, <3>3
  <2> QED BY <2>1, <2>3
<1>2. CASE tmp # NULL /\ ~(exp[t] < exp[tmp])
  <2>0. /\ l.next \in [Timers -> Pointer] /\ l.prev \in [Timers -> Pointer]
        /\ l.head \in Timers /\ l.tail \in Timers /\ NULL \notin Timers
        /\ l.prev[l.head] = NULL /\ l.next[l.tail] = NULL
        /\ tmp \in L
        /\ l.prev[t] = NULL => t = l.head
        /\ l.prev[t] # NULL => l.prev[t] \in Timers
    BY <1>2, TimerAssumption DEF ListType, Linked, Ends, Links
  <2>1. \E m \in ListType : Unlinked(l, m, L, t) /\ k = InsertAfter(m, exp, t, tmp)
    <3>1. CASE t = l.head
      <4> DEFINE m == [l EXCEPT !.head = tmp, !.prev[tmp] = NULL, !.next[t] = NULL]
      <4>1. /\ m \in ListType /\ m.head = tmp /\ m.tail = l.tail
            /\ \A x \in Timers : m.next[x] = IF x = t THEN NULL ELSE l.next[x]
            /\ \A x \in Timers : m.prev[x] = IF x = tmp THEN NULL ELSE l.prev[x]
        BY <2>0 DEF ListType, Pointer
      <4>2. k = InsertAfter(m, exp, t, tmp)
        BY <1>2, <3>1 DEF Adjusted
      <4> HIDE DEF m, k
      <4> QED BY <1>2, <2>0, <3>1, <4>1, <4>2 DEF Unlinked
    <3>2. CASE t # l.head
      <4> DEFINE m == [l EXCEPT !.next[l.prev[t]] = tmp, !.prev[tmp] = l.prev[t]]
      <4>1. /\ m \in ListType /\ m.head = l.head /\ m.tail = l.tail
            /\ \A x \in Timers : m.next[x] = IF x = l.prev[t] THEN tmp ELSE l.next[x]
            /\ \A x \in Timers : m.prev[x] = IF x = tmp THEN l.prev[t] ELSE l.prev[x]
        BY <2>0, <3>2 DEF ListType, Pointer
      <4>2. k = InsertAfter(m, exp, t, tmp)
        BY <1>2, <3>2 DEF Adjusted
      <4> HIDE DEF m, k
      <4> QED BY <1>2, <2>0, <3>2, <4>1, <4>2 DEF Unlinked
    <3> QED BY <3>1, <3>2
  <2>2. PICK m \in ListType : Unlinked(l, m, L, t) /\ k = InsertAfter(m, exp, t, tmp)
    BY <2>1
  <2>3. Linked(m, L \ {t}) /\ Sorted(m, L \ {t}, old)
    BY <2>2, UnlinkedLinks
  <2>4. Sorted(m, L \ {t}, exp)
    <3>1. \A x \in L \ {t} : m.next[x] # NULL => m.next[x] \in L \ {t}
      BY <2>3 DEF Linked, Links
    <3> QED BY <1>0, <2>3, <3>1 DEF Sorted
  <2>5. tmp # t
    BY NotOwnNeighbour
  <2>6. tmp \in L \ {t} /\ exp[tmp] <= exp[t] /\ L = (L \ {t}) \cup {t}
    BY <1>0, <1>2, <2>0, <2>5
  <2> HIDE DEF k, tmp
  <2> QED BY <1>0, <2>2, <2>3, <2>4, <2>6, InsertLinks
<1> QED BY <1>1, <1>2

(* The functions from a node to the nodes the walk from it passes before   *)
(* its stop.                                                               *)
Gathers(D, stop, nx) ==
    {w \in [D -> SUBSET D] :
       \A m \in D : /\ m \in stop => w[m] = {}
                    /\ m \notin stop => w[m] = {m} \cup w[nx[m]]}

(* There is one, too. *)
LEMMA GatherExists ==
    ASSUME NEW D, NEW stop, NEW nx, Stays(D, stop, nx)
    PROVE  Gathers(D, stop, nx) # {}
<1> DEFINE w == [m \in D |-> Path(D, stop, nx, m) \ stop]
<1> USE DEF Stays
<1>1. ASSUME NEW m \in D
      PROVE  (m \in stop => w[m] = {}) /\ (m \notin stop => w[m] = {m} \cup w[nx[m]])
  <2>1. m \notin stop => nx[m] \in D
    OBVIOUS
  <2> QED BY <2>1, PathUnfolds
<1>2. w \in [D -> SUBSET D]
  BY DEF Path
<1> HIDE DEF w
<1> QED BY <1>1, <1>2 DEF Gathers

(* One turn of the loop in tick(), for the nodes it expires. *)
LEMMA ExpiredStep ==
    ASSUME NEW l \in ListType, NEW exp, NEW cur
    PROVE  \E w :
              /\ Expired(l, exp, cur) = w[l.head]
              /\ \A m \in Pointer :
                    w[m] = IF m = NULL \/ ~Due(exp, m, cur)
                             THEN {} ELSE {m} \cup w[l.next[m]]
<1> DEFINE W(w) == [m \in Pointer |-> IF m = NULL \/ ~Due(exp, m, cur)
                                       THEN {} ELSE {m} \cup w[l.next[m]]]
           walk == CHOOSE w : w = W(w)
           stop == {m \in Pointer : m = NULL \/ ~Due(exp, m, cur)}
<1>1. \E w \in [Pointer -> SUBSET Pointer] : w = W(w)
  <2>1. Stays(Pointer, stop, l.next)
    BY DEF Stays, Pointer, ListType
  <2>2. PICK w : w \in Gathers(Pointer, stop, l.next)
    <3> HIDE DEF stop
    <3> QED BY <2>1, GatherExists
  <2>3. w \in [Pointer -> SUBSET Pointer] /\ w = W(w)
    BY <2>2 DEF Gathers
  <2> QED BY <2>3
<1>2. walk = W(walk)
  BY <1>1
<1>3. Expired(l, exp, cur) = walk[l.head]
  BY DEF Expired
<1> HIDE DEF walk
<1>4. \A m \in Pointer : walk[m] = IF m = NULL \/ ~Due(exp, m, cur)
                                   THEN {} ELSE {m} \cup walk[l.next[m]]
  BY <1>2
<1> QED BY <1>3, <1>4

(* One turn of the loop in tick(), for the head it leaves. *)
LEMMA FirstLeftStep ==
    ASSUME NEW l \in ListType, NEW dead \in SUBSET Timers
    PROVE  \E w : /\ FirstLeft(l, dead) = w[l.head]
                  /\ \A m \in Pointer : w[m] = IF m \in dead THEN w[l.next[m]] ELSE m
<1> DEFINE W(w) == [m \in Pointer |-> IF m \in dead THEN w[l.next[m]] ELSE m]
           walk == CHOOSE w : w = W(w)
           stop == Pointer \ dead
<1>1. \E w : w = W(w)
  <2>1. Stays(Pointer, stop, l.next)
    BY DEF Stays, Pointer, ListType
  <2>2. PICK w : w \in Walks(Pointer, stop, l.next)
    <3> HIDE DEF stop
    <3> QED BY <2>1, WalkExists
  <2>3. w = W(w)
    BY <2>2 DEF Walks
  <2> QED BY <2>3
<1>2. walk = W(walk)
  BY <1>1
<1>3. FirstLeft(l, dead) = walk[l.head]
  BY DEF FirstLeft
<1> HIDE DEF walk
<1>4. \A m \in Pointer : walk[m] = IF m \in dead THEN walk[l.next[m]] ELSE m
  BY <1>2
<1> QED BY <1>3, <1>4

(* tick() stops at the first timer that is not due and yet expires every   *)
(* timer that is, because the list is sorted.                              *)
LEMMA ExpiredIsDue ==
    ASSUME NEW l \in ListType, NEW L \in SUBSET Timers, Linked(l, L),
           NEW exp \in [Timers -> Times], Sorted(l, L, exp), NEW cur \in Times
    PROVE  Expired(l, exp, cur) = {t \in L : exp[t] <= cur}
<1>1. PICK w : /\ Expired(l, exp, cur) = w[l.head]
               /\ \A m \in Pointer : w[m] = IF m = NULL \/ ~Due(exp, m, cur)
                                             THEN {} ELSE {m} \cup w[l.next[m]]
  BY ExpiredStep
<1>2. cur \in Int /\ \A t \in L : exp[t] \in Int /\ t # NULL /\ t \in Pointer
  BY TimerAssumption DEF Pointer
<1> DEFINE due == {t \in L : exp[t] <= cur}
<1>3. /\ w[NULL] = {}
      /\ \A t \in due : w[t] = {t} \cup w[l.next[t]]
      /\ \A t \in L \ due : w[t] = {}
  <2>1. \A t \in L : Due(exp, t, cur) <=> t \in due
    BY <1>2 DEF Due
  <2>2. NULL \in Pointer
    BY DEF Pointer
  <2>3. due \subseteq L
    OBVIOUS
  <2> HIDE DEF due
  <2> QED BY <1>1, <1>2, <2>1, <2>2, <2>3
<1>4. CASE l.head = NULL
  BY <1>1, <1>3, <1>4 DEF Linked, Ends
<1>5. CASE l.head # NULL
  <2>1. l.head \in L
    BY <1>5 DEF Linked
  <2>2. w[l.head] \subseteq due
    <3> DEFINE S == {t \in L : w[t] \subseteq due}
    <3>1. l.tail \in S
      BY <1>3, <2>1 DEF Linked, Ends
    <3>2. \A x \in S : l.prev[x] \in S \cup {NULL}
      <4> SUFFICES ASSUME NEW x \in S, l.prev[x] # NULL PROVE l.prev[x] \in S
        OBVIOUS
      <4>1. l.prev[x] \in L /\ l.next[l.prev[x]] = x
        BY DEF Linked, Links
      <4> QED BY <1>3, <4>1
    <3>3. S = L
      BY <3>1, <3>2 DEF Linked, FromTail
    <3> QED BY <2>1, <3>3
  <2>3. due \subseteq w[l.head]
    <3> DEFINE S == {t \in L : t \in due => t \in w[l.head] /\ w[t] \subseteq w[l.head]}
    <3>1. l.head \in S
      BY <1>3, <2>1
    <3>2. \A x \in S : l.next[x] \in S \cup {NULL}
      <4> SUFFICES ASSUME NEW x \in S, l.next[x] # NULL PROVE l.next[x] \in S
        OBVIOUS
      <4>1. l.next[x] \in L /\ exp[x] <= exp[l.next[x]]
        BY DEF Linked, Links, Sorted
      <4>2. CASE l.next[x] \notin due
        BY <4>1, <4>2
      <4>3. CASE l.next[x] \in due
        <5>1. x \in due
          BY <1>2, <4>1, <4>3
        <5>2. /\ w[x] \subseteq w[l.head] /\ w[l.next[x]] \subseteq w[x]
              /\ l.next[x] \in w[l.next[x]]
          BY <1>3, <4>1, <4>3, <5>1
        <5> QED BY <4>1, <5>2
      <4> QED BY <4>2, <4>3
    <3>3. S = L
      BY <3>1, <3>2 DEF Linked, FromHead
    <3> QED BY <3>3
  <2> QED BY <1>1, <2>2, <2>3
<1> QED BY <1>4, <1>5

(* tick() leaves a sorted list of the timers that are not due. *)
LEMMA TickedLinks ==
    ASSUME NEW l \in ListType, NEW L \in SUBSET Timers, Linked(l, L),
           NEW exp \in [Timers -> Times], Sorted(l, L, exp), NEW cur \in Times
    PROVE  LET k    == Ticked(l, exp, cur)
               left == L \ Expired(l, exp, cur)
           IN  k \in ListType /\ Linked(k, left) /\ Sorted(k, left, exp)
<1> DEFINE k    == Ticked(l, exp, cur)
           dead == Expired(l, exp, cur)
           left == L \ dead
           h    == FirstLeft(l, dead)
<1> SUFFICES k \in ListType /\ Linked(k, left) /\ Sorted(k, left, exp)
  OBVIOUS
<1>0. /\ NULL \notin L /\ L \subseteq Pointer /\ NULL \in Pointer
      /\ \A x \in L : exp[x] \in Int
      /\ cur \in Int
  BY TimerAssumption DEF Pointer
<1>1. dead = {t \in L : exp[t] <= cur}
  BY ExpiredIsDue
<1>2. ASSUME NEW x \in L
      PROVE  /\ l.next[x] = NULL => x = l.tail
             /\ l.next[x] # NULL => l.next[x] \in L /\ l.prev[l.next[x]] = x
             /\ l.prev[x] = NULL => x = l.head
             /\ l.prev[x] # NULL => l.prev[x] \in L /\ l.next[l.prev[x]] = x
  BY DEF Linked, Links
<1>3. \A x \in left : l.next[x] # NULL => l.next[x] \in left
  BY <1>0, <1>1, <1>2 DEF Sorted
<1>4. \A x \in dead : l.prev[x] # NULL => l.prev[x] \in dead
  <2> HIDE DEF dead
  <2> QED BY <1>0, <1>1, <1>2, <1>3
<1>5. PICK w : /\ h = w[l.head]
               /\ \A m \in Pointer : w[m] = IF m \in dead THEN w[l.next[m]] ELSE m
  <2>1. dead \in SUBSET Timers
    BY <1>1
  <2> QED BY <2>1, FirstLeftStep
<1>6. \A m \in L : w[m] = IF m \in dead THEN w[l.next[m]] ELSE m
  BY <1>0, <1>5
<1>7. w[NULL] = NULL
  BY <1>0, <1>1, <1>5
<1>8. k = IF h = NULL THEN [l EXCEPT !.head = NULL]
                      ELSE [l EXCEPT !.head = h, !.prev[h] = NULL]
  BY DEF Ticked
<1> HIDE DEF k, h, dead
<1>9. CASE L = {}
  <2>1. left = {} /\ l.head = NULL
    BY <1>9 DEF Linked
  <2>2. h = NULL
    BY <1>5, <1>7, <2>1
  <2>3. k \in ListType /\ k.head = NULL
    BY <1>8, <2>2 DEF ListType, Pointer
  <2> QED BY <2>1, <2>3 DEF Linked, Ends, Links, FromHead, FromTail, Sorted
<1>10. CASE L # {}
  <2>0. /\ l.head \in L /\ l.tail \in L
        /\ l.prev[l.head] = NULL /\ l.next[l.tail] = NULL
    BY <1>10 DEF Linked, Ends
  (* The walk from any node of the list ends at a node that is left, behind  *)
  (* an expired one unless it started there, or at the end of the list.      *)
  <2>1. \A x \in L : IF left = {} THEN w[x] = NULL ELSE w[x] \in left
    <3> DEFINE S == {x \in L : IF left = {} THEN w[x] = NULL ELSE w[x] \in left}
    <3>1. l.tail \in S
      <4>1. CASE left = {}
        BY <1>6, <1>7, <2>0, <4>1
      <4>2. CASE left # {}
        <5>1. l.tail \notin dead
          <6>1. SUFFICES ASSUME l.tail \in dead PROVE FALSE
            OBVIOUS
          <6>2. dead \in SUBSET L /\ \A x \in dead : l.prev[x] \in dead \cup {NULL}
            BY <1>1, <1>4
          <6>3. dead = L
            BY <6>1, <6>2 DEF Linked, FromTail
          <6> QED BY <4>2, <6>3
        <5> QED BY <1>6, <2>0, <4>2, <5>1
      <4> QED BY <4>1, <4>2
    <3>2. \A x \in S : l.prev[x] \in S \cup {NULL}
      BY <1>2, <1>6
    <3>3. S = L
      BY <3>1, <3>2 DEF Linked, FromTail
    <3> QED BY <3>3
  <2>2. \A x \in L : x \in dead /\ w[x] # NULL => l.prev[w[x]] \in dead
    <3> DEFINE S == {x \in L : x \in dead /\ w[x] # NULL => l.prev[w[x]] \in dead}
    <3>1. l.tail \in S
      BY <1>6, <1>7, <2>0
    <3>2. \A x \in S : l.prev[x] \in S \cup {NULL}
      BY <1>2, <1>6
    <3>3. S = L
      BY <3>1, <3>2 DEF Linked, FromTail
    <3> QED BY <3>3
  <2>3. /\ \A x \in dead : w[x] = h
        /\ \A x \in left : l.prev[x] \in left \/ x = h
    <3> DEFINE S == {x \in L : IF x \in dead THEN w[x] = h
                                             ELSE l.prev[x] \in left \/ x = h}
    <3>1. l.head \in S
      BY <1>5, <1>6, <2>0
    <3>2. \A x \in S : l.next[x] \in S \cup {NULL}
      <4> SUFFICES ASSUME NEW x \in S, l.next[x] # NULL PROVE l.next[x] \in S
        OBVIOUS
      <4>1. l.next[x] \in L /\ l.prev[l.next[x]] = x
        BY <1>2
      <4>2. CASE x \in dead
        BY <1>6, <4>1, <4>2
      <4>3. CASE x \notin dead
        BY <1>3, <4>1, <4>3
      <4> QED BY <4>2, <4>3
    <3>3. S = L
      BY <3>1, <3>2 DEF Linked, FromHead
    <3> QED BY <1>1, <3>3
  <2>4. CASE left = {}
    <3>1. h = NULL
      BY <1>5, <2>0, <2>1, <2>4
    <3>2. k \in ListType /\ k.head = NULL
      BY <1>8, <3>1 DEF ListType, Pointer
    <3> QED BY <1>0, <2>4, <3>2 DEF Linked, Ends, Links, FromHead, FromTail, Sorted
  <2>5. CASE left # {}
    <3>1. h \in left /\ h # NULL /\ l.prev[h] \in dead \cup {NULL}
      BY <1>0, <1>5, <1>6, <2>0, <2>1, <2>2, <2>5
    <3>2. /\ k \in ListType /\ k.head = h /\ k.tail = l.tail /\ k.next = l.next
          /\ \A x \in Timers : k.prev[x] = IF x = h THEN NULL ELSE l.prev[x]
      BY <1>8, <3>1 DEF ListType, Pointer
    <3>3. l.tail \in left
      <4>1. SUFFICES ASSUME l.tail \in dead PROVE FALSE
        BY <2>0
      <4>2. w[l.tail] = NULL
        BY <1>6, <1>7, <2>0, <4>1
      <4> QED BY <1>0, <2>0, <2>1, <2>5, <4>2
    <3>4. Ends(k, left)
      BY <2>0, <3>1, <3>2, <3>3 DEF Ends
    <3>5. Links(k, left)
      BY <1>0, <1>2, <1>3, <2>3, <3>1, <3>2 DEF Links
    <3>6. FromHead(k, left)
      <4> SUFFICES ASSUME NEW S \in SUBSET left, k.head \in S,
                          \A x \in S : k.next[x] \in S \cup {NULL}
                   PROVE  S = left
        BY DEF FromHead
      <4> DEFINE T == S \cup dead
      <4>1. T \in SUBSET L /\ l.head \in T
        BY <1>1, <1>6, <1>5, <2>0, <3>2
      <4>2. \A x \in T : l.next[x] \in T \cup {NULL}
        BY <1>1, <1>2, <2>3, <3>2
      <4>3. T = L
        <5> HIDE DEF T
        <5> QED BY <4>1, <4>2 DEF Linked, FromHead
      <4> QED BY <4>3
    <3>7. FromTail(k, left)
      <4> SUFFICES ASSUME NEW S \in SUBSET left, k.tail \in S,
                          \A x \in S : k.prev[x] \in S \cup {NULL}
                   PROVE  S = left
        BY DEF FromTail
      <4> DEFINE T == S \cup dead
      <4>1. T \in SUBSET L /\ l.tail \in T
        BY <1>1, <3>2
      <4>2. \A x \in T : l.prev[x] \in T \cup {NULL}
        BY <1>1, <1>4, <3>1, <3>2
      <4>3. T = L
        <5> HIDE DEF T
        <5> QED BY <4>1, <4>2 DEF Linked, FromTail
      <4> QED BY <4>3
    <3>8. Sorted(k, left, exp)
      BY <3>2 DEF Sorted
    <3> QED BY <3>1, <3>2, <3>4, <3>5, <3>6, <3>7, <3>8 DEF Linked
  <2> QED BY <2>4, <2>5
<1> QED BY <1>9, <1>10
-----------------------------------------------------------------------------
(* The inductive invariant. *)
TimerInv ==
    /\ ListInv
    /\ expire \in [Timers -> Times]
    /\ live \in SUBSET Timers
    /\ now \in Times

(* The list is empty at first. *)
LEMMA TimerInvInit == Init => TimerInv
<1> SUFFICES ASSUME Init PROVE TimerInv
  OBVIOUS
<1>1. List \in ListType /\ List.head = NULL /\ live = {}
  BY DEF Init, List, ListType, Pointer
<1>2. Linked(List, live) /\ Sorted(List, live, expire)
  BY <1>1 DEF Linked, Ends, Links, FromHead, FromTail, Sorted
<1>3. expire \in [Timers -> Times]
  BY DEF Init
<1> QED BY <1>1, <1>2, <1>3 DEF Init, TimerInv, ListInv

(* The list after a call is the one the call has made. *)
LEMMA BecomesList ==
    ASSUME NEW l \in ListType, Becomes(l)
    PROVE  List' = l
  BY DEF Becomes, List, ListType

(* A timer main makes is linked in. *)
LEMMA AddKeeps ==
    ASSUME TimerInv, NEW t \in Timers, NEW e \in Times, Add(t, e)
    PROVE  TimerInv'
<1> DEFINE l == [List EXCEPT !.prev[t] = NULL, !.next[t] = NULL]
<1>1. expire' \in [Timers -> Times] /\ \A x \in live : expire'[x] = expire[x]
  BY DEF Add, TimerInv
<1>2. /\ l \in ListType /\ l.head = List.head /\ l.tail = List.tail
      /\ \A x \in Timers : /\ l.prev[x] = IF x = t THEN NULL ELSE List.prev[x]
                           /\ l.next[x] = IF x = t THEN NULL ELSE List.next[x]
  BY DEF TimerInv, ListInv, ListType, Pointer
<1>3. t \in Timers \ live
  BY DEF Add
<1> HIDE DEF l
<1>4. /\ \A x \in live : l.prev[x] = List.prev[x] /\ l.next[x] = List.next[x]
      /\ \A x \in live : l.next[x] # NULL => l.next[x] \in live
  BY <1>2, <1>3 DEF TimerInv, ListInv, Linked, Links
<1>5. Linked(l, live)
  <2>1. Ends(l, live)
    BY <1>2, <1>4 DEF TimerInv, ListInv, Linked, Ends
  <2>2. Links(l, live)
    BY <1>2, <1>4 DEF TimerInv, ListInv, Linked, Links
  <2>3. FromHead(l, live)
    BY <1>2, <1>4 DEF TimerInv, ListInv, Linked, FromHead
  <2>4. FromTail(l, live)
    BY <1>2, <1>4 DEF TimerInv, ListInv, Linked, FromTail
  <2> QED BY <1>2, <2>1, <2>2, <2>3, <2>4 DEF TimerInv, ListInv, Linked
<1>6. Sorted(l, live, expire')
  BY <1>1, <1>4 DEF TimerInv, ListInv, Sorted
<1> DEFINE k == Added(l, expire', t)
<1>7. k \in ListType /\ Linked(k, live \cup {t}) /\ Sorted(k, live \cup {t}, expire')
  BY <1>1, <1>2, <1>3, <1>5, <1>6, AddedLinks DEF TimerInv
<1>8. List' = k
  BY <1>7, BecomesList DEF Add, l
<1>9. live' = live \cup {t} /\ now' = now
  BY DEF Add
<1> QED BY <1>1, <1>3, <1>7, <1>8, <1>9 DEF TimerInv, ListInv

(* A timer main puts off stays in the list, in its place. *)
LEMMA AdjustKeeps ==
    ASSUME TimerInv, NEW t \in Timers, NEW e \in Times, expire[t] <= e, Adjust(t, e)
    PROVE  TimerInv'
<1> DEFINE k == Adjusted(List, expire', t)
<1>1. expire' = [expire EXCEPT ![t] = e] /\ t \in live
  BY DEF Adjust
<1>2. k \in ListType /\ Linked(k, live) /\ Sorted(k, live, expire')
  BY <1>1, AdjustedLinks DEF TimerInv, ListInv
<1>3. List' = k
  BY <1>2, BecomesList DEF Adjust
<1> QED BY <1>1, <1>2, <1>3 DEF Adjust, TimerInv, ListInv

(* A timer main deletes is linked out. *)
LEMMA DeleteKeeps ==
    ASSUME TimerInv, NEW t \in Timers, Delete(t)
    PROVE  TimerInv'
<1> DEFINE k == Deleted(List, t)
<1>1. t \in live /\ live' = live \ {t} /\ UNCHANGED <<expire, now>>
  BY DEF Delete
<1>2. k \in ListType /\ Unlinked(List, k, live, t)
  BY <1>1, DeletedLinks DEF TimerInv, ListInv
<1>3. Linked(k, live \ {t}) /\ Sorted(k, live \ {t}, expire)
  BY <1>1, <1>2, UnlinkedLinks DEF TimerInv, ListInv
<1>4. List' = k
  BY <1>2, BecomesList DEF Delete
<1> QED BY <1>1, <1>2, <1>3, <1>4 DEF TimerInv, ListInv

(* The timers tick() expires are linked out. *)
LEMMA TickKeeps ==
    ASSUME TimerInv, NEW cur \in Times, Tick(cur)
    PROVE  TimerInv'
<1> DEFINE k == Ticked(List, expire, cur)
           left == live \ Expired(List, expire, cur)
<1>1. k \in ListType /\ Linked(k, left) /\ Sorted(k, left, expire)
  BY TickedLinks DEF TimerInv, ListInv
<1>2. List' = k
  BY <1>1, BecomesList DEF Tick
<1>3. live' = left /\ expire' = expire /\ now' = cur
  BY DEF Tick
<1> QED BY <1>1, <1>2, <1>3 DEF TimerInv, ListInv

(* Every call keeps the list. *)
LEMMA StepKeeps == TimerInv /\ [Next]_vars => TimerInv'
<1> SUFFICES ASSUME TimerInv, [Next]_vars PROVE TimerInv'
  OBVIOUS
<1>1. CASE UNCHANGED vars
  BY <1>1 DEF vars, TimerInv, ListInv, List
<1> QED BY <1>1, AddKeeps, AdjustKeeps, DeleteKeeps, TickKeeps DEF Next

(* Whatever calls main makes, the list stays linked, sorted and in one     *)
(* piece.                                                                  *)
THEOREM TimerInvHolds == Spec => []TimerInv
  BY TimerInvInit, StepKeeps, PTL DEF Spec

(* head never dangles, whatever calls main makes (tail may: tick() leaves  *)
(* it alone).                                                              *)
THEOREM TypeCorrect == Spec => []TypeOK
<1>1. TimerInv => TypeOK
  BY DEF TimerInv, ListInv, ListType, List, Linked, TypeOK
<1> QED BY <1>1, TimerInvHolds, PTL

(* For any number of timers and any deadlines: the list reaches exactly    *)
(* the allocated timers, prev undoes next, tail ends it, and deadlines     *)
(* ascend.                                                                 *)
THEOREM WellLinkedHolds == Spec => []WellLinked
<1>1. TimerInv => WellLinked
  <2> SUFFICES ASSUME TimerInv PROVE WellLinked
    OBVIOUS
  <2>0. /\ List.head = head /\ List.tail = tail /\ List.prev = prev /\ List.next = next
        /\ NULL \notin live /\ live \in SUBSET Timers
    BY TimerAssumption DEF TimerInv, List
  <2> HIDE DEF List
  <2>1. /\ head \in live \cup {NULL}
        /\ head = NULL => live = {}
        /\ live # {} => /\ head \in live /\ prev[head] = NULL
                       /\ tail \in live /\ next[tail] = NULL
        /\ \A x \in live : /\ next[x] = NULL => x = tail
                           /\ next[x] # NULL => /\ next[x] \in live /\ prev[next[x]] = x
                                               /\ expire[x] <= expire[next[x]]
    BY <2>0 DEF TimerInv, ListInv, Linked, Ends, Links, Sorted
  <2> DEFINE Closed(S) == /\ {head} \ {NULL} \subseteq S
                          /\ {next[t] : t \in S} \subseteq S \cup {NULL}
  <2>2. live \subseteq Reachable
    <3> SUFFICES ASSUME NEW S \in SUBSET Timers, Closed(S) PROVE live \subseteq S
      BY <2>0 DEF Reachable
    <3>1. CASE head = NULL
      BY <2>1, <3>1
    <3>2. CASE head # NULL
      <4>1. /\ head \in S \cap live
            /\ \A x \in S \cap live : next[x] \in (S \cap live) \cup {NULL}
        BY <2>1, <3>2
      <4>2. S \cap live = live
        BY <2>0, <4>1 DEF TimerInv, ListInv, Linked, FromHead
      <4> QED BY <4>2
    <3> QED BY <3>1, <3>2
  <2>3. Reachable \subseteq live
    <3>1. live \in SUBSET Timers /\ Closed(live)
      BY <2>0, <2>1
    <3> QED BY <3>1 DEF Reachable
  <2> QED BY <2>1, <2>2, <2>3 DEF WellLinked
<1> QED BY <1>1, TimerInvHolds, PTL
-----------------------------------------------------------------------------
(* A call on the list is the call of the same name on the set of timers. *)
LEMMA StepIsSetStep ==
    TimerInv /\ [Next]_vars => [Abstract!Next]_<<[t \in live |-> expire[t]], now>>
<1> SUFFICES ASSUME TimerInv, [Next]_vars
             PROVE  [Abstract!Next]_<<[t \in live |-> expire[t]], now>>
  OBVIOUS
<1> DEFINE deadline == [t \in live |-> expire[t]]
<1>0. /\ expire \in [Timers -> Times] /\ live \in SUBSET Timers
      /\ DOMAIN deadline = live
      /\ deadline' = [t \in live' |-> expire'[t]]
      /\ \A x \in Times : x \in Int
  BY TimerAssumption DEF TimerInv
<1>1. ASSUME NEW t \in Timers, NEW e \in Times, Add(t, e) PROVE Abstract!Add(t, e)
  BY <1>0, <1>1 DEF Add, Abstract!Add, Abstract!With, Abstract!Pending
<1>2. ASSUME NEW t \in Timers, NEW e \in Times, Adjust(t, e) PROVE Abstract!Adjust(t, e)
  BY <1>0, <1>2 DEF Adjust, Abstract!Adjust, Abstract!With, Abstract!Pending
<1>3. ASSUME NEW t \in Timers, Delete(t) PROVE Abstract!Delete(t)
  BY <1>0, <1>3 DEF Delete, Abstract!Delete, Abstract!Without, Abstract!Pending
<1>4. ASSUME NEW cur \in Times, Tick(cur) PROVE Abstract!Tick(cur)
  <2>1. Expired(List, expire, cur) = {t \in live : expire[t] <= cur}
    BY ExpiredIsDue DEF TimerInv, ListInv
  <2>2. live' = live \ {t \in live : expire[t] <= cur} /\ expire' = expire /\ now' = cur
    BY <1>4, <2>1 DEF Tick
  <2> QED BY <1>0, <2>2 DEF Abstract!Tick, Abstract!Without, Abstract!Pending
<1>5. CASE UNCHANGED vars
  BY <1>5 DEF vars
<1> QED BY <1>1, <1>2, <1>3, <1>4, <1>5 DEF Next, Abstract!Next

(* Main may take sort_timer_lst for a set of timers whose tick() expires   *)
(* exactly those that are due.                                             *)
THEOREM SetRefined == Spec => ImplementsTimerSet
<1>1. Init => Abstract!Pending = {}
  BY DEF Init, Abstract!Pending
<1> QED
  BY <1>1, StepIsSetStep, TimerInvHolds, PTL DEF Spec, ImplementsTimerSet, Abstract!Spec
=============================================================================
