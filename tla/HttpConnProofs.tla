--------------------------- MODULE HttpConnProofs ---------------------------
(***************************************************************************)
(* For any streams of messages, any sizes of the buffer, of the head and   *)
(* of the file, and any number of EAGAINs: the invariants of HttpConn.     *)
(*                                                                         *)
(* The input side needs what process_read() computes for every record it   *)
(* can meet.  Its loop, like the stream of a client, is a recursive        *)
(* function, so the first parts show that these functions are what their   *)
(* equations say, and how to reason along them; then come the lines the    *)
(* parser finds in a message, what a run of the loop gives, and the        *)
(* invariant that ties the record to the message it is at.                 *)
(***************************************************************************)
EXTENDS HttpConn, WellFoundedInduction, SequenceTheorems, TLAPS
-----------------------------------------------------------------------------
(* Numbers, and recursive functions.                                       *)

(* A set of natural numbers that is not empty has a least element. *)
LEMMA LeastNat ==
    ASSUME NEW T, T \subseteq Nat, T # {} PROVE \E n \in T : \A m \in T : n <= m
<1> DEFINE R == OpToRel(<, Nat)
<1>1. IsWellFoundedOn(R, Nat)
  BY NatLessThanWellFounded, Zenon
<1> HIDE DEF R
<1>2. PICK n \in T : \A m \in T : ~(<<m, n>> \in R)
  BY <1>1, WFMin
<1>3. \A m \in T : ~(m < n)
  BY <1>2 DEF R, OpToRel
<1> QED BY <1>3

(* Induction over sets of numbers. *)
LEMMA NatSetInduction ==
    ASSUME NEW S, 0 \in S, \A n \in S \cap Nat : n + 1 \in S PROVE Nat \subseteq S
<1> SUFFICES ASSUME Nat \ S # {} PROVE FALSE
  OBVIOUS
<1>1. PICK n \in Nat \ S : \A m \in Nat \ S : n <= m
  <2> DEFINE T == Nat \ S
  <2> HIDE DEF T
  <2>1. T \subseteq Nat /\ T # {}
    BY DEF T
  <2>2. \E n \in T : \A m \in T : n <= m
    BY <2>1, LeastNat
  <2> QED BY <2>2 DEF T
<1>2. n - 1 \in Nat /\ n - 1 \notin Nat \ S
  BY <1>1
<1> QED BY <1>2

(* The elements a walk along nx from m passes, up to its stop: the         *)
(* smallest set that holds m and the successors of those that are no stop. *)
Path(D, stop, nx, m) ==
    {x \in D : \A S \in SUBSET D :
                 m \in S /\ (\A y \in S \ stop : nx[y] \in S) => x \in S}

(* A walk passes its first element, and what the walk from the next does.  *)
LEMMA PathUnfolds ==
    ASSUME NEW D, NEW stop \in SUBSET D, NEW nx, \A m \in D \ stop : nx[m] \in D,
           NEW m \in D
    PROVE  Path(D, stop, nx, m) =
             IF m \in stop THEN {m} ELSE {m} \cup Path(D, stop, nx, nx[m])
<1>1. CASE m \in stop
  <2>1. {m} \in SUBSET D /\ \A y \in {m} \ stop : nx[y] \in {m}
    BY <1>1
  <2> QED BY <1>1, <2>1 DEF Path
<1>2. CASE m \notin stop
  <2> DEFINE P(n) == Path(D, stop, nx, n)
             T == {m} \cup P(nx[m])
  <2>1. nx[m] \in D
    BY <1>2
  <2>2. \A n \in D : /\ P(n) \in SUBSET D /\ n \in P(n)
                     /\ \A y \in P(n) \ stop : nx[y] \in P(n)
    BY DEF Path
  <2>3. T \in SUBSET D /\ m \in T /\ \A y \in T \ stop : nx[y] \in T
    BY <2>1, <2>2
  <2>4. P(m) \subseteq T
    BY <2>3 DEF Path
  <2>5. P(nx[m]) \subseteq P(m)
    <3>1. nx[m] \in P(m)
      BY <1>2, <2>2
    <3> QED BY <3>1, <2>2, <2>1 DEF Path
  <2> QED BY <1>2, <2>2, <2>4, <2>5
<1> QED BY <1>1, <1>2

(* A walk that does not stop stays in D. *)
Stays(D, stop, nx) == stop \in SUBSET D /\ \A m \in D \ stop : nx[m] \in D

(* The functions that have val at a stop, and elsewhere what the next has. *)
Walks(D, stop, nx, val) ==
    {w \in [D -> {val[m] : m \in stop} \cup {"none"}] :
       \A m \in D : w[m] = IF m \in stop THEN val[m] ELSE w[nx[m]]}

(* There is such a function, whether or not the walks end, so a recursive  *)
(* function of this form is what its equation says.                        *)
LEMMA WalkExists ==
    ASSUME NEW D, NEW stop, NEW nx, NEW val, Stays(D, stop, nx)
    PROVE  Walks(D, stop, nx, val) # {}
<1> DEFINE End(m) == Path(D, stop, nx, m) \cap stop
           V(m) == IF End(m) = {} THEN "none" ELSE val[CHOOSE x : x \in End(m)]
           w == [m \in D |-> V(m)]
<1> USE DEF Stays
<1>1. ASSUME NEW m \in D
      PROVE  V(m) = IF m \in stop THEN val[m] ELSE V(nx[m])
  <2>1. CASE m \in stop
    <3>1. End(m) = {m}
      BY <2>1, PathUnfolds
    <3> HIDE DEF End
    <3>2. (CHOOSE x : x \in End(m)) = m
      BY <3>1
    <3> QED BY <2>1, <3>1, <3>2
  <2>2. CASE m \notin stop
    <3>1. nx[m] \in D
      BY <2>2
    <3>2. End(m) = End(nx[m])
      BY <2>2, PathUnfolds
    <3> HIDE DEF End
    <3> QED BY <2>2, <3>2
  <2> QED BY <2>1, <2>2
<1>2. \A m \in D : V(m) \in {val[x] : x \in stop} \cup {"none"}
  <2>1. \A m \in D : End(m) # {} => (CHOOSE x : x \in End(m)) \in stop
    OBVIOUS
  <2> HIDE DEF End
  <2> QED BY <2>1
<1> HIDE DEF V
<1>3. \A m \in D \ stop : nx[m] \in D
  OBVIOUS
<1>4. \A m \in D : w[m] = V(m)
  OBVIOUS
<1>5. w \in [D -> {val[x] : x \in stop} \cup {"none"}]
  BY <1>2
<1> HIDE DEF w
<1>6. ASSUME NEW m \in D PROVE w[m] = IF m \in stop THEN val[m] ELSE w[nx[m]]
  <2>1. m \notin stop => w[nx[m]] = V(nx[m])
    BY <1>3, <1>4
  <2> QED BY <1>1, <1>4, <2>1
<1>7. w \in Walks(D, stop, nx, val)
  BY <1>5, <1>6 DEF Walks
<1> QED BY <1>7
(* Induction up to n.                                                      *)
LEMMA UpTo ==
    ASSUME NEW n \in Nat, NEW S, 0 \in S, \A i \in 1..n : i - 1 \in S => i \in S
    PROVE  0..n \subseteq S
<1> DEFINE T == {i \in Nat : i <= n => i \in S}
<1>1. 0 \in T
  OBVIOUS
<1>2. ASSUME NEW i \in T \cap Nat PROVE i + 1 \in T
  <2>1. i + 1 \in Nat /\ (i + 1) - 1 = i /\ (i + 1 <= n => i + 1 \in 1..n /\ i <= n)
    OBVIOUS
  <2> QED BY <1>2, <2>1
<1> HIDE DEF T
<1>3. Nat \subseteq T
  BY <1>1, <1>2, NatSetInduction
<1> QED BY <1>3 DEF T

(* g gives an element of D from each element of D, up to n.                *)
Continues(n, D, g) == \A i \in 1..n, v \in D : g[<<i, v>>] \in D

(* The functions that begin with z and go on with g.                       *)
Recursions(n, D, z, g) ==
    {f \in [0..n -> D] : f[0] = z /\ \A i \in 1..n : f[i] = g[<<i, f[i - 1]>>]}

(* There is one.                                                           *)
LEMMA RecursionExists ==
    ASSUME NEW n \in Nat, NEW D, NEW z \in D, NEW g, Continues(n, D, g)
    PROVE  Recursions(n, D, z, g) # {}
<1> DEFINE S == {k \in 0..n : Recursions(k, D, z, g) # {}}
<1>1. 0 \in S
  <2> DEFINE f == [i \in 0..0 |-> z]
  <2>1. f \in Recursions(0, D, z, g)
    BY DEF Recursions
  <2> QED BY <2>1
<1>2. ASSUME NEW k \in 1..n, k - 1 \in S PROVE k \in S
  <2>1. PICK f : f \in Recursions(k - 1, D, z, g)
    BY <1>2
  <2>2. /\ f \in [0..(k - 1) -> D] /\ f[0] = z
        /\ \A i \in 1..(k - 1) : f[i] = g[<<i, f[i - 1]>>]
    BY <2>1 DEF Recursions
  <2> DEFINE h == [i \in 0..k |-> IF i = k THEN g[<<k, f[k - 1]>>] ELSE f[i]]
  <2>3. f[k - 1] \in D
    BY <2>2
  <2>4. g[<<k, f[k - 1]>>] \in D
    BY <2>3 DEF Continues
  <2>5. \A i \in 0..k : i # k => i \in 0..(k - 1)
    OBVIOUS
  <2>6. h \in [0..k -> D]
    BY <2>2, <2>4, <2>5
  <2>7. h[0] = z
    BY <2>2
  <2>8. ASSUME NEW i \in 1..k PROVE h[i] = g[<<i, h[i - 1]>>]
    <3>1. i - 1 \in 0..k /\ i - 1 # k /\ i \in 0..k
      OBVIOUS
    <3>2. h[i - 1] = f[i - 1]
      BY <3>1
    <3>3. CASE i = k
      BY <3>1, <3>2, <3>3
    <3>4. CASE i # k
      BY <2>2, <3>1, <3>2, <3>4
    <3> QED BY <3>3, <3>4
  <2> HIDE DEF h
  <2>9. h \in Recursions(k, D, z, g)
    BY <2>6, <2>7, <2>8 DEF Recursions
  <2> QED BY <2>9
<1> HIDE DEF S
<1>3. 0..n \subseteq S
  BY <1>1, <1>2, UpTo
<1> QED BY <1>3 DEF S
-----------------------------------------------------------------------------
(* Sequences.                                                              *)

(* A sequence behind another one.                                          *)
LEMMA Appended ==
    ASSUME NEW S, NEW s \in Seq(S), NEW u \in Seq(S)
    PROVE  /\ s \o u \in Seq(S)
           /\ Len(s \o u) = Len(s) + Len(u)
           /\ \A i \in 1..Len(s) : (s \o u)[i] = s[i]
           /\ \A i \in 1..Len(u) : (s \o u)[Len(s) + i] = u[i]
<1>1. Len(s) \in Nat /\ Len(u) \in Nat
  OBVIOUS
<1>2. \A i \in 1..Len(u) : /\ Len(s) + i \in 1 .. Len(s) + Len(u)
                           /\ ~(Len(s) + i <= Len(s)) /\ (Len(s) + i) - Len(s) = i
  BY <1>1
<1>3. \A i \in 1..Len(s) : i \in 1 .. Len(s) + Len(u) /\ i <= Len(s)
  BY <1>1
<1>4. s \o u \in Seq(S) /\ Len(s \o u) = Len(s) + Len(u)
  BY ConcatProperties
<1>5. \A i \in 1 .. Len(s) + Len(u) : (s \o u)[i] =
                     IF i <= Len(s) THEN s[i] ELSE u[i - Len(s)]
  BY ConcatProperties
<1> QED BY <1>2, <1>3, <1>4, <1>5

(* A piece of one element.                                                 *)
LEMMA OneElement ==
    ASSUME NEW S, NEW s \in Seq(S), NEW k \in 1..Len(s)
    PROVE  SubSeq(s, k, k) = <<s[k]>>
<1>1. Len(SubSeq(s, k, k)) = 1 /\ SubSeq(s, k, k)[1] = s[k]
  OBVIOUS
<1>2. SubSeq(s, k, k) \in Seq(S)
  OBVIOUS
<1>3. <<s[k]>> \in Seq(S) /\ Len(<<s[k]>>) = 1 /\ <<s[k]>>[1] = s[k]
  OBVIOUS
<1> DEFINE u == SubSeq(s, k, k)
           v == <<s[k]>>
<1>4. \A i \in 1..Len(u) : u[i] = v[i]
  <2>1. \A i \in 1..Len(u) : i = 1
    BY <1>1
  <2> QED BY <1>1, <1>3, <2>1
<1> HIDE DEF u, v
<1>5. u = v
  BY <1>1, <1>2, <1>3, <1>4, SeqEqual DEF u, v
<1> QED BY <1>5 DEF u, v

(* A piece of b elements behind the first s ones.                          *)
LEMMA PieceIs ==
    ASSUME NEW S, NEW z \in Seq(S), NEW s \in Nat, NEW b \in Nat, s + b <= Len(z)
    PROVE  /\ SubSeq(z, s + 1, s + b) \in Seq(S) /\ Len(SubSeq(z, s + 1, s + b)) = b
           /\ \A k \in 1..b : SubSeq(z, s + 1, s + b)[k] = z[s + k]
<1>1. \A k \in (s + 1)..(s + b) : k \in 1..Len(z)
  OBVIOUS
<1>2. \A k \in 1..b : (s + 1) + k - 1 = s + k
  OBVIOUS
<1>3. (IF s + 1 <= s + b THEN ((s + b) - (s + 1)) + 1 ELSE 0) = b
  OBVIOUS
<1> DEFINE f == s + 1
           e == s + b
<1>4. f \in Int /\ e \in Int /\ \A i \in f..e : i \in 1..Len(z)
  BY <1>1
<1>5. \A i \in f..e : z[i] \in S
  BY <1>4
<1> HIDE DEF f, e
<1>6. /\ SubSeq(z, f, e) \in Seq(S)
      /\ Len(SubSeq(z, f, e)) = IF f <= e THEN (e - f) + 1 ELSE 0
      /\ \A k \in 1..(e - f + 1) : SubSeq(z, f, e)[k] = z[f + k - 1]
  BY <1>4, <1>5, SubSeqProperties
<1>7. \A k \in 1..b : k \in 1..(e - f + 1)
  BY DEF e, f
<1> QED BY <1>2, <1>3, <1>6, <1>7 DEF e, f
-----------------------------------------------------------------------------
(* Lines and turns of the loop in process_read().                          *)

(* A record whose indices are in order, within what was read. *)
Placed(c) ==
    /\ c \in Conn
    /\ c.m_start_line <= c.m_check_idx
    /\ c.m_check_idx <= m_read_idx(c)

(* A POST is marked for do_request(). *)
Marked(c) == c.m_method = "POST" => c.cgi = 1

(* Zeroing two bytes keeps a buffer a buffer of its length. *)
LEMMA ZeroedKeeps ==
    ASSUME NEW c \in Conn, NEW i, NEW j
    PROVE  /\ Zeroed(c, i, j) \in Seq(Bytes)
           /\ Len(Zeroed(c, i, j)) = Len(c.m_read_buf)
           /\ \A k \in 1..Len(c.m_read_buf) :
                Zeroed(c, i, j)[k] = IF k \in {i + 1, j + 1} THEN NUL ELSE c.m_read_buf[k]
<1>1. c.m_read_buf \in Seq(Bytes)
  BY DEF Conn
<1>2. \A k \in DOMAIN c.m_read_buf : c.m_read_buf[k] \in Bytes
  BY <1>1
<1>3. NUL \in Bytes
  BY DEF Bytes
<1> DEFINE s == c.m_read_buf
<1> HIDE DEF s
<1>4. Zeroed(c, i, j) = [k \in 1..Len(s) |-> IF k \in {i + 1, j + 1} THEN NUL ELSE s[k]]
  BY <1>1 DEF Zeroed, s
<1>5. /\ Len(s) \in Nat
      /\ \A k \in 1..Len(s) : (IF k \in {i + 1, j + 1} THEN NUL ELSE s[k]) \in Bytes
  BY <1>1, <1>2, <1>3 DEF s
<1> QED BY <1>4, <1>5 DEF s

(* Where the scan for the end of a line stops. *)
LEMMA LineEndIs ==
    ASSUME NEW c \in Conn
    PROVE  /\ LineEnd(c) \in Nat
           /\ LineEnd(c) <= m_read_idx(c)
           /\ LineEnd(c) # m_read_idx(c) =>
                /\ c.m_check_idx <= LineEnd(c)
                /\ Byte(c, LineEnd(c)) \in {CR, LF}
           /\ \A p \in c.m_check_idx..(m_read_idx(c) - 1) :
                p < LineEnd(c) => Byte(c, p) \notin {CR, LF}
           /\ \A p \in c.m_check_idx..(m_read_idx(c) - 1) :
                Byte(c, p) \in {CR, LF} => LineEnd(c) <= p
<1>1. c.m_check_idx \in Nat /\ m_read_idx(c) \in Nat
  BY DEF Conn, m_read_idx
<1> DEFINE ends == {i \in c.m_check_idx..(m_read_idx(c) - 1) : Byte(c, i) \in {CR, LF}}
<1>2. ends # {} => \E i \in ends : \A j \in ends : i <= j
  <2>1. ends \subseteq Nat
    BY <1>1
  <2> HIDE DEF ends
  <2> QED BY <2>1, LeastNat
<1>3. CASE ends = {}
  <2>1. LineEnd(c) = m_read_idx(c)
    BY <1>3 DEF LineEnd
  <2> QED BY <1>1, <1>3, <2>1
<1>4. CASE ends # {}
  <2>1. LineEnd(c) \in ends /\ \A j \in ends : LineEnd(c) <= j
    <3>1. LineEnd(c) = CHOOSE i \in ends : \A j \in ends : i <= j
      BY <1>4 DEF LineEnd
    <3> HIDE DEF ends
    <3> QED BY <1>2, <1>4, <3>1
  <2> QED BY <1>1, <2>1
<1> QED BY <1>3, <1>4

(* What parse_line() finds. *)
LEMMA ParseLineIs ==
    ASSUME NEW c \in Conn, NEW i, i = LineEnd(c)
    PROVE  \/ /\ i = m_read_idx(c) \/ (Byte(c, i) = CR /\ i + 1 = m_read_idx(c))
              /\ ParseLine(c) = <<"LINE_OPEN", [c EXCEPT !.m_check_idx = i]>>
           \/ /\ i # m_read_idx(c) /\ Byte(c, i) = CR
              /\ i + 1 # m_read_idx(c) /\ Byte(c, i + 1) = LF
              /\ ParseLine(c) = <<"LINE_OK", [c EXCEPT !.m_check_idx = i + 2,
                                              !.m_read_buf = Zeroed(c, i, i + 1)]>>
           \/ /\ i # m_read_idx(c) /\ Byte(c, i) = LF
              /\ i > 1 /\ Byte(c, i - 1) = CR
              /\ ParseLine(c) = <<"LINE_OK", [c EXCEPT !.m_check_idx = i + 1,
                                              !.m_read_buf = Zeroed(c, i - 1, i)]>>
           \/ /\ i # m_read_idx(c)
              /\ ~(Byte(c, i) = CR /\ i + 1 = m_read_idx(c))
              /\ ~(Byte(c, i) = CR /\ Byte(c, i + 1) = LF)
              /\ ParseLine(c) = <<"LINE_BAD", [c EXCEPT !.m_check_idx = i]>>
<1>1. i \in Nat /\ (i + 1) + 1 = i + 2
  BY LineEndIs
<1>2. CR # LF
  BY ParserAssumption
<1> DEFINE at(n) == [c EXCEPT !.m_check_idx = n]
           line(j, k) == [at(k + 1) EXCEPT !.m_read_buf = Zeroed(c, j, k)]
<1>3. /\ line(i, i + 1) = [c EXCEPT !.m_check_idx = i + 2,
                                    !.m_read_buf = Zeroed(c, i, i + 1)]
      /\ line(i - 1, i) = [c EXCEPT !.m_check_idx = i + 1,
                                    !.m_read_buf = Zeroed(c, i - 1, i)]
  BY <1>1
<1>4. ParseLine(c) =
        IF i = m_read_idx(c) \/ (Byte(c, i) = CR /\ i + 1 = m_read_idx(c))
          THEN <<"LINE_OPEN", at(i)>>
        ELSE IF Byte(c, i) = CR /\ Byte(c, i + 1) = LF
          THEN <<"LINE_OK", line(i, i + 1)>>
        ELSE IF Byte(c, i) = LF /\ i > 1 /\ Byte(c, i - 1) = CR
          THEN <<"LINE_OK", line(i - 1, i)>>
        ELSE <<"LINE_BAD", at(i)>>
  BY DEF ParseLine
<1> HIDE DEF line
<1> QED BY <1>1, <1>2, <1>3, <1>4

(* A turn of the loop: the line it looks at and what it makes of it,       *)
(* whether the loop ends there, with which value, or how it goes on.       *)
LineOf(x) == NextLine(x[1], x[2])

StepOf(x) == Handled(LineOf(x)[2])

Ends(x) == LineOf(x)[1] # "LINE_OK" \/ StepOf(x)[1] # "NO_REQUEST"

Value(x) == IF LineOf(x)[1] # "LINE_OK" THEN <<"NO_REQUEST", LineOf(x)[2]>>
                                        ELSE StepOf(x)

GoesOn(x) ==
    <<StepOf(x)[2],
      IF LineOf(x)[2].m_check_state = "CONTENT" THEN "LINE_OPEN" ELSE "LINE_OK">>

(* What looking for a line leaves alone: all but m_check_idx and the bytes *)
(* of the buffer, whose number stays.                                      *)
Looked(c, d) ==
    /\ d \in Conn
    /\ m_read_idx(d) = m_read_idx(c)
    /\ d.m_start_line = c.m_start_line
    /\ d.m_check_state = c.m_check_state
    /\ d.m_linger = c.m_linger
    /\ d.m_content_length = c.m_content_length
    /\ d.m_method = c.m_method /\ d.cgi = c.cgi

(* parse_line() moves m_check_idx, and may change the bytes.               *)
Moved(c, n, b) == [c EXCEPT !.m_check_idx = n, !.m_read_buf = b]

(* That is all that changes.                                               *)
LEMMA MovedLooked ==
    ASSUME NEW c \in Conn, NEW n \in Nat, NEW b \in Seq(Bytes), Len(b) = m_read_idx(c)
    PROVE  Looked(c, Moved(c, n, b)) /\ Moved(c, n, b).m_check_idx = n
           /\ Moved(c, n, b).m_read_buf = b
<1> DEFINE d == Moved(c, n, b)
<1>1. d \in Conn /\ d.m_check_idx = n /\ d.m_read_buf = b
  BY DEF Conn, Moved
<1>2. /\ d.m_start_line = c.m_start_line /\ d.m_check_state = c.m_check_state
      /\ d.m_linger = c.m_linger /\ d.m_content_length = c.m_content_length
      /\ d.m_method = c.m_method /\ d.cgi = c.cgi
  BY DEF Moved, Conn
<1> HIDE DEF d
<1>3. Looked(c, d)
  BY <1>1, <1>2 DEF Looked, m_read_idx
<1> QED BY <1>1, <1>3 DEF d

(* Within what was read, a record stays placed when m_check_idx moves on.  *)
LEMMA MovedPlaced ==
    ASSUME NEW c, NEW d, Looked(c, d), Placed(c), c.m_check_idx <= d.m_check_idx,
           d.m_check_idx <= m_read_idx(c)
    PROVE  Placed(d)
  BY DEF Looked, Placed, Conn

(* parse_line() moves m_check_idx on, within what was read.                *)
LEMMA ParseLineKeeps ==
    ASSUME NEW c \in Conn
    PROVE  /\ ParseLine(c)[1] \in {"LINE_OK", "LINE_OPEN", "LINE_BAD"}
           /\ Looked(c, ParseLine(c)[2])
           /\ Placed(c) => /\ Placed(ParseLine(c)[2])
                           /\ c.m_check_idx <= ParseLine(c)[2].m_check_idx
           /\ ParseLine(c)[1] = "LINE_OK" =>
                c.m_check_idx < ParseLine(c)[2].m_check_idx
<1> DEFINE i == LineEnd(c)
<1>1. /\ i \in Nat /\ i <= m_read_idx(c) /\ m_read_idx(c) \in Nat
      /\ c.m_check_idx \in Nat
      /\ i # m_read_idx(c) => c.m_check_idx <= i
      /\ c.m_check_idx <= m_read_idx(c) => c.m_check_idx <= i
  BY LineEndIs DEF m_read_idx, Conn
<1> HIDE DEF i
<1>2. ASSUME NEW st \in {"LINE_OPEN", "LINE_BAD"},
             ParseLine(c) = <<st, [c EXCEPT !.m_check_idx = i]>>
      PROVE  /\ ParseLine(c)[1] = st /\ Looked(c, ParseLine(c)[2])
             /\ Placed(c) => /\ Placed(ParseLine(c)[2])
                             /\ c.m_check_idx <= ParseLine(c)[2].m_check_idx
  <2> DEFINE d == [c EXCEPT !.m_check_idx = i]
  <2>1. d \in Conn /\ d.m_check_idx = i /\ Looked(c, d)
    BY <1>1 DEF Conn, Looked, m_read_idx
  <2> HIDE DEF d
  <2>2. ParseLine(c) = <<st, d>>
    BY <1>2 DEF d
  <2>3. Placed(c) => c.m_check_idx <= i
    BY <1>1 DEF Placed
  <2>4. Placed(c) => Placed(d) /\ c.m_check_idx <= d.m_check_idx
    BY <1>1, <2>1, <2>3, MovedPlaced
  <2> QED BY <2>1, <2>2, <2>4
<1>3. ASSUME NEW n \in Nat, NEW j, NEW k, i < n, n <= m_read_idx(c), i # m_read_idx(c),
             ParseLine(c) = <<"LINE_OK", [c EXCEPT !.m_check_idx = n,
                                              !.m_read_buf = Zeroed(c, j, k)]>>
      PROVE  /\ ParseLine(c)[1] = "LINE_OK" /\ Looked(c, ParseLine(c)[2])
             /\ Placed(c) => Placed(ParseLine(c)[2])
             /\ c.m_check_idx < ParseLine(c)[2].m_check_idx
  <2> DEFINE z == Zeroed(c, j, k)
             d == Moved(c, n, z)
  <2>1. z \in Seq(Bytes) /\ Len(z) = m_read_idx(c)
    BY ZeroedKeeps DEF m_read_idx
  <2>2. ParseLine(c) = <<"LINE_OK", d>>
    BY <1>3 DEF Moved
  <2> HIDE DEF z
  <2>3. Looked(c, d) /\ d.m_check_idx = n
    BY <2>1, MovedLooked
  <2> HIDE DEF d
  <2>4. Placed(c) => Placed(d)
    BY <1>1, <1>3, <2>3, MovedPlaced
  <2>5. ParseLine(c)[1] = "LINE_OK" /\ ParseLine(c)[2] = d
    BY <2>2
  <2>6. c.m_check_idx < d.m_check_idx
    BY <1>1, <1>3, <2>3
  <2> QED BY <2>3, <2>4, <2>5, <2>6
<1>4. i = LineEnd(c)
  BY DEF i
<1>5. \/ \E st \in {"LINE_OPEN", "LINE_BAD"} :
           ParseLine(c) = <<st, [c EXCEPT !.m_check_idx = i]>>
      \/ /\ i # m_read_idx(c)
         /\ \E n \in Nat, j, k \in Int :
              /\ i < n /\ n <= m_read_idx(c)
              /\ ParseLine(c) = <<"LINE_OK", [c EXCEPT !.m_check_idx = n,
                                                   !.m_read_buf = Zeroed(c, j, k)]>>
  <2>1. CASE ParseLine(c) = <<"LINE_OPEN", [c EXCEPT !.m_check_idx = i]>>
    BY <2>1
  <2>2. CASE ParseLine(c) = <<"LINE_BAD", [c EXCEPT !.m_check_idx = i]>>
    BY <2>2
  <2>3. CASE /\ i # m_read_idx(c) /\ i + 1 # m_read_idx(c)
             /\ ParseLine(c) = <<"LINE_OK", [c EXCEPT !.m_check_idx = i + 2,
                                              !.m_read_buf = Zeroed(c, i, i + 1)]>>
    <3>1. i + 2 \in Nat /\ i < i + 2 /\ i + 2 <= m_read_idx(c) /\ i \in Int /\ i + 1 \in Int
      BY <1>1, <2>3
    <3> QED BY <2>3, <3>1
  <2>4. CASE /\ i # m_read_idx(c)
             /\ ParseLine(c) = <<"LINE_OK", [c EXCEPT !.m_check_idx = i + 1,
                                              !.m_read_buf = Zeroed(c, i - 1, i)]>>
    <3>1. i + 1 \in Nat /\ i < i + 1 /\ i + 1 <= m_read_idx(c) /\ i \in Int /\ i - 1 \in Int
      BY <1>1, <2>4
    <3> QED BY <2>4, <3>1
  <2> QED BY <1>4, <2>1, <2>2, <2>3, <2>4, ParseLineIs
<1>6. /\ c.m_check_idx \in Nat
      /\ \A d \in Conn : c.m_check_idx < d.m_check_idx => c.m_check_idx <= d.m_check_idx
  BY DEF Conn
<1>7. \A d : Looked(c, d) => d \in Conn
  BY DEF Looked
<1> QED BY <1>2, <1>3, <1>5, <1>6, <1>7

(* So does the loop's test, which leaves a body where it is.               *)
LEMMA LineKeeps ==
    ASSUME NEW x \in Turns
    PROVE  /\ LineOf(x)[1] \in {"LINE_OK", "LINE_OPEN", "LINE_BAD"}
           /\ Looked(x[1], LineOf(x)[2])
           /\ Placed(x[1]) => /\ Placed(LineOf(x)[2])
                              /\ x[1].m_check_idx <= LineOf(x)[2].m_check_idx
           /\ LineOf(x)[1] = "LINE_OK" =>
                \/ x[1].m_check_idx < LineOf(x)[2].m_check_idx
                \/ /\ x[2] = "LINE_OK" /\ LineOf(x)[2] = x[1]
                   /\ x[1].m_check_state = "CONTENT"
<1>1. x[1] \in Conn /\ x[2] \in {"LINE_OK", "LINE_OPEN"}
  BY DEF Turns
<1>2. Looked(x[1], x[1]) /\ x[1].m_check_idx <= x[1].m_check_idx
  BY <1>1 DEF Looked, Conn
<1>3. CASE x[1].m_check_state = "CONTENT" /\ x[2] = "LINE_OK"
  BY <1>1, <1>2, <1>3 DEF LineOf, NextLine
<1>4. CASE ~(x[1].m_check_state = "CONTENT" /\ x[2] = "LINE_OK")
  BY <1>1, <1>4, ParseLineKeeps DEF LineOf, NextLine
<1> QED BY <1>3, <1>4

(* What handling a line leaves alone.                                      *)
LEMMA HandledKeeps ==
    ASSUME NEW c \in Conn
    PROVE  /\ Handled(c) \in {"NO_REQUEST", "BAD_REQUEST", "GET_REQUEST"} \X Conn
           /\ m_read_idx(Handled(c)[2]) = m_read_idx(c)
           /\ Handled(c)[2].m_check_idx = c.m_check_idx
           /\ Handled(c)[2].m_start_line = c.m_check_idx
           /\ Marked(c) => Marked(Handled(c)[2])
<1> DEFINE d == [c EXCEPT !.m_start_line = c.m_check_idx]
           text == Text(d, c.m_start_line)
           Good(r) == /\ r \in {"NO_REQUEST", "BAD_REQUEST", "GET_REQUEST"} \X Conn
                      /\ m_read_idx(r[2]) = m_read_idx(d)
                      /\ r[2].m_check_idx = d.m_check_idx
                      /\ r[2].m_start_line = d.m_start_line
                      /\ Marked(d) => Marked(r[2])
<1>1. /\ d \in Conn /\ m_read_idx(d) = m_read_idx(c) /\ d.m_check_idx = c.m_check_idx
      /\ d.m_start_line = c.m_check_idx /\ d.m_check_state = c.m_check_state
      /\ Marked(c) => Marked(d)
  BY DEF Conn, m_read_idx, Marked
<1>2. Handled(c) = CASE d.m_check_state = "REQUESTLINE" -> ParseRequestLine(d, text)
          [] d.m_check_state = "HEADER" -> ParseHeaders(d, text)
          [] d.m_check_state = "CONTENT" -> ParseContent(d, c.m_start_line)
  BY DEF Handled
<1> HIDE DEF d, text
<1>3. Good(ParseRequestLine(d, text))
  <2>1. CASE text = <<"GET">>
    BY <1>1, <2>1 DEF ParseRequestLine, Conn, m_read_idx, Marked
  <2>2. CASE text = <<"POST">>
    BY <1>1, <2>2 DEF ParseRequestLine, Conn, m_read_idx, Marked
  <2>3. CASE text \notin {<<"GET">>, <<"POST">>}
    BY <1>1, <2>3 DEF ParseRequestLine
  <2> QED BY <2>1, <2>2, <2>3
<1>4. Good(ParseHeaders(d, text))
  <2>1. CASE text = <<>>
    <3>1. <<>> # <<"keep-alive">> /\ <<>> # <<"Content-Length">>
      OBVIOUS
    <3>2. CASE d.m_content_length = 0
      BY <1>1, <2>1, <3>1, <3>2 DEF ParseHeaders
    <3>3. CASE d.m_content_length # 0
      BY <1>1, <2>1, <3>1, <3>3 DEF ParseHeaders, Conn, m_read_idx, Marked
    <3> QED BY <3>2, <3>3
  <2>2. CASE text = <<"keep-alive">>
    BY <1>1, <2>2 DEF ParseHeaders, Conn, m_read_idx, Marked
  <2>3. CASE text = <<"Content-Length">>
    BY <1>1, <2>3, ParserAssumption DEF ParseHeaders, Conn, m_read_idx, Marked
  <2>4. CASE text \notin {<<>>, <<"keep-alive">>, <<"Content-Length">>}
    BY <1>1, <2>4 DEF ParseHeaders
  <2> QED BY <2>1, <2>2, <2>3, <2>4
<1>5. Good(ParseContent(d, c.m_start_line))
  <2> DEFINE end == c.m_start_line + d.m_content_length
  <2>1. /\ Zeroed(d, end, end) \in Seq(Bytes)
        /\ Len(Zeroed(d, end, end)) = Len(d.m_read_buf)
        /\ c.m_start_line \in Nat
    BY <1>1, ZeroedKeeps DEF Conn
  <2>2. CASE m_read_idx(d) >= d.m_content_length + d.m_check_idx
    <3> DEFINE z == Zeroed(d, end, end)
               e == [d EXCEPT !.m_read_buf = z, !.m_string = c.m_start_line]
    <3>1. ParseContent(d, c.m_start_line) = <<"GET_REQUEST", e>>
      BY <2>2 DEF ParseContent
    <3> HIDE DEF z
    <3>2. e \in Conn /\ e.m_read_buf = z /\ e.m_check_idx = d.m_check_idx
          /\ e.m_start_line = d.m_start_line
          /\ e.m_method = d.m_method /\ e.cgi = d.cgi
      BY <1>1, <2>1 DEF Conn, z
    <3> HIDE DEF e
    <3> QED BY <2>1, <3>1, <3>2 DEF m_read_idx, z, Marked
  <2>3. CASE ~(m_read_idx(d) >= d.m_content_length + d.m_check_idx)
    BY <1>1, <2>3 DEF ParseContent
  <2> QED BY <2>2, <2>3
<1>6. d.m_check_state \in {"REQUESTLINE", "HEADER", "CONTENT"}
  BY <1>1 DEF Conn
<1>7. Good(Handled(c))
  BY <1>2, <1>3, <1>4, <1>5, <1>6
<1> QED BY <1>1, <1>7
-----------------------------------------------------------------------------
(* The loop is what its equation says, and ends.                           *)

(* A turn that goes on goes on from a turn.                                *)
LEMMA GoesOnToTurn ==
    ASSUME NEW x \in Turns
    PROVE  GoesOn(x) \in Turns
  BY LineKeeps, HandledKeeps DEF GoesOn, StepOf, Looked, Turns

(* The recursion of Loop.                                                  *)
LEMMA LoopIs ==
    \A x \in Turns : Loop[x] = IF Ends(x) THEN Value(x) ELSE Loop[GoesOn(x)]
<1> DEFINE E(f) == [turn \in Turns |->
                 LET line == NextLine(turn[1], turn[2])
                     step == Handled(line[2])
                 IN  IF line[1] # "LINE_OK" THEN <<"NO_REQUEST", line[2]>>
                     ELSE IF step[1] # "NO_REQUEST" THEN step
                     ELSE f[<<step[2], IF line[2].m_check_state = "CONTENT"
                                         THEN "LINE_OPEN" ELSE "LINE_OK">>]]
           stop == {x \in Turns : Ends(x)}
           nx == [x \in Turns |-> GoesOn(x)]
           val == [x \in Turns |-> Value(x)]
<1>1. ASSUME NEW f
      PROVE  E(f) = [x \in Turns |-> IF Ends(x) THEN Value(x) ELSE f[GoesOn(x)]]
  BY DEF Ends, Value, GoesOn, StepOf, LineOf
<1>2. \E f : f = E(f)
  <2>1. Stays(Turns, stop, nx)
    BY GoesOnToTurn DEF Stays
  <2>2. PICK f : f \in Walks(Turns, stop, nx, val)
    <3> HIDE DEF stop, nx, val
    <3> QED BY <2>1, WalkExists
  <2>3. f = [x \in Turns |-> f[x]]
    BY <2>2 DEF Walks
  <2>4. \A x \in Turns : f[x] = IF x \in stop THEN val[x] ELSE f[nx[x]]
    BY <2>2 DEF Walks
  <2>5. \A x \in Turns : f[x] = IF Ends(x) THEN Value(x) ELSE f[GoesOn(x)]
    BY <2>4
  <2> HIDE DEF E
  <2>6. f = [x \in Turns |-> IF Ends(x) THEN Value(x) ELSE f[GoesOn(x)]]
    BY <2>3, <2>5
  <2> QED BY <1>1, <2>6
<1>3. Loop = E(Loop)
  <2>1. Loop = CHOOSE f : f = E(f)
    BY DEF Loop
  <2> HIDE DEF E
  <2> QED BY <1>2, <2>1
<1> HIDE DEF E
<1>4. Loop = [x \in Turns |-> IF Ends(x) THEN Value(x) ELSE Loop[GoesOn(x)]]
  BY <1>1, <1>3
<1> QED BY <1>4

(* What the loop gets nearer to its end by: bytes to look at, and whether  *)
(* a body was looked at before.                                            *)
Left(x) == 2 * (m_read_idx(x[1]) - x[1].m_check_idx) + (IF x[2] = "LINE_OK" THEN 1 ELSE 0)

(* It is a number, and each turn makes it smaller.                         *)
LEMMA LeftFalls ==
    ASSUME NEW x \in Turns, Placed(x[1])
    PROVE  /\ Left(x) \in Nat
           /\ ~Ends(x) => Placed(GoesOn(x)[1]) /\ Left(GoesOn(x)) < Left(x)
<1>1. /\ m_read_idx(x[1]) \in Nat /\ x[1].m_check_idx \in Nat
      /\ x[1].m_check_idx <= m_read_idx(x[1])
  BY DEF Placed, Conn, m_read_idx
<1>2. Left(x) \in Nat
  BY <1>1 DEF Left
<1>3. ASSUME ~Ends(x)
      PROVE  Placed(GoesOn(x)[1]) /\ Left(GoesOn(x)) < Left(x)
  <2> DEFINE c == LineOf(x)[2]
             d == Handled(c)[2]
  <2>1. /\ Looked(x[1], c) /\ Placed(c)
        /\ \/ x[1].m_check_idx < c.m_check_idx
           \/ x[2] = "LINE_OK" /\ c = x[1] /\ x[1].m_check_state = "CONTENT"
    BY <1>3, LineKeeps DEF Ends
  <2>2. GoesOn(x)[1] = d
    BY DEF GoesOn, StepOf
  <2>3. GoesOn(x)[2] \in {"LINE_OK", "LINE_OPEN"}
        /\ (c.m_check_state = "CONTENT" => GoesOn(x)[2] = "LINE_OPEN")
    BY DEF GoesOn
  <2> HIDE DEF c
  <2>4. /\ d \in Conn /\ m_read_idx(d) = m_read_idx(c)
        /\ d.m_check_idx = c.m_check_idx /\ d.m_start_line = c.m_check_idx
    BY <2>1, HandledKeeps DEF Placed
  <2> HIDE DEF d
  <2>5. /\ c.m_check_idx \in Nat /\ c.m_check_idx <= m_read_idx(c)
        /\ m_read_idx(c) = m_read_idx(x[1])
    BY <2>1 DEF Placed, Looked, Conn
  <2>6. Placed(d)
    BY <2>4, <2>5 DEF Placed
  <2> QED BY <1>1, <2>1, <2>2, <2>3, <2>4, <2>5, <2>6 DEF Left
<1> QED BY <1>2, <1>3

(* From a turn in P the loop goes on within P, until it ends in Q.         *)
EndsIn(P, Q) ==
    /\ P \subseteq Turns
    /\ \A x \in P : Placed(x[1])
    /\ \A x \in P : IF Ends(x) THEN Value(x) \in Q ELSE GoesOn(x) \in P

(* Such a loop gives a value of Q.                                         *)
LEMMA LoopEnds ==
    ASSUME NEW P, NEW Q, EndsIn(P, Q), NEW x \in P
    PROVE  Loop[x] \in Q
<1> DEFINE S == {n \in Nat : \A y \in P : Left(y) <= n => Loop[y] \in Q}
<1> USE DEF EndsIn
<1>1. \A y \in P : /\ y \in Turns /\ Left(y) \in Nat
                   /\ ~Ends(y) => Left(GoesOn(y)) < Left(y)
  BY LeftFalls
<1>2. ASSUME NEW y \in P, NEW n \in Nat, Left(y) <= n,
             \A z \in P : Left(z) < n => Loop[z] \in Q
      PROVE  Loop[y] \in Q
  <2>1. CASE Ends(y)
    BY <1>1, <2>1, LoopIs
  <2>2. CASE ~Ends(y)
    <3>1. GoesOn(y) \in P
      BY <2>2
    <3>2. Left(GoesOn(y)) < n /\ Loop[y] = Loop[GoesOn(y)]
      BY <1>1, <1>2, <2>2, <3>1, LoopIs
    <3> QED BY <1>2, <3>1, <3>2
  <2> QED BY <2>1, <2>2
<1>3. 0 \in S
  <2>1. \A z \in P : ~(Left(z) < 0)
    BY <1>1
  <2> QED BY <1>2, <2>1
<1>4. ASSUME NEW n \in S \cap Nat PROVE n + 1 \in S
  <2>1. \A z \in P : Left(z) < n + 1 => Loop[z] \in Q
    BY <1>1, <1>4
  <2>2. n + 1 \in Nat
    BY <1>4
  <2> QED BY <1>2, <2>1, <2>2
<1> HIDE DEF S
<1>5. Nat \subseteq S
  BY <1>3, <1>4, NatSetInduction
<1>6. Left(x) \in S
  BY <1>1, <1>5
<1> QED BY <1>1, <1>6 DEF S

(* process_read() keeps the record in order, and its buffer's length.      *)
LEMMA ProcessReadKeeps ==
    ASSUME NEW c, Placed(c)
    PROVE  /\ ProcessRead(c)[1] \in {"NO_REQUEST", "BAD_REQUEST", "GET_REQUEST"}
           /\ Placed(ProcessRead(c)[2])
           /\ m_read_idx(ProcessRead(c)[2]) = m_read_idx(c)
           /\ Marked(c) => Marked(ProcessRead(c)[2])
<1> DEFINE D == {d \in Conn : /\ Placed(d) /\ m_read_idx(d) = m_read_idx(c)
                              /\ Marked(c) => Marked(d)}
           P == D \X {"LINE_OK", "LINE_OPEN"}
           Q == {"NO_REQUEST", "BAD_REQUEST", "GET_REQUEST"} \X D
<1>1. ASSUME NEW x \in P
      PROVE  IF Ends(x) THEN Value(x) \in Q ELSE GoesOn(x) \in P
  <2> DEFINE l == LineOf(x)[2]
             d == Handled(l)[2]
  <2>1. /\ x \in Turns /\ Placed(x[1]) /\ m_read_idx(x[1]) = m_read_idx(c)
        /\ Marked(c) => Marked(x[1])
    BY DEF Turns
  <2>2. /\ Placed(l) /\ l \in Conn /\ m_read_idx(l) = m_read_idx(c)
        /\ Marked(c) => Marked(l)
    BY <2>1, LineKeeps DEF Looked, Marked
  <2>3. Value(x) = IF LineOf(x)[1] # "LINE_OK" THEN <<"NO_REQUEST", l>>
                                                ELSE Handled(l)
    BY DEF Value, StepOf
  <2>4. GoesOn(x) \in {d} \X {"LINE_OK", "LINE_OPEN"}
    BY DEF GoesOn, StepOf
  <2> HIDE DEF l
  <2>5. /\ d \in Conn /\ m_read_idx(d) = m_read_idx(l)
        /\ d.m_check_idx = l.m_check_idx /\ d.m_start_line = l.m_check_idx
        /\ Handled(l) \in {"NO_REQUEST", "BAD_REQUEST", "GET_REQUEST"} \X Conn
        /\ Marked(l) => Marked(d)
    BY <2>2, HandledKeeps
  <2>6. d \in D /\ l \in D
    <3>1. l.m_check_idx \in Nat /\ l.m_check_idx <= m_read_idx(l)
      BY <2>2 DEF Placed, Conn
    <3> QED BY <2>2, <2>5, <3>1 DEF Placed
  <2>7. Handled(l) = <<Handled(l)[1], d>>
    BY <2>5
  <2> HIDE DEF d, D
  <2> QED BY <2>3, <2>4, <2>5, <2>6, <2>7
<1>2. EndsIn(P, Q)
  BY <1>1 DEF EndsIn, Turns
<1>3. <<c, "LINE_OK">> \in P
  BY DEF Placed
<1> HIDE DEF P, Q
<1>4. Loop[<<c, "LINE_OK">>] \in Q
  BY <1>2, <1>3, LoopEnds
<1> QED BY <1>4 DEF ProcessRead, Q
-----------------------------------------------------------------------------
(* The bytes of a message, and of a stream of them.                        *)

(* The text of line j of a message, where line 0 is the request line.      *)
LineText(m, j) == IF j = 0 THEN m.line ELSE m.headers[j]

(* The length of a message up to its body.                                 *)
HeadOf(m) == 3 * Len(m.headers) + 5

(* What is sent of a message is bytes.                                     *)
LEMMA MessageTypes ==
    ASSUME NEW m \in Messages
    PROVE  /\ m.line \in Words /\ m.headers \in Seq(Words \cup {CR})
           /\ m.body \in Nat /\ Len(m.headers) \in Nat
           /\ \A j \in 1..Len(m.headers) : m.headers[j] \in Words \cup {CR}
<1>1. /\ m.line \in {"GET", "POST", "garbage"} /\ m.headers \in Seq(Words \cup {CR})
      /\ m.body \in Nat
  BY DEF Messages
<1> QED BY <1>1 DEF Words

(* Where each byte of a message is.                                        *)
LEMMA EncodedIs ==
    ASSUME NEW m \in Messages
    PROVE  /\ Encoded(m) \in Seq(Bytes)
           /\ Len(Encoded(m)) = HeadOf(m) + m.body
           /\ HeadOf(m) \in Nat
           /\ \A j \in 0..Len(m.headers) :
                /\ Encoded(m)[3 * j + 1] = LineText(m, j)
                /\ Encoded(m)[3 * j + 2] = CR
                /\ Encoded(m)[3 * j + 3] = LF
           /\ Encoded(m)[HeadOf(m) - 1] = CR
           /\ Encoded(m)[HeadOf(m)] = LF
           /\ \A k \in 1..m.body : Encoded(m)[HeadOf(m) + k] = "body"
<1> DEFINE n == Len(m.headers)
           a == <<m.line, CR, LF>>
           h(i) == CASE i % 3 = 1 -> m.headers[(i + 2) \div 3]
                     [] i % 3 = 2 -> CR
                     [] OTHER -> LF
           b == [i \in 1..(3 * n) |-> h(i)]
           c == <<CR, LF>>
           d == [i \in 1..m.body |-> "body"]
<1>1. /\ m.line \in Words /\ n \in Nat /\ m.body \in Nat
      /\ \A j \in 1..n : m.headers[j] \in Words \cup {CR}
  BY MessageTypes
<1>2. Words \subseteq Bytes /\ CR \in Bytes /\ LF \in Bytes /\ "body" \in Bytes
  BY DEF Bytes, Words
<1>3. a \in Seq(Bytes) /\ Len(a) = 3 /\ a[1] = m.line /\ a[2] = CR /\ a[3] = LF
  BY <1>1, <1>2
<1>4. /\ b \in Seq(Bytes) /\ Len(b) = 3 * n
      /\ \A j \in 1..n : /\ b[3 * j - 2] = m.headers[j]
                         /\ b[3 * j - 1] = CR /\ b[3 * j] = LF
  <2>1. \A j \in 1..n : /\ h(3 * j - 2) = m.headers[j]
                        /\ h(3 * j - 1) = CR /\ h(3 * j) = LF
    <3> SUFFICES ASSUME NEW j \in 1..n
                 PROVE  /\ h(3 * j - 2) = m.headers[j]
                        /\ h(3 * j - 1) = CR /\ h(3 * j) = LF
      OBVIOUS
    <3>1. /\ (3 * j - 2) % 3 = 1 /\ ((3 * j - 2) + 2) \div 3 = j
          /\ (3 * j - 1) % 3 = 2 /\ (3 * j) % 3 = 0
      BY <1>1
    <3> QED BY <3>1
  <2>2. \A i \in 1..(3 * n) : h(i) \in Bytes
    <3> SUFFICES ASSUME NEW i \in 1..(3 * n) PROVE h(i) \in Bytes
      OBVIOUS
    <3>1. i % 3 = 1 => (i + 2) \div 3 \in 1..n
      BY <1>1
    <3> QED BY <1>1, <1>2, <3>1
  <2> HIDE DEF h
  <2>3. b \in Seq(Bytes) /\ Len(b) = 3 * n
    BY <1>1, <2>2
  <2>4. \A i \in 1..(3 * n) : b[i] = h(i)
    OBVIOUS
  <2> HIDE DEF b
  <2>5. \A j \in 1..n : {3 * j - 2, 3 * j - 1, 3 * j} \subseteq 1..(3 * n)
    BY <1>1
  <2> QED BY <2>1, <2>3, <2>4, <2>5
<1>5. c \in Seq(Bytes) /\ Len(c) = 2 /\ c[1] = CR /\ c[2] = LF
  BY <1>2
<1>6. d \in Seq(Bytes) /\ Len(d) = m.body /\ \A k \in 1..m.body : d[k] = "body"
  BY <1>1, <1>2
<1>7. Encoded(m) = ((a \o b) \o c) \o d
  BY DEF Encoded
<1>8. HeadOf(m) = 3 * n + 5
  BY DEF HeadOf
<1> HIDE DEF a, b, c, d, n
<1>9. a \in Seq(Bytes) /\ b \in Seq(Bytes) /\ c \in Seq(Bytes) /\ d \in Seq(Bytes)
  BY <1>3, <1>4, <1>5, <1>6
<1>10. /\ a \o b \in Seq(Bytes) /\ Len(a \o b) = Len(a) + Len(b)
       /\ \A i \in 1..Len(a) : (a \o b)[i] = a[i]
       /\ \A i \in 1..Len(b) : (a \o b)[Len(a) + i] = b[i]
  BY <1>9, Appended
<1> DEFINE ab == a \o b
<1> HIDE DEF ab
<1>11. ab \in Seq(Bytes)
  BY <1>10 DEF ab
<1>12. /\ ab \o c \in Seq(Bytes) /\ Len(ab \o c) = Len(ab) + Len(c)
       /\ \A i \in 1..Len(ab) : (ab \o c)[i] = ab[i]
       /\ \A i \in 1..Len(c) : (ab \o c)[Len(ab) + i] = c[i]
  BY <1>9, <1>11, Appended
<1> DEFINE abc == ab \o c
<1> HIDE DEF abc
<1>13. abc \in Seq(Bytes)
  BY <1>12 DEF abc
<1>14. /\ abc \o d \in Seq(Bytes) /\ Len(abc \o d) = Len(abc) + Len(d)
       /\ \A i \in 1..Len(abc) : (abc \o d)[i] = abc[i]
       /\ \A i \in 1..Len(d) : (abc \o d)[Len(abc) + i] = d[i]
  BY <1>9, <1>13, Appended
<1> DEFINE e == Encoded(m)
<1> HIDE DEF e
<1>15. /\ Len(a) = 3 /\ Len(ab) = 3 * n + 3 /\ Len(abc) = 3 * n + 5
       /\ e \in Seq(Bytes) /\ Len(e) = 3 * n + 5 + m.body
       /\ \A i \in 1..3 : e[i] = a[i]
       /\ \A i \in 1..(3 * n) : e[3 + i] = b[i]
       /\ \A i \in 1..2 : e[3 * n + 3 + i] = c[i]
       /\ \A i \in 1..m.body : e[3 * n + 5 + i] = d[i]
  <2>1. e = abc \o d /\ abc = ab \o c /\ ab = a \o b
    BY <1>7 DEF e, abc, ab
  <2>2. Len(a) = 3 /\ Len(ab) = 3 * n + 3 /\ Len(abc) = 3 * n + 5
    BY <1>1, <1>3, <1>4, <1>5, <1>10, <1>12, <2>1
  <2> DEFINE N == 3 * n
  <2>3. N \in Nat /\ Len(b) = N /\ Len(ab) = N + 3 /\ Len(abc) = N + 5
    BY <1>1, <1>4, <2>2
  <2> HIDE DEF N
  <2>4. \A i \in 1..(N + 3) : e[i] = ab[i]
    <3> SUFFICES ASSUME NEW i \in 1..(N + 3) PROVE e[i] = ab[i]
      OBVIOUS
    <3>1. i \in 1..Len(ab) /\ i \in 1..Len(abc)
      BY <2>3
    <3>2. (ab \o c)[i] = ab[i] /\ (abc \o d)[i] = abc[i]
      BY <1>12, <1>14, <3>1
    <3> QED BY <2>1, <3>2
  <2>5. \A i \in 1..3 : e[i] = a[i]
    <3> SUFFICES ASSUME NEW i \in 1..3 PROVE e[i] = a[i]
      OBVIOUS
    <3>1. i \in 1..Len(a) /\ i \in 1..(N + 3)
      BY <2>2, <2>3
    <3> QED BY <1>10, <2>1, <2>4, <3>1
  <2>6. \A i \in 1..N : e[3 + i] = b[i]
    <3> SUFFICES ASSUME NEW i \in 1..N PROVE e[3 + i] = b[i]
      OBVIOUS
    <3>1. i \in 1..Len(b) /\ 3 + i \in 1..(N + 3)
      BY <2>3
    <3>2. (a \o b)[3 + i] = b[i]
      BY <1>10, <2>2, <3>1
    <3> QED BY <2>1, <2>4, <3>1, <3>2
  <2>7. /\ \A i \in 1..3 : e[i] = a[i]
        /\ \A i \in 1..(3 * n) : e[3 + i] = b[i]
    BY <2>5, <2>6 DEF N
  <2>8. \A i \in 1..2 : e[3 * n + 3 + i] = c[i]
    <3> SUFFICES ASSUME NEW i \in 1..2 PROVE e[N + 3 + i] = c[i]
      BY DEF N
    <3>1. i \in 1..Len(c) /\ Len(ab) + i = N + 3 + i /\ N + 3 + i \in 1..Len(abc)
      BY <1>5, <2>3
    <3>2. (ab \o c)[N + 3 + i] = c[i]
      BY <1>12, <3>1
    <3>3. (abc \o d)[N + 3 + i] = abc[N + 3 + i]
      BY <1>14, <3>1
    <3> QED BY <2>1, <3>2, <3>3
  <2>9. \A i \in 1..m.body : e[3 * n + 5 + i] = d[i]
    BY <1>6, <1>14, <2>1, <2>2
  <2>10. e \in Seq(Bytes) /\ Len(e) = 3 * n + 5 + m.body
    BY <1>6, <1>14, <2>1, <2>2
  <2> QED BY <2>2, <2>7, <2>8, <2>9, <2>10
<1>16. ASSUME NEW j \in 0..n
       PROVE  e[3 * j + 1] = LineText(m, j) /\ e[3 * j + 2] = CR /\ e[3 * j + 3] = LF
  <2>1. CASE j = 0
    BY <1>3, <1>15, <2>1 DEF LineText
  <2>2. CASE j # 0
    <3>1. /\ j \in 1..n /\ {3 * j - 2, 3 * j - 1, 3 * j} \subseteq 1..(3 * n)
          /\ 3 + (3 * j - 2) = 3 * j + 1
          /\ 3 + (3 * j - 1) = 3 * j + 2 /\ 3 + 3 * j = 3 * j + 3
      BY <1>1, <2>2
    <3>2. e[3 * j + 1] = b[3 * j - 2] /\ e[3 * j + 2] = b[3 * j - 1]
          /\ e[3 * j + 3] = b[3 * j]
      BY <1>15, <3>1
    <3> QED BY <1>4, <2>2, <3>1, <3>2 DEF LineText
  <2> QED BY <2>1, <2>2
<1>17. e[3 * n + 4] = CR /\ e[3 * n + 5] = LF
  <2>1. 3 * n + 3 + 1 = 3 * n + 4 /\ 3 * n + 3 + 2 = 3 * n + 5
    BY <1>1
  <2> QED BY <1>5, <1>15, <2>1
<1>18. \A k \in 1..m.body : e[3 * n + 5 + k] = "body"
  BY <1>6, <1>15
<1>19. (3 * n + 5) - 1 = 3 * n + 4 /\ 3 * n + 5 \in Nat
  BY <1>1
<1> QED BY <1>8, <1>15, <1>16, <1>17, <1>18, <1>19 DEF n, e

(* What messages ms amount to, from one message to the next.               *)
PartsOf(ms) ==
    CHOOSE bytes : bytes = [i \in 0..Len(ms) |->
                              IF i = 0 THEN <<>> ELSE bytes[i - 1] \o Encoded(ms[i])]

(* The recursive function in Stream.                                       *)
LEMMA PartsAre ==
    ASSUME NEW ms \in Seq(Messages)
    PROVE  /\ PartsOf(ms)[0] = <<>>
           /\ \A i \in 1..Len(ms) : PartsOf(ms)[i] = PartsOf(ms)[i - 1] \o Encoded(ms[i])
           /\ \A i \in 0..Len(ms) : PartsOf(ms)[i] \in Seq(Bytes)
<1> DEFINE n == Len(ms)
           G(f) == [i \in 0..n |-> IF i = 0 THEN <<>> ELSE f[i - 1] \o Encoded(ms[i])]
           g == [p \in (1..n) \X Seq(Bytes) |-> p[2] \o Encoded(ms[p[1]])]
<1>1. n \in Nat /\ \A i \in 1..n : Encoded(ms[i]) \in Seq(Bytes)
  BY EncodedIs
<1>2. Continues(n, Seq(Bytes), g)
  <2> SUFFICES ASSUME NEW i \in 1..n, NEW v \in Seq(Bytes) PROVE g[<<i, v>>] \in Seq(Bytes)
    BY DEF Continues
  <2>1. Encoded(ms[i]) \in Seq(Bytes)
    BY <1>1
  <2>2. v \o Encoded(ms[i]) \in Seq(Bytes)
    BY <2>1
  <2> QED BY <2>2
<1>3. \E f : f = G(f)
  <2>1. <<>> \in Seq(Bytes)
    OBVIOUS
  <2>2. PICK f : f \in Recursions(n, Seq(Bytes), <<>>, g)
    <3> HIDE DEF g, n
    <3> QED BY <1>1, <1>2, <2>1, RecursionExists
  <2>3. /\ f \in [0..n -> Seq(Bytes)] /\ f[0] = <<>>
        /\ \A i \in 1..n : f[i] = g[<<i, f[i - 1]>>]
    BY <2>2 DEF Recursions
  <2>4. \A i \in 1..n : i - 1 \in 0..n /\ i \in 0..n
    BY <1>1
  <2>5. \A i \in 1..n : f[i - 1] \in Seq(Bytes)
    BY <2>3, <2>4
  <2>6. \A i \in 1..n : f[i] = f[i - 1] \o Encoded(ms[i])
    BY <2>3, <2>5
  <2>7. \A i \in 0..n : f[i] = IF i = 0 THEN <<>> ELSE f[i - 1] \o Encoded(ms[i])
    <3>1. \A i \in 0..n : i # 0 => i \in 1..n
      BY <1>1
    <3> QED BY <2>3, <2>6, <3>1
  <2>8. f = [i \in 0..n |-> f[i]]
    BY <2>3
  <2> QED BY <2>7, <2>8
<1> DEFINE b == PartsOf(ms)
<1>4. b = G(b)
  BY <1>3 DEF PartsOf
<1> HIDE DEF b
<1>5. b[0] = <<>> /\ \A i \in 1..n : b[i] = b[i - 1] \o Encoded(ms[i])
  <2>1. \A i \in 0..n : b[i] = IF i = 0 THEN <<>> ELSE b[i - 1] \o Encoded(ms[i])
    BY <1>4
  <2>2. 0 \in 0..n /\ \A i \in 1..n : i \in 0..n /\ i # 0
    BY <1>1
  <2> QED BY <2>1, <2>2
<1>6. \A i \in 0..n : b[i] \in Seq(Bytes)
  <2> DEFINE S == {i \in 0..n : b[i] \in Seq(Bytes)}
  <2>1. 0 \in S
    <3>1. b[0] \in Seq(Bytes)
      BY <1>5
    <3> QED BY <1>1, <3>1
  <2>2. ASSUME NEW i \in 1..n, i - 1 \in S PROVE i \in S
    <3>1. b[i - 1] \in Seq(Bytes) /\ Encoded(ms[i]) \in Seq(Bytes)
      BY <1>1, <2>2
    <3>2. b[i - 1] \o Encoded(ms[i]) \in Seq(Bytes)
      BY <3>1
    <3>3. i \in 0..n
      BY <1>1
    <3> QED BY <1>5, <3>2, <3>3
  <2> HIDE DEF S
  <2>3. 0..n \subseteq S
    BY <1>1, <2>1, <2>2, UpTo
  <2> QED BY <2>3 DEF S
<1> QED BY <1>5, <1>6 DEF b

(* b has the sequences u one behind the other, from none to n of them.     *)
Chain(n, b, u) ==
    /\ b[0] = <<>>
    /\ \A j \in 0..n : b[j] \in Seq(Bytes)
    /\ \A j \in 1..n : u[j] \in Seq(Bytes) /\ b[j] = b[j - 1] \o u[j]

(* The length of sequence j of s, and its element k.                       *)
Size(s, j) == Len(s[j])

At(s, j, k) == s[j][k]

(* One link of the chain.                                                  *)
LEMMA ChainLink ==
    ASSUME NEW n \in Nat, NEW b, NEW u, Chain(n, b, u), NEW j \in 1..n
    PROVE  /\ j - 1 \in 0..n /\ j \in 0..n
           /\ Size(b, j - 1) \in Nat /\ Size(u, j) \in Nat
           /\ Size(b, j) = Size(b, j - 1) + Size(u, j)
           /\ \A k \in 1..Size(b, j - 1) : At(b, j, k) = At(b, j - 1, k)
           /\ \A k \in 1..Size(u, j) : At(b, j, Size(b, j - 1) + k) = At(u, j, k)
<1>1. j - 1 \in 0..n /\ j \in 0..n
  OBVIOUS
<1> DEFINE x == b[j - 1]
           y == u[j]
           z == b[j]
<1>2. x \in Seq(Bytes) /\ y \in Seq(Bytes) /\ z = x \o y
  BY <1>1 DEF Chain
<1>3. /\ Size(b, j - 1) = Len(x) /\ Size(u, j) = Len(y) /\ Size(b, j) = Len(z)
      /\ \A k : /\ At(b, j - 1, k) = x[k] /\ At(u, j, k) = y[k]
               /\ At(b, j, k) = z[k]
  BY DEF Size, At
<1> HIDE DEF x, y, z
<1>4. /\ x \o y \in Seq(Bytes) /\ Len(x \o y) = Len(x) + Len(y)
      /\ \A k \in 1..Len(x) : (x \o y)[k] = x[k]
      /\ \A k \in 1..Len(y) : (x \o y)[Len(x) + k] = y[k]
  BY <1>2, Appended
<1>5. /\ Len(z) = Len(x) + Len(y)
      /\ \A k \in 1..Len(x) : z[k] = x[k]
      /\ \A k \in 1..Len(y) : z[Len(x) + k] = y[k]
  BY <1>2, <1>4
<1>6. Len(x) \in Nat /\ Len(y) \in Nat
  BY <1>2
<1> QED BY <1>1, <1>3, <1>5, <1>6

(* Sequence i of a chain is in the last one, behind those before it.       *)
LEMMA ChainHas ==
    ASSUME NEW n \in Nat, NEW b, NEW u, Chain(n, b, u), NEW i \in 1..n
    PROVE  /\ Size(b, i - 1) + Size(u, i) <= Size(b, n)
           /\ \A k \in 1..Size(u, i) : At(b, n, Size(b, i - 1) + k) = At(u, i, k)
<1> DEFINE s == Size(b, i - 1)
           m == Size(u, i)
           Has(j) == s + m <= Size(b, j) /\ \A k \in 1..m : At(b, j, s + k) = At(u, i, k)
           S == {j \in 0..n : i <= j => Has(j)}
<1>1. 0 \in S
  OBVIOUS
<1>2. s \in Nat /\ m \in Nat
  BY ChainLink
<1>3. Has(i)
  <2>1. Size(b, i) = s + m
    BY ChainLink
  <2> QED BY <1>2, <2>1, ChainLink
<1>4. ASSUME NEW j \in 1..n, Has(j - 1) PROVE Has(j)
  <2>1. /\ Size(b, j - 1) \in Nat /\ Size(u, j) \in Nat
        /\ Size(b, j) = Size(b, j - 1) + Size(u, j)
        /\ \A k \in 1..Size(b, j - 1) : At(b, j, k) = At(b, j - 1, k)
    BY ChainLink
  <2> HIDE DEF s, m
  <2>2. \A k \in 1..m : s + k \in 1..Size(b, j - 1)
    BY <1>2, <1>4, <2>1
  <2>3. s + m <= Size(b, j)
    BY <1>2, <1>4, <2>1
  <2> QED BY <1>4, <2>1, <2>2, <2>3
<1> HIDE DEF Has
<1>5. ASSUME NEW j \in 1..n, j - 1 \in S PROVE j \in S
  <2>1. j \in 0..n /\ (i <= j => i = j \/ i <= j - 1)
    OBVIOUS
  <2> QED BY <1>3, <1>4, <1>5, <2>1
<1> HIDE DEF S
<1>6. 0..n \subseteq S
  BY <1>1, <1>5, UpTo
<1>7. n \in S
  BY <1>6
<1>8. Has(n)
  BY <1>7 DEF S
<1> QED BY <1>8 DEF Has

(* A length that adds up along a chain is that of its sequences.           *)
LEMMA ChainLength ==
    ASSUME NEW n \in Nat, NEW b, NEW u, Chain(n, b, u), NEW f, f[0] = 0,
           \A j \in 1..n : f[j] = f[j - 1] + Size(u, j)
    PROVE  f[n] = Size(b, n)
<1> DEFINE S == {j \in 0..n : f[j] = Size(b, j)}
<1>1. 0 \in S
  <2>1. Size(b, 0) = 0
    BY DEF Chain, Size
  <2> QED BY <2>1
<1>2. ASSUME NEW j \in 1..n, j - 1 \in S PROVE j \in S
  <2>1. Size(b, j) = Size(b, j - 1) + Size(u, j) /\ j \in 0..n
    BY ChainLink
  <2>2. f[j] = f[j - 1] + Size(u, j) /\ f[j - 1] = Size(b, j - 1)
    BY <1>2
  <2> QED BY <2>1, <2>2
<1> HIDE DEF S
<1>3. 0..n \subseteq S
  BY <1>1, <1>2, UpTo
<1>4. n \in S
  BY <1>3
<1> QED BY <1>4 DEF S

(* The messages of a client, as they are sent.                             *)
Sent(ms) == [j \in 1..Len(ms) |-> Encoded(ms[j])]

(* What they amount to is a chain.                                         *)
LEMMA PartsChain ==
    ASSUME NEW ms \in Seq(Messages)
    PROVE  /\ Len(ms) \in Nat /\ Chain(Len(ms), PartsOf(ms), Sent(ms))
           /\ \A j \in 1..Len(ms) : Sent(ms)[j] = Encoded(ms[j])
<1> DEFINE u == Sent(ms)
           b == PartsOf(ms)
           n == Len(ms)
<1>1. \A j \in 1..n : Encoded(ms[j]) \in Seq(Bytes)
  BY EncodedIs
<1>2. \A j \in 1..n : u[j] = Encoded(ms[j])
  BY DEF Sent
<1>3. /\ b[0] = <<>>
      /\ \A j \in 1..n : b[j] = b[j - 1] \o Encoded(ms[j])
      /\ \A j \in 0..n : b[j] \in Seq(Bytes)
  BY PartsAre
<1> HIDE DEF u, b
<1>4. \A j \in 1..n : b[j] = b[j - 1] \o u[j]
  BY <1>2, <1>3
<1>5. \A j \in 1..n : u[j] \in Seq(Bytes)
  BY <1>1, <1>2
<1>6. Chain(n, b, u)
  BY <1>3, <1>4, <1>5 DEF Chain
<1>7. n \in Nat
  OBVIOUS
<1> QED BY <1>2, <1>6, <1>7 DEF u, b

(* The stream of messages ms, and where message i of them begins.          *)
StreamOf(ms) == PartsOf(ms)[Len(ms)]

StartIn(ms, i) == Size(PartsOf(ms), i - 1)

(* Stream, before a step and after it.                                     *)
LEMMA StreamIs == Stream = StreamOf(msgs) /\ Stream' = StreamOf(msgs')
  BY DEF Stream, StreamOf, PartsOf

(* The recursive function in StartOf adds up the lengths.                  *)
LEMMA LengthsAre ==
    ASSUME NEW ms \in Seq(Messages), NEW i \in 1..Len(ms)
    PROVE  StartIn(ms, i) =
             (CHOOSE length : length = [j \in 0..(i - 1) |->
                IF j = 0 THEN 0 ELSE length[j - 1] + Len(Encoded(ms[j]))])[i - 1]
<1> DEFINE n == i - 1
           G(f) == [j \in 0..n |-> IF j = 0 THEN 0 ELSE f[j - 1] + Len(Encoded(ms[j]))]
           length == CHOOSE f : f = G(f)
           b == PartsOf(ms)
           u == Sent(ms)
           l == [j \in 0..n |-> Size(b, j)]
<1>1. /\ n \in Nat /\ Len(ms) \in Nat /\ \A j \in 1..n : j \in 1..Len(ms)
      /\ \A j \in 0..n : j \in 0..Len(ms)
      /\ \A j \in 1..n : j - 1 \in 0..n /\ j \in 0..n /\ j # 0
      /\ \A j \in 0..n : j # 0 => j \in 1..n
      /\ 0 \in 0..n /\ n \in 0..n
  OBVIOUS
<1>2. Chain(n, b, u)
  <2>1. Chain(Len(ms), b, u)
    BY PartsChain
  <2> HIDE DEF b, u
  <2> QED BY <1>1, <2>1 DEF Chain
<1>3. \A j \in 1..n : u[j] = Encoded(ms[j])
  BY <1>1 DEF Sent
<1> HIDE DEF b, u, n
<1>4. \A j \in 1..n : Size(u, j) = Len(Encoded(ms[j]))
  BY <1>3 DEF Size
<1>5. l = G(l)
  <2>1. \A j \in 1..n : Size(b, j) = Size(b, j - 1) + Len(Encoded(ms[j]))
    BY <1>1, <1>2, <1>4, ChainLink
  <2>2. Size(b, 0) = 0
    BY <1>2 DEF Chain, Size
  <2>3. \A j \in 0..n : Size(b, j) = IF j = 0 THEN 0 ELSE l[j - 1] + Len(Encoded(ms[j]))
    BY <1>1, <2>1, <2>2
  <2> QED BY <2>3
<1>6. length = G(length)
  <2> HIDE DEF l, G
  <2> QED BY <1>5
<1> HIDE DEF length
<1>7. length[0] = 0 /\ \A j \in 1..n : length[j] = length[j - 1] + Size(u, j)
  <2>1. \A j \in 0..n : length[j] = IF j = 0 THEN 0 ELSE length[j - 1] + Len(Encoded(ms[j]))
    BY <1>6
  <2>2. length[0] = 0
    BY <1>1, <2>1
  <2>3. \A j \in 1..n : length[j] = length[j - 1] + Len(Encoded(ms[j]))
    BY <1>1, <2>1
  <2> QED BY <1>4, <2>2, <2>3
<1>8. length[n] = Size(b, n)
  BY <1>1, <1>2, <1>7, ChainLength
<1> QED BY <1>8 DEF length, StartIn, b, n

(* StartOf, before a step and after it.                                    *)
LEMMA StartIs ==
    ASSUME NEW i
    PROVE  /\ msgs \in Seq(Messages) /\ i \in 1..Len(msgs)
                => StartOf(i) = StartIn(msgs, i)
           /\ msgs' \in Seq(Messages) /\ i \in 1..Len(msgs')
                => StartOf(i)' = StartIn(msgs', i)
  BY LengthsAre DEF StartOf

(* So a message is in the stream where it starts.                          *)
LEMMA StreamHas ==
    ASSUME NEW ms \in Seq(Messages), NEW i \in 1..Len(ms)
    PROVE  /\ StreamOf(ms) \in Seq(Bytes) /\ StartIn(ms, i) \in Nat
           /\ StartIn(ms, i) + Len(Encoded(ms[i])) <= Len(StreamOf(ms))
           /\ \A k \in 1..Len(Encoded(ms[i])) :
                StreamOf(ms)[StartIn(ms, i) + k] = Encoded(ms[i])[k]
<1> DEFINE n == Len(ms)
           b == PartsOf(ms)
           u == Sent(ms)
<1>1. n \in Nat /\ Chain(n, b, u) /\ u[i] = Encoded(ms[i])
  BY PartsChain
<1> DEFINE e == Encoded(ms[i])
<1> HIDE DEF b, u, n
<1>2. i \in 1..n
  BY DEF n
<1>3. /\ Size(b, i - 1) + Size(u, i) <= Size(b, n)
      /\ \A k \in 1..Size(u, i) : At(b, n, Size(b, i - 1) + k) = At(u, i, k)
      /\ Size(b, i - 1) \in Nat
  BY <1>1, <1>2, ChainHas, ChainLink
<1>4. b[n] \in Seq(Bytes)
  <2>1. n \in 0..n
    BY <1>1
  <2> QED BY <1>1, <2>1 DEF Chain
<1>5. /\ StreamOf(ms) = b[n] /\ StartIn(ms, i) = Size(b, i - 1)
  BY DEF StreamOf, StartIn, b, n
<1>6. /\ Size(u, i) = Len(e) /\ Size(b, n) = Len(b[n])
      /\ \A k : At(b, n, k) = b[n][k] /\ At(u, i, k) = e[k]
  BY <1>1 DEF Size, At
<1> HIDE DEF e
<1> QED BY <1>3, <1>4, <1>5, <1>6 DEF e

(* The stream is bytes, if there are no messages as well.                  *)
LEMMA StreamType ==
    ASSUME NEW ms \in Seq(Messages)
    PROVE  StreamOf(ms) \in Seq(Bytes)
<1>1. Len(ms) \in 0..Len(ms)
  OBVIOUS
<1> QED BY <1>1, PartsAre DEF StreamOf
-----------------------------------------------------------------------------
(* Types.                                                                  *)

(* The fields of the parser: within the buffer, which has room, and with a *)
(* POST marked.                                                            *)
ConnTyped == Placed(conn) /\ m_read_idx(conn) < READ_BUFFER_SIZE /\ Marked(conn)

(* What the client sent and what of it was read.                           *)
InputTyped ==
    /\ msgs \in Seq(Messages)
    /\ begin \in Nat /\ got \in Nat /\ begin <= got /\ got <= Len(Stream)

Vec == [base : {"head", "file"}, at : Int, iov_len : Nat]

(* The vectors of the response and the counts of write().                  *)
SendTyped ==
    /\ m_iv \in [0..1 -> Vec]
    /\ m_iv_count \in 0..2
    /\ m_file_address \in {"null", "mapped", "failed"} /\ cut \in BOOLEAN
    /\ m_write_idx \in Nat
    /\ stage \in {"in", "work"} => m_write_idx = 0
    /\ stage \in {"out", "write"} => m_write_idx = HeadLength
    /\ bytes_to_send \in Nat /\ bytes_have_send \in Nat
    /\ stage = "write" => bytes_to_send > 0

(* TypeOK with what its steps need: m_write_buf is empty while a request   *)
(* is read, and no length in m_iv is negative.                             *)
Typed ==
    /\ stage \in {"closed", "in", "out", "work", "write"}
    /\ ConnTyped /\ InputTyped /\ SendTyped

(* init() leaves a record that is in order.                                *)
LEMMA ResetPlaced ==
    ASSUME NEW c \in Conn
    PROVE  Placed(Reset(c)) /\ m_read_idx(Reset(c)) = 0 /\ Marked(Reset(c))
<1> DEFINE d == Reset(c)
<1>1. <<>> \in Seq(Bytes) /\ Len(<<>>) = 0
  OBVIOUS
<1>2. d \in Conn
  <2>1. \A z \in Seq(Bytes), k \in Int :
          [c EXCEPT !.m_read_buf = z, !.m_check_idx = 0, !.m_start_line = 0,
                    !.m_check_state = "REQUESTLINE", !.m_linger = FALSE,
                    !.m_method = "GET", !.m_content_length = k] \in Conn
    BY DEF Conn
  <2>2. 0 \in Int
    OBVIOUS
  <2> QED BY <1>1, <2>1, <2>2, Zenon DEF Reset
<1>3. /\ d.m_method = "GET" /\ d.m_read_buf = <<>>
      /\ d.m_check_idx = 0 /\ d.m_start_line = 0
  BY DEF Reset, Conn
<1>4. "GET" # "POST"
  OBVIOUS
<1> HIDE DEF d
<1>5. Marked(d)
  BY <1>3, <1>4 DEF Marked
<1>6. Placed(d) /\ m_read_idx(d) = 0
  BY <1>1, <1>2, <1>3 DEF Placed, m_read_idx
<1> QED BY <1>5, <1>6 DEF d

(* The input of a step that does not read is as good as before.            *)
LEMMA InputKept ==
    ASSUME InputTyped, UNCHANGED msgs, UNCHANGED got, begin' \in {begin, got}
    PROVE  InputTyped'
<1>1. Stream' = Stream
  BY StreamIs
<1> QED BY <1>1 DEF InputTyped

(* Each part over the steps that can disturb it: first the parser's.       *)
LEMMA ConnTypedStep == Typed /\ [Next]_vars => ConnTyped'
<1> SUFFICES ASSUME Typed, [Next]_vars PROVE ConnTyped'
  OBVIOUS
<1>1. Placed(conn) /\ conn \in Conn /\ m_read_idx(conn) < READ_BUFFER_SIZE
      /\ READ_BUFFER_SIZE \in Nat \ {0} /\ Marked(conn)
  BY HttpAssumption DEF Typed, ConnTyped, Placed
<1>2. CASE UNCHANGED conn
  BY <1>1, <1>2 DEF ConnTyped, m_read_idx, Marked, Placed
<1>3. CASE conn' = Reset(conn)
  <2>1. ConnTyped' <=> /\ Placed(Reset(conn)) /\ m_read_idx(Reset(conn)) < READ_BUFFER_SIZE
                       /\ Marked(Reset(conn))
    BY <1>3 DEF ConnTyped, Placed, m_read_idx, Marked
  <2> QED BY <1>1, <2>1, ResetPlaced
<1>4. CASE Parsed
  <2> DEFINE d == ProcessRead(conn)[2]
  <2>1. Placed(d) /\ m_read_idx(d) = m_read_idx(conn) /\ Marked(d)
    BY <1>1, ProcessReadKeeps
  <2>2. conn' = d
    BY <1>4 DEF Parsed
  <2> HIDE DEF d
  <2> QED BY <1>1, <2>1, <2>2 DEF ConnTyped, Placed, m_read_idx, Marked
<1>5. CASE Read
  <2> DEFINE s == SubSeq(Stream, got + 1, got')
             b == conn.m_read_buf \o s
             d == [conn EXCEPT !.m_read_buf = b]
  <2>1. /\ got' \in (got + 1)..Len(Stream) /\ got' - got < Room /\ conn' = d
    BY <1>5 DEF Read
  <2>2. Stream \in Seq(Bytes) /\ got \in Nat
    BY StreamIs, StreamType DEF Typed, InputTyped
  <2>3. s \in Seq(Bytes) /\ Len(s) = got' - got /\ got' - got \in Nat
    BY <2>1, <2>2
  <2>4. conn.m_read_buf \in Seq(Bytes) /\ Len(conn.m_read_buf) = m_read_idx(conn)
    BY <1>1 DEF Conn, m_read_idx
  <2> HIDE DEF s
  <2>5. b \in Seq(Bytes) /\ Len(b) = m_read_idx(conn) + (got' - got)
    BY <2>3, <2>4
  <2> HIDE DEF b
  <2>6. /\ d \in Conn /\ d.m_read_buf = b /\ d.m_check_idx = conn.m_check_idx
        /\ d.m_start_line = conn.m_start_line /\ Marked(d)
    BY <1>1, <2>5 DEF Conn, Marked
  <2> HIDE DEF d
  <2>7. m_read_idx(d) = m_read_idx(conn) + (got' - got) /\ m_read_idx(conn) \in Nat
    BY <2>4, <2>5, <2>6 DEF m_read_idx
  <2>8. m_read_idx(d) < READ_BUFFER_SIZE
    BY <1>1, <2>1, <2>3, <2>7 DEF Room
  <2>9. conn.m_check_idx \in Nat /\ conn.m_start_line \in Nat
    BY <1>1 DEF Conn
  <2>10. Placed(d)
    BY <1>1, <2>3, <2>6, <2>7, <2>9 DEF Placed
  <2> QED BY <2>1, <2>6, <2>8, <2>10 DEF ConnTyped, Placed, m_read_idx, Marked
<1>6. CASE Accept
  BY <1>3, <1>6 DEF Accept
<1>7. CASE Close \/ ReadFails \/ WriteStarts \/ WritevAgain \/ WritevFails
             \/ (\E n \in 0..Len(Offered) : Writev(n)) \/ UNCHANGED vars
  BY <1>2, <1>7 DEF Close, ReadFails, WriteStarts, WritevAgain, WritevFails, Writev, vars
<1>8. CASE ProcessIncomplete \/ ProcessFile \/ ProcessForbidden \/ ProcessCloses
  BY <1>4, <1>8 DEF ProcessIncomplete, ProcessFile, ProcessForbidden, ProcessCloses
<1>9. ASSUME NEW n \in 0..Len(Offered), WritevEnds(n) PROVE ConnTyped'
  BY <1>2, <1>3, <1>9 DEF WritevEnds
<1> QED BY <1>5, <1>6, <1>7, <1>8, <1>9 DEF Next

(* What was read is part of what was sent.                                 *)
LEMMA InputTypedStep == Typed /\ [Next]_vars => InputTyped'
<1> SUFFICES ASSUME Typed, [Next]_vars PROVE InputTyped'
  OBVIOUS
<1>1. InputTyped
  BY DEF Typed
<1>2. CASE Accept
  <2>1. msgs' \in Seq(Messages) /\ got' = 0 /\ begin' = 0
    BY <1>2, HttpAssumption DEF Accept
  <2>2. Stream' \in Seq(Bytes)
    BY <2>1, StreamIs, StreamType
  <2> QED BY <2>1, <2>2 DEF InputTyped
<1>3. CASE Read
  <2>1. /\ UNCHANGED msgs /\ UNCHANGED begin /\ got' \in (got + 1)..Len(Stream)
    BY <1>3 DEF Read
  <2>2. Stream' = Stream
    BY <2>1, StreamIs
  <2> QED BY <1>1, <2>1, <2>2 DEF InputTyped
<1>4. CASE UNCHANGED inputvars
  BY <1>1, <1>4, InputKept DEF inputvars
<1>5. ASSUME NEW n \in 0..Len(Offered), WritevEnds(n) PROVE InputTyped'
  BY <1>1, <1>5, InputKept DEF WritevEnds
<1> QED BY <1>2, <1>3, <1>4, <1>5 DEF Next, Close, ReadFails, ProcessIncomplete,
     ProcessFile, ProcessForbidden, ProcessCloses, WriteStarts, Writev, WritevAgain,
     WritevFails, vars

(* The vectors and the counts.                                             *)
LEMMA SendTypedStep == Typed /\ [Next]_vars => SendTyped'
<1> SUFFICES ASSUME Typed, [Next]_vars PROVE SendTyped'
  OBVIOUS
<1>1. SendTyped /\ stage \in {"closed", "in", "out", "work", "write"}
      /\ HeadLength \in Nat \ {0} /\ FileLength \in Nat \ {0}
  BY HttpAssumption DEF Typed
<1>2. CASE Accept
  BY <1>1, <1>2 DEF Accept, SendTyped, NothingSent, sentvars
<1>3. CASE Read
  BY <1>1, <1>3 DEF Read, SendTyped, NothingSent, sentvars, sendvars
<1>4. CASE Close \/ ReadFails \/ ProcessIncomplete \/ UNCHANGED vars
  BY <1>1, <1>4 DEF Close, ReadFails, ProcessIncomplete, vars, SendTyped, sentvars,
     sendvars, wirevars
<1>5. CASE ProcessFile \/ ProcessForbidden
  <2>1. /\ stage = "work" /\ stage' = "out" /\ m_write_idx' = HeadLength
        /\ m_iv_count' \in {1, 2} /\ m_file_address' \in {"null", "mapped", "failed"}
        /\ UNCHANGED <<bytes_to_send, bytes_have_send, cut>>
    <3>1. /\ m_write_idx = 0 /\ m_file_address \in {"null", "mapped", "failed"}
          /\ stage = "work"
      BY <1>1, <1>5 DEF ProcessFile, ProcessForbidden, SendTyped
    <3>2. CASE ProcessFile
      BY <1>1, <3>1, <3>2 DEF ProcessFile, AddHead, Map, sentvars, wirevars
    <3>3. CASE ProcessForbidden
      BY <1>1, <3>1, <3>3 DEF ProcessForbidden, AddHead, sentvars, wirevars
    <3> QED BY <1>5, <3>2, <3>3
  <2>2. HeadVec \in Vec /\ FileVec \in Vec
    BY <1>1, <2>1 DEF HeadVec, FileVec, Vec
  <2>3. m_iv' \in [0..1 -> Vec]
    BY <1>1, <1>5, <2>2 DEF ProcessFile, ProcessForbidden, SendTyped
  <2> QED BY <1>1, <2>1, <2>3 DEF SendTyped
<1>6. CASE ProcessCloses
  BY <1>1, <1>6 DEF ProcessCloses, AddHead, SendTyped, sentvars, wirevars
<1>7. CASE WriteStarts
  <2>1. m_iv[0].iov_len \in Nat /\ m_iv[1].iov_len \in Nat
    BY <1>1 DEF SendTyped, Vec
  <2> QED BY <1>1, <1>7, <2>1 DEF WriteStarts, SendTyped, sendvars, wirevars
<1>8. ASSUME NEW n \in 0..Len(Offered), Writev(n) PROVE SendTyped'
  BY <1>1, <1>8 DEF Writev, Takes, SendTyped, sendvars
<1>9. ASSUME NEW n \in 0..Len(Offered), WritevEnds(n) PROVE SendTyped'
  <2>1. /\ cut' \in BOOLEAN /\ m_file_address' = "null"
        /\ bytes_to_send' = 0 /\ bytes_have_send' = 0
        /\ UNCHANGED <<m_iv, m_iv_count>>
    BY <1>1, <1>9 DEF WritevEnds, Takes, Unmap, WriteReturns, SendTyped
  <2>2. \/ stage' = "in" /\ m_write_idx' = 0
        \/ stage' = "closed" /\ m_write_idx' = m_write_idx
    BY <1>9 DEF WritevEnds
  <2>3. /\ m_write_idx' \in Nat
        /\ stage' \in {"in", "work"} => m_write_idx' = 0
        /\ stage' \in {"out", "write"} => m_write_idx' = HeadLength
        /\ stage' = "write" => bytes_to_send' > 0
    BY <1>1, <2>2 DEF SendTyped
  <2>4. m_iv' \in [0..1 -> Vec] /\ m_iv_count' \in 0..2
    BY <1>1, <2>1 DEF SendTyped
  <2>5. m_file_address' \in {"null", "mapped", "failed"} /\ cut' \in BOOLEAN
    BY <2>1
  <2>6. bytes_to_send' \in Nat /\ bytes_have_send' \in Nat
    BY <2>1
  <2> QED BY <2>3, <2>4, <2>5, <2>6 DEF SendTyped
<1>10. CASE WritevAgain
  <2>1. /\ stage = "write" /\ stage' = "out" /\ cut' = TRUE
        /\ bytes_to_send' = 0 /\ bytes_have_send' = 0
        /\ UNCHANGED <<m_write_idx, m_iv_count, m_file_address>>
    BY <1>10 DEF WritevAgain, WriteReturns
  <2>2. m_iv' \in [0..1 -> Vec]
    <3> DEFINE newadd == IF bytes_have_send = 0 THEN 0 ELSE bytes_have_send - m_write_idx
               h0 == [m_iv[0] EXCEPT !.iov_len = 0]
               f1 == [base |-> "file", at |-> newadd, iov_len |-> bytes_to_send]
               h1 == [m_iv[0] EXCEPT !.at = bytes_to_send, !.iov_len = @ - bytes_have_send]
    <3>1. m_iv[0] \in Vec /\ m_iv[1] \in Vec /\ m_iv[0].iov_len \in Nat
      BY <1>1 DEF SendTyped, Vec
    <3>2. newadd \in Int /\ bytes_to_send \in Nat /\ bytes_have_send \in Nat
      BY <1>1 DEF SendTyped
    <3>3. CASE bytes_have_send >= m_iv[0].iov_len
      <4>1. h0 \in Vec /\ f1 \in Vec
        BY <3>1, <3>2 DEF Vec
      <4>2. m_iv' = [i \in 0..1 |-> IF i = 0 THEN h0 ELSE f1]
        BY <1>10, <3>3 DEF WritevAgain
      <4> HIDE DEF h0, f1
      <4> QED BY <4>1, <4>2
    <3>4. CASE ~(bytes_have_send >= m_iv[0].iov_len)
      <4>1. h1 \in Vec
        <5>1. m_iv[0].iov_len - bytes_have_send \in Nat /\ bytes_to_send \in Int
          BY <3>1, <3>2, <3>4
        <5> QED BY <3>1, <5>1 DEF Vec
      <4>2. m_iv' = [m_iv EXCEPT ![0] = h1]
        BY <1>1, <1>10, <3>1, <3>4 DEF WritevAgain, SendTyped, Vec
      <4> HIDE DEF h1
      <4> QED BY <1>1, <4>1, <4>2 DEF SendTyped
    <3> QED BY <3>3, <3>4
  <2> QED BY <1>1, <2>1, <2>2 DEF SendTyped
<1>11. CASE WritevFails
  BY <1>1, <1>11 DEF WritevFails, Unmap, WriteReturns, SendTyped, wirevars
<1> QED BY <1>2, <1>3, <1>4, <1>5, <1>6, <1>7, <1>8, <1>9, <1>10, <1>11 DEF Next

(* The stages are those of TypeOK.                                         *)
LEMMA StageTypedStep ==
    Typed /\ [Next]_vars => stage' \in {"closed", "in", "out", "work", "write"}
  BY DEF Typed, Next, Accept, Close, Read, ReadFails, ProcessIncomplete, ProcessFile,
     ProcessForbidden, ProcessCloses, WriteStarts, Writev, WritevEnds, WritevAgain,
     WritevFails, vars

(* Whatever is sent and however reads and writes cut it: the indices into  *)
(* m_read_buf are in order and within what was read, and no length in m_iv *)
(* is negative (http_conn.cpp:162-237, 634-697).                           *)
THEOREM TypesHold == Spec => []Typed
<1>1. Init => Typed
  <2> SUFFICES ASSUME Init PROVE Typed
    OBVIOUS
  <2> DEFINE v == [base |-> "head", at |-> 0, iov_len |-> 0]
  <2>1. m_iv \in [0..1 -> Vec]
    <3>1. v \in Vec
      BY DEF Vec
    <3>2. m_iv = [i \in 0..1 |-> v]
      BY DEF Init
    <3> HIDE DEF v
    <3> QED BY <3>1, <3>2
  <2>2. conn \in Conn /\ conn.m_read_buf = <<>> /\ conn.m_start_line = 0
        /\ conn.m_check_idx = 0 /\ Marked(conn)
    BY ParserAssumption DEF Init, Conn, Marked
  <2>3. ConnTyped
    <3>1. READ_BUFFER_SIZE \in Nat \ {0} /\ m_read_idx(conn) = 0
      BY <2>2, HttpAssumption DEF m_read_idx
    <3> QED BY <2>2, <3>1 DEF ConnTyped, Placed
  <2>4. InputTyped
    <3>1. msgs = <<>> /\ got = 0 /\ begin = 0
      BY DEF Init
    <3>2. msgs \in Seq(Messages)
      BY <3>1
    <3>3. Stream \in Seq(Bytes)
      BY <3>2, StreamIs, StreamType
    <3>4. Len(Stream) \in Nat
      BY <3>3
    <3> QED BY <3>1, <3>2, <3>4 DEF InputTyped
  <2>5. SendTyped
    <3>1. /\ stage = "closed" /\ m_iv_count = 0 /\ m_file_address = "null" /\ cut = FALSE
          /\ m_write_idx = 0 /\ bytes_to_send = 0 /\ bytes_have_send = 0
      BY DEF Init
    <3>2. m_file_address \in {"null", "mapped", "failed"} /\ cut \in BOOLEAN
      BY <3>1
    <3>3. /\ m_iv_count \in 0..2 /\ m_write_idx \in Nat
          /\ bytes_to_send \in Nat /\ bytes_have_send \in Nat
      BY <3>1
    <3>4. /\ stage \in {"in", "work"} => m_write_idx = 0
          /\ stage \in {"out", "write"} => m_write_idx = HeadLength
          /\ stage = "write" => bytes_to_send > 0
      BY <3>1
    <3> QED BY <2>1, <3>2, <3>3, <3>4 DEF SendTyped
  <2> QED BY <2>3, <2>4, <2>5 DEF Init, Typed
<1>2. Typed /\ [Next]_vars => Typed'
  BY ConnTypedStep, InputTypedStep, SendTypedStep, StageTypedStep DEF Typed
<1> QED BY <1>1, <1>2, PTL DEF Spec

(* The types that the runs check: the buffer is never full past its last   *)
(* byte, and write() goes on only with something to send (http_conn.cpp:   *)
(* 207-237, 626-697).                                                      *)
THEOREM TypeCorrect == Spec => []TypeOK
<1>1. Typed => TypeOK
  BY DEF Typed, ConnTyped, Placed, InputTyped, SendTyped, TypeOK
<1> QED BY <1>1, TypesHold, PTL
-----------------------------------------------------------------------------
(* The parser at a line of a message.                                      *)

(* Byte i of a message, counted from 0 as in the buffer, and how many      *)
(* bytes it has.                                                           *)
Sym(m, i) == Encoded(m)[i + 1]

Total(m) == HeadOf(m) + m.body

(* Where the line after line j begins, and the first CR from line j on;    *)
(* the empty line is the one after the last header.                        *)
After(m, j) == IF j <= Len(m.headers) THEN 3 * j + 3 ELSE HeadOf(m)

CRFrom(m, j) ==
    IF j <= Len(m.headers) /\ LineText(m, j) # CR THEN 3 * j + 1 ELSE 3 * j

(* What the header lines before line j say.                                *)
NoCR(m, j) == \A k \in 1..(j - 1) : m.headers[k] # CR

Keeps(m, j) == \E k \in 1..(j - 1) : m.headers[k] = "keep-alive"

Announces(m, j) == \E k \in 1..(j - 1) : m.headers[k] = "Content-Length"

(* The length the header lines of m announce, which may be negative.       *)
Length(m) == IF Announces(m, Len(m.headers) + 1) THEN BodyLength ELSE 0

(* From position p on, the buffer holds what was sent of m.                *)
Unread(c, m, p) ==
    \A i \in Nat : p <= i /\ i < m_read_idx(c) /\ i < Total(m) => Byte(c, i) = Sym(m, i)

(* The lines before line j of m are handled, and this one is not.          *)
LineAt(c, m, j) ==
    /\ j \in 0..(Len(m.headers) + 1)
    /\ c.m_start_line = 3 * j
    /\ c.m_check_idx \in 3 * j .. CRFrom(m, j)
    /\ c.m_check_state = IF j = 0 THEN "REQUESTLINE" ELSE "HEADER"
    /\ j > 0 => m.line # "garbage" /\ c.m_method = m.line
    /\ c.m_linger = Keeps(m, j)
    /\ c.m_content_length = IF Announces(m, j) THEN BodyLength ELSE 0
    /\ NoCR(m, j)
    /\ Unread(c, m, 3 * j)

(* Where the parts of a message are, in positions from 0.                  *)
LEMMA SymIs ==
    ASSUME NEW m \in Messages
    PROVE  /\ Len(m.headers) \in Nat /\ m.body \in Nat
           /\ HeadOf(m) = 3 * Len(m.headers) + 5 /\ Total(m) = HeadOf(m) + m.body
           /\ Total(m) = Len(Encoded(m))
           /\ \A j \in 0..Len(m.headers) :
                /\ LineText(m, j) \in Words \cup {CR}
                /\ Sym(m, 3 * j) = LineText(m, j)
                /\ Sym(m, 3 * j + 1) = CR
                /\ Sym(m, 3 * j + 2) = LF
           /\ Sym(m, 3 * Len(m.headers) + 3) = CR
           /\ Sym(m, 3 * Len(m.headers) + 4) = LF
           /\ \A k \in Nat : HeadOf(m) <= k /\ k < Total(m) => Sym(m, k) = "body"
<1> DEFINE e == Encoded(m)
           n == Len(m.headers)
<1>1. /\ n \in Nat /\ m.body \in Nat /\ m.line \in Words
      /\ \A j \in 1..n : m.headers[j] \in Words \cup {CR}
  BY MessageTypes
<1>2. /\ Len(e) = HeadOf(m) + m.body /\ HeadOf(m) = 3 * n + 5
      /\ \A j \in 0..n : /\ e[3 * j + 1] = LineText(m, j) /\ e[3 * j + 2] = CR
                         /\ e[3 * j + 3] = LF
      /\ e[HeadOf(m) - 1] = CR /\ e[HeadOf(m)] = LF
      /\ \A k \in 1..m.body : e[HeadOf(m) + k] = "body"
  BY EncodedIs DEF HeadOf
<1>3. \A i : Sym(m, i) = e[i + 1]
  BY DEF Sym
<1> HIDE DEF e, n
<1>4. \A j \in 0..n : LineText(m, j) \in Words \cup {CR}
  BY <1>1 DEF LineText
<1>5. \A j \in 0..n : /\ Sym(m, 3 * j) = LineText(m, j)
                      /\ Sym(m, 3 * j + 1) = CR /\ Sym(m, 3 * j + 2) = LF
  <2> SUFFICES ASSUME NEW j \in 0..n
               PROVE  /\ Sym(m, 3 * j) = LineText(m, j)
                      /\ Sym(m, 3 * j + 1) = CR /\ Sym(m, 3 * j + 2) = LF
    OBVIOUS
  <2>1. (3 * j + 1) + 1 = 3 * j + 2 /\ (3 * j + 2) + 1 = 3 * j + 3
    OBVIOUS
  <2> QED BY <1>2, <1>3, <2>1
<1>6. Sym(m, 3 * n + 3) = CR /\ Sym(m, 3 * n + 4) = LF
  <2>1. (3 * n + 3) + 1 = HeadOf(m) - 1 /\ (3 * n + 4) + 1 = HeadOf(m)
    BY <1>1, <1>2
  <2> QED BY <1>2, <1>3, <2>1
<1>7. ASSUME NEW k \in Nat, HeadOf(m) <= k, k < Total(m) PROVE Sym(m, k) = "body"
  <2>1. HeadOf(m) \in Nat /\ m.body \in Nat /\ k < HeadOf(m) + m.body
    BY <1>1, <1>2, <1>7 DEF Total
  <2>2. /\ k + 1 - HeadOf(m) \in 1..m.body
        /\ HeadOf(m) + (k + 1 - HeadOf(m)) = k + 1
    BY <1>7, <2>1
  <2> QED BY <1>2, <1>3, <2>2
<1> QED BY <1>1, <1>2, <1>4, <1>5, <1>6, <1>7 DEF Total, e, n

(* Before a line is complete, the scan stops at its CR or where the buffer *)
(* ends.                                                                   *)
LEMMA LineStops ==
    ASSUME NEW m \in Messages, NEW c, Placed(c), NEW j, LineAt(c, m, j)
    PROVE  /\ LineEnd(c) = IF CRFrom(m, j) < m_read_idx(c) THEN CRFrom(m, j)
                                                          ELSE m_read_idx(c)
           /\ CRFrom(m, j) < m_read_idx(c) => Byte(c, CRFrom(m, j)) = CR
<1> DEFINE n == Len(m.headers)
           r == m_read_idx(c)
           e == CRFrom(m, j)
<1>1. /\ c \in Conn /\ c.m_check_idx \in Nat /\ r \in Nat /\ c.m_check_idx <= r
      /\ n \in Nat /\ j \in Nat /\ j <= n + 1 /\ 3 * j <= c.m_check_idx
      /\ c.m_check_idx <= e
  <2>1. c \in Conn /\ c.m_check_idx \in Nat /\ r \in Nat /\ c.m_check_idx <= r
    BY DEF Placed, Conn, m_read_idx
  <2>2. n \in Nat /\ j \in 0..(n + 1) /\ c.m_check_idx \in 3 * j .. e
    BY SymIs DEF LineAt
  <2> QED BY <2>1, <2>2
<1>2. Total(m) \in Nat
  <2>1. m.body \in Nat /\ Total(m) = 3 * n + 5 + m.body
    BY SymIs
  <2> QED BY <1>1, <2>1
<1>3. /\ e \in Nat /\ (e = 3 * j \/ e = 3 * j + 1) /\ e < Total(m)
      /\ Sym(m, e) = CR
      /\ e = 3 * j + 1 => Sym(m, 3 * j) \in Words
  <2>1. CASE j <= n
    <3>1. /\ j \in 0..n /\ LineText(m, j) \in Words \cup {CR}
          /\ Sym(m, 3 * j) = LineText(m, j) /\ Sym(m, 3 * j + 1) = CR
      BY <1>1, <2>1, SymIs
    <3>2. 3 * j + 1 < Total(m)
      <4>1. m.body \in Nat /\ Total(m) = 3 * n + 5 + m.body
        BY SymIs
      <4> QED BY <1>1, <2>1, <4>1
    <3>3. CASE LineText(m, j) = CR
      <4>1. e = 3 * j
        BY <2>1, <3>3 DEF CRFrom
      <4> QED BY <1>1, <1>2, <3>1, <3>2, <3>3, <4>1
    <3>4. CASE LineText(m, j) # CR
      <4>1. e = 3 * j + 1
        BY <2>1, <3>4 DEF CRFrom
      <4> QED BY <1>1, <3>1, <3>2, <3>4, <4>1
    <3> QED BY <3>3, <3>4
  <2>2. CASE j = n + 1
    <3>1. e = 3 * j /\ e = 3 * n + 3
      BY <1>1, <2>2 DEF CRFrom
    <3> QED BY <1>1, <3>1, SymIs
  <2> QED BY <1>1, <2>1, <2>2
<1>4. \A i \in Nat : 3 * j <= i /\ i < r /\ i < Total(m) => Byte(c, i) = Sym(m, i)
  BY DEF LineAt, Unread
<1> HIDE DEF n, r, e
<1>5. e < r => Byte(c, e) = CR
  BY <1>1, <1>3, <1>4
<1>6. \A i \in c.m_check_idx .. r - 1 : i < e => Byte(c, i) \notin {CR, LF}
  <2> SUFFICES ASSUME NEW i \in c.m_check_idx .. r - 1, i < e
               PROVE  Byte(c, i) \notin {CR, LF}
    OBVIOUS
  <2>1. i = 3 * j /\ e = 3 * j + 1
    BY <1>1, <1>3
  <2>2. Byte(c, i) = Sym(m, 3 * j)
    <3>1. 3 * j \in Nat /\ 3 * j < r /\ 3 * j < Total(m)
      BY <1>1, <1>3, <1>2, <2>1
    <3> QED BY <1>4, <2>1, <3>1
  <2> QED BY <1>3, <2>1, <2>2, ParserAssumption
<1>7. /\ LineEnd(c) \in Nat /\ LineEnd(c) <= r
      /\ LineEnd(c) # r => c.m_check_idx <= LineEnd(c) /\ Byte(c, LineEnd(c)) \in {CR, LF}
      /\ \A p \in c.m_check_idx..(r - 1) : Byte(c, p) \in {CR, LF} => LineEnd(c) <= p
  BY <1>1, LineEndIs DEF r
<1>8. CASE e < r
  <2>1. LineEnd(c) <= e
    BY <1>1, <1>3, <1>5, <1>7, <1>8
  <2>2. ~(LineEnd(c) < e)
    BY <1>1, <1>3, <1>6, <1>7, <1>8
  <2> QED BY <1>3, <1>5, <1>7, <1>8, <2>1, <2>2 DEF r, e
<1>9. CASE ~(e < r)
  <2>1. LineEnd(c) = r
    <3> SUFFICES ASSUME LineEnd(c) # r PROVE FALSE
      OBVIOUS
    <3>1. LineEnd(c) \in c.m_check_idx .. r - 1 /\ LineEnd(c) < e
      BY <1>1, <1>3, <1>7, <1>9
    <3> QED BY <1>6, <1>7, <3>1
  <2> QED BY <1>9, <2>1 DEF r, e
<1> QED BY <1>8, <1>9

(* Looking at a line again does not change what is unread.                 *)
LEMMA LookedAgain ==
    ASSUME NEW c \in Conn, NEW m, NEW j, LineAt(c, m, j), NEW k \in Nat,
           k \in 3 * j .. CRFrom(m, j)
    PROVE  LineAt([c EXCEPT !.m_check_idx = k], m, j)
<1> DEFINE d == [c EXCEPT !.m_check_idx = k]
<1>1. /\ d.m_check_idx = k /\ d.m_read_buf = c.m_read_buf
      /\ d.m_start_line = c.m_start_line /\ d.m_check_state = c.m_check_state
      /\ d.m_method = c.m_method /\ d.m_linger = c.m_linger
      /\ d.m_content_length = c.m_content_length
  BY DEF Conn
<1> HIDE DEF d
<1>2. m_read_idx(d) = m_read_idx(c) /\ \A i : Byte(d, i) = Byte(c, i)
  BY <1>1 DEF m_read_idx, Byte
<1>3. Unread(d, m, 3 * j)
  BY <1>2 DEF LineAt, Unread
<1>4. LineAt(d, m, j)
  BY <1>1, <1>3 DEF LineAt
<1> QED BY <1>4 DEF d

(* parse_line() on a line of m: incomplete, or with a CR in it, it stays   *)
(* the line to handle; otherwise its end is zeroed.                        *)
LEMMA LineFound ==
    ASSUME NEW m \in Messages, NEW c, Placed(c), NEW j, LineAt(c, m, j)
    PROVE  \/ /\ ParseLine(c)[1] # "LINE_OK"
              /\ \/ m_read_idx(c) < After(m, j)
                 \/ j <= Len(m.headers) /\ LineText(m, j) = CR
              /\ LineAt(ParseLine(c)[2], m, j)
           \/ /\ ParseLine(c) =
                   <<"LINE_OK", Moved(c, After(m, j),
                                      Zeroed(c, After(m, j) - 2, After(m, j) - 1))>>
              /\ After(m, j) <= m_read_idx(c)
              /\ j <= Len(m.headers) => LineText(m, j) # CR
<1> DEFINE n == Len(m.headers)
           r == m_read_idx(c)
           e == CRFrom(m, j)
           a == After(m, j)
           i == LineEnd(c)
<1>1. /\ c \in Conn /\ c.m_check_idx \in Nat /\ r \in Nat /\ c.m_check_idx <= r
      /\ n \in Nat /\ j \in Nat /\ j <= n + 1 /\ 3 * j <= r
  <2>1. c \in Conn /\ c.m_check_idx \in Nat /\ r \in Nat /\ c.m_check_idx <= r
    BY DEF Placed, Conn, m_read_idx
  <2>2. n \in Nat /\ j \in 0..(n + 1) /\ c.m_check_idx \in 3 * j .. e
    BY SymIs DEF LineAt
  <2> QED BY <2>1, <2>2
<1>2. HeadOf(m) = 3 * n + 5 /\ Total(m) \in Nat /\ HeadOf(m) <= Total(m)
  <2>1. m.body \in Nat /\ HeadOf(m) = 3 * n + 5 /\ Total(m) = HeadOf(m) + m.body
    BY SymIs
  <2> QED BY <1>1, <2>1
<1>3. \/ j <= n /\ LineText(m, j) = CR /\ e = 3 * j /\ a = 3 * j + 3
      \/ j <= n /\ LineText(m, j) # CR /\ e = 3 * j + 1 /\ a = 3 * j + 3
      \/ j = n + 1 /\ e = 3 * j /\ a = 3 * j + 2
  BY <1>1, <1>2 DEF CRFrom, After
<1>4. i = (IF e < r THEN e ELSE r) /\ (e < r => Byte(c, e) = CR)
  BY LineStops
<1>5. \A p \in Nat : 3 * j <= p /\ p < r /\ p < Total(m) => Byte(c, p) = Sym(m, p)
  BY DEF LineAt, Unread
<1>6. e + 1 < r => Byte(c, e + 1) = IF j <= n /\ LineText(m, j) = CR THEN CR ELSE LF
  <2> SUFFICES ASSUME e + 1 < r
               PROVE  Byte(c, e + 1) = IF j <= n /\ LineText(m, j) = CR THEN CR ELSE LF
    OBVIOUS
  <2>1. /\ e + 1 \in Nat /\ 3 * j <= e + 1 /\ e + 1 < Total(m)
    BY <1>1, <1>2, <1>3
  <2>2. Byte(c, e + 1) = Sym(m, e + 1)
    BY <1>5, <2>1
  <2>3. CASE j <= n
    <3>1. j \in 0..n
      BY <1>1, <2>3
    <3>2. Sym(m, 3 * j + 1) = CR /\ Sym(m, 3 * j + 2) = LF
      BY <3>1, SymIs
    <3>3. (3 * j + 1) + 1 = 3 * j + 2
      BY <1>1
    <3> QED BY <1>1, <1>3, <2>2, <2>3, <3>2, <3>3
  <2>4. CASE j = n + 1
    <3>1. e + 1 = 3 * n + 4
      BY <1>1, <1>3, <2>4
    <3>2. Sym(m, 3 * n + 4) = LF
      BY SymIs
    <3> QED BY <1>1, <2>2, <2>4, <3>1, <3>2
  <2> QED BY <1>1, <2>3, <2>4
<1>7. CR # LF
  BY ParserAssumption
<1>8. i \in Nat /\ i \in 3 * j .. e /\ e \in Nat
  BY <1>1, <1>3, <1>4
<1>9. ASSUME NEW st, st # "LINE_OK", ParseLine(c) = <<st, [c EXCEPT !.m_check_idx = i]>>
      PROVE  ParseLine(c)[1] # "LINE_OK" /\ LineAt(ParseLine(c)[2], m, j)
  <2> HIDE DEF i
  <2> QED BY <1>1, <1>8, <1>9, LookedAgain
<1>10. CASE i = r \/ (Byte(c, i) = CR /\ i + 1 = r)
  <2>1. \E st \in {"LINE_OPEN", "LINE_BAD"} :
           ParseLine(c) = <<st, [c EXCEPT !.m_check_idx = i]>>
    <3> HIDE DEF i
    <3>1. i = LineEnd(c)
      BY DEF i
    <3>2. r = m_read_idx(c)
      OBVIOUS
    <3> HIDE DEF r
    <3> QED BY <1>1, <1>7, <1>8, <1>10, <3>1, <3>2, ParseLineIs
  <2>2. r < a
    BY <1>1, <1>3, <1>4, <1>8, <1>10
  <2> QED BY <1>9, <2>1, <2>2
<1>11. CASE ~(i = r \/ (Byte(c, i) = CR /\ i + 1 = r))
  <2>1. i = e /\ e + 1 < r /\ Byte(c, e) = CR
    BY <1>1, <1>4, <1>8, <1>11
  <2>2. CASE j <= n /\ LineText(m, j) = CR
    <3>1. Byte(c, i + 1) = CR
      BY <1>6, <2>1, <2>2
    <3>2. ParseLine(c) = <<"LINE_BAD", [c EXCEPT !.m_check_idx = i]>>
      <4> HIDE DEF i
      <4>1. i = LineEnd(c)
        BY DEF i
      <4> QED BY <1>1, <1>7, <1>11, <2>1, <3>1, <4>1, ParseLineIs
    <3> QED BY <1>9, <2>2, <3>2
  <2>3. CASE ~(j <= n /\ LineText(m, j) = CR)
    <3>1. Byte(c, i + 1) = LF
      BY <1>6, <2>1, <2>3
    <3>2. a = i + 2 /\ a - 2 = i /\ a - 1 = i + 1 /\ a <= r
      BY <1>1, <1>3, <1>8, <2>1, <2>3
    <3>3. ParseLine(c) = <<"LINE_OK", Moved(c, i + 2, Zeroed(c, i, i + 1))>>
      <4> HIDE DEF i
      <4>1. i = LineEnd(c)
        BY DEF i
      <4> QED BY <1>1, <1>7, <1>11, <2>1, <3>1, <4>1, ParseLineIs DEF Moved
    <3> QED BY <2>3, <3>2, <3>3
  <2> QED BY <2>2, <2>3
<1> QED BY <1>10, <1>11

(* The text at i ends before its first NUL.                                *)
LEMMA TextIs ==
    ASSUME NEW c \in Conn, NEW i \in Nat, NEW e \in Nat, i <= e, e <= m_read_idx(c),
           \A k \in i..(e - 1) : Byte(c, k) # NUL,
           e < m_read_idx(c) => Byte(c, e) = NUL
    PROVE  Text(c, i) = SubSeq(c.m_read_buf, i + 1, e)
<1> DEFINE r == m_read_idx(c)
           nuls == {k \in i..(r - 1) : Byte(c, k) = NUL}
           end == IF nuls = {} THEN r ELSE CHOOSE k \in nuls : \A j \in nuls : k <= j
<1>1. Text(c, i) = SubSeq(c.m_read_buf, i + 1, end)
  BY DEF Text
<1>2. r \in Nat
  BY DEF Conn, m_read_idx
<1>3. \A k \in nuls : k \in Nat /\ e <= k
  BY <1>2
<1>4. e < r => e \in nuls
  BY <1>2
<1>5. e = r => nuls = {}
  BY <1>2, <1>3
<1>6. end = e
  <2>1. CASE e = r
    BY <1>5, <2>1
  <2>2. CASE e < r
    <3>1. e \in nuls
      BY <1>4, <2>2
    <3> DEFINE f == CHOOSE k \in nuls : \A j \in nuls : k <= j
    <3> HIDE DEF nuls
    <3>2. f \in nuls /\ \A j \in nuls : f <= j
      BY <1>3, <3>1
    <3>3. f = e
      <4> HIDE DEF f
      <4> QED BY <1>3, <3>1, <3>2
    <3> QED BY <3>1, <3>3
  <2> QED BY <1>2, <2>1, <2>2
<1> QED BY <1>1, <1>6

(* Line j of m is complete and has no CR in it, and is about to be handled. *)
LinePassed(d, m, j) ==
    /\ d \in Conn
    /\ j \in 0..(Len(m.headers) + 1)
    /\ d.m_start_line = After(m, j) /\ d.m_check_idx = After(m, j)
    /\ After(m, j) <= m_read_idx(d)
    /\ d.m_check_state = IF j = 0 THEN "REQUESTLINE" ELSE "HEADER"
    /\ j > 0 => m.line # "garbage" /\ d.m_method = m.line
    /\ d.m_linger = Keeps(m, j)
    /\ d.m_content_length = IF Announces(m, j) THEN BodyLength ELSE 0
    /\ NoCR(m, j)
    /\ j <= Len(m.headers) => LineText(m, j) # CR
    /\ Unread(d, m, After(m, j))

(* What the head of m says is known.                                       *)
HeadRead(c, m) ==
    /\ m.line # "garbage" /\ NoCR(m, Len(m.headers) + 1)
    /\ c.m_method = m.line /\ c.m_linger = Keeps(m, Len(m.headers) + 1)

(* The body of m is to be handled, or has been looked at before.           *)
BodyAt(c, m) ==
    /\ c.m_check_state = "CONTENT" /\ c.m_content_length = Length(m) /\ Length(m) # 0
    /\ c.m_start_line = HeadOf(m) /\ c.m_check_idx = HeadOf(m)
    /\ HeadRead(c, m)
    /\ Unread(c, m, HeadOf(m))

Resumed(c, m) ==
    /\ c.m_check_state = "CONTENT" /\ c.m_content_length = Length(m)
    /\ HeadOf(m) <= c.m_check_idx
    /\ m.line # "garbage"

(* A line found by parse_line() is about to be handled, with its text.     *)
LEMMA LineTaken ==
    ASSUME NEW m \in Messages, NEW c, Placed(c), NEW j, LineAt(c, m, j),
           After(m, j) <= m_read_idx(c), j <= Len(m.headers) => LineText(m, j) # CR,
           NEW l, l = Moved(c, After(m, j), Zeroed(c, After(m, j) - 2, After(m, j) - 1)),
           NEW d, d = [l EXCEPT !.m_start_line = l.m_check_idx]
    PROVE  /\ LinePassed(d, m, j) /\ m_read_idx(d) = m_read_idx(c)
           /\ l.m_start_line = 3 * j
           /\ Text(d, 3 * j) = IF j <= Len(m.headers) THEN <<LineText(m, j)>> ELSE <<>>
<1> DEFINE n == Len(m.headers)
           r == m_read_idx(c)
           a == After(m, j)
           z == Zeroed(c, a - 2, a - 1)
<1>1. /\ c \in Conn /\ r \in Nat /\ n \in Nat /\ j \in Nat /\ j <= n + 1 /\ a \in Nat
      /\ a <= r
      /\ (j <= n /\ a = 3 * j + 3) \/ (j = n + 1 /\ a = 3 * j + 2)
  <2>1. c \in Conn /\ r \in Nat
    BY DEF Placed, Conn, m_read_idx
  <2>2. n \in Nat /\ j \in 0..(n + 1) /\ HeadOf(m) = 3 * n + 5
    BY SymIs DEF LineAt
  <2> QED BY <2>1, <2>2 DEF After
<1>2. z \in Seq(Bytes) /\ Len(z) = r
      /\ \A k \in 1..r : z[k] = IF k \in {(a - 2) + 1, (a - 1) + 1} THEN NUL
                                                                 ELSE c.m_read_buf[k]
  <2>1. Len(c.m_read_buf) = r
    BY DEF m_read_idx
  <2> HIDE DEF r
  <2> QED BY <1>1, <2>1, ZeroedKeeps
<1>3. l = Moved(c, a, z)
  OBVIOUS
<1> HIDE DEF z
<1>4. Looked(c, l) /\ l.m_check_idx = a /\ l.m_read_buf = z
  BY <1>1, <1>2, <1>3, MovedLooked
<1>5. /\ d \in Conn /\ d.m_start_line = a /\ d.m_check_idx = a /\ d.m_read_buf = z
      /\ d.m_check_state = c.m_check_state /\ d.m_method = c.m_method
      /\ d.m_linger = c.m_linger /\ d.m_content_length = c.m_content_length
  BY <1>4 DEF Looked, Conn
<1>6. m_read_idx(d) = r
  BY <1>2, <1>5 DEF m_read_idx
<1>7. \A i \in Nat : i < r => Byte(d, i) = IF i \in {a - 2, a - 1} THEN NUL ELSE Byte(c, i)
  <2> SUFFICES ASSUME NEW i \in Nat, i < r
               PROVE  Byte(d, i) = IF i \in {a - 2, a - 1} THEN NUL ELSE Byte(c, i)
    OBVIOUS
  <2>1. Byte(d, i) = z[i + 1] /\ Byte(c, i) = c.m_read_buf[i + 1]
    BY <1>5 DEF Byte
  <2> HIDE DEF r, a, n
  <2>2. i + 1 \in 1..r /\ (i + 1 \in {(a - 2) + 1, (a - 1) + 1} <=> i \in {a - 2, a - 1})
    BY <1>1
  <2> QED BY <1>2, <2>1, <2>2
<1>8. \A i \in Nat : 3 * j <= i /\ i < r /\ i < Total(m) => Byte(c, i) = Sym(m, i)
  BY DEF LineAt, Unread
<1>9. Unread(d, m, a)
  <2> SUFFICES ASSUME NEW i \in Nat, a <= i, i < r, i < Total(m)
               PROVE  Byte(d, i) = Sym(m, i)
    BY <1>6 DEF Unread
  <2> HIDE DEF r, a, n
  <2>1. i \notin {a - 2, a - 1} /\ 3 * j <= i
    BY <1>1
  <2> QED BY <1>7, <1>8, <2>1
<1>10. LinePassed(d, m, j)
  BY <1>1, <1>5, <1>6, <1>9 DEF LineAt, LinePassed
<1>11. Text(d, 3 * j) = IF j <= n THEN <<LineText(m, j)>> ELSE <<>>
  <2>1. CASE j <= n
    <3>1. /\ 3 * j \in Nat /\ a = 3 * j + 3 /\ 3 * j < r /\ a - 2 = 3 * j + 1 /\ j \in 0..n
          /\ 3 * j \notin {a - 2, a - 1} /\ 3 * j + 1 \in Nat /\ 3 * j + 1 < r
          /\ 3 * j + 1 \in {a - 2, a - 1}
      <4> HIDE DEF r, a, n
      <4> QED BY <1>1, <2>1
    <3>2. Byte(d, 3 * j + 1) = NUL
      BY <1>7, <3>1
    <3>3. Byte(d, 3 * j) = LineText(m, j)
      <4>1. /\ m.body \in Nat /\ Total(m) = 3 * n + 5 + m.body
            /\ Sym(m, 3 * j) = LineText(m, j)
        BY <3>1, SymIs
      <4>2. 3 * j < Total(m)
        BY <1>1, <2>1, <4>1
      <4> HIDE DEF a, r, n
      <4> QED BY <1>7, <1>8, <3>1, <4>1, <4>2
    <3>4. LineText(m, j) # NUL
      <4>1. LineText(m, j) \in Words \cup {CR}
        BY <3>1, SymIs
      <4> QED BY <4>1, ParserAssumption
    <3>5. \A k \in 3 * j .. (3 * j + 1) - 1 : Byte(d, k) # NUL
      <4>1. \A k \in 3 * j .. (3 * j + 1) - 1 : k = 3 * j
        BY <3>1
      <4> QED BY <3>3, <3>4, <4>1
    <3>6. Text(d, 3 * j) = SubSeq(d.m_read_buf, 3 * j + 1, 3 * j + 1)
      <4>1. 3 * j <= 3 * j + 1 /\ 3 * j + 1 <= m_read_idx(d)
        BY <1>1, <1>6, <3>1
      <4> HIDE DEF a, r, n
      <4> QED BY <1>5, <3>1, <3>2, <3>5, <4>1, TextIs
    <3>7. SubSeq(z, 3 * j + 1, 3 * j + 1) = <<z[3 * j + 1]>>
      <4>1. 3 * j + 1 \in 1..Len(z)
        BY <1>1, <1>2, <3>1
      <4> QED BY <1>2, <4>1, OneElement
    <3> QED BY <1>5, <2>1, <3>3, <3>6, <3>7 DEF Byte
  <2>2. CASE j = n + 1
    <3>1. /\ 3 * j \in Nat /\ a - 2 = 3 * j /\ 3 * j < r
      BY <1>1, <2>2
    <3>2. Byte(d, 3 * j) = NUL
      BY <1>7, <3>1
    <3>3. \A k \in 3 * j .. 3 * j - 1 : Byte(d, k) # NUL
      BY <3>1
    <3>4. Text(d, 3 * j) = SubSeq(d.m_read_buf, 3 * j + 1, 3 * j)
      <4>1. 3 * j <= 3 * j /\ 3 * j <= m_read_idx(d)
        BY <1>1, <1>6, <3>1
      <4> HIDE DEF a, r, n
      <4> QED BY <1>5, <3>1, <3>2, <3>3, <4>1, TextIs
    <3>5. SubSeq(z, 3 * j + 1, 3 * j) = <<>>
      <4>1. 3 * j < 3 * j + 1 /\ 3 * j + 1 \in Int
        BY <3>1
      <4> QED BY <1>2, <3>1, <4>1
    <3> QED BY <1>1, <1>5, <2>2, <3>4, <3>5
  <2> QED BY <1>1, <2>1, <2>2
<1>12. l.m_start_line = 3 * j
  BY <1>4 DEF Looked, LineAt
<1> QED BY <1>6, <1>10, <1>11, <1>12
-----------------------------------------------------------------------------
(* What process_read() makes of a message.                                 *)

(* The result a message asks for, once r bytes of it are read.             *)
Asked(m, r) ==
    IF m.line = "garbage" THEN IF r >= 3 THEN "BAD_REQUEST" ELSE "NO_REQUEST"
    ELSE IF ~NoCR(m, Len(m.headers) + 1) \/ r < Total(m) THEN "NO_REQUEST"
    ELSE "GET_REQUEST"

(* What process_read() makes of r bytes of m: what m asks for, or a record *)
(* to go on with.                                                          *)
Right(v, m, r) ==
    /\ v[1] = Asked(m, r)
    /\ v[1] = "GET_REQUEST" =>
         /\ HeadRead(v[2], m)
         /\ m.body > 0 => Text(v[2], v[2].m_string) = [k \in 1..m.body |-> "body"]
    /\ v[1] = "NO_REQUEST" => (\E j : LineAt(v[2], m, j)) \/ Resumed(v[2], m)

(* parse_request_line() on line 0 of m.                                    *)
LEMMA RequestLineDone ==
    ASSUME NEW m \in Messages, NEW d, LinePassed(d, m, 0)
    PROVE  \/ /\ m.line = "garbage"
              /\ ParseRequestLine(d, <<m.line>>) = <<"BAD_REQUEST", d>>
           \/ /\ m.line # "garbage"
              /\ ParseRequestLine(d, <<m.line>>)[1] = "NO_REQUEST"
              /\ LineAt(ParseRequestLine(d, <<m.line>>)[2], m, 1)
<1> DEFINE n == Len(m.headers)
<1>1. n \in Nat /\ m.line \in {"GET", "POST", "garbage"}
  BY SymIs DEF Messages
<1>2. CASE m.line = "garbage"
  <2>1. <<m.line>> \notin {<<"GET">>, <<"POST">>}
    BY <1>2
  <2> QED BY <1>2, <2>1 DEF ParseRequestLine
<1>3. CASE m.line \in {"GET", "POST"}
  <2> DEFINE e == [d EXCEPT !.m_check_state = "HEADER", !.m_method = m.line,
                            !.cgi = IF m.line = "POST" THEN 1 ELSE @]
  <2>1. ParseRequestLine(d, <<m.line>>) = <<"NO_REQUEST", e>>
    BY <1>3 DEF ParseRequestLine
  <2>2. d \in Conn /\ d.m_start_line = 3 /\ d.m_check_idx = 3
    BY <1>1 DEF LinePassed, After
  <2>3. /\ e.m_read_buf = d.m_read_buf /\ e.m_start_line = 3 /\ e.m_check_idx = 3
        /\ e.m_check_state = "HEADER" /\ e.m_method = m.line
        /\ e.m_linger = d.m_linger /\ e.m_content_length = d.m_content_length
    BY <2>2 DEF Conn
  <2> HIDE DEF e
  <2>4. Unread(e, m, 3)
    <3>1. Unread(d, m, 3)
      BY <1>1 DEF LinePassed, After
    <3> QED BY <2>3, <3>1 DEF Unread, m_read_idx, Byte
  <2>5. /\ Keeps(m, 0) = FALSE /\ Keeps(m, 1) = FALSE /\ Announces(m, 0) = FALSE
        /\ Announces(m, 1) = FALSE /\ NoCR(m, 1)
    BY DEF Keeps, Announces, NoCR
  <2>6. e.m_linger = Keeps(m, 1) /\ e.m_content_length = 0
    BY <2>3, <2>5 DEF LinePassed
  <2>7. LineAt(e, m, 1)
    <3>1. 3 * 1 = 3 /\ 1 \in 0..(n + 1) /\ 3 \in 3 * 1 .. CRFrom(m, 1)
      BY <1>1 DEF CRFrom
    <3>2. m.line # "garbage"
      BY <1>3
    <3> QED BY <2>3, <2>4, <2>5, <2>6, <3>1, <3>2 DEF LineAt
  <2> QED BY <1>3, <2>1, <2>7
<1> QED BY <1>1, <1>2, <1>3

(* parse_headers() on a header line of m.                                  *)
LEMMA HeaderDone ==
    ASSUME NEW m \in Messages, NEW d, NEW j \in 1..Len(m.headers), LinePassed(d, m, j)
    PROVE  /\ ParseHeaders(d, <<m.headers[j]>>)[1] = "NO_REQUEST"
           /\ LineAt(ParseHeaders(d, <<m.headers[j]>>)[2], m, j + 1)
<1> DEFINE n == Len(m.headers)
           w == m.headers[j]
           p == ParseHeaders(d, <<w>>)
           Told(e) ==
             /\ e.m_read_buf = d.m_read_buf /\ e.m_start_line = d.m_start_line
             /\ e.m_check_idx = d.m_check_idx /\ e.m_check_state = d.m_check_state
             /\ e.m_method = d.m_method
             /\ e.m_linger = IF w = "keep-alive" THEN TRUE ELSE d.m_linger
             /\ e.m_content_length =
                  IF w = "Content-Length" THEN BodyLength ELSE d.m_content_length
<1>1. n \in Nat /\ j \in Nat /\ j <= n /\ j > 0 /\ (j + 1) - 1 = j
  BY SymIs
<1>2. d \in Conn /\ d.m_start_line = 3 * (j + 1) /\ d.m_check_idx = 3 * (j + 1)
      /\ d.m_check_state = "HEADER" /\ m.line # "garbage" /\ d.m_method = m.line
      /\ After(m, j) = 3 * (j + 1)
  <2>1. After(m, j) = 3 * (j + 1)
    BY <1>1 DEF After
  <2> QED BY <1>1, <2>1 DEF LinePassed
<1>3. /\ d.m_linger = Keeps(m, j) /\ NoCR(m, j) /\ w # CR
      /\ d.m_content_length = IF Announces(m, j) THEN BodyLength ELSE 0
  BY <1>1 DEF LinePassed, LineText
<1>4. \A k : k \in 1..((j + 1) - 1) <=> k \in 1..(j - 1) \/ k = j
  BY <1>1
<1>5. /\ Keeps(m, j + 1) = (Keeps(m, j) \/ w = "keep-alive")
      /\ Announces(m, j + 1) = (Announces(m, j) \/ w = "Content-Length")
      /\ NoCR(m, j + 1)
  BY <1>3, <1>4 DEF Keeps, Announces, NoCR
<1>6. \E e : p = <<"NO_REQUEST", e>> /\ Told(e)
  <2>1. <<w>> # <<>>
    OBVIOUS
  <2>2. CASE w = "keep-alive"
    <3> DEFINE e == [d EXCEPT !.m_linger = TRUE]
    <3>1. p = <<"NO_REQUEST", e>>
      BY <2>1, <2>2 DEF ParseHeaders
    <3>2. /\ e.m_read_buf = d.m_read_buf /\ e.m_start_line = d.m_start_line
          /\ e.m_check_idx = d.m_check_idx /\ e.m_check_state = d.m_check_state
          /\ e.m_method = d.m_method /\ e.m_linger = TRUE
          /\ e.m_content_length = d.m_content_length
      BY <1>2 DEF Conn
    <3> HIDE DEF e, p
    <3> QED BY <2>2, <3>1, <3>2
  <2>3. CASE w = "Content-Length"
    <3> DEFINE e == [d EXCEPT !.m_content_length = BodyLength]
    <3>1. p = <<"NO_REQUEST", e>>
      BY <2>1, <2>3 DEF ParseHeaders
    <3>2. /\ e.m_read_buf = d.m_read_buf /\ e.m_start_line = d.m_start_line
          /\ e.m_check_idx = d.m_check_idx /\ e.m_check_state = d.m_check_state
          /\ e.m_method = d.m_method /\ e.m_linger = d.m_linger
          /\ e.m_content_length = BodyLength
      BY <1>2 DEF Conn
    <3> HIDE DEF e, p
    <3> QED BY <2>3, <3>1, <3>2
  <2>4. CASE w \notin {"keep-alive", "Content-Length"}
    <3>1. p = <<"NO_REQUEST", d>>
      <4>1. <<w>> # <<"keep-alive">> /\ <<w>> # <<"Content-Length">>
        BY <2>4
      <4> QED BY <2>1, <4>1 DEF ParseHeaders
    <3> HIDE DEF p
    <3> QED BY <2>4, <3>1
  <2> QED BY <2>2, <2>3, <2>4
<1> HIDE DEF p
<1>7. PICK e : p = <<"NO_REQUEST", e>> /\ Told(e)
  BY <1>6
<1>8. Unread(e, m, 3 * (j + 1))
  <2>1. Unread(d, m, 3 * (j + 1))
    BY <1>2 DEF LinePassed
  <2> QED BY <1>7, <2>1 DEF Unread, m_read_idx, Byte
<1>9. e.m_linger = Keeps(m, j + 1)
  <2>1. Keeps(m, j) \in BOOLEAN
    BY DEF Keeps
  <2> QED BY <1>3, <1>5, <1>7, <2>1
<1>10. e.m_content_length = IF Announces(m, j + 1) THEN BodyLength ELSE 0
  BY <1>3, <1>5, <1>7
<1>11. j + 1 \in 0..(n + 1) /\ j + 1 > 0 /\ j + 1 # 0
       /\ 3 * (j + 1) \in 3 * (j + 1) .. CRFrom(m, j + 1)
  BY <1>1 DEF CRFrom
<1>12. LineAt(e, m, j + 1)
  BY <1>2, <1>5, <1>7, <1>8, <1>9, <1>10, <1>11 DEF LineAt
<1> QED BY <1>7, <1>12 DEF p

(* A message has the body it announces; a negative length announces none.  *)
LEMMA BodyIs ==
    ASSUME NEW m \in Messages
    PROVE  /\ Length(m) \in Int
           /\ m.body = IF Length(m) > 0 THEN Length(m) ELSE 0
<1>1. Len(m.headers) \in Nat /\ m.headers \in Seq(Words \cup {CR})
  BY MessageTypes
<1>2. DOMAIN m.headers = 1..((Len(m.headers) + 1) - 1)
  BY <1>1
<1>3. m.body = IF BodyLength > 0 /\ \E k \in DOMAIN m.headers :
                                        m.headers[k] = "Content-Length"
                 THEN BodyLength ELSE 0
  BY DEF Messages
<1>4. m.body = IF BodyLength > 0 /\ Announces(m, Len(m.headers) + 1)
                 THEN BodyLength ELSE 0
  BY <1>2, <1>3 DEF Announces
<1> QED BY <1>4, ParserAssumption DEF Length

(* parse_headers() on the empty line: a request without a length is there. *)
LEMMA EmptyLineDone ==
    ASSUME NEW m \in Messages, NEW d, LinePassed(d, m, Len(m.headers) + 1)
    PROVE  /\ HeadRead(d, m)
           /\ \/ /\ m.body = 0 /\ ParseHeaders(d, <<>>) = <<"GET_REQUEST", d>>
              \/ /\ ParseHeaders(d, <<>>)[1] = "NO_REQUEST"
                 /\ BodyAt(ParseHeaders(d, <<>>)[2], m)
<1> DEFINE n == Len(m.headers)
<1>1. n \in Nat /\ m.body \in Nat /\ HeadOf(m) = 3 * n + 5 /\ n + 1 > 0 /\ n + 1 # 0
  BY SymIs
<1>2. d \in Conn /\ d.m_start_line = HeadOf(m) /\ d.m_check_idx = HeadOf(m)
      /\ d.m_content_length = Length(m) /\ Unread(d, m, HeadOf(m))
  <2>1. After(m, n + 1) = HeadOf(m)
    BY <1>1 DEF After
  <2> QED BY <2>1 DEF LinePassed, Length
<1>3. HeadRead(d, m)
  BY <1>1 DEF LinePassed, HeadRead
<1>4. <<>> # <<"keep-alive">> /\ <<>> # <<"Content-Length">>
  OBVIOUS
<1>5. CASE Length(m) = 0
  <2>1. m.body = 0
    BY <1>5, BodyIs
  <2> QED BY <1>2, <1>3, <1>4, <1>5, <2>1 DEF ParseHeaders
<1>6. CASE Length(m) # 0
  <2> DEFINE e == [d EXCEPT !.m_check_state = "CONTENT"]
  <2>1. ParseHeaders(d, <<>>) = <<"NO_REQUEST", e>>
    BY <1>2, <1>4, <1>6 DEF ParseHeaders
  <2>2. /\ e.m_read_buf = d.m_read_buf /\ e.m_start_line = d.m_start_line
        /\ e.m_check_idx = d.m_check_idx /\ e.m_check_state = "CONTENT"
        /\ e.m_method = d.m_method /\ e.m_linger = d.m_linger
        /\ e.m_content_length = d.m_content_length
    BY <1>2 DEF Conn
  <2> HIDE DEF e
  <2>3. Unread(e, m, HeadOf(m))
    BY <1>2, <2>2 DEF Unread, m_read_idx, Byte
  <2>4. BodyAt(e, m)
    BY <1>2, <1>3, <1>6, <2>2, <2>3 DEF BodyAt, HeadRead
  <2> QED BY <1>3, <2>1, <2>4
<1> QED BY <1>5, <1>6

(* A turn at a line of m's head gives what m asks for, or goes on with the *)
(* next line or with the body.                                             *)
LEMMA HeadTurn ==
    ASSUME NEW m \in Messages, NEW x \in Turns, Placed(x[1]), x[2] = "LINE_OK",
           NEW j, LineAt(x[1], m, j)
    PROVE  /\ Ends(x) => Right(Value(x), m, m_read_idx(x[1]))
           /\ ~Ends(x) => /\ GoesOn(x)[2] = "LINE_OK"
                          /\ m_read_idx(GoesOn(x)[1]) = m_read_idx(x[1])
                          /\ \/ LineAt(GoesOn(x)[1], m, j + 1)
                             \/ BodyAt(GoesOn(x)[1], m)
<1> DEFINE n == Len(m.headers)
           c == x[1]
           r == m_read_idx(c)
           a == After(m, j)
<1>1. /\ c \in Conn /\ r \in Nat /\ n \in Nat /\ j \in 0..(n + 1)
      /\ m.line \in {"GET", "POST", "garbage"} /\ m.line # CR
      /\ HeadOf(m) = 3 * n + 5 /\ m.body \in Nat /\ Total(m) = HeadOf(m) + m.body
  <2>1. c \in Conn /\ r \in Nat
    BY DEF Turns, Conn, m_read_idx
  <2>2. m.line \in {"GET", "POST", "garbage"}
    BY DEF Messages
  <2>3. m.line # CR
    BY <2>2, ParserAssumption DEF Words
  <2> QED BY <2>1, <2>2, <2>3, SymIs DEF LineAt
<1>2. c.m_check_state = IF j = 0 THEN "REQUESTLINE" ELSE "HEADER"
  BY DEF LineAt
<1>3. LineOf(x) = ParseLine(c)
  BY <1>2 DEF LineOf, NextLine
<1>4. a \in Nat /\ (j = 0 => a = 3) /\ a <= Total(m) /\ (j = n + 1 => a = HeadOf(m))
  BY <1>1 DEF After
<1>5. CASE /\ ParseLine(c)[1] # "LINE_OK"
           /\ r < a \/ (j <= n /\ LineText(m, j) = CR)
           /\ LineAt(ParseLine(c)[2], m, j)
  <2>1. Ends(x) /\ Value(x) = <<"NO_REQUEST", ParseLine(c)[2]>>
    BY <1>3, <1>5 DEF Ends, Value
  <2>2. Asked(m, r) = "NO_REQUEST"
    <3>1. CASE m.line = "garbage"
      <4>1. j = 0
        BY <1>1, <3>1 DEF LineAt
      <4>2. r < 3
        BY <1>1, <1>4, <1>5, <4>1 DEF LineText
      <4>3. ~(r >= 3)
        BY <1>1, <4>2
      <4> QED BY <3>1, <4>3 DEF Asked
    <3>2. CASE m.line # "garbage" /\ r < a
      <4>1. r < Total(m)
        BY <1>1, <1>4, <3>2
      <4> QED BY <3>2, <4>1 DEF Asked
    <3>3. CASE m.line # "garbage" /\ j <= n /\ LineText(m, j) = CR
      <4>1. j # 0 /\ m.headers[j] = CR
        BY <1>1, <3>3 DEF LineText
      <4>2. j \in 1..((n + 1) - 1)
        BY <1>1, <3>3, <4>1
      <4>3. ~NoCR(m, n + 1)
        BY <4>1, <4>2 DEF NoCR
      <4> QED BY <3>3, <4>3 DEF Asked
    <3> QED BY <1>5, <3>1, <3>2, <3>3
  <2> QED BY <1>5, <2>1, <2>2 DEF Right
<1>6. CASE /\ ParseLine(c) = <<"LINE_OK", Moved(c, a, Zeroed(c, a - 2, a - 1))>>
           /\ a <= r
           /\ j <= n => LineText(m, j) # CR
  <2> DEFINE l == Moved(c, a, Zeroed(c, a - 2, a - 1))
             d == [l EXCEPT !.m_start_line = l.m_check_idx]
             t == IF j <= n THEN <<LineText(m, j)>> ELSE <<>>
             h == Handled(l)
  <2>1. LineOf(x)[1] = "LINE_OK" /\ LineOf(x)[2] = l
    BY <1>3, <1>6
  <2>2. /\ LinePassed(d, m, j) /\ m_read_idx(d) = r
        /\ l.m_start_line = 3 * j /\ Text(d, 3 * j) = t
    BY <1>6, LineTaken
  <2>3. h = CASE d.m_check_state = "REQUESTLINE" -> ParseRequestLine(d, t)
              [] d.m_check_state = "HEADER" -> ParseHeaders(d, t)
              [] d.m_check_state = "CONTENT" -> ParseContent(d, 3 * j)
    BY <2>2 DEF Handled
  <2>4. l \in Conn /\ l.m_check_state = c.m_check_state /\ m_read_idx(l) = r
    <3>1. ParseLine(c)[2] = l
      BY <1>6
    <3> HIDE DEF l
    <3> QED BY <1>1, <3>1, ParseLineKeeps DEF Looked
  <2>5. StepOf(x) = h
    BY <2>1 DEF StepOf
  <2>6. /\ Ends(x) <=> h[1] # "NO_REQUEST"
        /\ Value(x) = h /\ GoesOn(x) = <<h[2], "LINE_OK">>
    <3>1. l.m_check_state # "CONTENT"
      BY <1>2, <2>4
    <3> QED BY <2>1, <2>5, <3>1 DEF Ends, Value, GoesOn
  <2>7. m_read_idx(h[2]) = r
    <3> HIDE DEF l
    <3> QED BY <2>4, HandledKeeps
  <2>8. d.m_check_state = IF j = 0 THEN "REQUESTLINE" ELSE "HEADER"
    BY <2>2 DEF LinePassed
  <2> HIDE DEF h, d, l
  <2>9. CASE j = 0
    <3>1. t = <<m.line>> /\ h = ParseRequestLine(d, <<m.line>>)
      BY <1>1, <2>3, <2>8, <2>9 DEF LineText
    <3>2. \/ m.line = "garbage" /\ h = <<"BAD_REQUEST", d>>
          \/ m.line # "garbage" /\ h[1] = "NO_REQUEST" /\ LineAt(h[2], m, 1)
      BY <2>2, <2>9, <3>1, RequestLineDone
    <3>3. CASE m.line = "garbage" /\ h = <<"BAD_REQUEST", d>>
      <4>1. r >= 3
        BY <1>1, <1>4, <1>6, <2>9
      <4> QED BY <2>6, <3>3, <4>1 DEF Right, Asked
    <3>4. CASE m.line # "garbage" /\ h[1] = "NO_REQUEST" /\ LineAt(h[2], m, 1)
      <4>1. j + 1 = 1
        BY <2>9
      <4> QED BY <2>6, <2>7, <3>4, <4>1
    <3> QED BY <3>2, <3>3, <3>4
  <2>10. CASE j \in 1..n
    <3>1. t = <<m.headers[j]>> /\ h = ParseHeaders(d, <<m.headers[j]>>)
      <4>1. j # 0 /\ j <= n
        BY <1>1, <2>10
      <4> QED BY <2>3, <2>8, <4>1 DEF LineText
    <3>2. h[1] = "NO_REQUEST" /\ LineAt(h[2], m, j + 1)
      BY <2>2, <2>10, <3>1, HeaderDone
    <3> QED BY <2>6, <2>7, <3>2
  <2>11. CASE j = n + 1
    <3>1. h = ParseHeaders(d, <<>>)
      <4>1. j # 0 /\ ~(j <= n)
        BY <1>1, <2>11
      <4> QED BY <2>3, <2>8, <4>1
    <3>2. /\ HeadRead(d, m)
          /\ \/ m.body = 0 /\ h = <<"GET_REQUEST", d>>
             \/ h[1] = "NO_REQUEST" /\ BodyAt(h[2], m)
      BY <2>2, <2>11, <3>1, EmptyLineDone
    <3>3. CASE m.body = 0 /\ h = <<"GET_REQUEST", d>>
      <4>1. ~(r < Total(m)) /\ ~(m.body > 0)
        BY <1>1, <1>4, <1>6, <2>11, <3>3
      <4>2. Asked(m, r) = "GET_REQUEST"
        BY <3>2, <4>1 DEF Asked, HeadRead
      <4> QED BY <2>6, <3>2, <3>3, <4>1, <4>2 DEF Right
    <3>4. CASE h[1] = "NO_REQUEST" /\ BodyAt(h[2], m)
      BY <2>6, <2>7, <3>4
    <3> QED BY <3>2, <3>3, <3>4
  <2> QED BY <1>1, <2>9, <2>10, <2>11
<1>7. Len(m.headers) = n /\ r = m_read_idx(c) /\ a = After(m, j)
  OBVIOUS
<1> HIDE DEF n, r, a
<1> QED BY <1>5, <1>6, <1>7, LineFound

(* A turn at the body: all of it is there, or the loop waits.              *)
LEMMA BodyTurn ==
    ASSUME NEW m \in Messages, NEW x \in Turns, Placed(x[1]), x[2] = "LINE_OK",
           BodyAt(x[1], m)
    PROVE  /\ Ends(x) => Right(Value(x), m, m_read_idx(x[1]))
           /\ ~Ends(x) => /\ m_read_idx(GoesOn(x)[1]) = m_read_idx(x[1])
                          /\ m_read_idx(x[1]) < Total(m)
                          /\ Resumed(GoesOn(x)[1], m)
<1> DEFINE c == x[1]
           r == m_read_idx(c)
           s == HeadOf(m)
           b == Length(m)
           e == s + b
           z == Zeroed(c, e, e)
           w == [c EXCEPT !.m_read_buf = z, !.m_string = s]
<1>1. /\ c \in Conn /\ r \in Nat /\ s \in Nat /\ s <= r /\ b \in Int /\ b # 0
      /\ m.body = IF b > 0 THEN b ELSE 0
      /\ Total(m) = IF b > 0 THEN e ELSE s
      /\ c.m_start_line = s /\ c.m_check_idx = s /\ c.m_check_state = "CONTENT"
      /\ c.m_content_length = b
  <2>1. c \in Conn /\ r \in Nat
    BY DEF Turns, Conn, m_read_idx
  <2>2. /\ s \in Nat /\ b \in Int /\ m.body = IF b > 0 THEN b ELSE 0
        /\ Total(m) = s + m.body
    BY SymIs, BodyIs
  <2> HIDE DEF b
  <2>3. /\ c.m_start_line = s /\ c.m_check_idx = s /\ c.m_check_state = "CONTENT"
        /\ c.m_content_length = b /\ b # 0 /\ s <= r
    BY DEF BodyAt, Placed, b
  <2> HIDE DEF s, r, c
  <2> QED BY <2>1, <2>2, <2>3
<1>2. LineOf(x) = <<"LINE_OK", c>>
  BY <1>1 DEF LineOf, NextLine
<1>3. [c EXCEPT !.m_start_line = c.m_check_idx] = c
  BY <1>1 DEF Conn
<1>4. Handled(c) = ParseContent(c, s)
  BY <1>1, <1>3 DEF Handled
<1>5. CASE r >= b + s
  <2>1. ParseContent(c, s) = <<"GET_REQUEST", w>>
    BY <1>1, <1>5 DEF ParseContent
  <2>2. Ends(x) /\ Value(x) = <<"GET_REQUEST", w>>
    BY <1>2, <1>4, <2>1 DEF Ends, Value, StepOf
  <2>3. /\ z \in Seq(Bytes) /\ Len(z) = r
        /\ \A k \in 1..r : z[k] = IF k = e + 1 THEN NUL ELSE c.m_read_buf[k]
    <3>1. Len(c.m_read_buf) = r
      BY DEF m_read_idx
    <3> HIDE DEF r, e
    <3> QED BY <1>1, <3>1, ZeroedKeeps
  <2> HIDE DEF z
  <2>4. /\ w \in Conn /\ w.m_read_buf = z /\ w.m_string = s
        /\ w.m_method = c.m_method /\ w.m_linger = c.m_linger
    BY <1>1, <2>3 DEF Conn
  <2> HIDE DEF w
  <2>5. m_read_idx(w) = r
    BY <2>3, <2>4 DEF m_read_idx
  <2>6. \A i \in Nat : i < r => Byte(w, i) = IF i = e THEN NUL ELSE Byte(c, i)
    <3> SUFFICES ASSUME NEW i \in Nat, i < r
                 PROVE  Byte(w, i) = IF i = e THEN NUL ELSE Byte(c, i)
      OBVIOUS
    <3>1. Byte(w, i) = z[i + 1] /\ Byte(c, i) = c.m_read_buf[i + 1]
      BY <2>4 DEF Byte
    <3>2. i + 1 \in 1..r /\ (i + 1 = e + 1 <=> i = e)
      BY <1>1
    <3> HIDE DEF r, e
    <3> QED BY <2>3, <3>1, <3>2
  <2>7. b > 0 => \A i \in Nat : s <= i /\ i < e => Byte(w, i) = "body"
    <3> SUFFICES ASSUME b > 0, NEW i \in Nat, s <= i, i < e PROVE Byte(w, i) = "body"
      OBVIOUS
    <3>1. i < r /\ i # e /\ i < Total(m)
      BY <1>1, <1>5
    <3>2. Byte(c, i) = Sym(m, i)
      BY <3>1 DEF BodyAt, Unread
    <3>3. Sym(m, i) = "body"
      BY <3>1, SymIs
    <3> HIDE DEF r, e
    <3> QED BY <2>6, <3>1, <3>2, <3>3
  <2>8. b > 0 => Text(w, s) = SubSeq(w.m_read_buf, s + 1, e)
    <3> SUFFICES ASSUME b > 0 PROVE Text(w, s) = SubSeq(w.m_read_buf, s + 1, e)
      OBVIOUS
    <3>1. \A k \in s..(e - 1) : Byte(w, k) # NUL
      <4>1. \A k \in s..(e - 1) : k \in Nat /\ s <= k /\ k < e
        BY <1>1
      <4>2. "body" # NUL
        BY ParserAssumption DEF Words
      <4> QED BY <2>7, <4>1, <4>2
    <3>2. e \in Nat /\ s <= e /\ e <= m_read_idx(w)
      BY <1>1, <1>5, <2>5
    <3>3. e < m_read_idx(w) => Byte(w, e) = NUL
      <4> HIDE DEF r, e
      <4> QED BY <2>5, <2>6, <3>2
    <3> HIDE DEF e, s
    <3> QED BY <1>1, <2>4, <3>1, <3>2, <3>3, TextIs
  <2>9. b > 0 => SubSeq(z, s + 1, e) = [k \in 1..b |-> "body"]
    <3> SUFFICES ASSUME b > 0 PROVE SubSeq(z, s + 1, e) = [k \in 1..b |-> "body"]
      OBVIOUS
    <3> DEFINE u == SubSeq(z, s + 1, e)
               v == [k \in 1..b |-> "body"]
    <3>1. e \in Nat /\ e <= r /\ (e + 1) - (s + 1) = b
      BY <1>1, <1>5
    <3>2. u \in Seq(Bytes) /\ Len(u) = b /\ \A k \in 1..b : u[k] = z[s + k]
      <4>1. s + b <= Len(z) /\ s \in Nat /\ b \in Nat /\ z \in Seq(Bytes)
        BY <1>1, <2>3, <3>1
      <4> HIDE DEF s, b
      <4>2. /\ SubSeq(z, s + 1, s + b) \in Seq(Bytes) /\ Len(SubSeq(z, s + 1, s + b)) = b
            /\ \A k \in 1..b : SubSeq(z, s + 1, s + b)[k] = z[s + k]
        BY <4>1, PieceIs
      <4> QED BY <4>2
    <3>3. \A k \in 1..b : z[s + k] = "body"
      <4> SUFFICES ASSUME NEW k \in 1..b PROVE z[s + k] = "body"
        OBVIOUS
      <4>1. s + k - 1 \in Nat /\ s <= s + k - 1 /\ s + k - 1 < e /\ (s + k - 1) + 1 = s + k
        BY <1>1
      <4>2. Byte(w, s + k - 1) = z[s + k]
        BY <2>4, <4>1 DEF Byte
      <4> HIDE DEF e
      <4> QED BY <2>7, <4>1, <4>2
    <3>4. v \in Seq(Bytes) /\ Len(v) = b /\ \A k \in 1..b : v[k] = "body"
      BY <1>1 DEF Bytes, Words
    <3> HIDE DEF u, v
    <3>5. u = v
      <4>1. \A k \in 1..Len(u) : u[k] = v[k]
        BY <3>2, <3>3, <3>4
      <4> QED BY <3>2, <3>4, <4>1, SeqEqual
    <3> QED BY <3>5 DEF u, v
  <2>10. HeadRead(w, m)
    BY <2>4 DEF BodyAt, HeadRead
  <2>11. Asked(m, r) = "GET_REQUEST"
    <3>1. ~(r < Total(m))
      BY <1>1, <1>5
    <3> QED BY <3>1 DEF Asked, BodyAt, HeadRead
  <2>12. m.body > 0 => Text(w, w.m_string) = [k \in 1..m.body |-> "body"]
    <3>1. m.body > 0 => b > 0 /\ m.body = b
      BY <1>1
    <3> HIDE DEF b, e, s
    <3> QED BY <2>4, <2>8, <2>9, <3>1
  <2>13. Right(<<"GET_REQUEST", w>>, m, r)
    BY <2>10, <2>11, <2>12 DEF Right
  <2> QED BY <2>2, <2>13
<1>6. CASE ~(r >= b + s)
  <2>1. ParseContent(c, s) = <<"NO_REQUEST", c>>
    BY <1>1, <1>6 DEF ParseContent
  <2>2. ~Ends(x) /\ GoesOn(x)[1] = c
    BY <1>2, <1>4, <2>1 DEF Ends, GoesOn, StepOf
  <2>3. r < Total(m)
    BY <1>1, <1>6
  <2>4. Resumed(c, m)
    BY <1>1 DEF BodyAt, Resumed, HeadRead
  <2> QED BY <2>2, <2>3, <2>4
<1> QED BY <1>5, <1>6

(* A turn at a body that was looked at before.                             *)
LEMMA WaitTurn ==
    ASSUME NEW m \in Messages, NEW x \in Turns, Placed(x[1]), Resumed(x[1], m)
    PROVE  /\ Ends(x) => \/ Value(x)[1] = "NO_REQUEST" /\ Resumed(Value(x)[2], m)
                         \/ Value(x)[1] = "GET_REQUEST" /\ Total(m) <= m_read_idx(x[1])
           /\ ~Ends(x) => /\ m_read_idx(GoesOn(x)[1]) = m_read_idx(x[1])
                          /\ Resumed(GoesOn(x)[1], m)
<1> DEFINE r == m_read_idx(x[1])
           l == LineOf(x)[2]
           d == [l EXCEPT !.m_start_line = l.m_check_idx]
           z == Zeroed(d, l.m_start_line + d.m_content_length,
                          l.m_start_line + d.m_content_length)
<1>1. /\ HeadOf(m) \in Nat /\ Length(m) \in Int
      /\ Total(m) = HeadOf(m) + (IF Length(m) > 0 THEN Length(m) ELSE 0)
  BY SymIs, BodyIs
<1>2. /\ l \in Conn /\ m_read_idx(l) = r /\ l.m_check_state = "CONTENT"
      /\ l.m_content_length = Length(m) /\ HeadOf(m) <= l.m_check_idx
      /\ l.m_check_idx <= r
  <2>1. Looked(x[1], l) /\ x[1].m_check_idx <= l.m_check_idx /\ Placed(l)
    BY LineKeeps
  <2>2. x[1] \in Conn
    BY DEF Turns
  <2> HIDE DEF l
  <2>3. x[1].m_check_idx \in Nat /\ l.m_check_idx \in Nat
    BY <2>1, <2>2 DEF Looked, Conn
  <2> QED BY <1>1, <2>1, <2>3 DEF Looked, Resumed, Placed
<1>3. m.line # "garbage"
  BY DEF Resumed
<1>4. Resumed(l, m)
  BY <1>2, <1>3 DEF Resumed
<1>5. CASE LineOf(x)[1] # "LINE_OK"
  BY <1>4, <1>5 DEF Ends, Value
<1>6. CASE LineOf(x)[1] = "LINE_OK"
  <2>1. StepOf(x) = Handled(l)
    BY DEF StepOf
  <2> HIDE DEF l
  <2>2. /\ d \in Conn /\ m_read_idx(d) = r /\ d.m_check_idx = l.m_check_idx
        /\ d.m_check_state = "CONTENT" /\ d.m_content_length = Length(m)
    BY <1>2 DEF Conn, m_read_idx
  <2>3. Handled(l) = ParseContent(d, l.m_start_line)
    BY <2>2 DEF Handled
  <2> HIDE DEF d
  <2>4. r \in Nat /\ l.m_check_idx \in Nat
    BY <1>2 DEF Conn, m_read_idx
  <2>5. CASE r >= Length(m) + l.m_check_idx
    <3>1. Handled(l)[1] = "GET_REQUEST"
      BY <2>2, <2>3, <2>5 DEF ParseContent
    <3>2. Total(m) <= r
      BY <1>1, <1>2, <2>4, <2>5
    <3> QED BY <1>6, <2>1, <3>1, <3>2 DEF Ends, Value
  <2>6. CASE ~(r >= Length(m) + l.m_check_idx)
    <3>1. Handled(l) = <<"NO_REQUEST", d>>
      BY <2>2, <2>3, <2>6 DEF ParseContent
    <3>2. ~Ends(x) /\ GoesOn(x)[1] = d
      BY <1>6, <2>1, <3>1 DEF Ends, GoesOn
    <3>3. Resumed(d, m)
      BY <1>2, <1>3, <2>2 DEF Resumed
    <3> QED BY <2>2, <3>2, <3>3
  <2> QED BY <2>5, <2>6
<1> QED BY <1>5, <1>6

(* process_read() on bytes of m, before its head is done.                  *)
LEMMA HeadRun ==
    ASSUME NEW m \in Messages, NEW c, Placed(c), NEW i, LineAt(c, m, i)
    PROVE  Right(ProcessRead(c), m, m_read_idx(c))
<1> DEFINE r == m_read_idx(c)
           AtHead(x) == x[2] = "LINE_OK" /\ \E j : LineAt(x[1], m, j)
           AtBody(x) == x[2] = "LINE_OK" /\ BodyAt(x[1], m)
           Waits(x) == Resumed(x[1], m) /\ r < Total(m)
           P == {x \in Turns : /\ Placed(x[1]) /\ m_read_idx(x[1]) = r
                               /\ AtHead(x) \/ AtBody(x) \/ Waits(x)}
           Q == {v \in {Value(x) : x \in Turns} : Right(v, m, r)}
<1>1. ASSUME NEW x \in P
      PROVE  IF Ends(x) THEN Value(x) \in Q ELSE GoesOn(x) \in P
  <2>1. x \in Turns /\ Placed(x[1]) /\ m_read_idx(x[1]) = r
    OBVIOUS
  <2>2. ~Ends(x) => GoesOn(x) \in Turns /\ Placed(GoesOn(x)[1])
    BY <2>1, GoesOnToTurn, LeftFalls
  <2>3. SUFFICES /\ Ends(x) => Right(Value(x), m, r)
                 /\ ~Ends(x) =>
                      /\ m_read_idx(GoesOn(x)[1]) = r
                      /\ AtHead(GoesOn(x)) \/ AtBody(GoesOn(x)) \/ Waits(GoesOn(x))
    BY <2>1, <2>2
  <2> HIDE DEF r
  <2>4. CASE AtHead(x)
    <3>1. PICK j : LineAt(x[1], m, j)
      BY <2>4
    <3> QED BY <2>1, <2>4, <3>1, HeadTurn
  <2>5. CASE AtBody(x)
    BY <2>1, <2>5, BodyTurn
  <2>6. CASE Waits(x)
    <3>1. /\ Ends(x) => \/ Value(x)[1] = "NO_REQUEST" /\ Resumed(Value(x)[2], m)
                        \/ Value(x)[1] = "GET_REQUEST" /\ Total(m) <= r
          /\ ~Ends(x) => m_read_idx(GoesOn(x)[1]) = r /\ Resumed(GoesOn(x)[1], m)
      BY <2>1, <2>6, WaitTurn
    <3>2. ~(Total(m) <= r)
      <4>1. Total(m) \in Nat /\ r \in Nat
        BY <2>1, SymIs DEF Turns, Conn, m_read_idx
      <4> QED BY <2>6, <4>1
    <3>3. Asked(m, r) = "NO_REQUEST"
      BY <2>6 DEF Asked, Resumed
    <3> QED BY <2>6, <3>1, <3>2, <3>3 DEF Right
  <2> QED BY <2>4, <2>5, <2>6
<1>2. EndsIn(P, Q)
  BY <1>1 DEF EndsIn
<1>3. <<c, "LINE_OK">> \in P
  BY DEF Placed, Turns
<1> HIDE DEF P, Q
<1>4. Loop[<<c, "LINE_OK">>] \in Q
  BY <1>2, <1>3, LoopEnds
<1> QED BY <1>4 DEF ProcessRead, Q

(* process_read() after its head was done in an earlier read.              *)
LEMMA BodyRun ==
    ASSUME NEW m \in Messages, NEW c, Placed(c), Resumed(c, m)
    PROVE  \/ ProcessRead(c)[1] = "NO_REQUEST" /\ Resumed(ProcessRead(c)[2], m)
           \/ ProcessRead(c)[1] = "GET_REQUEST" /\ Total(m) <= m_read_idx(c)
<1> DEFINE r == m_read_idx(c)
           Good(v) == \/ v[1] = "NO_REQUEST" /\ Resumed(v[2], m)
                      \/ v[1] = "GET_REQUEST" /\ Total(m) <= r
           P == {x \in Turns : /\ Placed(x[1]) /\ m_read_idx(x[1]) = r
                               /\ Resumed(x[1], m)}
           Q == {v \in {Value(x) : x \in Turns} : Good(v)}
<1>1. ASSUME NEW x \in P
      PROVE  IF Ends(x) THEN Value(x) \in Q ELSE GoesOn(x) \in P
  <2>1. x \in Turns /\ Placed(x[1]) /\ m_read_idx(x[1]) = r /\ Resumed(x[1], m)
    OBVIOUS
  <2>2. ~Ends(x) => GoesOn(x) \in Turns /\ Placed(GoesOn(x)[1])
    BY <2>1, GoesOnToTurn, LeftFalls
  <2> HIDE DEF r
  <2>3. /\ Ends(x) => Good(Value(x))
        /\ ~Ends(x) => m_read_idx(GoesOn(x)[1]) = r /\ Resumed(GoesOn(x)[1], m)
    BY <2>1, WaitTurn
  <2> QED BY <2>1, <2>2, <2>3
<1>2. EndsIn(P, Q)
  BY <1>1 DEF EndsIn
<1>3. <<c, "LINE_OK">> \in P
  BY DEF Placed, Turns
<1> HIDE DEF P, Q, Good
<1>4. Loop[<<c, "LINE_OK">>] \in Q
  BY <1>2, <1>3, LoopEnds
<1>5. Good(Loop[<<c, "LINE_OK">>])
  BY <1>4 DEF Q
<1> QED BY <1>5 DEF ProcessRead, Good

(* A record follows m when it is at a line of its head, or past the head.  *)
Follows(c, m) == (\E j : LineAt(c, m, j)) \/ Resumed(c, m)

(* It goes on following m when the next bytes of m are read.               *)
LEMMA MoreRead ==
    ASSUME NEW m \in Messages, NEW c \in Conn, Follows(c, m), NEW s \in Seq(Bytes),
           \A k \in 1..Len(s) : (m_read_idx(c) + k) - 1 < Total(m)
                                  => s[k] = Sym(m, (m_read_idx(c) + k) - 1),
           NEW d, d = [c EXCEPT !.m_read_buf = @ \o s]
    PROVE  Follows(d, m) /\ m_read_idx(d) = m_read_idx(c) + Len(s)
<1> DEFINE b == c.m_read_buf
           r == m_read_idx(c)
<1>1. b \in Seq(Bytes) /\ Len(b) = r /\ r \in Nat /\ Len(s) \in Nat
  BY DEF Conn, m_read_idx
<1>2. /\ d.m_read_buf = b \o s /\ d.m_start_line = c.m_start_line
      /\ d.m_check_idx = c.m_check_idx /\ d.m_check_state = c.m_check_state
      /\ d.m_method = c.m_method /\ d.m_linger = c.m_linger
      /\ d.m_content_length = c.m_content_length
  BY DEF Conn
<1>3. \A i : Byte(d, i) = (b \o s)[i + 1] /\ Byte(c, i) = b[i + 1]
  BY <1>2 DEF Byte
<1>4. m_read_idx(d) = Len(b \o s)
  BY <1>2 DEF m_read_idx
<1> HIDE DEF b, r
<1>5. b \in Seq(Bytes) /\ s \in Seq(Bytes)
  BY <1>1
<1>6. /\ Len(b \o s) = Len(b) + Len(s)
      /\ \A i \in 1..Len(b) : (b \o s)[i] = b[i]
      /\ \A i \in 1..Len(s) : (b \o s)[Len(b) + i] = s[i]
  BY <1>5, Appended
<1>7. \A i \in Nat : i < r => Byte(d, i) = Byte(c, i)
  <2> SUFFICES ASSUME NEW i \in Nat, i < r PROVE Byte(d, i) = Byte(c, i)
    OBVIOUS
  <2>1. i + 1 \in 1..Len(b)
    BY <1>1
  <2> QED BY <1>3, <1>6, <2>1
<1>8. ASSUME NEW i \in Nat, r <= i, i < r + Len(s), i < Total(m)
      PROVE  Byte(d, i) = Sym(m, i)
  <2> DEFINE k == (i - r) + 1
  <2>1. k \in 1..Len(s) /\ r + k = i + 1 /\ (r + k) - 1 = i
    BY <1>1, <1>8
  <2> HIDE DEF k
  <2>2. s[k] = Sym(m, i)
    BY <1>8, <2>1 DEF r
  <2>3. (b \o s)[i + 1] = s[k]
    BY <1>1, <1>6, <2>1
  <2> QED BY <1>3, <2>2, <2>3
<1>9. m_read_idx(d) = r + Len(s)
  BY <1>1, <1>4, <1>6
<1>10. ASSUME NEW p, Unread(c, m, p) PROVE Unread(d, m, p)
  <2> SUFFICES ASSUME NEW i \in Nat, p <= i, i < m_read_idx(d), i < Total(m)
               PROVE  Byte(d, i) = Sym(m, i)
    BY DEF Unread
  <2>1. CASE i < r
    <3>1. Byte(c, i) = Sym(m, i)
      BY <1>10, <2>1 DEF Unread, r
    <3> QED BY <1>7, <2>1, <3>1
  <2>2. CASE r <= i
    BY <1>8, <1>9, <2>2
  <2> QED BY <1>1, <2>1, <2>2
<1>11. ASSUME NEW j, LineAt(c, m, j) PROVE LineAt(d, m, j)
  BY <1>2, <1>10, <1>11 DEF LineAt
<1>12. Resumed(c, m) => Resumed(d, m)
  BY <1>2 DEF Resumed
<1> QED BY <1>9, <1>11, <1>12 DEF Follows, r

(* It follows any m before the first byte.                                 *)
LEMMA ResetFollows ==
    ASSUME NEW m \in Messages, NEW c \in Conn
    PROVE  Follows(Reset(c), m)
<1> DEFINE d == Reset(c)
<1>1. /\ d.m_read_buf = <<>> /\ d.m_start_line = 0 /\ d.m_check_idx = 0
      /\ d.m_check_state = "REQUESTLINE" /\ d.m_linger = FALSE /\ d.m_content_length = 0
  BY DEF Reset, Conn
<1> HIDE DEF d
<1>2. m_read_idx(d) = 0
  BY <1>1 DEF m_read_idx
<1>3. Unread(d, m, 0)
  BY <1>2 DEF Unread
<1>4. Keeps(m, 0) = FALSE /\ Announces(m, 0) = FALSE /\ NoCR(m, 0)
  BY DEF Keeps, Announces, NoCR
<1>5. 3 * 0 = 0 /\ 0 \in 0..(Len(m.headers) + 1) /\ 0 \in 0 .. CRFrom(m, 0)
  BY SymIs DEF CRFrom
<1>6. LineAt(d, m, 0)
  <2>1. /\ d.m_linger = Keeps(m, 0)
        /\ d.m_content_length = IF Announces(m, 0) THEN BodyLength ELSE 0
    BY <1>1, <1>4
  <2>2. d.m_start_line = 3 * 0 /\ d.m_check_idx \in 3 * 0 .. CRFrom(m, 0)
        /\ Unread(d, m, 3 * 0) /\ ~(0 > 0)
    BY <1>1, <1>3, <1>5
  <2> QED BY <1>1, <1>4, <1>5, <2>1, <2>2 DEF LineAt
<1> QED BY <1>6 DEF Follows, d

(* process_read() leaves a record that follows m, or is done with it.      *)
LEMMA ReadFollows ==
    ASSUME NEW m \in Messages, NEW c, Placed(c), Follows(c, m)
    PROVE  /\ ProcessRead(c)[1] = "NO_REQUEST" => Follows(ProcessRead(c)[2], m)
           /\ ProcessRead(c)[1] = "GET_REQUEST" => Total(m) <= m_read_idx(c)
<1>1. ASSUME NEW j, LineAt(c, m, j)
      PROVE  /\ ProcessRead(c)[1] = "NO_REQUEST" => Follows(ProcessRead(c)[2], m)
             /\ ProcessRead(c)[1] = "GET_REQUEST" => Total(m) <= m_read_idx(c)
  <2>1. Right(ProcessRead(c), m, m_read_idx(c))
    BY <1>1, HeadRun
  <2>2. Total(m) \in Nat /\ m_read_idx(c) \in Nat
    BY SymIs DEF Placed, Conn, m_read_idx
  <2>3. Asked(m, m_read_idx(c)) = "GET_REQUEST" => ~(m_read_idx(c) < Total(m))
    BY DEF Asked
  <2> QED BY <2>1, <2>2, <2>3 DEF Right, Follows
<1>2. CASE Resumed(c, m)
  BY <1>2, BodyRun DEF Follows
<1> QED BY <1>1, <1>2 DEF Follows
-----------------------------------------------------------------------------
(* The object reads the message it is at.                                  *)

(* While a request is read, the buffer holds what was read since the last  *)
(* init(), and the record follows the message it began with, if any.       *)
FollowInv ==
    stage \in {"in", "work"} =>
        /\ m_read_idx(conn) = got - begin
        /\ \A i \in 1..Len(msgs) : begin = StartIn(msgs, i) => Follows(conn, msgs[i])

(* The bytes of a read go on where those of the message stopped.           *)
LEMMA ReadGoesOn ==
    ASSUME Typed, FollowInv, stage = "in", NEW n \in (got + 1)..Len(Stream),
           NEW d, d = [conn EXCEPT !.m_read_buf = @ \o SubSeq(Stream, got + 1, n)]
    PROVE  /\ m_read_idx(d) = n - begin
           /\ \A i \in 1..Len(msgs) : begin = StartIn(msgs, i) => Follows(d, msgs[i])
<1> DEFINE st == Stream
           s == SubSeq(st, got + 1, n)
           r == m_read_idx(conn)
<1>1. /\ msgs \in Seq(Messages) /\ begin \in Nat /\ got \in Nat /\ st \in Seq(Bytes)
      /\ st = StreamOf(msgs) /\ conn \in Conn /\ r \in Nat /\ r = got - begin
      /\ n \in Nat /\ got < n /\ n <= Len(st)
  <2>1. msgs \in Seq(Messages) /\ begin \in Nat /\ got \in Nat /\ conn \in Conn
    BY DEF Typed, InputTyped, ConnTyped, Placed
  <2>2. st = StreamOf(msgs) /\ st \in Seq(Bytes)
    BY <2>1, StreamIs, StreamType
  <2>3. r \in Nat /\ r = got - begin
    BY <2>1 DEF FollowInv, Conn, m_read_idx
  <2> QED BY <2>1, <2>2, <2>3
<1> HIDE DEF st
<1>2. s \in Seq(Bytes) /\ Len(s) = n - got /\ \A k \in 1..Len(s) : s[k] = st[got + k]
  <2> DEFINE b == n - got
  <2>1. b \in Nat /\ got + b <= Len(st) /\ got + b = n
    BY <1>1
  <2> HIDE DEF b, s
  <2>2. st \in Seq(Bytes) /\ got \in Nat
    BY <1>1
  <2>3. /\ SubSeq(st, got + 1, got + b) \in Seq(Bytes)
        /\ Len(SubSeq(st, got + 1, got + b)) = b
        /\ \A k \in 1..b : SubSeq(st, got + 1, got + b)[k] = st[got + k]
    BY <2>1, <2>2, PieceIs
  <2>4. SubSeq(st, got + 1, got + b) = s
    BY <2>1 DEF s
  <2> QED BY <2>3, <2>4 DEF b
<1>3. d = [conn EXCEPT !.m_read_buf = @ \o s]
  BY DEF st
<1> HIDE DEF s
<1>4. m_read_idx(d) = n - begin
  <2>1. conn.m_read_buf \in Seq(Bytes) /\ Len(conn.m_read_buf) = r
    BY <1>1 DEF Conn, m_read_idx
  <2>2. d.m_read_buf = conn.m_read_buf \o s
    BY <1>1, <1>3 DEF Conn
  <2>3. conn.m_read_buf \in Seq(Bytes) /\ s \in Seq(Bytes)
    BY <1>2, <2>1
  <2>4. Len(conn.m_read_buf \o s) = Len(conn.m_read_buf) + Len(s)
    BY <2>3, Appended
  <2>5. m_read_idx(d) = r + (n - got)
    BY <1>2, <2>1, <2>2, <2>4 DEF m_read_idx
  <2> QED BY <1>1, <2>5
<1>5. ASSUME NEW i \in 1..Len(msgs), begin = StartIn(msgs, i)
      PROVE  Follows(d, msgs[i])
  <2> DEFINE m == msgs[i]
             e == Encoded(m)
  <2>1. m \in Messages /\ Follows(conn, m)
    BY <1>1, <1>5 DEF FollowInv
  <2>2. /\ Len(e) = Total(m) /\ Total(m) \in Nat
    BY <2>1, SymIs
  <2>3. \A k \in 1..Len(e) : st[begin + k] = e[k]
    BY <1>1, <1>5, StreamHas
  <2> HIDE DEF m
  <2>4. ASSUME NEW k \in 1..Len(s), (r + k) - 1 < Total(m)
        PROVE  s[k] = Sym(m, (r + k) - 1)
    <3>1. Len(s) \in Nat /\ k \in Nat /\ k >= 1
      BY <1>2
    <3>2. /\ r + k \in 1..Total(m) /\ begin + (r + k) = got + k
          /\ ((r + k) - 1) + 1 = r + k
      BY <1>1, <2>2, <2>4, <3>1
    <3>3. s[k] = st[got + k]
      BY <1>2
    <3>4. Sym(m, (r + k) - 1) = e[r + k]
      BY <3>2 DEF Sym
    <3> HIDE DEF e, r
    <3> QED BY <2>2, <2>3, <3>2, <3>3, <3>4
  <2>5. \A k \in 1..Len(s) : (m_read_idx(conn) + k) - 1 < Total(m)
                                => s[k] = Sym(m, (m_read_idx(conn) + k) - 1)
    BY <2>4
  <2>6. Follows(d, m)
    BY <1>1, <1>2, <1>3, <2>1, <2>5, MoreRead
  <2> QED BY <2>6 DEF m
<1> QED BY <1>4, <1>5

(* Each step keeps it.                                                     *)
LEMMA FollowStep == Typed /\ FollowInv /\ [Next]_vars => FollowInv'
<1> SUFFICES ASSUME Typed, FollowInv, [Next]_vars PROVE FollowInv'
  OBVIOUS
<1>1. /\ msgs \in Seq(Messages) /\ begin \in Nat /\ got \in Nat
      /\ conn \in Conn /\ Placed(conn)
      /\ \A i \in 1..Len(msgs) : msgs[i] \in Messages
  <2>1. /\ msgs \in Seq(Messages) /\ begin \in Nat /\ got \in Nat
        /\ conn \in Conn /\ Placed(conn)
    BY DEF Typed, InputTyped, ConnTyped, Placed
  <2> QED BY <2>1
<1>2. CASE stage' \notin {"in", "work"}
  BY <1>2 DEF FollowInv
<1>3. ASSUME NEW d, conn' = d, m_read_idx(d) = got' - begin',
             \A i \in 1..Len(msgs') : begin' = StartIn(msgs', i) => Follows(d, msgs'[i])
      PROVE  FollowInv'
  <2>1. m_read_idx(conn)' = m_read_idx(d) /\ \A m : Follows(conn, m)' = Follows(d, m)
    BY <1>3 DEF m_read_idx, Follows, LineAt, Resumed, Unread, Byte
  <2>2. \A i \in 1..Len(msgs') : Follows(conn, msgs[i])' = Follows(d, msgs'[i])
    BY <1>3 DEF Follows, LineAt, Resumed, Unread, Byte, m_read_idx
  <2> QED BY <1>3, <2>1, <2>2 DEF FollowInv
<1>4. ASSUME conn' = Reset(conn), got' = begin', msgs' \in Seq(Messages), got' \in Nat
      PROVE  FollowInv'
  <2> DEFINE d == Reset(conn)
  <2>1. m_read_idx(d) = 0
    BY <1>1, ResetPlaced
  <2>2. \A i \in 1..Len(msgs') : Follows(d, msgs'[i])
    <3>1. \A i \in 1..Len(msgs') : msgs'[i] \in Messages
      BY <1>4
    <3> QED BY <1>1, <3>1, ResetFollows
  <2>3. conn' = d
    BY <1>4
  <2> HIDE DEF d
  <2>4. begin' \in Nat /\ got' = begin'
    BY <1>4
  <2>5. got' - begin' = 0
    <3>1. \A a \in Nat : a - a = 0
      OBVIOUS
    <3> QED BY <2>4, <3>1
  <2> QED BY <1>3, <2>1, <2>2, <2>3, <2>5
<1>5. CASE Accept
  <2>1. /\ conn' = Reset(conn) /\ got' = begin' /\ msgs' \in Streams /\ got' = 0
    BY <1>5 DEF Accept
  <2>2. msgs' \in Seq(Messages)
    BY <2>1, HttpAssumption
  <2> QED BY <1>4, <2>1, <2>2
<1>6. CASE Read
  <2>1. /\ stage = "in" /\ got' \in (got + 1)..Len(Stream)
        /\ conn' = [conn EXCEPT !.m_read_buf = @ \o SubSeq(Stream, got + 1, got')]
        /\ UNCHANGED <<msgs, begin>>
    BY <1>6 DEF Read
  <2> DEFINE d == [conn EXCEPT !.m_read_buf = @ \o SubSeq(Stream, got + 1, got')]
  <2>2. /\ m_read_idx(d) = got' - begin
        /\ \A i \in 1..Len(msgs) : begin = StartIn(msgs, i) => Follows(d, msgs[i])
    BY <2>1, ReadGoesOn
  <2>3. conn' = d
    BY <2>1
  <2> HIDE DEF d
  <2> QED BY <1>3, <2>1, <2>2, <2>3
<1>7. CASE ProcessIncomplete
  <2> DEFINE d == ProcessRead(conn)[2]
  <2>1. /\ stage = "work" /\ ProcessRead(conn)[1] = "NO_REQUEST" /\ conn' = d
        /\ UNCHANGED <<msgs, got, begin>>
    BY <1>7 DEF ProcessIncomplete, Result, Parsed, inputvars
  <2>2. m_read_idx(d) = m_read_idx(conn)
    BY <1>1, ProcessReadKeeps
  <2>3. /\ m_read_idx(conn) = got - begin
        /\ \A i \in 1..Len(msgs) : begin = StartIn(msgs, i) => Follows(conn, msgs[i])
    BY <2>1 DEF FollowInv
  <2>4. \A i \in 1..Len(msgs) : begin = StartIn(msgs, i) => Follows(d, msgs[i])
    BY <1>1, <2>1, <2>3, ReadFollows
  <2> HIDE DEF d
  <2> QED BY <1>3, <2>1, <2>2, <2>3, <2>4
<1>8. CASE Close \/ ReadFails \/ ProcessFile \/ ProcessForbidden \/ ProcessCloses
             \/ WriteStarts \/ WritevAgain \/ WritevFails
  BY <1>2, <1>8 DEF Close, ReadFails, ProcessFile, ProcessForbidden, ProcessCloses,
     WriteStarts, WritevAgain, WritevFails
<1>9. ASSUME NEW n \in 0..Len(Offered), Writev(n) PROVE FollowInv'
  <2>1. stage' = "write"
    BY <1>9 DEF Writev, Takes
  <2> QED BY <1>2, <2>1
<1>10. ASSUME NEW n \in 0..Len(Offered), WritevEnds(n) PROVE FollowInv'
  <2>1. CASE conn.m_linger
    BY <1>1, <1>4, <1>10, <2>1 DEF WritevEnds
  <2>2. CASE ~conn.m_linger
    <3>1. stage' = "closed"
      BY <1>10, <2>2 DEF WritevEnds
    <3> QED BY <1>2, <3>1
  <2> QED BY <2>1, <2>2
<1>11. CASE UNCHANGED vars
  <2>1. UNCHANGED <<conn, stage, msgs, got, begin>>
    BY <1>11 DEF vars, inputvars
  <2>2. CASE stage \in {"in", "work"}
    BY <1>3, <2>1, <2>2 DEF FollowInv
  <2>3. CASE stage \notin {"in", "work"}
    BY <1>2, <2>1, <2>3
  <2> QED BY <2>2, <2>3
<1> QED BY <1>5, <1>6, <1>7, <1>8, <1>9, <1>10, <1>11 DEF Next

(* So a request that is being read is followed in every state.             *)
LEMMA FollowHolds == Spec => [](Typed /\ FollowInv)
<1>1. Init => FollowInv
  BY DEF Init, FollowInv
<1> QED BY <1>1, FollowStep, TypesHold, PTL DEF Spec
-----------------------------------------------------------------------------
(* What Current, Received and Expected are of a message that is followed.  *)
LEMMA CurrentIs ==
    ASSUME Typed, FollowInv, stage = "work", NEW i \in Current
    PROVE  /\ msgs[i] \in Messages /\ Placed(conn) /\ Follows(conn, msgs[i])
           /\ Received(i) <=> Total(msgs[i]) <= m_read_idx(conn)
           /\ IF StrayCR(i) THEN Asked(msgs[i], m_read_idx(conn)) # "GET_REQUEST"
                            ELSE Expected(i) = Asked(msgs[i], m_read_idx(conn))
<1> DEFINE m == msgs[i]
           r == m_read_idx(conn)
<1>1. /\ msgs \in Seq(Messages) /\ begin \in Nat /\ got \in Nat /\ Placed(conn)
      /\ conn \in Conn
  BY DEF Typed, InputTyped, ConnTyped, Placed
<1>2. i \in 1..Len(msgs) /\ begin = StartOf(i)
  BY <1>1 DEF Current
<1>3. m \in Messages
  BY <1>1, <1>2
<1>4. StartOf(i) = StartIn(msgs, i)
  BY <1>1, <1>2, StartIs
<1>5. Follows(conn, m) /\ r = got - begin
  BY <1>2, <1>4 DEF FollowInv
<1>6. /\ Len(Encoded(m)) = Total(m) /\ Total(m) \in Nat /\ Len(m.headers) \in Nat
      /\ m.headers \in Seq(Words \cup {CR})
  BY <1>3, SymIs, MessageTypes
<1>7. Received(i) <=> Total(m) <= r
  BY <1>1, <1>2, <1>5, <1>6 DEF Received
<1>8. FirstLineReceived(i) <=> r >= 3
  BY <1>1, <1>2, <1>5 DEF FirstLineReceived
<1>9. CR \in {m.headers[k] : k \in DOMAIN m.headers} <=> ~NoCR(m, Len(m.headers) + 1)
  <2>1. DOMAIN m.headers = 1..((Len(m.headers) + 1) - 1)
    BY <1>6
  <2> QED BY <2>1 DEF NoCR
<1>10. Received(i) <=> ~(r < Total(m))
  <2>1. r \in Nat
    BY <1>1 DEF Conn, m_read_idx
  <2> QED BY <1>6, <1>7, <2>1
<1>11. IF StrayCR(i) THEN Asked(m, r) # "GET_REQUEST" ELSE Expected(i) = Asked(m, r)
  <2> HIDE DEF r
  <2> QED BY <1>8, <1>9, <1>10 DEF Expected, Asked, StrayCR
<1> QED BY <1>1, <1>3, <1>5, <1>7, <1>11

(* No request is answered before all of it is there, however its bytes are *)
(* cut into reads and whatever the object served before (http_conn.cpp:    *)
(* 366-378, 387-439).                                                      *)
THEOREM NoEarlyAnswerHolds == Spec => []NoEarlyAnswer
<1>1. Typed /\ FollowInv => NoEarlyAnswer
  <2> SUFFICES ASSUME Typed, FollowInv, stage = "work", Result = "GET_REQUEST",
                      NEW i \in Current
               PROVE  Received(i)
    BY DEF NoEarlyAnswer
  <2>1. ProcessRead(conn)[1] = "GET_REQUEST"
    BY DEF Result
  <2> QED BY <2>1, CurrentIs, ReadFollows
<1> QED BY <1>1, FollowHolds, PTL

(* A message gets the result it asks for, with its method, its keep-alive  *)
(* and its body, and a POST is marked; not so once its head was handled in *)
(* an earlier read than the end of its body, and a message with a CR       *)
(* inside a line is not answered (http_conn.cpp:162-205, 239-439).         *)
THEOREM ParsedAsSentHolds == Spec => []ParsedAsSent
<1>1. Typed /\ FollowInv => ParsedAsSent
  <2> SUFFICES ASSUME Typed, FollowInv, stage = "work", conn.m_check_state # "CONTENT",
                      NEW i \in Current
               PROVE  LET c == ProcessRead(conn)[2]
                      IN  /\ IF StrayCR(i) THEN Result # "GET_REQUEST"
                                          ELSE Result = Expected(i)
                          /\ Result = "GET_REQUEST" =>
                               /\ c.m_method = msgs[i].line
                               /\ msgs[i].line = "POST" => c.cgi = 1
                               /\ c.m_linger = ("keep-alive" \in
                                     {msgs[i].headers[k] : k \in DOMAIN msgs[i].headers})
                               /\ msgs[i].body > 0 =>
                                    Text(c, c.m_string) = [k \in 1..msgs[i].body |-> "body"]
    BY DEF ParsedAsSent
  <2> DEFINE m == msgs[i]
             v == ProcessRead(conn)
  <2>1. /\ m \in Messages /\ Placed(conn) /\ Follows(conn, m)
        /\ IF StrayCR(i) THEN Asked(m, m_read_idx(conn)) # "GET_REQUEST"
                         ELSE Expected(i) = Asked(m, m_read_idx(conn))
        /\ Marked(conn)
    BY CurrentIs DEF Typed, ConnTyped
  <2>2. PICK j : LineAt(conn, m, j)
    BY <2>1 DEF Follows, Resumed
  <2>3. Right(v, m, m_read_idx(conn))
    BY <2>1, <2>2, HeadRun
  <2>4. Keeps(m, Len(m.headers) + 1) =
          ("keep-alive" \in {m.headers[k] : k \in DOMAIN m.headers})
    <3>1. m.headers \in Seq(Words \cup {CR}) /\ Len(m.headers) \in Nat
      BY <2>1, MessageTypes
    <3>2. DOMAIN m.headers = 1..((Len(m.headers) + 1) - 1)
      BY <3>1
    <3> DEFINE h == m.headers
               D == DOMAIN h
    <3>3. "keep-alive" \in {h[k] : k \in D} <=> \E k \in D : h[k] = "keep-alive"
      <4> HIDE DEF h, D
      <4> QED OBVIOUS
    <3>4. Keeps(m, Len(m.headers) + 1) <=> \E k \in D : h[k] = "keep-alive"
      BY <3>2 DEF Keeps
    <3>5. Keeps(m, Len(m.headers) + 1) \in BOOLEAN
      BY DEF Keeps
    <3> HIDE DEF h, D
    <3> QED BY <3>3, <3>4, <3>5 DEF h, D
  <2>5. Result = v[1] /\ Marked(v[2])
    BY <2>1, ProcessReadKeeps DEF Result
  <2> HIDE DEF m, v
  <2>6. /\ IF StrayCR(i) THEN v[1] # "GET_REQUEST" ELSE v[1] = Expected(i)
        /\ v[1] = "GET_REQUEST" =>
             /\ v[2].m_method = m.line
             /\ m.line = "POST" => v[2].cgi = 1
             /\ v[2].m_linger = ("keep-alive" \in {m.headers[k] : k \in DOMAIN m.headers})
             /\ m.body > 0 => Text(v[2], v[2].m_string) = [k \in 1..m.body |-> "body"]
    BY <2>1, <2>3, <2>4, <2>5 DEF Right, HeadRead, Marked
  <2> QED BY <2>5, <2>6 DEF m, v
<1> QED BY <1>1, FollowHolds, PTL
-----------------------------------------------------------------------------
(* Whole copies. *)

(* The vectors of a response as process() leaves them. *)
Ready ==
    /\ m_write_idx = HeadLength
    /\ m_iv_count \in {1, 2}
    /\ m_iv[0] = [base |-> "head", at |-> 0, iov_len |-> HeadLength]
    /\ m_iv_count = 2 => m_iv[1] = FileVec

(* WholeCopies made inductive: m_write_buf is empty before a response is   *)
(* made, nothing of the response is sent by then, and until a writev()     *)
(* takes less than it was offered the vectors are those of process().      *)
CopyInv ==
    /\ DOMAIN m_iv = 0..1
    /\ stage \in {"in", "work"} => m_write_idx = 0
    /\ stage = "work" => wire = 0 /\ ~cut
    /\ stage \in {"out", "write"} /\ ~cut => Ready
    /\ cut \in BOOLEAN
    /\ ~cut => wire \in Nat
    /\ WholeCopies

(* The place of byte k in copy after copy of n bytes. *)
LEMMA Copies ==
    ASSUME NEW n \in Nat \ {0}, NEW x \in Nat, x % n = 0
    PROVE  (x + n) % n = 0 /\ \A k \in 1..n : ((x + k - 1) % n) + 1 = k
<1>1. (x + n) % n = 0
  <2>1. x = n * (x \div n) + (x % n) /\ x \div n \in Nat
    BY SMTT(30)
  <2>2. PICK q \in Nat : x = n * q
    BY <2>1
  <2>3. x + n = n * (q + 1)
    BY <2>2, SMTT(30)
  <2>4. (n * (q + 1)) % n = 0
    BY <2>2, SMTT(30)
  <2> QED
    BY <2>3, <2>4
<1>2. ASSUME NEW k \in 1..n PROVE (x + (k - 1)) % n = k - 1
  BY <1>2, SMTT(30)
<1> QED
  BY <1>1, <1>2

(* The response, with its file or without. *)
HeadBytes == [k \in 1..HeadLength |-> <<"head", k - 1>>]
FileBytes == [k \in 1..FileLength |-> <<"file", k - 1>>]
Whole(withFile) == HeadBytes \o IF withFile THEN FileBytes ELSE <<>>

(* Before a step and after it. *)
LEMMA ResponseIsWhole ==
    Response = Whole(m_iv_count = 2) /\ Response' = Whole(m_iv_count' = 2)
  BY DEF Response, Whole, HeadBytes, FileBytes

(* A response is never empty. *)
LEMMA WholeLength ==
    ASSUME NEW withFile \in BOOLEAN
    PROVE  Len(Whole(withFile)) \in Nat \ {0}
<1> DEFINE S == {"head", "file"} \X Int
<1>1. HeadBytes \in Seq(S) /\ Len(HeadBytes) = HeadLength
  BY HttpAssumption DEF HeadBytes
<1>2. FileBytes \in Seq(S) /\ Len(FileBytes) = FileLength /\ <<>> \in Seq(S)
  BY HttpAssumption DEF FileBytes
<1> HIDE DEF S
<1>3. Len(HeadBytes \o FileBytes) = HeadLength + FileLength
  BY <1>1, <1>2, Appended
<1>4. HeadBytes \o <<>> = HeadBytes
  BY <1>1
<1> QED
  BY <1>1, <1>3, <1>4, HttpAssumption DEF Whole

(* Before a step and after it. *)
LEMMA ResponseLength ==
    Len(Response) \in Nat \ {0} /\ Len(Response') \in Nat \ {0}
  BY ResponseIsWhole, WholeLength

(* What writev() is offered at first is the response. *)
LEMMA OfferedIsResponse == Ready => Offered = Response
<1> SUFFICES ASSUME Ready PROVE Offered = Response
  OBVIOUS
<1>1. VecBytes(0) = HeadBytes
  <2>1. /\ m_iv[0].iov_len = HeadLength /\ m_iv[0].base = "head" /\ m_iv[0].at = 0
        /\ 0 < m_iv_count
    BY DEF Ready
  <2>2. HeadLength \in Nat
    BY HttpAssumption
  <2> QED
    BY <2>1, <2>2 DEF VecBytes, HeadBytes
<1>2. VecBytes(1) = IF m_iv_count = 2 THEN FileBytes ELSE <<>>
  <2>1. CASE m_iv_count = 2
    <3>1. m_iv[1].iov_len = FileLength /\ m_iv[1].base = "file" /\ m_iv[1].at = 0
      BY <2>1 DEF Ready, FileVec
    <3> QED
      BY <2>1, <3>1, HttpAssumption DEF VecBytes, FileBytes
  <2>2. CASE m_iv_count = 1
    BY <2>2 DEF VecBytes
  <2> QED
    BY <2>1, <2>2 DEF Ready
<1> QED
  BY <1>1, <1>2, ResponseIsWhole DEF Offered, Whole

(* A step that changes neither the vectors nor what is sent. *)
LEMMA CopiesKept ==
    ASSUME CopyInv, UNCHANGED <<m_iv, m_iv_count, wire, cut>>,
           stage' \in {"in", "work"} => m_write_idx' = 0,
           stage' = "work" => wire = 0 /\ ~cut,
           stage' \in {"out", "write"} =>
              stage \in {"out", "write"} /\ UNCHANGED m_write_idx
    PROVE  CopyInv'
  BY DEF CopyInv, WholeCopies, Response, Ready, FileVec

(* A step that starts over: nothing is sent of the next response. *)
LEMMA CopiesStart ==
    ASSUME CopyInv, NothingSent, UNCHANGED m_iv, stage' \in {"in", "work"},
           m_write_idx' = 0
    PROVE  CopyInv'
<1>1. wire' = 0 /\ cut' = FALSE
  BY DEF NothingSent
<1>2. WholeCopies'
  <2>1. Len(Response') \in Nat \ {0}
    BY ResponseLength
  <2>2. \A n \in Nat \ {0} : 0 % n = 0
    OBVIOUS
  <2> QED
    BY <1>1, <2>1, <2>2 DEF WholeCopies
<1> QED
  BY <1>1, <1>2 DEF CopyInv

(* process() makes a response while wire is 0. *)
LEMMA CopiesMade ==
    ASSUME CopyInv, ProcessFile \/ ProcessForbidden
    PROVE  CopyInv'
<1>1. wire' = 0 /\ cut' = FALSE /\ stage' = "out" /\ m_write_idx' = HeadLength
  BY HttpAssumption DEF CopyInv, ProcessFile, ProcessForbidden, AddHead, wirevars
<1>2. Ready' /\ DOMAIN m_iv' = 0..1
  BY <1>1 DEF CopyInv, ProcessFile, ProcessForbidden, Ready, HeadVec, FileVec
<1>3. WholeCopies'
  <2>1. Len(Response') \in Nat \ {0}
    BY ResponseLength
  <2>2. \A n \in Nat \ {0} : 0 % n = 0
    OBVIOUS
  <2> QED
    BY <1>1, <2>1, <2>2 DEF WholeCopies
<1> QED
  BY <1>1, <1>2, <1>3 DEF CopyInv

(* writev() that takes all it is offered takes one copy. *)
LEMMA CopyTaken ==
    ASSUME CopyInv, NEW n, Takes(n), UNCHANGED m_iv_count, ~cut'
    PROVE  wire' \in Nat /\ WholeCopies'
<1>1. /\ ~cut /\ n \in 0..Len(Offered) /\ ~(n < Len(Offered)) /\ Ready
      /\ wire \in Nat /\ wire % Len(Response) = 0
      /\ wire' = IF wire >= 0 /\ InTurn(n) THEN wire + n ELSE -1
  BY DEF Takes, CopyInv, WholeCopies
<1>2. Offered = Response /\ Len(Response) \in Nat \ {0} /\ n = Len(Response)
  BY <1>1, OfferedIsResponse, ResponseLength
<1>3. (wire + n) % n = 0 /\ \A k \in 1..n : ((wire + k - 1) % n) + 1 = k
  BY <1>1, <1>2, Copies
<1>4. InTurn(n)
  BY <1>2, <1>3 DEF InTurn
<1>5. wire' = wire + n /\ wire + n \in Nat
  BY <1>1, <1>2, <1>4
<1>6. Response' = Response
  BY DEF Response
<1> QED
  BY <1>2, <1>3, <1>5, <1>6 DEF WholeCopies

(* Every step of the object keeps the copies whole. *)
LEMMA CopyStep == CopyInv /\ [Next]_vars => CopyInv'
<1> SUFFICES ASSUME CopyInv, [Next]_vars PROVE CopyInv'
  OBVIOUS
<1>1. CASE Accept
  BY <1>1, CopiesStart DEF Accept
<1>2. CASE Read
  BY <1>2, CopiesStart DEF Read, sendvars, CopyInv
<1>3. CASE Close \/ ReadFails \/ ProcessIncomplete \/ ProcessCloses \/ WritevFails
  BY <1>3, CopiesKept DEF Close, ReadFails, ProcessIncomplete, ProcessCloses,
     WritevFails, sendvars, wirevars, CopyInv
<1>4. CASE ProcessFile \/ ProcessForbidden
  BY <1>4, CopiesMade
<1>5. CASE WriteStarts \/ UNCHANGED vars
  BY <1>5, CopiesKept DEF WriteStarts, sendvars, wirevars, vars, CopyInv
<1>6. ASSUME NEW n \in 0..Len(Offered), Writev(n) PROVE CopyInv'
  <2>1. /\ Takes(n) /\ stage = "write" /\ cut' = (cut \/ n < Len(Offered))
        /\ UNCHANGED <<stage, m_write_idx, m_iv, m_iv_count>>
    BY <1>6 DEF Writev, Takes, sendvars
  <2>2. ~cut' => wire' \in Nat /\ WholeCopies'
    BY <2>1, CopyTaken
  <2>3. cut' \in BOOLEAN /\ (cut => cut')
    BY <2>1 DEF CopyInv
  <2>4. cut' => WholeCopies'
    BY DEF WholeCopies
  <2>5. ~cut' => Ready'
    BY <2>1, <2>3 DEF CopyInv, Ready, FileVec
  <2> QED
    BY <2>1, <2>2, <2>3, <2>4, <2>5 DEF CopyInv
<1>7. ASSUME NEW n \in 0..Len(Offered), WritevEnds(n) PROVE CopyInv'
  <2>1. /\ Takes(n) /\ cut' = (cut \/ n < Len(Offered))
        /\ UNCHANGED <<m_iv, m_iv_count>>
        /\ (stage' = "in" /\ m_write_idx' = 0) \/ stage' = "closed"
    BY <1>7 DEF WritevEnds, Takes
  <2>2. ~cut' => wire' \in Nat /\ WholeCopies'
    BY <2>1, CopyTaken
  <2>3. cut' \in BOOLEAN
    BY <2>1 DEF CopyInv
  <2>4. cut' => WholeCopies'
    BY DEF WholeCopies
  <2> QED
    BY <2>1, <2>2, <2>3, <2>4 DEF CopyInv
<1>8. CASE WritevAgain
  <2>1. cut' = TRUE /\ stage' = "out" /\ DOMAIN m_iv' = 0..1
    BY <1>8 DEF WritevAgain, CopyInv
  <2> QED
    BY <2>1 DEF CopyInv, WholeCopies
<1> QED
  BY <1>1, <1>2, <1>3, <1>4, <1>5, <1>6, <1>7, <1>8 DEF Next

(* Nothing is sent before the first connection. *)
LEMMA CopyInit == Init => CopyInv
<1> SUFFICES ASSUME Init PROVE CopyInv
  OBVIOUS
<1>1. \A n \in Nat \ {0} : 0 % n = 0
  OBVIOUS
<1>2. WholeCopies
  BY <1>1, ResponseLength DEF Init, WholeCopies
<1> QED
  BY <1>2 DEF Init, CopyInv

(* A socket that takes all it is offered gets the response in whole        *)
(* copies, whatever earlier responses left in m_iv (http_conn.cpp:631-634, *)
(* 647, 678-699, 794, 817).                                                *)
THEOREM WholeCopiesHolds == Spec => []WholeCopies
<1>1. CopyInv => WholeCopies
  BY DEF CopyInv
<1> QED
  BY <1>1, CopyInit, CopyStep, PTL DEF Spec
-----------------------------------------------------------------------------
(* The file of a response. *)

(* From no mapping, the socket takes nothing beyond the head. *)
LEMMA HeadOnly ==
    ASSUME wire \in Int, wire <= HeadLength, m_iv_count = 2, NEW n, Takes(n),
           m_file_address # "mapped"
    PROVE  wire' <= HeadLength
<1>1. /\ n \in Nat /\ \A k \in 1..n : Offered[k][1] = "head"
      /\ wire' = IF wire >= 0 /\ InTurn(n) THEN wire + n ELSE -1
      /\ HeadLength \in Nat \ {0} /\ FileLength \in Nat \ {0}
  BY HttpAssumption DEF Takes
<1>2. SUFFICES ASSUME wire >= 0, InTurn(n), wire + n > HeadLength PROVE FALSE
  BY <1>1
<1> DEFINE k == HeadLength + 1 - wire
           S == {"head", "file"} \X Int
<1>3. k \in 1..n /\ wire + k - 1 = HeadLength
  BY <1>1, <1>2
<1> HIDE DEF k
<1>4. /\ HeadBytes \in Seq(S) /\ Len(HeadBytes) = HeadLength
      /\ FileBytes \in Seq(S) /\ Len(FileBytes) = FileLength
      /\ FileBytes[1] = <<"file", 0>>
  BY <1>1 DEF HeadBytes, FileBytes
<1> HIDE DEF S
<1>5. Response = HeadBytes \o FileBytes
  BY ResponseIsWhole DEF Whole
<1>6. Len(Response) = HeadLength + FileLength /\ Response[HeadLength + 1] = <<"file", 0>>
  <2>1. 1 \in 1..Len(FileBytes) /\ HeadBytes \in Seq(S) /\ FileBytes \in Seq(S)
    BY <1>1, <1>4
  <2>2. Len(HeadBytes \o FileBytes) = Len(HeadBytes) + Len(FileBytes)
    BY <2>1, Appended
  <2>3. (HeadBytes \o FileBytes)[Len(HeadBytes) + 1] = FileBytes[1]
    BY <2>1, Appended
  <2> QED BY <1>1, <1>4, <1>5, <2>2, <2>3
<1>7. HeadLength % Len(Response) = HeadLength
  BY <1>1, <1>6
<1>8. Offered[k] = Response[HeadLength + 1]
  BY <1>2, <1>3, <1>7 DEF InTurn
<1>9. Offered[k][1] = "file"
  BY <1>6, <1>8
<1> QED BY <1>1, <1>3, <1>9

(* MappedWhileSent with what its steps need: nothing of a response is sent *)
(* when its file is mapped.                                                *)
MappedInv == CopyInv /\ wire \in Int /\ MappedWhileSent

(* Every step of the object keeps it. *)
LEMMA MappedStep == MappedInv /\ [Next]_vars => MappedInv'
<1> SUFFICES ASSUME MappedInv, [Next]_vars PROVE MappedInv'
  OBVIOUS
<1>1. wire \in Int /\ MappedWhileSent /\ (stage = "work" => wire = 0)
  BY DEF MappedInv, CopyInv
<1>2. CopyInv'
  BY CopyStep DEF MappedInv
<1>3. wire' \in Int
  <2>1. \A n \in 0..Len(Offered) : Takes(n) => wire' \in Int
    BY <1>1 DEF Takes
  <2> QED BY <1>1, <2>1 DEF Next, Accept, Close, Read, ReadFails, ProcessIncomplete,
       ProcessFile, ProcessForbidden, ProcessCloses, WriteStarts, Writev, WritevEnds,
       WritevAgain, WritevFails, NothingSent, wirevars, vars
<1>4. MappedWhileSent'
  <2>1. CASE stage' \notin {"out", "write"}
    BY <2>1 DEF MappedWhileSent
  <2>2. CASE UNCHANGED <<stage, m_iv_count, m_file_address, wire>>
    BY <1>1, <2>2 DEF MappedWhileSent
  <2>3. CASE Accept \/ Close \/ Read \/ ReadFails \/ ProcessIncomplete \/ ProcessCloses
               \/ WritevFails \/ (\E n \in 0..Len(Offered) : WritevEnds(n))
    BY <2>1, <2>3 DEF Accept, Close, Read, ReadFails, ProcessIncomplete, ProcessCloses,
       WritevFails, WritevEnds
  <2>4. CASE ProcessFile
    <3>1. wire' = 0 /\ m_file_address' \in {"mapped", "failed"}
      BY <1>1, <2>4 DEF ProcessFile, Map, wirevars
    <3> QED BY <3>1, HttpAssumption DEF MappedWhileSent
  <2>5. CASE ProcessForbidden
    BY <2>5 DEF ProcessForbidden, MappedWhileSent
  <2>6. CASE WriteStarts \/ WritevAgain
    <3>1. /\ stage \in {"out", "write"} /\ UNCHANGED <<m_iv_count, m_file_address, wire>>
      BY <2>6 DEF WriteStarts, WritevAgain, sendvars, wirevars
    <3> QED BY <1>1, <3>1 DEF MappedWhileSent
  <2>7. ASSUME NEW n \in 0..Len(Offered), Writev(n) PROVE MappedWhileSent'
    <3>1. /\ Takes(n) /\ stage = "write" /\ UNCHANGED <<stage, m_iv_count, m_file_address>>
      BY <2>7 DEF Writev, Takes, sendvars
    <3> QED BY <1>1, <3>1, HeadOnly DEF MappedWhileSent
  <2>8. CASE UNCHANGED vars
    BY <2>2, <2>8 DEF vars, sendvars, wirevars
  <2> QED BY <2>3, <2>4, <2>5, <2>6, <2>7, <2>8 DEF Next
<1> QED BY <1>2, <1>3, <1>4 DEF MappedInv

(* Whatever the writes take, and whatever the object served before, a file *)
(* is sent from the mapping do_request() made for it; where that failed,   *)
(* nothing beyond the head is (http_conn.cpp:606-608, 616-623, 673, 688).  *)
THEOREM MappedWhileSentHolds == Spec => []MappedWhileSent
<1>1. Init => MappedInv
  BY CopyInit DEF Init, MappedInv, MappedWhileSent
<1>2. MappedInv => MappedWhileSent
  BY DEF MappedInv
<1> QED
  BY <1>1, <1>2, MappedStep, PTL DEF Spec
=============================================================================
