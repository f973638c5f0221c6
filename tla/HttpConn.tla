------------------------------ MODULE HttpConn ------------------------------
(***************************************************************************)
(* One http_conn object and the connections it serves one after another:   *)
(* read(), process() and write() (http/http_conn.cpp) between the arrival  *)
(* of the client's bytes, in pieces, and what the socket takes of the      *)
(* response, in pieces too.                                                *)
(*                                                                         *)
(* EPOLLONESHOT keeps main and the workers from touching the object at the *)
(* same time (WorkerPool), so read() and process() are one step each;      *)
(* write() has a step for each writev().  The head of a response is        *)
(* HeadLength bytes of m_write_buf and the file FileLength bytes; a byte   *)
(* on the wire is known by the place it was taken from.                    *)
(*                                                                         *)
(* A timeout that takes the descriptor from under a worker is in Reactor,  *)
(* not here.                                                               *)
(***************************************************************************)
EXTENDS HttpParser, FiniteSets

CONSTANTS Streams,           \* what clients send: sequences of messages
          READ_BUFFER_SIZE,
          HeadLength, FileLength,
          MaxAgain           \* bound: EAGAIN; each may add to a length

(* A message announces its body; a negative length announces none.         *)
Messages ==
    {m \in [line : {"GET", "POST", "garbage"}, headers : Seq(Words \cup {CR}), body : Nat] :
       m.body = IF BodyLength > 0 /\ \E k \in DOMAIN m.headers :
                                         m.headers[k] = "Content-Length"
                  THEN BodyLength ELSE 0}

ASSUME HttpAssumption ==
    /\ Streams \subseteq Seq(Messages)
    /\ READ_BUFFER_SIZE \in Nat \ {0}
    /\ HeadLength \in Nat \ {0} /\ FileLength \in Nat \ {0}
    /\ MaxAgain \in Nat

VARIABLES conn,             \* the fields the parser uses
          stage,            \* "closed", "in" and "out" while epoll waits,
                            \* "work" with a worker, "write" in write()
          msgs,             \* the messages of the client
          got, begin,       \* how many of its bytes are read, and were
                            \* before the last init()
          m_write_idx, m_iv, m_iv_count,
          m_file_address,   \* "null", "mapped", or "failed": MAP_FAILED
          bytes_to_send, bytes_have_send,   \* 0 outside write(), which
                            \* assigns both before it reads them
          wire,             \* bytes of the response, over and over, the
                            \* socket has taken in order since the last
                            \* read(), or -1 after one out of order
          cut,              \* a writev() took less than it was offered
          again             \* EAGAIN so far

inputvars == <<msgs, got, begin>>
sendvars == <<m_write_idx, m_iv, m_iv_count, m_file_address>>
sentvars == <<bytes_to_send, bytes_have_send>>
wirevars == <<wire, cut, again>>
vars == <<conn, stage, inputvars, sendvars, sentvars, wirevars>>
-----------------------------------------------------------------------------
(* The bytes of a message [line, headers, body]. *)
Encoded(m) ==
    LET n == Len(m.headers)
    IN  <<m.line, CR, LF>>
          \o [i \in 1..(3 * n) |-> CASE i % 3 = 1 -> m.headers[(i + 2) \div 3]
                                     [] i % 3 = 2 -> CR
                                     [] OTHER -> LF]
          \o <<CR, LF>>
          \o [i \in 1..m.body |-> "body"]

(* The byte a message of the stream starts at, counted from 0. *)
StartOf(i) ==
    LET length[j \in 0..(i - 1)] ==
          IF j = 0 THEN 0 ELSE length[j - 1] + Len(Encoded(msgs[j]))
    IN  length[i - 1]

Stream ==
    LET bytes[i \in 0..Len(msgs)] ==
          IF i = 0 THEN <<>> ELSE bytes[i - 1] \o Encoded(msgs[i])
    IN  bytes[Len(msgs)]

(* What was read since the last init(). *)
Since == SubSeq(Stream, begin + 1, got)
-----------------------------------------------------------------------------
(* new http_conn[MAX_FD]: the constructor assigns nothing, and a block of  *)
(* that size consists of fresh pages of zeros.                             *)
Init ==
    /\ conn = [m_read_buf |-> <<>>, m_check_idx |-> 0, m_start_line |-> 0,
               m_check_state |-> "REQUESTLINE", m_linger |-> FALSE,
               m_content_length |-> 0, m_method |-> "GET", cgi |-> 0,
               m_string |-> 0]
    /\ stage = "closed"
    /\ msgs = <<>>
    /\ got = 0 /\ begin = 0
    /\ m_write_idx = 0
    /\ m_iv = [i \in 0..1 |-> [base |-> "head", at |-> 0, iov_len |-> 0]]
    /\ m_iv_count = 0
    /\ bytes_to_send = 0 /\ bytes_have_send = 0
    /\ m_file_address = "null"
    /\ wire = 0 /\ cut = FALSE /\ again = 0

NothingSent == wire' = 0 /\ cut' = FALSE /\ UNCHANGED again

(* accept(); users[connfd].init() *)
Accept ==
    /\ stage = "closed"
    /\ stage' = "in"
    /\ msgs' \in Streams
    /\ got' = 0 /\ begin' = 0
    /\ conn' = Reset(conn)
    /\ m_write_idx' = 0
    /\ NothingSent
    /\ UNCHANGED <<m_iv, m_iv_count, m_file_address, sentvars>>

(* cb_func() after a timeout or EPOLLRDHUP, whatever is being sent. *)
Close ==
    /\ stage \in {"in", "out"}
    /\ stage' = "closed"
    /\ UNCHANGED <<conn, inputvars, sendvars, sentvars, wirevars>>

(* Mutant: bytes that do not fit are left behind. *)
RoomIgnored == READ_BUFFER_SIZE

(* Room left in m_read_buf. *)
Room == READ_BUFFER_SIZE - m_read_idx(conn)

(* EPOLLIN: read() takes the bytes that are there, until EAGAIN. *)
Read ==
    /\ stage = "in"
    /\ got' \in (got + 1)..Len(Stream)
    /\ got' - got < Room
    /\ conn' = [conn EXCEPT !.m_read_buf = @ \o SubSeq(Stream, got + 1, got')]
    /\ stage' = "work"
    /\ NothingSent
    /\ UNCHANGED <<msgs, begin, sendvars, sentvars>>

(* EPOLLIN: as many bytes are there as there is room for; recv() returns 0 *)
(* for a length of 0, read() is false, and main closes.                    *)
ReadFails ==
    /\ stage = "in"
    /\ Len(Stream) - got >= Room
    /\ stage' = "closed"
    /\ UNCHANGED <<conn, inputvars, sendvars, sentvars, wirevars>>

Result == ProcessRead(conn)[1]

Parsed == conn' = ProcessRead(conn)[2]

(* process(): NO_REQUEST. *)
ProcessIncomplete ==
    /\ stage = "work"
    /\ Result = "NO_REQUEST"
    /\ Parsed
    /\ stage' = "in"
    /\ UNCHANGED <<inputvars, sendvars, sentvars, wirevars>>

(* add_status_line(), add_headers(), add_content(): they fit. *)
AddHead == m_write_idx' = m_write_idx + HeadLength

(* open() and mmap() of the file; neither is checked, and the file is sent *)
(* all the same.                                                           *)
Map == m_file_address' \in {"mapped", "failed"}

(* unmap(), which takes MAP_FAILED for a mapping too. *)
Unmap == m_file_address' = "null"

(* Mutant: iov_base stays where the last response left it. *)
HeadVecMoved == [m_iv[0] EXCEPT !.iov_len = m_write_idx']

HeadVec == [base |-> "head", at |-> 0, iov_len |-> m_write_idx']

FileVec == [base |-> "file", at |-> 0, iov_len |-> FileLength]

(* process(): do_request() finds a file and maps it; process_write() makes *)
(* the head.                                                               *)
ProcessFile ==
    /\ stage = "work"
    /\ Result = "GET_REQUEST"
    /\ Parsed
    /\ Map
    /\ AddHead
    /\ m_iv' = [i \in 0..1 |-> IF i = 0 THEN HeadVec ELSE FileVec]
    /\ m_iv_count' = 2
    /\ stage' = "out"
    /\ UNCHANGED <<inputvars, sentvars, wirevars>>

(* process(): FORBIDDEN_REQUEST, one vector with head and message. *)
ProcessForbidden ==
    /\ stage = "work"
    /\ Result = "GET_REQUEST"
    /\ Parsed
    /\ AddHead
    /\ m_iv' = [m_iv EXCEPT ![0] = HeadVec]
    /\ m_iv_count' = 1
    /\ stage' = "out"
    /\ UNCHANGED <<inputvars, m_file_address, sentvars, wirevars>>

(* process(): BAD_REQUEST, also for a directory, NO_RESOURCE or an empty   *)
(* file, whose mapping of 0 bytes fails: process_write() is false, and     *)
(* close_conn() closes.                                                    *)
ProcessCloses ==
    /\ stage = "work"
    /\ Result \in {"BAD_REQUEST", "GET_REQUEST"}
    /\ Parsed
    /\ m_file_address' \in
         {m_file_address} \cup IF Result = "GET_REQUEST" THEN {"failed"} ELSE {}
    /\ AddHead
    /\ stage' = "closed"
    /\ UNCHANGED <<inputvars, m_iv, m_iv_count, sentvars, wirevars>>

(* EPOLLOUT, write() up to its loop: m_write_idx and both lengths, whatever *)
(* m_iv_count is.  Their sum is never 0, since m_write_idx is not.         *)
WriteStarts ==
    /\ stage = "out"
    /\ bytes_have_send' = 0
    /\ bytes_to_send' = m_write_idx + m_iv[0].iov_len + m_iv[1].iov_len
    /\ stage' = "write"
    /\ UNCHANGED <<conn, inputvars, sendvars, wirevars>>

VecBytes(i) ==
    IF i < m_iv_count
      THEN [k \in 1..m_iv[i].iov_len |-> <<m_iv[i].base, m_iv[i].at + k - 1>>]
      ELSE <<>>

Offered == VecBytes(0) \o VecBytes(1)

(* The bytes of the response as m_write_buf and the file hold them. *)
Response ==
    [k \in 1..HeadLength |-> <<"head", k - 1>>]
      \o IF m_iv_count = 2 THEN [k \in 1..FileLength |-> <<"file", k - 1>>] ELSE <<>>

(* The first n bytes offered go on where the socket's last byte was. *)
InTurn(n) ==
    \A k \in 1..n : Offered[k] = Response[((wire + k - 1) % Len(Response)) + 1]

(* writev() takes the first n bytes; none can come from a mapping that is  *)
(* not there.                                                              *)
Takes(n) ==
    /\ stage = "write"
    /\ n \in 0..Len(Offered)
    /\ n = 0 => Offered = <<>>
    /\ m_file_address # "mapped" => \A k \in 1..n : Offered[k][1] = "head"
    /\ wire' = IF wire >= 0 /\ InTurn(n) THEN wire + n ELSE -1
    /\ cut' = (cut \/ n < Len(Offered))
    /\ UNCHANGED again

WriteReturns == bytes_to_send' = 0 /\ bytes_have_send' = 0

(* writev(), and some is left to send. *)
Writev(n) ==
    /\ Takes(n)
    /\ bytes_to_send' = bytes_to_send - n
    /\ bytes_have_send' = bytes_have_send + n
    /\ bytes_to_send' > 0
    /\ UNCHANGED <<conn, stage, inputvars, sendvars>>

(* writev(), and nothing is left: unmap(), modfd(EPOLLIN), and init() for  *)
(* the next request, or main closes.                                       *)
WritevEnds(n) ==
    /\ Takes(n)
    /\ bytes_to_send - n <= 0
    /\ Unmap
    /\ IF conn.m_linger
         THEN /\ conn' = Reset(conn)
              /\ m_write_idx' = 0
              /\ begin' = got
              /\ stage' = "in"
         ELSE /\ stage' = "closed"
              /\ UNCHANGED <<conn, m_write_idx, begin>>
    /\ WriteReturns
    /\ UNCHANGED <<msgs, got, m_iv, m_iv_count>>

(* Mutant: the file is unmapped while the rest of it waits. *)
WritevAgainUnmaps ==
    /\ stage = "write" /\ Offered # <<>>
    /\ again < MaxAgain
    /\ again' = again + 1 /\ cut' = TRUE
    /\ Unmap
    /\ stage' = "out"
    /\ WriteReturns
    /\ UNCHANGED <<conn, inputvars, m_write_idx, m_iv, m_iv_count, wire>>

(* writev() is -1 with EAGAIN: the vectors are moved on, modfd(EPOLLOUT).  *)
(* newadd is 0 before the first writev() that takes something.             *)
WritevAgain ==
    LET newadd == IF bytes_have_send = 0 THEN 0 ELSE bytes_have_send - m_write_idx
    IN  /\ stage = "write" /\ Offered # <<>>
        /\ again < MaxAgain
        /\ again' = again + 1 /\ cut' = TRUE
        /\ m_iv' = IF bytes_have_send >= m_iv[0].iov_len
                     THEN [i \in 0..1 |->
                             IF i = 0 THEN [m_iv[0] EXCEPT !.iov_len = 0]
                             ELSE [base |-> "file", at |-> newadd,
                                   iov_len |-> bytes_to_send]]
                     ELSE [m_iv EXCEPT ![0].at = bytes_to_send,
                                       ![0].iov_len = @ - bytes_have_send]
        /\ stage' = "out"
        /\ WriteReturns
        /\ UNCHANGED <<conn, inputvars, m_write_idx, m_iv_count, m_file_address,
                       wire>>

(* writev() is -1 with another error: unmap(), and main closes. *)
WritevFails ==
    /\ stage = "write"
    /\ Unmap
    /\ stage' = "closed"
    /\ WriteReturns
    /\ UNCHANGED <<conn, inputvars, m_write_idx, m_iv, m_iv_count, wirevars>>
-----------------------------------------------------------------------------
Next ==
    \/ Accept \/ Close
    \/ Read \/ ReadFails
    \/ ProcessIncomplete \/ ProcessFile \/ ProcessForbidden \/ ProcessCloses
    \/ WriteStarts
    \/ \E n \in 0..Len(Offered) : Writev(n) \/ WritevEnds(n)
    \/ WritevAgain \/ WritevFails

Spec == Init /\ [][Next]_vars
-----------------------------------------------------------------------------
(* Type invariant: the indices stay within what was read; a head is in     *)
(* m_write_buf while a response is to be sent.                             *)
TypeOK ==
    /\ stage \in {"closed", "in", "out", "work", "write"}
    /\ conn \in Conn
    /\ m_read_idx(conn) < READ_BUFFER_SIZE
    /\ conn.m_start_line <= conn.m_check_idx
    /\ conn.m_check_idx <= m_read_idx(conn)
    /\ begin <= got /\ got <= Len(Stream)
    /\ m_iv_count \in 0..2
    /\ m_file_address \in {"null", "mapped", "failed"} /\ cut \in BOOLEAN
    /\ stage \in {"out", "write"} => m_write_idx = HeadLength
    /\ stage = "write" => bytes_to_send > 0

(* The message the parser is at, if it began where a message begins; a     *)
(* client that sends on before it is answered may lose some bytes of the   *)
(* next message in init().                                                 *)
Current == {i \in DOMAIN msgs : begin = StartOf(i)}

Received(i) == got >= StartOf(i) + Len(Encoded(msgs[i]))

FirstLineReceived(i) == got >= StartOf(i) + 3

(* A line of a header that breaks off at a CR. *)
StrayCR(i) ==
    msgs[i].line # "garbage" /\ CR \in {msgs[i].headers[k] : k \in DOMAIN msgs[i].headers}

(* What a message without one asks for: an answer once it is there, or, if *)
(* its first line is no request, the refusal of that line.                 *)
Expected(i) ==
    IF msgs[i].line = "garbage"
      THEN IF FirstLineReceived(i) THEN "BAD_REQUEST" ELSE "NO_REQUEST"
      ELSE IF Received(i) THEN "GET_REQUEST" ELSE "NO_REQUEST"

(* However the bytes of a message are cut into reads, and whatever the     *)
(* object served before, the parser gives the result the message asks for, *)
(* and where that is to answer it, has its method, keep-alive and body and *)
(* marks a POST for do_request(); except that no result is claimed once    *)
(* the head was handled in an earlier read than the end of the body, and   *)
(* of a request with a CR inside a line only that it is not answered       *)
(* (http_conn.cpp:162-205, 239-439).                                       *)
ParsedAsSent ==
    stage = "work" /\ conn.m_check_state # "CONTENT" =>
        \A i \in Current :
            LET c == ProcessRead(conn)[2]
            IN  /\ IF StrayCR(i) THEN Result # "GET_REQUEST" ELSE Result = Expected(i)
                /\ Result = "GET_REQUEST" =>
                     /\ c.m_method = msgs[i].line
                     /\ msgs[i].line = "POST" => c.cgi = 1
                     /\ c.m_linger = ("keep-alive" \in
                           {msgs[i].headers[k] : k \in DOMAIN msgs[i].headers})
                     /\ msgs[i].body > 0 =>
                          Text(c, c.m_string) = [k \in 1..msgs[i].body |-> "body"]

(* No request is answered before all of it is there, body included, and    *)
(* however the body was cut.                                               *)
NoEarlyAnswer ==
    stage = "work" /\ Result = "GET_REQUEST" => \A i \in Current : Received(i)

(* As long as the socket takes all it is offered, the client gets whole    *)
(* copies of this response and of nothing else, though lengths of earlier  *)
(* responses are still in m_iv: what is beyond the first copy, which a     *)
(* client that keeps the connection takes for its next response, is no     *)
(* part of another one (http_conn.cpp:631-634, 647, 678-699, 794, 817).    *)
WholeCopies ==
    ~cut => wire >= 0 /\ wire % Len(Response) = 0

(* A response with a file is sent from the mapping do_request() made for   *)
(* it and from no other, over short writes, EAGAIN and the next            *)
(* connections of the object; where that mapping failed, the client gets   *)
(* nothing beyond the head (http_conn.cpp:606-608, 616-623, 673, 688).     *)
MappedWhileSent ==
    stage \in {"out", "write"} /\ m_iv_count = 2 =>
        \/ m_file_address = "mapped"
        \/ m_file_address = "failed" /\ wire <= HeadLength

(* "m_check_idx is at the head of the body ... m_read_idx past the sum     *)
(* says that the body is read in" (http_conn.cpp:366-367): a request that  *)
(* is there to its last byte is not left as incomplete.                    *)
BodyRecognised ==
    stage = "work" =>
        \A i \in Current : Received(i) /\ ~StrayCR(i) => Result # "NO_REQUEST"

(* bytes_to_send is what is left to send (http_conn.h:150): no byte of the *)
(* response is sent twice, or out of its order.                            *)
SentOnce == wire \in 0..Len(Response)
=============================================================================
