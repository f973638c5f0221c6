----------------------------- MODULE HttpParser -----------------------------
(***************************************************************************)
(* The two state machines that find a request in m_read_buf (process_read, *)
(* parse_line and parse_* in http/http_conn.cpp), as operators on a record *)
(* of the fields they read and change.                                     *)
(*                                                                         *)
(* A byte of the buffer is CR, LF or NUL, a byte of a body, or a word that *)
(* stands for the text of a line: cuts inside a text make no difference to *)
(* a scan for CR and LF.  Indices count from 0 as in the code; m_read_idx  *)
(* is the length of the buffer's filled part.                              *)
(***************************************************************************)
EXTENDS Integers, Sequences

CONSTANTS CR, LF, NUL,
          BodyLength   \* what Content-Length announces, as atol() reads it

Words == {"GET", "POST", "garbage", "keep-alive", "Content-Length", "other",
          "body"}

Bytes == Words \cup {CR, LF, NUL}

ASSUME ParserAssumption ==
    /\ BodyLength \in Int
    /\ CR # LF /\ CR # NUL /\ LF # NUL /\ {CR, LF, NUL} \cap Words = {}

(* Mutant: the length of the last body stays. *)
ResetKeepsLength(c) ==
    [c EXCEPT !.m_read_buf = <<>>, !.m_check_idx = 0, !.m_start_line = 0,
              !.m_check_state = "REQUESTLINE", !.m_linger = FALSE,
              !.m_method = "GET"]

(* init(): cgi and m_string are not reset. *)
Reset(c) ==
    [c EXCEPT !.m_read_buf = <<>>, !.m_check_idx = 0, !.m_start_line = 0,
              !.m_check_state = "REQUESTLINE", !.m_linger = FALSE,
              !.m_method = "GET", !.m_content_length = 0]

Byte(c, i) == c.m_read_buf[i + 1]

m_read_idx(c) == Len(c.m_read_buf)

(* The bytes i and j are set to NUL, if they are in the buffer: a write    *)
(* outside it, which a negative length can make, is not modelled.          *)
Zeroed(c, i, j) ==
    [k \in DOMAIN c.m_read_buf |->
        IF k \in {i + 1, j + 1} THEN NUL ELSE c.m_read_buf[k]]

(* parse_line() stops at the first CR or LF it meets. *)
LineEnd(c) ==
    LET ends == {i \in c.m_check_idx..(m_read_idx(c) - 1) : Byte(c, i) \in {CR, LF}}
    IN  IF ends = {} THEN m_read_idx(c)
                     ELSE CHOOSE i \in ends : \A j \in ends : i <= j

(* parse_line(): the status of the line, and the record after it.          *)
ParseLine(c) ==
    LET i  == LineEnd(c)
        at(n) == [c EXCEPT !.m_check_idx = n]
        line(j, k) == [at(k + 1) EXCEPT !.m_read_buf = Zeroed(c, j, k)]
    IN  IF i = m_read_idx(c) \/ (Byte(c, i) = CR /\ i + 1 = m_read_idx(c))
          THEN <<"LINE_OPEN", at(i)>>
        ELSE IF Byte(c, i) = CR /\ Byte(c, i + 1) = LF
          THEN <<"LINE_OK", line(i, i + 1)>>
        ELSE IF Byte(c, i) = LF /\ i > 1 /\ Byte(c, i - 1) = CR
          THEN <<"LINE_OK", line(i - 1, i)>>
        ELSE <<"LINE_BAD", at(i)>>

(* The string at position i of the buffer, up to the first NUL. *)
Text(c, i) ==
    LET nuls == {k \in i..(m_read_idx(c) - 1) : Byte(c, k) = NUL}
        end  == IF nuls = {} THEN m_read_idx(c)
                             ELSE CHOOSE k \in nuls : \A j \in nuls : k <= j
    IN  SubSeq(c.m_read_buf, i + 1, end)

(* parse_request_line() *)
ParseRequestLine(c, text) ==
    IF text \in {<<"GET">>, <<"POST">>}
      THEN <<"NO_REQUEST",
             [c EXCEPT !.m_check_state = "HEADER", !.m_method = text[1],
                       !.cgi = IF text[1] = "POST" THEN 1 ELSE @]>>
      ELSE <<"BAD_REQUEST", c>>

(* parse_headers() *)
ParseHeaders(c, text) ==
    CASE text = <<>> /\ c.m_content_length # 0
            -> <<"NO_REQUEST", [c EXCEPT !.m_check_state = "CONTENT"]>>
      [] text = <<>> /\ c.m_content_length = 0 -> <<"GET_REQUEST", c>>
      [] text = <<"keep-alive">> -> <<"NO_REQUEST", [c EXCEPT !.m_linger = TRUE]>>
      [] text = <<"Content-Length">>
            -> <<"NO_REQUEST", [c EXCEPT !.m_content_length = BodyLength]>>
      [] OTHER -> <<"NO_REQUEST", c>>

(* Mutant: the head alone makes the request complete. *)
ParseContentEarly(c, start) ==
    <<"GET_REQUEST", [c EXCEPT !.m_string = start]>>

(* parse_content(): the body starts at text, which was m_start_line, and   *)
(* its end is looked for from m_check_idx.                                 *)
ParseContent(c, start) ==
    IF m_read_idx(c) >= c.m_content_length + c.m_check_idx
      THEN LET end == start + c.m_content_length
           IN  <<"GET_REQUEST",
                 [c EXCEPT !.m_read_buf = Zeroed(c, end, end), !.m_string = start]>>
      ELSE <<"NO_REQUEST", c>>

(* The fields of http_conn that the parser uses. *)
Conn == [m_read_buf : Seq(Bytes), m_check_idx : Nat, m_start_line : Nat,
         m_check_state : {"REQUESTLINE", "HEADER", "CONTENT"},
         m_linger : BOOLEAN, m_content_length : Int,
         m_method : {"GET", "POST"}, cgi : {0, 1}, m_string : Nat]

(* The line the loop of process_read() handles next: in CONTENT, the body. *)
NextLine(c, status) ==
    IF c.m_check_state = "CONTENT" /\ status = "LINE_OK" THEN <<status, c>>
                                                         ELSE ParseLine(c)

(* m_start_line moves to the next line, and this one is handled. *)
Handled(line) ==
    LET start == line.m_start_line
        c     == [line EXCEPT !.m_start_line = line.m_check_idx]
        text  == Text(c, start)
    IN  CASE c.m_check_state = "REQUESTLINE" -> ParseRequestLine(c, text)
          [] c.m_check_state = "HEADER" -> ParseHeaders(c, text)
          [] c.m_check_state = "CONTENT" -> ParseContent(c, start)

(* The loop is tested with a record and a status. *)
Turns == Conn \X {"LINE_OK", "LINE_OPEN"}

(* process_read() from the test of its loop on: the result, which is       *)
(* GET_REQUEST where do_request() is called, and the record after it.      *)
Loop[turn \in Turns] ==
    LET line == NextLine(turn[1], turn[2])
        step == Handled(line[2])
    IN  IF line[1] # "LINE_OK" THEN <<"NO_REQUEST", line[2]>>
        ELSE IF step[1] # "NO_REQUEST" THEN step
        ELSE Loop[<<step[2], IF line[2].m_check_state = "CONTENT" THEN "LINE_OPEN"
                                                                  ELSE "LINE_OK">>]

ProcessRead(c) == Loop[<<c, "LINE_OK">>]
=============================================================================
