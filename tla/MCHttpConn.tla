---------------------------- MODULE MCHttpConn ------------------------------
(* HttpConn with the messages TLC lets clients send: each after a request  *)
(* that keeps the connection.                                              *)
EXTENDS HttpConn

Message(line, headers, body) == [line |-> line, headers |-> headers, body |-> body]

Keeping == Message("GET", <<"keep-alive">>, 0)

MCMessages ==
    {Message("GET", <<CR>>, 0),
     Message("GET", <<"other", "keep-alive">>, 0),
     Message("POST", <<"Content-Length">>, BodyLength),
     Message("garbage", <<>>, 0)}

MCStreams == {<<Keeping, m>> : m \in MCMessages}
=============================================================================
