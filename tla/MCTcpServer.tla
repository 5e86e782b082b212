---------------------------- MODULE MCTcpServer ----------------------------
(* A small instance of TcpServer and HttpServer. *)
EXTENDS TcpServer

CONSTANTS c1, c2, a, b, x, y, star

\* One client sends a request with a body, whose method and whose Content-Length header a
\* read may cut, and then the empty line of another; a second client sends a request
\* without a body.
TwoClients ==
  [c \in Conns |->
     IF c = c1
     THEN <<[head |-> <<"method", "method", "path", "length", "length", "last">>,
             body |-> 2, close |-> FALSE, uri |-> x],
            [head |-> <<"last">>, body |-> 0, close |-> TRUE, uri |-> y]>>
     ELSE <<[head |-> <<"method", "last">>, body |-> 0, close |-> FALSE, uri |-> y]>>]
LeavesY == [u \in {x, y} |-> {y}]
Everything == [g \in Globs |-> {x, y}]
OneOrTwo == {<<a>>, <<b, a>>}
=============================================================================
