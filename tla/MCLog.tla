------------------------------- MODULE MCLog -------------------------------
(* A small instance of Log: documents that add, change and remove loggers,   *)
(* with entries that are invalid or have a name twice.                       *)
EXTENDS Log

CONSTANTS t1, t2, w1, w2

Stdio == [type |-> "StdoutLogAppender", file |-> "none", formatter |-> <<>>]
Disk(p) == [type |-> "FileLogAppender", file |-> "f", formatter |-> p]
M == <<Percent, "m">>
X == <<Percent, "x">>
Logs(nodes) == [key |-> "logs", node |-> nodes]
Buffer(v) == [key |-> "http.request.buffer_size", node |-> v]
Node(n, l, p, as) == [name |-> n, level |-> l, formatter |-> p, appenders |-> as]

Documents ==
  { <<Logs(<<Node("a", "INFO", M, <<Disk(X), Stdio>>)>>), Buffer(8)>>,
    <<Logs(<<Node("a", "error", X, <<Stdio>>), Node("b", "loud", <<>>, <<Disk(M)>>)>>)>>,
    <<Buffer(Bad), Logs(<<Node("none", "INFO", M, <<Stdio>>), Node("b", "INFO", M, <<>>),
                             Node("b", "FATAL", X, <<Stdio>>)>>), [key |-> "App", node |-> 8]>>,
    <<Logs(<<>>), [key |-> "app", node |-> 8]>> }
\* A second logger is added and the first stays as it is.
OneMore ==
  { <<Logs(<<Node("a", "INFO", M, <<Stdio>>)>>)>>,
    <<Logs(<<Node("a", "INFO", M, <<Stdio>>), Node("b", "INFO", M, <<Stdio>>)>>)>> }
ByName == <<"a", "b", "root">>
=============================================================================
