----------------------------- MODULE HttpServer ----------------------------
(***************************************************************************)
(* What happens on a connection the server has accepted: handleClient of   *)
(* http_server.cpp with recvRequest and sendResponse of http_session.cpp,  *)
(* the stream functions they read and write with, and the servlet table of *)
(* servlet.cpp, which the program may change meanwhile.  A message is a    *)
(* sequence of tokens; a piece of its head (the method, the path, the      *)
(* version, a header, the empty line) is one token or several, a byte of   *)
(* its body is one.  A read returns any non-empty prefix of what has       *)
(* arrived, and one that ends inside a piece cuts it: the parser's next    *)
(* call does not know where the piece began.                               *)
(***************************************************************************)
EXTENDS Integers, Sequences, SequencesExt

CONSTANTS
  Conns,       \* connections
  Script,      \* Script[c]: the requests the client would send, each a record of head
               \* (a part for each token), body (bytes), close (does it ask to close?) and
               \* uri; it does not wait for an answer before it sends the next
  Writes,      \* how many tokens a client writes at a time
  m_isKeepalive,
  BuffSize,    \* HttpRequestParser::GetHttpRequestBufferSize()
  Endings,     \* Endings[u]: what a cut can leave of the path u
  Uris,        \* exact names of servlets
  Globs,       \* patterns of servlets
  Matches,     \* Matches[g]: the uris a pattern matches
  MaxChanges   \* bound on the changes of the servlet table

\* The parts of a head: tokens of one part that follow each other are one piece.  "length"
\* is the Content-Length header, "header" any other, "last" the empty line.
HeadParts == {"method", "path", "version", "length", "header", "last"}

ASSUME HttpServerAssumption ==
  /\ BuffSize \in Nat \ {0} /\ MaxChanges \in Nat
  /\ m_isKeepalive \in BOOLEAN /\ Writes \subseteq Nat \ {0}
  /\ Uris \cap Globs = {}
  /\ \A c \in Conns : Len(Script[c]) \in Nat /\ \A i \in 1..Len(Script[c]) :
        LET r == Script[c][i] IN
        /\ r.head \in Seq(HeadParts) /\ Len(r.head) > 0 /\ r.body \in Nat
        /\ \A k \in 1..Len(r.head) : r.head[k] = "last" <=> k = Len(r.head)
        /\ Endings[r.uri] # {}
        /\ r.body > 0 => \E k \in 1..Len(r.head) : r.head[k] = "length"

VARIABLES
  pc,        \* where the handler of a connection is
  sent,      \* how many tokens of its stream the client has sent
  taken,     \* how many of them the server has read
  eof,       \* the client has closed its side
  buffer,    \* tokens after the head, left in recvRequest's buffer
  request,   \* the request being received: its head's number (0: not whole yet), its
             \* pieces that were cut, its body and the servlet found for it
  replies,   \* the requests the client has been answered
  m_datas, m_globs,   \* the servlet table; a servlet is the number of the change it came by
  latest,    \* the last servlet registered for a name, 0 when there is none
  changes

sessionvars == <<pc, sent, taken, eof, buffer, request, replies>>
servletvars == <<m_datas, m_globs, latest, changes>>

NoRequest == [number |-> 0, cut |-> {}, body |-> <<>>, servlet |-> 0, current |-> TRUE]

\* The tokens of the i-th request of a client; "final" is the last one of its piece.
Tokens(c, i) ==
  LET r == Script[c][i]
      h == Len(r.head)
  IN  [k \in 1..(h + r.body) |->
         [number |-> i, part |-> IF k <= h THEN r.head[k] ELSE "body", index |-> k - h,
          final |-> k < h => r.head[k] # r.head[k + 1]]]
Body(c, i) == SubSeq(Tokens(c, i), Len(Script[c][i].head) + 1, Len(Tokens(c, i)))
Streams == [c \in Conns |-> FlattenSeq([i \in 1..Len(Script[c]) |-> Tokens(c, i)])]
Stream(c) == Streams[c]

SessionInit ==
  /\ pc = [c \in Conns |-> "none"]
  /\ sent = [c \in Conns |-> 0] /\ taken = [c \in Conns |-> 0]
  /\ eof = [c \in Conns |-> FALSE]
  /\ buffer = [c \in Conns |-> <<>>] /\ request = [c \in Conns |-> NoRequest]
  /\ replies = [c \in Conns |-> <<>>]
  /\ m_datas = [u \in Uris |-> 0] /\ m_globs = <<>>
  /\ latest = [n \in Uris \cup Globs |-> 0] /\ changes = 0

Goto(c, label) == pc' = [pc EXCEPT ![c] = label]

\* The tokens that have arrived and have not been read.
Waiting(c) == SubSeq(Stream(c), taken[c] + 1, sent[c])
Reads(c, k) == taken' = [taken EXCEPT ![c] = @ + k]

-----------------------------------------------------------------------------
\* recvRequest

\* read() returned nothing, or -1 after the receive timeout, or the connection is gone:
\* the session is closed and handleClient leaves its loop.
RecvFails(c) ==
  /\ pc[c] \in {"recv", "body"} /\ Waiting(c) = <<>>
  /\ Goto(c, "closed")
  /\ buffer' = [buffer EXCEPT ![c] = <<>>] /\ request' = [request EXCEPT ![c] = NoRequest]
  /\ UNCHANGED <<sent, taken, eof, replies, servletvars>>

\* What the parser cannot make sense of closes the connection: a body where a head should
\* be, and the end of a method or version whose beginning an earlier call had.
Refused(token, cut) ==
  \/ token.part = "body"
  \/ token.final /\ token.part \in cut \cap {"method", "version"}

\* One turn of the loop: read() at the offset, execute(), the tests.  The parser takes
\* everything up to the end of the head; an unfinished head leaves nothing in the buffer,
\* and a piece of which only the beginning came is cut.
RecvHead(c) ==
  /\ pc[c] = "recv"
  /\ \E k \in 1..Len(Waiting(c)) :
       LET new == SubSeq(Waiting(c), 1, k)
           ends == {i \in 1..k : new[i].part = "last"}
           end == CHOOSE i \in ends : \A j \in ends : i <= j
           parsed == IF ends = {} THEN k ELSE end
       IN
       /\ k <= BuffSize
       /\ Reads(c, k)
       /\ IF \E i \in 1..parsed : Refused(new[i], request[c].cut)
          THEN /\ Goto(c, "closed")
               /\ UNCHANGED <<buffer, request>>
          ELSE IF ends = {}
          THEN /\ request' = [request EXCEPT ![c].cut =
                               @ \cup (IF new[k].final THEN {} ELSE {new[k].part})]
               /\ UNCHANGED <<pc, buffer>>
          ELSE /\ Goto(c, "length")
               /\ buffer' = [buffer EXCEPT ![c] = SubSeq(new, end + 1, k)]
               /\ request' = [request EXCEPT ![c].number = new[end].number]
  /\ UNCHANGED <<sent, eof, replies, servletvars>>

\* getContentLength: on_request_http_field drops a header that was cut, or stores it under
\* the rest of its name, and what is not there is 0.
getContentLength(c) ==
  IF "length" \in request[c].cut THEN 0 ELSE Script[c][request[c].number].body

\* Mutant: the body starts with the buffer, however little of it belongs to the body.
TakeBufferedAll(c) ==
  LET length == getContentLength(c) IN
  /\ pc[c] = "length"
  /\ request' = [request EXCEPT ![c].body = buffer[c]]
  /\ buffer' = [buffer EXCEPT ![c] = <<>>]
  /\ Goto(c, IF length > Len(buffer[c]) THEN "body" ELSE "handle")
  /\ UNCHANGED <<sent, taken, eof, replies, servletvars>>

\* Mutant: what the buffer held is not subtracted from what must still be read.
TakeBufferedWaits(c) ==
  LET length == getContentLength(c)
      len == IF length >= Len(buffer[c]) THEN Len(buffer[c]) ELSE length
  IN
  /\ pc[c] = "length"
  /\ request' = [request EXCEPT ![c].body = SubSeq(buffer[c], 1, len)]
  /\ buffer' = [buffer EXCEPT ![c] = <<>>]
  /\ Goto(c, IF length > 0 THEN "body" ELSE "handle")
  /\ UNCHANGED <<sent, taken, eof, replies, servletvars>>

\* The part of the body that is in the buffer; what else is there is given up with it.
TakeBuffered(c) ==
  LET length == getContentLength(c)
      len == IF length >= Len(buffer[c]) THEN Len(buffer[c]) ELSE length
  IN
  /\ pc[c] = "length"
  /\ request' = [request EXCEPT ![c].body = SubSeq(buffer[c], 1, len)]
  /\ buffer' = [buffer EXCEPT ![c] = <<>>]
  /\ Goto(c, IF length > Len(buffer[c]) THEN "body" ELSE "handle")
  /\ UNCHANGED <<sent, taken, eof, replies, servletvars>>

\* readFixSize: short reads until the rest of the body is there.
ReadFixSize(c) ==
  LET left == getContentLength(c) - Len(request[c].body) IN
  /\ pc[c] = "body"
  /\ \E k \in 1..Len(Waiting(c)) :
       /\ k <= left
       /\ Reads(c, k)
       /\ request' = [request EXCEPT ![c].body = @ \o SubSeq(Waiting(c), 1, k)]
       /\ Goto(c, IF k = left THEN "handle" ELSE "body")
  /\ UNCHANGED <<sent, eof, buffer, replies, servletvars>>

-----------------------------------------------------------------------------
\* The servlet table

\* getMatchedServlet: the exact name, then the first pattern that matches, then the
\* servlet for what is not found (0).
getMatchedServlet(uri) ==
  LET hits == {k \in 1..Len(m_globs) : uri \in Matches[m_globs[k].glob]}
  IN  IF uri \in Uris /\ m_datas[uri] # 0 THEN [name |-> uri, servlet |-> m_datas[uri]]
      ELSE IF hits # {}
      THEN LET k == CHOOSE i \in hits : \A j \in hits : i <= j
           IN  [name |-> m_globs[k].glob, servlet |-> m_globs[k].servlet]
      ELSE [name |-> "default", servlet |-> 0]

\* A change of the table under its write lock.
Changes == changes < MaxChanges /\ changes' = changes + 1

addServlet(uri) ==
  /\ Changes
  /\ m_datas' = [m_datas EXCEPT ![uri] = changes']
  /\ latest' = [latest EXCEPT ![uri] = changes']
  /\ UNCHANGED <<m_globs, sessionvars>>

delServlet(uri) ==
  /\ Changes /\ m_datas[uri] # 0
  /\ m_datas' = [m_datas EXCEPT ![uri] = 0]
  /\ latest' = [latest EXCEPT ![uri] = 0]
  /\ UNCHANGED <<m_globs, sessionvars>>

\* The first entry of a pattern is taken out.
Without(glob) ==
  LET ks == {k \in 1..Len(m_globs) : m_globs[k].glob = glob}
  IN  IF ks = {} THEN m_globs ELSE RemoveAt(m_globs, CHOOSE k \in ks : \A j \in ks : k <= j)

\* addGlobServlet: a pattern registered again goes to the end.
addGlobServlet(glob) ==
  /\ Changes
  /\ m_globs' = Append(Without(glob), [glob |-> glob, servlet |-> changes'])
  /\ latest' = [latest EXCEPT ![glob] = changes']
  /\ UNCHANGED <<m_datas, sessionvars>>

delGlobServlet(glob) ==
  /\ Changes /\ \E k \in 1..Len(m_globs) : m_globs[k].glob = glob
  /\ m_globs' = Without(glob)
  /\ latest' = [latest EXCEPT ![glob] = 0]
  /\ UNCHANGED <<m_datas, sessionvars>>

-----------------------------------------------------------------------------
\* handleClient

\* req->isClose(): m_close has the constructor's default and is never set from the head.
isClose == TRUE

\* m_dispatch->handle looks the path up, or what a cut has left of it, and lets go of the
\* table's lock with the servlet in hand.
FindServlet(c) ==
  LET uri == Script[c][request[c].number].uri IN
  /\ pc[c] = "handle"
  /\ \E u \in IF "path" \in request[c].cut THEN Endings[uri] ELSE {uri} :
       LET s == getMatchedServlet(u)
       IN  request' = [request EXCEPT
                         ![c].servlet = s.servlet,
                         ![c].current = s.name = "default" \/ latest[s.name] = s.servlet]
  /\ Goto(c, "call")
  /\ UNCHANGED <<sent, taken, eof, buffer, replies, servletvars>>

\* The servlet's handle and sendResponse.  A response to a client that has left is lost
\* and the result is not looked at; then the next turn, or session->close().
Handle(c) ==
  /\ pc[c] = "call"
  /\ replies' = [replies EXCEPT ![c] = Append(@, request[c])]
  /\ request' = [request EXCEPT ![c] = NoRequest]
  /\ Goto(c, IF ~m_isKeepalive \/ isClose THEN "closed" ELSE "recv")
  /\ UNCHANGED <<sent, taken, eof, buffer, servletvars>>

-----------------------------------------------------------------------------
\* The client

ClientSend(c) ==
  /\ pc[c] \notin {"none", "closed", "refused"} /\ ~eof[c]
  /\ sent[c] < Len(Stream(c))
  /\ \E n \in Writes :
       sent' = [sent EXCEPT ![c] = IF @ + n < Len(Stream(c)) THEN @ + n ELSE Len(Stream(c))]
  /\ UNCHANGED <<pc, taken, eof, buffer, request, replies, servletvars>>

ClientClose(c) ==
  /\ pc[c] \notin {"none", "closed", "refused"} /\ ~eof[c]
  /\ eof' = [eof EXCEPT ![c] = TRUE]
  /\ UNCHANGED <<pc, sent, taken, buffer, request, replies, servletvars>>

Session(c) ==
  \/ RecvHead(c) \/ TakeBuffered(c) \/ ReadFixSize(c) \/ FindServlet(c) \/ Handle(c)
  \/ eof[c] /\ RecvFails(c)

SessionNext ==
  \/ \E c \in Conns : Session(c) \/ RecvFails(c) \/ ClientSend(c) \/ ClientClose(c)
  \/ \E u \in Uris : addServlet(u) \/ delServlet(u)
  \/ \E g \in Globs : addGlobServlet(g) \/ delGlobServlet(g)

-----------------------------------------------------------------------------
\* The i-th answer on a connection is to the i-th request of its client, whose method and
\* version were read whole.  The servlet was given that request with its whole body and
\* nothing else, or with none when a read cut the Content-Length header; and when it was
\* looked up it was the one registered last under the name that was found.
AnswersMatch ==
  \A c \in Conns : \A i \in 1..Len(replies[c]) :
     LET r == replies[c][i] IN
     /\ r.number = i /\ r.cut \cap {"method", "version"} = {}
     /\ r.body = IF "length" \in r.cut THEN <<>> ELSE Body(c, i)
     /\ r.current

\* With keepalive the server closes a connection of its own accord only after a request
\* that asked for it.
KeepsAlive ==
  [][\A c \in Conns :
       m_isKeepalive /\ Len(replies'[c]) > Len(replies[c]) /\ pc'[c] = "closed"
         => Script[c][Len(replies'[c])].close]_sessionvars

\* A client's first request has been sent whole.
Complete(c) == sent[c] >= Len(Tokens(c, 1))

\* The connection was closed because a read cut the method or the version.
CutShort(c) == pc[c] = "closed" /\ request[c].cut \cap {"method", "version"} # {}
=============================================================================
