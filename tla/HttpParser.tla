---------------------------- MODULE HttpParser -----------------------------
(***************************************************************************)
(* HttpRequestParser and HttpResponseParser (http_parser.cpp) over the two *)
(* generated automata.  The input is any sequence of bytes, cut into calls *)
(* of execute() anywhere.  The parser keeps its state cs across calls; the *)
(* positions of the tokens it has begun it does not: they are offsets into *)
(* the buffer of one call.  Beside the automaton runs what its grammar     *)
(* says of the same bytes (rest).                                          *)
(***************************************************************************)
EXTENDS Http11Table, HttpClientTable, SequencesExt

CONSTANTS
  Bytes,      \* the bytes offered, one of each class the parsers tell apart
  Intended,   \* how the grammar is read, see Http11Grammar
  MaxCalls,   \* bound on the calls of execute() for one message
  MaxChunks   \* bound on the chunk headers read after a response

Rq == INSTANCE Http11Grammar
Rs == INSTANCE HttpClientGrammar

VARIABLES
  kind,     \* "request" or "response": which of the two parsers this is
  cs,       \* parser->cs; 0 is the error state
  rest,     \* the phrases of the grammar that may still follow
  taken,    \* the positions taken for a token that is not reported yet
  old,      \* those of them that point into the buffer of an earlier call
  called,   \* the callbacks made for the message so far, fields left out
  flags,    \* xml_sent, json_sent, chunked, close, content_len
  wrong,    \* what was reported from a position that is not of this buffer
  m_error,  \* the error a callback has set
  done,     \* the action done has run: header_done was called
  calls,    \* calls of execute() for this message
  chunks    \* messages parsed as chunk headers by this parser

vars == <<kind, cs, rest, taken, old, called, flags, wrong, m_error,
          done, calls, chunks>>

Positions == {"mark", "field_start", "field_len", "query_start"}

Rows(k) == IF k = "request" THEN Http11 ELSE HttpClient

Grammar(k) == IF k = "request" THEN Rq!main ELSE Rs!main

\* The callbacks that get the text from mark to the current byte.
FromMark ==
  {"request_method", "request_uri", "request_path", "fragment", "http_version",
   "reason_phrase", "status_code", "chunk_size"}

\* What an action of the automaton reads.
Uses(a) ==
  CASE a \in FromMark \cup {"write_content_len"} -> {"mark"}
    [] a = "query_string" -> {"query_start"}
    [] a = "write_field"  -> {"field_start"}
    [] a = "write_value"  -> {"field_start", "field_len", "mark"}
    [] OTHER -> {}

\* Mutant: the start of a query is not kept.
TakesNoQuery(a) ==
  CASE a \in {"mark", "start_value"} -> {"mark"}
    [] a = "start_field" -> {"field_start"}
    [] a = "write_field" -> {"field_len"}
    [] OTHER -> {}

\* The position an action takes, as an offset into the current buffer.
Takes(a) ==
  CASE a \in {"mark", "start_value"} -> {"mark"}
    [] a = "start_field" -> {"field_start"}
    [] a = "start_query" -> {"query_start"}
    [] a = "write_field" -> {"field_len"}
    [] OTHER -> {}

\* The positions that are done with once an action has reported their token.
Releases(a) == IF a \in {"request_path", "write_content_len", "write_field"} THEN {} ELSE Uses(a)

\* The field of the parser an action sets.
Flag(a) ==
  CASE a = "xml"  -> {"xml_sent"}
    [] a = "json" -> {"json_sent"}
    [] a \in {"chunk_size", "trans_chunked"} -> {"chunked"}
    [] a = "write_connection_close" -> {"close"}
    [] a = "write_content_len" -> {"content_len"}
    [] OTHER -> {}

\* One action of the automaton.
Perform(s, a) ==
  [taken  |-> (s.taken \ Releases(a)) \cup Takes(a),
   old    |-> s.old \ (Releases(a) \cup Takes(a)),
   called |-> IF a \in FromMark \cup {"query_string"} THEN Append(s.called, a) ELSE s.called,
   flags  |-> s.flags \cup Flag(a),
   wrong  |-> IF Uses(a) \subseteq s.taken \ s.old THEN s.wrong ELSE s.wrong \cup {a}]

-----------------------------------------------------------------------------
\* http_parser_init and httpclient_parser_init
StartState(k) == IF k = "request" THEN http_parser_start ELSE httpclient_parser_start

Init ==
  /\ kind \in {"request", "response"}
  /\ cs = StartState(kind)
  /\ rest = Grammar(kind)
  /\ taken = {} /\ old = {}
  /\ called = <<>> /\ flags = {} /\ wrong = {}
  /\ m_error = 0
  /\ done = FALSE
  /\ calls = 1 /\ chunks = 0

\* The edge of the current state for byte b, as a set with one or no element.
Edge(b) == {e \in Rows(kind)[cs] : b \in e.on}

\* on_request_method and the two version callbacks refuse what they do not know: the
\* method by its name; a response's version, whose digits the grammar leaves open.
Refused(a) ==
  CASE a = "request_method" -> {1000}
    [] a = "http_version" /\ kind = "response" -> {1001}
    [] OTHER -> {}

\* One byte of the current buffer.
Consume(b) ==
  /\ cs # 0 /\ ~done
  /\ rest' = Rq!After(rest, b)
  /\ \/ /\ Edge(b) = {}
        /\ cs' = 0
        /\ UNCHANGED <<taken, old, called, flags, wrong, m_error, done>>
     \/ \E e \in Edge(b) :
          LET s == FoldLeft(Perform, [taken |-> taken, old |-> old, called |-> called,
                                      flags |-> flags, wrong |-> wrong], e.run)
          IN /\ cs' = e.to
             /\ taken' = s.taken /\ old' = s.old /\ called' = s.called
             /\ flags' = s.flags /\ wrong' = s.wrong
             /\ done' = (\E i \in 1..Len(e.run) : e.run[i] = "done")
             /\ m_error' \in {m_error} \cup UNION {Refused(e.run[i]) : i \in 1..Len(e.run)}
  /\ UNCHANGED <<kind, calls, chunks>>

\* The positions still taken when the next execute() begins: the request parser resets
\* all but query_start to 0, the response parser resets none.
Kept == IF kind = "request" THEN taken \cap {"query_start"} ELSE taken

\* execute() has used up its buffer and is called with the next bytes; what it kept
\* now points into other bytes (field_len is a length, not an offset).
NextCall ==
  /\ cs # 0 /\ ~done /\ calls < MaxCalls
  /\ calls' = calls + 1
  /\ taken' = Kept
  /\ old' = Kept \ {"field_len"}
  /\ UNCHANGED <<kind, cs, rest, called, flags, wrong, m_error, done, chunks>>

\* HttpResponseParser::execute(.., true): the parser is set up anew, for a chunk header.
NextChunk ==
  /\ kind = "response" /\ done /\ chunks < MaxChunks
  /\ UNCHANGED <<kind, m_error>>
  /\ cs' = StartState(kind)
  /\ rest' = Grammar(kind)
  /\ taken' = {} /\ old' = {}
  /\ called' = <<>> /\ flags' = {} /\ wrong' = {}
  /\ done' = FALSE
  /\ calls' = 1 /\ chunks' = chunks + 1

Next == (\E b \in Bytes : Consume(b)) \/ NextCall \/ NextChunk

Spec == Init /\ [][Next]_vars

-----------------------------------------------------------------------------
\* http_parser_is_finished and httpclient_parser_is_finished
IsFinished ==
  IF kind = "request" THEN cs >= http_parser_first_final
                      ELSE cs = httpclient_parser_first_final

TypeOK ==
  /\ cs \in 0..Len(Rows(kind))
  /\ taken \subseteq Positions /\ old \subseteq taken
  /\ flags \subseteq {"xml_sent", "json_sent", "chunked", "close", "content_len"}
  /\ m_error \in {0, 1000, 1001}

\* The generated automaton accepts exactly the prefixes the grammar of the .rl file
\* does, runs the action done exactly where a message of the grammar ends, and the
\* request parser says it is finished exactly then: recvRequest() leaves its loop by it.
SameLanguage ==
  /\ (cs = 0) = (rest = {})
  /\ done = (\E p \in rest : Rq!Nullable(p))
  /\ kind = "request" => done = IsFinished

\* A request that arrives in one buffer is reported from the right place in it: every callback
\* gets an offset that was taken for its own token, not one left from another.
PositionsOfThisCall == kind = "request" /\ calls = 1 => wrong = {}

\* The callbacks of a request line come once each and in the order of the line, and
\* all of them before header_done, however the bytes are cut into calls.
CallbackOrder ==
  done /\ kind = "request" /\ flags = {} =>
    called \in {<<"request_method", "request_path">> \o q \o <<"request_uri">> \o f
                  \o <<"http_version">> :
                  q \in {<<>>, <<"query_string">>}, f \in {<<>>, <<"fragment">>}}

\* A header field whose line has been read is stored in the message with its name and
\* value, as the comment on on_request_http_field says.
FieldStored == kind = "request" => "write_value" \notin wrong
=============================================================================
