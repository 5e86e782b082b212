------------------------- MODULE HttpClientGrammar -------------------------
(***************************************************************************)
(* The grammar of httpclient_parser.rl, rule by rule, read the way Ragel   *)
(* reads it.                                                               *)
(***************************************************************************)
EXTENDS HttpChars, Regex

CRLF == Alt({Str(<<13, 10>>), Str(<<10>>)})

CTL == (0..31) \cup {127}
\* ( ) < > @ , ; : \ " / [ ] ? = { } space and tab
tspecials ==
  {40, 41, 60, 62, 64, 44, 59, 58, 92, 34, 47, 91, 93, 63, 61, 123, 125, 32, 9}

token == Byte((0..127) \ (CTL \cup tspecials))

\* any -- CRLF: a single byte that is not itself a line end.
Reason_Phrase == Plus(Byte(AnyByte \ {10}))

Status_Code == Plus(Byte(Digit))

http_number == Plus(Byte(Digit)) \o Byte({46}) \o Plus(Byte(Digit))

HTTP_Version == Str(<<72, 84, 84, 80, 47>>) \o http_number

Status_Line ==
  Guarded(HTTP_Version \o Byte({32}) \o Status_Code \o Byte({32}) \o Reason_Phrase, CRLF)

field_name == Plus(token)

field_value == Star(Byte(AnyByte))

\* ':' and any white space, line ends included.
Separator_ == Byte({58}) \o Star(Byte(Space))

fields == Guarded(field_name \o Separator_ \o field_value, CRLF)

\* /Content-Length/i
content_length ==
  Word(<<67, 79, 78, 84, 69, 78, 84, 45, 76, 69, 78, 71, 84, 72>>)
    \o Separator_ \o Plus(Byte(Digit)) \o CRLF

\* /Connection/i and /close/i
conn_close ==
  Word(<<67, 79, 78, 78, 69, 67, 84, 73, 79, 78>>)
    \o Separator_ \o Word(<<67, 76, 79, 83, 69>>) \o CRLF

\* /Transfer-Encoding/i and /chunked/i
transfer_encoding_chunked ==
  Word(<<84, 82, 65, 78, 83, 70, 69, 82, 45, 69, 78, 67, 79, 68, 73, 78, 71>>)
    \o Separator_ \o Word(<<67, 72, 85, 78, 75, 69, 68>>) \o CRLF

message_header == Alt({transfer_encoding_chunked, conn_close, content_length, fields})

Response == Status_Line \o Star(message_header) \o CRLF

chunk_extension ==
  Star(Byte({59}) \o Plus(token) \o Opt(Byte({61}) \o Plus(token)))

chunk_size == Plus(Byte(Xdigit))

Chunked_Header == Guarded(chunk_size \o chunk_extension, CRLF)

main == {Response, Chunked_Header}
=============================================================================
