--------------------------- MODULE Http11Grammar ---------------------------
(***************************************************************************)
(* The grammar of http11_parser.rl, rule by rule.  With Intended = FALSE   *)
(* it is read the way Ragel reads it; with Intended = TRUE the way its     *)
(* comments and RFC 3986 do: in Ragel "1"-"9" is a difference, not a       *)
(* range, 0 - 31 likewise, and 6( h16 ":" ) is the byte 6 followed by one  *)
(* h16 ":", not six of them.                                               *)
(***************************************************************************)
EXTENDS HttpChars, Regex

CONSTANT Intended

\* "a"-"b" of the grammar.
Minus_(a, b) == IF Intended THEN a..b ELSE {a} \ {b}

\* n( phrase ) of the grammar.
Count(n, phrase) == IF Intended THEN Times(phrase, n) ELSE Byte({n}) \o phrase

CRLF == Alt({Str(<<13, 10>>), Str(<<10>>)})

more_delims == IF UriRelaxed THEN {123, 125, 94} ELSE {}
\* ! $ & ' ( ) * + , ; =
sub_delims == {33, 36, 38, 39, 40, 41, 42, 43, 44, 59, 61} \cup more_delims
\* - . _ ~
unreserved == Alpha \cup Digit \cup {45, 46, 95, 126}

pct_encoded == Byte({37}) \o Byte(Xdigit) \o Byte(Xdigit)

\* One of the bytes, or an escaped byte.
OneOf(bytes) == Alt({Byte(bytes), pct_encoded})

pchar == OneOf(unreserved \cup sub_delims \cup {58, 64})

fragment == Star(OneOf(unreserved \cup sub_delims \cup {58, 64, 47, 63}))

query == Star(OneOf(unreserved \cup sub_delims \cup {58, 64, 47, 63}))

segment_nz_nc == Plus(OneOf(unreserved \cup sub_delims \cup {64}))

segment_nz == Plus(pchar)

segment == Star(pchar)

path_empty == <<>>

path_abempty == Star(Byte({47}) \o segment)

path_rootless == segment_nz \o path_abempty

path_noscheme == segment_nz_nc \o path_abempty

path_absolute == Byte({47}) \o Opt(segment_nz \o path_abempty)

reg_name == Star(OneOf(unreserved \cup sub_delims))

dec_octet ==
  Alt({Byte(Digit),
       Byte(Minus_(49, 57)) \o Byte(Digit),
       Byte({49}) \o Times(Byte(Digit), 2),
       Byte({50}) \o Byte(Minus_(48, 52)) \o Byte(Digit),
       Str(<<50, 53>>) \o Byte(Minus_(48, 53))})

IPv4address == dec_octet \o Times(Byte({46}) \o dec_octet, 3)

h16 == Byte(Xdigit) \o UpTo(Byte(Xdigit), 3)

h16c == h16 \o Byte({58})

ls32 == Alt({h16c \o h16, IPv4address})

\* What may stand before the "::" when it stands after n groups or more.
Before(n) == Opt(AtLeast(h16c, n) \o h16)

IPv6address ==
  LET dd == Str(<<58, 58>>) IN
  Alt({             Count(6, h16c) \o ls32,
               dd \o Count(5, h16c) \o ls32,
    Opt(h16) \o dd \o Count(4, h16c) \o ls32,
    Before(1) \o dd \o Count(3, h16c) \o ls32,
    Before(2) \o dd \o Count(2, h16c) \o ls32,
    Before(3) \o dd \o h16c \o ls32,
    Before(4) \o dd \o ls32,
    Before(5) \o dd \o h16,
    Before(6) \o dd})

IPvFuture ==
  Byte({118}) \o Plus(Byte(Xdigit)) \o Byte({46})
    \o Plus(Byte(unreserved \cup sub_delims \cup {58}))

IP_literal == Byte({91}) \o Alt({IPv6address, IPvFuture}) \o Byte({93})

port == Star(Byte(Digit))

host == Alt({IP_literal, IPv4address, reg_name})

userinfo == Star(OneOf(unreserved \cup sub_delims \cup {58}))

authority == Opt(userinfo \o Byte({64})) \o host \o Opt(Byte({58}) \o port)

scheme == Byte(Alpha) \o Star(Byte(Alpha \cup Digit \cup {43, 45, 46}))

relative_part ==
  Alt({Str(<<47, 47>>) \o authority \o path_abempty,
       path_absolute, path_noscheme, path_empty})

hier_part ==
  Alt({Str(<<47, 47>>) \o authority \o path_abempty,
       path_absolute, path_rootless, path_empty})

\* What follows the path: a query and a fragment.
Suffix == Opt(Byte({63}) \o query) \o Opt(Byte({35}) \o fragment)

relative_ref == relative_part \o Suffix

URI == scheme \o Byte({58}) \o hier_part \o Suffix

URI_reference == Alt({URI, relative_ref})

Method == LET c == Byte(Upper \cup Digit) IN c \o UpTo(c, 19)

HTTP_Version == Str(<<72, 84, 84, 80, 47, 49, 46>>) \o Byte({48, 49})

Request_Line ==
  Method \o Byte({32}) \o URI_reference \o Byte({32}) \o HTTP_Version \o CRLF

HTTP_CTL == Minus_(0, 31) \cup {127}
\* ( ) < > @ , ; : \ " / [ ] ? = { } space and tab
HTTP_separator ==
  {40, 41, 60, 62, 64, 44, 59, 58, 92, 34, 47, 91, 93, 63, 61, 123, 125, 32, 9}

lws == Opt(CRLF) \o Plus(Byte({32, 9}))

token == Byte((0..127) \ (HTTP_CTL \cup HTTP_separator))

content == Alt({Byte(AnyByte \ HTTP_CTL), lws})

field_name == Plus(token)

field_value == Star(content)

message_header ==
  Guarded(field_name \o Byte({58}) \o Star(lws) \o field_value, CRLF)

Request == Request_Line \o Star(message_header) \o CRLF

SocketJSONData == Guarded(Byte({123}) \o Star(Byte(AnyByte)) \o Byte({125}), Byte({0}))

SocketXMLData ==
  Guarded(Byte({60}) \o Plus(Byte(Alpha \cup Digit \cup {45, 46}))
            \o Byte({47, 62} \cup Space) \o Star(Byte(AnyByte)) \o Byte({62}),
          Byte({0}))

SocketJSON == Byte({64}) \o relative_part \o Byte({32}) \o SocketJSONData

main == {Request, SocketXMLData, SocketJSON}
=============================================================================
