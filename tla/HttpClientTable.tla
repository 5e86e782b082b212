-------------------------- MODULE HttpClientTable --------------------------
(***************************************************************************)
(* The response automaton of httpclient_parser.rl.cpp, generated by Ragel  *)
(* from httpclient_parser.rl, laid out like Http11Table.                   *)
(***************************************************************************)
EXTENDS HttpChars, Sequences

\* One letter of a field name the grammar knows: on c the name goes on, on any
\* other byte of a token it is just a field name.
Keyword(c, next) ==
  {Go(Token \ c, 21), Do(Colon, 22, <<"write_field">>), Go(c, next)}

\* Chunked_Header or Status_Line.
Rs1to2 ==
  <<{Do(Xdigit, 2, <<"mark">>), Do({72}, 8, <<"mark">>)},
    {Do(Lf, 120, <<"chunk_size", "done">>), Do(Cr, 3, <<"chunk_size">>), Go(Xdigit, 2),
     Do(Semi, 4, <<"chunk_size">>)}>>

\* Chunked_Header or Response is complete: final state.
Rs120 ==
  <<{}>>

\* chunk_extension name.
Rs3to5 ==
  <<{Do(Lf, 120, <<"done">>)},
    {Do(Token, 5, <<"start_field">>)},
    {Do(Lf, 120, <<"write_field", "start_value", "write_value", "done">>),
     Do(Cr, 3, <<"write_field", "start_value", "write_value">>), Go(Token, 5),
     Do(Semi, 4, <<"write_field", "start_value", "write_value">>), Do(Eq, 6, <<"write_field", "start_value">>)}>>

\* chunk_extension value; HTTP_Version.
Rs6to15 ==
  <<{Do(Token, 7, <<"start_value">>)},
    {Do(Lf, 120, <<"write_value", "done">>), Do(Cr, 3, <<"write_value">>), Go(Token, 7),
     Do(Semi, 4, <<"write_value">>)},
    {Go({84}, 9)},
    {Go({84}, 10)},
    {Go({80}, 11)},
    {Go(Slash, 12)},
    {Go(Digit, 13)},
    {Go(Dot, 14), Go(Digit, 13)},
    {Go(Digit, 15)},
    {Do(Sp, 16, <<"http_version">>), Go(Digit, 15)}>>

\* Status_Code and Reason_Phrase.
Rs16to20 ==
  <<{Do(Digit, 17, <<"mark">>)},
    {Do(Sp, 18, <<"status_code">>), Go(Digit, 17)},
    {Do(AnyByte \ Lf, 19, <<"mark">>)},
    {Go(AnyByte \ {10, 13}, 19), Do(Lf, 20, <<"reason_phrase">>), Do(Cr, 24, <<"reason_phrase">>)},
    {Do(Lf, 120, <<"done">>), Go(Cr, 3), Do(Token \ (cC \cup cT), 21, <<"start_field">>),
     Do(cC, 25, <<"start_field">>), Do(cT, 44, <<"start_field">>)}>>

\* fields: name, ':', value.
Rs21to24 ==
  <<{Go(Token, 21), Do(Colon, 22, <<"write_field">>)},
    {Do(AnyByte \ Space, 23, <<"start_value">>), Do({9, 11, 12, 32}, 22, <<"start_value">>),
     Do(Lf, 20, <<"start_value", "write_value">>), Do(Cr, 24, <<"start_value", "write_value">>)},
    {Go(AnyByte \ {10, 13}, 23), Do(Lf, 20, <<"write_value">>), Do(Cr, 24, <<"write_value">>)},
    {Go(Lf, 20)}>>

\* Connection or Content-Length.
Rs25to28 ==
  <<Keyword(cO, 26),
    Keyword(cN, 27),
    {Go(Token \ (cN \cup cT), 21), Do(Colon, 22, <<"write_field">>), Go(cN, 28), Go(cT, 101)},
    Keyword(cE, 29)>>

Rs29to33 ==
  <<Keyword(cC, 30),
    Keyword(cT, 31),
    Keyword(cI, 32),
    Keyword(cO, 33),
    Keyword(cN, 34)>>

Rs34to41 ==
  <<{Go(Token, 21), Do(Colon, 35, <<"write_field">>)},
    {Do(AnyByte \ (Space \cup cC), 23, <<"start_value">>), Do({9, 11, 12, 32}, 35, <<"start_value">>),
     Do(Lf, 36, <<"start_value", "write_value">>), Do(Cr, 95, <<"start_value", "write_value">>),
     Do(cC, 96, <<"start_value">>)},
    {Go({9, 11, 12, 32}, 37), Do(Lf, 122, <<"done">>), Go(Cr, 89),
     Do(Token \ (cC \cup cT), 21, <<"start_field">>), Do(cC, 90, <<"start_field">>),
     Do(cT, 44, <<"start_field">>)},
    {Go(Space, 37), Go(cC, 38)},
    {Go(cL, 39)},
    {Go(cO, 40)},
    {Go(cS, 41)},
    {Go(cE, 42)}>>

Rs42to45 ==
  <<{Go(Lf, 43), Go(Cr, 88)},
    {Do(Lf, 120, <<"write_connection_close", "done">>), Do(Cr, 3, <<"write_connection_close">>),
     Do(Token \ (cC \cup cT), 21, <<"write_connection_close", "start_field">>),
     Do(cC, 25, <<"write_connection_close", "start_field">>),
     Do(cT, 44, <<"write_connection_close", "start_field">>)},
    Keyword(cR, 45),
    Keyword(cA, 46)>>

Rs46to50 ==
  <<Keyword(cN, 47),
    Keyword(cS, 48),
    Keyword(cF, 49),
    Keyword(cE, 50),
    Keyword(cR, 51)>>

Rs51to55 ==
  <<{Go(Token \ {45}, 21), Go(Minus, 52), Do(Colon, 22, <<"write_field">>)},
    Keyword(cE, 53),
    Keyword(cN, 54),
    Keyword(cC, 55),
    Keyword(cO, 56)>>

Rs56to60 ==
  <<Keyword(cD, 57),
    Keyword(cI, 58),
    Keyword(cN, 59),
    Keyword(cG, 60),
    {Go(Token, 21), Do(Colon, 61, <<"write_field">>)}>>

Rs61to69 ==
  <<{Do(AnyByte \ (Space \cup cC), 23, <<"start_value">>), Do({9, 11, 12, 32}, 61, <<"start_value">>),
     Do(Lf, 62, <<"start_value", "write_value">>), Do(Cr, 80, <<"start_value", "write_value">>),
     Do(cC, 81, <<"start_value">>)},
    {Go({9, 11, 12, 32}, 63), Do(Lf, 121, <<"done">>), Go(Cr, 72),
     Do(Token \ (cC \cup cT), 21, <<"start_field">>), Do(cC, 73, <<"start_value", "start_field">>),
     Do(cT, 44, <<"start_field">>)},
    {Go(Space, 63), Do(cC, 64, <<"start_value">>)},
    {Go(cH, 65)},
    {Go(cU, 66)},
    {Go(cN, 67)},
    {Go(cK, 68)},
    {Go(cE, 69)},
    {Go(cD, 70)}>>

Rs70to71 ==
  <<{Do(Lf, 20, <<"write_value", "trans_chunked">>), Do(Cr, 71, <<"write_value">>)},
    {Do(Lf, 20, <<"trans_chunked">>)}>>

Rs121 ==
  <<{Go(Space, 63), Do(cC, 64, <<"start_value">>)}>>

Rs72to76 ==
  <<{Go(Space \ Lf, 63), Do(Lf, 121, <<"done">>), Do(cC, 64, <<"start_value">>)},
    {Go(Token \ (cH \cup cO), 21), Do(Colon, 22, <<"write_field">>), Go(cH, 74), Go(cO, 26)},
    Keyword(cU, 75),
    Keyword(cN, 76),
    Keyword(cK, 77)>>

Rs77to82 ==
  <<Keyword(cE, 78),
    Keyword(cD, 79),
    {Do(Lf, 20, <<"write_value", "trans_chunked">>), Do(Cr, 71, <<"write_value">>), Go(Token, 21),
     Do(Colon, 22, <<"write_field">>)},
    {Go(Space \ Lf, 63), Go(Lf, 62), Do(cC, 64, <<"start_value">>)},
    {Go(AnyByte \ {10, 13, 72, 104}, 23), Do(Lf, 20, <<"write_value">>), Do(Cr, 24, <<"write_value">>),
     Go(cH, 82)},
    {Go(AnyByte \ {10, 13, 85, 117}, 23), Do(Lf, 20, <<"write_value">>), Do(Cr, 24, <<"write_value">>),
     Go(cU, 83)}>>

Rs83to88 ==
  <<{Go(AnyByte \ {10, 13, 78, 110}, 23), Do(Lf, 20, <<"write_value">>), Do(Cr, 24, <<"write_value">>),
     Go(cN, 84)},
    {Go(AnyByte \ {10, 13, 75, 107}, 23), Do(Lf, 20, <<"write_value">>), Do(Cr, 24, <<"write_value">>),
     Go(cK, 85)},
    {Go(AnyByte \ {10, 13, 69, 101}, 23), Do(Lf, 20, <<"write_value">>), Do(Cr, 24, <<"write_value">>),
     Go(cE, 86)},
    {Go(AnyByte \ {10, 13, 68, 100}, 23), Do(Lf, 20, <<"write_value">>), Do(Cr, 24, <<"write_value">>),
     Go(cD, 87)},
    {Go(AnyByte \ {10, 13}, 23), Do(Lf, 20, <<"write_value", "trans_chunked">>), Do(Cr, 71, <<"write_value">>)},
    {Go(Lf, 43)}>>

Rs122 ==
  <<{Go(Space, 37), Go(cC, 38)}>>

Rs89to93 ==
  <<{Go(Space \ Lf, 37), Do(Lf, 122, <<"done">>), Go(cC, 38)},
    {Go(Token \ (cL \cup cO), 21), Do(Colon, 22, <<"write_field">>), Go(cL, 91), Go(cO, 26)},
    Keyword(cO, 92),
    Keyword(cS, 93),
    Keyword(cE, 94)>>

Rs94to101 ==
  <<{Go(Lf, 43), Go(Cr, 88), Go(Token, 21), Do(Colon, 22, <<"write_field">>)},
    {Go(Space \ Lf, 37), Go(Lf, 36), Go(cC, 38)},
    {Go(AnyByte \ {10, 13, 76, 108}, 23), Do(Lf, 20, <<"write_value">>), Do(Cr, 24, <<"write_value">>),
     Go(cL, 97)},
    {Go(AnyByte \ {10, 13, 79, 111}, 23), Do(Lf, 20, <<"write_value">>), Do(Cr, 24, <<"write_value">>),
     Go(cO, 98)},
    {Go(AnyByte \ {10, 13, 83, 115}, 23), Do(Lf, 20, <<"write_value">>), Do(Cr, 24, <<"write_value">>),
     Go(cS, 99)},
    {Go(AnyByte \ {10, 13, 69, 101}, 23), Do(Lf, 20, <<"write_value">>), Do(Cr, 24, <<"write_value">>),
     Go(cE, 100)},
    {Go(AnyByte \ {10, 13}, 23), Do(Lf, 43, <<"write_value">>), Do(Cr, 88, <<"write_value">>)},
    Keyword(cE, 102)>>

Rs102to106 ==
  <<Keyword(cN, 103),
    Keyword(cT, 104),
    {Go(Token \ {45}, 21), Go(Minus, 105), Do(Colon, 22, <<"write_field">>)},
    Keyword(cL, 106),
    Keyword(cE, 107)>>

Rs107to111 ==
  <<Keyword(cN, 108),
    Keyword(cG, 109),
    Keyword(cT, 110),
    Keyword(cH, 111),
    {Go(Token, 21), Do(Colon, 112, <<"write_field">>)}>>

Rs112to115 ==
  <<{Do(AnyByte \ (Digit \cup Space), 23, <<"start_value">>), Do({9, 11, 12, 32}, 112, <<"start_value">>),
     Do(Lf, 113, <<"start_value", "write_value">>), Do(Cr, 118, <<"start_value", "write_value">>),
     Do(Digit, 119, <<"start_value">>)},
    {Go({9, 11, 12, 32}, 114), Do(Lf, 123, <<"done">>), Go(Cr, 116),
     Do(Token \ ({67, 84, 99, 116} \cup (48..57)), 21, <<"start_field">>),
     Do(Digit, 117, <<"start_value", "start_field">>), Do(cC, 25, <<"start_field">>),
     Do(cT, 44, <<"start_field">>)},
    {Go(Space, 114), Do(Digit, 115, <<"start_value">>)},
    {Do(Lf, 20, <<"write_content_len", "write_value">>), Do(Cr, 24, <<"write_content_len", "write_value">>),
     Go(Digit, 115)}>>

Rs123 ==
  <<{Go(Space, 114), Do(Digit, 115, <<"start_value">>)}>>

Rs116to119 ==
  <<{Go(Space \ Lf, 114), Do(Lf, 123, <<"done">>), Do(Digit, 115, <<"start_value">>)},
    {Do(Lf, 20, <<"write_content_len", "write_value">>), Do(Cr, 24, <<"write_content_len", "write_value">>),
     Go(Token \ Digit, 21), Go(Digit, 117), Do(Colon, 22, <<"write_field">>)},
    {Go(Space \ Lf, 114), Go(Lf, 113), Do(Digit, 115, <<"start_value">>)},
    {Go(AnyByte \ ({10, 13} \cup (48..57)), 23), Do(Lf, 20, <<"write_content_len", "write_value">>),
     Do(Cr, 24, <<"write_content_len", "write_value">>), Go(Digit, 119)}>>

httpclient_parser_start == 1

httpclient_parser_first_final == 120

\* The state s of the automaton is entry s.
HttpClient ==
  Rs1to2 \o Rs3to5 \o Rs6to15 \o Rs16to20 \o Rs21to24 \o Rs25to28 \o Rs29to33 \o Rs34to41 \o
  Rs42to45 \o Rs46to50 \o Rs51to55 \o Rs56to60 \o Rs61to69 \o Rs70to71 \o Rs72to76 \o
  Rs77to82 \o Rs83to88 \o Rs89to93 \o Rs94to101 \o Rs102to106 \o Rs107to111 \o Rs112to115 \o
  Rs116to119 \o Rs120 \o Rs121 \o Rs122 \o Rs123
=============================================================================
