---------------------------- MODULE Http11Table ----------------------------
(***************************************************************************)
(* The request automaton of http11_parser.rl.cpp, the code Ragel generated *)
(* from http11_parser.rl: one row per state, in the order of the states.   *)
(* A row is the set of the bytes the state accepts, each with the state it *)
(* leads to and the actions it runs; on any other byte the code goes to    *)
(* st0, the error state.  A definition holds the rows of the states whose  *)
(* code stands together in the source; its name says which ones.           *)
(***************************************************************************)
EXTENDS HttpChars, Sequences

\* Mutant: the target is reported at its ? as well.
EndPathTwice ==
  {Do(Sp, 4, <<"request_path", "request_uri">>), Do(Hash, 20, <<"request_path", "request_uri">>),
   Do(Quest, 29, <<"request_path", "request_uri">>)}

\* The three ways out of a path (tr37, tr39 and tr42 of the source).
EndPath ==
  {Do(Sp, 4, <<"request_path", "request_uri">>), Do(Hash, 20, <<"request_path", "request_uri">>),
   Do(Quest, 29, <<"request_path">>)}

\* Method's first bytes, then the first byte of the target.
Rq1to3 ==
  <<{Do(Digit \cup Upper, 2, <<"mark">>), Do(Lt, 194, <<"mark">>), Do(At, 198, <<"mark">>)},
    {Do(Sp, 3, <<"request_method">>), Go(Digit \cup Upper, 175)},
    {Do(Sp, 4, <<"mark", "request_path", "request_uri">>), Do(SegChar \ Alpha, 19, <<"mark">>),
     Do(Hash, 20, <<"mark", "request_path", "request_uri">>), Do(Pct, 24, <<"mark">>),
     Do(Slash, 33, <<"mark">>), Do(Quest, 29, <<"mark", "request_path">>), Do(Alpha, 173, <<"mark">>)}>>

\* HTTP_Version.
Rq4to12 ==
  <<{Do({72}, 5, <<"mark">>)},
    {Go({84}, 6)},
    {Go({84}, 7)},
    {Go({80}, 8)},
    {Go(Slash, 9)},
    {Go({49}, 10)},
    {Go(Dot, 11)},
    {Go({48, 49}, 12)},
    {Do(Lf, 13, <<"http_version">>), Do(Cr, 17, <<"http_version">>)}>>

\* field_name, ':', field_value.
Rq13to16 ==
  <<{Do(TokenCtl \ {10, 13}, 14, <<"start_field">>), Do(Lf, 348, <<"start_field", "done">>),
     Do(Cr, 18, <<"start_field">>)},
    {Go(TokenCtl, 14), Do(Colon, 15, <<"write_field">>)},
    {Do(AnyByte \ {0, 9, 10, 13, 32, 127}, 16, <<"start_value">>), Do({9, 32}, 15, <<"start_value">>),
     Do(Lf, 13, <<"start_value", "write_value">>), Do(Cr, 17, <<"start_value", "write_value">>)},
    {Go(AnyByte \ {0, 10, 13, 127}, 16), Do(Lf, 13, <<"write_value">>), Do(Cr, 17, <<"write_value">>)}>>

\* Mutant: a second carriage return is taken for the line feed.
Rq17LoneCr ==
  <<{Go(Lf, 13), Go(Cr, 13)}>>

\* the LF of a CRLF.
Rq17 ==
  <<{Go(Lf, 13)}>>

\* Request is complete: final state.
Rq348 ==
  <<{Go(TokenCtl, 14), Do(Colon, 15, <<"write_field">>)}>>

\* after a CR where a header could start; first segment of a relative path.
Rq18to19 ==
  <<{Go(TokenCtl \ Lf, 14), Do(Lf, 348, <<"done">>), Do(Colon, 15, <<"write_field">>)},
    EndPath \cup {Go(SegChar, 19), Go(Pct, 24), Go(Slash, 26)}>>

\* fragment.
Rq20to21 ==
  <<{Do(Sp, 4, <<"mark", "fragment">>), Do(QueryChar, 21, <<"mark">>), Do(Pct, 22, <<"mark">>)},
    {Do(Sp, 4, <<"fragment">>), Go(QueryChar, 21), Go(Pct, 22)}>>

\* pct_encoded in fragment, in the first segment and in later ones.
Rq22to28 ==
  <<{Go(Xdigit, 23)},
    {Go(Xdigit, 21)},
    {Go(Xdigit, 25)},
    {Go(Xdigit, 19)},
    EndPath \cup {Go(Pchar \cup {47}, 26), Go(Pct, 27)},
    {Go(Xdigit, 28)},
    {Go(Xdigit, 26)}>>

\* query.
Rq29to32 ==
  <<{Do(Sp, 4, <<"start_query", "query_string", "request_uri">>), Do(QueryChar, 30, <<"start_query">>),
     Do(Hash, 20, <<"start_query", "query_string", "request_uri">>), Do(Pct, 31, <<"start_query">>)},
    {Do(Sp, 4, <<"query_string", "request_uri">>), Go(QueryChar, 30),
     Do(Hash, 20, <<"query_string", "request_uri">>), Go(Pct, 31)},
    {Go(Xdigit, 32)},
    {Go(Xdigit, 30)}>>

\* after '/' and after '//'.
Rq33to34 ==
  <<EndPath \cup {Go(Pchar, 26), Go(Pct, 27), Go(Slash, 34)},
    EndPath \cup {Go(RegChar, 35), Go(Pct, 36), Go(Slash, 26), Go(Colon, 38), Go(At, 42), Go(LBr, 47)}>>

\* userinfo or reg_name, then userinfo or port.
Rq35to38 ==
  <<EndPath \cup {Go(RegChar, 35), Go(Pct, 36), Go(Slash, 26), Go(Colon, 38), Go(At, 42)},
    {Go(Xdigit, 37)},
    {Go(Xdigit, 35)},
    EndPath \cup {Go(UserChar \ Digit, 39), Go(Pct, 40), Go(Slash, 26), Go(Digit, 38), Go(At, 42)}>>

\* userinfo, host after '@'.
Rq39to42 ==
  <<{Go(UserChar, 39), Go(Pct, 40), Go(At, 42)},
    {Go(Xdigit, 41)},
    {Go(Xdigit, 39)},
    EndPath \cup {Go(RegChar, 43), Go(Pct, 44), Go(Slash, 26), Go(Colon, 46), Go(LBr, 47)}>>

\* reg_name, port, start of IP_literal.
Rq43to50 ==
  <<EndPath \cup {Go(RegChar, 43), Go(Pct, 44), Go(Slash, 26), Go(Colon, 46)},
    {Go(Xdigit, 45)},
    {Go(Xdigit, 43)},
    EndPath \cup {Go(Slash, 26), Go(Digit, 46)},
    {Go({6}, 48), Go(Xdigit, 91), Go(Colon, 167), Go({118}, 169)},
    {Go(Xdigit, 49)},
    {Go(Xdigit, 50), Go(Colon, 53)},
    {Go(Xdigit, 51), Go(Colon, 53)}>>

Rq51to64 ==
  <<{Go(Xdigit, 52), Go(Colon, 53)},
    {Go(Colon, 53)},
    {Go(Digit \ {49, 50}, 54), Go({49}, 84), Go({50}, 87), Go(HexAF, 90)},
    {Go(Dot, 55), Go(Xdigit, 77), Go(Colon, 80)},
    {Go(Digit \ {49, 50}, 56), Go({49}, 72), Go({50}, 74)},
    {Go(Dot, 57)},
    {Go(Digit \ {49, 50}, 58), Go({49}, 67), Go({50}, 69)},
    {Go(Dot, 59)},
    {Go(Digit \ {49, 50}, 60), Go({49}, 62), Go({50}, 64)},
    {Go(RBr, 61)},
    EndPath \cup {Go(Slash, 26), Go(Colon, 46)},
    {Go(Digit, 63), Go(RBr, 61)},
    {Go(Digit, 60), Go(RBr, 61)},
    {Go({48}, 65), Go({53}, 66), Go(RBr, 61)}>>

Rq65to80 ==
  <<{Go(Digit, 60)},
    {Go({48}, 60)},
    {Go(Dot, 59), Go(Digit, 68)},
    {Go(Dot, 59), Go(Digit, 58)},
    {Go(Dot, 59), Go({48}, 70), Go({53}, 71)},
    {Go(Digit, 58)},
    {Go({48}, 58)},
    {Go(Dot, 57), Go(Digit, 73)},
    {Go(Dot, 57), Go(Digit, 56)},
    {Go(Dot, 57), Go({48}, 75), Go({53}, 76)},
    {Go(Digit, 56)},
    {Go({48}, 56)},
    {Go(Xdigit, 78), Go(Colon, 80)},
    {Go(Xdigit, 79), Go(Colon, 80)},
    {Go(Colon, 80)},
    {Go(Xdigit, 81)}>>

Rq81to89 ==
  <<{Go(Xdigit, 82), Go(RBr, 61)},
    {Go(Xdigit, 83), Go(RBr, 61)},
    {Go(Xdigit, 60), Go(RBr, 61)},
    {Go(Dot, 55), Go(Digit, 85), Go(Colon, 80), Go(HexAF, 77)},
    {Go(Dot, 55), Go(Digit, 86), Go(Colon, 80), Go(HexAF, 78)},
    {Go(Dot, 55), Go(Xdigit, 79), Go(Colon, 80)},
    {Go(Dot, 55), Go({48}, 88), Go(Xdigit \ {48, 53}, 77), Go({53}, 89), Go(Colon, 80)},
    {Go(Digit, 86), Go(Colon, 80), Go(HexAF, 78)},
    {Go({48}, 86), Go(Xdigit \ {48}, 78), Go(Colon, 80)}>>

Rq90to100 ==
  <<{Go(Xdigit, 77), Go(Colon, 80)},
    {Go(Xdigit, 92), Go(Colon, 95)},
    {Go(Xdigit, 93), Go(Colon, 95)},
    {Go(Xdigit, 94), Go(Colon, 95)},
    {Go(Colon, 95)},
    {Go(Xdigit, 96), Go(Colon, 166)},
    {Go(Xdigit, 97), Go(Colon, 100)},
    {Go(Xdigit, 98), Go(Colon, 100)},
    {Go(Xdigit, 99), Go(Colon, 100)},
    {Go(Colon, 100)},
    {Go(Xdigit, 101), Go(Colon, 165)}>>

Rq101to111 ==
  <<{Go(Xdigit, 102), Go(Colon, 105)},
    {Go(Xdigit, 103), Go(Colon, 105)},
    {Go(Xdigit, 104), Go(Colon, 105)},
    {Go(Colon, 105)},
    {Go(Xdigit, 106), Go(Colon, 164)},
    {Go(Xdigit, 107), Go(Colon, 110)},
    {Go(Xdigit, 108), Go(Colon, 110)},
    {Go(Xdigit, 109), Go(Colon, 110)},
    {Go(Colon, 110)},
    {Go(Xdigit, 111), Go(Colon, 163)},
    {Go(Xdigit, 112), Go(Colon, 115)}>>

Rq112to122 ==
  <<{Go(Xdigit, 113), Go(Colon, 115)},
    {Go(Xdigit, 114), Go(Colon, 115)},
    {Go(Colon, 115)},
    {Go(Xdigit, 116), Go(Colon, 151)},
    {Go(Xdigit, 117), Go(Colon, 120)},
    {Go(Xdigit, 118), Go(Colon, 120)},
    {Go(Xdigit, 119), Go(Colon, 120)},
    {Go(Colon, 120)},
    {Go(Xdigit, 121), Go(Colon, 150)},
    {Go(Xdigit, 122), Go(Colon, 125)},
    {Go(Xdigit, 123), Go(Colon, 125)}>>

Rq123to131 ==
  <<{Go(Xdigit, 124), Go(Colon, 125)},
    {Go(Colon, 125)},
    {Go(Xdigit, 121), Go(Colon, 126)},
    {Go({2, 3}, 48), Go(Digit \ {49, 50}, 127), Go({49}, 143), Go({50}, 146), Go(HexAF, 149), Go(RBr, 61)},
    {Go(Dot, 55), Go(Xdigit, 128), Go(Colon, 131), Go(RBr, 61)},
    {Go(Xdigit, 129), Go(Colon, 131), Go(RBr, 61)},
    {Go(Xdigit, 130), Go(Colon, 131), Go(RBr, 61)},
    {Go(Colon, 131), Go(RBr, 61)},
    {Go(Digit \ {49, 50}, 132), Go({49}, 136), Go({50}, 139), Go(HexAF, 142)}>>

Rq132to139 ==
  <<{Go(Dot, 55), Go(Xdigit, 133), Go(Colon, 80), Go(RBr, 61)},
    {Go(Xdigit, 134), Go(Colon, 80), Go(RBr, 61)},
    {Go(Xdigit, 135), Go(Colon, 80), Go(RBr, 61)},
    {Go(Colon, 80), Go(RBr, 61)},
    {Go(Dot, 55), Go(Digit, 137), Go(Colon, 80), Go(HexAF, 133), Go(RBr, 61)},
    {Go(Dot, 55), Go(Digit, 138), Go(Colon, 80), Go(HexAF, 134), Go(RBr, 61)},
    {Go(Dot, 55), Go(Xdigit, 135), Go(Colon, 80), Go(RBr, 61)},
    {Go(Dot, 55), Go({48}, 140), Go(Xdigit \ {48, 53}, 133), Go({53}, 141), Go(Colon, 80), Go(RBr, 61)}>>

Rq140to147 ==
  <<{Go(Digit, 138), Go(Colon, 80), Go(HexAF, 134), Go(RBr, 61)},
    {Go({48}, 138), Go(Xdigit \ {48}, 134), Go(Colon, 80), Go(RBr, 61)},
    {Go(Xdigit, 133), Go(Colon, 80), Go(RBr, 61)},
    {Go(Dot, 55), Go(Digit, 144), Go(Colon, 131), Go(HexAF, 128), Go(RBr, 61)},
    {Go(Dot, 55), Go(Digit, 145), Go(Colon, 131), Go(HexAF, 129), Go(RBr, 61)},
    {Go(Dot, 55), Go(Xdigit, 130), Go(Colon, 131), Go(RBr, 61)},
    {Go(Dot, 55), Go({48}, 147), Go(Xdigit \ {48, 53}, 128), Go({53}, 148), Go(Colon, 131), Go(RBr, 61)},
    {Go(Digit, 145), Go(Colon, 131), Go(HexAF, 129), Go(RBr, 61)}>>

Rq148to156 ==
  <<{Go({48}, 145), Go(Xdigit \ {48}, 129), Go(Colon, 131), Go(RBr, 61)},
    {Go(Xdigit, 128), Go(Colon, 131), Go(RBr, 61)},
    {Go({2, 3}, 48), Go(Digit \ {49, 50}, 127), Go({49}, 143), Go({50}, 146), Go(HexAF, 149)},
    {Go({2, 3}, 48), Go(Digit \ {49, 50}, 152), Go({49}, 156), Go({50}, 159), Go(HexAF, 162)},
    {Go(Dot, 55), Go(Xdigit, 153), Go(Colon, 131)},
    {Go(Xdigit, 154), Go(Colon, 131)},
    {Go(Xdigit, 155), Go(Colon, 131)},
    {Go(Colon, 131)},
    {Go(Dot, 55), Go(Digit, 157), Go(Colon, 131), Go(HexAF, 153)}>>

Rq157to167 ==
  <<{Go(Dot, 55), Go(Digit, 158), Go(Colon, 131), Go(HexAF, 154)},
    {Go(Dot, 55), Go(Xdigit, 155), Go(Colon, 131)},
    {Go(Dot, 55), Go({48}, 160), Go(Xdigit \ {48, 53}, 153), Go({53}, 161), Go(Colon, 131)},
    {Go(Digit, 158), Go(Colon, 131), Go(HexAF, 154)},
    {Go({48}, 158), Go(Xdigit \ {48}, 154), Go(Colon, 131)},
    {Go(Xdigit, 153), Go(Colon, 131)},
    {Go({2, 3}, 48), Go(Xdigit, 49)},
    {Go({2, 3}, 48)},
    {Go({3}, 48)},
    {Go({4}, 48)},
    {Go(Colon, 168)}>>

\* IPvFuture; scheme.
Rq168to172 ==
  <<{Go(2..5, 48), Go(Digit \ {49, 50}, 127), Go({49}, 143), Go({50}, 146), Go(HexAF, 149), Go(RBr, 61)},
    {Go(Xdigit, 170)},
    {Go(Dot, 171), Go(Xdigit, 170)},
    {Go(UserChar, 172)},
    {Go(UserChar, 172), Go(RBr, 61)}>>

\* scheme or first segment; Method's second byte on.
Rq173to177 ==
  <<EndPath \cup {Go(Pchar \ ({43, 45, 46} \cup (48..58) \cup (65..90) \cup (97..122)), 19), Go(Pct, 24),
     Go(Digit \cup Alpha \cup {43, 45, 46}, 173), Go(Slash, 26), Go(Colon, 174)},
    {Do(Sp, 4, <<"mark", "request_path", "request_uri">>), Do(Pchar, 26, <<"mark">>),
     Do(Hash, 20, <<"mark", "request_path", "request_uri">>), Do(Pct, 27, <<"mark">>),
     Do(Slash, 33, <<"mark">>), Do(Quest, 29, <<"mark", "request_path">>)},
    {Do(Sp, 3, <<"request_method">>), Go(Digit \cup Upper, 176)},
    {Do(Sp, 3, <<"request_method">>), Go(Digit \cup Upper, 177)},
    {Do(Sp, 3, <<"request_method">>), Go(Digit \cup Upper, 178)}>>

\* Method, fifth byte on.
Rq178to189 ==
  <<{Do(Sp, 3, <<"request_method">>), Go(Digit \cup Upper, 179)},
    {Do(Sp, 3, <<"request_method">>), Go(Digit \cup Upper, 180)},
    {Do(Sp, 3, <<"request_method">>), Go(Digit \cup Upper, 181)},
    {Do(Sp, 3, <<"request_method">>), Go(Digit \cup Upper, 182)},
    {Do(Sp, 3, <<"request_method">>), Go(Digit \cup Upper, 183)},
    {Do(Sp, 3, <<"request_method">>), Go(Digit \cup Upper, 184)},
    {Do(Sp, 3, <<"request_method">>), Go(Digit \cup Upper, 185)},
    {Do(Sp, 3, <<"request_method">>), Go(Digit \cup Upper, 186)},
    {Do(Sp, 3, <<"request_method">>), Go(Digit \cup Upper, 187)},
    {Do(Sp, 3, <<"request_method">>), Go(Digit \cup Upper, 188)},
    {Do(Sp, 3, <<"request_method">>), Go(Digit \cup Upper, 189)},
    {Do(Sp, 3, <<"request_method">>), Go(Digit \cup Upper, 190)}>>

\* the last bytes of Method; SocketXML up to '>'.
Rq190to197 ==
  <<{Do(Sp, 3, <<"request_method">>), Go(Digit \cup Upper, 191)},
    {Do(Sp, 3, <<"request_method">>), Go(Digit \cup Upper, 192)},
    {Do(Sp, 3, <<"request_method">>), Go(Digit \cup Upper, 193)},
    {Do(Sp, 3, <<"request_method">>)},
    {Go(Digit \cup Alpha \cup {45, 46}, 195)},
    {Do(Space \cup {47, 62}, 196, <<"request_path">>), Go(Digit \cup Alpha \cup {45, 46}, 195)},
    {Go(AnyByte \ Gt, 196), Go(Gt, 197)},
    {Go(AnyByte \ {0, 62}, 196), Do(Nul, 349, <<"xml", "done">>), Go(Gt, 197)}>>

\* SocketRequest is complete: final state.
Rq349 ==
  <<{}>>

\* SocketJSON: '@', target, the JSON text up to '}'.
Rq198to203 ==
  <<{Do(Sp, 199, <<"request_path">>), Go(SegChar, 202), Go(Pct, 203), Go(Slash, 208)},
    {Do({123}, 200, <<"mark">>)},
    {Go(AnyByte \ {125}, 200), Go({125}, 201)},
    {Go(AnyByte \ {0, 125}, 200), Do(Nul, 349, <<"json", "done">>), Go({125}, 201)},
    {Do(Sp, 199, <<"request_path">>), Go(SegChar, 202), Go(Pct, 203), Go(Slash, 205)},
    {Go(Xdigit, 204)}>>

Rq204to208 ==
  <<{Go(Xdigit, 202)},
    {Do(Sp, 199, <<"request_path">>), Go(Pchar \cup {47}, 205), Go(Pct, 206)},
    {Go(Xdigit, 207)},
    {Go(Xdigit, 205)},
    {Do(Sp, 199, <<"request_path">>), Go(Pchar, 205), Go(Pct, 206), Go(Slash, 209)}>>

Rq209to212 ==
  <<{Do(Sp, 199, <<"request_path">>), Go(RegChar, 210), Go(Pct, 211), Go(Slash, 205), Go(Colon, 213),
     Go(At, 217), Go(LBr, 222)},
    {Do(Sp, 199, <<"request_path">>), Go(RegChar, 210), Go(Pct, 211), Go(Slash, 205), Go(Colon, 213),
     Go(At, 217)},
    {Go(Xdigit, 212)},
    {Go(Xdigit, 210)}>>

Rq213to216 ==
  <<{Do(Sp, 199, <<"request_path">>), Go(UserChar \ Digit, 214), Go(Pct, 215), Go(Slash, 205), Go(Digit, 213),
     Go(At, 217)},
    {Go(UserChar, 214), Go(Pct, 215), Go(At, 217)},
    {Go(Xdigit, 216)},
    {Go(Xdigit, 214)}>>

Rq217to222 ==
  <<{Do(Sp, 199, <<"request_path">>), Go(RegChar, 218), Go(Pct, 219), Go(Slash, 205), Go(Colon, 221),
     Go(LBr, 222)},
    {Do(Sp, 199, <<"request_path">>), Go(RegChar, 218), Go(Pct, 219), Go(Slash, 205), Go(Colon, 221)},
    {Go(Xdigit, 220)},
    {Go(Xdigit, 218)},
    {Do(Sp, 199, <<"request_path">>), Go(Slash, 205), Go(Digit, 221)},
    {Go({6}, 223), Go(Xdigit, 266), Go(Colon, 342), Go({118}, 344)}>>

Rq223to234 ==
  <<{Go(Xdigit, 224)},
    {Go(Xdigit, 225), Go(Colon, 228)},
    {Go(Xdigit, 226), Go(Colon, 228)},
    {Go(Xdigit, 227), Go(Colon, 228)},
    {Go(Colon, 228)},
    {Go(Digit \ {49, 50}, 229), Go({49}, 259), Go({50}, 262), Go(HexAF, 265)},
    {Go(Dot, 230), Go(Xdigit, 252), Go(Colon, 255)},
    {Go(Digit \ {49, 50}, 231), Go({49}, 247), Go({50}, 249)},
    {Go(Dot, 232)},
    {Go(Digit \ {49, 50}, 233), Go({49}, 242), Go({50}, 244)},
    {Go(Dot, 234)},
    {Go(Digit \ {49, 50}, 235), Go({49}, 237), Go({50}, 239)}>>

Rq235to251 ==
  <<{Go(RBr, 236)},
    {Do(Sp, 199, <<"request_path">>), Go(Slash, 205), Go(Colon, 221)},
    {Go(Digit, 238), Go(RBr, 236)},
    {Go(Digit, 235), Go(RBr, 236)},
    {Go({48}, 240), Go({53}, 241), Go(RBr, 236)},
    {Go(Digit, 235)},
    {Go({48}, 235)},
    {Go(Dot, 234), Go(Digit, 243)},
    {Go(Dot, 234), Go(Digit, 233)},
    {Go(Dot, 234), Go({48}, 245), Go({53}, 246)},
    {Go(Digit, 233)},
    {Go({48}, 233)},
    {Go(Dot, 232), Go(Digit, 248)},
    {Go(Dot, 232), Go(Digit, 231)},
    {Go(Dot, 232), Go({48}, 250), Go({53}, 251)},
    {Go(Digit, 231)},
    {Go({48}, 231)}>>

Rq252to261 ==
  <<{Go(Xdigit, 253), Go(Colon, 255)},
    {Go(Xdigit, 254), Go(Colon, 255)},
    {Go(Colon, 255)},
    {Go(Xdigit, 256)},
    {Go(Xdigit, 257), Go(RBr, 236)},
    {Go(Xdigit, 258), Go(RBr, 236)},
    {Go(Xdigit, 235), Go(RBr, 236)},
    {Go(Dot, 230), Go(Digit, 260), Go(Colon, 255), Go(HexAF, 252)},
    {Go(Dot, 230), Go(Digit, 261), Go(Colon, 255), Go(HexAF, 253)},
    {Go(Dot, 230), Go(Xdigit, 254), Go(Colon, 255)}>>

Rq262to271 ==
  <<{Go(Dot, 230), Go({48}, 263), Go(Xdigit \ {48, 53}, 252), Go({53}, 264), Go(Colon, 255)},
    {Go(Digit, 261), Go(Colon, 255), Go(HexAF, 253)},
    {Go({48}, 261), Go(Xdigit \ {48}, 253), Go(Colon, 255)},
    {Go(Xdigit, 252), Go(Colon, 255)},
    {Go(Xdigit, 267), Go(Colon, 270)},
    {Go(Xdigit, 268), Go(Colon, 270)},
    {Go(Xdigit, 269), Go(Colon, 270)},
    {Go(Colon, 270)},
    {Go(Xdigit, 271), Go(Colon, 341)},
    {Go(Xdigit, 272), Go(Colon, 275)}>>

Rq272to282 ==
  <<{Go(Xdigit, 273), Go(Colon, 275)},
    {Go(Xdigit, 274), Go(Colon, 275)},
    {Go(Colon, 275)},
    {Go(Xdigit, 276), Go(Colon, 340)},
    {Go(Xdigit, 277), Go(Colon, 280)},
    {Go(Xdigit, 278), Go(Colon, 280)},
    {Go(Xdigit, 279), Go(Colon, 280)},
    {Go(Colon, 280)},
    {Go(Xdigit, 281), Go(Colon, 339)},
    {Go(Xdigit, 282), Go(Colon, 285)},
    {Go(Xdigit, 283), Go(Colon, 285)}>>

Rq283to293 ==
  <<{Go(Xdigit, 284), Go(Colon, 285)},
    {Go(Colon, 285)},
    {Go(Xdigit, 286), Go(Colon, 338)},
    {Go(Xdigit, 287), Go(Colon, 290)},
    {Go(Xdigit, 288), Go(Colon, 290)},
    {Go(Xdigit, 289), Go(Colon, 290)},
    {Go(Colon, 290)},
    {Go(Xdigit, 291), Go(Colon, 326)},
    {Go(Xdigit, 292), Go(Colon, 295)},
    {Go(Xdigit, 293), Go(Colon, 295)},
    {Go(Xdigit, 294), Go(Colon, 295)}>>

Rq294to303 ==
  <<{Go(Colon, 295)},
    {Go(Xdigit, 296), Go(Colon, 325)},
    {Go(Xdigit, 297), Go(Colon, 300)},
    {Go(Xdigit, 298), Go(Colon, 300)},
    {Go(Xdigit, 299), Go(Colon, 300)},
    {Go(Colon, 300)},
    {Go(Xdigit, 296), Go(Colon, 301)},
    {Go({2, 3}, 223), Go(Digit \ {49, 50}, 302), Go({49}, 318), Go({50}, 321), Go(HexAF, 324), Go(RBr, 236)},
    {Go(Dot, 230), Go(Xdigit, 303), Go(Colon, 306), Go(RBr, 236)},
    {Go(Xdigit, 304), Go(Colon, 306), Go(RBr, 236)}>>

Rq304to312 ==
  <<{Go(Xdigit, 305), Go(Colon, 306), Go(RBr, 236)},
    {Go(Colon, 306), Go(RBr, 236)},
    {Go(Digit \ {49, 50}, 307), Go({49}, 311), Go({50}, 314), Go(HexAF, 317)},
    {Go(Dot, 230), Go(Xdigit, 308), Go(Colon, 255), Go(RBr, 236)},
    {Go(Xdigit, 309), Go(Colon, 255), Go(RBr, 236)},
    {Go(Xdigit, 310), Go(Colon, 255), Go(RBr, 236)},
    {Go(Colon, 255), Go(RBr, 236)},
    {Go(Dot, 230), Go(Digit, 312), Go(Colon, 255), Go(HexAF, 308), Go(RBr, 236)},
    {Go(Dot, 230), Go(Digit, 313), Go(Colon, 255), Go(HexAF, 309), Go(RBr, 236)}>>

Rq313to320 ==
  <<{Go(Dot, 230), Go(Xdigit, 310), Go(Colon, 255), Go(RBr, 236)},
    {Go(Dot, 230), Go({48}, 315), Go(Xdigit \ {48, 53}, 308), Go({53}, 316), Go(Colon, 255), Go(RBr, 236)},
    {Go(Digit, 313), Go(Colon, 255), Go(HexAF, 309), Go(RBr, 236)},
    {Go({48}, 313), Go(Xdigit \ {48}, 309), Go(Colon, 255), Go(RBr, 236)},
    {Go(Xdigit, 308), Go(Colon, 255), Go(RBr, 236)},
    {Go(Dot, 230), Go(Digit, 319), Go(Colon, 306), Go(HexAF, 303), Go(RBr, 236)},
    {Go(Dot, 230), Go(Digit, 320), Go(Colon, 306), Go(HexAF, 304), Go(RBr, 236)},
    {Go(Dot, 230), Go(Xdigit, 305), Go(Colon, 306), Go(RBr, 236)}>>

Rq321to328 ==
  <<{Go(Dot, 230), Go({48}, 322), Go(Xdigit \ {48, 53}, 303), Go({53}, 323), Go(Colon, 306), Go(RBr, 236)},
    {Go(Digit, 320), Go(Colon, 306), Go(HexAF, 304), Go(RBr, 236)},
    {Go({48}, 320), Go(Xdigit \ {48}, 304), Go(Colon, 306), Go(RBr, 236)},
    {Go(Xdigit, 303), Go(Colon, 306), Go(RBr, 236)},
    {Go({2, 3}, 223), Go(Digit \ {49, 50}, 302), Go({49}, 318), Go({50}, 321), Go(HexAF, 324)},
    {Go({2, 3}, 223), Go(Digit \ {49, 50}, 327), Go({49}, 331), Go({50}, 334), Go(HexAF, 337)},
    {Go(Dot, 230), Go(Xdigit, 328), Go(Colon, 306)},
    {Go(Xdigit, 329), Go(Colon, 306)}>>

Rq329to337 ==
  <<{Go(Xdigit, 330), Go(Colon, 306)},
    {Go(Colon, 306)},
    {Go(Dot, 230), Go(Digit, 332), Go(Colon, 306), Go(HexAF, 328)},
    {Go(Dot, 230), Go(Digit, 333), Go(Colon, 306), Go(HexAF, 329)},
    {Go(Dot, 230), Go(Xdigit, 330), Go(Colon, 306)},
    {Go(Dot, 230), Go({48}, 335), Go(Xdigit \ {48, 53}, 328), Go({53}, 336), Go(Colon, 306)},
    {Go(Digit, 333), Go(Colon, 306), Go(HexAF, 329)},
    {Go({48}, 333), Go(Xdigit \ {48}, 329), Go(Colon, 306)},
    {Go(Xdigit, 328), Go(Colon, 306)}>>

Rq338to346 ==
  <<{Go({2, 3}, 223), Go(Xdigit, 224)},
    {Go({2, 3}, 223)},
    {Go({3}, 223)},
    {Go({4}, 223)},
    {Go(Colon, 343)},
    {Go(2..5, 223), Go(Digit \ {49, 50}, 302), Go({49}, 318), Go({50}, 321), Go(HexAF, 324), Go(RBr, 236)},
    {Go(Xdigit, 345)},
    {Go(Dot, 346), Go(Xdigit, 345)},
    {Go(UserChar, 347)}>>

Rq347 ==
  <<{Go(UserChar, 347), Go(RBr, 236)}>>

http_parser_start == 1

http_parser_first_final == 348

\* The state s of the automaton is entry s.
Http11 ==
  Rq1to3 \o Rq4to12 \o Rq13to16 \o Rq17 \o Rq18to19 \o Rq20to21 \o Rq22to28 \o Rq29to32 \o
  Rq33to34 \o Rq35to38 \o Rq39to42 \o Rq43to50 \o Rq51to64 \o Rq65to80 \o Rq81to89 \o
  Rq90to100 \o Rq101to111 \o Rq112to122 \o Rq123to131 \o Rq132to139 \o Rq140to147 \o
  Rq148to156 \o Rq157to167 \o Rq168to172 \o Rq173to177 \o Rq178to189 \o Rq190to197 \o
  Rq198to203 \o Rq204to208 \o Rq209to212 \o Rq213to216 \o Rq217to222 \o Rq223to234 \o
  Rq235to251 \o Rq252to261 \o Rq262to271 \o Rq272to282 \o Rq283to293 \o Rq294to303 \o
  Rq304to312 \o Rq313to320 \o Rq321to328 \o Rq329to337 \o Rq338to346 \o Rq347 \o Rq348 \o
  Rq349
=============================================================================
