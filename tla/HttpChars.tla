----------------------------- MODULE HttpChars -----------------------------
(***************************************************************************)
(* The bytes the two generated parsers tell apart, and the form of a       *)
(* transition.  A byte is the value of a signed char.  The sets named here *)
(* are the ones the generated code tests for with ranges and cases.        *)
(***************************************************************************)
EXTENDS Integers

CONSTANT UriRelaxed   \* parser->uri_relaxed, which no code sets

AnyByte == (-128)..127
Digit == 48..57
Upper == 65..90
Lower == 97..122
Alpha == Upper \cup Lower
HexAF == 65..70 \cup 97..102
Xdigit == Digit \cup HexAF
Space == 9..13 \cup {32}

Nul == {0}
Ht == {9}
Lf == {10}
Cr == {13}
Sp == {32}
Hash == {35}
Pct == {37}
Minus == {45}
Dot == {46}
Slash == {47}
Colon == {58}
Semi == {59}
Lt == {60}
Eq == {61}
Gt == {62}
Quest == {63}
At == {64}
LBr == {91}
RBr == {93}

\* A letter in either case.
cA == {65, 97}
cC == {67, 99}
cD == {68, 100}
cE == {69, 101}
cF == {70, 102}
cG == {71, 103}
cH == {72, 104}
cI == {73, 105}
cK == {75, 107}
cL == {76, 108}
cN == {78, 110}
cO == {79, 111}
cR == {82, 114}
cS == {83, 115}
cT == {84, 116}
cU == {85, 117}

\* ( ) < > @ , ; : \ " / [ ] ? = { } space and tab
Separator == {9, 32, 34, 40, 41, 44, 47, 123, 125} \cup 58..64 \cup 91..93
Token == (33..126) \ Separator
\* What the request parser takes for a token: control characters too.
TokenCtl == (1..126) \ Separator

\* The bytes 94, 123 and 125 (^, { and }) count only when uri_relaxed is set.
MoreDelims == IF UriRelaxed THEN {94, 123, 125} ELSE {}
RegChar == Alpha \cup Digit \cup MoreDelims \cup {33, 36, 59, 61, 95, 126} \cup 38..46
UserChar == RegChar \cup Colon
SegChar == RegChar \cup At
Pchar == RegChar \cup Colon \cup At
QueryChar == Pchar \cup Slash \cup Quest

\* On a byte of chars: run the actions, then go to the state.
Do(chars, state, actions) == [on |-> chars, to |-> state, run |-> actions]

Go(chars, state) == Do(chars, state, <<>>)
=============================================================================
