---------------------------- MODULE LogFormatter ---------------------------
(***************************************************************************)
(* LogFormatter::init (log.cpp): how a pattern is cut into literal text    *)
(* and %name{format} items.  A pattern is a sequence of characters.        *)
(***************************************************************************)
EXTENDS Integers, Sequences, FiniteSets, SequencesExt

Percent == "%"
Open == "{"
Close == "}"
\* Names of items and other letters, and a character that is not a letter.
Items == {"m", "d"}
Alpha == Items \cup {"x"}
Chars == Alpha \cup {Percent, Open, Close, " "}

Literal(s) == [str |-> s, fmt |-> <<>>, type |-> 0]
PatternError == [str |-> <<"pattern_error">>, fmt |-> <<>>, type |-> 0]

\* The first position from k on whose character is in S, or the one past the end.
FirstIn(p, k, S) ==
  CHOOSE n \in k..(Len(p) + 1) :
    /\ n <= Len(p) => p[n] \in S
    /\ \A j \in k..(n - 1) : p[j] \notin S

\* The inner loop: the name after the % at i and, if a brace follows it, the format.
ScanItem(p, i) ==
  LET e == FirstIn(p, i + 1, Chars \ (Alpha \cup {Close}))
      name == SubSeq(p, i + 1, e - 1)
      b == FirstIn(p, e + 1, {Close})
  IN  IF e > Len(p) \/ p[e] # Open
      THEN [item |-> [str |-> name, fmt |-> <<>>, type |-> 1], next |-> e, good |-> TRUE]
      ELSE [item |-> [str |-> name, fmt |-> SubSeq(p, e + 1, b - 1), type |-> 1],
            next |-> b + 1, good |-> b <= Len(p)]

Flush(nstr, vec) == IF nstr = <<>> THEN vec ELSE Append(vec, Literal(nstr))

\* Mutant: the outer loop goes on one character too far.
NextSkips(p, i) == ScanItem(p, i).next + 1
\* Where the outer loop goes on after an item.
NextAfter(p, i) == ScanItem(p, i).next

\* One turn of the outer loop at position i, with the literal text and the items so far.
\* %% adds a % and leaves the second one to start an item; an unclosed brace adds an error
\* and its text is read again as text.
Turn(p, s) ==
  LET scan == ScanItem(p, s.i)
  IN  IF s.i > Len(p) THEN s
      ELSE IF p[s.i] # Percent THEN [s EXCEPT !.i = @ + 1, !.nstr = Append(@, p[s.i])]
      ELSE IF s.i < Len(p) /\ p[s.i + 1] = Percent
      THEN [s EXCEPT !.i = @ + 1, !.nstr = Append(@, Percent)]
      ELSE IF scan.good
      THEN [i |-> NextAfter(p, s.i), nstr |-> <<>>, vec |-> Append(Flush(s.nstr, s.vec), scan.item)]
      ELSE [s EXCEPT !.i = @ + 1, !.vec = Append(@, PatternError)]

\* Every turn goes on by one character at least.
initItems(p) ==
  LET after[k \in 0..Len(p)] ==
        IF k = 0 THEN [i |-> 1, nstr |-> <<>>, vec |-> <<>>] ELSE Turn(p, after[k - 1])
  IN  Flush(after[Len(p)].nstr, after[Len(p)].vec)

\* m_error: an unclosed brace or a name that no item has.
isError(p) ==
  \E k \in 1..Len(initItems(p)) :
     LET it == initItems(p)[k]
     IN  it = PatternError \/ (it.type = 1 /\ it.str \notin {<<a>> : a \in Items})

-----------------------------------------------------------------------------
\* The text an item was written as.
Written(it) ==
  IF it.type = 0 THEN it.str
  ELSE <<Percent>> \o it.str \o (IF it.fmt = <<>> THEN <<>> ELSE <<Open>> \o it.fmt \o <<Close>>)

\* No %%, no {} and no brace left open after a %.
Plain(p) ==
  /\ \A i \in 1..(Len(p) - 1) : <<p[i], p[i + 1]>> \notin {<<Percent, Percent>>, <<Open, Close>>}
  /\ \A i \in 1..Len(p) : p[i] = Open => \E j \in (i + 1)..Len(p) : p[j] = Close

\* A pattern is cut without losing, adding or moving a character: the items of init(),
\* written down again, are the pattern, and only a name that no item has is an error.
FormatterExact(p) ==
  Plain(p) =>
    /\ FlattenSeq([k \in 1..Len(initItems(p)) |-> Written(initItems(p)[k])]) = p
    /\ \A k \in 1..Len(initItems(p)) : initItems(p)[k] # PatternError
=============================================================================
