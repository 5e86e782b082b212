------------------------------- MODULE Regex -------------------------------
(***************************************************************************)
(* Regular expressions over bytes and their partial derivatives, the       *)
(* reference the generated automata are compared with.  A phrase is a      *)
(* sequence of nodes; a node is a byte of a set, a choice of phrases, a    *)
(* repetition, or Ragel's guarded concatenation "L :> R", in which L ends  *)
(* at the first byte, read when L could end, that can start R.             *)
(***************************************************************************)
EXTENDS Integers, Sequences

Byte(S) == << <<"byte", S>> >>

Str(codes) == [i \in 1..Len(codes) |-> <<"byte", {codes[i]}>>]

\* A word in either case: Ragel's /word/i for a word of letters and '-'.
Word(codes) ==
  [i \in 1..Len(codes) |->
     <<"byte", IF codes[i] = 45 THEN {45} ELSE {codes[i], codes[i] + 32}>>]

Alt(phrases) == << <<"alt", phrases>> >>

Star(phrase) == << <<"star", phrase>> >>

Plus(phrase) == phrase \o Star(phrase)

Opt(phrase) == Alt({<<>>, phrase})

Guarded(left, right) == << <<"guard", {left}, right>> >>

RECURSIVE Times(_, _)
Times(phrase, n) == IF n = 0 THEN <<>> ELSE phrase \o Times(phrase, n - 1)

RECURSIVE UpTo(_, _)
UpTo(phrase, n) == IF n = 0 THEN <<>> ELSE Opt(phrase \o UpTo(phrase, n - 1))

AtLeast(phrase, n) == Times(phrase, n) \o Star(phrase)

RECURSIVE Nullable(_)
\* Does the phrase match the empty input?
Nullable(phrase) ==
  \A i \in 1..Len(phrase) :
     \/ phrase[i][1] = "star"
     \/ phrase[i][1] = "alt" /\ \E p \in phrase[i][2] : Nullable(p)

RECURSIVE Deriv(_, _)
\* The phrases that match what may follow the byte b in a match of phrase.
Deriv(phrase, b) ==
  IF phrase = <<>> THEN {}
  ELSE LET node == Head(phrase)
           first ==
             CASE node[1] = "byte"  -> IF b \in node[2] THEN {<<>>} ELSE {}
               [] node[1] = "alt"   -> UNION {Deriv(p, b) : p \in node[2]}
               [] node[1] = "star"  -> {d \o <<node>> : d \in Deriv(node[2], b)}
               [] node[1] = "guard" ->
                    LET right == Deriv(node[3], b)
                        left  == UNION {Deriv(p, b) : p \in node[2]}
                    IN  CASE right # {} /\ (\E p \in node[2] : Nullable(p)) -> right
                          [] left # {} /\ (right = {} \/ \A p \in node[2] : ~Nullable(p))
                               -> {<< <<"guard", left, node[3]>> >>}
                          [] OTHER -> {}
       IN {d \o Tail(phrase) : d \in first}
          \cup (IF Nullable(<<node>>) THEN Deriv(Tail(phrase), b) ELSE {})

RECURSIVE ByteSets(_)
\* The sets of bytes a phrase is built from.
ByteSets(phrase) ==
  UNION {LET node == phrase[i] IN
           CASE node[1] = "byte"  -> {node[2]}
             [] node[1] = "alt"   -> UNION {ByteSets(p) : p \in node[2]}
             [] node[1] = "star"  -> ByteSets(node[2])
             [] node[1] = "guard" -> ByteSets(node[3]) \cup UNION {ByteSets(p) : p \in node[2]}
         : i \in 1..Len(phrase)}

\* The derivatives of a choice of phrases.
After(phrases, b) == UNION {Deriv(p, b) : p \in phrases}
=============================================================================
