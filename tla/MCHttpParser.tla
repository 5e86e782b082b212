---------------------------- MODULE MCHttpParser ---------------------------
(* HttpParser with one byte of every class. *)
EXTENDS HttpParser

\* The bytes offered to the parsers.
MCBytes ==
  {0, 1, 2, 3, 4, 5, 6, 9, 10, 11, 13, 32, 33, 34, 35, 37, 40, 43, 45, 46, 47, 48,
   49, 50, 51, 53, 54, 58, 59, 60, 61, 62, 63, 64, 65, 66, 67, 68, 69, 70, 71, 72, 73,
   74, 75, 76, 78, 79, 80, 82, 83, 84, 85, 91, 93, 94, 96, 97, 98, 99, 100, 101,
   102, 103, 104, 105, 106, 107, 108, 110, 111, 114, 115, 116, 117, 118, 123, 125,
   127}

\* Every byte behaves like one of the bytes offered: no edge of the automata and no set
\* of the grammars tells the two apart.
ASSUME RepresentativesSuffice ==
  LET edges == UNION {UNION {{e.on : e \in Rows(k)[s]} : s \in DOMAIN Rows(k)} :
                        k \in {"request", "response"}}
      sets  == UNION {Rq!ByteSets(p) : p \in Grammar("request") \cup Grammar("response")}
  IN  \A b \in AnyByte : \E r \in Bytes :
         \A S \in edges \cup sets : b \in S <=> r \in S
=============================================================================
