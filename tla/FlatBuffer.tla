----------------------------- MODULE FlatBuffer ----------------------------
(***************************************************************************)
(* What a ByteArray promises: one sequence of bytes with a position in it. *)
(* Writing overwrites and extends, reading returns what is there, moving   *)
(* the position beyond the end extends the data with arbitrary bytes.      *)
(***************************************************************************)
EXTENDS Integers, Sequences

VARIABLES
  data,   \* the bytes
  pos,    \* the position: how many of them are before it
  moved   \* the bytes the last call was given or returned

flatvars == <<data, pos, moved>>

Longer(m, n) == IF m > n THEN m ELSE n

Init == data = <<>> /\ pos = 0 /\ moved = <<>>

\* Bytes from the position on become the bytes moved; all others stay.
Write ==
  /\ pos' = pos + Len(moved')
  /\ Len(data') = Longer(Len(data), pos')
  /\ SubSeq(data', pos + 1, pos') = moved'
  /\ \A k \in 1..Len(data) : k <= pos \/ k > pos' => data'[k] = data[k]

\* The next bytes are returned; when there are too few, what a value of several parts
\* had taken before stays taken.
Read ==
  /\ pos' = pos + Len(moved')
  /\ pos' <= Len(data)
  /\ moved' = SubSeq(data, pos + 1, pos')
  /\ UNCHANGED data

\* The position moves, beyond the end over bytes that may have any value.
Seek ==
  /\ pos' >= 0 /\ moved' = <<>>
  /\ Len(data') = Longer(Len(data), pos')
  /\ SubSeq(data', 1, Len(data)) = data

Clear == data' = <<>> /\ pos' = 0 /\ moved' = <<>>

Next == Write \/ Read \/ Seek \/ Clear

Spec == Init /\ [][Next]_flatvars
=============================================================================
