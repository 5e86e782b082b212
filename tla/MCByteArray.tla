---------------------------- MODULE MCByteArray ----------------------------
(* A small instance of ByteArray. *)
EXTENDS ByteArray

Strings == {<<>>, <<5>>, <<1, 2, 3>>}
Extremes == {-(Half), Half - 1}
=============================================================================
