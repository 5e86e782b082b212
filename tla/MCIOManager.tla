------------------------------ MODULE MCIOManager ------------------------------
(***************************************************************************)
(* Who waits for what, for model checking IOManager.                       *)
(***************************************************************************)
EXTENDS IOManager, TLC

CONSTANTS u1, u2

\* A fiber waits for one event of a descriptor, another for its other event and then
\* for a descriptor beyond the initial table.
Mixed == {<<u1, 0, "READ">>, <<u2, 0, "WRITE">>, <<u2, 2, "READ">>}
\* Two fibers read descriptors beyond the initial table.
FarReaders == {<<u1, 2, "READ">>, <<u2, 4, "READ">>}

PollerSymmetry == Permutations(Pollers)

=============================================================================
