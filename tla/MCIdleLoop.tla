---------------------------- MODULE MCIdleLoop -----------------------------
(* Small instances of IdleLoop. *)
EXTENDS IdleLoop, TLC

CONSTANTS t1, t2, b, x

Bound == [j \in Jobs |-> t2]
Unbound == [j \in Jobs |-> Any_]
Twice == [j \in Jobs |-> 2]
Often == [j \in Jobs |-> Capacity + 1]
BeyondTheCap == [i \in TimerIds |-> MAX_TIMEOUT + 1]
BeyondInt == [i \in TimerIds |-> IntMax + 1]
=============================================================================
