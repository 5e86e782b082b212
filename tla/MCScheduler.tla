----------------------------- MODULE MCScheduler -----------------------------
(***************************************************************************)
(* Workloads for model checking Scheduler.                                 *)
(***************************************************************************)
EXTENDS Scheduler

CONSTANTS w1, w2, a, b, c

\* a schedules b; c comes from the user.
TreeParent == [j \in Jobs |-> IF j = b THEN a ELSE Main]
\* Nobody names a thread.
NoPins == [j \in Jobs |-> AnyThread]
\* a and b are meant for two different workers.
CrossPins == [j \in Jobs |-> CASE j = a -> w1 [] j = b -> w2 [] OTHER -> AnyThread]
\* a is meant for w1, c for the caller's thread.
CallerPins == [j \in Jobs |-> CASE j = a -> w1 [] j = c -> Main [] OTHER -> AnyThread]
\* The workers are interchangeable where no job names one.
WorkerSymmetry == Permutations(Workers)

=============================================================================
