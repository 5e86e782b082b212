------------------------------ MODULE TaskPool ------------------------------
(***************************************************************************)
(* What a Scheduler promises of the work it is given: a job waits, runs on *)
(* one thread, sleeps until it is woken, or is done.  It runs first on the *)
(* thread it was meant for; after it has yielded or slept, on any.         *)
(***************************************************************************)
CONSTANTS
  Jobs,
  Threads,
  Pin,        \* the thread a job is meant for, or AnyThread
  AnyThread

VARIABLES
  submitted,  \* the jobs the pool was given
  waiting,    \* pairs of a job that waits and the thread it waits for
  running,    \* pairs of a job and the thread it runs on
  asleep,     \* jobs that wait to be woken
  done        \* jobs that have come to their end

taskvars == <<submitted, waiting, running, asleep, done>>

Init ==
  /\ submitted = {} /\ waiting = {} /\ running = {} /\ asleep = {} /\ done = {}

Submit(j) ==
  /\ j \notin submitted
  /\ submitted' = submitted \cup {j}
  /\ waiting' = waiting \cup {<<j, Pin[j]>>}
  /\ UNCHANGED <<running, asleep, done>>

\* A thread that runs nothing takes a job that waits for it or for any thread.
Take(j, t) ==
  /\ \A k \in Jobs : <<k, t>> \notin running
  /\ \E h \in {AnyThread, t} : /\ <<j, h>> \in waiting
                               /\ waiting' = waiting \ {<<j, h>>}
  /\ running' = running \cup {<<j, t>>}
  /\ UNCHANGED <<submitted, asleep, done>>

\* The thread gives the job up ...
Leave(j, t) ==
  /\ <<j, t>> \in running
  /\ running' = running \ {<<j, t>>}
  /\ UNCHANGED submitted

\* ... to wait for its next turn, on whichever thread ...
Yield(j, t) ==
  /\ Leave(j, t)
  /\ waiting' = waiting \cup {<<j, AnyThread>>}
  /\ UNCHANGED <<asleep, done>>

\* ... to sleep ...
Sleep(j, t) ==
  /\ Leave(j, t)
  /\ asleep' = asleep \cup {j}
  /\ UNCHANGED <<waiting, done>>

\* ... or because it is at its end.
Finish(j, t) ==
  /\ Leave(j, t)
  /\ done' = done \cup {j}
  /\ UNCHANGED <<waiting, asleep>>

Wake(j) ==
  /\ j \in asleep
  /\ asleep' = asleep \ {j}
  /\ waiting' = waiting \cup {<<j, AnyThread>>}
  /\ UNCHANGED <<submitted, running, done>>

Next ==
  \/ \E j \in Jobs : Submit(j) \/ Wake(j)
  \/ \E j \in Jobs, t \in Threads : Take(j, t) \/ Yield(j, t) \/ Sleep(j, t) \/ Finish(j, t)

Spec == Init /\ [][Next]_taskvars
=============================================================================
