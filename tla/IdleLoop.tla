------------------------------ MODULE IdleLoop -----------------------------
(***************************************************************************)
(* How the threads of an IOManager sleep and are woken: run()'s loop, the  *)
(* idle fiber (IOManager::idle), tickle() and its pipe, and the timers the *)
(* sleep is measured by.  Time is kept as what is left until something     *)
(* happens; it passes only while every thread sleeps, runs user code, is   *)
(* stuck in a full pipe or is gone.  Fibers, the timer set and the event   *)
(* contexts have modules of their own; here they are jobs, deadlines and   *)
(* a set of waiting jobs.                                                  *)
(***************************************************************************)
EXTENDS Integers, FiniteSets, Sequences, SequencesExt

CONSTANTS
  Threads,     \* the worker threads
  User,        \* a thread of the program that uses the manager from outside
  Jobs,        \* jobs it schedules
  Pin,         \* Pin[j]: the thread a job is bound to, or Any_
  Yields,      \* Yields[j]: how often job j gives up its thread
  IoJobs,      \* the jobs that wait for a descriptor the first time, and do not just yield
  TimerIds,    \* one-shot timers it adds
  Delay,       \* Delay[i]: milliseconds until timer i is due
  Any_,        \* the thread argument -1
  MAX_TIMEOUT, \* the longest sleep, 3000 in the code
  IntMax,      \* the largest int
  Capacity     \* bytes the pipe holds, 65536 on Linux

ASSUME IdleLoopAssumption ==
  /\ MAX_TIMEOUT \in Nat \ {0} /\ Capacity \in Nat \ {0}
  /\ IntMax \in Nat /\ IntMax > MAX_TIMEOUT
  /\ IsFiniteSet(Jobs) /\ IsFiniteSet(TimerIds)
  /\ IoJobs \subseteq Jobs /\ Jobs \cap TimerIds = {} /\ User \notin Threads
  /\ "pipe" \notin Jobs
  /\ Pin \in [Jobs -> Threads \cup {Any_}] /\ Yields \in [Jobs -> Nat] /\ Delay \in [TimerIds -> Nat]

Work == Jobs \cup TimerIds
Actors == Threads \cup {User}
Infinite == -1   \* no timer (~0ull), and epoll_wait without a limit

VARIABLES
  m_fibers,      \* the queue: work, the thread it is bound to, how long it is queued
  m_idleThreadCount, m_activeThreadCount, m_stopping,
  m_timers,      \* the timers in the set
  due,           \* what is left until a timer is due; negative: overdue
  m_tickled,     \* TimerManager: a new front has been announced
  pc,            \* where each thread is
  back,          \* where it goes after tickle()
  cur,           \* the job a thread runs
  sleep,         \* what is left of epoll_wait's limit
  got,           \* what epoll_wait has returned: descriptors' jobs, and the pipe
  cbs,           \* idle()'s vector: callbacks out of the set and not yet queued
  ended,         \* threads whose idle fiber has terminated
  pipe,          \* bytes in the pipe
  ready,         \* epoll's ready list (edge triggered): the pipe, waiting jobs
  io,            \* jobs whose event is registered: m_pendingEventCount of them
  left,          \* yields left
  submitted, finished,
  tickles        \* tickle() calls stop() has still to make

vars == <<m_fibers, m_idleThreadCount, m_activeThreadCount, m_stopping, m_timers, due,
          m_tickled, pc, back, cur, sleep, got, cbs, ended, pipe, ready, io, left,
          submitted, finished, tickles>>

queuevars == <<m_fibers, m_idleThreadCount, m_activeThreadCount, m_stopping>>
timervars == <<m_timers, due, m_tickled>>
iovars    == <<pipe, ready, io>>
uservars  == <<submitted, tickles>>

Init ==
  /\ m_fibers = <<>>
  /\ m_idleThreadCount = 0 /\ m_activeThreadCount = 0 /\ m_stopping = FALSE
  /\ m_timers = {} /\ due = Delay /\ m_tickled = FALSE
  /\ pc = [a \in Actors |-> IF a = User THEN "user" ELSE "fetch"]
  /\ back = [a \in Actors |-> "fetch"]
  /\ cur = [t \in Threads |-> Any_]
  /\ sleep = [t \in Threads |-> 0]
  /\ got = [t \in Threads |-> {}] /\ cbs = [t \in Threads |-> <<>>] /\ ended = {}
  /\ pipe = 0 /\ ready = {} /\ io = {}
  /\ left = Yields
  /\ submitted = {} /\ finished = {} /\ tickles = 0

Goto(a, label) == /\ pc' = [pc EXCEPT ![a] = label]
                  /\ UNCHANGED back

\* tickle() first when the condition holds, then the label.
TickleIf(a, condition, label) ==
  IF condition THEN /\ pc' = [pc EXCEPT ![a] = "tickle"]
                    /\ back' = [back EXCEPT ![a] = label]
  ELSE Goto(a, label)

Return(a) == /\ pc' = [pc EXCEPT ![a] = back[a]]
             /\ back' = [back EXCEPT ![a] = "fetch"]

\* scheduleNoLock for a sequence of work; only the first push finds the queue empty.
Entries(ws, thread) == [k \in 1..Len(ws) |-> [work |-> ws[k], thread |-> thread, age |-> 0]]
schedule(ws, thread) == m_fibers' = m_fibers \o Entries(ws, thread)

Mine(t) == {k \in 1..Len(m_fibers) : m_fibers[k].thread \in {Any_, t}}

-----------------------------------------------------------------------------
\* tickle(): nothing to do while some thread counts as idle, otherwise one byte.
Tickle(a) ==
  /\ pc[a] = "tickle"
  /\ IF m_idleThreadCount > 0 THEN Return(a) ELSE Goto(a, "write")
  /\ UNCHANGED <<queuevars, timervars, iovars, uservars, cur, sleep, got, cbs, ended,
                 left, finished>>

\* write(m_tickleFds[1]): the write end blocks while the pipe is full.
Write(a) ==
  /\ pc[a] = "write" /\ pipe < Capacity
  /\ pipe' = pipe + 1
  /\ ready' = ready \cup {"pipe"}
  /\ Return(a)
  /\ UNCHANGED <<queuevars, timervars, io, uservars, cur, sleep, got, cbs, ended, left,
                 finished>>

-----------------------------------------------------------------------------
\* Scheduler::run()

\* The first entry this thread may run; tickle_me when it skipped one bound elsewhere.
Fetch(t) ==
  LET mine == Mine(t)
      k == CHOOSE i \in mine : \A j \in mine : i <= j
      skipped == \E i \in 1..Len(m_fibers) : i \notin mine /\ (mine = {} \/ i < k)
  IN
  /\ pc[t] = "fetch"
  /\ IF mine # {}
     THEN /\ cur' = [cur EXCEPT ![t] = m_fibers[k].work]
          /\ m_fibers' = RemoveAt(m_fibers, k)
          /\ m_activeThreadCount' = m_activeThreadCount + 1
          /\ TickleIf(t, skipped, "run")
     ELSE /\ TickleIf(t, skipped, IF t \in ended THEN "done" ELSE "idle")
          /\ UNCHANGED <<cur, m_fibers, m_activeThreadCount>>
  /\ UNCHANGED <<m_idleThreadCount, m_stopping, timervars, sleep, got, cbs, ended, iovars,
                 left, uservars, finished>>

\* The job runs until it yields, waits for its descriptor or ends; a callback of a
\* timer just ends.  The active count goes down before anything is queued again.
Run(t) ==
  LET w == cur[t] IN
  /\ pc[t] = "run"
  /\ m_activeThreadCount' = m_activeThreadCount - 1
  /\ \/ /\ w \in Jobs /\ left[w] > 0
        /\ left' = [left EXCEPT ![w] = @ - 1]
        /\ IF w \in IoJobs /\ left[w] = Yields[w] THEN Goto(t, "fetch") /\ io' = io \cup {w}
           ELSE Goto(t, "again") /\ UNCHANGED io
        /\ UNCHANGED finished
     \/ /\ w \in Jobs => left[w] = 0
        /\ finished' = finished \cup {w}
        /\ Goto(t, "fetch")
        /\ UNCHANGED <<left, io>>
  /\ cur' = [cur EXCEPT ![t] = IF pc'[t] = "again" THEN w ELSE Any_]
  /\ UNCHANGED <<m_fibers, m_idleThreadCount, m_stopping, timervars, sleep, got, cbs,
                 ended, pipe, ready, uservars>>

\* schedule(ft.fiber): the fiber is READY and is queued again, bound to no thread.
Again(t) ==
  /\ pc[t] = "again"
  /\ schedule(<<cur[t]>>, Any_)
  /\ cur' = [cur EXCEPT ![t] = Any_]
  /\ TickleIf(t, m_fibers = <<>>, "fetch")
  /\ UNCHANGED <<m_idleThreadCount, m_activeThreadCount, m_stopping, timervars, sleep, got, cbs, ended, iovars, left, uservars, finished>>

-----------------------------------------------------------------------------
\* IOManager::idle()

\* getNextTimer()
getNextTimer ==
  IF m_timers = {} THEN Infinite
  ELSE LET first == CHOOSE i \in m_timers : \A j \in m_timers : due[i] <= due[j]
       IN  IF due[first] < 0 THEN 0 ELSE due[first]

\* Mutant: the sleep is not capped.
SleepForUncapped(next) == next

\* The limit given to epoll_wait.  (int)next_timeout is negative for a value above
\* IntMax: the cap is not applied and epoll_wait takes it for "no limit".
SleepFor(next) ==
  IF next = Infinite THEN MAX_TIMEOUT
  ELSE IF next > IntMax THEN Infinite
  ELSE IF next > MAX_TIMEOUT THEN MAX_TIMEOUT ELSE next

Asleep(t, next) == /\ Goto(t, "sleep")
                   /\ sleep' = [sleep EXCEPT ![t] = SleepFor(next)]

\* run() counts the thread as idle and switches to the idle fiber, which asks
\* stopping(next_timeout): the timers, then the pending events, then the scheduler.
EnterIdle(t) ==
  /\ pc[t] = "idle"
  /\ m_idleThreadCount' = m_idleThreadCount + 1
  /\ m_tickled' = FALSE
  /\ IF getNextTimer = Infinite THEN Goto(t, "pending") /\ UNCHANGED sleep
     ELSE Asleep(t, getNextTimer)
  /\ UNCHANGED <<m_fibers, m_activeThreadCount, m_stopping, m_timers, due, cur, got, cbs, ended, iovars, left, uservars, finished>>

StoppingPending(t) ==
  /\ pc[t] = "pending"
  /\ IF io = {} THEN Goto(t, "stopping") /\ UNCHANGED sleep
     ELSE Asleep(t, Infinite)
  /\ UNCHANGED <<queuevars, timervars, cur, got, cbs, ended, iovars, left, uservars,
                 finished>>

\* Scheduler::stopping(); when it holds the idle fiber ends.
StoppingScheduler(t) ==
  /\ pc[t] = "stopping"
  /\ IF m_stopping /\ m_fibers = <<>> /\ m_activeThreadCount = 0
     THEN /\ ended' = ended \cup {t}
          /\ m_idleThreadCount' = m_idleThreadCount - 1
          /\ Goto(t, "fetch")
          /\ UNCHANGED sleep
     ELSE /\ Asleep(t, Infinite)
          /\ UNCHANGED <<ended, m_idleThreadCount>>
  /\ UNCHANGED <<m_fibers, m_activeThreadCount, m_stopping, timervars, cur, got, cbs,
                 iovars, left, uservars, finished>>

\* The callbacks of the expired timers by deadline; timers due at the same time are
\* ordered by address.
InOrder(expired) ==
  {c \in SetToSeqs(expired) : \A k, l \in DOMAIN c : k < l => due[c[k]] <= due[c[l]]}

\* epoll_wait returns, because something is ready or the limit is over.
Wake(t) ==
  /\ pc[t] = "sleep" /\ (ready # {} \/ sleep[t] = 0)
  /\ got' = [got EXCEPT ![t] = ready] /\ ready' = {}
  /\ sleep' = [sleep EXCEPT ![t] = 0]
  /\ Goto(t, "collect")
  /\ UNCHANGED <<queuevars, timervars, cur, cbs, ended, pipe, io, left, uservars,
                 finished>>

\* Mutant: the expired timers stay in the set.
listExpiredCbKeepsTimers(t) ==
  LET expired == {i \in m_timers : due[i] <= 0} IN
  /\ pc[t] = "collect"
  /\ UNCHANGED m_timers
  /\ \E c \in InOrder(expired) : cbs' = [cbs EXCEPT ![t] = c]
  /\ Goto(t, IF expired = {} THEN "events" ELSE "callbacks")
  /\ UNCHANGED <<queuevars, due, m_tickled, cur, sleep, got, ended, iovars, left,
                 uservars, finished>>

\* listExpiredCb takes what is due out of the set, under the timers' lock.
listExpiredCb(t) ==
  LET expired == {i \in m_timers : due[i] <= 0} IN
  /\ pc[t] = "collect"
  /\ m_timers' = m_timers \ expired
  /\ \E c \in InOrder(expired) : cbs' = [cbs EXCEPT ![t] = c]
  /\ Goto(t, IF expired = {} THEN "events" ELSE "callbacks")
  /\ UNCHANGED <<queuevars, due, m_tickled, cur, sleep, got, ended, iovars, left,
                 uservars, finished>>

\* schedule(cbs.begin(), cbs.end()), under the scheduler's lock: until here stopping()
\* sees these callbacks neither in the set nor in the queue.  Its tickle() finds this
\* thread counted as idle.
ScheduleCallbacks(t) ==
  /\ pc[t] = "callbacks"
  /\ schedule(cbs[t], Any_)
  /\ cbs' = [cbs EXCEPT ![t] = <<>>]
  /\ Goto(t, "events")
  /\ UNCHANGED <<m_idleThreadCount, m_activeThreadCount, m_stopping, timervars, cur,
                 sleep, got, ended, iovars, left, uservars, finished>>

\* Mutant: the loop ends (break) where it should go on (continue) after the pipe.
HandleEventsPipeOnly(t) ==
  LET fired == IF "pipe" \in got[t] THEN {} ELSE got[t] IN
  /\ pc[t] = "events"
  /\ pipe' = IF "pipe" \in got[t] THEN 0 ELSE pipe
  /\ io' = io \ fired
  /\ \E ws \in SetToSeqs(fired) : schedule(ws, Any_)
  /\ got' = [got EXCEPT ![t] = {}]
  /\ m_idleThreadCount' = m_idleThreadCount - 1
  /\ Goto(t, "fetch")
  /\ UNCHANGED <<m_activeThreadCount, m_stopping, timervars, cur, cbs, sleep, ended, ready,
                 left, uservars, finished>>

\* The pipe is drained and each event's fiber scheduled, in the order of epoll's list (its
\* tickle() returns too); then the idle fiber is swapped out and the thread no longer
\* counts as idle.
HandleEvents(t) ==
  LET fired == got[t] \ {"pipe"} IN
  /\ pc[t] = "events"
  /\ pipe' = IF "pipe" \in got[t] THEN 0 ELSE pipe
  /\ io' = io \ fired
  /\ \E ws \in SetToSeqs(fired) : schedule(ws, Any_)
  /\ got' = [got EXCEPT ![t] = {}]
  /\ m_idleThreadCount' = m_idleThreadCount - 1
  /\ Goto(t, "fetch")
  /\ UNCHANGED <<m_activeThreadCount, m_stopping, timervars, cur, cbs, sleep, ended, ready,
                 left, uservars, finished>>

-----------------------------------------------------------------------------
\* The program and the kernel

\* schedule(job, thread)
Submit(j) ==
  /\ pc[User] = "user" /\ j \notin submitted /\ ~m_stopping
  /\ submitted' = submitted \cup {j}
  /\ schedule(<<j>>, Pin[j])
  /\ TickleIf(User, m_fibers = <<>>, "user")
  /\ UNCHANGED <<m_idleThreadCount, m_activeThreadCount, m_stopping, timervars, cur, sleep, got, cbs, ended, iovars, left, tickles, finished>>

\* addTimer; timers due at the same time are ordered by address.
addTimer(i) ==
  /\ pc[User] = "user" /\ i \notin submitted /\ ~m_stopping
  /\ submitted' = submitted \cup {i}
  /\ m_timers' = m_timers \cup {i}
  /\ \E at_front \in BOOLEAN :
       /\ at_front => \A j \in m_timers : due[i] <= due[j]
       /\ ~at_front => \E j \in m_timers : due[j] <= due[i]
       /\ m_tickled' = (m_tickled \/ at_front)
       /\ TickleIf(User, at_front /\ ~m_tickled, "user")
  /\ UNCHANGED <<queuevars, due, cur, sleep, got, cbs, ended, iovars, left, tickles,
                 finished>>

\* stop(): the flag, then one tickle() for each thread, then join.
Stop ==
  /\ pc[User] = "user" /\ ~m_stopping
  /\ m_stopping' = TRUE
  /\ tickles' = Cardinality(Threads)
  /\ Goto(User, "stop")
  /\ UNCHANGED <<m_fibers, m_idleThreadCount, m_activeThreadCount, timervars, cur, sleep, got, cbs, ended, iovars, left, submitted, finished>>

StopTickles ==
  /\ pc[User] = "stop"
  /\ tickles' = IF tickles = 0 THEN 0 ELSE tickles - 1
  /\ IF tickles = 0
     THEN (\A t \in Threads : pc[t] = "done") /\ Goto(User, "done")
     ELSE TickleIf(User, TRUE, "stop")
  /\ UNCHANGED <<queuevars, timervars, cur, sleep, got, cbs, ended, iovars, left,
                 submitted, finished>>

\* The descriptor a job waits for becomes ready.
BecomesReady(j) ==
  /\ j \in io /\ \A t \in Threads : j \notin got[t]
  /\ j \notin ready
  /\ ready' = ready \cup {j}
  /\ UNCHANGED <<queuevars, timervars, pc, back, cur, sleep, got, cbs, ended, pipe, io,
                 left, uservars, finished>>

\* A millisecond passes.
Tick ==
  LET step(n, floor) == IF n = floor THEN n ELSE n - 1 IN
  /\ \A t \in Threads :
       \/ pc[t] = "sleep" /\ sleep[t] # 0 /\ ready = {}
       \/ pc[t] \in {"run", "done"}
       \/ pc[t] = "write" /\ pipe = Capacity
  /\ pc[User] \in {"user", "stop", "write", "done"}
  /\ \E t \in Threads : pc[t] = "sleep" \/ m_fibers # <<>>
  /\ sleep' = [t \in Threads |-> IF pc[t] = "sleep" THEN step(sleep[t], Infinite) ELSE 0]
  /\ due' = [i \in TimerIds |-> IF i \in m_timers THEN step(due[i], -MAX_TIMEOUT - 1) ELSE due[i]]
  /\ m_fibers' = [k \in DOMAIN m_fibers |->
                    [m_fibers[k] EXCEPT !.age = IF @ > MAX_TIMEOUT THEN @ ELSE @ + 1]]
  /\ UNCHANGED <<m_idleThreadCount, m_activeThreadCount, m_stopping, m_timers, m_tickled, pc, back,
                 cur, got, cbs, ended, iovars, left, uservars, finished>>

Step(t) ==
  \/ Fetch(t) \/ Run(t) \/ Again(t) \/ EnterIdle(t)
  \/ StoppingPending(t) \/ StoppingScheduler(t) \/ Wake(t)
  \/ listExpiredCb(t) \/ ScheduleCallbacks(t) \/ HandleEvents(t)

Next ==
  \/ \E a \in Actors : Tickle(a) \/ Write(a)
  \/ \E t \in Threads : Step(t)
  \/ \E j \in Jobs : Submit(j) \/ BecomesReady(j)
  \/ \E i \in TimerIds : addTimer(i)
  \/ Stop \/ StopTickles \/ Tick

Spec == Init /\ [][Next]_vars

\* Every thread runs when it can and time passes; nothing is assumed of the program or
\* of the descriptors.
FairSpec ==
  /\ Spec
  /\ \A t \in Threads : WF_vars(Step(t))
  /\ \A a \in Actors : WF_vars(Tickle(a) \/ Write(a))
  /\ WF_vars(Tick) /\ WF_vars(StopTickles)

-----------------------------------------------------------------------------
TypeOK ==
  /\ m_idleThreadCount \in 0..Cardinality(Threads)
  /\ m_activeThreadCount \in 0..Cardinality(Threads)
  /\ m_timers \subseteq TimerIds /\ io \subseteq IoJobs
  /\ \A t \in Threads : \A k \in DOMAIN cbs[t] : cbs[t][k] \in TimerIds
  /\ ready \subseteq io \cup {"pipe"} /\ pipe \in 0..Capacity
  /\ \A k \in DOMAIN m_fibers : m_fibers[k].work \in Work
  /\ finished \subseteq submitted /\ submitted \subseteq Work

asleep == {t \in Threads : pc[t] = "sleep" /\ sleep[t] # 0}

\* How late the design may be: work that has been queued for longer than MAX_TIMEOUT has
\* every thread that could run it busy with something else, and no thread sleeps past a
\* timer by more than MAX_TIMEOUT.
DelayBounded ==
  /\ \A k \in DOMAIN m_fibers : m_fibers[k].age > MAX_TIMEOUT =>
        \A t \in asleep : k \notin Mine(t)
  /\ \A i \in m_timers : due[i] < -MAX_TIMEOUT => asleep = {}

\* Nothing is lost between the queue, the timers, the callbacks a thread has taken out
\* of the set and not queued yet, the waiting events and the threads, and nothing is in
\* two of them or in two threads' hands.
WorkConserved ==
  \A w \in submitted :
     LET inQueue == {k \in DOMAIN m_fibers : m_fibers[k].work = w}
         running == {t \in Threads : cur[t] = w
                        /\ (pc[t] \in {"run", "again"}
                            \/ (pc[t] \in {"tickle", "write"} /\ back[t] = "run"))}
         inHand == {t \in Threads : \E k \in DOMAIN cbs[t] : cbs[t][k] = w}
     IN  Cardinality(inQueue) + Cardinality(running) + Cardinality(inHand)
           + Cardinality({w} \cap m_timers) + Cardinality({w} \cap io)
           + Cardinality({w} \cap finished) = 1

\* The threads leave only when no timer is left: stopping() holds "if there is no timer,
\* no pending event, and the scheduler is stopping too".
NoTimerLeft == (\A t \in Threads : pc[t] = "done") => m_timers = {}

\* What tickle() is for: while a thread sleeps no work waits that it could run.
PromptWake ==
  \A k \in DOMAIN m_fibers : m_fibers[k].age > 0 =>
     \A t \in asleep : k \notin Mine(t)

\* tickle() returns: its write never finds the pipe full.
TickleReturns == \A a \in Actors : pc[a] = "write" => pipe < Capacity

\* Every job is run to its end, one that waits once its descriptor is ready; every timer
\* too unless stop() is called.
WorkDone ==
  /\ \A w \in Jobs \ IoJobs : w \in submitted ~> w \in finished
  /\ \A w \in TimerIds : w \in submitted ~> (w \in finished \/ m_stopping)
  /\ \A w \in IoJobs : w \in ready ~> w \in finished

\* stop() returns once no event is pending, whoever sleeps when it is called.
StopEnds == <>[](m_stopping /\ io = {}) => <>(pc[User] = "done")
=============================================================================
