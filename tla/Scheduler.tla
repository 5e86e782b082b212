------------------------------ MODULE Scheduler ------------------------------
(***************************************************************************)
(* The N:M fiber scheduler of captain/scheduler.cpp, scheduler.h and the   *)
(* part of fiber.cpp it rests on.                                          *)
(*                                                                         *)
(* A pool of threads runs Scheduler::run.  Each takes entries off one      *)
(* mutex-protected list, m_fibers, and swaps the entry's fiber in.  User   *)
(* code in a fiber may schedule more work, yield (READY), park itself      *)
(* (HOLD) after handing itself to a waker, or return.  One user thread,    *)
(* Main, builds the scheduler, submits work and calls start() and stop();  *)
(* with use_caller it also runs Scheduler::run, inside stop().             *)
(*                                                                         *)
(* The steps are the points where two threads can observe one another: a   *)
(* critical section of m_mutex, an access to m_activeThreadCount, and each *)
(* unsynchronised access to a fiber's m_state.                             *)
(***************************************************************************)
EXTENDS Integers, FiniteSets, Sequences, SequencesExt

CONSTANTS
    Workers,        \* the threads start() creates (m_threadCount of them)
    Main,           \* the thread that owns the scheduler object
    UseCaller,      \* the constructor's use_caller
    Jobs,           \* the pieces of user code submitted during a behaviour
    FiberJobs,      \* the jobs submitted as a Fiber; the others are callbacks
    Parent,         \* who submits a job: Main, or the job that schedules it
    Pin,            \* the thread argument of schedule(), AnyThread for -1
    HoldJobs,       \* the jobs that may park themselves once (YieldToHold)
    YieldJobs,      \* the jobs that may call YieldToReady
    MaxYields,      \* bound: how often one job calls YieldToReady
    MaxStarts,      \* bound: how often Main calls start()
    MaxStops,       \* bound: how often Main calls stop()
    WakeAfterPark,  \* TRUE: a waker never runs before the fiber has parked
    AnyThread,      \* the thread id -1
    None            \* a null pointer

RunThreads == Workers \cup (IF UseCaller THEN {Main} ELSE {})

ASSUME ThreadsAssumption ==
    /\ IsFiniteSet(Workers)
    /\ RunThreads # {}
    /\ Main \notin Workers
    /\ AnyThread \notin Workers \cup {Main}
    /\ UseCaller \in BOOLEAN
    /\ WakeAfterPark \in BOOLEAN

ASSUME JobsAssumption ==
    /\ None \notin Jobs
    /\ Main \notin Jobs
    /\ FiberJobs \subseteq Jobs
    /\ HoldJobs \subseteq Jobs
    /\ YieldJobs \subseteq Jobs
    /\ Parent \in [Jobs -> Jobs \cup {Main}]
    /\ Pin \in [Jobs -> RunThreads \cup {AnyThread}]

ASSUME BoundsAssumption ==
    /\ MaxYields \in Nat
    /\ MaxStarts \in Nat
    /\ MaxStops \in Nat

VARIABLES
    m_fibers,            \* the list of FiberAndThread entries
    m_activeThreadCount,
    m_idleThreadCount,
    m_stopping,
    m_autoStop,
    m_state,             \* Fiber::State of each fiber object
    m_cb,                \* the job a fiber object is bound to
    pc,                  \* where each thread is in Scheduler::run
    ft,                  \* run()'s local variable ft
    cb_fiber,            \* run()'s local variable cb_fiber
    cur,                 \* the fiber a thread last swapped in (Fiber::t_fiber)
    idleTerm,            \* run()'s idle_fiber has state TERM
    rootState,           \* m_rootFiber's state
    mpc,                 \* where Main is: user code, or a step of stop()
    armed,               \* fibers a waker (timer, event) will schedule
    submitted,           \* jobs that were passed to schedule()
    finished,            \* jobs whose code has returned or thrown
    parked,              \* jobs that have used their YieldToHold
    yields,              \* how often each job has called YieldToReady
    calls,               \* how often Main called start() and stop()
    aborted              \* a CAPTAIN_ASSERT failed and the process is gone

poolVars == <<m_fibers, m_activeThreadCount, m_idleThreadCount>>
flagVars == <<m_stopping, m_autoStop>>
fiberVars == <<m_state, m_cb>>
runVars == <<pc, ft, cb_fiber, cur, idleTerm>>
mainVars == <<rootState, mpc, calls>>
jobVars == <<armed, submitted, finished, parked, yields>>
vars == <<poolVars, flagVars, fiberVars, runVars, mainVars, jobVars, aborted>>

-----------------------------------------------------------------------------
(***************************************************************************)
(* A fiber object is named after the job it was first allocated for: a     *)
(* fiber job's own Fiber, or the Fiber run() allocates for a callback when *)
(* it has no cb_fiber to reuse.                                            *)
(***************************************************************************)
Fibers == Jobs
FiberStates == {"INIT", "HOLD", "EXEC", "TERM", "READY", "EXCEPT"}
Dead == {"TERM", "EXCEPT"}

FiberAndThread == [fiber : Fibers \cup {None}, cb : Jobs \cup {None},
                   thread : RunThreads \cup {AnyThread}]
NoEntry == [fiber |-> None, cb |-> None, thread |-> AnyThread]
FiberEntry(f, thr) == [fiber |-> f, cb |-> None, thread |-> thr]
CbEntry(j, thr) == [fiber |-> None, cb |-> j, thread |-> thr]
EntryOf(j) == IF j \in FiberJobs THEN FiberEntry(j, Pin[j]) ELSE CbEntry(j, Pin[j])

\* Where a thread is in Scheduler::run.
PCs == {"off",      \* the thread does not exist (Main: not in run())
        "fetch",    \* at the top of the loop, before it takes m_mutex
        "dispatch", \* holds an entry it popped
        "exec",     \* the user code of cur runs
        "arming",   \* that code gave its fiber to a waker, not yet parked
        "yielded",  \* m_state written, context not saved yet
        "after",    \* swapIn() has returned
        "check",    \* m_activeThreadCount decremented, m_state not yet read
        "sethold",  \* about to write HOLD
        "idle",     \* the idle fiber runs
        "done"}     \* run() has returned

\* The thread is counted by m_activeThreadCount.
Busy == {"dispatch", "exec", "arming", "yielded", "after"}
\* The fiber cur[t] is on this thread's CPU, its saved context out of date.
OnCpu == {"exec", "arming", "yielded"}
\* The thread still holds the fiber cur[t] as the one it dispatched.
Carries == {"exec", "arming", "yielded", "after", "check", "sethold"}

TypeOK ==
    /\ m_fibers \in Seq(FiberAndThread)
    /\ m_activeThreadCount \in Nat
    /\ m_idleThreadCount \in Nat
    /\ m_stopping \in BOOLEAN
    /\ m_autoStop \in BOOLEAN
    /\ m_state \in [Fibers -> FiberStates]
    /\ m_cb \in [Fibers -> Jobs]
    /\ pc \in [RunThreads -> PCs]
    /\ ft \in [RunThreads -> FiberAndThread]
    /\ cb_fiber \in [RunThreads -> Fibers \cup {None}]
    /\ cur \in [RunThreads -> Fibers \cup {None}]
    /\ idleTerm \in [RunThreads -> BOOLEAN]
    /\ rootState \in {"INIT", "EXEC", "TERM"}
    /\ mpc \in {"user", "stop_flag", "stop_call", "call", "join"}
    /\ armed \subseteq Fibers
    /\ submitted \subseteq Jobs
    /\ finished \subseteq Jobs
    /\ parked \subseteq Jobs
    /\ yields \in [Jobs -> Nat]
    /\ calls \in [start : Nat, stop : Nat]
    /\ aborted \in BOOLEAN

Init ==
    /\ m_fibers = <<>>
    /\ m_activeThreadCount = 0
    /\ m_idleThreadCount = 0
    /\ m_stopping = TRUE
    /\ m_autoStop = FALSE
    /\ m_state = [f \in Fibers |-> "INIT"]
    /\ m_cb = [f \in Fibers |-> f]
    /\ pc = [t \in RunThreads |-> "off"]
    /\ ft = [t \in RunThreads |-> NoEntry]
    /\ cb_fiber = [t \in RunThreads |-> None]
    /\ cur = [t \in RunThreads |-> None]
    /\ idleTerm = [t \in RunThreads |-> FALSE]
    /\ rootState = "INIT"
    /\ mpc = "user"
    /\ armed = {}
    /\ submitted = {}
    /\ finished = {}
    /\ parked = {}
    /\ yields = [j \in Jobs |-> 0]
    /\ calls = [start |-> 0, stop |-> 0]
    /\ aborted = FALSE

-----------------------------------------------------------------------------
\* Control points; a failed assertion ends the process.
AtPc(t, p) == ~ aborted /\ pc[t] = p
AtMain(p) == ~ aborted /\ mpc = p

\* scheduleNoLock under m_mutex; the base class's tickle() only logs.
schedule(e) == m_fibers' = Append(m_fibers, e)

\* Scheduler::stopping, one critical section.
stopping ==
    /\ m_autoStop
    /\ m_stopping
    /\ m_fibers = <<>>
    /\ m_activeThreadCount = 0

\* Mutant: the thread of an entry is not looked at.
EligibleAnywhere(t, i) ==
    m_fibers[i].fiber # None => m_state[m_fibers[i].fiber] # "EXEC"

\* May thread t take the entry at position i?
Eligible(t, i) ==
    /\ m_fibers[i].thread \in {AnyThread, t}
    /\ m_fibers[i].fiber # None => m_state[m_fibers[i].fiber] # "EXEC"

(***************************************************************************)
(* The critical section at the top of run(): pop the first eligible entry. *)
(***************************************************************************)
Fetch(t) ==
    /\ AtPc(t, "fetch")
    /\ \E i \in DOMAIN m_fibers :
          /\ Eligible(t, i)
          /\ \A k \in 1 .. i - 1 : ~ Eligible(t, k)
          /\ ft' = [ft EXCEPT ![t] = m_fibers[i]]
          /\ m_fibers' = RemoveAt(m_fibers, i)
    /\ m_activeThreadCount' = m_activeThreadCount + 1
    /\ pc' = [pc EXCEPT ![t] = "dispatch"]
    /\ UNCHANGED <<m_idleThreadCount, flagVars, fiberVars, cb_fiber, cur,
                   idleTerm, mainVars, jobVars, aborted>>

NothingFor(t) == \A i \in DOMAIN m_fibers : ~ Eligible(t, i)

\* Nothing to run: swap the idle fiber in.
FetchNone(t) ==
    /\ AtPc(t, "fetch")
    /\ NothingFor(t)
    /\ ~ idleTerm[t]
    /\ m_idleThreadCount' = m_idleThreadCount + 1
    /\ pc' = [pc EXCEPT ![t] = "idle"]
    /\ UNCHANGED <<m_fibers, m_activeThreadCount, flagVars, fiberVars, ft,
                   cb_fiber, cur, idleTerm, mainVars, jobVars, aborted>>

\* Nothing to run and the idle fiber is TERM: run() returns.  On Main the
\* root fiber turns TERM and goes back() into stop().
Exit(t) ==
    /\ AtPc(t, "fetch")
    /\ NothingFor(t)
    /\ idleTerm[t]
    /\ pc' = [pc EXCEPT ![t] = "done"]
    /\ cb_fiber' = [cb_fiber EXCEPT ![t] = None]
    /\ rootState' = IF t = Main THEN "TERM" ELSE rootState
    /\ UNCHANGED <<poolVars, flagVars, fiberVars, ft, cur, idleTerm, mpc,
                   calls, jobVars, aborted>>

\* Scheduler::idle: one test of stopping(), then TERM or YieldToHold.
Idle(t) ==
    /\ AtPc(t, "idle")
    /\ idleTerm' = [idleTerm EXCEPT ![t] = stopping]
    /\ m_idleThreadCount' = m_idleThreadCount - 1
    /\ pc' = [pc EXCEPT ![t] = "fetch"]
    /\ UNCHANGED <<m_fibers, m_activeThreadCount, flagVars, fiberVars, ft,
                   cb_fiber, cur, mainVars, jobVars, aborted>>

-----------------------------------------------------------------------------
\* Fiber::swapIn: asserts that the fiber is not EXEC, then switches to it.
swapIn(t, f) ==
    /\ cur' = [cur EXCEPT ![t] = f]
    /\ m_state' = [m_state EXCEPT ![f] = "EXEC"]
    /\ pc' = [pc EXCEPT ![t] = "exec"]

\* The entry is a fiber: swap it in, unless it has terminated meanwhile.
DispatchFiber(t) ==
    LET f == ft[t].fiber IN
    /\ AtPc(t, "dispatch")
    /\ f # None
    /\ IF m_state[f] \in Dead
       THEN /\ m_activeThreadCount' = m_activeThreadCount - 1
            /\ ft' = [ft EXCEPT ![t] = NoEntry]
            /\ pc' = [pc EXCEPT ![t] = "fetch"]
            /\ UNCHANGED <<m_state, cur, aborted>>
       ELSE /\ aborted' = (m_state[f] = "EXEC")
            /\ swapIn(t, f)
            /\ UNCHANGED <<m_activeThreadCount, ft>>
    /\ UNCHANGED <<m_fibers, m_idleThreadCount, flagVars, m_cb, cb_fiber, idleTerm,
                   mainVars, jobVars>>

\* Mutant: one cb_fiber shared by all threads (a static local).
DispatchCbShared(t) ==
    LET j == ft[t].cb
        f == IF \E u \in RunThreads : cb_fiber[u] # None
             THEN cb_fiber[CHOOSE u \in RunThreads : cb_fiber[u] # None] ELSE j
    IN
    /\ AtPc(t, "dispatch")
    /\ j # None
    /\ aborted' = (m_state[f] \notin Dead \cup {"INIT"})
    /\ m_cb' = [m_cb EXCEPT ![f] = j]
    /\ cb_fiber' = [cb_fiber EXCEPT ![t] = f]
    /\ swapIn(t, f)
    /\ UNCHANGED <<poolVars, flagVars, ft, idleTerm, mainVars, jobVars>>

\* The entry is a callback: run it in cb_fiber, reset() or newly allocated.
DispatchCb(t) ==
    LET j == ft[t].cb
        f == IF cb_fiber[t] # None THEN cb_fiber[t] ELSE j
    IN
    /\ AtPc(t, "dispatch")
    /\ j # None
    /\ aborted' = (m_state[f] \notin Dead \cup {"INIT"})
    /\ m_cb' = [m_cb EXCEPT ![f] = j]
    /\ cb_fiber' = [cb_fiber EXCEPT ![t] = f]
    /\ swapIn(t, f)
    /\ UNCHANGED <<poolVars, flagVars, ft, idleTerm, mainVars, jobVars>>

-----------------------------------------------------------------------------
(***************************************************************************)
(* What user code does while its fiber runs on t.                          *)
(***************************************************************************)
Job(t) == m_cb[cur[t]]

\* It calls schedule() for another job.
Spawn(t) ==
    /\ AtPc(t, "exec")
    /\ \E k \in Jobs \ submitted :
          /\ Parent[k] = Job(t)
          /\ schedule(EntryOf(k))
          /\ submitted' = submitted \cup {k}
    /\ UNCHANGED <<m_activeThreadCount, m_idleThreadCount, flagVars, fiberVars,
                   runVars, mainVars, armed, finished, parked, yields, aborted>>

\* Fiber::YieldToReady, up to the swapcontext in swapOut().
YieldToReady(t) ==
    /\ AtPc(t, "exec")
    /\ Job(t) \in YieldJobs
    /\ yields[Job(t)] < MaxYields
    /\ yields' = [yields EXCEPT ![Job(t)] = @ + 1]
    /\ m_state' = [m_state EXCEPT ![cur[t]] = "READY"]
    /\ pc' = [pc EXCEPT ![t] = "yielded"]
    /\ UNCHANGED <<poolVars, flagVars, m_cb, ft, cb_fiber, cur, idleTerm,
                   mainVars, armed, submitted, finished, parked, aborted>>

\* It registers its fiber with a waker (addTimer, addEvent)...
Arm(t) ==
    /\ AtPc(t, "exec")
    /\ Job(t) \in HoldJobs \ parked
    /\ parked' = parked \cup {Job(t)}
    /\ armed' = armed \cup {cur[t]}
    /\ pc' = [pc EXCEPT ![t] = "arming"]
    /\ UNCHANGED <<poolVars, flagVars, fiberVars, ft, cb_fiber, cur, idleTerm,
                   mainVars, submitted, finished, yields, aborted>>

\* ... and then calls Fiber::YieldToHold.
YieldToHold(t) ==
    /\ AtPc(t, "arming")
    /\ m_state' = [m_state EXCEPT ![cur[t]] = "HOLD"]
    /\ pc' = [pc EXCEPT ![t] = "yielded"]
    /\ UNCHANGED <<poolVars, flagVars, m_cb, ft, cb_fiber, cur, idleTerm,
                   mainVars, jobVars, aborted>>

\* The code returns or throws: Fiber::MainFunc up to its swapOut().
Finish(t) ==
    /\ AtPc(t, "exec")
    /\ \E s \in Dead : m_state' = [m_state EXCEPT ![cur[t]] = s]
    /\ finished' = finished \cup {Job(t)}
    /\ pc' = [pc EXCEPT ![t] = "yielded"]
    /\ UNCHANGED <<poolVars, flagVars, m_cb, ft, cb_fiber, cur, idleTerm,
                   mainVars, armed, submitted, parked, yields, aborted>>

\* Fiber::swapOut saves the context and returns into run().
swapOut(t) ==
    /\ AtPc(t, "yielded")
    /\ pc' = [pc EXCEPT ![t] = "after"]
    /\ UNCHANGED <<poolVars, flagVars, fiberVars, ft, cb_fiber, cur, idleTerm,
                   mainVars, jobVars, aborted>>

-----------------------------------------------------------------------------
(***************************************************************************)
(* What run() does when swapIn() has returned.  ft[t].cb tells the branch  *)
(* of run() that is executing.                                             *)
(***************************************************************************)
ByCb(t) == ft[t].cb # None

\* Mutant: the decrement is missing.
DeactivateUncounted(t) ==
    /\ AtPc(t, "after")
    /\ pc' = [pc EXCEPT ![t] = "check"]
    /\ UNCHANGED <<poolVars, flagVars, fiberVars, ft, cb_fiber, cur, idleTerm,
                   mainVars, jobVars, aborted>>

\* --m_activeThreadCount
Deactivate(t) ==
    /\ AtPc(t, "after")
    /\ m_activeThreadCount' = m_activeThreadCount - 1
    /\ pc' = [pc EXCEPT ![t] = "check"]
    /\ UNCHANGED <<m_fibers, m_idleThreadCount, flagVars, fiberVars, ft,
                   cb_fiber, cur, idleTerm, mainVars, jobVars, aborted>>

\* Mutant: a READY fiber is not scheduled again.
RequeueDrops(t) ==
    /\ AtPc(t, "check")
    /\ m_state[cur[t]] = "READY"
    /\ cb_fiber' = [cb_fiber EXCEPT ![t] = IF ByCb(t) THEN None ELSE @]
    /\ ft' = [ft EXCEPT ![t] = NoEntry]
    /\ pc' = [pc EXCEPT ![t] = "fetch"]
    /\ UNCHANGED <<poolVars, flagVars, fiberVars, cur, idleTerm, mainVars,
                   jobVars, aborted>>

\* State READY: schedule the fiber again, with no thread; cb_fiber.reset().
Requeue(t) ==
    /\ AtPc(t, "check")
    /\ m_state[cur[t]] = "READY"
    /\ schedule(FiberEntry(cur[t], AnyThread))
    /\ cb_fiber' = [cb_fiber EXCEPT ![t] = IF ByCb(t) THEN None ELSE @]
    /\ ft' = [ft EXCEPT ![t] = NoEntry]
    /\ pc' = [pc EXCEPT ![t] = "fetch"]
    /\ UNCHANGED <<m_activeThreadCount, m_idleThreadCount, flagVars, fiberVars,
                   cur, idleTerm, mainVars, jobVars, aborted>>

\* State TERM or EXCEPT: a callback's fiber is reset(nullptr) for reuse.
Retire(t) ==
    /\ AtPc(t, "check")
    /\ m_state[cur[t]] \in Dead
    /\ m_state' = IF ByCb(t) THEN [m_state EXCEPT ![cur[t]] = "INIT"] ELSE m_state
    /\ ft' = [ft EXCEPT ![t] = NoEntry]
    /\ pc' = [pc EXCEPT ![t] = "fetch"]
    /\ UNCHANGED <<poolVars, flagVars, m_cb, cb_fiber, cur, idleTerm, mainVars,
                   jobVars, aborted>>

\* Any other state: the test is over ...
Held(t) ==
    /\ AtPc(t, "check")
    /\ m_state[cur[t]] \notin Dead \cup {"READY"}
    /\ pc' = [pc EXCEPT ![t] = "sethold"]
    /\ UNCHANGED <<poolVars, flagVars, fiberVars, ft, cb_fiber, cur, idleTerm,
                   mainVars, jobVars, aborted>>

\* Mutant: cb_fiber is not given up when its fiber parks.
SetHoldKeepsCbFiber(t) ==
    /\ AtPc(t, "sethold")
    /\ m_state' = [m_state EXCEPT ![cur[t]] = "HOLD"]
    /\ ft' = [ft EXCEPT ![t] = NoEntry]
    /\ pc' = [pc EXCEPT ![t] = "fetch"]
    /\ UNCHANGED <<poolVars, flagVars, m_cb, cb_fiber, cur, idleTerm, mainVars,
                   jobVars, aborted>>

\* ... and HOLD is written, whatever the state is by then; cb_fiber.reset().
SetHold(t) ==
    /\ AtPc(t, "sethold")
    /\ m_state' = [m_state EXCEPT ![cur[t]] = "HOLD"]
    /\ cb_fiber' = [cb_fiber EXCEPT ![t] = IF ByCb(t) THEN None ELSE @]
    /\ ft' = [ft EXCEPT ![t] = NoEntry]
    /\ pc' = [pc EXCEPT ![t] = "fetch"]
    /\ UNCHANGED <<poolVars, flagVars, m_cb, cur, idleTerm, mainVars, jobVars,
                   aborted>>

-----------------------------------------------------------------------------
(***************************************************************************)
(* A waker (an expired timer, a triggered event) schedules the fiber that  *)
(* was given to it.  It runs on some other thread, so nothing in the       *)
(* scheduler keeps it from running before the fiber has parked.            *)
(***************************************************************************)
HasParked(f) == \A t \in RunThreads : pc[t] \in Carries => cur[t] # f

Wake(f) ==
    /\ ~ aborted
    /\ f \in armed
    /\ WakeAfterPark => HasParked(f)
    /\ armed' = armed \ {f}
    /\ schedule(FiberEntry(f, AnyThread))
    /\ UNCHANGED <<m_activeThreadCount, m_idleThreadCount, flagVars, fiberVars,
                   runVars, mainVars, submitted, finished, parked, yields,
                   aborted>>

-----------------------------------------------------------------------------
(***************************************************************************)
(* The user thread.                                                        *)
(***************************************************************************)
Submit(j) ==
    /\ AtMain("user")
    /\ j \notin submitted
    /\ Parent[j] = Main
    /\ schedule(EntryOf(j))
    /\ submitted' = submitted \cup {j}
    /\ UNCHANGED <<m_activeThreadCount, m_idleThreadCount, flagVars, fiberVars,
                   runVars, mainVars, armed, finished, parked, yields, aborted>>

\* Scheduler::start holds m_mutex until every thread has been created.
start ==
    /\ AtMain("user")
    /\ calls.start < MaxStarts
    /\ m_stopping
    /\ m_stopping' = FALSE
    /\ aborted' = (\E w \in Workers : pc[w] # "off")
    /\ pc' = [t \in RunThreads |-> IF t \in Workers THEN "fetch" ELSE pc[t]]
    /\ idleTerm' = [t \in RunThreads |-> IF t \in Workers THEN FALSE ELSE idleTerm[t]]
    /\ calls' = [calls EXCEPT !.start = @ + 1]
    /\ UNCHANGED <<poolVars, m_autoStop, fiberVars, ft, cb_fiber, cur,
                   rootState, mpc, jobVars>>

(***************************************************************************)
(* Scheduler::stop.  Its early return (no workers, root fiber INIT or      *)
(* TERM, stopping()) is the case of stop_call that skips call() and joins  *)
(* no thread.                                                              *)
(***************************************************************************)
stop ==
    /\ AtMain("user")
    /\ calls.start > 0
    /\ calls.stop < MaxStops
    /\ m_autoStop' = TRUE
    /\ mpc' = "stop_flag"
    /\ calls' = [calls EXCEPT !.stop = @ + 1]
    /\ UNCHANGED <<poolVars, m_stopping, fiberVars, runVars, rootState, jobVars,
                   aborted>>

StopFlag ==
    /\ AtMain("stop_flag")
    /\ m_stopping' = TRUE
    /\ mpc' = "stop_call"
    /\ UNCHANGED <<poolVars, m_autoStop, fiberVars, runVars, rootState, calls,
                   jobVars, aborted>>

\* if(m_rootFiber && !stopping()) m_rootFiber->call(): a root fiber that has
\* terminated resumes behind its back() and fails the "never reach" assertion.
StopCall ==
    /\ AtMain("stop_call")
    /\ UseCaller /\ ~ stopping
    /\ aborted' = (rootState = "TERM")
    /\ rootState' = "EXEC"
    /\ mpc' = "call"
    /\ pc' = [pc EXCEPT ![Main] = "fetch"]
    /\ idleTerm' = [idleTerm EXCEPT ![Main] = FALSE]
    /\ UNCHANGED <<poolVars, flagVars, fiberVars, ft, cb_fiber, cur, calls,
                   jobVars>>

StopNoCall ==
    /\ AtMain("stop_call")
    /\ ~ UseCaller \/ stopping
    /\ mpc' = "join"
    /\ UNCHANGED <<poolVars, flagVars, fiberVars, runVars, rootState, calls,
                   jobVars, aborted>>

\* call() returns when the root fiber goes back().
CallReturn ==
    /\ AtMain("call")
    /\ pc[Main] = "done"
    /\ pc' = [pc EXCEPT ![Main] = "off"]
    /\ mpc' = "join"
    /\ UNCHANGED <<poolVars, flagVars, fiberVars, ft, cb_fiber, cur, idleTerm,
                   rootState, calls, jobVars, aborted>>

\* Mutant: stop() returns without joining the threads.
JoinNoWait ==
    /\ AtMain("join")
    /\ pc' = [t \in RunThreads |-> IF t \in Workers THEN "off" ELSE pc[t]]
    /\ mpc' = "user"
    /\ UNCHANGED <<poolVars, flagVars, fiberVars, ft, cb_fiber, cur, idleTerm,
                   rootState, calls, jobVars, aborted>>

\* thrs.swap(m_threads), join() each of them, stop() returns.
Join ==
    /\ AtMain("join")
    /\ \A w \in Workers : pc[w] \in {"done", "off"}
    /\ pc' = [t \in RunThreads |-> IF t \in Workers THEN "off" ELSE pc[t]]
    /\ mpc' = "user"
    /\ UNCHANGED <<poolVars, flagVars, fiberVars, ft, cb_fiber, cur, idleTerm,
                   rootState, calls, jobVars, aborted>>

-----------------------------------------------------------------------------
UserCode(t) ==
    Spawn(t) \/ YieldToReady(t) \/ Arm(t) \/ YieldToHold(t) \/ Finish(t)

run(t) ==
    \/ Fetch(t) \/ FetchNone(t) \/ Exit(t) \/ Idle(t)
    \/ DispatchFiber(t) \/ DispatchCb(t)
    \/ UserCode(t)
    \/ swapOut(t) \/ Deactivate(t)
    \/ Requeue(t) \/ Retire(t) \/ Held(t) \/ SetHold(t)

StopSteps == StopFlag \/ StopCall \/ StopNoCall \/ CallReturn \/ Join

Next ==
    \/ \E t \in RunThreads : run(t)
    \/ \E f \in Fibers : Wake(f)
    \/ \E j \in Jobs : Submit(j)
    \/ start \/ stop
    \/ StopSteps

Spec == Init /\ [][Next]_vars

(***************************************************************************)
(* The operating system runs every thread that can run, and a job's code   *)
(* returns after finitely many yields (MaxYields).  Nothing obliges the    *)
(* user to submit work or to call start() and stop(), and nothing obliges  *)
(* a waker to fire.                                                        *)
(***************************************************************************)
Fairness ==
    /\ \A t \in RunThreads : WF_vars(run(t))
    /\ WF_vars(StopSteps)

FairSpec == Spec /\ Fairness

-----------------------------------------------------------------------------
(***************************************************************************)
(* Properties.                                                             *)
(***************************************************************************)

\* m_activeThreadCount and m_idleThreadCount, incremented and decremented in
\* different branches of run(), always equal the number of threads between the
\* pop of an entry and the return of swapIn(), and inside the idle fiber:
\* stopping() and hasIdleThreads() trust these counters.
CountsExact ==
    /\ m_activeThreadCount = Cardinality({t \in RunThreads : pc[t] \in Busy})
    /\ m_idleThreadCount = Cardinality({t \in RunThreads : pc[t] = "idle"})

\* No fiber's stack is in use by two threads at once, which is what the
\* assertion of Fiber::swapIn ("avoid a repeated switch") is for.
OneThreadPerFiber ==
    \A t, u \in RunThreads :
        t # u /\ pc[t] \in OnCpu /\ pc[u] \in OnCpu => cur[t] # cur[u]

\* No CAPTAIN_ASSERT of swapIn(), reset(), start() or CallerMainFunc() fails.
NoAbort == ~ aborted

Names(e, j) == e.cb = j \/ (e.fiber # None /\ m_cb[e.fiber] = j)
InQueue(j) == {i \in DOMAIN m_fibers : Names(m_fibers[i], j)}
OnThread(j) == {t \in RunThreads :
                   \/ pc[t] = "dispatch" /\ Names(ft[t], j)
                   \/ pc[t] \in Carries /\ Job(t) = j}
WithWaker(j) == {f \in armed : m_cb[f] = j}

\* A submitted job that has not finished is in exactly one place - the list,
\* one thread, or parked with a waker - and a finished one is in no list and
\* has no waker left: run() neither drops work nor runs it twice, whatever it
\* does with READY, HOLD and reused callback fibers.
NoJobLostOrDuplicated ==
    \A j \in submitted :
        IF j \in finished
        THEN InQueue(j) = {} /\ WithWaker(j) = {}
        ELSE /\ Cardinality(InQueue(j)) + Cardinality(OnThread(j)) <= 1
             /\ InQueue(j) \cup OnThread(j) = {} => WithWaker(j) # {}
             /\ InQueue(j) # {} => WithWaker(j) = {}

\* The pool as its user sees it: an entry of the list waits, a popped or
\* carried job runs until its code has ended, one that has left its thread for
\* a waker sleeps.
EntryJob(e) == IF e.fiber = None THEN e.cb ELSE m_cb[e.fiber]
Taker(t) == pc[t] = "dispatch" \/ (pc[t] \in Carries /\ Job(t) \notin finished)
JobOn(t) == IF pc[t] = "dispatch" THEN EntryJob(ft[t]) ELSE Job(t)
Waiting == {<<EntryJob(m_fibers[i]), m_fibers[i].thread>> : i \in DOMAIN m_fibers}
Running == {<<JobOn(t), t>> : t \in {u \in RunThreads : Taker(u)}}
Asleep == {m_cb[f] : f \in {g \in armed : HasParked(g)}}

\* Through the list, the unlocked m_state and the fibers that are handed from
\* callback to callback, the scheduler is a pool of tasks: each job runs on one
\* thread at a time, first on the one schedule() named, and is taken up again
\* after every yield and every wake-up, until its end and never after it.
Pool == INSTANCE TaskPool WITH Threads <- RunThreads, waiting <- Waiting,
                               running <- Running, asleep <- Asleep, done <- finished
PoolSpec == Pool!Spec

\* stop() returns only when all submitted work has finished, but for the jobs
\* that parked themselves (the base class does not wait for wakers).
StopDrains ==
    [][mpc = "join" /\ mpc' = "user" => submitted \subseteq finished \cup parked]_vars

\* Every call of stop() returns: all threads see stopping() and are joined.
StopTerminates == (mpc = "stop_flag") ~> (mpc = "user")

\* Work submitted to a started scheduler is run to its end: no entry starves
\* behind the ones a thread must skip (pinned elsewhere, or still EXEC).  The
\* caller's thread takes its share only inside stop().
EveryJobFinishes ==
    \A j \in Jobs : (j \in submitted /\ ~ m_stopping /\ Pin[j] # Main) ~> (j \in finished)

=============================================================================
