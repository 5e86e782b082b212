----------------------------- MODULE TimerManager -----------------------------
(***************************************************************************)
(* Timers and the ordered set that keeps them: captain/timer.cpp.          *)
(*                                                                         *)
(* Any thread may add, cancel, refresh and reset timers.  Pollers (the     *)
(* idle threads of the derived class) sleep for the time getNextTimer()    *)
(* returns, or less, and then collect what has expired with                *)
(* listExpiredCb().  Every section under m_mutex is one step; what runs    *)
(* outside of it is a step of its own.                                     *)
(*                                                                         *)
(* The manager owes the derived class one call of onTimerInsertedAtFront() *)
(* when the first deadline moves before a sleep that was computed.  What   *)
(* the call does is not the manager's: IOManager's tickle() writes nothing *)
(* while a thread is idle, so it never ends the sleep of a poller (module  *)
(* IdleLoop models the sleeps and what they cost).                         *)
(*                                                                         *)
(* An entry of m_timers is a timer with the deadline it was inserted       *)
(* under: std::set finds a timer by its current m_next, so the two must    *)
(* agree for find() to succeed.                                            *)
(***************************************************************************)
EXTENDS Integers, FiniteSets

CONSTANTS
    Timers,     \* the Timer objects
    Pollers,    \* the threads that call getNextTimer() and listExpiredCb()
    Delays,     \* the values of ms that are used
    Start,      \* the wall clock when the manager is built
    MaxTime,    \* bound: the wall clock stops there
    Hour,       \* detectClockRollover's 60 * 60 * 1000
    MaxJumps,   \* bound: how often the wall clock is set back
    MaxOps      \* bound: cancel, refresh and reset calls on one timer

ASSUME TimerAssumption ==
    /\ IsFiniteSet(Timers)
    /\ Delays \subseteq Nat
    /\ Start \in Nat /\ MaxTime \in Nat
    /\ Hour \in Nat /\ Hour < Start
    /\ MaxJumps \in Nat /\ MaxOps \in Nat

VARIABLES
    now,              \* GetCurrentMS()
    jumps,            \* how often it was set back
    m_next, m_ms, m_recurring,
    m_cb,             \* TRUE: the timer's m_cb is not null
    made,             \* timers constructed, their addTimer still to insert
    live,             \* timers addTimer() has returned
    m_timers,         \* the set: [timer, key]
    m_tickled,
    m_previouseTime,
    notifying,        \* calls of addTimer about to call onTimerInsertedAtFront
    announced,        \* history: onTimerInsertedAtFront() was called and no
                      \* getNextTimer() since
    pc,               \* per poller
    left,             \* per poller: time until its sleep ends
    now_ms,           \* per poller: listExpiredCb's local now_ms
    handed,           \* callbacks of each timer that listExpiredCb returned
    cancelled,        \* timers whose cancel() has returned true
    ops,              \* cancel, refresh and reset calls on each timer
    undefined         \* the front of an empty set was read, or end() erased

timerVars == <<m_next, m_ms, m_recurring, m_cb>>
setVars == <<made, live, m_timers, m_tickled>>
pollVars == <<pc, left, now_ms>>
histVars == <<handed, cancelled, ops>>
vars == <<now, jumps, timerVars, setVars, m_previouseTime, notifying, announced,
          pollVars, histVars, undefined>>

Entry == [timer : Timers, key : Nat]
\* Counting stops at two: one is what a one-shot timer may reach.
Saturate(n) == IF n > 2 THEN 2 ELSE n

TypeOK ==
    /\ now \in Nat /\ jumps \in Nat
    /\ m_next \in [Timers -> Nat]
    /\ m_ms \in [Timers -> Nat]
    /\ m_recurring \in [Timers -> BOOLEAN]
    /\ m_cb \in [Timers -> BOOLEAN]
    /\ made \subseteq Timers
    /\ live \subseteq Timers
    /\ m_timers \subseteq Entry
    /\ m_tickled \in BOOLEAN
    /\ m_previouseTime \in Nat
    /\ notifying \in Nat
    /\ announced \in BOOLEAN
    /\ pc \in [Pollers -> {"loop", "wait", "expire", "check", "collect"}]
    /\ left \in [Pollers -> Nat]
    /\ now_ms \in [Pollers -> Nat]
    /\ handed \in [Timers -> Nat]
    /\ cancelled \subseteq Timers
    /\ ops \in [Timers -> Nat]
    /\ undefined \in BOOLEAN

Init ==
    /\ now = Start /\ jumps = 0
    /\ m_next = [t \in Timers |-> 0]
    /\ m_ms = [t \in Timers |-> 0]
    /\ m_recurring = [t \in Timers |-> FALSE]
    /\ m_cb = [t \in Timers |-> FALSE]
    /\ made = {} /\ live = {} /\ m_timers = {}
    /\ m_tickled = FALSE
    /\ m_previouseTime = now
    /\ notifying = 0 /\ announced = FALSE
    /\ pc = [p \in Pollers |-> "loop"]
    /\ left = [p \in Pollers |-> 0]
    /\ now_ms = [p \in Pollers |-> 0]
    /\ handed = [t \in Timers |-> 0]
    /\ cancelled = {}
    /\ ops = [t \in Timers |-> 0]
    /\ undefined = FALSE

-----------------------------------------------------------------------------
(***************************************************************************)
(* The wall clock: it advances, and the sleeps with it, or it is set back. *)
(***************************************************************************)
Decrease(n) == IF n = 0 THEN 0 ELSE n - 1

Tick ==
    /\ ~ undefined
    /\ now < MaxTime
    /\ now' = now + 1
    /\ left' = [p \in Pollers |-> Decrease(left[p])]
    /\ UNCHANGED <<jumps, timerVars, setVars, m_previouseTime, notifying,
                   announced, pc, now_ms, histVars, undefined>>

SetBack ==
    /\ ~ undefined
    /\ jumps < MaxJumps
    /\ jumps' = jumps + 1
    /\ \E n \in 0 .. now - 1 : now' = n
    /\ UNCHANGED <<timerVars, setVars, m_previouseTime, notifying, announced,
                   pollVars, histVars, undefined>>

-----------------------------------------------------------------------------
(***************************************************************************)
(* The ordered set.  The entry of a timer is found only under its current  *)
(* m_next.  Comparator breaks ties by address, which may go either way.    *)
(***************************************************************************)
At(t, k) == [timer |-> t, key |-> k]
Found(t) == At(t, m_next[t]) \in m_timers
Without(t) == m_timers \ {At(t, m_next[t])}

\* May (must) a timer with deadline k be the first of the set s?
MayBeFirst(s, k) == \A e \in s : k <= e.key
MustBeFirst(s, k) == \A e \in s : k < e.key

\* TimerManager::addTimer(val, lock) on the set s, up to the unlock: insert,
\* and claim the notification unless one is under way.
insert(s, t, k) ==
    /\ m_timers' = s \cup {At(t, k)}
    /\ \E first \in BOOLEAN :
          /\ first => MayBeFirst(s, k)
          /\ MustBeFirst(s, k) => first
          /\ LET at_front == first /\ ~ m_tickled IN
             /\ m_tickled' = (m_tickled \/ at_front)
             /\ notifying' = notifying + (IF at_front THEN 1 ELSE 0)

\* The constructor, which reads the clock before any lock is taken.
NewTimer(t) ==
    /\ ~ undefined
    /\ t \notin made \cup live
    /\ \E ms \in Delays, recurring \in BOOLEAN :
          /\ recurring => ms > 0
          /\ m_ms' = [m_ms EXCEPT ![t] = ms]
          /\ m_next' = [m_next EXCEPT ![t] = now + ms]
          /\ m_recurring' = [m_recurring EXCEPT ![t] = recurring]
    /\ m_cb' = [m_cb EXCEPT ![t] = TRUE]
    /\ made' = made \cup {t}
    /\ UNCHANGED <<now, jumps, live, m_timers, m_tickled, m_previouseTime,
                   notifying, announced, pollVars, histVars, undefined>>

\* addTimer's section under the write lock.
addTimer(t) ==
    /\ ~ undefined
    /\ t \in made
    /\ insert(m_timers, t, m_next[t])
    /\ made' = made \ {t}
    /\ live' = live \cup {t}
    /\ UNCHANGED <<now, jumps, timerVars, m_previouseTime, announced, pollVars,
                   histVars, undefined>>

\* The call of the virtual function, outside of the lock.  IOManager's tickle()
\* returns at once when a thread is idle, and a sleeping poller is: nobody wakes.
onTimerInsertedAtFront ==
    /\ ~ undefined
    /\ notifying > 0
    /\ notifying' = notifying - 1
    /\ announced' = TRUE
    /\ UNCHANGED <<now, jumps, timerVars, setVars, m_previouseTime, pollVars,
                   histVars, undefined>>

-----------------------------------------------------------------------------
(***************************************************************************)
(* Operations on a timer, each a section under the write lock.             *)
(***************************************************************************)
MayCall(t) == ~ undefined /\ t \in live /\ ops[t] < MaxOps

\* Mutant: the timer stays in the set.
cancelKeepsEntry(t) ==
    /\ MayCall(t)
    /\ m_cb[t]
    /\ ops' = [ops EXCEPT ![t] = @ + 1]
    /\ m_cb' = [m_cb EXCEPT ![t] = FALSE]
    /\ m_timers' = m_timers
    /\ cancelled' = cancelled \cup {t}
    /\ undefined' = ~ Found(t)
    /\ UNCHANGED <<now, jumps, m_next, m_ms, m_recurring, made, live, m_tickled,
                   m_previouseTime, notifying, announced, pollVars, handed>>

\* cancel() erases what find() returns without a test: end() is undefined.
cancel(t) ==
    /\ MayCall(t)
    /\ m_cb[t]
    /\ ops' = [ops EXCEPT ![t] = @ + 1]
    /\ m_cb' = [m_cb EXCEPT ![t] = FALSE]
    /\ m_timers' = Without(t)
    /\ cancelled' = cancelled \cup {t}
    /\ undefined' = ~ Found(t)
    /\ UNCHANGED <<now, jumps, m_next, m_ms, m_recurring, made, live, m_tickled,
                   m_previouseTime, notifying, announced, pollVars, handed>>

\* Mutant: m_next is changed before the timer is taken out of the set.
refreshMovesFirst(t) ==
    /\ MayCall(t)
    /\ m_cb[t] /\ Found(t)
    /\ ops' = [ops EXCEPT ![t] = @ + 1]
    /\ m_next' = [m_next EXCEPT ![t] = now + m_ms[t]]
    /\ m_timers' = m_timers \cup {At(t, now + m_ms[t])}
    /\ UNCHANGED <<now, jumps, m_ms, m_recurring, m_cb, made, live, m_tickled,
                   m_previouseTime, notifying, announced, pollVars, handed,
                   cancelled, undefined>>

refresh(t) ==
    /\ MayCall(t)
    /\ m_cb[t] /\ Found(t)
    /\ ops' = [ops EXCEPT ![t] = @ + 1]
    /\ m_next' = [m_next EXCEPT ![t] = now + m_ms[t]]
    /\ m_timers' = Without(t) \cup {At(t, now + m_ms[t])}
    /\ UNCHANGED <<now, jumps, m_ms, m_recurring, m_cb, made, live, m_tickled,
                   m_previouseTime, notifying, announced, pollVars, handed,
                   cancelled, undefined>>

reset(t, ms, from_now) ==
    LET start == IF from_now THEN now ELSE m_next[t] - m_ms[t] IN
    /\ MayCall(t)
    /\ ms # m_ms[t] \/ from_now
    /\ m_recurring[t] => ms > 0
    /\ m_cb[t] /\ Found(t)
    /\ ops' = [ops EXCEPT ![t] = @ + 1]
    /\ m_ms' = [m_ms EXCEPT ![t] = ms]
    /\ m_next' = [m_next EXCEPT ![t] = start + ms]
    /\ insert(Without(t), t, start + ms)
    /\ UNCHANGED <<now, jumps, m_recurring, m_cb, made, live, m_previouseTime,
                   announced, pollVars, handed, cancelled, undefined>>

-----------------------------------------------------------------------------
(***************************************************************************)
(* The pollers.                                                            *)
(***************************************************************************)
Earliest == CHOOSE k \in {e.key : e \in m_timers} : \A e \in m_timers : k <= e.key
\* Longer than any sleep of a behaviour: ~0ull.
Forever == MaxTime + 1

\* Mutant: m_tickled is not cleared.
getNextTimerKeepsTickled(p) ==
    /\ ~ undefined
    /\ pc[p] = "loop"
    /\ m_tickled' = m_tickled
    /\ announced' = FALSE
    /\ left' = [left EXCEPT ![p] =
                   IF m_timers = {} THEN Forever
                   ELSE IF now >= Earliest THEN 0 ELSE Earliest - now]
    /\ pc' = [pc EXCEPT ![p] = "wait"]
    /\ UNCHANGED <<now, jumps, timerVars, made, live, m_timers, m_previouseTime,
                   notifying, now_ms, histVars, undefined>>

getNextTimer(p) ==
    /\ ~ undefined
    /\ pc[p] = "loop"
    /\ m_tickled' = FALSE
    /\ announced' = FALSE
    /\ left' = [left EXCEPT ![p] =
                   IF m_timers = {} THEN Forever
                   ELSE IF now >= Earliest THEN 0 ELSE Earliest - now]
    /\ pc' = [pc EXCEPT ![p] = "wait"]
    /\ UNCHANGED <<now, jumps, timerVars, made, live, m_timers, m_previouseTime,
                   notifying, now_ms, histVars, undefined>>

\* The sleep ends: its time is up, or epoll_wait() returns early for a descriptor
\* or for a byte in the pipe, neither of which the manager has a say in.
WakeUp(p) ==
    /\ ~ undefined
    /\ pc[p] = "wait"
    /\ left' = [left EXCEPT ![p] = 0]
    /\ pc' = [pc EXCEPT ![p] = "expire"]
    /\ UNCHANGED <<now, jumps, timerVars, setVars, m_previouseTime, notifying,
                   announced, now_ms, histVars, undefined>>

\* listExpiredCb reads the clock ...
ReadClock(p) ==
    /\ ~ undefined
    /\ pc[p] = "expire"
    /\ now_ms' = [now_ms EXCEPT ![p] = now]
    /\ pc' = [pc EXCEPT ![p] = "check"]
    /\ UNCHANGED <<now, jumps, timerVars, setVars, m_previouseTime, notifying,
                   announced, left, histVars, undefined>>

\* ... returns if there is no timer, a section under the read lock ...
CheckEmpty(p) ==
    /\ ~ undefined
    /\ pc[p] = "check"
    /\ pc' = [pc EXCEPT ![p] = IF m_timers = {} THEN "loop" ELSE "collect"]
    /\ now_ms' = [now_ms EXCEPT ![p] = IF m_timers = {} THEN 0 ELSE @]
    /\ UNCHANGED <<now, jumps, timerVars, setVars, m_previouseTime, notifying,
                   announced, left, histVars, undefined>>

\* detectClockRollover's verdict; it also remembers now_ms.
rollover(t_ms) == t_ms < m_previouseTime /\ t_ms < m_previouseTime - Hour

\* Mutant: one position too far.
ExpiredOneMore(t_ms) ==
    IF rollover(t_ms) THEN m_timers ELSE {e \in m_timers : e.key <= t_ms + 1}

Expired(t_ms) ==
    IF rollover(t_ms) THEN m_timers ELSE {e \in m_timers : e.key <= t_ms}

\* Mutant: a recurring timer is not inserted again.
listExpiredCbDropsRecurring(p) ==
    LET exp == Expired(now_ms[p])
        hit == {e.timer : e \in exp}
        again == {t \in hit : m_recurring[t]}
    IN
    /\ ~ undefined
    /\ pc[p] = "collect"
    /\ undefined' = (~ rollover(now_ms[p]) /\ m_timers = {})
    /\ m_previouseTime' = now_ms[p]
    /\ m_next' = [t \in Timers |-> IF t \in again THEN now_ms[p] + m_ms[t] ELSE m_next[t]]
    /\ m_cb' = [t \in Timers |-> m_cb[t] /\ t \notin hit \ again]
    /\ m_timers' = (m_timers \ exp)
    /\ handed' = [t \in Timers |-> IF t \in hit THEN Saturate(handed[t] + 1) ELSE handed[t]]
    /\ now_ms' = [now_ms EXCEPT ![p] = 0]
    /\ pc' = [pc EXCEPT ![p] = "loop"]
    /\ UNCHANGED <<now, jumps, m_ms, m_recurring, made, live, m_tickled,
                   notifying, announced, left, cancelled, ops>>

\* ... and collects under the write lock, where it reads the first timer
\* without looking again whether there is one.
listExpiredCb(p) ==
    LET exp == Expired(now_ms[p])
        hit == {e.timer : e \in exp}
        again == {t \in hit : m_recurring[t]}
    IN
    /\ ~ undefined
    /\ pc[p] = "collect"
    /\ undefined' = (~ rollover(now_ms[p]) /\ m_timers = {})
    /\ m_previouseTime' = now_ms[p]
    /\ m_next' = [t \in Timers |-> IF t \in again THEN now_ms[p] + m_ms[t] ELSE m_next[t]]
    /\ m_cb' = [t \in Timers |-> m_cb[t] /\ t \notin hit \ again]
    /\ m_timers' = (m_timers \ exp) \cup {At(t, now_ms[p] + m_ms[t]) : t \in again}
    /\ handed' = [t \in Timers |-> IF t \in hit THEN Saturate(handed[t] + 1) ELSE handed[t]]
    /\ now_ms' = [now_ms EXCEPT ![p] = 0]
    /\ pc' = [pc EXCEPT ![p] = "loop"]
    /\ UNCHANGED <<now, jumps, m_ms, m_recurring, made, live, m_tickled,
                   notifying, announced, left, cancelled, ops>>

-----------------------------------------------------------------------------
Poll(p) ==
    \/ getNextTimer(p) \/ WakeUp(p) \/ ReadClock(p)
    \/ CheckEmpty(p) \/ listExpiredCb(p)

Next ==
    \/ Tick \/ SetBack
    \/ \E t \in Timers : NewTimer(t) \/ addTimer(t) \/ cancel(t) \/ refresh(t)
    \/ \E t \in Timers, ms \in Delays, from_now \in BOOLEAN : reset(t, ms, from_now)
    \/ onTimerInsertedAtFront
    \/ \E p \in Pollers : Poll(p)

Spec == Init /\ [][Next]_vars

-----------------------------------------------------------------------------
(***************************************************************************)
(* Properties.                                                             *)
(***************************************************************************)

\* A timer that has a callback is in the set exactly once and can be found
\* under its m_next; one without is not in the set.  cancel() erases the result
\* of find() and refresh() and reset() move timers on the strength of this.
SetMatchesTimers ==
    \A t \in Timers :
        {e \in m_timers : e.timer = t} =
            IF m_cb[t] /\ t \in live THEN {At(t, m_next[t])} ELSE {}

\* A one-shot timer has one fate: it is waiting, or its callback was returned
\* by listExpiredCb once, or cancel() returned true - never two of these, even
\* when cancel() races the collection.  A recurring timer waits until cancelled.
OneFate ==
    \A t \in live :
        LET waiting == IF \E e \in m_timers : e.timer = t THEN 1 ELSE 0
            revoked == IF t \in cancelled THEN 1 ELSE 0
        IN  waiting + revoked + (IF m_recurring[t] THEN 0 ELSE handed[t]) = 1

\* No collector was held for an hour between reading the clock and the lock:
\* detectClockRollover would take what it brings for a clock set back.
Prompt == \A p \in Pollers : pc[p] = "collect" => now <= now_ms[p] + Hour

\* Unless the clock was set back, or seems to have been, a callback is returned
\* only when the clock is past the deadline in force when it is collected,
\* whatever refresh() and reset() did since the collector read the clock.
NeverEarly ==
    [][\A t \in Timers :
          handed'[t] # handed[t] /\ jumps = 0 /\ Prompt => m_next[t] <= now]_vars

Awake(p) == pc[p] # "wait"

\* Nobody oversleeps unannounced: when every poller sleeps past the earliest
\* deadline, onTimerInsertedAtFront() was called since a poller last computed its
\* sleep, or is about to be.  m_tickled suppresses the call, so it must never stay
\* set while nobody is about to compute a new sleep.  (refresh() after the clock
\* was set back may move a deadline forward without a call.)
FrontAnnounced ==
    (m_timers # {} /\ ~ undefined /\ jumps = 0) =>
        \/ announced \/ notifying > 0
        \/ \E p \in Pollers : Awake(p) \/ now + left[p] <= Earliest \/ left[p] = 0

\* listExpiredCb reads the first timer only if there is one.
NoEmptyFront == ~ undefined

=============================================================================
