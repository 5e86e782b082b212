-------------------------- MODULE TimerManagerProofs --------------------------
(***************************************************************************)
(* Theorems about TimerManager, for any timers, pollers and delays, with   *)
(* the wall clock set back any number of times.                            *)
(***************************************************************************)
EXTENDS TimerManager, WellFoundedInduction, TLAPS

-----------------------------------------------------------------------------
(***************************************************************************)
(* Types.  reset() subtracts m_ms from m_next, so that m_next is a natural *)
(* number only because it never falls below m_ms.                          *)
(***************************************************************************)
NextAfterMs == \A t \in Timers : m_ms[t] <= m_next[t]

TypeInv == TypeOK /\ NextAfterMs

\* The bundles of variables are always expanded.
USE DEF timerVars, setVars, pollVars, histVars, MayCall

LEMMA TypeInit == Init => TypeInv
<1> SUFFICES ASSUME Init PROVE TypeInv
  OBVIOUS
<1>1. TypeOK
  BY TimerAssumption DEF Init, TypeOK
<1>2. NextAfterMs
  BY DEF Init, NextAfterMs
<1>3. QED
  BY <1>1, <1>2 DEF TypeInv

LEMMA InsertType ==
  ASSUME TypeOK, NEW s \in SUBSET Entry, NEW t \in Timers, NEW k \in Nat,
         insert(s, t, k)
  PROVE  m_timers' \in SUBSET Entry /\ m_tickled' \in BOOLEAN /\ notifying' \in Nat
BY DEF insert, TypeOK, At, Entry

LEMMA TypeTimers ==
  ASSUME TypeInv, NEW t \in Timers,
         NewTimer(t) \/ addTimer(t) \/ cancel(t) \/ refresh(t)
  PROVE  TypeInv'
<1>1. CASE NewTimer(t)
  <2>1. PICK ms \in Delays, recurring \in BOOLEAN :
            /\ m_ms' = [m_ms EXCEPT ![t] = ms]
            /\ m_next' = [m_next EXCEPT ![t] = now + ms]
            /\ m_recurring' = [m_recurring EXCEPT ![t] = recurring]
    BY <1>1 DEF NewTimer
  <2>2. ms \in Nat
    BY TimerAssumption
  <2>3. QED
    BY <1>1, <2>1, <2>2 DEF NewTimer, TypeInv, TypeOK, NextAfterMs
<1>2. CASE addTimer(t)
  <2>1. m_timers' \in SUBSET Entry /\ m_tickled' \in BOOLEAN /\ notifying' \in Nat
    BY <1>2, InsertType DEF addTimer, TypeInv, TypeOK
  <2>2. QED
    BY <1>2, <2>1 DEF addTimer, TypeInv, TypeOK, NextAfterMs
<1>3. CASE cancel(t)
  BY <1>3 DEF cancel, TypeInv, TypeOK, NextAfterMs, Without
<1>4. CASE refresh(t)
  BY <1>4 DEF refresh, TypeInv, TypeOK, NextAfterMs, Without, At, Entry
<1>5. QED
  BY <1>1, <1>2, <1>3, <1>4

LEMMA TypeReset ==
  ASSUME TypeInv, NEW t \in Timers, NEW ms \in Delays, NEW from_now \in BOOLEAN,
         reset(t, ms, from_now)
  PROVE  TypeInv'
<1> DEFINE start == IF from_now THEN now ELSE m_next[t] - m_ms[t]
<1>1. start \in Nat /\ ms \in Nat /\ start + ms \in Nat
  BY TimerAssumption DEF TypeInv, TypeOK, NextAfterMs
<1>2. insert(Without(t), t, start + ms)
  BY DEF reset
<1>3. m_timers' \in SUBSET Entry /\ m_tickled' \in BOOLEAN /\ notifying' \in Nat
  BY <1>1, <1>2, InsertType DEF Without, TypeInv, TypeOK
<1>4. m_next' = [m_next EXCEPT ![t] = start + ms] /\ m_ms' = [m_ms EXCEPT ![t] = ms]
  BY DEF reset
<1> HIDE DEF start
<1>5. QED
  BY <1>1, <1>3, <1>4 DEF reset, TypeInv, TypeOK, NextAfterMs

\* listExpiredCb: what is left and what is inserted again are entries.
LEMMA TypeCollect ==
  ASSUME TypeInv, NEW p \in Pollers, listExpiredCb(p)
  PROVE  TypeInv'
<1>1. m_timers' \in SUBSET Entry
  <2>1. \A t \in Timers : At(t, now_ms[p] + m_ms[t]) \in Entry
    BY DEF At, Entry, TypeInv, TypeOK
  <2>2. {e.timer : e \in Expired(now_ms[p])} \subseteq Timers
    BY DEF Expired, Entry, TypeInv, TypeOK
  <2>3. QED
    BY <2>1, <2>2 DEF listExpiredCb, TypeInv, TypeOK
<1>2. /\ m_next' \in [Timers -> Nat]
      /\ \A t \in Timers : m_ms[t] <= m_next'[t]
  BY DEF listExpiredCb, TypeInv, TypeOK, NextAfterMs
<1>3. handed' \in [Timers -> Nat]
  BY DEF listExpiredCb, TypeInv, TypeOK, Saturate
<1>4. QED
  BY <1>1, <1>2, <1>3 DEF listExpiredCb, TypeInv, TypeOK, NextAfterMs

\* The entries' smallest key exists: the keys are natural numbers.
LEMMA EarliestIsFirst ==
  ASSUME m_timers \in SUBSET Entry, m_timers # {}
  PROVE  /\ Earliest \in Nat
         /\ \E e \in m_timers : e.key = Earliest
         /\ \A e \in m_timers : Earliest <= e.key
<1> DEFINE K == {e.key : e \in m_timers}
<1>1. K \subseteq Nat /\ K # {}
  BY DEF Entry
<1> DEFINE Less == {ss \in Nat \X Nat : ss[1] < ss[2]}
<1>2. IsWellFoundedOn(Less, Nat)
  BY NatLessThanWellFounded DEF OpToRel
<1>3. \A i, j \in K : i < j => <<i, j>> \in Less
  BY <1>1
<1> HIDE DEF Less, K
<1>4. PICK k \in K : \A j \in K : ~ (<<j, k>> \in Less)
  BY <1>1, <1>2, WFMin
<1>5. \A j \in K : ~ (j < k)
  BY <1>3, <1>4, Zenon
<1>6. \A e \in m_timers : k <= e.key
  BY <1>1, <1>5 DEF K
<1>7. Earliest \in K /\ \A e \in m_timers : Earliest <= e.key
  BY <1>6 DEF Earliest, K
<1>8. QED
  BY <1>1, <1>7 DEF K

LEMMA TypePoll ==
  ASSUME TypeInv, NEW p \in Pollers, Poll(p)
  PROVE  TypeInv'
<1>1. CASE getNextTimer(p)
  <2>1. m_timers # {} => Earliest \in Nat
    BY EarliestIsFirst DEF TypeInv, TypeOK
  <2>2. Forever \in Nat
    BY TimerAssumption DEF Forever
  <2>3. left' \in [Pollers -> Nat]
    BY <1>1, <2>1, <2>2 DEF getNextTimer, TypeInv, TypeOK
  <2>4. QED
    BY <1>1, <2>3 DEF getNextTimer, TypeInv, TypeOK, NextAfterMs
<1>2. CASE WakeUp(p)
  BY <1>2 DEF WakeUp, TypeInv, TypeOK, NextAfterMs
<1>3. CASE ReadClock(p)
  BY <1>3 DEF ReadClock, TypeInv, TypeOK, NextAfterMs
<1>4. CASE CheckEmpty(p)
  BY <1>4 DEF CheckEmpty, TypeInv, TypeOK, NextAfterMs
<1>5. CASE listExpiredCb(p)
  BY <1>5, TypeCollect
<1>6. QED
  BY <1>1, <1>2, <1>3, <1>4, <1>5 DEF Poll

LEMMA TypeNext == TypeInv /\ [Next]_vars => TypeInv'
<1> SUFFICES ASSUME TypeInv, [Next]_vars PROVE TypeInv'
  OBVIOUS
<1>1. CASE Tick
  BY <1>1 DEF Tick, Decrease, TypeInv, TypeOK, NextAfterMs
<1>2. CASE SetBack
  BY <1>2 DEF SetBack, TypeInv, TypeOK, NextAfterMs
<1>3. CASE onTimerInsertedAtFront
  BY <1>3 DEF onTimerInsertedAtFront, TypeInv, TypeOK, NextAfterMs
<1>4. CASE UNCHANGED vars
  BY <1>4 DEF vars, TypeInv, TypeOK, NextAfterMs
<1>5. QED
  BY <1>1, <1>2, <1>3, <1>4, TypeTimers, TypeReset, TypePoll DEF Next

\* Every variable of the manager stays in its type; in particular the deadline
\* reset() computes from the old one is never negative.
THEOREM TypeCorrect == Spec => []TypeOK
<1>1. TypeInv => TypeOK
  BY DEF TypeInv
<1>2. QED
  BY <1>1, TypeInit, TypeNext, PTL DEF Spec

-----------------------------------------------------------------------------
(***************************************************************************)
(* The set and the timers agree: every entry belongs to a timer that waits *)
(* and lies where find() looks for it, and every waiting timer has one.    *)
(***************************************************************************)
EntriesFit ==
    \A e \in m_timers :
        e.timer \in live /\ m_cb[e.timer] /\ e = At(e.timer, m_next[e.timer])

TimersFit == \A t \in live : m_cb[t] => Found(t)

\* A timer under construction is nobody else's, and has its callback.
MadeFit == \A t \in made : t \notin live /\ m_cb[t]

SetInv == TypeInv /\ MadeFit /\ EntriesFit /\ TimersFit

LEMMA SetInit == Init => SetInv
BY TypeInit DEF Init, SetInv, MadeFit, EntriesFit, TimersFit

\* Only listExpiredCb takes several timers out; an entry that stays belongs to
\* a timer that was not hit.
LEMMA HitTimers ==
  ASSUME SetInv, NEW T
  PROVE  /\ \A e \in Expired(T) : e \in m_timers
         /\ \A e \in m_timers \ Expired(T) : \A d \in Expired(T) : d.timer # e.timer
BY DEF SetInv, EntriesFit, Expired

LEMMA SetCollect ==
  ASSUME SetInv, TypeInv', NEW p \in Pollers, listExpiredCb(p)
  PROVE  SetInv'
<1> DEFINE exp == Expired(now_ms[p])
           hit == {e.timer : e \in exp}
           again == {t \in hit : m_recurring[t]}
<1>0. /\ m_next' = [t \in Timers |-> IF t \in again THEN now_ms[p] + m_ms[t] ELSE m_next[t]]
      /\ m_cb' = [t \in Timers |-> m_cb[t] /\ t \notin hit \ again]
      /\ m_timers' = (m_timers \ exp) \cup {At(t, now_ms[p] + m_ms[t]) : t \in again}
      /\ live' = live /\ made' = made
  BY DEF listExpiredCb
<1>1. \A e \in exp : e \in m_timers
  BY HitTimers
<1>2. \A e \in m_timers \ exp : e.timer \notin hit
  BY HitTimers
<1>3. live \subseteq Timers /\ hit \subseteq live
  BY <1>1 DEF SetInv, EntriesFit, TypeInv, TypeOK
<1>4. \A t \in hit : m_cb[t]
  BY <1>1 DEF SetInv, EntriesFit
<1>5. EntriesFit'
  <2> SUFFICES ASSUME NEW e \in m_timers'
               PROVE  e.timer \in live /\ m_cb'[e.timer] /\ e = At(e.timer, m_next'[e.timer])
    BY <1>0 DEF EntriesFit, At
  <2>1. CASE e \in m_timers \ exp
    <3>1. e.timer \in live /\ m_cb[e.timer] /\ e = At(e.timer, m_next[e.timer])
      BY <2>1 DEF SetInv, EntriesFit
    <3>2. e.timer \notin hit
      BY <1>2, <2>1
    <3> HIDE DEF exp, hit
    <3>3. m_next'[e.timer] = m_next[e.timer] /\ m_cb'[e.timer]
      BY <1>0, <1>3, <3>1, <3>2
    <3>4. QED
      BY <3>1, <3>3
  <2>2. CASE e \notin m_timers \ exp
    <3> HIDE DEF exp, hit
    <3>1. PICK t \in again : e = At(t, now_ms[p] + m_ms[t])
      BY <1>0, <2>2
    <3>2. t \in live /\ t \in Timers /\ t \in hit
      BY <1>3
    <3>3. m_next'[t] = now_ms[p] + m_ms[t] /\ m_cb'[t]
      BY <1>0, <1>4, <3>2
    <3>4. QED
      BY <3>1, <3>2, <3>3 DEF At
  <2>3. QED
    BY <2>1, <2>2
<1>6. TimersFit'
  <2> SUFFICES ASSUME NEW t \in live, m_cb'[t]
               PROVE  At(t, m_next'[t]) \in m_timers'
    BY <1>0 DEF TimersFit, Found, At
  <2>1. t \in Timers
    BY <1>3
  <2>2. CASE t \in hit
    <3> HIDE DEF exp, hit
    <3>1. t \in again
      BY <1>0, <2>1, <2>2
    <3>2. QED
      BY <1>0, <2>1, <3>1
  <2>3. CASE t \notin hit
    <3>1. At(t, m_next[t]) \in m_timers /\ At(t, m_next[t]).timer = t
      BY <1>0, <2>1 DEF SetInv, TimersFit, Found, At
    <3>2. At(t, m_next[t]) \notin exp
      BY <2>3, <3>1
    <3> HIDE DEF exp, hit
    <3>3. QED
      BY <1>0, <2>1, <2>3, <3>1, <3>2
  <2>4. QED
    BY <2>2, <2>3
<1>7. MadeFit'
  <2>1. \A t \in made : t \notin hit /\ t \in Timers /\ m_cb[t] /\ t \notin live
    BY <1>3 DEF SetInv, MadeFit, TypeInv, TypeOK
  <2> HIDE DEF hit
  <2>2. QED
    BY <1>0, <2>1 DEF MadeFit
<1>8. QED
  BY <1>5, <1>6, <1>7 DEF SetInv

\* The other operations move one timer.
LEMMA SetOne ==
  ASSUME SetInv, TypeInv', NEW t \in Timers,
         NewTimer(t) \/ addTimer(t) \/ cancel(t) \/ refresh(t)
  PROVE  SetInv'
<1>1. CASE NewTimer(t)
  BY <1>1 DEF NewTimer, SetInv, TypeInv, TypeOK, MadeFit, EntriesFit, TimersFit,
     Found, At
<1>2. CASE addTimer(t)
  BY <1>2 DEF addTimer, insert, SetInv, TypeInv, TypeOK, MadeFit, EntriesFit, TimersFit,
     Found, At
<1>3. CASE cancel(t)
  BY <1>3 DEF cancel, Without, SetInv, TypeInv, TypeOK, MadeFit, EntriesFit, TimersFit,
     Found, At
<1>4. CASE refresh(t)
  BY <1>4 DEF refresh, Without, SetInv, TypeInv, TypeOK, MadeFit, EntriesFit, TimersFit,
     Found, At
<1>5. QED
  BY <1>1, <1>2, <1>3, <1>4

LEMMA SetReset ==
  ASSUME SetInv, TypeInv', NEW t \in Timers, NEW ms \in Delays,
         NEW from_now \in BOOLEAN, reset(t, ms, from_now)
  PROVE  SetInv'
<1> DEFINE start == IF from_now THEN now ELSE m_next[t] - m_ms[t]
<1>1. /\ m_timers' = Without(t) \cup {At(t, start + ms)}
      /\ m_next' = [m_next EXCEPT ![t] = start + ms]
      /\ UNCHANGED <<m_cb, made, live>>
      /\ t \in live /\ m_cb[t]
  BY DEF reset, insert
<1> HIDE DEF start
<1>2. QED
  BY <1>1 DEF Without, SetInv, TypeInv, TypeOK, MadeFit, EntriesFit, TimersFit,
     Found, At

LEMMA SetNext == SetInv /\ [Next]_vars => SetInv'
<1> SUFFICES ASSUME SetInv, [Next]_vars PROVE SetInv'
  OBVIOUS
<1>0. TypeInv'
  BY TypeNext DEF SetInv
<1>1. CASE /\ UNCHANGED <<m_next, m_cb, made, live, m_timers>>
  BY <1>0, <1>1 DEF SetInv, MadeFit, EntriesFit, TimersFit,
     Found, At
<1>2. CASE Tick \/ SetBack \/ onTimerInsertedAtFront \/ UNCHANGED vars
  BY <1>1, <1>2 DEF Tick, SetBack, onTimerInsertedAtFront, vars
<1>3. CASE \E p \in Pollers : Poll(p)
  BY <1>0, <1>1, <1>3, SetCollect DEF Poll, getNextTimer, WakeUp, ReadClock, CheckEmpty
<1>4. QED
  BY <1>0, <1>2, <1>3, SetOne, SetReset DEF Next

LEMMA SetImplies == SetInv => SetMatchesTimers
<1> SUFFICES ASSUME SetInv, NEW t \in Timers
             PROVE  {e \in m_timers : e.timer = t} =
                        IF m_cb[t] /\ t \in live THEN {At(t, m_next[t])} ELSE {}
  BY DEF SetMatchesTimers
<1>1. CASE m_cb[t] /\ t \in live
  BY <1>1 DEF SetInv, MadeFit, EntriesFit, TimersFit,
     Found, At
<1>2. CASE ~ (m_cb[t] /\ t \in live)
  BY <1>2 DEF SetInv, EntriesFit
<1>3. QED
  BY <1>1, <1>2

\* A timer with a callback is in the set exactly once, under its current m_next,
\* so that the find() of cancel(), refresh() and reset() succeeds and
\* cancel() never erases end(); a timer without one is not in the set.
THEOREM TimersAreFound == Spec => []SetMatchesTimers
BY SetInit, SetNext, SetImplies, PTL DEF Spec

-----------------------------------------------------------------------------
(***************************************************************************)
(* The fate of a timer.  m_cb is what cancel() and listExpiredCb race for: *)
(* whoever finds it set decides.                                           *)
(***************************************************************************)
FateOf(t) ==
    /\ t \notin live => handed[t] = 0 /\ t \notin cancelled
    /\ t \in live /\ m_recurring[t] => (m_cb[t] <=> t \notin cancelled)
    /\ t \in live /\ ~ m_recurring[t] /\ m_cb[t] => handed[t] = 0 /\ t \notin cancelled
    /\ t \in live /\ ~ m_recurring[t] /\ ~ m_cb[t] =>
          handed[t] = IF t \in cancelled THEN 0 ELSE 1

FateInv == \A t \in Timers : FateOf(t)

LEMMA FateInit == Init => FateInv
BY DEF Init, FateInv, FateOf

LEMMA FateCollect ==
  ASSUME SetInv, FateInv, NEW p \in Pollers, listExpiredCb(p)
  PROVE  FateInv'
<1> DEFINE hit == {e.timer : e \in Expired(now_ms[p])}
           again == {t \in hit : m_recurring[t]}
<1>1. /\ m_cb' = [t \in Timers |-> m_cb[t] /\ t \notin hit \ again]
      /\ handed' = [t \in Timers |-> IF t \in hit THEN Saturate(handed[t] + 1) ELSE handed[t]]
      /\ UNCHANGED <<live, m_recurring, cancelled>>
  BY DEF listExpiredCb
<1>2. \A t \in hit : t \in live /\ m_cb[t]
  BY HitTimers DEF SetInv, EntriesFit
<1>3. SetInv /\ handed \in [Timers -> Nat] /\ Saturate(0 + 1) = 1
  BY DEF SetInv, TypeInv, TypeOK, Saturate
<1> SUFFICES ASSUME NEW t \in Timers PROVE FateOf(t)'
  BY DEF FateInv
<1> HIDE DEF hit
<1>4. FateOf(t)
  BY DEF FateInv
<1>5. m_cb'[t] = (m_cb[t] /\ t \notin hit \ again)
  BY <1>1
<1>6. handed'[t] = IF t \in hit THEN Saturate(handed[t] + 1) ELSE handed[t]
  BY <1>1
<1>7. CASE t \notin hit
  BY <1>1, <1>4, <1>5, <1>6, <1>7 DEF FateOf
<1>8. CASE t \in hit /\ m_recurring[t]
  BY <1>1, <1>2, <1>4, <1>5, <1>8 DEF FateOf
<1>9. CASE t \in hit /\ ~ m_recurring[t]
  <2>1. t \in live /\ m_cb[t] /\ handed[t] = 0 /\ t \notin cancelled
    BY <1>2, <1>4, <1>9 DEF FateOf
  <2>2. ~ m_cb'[t] /\ handed'[t] = 1
    BY <1>3, <1>5, <1>6, <1>9, <2>1
  <2>3. QED
    BY <1>1, <1>9, <2>1, <2>2 DEF FateOf
<1>10. QED
  BY <1>7, <1>8, <1>9

LEMMA FateOne ==
  ASSUME SetInv, FateInv, NEW t \in Timers,
         NewTimer(t) \/ addTimer(t) \/ cancel(t) \/ refresh(t)
  PROVE  FateInv'
<1> SUFFICES ASSUME NEW u \in Timers PROVE FateOf(u)'
  BY DEF FateInv
<1>0. FateOf(u)
  BY DEF FateInv
<1>1. CASE NewTimer(t)
  BY <1>0, <1>1 DEF NewTimer, SetInv, TypeInv, TypeOK, FateOf
<1>2. CASE addTimer(t)
  BY <1>0, <1>2 DEF addTimer, SetInv, MadeFit, TypeInv, TypeOK, FateOf
<1>3. CASE cancel(t)
  BY <1>0, <1>3 DEF cancel, SetInv, TypeInv, TypeOK, FateOf
<1>4. CASE refresh(t)
  BY <1>0, <1>4 DEF refresh, FateOf
<1>5. QED
  BY <1>1, <1>2, <1>3, <1>4

LEMMA FateNext == SetInv /\ FateInv /\ [Next]_vars => FateInv'
<1> SUFFICES ASSUME SetInv, FateInv, [Next]_vars PROVE FateInv'
  OBVIOUS
<1>1. CASE UNCHANGED <<m_cb, m_recurring, live, handed, cancelled>>
  BY <1>1 DEF FateInv, FateOf
<1>2. CASE Tick \/ SetBack \/ onTimerInsertedAtFront \/ UNCHANGED vars
  BY <1>1, <1>2 DEF Tick, SetBack, onTimerInsertedAtFront, vars
<1>3. CASE \E p \in Pollers : Poll(p)
  BY <1>1, <1>3, FateCollect DEF Poll, getNextTimer, WakeUp, ReadClock, CheckEmpty
<1>4. CASE \E t \in Timers, ms \in Delays, from_now \in BOOLEAN : reset(t, ms, from_now)
  BY <1>1, <1>4 DEF reset
<1>5. QED
  BY <1>2, <1>3, <1>4, FateOne DEF Next

LEMMA FateImplies == SetInv /\ FateInv => OneFate
<1> SUFFICES ASSUME SetInv, FateInv, NEW t \in live
             PROVE  (IF \E e \in m_timers : e.timer = t THEN 1 ELSE 0)
                    + (IF t \in cancelled THEN 1 ELSE 0)
                    + (IF m_recurring[t] THEN 0 ELSE handed[t]) = 1
  BY DEF OneFate
<1>1. FateOf(t)
  BY DEF FateInv, SetInv, TypeInv, TypeOK
<1>2. (\E e \in m_timers : e.timer = t) <=> m_cb[t]
  BY DEF SetInv, EntriesFit, TimersFit, Found, At
<1>3. QED
  BY <1>1, <1>2 DEF FateOf

\* However cancel(), refresh() and reset() race the collection, and however the
\* clock is set back, a one-shot timer waits, or was handed out once, or was
\* cancelled, and never two of these; a recurring one waits until cancelled.
THEOREM FateIsUnique == Spec => []OneFate
BY SetInit, SetNext, FateInit, FateNext, FateImplies, PTL DEF Spec

-----------------------------------------------------------------------------
(***************************************************************************)
(* Time.  While the clock has not been set back, nothing the manager has   *)
(* read of it lies ahead of it, and a deadline is at most its period away. *)
(***************************************************************************)
ClockInv ==
    jumps = 0 =>
        /\ m_previouseTime <= now
        /\ \A p \in Pollers : now_ms[p] <= now
        /\ \A t \in Timers : m_next[t] <= now + m_ms[t]

LEMMA ClockInit == Init => ClockInv
BY TimerAssumption DEF Init, ClockInv

LEMMA ClockNext == TypeInv /\ ClockInv /\ [Next]_vars => ClockInv'
<1> SUFFICES ASSUME TypeInv, ClockInv, [Next]_vars PROVE ClockInv'
  OBVIOUS
<1> USE DEF TypeInv, TypeOK, ClockInv
<1>1. CASE Tick
  BY <1>1 DEF Tick
<1>2. CASE SetBack
  BY <1>2 DEF SetBack
<1>3. CASE onTimerInsertedAtFront \/ UNCHANGED vars
  BY <1>3 DEF onTimerInsertedAtFront, vars
<1>4. ASSUME NEW t \in Timers, NewTimer(t) PROVE ClockInv'
  BY <1>4, TimerAssumption DEF NewTimer
<1>5. ASSUME NEW t \in Timers, addTimer(t) \/ cancel(t) PROVE ClockInv'
  BY <1>5 DEF addTimer, cancel
<1>6. ASSUME NEW t \in Timers, refresh(t) PROVE ClockInv'
  BY <1>6 DEF refresh
<1>7. ASSUME NEW t \in Timers, NEW ms \in Delays, NEW from_now \in BOOLEAN,
             reset(t, ms, from_now)
      PROVE  ClockInv'
  BY <1>7, TimerAssumption DEF reset, NextAfterMs
<1>8. ASSUME NEW p \in Pollers, getNextTimer(p) \/ WakeUp(p) PROVE ClockInv'
  BY <1>8 DEF getNextTimer, WakeUp
<1>9. ASSUME NEW p \in Pollers, ReadClock(p) \/ CheckEmpty(p) PROVE ClockInv'
  BY <1>9 DEF ReadClock, CheckEmpty
<1>10. ASSUME NEW p \in Pollers, listExpiredCb(p) PROVE ClockInv'
  <2> SUFFICES ASSUME jumps = 0
               PROVE  /\ m_previouseTime' <= now
                      /\ \A q \in Pollers : now_ms'[q] <= now
                      /\ \A t \in Timers : m_next'[t] <= now + m_ms[t]
    BY <1>10 DEF listExpiredCb
  <2>1. \A t \in Timers : m_next'[t] \in {m_next[t], now_ms[p] + m_ms[t]}
    BY <1>10 DEF listExpiredCb
  <2>2. m_previouseTime' = now_ms[p] /\ now_ms' = [now_ms EXCEPT ![p] = 0]
    BY <1>10 DEF listExpiredCb
  <2>3. QED
    BY <2>1, <2>2
<1>11. QED
  BY <1>1, <1>2, <1>3, <1>4, <1>5, <1>6, <1>7, <1>8, <1>9, <1>10 DEF Next, Poll

\* While the clock is not set back and no collector is held for an hour, no
\* callback leaves listExpiredCb before its deadline, whatever happens to the
\* timers between the reading of the clock and the collection.
THEOREM NoneIsEarly == Spec => NeverEarly
<1> DEFINE Early == \A t \in Timers :
                handed'[t] # handed[t] /\ jumps = 0 /\ Prompt => m_next[t] <= now
<1>1. SetInv /\ ClockInv /\ [Next]_vars => [Early]_vars
  <2> SUFFICES ASSUME SetInv, ClockInv, Next, NEW t \in Timers,
                      handed'[t] # handed[t], jumps = 0, Prompt
               PROVE  m_next[t] <= now
    OBVIOUS
  <2>1. PICK p \in Pollers : listExpiredCb(p)
    BY DEF Next, Poll, Tick, SetBack, NewTimer, addTimer, cancel, refresh, reset,
       onTimerInsertedAtFront, getNextTimer, WakeUp, ReadClock, CheckEmpty
  <2>2. PICK e \in Expired(now_ms[p]) : e.timer = t
    BY <2>1 DEF listExpiredCb
  <2>3. e \in m_timers /\ e.key = m_next[t] /\ m_next[t] \in Nat
    BY <2>2, HitTimers DEF SetInv, EntriesFit, At, TypeInv, TypeOK
  <2>4. now_ms[p] <= now /\ m_previouseTime <= now /\ now <= now_ms[p] + Hour
    BY <2>1 DEF ClockInv, Prompt, listExpiredCb
  <2>5. now \in Nat /\ now_ms[p] \in Nat /\ m_previouseTime \in Nat /\ Hour \in Nat
    BY TimerAssumption DEF SetInv, TypeInv, TypeOK
  <2>6. ~ rollover(now_ms[p])
    BY <2>4, <2>5 DEF rollover
  <2>7. e.key <= now_ms[p]
    BY <2>2, <2>6 DEF Expired
  <2>8. QED
    BY <2>3, <2>4, <2>5, <2>7
<1>2. SetInv => TypeInv
  BY DEF SetInv
<1> HIDE DEF Early
<1>3. Spec => [][Early]_vars
  BY <1>1, <1>2, SetInit, SetNext, ClockInit, ClockNext, PTL DEF Spec
<1>4. QED
  BY <1>3 DEF Early, NeverEarly

-----------------------------------------------------------------------------
(***************************************************************************)
(* The announcement.  m_tickled may suppress one only while another is     *)
(* under way or done, or a poller is about to compute its sleep; otherwise *)
(* somebody sleeps no longer than until the first deadline.                *)
(***************************************************************************)
Announced == announced \/ notifying > 0
InTime(p) == Awake(p) \/ left[p] = 0 \/ \A e \in m_timers : now + left[p] <= e.key

TickledJustified == m_tickled => Announced \/ \E p \in Pollers : Awake(p)
SomeoneInTime == m_timers # {} => Announced \/ \E p \in Pollers : InTime(p)

FrontInv == ~ undefined /\ jumps = 0 => TickledJustified /\ SomeoneInTime

LEMMA FrontInit == Init => FrontInv
BY DEF Init, FrontInv, TickledJustified, SomeoneInTime

\* The steps that move no poller and leave now alone: it is enough that the
\* set's deadlines do not get earlier, or that a notification is claimed.
LEMMA FrontQuiet ==
  ASSUME TypeInv, FrontInv, ~ undefined, jumps = 0,
         UNCHANGED <<now, pc, left, announced>>,
         notifying' \in Nat, notifying' >= notifying,
         m_tickled' => m_tickled \/ notifying' > 0,
         m_timers' # {} => \/ notifying' > 0
                           \/ m_tickled
                           \/ /\ m_timers # {}
                              /\ \A e \in m_timers' : \E d \in m_timers : d.key <= e.key,
         m_timers' \in SUBSET Entry
  PROVE  TickledJustified' /\ SomeoneInTime'
<1>1. \A p \in Pollers : Awake(p)' <=> Awake(p)
  BY DEF Awake
<1>2. Announced => Announced'
  BY DEF Announced, TypeInv, TypeOK
<1>3. TickledJustified'
  BY <1>1, <1>2 DEF FrontInv, TickledJustified, Announced
<1>4. SomeoneInTime'
  <2> SUFFICES ASSUME m_timers' # {}, ~ Announced' PROVE \E p \in Pollers : InTime(p)'
    BY DEF SomeoneInTime
  <2>1. CASE m_tickled
    BY <1>1, <1>2, <2>1 DEF FrontInv, TickledJustified, InTime
  <2>2. CASE m_timers # {} /\ \A e \in m_timers' : \E d \in m_timers : d.key <= e.key
    <3>1. PICK p \in Pollers : InTime(p)
      BY <1>2, <2>2 DEF FrontInv, SomeoneInTime
    <3>2. CASE \A e \in m_timers : now + left[p] <= e.key
      <4>1. \A e \in m_timers' : now + left[p] <= e.key
        <5> SUFFICES ASSUME NEW e \in m_timers' PROVE now + left[p] <= e.key
          OBVIOUS
        <5>1. PICK d \in m_timers : d.key <= e.key
          BY <2>2
        <5>2. now + left[p] \in Nat /\ d.key \in Nat /\ e.key \in Nat
          BY DEF TypeInv, TypeOK, Entry
        <5>3. QED
          BY <3>2, <5>1, <5>2
      <4>2. QED
        BY <4>1 DEF InTime
    <3>3. QED
      BY <1>1, <3>1, <3>2 DEF InTime
  <2>3. QED
    BY <2>1, <2>2 DEF Announced
<1>5. QED
  BY <1>3, <1>4

\* insert() claims a notification, or finds m_tickled set, or does not put the
\* timer first.
LEMMA InsertQuiet ==
  ASSUME TypeInv, NEW s \in SUBSET m_timers, NEW t \in Timers, NEW k \in Nat,
         insert(s, t, k)
  PROVE  /\ notifying' \in Nat /\ notifying' >= notifying
         /\ m_tickled' => m_tickled \/ notifying' > 0
         /\ \/ notifying' > 0
            \/ m_tickled
            \/ /\ m_timers # {}
               /\ \A e \in m_timers' : \E d \in m_timers : d.key <= e.key
<1>1. PICK first \in BOOLEAN :
          /\ MustBeFirst(s, k) => first
          /\ m_tickled' = (m_tickled \/ (first /\ ~ m_tickled))
          /\ notifying' = notifying + (IF first /\ ~ m_tickled THEN 1 ELSE 0)
  BY DEF insert
<1>2. notifying \in Nat /\ m_tickled \in BOOLEAN
  BY DEF TypeInv, TypeOK
<1>3. CASE first
  BY <1>1, <1>2, <1>3
<1>4. CASE ~ first
  <2>1. PICK d \in s : ~ (k < d.key)
    BY <1>1, <1>4 DEF MustBeFirst
  <2>2. d.key \in Nat /\ d.key <= k
    BY <2>1 DEF TypeInv, TypeOK, Entry
  <2>3. \A e \in s : e.key \in Nat
    BY DEF TypeInv, TypeOK, Entry
  <2>4. \A e \in m_timers' : \E c \in m_timers : c.key <= e.key
    <3> SUFFICES ASSUME NEW e \in m_timers' PROVE \E c \in m_timers : c.key <= e.key
      OBVIOUS
    <3>1. e \in s \/ e = At(t, k)
      BY DEF insert
    <3>2. QED
      BY <2>1, <2>2, <2>3, <3>1 DEF At
  <2>5. QED
    BY <1>1, <1>2, <1>4, <2>1, <2>4
<1>5. QED
  BY <1>3, <1>4

LEMMA FrontTimers ==
  ASSUME SetInv, ClockInv, FrontInv, TypeInv', NEW t \in Timers,
         NewTimer(t) \/ addTimer(t) \/ cancel(t) \/ refresh(t)
  PROVE  FrontInv'
<1>0. ~ undefined /\ jumps' = jumps /\ TypeInv
  BY DEF NewTimer, addTimer, cancel, refresh, SetInv
<1> SUFFICES ASSUME jumps = 0 PROVE TickledJustified' /\ SomeoneInTime'
  BY <1>0 DEF FrontInv
<1>1. notifying \in Nat /\ m_timers \in SUBSET Entry /\ m_timers' \in SUBSET Entry
  BY <1>0 DEF TypeInv, TypeOK
<1>2. \A d \in m_timers : d.key <= d.key
  BY <1>1 DEF Entry
<1>3. CASE NewTimer(t)
  BY <1>0, <1>1, <1>2, <1>3, FrontQuiet DEF NewTimer
<1>4. CASE addTimer(t)
  <2>1. m_next[t] \in Nat /\ m_timers \in SUBSET m_timers
    BY <1>0 DEF TypeInv, TypeOK
  <2>2. insert(m_timers, t, m_next[t]) /\ UNCHANGED <<now, pc, left, announced>>
    BY <1>4 DEF addTimer
  <2>3. QED
    BY <1>0, <1>1, <2>1, <2>2, InsertQuiet, FrontQuiet
<1>5. CASE cancel(t)
  <2>1. m_timers' \subseteq m_timers
    BY <1>5 DEF cancel, Without
  <2>2. QED
    BY <1>0, <1>1, <1>2, <1>5, <2>1, FrontQuiet DEF cancel
<1>6. CASE refresh(t)
  <2>1. At(t, m_next[t]) \in m_timers /\ m_timers' = Without(t) \cup {At(t, now + m_ms[t])}
    BY <1>6 DEF refresh, Found
  <2>2. m_next[t] <= now + m_ms[t]
    BY DEF ClockInv
  <2>3. \A e \in m_timers' : \E d \in m_timers : d.key <= e.key
    BY <1>2, <2>1, <2>2 DEF Without, At
  <2>4. QED
    BY <1>0, <1>1, <1>6, <2>1, <2>3, FrontQuiet DEF refresh
<1>7. QED
  BY <1>3, <1>4, <1>5, <1>6

LEMMA FrontReset ==
  ASSUME SetInv, FrontInv, TypeInv', NEW t \in Timers, NEW ms \in Delays,
         NEW from_now \in BOOLEAN, reset(t, ms, from_now)
  PROVE  FrontInv'
<1> DEFINE start == IF from_now THEN now ELSE m_next[t] - m_ms[t]
<1>0. ~ undefined /\ jumps' = jumps /\ TypeInv
  BY DEF reset, SetInv
<1>1. start + ms \in Nat
  BY <1>0, TimerAssumption DEF TypeInv, TypeOK, NextAfterMs
<1>2. /\ insert(Without(t), t, start + ms)
      /\ UNCHANGED <<now, pc, left, announced>>
      /\ Without(t) \in SUBSET m_timers
  BY DEF reset, Without
<1>3. m_timers' \in SUBSET Entry
  BY DEF TypeInv, TypeOK
<1> HIDE DEF start
<1>4. QED
  BY <1>0, <1>1, <1>2, <1>3, InsertQuiet, FrontQuiet DEF FrontInv

LEMMA FrontPoll ==
  ASSUME SetInv, FrontInv, NEW p \in Pollers, Poll(p)
  PROVE  FrontInv'
<1>0. TypeInv
  BY DEF SetInv
<1>1. CASE getNextTimer(p)
  <2>1. m_timers' = m_timers /\ now' = now /\ ~ m_tickled'
    BY <1>1 DEF getNextTimer
  <2>2. m_timers # {} => InTime(p)'
    <3> SUFFICES ASSUME m_timers # {} PROVE InTime(p)'
      OBVIOUS
    <3>1. Earliest \in Nat /\ \A e \in m_timers : Earliest <= e.key
      BY <1>0, EarliestIsFirst DEF TypeInv, TypeOK
    <3>2. left'[p] = IF now >= Earliest THEN 0 ELSE Earliest - now
      BY <1>0, <1>1 DEF getNextTimer, TypeInv, TypeOK
    <3>3. now \in Nat
      BY <1>0 DEF TypeInv, TypeOK
    <3>4. left'[p] = 0 \/ now + left'[p] = Earliest
      BY <3>1, <3>2, <3>3
    <3>5. QED
      BY <2>1, <3>1, <3>4 DEF InTime
  <2>3. QED
    BY <2>1, <2>2 DEF FrontInv, TickledJustified, SomeoneInTime
<1>2. CASE WakeUp(p) \/ ReadClock(p) \/ CheckEmpty(p) \/ listExpiredCb(p)
  <2>1. pc'[p] # "wait"
    BY <1>0, <1>2 DEF WakeUp, ReadClock, CheckEmpty, listExpiredCb, TypeInv, TypeOK
  <2>2. Awake(p)' /\ InTime(p)'
    BY <2>1 DEF Awake, InTime
  <2>3. QED
    BY <2>2 DEF FrontInv, TickledJustified, SomeoneInTime
<1>3. QED
  BY <1>1, <1>2 DEF Poll

LEMMA FrontTick ==
  ASSUME TypeInv, FrontInv, Tick
  PROVE  FrontInv'
<1>1. UNCHANGED <<m_tickled, m_timers, announced, notifying, pc, jumps, undefined>>
  BY DEF Tick
<1>2. \A p \in Pollers : InTime(p) => InTime(p)'
  <2> SUFFICES ASSUME NEW p \in Pollers, InTime(p) PROVE InTime(p)'
    OBVIOUS
  <2>1. left'[p] = (IF left[p] = 0 THEN 0 ELSE left[p] - 1) /\ now' = now + 1
    BY DEF Tick, Decrease
  <2>2. left[p] \in Nat /\ now \in Nat
    BY DEF TypeInv, TypeOK
  <2>3. left'[p] = 0 \/ now' + left'[p] = now + left[p]
    BY <2>1, <2>2
  <2>4. QED
    BY <1>1, <2>1, <2>3 DEF InTime, Awake
<1>3. QED
  BY <1>1, <1>2 DEF FrontInv, TickledJustified, SomeoneInTime, Announced, Awake

LEMMA FrontNext == SetInv /\ ClockInv /\ FrontInv /\ [Next]_vars => FrontInv'
<1> SUFFICES ASSUME SetInv, ClockInv, FrontInv, [Next]_vars PROVE FrontInv'
  OBVIOUS
<1>0. TypeInv /\ TypeInv'
  BY TypeNext DEF SetInv
<1>1. CASE SetBack
  BY <1>0, <1>1 DEF SetBack, FrontInv, TypeInv, TypeOK
<1>2. CASE onTimerInsertedAtFront
  BY <1>2 DEF onTimerInsertedAtFront, FrontInv, TickledJustified, SomeoneInTime, Announced
<1>3. CASE UNCHANGED vars
  BY <1>3 DEF vars, FrontInv, TickledJustified, SomeoneInTime, Announced, InTime, Awake
<1>4. QED
  BY <1>0, <1>1, <1>2, <1>3, FrontTick, FrontTimers, FrontReset, FrontPoll DEF Next

LEMMA FrontImplies == TypeInv /\ FrontInv => FrontAnnounced
<1> SUFFICES ASSUME TypeInv, FrontInv, m_timers # {}, ~ undefined, jumps = 0,
                    ~ (announced \/ notifying > 0)
             PROVE  \E p \in Pollers : Awake(p) \/ now + left[p] <= Earliest \/ left[p] = 0
  BY DEF FrontAnnounced
<1>1. PICK p \in Pollers : InTime(p)
  BY DEF FrontInv, SomeoneInTime, Announced
<1>2. \E e \in m_timers : e.key = Earliest
  BY EarliestIsFirst DEF TypeInv, TypeOK
<1>3. QED
  BY <1>1, <1>2 DEF InTime

\* No earlier deadline stays untold: while the clock is not set back, either
\* onTimerInsertedAtFront() was called since the last getNextTimer() or is about
\* to be, or some poller is awake or sleeps no longer than until the first
\* deadline, although m_tickled suppresses calls.
THEOREM FrontIsAnnounced == Spec => []FrontAnnounced
<1>1. SetInv => TypeInv
  BY DEF SetInv
<1>2. QED
  BY <1>1, SetInit, SetNext, ClockInit, ClockNext, FrontInit, FrontNext, FrontImplies,
     PTL DEF Spec

=============================================================================
