--------------------------- MODULE SchedulerProofs ---------------------------
(***************************************************************************)
(* Theorems about Scheduler, for every pool of threads and every workload: *)
(* the counters first; then, for workloads whose wakers run after the      *)
(* fiber they wake has parked, where the work is, the end of stop(), and   *)
(* that the scheduler is a pool of tasks.                                  *)
(***************************************************************************)
EXTENDS Scheduler, FiniteSetTheorems, TLAPS

-----------------------------------------------------------------------------
(***************************************************************************)
(* Counting the threads at a set of program points.                        *)
(***************************************************************************)
At(p, A) == {t \in RunThreads : p[t] \in A}

LEMMA RunThreadsFinite == IsFiniteSet(RunThreads)
<1>1. IsFiniteSet(Workers)
  BY ThreadsAssumption
<1>2. IsFiniteSet({Main}) /\ IsFiniteSet({})
  BY FS_Singleton, FS_EmptySet
<1>3. QED
  BY <1>1, <1>2, FS_Union DEF RunThreads

\* The number of threads in A is a natural number.
LEMMA AtCount ==
  ASSUME NEW p, NEW A
  PROVE  IsFiniteSet(At(p, A)) /\ Cardinality(At(p, A)) \in Nat
<1>1. At(p, A) \subseteq RunThreads
  BY DEF At
<1>2. IsFiniteSet(At(p, A))
  BY <1>1, RunThreadsFinite, FS_Subset
<1>3. QED
  BY <1>2, FS_CardinalityType

\* One thread enters A.
LEMMA AtEnter ==
  ASSUME NEW p \in [RunThreads -> PCs], NEW A, NEW t \in RunThreads,
         NEW v \in A, p[t] \notin A
  PROVE  Cardinality(At([p EXCEPT ![t] = v], A)) = Cardinality(At(p, A)) + 1
<1>1. At([p EXCEPT ![t] = v], A) = At(p, A) \cup {t}
  BY DEF At
<1>2. t \notin At(p, A)
  BY DEF At
<1>3. QED
  BY <1>1, <1>2, AtCount, FS_AddElement

\* One thread leaves A.
LEMMA AtLeave ==
  ASSUME NEW p \in [RunThreads -> PCs], NEW A, NEW t \in RunThreads,
         NEW v, v \notin A, p[t] \in A
  PROVE  Cardinality(At([p EXCEPT ![t] = v], A)) = Cardinality(At(p, A)) - 1
<1>1. At([p EXCEPT ![t] = v], A) = At(p, A) \ {t}
  BY DEF At
<1>2. t \in At(p, A)
  BY DEF At
<1>3. QED
  BY <1>1, <1>2, AtCount, FS_RemoveElement

\* One thread moves, but neither into nor out of A.
LEMMA AtSame ==
  ASSUME NEW p \in [RunThreads -> PCs], NEW A, NEW t \in RunThreads,
         NEW v, v \in A <=> p[t] \in A
  PROVE  Cardinality(At([p EXCEPT ![t] = v], A)) = Cardinality(At(p, A))
<1>1. At([p EXCEPT ![t] = v], A) = At(p, A)
  BY DEF At
<1>2. QED
  BY <1>1

-----------------------------------------------------------------------------
(***************************************************************************)
(* The inductive invariant.  What it adds to the types and the counters:   *)
(* a thread that holds a fiber has one, and the threads of the pool exist  *)
(* only between start() and the join of stop(), Main being in run() only   *)
(* while stop() waits for its root fiber.                                  *)
(***************************************************************************)
CurOK == \A t \in RunThreads : pc[t] \in Carries => cur[t] \in Fibers

PoolOK ==
    /\ mpc = "user" /\ m_stopping => \A w \in Workers : pc[w] = "off"
    /\ mpc \in {"stop_call", "call", "join"} => m_stopping
    /\ mpc # "call" => (UseCaller => pc[Main] = "off")

Counts ==
    /\ m_activeThreadCount = Cardinality(At(pc, Busy))
    /\ m_idleThreadCount = Cardinality(At(pc, {"idle"}))

CountInv == TypeOK /\ CurOK /\ PoolOK /\ Counts

LEMMA CountsAreExact == Counts <=> CountsExact
BY DEF Counts, CountsExact, At

\* Every entry that is ever queued is well formed.
LEMMA EntryTypes ==
  ASSUME NEW f \in Fibers, NEW j \in Jobs
  PROVE  /\ FiberEntry(f, AnyThread) \in FiberAndThread
         /\ EntryOf(j) \in FiberAndThread
         /\ NoEntry \in FiberAndThread
BY JobsAssumption DEF FiberEntry, EntryOf, CbEntry, FiberAndThread, NoEntry,
   Fibers

\* Removing an entry leaves a list of entries.
LEMMA RemoveAtType ==
  ASSUME NEW s \in Seq(FiberAndThread), NEW i \in 1 .. Len(s)
  PROVE  RemoveAt(s, i) \in Seq(FiberAndThread)
<1>1. SubSeq(s, 1, i - 1) \in Seq(FiberAndThread)
  OBVIOUS
<1>2. SubSeq(s, i + 1, Len(s)) \in Seq(FiberAndThread)
  OBVIOUS
<1>3. QED
  BY <1>1, <1>2 DEF RemoveAt

LEMMA CountInit == Init => CountInv
<1> SUFFICES ASSUME Init PROVE CountInv
  OBVIOUS
<1>1. TypeOK
  <2>1. m_fibers \in Seq(FiberAndThread)
    BY DEF Init
  <2>2. NoEntry \in FiberAndThread
    BY DEF NoEntry, FiberAndThread
  <2>3. QED
    BY <2>1, <2>2 DEF Init, TypeOK, Fibers, FiberStates, PCs
<1>2. CurOK
  BY DEF Init, CurOK, Carries
<1>3. PoolOK
  BY DEF Init, PoolOK, RunThreads
<1>4. Counts
  <2>1. At(pc, Busy) = {} /\ At(pc, {"idle"}) = {}
    BY DEF Init, At, Busy
  <2>2. QED
    BY <2>1, FS_EmptySet DEF Init, Counts
<1>5. QED
  BY <1>1, <1>2, <1>3, <1>4 DEF CountInv

\* The bundles of variables, and the control points, are always expanded.
USE DEF poolVars, flagVars, fiberVars, runVars, mainVars, jobVars, AtPc, AtMain

\* A step of a thread keeps the pool's shape: it runs only while it exists.
LEMMA PoolStep ==
  ASSUME TypeOK, PoolOK, NEW t \in RunThreads, NEW v \in PCs,
         pc[t] # "off",
         pc' = [pc EXCEPT ![t] = v],
         m_stopping' = m_stopping, mpc' = mpc
  PROVE  PoolOK'
<1>1. t \in Workers => ~(mpc = "user" /\ m_stopping)
  BY DEF PoolOK
<1>2. UseCaller /\ t = Main => mpc = "call"
  BY DEF PoolOK
<1>3. Main \notin Workers
  BY ThreadsAssumption
<1>4. QED
  BY <1>1, <1>2, <1>3 DEF PoolOK, TypeOK, RunThreads

\* A step of a thread that does not cross the border of Busy or of "idle".
LEMMA CountsStay ==
  ASSUME TypeOK, Counts, NEW t \in RunThreads, NEW v \in PCs,
         v \in Busy <=> pc[t] \in Busy,
         v = "idle" <=> pc[t] = "idle",
         pc' = [pc EXCEPT ![t] = v],
         UNCHANGED <<m_activeThreadCount, m_idleThreadCount>>
  PROVE  Counts'
<1>1. Cardinality(At(pc, Busy)') = Cardinality(At(pc, Busy))
  BY AtSame DEF TypeOK, At
<1>2. Cardinality(At(pc, {"idle"})') = Cardinality(At(pc, {"idle"}))
  BY AtSame DEF TypeOK, At
<1>3. QED
  BY <1>1, <1>2 DEF Counts

LEMMA CountFetch ==
  ASSUME CountInv, NEW t \in RunThreads, Fetch(t)
  PROVE  CountInv'
<1>0. TypeOK /\ CurOK /\ PoolOK /\ Counts
  BY DEF CountInv
<1>1. Counts'
  <2>1. pc \in [RunThreads -> PCs] /\ pc[t] = "fetch" /\ pc' = [pc EXCEPT ![t] = "dispatch"]
    BY DEF CountInv, TypeOK, Fetch
  <2>2. "fetch" \notin Busy /\ "dispatch" \in Busy
    BY DEF Busy
  <2>3. Cardinality(At(pc', Busy)) = Cardinality(At(pc, Busy)) + 1
    BY <2>1, <2>2, AtEnter
  <2>4. "fetch" \notin {"idle"} /\ "dispatch" \notin {"idle"}
    BY DEF Busy
  <2>5. Cardinality(At(pc', {"idle"})) = Cardinality(At(pc, {"idle"}))
    BY <2>1, <2>4, AtSame
  <2>6. QED
    BY <2>3, <2>5 DEF CountInv, Counts, Fetch
<1>2. TypeOK'
  <2>1. PICK i \in DOMAIN m_fibers : ft' = [ft EXCEPT ![t] = m_fibers[i]]
                                  /\ m_fibers' = RemoveAt(m_fibers, i)
    BY DEF Fetch
  <2>2. m_fibers' \in Seq(FiberAndThread)
    BY <1>0, <2>1, RemoveAtType DEF TypeOK
  <2>3. ft' \in [RunThreads -> FiberAndThread]
    BY <1>0, <2>1 DEF TypeOK
  <2>4. QED
    BY <1>0, <1>1, AtCount, <2>2, <2>3 DEF TypeOK, Counts, Fetch, PCs, Fibers,
       FiberStates, Dead
<1>3. CurOK'
  BY <1>0, <1>2 DEF CurOK, Carries, TypeOK, Fetch, FiberAndThread, Fibers
<1>4. PoolOK'
  BY <1>0, PoolStep DEF TypeOK, Fetch, PCs
<1>5. QED
  BY <1>1, <1>2, <1>3, <1>4 DEF CountInv

LEMMA CountFetchNone ==
  ASSUME CountInv, NEW t \in RunThreads, FetchNone(t)
  PROVE  CountInv'
<1>0. TypeOK /\ CurOK /\ PoolOK /\ Counts
  BY DEF CountInv
<1>1. Counts'
  <2>1. pc \in [RunThreads -> PCs] /\ pc[t] = "fetch" /\ pc' = [pc EXCEPT ![t] = "idle"]
    BY DEF CountInv, TypeOK, FetchNone
  <2>2. "fetch" \notin {"idle"} /\ "idle" \in {"idle"}
    BY DEF Busy
  <2>3. Cardinality(At(pc', {"idle"})) = Cardinality(At(pc, {"idle"})) + 1
    BY <2>1, <2>2, AtEnter
  <2>4. "fetch" \notin Busy /\ "idle" \notin Busy
    BY DEF Busy
  <2>5. Cardinality(At(pc', Busy)) = Cardinality(At(pc, Busy))
    BY <2>1, <2>4, AtSame, ZenonT(30)
  <2>6. QED
    BY <2>3, <2>5 DEF CountInv, Counts, FetchNone
<1>2. TypeOK'
  BY <1>0, <1>1, AtCount DEF TypeOK, Counts, FetchNone, PCs, Fibers,
     FiberStates, Dead, CurOK, Carries, Job, stopping, Busy
<1>3. CurOK'
  BY <1>0, <1>2 DEF CurOK, Carries, TypeOK, FetchNone, FiberAndThread, Fibers
<1>4. PoolOK'
  BY <1>0, PoolStep DEF TypeOK, FetchNone, PCs
<1>5. QED
  BY <1>1, <1>2, <1>3, <1>4 DEF CountInv

LEMMA CountExit ==
  ASSUME CountInv, NEW t \in RunThreads, Exit(t)
  PROVE  CountInv'
<1>0. TypeOK /\ CurOK /\ PoolOK /\ Counts
  BY DEF CountInv
<1>1. Counts'
  BY CountsStay DEF CountInv, Exit, Busy, PCs
<1>2. TypeOK'
  BY <1>0, <1>1, AtCount DEF TypeOK, Counts, Exit, PCs, Fibers, FiberStates,
     Dead, CurOK, Carries, Job, stopping, Busy
<1>3. CurOK'
  BY <1>0, <1>2 DEF CurOK, Carries, TypeOK, Exit, FiberAndThread, Fibers
<1>4. PoolOK'
  BY <1>0, PoolStep DEF TypeOK, Exit, PCs
<1>5. QED
  BY <1>1, <1>2, <1>3, <1>4 DEF CountInv

LEMMA CountIdle ==
  ASSUME CountInv, NEW t \in RunThreads, Idle(t)
  PROVE  CountInv'
<1>0. TypeOK /\ CurOK /\ PoolOK /\ Counts
  BY DEF CountInv
<1>1. Counts'
  <2>1. pc \in [RunThreads -> PCs] /\ pc[t] = "idle" /\ pc' = [pc EXCEPT ![t] = "fetch"]
    BY DEF CountInv, TypeOK, Idle
  <2>2. "idle" \in {"idle"} /\ "fetch" \notin {"idle"}
    BY DEF Busy
  <2>3. Cardinality(At(pc', {"idle"})) = Cardinality(At(pc, {"idle"})) - 1
    BY <2>1, <2>2, AtLeave
  <2>4. "idle" \notin Busy /\ "fetch" \notin Busy
    BY DEF Busy
  <2>5. Cardinality(At(pc', Busy)) = Cardinality(At(pc, Busy))
    BY <2>1, <2>4, AtSame, ZenonT(30)
  <2>6. QED
    BY <2>3, <2>5 DEF CountInv, Counts, Idle
<1>2. TypeOK'
  BY <1>0, <1>1, AtCount DEF TypeOK, Counts, Idle, PCs, Fibers, FiberStates,
     Dead, CurOK, Carries, Job, stopping, Busy
<1>3. CurOK'
  BY <1>0, <1>2 DEF CurOK, Carries, TypeOK, Idle, FiberAndThread, Fibers
<1>4. PoolOK'
  BY <1>0, PoolStep DEF TypeOK, Idle, PCs
<1>5. QED
  BY <1>1, <1>2, <1>3, <1>4 DEF CountInv

LEMMA CountDispatchFiber ==
  ASSUME CountInv, NEW t \in RunThreads, DispatchFiber(t)
  PROVE  CountInv'
<1>0. TypeOK /\ CurOK /\ PoolOK /\ Counts
  BY DEF CountInv
<1>1. Counts'
  <2>1. pc \in [RunThreads -> PCs] /\ pc[t] = "dispatch"
    BY <1>0 DEF TypeOK, DispatchFiber
  <2>2. CASE m_state[ft[t].fiber] \in Dead
    <3>1. /\ pc' = [pc EXCEPT ![t] = "fetch"]
          /\ m_activeThreadCount' = m_activeThreadCount - 1
          /\ m_idleThreadCount' = m_idleThreadCount
      BY <2>2 DEF DispatchFiber
    <3>2. "dispatch" \in Busy /\ "fetch" \notin Busy
      BY DEF Busy
    <3>3. Cardinality(At(pc', Busy)) = Cardinality(At(pc, Busy)) - 1
      BY <2>1, <3>1, <3>2, AtLeave
    <3>4. Cardinality(At(pc', {"idle"})) = Cardinality(At(pc, {"idle"}))
      BY <2>1, <3>1, AtSame
    <3>5. QED
      BY <1>0, <3>1, <3>3, <3>4 DEF Counts
  <2>3. CASE m_state[ft[t].fiber] \notin Dead
    BY <1>0, <2>3, CountsStay DEF DispatchFiber, swapIn, Busy, PCs
  <2>4. QED
    BY <2>2, <2>3
<1>2. TypeOK'
  <2>1. ft[t].fiber \in Fibers
    BY <1>0 DEF DispatchFiber, TypeOK, FiberAndThread, Fibers
  <2>2. ft' \in [RunThreads -> FiberAndThread]
    BY <1>0, <2>1, EntryTypes DEF DispatchFiber, TypeOK, Fibers
  <2>3. m_state' \in [Fibers -> FiberStates] /\ m_cb' \in [Fibers -> Jobs]
    BY <1>0, <2>1 DEF DispatchFiber, swapIn, TypeOK, FiberStates, Fibers
  <2>4. QED
    BY <1>0, <1>1, AtCount, <2>1, <2>2, <2>3 DEF TypeOK, Counts,
       DispatchFiber, swapIn, PCs, Fibers
<1>3. CurOK'
  BY <1>0, <1>2 DEF CurOK, Carries, TypeOK, DispatchFiber, swapIn,
     FiberAndThread, Fibers
<1>4. PoolOK'
  BY <1>0, PoolStep DEF TypeOK, DispatchFiber, swapIn, PCs
<1>5. QED
  BY <1>1, <1>2, <1>3, <1>4 DEF CountInv

LEMMA CountDispatchCb ==
  ASSUME CountInv, NEW t \in RunThreads, DispatchCb(t)
  PROVE  CountInv'
<1>0. TypeOK /\ CurOK /\ PoolOK /\ Counts
  BY DEF CountInv
<1>1. Counts'
  BY CountsStay DEF CountInv, DispatchCb, swapIn, Busy, PCs
<1>2. TypeOK'
  <2>1. ft[t].cb \in Fibers
    BY <1>0 DEF DispatchCb, TypeOK, FiberAndThread, Fibers
  <2>2. ft' \in [RunThreads -> FiberAndThread]
    BY <1>0, <2>1, EntryTypes DEF DispatchCb, TypeOK, Fibers
  <2>3. m_state' \in [Fibers -> FiberStates] /\ m_cb' \in [Fibers -> Jobs]
    BY <1>0, <2>1 DEF DispatchCb, swapIn, TypeOK, FiberStates, Fibers
  <2>4. QED
    BY <1>0, <1>1, AtCount, <2>1, <2>2, <2>3 DEF TypeOK, Counts, DispatchCb,
       swapIn, PCs, Fibers
<1>3. CurOK'
  BY <1>0, <1>2 DEF CurOK, Carries, TypeOK, DispatchCb, swapIn,
     FiberAndThread, Fibers
<1>4. PoolOK'
  BY <1>0, PoolStep DEF TypeOK, DispatchCb, swapIn, PCs
<1>5. QED
  BY <1>1, <1>2, <1>3, <1>4 DEF CountInv

LEMMA CountSpawn ==
  ASSUME CountInv, NEW t \in RunThreads, Spawn(t)
  PROVE  CountInv'
<1>0. TypeOK /\ CurOK /\ PoolOK /\ Counts
  BY DEF CountInv
<1>1. Counts'
  BY DEF CountInv, Counts, At, Spawn
<1>2. TypeOK'
  BY <1>0, <1>1, AtCount, EntryTypes DEF TypeOK, Counts, Spawn, schedule, PCs,
     Fibers, FiberStates, Dead, CurOK, Carries, Job, stopping, Busy
<1>3. CurOK'
  BY <1>0, <1>2 DEF CurOK, Carries, TypeOK, Spawn, FiberAndThread, Fibers
<1>4. PoolOK'
  BY <1>0 DEF PoolOK, Spawn
<1>5. QED
  BY <1>1, <1>2, <1>3, <1>4 DEF CountInv

LEMMA CountYieldToReady ==
  ASSUME CountInv, NEW t \in RunThreads, YieldToReady(t)
  PROVE  CountInv'
<1>0. TypeOK /\ CurOK /\ PoolOK /\ Counts
  BY DEF CountInv
<1>1. Counts'
  BY CountsStay DEF CountInv, YieldToReady, Busy, PCs
<1>2. TypeOK'
  BY <1>0, <1>1, AtCount DEF TypeOK, Counts, YieldToReady, PCs, Fibers,
     FiberStates, Dead, CurOK, Carries, Job, stopping, Busy
<1>3. CurOK'
  BY <1>0, <1>2 DEF CurOK, Carries, TypeOK, YieldToReady, FiberAndThread,
     Fibers
<1>4. PoolOK'
  BY <1>0, PoolStep DEF TypeOK, YieldToReady, PCs
<1>5. QED
  BY <1>1, <1>2, <1>3, <1>4 DEF CountInv

LEMMA CountArm ==
  ASSUME CountInv, NEW t \in RunThreads, Arm(t)
  PROVE  CountInv'
<1>0. TypeOK /\ CurOK /\ PoolOK /\ Counts
  BY DEF CountInv
<1>1. Counts'
  BY CountsStay DEF CountInv, Arm, Busy, PCs
<1>2. TypeOK'
  BY <1>0, <1>1, AtCount DEF TypeOK, Counts, Arm, PCs, Fibers, FiberStates,
     Dead, CurOK, Carries, Job, stopping, Busy
<1>3. CurOK'
  BY <1>0, <1>2 DEF CurOK, Carries, TypeOK, Arm, FiberAndThread, Fibers
<1>4. PoolOK'
  BY <1>0, PoolStep DEF TypeOK, Arm, PCs
<1>5. QED
  BY <1>1, <1>2, <1>3, <1>4 DEF CountInv

LEMMA CountYieldToHold ==
  ASSUME CountInv, NEW t \in RunThreads, YieldToHold(t)
  PROVE  CountInv'
<1>0. TypeOK /\ CurOK /\ PoolOK /\ Counts
  BY DEF CountInv
<1>1. Counts'
  BY CountsStay DEF CountInv, YieldToHold, Busy, PCs
<1>2. TypeOK'
  BY <1>0, <1>1, AtCount DEF TypeOK, Counts, YieldToHold, PCs, Fibers,
     FiberStates, Dead, CurOK, Carries, Job, stopping, Busy
<1>3. CurOK'
  BY <1>0, <1>2 DEF CurOK, Carries, TypeOK, YieldToHold, FiberAndThread,
     Fibers
<1>4. PoolOK'
  BY <1>0, PoolStep DEF TypeOK, YieldToHold, PCs
<1>5. QED
  BY <1>1, <1>2, <1>3, <1>4 DEF CountInv

LEMMA CountFinish ==
  ASSUME CountInv, NEW t \in RunThreads, Finish(t)
  PROVE  CountInv'
<1>0. TypeOK /\ CurOK /\ PoolOK /\ Counts
  BY DEF CountInv
<1>1. Counts'
  BY CountsStay DEF CountInv, Finish, Busy, PCs
<1>2. TypeOK'
  BY <1>0, <1>1, AtCount DEF TypeOK, Counts, Finish, PCs, Fibers, FiberStates,
     Dead, CurOK, Carries, Job, stopping, Busy
<1>3. CurOK'
  BY <1>0, <1>2 DEF CurOK, Carries, TypeOK, Finish, FiberAndThread, Fibers
<1>4. PoolOK'
  BY <1>0, PoolStep DEF TypeOK, Finish, PCs
<1>5. QED
  BY <1>1, <1>2, <1>3, <1>4 DEF CountInv

LEMMA CountSwapOut ==
  ASSUME CountInv, NEW t \in RunThreads, swapOut(t)
  PROVE  CountInv'
<1>0. TypeOK /\ CurOK /\ PoolOK /\ Counts
  BY DEF CountInv
<1>1. Counts'
  BY CountsStay DEF CountInv, swapOut, Busy, PCs
<1>2. TypeOK'
  BY <1>0, <1>1, AtCount DEF TypeOK, Counts, swapOut, PCs, Fibers,
     FiberStates, Dead, CurOK, Carries, Job, stopping, Busy
<1>3. CurOK'
  BY <1>0, <1>2 DEF CurOK, Carries, TypeOK, swapOut, FiberAndThread, Fibers
<1>4. PoolOK'
  BY <1>0, PoolStep DEF TypeOK, swapOut, PCs
<1>5. QED
  BY <1>1, <1>2, <1>3, <1>4 DEF CountInv

LEMMA CountDeactivate ==
  ASSUME CountInv, NEW t \in RunThreads, Deactivate(t)
  PROVE  CountInv'
<1>0. TypeOK /\ CurOK /\ PoolOK /\ Counts
  BY DEF CountInv
<1>1. Counts'
  <2>1. pc \in [RunThreads -> PCs] /\ pc[t] = "after" /\ pc' = [pc EXCEPT ![t] = "check"]
    BY DEF CountInv, TypeOK, Deactivate
  <2>2. "after" \in Busy /\ "check" \notin Busy
    BY DEF Busy
  <2>3. Cardinality(At(pc', Busy)) = Cardinality(At(pc, Busy)) - 1
    BY <2>1, <2>2, AtLeave
  <2>4. "after" \notin {"idle"} /\ "check" \notin {"idle"}
    BY DEF Busy
  <2>5. Cardinality(At(pc', {"idle"})) = Cardinality(At(pc, {"idle"}))
    BY <2>1, <2>4, AtSame
  <2>6. QED
    BY <2>3, <2>5 DEF CountInv, Counts, Deactivate
<1>2. TypeOK'
  BY <1>0, <1>1, AtCount DEF TypeOK, Counts, Deactivate, PCs, Fibers,
     FiberStates, Dead, CurOK, Carries, Job, stopping, Busy
<1>3. CurOK'
  BY <1>0, <1>2 DEF CurOK, Carries, TypeOK, Deactivate, FiberAndThread, Fibers
<1>4. PoolOK'
  BY <1>0, PoolStep DEF TypeOK, Deactivate, PCs
<1>5. QED
  BY <1>1, <1>2, <1>3, <1>4 DEF CountInv

LEMMA CountRequeue ==
  ASSUME CountInv, NEW t \in RunThreads, Requeue(t)
  PROVE  CountInv'
<1>0. TypeOK /\ CurOK /\ PoolOK /\ Counts
  BY DEF CountInv
<1>1. Counts'
  BY CountsStay DEF CountInv, Requeue, Busy, PCs
<1>2. TypeOK'
  BY <1>0, <1>1, AtCount, EntryTypes DEF TypeOK, Counts, Requeue, schedule,
     PCs, Fibers, FiberStates, Dead, CurOK, Carries, Job, stopping, Busy
<1>3. CurOK'
  BY <1>0, <1>2 DEF CurOK, Carries, TypeOK, Requeue, FiberAndThread, Fibers
<1>4. PoolOK'
  BY <1>0, PoolStep DEF TypeOK, Requeue, PCs
<1>5. QED
  BY <1>1, <1>2, <1>3, <1>4 DEF CountInv

LEMMA CountRetire ==
  ASSUME CountInv, NEW t \in RunThreads, Retire(t)
  PROVE  CountInv'
<1>0. TypeOK /\ CurOK /\ PoolOK /\ Counts
  BY DEF CountInv
<1>1. Counts'
  BY CountsStay DEF CountInv, Retire, Busy, PCs
<1>2. TypeOK'
  BY <1>0, <1>1, AtCount, EntryTypes DEF TypeOK, Counts, Retire, PCs, Fibers,
     FiberStates, Dead, CurOK, Carries, Job, stopping, Busy
<1>3. CurOK'
  BY <1>0, <1>2 DEF CurOK, Carries, TypeOK, Retire, FiberAndThread, Fibers
<1>4. PoolOK'
  BY <1>0, PoolStep DEF TypeOK, Retire, PCs
<1>5. QED
  BY <1>1, <1>2, <1>3, <1>4 DEF CountInv

LEMMA CountHeld ==
  ASSUME CountInv, NEW t \in RunThreads, Held(t)
  PROVE  CountInv'
<1>0. TypeOK /\ CurOK /\ PoolOK /\ Counts
  BY DEF CountInv
<1>1. Counts'
  BY CountsStay DEF CountInv, Held, Busy, PCs
<1>2. TypeOK'
  BY <1>0, <1>1, AtCount DEF TypeOK, Counts, Held, PCs, Fibers, FiberStates,
     Dead, CurOK, Carries, Job, stopping, Busy
<1>3. CurOK'
  BY <1>0, <1>2 DEF CurOK, Carries, TypeOK, Held, FiberAndThread, Fibers
<1>4. PoolOK'
  BY <1>0, PoolStep DEF TypeOK, Held, PCs
<1>5. QED
  BY <1>1, <1>2, <1>3, <1>4 DEF CountInv

LEMMA CountSetHold ==
  ASSUME CountInv, NEW t \in RunThreads, SetHold(t)
  PROVE  CountInv'
<1>0. TypeOK /\ CurOK /\ PoolOK /\ Counts
  BY DEF CountInv
<1>1. Counts'
  BY CountsStay DEF CountInv, SetHold, Busy, PCs
<1>2. TypeOK'
  BY <1>0, <1>1, AtCount, EntryTypes DEF TypeOK, Counts, SetHold, PCs, Fibers,
     FiberStates, Dead, CurOK, Carries, Job, stopping, Busy
<1>3. CurOK'
  BY <1>0, <1>2 DEF CurOK, Carries, TypeOK, SetHold, FiberAndThread, Fibers
<1>4. PoolOK'
  BY <1>0, PoolStep DEF TypeOK, SetHold, PCs
<1>5. QED
  BY <1>1, <1>2, <1>3, <1>4 DEF CountInv

\* Every step of run() preserves the invariant.
LEMMA CountRun ==
  ASSUME CountInv, NEW t \in RunThreads, run(t)
  PROVE  CountInv'
<1>1. CASE Fetch(t)
  BY <1>1, CountFetch
<1>2. CASE FetchNone(t)
  BY <1>2, CountFetchNone
<1>3. CASE Exit(t)
  BY <1>3, CountExit
<1>4. CASE Idle(t)
  BY <1>4, CountIdle
<1>5. CASE DispatchFiber(t)
  BY <1>5, CountDispatchFiber
<1>6. CASE DispatchCb(t)
  BY <1>6, CountDispatchCb
<1>7. CASE Spawn(t)
  BY <1>7, CountSpawn
<1>8. CASE YieldToReady(t)
  BY <1>8, CountYieldToReady
<1>9. CASE Arm(t)
  BY <1>9, CountArm
<1>10. CASE YieldToHold(t)
  BY <1>10, CountYieldToHold
<1>11. CASE Finish(t)
  BY <1>11, CountFinish
<1>12. CASE swapOut(t)
  BY <1>12, CountSwapOut
<1>13. CASE Deactivate(t)
  BY <1>13, CountDeactivate
<1>14. CASE Requeue(t)
  BY <1>14, CountRequeue
<1>15. CASE Retire(t)
  BY <1>15, CountRetire
<1>16. CASE Held(t)
  BY <1>16, CountHeld
<1>17. CASE SetHold(t)
  BY <1>17, CountSetHold
<1>18. QED
  BY <1>1, <1>2, <1>3, <1>4, <1>5, <1>6, <1>7, <1>8, <1>9, <1>10, <1>11,
     <1>12, <1>13, <1>14, <1>15, <1>16, <1>17 DEF run, UserCode

\* A waker or the user thread adds an entry to the list.
LEMMA CountEnqueue ==
  ASSUME CountInv, NEW j \in Jobs, Wake(j) \/ Submit(j)
  PROVE  CountInv'
<1>0. TypeOK /\ CurOK /\ PoolOK /\ Counts
  BY DEF CountInv
<1>1. UNCHANGED <<m_activeThreadCount, m_idleThreadCount, flagVars, fiberVars,
                  runVars, mainVars, finished, parked, yields, aborted>>
  BY DEF Wake, Submit
<1>2. m_fibers' \in Seq(FiberAndThread)
  <2>1. FiberEntry(j, AnyThread) \in FiberAndThread /\ EntryOf(j) \in FiberAndThread
    BY EntryTypes DEF Fibers
  <2>2. m_fibers \in Seq(FiberAndThread)
    BY <1>0 DEF TypeOK
  <2>3. \/ m_fibers' = Append(m_fibers, FiberEntry(j, AnyThread))
        \/ m_fibers' = Append(m_fibers, EntryOf(j))
    BY DEF Wake, Submit, schedule
  <2>4. QED
    BY <2>1, <2>2, <2>3
<1>3. armed' \subseteq Fibers /\ submitted' \subseteq Jobs
  BY <1>0 DEF Wake, Submit, TypeOK
<1>4. TypeOK'
  BY <1>0, <1>1, <1>2, <1>3 DEF TypeOK
<1>5. CurOK' /\ PoolOK' /\ Counts'
  BY <1>0, <1>1 DEF CurOK, PoolOK, Counts, At
<1>6. QED
  BY <1>4, <1>5 DEF CountInv

\* start() finds no thread of the pool, so none of the new ones was counted.
LEMMA CountStart ==
  ASSUME CountInv, start
  PROVE  CountInv'
<1>0. TypeOK /\ CurOK /\ PoolOK /\ Counts
  BY DEF CountInv
<1>1. /\ \A w \in Workers : pc[w] = "off"
      /\ pc' = [t \in RunThreads |-> IF t \in Workers THEN "fetch" ELSE pc[t]]
      /\ Workers \subseteq RunThreads
  BY <1>0 DEF PoolOK, start, RunThreads
<1>2. At(pc', Busy) = At(pc, Busy)
  BY <1>1 DEF At, Busy
<1>3. At(pc', {"idle"}) = At(pc, {"idle"})
  BY <1>1 DEF At
<1>4. Counts'
  BY <1>0, <1>2, <1>3 DEF Counts, start
<1>5. TypeOK'
  <2>1. pc' \in [RunThreads -> PCs]
    BY <1>0, <1>1 DEF TypeOK, PCs
  <2>2. calls' \in [start : Nat, stop : Nat]
    <3>1. calls \in [start : Nat, stop : Nat]
      BY <1>0 DEF TypeOK
    <3>2. calls' = [calls EXCEPT !.start = calls.start + 1]
      BY DEF start
    <3>3. QED
      BY <3>1, <3>2
  <2>3. aborted' \in BOOLEAN
    BY Zenon DEF start
  <2>4. QED
    BY <1>0, <2>1, <2>2, <2>3 DEF TypeOK, start
<1>6. CurOK'
  BY <1>0, <1>1 DEF CurOK, Carries, start
<1>7. PoolOK'
  BY <1>0, <1>1, ThreadsAssumption DEF PoolOK, start, RunThreads
<1>8. QED
  BY <1>4, <1>5, <1>6, <1>7 DEF CountInv

\* The steps of stop() up to the call of the root fiber.
LEMMA CountStop ==
  ASSUME CountInv, stop \/ StopFlag \/ StopNoCall
  PROVE  CountInv'
<1>0. TypeOK /\ CurOK /\ PoolOK /\ Counts
  BY DEF CountInv
<1>1. UNCHANGED <<poolVars, fiberVars, runVars, rootState, jobVars, aborted>>
  BY DEF stop, StopFlag, StopNoCall
<1>2. TypeOK'
  <2>1. calls' \in [start : Nat, stop : Nat]
    BY <1>0 DEF TypeOK, stop, StopFlag, StopNoCall
  <2>2. m_stopping' \in BOOLEAN /\ m_autoStop' \in BOOLEAN
    BY <1>0 DEF TypeOK, stop, StopFlag, StopNoCall
  <2>3. mpc' \in {"user", "stop_flag", "stop_call", "call", "join"}
    BY DEF stop, StopFlag, StopNoCall
  <2>4. QED
    BY <1>0, <1>1, <2>1, <2>2, <2>3 DEF TypeOK
<1>3. CurOK' /\ Counts'
  BY <1>0, <1>1 DEF CurOK, Counts, At
<1>4. PoolOK'
  BY <1>0, <1>1 DEF PoolOK, stop, StopFlag, StopNoCall
<1>5. QED
  BY <1>2, <1>3, <1>4 DEF CountInv

\* Main enters run() from "off" and leaves it for "off".
LEMMA CountCall ==
  ASSUME CountInv, StopCall \/ CallReturn
  PROVE  CountInv'
<1>0. TypeOK /\ CurOK /\ PoolOK /\ Counts
  BY DEF CountInv
<1>1. PICK v \in {"off", "fetch"} : pc' = [pc EXCEPT ![Main] = v]
  BY DEF StopCall, CallReturn
<1>2. v \in PCs /\ v \notin Busy /\ v # "idle" /\ v \notin Carries
  BY DEF PCs, Busy, Carries
<1>3. pc \in [RunThreads -> PCs]
  BY <1>0 DEF TypeOK
<1>4. UNCHANGED <<m_activeThreadCount, m_idleThreadCount>>
  BY DEF StopCall, CallReturn
<1>5. Counts'
  <2>1. CASE Main \in RunThreads
    <3>1. pc[Main] \notin Busy /\ pc[Main] # "idle"
      BY <1>0, <2>1, ThreadsAssumption DEF StopCall, CallReturn, PoolOK, Busy,
         RunThreads
    <3>2. QED
      BY <1>0, <1>1, <1>2, <1>4, <2>1, <3>1, CountsStay
  <2>2. CASE Main \notin RunThreads
    <3>1. pc' = pc
      BY <1>1, <1>3, <2>2
    <3>2. QED
      BY <1>0, <1>4, <3>1 DEF Counts, At
  <2>3. QED
    BY <2>1, <2>2
<1>6. TypeOK'
  BY <1>0, <1>1, <1>2 DEF TypeOK, StopCall, CallReturn
<1>7. CurOK'
  BY <1>0, <1>1, <1>2, <1>3 DEF CurOK, StopCall, CallReturn
<1>8. PoolOK'
  BY <1>0, <1>1, <1>3, ThreadsAssumption DEF PoolOK, StopCall, CallReturn,
     RunThreads
<1>9. QED
  BY <1>5, <1>6, <1>7, <1>8 DEF CountInv

\* join() finds every thread of the pool out of run().
LEMMA CountJoin ==
  ASSUME CountInv, Join
  PROVE  CountInv'
<1>0. TypeOK /\ CurOK /\ PoolOK /\ Counts
  BY DEF CountInv
<1>1. /\ \A w \in Workers : pc[w] \in {"done", "off"}
      /\ pc' = [t \in RunThreads |-> IF t \in Workers THEN "off" ELSE pc[t]]
      /\ Workers \subseteq RunThreads
  BY DEF Join, RunThreads
<1>2. At(pc', Busy) = At(pc, Busy)
  BY <1>1 DEF At, Busy
<1>3. At(pc', {"idle"}) = At(pc, {"idle"})
  BY <1>1 DEF At
<1>4. Counts'
  BY <1>0, <1>2, <1>3 DEF Counts, Join
<1>5. TypeOK'
  <2>1. pc' \in [RunThreads -> PCs]
    BY <1>0, <1>1 DEF TypeOK, PCs
  <2>2. QED
    BY <1>0, <2>1 DEF TypeOK, Join
<1>6. CurOK'
  BY <1>0, <1>1 DEF CurOK, Carries, Join
<1>7. PoolOK'
  BY <1>0, <1>1, ThreadsAssumption DEF PoolOK, Join, RunThreads
<1>8. QED
  BY <1>4, <1>5, <1>6, <1>7 DEF CountInv

LEMMA CountNext == CountInv /\ [Next]_vars => CountInv'
<1> SUFFICES ASSUME CountInv, [Next]_vars PROVE CountInv'
  OBVIOUS
<1>1. CASE \E t \in RunThreads : run(t)
  BY <1>1, CountRun
<1>2. CASE \E j \in Jobs : Wake(j) \/ Submit(j)
  BY <1>2, CountEnqueue
<1>3. CASE start
  BY <1>3, CountStart
<1>4. CASE stop \/ StopFlag \/ StopNoCall
  BY <1>4, CountStop
<1>5. CASE StopCall \/ CallReturn
  BY <1>5, CountCall
<1>6. CASE Join
  BY <1>6, CountJoin
<1>7. CASE UNCHANGED vars
  BY <1>7 DEF CountInv, TypeOK, CurOK, PoolOK, Counts, At, vars
<1>8. QED
  BY <1>1, <1>2, <1>3, <1>4, <1>5, <1>6, <1>7 DEF Next, StopSteps, Fibers

LEMMA CountInvariant == Spec => []CountInv
BY CountInit, CountNext, PTL DEF Spec

\* The variables of the scheduler keep their types; in particular the two
\* unsigned thread counters never wrap below zero.
THEOREM TypeCorrect == Spec => []TypeOK
<1>1. CountInv => TypeOK
  BY DEF CountInv
<1>2. QED
  BY <1>1, CountInvariant, PTL

\* In every pool, for every workload and with wakers that run at any time, the
\* counters stopping() and hasIdleThreads() read are exact.
THEOREM CountersAreExact == Spec => []CountsExact
<1>1. CountInv => CountsExact
  BY CountsAreExact DEF CountInv
<1>2. QED
  BY <1>1, CountInvariant, PTL


-----------------------------------------------------------------------------
(***************************************************************************)
(* Places.  Everything is said of jobs: an entry names the job it is or    *)
(* the job its fiber is bound to, and a thread has the job of the entry it *)
(* has popped or of the fiber it carries.  A fiber in two places would put *)
(* its job in two places.                                                  *)
(***************************************************************************)
OneKind(e) == (e.fiber = None) <=> (e.cb # None)
Holding == Carries \cup {"dispatch"}

On(t, j) == \/ pc[t] = "dispatch" /\ Names(ft[t], j)
            \/ pc[t] \in Carries /\ Job(t) = j

\* An entry is a fiber or a callback.
Shape == /\ \A i \in DOMAIN m_fibers : OneKind(m_fibers[i])
         /\ \A t \in RunThreads : pc[t] \in Holding => OneKind(ft[t])
QueueOnce == \A j \in Jobs : \A i, k \in DOMAIN m_fibers :
                Names(m_fibers[i], j) /\ Names(m_fibers[k], j) => i = k
ThreadOnce == \A j \in Jobs : \A t, u \in RunThreads : On(t, j) /\ On(u, j) => t = u
QueueOrThread == \A j \in Jobs, i \in DOMAIN m_fibers, t \in RunThreads :
                    ~ (Names(m_fibers[i], j) /\ On(t, j))
\* A fiber with a waker is in no list, and on a thread only on its way out.
ArmedOnce == \A f \in armed :
  /\ \A i \in DOMAIN m_fibers : ~ Names(m_fibers[i], m_cb[f])
  /\ \A t \in RunThreads : On(t, m_cb[f]) => pc[t] \in Carries \ {"exec"} /\ cur[t] = f
  /\ \A g \in armed : m_cb[g] = m_cb[f] => g = f

Places == Shape /\ QueueOnce /\ ThreadOnce /\ QueueOrThread /\ ArmedOnce

(***************************************************************************)
(* Fiber objects.  A thread's cb_fiber is the fiber it carries for a       *)
(* callback, or spare: in no place, ready for reset().  The object named   *)
(* after a callback is not used before the callback is dispatched.         *)
(***************************************************************************)
Spare(f) == /\ m_state[f] = "INIT" /\ f \notin armed
            /\ \A i \in DOMAIN m_fibers : m_fibers[i].fiber # f
            /\ \A t \in RunThreads : /\ pc[t] = "dispatch" => ft[t].fiber # f
                                     /\ pc[t] \in Carries => cur[t] # f
Unused(j) == Spare(j) /\ m_cb[j] = j /\ \A t \in RunThreads : cb_fiber[t] # j
InCb(t) == pc[t] \in Carries /\ ByCb(t)

CbFibers ==
  /\ \A t, u \in RunThreads : cb_fiber[t] # None /\ cb_fiber[t] = cb_fiber[u] => t = u
  /\ \A t \in RunThreads : InCb(t) => cb_fiber[t] = cur[t]
  /\ \A t \in RunThreads : ~ InCb(t) /\ cb_fiber[t] # None => Spare(cb_fiber[t])
NewFibers ==
  /\ \A j \in Jobs \ submitted : Unused(j)
  /\ \A i \in DOMAIN m_fibers : m_fibers[i].cb # None => Unused(m_fibers[i].cb)
  /\ \A t \in RunThreads : pc[t] = "dispatch" /\ ft[t].cb # None => Unused(ft[t].cb)

(***************************************************************************)
(* States.  m_state is written and read without a lock; what a thread may  *)
(* find there at each point.                                               *)
(***************************************************************************)
CarriedState == \A t \in RunThreads :
  /\ pc[t] \in {"exec", "arming"} => m_state[cur[t]] = "EXEC"
  /\ pc[t] \in {"yielded", "after", "check"} => m_state[cur[t]] \in Dead \cup {"READY", "HOLD"}
  /\ pc[t] = "sethold" => m_state[cur[t]] = "HOLD"
\* A fiber that is on its way to HOLD has a waker.
ParkedIsArmed == \A t \in RunThreads :
  /\ pc[t] = "exec" => cur[t] \notin armed
  /\ pc[t] \in Carries /\ (pc[t] = "arming" \/ m_state[cur[t]] = "HOLD") => cur[t] \in armed
ExecIsCarried == \A f \in Fibers : m_state[f] = "EXEC" =>
  \E t \in RunThreads : pc[t] \in {"exec", "arming"} /\ cur[t] = f
NotDead ==
  /\ \A t \in RunThreads :
       pc[t] = "dispatch" /\ ft[t].fiber # None => m_state[ft[t].fiber] \notin Dead
  /\ \A i \in DOMAIN m_fibers :
       m_fibers[i].fiber # None => m_state[m_fibers[i].fiber] \notin Dead
ArmedState == \A f \in armed : m_state[f] \in {"EXEC", "HOLD"}

States == CarriedState /\ ParkedIsArmed /\ ExecIsCarried /\ NotDead /\ ArmedState

(***************************************************************************)
(* Work: what is in a place has been submitted and not finished, and what  *)
(* is not finished is in a place.                                          *)
(***************************************************************************)
QueuedWork == \A j \in Jobs, i \in DOMAIN m_fibers :
                 Names(m_fibers[i], j) => j \in submitted \ finished
ThreadWork ==
  /\ \A j \in Jobs, t \in RunThreads : On(t, j) => j \in submitted
  /\ \A j \in Jobs, t \in RunThreads : pc[t] = "dispatch" /\ Names(ft[t], j) => j \notin finished
  /\ \A t \in RunThreads :
        pc[t] \in Carries => (Job(t) \in finished <=> m_state[cur[t]] \in Dead)
ArmedWork == \A f \in armed : m_cb[f] \in (submitted \ finished) \cap parked
NotLost == \A j \in submitted \ finished :
        \/ \E i \in DOMAIN m_fibers : Names(m_fibers[i], j)
        \/ \E t \in RunThreads : On(t, j)
        \/ \E f \in armed : m_cb[f] = j

Work == QueuedWork /\ ThreadWork /\ ArmedWork /\ NotLost /\ finished \subseteq submitted

SafeInv == Places /\ CbFibers /\ NewFibers /\ States /\ Work

LEMMA SafeInit == Init => SafeInv
<1> SUFFICES ASSUME Init PROVE SafeInv
  OBVIOUS
<1>1. /\ DOMAIN m_fibers = {} /\ armed = {} /\ submitted = {}
      /\ \A t \in RunThreads : pc[t] = "off" /\ cb_fiber[t] = None
      /\ \A f \in Jobs : m_state[f] = "INIT" /\ m_cb[f] = f
  BY DEF Init, Fibers
<1>2. \A t \in RunThreads : pc[t] \notin Holding /\ pc[t] \notin Carries /\ pc[t] # "dispatch"
  BY <1>1 DEF Holding, Carries
<1>3. Places
  BY <1>1, <1>2 DEF Places, Shape, QueueOnce, ThreadOnce, QueueOrThread, ArmedOnce, On
<1>4. CbFibers
  BY <1>1, <1>2 DEF CbFibers, InCb
<1>5. NewFibers
  BY <1>1, <1>2, JobsAssumption DEF NewFibers, Unused, Spare
<1>6. States
  BY <1>1, <1>2, Zenon DEF States, CarriedState, ParkedIsArmed, ExecIsCarried, NotDead, ArmedState,
      Carries, Fibers
<1>7. Work
  BY <1>1, <1>2 DEF Work, QueuedWork, ThreadWork, ArmedWork, NotLost, On, Init
<1>8. QED
  BY <1>3, <1>4, <1>5, <1>6, <1>7 DEF SafeInv

-----------------------------------------------------------------------------
(***************************************************************************)
(* Steps outside of fibers: a thread that has no entry stays without one.  *)
(***************************************************************************)
LEMMA SafeOutside ==
  ASSUME SafeInv, CountInv,
         UNCHANGED <<m_fibers, m_state, m_cb, ft, cur, armed, submitted, finished, parked>>,
         \A t \in RunThreads : \/ pc'[t] = pc[t]
                               \/ pc[t] \notin Holding /\ pc'[t] \notin Holding,
         \A t \in RunThreads : \/ cb_fiber'[t] = cb_fiber[t]
                               \/ pc[t] \notin Holding /\ cb_fiber'[t] = None
  PROVE  SafeInv'
<1>1. \A t \in RunThreads : /\ pc'[t] \in Holding <=> pc[t] \in Holding
                            /\ pc[t] \in Holding => pc'[t] = pc[t]
  OBVIOUS
<1>2. \A t \in RunThreads : /\ pc'[t] \in Carries <=> pc[t] \in Carries
                            /\ pc'[t] = "dispatch" <=> pc[t] = "dispatch"
                            /\ pc[t] \in Carries \cup {"dispatch"} => pc'[t] = pc[t]
  BY <1>1 DEF Holding, Carries
<1>3. \A t \in RunThreads, j \in Jobs : On(t, j)' <=> On(t, j)
  BY <1>2 DEF On, Names, Job
<1>4. \A f : /\ Spare(f) => Spare(f)'
             /\ Unused(f) /\ f # None => Unused(f)'
  BY <1>2 DEF Spare, Unused
<1>5. Places'
  <2>1. Shape' /\ QueueOnce' /\ ThreadOnce' /\ QueueOrThread'
    BY <1>2, <1>3 DEF SafeInv, Places, Shape, QueueOnce, ThreadOnce, QueueOrThread, Names, Holding,
       OneKind
  <2>2. ArmedOnce'
    BY <1>2, <1>3 DEF SafeInv, Places, ArmedOnce, On, Names, Job
  <2>3. QED
    BY <2>1, <2>2 DEF Places
<1>6. CbFibers'
  BY <1>2, <1>4 DEF SafeInv, CbFibers, InCb, ByCb, Holding, Spare
<1>7. NewFibers'
  <2>1. \A j \in Jobs : j # None
    BY JobsAssumption
  <2>2. ASSUME NEW j \in Jobs \ submitted PROVE Unused(j)'
    BY <1>4, <2>1 DEF SafeInv, NewFibers
  <2>3. ASSUME NEW i \in DOMAIN m_fibers, NEW j, j = m_fibers[i].cb, j # None PROVE Unused(j)'
    BY <1>4, <2>3 DEF SafeInv, NewFibers
  <2>4. ASSUME NEW t \in RunThreads, pc'[t] = "dispatch", NEW j, j = ft[t].cb, j # None
        PROVE  Unused(j)'
    BY <1>2, <1>4, <2>4 DEF SafeInv, NewFibers
  <2>5. QED
    BY <2>2, <2>3, <2>4 DEF NewFibers, Unused, Spare
<1>8. States'
  BY <1>2 DEF SafeInv, States, CarriedState, ParkedIsArmed, ExecIsCarried, NotDead, ArmedState,
     Carries
<1>9. Work'
  <2>1. QueuedWork' /\ ArmedWork'
    BY DEF SafeInv, Work, QueuedWork, ArmedWork, Names
  <2>2. ThreadWork'
    BY <1>2, <1>3 DEF SafeInv, Work, ThreadWork, Names, Job
  <2>3. NotLost'
    <3>1. submitted' \subseteq Jobs
      BY DEF CountInv, TypeOK
    <3>2. QED
      BY <1>3, <3>1 DEF SafeInv, Work, NotLost, Names
  <2>4. finished' \subseteq submitted'
    BY DEF SafeInv, Work
  <2>5. QED
    BY <2>1, <2>2, <2>3, <2>4 DEF Work
<1>10. QED
  BY <1>5, <1>6, <1>7, <1>8, <1>9 DEF SafeInv

-----------------------------------------------------------------------------
\* What an entry may name.
LEMMA EntryParts ==
  ASSUME CountInv
  PROVE  /\ \A i \in DOMAIN m_fibers : /\ m_fibers[i] \in FiberAndThread
                                       /\ m_fibers[i].cb # None => m_fibers[i].cb \in Jobs
                                       /\ m_fibers[i].fiber # None => m_fibers[i].fiber \in Jobs
         /\ \A t \in RunThreads : /\ ft[t] \in FiberAndThread
                                  /\ ft[t].cb # None => ft[t].cb \in Jobs
                                  /\ ft[t].fiber # None => ft[t].fiber \in Jobs
<1>1. ASSUME NEW i \in DOMAIN m_fibers PROVE m_fibers[i] \in FiberAndThread
  <2>1. m_fibers \in Seq(FiberAndThread)
    BY DEF CountInv, TypeOK
  <2>2. i \in 1 .. Len(m_fibers)
    BY <2>1, <1>1
  <2>3. QED
    BY <2>1, <2>2
<1>2. \A t \in RunThreads : ft[t] \in FiberAndThread
  BY DEF CountInv, TypeOK
<1>3. \A e \in FiberAndThread : /\ e.cb # None => e.cb \in Jobs
                                /\ e.fiber # None => e.fiber \in Jobs
  BY DEF FiberAndThread, Fibers
<1>4. QED
  BY <1>1, <1>2, <1>3

\* The fiber a thread carries is in no other place.
LEMMA CarriedAlone ==
  ASSUME SafeInv, CountInv, NEW t \in RunThreads, pc[t] \in Carries
  PROVE  /\ cur[t] \in Jobs /\ cur[t] # None /\ Job(t) \in Jobs /\ On(t, Job(t))
         /\ pc[t] # "dispatch"
         /\ \A i \in DOMAIN m_fibers : m_fibers[i].fiber # cur[t] /\ ~ Names(m_fibers[i], Job(t))
         /\ \A u \in RunThreads : u # t =>
              /\ ~ On(u, Job(t))
              /\ pc[u] = "dispatch" => ft[u].fiber # cur[t]
              /\ pc[u] \in Carries => cur[u] # cur[t] /\ Job(u) # Job(t)
         /\ \A f \in armed : f # cur[t] => m_cb[f] # Job(t)
<1>1. /\ cur[t] \in Jobs /\ cur[t] # None /\ Job(t) \in Jobs /\ pc[t] # "dispatch"
  BY JobsAssumption DEF CountInv, CurOK, TypeOK, Fibers, Job, Carries
<1>2. On(t, Job(t))
  BY DEF On
<1>3. \A i \in DOMAIN m_fibers : ~ Names(m_fibers[i], Job(t))
  BY <1>1, <1>2 DEF SafeInv, Places, QueueOrThread
<1>4. \A i \in DOMAIN m_fibers : m_fibers[i].fiber # cur[t]
  BY <1>1, <1>3 DEF Names, Job
<1>5. \A u \in RunThreads : u # t => ~ On(u, Job(t))
  BY <1>1, <1>2 DEF SafeInv, Places, ThreadOnce
<1>6. \A u \in RunThreads : u # t =>
         /\ pc[u] = "dispatch" => ft[u].fiber # cur[t]
         /\ pc[u] \in Carries => cur[u] # cur[t] /\ Job(u) # Job(t)
  BY <1>1, <1>5 DEF On, Names, Job
<1>7. \A f \in armed : f # cur[t] => m_cb[f] # Job(t)
  BY <1>1, <1>2 DEF SafeInv, Places, ArmedOnce
<1>8. QED
  BY <1>1, <1>2, <1>3, <1>4, <1>5, <1>6, <1>7

(***************************************************************************)
(* Steps of the thread that carries a fiber, up to the test of its state:  *)
(* the fiber stays where it is.                                            *)
(***************************************************************************)
LEMMA SafeInStep ==
  ASSUME SafeInv, CountInv, NEW t \in RunThreads, pc[t] \in Carries,
         NEW v \in Carries \ {"exec"}, NEW s \in FiberStates,
         UNCHANGED <<m_fibers, m_cb, ft, cb_fiber, cur, submitted>>,
         pc' = [pc EXCEPT ![t] = v],
         m_state' = [m_state EXCEPT ![cur[t]] = s],
         armed' \in {armed, armed \cup {cur[t]}},
         finished' = IF s \in Dead THEN finished \cup {Job(t)} ELSE finished,
         parked' \in {parked, parked \cup {Job(t)}},
         v = "arming" <=> s = "EXEC",
         v = "sethold" => s = "HOLD",
         v \notin {"arming", "sethold"} => s \in Dead \cup {"READY", "HOLD"},
         cur[t] \in armed' <=> s \in {"EXEC", "HOLD"},
         cur[t] \in armed' => cur[t] \in armed \/ Job(t) \in parked',
         s \notin Dead => m_state[cur[t]] \notin Dead
  PROVE  SafeInv'
<1>a. cur[t] \in Jobs /\ cur[t] # None /\ Job(t) \in Jobs /\ On(t, Job(t)) /\ pc[t] # "dispatch"
  BY CarriedAlone
<1>b. \A i \in DOMAIN m_fibers : m_fibers[i].fiber # cur[t] /\ ~ Names(m_fibers[i], Job(t))
  BY CarriedAlone
<1>c. \A u \in RunThreads : u # t =>
              /\ ~ On(u, Job(t))
              /\ pc[u] = "dispatch" => ft[u].fiber # cur[t]
              /\ pc[u] \in Carries => cur[u] # cur[t] /\ Job(u) # Job(t)
  BY CarriedAlone
<1>d. \A f \in armed : f # cur[t] => m_cb[f] # Job(t)
  BY CarriedAlone
<1>1. /\ \A u \in RunThreads : u # t => pc'[u] = pc[u]
      /\ pc'[t] = v /\ pc'[t] \in Carries /\ v # "exec" /\ v # "dispatch"
  BY DEF CountInv, TypeOK, Carries
<1>2. /\ \A f \in Jobs : f # cur[t] => m_state'[f] = m_state[f]
      /\ m_state'[cur[t]] = s
      /\ m_state[cur[t]] # "INIT"
  BY <1>a DEF CountInv, TypeOK, Fibers, SafeInv, States, CarriedState, Carries, Dead
<1>3. \A u \in RunThreads : /\ pc'[u] \in Carries <=> pc[u] \in Carries
                            /\ pc'[u] = "dispatch" <=> pc[u] = "dispatch"
  BY <1>1, <1>a
<1>4. \A u \in RunThreads, j \in Jobs : On(u, j)' <=> On(u, j)
  BY <1>3 DEF On, Names, Job
<1>5. \A f \in Jobs : /\ Spare(f) => Spare(f)'
                      /\ Unused(f) => Unused(f)'
  BY <1>2, <1>3 DEF Spare, Unused
<1>6. Places'
  <2>1. Shape' /\ QueueOnce' /\ ThreadOnce' /\ QueueOrThread'
    BY <1>1, <1>3, <1>4 DEF SafeInv, Places, Shape, QueueOnce, ThreadOnce, QueueOrThread, Names, Holding,
       OneKind
  <2>2. ASSUME NEW f \in armed'
        PROVE  /\ \A i \in DOMAIN m_fibers : ~ Names(m_fibers[i], m_cb[f])
               /\ \A u \in RunThreads : On(u, m_cb[f]) => pc'[u] \in Carries \ {"exec"} /\ cur[u] = f
               /\ \A g \in armed' : m_cb[g] = m_cb[f] => g = f
    <3>1. CASE f \in armed
      BY <1>1, <1>d, <3>1 DEF SafeInv, Places, ArmedOnce, Job
    <3>2. CASE f = cur[t]
      BY <1>1, <1>a, <1>b, <1>c, <1>d, <3>2 DEF Job
    <3>3. QED
      BY <3>1, <3>2
  <2>3. armed' \subseteq Jobs /\ \A f \in armed' : m_cb[f] \in Jobs
    BY <1>a DEF CountInv, TypeOK, Fibers
  <2>4. ArmedOnce'
    BY <1>4, <2>2, <2>3 DEF ArmedOnce, Names
  <2>5. QED
    BY <2>1, <2>4 DEF Places
<1>7. CbFibers'
  <2>1. \A u \in RunThreads : cb_fiber[u] # None => cb_fiber[u] \in Jobs
    BY DEF CountInv, TypeOK, Fibers
  <2>2. QED
    BY <1>3, <1>5, <2>1 DEF SafeInv, CbFibers, InCb, ByCb
<1>8. NewFibers'
  <2>1. /\ \A i \in DOMAIN m_fibers : m_fibers[i].cb # None => m_fibers[i].cb \in Jobs
        /\ \A u \in RunThreads : ft[u].cb # None => ft[u].cb \in Jobs
    BY EntryParts
  <2>2. QED
    BY <1>3, <1>5, <2>1 DEF SafeInv, NewFibers
<1>9. States'
  <2>1. CarriedState'
    BY <1>1, <1>2, <1>3, <1>a, <1>c DEF SafeInv, States, CarriedState, Carries, CountInv, CurOK, Fibers
  <2>2. ParkedIsArmed'
    BY <1>1, <1>2, <1>3, <1>a, <1>c DEF SafeInv, States, ParkedIsArmed, Carries, CountInv, CurOK, Fibers
  <2>3. ExecIsCarried'
    BY <1>1, <1>2, <1>3, <1>a, <1>c DEF SafeInv, States, ExecIsCarried, Carries, Fibers
  <2>4. NotDead'
    BY <1>1, <1>2, <1>3, <1>a, <1>b, <1>c DEF SafeInv, States, NotDead, CountInv, TypeOK, FiberAndThread, Fibers
  <2>5. ArmedState'
    BY <1>2, <1>a DEF SafeInv, States, ArmedState, CountInv, TypeOK, Fibers
  <2>6. QED
    BY <2>1, <2>2, <2>3, <2>4, <2>5 DEF States
<1>10. Work'
  <2>1. QueuedWork'
    BY <1>b DEF SafeInv, Work, QueuedWork, Names
  <2>2. ThreadWork'
    <3>1. \A j \in Jobs, u \in RunThreads : On(u, j)' => j \in submitted'
      BY <1>4 DEF SafeInv, Work, ThreadWork
    <3>2. \A j \in Jobs, u \in RunThreads : pc'[u] = "dispatch" /\ Names(ft[u], j) => j \notin finished'
      BY <1>3, <1>a, <1>c DEF SafeInv, Work, ThreadWork, On
    <3>3. \A u \in RunThreads : pc'[u] \in Carries => (Job(u) \in finished' <=> m_state'[cur[u]] \in Dead)
      <4>1. ASSUME NEW u \in RunThreads, u # t, pc[u] \in Carries
            PROVE  Job(u) \in finished' <=> m_state'[cur[u]] \in Dead
        BY <1>2, <1>c, <4>1 DEF SafeInv, Work, ThreadWork, CountInv, CurOK, Fibers
      <4>2. Job(t) \in finished' <=> m_state'[cur[t]] \in Dead
        BY <1>2 DEF SafeInv, Work, ThreadWork
      <4>3. QED
        BY <1>3, <4>1, <4>2
    <3>4. QED
      BY <3>1, <3>2, <3>3 DEF ThreadWork, Names, Job
  <2>3. ArmedWork'
    <3>1. ASSUME NEW f \in armed', f # cur[t] PROVE m_cb[f] \in (submitted \ finished') \cap parked'
      BY <1>d, <3>1 DEF SafeInv, Work, ArmedWork
    <3>2. ASSUME cur[t] \in armed' PROVE Job(t) \in (submitted \ finished') \cap parked'
      <4>1. s \notin Dead /\ Job(t) \notin finished
        BY <3>2 DEF Dead, SafeInv, Work, ThreadWork
      <4>2. Job(t) \in submitted
        BY <1>a DEF SafeInv, Work, ThreadWork
      <4>3. Job(t) \in parked'
        BY <3>2 DEF SafeInv, Work, ArmedWork, Job
      <4>4. QED
        BY <4>1, <4>2, <4>3
    <3>3. QED
      BY <3>1, <3>2 DEF ArmedWork, Job
  <2>4. NotLost'
    <3>1. submitted' \subseteq Jobs /\ finished \subseteq finished' /\ armed \subseteq armed'
      BY DEF CountInv, TypeOK
    <3>2. QED
      BY <1>4, <3>1 DEF SafeInv, Work, NotLost, Names
  <2>5. finished' \subseteq submitted'
    <3>1. Job(t) \in submitted
      BY <1>a DEF SafeInv, Work, ThreadWork
    <3>2. QED
      BY <3>1 DEF SafeInv, Work
  <2>6. QED
    BY <2>1, <2>2, <2>3, <2>4, <2>5 DEF Work
<1>11. QED
  BY <1>6, <1>7, <1>8, <1>9, <1>10 DEF SafeInv

-----------------------------------------------------------------------------
(***************************************************************************)
(* The list: taking one entry out, and putting one at the end.             *)
(***************************************************************************)
\* The entries that are left are the others, each once.
LEMMA RemoveAtMap ==
  ASSUME NEW S, NEW s \in Seq(S), NEW i \in DOMAIN s
  PROVE  \E h \in [DOMAIN RemoveAt(s, i) -> DOMAIN s \ {i}] :
            /\ \A k, l \in DOMAIN RemoveAt(s, i) : h[k] = h[l] => k = l
            /\ \A k \in DOMAIN RemoveAt(s, i) : RemoveAt(s, i)[k] = s[h[k]]
            /\ \A l \in DOMAIN s \ {i} : \E k \in DOMAIN RemoveAt(s, i) : h[k] = l
<1> DEFINE r == RemoveAt(s, i)
<1>1. Len(s) \in Nat /\ i \in 1 .. Len(s) /\ DOMAIN s = 1 .. Len(s)
  OBVIOUS
<1>2. /\ SubSeq(s, 1, i - 1) \in Seq(S) /\ Len(SubSeq(s, 1, i - 1)) = i - 1
      /\ \A k \in 1 .. i - 1 : SubSeq(s, 1, i - 1)[k] = s[k]
  BY <1>1
<1>3. /\ SubSeq(s, i + 1, Len(s)) \in Seq(S) /\ Len(SubSeq(s, i + 1, Len(s))) = Len(s) - i
      /\ \A k \in 1 .. Len(s) - i : SubSeq(s, i + 1, Len(s))[k] = s[k + i]
  BY <1>1
<1>4. DOMAIN r = 1 .. Len(s) - 1
  BY <1>1, <1>2, <1>3 DEF RemoveAt
<1>5. \A k \in 1 .. Len(s) - 1 : r[k] = IF k < i THEN s[k] ELSE s[k + 1]
  <2> DEFINE a == SubSeq(s, 1, i - 1)
             b == SubSeq(s, i + 1, Len(s))
  <2>1. r = a \o b
    BY DEF RemoveAt
  <2>2. a \in Seq(S) /\ b \in Seq(S) /\ Len(a) = i - 1 /\ Len(b) = Len(s) - i
    BY <1>2, <1>3
  <2>3. /\ \A k \in 1 .. i - 1 : a[k] = s[k]
        /\ \A k \in 1 .. Len(s) - i : b[k] = s[k + i]
    BY <1>2, <1>3
  <2> HIDE DEF a, b, r
  <2>4. \A k \in 1 .. Len(s) - 1 : r[k] = IF k < i THEN a[k] ELSE b[k - (i - 1)]
    BY <1>1, <2>1, <2>2
  <2>5. ASSUME NEW k \in 1 .. Len(s) - 1 PROVE r[k] = IF k < i THEN s[k] ELSE s[k + 1]
    <3>1. CASE k < i
      BY <1>1, <2>3, <2>4, <3>1
    <3>2. CASE ~ (k < i)
      <4>1. k - (i - 1) \in 1 .. Len(s) - i /\ (k - (i - 1)) + i = k + 1
        BY <1>1, <3>2
      <4>2. QED
        BY <2>3, <2>4, <3>2, <4>1
    <3>3. QED
      BY <3>1, <3>2
  <2>6. QED
    BY <2>5
<1> DEFINE g == [k \in 1 .. Len(s) - 1 |-> IF k < i THEN k ELSE k + 1]
<1> HIDE DEF r
<1>6. /\ g \in [1 .. Len(s) - 1 -> DOMAIN s \ {i}]
      /\ \A k, l \in 1 .. Len(s) - 1 : g[k] = g[l] => k = l
      /\ \A k \in 1 .. Len(s) - 1 : r[k] = s[g[k]]
  BY <1>1, <1>5
<1>7. \A l \in DOMAIN s \ {i} : \E k \in 1 .. Len(s) - 1 : g[k] = l
  <2> SUFFICES ASSUME NEW l \in DOMAIN s \ {i} PROVE \E k \in 1 .. Len(s) - 1 : g[k] = l
    OBVIOUS
  <2>1. CASE l < i
    <3>1. l \in 1 .. Len(s) - 1 /\ g[l] = l
      BY <1>1, <2>1
    <3>2. QED
      BY <3>1
  <2>2. CASE l > i
    <3>1. l - 1 \in 1 .. Len(s) - 1 /\ g[l - 1] = l
      BY <1>1, <2>2
    <3>2. QED
      BY <3>1
  <2>3. QED
    BY <1>1, <2>1, <2>2
<1> HIDE DEF g
<1>8. \E h \in [DOMAIN r -> DOMAIN s \ {i}] :
            /\ \A k, l \in DOMAIN r : h[k] = h[l] => k = l
            /\ \A k \in DOMAIN r : r[k] = s[h[k]]
            /\ \A l \in DOMAIN s \ {i} : \E k \in DOMAIN r : h[k] = l
  <2>1. g \in [DOMAIN r -> DOMAIN s \ {i}]
    BY <1>4, <1>6
  <2> WITNESS g \in [DOMAIN r -> DOMAIN s \ {i}]
  <2>2. QED
    BY <1>4, <1>6, <1>7
<1>9. QED
  BY <1>8 DEF r

\* The list with one entry more.
LEMMA AppendMap ==
  ASSUME NEW S, NEW s \in Seq(S), NEW e \in S
  PROVE  \E n : /\ n \notin DOMAIN s
                /\ DOMAIN Append(s, e) = DOMAIN s \cup {n}
                /\ \A i \in DOMAIN s : Append(s, e)[i] = s[i]
                /\ Append(s, e)[n] = e
<1> DEFINE n == Len(s) + 1
<1>1. /\ n \notin DOMAIN s
      /\ DOMAIN Append(s, e) = DOMAIN s \cup {n}
      /\ \A i \in DOMAIN s : Append(s, e)[i] = s[i]
      /\ Append(s, e)[n] = e
  OBVIOUS
<1> HIDE DEF n
<1>2. QED
  BY <1>1

\* A thread takes an entry: the jobs it names move from the list to it.
LEMMA SafeFetch ==
  ASSUME SafeInv, CountInv, NEW t \in RunThreads, Fetch(t)
  PROVE  SafeInv'
<1>1. PICK i \in DOMAIN m_fibers : /\ ft' = [ft EXCEPT ![t] = m_fibers[i]]
                                   /\ m_fibers' = RemoveAt(m_fibers, i)
  BY DEF Fetch
<1>2. PICK h \in [DOMAIN m_fibers' -> DOMAIN m_fibers \ {i}] :
            /\ \A k, l \in DOMAIN m_fibers' : h[k] = h[l] => k = l
            /\ \A k \in DOMAIN m_fibers' : m_fibers'[k] = m_fibers[h[k]]
            /\ \A l \in DOMAIN m_fibers \ {i} : \E k \in DOMAIN m_fibers' : h[k] = l
  <2>1. m_fibers \in Seq(FiberAndThread)
    BY DEF CountInv, TypeOK
  <2>2. QED
    BY <1>1, <2>1, RemoveAtMap
<1>3. UNCHANGED <<m_state, m_cb, cur, cb_fiber, armed, submitted, finished, parked>>
  BY DEF Fetch
<1>4. /\ pc[t] = "fetch" /\ pc'[t] = "dispatch" /\ ft'[t] = m_fibers[i]
      /\ pc[t] \notin Carries /\ pc'[t] \notin Carries /\ pc[t] \notin Holding
      /\ \A u \in RunThreads : u # t => pc'[u] = pc[u] /\ ft'[u] = ft[u]
  BY <1>1 DEF Fetch, CountInv, TypeOK, Carries, Holding
<1>5. \A u \in RunThreads : pc'[u] \in Carries <=> pc[u] \in Carries
  BY <1>4
<1>6. \A u \in RunThreads, j \in Jobs : On(u, j)' <=> On(u, j) \/ (u = t /\ Names(m_fibers[i], j))
  BY <1>3, <1>4, <1>5 DEF On, Names, Job
<1>7. \A k \in DOMAIN m_fibers' : h[k] \in DOMAIN m_fibers /\ h[k] # i
  BY <1>2
<1>8. \A k \in DOMAIN m_fibers', j \in Jobs : Names(m_fibers[k], j)' <=> Names(m_fibers[h[k]], j)
  BY <1>2, <1>3 DEF Names
<1>9. \A f : /\ Spare(f) => Spare(f)'
             /\ Unused(f) => Unused(f)'
  BY <1>2, <1>3, <1>4, <1>5, <1>7 DEF Spare, Unused
<1>10. Places'
  <2>1. Shape'
    BY <1>2, <1>4, <1>7 DEF SafeInv, Places, Shape, OneKind, Holding
  <2>2. QueueOnce'
    BY <1>2, <1>7, <1>8 DEF SafeInv, Places, QueueOnce
  <2>3. ThreadOnce'
    BY <1>6 DEF SafeInv, Places, ThreadOnce, QueueOrThread
  <2>4. QueueOrThread'
    BY <1>6, <1>7, <1>8 DEF SafeInv, Places, QueueOnce, QueueOrThread
  <2>5. ArmedOnce'
    <3>1. ASSUME NEW f \in armed
          PROVE  /\ \A k \in DOMAIN m_fibers' : ~ Names(m_fibers[k], m_cb[f])'
                 /\ \A u \in RunThreads : On(u, m_cb[f])' => pc[u] \in Carries \ {"exec"} /\ cur[u] = f
                 /\ \A g \in armed : m_cb[g] = m_cb[f] => g = f
      <4>1. m_cb[f] \in Jobs
        BY DEF CountInv, TypeOK, Fibers
      <4>2. \A k \in DOMAIN m_fibers : ~ Names(m_fibers[k], m_cb[f])
        BY DEF SafeInv, Places, ArmedOnce
      <4>3. \A u \in RunThreads : On(u, m_cb[f]) => pc[u] \in Carries \ {"exec"} /\ cur[u] = f
        BY DEF SafeInv, Places, ArmedOnce
      <4>4. \A u \in RunThreads : On(u, m_cb[f])' <=> On(u, m_cb[f]) \/ (u = t /\ Names(m_fibers[i], m_cb[f]))
        BY <1>3, <1>4, <1>5 DEF On, Names, Job
      <4>5. \A k \in DOMAIN m_fibers' : Names(m_fibers[k], m_cb[f])' <=> Names(m_fibers[h[k]], m_cb[f])
        BY <1>2, <1>3 DEF Names
      <4>6. QED
        BY <1>7, <4>2, <4>3, <4>4, <4>5 DEF SafeInv, Places, ArmedOnce
    <3>2. QED
      BY <1>3, <1>4, <1>5, <3>1 DEF ArmedOnce, On, Names, Job
  <2>6. QED
    BY <2>1, <2>2, <2>3, <2>4, <2>5 DEF Places
<1>11. CbFibers'
  BY <1>3, <1>4, <1>5, <1>9 DEF SafeInv, CbFibers, InCb, ByCb
<1>12. NewFibers'
  BY <1>2, <1>3, <1>4, <1>7, <1>9 DEF SafeInv, NewFibers
<1>13. States'
  <2>1. CarriedState' /\ ParkedIsArmed' /\ ExecIsCarried' /\ ArmedState'
    BY <1>3, <1>4, <1>5 DEF SafeInv, States, CarriedState, ParkedIsArmed, ExecIsCarried, ArmedState
  <2>2. NotDead'
    BY <1>2, <1>3, <1>4, <1>7 DEF SafeInv, States, NotDead
  <2>3. QED
    BY <2>1, <2>2 DEF States
<1>14. Work'
  <2>1. QueuedWork' /\ ArmedWork'
    BY <1>3, <1>7, <1>8 DEF SafeInv, Work, QueuedWork, ArmedWork
  <2>2. ThreadWork'
    BY <1>3, <1>4, <1>5, <1>6 DEF SafeInv, Work, ThreadWork, QueuedWork, Names, Job
  <2>3. NotLost'
    <3>1. ASSUME NEW j \in submitted \ finished
          PROVE  \/ \E k \in DOMAIN m_fibers' : Names(m_fibers[k], j)'
                 \/ \E u \in RunThreads : On(u, j)'
                 \/ \E f \in armed : m_cb[f] = j
      <4>1. j \in Jobs
        BY DEF CountInv, TypeOK
      <4>2. CASE \E l \in DOMAIN m_fibers \ {i} : Names(m_fibers[l], j)
        BY <1>2, <1>8, <4>1, <4>2
      <4>3. CASE Names(m_fibers[i], j)
        BY <1>6, <4>1, <4>3
      <4>4. CASE \E u \in RunThreads : On(u, j)
        BY <1>6, <4>1, <4>4
      <4>5. QED
        BY <4>2, <4>3, <4>4 DEF SafeInv, Work, NotLost
    <3>2. QED
      BY <1>3, <3>1 DEF NotLost
  <2>4. finished' \subseteq submitted'
    BY <1>3 DEF SafeInv, Work
  <2>5. QED
    BY <2>1, <2>2, <2>3, <2>4 DEF Work
<1>15. QED
  BY <1>10, <1>11, <1>12, <1>13, <1>14 DEF SafeInv

-----------------------------------------------------------------------------
(***************************************************************************)
(* Dispatching: the job stays on the thread, now in a fiber.               *)
(***************************************************************************)
\* What a thread may assume of the fiber it has popped.
LEMMA PoppedFiber ==
  ASSUME SafeInv, CountInv, NEW t \in RunThreads, pc[t] = "dispatch",
         NEW f, f = ft[t].fiber, f # None
  PROVE  /\ f \in Jobs /\ m_cb[f] \in Jobs /\ ft[t].cb = None
         /\ \A j \in Jobs : On(t, j) <=> j = m_cb[f]
         /\ f \notin armed
         /\ m_state[f] \notin Dead /\ m_state[f] # "EXEC"
         /\ \A i \in DOMAIN m_fibers : m_fibers[i].fiber # f
         /\ \A u \in RunThreads : u # t =>
              /\ pc[u] = "dispatch" => ft[u].fiber # f
              /\ pc[u] \in Carries => cur[u] # f
         /\ m_cb[f] \in submitted \ finished
<1>1. f \in Jobs /\ m_cb[f] \in Jobs
  BY EntryParts DEF CountInv, TypeOK, Fibers
<1>2. ft[t].cb = None
  BY DEF SafeInv, Places, Shape, OneKind, Holding
<1>3. pc[t] \notin Carries
  BY DEF Carries
<1>4. \A j \in Jobs : On(t, j) <=> j = m_cb[f]
  BY <1>2, <1>3, JobsAssumption DEF On, Names
<1>5. \A i \in DOMAIN m_fibers : m_fibers[i].fiber # f
  BY <1>1, <1>4 DEF SafeInv, Places, QueueOrThread, Names
<1>6. \A u \in RunThreads : u # t => ~ On(u, m_cb[f])
  BY <1>1, <1>4 DEF SafeInv, Places, ThreadOnce
<1>7. \A u \in RunThreads : u # t =>
         /\ pc[u] = "dispatch" => ft[u].fiber # f
         /\ pc[u] \in Carries => cur[u] # f
  BY <1>6 DEF On, Names, Job
<1>8. f \notin armed
  BY <1>1, <1>3, <1>4 DEF SafeInv, Places, ArmedOnce
<1>9. m_state[f] \notin Dead
  BY DEF SafeInv, States, NotDead
<1>10. m_state[f] # "EXEC"
  BY <1>1, <1>7 DEF SafeInv, States, ExecIsCarried, Fibers, Carries
<1>11. m_cb[f] \in submitted \ finished
  BY <1>1, <1>4 DEF SafeInv, Work, ThreadWork, Names
<1>12. QED
  BY <1>1, <1>2, <1>4, <1>5, <1>7, <1>8, <1>9, <1>10, <1>11

\* A fiber is swapped in: it was not running, and it was not dead.
LEMMA SafeDispatchFiber ==
  ASSUME SafeInv, CountInv, NEW t \in RunThreads, DispatchFiber(t)
  PROVE  SafeInv' /\ ~ aborted'
<1> DEFINE f == ft[t].fiber
<1>0. pc[t] = "dispatch" /\ f # None
  BY DEF DispatchFiber
<1>a. /\ f \in Jobs /\ m_cb[f] \in Jobs /\ ft[t].cb = None
      /\ \A j \in Jobs : On(t, j) <=> j = m_cb[f]
      /\ f \notin armed
      /\ m_state[f] \notin Dead /\ m_state[f] # "EXEC"
      /\ m_cb[f] \in submitted \ finished
  BY <1>0, PoppedFiber
<1>b. \A i \in DOMAIN m_fibers : m_fibers[i].fiber # f
  BY <1>0, PoppedFiber
<1>c. \A u \in RunThreads : u # t =>
         /\ pc[u] = "dispatch" => ft[u].fiber # f
         /\ pc[u] \in Carries => cur[u] # f
  BY <1>0, PoppedFiber
<1>1. /\ UNCHANGED <<m_fibers, m_cb, ft, cb_fiber, armed, submitted, finished, parked>>
      /\ aborted' = FALSE
      /\ cur' = [cur EXCEPT ![t] = f]
      /\ m_state' = [m_state EXCEPT ![f] = "EXEC"]
      /\ pc' = [pc EXCEPT ![t] = "exec"]
  BY <1>a DEF DispatchFiber, swapIn
<1> HIDE DEF f
<1>2. /\ pc'[t] = "exec" /\ cur'[t] = f /\ "exec" \in Carries /\ pc[t] \notin Carries
      /\ \A u \in RunThreads : u # t => pc'[u] = pc[u] /\ cur'[u] = cur[u]
  BY <1>0, <1>1 DEF CountInv, TypeOK, Carries
<1>3. /\ m_state'[f] = "EXEC"
      /\ \A g \in Jobs : g # f => m_state'[g] = m_state[g]
  BY <1>1, <1>a DEF CountInv, TypeOK, Fibers
<1>4. ASSUME NEW u \in RunThreads, NEW j \in Jobs PROVE On(u, j)' <=> On(u, j)
  <2>1. CASE u = t
    BY <1>1, <1>2, <1>a, <2>1 DEF On, Job
  <2>2. CASE u # t
    BY <1>1, <1>2, <2>2 DEF On, Names, Job
  <2>3. QED
    BY <2>1, <2>2
<1>5. ft[t].fiber = f
  BY DEF f
<1>6. \A g \in Jobs : /\ Spare(g) => Spare(g)'
                      /\ Unused(g) => Unused(g)'
  BY <1>0, <1>1, <1>2, <1>3, <1>5 DEF Spare, Unused
<1>7. Places'
  <2>1. Shape' /\ QueueOnce' /\ ThreadOnce' /\ QueueOrThread'
    BY <1>0, <1>1, <1>2, <1>4 DEF SafeInv, Places, Shape, QueueOnce, ThreadOnce, QueueOrThread, Names,
       Holding, OneKind
  <2>2. \A g \in armed : m_cb[g] \in Jobs /\ ~ On(t, m_cb[g])
    BY <1>2 DEF SafeInv, Places, ArmedOnce, CountInv, TypeOK, Fibers
  <2>3. ArmedOnce'
    BY <1>1, <1>2, <1>4, <2>2 DEF SafeInv, Places, ArmedOnce, Names
  <2>4. QED
    BY <2>1, <2>3 DEF Places
<1>8. CbFibers'
  <2>1. \A u \in RunThreads : cb_fiber[u] # None => cb_fiber[u] \in Jobs
    BY DEF CountInv, TypeOK, Fibers
  <2>2. QED
    BY <1>1, <1>2, <1>6, <1>a, <2>1 DEF SafeInv, CbFibers, InCb, ByCb
<1>9. NewFibers'
  <2>1. /\ \A i \in DOMAIN m_fibers : m_fibers[i].cb # None => m_fibers[i].cb \in Jobs
        /\ \A u \in RunThreads : ft[u].cb # None => ft[u].cb \in Jobs
    BY EntryParts
  <2>2. QED
    BY <1>1, <1>2, <1>6, <2>1 DEF SafeInv, NewFibers
<1>10. States'
  <2>1. CarriedState'
    BY <1>1, <1>2, <1>3, <1>c DEF SafeInv, States, CarriedState, Carries, CountInv, CurOK, Fibers
  <2>2. ParkedIsArmed'
    BY <1>1, <1>2, <1>3, <1>a, <1>c DEF SafeInv, States, ParkedIsArmed, CountInv, CurOK, Fibers
  <2>3. ExecIsCarried'
    <3>1. ASSUME NEW g \in Jobs, m_state'[g] = "EXEC"
          PROVE  \E u \in RunThreads : pc'[u] \in {"exec", "arming"} /\ cur'[u] = g
      <4>1. CASE g = f
        BY <1>2, <4>1
      <4>2. CASE g # f
        <5>1. PICK u \in RunThreads : pc[u] \in {"exec", "arming"} /\ cur[u] = g
          BY <1>3, <3>1, <4>2 DEF SafeInv, States, ExecIsCarried, Fibers
        <5>2. u # t
          BY <1>0, <5>1
        <5>3. QED
          BY <1>2, <5>1, <5>2
      <4>3. QED
        BY <4>1, <4>2
    <3>2. QED
      BY <3>1 DEF ExecIsCarried, Fibers
  <2>4. NotDead'
    <3>1. \A i \in DOMAIN m_fibers : m_fibers[i].fiber # None => m_fibers[i].fiber \in Jobs
      BY EntryParts
    <3>2. \A u \in RunThreads : ft[u].fiber # None => ft[u].fiber \in Jobs
      BY EntryParts
    <3>3. QED
      <4>1. ASSUME NEW u \in RunThreads, pc'[u] = "dispatch", NEW g, g = ft[u].fiber, g # None
            PROVE  m_state'[g] \notin Dead
        <5>1. u # t /\ pc[u] = "dispatch"
          BY <1>2, <4>1
        <5>2. g \in Jobs /\ g # f
          BY <1>c, <3>2, <4>1, <5>1
        <5>3. m_state[g] \notin Dead
          BY <4>1, <5>1 DEF SafeInv, States, NotDead
        <5>4. QED
          BY <1>3, <5>2, <5>3
      <4>2. \A i \in DOMAIN m_fibers :
               m_fibers[i].fiber # None => m_state'[m_fibers[i].fiber] \notin Dead
        BY <1>3, <1>b, <3>1 DEF SafeInv, States, NotDead
      <4>3. QED
        BY <1>1, <4>1, <4>2 DEF NotDead
  <2>5. ArmedState'
    BY <1>1, <1>3, <1>a DEF SafeInv, States, ArmedState, CountInv, TypeOK, Fibers
  <2>6. QED
    BY <2>1, <2>2, <2>3, <2>4, <2>5 DEF States
<1>11. Work'
  <2>1. QueuedWork' /\ ArmedWork'
    BY <1>1 DEF SafeInv, Work, QueuedWork, ArmedWork, Names
  <2>2. ThreadWork'
    <3>1. \A j \in Jobs, u \in RunThreads : On(u, j)' => j \in submitted
      BY <1>4 DEF SafeInv, Work, ThreadWork
    <3>2. \A j \in Jobs, u \in RunThreads : pc'[u] = "dispatch" /\ Names(ft[u], j) => j \notin finished
      BY <1>2 DEF SafeInv, Work, ThreadWork
    <3>3. \A u \in RunThreads :
             pc'[u] \in Carries => (m_cb[cur'[u]] \in finished <=> m_state'[cur'[u]] \in Dead)
      BY <1>2, <1>3, <1>a, <1>c DEF SafeInv, Work, ThreadWork, Job, Dead, CountInv, CurOK, Fibers
    <3>4. QED
      BY <1>1, <3>1, <3>2, <3>3 DEF ThreadWork, Names, Job
  <2>3. NotLost'
    <3>1. submitted \subseteq Jobs
      BY DEF CountInv, TypeOK
    <3>2. QED
      BY <1>1, <1>4, <3>1 DEF SafeInv, Work, NotLost, Names
  <2>4. finished' \subseteq submitted'
    BY <1>1 DEF SafeInv, Work
  <2>5. QED
    BY <2>1, <2>2, <2>3, <2>4 DEF Work
<1>12. QED
  BY <1>1, <1>7, <1>8, <1>9, <1>10, <1>11 DEF SafeInv

\* A callback is swapped in: its fiber is the thread's spare one or a new one.
LEMMA SafeDispatchCb ==
  ASSUME SafeInv, CountInv, NEW t \in RunThreads, DispatchCb(t)
  PROVE  SafeInv' /\ ~ aborted'
<1> DEFINE c == ft[t].cb
           f == IF cb_fiber[t] # None THEN cb_fiber[t] ELSE c
<1>0. pc[t] = "dispatch" /\ c # None
  BY DEF DispatchCb
<1>1. /\ UNCHANGED <<m_fibers, ft, armed, submitted, finished, parked>>
      /\ aborted' = (m_state[f] \notin Dead \cup {"INIT"})
      /\ m_cb' = [m_cb EXCEPT ![f] = c]
      /\ cb_fiber' = [cb_fiber EXCEPT ![t] = f]
      /\ cur' = [cur EXCEPT ![t] = f]
      /\ m_state' = [m_state EXCEPT ![f] = "EXEC"]
      /\ pc' = [pc EXCEPT ![t] = "exec"]
  BY DEF DispatchCb, swapIn
<1>2. /\ pc[t] \notin Carries /\ ~ InCb(t)
      /\ \A u \in RunThreads : pc[u] = "dispatch" => pc[u] \notin Carries
  BY <1>0 DEF Carries, InCb
<1>3. /\ c \in Jobs /\ ft[t].fiber = None /\ Names(ft[t], c)
      /\ \A j \in Jobs : On(t, j) <=> j = c
  <2>1. c \in Jobs
    BY <1>0, EntryParts
  <2>2. ft[t].fiber = None
    BY <1>0 DEF SafeInv, Places, Shape, OneKind, Holding
  <2>3. QED
    BY <1>0, <1>2, <2>1, <2>2 DEF On, Names
<1>4. Unused(c)
  BY <1>0 DEF SafeInv, NewFibers
<1>5. /\ f \in Jobs /\ Spare(f)
      /\ \A u \in RunThreads : u # t => cb_fiber[u] # f
  <2>1. CASE cb_fiber[t] # None
    <3>1. f = cb_fiber[t]
      BY <2>1
    <3>2. f \in Jobs
      BY <2>1, <3>1 DEF CountInv, TypeOK, Fibers
    <3>3. Spare(f)
      BY <1>2, <2>1, <3>1 DEF SafeInv, CbFibers
    <3>4. \A u \in RunThreads : u # t => cb_fiber[u] # f
      BY <2>1, <3>1 DEF SafeInv, CbFibers
    <3>5. QED
      BY <3>2, <3>3, <3>4
  <2>2. CASE cb_fiber[t] = None
    BY <1>3, <1>4, <2>2 DEF Unused
  <2>3. QED
    BY <2>1, <2>2
<1>6. f = c \/ f = cb_fiber[t]
  OBVIOUS
<1>7. ft[t].cb = c
  OBVIOUS
<1> HIDE DEF c, f
<1>8. ~ aborted'
  BY <1>1, <1>5 DEF Spare
<1>9. /\ pc'[t] = "exec" /\ cur'[t] = f /\ cb_fiber'[t] = f /\ "exec" \in Carries
      /\ \A u \in RunThreads : u # t => pc'[u] = pc[u] /\ cur'[u] = cur[u] /\ cb_fiber'[u] = cb_fiber[u]
  BY <1>1 DEF CountInv, TypeOK, Carries
<1>10. /\ m_state'[f] = "EXEC" /\ m_cb'[f] = c
       /\ \A g \in Jobs : g # f => m_state'[g] = m_state[g] /\ m_cb'[g] = m_cb[g]
  BY <1>1, <1>5 DEF CountInv, TypeOK, Fibers
<1>11. /\ f \notin armed
       /\ \A i \in DOMAIN m_fibers : m_fibers[i].fiber # f
       /\ \A u \in RunThreads : pc[u] = "dispatch" => ft[u].fiber # f
       /\ \A u \in RunThreads : pc[u] \in Carries => cur[u] # f /\ cur[u] \in Jobs
  BY <1>5 DEF Spare, CountInv, CurOK, Fibers
<1>12. /\ \A i \in DOMAIN m_fibers, j \in Jobs : Names(m_fibers[i], j)' <=> Names(m_fibers[i], j)
       /\ \A u \in RunThreads, j \in Jobs :
             pc[u] = "dispatch" => (Names(ft[u], j)' <=> Names(ft[u], j))
  <2>1. /\ \A i \in DOMAIN m_fibers : m_fibers[i].fiber # None => m_fibers[i].fiber \in Jobs
        /\ \A u \in RunThreads : ft[u].fiber # None => ft[u].fiber \in Jobs
    BY EntryParts
  <2>2. QED
    BY <1>1, <1>10, <1>11, <2>1 DEF Names
<1>13. ASSUME NEW u \in RunThreads, NEW j \in Jobs PROVE On(u, j)' <=> On(u, j)
  <2>1. CASE u = t
    BY <1>3, <1>9, <1>10, <2>1 DEF On, Job
  <2>2. CASE u # t
    <3>1. pc'[u] = "dispatch" /\ Names(ft[u], j)' <=> pc[u] = "dispatch" /\ Names(ft[u], j)
      BY <1>9, <1>12, <2>2
    <3>2. pc'[u] \in Carries /\ m_cb'[cur'[u]] = j <=> pc[u] \in Carries /\ m_cb[cur[u]] = j
      BY <1>9, <1>10, <1>11, <2>2
    <3>3. QED
      BY <3>1, <3>2 DEF On, Job
  <2>3. QED
    BY <2>1, <2>2
<1>14. \A g \in armed : g \in Jobs /\ g # f /\ m_cb'[g] = m_cb[g] /\ m_cb[g] \in Jobs
  BY <1>10, <1>11 DEF CountInv, TypeOK, Fibers
<1>15. \A g \in Jobs : Spare(g) /\ g # f => Spare(g)'
  BY <1>0, <1>1, <1>2, <1>9, <1>10 DEF Spare
<1>16. \A g \in Jobs : Unused(g) /\ g # c => Unused(g)'
  <2> SUFFICES ASSUME NEW g \in Jobs, Unused(g), g # c PROVE Unused(g)'
    OBVIOUS
  <2>1. g # f
    BY <1>6 DEF Unused
  <2>2. Spare(g)'
    BY <1>15, <2>1 DEF Unused
  <2>3. m_cb'[g] = g /\ \A u \in RunThreads : cb_fiber'[u] # g
    BY <1>9, <1>10, <2>1 DEF Unused
  <2>4. QED
    BY <2>2, <2>3 DEF Unused
<1>17. Places'
  <2>1. Shape'
    BY <1>0, <1>1, <1>9 DEF SafeInv, Places, Shape, OneKind, Holding
  <2>2. QueueOnce' /\ ThreadOnce' /\ QueueOrThread'
    BY <1>1, <1>12, <1>13 DEF SafeInv, Places, QueueOnce, ThreadOnce, QueueOrThread
  <2>3. ASSUME NEW g \in armed
        PROVE  /\ \A i \in DOMAIN m_fibers : ~ Names(m_fibers[i], m_cb[g])'
               /\ \A u \in RunThreads : On(u, m_cb[g])' => pc'[u] \in Carries \ {"exec"} /\ cur'[u] = g
               /\ \A h \in armed : m_cb'[h] = m_cb'[g] => h = g
    <3>1. PICK j \in Jobs : j = m_cb[g] /\ j = m_cb'[g]
      BY <1>14
    <3>a. /\ \A i \in DOMAIN m_fibers : ~ Names(m_fibers[i], j)
          /\ \A u \in RunThreads : On(u, j) => pc[u] \in Carries \ {"exec"} /\ cur[u] = g
      <4>1. /\ \A i \in DOMAIN m_fibers : ~ Names(m_fibers[i], m_cb[g])
            /\ \A u \in RunThreads : On(u, m_cb[g]) => pc[u] \in Carries \ {"exec"} /\ cur[u] = g
        BY DEF SafeInv, Places, ArmedOnce
      <4>2. QED
        BY <3>1, <4>1 DEF Names, On, Job
    <3>2. \A i \in DOMAIN m_fibers : ~ Names(m_fibers[i], j)'
      BY <1>12, <3>a
    <3>3. \A u \in RunThreads : On(u, j)' => pc[u] \in Carries \ {"exec"} /\ cur[u] = g
      BY <1>13, <3>a
    <3>4. \A u \in RunThreads : On(u, j)' => pc'[u] \in Carries \ {"exec"} /\ cur'[u] = g
      BY <1>0, <1>2, <1>9, <3>3
    <3>5. \A h \in armed : m_cb'[h] = m_cb'[g] => h = g
      BY <1>14 DEF SafeInv, Places, ArmedOnce
    <3>6. QED
      BY <3>1, <3>2, <3>4, <3>5 DEF Names, On, Job
  <2>4. ArmedOnce'
    BY <1>1, <2>3 DEF ArmedOnce, Names, On, Job
  <2>5. QED
    BY <2>1, <2>2, <2>4 DEF Places
<1>18. CbFibers'
  <2>1. \A u \in RunThreads : cb_fiber[u] # None => cb_fiber[u] \in Jobs
    BY DEF CountInv, TypeOK, Fibers
  <2>2. \A u, w \in RunThreads : cb_fiber'[u] # None /\ cb_fiber'[u] = cb_fiber'[w] => u = w
    BY <1>5, <1>9 DEF SafeInv, CbFibers
  <2>3. \A u \in RunThreads : InCb(u)' => cb_fiber'[u] = cur'[u]
    BY <1>1, <1>9 DEF SafeInv, CbFibers, InCb, ByCb
  <2>4. ASSUME NEW u \in RunThreads, ~ InCb(u)', NEW g, g = cb_fiber'[u], g # None PROVE Spare(g)'
    <3>1. u # t
      BY <1>0, <1>1, <1>7, <1>9, <2>4 DEF InCb, ByCb
    <3>2. ~ InCb(u) /\ g = cb_fiber[u] /\ g # f
      BY <1>1, <1>5, <1>9, <2>4, <3>1 DEF InCb, ByCb
    <3>3. Spare(g) /\ g \in Jobs
      BY <2>1, <2>4, <3>2 DEF SafeInv, CbFibers
    <3>4. QED
      BY <1>15, <3>2, <3>3
  <2>5. QED
    BY <2>2, <2>3, <2>4 DEF CbFibers, Spare
<1>19. NewFibers'
  <2>1. \A j \in Jobs \ submitted : Unused(j)'
    <3>1. c \in submitted
      BY <1>3 DEF SafeInv, Work, ThreadWork
    <3>2. QED
      BY <1>16, <3>1 DEF SafeInv, NewFibers
  <2>2. ASSUME NEW i \in DOMAIN m_fibers, NEW j, j = m_fibers[i].cb, j # None PROVE Unused(j)'
    <3>1. j \in Jobs /\ Names(m_fibers[i], j)
      BY <2>2, EntryParts DEF Names
    <3>2. j # c
      BY <1>3, <3>1 DEF SafeInv, Places, QueueOrThread
    <3>3. Unused(j)
      BY <2>2 DEF SafeInv, NewFibers
    <3>4. QED
      BY <1>16, <3>1, <3>2, <3>3
  <2>3. ASSUME NEW u \in RunThreads, pc'[u] = "dispatch", NEW j, j = ft[u].cb, j # None PROVE Unused(j)'
    <3>1. u # t /\ pc[u] = "dispatch"
      BY <1>9, <2>3
    <3>2. j \in Jobs /\ On(u, j)
      BY <2>3, <3>1, EntryParts DEF On, Names
    <3>3. j # c
      BY <1>3, <3>1, <3>2 DEF SafeInv, Places, ThreadOnce
    <3>4. Unused(j)
      BY <2>3, <3>1 DEF SafeInv, NewFibers
    <3>5. QED
      BY <1>16, <3>2, <3>3, <3>4
  <2>4. QED
    BY <1>1, <2>1, <2>2, <2>3 DEF NewFibers, Unused, Spare
<1>20. States'
  <2>1. CarriedState'
    BY <1>9, <1>10, <1>11 DEF SafeInv, States, CarriedState, Carries
  <2>2. ParkedIsArmed'
    BY <1>1, <1>9, <1>10, <1>11 DEF SafeInv, States, ParkedIsArmed
  <2>3. ExecIsCarried'
    <3>1. ASSUME NEW g \in Jobs, m_state'[g] = "EXEC"
          PROVE  \E u \in RunThreads : pc'[u] \in {"exec", "arming"} /\ cur'[u] = g
      <4>1. CASE g = f
        BY <1>9, <4>1
      <4>2. CASE g # f
        <5>1. PICK u \in RunThreads : pc[u] \in {"exec", "arming"} /\ cur[u] = g
          BY <1>10, <3>1, <4>2 DEF SafeInv, States, ExecIsCarried, Fibers
        <5>2. u # t
          BY <1>0, <5>1
        <5>3. QED
          BY <1>9, <5>1, <5>2
      <4>3. QED
        BY <4>1, <4>2
    <3>2. QED
      BY <3>1 DEF ExecIsCarried, Fibers
  <2>4. NotDead'
    <3>1. /\ \A i \in DOMAIN m_fibers : m_fibers[i].fiber # None => m_fibers[i].fiber \in Jobs
          /\ \A u \in RunThreads : ft[u].fiber # None => ft[u].fiber \in Jobs
      BY EntryParts
    <3>2. \A u \in RunThreads :
             pc'[u] = "dispatch" /\ ft[u].fiber # None => m_state'[ft[u].fiber] \notin Dead
      BY <1>9, <1>10, <1>11, <3>1 DEF SafeInv, States, NotDead
    <3>3. \A i \in DOMAIN m_fibers :
             m_fibers[i].fiber # None => m_state'[m_fibers[i].fiber] \notin Dead
      BY <1>10, <1>11, <3>1 DEF SafeInv, States, NotDead
    <3>4. QED
      BY <1>1, <3>2, <3>3 DEF NotDead
  <2>5. ArmedState'
    BY <1>1, <1>10, <1>14 DEF SafeInv, States, ArmedState
  <2>6. QED
    BY <2>1, <2>2, <2>3, <2>4, <2>5 DEF States
<1>21. Work'
  <2>1. QueuedWork'
    BY <1>1, <1>12 DEF SafeInv, Work, QueuedWork
  <2>2. ThreadWork'
    <3>1. \A j \in Jobs, u \in RunThreads : On(u, j)' => j \in submitted
      BY <1>13 DEF SafeInv, Work, ThreadWork
    <3>2. \A j \in Jobs, u \in RunThreads : pc'[u] = "dispatch" /\ Names(ft[u], j)' => j \notin finished
      BY <1>9, <1>12 DEF SafeInv, Work, ThreadWork
    <3>3. c \notin finished
      BY <1>0, <1>3 DEF SafeInv, Work, ThreadWork
    <3>4. \A u \in RunThreads :
             pc'[u] \in Carries => (m_cb'[cur'[u]] \in finished <=> m_state'[cur'[u]] \in Dead)
      BY <1>9, <1>10, <1>11, <3>3 DEF SafeInv, Work, ThreadWork, Job, Dead
    <3>5. QED
      BY <1>1, <3>1, <3>2, <3>4 DEF ThreadWork, Job
  <2>3. ArmedWork'
    BY <1>1, <1>14 DEF SafeInv, Work, ArmedWork
  <2>4. NotLost'
    <3>1. submitted \subseteq Jobs
      BY DEF CountInv, TypeOK
    <3>2. QED
      BY <1>1, <1>12, <1>13, <1>14, <3>1 DEF SafeInv, Work, NotLost
  <2>5. finished' \subseteq submitted'
    BY <1>1 DEF SafeInv, Work
  <2>6. QED
    BY <2>1, <2>2, <2>3, <2>4, <2>5 DEF Work
<1>22. QED
  BY <1>8, <1>17, <1>18, <1>19, <1>20, <1>21 DEF SafeInv

-----------------------------------------------------------------------------
(***************************************************************************)
(* Scheduling: an entry is put at the end of the list.                     *)
(***************************************************************************)
\* A job is submitted for the first time; it is in no place yet.
LEMMA SafeSubmit ==
  ASSUME SafeInv, CountInv, NEW k \in Jobs \ submitted, schedule(EntryOf(k)),
         submitted' = submitted \cup {k},
         UNCHANGED <<m_state, m_cb, pc, ft, cb_fiber, cur, armed, finished, parked>>
  PROVE  SafeInv'
<1> DEFINE e == EntryOf(k)
<1>1. PICK n : /\ n \notin DOMAIN m_fibers
               /\ DOMAIN m_fibers' = DOMAIN m_fibers \cup {n}
               /\ \A i \in DOMAIN m_fibers : m_fibers'[i] = m_fibers[i]
               /\ m_fibers'[n] = e
  <2>1. m_fibers \in Seq(FiberAndThread) /\ e \in FiberAndThread /\ m_fibers' = Append(m_fibers, e)
    BY EntryTypes DEF CountInv, TypeOK, schedule, Fibers
  <2>2. QED
    BY <2>1, AppendMap
<1>2. Unused(k)
  BY DEF SafeInv, NewFibers
<1>3. /\ k \in Jobs /\ k # None /\ k \notin submitted
      /\ m_cb[k] = k /\ m_state[k] = "INIT"
  BY <1>2, JobsAssumption DEF Unused, Spare
<1>4. /\ e.fiber \in {None, k} /\ e.cb \in {None, k}
      /\ OneKind(e) /\ \A j \in Jobs : Names(e, j) <=> j = k
      /\ e.cb = k => e.fiber = None
  BY <1>3, JobsAssumption DEF EntryOf, FiberEntry, CbEntry, OneKind, Names
<1> HIDE DEF e
<1>5. /\ \A i \in DOMAIN m_fibers : ~ Names(m_fibers[i], k)
      /\ \A t \in RunThreads : ~ On(t, k)
      /\ \A f \in armed : m_cb[f] # k
  BY <1>3 DEF SafeInv, Work, QueuedWork, ThreadWork, ArmedWork
<1>6. /\ \A i \in DOMAIN m_fibers, j \in Jobs : Names(m_fibers[i], j)' <=> Names(m_fibers[i], j)
      /\ \A j \in Jobs : Names(m_fibers[n], j)' <=> j = k
      /\ \A t \in RunThreads, j \in Jobs : On(t, j)' <=> On(t, j)
  <2>1. \A i \in DOMAIN m_fibers, j \in Jobs : Names(m_fibers[i], j)' <=> Names(m_fibers[i], j)
    BY <1>1 DEF Names
  <2>2. \A j \in Jobs : Names(m_fibers[n], j)' <=> Names(e, j)
    BY <1>1 DEF Names
  <2>3. \A t \in RunThreads, j \in Jobs : On(t, j)' <=> On(t, j)
    BY DEF On, Names, Job
  <2>4. QED
    BY <1>4, <2>1, <2>2, <2>3
<1>7. \A f \in Jobs : Spare(f) /\ f # k => Spare(f)'
  BY <1>1, <1>3, <1>4, JobsAssumption DEF Spare
<1>8. \A f \in Jobs : Unused(f) /\ f # k => Unused(f)'
  BY <1>7 DEF Unused
<1>9. Places'
  <2>1. Shape'
    BY <1>1, <1>4 DEF SafeInv, Places, Shape, OneKind
  <2>2. QueueOnce'
    BY <1>1, <1>5, <1>6 DEF SafeInv, Places, QueueOnce
  <2>3. ThreadOnce' /\ QueueOrThread'
    BY <1>1, <1>5, <1>6 DEF SafeInv, Places, ThreadOnce, QueueOrThread
  <2>4. ArmedOnce'
    <3>1. \A f \in armed : m_cb[f] \in Jobs
      BY DEF CountInv, TypeOK, Fibers
    <3>2. \A f \in armed, i \in DOMAIN m_fibers' : ~ Names(m_fibers'[i], m_cb[f])
      <4>1. \A f \in armed, i \in DOMAIN m_fibers : ~ Names(m_fibers[i], m_cb[f])
        BY DEF SafeInv, Places, ArmedOnce
      <4>2. \A f \in armed : ~ Names(e, m_cb[f])
        BY <1>4, <1>5, <3>1
      <4>3. QED
        BY <1>1, <4>1, <4>2
    <3>3. QED
      BY <3>1, <3>2 DEF SafeInv, Places, ArmedOnce, Names, On, Job
  <2>5. QED
    BY <2>1, <2>2, <2>3, <2>4 DEF Places
<1>10. CbFibers'
  <2>1. \A t \in RunThreads : cb_fiber[t] # None => cb_fiber[t] \in Jobs /\ cb_fiber[t] # k
    BY <1>2 DEF CountInv, TypeOK, Fibers, Unused
  <2>2. QED
    BY <1>7, <2>1 DEF SafeInv, CbFibers, InCb, ByCb
<1>11. NewFibers'
  <2>1. \A j \in Jobs \ submitted' : Unused(j)'
    BY <1>8 DEF SafeInv, NewFibers
  <2>2. ASSUME NEW i \in DOMAIN m_fibers', NEW j, j = m_fibers'[i].cb, j # None PROVE Unused(j)'
    <3>1. CASE i \in DOMAIN m_fibers
      <4>1. j = m_fibers[i].cb /\ j \in Jobs /\ Names(m_fibers[i], j)
        BY <1>1, <2>2, <3>1, EntryParts DEF Names
      <4>2. j # k
        BY <1>5, <3>1, <4>1
      <4>3. Unused(j)
        BY <2>2, <3>1, <4>1 DEF SafeInv, NewFibers
      <4>4. QED
        BY <1>8, <4>1, <4>2, <4>3
    <3>2. CASE i = n
      <4>1. j = k /\ e.fiber = None
        BY <1>1, <1>4, <2>2, <3>2
      <4>2. Spare(k)'
        BY <1>1, <1>2, <1>3, <4>1 DEF Spare, Unused
      <4>3. Unused(k)'
        BY <1>2, <4>2 DEF Unused
      <4>4. QED
        BY <4>1, <4>3
    <3>3. QED
      BY <1>1, <3>1, <3>2
  <2>3. ASSUME NEW t \in RunThreads, pc[t] = "dispatch", NEW j, j = ft[t].cb, j # None PROVE Unused(j)'
    <3>1. j \in Jobs /\ On(t, j)
      BY <2>3, EntryParts DEF On, Names
    <3>2. j # k /\ Unused(j)
      BY <1>5, <2>3, <3>1 DEF SafeInv, NewFibers
    <3>3. QED
      BY <1>8, <3>1, <3>2
  <2>4. QED
    BY <2>1, <2>2, <2>3 DEF NewFibers, Unused, Spare
<1>12. States'
  <2>1. CarriedState' /\ ParkedIsArmed' /\ ExecIsCarried' /\ ArmedState'
    BY DEF SafeInv, States, CarriedState, ParkedIsArmed, ExecIsCarried, ArmedState
  <2>2. NotDead'
    BY <1>1, <1>3, <1>4 DEF SafeInv, States, NotDead, Dead
  <2>3. QED
    BY <2>1, <2>2 DEF States
<1>13. Work'
  <2>1. k \notin finished
    BY <1>3 DEF SafeInv, Work
  <2>2. QueuedWork'
    BY <1>1, <1>6, <2>1 DEF SafeInv, Work, QueuedWork
  <2>3. ThreadWork' /\ ArmedWork'
    BY <1>6 DEF SafeInv, Work, ThreadWork, ArmedWork, Names, Job
  <2>4. NotLost'
    BY <1>1, <1>6 DEF SafeInv, Work, NotLost, CountInv, TypeOK
  <2>5. finished' \subseteq submitted'
    BY DEF SafeInv, Work
  <2>6. QED
    BY <2>2, <2>3, <2>4, <2>5 DEF Work
<1>14. QED
  BY <1>9, <1>10, <1>11, <1>12, <1>13 DEF SafeInv

\* A fiber comes back to the list, from its thread or from its waker: it was
\* there alone, and it is not dead.
LEMMA SafeBack ==
  ASSUME SafeInv, CountInv, NEW f \in Jobs, schedule(FiberEntry(f, AnyThread)),
         UNCHANGED <<m_state, m_cb, cur, submitted, finished, parked>>,
         armed' = armed \ {f},
         \A t \in RunThreads :
            \/ pc'[t] = pc[t] /\ ft'[t] = ft[t] /\ cb_fiber'[t] = cb_fiber[t] /\ ~ On(t, m_cb[f])
            \/ /\ pc[t] \in Carries /\ cur[t] = f /\ pc'[t] = "fetch" /\ ft'[t] = NoEntry
               /\ cb_fiber'[t] = IF ByCb(t) THEN None ELSE cb_fiber[t],
         \A i \in DOMAIN m_fibers : ~ Names(m_fibers[i], m_cb[f]),
         \A g \in armed : m_cb[g] = m_cb[f] => g = f,
         m_cb[f] \in submitted \ finished,
         m_state[f] \in {"READY", "HOLD"}
  PROVE  SafeInv'
<1> DEFINE e == FiberEntry(f, AnyThread)
<1>1. PICK n : /\ n \notin DOMAIN m_fibers
               /\ DOMAIN m_fibers' = DOMAIN m_fibers \cup {n}
               /\ \A i \in DOMAIN m_fibers : m_fibers'[i] = m_fibers[i]
               /\ m_fibers'[n] = e
  <2>1. m_fibers \in Seq(FiberAndThread) /\ e \in FiberAndThread /\ m_fibers' = Append(m_fibers, e)
    BY EntryTypes DEF CountInv, TypeOK, schedule, Fibers
  <2>2. QED
    BY <2>1, AppendMap
<1>2. PICK c \in Jobs : c = m_cb[f]
  BY DEF CountInv, TypeOK, Fibers
<1>3. /\ e.fiber = f /\ e.cb = None /\ f # None
      /\ OneKind(e) /\ \A j \in Jobs : Names(e, j) <=> j = c
  BY <1>2, JobsAssumption DEF FiberEntry, OneKind, Names
<1> HIDE DEF e
<1>4. /\ \A t \in RunThreads : pc'[t] \in Carries => pc[t] \in Carries
      /\ \A t \in RunThreads : pc'[t] \in Holding => pc[t] \in Holding
      /\ \A t \in RunThreads : pc'[t] \in Holding =>
            pc'[t] = pc[t] /\ ft'[t] = ft[t] /\ cb_fiber'[t] = cb_fiber[t] /\ ~ On(t, c)
      /\ "dispatch" \in Holding /\ Carries \subseteq Holding
  <2>1. "fetch" \notin Carries /\ "fetch" \notin Holding
    BY DEF Carries, Holding
  <2>2. "dispatch" \in Holding /\ Carries \subseteq Holding
    BY DEF Holding
  <2>3. \A t \in RunThreads : On(t, c) <=> On(t, m_cb[f])
    BY <1>2
  <2>4. QED
    BY <2>1, <2>2, <2>3
<1>5. \A i \in DOMAIN m_fibers : ~ Names(m_fibers[i], c)
  BY <1>2
<1>6. /\ \A i \in DOMAIN m_fibers, j \in Jobs : Names(m_fibers[i], j)' <=> Names(m_fibers[i], j)
      /\ \A j \in Jobs : Names(m_fibers[n], j)' <=> j = c
  <2>1. \A i \in DOMAIN m_fibers, j \in Jobs : Names(m_fibers[i], j)' <=> Names(m_fibers[i], j)
    BY <1>1 DEF Names
  <2>2. \A j \in Jobs : Names(m_fibers[n], j)' <=> Names(e, j)
    BY <1>1 DEF Names
  <2>3. QED
    BY <1>3, <2>1, <2>2
<1>7. \A t \in RunThreads, j \in Jobs : On(t, j)' <=> On(t, j) /\ j # c
  <2> SUFFICES ASSUME NEW t \in RunThreads, NEW j \in Jobs PROVE On(t, j)' <=> On(t, j) /\ j # c
    OBVIOUS
  <2>1. CASE pc'[t] = pc[t] /\ ft'[t] = ft[t] /\ ~ On(t, m_cb[f])
    <3>1. On(t, j)' <=> On(t, j)
      BY <2>1 DEF On, Names, Job
    <3>2. ~ On(t, c)
      BY <1>2, <2>1
    <3>3. QED
      BY <3>1, <3>2
  <2>2. CASE pc[t] \in Carries /\ cur[t] = f /\ pc'[t] = "fetch"
    BY <1>2, <2>2 DEF On, Names, Job, Carries
  <2>3. QED
    BY <2>1, <2>2
<1>8. \A g \in Jobs : Spare(g) /\ g # f => Spare(g)'
  BY <1>1, <1>3, <1>4 DEF Spare
<1>9. ~ Spare(f)
  BY DEF Spare
<1>10. \A g \in Jobs : Unused(g) => Unused(g)'
  <2> SUFFICES ASSUME NEW g \in Jobs, Unused(g) PROVE Unused(g)'
    OBVIOUS
  <2>1. g # f /\ g # None
    BY <1>9, JobsAssumption DEF Unused
  <2>2. Spare(g)'
    BY <1>8, <2>1 DEF Unused
  <2>3. \A t \in RunThreads : cb_fiber'[t] # g
    BY <2>1 DEF Unused
  <2>4. QED
    BY <2>2, <2>3 DEF Unused
<1>11. Places'
  <2>1. Shape'
    BY <1>1, <1>3, <1>4 DEF SafeInv, Places, Shape, OneKind
  <2>2. QueueOnce'
    BY <1>1, <1>5, <1>6 DEF SafeInv, Places, QueueOnce
  <2>3. ThreadOnce' /\ QueueOrThread'
    BY <1>1, <1>5, <1>6, <1>7 DEF SafeInv, Places, ThreadOnce, QueueOrThread
  <2>4. ArmedOnce'
    <3>1. \A g \in armed' : g \in armed /\ m_cb[g] \in Jobs /\ m_cb[g] # c
      BY <1>2 DEF CountInv, TypeOK, Fibers
    <3>2. \A g \in armed', i \in DOMAIN m_fibers' : ~ Names(m_fibers'[i], m_cb[g])
      <4>1. \A g \in armed, i \in DOMAIN m_fibers : ~ Names(m_fibers[i], m_cb[g])
        BY DEF SafeInv, Places, ArmedOnce
      <4>2. \A g \in armed' : ~ Names(e, m_cb[g])
        BY <1>3, <3>1
      <4>3. QED
        BY <1>1, <3>1, <4>1, <4>2
    <3>3. ASSUME NEW g \in armed', NEW t \in RunThreads, On(t, m_cb[g])'
          PROVE  pc'[t] \in Carries \ {"exec"} /\ cur[t] = g
      <4>1. PICK j \in Jobs : j = m_cb[g] /\ j # c
        BY <3>1
      <4>2. On(t, j)'
        BY <3>3, <4>1 DEF On, Names, Job
      <4>3. On(t, j)
        BY <1>7, <4>1, <4>2
      <4>4. On(t, m_cb[g])
        BY <4>1, <4>3
      <4>5. pc[t] \in Carries \ {"exec"} /\ cur[t] = g
        BY <3>1, <4>4 DEF SafeInv, Places, ArmedOnce
      <4>6. pc'[t] \in Holding
        BY <4>2 DEF On, Holding
      <4>7. QED
        BY <1>4, <4>5, <4>6
    <3>4. \A g, h \in armed' : m_cb[g] = m_cb[h] => g = h
      BY <3>1 DEF SafeInv, Places, ArmedOnce
    <3>5. QED
      BY <3>2, <3>3, <3>4 DEF ArmedOnce, Names, On, Job
  <2>5. QED
    BY <2>1, <2>2, <2>3, <2>4 DEF Places
<1>12. CbFibers'
  <2>1. \A t \in RunThreads : cb_fiber[t] # None => cb_fiber[t] \in Jobs
    BY DEF CountInv, TypeOK, Fibers
  <2>2. \A t, u \in RunThreads : cb_fiber'[t] # None /\ cb_fiber'[t] = cb_fiber'[u] => t = u
    BY DEF SafeInv, CbFibers
  <2>3. ASSUME NEW t \in RunThreads, InCb(t)' PROVE cb_fiber'[t] = cur'[t]
    <3>1. pc'[t] \in Holding
      BY <1>4, <2>3 DEF InCb
    <3>2. pc'[t] = pc[t] /\ ft'[t] = ft[t] /\ cb_fiber'[t] = cb_fiber[t]
      BY <1>4, <3>1
    <3>3. QED
      BY <2>3, <3>2 DEF SafeInv, CbFibers, InCb, ByCb
  <2>4. ASSUME NEW t \in RunThreads, ~ InCb(t)', NEW g, g = cb_fiber'[t], g # None PROVE Spare(g)'
    <3>1. ~ InCb(t) /\ g = cb_fiber[t]
      BY <2>4 DEF InCb, ByCb
    <3>2. Spare(g) /\ g \in Jobs
      BY <2>1, <2>4, <3>1 DEF SafeInv, CbFibers
    <3>3. QED
      BY <1>8, <1>9, <3>2
  <2>5. QED
    BY <2>2, <2>3, <2>4 DEF CbFibers, Spare
<1>13. NewFibers'
  <2>1. \A j \in Jobs \ submitted' : Unused(j)'
    BY <1>10 DEF SafeInv, NewFibers
  <2>2. ASSUME NEW i \in DOMAIN m_fibers', NEW j, j = m_fibers'[i].cb, j # None PROVE Unused(j)'
    <3>1. i \in DOMAIN m_fibers /\ j = m_fibers[i].cb
      BY <1>1, <1>3, <2>2
    <3>2. j \in Jobs /\ Unused(j)
      BY <2>2, <3>1, EntryParts DEF SafeInv, NewFibers
    <3>3. QED
      BY <1>10, <3>2
  <2>3. ASSUME NEW t \in RunThreads, pc'[t] = "dispatch", NEW j, j = ft'[t].cb, j # None PROVE Unused(j)'
    <3>1. pc[t] = "dispatch" /\ j = ft[t].cb
      BY <1>4, <2>3
    <3>2. j \in Jobs /\ Unused(j)
      BY <2>3, <3>1, EntryParts DEF SafeInv, NewFibers
    <3>3. QED
      BY <1>10, <3>2
  <2>4. QED
    BY <2>1, <2>2, <2>3 DEF NewFibers, Unused, Spare
<1>14. States'
  <2>0. \A t \in RunThreads : pc'[t] \in Carries => pc'[t] = pc[t] /\ pc[t] \in Carries /\ cur[t] # f
    <3>1. \A t \in RunThreads : pc[t] \in Carries /\ cur[t] = f => On(t, c)
      BY <1>2 DEF On, Job
    <3>2. QED
      BY <1>4, <3>1
  <2>1. CarriedState'
    BY <2>0 DEF SafeInv, States, CarriedState, Carries
  <2>2. ParkedIsArmed'
    BY <2>0 DEF SafeInv, States, ParkedIsArmed, Carries
  <2>3. ExecIsCarried'
    <3>1. ASSUME NEW g \in Jobs, m_state'[g] = "EXEC"
          PROVE  \E t \in RunThreads : pc'[t] \in {"exec", "arming"} /\ cur'[t] = g
      <4>1. PICK t \in RunThreads : pc[t] \in {"exec", "arming"} /\ cur[t] = g
        BY <3>1 DEF SafeInv, States, ExecIsCarried, Fibers
      <4>2. g # f
        BY <3>1
      <4>3. pc'[t] = pc[t]
        BY <4>1, <4>2
      <4>4. QED
        BY <4>1, <4>3
    <3>2. QED
      BY <3>1 DEF ExecIsCarried, Fibers
  <2>4. NotDead'
    <3>1. \A t \in RunThreads :
             pc'[t] = "dispatch" /\ ft'[t].fiber # None => m_state'[ft'[t].fiber] \notin Dead
      BY <1>4 DEF SafeInv, States, NotDead
    <3>2. \A i \in DOMAIN m_fibers' :
             m_fibers'[i].fiber # None => m_state'[m_fibers'[i].fiber] \notin Dead
      BY <1>1, <1>3 DEF SafeInv, States, NotDead, Dead
    <3>3. QED
      BY <3>1, <3>2 DEF NotDead
  <2>5. ArmedState'
    BY DEF SafeInv, States, ArmedState
  <2>6. QED
    BY <2>1, <2>2, <2>3, <2>4, <2>5 DEF States
<1>15. Work'
  <2>1. QueuedWork'
    BY <1>1, <1>2, <1>6 DEF SafeInv, Work, QueuedWork
  <2>2. ThreadWork'
    <3>1. \A j \in Jobs, t \in RunThreads : On(t, j)' => j \in submitted
      BY <1>7 DEF SafeInv, Work, ThreadWork
    <3>2. \A j \in Jobs, t \in RunThreads : pc'[t] = "dispatch" /\ Names(ft[t], j)' => j \notin finished
      BY <1>4 DEF SafeInv, Work, ThreadWork, Names
    <3>3. \A t \in RunThreads : pc'[t] \in Carries => (Job(t) \in finished <=> m_state[cur[t]] \in Dead)
      BY <1>4 DEF SafeInv, Work, ThreadWork
    <3>4. QED
      BY <3>1, <3>2, <3>3 DEF ThreadWork, Job
  <2>3. ArmedWork'
    BY DEF SafeInv, Work, ArmedWork
  <2>4. NotLost'
    <3>1. ASSUME NEW j \in submitted \ finished
          PROVE  \/ \E i \in DOMAIN m_fibers' : Names(m_fibers[i], j)'
                 \/ \E t \in RunThreads : On(t, j)'
                 \/ \E g \in armed' : m_cb[g] = j
      <4>1. j \in Jobs
        BY DEF CountInv, TypeOK
      <4>2. CASE j = c
        BY <1>1, <1>6, <4>1, <4>2
      <4>3. CASE j # c /\ \E i \in DOMAIN m_fibers : Names(m_fibers[i], j)
        BY <1>1, <1>6, <4>1, <4>3
      <4>4. CASE j # c /\ \E t \in RunThreads : On(t, j)
        BY <1>7, <4>1, <4>4
      <4>5. CASE j # c /\ \E g \in armed : m_cb[g] = j
        BY <1>2, <4>5
      <4>6. QED
        BY <4>2, <4>3, <4>4, <4>5 DEF SafeInv, Work, NotLost
    <3>2. QED
      BY <3>1 DEF NotLost
  <2>5. finished' \subseteq submitted'
    BY DEF SafeInv, Work
  <2>6. QED
    BY <2>1, <2>2, <2>3, <2>4, <2>5 DEF Work
<1>16. QED
  BY <1>11, <1>12, <1>13, <1>14, <1>15 DEF SafeInv

-----------------------------------------------------------------------------
(***************************************************************************)
(* The thread lets its fiber go: it has ended, and a callback's fiber      *)
(* becomes the thread's spare one, or it is parked with its waker.         *)
(***************************************************************************)
LEMMA SafeLeave ==
  ASSUME SafeInv, CountInv, NEW t \in RunThreads, pc[t] \in Carries,
         UNCHANGED <<m_fibers, m_cb, cur, armed, submitted, finished, parked>>,
         pc' = [pc EXCEPT ![t] = "fetch"], ft' = [ft EXCEPT ![t] = NoEntry],
         NEW s, m_state' = [m_state EXCEPT ![cur[t]] = s],
         \/ /\ m_state[cur[t]] \in Dead
            /\ s = IF ByCb(t) THEN "INIT" ELSE m_state[cur[t]]
            /\ cb_fiber' = cb_fiber
         \/ /\ m_state[cur[t]] = "HOLD" /\ s = "HOLD"
            /\ cb_fiber' = [cb_fiber EXCEPT ![t] = IF ByCb(t) THEN None ELSE @]
  PROVE  SafeInv'
<1>a. cur[t] \in Jobs /\ cur[t] # None /\ Job(t) \in Jobs /\ On(t, Job(t)) /\ pc[t] # "dispatch"
  BY CarriedAlone
<1>b. \A i \in DOMAIN m_fibers : m_fibers[i].fiber # cur[t] /\ ~ Names(m_fibers[i], Job(t))
  BY CarriedAlone
<1>c. \A u \in RunThreads : u # t =>
              /\ ~ On(u, Job(t))
              /\ pc[u] = "dispatch" => ft[u].fiber # cur[t]
              /\ pc[u] \in Carries => cur[u] # cur[t] /\ Job(u) # Job(t)
  BY CarriedAlone
<1>1. /\ pc'[t] = "fetch" /\ "fetch" \notin Carries /\ "fetch" \notin Holding
      /\ \A u \in RunThreads : u # t => pc'[u] = pc[u] /\ ft'[u] = ft[u] /\ cb_fiber'[u] = cb_fiber[u]
  BY DEF CountInv, TypeOK, Carries, Holding
<1>2. /\ m_state'[cur[t]] = s /\ s # "EXEC" /\ m_state[cur[t]] \notin {"EXEC", "INIT"}
      /\ \A f \in Jobs : f # cur[t] => m_state'[f] = m_state[f]
  BY <1>a DEF CountInv, TypeOK, Fibers, Dead
<1>3. \A u \in RunThreads, j \in Jobs : On(u, j)' <=> u # t /\ On(u, j)
  BY <1>1 DEF On, Names, Job
<1>4. \A u \in RunThreads : pc'[u] \in Carries => u # t
  BY <1>1
<1>5. \A f \in Jobs : Spare(f) => Spare(f)'
  BY <1>1, <1>2 DEF Spare
<1>6. \A u \in RunThreads : cb_fiber'[u] \in {None, cb_fiber[u]}
  BY DEF CountInv, TypeOK
<1>7. \A f \in Jobs : Unused(f) => Unused(f)'
  <2>1. \A f \in Jobs : f # None
    BY JobsAssumption
  <2>2. QED
    BY <1>5, <1>6, <2>1 DEF Unused
<1>8. Places'
  <2>1. Shape'
    BY <1>1 DEF SafeInv, Places, Shape
  <2>2. QueueOnce' /\ ThreadOnce' /\ QueueOrThread'
    BY <1>3 DEF SafeInv, Places, QueueOnce, ThreadOnce, QueueOrThread, Names
  <2>3. ArmedOnce'
    <3>1. \A f \in armed : m_cb[f] \in Jobs
      BY DEF CountInv, TypeOK, Fibers
    <3>2. \A f \in armed, u \in RunThreads : On(u, m_cb[f])' => u # t /\ On(u, m_cb[f])
      BY <1>3, <3>1
    <3>3. QED
      BY <1>1, <3>1, <3>2 DEF SafeInv, Places, ArmedOnce, Names
  <2>4. QED
    BY <2>1, <2>2, <2>3 DEF Places
<1>9. CbFibers'
  <2>1. \A u \in RunThreads : cb_fiber[u] # None => cb_fiber[u] \in Jobs
    BY DEF CountInv, TypeOK, Fibers
  <2>2. \A u, w \in RunThreads : cb_fiber'[u] # None /\ cb_fiber'[u] = cb_fiber'[w] => u = w
    BY <1>6 DEF SafeInv, CbFibers
  <2>3. \A u \in RunThreads : InCb(u)' => cb_fiber'[u] = cur'[u]
    BY <1>1, <1>4 DEF SafeInv, CbFibers, InCb, ByCb
  <2>4. ASSUME NEW u \in RunThreads, u # t, ~ InCb(u)', NEW g, g = cb_fiber'[u], g # None PROVE Spare(g)'
    <3>1. ~ InCb(u) /\ g = cb_fiber[u]
      BY <1>1, <2>4 DEF InCb, ByCb
    <3>2. Spare(g) /\ g \in Jobs
      BY <2>1, <2>4, <3>1 DEF SafeInv, CbFibers
    <3>3. QED
      BY <1>5, <3>2
  <2>5. ASSUME NEW g, g = cb_fiber'[t], g # None PROVE Spare(g)'
    <3>1. g = cb_fiber[t]
      BY <1>6, <2>5
    <3>2. CASE ~ ByCb(t)
      <4>1. ~ InCb(t)
        BY <3>2 DEF InCb
      <4>2. Spare(g) /\ g \in Jobs
        BY <2>1, <2>5, <3>1, <4>1 DEF SafeInv, CbFibers
      <4>3. QED
        BY <1>5, <4>2
    <3>3. CASE ByCb(t)
      <4>1. m_state[cur[t]] \in Dead /\ s = "INIT"
        BY <2>5, <3>3 DEF CountInv, TypeOK
      <4>2. g = cur[t]
        BY <3>1, <3>3 DEF SafeInv, CbFibers, InCb
      <4>3. cur[t] \notin armed
        BY <4>1 DEF SafeInv, States, ArmedState, Dead
      <4>4. QED
        BY <1>1, <1>2, <1>b, <1>c, <4>1, <4>2, <4>3 DEF Spare
    <3>4. QED
      BY <3>2, <3>3
  <2>6. QED
    BY <2>2, <2>3, <2>4, <2>5 DEF CbFibers, Spare
<1>10. NewFibers'
  <2>1. /\ \A i \in DOMAIN m_fibers : m_fibers[i].cb # None => m_fibers[i].cb \in Jobs
        /\ \A u \in RunThreads : ft[u].cb # None => ft[u].cb \in Jobs
    BY EntryParts
  <2>2. QED
    BY <1>1, <1>7, <2>1 DEF SafeInv, NewFibers
<1>11. States'
  <2>1. CarriedState'
    BY <1>1, <1>2, <1>4, <1>c DEF SafeInv, States, CarriedState, CountInv, CurOK, Carries, Fibers
  <2>2. ParkedIsArmed'
    BY <1>1, <1>2, <1>4, <1>c DEF SafeInv, States, ParkedIsArmed, CountInv, CurOK, Fibers
  <2>3. ExecIsCarried'
    BY <1>1, <1>2 DEF SafeInv, States, ExecIsCarried, Fibers
  <2>4. NotDead'
    <3>1. /\ \A i \in DOMAIN m_fibers : m_fibers[i].fiber # None => m_fibers[i].fiber \in Jobs
          /\ \A u \in RunThreads : ft[u].fiber # None => ft[u].fiber \in Jobs
      BY EntryParts
    <3>2. \A u \in RunThreads :
             pc'[u] = "dispatch" /\ ft'[u].fiber # None => m_state'[ft'[u].fiber] \notin Dead
      BY <1>1, <1>2, <1>c, <3>1 DEF SafeInv, States, NotDead
    <3>3. \A i \in DOMAIN m_fibers :
             m_fibers[i].fiber # None => m_state'[m_fibers[i].fiber] \notin Dead
      BY <1>2, <1>b, <3>1 DEF SafeInv, States, NotDead
    <3>4. QED
      BY <3>2, <3>3 DEF NotDead
  <2>5. ArmedState'
    BY <1>2 DEF SafeInv, States, ArmedState, CountInv, TypeOK, Fibers, Dead
  <2>6. QED
    BY <2>1, <2>2, <2>3, <2>4, <2>5 DEF States
<1>12. Work'
  <2>1. QueuedWork' /\ ArmedWork'
    BY DEF SafeInv, Work, QueuedWork, ArmedWork, Names
  <2>2. ThreadWork'
    <3>1. \A j \in Jobs, u \in RunThreads : On(u, j)' => j \in submitted
      BY <1>3 DEF SafeInv, Work, ThreadWork
    <3>2. \A j \in Jobs, u \in RunThreads : pc'[u] = "dispatch" /\ Names(ft[u], j)' => j \notin finished
      BY <1>1 DEF SafeInv, Work, ThreadWork, Names
    <3>3. \A u \in RunThreads : pc'[u] \in Carries => (Job(u) \in finished <=> m_state'[cur[u]] \in Dead)
      BY <1>1, <1>2, <1>4, <1>c DEF SafeInv, Work, ThreadWork, CountInv, CurOK, Fibers
    <3>4. QED
      BY <3>1, <3>2, <3>3 DEF ThreadWork, Job
  <2>3. NotLost'
    <3>1. ASSUME NEW j \in submitted \ finished
          PROVE  \/ \E i \in DOMAIN m_fibers : Names(m_fibers[i], j)
                 \/ \E u \in RunThreads : On(u, j)'
                 \/ \E g \in armed : m_cb[g] = j
      <4>1. j \in Jobs
        BY DEF CountInv, TypeOK
      <4>2. CASE On(t, j)
        <5>1. j = Job(t)
          BY <1>a, <4>2 DEF On
        <5>2. m_state[cur[t]] \notin Dead
          BY <3>1, <5>1 DEF SafeInv, Work, ThreadWork
        <5>3. cur[t] \in armed
          BY <5>2 DEF SafeInv, States, ParkedIsArmed
        <5>4. QED
          BY <5>1, <5>3 DEF Job
      <4>3. CASE \E u \in RunThreads : u # t /\ On(u, j)
        BY <1>3, <4>1, <4>3
      <4>4. QED
        BY <4>2, <4>3 DEF SafeInv, Work, NotLost
    <3>2. QED
      BY <3>1 DEF NotLost, Names
  <2>4. finished' \subseteq submitted'
    BY DEF SafeInv, Work
  <2>5. QED
    BY <2>1, <2>2, <2>3, <2>4 DEF Work
<1>13. QED
  BY <1>8, <1>9, <1>10, <1>11, <1>12 DEF SafeInv

-----------------------------------------------------------------------------
(***************************************************************************)
(* Every step.  A thread's step never aborts.                              *)
(***************************************************************************)
LEMMA SafeUserCode ==
  ASSUME SafeInv, CountInv, NEW t \in RunThreads, UserCode(t)
  PROVE  SafeInv' /\ ~ aborted'
<1>0. /\ m_state \in [Jobs -> FiberStates] /\ {"READY", "HOLD", "TERM", "EXCEPT", "EXEC"} \subseteq FiberStates
      /\ {"arming", "yielded"} \subseteq Carries \ {"exec"} /\ "exec" \in Carries /\ "arming" \in Carries
      /\ "EXEC" \notin Dead /\ "HOLD" \notin Dead /\ "READY" \notin Dead
  BY DEF CountInv, TypeOK, Fibers, FiberStates, Carries, Dead
<1>1. CASE Spawn(t)
  <2>1. PICK k \in Jobs \ submitted : schedule(EntryOf(k)) /\ submitted' = submitted \cup {k}
    BY <1>1 DEF Spawn
  <2>2. UNCHANGED <<m_state, m_cb, pc, ft, cb_fiber, cur, armed, finished, parked>> /\ ~ aborted'
    BY <1>1 DEF Spawn
  <2>3. QED
    BY <2>1, <2>2, SafeSubmit
<1>2. ASSUME pc[t] \in {"exec", "arming"}
      PROVE  /\ cur[t] \in Jobs /\ m_state[cur[t]] = "EXEC" /\ pc[t] \in Carries
             /\ pc[t] = "exec" => cur[t] \notin armed
             /\ pc[t] = "arming" => cur[t] \in armed
             /\ Job(t) \notin finished
             /\ m_state = [m_state EXCEPT ![cur[t]] = "EXEC"]
  <2>1. pc[t] \in Carries /\ m_state[cur[t]] = "EXEC"
    BY <1>0, <1>2 DEF SafeInv, States, CarriedState
  <2>2. cur[t] \in Jobs
    BY <2>1 DEF CountInv, CurOK, Fibers
  <2>3. /\ pc[t] = "exec" => cur[t] \notin armed
        /\ pc[t] = "arming" => cur[t] \in armed
    BY <2>1 DEF SafeInv, States, ParkedIsArmed
  <2>4. Job(t) \notin finished
    BY <1>0, <2>1 DEF SafeInv, Work, ThreadWork
  <2>5. m_state = [m_state EXCEPT ![cur[t]] = "EXEC"]
    BY <1>0, <2>1, <2>2
  <2>6. QED
    BY <2>1, <2>2, <2>3, <2>4, <2>5
<1>3. CASE YieldToReady(t)
  <2>1. /\ pc[t] = "exec" /\ pc' = [pc EXCEPT ![t] = "yielded"]
        /\ m_state' = [m_state EXCEPT ![cur[t]] = "READY"]
        /\ UNCHANGED <<m_fibers, m_cb, ft, cb_fiber, cur, submitted, armed, finished, parked>>
        /\ ~ aborted'
    BY <1>3 DEF YieldToReady
  <2>2. "yielded" \in Carries \ {"exec"} /\ "READY" \in FiberStates /\ "READY" \notin Dead
    BY DEF Carries, FiberStates, Dead
  <2>3. /\ armed' \in {armed, armed \cup {cur[t]}} /\ parked' \in {parked, parked \cup {Job(t)}}
        /\ finished' = IF "READY" \in Dead THEN finished \cup {Job(t)} ELSE finished
        /\ "READY" \in Dead \cup {"READY", "HOLD"}
        /\ cur[t] \in armed' <=> "READY" \in {"EXEC", "HOLD"}
        /\ cur[t] \in armed' => cur[t] \in armed
        /\ m_state[cur[t]] \notin Dead
    BY <1>0, <1>2, <2>1, <2>2
  <2>4. QED
    BY <1>0, <2>1, <2>2, <2>3, SafeInStep
<1>4. CASE Arm(t)
  <2>1. /\ pc[t] = "exec" /\ pc' = [pc EXCEPT ![t] = "arming"]
        /\ UNCHANGED <<m_fibers, m_cb, ft, cb_fiber, cur, submitted, finished, m_state>>
        /\ armed' = armed \cup {cur[t]} /\ parked' = parked \cup {Job(t)}
        /\ ~ aborted'
    BY <1>4 DEF Arm
  <2>2. m_state' = [m_state EXCEPT ![cur[t]] = "EXEC"]
    BY <1>2, <2>1
  <2>3. QED
    BY <1>0, <1>2, <2>1, <2>2, SafeInStep
<1>5. CASE YieldToHold(t)
  <2>1. /\ pc[t] = "arming" /\ pc' = [pc EXCEPT ![t] = "yielded"]
        /\ m_state' = [m_state EXCEPT ![cur[t]] = "HOLD"]
        /\ UNCHANGED <<m_fibers, m_cb, ft, cb_fiber, cur, submitted, armed, finished, parked>>
        /\ ~ aborted'
    BY <1>5 DEF YieldToHold
  <2>2. "yielded" \in Carries \ {"exec"} /\ "HOLD" \in FiberStates /\ "HOLD" \notin Dead
    BY DEF Carries, FiberStates, Dead
  <2>3. /\ armed' \in {armed, armed \cup {cur[t]}} /\ parked' \in {parked, parked \cup {Job(t)}}
        /\ finished' = IF "HOLD" \in Dead THEN finished \cup {Job(t)} ELSE finished
        /\ "HOLD" \in Dead \cup {"READY", "HOLD"}
        /\ cur[t] \in armed' <=> "HOLD" \in {"EXEC", "HOLD"}
        /\ cur[t] \in armed' => cur[t] \in armed
        /\ m_state[cur[t]] \notin Dead
    BY <1>0, <1>2, <2>1, <2>2
  <2>4. QED
    BY <1>0, <2>1, <2>2, <2>3, SafeInStep
<1>6. CASE Finish(t)
  <2>1. /\ pc[t] = "exec" /\ pc' = [pc EXCEPT ![t] = "yielded"]
        /\ UNCHANGED <<m_fibers, m_cb, ft, cb_fiber, cur, submitted, armed, parked>>
        /\ finished' = finished \cup {Job(t)}
        /\ ~ aborted'
    BY <1>6 DEF Finish
  <2>2. PICK s \in Dead : m_state' = [m_state EXCEPT ![cur[t]] = s]
    BY <1>6 DEF Finish
  <2>3. s \in FiberStates /\ s \notin {"EXEC", "HOLD"}
    BY DEF Dead, FiberStates
  <2>4. QED
    BY <1>0, <1>2, <2>1, <2>2, <2>3, SafeInStep
<1>7. QED
  BY <1>1, <1>3, <1>4, <1>5, <1>6 DEF UserCode

LEMMA SafeRun ==
  ASSUME SafeInv, CountInv, NEW t \in RunThreads, run(t)
  PROVE  SafeInv' /\ ~ aborted'
<1>0. /\ m_state \in [Jobs -> FiberStates]
      /\ {"yielded", "after", "check", "sethold"} \subseteq Carries
      /\ {"after", "check", "sethold"} \subseteq Carries \ {"exec", "arming"}
      /\ {"fetch", "idle", "done"} \cap Holding = {}
      /\ pc \in [RunThreads -> PCs]
      /\ cb_fiber \in [RunThreads -> Fibers \cup {None}]
      /\ Dead \cap {"EXEC", "HOLD"} = {} /\ "READY" \notin Dead
  BY DEF CountInv, TypeOK, Fibers, Carries, Holding, Dead
<1>1. CASE Fetch(t)
  BY <1>1, SafeFetch DEF Fetch
<1>2. CASE FetchNone(t) \/ Exit(t) \/ Idle(t)
  <2>1. /\ UNCHANGED <<m_fibers, m_state, m_cb, ft, cur, armed, submitted, finished, parked>>
        /\ ~ aborted'
    BY <1>2 DEF FetchNone, Exit, Idle
  <2>2. PICK v \in {"fetch", "idle", "done"} : pc' = [pc EXCEPT ![t] = v]
    BY <1>2 DEF FetchNone, Exit, Idle
  <2>3. pc[t] \in {"fetch", "idle"} /\ cb_fiber' \in {cb_fiber, [cb_fiber EXCEPT ![t] = None]}
    BY <1>2 DEF FetchNone, Exit, Idle
  <2>4. \A u \in RunThreads : \/ pc'[u] = pc[u]
                              \/ pc[u] \notin Holding /\ pc'[u] \notin Holding
    BY <1>0, <2>2, <2>3
  <2>5. \A u \in RunThreads : \/ cb_fiber'[u] = cb_fiber[u]
                              \/ pc[u] \notin Holding /\ cb_fiber'[u] = None
    BY <1>0, <2>3
  <2>6. QED
    BY <2>1, <2>4, <2>5, SafeOutside
<1>3. CASE DispatchFiber(t) \/ DispatchCb(t)
  BY <1>3, SafeDispatchFiber, SafeDispatchCb
<1>4. CASE UserCode(t)
  BY <1>4, SafeUserCode
<1>5. CASE swapOut(t) \/ Deactivate(t) \/ Held(t)
  <2>1. /\ UNCHANGED <<m_fibers, m_cb, ft, cb_fiber, cur, submitted, armed, finished, parked, m_state>>
        /\ ~ aborted'
        /\ pc[t] \in {"yielded", "after", "check"}
    BY <1>5 DEF swapOut, Deactivate, Held
  <2>2. PICK v \in {"after", "check", "sethold"} : pc' = [pc EXCEPT ![t] = v]
    BY <1>5 DEF swapOut, Deactivate, Held
  <2>3. v = "sethold" => m_state[cur[t]] \notin Dead \cup {"READY"}
    <3>1. v = pc'[t]
      BY <1>0, <2>2
    <3>2. CASE Held(t)
      BY <3>2 DEF Held
    <3>3. CASE swapOut(t) \/ Deactivate(t)
      BY <1>0, <3>1, <3>3 DEF swapOut, Deactivate
    <3>4. QED
      BY <1>5, <3>2, <3>3
  <2>4. /\ m_state[cur[t]] \in Dead \cup {"READY", "HOLD"} /\ pc[t] \in Carries /\ cur[t] \in Jobs
        /\ pc[t] \notin {"exec", "arming"}
    BY <1>0, <2>1 DEF SafeInv, States, CarriedState, CountInv, CurOK, Fibers
  <2>5. cur[t] \in armed <=> m_state[cur[t]] \in {"EXEC", "HOLD"}
    BY <1>0, <2>4 DEF SafeInv, States, ParkedIsArmed, ArmedState
  <2>6. m_state' = [m_state EXCEPT ![cur[t]] = m_state[cur[t]]] /\ m_state[cur[t]] \in FiberStates
    BY <1>0, <2>1, <2>4
  <2>7. Job(t) \in finished <=> m_state[cur[t]] \in Dead
    BY <2>4 DEF SafeInv, Work, ThreadWork
  <2>8. finished' = IF m_state[cur[t]] \in Dead THEN finished \cup {Job(t)} ELSE finished
    BY <2>1, <2>7
  <2> DEFINE s == m_state[cur[t]]
  <2>9. /\ v \in Carries \ {"exec"} /\ v # "arming" /\ s # "EXEC"
        /\ v = "sethold" => s = "HOLD"
    BY <1>0, <2>3, <2>4
  <2>10. QED
    <3> HIDE DEF s
    <3>1. /\ m_state' = [m_state EXCEPT ![cur[t]] = s] /\ s \in FiberStates
          /\ s \in Dead \cup {"READY", "HOLD"} /\ m_state[cur[t]] = s
          /\ cur[t] \in armed <=> s \in {"EXEC", "HOLD"}
          /\ finished' = IF s \in Dead THEN finished \cup {Job(t)} ELSE finished
      BY <2>4, <2>5, <2>6, <2>8 DEF s
    <3>2. SafeInv'
      BY <2>1, <2>2, <2>4, <2>9, <3>1, SafeInStep
    <3>3. QED
      BY <2>1, <3>2
<1>6. CASE Requeue(t)
  <2>1. /\ pc[t] = "check" /\ m_state[cur[t]] = "READY"
        /\ schedule(FiberEntry(cur[t], AnyThread))
        /\ cb_fiber' = [cb_fiber EXCEPT ![t] = IF ByCb(t) THEN None ELSE @]
        /\ ft' = [ft EXCEPT ![t] = NoEntry]
        /\ pc' = [pc EXCEPT ![t] = "fetch"]
        /\ UNCHANGED <<m_state, m_cb, cur, armed, submitted, finished, parked>> /\ ~ aborted'
    BY <1>6 DEF Requeue
  <2>2. pc[t] \in Carries /\ ft \in [RunThreads -> FiberAndThread]
    BY <1>0, <2>1 DEF CountInv, TypeOK
  <2>3. PICK f \in Jobs : f = cur[t]
    BY <2>2, CarriedAlone
  <2>4. f \notin armed
    BY <2>1, <2>3 DEF SafeInv, States, ArmedState
  <2>5. \A u \in RunThreads :
            \/ pc'[u] = pc[u] /\ ft'[u] = ft[u] /\ cb_fiber'[u] = cb_fiber[u] /\ ~ On(u, m_cb[f])
            \/ /\ pc[u] \in Carries /\ cur[u] = f /\ pc'[u] = "fetch" /\ ft'[u] = NoEntry
               /\ cb_fiber'[u] = IF ByCb(u) THEN None ELSE cb_fiber[u]
    <3>1. \A u \in RunThreads : u # t => ~ On(u, m_cb[f])
      BY <2>2, <2>3, CarriedAlone DEF Job
    <3>2. QED
      BY <1>0, <2>1, <2>2, <2>3, <3>1
  <2>6. /\ \A i \in DOMAIN m_fibers : ~ Names(m_fibers[i], m_cb[f])
        /\ \A g \in armed : m_cb[g] = m_cb[f] => g = f
    BY <2>2, <2>3, CarriedAlone DEF Job
  <2>7. m_cb[f] \in submitted \ finished
    <3>1. Job(t) \in submitted
      BY <2>2, CarriedAlone DEF SafeInv, Work, ThreadWork
    <3>2. Job(t) \notin finished
      BY <1>0, <2>1, <2>2 DEF SafeInv, Work, ThreadWork
    <3>3. QED
      BY <2>3, <3>1, <3>2 DEF Job
  <2>8. armed' = armed \ {f} /\ schedule(FiberEntry(f, AnyThread)) /\ m_state[f] = "READY"
    BY <2>1, <2>3, <2>4
  <2>9. QED
    BY <2>1, <2>5, <2>6, <2>7, <2>8, SafeBack
<1>7. CASE Retire(t)
  <2>1. /\ pc[t] = "check" /\ m_state[cur[t]] \in Dead
        /\ m_state' = IF ByCb(t) THEN [m_state EXCEPT ![cur[t]] = "INIT"] ELSE m_state
        /\ ft' = [ft EXCEPT ![t] = NoEntry]
        /\ pc' = [pc EXCEPT ![t] = "fetch"]
        /\ UNCHANGED <<m_fibers, m_cb, cb_fiber, cur, armed, submitted, finished, parked>> /\ ~ aborted'
    BY <1>7 DEF Retire
  <2>2. pc[t] \in Carries /\ cur[t] \in Jobs
    BY <1>0, <2>1, CarriedAlone
  <2> DEFINE s == IF ByCb(t) THEN "INIT" ELSE m_state[cur[t]]
  <2>3. m_state' = [m_state EXCEPT ![cur[t]] = s]
    BY <1>0, <2>1, <2>2
  <2>4. SafeInv'
    BY <2>1, <2>2, <2>3, SafeLeave
  <2>5. QED
    BY <2>1, <2>4
<1>8. CASE SetHold(t)
  <2>1. /\ pc[t] = "sethold"
        /\ m_state' = [m_state EXCEPT ![cur[t]] = "HOLD"]
        /\ cb_fiber' = [cb_fiber EXCEPT ![t] = IF ByCb(t) THEN None ELSE @]
        /\ ft' = [ft EXCEPT ![t] = NoEntry]
        /\ pc' = [pc EXCEPT ![t] = "fetch"]
        /\ UNCHANGED <<m_fibers, m_cb, cur, armed, submitted, finished, parked>> /\ ~ aborted'
    BY <1>8 DEF SetHold
  <2>2. pc[t] \in Carries /\ m_state[cur[t]] = "HOLD"
    BY <1>0, <2>1 DEF SafeInv, States, CarriedState
  <2>3. QED
    BY <2>1, <2>2, SafeLeave
<1>9. QED
  BY <1>1, <1>2, <1>3, <1>4, <1>5, <1>6, <1>7, <1>8 DEF run

\* A waker schedules a fiber that has parked.
LEMMA SafeWake ==
  ASSUME SafeInv, CountInv, WakeAfterPark, NEW f \in Fibers, Wake(f)
  PROVE  SafeInv'
<1>1. /\ f \in Jobs /\ f \in armed /\ HasParked(f) /\ armed' = armed \ {f}
      /\ schedule(FiberEntry(f, AnyThread))
      /\ UNCHANGED <<m_state, m_cb, pc, ft, cb_fiber, cur, submitted, finished, parked>>
  BY DEF Wake, Fibers
<1>2. /\ \A i \in DOMAIN m_fibers : ~ Names(m_fibers[i], m_cb[f])
      /\ \A t \in RunThreads : ~ On(t, m_cb[f])
      /\ \A g \in armed : m_cb[g] = m_cb[f] => g = f
  BY <1>1 DEF SafeInv, Places, ArmedOnce, HasParked
<1>3. m_cb[f] \in submitted \ finished
  BY <1>1 DEF SafeInv, Work, ArmedWork
<1>4. m_state[f] = "HOLD"
  BY <1>1 DEF SafeInv, States, ArmedState, ExecIsCarried, HasParked, Carries, Fibers
<1>5. QED
  BY <1>1, <1>2, <1>3, <1>4, SafeBack

\* Main's steps move only threads that are in no fiber.
LEMMA MainOutside ==
  ASSUME CountInv, start \/ stop \/ StopSteps
  PROVE  \A t \in RunThreads : \/ pc'[t] = pc[t]
                               \/ pc[t] \notin Holding /\ pc'[t] \notin Holding
<1>1. pc \in [RunThreads -> PCs] /\ {"off", "done", "fetch"} \cap Holding = {}
  BY DEF CountInv, TypeOK, Holding, Carries
<1>2. CASE start
  <2>1. \A w \in Workers : pc[w] = "off"
    BY <1>2 DEF start, CountInv, PoolOK
  <2>2. QED
    BY <1>1, <1>2, <2>1 DEF start
<1>3. CASE stop \/ StopFlag \/ StopNoCall
  BY <1>3 DEF stop, StopFlag, StopNoCall
<1>4. CASE StopCall
  <2>1. pc[Main] = "off" /\ pc' = [pc EXCEPT ![Main] = "fetch"]
    BY <1>4 DEF StopCall, CountInv, PoolOK
  <2>2. QED
    BY <1>1, <2>1
<1>5. CASE CallReturn
  BY <1>1, <1>5 DEF CallReturn
<1>6. CASE Join
  BY <1>1, <1>6 DEF Join
<1>7. QED
  BY <1>2, <1>3, <1>4, <1>5, <1>6 DEF StopSteps

LEMMA SafeMain ==
  ASSUME SafeInv, CountInv, start \/ stop \/ StopSteps
  PROVE  SafeInv'
<1>1. UNCHANGED <<m_fibers, m_state, m_cb, ft, cb_fiber, cur, armed, submitted, finished, parked>>
  BY DEF start, stop, StopSteps, StopFlag, StopCall, StopNoCall, CallReturn, Join
<1>2. QED
  BY <1>1, MainOutside, SafeOutside

LEMMA SafeNext ==
  ASSUME SafeInv, CountInv, WakeAfterPark, [Next]_vars
  PROVE  SafeInv'
<1>1. CASE \E t \in RunThreads : run(t)
  BY <1>1, SafeRun
<1>2. CASE \E f \in Fibers : Wake(f)
  BY <1>2, SafeWake
<1>3. ASSUME NEW j \in Jobs, Submit(j) PROVE SafeInv'
  <2>1. /\ j \in Jobs \ submitted /\ schedule(EntryOf(j)) /\ submitted' = submitted \cup {j}
        /\ UNCHANGED <<m_state, m_cb, pc, ft, cb_fiber, cur, armed, finished, parked>>
    BY <1>3 DEF Submit
  <2>2. QED
    BY <2>1, SafeSubmit
<1>4. CASE start \/ stop \/ StopSteps
  BY <1>4, SafeMain
<1>5. CASE UNCHANGED vars
  <2>1. UNCHANGED <<m_fibers, m_state, m_cb, pc, ft, cb_fiber, cur, armed, submitted, finished, parked>>
    BY <1>5 DEF vars
  <2>2. QED
    BY <2>1, SafeOutside
<1>6. QED
  BY <1>1, <1>2, <1>3, <1>4, <1>5 DEF Next

LEMMA SafeInvariant == WakeAfterPark => (Spec => [](SafeInv /\ CountInv))
<1> SUFFICES ASSUME WakeAfterPark PROVE Spec => [](SafeInv /\ CountInv)
  OBVIOUS
<1>1. Init => SafeInv /\ CountInv
  BY SafeInit, CountInit
<1>2. SafeInv /\ CountInv /\ [Next]_vars => (SafeInv /\ CountInv)'
  BY SafeNext, CountNext
<1>3. QED
  BY <1>1, <1>2, PTL DEF Spec

-----------------------------------------------------------------------------
\* When wakers run after the fiber has parked, no fiber's stack is in use by
\* two threads, for any number of threads and any workload.
THEOREM FibersHaveOneThread == WakeAfterPark => (Spec => []OneThreadPerFiber)
<1> SUFFICES ASSUME WakeAfterPark PROVE Spec => []OneThreadPerFiber
  OBVIOUS
<1>1. SafeInv /\ CountInv => OneThreadPerFiber
  <2> SUFFICES ASSUME SafeInv, CountInv, NEW t \in RunThreads, NEW u \in RunThreads,
                      t # u, pc[t] \in OnCpu, pc[u] \in OnCpu
               PROVE  cur[t] # cur[u]
    BY DEF OneThreadPerFiber
  <2>1. pc[t] \in Carries /\ pc[u] \in Carries
    BY DEF OnCpu, Carries
  <2>2. QED
    BY <2>1, CarriedAlone
<1>2. QED
  BY <1>1, SafeInvariant, PTL

\* Under the same condition every submitted job that has not finished is in
\* exactly one place, and a finished one is in none: run() neither loses nor
\* duplicates work.
THEOREM WorkIsKept == WakeAfterPark => (Spec => []NoJobLostOrDuplicated)
<1> SUFFICES ASSUME WakeAfterPark PROVE Spec => []NoJobLostOrDuplicated
  OBVIOUS
<1>1. SafeInv /\ CountInv => NoJobLostOrDuplicated
  <2> SUFFICES ASSUME SafeInv, CountInv, NEW j \in submitted
               PROVE  IF j \in finished
                      THEN InQueue(j) = {} /\ WithWaker(j) = {}
                      ELSE /\ Cardinality(InQueue(j)) + Cardinality(OnThread(j)) <= 1
                           /\ InQueue(j) \cup OnThread(j) = {} => WithWaker(j) # {}
                           /\ InQueue(j) # {} => WithWaker(j) = {}
    BY DEF NoJobLostOrDuplicated
  <2>1. j \in Jobs
    BY DEF CountInv, TypeOK
  <2>2. /\ \A i : i \in InQueue(j) <=> i \in DOMAIN m_fibers /\ Names(m_fibers[i], j)
        /\ \A t : t \in OnThread(j) <=> t \in RunThreads /\ On(t, j)
        /\ \A f : f \in WithWaker(j) <=> f \in armed /\ m_cb[f] = j
    BY DEF InQueue, OnThread, WithWaker, On
  <2>3. CASE j \in finished
    <3>1. InQueue(j) = {}
      BY <2>1, <2>2, <2>3 DEF SafeInv, Work, QueuedWork
    <3>2. WithWaker(j) = {}
      BY <2>1, <2>2, <2>3 DEF SafeInv, Work, ArmedWork
    <3>3. QED
      BY <2>3, <3>1, <3>2
  <2>4. CASE j \notin finished
    <3>1. \A x \in InQueue(j) : \A y \in InQueue(j) : x = y
      BY <2>1, <2>2 DEF SafeInv, Places, QueueOnce
    <3>2. \A x \in OnThread(j) : \A y \in OnThread(j) : x = y
      BY <2>1, <2>2 DEF SafeInv, Places, ThreadOnce
    <3>3. InQueue(j) = {} \/ OnThread(j) = {}
      BY <2>1, <2>2 DEF SafeInv, Places, QueueOrThread
    <3>4. ASSUME NEW X, \A x \in X : \A y \in X : x = y PROVE Cardinality(X) \in {0, 1}
      <4>1. CASE X = {}
        BY <4>1, FS_EmptySet
      <4>2. CASE X # {}
        <5>1. PICK x : X = {x}
          BY <3>4, <4>2
        <5>2. QED
          BY <5>1, FS_Singleton
      <4>3. QED
        BY <4>1, <4>2
    <3>5. Cardinality(InQueue(j)) + Cardinality(OnThread(j)) <= 1
      <4>1. Cardinality(InQueue(j)) \in {0, 1} /\ Cardinality(OnThread(j)) \in {0, 1}
        BY <3>1, <3>2, <3>4
      <4>2. Cardinality(InQueue(j)) = 0 \/ Cardinality(OnThread(j)) = 0
        BY <3>3, FS_EmptySet
      <4>3. QED
        BY <4>1, <4>2
    <3>6. InQueue(j) \cup OnThread(j) = {} => WithWaker(j) # {}
      BY <2>1, <2>2, <2>4 DEF SafeInv, Work, NotLost
    <3>7. InQueue(j) # {} => WithWaker(j) = {}
      BY <2>1, <2>2 DEF SafeInv, Places, ArmedOnce
    <3>8. QED
      BY <2>4, <3>5, <3>6, <3>7
  <2>5. QED
    BY <2>3, <2>4
<1>2. QED
  BY <1>1, SafeInvariant, PTL

-----------------------------------------------------------------------------
(***************************************************************************)
(* The pool of tasks.  What each of its three sets becomes when one entry  *)
(* or one thread changes.                                                  *)
(***************************************************************************)
LEMMA WaitingSame ==
  ASSUME m_fibers' = m_fibers,
         \A i \in DOMAIN m_fibers : m_fibers[i].fiber # None =>
            m_cb'[m_fibers[i].fiber] = m_cb[m_fibers[i].fiber]
  PROVE  Waiting' = Waiting
BY DEF Waiting, EntryJob

LEMMA WaitingMore ==
  ASSUME CountInv, NEW e \in FiberAndThread, schedule(e), m_cb' = m_cb
  PROVE  Waiting' = Waiting \cup {<<EntryJob(e), e.thread>>}
<1>1. m_fibers \in Seq(FiberAndThread) /\ m_fibers' = Append(m_fibers, e)
  BY DEF CountInv, TypeOK, schedule
<1>2. PICK n : /\ n \notin DOMAIN m_fibers
               /\ DOMAIN m_fibers' = DOMAIN m_fibers \cup {n}
               /\ \A i \in DOMAIN m_fibers : m_fibers'[i] = m_fibers[i]
               /\ m_fibers'[n] = e
  BY <1>1, AppendMap
<1>3. \A x : x \in Waiting' <=> \E i \in DOMAIN m_fibers' :
                x = <<EntryJob(m_fibers'[i]), m_fibers'[i].thread>>
  BY DEF Waiting, EntryJob
<1>4. \A x : x \in Waiting <=> \E i \in DOMAIN m_fibers :
                x = <<EntryJob(m_fibers[i]), m_fibers[i].thread>>
  BY DEF Waiting
<1>5. \A x : x \in Waiting' <=> x \in Waiting \/ x = <<EntryJob(e), e.thread>>
  BY <1>2, <1>3, <1>4
<1>6. QED
  BY <1>5

\* The job of an entry is the one it names.
LEMMA EntryNames ==
  ASSUME NEW e \in FiberAndThread, OneKind(e), m_cb \in [Fibers -> Jobs]
  PROVE  EntryJob(e) \in Jobs /\ \A j \in Jobs : Names(e, j) <=> j = EntryJob(e)
BY JobsAssumption DEF EntryJob, OneKind, Names, FiberAndThread, Fibers

LEMMA WaitingLess ==
  ASSUME SafeInv, CountInv, NEW i \in DOMAIN m_fibers, m_fibers' = RemoveAt(m_fibers, i),
         m_cb' = m_cb
  PROVE  Waiting' = Waiting \ {<<EntryJob(m_fibers[i]), m_fibers[i].thread>>}
<1>1. m_fibers \in Seq(FiberAndThread) /\ m_cb \in [Fibers -> Jobs]
  BY DEF CountInv, TypeOK
<1>2. PICK h \in [DOMAIN m_fibers' -> DOMAIN m_fibers \ {i}] :
            /\ \A k \in DOMAIN m_fibers' : m_fibers'[k] = m_fibers[h[k]]
            /\ \A l \in DOMAIN m_fibers \ {i} : \E k \in DOMAIN m_fibers' : h[k] = l
  BY <1>1, RemoveAtMap
<1>3. \A k, l \in DOMAIN m_fibers : EntryJob(m_fibers[k]) = EntryJob(m_fibers[l]) => k = l
  <2>1. \A k \in DOMAIN m_fibers : /\ EntryJob(m_fibers[k]) \in Jobs
                                   /\ Names(m_fibers[k], EntryJob(m_fibers[k]))
    BY <1>1, EntryParts, EntryNames DEF SafeInv, Places, Shape
  <2>2. QED
    BY <2>1 DEF SafeInv, Places, QueueOnce
<1>4. \A x : x \in Waiting' <=> \E k \in DOMAIN m_fibers' :
                x = <<EntryJob(m_fibers'[k]), m_fibers'[k].thread>>
  BY DEF Waiting, EntryJob
<1>5. \A x : x \in Waiting <=> \E k \in DOMAIN m_fibers :
                x = <<EntryJob(m_fibers[k]), m_fibers[k].thread>>
  BY DEF Waiting
<1>6. \A x : x \in Waiting' <=> \E l \in DOMAIN m_fibers \ {i} :
                x = <<EntryJob(m_fibers[l]), m_fibers[l].thread>>
  BY <1>2, <1>4
<1>7. QED
  BY <1>3, <1>5, <1>6

LEMMA RunningSame ==
  ASSUME \A t \in RunThreads : /\ Taker(t)' <=> Taker(t)
                               /\ Taker(t) => JobOn(t)' = JobOn(t)
  PROVE  Running' = Running
BY DEF Running

LEMMA RunningMore ==
  ASSUME NEW t \in RunThreads, ~ Taker(t), Taker(t)',
         \A u \in RunThreads : u # t => (Taker(u)' <=> Taker(u)) /\ JobOn(u)' = JobOn(u)
  PROVE  /\ Running' = Running \cup {<<JobOn(t)', t>>}
         /\ \A k : <<k, t>> \notin Running
BY DEF Running

LEMMA RunningLess ==
  ASSUME NEW t \in RunThreads, Taker(t), ~ Taker(t)',
         \A u \in RunThreads : u # t => (Taker(u)' <=> Taker(u)) /\ JobOn(u)' = JobOn(u)
  PROVE  /\ Running' = Running \ {<<JobOn(t), t>>}
         /\ <<JobOn(t), t>> \in Running
BY DEF Running

LEMMA AsleepSame ==
  ASSUME \A f \in armed \cup armed' : /\ HasParked(f)' /\ f \in armed' <=> HasParked(f) /\ f \in armed
                                      /\ f \in armed => m_cb'[f] = m_cb[f]
  PROVE  Asleep' = Asleep
BY DEF Asleep

(***************************************************************************)
(* The steps of the scheduler as steps of the pool.                        *)
(***************************************************************************)
tasks == <<submitted, Waiting, Running, Asleep, finished>>

\* A step outside of fibers changes nothing.
LEMMA TaskOutside ==
  ASSUME UNCHANGED <<m_fibers, m_cb, ft, cur, armed, submitted, finished>>,
         \A t \in RunThreads : \/ pc'[t] = pc[t]
                               \/ pc[t] \notin Holding /\ pc'[t] \notin Holding
  PROVE  UNCHANGED tasks
<1>1. Waiting' = Waiting
  BY WaitingSame
<1>2. Running' = Running
  <2>1. \A t \in RunThreads : /\ Taker(t)' <=> Taker(t)
                              /\ Taker(t) => JobOn(t)' = JobOn(t)
    BY DEF Taker, JobOn, Job, EntryJob, Holding
  <2>2. QED
    BY <2>1, RunningSame
<1>3. Asleep' = Asleep
  <2>1. \A f : HasParked(f)' <=> HasParked(f)
    BY DEF HasParked, Holding
  <2>2. QED
    BY <2>1, AsleepSame
<1>4. QED
  BY <1>1, <1>2, <1>3 DEF tasks

\* A thread that keeps the fiber it carries keeps its job, unless that ends.
LEMMA TaskInStep ==
  ASSUME SafeInv, CountInv, NEW t \in RunThreads, pc[t] \in Carries, NEW v \in Carries,
         UNCHANGED <<m_fibers, m_cb, ft, cur, submitted>>,
         pc' = [pc EXCEPT ![t] = v],
         armed' \in {armed, armed \cup {cur[t]}},
         \/ finished' = finished
         \/ Job(t) \notin finished /\ finished' = finished \cup {Job(t)}
  PROVE  UNCHANGED tasks \/ Pool!Finish(Job(t), t)
<1>0. pc \in [RunThreads -> PCs] /\ "dispatch" \notin Carries /\ pc[t] # "dispatch" /\ v # "dispatch"
  BY DEF CountInv, TypeOK, Carries
<1>1. Waiting' = Waiting
  BY WaitingSame
<1>2. \A u \in RunThreads : /\ pc'[u] \in Carries <=> pc[u] \in Carries
                            /\ pc'[u] = "dispatch" <=> pc[u] = "dispatch"
                            /\ JobOn(u)' = JobOn(u) /\ Job(u)' = Job(u)
  BY <1>0 DEF JobOn, Job, EntryJob
<1>3. \A u \in RunThreads : u # t => (Taker(u)' <=> Taker(u))
  <2>1. \A u \in RunThreads : u # t /\ pc[u] \in Carries => Job(u) # Job(t)
    BY CarriedAlone
  <2>2. QED
    BY <1>2, <2>1 DEF Taker
<1>4. Asleep' = Asleep
  <2>1. \A f : HasParked(f)' <=> HasParked(f)
    BY <1>2 DEF HasParked
  <2>2. ~ HasParked(cur[t])
    BY DEF HasParked
  <2>3. QED
    BY <2>1, <2>2, AsleepSame
<1>5. CASE finished' = finished
  <2>1. Taker(t)' <=> Taker(t)
    BY <1>2, <1>5 DEF Taker
  <2>2. Running' = Running
    BY <1>2, <1>3, <2>1, RunningSame
  <2>3. QED
    BY <1>1, <1>4, <1>5, <2>2 DEF tasks
<1>6. CASE Job(t) \notin finished /\ finished' = finished \cup {Job(t)}
  <2>1. Taker(t) /\ ~ Taker(t)'
    BY <1>0, <1>2, <1>6 DEF Taker
  <2>2. JobOn(t) = Job(t)
    BY <1>0 DEF JobOn
  <2>3. Running' = Running \ {<<Job(t), t>>} /\ <<Job(t), t>> \in Running
    BY <1>2, <1>3, <2>1, <2>2, RunningLess
  <2>4. QED
    BY <1>1, <1>4, <1>6, <2>3 DEF Pool!Finish, Pool!Leave
<1>7. QED
  BY <1>5, <1>6

\* The list gets a job that is new.
LEMMA TaskSubmit ==
  ASSUME SafeInv, CountInv, NEW j \in Jobs \ submitted, schedule(EntryOf(j)),
         submitted' = submitted \cup {j},
         UNCHANGED <<m_cb, pc, ft, cur, armed, finished>>
  PROVE  Pool!Submit(j)
<1>1. EntryOf(j) \in FiberAndThread /\ EntryOf(j).thread = Pin[j] /\ EntryJob(EntryOf(j)) = j
  <2>1. m_cb[j] = j
    BY DEF SafeInv, NewFibers, Unused
  <2>2. QED
    BY <2>1, JobsAssumption DEF EntryOf, EntryJob, FiberEntry, CbEntry, FiberAndThread, Fibers
<1>2. Waiting' = Waiting \cup {<<j, Pin[j]>>}
  BY <1>1, WaitingMore
<1>3. Running' = Running /\ Asleep' = Asleep
  BY DEF Running, Taker, JobOn, EntryJob, Job, Asleep, HasParked
<1>4. QED
  BY <1>2, <1>3 DEF Pool!Submit

\* A thread takes an entry that is meant for it or for any.
LEMMA TaskTake ==
  ASSUME SafeInv, CountInv, NEW t \in RunThreads, Fetch(t)
  PROVE  \E j \in Jobs : Pool!Take(j, t)
<1>1. PICK i \in DOMAIN m_fibers : /\ ft' = [ft EXCEPT ![t] = m_fibers[i]]
                                   /\ m_fibers' = RemoveAt(m_fibers, i)
                                   /\ m_fibers[i].thread \in {AnyThread, t}
  BY DEF Fetch, Eligible
<1>2. /\ UNCHANGED <<m_cb, cur, armed, submitted, finished>>
      /\ pc[t] = "fetch" /\ pc' = [pc EXCEPT ![t] = "dispatch"]
  BY DEF Fetch
<1>3. pc \in [RunThreads -> PCs] /\ ft \in [RunThreads -> FiberAndThread]
      /\ "dispatch" \notin Carries /\ "fetch" \notin Carries
  BY DEF CountInv, TypeOK, Carries
<1> DEFINE j == EntryJob(m_fibers[i])
           h == m_fibers[i].thread
<1>4. j \in Jobs
  BY EntryParts, EntryNames DEF CountInv, TypeOK, SafeInv, Places, Shape
<1>5. Waiting' = Waiting \ {<<j, h>>} /\ <<j, h>> \in Waiting
  <2>1. <<j, h>> \in Waiting
    BY DEF Waiting
  <2>2. QED
    BY <1>1, <1>2, <2>1, WaitingLess
<1>6. JobOn(t)' = j /\ ~ Taker(t) /\ Taker(t)'
  BY <1>1, <1>2, <1>3 DEF JobOn, Taker, EntryJob
<1>7. \A u \in RunThreads : u # t => (Taker(u)' <=> Taker(u)) /\ JobOn(u)' = JobOn(u)
  BY <1>1, <1>2, <1>3 DEF JobOn, Taker, EntryJob, Job
<1> HIDE DEF j, h
<1>8. Running' = Running \cup {<<j, t>>} /\ \A k : <<k, t>> \notin Running
  BY <1>6, <1>7, RunningMore
<1>9. Asleep' = Asleep
  <2>1. \A f : HasParked(f)' <=> HasParked(f)
    BY <1>2, <1>3 DEF HasParked
  <2>2. QED
    BY <1>2, <2>1, AsleepSame
<1>10. h \in {AnyThread, t}
  BY <1>1 DEF h
<1>11. Pool!Take(j, t)
  BY <1>2, <1>5, <1>8, <1>9, <1>10 DEF Pool!Take
<1>12. QED
  BY <1>4, <1>11

\* The fiber of an entry that is swapped in has the job of the entry.
LEMMA TaskSwapIn ==
  ASSUME SafeInv, CountInv, NEW t \in RunThreads, pc[t] = "dispatch", NEW f \in Jobs,
         pc' = [pc EXCEPT ![t] = "exec"], cur' = [cur EXCEPT ![t] = f],
         UNCHANGED <<m_fibers, ft, armed, submitted, finished>>,
         m_cb'[f] = EntryJob(ft[t]), f \notin armed,
         \A g \in Jobs : g # f => m_cb'[g] = m_cb[g],
         m_cb'[f] = m_cb[f] \/ Spare(f)
  PROVE  UNCHANGED tasks
<1>0. /\ pc \in [RunThreads -> PCs] /\ cur \in [RunThreads -> Fibers \cup {None}]
      /\ "dispatch" \notin Carries /\ "exec" \in Carries /\ "exec" # "dispatch"
  BY DEF CountInv, TypeOK, Carries
<1>1. Waiting' = Waiting
  <2>1. \A i \in DOMAIN m_fibers : m_fibers[i].fiber # None => m_fibers[i].fiber \in Jobs
    BY EntryParts
  <2>2. \A i \in DOMAIN m_fibers : m_fibers[i].fiber # None =>
           m_cb'[m_fibers[i].fiber] = m_cb[m_fibers[i].fiber]
    BY <2>1 DEF Spare
  <2>3. QED
    BY <2>2, WaitingSame
<1>2. EntryJob(ft[t]) \notin finished
  <2>1. /\ OneKind(ft[t]) /\ ft[t] \in FiberAndThread /\ m_cb \in [Fibers -> Jobs]
    BY EntryParts DEF CountInv, TypeOK, SafeInv, Places, Shape, Holding
  <2>2. EntryJob(ft[t]) \in Jobs /\ Names(ft[t], EntryJob(ft[t]))
    BY <2>1, EntryNames
  <2>3. QED
    BY <2>2 DEF SafeInv, Work, ThreadWork
<1>3. /\ Taker(t) /\ Taker(t)' /\ JobOn(t) = EntryJob(ft[t]) /\ JobOn(t)' = EntryJob(ft[t])
  BY <1>0, <1>2 DEF Taker, JobOn, Job
<1>4. ASSUME NEW u \in RunThreads, u # t
      PROVE  (Taker(u)' <=> Taker(u)) /\ (Taker(u) => JobOn(u)' = JobOn(u))
  <2>1. pc'[u] = pc[u] /\ cur'[u] = cur[u] /\ ft'[u] = ft[u]
    BY <1>0, <1>4
  <2>2. CASE pc[u] = "dispatch"
    <3>1. ft[u].fiber # None => ft[u].fiber \in Jobs
      BY EntryParts
    <3>2. ft[u].fiber # None => m_cb'[ft[u].fiber] = m_cb[ft[u].fiber]
      BY <2>2, <3>1 DEF Spare
    <3>3. QED
      BY <2>1, <2>2, <3>2 DEF Taker, JobOn, EntryJob
  <2>3. CASE pc[u] \in Carries
    <3>1. cur[u] \in Jobs
      BY <2>3, CarriedAlone
    <3>2. m_cb'[cur[u]] = m_cb[cur[u]]
      BY <2>3, <3>1 DEF Spare
    <3>3. QED
      BY <1>0, <2>1, <2>3, <3>2 DEF Taker, JobOn, Job
  <2>4. CASE pc[u] # "dispatch" /\ pc[u] \notin Carries
    BY <2>1, <2>4 DEF Taker
  <2>5. QED
    BY <2>2, <2>3, <2>4
<1>5. Running' = Running
  BY <1>3, <1>4, RunningSame
<1>6. Asleep' = Asleep
  <2>1. armed \subseteq Jobs
    BY DEF CountInv, TypeOK, Fibers
  <2>2. \A g \in armed : m_cb'[g] = m_cb[g] /\ g # f
    BY <2>1
  <2>3. \A g \in armed : HasParked(g)' <=> HasParked(g)
    BY <1>0, <2>2 DEF HasParked
  <2>4. QED
    BY <2>2, <2>3, AsleepSame
<1>7. QED
  BY <1>1, <1>5, <1>6 DEF tasks

LEMMA TaskDispatch ==
  ASSUME SafeInv, CountInv, NEW t \in RunThreads, DispatchFiber(t) \/ DispatchCb(t)
  PROVE  UNCHANGED tasks
<1>1. CASE DispatchFiber(t)
  <2> DEFINE f == ft[t].fiber
  <2>1. pc[t] = "dispatch" /\ f # None
    BY <1>1 DEF DispatchFiber
  <2>2. f \in Jobs /\ m_state[f] \notin Dead /\ f \notin armed
    BY <2>1, PoppedFiber
  <2>3. /\ pc' = [pc EXCEPT ![t] = "exec"] /\ cur' = [cur EXCEPT ![t] = f]
        /\ UNCHANGED <<m_fibers, ft, armed, submitted, finished, m_cb>>
    BY <1>1, <2>2 DEF DispatchFiber, swapIn
  <2>4. m_cb'[f] = EntryJob(ft[t])
    BY <2>1, <2>3 DEF EntryJob
  <2> HIDE DEF f
  <2>5. QED
    BY <2>1, <2>2, <2>3, <2>4, TaskSwapIn
<1>2. CASE DispatchCb(t)
  <2> DEFINE c == ft[t].cb
             f == IF cb_fiber[t] # None THEN cb_fiber[t] ELSE c
  <2>1. /\ pc[t] = "dispatch" /\ c # None
        /\ m_cb' = [m_cb EXCEPT ![f] = c]
        /\ pc' = [pc EXCEPT ![t] = "exec"] /\ cur' = [cur EXCEPT ![t] = f]
        /\ UNCHANGED <<m_fibers, ft, armed, submitted, finished>>
    BY <1>2 DEF DispatchCb, swapIn
  <2>2. c \in Jobs /\ Unused(c)
    BY <2>1, EntryParts DEF SafeInv, NewFibers
  <2>3. ft[t].fiber = None
    BY <2>1 DEF SafeInv, Places, Shape, OneKind, Holding
  <2>4. f \in Jobs /\ Spare(f)
    <3>1. ~ InCb(t)
      BY <2>1 DEF InCb, Carries
    <3>2. cb_fiber[t] # None => cb_fiber[t] \in Jobs /\ Spare(cb_fiber[t])
      BY <3>1 DEF SafeInv, CbFibers, CountInv, TypeOK, Fibers
    <3>3. QED
      BY <2>2, <3>2 DEF Unused
  <2>5. m_cb \in [Jobs -> Jobs]
    BY DEF CountInv, TypeOK, Fibers
  <2>6. m_cb'[f] = EntryJob(ft[t]) /\ \A g \in Jobs : g # f => m_cb'[g] = m_cb[g]
    BY <2>1, <2>3, <2>4, <2>5 DEF EntryJob
  <2>7. f \notin armed
    BY <2>4 DEF Spare
  <2> HIDE DEF f, c
  <2>8. QED
    BY <2>1, <2>4, <2>6, <2>7, TaskSwapIn
<1>3. QED
  BY <1>1, <1>2

\* A thread lets go of its fiber: to the list, to the waker, or at its end.
LEMMA TaskLeave ==
  ASSUME SafeInv, CountInv, NEW t \in RunThreads, pc[t] \in Carries,
         pc' = [pc EXCEPT ![t] = "fetch"],
         ft' = [ft EXCEPT ![t] = NoEntry],
         UNCHANGED <<m_cb, cur, armed, finished>>
  PROVE  /\ Job(t) \notin finished =>
              Running' = Running \ {<<Job(t), t>>} /\ <<Job(t), t>> \in Running
         /\ Job(t) \in finished => Running' = Running
         /\ Asleep' = IF cur[t] \in armed THEN Asleep \cup {Job(t)} ELSE Asleep
<1>0. /\ pc \in [RunThreads -> PCs] /\ ft \in [RunThreads -> FiberAndThread]
      /\ "dispatch" \notin Carries /\ "fetch" \notin Carries
  BY DEF CountInv, TypeOK, Carries
<1>1. ~ Taker(t)' /\ (Taker(t) <=> Job(t) \notin finished) /\ JobOn(t) = Job(t)
  BY <1>0 DEF Taker, JobOn
<1>2. \A u \in RunThreads : u # t => (Taker(u)' <=> Taker(u)) /\ JobOn(u)' = JobOn(u)
  BY <1>0 DEF JobOn, Taker, EntryJob, Job
<1>3. Job(t) \notin finished => Running' = Running \ {<<Job(t), t>>} /\ <<Job(t), t>> \in Running
  BY <1>1, <1>2, RunningLess
<1>4. Job(t) \in finished => Running' = Running
  BY <1>1, <1>2, RunningSame
<1>5. \A u \in RunThreads : u # t /\ pc[u] \in Carries => cur[u] # cur[t]
  BY CarriedAlone
<1>6. \A f : HasParked(f)' <=> HasParked(f) \/ f = cur[t]
  BY <1>0, <1>5 DEF HasParked
<1>7. Asleep' = IF cur[t] \in armed THEN Asleep \cup {Job(t)} ELSE Asleep
  BY <1>6 DEF Asleep, Job
<1>8. QED
  BY <1>3, <1>4, <1>7

LEMMA TaskRun ==
  ASSUME SafeInv, CountInv, NEW t \in RunThreads, run(t)
  PROVE  UNCHANGED tasks \/ Pool!Next
<1>0. /\ {"exec", "arming", "yielded", "after", "check", "sethold"} = Carries
      /\ {"fetch", "idle", "done"} \cap Holding = {} /\ pc \in [RunThreads -> PCs]
      /\ Dead \cap {"EXEC", "HOLD", "READY"} = {}
  BY DEF CountInv, TypeOK, Carries, Holding, Dead
<1>1. CASE Fetch(t)
  BY <1>1, TaskTake DEF Pool!Next
<1>2. CASE FetchNone(t) \/ Exit(t) \/ Idle(t)
  <2>1. /\ UNCHANGED <<m_fibers, m_cb, ft, cur, armed, submitted, finished>>
        /\ pc[t] \in {"fetch", "idle"}
    BY <1>2 DEF FetchNone, Exit, Idle
  <2>2. PICK v \in {"fetch", "idle", "done"} : pc' = [pc EXCEPT ![t] = v]
    BY <1>2 DEF FetchNone, Exit, Idle
  <2>3. \A u \in RunThreads : \/ pc'[u] = pc[u]
                              \/ pc[u] \notin Holding /\ pc'[u] \notin Holding
    BY <1>0, <2>1, <2>2
  <2>4. QED
    BY <2>1, <2>3, TaskOutside
<1>3. CASE DispatchFiber(t) \/ DispatchCb(t)
  BY <1>3, TaskDispatch
<1>4. CASE Spawn(t)
  <2>1. PICK k \in Jobs \ submitted : schedule(EntryOf(k)) /\ submitted' = submitted \cup {k}
    BY <1>4 DEF Spawn
  <2>2. UNCHANGED <<m_cb, pc, ft, cur, armed, finished>>
    BY <1>4 DEF Spawn
  <2>3. Pool!Submit(k)
    BY <2>1, <2>2, TaskSubmit
  <2>4. QED
    BY <2>3 DEF Pool!Next
<1>5. CASE YieldToReady(t) \/ Arm(t) \/ YieldToHold(t) \/ Finish(t) \/ swapOut(t) \/ Deactivate(t) \/ Held(t)
  <2>1. UNCHANGED <<m_fibers, m_cb, ft, cur, submitted>> /\ pc[t] \in Carries
    BY <1>0, <1>5 DEF YieldToReady, Arm, YieldToHold, Finish, swapOut, Deactivate, Held
  <2>2. \E v \in Carries : pc' = [pc EXCEPT ![t] = v]
    BY <1>0, <1>5 DEF YieldToReady, Arm, YieldToHold, Finish, swapOut, Deactivate, Held
  <2>3. armed' \in {armed, armed \cup {cur[t]}}
    BY <1>5 DEF YieldToReady, Arm, YieldToHold, Finish, swapOut, Deactivate, Held
  <2>4. \/ finished' = finished
        \/ Job(t) \notin finished /\ finished' = finished \cup {Job(t)}
    <3>1. CASE Finish(t)
      BY <3>1 DEF Finish
    <3>2. CASE ~ Finish(t)
      BY <1>5, <3>2 DEF YieldToReady, Arm, YieldToHold, swapOut, Deactivate, Held
    <3>3. QED
      BY <3>1, <3>2
  <2>5. UNCHANGED tasks \/ Pool!Finish(Job(t), t)
    BY <2>1, <2>2, <2>3, <2>4, TaskInStep
  <2>6. Job(t) \in Jobs
    BY <2>1, CarriedAlone
  <2>7. QED
    BY <2>5, <2>6 DEF Pool!Next
<1>6. CASE Requeue(t)
  <2>1. /\ pc[t] = "check" /\ m_state[cur[t]] = "READY"
        /\ schedule(FiberEntry(cur[t], AnyThread))
        /\ ft' = [ft EXCEPT ![t] = NoEntry]
        /\ pc' = [pc EXCEPT ![t] = "fetch"]
        /\ UNCHANGED <<m_cb, cur, armed, submitted, finished>>
    BY <1>6 DEF Requeue
  <2>2. pc[t] \in Carries /\ cur[t] \in Jobs /\ cur[t] # None /\ Job(t) \in Jobs
    BY <1>0, <2>1, CarriedAlone
  <2>3. cur[t] \notin armed /\ Job(t) \notin finished
    BY <1>0, <2>1, <2>2 DEF SafeInv, States, ArmedState, Work, ThreadWork
  <2>4. /\ FiberEntry(cur[t], AnyThread) \in FiberAndThread
        /\ EntryJob(FiberEntry(cur[t], AnyThread)) = Job(t)
        /\ FiberEntry(cur[t], AnyThread).thread = AnyThread
    BY <2>2 DEF FiberEntry, FiberAndThread, Fibers, EntryJob, Job
  <2>5. Waiting' = Waiting \cup {<<Job(t), AnyThread>>}
    BY <2>1, <2>4, WaitingMore
  <2>6. Running' = Running \ {<<Job(t), t>>} /\ <<Job(t), t>> \in Running /\ Asleep' = Asleep
    BY <2>1, <2>2, <2>3, TaskLeave
  <2>7. Pool!Yield(Job(t), t)
    BY <2>1, <2>5, <2>6 DEF Pool!Yield, Pool!Leave
  <2>8. QED
    BY <2>2, <2>7 DEF Pool!Next
<1>7. CASE Retire(t)
  <2>1. /\ pc[t] = "check" /\ m_state[cur[t]] \in Dead
        /\ ft' = [ft EXCEPT ![t] = NoEntry]
        /\ pc' = [pc EXCEPT ![t] = "fetch"]
        /\ UNCHANGED <<m_fibers, m_cb, cur, armed, submitted, finished>>
    BY <1>7 DEF Retire
  <2>2. pc[t] \in Carries /\ Job(t) \in finished /\ cur[t] \notin armed
    BY <1>0, <2>1 DEF SafeInv, States, ArmedState, Work, ThreadWork
  <2>3. Running' = Running /\ Asleep' = Asleep
    BY <2>1, <2>2, TaskLeave
  <2>4. QED
    BY <2>1, <2>3, WaitingSame DEF tasks
<1>8. CASE SetHold(t)
  <2>1. /\ pc[t] = "sethold"
        /\ ft' = [ft EXCEPT ![t] = NoEntry]
        /\ pc' = [pc EXCEPT ![t] = "fetch"]
        /\ UNCHANGED <<m_fibers, m_cb, cur, armed, submitted, finished>>
    BY <1>8 DEF SetHold
  <2>2. pc[t] \in Carries /\ m_state[cur[t]] = "HOLD"
    BY <1>0, <2>1 DEF SafeInv, States, CarriedState
  <2>3. cur[t] \in armed /\ Job(t) \notin finished /\ Job(t) \in Jobs
    BY <1>0, <2>2, CarriedAlone DEF SafeInv, States, ParkedIsArmed, Work, ThreadWork
  <2>4. Running' = Running \ {<<Job(t), t>>} /\ <<Job(t), t>> \in Running
        /\ Asleep' = Asleep \cup {Job(t)}
    BY <2>1, <2>2, <2>3, TaskLeave
  <2>5. Pool!Sleep(Job(t), t)
    BY <2>1, <2>4, WaitingSame DEF Pool!Sleep, Pool!Leave
  <2>6. QED
    BY <2>3, <2>5 DEF Pool!Next
<1>9. QED
  BY <1>1, <1>2, <1>3, <1>4, <1>5, <1>6, <1>7, <1>8 DEF run, UserCode

LEMMA TaskWake ==
  ASSUME SafeInv, CountInv, WakeAfterPark, NEW f \in Fibers, Wake(f)
  PROVE  Pool!Wake(m_cb[f]) /\ m_cb[f] \in Jobs
<1>1. /\ f \in Jobs /\ f # None /\ f \in armed /\ HasParked(f) /\ armed' = armed \ {f}
      /\ schedule(FiberEntry(f, AnyThread))
      /\ UNCHANGED <<m_cb, pc, ft, cur, submitted, finished>>
  BY JobsAssumption DEF Wake, Fibers
<1>2. /\ FiberEntry(f, AnyThread) \in FiberAndThread
      /\ EntryJob(FiberEntry(f, AnyThread)) = m_cb[f]
      /\ FiberEntry(f, AnyThread).thread = AnyThread
  BY <1>1 DEF FiberEntry, FiberAndThread, Fibers, EntryJob
<1>3. Waiting' = Waiting \cup {<<m_cb[f], AnyThread>>}
  BY <1>1, <1>2, WaitingMore
<1>4. Running' = Running
  BY <1>1 DEF Running, Taker, JobOn, EntryJob, Job
<1>5. m_cb[f] \in Asleep /\ Asleep' = Asleep \ {m_cb[f]}
  <2>1. \A g \in armed : m_cb[g] = m_cb[f] => g = f
    BY <1>1 DEF SafeInv, Places, ArmedOnce
  <2>2. \A g : HasParked(g)' <=> HasParked(g)
    BY <1>1 DEF HasParked
  <2>3. QED
    BY <1>1, <2>1, <2>2 DEF Asleep
<1>6. m_cb[f] \in Jobs
  BY <1>1 DEF CountInv, TypeOK, Fibers
<1>7. QED
  BY <1>1, <1>3, <1>4, <1>5, <1>6 DEF Pool!Wake

LEMMA TaskNext ==
  ASSUME SafeInv, CountInv, WakeAfterPark, [Next]_vars
  PROVE  UNCHANGED tasks \/ Pool!Next
<1>1. CASE \E t \in RunThreads : run(t)
  BY <1>1, TaskRun
<1>2. CASE \E f \in Fibers : Wake(f)
  BY <1>2, TaskWake DEF Pool!Next
<1>3. ASSUME NEW j \in Jobs, Submit(j) PROVE Pool!Next
  <2>1. /\ j \in Jobs \ submitted /\ schedule(EntryOf(j)) /\ submitted' = submitted \cup {j}
        /\ UNCHANGED <<m_cb, pc, ft, cur, armed, finished>>
    BY <1>3 DEF Submit
  <2>2. QED
    BY <2>1, TaskSubmit DEF Pool!Next
<1>4. CASE start \/ stop \/ StopSteps
  <2>1. UNCHANGED <<m_fibers, m_cb, ft, cur, armed, submitted, finished>>
    BY <1>4 DEF start, stop, StopSteps, StopFlag, StopCall, StopNoCall, CallReturn, Join
  <2>2. QED
    BY <1>4, <2>1, MainOutside, TaskOutside
<1>5. CASE UNCHANGED vars
  BY <1>5, TaskOutside DEF vars
<1>6. QED
  BY <1>1, <1>2, <1>3, <1>4, <1>5 DEF Next

(***************************************************************************)
(* When wakers run after the fiber has parked, run(), schedule() and the   *)
(* context switches implement a pool of tasks, for every pool of threads   *)
(* and every workload: a job is taken once from where it waits, first by   *)
(* the thread schedule() named, runs on that thread alone, waits again     *)
(* after each yield and each wake-up, and is not touched after its end.    *)
(***************************************************************************)
THEOREM SchedulerIsPool == WakeAfterPark => (Spec => PoolSpec)
<1> SUFFICES ASSUME WakeAfterPark PROVE Spec => PoolSpec
  OBVIOUS
<1>1. Init => Pool!Init
  BY DEF Init, Pool!Init, Waiting, Running, Asleep, Taker, Carries
<1>2. SafeInv /\ CountInv /\ [Next]_vars => [Pool!Next]_(Pool!taskvars)
  BY TaskNext DEF tasks, Pool!taskvars
<1>3. QED
  BY <1>1, <1>2, SafeInvariant, PTL DEF Spec, PoolSpec, Pool!Spec

-----------------------------------------------------------------------------
(***************************************************************************)
(* Aborts.  With use_caller a second call of stop() would resume the root  *)
(* fiber behind its end, so NoAbort is about programs that call stop()     *)
(* once; without use_caller stop() may be called any number of times.      *)
(***************************************************************************)
RootInv == UseCaller =>
  /\ calls.stop = 0 => rootState = "INIT" /\ mpc = "user"
  /\ mpc \in {"stop_flag", "stop_call"} => rootState = "INIT"

AbortInv == SafeInv /\ CountInv /\ RootInv /\ ~ aborted

\* What a step of a thread does to the pool.
LEMMA RunShape ==
  ASSUME CountInv, NEW t \in RunThreads, run(t)
  PROVE  /\ UNCHANGED <<mpc, calls, m_stopping, m_autoStop>>
         /\ pc[t] \notin {"off", "done"} /\ pc'[t] # "off"
         /\ \A u \in RunThreads : u # t => pc'[u] = pc[u] /\ idleTerm'[u] = idleTerm[u]
         /\ pc'[t] = "done" => Exit(t)
         /\ idleTerm'[t] => idleTerm[t] \/ stopping
         /\ t # Main => rootState' = rootState
<1>1. pc \in [RunThreads -> PCs] /\ idleTerm \in [RunThreads -> BOOLEAN]
  BY DEF CountInv, TypeOK
<1>2. CASE Fetch(t) \/ FetchNone(t) \/ Exit(t)
  BY <1>1, <1>2 DEF Fetch, FetchNone, Exit
<1>3. CASE Idle(t)
  BY <1>1, <1>3 DEF Idle
<1>4. CASE DispatchFiber(t) \/ DispatchCb(t)
  BY <1>1, <1>4 DEF DispatchFiber, DispatchCb, swapIn
<1>5. CASE UserCode(t)
  BY <1>1, <1>5 DEF UserCode, Spawn, YieldToReady, Arm, YieldToHold, Finish
<1>6. CASE swapOut(t) \/ Deactivate(t) \/ Held(t)
  BY <1>1, <1>6 DEF swapOut, Deactivate, Held
<1>7. CASE Requeue(t) \/ Retire(t) \/ SetHold(t)
  BY <1>1, <1>7 DEF Requeue, Retire, SetHold
<1>8. QED
  BY <1>2, <1>3, <1>4, <1>5, <1>6, <1>7 DEF run

LEMMA RootNext ==
  ASSUME AbortInv, WakeAfterPark, UseCaller => MaxStops <= 1, [Next]_vars
  PROVE  RootInv' /\ ~ aborted'
<1>0. calls.stop \in Nat /\ MaxStops \in Nat /\ UseCaller \in BOOLEAN
  BY BoundsAssumption, ThreadsAssumption DEF AbortInv, CountInv, TypeOK
<1>1. ASSUME NEW t \in RunThreads, run(t) PROVE RootInv' /\ ~ aborted'
  <2>1. UNCHANGED <<mpc, calls>> /\ pc[t] # "off" /\ (t # Main => rootState' = rootState)
    BY <1>1, RunShape DEF AbortInv
  <2>2. t = Main => UseCaller /\ mpc = "call"
    BY <2>1, ThreadsAssumption DEF AbortInv, CountInv, PoolOK, RunThreads
  <2>3. RootInv'
    BY <2>1, <2>2 DEF AbortInv, RootInv
  <2>4. QED
    BY <1>1, <2>3, SafeRun DEF AbortInv
<1>2. ASSUME NEW f \in Fibers, Wake(f) PROVE RootInv' /\ ~ aborted'
  BY <1>2 DEF Wake, AbortInv, RootInv
<1>3. ASSUME NEW j \in Jobs, Submit(j) PROVE RootInv' /\ ~ aborted'
  BY <1>3 DEF Submit, AbortInv, RootInv
<1>4. CASE start
  <2>1. ~ aborted'
    BY <1>4 DEF start, AbortInv, CountInv, PoolOK
  <2>2. rootState' = rootState /\ mpc' = mpc /\ calls'.stop = calls.stop
    BY <1>4 DEF start, AbortInv, CountInv, TypeOK
  <2>3. QED
    BY <2>1, <2>2 DEF AbortInv, RootInv
<1>5. CASE stop
  <2>1. calls.stop < MaxStops /\ calls'.stop = calls.stop + 1 /\ rootState' = rootState
        /\ mpc' = "stop_flag" /\ ~ aborted'
    BY <1>5 DEF stop, AbortInv, CountInv, TypeOK
  <2>2. UseCaller => calls.stop = 0
    BY <1>0, <2>1
  <2>3. QED
    BY <1>0, <2>1, <2>2 DEF AbortInv, RootInv
<1>6. CASE StopFlag \/ StopNoCall \/ CallReturn \/ Join
  BY <1>6 DEF StopFlag, StopNoCall, CallReturn, Join, AbortInv, RootInv
<1>7. CASE StopCall
  BY <1>7 DEF StopCall, AbortInv, RootInv
<1>8. CASE UNCHANGED vars
  BY <1>8 DEF vars, AbortInv, RootInv
<1>9. QED
  BY <1>1, <1>2, <1>3, <1>4, <1>5, <1>6, <1>7, <1>8 DEF Next, StopSteps

\* No assertion of swapIn(), reset(), start() or the root fiber's end fails
\* when wakers run after the fiber has parked and, with use_caller, stop() is
\* called once.
THEOREM AssertionsHold ==
  WakeAfterPark /\ (UseCaller => MaxStops <= 1) => (Spec => []NoAbort)
<1> SUFFICES ASSUME WakeAfterPark, UseCaller => MaxStops <= 1 PROVE Spec => []NoAbort
  OBVIOUS
<1>1. Init => AbortInv
  <2> SUFFICES ASSUME Init PROVE AbortInv
    OBVIOUS
  <2>1. RootInv /\ ~ aborted
    BY DEF Init, RootInv
  <2>2. QED
    BY <2>1, SafeInit, CountInit DEF AbortInv
<1>2. AbortInv /\ [Next]_vars => AbortInv'
  BY SafeNext, CountNext, RootNext DEF AbortInv
<1>3. AbortInv => NoAbort
  BY DEF AbortInv, NoAbort
<1>4. QED
  BY <1>1, <1>2, <1>3, PTL DEF Spec

-----------------------------------------------------------------------------
(***************************************************************************)
(* What stop() leaves behind.  A thread may leave run() while another is   *)
(* about to put a READY fiber back, for it is no longer counted; that      *)
(* other thread then runs it itself.  So it is the last thread to leave    *)
(* that finds the list empty, and only wakers fill it afterwards.  This    *)
(* needs entries that every thread may take, and a stop() that is the      *)
(* first since start(): a second one joins no thread.                      *)
(***************************************************************************)
Unpinned == \A j \in Jobs : Pin[j] = AnyThread
AllOut == \A t \in RunThreads : pc[t] \in {"done", "off"}

Drained == (mpc = "join" \/ \E t \in RunThreads : pc[t] = "done") /\ AllOut =>
              \A i \in DOMAIN m_fibers, j \in Jobs : Names(m_fibers[i], j) => j \in parked
Loose == \A i \in DOMAIN m_fibers : m_fibers[i].thread = AnyThread
\* Threads begin to leave only after StopFlag.
Staying == mpc \in {"user", "stop_flag"} =>
              \A t \in RunThreads : pc[t] # "done" /\ (pc[t] # "off" => ~ idleTerm[t])
\* From start() to the join the workers exist.
Started ==
  /\ mpc = "user" /\ calls.start > 0 /\ calls.stop = 0 => ~ m_stopping
  /\ (mpc = "user" /\ calls.start > 0 /\ calls.stop = 0) \/ mpc # "user" =>
        \A w \in Workers : pc[w] # "off"
  /\ mpc = "stop_flag" => ~ m_stopping
  /\ mpc # "user" => calls.stop # 0

DrainInv == Drained /\ Loose /\ Staying /\ Started

LEMMA DrainInit == Init => DrainInv
BY DEF Init, DrainInv, Drained, Loose, Staying, Started, RunThreads

\* The list keeps entries for every thread.
LEMMA LooseNext ==
  ASSUME SafeInv, CountInv, Loose, Unpinned, [Next]_vars
  PROVE  Loose'
<1>1. ASSUME NEW e \in FiberAndThread, e.thread = AnyThread, schedule(e) PROVE Loose'
  <2>1. m_fibers \in Seq(FiberAndThread) /\ m_fibers' = Append(m_fibers, e)
    BY <1>1 DEF CountInv, TypeOK, schedule
  <2>2. PICK n : /\ n \notin DOMAIN m_fibers
                 /\ DOMAIN m_fibers' = DOMAIN m_fibers \cup {n}
                 /\ \A i \in DOMAIN m_fibers : m_fibers'[i] = m_fibers[i]
                 /\ m_fibers'[n] = e
    BY <2>1, AppendMap
  <2>3. QED
    BY <1>1, <2>2 DEF Loose
<1>2. /\ \A f \in Fibers : FiberEntry(f, AnyThread).thread = AnyThread
      /\ \A j \in Jobs : EntryOf(j).thread = AnyThread
  BY DEF Unpinned, FiberEntry, CbEntry, EntryOf
<1>3. /\ \A f \in Fibers : FiberEntry(f, AnyThread) \in FiberAndThread
      /\ \A j \in Jobs : EntryOf(j) \in FiberAndThread
  BY EntryTypes DEF Fibers
<1>4. ASSUME NEW t \in RunThreads, Fetch(t) PROVE Loose'
  <2>1. PICK i \in DOMAIN m_fibers : m_fibers' = RemoveAt(m_fibers, i)
    BY <1>4 DEF Fetch
  <2>2. m_fibers \in Seq(FiberAndThread)
    BY DEF CountInv, TypeOK
  <2>3. PICK h \in [DOMAIN m_fibers' -> DOMAIN m_fibers \ {i}] :
               \A k \in DOMAIN m_fibers' : m_fibers'[k] = m_fibers[h[k]]
    BY <2>1, <2>2, RemoveAtMap
  <2>4. \A k \in DOMAIN m_fibers' : h[k] \in DOMAIN m_fibers
    BY <2>3
  <2>5. QED
    BY <2>3, <2>4 DEF Loose
<1>5. ASSUME NEW t \in RunThreads, Spawn(t) PROVE Loose'
  BY <1>1, <1>2, <1>3, <1>5 DEF Spawn
<1>6. ASSUME NEW t \in RunThreads, Requeue(t) PROVE Loose'
  <2>1. cur[t] \in Fibers /\ schedule(FiberEntry(cur[t], AnyThread))
    BY <1>6 DEF Requeue, CountInv, CurOK, Carries
  <2>2. QED
    BY <1>1, <1>2, <1>3, <2>1
<1>7. ASSUME NEW f \in Fibers, Wake(f) PROVE Loose'
  BY <1>1, <1>2, <1>3, <1>7 DEF Wake
<1>8. ASSUME NEW j \in Jobs, Submit(j) PROVE Loose'
  BY <1>1, <1>2, <1>3, <1>8 DEF Submit
<1>9. CASE UNCHANGED m_fibers
  BY <1>9 DEF Loose
<1>10. ASSUME NEW t \in RunThreads, run(t), ~ Fetch(t), ~ Spawn(t), ~ Requeue(t) PROVE UNCHANGED m_fibers
  BY <1>10 DEF run, UserCode, FetchNone, Exit, Idle, DispatchFiber, DispatchCb, YieldToReady, Arm,
     YieldToHold, Finish, swapOut, Deactivate, Held, Retire, SetHold
<1>11. start \/ stop \/ StopSteps => UNCHANGED m_fibers
  BY DEF start, stop, StopSteps, StopFlag, StopCall, StopNoCall, CallReturn, Join
<1>12. UNCHANGED vars => UNCHANGED m_fibers
  BY DEF vars
<1>13. ASSUME NEW t \in RunThreads, run(t) PROVE Loose'
  BY <1>4, <1>5, <1>6, <1>9, <1>10, <1>13
<1>14. QED
  BY <1>7, <1>8, <1>9, <1>11, <1>12, <1>13 DEF Next

\* The last thread to leave run() leaves an empty list.
LEMMA LastOut ==
  ASSUME SafeInv, CountInv, Loose, NEW t \in RunThreads, Exit(t),
         \A u \in RunThreads : u # t => pc[u] \in {"done", "off"}
  PROVE  DOMAIN m_fibers = {}
<1> SUFFICES ASSUME NEW i \in DOMAIN m_fibers PROVE FALSE
  OBVIOUS
<1>1. pc[t] = "fetch" /\ ~ Eligible(t, i)
  BY DEF Exit, NothingFor
<1>2. m_fibers[i].thread = AnyThread
  BY DEF Loose
<1>3. m_fibers[i].fiber # None /\ m_state[m_fibers[i].fiber] = "EXEC"
  BY <1>1, <1>2 DEF Eligible
<1>4. m_fibers[i].fiber \in Fibers
  BY <1>3, EntryParts DEF Fibers
<1>5. PICK u \in RunThreads : pc[u] \in {"exec", "arming"}
  BY <1>3, <1>4 DEF SafeInv, States, ExecIsCarried
<1>6. QED
  BY <1>1, <1>5

LEMMA DrainRun ==
  ASSUME SafeInv, CountInv, DrainInv, NEW t \in RunThreads, run(t)
  PROVE  Drained' /\ Staying' /\ Started'
<1>1. /\ UNCHANGED <<mpc, calls, m_stopping, m_autoStop>>
      /\ pc[t] \notin {"off", "done"} /\ pc'[t] # "off"
      /\ \A u \in RunThreads : u # t => pc'[u] = pc[u] /\ idleTerm'[u] = idleTerm[u]
      /\ pc'[t] = "done" => Exit(t)
      /\ idleTerm'[t] => idleTerm[t] \/ stopping
  BY RunShape
<1>2. Started'
  <2>1. Workers \subseteq RunThreads
    BY DEF RunThreads
  <2>2. QED
    BY <1>1, <2>1 DEF DrainInv, Started
<1>3. Staying'
  <2>1. SUFFICES ASSUME mpc \in {"user", "stop_flag"} PROVE pc'[t] # "done" /\ ~ idleTerm'[t]
    BY <1>1 DEF Staying, DrainInv
  <2>2. ~ idleTerm[t]
    BY <1>1, <2>1 DEF Staying, DrainInv
  <2>3. ~ m_stopping
    <3>1. CASE mpc = "stop_flag"
      BY <3>1 DEF DrainInv, Started
    <3>2. CASE mpc = "user"
      <4>1. t = Main => pc[t] = "off"
        BY <3>2, ThreadsAssumption DEF CountInv, PoolOK, RunThreads
      <4>2. t \in Workers
        BY <1>1, <4>1 DEF RunThreads
      <4>3. QED
        BY <1>1, <3>2, <4>2 DEF CountInv, PoolOK
    <3>3. QED
      BY <2>1, <3>1, <3>2
  <2>4. ~ stopping
    BY <2>3 DEF stopping
  <2>5. QED
    BY <1>1, <2>2, <2>4 DEF Exit
<1>4. Drained'
  <2>1. SUFFICES ASSUME AllOut' PROVE DOMAIN m_fibers' = {}
    BY DEF Drained
  <2>2. \A u \in RunThreads : pc'[u] \in {"done", "off"}
    BY <2>1 DEF AllOut
  <2>3. Exit(t) /\ \A u \in RunThreads : u # t => pc[u] \in {"done", "off"}
    BY <1>1, <2>2
  <2>4. DOMAIN m_fibers = {}
    BY <2>3, LastOut DEF DrainInv
  <2>5. m_fibers' = m_fibers
    BY <2>3 DEF Exit
  <2>6. QED
    BY <2>4, <2>5
<1>5. QED
  BY <1>2, <1>3, <1>4

LEMMA DrainMain ==
  ASSUME SafeInv, CountInv, DrainInv, MaxStops <= 1, start \/ stop \/ StopSteps
  PROVE  Drained' /\ Staying' /\ Started'
<1>0. /\ calls \in [start : Nat, stop : Nat] /\ MaxStops \in Nat
      /\ pc \in [RunThreads -> PCs] /\ idleTerm \in [RunThreads -> BOOLEAN]
      /\ Workers \subseteq RunThreads /\ Main \notin Workers
      /\ RunThreads \subseteq Workers \cup {Main}
      /\ UseCaller <=> Main \in RunThreads
  BY BoundsAssumption, ThreadsAssumption DEF CountInv, TypeOK, RunThreads
<1>a. mpc # "call" /\ Main \in RunThreads => pc[Main] = "off"
  BY <1>0 DEF CountInv, PoolOK
<1>1. CASE start
  <2>1. /\ mpc = "user" /\ mpc' = "user" /\ m_stopping' = FALSE
        /\ calls' = [calls EXCEPT !.start = @ + 1]
        /\ pc' = [u \in RunThreads |-> IF u \in Workers THEN "fetch" ELSE pc[u]]
        /\ idleTerm' = [u \in RunThreads |-> IF u \in Workers THEN FALSE ELSE idleTerm[u]]
    BY <1>1 DEF start
  <2>2. \A u \in RunThreads : pc'[u] # "done" /\ (pc'[u] # "off" => ~ idleTerm'[u])
    BY <1>0, <1>a, <2>1
  <2>3. \A w \in Workers : pc'[w] # "off"
    BY <1>0, <2>1
  <2>4. QED
    BY <2>1, <2>2, <2>3 DEF Drained, Staying, Started
<1>2. CASE stop
  <2>1. /\ mpc = "user" /\ mpc' = "stop_flag" /\ calls.start > 0 /\ calls.stop < MaxStops
        /\ UNCHANGED <<pc, idleTerm, m_stopping>>
        /\ calls' = [calls EXCEPT !.stop = @ + 1]
    BY <1>2 DEF stop
  <2>2. calls.stop = 0 /\ calls'.stop # 0
    BY <1>0, <2>1
  <2>3. QED
    BY <2>1, <2>2 DEF DrainInv, Drained, Staying, Started
<1>3. CASE StopFlag
  <2>1. mpc = "stop_flag" /\ mpc' = "stop_call" /\ UNCHANGED <<pc, idleTerm, calls>>
    BY <1>3 DEF StopFlag
  <2>2. QED
    BY <2>1 DEF DrainInv, Drained, Staying, Started
<1>4. CASE StopCall
  <2>1. /\ mpc = "stop_call" /\ mpc' = "call" /\ UseCaller
        /\ pc' = [pc EXCEPT ![Main] = "fetch"] /\ calls' = calls
    BY <1>4 DEF StopCall
  <2>2. \A w \in Workers : pc'[w] # "off"
    BY <1>0, <2>1 DEF DrainInv, Started
  <2>3. ~ AllOut'
    BY <1>0, <2>1 DEF AllOut
  <2>4. QED
    BY <2>1, <2>2, <2>3 DEF DrainInv, Drained, Staying, Started
<1>5. CASE StopNoCall
  <2>1. /\ mpc = "stop_call" /\ mpc' = "join" /\ UNCHANGED <<pc, m_fibers, m_cb, parked, calls>>
        /\ ~ UseCaller \/ stopping
    BY <1>5 DEF StopNoCall
  <2>2. Drained'
    <3>1. CASE stopping
      <4>1. DOMAIN m_fibers' = {}
        BY <2>1, <3>1 DEF stopping
      <4>2. QED
        BY <4>1 DEF Drained
    <3>2. CASE ~ UseCaller
      <4>1. PICK w \in Workers : TRUE
        BY <1>0, <3>2, ThreadsAssumption
      <4>2. pc[w] # "off" /\ w \in RunThreads
        BY <1>0, <2>1 DEF DrainInv, Started
      <4>3. AllOut' => AllOut /\ \E u \in RunThreads : pc[u] = "done"
        BY <2>1, <4>2 DEF AllOut
      <4>4. QED
        BY <2>1, <4>3 DEF DrainInv, Drained, Names
    <3>3. QED
      BY <2>1, <3>1, <3>2
  <2>3. QED
    BY <2>1, <2>2 DEF DrainInv, Staying, Started
<1>6. CASE CallReturn
  <2>1. /\ mpc = "call" /\ mpc' = "join" /\ UNCHANGED <<m_fibers, m_cb, parked, calls>>
        /\ pc[Main] = "done" /\ pc' = [pc EXCEPT ![Main] = "off"]
    BY <1>6 DEF CallReturn
  <2>2. \A w \in Workers : pc'[w] = pc[w]
    BY <1>0, <2>1
  <2>3. CASE Main \in RunThreads
    <3>1. AllOut' => AllOut /\ \E u \in RunThreads : pc[u] = "done"
      BY <1>0, <2>1, <2>3 DEF AllOut
    <3>2. QED
      BY <2>1, <2>2, <3>1 DEF DrainInv, Drained, Staying, Started, Names
  <2>4. CASE Main \notin RunThreads
    <3>1. pc' = pc /\ AllOut' = AllOut
      BY <1>0, <2>1, <2>4 DEF AllOut
    <3>2. PICK w \in Workers : TRUE
      BY <1>0, <2>4, ThreadsAssumption
    <3>3. pc[w] # "off" /\ w \in RunThreads
      BY <1>0, <2>1 DEF DrainInv, Started
    <3>4. AllOut' => AllOut /\ \E u \in RunThreads : pc[u] = "done"
      BY <3>1, <3>3 DEF AllOut
    <3>5. QED
      BY <2>1, <2>2, <3>4 DEF DrainInv, Drained, Staying, Started, Names
  <2>5. QED
    BY <2>3, <2>4
<1>7. CASE Join
  <2>1. /\ mpc = "join" /\ mpc' = "user" /\ UNCHANGED <<calls, m_stopping>>
        /\ pc' = [u \in RunThreads |-> IF u \in Workers THEN "off" ELSE pc[u]]
    BY <1>7 DEF Join
  <2>2. \A u \in RunThreads : pc'[u] = "off"
    BY <1>0, <1>a, <2>1
  <2>3. calls.stop # 0
    BY <2>1 DEF DrainInv, Started
  <2>4. QED
    BY <2>1, <2>2, <2>3 DEF Drained, Staying, Started
<1>8. QED
  BY <1>1, <1>2, <1>3, <1>4, <1>5, <1>6, <1>7 DEF StopSteps

LEMMA DrainNext ==
  ASSUME SafeInv, CountInv, DrainInv, WakeAfterPark, Unpinned, MaxStops <= 1, [Next]_vars
  PROVE  DrainInv'
<1>1. Loose'
  BY LooseNext DEF DrainInv
<1>2. ASSUME NEW t \in RunThreads, run(t) PROVE Drained' /\ Staying' /\ Started'
  BY <1>2, DrainRun
<1>3. ASSUME NEW f \in Fibers, Wake(f) PROVE Drained' /\ Staying' /\ Started'
  <2>1. /\ f \in Jobs /\ f \in armed
        /\ UNCHANGED <<mpc, pc, m_cb, parked, calls, m_stopping, idleTerm>>
        /\ schedule(FiberEntry(f, AnyThread))
    BY <1>3 DEF Wake, Fibers
  <2>2. m_cb[f] \in parked
    BY <2>1 DEF SafeInv, Work, ArmedWork
  <2>3. m_fibers \in Seq(FiberAndThread) /\ FiberEntry(f, AnyThread) \in FiberAndThread
    BY <2>1, EntryTypes DEF CountInv, TypeOK, Fibers
  <2>4. PICK n : /\ n \notin DOMAIN m_fibers
                 /\ DOMAIN m_fibers' = DOMAIN m_fibers \cup {n}
                 /\ \A i \in DOMAIN m_fibers : m_fibers'[i] = m_fibers[i]
                 /\ m_fibers'[n] = FiberEntry(f, AnyThread)
    BY <2>1, <2>3, AppendMap DEF schedule
  <2>5. \A j \in Jobs : Names(FiberEntry(f, AnyThread), j) => j \in parked
    BY <2>2, JobsAssumption DEF Names, FiberEntry
  <2>6. Drained'
    <3>1. SUFFICES ASSUME Drained, mpc = "join" \/ \E t \in RunThreads : pc[t] = "done", AllOut,
                          NEW i \in DOMAIN m_fibers', NEW j \in Jobs, Names(m_fibers'[i], j)
                   PROVE  j \in parked
      BY <2>1 DEF DrainInv, Drained, AllOut, Names
    <3>2. CASE i = n
      BY <2>4, <2>5, <3>1, <3>2
    <3>3. CASE i \in DOMAIN m_fibers
      BY <2>4, <3>1, <3>3 DEF Drained
    <3>4. QED
      BY <2>4, <3>2, <3>3
  <2>7. QED
    BY <2>1, <2>6 DEF DrainInv, Staying, Started
<1>4. ASSUME NEW j \in Jobs, Submit(j) PROVE Drained' /\ Staying' /\ Started'
  <2>1. mpc = "user" /\ UNCHANGED <<mpc, pc, calls, m_stopping, idleTerm>>
    BY <1>4 DEF Submit
  <2>2. QED
    BY <2>1 DEF DrainInv, Drained, Staying, Started
<1>5. ASSUME start \/ stop \/ StopSteps PROVE Drained' /\ Staying' /\ Started'
  BY <1>5, DrainMain
<1>6. ASSUME UNCHANGED vars PROVE Drained' /\ Staying' /\ Started'
  <2>1. UNCHANGED <<m_fibers, m_cb, parked, mpc, pc, calls, m_stopping, idleTerm>>
    BY <1>6 DEF vars
  <2>2. QED
    BY <2>1 DEF DrainInv, Drained, AllOut, Staying, Started, Names
<1>7. Drained' /\ Staying' /\ Started'
  BY <1>2, <1>3, <1>4, <1>5, <1>6 DEF Next
<1>8. QED
  BY <1>1, <1>7 DEF DrainInv

\* stop() returns only when every submitted job has finished or parked: for
\* any number of threads, when no job is pinned to a thread, wakers run after
\* the fiber has parked and stop() is called once.
THEOREM StopLeavesNothing ==
  WakeAfterPark /\ Unpinned /\ MaxStops <= 1 => (Spec => StopDrains)
<1> SUFFICES ASSUME WakeAfterPark, Unpinned, MaxStops <= 1 PROVE Spec => StopDrains
  OBVIOUS
<1>1. Init => SafeInv /\ CountInv /\ DrainInv
  BY SafeInit, CountInit, DrainInit
<1>2. SafeInv /\ CountInv /\ DrainInv /\ [Next]_vars => (SafeInv /\ CountInv /\ DrainInv)'
  BY SafeNext, CountNext, DrainNext
<1>3. SafeInv /\ CountInv /\ DrainInv /\ [Next]_vars =>
         [mpc = "join" /\ mpc' = "user" => submitted \subseteq finished \cup parked]_vars
  <2> SUFFICES ASSUME SafeInv, CountInv, DrainInv, Next, mpc = "join", mpc' = "user",
                      NEW j \in submitted \ finished
               PROVE  j \in parked
    OBVIOUS
  <2>1. Join
    <3>1. ASSUME NEW t \in RunThreads, run(t) PROVE mpc' = mpc
      BY <3>1, RunShape
    <3>3. \A f \in Fibers : Wake(f) => mpc' = mpc
      BY DEF Wake
    <3>4. \A k \in Jobs : Submit(k) => mpc' = mpc
      BY DEF Submit
    <3>5. start \/ stop \/ StopFlag \/ StopCall \/ StopNoCall \/ CallReturn => mpc # "join"
      BY DEF start, stop, StopFlag, StopCall, StopNoCall, CallReturn
    <3>6. QED
      BY <3>1, <3>3, <3>4, <3>5 DEF Next, StopSteps
  <2>2. AllOut
    <3>1. \A w \in Workers : pc[w] \in {"done", "off"}
      BY <2>1 DEF Join
    <3>2. Main \in RunThreads => pc[Main] = "off"
      BY ThreadsAssumption DEF CountInv, PoolOK, RunThreads
    <3>3. QED
      BY <3>1, <3>2 DEF AllOut, RunThreads
  <2>3. j \in Jobs /\ \A t \in RunThreads : ~ On(t, j)
    BY <2>2 DEF AllOut, On, Carries, CountInv, TypeOK
  <2>4. CASE \E i \in DOMAIN m_fibers : Names(m_fibers[i], j)
    BY <2>2, <2>3, <2>4 DEF DrainInv, Drained
  <2>5. CASE \E f \in armed : m_cb[f] = j
    BY <2>5 DEF SafeInv, Work, ArmedWork
  <2>6. QED
    BY <2>3, <2>4, <2>5 DEF SafeInv, Work, NotLost
<1>4. QED
  BY <1>1, <1>2, <1>3, PTL DEF Spec, StopDrains
=============================================================================
