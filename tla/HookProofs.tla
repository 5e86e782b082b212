------------------------------ MODULE HookProofs ------------------------------
(***************************************************************************)
(* Theorems about Hook, for any fibers, descriptors and calls, on one      *)
(* worker thread with the hooks enabled.  (With two threads, or beside a   *)
(* thread without hooks, the properties fail: a call can be between its    *)
(* look at a descriptor and its registration while another one changes     *)
(* that descriptor.)                                                       *)
(***************************************************************************)
EXTENDS Hook, FiniteSetTheorems, TLAPS

OneHookedThread == Threads = 1 /\ Unhooked = {}

-----------------------------------------------------------------------------
(***************************************************************************)
(* The invariant                                                           *)
(***************************************************************************)
BusyPcs == {"try", "arm", "add", "check", "sockopt", "blocked", "del", "close_f", "get"}
Labels == BusyPcs \cup {"out", "parked", "runnable", "aborted"}
Names == Ops \cup {"none", "sleep", "close", "socket", "fcntl", "ioctl", "setsockopt"}
CallType == [call : Names, fd : Fds \cup {-1, 0}, sock : Nat, to : BOOLEAN]

FiberType ==
  /\ pc \in [Fibers -> Labels] /\ op \in [Fibers -> CallType]
  /\ inst \in [Fibers -> Nat] /\ cancelled \in [Fibers -> BOOLEAN]
  /\ timers \subseteq TimerType /\ IsFiniteSet(timers)
FdType ==
  /\ ctx \in [Fds -> [in : BOOLEAN, user : BOOLEAN, timeout : BOOLEAN]]
  /\ events \in [Fds -> [Events -> Fibers \cup {None}]]
  /\ sock \in [Fds -> Nat] /\ nonblk \in [Fds -> BOOLEAN]
  /\ watched \in [Fds -> SUBSET Events]
  /\ cleared \subseteq Fds /\ sockets \in Nat

\* One fiber or one callback is on the thread.
Solo ==
  /\ \A f, g \in Fibers : pc[f] \in BusyPcs /\ pc[g] \in BusyPcs => f = g
  /\ \A t, u \in timers : t.stage = "marked" /\ u.stage = "marked" => t = u
  /\ \A f \in Fibers, t \in timers : ~ (pc[f] \in BusyPcs /\ t.stage = "marked")

\* What each fiber is doing.
Trying == {"try", "blocked", "arm", "add"}
InIo(f) == op[f].call \in Ops /\ op[f].fd \in Fds
Asleep(f) == op[f].call = "sleep" /\ op[f].fd = -1
Doing == \A f \in Fibers :
  /\ pc[f] \in Trying \cup {"check", "sockopt"} => InIo(f)
  /\ pc[f] \in {"parked", "runnable"} => InIo(f) \/ Asleep(f)
  /\ pc[f] = "sockopt" => op[f].call = "connect"
  /\ pc[f] \in {"del", "close_f", "get"} => op[f].fd \in Fds

\* A timer belongs to the call it was made for, and a sleeping fiber has one.
TimersFit == \A t \in timers :
  /\ t.inst <= inst[t.fiber]
  /\ t.event # "sleep" => t.fd \in Fds
  /\ t.event # "sleep" /\ t.inst = inst[t.fiber] =>
        op[t.fiber].call \in Ops /\ t.fd = op[t.fiber].fd /\ t.event = Event(op[t.fiber].call)
  /\ t.event = "sleep" =>
        /\ t.stage # "marked" /\ t.inst = inst[t.fiber]
        /\ pc[t.fiber] = "parked" /\ Asleep(t.fiber)
        /\ \A u \in timers : u.event = "sleep" /\ u.fiber = t.fiber => u = t
  /\ t.stage = "marked" => t.inst = inst[t.fiber] /\ cancelled[t.fiber]

\* A call that goes on has not been told to stop.
NotTold == \A f \in Fibers : pc[f] \in Trying => ~ cancelled[f]

FiberInv == FiberType /\ Solo /\ Doing /\ TimersFit /\ NotTold /\ TimeoutWakes /\ NeverBlocks

\* Who is parked is registered, and who is registered is parked.
ParkedOnce == \A f \in Fibers : pc[f] = "parked" =>
  \/ Asleep(f) /\ ~ cancelled[f]
  \/ InIo(f) /\ events[op[f].fd][Event(op[f].call)] = f
Registered(f, d, e) ==
  /\ f \in Fibers /\ pc[f] = "parked" /\ InIo(f) /\ op[f].fd = d /\ Event(op[f].call) = e
  /\ e \in watched[d] /\ ctx[d].in
Registry == \A d \in Fds, e \in Events : events[d][e] # None => Registered(events[d][e], d, e)

\* A socket that nobody is just opening or closing has a context and does not block.
Contexts ==
  /\ \A d \in Fds : ctx[d].in => sock[d] # 0
  /\ \A d \in Fds : sock[d] # 0 =>
        \/ ctx[d].in /\ (nonblk[d] \/ d \in cleared)
        \/ \E f \in Fibers : pc[f] \in {"get", "close_f"} /\ op[f].fd = d
  /\ \A f \in Fibers : pc[f] \in {"get", "close_f"} => ~ ctx[op[f].fd].in /\ sock[op[f].fd] # 0
  /\ \A f \in Fibers : pc[f] = "del" => ctx[op[f].fd].in /\ \A e \in Events : events[op[f].fd][e] = None

FdInv == FdType /\ ParkedOnce /\ Registry /\ Contexts

HookInv == FiberInv /\ FdInv

\* The bundles of variables are always expanded.
USE DEF fibervars, kernelvars

LEMMA HookInit == Init => HookInv
<1> SUFFICES ASSUME Init PROVE HookInv
  OBVIOUS
<1>0. /\ pc = [f \in Fibers |-> "out"] /\ timers = {} /\ sockets = 0 /\ cleared = {}
      /\ op = [f \in Fibers |-> [call |-> "none", fd |-> 0, sock |-> 0, to |-> FALSE]]
      /\ inst = [f \in Fibers |-> 0] /\ cancelled = [f \in Fibers |-> FALSE]
      /\ ctx = [d \in Fds |-> NoCtx] /\ events = [d \in Fds |-> [e \in Events |-> None]]
      /\ sock = [d \in Fds |-> 0] /\ nonblk = [d \in Fds |-> FALSE]
      /\ watched = [d \in Fds |-> {}]
  BY DEF Init
<1>1. FiberType
  <2>1. "out" \in Labels /\ [call |-> "none", fd |-> 0, sock |-> 0, to |-> FALSE] \in CallType
    BY DEF Labels, CallType, Names
  <2>2. IsFiniteSet(timers)
    BY <1>0, FS_EmptySet
  <2>3. QED
    BY <1>0, <2>1, <2>2 DEF FiberType
<1>2. Solo /\ Doing /\ TimersFit /\ NotTold /\ TimeoutWakes /\ NeverBlocks
  BY <1>0 DEF Solo, Doing, TimersFit, NotTold, TimeoutWakes, NeverBlocks, BusyPcs, Trying
<1>3. FdType
  BY <1>0 DEF FdType, NoCtx
<1>4. ParkedOnce /\ Registry /\ Contexts
  BY <1>0 DEF ParkedOnce, Registry, Contexts, NoCtx
<1>5. QED
  BY <1>1, <1>2, <1>3, <1>4 DEF HookInv, FiberInv, FdInv

\* On one thread a fiber or callback that is not running starts only when none runs.
Has(f) == /\ \A g \in Fibers \ {f} : pc[g] \notin BusyPcs
          /\ \A t \in timers : t.stage # "marked"

LEMMA BusyAlone == ASSUME Solo, NEW f \in Fibers, pc[f] \in BusyPcs PROVE Has(f)
BY DEF Solo, Has

LEMMA NobodyBusy ==
  ASSUME OneHookedThread, FiberType, NEW x, CanRun(x), x \notin Busy
  PROVE  \A g \in Fibers : pc[g] \notin BusyPcs /\ Has(g)
<1>1. IsFiniteSet(Fibers \cup timers)
  BY HookAssumption, FS_Union DEF FiberType
<1>2. Busy \in SUBSET (Fibers \cup timers)
  BY DEF Busy
<1>3. IsFiniteSet(Busy)
  BY <1>1, <1>2, FS_Subset
<1>4. Cardinality(Busy) \in Nat /\ Cardinality(Busy) < 1
  BY <1>3, FS_CardinalityType DEF CanRun, OneHookedThread
<1>5. Busy = {}
  BY <1>3, <1>4, FS_EmptySet
<1>6. QED
  BY <1>5 DEF Busy, Has, BusyPcs

LEMMA IdleFiber ==
  ASSUME OneHookedThread, FiberType, NEW f \in Fibers, pc[f] \notin BusyPcs, CanRun(f)
  PROVE  \A g \in Fibers : pc[g] \notin BusyPcs /\ Has(g)
<1>1. f \notin timers
  BY HookAssumption DEF FiberType
<1>2. f \notin Busy
  BY <1>1 DEF Busy, BusyPcs
<1>3. QED
  BY <1>2, NobodyBusy

-----------------------------------------------------------------------------
(***************************************************************************)
(* The steps of a call that touch neither the registry nor a descriptor    *)
(***************************************************************************)
\* The fiber is on the thread, or comes to it, and is neither parked nor in the middle
\* of socket() or close().
Free == Labels \ {"parked", "runnable", "get", "close_f", "del"}

\* What the timers may become while fiber f runs: some of its own that are armed go, and
\* one for the call it is in may come.
OwnTimer(f, t) == t.fiber = f /\ t.stage = "armed"
NewTimer(f, t) ==
  /\ t \in TimerType /\ OwnTimer(f, t) /\ t.inst = inst[f]
  /\ InIo(f) /\ t.fd = op[f].fd /\ t.event = Event(op[f].call)

LEMMA FiberMoves ==
  ASSUME HookInv, NEW f \in Fibers, Has(f), pc[f] \notin {"parked", "get", "close_f", "del"},
         NEW l \in Free, pc' = [pc EXCEPT ![f] = l],
         UNCHANGED <<op, inst, cancelled, ctx, events, sock, nonblk, watched, cleared, sockets>>,
         IsFiniteSet(timers'),
         \A t \in timers : t \in timers' \/ OwnTimer(f, t),
         \A t \in timers' : t \in timers \/ NewTimer(f, t),
         l \in Trying \cup {"check", "sockopt"} => InIo(f),
         l \in Trying => ~ cancelled[f],
         l = "sockopt" => op[f].call = "connect",
         l = "blocked" => op[f].fd \in cleared
  PROVE  HookInv'
<1>0. /\ FiberType /\ Solo /\ Doing /\ TimersFit /\ NotTold /\ TimeoutWakes /\ NeverBlocks
      /\ FdType /\ ParkedOnce /\ Registry /\ Contexts
  BY DEF HookInv, FiberInv, FdInv
<1>a. pc' \in [Fibers -> Labels] /\ pc'[f] = l /\ \A g \in Fibers \ {f} : pc'[g] = pc[g]
  BY <1>0 DEF FiberType, Free
<1>b. l \notin {"parked", "runnable", "get", "close_f", "del"}
  BY DEF Free
<1>c. \A g \in Fibers : (pc'[g] = "parked" <=> pc[g] = "parked")
  BY <1>a, <1>b
<1>1. FiberType'
  <2>1. timers' \subseteq TimerType
    BY <1>0 DEF FiberType, NewTimer
  <2>2. QED
    BY <1>0, <1>a, <2>1 DEF FiberType
<1>2. Solo'
  BY <1>0, <1>a DEF Solo, Has, NewTimer, OwnTimer, BusyPcs
<1>3. Doing'
  BY <1>0, <1>a, <1>b DEF Doing, InIo, Asleep, Trying
<1>4. TimersFit'
  <2> SUFFICES ASSUME NEW t \in timers'
               PROVE  /\ t.inst <= inst[t.fiber]
                      /\ t.event # "sleep" => t.fd \in Fds
                      /\ t.event # "sleep" /\ t.inst = inst[t.fiber] =>
                           op[t.fiber].call \in Ops /\ t.fd = op[t.fiber].fd
                             /\ t.event = Event(op[t.fiber].call)
                      /\ t.event = "sleep" =>
                           /\ t.stage # "marked" /\ t.inst = inst[t.fiber]
                           /\ pc'[t.fiber] = "parked" /\ Asleep(t.fiber)
                           /\ \A u \in timers' : u.event = "sleep" /\ u.fiber = t.fiber => u = t
                      /\ t.stage = "marked" => t.inst = inst[t.fiber] /\ cancelled[t.fiber]
    BY DEF TimersFit, Asleep
  <2>a. \A u \in timers' : NewTimer(f, u) => u.event # "sleep"
    BY DEF NewTimer, Event
  <2>1. CASE t \in timers
    <3>1. t.fiber \in Fibers
      BY <2>1, <1>0 DEF FiberType, TimerType
    <3>2. QED
      BY <2>1, <2>a, <3>1, <1>0, <1>c DEF TimersFit
  <2>2. CASE NewTimer(f, t)
    <3>1. inst[f] \in Nat /\ t.inst = inst[f] /\ t.fiber = f
      BY <2>2, <1>0 DEF NewTimer, OwnTimer, FiberType
    <3>2. t.inst <= inst[t.fiber]
      BY <3>1
    <3>3. QED
      BY <2>2, <2>a, <3>1, <3>2 DEF NewTimer, OwnTimer, InIo
  <2>3. QED
    BY <2>1, <2>2
<1>5. NotTold' /\ NeverBlocks'
  BY <1>0, <1>a DEF NotTold, NeverBlocks
<1>6. TimeoutWakes'
  BY <1>0, <1>c DEF TimeoutWakes, OwnTimer
<1>7. FdType'
  BY <1>0 DEF FdType
<1>8. ParkedOnce'
  BY <1>0, <1>c DEF ParkedOnce, InIo, Asleep
<1>9. Registry'
  BY <1>0, <1>c DEF Registry, Registered, InIo
<1>10. Contexts'
  <2>1. \A g \in Fibers : pc[g] \in {"get", "close_f", "del"} <=> pc'[g] \in {"get", "close_f", "del"}
    BY <1>a, <1>b
  <2>2. \A g \in Fibers : pc[g] \in {"get", "close_f", "del"} => pc'[g] = pc[g]
    BY <1>a, <1>b
  <2>3. QED
    BY <1>0, <2>1, <2>2 DEF Contexts
<1>11. QED
  BY <1>1, <1>2, <1>3, <1>4, <1>5, <1>6, <1>7, <1>8, <1>9, <1>10 DEF HookInv, FiberInv, FdInv

\* The same with the timers as they are.
LEMMA FiberGoes ==
  ASSUME HookInv, NEW f \in Fibers, Has(f), pc[f] \notin {"parked", "get", "close_f", "del"},
         NEW l \in Free, pc' = [pc EXCEPT ![f] = l],
         UNCHANGED <<op, inst, cancelled, ctx, events, sock, nonblk, watched, cleared, sockets,
                     timers>>,
         l \in Trying \cup {"check", "sockopt"} => InIo(f),
         l \in Trying => ~ cancelled[f],
         l = "sockopt" => op[f].call = "connect",
         l = "blocked" => op[f].fd \in cleared
  PROVE  HookInv'
<1>1. IsFiniteSet(timers')
  BY DEF HookInv, FiberInv, FiberType
<1>2. (\A t \in timers : t \in timers' \/ OwnTimer(f, t)) /\ \A t \in timers' : t \in timers \/ NewTimer(f, t)
  OBVIOUS
<1>3. QED
  BY <1>1, <1>2, FiberMoves

LEMMA TimersCancelled ==
  ASSUME FiberType, NEW f \in Fibers, CancelTimers(f)
  PROVE  /\ IsFiniteSet(timers')
         /\ \A t \in timers : t \in timers' \/ OwnTimer(f, t)
         /\ \A t \in timers' : t \in timers \/ NewTimer(f, t)
<1>1. IsFiniteSet(timers')
  <2>1. timers' \in SUBSET timers /\ IsFiniteSet(timers)
    BY DEF CancelTimers, FiberType
  <2>2. QED
    BY <2>1, FS_Subset
<1>2. QED
  BY <1>1 DEF CancelTimers, OwnTimer

LEMMA TryKeeps == ASSUME HookInv, NEW f \in Fibers, Try(f) PROVE HookInv'
<1>0. /\ FiberType /\ Solo /\ Doing /\ NotTold /\ FdType /\ Contexts /\ NeverBlocks
  BY DEF HookInv, FiberInv, FdInv
<1>1. pc[f] \in {"try", "blocked"} /\ pc[f] \in BusyPcs /\ Has(f)
  <2>1. pc[f] \in {"try", "blocked"}
    BY DEF Try
  <2>2. QED
    BY <2>1, <1>0, BusyAlone DEF BusyPcs
<1>2. InIo(f) /\ ~ cancelled[f]
  BY <1>0, <1>1 DEF Doing, NotTold, Trying
<1>3. UNCHANGED <<op, inst, cancelled, ctx, events, sock, nonblk, watched, cleared, sockets, timers>>
  BY DEF Try
<1>4. PICK l \in {"out", "blocked", "arm", "add"} :
        /\ pc' = [pc EXCEPT ![f] = l]
        /\ l = "blocked" => sock[op[f].fd] # 0 /\ ~ nonblk[op[f].fd]
  BY DEF Try, Return, Goto
<1>5. l = "blocked" => op[f].fd \in cleared
  <2> SUFFICES ASSUME l = "blocked" PROVE op[f].fd \in cleared
    OBVIOUS
  <2>1. op[f].fd \in Fds /\ sock[op[f].fd] # 0 /\ ~ nonblk[op[f].fd]
    BY <1>2, <1>4 DEF InIo
  <2>2. \A g \in Fibers : pc[g] \notin {"get", "close_f"}
    BY <1>1 DEF Has, BusyPcs
  <2>3. QED
    BY <2>1, <2>2, <1>0 DEF Contexts
<1>6. l \in Free /\ l # "sockopt"
  BY <1>4 DEF Free, Labels, BusyPcs
<1>7. QED
  BY <1>1, <1>2, <1>3, <1>4, <1>5, <1>6, FiberGoes

LEMMA ArmKeeps == ASSUME HookInv, NEW f \in Fibers, Arm(f) PROVE HookInv'
<1>0. FiberType /\ Solo /\ Doing /\ NotTold
  BY DEF HookInv, FiberInv
<1>1. pc[f] = "arm" /\ Has(f)
  BY <1>0, BusyAlone DEF Arm, BusyPcs
<1>2. InIo(f) /\ ~ cancelled[f] /\ inst[f] \in Nat
  BY <1>0, <1>1 DEF Doing, NotTold, Trying, FiberType
<1>3. PICK u \in TimerType : NewTimer(f, u) /\ timers' = timers \cup {u}
  <2> DEFINE u == [fiber |-> f, inst |-> inst[f], fd |-> op[f].fd,
                   event |-> Event(op[f].call), stage |-> "armed"]
  <2>1. Event(op[f].call) \in Events
    BY DEF Event, Events
  <2>2. u \in TimerType
    BY <1>2, <2>1 DEF TimerType, InIo
  <2>3. timers' = timers \cup {u}
    BY DEF Arm
  <2>4. NewTimer(f, u)
    BY <1>2, <2>2 DEF NewTimer, OwnTimer
  <2>5. QED
    BY <2>2, <2>3, <2>4
<1>4. IsFiniteSet(timers')
  BY <1>0, <1>3, FS_AddElement DEF FiberType
<1>5. pc' = [pc EXCEPT ![f] = "add"] /\ "add" \in Free
  BY DEF Arm, Goto, Free, Labels, BusyPcs
<1>6. UNCHANGED <<op, inst, cancelled, ctx, events, sock, nonblk, watched, cleared, sockets>>
  BY DEF Arm
<1>7. QED
  BY <1>1, <1>2, <1>3, <1>4, <1>5, <1>6, FiberMoves

LEMMA CheckKeeps == ASSUME HookInv, NEW f \in Fibers, Check(f) \/ SockOpt(f) PROVE HookInv'
<1>0. FiberType /\ Solo /\ Doing
  BY DEF HookInv, FiberInv
<1>1. pc[f] \in {"check", "sockopt"} /\ Has(f)
  BY <1>0, BusyAlone DEF Check, SockOpt, BusyPcs
<1>2. InIo(f)
  BY <1>0, <1>1 DEF Doing
<1>3. UNCHANGED <<op, inst, cancelled, ctx, events, sock, nonblk, watched, cleared, sockets, timers>>
  BY DEF Check, SockOpt
<1>4. PICK l \in {"out", "sockopt", "try"} :
        /\ pc' = [pc EXCEPT ![f] = l]
        /\ l = "try" => ~ cancelled[f]
        /\ l = "sockopt" => op[f].call = "connect"
  BY DEF Check, SockOpt, Return, Goto
<1>5. l \in Free /\ l # "blocked"
  BY <1>4 DEF Free, Labels, BusyPcs
<1>6. l \in Trying => ~ cancelled[f]
  BY <1>4 DEF Trying
<1>7. QED
  BY <1>1, <1>2, <1>3, <1>4, <1>5, <1>6, FiberGoes

LEMMA ResumeKeeps ==
  ASSUME OneHookedThread, HookInv, NEW f \in Fibers, Resume(f) PROVE HookInv'
<1>0. FiberType /\ Solo /\ Doing
  BY DEF HookInv, FiberInv
<1>1. pc[f] = "runnable" /\ Has(f)
  BY <1>0, IdleFiber DEF Resume, BusyPcs
<1>2. InIo(f) \/ Asleep(f)
  BY <1>0, <1>1 DEF Doing
<1>3. UNCHANGED <<op, inst, cancelled, ctx, events, sock, nonblk, watched, cleared, sockets>>
  BY DEF Resume
<1>4. PICK l \in {"out", "check"} : pc' = [pc EXCEPT ![f] = l] /\ (l = "check" => op[f].call # "sleep")
  BY DEF Resume, Return, Goto
<1>5. l \in Free /\ l \notin Trying /\ l # "sockopt" /\ l # "blocked"
  BY <1>4 DEF Free, Labels, BusyPcs, Trying
<1>6. l = "check" => InIo(f)
  BY <1>2, <1>4 DEF Asleep
<1>7. CancelTimers(f)
  BY DEF Resume
<1>8. QED
  BY <1>0, <1>1, <1>3, <1>4, <1>5, <1>6, <1>7, TimersCancelled, FiberMoves

\* addEvent registers the fiber and parks it.
LEMMA RegisterKeeps ==
  ASSUME HookInv, NEW f \in Fibers, Has(f), pc[f] = "add", NEW d, NEW e,
         d = op[f].fd, e = Event(op[f].call), events[d][e] = None, sock[d] # 0,
         events' = [events EXCEPT ![d][e] = f], watched' = [watched EXCEPT ![d] = @ \cup {e}],
         pc' = [pc EXCEPT ![f] = "parked"],
         UNCHANGED <<op, inst, cancelled, timers, ctx, sock, nonblk, cleared, sockets>>
  PROVE  HookInv'
<1>0. /\ FiberType /\ Solo /\ Doing /\ TimersFit /\ NotTold /\ TimeoutWakes /\ NeverBlocks
      /\ FdType /\ ParkedOnce /\ Registry /\ Contexts
  BY DEF HookInv, FiberInv, FdInv
<1>a. /\ pc' \in [Fibers -> Labels] /\ pc'[f] = "parked"
      /\ \A g \in Fibers \ {f} : pc'[g] = pc[g]
  BY <1>0 DEF FiberType, Labels
<1>b. InIo(f) /\ ~ cancelled[f] /\ d \in Fds /\ e \in Events
  BY <1>0 DEF Doing, NotTold, Trying, InIo, Event, Events
<1>c. ctx[d].in
  BY <1>0, <1>b DEF Contexts, Has, BusyPcs
<1>d. /\ events' \in [Fds -> [Events -> Fibers \cup {None}]] /\ events'[d][e] = f
      /\ \A x \in Fds, y \in Events : x # d \/ y # e => events'[x][y] = events[x][y]
      /\ watched' \in [Fds -> SUBSET Events] /\ watched'[d] = watched[d] \cup {e}
      /\ \A x \in Fds : x # d => watched'[x] = watched[x]
  BY <1>0, <1>b DEF FdType
<1>1. FiberType' /\ Solo' /\ Doing' /\ NotTold' /\ NeverBlocks' /\ TimeoutWakes'
  <2>1. FiberType' /\ Doing' /\ NotTold' /\ NeverBlocks' /\ TimeoutWakes'
    BY <1>0, <1>a, <1>b DEF FiberType, Doing, NotTold, NeverBlocks, TimeoutWakes, InIo, Asleep, Trying
  <2>2. Solo'
    BY <1>0, <1>a DEF Solo, BusyPcs
  <2>3. QED
    BY <2>1, <2>2
<1>2. TimersFit'
  <2>1. \A t \in timers : t.fiber \in Fibers
    BY <1>0 DEF FiberType, TimerType
  <2>2. \A g \in Fibers : pc[g] = "parked" => pc'[g] = "parked"
    BY <1>a
  <2>3. QED
    BY <1>0, <2>1, <2>2 DEF TimersFit, Asleep
<1>3. FdType'
  BY <1>0, <1>d DEF FdType
<1>4. ParkedOnce'
  <2> SUFFICES ASSUME NEW g \in Fibers, pc'[g] = "parked"
               PROVE  \/ Asleep(g) /\ ~ cancelled[g]
                      \/ InIo(g) /\ events'[op[g].fd][Event(op[g].call)] = g
    BY DEF ParkedOnce, Asleep, InIo
  <2>1. CASE g = f
    BY <2>1, <1>b, <1>d
  <2>2. CASE g # f
    <3>1. \/ Asleep(g) /\ ~ cancelled[g]
          \/ InIo(g) /\ events[op[g].fd][Event(op[g].call)] = g
      BY <1>0, <1>a, <2>2 DEF ParkedOnce
    <3>2. g # None /\ Event(op[g].call) \in Events
      BY HookAssumption DEF Event, Events
    <3>3. QED
      BY <3>1, <3>2, <1>d DEF InIo
  <2>3. QED
    BY <2>1, <2>2
<1>5. Registry'
  <2> SUFFICES ASSUME NEW x \in Fds, NEW y \in Events, events'[x][y] # None
               PROVE  Registered(events[x][y], x, y)'
    BY DEF Registry
  <2>1. CASE x = d /\ y = e
    <3>1. events'[x][y] = f /\ e \in watched'[d]
      BY <2>1, <1>b, <1>d
    <3>2. InIo(f)' /\ ctx'[d].in /\ op'[f].fd = d /\ Event(op'[f].call) = e
      BY <1>b, <1>c DEF InIo
    <3>3. QED
      BY <2>1, <1>a, <3>1, <3>2 DEF Registered
  <2>2. CASE x # d \/ y # e
    <3>1. Registered(events[x][y], x, y) /\ events'[x][y] = events[x][y]
      BY <2>2, <1>0, <1>d DEF Registry
    <3>2. events[x][y] \in Fibers \ {f} /\ pc'[events[x][y]] = "parked" /\ y \in watched'[x]
      BY <3>1, <1>a, <1>d DEF Registered
    <3>3. QED
      BY <3>1, <3>2 DEF Registered, InIo
  <2>3. QED
    BY <2>1, <2>2
<1>6. Contexts'
  <2>1. \A g \in Fibers : pc'[g] \notin {"get", "close_f", "del"} /\ pc[g] \notin {"get", "close_f", "del"}
    BY <1>a DEF Has, BusyPcs
  <2>2. QED
    BY <1>0, <2>1 DEF Contexts
<1>7. QED
  BY <1>1, <1>2, <1>3, <1>4, <1>5, <1>6 DEF HookInv, FiberInv, FdInv

LEMMA AddKeeps == ASSUME HookInv, NEW f \in Fibers, Add(f) PROVE HookInv'
<1>0. FiberType /\ Solo /\ Doing /\ NotTold
  BY DEF HookInv, FiberInv
<1>1. pc[f] = "add" /\ Has(f)
  BY <1>0, BusyAlone DEF Add, BusyPcs
<1>2. InIo(f)
  BY <1>0, <1>1 DEF Doing, Trying
<1>3. UNCHANGED <<op, inst, cancelled, ctx, sock, nonblk, sockets, cleared>>
  BY DEF Add
<1>4. CASE UNCHANGED <<timers, events, watched>> /\ Goto(f, "aborted")
  <2>1. "aborted" \in Free /\ "aborted" \notin Trying \cup {"check", "sockopt"} /\ "aborted" # "blocked"
    BY DEF Free, Labels, BusyPcs, Trying
  <2>2. pc' = [pc EXCEPT ![f] = "aborted"]
    BY <1>4 DEF Goto
  <2>3. QED
    BY <1>1, <1>3, <1>4, <2>1, <2>2, FiberGoes
<1>5. CASE /\ CancelTimers(f) /\ UNCHANGED <<events, watched>>
           /\ IF op[f].call = "connect" THEN Goto(f, "sockopt") ELSE Return(f, "error")
  <2>1. PICK l \in {"sockopt", "out"} : pc' = [pc EXCEPT ![f] = l] /\ (l = "sockopt" => op[f].call = "connect")
    BY <1>5 DEF Goto, Return
  <2>2. l \in Free /\ l \notin Trying /\ l # "blocked"
    BY <2>1 DEF Free, Labels, BusyPcs, Trying
  <2>3. QED
    BY <1>0, <1>1, <1>2, <1>3, <1>5, <2>1, <2>2, TimersCancelled, FiberMoves
<1>6. CASE /\ events[op[f].fd][Event(op[f].call)] = None /\ ~ CtlFails(op[f].fd)
           /\ events' = [events EXCEPT ![op[f].fd][Event(op[f].call)] = f]
           /\ watched' = [watched EXCEPT ![op[f].fd] = @ \cup {Event(op[f].call)}]
           /\ Goto(f, "parked") /\ UNCHANGED timers
  BY <1>1, <1>3, <1>6, RegisterKeeps DEF Goto, CtlFails
<1>7. QED
  BY <1>4, <1>5, <1>6 DEF Add

-----------------------------------------------------------------------------
(***************************************************************************)
(* The steps that wake a waiter: a report, a timeout, the end of a sleep   *)
(***************************************************************************)
LEMMA WakeKeeps ==
  ASSUME HookInv, NEW d \in Fds, NEW e \in Events, NEW w, w = events[d][e], w # None,
         pc' = Wake({w}), events' = [events EXCEPT ![d][e] = None],
         watched' = [watched EXCEPT ![d] = @ \ {e}],
         timers' \subseteq timers, IsFiniteSet(timers'),
         \A t \in timers : t \in timers' \/ (t.stage = "marked" /\ t.fd = d /\ t.event = e),
         UNCHANGED <<op, inst, cancelled, ctx, sock, nonblk, cleared, sockets>>
  PROVE  HookInv'
<1>0. /\ FiberType /\ Solo /\ Doing /\ TimersFit /\ NotTold /\ TimeoutWakes /\ NeverBlocks
      /\ FdType /\ ParkedOnce /\ Registry /\ Contexts
  BY DEF HookInv, FiberInv, FdInv
<1>a. w \in Fibers /\ pc[w] = "parked" /\ InIo(w) /\ op[w].fd = d /\ Event(op[w].call) = e
  BY <1>0 DEF Registry, Registered
<1>b. /\ pc' \in [Fibers -> Labels] /\ pc'[w] = "runnable"
      /\ \A g \in Fibers \ {w} : pc'[g] = pc[g]
  BY <1>0, <1>a DEF FiberType, Labels, Wake
<1>c. /\ events' \in [Fds -> [Events -> Fibers \cup {None}]] /\ events'[d][e] = None
      /\ \A x \in Fds, y \in Events : x # d \/ y # e => events'[x][y] = events[x][y]
      /\ watched' \in [Fds -> SUBSET Events] /\ watched'[d] = watched[d] \ {e}
      /\ \A x \in Fds : x # d => watched'[x] = watched[x]
  BY <1>0 DEF FdType
<1>1. FiberType' /\ Doing' /\ NotTold' /\ NeverBlocks'
  BY <1>0, <1>a, <1>b, ZenonT(60) DEF FiberType, Doing, NotTold, NeverBlocks, InIo, Asleep, Trying
<1>2. Solo'
  BY <1>0, <1>b, ZenonT(60) DEF Solo, BusyPcs
<1>3. TimersFit'
  <2>1. \A t \in timers : t.fiber \in Fibers
    BY <1>0 DEF FiberType, TimerType
  <2>2. \A g \in Fibers : Asleep(g) => g # w
    BY <1>a DEF Asleep, InIo, Ops
  <2>3. \A g \in Fibers : pc[g] = "parked" /\ Asleep(g) => pc'[g] = "parked"
    BY <1>b, <2>2
  <2>4. QED
    BY <1>0, <2>1, <2>3, ZenonT(60) DEF TimersFit, Asleep
<1>4. TimeoutWakes'
  <2> SUFFICES ASSUME NEW g \in Fibers, pc'[g] = "parked", cancelled[g]
               PROVE  \E t \in timers' : t.fiber = g /\ t.inst = inst[g] /\ t.stage = "marked"
    BY DEF TimeoutWakes
  <2>1. g # w /\ pc[g] = "parked"
    BY <1>b
  <2>2. PICK t \in timers : t.fiber = g /\ t.inst = inst[g] /\ t.stage = "marked"
    BY <1>0, <2>1 DEF TimeoutWakes
  <2>3. t \in timers'
    <3> SUFFICES ASSUME t \notin timers' PROVE FALSE
      OBVIOUS
    <3>1. t.fd = d /\ t.event = e /\ t.event # "sleep"
      BY DEF Events
    <3>2. op[g].fd = d /\ Event(op[g].call) = e
      BY <3>1, <2>2, <1>0 DEF TimersFit
    <3>3. events[d][e] = g
      BY <1>0, <2>1, <3>2 DEF ParkedOnce
    <3>4. QED
      BY <3>3, <2>1
  <2>4. QED
    BY <2>2, <2>3
<1>5. FdType'
  BY <1>0, <1>c DEF FdType
<1>6. ParkedOnce'
  <2> SUFFICES ASSUME NEW g \in Fibers, pc'[g] = "parked"
               PROVE  \/ Asleep(g) /\ ~ cancelled[g]
                      \/ InIo(g) /\ events'[op[g].fd][Event(op[g].call)] = g
    BY DEF ParkedOnce, Asleep, InIo
  <2>1. g # w /\ pc[g] = "parked" /\ Event(op[g].call) \in Events
    BY <1>b DEF Event, Events
  <2>2. QED
    BY <1>0, <1>c, <2>1 DEF ParkedOnce, InIo
<1>7. Registry'
  <2> SUFFICES ASSUME NEW x \in Fds, NEW y \in Events, events'[x][y] # None
               PROVE  Registered(events[x][y], x, y)'
    BY DEF Registry
  <2>1. (x # d \/ y # e) /\ events'[x][y] = events[x][y]
    BY <1>c
  <2>2. Registered(events[x][y], x, y)
    BY <2>1, <1>0 DEF Registry
  <2>3. events[x][y] # w
    BY <2>1, <2>2, <1>a DEF Registered
  <2>4. y \in watched'[x]
    BY <2>1, <2>2, <1>c DEF Registered
  <2>5. events[x][y] \in Fibers /\ pc'[events[x][y]] = "parked"
    BY <2>2, <2>3, <1>b DEF Registered
  <2>6. QED
    BY <2>1, <2>2, <2>4, <2>5 DEF Registered, InIo
<1>8. Contexts'
  <2>1. \A g \in Fibers : pc'[g] \in {"get", "close_f", "del"} \/ pc[g] \in {"get", "close_f", "del"} => pc'[g] = pc[g]
    BY <1>a, <1>b
  <2>2. \A x \in Fds, y \in Events : events[x][y] = None => events'[x][y] = None
    BY <1>c
  <2>3. \A g \in Fibers : pc[g] = "del" => op[g].fd \in Fds
    BY <1>0 DEF Doing
  <2>a. \A g \in Fibers : pc'[g] \in {"get", "close_f"} <=> pc[g] \in {"get", "close_f"}
    BY <2>1
  <2>b. \A x \in Fds : sock[x] # 0 =>
            \/ ctx[x].in /\ (nonblk[x] \/ x \in cleared)
            \/ \E g \in Fibers : pc'[g] \in {"get", "close_f"} /\ op[g].fd = x
    <3>1. \A x \in Fds : sock[x] # 0 =>
            \/ ctx[x].in /\ (nonblk[x] \/ x \in cleared)
            \/ \E g \in Fibers : pc[g] \in {"get", "close_f"} /\ op[g].fd = x
      BY <1>0 DEF Contexts
    <3>2. QED
      BY <3>1, <2>a
  <2>c. \A g \in Fibers : pc'[g] \in {"get", "close_f"} => ~ ctx[op[g].fd].in /\ sock[op[g].fd] # 0
    BY <1>0, <2>a DEF Contexts
  <2>4. \A x \in Fds : ctx[x].in => sock[x] # 0
    BY <1>0 DEF Contexts
  <2>5. ASSUME NEW g \in Fibers, pc'[g] = "del"
        PROVE  ctx[op[g].fd].in /\ \A y \in Events : events'[op[g].fd][y] = None
    <3>1. pc[g] = "del" /\ op[g].fd \in Fds
      BY <2>1, <2>3, <2>5
    <3>2. ctx[op[g].fd].in /\ \A y \in Events : events[op[g].fd][y] = None
      BY <1>0, <3>1 DEF Contexts
    <3>3. QED
      BY <2>2, <3>1, <3>2
  <2>6. \A g \in Fibers : pc'[g] = "del" =>
           ctx'[op'[g].fd].in /\ \A y \in Events : events'[op'[g].fd][y] = None
    BY <2>5
  <2>7. QED
    BY <2>b, <2>c, <2>4, <2>6, ZenonT(60) DEF Contexts
<1>9. QED
  BY <1>1, <1>2, <1>3, <1>4, <1>5, <1>6, <1>7, <1>8 DEF HookInv, FiberInv, FdInv

LEMMA ReportKeeps == ASSUME HookInv, NEW d \in Fds, NEW e \in Events, Report(d, e) PROVE HookInv'
<1>1. IsFiniteSet(timers')
  BY DEF HookInv, FiberInv, FiberType, Report
<1>2. QED
  BY <1>1, WakeKeeps DEF Report

\* A step of the timers that wakes nobody.
LEMMA TimersStep ==
  ASSUME HookInv, FiberType', TimersFit', NotTold', TimeoutWakes', Solo',
         \A f \in Fibers : cancelled'[f] => cancelled[f] \/ InIo(f),
         UNCHANGED <<pc, op, ctx, events, sock, nonblk, watched, cleared, sockets>>
  PROVE  HookInv'
<1>0. /\ Doing /\ NeverBlocks /\ FdType /\ ParkedOnce /\ Registry /\ Contexts
  BY DEF HookInv, FiberInv, FdInv
<1>1. Doing' /\ NeverBlocks' /\ FdType'
  BY <1>0 DEF Doing, NeverBlocks, FdType, InIo, Asleep
<1>2. ParkedOnce'
  <2>1. \A f \in Fibers : InIo(f) => ~ Asleep(f)
    BY DEF InIo, Asleep, Ops
  <2>2. \A f \in Fibers : Asleep(f) /\ ~ cancelled[f] => ~ cancelled'[f]
    BY <2>1
  <2>3. QED
    BY <1>0, <2>2 DEF ParkedOnce, InIo, Asleep
<1>3. Registry' /\ Contexts'
  BY <1>0 DEF Registry, Registered, Contexts, InIo
<1>4. QED
  BY <1>1, <1>2, <1>3 DEF HookInv, FiberInv, FdInv

LEMMA CancelEventKeeps == ASSUME HookInv, NEW t \in timers, CancelEvent(t) PROVE HookInv'
<1>0. /\ FiberType /\ Solo /\ TimersFit /\ NotTold /\ TimeoutWakes
      /\ FdType /\ ParkedOnce /\ Registry /\ Contexts
  BY DEF HookInv, FiberInv, FdInv
<1>1. t.stage = "marked" /\ t.event # "sleep" /\ t.fd \in Fds /\ t \in TimerType
  BY <1>0 DEF CancelEvent, TimersFit, FiberType
<1>2. t.event \in Events
  BY <1>1 DEF TimerType
<1>3. timers' = timers \ {t} /\ UNCHANGED <<op, inst, cancelled, ctx, sock, nonblk, cleared, sockets>>
  BY DEF CancelEvent
<1>4. IsFiniteSet(timers')
  BY <1>0, <1>3, FS_RemoveElement DEF FiberType
<1>5. CtlFails(t.fd) => events[t.fd][t.event] = None
  BY <1>0, <1>1, <1>2 DEF CtlFails, Registry, Registered, Contexts
<1>6. CASE events[t.fd][t.event] = None
  <2>1. UNCHANGED <<pc, events, watched>>
    BY <1>6 DEF CancelEvent
  <2>2. FiberType' /\ Solo' /\ NotTold'
    BY <1>0, <1>3, <1>4, <2>1 DEF FiberType, Solo, NotTold
  <2>3. TimersFit'
    BY <1>0, <1>3, <2>1 DEF TimersFit, Asleep
  <2>4. TimeoutWakes'
    <3> SUFFICES ASSUME NEW g \in Fibers, pc[g] = "parked", cancelled[g]
                 PROVE  \E u \in timers' : u.fiber = g /\ u.inst = inst[g] /\ u.stage = "marked"
      BY <1>3, <2>1 DEF TimeoutWakes
    <3>1. PICK u \in timers : u.fiber = g /\ u.inst = inst[g] /\ u.stage = "marked"
      BY <1>0 DEF TimeoutWakes
    <3>2. CASE u = t
      <4>1. op[g].fd = t.fd /\ Event(op[g].call) = t.event
        BY <1>0, <1>1, <3>1, <3>2 DEF TimersFit
      <4>2. events[t.fd][t.event] = g
        BY <1>0, <4>1 DEF ParkedOnce
      <4>3. QED
        BY <4>2, <1>6, HookAssumption
    <3>3. CASE u # t
      BY <3>1, <3>3, <1>3
    <3>4. QED
      BY <3>2, <3>3
  <2>5. QED
    BY <1>3, <2>1, <2>2, <2>3, <2>4, TimersStep
<1>7. CASE events[t.fd][t.event] # None
  <2>1. /\ pc' = Wake({events[t.fd][t.event]})
        /\ events' = [events EXCEPT ![t.fd][t.event] = None]
        /\ watched' = [watched EXCEPT ![t.fd] = @ \ {t.event}]
    BY <1>5, <1>7 DEF CancelEvent
  <2>2. QED
    BY <1>1, <1>2, <1>3, <1>4, <1>7, <2>1, WakeKeeps
<1>8. QED
  BY <1>6, <1>7

\* One timer changes its stage.
LEMMA StageKeeps ==
  ASSUME HookInv, NEW t \in timers, NEW s \in {"due", "marked"}, t.stage # "marked",
         timers' = (timers \ {t}) \cup {[t EXCEPT !.stage = s]},
         s = "marked" => /\ t.event # "sleep" /\ t.inst = inst[t.fiber]
                         /\ cancelled' = [cancelled EXCEPT ![t.fiber] = TRUE]
                         /\ \A g \in Fibers : pc[g] \notin BusyPcs /\ Has(g),
         s = "due" => UNCHANGED cancelled,
         UNCHANGED <<pc, op, inst, ctx, events, sock, nonblk, watched, cleared, sockets>>
  PROVE  HookInv'
<1>0. FiberType /\ Solo /\ TimersFit /\ NotTold /\ TimeoutWakes
  BY DEF HookInv, FiberInv
<1> DEFINE v == [t EXCEPT !.stage = s]
<1>1. /\ v \in TimerType /\ v.fiber = t.fiber /\ v.inst = t.inst /\ v.fd = t.fd
      /\ v.event = t.event /\ v.stage = s /\ t.fiber \in Fibers
  BY <1>0 DEF FiberType, TimerType
<1> HIDE DEF v
<1>2. timers' = (timers \ {t}) \cup {v}
  BY DEF v
<1>3. /\ cancelled' \in [Fibers -> BOOLEAN]
      /\ \A g \in Fibers : cancelled[g] => cancelled'[g]
      /\ \A g \in Fibers : cancelled'[g] => cancelled[g] \/ (s = "marked" /\ g = t.fiber)
      /\ s = "marked" => cancelled'[t.fiber]
  BY <1>0, <1>1 DEF FiberType
<1>4. FiberType'
  <2>1. IsFiniteSet(timers')
    <3>1. IsFiniteSet(timers \ {t})
      BY <1>0, FS_RemoveElement DEF FiberType
    <3>2. QED
      BY <3>1, <1>2, FS_AddElement
  <2>2. QED
    BY <1>0, <1>1, <1>2, <1>3, <2>1 DEF FiberType
<1>5. Solo'
  BY <1>0, <1>1, <1>2 DEF Solo, Has
<1>6. TimersFit'
  <2> SUFFICES ASSUME NEW u \in timers'
               PROVE  /\ u.inst <= inst[u.fiber]
                      /\ u.event # "sleep" => u.fd \in Fds
                      /\ u.event # "sleep" /\ u.inst = inst[u.fiber] =>
                           op[u.fiber].call \in Ops /\ u.fd = op[u.fiber].fd
                             /\ u.event = Event(op[u.fiber].call)
                      /\ u.event = "sleep" =>
                           /\ u.stage # "marked" /\ u.inst = inst[u.fiber]
                           /\ pc[u.fiber] = "parked" /\ Asleep(u.fiber)
                           /\ \A w \in timers' : w.event = "sleep" /\ w.fiber = u.fiber => w = u
                      /\ u.stage = "marked" => u.inst = inst[u.fiber] /\ cancelled'[u.fiber]
    BY DEF TimersFit, Asleep
  <2>1. CASE u = v
    BY <2>1, <1>0, <1>1, <1>2, <1>3 DEF TimersFit
  <2>2. CASE u \in timers /\ u # t
    <3>1. u.fiber \in Fibers
      BY <2>2, <1>0 DEF FiberType, TimerType
    <3>2. QED
      BY <2>2, <3>1, <1>0, <1>1, <1>2, <1>3 DEF TimersFit
  <2>3. QED
    BY <2>1, <2>2, <1>2
<1>7. NotTold'
  <2>1. CASE s = "marked"
    BY <2>1 DEF NotTold, Trying, BusyPcs
  <2>2. CASE s = "due"
    BY <2>2, <1>0 DEF NotTold
  <2>3. QED
    BY <2>1, <2>2
<1>8. TimeoutWakes'
  <2> SUFFICES ASSUME NEW g \in Fibers, pc[g] = "parked", cancelled'[g]
               PROVE  \E u \in timers' : u.fiber = g /\ u.inst = inst[g] /\ u.stage = "marked"
    BY DEF TimeoutWakes
  <2>1. CASE cancelled[g]
    BY <2>1, <1>0, <1>2 DEF TimeoutWakes
  <2>2. CASE s = "marked" /\ g = t.fiber
    BY <2>2, <1>1, <1>2
  <2>3. QED
    BY <2>1, <2>2, <1>3
<1>9. \A f \in Fibers : cancelled'[f] => cancelled[f] \/ InIo(f)
  <2>1. s = "marked" => op[t.fiber].call \in Ops /\ op[t.fiber].fd \in Fds
    BY <1>0, <1>1 DEF TimersFit
  <2>2. QED
    BY <2>1, <1>3 DEF InIo
<1>10. QED
  BY <1>4, <1>5, <1>6, <1>7, <1>8, <1>9, TimersStep

LEMMA ExpireKeeps == ASSUME HookInv, NEW t \in timers, Expire(t) PROVE HookInv'
BY StageKeeps DEF Expire

LEMMA CallbackKeeps ==
  ASSUME OneHookedThread, HookInv, NEW t \in timers, Callback(t) PROVE HookInv'
<1>0. /\ FiberType /\ Solo /\ Doing /\ TimersFit /\ NotTold /\ TimeoutWakes /\ NeverBlocks
      /\ FdType /\ ParkedOnce /\ Registry /\ Contexts
  BY DEF HookInv, FiberInv, FdInv
<1>1. t.stage = "due" /\ CanRun(t) /\ t \in TimerType /\ t.fiber \in Fibers
  BY <1>0 DEF Callback, FiberType, TimerType
<1>2. \A g \in Fibers : pc[g] \notin BusyPcs /\ Has(g)
  <2>1. t \notin Busy
    BY <1>1, HookAssumption DEF Busy
  <2>2. QED
    BY <2>1, <1>0, <1>1, NobodyBusy
<1>3. UNCHANGED <<op, inst, ctx, events, sock, nonblk, watched, cleared, sockets>>
  BY DEF Callback
<1>4. CASE t.event = "sleep"
  <2> DEFINE f == t.fiber
  <2>1. pc' = Wake({f}) /\ timers' = timers \ {t} /\ cancelled' = cancelled
    BY <1>4 DEF Callback
  <2>2. f \in Fibers /\ pc[f] = "parked" /\ Asleep(f) /\ ~ InIo(f)
    BY <1>0, <1>1, <1>4 DEF TimersFit, Asleep, InIo, Ops
  <2> HIDE DEF f
  <2>3. /\ pc' \in [Fibers -> Labels] /\ pc'[f] = "runnable"
        /\ \A g \in Fibers \ {f} : pc'[g] = pc[g]
    BY <1>0, <2>1, <2>2 DEF FiberType, Labels, Wake
  <2>4. IsFiniteSet(timers')
    BY <1>0, <2>1, FS_RemoveElement DEF FiberType
  <2>5. FiberType' /\ Doing' /\ NotTold' /\ NeverBlocks'
    BY <1>0, <1>3, <2>1, <2>2, <2>3, <2>4 DEF FiberType, Doing, NotTold, NeverBlocks, InIo, Asleep, Trying
  <2>6. Solo'
    BY <1>0, <2>1, <2>3 DEF Solo, BusyPcs
  <2>7. TimersFit'
    <3>1. \A u \in timers : u.fiber \in Fibers
      BY <1>0 DEF FiberType, TimerType
    <3>2. \A u \in timers' : u.event = "sleep" => u.fiber # f
      BY <1>0, <1>4, <2>1 DEF TimersFit, f
    <3>3. \A u \in timers' : u.event = "sleep" => pc'[u.fiber] = pc[u.fiber]
      BY <3>1, <3>2, <2>1, <2>3
    <3>4. QED
      BY <1>0, <1>3, <2>1, <3>1, <3>3 DEF TimersFit, Asleep
  <2>8. TimeoutWakes'
    BY <1>0, <1>1, <1>3, <2>1, <2>3, ZenonT(60) DEF TimeoutWakes
  <2>9. FdType' /\ ParkedOnce'
    BY <1>0, <1>3, <2>1, <2>2, <2>3, ZenonT(60) DEF FdType, ParkedOnce, InIo, Asleep
  <2>10. Registry'
    BY <1>0, <1>3, <2>2, <2>3 DEF Registry, Registered, InIo
  <2>11. Contexts'
    <3>1. \A g \in Fibers : pc'[g] \in {"get", "close_f", "del"} \/ pc[g] \in {"get", "close_f", "del"} => pc'[g] = pc[g]
      BY <2>2, <2>3
    <3>2. QED
      BY <1>0, <1>3, <3>1 DEF Contexts
  <2>12. QED
    BY <2>5, <2>6, <2>7, <2>8, <2>9, <2>10, <2>11 DEF HookInv, FiberInv, FdInv
<1>5. CASE t.event # "sleep" /\ UNCHANGED pc /\ t.inst = inst[t.fiber]
           /\ cancelled' = [cancelled EXCEPT ![t.fiber] = TRUE]
           /\ timers' = (timers \ {t}) \cup {[t EXCEPT !.stage = "marked"]}
  BY <1>1, <1>2, <1>3, <1>5, StageKeeps
<1>6. CASE t.event # "sleep" /\ timers' = timers \ {t} /\ UNCHANGED <<cancelled, pc>>
  <2>1. IsFiniteSet(timers')
    BY <1>0, <1>6, FS_RemoveElement DEF FiberType
  <2>2. FiberType' /\ Solo' /\ NotTold'
    BY <1>0, <1>3, <1>6, <2>1 DEF FiberType, Solo, NotTold
  <2>3. TimersFit'
    BY <1>0, <1>3, <1>6 DEF TimersFit, Asleep
  <2>4. TimeoutWakes'
    BY <1>0, <1>1, <1>3, <1>6 DEF TimeoutWakes
  <2>5. QED
    BY <1>3, <1>6, <2>2, <2>3, <2>4, TimersStep
<1>7. QED
  BY <1>4, <1>5, <1>6 DEF Callback

-----------------------------------------------------------------------------
(***************************************************************************)
(* The start of a call                                                     *)
(***************************************************************************)
\* Fiber f is now in a call of its own, told nothing; the others are where they were.
Started(f, call, d) ==
  /\ op' \in [Fibers -> CallType] /\ op'[f].call = call /\ op'[f].fd = d
  /\ inst' \in [Fibers -> Nat] /\ inst[f] < inst'[f]
  /\ cancelled' \in [Fibers -> BOOLEAN] /\ ~ cancelled'[f]
  /\ \A g \in Fibers \ {f} : op'[g] = op[g] /\ inst'[g] = inst[g] /\ cancelled'[g] = cancelled[g]

LEMMA StartsFacts ==
  ASSUME OneHookedThread, HookInv, NEW f \in Fibers, NEW call \in Names, NEW d \in Fds \cup {-1},
         Starts(f, call, d)
  PROVE  /\ Started(f, call, d) /\ pc[f] = "out"
         /\ \A g \in Fibers : pc[g] \notin BusyPcs /\ Has(g)
<1>0. FiberType /\ FdType
  BY DEF HookInv, FiberInv, FdInv
<1>1. pc[f] = "out" /\ \A g \in Fibers : pc[g] \notin BusyPcs /\ Has(g)
  BY <1>0, IdleFiber DEF Starts, BusyPcs
<1>2. /\ inst' \in [Fibers -> Nat] /\ inst[f] < inst'[f]
      /\ \A g \in Fibers \ {f} : inst'[g] = inst[g]
  BY <1>0 DEF Starts, FiberType
<1>3. /\ cancelled' \in [Fibers -> BOOLEAN] /\ ~ cancelled'[f]
      /\ \A g \in Fibers \ {f} : cancelled'[g] = cancelled[g]
  BY <1>0 DEF Starts, FiberType
<1>4. PICK s \in Nat, b \in BOOLEAN :
         op' = [op EXCEPT ![f] = [call |-> call, fd |-> d, sock |-> s, to |-> b]]
  <2>1. (IF d \in Fds THEN sock[d] ELSE 0) \in Nat
    BY <1>0 DEF FdType
  <2>2. QED
    BY <2>1 DEF Starts
<1>5. [call |-> call, fd |-> d, sock |-> s, to |-> b] \in CallType
  BY DEF CallType
<1>6. QED
  BY <1>0, <1>1, <1>2, <1>3, <1>4, <1>5 DEF Started, FiberType

\* Nobody but f moves, except waiters of a descriptor that are woken.
LEMMA StartKeeps ==
  ASSUME HookInv, NEW f \in Fibers, NEW call \in Names, NEW d \in Fds \cup {-1},
         Started(f, call, d), pc[f] = "out", \A g \in Fibers : pc[g] \notin BusyPcs /\ Has(g),
         NEW l \in {"out", "try", "parked", "del", "get"},
         pc' \in [Fibers -> Labels], pc'[f] = l,
         \A g \in Fibers \ {f} : pc'[g] = pc[g] \/ (pc[g] = "parked" /\ InIo(g) /\ pc'[g] = "runnable"),
         l = "try" => call \in Ops /\ d \in Fds,
         l \in {"del", "get"} => d \in Fds,
         l = "parked" => call = "sleep" /\ d = -1,
         timers' = IF l = "parked"
                   THEN timers \cup {[fiber |-> f, inst |-> inst'[f], fd |-> -1,
                                      event |-> "sleep", stage |-> "armed"]}
                   ELSE timers
  PROVE  FiberInv'
<1>0. /\ FiberType /\ Solo /\ Doing /\ TimersFit /\ NotTold /\ TimeoutWakes /\ NeverBlocks
  BY DEF HookInv, FiberInv
<1>a. PICK v : v = [fiber |-> f, inst |-> inst'[f], fd |-> -1, event |-> "sleep", stage |-> "armed"]
  OBVIOUS
<1>1. v.fiber = f /\ v.inst = inst'[f] /\ v.event = "sleep" /\ v.stage = "armed"
  BY <1>a
<1>2. v \in TimerType
  BY <1>a DEF TimerType, Started
<1>3. \A t \in timers' : t \in timers \/ (t = v /\ l = "parked")
  BY <1>a
<1>4. \A t \in timers : t \in timers' /\ t.fiber \in Fibers /\ t.stage # "marked" /\ t.inst \in Nat
  BY <1>0 DEF FiberType, TimerType, Has
<1>5. FiberType'
  <2>1. IsFiniteSet(timers')
    BY <1>0, FS_AddElement DEF FiberType
  <2>2. timers' \subseteq TimerType
    BY <1>0, <1>2, <1>3 DEF FiberType
  <2>3. QED
    BY <2>1, <2>2 DEF FiberType, Started
<1>6. Solo'
  <2>1. \A t \in timers' : t.stage # "marked"
    BY <1>1, <1>3, <1>4
  <2>2. \A g \in Fibers \ {f} : pc'[g] \notin BusyPcs
    BY DEF BusyPcs
  <2>3. QED
    BY <2>1, <2>2 DEF Solo
<1>7. Doing'
  BY <1>0 DEF Doing, InIo, Asleep, Started, Trying
<1>8. NotTold' /\ NeverBlocks'
  <2>1. \A g \in Fibers \ {f} : pc'[g] \notin BusyPcs
    BY DEF BusyPcs
  <2>2. \A g \in Fibers \ {f} : pc'[g] \notin Trying
    BY <2>1 DEF BusyPcs, Trying
  <2>3. QED
    BY <2>2 DEF NotTold, NeverBlocks, Started, Trying
<1>9. TimeoutWakes'
  BY <1>0, <1>4 DEF TimeoutWakes, Started
<1>10. TimersFit'
  <2> SUFFICES ASSUME NEW u \in timers'
               PROVE  /\ u.inst <= inst'[u.fiber]
                      /\ u.event # "sleep" => u.fd \in Fds
                      /\ u.event # "sleep" /\ u.inst = inst'[u.fiber] =>
                           op'[u.fiber].call \in Ops /\ u.fd = op'[u.fiber].fd
                             /\ u.event = Event(op'[u.fiber].call)
                      /\ u.event = "sleep" =>
                           /\ u.stage # "marked" /\ u.inst = inst'[u.fiber]
                           /\ pc'[u.fiber] = "parked" /\ Asleep(u.fiber)'
                           /\ \A w \in timers' : w.event = "sleep" /\ w.fiber = u.fiber => w = u
                      /\ u.stage = "marked" => u.inst = inst'[u.fiber] /\ cancelled'[u.fiber]
    BY DEF TimersFit
  <2>a. \A t \in timers : t.event = "sleep" => t.fiber # f /\ pc[t.fiber] = "parked" /\ Asleep(t.fiber)
    BY <1>0 DEF TimersFit
  <2>1. CASE u \in timers /\ u.fiber = f
    <3>1. u.inst < inst'[f] /\ u.event # "sleep" /\ (u.event # "sleep" => u.fd \in Fds)
      <4>1. u.inst <= inst[f] /\ u.inst \in Nat /\ inst[f] \in Nat /\ inst'[f] \in Nat
        BY <2>1, <1>0, <1>4 DEF TimersFit, FiberType, Started
      <4>2. u.inst < inst'[f]
        BY <4>1 DEF Started
      <4>3. QED
        BY <4>2, <2>1, <2>a, <1>0 DEF TimersFit
    <3>2. u.inst \in Nat /\ inst'[f] \in Nat /\ u.stage # "marked"
      BY <2>1, <1>4 DEF Started
    <3>3. u.inst <= inst'[f] /\ u.inst # inst'[f]
      BY <3>1, <3>2
    <3>4. QED
      BY <2>1, <3>1, <3>2, <3>3
  <2>2. CASE u \in timers /\ u.fiber # f
    <3>1. u.fiber \in Fibers \ {f}
      BY <2>2, <1>4
    <3>2. op'[u.fiber] = op[u.fiber] /\ inst'[u.fiber] = inst[u.fiber]
      BY <3>1 DEF Started
    <3>3. u.event = "sleep" => pc'[u.fiber] = "parked" /\ Asleep(u.fiber)'
      BY <2>a, <2>2, <3>1, <3>2 DEF Asleep, InIo, Ops
    <3>4. \A w \in timers' : w.event = "sleep" /\ w.fiber = u.fiber => w \in timers
      BY <1>1, <1>3, <2>2
    <3>5. QED
      BY <2>2, <3>1, <3>2, <3>3, <3>4, <1>0, <1>4 DEF TimersFit
  <2>3. CASE u = v /\ l = "parked"
    <3>1. inst'[f] \in Nat /\ inst'[f] <= inst'[f]
      BY DEF Started
    <3>2. Asleep(f)'
      BY <2>3 DEF Asleep, Started
    <3>3. \A w \in timers' : w.event = "sleep" /\ w.fiber = f => w = v
      BY <1>3, <2>a
    <3>4. QED
      BY <2>3, <1>1, <3>1, <3>2, <3>3
  <2>4. QED
    BY <2>1, <2>2, <2>3, <1>3
<1>11. QED
  BY <1>5, <1>6, <1>7, <1>8, <1>9, <1>10 DEF FiberInv

\* The registry and the contexts when only f moves.
LEMMA StartRegistry ==
  ASSUME HookInv, NEW f \in Fibers, NEW call, NEW d, Started(f, call, d), pc[f] = "out",
         NEW l \in {"out", "try", "parked", "del", "get"},
         pc' = [pc EXCEPT ![f] = l],
         l = "parked" => call = "sleep" /\ d = -1,
         UNCHANGED <<events, watched>>, \A x \in Fds : ctx[x].in => ctx'[x].in
  PROVE  ParkedOnce' /\ Registry'
<1>0. FiberType /\ FdType /\ ParkedOnce /\ Registry
  BY DEF HookInv, FiberInv, FdInv
<1>1. pc'[f] = l /\ \A g \in Fibers \ {f} : pc'[g] = pc[g] /\ op'[g] = op[g] /\ cancelled'[g] = cancelled[g]
  BY <1>0 DEF FiberType, Started
<1>2. ParkedOnce'
  BY <1>0, <1>1 DEF ParkedOnce, InIo, Asleep, Started
<1>3. Registry'
  <2> SUFFICES ASSUME NEW x \in Fds, NEW y \in Events, events[x][y] # None
               PROVE  Registered(events[x][y], x, y)'
    BY DEF Registry
  <2>1. Registered(events[x][y], x, y)
    BY <1>0 DEF Registry
  <2>2. events[x][y] \in Fibers \ {f}
    BY <2>1 DEF Registered
  <2>3. QED
    BY <2>1, <2>2, <1>1 DEF Registered, InIo
<1>4. QED
  BY <1>2, <1>3

LEMMA NoneOpening ==
  ASSUME Contexts, \A g \in Fibers : pc[g] \notin BusyPcs, NEW d \in Fds, sock[d] # 0
  PROVE  ctx[d].in /\ (nonblk[d] \/ d \in cleared)
BY DEF Contexts, BusyPcs

LEMMA BeginKeeps ==
  ASSUME OneHookedThread, HookInv, NEW f \in Fibers, NEW call, NEW d \in Fds, Begin(f, call, d)
  PROVE  HookInv'
<1>0. FiberType /\ FdType /\ Contexts
  BY DEF HookInv, FiberInv, FdInv
<1>1. call \in Ops /\ call \in Names
  BY DEF Begin, Names
<1>2. Started(f, call, d) /\ pc[f] = "out" /\ \A g \in Fibers : pc[g] \notin BusyPcs /\ Has(g)
  BY <1>1, StartsFacts DEF Begin
<1>3. PICK l \in {"out", "try"} : pc' = [pc EXCEPT ![f] = l]
  BY DEF Begin, Return, Goto
<1>4. UNCHANGED <<timers, ctx, events, sock, nonblk, watched, cleared, sockets>>
  BY DEF Begin
<1>5. pc' \in [Fibers -> Labels] /\ pc'[f] = l /\ \A g \in Fibers \ {f} : pc'[g] = pc[g]
  BY <1>0, <1>3 DEF FiberType, Labels, BusyPcs
<1>6. FiberInv'
  BY <1>1, <1>2, <1>3, <1>4, <1>5, StartKeeps
<1>7. ParkedOnce' /\ Registry'
  BY <1>2, <1>3, <1>4, StartRegistry
<1>8. FdType'
  BY <1>0, <1>4 DEF FdType
<1>9. Contexts'
  <2>1. \A g \in Fibers : pc'[g] \notin {"get", "close_f", "del"} /\ pc[g] \notin {"get", "close_f", "del"}
    BY <1>2, <1>3, <1>5 DEF BusyPcs
  <2>2. QED
    BY <1>0, <1>4, <2>1 DEF Contexts
<1>10. QED
  BY <1>6, <1>7, <1>8, <1>9 DEF HookInv, FdInv

LEMMA SleepKeeps ==
  ASSUME OneHookedThread, HookInv, NEW f \in Fibers, Sleep(f) PROVE HookInv'
<1>0. FiberType /\ FdType /\ Contexts
  BY DEF HookInv, FiberInv, FdInv
<1>2. Started(f, "sleep", -1) /\ pc[f] = "out" /\ \A g \in Fibers : pc[g] \notin BusyPcs /\ Has(g)
  BY StartsFacts DEF Sleep, Names
<1>3. pc' = [pc EXCEPT ![f] = "parked"] /\ UNCHANGED <<ctx, events, sock, nonblk, watched, cleared, sockets>>
  BY DEF Sleep, Goto
<1>4. timers' = timers \cup {[fiber |-> f, inst |-> inst'[f], fd |-> -1, event |-> "sleep", stage |-> "armed"]}
  BY DEF Sleep
<1>5. pc' \in [Fibers -> Labels] /\ pc'[f] = "parked" /\ \A g \in Fibers \ {f} : pc'[g] = pc[g]
  BY <1>0, <1>3 DEF FiberType, Labels
<1>6. FiberInv'
  BY <1>2, <1>4, <1>5, StartKeeps DEF Names
<1>7. ParkedOnce' /\ Registry'
  BY <1>2, <1>3, StartRegistry
<1>8. FdType'
  BY <1>0, <1>3 DEF FdType
<1>9. Contexts'
  <2>1. \A g \in Fibers : pc'[g] \notin {"get", "close_f", "del"} /\ pc[g] \notin {"get", "close_f", "del"}
    BY <1>2, <1>5 DEF BusyPcs
  <2>2. QED
    BY <1>0, <1>3, <2>1 DEF Contexts
<1>10. QED
  BY <1>6, <1>7, <1>8, <1>9 DEF HookInv, FdInv

LEMMA TuneKeeps ==
  ASSUME OneHookedThread, HookInv, NEW f \in Fibers, NEW call, NEW d \in Fds, Tune(f, call, d)
  PROVE  HookInv'
<1>0. FiberType /\ FdType /\ Contexts
  BY DEF HookInv, FiberInv, FdInv
<1>1. call \in Names
  BY DEF Tune, Names
<1>2. Started(f, call, d) /\ pc[f] = "out" /\ \A g \in Fibers : pc[g] \notin BusyPcs /\ Has(g)
  BY <1>1, StartsFacts DEF Tune
<1>3. pc' = [pc EXCEPT ![f] = "out"] /\ UNCHANGED <<timers, events, sock, watched, sockets>>
  BY DEF Tune, Return
<1>4. PICK c \in [in : {TRUE}, user : BOOLEAN, timeout : BOOLEAN] : ctx' = [ctx EXCEPT ![d] = c]
  <2>1. ctx[d] \in [in : BOOLEAN, user : BOOLEAN, timeout : BOOLEAN] /\ ctx[d].in
    BY <1>0 DEF Tune, FdType
  <2>2. PICK v \in BOOLEAN :
          ctx' = [ctx EXCEPT ![d] =
            IF call = "setsockopt" THEN [ctx[d] EXCEPT !.timeout = v] ELSE [ctx[d] EXCEPT !.user = v]]
    BY DEF Tune
  <2>3. (IF call = "setsockopt" THEN [ctx[d] EXCEPT !.timeout = v] ELSE [ctx[d] EXCEPT !.user = v])
           \in [in : {TRUE}, user : BOOLEAN, timeout : BOOLEAN]
    BY <2>1
  <2>4. QED
    BY <2>2, <2>3
<1>5. ctx' \in [Fds -> [in : BOOLEAN, user : BOOLEAN, timeout : BOOLEAN]]
      /\ ctx'[d].in /\ \A x \in Fds \ {d} : ctx'[x] = ctx[x]
  BY <1>0, <1>4 DEF FdType
<1>6. PICK v \in BOOLEAN :
         /\ nonblk' = IF call = "ioctl" THEN [nonblk EXCEPT ![d] = v]
                      ELSE IF call = "fcntl" THEN [nonblk EXCEPT ![d] = TRUE] ELSE nonblk
         /\ cleared' = IF call = "ioctl" THEN (IF v THEN cleared \ {d} ELSE cleared \cup {d})
                       ELSE IF call = "fcntl" THEN cleared \ {d} ELSE cleared
  BY DEF Tune
<1>7. /\ nonblk' \in [Fds -> BOOLEAN] /\ cleared' \subseteq Fds
      /\ nonblk[d] \/ d \in cleared => nonblk'[d] \/ d \in cleared'
      /\ \A x \in Fds \ {d} : nonblk'[x] = nonblk[x] /\ (x \in cleared' <=> x \in cleared)
  BY <1>0, <1>6 DEF FdType
<1>8. pc' \in [Fibers -> Labels] /\ pc'[f] = "out" /\ \A g \in Fibers \ {f} : pc'[g] = pc[g]
  BY <1>0, <1>3 DEF FiberType, Labels
<1>9. FiberInv'
  BY <1>1, <1>2, <1>3, <1>8, StartKeeps
<1>10. ParkedOnce' /\ Registry'
  BY <1>2, <1>3, <1>5, StartRegistry
<1>11. FdType'
  BY <1>0, <1>3, <1>5, <1>7 DEF FdType
<1>12. Contexts'
  <2>1. \A g \in Fibers : pc'[g] \notin {"get", "close_f", "del"}
    BY <1>2, <1>8 DEF BusyPcs
  <2>2. \A x \in Fds : sock[x] # 0 => ctx'[x].in /\ (nonblk'[x] \/ x \in cleared')
    BY <1>0, <1>2, <1>5, <1>7, NoneOpening
  <2>3. sock[d] # 0
    BY DEF Tune
  <2>4. \A x \in Fds : ctx'[x].in => sock[x] # 0
    BY <1>0, <1>5, <2>3 DEF Contexts
  <2>5. QED
    BY <1>3, <2>1, <2>2, <2>4 DEF Contexts
<1>13. QED
  BY <1>9, <1>10, <1>11, <1>12 DEF HookInv, FdInv

LEMMA SocketKeeps ==
  ASSUME OneHookedThread, HookInv, NEW f \in Fibers, NEW d \in Fds, Socket(f, d) PROVE HookInv'
<1>0. FiberType /\ FdType /\ Contexts
  BY DEF HookInv, FiberInv, FdInv
<1>2. Started(f, "socket", d) /\ pc[f] = "out" /\ \A g \in Fibers : pc[g] \notin BusyPcs /\ Has(g)
  BY StartsFacts DEF Socket, Names
<1>3. /\ pc' = [pc EXCEPT ![f] = "get"] /\ UNCHANGED <<timers, ctx, events, watched, nonblk, cleared>>
      /\ sock[d] = 0 /\ sock' = [sock EXCEPT ![d] = sockets + 1] /\ sockets' = sockets + 1
  BY DEF Socket, Goto, OneHookedThread
<1>4. /\ sock' \in [Fds -> Nat] /\ sock'[d] # 0 /\ sockets' \in Nat
      /\ \A x \in Fds \ {d} : sock'[x] = sock[x]
  BY <1>0, <1>3 DEF FdType
<1>5. pc' \in [Fibers -> Labels] /\ pc'[f] = "get" /\ \A g \in Fibers \ {f} : pc'[g] = pc[g]
  BY <1>0, <1>3 DEF FiberType, Labels, BusyPcs
<1>6. FiberInv'
  BY <1>2, <1>3, <1>5, StartKeeps DEF Names
<1>7. ParkedOnce' /\ Registry'
  BY <1>2, <1>3, StartRegistry
<1>8. FdType'
  BY <1>0, <1>3, <1>4 DEF FdType
<1>9. Contexts'
  <2>1. \A g \in Fibers : pc'[g] \in {"get", "close_f", "del"} => g = f
    BY <1>2, <1>5 DEF BusyPcs
  <2>2. op'[f].fd = d /\ ~ ctx[d].in
    BY <1>0, <1>2, <1>3 DEF Started, Contexts
  <2>3. \A x \in Fds \ {d} : sock[x] # 0 => ctx[x].in /\ (nonblk[x] \/ x \in cleared)
    BY <1>0, <1>2, NoneOpening
  <2>4. \A x \in Fds : sock'[x] # 0 =>
           \/ ctx[x].in /\ (nonblk[x] \/ x \in cleared)
           \/ pc'[f] \in {"get", "close_f"} /\ op'[f].fd = x
    BY <1>4, <1>5, <2>2, <2>3
  <2>5. \A x \in Fds : ctx[x].in => sock'[x] # 0
    BY <1>0, <1>4 DEF Contexts
  <2>6. \A g \in Fibers : pc'[g] \in {"get", "close_f"} => ~ ctx[op'[g].fd].in /\ sock'[op'[g].fd] # 0
    BY <1>4, <2>1, <2>2
  <2>7. QED
    BY <1>3, <1>5, <2>1, <2>4, <2>5, <2>6 DEF Contexts
<1>10. QED
  BY <1>6, <1>7, <1>8, <1>9 DEF HookInv, FdInv

\* close() wakes whoever waits for its descriptor.
LEMMA CloseKeeps ==
  ASSUME OneHookedThread, HookInv, NEW f \in Fibers, NEW d \in Fds, Close(f, d) PROVE HookInv'
<1>0. /\ FiberType /\ Doing /\ FdType /\ ParkedOnce /\ Registry /\ Contexts
  BY DEF HookInv, FiberInv, FdInv
<1>1. sock[d] # 0 /\ UNCHANGED <<timers, ctx, sock, nonblk, cleared, sockets>>
  BY DEF Close
<1>2. Started(f, "close", d) /\ pc[f] = "out" /\ \A g \in Fibers : pc[g] \notin BusyPcs /\ Has(g)
  BY StartsFacts DEF Close, Names
<1>3. ctx[d].in /\ f \notin Unhooked
  BY <1>0, <1>1, <1>2, NoneOpening DEF OneHookedThread
<1>4. PICK ws : ws = {events[d][e] : e \in Events} \ {None}
  OBVIOUS
<1>5. \A e \in Events : events[d][e] # None => events[d][e] \in ws /\ Registered(events[d][e], d, e)
  BY <1>0, <1>4 DEF Registry
<1>6. \A w \in ws : /\ w \in Fibers /\ w # f /\ pc[w] = "parked" /\ InIo(w) /\ op[w].fd = d
                    /\ \E e \in Events : events[d][e] = w
  <2>1. \A w \in ws : \E e \in Events : events[d][e] = w /\ w # None
    BY <1>4
  <2>2. QED
    BY <2>1, <1>5, <1>2 DEF Registered
<1>7. ws # {} => ~ CtlFails(d)
  <2>1. (\E e \in Events : events[d][e] # None) => watched[d] # {}
    BY <1>5 DEF Registered
  <2>2. QED
    BY <1>1, <2>1 DEF CtlFails
<1>8. CASE ws = {}
  <2>1. pc' = [pc EXCEPT ![f] = "del"] /\ UNCHANGED <<events, watched>>
    BY <1>3, <1>4, <1>8 DEF Close, Goto
  <2>2. pc' \in [Fibers -> Labels] /\ pc'[f] = "del" /\ \A g \in Fibers \ {f} : pc'[g] = pc[g]
    BY <1>0, <2>1 DEF FiberType, Labels, BusyPcs
  <2>3. FiberInv'
    BY <1>1, <1>2, <2>2, StartKeeps DEF Names
  <2>4. ParkedOnce' /\ Registry'
    BY <1>1, <1>2, <2>1, StartRegistry
  <2>5. FdType'
    BY <1>0, <1>1, <2>1 DEF FdType
  <2>6. Contexts'
    <3>1. \A g \in Fibers : pc'[g] \notin {"get", "close_f"} /\ (pc'[g] = "del" => g = f)
      BY <1>2, <2>2 DEF BusyPcs
    <3>2. \A e \in Events : events[d][e] = None
      BY <1>5, <1>8
    <3>3. \A x \in Fds : sock[x] # 0 => ctx[x].in /\ (nonblk[x] \/ x \in cleared)
      BY <1>0, <1>2, NoneOpening
    <3>4. op'[f].fd = d
      BY <1>2 DEF Started
    <3>5. QED
      BY <1>0, <1>1, <1>3, <2>1, <3>1, <3>2, <3>3, <3>4 DEF Contexts
  <2>7. QED
    BY <2>3, <2>4, <2>5, <2>6 DEF HookInv, FdInv
<1>9. CASE ws # {}
  <2>1. /\ pc' = [Wake(ws) EXCEPT ![f] = "del"]
        /\ events' = [events EXCEPT ![d] = [e \in Events |-> None]]
        /\ watched' = [watched EXCEPT ![d] = {}]
    BY <1>3, <1>4, <1>7, <1>9 DEF Close
  <2>2. /\ pc' \in [Fibers -> Labels] /\ pc'[f] = "del"
        /\ \A g \in Fibers \ {f} : pc'[g] = IF g \in ws THEN "runnable" ELSE pc[g]
    BY <1>0, <2>1 DEF FiberType, Labels, BusyPcs, Wake
  <2>3. /\ events' \in [Fds -> [Events -> Fibers \cup {None}]]
        /\ \A e \in Events : events'[d][e] = None
        /\ \A x \in Fds \ {d} : events'[x] = events[x] /\ watched'[x] = watched[x]
        /\ watched' \in [Fds -> SUBSET Events]
    BY <1>0, <2>1 DEF FdType
  <2>4. FiberInv'
    BY <1>1, <1>2, <1>6, <2>2, StartKeeps DEF Names
  <2>5. FdType'
    BY <1>0, <1>1, <2>3 DEF FdType
  <2>6. ParkedOnce'
    <3> SUFFICES ASSUME NEW g \in Fibers, pc'[g] = "parked"
                 PROVE  \/ Asleep(g)' /\ ~ cancelled'[g]
                        \/ InIo(g)' /\ events'[op'[g].fd][Event(op'[g].call)] = g
      BY DEF ParkedOnce
    <3>1. g \in Fibers \ {f} /\ g \notin ws /\ pc[g] = "parked"
      BY <2>2
    <3>2. op'[g] = op[g] /\ cancelled'[g] = cancelled[g]
      BY <1>2, <3>1 DEF Started
    <3>3. \/ Asleep(g) /\ ~ cancelled[g]
          \/ InIo(g) /\ events[op[g].fd][Event(op[g].call)] = g
      BY <1>0, <3>1 DEF ParkedOnce
    <3>4. InIo(g) /\ events[op[g].fd][Event(op[g].call)] = g => op[g].fd # d
      <4>1. Event(op[g].call) \in Events /\ g # None
        BY HookAssumption DEF Event, Events
      <4>2. QED
        BY <4>1, <1>5, <3>1
    <3>5. QED
      BY <2>3, <3>2, <3>3, <3>4 DEF Asleep, InIo
  <2>7. Registry'
    <3> SUFFICES ASSUME NEW x \in Fds, NEW y \in Events, events'[x][y] # None
                 PROVE  Registered(events[x][y], x, y)'
      BY DEF Registry
    <3>1. x # d /\ events'[x][y] = events[x][y] /\ watched'[x] = watched[x]
      BY <2>3
    <3>2. Registered(events[x][y], x, y)
      BY <1>0, <3>1 DEF Registry
    <3>3. events[x][y] \in Fibers \ {f} /\ events[x][y] \notin ws
      BY <1>2, <1>6, <3>1, <3>2 DEF Registered
    <3>4. op'[events[x][y]] = op[events[x][y]] /\ pc'[events[x][y]] = "parked"
      BY <1>2, <2>2, <3>2, <3>3 DEF Started, Registered
    <3>5. QED
      BY <1>1, <3>1, <3>2, <3>4 DEF Registered, InIo
  <2>8. Contexts'
    <3>1. \A g \in Fibers : pc'[g] \notin {"get", "close_f"} /\ (pc'[g] = "del" => g = f)
      BY <1>2, <2>2 DEF BusyPcs
    <3>3. \A x \in Fds : sock[x] # 0 => ctx[x].in /\ (nonblk[x] \/ x \in cleared)
      BY <1>0, <1>2, NoneOpening
    <3>4. op'[f].fd = d
      BY <1>2 DEF Started
    <3>5. QED
      BY <1>0, <1>1, <1>3, <2>3, <3>1, <3>3, <3>4 DEF Contexts
  <2>9. QED
    BY <2>4, <2>5, <2>6, <2>7, <2>8 DEF HookInv, FdInv
<1>10. QED
  BY <1>8, <1>9

-----------------------------------------------------------------------------
(***************************************************************************)
(* The rest of close() and socket()                                        *)
(***************************************************************************)
\* A fiber that is on the thread goes on with socket() or close(): the fiber half.
LEMMA GoesOn ==
  ASSUME HookInv, NEW f \in Fibers, pc[f] \in {"del", "close_f", "get"},
         NEW l \in {"out", "close_f"}, pc' = [pc EXCEPT ![f] = l], l = "close_f" => op[f].fd \in Fds,
         UNCHANGED <<op, inst, cancelled, timers>>
  PROVE  /\ FiberInv'
         /\ pc' \in [Fibers -> Labels] /\ pc'[f] = l /\ \A g \in Fibers \ {f} : pc'[g] = pc[g]
         /\ \A g \in Fibers : (pc'[g] = "parked" <=> pc[g] = "parked")
         /\ \A g \in Fibers \ {f} : pc[g] \notin BusyPcs /\ pc'[g] \notin {"get", "close_f", "del"}
<1>0. /\ FiberType /\ Solo /\ Doing /\ TimersFit /\ NotTold /\ TimeoutWakes /\ NeverBlocks
  BY DEF HookInv, FiberInv
<1>1. pc' \in [Fibers -> Labels] /\ pc'[f] = l /\ \A g \in Fibers \ {f} : pc'[g] = pc[g]
  BY <1>0 DEF FiberType, Labels, BusyPcs
<1>2. \A g \in Fibers : (pc'[g] = "parked" <=> pc[g] = "parked")
  BY <1>1
<1>3. Has(f) /\ \A g \in Fibers \ {f} : pc[g] \notin BusyPcs
  <2>1. Has(f)
    BY <1>0, BusyAlone DEF BusyPcs
  <2>2. QED
    BY <2>1 DEF Has
<1>4. \A g \in Fibers \ {f} : pc'[g] \notin {"get", "close_f", "del"}
  BY <1>1, <1>3 DEF BusyPcs
<1>5. FiberType' /\ Doing' /\ NotTold' /\ TimeoutWakes'
  BY <1>0, <1>1, <1>2 DEF FiberType, Doing, NotTold, TimeoutWakes, InIo, Asleep, Trying
<1>6. Solo'
  BY <1>0, <1>1, <1>3 DEF Solo, Has
<1>7. NeverBlocks'
  BY <1>1, <1>3 DEF NeverBlocks, BusyPcs
<1>8. TimersFit'
  <2>1. \A t \in timers : t.fiber \in Fibers
    BY <1>0 DEF FiberType, TimerType
  <2>2. QED
    BY <1>0, <1>2, <2>1 DEF TimersFit, Asleep
<1>9. QED
  BY <1>1, <1>2, <1>3, <1>4, <1>5, <1>6, <1>7, <1>8 DEF FiberInv

LEMMA DelKeeps == ASSUME HookInv, NEW f \in Fibers, Del(f) PROVE HookInv'
<1>0. /\ Doing /\ FdType /\ ParkedOnce /\ Registry /\ Contexts
  BY DEF HookInv, FiberInv, FdInv
<1>1. PICK d \in Fds : d = op[f].fd /\ pc[f] = "del" /\ ctx[d].in /\ \A e \in Events : events[d][e] = None
  BY <1>0 DEF Doing, Del, Contexts
<1>2. /\ pc' = [pc EXCEPT ![f] = "close_f"] /\ ctx' = [ctx EXCEPT ![d] = NoCtx]
      /\ UNCHANGED <<op, inst, cancelled, timers, events, sock, nonblk, watched, cleared, sockets>>
  BY <1>1 DEF Del, Goto
<1>3. /\ FiberInv' /\ pc'[f] = "close_f" /\ \A g \in Fibers \ {f} : pc'[g] = pc[g]
      /\ \A g \in Fibers : (pc'[g] = "parked" <=> pc[g] = "parked")
      /\ \A g \in Fibers \ {f} : pc[g] \notin BusyPcs /\ pc'[g] \notin {"get", "close_f", "del"}
  BY <1>1, <1>2, GoesOn
<1>4. /\ ctx' \in [Fds -> [in : BOOLEAN, user : BOOLEAN, timeout : BOOLEAN]] /\ ~ ctx'[d].in
      /\ \A x \in Fds \ {d} : ctx'[x] = ctx[x]
  BY <1>0, <1>2 DEF FdType, NoCtx
<1>5. FdType'
  BY <1>0, <1>2, <1>4 DEF FdType
<1>6. ParkedOnce'
  BY <1>0, <1>2, <1>3 DEF ParkedOnce, InIo, Asleep
<1>7. Registry'
  <2> SUFFICES ASSUME NEW x \in Fds, NEW y \in Events, events[x][y] # None
               PROVE  Registered(events[x][y], x, y)'
    BY <1>2 DEF Registry
  <2>1. x # d /\ Registered(events[x][y], x, y)
    BY <1>0, <1>1 DEF Registry
  <2>2. ctx'[x] = ctx[x] /\ pc'[events[x][y]] = "parked"
    BY <1>3, <1>4, <2>1 DEF Registered
  <2>3. QED
    BY <1>2, <2>1, <2>2 DEF Registered, InIo
<1>8. Contexts'
  <2>1. sock[d] # 0
    BY <1>0, <1>1 DEF Contexts
  <2>2. \A x \in Fds \ {d} : sock[x] # 0 => ctx[x].in /\ (nonblk[x] \/ x \in cleared)
    BY <1>0, <1>1, <1>3 DEF Contexts, BusyPcs
  <2>3. \A x \in Fds : sock[x] # 0 =>
           \/ ctx'[x].in /\ (nonblk[x] \/ x \in cleared)
           \/ pc'[f] \in {"get", "close_f"} /\ op[f].fd = x
    BY <1>1, <1>3, <1>4, <2>2
  <2>4. \A x \in Fds : ctx'[x].in => sock[x] # 0
    BY <1>0, <1>4 DEF Contexts
  <2>5. \A g \in Fibers : /\ pc'[g] \in {"get", "close_f"} => ~ ctx'[op[g].fd].in /\ sock[op[g].fd] # 0
                          /\ pc'[g] # "del"
    BY <1>1, <1>3, <1>4, <2>1
  <2>6. QED
    BY <1>2, <2>3, <2>4, <2>5 DEF Contexts
<1>9. QED
  BY <1>3, <1>5, <1>6, <1>7, <1>8 DEF HookInv, FdInv

LEMMA CloseFKeeps == ASSUME HookInv, NEW f \in Fibers, CloseF(f) PROVE HookInv'
<1>0. /\ Doing /\ FdType /\ ParkedOnce /\ Registry /\ Contexts
  BY DEF HookInv, FiberInv, FdInv
<1>1. PICK d \in Fds : d = op[f].fd /\ pc[f] = "close_f" /\ ~ ctx[d].in
  BY <1>0 DEF Doing, CloseF, Contexts
<1>2. /\ pc' = [pc EXCEPT ![f] = "out"] /\ sock' = [sock EXCEPT ![d] = 0]
      /\ nonblk' = [nonblk EXCEPT ![d] = FALSE] /\ watched' = [watched EXCEPT ![d] = {}]
      /\ cleared' = cleared \ {d}
      /\ UNCHANGED <<op, inst, cancelled, timers, ctx, events, sockets>>
  BY <1>1 DEF CloseF, Return
<1>3. /\ FiberInv' /\ pc'[f] = "out" /\ \A g \in Fibers \ {f} : pc'[g] = pc[g]
      /\ \A g \in Fibers : (pc'[g] = "parked" <=> pc[g] = "parked")
      /\ \A g \in Fibers \ {f} : pc[g] \notin BusyPcs /\ pc'[g] \notin {"get", "close_f", "del"}
  BY <1>1, <1>2, GoesOn
<1>4. /\ sock' \in [Fds -> Nat] /\ nonblk' \in [Fds -> BOOLEAN] /\ watched' \in [Fds -> SUBSET Events]
      /\ sock'[d] = 0
      /\ \A x \in Fds \ {d} : /\ sock'[x] = sock[x] /\ nonblk'[x] = nonblk[x] /\ watched'[x] = watched[x]
                              /\ (x \in cleared' <=> x \in cleared)
  BY <1>0, <1>2 DEF FdType
<1>5. FdType'
  BY <1>0, <1>2, <1>4 DEF FdType
<1>6. ParkedOnce'
  BY <1>0, <1>2, <1>3 DEF ParkedOnce, InIo, Asleep
<1>7. Registry'
  <2> SUFFICES ASSUME NEW x \in Fds, NEW y \in Events, events[x][y] # None
               PROVE  Registered(events[x][y], x, y)'
    BY <1>2 DEF Registry
  <2>1. x # d /\ Registered(events[x][y], x, y)
    BY <1>0, <1>1 DEF Registry, Registered
  <2>2. watched'[x] = watched[x] /\ pc'[events[x][y]] = "parked"
    BY <1>3, <1>4, <2>1 DEF Registered
  <2>3. QED
    BY <1>2, <2>1, <2>2 DEF Registered, InIo
<1>8. Contexts'
  <2>1. \A x \in Fds \ {d} : sock[x] # 0 => ctx[x].in /\ (nonblk[x] \/ x \in cleared)
    BY <1>0, <1>1, <1>3 DEF Contexts, BusyPcs
  <2>2. \A x \in Fds : sock'[x] # 0 => ctx[x].in /\ (nonblk'[x] \/ x \in cleared')
    BY <1>4, <2>1
  <2>3. \A x \in Fds : ctx[x].in => sock'[x] # 0
    BY <1>0, <1>1, <1>4 DEF Contexts
  <2>4. \A g \in Fibers : pc'[g] \notin {"get", "close_f", "del"}
    BY <1>3
  <2>5. QED
    BY <1>2, <2>2, <2>3, <2>4 DEF Contexts
<1>9. QED
  BY <1>3, <1>5, <1>6, <1>7, <1>8 DEF HookInv, FdInv

LEMMA GetKeeps == ASSUME HookInv, NEW f \in Fibers, Get(f) PROVE HookInv'
<1>0. /\ Doing /\ FdType /\ ParkedOnce /\ Registry /\ Contexts
  BY DEF HookInv, FiberInv, FdInv
<1>1. PICK d \in Fds : d = op[f].fd /\ pc[f] = "get" /\ ~ ctx[d].in /\ sock[d] # 0
  BY <1>0 DEF Doing, Get, Contexts
<1>2. /\ pc' = [pc EXCEPT ![f] = "out"]
      /\ nonblk' = [nonblk EXCEPT ![d] = TRUE] /\ ctx' = [ctx EXCEPT ![d] = FreshCtx]
      /\ UNCHANGED <<op, inst, cancelled, timers, events, sock, watched, cleared, sockets>>
  BY <1>1 DEF Get, Return
<1>3. /\ FiberInv' /\ pc'[f] = "out" /\ \A g \in Fibers \ {f} : pc'[g] = pc[g]
      /\ \A g \in Fibers : (pc'[g] = "parked" <=> pc[g] = "parked")
      /\ \A g \in Fibers \ {f} : pc[g] \notin BusyPcs /\ pc'[g] \notin {"get", "close_f", "del"}
  BY <1>1, <1>2, GoesOn
<1>4. /\ ctx' \in [Fds -> [in : BOOLEAN, user : BOOLEAN, timeout : BOOLEAN]] /\ ctx'[d].in
      /\ nonblk' \in [Fds -> BOOLEAN] /\ nonblk'[d]
      /\ \A x \in Fds \ {d} : ctx'[x] = ctx[x] /\ nonblk'[x] = nonblk[x]
  BY <1>0, <1>2 DEF FdType, FreshCtx
<1>5. FdType'
  BY <1>0, <1>2, <1>4 DEF FdType
<1>6. ParkedOnce'
  BY <1>0, <1>2, <1>3 DEF ParkedOnce, InIo, Asleep
<1>7. Registry'
  <2> SUFFICES ASSUME NEW x \in Fds, NEW y \in Events, events[x][y] # None
               PROVE  Registered(events[x][y], x, y)'
    BY <1>2 DEF Registry
  <2>1. Registered(events[x][y], x, y)
    BY <1>0 DEF Registry
  <2>2. ctx'[x].in /\ pc'[events[x][y]] = "parked"
    BY <1>3, <1>4, <2>1 DEF Registered
  <2>3. QED
    BY <1>2, <2>1, <2>2 DEF Registered, InIo
<1>8. Contexts'
  <2>1. \A x \in Fds \ {d} : sock[x] # 0 => ctx[x].in /\ (nonblk[x] \/ x \in cleared)
    BY <1>0, <1>1, <1>3 DEF Contexts, BusyPcs
  <2>2. \A x \in Fds : sock[x] # 0 => ctx'[x].in /\ (nonblk'[x] \/ x \in cleared)
    BY <1>4, <2>1
  <2>3. \A x \in Fds : ctx'[x].in => sock[x] # 0
    BY <1>0, <1>1, <1>4 DEF Contexts
  <2>4. \A g \in Fibers : pc'[g] \notin {"get", "close_f", "del"}
    BY <1>3
  <2>5. QED
    BY <1>2, <2>2, <2>3, <2>4 DEF Contexts
<1>9. QED
  BY <1>3, <1>5, <1>6, <1>7, <1>8 DEF HookInv, FdInv

-----------------------------------------------------------------------------
\* Steps that change none of the variables the invariant speaks of.
LEMMA StutterKeeps ==
  ASSUME HookInv, UNCHANGED <<pc, op, inst, cancelled, timers, ctx, events, sock, nonblk, watched,
                              cleared, sockets>>
  PROVE  HookInv'
<1>0. /\ FiberType /\ Solo /\ TimersFit /\ NotTold /\ TimeoutWakes
  BY DEF HookInv, FiberInv
<1>1. FiberType' /\ Solo' /\ NotTold' /\ TimeoutWakes'
  BY <1>0 DEF FiberType, Solo, NotTold, TimeoutWakes
<1>2. TimersFit'
  BY <1>0 DEF TimersFit, Asleep
<1>3. QED
  BY <1>1, <1>2, TimersStep

LEMMA HookStep == ASSUME OneHookedThread, HookInv, [Next]_vars PROVE HookInv'
<1>1. ASSUME NEW f \in Fibers, Step(f) PROVE HookInv'
  BY <1>1, TryKeeps, ArmKeeps, AddKeeps, ResumeKeeps, CheckKeeps, DelKeeps, CloseFKeeps, GetKeeps DEF Step
<1>2. ASSUME NEW t \in timers, Timer(t) PROVE HookInv'
  BY <1>2, ExpireKeeps, CallbackKeeps, CancelEventKeeps DEF Timer
<1>3. ASSUME NEW f \in Fibers, NEW d \in Fds,
             Close(f, d) \/ Socket(f, d) \/ \E call \in Calls[f] : Begin(f, call, d) \/ Tune(f, call, d)
      PROVE  HookInv'
  BY <1>3, CloseKeeps, SocketKeeps, BeginKeeps, TuneKeeps
<1>4. ASSUME NEW f \in Fibers, Sleep(f) PROVE HookInv'
  BY <1>4, SleepKeeps
<1>5. ASSUME NEW d \in Fds, NEW e \in Events, Arrive(d, e) \/ Report(d, e) PROVE HookInv'
  <2>1. CASE Arrive(d, e)
    BY <2>1, StutterKeeps DEF Arrive
  <2>2. CASE Report(d, e)
    BY <2>2, ReportKeeps
  <2>3. QED
    BY <1>5, <2>1, <2>2
<1>6. CASE UNCHANGED vars
  BY <1>6, StutterKeeps DEF vars
<1>7. QED
  BY <1>1, <1>2, <1>3, <1>4, <1>5, <1>6 DEF Next

LEMMA HookInvHolds == OneHookedThread => (Spec => []HookInv)
<1>1. CASE OneHookedThread
  <2>1. HookInv /\ [Next]_vars => HookInv'
    BY <1>1, HookStep
  <2>2. QED
    BY <2>1, HookInit, PTL DEF Spec
<1>2. QED
  BY <1>1

\* On one thread with the hooks enabled a fiber stands in the registry exactly while it
\* is parked on that event of an open descriptor, and epoll watches the event: close()
\* leaves nobody behind in it.
THEOREM RegistryIsLive == OneHookedThread => (Spec => []RegistrationLive)
<1>1. HookInv => RegistrationLive
  BY DEF HookInv, FdInv, Registry, Registered, RegistrationLive
<1>2. QED
  BY <1>1, HookInvHolds, PTL

\* A call that its timeout has marked is about to be woken: the callback that marked it
\* has its cancelEvent still to do, and no other thread can get between the two.
THEOREM MarkedAreWoken == OneHookedThread => (Spec => []TimeoutWakes)
<1>1. HookInv => TimeoutWakes
  BY DEF HookInv, FiberInv
<1>2. QED
  BY <1>1, HookInvHolds, PTL

\* A hooked call keeps its thread in the kernel only on a socket whose O_NONBLOCK the
\* program itself has cleared with ioctl(FIONBIO).
THEOREM ThreadsAreNotKept == OneHookedThread => (Spec => []NeverBlocks)
<1>1. HookInv => NeverBlocks
  BY DEF HookInv, FiberInv
<1>2. QED
  BY <1>1, HookInvHolds, PTL

-----------------------------------------------------------------------------
(***************************************************************************)
(* connect()                                                               *)
(***************************************************************************)
\* No two fibers are inside write() or connect() on the same descriptor.  (Otherwise the
\* timeout of one fiber's write can cancel the other's wait for its connection, and that
\* connect() takes SO_ERROR 0 of a connection in progress for success.)
InWrite(f) == pc[f] # "out" /\ op[f].call \in {"write", "connect"}
OneWriter == \A f, g \in Fibers : InWrite(f) /\ InWrite(g) /\ op[f].fd = op[g].fd => f = g

KernelType ==
  /\ ret \in [Fibers -> {"none", "ok", "error", "timeout", "direct"}]
  /\ conn \in [Fds -> {"none", "progress", "up", "refused"}]
  /\ ready \in [Fds -> SUBSET Events]
\* A connection in progress cannot be written to, and sockets are numbered upwards.
Sockets ==
  /\ \A d \in Fds : conn[d] = "progress" => "WRITE" \notin ready[d]
  /\ \A d \in Fds : sock[d] <= sockets
  /\ \A f \in Fibers : op[f].sock <= sockets
  /\ \A f \in Fibers : op[f].call = "connect" => op[f].fd \in Fds /\ op[f].sock # 0
\* Which call a fiber is in where it is; the call a callback has marked has not returned.
CallsFit ==
  /\ \A f \in Fibers : pc[f] = "get" => op[f].call = "socket"
  /\ \A f \in Fibers : pc[f] \in {"del", "close_f"} => op[f].call = "close"
  /\ \A t \in timers : t.stage = "marked" => pc[t.fiber] # "out"

\* What a connect() whose socket is still there may rely on, step by step.
Closing(d) == \E g \in Fibers : pc[g] \in {"del", "close_f"} /\ op[g].fd = d
Made(f) == conn[op[f].fd] \in {"up", "refused"}
Sure(f) ==
  /\ pc[f] \in {"arm", "add", "parked"} => conn[op[f].fd] # "none"
  /\ pc[f] = "runnable" /\ ~ cancelled[f] => Made(f) \/ Closing(op[f].fd)
  /\ pc[f] = "check" /\ ~ cancelled[f] => Made(f)
  /\ pc[f] = "sockopt" => Made(f)
  /\ pc[f] = "out" /\ ret[f] = "ok" => conn[op[f].fd] = "up"
Connects(f) == op[f].call = "connect" /\ op[f].sock = sock[op[f].fd]
Connecting == \A f \in Fibers : Connects(f) => Sure(f)

ConnInv == KernelType /\ Sockets /\ CallsFit /\ Connecting

LEMMA ConnInit == Init => ConnInv
<1> SUFFICES ASSUME Init PROVE ConnInv
  OBVIOUS
<1>1. KernelType
  BY DEF Init, KernelType
<1>2. Sockets
  BY DEF Init, Sockets
<1>3. CallsFit /\ Connecting
  BY DEF Init, CallsFit, Connecting, Connects
<1>4. QED
  BY <1>1, <1>2, <1>3 DEF ConnInv

\* A connection that is made stays, one in progress is made or refused, unless its socket
\* goes.
ConnMoves(d) ==
  \/ sock'[d] = sock[d] /\ (conn'[d] = conn[d] \/ conn[d] = "none"
                              \/ (conn[d] = "progress" /\ conn'[d] \in {"up", "refused"}))
  \/ sock'[d] = 0
  \/ sock'[d] > sockets

\* Fibers that do not move stay as sure as they were.
LEMMA StillSure ==
  ASSUME HookInv, ConnInv, NEW S \in SUBSET Fibers,
         \A g \in S : /\ pc'[g] = pc[g] /\ op'[g] = op[g] /\ ret'[g] = ret[g]
                      /\ cancelled[g] => cancelled'[g],
         \A d \in Fds : ConnMoves(d),
         \A d \in Fds : Closing(d) => Closing(d)' \/ sock'[d] = 0
  PROVE  \A g \in S : Connects(g)' => Sure(g)'
<1> SUFFICES ASSUME NEW g \in S, Connects(g)' PROVE Sure(g)'
  OBVIOUS
<1>0. KernelType /\ Sockets /\ Connecting /\ FdType /\ FiberType
  BY DEF ConnInv, HookInv, FdInv, FiberInv
<1>a. /\ pc'[g] = pc[g] /\ op'[g] = op[g] /\ ret'[g] = ret[g]
      /\ cancelled[g] => cancelled'[g]
  OBVIOUS
<1>1. PICK d \in Fds : d = op[g].fd /\ op[g].call = "connect" /\ op[g].sock = sock'[d]
  BY <1>0, <1>a DEF Sockets, Connects
<1>2. op[g].sock # 0 /\ op[g].sock <= sockets /\ op[g].sock \in Nat /\ sockets \in Nat
  BY <1>0, <1>1 DEF Sockets, FdType, FiberType, CallType
<1>3. sock'[d] # 0 /\ ~ (sock'[d] > sockets)
  BY <1>1, <1>2
<1>4. sock'[d] = sock[d] /\ (conn'[d] = conn[d] \/ conn[d] = "none"
                              \/ (conn[d] = "progress" /\ conn'[d] \in {"up", "refused"}))
  BY <1>3 DEF ConnMoves
<1>5. Sure(g)
  BY <1>0, <1>1, <1>4 DEF Connecting, Connects
<1>6. Closing(d) => Closing(d)'
  BY <1>3
<1>7. QED
  BY <1>a, <1>1, <1>4, <1>5, <1>6 DEF Sure, Made

\* A step of a fiber inside read(), write(), connect() or sleep().
LEMMA ConnRuns ==
  ASSUME HookInv, ConnInv, NEW f \in Fibers, pc[f] \notin {"get", "del", "close_f"},
         NEW l, l \notin {"get", "del", "close_f"}, pc' = [pc EXCEPT ![f] = l],
         ret' \in [Fibers -> {"none", "ok", "error", "timeout", "direct"}],
         \A g \in Fibers \ {f} : ret'[g] = ret[g],
         UNCHANGED <<op, sock, sockets, cancelled>>,
         \A t \in timers' : t.stage # "marked",
         conn' \in [Fds -> {"none", "progress", "up", "refused"}],
         ready' \in [Fds -> SUBSET Events],
         \A d \in Fds : conn'[d] = "progress" => "WRITE" \notin ready'[d],
         \A d \in Fds : ConnMoves(d),
         Connects(f) => Sure(f)'
  PROVE  ConnInv'
<1>0. KernelType /\ Sockets /\ CallsFit /\ Connecting /\ FiberType
  BY DEF ConnInv, HookInv, FiberInv
<1>1. pc'[f] = l /\ \A g \in Fibers \ {f} : pc'[g] = pc[g]
  BY <1>0 DEF FiberType
<1>2. KernelType'
  BY DEF KernelType
<1>3. Sockets'
  BY <1>0 DEF Sockets
<1>4. CallsFit'
  BY <1>0, <1>1 DEF CallsFit
<1>5. \A d \in Fds : Closing(d) => Closing(d)'
  BY <1>1 DEF Closing
<1>6. \A g \in Fibers \ {f} : Connects(g)' => Sure(g)'
  <2>1. Fibers \ {f} \in SUBSET Fibers
    OBVIOUS
  <2>2. \A g \in Fibers \ {f} : pc'[g] = pc[g] /\ op'[g] = op[g] /\ ret'[g] = ret[g]
                                 /\ (cancelled[g] => cancelled'[g])
    BY <1>1
  <2>3. QED
    BY <1>5, <2>1, <2>2, StillSure
<1>7. Connects(f)' => Sure(f)'
  BY DEF Connects
<1>8. Connecting'
  BY <1>6, <1>7 DEF Connecting
<1>9. QED
  BY <1>2, <1>3, <1>4, <1>8 DEF ConnInv

\* The same when the kernel does nothing.
LEMMA ConnGoes ==
  ASSUME HookInv, ConnInv, NEW f \in Fibers, pc[f] \notin {"get", "del", "close_f"},
         NEW l, l \notin {"get", "del", "close_f"}, pc' = [pc EXCEPT ![f] = l],
         NEW r \in {"none", "ok", "error", "timeout", "direct"}, ret' = [ret EXCEPT ![f] = r],
         UNCHANGED <<op, sock, sockets, cancelled, conn, ready>>,
         \A t \in timers' : t.stage # "marked",
         Connects(f) => Sure(f)'
  PROVE  ConnInv'
<1>0. KernelType /\ Sockets
  BY DEF ConnInv
<1>1. /\ ret' \in [Fibers -> {"none", "ok", "error", "timeout", "direct"}]
      /\ \A g \in Fibers \ {f} : ret'[g] = ret[g]
  BY <1>0 DEF KernelType
<1>2. /\ conn' \in [Fds -> {"none", "progress", "up", "refused"}] /\ ready' \in [Fds -> SUBSET Events]
      /\ \A d \in Fds : conn'[d] = "progress" => "WRITE" \notin ready'[d]
  BY <1>0 DEF KernelType, Sockets
<1>3. \A d \in Fds : ConnMoves(d)
  BY DEF ConnMoves
<1>4. QED
  BY <1>1, <1>2, <1>3, ConnRuns

\* What a step of fiber f makes of its place and its answer.
LEMMA GoesFacts ==
  ASSUME FiberType, KernelType, NEW f \in Fibers, NEW l
  PROVE  /\ Goto(f, l) => /\ pc' = [pc EXCEPT ![f] = l] /\ ret' = [ret EXCEPT ![f] = ret[f]]
                          /\ pc'[f] = l /\ ret'[f] = ret[f]
         /\ ret[f] \in {"none", "ok", "error", "timeout", "direct"}
BY DEF FiberType, KernelType, Goto

LEMMA ReturnFacts ==
  ASSUME FiberType, KernelType, NEW f \in Fibers, NEW r, Return(f, r)
  PROVE  /\ pc' = [pc EXCEPT ![f] = "out"] /\ ret' = [ret EXCEPT ![f] = r]
         /\ pc'[f] = "out" /\ ret'[f] = r
BY DEF FiberType, KernelType, Return

LEMMA TryConn == ASSUME HookInv, ConnInv, NEW f \in Fibers, Try(f) PROVE ConnInv'
<1>0. /\ FiberType /\ Solo /\ Doing /\ FdType /\ KernelType /\ Sockets /\ Connecting
  BY DEF HookInv, FiberInv, FdInv, ConnInv
<1>1. pc[f] \in {"try", "blocked"} /\ Has(f)
  <2>1. pc[f] \in {"try", "blocked"}
    BY DEF Try
  <2>2. QED
    BY <2>1, <1>0, BusyAlone DEF BusyPcs
<1>2. PICK d \in Fds : d = op[f].fd
  BY <1>0, <1>1 DEF Doing, InIo, Trying
<1>3. /\ UNCHANGED <<op, sock, sockets, cancelled, timers>>
      /\ \A t \in timers' : t.stage # "marked"
  BY <1>1 DEF Try, Has
<1>4. CASE /\ UNCHANGED <<ready, conn>>
           /\ Return(f, "error") \/ (Return(f, "ok") /\ op[f].call # "connect") \/ Goto(f, "blocked")
              \/ (op[f].call # "connect" /\ Goto(f, IF op[f].to THEN "arm" ELSE "add"))
  <2>1. PICK l \in {"out", "blocked", "arm", "add"}, r \in {"none", "ok", "error", "timeout", "direct"} :
          /\ pc' = [pc EXCEPT ![f] = l] /\ ret' = [ret EXCEPT ![f] = r]
          /\ pc'[f] = l /\ ret'[f] = r
          /\ op[f].call = "connect" => l = "blocked" \/ (l = "out" /\ r = "error")
    BY <1>0, <1>4, GoesFacts, ReturnFacts
  <2>2. Connects(f) => Sure(f)'
    BY <1>3, <2>1 DEF Connects, Sure
  <2>3. QED
    BY <1>1, <1>3, <1>4, <2>1, <2>2, ConnGoes
<1>5. CASE /\ Return(f, "ok") /\ op[f].call # "connect"
           /\ ready' = [ready EXCEPT ![d] = @ \ {Event(op[f].call)}] /\ UNCHANGED conn
  <2>1. /\ ready' \in [Fds -> SUBSET Events]
        /\ \A x \in Fds : conn'[x] = "progress" => "WRITE" \notin ready'[x]
    BY <1>0, <1>5 DEF KernelType, Sockets
  <2>2. \A x \in Fds : ConnMoves(x)
    BY <1>3, <1>5 DEF ConnMoves
  <2>3. pc' = [pc EXCEPT ![f] = "out"] /\ ret' = [ret EXCEPT ![f] = "ok"]
    BY <1>5 DEF Return
  <2>4. /\ ret' \in [Fibers -> {"none", "ok", "error", "timeout", "direct"}]
        /\ \A g \in Fibers \ {f} : ret'[g] = ret[g]
        /\ conn' \in [Fds -> {"none", "progress", "up", "refused"}]
    BY <1>0, <1>5, <2>3 DEF KernelType
  <2>5. ~ Connects(f)
    BY <1>5 DEF Connects
  <2>6. QED
    BY <1>1, <1>3, <2>1, <2>2, <2>3, <2>4, <2>5, ConnRuns
<1>6. CASE /\ op[f].call = "connect" /\ conn[d] = "none"
           /\ Goto(f, IF op[f].to THEN "arm" ELSE "add")
           /\ conn' = [conn EXCEPT ![d] = "progress"]
           /\ ready' = [ready EXCEPT ![d] = @ \ {"WRITE"}]
  <2>1. /\ ready' \in [Fds -> SUBSET Events]
        /\ conn' \in [Fds -> {"none", "progress", "up", "refused"}]
        /\ \A x \in Fds : conn'[x] = "progress" => "WRITE" \notin ready'[x]
        /\ conn'[d] = "progress" /\ \A x \in Fds \ {d} : conn'[x] = conn[x]
    BY <1>0, <1>6 DEF KernelType, Sockets
  <2>2. \A x \in Fds : ConnMoves(x)
    BY <1>3, <1>6, <2>1 DEF ConnMoves
  <2>3. PICK l \in {"arm", "add"} : pc' = [pc EXCEPT ![f] = l] /\ pc'[f] = l /\ UNCHANGED ret
    BY <1>0, <1>6, GoesFacts, ZenonT(60) DEF Goto
  <2>4. Connects(f) => Sure(f)'
    BY <1>2, <1>3, <2>1, <2>3 DEF Sure
  <2>5. QED
    BY <1>0, <1>1, <1>3, <2>1, <2>2, <2>3, <2>4, ConnRuns DEF KernelType
<1>7. CASE /\ Return(f, "ok") /\ op[f].call = "connect" /\ conn[d] = "none"
           /\ conn' = [conn EXCEPT ![d] = "up"] /\ UNCHANGED ready
  <2>1. /\ conn' \in [Fds -> {"none", "progress", "up", "refused"}]
        /\ ready' \in [Fds -> SUBSET Events]
        /\ \A x \in Fds : conn'[x] = "progress" => "WRITE" \notin ready'[x]
        /\ conn'[d] = "up" /\ \A x \in Fds \ {d} : conn'[x] = conn[x]
    BY <1>0, <1>7 DEF KernelType, Sockets
  <2>2. \A x \in Fds : ConnMoves(x)
    BY <1>3, <1>7, <2>1 DEF ConnMoves
  <2>3. /\ pc' = [pc EXCEPT ![f] = "out"] /\ ret' = [ret EXCEPT ![f] = "ok"]
        /\ pc'[f] = "out" /\ ret'[f] = "ok"
    BY <1>0, <1>7, ReturnFacts
  <2>4. /\ ret' \in [Fibers -> {"none", "ok", "error", "timeout", "direct"}]
        /\ \A g \in Fibers \ {f} : ret'[g] = ret[g]
    BY <1>0, <2>3 DEF KernelType
  <2>5. Connects(f) => Sure(f)'
    BY <1>2, <1>3, <2>1, <2>3 DEF Sure
  <2>6. QED
    BY <1>1, <1>3, <2>1, <2>2, <2>3, <2>4, <2>5, ConnRuns
<1>8. QED
  BY <1>2, <1>4, <1>5, <1>6, <1>7 DEF Try

LEMMA ArmConn == ASSUME HookInv, ConnInv, NEW f \in Fibers, Arm(f) PROVE ConnInv'
<1>0. /\ FiberType /\ Solo /\ KernelType /\ Connecting
  BY DEF HookInv, FiberInv, ConnInv
<1>1. pc[f] = "arm" /\ Has(f)
  BY <1>0, BusyAlone DEF Arm, BusyPcs
<1>2. UNCHANGED <<op, sock, sockets, cancelled, conn, ready>>
  BY DEF Arm
<1>3. \A t \in timers' : t.stage # "marked"
  BY <1>1 DEF Arm, Has
<1>4. pc' = [pc EXCEPT ![f] = "add"] /\ ret' = [ret EXCEPT ![f] = ret[f]] /\ pc'[f] = "add"
  BY <1>0, GoesFacts DEF Arm
<1>5. Connects(f) => Sure(f)'
  BY <1>0, <1>1, <1>2, <1>4 DEF Connecting, Sure
<1>6. ret[f] \in {"none", "ok", "error", "timeout", "direct"}
  BY <1>0 DEF KernelType
<1>7. QED
  BY <1>1, <1>2, <1>3, <1>4, <1>5, <1>6, ConnGoes

LEMMA AddConn == ASSUME HookInv, ConnInv, NEW f \in Fibers, Add(f) PROVE ConnInv'
<1>0. /\ FiberType /\ Solo /\ Doing /\ FdType /\ Registry /\ KernelType /\ Sockets /\ Connecting
  BY DEF HookInv, FiberInv, FdInv, ConnInv
<1>1. pc[f] = "add" /\ Has(f)
  BY <1>0, BusyAlone DEF Add, BusyPcs
<1>2. PICK d \in Fds : d = op[f].fd
  BY <1>0, <1>1 DEF Doing, InIo, Trying
<1>3. /\ UNCHANGED <<op, sock, sockets, cancelled, conn, ready>>
      /\ \A t \in timers' : t.stage # "marked"
  BY <1>1 DEF Add, Has, CancelTimers
<1>4. CtlFails(d) => sock[d] = 0
  BY <1>0 DEF CtlFails, Registry, Registered
<1>5. PICK l \in {"aborted", "sockopt", "out", "parked"}, r \in {"none", "ok", "error", "timeout", "direct"} :
        /\ pc' = [pc EXCEPT ![f] = l] /\ ret' = [ret EXCEPT ![f] = r]
        /\ pc'[f] = l /\ ret'[f] = r
        /\ l = "sockopt" => sock[d] = 0
        /\ l = "out" => r = "error"
  <2>1. CASE Goto(f, "aborted")
    BY <1>0, <2>1, GoesFacts
  <2>2. CASE CtlFails(d) /\ (IF op[f].call = "connect" THEN Goto(f, "sockopt") ELSE Return(f, "error"))
    BY <1>0, <1>4, <2>2, GoesFacts, ReturnFacts
  <2>3. CASE Goto(f, "parked")
    BY <1>0, <2>3, GoesFacts
  <2>4. QED
    BY <1>2, <2>1, <2>2, <2>3 DEF Add
<1>6. Connects(f) => Sure(f)'
  <2> SUFFICES ASSUME Connects(f) PROVE Sure(f)'
    OBVIOUS
  <2>1. sock[d] # 0 /\ conn[d] # "none"
    BY <1>0, <1>1, <1>2 DEF Connects, Sockets, Connecting, Sure
  <2>2. QED
    BY <1>2, <1>3, <1>5, <2>1 DEF Sure
<1>7. QED
  BY <1>1, <1>3, <1>5, <1>6, ConnGoes

LEMMA ResumeConn ==
  ASSUME OneHookedThread, HookInv, ConnInv, NEW f \in Fibers, Resume(f) PROVE ConnInv'
<1>0. /\ FiberType /\ Doing /\ KernelType /\ Connecting
  BY DEF HookInv, FiberInv, ConnInv
<1>1. pc[f] = "runnable" /\ Has(f) /\ \A g \in Fibers : pc[g] \notin BusyPcs
  BY <1>0, IdleFiber DEF Resume, BusyPcs
<1>2. /\ UNCHANGED <<op, sock, sockets, cancelled, conn, ready>>
      /\ \A t \in timers' : t.stage # "marked"
  BY <1>1 DEF Resume, Has, CancelTimers
<1>3. PICK l \in {"out", "check"}, r \in {"none", "ok", "error", "timeout", "direct"} :
        /\ pc' = [pc EXCEPT ![f] = l] /\ ret' = [ret EXCEPT ![f] = r] /\ pc'[f] = l
        /\ l = "out" => op[f].call = "sleep"
  <2>1. CASE op[f].call = "sleep" /\ Return(f, "ok")
    BY <1>0, <2>1, ReturnFacts
  <2>2. CASE Goto(f, "check")
    BY <1>0, <2>2, GoesFacts
  <2>3. QED
    BY <2>1, <2>2 DEF Resume
<1>4. ~ Closing(op[f].fd)
  BY <1>1 DEF Closing, BusyPcs
<1>5. Connects(f) => Sure(f)'
  BY <1>0, <1>1, <1>2, <1>3, <1>4 DEF Connects, Connecting, Sure, Made
<1>6. QED
  BY <1>1, <1>2, <1>3, <1>5, ConnGoes

LEMMA CheckConn == ASSUME HookInv, ConnInv, NEW f \in Fibers, Check(f) \/ SockOpt(f) PROVE ConnInv'
<1>0. /\ FiberType /\ Solo /\ KernelType /\ Sockets /\ Connecting
  BY DEF HookInv, FiberInv, ConnInv
<1>1. pc[f] \in {"check", "sockopt"} /\ Has(f)
  BY <1>0, BusyAlone DEF Check, SockOpt, BusyPcs
<1>2. /\ UNCHANGED <<op, sock, sockets, cancelled, conn, ready>>
      /\ \A t \in timers' : t.stage # "marked"
  BY <1>1 DEF Check, SockOpt, Has
<1>3. PICK l \in {"out", "sockopt", "try"}, r \in {"none", "ok", "error", "timeout", "direct"} :
        /\ pc' = [pc EXCEPT ![f] = l] /\ ret' = [ret EXCEPT ![f] = r] /\ pc'[f] = l /\ ret'[f] = r
        /\ l = "sockopt" => pc[f] = "check" /\ ~ cancelled[f]
        /\ l = "out" /\ r = "ok" => pc[f] = "sockopt" /\ conn[op[f].fd] # "refused"
  <2>1. CASE Check(f)
    <3>1. CASE cancelled[f]
      BY <1>0, <2>1, <3>1, ReturnFacts DEF Check
    <3>2. CASE ~ cancelled[f]
      <4>1. PICK l \in {"sockopt", "try"} : Goto(f, l)
        BY <2>1, <3>2 DEF Check
      <4>2. QED
        BY <1>0, <2>1, <3>2, <4>1, GoesFacts DEF Check
    <3>3. QED
      BY <3>1, <3>2
  <2>2. CASE SockOpt(f)
    <3>1. PICK r \in {"error", "ok"} : Return(f, r) /\ (r = "ok" => conn[op[f].fd] # "refused")
      BY <2>2 DEF SockOpt
    <3>2. QED
      BY <1>0, <2>2, <3>1, ReturnFacts DEF SockOpt
  <2>3. QED
    BY <2>1, <2>2
<1>4. Connects(f) => Sure(f)'
  BY <1>0, <1>1, <1>2, <1>3 DEF Connecting, Sure, Made
<1>5. QED
  BY <1>1, <1>2, <1>3, <1>4, ConnGoes

\* The rest of close() and socket(): the fiber is in no connect().
LEMMA DelConn ==
  ASSUME HookInv, ConnInv, NEW f \in Fibers, Del(f) \/ CloseF(f) \/ Get(f) PROVE ConnInv'
<1>0. /\ FiberType /\ Solo /\ Doing /\ FdType /\ KernelType /\ Sockets /\ CallsFit /\ Connecting
  BY DEF HookInv, FiberInv, FdInv, ConnInv
<1>1. pc[f] \in {"del", "close_f", "get"} /\ op[f].call # "connect" /\ Has(f)
  <2>1. pc[f] \in {"del", "close_f", "get"}
    BY DEF Del, CloseF, Get
  <2>2. QED
    BY <2>1, <1>0, BusyAlone DEF BusyPcs, CallsFit
<1>2. PICK d \in Fds : d = op[f].fd
  BY <1>0, <1>1 DEF Doing
<1>3. UNCHANGED <<op, sockets, cancelled, timers>>
  BY DEF Del, CloseF, Get
<1>4. PICK l \in {"out", "close_f"}, r \in {"none", "ok", "error", "timeout", "direct"} :
        /\ pc' = [pc EXCEPT ![f] = l] /\ ret' = [ret EXCEPT ![f] = r]
        /\ l = "close_f" => pc[f] = "del"
        /\ l = "out" /\ pc[f] # "get" => CloseF(f)
  <2>1. CASE Del(f)
    BY <1>0, <2>1, GoesFacts DEF Del
  <2>2. CASE CloseF(f)
    BY <1>0, <2>2, ReturnFacts DEF CloseF
  <2>3. CASE Get(f)
    BY <1>0, <2>3, ReturnFacts DEF Get
  <2>4. QED
    BY <2>1, <2>2, <2>3
<1>5. /\ pc'[f] = l /\ \A g \in Fibers \ {f} : pc'[g] = pc[g] /\ ret'[g] = ret[g]
      /\ ret' \in [Fibers -> {"none", "ok", "error", "timeout", "direct"}]
  BY <1>0, <1>4 DEF FiberType, KernelType
<1>6. \/ UNCHANGED <<sock, conn, ready>>
      \/ /\ CloseF(f) /\ sock' = [sock EXCEPT ![d] = 0] /\ conn' = [conn EXCEPT ![d] = "none"]
         /\ ready' = [ready EXCEPT ![d] = {}]
  BY <1>2 DEF Del, CloseF, Get
<1>7. /\ conn' \in [Fds -> {"none", "progress", "up", "refused"}] /\ ready' \in [Fds -> SUBSET Events]
      /\ \A x \in Fds : conn'[x] = "progress" => "WRITE" \notin ready'[x]
      /\ \A x \in Fds : (sock'[x] = sock[x] /\ conn'[x] = conn[x]) \/ sock'[x] = 0
      /\ CloseF(f) => sock'[d] = 0
  <2>1. CASE UNCHANGED <<sock, conn, ready>>
    <3>1. CloseF(f) => sock'[d] = 0
      BY <1>0, <1>2 DEF CloseF, FdType
    <3>2. QED
      BY <1>0, <2>1, <3>1 DEF KernelType, Sockets
  <2>2. CASE /\ sock' = [sock EXCEPT ![d] = 0] /\ conn' = [conn EXCEPT ![d] = "none"]
             /\ ready' = [ready EXCEPT ![d] = {}]
    BY <1>0, <2>2 DEF KernelType, Sockets, FdType
  <2>3. QED
    BY <1>6, <2>1, <2>2
<1>8. KernelType'
  BY <1>5, <1>7 DEF KernelType
<1>9. Sockets'
  <2>1. \A x \in Fds : sock'[x] <= sockets
    BY <1>0, <1>7, SMTT(20) DEF Sockets, FdType
  <2>2. QED
    BY <1>0, <1>3, <1>7, <2>1 DEF Sockets
<1>10. CallsFit'
  <2>1. \A t \in timers' : t.stage # "marked"
    BY <1>1, <1>3 DEF Has
  <2>2. QED
    BY <1>0, <1>3, <1>4, <1>5, <2>1 DEF CallsFit
<1>11. \A x \in Fds : ConnMoves(x)
  BY <1>7 DEF ConnMoves
<1>12. \A x \in Fds : Closing(x) => Closing(x)' \/ sock'[x] = 0
  <2> SUFFICES ASSUME NEW x \in Fds, Closing(x) PROVE Closing(x)' \/ sock'[x] = 0
    OBVIOUS
  <2>1. x = d /\ pc[f] \in {"del", "close_f"}
    BY <1>1, <1>2 DEF Closing, Has, BusyPcs
  <2>2. CASE l = "close_f"
    BY <2>1, <2>2, <1>2, <1>3, <1>5 DEF Closing
  <2>3. CASE l = "out"
    BY <2>1, <2>3, <1>4, <1>7
  <2>4. QED
    BY <2>2, <2>3
<1>13. \A g \in Fibers \ {f} : Connects(g)' => Sure(g)'
  <2>1. Fibers \ {f} \in SUBSET Fibers
    OBVIOUS
  <2>2. \A g \in Fibers \ {f} : pc'[g] = pc[g] /\ op'[g] = op[g] /\ ret'[g] = ret[g]
                                 /\ (cancelled[g] => cancelled'[g])
    BY <1>3, <1>5
  <2>3. QED
    BY <1>11, <1>12, <2>1, <2>2, StillSure
<1>14. ~ Connects(f)'
  BY <1>1, <1>3 DEF Connects
<1>15. QED
  BY <1>8, <1>9, <1>10, <1>13, <1>14 DEF ConnInv, Connecting

\* The start of a call: fiber f, and waiters of the descriptor that close() wakes.
LEMMA ConnStarts ==
  ASSUME HookInv, ConnInv, NEW f \in Fibers, NEW call \in Names, NEW d \in Fds \cup {-1},
         Started(f, call, d), Starts(f, call, d),
         \A g \in Fibers : pc[g] \notin BusyPcs /\ Has(g),
         NEW W \in SUBSET (Fibers \ {f}),
         \A w \in W : pc[w] = "parked" /\ pc'[w] = "runnable" /\ op[w].fd = d,
         W # {} => pc'[f] = "del",
         \A g \in Fibers \ (W \cup {f}) : pc'[g] = pc[g],
         ret' \in [Fibers -> {"none", "ok", "error", "timeout", "direct"}],
         \A g \in Fibers \ {f} : ret'[g] = ret[g],
         pc'[f] = "get" => call = "socket",
         pc'[f] = "del" => call = "close",
         pc'[f] # "close_f",
         call = "connect" => d \in Fds /\ sock[d] # 0 /\ (pc'[f] = "try" \/ (pc'[f] = "out" /\ ret'[f] # "ok")),
         \A t \in timers' : t.stage # "marked",
         UNCHANGED <<conn, ready>>,
         \/ UNCHANGED <<sock, sockets>>
         \/ d \in Fds /\ sock' = [sock EXCEPT ![d] = sockets + 1] /\ sockets' = sockets + 1
  PROVE  ConnInv'
<1>0. /\ FiberType /\ FdType /\ KernelType /\ Sockets /\ CallsFit /\ Connecting
  BY DEF HookInv, FiberInv, FdInv, ConnInv
<1>1. KernelType'
  BY <1>0 DEF KernelType
<1>2. sockets \in Nat /\ sockets' \in Nat /\ sockets <= sockets'
  BY <1>0 DEF FdType
<1>3. op'[f].sock = IF d \in Fds THEN sock[d] ELSE 0
  BY <1>0 DEF Starts, FiberType
<1>4. \A x \in Fds : sock[x] \in Nat /\ sock[x] <= sockets
  BY <1>0 DEF FdType, Sockets
<1>5. Sockets'
  <2>1. \A x \in Fds : sock'[x] <= sockets'
    <3>1. CASE UNCHANGED <<sock, sockets>>
      BY <1>4, <3>1
    <3>2. CASE d \in Fds /\ sock' = [sock EXCEPT ![d] = sockets + 1] /\ sockets' = sockets + 1
      <4>1. sock'[d] = sockets' /\ \A x \in Fds \ {d} : sock'[x] = sock[x]
        BY <1>0, <3>2 DEF FdType
      <4>2. QED
        BY <1>2, <1>4, <4>1
    <3>3. QED
      BY <3>1, <3>2
  <2>2. \A g \in Fibers : op'[g].sock <= sockets'
    <3>1. op'[f].sock \in Nat /\ op'[f].sock <= sockets
      BY <1>2, <1>3, <1>4
    <3>2. \A g \in Fibers \ {f} : op'[g].sock = op[g].sock /\ op[g].sock \in Nat /\ op[g].sock <= sockets
      BY <1>0 DEF Started, Sockets, FiberType, CallType
    <3>3. QED
      BY <1>2, <3>1, <3>2
  <2>3. \A g \in Fibers : op'[g].call = "connect" => op'[g].fd \in Fds /\ op'[g].sock # 0
    BY <1>0, <1>3 DEF Started, Sockets
  <2>4. \A x \in Fds : conn'[x] = "progress" => "WRITE" \notin ready'[x]
    BY <1>0 DEF Sockets
  <2>5. QED
    BY <2>1, <2>2, <2>3, <2>4 DEF Sockets
<1>6. CallsFit'
  <2>1. \A g \in Fibers \ {f} : pc'[g] \notin {"get", "del", "close_f"}
    BY DEF BusyPcs
  <2>2. QED
    BY <2>1 DEF CallsFit, Started
<1>7. \A x \in Fds : ConnMoves(x)
  <2>1. CASE UNCHANGED <<sock, sockets>>
    BY <2>1 DEF ConnMoves
  <2>2. CASE d \in Fds /\ sock' = [sock EXCEPT ![d] = sockets + 1] /\ sockets' = sockets + 1
    <3>1. sock'[d] > sockets /\ \A x \in Fds \ {d} : sock'[x] = sock[x]
      BY <1>0, <1>2, <2>2 DEF FdType
    <3>2. QED
      BY <3>1 DEF ConnMoves
  <2>3. QED
    BY <2>1, <2>2
<1>8. \A x \in Fds : ~ Closing(x)
  BY DEF Closing, BusyPcs
<1>9. \A g \in Fibers \ (W \cup {f}) : Connects(g)' => Sure(g)'
  <2>1. Fibers \ (W \cup {f}) \in SUBSET Fibers
    OBVIOUS
  <2>2. \A g \in Fibers \ (W \cup {f}) : pc'[g] = pc[g] /\ op'[g] = op[g] /\ ret'[g] = ret[g]
                                          /\ (cancelled[g] => cancelled'[g])
    BY DEF Started
  <2>3. QED
    BY <1>7, <1>8, <2>1, <2>2, StillSure
<1>10. \A w \in W : Sure(w)'
  <2>1. W # {} => Closing(d)'
    BY DEF Closing, Started
  <2>2. \A w \in W : op'[w].fd = d /\ pc'[w] = "runnable"
    BY DEF Started
  <2>3. QED
    BY <2>1, <2>2 DEF Sure
<1>11. Connects(f)' => Sure(f)'
  BY DEF Connects, Sure, Started
<1>12. Connecting'
  BY <1>9, <1>10, <1>11 DEF Connecting
<1>13. QED
  BY <1>1, <1>5, <1>6, <1>12 DEF ConnInv

LEMMA BeginConn ==
  ASSUME OneHookedThread, HookInv, ConnInv, NEW f \in Fibers, NEW call, NEW d \in Fds,
         Begin(f, call, d) \/ Tune(f, call, d) \/ (call = "socket" /\ Socket(f, d))
  PROVE  ConnInv'
<1>0. /\ FiberType /\ FdType /\ KernelType /\ Contexts
  BY DEF HookInv, FiberInv, FdInv, ConnInv
<1>1. call \in Names /\ Starts(f, call, d)
  BY DEF Begin, Tune, Socket, Names
<1>2. Started(f, call, d) /\ pc[f] = "out" /\ \A g \in Fibers : pc[g] \notin BusyPcs /\ Has(g)
  BY <1>1, StartsFacts
<1>3. \A t \in timers' : t.stage # "marked"
  BY <1>2 DEF Begin, Tune, Socket, Has
<1>4. PICK l \in {"out", "try", "get"}, r \in {"none", "ok", "error", "timeout", "direct"} :
        /\ pc' = [pc EXCEPT ![f] = l] /\ ret' = [ret EXCEPT ![f] = r] /\ ret'[f] = r
        /\ l = "get" => call = "socket"
        /\ call = "connect" => sock[d] # 0 /\ (l = "try" \/ (l = "out" /\ r # "ok"))
  <2>1. CASE Begin(f, call, d)
    <3>1. CASE Goto(f, "try")
      BY <1>0, <2>1, <3>1, GoesFacts DEF Begin
    <3>2. CASE \E r \in {"error", "direct"} : Return(f, r)
      BY <1>0, <2>1, <3>2, ReturnFacts DEF Begin
    <3>3. QED
      BY <2>1, <3>1, <3>2 DEF Begin
  <2>2. CASE Tune(f, call, d)
    <3>1. Return(f, "ok") /\ call # "connect"
      BY <2>2 DEF Tune
    <3>2. QED
      BY <1>0, <3>1, ReturnFacts
  <2>3. CASE call = "socket" /\ Socket(f, d)
    <3>1. Goto(f, "get")
      BY <2>3 DEF Socket, OneHookedThread
    <3>2. QED
      BY <1>0, <2>3, <3>1, GoesFacts
  <2>4. QED
    BY <2>1, <2>2, <2>3
<1>5. /\ pc'[f] = l /\ \A g \in Fibers \ {f} : pc'[g] = pc[g] /\ ret'[g] = ret[g]
      /\ ret' \in [Fibers -> {"none", "ok", "error", "timeout", "direct"}]
  BY <1>0, <1>4 DEF FiberType, KernelType
<1>6. /\ UNCHANGED <<conn, ready>>
      /\ \/ UNCHANGED <<sock, sockets>>
         \/ d \in Fds /\ sock' = [sock EXCEPT ![d] = sockets + 1] /\ sockets' = sockets + 1
  BY DEF Begin, Tune, Socket
<1>7. PICK W \in SUBSET (Fibers \ {f}) : W = {}
  OBVIOUS
<1>8. \A w \in W : pc[w] = "parked" /\ pc'[w] = "runnable" /\ op[w].fd = d
  BY <1>7
<1>9. /\ W # {} => pc'[f] = "del"
      /\ \A g \in Fibers \ (W \cup {f}) : pc'[g] = pc[g]
      /\ pc'[f] = "get" => call = "socket"
      /\ pc'[f] = "del" => call = "close"
      /\ pc'[f] # "close_f"
      /\ call = "connect" => d \in Fds /\ sock[d] # 0 /\ (pc'[f] = "try" \/ (pc'[f] = "out" /\ ret'[f] # "ok"))
  BY <1>4, <1>5, <1>7
<1>10. QED
  BY <1>1, <1>2, <1>3, <1>5, <1>6, <1>8, <1>9, ConnStarts

LEMMA SleepConn ==
  ASSUME OneHookedThread, HookInv, ConnInv, NEW f \in Fibers, Sleep(f) PROVE ConnInv'
<1>0. FiberType /\ KernelType
  BY DEF HookInv, FiberInv, ConnInv
<1>1. Starts(f, "sleep", -1) /\ Started(f, "sleep", -1) /\ \A g \in Fibers : pc[g] \notin BusyPcs /\ Has(g)
  BY StartsFacts DEF Sleep, Names
<1>2. \A t \in timers' : t.stage # "marked"
  BY <1>1 DEF Sleep, Has
<1>3. /\ pc'[f] = "parked" /\ \A g \in Fibers \ {f} : pc'[g] = pc[g] /\ ret'[g] = ret[g]
      /\ ret' \in [Fibers -> {"none", "ok", "error", "timeout", "direct"}]
  BY <1>0 DEF Sleep, Goto, FiberType, KernelType
<1>4. UNCHANGED <<conn, ready, sock, sockets>> /\ "sleep" \in Names
  BY DEF Sleep, Names
<1>5. PICK W \in SUBSET (Fibers \ {f}) : W = {}
  OBVIOUS
<1>6. \A w \in W : pc[w] = "parked" /\ pc'[w] = "runnable" /\ op[w].fd = -1
  BY <1>5
<1>7. (W # {} => pc'[f] = "del") /\ \A g \in Fibers \ (W \cup {f}) : pc'[g] = pc[g]
  BY <1>3, <1>5
<1>8. \A g \in Fibers \ {f} : ret'[g] = ret[g]
  BY <1>3
<1>9. QED
  BY <1>1, <1>2, <1>3, <1>4, <1>6, <1>7, <1>8, ConnStarts

LEMMA CloseConn ==
  ASSUME OneHookedThread, HookInv, ConnInv, NEW f \in Fibers, NEW d \in Fds, Close(f, d) PROVE ConnInv'
<1>0. FiberType /\ FdType /\ Registry /\ Contexts /\ KernelType
  BY DEF HookInv, FiberInv, FdInv, ConnInv
<1>1. /\ Starts(f, "close", d) /\ Started(f, "close", d) /\ pc[f] = "out"
      /\ \A g \in Fibers : pc[g] \notin BusyPcs /\ Has(g)
  BY StartsFacts DEF Close, Names
<1>2. \A t \in timers' : t.stage # "marked"
  BY <1>1 DEF Close, Has
<1>3. UNCHANGED <<conn, ready, sock, sockets>> /\ UNCHANGED ret
  BY DEF Close, Goto
<1>4. ctx[d].in /\ f \notin Unhooked
  <2>1. sock[d] # 0
    BY DEF Close
  <2>2. QED
    BY <2>1, <1>0, <1>1, NoneOpening DEF OneHookedThread
<1>5. PICK W : /\ W = {} \/ W = {events[d][e] : e \in Events} \ {None}
               /\ pc' = [Wake(W) EXCEPT ![f] = "del"]
  <2>1. CASE pc' = [pc EXCEPT ![f] = "del"]
    <3>1. Wake({}) = pc
      BY <1>0 DEF Wake, FiberType
    <3>2. QED
      BY <2>1, <3>1
  <2>2. CASE pc' = [Wake({events[d][e] : e \in Events} \ {None}) EXCEPT ![f] = "del"]
    BY <2>2
  <2>3. QED
    BY <1>4, <2>1, <2>2 DEF Close, Goto
<1>6. \A w \in W : w \in Fibers \ {f} /\ pc[w] = "parked" /\ op[w].fd = d
  <2>1. \A w \in W : \E e \in Events : events[d][e] = w /\ w # None
    BY <1>5
  <2>2. QED
    BY <2>1, <1>0, <1>1 DEF Registry, Registered
<1>7. /\ pc'[f] = "del" /\ \A w \in W : pc'[w] = "runnable"
      /\ \A g \in Fibers \ (W \cup {f}) : pc'[g] = pc[g]
  BY <1>5, <1>6 DEF Wake
<1>8. ret' \in [Fibers -> {"none", "ok", "error", "timeout", "direct"}] /\ \A g \in Fibers \ {f} : ret'[g] = ret[g]
  BY <1>0, <1>3 DEF KernelType
<1>9. W \in SUBSET (Fibers \ {f}) /\ "close" \in Names
  BY <1>6 DEF Names
<1>10. QED
  BY <1>1, <1>2, <1>3, <1>6, <1>7, <1>8, <1>9, ConnStarts

\* Steps of the timers and of the kernel: nobody moves but the fibers W that are woken.
LEMMA ConnWakes ==
  ASSUME HookInv, ConnInv, NEW W \in SUBSET Fibers,
         \A w \in W : pc[w] = "parked" /\ pc'[w] = "runnable",
         \A g \in Fibers \ W : pc'[g] = pc[g],
         \A w \in W : op[w].call = "connect" => cancelled'[w] \/ Made(w),
         \A g \in Fibers : cancelled[g] => cancelled'[g],
         UNCHANGED <<op, ret, sock, sockets, conn, ready>>,
         \A t \in timers' : t.stage = "marked" => pc'[t.fiber] # "out"
  PROVE  ConnInv'
<1>0. KernelType /\ Sockets /\ CallsFit /\ Connecting
  BY DEF ConnInv
<1>1. KernelType' /\ Sockets'
  BY <1>0 DEF KernelType, Sockets
<1>2. CallsFit'
  BY <1>0 DEF CallsFit
<1>3. \A d \in Fds : ConnMoves(d) /\ (Closing(d) => Closing(d)')
  BY DEF ConnMoves, Closing
<1>4. \A g \in Fibers \ W : Connects(g)' => Sure(g)'
  <2>1. Fibers \ W \in SUBSET Fibers
    OBVIOUS
  <2>2. \A g \in Fibers \ W : pc'[g] = pc[g] /\ op'[g] = op[g] /\ ret'[g] = ret[g]
                                          /\ (cancelled[g] => cancelled'[g])
    OBVIOUS
  <2>3. QED
    BY <1>3, <2>1, <2>2, StillSure
<1>5. \A w \in W : Connects(w)' => Sure(w)'
  BY DEF Connects, Sure, Made
<1>6. Connecting'
  BY <1>4, <1>5 DEF Connecting
<1>7. QED
  BY <1>1, <1>2, <1>6 DEF ConnInv

LEMMA TimerConn ==
  ASSUME OneHookedThread, OneWriter, HookInv, ConnInv, NEW t \in timers, Timer(t) PROVE ConnInv'
<1>0. /\ FiberType /\ TimersFit /\ FdType /\ Registry /\ CallsFit
  BY DEF HookInv, FiberInv, FdInv, ConnInv
<1>1. t \in TimerType /\ t.fiber \in Fibers
  BY <1>0 DEF FiberType, TimerType
<1>2. {} \in SUBSET Fibers
  OBVIOUS
<1>3. CASE Expire(t)
  <2>1. \A u \in timers' : u.stage = "marked" => u \in timers
    BY <1>1, <1>3 DEF Expire, TimerType
  <2>2. QED
    BY <1>0, <1>2, <1>3, <2>1, ConnWakes DEF Expire, CallsFit
<1>4. CASE Callback(t)
  <2>1. UNCHANGED <<op, ret, sock, sockets, conn, ready>>
    BY <1>4 DEF Callback
  <2>2. CASE t.event = "sleep"
    <3>1. pc' = Wake({t.fiber}) /\ timers' = timers \ {t} /\ UNCHANGED cancelled
      BY <1>4, <2>2 DEF Callback
    <3>2. pc[t.fiber] = "parked" /\ op[t.fiber].call = "sleep"
      BY <1>0, <2>2 DEF TimersFit, Asleep
    <3>3. \A u \in timers : u.fiber \in Fibers
      BY <1>0 DEF FiberType, TimerType
    <3>4. {t.fiber} \in SUBSET Fibers /\ pc'[t.fiber] = "runnable" /\ \A g \in Fibers \ {t.fiber} : pc'[g] = pc[g]
      BY <1>1, <3>1 DEF Wake
    <3>5. \A u \in timers' : u.stage = "marked" => pc'[u.fiber] # "out"
      BY <1>0, <3>1, <3>3, <3>4 DEF CallsFit
    <3>6. QED
      BY <2>1, <3>1, <3>2, <3>4, <3>5, ConnWakes
  <2>3. CASE t.event # "sleep"
    <3>1. UNCHANGED pc /\ \A g \in Fibers : cancelled[g] => cancelled'[g]
      BY <1>0, <1>4, <2>3 DEF Callback, FiberType
    <3>2. \A u \in timers' : u.stage = "marked" => u \in timers \/ (u.fiber = t.fiber /\ pc[t.fiber] # "out")
      BY <1>1, <1>4, <2>3 DEF Callback, TimerType
    <3>3. \A u \in timers' : u.stage = "marked" => pc'[u.fiber] # "out"
      BY <1>0, <3>1, <3>2 DEF CallsFit
    <3>4. QED
      BY <1>2, <2>1, <3>1, <3>3, ConnWakes
  <2>4. QED
    BY <2>2, <2>3
<1>5. CASE CancelEvent(t)
  <2>1. t.stage = "marked" /\ timers' = timers \ {t} /\ UNCHANGED <<op, ret, sock, sockets, conn, ready, cancelled>>
    BY <1>5 DEF CancelEvent
  <2>2. CASE UNCHANGED pc
    BY <1>0, <1>2, <2>1, <2>2, ConnWakes DEF CallsFit
  <2>3. CASE /\ events[t.fd][t.event] # None /\ pc' = Wake({events[t.fd][t.event]})
    <3>1. PICK w : w = events[t.fd][t.event] /\ w # None
      BY <2>3
    <3>2. t.event # "sleep" /\ t.fd \in Fds /\ t.event \in Events
      BY <1>0, <1>1, <2>1 DEF TimersFit, TimerType
    <3>3. w \in Fibers /\ pc[w] = "parked" /\ op[w].fd = t.fd /\ Event(op[w].call) = t.event
      BY <1>0, <3>1, <3>2 DEF Registry, Registered
    <3>4. \A g \in Fibers \ {w} : pc'[g] = pc[g]
      BY <2>3, <3>1 DEF Wake
    <3>5. pc'[w] = "runnable" /\ {w} \in SUBSET Fibers
      BY <2>3, <3>1, <3>3 DEF Wake
    <3>6. op[w].call = "connect" => cancelled[w]
      <4> SUFFICES ASSUME op[w].call = "connect" PROVE cancelled[w]
        OBVIOUS
      <4>1. t.event = "WRITE"
        BY <3>3 DEF Event
      <4>2. /\ op[t.fiber].call \in Ops /\ op[t.fiber].fd = t.fd /\ Event(op[t.fiber].call) = "WRITE"
            /\ cancelled[t.fiber] /\ pc[t.fiber] # "out"
        BY <1>0, <2>1, <3>2, <4>1 DEF TimersFit, CallsFit
      <4>3. op[t.fiber].call \in {"write", "connect"}
        BY <4>2 DEF Ops, Event
      <4>4. InWrite(t.fiber) /\ InWrite(w)
        BY <3>3, <4>2, <4>3 DEF InWrite
      <4>5. t.fiber = w
        BY <1>1, <3>3, <4>2, <4>4 DEF OneWriter
      <4>6. QED
        BY <4>2, <4>5
    <3>7. \A u \in timers : u.fiber \in Fibers
      BY <1>0 DEF FiberType, TimerType
    <3>8. \A u \in timers' : u.stage = "marked" => pc'[u.fiber] # "out"
      BY <1>0, <2>1, <3>4, <3>5, <3>7 DEF CallsFit
    <3>9. QED
      BY <2>1, <3>3, <3>4, <3>5, <3>6, <3>8, ConnWakes
  <2>4. QED
    BY <1>5, <2>2, <2>3 DEF CancelEvent
<1>6. QED
  BY <1>3, <1>4, <1>5 DEF Timer

LEMMA ReportConn ==
  ASSUME HookInv, ConnInv, NEW d \in Fds, NEW e \in Events, Report(d, e) PROVE ConnInv'
<1>0. /\ FiberType /\ FdType /\ Registry /\ KernelType /\ Sockets /\ CallsFit /\ Connecting
  BY DEF HookInv, FiberInv, FdInv, ConnInv
<1>1. PICK w : w = events[d][e] /\ w # None /\ pc' = Wake({w})
  BY DEF Report
<1>2. w \in Fibers /\ pc[w] = "parked" /\ op[w].fd = d /\ Event(op[w].call) = e
  BY <1>0, <1>1 DEF Registry, Registered
<1>3. {w} \in SUBSET Fibers /\ pc'[w] = "runnable" /\ \A g \in Fibers \ {w} : pc'[g] = pc[g]
  BY <1>1, <1>2 DEF Wake
<1>4. e \in ready[d] /\ UNCHANGED <<op, ret, sock, sockets, conn, ready, timers, cancelled>>
  BY DEF Report
<1>5. \A u \in timers : u.fiber \in Fibers
  BY <1>0 DEF FiberType, TimerType
<1>6. \A u \in timers' : u.stage = "marked" => pc'[u.fiber] # "out"
  BY <1>0, <1>3, <1>4, <1>5 DEF CallsFit
<1>7. ASSUME Connects(w) PROVE Made(w)
  <2>1. e = "WRITE"
    BY <1>2, <1>7 DEF Connects, Event
  <2>2. conn[d] # "none"
    BY <1>0, <1>2, <1>7 DEF Connecting, Sure
  <2>3. QED
    BY <1>0, <1>2, <1>4, <2>1, <2>2 DEF Sockets, KernelType, Made
<1>8. KernelType' /\ Sockets'
  BY <1>0, <1>4 DEF KernelType, Sockets
<1>9. CallsFit'
  BY <1>0, <1>3, <1>4, <1>6 DEF CallsFit
<1>10. \A x \in Fds : ConnMoves(x) /\ (Closing(x) => Closing(x)')
  BY <1>2, <1>3, <1>4 DEF ConnMoves, Closing
<1>11. \A g \in Fibers \ {w} : Connects(g)' => Sure(g)'
  <2>1. Fibers \ {w} \in SUBSET Fibers
    OBVIOUS
  <2>2. \A g \in Fibers \ {w} : pc'[g] = pc[g] /\ op'[g] = op[g] /\ ret'[g] = ret[g]
                                          /\ (cancelled[g] => cancelled'[g])
    BY <1>3, <1>4
  <2>3. QED
    BY <1>10, <2>1, <2>2, StillSure
<1>12. Connects(w)' => Sure(w)'
  BY <1>3, <1>4, <1>7 DEF Connects, Sure, Made
<1>13. QED
  BY <1>8, <1>9, <1>11, <1>12 DEF ConnInv, Connecting

LEMMA ArriveConn ==
  ASSUME HookInv, ConnInv, NEW d \in Fds, NEW e \in Events, Arrive(d, e) PROVE ConnInv'
<1>0. /\ KernelType /\ Sockets /\ CallsFit
  BY DEF ConnInv
<1>1. /\ UNCHANGED <<pc, op, ret, cancelled, timers, sock, sockets>>
      /\ ready' = [ready EXCEPT ![d] = @ \cup {e}]
  BY DEF Arrive
<1>2. PICK c \in {"none", "progress", "up", "refused"} :
        /\ conn' = [conn EXCEPT ![d] = c]
        /\ IF e = "WRITE" /\ conn[d] = "progress" THEN c \in {"up", "refused"} ELSE c = conn[d]
  BY <1>0 DEF Arrive, KernelType
<1>3. /\ conn' \in [Fds -> {"none", "progress", "up", "refused"}] /\ conn'[d] = c
      /\ ready' \in [Fds -> SUBSET Events] /\ ready'[d] = ready[d] \cup {e}
      /\ \A x \in Fds \ {d} : conn'[x] = conn[x] /\ ready'[x] = ready[x]
  BY <1>0, <1>1, <1>2 DEF KernelType
<1>4. KernelType'
  BY <1>0, <1>1, <1>3 DEF KernelType
<1>5. Sockets'
  BY <1>0, <1>1, <1>2, <1>3 DEF Sockets
<1>6. CallsFit'
  BY <1>0, <1>1 DEF CallsFit
<1>7. \A x \in Fds : ConnMoves(x) /\ (Closing(x) => Closing(x)')
  BY <1>1, <1>2, <1>3 DEF ConnMoves, Closing
<1>8. \A g \in Fibers : Connects(g)' => Sure(g)'
  <2>1. Fibers \in SUBSET Fibers
    OBVIOUS
  <2>2. QED
    BY <1>1, <1>7, <2>1, StillSure
<1>9. QED
  BY <1>4, <1>5, <1>6, <1>8 DEF ConnInv, Connecting

LEMMA ConnStep ==
  ASSUME OneHookedThread, OneWriter, HookInv, ConnInv, [Next]_vars PROVE ConnInv'
<1>1. ASSUME NEW f \in Fibers, Step(f) PROVE ConnInv'
  BY <1>1, TryConn, ArmConn, AddConn, ResumeConn, CheckConn, DelConn DEF Step
<1>2. ASSUME NEW t \in timers, Timer(t) PROVE ConnInv'
  BY <1>2, TimerConn
<1>3. ASSUME NEW f \in Fibers, NEW d \in Fds,
             Close(f, d) \/ Socket(f, d) \/ \E call \in Calls[f] : Begin(f, call, d) \/ Tune(f, call, d)
      PROVE  ConnInv'
  BY <1>3, CloseConn, BeginConn
<1>4. ASSUME NEW f \in Fibers, Sleep(f) PROVE ConnInv'
  BY <1>4, SleepConn
<1>5. ASSUME NEW d \in Fds, NEW e \in Events, Arrive(d, e) \/ Report(d, e) PROVE ConnInv'
  BY <1>5, ArriveConn, ReportConn
<1>6. CASE UNCHANGED vars
  <2>1. UNCHANGED <<pc, op, ret, cancelled, timers, sock, sockets, conn, ready>> /\ {} \in SUBSET Fibers
    BY <1>6 DEF vars
  <2>2. QED
    BY <2>1, ConnWakes DEF ConnInv, CallsFit
<1>7. QED
  BY <1>1, <1>2, <1>3, <1>4, <1>5, <1>6 DEF Next

\* On one thread with the hooks enabled, while no two fibers write to one descriptor at a
\* time, connect() returns 0 only for a connection that is made: neither a timeout nor a
\* close() nor a descriptor that is used again makes it take SO_ERROR for success.
THEOREM ConnectIsTrue == OneHookedThread => (Spec /\ []OneWriter => []ConnectTruth)
<1>1. CASE OneHookedThread
  <2>1. OneWriter /\ HookInv /\ ConnInv /\ [Next]_vars => ConnInv'
    BY <1>1, ConnStep
  <2>2. Spec => []HookInv
    BY <1>1, HookInvHolds
  <2>3. ConnInv => ConnectTruth
    BY DEF ConnInv, Connecting, Connects, Sure, ConnectTruth
  <2>4. QED
    BY <2>1, <2>2, <2>3, ConnInit, PTL DEF Spec
<1>2. QED
  BY <1>1
=============================================================================
