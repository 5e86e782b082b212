------------------------------- MODULE Hook --------------------------------
(***************************************************************************)
(* The hooked system calls (hook.cpp) and what they remember about each    *)
(* descriptor (fd_manager.cpp).  A call that would block registers for an  *)
(* event, arms a timer when the descriptor has a timeout, and parks its    *)
(* fiber; the kernel, the timer's callback or close() wakes it.  Fibers    *)
(* and callbacks take turns on Threads threads, one step at a time; with   *)
(* one thread a fiber runs undisturbed until it parks or returns.  The     *)
(* kernel and the event registry are modelled by how the hooks use them;   *)
(* IOManager and Scheduler have modules of their own.                      *)
(***************************************************************************)
EXTENDS Integers, FiniteSets

CONSTANTS
  Fibers,      \* the fibers that make the calls
  Calls,       \* Calls[f]: the calls fiber f makes
  Fds,         \* descriptor numbers the process uses, a set of naturals
  Unhooked,    \* the fibers among Fibers whose thread has t_hook_enable unset
  Threads,     \* worker threads
  TableSize,   \* m_datas.size() of FdManager
  MaxCalls,    \* MaxCalls[f]: bound on the calls of fiber f
  MaxSockets,  \* bound on the sockets opened
  MaxArrivals  \* bound on the times a socket becomes ready

None == "none"
Events == {"READ", "WRITE"}
Ops == {"read", "write", "connect"}

\* The timer of a call: whose, which call, what its callback cancels (-1 for sleep()).
TimerType == [fiber : Fibers, inst : Nat, fd : Fds \cup {-1}, event : Events \cup {"sleep"},
              stage : {"armed", "due", "marked"}]

ASSUME HookAssumption ==
  /\ Fds \subseteq Nat /\ Threads \in Nat \ {0} /\ Unhooked \subseteq Fibers
  /\ IsFiniteSet(Fibers) /\ None \notin Fibers /\ Fibers \cap TimerType = {}

VARIABLES
  pc,         \* where each fiber is
  op,         \* the call it is in: its name, descriptor, the socket meant, its timeout
  inst,       \* number of its current call: which timer_info is alive
  cancelled,  \* tinfo->cancelled of that call
  ret,        \* what the last call returned
  timers,     \* the condition timers and callbacks of all calls
  ctx,        \* FdManager: the context of each descriptor
  events,     \* IOManager: who waits for which event of a descriptor
  sock,       \* kernel: the socket behind a descriptor, 0 when closed
  nonblk,     \* kernel: O_NONBLOCK
  watched,    \* kernel: the events epoll watches
  ready,      \* kernel: the events that are ready
  conn,       \* kernel: state of a connection
  sockets, arrivals,  \* how many sockets were opened, how often one became ready
  cleared,    \* descriptors on which ioctl(FIONBIO, 0) has been called
  fault       \* an assertion that failed or a write outside the table

fibervars  == <<pc, op, inst, cancelled, ret>>
kernelvars == <<sock, nonblk, watched, ready, conn, sockets, arrivals>>
vars == <<fibervars, timers, ctx, events, kernelvars, cleared, fault>>

NoCtx    == [in |-> FALSE, user |-> FALSE, timeout |-> FALSE]
FreshCtx == [in |-> TRUE, user |-> FALSE, timeout |-> FALSE]

Event(call) == IF call = "read" THEN "READ" ELSE "WRITE"

\* Fibers and callbacks that are on a thread.
Busy ==
  {f \in Fibers : pc[f] \in {"try", "arm", "add", "check", "sockopt", "blocked",
                              "del", "close_f", "get"}}
    \cup {t \in timers : t.stage = "marked"}

CanRun(x) == x \in Busy \/ Cardinality(Busy) < Threads

Wake(fs) == [f \in Fibers |-> IF f \in fs THEN "runnable" ELSE pc[f]]

Return(f, value) == /\ pc' = [pc EXCEPT ![f] = "out"]
                    /\ ret' = [ret EXCEPT ![f] = value]

Goto(f, label) == /\ pc' = [pc EXCEPT ![f] = label]
                  /\ UNCHANGED ret

\* timer->cancel(): the timers of the call that have not expired yet are gone.
CancelTimers(f) ==
  timers' = {t \in timers : ~(t.fiber = f /\ t.inst = inst[f] /\ t.stage = "armed")}

Init ==
  /\ pc = [f \in Fibers |-> "out"]
  /\ op = [f \in Fibers |-> [call |-> "none", fd |-> 0, sock |-> 0, to |-> FALSE]]
  /\ inst = [f \in Fibers |-> 0]
  /\ cancelled = [f \in Fibers |-> FALSE]
  /\ ret = [f \in Fibers |-> "none"]
  /\ timers = {}
  /\ ctx = [d \in Fds |-> NoCtx]
  /\ events = [d \in Fds |-> [e \in Events |-> None]]
  /\ sock = [d \in Fds |-> 0] /\ nonblk = [d \in Fds |-> FALSE]
  /\ watched = [d \in Fds |-> {}] /\ ready = [d \in Fds |-> {}]
  /\ conn = [d \in Fds |-> "none"]
  /\ sockets = 0 /\ arrivals = 0
  /\ cleared = {} /\ fault = "none"

\* Fiber f starts a call on descriptor d.
Starts(f, call, d) ==
  /\ call \in Calls[f]
  /\ pc[f] = "out" /\ CanRun(f)
  /\ inst[f] < MaxCalls[f] /\ inst' = [inst EXCEPT ![f] = @ + 1]
  /\ op' = [op EXCEPT ![f] = [call |-> call, fd |-> d,
                              sock |-> IF d \in Fds THEN sock[d] ELSE 0,
                              to |-> d \in Fds /\ ctx[d].in
                                       /\ (call = "connect" \/ ctx[d].timeout)]]
  /\ cancelled' = [cancelled EXCEPT ![f] = FALSE]

-----------------------------------------------------------------------------
\* do_io and connect_with_timeout

\* A call that has no context, or whose user asked for O_NONBLOCK, goes straight to the
\* kernel; here it returns at once.  Without a context connect() fails with EBADF.  Any
\* other starts to wait for its turn.
Begin(f, call, d) ==
  /\ call \in Ops /\ sock[d] # 0
  /\ Starts(f, call, d)
  /\ IF f \in Unhooked \/ ~ctx[d].in \/ ctx[d].user
     THEN Return(f, IF call = "connect" /\ f \notin Unhooked /\ ~ctx[d].in THEN "error" ELSE "direct")
     ELSE Goto(f, "try")
  /\ UNCHANGED <<timers, ctx, events, kernelvars, cleared, fault>>

\* The original function: it returns (a connect() may succeed at once), or fails with EAGAIN
\* (EINPROGRESS), or keeps the whole thread when the kernel thinks the socket is blocking.
Try(f) ==
  LET d == op[f].fd IN
  /\ pc[f] \in {"try", "blocked"}
  /\ \/ /\ sock[d] = 0
        /\ Return(f, "error")
        /\ UNCHANGED <<ready, conn>>
     \/ /\ sock[d] # 0 /\ op[f].call # "connect" /\ Event(op[f].call) \in ready[d]
        /\ Return(f, "ok")
        /\ ready' = [ready EXCEPT ![d] = @ \ {Event(op[f].call)}]
        /\ UNCHANGED conn
     \/ /\ sock[d] # 0 /\ op[f].call = "connect" /\ conn[d] # "none"
        /\ Return(f, "error")
        /\ UNCHANGED <<ready, conn>>
     \/ /\ sock[d] # 0 /\ op[f].call = "connect" /\ conn[d] = "none"
        /\ Return(f, "ok")
        /\ conn' = [conn EXCEPT ![d] = "up"]
        /\ UNCHANGED ready
     \/ /\ sock[d] # 0 /\ ~nonblk[d] /\ pc[f] = "try"
        /\ op[f].call = "connect" \/ Event(op[f].call) \notin ready[d]
        /\ Goto(f, "blocked")
        /\ UNCHANGED <<ready, conn>>
     \/ /\ sock[d] # 0 /\ nonblk[d]
        /\ op[f].call = "connect" => conn[d] = "none"
        /\ op[f].call # "connect" => Event(op[f].call) \notin ready[d]
        /\ Goto(f, IF op[f].to THEN "arm" ELSE "add")
        /\ IF op[f].call = "connect"
           THEN /\ conn' = [conn EXCEPT ![d] = "progress"]
                /\ ready' = [ready EXCEPT ![d] = @ \ {"WRITE"}]
           ELSE UNCHANGED <<conn, ready>>
  /\ UNCHANGED <<op, inst, cancelled, timers, ctx, events, sock, nonblk, watched,
                 sockets, arrivals, cleared, fault>>

\* Mutant: no timer is added.
ArmNothing(f) ==
  /\ pc[f] = "arm"
  /\ Goto(f, "add")
  /\ UNCHANGED <<op, inst, cancelled, timers, ctx, events, kernelvars, cleared, fault>>

\* addConditionTimer
Arm(f) ==
  /\ pc[f] = "arm"
  /\ Goto(f, "add")
  /\ timers' = timers \cup {[fiber |-> f, inst |-> inst[f], fd |-> op[f].fd,
                             event |-> Event(op[f].call), stage |-> "armed"]}
  /\ UNCHANGED <<op, inst, cancelled, ctx, events, kernelvars, cleared, fault>>

\* epoll_ctl for a descriptor: ADD needs an open descriptor, MOD one epoll knows.
CtlFails(d) == sock[d] = 0 \/ ((\E e \in Events : events[d][e] # None) /\ watched[d] = {})

\* addEvent and, when it succeeds, YieldToHold.
Add(f) ==
  LET d == op[f].fd
      e == Event(op[f].call)
  IN
  /\ pc[f] = "add"
  /\ \/ /\ events[d][e] # None
        /\ fault' = "assert" /\ Goto(f, "aborted")
        /\ UNCHANGED <<timers, events, watched>>
     \/ /\ events[d][e] = None /\ CtlFails(d)
        /\ CancelTimers(f)
        /\ IF op[f].call = "connect" THEN Goto(f, "sockopt") ELSE Return(f, "error")
        /\ UNCHANGED <<events, watched, fault>>
     \/ /\ events[d][e] = None /\ ~CtlFails(d)
        /\ events' = [events EXCEPT ![d][e] = f]
        /\ watched' = [watched EXCEPT ![d] = @ \cup {e}]
        /\ Goto(f, "parked")
        /\ UNCHANGED <<timers, fault>>
  /\ UNCHANGED <<op, inst, cancelled, ctx, sock, nonblk, ready, conn, sockets, arrivals, cleared>>

\* The fiber is back from YieldToHold: timer->cancel().
Resume(f) ==
  /\ pc[f] = "runnable" /\ CanRun(f)
  /\ CancelTimers(f)
  /\ IF op[f].call = "sleep" THEN Return(f, "ok") ELSE Goto(f, "check")
  /\ UNCHANGED <<op, inst, cancelled, ctx, events, kernelvars, cleared, fault>>

\* Mutant: tinfo->cancelled is not looked at.
CheckIgnoresTimeout(f) ==
  /\ pc[f] = "check"
  /\ Goto(f, IF op[f].call = "connect" THEN "sockopt" ELSE "try")
  /\ UNCHANGED <<op, inst, cancelled, timers, ctx, events, kernelvars, cleared, fault>>

\* if(tinfo->cancelled): a timeout; otherwise do_io retries and connect asks the socket.
Check(f) ==
  /\ pc[f] = "check"
  /\ IF cancelled[f] THEN Return(f, "timeout")
     ELSE Goto(f, IF op[f].call = "connect" THEN "sockopt" ELSE "try")
  /\ UNCHANGED <<op, inst, cancelled, timers, ctx, events, kernelvars, cleared, fault>>

\* getsockopt(SO_ERROR): 0 also while the connection is still in progress.
SockOpt(f) ==
  LET d == op[f].fd IN
  /\ pc[f] = "sockopt"
  /\ Return(f, IF sock[d] = 0 \/ conn[d] = "refused" THEN "error" ELSE "ok")
  /\ UNCHANGED <<op, inst, cancelled, timers, ctx, events, kernelvars, cleared, fault>>

-----------------------------------------------------------------------------
\* The callback of a timeout timer

\* The timer expires: its callback is queued.
Expire(t) ==
  /\ t.stage = "armed"
  /\ timers' = (timers \ {t}) \cup {[t EXCEPT !.stage = "due"]}
  /\ UNCHANGED <<fibervars, ctx, events, kernelvars, cleared, fault>>

\* Mutant: the callback sets ETIMEDOUT and leaves the waiter.
CallbackMarksOnly(t) ==
  LET f == t.fiber
      alive == t.inst = inst[f] /\ pc[f] # "out"
  IN
  /\ t.stage = "due" /\ CanRun(t)
  /\ timers' = timers \ {t}
  /\ pc' = IF t.event = "sleep" THEN Wake({f}) ELSE pc
  /\ cancelled' = IF t.event # "sleep" /\ alive THEN [cancelled EXCEPT ![f] = TRUE] ELSE cancelled
  /\ UNCHANGED <<op, inst, ret, ctx, events, kernelvars, cleared, fault>>

\* The callback finds its timer_info gone or cancelled and returns, or sets ETIMEDOUT.
\* The callback of sleep() schedules the fiber.
Callback(t) ==
  LET f == t.fiber
      alive == t.inst = inst[f] /\ pc[f] # "out"
  IN
  /\ t.stage = "due" /\ CanRun(t)
  /\ IF t.event = "sleep"
     THEN /\ pc' = Wake({f}) /\ timers' = timers \ {t}
          /\ UNCHANGED cancelled
     ELSE IF alive /\ ~cancelled[f]
     THEN /\ cancelled' = [cancelled EXCEPT ![f] = TRUE]
          /\ timers' = (timers \ {t}) \cup {[t EXCEPT !.stage = "marked"]}
          /\ UNCHANGED pc
     ELSE /\ timers' = timers \ {t}
          /\ UNCHANGED <<cancelled, pc>>
  /\ UNCHANGED <<op, inst, ret, ctx, events, kernelvars, cleared, fault>>

\* cancelEvent(fd, event): whoever waits for it is woken.
CancelEvent(t) ==
  LET w == events[t.fd][t.event] IN
  /\ t.stage = "marked"
  /\ timers' = timers \ {t}
  /\ IF w = None \/ CtlFails(t.fd)
     THEN UNCHANGED <<pc, events, watched>>
     ELSE /\ pc' = Wake({w})
          /\ events' = [events EXCEPT ![t.fd][t.event] = None]
          /\ watched' = [watched EXCEPT ![t.fd] = @ \ {t.event}]
  /\ UNCHANGED <<op, inst, cancelled, ret, ctx, sock, nonblk, ready, conn, sockets, arrivals,
                 cleared, fault>>

-----------------------------------------------------------------------------
\* sleep, usleep, nanosleep: a plain timer whose callback schedules the fiber.
Sleep(f) ==
  /\ Starts(f, "sleep", -1)
  /\ f \notin Unhooked
  /\ timers' = timers \cup {[fiber |-> f, inst |-> inst'[f], fd |-> -1,
                             event |-> "sleep", stage |-> "armed"]}
  /\ Goto(f, "parked")
  /\ UNCHANGED <<ctx, events, kernelvars, cleared, fault>>

\* Mutant: close() does not call cancelAll.
CloseNoCancel(f, d) ==
  /\ sock[d] # 0
  /\ Starts(f, "close", d)
  /\ Goto(f, IF f \in Unhooked \/ ~ctx[d].in THEN "close_f" ELSE "del")
  /\ UNCHANGED <<timers, ctx, events, kernelvars, cleared, fault>>

\* close: cancelAll wakes every waiter, then the context goes, then the descriptor.
Close(f, d) ==
  LET ws == {events[d][e] : e \in Events} \ {None}
      direct == f \in Unhooked \/ ~ctx[d].in
  IN
  /\ sock[d] # 0
  /\ Starts(f, "close", d)
  /\ IF direct \/ ws = {} \/ CtlFails(d)
     THEN /\ Goto(f, IF direct THEN "close_f" ELSE "del")
          /\ UNCHANGED <<events, watched>>
     ELSE /\ pc' = [Wake(ws) EXCEPT ![f] = "del"]
          /\ events' = [events EXCEPT ![d] = [e \in Events |-> None]]
          /\ watched' = [watched EXCEPT ![d] = {}]
          /\ UNCHANGED ret
  /\ UNCHANGED <<timers, ctx, sock, nonblk, ready, conn, sockets, arrivals, cleared, fault>>

\* FdMgr::del
Del(f) ==
  /\ pc[f] = "del"
  /\ ctx' = [ctx EXCEPT ![op[f].fd] = NoCtx]
  /\ Goto(f, "close_f")
  /\ UNCHANGED <<op, inst, cancelled, timers, events, kernelvars, cleared, fault>>

\* close_f: the kernel forgets the descriptor, epoll's interest in it included.
CloseF(f) ==
  LET d == op[f].fd IN
  /\ pc[f] = "close_f"
  /\ Return(f, "ok")
  /\ sock' = [sock EXCEPT ![d] = 0]
  /\ nonblk' = [nonblk EXCEPT ![d] = FALSE]
  /\ watched' = [watched EXCEPT ![d] = {}]
  /\ ready' = [ready EXCEPT ![d] = {}]
  /\ conn' = [conn EXCEPT ![d] = "none"]
  /\ cleared' = cleared \ {d}
  /\ UNCHANGED <<op, inst, cancelled, timers, ctx, events, sockets, arrivals, fault>>

\* socket(): the kernel gives the lowest free number.
Socket(f, d) ==
  /\ sock[d] = 0 /\ \A x \in Fds : x < d => sock[x] # 0
  /\ sockets < MaxSockets
  /\ Starts(f, "socket", d)
  /\ sock' = [sock EXCEPT ![d] = sockets + 1]
  /\ sockets' = sockets + 1
  /\ IF f \in Unhooked THEN Return(f, "ok") ELSE Goto(f, "get")
  /\ UNCHANGED <<timers, ctx, events, nonblk, watched, ready, conn, arrivals, cleared, fault>>

\* Mutant: a new context leaves the socket as it is.
GetKeepsBlocking(f) ==
  LET d == op[f].fd IN
  /\ pc[f] = "get"
  /\ Return(f, "ok")
  /\ fault' = IF d >= TableSize THEN "overrun" ELSE fault
  /\ ctx' = IF ctx[d].in THEN ctx ELSE [ctx EXCEPT ![d] = FreshCtx]
  /\ UNCHANGED <<op, inst, cancelled, timers, events, kernelvars, cleared>>

\* FdMgr::get(fd, true): a context that is there is kept as it is; a new one is set up
\* and makes the socket non-blocking.
Get(f) ==
  LET d == op[f].fd IN
  /\ pc[f] = "get"
  /\ Return(f, "ok")
  /\ fault' = IF d >= TableSize THEN "overrun" ELSE fault
  /\ IF ctx[d].in THEN UNCHANGED <<ctx, nonblk>>
     ELSE /\ ctx' = [ctx EXCEPT ![d] = FreshCtx]
          /\ nonblk' = [nonblk EXCEPT ![d] = TRUE]
  /\ UNCHANGED <<op, inst, cancelled, timers, events, sock, watched, ready, conn, sockets,
                 arrivals, cleared>>

\* The calls that change what is known of a descriptor: fcntl(F_SETFL) keeps the kernel's
\* flag, ioctl(FIONBIO) passes the user's wish on, setsockopt sets a timeout.
Tune(f, call, d) ==
  /\ call \in {"fcntl", "ioctl", "setsockopt"}
  /\ sock[d] # 0 /\ ctx[d].in /\ (call = "setsockopt" => f \notin Unhooked)
  /\ Starts(f, call, d)
  /\ Return(f, "ok")
  /\ \E v \in BOOLEAN :
       /\ ctx' = [ctx EXCEPT ![d] =
            IF call = "setsockopt" THEN [@ EXCEPT !.timeout = v] ELSE [@ EXCEPT !.user = v]]
       /\ IF call = "ioctl"
          THEN /\ nonblk' = [nonblk EXCEPT ![d] = v]
               /\ cleared' = IF v THEN cleared \ {d} ELSE cleared \cup {d}
          ELSE /\ nonblk' = IF call = "fcntl" THEN [nonblk EXCEPT ![d] = TRUE] ELSE nonblk
               /\ cleared' = IF call = "fcntl" THEN cleared \ {d} ELSE cleared
  /\ UNCHANGED <<timers, events, sock, watched, ready, conn, sockets, arrivals, fault>>

-----------------------------------------------------------------------------
\* The kernel

\* Data arrives, there is room to write, or a connection is made or refused.
Arrive(d, e) ==
  /\ sock[d] # 0 /\ e \notin ready[d] /\ arrivals < MaxArrivals
  /\ ready' = [ready EXCEPT ![d] = @ \cup {e}]
  /\ arrivals' = arrivals + 1
  /\ conn' \in {[conn EXCEPT ![d] = c] :
                  c \in IF e = "WRITE" /\ conn[d] = "progress" THEN {"up", "refused"} ELSE {conn[d]}}
  /\ UNCHANGED <<fibervars, timers, ctx, events, sock, nonblk, watched, sockets, cleared, fault>>

\* epoll_wait reports a ready event and the idle loop triggers it.
Report(d, e) ==
  LET w == events[d][e] IN
  /\ e \in ready[d] \cap watched[d] /\ w # None
  /\ Cardinality(Busy) < Threads
  /\ pc' = Wake({w})
  /\ events' = [events EXCEPT ![d][e] = None]
  /\ watched' = [watched EXCEPT ![d] = @ \ {e}]
  /\ UNCHANGED <<op, inst, cancelled, ret, timers, ctx, sock, nonblk, ready, conn, sockets,
                 arrivals, cleared, fault>>

Step(f) ==
  \/ Try(f) \/ Arm(f) \/ Add(f) \/ Resume(f) \/ Check(f) \/ SockOpt(f)
  \/ Del(f) \/ CloseF(f) \/ Get(f)

Timer(t) == Expire(t) \/ Callback(t) \/ CancelEvent(t)

Next ==
  \/ \E f \in Fibers : Step(f)
  \/ \E t \in timers : Timer(t)
  \/ \E f \in Fibers, d \in Fds :
       \/ Close(f, d) \/ Socket(f, d)
       \/ \E call \in Calls[f] : Begin(f, call, d) \/ Tune(f, call, d)
  \/ \E f \in Fibers : Sleep(f)
  \/ \E d \in Fds, e \in Events : Arrive(d, e) \/ Report(d, e)

Spec == Init /\ [][Next]_vars

\* The scheduler gives every runnable fiber and every queued callback its turn, and the
\* idle loop collects every timer that has expired.
FairSpec ==
  /\ Spec
  /\ \A f \in Fibers : WF_vars(Step(f))
  /\ WF_vars(\E t \in timers : Timer(t))

-----------------------------------------------------------------------------
TypeOK ==
  /\ \A f \in Fibers : op[f].call \in Ops \cup {"none", "sleep", "close", "socket", "fcntl",
                                                 "ioctl", "setsockopt"}
  /\ \A f \in Fibers : ret[f] \in {"none", "ok", "error", "timeout", "direct"}
  /\ \A d \in Fds : ctx[d] \in [in : BOOLEAN, user : BOOLEAN, timeout : BOOLEAN]
  /\ \A d \in Fds : watched[d] \subseteq Events /\ ready[d] \subseteq Events
  /\ timers \subseteq TimerType

\* No assertion of addEvent fails and FdManager::get writes inside its table.
NoFault == fault = "none"

\* A call whose timeout has been marked does not stay parked: the callback that marked
\* it has its cancelEvent still to do.
TimeoutWakes ==
  \A f \in Fibers : pc[f] = "parked" /\ cancelled[f] =>
     \E t \in timers : t.fiber = f /\ t.inst = inst[f] /\ t.stage = "marked"

\* A waiter the registry knows is parked on that event, and epoll watches it: nobody is
\* left in the registry by a close() that came between.
RegistrationLive ==
  \A d \in Fds, e \in Events : events[d][e] # None =>
     LET f == events[d][e] IN
     pc[f] = "parked" /\ op[f].fd = d /\ Event(op[f].call) = e /\ e \in watched[d]

\* A hooked call never keeps its thread in the kernel, except on a socket whose
\* O_NONBLOCK the program itself has cleared with ioctl(FIONBIO).
NeverBlocks == \A f \in Fibers : pc[f] = "blocked" => op[f].fd \in cleared

\* connect() returns 0 only for a connection that is made.
ConnectTruth ==
  \A f \in Fibers :
     pc[f] = "out" /\ op[f].call = "connect" /\ ret[f] = "ok" /\ sock[op[f].fd] = op[f].sock
       => conn[op[f].fd] = "up"

\* A call only ever touches the socket it was made for: the descriptor is not used again
\* after it was closed and given to another socket.
SameSocket == \A f \in Fibers : pc[f] = "try" => sock[op[f].fd] \in {0, op[f].sock}

\* A call with a timeout comes back, whatever the peer does, unless ioctl(FIONBIO) made
\* some call keep a thread.
TimedCallReturns ==
  \A f \in Fibers : pc[f] = "parked" /\ op[f].to
     ~> pc[f] # "parked" \/ \E g \in Fibers : pc[g] = "blocked"
=============================================================================
