------------------------------- MODULE IOManager -------------------------------
(***************************************************************************)
(* Descriptor events: the fd part of captain/iomanager.cpp.                *)
(*                                                                         *)
(* Users (fibers on any thread) register, delete and cancel events;        *)
(* pollers (idle threads) take events from epoll and trigger what is       *)
(* registered.  Each user call looks its FdContext up under m_mutex and    *)
(* then works on it under the context's own mutex, so between the two      *)
(* other calls, and the growth of the table, may come in.  A poller holds  *)
(* the context's address and the reported events from epoll_wait until it  *)
(* gets the context's mutex.                                               *)
(***************************************************************************)
EXTENDS Integers, FiniteSets

CONSTANTS
    Users,      \* the fibers that wait for events
    Pollers,    \* the threads inside IOManager::idle
    Fds,        \* the descriptors (numbers: they index the table)
    InitSize,   \* contextResize(32) of the constructor
    MayAdd,     \* <<user, fd, event>>: who waits for what
    CallKinds,  \* the calls users make besides addEvent
    Faults,     \* TRUE: the kernel may report EPOLLERR or EPOLLHUP
    MayClose,   \* TRUE: descriptors are closed behind the manager's back
    MaxCalls,   \* bound: calls of one user
    MaxGen,     \* bound: contexts allocated for one descriptor
    None

Events == {"READ", "WRITE"}
\* An FdContext object; shrinking the table and growing it again allocates
\* another one for the same descriptor.
Contexts == [fd : Fds, gen : 1 .. MaxGen]

ASSUME IOAssumption ==
    /\ IsFiniteSet(Users) /\ IsFiniteSet(Fds)
    /\ Fds \subseteq Nat /\ InitSize \in Nat /\ InitSize >= 2
    /\ MayAdd \subseteq Users \X Fds \X Events
    /\ CallKinds \subseteq {"del", "cancel", "cancelAll"}
    /\ Faults \in BOOLEAN /\ MayClose \in BOOLEAN
    /\ MaxCalls \in Nat /\ MaxGen \in Nat \ {0}
    /\ None \notin Contexts \cup Users \cup [mask : SUBSET Events, ptr : Contexts]

VARIABLES
    size,       \* m_fdContexts.size()
    table,      \* m_fdContexts: the context of each descriptor, or None
    lastGen,    \* contexts allocated so far for each descriptor
    events,     \* FdContext::events
    waiter,     \* FdContext::read and write: the fiber to schedule, or None
    m_pendingEventCount,
    reg,        \* epoll's interest list: [mask, ptr] per descriptor, or None
    isOpen,     \* the descriptor is open
    call,       \* the call a user is in, or None
    upc,        \* where it is: "out", "lookup", "grow", "op"
    fd_ctx,     \* the context it looked up
    got,        \* what a poller took from epoll_wait, or None
    waits,      \* the user has registered itself and was not resumed yet
    calls,      \* calls each user has made
    aborted     \* a CAPTAIN_ASSERT failed

tableVars == <<size, table, lastGen>>
ctxVars == <<events, waiter, m_pendingEventCount>>
kernelVars == <<reg, isOpen>>
userVars == <<call, upc, fd_ctx, calls>>
vars == <<tableVars, ctxVars, kernelVars, userVars, got, waits, aborted>>

Calls == [kind : {"add", "del", "cancel", "cancelAll"}, fd : Fds, event : Events]
Reports == [ptr : Contexts, real : SUBSET Events]

TypeOK ==
    /\ size \in Nat
    /\ table \in [Fds -> Contexts \cup {None}]
    /\ lastGen \in [Fds -> 0 .. MaxGen]
    /\ events \in [Contexts -> SUBSET Events]
    /\ waiter \in [Contexts -> [Events -> Users \cup {None}]]
    /\ m_pendingEventCount \in Nat
    /\ reg \in [Fds -> [mask : SUBSET Events, ptr : Contexts] \cup {None}]
    /\ isOpen \in [Fds -> BOOLEAN]
    /\ call \in [Users -> Calls \cup {None}]
    /\ upc \in [Users -> {"out", "lookup", "grow", "op"}]
    /\ fd_ctx \in [Users -> Contexts \cup {None}]
    /\ got \in [Pollers -> Reports \cup {None}]
    /\ waits \in [Users -> BOOLEAN]
    /\ calls \in [Users -> Nat]
    /\ aborted \in BOOLEAN

\* The constructor: contextResize(InitSize).
Init ==
    /\ size = InitSize
    /\ table = [fd \in Fds |-> IF fd < InitSize THEN [fd |-> fd, gen |-> 1] ELSE None]
    /\ lastGen = [fd \in Fds |-> IF fd < InitSize THEN 1 ELSE 0]
    /\ events = [c \in Contexts |-> {}]
    /\ waiter = [c \in Contexts |-> [e \in Events |-> None]]
    /\ m_pendingEventCount = 0
    /\ reg = [fd \in Fds |-> None]
    /\ isOpen = [fd \in Fds |-> TRUE]
    /\ call = [u \in Users |-> None]
    /\ upc = [u \in Users |-> "out"]
    /\ fd_ctx = [u \in Users |-> None]
    /\ got = [p \in Pollers |-> None]
    /\ waits = [u \in Users |-> FALSE]
    /\ calls = [u \in Users |-> 0]
    /\ aborted = FALSE

-----------------------------------------------------------------------------
(***************************************************************************)
(* epoll_ctl: replace the interest in fd by mask.  The code asks for ADD   *)
(* when it believes nothing is registered, for DEL when nothing is left    *)
(* and for MOD otherwise; the kernel refuses an ADD of a registered        *)
(* descriptor, and a MOD or DEL of one that is not.                        *)
(***************************************************************************)
CtlOk(op, fd) == isOpen[fd] /\ (reg[fd] = None <=> op = "ADD")

epoll_ctl(fd, mask, c) ==
    reg' = [reg EXCEPT ![fd] = IF mask = {} THEN None ELSE [mask |-> mask, ptr |-> c]]

\* Mutant: the caller counts one event when it triggers several.
triggerEventCountsOne(c, es) ==
    /\ events' = [events EXCEPT ![c] = @ \ es]
    /\ waiter' = [waiter EXCEPT ![c] = [e \in Events |-> IF e \in es THEN None ELSE @[e]]]
    /\ waits' = [u \in Users |-> waits[u] /\ \A e \in es : waiter[c][e] # u]
    /\ m_pendingEventCount' = m_pendingEventCount - 1

\* Mutant: the fiber is copied into the scheduler's list and stays in the
\* context.
triggerEventCopies(c, es) ==
    /\ events' = [events EXCEPT ![c] = @ \ es]
    /\ waits' = [u \in Users |-> waits[u] /\ \A e \in es : waiter[c][e] # u]
    /\ m_pendingEventCount' = m_pendingEventCount - Cardinality(es)
    /\ UNCHANGED waiter

\* FdContext::triggerEvent for each event of es: the event leaves the context,
\* its fiber is moved into the scheduler's list.
triggerEvent(c, es) ==
    /\ events' = [events EXCEPT ![c] = @ \ es]
    /\ waiter' = [waiter EXCEPT ![c] = [e \in Events |-> IF e \in es THEN None ELSE @[e]]]
    /\ waits' = [u \in Users |-> waits[u] /\ \A e \in es : waiter[c][e] # u]
    /\ m_pendingEventCount' = m_pendingEventCount - Cardinality(es)

-----------------------------------------------------------------------------
(***************************************************************************)
(* A user makes a call.  A fiber waits for one event at a time, and only   *)
(* one fiber waits for an event of a descriptor (MayAdd).                  *)
(***************************************************************************)
Call(u) ==
    /\ ~ aborted
    /\ upc[u] = "out"
    /\ calls[u] < MaxCalls
    /\ \E c \in Calls :
          /\ \/ c.kind = "add" /\ ~ waits[u] /\ <<u, c.fd, c.event>> \in MayAdd
             \/ c.kind \in CallKinds
          /\ c.kind = "cancelAll" => c.event = "READ"  \* it has no such argument
          /\ call' = [call EXCEPT ![u] = c]
    /\ calls' = [calls EXCEPT ![u] = @ + 1]
    /\ upc' = [upc EXCEPT ![u] = "lookup"]
    /\ UNCHANGED <<tableVars, ctxVars, kernelVars, fd_ctx, got, waits, aborted>>

Return(u) ==
    /\ upc' = [upc EXCEPT ![u] = "out"]
    /\ call' = [call EXCEPT ![u] = None]
    /\ fd_ctx' = [fd_ctx EXCEPT ![u] = None]

\* The section under m_mutex's read lock.
Lookup(u) ==
    LET fd == call[u].fd IN
    /\ ~ aborted
    /\ upc[u] = "lookup"
    /\ IF size > fd
       THEN /\ fd_ctx' = [fd_ctx EXCEPT ![u] = table[fd]]
            /\ upc' = [upc EXCEPT ![u] = "op"]
            /\ UNCHANGED call
       ELSE IF call[u].kind = "add"
            THEN /\ upc' = [upc EXCEPT ![u] = "grow"]
                 /\ UNCHANGED <<call, fd_ctx>>
            ELSE Return(u)
    /\ UNCHANGED <<tableVars, ctxVars, kernelVars, calls, got, waits, aborted>>

\* Mutant: every place gets a new context.
FreshAll(n) == {fd \in Fds : fd < n}

\* contextResize: what lies beyond the new size is forgotten, new places get
\* new contexts.
Fresh(n) == {fd \in Fds : fd < n /\ fd >= size}

contextResize(n) ==
    /\ size' = n
    /\ lastGen' = [fd \in Fds |-> IF fd \in Fresh(n) THEN lastGen[fd] + 1 ELSE lastGen[fd]]
    /\ table' = [fd \in Fds |->
                    CASE fd \in Fresh(n) -> [fd |-> fd, gen |-> lastGen[fd] + 1]
                      [] fd >= n -> None
                      [] OTHER -> table[fd]]

\* addEvent's section under the write lock, entered on the size it saw before.
Grow(u) ==
    LET fd == call[u].fd
        n == (fd * 3) \div 2
    IN
    /\ ~ aborted
    /\ upc[u] = "grow"
    /\ \A g \in Fresh(n) : lastGen[g] < MaxGen
    /\ contextResize(n)
    /\ fd_ctx' = [fd_ctx EXCEPT ![u] = table'[fd]]
    /\ upc' = [upc EXCEPT ![u] = "op"]
    /\ UNCHANGED <<ctxVars, kernelVars, call, calls, got, waits, aborted>>

-----------------------------------------------------------------------------
(***************************************************************************)
(* The calls proper, under the context's mutex.  A refused epoll_ctl makes *)
(* each of them return without an effect.                                  *)
(***************************************************************************)
In(u, kind) == ~ aborted /\ upc[u] = "op" /\ call[u].kind = kind

addEvent(u) ==
    LET c == fd_ctx[u]
        e == call[u].event
        op == IF events[c] = {} THEN "ADD" ELSE "MOD"
    IN
    /\ In(u, "add")
    /\ aborted' = (e \in events[c] \/ (CtlOk(op, c.fd) /\ waiter[c][e] # None))
    /\ IF CtlOk(op, c.fd)
       THEN /\ epoll_ctl(c.fd, events[c] \cup {e}, c)
            /\ m_pendingEventCount' = m_pendingEventCount + 1
            /\ events' = [events EXCEPT ![c] = @ \cup {e}]
            /\ waiter' = [waiter EXCEPT ![c][e] = u]
            /\ waits' = [waits EXCEPT ![u] = TRUE]
       ELSE UNCHANGED <<reg, ctxVars, waits>>
    /\ Return(u)
    /\ UNCHANGED <<tableVars, isOpen, calls, got>>

\* The operation delEvent and cancelEvent ask for when es are left.
OpFor(es) == IF es = {} THEN "DEL" ELSE "MOD"

\* The event is taken out and its fiber is not resumed.
delEvent(u) ==
    LET c == fd_ctx[u]
        e == call[u].event
        new_events == events[c] \ {e}
    IN
    /\ In(u, "del")
    /\ IF e \in events[c] /\ CtlOk(OpFor(new_events), c.fd)
       THEN /\ epoll_ctl(c.fd, new_events, c)
            /\ m_pendingEventCount' = m_pendingEventCount - 1
            /\ events' = [events EXCEPT ![c] = new_events]
            /\ waiter' = [waiter EXCEPT ![c][e] = None]
            /\ waits' = [w \in Users |-> waits[w] /\ waiter[c][e] # w]
       ELSE UNCHANGED <<reg, ctxVars, waits>>
    /\ Return(u)
    /\ UNCHANGED <<tableVars, isOpen, calls, got, aborted>>

cancelEvent(u) ==
    LET c == fd_ctx[u]
        e == call[u].event
        new_events == events[c] \ {e}
    IN
    /\ In(u, "cancel")
    /\ IF e \in events[c] /\ CtlOk(OpFor(new_events), c.fd)
       THEN /\ epoll_ctl(c.fd, new_events, c)
            /\ triggerEvent(c, {e})
       ELSE UNCHANGED <<reg, ctxVars, waits>>
    /\ Return(u)
    /\ UNCHANGED <<tableVars, isOpen, calls, got, aborted>>

cancelAll(u) ==
    LET c == fd_ctx[u] IN
    /\ In(u, "cancelAll")
    /\ IF events[c] # {} /\ CtlOk("DEL", c.fd)
       THEN /\ epoll_ctl(c.fd, {}, c)
            /\ triggerEvent(c, events[c])
       ELSE UNCHANGED <<reg, ctxVars, waits>>
    /\ Return(u)
    /\ UNCHANGED <<tableVars, isOpen, calls, got, aborted>>

-----------------------------------------------------------------------------
(***************************************************************************)
(* The pollers.  epoll_wait reports some of the events asked for, and, if  *)
(* Faults, an error or hang-up, which idle() turns into both events.       *)
(***************************************************************************)
epoll_wait(p) ==
    /\ ~ aborted
    /\ got[p] = None
    /\ \E fd \in Fds :
          /\ reg[fd] # None
          /\ \E real \in (SUBSET reg[fd].mask \ {{}}) \cup (IF Faults THEN {Events} ELSE {}) :
                got' = [got EXCEPT ![p] = [ptr |-> reg[fd].ptr, real |-> real]]
    /\ UNCHANGED <<tableVars, ctxVars, kernelVars, userVars, waits, aborted>>

\* Mutant: idle triggers without telling epoll.
idleKeepsInterest(p) ==
    LET c == got[p].ptr
        real == got[p].real
    IN
    /\ ~ aborted
    /\ got[p] # None
    /\ IF events[c] \cap real # {}
       THEN /\ triggerEvent(c, events[c] \cap real)
            /\ aborted' = ~ (real \subseteq events[c])
       ELSE UNCHANGED <<ctxVars, waits, aborted>>
    /\ got' = [got EXCEPT ![p] = None]
    /\ UNCHANGED <<tableVars, kernelVars, userVars>>

\* The body of idle()'s loop over the events, under the context's mutex.  It
\* triggers every reported event as soon as one of them is registered, so that
\* triggerEvent's assertion fails for a reported event that is not.
idle(p) ==
    LET c == got[p].ptr
        real == got[p].real
        left_events == events[c] \ real
    IN
    /\ ~ aborted
    /\ got[p] # None
    /\ IF events[c] \cap real # {} /\ CtlOk(OpFor(left_events), c.fd)
       THEN /\ epoll_ctl(c.fd, left_events, c)
            /\ triggerEvent(c, events[c] \cap real)
            /\ aborted' = ~ (real \subseteq events[c])
       ELSE UNCHANGED <<reg, ctxVars, waits, aborted>>
    /\ got' = [got EXCEPT ![p] = None]
    /\ UNCHANGED <<tableVars, isOpen, userVars>>

\* A descriptor is closed: the kernel forgets the interest in it.
Close(fd) ==
    /\ ~ aborted
    /\ MayClose
    /\ isOpen[fd]
    /\ isOpen' = [isOpen EXCEPT ![fd] = FALSE]
    /\ reg' = [reg EXCEPT ![fd] = None]
    /\ UNCHANGED <<tableVars, ctxVars, userVars, got, waits, aborted>>

-----------------------------------------------------------------------------
Next ==
    \/ \E u \in Users : Call(u) \/ Lookup(u) \/ Grow(u)
    \/ \E u \in Users : addEvent(u) \/ delEvent(u) \/ cancelEvent(u) \/ cancelAll(u)
    \/ \E p \in Pollers : epoll_wait(p) \/ idle(p)
    \/ \E fd \in Fds : Close(fd)

Spec == Init /\ [][Next]_vars

-----------------------------------------------------------------------------
(***************************************************************************)
(* Properties.                                                             *)
(***************************************************************************)

\* No CAPTAIN_ASSERT of addEvent() or triggerEvent() fails.
NoAbort == ~ aborted

\* m_pendingEventCount, which keeps stopping() from being true, is the number
\* of registered events of all contexts.
PendingExact ==
    ~ aborted =>
        m_pendingEventCount =
            Cardinality({ce \in Contexts \X Events : ce[2] \in events[ce[1]]})

\* A fiber that has registered itself is in exactly one context, under an event
\* that is registered there, and a fiber that was resumed or whose event was
\* deleted is in none: nobody is forgotten and nobody is resumed twice.
WaiterInOneContext ==
    ~ aborted =>
        /\ \A c \in Contexts, e \in Events : waiter[c][e] # None <=> e \in events[c]
        /\ \A u \in Users :
              Cardinality({ce \in Contexts \X Events : waiter[ce[1]][ce[2]] = u})
                  = IF waits[u] THEN 1 ELSE 0

\* What the contexts say is registered is what epoll watches, for as long as
\* the descriptor is open, whether the table still has the context or not: every
\* waiting fiber can be woken by the kernel, the kernel reports nothing else, and
\* of the contexts of one open descriptor only one has registered events.
WatchedIsRegistered ==
    ~ aborted =>
        /\ \A c \in Contexts :
              isOpen[c.fd] /\ events[c] # {} => reg[c.fd] = [mask |-> events[c], ptr |-> c]
        /\ \A fd \in Fds :
              reg[fd] # None => \E c \in Contexts :
                  c.fd = fd /\ events[c] # {} /\ reg[fd] = [mask |-> events[c], ptr |-> c]

\* The table never loses a context that has registered events: delEvent,
\* cancelEvent and cancelAll find what addEvent registered.
NoContextLost ==
    \A c \in Contexts : events[c] # {} => table[c.fd] = c

=============================================================================
