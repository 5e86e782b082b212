---------------------------- MODULE IOManagerProofs ----------------------------
(***************************************************************************)
(* Theorems about IOManager, for any fibers, threads and descriptors, with *)
(* or without error reports and descriptors closed behind its back.        *)
(***************************************************************************)
EXTENDS IOManager, FiniteSetTheorems, FunctionTheorems, TLAPS

-----------------------------------------------------------------------------
(***************************************************************************)
(* The registered events, counted.                                         *)
(***************************************************************************)
Registered == {ce \in Contexts \X Events : ce[2] \in events[ce[1]]}

LEMMA EventsFinite == IsFiniteSet(Events)
<1>1. Events = {"READ"} \cup {"WRITE"}
  BY DEF Events
<1>2. IsFiniteSet({"READ"}) /\ IsFiniteSet({"WRITE"})
  BY FS_Singleton
<1>3. QED
  BY <1>1, <1>2, FS_Union

LEMMA ContextsFinite == IsFiniteSet(Contexts) /\ IsFiniteSet(Contexts \X Events)
<1> DEFINE P == Fds \X (1 .. MaxGen)
           f == [x \in P |-> [fd |-> x[1], gen |-> x[2]]]
<1>1. IsFiniteSet(P)
  <2>1. IsFiniteSet(1 .. MaxGen)
    BY IOAssumption, FS_Interval
  <2>2. QED
    BY <2>1, IOAssumption, FS_Product
<1>2. f \in [P -> Contexts]
  BY DEF Contexts
<1>3. \A c \in Contexts : \E x \in P : f[x] = c
  <2> SUFFICES ASSUME NEW c \in Contexts PROVE \E x \in P : f[x] = c
    OBVIOUS
  <2>1. <<c.fd, c.gen>> \in P /\ c = [fd |-> c.fd, gen |-> c.gen]
    BY DEF Contexts
  <2>2. f[<<c.fd, c.gen>>] = c
    BY <2>1
  <2>3. QED
    BY <2>1, <2>2
<1>4. f \in Surjection(P, Contexts)
  BY <1>2, <1>3 DEF Surjection
<1>5. IsFiniteSet(Contexts)
  BY <1>1, <1>4, FS_Surjection
<1>6. QED
  BY <1>5, EventsFinite, FS_Product

\* Adding one event to a context that does not have it.
LEMMA RegisterOne ==
  ASSUME events \in [Contexts -> SUBSET Events], NEW c \in Contexts,
         NEW e \in Events, e \notin events[c],
         events' = [events EXCEPT ![c] = @ \cup {e}]
  PROVE  Cardinality(Registered') = Cardinality(Registered) + 1
<1>1. IsFiniteSet(Registered)
  BY ContextsFinite, FS_Subset DEF Registered
<1>2. Registered' = Registered \cup {<<c, e>>}
  BY DEF Registered
<1>3. <<c, e>> \notin Registered
  BY DEF Registered
<1>4. QED
  BY <1>1, <1>2, <1>3, FS_AddElement

\* Taking several events out of a context that has them.
LEMMA UnregisterSome ==
  ASSUME events \in [Contexts -> SUBSET Events], NEW c \in Contexts,
         NEW es \in SUBSET events[c],
         events' = [events EXCEPT ![c] = @ \ es]
  PROVE  /\ Cardinality(Registered') = Cardinality(Registered) - Cardinality(es)
         /\ Cardinality(Registered') \in Nat
<1>1. IsFiniteSet(Registered)
  BY ContextsFinite, FS_Subset DEF Registered
<1>2. Registered' = Registered \ ({c} \X es)
  BY DEF Registered
<1>3. Registered \cap ({c} \X es) = {c} \X es
  BY DEF Registered
<1>4. es \in SUBSET Events
  OBVIOUS
<1>5. IsFiniteSet(es)
  BY <1>4, EventsFinite, FS_Subset
<1>6. Cardinality({c}) = 1 /\ IsFiniteSet({c}) /\ Cardinality(es) \in Nat
  BY <1>5, FS_Singleton, FS_CardinalityType
<1>7. Cardinality({c} \X es) = Cardinality(es)
  BY <1>5, <1>6, FS_Product
<1>8. /\ IsFiniteSet(Registered \ ({c} \X es))
      /\ Cardinality(Registered \ ({c} \X es)) =
            Cardinality(Registered) - Cardinality(Registered \cap ({c} \X es))
  BY <1>1, FS_Difference, Zenon
<1>9. Cardinality(Registered') \in Nat
  BY <1>2, <1>8, FS_CardinalityType
<1>10. QED
  BY <1>2, <1>3, <1>7, <1>8, <1>9

-----------------------------------------------------------------------------
(***************************************************************************)
(* Types, and what a call knows.  The table holds a context for exactly    *)
(* the descriptors below its size; it never shrinks below two, so that the *)
(* size addEvent grows to, 3/2 of a descriptor it did not find, lies above *)
(* that descriptor.                                                        *)
(***************************************************************************)
TableOK ==
    /\ size >= 2
    /\ \A fd \in Fds : /\ fd < size <=> table[fd] # None
                       /\ table[fd] # None => table[fd].fd = fd

CallOK ==
    \A u \in Users :
        /\ upc[u] # "out" => call[u] \in Calls
        /\ upc[u] = "grow" => call[u].fd >= 2 /\ call[u].kind = "add"
        /\ upc[u] = "op" => fd_ctx[u] \in Contexts /\ fd_ctx[u].fd = call[u].fd

Counted == ~ aborted => m_pendingEventCount = Cardinality(Registered)

IOInv == TypeOK /\ TableOK /\ CallOK /\ Counted

\* The bundles of variables are always expanded.
USE DEF tableVars, ctxVars, kernelVars, userVars

LEMMA IOInit == Init => IOInv
<1> SUFFICES ASSUME Init PROVE IOInv
  OBVIOUS
<1>1. \A fd \in Fds : [fd |-> fd, gen |-> 1] \in Contexts
  BY IOAssumption DEF Contexts
<1>2. TypeOK
  <2>1. size \in Nat /\ m_pendingEventCount \in Nat /\ lastGen \in [Fds -> 0 .. MaxGen]
    BY IOAssumption DEF Init
  <2>2. table \in [Fds -> Contexts \cup {None}]
    BY <1>1 DEF Init
  <2>3. QED
    BY <2>1, <2>2 DEF Init, TypeOK
<1>3. TableOK
  BY <1>1, IOAssumption DEF Init, TableOK
<1>4. CallOK
  BY DEF Init, CallOK
<1>5. Counted
  <2>1. Registered = {}
    BY DEF Init, Registered
  <2>2. QED
    BY <2>1, FS_EmptySet DEF Init, Counted
<1>6. QED
  BY <1>2, <1>3, <1>4, <1>5 DEF IOInv

-----------------------------------------------------------------------------
(***************************************************************************)
(* What delEvent, cancelEvent, cancelAll and idle have in common: events   *)
(* that are registered leave a context together with their fibers, and     *)
(* epoll is told what is left.                                             *)
(***************************************************************************)
Dropped(c, es) ==
    /\ c \in Contexts /\ es \in SUBSET events[c] /\ es # {}
    /\ events' = [events EXCEPT ![c] = @ \ es]
    /\ waiter' = [waiter EXCEPT ![c] = [e \in Events |-> IF e \in es THEN None ELSE @[e]]]
    /\ waits' = [u \in Users |-> waits[u] /\ \A e \in es : waiter[c][e] # u]
    /\ m_pendingEventCount' = m_pendingEventCount - Cardinality(es)
    /\ isOpen[c.fd] /\ reg[c.fd] # None
    /\ epoll_ctl(c.fd, events[c] \ es, c)

Dropping(c) ==
    \/ UNCHANGED <<reg, ctxVars, waits>>
    \/ \E es \in SUBSET Events : Dropped(c, es)

LEMMA UserDrops ==
  ASSUME IOInv, NEW u \in Users, delEvent(u) \/ cancelEvent(u) \/ cancelAll(u)
  PROVE  /\ fd_ctx[u] \in Contexts /\ upc[u] = "op"
         /\ Dropping(fd_ctx[u])
         /\ Return(u)
         /\ UNCHANGED <<tableVars, isOpen, calls, got, aborted>>
<1> DEFINE c == fd_ctx[u]
           e == call[u].event
<1>1. upc[u] = "op" /\ c \in Contexts /\ e \in Events /\ events[c] \in SUBSET Events
  BY DEF delEvent, cancelEvent, cancelAll, In, IOInv, TypeOK, CallOK, Calls
<1>2. CASE delEvent(u)
  <2>1. CASE e \in events[c] /\ CtlOk(OpFor(events[c] \ {e}), c.fd)
    <3>1. {e} \in SUBSET events[c] /\ Cardinality({e}) = 1
      BY <2>1, FS_Singleton
    <3>2. waiter[c] \in [Events -> Users \cup {None}]
      BY <1>1 DEF IOInv, TypeOK
    <3>3. waiter' = [waiter EXCEPT ![c] = [d \in Events |-> IF d \in {e} THEN None ELSE @[d]]]
      BY <1>1, <1>2, <2>1, <3>2 DEF delEvent, IOInv, TypeOK
    <3>4. waits' = [w \in Users |-> waits[w] /\ \A d \in {e} : waiter[c][d] # w]
      BY <1>2, <2>1 DEF delEvent
    <3>5. Dropped(c, {e})
      BY <1>1, <1>2, <2>1, <3>1, <3>3, <3>4 DEF delEvent, Dropped, CtlOk, OpFor
    <3>6. QED
      BY <1>1, <1>2, <3>1, <3>5 DEF delEvent, Dropping
  <2>2. CASE ~ (e \in events[c] /\ CtlOk(OpFor(events[c] \ {e}), c.fd))
    BY <1>1, <1>2, <2>2 DEF delEvent, Dropping
  <2>3. QED
    BY <2>1, <2>2
<1>3. CASE cancelEvent(u)
  <2>1. CASE e \in events[c] /\ CtlOk(OpFor(events[c] \ {e}), c.fd)
    <3>1. {e} \in SUBSET events[c]
      BY <2>1
    <3>2. Dropped(c, {e})
      BY <1>1, <1>3, <2>1, <3>1 DEF cancelEvent, triggerEvent, Dropped, CtlOk, OpFor
    <3>3. QED
      BY <1>1, <1>3, <3>1, <3>2 DEF cancelEvent, Dropping
  <2>2. CASE ~ (e \in events[c] /\ CtlOk(OpFor(events[c] \ {e}), c.fd))
    BY <1>1, <1>3, <2>2 DEF cancelEvent, Dropping
  <2>3. QED
    BY <2>1, <2>2
<1>4. CASE cancelAll(u)
  <2>1. CASE events[c] # {} /\ CtlOk("DEL", c.fd)
    <3>1. events[c] \in SUBSET events[c] /\ events[c] \ events[c] = {}
      OBVIOUS
    <3>2. Dropped(c, events[c])
      BY <1>1, <1>4, <2>1, <3>1 DEF cancelAll, triggerEvent, Dropped, CtlOk
    <3>3. QED
      BY <1>1, <1>4, <3>2 DEF cancelAll, Dropping
  <2>2. CASE ~ (events[c] # {} /\ CtlOk("DEL", c.fd))
    BY <1>1, <1>4, <2>2 DEF cancelAll, Dropping
  <2>3. QED
    BY <2>1, <2>2
<1>5. QED
  BY <1>2, <1>3, <1>4

LEMMA PollerDrops ==
  ASSUME IOInv, NEW p \in Pollers, idle(p)
  PROVE  /\ got[p] # None /\ got[p].ptr \in Contexts
         /\ Dropping(got[p].ptr)
         /\ got' = [got EXCEPT ![p] = None]
         /\ UNCHANGED <<tableVars, isOpen, userVars>>
         /\ aborted' \in BOOLEAN
<1> DEFINE c == got[p].ptr
           real == got[p].real
<1>1. got[p] # None /\ c \in Contexts /\ events[c] \in SUBSET Events
  BY DEF idle, IOInv, TypeOK, Reports
<1>2. aborted' \in BOOLEAN
  BY DEF idle, IOInv, TypeOK
<1>3. CASE events[c] \cap real # {} /\ CtlOk(OpFor(events[c] \ real), c.fd)
  <2>1. /\ events[c] \cap real \in SUBSET events[c]
        /\ events[c] \cap real \in SUBSET Events
        /\ events[c] \ (events[c] \cap real) = events[c] \ real
    BY <1>1
  <2>2. /\ epoll_ctl(c.fd, events[c] \ real, c)
        /\ triggerEvent(c, events[c] \cap real)
    BY <1>3 DEF idle
  <2>3. isOpen[c.fd] /\ reg[c.fd] # None
    BY <1>3 DEF CtlOk, OpFor
  <2>4. Dropped(c, events[c] \cap real)
    <3> DEFINE es == events[c] \cap real
    <3>1. es # {} /\ es \in SUBSET events[c] /\ epoll_ctl(c.fd, events[c] \ es, c)
      BY <1>3, <2>1, <2>2
    <3>2. triggerEvent(c, es)
      BY <2>2
    <3> HIDE DEF es
    <3>3. Dropped(c, es)
      BY <1>1, <2>3, <3>1, <3>2 DEF triggerEvent, Dropped
    <3>4. QED
      BY <3>3 DEF es
  <2>5. QED
    BY <1>1, <1>2, <2>1, <2>4 DEF idle, Dropping
<1>4. CASE ~ (events[c] \cap real # {} /\ CtlOk(OpFor(events[c] \ real), c.fd))
  BY <1>1, <1>2, <1>4 DEF idle, Dropping
<1>5. QED
  BY <1>3, <1>4

-----------------------------------------------------------------------------
(***************************************************************************)
(* Every step preserves IOInv.                                             *)
(***************************************************************************)
CtxTypes ==
    /\ events \in [Contexts -> SUBSET Events]
    /\ waiter \in [Contexts -> [Events -> Users \cup {None}]]
    /\ m_pendingEventCount \in Nat
    /\ reg \in [Fds -> [mask : SUBSET Events, ptr : Contexts] \cup {None}]
    /\ waits \in [Users -> BOOLEAN]

LEMMA CtlType ==
  ASSUME reg \in [Fds -> [mask : SUBSET Events, ptr : Contexts] \cup {None}],
         NEW c \in Contexts, NEW m \in SUBSET Events, epoll_ctl(c.fd, m, c)
  PROVE  reg' \in [Fds -> [mask : SUBSET Events, ptr : Contexts] \cup {None}]
<1>1. c.fd \in Fds /\ [mask |-> m, ptr |-> c] \in [mask : SUBSET Events, ptr : Contexts]
  BY DEF Contexts
<1>2. QED
  BY <1>1 DEF epoll_ctl

LEMMA DropCounted ==
  ASSUME IOInv, ~ aborted, NEW c \in Contexts, Dropping(c)
  PROVE  CtxTypes' /\ m_pendingEventCount' = Cardinality(Registered')
<1>0. /\ CtxTypes
      /\ m_pendingEventCount = Cardinality(Registered)
  BY DEF IOInv, TypeOK, CtxTypes, Counted
<1>1. CASE UNCHANGED <<reg, ctxVars, waits>>
  BY <1>0, <1>1 DEF CtxTypes, Registered
<1>2. ASSUME NEW es \in SUBSET Events, Dropped(c, es)
      PROVE  CtxTypes' /\ m_pendingEventCount' = Cardinality(Registered')
  <2>1. /\ Cardinality(Registered') = Cardinality(Registered) - Cardinality(es)
        /\ Cardinality(Registered') \in Nat
    BY <1>0, <1>2, UnregisterSome DEF CtxTypes, Dropped
  <2>2. m_pendingEventCount' = Cardinality(Registered')
    BY <1>0, <1>2, <2>1 DEF Dropped
  <2>3. events[c] \ es \in SUBSET Events
    BY <1>0 DEF CtxTypes
  <2>4. reg' \in [Fds -> [mask : SUBSET Events, ptr : Contexts] \cup {None}]
    BY <1>0, <1>2, <2>3, CtlType DEF CtxTypes, Dropped
  <2>5. events' \in [Contexts -> SUBSET Events]
    BY <1>0, <1>2, <2>3 DEF CtxTypes, Dropped
  <2>6. waiter' \in [Contexts -> [Events -> Users \cup {None}]]
    BY <1>0, <1>2 DEF CtxTypes, Dropped
  <2>7. waits' \in [Users -> BOOLEAN]
    BY <1>2 DEF Dropped
  <2>8. QED
    BY <2>1, <2>2, <2>4, <2>5, <2>6, <2>7 DEF CtxTypes
<1>3. QED
  BY <1>1, <1>2 DEF Dropping

\* A user that returns from its call knows nothing of a context.
LEMMA ReturnOK ==
  ASSUME IOInv, NEW u \in Users, Return(u)
  PROVE  /\ CallOK'
         /\ call' \in [Users -> Calls \cup {None}]
         /\ upc' \in [Users -> {"out", "lookup", "grow", "op"}]
         /\ fd_ctx' \in [Users -> Contexts \cup {None}]
BY DEF IOInv, TypeOK, CallOK, Return

LEMMA IODrop ==
  ASSUME IOInv, NEW u \in Users, delEvent(u) \/ cancelEvent(u) \/ cancelAll(u)
  PROVE  IOInv'
<1>0. ~ aborted
  BY DEF delEvent, cancelEvent, cancelAll, In
<1>1. /\ fd_ctx[u] \in Contexts /\ Dropping(fd_ctx[u]) /\ Return(u)
      /\ UNCHANGED <<tableVars, isOpen, calls, got, aborted>>
  BY UserDrops
<1>2. CtxTypes' /\ m_pendingEventCount' = Cardinality(Registered')
  BY <1>0, <1>1, DropCounted
<1>3. TypeOK'
  BY <1>1, <1>2, ReturnOK DEF IOInv, TypeOK, CtxTypes
<1>4. QED
  BY <1>1, <1>2, <1>3, ReturnOK DEF IOInv, TableOK, Counted

LEMMA IOIdle ==
  ASSUME IOInv, NEW p \in Pollers, idle(p)
  PROVE  IOInv'
<1>0. ~ aborted
  BY DEF idle
<1>1. /\ got[p].ptr \in Contexts /\ Dropping(got[p].ptr)
      /\ got' = [got EXCEPT ![p] = None]
      /\ UNCHANGED <<tableVars, isOpen, userVars>> /\ aborted' \in BOOLEAN
  BY PollerDrops
<1>2. CtxTypes' /\ m_pendingEventCount' = Cardinality(Registered')
  BY <1>0, <1>1, DropCounted
<1>3. TypeOK'
  BY <1>1, <1>2 DEF IOInv, TypeOK, CtxTypes
<1>4. QED
  BY <1>1, <1>2, <1>3 DEF IOInv, TableOK, CallOK, Counted

LEMMA IOAdd ==
  ASSUME IOInv, NEW u \in Users, addEvent(u)
  PROVE  IOInv'
<1> DEFINE c == fd_ctx[u]
           e == call[u].event
           op == IF events[c] = {} THEN "ADD" ELSE "MOD"
<1>0. /\ c \in Contexts /\ e \in Events /\ ~ aborted /\ CtxTypes
      /\ m_pendingEventCount = Cardinality(Registered)
  BY DEF addEvent, In, IOInv, TypeOK, CallOK, Calls, CtxTypes, Counted
<1>1. /\ Return(u) /\ UNCHANGED <<tableVars, isOpen, calls, got>>
      /\ aborted' = (e \in events[c] \/ (CtlOk(op, c.fd) /\ waiter[c][e] # None))
  BY DEF addEvent
<1>2. CtxTypes' /\ (~ aborted' => m_pendingEventCount' = Cardinality(Registered'))
  <2>1. CASE CtlOk(op, c.fd)
    <3>1. /\ epoll_ctl(c.fd, events[c] \cup {e}, c)
          /\ m_pendingEventCount' = m_pendingEventCount + 1
          /\ events' = [events EXCEPT ![c] = @ \cup {e}]
          /\ waiter' = [waiter EXCEPT ![c][e] = u]
          /\ waits' = [waits EXCEPT ![u] = TRUE]
      BY <2>1 DEF addEvent
    <3>2. events[c] \cup {e} \in SUBSET Events
      BY <1>0 DEF CtxTypes
    <3>3. reg' \in [Fds -> [mask : SUBSET Events, ptr : Contexts] \cup {None}]
      BY <1>0, <3>1, <3>2, CtlType DEF CtxTypes
    <3>4. e \notin events[c] => Cardinality(Registered') = Cardinality(Registered) + 1
      BY <1>0, <3>1, RegisterOne DEF CtxTypes
    <3>5. CtxTypes'
      BY <1>0, <3>1, <3>2, <3>3 DEF CtxTypes
    <3>6. QED
      BY <1>0, <1>1, <3>1, <3>4, <3>5
  <2>2. CASE ~ CtlOk(op, c.fd)
    <3>1. UNCHANGED <<reg, ctxVars, waits>>
      BY <2>2 DEF addEvent
    <3>2. QED
      BY <1>0, <3>1 DEF CtxTypes, Registered
  <2>3. QED
    BY <2>1, <2>2
<1>3. TypeOK'
  BY <1>1, <1>2, ReturnOK DEF IOInv, TypeOK, CtxTypes
<1>4. QED
  BY <1>1, <1>2, <1>3, ReturnOK DEF IOInv, TableOK, Counted

LEMMA IOCall ==
  ASSUME IOInv, NEW u \in Users, Call(u)
  PROVE  IOInv'
<1>1. PICK c \in Calls : call' = [call EXCEPT ![u] = c]
  BY DEF Call
<1>2. TypeOK'
  BY <1>1 DEF Call, IOInv, TypeOK
<1>3. CallOK'
  BY <1>1 DEF Call, IOInv, TypeOK, CallOK
<1>4. QED
  BY <1>2, <1>3 DEF Call, IOInv, TableOK, Counted, Registered

LEMMA IOLookup ==
  ASSUME IOInv, NEW u \in Users, Lookup(u)
  PROVE  IOInv'
<1>0. call[u] \in Calls /\ call[u].fd \in Fds
  BY DEF Lookup, IOInv, CallOK, Calls
<1>1. /\ TypeOK' /\ CallOK'
  <2>1. CASE size > call[u].fd
    <3>1. /\ fd_ctx' = [fd_ctx EXCEPT ![u] = table[call[u].fd]]
          /\ upc' = [upc EXCEPT ![u] = "op"]
          /\ UNCHANGED call
      BY <2>1 DEF Lookup
    <3>2. table[call[u].fd] \in Contexts /\ table[call[u].fd].fd = call[u].fd
      BY <1>0, <2>1, IOAssumption, ZenonT(30) DEF IOInv, TypeOK, TableOK
    <3>3. QED
      BY <3>1, <3>2 DEF Lookup, IOInv, TypeOK, CallOK
  <2>2. CASE ~ (size > call[u].fd) /\ call[u].kind = "add"
    <3>1. upc' = [upc EXCEPT ![u] = "grow"] /\ UNCHANGED <<call, fd_ctx>>
      BY <2>2 DEF Lookup
    <3>2. call[u].fd >= 2
      <4>1. call[u].fd \in Nat /\ size \in Nat /\ size >= 2
        BY <1>0, IOAssumption DEF IOInv, TypeOK, TableOK
      <4>2. QED
        BY <2>2, <4>1
    <3>3. QED
      BY <1>0, <2>2, <3>1, <3>2 DEF Lookup, IOInv, TypeOK, CallOK
  <2>3. CASE ~ (size > call[u].fd) /\ call[u].kind # "add"
    <3>1. Return(u)
      BY <2>3 DEF Lookup
    <3>2. QED
      BY <3>1, ReturnOK DEF Lookup, IOInv, TypeOK
  <2>4. QED
    BY <2>1, <2>2, <2>3
<1>2. QED
  BY <1>1 DEF Lookup, IOInv, TableOK, Counted, Registered

\* addEvent grows the table beyond its descriptor, from whatever size it has by
\* then.
LEMMA GrowTable ==
  ASSUME IOInv, NEW u \in Users, Grow(u)
  PROVE  LET fd == call[u].fd
             n == (fd * 3) \div 2
         IN  /\ fd \in Fds /\ n \in Nat /\ n > fd /\ n >= 2
             /\ table' \in [Fds -> Contexts \cup {None}]
             /\ lastGen' \in [Fds -> 0 .. MaxGen]
             /\ table'[fd] \in Contexts
             /\ TableOK'
<1> DEFINE fd == call[u].fd
           n == (fd * 3) \div 2
<1>1. fd \in Fds /\ fd \in Nat /\ fd >= 2
  BY IOAssumption DEF Grow, IOInv, CallOK, Calls
<1>2. n \in Nat /\ n > fd /\ n >= 2
  BY <1>1
<1>3. contextResize(n) /\ \A g \in Fresh(n) : lastGen[g] < MaxGen
  BY DEF Grow
<1> HIDE DEF n
<1>4. /\ \A g \in Fds : lastGen[g] \in 0 .. MaxGen /\ g \in Nat
      /\ MaxGen \in Nat /\ None \notin Contexts /\ size \in Nat
  BY IOAssumption DEF IOInv, TypeOK
<1>5. \A g \in Fresh(n) : [fd |-> g, gen |-> lastGen[g] + 1] \in Contexts
  BY <1>3, <1>4 DEF Fresh, Contexts
<1>6. lastGen' \in [Fds -> 0 .. MaxGen]
  BY <1>3, <1>4 DEF contextResize, Fresh
<1>7. \A g \in Fds : /\ g \in Fresh(n) => table'[g] = [fd |-> g, gen |-> lastGen[g] + 1]
                     /\ g >= n => table'[g] = None
                     /\ g < n /\ g < size => table'[g] = table[g]
  BY <1>2, <1>3, <1>4 DEF contextResize, Fresh
<1>8. \A g \in Fds : g \in Fresh(n) \/ g >= n \/ (g < n /\ g < size)
  BY <1>2, <1>4 DEF Fresh
<1>9. \A g \in Fds : /\ g < n => table'[g] \in Contexts /\ table'[g].fd = g
                     /\ g >= n => table'[g] = None
  <2> SUFFICES ASSUME NEW g \in Fds, g < n
               PROVE  table'[g] \in Contexts /\ table'[g].fd = g
    BY <1>7
  <2>1. CASE g \in Fresh(n)
    <3>1. /\ table'[g] = [fd |-> g, gen |-> lastGen[g] + 1]
          /\ [fd |-> g, gen |-> lastGen[g] + 1] \in Contexts
      BY <1>5, <1>7, <2>1
    <3>2. QED
      BY <3>1
  <2>2. CASE g < size
    <3>1. table'[g] = table[g]
      BY <1>7, <2>2
    <3>2. table[g] \in Contexts /\ table[g].fd = g
      BY <2>2 DEF IOInv, TypeOK, TableOK
    <3>3. QED
      BY <3>1, <3>2
  <2>3. QED
    BY <1>2, <1>4, <1>8, <2>1, <2>2
<1>10. table' \in [Fds -> Contexts \cup {None}]
  <2>1. table' = [g \in Fds |-> table'[g]]
    BY <1>3 DEF contextResize
  <2>2. \A g \in Fds : table'[g] \in Contexts \cup {None}
    BY <1>2, <1>4, <1>9
  <2>3. QED
    BY <2>1, <2>2
<1>11. TableOK'
  <2>1. size' = n
    BY <1>3 DEF contextResize
  <2>2. QED
    BY <1>2, <1>4, <1>9, <2>1 DEF TableOK
<1>12. QED
  BY <1>1, <1>2, <1>6, <1>9, <1>10, <1>11 DEF n

LEMMA IOGrow ==
  ASSUME IOInv, NEW u \in Users, Grow(u)
  PROVE  IOInv'
<1> DEFINE fd == call[u].fd
           n == (fd * 3) \div 2
<1>1. /\ fd \in Fds /\ n \in Nat /\ n > fd
      /\ table' \in [Fds -> Contexts \cup {None}]
      /\ lastGen' \in [Fds -> 0 .. MaxGen]
      /\ table'[fd] \in Contexts
      /\ TableOK'
  BY GrowTable
<1>2. /\ size' = n /\ fd_ctx' = [fd_ctx EXCEPT ![u] = table'[fd]]
      /\ upc' = [upc EXCEPT ![u] = "op"]
      /\ UNCHANGED <<ctxVars, kernelVars, call, calls, got, waits, aborted>>
  BY DEF Grow, contextResize
<1> HIDE DEF n
<1>3. table'[fd].fd = fd
  BY <1>1, IOAssumption DEF TableOK
<1>4. TypeOK'
  BY <1>1, <1>2 DEF IOInv, TypeOK
<1>5. CallOK'
  BY <1>1, <1>2, <1>3 DEF Grow, IOInv, TypeOK, CallOK
<1>6. QED
  BY <1>1, <1>2, <1>4, <1>5 DEF IOInv, Counted, Registered

LEMMA IOKernel ==
  ASSUME IOInv,
         \/ \E p \in Pollers : epoll_wait(p)
         \/ \E fd \in Fds : Close(fd)
         \/ UNCHANGED vars
  PROVE  IOInv'
<1>1. ASSUME NEW p \in Pollers, epoll_wait(p) PROVE IOInv'
  <2>1. PICK fd \in Fds :
          /\ reg[fd] # None
          /\ \E real \in (SUBSET reg[fd].mask \ {{}}) \cup (IF Faults THEN {Events} ELSE {}) :
                got' = [got EXCEPT ![p] = [ptr |-> reg[fd].ptr, real |-> real]]
    BY <1>1 DEF epoll_wait
  <2>2. reg[fd].ptr \in Contexts /\ reg[fd].mask \in SUBSET Events
    BY <2>1 DEF IOInv, TypeOK
  <2>3. PICK real \in SUBSET Events :
          got' = [got EXCEPT ![p] = [ptr |-> reg[fd].ptr, real |-> real]]
    BY <2>1, <2>2
  <2>4. got' \in [Pollers -> Reports \cup {None}]
    BY <2>2, <2>3 DEF IOInv, TypeOK, Reports
  <2>5. QED
    BY <1>1, <2>4 DEF epoll_wait, IOInv, TypeOK, TableOK, CallOK, Counted, Registered
<1>2. ASSUME NEW fd \in Fds, Close(fd) PROVE IOInv'
  BY <1>2 DEF Close, IOInv, TypeOK, TableOK, CallOK, Counted, Registered
<1>3. CASE UNCHANGED vars
  BY <1>3 DEF vars, IOInv, TypeOK, TableOK, CallOK, Counted, Registered
<1>4. QED
  BY <1>1, <1>2, <1>3

LEMMA IONext == IOInv /\ [Next]_vars => IOInv'
BY IOCall, IOLookup, IOGrow, IOAdd, IODrop, IOIdle, IOKernel DEF Next

\* Every variable of the manager stays in its type: in particular
\* m_pendingEventCount never goes below zero and no call works on a context that
\* does not exist.
THEOREM TypeCorrect == Spec => []TypeOK
<1>1. IOInv => TypeOK
  BY DEF IOInv
<1>2. QED
  BY <1>1, IOInit, IONext, PTL DEF Spec

\* m_pendingEventCount, on which stopping() relies, is the number of registered
\* events, however calls, reports, error reports and closes interleave.
THEOREM PendingIsExact == Spec => []PendingExact
<1>1. IOInv => PendingExact
  BY DEF IOInv, Counted, Registered, PendingExact
<1>2. QED
  BY <1>1, IOInit, IONext, PTL DEF Spec

-----------------------------------------------------------------------------
(***************************************************************************)
(* The waiting fibers.  A fiber that waits has one seat, a fiber that does *)
(* not wait has none, and a fiber inside addEvent does not wait yet.       *)
(***************************************************************************)
Seated ==
    /\ \A c \in Contexts, e \in Events : waiter[c][e] # None <=> e \in events[c]
    /\ \A u \in Users :
          waits[u] <=> \E c \in Contexts, e \in Events : waiter[c][e] = u
    /\ \A c, d \in Contexts, e, f \in Events :
          waiter[c][e] = waiter[d][f] /\ waiter[c][e] # None => c = d /\ e = f

AddsAwake == \A u \in Users : upc[u] # "out" /\ call[u].kind = "add" => ~ waits[u]

WaitInv == (~ aborted => Seated) /\ AddsAwake

LEMMA WaitInit == Init => WaitInv
BY IOAssumption DEF Init, WaitInv, Seated, AddsAwake

LEMMA DropSeated ==
  ASSUME IOInv, Seated, NEW c \in Contexts, Dropping(c)
  PROVE  Seated' /\ \A u \in Users : waits'[u] => waits[u]
<1>0. None \notin Users /\ TypeOK
  BY IOAssumption DEF IOInv
<1>1. CASE UNCHANGED <<reg, ctxVars, waits>>
  BY <1>1 DEF Seated
<1>2. ASSUME NEW es \in SUBSET Events, Dropped(c, es)
      PROVE  Seated' /\ \A u \in Users : waits'[u] => waits[u]
  <2>1. \A d \in Contexts, e \in Events :
            waiter'[d][e] = IF d = c /\ e \in es THEN None ELSE waiter[d][e]
    BY <1>0, <1>2 DEF Dropped, TypeOK
  <2>2. \A d \in Contexts : events'[d] = IF d = c THEN events[c] \ es ELSE events[d]
    BY <1>0, <1>2 DEF Dropped, TypeOK
  <2>3. \A u \in Users : waits'[u] <=> waits[u] /\ \A e \in es : waiter[c][e] # u
    BY <1>0, <1>2 DEF Dropped, TypeOK
  <2>4. \A d \in Contexts, e \in Events : waiter'[d][e] # None <=> e \in events'[d]
    BY <2>1, <2>2 DEF Seated
  <2>5. \A d, b \in Contexts, e, f \in Events :
            waiter'[d][e] = waiter'[b][f] /\ waiter'[d][e] # None => d = b /\ e = f
    BY <2>1 DEF Seated
  <2>6. ASSUME NEW u \in Users
        PROVE  waits'[u] <=> \E d \in Contexts, e \in Events : waiter'[d][e] = u
    <3>1. CASE waits[u]
      <4>1. PICK d \in Contexts, e \in Events : waiter[d][e] = u
        BY <3>1 DEF Seated
      <4>2. CASE d = c /\ e \in es
        <5>1. ~ waits'[u]
          BY <2>3, <4>1, <4>2
        <5>2. \A b \in Contexts, f \in Events : waiter'[b][f] # u
          <6> SUFFICES ASSUME NEW b \in Contexts, NEW f \in Events, waiter'[b][f] = u
                       PROVE  FALSE
            OBVIOUS
          <6>1. waiter[b][f] = u /\ ~ (b = c /\ f \in es)
            BY <1>0, <2>1
          <6>2. b = d /\ f = e
            BY <1>0, <4>1, <6>1 DEF Seated
          <6>3. QED
            BY <4>2, <6>1, <6>2
        <5>3. QED
          BY <5>1, <5>2
      <4>3. CASE ~ (d = c /\ e \in es)
        <5>1. waiter'[d][e] = u
          BY <2>1, <4>1, <4>3
        <5>2. \A f \in es : waiter[c][f] # u
          BY <1>0, <4>1, <4>3 DEF Seated
        <5>3. QED
          BY <2>3, <3>1, <5>1, <5>2
      <4>4. QED
        BY <4>2, <4>3
    <3>2. CASE ~ waits[u]
      BY <1>0, <2>1, <2>3, <3>2 DEF Seated
    <3>3. QED
      BY <3>1, <3>2
  <2>7. QED
    BY <2>3, <2>4, <2>5, <2>6 DEF Seated
<1>3. QED
  BY <1>1, <1>2 DEF Dropping

LEMMA AddSeated ==
  ASSUME IOInv, WaitInv, NEW u \in Users, addEvent(u)
  PROVE  WaitInv'
<1> DEFINE c == fd_ctx[u]
           e == call[u].event
           op == IF events[c] = {} THEN "ADD" ELSE "MOD"
<1>0. /\ c \in Contexts /\ e \in Events /\ ~ aborted /\ Seated /\ TypeOK
      /\ ~ waits[u] /\ None \notin Users /\ Return(u)
  BY IOAssumption DEF addEvent, In, IOInv, TypeOK, CallOK, Calls, WaitInv, AddsAwake
<1>1. AddsAwake'
  <2>1. /\ upc' = [upc EXCEPT ![u] = "out"]
        /\ \A w \in Users : w # u => call'[w] = call[w]
        /\ \A w \in Users : w # u => waits'[w] = waits[w]
    BY <1>0 DEF addEvent, Return, TypeOK
  <2>2. QED
    BY <1>0, <2>1 DEF WaitInv, AddsAwake, TypeOK
<1>2. CASE CtlOk(op, c.fd) /\ ~ aborted'
  <2>0. /\ e \notin events[c] /\ waiter[c][e] = None
        /\ events' = [events EXCEPT ![c] = @ \cup {e}]
        /\ waiter' = [waiter EXCEPT ![c][e] = u]
        /\ waits' = [waits EXCEPT ![u] = TRUE]
    BY <1>2 DEF addEvent
  <2>1. \A d \in Contexts, f \in Events :
            waiter'[d][f] = IF d = c /\ f = e THEN u ELSE waiter[d][f]
    BY <1>0, <2>0 DEF TypeOK
  <2>2. \A d \in Contexts : events'[d] = IF d = c THEN events[c] \cup {e} ELSE events[d]
    BY <1>0, <2>0 DEF TypeOK
  <2>3. \A w \in Users : waits'[w] <=> w = u \/ waits[w]
    BY <1>0, <2>0 DEF TypeOK
  <2>4. \A d \in Contexts, f \in Events : waiter[d][f] # u
    BY <1>0 DEF Seated
  <2>5. \A d \in Contexts, f \in Events : waiter'[d][f] # None <=> f \in events'[d]
    BY <1>0, <2>1, <2>2 DEF Seated
  <2>6. \A d, b \in Contexts, f, g \in Events :
            waiter'[d][f] = waiter'[b][g] /\ waiter'[d][f] # None => d = b /\ f = g
    BY <1>0, <2>1, <2>4 DEF Seated
  <2>7. \A w \in Users :
            waits'[w] <=> \E d \in Contexts, f \in Events : waiter'[d][f] = w
    <3> SUFFICES ASSUME NEW w \in Users
                 PROVE  waits'[w] <=> \E d \in Contexts, f \in Events : waiter'[d][f] = w
      OBVIOUS
    <3>1. CASE w = u
      BY <1>0, <2>1, <2>3, <3>1
    <3>2. CASE w # u
      <4>1. waits[w] <=> \E d \in Contexts, f \in Events : waiter[d][f] = w
        BY <1>0 DEF Seated
      <4>2. \A d \in Contexts, f \in Events : waiter'[d][f] = w <=> waiter[d][f] = w
        BY <1>0, <2>0, <2>1, <3>2
      <4>3. QED
        BY <2>3, <3>2, <4>1, <4>2
    <3>3. QED
      BY <3>1, <3>2
  <2>8. QED
    BY <1>1, <2>5, <2>6, <2>7 DEF WaitInv, Seated
<1>3. CASE ~ CtlOk(op, c.fd)
  <2>1. UNCHANGED <<events, waiter, waits>>
    BY <1>3 DEF addEvent
  <2>2. QED
    BY <1>0, <1>1, <2>1 DEF WaitInv, Seated
<1>4. QED
  BY <1>1, <1>2, <1>3 DEF WaitInv

LEMMA WaitNext == IOInv /\ WaitInv /\ [Next]_vars => WaitInv'
<1> SUFFICES ASSUME IOInv, WaitInv, [Next]_vars PROVE WaitInv'
  OBVIOUS
<1>1. ASSUME NEW u \in Users, Call(u) PROVE WaitInv'
  <2>1. PICK c \in Calls : call' = [call EXCEPT ![u] = c] /\ (c.kind = "add" => ~ waits[u])
    BY <1>1, IOAssumption DEF Call
  <2>2. AddsAwake'
    BY <1>1, <2>1 DEF Call, WaitInv, AddsAwake, IOInv, TypeOK
  <2>3. QED
    BY <1>1, <2>2 DEF Call, WaitInv, Seated
<1>2. ASSUME NEW u \in Users, Lookup(u) PROVE WaitInv'
  <2>1. UNCHANGED <<events, waiter, waits, aborted>>
    BY <1>2 DEF Lookup
  <2>2. \/ Return(u)
        \/ call' = call /\ upc' \in {[upc EXCEPT ![u] = "op"], [upc EXCEPT ![u] = "grow"]}
    BY <1>2 DEF Lookup
  <2>3. upc[u] = "lookup"
    BY <1>2 DEF Lookup
  <2>4. AddsAwake'
    BY <2>1, <2>2, <2>3 DEF Return, WaitInv, AddsAwake, IOInv, TypeOK
  <2>5. QED
    BY <2>1, <2>4 DEF WaitInv, Seated
<1>3. ASSUME NEW u \in Users, Grow(u) PROVE WaitInv'
  BY <1>3 DEF Grow, WaitInv, Seated, AddsAwake, IOInv, TypeOK
<1>4. ASSUME NEW u \in Users, delEvent(u) \/ cancelEvent(u) \/ cancelAll(u) PROVE WaitInv'
  <2>1. ~ aborted /\ Seated
    BY <1>4 DEF delEvent, cancelEvent, cancelAll, In, WaitInv
  <2>2. fd_ctx[u] \in Contexts /\ Dropping(fd_ctx[u]) /\ Return(u)
    BY <1>4, UserDrops
  <2>3. Seated' /\ \A w \in Users : waits'[w] => waits[w]
    BY <2>1, <2>2, DropSeated
  <2>4. AddsAwake'
    BY <2>2, <2>3 DEF Return, WaitInv, AddsAwake, IOInv, TypeOK
  <2>5. QED
    BY <2>3, <2>4 DEF WaitInv
<1>5. ASSUME NEW p \in Pollers, idle(p) PROVE WaitInv'
  <2>1. ~ aborted /\ Seated
    BY <1>5 DEF idle, WaitInv
  <2>2. got[p].ptr \in Contexts /\ Dropping(got[p].ptr) /\ UNCHANGED userVars
    BY <1>5, PollerDrops
  <2>3. Seated' /\ \A w \in Users : waits'[w] => waits[w]
    BY <2>1, <2>2, DropSeated
  <2>4. QED
    BY <2>2, <2>3 DEF WaitInv, AddsAwake
<1>6. ASSUME NEW p \in Pollers, epoll_wait(p) PROVE WaitInv'
  BY <1>6 DEF epoll_wait, WaitInv, Seated, AddsAwake
<1>7. ASSUME NEW fd \in Fds, Close(fd) PROVE WaitInv'
  BY <1>7 DEF Close, WaitInv, Seated, AddsAwake
<1>8. CASE UNCHANGED vars
  BY <1>8 DEF vars, WaitInv, Seated, AddsAwake
<1>9. QED
  BY <1>1, <1>2, <1>3, <1>4, <1>5, <1>6, <1>7, <1>8, AddSeated DEF Next

LEMMA WaitImplies == WaitInv => WaiterInOneContext
<1> SUFFICES ASSUME Seated, NEW u \in Users
             PROVE  Cardinality({ce \in Contexts \X Events : waiter[ce[1]][ce[2]] = u})
                        = IF waits[u] THEN 1 ELSE 0
  BY DEF WaitInv, WaiterInOneContext, Seated
<1> DEFINE S == {ce \in Contexts \X Events : waiter[ce[1]][ce[2]] = u}
<1>0. u # None
  BY IOAssumption
<1>1. CASE waits[u]
  <2>1. PICK c \in Contexts, e \in Events : waiter[c][e] = u
    BY <1>1 DEF Seated
  <2>2. <<c, e>> \in S
    BY <2>1
  <2>3. \A ce \in S : ce = <<c, e>>
    <3> SUFFICES ASSUME NEW ce \in S PROVE ce = <<c, e>>
      OBVIOUS
    <3>1. ce[1] \in Contexts /\ ce[2] \in Events /\ waiter[ce[1]][ce[2]] = u
          /\ ce = <<ce[1], ce[2]>>
      OBVIOUS
    <3>2. ce[1] = c /\ ce[2] = e
      BY <1>0, <2>1, <3>1 DEF Seated
    <3>3. QED
      BY <3>1, <3>2
  <2>4. S = {<<c, e>>}
    BY <2>2, <2>3
  <2>5. QED
    BY <1>1, <2>4, FS_Singleton
<1>2. CASE ~ waits[u]
  <2>1. S = {}
    BY <1>2 DEF Seated
  <2>2. QED
    BY <1>2, <2>1, FS_EmptySet
<1>3. QED
  BY <1>1, <1>2

\* Nobody who waits is forgotten and nobody is resumed twice: a waiting fiber is
\* in exactly one context under a registered event, any other fiber in none.
THEOREM WaitersHaveOneSeat == Spec => []WaiterInOneContext
BY IOInit, IONext, WaitInit, WaitNext, WaitImplies, PTL DEF Spec

-----------------------------------------------------------------------------
(***************************************************************************)
(* Contexts and epoll.  addEvent resizes the table to 3/2 of its own       *)
(* descriptor although another call may have made it larger since it       *)
(* looked, so a context with registered events can leave the table, and    *)
(* its descriptor get another one.  The object lives on, epoll holds its   *)
(* address, and the kernel refuses to add the descriptor a second time.    *)
(***************************************************************************)
Watched ==
    /\ \A c \in Contexts :
          isOpen[c.fd] /\ events[c] # {} => reg[c.fd] = [mask |-> events[c], ptr |-> c]
    /\ \A fd \in Fds :
          reg[fd] # None =>
              /\ isOpen[fd] /\ reg[fd].ptr.fd = fd
              /\ events[reg[fd].ptr] # {} /\ reg[fd].mask = events[reg[fd].ptr]

LEMMA WatchedInit == Init => Watched
BY IOAssumption DEF Init, Watched, Contexts

\* A change of a context that epoll has, or that takes a free place in epoll, with epoll
\* told, keeps the two agreed.
LEMMA ChangeWatched ==
  ASSUME IOInv, Watched, NEW c \in Contexts, NEW m \in SUBSET Events, isOpen[c.fd],
         reg[c.fd] = None \/ events[c] # {},
         epoll_ctl(c.fd, m, c), events' = [events EXCEPT ![c] = m], UNCHANGED isOpen
  PROVE  Watched'
<1>1. TypeOK /\ None \notin Contexts /\ c.fd \in Fds
  BY IOAssumption DEF IOInv, Contexts
<1>2. \A d \in Contexts : events'[d] = IF d = c THEN m ELSE events[d]
  BY <1>1 DEF TypeOK
<1>3. \A fd \in Fds : reg'[fd] =
          IF fd = c.fd THEN (IF m = {} THEN None ELSE [mask |-> m, ptr |-> c]) ELSE reg[fd]
  BY <1>1 DEF epoll_ctl, TypeOK
<1>4. \A d \in Contexts : d # c /\ d.fd = c.fd => events[d] = {}
  <2> SUFFICES ASSUME NEW d \in Contexts, d # c, d.fd = c.fd, events[d] # {} PROVE FALSE
    OBVIOUS
  <2>1. reg[c.fd] = [mask |-> events[d], ptr |-> d]
    BY DEF Watched
  <2>2. events[d] \in SUBSET Events
    BY <1>1 DEF TypeOK
  <2>3. reg[c.fd] # None
    BY <2>1, <2>2, IOAssumption
  <2>4. reg[c.fd] = [mask |-> events[c], ptr |-> c]
    BY <2>3 DEF Watched
  <2>5. QED
    BY <2>1, <2>4
<1>5. ASSUME NEW d \in Contexts, isOpen[d.fd], events'[d] # {}
      PROVE  reg'[d.fd] = [mask |-> events'[d], ptr |-> d]
  <2>1. d.fd \in Fds
    BY DEF Contexts
  <2>2. CASE d = c
    BY <1>1, <1>2, <1>3, <1>5, <2>2
  <2>3. CASE d # c
    <3>1. d.fd # c.fd
      BY <1>2, <1>4, <1>5, <2>3
    <3>2. QED
      BY <1>2, <1>3, <1>5, <2>1, <2>3, <3>1 DEF Watched
  <2>4. QED
    BY <2>2, <2>3
<1>6. ASSUME NEW fd \in Fds, reg'[fd] # None
      PROVE  /\ isOpen[fd] /\ reg'[fd].ptr.fd = fd
             /\ events'[reg'[fd].ptr] # {} /\ reg'[fd].mask = events'[reg'[fd].ptr]
  <2>1. CASE fd = c.fd
    BY <1>1, <1>2, <1>3, <1>6, <2>1
  <2>2. CASE fd # c.fd
    <3>1. reg'[fd] = reg[fd] /\ reg[fd].ptr \in Contexts /\ reg[fd].ptr.fd = fd
      BY <1>1, <1>3, <1>6, <2>2 DEF Watched, TypeOK
    <3>2. events'[reg[fd].ptr] = events[reg[fd].ptr]
      BY <1>2, <2>2, <3>1
    <3>3. QED
      BY <1>6, <3>1, <3>2 DEF Watched
  <2>3. QED
    BY <2>1, <2>2
<1>7. QED
  BY <1>5, <1>6 DEF Watched

LEMMA DropWatched ==
  ASSUME IOInv, Watched, NEW c \in Contexts, Dropping(c), UNCHANGED isOpen
  PROVE  Watched'
<1>1. CASE UNCHANGED <<reg, ctxVars, waits>>
  BY <1>1 DEF Watched
<1>2. ASSUME NEW es \in SUBSET Events, Dropped(c, es)
      PROVE  Watched'
  <2>1. events[c] \ es \in SUBSET Events /\ events[c] # {}
    BY <1>2 DEF Dropped, IOInv, TypeOK
  <2>2. /\ isOpen[c.fd] /\ epoll_ctl(c.fd, events[c] \ es, c)
        /\ events' = [events EXCEPT ![c] = events[c] \ es]
    BY <1>2 DEF Dropped
  <2>3. QED
    BY <2>1, <2>2, ChangeWatched
<1>3. QED
  BY <1>1, <1>2 DEF Dropping

LEMMA AddWatched ==
  ASSUME IOInv, Watched, NEW u \in Users, addEvent(u)
  PROVE  Watched'
<1> DEFINE c == fd_ctx[u]
           e == call[u].event
<1>1. c \in Contexts /\ UNCHANGED isOpen /\ events[c] \cup {e} \in SUBSET Events
  BY DEF addEvent, In, IOInv, CallOK, Calls, TypeOK
<1>2. CASE UNCHANGED <<reg, events>>
  BY <1>1, <1>2 DEF Watched
<1>3. CASE /\ CtlOk(IF events[c] = {} THEN "ADD" ELSE "MOD", c.fd)
           /\ epoll_ctl(c.fd, events[c] \cup {e}, c)
           /\ events' = [events EXCEPT ![c] = events[c] \cup {e}]
  <2>1. isOpen[c.fd] /\ (reg[c.fd] = None \/ events[c] # {})
    BY <1>3 DEF CtlOk
  <2>2. QED
    BY <1>1, <1>3, <2>1, ChangeWatched
<1>4. QED
  BY <1>2, <1>3 DEF addEvent

LEMMA WatchedNext == IOInv /\ Watched /\ [Next]_vars => Watched'
<1> SUFFICES ASSUME IOInv, Watched, [Next]_vars PROVE Watched'
  OBVIOUS
<1>1. ASSUME NEW u \in Users, delEvent(u) \/ cancelEvent(u) \/ cancelAll(u)
      PROVE  Watched'
  BY <1>1, UserDrops, DropWatched
<1>2. ASSUME NEW p \in Pollers, idle(p) PROVE Watched'
  BY <1>2, PollerDrops, DropWatched
<1>3. ASSUME NEW fd \in Fds, Close(fd) PROVE Watched'
  <2>1. /\ \A g \in Fds : reg'[g] = IF g = fd THEN None ELSE reg[g]
        /\ \A g \in Fds : isOpen'[g] = IF g = fd THEN FALSE ELSE isOpen[g]
        /\ UNCHANGED events
    BY <1>3 DEF Close, IOInv, TypeOK
  <2>2. \A c \in Contexts : c.fd \in Fds
    BY DEF Contexts
  <2>3. \A c \in Contexts : isOpen'[c.fd] => isOpen[c.fd] /\ reg'[c.fd] = reg[c.fd]
    BY <2>1, <2>2
  <2>4. \A g \in Fds : reg'[g] # None => reg'[g] = reg[g] /\ isOpen'[g] = isOpen[g]
    BY <2>1
  <2>5. \A g \in Fds : reg'[g] # None =>
            /\ isOpen'[g] /\ reg'[g].ptr.fd = g
            /\ events'[reg'[g].ptr] # {} /\ reg'[g].mask = events'[reg'[g].ptr]
    <3> SUFFICES ASSUME NEW g \in Fds, reg'[g] # None
                 PROVE  /\ isOpen'[g] /\ reg'[g].ptr.fd = g
                        /\ events'[reg'[g].ptr] # {} /\ reg'[g].mask = events'[reg'[g].ptr]
      OBVIOUS
    <3>1. reg'[g] = reg[g] /\ isOpen'[g] = isOpen[g] /\ events' = events
      BY <2>1, <2>4
    <3>2. QED
      BY <3>1 DEF Watched
  <2>6. \A c \in Contexts : isOpen'[c.fd] /\ events'[c] # {} =>
            reg'[c.fd] = [mask |-> events'[c], ptr |-> c]
    BY <2>1, <2>3 DEF Watched
  <2>7. QED
    BY <2>5, <2>6 DEF Watched
<1>4. CASE \/ UNCHANGED vars
           \/ \E u \in Users : Call(u) \/ Lookup(u) \/ Grow(u)
           \/ \E p \in Pollers : epoll_wait(p)
  <2>1. UNCHANGED <<events, reg, isOpen>>
    BY <1>4 DEF vars, Call, Lookup, Grow, epoll_wait
  <2>2. QED
    BY <2>1 DEF Watched
<1>5. QED
  BY <1>1, <1>2, <1>3, <1>4, AddWatched DEF Next

\* However calls, reports, closing descriptors and resizes of the table meet, the resize
\* that makes the table smaller and drops a context with registered events included:
\* epoll watches exactly what the contexts of open descriptors say is registered.
THEOREM RegisteredIsWatched == Spec => []WatchedIsRegistered
<1>1. IOInv /\ Watched => WatchedIsRegistered
  <2> SUFFICES ASSUME IOInv, Watched, NEW fd \in Fds, reg[fd] # None
               PROVE  \E c \in Contexts : /\ c.fd = fd /\ events[c] # {}
                                          /\ reg[fd] = [mask |-> events[c], ptr |-> c]
    BY DEF Watched, WatchedIsRegistered
  <2>1. reg[fd].ptr \in Contexts /\ reg[fd].ptr.fd = fd /\ events[reg[fd].ptr] # {}
    BY DEF Watched, IOInv, TypeOK
  <2>2. reg[fd] = [mask |-> events[reg[fd].ptr], ptr |-> reg[fd].ptr]
    BY <2>1 DEF Watched, IOInv, TypeOK, Contexts
  <2>3. QED
    BY <2>1, <2>2
<1>2. IOInv /\ Watched /\ [Next]_vars => Watched'
  BY WatchedNext
<1>3. QED
  BY <1>1, <1>2, IOInit, IONext, WatchedInit, PTL DEF Spec

=============================================================================
