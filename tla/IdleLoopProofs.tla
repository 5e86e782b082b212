---------------------------- MODULE IdleLoopProofs ----------------------------
(***************************************************************************)
(* Theorems about IdleLoop, for every number of threads, jobs and timers:  *)
(* no work is lost or doubled, and no sleep is longer than MAX_TIMEOUT     *)
(* past the moment at which there was something to do.                     *)
(***************************************************************************)
EXTENDS IdleLoop, FiniteSetTheorems, WellFoundedInduction, TLAPS

-----------------------------------------------------------------------------
(***************************************************************************)
(* The invariant.  A piece of work is in the queue, on a thread, among the *)
(* timers, in a thread's hand between the set and the queue, waiting for   *)
(* its descriptor, or finished.                                            *)
(***************************************************************************)
Entry == [work : Work, thread : Threads \cup {Any_}, age : Nat]
Backs == {"fetch", "run", "idle", "done", "user", "stop"}
Labels == Backs \cup {"again", "pending", "stopping", "sleep", "collect", "callbacks", "events",
                    "tickle", "write"}

IdleType ==
  /\ m_fibers \in Seq(Entry)
  /\ m_timers \subseteq TimerIds /\ due \in [TimerIds -> Int]
  /\ pc \in [Actors -> Labels] /\ back \in [Actors -> Backs]
  /\ cur \in [Threads -> Work \cup {Any_}]
  /\ got \in [Threads -> SUBSET (Jobs \cup {"pipe"})]
  /\ ready \subseteq Jobs \cup {"pipe"} /\ io \subseteq Jobs
  /\ left \in [Jobs -> Int]
  /\ submitted \subseteq Work

Running(t) == pc[t] \in {"run", "again"} \/ (pc[t] \in {"tickle", "write"} /\ back[t] = "run")

QW == {m_fibers[k].work : k \in DOMAIN m_fibers}
RW == {cur[t] : t \in {u \in Threads : Running(u)}}
QOnce == \A k, l \in DOMAIN m_fibers : m_fibers[k].work = m_fibers[l].work => k = l
ROnce == \A t, u \in Threads : Running(t) /\ Running(u) /\ cur[t] = cur[u] => t = u

\* The callbacks in the threads' hands.
Members(s) == {s[k] : k \in DOMAIN s}
HW == UNION {Members(cbs[t]) : t \in Threads}

\* A thread holds callbacks only between listExpiredCb and schedule(cbs), and no
\* callback twice or together with another thread.
Hands ==
  /\ cbs \in [Threads -> Seq(TimerIds)]
  /\ \A t \in Threads : pc[t] # "callbacks" => cbs[t] = <<>>
  /\ \A t, u \in Threads : \A k \in DOMAIN cbs[t], l \in DOMAIN cbs[u] :
        cbs[t][k] = cbs[u][l] => t = u /\ k = l

Places ==
  /\ QW \cup RW \cup m_timers \cup HW \cup io \cup finished = submitted
  /\ QW \cap RW = {}
  /\ (QW \cup RW) \cap (m_timers \cup HW \cup io \cup finished) = {}
  /\ (m_timers \cup HW \cup io) \cap finished = {}
  /\ m_timers \cap HW = {}

\* An event is with one thread, or in epoll's list, and its job still waits.
Events ==
  /\ ready \subseteq io \cup {"pipe"}
  /\ \A t \in Threads : got[t] \subseteq io \cup {"pipe"} /\ got[t] \cap ready \subseteq {"pipe"}
  /\ \A t, u \in Threads : t # u => got[t] \cap got[u] \subseteq {"pipe"}

WorkInv == IdleType /\ QOnce /\ ROnce /\ Hands /\ Places /\ Events

\* The bundles of variables are always expanded.
USE DEF queuevars, timervars, iovars, uservars

LEMMA WorkInit == Init => WorkInv
<1> SUFFICES ASSUME Init PROVE WorkInv
  OBVIOUS
<1>0. /\ m_fibers = <<>> /\ m_timers = {} /\ io = {} /\ finished = {} /\ submitted = {} /\ ready = {}
      /\ got = [t \in Threads |-> {}] /\ cbs = [t \in Threads |-> <<>>]
      /\ pc = [a \in Actors |-> IF a = User THEN "user" ELSE "fetch"]
      /\ back = [a \in Actors |-> "fetch"]
  BY DEF Init
<1>1. IdleType
  <2>1. pc \in [Actors -> Labels] /\ back \in [Actors -> Backs]
    BY <1>0 DEF Labels, Backs
  <2>2. due \in [TimerIds -> Int] /\ left \in [Jobs -> Int]
    BY IdleLoopAssumption DEF Init
  <2>3. /\ cur \in [Threads -> Work \cup {Any_}] /\ m_fibers \in Seq(Entry)
    BY DEF Init
  <2>4. QED
    BY <1>0, <2>1, <2>2, <2>3 DEF IdleType
<1>2. \A t \in Threads : ~ Running(t)
  <2>1. \A t \in Threads : t \in Actors /\ t # User
    BY IdleLoopAssumption DEF Actors
  <2>2. QED
    BY <1>0, <2>1 DEF Running
<1>3. RW = {} /\ QW = {} /\ QOnce /\ ROnce
  BY <1>0, <1>2 DEF RW, QW, QOnce, ROnce
<1>4. Hands /\ HW = {}
  BY <1>0 DEF Hands, HW, Members
<1>5. Places /\ Events
  BY <1>0, <1>3, <1>4 DEF Places, Events
<1>6. QED
  BY <1>1, <1>3, <1>4, <1>5 DEF WorkInv

-----------------------------------------------------------------------------
(***************************************************************************)
(* The queue.                                                              *)
(***************************************************************************)
\* An entry is taken out.
LEMMA QueueRemove ==
  ASSUME m_fibers \in Seq(Entry), QOnce, NEW i \in DOMAIN m_fibers,
         m_fibers' = RemoveAt(m_fibers, i)
  PROVE  /\ m_fibers' \in Seq(Entry) /\ QOnce' /\ QW' = QW \ {m_fibers[i].work}
         /\ \A k \in DOMAIN m_fibers' : \E l \in DOMAIN m_fibers : m_fibers'[k] = m_fibers[l]
<1> DEFINE s == m_fibers
           r == RemoveAt(m_fibers, i)
<1>1. Len(s) \in Nat /\ i \in 1 .. Len(s) /\ DOMAIN s = 1 .. Len(s)
  OBVIOUS
<1> DEFINE a == SubSeq(s, 1, i - 1)
           b == SubSeq(s, i + 1, Len(s))
<1>2. a \in Seq(Entry) /\ Len(a) = i - 1 /\ \A k \in 1 .. i - 1 : a[k] = s[k]
  BY <1>1
<1>3. b \in Seq(Entry) /\ Len(b) = Len(s) - i /\ \A k \in 1 .. Len(s) - i : b[k] = s[k + i]
  BY <1>1
<1>4. r = a \o b
  BY DEF RemoveAt
<1> HIDE DEF a, b, r
<1>5. /\ r \in Seq(Entry) /\ DOMAIN r = 1 .. Len(s) - 1
      /\ \A k \in 1 .. Len(s) - 1 : r[k] = IF k < i THEN a[k] ELSE b[k - (i - 1)]
  <2>0. /\ a \in Seq(Entry) /\ b \in Seq(Entry) /\ Len(a) = i - 1 /\ Len(b) = Len(s) - i
    BY <1>2, <1>3
  <2>1. r \in Seq(Entry) /\ Len(r) = Len(a) + Len(b)
    BY <1>4, <2>0
  <2>2. Len(r) = Len(s) - 1
    BY <1>1, <2>0, <2>1
  <2>3. \A k \in 1 .. Len(r) : r[k] = IF k <= Len(a) THEN a[k] ELSE b[k - Len(a)]
    BY <1>1, <1>4, <2>0
  <2>4. \A k \in 1 .. Len(s) - 1 : k < i <=> k <= i - 1
    BY <1>1
  <2>5. QED
    BY <1>2, <2>1, <2>2, <2>3, <2>4
<1>6. \A k \in 1 .. Len(s) - 1 : r[k] = IF k < i THEN s[k] ELSE s[k + 1]
  <2> SUFFICES ASSUME NEW k \in 1 .. Len(s) - 1 PROVE r[k] = IF k < i THEN s[k] ELSE s[k + 1]
    OBVIOUS
  <2>1. CASE k < i
    BY <1>1, <1>2, <1>5, <2>1
  <2>2. CASE ~ (k < i)
    <3>1. k - (i - 1) \in 1 .. Len(s) - i /\ (k - (i - 1)) + i = k + 1
      BY <1>1, <2>2
    <3>2. QED
      BY <1>3, <1>5, <2>2, <3>1
  <2>3. QED
    BY <2>1, <2>2
<1>7. \A k \in DOMAIN r : \E l \in DOMAIN s : l # i /\ r[k] = s[l]
  <2> SUFFICES ASSUME NEW k \in DOMAIN r PROVE \E l \in DOMAIN s : l # i /\ r[k] = s[l]
    OBVIOUS
  <2>1. CASE k < i
    BY <1>1, <1>5, <1>6, <2>1
  <2>2. CASE ~ (k < i)
    <3>1. k + 1 \in DOMAIN s /\ k + 1 # i /\ r[k] = s[k + 1]
      BY <1>1, <1>5, <1>6, <2>2
    <3>2. QED
      BY <3>1
  <2>3. QED
    BY <2>1, <2>2
<1>8. \A l \in DOMAIN s : l # i => \E k \in DOMAIN r : r[k] = s[l]
  <2> SUFFICES ASSUME NEW l \in DOMAIN s, l # i PROVE \E k \in DOMAIN r : r[k] = s[l]
    OBVIOUS
  <2>1. CASE l < i
    BY <1>1, <1>5, <1>6, <2>1
  <2>2. CASE ~ (l < i)
    <3>1. l - 1 \in DOMAIN r /\ r[l - 1] = s[(l - 1) + 1] /\ (l - 1) + 1 = l
      BY <1>1, <1>5, <1>6, <2>2
    <3>2. QED
      BY <3>1
  <2>3. QED
    BY <2>1, <2>2
<1>9. \A k, l \in DOMAIN r : r[k].work = r[l].work => k = l
  <2> SUFFICES ASSUME NEW k \in DOMAIN r, NEW l \in DOMAIN r, r[k].work = r[l].work PROVE k = l
    OBVIOUS
  <2> DEFINE h(x) == IF x < i THEN x ELSE x + 1
  <2>1. h(k) \in DOMAIN s /\ h(l) \in DOMAIN s /\ r[k] = s[h(k)] /\ r[l] = s[h(l)]
    BY <1>1, <1>5, <1>6, SMTT(20)
  <2>2. h(k) = h(l)
    <3> HIDE DEF h
    <3>1. QED
      BY <2>1 DEF QOnce
  <2>3. QED
    BY <1>1, <1>5, <2>2
<1>10. m_fibers' = r
  BY DEF r
<1>11. QW' = QW \ {m_fibers[i].work}
  <2>1. \A l \in DOMAIN s : s[l].work = s[i].work => l = i
    BY DEF QOnce
  <2>2. ASSUME NEW w \in QW' PROVE w \in QW \ {s[i].work}
    BY <1>7, <1>10, <2>1, <2>2 DEF QW
  <2>3. ASSUME NEW w \in QW, w # s[i].work PROVE w \in QW'
    <3>1. PICK l \in DOMAIN s : w = s[l].work
      BY <2>3 DEF QW
    <3>2. PICK k \in DOMAIN r : r[k] = s[l]
      BY <1>8, <2>3, <3>1
    <3>3. QED
      BY <1>10, <3>1, <3>2 DEF QW
  <2>4. QED
    BY <2>2, <2>3
<1>12. QED
  BY <1>5, <1>7, <1>9, <1>10, <1>11 DEF QOnce

\* Work that is not there is put at the end.
LEMMA QueueAppend ==
  ASSUME m_fibers \in Seq(Entry), QOnce, NEW n \in Nat, NEW ws \in [1 .. n -> Work],
         \A k, l \in 1 .. n : ws[k] = ws[l] => k = l,
         \A k \in 1 .. n : ws[k] \notin QW,
         NEW thr \in Threads \cup {Any_}, schedule(ws, thr)
  PROVE  /\ m_fibers' \in Seq(Entry) /\ QOnce' /\ QW' = QW \cup {ws[k] : k \in 1 .. n}
         /\ \A k \in DOMAIN m_fibers' : \/ m_fibers'[k].age = 0
                                        \/ \E l \in DOMAIN m_fibers : m_fibers'[k] = m_fibers[l]
<1> DEFINE s == m_fibers
           e == Entries(ws, thr)
           m == Len(m_fibers)
<1>1. m \in Nat /\ DOMAIN s = 1 .. m
  OBVIOUS
<1>2. ws \in Seq(Work) /\ Len(ws) = n
  OBVIOUS
<1>3. /\ e = [k \in 1 .. n |-> [work |-> ws[k], thread |-> thr, age |-> 0]]
      /\ \A k \in 1 .. n : [work |-> ws[k], thread |-> thr, age |-> 0] \in Entry
  BY <1>2 DEF Entries, Entry
<1>4. e \in Seq(Entry) /\ Len(e) = n /\ \A k \in 1 .. n : e[k].work = ws[k] /\ e[k].age = 0
  BY <1>3
<1>5. m_fibers' = s \o e
  BY DEF schedule
<1> HIDE DEF e
<1>6. /\ m_fibers' \in Seq(Entry) /\ DOMAIN m_fibers' = 1 .. m + n
      /\ \A k \in 1 .. m + n : m_fibers'[k] = IF k <= m THEN s[k] ELSE e[k - m]
  BY <1>1, <1>4, <1>5
<1> HIDE DEF m
<1>7. /\ \A k \in 1 .. m : k \in 1 .. m + n /\ m_fibers'[k] = s[k]
      /\ \A k \in 1 .. n : m + k \in 1 .. m + n /\ m_fibers'[m + k] = e[k]
  <2>1. \A k \in 1 .. n : m + k \in 1 .. m + n /\ ~ (m + k <= m) /\ (m + k) - m = k
    BY <1>1
  <2>2. \A k \in 1 .. n : m_fibers'[m + k] = e[k]
    BY <1>6, <2>1
  <2>3. \A k \in 1 .. m : k \in 1 .. m + n /\ m_fibers'[k] = s[k]
    BY <1>1, <1>6
  <2>4. QED
    BY <2>1, <2>2, <2>3
<1>8. ASSUME NEW k \in DOMAIN m_fibers'
      PROVE  \/ k \in 1 .. m /\ m_fibers'[k] = s[k]
             \/ k - m \in 1 .. n /\ m_fibers'[k] = e[k - m]
  BY <1>1, <1>6
<1>9. QOnce'
  <2> SUFFICES ASSUME NEW k \in DOMAIN m_fibers', NEW l \in DOMAIN m_fibers',
                      m_fibers'[k].work = m_fibers'[l].work
               PROVE  k = l
    BY DEF QOnce
  <2>0. k \in Int /\ l \in Int /\ m \in Nat
    BY <1>1, <1>6
  <2>1. CASE k \in 1 .. m /\ m_fibers'[k] = s[k] /\ l \in 1 .. m /\ m_fibers'[l] = s[l]
    BY <1>1, <2>1 DEF QOnce
  <2>2. CASE /\ k - m \in 1 .. n /\ m_fibers'[k] = e[k - m]
             /\ l - m \in 1 .. n /\ m_fibers'[l] = e[l - m]
    <3>1. ws[k - m] = ws[l - m]
      BY <1>4, <2>2
    <3>2. k - m = l - m
      BY <2>2, <3>1
    <3>3. QED
      BY <2>0, <3>2
  <2>3. ASSUME NEW x \in 1 .. m, NEW y \in 1 .. n, s[x].work = e[y].work PROVE FALSE
    BY <1>1, <1>4, <2>3 DEF QW
  <2>4. QED
    BY <1>8, <2>1, <2>2, <2>3
<1>10. QW' = QW \cup {ws[k] : k \in 1 .. n}
  <2>1. ASSUME NEW w \in QW' PROVE w \in QW \cup {ws[k] : k \in 1 .. n}
    <3>1. PICK k \in DOMAIN m_fibers' : w = m_fibers'[k].work
      BY <2>1 DEF QW
    <3>2. QED
      BY <1>1, <1>4, <1>8, <3>1 DEF QW
  <2>2. ASSUME NEW w \in QW PROVE w \in QW'
    <3>1. PICK l \in 1 .. m : w = s[l].work
      BY <1>1, <2>2 DEF QW
    <3>2. l \in DOMAIN m_fibers' /\ m_fibers'[l].work = w
      BY <1>6, <1>7, <3>1
    <3>3. QED
      BY <3>2 DEF QW
  <2>3. ASSUME NEW k \in 1 .. n PROVE ws[k] \in QW'
    <3>1. m + k \in DOMAIN m_fibers' /\ m_fibers'[m + k].work = ws[k]
      BY <1>4, <1>6, <1>7
    <3>2. QED
      BY <3>1 DEF QW
  <2>4. QED
    BY <2>1, <2>2, <2>3
<1>11. \A k \in DOMAIN m_fibers' : \/ m_fibers'[k].age = 0
                                   \/ \E l \in DOMAIN m_fibers : m_fibers'[k] = m_fibers[l]
  BY <1>1, <1>4, <1>8
<1>12. QED
  BY <1>6, <1>9, <1>10, <1>11

LEMMA QueueOne ==
  ASSUME m_fibers \in Seq(Entry), QOnce, NEW w \in Work, w \notin QW,
         NEW thr \in Threads \cup {Any_}, schedule(<<w>>, thr)
  PROVE  /\ m_fibers' \in Seq(Entry) /\ QOnce' /\ QW' = QW \cup {w}
         /\ \A k \in DOMAIN m_fibers' : \/ m_fibers'[k].age = 0
                                        \/ \E l \in DOMAIN m_fibers : m_fibers'[k] = m_fibers[l]
<1>1. PICK ws : ws = <<w>>
  OBVIOUS
<1>2. ws \in [1 .. 1 -> Work] /\ ws[1] = w /\ schedule(ws, thr)
  BY <1>1
<1>3. /\ {ws[k] : k \in 1 .. 1} = {w}
      /\ \A k, l \in 1 .. 1 : ws[k] = ws[l] => k = l
      /\ \A k \in 1 .. 1 : ws[k] \notin QW
  BY <1>2
<1>4. QED
  <2>1. 1 \in Nat
    OBVIOUS
  <2>2. /\ m_fibers' \in Seq(Entry) /\ QOnce' /\ QW' = QW \cup {ws[k] : k \in 1 .. 1}
        /\ \A k \in DOMAIN m_fibers' : \/ m_fibers'[k].age = 0
                                       \/ \E l \in DOMAIN m_fibers : m_fibers'[k] = m_fibers[l]
    BY <1>2, <1>3, <2>1, QueueAppend
  <2>3. QED
    BY <1>3, <2>2

\* The members of a finite set, each once, in some order.
LEMMA AllOfThem ==
  ASSUME NEW S, IsFiniteSet(S), NEW s \in SetToSeqs(S)
  PROVE  /\ Cardinality(S) \in Nat /\ s \in [1 .. Cardinality(S) -> S]
         /\ \A k, l \in 1 .. Cardinality(S) : s[k] = s[l] => k = l
         /\ {s[k] : k \in 1 .. Cardinality(S)} = S
<1> DEFINE n == Cardinality(S)
<1>1. n \in Nat
  BY FS_CardinalityType
<1>2. s \in [1 .. n -> S] /\ \A k, l \in 1 .. n : s[k] = s[l] => k = l
  BY DEF SetToSeqs
<1>3. s \in Injection(1 .. n, S)
  BY <1>2 DEF Injection, IsInjective
<1>4. Cardinality(1 .. n) = n
  BY <1>1, FS_Interval
<1>5. s \in Surjection(1 .. n, S)
  BY <1>3, <1>4, FS_Injection
<1>6. \A x \in S : \E k \in 1 .. n : s[k] = x
  BY <1>5 DEF Surjection
<1>7. QED
  BY <1>1, <1>2, <1>6

-----------------------------------------------------------------------------
(***************************************************************************)
(* Where the threads are.                                                  *)
(***************************************************************************)
\* Every other actor stays where it is.
Others(a) == \A u \in Actors \ {a} : pc'[u] = pc[u] /\ back'[u] = back[u]
PcType == pc \in [Actors -> Labels] /\ back \in [Actors -> Backs]

LEMMA GotoStep ==
  ASSUME PcType, NEW a \in Actors, NEW label \in Labels, Goto(a, label)
  PROVE  PcType' /\ pc'[a] = label /\ back' = back /\ Others(a)
BY DEF Goto, PcType, Others

LEMMA TickleIfStep ==
  ASSUME PcType, NEW a \in Actors, NEW label \in Backs, NEW condition, TickleIf(a, condition, label)
  PROVE  /\ PcType' /\ Others(a)
         /\ \/ pc'[a] = label
            \/ pc'[a] = "tickle" /\ back'[a] = label
<1>1. label \in Labels /\ "tickle" \in Labels
  BY DEF Labels
<1>2. CASE condition
  BY <1>1, <1>2 DEF TickleIf, PcType, Others
<1>3. CASE ~ condition
  <2>1. Goto(a, label)
    BY <1>3 DEF TickleIf
  <2>2. QED
    BY <1>1, <2>1, GotoStep
<1>4. QED
  BY <1>2, <1>3

LEMMA ReturnStep ==
  ASSUME PcType, NEW a \in Actors, Return(a)
  PROVE  PcType' /\ pc'[a] = back[a] /\ Others(a)
<1>1. back[a] \in Labels /\ "fetch" \in Backs
  BY DEF PcType, Labels, Backs
<1>2. QED
  BY <1>1 DEF Return, PcType, Others

\* A step of one thread, or of the program, leaves the others running what they run.
LEMMA OthersRun ==
  ASSUME NEW a \in Actors, Others(a)
  PROVE  \A u \in Threads \ {a} : Running(u)' <=> Running(u)
<1>1. \A u \in Threads \ {a} : u \in Actors \ {a}
  BY DEF Actors
<1>2. QED
  BY <1>1 DEF Running, Others

LEMMA RunningSame ==
  ASSUME ROnce, cur' = cur, \A u \in Threads : Running(u)' <=> Running(u)
  PROVE  RW' = RW /\ ROnce'
BY DEF RW, ROnce

\* A thread takes on work, and puts it down.
LEMMA RunningIn ==
  ASSUME ROnce, NEW t \in Threads, NEW w, cur \in [Threads -> Work \cup {Any_}],
         cur' = [cur EXCEPT ![t] = w], ~ Running(t), Running(t)',
         \A u \in Threads \ {t} : Running(u)' <=> Running(u), w \notin RW
  PROVE  RW' = RW \cup {w} /\ ROnce'
<1>1. cur'[t] = w /\ \A u \in Threads \ {t} : cur'[u] = cur[u]
  OBVIOUS
<1>2. \A u \in Threads : Running(u) => u # t /\ cur[u] # w
  BY DEF RW
<1>3. RW' = RW \cup {w}
  <2>1. ASSUME NEW v \in RW' PROVE v \in RW \cup {w}
    BY <1>1, <2>1 DEF RW
  <2>2. ASSUME NEW v \in RW PROVE v \in RW'
    BY <1>1, <1>2, <2>2 DEF RW
  <2>3. w \in RW'
    BY <1>1 DEF RW
  <2>4. QED
    BY <2>1, <2>2, <2>3
<1>4. ROnce'
  <2> SUFFICES ASSUME NEW u \in Threads, NEW v \in Threads, Running(u)', Running(v)', cur'[u] = cur'[v]
               PROVE  u = v
    BY DEF ROnce
  <2>1. CASE u # t /\ v # t
    BY <1>1, <2>1 DEF ROnce
  <2>2. CASE u = t \/ v = t
    BY <1>1, <1>2, <2>2
  <2>3. QED
    BY <2>1, <2>2
<1>5. QED
  BY <1>3, <1>4

LEMMA RunningOut ==
  ASSUME ROnce, NEW t \in Threads, NEW w, cur \in [Threads -> Work \cup {Any_}],
         cur' = [cur EXCEPT ![t] = w], Running(t), ~ Running(t)',
         \A u \in Threads \ {t} : Running(u)' <=> Running(u)
  PROVE  RW' = RW \ {cur[t]} /\ cur[t] \in RW /\ ROnce'
<1>1. \A u \in Threads \ {t} : cur'[u] = cur[u]
  OBVIOUS
<1>2. \A u \in Threads : Running(u) /\ u # t => cur[u] # cur[t]
  BY DEF ROnce
<1>3. RW' = RW \ {cur[t]}
  <2>1. ASSUME NEW v \in RW' PROVE v \in RW \ {cur[t]}
    BY <1>1, <1>2, <2>1 DEF RW
  <2>2. ASSUME NEW v \in RW, v # cur[t] PROVE v \in RW'
    BY <1>1, <2>2 DEF RW
  <2>3. QED
    BY <2>1, <2>2
<1>4. ROnce'
  BY <1>1 DEF ROnce
<1>5. cur[t] \in RW
  BY DEF RW
<1>6. QED
  BY <1>3, <1>4, <1>5

-----------------------------------------------------------------------------
(***************************************************************************)
(* Every step keeps the invariant.                                         *)
(***************************************************************************)
LEMMA TypeOfPc == IdleType => PcType
BY DEF IdleType, PcType

LEMMA ThreadsAreActors == \A t \in Threads : t \in Actors /\ t # User
BY IdleLoopAssumption DEF Actors

\* A step that leaves the callbacks where they are.
LEMMA HandsKept ==
  ASSUME Hands, cbs' = cbs, \A u \in Threads : pc[u] = "callbacks" => pc'[u] = "callbacks"
  PROVE  Hands' /\ HW' = HW
BY DEF Hands, HW, Members

LEMMA HandsOther ==
  ASSUME WorkInv, cbs' = cbs, NEW a \in Actors, Others(a), pc[a] # "callbacks"
  PROVE  Hands' /\ HW' = HW
<1>1. \A u \in Threads : pc[u] = "callbacks" => pc'[u] = "callbacks"
  BY ThreadsAreActors DEF Others
<1>2. QED
  BY <1>1, HandsKept DEF WorkInv

\* Steps that move no work.
LEMMA Quiet ==
  ASSUME WorkInv, PcType', \A u \in Threads : pc[u] = "callbacks" => pc'[u] = "callbacks",
         \A u \in Threads : Running(u)' <=> Running(u),
         UNCHANGED <<m_fibers, m_timers, due, cur, got, cbs, io, left, submitted, finished>>,
         ready' = ready \/ ready' = ready \cup {"pipe"}
  PROVE  WorkInv'
<1>1. IdleType'
  BY DEF WorkInv, IdleType, PcType
<1>2. RW' = RW /\ ROnce'
  BY RunningSame DEF WorkInv
<1>3. QW' = QW /\ QOnce'
  BY DEF WorkInv, QW, QOnce
<1>4. Hands' /\ HW' = HW
  BY HandsKept DEF WorkInv
<1>5. Places'
  BY <1>2, <1>3, <1>4 DEF WorkInv, Places
<1>6. Events'
  BY DEF WorkInv, Events
<1>7. QED
  BY <1>1, <1>2, <1>3, <1>4, <1>5, <1>6 DEF WorkInv

LEMMA StepTickle ==
  ASSUME WorkInv, NEW a \in Actors, Tickle(a) PROVE WorkInv'
<1>0. PcType
  BY TypeOfPc DEF WorkInv
<1>1. /\ PcType' /\ Others(a)
      /\ \/ pc'[a] = back[a] /\ back[a] \in Backs
         \/ pc'[a] = "write" /\ back'[a] = back[a]
  <2>1. CASE Return(a)
    BY <1>0, <2>1, ReturnStep DEF PcType
  <2>2. CASE Goto(a, "write")
    <3>1. "write" \in Labels
      BY DEF Labels
    <3>2. QED
      BY <1>0, <2>2, <3>1, GotoStep
  <2>3. QED
    BY <2>1, <2>2 DEF Tickle
<1>2. \A u \in Threads : Running(u)' <=> Running(u)
  <2>1. pc[a] = "tickle"
    BY DEF Tickle
  <2>2. Running(a)' <=> Running(a)
    BY <1>1, <2>1 DEF Running, Backs
  <2>3. QED
    BY <1>1, <2>2, OthersRun
<1>3. \A u \in Threads : pc[u] = "callbacks" => pc'[u] = "callbacks"
  BY <1>1, ThreadsAreActors DEF Others, Tickle
<1>4. QED
  BY <1>1, <1>2, <1>3, Quiet DEF Tickle, WorkInv, IdleType

LEMMA StepWrite ==
  ASSUME WorkInv, NEW a \in Actors, Write(a) PROVE WorkInv'
<1>0. PcType
  BY TypeOfPc DEF WorkInv
<1>1. PcType' /\ Others(a) /\ pc'[a] = back[a] /\ back[a] \in Backs
  BY <1>0, ReturnStep DEF PcType, Write
<1>2. \A u \in Threads : Running(u)' <=> Running(u)
  <2>1. pc[a] = "write"
    BY DEF Write
  <2>2. Running(a)' <=> Running(a)
    BY <1>1, <2>1 DEF Running, Backs
  <2>3. QED
    BY <1>1, <2>2, OthersRun
<1>3. \A u \in Threads : pc[u] = "callbacks" => pc'[u] = "callbacks"
  BY <1>1, ThreadsAreActors DEF Others, Write
<1>4. QED
  BY <1>1, <1>2, <1>3, Quiet DEF Write, WorkInv, IdleType

\* A thread that goes to a label, and neither starts nor ends a piece of work.
LEMMA QuietGoto ==
  ASSUME WorkInv, NEW a \in Actors, NEW label \in Labels, Goto(a, label), ~ Running(a),
         pc[a] # "callbacks", label \notin {"run", "again", "tickle", "write"},
         UNCHANGED <<m_fibers, m_timers, due, cur, got, cbs, io, left, submitted, finished, ready>>
  PROVE  WorkInv'
<1>1. PcType' /\ pc'[a] = label /\ back' = back /\ Others(a)
  BY GotoStep, TypeOfPc DEF WorkInv
<1>2. Running(a)' <=> Running(a)
  BY <1>1 DEF Running
<1>3. \A u \in Threads : Running(u)' <=> Running(u)
  BY <1>1, <1>2, OthersRun
<1>4. \A u \in Threads : pc[u] = "callbacks" => pc'[u] = "callbacks"
  BY <1>1, ThreadsAreActors DEF Others
<1>5. QED
  BY <1>1, <1>3, <1>4, Quiet

LEMMA QuietTickleIf ==
  ASSUME WorkInv, NEW a \in Actors, NEW label \in Backs, NEW condition,
         TickleIf(a, condition, label), ~ Running(a), label # "run", pc[a] # "callbacks",
         UNCHANGED <<m_fibers, m_timers, due, cur, got, cbs, io, left, submitted, finished, ready>>
  PROVE  WorkInv'
<1>1. /\ PcType' /\ Others(a)
      /\ \/ pc'[a] = label
         \/ pc'[a] = "tickle" /\ back'[a] = label
  BY TickleIfStep, TypeOfPc DEF WorkInv
<1>2. Running(a)' <=> Running(a)
  BY <1>1 DEF Running, Backs
<1>3. \A u \in Threads : Running(u)' <=> Running(u)
  BY <1>1, <1>2, OthersRun
<1>4. \A u \in Threads : pc[u] = "callbacks" => pc'[u] = "callbacks"
  BY <1>1, ThreadsAreActors DEF Others
<1>5. QED
  BY <1>1, <1>3, <1>4, Quiet

LEMMA StepIdle ==
  ASSUME WorkInv, NEW t \in Threads, EnterIdle(t) \/ StoppingPending(t) \/ StoppingScheduler(t)
  PROVE  WorkInv'
<1>1. t \in Actors
  BY DEF Actors
<1>2. pc[t] \in {"idle", "pending", "stopping"}
  BY DEF EnterIdle, StoppingPending, StoppingScheduler
<1>3. ~ Running(t)
  BY <1>2 DEF Running
<1>4. Goto(t, "pending") \/ Goto(t, "sleep") \/ Goto(t, "stopping") \/ Goto(t, "fetch")
  BY DEF EnterIdle, StoppingPending, StoppingScheduler, Asleep
<1>5. UNCHANGED <<m_fibers, m_timers, due, cur, got, cbs, io, left, submitted, finished, ready>>
  BY DEF EnterIdle, StoppingPending, StoppingScheduler
<1>6. {"pending", "sleep", "stopping", "fetch"} \subseteq Labels
  BY DEF Labels, Backs
<1>7. QED
  BY <1>1, <1>2, <1>3, <1>4, <1>5, <1>6, QuietGoto

LEMMA StepStop ==
  ASSUME WorkInv, Stop \/ StopTickles PROVE WorkInv'
<1>1. User \in Actors /\ {"stop", "done"} \subseteq Labels /\ "stop" \in Backs
  BY DEF Actors, Labels, Backs
<1>2. ~ Running(User) /\ pc[User] # "callbacks"
  BY DEF Running, Stop, StopTickles
<1>3. UNCHANGED <<m_fibers, m_timers, due, cur, got, cbs, io, left, submitted, finished, ready>>
  BY DEF Stop, StopTickles
<1>4. Goto(User, "stop") \/ Goto(User, "done") \/ TickleIf(User, TRUE, "stop")
  BY DEF Stop, StopTickles
<1>5. QED
  BY <1>1, <1>2, <1>3, <1>4, QuietGoto, QuietTickleIf

LEMMA StepReady ==
  ASSUME WorkInv, NEW j \in Jobs, BecomesReady(j) PROVE WorkInv'
<1>1. IdleType' /\ QOnce' /\ ROnce' /\ Hands' /\ Places'
  <2>1. /\ UNCHANGED <<m_fibers, m_timers, due, pc, back, cur, got, cbs, io, left, submitted, finished>>
        /\ ready' = ready \cup {j}
    BY DEF BecomesReady
  <2>2. IdleType'
    BY <2>1 DEF WorkInv, IdleType
  <2>3. QOnce' /\ QW' = QW
    BY <2>1 DEF WorkInv, QOnce, QW
  <2>4. ROnce' /\ RW' = RW
    BY <2>1, RunningSame DEF WorkInv, Running
  <2>5. Hands' /\ HW' = HW
    BY <2>1, HandsKept DEF WorkInv
  <2>6. QED
    BY <2>1, <2>2, <2>3, <2>4, <2>5 DEF WorkInv, Places
<1>2. Events'
  <2>1. ready' = ready \cup {j} /\ j \in io /\ io' = io /\ got' = got /\ \A t \in Threads : j \notin got[t]
    BY DEF BecomesReady
  <2>2. QED
    BY <2>1 DEF WorkInv, Events
<1>3. QED
  BY <1>1, <1>2 DEF WorkInv

LEMMA StepTick ==
  ASSUME WorkInv, Tick PROVE WorkInv'
<1>1. /\ UNCHANGED <<m_timers, pc, back, cur, got, cbs, io, ready, left, submitted, finished>>
      /\ DOMAIN m_fibers' = DOMAIN m_fibers
      /\ m_fibers' = [k \in DOMAIN m_fibers |->
                        [m_fibers[k] EXCEPT !.age = IF @ > MAX_TIMEOUT THEN @ ELSE @ + 1]]
      /\ due' = [i \in TimerIds |-> IF i \in m_timers THEN (IF due[i] = -MAX_TIMEOUT - 1 THEN due[i] ELSE due[i] - 1) ELSE due[i]]
  BY DEF Tick
<1>2. /\ m_fibers' \in Seq(Entry)
      /\ \A k \in DOMAIN m_fibers : m_fibers'[k].work = m_fibers[k].work
  <2>1. \A k \in DOMAIN m_fibers : m_fibers[k] \in Entry
    BY DEF WorkInv, IdleType
  <2>2. \A k \in DOMAIN m_fibers : m_fibers'[k] \in Entry /\ m_fibers'[k].work = m_fibers[k].work
    BY <1>1, <2>1, IdleLoopAssumption DEF Entry
  <2>3. DOMAIN m_fibers = 1 .. Len(m_fibers) /\ Len(m_fibers) \in Nat
    BY DEF WorkInv, IdleType
  <2>4. m_fibers' \in [1 .. Len(m_fibers) -> Entry]
    BY <1>1, <2>2, <2>3
  <2>5. QED
    BY <2>2, <2>3, <2>4
<1>3. due' \in [TimerIds -> Int]
  BY <1>1, IdleLoopAssumption DEF WorkInv, IdleType
<1>4. IdleType'
  BY <1>1, <1>2, <1>3 DEF WorkInv, IdleType
<1>5. QW' = QW /\ QOnce'
  BY <1>1, <1>2 DEF QW, QOnce, WorkInv
<1>6. RW' = RW /\ ROnce'
  BY <1>1 DEF RW, ROnce, WorkInv, Running
<1>7. Hands' /\ HW' = HW
  BY <1>1, HandsKept DEF WorkInv
<1>8. Places' /\ Events'
  BY <1>1, <1>5, <1>6, <1>7 DEF WorkInv, Places, Events
<1>9. QED
  BY <1>4, <1>5, <1>6, <1>7, <1>8 DEF WorkInv

-----------------------------------------------------------------------------
(***************************************************************************)
(* The steps that move work.                                               *)
(***************************************************************************)
\* The first entry a thread may run.
LEMMA FirstOfMine ==
  ASSUME IdleType, NEW t \in Threads, Mine(t) # {}
  PROVE  \E i \in Mine(t) : \A j \in Mine(t) : i <= j
<1>1. Mine(t) \subseteq Nat
  BY DEF Mine, IdleType
<1>2. QED
  <2>1. PICK i \in Mine(t) : \A j \in Mine(t) : <<j, i>> \notin OpToRel(<, Nat)
    BY <1>1, NatLessThanWellFounded, WFMin
  <2>2. \A j \in Mine(t) : ~ (j < i)
    BY <1>1, <2>1 DEF OpToRel
  <2>3. QED
    BY <1>1, <2>2

\* From the queue to a thread.
LEMMA StepFetch ==
  ASSUME WorkInv, NEW t \in Threads, Fetch(t) PROVE WorkInv'
<1>0. PcType /\ IdleType /\ t \in Actors /\ pc[t] = "fetch"
  BY TypeOfPc, ThreadsAreActors DEF WorkInv, Fetch
<1>1. ~ Running(t)
  BY <1>0 DEF Running
<1>2. CASE Mine(t) = {}
  <2>1. PICK c \in BOOLEAN, label \in {"done", "idle"} : TickleIf(t, c, label)
    BY <1>2 DEF Fetch
  <2>2. label \in Backs /\ label # "run"
    BY DEF Backs
  <2>3. UNCHANGED <<m_fibers, m_timers, due, cur, got, cbs, io, left, submitted, finished, ready>>
    BY <1>2 DEF Fetch
  <2>4. QED
    BY <1>0, <1>1, <2>1, <2>2, <2>3, QuietTickleIf
<1>3. CASE Mine(t) # {}
  <2>1. PICK i \in Mine(t) :
          /\ cur' = [cur EXCEPT ![t] = m_fibers[i].work]
          /\ m_fibers' = RemoveAt(m_fibers, i)
          /\ \E c \in BOOLEAN : TickleIf(t, c, "run")
    <3>1. (CHOOSE i \in Mine(t) : \A j \in Mine(t) : i <= j) \in Mine(t)
      BY <1>0, <1>3, FirstOfMine
    <3>2. QED
      BY <1>3, <3>1 DEF Fetch
  <2>2. i \in DOMAIN m_fibers
    BY <1>0 DEF Mine, IdleType
  <2>3. PICK w : w = m_fibers[i].work
    OBVIOUS
  <2>4. w \in QW /\ w \in Work
    <3>1. m_fibers[i] \in Entry
      BY <1>0, <2>2 DEF IdleType
    <3>2. w \in Work
      BY <2>3, <3>1 DEF Entry
    <3>3. w \in QW
      BY <2>2, <2>3 DEF QW
    <3>4. QED
      BY <3>2, <3>3
  <2>5. m_fibers' \in Seq(Entry) /\ QOnce' /\ QW' = QW \ {w}
    BY <1>0, <2>1, <2>2, <2>3, QueueRemove DEF IdleType, WorkInv
  <2>6. /\ PcType' /\ Others(t)
        /\ \/ pc'[t] = "run"
           \/ pc'[t] = "tickle" /\ back'[t] = "run"
    <3>1. "run" \in Backs
      BY DEF Backs
    <3>2. QED
      BY <1>0, <2>1, <3>1, TickleIfStep
  <2>7. Running(t)' /\ \A u \in Threads \ {t} : Running(u)' <=> Running(u)
    BY <1>0, <2>6, OthersRun DEF Running
  <2>8. RW' = RW \cup {w} /\ ROnce'
    <3>1. w \notin RW
      BY <2>4 DEF WorkInv, Places
    <3>2. cur \in [Threads -> Work \cup {Any_}] /\ ROnce /\ cur' = [cur EXCEPT ![t] = w]
      BY <1>0, <2>1, <2>3 DEF IdleType, WorkInv
    <3>3. QED
      BY <1>1, <2>7, <3>1, <3>2, RunningIn
  <2>9. UNCHANGED <<m_timers, due, got, cbs, io, ready, left, submitted, finished>>
    BY <1>3 DEF Fetch
  <2>10. IdleType'
    BY <1>0, <2>1, <2>3, <2>4, <2>5, <2>6, <2>9 DEF IdleType, PcType
  <2>11. Hands' /\ HW' = HW
    BY <1>0, <2>6, <2>9, HandsOther
  <2>12. Places'
    BY <2>4, <2>5, <2>8, <2>9, <2>11 DEF WorkInv, Places
  <2>13. Events'
    BY <2>9 DEF WorkInv, Events
  <2>14. QED
    BY <2>5, <2>8, <2>10, <2>11, <2>12, <2>13 DEF WorkInv
<1>4. QED
  BY <1>2, <1>3

\* From a thread to the descriptor, to the finished ones, or once more round the loop.
LEMMA StepRun ==
  ASSUME WorkInv, NEW t \in Threads, Run(t) PROVE WorkInv'
<1>0. PcType /\ IdleType /\ t \in Actors /\ pc[t] = "run"
  BY TypeOfPc, ThreadsAreActors DEF WorkInv, Run
<1>1. PICK w : w = cur[t]
  OBVIOUS
<1>2. Running(t) /\ w \in RW /\ w \in submitted /\ w \in Work
  <2>1. Running(t)
    BY <1>0 DEF Running
  <2>2. w \in RW
    BY <1>1, <2>1 DEF RW
  <2>3. QED
    BY <1>0, <2>1, <2>2 DEF WorkInv, Places, IdleType
<1>3. UNCHANGED <<m_fibers, m_timers, due, got, cbs, ready, submitted>>
  BY DEF Run
<1>4. QW' = QW /\ QOnce'
  BY <1>3 DEF WorkInv, QW, QOnce
<1>5. "fetch" \in Labels /\ "again" \in Labels
  BY DEF Labels, Backs
<1>6. left' \in [Jobs -> Int]
  <2>1. left' = left \/ (w \in Jobs /\ left' = [left EXCEPT ![w] = @ - 1])
    BY <1>1 DEF Run
  <2>2. QED
    BY <1>0, <2>1 DEF IdleType
<1>7. CASE Goto(t, "fetch") /\ ((io' = io \cup {w} /\ w \in Jobs /\ finished' = finished)
                                \/ (finished' = finished \cup {w} /\ io' = io))
  <2>1. PcType' /\ pc'[t] = "fetch" /\ Others(t)
    BY <1>0, <1>5, <1>7, GotoStep
  <2>2. ~ Running(t)' /\ \A u \in Threads \ {t} : Running(u)' <=> Running(u)
    BY <1>0, <2>1, OthersRun DEF Running
  <2>3. cur' = [cur EXCEPT ![t] = Any_]
    BY <2>1 DEF Run
  <2>4. RW' = RW \ {w} /\ ROnce'
    BY <1>0, <1>1, <1>2, <2>2, <2>3, RunningOut DEF IdleType, WorkInv
  <2>5. IdleType'
    BY <1>0, <1>3, <1>6, <1>7, <2>1, <2>3 DEF IdleType, PcType
  <2>6. Hands' /\ HW' = HW
    BY <1>0, <1>3, <2>1, HandsOther
  <2>7. Places'
    BY <1>2, <1>3, <1>4, <1>7, <2>4, <2>6 DEF WorkInv, Places
  <2>8. Events'
    BY <1>3, <1>7 DEF WorkInv, Events
  <2>9. QED
    BY <1>4, <2>4, <2>5, <2>6, <2>7, <2>8 DEF WorkInv
<1>8. CASE Goto(t, "again") /\ io' = io /\ finished' = finished
  <2>1. PcType' /\ pc'[t] = "again" /\ Others(t)
    BY <1>0, <1>5, <1>8, GotoStep
  <2>2. \A u \in Threads : Running(u)' <=> Running(u)
    BY <1>0, <1>2, <2>1, OthersRun DEF Running
  <2>3. cur' = cur
    BY <1>0, <2>1 DEF Run, IdleType
  <2>4. RW' = RW /\ ROnce'
    BY <2>2, <2>3, RunningSame DEF WorkInv
  <2>5. IdleType'
    BY <1>0, <1>3, <1>6, <1>8, <2>1, <2>3 DEF IdleType, PcType
  <2>6. Hands' /\ HW' = HW
    BY <1>0, <1>3, <2>1, HandsOther
  <2>7. Places' /\ Events'
    BY <1>3, <1>4, <1>8, <2>4, <2>6 DEF WorkInv, Places, Events
  <2>8. QED
    BY <1>4, <2>4, <2>5, <2>6, <2>7 DEF WorkInv
<1>9. QED
  BY <1>1, <1>7, <1>8 DEF Run

\* From a thread back to the queue.
LEMMA StepAgain ==
  ASSUME WorkInv, NEW t \in Threads, Again(t) PROVE WorkInv'
<1>0. PcType /\ IdleType /\ t \in Actors /\ pc[t] = "again"
  BY TypeOfPc, ThreadsAreActors DEF WorkInv, Again
<1>1. PICK w : w = cur[t]
  OBVIOUS
<1>2. Running(t) /\ w \in RW /\ w \in Work /\ w \notin QW
  <2>1. Running(t)
    BY <1>0 DEF Running
  <2>2. w \in RW
    BY <1>1, <2>1 DEF RW
  <2>3. QED
    BY <1>0, <2>1, <2>2 DEF WorkInv, Places, IdleType
<1>3. UNCHANGED <<m_timers, due, got, cbs, io, ready, left, submitted, finished>>
  BY DEF Again
<1>4. m_fibers' \in Seq(Entry) /\ QOnce' /\ QW' = QW \cup {w}
  BY <1>0, <1>1, <1>2, QueueOne DEF IdleType, WorkInv, Again
<1>5. /\ PcType' /\ Others(t)
      /\ \/ pc'[t] = "fetch"
         \/ pc'[t] = "tickle" /\ back'[t] = "fetch"
  <2>1. "fetch" \in Backs
    BY DEF Backs
  <2>2. PICK c \in BOOLEAN : TickleIf(t, c, "fetch")
    BY DEF Again
  <2>3. QED
    BY <1>0, <2>1, <2>2, TickleIfStep
<1>6. ~ Running(t)' /\ \A u \in Threads \ {t} : Running(u)' <=> Running(u)
  BY <1>0, <1>5, OthersRun DEF Running
<1>7. cur' = [cur EXCEPT ![t] = Any_]
  BY DEF Again
<1>8. RW' = RW \ {w} /\ ROnce'
  BY <1>0, <1>1, <1>2, <1>6, <1>7, RunningOut DEF IdleType, WorkInv
<1>9. IdleType'
  BY <1>0, <1>3, <1>4, <1>5, <1>7 DEF IdleType, PcType
<1>10. Hands' /\ HW' = HW
  BY <1>0, <1>3, <1>5, HandsOther
<1>11. Places'
  BY <1>2, <1>3, <1>4, <1>8, <1>10 DEF WorkInv, Places
<1>12. Events'
  BY <1>3 DEF WorkInv, Events
<1>13. QED
  BY <1>4, <1>8, <1>9, <1>10, <1>11, <1>12 DEF WorkInv

\* A finite set of work that is not in the queue is put there, in some order.
LEMMA QueueAll ==
  ASSUME m_fibers \in Seq(Entry), QOnce, NEW S \in SUBSET Work, IsFiniteSet(S), S \cap QW = {},
         NEW ws \in SetToSeqs(S), schedule(ws, Any_)
  PROVE  /\ m_fibers' \in Seq(Entry) /\ QOnce' /\ QW' = QW \cup S
         /\ \A k \in DOMAIN m_fibers' : \/ m_fibers'[k].age = 0
                                        \/ \E l \in DOMAIN m_fibers : m_fibers'[k] = m_fibers[l]
<1>1. PICK n : n = Cardinality(S)
  OBVIOUS
<1>2. /\ n \in Nat /\ ws \in [1 .. n -> S] /\ {ws[k] : k \in 1 .. n} = S
      /\ \A k, l \in 1 .. n : ws[k] = ws[l] => k = l
  BY <1>1, AllOfThem
<1>3. ws \in [1 .. n -> Work] /\ \A k \in 1 .. n : ws[k] \notin QW
  BY <1>2
<1>4. /\ m_fibers' \in Seq(Entry) /\ QOnce' /\ QW' = QW \cup {ws[k] : k \in 1 .. n}
      /\ \A k \in DOMAIN m_fibers' : \/ m_fibers'[k].age = 0
                                     \/ \E l \in DOMAIN m_fibers : m_fibers'[k] = m_fibers[l]
  BY <1>2, <1>3, QueueAppend
<1>5. QED
  BY <1>2, <1>4

\* What epoll found is the thread's.
LEMMA StepWake ==
  ASSUME WorkInv, NEW t \in Threads, Wake(t) PROVE WorkInv'
<1>0. PcType /\ IdleType /\ t \in Actors /\ pc[t] = "sleep"
  BY TypeOfPc, ThreadsAreActors DEF WorkInv, Wake
<1>1. /\ got' = [got EXCEPT ![t] = ready] /\ ready' = {}
      /\ Goto(t, "collect")
      /\ UNCHANGED <<m_fibers, m_timers, due, cur, cbs, io, left, submitted, finished>>
  BY DEF Wake
<1>2. PcType' /\ pc'[t] = "collect" /\ Others(t)
  <2>1. "collect" \in Labels
    BY DEF Labels
  <2>2. QED
    BY <1>0, <1>1, <2>1, GotoStep
<1>3. \A u \in Threads : Running(u)' <=> Running(u)
  <2>1. ~ Running(t) /\ ~ Running(t)'
    BY <1>0, <1>2 DEF Running
  <2>2. QED
    BY <1>0, <1>2, <2>1, OthersRun
<1>4. RW' = RW /\ ROnce' /\ QW' = QW /\ QOnce'
  <2>1. RW' = RW /\ ROnce'
    BY <1>1, <1>3, RunningSame DEF WorkInv
  <2>2. QW' = QW /\ QOnce'
    BY <1>1 DEF WorkInv, QW, QOnce
  <2>3. QED
    BY <2>1, <2>2
<1>5. Hands' /\ HW' = HW
  BY <1>0, <1>1, <1>2, HandsOther
<1>6. IdleType'
  BY <1>0, <1>1, <1>2 DEF IdleType, PcType
<1>7. Places'
  BY <1>1, <1>4, <1>5 DEF WorkInv, Places
<1>8. Events'
  <2>1. got'[t] = ready /\ \A u \in Threads \ {t} : got'[u] = got[u]
    BY <1>0, <1>1 DEF IdleType
  <2>2. QED
    BY <1>1, <2>1 DEF WorkInv, Events
<1>9. QED
  BY <1>4, <1>5, <1>6, <1>7, <1>8 DEF WorkInv

\* One thread's hand changes: what the others hold, and all of it together.
LEMMA HandOfOne ==
  ASSUME Hands, NEW t \in Threads, NEW c, cbs' = [cbs EXCEPT ![t] = c]
  PROVE  Members(cbs[t]) \subseteq HW /\ HW' = (HW \ Members(cbs[t])) \cup Members(c)
<1>1. cbs'[t] = c /\ \A u \in Threads \ {t} : cbs'[u] = cbs[u]
  BY DEF Hands
<1>2. \A u \in Threads \ {t} : Members(cbs[u]) \cap Members(cbs[t]) = {}
  BY DEF Hands, Members
<1>3. HW = UNION {Members(cbs[u]) : u \in Threads}
  BY DEF HW
<1>4. HW' = UNION {Members(cbs'[u]) : u \in Threads}
  BY DEF HW, Members
<1>5. \A w \in HW' : w \in (HW \ Members(cbs[t])) \cup Members(c)
  BY <1>1, <1>2, <1>3, <1>4
<1>6. \A w \in (HW \ Members(cbs[t])) \cup Members(c) : w \in HW'
  BY <1>1, <1>3, <1>4
<1>7. QED
  BY <1>3, <1>5, <1>6

\* From the timers to the thread's hand.
LEMMA StepCollect ==
  ASSUME WorkInv, NEW t \in Threads, listExpiredCb(t) PROVE WorkInv'
<1>0. PcType /\ IdleType /\ Hands /\ t \in Actors /\ pc[t] = "collect"
  BY TypeOfPc, ThreadsAreActors DEF WorkInv, listExpiredCb
<1>1. PICK E : E = {i \in m_timers : due[i] <= 0}
  OBVIOUS
<1>2. PICK c \in SetToSeqs(E) : cbs' = [cbs EXCEPT ![t] = c]
  BY <1>1 DEF listExpiredCb, InOrder
<1>3. E \subseteq m_timers /\ E \subseteq TimerIds /\ IsFiniteSet(E)
  <2>1. E \in SUBSET TimerIds /\ E \subseteq m_timers
    BY <1>0, <1>1 DEF IdleType
  <2>2. QED
    BY <2>1, IdleLoopAssumption, FS_Subset
<1>4. PICK n : n = Cardinality(E)
  OBVIOUS
<1>5. /\ n \in Nat /\ c \in [1 .. n -> E] /\ {c[k] : k \in 1 .. n} = E
      /\ \A k, l \in 1 .. n : c[k] = c[l] => k = l
  BY <1>3, <1>4, AllOfThem
<1>6. c \in Seq(TimerIds) /\ DOMAIN c = 1 .. n /\ E = {c[k] : k \in DOMAIN c}
  <2>1. c \in [1 .. n -> TimerIds]
    BY <1>3, <1>5
  <2>2. QED
    BY <1>5, <2>1
<1>7. /\ m_timers' = m_timers \ E
      /\ \/ Goto(t, "events") /\ E = {}
         \/ Goto(t, "callbacks")
      /\ UNCHANGED <<m_fibers, due, cur, got, io, ready, left, submitted, finished>>
  BY <1>1 DEF listExpiredCb
<1>8. PcType' /\ pc'[t] \in {"events", "callbacks"} /\ Others(t) /\ (pc'[t] = "events" => E = {})
  <2>1. "events" \in Labels /\ "callbacks" \in Labels
    BY DEF Labels
  <2>2. CASE Goto(t, "events") /\ E = {}
    BY <1>0, <2>1, <2>2, GotoStep
  <2>3. CASE Goto(t, "callbacks")
    BY <1>0, <2>1, <2>3, GotoStep
  <2>4. QED
    BY <1>7, <2>2, <2>3
<1>9. \A u \in Threads : Running(u)' <=> Running(u)
  <2>1. ~ Running(t) /\ ~ Running(t)'
    BY <1>0, <1>8 DEF Running
  <2>2. QED
    BY <1>0, <1>8, <2>1, OthersRun
<1>10. RW' = RW /\ ROnce' /\ QW' = QW /\ QOnce'
  <2>1. RW' = RW /\ ROnce'
    BY <1>7, <1>9, RunningSame DEF WorkInv
  <2>2. QW' = QW /\ QOnce'
    BY <1>7 DEF WorkInv, QW, QOnce
  <2>3. QED
    BY <2>1, <2>2
<1>11. cbs[t] = <<>> /\ E \cap HW = {} /\ HW' = HW \cup E
  <2>1. cbs[t] = <<>>
    BY <1>0 DEF Hands
  <2>2. Members(cbs[t]) = {} /\ Members(c) = E
    BY <1>6, <2>1 DEF Members
  <2>3. HW' = (HW \ Members(cbs[t])) \cup Members(c)
    BY <1>0, <1>2, HandOfOne
  <2>4. QED
    BY <1>3, <2>1, <2>2, <2>3 DEF WorkInv, Places
<1>12. Hands'
  <2>1. cbs'[t] = c /\ \A u \in Threads \ {t} : cbs'[u] = cbs[u]
    BY <1>0, <1>2 DEF Hands
  <2>2. cbs' \in [Threads -> Seq(TimerIds)]
    BY <1>0, <1>2, <1>6 DEF Hands
  <2>3. ASSUME NEW u \in Threads, pc'[u] # "callbacks" PROVE cbs'[u] = <<>>
    <3>1. CASE u = t
      <4>1. E = {}
        BY <1>8, <2>3, <3>1
      <4>2. n = 0
        BY <1>4, <4>1, FS_EmptySet
      <4>3. QED
        BY <1>6, <2>1, <3>1, <4>2
    <3>2. CASE u # t
      BY <1>0, <1>8, <2>1, <2>3, <3>2, ThreadsAreActors DEF Hands, Others
    <3>3. QED
      BY <3>1, <3>2
  <2>4. ASSUME NEW u \in Threads \ {t}, NEW k \in DOMAIN cbs[u], NEW l \in DOMAIN c, cbs[u][k] = c[l]
        PROVE  FALSE
    <3>1. cbs[u][k] \in HW
      BY DEF HW, Members
    <3>2. c[l] \in E
      BY <1>6
    <3>3. QED
      BY <1>11, <2>4, <3>1, <3>2
  <2>5. ASSUME NEW u \in Threads, NEW v \in Threads, NEW k \in DOMAIN cbs'[u],
               NEW l \in DOMAIN cbs'[v], cbs'[u][k] = cbs'[v][l]
        PROVE  u = v /\ k = l
    <3>1. CASE u = t /\ v = t
      BY <1>5, <1>6, <2>1, <2>5, <3>1
    <3>2. CASE u = t /\ v # t
      BY <2>1, <2>4, <2>5, <3>2
    <3>3. CASE u # t /\ v = t
      BY <2>1, <2>4, <2>5, <3>3
    <3>4. CASE u # t /\ v # t
      BY <1>0, <2>1, <2>5, <3>4 DEF Hands
    <3>5. QED
      BY <3>1, <3>2, <3>3, <3>4
  <2>6. QED
    BY <2>2, <2>3, <2>5 DEF Hands
<1>13. IdleType'
  BY <1>0, <1>7, <1>8 DEF IdleType, PcType
<1>14. Places'
  BY <1>3, <1>7, <1>10, <1>11 DEF WorkInv, Places
<1>15. Events'
  BY <1>7 DEF WorkInv, Events
<1>16. QED
  BY <1>10, <1>12, <1>13, <1>14, <1>15 DEF WorkInv

\* From the thread's hand to the queue.
LEMMA StepCallbacks ==
  ASSUME WorkInv, NEW t \in Threads, ScheduleCallbacks(t) PROVE WorkInv'
<1>0. PcType /\ IdleType /\ Hands /\ t \in Actors /\ pc[t] = "callbacks"
  BY TypeOfPc, ThreadsAreActors DEF WorkInv, ScheduleCallbacks
<1>1. PICK c : c = cbs[t]
  OBVIOUS
<1>2. PICK n : n = Len(c)
  OBVIOUS
<1>3. PICK E : E = {c[k] : k \in DOMAIN c}
  OBVIOUS
<1>4. /\ n \in Nat /\ DOMAIN c = 1 .. n /\ c \in [1 .. n -> TimerIds]
      /\ \A k, l \in 1 .. n : c[k] = c[l] => k = l
  <2>1. c \in Seq(TimerIds)
    BY <1>0, <1>1 DEF Hands
  <2>2. n \in Nat /\ DOMAIN c = 1 .. n /\ c \in [1 .. n -> TimerIds]
    BY <1>2, <2>1
  <2>3. QED
    BY <1>0, <1>1, <2>2 DEF Hands
<1>5. E \subseteq HW /\ HW' = HW \ E /\ <<>> \in Seq(TimerIds)
  <2>1. Members(<<>>) = {} /\ Members(cbs[t]) = E
    BY <1>1, <1>3 DEF Members
  <2>2. cbs' = [cbs EXCEPT ![t] = <<>>]
    BY DEF ScheduleCallbacks
  <2>3. Members(cbs[t]) \subseteq HW /\ HW' = (HW \ Members(cbs[t])) \cup Members(<<>>)
    BY <1>0, <2>2, HandOfOne
  <2>4. QED
    BY <2>1, <2>3
<1>6. \A k \in 1 .. n : c[k] \in E
  BY <1>3, <1>4
<1>7. m_fibers' \in Seq(Entry) /\ QOnce' /\ QW' = QW \cup E
  <2>1. c \in [1 .. n -> Work]
    BY <1>4 DEF Work
  <2>2. E \cap QW = {}
    BY <1>5 DEF WorkInv, Places
  <2>3. \A k \in 1 .. n : c[k] \notin QW
    BY <1>6, <2>2
  <2>4. schedule(c, Any_)
    BY <1>1 DEF ScheduleCallbacks
  <2>5. m_fibers' \in Seq(Entry) /\ QOnce' /\ QW' = QW \cup {c[k] : k \in 1 .. n}
    BY <1>0, <1>4, <2>1, <2>3, <2>4, QueueAppend DEF IdleType, WorkInv
  <2>6. QED
    BY <1>3, <1>4, <2>5
<1>8. /\ cbs' = [cbs EXCEPT ![t] = <<>>] /\ Goto(t, "events")
      /\ UNCHANGED <<m_timers, due, cur, got, io, ready, left, submitted, finished>>
  BY DEF ScheduleCallbacks
<1>9. PcType' /\ pc'[t] = "events" /\ Others(t)
  <2>1. "events" \in Labels
    BY DEF Labels
  <2>2. QED
    BY <1>0, <1>8, <2>1, GotoStep
<1>10. \A u \in Threads : Running(u)' <=> Running(u)
  <2>1. ~ Running(t) /\ ~ Running(t)'
    BY <1>0, <1>9 DEF Running
  <2>2. QED
    BY <1>0, <1>9, <2>1, OthersRun
<1>11. RW' = RW /\ ROnce'
  BY <1>8, <1>10, RunningSame DEF WorkInv
<1>12. Hands'
  <2>1. cbs'[t] = <<>> /\ \A u \in Threads \ {t} : cbs'[u] = cbs[u]
    BY <1>0, <1>8 DEF Hands
  <2>2. cbs' \in [Threads -> Seq(TimerIds)]
    BY <1>0, <1>5, <1>8 DEF Hands
  <2>3. ASSUME NEW u \in Threads, pc'[u] # "callbacks" PROVE cbs'[u] = <<>>
    <3>1. CASE u # t
      BY <1>0, <1>9, <2>1, <2>3, <3>1, ThreadsAreActors DEF Hands, Others
    <3>2. QED
      BY <2>1, <3>1
  <2>4. ASSUME NEW u \in Threads, NEW v \in Threads, NEW k \in DOMAIN cbs'[u],
               NEW l \in DOMAIN cbs'[v], cbs'[u][k] = cbs'[v][l]
        PROVE  u = v /\ k = l
    <3>1. u # t /\ v # t
      BY <2>1
    <3>2. QED
      BY <1>0, <2>1, <2>4, <3>1 DEF Hands
  <2>5. QED
    BY <2>2, <2>3, <2>4 DEF Hands
<1>13. IdleType'
  BY <1>0, <1>7, <1>8, <1>9 DEF IdleType, PcType
<1>14. Places'
  <2>1. HW \cap io = {}
    <3>1. HW \subseteq TimerIds
      BY <1>0 DEF Hands, HW, Members
    <3>2. QED
      BY <1>0, <3>1, IdleLoopAssumption DEF IdleType
  <2>2. QED
    BY <1>5, <1>7, <1>8, <1>11, <2>1 DEF WorkInv, Places
<1>15. Events'
  BY <1>8 DEF WorkInv, Events
<1>16. QED
  BY <1>7, <1>11, <1>12, <1>13, <1>14, <1>15 DEF WorkInv

\* From the descriptors to the queue.
LEMMA StepEvents ==
  ASSUME WorkInv, NEW t \in Threads, HandleEvents(t) PROVE WorkInv'
<1>0. PcType /\ IdleType /\ t \in Actors /\ pc[t] = "events"
  BY TypeOfPc, ThreadsAreActors DEF WorkInv, HandleEvents
<1>1. PICK E : E = got[t] \ {"pipe"}
  OBVIOUS
<1>2. PICK ws \in SetToSeqs(E) : schedule(ws, Any_)
  BY <1>1 DEF HandleEvents
<1>3. E \subseteq io /\ E \subseteq Work /\ IsFiniteSet(E) /\ E \cap QW = {}
  <2>1. E \in SUBSET Jobs /\ E \subseteq io
    BY <1>0, <1>1 DEF IdleType, WorkInv, Events
  <2>2. IsFiniteSet(E)
    BY <2>1, IdleLoopAssumption, FS_Subset
  <2>3. QED
    BY <2>1, <2>2 DEF Work, WorkInv, Places
<1>4. m_fibers' \in Seq(Entry) /\ QOnce' /\ QW' = QW \cup E
  BY <1>0, <1>2, <1>3, QueueAll DEF WorkInv, IdleType
<1>5. /\ got' = [got EXCEPT ![t] = {}] /\ io' = io \ E /\ Goto(t, "fetch")
      /\ UNCHANGED <<m_timers, due, cur, cbs, ready, left, submitted, finished>>
  BY <1>1 DEF HandleEvents
<1>6. PcType' /\ pc'[t] = "fetch" /\ Others(t)
  <2>1. "fetch" \in Labels
    BY DEF Labels, Backs
  <2>2. QED
    BY <1>0, <1>5, <2>1, GotoStep
<1>7. \A u \in Threads : Running(u)' <=> Running(u)
  <2>1. ~ Running(t) /\ ~ Running(t)'
    BY <1>0, <1>6 DEF Running
  <2>2. QED
    BY <1>0, <1>6, <2>1, OthersRun
<1>8. RW' = RW /\ ROnce'
  BY <1>5, <1>7, RunningSame DEF WorkInv
<1>9. IdleType'
  BY <1>0, <1>4, <1>5, <1>6 DEF IdleType, PcType
<1>H. Hands' /\ HW' = HW
  BY <1>0, <1>5, <1>6, HandsOther
<1>10. Places'
  <2>1. m_timers \cap io = {} /\ HW \cap io = {}
    <3>1. HW \subseteq TimerIds
      BY DEF WorkInv, Hands, HW, Members
    <3>2. QED
      BY <1>0, <3>1, IdleLoopAssumption DEF IdleType
  <2>2. QED
    BY <1>3, <1>4, <1>5, <1>8, <1>H, <2>1 DEF WorkInv, Places
<1>11. Events'
  <2>1. got'[t] = {} /\ \A u \in Threads \ {t} : got'[u] = got[u]
    BY <1>0, <1>5 DEF IdleType
  <2>2. /\ ready \subseteq io \cup {"pipe"} /\ got[t] \cap ready \subseteq {"pipe"}
        /\ E \subseteq got[t] /\ "pipe" \notin E
    BY <1>1 DEF WorkInv, Events
  <2>3. ready' \subseteq io' \cup {"pipe"}
    BY <1>5, <2>2
  <2>4. ASSUME NEW u \in Threads
        PROVE  got'[u] \subseteq io' \cup {"pipe"} /\ got'[u] \cap ready' \subseteq {"pipe"}
    <3>1. CASE u = t
      BY <2>1, <3>1
    <3>2. CASE u # t
      <4>1. /\ got'[u] = got[u] /\ got[u] \subseteq io \cup {"pipe"} /\ got[u] \cap ready \subseteq {"pipe"}
            /\ got[u] \cap got[t] \subseteq {"pipe"}
        BY <2>1, <3>2 DEF WorkInv, Events
      <4>2. QED
        BY <1>5, <2>2, <4>1
    <3>3. QED
      BY <3>1, <3>2
  <2>5. \A u, v \in Threads : u # v => got'[u] \cap got'[v] \subseteq {"pipe"}
    BY <2>1 DEF WorkInv, Events
  <2>6. QED
    BY <2>3, <2>4, <2>5 DEF Events
<1>12. QED
  BY <1>4, <1>8, <1>9, <1>H, <1>10, <1>11 DEF WorkInv

LEMMA StepSubmit ==
  ASSUME WorkInv, NEW j \in Jobs, Submit(j) PROVE WorkInv'
<1>0. PcType /\ IdleType /\ User \in Actors /\ pc[User] = "user"
  BY TypeOfPc DEF WorkInv, Submit, Actors
<1>1. j \notin submitted /\ j \in Work /\ j \notin QW /\ Pin[j] \in Threads \cup {Any_}
  BY IdleLoopAssumption DEF Submit, WorkInv, Places, Work
<1>2. m_fibers' \in Seq(Entry) /\ QOnce' /\ QW' = QW \cup {j}
  BY <1>0, <1>1, QueueOne DEF Submit, IdleType, WorkInv
<1>3. UNCHANGED <<m_timers, due, cur, got, cbs, io, ready, left, finished>> /\ submitted' = submitted \cup {j}
  BY DEF Submit
<1>4. /\ PcType' /\ Others(User)
      /\ \/ pc'[User] = "user"
         \/ pc'[User] = "tickle" /\ back'[User] = "user"
  <2>1. "user" \in Backs
    BY DEF Backs
  <2>2. PICK c \in BOOLEAN : TickleIf(User, c, "user")
    BY DEF Submit
  <2>3. QED
    BY <1>0, <2>1, <2>2, TickleIfStep
<1>5. \A u \in Threads : Running(u)' <=> Running(u)
  BY <1>0, <1>4, OthersRun, ThreadsAreActors
<1>6. RW' = RW /\ ROnce'
  BY <1>3, <1>5, RunningSame DEF WorkInv
<1>7. IdleType'
  BY <1>0, <1>1, <1>2, <1>3, <1>4 DEF IdleType, PcType
<1>8. Hands' /\ HW' = HW
  BY <1>0, <1>3, <1>4, HandsOther
<1>9. Places'
  BY <1>1, <1>2, <1>3, <1>6, <1>8 DEF WorkInv, Places
<1>10. Events'
  BY <1>3 DEF WorkInv, Events
<1>11. QED
  BY <1>2, <1>6, <1>7, <1>8, <1>9, <1>10 DEF WorkInv

LEMMA StepAddTimer ==
  ASSUME WorkInv, NEW i \in TimerIds, addTimer(i) PROVE WorkInv'
<1>0. PcType /\ IdleType /\ User \in Actors /\ pc[User] = "user"
  BY TypeOfPc DEF WorkInv, addTimer, Actors
<1>1. i \notin submitted /\ i \in Work
  BY DEF addTimer, Work
<1>2. /\ UNCHANGED <<m_fibers, due, cur, got, cbs, io, ready, left, finished>>
      /\ submitted' = submitted \cup {i} /\ m_timers' = m_timers \cup {i}
  BY DEF addTimer
<1>3. QOnce' /\ QW' = QW
  BY <1>2 DEF WorkInv, QOnce, QW
<1>4. /\ PcType' /\ Others(User)
      /\ \/ pc'[User] = "user"
         \/ pc'[User] = "tickle" /\ back'[User] = "user"
  <2>1. "user" \in Backs
    BY DEF Backs
  <2>2. PICK c \in BOOLEAN : TickleIf(User, c, "user")
    BY DEF addTimer
  <2>3. QED
    BY <1>0, <2>1, <2>2, TickleIfStep
<1>5. \A u \in Threads : Running(u)' <=> Running(u)
  BY <1>0, <1>4, OthersRun, ThreadsAreActors
<1>6. RW' = RW /\ ROnce'
  BY <1>2, <1>5, RunningSame DEF WorkInv
<1>7. IdleType'
  BY <1>0, <1>1, <1>2, <1>4 DEF IdleType, PcType
<1>8. Hands' /\ HW' = HW
  BY <1>0, <1>2, <1>4, HandsOther
<1>9. Places'
  BY <1>1, <1>2, <1>3, <1>6, <1>8 DEF WorkInv, Places
<1>10. Events'
  BY <1>2 DEF WorkInv, Events
<1>11. QED
  BY <1>3, <1>6, <1>7, <1>8, <1>9, <1>10 DEF WorkInv

LEMMA WorkNext == WorkInv /\ [Next]_vars => WorkInv'
<1> SUFFICES ASSUME WorkInv, [Next]_vars PROVE WorkInv'
  OBVIOUS
<1>1. CASE UNCHANGED vars
  <2>1. UNCHANGED <<m_fibers, m_timers, due, pc, back, cur, got, cbs, io, left, submitted, finished, ready>>
    BY <1>1 DEF vars
  <2>2. PcType' /\ \A u \in Threads : Running(u)' <=> Running(u)
    BY <2>1, TypeOfPc DEF WorkInv, PcType, Running
  <2>3. QED
    BY <2>1, <2>2, Quiet
<1>2. ASSUME NEW a \in Actors, Tickle(a) \/ Write(a) PROVE WorkInv'
  BY <1>2, StepTickle, StepWrite
<1>3. ASSUME NEW t \in Threads, Step(t) PROVE WorkInv'
  BY <1>3, StepFetch, StepRun, StepAgain, StepIdle, StepWake, StepCollect,
     StepCallbacks, StepEvents DEF Step
<1>4. ASSUME NEW j \in Jobs, Submit(j) \/ BecomesReady(j) PROVE WorkInv'
  BY <1>4, StepSubmit, StepReady
<1>5. ASSUME NEW i \in TimerIds, addTimer(i) PROVE WorkInv'
  BY <1>5, StepAddTimer
<1>6. CASE Stop \/ StopTickles \/ Tick
  BY <1>6, StepStop, StepTick
<1>7. QED
  BY <1>1, <1>2, <1>3, <1>4, <1>5, <1>6 DEF Next

\* What the invariant says of one piece of work, counted.
LEMMA OneOrNone ==
  ASSUME NEW S, \A x, y \in S : x = y
  PROVE  Cardinality(S) = IF S = {} THEN 0 ELSE 1
<1>1. CASE S = {}
  BY <1>1, FS_EmptySet
<1>2. CASE S # {}
  <2>1. PICK x : S = {x}
    BY <1>2
  <2>2. QED
    BY <2>1, FS_Singleton
<1>3. QED
  BY <1>1, <1>2

LEMMA CountOfWork == WorkInv => WorkConserved
<1> SUFFICES ASSUME WorkInv, NEW w \in submitted
             PROVE  Cardinality({k \in DOMAIN m_fibers : m_fibers[k].work = w})
                      + Cardinality({t \in Threads : cur[t] = w
                           /\ (pc[t] \in {"run", "again"}
                               \/ (pc[t] \in {"tickle", "write"} /\ back[t] = "run"))})
                      + Cardinality({t \in Threads : \E k \in DOMAIN cbs[t] : cbs[t][k] = w})
                      + Cardinality({w} \cap m_timers) + Cardinality({w} \cap io)
                      + Cardinality({w} \cap finished) = 1
  BY DEF WorkConserved
<1> DEFINE Q == {k \in DOMAIN m_fibers : m_fibers[k].work = w}
           R == {t \in Threads : cur[t] = w
                   /\ (pc[t] \in {"run", "again"}
                       \/ (pc[t] \in {"tickle", "write"} /\ back[t] = "run"))}
           H == {t \in Threads : \E k \in DOMAIN cbs[t] : cbs[t][k] = w}
<1>1. Cardinality(Q) = IF Q = {} THEN 0 ELSE 1
  BY OneOrNone DEF WorkInv, QOnce
<1>2. Cardinality(R) = IF R = {} THEN 0 ELSE 1
  BY OneOrNone DEF WorkInv, ROnce, Running
<1>3. \A S : Cardinality({w} \cap S) = IF w \in S THEN 1 ELSE 0
  <2> TAKE S
  <2>1. Cardinality({w} \cap S) = IF {w} \cap S = {} THEN 0 ELSE 1
    BY OneOrNone
  <2>2. QED
    BY <2>1
<1>4. Q # {} <=> w \in QW
  BY DEF QW
<1>5. R # {} <=> w \in RW
  BY DEF RW, Running
<1>9. Cardinality(H) = IF H = {} THEN 0 ELSE 1
  <2>1. ASSUME NEW t \in H, NEW u \in H PROVE t = u
    <3>1. PICK k \in DOMAIN cbs[t] : cbs[t][k] = w
      OBVIOUS
    <3>2. PICK l \in DOMAIN cbs[u] : cbs[u][l] = w
      OBVIOUS
    <3>3. QED
      BY <3>1, <3>2 DEF WorkInv, Hands
  <2> HIDE DEF H
  <2>2. QED
    BY <2>1, OneOrNone
<1>10. H # {} <=> w \in HW
  BY DEF HW, Members
<1> HIDE DEF Q, R, H
<1>6. m_timers \cap io = {} /\ HW \cap io = {}
  <2>1. HW \subseteq TimerIds
    BY DEF WorkInv, Hands, HW, Members
  <2>2. QED
    BY <2>1, IdleLoopAssumption DEF WorkInv, IdleType
<1>7. /\ w \in QW \/ w \in RW \/ w \in HW \/ w \in m_timers \/ w \in io \/ w \in finished
      /\ ~ (w \in QW /\ w \in RW)
      /\ w \in QW \/ w \in RW =>
            w \notin HW /\ w \notin m_timers /\ w \notin io /\ w \notin finished
      /\ w \in HW \/ w \in m_timers \/ w \in io => w \notin finished
      /\ ~ (w \in m_timers /\ w \in io) /\ ~ (w \in m_timers /\ w \in HW)
      /\ ~ (w \in HW /\ w \in io)
  BY <1>6 DEF WorkInv, Places
<1>8. Cardinality(Q) + Cardinality(R) + Cardinality(H) + Cardinality({w} \cap m_timers)
        + Cardinality({w} \cap io) + Cardinality({w} \cap finished) = 1
  BY <1>1, <1>2, <1>3, <1>4, <1>5, <1>7, <1>9, <1>10
<1>11. QED
  BY <1>8 DEF Q, R, H

\* WorkConserved: a job or a timer handed to the manager is at any moment in exactly one
\* place: in the queue, on one thread, in the timer set, in the hand of one thread between
\* listExpiredCb and schedule(cbs) (where stopping() sees it neither in the set nor in the
\* queue), waiting for its descriptor or finished.  Neither that hand-over nor the one from
\* epoll's list through the idle fiber to the queue (IOManager::idle), on any number of
\* threads, loses or doubles one.
THEOREM WorkIsConserved == Spec => []WorkConserved
<1>1. Init => WorkInv
  BY WorkInit
<1>2. WorkInv /\ [Next]_vars => WorkInv'
  BY WorkNext
<1>3. WorkInv => WorkConserved
  BY CountOfWork
<1>4. QED
  BY <1>1, <1>2, <1>3, PTL DEF Spec

-----------------------------------------------------------------------------
(***************************************************************************)
(* How late a sleeping thread may be.  A thread on its way to sleep has    *)
(* just found nothing to run; asleep, the age of what it could run and the *)
(* rest of its sleep are together at most MAX_TIMEOUT, and so is the time  *)
(* by which it will overshoot a timer.                                     *)
(***************************************************************************)
\* What a thread could run: the entries bound to it or to nobody.
MayRun(t, k) == k \in DOMAIN m_fibers /\ m_fibers[k].thread \in {Any_, t}

\* Between the look at the queue and the sleep.
Going(t) == \/ pc[t] \in {"idle", "pending", "stopping"}
            \/ pc[t] \in {"tickle", "write"} /\ back[t] = "idle"

Late(t) ==
  /\ pc[t] = "sleep" => sleep[t] \in 0 .. MAX_TIMEOUT
  /\ pc[t] = "sleep" /\ sleep[t] # 0 =>
        /\ \A k : MayRun(t, k) => m_fibers[k].age + sleep[t] <= MAX_TIMEOUT
        /\ \A i \in m_timers : sleep[t] <= due[i] + MAX_TIMEOUT
  /\ Going(t) => \A k : MayRun(t, k) => m_fibers[k].age = 0
  /\ pc[t] \in {"pending", "stopping"} => \A i \in m_timers : due[i] >= 0

Deadlines ==
  \A i \in TimerIds : /\ due[i] <= Delay[i] /\ due[i] >= -MAX_TIMEOUT - 1
                      /\ i \notin submitted => due[i] = Delay[i]

DelayInv == sleep \in [Threads -> Int] /\ Deadlines /\ \A t \in Threads : Late(t)

\* No delay is cut by the conversion to int.
DelaysFit == \A i \in TimerIds : Delay[i] <= IntMax

LEMMA DelayInit == Init => DelayInv
<1> SUFFICES ASSUME Init PROVE DelayInv
  OBVIOUS
<1>1. sleep \in [Threads -> Int]
  BY DEF Init
<1>2. Deadlines
  BY IdleLoopAssumption DEF Init, Deadlines
<1>3. ASSUME NEW t \in Threads PROVE Late(t)
  <2>1. pc[t] = "fetch"
    BY ThreadsAreActors DEF Init
  <2>2. QED
    BY <2>1 DEF Late, Going
<1>4. QED
  BY <1>1, <1>2, <1>3 DEF DelayInv

\* What a step other than Tick does to the queue and to the timers: the entries that were
\* not there are new, and so are the timers.
QueueOld ==
  \A k \in DOMAIN m_fibers' : \/ m_fibers'[k].age = 0
                              \/ \E l \in DOMAIN m_fibers : m_fibers'[k] = m_fibers[l]
TimersOld == due' = due /\ \A i \in m_timers' : i \in m_timers \/ (i \in TimerIds /\ i \notin submitted)

LEMMA LateKept ==
  ASSUME IdleType, Deadlines, NEW t \in Threads, Late(t), QueueOld, TimersOld,
         pc'[t] = "sleep" => pc[t] = "sleep" /\ sleep'[t] = sleep[t],
         Going(t)' => Going(t),
         pc'[t] \in {"pending", "stopping"} => pc[t] \in {"pending", "stopping"}
  PROVE  Late(t)'
<1>0. MAX_TIMEOUT \in Nat /\ due \in [TimerIds -> Int] /\ m_timers \subseteq TimerIds
  BY IdleLoopAssumption DEF IdleType
<1>1. \A i \in m_timers' : due'[i] = due[i] /\ (i \in m_timers \/ (due[i] = Delay[i] /\ i \in TimerIds))
  BY DEF TimersOld, Deadlines
<1>2. \A i \in TimerIds : Delay[i] \in Nat
  BY IdleLoopAssumption
<1>3. \A k : MayRun(t, k)' => m_fibers'[k].age = 0 \/ \E l : MayRun(t, l) /\ m_fibers'[k] = m_fibers[l]
  BY DEF MayRun, QueueOld
<1>4. pc'[t] = "sleep" => sleep'[t] \in 0 .. MAX_TIMEOUT
  BY DEF Late
<1>5. ASSUME pc'[t] = "sleep", sleep'[t] # 0
      PROVE  /\ \A k : MayRun(t, k)' => m_fibers'[k].age + sleep'[t] <= MAX_TIMEOUT
             /\ \A i \in m_timers' : sleep'[t] <= due'[i] + MAX_TIMEOUT
  <2>1. PICK n : n = sleep[t]
    OBVIOUS
  <2>2. n \in 0 .. MAX_TIMEOUT /\ n # 0 /\ sleep'[t] = n /\ pc[t] = "sleep"
    BY <1>4, <1>5, <2>1
  <2>3. \A k : MayRun(t, k) => m_fibers[k].age + n <= MAX_TIMEOUT
    BY <2>1, <2>2 DEF Late
  <2>4. \A i \in m_timers : n <= due[i] + MAX_TIMEOUT
    BY <2>1, <2>2 DEF Late
  <2>5. ASSUME NEW k, MayRun(t, k)' PROVE m_fibers'[k].age + n <= MAX_TIMEOUT
    <3>1. CASE m_fibers'[k].age = 0
      BY <1>0, <2>2, <3>1
    <3>2. CASE \E l : MayRun(t, l) /\ m_fibers'[k] = m_fibers[l]
      BY <2>3, <3>2
    <3>3. QED
      BY <1>3, <2>5, <3>1, <3>2
  <2>6. ASSUME NEW i \in m_timers' PROVE n <= due'[i] + MAX_TIMEOUT
    <3>1. CASE i \in m_timers
      BY <1>1, <2>4, <3>1
    <3>2. CASE due[i] = Delay[i] /\ i \in TimerIds
      BY <1>0, <1>1, <1>2, <2>2, <3>2
    <3>3. QED
      BY <1>1, <3>1, <3>2
  <2>7. QED
    BY <2>2, <2>5, <2>6
<1>6. ASSUME Going(t)' PROVE \A k : MayRun(t, k)' => m_fibers'[k].age = 0
  BY <1>3, <1>6 DEF Late
<1>7. ASSUME pc'[t] \in {"pending", "stopping"} PROVE \A i \in m_timers' : due'[i] >= 0
  BY <1>1, <1>2, <1>7 DEF Late
<1>8. QED
  BY <1>4, <1>5, <1>6, <1>7 DEF Late

LEMMA DelayFrame ==
  ASSUME IdleType, DelayInv, QueueOld, TimersOld, NEW a \in Actors, Others(a),
         sleep' \in [Threads -> Int], \A u \in Threads \ {a} : sleep'[u] = sleep[u],
         submitted \subseteq submitted', a \in Threads => Late(a)'
  PROVE  DelayInv'
<1>1. ASSUME NEW u \in Threads \ {a} PROVE Late(u)'
  <2>1. pc'[u] = pc[u] /\ back'[u] = back[u] /\ sleep'[u] = sleep[u]
    BY ThreadsAreActors DEF Others
  <2>2. Going(u)' => Going(u)
    BY <2>1 DEF Going
  <2>3. Late(u) /\ Deadlines
    BY DEF DelayInv
  <2>4. QED
    BY <2>1, <2>2, <2>3, LateKept
<1>2. Deadlines'
  BY DEF DelayInv, Deadlines, TimersOld
<1>3. QED
  BY <1>1, <1>2 DEF DelayInv

\* A thread that is not on its way to sleep after the step has nothing to show.
LEMMA LateVacuous ==
  ASSUME NEW t \in Threads, pc'[t] # "sleep", ~ Going(t)' PROVE Late(t)'
BY DEF Late, Going

LEMMA SameQueue == m_fibers' = m_fibers => QueueOld
BY DEF QueueOld

LEMMA ScheduleOld ==
  ASSUME m_fibers \in Seq(Entry), NEW n \in Nat, NEW S, NEW ws \in [1 .. n -> S], NEW thr,
         schedule(ws, thr)
  PROVE  QueueOld
<1> DEFINE s == m_fibers
           e == Entries(ws, thr)
           m == Len(m_fibers)
<1>1. m \in Nat /\ DOMAIN s = 1 .. m
  OBVIOUS
<1>2. ws \in Seq(S) /\ Len(ws) = n
  OBVIOUS
<1>3. e = [k \in 1 .. n |-> [work |-> ws[k], thread |-> thr, age |-> 0]]
  BY <1>2 DEF Entries
<1>4. PICK T : e \in Seq(T) /\ s \in Seq(T) /\ Len(e) = n
  <2> DEFINE T == Entry \cup {[work |-> ws[k], thread |-> thr, age |-> 0] : k \in 1 .. n}
  <2>1. e \in [1 .. n -> T] /\ s \in [1 .. m -> T]
    BY <1>1, <1>3
  <2> HIDE DEF T, e
  <2>2. e \in Seq(T) /\ Len(e) = n /\ s \in Seq(T)
    BY <1>1, <2>1
  <2>3. QED
    BY <2>2
<1>5. \A k \in 1 .. n : e[k].age = 0
  BY <1>3
<1>6. m_fibers' = s \o e
  BY DEF schedule
<1> HIDE DEF e
<1>7. /\ DOMAIN m_fibers' = 1 .. m + n
      /\ \A k \in 1 .. m + n : m_fibers'[k] = IF k <= m THEN s[k] ELSE e[k - m]
  BY <1>1, <1>4, <1>6
<1> HIDE DEF m
<1>8. ASSUME NEW k \in 1 .. m + n
      PROVE  m_fibers'[k].age = 0 \/ \E l \in DOMAIN s : m_fibers'[k] = s[l]
  <2>1. CASE k <= m
    BY <1>1, <1>7, <2>1
  <2>2. CASE ~ (k <= m)
    <3>1. k - m \in 1 .. n
      BY <1>1, <2>2
    <3>2. QED
      BY <1>5, <1>7, <2>2, <3>1
  <2>3. QED
    BY <2>1, <2>2
<1>9. QED
  BY <1>7, <1>8 DEF QueueOld

\* The pipe: a thread on its way to sleep stays on its way.
LEMMA DelayTickle ==
  ASSUME WorkInv, DelayInv, NEW a \in Actors, Tickle(a) \/ Write(a) PROVE DelayInv'
<1>0. IdleType /\ PcType
  BY TypeOfPc DEF WorkInv
<1>1. UNCHANGED <<m_fibers, m_timers, due, sleep, submitted>>
  BY DEF Tickle, Write
<1>2. pc[a] \in {"tickle", "write"}
  BY DEF Tickle, Write
<1>3. /\ Others(a)
      /\ \/ pc'[a] = back[a] /\ back[a] \in Backs
         \/ pc'[a] = "write" /\ back'[a] = back[a]
  <2>1. CASE Return(a)
    BY <1>0, <2>1, ReturnStep DEF PcType
  <2>2. CASE Goto(a, "write")
    <3>1. "write" \in Labels
      BY DEF Labels
    <3>2. QED
      BY <1>0, <2>2, <3>1, GotoStep
  <2>3. QED
    BY <2>1, <2>2 DEF Tickle, Write
<1>4. pc'[a] \notin {"sleep", "pending", "stopping"} /\ (Going(a)' => Going(a))
  BY <1>2, <1>3 DEF Going, Backs
<1>5. QueueOld /\ TimersOld
  BY <1>1, SameQueue DEF TimersOld
<1>6. a \in Threads => Late(a)'
  BY <1>0, <1>4, <1>5, LateKept DEF DelayInv
<1>7. QED
  BY <1>0, <1>1, <1>3, <1>5, <1>6, DelayFrame DEF DelayInv

\* A thread goes on towards idle only when the queue has nothing for it.
LEMMA DelayFetch ==
  ASSUME WorkInv, DelayInv, NEW t \in Threads, Fetch(t) PROVE DelayInv'
<1>0. PcType /\ IdleType /\ t \in Actors
  BY TypeOfPc, ThreadsAreActors DEF WorkInv
<1>1. UNCHANGED <<m_timers, due, sleep, submitted>>
  BY DEF Fetch
<1>2. TimersOld
  BY <1>1 DEF TimersOld
<1>3. PICK c \in BOOLEAN, label \in {"run", "done", "idle"} :
         /\ TickleIf(t, c, label)
         /\ label = "idle" => Mine(t) = {} /\ m_fibers' = m_fibers
  <2>1. CASE Mine(t) = {}
    <3>1. PICK c \in BOOLEAN, label \in {"done", "idle"} : TickleIf(t, c, label)
      BY <2>1 DEF Fetch
    <3>2. m_fibers' = m_fibers
      BY <2>1 DEF Fetch
    <3>3. QED
      BY <2>1, <3>1, <3>2
  <2>2. CASE Mine(t) # {}
    <3>1. PICK c \in BOOLEAN : TickleIf(t, c, "run")
      BY <2>2 DEF Fetch
    <3>2. QED
      BY <3>1
  <2>3. QED
    BY <2>1, <2>2
<1>4. /\ Others(t)
      /\ \/ pc'[t] = label
         \/ pc'[t] = "tickle" /\ back'[t] = label
  <2>1. label \in Backs
    BY DEF Backs
  <2>2. QED
    BY <1>0, <1>3, <2>1, TickleIfStep
<1>5. QueueOld
  <2>1. CASE Mine(t) = {}
    BY <2>1, SameQueue DEF Fetch
  <2>2. CASE Mine(t) # {}
    <3>1. PICK i \in Mine(t) : m_fibers' = RemoveAt(m_fibers, i)
      <4>1. (CHOOSE i \in Mine(t) : \A j \in Mine(t) : i <= j) \in Mine(t)
        BY <1>0, <2>2, FirstOfMine
      <4>2. QED
        BY <2>2, <4>1 DEF Fetch
    <3>2. i \in DOMAIN m_fibers
      BY <1>0 DEF Mine, IdleType
    <3>3. QED
      BY <1>0, <3>1, <3>2, QueueRemove DEF IdleType, WorkInv, QueueOld
  <2>3. QED
    BY <2>1, <2>2
<1>6. Late(t)'
  <2>1. CASE label = "idle"
    <3>1. DOMAIN m_fibers = 1 .. Len(m_fibers)
      BY <1>0 DEF IdleType
    <3>2. \A k : ~ MayRun(t, k)'
      BY <1>3, <2>1, <3>1 DEF MayRun, Mine
    <3>3. pc'[t] \notin {"sleep", "pending", "stopping"}
      BY <1>4, <2>1
    <3>4. QED
      BY <3>2, <3>3 DEF Late
  <2>2. CASE label # "idle"
    <3>1. pc'[t] # "sleep" /\ ~ Going(t)'
      BY <1>4, <2>2 DEF Going
    <3>2. QED
      BY <3>1, LateVacuous
  <2>3. QED
    BY <2>1, <2>2
<1>7. QED
  BY <1>0, <1>1, <1>2, <1>4, <1>5, <1>6, DelayFrame DEF DelayInv

LEMMA DelayRun ==
  ASSUME WorkInv, DelayInv, NEW t \in Threads, Run(t) \/ Again(t) PROVE DelayInv'
<1>0. PcType /\ IdleType /\ t \in Actors
  BY TypeOfPc, ThreadsAreActors DEF WorkInv
<1>1. UNCHANGED <<m_timers, due, sleep, submitted>>
  BY DEF Run, Again
<1>2. TimersOld
  BY <1>1 DEF TimersOld
<1>3. Others(t) /\ pc'[t] # "sleep" /\ ~ Going(t)'
  <2>1. CASE Run(t)
    <3>1. PICK label \in {"fetch", "again"} : Goto(t, label)
      BY <2>1 DEF Run
    <3>2. label \in Labels
      BY DEF Labels, Backs
    <3>3. QED
      BY <1>0, <3>1, <3>2, GotoStep DEF Going
  <2>2. CASE Again(t)
    <3>1. PICK c \in BOOLEAN : TickleIf(t, c, "fetch")
      BY <2>2 DEF Again
    <3>2. "fetch" \in Backs
      BY DEF Backs
    <3>3. Others(t) /\ (pc'[t] = "fetch" \/ (pc'[t] = "tickle" /\ back'[t] = "fetch"))
      BY <1>0, <3>1, <3>2, TickleIfStep
    <3>4. QED
      BY <3>3 DEF Going
  <2>3. QED
    BY <2>1, <2>2
<1>4. QueueOld
  <2>1. CASE Run(t)
    BY <2>1, SameQueue DEF Run
  <2>2. CASE Again(t)
    <3>1. PICK ws : ws = <<cur[t]>>
      OBVIOUS
    <3>2. ws \in [1 .. 1 -> {cur[t]}] /\ schedule(ws, Any_) /\ 1 \in Nat
      BY <2>2, <3>1 DEF Again
    <3>3. QED
      BY <1>0, <3>2, ScheduleOld DEF IdleType
  <2>3. QED
    BY <2>1, <2>2
<1>5. Late(t)'
  BY <1>3, LateVacuous
<1>6. QED
  BY <1>0, <1>1, <1>2, <1>3, <1>4, <1>5, DelayFrame DEF DelayInv

\* getNextTimer is "no timer", or no more than what is left to any timer.
LEMMA NextTimer ==
  ASSUME IdleType, Deadlines, NEW next, next = getNextTimer
  PROVE  \/ m_timers = {} /\ next = Infinite
         \/ /\ next \in Nat /\ \A i \in m_timers : next <= due[i] \/ (due[i] < 0 /\ next = 0)
            /\ DelaysFit => next <= IntMax
<1>0. MAX_TIMEOUT \in Nat /\ IntMax \in Nat /\ due \in [TimerIds -> Int] /\ m_timers \subseteq TimerIds
  BY IdleLoopAssumption DEF IdleType
<1>1. CASE m_timers = {}
  BY <1>1 DEF getNextTimer
<1>2. CASE m_timers # {}
  <2>1. PICK f \in m_timers : \A j \in m_timers : due[f] <= due[j]
    <3> DEFINE D == {n \in Nat : \E i \in m_timers : n = due[i] + (MAX_TIMEOUT + 1)}
    <3>1. \A i \in m_timers : due[i] + (MAX_TIMEOUT + 1) \in Nat
      BY <1>0 DEF Deadlines
    <3>2. D # {} /\ D \subseteq Nat
      BY <1>2, <3>1
    <3>3. PICK n \in D : \A m \in D : <<m, n>> \notin OpToRel(<, Nat)
      BY <3>2, NatLessThanWellFounded, WFMin
    <3>4. PICK f \in m_timers : n = due[f] + (MAX_TIMEOUT + 1)
      OBVIOUS
    <3>5. ASSUME NEW j \in m_timers PROVE due[f] <= due[j]
      <4>1. PICK m : m = due[j] + (MAX_TIMEOUT + 1)
        OBVIOUS
      <4>2. m \in D /\ m \in Nat /\ n \in Nat
        BY <3>1, <4>1
      <4>3. ~ (m < n)
        BY <3>3, <4>2 DEF OpToRel
      <4>4. due[j] \in Int /\ due[f] \in Int
        BY <1>0
      <4>5. QED
        BY <1>0, <3>4, <4>1, <4>2, <4>3, <4>4
    <3>6. QED
      BY <3>5
  <2>2. PICK g : g = CHOOSE i \in m_timers : \A j \in m_timers : due[i] <= due[j]
    OBVIOUS
  <2>3. g \in m_timers /\ \A j \in m_timers : due[g] <= due[j]
    BY <2>1, <2>2
  <2>4. next = IF due[g] < 0 THEN 0 ELSE due[g]
    BY <1>2, <2>2 DEF getNextTimer
  <2>5. due[g] \in Int /\ g \in TimerIds
    BY <1>0, <2>3
  <2>6. next \in Nat
    BY <2>4, <2>5
  <2>7. ASSUME NEW i \in m_timers PROVE next <= due[i] \/ (due[i] < 0 /\ next = 0)
    <3>1. due[g] <= due[i] /\ due[i] \in Int
      BY <1>0, <2>3
    <3>2. QED
      BY <2>4, <2>5, <3>1
  <2>8. DelaysFit => next <= IntMax
    <3>1. DelaysFit => due[g] <= Delay[g] /\ Delay[g] <= IntMax /\ Delay[g] \in Nat
      BY <2>5, IdleLoopAssumption DEF DelaysFit, Deadlines
    <3>2. QED
      BY <1>0, <2>4, <2>5, <3>1
  <2>9. QED
    BY <2>6, <2>7, <2>8
<1>3. QED
  BY <1>1, <1>2

\* The limit of the sleep, from what the timers say.
LEMMA SleepLimit ==
  ASSUME DelaysFit, NEW next,
         next = Infinite \/ (next \in Nat /\ next <= IntMax)
  PROVE  /\ SleepFor(next) \in 0 .. MAX_TIMEOUT
         /\ next \in Nat => SleepFor(next) <= next
<1>1. MAX_TIMEOUT \in Nat /\ IntMax \in Nat
  BY IdleLoopAssumption
<1>2. QED
  BY <1>1 DEF SleepFor, Infinite

\* A thread falls asleep having seen the timers, or none while it asked the rest.
LEMMA DelayIdle ==
  ASSUME DelaysFit, WorkInv, DelayInv, NEW t \in Threads,
         EnterIdle(t) \/ StoppingPending(t) \/ StoppingScheduler(t)
  PROVE  DelayInv'
<1>0. /\ PcType /\ IdleType /\ t \in Actors /\ Deadlines /\ Late(t)
      /\ MAX_TIMEOUT \in Nat /\ due \in [TimerIds -> Int] /\ m_timers \subseteq TimerIds
      /\ sleep \in [Threads -> Int]
  BY TypeOfPc, ThreadsAreActors, IdleLoopAssumption DEF WorkInv, DelayInv, IdleType
<1>1. UNCHANGED <<m_fibers, m_timers, due, submitted>>
  BY DEF EnterIdle, StoppingPending, StoppingScheduler
<1>2. QueueOld /\ TimersOld
  BY <1>1, SameQueue DEF TimersOld
<1>3. pc[t] \in {"idle", "pending", "stopping"} /\ Going(t)
  BY DEF EnterIdle, StoppingPending, StoppingScheduler, Going
<1>4. {"pending", "sleep", "stopping", "fetch"} \subseteq Labels
  BY DEF Labels, Backs
<1>5. ASSUME NEW next, Asleep(t, next), next = Infinite \/ (next \in Nat /\ next <= IntMax),
             \A i \in m_timers : due[i] >= 0 \/ next = 0,
             \A i \in m_timers : next \in Nat => next <= due[i] \/ next = 0
      PROVE  DelayInv'
  <2>1. PICK n : n = SleepFor(next)
    OBVIOUS
  <2>2. n \in 0 .. MAX_TIMEOUT /\ (next \in Nat => n <= next)
    BY <1>5, <2>1, SleepLimit
  <2>3. sleep' = [sleep EXCEPT ![t] = n] /\ Goto(t, "sleep")
    BY <1>5, <2>1 DEF Asleep
  <2>4. /\ sleep' \in [Threads -> Int] /\ sleep'[t] = n /\ n \in Int
        /\ \A u \in Threads \ {t} : sleep'[u] = sleep[u]
    BY <1>0, <2>2, <2>3
  <2>5. Others(t) /\ pc'[t] = "sleep"
    BY <1>0, <1>4, <2>3, GotoStep
  <2>6. \A k : MayRun(t, k)' => m_fibers'[k].age + n <= MAX_TIMEOUT
    <3>1. \A k : MayRun(t, k)' => m_fibers'[k].age = 0
      BY <1>0, <1>1, <1>3 DEF Late, MayRun
    <3>2. QED
      BY <1>0, <2>2, <3>1
  <2>7. ASSUME NEW i \in m_timers', n # 0 PROVE n <= due'[i] + MAX_TIMEOUT
    <3>1. i \in m_timers /\ due'[i] = due[i] /\ due[i] \in Int
      BY <1>0, <1>1
    <3>2. n <= MAX_TIMEOUT /\ n \in Nat
      BY <1>0, <2>2
    <3>3. next # 0
      BY <2>2, <2>7, <3>2
    <3>4. due[i] >= 0
      BY <1>5, <3>1, <3>3
    <3>5. QED
      BY <1>0, <3>1, <3>2, <3>4
  <2>8. Late(t)'
    <3>1. ~ Going(t)' /\ pc'[t] \notin {"pending", "stopping"}
      BY <2>5 DEF Going
    <3>2. QED
      BY <2>2, <2>4, <2>6, <2>7, <3>1 DEF Late
  <2>9. QED
    BY <1>0, <1>1, <1>2, <2>4, <2>5, <2>8, DelayFrame
<1>6. ASSUME NEW label \in {"pending", "stopping", "fetch"}, Goto(t, label), sleep' = sleep,
             \A i \in m_timers : label \in {"pending", "stopping"} => due[i] >= 0
      PROVE  DelayInv'
  <2>1. Others(t) /\ pc'[t] = label
    BY <1>0, <1>4, <1>6, GotoStep
  <2>2. \A k : MayRun(t, k)' => m_fibers'[k].age = 0
    BY <1>0, <1>1, <1>3 DEF Late, MayRun
  <2>3. \A i \in m_timers' : label \in {"pending", "stopping"} => due'[i] >= 0
    BY <1>1, <1>6
  <2>4. Late(t)'
    BY <2>1, <2>2, <2>3 DEF Late, Going
  <2>5. QED
    BY <1>0, <1>1, <1>2, <1>6, <2>1, <2>4, DelayFrame
<1>7. CASE EnterIdle(t)
  <2>1. PICK next : next = getNextTimer
    OBVIOUS
  <2>2. \/ m_timers = {} /\ next = Infinite
        \/ /\ next \in Nat /\ \A i \in m_timers : next <= due[i] \/ (due[i] < 0 /\ next = 0)
           /\ next <= IntMax
    BY <1>0, <2>1, NextTimer
  <2>3. CASE next = Infinite
    <3>1. m_timers = {}
      BY <2>2, <2>3 DEF Infinite
    <3>2. Goto(t, "pending") /\ sleep' = sleep
      BY <1>7, <2>1, <2>3 DEF EnterIdle
    <3>3. QED
      BY <1>6, <3>1, <3>2
  <2>4. CASE next # Infinite
    <3>1. next \in Nat /\ next <= IntMax
      BY <2>2, <2>4
    <3>2. ASSUME NEW i \in m_timers PROVE (due[i] >= 0 \/ next = 0) /\ (next <= due[i] \/ next = 0)
      <4>1. due[i] \in Int
        BY <1>0
      <4>2. QED
        BY <2>2, <2>4, <3>1, <4>1
    <3>3. Asleep(t, next)
      BY <1>7, <2>1, <2>4 DEF EnterIdle
    <3>4. QED
      BY <1>5, <3>1, <3>2, <3>3
  <2>5. QED
    BY <2>3, <2>4
<1>8. CASE StoppingPending(t) \/ StoppingScheduler(t)
  <2>1. \A i \in m_timers : due[i] >= 0
    BY <1>0, <1>8 DEF Late, StoppingPending, StoppingScheduler
  <2>2. \/ \E label \in {"stopping", "fetch"} : Goto(t, label) /\ sleep' = sleep
        \/ Asleep(t, Infinite)
    BY <1>8 DEF StoppingPending, StoppingScheduler
  <2>3. CASE \E label \in {"stopping", "fetch"} : Goto(t, label) /\ sleep' = sleep
    BY <1>6, <2>1, <2>3
  <2>4. CASE Asleep(t, Infinite)
    <3>1. Infinite \notin Nat
      BY DEF Infinite
    <3>2. QED
      BY <1>5, <2>1, <2>4, <3>1
  <2>5. QED
    BY <2>2, <2>3, <2>4
<1>9. QED
  BY <1>7, <1>8

LEMMA DelayWake ==
  ASSUME WorkInv, DelayInv, NEW t \in Threads,
         Wake(t) \/ listExpiredCb(t) \/ ScheduleCallbacks(t) \/ HandleEvents(t)
  PROVE  DelayInv'
<1>0. PcType /\ IdleType /\ t \in Actors /\ sleep \in [Threads -> Int]
  BY TypeOfPc, ThreadsAreActors DEF WorkInv, DelayInv
<1>1. PICK label \in {"collect", "callbacks", "events", "fetch"} : Goto(t, label)
  BY DEF Wake, listExpiredCb, ScheduleCallbacks, HandleEvents
<1>2. Others(t) /\ pc'[t] = label
  <2>1. label \in Labels
    BY DEF Labels, Backs
  <2>2. QED
    BY <1>0, <1>1, <2>1, GotoStep
<1>3. Late(t)'
  <2>1. pc'[t] # "sleep" /\ ~ Going(t)'
    BY <1>2 DEF Going
  <2>2. QED
    BY <2>1, LateVacuous
<1>4. /\ sleep' \in [Threads -> Int] /\ \A u \in Threads \ {t} : sleep'[u] = sleep[u]
      /\ submitted' = submitted /\ TimersOld
  <2>1. submitted' = submitted /\ due' = due /\ m_timers' \subseteq m_timers
    BY DEF Wake, listExpiredCb, ScheduleCallbacks, HandleEvents
  <2>2. sleep' = sleep \/ sleep' = [sleep EXCEPT ![t] = 0]
    BY DEF Wake, listExpiredCb, ScheduleCallbacks, HandleEvents
  <2>3. QED
    BY <1>0, <2>1, <2>2 DEF TimersOld
<1>5. QueueOld
  <2>1. CASE m_fibers' = m_fibers
    BY <2>1, SameQueue
  <2>2. CASE ScheduleCallbacks(t)
    <3>1. PICK c : c = cbs[t]
      OBVIOUS
    <3>2. c \in Seq(TimerIds) /\ schedule(c, Any_)
      BY <2>2, <3>1 DEF ScheduleCallbacks, WorkInv, Hands
    <3>3. PICK n : n = Len(c)
      OBVIOUS
    <3>4. n \in Nat /\ c \in [1 .. n -> TimerIds]
      BY <3>2, <3>3
    <3>5. QED
      BY <1>0, <3>2, <3>4, ScheduleOld DEF IdleType
  <2>3. CASE HandleEvents(t)
    <3>1. PICK S : S = got[t] \ {"pipe"}
      OBVIOUS
    <3>2. PICK ws \in SetToSeqs(S) : schedule(ws, Any_)
      BY <2>3, <3>1 DEF HandleEvents
    <3>3. S \in SUBSET Jobs
      BY <1>0, <3>1 DEF IdleType
    <3>4. IsFiniteSet(S)
      BY <3>3, IdleLoopAssumption, FS_Subset
    <3>5. PICK n : n = Cardinality(S)
      OBVIOUS
    <3>6. n \in Nat /\ ws \in [1 .. n -> S]
      BY <3>4, <3>5, AllOfThem
    <3>7. QED
      BY <1>0, <3>2, <3>6, ScheduleOld DEF IdleType
  <2>4. QED
    BY <2>1, <2>2, <2>3 DEF Wake, listExpiredCb
<1>6. QED
  BY <1>0, <1>2, <1>3, <1>4, <1>5, DelayFrame

\* What the program does: what it hands over is new.
LEMMA DelayUser ==
  ASSUME WorkInv, DelayInv,
         \/ \E j \in Jobs : Submit(j) \/ BecomesReady(j)
         \/ \E i \in TimerIds : addTimer(i)
         \/ Stop \/ StopTickles \/ UNCHANGED vars
  PROVE  DelayInv'
<1>0. PcType /\ IdleType /\ User \in Actors /\ User \notin Threads /\ sleep \in [Threads -> Int]
  BY TypeOfPc, IdleLoopAssumption DEF WorkInv, Actors, DelayInv
<1>1. sleep' = sleep /\ due' = due /\ submitted \subseteq submitted'
  BY DEF Submit, BecomesReady, addTimer, Stop, StopTickles, vars
<1>2. Others(User)
  <2>1. \/ \E c \in BOOLEAN, label \in {"user", "stop"} : TickleIf(User, c, label)
        \/ \E label \in {"stop", "done"} : Goto(User, label)
        \/ UNCHANGED <<pc, back>>
    BY DEF Submit, BecomesReady, addTimer, Stop, StopTickles, vars
  <2>2. {"user", "stop"} \subseteq Backs /\ {"stop", "done"} \subseteq Labels
    BY DEF Backs, Labels
  <2>3. CASE \E c \in BOOLEAN, label \in {"user", "stop"} : TickleIf(User, c, label)
    BY <1>0, <2>2, <2>3, TickleIfStep
  <2>4. CASE \E label \in {"stop", "done"} : Goto(User, label)
    BY <1>0, <2>2, <2>4, GotoStep
  <2>5. CASE UNCHANGED <<pc, back>>
    BY <2>5 DEF Others
  <2>6. QED
    BY <2>1, <2>3, <2>4, <2>5
<1>3. QueueOld
  <2>1. m_fibers' = m_fibers \/ \E j \in Jobs : schedule(<<j>>, Pin[j])
    BY DEF Submit, BecomesReady, addTimer, Stop, StopTickles, vars
  <2>2. ASSUME NEW j \in Jobs, schedule(<<j>>, Pin[j]) PROVE QueueOld
    <3>1. PICK ws : ws = <<j>>
      OBVIOUS
    <3>2. ws \in [1 .. 1 -> {j}] /\ schedule(ws, Pin[j]) /\ 1 \in Nat
      BY <2>2, <3>1
    <3>3. QED
      BY <1>0, <3>2, ScheduleOld DEF IdleType
  <2>3. QED
    BY <2>1, <2>2, SameQueue
<1>4. TimersOld
  <2>1. m_timers' = m_timers \/ \E i \in TimerIds : i \notin submitted /\ m_timers' = m_timers \cup {i}
    BY DEF Submit, BecomesReady, addTimer, Stop, StopTickles, vars
  <2>2. QED
    BY <1>1, <2>1 DEF TimersOld
<1>5. QED
  BY <1>0, <1>1, <1>2, <1>3, <1>4, DelayFrame

\* A millisecond: nobody is on its way to sleep, for tickle() never hangs; the sleepers
\* lose what the queue and the timers grow older.
LEMMA DelayTick ==
  ASSUME WorkInv, DelayInv, TickleReturns, Tick PROVE DelayInv'
<1>0. /\ IdleType /\ Deadlines /\ MAX_TIMEOUT \in Nat
      /\ due \in [TimerIds -> Int] /\ m_timers \subseteq TimerIds /\ sleep \in [Threads -> Int]
      /\ m_timers \subseteq submitted
  BY IdleLoopAssumption DEF WorkInv, DelayInv, IdleType, Places
<1>1. /\ UNCHANGED <<pc, back, m_timers, submitted>>
      /\ m_fibers' = [k \in DOMAIN m_fibers |->
                        [m_fibers[k] EXCEPT !.age = IF @ > MAX_TIMEOUT THEN @ ELSE @ + 1]]
      /\ sleep' = [t \in Threads |-> IF pc[t] = "sleep"
                                     THEN (IF sleep[t] = Infinite THEN sleep[t] ELSE sleep[t] - 1) ELSE 0]
      /\ due' = [i \in TimerIds |-> IF i \in m_timers
                                    THEN (IF due[i] = -MAX_TIMEOUT - 1 THEN due[i] ELSE due[i] - 1)
                                    ELSE due[i]]
  BY DEF Tick
<1>2. sleep' \in [Threads -> Int]
  BY <1>0, <1>1
<1>3. ASSUME NEW i \in TimerIds
      PROVE  /\ due[i] - 1 <= due'[i] /\ due'[i] <= due[i] /\ due'[i] >= -MAX_TIMEOUT - 1 /\ due'[i] \in Int
             /\ i \notin submitted => due'[i] = due[i]
  <2>1. due[i] \in Int /\ due[i] >= -MAX_TIMEOUT - 1
    BY <1>0 DEF Deadlines
  <2>2. due'[i] = IF i \in m_timers THEN (IF due[i] = -MAX_TIMEOUT - 1 THEN due[i] ELSE due[i] - 1) ELSE due[i]
    BY <1>1
  <2>3. QED
    BY <1>0, <2>1, <2>2
<1>4. Deadlines'
  <2> SUFFICES ASSUME NEW i \in TimerIds
               PROVE  /\ due'[i] <= Delay[i] /\ due'[i] >= -MAX_TIMEOUT - 1
                      /\ i \notin submitted' => due'[i] = Delay[i]
    BY DEF Deadlines
  <2>1. /\ due[i] \in Int /\ Delay[i] \in Nat /\ due[i] <= Delay[i]
        /\ i \notin submitted => due[i] = Delay[i]
    BY <1>0, IdleLoopAssumption DEF Deadlines
  <2>2. QED
    BY <1>1, <1>3, <2>1
<1>5. ASSUME NEW k \in DOMAIN m_fibers, m_fibers[k].age <= MAX_TIMEOUT
      PROVE  m_fibers'[k].thread = m_fibers[k].thread /\ m_fibers'[k].age = m_fibers[k].age + 1
  <2>1. m_fibers[k] \in Entry
    BY <1>0 DEF IdleType
  <2>2. m_fibers[k].age \in Nat
    BY <2>1 DEF Entry
  <2>3. m_fibers'[k] = [m_fibers[k] EXCEPT !.age = IF @ > MAX_TIMEOUT THEN @ ELSE @ + 1]
    BY <1>1
  <2>4. ~ (m_fibers[k].age > MAX_TIMEOUT)
    BY <1>0, <1>5, <2>2
  <2>5. QED
    BY <2>1, <2>3, <2>4 DEF Entry
<1>6. ASSUME NEW t \in Threads PROVE Late(t)'
  <2>0. t \in Actors
    BY ThreadsAreActors
  <2>1. \/ pc[t] = "sleep" /\ sleep[t] # 0
        \/ pc[t] \in {"run", "done"}
    <3>1. ~ (pc[t] = "write" /\ pipe = Capacity)
      BY <2>0, IdleLoopAssumption DEF TickleReturns
    <3>2. QED
      BY <3>1 DEF Tick
  <2>2. CASE pc[t] \in {"run", "done"}
    <3>1. pc'[t] # "sleep" /\ ~ Going(t)'
      BY <1>1, <2>2 DEF Going
    <3>2. QED
      BY <3>1, LateVacuous
  <2>3. CASE pc[t] = "sleep" /\ sleep[t] # 0
    <3>1. PICK n : n = sleep[t]
      OBVIOUS
    <3>2. n \in 1 .. MAX_TIMEOUT
      BY <1>0, <2>3, <3>1 DEF DelayInv, Late
    <3>3. sleep'[t] = n - 1 /\ n - 1 \in 0 .. MAX_TIMEOUT
      BY <1>0, <1>1, <2>3, <3>1, <3>2 DEF Infinite
    <3>4. /\ \A k : MayRun(t, k) => m_fibers[k].age + n <= MAX_TIMEOUT
          /\ \A i \in m_timers : n <= due[i] + MAX_TIMEOUT
      BY <2>3, <3>1 DEF DelayInv, Late
    <3>5. ASSUME NEW k, MayRun(t, k)' PROVE m_fibers'[k].age + (n - 1) <= MAX_TIMEOUT
      <4>1. k \in DOMAIN m_fibers
        BY <1>1, <3>5 DEF MayRun
      <4>2. m_fibers[k].age \in Nat /\ m_fibers'[k].thread = m_fibers[k].thread
        <5>1. m_fibers[k] \in Entry
          BY <1>0, <4>1 DEF IdleType
        <5>2. m_fibers'[k] = [m_fibers[k] EXCEPT !.age = IF @ > MAX_TIMEOUT THEN @ ELSE @ + 1]
          BY <1>1, <4>1
        <5>3. QED
          BY <5>1, <5>2 DEF Entry
      <4>3. MayRun(t, k)
        BY <3>5, <4>1, <4>2 DEF MayRun
      <4>4. m_fibers[k].age + n <= MAX_TIMEOUT
        BY <3>4, <4>3
      <4>5. m_fibers'[k].age = m_fibers[k].age + 1
        <5>1. m_fibers[k].age <= MAX_TIMEOUT
          BY <1>0, <3>2, <4>2, <4>4
        <5>2. QED
          BY <1>5, <4>1, <5>1
      <4>6. QED
        BY <1>0, <3>2, <4>2, <4>4, <4>5
    <3>6. ASSUME NEW i \in m_timers' PROVE n - 1 <= due'[i] + MAX_TIMEOUT
      <4>1. i \in m_timers /\ i \in TimerIds /\ due[i] \in Int
        BY <1>0, <1>1
      <4>2. n <= due[i] + MAX_TIMEOUT /\ due[i] - 1 <= due'[i] /\ due'[i] \in Int
        BY <1>3, <3>4, <4>1
      <4>3. QED
        BY <1>0, <3>2, <4>1, <4>2
    <3>7. pc'[t] = "sleep" /\ ~ Going(t)'
      BY <1>1, <2>3 DEF Going
    <3>8. QED
      BY <3>3, <3>5, <3>6, <3>7 DEF Late
  <2>4. QED
    BY <2>1, <2>2, <2>3
<1>7. QED
  BY <1>2, <1>4, <1>6 DEF DelayInv

LEMMA DelayNext ==
  ASSUME DelaysFit, WorkInv, DelayInv, TickleReturns, [Next]_vars PROVE DelayInv'
<1>1. ASSUME NEW a \in Actors, Tickle(a) \/ Write(a) PROVE DelayInv'
  BY <1>1, DelayTickle
<1>2. ASSUME NEW t \in Threads, Step(t) PROVE DelayInv'
  BY <1>2, DelayFetch, DelayRun, DelayIdle, DelayWake DEF Step
<1>3. CASE \/ \E j \in Jobs : Submit(j) \/ BecomesReady(j)
           \/ \E i \in TimerIds : addTimer(i)
           \/ Stop \/ StopTickles \/ UNCHANGED vars
  BY <1>3, DelayUser
<1>4. CASE Tick
  BY <1>4, DelayTick
<1>5. QED
  BY <1>1, <1>2, <1>3, <1>4 DEF Next

LEMMA SleepersInTime == WorkInv /\ DelayInv => DelayBounded
<1> SUFFICES ASSUME WorkInv, DelayInv PROVE DelayBounded
  OBVIOUS
<1>0. MAX_TIMEOUT \in Nat /\ m_timers \subseteq TimerIds /\ due \in [TimerIds -> Int] /\ IdleType
  BY IdleLoopAssumption DEF WorkInv, IdleType
<1>1. \A t \in asleep : t \in Threads /\ pc[t] = "sleep" /\ sleep[t] # 0 /\ Late(t)
  BY DEF asleep, DelayInv
<1>2. \A t \in asleep : sleep[t] \in 1 .. MAX_TIMEOUT
  BY <1>0, <1>1 DEF Late
<1>3. ASSUME NEW k \in DOMAIN m_fibers, m_fibers[k].age > MAX_TIMEOUT, NEW t \in asleep, k \in Mine(t)
      PROVE  FALSE
  <2>1. MayRun(t, k)
    BY <1>3 DEF MayRun, Mine
  <2>2. m_fibers[k].age + sleep[t] <= MAX_TIMEOUT
    BY <1>1, <2>1 DEF Late
  <2>3. m_fibers[k].age \in Nat
    <3>1. m_fibers[k] \in Entry
      BY <1>0 DEF IdleType
    <3>2. QED
      BY <3>1 DEF Entry
  <2>4. QED
    BY <1>0, <1>2, <1>3, <2>2, <2>3
<1>4. ASSUME NEW i \in m_timers, due[i] < -MAX_TIMEOUT, NEW t \in asleep PROVE FALSE
  <2>1. sleep[t] <= due[i] + MAX_TIMEOUT
    BY <1>1 DEF Late
  <2>2. due[i] \in Int
    BY <1>0
  <2>3. QED
    BY <1>0, <1>2, <1>4, <2>1, <2>2
<1>5. QED
  BY <1>3, <1>4 DEF DelayBounded

\* DelayBounded: whatever tickle() fails to announce, no thread sleeps while work it could
\* run has waited for more than MAX_TIMEOUT, and none sleeps past a timer by more than
\* that.  Two conditions are needed, and the code ensures neither: no delay is above the
\* largest int (the cast of next_timeout in IOManager::idle makes it negative, an endless
\* sleep), and the write of tickle() finds room in the pipe (otherwise a thread that has
\* looked at the queue hangs in it, and falls asleep only afterwards).
THEOREM SleepIsBounded == DelaysFit => (Spec /\ []TickleReturns => []DelayBounded)
<1> SUFFICES ASSUME DelaysFit PROVE Spec /\ []TickleReturns => []DelayBounded
  OBVIOUS
<1>1. Init => WorkInv /\ DelayInv
  BY WorkInit, DelayInit
<1>2. WorkInv /\ DelayInv /\ TickleReturns /\ [Next]_vars => WorkInv' /\ DelayInv'
  BY WorkNext, DelayNext
<1>3. WorkInv /\ DelayInv => DelayBounded
  BY SleepersInTime
<1>4. QED
  BY <1>1, <1>2, <1>3, PTL DEF Spec
=============================================================================
