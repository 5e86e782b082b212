---------------------------- MODULE TcpServerProofs ----------------------------
(***************************************************************************)
(* Theorems about TcpServer, for any addresses, connections and numbers of *)
(* calls of bind(), start() and stop(), and about HttpServer, for any      *)
(* requests, buffer size and way what arrives is cut into reads.           *)
(***************************************************************************)
EXTENDS TcpServer, SequenceTheorems, WellFoundedInduction, TLAPS

-----------------------------------------------------------------------------
(***************************************************************************)
(* The accept loops, in a program that calls bind() and start() only       *)
(* before it calls stop() for the first time.                              *)
(***************************************************************************)
LoopType == [start : Nat, sock : Nat, at : {"top", "accept", "add", "wait", "late"}]

TcpType ==
  /\ m_socks \subseteq Nat /\ loops \subseteq LoopType
  /\ socks \in Nat /\ starts \in Nat /\ stops \in Nat

\* Before the first stop() no job closes sockets, the sockets start() makes loops for are
\* open, and only start() makes loops; after it the server stays stopped.
BeforeStop ==
  stops = 0 => /\ jobs = 0 /\ closing = NoJob
               /\ \A s \in m_socks : Listens(s)
               /\ m_isStop => loops = {}
AfterStop == stops > 0 => m_isStop

LoopInv == TcpType /\ BeforeStop /\ AfterStop /\ OneLoopPerSocket

LEMMA LoopInit == Init => LoopInv
<1> SUFFICES ASSUME Init PROVE LoopInv
  OBVIOUS
<1>1. TcpType
  BY DEF Init, TcpType
<1>2. BeforeStop /\ AfterStop /\ OneLoopPerSocket
  BY DEF Init, BeforeStop, AfterStop, OneLoopPerSocket
<1>3. QED
  BY <1>1, <1>2 DEF LoopInv

LEMMA LoopBind ==
  ASSUME LoopInv, stops = 0, NEW addrs \in Binds, bind(addrs)
  PROVE  LoopInv'
<1> DEFINE good == {i \in 1..Len(addrs) :
                      /\ \A o \in open : o.addr # addrs[i]
                      /\ \A j \in 1..(i - 1) : addrs[j] # addrs[i]}
           new == {[sock |-> socks + i, addr |-> addrs[i]] : i \in good}
           kept == {o \in open : \E l \in loops : l.sock = o.sock}
<1>1. Len(addrs) \in Nat
  BY TcpServerAssumption
<1>2. \/ m_socks' = {} /\ open' = kept
      \/ m_socks' = m_socks \cup {o.sock : o \in new} /\ open' = open \cup new
  BY DEF bind
<1>3. {o.sock : o \in new} \subseteq Nat
  BY <1>1 DEF LoopInv, TcpType
<1> HIDE DEF new
<1>4. /\ UNCHANGED <<m_isStop, loops, jobs, closing, starts, stops, fault>>
      /\ socks' = socks + Len(addrs)
  BY DEF bind
<1>5. TcpType'
  <2>1. socks' \in Nat
    BY <1>1, <1>4 DEF LoopInv, TcpType
  <2>2. m_socks' \subseteq Nat
    BY <1>2, <1>3 DEF LoopInv, TcpType
  <2>3. QED
    BY <1>4, <2>1, <2>2 DEF LoopInv, TcpType
<1>6. \A s \in m_socks' : Listens(s)'
  BY <1>2 DEF LoopInv, BeforeStop, Listens
<1>7. BeforeStop' /\ AfterStop'
  BY <1>4, <1>6 DEF LoopInv, BeforeStop, AfterStop
\* The sockets that have a loop stay open.
<1>8. OneLoopPerSocket'
  BY <1>2, <1>4 DEF LoopInv, OneLoopPerSocket, Listens
<1>9. QED
  BY <1>5, <1>7, <1>8 DEF LoopInv

LEMMA LoopStart ==
  ASSUME LoopInv, stops = 0, start
  PROVE  LoopInv'
<1> DEFINE fresh == {[start |-> starts', sock |-> s, at |-> "top"] : s \in m_socks}
<1>1. /\ UNCHANGED <<m_socks, open, socks, jobs, closing, stops, fault>> /\ m_isStop' = FALSE
  BY DEF start
<1>2. CASE m_isStop
  <2>1. starts' = starts + 1 /\ loops' = fresh
    BY <1>2 DEF start, LoopInv, BeforeStop
  <2>2. fresh \subseteq LoopType
    BY <2>1 DEF LoopInv, TcpType, LoopType
  <2>3. \A l \in loops' : l.sock \in m_socks /\ l = [start |-> starts', sock |-> l.sock, at |-> "top"]
    BY <2>1
  <2>4. \A s \in m_socks : Listens(s)
    BY DEF LoopInv, BeforeStop
  <2>5. OneLoopPerSocket'
    BY <1>1, <2>3, <2>4, Zenon DEF LoopInv, OneLoopPerSocket, Listens
  <2>6. TcpType'
    BY <1>1, <2>1, <2>2 DEF LoopInv, TcpType
  <2> HIDE DEF fresh
  <2>7. QED
    BY <1>1, <2>4, <2>5, <2>6 DEF LoopInv, BeforeStop, AfterStop, Listens
<1>3. CASE ~m_isStop
  <2>1. UNCHANGED <<starts, loops>>
    BY <1>3 DEF start
  <2>2. QED
    BY <1>1, <1>3, <2>1
       DEF LoopInv, TcpType, BeforeStop, AfterStop, OneLoopPerSocket, Listens
<1>4. QED
  BY <1>2, <1>3

LEMMA LoopStop ==
  ASSUME LoopInv, stop
  PROVE  LoopInv'
<1>1. /\ UNCHANGED <<m_socks, open, socks, loops, starts, fault>>
      /\ stops' = stops + 1 /\ m_isStop' = TRUE
  BY DEF stop
<1>2. stops' \in Nat /\ stops' # 0
  BY <1>1 DEF LoopInv, TcpType
<1>3. QED
  BY <1>1, <1>2 DEF LoopInv, TcpType, BeforeStop, AfterStop, OneLoopPerSocket

\* Loops that wait on a socket go on: which loops there are stays the same.
LEMMA LoopsWoken ==
  ASSUME TcpType, OneLoopPerSocket, NEW s, Wake(s)
  PROVE  /\ loops' \subseteq LoopType
         /\ \A l, x \in loops' : l.sock = x.sock => l = x
         /\ \A x \in loops' : \E l \in loops : l.sock = x.sock
<1> DEFINE woken(l) == IF l.sock = s /\ l.at \in {"wait", "late"}
                       THEN [l EXCEPT !.at = "accept"] ELSE l
<1>1. \A l \in loops : woken(l) \in LoopType /\ woken(l).sock = l.sock
  BY DEF TcpType, LoopType
<1>2. \A x \in loops' : \E l \in loops : x = woken(l)
  BY DEF Wake
<1> HIDE DEF woken
<1>3. QED
  BY <1>1, <1>2 DEF OneLoopPerSocket

\* A job of stop() is under way only when stop() has been called.
LEMMA LoopJob ==
  ASSUME LoopInv, Job
  PROVE  LoopInv'
<1>1. stops # 0 /\ stops > 0 /\ m_isStop
  <2>1. jobs > 0 \/ closing.at # "none"
    BY DEF Job, CloseSocks, ForgetFd, CloseFd, ClearSocks, CancelWaiters
  <2>2. NoJob.at = "none" /\ ~(0 > 0)
    BY DEF NoJob
  <2>3. stops # 0
    BY <2>1, <2>2, Zenon DEF LoopInv, BeforeStop
  <2>4. QED
    BY <2>3 DEF LoopInv, TcpType, AfterStop
<1>2. UNCHANGED <<m_isStop, socks, starts, stops, fault>> /\ (m_socks' = {} \/ m_socks' = m_socks)
  BY DEF Job, CloseSocks, ForgetFd, CloseFd, ClearSocks, CancelWaiters
<1>3. /\ loops' \subseteq LoopType
      /\ \A l, x \in loops' : l.sock = x.sock => l = x
  <2>1. CASE CancelWaiters("cancelAll", "close") \/ CancelWaiters("close", "del")
    <3>1. Wake(Closing)
      BY <2>1 DEF CancelWaiters
    <3>2. QED
      BY <3>1, LoopsWoken DEF LoopInv
  <2>2. CASE CloseSocks \/ ForgetFd \/ CloseFd \/ ClearSocks
    <3>1. loops' = loops
      BY <2>2 DEF CloseSocks, ForgetFd, CloseFd, ClearSocks
    <3>2. QED
      BY <3>1 DEF LoopInv, TcpType, OneLoopPerSocket
  <2>3. QED
    BY <2>1, <2>2 DEF Job
<1>4. QED
  BY <1>1, <1>2, <1>3 DEF LoopInv, TcpType, BeforeStop, AfterStop, OneLoopPerSocket

\* One loop goes from one place to another.
LEMMA LoopMoves ==
  ASSUME TcpType, OneLoopPerSocket, NEW l \in loops,
         NEW label \in {"top", "accept", "add", "wait", "late"}, Moves(l, label)
  PROVE  /\ loops' \subseteq LoopType
         /\ \A k, x \in loops' : k.sock = x.sock => k = x
         /\ \A x \in loops' : \E k \in loops : k.sock = x.sock
<1> DEFINE m == [l EXCEPT !.at = label]
<1>1. m \in LoopType /\ m.sock = l.sock
  BY DEF TcpType, LoopType
<1>2. loops' = (loops \ {l}) \cup {m}
  BY DEF Moves
<1> HIDE DEF m
<1>3. QED
  BY <1>1, <1>2 DEF OneLoopPerSocket, TcpType

\* When loops only move, on the same open sockets, the rest is kept.
LEMMA LoopsKept ==
  ASSUME LoopInv, UNCHANGED <<m_isStop, m_socks, open, socks, jobs, closing, starts, stops>>,
         loops' \subseteq LoopType,
         \A k, x \in loops' : k.sock = x.sock => k = x,
         \A x \in loops' : \E k \in loops : k.sock = x.sock,
         ~fault'
  PROVE  LoopInv'
<1>1. TcpType'
  BY DEF LoopInv, TcpType
<1>2. BeforeStop' /\ AfterStop'
  BY DEF LoopInv, BeforeStop, AfterStop, Listens
<1>3. OneLoopPerSocket'
  BY DEF LoopInv, OneLoopPerSocket, Listens
<1>4. QED
  BY <1>1, <1>2, <1>3 DEF LoopInv

LEMMA LoopLoopTest ==
  ASSUME LoopInv, NEW l \in loops, LoopTest(l)
  PROVE  LoopInv'
<1>1. UNCHANGED <<m_isStop, m_socks, socks, jobs, closing, starts, stops, fault>> /\ ~fault
  BY DEF LoopTest, LoopInv, OneLoopPerSocket
<1>2. CASE m_isStop
  <2>1. /\ loops' = loops \ {l}
        /\ open' = {o \in open : o.sock \in m_socks \/ \E x \in loops' : x.sock = o.sock}
    BY <1>2 DEF LoopTest
  <2>2. BeforeStop'
    BY <1>1, <2>1 DEF LoopInv, BeforeStop, Listens
  <2>3. QED
    BY <1>1, <1>2, <2>1, <2>2 DEF LoopInv, TcpType, AfterStop, OneLoopPerSocket
<1>3. CASE ~m_isStop
  <2>1. Moves(l, "accept") /\ open' = open
    BY <1>3 DEF LoopTest
  <2>2. /\ loops' \subseteq LoopType
        /\ \A k, x \in loops' : k.sock = x.sock => k = x
        /\ \A x \in loops' : \E k \in loops : k.sock = x.sock
    BY <2>1, LoopMoves DEF LoopInv
  <2>3. QED
    BY <1>1, <2>1, <2>2, LoopsKept
<1>4. QED
  BY <1>2, <1>3

LEMMA LoopAccept ==
  ASSUME LoopInv, NEW l \in loops, Accept(l) \/ AddEvent(l)
  PROVE  LoopInv'
<1>1. UNCHANGED <<m_isStop, m_socks, open, socks, jobs, closing, starts, stops>>
  BY DEF Accept, AddEvent
<1>2. PICK label \in {"top", "accept", "add", "wait", "late"} : Moves(l, label)
  BY DEF Accept, AddEvent
<1>3. /\ loops' \subseteq LoopType
      /\ \A k, x \in loops' : k.sock = x.sock => k = x
      /\ \A x \in loops' : \E k \in loops : k.sock = x.sock
  BY <1>2, LoopMoves DEF LoopInv
\* A loop that waits on this socket would be this loop, which does not wait yet.
<1>4. ~fault'
  <2>1. ~fault
    BY DEF LoopInv, OneLoopPerSocket
  <2>2. l.at \in {"accept", "add"}
    BY DEF Accept, AddEvent
  <2>3. \A x \in loops : ~(x.sock = l.sock /\ x.at \in {"wait", "late"})
    BY <2>2 DEF LoopInv, OneLoopPerSocket
  <2>4. QED
    BY <2>1, <2>3 DEF Accept, AddEvent
<1>5. QED
  BY <1>1, <1>3, <1>4, LoopsKept

LEMMA LoopConnect ==
  ASSUME LoopInv, NEW c \in Conns, Connect(c)
  PROVE  LoopInv'
<1>1. UNCHANGED <<m_isStop, m_socks, open, socks, jobs, closing, starts, stops, fault>> /\ ~fault
  BY DEF Connect, LoopInv, OneLoopPerSocket
<1>2. PICK o \in open : Wake(o.sock)
  BY DEF Connect
<1>3. /\ loops' \subseteq LoopType
      /\ \A l, x \in loops' : l.sock = x.sock => l = x
      /\ \A x \in loops' : \E l \in loops : l.sock = x.sock
  BY <1>2, LoopsWoken DEF LoopInv
<1>4. QED
  BY <1>1, <1>3, LoopsKept

\* A call of bind(), or one of start().
Calls == start \/ \E addrs \in Binds : bind(addrs)

LEMMA LoopNext ==
  ASSUME LoopInv, [Next]_vars, [stops > 0 => ~Calls]_vars
  PROVE  LoopInv'
<1>1. CASE UNCHANGED vars \/ (SessionNext /\ UNCHANGED tcpvars)
  <2>1. UNCHANGED <<m_isStop, m_socks, open, socks, loops, jobs, closing, starts, stops, fault>>
    BY <1>1 DEF vars, tcpvars
  <2>2. QED
    BY <2>1 DEF LoopInv, TcpType, BeforeStop, AfterStop, OneLoopPerSocket, Listens
<1>2. CASE Calls /\ stops = 0
  BY <1>2, LoopBind, LoopStart DEF Calls
<1>3. CASE Calls /\ ~ (stops > 0)
  BY <1>2, <1>3 DEF LoopInv, TcpType
<1>4. CASE \E l \in loops : LoopTest(l) \/ Accept(l) \/ AddEvent(l)
  BY <1>4, LoopLoopTest, LoopAccept
<1>5. CASE \E c \in Conns : Connect(c)
  BY <1>5, LoopConnect
<1>6. QED
  BY <1>1, <1>3, <1>4, <1>5, LoopStop, LoopJob DEF Next, Calls

\* A program that does not call bind() or start() again once it has called stop(), however
\* its calls meet the steps of the loops, of stop()'s jobs and of connecting clients, never
\* has two accept loops on one socket, so that addEvent does not assert; and while the
\* server runs every loop serves a socket that listens.
THEOREM SocketsHaveOneLoop == Spec /\ [][stops > 0 => ~Calls]_vars => []OneLoopPerSocket
<1>1. LoopInv => OneLoopPerSocket
  BY DEF LoopInv
<1>2. LoopInv /\ [Next]_vars /\ [stops > 0 => ~Calls]_vars => LoopInv'
  BY LoopNext
<1>3. QED
  BY <1>1, <1>2, LoopInit, PTL DEF Spec
-----------------------------------------------------------------------------
(***************************************************************************)
(* What a client sends                                                     *)
(***************************************************************************)
Parts == HeadParts \cup {"body"}
Token == [number : Nat, part : Parts, index : Int, final : BOOLEAN]

\* The head and the length of the body of a client's first request.
First(c) == Script[c][1].head
H(c) == Len(First(c))
B(c) == Script[c][1].body

\* A set of natural numbers that has a member has a least one.
LEMMA LeastOf ==
  ASSUME NEW K \in SUBSET Nat, NEW m \in K
  PROVE  \E k \in K : \A j \in K : k <= j
<1>1. PICK k \in K : \A j \in K : ~ (<<j, k>> \in OpToRel(<, Nat))
  BY NatLessThanWellFounded, WFMin
<1>2. \A j \in K : ~ (j < k)
  BY <1>1, Zenon DEF OpToRel
<1>3. QED
  BY <1>2

\* FlattenSeq's table of the first i sequences joined exists.
LEMMA FlattenTable ==
  ASSUME NEW seqs, NEW n \in Nat
  PROVE  \E f : f = [i \in 1..n |-> IF i = 1 THEN seqs[i] ELSE f[i - 1] \o seqs[i]]
<1> DEFINE Table(f, m) == f = [i \in 1..m |-> IF i = 1 THEN seqs[i] ELSE f[i - 1] \o seqs[i]]
           Bad == {m \in Nat : ~ \E f : Table(f, m)}
<1>1. SUFFICES ASSUME NEW x \in Bad PROVE FALSE
  OBVIOUS
<1>2. PICK m \in Bad : \A j \in Bad : m <= j
  BY <1>1, LeastOf
<1>3. m # 0
  <2>1. Table([i \in 1..0 |-> 0], 0)
    OBVIOUS
  <2>2. QED
    BY <2>1
<1>4. PICK f : Table(f, m - 1)
  <2>1. m \in Nat /\ m - 1 \in Nat /\ ~ (m <= m - 1)
    BY <1>3
  <2>2. m - 1 \notin Bad
    BY <1>2, <2>1, Zenon
  <2>3. QED
    BY <2>1, <2>2, Zenon
<1>5. Table([i \in 1..m |-> IF i = 1 THEN seqs[i] ELSE f[i - 1] \o seqs[i]], m)
  <2> DEFINE g == [i \in 1..m |-> IF i = 1 THEN seqs[i] ELSE f[i - 1] \o seqs[i]]
  <2>1. \A i \in 1..(m - 1) : f[i] = IF i = 1 THEN seqs[i] ELSE f[i - 1] \o seqs[i]
    BY <1>4, Zenon
  <2>2. \A i \in 1..m : g[i] = IF i = 1 THEN seqs[i] ELSE f[i - 1] \o seqs[i]
    BY Zenon
  <2>3. \A i \in 1..m : i # 1 => g[i - 1] = f[i - 1]
    <3> HIDE DEF g
    <3>1. \A i \in 1..(m - 1) : g[i] = f[i]
      BY <2>1, <2>2
    <3>2. QED
      BY <3>1
  <2>4. \A i \in 1..m : (IF i = 1 THEN seqs[i] ELSE f[i - 1] \o seqs[i])
                         = (IF i = 1 THEN seqs[i] ELSE g[i - 1] \o seqs[i])
    BY <2>3, Zenon
  <2>5. QED
    BY <2>4, Zenon
<1>6. QED
  BY <1>5

\* Sequences joined begin with the first of them.
LEMMA FlattenFirst ==
  ASSUME NEW T, NEW seqs, NEW n \in Nat, n > 0, Len(seqs) = n,
         \A i \in 1..n : seqs[i] \in Seq(T)
  PROVE  /\ FlattenSeq(seqs) \in Seq(T)
         /\ Len(seqs[1]) <= Len(FlattenSeq(seqs))
         /\ \A k \in 1..Len(seqs[1]) : FlattenSeq(seqs)[k] = seqs[1][k]
<1> DEFINE F == CHOOSE f : f = [i \in 1..n |-> IF i = 1 THEN seqs[i] ELSE f[i - 1] \o seqs[i]]
           Starts(s) == /\ s \in Seq(T) /\ Len(seqs[1]) <= Len(s)
                        /\ \A k \in 1..Len(seqs[1]) : s[k] = seqs[1][k]
<1>1. F = [i \in 1..n |-> IF i = 1 THEN seqs[i] ELSE F[i - 1] \o seqs[i]]
  BY FlattenTable
<1>0. \A i \in 1..n : F[i] = IF i = 1 THEN seqs[i] ELSE F[i - 1] \o seqs[i]
  <2> HIDE DEF F
  <2>1. QED
    BY <1>1, Zenon
<1>2. FlattenSeq(seqs) = F[n]
  BY DEF FlattenSeq
<1> HIDE DEF F
<1>3. ASSUME NEW i \in 2..n, Starts(F[i - 1])
      PROVE  Starts(F[i])
  <2>1. F[i] = F[i - 1] \o seqs[i]
    <3>1. i \in 1..n /\ i # 1
      OBVIOUS
    <3>2. QED
      BY <1>0, <3>1, Zenon
  <2> DEFINE s == F[i - 1]
             t == seqs[i]
             u == seqs[1]
  <2>2. u \in Seq(T) /\ t \in Seq(T)
    OBVIOUS
  <2>3. s \in Seq(T) /\ Len(u) <= Len(s) /\ \A k \in 1..Len(u) : s[k] = u[k]
    BY <1>3
  <2> HIDE DEF s, t, u
  <2>4. s \o t \in Seq(T) /\ Len(u) <= Len(s \o t) /\ \A k \in 1..Len(u) : (s \o t)[k] = u[k]
    BY <2>2, <2>3, ConcatProperties, LenProperties
  <2>5. QED
    BY <2>1, <2>4 DEF s, t, u
<1>4. Starts(F[1])
  BY <1>0
<1> HIDE DEF Starts
<1>5. \A i \in 1..n : Starts(F[i])
  <2> DEFINE Bad == {i \in 1..n : ~Starts(F[i])}
  <2>1. SUFFICES ASSUME NEW x \in Bad PROVE FALSE
    OBVIOUS
  <2>2. PICK i \in Bad : \A j \in Bad : i <= j
    <3>1. Bad \in SUBSET Nat
      OBVIOUS
    <3> HIDE DEF Bad
    <3>2. QED
      BY <2>1, <3>1, LeastOf
  <2>3. i \in 2..n /\ i - 1 \notin Bad
    <3>1. i # 1
      BY <1>4
    <3>2. i \in 2..n /\ ~ (i <= i - 1)
      BY <3>1
    <3>3. QED
      BY <2>2, <3>2, Zenon
  <2>4. QED
    <3>1. i - 1 \in 1..n
      BY <2>3
    <3>2. QED
      BY <1>3, <2>3, <3>1
<1>6. QED
  BY <1>2, <1>5 DEF Starts

\* The stream of a client that sends anything begins with its first request.
LEMMA StreamStarts ==
  ASSUME NEW c \in Conns, Stream(c) # <<>>
  PROVE  /\ Len(Script[c]) > 0
         /\ First(c) \in Seq(HeadParts) /\ H(c) \in Nat \ {0} /\ B(c) \in Nat
         /\ \A k \in 1..H(c) : First(c)[k] = "last" <=> k = H(c)
         /\ Stream(c) \in Seq(Token)
         /\ H(c) + B(c) <= Len(Stream(c))
         /\ \A k \in 1..(H(c) + B(c)) :
              /\ Stream(c)[k].number = 1
              /\ Stream(c)[k].part = IF k <= H(c) THEN First(c)[k] ELSE "body"
              /\ Stream(c)[k].final = (k < H(c) => First(c)[k] # First(c)[k + 1])
         /\ Body(c, 1) \in Seq(Token) /\ Len(Body(c, 1)) = B(c)
         /\ \A k \in 1..B(c) : Body(c, 1)[k] = Stream(c)[H(c) + k]
<1> DEFINE n == Len(Script[c])
           seqs == [i \in 1..n |-> Tokens(c, i)]
<1>1. n \in Nat
  BY HttpServerAssumption
<1>2. Len(seqs) = n
  BY <1>1
<1>3. n > 0
  <2>1. SUFFICES ASSUME n = 0 PROVE FALSE
    BY <1>1
  <2>2. Stream(c) = seqs
    BY <1>2, <2>1 DEF Stream, Streams, FlattenSeq
  <2>3. seqs = <<>>
    BY <2>1
  <2>4. QED
    BY <2>2, <2>3
<1>4. \A i \in 1..n : LET r == Script[c][i] IN
        /\ r.head \in Seq(HeadParts) /\ Len(r.head) > 0 /\ r.body \in Nat
        /\ \A k \in 1..Len(r.head) : r.head[k] = "last" <=> k = Len(r.head)
  BY HttpServerAssumption, Zenon
<1>5. \A i \in 1..n : /\ Tokens(c, i) \in Seq(Token)
                      /\ Len(Tokens(c, i)) = Len(Script[c][i].head) + Script[c][i].body
  <2> SUFFICES ASSUME NEW i \in 1..n
               PROVE  /\ Tokens(c, i) \in Seq(Token)
                      /\ Len(Tokens(c, i)) = Len(Script[c][i].head) + Script[c][i].body
    OBVIOUS
  <2> DEFINE head == Script[c][i].head
             h == Len(head)
             b == Script[c][i].body
             token(k) == [number |-> i, part |-> IF k <= h THEN head[k] ELSE "body",
                          index |-> k - h, final |-> k < h => head[k] # head[k + 1]]
  <2>1. head \in Seq(HeadParts) /\ h \in Nat /\ b \in Nat /\ i \in Nat
    BY <1>1, <1>4
  <2>2. Tokens(c, i) = [k \in 1..(h + b) |-> token(k)]
    BY DEF Tokens
  <2>3. \A k \in 1..h : head[k] \in Parts
    <3> HIDE DEF head
    <3>1. QED
      BY <2>1 DEF Parts
  <2> HIDE DEF head, h, b
  <2>4. \A k \in 1..(h + b) : token(k) \in Token
    <3> SUFFICES ASSUME NEW k \in 1..(h + b) PROVE token(k) \in Token
      OBVIOUS
    <3>1. (IF k <= h THEN head[k] ELSE "body") \in Parts
      BY <2>1, <2>3 DEF Parts
    <3>2. (k < h => head[k] # head[k + 1]) \in BOOLEAN
      BY Zenon
    <3>3. k - h \in Int
      BY <2>1
    <3>4. QED
      BY <2>1, <3>1, <3>2, <3>3, Zenon DEF Token
  <2> HIDE DEF token
  <2>5. [k \in 1..(h + b) |-> token(k)] \in Seq(Token)
    BY <2>1, <2>4, IsASeq
  <2>6. Len([k \in 1..(h + b) |-> token(k)]) = h + b
    BY <2>1
  <2>7. QED
    BY <2>2, <2>5, <2>6 DEF h, b, head
<1>6. /\ Stream(c) \in Seq(Token)
      /\ Len(Tokens(c, 1)) <= Len(Stream(c))
      /\ \A k \in 1..Len(Tokens(c, 1)) : Stream(c)[k] = Tokens(c, 1)[k]
  <2>1. \A i \in 1..n : seqs[i] = Tokens(c, i) /\ seqs[i] \in Seq(Token)
    BY <1>5
  <2>2. Stream(c) = FlattenSeq(seqs)
    BY DEF Stream, Streams
  <2> HIDE DEF seqs, n
  <2>3. /\ FlattenSeq(seqs) \in Seq(Token)
        /\ Len(seqs[1]) <= Len(FlattenSeq(seqs))
        /\ \A k \in 1..Len(seqs[1]) : FlattenSeq(seqs)[k] = seqs[1][k]
    BY <1>1, <1>2, <1>3, <2>1, FlattenFirst
  <2>4. seqs[1] = Tokens(c, 1)
    BY <1>1, <1>3, <2>1
  <2>5. QED
    BY <2>2, <2>3, <2>4
<1> DEFINE s == Tokens(c, 1)
           h == H(c)
           b == B(c)
<1>7. 1 \in 1..n
  BY <1>1, <1>3
<1>8. /\ First(c) \in Seq(HeadParts) /\ h \in Nat \ {0} /\ b \in Nat
      /\ \A k \in 1..h : First(c)[k] = "last" <=> k = h
      /\ s \in Seq(Token) /\ Len(s) = h + b
  <2>1. /\ First(c) \in Seq(HeadParts) /\ h > 0 /\ b \in Nat
        /\ \A k \in 1..h : First(c)[k] = "last" <=> k = h
    BY <1>4, <1>7, Zenon DEF First, H, B
  <2>2. h \in Nat
    BY <2>1 DEF H
  <2>3. s \in Seq(Token) /\ Len(s) = h + b
    BY <1>5, <1>7, Zenon DEF First, H, B
  <2> HIDE DEF h, b, s
  <2>4. QED
    BY <2>1, <2>2, <2>3
<1>9. \A k \in 1..(h + b) :
         /\ s[k].number = 1
         /\ s[k].part = IF k <= h THEN First(c)[k] ELSE "body"
         /\ s[k].final = (k < h => First(c)[k] # First(c)[k + 1])
  BY DEF Tokens, First, H, B
<1>10. Body(c, 1) = SubSeq(s, h + 1, h + b)
  BY <1>8 DEF Body, First, H
<1> HIDE DEF s, h, b
<1>11. /\ SubSeq(s, h + 1, h + b) \in Seq(Token)
       /\ Len(SubSeq(s, h + 1, h + b)) = b
       /\ \A k \in 1..b : SubSeq(s, h + 1, h + b)[k] = s[h + k]
  BY <1>8
<1>12. /\ Stream(c) \in Seq(Token)
       /\ Len(s) <= Len(Stream(c))
       /\ \A k \in 1..Len(s) : Stream(c)[k] = s[k]
  BY <1>6 DEF s
<1>13. \A k \in 1..b : Body(c, 1)[k] = Stream(c)[h + k]
  <2>1. \A k \in 1..b : h + k \in 1..Len(s)
    BY <1>8
  <2>2. QED
    BY <1>10, <1>11, <1>12, <2>1, Zenon
<1>14. Len(Script[c]) > 0
  BY <1>3
<1>15. h + b <= Len(Stream(c))
  BY <1>8, <1>12
<1>16. \A k \in 1..(h + b) :
         /\ Stream(c)[k].number = 1
         /\ Stream(c)[k].part = IF k <= h THEN First(c)[k] ELSE "body"
         /\ Stream(c)[k].final = (k < h => First(c)[k] # First(c)[k + 1])
  <2>1. \A k \in 1..(h + b) : Stream(c)[k] = s[k]
    BY <1>8, <1>12
  <2>2. SUFFICES ASSUME NEW k \in 1..(h + b)
                 PROVE  /\ Stream(c)[k].number = 1
                        /\ Stream(c)[k].part = IF k <= h THEN First(c)[k] ELSE "body"
                        /\ Stream(c)[k].final = (k < h => First(c)[k] # First(c)[k + 1])
    OBVIOUS
  <2>3. /\ s[k].number = 1
        /\ s[k].part = IF k <= h THEN First(c)[k] ELSE "body"
        /\ s[k].final = (k < h => First(c)[k] # First(c)[k + 1])
    BY <1>9, Zenon
  <2>4. Stream(c)[k] = s[k]
    BY <2>1
  <2>5. QED
    BY <2>3, <2>4, Zenon
<1>17. Body(c, 1) \in Seq(Token) /\ Len(Body(c, 1)) = b
  BY <1>10, <1>11, Zenon
<1>18. QED
  BY <1>8, <1>12, <1>13, <1>14, <1>15, <1>16, <1>17, Zenon DEF h, b
-----------------------------------------------------------------------------
(***************************************************************************)
(* The servlet table                                                       *)
(***************************************************************************)
GlobEntry == [glob : Globs, servlet : Nat]

TableType ==
  /\ m_datas \in [Uris -> Nat] /\ m_globs \in Seq(GlobEntry)
  /\ latest \in [Uris \cup Globs -> Nat] /\ changes \in Nat

\* An exact name has the servlet registered last, and every entry of a pattern too;
\* a pattern has one entry.
DatasLatest == \A u \in Uris : m_datas[u] = latest[u]
GlobsLatest == \A k \in 1..Len(m_globs) : m_globs[k].servlet = latest[m_globs[k].glob]
GlobsOnce == \A j, k \in 1..Len(m_globs) : m_globs[j].glob = m_globs[k].glob => j = k

TableInv == TableType /\ DatasLatest /\ GlobsLatest /\ GlobsOnce

LEMMA TableInit == SessionInit => TableInv
BY DEF SessionInit, TableInv, TableType, DatasLatest, GlobsLatest, GlobsOnce

\* The servlet that is found is the last registered under the name it was found by.
LEMMA FoundIsLatest ==
  ASSUME TableInv, NEW uri
  PROVE  LET s == getMatchedServlet(uri)
         IN  s.servlet \in Nat /\ (s.name = "default" \/ latest[s.name] = s.servlet)
<1> DEFINE hits == {k \in 1..Len(m_globs) : uri \in Matches[m_globs[k].glob]}
           k == CHOOSE i \in hits : \A j \in hits : i <= j
           s == getMatchedServlet(uri)
<1>1. CASE uri \in Uris /\ m_datas[uri] # 0
  BY <1>1 DEF getMatchedServlet, TableInv, TableType, DatasLatest
<1>2. CASE ~(uri \in Uris /\ m_datas[uri] # 0) /\ hits # {}
  <2>1. hits \in SUBSET Nat
    BY DEF TableInv, TableType
  <2>2. \E i \in hits : \A j \in hits : i <= j
    <3> HIDE DEF hits
    <3>1. QED
      BY <1>2, <2>1, LeastOf
  <2>3. k \in hits
    BY <2>2
  <2>4. k \in 1..Len(m_globs)
    BY <2>3
  <2>5. s = [name |-> m_globs[k].glob, servlet |-> m_globs[k].servlet]
    BY <1>2 DEF getMatchedServlet
  <2> HIDE DEF k, s
  <2>6. m_globs[k] \in GlobEntry
    BY <2>4 DEF TableInv, TableType
  <2>7. QED
    BY <2>4, <2>5, <2>6 DEF TableInv, GlobsLatest, GlobEntry, s
<1>3. CASE ~(uri \in Uris /\ m_datas[uri] # 0) /\ hits = {}
  <2>1. s = [name |-> "default", servlet |-> 0]
    BY <1>3 DEF getMatchedServlet
  <2>2. QED
    BY <2>1
<1>4. QED
  BY <1>1, <1>2, <1>3

\* Without takes out the only entry of the pattern.
LEMMA WithoutTakesOut ==
  ASSUME TableInv, NEW glob \in Globs
  PROVE  /\ Without(glob) \in Seq(GlobEntry)
         /\ \A k \in 1..Len(Without(glob)) :
              /\ Without(glob)[k].glob # glob
              /\ Without(glob)[k].servlet = latest[Without(glob)[k].glob]
         /\ \A j, k \in 1..Len(Without(glob)) :
              Without(glob)[j].glob = Without(glob)[k].glob => j = k
<1> DEFINE ks == {k \in 1..Len(m_globs) : m_globs[k].glob = glob}
           m == CHOOSE k \in ks : \A j \in ks : k <= j
           n == Len(m_globs)
           w == Without(glob)
<1>0. n \in Nat /\ m_globs \in Seq(GlobEntry)
  BY DEF TableInv, TableType
<1>1. CASE ks = {}
  <2>1. w = m_globs
    BY <1>1 DEF Without
  <2>2. QED
    BY <1>1, <2>1 DEF TableInv, TableType, GlobsLatest, GlobsOnce
<1>2. CASE ks # {}
  <2>1. ks \in SUBSET Nat
    BY <1>0
  <2>2. \E i \in ks : \A j \in ks : i <= j
    <3> HIDE DEF ks
    <3>1. QED
      BY <1>2, <2>1, LeastOf
  <2>3. m \in ks
    BY <2>2
  <2>4. m \in 1..n /\ m_globs[m].glob = glob
    BY <2>3
  <2>5. w = SubSeq(m_globs, 1, m - 1) \o SubSeq(m_globs, m + 1, n)
    BY <1>2 DEF Without, RemoveAt
  <2> HIDE DEF m, w, ks, n
  <2>6. /\ w \in Seq(GlobEntry) /\ Len(w) = n - 1
        /\ \A k \in 1..(n - 1) : w[k] = IF k < m THEN m_globs[k] ELSE m_globs[k + 1]
    <3> DEFINE a == SubSeq(m_globs, 1, m - 1)
               b == SubSeq(m_globs, m + 1, n)
    <3>1. /\ a \in Seq(GlobEntry) /\ Len(a) = m - 1
          /\ \A k \in 1..(m - 1) : a[k] = m_globs[k]
      BY <1>0, <2>4 DEF n
    <3>2. /\ b \in Seq(GlobEntry) /\ Len(b) = n - m
          /\ \A k \in 1..(n - m) : b[k] = m_globs[m + k]
      BY <1>0, <2>4 DEF n
    <3>3. w = a \o b
      BY <2>5
    <3> HIDE DEF a, b
    <3>4. /\ w \in Seq(GlobEntry) /\ Len(w) = n - 1
          /\ \A k \in 1..(n - 1) : w[k] = IF k <= m - 1 THEN a[k] ELSE b[k - (m - 1)]
      <4>1. a \in Seq(GlobEntry) /\ b \in Seq(GlobEntry)
        BY <3>1, <3>2
      <4>2. /\ w \in Seq(GlobEntry) /\ Len(w) = Len(a) + Len(b)
            /\ \A k \in 1..(Len(a) + Len(b)) :
                 w[k] = IF k <= Len(a) THEN a[k] ELSE b[k - Len(a)]
        BY <3>3, <4>1, ConcatProperties
      <4>3. Len(a) + Len(b) = n - 1
        BY <1>0, <2>4, <3>1, <3>2
      <4>4. QED
        BY <3>1, <4>2, <4>3
    <3>5. ASSUME NEW k \in 1..(n - 1)
          PROVE  w[k] = IF k < m THEN m_globs[k] ELSE m_globs[k + 1]
      <4>1. CASE k < m
        BY <1>0, <2>4, <3>1, <3>4, <4>1
      <4>2. CASE ~(k < m)
        <5>1. /\ k - (m - 1) \in 1..(n - m) /\ m + (k - (m - 1)) = k + 1
              /\ ~(k <= m - 1)
          BY <1>0, <2>4, <4>2
        <5>2. QED
          BY <3>2, <3>4, <4>2, <5>1
      <4>3. QED
        BY <4>1, <4>2
    <3>6. QED
      BY <3>4, <3>5
  <2>7. \A k \in 1..(n - 1) :
           LET j == IF k < m THEN k ELSE k + 1 IN j \in 1..n /\ j # m /\ w[k] = m_globs[j]
    BY <1>0, <2>4, <2>6
  <2>8. \A j \in 1..n : j # m => m_globs[j].glob # glob
    BY <2>4 DEF TableInv, GlobsOnce, n
  <2>9. \A k \in 1..(n - 1) : w[k].glob # glob /\ w[k].servlet = latest[w[k].glob]
    BY <2>7, <2>8 DEF TableInv, GlobsLatest, n
  <2>10. \A j, k \in 1..(n - 1) : w[j].glob = w[k].glob => j = k
    <3> SUFFICES ASSUME NEW j \in 1..(n - 1), NEW k \in 1..(n - 1), w[j].glob = w[k].glob
                 PROVE  j = k
      OBVIOUS
    <3> DEFINE a == IF j < m THEN j ELSE j + 1
               b == IF k < m THEN k ELSE k + 1
    <3>1. a \in 1..n /\ b \in 1..n /\ w[j] = m_globs[a] /\ w[k] = m_globs[b]
      BY <2>7
    <3>2. a = b
      <4> HIDE DEF a, b
      <4>1. QED
        BY <3>1 DEF TableInv, GlobsOnce, n
    <3>3. QED
      BY <1>0, <2>4, <3>2
  <2>11. QED
    BY <2>6, <2>9, <2>10 DEF w
<1>3. QED
  BY <1>1, <1>2

LEMMA GlobsAreGlobs ==
  ASSUME NEW s \in Seq(GlobEntry)
  PROVE  \A k \in 1..Len(s) : s[k].glob \in Globs
<1>1. \A k \in 1..Len(s) : s[k] \in GlobEntry
  OBVIOUS
<1>2. QED
  BY <1>1 DEF GlobEntry

LEMMA TableChange ==
  ASSUME TableInv,
         \/ \E u \in Uris : addServlet(u) \/ delServlet(u)
         \/ \E g \in Globs : addGlobServlet(g) \/ delGlobServlet(g)
  PROVE  TableInv'
<1>1. ASSUME NEW u \in Uris, addServlet(u) PROVE TableInv'
  <2>1. u \notin Globs
    BY HttpServerAssumption
  <2>2. changes' = changes + 1 /\ changes' \in Nat /\ m_globs' = m_globs
    BY <1>1 DEF addServlet, Changes, TableInv, TableType
  <2>3. /\ m_datas' = [m_datas EXCEPT ![u] = changes']
        /\ latest' = [latest EXCEPT ![u] = changes']
    BY <1>1 DEF addServlet
  <2>4. TableType'
    BY <2>2, <2>3 DEF TableInv, TableType
  <2>5. \A x \in Globs : latest'[x] = latest[x]
    BY <2>1, <2>3 DEF TableInv, TableType
  <2>6. \A k \in 1..Len(m_globs) : m_globs[k].glob \in Globs
    BY GlobsAreGlobs DEF TableInv, TableType
  <2>7. GlobsLatest' /\ GlobsOnce'
    BY <2>2, <2>5, <2>6 DEF TableInv, GlobsLatest, GlobsOnce
  <2>8. DatasLatest'
    BY <2>3 DEF TableInv, TableType, DatasLatest
  <2>9. QED
    BY <2>4, <2>7, <2>8 DEF TableInv
<1>2. ASSUME NEW u \in Uris, delServlet(u) PROVE TableInv'
  <2>1. u \notin Globs
    BY HttpServerAssumption
  <2>2. changes' = changes + 1 /\ changes' \in Nat /\ m_globs' = m_globs
    BY <1>2 DEF delServlet, Changes, TableInv, TableType
  <2>3. /\ m_datas' = [m_datas EXCEPT ![u] = 0]
        /\ latest' = [latest EXCEPT ![u] = 0]
    BY <1>2 DEF delServlet
  <2>4. TableType'
    BY <2>2, <2>3 DEF TableInv, TableType
  <2>5. \A x \in Globs : latest'[x] = latest[x]
    BY <2>1, <2>3 DEF TableInv, TableType
  <2>6. \A k \in 1..Len(m_globs) : m_globs[k].glob \in Globs
    BY GlobsAreGlobs DEF TableInv, TableType
  <2>7. GlobsLatest' /\ GlobsOnce'
    BY <2>2, <2>5, <2>6 DEF TableInv, GlobsLatest, GlobsOnce
  <2>8. DatasLatest'
    BY <2>3 DEF TableInv, TableType, DatasLatest
  <2>9. QED
    BY <2>4, <2>7, <2>8 DEF TableInv
<1>3. ASSUME NEW g \in Globs, addGlobServlet(g) \/ delGlobServlet(g) PROVE TableInv'
  <2> DEFINE w == Without(g)
  <2>1. g \notin Uris
    BY HttpServerAssumption
  <2>2. /\ w \in Seq(GlobEntry)
        /\ \A k \in 1..Len(w) : w[k].glob # g /\ w[k].servlet = latest[w[k].glob]
        /\ \A j, k \in 1..Len(w) : w[j].glob = w[k].glob => j = k
    BY WithoutTakesOut
  <2>3. changes' = changes + 1 /\ changes' \in Nat /\ m_datas' = m_datas
    BY <1>3 DEF addGlobServlet, delGlobServlet, Changes, TableInv, TableType
  <2>4. PICK v \in Nat : /\ latest' = [latest EXCEPT ![g] = v]
                         /\ \/ m_globs' = Append(w, [glob |-> g, servlet |-> v])
                            \/ m_globs' = w
    BY <1>3, <2>3 DEF addGlobServlet, delGlobServlet
  <2> DEFINE e == [glob |-> g, servlet |-> v]
  <2>5. e \in GlobEntry /\ e.glob = g /\ e.servlet = v
    BY DEF GlobEntry
  <2> HIDE DEF w, e
  <2>6. /\ latest' \in [Uris \cup Globs -> Nat] /\ latest'[g] = v
        /\ \A x \in Uris \cup Globs : x # g => latest'[x] = latest[x]
    BY <2>4 DEF TableInv, TableType
  <2>7. DatasLatest'
    BY <2>1, <2>3, <2>6 DEF TableInv, DatasLatest
  <2>8. \A k \in 1..Len(w) : w[k].glob \in Globs
    BY <2>2, GlobsAreGlobs
  <2>9. \A k \in 1..Len(w) : w[k].servlet = latest'[w[k].glob]
    BY <2>2, <2>6, <2>8
  <2>10. CASE m_globs' = w
    BY <2>2, <2>3, <2>6, <2>7, <2>9, <2>10
       DEF TableInv, TableType, GlobsLatest, GlobsOnce
  <2>11. CASE m_globs' = Append(w, e)
    <3>1. /\ m_globs' \in Seq(GlobEntry) /\ Len(m_globs') = Len(w) + 1
          /\ m_globs'[Len(w) + 1] = e
          /\ \A k \in 1..Len(w) : m_globs'[k] = w[k]
      BY <2>2, <2>5, <2>11
    <3>2. Len(w) \in Nat /\ \A k \in 1..(Len(w) + 1) : k \in 1..Len(w) \/ k = Len(w) + 1
      BY <2>2
    <3>3. GlobsLatest'
      BY <2>5, <2>6, <2>9, <3>1, <3>2 DEF GlobsLatest
    <3>4. GlobsOnce'
      BY <2>2, <2>5, <3>1, <3>2 DEF GlobsOnce
    <3>5. QED
      BY <2>3, <2>6, <2>7, <3>1, <3>3, <3>4 DEF TableInv, TableType
  <2>12. QED
    BY <2>4, <2>10, <2>11 DEF e
<1>4. QED
  BY <1>1, <1>2, <1>3
-----------------------------------------------------------------------------
(***************************************************************************)
(* A connection.  The handler ends after its first answer (isClose), so    *)
(* that all it takes is the first request of the stream.                   *)
(***************************************************************************)
Cuts == SUBSET Parts
Request == [number : Nat, cut : Cuts, body : Seq(Token), servlet : Nat,
            current : BOOLEAN]

Labels == {"none", "backlog", "recv", "length", "body", "handle", "call", "closed", "refused"}

SessionType ==
  /\ pc \in [Conns -> Labels]
  /\ sent \in [Conns -> Nat] /\ taken \in [Conns -> Nat]
  /\ buffer \in [Conns -> Seq(Token)] /\ request \in [Conns -> Request]
  /\ replies \in [Conns -> Seq(Request)]

\* What is read has been sent, and what has been sent is of the stream.
Sends(c) == taken[c] <= sent[c] /\ sent[c] <= Len(Stream(c))

\* The parts whose cutting the parser notices, and that one of them still ends after the
\* first n tokens of the stream, in the head.
Vital == {"method", "version"}
Ahead(c, n, p) == \E j \in (n + 1)..(H(c) - 1) : Stream(c)[j].part = p /\ Stream(c)[j].final

\* The head of the first request has been read, none of its vital parts cut, and after it
\* exactly the tokens s.
Received(c, s) ==
  /\ Stream(c) # <<>> /\ request[c].number = 1 /\ request[c].cut \cap Vital = {}
  /\ taken[c] = H(c) + Len(s)
  /\ \A k \in 1..Len(s) : s[k] = Stream(c)[H(c) + k]

\* A request as AnswersMatch wants it.
Whole(c, r) ==
  /\ r.number = 1 /\ r.cut \cap Vital = {}
  /\ r.body = IF "length" \in r.cut THEN <<>> ELSE Body(c, 1)

\* How far the handler is: inside the head, and a vital part that was cut is not over; the
\* buffer holds what came after it; part of the body is there; the whole body is there;
\* the servlet has been looked up.
Receives(c) ==
  /\ pc[c] \in {"none", "backlog", "recv"} =>
       /\ taken[c] = 0 \/ taken[c] < H(c)
       /\ \A p \in request[c].cut \cap Vital : Ahead(c, taken[c], p)
  /\ pc[c] = "length" => Received(c, buffer[c])
  /\ pc[c] = "body" => /\ Received(c, request[c].body) /\ "length" \notin request[c].cut
                       /\ Len(request[c].body) < B(c)
  /\ pc[c] \in {"handle", "call"} => Whole(c, request[c])
  /\ pc[c] = "call" => request[c].current

\* There is one answer at most, the right one, and nothing is done after it.
Answers(c) ==
  \/ replies[c] = <<>>
  \/ /\ pc[c] \in {"closed", "refused"}
     /\ Len(replies[c]) = 1 /\ Whole(c, replies[c][1]) /\ replies[c][1].current

ConnInv(c) == Sends(c) /\ Receives(c) /\ Answers(c)

\* A connection is in one backlog at most, and its handler has not begun.
QueueInv ==
  /\ \A q \in queue : q.conn \in Conns /\ pc[q.conn] = "backlog"
  /\ \A q, r \in queue : q.conn = r.conn => q = r

SessionInv == SessionType /\ QueueInv /\ \A c \in Conns : ConnInv(c)

LEMMA StreamIsSeq == ASSUME NEW c \in Conns PROVE Stream(c) \in Seq(Token)
<1>1. CASE Stream(c) = <<>>
  BY <1>1
<1>2. CASE Stream(c) # <<>>
  BY <1>2, StreamStarts
<1>3. QED
  BY <1>1, <1>2

LEMMA NoRequestType == NoRequest \in Request /\ NoRequest.cut = {}
BY DEF NoRequest, Request, Cuts

LEMMA SessionInvInit == Init => SessionInv
<1> SUFFICES ASSUME Init PROVE SessionInv
  OBVIOUS
<1>1. SessionType
  BY NoRequestType DEF Init, SessionInit, SessionType, Labels
<1>2. QueueInv
  BY DEF Init, QueueInv
<1>3. ASSUME NEW c \in Conns PROVE ConnInv(c)
  <2>1. /\ pc[c] = "none" /\ sent[c] = 0 /\ taken[c] = 0 /\ replies[c] = <<>>
        /\ request[c].cut = {}
    BY NoRequestType DEF Init, SessionInit
  <2>2. 0 <= Len(Stream(c))
    BY StreamIsSeq
  <2>3. QED
    BY <2>1, <2>2 DEF ConnInv, Sends, Receives, Answers
<1>4. QED
  BY <1>1, <1>2, <1>3 DEF SessionInv

\* Nothing of a connection has changed.
Kept(d) == /\ pc'[d] = pc[d] /\ sent'[d] = sent[d] /\ taken'[d] = taken[d]
           /\ buffer'[d] = buffer[d] /\ request'[d] = request[d] /\ replies'[d] = replies[d]

LEMMA ConnKept ==
  ASSUME NEW d \in Conns, ConnInv(d), Kept(d)
  PROVE  ConnInv(d)'
<1>1. Sends(d)' /\ Answers(d)'
  BY DEF ConnInv, Kept, Sends, Answers
<1>2. Receives(d)'
  BY DEF ConnInv, Kept, Receives, Received
<1>3. QED
  BY <1>1, <1>2 DEF ConnInv

\* A step of the handler or the client of one connection.
LEMMA OneConnection ==
  ASSUME SessionInv, NEW c \in Conns, SessionType', UNCHANGED queue,
         \A d \in Conns : d # c => Kept(d),
         pc[c] # "backlog" \/ pc'[c] = pc[c],
         ConnInv(c)'
  PROVE  SessionInv'
<1>1. ASSUME NEW d \in Conns PROVE ConnInv(d)'
  BY ConnKept DEF SessionInv
<1>2. QueueInv'
  <2>1. \A d \in Conns : pc[d] = "backlog" => pc'[d] = "backlog"
    BY DEF Kept
  <2>2. QED
    BY <2>1 DEF SessionInv, QueueInv
<1>3. QED
  BY <1>1, <1>2 DEF SessionInv

LEMMA SessionRecvFails ==
  ASSUME SessionInv, NEW c \in Conns, RecvFails(c), UNCHANGED queue
  PROVE  SessionInv'
<1>1. /\ pc[c] \in {"recv", "body"} /\ pc' = [pc EXCEPT ![c] = "closed"]
      /\ buffer' = [buffer EXCEPT ![c] = <<>>] /\ request' = [request EXCEPT ![c] = NoRequest]
      /\ UNCHANGED <<sent, taken, replies>>
  BY DEF RecvFails, Goto
<1>2. SessionType'
  BY <1>1, NoRequestType DEF SessionInv, SessionType, Labels
<1>3. \A d \in Conns : d # c => Kept(d)
  BY <1>1 DEF SessionInv, SessionType, Kept
<1>4. pc'[c] = "closed" /\ sent'[c] = sent[c] /\ taken'[c] = taken[c] /\ replies'[c] = replies[c]
  BY <1>1 DEF SessionInv, SessionType
<1>5. ConnInv(c)
  BY DEF SessionInv
<1>6. ConnInv(c)'
  BY <1>1, <1>4, <1>5 DEF ConnInv, Sends, Receives, Answers
<1>7. QED
  BY <1>1, <1>2, <1>3, <1>6, OneConnection

\* k tokens that have arrived are the next ones of the stream.
LEMMA NextTokens ==
  ASSUME SessionInv, NEW c \in Conns, NEW k \in 1..Len(Waiting(c))
  PROVE  /\ SubSeq(Waiting(c), 1, k) \in Seq(Token) /\ Len(SubSeq(Waiting(c), 1, k)) = k
         /\ \A i \in 1..k : SubSeq(Waiting(c), 1, k)[i] = Stream(c)[taken[c] + i]
         /\ taken[c] + k <= sent[c] /\ Stream(c) # <<>> /\ k \in Nat /\ k > 0
<1> DEFINE w == Waiting(c)
           s == Stream(c)
           m == sent[c]
           t == taken[c]
<1>1. s \in Seq(Token) /\ t \in Nat /\ m \in Nat /\ t <= m /\ m <= Len(s)
  BY StreamIsSeq DEF SessionInv, SessionType, ConnInv, Sends
<1>2. w = SubSeq(s, t + 1, m)
  BY DEF Waiting
<1>3. k \in 1..Len(w)
  OBVIOUS
<1> HIDE DEF w, s, m, t
<1>4. /\ SubSeq(s, t + 1, m) \in Seq(Token) /\ Len(SubSeq(s, t + 1, m)) = m - t
      /\ \A i \in 1..(m - t) : SubSeq(s, t + 1, m)[i] = s[t + i]
  BY <1>1
<1>5. w \in Seq(Token) /\ Len(w) = m - t /\ \A i \in 1..(m - t) : w[i] = s[t + i]
  BY <1>2, <1>4
<1>6. /\ SubSeq(w, 1, k) \in Seq(Token) /\ Len(SubSeq(w, 1, k)) = k
      /\ \A i \in 1..k : SubSeq(w, 1, k)[i] = w[i]
  BY <1>3, <1>5
<1>7. t + k <= m /\ k \in Nat /\ k > 0 /\ \A i \in 1..k : i \in 1..(m - t)
  BY <1>1, <1>3, <1>5
<1>8. \A i \in 1..k : SubSeq(w, 1, k)[i] = s[t + i]
  BY <1>5, <1>6, <1>7
<1>9. s # <<>>
  BY <1>1, <1>7
<1>10. QED
  BY <1>6, <1>7, <1>8, <1>9 DEF w, s, m, t

\* A piece of the head whose beginning is the n-th token of the stream ends in the head.
LEMMA PieceEnds ==
  ASSUME NEW c \in Conns, Stream(c) # <<>>, NEW n \in 1..(H(c) - 1), ~Stream(c)[n].final
  PROVE  Ahead(c, n, Stream(c)[n].part)
<1> DEFINE s == Stream(c)
           h == H(c)
           f == First(c)
<1>1. /\ h \in Nat \ {0} /\ \A k \in 1..h : f[k] = "last" <=> k = h
      /\ B(c) \in Nat
      /\ \A k \in 1..(h + B(c)) :
           /\ s[k].part = IF k <= h THEN f[k] ELSE "body"
           /\ s[k].final = (k < h => f[k] # f[k + 1])
  BY StreamStarts
<1>2. n \in 1..(h - 1) /\ ~s[n].final
  OBVIOUS
<1> HIDE DEF s, h, f
<1>3. \A k \in 1..h : k \in 1..(h + B(c)) /\ k <= h
  BY <1>1
<1>4. \A k \in 1..h : s[k].part = f[k] /\ s[k].final = (k < h => f[k] # f[k + 1])
  BY <1>1, <1>3, Zenon
<1>5. n \in 1..h /\ n + 1 \in 1..h /\ h \in (n + 1)..h /\ n # h /\ h \in 1..h
  BY <1>1, <1>2
<1>6. f[n] = f[n + 1] /\ f[n] # "last" /\ f[h] = "last"
  BY <1>1, <1>2, <1>4, <1>5, Zenon
<1> DEFINE Others == {k \in (n + 1)..h : f[k] # f[n]}
<1>7. Others \in SUBSET Nat /\ h \in Others
  BY <1>1, <1>5, <1>6
<1>8. PICK k \in Others : \A j \in Others : k <= j
  <2> HIDE DEF Others
  <2>1. QED
    BY <1>7, LeastOf
<1> DEFINE m == k - 1
<1>9. k \in (n + 1)..h /\ f[k] # f[n] /\ k # n + 1
  BY <1>6
<1>10. m \in (n + 1)..(h - 1) /\ m \in 1..h /\ m + 1 = k /\ m < h /\ ~(k <= m) /\ m \in (n + 1)..h
  BY <1>1, <1>9
<1>11. f[m] = f[n]
  BY <1>8, <1>10
<1> HIDE DEF m, Others
<1>12. s[m].part = s[n].part /\ s[m].final
  BY <1>4, <1>5, <1>9, <1>10, <1>11, Zenon
<1>13. QED
  BY <1>10, <1>12 DEF Ahead, s, h

LEMMA SessionRecvHead ==
  ASSUME SessionInv, NEW c \in Conns, RecvHead(c), UNCHANGED queue
  PROVE  SessionInv'
<1> DEFINE h == H(c)
           t == taken[c]
           cut == request[c].cut
<1>1. PICK k \in 1..Len(Waiting(c)) :
       LET new == SubSeq(Waiting(c), 1, k)
           ends == {i \in 1..k : new[i].part = "last"}
           end == CHOOSE i \in ends : \A j \in ends : i <= j
           parsed == IF ends = {} THEN k ELSE end
       IN
       /\ k <= BuffSize
       /\ Reads(c, k)
       /\ IF \E i \in 1..parsed : Refused(new[i], request[c].cut)
          THEN /\ Goto(c, "closed")
               /\ UNCHANGED <<buffer, request>>
          ELSE IF ends = {}
          THEN /\ request' = [request EXCEPT ![c].cut =
                               @ \cup (IF new[k].final THEN {} ELSE {new[k].part})]
               /\ UNCHANGED <<pc, buffer>>
          ELSE /\ Goto(c, "length")
               /\ buffer' = [buffer EXCEPT ![c] = SubSeq(new, end + 1, k)]
               /\ request' = [request EXCEPT ![c].number = new[end].number]
  BY DEF RecvHead
<1> DEFINE new == SubSeq(Waiting(c), 1, k)
           ends == {i \in 1..k : new[i].part = "last"}
           end == CHOOSE i \in ends : \A j \in ends : i <= j
           parsed == IF ends = {} THEN k ELSE end
<1>2. /\ taken' = [taken EXCEPT ![c] = @ + k]
      /\ UNCHANGED <<sent, replies>> /\ pc[c] = "recv"
  BY <1>1 DEF RecvHead, Reads
<1>3. /\ new \in Seq(Token) /\ Len(new) = k
      /\ \A i \in 1..k : new[i] = Stream(c)[t + i]
      /\ t + k <= sent[c] /\ Stream(c) # <<>> /\ k \in Nat /\ k > 0
  BY NextTokens
<1>4. /\ h \in Nat \ {0} /\ t \in Nat /\ t < h
      /\ \A j \in 1..h : /\ Stream(c)[j].number = 1
                         /\ Stream(c)[j].part = "last" <=> j = h
  <2>1. t \in Nat /\ (t = 0 \/ t < h)
    BY <1>2 DEF SessionInv, SessionType, ConnInv, Receives
  <2>2. /\ h \in Nat \ {0} /\ B(c) \in Nat
        /\ \A j \in 1..h : First(c)[j] = "last" <=> j = h
        /\ \A j \in 1..(h + B(c)) :
              /\ Stream(c)[j].number = 1
              /\ Stream(c)[j].part = IF j <= h THEN First(c)[j] ELSE "body"
    BY <1>3, StreamStarts
  <2> HIDE DEF h, t
  <2>3. t < h
    BY <2>1, <2>2
  <2>4. \A j \in 1..h : j \in 1..(h + B(c)) /\ j <= h
    BY <2>2
  <2>5. QED
    BY <2>1, <2>2, <2>3, <2>4, Zenon
<1>5. ConnInv(c) /\ replies[c] = <<>> /\ cut \in SUBSET Parts
      /\ \A p \in cut \cap Vital : Ahead(c, t, p)
  BY <1>2 DEF SessionInv, SessionType, Request, Cuts, ConnInv, Receives, Answers
<1>6. taken'[c] = t + k /\ sent'[c] = sent[c] /\ replies'[c] = replies[c]
  BY <1>2 DEF SessionInv, SessionType
<1>7. Sends(c)' /\ Answers(c)'
  BY <1>3, <1>5, <1>6 DEF ConnInv, Sends, Answers
<1>8. taken' \in [Conns -> Nat]
  BY <1>2, <1>3 DEF SessionInv, SessionType
<1>9. CASE \E i \in 1..parsed : Refused(new[i], cut)
  <2>1. pc' = [pc EXCEPT ![c] = "closed"] /\ UNCHANGED <<buffer, request>>
    <3> HIDE DEF new
    <3>1. QED
      BY <1>1, <1>9 DEF new, Goto
  <2>2. SessionType'
    BY <1>2, <1>8, <2>1 DEF SessionInv, SessionType, Labels
  <2>3. pc'[c] = "closed"
    BY <2>1 DEF SessionInv, SessionType
  <2>4. ConnInv(c)'
    BY <1>7, <2>3 DEF ConnInv, Receives
  <2>5. \A d \in Conns : d # c => Kept(d)
    BY <1>2, <2>1 DEF SessionInv, SessionType, Kept
  <2>6. QED
    BY <1>2, <2>2, <2>4, <2>5, OneConnection
<1>10. CASE ~(\E i \in 1..parsed : Refused(new[i], cut)) /\ t + k < h
  <2>1. \A i \in 1..k : new[i].part # "last"
    <3> HIDE DEF new, h, t
    <3>1. \A i \in 1..k : t + i \in 1..h /\ t + i # h
      BY <1>3, <1>4, <1>10
    <3>2. QED
      BY <1>3, <1>4, <3>1, Zenon
  <2>2. ends = {}
    BY <2>1
  <2> DEFINE more == IF new[k].final THEN {} ELSE {new[k].part}
  <2>3. request' = [request EXCEPT ![c].cut = @ \cup more] /\ UNCHANGED <<pc, buffer>>
    <3> HIDE DEF new
    <3>1. QED
      BY <1>1, <1>10, <2>2 DEF new
  <2>4. \A i \in 1..k : ~Refused(new[i], cut)
    BY <1>10, <2>2
  <2>5. more \in SUBSET Parts
    <3>1. new[k] \in Token
      <4> HIDE DEF new
      <4>1. QED
        BY <1>3
    <3>2. QED
      BY <3>1 DEF Token
  <2>6. \A p \in more : Ahead(c, t + k, p)
    <3>1. SUFFICES ASSUME ~new[k].final PROVE Ahead(c, t + k, new[k].part)
      OBVIOUS
    <3>2. t + k \in 1..(h - 1) /\ new[k] = Stream(c)[t + k]
      <4>1. k \in 1..k
        BY <1>3
      <4> HIDE DEF new, h, t
      <4>2. QED
        BY <1>3, <1>4, <1>10, <4>1
    <3>3. QED
      BY <1>3, <3>1, <3>2, PieceEnds
  <2> HIDE DEF more
  <2>7. \A p \in cut \cap Vital : Ahead(c, t + k, p)
    <3> SUFFICES ASSUME NEW p \in cut \cap Vital PROVE Ahead(c, t + k, p)
      OBVIOUS
    <3>1. PICK j \in (t + 1)..(h - 1) : Stream(c)[j].part = p /\ Stream(c)[j].final
      BY <1>5 DEF Ahead
    <3>2. j \notin (t + 1)..(t + k)
      <4>1. SUFFICES ASSUME j \in (t + 1)..(t + k) PROVE FALSE
        OBVIOUS
      <4> DEFINE i == j - t
      <4>2. i \in 1..k /\ t + i = j
        <5> HIDE DEF t, h
        <5>1. QED
          BY <1>3, <1>4, <4>1
      <4>3. new[i] = Stream(c)[j]
        <5> HIDE DEF new, i
        <5>1. QED
          BY <1>3, <4>2
      <4>4. Refused(new[i], cut)
        BY <3>1, <4>3 DEF Refused, Vital
      <4>5. QED
        BY <2>4, <4>2, <4>4
    <3>3. j \in (t + k + 1)..(h - 1)
      <4> HIDE DEF t, h
      <4>1. QED
        BY <1>3, <1>4, <3>2
    <3>4. QED
      BY <3>1, <3>3 DEF Ahead
  <2> DEFINE x == cut \cup more
  <2>8. x \in Cuts
    BY <1>5, <2>5 DEF Cuts
  <2>9. request' = [request EXCEPT ![c] = [@ EXCEPT !.cut = x]]
    BY <2>3
  <2>10. SessionType'
    <3>1. request[c] \in Request
      BY DEF SessionInv, SessionType
    <3> HIDE DEF x
    <3>2. [request[c] EXCEPT !.cut = x] \in Request
      BY <2>8, <3>1 DEF Request
    <3>3. request' \in [Conns -> Request]
      BY <2>9, <3>2 DEF SessionInv, SessionType
    <3>4. QED
      BY <1>2, <1>8, <2>3, <3>3 DEF SessionInv, SessionType
  <2>11. request'[c].cut = cut \cup more /\ pc'[c] = "recv"
    BY <1>2, <2>3 DEF SessionInv, SessionType, Request
  <2>12. \A p \in request'[c].cut \cap Vital : Ahead(c, taken'[c], p)
    BY <1>6, <2>6, <2>7, <2>11
  <2>13. Receives(c)'
    BY <1>6, <1>10, <2>11, <2>12 DEF Receives, Ahead
  <2>14. ConnInv(c)'
    BY <1>7, <2>13 DEF ConnInv
  <2>15. \A d \in Conns : d # c => Kept(d)
    BY <1>2, <2>3 DEF SessionInv, SessionType, Kept
  <2>16. QED
    BY <1>2, <2>10, <2>14, <2>15, OneConnection
<1>11. CASE ~(\E i \in 1..parsed : Refused(new[i], cut)) /\ ~(t + k < h)
  <2> DEFINE e == h - t
  <2>1. e \in 1..k /\ e \in Nat /\ t + e = h
    BY <1>3, <1>4, <1>11, SMTT(20)
  <2>2. \A i \in 1..e : new[i] = Stream(c)[t + i] /\ t + i \in 1..h /\ (t + i = h <=> i = e)
    <3> HIDE DEF new, h, t
    <3>1. \A i \in 1..e : i \in 1..k /\ t + i \in 1..h /\ (t + i = h <=> i = e)
      BY <1>3, <1>4, <2>1
    <3>2. QED
      BY <1>3, <3>1, Zenon
  <2>3. e \in 1..e
    <3> HIDE DEF e
    <3>1. QED
      BY <2>1
  <2>4. new[e].part = "last" /\ new[e].number = 1 /\ \A i \in 1..e : i # e => new[i].part # "last"
    <3> HIDE DEF new, h, t, e
    <3>1. QED
      BY <1>4, <2>2, <2>3, Zenon
  <2>5. e \in ends /\ \A j \in ends : e <= j
    <3>1. \A j \in 1..k : ~(e <= j) => j \in 1..e /\ j # e
      <4> HIDE DEF e
      <4>1. QED
        BY <1>3, <2>1
    <3> HIDE DEF new, e
    <3>2. QED
      BY <2>1, <2>4, <3>1, Zenon
  <2>6. end = e
    <3>1. end \in ends /\ \A j \in ends : end <= j
      BY <2>5, Zenon
    <3>2. end <= e /\ e <= end
      BY <2>5, <3>1, Zenon
    <3>3. end \in Nat
      <4> HIDE DEF end, new
      <4>1. QED
        BY <3>1
    <3> HIDE DEF end, e
    <3>4. QED
      BY <2>1, <3>2, <3>3
  <2>7. ends # {} /\ parsed = e
    BY <2>5, <2>6
  <2>8. /\ pc' = [pc EXCEPT ![c] = "length"]
        /\ buffer' = [buffer EXCEPT ![c] = SubSeq(new, e + 1, k)]
        /\ request' = [request EXCEPT ![c].number = 1]
    <3>1. /\ Goto(c, "length")
          /\ buffer' = [buffer EXCEPT ![c] = SubSeq(new, end + 1, k)]
          /\ request' = [request EXCEPT ![c].number = new[end].number]
      BY <1>1, <1>11, <2>7, Zenon
    <3> HIDE DEF e, end, new
    <3>2. QED
      BY <2>4, <2>6, <3>1 DEF Goto
  <2>9. cut \cap Vital = {}
    <3>1. SUFFICES ASSUME NEW p \in cut \cap Vital PROVE FALSE
      OBVIOUS
    <3>2. PICK j \in (t + 1)..(h - 1) : Stream(c)[j].part = p /\ Stream(c)[j].final
      BY <1>5 DEF Ahead
    <3> DEFINE i == j - t
    <3>3. i \in 1..e /\ t + i = j
      <4> HIDE DEF t, h
      <4>1. QED
        BY <1>3, <1>4, <2>1
    <3>4. new[i] = Stream(c)[j]
      <4> HIDE DEF new, i, e
      <4>1. QED
        BY <2>2, <3>3
    <3>5. Refused(new[i], cut)
      BY <3>1, <3>2, <3>4 DEF Refused, Vital
    <3>6. QED
      BY <1>11, <2>7, <3>3, <3>5
  <2> DEFINE rest == SubSeq(new, e + 1, k)
  <2>10. /\ rest \in Seq(Token) /\ Len(rest) = k - e
         /\ \A j \in 1..(k - e) : rest[j] = Stream(c)[h + j]
    <3> HIDE DEF new, h, t, e
    <3>1. rest \in Seq(Token) /\ Len(rest) = k - e /\ \A j \in 1..(k - e) : rest[j] = new[e + j]
      BY <1>3, <2>1
    <3>2. \A j \in 1..(k - e) : e + j \in 1..k /\ t + (e + j) = h + j
      BY <1>3, <1>4, <2>1
    <3> HIDE DEF rest
    <3>3. QED
      BY <1>3, <3>1, <3>2
  <2> HIDE DEF rest
  <2>11. [request[c] EXCEPT !.number = 1] \in Request
    BY DEF SessionInv, SessionType, Request
  <2>12. request' = [request EXCEPT ![c] = [@ EXCEPT !.number = 1]]
    BY <2>8
  <2>13. SessionType'
    BY <1>2, <1>8, <2>8, <2>10, <2>11, <2>12 DEF SessionInv, SessionType, Labels, rest
  <2>14. /\ pc'[c] = "length" /\ buffer'[c] = rest
         /\ request'[c].number = 1 /\ request'[c].cut = cut
    BY <2>8 DEF SessionInv, SessionType, Request, rest
  <2>15. t + k = h + Len(rest)
    BY <1>3, <1>4, <2>1, <2>10
  <2>16. Received(c, buffer[c])'
    <3>1. \A j \in 1..Len(rest) : rest[j] = Stream(c)[h + j]
      BY <2>10
    <3> HIDE DEF t
    <3>2. QED
      BY <1>3, <1>6, <2>9, <2>14, <2>15, <3>1 DEF Received
  <2>17. ConnInv(c)'
    BY <1>7, <2>14, <2>16 DEF ConnInv, Receives
  <2>18. \A d \in Conns : d # c => Kept(d)
    BY <1>2, <2>8 DEF SessionInv, SessionType, Kept
  <2>19. QED
    BY <1>2, <2>13, <2>17, <2>18, OneConnection
<1>12. QED
  BY <1>9, <1>10, <1>11

\* The whole body: as many tokens after the head as the request says.
LEMMA WholeBody ==
  ASSUME NEW c \in Conns, NEW s \in Seq(Token), Stream(c) # <<>>, Len(s) = B(c),
         \A k \in 1..Len(s) : s[k] = Stream(c)[H(c) + k]
  PROVE  s = Body(c, 1)
<1> DEFINE b == B(c)
<1>1. /\ b \in Nat /\ Body(c, 1) \in Seq(Token) /\ Len(Body(c, 1)) = b
      /\ \A k \in 1..b : Body(c, 1)[k] = Stream(c)[H(c) + k]
  BY StreamStarts
<1>2. Len(s) = b
  OBVIOUS
<1> HIDE DEF b
<1>3. \A k \in 1..b : s[k] = Body(c, 1)[k]
  BY <1>1, <1>2
<1>4. QED
  BY <1>1, <1>2, <1>3, SeqEqual

LEMMA SessionTakeBuffered ==
  ASSUME SessionInv, NEW c \in Conns, TakeBuffered(c), UNCHANGED queue
  PROVE  SessionInv'
<1> DEFINE h == H(c)
           b == getContentLength(c)
           buf == buffer[c]
           len == IF b >= Len(buf) THEN Len(buf) ELSE b
           body == SubSeq(buf, 1, len)
<1>1. ConnInv(c) /\ Received(c, buf) /\ pc[c] = "length"
  BY DEF TakeBuffered, SessionInv, ConnInv, Receives
<1>2. /\ request[c].number = 1 /\ request[c].cut \cap Vital = {}
      /\ Stream(c) # <<>> /\ taken[c] = h + Len(buf)
      /\ \A k \in 1..Len(buf) : buf[k] = Stream(c)[h + k]
  BY <1>1 DEF Received
<1>3. /\ request' = [request EXCEPT ![c].body = body]
      /\ buffer' = [buffer EXCEPT ![c] = <<>>]
      /\ pc' = [pc EXCEPT ![c] = IF b > Len(buf) THEN "body" ELSE "handle"]
      /\ UNCHANGED <<sent, taken, replies>>
  BY DEF TakeBuffered, Goto
<1>4. b = IF "length" \in request[c].cut THEN 0 ELSE B(c)
  BY <1>2 DEF getContentLength, B
<1>5. h \in Nat /\ b \in Nat /\ buf \in Seq(Token) /\ Len(buf) \in Nat
  <2>1. h \in Nat /\ B(c) \in Nat
    BY <1>2, StreamStarts
  <2> HIDE DEF b, h
  <2>2. QED
    BY <1>4, <2>1 DEF SessionInv, SessionType
<1>6. /\ body \in Seq(Token) /\ Len(body) = len /\ len \in Nat /\ len <= Len(buf) /\ len <= b
      /\ \A k \in 1..len : body[k] = buf[k]
  <2> HIDE DEF buf, b
  <2>1. QED
    BY <1>5
<1> HIDE DEF body
<1>7. SessionType'
  <2>1. request' = [request EXCEPT ![c] = [@ EXCEPT !.body = body]]
    BY <1>3
  <2>2. [request[c] EXCEPT !.body = body] \in Request
    BY <1>6 DEF SessionInv, SessionType, Request
  <2>3. request' \in [Conns -> Request]
    BY <2>1, <2>2 DEF SessionInv, SessionType
  <2>4. QED
    BY <1>3, <2>3 DEF SessionInv, SessionType, Labels
<1>8. /\ request'[c].number = 1 /\ request'[c].body = body /\ request'[c].cut = request[c].cut
      /\ pc'[c] = IF b > Len(buf) THEN "body" ELSE "handle"
      /\ sent'[c] = sent[c] /\ taken'[c] = taken[c] /\ replies'[c] = replies[c]
  BY <1>2, <1>3 DEF SessionInv, SessionType, Request
<1> HIDE DEF b
<1>9. Sends(c)' /\ Answers(c)'
  BY <1>1, <1>8 DEF ConnInv, Sends, Answers
<1>10. \A k \in 1..Len(body) : body[k] = Stream(c)[h + k]
  BY <1>2, <1>5, <1>6
<1>11. ASSUME b > Len(buf) PROVE ConnInv(c)'
  <2>1. len = Len(buf)
    BY <1>5, <1>11
  <2>2. Received(c, request[c].body)'
    BY <1>2, <1>6, <1>8, <1>10, <2>1 DEF Received
  <2>3. Len(request'[c].body) < b
    BY <1>6, <1>8, <1>11, <2>1
  <2>4. "length" \notin request[c].cut /\ b = B(c)
    BY <1>4, <1>5, <1>11
  <2>5. QED
    BY <1>8, <1>9, <1>11, <2>2, <2>3, <2>4 DEF ConnInv, Receives
<1>12. ASSUME ~(b > Len(buf)) PROVE ConnInv(c)'
  <2>1. Len(body) = b
    BY <1>5, <1>6, <1>12
  <2>2. Whole(c, request'[c])
    <3>1. CASE "length" \in request[c].cut
      <4>1. body = <<>>
        BY <1>4, <1>6, <2>1, <3>1
      <4>2. QED
        BY <1>2, <1>8, <3>1, <4>1 DEF Whole
    <3>2. CASE "length" \notin request[c].cut
      <4>1. body = Body(c, 1)
        BY <1>2, <1>4, <1>6, <1>10, <2>1, <3>2, WholeBody
      <4>2. QED
        BY <1>2, <1>8, <3>2, <4>1 DEF Whole
    <3>3. QED
      BY <3>1, <3>2
  <2>3. pc'[c] = "handle"
    BY <1>8, <1>12
  <2>4. Receives(c)'
    BY <2>2, <2>3 DEF Receives, Whole
  <2>5. QED
    BY <1>9, <2>4 DEF ConnInv
<1>13. ConnInv(c)'
  BY <1>11, <1>12
<1>14. \A d \in Conns : d # c => Kept(d)
  BY <1>3 DEF SessionInv, SessionType, Kept
<1>15. QED
  BY <1>1, <1>7, <1>13, <1>14, OneConnection

LEMMA SessionReadFixSize ==
  ASSUME SessionInv, NEW c \in Conns, ReadFixSize(c), UNCHANGED queue
  PROVE  SessionInv'
<1> DEFINE h == H(c)
           b == B(c)
           old == request[c].body
           t == taken[c]
<1>1. /\ ConnInv(c) /\ Received(c, old) /\ Len(old) < b /\ pc[c] = "body"
      /\ "length" \notin request[c].cut
  BY DEF ReadFixSize, SessionInv, ConnInv, Receives
<1>2. /\ request[c].number = 1 /\ request[c].cut \cap Vital = {}
      /\ Stream(c) # <<>> /\ t = h + Len(old)
      /\ \A k \in 1..Len(old) : old[k] = Stream(c)[h + k]
  BY <1>1 DEF Received
<1>3. getContentLength(c) = b
  BY <1>1, <1>2 DEF getContentLength, B
<1>4. PICK k \in 1..Len(Waiting(c)) :
        /\ k <= b - Len(old)
        /\ taken' = [taken EXCEPT ![c] = @ + k]
        /\ request' = [request EXCEPT ![c].body = @ \o SubSeq(Waiting(c), 1, k)]
        /\ pc' = [pc EXCEPT ![c] = IF k = b - Len(old) THEN "handle" ELSE "body"]
  BY <1>3 DEF ReadFixSize, Reads, Goto
<1> DEFINE new == SubSeq(Waiting(c), 1, k)
           body == old \o new
<1>5. UNCHANGED <<sent, buffer, replies>>
  BY DEF ReadFixSize
<1>6. /\ new \in Seq(Token) /\ Len(new) = k
      /\ \A i \in 1..k : new[i] = Stream(c)[t + i]
      /\ t + k <= sent[c] /\ k \in Nat /\ k > 0
  BY NextTokens
<1> HIDE DEF new
<1>7. h \in Nat /\ b \in Nat /\ old \in Seq(Token) /\ Len(old) \in Nat /\ t \in Nat
  BY <1>2, StreamStarts, SMTT(20) DEF SessionInv, SessionType, Request
<1>8. /\ body \in Seq(Token) /\ Len(body) = Len(old) + k
      /\ \A i \in 1..(Len(old) + k) : body[i] = IF i <= Len(old) THEN old[i] ELSE new[i - Len(old)]
  <2> HIDE DEF old
  <2>1. QED
    BY <1>6, <1>7, ConcatProperties, ZenonT(30)
<1> HIDE DEF body
<1>9. /\ request'[c].number = 1 /\ request'[c].body = body /\ request'[c].cut = request[c].cut
      /\ pc'[c] = IF k = b - Len(old) THEN "handle" ELSE "body"
      /\ sent'[c] = sent[c] /\ taken'[c] = t + k /\ replies'[c] = replies[c]
  BY <1>2, <1>4, <1>5 DEF SessionInv, SessionType, Request, body, new
<1>10. SessionType'
  <2>1. request' = [request EXCEPT ![c] = [@ EXCEPT !.body = body]]
    BY <1>4 DEF body, new
  <2>2. [request[c] EXCEPT !.body = body] \in Request
    BY <1>8 DEF SessionInv, SessionType, Request
  <2>3. request' \in [Conns -> Request]
    BY <2>1, <2>2 DEF SessionInv, SessionType
  <2>4. taken' \in [Conns -> Nat]
    BY <1>4, <1>6 DEF SessionInv, SessionType
  <2>5. QED
    BY <1>4, <1>5, <2>3, <2>4 DEF SessionInv, SessionType, Labels
<1>11. Sends(c)' /\ Answers(c)'
  BY <1>1, <1>6, <1>9 DEF ConnInv, Sends, Answers
<1>12. \A i \in 1..Len(body) : body[i] = Stream(c)[h + i]
  <2> SUFFICES ASSUME NEW i \in 1..Len(body) PROVE body[i] = Stream(c)[h + i]
    OBVIOUS
  <2>1. CASE i <= Len(old)
    BY <1>2, <1>7, <1>8, <2>1
  <2>2. CASE ~(i <= Len(old))
    <3>1. i - Len(old) \in 1..k /\ t + (i - Len(old)) = h + i /\ i \in 1..(Len(old) + k)
      <4>1. Len(body) = Len(old) + k /\ t = h + Len(old)
        BY <1>2, <1>8
      <4> DEFINE m == Len(old)
      <4>2. m \in Nat /\ k \in Nat /\ t \in Nat /\ h \in Nat /\ i \in 1..(m + k) /\ ~(i <= m)
        BY <1>6, <1>7, <2>2, <4>1
      <4> HIDE DEF m, t, h, old
      <4>3. t = h + m
        BY <4>1 DEF m
      <4>4. i - m \in 1..k /\ t + (i - m) = h + i
        BY <4>2, <4>3
      <4>5. QED
        BY <4>2, <4>4 DEF m
    <3>2. body[i] = new[i - Len(old)]
      BY <1>8, <2>2, <3>1
    <3>3. QED
      BY <1>6, <3>1, <3>2
  <2>3. QED
    BY <2>1, <2>2
<1>13. t + k = h + Len(body)
  BY <1>2, <1>6, <1>7, <1>8, SMTT(20)
<1>14. ASSUME k = b - Len(old) PROVE ConnInv(c)'
  <2>1. Len(body) = b
    BY <1>6, <1>7, <1>8, <1>14, SMTT(20)
  <2>2. body = Body(c, 1)
    BY <1>2, <1>8, <1>12, <2>1, WholeBody
  <2>3. Whole(c, request'[c]) /\ pc'[c] = "handle"
    BY <1>1, <1>2, <1>9, <1>14, <2>2 DEF Whole
  <2>4. Receives(c)'
    BY <2>3 DEF Receives, Whole
  <2>5. QED
    BY <1>11, <2>4 DEF ConnInv
<1>15. ASSUME k # b - Len(old) PROVE ConnInv(c)'
  <2>1. Len(body) < b
    BY <1>4, <1>6, <1>7, <1>8, <1>15, SMTT(20)
  <2>2. Received(c, request[c].body)'
    BY <1>2, <1>9, <1>12, <1>13 DEF Received
  <2>3. QED
    BY <1>1, <1>9, <1>11, <1>15, <2>1, <2>2 DEF ConnInv, Receives
<1>16. ConnInv(c)'
  BY <1>14, <1>15
<1>17. \A d \in Conns : d # c => Kept(d)
  BY <1>4, <1>5 DEF SessionInv, SessionType, Kept
<1>18. QED
  BY <1>1, <1>10, <1>16, <1>17, OneConnection

LEMMA SessionFindServlet ==
  ASSUME SessionInv, TableInv, NEW c \in Conns, FindServlet(c), UNCHANGED queue
  PROVE  SessionInv'
<1>1. PICK u :
        LET s == getMatchedServlet(u)
        IN  request' = [request EXCEPT
                          ![c].servlet = s.servlet,
                          ![c].current = s.name = "default" \/ latest[s.name] = s.servlet]
  BY DEF FindServlet
<1> DEFINE s == getMatchedServlet(u)
           now == s.name = "default" \/ latest[s.name] = s.servlet
           r == [request[c] EXCEPT !.servlet = s.servlet, !.current = now]
<1>2. s.servlet \in Nat /\ now
  BY FoundIsLatest
<1>3. request' = [request EXCEPT ![c] = r]
  BY <1>1
<1>4. /\ pc[c] = "handle" /\ pc' = [pc EXCEPT ![c] = "call"]
      /\ UNCHANGED <<sent, taken, buffer, replies>>
  BY DEF FindServlet, Goto
<1>5. ConnInv(c) /\ Whole(c, request[c]) /\ request[c] \in Request
  BY <1>4 DEF SessionInv, SessionType, ConnInv, Receives
<1> HIDE DEF s
<1>6. r \in Request /\ r.current /\ r.number = request[c].number /\ r.cut = request[c].cut
      /\ r.body = request[c].body
  BY <1>2, <1>5 DEF Request
<1> HIDE DEF r
<1>7. SessionType'
  BY <1>3, <1>4, <1>6 DEF SessionInv, SessionType, Labels
<1>8. /\ pc'[c] = "call" /\ request'[c] = r
      /\ sent'[c] = sent[c] /\ taken'[c] = taken[c] /\ replies'[c] = replies[c]
  BY <1>3, <1>4 DEF SessionInv, SessionType
<1>9. Sends(c)' /\ Answers(c)'
  BY <1>4, <1>5, <1>8 DEF ConnInv, Sends, Answers
<1>10. Receives(c)'
  BY <1>5, <1>6, <1>8 DEF Receives, Whole
<1>11. \A d \in Conns : d # c => Kept(d)
  BY <1>3, <1>4 DEF SessionInv, SessionType, Kept
<1>12. QED
  BY <1>4, <1>7, <1>9, <1>10, <1>11, OneConnection DEF ConnInv

LEMMA SessionHandle ==
  ASSUME SessionInv, NEW c \in Conns, Handle(c), UNCHANGED queue
  PROVE  SessionInv'
<1> DEFINE r == request[c]
<1>1. /\ pc[c] = "call"
      /\ replies' = [replies EXCEPT ![c] = Append(@, r)]
      /\ request' = [request EXCEPT ![c] = NoRequest]
      /\ pc' = [pc EXCEPT ![c] = "closed"]
      /\ UNCHANGED <<sent, taken, buffer>>
  BY DEF Handle, Goto, isClose
<1>2. ConnInv(c) /\ Whole(c, r) /\ r.current /\ replies[c] = <<>> /\ r \in Request
  BY <1>1 DEF SessionInv, SessionType, ConnInv, Receives, Answers
<1> HIDE DEF r
<1>3. SessionType'
  <2>1. replies' \in [Conns -> Seq(Request)]
    <3>1. Append(replies[c], r) \in Seq(Request)
      BY <1>2
    <3>2. QED
      BY <1>1, <3>1 DEF SessionInv, SessionType
  <2>2. request' \in [Conns -> Request]
    BY <1>1, NoRequestType DEF SessionInv, SessionType
  <2>3. QED
    BY <1>1, <2>1, <2>2 DEF SessionInv, SessionType, Labels
<1>4. replies'[c] = <<r>> /\ pc'[c] = "closed" /\ sent'[c] = sent[c] /\ taken'[c] = taken[c]
  BY <1>1, <1>2 DEF SessionInv, SessionType
<1>5. Len(<<r>>) = 1 /\ <<r>>[1] = r
  OBVIOUS
<1>6. Answers(c)'
  BY <1>2, <1>4, <1>5 DEF Answers, Whole
<1>7. ConnInv(c)'
  BY <1>2, <1>4, <1>6 DEF ConnInv, Sends, Receives
<1>8. \A d \in Conns : d # c => Kept(d)
  BY <1>1 DEF SessionInv, SessionType, Kept
<1>9. QED
  BY <1>1, <1>3, <1>7, <1>8, OneConnection

LEMMA SessionClientSend ==
  ASSUME SessionInv, NEW c \in Conns, ClientSend(c), UNCHANGED queue
  PROVE  SessionInv'
<1> DEFINE m == sent[c]
           y == Len(Stream(c))
<1>1. PICK n \in Writes : sent' = [sent EXCEPT ![c] = IF @ + n < y THEN @ + n ELSE y]
  BY DEF ClientSend
<1>2. UNCHANGED <<pc, taken, buffer, request, replies>>
  BY DEF ClientSend
<1>3. /\ m \in Nat /\ y \in Nat /\ n \in Nat \ {0} /\ taken[c] \in Nat
      /\ taken[c] <= m /\ m <= y
  BY StreamIsSeq, HttpServerAssumption DEF SessionInv, SessionType, ConnInv, Sends
<1> DEFINE new == IF m + n < y THEN m + n ELSE y
<1>4. sent' = [sent EXCEPT ![c] = new]
  BY <1>1
<1> HIDE DEF m, y
<1>5. new \in Nat /\ taken[c] <= new /\ new <= y
  BY <1>3
<1> HIDE DEF new
<1>6. SessionType'
  BY <1>2, <1>4, <1>5 DEF SessionInv, SessionType
<1>7. /\ sent'[c] = new /\ pc'[c] = pc[c] /\ taken'[c] = taken[c]
      /\ buffer'[c] = buffer[c] /\ request'[c] = request[c] /\ replies'[c] = replies[c]
  BY <1>2, <1>4 DEF SessionInv, SessionType
<1>8. ConnInv(c)
  BY DEF SessionInv
<1>9. Sends(c)'
  BY <1>5, <1>7 DEF Sends, y
<1>10. Receives(c)'
  BY <1>7, <1>8 DEF ConnInv, Receives, Received
<1>11. Answers(c)'
  BY <1>7, <1>8 DEF ConnInv, Answers
<1>12. \A d \in Conns : d # c => Kept(d)
  BY <1>2, <1>4 DEF SessionInv, SessionType, Kept
<1>13. QED
  BY <1>6, <1>7, <1>9, <1>10, <1>11, <1>12, OneConnection DEF ConnInv

\* Connections in backlogs of closed sockets are refused; no handler had them.
LEMMA SessionReset ==
  ASSUME SessionInv, NEW lost \in SUBSET queue, queue' = queue \ lost,
         pc' = [c \in Conns |-> IF \E q \in lost : q.conn = c THEN "refused" ELSE pc[c]],
         UNCHANGED <<sent, taken, eof, buffer, request, replies>>
  PROVE  SessionInv'
<1>1. SessionType'
  BY DEF SessionInv, SessionType, Labels
<1>2. QueueInv'
  <2>1. ASSUME NEW q \in queue' PROVE q.conn \in Conns /\ pc'[q.conn] = "backlog"
    <3>1. q \in queue /\ q \notin lost /\ q.conn \in Conns /\ pc[q.conn] = "backlog"
      BY <2>1 DEF SessionInv, QueueInv
    <3>2. ~ \E r \in lost : r.conn = q.conn
      BY <3>1 DEF SessionInv, QueueInv
    <3>3. QED
      BY <3>1, <3>2
  <2>2. QED
    BY <2>1 DEF SessionInv, QueueInv
<1>3. ASSUME NEW c \in Conns PROVE ConnInv(c)'
  <2>1. CASE \E q \in lost : q.conn = c
    <3>1. pc'[c] = "refused"
      BY <2>1
    <3>2. pc[c] = "backlog"
      BY <2>1 DEF SessionInv, QueueInv
    <3>3. QED
      BY <3>1, <3>2 DEF SessionInv, ConnInv, Sends, Receives, Answers
  <2>2. CASE ~ \E q \in lost : q.conn = c
    <3>1. pc'[c] = pc[c]
      BY <2>2
    <3>2. QED
      BY <3>1, ConnKept DEF SessionInv, Kept
  <2>3. QED
    BY <2>1, <2>2
<1>4. QED
  BY <1>1, <1>2, <1>3 DEF SessionInv

LEMMA SessionAccept ==
  ASSUME SessionInv, NEW l \in loops, Accept(l)
  PROVE  SessionInv'
<1>1. CASE UNCHANGED <<pc, sent, taken, buffer, request, replies, queue>>
  <2>1. SessionType' /\ QueueInv'
    BY <1>1 DEF SessionInv, SessionType, QueueInv
  <2>2. \A c \in Conns : Kept(c)
    BY <1>1 DEF Kept
  <2>3. QED
    BY <2>1, <2>2, ConnKept DEF SessionInv
<1>2. CASE \E q \in queue : /\ queue' = queue \ {q}
                            /\ Goto(q.conn, "recv")
                            /\ UNCHANGED <<sent, taken, eof, buffer, request, replies>>
  <2>1. PICK q \in queue : /\ queue' = queue \ {q}
                           /\ pc' = [pc EXCEPT ![q.conn] = "recv"]
                           /\ UNCHANGED <<sent, taken, eof, buffer, request, replies>>
    BY <1>2 DEF Goto
  <2>2. q.conn \in Conns /\ pc[q.conn] = "backlog"
    BY DEF SessionInv, QueueInv
  <2>3. SessionType'
    BY <2>1, <2>2 DEF SessionInv, SessionType, Labels
  <2>4. QueueInv'
    <3>1. \A r \in queue' : r \in queue /\ r.conn # q.conn
      BY <2>1 DEF SessionInv, QueueInv
    <3>2. \A c \in Conns : c # q.conn => pc'[c] = pc[c]
      BY <2>1 DEF SessionInv, SessionType
    <3>3. QED
      BY <3>1, <3>2 DEF SessionInv, QueueInv
  <2>5. ASSUME NEW c \in Conns PROVE ConnInv(c)'
    <3>1. CASE c # q.conn
      <4>1. pc'[c] = pc[c]
        BY <2>1, <3>1 DEF SessionInv, SessionType
      <4>2. QED
        BY <2>1, <4>1, ConnKept DEF SessionInv, Kept
    <3>2. CASE c = q.conn
      <4>1. pc[c] = "backlog" /\ pc'[c] = "recv"
        BY <2>1, <2>2, <3>2 DEF SessionInv, SessionType
      <4>2. QED
        BY <2>1, <4>1 DEF SessionInv, ConnInv, Sends, Receives, Answers
    <3>3. QED
      BY <3>1, <3>2
  <2>6. QED
    BY <2>3, <2>4, <2>5 DEF SessionInv
<1>3. QED
  BY <1>1, <1>2 DEF Accept, sessionvars

LEMMA SessionConnect ==
  ASSUME SessionInv, NEW c \in Conns, Connect(c)
  PROVE  SessionInv'
<1>1. PICK o \in open : queue' = queue \cup {[conn |-> c, sock |-> o.sock]}
  BY DEF Connect
<1>2. /\ pc[c] = "none" /\ pc' = [pc EXCEPT ![c] = "backlog"]
      /\ UNCHANGED <<sent, taken, eof, buffer, request, replies>>
  BY DEF Connect, Goto
<1>3. SessionType'
  BY <1>2 DEF SessionInv, SessionType, Labels
<1>4. \A d \in Conns : pc'[d] = IF d = c THEN "backlog" ELSE pc[d]
  BY <1>2 DEF SessionInv, SessionType
<1>5. QueueInv'
  <2> DEFINE e == [conn |-> c, sock |-> o.sock]
  <2>1. e.conn = c /\ queue' = queue \cup {e}
    BY <1>1
  <2> HIDE DEF e
  <2>2. \A q \in queue : q.conn # c
    BY <1>2 DEF SessionInv, QueueInv
  <2>3. QED
    BY <1>4, <2>1, <2>2 DEF SessionInv, QueueInv
<1>6. ASSUME NEW d \in Conns PROVE ConnInv(d)'
  <2>1. CASE d # c
    BY <1>2, <1>4, <2>1, ConnKept DEF SessionInv, Kept
  <2>2. CASE d = c
    <3>1. pc[d] = "none" /\ pc'[d] = "backlog"
      BY <1>2, <1>4, <2>2
    <3>2. QED
      BY <1>2, <3>1 DEF SessionInv, ConnInv, Sends, Receives, Answers
  <2>3. QED
    BY <2>1, <2>2
<1>7. QED
  BY <1>3, <1>5, <1>6 DEF SessionInv

LEMMA TableKept ==
  ASSUME TableInv, UNCHANGED servletvars
  PROVE  TableInv'
BY DEF servletvars, TableInv, TableType, DatasLatest, GlobsLatest, GlobsOnce

LEMMA SessionKept ==
  ASSUME SessionInv, UNCHANGED sessionvars, UNCHANGED queue
  PROVE  SessionInv'
<1>1. SessionType' /\ QueueInv'
  BY DEF sessionvars, SessionInv, SessionType, QueueInv
<1>2. \A c \in Conns : Kept(c)
  BY DEF sessionvars, Kept
<1>3. QED
  BY <1>1, <1>2, ConnKept DEF SessionInv

\* Steps of handlers, of clients and of the servlet table.
LEMMA SessionSessionNext ==
  ASSUME SessionInv, TableInv, SessionNext, UNCHANGED queue
  PROVE  SessionInv' /\ TableInv'
<1>1. ASSUME NEW c \in Conns, Session(c) \/ RecvFails(c) \/ ClientSend(c) \/ ClientClose(c)
      PROVE  SessionInv' /\ TableInv'
  <2>1. TableInv'
    BY <1>1, TableKept DEF Session, RecvFails, ClientSend, ClientClose, RecvHead, TakeBuffered,
                           ReadFixSize, FindServlet, Handle
  <2>2. CASE ClientClose(c)
    <3>1. SessionType' /\ QueueInv'
      BY <2>2 DEF ClientClose, SessionInv, SessionType, QueueInv
    <3>2. \A d \in Conns : Kept(d)
      BY <2>2 DEF ClientClose, Kept
    <3>3. QED
      BY <2>1, <3>1, <3>2, ConnKept DEF SessionInv
  <2>3. QED
    BY <1>1, <2>1, <2>2, SessionRecvHead, SessionTakeBuffered, SessionReadFixSize,
       SessionFindServlet, SessionHandle, SessionRecvFails, SessionClientSend DEF Session
<1>2. CASE \/ \E u \in Uris : addServlet(u) \/ delServlet(u)
           \/ \E g \in Globs : addGlobServlet(g) \/ delGlobServlet(g)
  <2>1. UNCHANGED sessionvars
    BY <1>2 DEF addServlet, delServlet, addGlobServlet, delGlobServlet
  <2>2. QED
    BY <1>2, <2>1, SessionKept, TableChange
<1>3. QED
  BY <1>1, <1>2 DEF SessionNext

LEMMA SessionStep ==
  ASSUME SessionInv, TableInv, [Next]_vars
  PROVE  SessionInv' /\ TableInv'
<1>1. ASSUME Reset(open'), UNCHANGED servletvars
      PROVE  SessionInv' /\ TableInv'
  <2> DEFINE gone == {q \in queue : \A o \in open' : o.sock # q.sock}
  <2>1. \E lost \in SUBSET queue :
          /\ queue' = queue \ lost
          /\ pc' = [c \in Conns |-> IF \E q \in lost : q.conn = c THEN "refused" ELSE pc[c]]
    <3>1. /\ gone \in SUBSET queue /\ queue' = queue \ gone
          /\ pc' = [c \in Conns |-> IF \E q \in gone : q.conn = c THEN "refused" ELSE pc[c]]
      BY <1>1 DEF Reset
    <3> HIDE DEF gone
    <3>2. QED
      BY <3>1
  <2>2. UNCHANGED <<sent, taken, eof, buffer, request, replies>>
    BY <1>1 DEF Reset
  <2>3. QED
    BY <1>1, <2>1, <2>2, SessionReset, TableKept
<1>2. CASE UNCHANGED vars \/ (SessionNext /\ UNCHANGED tcpvars)
  <2>1. UNCHANGED queue
    BY <1>2 DEF vars, tcpvars
  <2>2. CASE UNCHANGED vars
    BY <2>1, <2>2, SessionKept, TableKept DEF vars
  <2>3. QED
    BY <1>2, <2>1, <2>2, SessionSessionNext
<1>3. CASE \E addrs \in Binds : bind(addrs)
  BY <1>1, <1>3 DEF bind
<1>4. CASE start \/ stop
  BY <1>4, SessionKept, TableKept DEF start, stop
<1>5. CASE Job
  <2>1. CASE CloseFd
    BY <1>1, <2>1 DEF CloseFd
  <2>2. CASE ~CloseFd
    BY <1>5, <2>2, SessionKept, TableKept DEF Job, CloseSocks, CancelWaiters, ForgetFd, ClearSocks
  <2>3. QED
    BY <2>1, <2>2
<1>6. CASE \E l \in loops : LoopTest(l) \/ Accept(l) \/ AddEvent(l)
  <2>1. PICK l \in loops : LoopTest(l) \/ Accept(l) \/ AddEvent(l)
    BY <1>6
  <2>2. CASE LoopTest(l)
    BY <1>1, <2>2 DEF LoopTest
  <2>3. CASE Accept(l)
    <3>1. UNCHANGED servletvars
      BY <2>3 DEF Accept
    <3>2. QED
      BY <2>3, <3>1, SessionAccept, TableKept
  <2>4. CASE AddEvent(l)
    BY <2>4, SessionKept, TableKept DEF AddEvent
  <2>5. QED
    BY <2>1, <2>2, <2>3, <2>4
<1>7. CASE \E c \in Conns : Connect(c)
  <2>1. PICK c \in Conns : Connect(c)
    BY <1>7
  <2>2. UNCHANGED servletvars
    BY <2>1 DEF Connect
  <2>3. QED
    BY <2>1, <2>2, SessionConnect, TableKept
<1>8. QED
  BY <1>2, <1>3, <1>4, <1>5, <1>6, <1>7 DEF Next

\* However what a client sends is cut into reads, whatever the size of the receive buffer
\* and however often servlets are registered and removed meanwhile: a request is answered
\* only when its method and version were read whole, by the servlet that was registered
\* last under the name found when it was looked up; and it is given exactly the body, or
\* an empty one when a read cut the Content-Length header.
THEOREM RequestsAreAnswered == Spec => []AnswersMatch
<1>1. Init => SessionInv /\ TableInv
  BY SessionInvInit, TableInit DEF Init
<1>2. SessionInv => AnswersMatch
  <2> SUFFICES ASSUME SessionInv, NEW c \in Conns, NEW i \in 1..Len(replies[c])
               PROVE  LET r == replies[c][i] IN
                      /\ r.number = i /\ r.cut \cap {"method", "version"} = {}
                      /\ r.body = IF "length" \in r.cut THEN <<>> ELSE Body(c, i)
                      /\ r.current
    BY DEF AnswersMatch
  <2>1. Answers(c) /\ replies[c] # <<>>
    BY DEF SessionInv, ConnInv
  <2>2. i = 1
    <3>1. Len(replies[c]) = 1
      BY <2>1, Zenon DEF Answers
    <3>2. QED
      BY <3>1
  <2>3. QED
    BY <2>1, <2>2 DEF Answers, Whole, Vital
<1>3. SessionInv /\ TableInv /\ [Next]_vars => SessionInv' /\ TableInv'
  BY SessionStep
<1>4. QED
  BY <1>1, <1>2, <1>3, PTL DEF Spec
=============================================================================
