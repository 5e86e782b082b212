----------------------------- MODULE TcpServer -----------------------------
(***************************************************************************)
(* TcpServer (tcp_server.cpp) with the sockets it listens on (socket.cpp): *)
(* bind, start, one accept loop per socket, stop and the job that closes   *)
(* the sockets.  Loops and job run on the accept worker, which may have    *)
(* several threads.  The connections it accepts are handled as HttpServer  *)
(* says.                                                                   *)
(***************************************************************************)
EXTENDS HttpServer, FiniteSets

CONSTANTS
  Addrs,       \* addresses
  Binds,       \* the lists of addresses bind() is called with
  Patient,     \* TRUE: the program calls bind() on a server that does not run, and bind()
               \* or start() after stop() only when stop()'s job is done and the loops ended
  MaxSocks,    \* bound on the sockets created
  MaxStarts, MaxStops

ASSUME TcpServerAssumption ==
  Patient \in BOOLEAN /\ Binds \subseteq Seq(Addrs)

VARIABLES
  m_isStop,
  m_socks,     \* the sockets the server knows
  open,        \* sockets that listen, with their address
  socks,       \* sockets created so far
  loops,       \* the accept loops: start() they came from, socket, where they are
  jobs,        \* jobs of stop() waiting on the accept worker
  closing,     \* the one under way: the sockets it has still to close and its next step
  starts,      \* calls of start() that started the server
  stops,
  queue,       \* connections in a listening socket's backlog
  fault        \* two loops wait for the same event of one socket: addEvent asserts

tcpvars == <<m_isStop, m_socks, open, socks, loops, jobs, closing, starts, stops,
             queue, fault>>
vars == <<sessionvars, servletvars, tcpvars>>

NoJob == [left |-> {}, at |-> "none"]

Init ==
  /\ SessionInit
  /\ m_isStop = TRUE /\ m_socks = {} /\ open = {} /\ socks = 0
  /\ loops = {} /\ jobs = 0 /\ closing = NoJob /\ starts = 0 /\ stops = 0
  /\ queue = {} /\ fault = FALSE

Listens(s) == \E o \in open : o.sock = s
\* Nothing of an earlier run is left.
Quiet == Patient => jobs = 0 /\ closing = NoJob /\ (m_isStop => loops = {})

\* Connections in the backlog of sockets that are closed are reset.
Reset(os) ==
  LET lost == {q \in queue : \A o \in os : o.sock # q.sock}
  IN  /\ queue' = queue \ lost
      /\ pc' = [c \in Conns |-> IF \E q \in lost : q.conn = c THEN "refused" ELSE pc[c]]
      /\ UNCHANGED <<sent, taken, eof, buffer, request, replies>>

-----------------------------------------------------------------------------
\* bind: the addresses in turn; one that is in use fails.  When any has failed every
\* socket is let go, those of earlier calls too, and closed if nobody else holds it.
bind(addrs) ==
  LET free(i) == /\ \A o \in open : o.addr # addrs[i]
                 /\ \A j \in 1..(i - 1) : addrs[j] # addrs[i]
      good == {i \in 1..Len(addrs) : free(i)}
      new == {[sock |-> socks + i, addr |-> addrs[i]] : i \in good}
      failed == good # 1..Len(addrs)
      kept == {o \in open : \E l \in loops : l.sock = o.sock}
  IN
  /\ Quiet /\ (Patient => m_isStop) /\ socks + Len(addrs) <= MaxSocks
  /\ socks' = socks + Len(addrs)
  /\ m_socks' = IF failed THEN {} ELSE m_socks \cup {o.sock : o \in new}
  /\ open' = IF failed THEN kept ELSE open \cup new
  /\ Reset(open')
  /\ UNCHANGED <<servletvars, m_isStop, loops, jobs, closing, starts, stops, fault>>

\* Mutant: a server that runs is started again.
startAgain ==
  /\ starts < MaxStarts /\ Quiet
  /\ starts' = starts + 1
  /\ m_isStop' = FALSE
  /\ loops' = loops \cup {[start |-> starts', sock |-> s, at |-> "top"] : s \in m_socks}
  /\ UNCHANGED <<sessionvars, servletvars, m_socks, open, socks, jobs, closing, stops, queue,
                 fault>>

\* start: an accept loop for every socket, unless the server runs.
start ==
  /\ starts < MaxStarts /\ Quiet
  /\ m_isStop' = FALSE
  /\ IF m_isStop
     THEN /\ starts' = starts + 1
          /\ loops' = loops \cup {[start |-> starts', sock |-> s, at |-> "top"] : s \in m_socks}
     ELSE UNCHANGED <<starts, loops>>
  /\ UNCHANGED <<sessionvars, servletvars, m_socks, open, socks, jobs, closing, stops, queue,
                 fault>>

\* stop: the flag now, the sockets by a job.
stop ==
  /\ stops < MaxStops
  /\ stops' = stops + 1
  /\ m_isStop' = TRUE
  /\ jobs' = jobs + 1
  /\ UNCHANGED <<sessionvars, servletvars, m_socks, open, socks, loops, closing, starts, queue,
                 fault>>

\* A loop that waits on a socket, whether or not a cancelAll will still come, is resumed.
Wake(s) ==
  loops' = {IF l.sock = s /\ l.at \in {"wait", "late"} THEN [l EXCEPT !.at = "accept"] ELSE l :
              l \in loops}

\* The job: for each socket the server knows cancelAll() and close(), then m_socks.clear().
CloseSocks ==
  /\ jobs > 0 /\ closing = NoJob
  /\ jobs' = jobs - 1
  /\ closing' = [left |-> m_socks, at |-> "cancelAll"]
  /\ UNCHANGED <<sessionvars, servletvars, m_isStop, m_socks, open, socks, loops, starts, stops,
                 queue, fault>>

\* The socket the job is at.
Closing == CHOOSE s \in closing.left : \A x \in closing.left : s <= x

\* Mutant: the waiters are not woken before the descriptor is closed.
CancelWaitersNot(at, next) ==
  /\ closing.at = at /\ closing.left # {}
  /\ closing' = [closing EXCEPT !.at = next]
  /\ UNCHANGED <<sessionvars, servletvars, m_isStop, m_socks, open, socks, loops, jobs, starts,
                 stops, queue, fault>>

\* IOManager::cancelAll: sock->cancelAll() calls it, and the hooked close() once more.
CancelWaiters(at, next) ==
  /\ closing.at = at /\ closing.left # {}
  /\ Wake(Closing)
  /\ closing' = [closing EXCEPT !.at = next]
  /\ UNCHANGED <<sessionvars, servletvars, m_isStop, m_socks, open, socks, jobs, starts, stops,
                 queue, fault>>

\* The hooked close() forgets the descriptor's context.
ForgetFd ==
  /\ closing.at = "del"
  /\ closing' = [closing EXCEPT !.at = "close_f"]
  /\ UNCHANGED <<sessionvars, servletvars, m_isStop, m_socks, open, socks, loops, jobs, starts,
                 stops, queue, fault>>

\* close_f: nobody waits on the descriptor any more but who began after the last cancelAll.
CloseFd ==
  /\ closing.at = "close_f"
  /\ open' = {o \in open : o.sock # Closing}
  /\ closing' = [left |-> closing.left \ {Closing}, at |-> "cancelAll"]
  /\ Reset(open')
  /\ UNCHANGED <<servletvars, loops, m_isStop, m_socks, socks, jobs, starts, stops, fault>>

ClearSocks ==
  /\ closing.at = "cancelAll" /\ closing.left = {}
  /\ m_socks' = {} /\ closing' = NoJob
  /\ UNCHANGED <<sessionvars, servletvars, m_isStop, open, socks, loops, jobs, starts, stops, queue,
                 fault>>

Job ==
  \/ CloseSocks \/ ForgetFd \/ CloseFd \/ ClearSocks
  \/ CancelWaiters("cancelAll", "close") \/ CancelWaiters("close", "del")

-----------------------------------------------------------------------------
\* startAccept

\* The job has done its last cancelAll for the socket, and has forgotten its descriptor.
LastCancelDone(s) == closing.at \in {"del", "close_f"} /\ s = Closing
Forgotten(s) == ~Listens(s) \/ (closing.at = "close_f" /\ s = Closing)

Moves(l, label) == loops' = (loops \ {l}) \cup {[l EXCEPT !.at = label]}

\* while(!m_isStop); a socket nobody holds any more is closed.
LoopTest(l) ==
  /\ l.at = "top"
  /\ IF m_isStop
     THEN /\ loops' = loops \ {l}
          /\ open' = {o \in open : o.sock \in m_socks \/ \E x \in loops' : x.sock = o.sock}
     ELSE /\ Moves(l, "accept")
          /\ UNCHANGED open
  /\ Reset(open')
  /\ UNCHANGED <<servletvars, m_isStop, m_socks, socks, jobs, closing, starts, stops, fault>>

\* accept_f: a connection, which is handed to the io worker; or an error, and the loop
\* turns at once, as it does with nothing to accept when the call did not find the
\* descriptor's context; or it is time to wait for READ.
Accept(l) ==
  /\ l.at = "accept"
  /\ \/ \E q \in queue :
          /\ q.sock = l.sock
          /\ queue' = queue \ {q}
          /\ Goto(q.conn, "recv")
          /\ Moves(l, "top")
          /\ UNCHANGED <<sent, taken, eof, buffer, request, replies>>
     \/ /\ Forgotten(l.sock)
        /\ Moves(l, "top")
        /\ UNCHANGED <<sessionvars, queue>>
     \/ /\ Listens(l.sock) /\ \A q \in queue : q.sock # l.sock
        /\ Moves(l, "add")
        /\ UNCHANGED <<sessionvars, queue>>
  /\ UNCHANGED <<servletvars, m_isStop, m_socks, open, socks, jobs, closing, starts, stops, fault>>

\* addEvent(READ) and the yield.  A second loop on the socket may not join the first; a
\* connection that has come meanwhile wakes the loop at once; a descriptor that is closed
\* is an error.
AddEvent(l) ==
  /\ l.at = "add"
  /\ \/ /\ Listens(l.sock)
        /\ Moves(l, IF \E q \in queue : q.sock = l.sock THEN "accept"
                    ELSE IF LastCancelDone(l.sock) THEN "late" ELSE "wait")
        /\ fault' = (fault \/ \E x \in loops : x.sock = l.sock /\ x.at \in {"wait", "late"})
     \/ /\ ~Listens(l.sock)
        /\ Moves(l, "top")
        /\ UNCHANGED fault
  /\ UNCHANGED <<sessionvars, servletvars, m_isStop, m_socks, open, socks, jobs, closing, starts,
                 stops, queue>>

\* The kernel: a client connects to an address that is listened on; its connection
\* wakes a loop that waits.
Connect(c) ==
  /\ pc[c] = "none"
  /\ \E o \in open :
       /\ queue' = queue \cup {[conn |-> c, sock |-> o.sock]}
       /\ Wake(o.sock)
  /\ Goto(c, "backlog")
  /\ UNCHANGED <<sent, taken, eof, buffer, request, replies, servletvars, m_isStop, m_socks, open,
                 socks, jobs, closing, starts, stops, fault>>

Next ==
  \/ \E addrs \in Binds : bind(addrs)
  \/ start \/ stop \/ Job
  \/ \E l \in loops : LoopTest(l) \/ Accept(l) \/ AddEvent(l)
  \/ \E c \in Conns : Connect(c)
  \/ SessionNext /\ UNCHANGED tcpvars

Spec == Init /\ [][Next]_vars

\* The workers run: jobs, accept loops and the handlers of connections.
FairSpec ==
  /\ Spec
  /\ WF_vars(Job) /\ WF_vars(\E l \in loops : LoopTest(l) \/ Accept(l) \/ AddEvent(l))
  /\ \A c \in Conns : WF_vars(Session(c) /\ UNCHANGED tcpvars)

-----------------------------------------------------------------------------
\* No two accept loops serve one socket, and none turns on a socket that is closed while
\* the server is meant to run.
OneLoopPerSocket ==
  /\ ~fault
  /\ \A l, x \in loops : l.sock = x.sock => l = x
  /\ ~m_isStop => \A l \in loops : Listens(l.sock)

\* A connection whose client has sent a whole request gets its answer, unless a read cut
\* the method or the version or the server is stopped before it accepts the connection.
EveryRequestAnswered ==
  \A c \in Conns :
     Complete(c) ~> \/ Len(replies[c]) > 0 \/ CutShort(c)
                    \/ pc[c] = "refused" \/ (pc[c] = "backlog" /\ m_isStop)

\* After the last stop() every socket that was served is closed and every accept loop ends,
\* but for one that began to wait between the job's last cancelAll for its socket and the
\* close, which takes a second thread.
StopEndsLoops ==
  <>[]m_isStop => <>[](/\ \A l \in loops : l.at = "late"
                       /\ \A o \in open : o.sock \in m_socks)
=============================================================================
