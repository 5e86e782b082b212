# A TLA+ model of captain

captain is a C++11 server framework: fibers scheduled on a pool of threads, an
epoll-driven IO manager with timers, hooked blocking system calls, and on top of
them sockets, a TCP server and an HTTP server, with a configuration system and
loggers beside them. This directory specifies it, model-checks it with TLC and
proves parts of it with TLAPS.

Source paths are under `src/captain/`, headers under `src/captain/include/`.

## 1. Inventory

| component | state | operations | hard parts |
|---|---|---|---|
| Fiber (`fiber.cpp`) | `m_state`, `m_ctx`, `m_cb`, thread-local current fiber | `swapIn`, `swapOut`, `call`, `back`, `reset`, `YieldToReady`, `YieldToHold`, `MainFunc` | the state is written without a lock and before the context is saved |
| Scheduler (`scheduler.cpp`, `.h`) | `m_fibers`, `m_activeThreadCount`, `m_idleThreadCount`, `m_stopping`, `m_autoStop`, `m_rootFiber`, `m_threads` | `schedule`, `run`, `idle`, `stopping`, `start`, `stop` | threads, pins, the windows between counter, state and list |
| TimerManager (`timer.cpp`) | `m_timers` ordered by deadline, `m_tickled`, `m_previouseTime` | `addTimer`, `cancel`, `refresh`, `reset`, `getNextTimer`, `listExpiredCb` | two-lock sections, deadlines changed in the set, callbacks in flight, a wall clock that moves |
| IOManager (`iomanager.cpp`) | `m_fdContexts`, each context's `events`, epoll's interest list, `m_pendingEventCount`, the tickle pipe | `addEvent`, `delEvent`, `cancelEvent`, `cancelAll`, `contextResize`, `tickle`, `stopping`, `idle` | kernel reports racing cancel and re-registration, growing the table, who wakes a sleeping thread |
| Hook, FdManager (`hook.cpp`, `fd_manager.cpp`) | `FdCtx` per descriptor | `do_io`, `connect_with_timeout`, `sleep`, `close`, `fcntl`, `ioctl`, `setsockopt`, `get`, `del` | a timeout racing an event, a descriptor reused after close |
| ByteArray (`bytearray.cpp`) | linked blocks, `m_position`, `m_size`, `m_capacity`, `m_cur` | `write`, `read`, `setPosition`, `addCapacity`, `clear`, vectors, files, codecs | block boundaries |
| Config (`config.h`, `config.cpp`) | registered variables, values, listeners | `Lookup`, `setValue`, `addListener`, `LoadFromYaml` | listeners run under one lock, the value changes under another |
| Log (`log.cpp`) | loggers, appenders, formatters | `log`, `addAppender`, `setFormatter`, reconfiguration | formatters inherited or owned, logging during a reconfiguration |
| TcpServer, Socket | the listening sockets, `m_isStop` | `bind`, `start`, `startAccept`, `stop` and its job | accept loops racing stop and the job that closes their sockets, partial failure of bind |
| HTTP automata (`http11_parser.rl.cpp`, `httpclient_parser.rl.cpp`) | `cs`, the marks | one step per byte | a grammar with overlaps, input cut anywhere |
| HTTP parser, session, server, servlets (`http/`) | parser, session buffer, servlet table | `execute`, `recvRequest`, `handleClient`, `getMatchedServlet`, `handle` | requests that are cut inside a line or behind one, a table that changes between the lookup and the call |
| Thread, Address, utilities | | | wrappers and values without protocol |

How they interact. The scheduler owns the threads. IOManager derives from it and
from TimerManager: its idle fiber sleeps in `epoll_wait` for at most the time
`getNextTimer` gives, turns expired timers (`listExpiredCb`) and ready
descriptors (`triggerEvent`) into entries of the scheduler's list, and yields to
`run`. `onTimerInsertedAtFront` and `schedule` call `tickle`, which writes to the
pipe only when no thread is idle; a thread that already sleeps therefore learns of
a new timer or of new work when its own limit is over or another event ends its
sleep.
`stopping()` of IOManager needs no timer, no pending event and the scheduler's
own `stopping()`. A hooked call tries the system call, and on `EAGAIN` registers
an event and perhaps a timer and parks its fiber with `YieldToHold`, so it
depends on all three. TcpServer, sockets and HTTP run as fibers on top of the
hooks. Config listeners reconfigure the loggers and the parser's buffer size.

What makes each correct:

- Fiber and scheduler: a fiber runs on at most one thread; submitted work is
  neither lost nor run twice; the counters `stopping()` trusts are exact;
  `stop()` returns, and only after the work.
- Timers: the ordered set agrees with the deadlines of the timers in it; a
  one-shot timer fires once or is cancelled, never both; none fires early; a new
  earliest deadline that everybody would sleep past is announced.
- Descriptor events: a registered fiber is in one context until one of the
  competing calls resumes it, once; the pending count and the kernel's interest
  agree with the contexts.
- Idle loop: work never waits longer than the longest sleep beside a thread that
  could run it, none is lost between the timers, the callbacks a thread has taken
  out of them, the queue and the events, `stop()` ends.
- Hooks: a call with a timeout returns; close strands nobody; a hooked call does
  not keep its thread; connect reports only a connection that is made.
- ByteArray: it is a flat sequence with a position, whatever the block size;
  what is read is what was written.
- HTTP: the automata accept their grammars; the parts of a request are reported
  once, in order, from the right bytes; a request cut into reads anywhere is
  refused, loses what the cut took, or is answered as itself, never as another one.
- TcpServer: one accept loop per socket; after `stop` none is left.
- Config and Log: after a load the loggers are what the configuration says; no
  admitted event is dropped meanwhile.

The list of hazards, each at its line and with the properties that would catch
it, is in `PROJECT.json`.

## 2. Modules

| module | models | checked by |
|---|---|---|
| `Scheduler`, `TaskPool` | `scheduler.cpp`, `scheduler.h`, the states and switches of `fiber.cpp`; what it promises | `MCScheduler`; proofs in `SchedulerProofs` |
| `TimerManager` | `timer.cpp`, and where `IOManager::idle` calls it | `MCTimerManager`; `TimerManagerProofs` |
| `IOManager` | the descriptor part of `iomanager.cpp` | `MCIOManager`; `IOManagerProofs` |
| `IdleLoop` | `tickle`, `stopping`, `idle` of `iomanager.cpp` composed with `run()`, the queue and the timers | `MCIdleLoop`; `IdleLoopProofs` |
| `Hook` | `hook.cpp`, `fd_manager.cpp` | `MCHook`; `HookProofs` |
| `ByteArray`, `FlatBuffer` | `bytearray.cpp`; what it promises | `MCByteArray`; `ByteArrayProofs` |
| `Http11Table`, `HttpClientTable` | the generated automata, row by row | `MCHttpParser` |
| `Http11Grammar`, `HttpClientGrammar`, `Regex`, `HttpChars` | the grammars of the `.rl` files, and what a Ragel expression matches | `MCHttpParser` |
| `HttpParser` | `http_parser.cpp` and the functions around the automata | `MCHttpParser` |
| `HttpServer` | `http_session.cpp`, `http_server.cpp`, `servlet.cpp`, `stream.cpp` | `MCTcpServer`; `TcpServerProofs` |
| `TcpServer` | `tcp_server.cpp` with `socket.cpp`, extends `HttpServer` | `MCTcpServer`; `TcpServerProofs` |
| `Config` | `config.h`, `config.cpp`, instantiated by `Log` | `MCLog` |
| `Log`, `LogFormatter` | `log.cpp`, the size listener of `http_parser.cpp` | `MCLog`; `LogProofs` |

Definitions keep the names of the source. Definitions introduced by a comment
that begins with *Mutant* are not part of the model: each is a plausible wrong
version of the definition behind it, and shows that a property notices it.

### Scheduler

A step is a point where two threads can observe one another: a critical section
of `m_mutex`, an access to `m_activeThreadCount`, an unsynchronised access to a
fiber's `m_state`. `pc[t]` is where thread *t* is in `run()`; a fiber object is
named after the job it was first made for, and `cb_fiber` hands it on to later
callbacks as `run()` does.

| code | actions |
|---|---|
| `run()`, section under `m_mutex` | `Fetch`, `FetchNone` |
| `run()`, dispatch of a fiber or a callback, `swapIn` | `DispatchFiber`, `DispatchCb` |
| user code: `schedule`, `YieldToReady`, registering with a waker, `YieldToHold`, return or exception | `Spawn`, `YieldToReady`, `Arm`, `YieldToHold`, `Finish` |
| `swapcontext` in `swapOut` | `swapOut` |
| `--m_activeThreadCount`; then READY, TERM or HOLD | `Deactivate`; `Requeue`, `Retire`, `Held` and `SetHold` |
| the idle fiber; leaving `run()` | `Idle`, `Exit` |
| a timer or event that schedules a parked fiber | `Wake` |
| `start()`, `stop()` | `start`; `stop`, `StopFlag`, `StopCall`, `StopNoCall`, `CallReturn`, `Join` |

`Deactivate` and the test after it are separate steps because the list and the
counters are visible to other threads in between; `Held` (the read of the state)
and `SetHold` (the write of HOLD) are separate because the code takes no lock.
The early return of `stop()` for a pool without workers is the path that skips
`call()` and has nobody to join. One user thread, `Main`, submits work and calls
`start()` before `stop()`. Behaviours end where an assertion of the code fails
(`aborted`). `WakeAfterPark` states when wakers run: with TRUE a waker never
acts before its fiber has parked, with FALSE it may act at once, which is what
the code allows.

`TaskPool` is the abstract specification: jobs that wait for a thread, run on one,
sleep or are done. `PoolSpec` states that `Scheduler` implements it. A job waits
while an entry of the list names it or its fiber (`Waiting`), runs from the pop of
the entry until the thread has given it up or it has ended (`Running`), and sleeps
while a waker has its parked fiber (`Asleep`). `Fetch` is a `Take`, `Requeue` a
`Yield`, `SetHold` a `Sleep`, and all other steps of `run()` but the end of a job
are invisible. The abstract pool keeps a pin only until the first turn, which is
what the code does.

### TimerManager

An entry of `m_timers` is a timer and the deadline it was inserted under;
`std::set::find` compares the current `m_next`, so `Found` asks for the entry under
it. Timers of equal deadline are ordered by address in the code, which the model
leaves open (`MayBeFirst`, `MustBeFirst`). Every section under the lock is a step:
`addTimer` inserts and `onTimerInsertedAtFront` runs after the unlock;
`listExpiredCb` is `ReadClock`, `CheckEmpty` (read lock) and `listExpiredCb` (write
lock). The constructor reads the clock before the lock is taken, hence `NewTimer`. A
poller sleeps `left` units, or until something the manager has no say in ends its
`epoll_wait` (`WakeUp`): `onTimerInsertedAtFront` wakes nobody, because
`IOManager::tickle` returns while a thread is idle (iomanager.cpp:274). The step
only records that it happened, in the history variable `announced`, which the next
`getNextTimer` clears; `FrontAnnounced` is about `m_tickled`, which suppresses the
call. How long a timer may then wait for a sleeper is `DelayBounded` of `IdleLoop`.
`Tick` and `SetBack` are the wall clock. `Timer::reset` reads `m_ms` before it
locks; the model reads it in the locked section. A recurring timer has a positive
period: with period 0 it is due again as soon as it is collected. Behaviours end
where the front of an empty set is read (`undefined`).

### IOManager

A user call is `Call`, `Lookup` (the section under the table's read lock),
possibly `Grow` (the write lock), and `addEvent`, `delEvent`, `cancelEvent` or
`cancelAll` under the context's mutex. A poller's `epoll_wait` takes one report
and `idle` applies it; the code takes up to 64 and applies them in turn, which
are the interleavings of as many pollers with one report each. `triggerEvent`
includes the decrement each of its callers makes next to it. The kernel is the
interest list `reg`: it refuses an ADD of what is registered and a MOD or DEL of
what is not (`CtlOk`), forgets a closed descriptor (`Close`), and reports any
nonempty part of what was asked for, and with `Faults` an error or hang-up.
`MayAdd` gives each event of a descriptor one waiter, which is what callers must
ensure: a second one fails `addEvent`'s assertion. Callbacks and fibers are
treated alike.

### IdleLoop

`Fetch`, `Run`, `Again` are the loop of `run()` with fibers reduced to jobs that
yield, wait for a descriptor or end; `EnterIdle`, `StoppingPending` and
`StoppingScheduler` are the three questions of `stopping(timeout)` in their
order, each of which another thread can overtake. After the sleep, `Wake` is the
return of `epoll_wait`, `listExpiredCb` the section under the timers' lock,
`ScheduleCallbacks` the section under the scheduler's lock, and `HandleEvents` the
rest of `idle()`. Between the second and the third the expired callbacks are in
the thread's local vector alone (`cbs`), where `stopping()` does not look. `Tickle`
and `Write` are separate because the idle count may change between the test and
the write; the write end of the pipe blocks when it is full. Time is what is
left until a deadline (`due`, `sleep`) and passes only when every thread sleeps,
runs user code or is stuck. `SleepFor` has the cast to `int` with the largest
`int` as a constant, for delays below 2^32 ms. `schedule` of several callbacks
and its `tickle` are one step in `ScheduleCallbacks`, and so are those of a ready
descriptor in `HandleEvents`, because that `tickle` finds the thread itself idle
and returns.

### Hook

| code | actions |
|---|---|
| `do_io`, `connect_with_timeout`: flags; system call; timer; `addEvent` and park; resume; result | `Begin`; `Try`; `Arm`; `Add`; `Resume`; `Check`, `SockOpt` |
| timeout timer: expiry; callback up to the mark; `cancelEvent` | `Expire`; `Callback`; `CancelEvent` |
| `sleep`, `usleep`, `nanosleep` | `Sleep` |
| `close`: `cancelAll`; `FdManager::del`; `close_f` | `Close`; `Del`; `CloseF` |
| `socket`; `FdManager::get` with `FdCtx::init` | `Socket`; `Get` |
| `fcntl(F_SETFL)`, `ioctl(FIONBIO)`, `setsockopt(SO_RCVTIMEO)` | `Tune` |
| the kernel, and the idle loop's trigger | `Arrive`, `Report` |

Fibers and callbacks take turns on `Threads` threads; with one thread a fiber is
only interrupted where it parks. `timers` holds the timer of each call with its
number, which is what the weak pointer of the condition timer tells apart. The
receive and the send timeout are one flag, and connect always has a timeout (the
default of `tcp.connect.timeout`); a connect() that succeeds at once, on a blocking
descriptor or not, returns without any of this. A descriptor is a socket or closed; a call
that goes straight to the kernel (no context, or the user's own O_NONBLOCK)
returns at once.

### ByteArray and FlatBuffer

`ba` is the object. Each operator is one member function; the walk over blocks is
arithmetic on the current block and the position (`Block`, `Offset`), and a walk
that would dereference a null block is a fault that ends the program. A byte has
`Group` + 1 bits and an integer `Width` bits, so that all lengths of varints and
both ends of the range fit a small instance; fixed-size integers have two bytes.
`GetWriteBuffers` is `getWriteBuffers` as a call that changes the object: it makes
room with `addCapacity` and then walks the blocks; the pieces themselves are the
pure operator `getWriteBuffers`, which `PiecesExact` is about.
`FlatBuffer` is the abstract specification: one sequence with a position, where
a write replaces and extends, a read returns what is there, and a position
beyond the end leaves the bytes in between open. `FlatSpec` states that
`ByteArray` implements it, with `data` the first `size` bytes of the chain.

### HTTP automata and parser

A row of `Http11Table` or `HttpClientTable` is the set of edges of one state: a
set of bytes, the target, and the actions in the order the code runs them. A
definition holds the rows whose code is contiguous in the source. The grammars
are written beside them rule by rule as regular expressions, read the way Ragel
reads them; `Regex!Deriv` computes what may follow a byte, including Ragel's
`:>`, which ends its left side at the first byte that can start the right.
`HttpParser` runs automaton and grammar side by side on any input. `taken` and
`old` say which marks are set and which of them belong to the buffer of an
earlier call. `Kept` is what `execute()` does not reset.

### TcpServer and HttpServer

| code | actions |
|---|---|
| the program: `bind`, `start`, `stop` | `bind`, `start`, `stop` |
| the job `stop()` leaves on the accept worker: begin; per socket `sock->cancelAll()`, then the hooked `close()` with `cancelAll`, `FdManager::del`, `close_f`; `m_socks.clear()` | `CloseSocks`; `CancelWaiters` twice, `ForgetFd`, `CloseFd`; `ClearSocks` |
| a turn of `startAccept`: `while(!m_isStop)`; `accept_f`; `addEvent` and the park | `LoopTest`; `Accept`; `AddEvent` |
| a client connects | `Connect` |
| `recvRequest`: read and `execute()`; the buffered part of the body; `readFixSize`; a failed read | `RecvHead`; `TakeBuffered`; `ReadFixSize`; `RecvFails` |
| `handleClient`: `getMatchedServlet` under the table's lock; the servlet and `sendResponse` | `FindServlet`; `Handle` |
| the program changes the table | `addServlet`, `delServlet`, `addGlobServlet`, `delGlobServlet` |

The accept worker may have several threads (the repository's servers use two), so
loops run between any two steps of the job. A loop that calls `addEvent` after the
job's last `cancelAll` for its socket waits where nobody will wake it (`late`). A
listening socket is closed when the job closes it, or when neither `m_socks` nor
a loop holds it. `Patient` says whether the program waits for the job of `stop()`
before it binds or starts again.

A message is a sequence of tokens. A piece of its head (the method, the path, the
version, a header, the empty line) is one token or several, and a byte of its
body is one; a read returns any nonempty prefix of what has arrived, and one that
ends inside a piece cuts it. `execute()` starts each call with fresh marks
(http11_parser.rl.cpp:94) and `recvRequest` keeps nothing of a head that is not
finished (http_session.cpp:30), so the next call does not know where the piece
began: `request.cut` holds the pieces this happened to. At the end of a method or
version that was cut the parser refuses the message (`Refused`); a cut
Content-Length is dropped and the body is then taken to be empty
(`getContentLength`); of a cut path the ending is looked up (`Endings`); any other
header has no effect on what follows. A servlet is named by the change that
registered it, so that a stale one can be told, and between `FindServlet` and
`Handle` it may be replaced or deleted: `AnswersMatch` speaks of the time of the
lookup.

### Config, Log, LogFormatter

`fromString` begins `setValue` under the read lock, `ListenerStep` is one
critical section of a listener, `Unlock` and `Store` are the end of the read lock
and the later write. `Log` instantiates `Config` with the variables `logs` and
`http.request.buffer_size`; `LogBody` gives the steps of their listeners, `Apply`
executes one. `LogCall` is the level test, `Deliver` the section under the
logger's mutex, which for a logger without appenders holds it while it enters
root. A file is a set of events, emptied when it is opened. `LogFormatter` cuts a
pattern as `LogFormatter::init` does, a turn of the outer loop at a time (`Turn`).
A program that only builds a formatter (`pattern` is not empty) does nothing else.

## 3. Runs

| run | instance | shows |
|---|---|---|
| sched_park | 2 workers, a fiber that schedules a callback, another callback; each yields once, two may park | `OneThreadPerFiber`, `NoJobLostOrDuplicated`, `CountsExact`, `NoAbort`, `StopDrains`, given wakers that wait for the park |
| sched_live | `use_caller`, 2 workers, pins to a worker and to the caller, a callback that yields twice | `StopTerminates`, `EveryJobFinishes` under fair threads; the refinement `PoolSpec` |
| timer_safe | 2 timers, 2 pollers, delays 0 and 1, one-shot or recurring, one cancel, refresh or reset each; the clock runs from 2 to 4 | `SetMatchesTimers`, `OneFate`, `NeverEarly`, `FrontAnnounced` |
| timer_jump | 2 timers, 1 poller, the clock set back once, beyond `Hour` or not | `OneFate` through `detectClockRollover` |
| io_events | a reader and a writer of one descriptor, the writer also reads one beyond the table; 2 pollers, every call, close | `NoContextLost`, `WatchedIsRegistered`, `PendingExact`, `WaiterInOneContext` |
| idle_loop | 2 threads, a job bound to one that waits for a descriptor and then yields, a timer beyond the longest sleep, stop at any time | `DelayBounded`, `WorkConserved`; `WorkDone`, `StopEnds` |
| hook_calls | 1 thread; a fiber that reads and sleeps, one that connects, one that opens, tunes and closes; the number is used twice | `TimeoutWakes`, `RegistrationLive`, `NeverBlocks`, `ConnectTruth`; `TimedCallReturns` |
| byte_array | blocks of 3 bytes, positions to 6, 5-bit integers in 2-bit groups, two calls that write or make room | the refinement `FlatSpec`; `CurIsPosition`, `ReadBack`, `PiecesExact` |
| http_parse | both parsers, one byte of each of the 79 classes, inputs of any length, two calls, one chunk header | `SameLanguage`, `PositionsOfThisCall`, `CallbackOrder` |
| http_server | bind of one or two addresses, two starts, a stop; one client, a request whose method and Content-Length a read may cut, a body of two bytes and the last line of a next request, read four tokens at a time or fewer; two changes of the servlets | `AnswersMatch`, `OneLoopPerSocket`; `EveryRequestAnswered`, `StopEndsLoops` |
| log_config | three loads of four documents, two threads that log, every pattern of up to 5 characters | `ConfigInForce`, `EventsReachAppender`, `PatternsExact` |
| sched_early_wake | a waker that may act before the park | a departure: `YieldToHold` stores HOLD before the context is saved, so a second thread swaps the fiber in while the first is still on its stack (`OneThreadPerFiber` fails) |

`PoolSpec` also holds in the instance of sched_park, with parks and wakers. The
`TypeOK` of every module holds in its instance; those of `Scheduler`,
`TimerManager` and `IOManager` are proved.

Bounds. Two threads and three jobs are enough for every pair of run() steps to
interleave, with a third entry in the list to be skipped or taken; one yield and one
park per job visit every branch after `swapIn`. Two timers are what the order of the
set can tell apart, two pollers are what the two-lock collection needs; `Hour`
scales 3600000 ms to the clock of the instance (1 in timer_safe, so that a collector
can also be held for longer than that), and `MaxTime` ends it after each delay has
elapsed at least once. Three calls per user let an event be registered, taken away
and registered again while an old report is held. `MaxGen` counts contexts per
descriptor. `MAX_TIMEOUT` 1 with a timer of 2 makes a sleep end before its timer is
due. Two sockets on one number are what a stale wait or a late callback needs; two
calls of the reader let a timer of the first meet the second. Blocks of three bytes
with writes of one to three end on, before and after each block boundary. The inputs
of the parsers are not bounded: the automaton, the set of phrases and the marks are
finite, and `MCHttpParser` assumes, and TLC checks, that each of the 256 bytes
behaves like one of the bytes offered. `BuffSize` 4 lets a read hold the end of a
head, all of the body and the beginning of the next request, and makes a head of six
tokens take two reads at least; the client writes five tokens at a time, all of that
head but its empty line first, and a read may end anywhere in them. Method and
Content-Length have two tokens each, so that a read may or may not cut them; a cut
version is treated like a cut method, and a cut path is left to the theorem. Two
sockets (`MaxSocks`) are two of one `bind()` or one of each of two. Workers, timers
and pollers are interchangeable where symmetry is declared; no symmetry is used in a
run with a liveness property. Deadlock is not checked: the systems stop when the
bounded users have made their calls.

Fairness. `Scheduler!FairSpec`: weak fairness of each thread's `run` loop and of
the steps of `stop()`; the operating system runs a runnable thread and user code
returns after finitely many yields. `IdleLoop!FairSpec`: of each thread, of a
`tickle` that has begun, of the steps of `stop()` and of time; nothing of the
program or of the descriptors. `Hook!FairSpec`: of each fiber's own steps (the
scheduler gives a queued fiber its turn) and of the timers (the idle loop
collects what is due, which idle_loop shows); nothing of the peer.
`TcpServer!FairSpec`: of the job of `stop()`, the accept loops and each
connection's handler; nothing of the clients. Nothing obliges the program to
submit, start or stop.

### Departures under other constants

The same modules show further places where the code departs from what it says or
means; the constants and the property that fails are given, and the passing runs
exclude exactly these cases.

- `Scheduler`: `Pin <- CrossPins`, `UseCaller = FALSE`: `StopTerminates`. The active
  count is lowered before a READY fiber is requeued (scheduler.cpp:212); a worker
  leaves in between, and work then pinned to it keeps `stop()` waiting. `MaxStops =
  2` with `UseCaller`: `NoAbort`, the terminated root fiber is called again; with
  pins or a second `stop()`, `StopDrains`: a thread leaves entries only another one
  may take, and a later `stop()` joins nobody. A pinned fiber that yields is queued
  again without its pin (scheduler.cpp:215).
- `TimerManager`: `NoEmptyFront` in the instance of timer_safe: the set is tested
  under one lock and its front read under another (timer.cpp:161). `MaxJumps = 1`:
  `FrontAnnounced` without its `jumps = 0`, `refresh()` after the clock was set back
  brings the earliest deadline forward without a call. The comment at timer.cpp:186
  says that the insertion of a first timer wakes `epoll_wait` at once; `tickle()`
  does not, which `PromptWake` of `IdleLoop` shows. `NeverEarly` without its
  `Prompt`: a collector that is held for more than an hour between reading the clock
  and taking the lock hands everything out, because what it brings looks like a
  clock set back (timer.cpp:204).
- `IOManager`: `NoAbort` with `Faults = TRUE` (an error report triggers both events,
  registered or not, iomanager.cpp:361), and in the instance of io_events (a report
  of two events applied after one was triggered); `NoContextLost` with `MayAdd <-
  FarReaders` and descriptors 2 and 4 (a resize on a stale size shrinks the table,
  iomanager.cpp:111). `WatchedIsRegistered`, `PendingExact` and `WaiterInOneContext`
  hold there too: a context that left the table lives on in epoll, and the kernel
  refuses to add its descriptor a second time.
- `IdleLoop`: `PromptWake` (tickle() does nothing while a thread is idle, so new
  work waits for the sleep to end, iomanager.cpp:275); `NoTimerLeft` (a timer may be
  added after it was asked for); `TickleReturns` with `Yields <- Often` (the pipe
  fills); `DelayBounded` with `Delay <- BeyondInt` (the cast of iomanager.cpp:321).
- `Hook`: with `Threads = 2`, `TimeoutWakes` (the timer fires before `addEvent`),
  `RegistrationLive` (a call registers between `cancelAll` and `close_f`) and
  `ConnectTruth`; with one thread `SameSocket` (a resumed call retries on the next
  owner of the number), and `ConnectTruth` when one fiber writes to the socket
  another one connects: the writer is awake already when its timeout cancels whoever
  waits for WRITE now; `NoFault` with `Fds = {64}` (fd_manager.cpp:90 writes outside
  the table). `NeverBlocks` with `Unhooked = {reader}` and `Calls <- ClosedUnseen`
  (a thread without hooks closes a socket, its context stays, and `get()` takes it
  for the next one's, which is then blocking, fd_manager.cpp:75). `FdCtx::isClose`
  never becomes true.
- `ByteArray`: `NeverRunsOff` in the instance of byte_array: `addCapacity` adds a
  block for a remainder only when it exceeds the capacity left (bytearray.cpp:575),
  so some writes walk off the chain. `writeToFile` is right only from the start of a
  block, which `PiecesExact` says.
- `HttpParser`: `Intended = TRUE`: `SameLanguage`. In Ragel `6( h16 ":" )` is the
  byte 6, and `"1"-"9"` a difference, so most IPv6 literals are refused and control
  bytes are part of tokens. `FieldStored`: a field cut by two reads is reported from
  position 0 of the second buffer. For responses `is_finished` knows only one of the
  four final states, which is why `SameLanguage` speaks of it for requests only.
- `TcpServer`: `Patient = FALSE`: `StopEndsLoops`, a `bind()` that fails clears the
  sockets of a running server, whose loops then nobody wakes (tcp_server.cpp:67);
  and `OneLoopPerSocket`, a server started again before the job of `stop()` has run
  has two loops on a socket, and then the job closes it. Even with `Patient`, a
  `late` loop stays after `stop()`, which `StopEndsLoops` says.
- `HttpServer`: a request whose method or version a read cut is closed unanswered,
  and one whose Content-Length was cut loses its body; `EveryRequestAnswered` and
  `AnswersMatch` name both. `KeepsAlive`: `m_close` is true by default and never set
  from the head, so no connection outlives its first answer.
- `Log`: `NoNullLogger` with `Docs <- OneMore` (a definition that did not change
  leaves the pointer null, log.cpp:765); `FilesKeepEvents` (a file is opened anew,
  and emptied, by the first event of each second, log.cpp:374); `ConfigInForce` with
  two loading threads (config.h:292). `LogDefine::operator==` compares appenders
  with themselves (log.cpp:623), and `%%` leaves its second `%` to start an item
  (log.cpp:459), which is why `PatternsExact` is about patterns without it.

## 4. Proofs

Each theorem holds for every value of the constants that satisfies the named
`ASSUME` of its module: any number of threads, jobs, timers, descriptors,
requests, and any bound on the calls. Some have a hypothesis on the program or
on the constants; each is a case that section 3 lists as a departure when it is
dropped. The instance of the run satisfies it, but for `SocketsHaveOneLoop`: in
http_server the program starts its server again too, once the job of `stop()` is
done and the loops have ended.

| theorem | states | given |
|---|---|---|
| `SchedulerProofs!TypeCorrect`, `CountersAreExact` | `TypeOK`, `CountsExact` | |
| `SchedulerProofs!FibersHaveOneThread`, `WorkIsKept` | `OneThreadPerFiber`, `NoJobLostOrDuplicated` | `WakeAfterPark` |
| `SchedulerProofs!AssertionsHold` | `NoAbort` | `WakeAfterPark`; one `stop()` with `use_caller` |
| `SchedulerProofs!StopLeavesNothing` | `StopDrains` (an action property) | `WakeAfterPark`, `Unpinned`, one `stop()` |
| `SchedulerProofs!SchedulerIsPool` | `PoolSpec`: `Scheduler` implements `TaskPool` | `WakeAfterPark` |
| `TimerManagerProofs!TypeCorrect`, `TimersAreFound`, `FateIsUnique` | `TypeOK`, `SetMatchesTimers`, `OneFate` | |
| `TimerManagerProofs!NoneIsEarly`, `FrontIsAnnounced` | `NeverEarly` (an action property), `FrontAnnounced` | |
| `IOManagerProofs!TypeCorrect`, `PendingIsExact`, `WaitersHaveOneSeat`, `RegisteredIsWatched` | `TypeOK`, `PendingExact`, `WaiterInOneContext`, `WatchedIsRegistered` | |
| `IdleLoopProofs!WorkIsConserved` | `WorkConserved` | |
| `IdleLoopProofs!SleepIsBounded` | `DelayBounded` | `DelaysFit`, `[]TickleReturns` |
| `HookProofs!RegistryIsLive`, `MarkedAreWoken`, `ThreadsAreNotKept` | `RegistrationLive`, `TimeoutWakes`, `NeverBlocks` | `OneHookedThread` |
| `HookProofs!ConnectIsTrue` | `ConnectTruth` | `OneHookedThread`, `[]OneWriter` |
| `TcpServerProofs!SocketsHaveOneLoop` | `OneLoopPerSocket` | no `bind()` or `start()` after the first `stop()` |
| `TcpServerProofs!RequestsAreAnswered` | `AnswersMatch` | |
| `ByteArrayProofs!CurFollows`, `WhatWasWrittenIsRead`, `PiecesAreExact` | `CurIsPosition`, `ReadBack`, `PiecesExact` | |
| `ByteArrayProofs!ChainIsFlat` | `FlatSpec`: `ByteArray` implements `FlatBuffer` | |
| `LogProofs!PatternsAreExact` | `PatternsExact` | |

None of the properties is inductive. What each proof adds:

**SchedulerProofs.** A decrement of an unsigned counter stays natural only because
the deciding thread is itself counted, so types need the counts; the counts need
the types of `pc`; a thread past the dispatch must hold a fiber (`CurOK`); and
`start()`, `Join` and `CallReturn` move threads in and out of `run()` without
touching a counter, which is right because workers exist from `start()` to the
join alone and Main is in `run()` only while `stop()` waits for its root fiber
(`PoolOK`). `CountInv` is their conjunction; a thread that enters or leaves a set
of program points changes its cardinality by one (`AtEnter`, `AtLeave`).

`SafeInv` says where the work is, and says it of jobs rather than fibers, because
`run()` hands one fiber object from callback to callback: a job is in the list, on
a thread or with a waker, once (`Places`); a thread's `cb_fiber` is what it
carries or spare (`CbFibers`), and an object named after a callback is untouched
before its dispatch (`NewFibers`); what a thread may find in the unlocked
`m_state` at each point (`States`); and what is unfinished is in some place
(`Work`). `WakeAfterPark` is needed in one place, the step of a waker: without it
the fiber is queued while its thread is still on its stack, which is the finding
of sched_early_wake. `RootInv` adds where the root fiber is when it is called;
`DrainInv` says that the last thread to leave `run()` left an empty list, though
threads that left earlier may not have. The refinement of `TaskPool` follows from
`SafeInv` step by step: the three sets of the mapping change by one pair each
(`WaitingMore`, `RunningLess` and their like), which needs that a job is in one
place, since an entry that named the same job twice would leave the set as it is;
and `Take` needs that the thread carries nothing, `Wake` that the fiber sleeps.

**TimerManagerProofs.** `SetInv`: an entry's key is the timer's `m_next`, one entry
per timer with a callback, and every deadline lies after its period (`NextAfterMs`
keeps the subtraction in `reset()` natural). `FateInv`: `m_cb` is what `cancel()`
and `listExpiredCb` race for. `ClockInv` relates the clock, the value each poller
has read and the last one stored, which is what makes `rollover` false.
`FrontInv`: `m_tickled` may suppress a call of `onTimerInsertedAtFront` only while
another is under way or was made since a poller last computed its sleep
(`announced`), or while a poller is awake and about to compute it; otherwise
somebody sleeps no longer than until the first deadline.

**IOManagerProofs.** `IOInv` counts the registered events as a set of pairs whose
cardinality a step changes by as many as it triggers, and keeps what a call knows
between its two locks: a context that exists, of the descriptor it asked for, and
a size to grow to that covers it. `WaitInv` seats each waiter in one context.
`Watched` speaks of all contexts, in the table or not, because `addEvent` grows the
table on a size it read before taking the write lock and can so drop one with
registered events; its descriptor may then get another context. At most one of them
has events: epoll holds the address of the first, and the kernel refuses to add the
descriptor again, so that `addEvent` of the second fails before it changes anything.
That no context leaves the table (`NoContextLost`) is not a theorem, because it is
not true of every program (section 3).

**IdleLoopProofs.** `WorkInv` partitions the submitted work among the queue, the
threads, the timers, the callbacks in a thread's hands, the waiting events and what
is finished. `Hands` says of the callbacks that a thread holds some only between
`listExpiredCb` and `schedule`, and none that another thread holds; `Events` that an
event is with one thread or in epoll's list. Both are what several expired timers,
or the events of one `epoll_wait`, need to enter the queue once each.
`WorkConserved` itself adds cardinalities, which follows once. `DelayInv` measures,
per sleeping thread, the age of what it could run plus the rest of its sleep, and
its overshoot of each timer; a thread between its look at the list and its sleep has
found nothing of age above 0. `[]TickleReturns` excludes a full pipe, in which a
thread stays for good; `DelaysFit` the cast to `int`.

**HookProofs.** `HookInv` says that one fiber or callback is on the thread (`Solo`),
what a fiber at each label is doing, which calls the timers belong to, that who
is parked is registered and the reverse (`ParkedOnce`, `Registry`), and that a
socket nobody is just opening or closing has a context and does not block
(`Contexts`). The last two carry the argument of `close()`: `cancelAll` empties
the registry of the descriptor, and no call can register again before `close_f`
because the thread is taken. `ConnInv` follows a connect() label by label as long
as its socket is there (`Sure`); sockets are numbered upwards, so a reused number
is another socket. With more threads the first step of the argument fails, as do
the properties.

**TcpServerProofs.** `LoopInv`: until the first `stop()` no job closes sockets, those
`start()` would use are open, and a stopped server has no loops; after it the server
stays stopped, and the steps of the job and of the loops only take loops away or move
them. The hypothesis is a program's to keep, and is needed: `stop()` returns before
its job has run, so a `start()` behind it makes a second loop for a socket whose first
one still waits. `SessionInv` follows the bytes of a connection: what was read is the
head and a prefix of what was sent, and is in the buffer, in the body or in both, in
this order; a method or version that was cut has its end still ahead in the head
(`Ahead`), so that whatever read reaches it is refused, and a request that gets as
far as the servlet is `Whole`. `TableInv` says that
the servlet tables hold the latest registration of each name. Two facts are about
recursive data (the tokens of a stream before and after a request, and the first
pattern that matches); they are proved as a least counterexample, with `WFMin` of
the library on `Nat`, since the induction schemes themselves cannot be
instantiated.

**ByteArrayProofs.** `Chain` says of the object that its blocks make up the
capacity, that the position is not past the size nor the size past the capacity,
and that the current block is that of the position, null only at the end. Each
member function keeps it or faults; a byte of the chain is a block and an offset,
so what a walk over blocks writes or returns is what `ByteAt` says at consecutive
places (`\div` and `%` by `BaseSize`). `Outcome` then sorts every call into a
fault, a write, a read, a move, a clear, which are the actions of `FlatBuffer`, and
room made for `writev`, which it does not see; the refinement mapping is applied once
to each. `ReadBack` needs a state to
look back at: `Marked` says that the encoding of the value last written is still
at its place, which every later read and move keeps. A read there returns the
value because decoding undoes encoding for every group of bits and every width
that two bytes hold: the loop of `readUint32` stops at the byte the encoder left
without a flag, the shifted payloads add up to the value, and zigzag is undone
modulo 2^`Width`, the smallest integer included. `PiecesExact` cuts the readable
bytes after the block of the position and then after every block (`Cut`); joining
the pieces gives them back. `PowerOf2`, the sum of the payloads, `FlattenSeq` and
the loops over a file are recursive functions. What they compute is proved by
their table of values and by induction over a set of numbers (`Induct`, from
`WFMin`), which needs no operator as a parameter.

**LogProofs.** The loop over a pattern is a table of states, one per turn. `Cutting`
says of each that the items so far, written down, are the first characters of the
pattern, that the literal text continues them up to the position, and that a turn
gets past at least one character, so that as many turns as characters reach the
end. In a pattern that is `Plain` a brace has its end and something in between,
which is what makes the text of an item the text it was cut from (`ScanExact`).

`NeverRunsOff` of `ByteArray` is not a theorem: the code violates it (section 3).
The theorems of `ByteArrayProofs` say what holds until a call runs off the chain,
the fault being a state of the model; that the chain is never short is not claimed.

Only model-checked. The liveness properties (`StopTerminates`, `EveryJobFinishes`,
`WorkDone`, `StopEnds`, `TimedCallReturns`, `EveryRequestAnswered`,
`StopEndsLoops`): fairness and ENABLED are outside the prover. The three invariants
of `HttpParser`: `Regex` and its users need RECURSIVE operators. `ConfigInForce`
and `EventsReachAppender` of `Log`: what a listener does is put together with
`SelectSeq` and `SetToSortSeq`, which take an operator and have no definition the
prover can expand; the first also holds for one loading thread only, the second
while no document defines root.

## 5. Not modelled

- Thread, mutexes, semaphore: wrappers of pthreads; critical sections are atomic
  steps of the other modules.
- In `HttpServer`: a method whose ending is a method as well (UNLOCK, UNBIND, REBIND,
  UNLINK, UNSUBSCRIBE, M-SEARCH; a cut may turn one into the other), a header whose
  ending is Content-Length, a query that was cut (`query_start` is stale then,
  http11_parser.rl.cpp:89), and a version cut exactly at its end, which is read as
  HTTP/1.1.
- In `TcpServer`: two jobs of `stop()` at the same time on two threads, which
  race on `m_socks` (the model runs one after the other), and the reuse of the
  descriptor number a `late` loop waits on.
- Address and the utilities: values and calls to the operating system.
- The contents and the formatting of HTTP messages, and the layout of a log line.
- YAML and lexical conversions other than that of `logs`, which are yaml-cpp's;
  `clearListener`, `delAppender` and setters called by the program itself.
- `accept` as a call of its own in `Hook` (it is `do_io` and `FdManager::get`).
- `http11_parser.cpp`, `http11_parser1.rl.cpp`, `httpclient_parser.cpp`,
  `streams/async_socket_stream.cc`, `load_balance.cc`, `service_discovery.cc` and
  `zlib_stream.cc`: not in the build.

## 6. Plan

Left: `Config`'s two-lock update on its own; `Log`'s `EventsReachAppender` and
`ConfigInForce` for every configuration, with the selection of entries and the
order of listeners written as functions; a fair `TaskPool`, of which
`EveryJobFinishes` would be a consequence.
