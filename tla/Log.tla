-------------------------------- MODULE Log --------------------------------
(***************************************************************************)
(* Loggers and their appenders (log.cpp) under a configuration that        *)
(* changes: threads load documents as Config says, the listener of the     *)
(* variable "logs" rebuilds the loggers step by step, and other threads    *)
(* log meanwhile.  The size listener of http_parser.cpp is here too.       *)
(***************************************************************************)
EXTENDS Integers, Sequences, SequencesExt, FiniteSets, LogFormatter

CONSTANTS
  Threads, Docs, Bad, MaxLoads,   \* see Config
  Writers,     \* threads that log
  Order,       \* the names of loggers, in the order of std::set; "root" is one of them
  Files,       \* names of log files
  EventLevels, \* levels events are logged with
  Sizes,       \* values of the variable http.request.buffer_size
  MaxEvents, MaxTime,
  PatternLength   \* bound on the patterns of formatters that are only built

ASSUME LogAssumption ==
  /\ MaxEvents \in Nat /\ MaxTime \in Nat /\ PatternLength \in Nat /\ EventLevels \subseteq 1..5
  /\ \E i \in 1..Len(Order) : Order[i] = "root"
  /\ "stdout" \notin Files /\ Sizes \subseteq Nat /\ 4 \in Sizes

Names == {Order[i] : i \in 1..Len(Order)}

VARIABLES
  s_datas, m_val, m_cbs, pending, setting, loads,   \* of Config
  loggers,     \* level, formatter and appenders of each logger
  out,         \* the events on stdout and in each file
  at,          \* where a thread is in Logger::log
  written,     \* events some appender has written
  ended,       \* events that loggers have admitted and log() has returned from
  events, now,
  s_http_request_buffer_size,
  fault,       \* a null Logger::ptr has been used
  pattern      \* the pattern of a formatter, for a program that only builds one

configvars == <<s_datas, m_val, m_cbs, pending, setting, loads>>
logvars == <<loggers, out, at, written, ended, events, now, s_http_request_buffer_size, fault>>

-----------------------------------------------------------------------------
\* The values of "logs"

\* LogLevel::FromString
FromString(s) ==
  CASE s \in {"debug", "DEBUG"} -> 1 [] s \in {"info", "INFO"} -> 2
    [] s \in {"warn", "WARN"} -> 3 [] s \in {"error", "ERROR"} -> 4
    [] s \in {"fatal", "FATAL"} -> 5 [] OTHER -> 0

\* One appender of a document.  Its level is not read, nor the formatter of stdout.
AppenderDefine(a) ==
  [type |-> IF a.type = "FileLogAppender" THEN 1 ELSE 2, level |-> 0,
   formatter |-> IF a.type = "FileLogAppender" THEN a.formatter ELSE <<>>,
   file |-> IF a.type = "FileLogAppender" THEN a.file ELSE "stdout"]
GoodAppender(a) ==
  a.type = "StdoutLogAppender" \/ (a.type = "FileLogAppender" /\ a.file # "none")

\* LexicalCast to std::set<LogDefine>: entries without a name are left out, and of two
\* with one name the first is kept.
Defines(node) ==
  LET named == SelectSeq(node, LAMBDA n : n.name # "none")
      define(n) == [name |-> n.name, level |-> FromString(n.level), formatter |-> n.formatter,
                    appenders |-> LET good == SelectSeq(n.appenders, GoodAppender)
                                  IN  [i \in 1..Len(good) |-> AppenderDefine(good[i])]]
  IN  {define(named[i]) : i \in {k \in 1..Len(named) : \A j \in 1..(k - 1) : named[j].name # named[k].name}}

LogConvert(k, node) ==
  IF k = "logs" THEN Defines(node) ELSE IF node \in Sizes THEN node ELSE Bad

\* LogDefine::operator==, which compares the appenders of one side with themselves.
SameDefine(a, b) == a.name = b.name /\ a.level = b.level /\ a.formatter = b.formatter
LogEqual(k, a, b) ==
  IF k = "logs"
  THEN (\A d \in a : \E e \in b : SameDefine(d, e)) /\ (\A e \in b : \E d \in a : SameDefine(d, e))
  ELSE a = b

-----------------------------------------------------------------------------
\* The listeners

\* What is done for one definition: nothing is looked up for one that has not changed,
\* and its null pointer is used all the same.
DefineSteps(d, old) ==
  IF \E e \in old : SameDefine(d, e) THEN <<[op |-> "null", name |-> d.name]>>
  ELSE <<[op |-> "level", name |-> d.name, level |-> d.level]>>
       \o (IF d.formatter = <<>> THEN <<>>
           ELSE <<[op |-> "formatter", name |-> d.name, formatter |-> d.formatter]>>)
       \o <<[op |-> "clear", name |-> d.name]>>
       \o [i \in 1..Len(d.appenders) |->
             [op |-> "add", name |-> d.name, appender |-> d.appenders[i]]]

\* Mutant: loggers that are gone from the configuration are left as they are.
RemovedStepsNone(n) == <<>>
\* A logger that is gone from the configuration.
RemovedSteps(n) == <<[op |-> "level", name |-> n, level |-> 0], [op |-> "clear", name |-> n]>>

\* LogIniter's listener (1): the new definitions by name, then the ones that are gone.
\* The listener of _RequestSizeIniter (2).  Listeners of the program (3) are not followed.
LogBody(l, k, old, new) ==
  LET has(s, n) == \E d \in s : d.name = n
      def(n) == CHOOSE d \in new : d.name = n
  IN  CASE l = 1 -> FlattenSeq([i \in 1..Len(Order) |->
                      IF has(new, Order[i]) THEN DefineSteps(def(Order[i]), old) ELSE <<>>])
                    \o FlattenSeq([i \in 1..Len(Order) |->
                      IF has(old, Order[i]) /\ ~has(new, Order[i]) THEN RemovedSteps(Order[i]) ELSE <<>>])
        [] l = 2 -> <<[op |-> "size", name |-> "none", size |-> new]>>
        [] OTHER -> <<>>

LogKeys == {"logs", "http.request.buffer_size", "app"}
LogDefault(k) == IF k = "logs" THEN {} ELSE 4
LogListeners ==
  [k \in LogKeys |-> CASE k = "logs" -> {1} [] k = "http.request.buffer_size" -> {2} [] OTHER -> {3}]

C == INSTANCE Config WITH
       Keys <- LogKeys, Valid <- LogKeys, Early <- LogKeys \ {"app"}, Default <- LogDefault,
       Convert <- LogConvert, Equal <- LogEqual, Body <- LogBody,
       Listeners <- LogListeners

vars == <<configvars, logvars, pattern>>

DefaultPattern == <<Percent, "d", Percent, "m">>
NewLogger == [level |-> 1, formatter |-> DefaultPattern, appenders |-> <<>>]
Stdout == [file |-> "stdout", level |-> 1, formatter |-> DefaultPattern, own |-> FALSE, last |-> 0]
\* LoggerManager(): root writes to stdout.  A logger that is asked for first exists then.
FirstLogger(n) == IF n = "root" THEN [NewLogger EXCEPT !.appenders = <<Stdout>>] ELSE NewLogger
Nowhere == [event |-> 0, level |-> 0, logger |-> "none", held |-> {}]

Init ==
  /\ C!ConfigInit
  /\ loggers = [n \in Names |-> FirstLogger(n)]
  /\ out = [f \in Files \cup {"stdout"} |-> {}]
  /\ at = [w \in Writers |-> Nowhere]
  /\ written = {} /\ ended = {} /\ events = 0 /\ now = 1
  /\ s_http_request_buffer_size = LogDefault("http.request.buffer_size")
  /\ fault = FALSE
  /\ pattern \in BoundedSeq(Chars, PatternLength)

\* A logger's mutex is free: no thread is in the logger on its way to root's.
Free(n) == \A w \in Writers : n \notin at[w].held

-----------------------------------------------------------------------------
\* The steps of the log listener

\* Logger::setFormatter: an invalid pattern changes nothing.
setFormatter(n, p) ==
  IF isError(p) THEN UNCHANGED loggers
  ELSE loggers' = [loggers EXCEPT ![n] =
         [@ EXCEPT !.formatter = p,
                   !.appenders = [i \in 1..Len(@) |->
                     IF @[i].own THEN @[i] ELSE [@[i] EXCEPT !.formatter = p]]]]

\* A new appender, with the logger's formatter when it has no valid one of its own.
NewAppender(n, a) ==
  LET own == a.formatter # <<>> /\ ~isError(a.formatter)
  IN  [file |-> a.file, level |-> a.level, own |-> own, last |-> 0,
       formatter |-> IF own THEN a.formatter ELSE loggers[n].formatter]

\* One step: setLevel, setFormatter, clearAppenders, addAppender (a file is opened anew,
\* which empties it), the size, or the null pointer.
Apply(t) ==
  LET s == Head(setting[t].todo) IN
  /\ C!ListenerStep(t)
  /\ s.op \in {"formatter", "clear", "add"} => Free(s.name)
  /\ CASE s.op = "level" -> loggers' = [loggers EXCEPT ![s.name].level = s.level]
       [] s.op = "formatter" -> setFormatter(s.name, s.formatter)
       [] s.op = "clear" -> loggers' = [loggers EXCEPT ![s.name].appenders = <<>>]
       [] s.op = "add" ->
            loggers' = [loggers EXCEPT ![s.name].appenders = Append(@, NewAppender(s.name, s.appender))]
       [] OTHER -> UNCHANGED loggers
  /\ out' = IF s.op = "add" /\ s.appender.type = 1 THEN [out EXCEPT ![s.appender.file] = {}] ELSE out
  /\ s_http_request_buffer_size' = IF s.op = "size" THEN s.size ELSE s_http_request_buffer_size
  /\ fault' = (s.op = "null")
  /\ UNCHANGED <<at, written, ended, events, now>>

-----------------------------------------------------------------------------
\* Logger::log

LogCall(w, n, level) ==
  /\ at[w] = Nowhere /\ events < MaxEvents
  /\ events' = events + 1
  /\ at' = IF level >= loggers[n].level
           THEN [at EXCEPT ![w] = [event |-> events', level |-> level, logger |-> n, held |-> {}]]
           ELSE at
  /\ UNCHANGED <<configvars, loggers, out, written, ended, now, s_http_request_buffer_size, fault>>

\* Every appender in turn.  A file is opened again, and so emptied, by the first event
\* of a second.
Emit(n, e, level) ==
  LET as == loggers[n].appenders
      takes(i) == level >= as[i].level
      emptied(f) == \E i \in 1..Len(as) : takes(i) /\ as[i].file = f /\ f # "stdout" /\ as[i].last # now
      to(f) == \E i \in 1..Len(as) : takes(i) /\ as[i].file = f
  IN  /\ out' = [f \in DOMAIN out |-> (IF emptied(f) THEN {} ELSE out[f]) \cup (IF to(f) THEN {e} ELSE {})]
      /\ loggers' = [loggers EXCEPT ![n].appenders =
                       [i \in 1..Len(as) |->
                          IF takes(i) /\ as[i].file # "stdout" THEN [as[i] EXCEPT !.last = now] ELSE as[i]]]
      /\ written' = IF \E i \in 1..Len(as) : takes(i) THEN written \cup {e} ELSE written

\* Mutant: a logger without appenders does not pass an event on.
DeliverHere(w) ==
  LET me == at[w] IN
  /\ me # Nowhere /\ Free(me.logger)
  /\ Emit(me.logger, me.event, me.level)
  /\ at' = [at EXCEPT ![w] = Nowhere] /\ ended' = ended \cup {me.event}
  /\ UNCHANGED <<configvars, events, now, s_http_request_buffer_size, fault>>

\* Under the logger's mutex: its appenders, or root when it has none, whose level is
\* read before root's mutex is taken.
Deliver(w) ==
  LET me == at[w]
      pass == loggers[me.logger].appenders = <<>> /\ me.logger # "root"
      admitted == me.level >= loggers["root"].level
  IN
  /\ me # Nowhere /\ Free(me.logger)
  /\ IF ~pass
     THEN /\ Emit(me.logger, me.event, me.level)
          /\ at' = [at EXCEPT ![w] = Nowhere] /\ ended' = ended \cup {me.event}
     ELSE /\ at' = [at EXCEPT ![w] = IF admitted THEN [me EXCEPT !.logger = "root", !.held = {me.logger}]
                                     ELSE Nowhere]
          /\ UNCHANGED <<loggers, out, written, ended>>
  /\ UNCHANGED <<configvars, events, now, s_http_request_buffer_size, fault>>

Tick ==
  /\ now < MaxTime /\ now' = now + 1
  /\ UNCHANGED <<configvars, loggers, out, at, written, ended, events, s_http_request_buffer_size, fault>>

Next ==
  /\ ~fault /\ pattern = <<>> /\ UNCHANGED pattern
  /\ \/ C!ConfigNext /\ UNCHANGED logvars
     \/ \E t \in Threads : Apply(t)
     \/ \E w \in Writers : Deliver(w) \/ \E n \in Names, l \in EventLevels : LogCall(w, n, l)
     \/ Tick

Spec == Init /\ [][Next]_vars

-----------------------------------------------------------------------------
\* When no load is under way every logger is what the value of "logs" says: level,
\* appenders and the formatters they use; a logger that is gone from it has none of it
\* left; and the copy of the buffer size is the variable's value.
ConfigInForce ==
  C!Quiet /\ ~fault =>
    /\ \A d \in m_val["logs"] :
         LET g == loggers[d.name] IN
         /\ g.level = d.level
         /\ [i \in 1..Len(g.appenders) |-> g.appenders[i].file]
              = [i \in 1..Len(d.appenders) |-> d.appenders[i].file]
         /\ d.formatter # <<>> /\ ~isError(d.formatter) => g.formatter = d.formatter
         /\ \A i \in 1..Len(g.appenders) :
              g.appenders[i].formatter = IF g.appenders[i].own THEN d.appenders[i].formatter ELSE g.formatter
    /\ \A n \in Names : (\A d \in m_val["logs"] : d.name # n) =>
         loggers[n].appenders = FirstLogger(n).appenders /\ loggers[n].level \in {0, FirstLogger(n).level}
    /\ s_http_request_buffer_size = m_val["http.request.buffer_size"]

\* An event that its logger and root admit is written by some appender, also while the
\* logger's appenders are being replaced.
EventsReachAppender == ended \subseteq written

\* LogFormatter::init cuts every pattern exactly (see LogFormatter).
PatternsExact == FormatterExact(pattern)

\* The listener of "logs" works on loggers that exist.
NoNullLogger == ~fault

\* An event that has been written to a file stays in it as long as the appender is there.
FilesKeepEvents ==
  [][\A f \in Files : \A e \in out[f] :
       e \in out'[f] \/ \E t \in Threads : setting'[t] # setting[t]]_vars
=============================================================================
