------------------------------- MODULE Config ------------------------------
(***************************************************************************)
(* Configuration variables (config.h, config.cpp): the table of variables, *)
(* a variable's value and its listeners, and loading a document.  What a   *)
(* value is, when two are equal and what a listener does are parameters.   *)
(***************************************************************************)
EXTENDS Integers, Sequences, SequencesExt, FiniteSets

CONSTANTS
  Threads,            \* threads that load documents
  Keys,               \* names of variables
  Valid,              \* names made of the characters a name may have
  Early,              \* variables that exist when main() starts
  Default(_),         \* the value a variable is created with
  Docs,               \* documents: sequences of entries with a key and a node
  Bad,                \* what a conversion that throws returns
  Convert(_, _),      \* FromStr of a variable's type
  Equal(_, _, _),     \* operator== of a variable's type
  Body(_, _, _, _),   \* what a listener does when told an old and a new value: steps
  Listeners,          \* Listeners[k]: the listeners a program gives a variable, by id
  MaxLoads            \* bound on the documents loaded

VARIABLES
  s_datas,     \* the variables that exist
  m_val,       \* their values
  m_cbs,       \* their listeners
  pending,     \* entries of the document a thread is loading
  setting,     \* the call of setValue a thread is in
  loads

configvars == <<s_datas, m_val, m_cbs, pending, setting, loads>>

NotSetting == [key |-> "none", new |-> Bad, todo |-> <<>>, at |-> "none"]

ConfigInit ==
  /\ s_datas = Early
  /\ m_val = [k \in Keys |-> Default(k)]
  /\ m_cbs = [k \in Keys |-> IF k \in Early THEN Listeners[k] ELSE {}]
  /\ pending = [t \in Threads |-> <<>>] /\ setting = [t \in Threads |-> NotSetting]
  /\ loads = 0

\* Somebody holds the read lock of a variable: setValue while it calls the listeners.
Reading(k) == \E t \in Threads : setting[t].at = "listeners" /\ setting[t].key = k

-----------------------------------------------------------------------------
\* Lookup with a default: a variable is created the first time it is asked for, and not
\* under a name with other characters (the call throws).
Lookup(k) ==
  /\ k \in Valid \ s_datas
  /\ s_datas' = s_datas \cup {k}
  /\ UNCHANGED <<m_val, m_cbs, pending, setting, loads>>

addListener(k, l) ==
  /\ k \in s_datas /\ l \in Listeners[k] \ m_cbs[k] /\ ~Reading(k)
  /\ m_cbs' = [m_cbs EXCEPT ![k] = @ \cup {l}]
  /\ UNCHANGED <<s_datas, m_val, pending, setting, loads>>

\* delListener, of a listener whose key the program has kept.
delListener(k, l) ==
  /\ l \in m_cbs[k] /\ k \notin Early /\ ~Reading(k)
  /\ m_cbs' = [m_cbs EXCEPT ![k] = @ \ {l}]
  /\ UNCHANGED <<s_datas, m_val, pending, setting, loads>>

\* ListAllMember: an entry whose name has other characters is left out, before it would
\* be made lower case.
ListAllMember(doc) == SelectSeq(doc, LAMBDA e : e.key \in Valid)

LoadFromYaml(t, doc) ==
  /\ pending[t] = <<>> /\ setting[t] = NotSetting /\ loads < MaxLoads
  /\ loads' = loads + 1
  /\ pending' = [pending EXCEPT ![t] = ListAllMember(doc)]
  /\ UNCHANGED <<s_datas, m_val, m_cbs, setting>>

\* The next entry: nothing for an unknown name, a conversion that throws or an equal
\* value; else setValue() takes the read lock and starts to call the listeners.
fromString(t) ==
  LET e == Head(pending[t])
      v == Convert(e.key, e.node)
      calls == [i \in 1..Len(SetToSortSeq(m_cbs[e.key], <)) |->
                  Body(SetToSortSeq(m_cbs[e.key], <)[i], e.key, m_val[e.key], v)]
  IN
  /\ pending[t] # <<>> /\ setting[t] = NotSetting
  /\ pending' = [pending EXCEPT ![t] = Tail(@)]
  /\ setting' = IF e.key \notin s_datas \/ v = Bad \/ Equal(e.key, v, m_val[e.key]) THEN setting
                ELSE [setting EXCEPT ![t] = [key |-> e.key, new |-> v, at |-> "listeners",
                                             todo |-> FlattenSeq(calls)]]
  /\ UNCHANGED <<s_datas, m_val, m_cbs, loads>>

\* One step of a listener is done.
ListenerStep(t) ==
  /\ setting[t].at = "listeners" /\ setting[t].todo # <<>>
  /\ setting' = [setting EXCEPT ![t].todo = Tail(@)]
  /\ UNCHANGED <<s_datas, m_val, m_cbs, pending, loads>>

\* The listeners have returned: the read lock is released.
Unlock(t) ==
  /\ setting[t].at = "listeners" /\ setting[t].todo = <<>>
  /\ setting' = [setting EXCEPT ![t].at = "store"]
  /\ UNCHANGED <<s_datas, m_val, m_cbs, pending, loads>>

\* The value is stored under the write lock, whatever happened since the read lock.
Store(t) ==
  /\ setting[t].at = "store" /\ ~Reading(setting[t].key)
  /\ m_val' = [m_val EXCEPT ![setting[t].key] = setting[t].new]
  /\ setting' = [setting EXCEPT ![t] = NotSetting]
  /\ UNCHANGED <<s_datas, m_cbs, pending, loads>>

ConfigNext ==
  \/ \E k \in Keys : Lookup(k) \/ \E l \in Listeners[k] : addListener(k, l) \/ delListener(k, l)
  \/ \E t \in Threads :
       \/ \E doc \in Docs : LoadFromYaml(t, doc)
       \/ fromString(t) \/ Unlock(t) \/ Store(t)

\* No load is under way.
Quiet == \A t \in Threads : pending[t] = <<>> /\ setting[t] = NotSetting
=============================================================================
