----------------------------- MODULE RuntimeDocs -----------------------------
(***************************************************************************)
(* The runtime documentation worker of sage-ls                             *)
(* (crates/sage-ls/src/runtime_docs.rs): lookups and prefetches share one  *)
(* Sage process that answers one line per request, in order.  A lookup     *)
(* holds the process from its request to its answer, gives up after a      *)
(* timeout, and throws the process away with whatever it still will say.   *)
(*                                                                         *)
(* `configure` runs once, in `initialize`, and is part of Init.            *)
(***************************************************************************)
EXTENDS Naturals, Sequences, FiniteSets

CONSTANTS
  Symbols,   \* names that documentation is asked for
  Tasks,     \* lookups and prefetches that may be under way at once
  NoTask,    \* nobody
  NoReply,   \* no record
  MaxLines   \* bound: lines the process is ahead of what is read

ASSUME DocsAssumption == NoTask \notin Tasks /\ NoReply \notin Symbols /\ MaxLines \in Nat

VARIABLES
  usable,    \* RuntimeDocsConfig: enabled, with an interpreter
  state,     \* RuntimeDocsCounters.state
  cache,     \* names whose record is kept
  sources,   \* the record whose source location is kept for each symbol
  inflight,  \* symbols being prefetched
  process,   \* the Sage process, if any
  guard,     \* who holds the process's mutex
  task       \* what each lookup or prefetch is doing

vars == <<usable, state, cache, sources, inflight, process, guard, task>>

Stages == {"idle", "called", "entering", "locking", "starting", "sending", "receiving",
           "found", "failed", "finishing"}
States == {"unavailable", "idle", "starting", "ready", "degraded"}

\* A process that is started, the requests it has yet to read, the lines it has written: an
\* answer to a symbol, an error, or a line of something else.
Lines == [kind : {"ok", "error"}, about : Symbols] \cup [kind : {"noise"}]
NoProcess == [running |-> FALSE, ready |-> FALSE, requests |-> <<>>, lines |-> <<>>]
Fresh(stage, prefetch, symbol) ==
  [stage |-> stage, prefetch |-> prefetch, symbol |-> symbol, reply |-> NoReply]

Init ==
  /\ usable \in BOOLEAN
  /\ state = IF usable THEN "idle" ELSE "unavailable"
  /\ cache = {} /\ sources = [s \in Symbols |-> NoReply] /\ inflight = {}
  /\ process = NoProcess /\ guard = NoTask
  /\ task = [t \in Tasks |-> Fresh("idle", FALSE, NoReply)]

Enters(t, stage) == task' = [task EXCEPT ![t].stage = stage]

-----------------------------------------------------------------------------
(* Requests.                                                               *)

\* prefetch does nothing without a runtime or for a record that is known.
Prefetch(t, s) ==
  /\ task[t].stage = "idle" /\ usable /\ s \notin cache
  /\ task' = [task EXCEPT ![t] = Fresh("entering", TRUE, s)]
  /\ UNCHANGED <<usable, state, cache, sources, inflight, process, guard>>

\* Mutant: the prefetch starts whether the symbol was there or not.
MutEnterInflight(t) ==
  /\ task[t].stage = "entering"
  /\ Enters(t, "called") /\ inflight' = inflight \cup {task[t].symbol}
  /\ UNCHANGED <<usable, state, cache, sources, process, guard>>

\* Nor does it for one that is on its way.
EnterInflight(t) ==
  /\ task[t].stage = "entering"
  /\ IF task[t].symbol \in inflight
     THEN Enters(t, "idle") /\ UNCHANGED inflight
     ELSE Enters(t, "called") /\ inflight' = inflight \cup {task[t].symbol}
  /\ UNCHANGED <<usable, state, cache, sources, process, guard>>

\* Someone asks for the documentation and waits for it.
Ask(t, s) ==
  /\ task[t].stage = "idle"
  /\ task' = [task EXCEPT ![t] = Fresh("called", FALSE, s)]
  /\ UNCHANGED <<usable, state, cache, sources, inflight, process, guard>>

After(t) == IF task[t].prefetch THEN "finishing" ELSE "idle"

\* lookup: a known record is returned, and nothing is asked without a runtime.
Lookup(t) ==
  /\ task[t].stage = "called"
  /\ IF task[t].symbol \in cache
     THEN task' = [task EXCEPT ![t].reply = task[t].symbol, ![t].stage = After(t)]
     ELSE Enters(t, IF usable THEN "locking" ELSE After(t))
  /\ UNCHANGED <<usable, state, cache, sources, inflight, process, guard>>

-----------------------------------------------------------------------------
(* lookup_uncached_blocking and spawn_process, with the process locked.    *)

LockProcess(t) ==
  /\ task[t].stage = "locking" /\ guard = NoTask
  /\ guard' = t
  /\ IF process # NoProcess
     THEN Enters(t, "sending") /\ UNCHANGED <<state, process>>
     ELSE /\ state' = "starting"
          /\ process' = [NoProcess EXCEPT !.running = TRUE]
          /\ Enters(t, "starting")
  /\ UNCHANGED <<usable, cache, sources, inflight>>

\* Mutant: a process that did not answer in time is kept.
MutGivesUp(t) ==
  /\ UNCHANGED process
  /\ guard' = NoTask
  /\ Enters(t, "failed")

\* The process is killed and its lock let go.
GivesUp(t) ==
  /\ process' = NoProcess
  /\ guard' = NoTask
  /\ Enters(t, "failed")

\* The process cannot be started, exits, cannot import Sage, or takes too long.
StartFails(t) ==
  /\ task[t].stage = "starting"
  /\ GivesUp(t)
  /\ UNCHANGED <<usable, state, cache, sources, inflight>>

StartSucceeds(t) ==
  /\ task[t].stage = "starting" /\ process.ready
  /\ state' = "ready"
  /\ Enters(t, "sending")
  /\ UNCHANGED <<usable, cache, sources, inflight, process, guard>>

Send(t) ==
  /\ task[t].stage = "sending"
  /\ \/ /\ process.running
        /\ process' = [process EXCEPT !.requests = Append(@, task[t].symbol)]
        /\ Enters(t, "receiving") /\ UNCHANGED guard
     \/ ~process.running /\ GivesUp(t)
  /\ UNCHANGED <<usable, state, cache, sources, inflight>>

\* Mutant: the wait for an answer has no end.
MutNoAnswer(t) == FALSE

\* No line comes in time, or the process is gone.
NoAnswer(t) ==
  /\ task[t].stage = "receiving"
  /\ GivesUp(t)
  /\ UNCHANGED <<usable, state, cache, sources, inflight>>

\* A line that is no answer makes the process useless; an error does not.  The process also
\* decides whether its record says where the source is (an absolute path, a positive line and
\* the text): one that does not leaves the location that is kept, if any, as it was.
Receive(t) ==
  /\ task[t].stage = "receiving" /\ process.lines # <<>>
  /\ LET line == Head(process.lines)
         Reads == process' = [process EXCEPT !.lines = Tail(@)] /\ guard' = NoTask
     IN \/ line.kind = "noise" /\ GivesUp(t) /\ UNCHANGED <<state, sources>>
        \/ line.kind = "error" /\ Reads /\ Enters(t, "failed") /\ UNCHANGED <<state, sources>>
        \/ /\ line.kind = "ok" /\ Reads
           /\ sources' \in {sources, [sources EXCEPT ![task[t].symbol] = line.about]}
           /\ state' = "ready"
           /\ task' = [task EXCEPT ![t].reply = line.about, ![t].stage = "found"]
  /\ UNCHANGED <<usable, cache, inflight>>

\* The rest of lookup, when the process is somebody else's already.
Report(t) ==
  /\ task[t].stage = "failed"
  /\ state' = "degraded"
  /\ Enters(t, After(t))
  /\ UNCHANGED <<usable, cache, sources, inflight, process, guard>>

Keep(t) ==
  /\ task[t].stage = "found"
  /\ cache' = cache \cup {task[t].reply}
  /\ Enters(t, After(t))
  /\ UNCHANGED <<usable, state, sources, inflight, process, guard>>

\* finish_prefetch; the depth it stores is left out.
FinishPrefetch(t) ==
  /\ task[t].stage = "finishing"
  /\ inflight' = inflight \ {task[t].symbol}
  /\ Enters(t, "idle")
  /\ UNCHANGED <<usable, state, cache, sources, process, guard>>

-----------------------------------------------------------------------------
(* The Sage process, which nobody trusts.                                  *)

ProcessReady == process.running /\ ~process.ready /\ process' = [process EXCEPT !.ready = TRUE]
ProcessDies == process.running /\ process' = [process EXCEPT !.running = FALSE]

ProcessAnswers ==
  /\ process.running /\ process.ready /\ process.requests # <<>>
  /\ \E kind \in {"ok", "error"} :
       process' = [process EXCEPT !.requests = Tail(@),
                     !.lines = Append(@, [kind |-> kind, about |-> Head(process.requests)])]

\* A documented object may print something of its own while it is looked at.
ProcessPrints ==
  /\ process.running /\ process.ready /\ Len(process.lines) < MaxLines
  /\ process' = [process EXCEPT !.lines = Append(@, [kind |-> "noise"])]

ProcessStep ==
  /\ ProcessReady \/ ProcessDies \/ ProcessAnswers \/ ProcessPrints
  /\ UNCHANGED <<usable, state, cache, sources, inflight, guard, task>>

TaskStep(t) ==
  \/ EnterInflight(t) \/ Lookup(t) \/ LockProcess(t) \/ StartFails(t) \/ StartSucceeds(t)
  \/ Send(t) \/ NoAnswer(t) \/ Receive(t) \/ Report(t) \/ Keep(t) \/ FinishPrefetch(t)

Next ==
  \/ ProcessStep
  \/ \E t \in Tasks : TaskStep(t) \/ \E s \in Symbols : Prefetch(t, s) \/ Ask(t, s)

Spec == Init /\ [][Next]_vars

\* Threads run and timers fire.  Nothing is assumed of the process, of the callers, or of who
\* gets the mutex, which is not a fair one.
FairSpec == Spec /\ \A t \in Tasks : WF_vars(TaskStep(t))

-----------------------------------------------------------------------------
(* Types; a task is at the process if and only if it holds the mutex.      *)
TypeOK ==
  /\ usable \in BOOLEAN /\ state \in States
  /\ cache \subseteq Symbols /\ inflight \subseteq Symbols
  /\ sources \in [Symbols -> Symbols \cup {NoReply}]
  /\ process \in [running : BOOLEAN, ready : BOOLEAN, requests : Seq(Symbols), lines : Seq(Lines)]
  /\ task \in [Tasks -> [stage : Stages, prefetch : BOOLEAN, symbol : Symbols \cup {NoReply},
                         reply : Symbols \cup {NoReply}]]
  /\ guard \in Tasks \cup {NoTask}
  /\ \A t \in Tasks : guard = t <=> task[t].stage \in {"starting", "sending", "receiving"}

(* Answers carry no name of their request: they are matched by order only. *)
(* Whatever timed out, died or printed before, the record that is returned *)
(* for a symbol and the source location that is kept for it, if there is   *)
(* one, are that symbol's.                                                 *)
AnswersMatch ==
  /\ \A t \in Tasks : task[t].reply \in {NoReply, task[t].symbol}
  /\ \A s \in Symbols : sources[s] \in {NoReply, s}

(* A symbol counts as in flight exactly while one prefetch of it runs.     *)
InflightExact ==
  LET Prefetches(s) == {t \in Tasks : task[t].prefetch /\ task[t].symbol = s
                                       /\ task[t].stage \notin {"idle", "entering"}}
  IN \A s \in Symbols : Cardinality(Prefetches(s)) = IF s \in inflight THEN 1 ELSE 0

(* Whatever the process does, nobody keeps it locked.                      *)
ProcessFreed == \A t \in Tasks : guard = t ~> guard # t
=============================================================================
