---------------------------- MODULE LinkedPrewarm ----------------------------
(***************************************************************************)
(* The files an open document loads, attaches, includes or imports are     *)
(* parsed in the background and put into the installed index before anyone *)
(* asks for them (crates/sage-ls/src/linked_document_prewarm.rs).          *)
(*                                                                         *)
(* Every notification about a document starts a prewarm of its own.  It    *)
(* sleeps, waits for parse_gate, reads the files, and only then waits for  *)
(* the index_work_gate of IndexJobs, to change the installed index in      *)
(* place.  A newer notification about the document supersedes it.          *)
(***************************************************************************)
EXTENDS IndexJobs

CONSTANTS
  Documents,   \* open documents that link to files of Paths
  Warmers,     \* prewarms that may be under way at once
  MaxSchedules \* bound: notifications about documents

ASSUME WarmerAssumption ==
  /\ Warmers \cap (Nat \cup Handlers \cup {NoTask}) = {}
  /\ MaxSchedules \in Nat

VARIABLES
  next_revision, \* LinkedDocumentPrewarmer.next_generation
  revisions,     \* the latest revision of each document, 0 once it is cancelled
  warmer,        \* what each prewarm is doing, for which document and revision
  parser,        \* the owner of parse_gate
  parse_queue,   \* the prewarms waiting for it
  warmed         \* history: the revision whose links were last put into the index

prewarm == <<next_revision, revisions, warmer, parser, parse_queue, warmed>>
prewarmVars == <<vars, prewarm>>

WarmerStages == {"idle", "sleeping", "waiting", "discovering", "parsing", "queued", "preloading"}
Idle == [stage |-> "idle", doc |-> NoTask, revision |-> 0, todo |-> {}, parsed |-> NoFiles]

PrewarmInit ==
  /\ Init
  /\ next_revision = 0 /\ revisions = [d \in Documents |-> 0]
  /\ warmer = [w \in Warmers |-> Idle]
  /\ parser = NoTask /\ parse_queue = <<>>
  /\ warmed = [d \in Documents |-> 0]

\* Mutant: a prewarm is superseded by a closed document only.
MutSuperseded(w) == shutting_down \/ revisions[warmer[w].doc] = 0

\* Every stage ends here when the server shuts down or the document has moved on.
Superseded(w) == shutting_down \/ revisions[warmer[w].doc] # warmer[w].revision

Enters(w, stage) == warmer' = [warmer EXCEPT ![w].stage = stage]

\* Mutant: a task that returns early keeps parse_gate.
MutEnds(w) ==
  /\ warmer' = [warmer EXCEPT ![w] = Idle]
  /\ UNCHANGED parser

\* The task returns: its guard of parse_gate goes with it.
Ends(w) ==
  /\ warmer' = [warmer EXCEPT ![w] = Idle]
  /\ parser' = IF parser = w THEN NoTask ELSE parser

-----------------------------------------------------------------------------
(* didOpen, didChange and didSave schedule; didClose and shutdown cancel.  *)

Schedule(w, d) ==
  /\ warmer[w] = Idle /\ next_revision < MaxSchedules
  /\ next_revision' = next_revision + 1
  /\ revisions' = [revisions EXCEPT ![d] = next_revision']
  /\ warmer' = [warmer EXCEPT ![w] = [Idle EXCEPT !.stage = "sleeping", !.doc = d,
                                                  !.revision = next_revision']]
  /\ UNCHANGED <<vars, parser, parse_queue, warmed>>

Cancel(d) ==
  /\ revisions[d] # 0
  /\ revisions' = [revisions EXCEPT ![d] = 0]
  /\ UNCHANGED <<vars, next_revision, warmer, parser, parse_queue, warmed>>

\* A step of the index jobs; the shutdown cancels every revision.
IndexStep ==
  /\ Next
  /\ revisions' = IF shutting_down' # shutting_down THEN [d \in Documents |-> 0] ELSE revisions
  /\ UNCHANGED <<next_revision, warmer, parser, parse_queue, warmed>>

-----------------------------------------------------------------------------
(* One prewarm.                                                            *)

\* The debouncing sleep is over.
Wake(w) ==
  /\ warmer[w].stage = "sleeping"
  /\ \/ Superseded(w) /\ Ends(w) /\ UNCHANGED parse_queue
     \/ /\ ~Superseded(w)
        /\ Enters(w, "waiting")
        /\ parse_queue' = Append(parse_queue, w)
        /\ UNCHANGED parser
  /\ UNCHANGED <<vars, next_revision, revisions, warmed>>

EnterParser(w) ==
  /\ warmer[w].stage = "waiting" /\ parser = NoTask /\ Head(parse_queue) = w
  /\ parse_queue' = Tail(parse_queue)
  /\ \/ Superseded(w) /\ Ends(w)
     \/ ~Superseded(w) /\ Enters(w, "discovering") /\ parser' = w
  /\ UNCHANGED <<vars, next_revision, revisions, warmed>>

\* The worker has found the files the document's text links to.  Superseded, without links,
\* or after a panic of the worker the task ends.
Discover(w) ==
  /\ warmer[w].stage = "discovering"
  /\ \/ Ends(w)
     \/ \E targets \in (SUBSET Paths) \ {{}} :
          /\ ~Superseded(w)
          /\ warmer' = [warmer EXCEPT ![w].stage = "parsing", ![w].todo = targets]
          /\ UNCHANGED parser
  /\ UNCHANGED <<vars, next_revision, revisions, parse_queue, warmed>>

\* parse_linked_files reads one file after the other and leaves out what it cannot read.
ParseLinked(w, p) ==
  /\ warmer[w].stage = "parsing" /\ p \in warmer[w].todo
  /\ warmer' = [warmer EXCEPT ![w].todo = @ \ {p},
                              ![w].parsed[p] = IF disk[p] \in Sources THEN disk[p] ELSE @]
  /\ UNCHANGED <<vars, next_revision, revisions, parser, parse_queue, warmed>>

\* Superseded, without a file, or after a panic of the worker the task ends; else it waits
\* for the index jobs.
WaitForIndex(w) ==
  /\ warmer[w].stage = "parsing" /\ warmer[w].todo = {}
  /\ \/ Ends(w) /\ UNCHANGED vars
     \/ /\ ~Superseded(w) /\ warmer[w].parsed # NoFiles
        /\ Enters(w, "queued")
        /\ queue' = Append(queue, w)
        /\ UNCHANGED <<env, status, shutting_down, pc, args, gate, base, work, installed,
                       rows, parser>>
  /\ UNCHANGED <<next_revision, revisions, parse_queue, warmed>>

\* Mutant: the index is changed without the gate.
MutOwnsIndexWork(w) == queue # <<>> /\ Head(queue) = w
OwnsIndexWork(w) == gate = NoTask /\ queue # <<>> /\ Head(queue) = w

TakeIndexGate(w) ==
  /\ warmer[w].stage = "queued" /\ OwnsIndexWork(w)
  /\ queue' = Tail(queue)
  /\ \/ Superseded(w) /\ Ends(w) /\ UNCHANGED gate
     \/ ~Superseded(w) /\ Enters(w, "preloading") /\ gate' = w /\ UNCHANGED parser
  /\ UNCHANGED <<env, status, shutting_down, pc, args, base, work, installed, rows,
                 next_revision, revisions, parse_queue, warmed>>

\* preload_indexed_files overwrites the files in memory, at the same generation.
Preload(w) ==
  LET loaded == {p \in Paths \ Excluded : warmer[w].parsed[p] # Absent}
  IN /\ warmer[w].stage = "preloading"
     /\ store' = [store EXCEPT !.files = [p \in Paths |->
                    IF p \in loaded THEN warmer[w].parsed[p] ELSE store.files[p]]]
     /\ late' = IF shutting_down THEN late + 1 ELSE late
     /\ warmed' = [warmed EXCEPT ![warmer[w].doc] = warmer[w].revision]
     /\ gate' = NoTask
     /\ Ends(w)
     /\ UNCHANGED <<env, status, shutting_down, pc, args, queue, base, work, generation,
                    pending_refresh, basis, synced, rows, next_revision, revisions, parse_queue>>

WarmerStep(w) ==
  \/ Wake(w) \/ EnterParser(w) \/ Discover(w)
  \/ \E p \in Paths : ParseLinked(w, p)
  \/ WaitForIndex(w) \/ TakeIndexGate(w) \/ Preload(w)

PrewarmNext ==
  \/ IndexStep
  \/ \E w \in Warmers, d \in Documents : Schedule(w, d)
  \/ \E d \in Documents : Cancel(d)
  \/ \E w \in Warmers : WarmerStep(w)

PrewarmSpec == PrewarmInit /\ [][PrewarmNext]_prewarmVars

\* tokio polls what can run and detached workers end; the tasks of IndexJobs do the same.
PrewarmFairSpec ==
  /\ PrewarmSpec
  /\ Fairness
  /\ \A w \in Warmers : WF_prewarmVars(WarmerStep(w))

-----------------------------------------------------------------------------
(* Every prewarm variable keeps its type, parse_gate is held by the one    *)
(* prewarm that is past it, and whoever preloads owns the gate of the      *)
(* index jobs.                                                             *)
PrewarmTypeOK ==
  /\ next_revision \in Nat /\ revisions \in [Documents -> Nat] /\ warmed \in [Documents -> Nat]
  /\ warmer \in [Warmers -> [stage : WarmerStages, doc : Documents \cup {NoTask},
                             revision : Nat, todo : SUBSET Paths, parsed : [Paths -> Held]]]
  /\ parse_queue \in Seq(Warmers)
  /\ \A w \in Warmers :
       /\ parser = w <=> warmer[w].stage \in {"discovering", "parsing", "queued", "preloading"}
       /\ warmer[w].stage = "preloading" => gate = w

(* An index job that has copied the installed index puts its copy back     *)
(* over exactly what it copied: no preload lands in between and is lost,   *)
(* although a preload leaves the generation that installs are checked by.  *)
NoPreloadLost ==
  [][store' # store => \A t \in Tasks : pc[t] \in HoldsGate => pc'[t] = "finishing"]_prewarmVars

(* "Per-document revisions coalesce rapid edits": links of an older        *)
(* revision never follow those of a newer one into the index.              *)
LatestRevisionWins ==
  [][\A d \in Documents : warmed'[d] >= warmed[d]]_prewarmVars

(* The shutdown stops prewarms as it stops index jobs: one install or      *)
(* preload that was past its check may follow, nothing else.               *)
PrewarmQuiets == QuietAfterShutdown

(* Neither a superseded prewarm nor one the server's end has overtaken     *)
(* reaches the index, wherever it waited when that happened.               *)
NoLatePreload == LatestRevisionWins /\ PrewarmQuiets

(* Two gates are waited for while one is held, and still every prewarm     *)
(* ends and every index job drains.                                        *)
WarmersEnd == \A w \in Warmers : warmer[w].stage # "idle" ~> warmer[w].stage = "idle"
BothDrain == WarmersEnd /\ JobsDrain
=============================================================================
