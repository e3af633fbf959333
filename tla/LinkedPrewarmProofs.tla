------------------------- MODULE LinkedPrewarmProofs -------------------------
(***************************************************************************)
(* Theorems about LinkedPrewarm for any number of prewarms, documents and  *)
(* notifications beside any index jobs: the two gates have one owner each, *)
(* no preload is lost between an index job's copy and its install, and no  *)
(* superseded prewarm reaches the index.                                   *)
(*                                                                         *)
(* The index jobs' gate and queue now serve prewarms too, so TypeOK and    *)
(* Exclusive of IndexJobsProofs do not carry over: the owner of the gate   *)
(* is a task, a prewarm or nobody.                                         *)
(***************************************************************************)
EXTENDS LinkedPrewarm, IndexJobsProofs

Stages == JobStages \cup RefreshStages

LEMMA WarmersAreNotTasks ==
  /\ Warmers \cap Tasks = {} /\ NoTask \notin Warmers /\ NoTask \notin Tasks
  /\ Tasks = Jobs \cup Handlers
BY JobsAreNotHandlers, WarmerAssumption, BoundsAssumption, TaskAssumption DEF Tasks, Jobs

-----------------------------------------------------------------------------
(* What a step of the index jobs does to the gate, the index and the rows. *)

Passes(t, stage) ==
  /\ pc[t] \notin HoldsGate /\ stage \notin HoldsGate
  /\ UNCHANGED <<gate, store, rows, late>>
TakesGate(t, stage) ==
  /\ gate = NoTask /\ gate' = t /\ ~shutting_down /\ stage \in HoldsGate
  /\ UNCHANGED <<store, rows, late>>
KeepsGate(t, stage) ==
  /\ pc[t] \in HoldsGate /\ stage \in HoldsGate
  /\ UNCHANGED <<gate, store, late>>
FreesGate(t, stage) ==
  /\ stage \notin HoldsGate /\ UNCHANGED <<store, rows, late>>
  /\ \/ pc[t] \in HoldsGate /\ gate' = NoTask
     \/ gate' = IF gate = t THEN NoTask ELSE gate
Installs(t, stage) ==
  /\ pc[t] = "installing" /\ stage = "finishing"
  /\ gate' = (IF gate = t THEN NoTask ELSE gate) /\ rows' = rows
  /\ late' = IF shutting_down THEN late + 1 ELSE late
MovesTo(t, stage) ==
  Passes(t, stage) \/ TakesGate(t, stage) \/ KeepsGate(t, stage) \/ FreesGate(t, stage) \/ Installs(t, stage)

TaskStep(t) ==
  \/ t \in Jobs /\ JobStep(t)
  \/ t \in Handlers /\ RefreshStep(t)
  \/ WorkerStep(t) \/ WorkerFault(t) \/ ReturnStep(t)

LEMMA TaskStepMoves ==
  ASSUME NEW t \in Tasks, TaskStep(t)
  PROVE  /\ shutting_down' = shutting_down
         /\ \E stage \in Stages : Goto(t, stage) /\ MovesTo(t, stage)
<1> DEFINE Goal == /\ shutting_down' = shutting_down
                   /\ \E stage \in Stages : Goto(t, stage) /\ MovesTo(t, stage)
<1>1. /\ {"queued", "ended", "finishing", "idle", "lost"} \subseteq Stages
      /\ {"queued", "ended", "finishing", "idle", "lost"} \cap HoldsGate = {}
      /\ {"spawned", "received"} \cap HoldsGate = {}
      /\ {"reading", "persisting", "rereading", "repersisting"} \subseteq HoldsGate
      /\ {"returned", "failed", "installing"} \subseteq HoldsGate
      /\ HoldsGate \subseteq Stages
  BY DEF Stages, JobStages, RefreshStages, HoldsGate, WorkerStages
<1>2. ASSUME NEW stage \in Stages, Goto(t, stage), MovesTo(t, stage), shutting_down' = shutting_down
      PROVE  Goal
  BY <1>2
<1> HIDE DEF Goal
<1>3. ASSUME NEW stage, Goto(t, stage), stage \in {"reading", "persisting"}, Acquire(t)
      PROVE  Goal
  <2>1. stage \in Stages /\ stage \in HoldsGate
    BY <1>1, <1>3
  <2>2. TakesGate(t, stage) /\ shutting_down' = shutting_down
    BY <2>1, <1>3 DEF Acquire, AtGate, TakesGate, installed
  <2> QED BY <1>2, <1>3, <2>1, <2>2 DEF MovesTo
<1>4. ASSUME t \in Jobs, JobStep(t) PROVE Goal
  <2>1. CASE CountJob(t)
    <3>1. Passes(t, "queued") /\ Goto(t, "queued") /\ shutting_down' = shutting_down
      BY <1>1, <2>1 DEF CountJob, Passes, installed
    <3> QED BY <1>1, <1>2, <3>1 DEF MovesTo
  <2>2. CASE EndAtShutdown(t) \/ AbandonJob(t) \/ FinishJob(t)
    <3>1. Passes(t, "ended") /\ Goto(t, "ended") /\ shutting_down' = shutting_down
      BY <1>1, <2>2 DEF EndAtShutdown, AbandonJob, FinishJob, AtGate, Passes, installed, lock
    <3> QED BY <1>1, <1>2, <3>1 DEF MovesTo
  <2>3. CASE StartRebuild(t) \/ StartReconcile(t)
    BY <1>3, <2>3 DEF StartRebuild, StartReconcile
  <2> QED BY <1>4, <2>1, <2>2, <2>3 DEF JobStep
<1>5. ASSUME t \in Handlers, RefreshStep(t) PROVE Goal
  <2>1. CASE MarkPathsPendingRefresh(t)
    <3>1. Passes(t, "queued") /\ Goto(t, "queued") /\ shutting_down' = shutting_down
      BY <1>1, <2>1 DEF MarkPathsPendingRefresh, Passes
    <3> QED BY <1>1, <1>2, <3>1 DEF MovesTo
  <2>2. CASE AbandonRefresh(t) \/ FinishRefresh(t)
    <3>1. Passes(t, "idle") /\ Goto(t, "idle") /\ shutting_down' = shutting_down
      BY <1>1, <2>2 DEF AbandonRefresh, FinishRefresh, AtGate, Passes, installed, lock
    <3> QED BY <1>1, <1>2, <3>1 DEF MovesTo
  <2>3. CASE StartRefresh(t)
    <3>1. Acquire(t) /\ (Goto(t, "reading") \/ Goto(t, "persisting"))
      BY <2>3 DEF StartRefresh
    <3> QED BY <1>3, <3>1
  <2> QED BY <1>5, <2>1, <2>2, <2>3 DEF RefreshStep
<1>6. ASSUME WorkerStep(t) PROVE Goal
  <2>1. /\ UNCHANGED <<gate, store, late>> /\ shutting_down' = shutting_down
        /\ pc[t] \in HoldsGate
    BY <1>1, <1>6 DEF WorkerStep, ReadPath, PersistPaths, FallBack, GiveUpPersisting,
                      PersistFails, lock, installed
  <2>2. \E stage \in HoldsGate : Goto(t, stage)
    <3>1. ASSUME NEW p \in Paths, ReadPath(t, p) PROVE \E stage \in HoldsGate : Goto(t, stage)
      BY <1>1, <2>1, <3>1 DEF ReadPath
    <3>2. PersistPaths(t) \/ GiveUpPersisting(t) => Goto(t, "returned")
      BY DEF PersistPaths, GiveUpPersisting, Return
    <3>3. FallBack(t) => Goto(t, "repersisting") \/ Goto(t, "rereading")
      BY DEF FallBack
    <3> QED BY <1>1, <1>6, <3>1, <3>2, <3>3 DEF WorkerStep
  <2> QED BY <1>1, <1>2, <2>1, <2>2 DEF MovesTo, KeepsGate
<1>7. ASSUME WorkerFault(t) PROVE Goal
  <2>1. pc[t] \in HoldsGate
    BY <1>1, <1>7 DEF WorkerFault, WorkerErrs, WorkerPanics, HoldsGate
  <2>2. CASE WorkerErrs(t)
    <3>1. KeepsGate(t, "failed") /\ Goto(t, "failed") /\ shutting_down' = shutting_down
      BY <1>1, <2>1, <2>2 DEF WorkerErrs, KeepsGate, lock, installed
    <3> QED BY <1>1, <1>2, <3>1 DEF MovesTo
  <2>3. CASE WorkerPanics(t)
    <3>1. FreesGate(t, "lost") /\ Goto(t, "lost") /\ shutting_down' = shutting_down
      BY <1>1, <2>1, <2>3 DEF WorkerPanics, FreesGate, installed
    <3> QED BY <1>1, <1>2, <3>1 DEF MovesTo
  <2> QED BY <1>7, <2>2, <2>3 DEF WorkerFault
<1>8. ASSUME ReturnStep(t) PROVE Goal
  <2>1. CASE GoInstall(t)
    <3>1. KeepsGate(t, "installing") /\ Goto(t, "installing") /\ shutting_down' = shutting_down
      BY <1>1, <2>1 DEF GoInstall, KeepsGate, lock, installed
    <3> QED BY <1>1, <1>2, <3>1 DEF MovesTo
  <2>2. CASE DropResult(t) \/ RejectResult(t)
    <3>1. FreesGate(t, "finishing") /\ Goto(t, "finishing") /\ shutting_down' = shutting_down
      BY <1>1, <2>2 DEF DropResult, RejectResult, Release, FreesGate, installed
    <3> QED BY <1>1, <1>2, <3>1 DEF MovesTo
  <2>3. CASE Install(t)
    <3>1. Installs(t, "finishing") /\ Goto(t, "finishing") /\ shutting_down' = shutting_down
      BY <1>1, <2>3 DEF Install, Release, Installs
    <3> QED BY <1>1, <1>2, <3>1 DEF MovesTo
  <2> QED BY <1>8, <2>1, <2>2, <2>3 DEF ReturnStep
<1>9. Goal
  BY <1>4, <1>5, <1>6, <1>7, <1>8 DEF TaskStep
<1> QED BY <1>9 DEF Goal

-----------------------------------------------------------------------------
(* The inductive invariant. *)

Warmer == [stage : WarmerStages, doc : Documents \cup {NoTask}, revision : Nat,
           todo : SUBSET Paths, parsed : [Paths -> Held]]
Parses == {"discovering", "parsing", "queued", "preloading"}

\* One owner of the gate, a task or a prewarm.
OneOwner ==
  /\ pc \in [Tasks -> Stages] /\ gate \in Tasks \cup Warmers \cup {NoTask}
  /\ \A t \in Tasks : pc[t] \in HoldsGate => gate = t
  /\ \A w \in Warmers : warmer[w].stage = "preloading" <=> gate = w

\* The head of parse_queue is read only while somebody waits.
InParseQueue ==
  \A w \in Warmers : warmer[w].stage = "waiting" =>
    \E i \in 1..Len(parse_queue) : parse_queue[i] = w

\* A document's revisions grow: what was put into the index is not newer than the latest
\* revision, nor than that of the prewarm which is past its last check.
RevisionsGrow ==
  /\ \A d \in Documents : /\ revisions[d] <= next_revision /\ warmed[d] <= next_revision
                          /\ revisions[d] # 0 => warmed[d] <= revisions[d]
  /\ \A w \in Warmers : warmer[w].stage # "idle" =>
       /\ warmer[w].doc \in Documents
       /\ 0 < warmer[w].revision /\ warmer[w].revision <= next_revision
       /\ revisions[warmer[w].doc] # 0 => warmer[w].revision <= revisions[warmer[w].doc]
       /\ warmer[w].stage = "preloading" => warmed[warmer[w].doc] <= warmer[w].revision

PrewarmInv == PrewarmTypeOK /\ OneOwner /\ LateOnce /\ InParseQueue /\ RevisionsGrow

LEMMA InitPrewarmInv == PrewarmInit => PrewarmInv
<1> SUFFICES ASSUME PrewarmInit PROVE PrewarmInv
  OBVIOUS
<1>1. Idle \in Warmer /\ Idle.stage = "idle"
  BY EmptyTypes DEF Idle, Warmer, WarmerStages
<1>2. /\ next_revision = 0 /\ revisions = [d \in Documents |-> 0]
      /\ warmer = [w \in Warmers |-> Idle] /\ parser = NoTask /\ parse_queue = <<>>
      /\ warmed = [d \in Documents |-> 0]
  BY DEF PrewarmInit
<1>3. PrewarmTypeOK
  BY <1>1, <1>2, WarmersAreNotTasks DEF PrewarmTypeOK, Warmer
<1>4. /\ gate = NoTask /\ late = 0
      /\ pc = [t \in Tasks |-> IF t \in Handlers THEN "idle"
                               ELSE IF t = 1 THEN "spawned" ELSE "unborn"]
  BY DEF PrewarmInit, Init
<1>5. OneOwner /\ LateOnce
  BY <1>1, <1>2, <1>4, WarmersAreNotTasks
     DEF OneOwner, LateOnce, Stages, JobStages, RefreshStages, HoldsGate, WorkerStages
<1>6. InParseQueue /\ RevisionsGrow
  BY <1>1, <1>2 DEF InParseQueue, RevisionsGrow
<1> QED BY <1>3, <1>5, <1>6 DEF PrewarmInv

-----------------------------------------------------------------------------
(* Steps of the index jobs. *)

LEMMA EnvironmentMoves ==
  ASSUME OneOwner, Environment
  PROVE  /\ UNCHANGED <<gate, store, rows, late>> /\ (shutting_down => shutting_down')
         /\ pc' \in [Tasks -> Stages]
         /\ \A t \in Tasks : pc'[t] = pc[t] \/ pc'[t] \notin HoldsGate
<1> USE DEF lock, installed, status
<1>1. ASSUME NEW t, NEW stage \in {"received", "spawned"}, Goto(t, stage)
      PROVE  /\ pc' \in [Tasks -> Stages]
             /\ \A other \in Tasks : pc'[other] = pc[other] \/ pc'[other] \notin HoldsGate
  <2>1. stage \in Stages /\ stage \notin HoldsGate
    BY DEF Stages, JobStages, RefreshStages, HoldsGate, WorkerStages
  <2> QED BY <1>1, <2>1 DEF OneOwner, Goto
<1>2. ASSUME UNCHANGED <<pc, gate, store, rows, late>>, shutting_down => shutting_down'
      PROVE  /\ pc' \in [Tasks -> Stages]
             /\ \A t \in Tasks : pc'[t] = pc[t] \/ pc'[t] \notin HoldsGate
  BY <1>2 DEF OneOwner
<1>6. Shutdown => UNCHANGED <<pc, gate, store, rows, late>> /\ (shutting_down => shutting_down')
  BY DEF Shutdown
<1>7. ASSUME NEW p \in Paths, NEW c \in Contents, Edit(p, c)
      PROVE  UNCHANGED <<pc, gate, store, rows, late>> /\ (shutting_down => shutting_down')
  BY <1>7 DEF Edit
<1>3. CASE RebuildIndex
  BY <1>1, <1>3 DEF RebuildIndex
<1>4. ASSUME NEW h \in Handlers, NEW n \in 1..Len(events), ChangeWatchedFiles(h, n)
      PROVE  /\ Goto(h, "received") /\ UNCHANGED <<gate, store, rows, late, shutting_down>>
  BY <1>4 DEF ChangeWatchedFiles
<1>5. ASSUME NEW h \in Handlers, NEW p \in Paths, Save(h, p)
      PROVE  /\ Goto(h, "received") /\ UNCHANGED <<gate, store, rows, late, shutting_down>>
  BY <1>5 DEF Save
<1> QED BY <1>1, <1>2, <1>3, <1>4, <1>5, <1>6, <1>7 DEF Environment, RebuildIndex

\* What one step of the index jobs may do to the gate's owner, the index and the rows.
IndexMoves ==
  /\ gate' \in {gate, NoTask} \/ (gate = NoTask /\ gate' \in Tasks /\ ~shutting_down)
  /\ gate' # gate => gate \notin Warmers
  /\ rows' # rows => gate \in Tasks
  /\ store' # store => gate \in Tasks /\ pc'[gate] = "finishing"
  /\ shutting_down => shutting_down'

LEMMA TaskStepOwner ==
  ASSUME OneOwner, LateOnce, NEW t \in Tasks, TaskStep(t),
         \A w \in Warmers : warmer'[w].stage = warmer[w].stage
  PROVE  OneOwner' /\ LateOnce' /\ IndexMoves
<1> USE WarmersAreNotTasks
<1>1. shutting_down' = shutting_down
  BY TaskStepMoves
<1>2. PICK stage \in Stages : Goto(t, stage) /\ MovesTo(t, stage)
  BY TaskStepMoves
<1>3. /\ pc' \in [Tasks -> Stages] /\ pc'[t] = stage
      /\ \A other \in Tasks \ {t} : pc'[other] = pc[other]
  BY <1>2 DEF OneOwner, Goto
<1>4. "installing" \in HoldsGate /\ "finishing" \notin HoldsGate
  BY DEF HoldsGate, WorkerStages
<1>5. CASE Passes(t, stage)
  BY <1>1, <1>3, <1>5 DEF OneOwner, LateOnce, IndexMoves, Passes
<1>6. CASE TakesGate(t, stage)
  BY <1>1, <1>3, <1>6 DEF OneOwner, LateOnce, IndexMoves, TakesGate
<1>7. CASE KeepsGate(t, stage)
  BY <1>1, <1>3, <1>7 DEF OneOwner, LateOnce, IndexMoves, KeepsGate
<1>8. CASE FreesGate(t, stage)
  BY <1>1, <1>3, <1>8 DEF OneOwner, LateOnce, IndexMoves, FreesGate
<1>9. CASE Installs(t, stage)
  <2>1. gate = t /\ gate' = NoTask /\ late = 0
    BY <1>4, <1>9 DEF OneOwner, LateOnce, Installs
  <2> QED BY <1>1, <1>3, <1>4, <1>9, <2>1 DEF OneOwner, LateOnce, IndexMoves, Installs
<1> QED BY <1>2, <1>5, <1>6, <1>7, <1>8, <1>9 DEF MovesTo

LEMMA NextOwner ==
  ASSUME OneOwner, LateOnce, Next, \A w \in Warmers : warmer'[w].stage = warmer[w].stage
  PROVE  OneOwner' /\ LateOnce' /\ IndexMoves
<1>1. CASE Environment
  BY <1>1, EnvironmentMoves DEF OneOwner, LateOnce, IndexMoves
<1>2. CASE System
  <2>1. \E t \in Tasks : TaskStep(t)
    BY <1>2, WarmersAreNotTasks DEF System, TaskStep
  <2> QED BY <2>1, TaskStepOwner
<1> QED BY <1>1, <1>2 DEF Next

LEMMA IndexStepInv ==
  ASSUME PrewarmInv, IndexStep
  PROVE  PrewarmInv'
<1> USE DEF PrewarmInv
<1>1. UNCHANGED <<next_revision, warmer, parser, parse_queue, warmed>>
  BY DEF IndexStep
<1>2. OneOwner' /\ LateOnce' /\ IndexMoves
  BY <1>1, NextOwner DEF IndexStep
<1>3. revisions' = revisions \/ revisions' = [d \in Documents |-> 0]
  BY DEF IndexStep
<1>4. PrewarmTypeOK'
  BY <1>1, <1>2, <1>3 DEF PrewarmTypeOK, OneOwner
<1>5. InParseQueue'
  BY <1>1 DEF InParseQueue
<1>6. RevisionsGrow'
  BY <1>1, <1>3 DEF RevisionsGrow, PrewarmTypeOK
<1> QED BY <1>2, <1>4, <1>5, <1>6

-----------------------------------------------------------------------------
(* Steps of the prewarms. *)

LEMMA ScheduleInv ==
  ASSUME PrewarmInv, NEW w \in Warmers, NEW d \in Documents, Schedule(w, d)
  PROVE  PrewarmInv'
<1> USE DEF PrewarmInv
<1> DEFINE asleep == [Idle EXCEPT !.stage = "sleeping"]
           about  == [asleep EXCEPT !.doc = d]
           first  == [about EXCEPT !.revision = next_revision + 1]
<1>1. next_revision \in Nat
  BY DEF PrewarmTypeOK
<1>2. Idle \in Warmer
  BY EmptyTypes DEF Idle, Warmer, WarmerStages
<1>3. asleep \in Warmer /\ asleep.stage = "sleeping"
  BY <1>2 DEF Warmer, WarmerStages
<1>4. warmer' = [warmer EXCEPT ![w] = first]
  BY DEF Schedule
<1> HIDE DEF asleep
<1>5. about \in Warmer /\ about.stage = "sleeping" /\ about.doc = d
  BY <1>3 DEF Warmer
<1> HIDE DEF about
<1>6. first \in Warmer /\ first.stage = "sleeping" /\ first.doc = d /\ first.revision = next_revision + 1
  BY <1>1, <1>5 DEF Warmer
<1>7. /\ warmer[w].stage = "idle" /\ next_revision' = next_revision + 1
      /\ revisions' = [revisions EXCEPT ![d] = next_revision + 1]
      /\ UNCHANGED <<parser, parse_queue, warmed, pc, gate, late, shutting_down>>
  BY DEF Schedule, Idle, vars, lock, installed
<1> HIDE DEF first
<1>8. warmer \in [Warmers -> Warmer] /\ revisions \in [Documents -> Nat] /\ warmed \in [Documents -> Nat]
  BY DEF PrewarmTypeOK, Warmer
<1>9. /\ warmer' \in [Warmers -> Warmer] /\ warmer'[w] = first
      /\ \A v \in Warmers \ {w} : warmer'[v] = warmer[v]
  BY <1>4, <1>8, <1>6
<1>10. PrewarmTypeOK'
  <2>1. next_revision' \in Nat /\ revisions' \in [Documents -> Nat] /\ warmed' \in [Documents -> Nat]
    BY <1>1, <1>7, <1>8
  <2>2. parse_queue' \in Seq(Warmers)
    BY <1>7 DEF PrewarmTypeOK
  <2>3. \A v \in Warmers :
          /\ parser' = v <=> warmer'[v].stage \in Parses
          /\ warmer'[v].stage = "preloading" => gate' = v
    BY <1>6, <1>7, <1>9 DEF PrewarmTypeOK, Parses
  <2> QED BY <1>9, <2>1, <2>2, <2>3 DEF PrewarmTypeOK, Warmer, Parses
<1>11. OneOwner' /\ LateOnce'
  BY <1>6, <1>7, <1>9 DEF OneOwner, LateOnce
<1>12. InParseQueue'
  BY <1>6, <1>7, <1>9 DEF InParseQueue
<1>13. RevisionsGrow'
  BY <1>1, <1>6, <1>7, <1>8, <1>9 DEF RevisionsGrow, Warmer
<1> QED BY <1>10, <1>11, <1>12, <1>13

LEMMA CancelInv ==
  ASSUME PrewarmInv, NEW d \in Documents, Cancel(d)
  PROVE  PrewarmInv'
<1> USE DEF PrewarmInv
<1>1. /\ revisions' = [revisions EXCEPT ![d] = 0]
      /\ UNCHANGED <<next_revision, warmer, parser, parse_queue, warmed, pc, gate, late,
                     shutting_down>>
  BY DEF Cancel, vars, lock, installed
<1>2. PrewarmTypeOK'
  BY <1>1 DEF PrewarmTypeOK
<1>3. OneOwner' /\ LateOnce' /\ InParseQueue'
  BY <1>1 DEF OneOwner, LateOnce, InParseQueue
<1>4. RevisionsGrow'
  BY <1>1 DEF RevisionsGrow, PrewarmTypeOK
<1> QED BY <1>2, <1>3, <1>4

\* A prewarm gets to another stage, about the same revision of its document.
Moved(w, stage) ==
  /\ warmer' \in [Warmers -> Warmer] /\ warmer'[w].stage = stage
  /\ stage # "idle" => warmer'[w].doc = warmer[w].doc /\ warmer'[w].revision = warmer[w].revision
  /\ \A v \in Warmers \ {w} : warmer'[v] = warmer[v]

LEMMA WarmerType == PrewarmTypeOK => warmer \in [Warmers -> Warmer]
BY DEF PrewarmTypeOK, Warmer

LEMMA EntersMoves ==
  ASSUME PrewarmTypeOK, NEW w \in Warmers, NEW stage \in WarmerStages, Enters(w, stage)
  PROVE  Moved(w, stage)
<1> DEFINE r == [warmer[w] EXCEPT !.stage = stage]
<1>1. warmer' = [warmer EXCEPT ![w] = r]
  BY DEF Enters
<1>2. /\ r \in Warmer /\ r.stage = stage /\ r.doc = warmer[w].doc
      /\ r.revision = warmer[w].revision
  BY WarmerType DEF Warmer
<1> HIDE DEF r
<1> QED BY <1>1, <1>2, WarmerType DEF Moved

LEMMA EndsMoves ==
  ASSUME PrewarmTypeOK, NEW w \in Warmers, Ends(w)
  PROVE  Moved(w, "idle") /\ parser' = IF parser = w THEN NoTask ELSE parser
<1>1. Idle \in Warmer /\ Idle.stage = "idle"
  BY EmptyTypes DEF Idle, Warmer, WarmerStages
<1>2. warmer' = [warmer EXCEPT ![w] = Idle] /\ parser' = (IF parser = w THEN NoTask ELSE parser)
  BY DEF Ends
<1> QED BY <1>1, <1>2, WarmerType DEF Moved

\* The owners of the two gates after a prewarm has got to a stage.
ParserAfter(w, stage) ==
  IF stage \in Parses THEN parser' = w /\ parser \in {w, NoTask}
  ELSE parser' = IF parser = w THEN NoTask ELSE parser
GateAfter(w, stage) ==
  IF stage = "preloading"
  THEN /\ gate' = w /\ gate = NoTask /\ ~shutting_down
       /\ revisions[warmer[w].doc] = warmer[w].revision
  ELSE gate' = IF gate = w THEN NoTask ELSE gate

LEMMA MovedInv ==
  ASSUME PrewarmInv, NEW w \in Warmers, NEW stage, Moved(w, stage), warmer[w].stage # "idle",
         UNCHANGED <<pc, shutting_down, next_revision, revisions>>,
         ParserAfter(w, stage), GateAfter(w, stage),
         parse_queue' \in Seq(Warmers), InParseQueue', late' \in {0, 1},
         late' # late => shutting_down /\ gate' = NoTask,
         \/ warmed' = warmed
         \/ /\ warmer[w].stage = "preloading" /\ stage = "idle"
            /\ warmed' = [warmed EXCEPT ![warmer[w].doc] = warmer[w].revision]
  PROVE  PrewarmInv'
<1> USE WarmersAreNotTasks DEF PrewarmInv
<1>1. /\ next_revision \in Nat /\ revisions \in [Documents -> Nat]
      /\ warmed \in [Documents -> Nat] /\ warmer \in [Warmers -> Warmer]
  BY WarmerType DEF PrewarmTypeOK
<1>2. OneOwner'
  <2>1. pc' \in [Tasks -> Stages] /\ gate' \in Tasks \cup Warmers \cup {NoTask}
    BY DEF OneOwner, GateAfter
  <2>2. \A t \in Tasks : pc'[t] \in HoldsGate => gate' = t
    BY DEF OneOwner, GateAfter
  <2>3. \A v \in Warmers : warmer'[v].stage = "preloading" <=> gate' = v
    BY DEF OneOwner, GateAfter, Moved
  <2> QED BY <2>1, <2>2, <2>3 DEF OneOwner
<1>3. LateOnce'
  BY DEF LateOnce, GateAfter
<1>4. PrewarmTypeOK'
  <2>1. warmed' \in [Documents -> Nat]
    BY <1>1 DEF Warmer
  <2>2. \A v \in Warmers : parser' = v <=> warmer'[v].stage \in Parses
    <3>1. \A v \in Warmers : parser = v <=> warmer[v].stage \in Parses
      BY DEF PrewarmTypeOK, Parses
    <3>2. parser' = w <=> stage \in Parses
      BY DEF ParserAfter
    <3>3. ASSUME NEW v \in Warmers \ {w} PROVE parser' = v <=> warmer'[v].stage \in Parses
      BY <3>1 DEF ParserAfter, Moved
    <3> QED BY <3>2, <3>3 DEF Moved
  <2>3. warmer' \in [Warmers -> Warmer]
    BY DEF Moved
  <2> QED BY <1>1, <1>2, <2>1, <2>2, <2>3 DEF PrewarmTypeOK, Warmer, Parses, OneOwner
<1>5. RevisionsGrow'
  <2> DEFINE d == warmer[w].doc
             r == warmer[w].revision
  <2>1. /\ d \in Documents /\ r \in Nat /\ 0 < r /\ r <= next_revision
        /\ revisions[d] # 0 => r <= revisions[d]
    BY <1>1 DEF RevisionsGrow, Warmer
  <2>2. \A e \in Documents : /\ revisions[e] <= next_revision /\ warmed'[e] <= next_revision
                             /\ revisions[e] # 0 => warmed'[e] <= revisions[e]
    BY <1>1, <2>1 DEF RevisionsGrow
  <2>3. ASSUME NEW v \in Warmers, warmer'[v].stage # "idle"
        PROVE  /\ warmer'[v].doc = warmer[v].doc /\ warmer'[v].revision = warmer[v].revision
               /\ warmer[v].stage # "idle"
    BY <2>3 DEF Moved
  <2>4. ASSUME NEW v \in Warmers, warmer'[v].stage = "preloading"
        PROVE  warmed'[warmer[v].doc] <= warmer[v].revision
    <3>1. CASE v = w
      <4>1. warmed' = warmed /\ revisions[d] = r
        BY <2>4, <3>1 DEF Moved, GateAfter
      <4> QED BY <2>1, <3>1, <4>1 DEF RevisionsGrow
    <3>2. CASE v # w
      <4>1. warmer[v].stage = "preloading" /\ gate = v
        BY <2>4, <3>2 DEF Moved, OneOwner
      <4>2. warmed' = warmed
        BY <3>2, <4>1 DEF OneOwner
      <4> QED BY <4>1, <4>2 DEF RevisionsGrow
    <3> QED BY <3>1, <3>2
  <2> QED BY <2>2, <2>3, <2>4 DEF RevisionsGrow
<1> QED BY <1>2, <1>3, <1>4, <1>5

\* The first waiter is really in parse_queue, and the others stay in it behind him.
LEMMA FirstWaiter ==
  ASSUME PrewarmInv, NEW w \in Warmers, warmer[w].stage = "waiting", Head(parse_queue) = w,
         parse_queue' = Tail(parse_queue), warmer'[w].stage # "waiting",
         \A v \in Warmers \ {w} : warmer'[v] = warmer[v]
  PROVE  parse_queue' \in Seq(Warmers) /\ InParseQueue'
<1>1. parse_queue \in Seq(Warmers) /\ parse_queue # <<>> /\ parse_queue[1] = w
  BY DEF PrewarmInv, PrewarmTypeOK, InParseQueue
<1>2. /\ parse_queue' \in Seq(Warmers) /\ Len(parse_queue') = Len(parse_queue) - 1
      /\ \A i \in 1..Len(parse_queue') : parse_queue'[i] = parse_queue[i + 1]
  BY <1>1, HeadTailProperties
<1>3. ASSUME NEW v \in Warmers, warmer'[v].stage = "waiting"
      PROVE  \E i \in 1..Len(parse_queue') : parse_queue'[i] = v
  <2>1. v # w /\ warmer[v].stage = "waiting"
    BY <1>3
  <2>2. PICK i \in 1..Len(parse_queue) : parse_queue[i] = v
    BY <2>1 DEF PrewarmInv, InParseQueue
  <2>3. i - 1 \in 1..Len(parse_queue') /\ parse_queue'[i - 1] = v
    BY <1>1, <1>2, <2>1, <2>2
  <2> QED BY <2>3
<1> QED BY <1>2, <1>3 DEF InParseQueue

\* While nobody joins or leaves parse_queue, who waits is in it.
LEMMA SameQueue ==
  ASSUME PrewarmInv, NEW w \in Warmers, NEW stage, Moved(w, stage), stage # "waiting",
         parse_queue' = parse_queue
  PROVE  parse_queue' \in Seq(Warmers) /\ InParseQueue'
BY DEF PrewarmInv, PrewarmTypeOK, InParseQueue, Moved

LEMMA WakeInv ==
  ASSUME PrewarmInv, NEW w \in Warmers, Wake(w)
  PROVE  PrewarmInv'
<1>1. /\ warmer[w].stage = "sleeping" /\ late' = late /\ warmed' = warmed
      /\ UNCHANGED <<pc, gate, shutting_down, next_revision, revisions>>
  BY DEF Wake, vars, lock, installed
<1>2. parser # w /\ gate # w /\ PrewarmTypeOK /\ late' \in {0, 1}
  BY <1>1 DEF PrewarmInv, PrewarmTypeOK, OneOwner, LateOnce
<1>3. CASE Ends(w) /\ UNCHANGED parse_queue
  <2>1. Moved(w, "idle") /\ ParserAfter(w, "idle") /\ GateAfter(w, "idle")
    BY <1>1, <1>2, <1>3, EndsMoves DEF ParserAfter, GateAfter, Parses
  <2>2. parse_queue' \in Seq(Warmers) /\ InParseQueue'
    BY <1>3, <2>1, SameQueue
  <2> QED BY <1>1, <1>2, <2>1, <2>2, MovedInv
<1>4. CASE /\ Enters(w, "waiting") /\ parse_queue' = Append(parse_queue, w)
           /\ UNCHANGED parser
  <2>1. Moved(w, "waiting") /\ ParserAfter(w, "waiting") /\ GateAfter(w, "waiting")
    BY <1>1, <1>2, <1>4, EntersMoves DEF ParserAfter, GateAfter, Parses, WarmerStages
  <2>2. /\ parse_queue \in Seq(Warmers) /\ parse_queue' \in Seq(Warmers)
        /\ Len(parse_queue') = Len(parse_queue) + 1 /\ parse_queue'[Len(parse_queue) + 1] = w
        /\ \A i \in 1..Len(parse_queue) : parse_queue'[i] = parse_queue[i]
    BY <1>2, <1>4, AppendProperties DEF PrewarmTypeOK
  <2>3. ASSUME NEW v \in Warmers, warmer'[v].stage = "waiting"
        PROVE  \E i \in 1..Len(parse_queue') : parse_queue'[i] = v
    <3>1. CASE v = w
      BY <2>2, <3>1
    <3>2. CASE v # w
      <4>1. PICK i \in 1..Len(parse_queue) : parse_queue[i] = v
        BY <2>1, <2>3, <3>2 DEF PrewarmInv, InParseQueue, Moved
      <4> QED BY <2>2, <4>1
    <3> QED BY <3>1, <3>2
  <2>4. InParseQueue'
    BY <2>3 DEF InParseQueue
  <2> QED BY <1>1, <1>2, <2>1, <2>2, <2>4, MovedInv
<1> QED BY <1>3, <1>4 DEF Wake

LEMMA EnterParserInv ==
  ASSUME PrewarmInv, NEW w \in Warmers, EnterParser(w)
  PROVE  PrewarmInv'
<1>1. /\ warmer[w].stage = "waiting" /\ parser = NoTask /\ Head(parse_queue) = w
      /\ parse_queue' = Tail(parse_queue) /\ late' = late /\ warmed' = warmed
      /\ UNCHANGED <<pc, gate, shutting_down, next_revision, revisions>>
  BY DEF EnterParser, vars, lock, installed
<1>2. gate # w /\ PrewarmTypeOK /\ late' \in {0, 1} /\ w # NoTask
  BY <1>1, WarmersAreNotTasks DEF PrewarmInv, OneOwner, LateOnce
<1>3. \E stage \in {"idle", "discovering"} : Moved(w, stage) /\ ParserAfter(w, stage)
  <2>1. CASE Ends(w)
    BY <1>1, <1>2, <2>1, EndsMoves DEF ParserAfter, Parses
  <2>2. CASE Enters(w, "discovering") /\ parser' = w
    BY <1>1, <1>2, <2>2, EntersMoves DEF ParserAfter, Parses, WarmerStages
  <2> QED BY <2>1, <2>2 DEF EnterParser
<1>4. PICK stage \in {"idle", "discovering"} : Moved(w, stage) /\ ParserAfter(w, stage)
  BY <1>3
<1>5. GateAfter(w, stage)
  BY <1>1, <1>2 DEF GateAfter
<1>6. parse_queue' \in Seq(Warmers) /\ InParseQueue'
  BY <1>1, <1>4, FirstWaiter DEF Moved
<1> QED BY <1>1, <1>2, <1>4, <1>5, <1>6, MovedInv

\* Between the two gates: the prewarm holds parse_gate and gives it back only when it ends.
LEMMA ParsingInv ==
  ASSUME PrewarmInv, NEW w \in Warmers, warmer[w].stage \in {"discovering", "parsing"},
         UNCHANGED <<pc, gate, shutting_down, next_revision, revisions, late, warmed, parse_queue>>,
         \/ Ends(w)
         \/ \E stage \in {"parsing", "queued"} : Moved(w, stage) /\ parser' = parser
  PROVE  PrewarmInv'
<1>1. gate # w /\ PrewarmTypeOK /\ late' \in {0, 1} /\ parser = w
  BY DEF PrewarmInv, PrewarmTypeOK, OneOwner, LateOnce
<1>2. PICK stage \in {"idle", "parsing", "queued"} : Moved(w, stage) /\ ParserAfter(w, stage)
  BY <1>1, EndsMoves DEF ParserAfter, Parses
<1>3. GateAfter(w, stage)
  BY <1>1 DEF GateAfter
<1>4. parse_queue' \in Seq(Warmers) /\ InParseQueue'
  BY <1>2, SameQueue
<1> QED BY <1>1, <1>2, <1>3, <1>4, MovedInv

LEMMA DiscoverInv ==
  ASSUME PrewarmInv, NEW w \in Warmers, Discover(w)
  PROVE  PrewarmInv'
<1>1. /\ warmer[w].stage = "discovering" /\ PrewarmTypeOK
      /\ UNCHANGED <<pc, gate, shutting_down, next_revision, revisions, late, warmed, parse_queue>>
  BY DEF Discover, vars, lock, installed, PrewarmInv
<1>2. ASSUME NEW targets \in SUBSET Paths, UNCHANGED parser,
             warmer' = [warmer EXCEPT ![w].stage = "parsing", ![w].todo = targets]
      PROVE  Moved(w, "parsing") /\ parser' = parser
  <2> DEFINE a == [warmer[w] EXCEPT !.stage = "parsing"]
             r == [a EXCEPT !.todo = targets]
  <2>1. warmer[w] \in Warmer
    BY <1>1, WarmerType
  <2>2. warmer' = [warmer EXCEPT ![w] = r]
    BY <1>1, <1>2, WarmerType DEF Warmer
  <2>3. /\ a \in Warmer /\ a.stage = "parsing" /\ a.doc = warmer[w].doc
        /\ a.revision = warmer[w].revision
    BY <2>1 DEF Warmer, WarmerStages
  <2> HIDE DEF a
  <2>4. /\ r \in Warmer /\ r.stage = "parsing" /\ r.doc = warmer[w].doc
        /\ r.revision = warmer[w].revision
    BY <2>3 DEF Warmer
  <2> HIDE DEF r
  <2> QED BY <1>1, <1>2, <2>2, <2>4, WarmerType DEF Moved
<1>3. CASE Ends(w)
  BY <1>1, <1>3, ParsingInv
<1>4. ASSUME NEW targets \in (SUBSET Paths) \ {{}}, UNCHANGED parser,
             warmer' = [warmer EXCEPT ![w].stage = "parsing", ![w].todo = targets]
      PROVE  PrewarmInv'
  BY <1>1, <1>2, <1>4, ParsingInv
<1> QED BY <1>3, <1>4 DEF Discover

LEMMA ParseLinkedInv ==
  ASSUME PrewarmInv, NEW w \in Warmers, NEW p \in Paths, ParseLinked(w, p)
  PROVE  PrewarmInv'
<1> DEFINE c == IF disk[p] \in Sources THEN disk[p] ELSE warmer[w].parsed[p]
           a == [warmer[w] EXCEPT !.todo = warmer[w].todo \ {p}]
           r == [a EXCEPT !.parsed[p] = c]
<1>1. /\ warmer[w].stage = "parsing" /\ PrewarmTypeOK /\ parser' = parser
      /\ UNCHANGED <<pc, gate, shutting_down, next_revision, revisions, late, warmed, parse_queue>>
  BY DEF ParseLinked, vars, lock, installed, PrewarmInv
<1>2. warmer \in [Warmers -> Warmer] /\ warmer[w] \in Warmer
  BY <1>1, WarmerType
<1>3. c \in Held
  BY <1>2 DEF Warmer, Held
<1>4. /\ a \in Warmer /\ a.stage = "parsing" /\ a.doc = warmer[w].doc
      /\ a.revision = warmer[w].revision /\ a.parsed = warmer[w].parsed
  BY <1>1, <1>2 DEF Warmer
<1>5. warmer' = [warmer EXCEPT ![w] = r]
  BY <1>2, <1>4 DEF ParseLinked, Warmer
<1> HIDE DEF a, c
<1>6. /\ r \in Warmer /\ r.stage = "parsing" /\ r.doc = warmer[w].doc
      /\ r.revision = warmer[w].revision
  BY <1>3, <1>4 DEF Warmer
<1> HIDE DEF r
<1>7. Moved(w, "parsing")
  BY <1>2, <1>5, <1>6 DEF Moved
<1> QED BY <1>1, <1>7, ParsingInv

LEMMA WaitForIndexInv ==
  ASSUME PrewarmInv, NEW w \in Warmers, WaitForIndex(w)
  PROVE  PrewarmInv'
<1>1. /\ warmer[w].stage = "parsing" /\ PrewarmTypeOK
      /\ UNCHANGED <<pc, gate, shutting_down, next_revision, revisions, late, warmed, parse_queue>>
  BY DEF WaitForIndex, vars, lock, installed, PrewarmInv
<1>2. Ends(w) \/ (Enters(w, "queued") /\ parser' = parser)
  BY DEF WaitForIndex
<1>3. Enters(w, "queued") => Moved(w, "queued")
  BY <1>1, EntersMoves DEF WarmerStages
<1> QED BY <1>1, <1>2, <1>3, ParsingInv

LEMMA TakeIndexGateInv ==
  ASSUME PrewarmInv, NEW w \in Warmers, TakeIndexGate(w)
  PROVE  PrewarmInv'
<1>1. /\ warmer[w].stage = "queued" /\ PrewarmTypeOK /\ gate = NoTask /\ gate # w
      /\ UNCHANGED <<pc, shutting_down, next_revision, revisions, late, warmed, parse_queue>>
  BY WarmersAreNotTasks DEF TakeIndexGate, OwnsIndexWork, installed, PrewarmInv
<1>2. parser = w /\ late' \in {0, 1}
  BY <1>1 DEF PrewarmInv, PrewarmTypeOK, LateOnce
<1>3. \E stage \in {"idle", "preloading"} :
         Moved(w, stage) /\ ParserAfter(w, stage) /\ GateAfter(w, stage)
  <2>1. CASE Ends(w) /\ UNCHANGED gate
    BY <1>1, <1>2, <2>1, EndsMoves DEF ParserAfter, GateAfter, Parses
  <2>2. CASE ~Superseded(w) /\ Enters(w, "preloading") /\ gate' = w /\ UNCHANGED parser
    BY <1>1, <1>2, <2>2, EntersMoves DEF ParserAfter, GateAfter, Parses, WarmerStages, Superseded
  <2> QED BY <2>1, <2>2 DEF TakeIndexGate
<1>4. PICK stage \in {"idle", "preloading"} :
         Moved(w, stage) /\ ParserAfter(w, stage) /\ GateAfter(w, stage)
  BY <1>3
<1>5. parse_queue' \in Seq(Warmers) /\ InParseQueue'
  BY <1>1, <1>4, SameQueue
<1> QED BY <1>1, <1>2, <1>4, <1>5, MovedInv

LEMMA PreloadInv ==
  ASSUME PrewarmInv, NEW w \in Warmers, Preload(w)
  PROVE  PrewarmInv'
<1>1. /\ warmer[w].stage = "preloading" /\ Ends(w) /\ gate' = NoTask
      /\ late' = (IF shutting_down THEN late + 1 ELSE late)
      /\ warmed' = [warmed EXCEPT ![warmer[w].doc] = warmer[w].revision]
      /\ UNCHANGED <<pc, shutting_down, next_revision, revisions, parse_queue>>
  BY DEF Preload
<1>2. PrewarmTypeOK /\ gate = w /\ late = 0
  BY <1>1, WarmersAreNotTasks DEF PrewarmInv, OneOwner, LateOnce
<1>3. Moved(w, "idle") /\ ParserAfter(w, "idle") /\ GateAfter(w, "idle")
  BY <1>1, <1>2, EndsMoves DEF ParserAfter, GateAfter, Parses
<1>4. parse_queue' \in Seq(Warmers) /\ InParseQueue'
  BY <1>1, <1>3, SameQueue
<1>5. late' \in {0, 1} /\ (late' # late => shutting_down /\ gate' = NoTask)
  BY <1>1, <1>2
<1> QED BY <1>1, <1>3, <1>4, <1>5, MovedInv

LEMMA NextPrewarmInv == PrewarmInv /\ [PrewarmNext]_prewarmVars => PrewarmInv'
<1>1. ASSUME PrewarmInv, UNCHANGED prewarmVars PROVE PrewarmInv'
  BY <1>1 DEF PrewarmInv, PrewarmTypeOK, OneOwner, LateOnce, InParseQueue, RevisionsGrow,
              prewarmVars, prewarm, vars, lock, installed
<1>2. ASSUME PrewarmInv, PrewarmNext PROVE PrewarmInv'
  BY <1>2, IndexStepInv, ScheduleInv, CancelInv, WakeInv, EnterParserInv, DiscoverInv,
     ParseLinkedInv, WaitForIndexInv, TakeIndexGateInv, PreloadInv
     DEF PrewarmNext, WarmerStep
<1> QED BY <1>1, <1>2

LEMMA AlwaysPrewarmInv == PrewarmSpec => []PrewarmInv
BY InitPrewarmInv, NextPrewarmInv, PTL DEF PrewarmSpec

-----------------------------------------------------------------------------
(* Every prewarm variable keeps its type whatever the index jobs do; the   *)
(* prewarm past parse_gate is its owner, and the one that preloads owns    *)
(* the gate of the index jobs, so that no index job is at work then        *)
(* (linked_document_prewarm.rs takes both guards before it preloads).      *)
THEOREM PrewarmTypeCorrect == PrewarmSpec => []PrewarmTypeOK
BY AlwaysPrewarmInv, PTL DEF PrewarmInv

\* What a step may do to the index and the rows while their gate is held.
LEMMA StoreMoves ==
  ASSUME PrewarmInv, PrewarmNext
  PROVE  /\ gate' \in {gate, NoTask} \/ ~shutting_down
         /\ rows' # rows => gate # NoTask
         /\ store' # store => \/ gate \in Tasks /\ pc'[gate] = "finishing"
                              \/ gate \in Warmers
<1> USE WarmersAreNotTasks
<1>1. CASE IndexStep
  <2>1. IndexMoves
    BY <1>1, NextOwner DEF IndexStep, PrewarmInv
  <2> QED BY <2>1 DEF IndexMoves
<1>2. ASSUME NEW w \in Warmers, Preload(w)
      PROVE  gate = w /\ gate' = NoTask /\ rows' = rows
  BY <1>2 DEF Preload, PrewarmInv, OneOwner
<1>3. ASSUME NEW w \in Warmers, TakeIndexGate(w)
      PROVE  /\ UNCHANGED <<store, rows>>
             /\ gate' = gate \/ ~shutting_down
  BY <1>3 DEF TakeIndexGate, installed, Superseded
<1>4. ASSUME UNCHANGED <<gate, store, rows>>
      PROVE  gate' = gate /\ rows' = rows /\ store' = store
  BY <1>4
<1>5. ASSUME NEW w \in Warmers, WarmerStep(w), ~Preload(w), ~TakeIndexGate(w)
      PROVE  UNCHANGED <<gate, store, rows>>
  BY <1>5 DEF WarmerStep, Wake, EnterParser, Discover, ParseLinked, WaitForIndex, vars, lock,
              installed
<1>6. ASSUME NEW d \in Documents, Cancel(d) \/ \E w \in Warmers : Schedule(w, d)
      PROVE  UNCHANGED <<gate, store, rows>>
  BY <1>6 DEF Schedule, Cancel, vars, lock, installed
<1> QED BY <1>1, <1>2, <1>3, <1>5, <1>6 DEF PrewarmNext

(* No preload lands between an index job's copy of the installed index and *)
(* its install: the gate has one owner, a job or a prewarm.  The           *)
(* generation that installs are checked by would not tell, since a preload *)
(* leaves it alone.                                                        *)
THEOREM NoPreloadIsLost == PrewarmSpec => NoPreloadLost
<1>1. ASSUME PrewarmInv, PrewarmNext
      PROVE  store' # store => \A t \in Tasks : pc[t] \in HoldsGate => pc'[t] = "finishing"
  <2>1. \A t \in Tasks : pc[t] \in HoldsGate => gate = t
    BY <1>1 DEF PrewarmInv, OneOwner
  <2> QED BY <1>1, <2>1, StoreMoves, WarmersAreNotTasks
<1>2. PrewarmInv /\ [PrewarmNext]_prewarmVars =>
        [store' # store => \A t \in Tasks : pc[t] \in HoldsGate => pc'[t] = "finishing"]_prewarmVars
  BY <1>1
<1> QED BY <1>2, AlwaysPrewarmInv, PTL DEF PrewarmSpec, NoPreloadLost

(* Neither a superseded prewarm nor one the shutdown has overtaken reaches *)
(* the index, wherever it waited: revisions reach it in their order, and   *)
(* one install or preload past its check is all that follows the shutdown. *)
THEOREM NoneComesLate == PrewarmSpec => NoLatePreload
<1>1. ASSUME PrewarmInv, PrewarmNext
      PROVE  \A d \in Documents : warmed'[d] >= warmed[d]
  <2>1. warmed \in [Documents -> Nat]
    BY <1>1 DEF PrewarmInv, PrewarmTypeOK
  <2>2. ASSUME NEW w \in Warmers, Preload(w) PROVE \A d \in Documents : warmed'[d] >= warmed[d]
    <3>1. /\ warmed' = [warmed EXCEPT ![warmer[w].doc] = warmer[w].revision]
          /\ warmer[w].stage = "preloading"
      BY <2>2 DEF Preload
    <3>2. warmed[warmer[w].doc] <= warmer[w].revision /\ warmer[w].revision \in Nat
      BY <1>1, <3>1, WarmerType DEF PrewarmInv, RevisionsGrow, Warmer
    <3> QED BY <2>1, <3>1, <3>2
  <2>3. CASE \A w \in Warmers : ~Preload(w)
    <3>1. ASSUME NEW w \in Warmers, WarmerStep(w) PROVE warmed' = warmed
      BY <2>3, <3>1 DEF WarmerStep, Wake, EnterParser, Discover, ParseLinked, WaitForIndex,
                        TakeIndexGate
    <3>2. ASSUME NEW d \in Documents, Cancel(d) \/ \E w \in Warmers : Schedule(w, d)
          PROVE  warmed' = warmed
      BY <3>2 DEF Schedule, Cancel
    <3>3. IndexStep => warmed' = warmed
      BY DEF IndexStep
    <3>4. warmed' = warmed
      BY <1>1, <3>1, <3>2, <3>3 DEF PrewarmNext
    <3> QED BY <2>1, <3>4
  <2> QED BY <2>2, <2>3
<1>2. ASSUME PrewarmInv, UNCHANGED prewarmVars
      PROVE  UNCHANGED vars
  BY <1>2 DEF prewarmVars
<1>3. ASSUME PrewarmInv, PrewarmNext, shutting_down
      PROVE  gate' \in {gate, NoTask} /\ (store' # store \/ rows' # rows => late = 0)
  <2>1. gate # NoTask => late = 0
    BY <1>3 DEF PrewarmInv, LateOnce
  <2> QED BY <1>3, <2>1, StoreMoves, WarmersAreNotTasks
<1>4. PrewarmInv /\ [PrewarmNext]_prewarmVars =>
        [\A d \in Documents : warmed'[d] >= warmed[d]]_prewarmVars
  BY <1>1
<1>5. PrewarmInv /\ [PrewarmNext]_prewarmVars =>
        [shutting_down => /\ gate' \in {gate, NoTask}
                          /\ store' # store \/ rows' # rows => late = 0]_vars
  BY <1>2, <1>3
<1>6. PrewarmSpec => LatestRevisionWins
  BY <1>4, AlwaysPrewarmInv, PTL DEF PrewarmSpec, LatestRevisionWins
<1>7. PrewarmSpec => PrewarmQuiets
  BY <1>5, AlwaysPrewarmInv, PTL DEF PrewarmSpec, PrewarmQuiets, QuietAfterShutdown
<1> QED BY <1>6, <1>7 DEF NoLatePreload
=============================================================================
