--------------------------- MODULE IndexJobsProofs ---------------------------
(***************************************************************************)
(* Theorems about IndexJobs for every set of paths, contents and handlers, *)
(* every number of jobs and edits, and every combination of faults (less   *)
(* where a theorem says so): the state keeps its type, the gate serialises *)
(* the tasks, the shutdown quiets the server, the installed index is a     *)
(* SnapshotRegister, and it never misses a change of a file for good: it   *)
(* has it, or marks the path, or somebody is still going to look.          *)
(***************************************************************************)
EXTENDS IndexJobs, SequenceTheorems, FiniteSetTheorems, TLAPS

-----------------------------------------------------------------------------
(* The constants. *)

LEMMA JobsAreNotHandlers ==
  /\ Jobs \cap Handlers = {} /\ 1 \in Jobs /\ Jobs \subseteq Nat
  /\ NoTask \notin Tasks /\ Tasks = Jobs \cup Handlers
BY BoundsAssumption, TaskAssumption DEF Jobs, Tasks

LEMMA HeldContents ==
  /\ Sources \subseteq Held /\ Absent \in Held /\ Held \subseteq Contents
BY DEF Held, Contents

LEMMA EmptyTypes ==
  /\ NoFiles \in [Paths -> Held] /\ NoMarks \in [Paths -> Nat]
  /\ NoRow \in Row /\ NoArgs \in Args /\ NoWork \in Work
BY HeldContents DEF NoFiles, NoMarks, NoRow, NoArgs, NoWork, Row, Args, Work, Dbs

-----------------------------------------------------------------------------
(* Type correctness. *)

LEMMA InitTypeOK == Init => TypeOK
<1> SUFFICES ASSUME Init PROVE TypeOK
  OBVIOUS
<1> USE JobsAreNotHandlers, HeldContents, EmptyTypes
<1>1. /\ disk \in [Paths -> Contents] /\ events \in Seq(Event) /\ edits \in Nat
      /\ saves \in Nat
  BY DEF Init
<1>2. /\ job_generation \in Jobs /\ pending_jobs \in Nat
      /\ pending_task \in {"cache-check", "rebuild", NoTask} /\ shutting_down \in BOOLEAN
  BY DEF Init
<1>3. /\ pc \in [Tasks -> JobStages \cup RefreshStages]
      /\ \A j \in Jobs : pc[j] \in JobStages
      /\ \A h \in Handlers : pc[h] \in RefreshStages
  BY DEF Init, JobStages, RefreshStages, HoldsGate, WorkerStages
<1>4. /\ args \in [Handlers -> Args]
      /\ gate \in Tasks \cup {NoTask} /\ queue \in Seq(Tasks)
      /\ base \in [Tasks -> Nat] /\ work \in [Tasks -> Work]
  BY DEF Init
<1>5. /\ generation \in Nat /\ pending_refresh \in [Paths -> Nat]
      /\ basis \in Nat /\ late \in Nat /\ synced \in Nat
  BY DEF Init
<1>6. store \in Store /\ rows \in [Dbs -> [Paths -> Row]]
  <2>1. PICK table \in CachedTable :
          /\ rows = [d \in Dbs |-> IF d = "configured" THEN table
                                   ELSE [p \in Paths |-> NoRow]]
          /\ store = [files |-> NoFiles, cached |-> Cached(table), db |-> "configured"]
    BY DEF Init
  <2>2. table \in [Paths -> Row]
    BY DEF CachedTable, Row
  <2>3. Cached(table) \in BOOLEAN
    BY DEF Cached
  <2>4. rows \in [Dbs -> [Paths -> Row]]
    BY <2>1, <2>2
  <2>5. store \in Store
    BY <2>1, <2>3 DEF Store, Dbs
  <2> QED BY <2>4, <2>5
<1> QED BY <1>1, <1>2, <1>3, <1>4, <1>5, <1>6 DEF TypeOK

\* What a task's worker prepares is a Work whatever it starts from and reads.
LEMMA CloneType == TypeOK => Clone \in Work
BY EmptyTypes DEF TypeOK, Clone, Work, Store

LEMMA FullPassType ==
  ASSUME NEW w \in Work
  PROVE  FullPass(w) \in Work /\ FullPass(w).generation = w.generation + 1
<1> DEFINE w1 == [w EXCEPT !.files = NoFiles, !.todo = Paths, !.fresh = {}]
           w2 == [w1 EXCEPT !.gone = {}, !.full = TRUE, !.cached = FALSE]
           w3 == [w2 EXCEPT !.generation = w.generation + 1]
<1>1. FullPass(w) = w3
  BY DEF FullPass
<1>2. w1 \in Work
  BY EmptyTypes DEF Work
<1> HIDE DEF w1
<1>3. w2 \in Work
  BY <1>2 DEF Work
<1> HIDE DEF w2
<1>4. w3 \in Work /\ w3.generation = w.generation + 1
  BY <1>3 DEF Work
<1> QED BY <1>1, <1>4

LEMMA ReadType ==
  ASSUME TypeOK, NEW t \in Tasks, NEW w \in Work, NEW p \in Paths
  PROVE  Read(t, w, p) \in Work
<1> USE HeldContents DEF Indexable, Work
<1>1. ReadFull(w, p) \in Work
  BY DEF ReadFull
<1>2. ReadReconcile(w, p) \in Work
  BY DEF ReadReconcile
<1>3. ReadRefresh(w, p) \in Work
  BY DEF ReadRefresh
<1> QED BY <1>1, <1>2, <1>3 DEF Read

LEMMA CachedType == \A table : Cached(table) \in BOOLEAN
BY DEF Cached

LEMMA CompletedType == \A w \in Work : Completed(w) \in [Paths -> Nat]
BY DEF Completed, Work

LEMMA ResultType ==
  ASSUME NEW t, NEW w \in Work, NEW persisted \in BOOLEAN, NEW table
  PROVE  Result(t, w, persisted, table) \in Work
<1>1. Cached(table) \in BOOLEAN /\ Completed(w) \in [Paths -> Nat]
  BY CachedType, CompletedType
<1> QED BY <1>1, EmptyTypes DEF Result, Work

LEMMA RowsAfterType ==
  ASSUME TypeOK, NEW w \in Work, CanPersist(w)
  PROVE  RowsAfter(w) \in [Paths -> Row]
<1> SUFFICES ASSUME NEW p \in Paths
             PROVE  (IF p \in w.fresh THEN [src |-> w.files[p], fingerprint |-> disk[p]]
                     ELSE IF p \in w.gone THEN NoRow ELSE rows[w.db][p]) \in Row
  BY DEF RowsAfter
<1>1. CASE p \in w.fresh
  <2>1. w.files[p] \in Held /\ disk[p] \in Held
    BY <1>1, HeldContents DEF CanPersist, Work
  <2> QED BY <1>1, <2>1 DEF Row
<1>2. CASE p \notin w.fresh
  <2>1. rows[w.db][p] \in Row
    BY DEF TypeOK, Work
  <2> QED BY <1>2, <2>1, EmptyTypes
<1> QED BY <1>1, <1>2

\* Task t's work becomes one that is larger than generation g, the others stay.
Prepares(t, g) ==
  /\ work' \in [Tasks -> Work] /\ work'[t].generation > g
  /\ \A other \in Tasks \ {t} : work'[other] = work[other]

LEMMA PutWork ==
  ASSUME TypeOK, NEW t \in Tasks, NEW w \in Work, NEW g, w.generation > g,
         work' = [work EXCEPT ![t] = w]
  PROVE  Prepares(t, g)
BY DEF TypeOK, Prepares

\* A task that takes the gate starts from a copy with a larger generation.
LEMMA BeginsWork ==
  ASSUME TypeOK, NEW t \in Tasks, StartRebuild(t) \/ StartReconcile(t)
                                      \/ (t \in Handlers /\ StartRefresh(t))
  PROVE  Prepares(t, generation)
<1>1. Clone \in Work /\ Clone.generation = generation
  BY CloneType, EmptyTypes DEF Clone, Work
<1>2. generation \in Nat /\ store \in Store /\ pending_refresh \in [Paths -> Nat]
  BY DEF TypeOK
<1>3. ASSUME NEW w \in Work, w.generation = generation, NEW damaged \in BOOLEAN
      PROVE  /\ FullPass(w) \in Work /\ FullPass(w).generation > generation
             /\ [FullPass(w) EXCEPT !.damaged = damaged] \in Work
             /\ [FullPass(w) EXCEPT !.damaged = damaged].generation > generation
  <2>1. FullPass(w) \in Work /\ FullPass(w).generation = generation + 1
    BY <1>3, FullPassType
  <2> QED BY <1>2, <2>1 DEF Work
<1>4. CASE StartRebuild(t)
  <2> DEFINE w == [NoWork EXCEPT !.generation = generation, !.db = store.db]
  <2>1. w \in Work /\ w.generation = generation
    BY <1>2, EmptyTypes DEF Work, Store
  <2>2. work' = [work EXCEPT ![t] = FullPass(w)]
    BY <1>4 DEF StartRebuild
  <2> HIDE DEF w
  <2>3. FullPass(w) \in Work /\ FullPass(w).generation > generation
    BY <1>3, <2>1
  <2> QED BY <2>2, <2>3, PutWork
<1>5. CASE StartReconcile(t)
  <2> DEFINE e == [Clone EXCEPT !.files = NoFiles, !.todo = Paths]
             w == [e EXCEPT !.generation = Clone.generation + 1]
             d == [FullPass(Clone) EXCEPT !.damaged = TRUE]
  <2>1. work' = [work EXCEPT ![t] = w] \/ work' = [work EXCEPT ![t] = d]
    BY <1>5 DEF StartReconcile
  <2>2. d \in Work /\ d.generation > generation
    BY <1>1, <1>3
  <2>3. e \in Work
    BY <1>1, EmptyTypes DEF Work
  <2> HIDE DEF e
  <2>4. w \in Work /\ w.generation > generation
    BY <1>1, <1>2, <2>3 DEF Work
  <2> HIDE DEF w, d
  <2> QED BY <2>1, <2>2, <2>4, PutWork
<1>6. CASE t \in Handlers /\ StartRefresh(t)
  <2> DEFINE changed == args[t].changed
             deleted == args[t].deleted
             mine    == [p \in Paths |-> IF p \in changed \cup deleted
                                         THEN pending_refresh[p] ELSE 0]
             copy    == [Clone EXCEPT !.snapshot = mine]
             files   == [p \in Paths |-> IF p \in deleted THEN Absent ELSE store.files[p]]
             w1      == [copy EXCEPT !.files = files, !.todo = changed \ deleted]
             w2      == [w1 EXCEPT !.gone = deleted, !.done = deleted]
             w3      == [w2 EXCEPT !.generation = copy.generation + 1]
             d       == [FullPass(copy) EXCEPT !.damaged = TRUE]
  <2>1. changed \subseteq Paths /\ deleted \subseteq Paths
    BY <1>6 DEF TypeOK, Args, StartRefresh
  <2>2. mine \in [Paths -> Nat] /\ files \in [Paths -> Held]
    BY <1>2, HeldContents DEF Store
  <2>3. work' = [work EXCEPT ![t] = w3] \/ work' = [work EXCEPT ![t] = d]
    BY <1>6 DEF StartRefresh
  <2> HIDE DEF changed, deleted, mine, files
  <2>4. copy \in Work /\ copy.generation = generation
    BY <1>1, <2>2 DEF Work
  <2> HIDE DEF copy
  <2>5. w1 \in Work
    BY <2>1, <2>2, <2>4 DEF Work
  <2> HIDE DEF w1
  <2>6. w2 \in Work
    BY <2>1, <2>5 DEF Work
  <2> HIDE DEF w2
  <2>7. w3 \in Work /\ w3.generation > generation
    BY <2>4, <2>6, <1>2 DEF Work
  <2>8. d \in Work /\ d.generation > generation
    BY <2>4, <1>3
  <2> HIDE DEF w3, d
  <2> QED BY <2>3, <2>7, <2>8, PutWork
<1> QED BY <1>4, <1>5, <1>6

\* Neither reading, persisting nor falling back lowers the generation.
LEMMA ContinuesWork ==
  ASSUME TypeOK, NEW t \in Tasks, WorkerStep(t), NEW g \in Int, work[t].generation > g
  PROVE  Prepares(t, g)
<1>1. work[t] \in Work /\ work[t].generation \in Nat
  BY DEF TypeOK, Work
<1>2. ASSUME NEW p \in Paths, ReadPath(t, p)
      PROVE  Prepares(t, g)
  <2> DEFINE w == Read(t, work[t], p)
             v == [w EXCEPT !.todo = w.todo \ {p}]
  <2>1. w \in Work
    BY <1>1, ReadType
  <2>2. w.generation = work[t].generation
    BY <1>1 DEF Read, ReadFull, ReadReconcile, ReadRefresh, Work
  <2>3. work' = [work EXCEPT ![t] = v]
    BY <1>2 DEF ReadPath
  <2> HIDE DEF w
  <2>4. v \in Work /\ v.generation > g
    BY <2>1, <2>2 DEF Work
  <2> HIDE DEF v
  <2> QED BY <2>3, <2>4, PutWork
<1>3. ASSUME NEW persisted \in BOOLEAN, NEW table, Return(t, persisted, table)
      PROVE  Prepares(t, g)
  <2> DEFINE w == Result(t, work[t], persisted, table)
  <2>1. w \in Work
    BY <1>1, ResultType
  <2>2. w.generation = work[t].generation
    BY <1>1 DEF Result, Work
  <2>3. work' = [work EXCEPT ![t] = w]
    BY <1>3 DEF Return
  <2> HIDE DEF w
  <2> QED BY <2>1, <2>2, <2>3, PutWork
<1>4. ASSUME FallBack(t)
      PROVE  Prepares(t, g)
  <2> DEFINE w == [work[t] EXCEPT !.db = "fallback"]
  <2>1. w \in Work /\ w.generation = work[t].generation
    BY <1>1 DEF Work, Dbs
  <2>2. work' = [work EXCEPT ![t] = w] \/ work' = [work EXCEPT ![t] = FullPass(w)]
    BY <1>4 DEF FallBack
  <2> HIDE DEF w
  <2>3. FullPass(w) \in Work /\ FullPass(w).generation > g
    BY <1>1, <2>1, FullPassType
  <2> QED BY <2>1, <2>2, <2>3, PutWork
<1> QED BY <1>2, <1>3, <1>4 DEF WorkerStep, PersistPaths, GiveUpPersisting

LEMMA QueueType ==
  ASSUME NEW S, NEW q \in Seq(S), NEW e \in S
  PROVE  Append(q, e) \in Seq(S) /\ (q # <<>> => Tail(q) \in Seq(S) /\ Head(q) \in S)
BY AppendProperties, HeadTailProperties

LEMMA BatchTypes ==
  ASSUME TypeOK, NEW n \in 1..Len(events)
  PROVE  /\ SubSeq(events, n + 1, Len(events)) \in Seq(Event)
         /\ [changed |-> ChangedPaths(n), deleted |-> DeletedPaths(n)] \in Args
<1>1. events \in Seq(Event) /\ Len(events) \in Nat
  BY LenProperties DEF TypeOK
<1>2. \A i \in 1..Len(events) : events[i] \in Event
  BY <1>1, ElementOfSeq
<1>3. SubSeq(events, n + 1, Len(events)) \in Seq(Event)
  BY <1>1, <1>2, SubSeqProperties
<1>4. \A i \in 1..n : events[i].path \in Paths
  BY <1>1, <1>2 DEF Event
<1> QED BY <1>3, <1>4 DEF ChangedPaths, DeletedPaths, Args

LEMMA EnvironmentTypeOK == TypeOK /\ Environment => TypeOK'
<1> SUFFICES ASSUME TypeOK, Environment PROVE TypeOK'
  OBVIOUS
<1> USE JobsAreNotHandlers DEF env, status, lock, installed
<1>1. ASSUME NEW p \in Paths, NEW c \in Contents, Edit(p, c) PROVE TypeOK'
  <2>1. [path |-> p, deleted |-> c = Absent] \in Event
    BY DEF Event
  <2>2. events' \in Seq(Event)
    BY <1>1, <2>1, QueueType DEF TypeOK, Edit
  <2> QED BY <1>1, <2>2 DEF TypeOK, Edit
<1>2. ASSUME NEW h \in Handlers, NEW n \in 1..Len(events), ChangeWatchedFiles(h, n)
      PROVE  TypeOK'
  <2>1. events' \in Seq(Event) /\ args' \in [Handlers -> Args]
    BY <1>2, BatchTypes DEF TypeOK, ChangeWatchedFiles
  <2>2. /\ pc' \in [Tasks -> JobStages \cup RefreshStages]
        /\ \A j \in Jobs : pc'[j] \in JobStages
        /\ \A i \in Handlers : pc'[i] \in RefreshStages
    BY <1>2 DEF TypeOK, ChangeWatchedFiles, Goto, RefreshStages
  <2> QED BY <1>2, <2>1, <2>2 DEF TypeOK, ChangeWatchedFiles
<1>3. ASSUME NEW h \in Handlers, NEW p \in Paths, Save(h, p) PROVE TypeOK'
  <2>1. args' \in [Handlers -> Args]
    BY <1>3 DEF TypeOK, Save, Args
  <2>2. /\ pc' \in [Tasks -> JobStages \cup RefreshStages]
        /\ \A j \in Jobs : pc'[j] \in JobStages
        /\ \A i \in Handlers : pc'[i] \in RefreshStages
    BY <1>3 DEF TypeOK, Save, Goto, RefreshStages
  <2>3. saves' \in Nat
    BY <1>3 DEF TypeOK, Save
  <2>4. UNCHANGED <<disk, events, edits, status, shutting_down, lock, base, work, installed, rows>>
    BY <1>3 DEF Save
  <2> QED BY <2>1, <2>2, <2>3, <2>4 DEF TypeOK
<1>4. ASSUME RebuildIndex PROVE TypeOK'
  <2>1. job_generation' \in Jobs
    BY <1>4, BoundsAssumption DEF TypeOK, RebuildIndex, Jobs
  <2>2. /\ pc' \in [Tasks -> JobStages \cup RefreshStages]
        /\ \A j \in Jobs : pc'[j] \in JobStages
        /\ \A i \in Handlers : pc'[i] \in RefreshStages
    BY <1>4, <2>1 DEF TypeOK, RebuildIndex, Goto, JobStages
  <2> QED BY <1>4, <2>1, <2>2 DEF TypeOK, RebuildIndex
<1>5. ASSUME Shutdown PROVE TypeOK'
  BY <1>5 DEF TypeOK, Shutdown
<1> QED BY <1>1, <1>2, <1>3, <1>4, <1>5 DEF Environment

\* A task may only go to a stage of its own kind.
LEMMA GotoType ==
  ASSUME TypeOK, NEW t \in Tasks, NEW stage, Goto(t, stage),
         t \in Jobs => stage \in JobStages, t \in Handlers => stage \in RefreshStages
  PROVE  /\ pc' \in [Tasks -> JobStages \cup RefreshStages]
         /\ \A j \in Jobs : pc'[j] \in JobStages
         /\ \A h \in Handlers : pc'[h] \in RefreshStages
BY JobsAreNotHandlers DEF TypeOK, Goto

LEMMA FinishPendingType ==
  ASSUME TypeOK, FinishPending
  PROVE  pending_jobs' \in Nat /\ pending_task' \in {"cache-check", "rebuild", NoTask}
BY DEF TypeOK, FinishPending

LEMMA JobTypeOK ==
  ASSUME TypeOK, NEW j \in Jobs, JobStep(j)
  PROVE  TypeOK'
<1> USE JobsAreNotHandlers DEF env, status, lock, installed, JobStages, HoldsGate, WorkerStages
<1>1. CASE EndAtShutdown(j)
  <2>1. Goto(j, "ended")
    BY <1>1 DEF EndAtShutdown
  <2> QED BY <1>1, <2>1, GotoType DEF TypeOK, EndAtShutdown
<1>2. CASE CountJob(j)
  <2>1. Goto(j, "queued")
    BY <1>2 DEF CountJob
  <2>2. queue' \in Seq(Tasks)
    BY <1>2, QueueType DEF TypeOK, CountJob
  <2>3. pending_jobs' \in Nat /\ pending_task' \in {"cache-check", "rebuild", NoTask}
    BY <1>2 DEF TypeOK, CountJob
  <2>4. UNCHANGED <<env, job_generation, shutting_down, args, gate, base, work, installed, rows>>
    BY <1>2 DEF CountJob
  <2> QED BY <2>1, <2>2, <2>3, <2>4, GotoType DEF TypeOK
<1>3. CASE AbandonJob(j)
  <2>1. Goto(j, "ended")
    BY <1>3 DEF AbandonJob
  <2>2. queue' \in Seq(Tasks)
    BY <1>3, QueueType DEF TypeOK, AbandonJob, AtGate
  <2> QED BY <1>3, <2>1, <2>2, GotoType, FinishPendingType DEF TypeOK, AbandonJob
<1>4. CASE StartRebuild(j) \/ StartReconcile(j)
  <2>1. Goto(j, "reading") /\ Acquire(j)
    BY <1>4 DEF StartRebuild, StartReconcile
  <2>2. queue' \in Seq(Tasks) /\ gate' \in Tasks \cup {NoTask} /\ base' \in [Tasks -> Nat]
    BY <2>1, QueueType DEF TypeOK, Acquire, AtGate
  <2>3. work' \in [Tasks -> Work]
    BY <1>4, BeginsWork DEF Prepares
  <2>4. rows' = rows
    BY <2>1 DEF Acquire
  <2> QED BY <2>1, <2>2, <2>3, <2>4, GotoType DEF TypeOK, Acquire
<1>5. CASE FinishJob(j)
  <2>1. Goto(j, "ended")
    BY <1>5 DEF FinishJob
  <2> QED BY <1>5, <2>1, GotoType, FinishPendingType DEF TypeOK, FinishJob
<1> QED BY <1>1, <1>2, <1>3, <1>4, <1>5 DEF JobStep

LEMMA RefreshTypeOK ==
  ASSUME TypeOK, NEW h \in Handlers, RefreshStep(h)
  PROVE  TypeOK'
<1> USE JobsAreNotHandlers, EmptyTypes
    DEF env, status, lock, installed, RefreshStages, HoldsGate, WorkerStages
<1>1. CASE MarkPathsPendingRefresh(h)
  <2>1. Goto(h, "queued")
    BY <1>1 DEF MarkPathsPendingRefresh
  <2>2. queue' \in Seq(Tasks) /\ pending_refresh' \in [Paths -> Nat]
    BY <1>1, QueueType DEF TypeOK, MarkPathsPendingRefresh
  <2> QED BY <1>1, <2>1, <2>2, GotoType DEF TypeOK, MarkPathsPendingRefresh
<1>2. CASE AbandonRefresh(h)
  <2>1. Goto(h, "idle")
    BY <1>2 DEF AbandonRefresh
  <2>2. queue' \in Seq(Tasks) /\ args' \in [Handlers -> Args]
    BY <1>2, QueueType DEF TypeOK, AbandonRefresh, AtGate
  <2> QED BY <1>2, <2>1, <2>2, GotoType DEF TypeOK, AbandonRefresh
<1>3. CASE StartRefresh(h)
  <2>1. Acquire(h) /\ (Goto(h, "reading") \/ Goto(h, "persisting"))
    BY <1>3 DEF StartRefresh
  <2>2. queue' \in Seq(Tasks) /\ gate' \in Tasks \cup {NoTask} /\ base' \in [Tasks -> Nat]
    BY <2>1, QueueType DEF TypeOK, Acquire, AtGate
  <2>3. work' \in [Tasks -> Work]
    BY <1>3, BeginsWork DEF Prepares
  <2> QED BY <2>1, <2>2, <2>3, GotoType DEF TypeOK, Acquire
<1>4. CASE FinishRefresh(h)
  <2>1. Goto(h, "idle")
    BY <1>4 DEF FinishRefresh
  <2> QED BY <1>4, <2>1, GotoType DEF TypeOK, FinishRefresh
<1> QED BY <1>1, <1>2, <1>3, <1>4 DEF RefreshStep

LEMMA WorkerTypeOK ==
  ASSUME TypeOK, NEW t \in Tasks, WorkerStep(t) \/ WorkerFault(t)
  PROVE  TypeOK'
<1> USE JobsAreNotHandlers
    DEF env, status, lock, installed, JobStages, RefreshStages, HoldsGate, WorkerStages
<1>1. WorkerStep(t) => work' \in [Tasks -> Work]
  <2>1. work[t].generation > -1
    BY DEF TypeOK, Work
  <2> QED BY <2>1, ContinuesWork DEF Prepares
<1>2. ASSUME NEW p \in Paths, ReadPath(t, p) PROVE TypeOK'
  <2>1. work' \in [Tasks -> Work]
    BY <1>1, <1>2 DEF WorkerStep
  <2>2. \E stage \in {"reading", "rereading", "persisting", "repersisting"} : Goto(t, stage)
    BY <1>2 DEF ReadPath
  <2> QED BY <1>2, <2>1, <2>2, GotoType DEF TypeOK, ReadPath
<1>3. CASE PersistPaths(t)
  <2>1. work' \in [Tasks -> Work] /\ Goto(t, "returned")
    BY <1>1, <1>3 DEF WorkerStep, PersistPaths, Return
  <2>2. rows' \in [Dbs -> [Paths -> Row]]
    <3>1. work[t] \in Work /\ CanPersist(work[t])
      BY <1>3 DEF TypeOK, PersistPaths
    <3>2. RowsAfter(work[t]) \in [Paths -> Row]
      BY <3>1, RowsAfterType
    <3>3. rows' = rows \/ rows' = [rows EXCEPT ![work[t].db] = RowsAfter(work[t])]
      BY <1>3 DEF PersistPaths
    <3> QED BY <3>2, <3>3 DEF TypeOK
  <2>3. UNCHANGED <<env, status, shutting_down, args, lock, base, installed>>
    BY <1>3 DEF PersistPaths
  <2> QED BY <2>1, <2>2, <2>3, GotoType DEF TypeOK
<1>4. CASE FallBack(t) \/ GiveUpPersisting(t)
  <2>1. work' \in [Tasks -> Work]
    BY <1>1, <1>4 DEF WorkerStep
  <2>2. \E stage \in {"repersisting", "rereading", "returned"} : Goto(t, stage)
    BY <1>4 DEF FallBack, GiveUpPersisting, Return
  <2>3. UNCHANGED <<env, status, shutting_down, args, lock, base, installed, rows>>
    BY <1>4 DEF FallBack, GiveUpPersisting, PersistFails
  <2> QED BY <2>1, <2>2, <2>3, GotoType DEF TypeOK
<1>5. CASE WorkerErrs(t)
  <2>1. Goto(t, "failed")
    BY <1>5 DEF WorkerErrs
  <2> QED BY <1>5, <2>1, GotoType DEF TypeOK, WorkerErrs
<1>6. CASE WorkerPanics(t)
  <2>1. Goto(t, "lost")
    BY <1>6 DEF WorkerPanics
  <2> QED BY <1>6, <2>1, GotoType DEF TypeOK, WorkerPanics
<1> QED BY <1>2, <1>3, <1>4, <1>5, <1>6 DEF WorkerStep, WorkerFault

LEMMA ReturnTypeOK ==
  ASSUME TypeOK, NEW t \in Tasks, ReturnStep(t)
  PROVE  TypeOK'
<1> USE JobsAreNotHandlers, EmptyTypes
    DEF env, status, lock, installed, JobStages, RefreshStages, HoldsGate, WorkerStages
<1>1. CASE GoInstall(t)
  <2>1. Goto(t, "installing")
    BY <1>1 DEF GoInstall
  <2> QED BY <1>1, <2>1, GotoType DEF TypeOK, GoInstall
<1>2. Release(t) => /\ gate' \in Tasks \cup {NoTask} /\ queue' \in Seq(Tasks)
                    /\ base' \in [Tasks -> Nat] /\ work' \in [Tasks -> Work]
  BY DEF TypeOK, Release
<1>3. CASE DropResult(t) \/ RejectResult(t)
  <2>1. Goto(t, "finishing") /\ Release(t)
    BY <1>3 DEF DropResult, RejectResult
  <2>2. UNCHANGED <<env, status, shutting_down, args, installed, rows>>
    BY <1>3 DEF DropResult, RejectResult
  <2> QED BY <1>2, <2>1, <2>2, GotoType DEF TypeOK
<1>4. CASE Install(t)
  <2>1. Goto(t, "finishing") /\ Release(t)
    BY <1>4 DEF Install
  <2>2. store' \in Store /\ generation' \in Nat
    BY <1>4 DEF TypeOK, Install, Work, Store
  <2>3. pending_refresh' \in [Paths -> Nat]
    BY <1>4 DEF TypeOK, Install, FinalizePendingRefresh
  <2>4. basis' \in Nat /\ late' \in Nat
    BY <1>4 DEF TypeOK, Install
  <2>5. synced' \in Nat
    BY <1>4 DEF TypeOK, Install
  <2>6. UNCHANGED <<env, status, shutting_down, args, rows>>
    BY <1>4 DEF Install
  <2> QED BY <1>2, <2>1, <2>2, <2>3, <2>4, <2>5, <2>6, GotoType DEF TypeOK
<1> QED BY <1>1, <1>3, <1>4 DEF ReturnStep

LEMMA NextTypeOK == TypeOK /\ [Next]_vars => TypeOK'
<1>1. TypeOK /\ Next => TypeOK'
  BY EnvironmentTypeOK, JobTypeOK, RefreshTypeOK, WorkerTypeOK, ReturnTypeOK DEF Next, System
<1>2. TypeOK /\ UNCHANGED vars => TypeOK'
  BY DEF TypeOK, vars, env, status, lock, installed
<1> QED BY <1>1, <1>2

(* Every reachable state keeps the types of the Rust declarations, for     *)
(* every instance: in particular job_generation never leaves Jobs, and     *)
(* neither an index nor a row holds a file that could not be read.         *)
THEOREM TypeCorrect == Spec => []TypeOK
BY InitTypeOK, NextTypeOK, PTL DEF Spec

-----------------------------------------------------------------------------
(* The jobs that exist are the ones the generation counter has named.      *)
Spawned == \A j \in Jobs : pc[j] = "unborn" <=> j > job_generation

LEMMA InitSpawned == Init => Spawned
BY JobsAreNotHandlers DEF Init, Spawned, Jobs

LEMMA TaskStepForm ==
  ASSUME NEW t \in Tasks,
         \/ t \in Jobs /\ JobStep(t)
         \/ t \in Handlers /\ RefreshStep(t)
         \/ WorkerStep(t) \/ WorkerFault(t) \/ ReturnStep(t)
  PROVE  /\ job_generation' = job_generation /\ shutting_down' = shutting_down
         /\ pc[t] # "unborn"
         /\ \E stage : Goto(t, stage) /\ stage # "unborn"
<1> USE DEF status, env, HoldsGate, WorkerStages
<1>1. CASE t \in Jobs /\ JobStep(t)
  BY <1>1 DEF JobStep, EndAtShutdown, CountJob, AbandonJob, StartRebuild, StartReconcile,
              FinishJob, Acquire, AtGate
<1>2. CASE t \in Handlers /\ RefreshStep(t)
  BY <1>2 DEF RefreshStep, MarkPathsPendingRefresh, AbandonRefresh, StartRefresh,
              FinishRefresh, Acquire, AtGate
<1>3. CASE WorkerStep(t)
  <2>1. ASSUME NEW p \in Paths, ReadPath(t, p)
        PROVE  pc[t] # "unborn" /\ \E stage : Goto(t, stage) /\ stage # "unborn"
    BY <2>1 DEF ReadPath
  <2>2. job_generation' = job_generation /\ shutting_down' = shutting_down
    BY <1>3 DEF WorkerStep, ReadPath, PersistPaths, FallBack, GiveUpPersisting, PersistFails
  <2>3. CASE PersistPaths(t)
    BY <2>2, <2>3 DEF PersistPaths, Return
  <2>4. CASE FallBack(t)
    BY <2>2, <2>4 DEF FallBack
  <2>5. CASE GiveUpPersisting(t)
    BY <2>2, <2>5 DEF GiveUpPersisting, PersistFails, Return
  <2> QED BY <1>3, <2>1, <2>2, <2>3, <2>4, <2>5 DEF WorkerStep
<1>4. CASE WorkerFault(t)
  BY <1>4 DEF WorkerFault, WorkerErrs, WorkerPanics
<1>5. CASE ReturnStep(t)
  BY <1>5 DEF ReturnStep, GoInstall, DropResult, Install, RejectResult
<1> QED BY <1>1, <1>2, <1>3, <1>4, <1>5

LEMMA NextSpawned == TypeOK /\ Spawned /\ [Next]_vars => Spawned'
<1> SUFFICES ASSUME TypeOK, Spawned, [Next]_vars PROVE Spawned'
  OBVIOUS
<1> USE JobsAreNotHandlers
<1>1. CASE RebuildIndex
  <2>1. job_generation \in Jobs /\ job_generation + 1 \in Jobs
    BY <1>1, BoundsAssumption DEF TypeOK, RebuildIndex, Jobs
  <2>2. pc' = [pc EXCEPT ![job_generation + 1] = "spawned"] /\ job_generation' = job_generation + 1
    BY <1>1 DEF RebuildIndex, Goto
  <2>3. pc \in [Tasks -> JobStages \cup RefreshStages]
    BY DEF TypeOK
  <2> QED BY <2>1, <2>2, <2>3 DEF Spawned, Jobs
<1>2. ASSUME NEW t \in Tasks, NEW stage, pc[t] # "unborn", stage # "unborn", Goto(t, stage),
             job_generation' = job_generation
      PROVE  Spawned'
  BY <1>2 DEF TypeOK, Spawned, Goto
<1>3. CASE Environment /\ ~RebuildIndex
  <2>1. job_generation' = job_generation
    BY <1>3 DEF Environment, Edit, ChangeWatchedFiles, Save, Shutdown, status
  <2>2. pc' = pc \/ \E h \in Handlers : pc[h] = "idle" /\ Goto(h, "received")
    BY <1>3 DEF Environment, Edit, ChangeWatchedFiles, Save, Shutdown, Takes
  <2> QED BY <1>2, <2>1, <2>2 DEF Spawned
<1>4. CASE System
  BY <1>2, <1>4, TaskStepForm DEF System
<1>5. CASE UNCHANGED vars
  BY <1>5 DEF Spawned, vars, status
<1> QED BY <1>1, <1>3, <1>4, <1>5 DEF Next

-----------------------------------------------------------------------------
(* The gate.  GateSerialises is not inductive: that an install leaves the  *)
(* other tasks' copies current needs the gate's owner to be unique, and    *)
(* that it is one version forward needs the worker's generation.           *)

Exclusive == \A t \in Tasks : pc[t] \in HoldsGate <=> gate = t
Current   == \A t \in Tasks : pc[t] \in HoldsGate => base[t] = generation
Ahead     == \A t \in Tasks : pc[t] \in HoldsGate => work[t].generation > generation
LateOnce  == late \in {0, 1} /\ (late = 1 => shutting_down /\ gate = NoTask)
GateInv   == Exclusive /\ Current /\ Ahead /\ LateOnce

LEMMA InitGateInv == Init => GateInv
<1> SUFFICES ASSUME Init PROVE GateInv
  OBVIOUS
<1>1. \A t \in Tasks : pc[t] \notin HoldsGate
  BY DEF Init, HoldsGate, WorkerStages
<1>2. gate = NoTask /\ late = 0
  BY DEF Init
<1> QED BY <1>1, <1>2, JobsAreNotHandlers DEF GateInv, Exclusive, Current, Ahead, LateOnce

\* A step that neither takes nor leaves the gate.
LEMMA Bystander ==
  ASSUME GateInv, UNCHANGED <<gate, base, work, generation, late>>,
         shutting_down => shutting_down',
         \A t \in Tasks : pc'[t] \in HoldsGate <=> pc[t] \in HoldsGate
  PROVE  GateInv'
BY DEF GateInv, Exclusive, Current, Ahead, LateOnce

\* A step of one task between two stages, neither of which holds the gate.
LEMMA Passerby ==
  ASSUME TypeOK, GateInv, UNCHANGED <<gate, base, work, generation, late>>,
         shutting_down => shutting_down',
         NEW t \in Tasks, NEW stage, Goto(t, stage),
         pc[t] \notin HoldsGate, stage \notin HoldsGate
  PROVE  GateInv'
BY Bystander DEF TypeOK, Goto

LEMMA EnvironmentGateInv ==
  ASSUME TypeOK, Spawned, GateInv, Environment
  PROVE  GateInv'
<1> USE JobsAreNotHandlers DEF HoldsGate, WorkerStages
<1>1. UNCHANGED <<gate, base, work, generation, late>> /\ (shutting_down => shutting_down')
  <2>1. CASE Shutdown
    BY <2>1 DEF Shutdown, lock, installed
  <2>2. CASE RebuildIndex
    BY <2>2 DEF RebuildIndex, lock, installed
  <2>3. ASSUME NEW p \in Paths, NEW c \in Contents, Edit(p, c)
        PROVE  UNCHANGED <<gate, base, work, generation, late, shutting_down>>
    BY <2>3 DEF Edit, lock, installed
  <2>4. ASSUME NEW h \in Handlers, NEW n \in 1..Len(events), ChangeWatchedFiles(h, n)
        PROVE  UNCHANGED <<gate, base, work, generation, late, shutting_down>>
    BY <2>4 DEF ChangeWatchedFiles, lock, installed
  <2>5. ASSUME NEW h \in Handlers, NEW p \in Paths, Save(h, p)
        PROVE  UNCHANGED <<gate, base, work, generation, late, shutting_down>>
    BY <2>5 DEF Save, lock, installed
  <2> QED BY <2>1, <2>2, <2>3, <2>4, <2>5 DEF Environment
<1>2. CASE pc' = pc
  BY <1>1, <1>2, Bystander
<1>3. ASSUME NEW h \in Handlers, pc[h] = "idle", Goto(h, "received")
      PROVE  GateInv'
  BY <1>1, <1>3, Passerby
<1>4. CASE RebuildIndex
  <2>1. job_generation \in Jobs /\ job_generation + 1 \in Jobs
    BY <1>4, BoundsAssumption DEF TypeOK, RebuildIndex, Jobs
  <2>2. pc[job_generation + 1] = "unborn"
    BY <2>1 DEF Spawned, Jobs
  <2>3. Goto(job_generation + 1, "spawned")
    BY <1>4 DEF RebuildIndex
  <2> QED BY <1>1, <2>1, <2>2, <2>3, Passerby
<1> QED BY <1>2, <1>3, <1>4
    DEF Environment, Edit, ChangeWatchedFiles, Save, Takes, Shutdown

\* Taking the gate.
LEMMA AcquireGateInv ==
  ASSUME TypeOK, GateInv, NEW t \in Tasks, Acquire(t), Prepares(t, generation),
         NEW stage \in {"reading", "persisting"}, Goto(t, stage)
  PROVE  GateInv'
<1> USE JobsAreNotHandlers
<1>1. /\ gate = NoTask /\ gate' = t /\ generation' = generation /\ late' = late
      /\ base' = [base EXCEPT ![t] = generation] /\ shutting_down' = shutting_down
      /\ ~shutting_down
  BY DEF Acquire, AtGate, installed
<1>2. \A other \in Tasks : pc[other] \notin HoldsGate
  BY <1>1 DEF GateInv, Exclusive
<1>3. \A other \in Tasks : pc'[other] \in HoldsGate <=> other = t
  BY <1>2 DEF TypeOK, Goto, HoldsGate, WorkerStages
<1>4. base'[t] = generation /\ work'[t].generation > generation
  BY <1>1 DEF TypeOK, Prepares
<1> QED BY <1>1, <1>3, <1>4 DEF GateInv, Exclusive, Current, Ahead, LateOnce

LEMMA JobGateInv ==
  ASSUME TypeOK, GateInv, NEW j \in Jobs, JobStep(j)
  PROVE  GateInv'
<1> USE JobsAreNotHandlers
<1>1. CASE EndAtShutdown(j) \/ CountJob(j) \/ AbandonJob(j) \/ FinishJob(j)
  <2>1. UNCHANGED <<gate, base, work, generation, late, shutting_down>>
    BY <1>1 DEF EndAtShutdown, CountJob, AbandonJob, FinishJob, lock, installed
  <2>2. pc[j] \notin HoldsGate /\ \E stage : stage \notin HoldsGate /\ Goto(j, stage)
    BY <1>1 DEF EndAtShutdown, CountJob, AbandonJob, FinishJob, AtGate, HoldsGate, WorkerStages
  <2> QED BY <2>1, <2>2, Passerby
<1>2. CASE StartRebuild(j) \/ StartReconcile(j)
  <2>1. Acquire(j) /\ Goto(j, "reading")
    BY <1>2 DEF StartRebuild, StartReconcile
  <2>2. Prepares(j, generation)
    BY <1>2, BeginsWork
  <2> QED BY <2>1, <2>2, AcquireGateInv
<1> QED BY <1>1, <1>2 DEF JobStep

LEMMA RefreshGateInv ==
  ASSUME TypeOK, GateInv, NEW h \in Handlers, RefreshStep(h)
  PROVE  GateInv'
<1> USE JobsAreNotHandlers
<1>1. CASE MarkPathsPendingRefresh(h) \/ AbandonRefresh(h) \/ FinishRefresh(h)
  <2>1. UNCHANGED <<gate, base, work, generation, late, shutting_down>>
    BY <1>1 DEF MarkPathsPendingRefresh, AbandonRefresh, FinishRefresh, lock, installed
  <2>2. pc[h] \notin HoldsGate /\ \E stage : stage \notin HoldsGate /\ Goto(h, stage)
    BY <1>1 DEF MarkPathsPendingRefresh, AbandonRefresh, FinishRefresh, AtGate,
                HoldsGate, WorkerStages
  <2> QED BY <2>1, <2>2, Passerby
<1>2. CASE StartRefresh(h)
  <2>1. Acquire(h) /\ \E stage \in {"reading", "persisting"} : Goto(h, stage)
    BY <1>2 DEF StartRefresh
  <2>2. Prepares(h, generation)
    BY <1>2, BeginsWork
  <2> QED BY <2>1, <2>2, AcquireGateInv
<1> QED BY <1>1, <1>2 DEF RefreshStep

\* A step of the gate's owner that keeps the gate.
LEMMA OwnerGateInv ==
  ASSUME TypeOK, GateInv, UNCHANGED <<gate, base, generation, late, shutting_down>>,
         NEW t \in Tasks, pc[t] \in HoldsGate, Prepares(t, generation),
         NEW stage \in HoldsGate, Goto(t, stage)
  PROVE  GateInv'
<1>1. \A other \in Tasks : pc'[other] \in HoldsGate <=> pc[other] \in HoldsGate
  BY DEF TypeOK, Goto
<1> QED BY <1>1 DEF GateInv, Exclusive, Current, Ahead, LateOnce, Prepares

LEMMA WorkerGateInv ==
  ASSUME TypeOK, GateInv, NEW t \in Tasks, WorkerStep(t) \/ WorkerFault(t)
  PROVE  GateInv'
<1> USE DEF HoldsGate, WorkerStages
<1>1. pc[t] \in HoldsGate
  BY DEF WorkerStep, ReadPath, PersistPaths, FallBack, GiveUpPersisting, PersistFails,
         WorkerFault, WorkerErrs, WorkerPanics
<1>2. gate = t /\ generation \in Nat /\ work[t].generation > generation
  BY <1>1 DEF TypeOK, GateInv, Exclusive, Ahead
<1>3. CASE WorkerStep(t)
  <2>1. UNCHANGED <<gate, base, generation, late, shutting_down>>
    BY <1>3 DEF WorkerStep, ReadPath, PersistPaths, FallBack, GiveUpPersisting, PersistFails,
                lock, installed
  <2>2. Prepares(t, generation)
    BY <1>2, <1>3, ContinuesWork
  <2>3. \E stage \in HoldsGate : Goto(t, stage)
    <3>1. ASSUME NEW p \in Paths, ReadPath(t, p) PROVE \E stage \in HoldsGate : Goto(t, stage)
      BY <3>1 DEF ReadPath
    <3>2. PersistPaths(t) \/ GiveUpPersisting(t) => Goto(t, "returned")
      BY DEF PersistPaths, GiveUpPersisting, Return
    <3>3. FallBack(t) => Goto(t, "repersisting") \/ Goto(t, "rereading")
      BY DEF FallBack
    <3> QED BY <1>3, <3>1, <3>2, <3>3 DEF WorkerStep
  <2> QED BY <1>1, <2>1, <2>2, <2>3, OwnerGateInv
<1>4. CASE WorkerErrs(t)
  <2>1. /\ UNCHANGED <<gate, base, work, generation, late, shutting_down>>
        /\ Goto(t, "failed")
    BY <1>4 DEF WorkerErrs, lock, installed
  <2>2. Prepares(t, generation)
    BY <1>2, <2>1 DEF TypeOK, Prepares
  <2> QED BY <1>1, <2>1, <2>2, OwnerGateInv
<1>5. CASE WorkerPanics(t)
  <2>1. /\ UNCHANGED <<base, work, generation, late, shutting_down>>
        /\ gate' = NoTask /\ Goto(t, "lost")
    BY <1>5 DEF WorkerPanics, installed
  <2>2. \A other \in Tasks : pc'[other] \notin HoldsGate
    BY <1>2, <2>1 DEF TypeOK, Goto, GateInv, Exclusive
  <2>3. late' = 0
    BY <1>2, <2>1, JobsAreNotHandlers DEF GateInv, LateOnce
  <2> QED BY <2>1, <2>2, <2>3, JobsAreNotHandlers
      DEF GateInv, Exclusive, Current, Ahead, LateOnce
<1> QED BY <1>3, <1>4, <1>5 DEF WorkerFault

LEMMA ReturnGateInv ==
  ASSUME TypeOK, GateInv, NEW t \in Tasks, ReturnStep(t)
  PROVE  GateInv'
<1> USE JobsAreNotHandlers DEF HoldsGate, WorkerStages
<1>1. CASE GoInstall(t)
  <2>1. /\ UNCHANGED <<gate, base, work, generation, late, shutting_down>>
        /\ Goto(t, "installing") /\ pc[t] \in HoldsGate
    BY <1>1 DEF GoInstall, lock, installed
  <2>2. Prepares(t, generation)
    BY <2>1 DEF TypeOK, Prepares, GateInv, Ahead
  <2> QED BY <2>1, <2>2, OwnerGateInv
<1>2. ASSUME Release(t), Goto(t, "finishing"), late' \in {0, 1},
             late' = 1 => shutting_down' /\ gate' = NoTask,
             generation' = generation \/ gate = t
      PROVE  GateInv'
  <2>1. gate' = (IF gate = t THEN NoTask ELSE gate)
    BY <1>2 DEF Release
  <2>2. \A other \in Tasks : pc'[other] \in HoldsGate <=> pc[other] \in HoldsGate /\ other # t
    BY <1>2 DEF TypeOK, Goto
  <2>3. Exclusive'
    BY <2>1, <2>2 DEF GateInv, Exclusive
  <2>4. \A other \in Tasks : pc'[other] \in HoldsGate =>
          /\ generation' = generation
          /\ base'[other] = base[other] /\ work'[other] = work[other]
    <3>1. ASSUME NEW other \in Tasks, pc'[other] \in HoldsGate
          PROVE  other # t /\ gate = other
      BY <2>2, <3>1 DEF GateInv, Exclusive
    <3>2. \A other \in Tasks : other # t => base'[other] = base[other] /\ work'[other] = work[other]
      BY <1>2 DEF Release, TypeOK
    <3> QED BY <1>2, <3>1, <3>2
  <2>5. Current' /\ Ahead'
    BY <2>2, <2>4 DEF GateInv, Current, Ahead
  <2> QED BY <1>2, <2>3, <2>5 DEF GateInv, LateOnce
<1>3. CASE DropResult(t) \/ RejectResult(t)
  <2>1. /\ Release(t) /\ Goto(t, "finishing")
        /\ UNCHANGED <<generation, late, shutting_down>>
    BY <1>3 DEF DropResult, RejectResult, installed
  <2>2. late' \in {0, 1} /\ (late' = 1 => shutting_down' /\ gate' = NoTask)
    BY <2>1 DEF Release, GateInv, LateOnce
  <2> QED BY <1>2, <2>1, <2>2
<1>4. CASE Install(t)
  <2>1. /\ Release(t) /\ Goto(t, "finishing") /\ pc[t] \in HoldsGate
        /\ late' = (IF shutting_down THEN late + 1 ELSE late) /\ shutting_down' = shutting_down
    BY <1>4 DEF Install
  <2>2. gate = t
    BY <2>1 DEF GateInv, Exclusive
  <2>3. late = 0
    BY <2>2 DEF GateInv, LateOnce
  <2>4. gate' = NoTask
    BY <2>1, <2>2 DEF Release
  <2>5. late' \in {0, 1} /\ (late' = 1 => shutting_down')
    BY <2>1, <2>3
  <2> QED BY <1>2, <2>1, <2>2, <2>4, <2>5
<1> QED BY <1>1, <1>3, <1>4 DEF ReturnStep

LEMMA NextGateInv == TypeOK /\ Spawned /\ GateInv /\ [Next]_vars => GateInv'
<1>1. TypeOK /\ Spawned /\ GateInv /\ Next => GateInv'
  BY EnvironmentGateInv, JobGateInv, RefreshGateInv, WorkerGateInv, ReturnGateInv
     DEF Next, System
<1>2. TypeOK /\ Spawned /\ GateInv /\ UNCHANGED vars => GateInv'
  BY DEF GateInv, Exclusive, Current, Ahead, LateOnce, vars, lock, installed
<1> QED BY <1>1, <1>2

\* The inductive invariant of the module.
IInv == TypeOK /\ Spawned /\ GateInv

LEMMA SpecIInv == Spec => []IInv
<1>1. Init => IInv
  BY InitTypeOK, InitSpawned, InitGateInv DEF IInv
<1>2. IInv /\ [Next]_vars => IInv'
  BY NextTypeOK, NextSpawned, NextGateInv DEF IInv
<1> QED BY <1>1, <1>2, PTL DEF Spec

(* No two tasks are ever between taking the gate and dropping its guard,   *)
(* and the installed index a task copied is still installed when it comes  *)
(* back: the generation check of index_job_result_is_current only ever     *)
(* turns a job away because a newer job was requested.                     *)
THEOREM Serialised == Spec => []GateSerialises
<1>1. IInv => GateSerialises
  BY DEF IInv, GateInv, Exclusive, Current, GateSerialises
<1> QED BY <1>1, SpecIInv, PTL

(* Once the server is shutting down, the work winds down, whatever was     *)
(* queued: no task takes the gate, and neither the index nor a database    *)
(* changes after the one install that may follow the shutdown.             *)
THEOREM Quiets == Spec => QuietAfterShutdown
<1>1. ASSUME IInv, [Next]_vars, shutting_down
      PROVE  /\ gate' \in {gate, NoTask}
             /\ store' # store \/ rows' # rows => late = 0
  <2> USE <1>1, JobsAreNotHandlers DEF IInv
  <2> DEFINE Quiet == /\ gate' \in {gate, NoTask}
                      /\ store' # store \/ rows' # rows => late = 0
  <2>1. CASE Environment \/ UNCHANGED vars
    <3>1. UNCHANGED <<gate, store, rows>>
      BY <2>1 DEF Environment, Edit, ChangeWatchedFiles, Save, RebuildIndex, Shutdown,
                  vars, lock, installed
    <3> QED BY <3>1
  <2>2. ASSUME NEW t \in Tasks, pc[t] \in HoldsGate, gate' \in {gate, NoTask} PROVE Quiet
    BY <2>2 DEF GateInv, Exclusive, LateOnce
  <2>3. ASSUME NEW t \in Tasks, WorkerStep(t) \/ WorkerFault(t) PROVE Quiet
    <3>1. pc[t] \in HoldsGate /\ gate' \in {gate, NoTask}
      BY <2>3 DEF WorkerStep, ReadPath, PersistPaths, FallBack, GiveUpPersisting, PersistFails,
                  WorkerFault, WorkerErrs, WorkerPanics, HoldsGate, WorkerStages, lock
    <3> QED BY <2>2, <3>1
  <2>4. ASSUME NEW t \in Tasks, ReturnStep(t) PROVE Quiet
    <3>1. gate' \in {gate, NoTask}
      BY <2>4 DEF ReturnStep, GoInstall, DropResult, Install, RejectResult, Release, lock
    <3>2. CASE Install(t)
      BY <2>2, <3>1, <3>2 DEF Install, HoldsGate, WorkerStages
    <3>3. CASE GoInstall(t) \/ DropResult(t) \/ RejectResult(t)
      BY <3>1, <3>3 DEF GoInstall, DropResult, RejectResult, installed
    <3> QED BY <2>4, <3>2, <3>3 DEF ReturnStep
  <2>5. ASSUME NEW j \in Jobs, JobStep(j) PROVE Quiet
    BY <2>5 DEF JobStep, EndAtShutdown, CountJob, AbandonJob, StartRebuild, StartReconcile,
                FinishJob, Acquire, lock, installed
  <2>6. ASSUME NEW h \in Handlers, RefreshStep(h) PROVE Quiet
    BY <2>6 DEF RefreshStep, MarkPathsPendingRefresh, AbandonRefresh, StartRefresh,
                FinishRefresh, Acquire, lock, installed
  <2> QED BY <2>1, <2>3, <2>4, <2>5, <2>6 DEF Next, System
<1>2. IInv /\ [Next]_vars =>
        [shutting_down => /\ gate' \in {gate, NoTask}
                          /\ store' # store \/ rows' # rows => late = 0]_vars
  BY <1>1
<1> QED BY <1>2, SpecIInv, PTL DEF Spec, QuietAfterShutdown

(* The installed index is a SnapshotRegister: every install replaces the   *)
(* version it was computed from, by a later one, and the shutdown closes   *)
(* the register but for one last replacement.                              *)
THEOREM Implements == Spec => ReplacesItsBasis
<1>1. Init => Register!Init
  BY DEF Init, Register!Init
<1>2. ASSUME IInv, [Next]_vars
      PROVE  [Register!Next]_<<generation, basis, shutting_down, late>>
  <2> USE <1>2 DEF IInv
  <2> DEFINE Same == UNCHANGED <<generation, basis, shutting_down, late>>
  <2>1. ASSUME NEW t \in Tasks, Install(t) PROVE Register!Replace
    <3>1. /\ generation' = work[t].generation /\ basis' = base[t]
          /\ late' = (IF shutting_down THEN late + 1 ELSE late)
          /\ shutting_down' = shutting_down /\ pc[t] \in HoldsGate
      BY <2>1 DEF Install, HoldsGate, WorkerStages
    <3>2. /\ gate = t /\ base[t] = generation /\ work[t].generation > generation
          /\ work[t].generation \in Nat
      BY <3>1 DEF GateInv, Exclusive, Current, Ahead, TypeOK, Work
    <3>3. late = 0
      BY <3>2, JobsAreNotHandlers DEF GateInv, LateOnce
    <3> QED BY <3>1, <3>2, <3>3 DEF Register!Replace
  <2>2. CASE Shutdown
    BY <2>2 DEF Shutdown, installed, Register!Next, Register!Close
  <2>3. CASE Environment /\ ~Shutdown
    <3>1. Same
      BY <2>3 DEF Environment, Edit, ChangeWatchedFiles, Save, RebuildIndex, installed
    <3> QED BY <3>1
  <2>4. ASSUME NEW t \in Tasks, WorkerStep(t) \/ WorkerFault(t) PROVE Same
    BY <2>4 DEF WorkerStep, ReadPath, PersistPaths, FallBack, GiveUpPersisting, PersistFails,
                WorkerFault, WorkerErrs, WorkerPanics, installed
  <2>5. ASSUME NEW t \in Tasks, ReturnStep(t), ~Install(t) PROVE Same
    BY <2>5 DEF ReturnStep, GoInstall, DropResult, RejectResult, installed
  <2>6. ASSUME NEW j \in Jobs, JobStep(j) PROVE Same
    BY <2>6 DEF JobStep, EndAtShutdown, CountJob, AbandonJob, StartRebuild, StartReconcile,
                FinishJob, Acquire, installed
  <2>7. ASSUME NEW h \in Handlers, RefreshStep(h) PROVE Same
    BY <2>7 DEF RefreshStep, MarkPathsPendingRefresh, AbandonRefresh, StartRefresh,
                FinishRefresh, Acquire, installed
  <2>8. CASE UNCHANGED vars
    BY <2>8 DEF vars, installed
  <2> QED BY <1>2, <2>1, <2>2, <2>3, <2>4, <2>5, <2>6, <2>7, <2>8
      DEF Next, System, Register!Next
<1> QED BY <1>1, <1>2, SpecIInv, PTL DEF Spec, ReplacesItsBasis, Register!Spec

-----------------------------------------------------------------------------
(* The counter of pending jobs.                                            *)

CountedJobs == {j \in Jobs : Counted(j)}

LEMMA CountedFinite ==
  IsFiniteSet(CountedJobs) /\ Cardinality(CountedJobs) \in Nat
<1>1. IsFiniteSet(Jobs)
  BY BoundsAssumption, FS_Interval DEF Jobs
<1> QED BY <1>1, FS_Subset, FS_CardinalityType DEF CountedJobs

\* A step that neither counts a job nor finishes one.
LEMMA SameCount ==
  ASSUME PendingJobsExact, CountedJobs' = CountedJobs,
         UNCHANGED <<pending_jobs, pending_task>>
  PROVE  PendingJobsExact'
BY DEF PendingJobsExact, CountedJobs

LEMMA TaskMoves ==
  ASSUME TypeOK, NEW t \in Tasks, NEW stage, Goto(t, stage),
         t \in Jobs => (Counted(t) <=> stage \notin {"unborn", "spawned", "ended"})
  PROVE  CountedJobs' = CountedJobs
<1> SUFFICES ASSUME NEW j \in Jobs PROVE Counted(j)' <=> Counted(j)
  BY DEF CountedJobs
<1>1. j \in Tasks /\ pc \in [Tasks -> JobStages \cup RefreshStages]
  BY DEF TypeOK, Tasks
<1>2. CASE j = t
  BY <1>1, <1>2 DEF Goto, Counted
<1>3. CASE j # t
  BY <1>1, <1>3 DEF Goto, Counted
<1> QED BY <1>2, <1>3

LEMMA JobCounts ==
  ASSUME TypeOK, PendingJobsExact, NEW j \in Jobs, CountJob(j)
  PROVE  PendingJobsExact'
<1> USE DEF CountJob
<1>1. j \in Tasks /\ pc \in [Tasks -> JobStages \cup RefreshStages] /\ j \notin CountedJobs
  BY DEF TypeOK, Tasks, CountedJobs, Counted
<1>2. CountedJobs' = CountedJobs \cup {j}
  BY <1>1 DEF Goto, CountedJobs, Counted
<1>3. Cardinality(CountedJobs') = Cardinality(CountedJobs) + 1
  BY <1>1, <1>2, CountedFinite, FS_AddElement
<1>4. pending_jobs' = pending_jobs + 1 /\ pending_jobs = Cardinality(CountedJobs)
  BY DEF PendingJobsExact, CountedJobs
<1>5. pending_task' # NoTask /\ pending_jobs' # 0
  BY <1>4, CountedFinite, TaskAssumption
<1> QED BY <1>3, <1>4, <1>5 DEF PendingJobsExact, CountedJobs

\* Finishing never finds the counter at zero: the branch of FinishPending that keeps it
\* there is not taken.
LEMMA JobIsFinished ==
  ASSUME TypeOK, PendingJobsExact, NEW j \in Jobs, Counted(j), FinishPending, Goto(j, "ended")
  PROVE  PendingJobsExact'
<1>1. j \in Tasks /\ pc \in [Tasks -> JobStages \cup RefreshStages] /\ j \in CountedJobs
  BY DEF TypeOK, Tasks, CountedJobs
<1>2. CountedJobs' = CountedJobs \ {j}
  BY <1>1 DEF Goto, CountedJobs, Counted
<1>3. Cardinality(CountedJobs') = Cardinality(CountedJobs) - 1
  BY <1>1, <1>2, CountedFinite, FS_RemoveElement
<1>4. CountedJobs # {} /\ Cardinality(CountedJobs) \in Nat \ {0}
  BY <1>1, CountedFinite, FS_EmptySet
<1>5. pending_jobs = Cardinality(CountedJobs) /\ pending_task # NoTask
  BY <1>4 DEF PendingJobsExact, CountedJobs
<1>6. pending_jobs' = pending_jobs - 1
  BY <1>4, <1>5 DEF FinishPending
<1>7. pending_task' = NoTask <=> pending_jobs' = 0
  BY <1>5 DEF FinishPending
<1> QED BY <1>3, <1>5, <1>6, <1>7 DEF PendingJobsExact, CountedJobs

\* A worker and what becomes of its result leave the counter alone.
LEMMA WorkKeepsCount ==
  ASSUME TypeOK, PendingJobsExact, NEW t \in Tasks,
         WorkerStep(t) \/ WorkerFault(t) \/ ReturnStep(t)
  PROVE  PendingJobsExact'
<1> DEFINE Uncounted == {"unborn", "spawned", "ended"}
<1> USE DEF HoldsGate, WorkerStages
<1>1. CASE WorkerStep(t)
  <2>1. UNCHANGED <<pending_jobs, pending_task>>
    BY <1>1 DEF WorkerStep, ReadPath, PersistPaths, FallBack, GiveUpPersisting, PersistFails, status
  <2>2. pc[t] \notin Uncounted /\ \E stage : Goto(t, stage) /\ stage \notin Uncounted
    <3>1. ASSUME NEW p \in Paths, ReadPath(t, p)
          PROVE  pc[t] \notin Uncounted /\ \E stage : Goto(t, stage) /\ stage \notin Uncounted
      BY <3>1 DEF ReadPath
    <3>2. CASE PersistPaths(t)
      BY <3>2 DEF PersistPaths, Return
    <3>3. CASE FallBack(t)
      BY <3>3 DEF FallBack
    <3>4. CASE GiveUpPersisting(t)
      BY <3>4 DEF GiveUpPersisting, PersistFails, Return
    <3> QED BY <1>1, <3>1, <3>2, <3>3, <3>4 DEF WorkerStep
  <2> QED BY <2>1, <2>2, TaskMoves, SameCount DEF Counted
<1>2. CASE WorkerFault(t)
  <2>1. /\ UNCHANGED <<pending_jobs, pending_task>>
        /\ pc[t] \notin Uncounted /\ \E stage : Goto(t, stage) /\ stage \notin Uncounted
    BY <1>2 DEF WorkerFault, WorkerErrs, WorkerPanics, status
  <2> QED BY <2>1, TaskMoves, SameCount DEF Counted
<1>3. CASE ReturnStep(t)
  <2>1. /\ UNCHANGED <<pending_jobs, pending_task>>
        /\ pc[t] \notin Uncounted /\ \E stage : Goto(t, stage) /\ stage \notin Uncounted
    BY <1>3 DEF ReturnStep, GoInstall, DropResult, Install, RejectResult, status
  <2> QED BY <2>1, TaskMoves, SameCount DEF Counted
<1> QED BY <1>1, <1>2, <1>3

LEMMA JobKeepsCount ==
  ASSUME TypeOK, PendingJobsExact, NEW j \in Jobs, JobStep(j)
  PROVE  PendingJobsExact'
<1> USE JobsAreNotHandlers
<1>1. CASE CountJob(j)
  BY <1>1, JobCounts
<1>2. CASE AbandonJob(j) \/ FinishJob(j)
  <2>1. Counted(j) /\ FinishPending /\ Goto(j, "ended")
    BY <1>2 DEF AbandonJob, FinishJob, AtGate, Counted
  <2> QED BY <2>1, JobIsFinished
<1>3. CASE EndAtShutdown(j)
  <2>1. /\ UNCHANGED <<pending_jobs, pending_task>>
        /\ ~Counted(j) /\ Goto(j, "ended")
    BY <1>3 DEF EndAtShutdown, Counted, status
  <2> QED BY <2>1, TaskMoves, SameCount
<1>4. CASE StartRebuild(j) \/ StartReconcile(j)
  <2>1. /\ UNCHANGED <<pending_jobs, pending_task>>
        /\ Counted(j) /\ Goto(j, "reading")
    BY <1>4 DEF StartRebuild, StartReconcile, Acquire, AtGate, Counted, status
  <2> QED BY <2>1, TaskMoves, SameCount
<1> QED BY <1>1, <1>2, <1>3, <1>4 DEF JobStep

LEMMA EnvironmentKeepsCount ==
  ASSUME TypeOK, Spawned, PendingJobsExact, Environment
  PROVE  PendingJobsExact'
<1> USE JobsAreNotHandlers
<1>1. UNCHANGED <<pending_jobs, pending_task>>
  BY DEF Environment, Edit, ChangeWatchedFiles, Save, RebuildIndex, Shutdown, status
<1>2. CASE RebuildIndex
  <2>1. job_generation + 1 \in Jobs /\ pc[job_generation + 1] = "unborn"
    BY <1>2, BoundsAssumption DEF TypeOK, Spawned, RebuildIndex, Jobs
  <2>2. ~Counted(job_generation + 1) /\ Goto(job_generation + 1, "spawned")
    BY <1>2, <2>1 DEF RebuildIndex, Counted
  <2> QED BY <1>1, <2>1, <2>2, TaskMoves, SameCount
<1>3. CASE ~RebuildIndex
  <2>1. pc' = pc \/ \E h \in Handlers : Goto(h, "received")
    BY <1>3 DEF Environment, Edit, ChangeWatchedFiles, Save, Shutdown
  <2>2. CountedJobs' = CountedJobs
    BY <2>1, TaskMoves DEF CountedJobs, Counted
  <2> QED BY <1>1, <2>2, SameCount
<1> QED BY <1>2, <1>3

LEMMA RefreshKeepsCount ==
  ASSUME TypeOK, PendingJobsExact, NEW h \in Handlers, RefreshStep(h)
  PROVE  PendingJobsExact'
<1> USE JobsAreNotHandlers
<1>1. ASSUME NEW stage, Goto(h, stage), UNCHANGED <<pending_jobs, pending_task>>
      PROVE  PendingJobsExact'
  BY <1>1, TaskMoves, SameCount
<1>2. CASE MarkPathsPendingRefresh(h)
  BY <1>1, <1>2 DEF MarkPathsPendingRefresh, status
<1>3. CASE AbandonRefresh(h)
  BY <1>1, <1>3 DEF AbandonRefresh, status
<1>4. CASE StartRefresh(h)
  <2>1. UNCHANGED <<pending_jobs, pending_task>>
    BY <1>4 DEF StartRefresh, Acquire, status
  <2>2. \E stage : Goto(h, stage)
    BY <1>4 DEF StartRefresh
  <2> QED BY <1>1, <2>1, <2>2
<1>5. CASE FinishRefresh(h)
  BY <1>1, <1>5 DEF FinishRefresh, status
<1> QED BY <1>2, <1>3, <1>4, <1>5 DEF RefreshStep

(* The status bar's pending_jobs is the number of jobs that announced      *)
(* themselves and have not finished, whatever is abandoned, fails or       *)
(* panics, and the decrement of finish_pending_index_job never meets zero. *)
THEOREM CountsExactly == Spec => []PendingJobsExact
<1>1. Init => PendingJobsExact
  <2> SUFFICES ASSUME Init PROVE PendingJobsExact
    OBVIOUS
  <2>1. CountedJobs = {}
    BY JobsAreNotHandlers DEF Init, CountedJobs, Counted
  <2> QED BY <2>1, FS_EmptySet DEF Init, PendingJobsExact, CountedJobs
<1>2. IInv /\ PendingJobsExact /\ [Next]_vars => PendingJobsExact'
  <2> SUFFICES ASSUME IInv, PendingJobsExact, [Next]_vars PROVE PendingJobsExact'
    OBVIOUS
  <2>1. CASE Environment
    BY <2>1, EnvironmentKeepsCount DEF IInv
  <2>2. CASE System
    BY <2>2, WorkKeepsCount, JobKeepsCount, RefreshKeepsCount DEF IInv, System
  <2>3. CASE UNCHANGED vars
    BY <2>3, SameCount DEF vars, status, CountedJobs, Counted
  <2> QED BY <2>1, <2>2, <2>3 DEF Next
<1> QED BY <1>1, <1>2, SpecIInv, PTL DEF Spec

-----------------------------------------------------------------------------
(* Marks and rows, in sessions whose cached counts are never damaged (a    *)
(* worker that found damage completes its marks even without rows).  What  *)
(* a refresh has done is among the rows it is going to write, with what it *)
(* read; nobody else writes rows before it has installed its index.        *)

InRows(w, p) == p \in w.fresh \/ (p \in w.gone /\ w.files[p] = Absent)

Ready(w) ==
  /\ ~w.damaged /\ w.completed = NoMarks
  /\ w.full => \A p \in w.todo : w.files[p] = Absent
  /\ ~w.full => w.todo \cap w.done = {}
  /\ \A p \in Paths \ w.todo : w.full \/ p \in w.done => InRows(w, p)

Written(w) == \A p \in Paths : w.completed[p] # 0 => rows[w.db][p].src = w.files[p]

Clear(t) ==
  /\ pc[t] \in WorkerStages => Ready(work[t])
  /\ pc[t] \in {"persisting", "repersisting"} => work[t].todo = {}
  /\ pc[t] \in {"returned", "installing"} => Written(work[t])

ClearInv == \A t \in Tasks : Clear(t)

LEMMA InitClear == Init => ClearInv
BY JobsAreNotHandlers DEF Init, ClearInv, Clear, WorkerStages

\* A step of one task disturbs no other's work, and no other's rows if it holds the gate.
LEMMA OthersClear ==
  ASSUME TypeOK, GateInv, ClearInv, NEW t \in Tasks, NEW stage, Goto(t, stage),
         \A s \in Tasks \ {t} : work'[s] = work[s],
         rows' = rows \/ pc[t] \in HoldsGate,
         Clear(t)'
  PROVE  ClearInv'
<1> SUFFICES ASSUME NEW s \in Tasks, s # t PROVE Clear(s)'
  BY DEF ClearInv
<1>1. pc'[s] = pc[s] /\ work'[s] = work[s] /\ Clear(s)
  BY DEF TypeOK, Goto, ClearInv
<1>2. pc[s] \in {"returned", "installing"} => rows' = rows
  BY DEF GateInv, Exclusive, HoldsGate
<1> QED BY <1>1, <1>2 DEF Clear, Written

LEMMA FullPassReady ==
  ASSUME NEW w \in Work, ~w.damaged, w.completed = NoMarks
  PROVE  Ready(FullPass(w))
<1>1. /\ FullPass(w).files = NoFiles /\ FullPass(w).todo = Paths /\ FullPass(w).full
      /\ FullPass(w).damaged = w.damaged /\ FullPass(w).completed = w.completed
  BY DEF FullPass, Work
<1> QED BY <1>1 DEF Ready, NoFiles

\* What reading one path changes: what is known of that path.
ReadsOnly(w, r, p) ==
  /\ r.damaged = w.damaged /\ r.completed = w.completed /\ r.full = w.full
  /\ \A q \in Paths \ {p} : /\ r.files[q] = w.files[q] /\ (q \in r.done <=> q \in w.done)
                            /\ (q \in r.fresh <=> q \in w.fresh)
                            /\ (q \in r.gone <=> q \in w.gone)
  /\ w.full \/ p \in r.done \ w.done => InRows(r, p)

LEMMA WorkFiles == \A w \in Work : w.files \in [Paths -> Held]
BY DEF Work

LEMMA ReadFullOnly ==
  ASSUME NEW w \in Work, Ready(w), w.full, NEW p \in w.todo
  PROVE  ReadsOnly(w, ReadFull(w, p), p)
<1>1. p \in Paths /\ w.files[p] = Absent
  BY DEF Work, Ready
<1>2. CASE Indexable(p, disk[p])
  <2>1. ReadFull(w, p) = [w EXCEPT !.files = [w.files EXCEPT ![p] = disk[p]],
                               !.fresh = w.fresh \cup {p}]
    BY <1>2 DEF ReadFull
  <2> DEFINE r == ReadFull(w, p)
  <2>2. /\ r.damaged = w.damaged /\ r.completed = w.completed /\ r.full = w.full
        /\ r.done = w.done /\ r.gone = w.gone
        /\ r.fresh = w.fresh \cup {p} /\ r.files = [w.files EXCEPT ![p] = disk[p]]
    BY <2>1 DEF Work
  <2> HIDE DEF r
  <2>3. ReadsOnly(w, r, p)
    BY <1>1, <2>2, WorkFiles DEF ReadsOnly, InRows
  <2> QED BY <2>3 DEF r
<1>3. CASE ~Indexable(p, disk[p])
  <2>1. ReadFull(w, p) = [w EXCEPT !.gone = @ \cup {p}]
    BY <1>3 DEF ReadFull
  <2> QED BY <1>1, <2>1 DEF Work, ReadsOnly, InRows
<1> QED BY <1>2, <1>3

LEMMA ReadRefreshOnly ==
  ASSUME NEW w \in Work, ~w.full, NEW p \in w.todo
  PROVE  ReadsOnly(w, ReadRefresh(w, p), p)
<1>1. p \in Paths
  BY DEF Work
<1>2. CASE Indexable(p, disk[p])
  <2>1. ReadRefresh(w, p) = [w EXCEPT !.files = [w.files EXCEPT ![p] = disk[p]],
                                      !.fresh = w.fresh \cup {p}, !.done = w.done \cup {p}]
    BY <1>2 DEF ReadRefresh
  <2> DEFINE r == ReadRefresh(w, p)
  <2>2. /\ r.damaged = w.damaged /\ r.completed = w.completed /\ r.full = w.full
        /\ r.done = w.done \cup {p} /\ r.gone = w.gone
        /\ r.fresh = w.fresh \cup {p} /\ r.files = [w.files EXCEPT ![p] = disk[p]]
    BY <2>1 DEF Work
  <2> HIDE DEF r
  <2>3. ReadsOnly(w, r, p)
    BY <1>1, <2>2, WorkFiles DEF ReadsOnly, InRows
  <2> QED BY <2>3 DEF r
<1>3. CASE ~Indexable(p, disk[p]) /\ (disk[p] = Absent \/ p \in Excluded)
  <2>1. ReadRefresh(w, p) = [w EXCEPT !.files = [@ EXCEPT ![p] = Absent]]
    BY <1>3 DEF ReadRefresh
  <2> QED BY <1>1, <2>1 DEF Work, ReadsOnly
<1>4. CASE ~Indexable(p, disk[p]) /\ ~(disk[p] = Absent \/ p \in Excluded)
  BY <1>4 DEF ReadRefresh, ReadsOnly
<1> QED BY <1>2, <1>3, <1>4

LEMMA ReadKeepsTodo ==
  ASSUME NEW t, NEW w \in Work, NEW p PROVE Read(t, w, p).todo = w.todo
BY DEF Read, ReadFull, ReadRefresh, ReadReconcile, Work

LEMMA ReadReady ==
  ASSUME TypeOK, NEW t \in Tasks, NEW w \in Work, Ready(w), NEW p \in w.todo
  PROVE  Ready([Read(t, w, p) EXCEPT !.todo = @ \ {p}])
<1> DEFINE r == Read(t, w, p)
           n == [r EXCEPT !.todo = @ \ {p}]
<1>1. p \in Paths /\ r \in Work /\ r.todo = w.todo
  <2>1. p \in Paths /\ r \in Work
    BY ReadType DEF Work
  <2>2. r.todo = w.todo
    BY ReadKeepsTodo
  <2> QED BY <2>1, <2>2
<1>2. ReadsOnly(w, r, p)
  <2>1. CASE w.full
    BY <2>1, ReadFullOnly DEF Read
  <2>2. CASE ~w.full /\ t \in Handlers
    BY <2>2, ReadRefreshOnly DEF Read
  <2>3. CASE ~w.full /\ t \notin Handlers
    BY <1>1, <2>3 DEF Read, ReadReconcile, ReadsOnly, Work
  <2> QED BY <2>1, <2>2, <2>3
<1>3. /\ n.todo = w.todo \ {p} /\ n.files = r.files /\ n.fresh = r.fresh /\ n.gone = r.gone
      /\ n.done = r.done /\ n.full = r.full /\ n.damaged = r.damaged
      /\ n.completed = r.completed
  BY <1>1 DEF Work
<1> HIDE DEF r, n
<1>4. \A q \in Paths \ n.todo : n.full \/ q \in n.done => InRows(n, q)
  <2> SUFFICES ASSUME NEW q \in Paths \ n.todo, n.full \/ q \in n.done PROVE InRows(n, q)
    OBVIOUS
  <2>1. CASE q = p
    BY <1>2, <1>3, <2>1 DEF Ready, ReadsOnly, InRows
  <2>2. CASE q # p
    BY <1>2, <1>3, <2>2 DEF Ready, ReadsOnly, InRows
  <2> QED BY <2>1, <2>2
<1>5. n.full => \A q \in n.todo : n.files[q] = Absent
  BY <1>1, <1>2, <1>3 DEF Ready, ReadsOnly, Work
<1>6. ~n.full => n.todo \cap n.done = {}
  BY <1>1, <1>2, <1>3 DEF Ready, ReadsOnly, Work
<1>7. Ready(n)
  BY <1>2, <1>3, <1>4, <1>5, <1>6 DEF Ready, ReadsOnly
<1> QED BY <1>7 DEF n, r

\* The marks of an index whose rows were written are those of its rows.
LEMMA RowsWritten ==
  ASSUME NEW w \in Work, Ready(w), w.todo = {}, NEW p \in Paths, Completed(w)[p] # 0
  PROVE  RowsAfter(w)[p].src = w.files[p]
<1>1. p \in w.done
  BY DEF Completed, Ready
<1>2. InRows(w, p)
  BY <1>1 DEF Ready
<1> QED BY <1>2 DEF InRows, RowsAfter, NoRow

\* A refresh completes marks only when its rows were written, a job never.
LEMMA UnmarkedResult ==
  ASSUME NEW t, NEW w \in Work, NEW persisted \in BOOLEAN, NEW table,
         ~w.damaged, w.completed = NoMarks, t \notin Handlers \/ ~persisted
  PROVE  Result(t, w, persisted, table).completed = NoMarks
BY DEF Result, Work

LEMMA MarkedResult ==
  ASSUME NEW t \in Handlers, NEW w \in Work, NEW table, ~w.damaged
  PROVE  LET result == Result(t, w, TRUE, table)
         IN  result.completed = Completed(w) /\ result.files = w.files /\ result.db = w.db
<1> DEFINE cached == IF w.backed THEN Cached(table) ELSE w.cached
           marks == Completed(w)
<1>1. Result(t, w, TRUE, table) = [w EXCEPT !.completed = marks, !.cached = cached]
  BY DEF Result
<1> HIDE DEF marks, cached
<1>2. /\ [w EXCEPT !.completed = marks, !.cached = cached].completed = marks
      /\ [w EXCEPT !.completed = marks, !.cached = cached].files = w.files
      /\ [w EXCEPT !.completed = marks, !.cached = cached].db = w.db
  BY DEF Work
<1> QED BY <1>1, <1>2 DEF marks

LEMMA ReturnClear ==
  ASSUME TypeOK, GateInv, ClearInv, NEW t \in Tasks, NEW persisted \in BOOLEAN,
         pc[t] \in {"persisting", "repersisting"},
         Return(t, persisted, rows'[work[t].db]),
         IF persisted /\ ~NothingToPersist(t, work[t])
         THEN rows' = [rows EXCEPT ![work[t].db] = RowsAfter(work[t])] ELSE rows' = rows
  PROVE  ClearInv'
<1> DEFINE w == work[t]
           r == Result(t, w, persisted, rows'[w.db])
<1>1. w \in Work /\ Ready(w) /\ w.todo = {} /\ pc[t] \in HoldsGate
  BY DEF TypeOK, ClearInv, Clear, WorkerStages, HoldsGate
<1>2. work' = [work EXCEPT ![t] = r] /\ Goto(t, "returned") /\ work'[t] = r
  BY DEF Return, TypeOK
<1>3. Written(work[t])'
  <2>1. CASE t \notin Handlers \/ ~persisted
    <3>1. r.completed = NoMarks
      BY <1>1, <2>1, UnmarkedResult DEF Ready
    <3> QED BY <1>2, <3>1 DEF Written, NoMarks
  <2>2. CASE t \in Handlers /\ persisted
    <3>1. work'[t].completed = Completed(w) /\ work'[t].files = w.files /\ work'[t].db = w.db
      <4>1. ~w.damaged
        BY <1>1 DEF Ready
      <4>2. persisted = TRUE
        BY <2>2
      <4> HIDE DEF w
      <4>3. \A table : LET result == Result(t, w, TRUE, table)
                       IN  /\ result.completed = Completed(w)
                           /\ result.files = w.files /\ result.db = w.db
        BY <1>1, <2>2, <4>1, MarkedResult
      <4>4. work'[t] = Result(t, w, TRUE, rows'[w.db])
        BY <1>2, <4>2
      <4> QED BY <4>3, <4>4
    <3>2. rows'[w.db] = RowsAfter(w)
      BY <1>1, <2>2, JobsAreNotHandlers DEF NothingToPersist, TypeOK, Work
    <3> QED BY <1>1, <3>1, <3>2, RowsWritten DEF Written
  <2> QED BY <2>1, <2>2
<1>4. Clear(t)'
  BY <1>2, <1>3 DEF Clear, Goto, TypeOK, WorkerStages
<1>5. \A s \in Tasks \ {t} : work'[s] = work[s]
  BY <1>2 DEF TypeOK
<1> QED BY <1>1, <1>2, <1>4, <1>5, OthersClear

LEMMA WorkerClear ==
  ASSUME IInv, ClearInv, NEW t \in Tasks, WorkerStep(t) \/ WorkerFault(t)
  PROVE  ClearInv'
<1> USE DEF IInv
<1>1. pc \in [Tasks -> JobStages \cup RefreshStages] /\ work \in [Tasks -> Work] /\ Clear(t)
  BY DEF TypeOK, ClearInv
<1>2. ASSUME NEW p \in Paths, ReadPath(t, p) PROVE ClearInv'
  <2>1. Ready(work[t]) /\ p \in work[t].todo /\ work[t] \in Work
    BY <1>1, <1>2 DEF ReadPath, Clear, WorkerStages
  <2>2. work' = [work EXCEPT ![t] = [Read(t, work[t], p) EXCEPT !.todo = @ \ {p}]]
    BY <1>2 DEF ReadPath
  <2>3. Ready(work'[t])
    BY <1>1, <2>1, <2>2, ReadReady
  <2>4. work'[t].todo = work[t].todo \ {p}
    <3>1. Read(t, work[t], p) \in Work /\ Read(t, work[t], p).todo = work[t].todo
      BY <2>1, ReadType, ReadKeepsTodo
    <3> QED BY <1>1, <2>2, <3>1 DEF Work
  <2>5. PICK stage : /\ Goto(t, stage) /\ stage \in WorkerStages
                     /\ stage \in {"persisting", "repersisting"} => work[t].todo = {p}
    BY <1>2 DEF ReadPath, WorkerStages
  <2>6. Clear(t)'
    BY <1>1, <2>3, <2>4, <2>5 DEF Clear, Goto, WorkerStages, Ready
  <2> QED BY <1>1, <1>2, <2>2, <2>5, <2>6, OthersClear DEF ReadPath
<1>3. CASE PersistPaths(t)
  BY <1>3, ReturnClear DEF PersistPaths
<1>4. CASE FallBack(t)
  <2> DEFINE w == [work[t] EXCEPT !.db = "fallback"]
  <2>1. Ready(work[t]) /\ work[t].todo = {} /\ work[t] \in Work
    BY <1>1, <1>4 DEF FallBack, Clear, WorkerStages
  <2>2. w \in Work /\ Ready(w) /\ w.todo = {}
    BY <2>1 DEF Work, Dbs, Ready, InRows
  <2>3. CASE w.full
    <3>1. work' = [work EXCEPT ![t] = w] /\ Goto(t, "repersisting") /\ rows' = rows
      BY <1>4, <2>3 DEF FallBack, PersistFails
    <3> HIDE DEF w
    <3>2. Clear(t)'
      BY <1>1, <2>2, <3>1 DEF Clear, Goto, WorkerStages, Ready
    <3> QED BY <1>1, <3>1, <3>2, OthersClear
  <2>4. CASE ~w.full
    <3>1. work' = [work EXCEPT ![t] = FullPass(w)] /\ Goto(t, "rereading") /\ rows' = rows
      BY <1>4, <2>4 DEF FallBack, PersistFails
    <3> HIDE DEF w
    <3>2. Ready(FullPass(w))
      BY <2>2, FullPassReady DEF Ready
    <3>3. Clear(t)'
      BY <1>1, <3>1, <3>2 DEF Clear, Goto, WorkerStages, Ready
    <3> QED BY <1>1, <3>1, <3>3, OthersClear
  <2> QED BY <2>3, <2>4
<1>5. CASE GiveUpPersisting(t)
  BY <1>5, ReturnClear DEF GiveUpPersisting, PersistFails
<1>6. CASE WorkerFault(t)
  <2>1. PICK stage \in {"failed", "lost"} : Goto(t, stage)
    BY <1>6 DEF WorkerFault, WorkerErrs, WorkerPanics
  <2>2. work' = work /\ rows' = rows
    BY <1>6 DEF WorkerFault, WorkerErrs, WorkerPanics
  <2>3. Clear(t)'
    BY <1>1, <2>1 DEF Clear, Goto, WorkerStages
  <2> QED BY <2>1, <2>2, <2>3, OthersClear
<1> QED BY <1>2, <1>3, <1>4, <1>5, <1>6 DEF WorkerStep

LEMMA ReturnStepClear ==
  ASSUME IInv, ClearInv, NEW t \in Tasks, ReturnStep(t)
  PROVE  ClearInv'
<1> USE DEF IInv
<1>1. pc \in [Tasks -> JobStages \cup RefreshStages] /\ work \in [Tasks -> Work] /\ Clear(t)
  BY DEF TypeOK, ClearInv
<1>2. CASE GoInstall(t)
  <2>1. Goto(t, "installing") /\ work' = work /\ rows' = rows /\ pc[t] = "returned"
    BY <1>2 DEF GoInstall
  <2>2. Clear(t)'
    BY <1>1, <2>1 DEF Clear, Goto, WorkerStages, Written
  <2> QED BY <2>1, <2>2, OthersClear
<1>3. CASE DropResult(t) \/ Install(t) \/ RejectResult(t)
  <2>1. Goto(t, "finishing") /\ work' = [work EXCEPT ![t] = NoWork] /\ rows' = rows
    BY <1>3 DEF DropResult, Install, RejectResult, Release
  <2>2. Clear(t)'
    BY <1>1, <2>1 DEF Clear, Goto, WorkerStages
  <2> QED BY <1>1, <2>1, <2>2, OthersClear
<1> QED BY <1>2, <1>3 DEF ReturnStep

\* A copy is ready to be worked on: it has completed nothing yet.
LEMMA StartsReady ==
  ASSUME "damaged" \notin Faults, IInv, ClearInv, NEW t \in Tasks,
         \/ t \in Jobs /\ (StartRebuild(t) \/ StartReconcile(t))
         \/ t \in Handlers /\ StartRefresh(t)
  PROVE  /\ Ready(work'[t]) /\ work' = [work EXCEPT ![t] = work'[t]] /\ rows' = rows
         /\ \/ Goto(t, "reading")
            \/ Goto(t, "persisting") /\ work'[t].todo = {}
<1> USE DEF IInv
<1>1. work \in [Tasks -> Work] /\ Clone \in Work /\ NoWork \in Work
  BY CloneType, EmptyTypes DEF TypeOK
<1>2. ~Clone.damaged /\ Clone.completed = NoMarks /\ Clone.done = {} /\ ~Clone.full
  BY DEF Clone, NoWork
<1>3. CASE t \in Jobs /\ StartRebuild(t)
  <2> DEFINE fresh == [NoWork EXCEPT !.generation = generation, !.db = store.db]
  <2>1. fresh \in Work /\ ~fresh.damaged /\ fresh.completed = NoMarks
    BY <1>1 DEF TypeOK, Store, Work, NoWork
  <2>2. work' = [work EXCEPT ![t] = FullPass(fresh)] /\ Goto(t, "reading") /\ rows' = rows
    BY <1>3 DEF StartRebuild, Acquire
  <2> HIDE DEF fresh
  <2> QED BY <1>1, <2>1, <2>2, FullPassReady
<1>4. CASE t \in Jobs /\ StartReconcile(t)
  <2> DEFINE copy == [Clone EXCEPT !.files = NoFiles, !.todo = Paths, !.generation = @ + 1]
  <2>1. Ready(copy)
    BY <1>1, <1>2 DEF Ready, Work
  <2>2. work' = [work EXCEPT ![t] = copy] /\ Goto(t, "reading") /\ rows' = rows
    BY <1>4 DEF StartReconcile, Acquire
  <2> HIDE DEF copy
  <2> QED BY <1>1, <2>1, <2>2
<1>5. CASE t \in Handlers /\ StartRefresh(t)
  <2> DEFINE todo == args[t].changed \ args[t].deleted
             mine == [p \in Paths |-> IF p \in args[t].changed \cup args[t].deleted
                                      THEN pending_refresh[p] ELSE 0]
             kept == [p \in Paths |-> IF p \in args[t].deleted THEN Absent ELSE store.files[p]]
             copy == [[Clone EXCEPT !.snapshot = mine]
                        EXCEPT !.files = kept, !.todo = todo, !.gone = args[t].deleted,
                               !.done = args[t].deleted, !.generation = @ + 1]
  <2>1. /\ ~copy.damaged /\ copy.completed = NoMarks /\ ~copy.full /\ copy.files = kept
        /\ copy.todo = todo /\ copy.gone = args[t].deleted /\ copy.done = args[t].deleted
    BY <1>1, <1>2 DEF Work
  <2>2. work' = [work EXCEPT ![t] = copy] /\ rows' = rows
    BY <1>5 DEF StartRefresh, Acquire
  <2>3. Goto(t, IF todo = {} THEN "persisting" ELSE "reading")
    BY <1>5 DEF StartRefresh
  <2> HIDE DEF copy
  <2>4. Ready(copy)
    BY <2>1 DEF Ready, InRows
  <2> QED BY <1>1, <2>1, <2>2, <2>3, <2>4
<1> QED BY <1>3, <1>4, <1>5

LEMMA NextClear ==
  ASSUME "damaged" \notin Faults, IInv, ClearInv, [Next]_vars
  PROVE  ClearInv'
<1> USE JobsAreNotHandlers DEF IInv
<1>1. pc \in [Tasks -> JobStages \cup RefreshStages] /\ work \in [Tasks -> Work]
  BY DEF TypeOK
<1>2. ASSUME NEW t \in Tasks, NEW stage, Goto(t, stage), UNCHANGED <<work, rows>>,
             stage \notin HoldsGate
      PROVE  ClearInv'
  <2>1. Clear(t)'
    BY <1>1, <1>2 DEF Clear, Goto, HoldsGate, WorkerStages
  <2> QED BY <1>2, <2>1, OthersClear
<1>3. CASE UNCHANGED <<pc, work, rows>>
  BY <1>3 DEF ClearInv, Clear, Written
<1>4. CASE Environment
  <2>1. UNCHANGED <<work, rows>>
    BY <1>4 DEF Environment, Edit, ChangeWatchedFiles, Save, RebuildIndex, Shutdown
  <2>2. \/ pc' = pc
        \/ \E h \in Handlers : Goto(h, "received")
        \/ job_generation + 1 \in Jobs /\ Goto(job_generation + 1, "spawned")
    <3>1. CASE RebuildIndex
      BY <3>1, BoundsAssumption DEF RebuildIndex, TypeOK, Jobs
    <3>2. CASE ~RebuildIndex
      BY <1>4, <3>2 DEF Environment, Edit, ChangeWatchedFiles, Save, Shutdown
    <3> QED BY <3>1, <3>2
  <2> QED BY <1>2, <1>3, <2>1, <2>2 DEF HoldsGate, WorkerStages
<1>5. ASSUME NEW t \in Tasks,
             \/ t \in Jobs /\ (StartRebuild(t) \/ StartReconcile(t))
             \/ t \in Handlers /\ StartRefresh(t)
      PROVE  ClearInv'
  <2>1. PICK stage \in {"reading", "persisting"} :
          Goto(t, stage) /\ (stage = "persisting" => work'[t].todo = {})
    BY <1>5, StartsReady
  <2>2. Ready(work'[t]) /\ work' = [work EXCEPT ![t] = work'[t]] /\ rows' = rows
    BY <1>5, StartsReady
  <2>3. Clear(t)'
    BY <1>1, <2>1, <2>2 DEF Clear, Goto, WorkerStages, Ready
  <2> QED BY <1>1, <2>1, <2>2, <2>3, OthersClear
<1>6. ASSUME NEW j \in Jobs, JobStep(j) PROVE ClearInv'
  <2>1. CASE StartRebuild(j) \/ StartReconcile(j)
    <3>1. j \in Tasks
      OBVIOUS
    <3> QED BY <1>5, <2>1, <3>1
  <2>2. CASE ~(StartRebuild(j) \/ StartReconcile(j))
    <3>1. UNCHANGED <<work, rows>> /\ \E stage \in {"ended", "queued"} : Goto(j, stage)
      BY <1>6, <2>2 DEF JobStep, EndAtShutdown, CountJob, AbandonJob, FinishJob
    <3> QED BY <1>2, <3>1 DEF HoldsGate, WorkerStages
  <2> QED BY <2>1, <2>2
<1>7. ASSUME NEW h \in Handlers, RefreshStep(h) PROVE ClearInv'
  <2>1. CASE StartRefresh(h)
    BY <1>5, <2>1
  <2>2. CASE ~StartRefresh(h)
    <3>1. UNCHANGED <<work, rows>> /\ \E stage \in {"idle", "queued"} : Goto(h, stage)
      BY <1>7, <2>2 DEF RefreshStep, MarkPathsPendingRefresh, AbandonRefresh, FinishRefresh
    <3> QED BY <1>2, <3>1 DEF HoldsGate, WorkerStages
  <2> QED BY <2>1, <2>2
<1>8. CASE System
  BY <1>6, <1>7, <1>8, WorkerClear, ReturnStepClear DEF System
<1> QED BY <1>3, <1>4, <1>8 DEF Next, vars

(* A refresh takes a mark back only when the rows it wrote say what its    *)
(* index says (finalize_pending_refresh_install), for any paths, handlers  *)
(* and failing writes, unless the cached counts were damaged: then the     *)
(* mark goes with the rebuild, whether or not its rows could be written.   *)
THEOREM ClearsWhenPersisted ==
  "damaged" \notin Faults /\ Spec => MarkClearedWhenPersisted
<1> DEFINE Kept == \A p \in Paths : pending_refresh[p] > 0 /\ pending_refresh'[p] = 0
                                     => rows[store'.db][p].src = store'.files[p]
<1>1. ASSUME IInv, ClearInv, [Next]_vars PROVE Kept
  <2> USE <1>1 DEF IInv
  <2>1. ASSUME NEW t \in Tasks, Install(t) PROVE Kept
    <3>1. Written(work[t])
      BY <2>1 DEF ClearInv, Clear, Install
    <3>2. /\ store'.db = work[t].db /\ store'.files = work[t].files
          /\ pending_refresh' = FinalizePendingRefresh(work[t].completed)
      BY <2>1 DEF Install
    <3> QED BY <3>1, <3>2 DEF Written, FinalizePendingRefresh, TypeOK
  <2>2. ASSUME pending_refresh' = pending_refresh PROVE Kept
    BY <2>2
  <2>3. ASSUME NEW h \in Handlers, MarkPathsPendingRefresh(h) PROVE Kept
    BY <2>3 DEF MarkPathsPendingRefresh, TypeOK
  <2>4. CASE Environment \/ UNCHANGED vars
    BY <2>2, <2>4 DEF Environment, Edit, ChangeWatchedFiles, Save, RebuildIndex, Shutdown,
                      vars, installed
  <2>5. ASSUME NEW j \in Jobs, JobStep(j) PROVE Kept
    BY <2>2, <2>5 DEF JobStep, EndAtShutdown, CountJob, AbandonJob, StartRebuild, StartReconcile,
                      FinishJob, Acquire, installed
  <2>6. ASSUME NEW h \in Handlers, RefreshStep(h) PROVE Kept
    BY <2>2, <2>3, <2>6 DEF RefreshStep, AbandonRefresh, StartRefresh, FinishRefresh, Acquire,
                            installed
  <2>7. ASSUME NEW t \in Tasks, WorkerStep(t) \/ WorkerFault(t) PROVE Kept
    BY <2>2, <2>7 DEF WorkerStep, ReadPath, PersistPaths, FallBack, GiveUpPersisting, PersistFails,
                      WorkerFault, WorkerErrs, WorkerPanics, installed
  <2>8. ASSUME NEW t \in Tasks, ReturnStep(t) PROVE Kept
    BY <2>1, <2>2, <2>8 DEF ReturnStep, GoInstall, DropResult, RejectResult, installed
  <2> QED BY <2>4, <2>5, <2>6, <2>7, <2>8 DEF Next, System
<1>2. ASSUME "damaged" \notin Faults PROVE Spec => MarkClearedWhenPersisted
  <2>1. IInv /\ ClearInv /\ [Next]_vars => ClearInv'
    BY <1>2, NextClear
  <2>2. IInv /\ ClearInv /\ [Next]_vars => [Kept]_vars
    BY <1>1
  <2> QED BY <2>1, <2>2, InitClear, SpecIInv, PTL DEF Spec, MarkClearedWhenPersisted
<1> QED BY <1>2

-----------------------------------------------------------------------------
(* No change is lost: what the theorems ask of a session.                 *)

\* Rows are lost as a whole or not at all: a rebuild that finds damage completes its marks
\* without rows, and one whose switch of databases fails installs stale rows.
Whole == Faults \cap {"damaged", "switch"} = {}

\* A deletion is noted without looking at the disk, so where files are deleted the order of
\* the notifications must be the order of the refreshes, and no refresh may end early.
Orderly == Deletions => /\ ~Overtaking /\ ~MixedBatches
                        /\ Faults \cap {"panic", "error"} = {}
Live    == Deletions => ~shutting_down

-----------------------------------------------------------------------------
(* The parts of the invariant.                                             *)

\* The gate's queue holds each waiting task once.
Queued ==
  /\ \A n \in 1..Len(queue) : pc[queue[n]] = "queued"
  /\ \A m, n \in 1..Len(queue) : queue[m] = queue[n] => m = n
  /\ \A t \in Tasks : pc[t] = "queued" => \E n \in 1..Len(queue) : queue[n] = t

\* The reconcile is over before anything is synced, or was superseded.
FirstJob ==
  /\ pc[1] \in HoldsGate => synced = 0
  /\ synced # 0 => job_generation > 1 \/ pc[1] \in {"finishing", "ended"}

\* Nothing is kept of an excluded path.
NoExcluded == \A p \in Excluded :
  /\ store.files[p] = Absent /\ \A d \in Dbs : rows[d][p] = NoRow
  /\ \A t \in Tasks : work[t].files[p] = Absent /\ p \notin work[t].fresh

NeverLost == Deletions => \A t \in Tasks : pc[t] \notin {"failed", "lost"}

\* A deletion on its way is still true, or a later event says what happened to it.
Later(i) == \E k \in 1..Len(events) :
  k > i /\ events[k].path = events[i].path /\ ~events[k].deleted
EventsOrdered == \A i \in 1..Len(events) : events[i].deleted =>
  Deletions /\ (disk[events[i].path] = Absent \/ Later(i))

\* The same of a deletion some handler has taken: the event on its way, or the handler that
\* will read the file again comes later.
Reported(p) == \E i \in 1..Len(events) : events[i].path = p /\ ~events[i].deleted
Follows(h, g) == \E m, n \in 1..Len(queue) : m < n /\ queue[m] = h /\ queue[n] = g
Behind(h, p) == \E g \in Handlers :
  /\ p \in args[g].changed
  /\ \/ pc[h] # "received" /\ pc[g] = "received"
     \/ pc[h] = "queued" /\ pc[g] = "queued" /\ Follows(h, g)
     \/ pc[h] \in HoldsGate /\ pc[g] = "queued"
Active == {"received", "queued"} \cup HoldsGate
DeletesOrdered == \A h \in Handlers : pc[h] \in Active => \A p \in args[h].deleted :
  /\ Deletions /\ p \notin args[h].changed
  /\ disk[p] = Absent \/ Reported(p) \/ Behind(h, p)

\* What the index should answer for a path, and an answer that needs no correction.
Expected(p) == IF Indexable(p, disk[p]) THEN disk[p] ELSE Absent
Right(p, c) == disk[p] = Unreadable \/ c = Expected(p)
Known(p)    == Unhandled(p) \/ pending_refresh[p] > 0

\* The mark of a path a task has seen, and a change of the path that it has not.
Seen(t, p)    == IF t \in Handlers THEN work[t].snapshot[p] ELSE 0
Newer(t, p)   == Unhandled(p) \/ pending_refresh[p] > Seen(t, p)
Told(t, p, c) == Right(p, c) \/ Newer(t, p)

\* What a worker has read was right, or a change it has not seen has come since.
ReadRight(t) == LET w == work[t] IN
  /\ \A p \in w.fresh : w.files[p] \in Sources /\ p \notin w.todo /\ Told(t, p, w.files[p])
  /\ w.full => ~w.cached /\ \A p \in Paths \ (w.todo \cup w.fresh) :
                                p \in w.gone /\ Told(t, p, Absent)

\* A refresh changes the answers for its own paths only.
RefreshRight(h) == LET w == work[h] IN
  /\ w.db = store.db /\ w.cached = store.cached /\ w.backed = store.cached
  /\ w.gone = args[h].deleted /\ w.todo \cup w.fresh \subseteq args[h].changed \ args[h].deleted
  /\ w.done = w.gone \cup w.fresh
  /\ \A p \in w.gone : w.files[p] = Absent
  /\ \A p \in Paths \ (args[h].changed \cup args[h].deleted) : w.files[p] = store.files[p]
  /\ \A p \in args[h].changed \ (args[h].deleted \cup w.fresh \cup w.todo) :
        disk[p] = Unreadable \/ Newer(h, p) \/ (Expected(p) = Absent /\ w.files[p] = Absent)

\* What the reconcile leaves in the database is right.
ReconcileRight(j) == LET w == work[j] IN
  /\ w.db = store.db /\ w.gone \cap w.todo = {}
  /\ job_generation = 1 => \A p \in Paths \ (w.todo \cup w.fresh) :
        Told(j, p, IF p \in w.gone THEN Absent ELSE rows[w.db][p].src)

Working(t) == LET w == work[t] IN pc[t] \in WorkerStages =>
  /\ ReadRight(t)
  /\ ~w.full => /\ pc[t] \in {"reading", "persisting"}
                /\ t \in Handlers => RefreshRight(t)
                /\ t \in Jobs => t = 1 /\ ReconcileRight(t)
  /\ w.full => \/ pc[t] \in {"rereading", "repersisting"} /\ w.db = "fallback"
               \/ t \in Jobs \ {1}

\* No mark is older than the one a task has seen.
SeenMarks == \A t \in Tasks, p \in Paths :
  pc[t] \in WorkerStages \cup {"returned", "installing"} => Seen(t, p) <= pending_refresh[p]

\* The answers of a returned index will be right, or be corrected.
Answer(w, p) == IF w.files[p] # Absent THEN w.files[p]
                ELSE IF w.cached THEN rows[w.db][p].src ELSE Absent
Waiting(p) == \E h \in Handlers : pc[h] = "queued" /\ p \in args[h].changed
WillCover(w, p) ==
  \/ Right(p, Answer(w, p)) \/ Unhandled(p)
  \/ pending_refresh[p] > 0 /\ w.completed[p] # pending_refresh[p]
  \/ Deletions /\ Waiting(p) /\ Answer(w, p) = Absent
Returned(t) == pc[t] \in {"returned", "installing"}
Installing(t) == LET w == work[t] IN Returned(t) =>
  /\ \A p \in Paths : w.completed[p] \in {0, Seen(t, p)}
  /\ (t \in Handlers /\ synced # 0) \/ t = job_generation => \A p \in Paths : WillCover(w, p)

\* So are the answers of the installed index.
Covered(p) == Right(p, FileForPath(p)) \/ Known(p)
              \/ (Deletions /\ Refreshing(p) /\ FileForPath(p) = Absent)
AllCovered == synced # 0 => \A p \in Paths : Covered(p)

\* Until the reconcile has compared them, the rows say which content they were made from,
\* except those of paths that will still be marked when it is installed.
Before == /\ job_generation = 1
          /\ pc[1] \in WorkerStages \/ (pc[1] \in {"spawned", "queued"} /\ ~shutting_down)
NextDb == IF gate \in Tasks /\ Returned(gate) THEN work[gate].db ELSE store.db
Stays(p) == \/ Unhandled(p)
            \/ /\ pending_refresh[p] > 0
               /\ \A t \in Tasks : Returned(t) => work[t].completed[p] # pending_refresh[p]
Honest(p) ==
  /\ rows[NextDb][p].src = rows[NextDb][p].fingerprint \/ Stays(p)
  /\ rows["fallback"][p].src \in {Absent, disk[p]} \/ disk[p] = Unreadable \/ Stays(p)
  /\ NextDb = "configured" => rows["fallback"][p] = NoRow
RowsHonest == Before => \A p \in Paths : Honest(p)

OrderInv == Queued /\ FirstJob /\ NoExcluded /\ NeverLost /\ EventsOrdered
CoverInv ==
  /\ \A t \in Tasks : Working(t) /\ Installing(t)
  /\ SeenMarks /\ AllCovered /\ RowsHonest

-----------------------------------------------------------------------------
(* Steps.  Most change nothing that the holder of the gate works with.     *)

\* A step of the environment, or of a task that neither takes, holds nor leaves the gate.
Elsewhere ==
  /\ UNCHANGED <<gate, store, synced, rows>>
  /\ \A t \in Tasks : work'[t] = work[t] \/ (pc[t] = "lost" /\ work'[t] = NoWork)
  /\ \A t \in Tasks : pc'[t] = pc[t] \/ (pc[t] \notin HoldsGate /\ pc'[t] \notin HoldsGate)
  /\ \A h \in Handlers : pc[h] = "queued" => shutting_down \/ (pc'[h] = "queued" /\ args'[h] = args[h])
  /\ \A h \in Handlers : pc[h] \in HoldsGate => args'[h] = args[h]
  /\ job_generation' >= job_generation
  /\ shutting_down => shutting_down'

\* What happens to the files and to what is known of them.
Drifts ==
  /\ \A p \in Paths : disk'[p] = disk[p] \/ Unhandled(p)'
  /\ \A p \in Paths : Unhandled(p) => Unhandled(p)' \/ pending_refresh'[p] > pending_refresh[p]
  /\ \A p \in Paths : pending_refresh'[p] >= pending_refresh[p]

LEMMA EventIndex ==
  ASSUME TypeOK
  PROVE  /\ Len(events) \in Nat /\ \A i \in 1..Len(events) : events[i] \in Event
         /\ \A e \in Event : /\ Append(events, e) \in Seq(Event)
                             /\ Len(Append(events, e)) = Len(events) + 1
                             /\ \A i \in 1..Len(events) : Append(events, e)[i] = events[i]
                             /\ Append(events, e)[Len(events) + 1] = e
         /\ \A n \in 1..Len(events) :
              LET rest == SubSeq(events, n + 1, Len(events))
              IN  /\ Len(rest) = Len(events) - n
                  /\ \A i \in 1..Len(rest) : rest[i] = events[n + i]
<1>1. events \in Seq(Event) /\ Len(events) \in Nat
  BY LenProperties DEF TypeOK
<1>2. \A i \in 1..Len(events) : events[i] \in Event
  BY <1>1, ElementOfSeq
<1>3. ASSUME NEW e \in Event
      PROVE  /\ Append(events, e) \in Seq(Event)
             /\ Len(Append(events, e)) = Len(events) + 1
             /\ \A i \in 1..Len(events) : Append(events, e)[i] = events[i]
             /\ Append(events, e)[Len(events) + 1] = e
  BY <1>1, <1>3, AppendProperties
<1>4. ASSUME NEW n \in 1..Len(events)
      PROVE  LET rest == SubSeq(events, n + 1, Len(events))
             IN  /\ Len(rest) = Len(events) - n
                 /\ \A i \in 1..Len(rest) : rest[i] = events[n + i]
  <2>1. \A i \in n + 1..Len(events) : events[i] \in Event
    BY <1>2
  <2>2. /\ Len(SubSeq(events, n + 1, Len(events)))
             = IF n + 1 <= Len(events) THEN Len(events) - (n + 1) + 1 ELSE 0
        /\ \A i \in 1..Len(events) - (n + 1) + 1 :
              SubSeq(events, n + 1, Len(events))[i] = events[n + 1 + i - 1]
    BY <1>1, <2>1, SubSeqProperties
  <2> QED BY <1>1, <2>2
<1> QED BY <1>1, <1>2, <1>3, <1>4

\* A step that leaves the files, the events, the marks and the received handlers alone.
LEMMA NothingHappens ==
  ASSUME TypeOK, UNCHANGED <<disk, events, pending_refresh>>,
         \A h \in Handlers : pc[h] = "received" => pc'[h] = "received" /\ args'[h] = args[h]
  PROVE  Drifts
<1>1. \A p \in Paths : Unhandled(p) => Unhandled(p)'
  BY DEF Unhandled
<1> QED BY <1>1 DEF Drifts, TypeOK

LEMMA EnvironmentDrifts ==
  ASSUME TypeOK, Environment
  PROVE  Drifts
<1> USE JobsAreNotHandlers
<1>1. ASSUME NEW p \in Paths, NEW c \in Contents, Edit(p, c) PROVE Drifts
  <2> DEFINE e == [path |-> p, deleted |-> c = Absent]
  <2>1. e \in Event /\ e.path = p
    BY DEF Event
  <2>2. /\ events' = Append(events, e) /\ disk' = [disk EXCEPT ![p] = c]
        /\ UNCHANGED <<pc, args, pending_refresh>>
    BY <1>1 DEF Edit, installed
  <2> HIDE DEF e
  <2>3. /\ Len(events') = Len(events) + 1 /\ Len(events) \in Nat
        /\ \A i \in 1..Len(events) : events'[i] = events[i]
        /\ events'[Len(events) + 1] = e
    BY <2>1, <2>2, EventIndex
  <2>4. Unhandled(p)'
    BY <2>1, <2>3 DEF Unhandled
  <2>5. \A q \in Paths : disk'[q] = disk[q] \/ q = p
    BY <2>2 DEF TypeOK
  <2>6. \A q \in Paths : Unhandled(q) => Unhandled(q)'
    <3> SUFFICES ASSUME NEW q \in Paths, Unhandled(q) PROVE Unhandled(q)'
      OBVIOUS
    <3>1. CASE \E i \in 1..Len(events) : events[i].path = q
      BY <3>1, <2>3 DEF Unhandled
    <3>2. CASE ~\E i \in 1..Len(events) : events[i].path = q
      BY <3>2, <2>2 DEF Unhandled
    <3> QED BY <3>1, <3>2
  <2> QED BY <2>2, <2>4, <2>5, <2>6 DEF Drifts, TypeOK
<1>2. ASSUME NEW h \in Handlers, NEW n \in 1..Len(events), ChangeWatchedFiles(h, n) PROVE Drifts
  <2>1. /\ events' = SubSeq(events, n + 1, Len(events)) /\ pc[h] = "idle" /\ Goto(h, "received")
        /\ args' = [args EXCEPT ![h] = [changed |-> ChangedPaths(n), deleted |-> DeletedPaths(n)]]
        /\ UNCHANGED <<disk, pending_refresh>>
    BY <1>2 DEF ChangeWatchedFiles, Takes, installed
  <2>2. /\ Len(events') = Len(events) - n /\ Len(events) \in Nat
        /\ \A i \in 1..Len(events') : events'[i] = events[n + i]
    BY <2>1, EventIndex
  <2>3. pc'[h] = "received" /\ args'[h].changed = ChangedPaths(n)
        /\ args'[h].deleted = DeletedPaths(n)
    BY <2>1 DEF TypeOK, Goto
  <2>4. ASSUME NEW q \in Paths, NEW i \in 1..Len(events), events[i].path = q PROVE Unhandled(q)'
    <3>1. CASE i > n
      <4>1. i - n \in 1..Len(events') /\ events'[i - n] = events[i]
        BY <2>2, <3>1
      <4> QED BY <4>1, <2>4 DEF Unhandled
    <3>2. CASE ~(i > n)
      <4>1. i \in 1..n
        BY <2>2, <3>2
      <4>2. q \in ChangedPaths(n) \cup DeletedPaths(n)
        BY <2>4, <4>1 DEF ChangedPaths, DeletedPaths
      <4> QED BY <2>3, <4>2 DEF Unhandled
    <3> QED BY <3>1, <3>2
  <2>5. \A g \in Handlers : pc[g] = "received" => pc'[g] = "received" /\ args'[g] = args[g]
    BY <2>1 DEF TypeOK, Goto
  <2>6. \A q \in Paths : Unhandled(q) => Unhandled(q)'
    BY <2>4, <2>5 DEF Unhandled
  <2> QED BY <2>1, <2>6 DEF Drifts, TypeOK
<1>3. ASSUME NEW h \in Handlers, NEW p \in Paths, Save(h, p) PROVE Drifts
  <2>1. UNCHANGED <<disk, events, pending_refresh>>
    BY <1>3 DEF Save, installed
  <2>2. \A g \in Handlers : pc[g] = "received" => pc'[g] = "received" /\ args'[g] = args[g]
    BY <1>3 DEF Save, Takes, TypeOK, Goto
  <2> QED BY <2>1, <2>2, NothingHappens
<1>4. CASE RebuildIndex \/ Shutdown
  <2>1. UNCHANGED <<disk, events, pending_refresh, args>>
    BY <1>4 DEF RebuildIndex, Shutdown, env, installed
  <2>2. \A g \in Handlers : pc'[g] = pc[g]
    <3>1. CASE Shutdown
      BY <3>1 DEF Shutdown
    <3>2. CASE RebuildIndex
      <4>1. job_generation + 1 \in Nat
        BY DEF TypeOK
      <4>2. job_generation + 1 \notin Handlers
        BY <4>1, TaskAssumption
      <4> QED BY <3>2, <4>2 DEF RebuildIndex, Goto, TypeOK
    <3> QED BY <1>4, <3>1, <3>2
  <2> QED BY <2>1, <2>2, NothingHappens
<1> QED BY <1>1, <1>2, <1>3, <1>4 DEF Environment

\* The steps of the tasks that change something for the holder of the gate.
Begins(t) == \/ t \in Jobs /\ (StartRebuild(t) \/ StartReconcile(t))
             \/ t \in Handlers /\ StartRefresh(t)

LEMMA MarkDrifts ==
  ASSUME TypeOK, NEW h \in Handlers, MarkPathsPendingRefresh(h)
  PROVE  Drifts
<1>1. /\ pending_refresh' = [p \in Paths |-> IF p \in args[h].changed \cup args[h].deleted
                                             THEN pending_refresh[p] + 1 ELSE pending_refresh[p]]
      /\ Goto(h, "queued") /\ UNCHANGED <<disk, events, args>>
  BY DEF MarkPathsPendingRefresh, env
<1>2. \A p \in Paths : /\ pending_refresh[p] \in Nat
                       /\ pending_refresh'[p] >= pending_refresh[p]
                       /\ p \in args[h].changed \cup args[h].deleted
                            => pending_refresh'[p] > pending_refresh[p]
  BY <1>1 DEF TypeOK
<1>3. \A g \in Handlers \ {h} : pc'[g] = pc[g]
  BY <1>1 DEF TypeOK, Goto
<1>4. \A p \in Paths : Unhandled(p) => \/ Unhandled(p)'
                                       \/ p \in args[h].changed \cup args[h].deleted
  BY <1>1, <1>3 DEF Unhandled
<1> QED BY <1>1, <1>2, <1>4 DEF Drifts

LEMMA ElsewhereEnvironment ==
  ASSUME TypeOK, Spawned, Environment
  PROVE  Elsewhere
<1> USE JobsAreNotHandlers DEF HoldsGate, WorkerStages, lock, installed, status, env
<1>1. ASSUME NEW p \in Paths, NEW c \in Contents, Edit(p, c) PROVE Elsewhere
  BY <1>1 DEF Edit, Elsewhere, TypeOK
<1>2. ASSUME NEW h \in Handlers, NEW new, pc[h] = "idle",
             pc' = [pc EXCEPT ![h] = "received"], args' = [args EXCEPT ![h] = new],
             UNCHANGED <<status, shutting_down, lock, base, work, installed, rows>>
      PROVE  Elsewhere
  <2>1. \A t \in Tasks : pc'[t] = pc[t] \/ (pc[t] \notin HoldsGate /\ pc'[t] \notin HoldsGate)
    BY <1>2 DEF TypeOK
  <2>2. \A g \in Handlers : args'[g] = args[g] \/ pc[g] = "idle"
    BY <1>2 DEF TypeOK
  <2> QED BY <1>2, <2>1, <2>2 DEF Elsewhere, TypeOK, Jobs
<1>3. ASSUME NEW h \in Handlers, NEW n \in 1..Len(events), ChangeWatchedFiles(h, n) PROVE Elsewhere
  BY <1>2, <1>3 DEF ChangeWatchedFiles, Takes, Goto
<1>4. ASSUME NEW h \in Handlers, NEW p \in Paths, Save(h, p) PROVE Elsewhere
  BY <1>2, <1>4 DEF Save, Takes, Goto
<1>5. CASE RebuildIndex
  <2>1. job_generation \in Jobs /\ job_generation + 1 \in Jobs
    BY <1>5, BoundsAssumption DEF TypeOK, RebuildIndex, Jobs
  <2>2. pc[job_generation + 1] = "unborn"
    BY <2>1 DEF Spawned, Jobs
  <2>3. \A t \in Tasks : pc'[t] = pc[t] \/ (pc[t] \notin HoldsGate /\ pc'[t] \notin HoldsGate)
    BY <1>5, <2>1, <2>2 DEF RebuildIndex, Goto, TypeOK
  <2>4. job_generation' >= job_generation
    BY <1>5, <2>1 DEF RebuildIndex, Jobs
  <2>5. \A h \in Handlers : pc'[h] = pc[h]
    BY <1>5, <2>1 DEF RebuildIndex, Goto, TypeOK
  <2> QED BY <1>5, <2>3, <2>4, <2>5 DEF RebuildIndex, Elsewhere
<1>6. CASE Shutdown
  BY <1>6 DEF Shutdown, Elsewhere, TypeOK, Jobs
<1> QED BY <1>1, <1>3, <1>4, <1>5, <1>6 DEF Environment

LEMMA ElsewhereWaits ==
  ASSUME TypeOK, NEW t \in Tasks,
         \/ t \in Jobs /\ (EndAtShutdown(t) \/ CountJob(t) \/ AbandonJob(t) \/ FinishJob(t))
         \/ t \in Handlers /\ (MarkPathsPendingRefresh(t) \/ AbandonRefresh(t) \/ FinishRefresh(t))
  PROVE  Elsewhere /\ Drifts
<1> USE JobsAreNotHandlers DEF HoldsGate, WorkerStages, lock, installed, status, env
<1>1. job_generation \in Int /\ pc \in [Tasks -> JobStages \cup RefreshStages]
      /\ args \in [Handlers -> Args]
  BY DEF TypeOK, Jobs
<1>2. ASSUME NEW old, NEW stage, pc[t] = old, old \notin HoldsGate \cup {"received"},
             stage \notin HoldsGate, Goto(t, stage),
             old = "queued" => t \in Jobs \/ shutting_down,
             UNCHANGED <<disk, events, job_generation, shutting_down, gate, base, work,
                         installed, rows>>,
             \/ UNCHANGED args
             \/ t \in Handlers /\ (old = "finishing" \/ shutting_down)
                /\ args' = [args EXCEPT ![t] = NoArgs]
      PROVE  Elsewhere /\ Drifts
  <2>1. \A s \in Tasks : pc'[s] = pc[s] \/ (pc[s] \notin HoldsGate /\ pc'[s] \notin HoldsGate)
    BY <1>1, <1>2 DEF Goto
  <2>2. \A g \in Handlers : args'[g] = args[g] \/ (g = t /\ (old = "finishing" \/ shutting_down))
    BY <1>1, <1>2
  <2>3. Elsewhere
    <3>1. \A g \in Handlers : pc[g] = "queued" =>
             shutting_down \/ (pc'[g] = "queued" /\ args'[g] = args[g])
      <4>1. CASE t \in Jobs \/ old # "queued"
        BY <1>1, <1>2, <2>2, <4>1 DEF Goto
      <4>2. CASE t \in Handlers /\ old = "queued"
        BY <1>1, <1>2, <2>2, <4>2 DEF Goto
      <4> QED BY <4>1, <4>2
    <3> QED BY <1>1, <1>2, <2>1, <2>2, <3>1 DEF Elsewhere
  <2>4. \A g \in Handlers : pc[g] = "received" => pc'[g] = "received" /\ args'[g] = args[g]
    BY <1>1, <1>2, <2>2 DEF Goto
  <2> QED BY <1>2, <2>3, <2>4, NothingHappens
<1>3. CASE t \in Jobs
  <2>1. CASE EndAtShutdown(t)
    BY <1>2, <2>1 DEF EndAtShutdown
  <2>2. CASE CountJob(t)
    BY <1>2, <2>2 DEF CountJob
  <2>3. CASE AbandonJob(t)
    BY <1>2, <1>3, <2>3 DEF AbandonJob, AtGate
  <2>4. CASE FinishJob(t)
    BY <1>2, <2>4 DEF FinishJob
  <2> QED BY <1>3, <2>1, <2>2, <2>3, <2>4
<1>4. CASE t \in Handlers
  <2>1. CASE MarkPathsPendingRefresh(t)
    <3>1. \A s \in Tasks : pc'[s] = pc[s] \/ (pc[s] \notin HoldsGate /\ pc'[s] \notin HoldsGate)
      BY <1>1, <2>1 DEF MarkPathsPendingRefresh, Goto
    <3>2. \A h \in Handlers : pc[h] = "queued" => pc'[h] = "queued"
      BY <1>1, <2>1 DEF MarkPathsPendingRefresh, Goto
    <3>3. Elsewhere
      BY <1>1, <2>1, <3>1, <3>2 DEF MarkPathsPendingRefresh, Elsewhere
    <3> QED BY <1>4, <2>1, <3>3, MarkDrifts
  <2>2. CASE AbandonRefresh(t)
    BY <1>2, <1>4, <2>2 DEF AbandonRefresh, AtGate
  <2>3. CASE FinishRefresh(t)
    BY <1>2, <1>4, <2>3 DEF FinishRefresh
  <2> QED BY <1>4, <2>1, <2>2, <2>3
<1> QED BY <1>3, <1>4

LEMMA ElsewhereLost ==
  ASSUME TypeOK, GateInv, NEW t \in Tasks, DropResult(t), pc[t] = "lost"
  PROVE  Elsewhere /\ Drifts
<1> USE JobsAreNotHandlers DEF HoldsGate, WorkerStages
<1>1. /\ Goto(t, "finishing") /\ work' = [work EXCEPT ![t] = NoWork] /\ gate' = gate
      /\ UNCHANGED <<disk, events, args, pending_refresh, job_generation, shutting_down, store, synced, rows>>
  BY DEF DropResult, Release, GateInv, Exclusive, env, status, installed
<1>2. /\ pc \in [Tasks -> JobStages \cup RefreshStages] /\ work \in [Tasks -> Work]
      /\ job_generation \in Int
  BY DEF TypeOK, Jobs
<1>3. \A s \in Tasks : pc'[s] = pc[s] \/ (s = t /\ pc'[s] = "finishing")
  BY <1>1, <1>2 DEF Goto
<1>4. \A s \in Tasks : work'[s] = work[s] \/ (s = t /\ work'[s] = NoWork)
  BY <1>1, <1>2
<1>5. \A h \in Handlers : pc[h] = "queued" => pc'[h] = "queued"
  BY <1>3
<1>6. \A s \in Tasks : pc'[s] = pc[s] \/ (pc[s] \notin HoldsGate /\ pc'[s] \notin HoldsGate)
  BY <1>3
<1>7. \A s \in Tasks : work'[s] = work[s] \/ (pc[s] = "lost" /\ work'[s] = NoWork)
  BY <1>4
<1>8. Elsewhere
  BY <1>1, <1>2, <1>5, <1>6, <1>7 DEF Elsewhere
<1> QED BY <1>1, <1>3, <1>8, NothingHappens

\* A step of the task that takes, holds or leaves the gate: no other task is past it.
Alone(t) ==
  /\ UNCHANGED <<disk, events, args, job_generation, shutting_down>>
  /\ \E stage : Goto(t, stage)
  /\ \A s \in Tasks \ {t} : pc[s] \notin HoldsGate /\ pc'[s] = pc[s] /\ work'[s] = work[s]

LEMMA HolderAlone ==
  ASSUME IInv, NEW t \in Tasks,
         Begins(t) \/ WorkerStep(t) \/ WorkerFault(t) \/ (ReturnStep(t) /\ pc[t] # "lost")
  PROVE  Alone(t)
<1> USE DEF IInv
<1>1. UNCHANGED <<disk, events, args, job_generation, shutting_down>>
  BY DEF Begins, StartRebuild, StartReconcile, StartRefresh, Acquire, WorkerStep, WorkerFault,
         ReturnStep, ReadPath, PersistPaths, FallBack, GiveUpPersisting, PersistFails, WorkerErrs,
         WorkerPanics, GoInstall, DropResult, Install, RejectResult, env, status
<1>2. \E stage : Goto(t, stage)
  <2>1. CASE Begins(t)
    BY <2>1 DEF Begins, StartRebuild, StartReconcile, StartRefresh
  <2>2. CASE ~Begins(t)
    BY <2>2, TaskStepForm
  <2> QED BY <2>1, <2>2
<1>3. gate \in {t, NoTask}
  <2>1. CASE Begins(t)
    BY <2>1 DEF Begins, StartRebuild, StartReconcile, StartRefresh, Acquire, AtGate
  <2>2. CASE ~Begins(t)
    <3>1. pc[t] \in HoldsGate
      BY <2>2 DEF WorkerStep, WorkerFault, ReturnStep, ReadPath, PersistPaths, FallBack,
                  GiveUpPersisting, PersistFails, WorkerErrs, WorkerPanics, GoInstall,
                  DropResult, Install, RejectResult, HoldsGate, WorkerStages
    <3> QED BY <3>1 DEF GateInv, Exclusive
  <2> QED BY <2>1, <2>2
<1>4. \A s \in Tasks \ {t} : pc[s] \notin HoldsGate
  BY <1>3, JobsAreNotHandlers DEF GateInv, Exclusive
<1>5. \A s \in Tasks \ {t} : pc'[s] = pc[s]
  BY <1>2 DEF TypeOK, Goto
<1>6. \A s \in Tasks \ {t} : work'[s] = work[s]
  <2>1. CASE Begins(t)
    BY <2>1, BeginsWork DEF Begins, Prepares
  <2>2. CASE WorkerStep(t)
    <3>1. work[t].generation > -1
      BY DEF TypeOK, Work
    <3> QED BY <2>2, <3>1, ContinuesWork DEF Prepares
  <2>3. CASE WorkerFault(t) \/ ReturnStep(t)
    <3>1. work' = work \/ work' = [work EXCEPT ![t] = NoWork]
      BY <2>3 DEF WorkerFault, WorkerErrs, WorkerPanics, ReturnStep, GoInstall, DropResult,
                  Install, RejectResult, Release
    <3> QED BY <3>1 DEF TypeOK
  <2> QED BY <2>1, <2>2, <2>3
<1> QED BY <1>1, <1>2, <1>4, <1>5, <1>6 DEF Alone

\* Every step is one that happens elsewhere, or one of the gate's next or present holder.
LEMMA StepKinds ==
  ASSUME IInv, [Next]_vars
  PROVE  \/ Elsewhere /\ Drifts
         \/ \E t \in Tasks :
              /\ Alone(t)
              /\ Begins(t) \/ WorkerStep(t) \/ WorkerFault(t) \/ ReturnStep(t)
<1> USE JobsAreNotHandlers DEF IInv
<1>1. CASE Environment
  BY <1>1, ElsewhereEnvironment, EnvironmentDrifts
<1>2. CASE UNCHANGED vars
  <2>1. Elsewhere
    BY <1>2 DEF Elsewhere, vars, lock, installed, status, TypeOK, Jobs
  <2>2. Drifts
    BY <1>2, NothingHappens DEF vars, env, installed
  <2> QED BY <2>1, <2>2
<1>3. ASSUME NEW j \in Jobs, JobStep(j)
      PROVE  (Elsewhere /\ Drifts) \/ (Alone(j) /\ Begins(j))
  BY <1>3, ElsewhereWaits, HolderAlone DEF JobStep, Begins
<1>4. ASSUME NEW h \in Handlers, RefreshStep(h)
      PROVE  (Elsewhere /\ Drifts) \/ (Alone(h) /\ Begins(h))
  BY <1>4, ElsewhereWaits, HolderAlone DEF RefreshStep, Begins
<1>5. ASSUME NEW t \in Tasks, WorkerStep(t) \/ WorkerFault(t) \/ ReturnStep(t)
      PROVE  (Elsewhere /\ Drifts) \/ Alone(t)
  <2>1. CASE ReturnStep(t) /\ pc[t] = "lost"
    BY <2>1, ElsewhereLost DEF ReturnStep, GoInstall, Install, RejectResult
  <2> QED BY <1>5, <2>1, HolderAlone
<1>6. CASE System
  BY <1>3, <1>4, <1>5, <1>6 DEF System
<1> QED BY <1>1, <1>2, <1>6 DEF Next

-----------------------------------------------------------------------------
(* The queue of the gate.                                                  *)

\* A step changes the queue at one end, for the task that starts or ends its wait.
Enqueues(t) == pc[t] # "queued" /\ Goto(t, "queued") /\ queue' = Append(queue, t)
Dequeues(t) == AtGate(t) /\ queue' = Tail(queue) /\ \E stage : stage # "queued" /\ Goto(t, stage)
QueueStays  == queue' = queue /\ \A t \in Tasks : pc'[t] = "queued" <=> pc[t] = "queued"

LEMMA QueueSteps ==
  ASSUME TypeOK, Spawned, [Next]_vars
  PROVE  QueueStays \/ \E t \in Tasks : Enqueues(t) \/ Dequeues(t)
<1> USE JobsAreNotHandlers DEF lock
<1>1. pc \in [Tasks -> JobStages \cup RefreshStages]
  BY DEF TypeOK
<1>2. ASSUME NEW t \in Tasks, NEW stage, pc[t] # "queued", stage # "queued", Goto(t, stage),
             queue' = queue
      PROVE  QueueStays
  BY <1>1, <1>2 DEF QueueStays, Goto
<1>3. CASE Environment
  <2>1. CASE RebuildIndex
    <3>1. job_generation \in Jobs /\ job_generation + 1 \in Jobs
      BY <2>1, BoundsAssumption DEF TypeOK, RebuildIndex, Jobs
    <3>2. pc[job_generation + 1] = "unborn"
      BY <3>1 DEF Spawned, Jobs
    <3> QED BY <1>2, <2>1, <3>1, <3>2 DEF RebuildIndex
  <2>2. CASE ~RebuildIndex
    <3>1. queue' = queue /\ (pc' = pc \/ \E h \in Handlers : pc[h] = "idle" /\ Goto(h, "received"))
      BY <1>3, <2>2 DEF Environment, Edit, ChangeWatchedFiles, Save, Shutdown, Takes
    <3>2. \A h \in Handlers : h \in Tasks
      OBVIOUS
    <3>3. CASE pc' = pc
      BY <3>1, <3>3 DEF QueueStays
    <3> QED BY <1>2, <3>1, <3>2, <3>3
  <2> QED BY <2>1, <2>2
<1>4. ASSUME NEW j \in Jobs, JobStep(j)
      PROVE  QueueStays \/ Enqueues(j) \/ Dequeues(j)
  <2>1. CASE EndAtShutdown(j) \/ FinishJob(j)
    BY <1>2, <2>1 DEF EndAtShutdown, FinishJob
  <2>2. CASE CountJob(j)
    BY <2>2 DEF CountJob, Enqueues
  <2>3. CASE AbandonJob(j) \/ StartRebuild(j) \/ StartReconcile(j)
    BY <2>3 DEF AbandonJob, StartRebuild, StartReconcile, Acquire, Dequeues
  <2> QED BY <1>4, <2>1, <2>2, <2>3 DEF JobStep
<1>5. ASSUME NEW h \in Handlers, RefreshStep(h)
      PROVE  QueueStays \/ Enqueues(h) \/ Dequeues(h)
  <2>1. CASE FinishRefresh(h)
    BY <1>2, <2>1 DEF FinishRefresh
  <2>2. CASE MarkPathsPendingRefresh(h)
    BY <2>2 DEF MarkPathsPendingRefresh, Enqueues
  <2>3. CASE AbandonRefresh(h)
    BY <2>3 DEF AbandonRefresh, Dequeues
  <2>4. CASE StartRefresh(h)
    BY <2>4 DEF StartRefresh, Acquire, Dequeues
  <2> QED BY <1>5, <2>1, <2>2, <2>3, <2>4 DEF RefreshStep
<1>6. ASSUME NEW t \in Tasks, WorkerStep(t) \/ WorkerFault(t)
      PROVE  QueueStays
  <2>1. pc[t] \in WorkerStages /\ queue' = queue
    BY <1>6 DEF WorkerStep, WorkerFault, ReadPath, PersistPaths, FallBack, GiveUpPersisting,
                PersistFails, WorkerErrs, WorkerPanics, WorkerStages
  <2>2. \E stage : stage # "queued" /\ Goto(t, stage)
    <3>1. ASSUME NEW p \in Paths, ReadPath(t, p) PROVE \E stage : stage # "queued" /\ Goto(t, stage)
      BY <3>1 DEF ReadPath
    <3>2. PersistPaths(t) \/ GiveUpPersisting(t) => Goto(t, "returned")
      BY DEF PersistPaths, GiveUpPersisting, Return
    <3>3. FallBack(t) => Goto(t, "repersisting") \/ Goto(t, "rereading")
      BY DEF FallBack
    <3>4. WorkerFault(t) => Goto(t, "failed") \/ Goto(t, "lost")
      BY DEF WorkerFault, WorkerErrs, WorkerPanics
    <3> QED BY <1>6, <3>1, <3>2, <3>3, <3>4 DEF WorkerStep
  <2> QED BY <1>2, <2>1, <2>2 DEF WorkerStages
<1>7. ASSUME NEW t \in Tasks, ReturnStep(t)
      PROVE  QueueStays
  <2>1. pc[t] # "queued" /\ queue' = queue /\ (Goto(t, "installing") \/ Goto(t, "finishing"))
    BY <1>7 DEF ReturnStep, GoInstall, DropResult, Install, RejectResult, Release
  <2> QED BY <1>2, <2>1
<1>8. CASE System
  BY <1>4, <1>5, <1>6, <1>7, <1>8 DEF System
<1>9. CASE UNCHANGED vars
  BY <1>9 DEF vars, QueueStays
<1> QED BY <1>3, <1>8, <1>9 DEF Next

LEMMA QueueIndex ==
  ASSUME TypeOK
  PROVE  /\ Len(queue) \in Nat /\ \A n \in 1..Len(queue) : queue[n] \in Tasks
         /\ \A t \in Tasks : /\ Len(Append(queue, t)) = Len(queue) + 1
                             /\ \A n \in 1..Len(queue) : Append(queue, t)[n] = queue[n]
                             /\ Append(queue, t)[Len(queue) + 1] = t
         /\ queue # <<>> => /\ Len(queue) > 0 /\ Head(queue) = queue[1]
                            /\ Len(Tail(queue)) = Len(queue) - 1
                            /\ \A n \in 1..Len(Tail(queue)) : Tail(queue)[n] = queue[n + 1]
<1>1. queue \in Seq(Tasks) /\ Len(queue) \in Nat
  BY LenProperties DEF TypeOK
<1>2. \A n \in 1..Len(queue) : queue[n] \in Tasks
  BY <1>1, ElementOfSeq
<1>3. ASSUME NEW t \in Tasks
      PROVE  /\ Len(Append(queue, t)) = Len(queue) + 1
             /\ \A n \in 1..Len(queue) : Append(queue, t)[n] = queue[n]
             /\ Append(queue, t)[Len(queue) + 1] = t
  BY <1>1, AppendProperties
<1>4. queue # <<>> => /\ Len(queue) > 0 /\ Head(queue) = queue[1]
                      /\ Len(Tail(queue)) = Len(queue) - 1
                      /\ \A n \in 1..Len(Tail(queue)) : Tail(queue)[n] = queue[n + 1]
  BY <1>1, HeadTailProperties
<1> QED BY <1>1, <1>2, <1>3, <1>4

LEMMA InitQueued == Init => Queued
<1> SUFFICES ASSUME Init PROVE Queued
  OBVIOUS
<1>1. Len(queue) = 0 /\ \A t \in Tasks : pc[t] # "queued"
  BY DEF Init
<1> QED BY <1>1 DEF Queued

LEMMA NextQueued ==
  ASSUME TypeOK, Spawned, Queued, [Next]_vars
  PROVE  Queued'
<1>1. pc \in [Tasks -> JobStages \cup RefreshStages]
  BY DEF TypeOK
<1>2. CASE QueueStays
  BY <1>2, QueueIndex DEF QueueStays, Queued
<1>3. ASSUME NEW t \in Tasks, Enqueues(t) PROVE Queued'
  <2>1. /\ Len(queue) \in Nat /\ Len(queue') = Len(queue) + 1
        /\ \A n \in 1..Len(queue) : queue'[n] = queue[n] /\ queue[n] \in Tasks
        /\ queue'[Len(queue) + 1] = t
    BY <1>3, QueueIndex DEF Enqueues
  <2>2. /\ pc'[t] = "queued" /\ pc[t] # "queued"
        /\ \A s \in Tasks \ {t} : pc'[s] = pc[s]
    BY <1>1, <1>3 DEF Enqueues, Goto
  <2>3. \A n \in 1..Len(queue) : queue[n] # t
    BY <2>2 DEF Queued
  <2>4. \A n \in 1..Len(queue') : pc'[queue'[n]] = "queued"
    BY <2>1, <2>2 DEF Queued
  <2>5. \A m, n \in 1..Len(queue') : queue'[m] = queue'[n] => m = n
    <3> SUFFICES ASSUME NEW m \in 1..Len(queue'), NEW n \in 1..Len(queue'), queue'[m] = queue'[n]
                 PROVE  m = n
      OBVIOUS
    <3>1. CASE m \in 1..Len(queue) /\ n \in 1..Len(queue)
      BY <2>1, <3>1 DEF Queued
    <3>2. CASE m = Len(queue) + 1 \/ n = Len(queue) + 1
      BY <2>1, <2>3, <3>2
    <3> QED BY <2>1, <3>1, <3>2
  <2>6. \A s \in Tasks : pc'[s] = "queued" => \E n \in 1..Len(queue') : queue'[n] = s
    <3> SUFFICES ASSUME NEW s \in Tasks, pc'[s] = "queued"
                 PROVE  \E n \in 1..Len(queue') : queue'[n] = s
      OBVIOUS
    <3>1. CASE s = t
      BY <2>1, <3>1
    <3>2. CASE s # t
      <4>1. PICK n \in 1..Len(queue) : queue[n] = s
        BY <2>2, <3>2 DEF Queued
      <4>2. n \in 1..Len(queue') /\ queue'[n] = s
        BY <2>1, <4>1
      <4> QED BY <4>2
    <3> QED BY <3>1, <3>2
  <2> QED BY <2>4, <2>5, <2>6 DEF Queued
<1>4. ASSUME NEW t \in Tasks, Dequeues(t) PROVE Queued'
  <2>1. /\ Len(queue) \in Nat /\ Len(queue) > 0 /\ queue[1] = t /\ Len(queue') = Len(queue) - 1
        /\ \A n \in 1..Len(queue') : queue'[n] = queue[n + 1]
        /\ \A n \in 1..Len(queue) : queue[n] \in Tasks
    BY <1>4, QueueIndex DEF Dequeues, AtGate
  <2>2. pc'[t] # "queued" /\ \A s \in Tasks \ {t} : pc'[s] = pc[s]
    BY <1>1, <1>4 DEF Dequeues, Goto
  <2>3. \A n \in 1..Len(queue') : n + 1 \in 1..Len(queue) /\ queue[n + 1] # t
    BY <2>1 DEF Queued
  <2>4. \A n \in 1..Len(queue') : pc'[queue'[n]] = "queued"
    BY <2>1, <2>2, <2>3 DEF Queued
  <2>5. \A m, n \in 1..Len(queue') : queue'[m] = queue'[n] => m = n
    <3> SUFFICES ASSUME NEW m \in 1..Len(queue'), NEW n \in 1..Len(queue'), queue'[m] = queue'[n]
                 PROVE  m = n
      OBVIOUS
    <3>1. m + 1 = n + 1
      BY <2>1, <2>3 DEF Queued
    <3> QED BY <2>1, <3>1
  <2>6. \A s \in Tasks : pc'[s] = "queued" => \E n \in 1..Len(queue') : queue'[n] = s
    <3> SUFFICES ASSUME NEW s \in Tasks, pc'[s] = "queued"
                 PROVE  \E n \in 1..Len(queue') : queue'[n] = s
      OBVIOUS
    <3>1. PICK n \in 1..Len(queue) : queue[n] = s
      BY <2>2 DEF Queued
    <3>2. n # 1
      BY <2>1, <2>2, <3>1
    <3>3. n - 1 \in 1..Len(queue') /\ queue'[n - 1] = s
      BY <2>1, <3>1, <3>2
    <3> QED BY <3>3
  <2> QED BY <2>4, <2>5, <2>6 DEF Queued
<1> QED BY <1>2, <1>3, <1>4, QueueSteps

-----------------------------------------------------------------------------
(* What each operation leaves in a task's work, field by field.            *)

SameBut(w, v) ==
  /\ v.db = w.db /\ v.cached = w.cached /\ v.backed = w.backed /\ v.full = w.full
  /\ v.snapshot = w.snapshot /\ v.damaged = w.damaged /\ v.completed = w.completed

LEMMA FullPassFields ==
  ASSUME NEW w \in Work
  PROVE  LET v == FullPass(w)
         IN  /\ v.files = NoFiles /\ v.todo = Paths /\ v.fresh = {} /\ v.gone = {}
             /\ v.full = TRUE /\ v.cached = FALSE /\ v.done = w.done
             /\ v.db = w.db /\ v.snapshot = w.snapshot /\ v.damaged = w.damaged
             /\ v.backed = w.backed /\ v.completed = w.completed
BY DEF FullPass, Work

LEMMA CloneFields ==
  /\ Clone.files = store.files /\ Clone.cached = store.cached /\ Clone.db = store.db
  /\ Clone.backed = store.cached /\ Clone.snapshot = pending_refresh /\ Clone.todo = {}
  /\ Clone.fresh = {} /\ Clone.gone = {} /\ ~Clone.full /\ ~Clone.damaged /\ Clone.done = {}
  /\ Clone.completed = NoMarks
BY DEF Clone, NoWork

LEMMA RebuildFields ==
  ASSUME TypeOK, NEW t \in Tasks, StartRebuild(t)
  PROVE  LET v == work'[t]
         IN  /\ v.files = NoFiles /\ v.todo = Paths /\ v.fresh = {} /\ v.gone = {}
             /\ v.full = TRUE /\ v.cached = FALSE /\ t # 1
             /\ Goto(t, "reading") /\ rows' = rows
<1> DEFINE w == [NoWork EXCEPT !.generation = generation, !.db = store.db]
<1>1. w \in Work
  BY EmptyTypes DEF TypeOK, Store, Work, NoWork
<1>2. work' = [work EXCEPT ![t] = FullPass(w)] /\ t # 1 /\ Goto(t, "reading") /\ rows' = rows
  BY DEF StartRebuild, Acquire
<1> HIDE DEF w
<1>3. work'[t] = FullPass(w)
  BY <1>2 DEF TypeOK
<1> QED BY <1>1, <1>2, <1>3, FullPassFields

LEMMA ReconcileFields ==
  ASSUME Whole, TypeOK, NEW t \in Tasks, StartReconcile(t)
  PROVE  LET v == work'[t]
         IN  /\ v.files = NoFiles /\ v.todo = Paths /\ v.fresh = {} /\ v.gone = {}
             /\ ~v.full /\ v.cached = store.cached /\ v.db = store.db
             /\ t = 1 /\ job_generation = 1 /\ Goto(t, "reading") /\ rows' = rows
<1> DEFINE w == [Clone EXCEPT !.files = NoFiles, !.todo = Paths, !.generation = @ + 1]
<1>1. /\ work' = [work EXCEPT ![t] = w] /\ t = 1 /\ job_generation = 1
      /\ Goto(t, "reading") /\ rows' = rows
  BY DEF StartReconcile, Acquire, Whole
<1>2. /\ w.files = NoFiles /\ w.todo = Paths /\ w.fresh = Clone.fresh /\ w.gone = Clone.gone
      /\ w.full = Clone.full /\ w.cached = Clone.cached /\ w.db = Clone.db
  BY CloneType DEF Work
<1> HIDE DEF w
<1>3. work'[t] = w
  BY <1>1 DEF TypeOK
<1> QED BY <1>1, <1>2, <1>3, CloneFields

LEMMA RefreshFields ==
  ASSUME Whole, TypeOK, NEW h \in Handlers, StartRefresh(h)
  PROVE  LET v == work'[h]
             a == args[h]
         IN  /\ v.todo = a.changed \ a.deleted /\ v.fresh = {} /\ v.gone = a.deleted
             /\ v.done = a.deleted /\ ~v.full /\ v.cached = store.cached /\ v.db = store.db
             /\ v.backed = store.cached
             /\ \A p \in Paths : v.files[p] = IF p \in a.deleted THEN Absent ELSE store.files[p]
             /\ \A p \in Paths : v.snapshot[p] \in {0, pending_refresh[p]}
             /\ Goto(h, IF v.todo = {} THEN "persisting" ELSE "reading") /\ rows' = rows
<1> DEFINE a    == args[h]
           mine == [p \in Paths |-> IF p \in a.changed \cup a.deleted THEN pending_refresh[p] ELSE 0]
           kept == [p \in Paths |-> IF p \in a.deleted THEN Absent ELSE store.files[p]]
           w    == [[Clone EXCEPT !.snapshot = mine]
                      EXCEPT !.files = kept, !.todo = a.changed \ a.deleted, !.gone = a.deleted,
                             !.done = a.deleted, !.generation = @ + 1]
<1>1. /\ work' = [work EXCEPT ![h] = w] /\ rows' = rows
      /\ Goto(h, IF a.changed \ a.deleted = {} THEN "persisting" ELSE "reading")
  BY DEF StartRefresh, Acquire, Whole
<1>2. /\ w.todo = a.changed \ a.deleted /\ w.fresh = Clone.fresh /\ w.gone = a.deleted
      /\ w.done = a.deleted /\ w.full = Clone.full /\ w.cached = Clone.cached
      /\ w.db = Clone.db /\ w.backed = Clone.backed /\ w.files = kept /\ w.snapshot = mine
  BY CloneType DEF Work
<1> HIDE DEF w
<1>3. work'[h] = w
  BY <1>1, JobsAreNotHandlers DEF TypeOK
<1> QED BY <1>1, <1>2, <1>3, CloneFields

\* Reading a path changes what is known of that path: it is fresh, it is gone, or what the
\* index had of it stays.
LEMMA ReadFields ==
  ASSUME TypeOK, NEW t \in Tasks, NEW p \in Paths, ReadPath(t, p)
  PROVE  LET w == work[t]
             v == work'[t]
         IN  /\ p \in w.todo /\ v.todo = w.todo \ {p} /\ SameBut(w, v)
             /\ \A q \in Paths \ {p} :
                  /\ v.files[q] = w.files[q] /\ (q \in v.fresh <=> q \in w.fresh)
                  /\ (q \in v.gone <=> q \in w.gone) /\ (q \in v.done <=> q \in w.done)
             /\ \/ /\ Indexable(p, disk[p]) /\ v.files[p] = disk[p] /\ p \in v.fresh
                   /\ p \in v.gone <=> p \in w.gone
                   /\ ~w.full /\ t \in Handlers => p \in v.done
                \/ /\ p \in v.fresh <=> p \in w.fresh
                   /\ \/ /\ w.full /\ ~Indexable(p, disk[p])
                         /\ p \in v.gone /\ v.files[p] = w.files[p]
                      \/ /\ ~w.full /\ t \in Handlers /\ ~Indexable(p, disk[p])
                         /\ p \in v.gone <=> p \in w.gone
                         /\ p \in v.done <=> p \in w.done
                         /\ \/ v.files[p] = Absent
                            \/ v.files[p] = w.files[p] /\ disk[p] # Absent /\ p \notin Excluded
                      \/ /\ ~w.full /\ t \notin Handlers /\ v.files[p] = w.files[p]
                         /\ LET row == rows[w.db][p]
                            IN  IF Indexable(p, disk[p])
                                THEN row.fingerprint = disk[p] /\ (p \in v.gone <=> p \in w.gone)
                                ELSE IF row.src # Absent /\ (disk[p] = Absent \/ p \in Excluded)
                                     THEN p \in v.gone ELSE p \in v.gone <=> p \in w.gone
<1> DEFINE w == work[t]
           r == Read(t, w, p)
           v == [r EXCEPT !.todo = r.todo \ {p}]
           fresh == [w EXCEPT !.files[p] = disk[p], !.fresh = w.fresh \cup {p}]
           done  == [fresh EXCEPT !.done = w.done \cup {p}]
           gone  == [w EXCEPT !.gone = w.gone \cup {p}]
           kept  == [w EXCEPT !.files[p] = Absent]
<1>1. w \in Work /\ r \in Work /\ r.todo = w.todo
  BY ReadType, ReadKeepsTodo DEF TypeOK
<1>2. work'[t] = v /\ p \in w.todo
  BY DEF ReadPath, TypeOK
<1>3. /\ fresh.files = [w.files EXCEPT ![p] = disk[p]] /\ fresh.fresh = w.fresh \cup {p}
      /\ fresh.gone = w.gone /\ fresh.done = w.done /\ fresh.todo = w.todo /\ SameBut(w, fresh)
  BY <1>1 DEF Work, SameBut
<1>4. /\ done.files = fresh.files /\ done.fresh = fresh.fresh /\ done.gone = w.gone
      /\ done.done = w.done \cup {p} /\ done.todo = w.todo /\ SameBut(w, done)
  BY <1>1 DEF Work, SameBut
<1>5. /\ gone.files = w.files /\ gone.fresh = w.fresh /\ gone.gone = w.gone \cup {p}
      /\ gone.done = w.done /\ gone.todo = w.todo /\ SameBut(w, gone)
  BY <1>1 DEF Work, SameBut
<1>6. /\ kept.files = [w.files EXCEPT ![p] = Absent] /\ kept.fresh = w.fresh
      /\ kept.gone = w.gone /\ kept.done = w.done /\ kept.todo = w.todo /\ SameBut(w, kept)
  BY <1>1 DEF Work, SameBut
<1>7. SameBut(w, w) /\ w.files \in [Paths -> Held]
  BY <1>1 DEF SameBut, Work
<1>8. /\ v.files = r.files /\ v.fresh = r.fresh /\ v.gone = r.gone /\ v.done = r.done
      /\ v.todo = w.todo \ {p} /\ (SameBut(w, r) => SameBut(w, v))
  BY <1>1 DEF Work, SameBut
<1>9. CASE w.full
  <2>1. r = IF Indexable(p, disk[p]) THEN fresh ELSE gone
    BY <1>9 DEF Read, ReadFull
  <2> HIDE DEF w, v, r, fresh, done, gone, kept
  <2>2. CASE Indexable(p, disk[p])
    <3>1. r = fresh
      BY <2>1, <2>2
    <3> QED BY <1>2, <1>3, <1>7, <1>8, <1>9, <2>2, <3>1 DEF w
  <2>3. CASE ~Indexable(p, disk[p])
    <3>1. r = gone
      BY <2>1, <2>3
    <3> QED BY <1>2, <1>5, <1>7, <1>8, <1>9, <2>3, <3>1 DEF w
  <2> QED BY <2>2, <2>3
<1>10. CASE ~w.full /\ t \in Handlers
  <2>1. r = IF Indexable(p, disk[p]) THEN done
            ELSE IF disk[p] = Absent \/ p \in Excluded THEN kept ELSE w
    BY <1>10 DEF Read, ReadRefresh
  <2> HIDE DEF w, v, r, fresh, done, gone, kept
  <2>2. CASE Indexable(p, disk[p])
    <3>1. r = done
      BY <2>1, <2>2
    <3> QED BY <1>2, <1>3, <1>4, <1>7, <1>8, <1>10, <2>2, <3>1 DEF w
  <2>3. CASE ~Indexable(p, disk[p]) /\ (disk[p] = Absent \/ p \in Excluded)
    <3>1. r = kept
      BY <2>1, <2>3
    <3> QED BY <1>2, <1>6, <1>7, <1>8, <1>10, <2>3, <3>1 DEF w
  <2>4. CASE ~Indexable(p, disk[p]) /\ ~(disk[p] = Absent \/ p \in Excluded)
    <3>1. r = w
      BY <2>1, <2>4
    <3> QED BY <1>2, <1>7, <1>8, <1>10, <2>4, <3>1 DEF w
  <2> QED BY <2>2, <2>3, <2>4
<1>11. CASE ~w.full /\ t \notin Handlers
  <2> DEFINE row == rows[w.db][p]
  <2>1. r = IF Indexable(p, disk[p]) THEN (IF row.fingerprint = disk[p] THEN w ELSE fresh)
            ELSE IF row.src # Absent /\ (disk[p] = Absent \/ p \in Excluded) THEN gone ELSE w
    BY <1>11 DEF Read, ReadReconcile
  <2> HIDE DEF w, v, r, fresh, done, gone, kept
  <2>2. CASE r = fresh /\ Indexable(p, disk[p])
    BY <1>2, <1>3, <1>7, <1>8, <1>11, <2>2 DEF w
  <2>3. CASE r = w /\ (Indexable(p, disk[p]) => row.fingerprint = disk[p])
             /\ (~Indexable(p, disk[p]) => ~(row.src # Absent /\ (disk[p] = Absent \/ p \in Excluded)))
    BY <1>2, <1>7, <1>8, <1>11, <2>3 DEF w
  <2>4. CASE r = gone /\ ~Indexable(p, disk[p]) /\ row.src # Absent /\ (disk[p] = Absent \/ p \in Excluded)
    BY <1>2, <1>5, <1>7, <1>8, <1>11, <2>4 DEF w
  <2> QED BY <2>1, <2>2, <2>3, <2>4
<1> QED BY <1>9, <1>10, <1>11

LEMMA ResultFields ==
  ASSUME NEW t \in Tasks, NEW w \in Work, NEW persisted \in BOOLEAN, NEW table,
         ~w.damaged, w.completed = NoMarks
  PROVE  LET v == Result(t, w, persisted, table)
         IN  /\ v.db = w.db /\ v.snapshot = w.snapshot /\ v.fresh = w.fresh
             /\ t \in Handlers =>
                  /\ v.files = w.files
                  /\ v.completed = IF persisted THEN Completed(w) ELSE NoMarks
                  /\ v.cached = IF w.backed /\ persisted THEN Cached(table) ELSE w.cached
             /\ t = 1 =>
                  /\ v.files = IF w.full THEN w.files ELSE NoFiles
                  /\ v.completed = NoMarks /\ v.cached = Cached(table)
             /\ t \in Jobs \ {1} =>
                  v.files = w.files /\ v.completed = NoMarks /\ v.cached = w.cached
<1> DEFINE v == Result(t, w, persisted, table)
           marks == IF persisted THEN Completed(w) ELSE NoMarks
           cached == IF w.backed /\ persisted THEN Cached(table) ELSE w.cached
           files == IF w.full THEN w.files ELSE NoFiles
<1> USE JobsAreNotHandlers
<1>1. CASE t \in Handlers
  <2>1. v = [w EXCEPT !.completed = marks, !.cached = cached]
    BY <1>1 DEF Result
  <2> DEFINE u == [w EXCEPT !.completed = marks, !.cached = cached]
  <2>2. /\ u.db = w.db /\ u.snapshot = w.snapshot /\ u.fresh = w.fresh /\ u.files = w.files
        /\ u.completed = marks /\ u.cached = cached
    <3> HIDE DEF marks, cached
    <3> QED BY DEF Work
  <2> HIDE DEF v, u
  <2>3. v = u
    BY <2>1 DEF u
  <2> QED BY <1>1, <2>2, <2>3 DEF v
<1>2. CASE t = 1
  <2>1. v = [w EXCEPT !.files = files, !.cached = Cached(table)]
    BY <1>2 DEF Result
  <2> DEFINE u == [w EXCEPT !.files = files, !.cached = Cached(table)]
  <2>2. /\ u.db = w.db /\ u.snapshot = w.snapshot /\ u.fresh = w.fresh /\ u.files = files
        /\ u.completed = w.completed /\ u.cached = Cached(table)
    <3> HIDE DEF files
    <3> QED BY DEF Work
  <2> HIDE DEF v, u
  <2>3. v = u
    BY <2>1 DEF u
  <2> QED BY <1>2, <2>2, <2>3 DEF v
<1>3. CASE t \in Jobs \ {1}
  BY <1>3 DEF Result
<1> QED BY <1>1, <1>2, <1>3

\* A worker returns when it has written its rows, or has given its cache up.
LEMMA ReturnFields ==
  ASSUME IInv, ClearInv, NEW t \in Tasks, PersistPaths(t) \/ GiveUpPersisting(t)
  PROVE  LET w == work[t]
         IN  /\ pc[t] \in {"persisting", "repersisting"} /\ Goto(t, "returned")
             /\ w \in Work /\ Ready(w) /\ w.todo = {}
             /\ UNCHANGED <<pending_refresh, store, synced>>
             /\ \E persisted \in BOOLEAN :
                  /\ work'[t] = Result(t, w, persisted, rows'[w.db])
                  /\ IF persisted
                     THEN /\ CanPersist(w)
                          /\ \A p \in Paths :
                               rows'[w.db][p] =
                                 IF p \in w.fresh THEN [src |-> w.files[p], fingerprint |-> disk[p]]
                                 ELSE IF p \in w.gone THEN NoRow ELSE rows[w.db][p]
                     ELSE rows' = rows /\ GiveUpPersisting(t)
             /\ \A d \in Dbs \ {w.db} : rows'[d] = rows[d]
<1> DEFINE w == work[t]
<1> USE DEF IInv
<1>1. w \in Work /\ w.db \in Dbs /\ rows \in [Dbs -> [Paths -> Row]]
  BY DEF TypeOK, Work
<1>2. pc[t] \in {"persisting", "repersisting"} /\ Goto(t, "returned")
  BY DEF PersistPaths, GiveUpPersisting, PersistFails, Return
<1>3. Ready(w) /\ w.todo = {}
  BY <1>2 DEF ClearInv, Clear, WorkerStages
<1>4. UNCHANGED <<pending_refresh, store, synced>>
  BY DEF PersistPaths, GiveUpPersisting, PersistFails, installed
<1>5. CASE PersistPaths(t)
  <2>1. work'[t] = Result(t, w, TRUE, rows'[w.db]) /\ CanPersist(w)
    BY <1>5 DEF PersistPaths, Return, TypeOK
  <2>2. rows' = IF NothingToPersist(t, w) THEN rows ELSE [rows EXCEPT ![w.db] = RowsAfter(w)]
    BY <1>5 DEF PersistPaths
  <2>3. \A d \in Dbs \ {w.db} : rows'[d] = rows[d]
    BY <1>1, <2>2
  <2>4. ASSUME NEW p \in Paths
        PROVE  rows'[w.db][p] =
                 IF p \in w.fresh THEN [src |-> w.files[p], fingerprint |-> disk[p]]
                 ELSE IF p \in w.gone THEN NoRow ELSE rows[w.db][p]
    <3>1. CASE NothingToPersist(t, w)
      BY <2>2, <3>1 DEF NothingToPersist
    <3>2. CASE ~NothingToPersist(t, w)
      <4>1. rows'[w.db] = RowsAfter(w)
        BY <1>1, <2>2, <3>2
      <4> QED BY <4>1 DEF RowsAfter
    <3> QED BY <3>1, <3>2
  <2> HIDE DEF w
  <2>5. \E persisted \in BOOLEAN :
          /\ work'[t] = Result(t, w, persisted, rows'[w.db])
          /\ IF persisted
             THEN /\ CanPersist(w)
                  /\ \A p \in Paths :
                       rows'[w.db][p] =
                         IF p \in w.fresh THEN [src |-> w.files[p], fingerprint |-> disk[p]]
                         ELSE IF p \in w.gone THEN NoRow ELSE rows[w.db][p]
             ELSE rows' = rows /\ GiveUpPersisting(t)
    <3> WITNESS TRUE \in BOOLEAN
    <3> QED BY <2>1, <2>4
  <2> QED BY <1>1, <1>2, <1>3, <1>4, <2>3, <2>5 DEF w
<1>6. CASE GiveUpPersisting(t)
  <2>1. work'[t] = Result(t, w, FALSE, rows'[w.db]) /\ rows' = rows /\ GiveUpPersisting(t)
    BY <1>6 DEF GiveUpPersisting, PersistFails, Return, TypeOK
  <2> HIDE DEF w
  <2>5. \E persisted \in BOOLEAN :
          /\ work'[t] = Result(t, w, persisted, rows'[w.db])
          /\ IF persisted
             THEN /\ CanPersist(w)
                  /\ \A p \in Paths :
                       rows'[w.db][p] =
                         IF p \in w.fresh THEN [src |-> w.files[p], fingerprint |-> disk[p]]
                         ELSE IF p \in w.gone THEN NoRow ELSE rows[w.db][p]
             ELSE rows' = rows /\ GiveUpPersisting(t)
    <3> WITNESS FALSE \in BOOLEAN
    <3> QED BY <2>1
  <2> QED BY <1>1, <1>2, <1>3, <1>4, <2>1, <2>5 DEF w
<1> QED BY <1>5, <1>6

LEMMA FallBackFields ==
  ASSUME TypeOK, NEW t \in Tasks, FallBack(t)
  PROVE  LET w == work[t]
             v == work'[t]
         IN  /\ v.db = "fallback" /\ v.snapshot = w.snapshot /\ v.full
             /\ IF w.full
                THEN /\ Goto(t, "repersisting") /\ v.files = w.files /\ v.todo = w.todo
                     /\ v.fresh = w.fresh /\ v.gone = w.gone /\ v.cached = w.cached
                ELSE /\ Goto(t, "rereading") /\ v.files = NoFiles /\ v.todo = Paths
                     /\ v.fresh = {} /\ v.gone = {} /\ ~v.cached
             /\ pc[t] = "persisting" /\ UNCHANGED <<rows, pending_refresh, store, synced>>
<1> DEFINE w == work[t]
           u == [w EXCEPT !.db = "fallback"]
<1>1. w \in Work /\ work \in [Tasks -> Work]
  BY DEF TypeOK
<1>2. /\ u \in Work /\ u.db = "fallback" /\ u.snapshot = w.snapshot /\ u.files = w.files
      /\ u.todo = w.todo /\ u.fresh = w.fresh /\ u.gone = w.gone /\ u.cached = w.cached
      /\ u.full = w.full
  BY <1>1 DEF Work, Dbs
<1>3. pc[t] = "persisting" /\ UNCHANGED <<rows, pending_refresh, store, synced>>
  BY DEF FallBack, PersistFails, installed
<1>4. IF u.full THEN work'[t] = u /\ Goto(t, "repersisting")
      ELSE work'[t] = FullPass(u) /\ Goto(t, "rereading")
  BY <1>1 DEF FallBack
<1> HIDE DEF u
<1>5. CASE w.full
  BY <1>2, <1>3, <1>4, <1>5
<1>6. CASE ~w.full
  <2>1. work'[t] = FullPass(u) /\ Goto(t, "rereading")
    BY <1>2, <1>4, <1>6
  <2> DEFINE v == FullPass(u)
  <2>2. /\ v.files = NoFiles /\ v.todo = Paths /\ v.fresh = {} /\ v.gone = {}
        /\ v.full = TRUE /\ v.cached = FALSE /\ v.db = u.db /\ v.snapshot = u.snapshot
    BY <1>2, FullPassFields
  <2> HIDE DEF v
  <2>3. work'[t] = v
    BY <2>1 DEF v
  <2> QED BY <1>2, <1>3, <1>6, <2>1, <2>2, <2>3
<1> QED BY <1>5, <1>6

-----------------------------------------------------------------------------
(* The parts that hold in every session.                                   *)

\* What the other steps of a task do to the index and its work.
LEMMA FaultFields ==
  ASSUME IInv, NEW t \in Tasks, WorkerFault(t)
  PROVE  /\ Faults \cap {"panic", "error"} # {} /\ pc[t] \in WorkerStages
         /\ Goto(t, "failed") \/ Goto(t, "lost")
         /\ UNCHANGED <<work, rows, pending_refresh, store, synced>>
         /\ gate' \in {gate, NoTask}
BY DEF WorkerFault, WorkerErrs, WorkerPanics, installed, lock

LEMMA GoInstallFields ==
  ASSUME NEW t \in Tasks, GoInstall(t)
  PROVE  /\ pc[t] = "returned" /\ Goto(t, "installing") /\ ~shutting_down
         /\ UNCHANGED <<work, rows, pending_refresh, store, synced, gate>>
BY DEF GoInstall, installed, lock

\* A result is dropped because the worker failed, the server shuts down, or a newer job came.
LEMMA DropFields ==
  ASSUME IInv, NEW t \in Tasks, DropResult(t) \/ RejectResult(t)
  PROVE  /\ \/ pc[t] \in {"failed", "lost"}
            \/ pc[t] = "returned" /\ shutting_down
            \/ pc[t] = "installing" /\ t \in Jobs /\ t # job_generation
         /\ Goto(t, "finishing") /\ work'[t] = NoWork
         /\ UNCHANGED <<rows, pending_refresh, store, synced>>
<1>1. /\ Goto(t, "finishing") /\ work' = [work EXCEPT ![t] = NoWork]
      /\ UNCHANGED <<rows, pending_refresh, store, synced>>
  BY DEF DropResult, RejectResult, Release, installed
<1>2. work'[t] = NoWork
  BY <1>1 DEF IInv, TypeOK
<1>3. CASE DropResult(t)
  BY <1>1, <1>2, <1>3 DEF DropResult
<1>4. CASE RejectResult(t)
  <2>1. pc[t] = "installing" /\ base[t] = generation
    BY <1>4 DEF RejectResult, IInv, GateInv, Current, HoldsGate
  <2>2. t \in Jobs /\ t # job_generation
    BY <1>4, <2>1 DEF RejectResult, IndexJobResultIsCurrent
  <2> QED BY <1>1, <1>2, <2>1, <2>2
<1> QED BY <1>3, <1>4

LEMMA InstallFields ==
  ASSUME IInv, NEW t \in Tasks, Install(t)
  PROVE  /\ pc[t] = "installing" /\ gate = t /\ gate' = NoTask /\ (t \in Jobs => job_generation = t)
         /\ Goto(t, "finishing") /\ rows' = rows /\ work'[t] = NoWork
         /\ store' = [files |-> work[t].files, cached |-> work[t].cached, db |-> work[t].db]
         /\ pending_refresh' = FinalizePendingRefresh(work[t].completed)
         /\ synced' = IF t \in Jobs THEN t ELSE synced
<1>1. gate = t
  BY DEF Install, IInv, GateInv, Exclusive, HoldsGate
<1> QED BY <1>1 DEF Install, IndexJobResultIsCurrent, Release, IInv, TypeOK

\* A task that begins had been waiting at a free gate.
LEMMA BeginFields ==
  ASSUME IInv, NEW t \in Tasks, Begins(t)
  PROVE  /\ AtGate(t) /\ pc[t] = "queued" /\ gate = NoTask /\ ~shutting_down
         /\ UNCHANGED <<rows, pending_refresh, store, synced>>
         /\ gate' = t /\ queue' = Tail(queue)
BY DEF Begins, StartRebuild, StartReconcile, StartRefresh, Acquire, AtGate, installed

LEMMA InitOrder == Init => FirstJob /\ NoExcluded /\ NeverLost /\ EventsOrdered
<1> SUFFICES ASSUME Init PROVE FirstJob /\ NoExcluded /\ NeverLost /\ EventsOrdered
  OBVIOUS
<1>1. FirstJob /\ NeverLost /\ EventsOrdered
  BY JobsAreNotHandlers DEF Init, FirstJob, NeverLost, EventsOrdered, HoldsGate, WorkerStages
<1>2. NoExcluded
  <2>1. PICK table \in CachedTable :
          /\ rows = [d \in Dbs |-> IF d = "configured" THEN table
                                   ELSE [p \in Paths |-> NoRow]]
          /\ store = [files |-> NoFiles, cached |-> Cached(table), db |-> "configured"]
    BY DEF Init
  <2>2. \A p \in Excluded : p \in Paths /\ table[p] = NoRow
    BY DataAssumption DEF CachedTable
  <2>3. \A t \in Tasks : work[t] = NoWork
    BY DEF Init
  <2> QED BY <2>1, <2>2, <2>3 DEF NoExcluded, NoFiles, NoWork
<1> QED BY <1>1, <1>2

LEMMA NextFirstJob ==
  ASSUME IInv, FirstJob, [Next]_vars
  PROVE  FirstJob'
<1> USE JobsAreNotHandlers DEF IInv
<1>1. pc \in [Tasks -> JobStages \cup RefreshStages] /\ job_generation \in Nat
  BY DEF TypeOK
<1>2. pc[1] \in {"finishing", "ended"} => pc'[1] \in {"finishing", "ended"}
  <2>1. CASE Environment
    <3>1. CASE RebuildIndex
      BY <1>1, <3>1 DEF RebuildIndex, Goto, TypeOK, Jobs
    <3>2. CASE ~RebuildIndex
      <4>1. pc' = pc \/ \E h \in Handlers : Goto(h, "received")
        BY <2>1, <3>2 DEF Environment, Edit, ChangeWatchedFiles, Save, Shutdown
      <4> QED BY <1>1, <4>1 DEF Goto
    <3> QED BY <3>1, <3>2
  <2>2. ASSUME NEW j \in Jobs, JobStep(j) PROVE pc'[1] = pc[1] \/ pc'[1] = "ended" \/ pc[1] # "finishing"
    BY <1>1, <2>2 DEF JobStep, EndAtShutdown, CountJob, AbandonJob, StartRebuild, StartReconcile,
                      FinishJob, AtGate, Acquire, Goto
  <2>3. ASSUME NEW j \in Jobs, JobStep(j) PROVE pc'[1] = pc[1] \/ pc[1] # "ended"
    BY <1>1, <2>3 DEF JobStep, EndAtShutdown, CountJob, AbandonJob, StartRebuild, StartReconcile,
                      FinishJob, AtGate, Acquire, Goto
  <2>4. ASSUME NEW h \in Handlers, RefreshStep(h) PROVE pc'[1] = pc[1]
    BY <1>1, <2>4 DEF RefreshStep, MarkPathsPendingRefresh, AbandonRefresh, StartRefresh,
                      FinishRefresh, Goto
  <2>5. ASSUME NEW t \in Tasks, WorkerStep(t) \/ WorkerFault(t) \/ ReturnStep(t)
        PROVE  pc'[1] = pc[1] \/ pc[1] \notin {"finishing", "ended"}
    <3>1. PICK stage : Goto(t, stage)
      BY <2>5, TaskStepForm
    <3>2. pc[t] \in HoldsGate \cup {"lost"}
      BY <2>5 DEF WorkerStep, WorkerFault, ReturnStep, ReadPath, PersistPaths, FallBack,
                  GiveUpPersisting, PersistFails, WorkerErrs, WorkerPanics, GoInstall,
                  DropResult, Install, RejectResult, HoldsGate, WorkerStages
    <3> QED BY <1>1, <3>1, <3>2 DEF Goto, HoldsGate, WorkerStages
  <2>6. CASE System
    BY <2>2, <2>3, <2>4, <2>5, <2>6 DEF System
  <2> QED BY <2>1, <2>6 DEF Next, vars
<1>3. CASE Elsewhere
  <2>1. job_generation' \in Nat
    BY NextTypeOK DEF TypeOK
  <2>2. pc'[1] \in HoldsGate => pc[1] \in HoldsGate
    BY <1>3 DEF Elsewhere
  <2>3. job_generation > 1 => job_generation' > 1
    BY <1>1, <1>3, <2>1 DEF Elsewhere
  <2> QED BY <1>2, <1>3, <2>2, <2>3 DEF Elsewhere, FirstJob
<1>4. ASSUME NEW t \in Tasks, Alone(t), UNCHANGED synced,
             pc[t] \in HoldsGate \/ t # 1 \/ synced = 0
      PROVE  FirstJob'
  <2>1. job_generation' = job_generation /\ \A s \in Tasks \ {t} : pc'[s] = pc[s]
    BY <1>4 DEF Alone
  <2> QED BY <1>1, <1>2, <1>4, <2>1 DEF FirstJob, HoldsGate, WorkerStages
<1>5. ASSUME NEW t \in Tasks, Begins(t), Alone(t) PROVE FirstJob'
  <2>1. pc[t] = "queued" /\ synced' = synced
    BY <1>5, BeginFields
  <2>2. CASE t # 1
    BY <1>4, <1>5, <2>1, <2>2
  <2>3. CASE t = 1
    <3>1. job_generation = 1
      BY <1>5, <2>3 DEF Begins, StartRebuild, StartReconcile
    <3>2. synced = 0
      BY <2>1, <2>3, <3>1 DEF FirstJob
    <3> QED BY <1>4, <1>5, <2>1, <3>2
  <2> QED BY <2>2, <2>3
<1>6. ASSUME NEW t \in Tasks, WorkerStep(t) \/ WorkerFault(t), Alone(t) PROVE FirstJob'
  <2>1. pc[t] \in HoldsGate /\ synced' = synced
    BY <1>6 DEF WorkerStep, WorkerFault, ReadPath, PersistPaths, FallBack, GiveUpPersisting,
                PersistFails, WorkerErrs, WorkerPanics, HoldsGate, WorkerStages, installed
  <2> QED BY <1>4, <1>6, <2>1
<1>7. ASSUME NEW t \in Tasks, ReturnStep(t), Alone(t) PROVE FirstJob'
  <2>1. CASE GoInstall(t) \/ DropResult(t) \/ RejectResult(t)
    <3>1. (pc[t] \in HoldsGate \/ pc[t] = "lost") /\ synced' = synced
      BY <2>1 DEF GoInstall, DropResult, RejectResult, HoldsGate, WorkerStages, installed
    <3>2. CASE pc[t] \in HoldsGate
      BY <1>4, <1>7, <3>1, <3>2
    <3>3. CASE pc[t] = "lost"
      <4>1. pc'[t] \notin HoldsGate
        BY <1>1, <2>1, <3>3 DEF GoInstall, DropResult, RejectResult, Goto, HoldsGate, WorkerStages
      <4>2. job_generation' = job_generation /\ \A s \in Tasks \ {t} : pc'[s] = pc[s]
        BY <1>7 DEF Alone
      <4> QED BY <1>1, <1>2, <3>1, <4>1, <4>2 DEF FirstJob
    <3> QED BY <3>1, <3>2, <3>3
  <2>2. CASE Install(t)
    <3>1. /\ t \in Jobs => job_generation = t
          /\ synced' = IF t \in Jobs THEN t ELSE synced
          /\ pc[t] \in HoldsGate /\ pc'[t] = "finishing"
      BY <1>1, <2>2, InstallFields DEF Goto, HoldsGate
    <3>2. CASE t \in Handlers
      BY <1>4, <1>7, <3>1, <3>2
    <3>3. CASE t \in Jobs
      <4>1. job_generation' = job_generation /\ \A s \in Tasks \ {t} : pc'[s] = pc[s] /\ pc[s] \notin HoldsGate
        BY <1>7 DEF Alone
      <4> QED BY <1>1, <3>1, <3>3, <4>1 DEF FirstJob, Jobs, HoldsGate, WorkerStages
    <3> QED BY <3>2, <3>3
  <2> QED BY <1>7, <2>1, <2>2 DEF ReturnStep
<1> QED BY <1>3, <1>5, <1>6, <1>7, StepKinds

LEMMA NextNeverLost ==
  ASSUME Orderly, IInv, NeverLost, [Next]_vars
  PROVE  NeverLost'
<1> SUFFICES ASSUME Deletions PROVE \A t \in Tasks : pc'[t] \notin {"failed", "lost"}
  BY DEF NeverLost
<1> USE DEF IInv
<1>1. pc \in [Tasks -> JobStages \cup RefreshStages]
  BY DEF TypeOK
<1>2. Faults \cap {"panic", "error"} = {}
  BY DEF Orderly
<1>3. \A t \in Tasks : pc[t] \notin {"failed", "lost"}
  BY DEF NeverLost
<1>4. ASSUME NEW t \in Tasks, NEW stage, Goto(t, stage), stage \notin {"failed", "lost"}
      PROVE  \A s \in Tasks : pc'[s] \notin {"failed", "lost"}
  BY <1>1, <1>3, <1>4 DEF Goto
<1>5. CASE Environment
  <2>1. \/ pc' = pc
        \/ \E h \in Handlers : Goto(h, "received")
        \/ \E j \in Jobs : Goto(j, "spawned")
    <3>1. CASE RebuildIndex
      <4>1. job_generation + 1 \in Jobs /\ Goto(job_generation + 1, "spawned")
        BY <3>1, BoundsAssumption DEF RebuildIndex, TypeOK, Jobs
      <4> QED BY <4>1
    <3>2. CASE ~RebuildIndex
      BY <1>5, <3>2 DEF Environment, Edit, ChangeWatchedFiles, Save, Shutdown
    <3> QED BY <3>1, <3>2
  <2>2. CASE pc' = pc
    BY <1>3, <2>2
  <2>3. CASE \E h \in Handlers : Goto(h, "received")
    BY <1>4, <2>3, JobsAreNotHandlers
  <2>4. CASE \E j \in Jobs : Goto(j, "spawned")
    BY <1>4, <2>4, JobsAreNotHandlers
  <2> QED BY <2>1, <2>2, <2>3, <2>4
<1>6. ASSUME NEW j \in Jobs, JobStep(j) PROVE \A s \in Tasks : pc'[s] \notin {"failed", "lost"}
  <2>1. \E stage \in {"ended", "queued", "reading"} : Goto(j, stage)
    BY <1>6 DEF JobStep, EndAtShutdown, CountJob, AbandonJob, StartRebuild, StartReconcile, FinishJob
  <2> QED BY <1>4, <2>1, JobsAreNotHandlers
<1>7. ASSUME NEW h \in Handlers, RefreshStep(h) PROVE \A s \in Tasks : pc'[s] \notin {"failed", "lost"}
  <2>1. \E stage \in {"idle", "queued", "reading", "persisting"} : Goto(h, stage)
    BY <1>7 DEF RefreshStep, MarkPathsPendingRefresh, AbandonRefresh, StartRefresh, FinishRefresh
  <2> QED BY <1>4, <2>1, JobsAreNotHandlers
<1>8. ASSUME NEW t \in Tasks, WorkerStep(t) \/ WorkerFault(t) \/ ReturnStep(t)
      PROVE  \A s \in Tasks : pc'[s] \notin {"failed", "lost"}
  <2>1. ~WorkerFault(t)
    BY <1>2, FaultFields
  <2>2. ASSUME NEW p \in Paths, ReadPath(t, p)
        PROVE  \E stage \in {"reading", "rereading", "persisting", "repersisting"} : Goto(t, stage)
    BY <2>2 DEF ReadPath
  <2>3. PersistPaths(t) \/ GiveUpPersisting(t) => Goto(t, "returned")
    BY DEF PersistPaths, GiveUpPersisting, Return
  <2>4. FallBack(t) => Goto(t, "repersisting") \/ Goto(t, "rereading")
    BY DEF FallBack
  <2>5. ReturnStep(t) => Goto(t, "installing") \/ Goto(t, "finishing")
    BY DEF ReturnStep, GoInstall, DropResult, Install, RejectResult
  <2> QED BY <1>4, <1>8, <2>1, <2>2, <2>3, <2>4, <2>5 DEF WorkerStep
<1>9. CASE System
  BY <1>6, <1>7, <1>8, <1>9 DEF System
<1>10. CASE UNCHANGED vars
  BY <1>3, <1>10 DEF vars
<1> QED BY <1>5, <1>9, <1>10 DEF Next

\* Excluded paths are neither read into an index nor written to a database.
LEMMA NextNoExcluded ==
  ASSUME Whole, IInv, ClearInv, NoExcluded, [Next]_vars
  PROVE  NoExcluded'
<1> USE JobsAreNotHandlers DEF IInv
<1> DEFINE Free(w) == \A p \in Excluded : w.files[p] = Absent /\ p \notin w.fresh
<1>1. \A p \in Excluded : p \in Paths /\ ~Indexable(p, disk[p])
  BY DataAssumption DEF Indexable
<1>2. Free(NoWork) /\ \A t \in Tasks : Free(work[t])
  BY <1>1 DEF NoWork, NoFiles, NoExcluded
<1>3. CASE Elsewhere
  <2>1. \A t \in Tasks : Free(work'[t])
    BY <1>2, <1>3 DEF Elsewhere
  <2> QED BY <1>3, <2>1 DEF Elsewhere, NoExcluded
<1>4. ASSUME NEW t \in Tasks, Alone(t), UNCHANGED <<store, rows>>, Free(work'[t])
      PROVE  NoExcluded'
  <2>1. \A s \in Tasks : Free(work'[s])
    <3>1. \A s \in Tasks \ {t} : work'[s] = work[s]
      BY <1>4 DEF Alone
    <3> QED BY <1>2, <1>4, <3>1
  <2> QED BY <1>4, <2>1 DEF NoExcluded
<1>5. ASSUME NEW t \in Tasks, Begins(t), Alone(t) PROVE NoExcluded'
  <2>1. UNCHANGED <<store, rows>>
    BY <1>5, BeginFields
  <2>2. CASE StartRebuild(t)
    <3>1. work'[t].files = NoFiles /\ work'[t].fresh = {}
      BY <2>2, RebuildFields
    <3>2. Free(work'[t])
      BY <1>1, <3>1 DEF NoFiles
    <3> QED BY <1>4, <1>5, <2>1, <3>2
  <2>3. CASE StartReconcile(t)
    <3>1. Free(work'[t])
      BY <1>1, <2>3, ReconcileFields DEF NoFiles
    <3> QED BY <1>4, <1>5, <2>1, <3>1
  <2>4. CASE t \in Handlers /\ StartRefresh(t)
    <3>1. work'[t].fresh = {} /\ \A p \in Paths : work'[t].files[p] \in {Absent, store.files[p]}
      BY <2>4, RefreshFields
    <3>2. Free(work'[t])
      BY <1>1, <3>1 DEF NoExcluded
    <3> QED BY <1>4, <1>5, <2>1, <3>2
  <2> QED BY <1>5, <2>2, <2>3, <2>4 DEF Begins
<1>6. ASSUME NEW t \in Tasks, NEW p \in Paths, ReadPath(t, p), Alone(t) PROVE NoExcluded'
  <2>1. UNCHANGED <<store, rows>>
    BY <1>6 DEF ReadPath, installed
  <2>2. ASSUME NEW q \in Excluded PROVE work'[t].files[q] = Absent /\ q \notin work'[t].fresh
    <3>1. work[t].files[q] = Absent /\ q \notin work[t].fresh
      BY <1>2
    <3>2. CASE q # p
      <4>1. work'[t].files[q] = work[t].files[q] /\ (q \in work'[t].fresh <=> q \in work[t].fresh)
        BY <1>1, <1>6, <3>2, ReadFields
      <4> QED BY <3>1, <4>1
    <3>3. CASE q = p
      <4>1. work'[t].files[p] \in {Absent, work[t].files[p]} /\ (p \in work'[t].fresh => p \in work[t].fresh)
        BY <1>1, <1>6, <3>3, ReadFields
      <4> QED BY <3>1, <3>3, <4>1
    <3> QED BY <3>2, <3>3
  <2>3. Free(work'[t])
    BY <2>2
  <2> QED BY <1>4, <1>6, <2>1, <2>3
<1>7. ASSUME NEW t \in Tasks, FallBack(t), Alone(t) PROVE NoExcluded'
  <2>1. /\ UNCHANGED <<store, rows>>
        /\ \/ work'[t].files = work[t].files /\ work'[t].fresh = work[t].fresh
           \/ work'[t].files = NoFiles /\ work'[t].fresh = {}
    BY <1>7, FallBackFields
  <2>2. Free(work'[t])
    BY <1>1, <1>2, <2>1 DEF NoFiles
  <2> QED BY <1>4, <1>7, <2>1, <2>2
<1>8. ASSUME NEW t \in Tasks, PersistPaths(t) \/ GiveUpPersisting(t), Alone(t) PROVE NoExcluded'
  <2> DEFINE w == work[t]
  <2>1. w \in Work /\ Ready(w) /\ store' = store
    BY <1>8, ReturnFields
  <2>2. \A p \in Excluded, d \in Dbs : rows'[d][p] = NoRow
    <3>1. \A p \in Excluded : p \notin w.fresh /\ p \in Paths
      BY <1>1, <1>2
    <3>2. \A p \in Excluded, d \in Dbs : rows[d][p] = NoRow
      BY DEF NoExcluded
    <3>3. \A p \in Excluded : rows'[w.db][p] \in {NoRow, rows[w.db][p]}
      <4>1. PICK persisted \in BOOLEAN :
              IF persisted
              THEN \A p \in Paths :
                     rows'[w.db][p] =
                       IF p \in w.fresh THEN [src |-> w.files[p], fingerprint |-> disk[p]]
                       ELSE IF p \in w.gone THEN NoRow ELSE rows[w.db][p]
              ELSE rows' = rows
        BY <1>8, ReturnFields
      <4> HIDE DEF w
      <4> QED BY <3>1, <4>1
    <3>4. \A d \in Dbs \ {w.db} : rows'[d] = rows[d]
      BY <1>8, ReturnFields
    <3>5. w.db \in Dbs
      BY <2>1 DEF Work
    <3> HIDE DEF w
    <3> QED BY <3>2, <3>3, <3>4, <3>5
  <2>3. Free(work'[t])
    <3>1. PICK persisted \in BOOLEAN : work'[t] = Result(t, w, persisted, rows'[w.db])
      BY <1>8, ReturnFields
    <3>2. work'[t].fresh = w.fresh /\ (work'[t].files = w.files \/ work'[t].files = NoFiles)
      <4> HIDE DEF w
      <4>1. ~w.damaged /\ w.completed = NoMarks
        BY <2>1 DEF Ready
      <4> DEFINE table == rows'[w.db]
      <4>2. work'[t] = Result(t, w, persisted, table)
        BY <3>1
      <4> HIDE DEF table
      <4> QED BY <2>1, <4>1, <4>2, ResultFields
    <3> QED BY <1>1, <1>2, <3>2 DEF NoFiles
  <2>4. \A s \in Tasks : Free(work'[s])
    <3>1. \A s \in Tasks \ {t} : work'[s] = work[s]
      BY <1>8 DEF Alone
    <3> QED BY <1>2, <2>3, <3>1
  <2> QED BY <2>1, <2>2, <2>4 DEF NoExcluded
<1>9. ASSUME NEW t \in Tasks, WorkerFault(t) \/ GoInstall(t) \/ DropResult(t) \/ RejectResult(t), Alone(t)
      PROVE  NoExcluded'
  <2>1. UNCHANGED <<store, rows>> /\ (work' = work \/ work'[t] = NoWork)
    BY <1>9, FaultFields, GoInstallFields, DropFields
  <2>2. Free(work'[t])
    BY <1>2, <2>1
  <2> QED BY <1>4, <1>9, <2>1, <2>2
<1>10. ASSUME NEW t \in Tasks, Install(t), Alone(t) PROVE NoExcluded'
  <2>1. store'.files = work[t].files /\ rows' = rows /\ work'[t] = NoWork
    BY <1>10, InstallFields
  <2>2. \A s \in Tasks : Free(work'[s])
    <3>1. \A s \in Tasks \ {t} : work'[s] = work[s]
      BY <1>10 DEF Alone
    <3> QED BY <1>2, <2>1, <3>1
  <2>3. \A p \in Excluded : store'.files[p] = Absent /\ \A d \in Dbs : rows'[d][p] = NoRow
    BY <1>2, <2>1 DEF NoExcluded
  <2> HIDE DEF Free
  <2>4. \A t_1 \in Tasks, p \in Excluded : work'[t_1].files[p] = Absent /\ p \notin work'[t_1].fresh
    BY <2>2 DEF Free
  <2> QED BY <2>3, <2>4 DEF NoExcluded
<1> QED BY <1>3, <1>5, <1>6, <1>7, <1>8, <1>9, <1>10, StepKinds DEF WorkerStep, ReturnStep

\* The files change by an edit, the events by an edit and by a notification.
LEMMA FilesStay ==
  ASSUME [Next]_vars
  PROVE  \/ UNCHANGED <<disk, events>>
         \/ \E p \in Paths, c \in Contents : Edit(p, c)
         \/ \E h \in Handlers : \E n \in 1..Len(events) : ChangeWatchedFiles(h, n)
<1>1. ASSUME NEW j \in Jobs, JobStep(j) PROVE UNCHANGED <<disk, events>>
  BY <1>1 DEF JobStep, EndAtShutdown, CountJob, AbandonJob, StartRebuild, StartReconcile,
              FinishJob, Acquire, env
<1>2. ASSUME NEW h \in Handlers, RefreshStep(h) PROVE UNCHANGED <<disk, events>>
  BY <1>2 DEF RefreshStep, MarkPathsPendingRefresh, AbandonRefresh, StartRefresh,
              FinishRefresh, Acquire, env
<1>3. ASSUME NEW t \in Tasks, WorkerStep(t) \/ WorkerFault(t) \/ ReturnStep(t)
      PROVE  UNCHANGED <<disk, events>>
  BY <1>3 DEF WorkerStep, WorkerFault, ReturnStep, ReadPath, PersistPaths, FallBack,
              GiveUpPersisting, PersistFails, WorkerErrs, WorkerPanics, GoInstall, DropResult,
              Install, RejectResult, env
<1>4. CASE System
  BY <1>1, <1>2, <1>3, <1>4 DEF System
<1>5. CASE Environment
  BY <1>5 DEF Environment, Save, RebuildIndex, Shutdown, env
<1>6. CASE UNCHANGED vars
  BY <1>6 DEF vars, env
<1> QED BY <1>4, <1>5, <1>6 DEF Next

\* The oldest events leave first, and an edit is the newest.
LEMMA NextEventsOrdered ==
  ASSUME TypeOK, EventsOrdered, [Next]_vars
  PROVE  EventsOrdered'
<1>1. CASE UNCHANGED <<disk, events>>
  BY <1>1 DEF EventsOrdered, Later
<1>2. ASSUME NEW p \in Paths, NEW c \in Contents, Edit(p, c) PROVE EventsOrdered'
  <2> DEFINE e == [path |-> p, deleted |-> c = Absent]
  <2>1. e \in Event /\ e.path = p /\ (e.deleted <=> c = Absent)
    BY DEF Event
  <2>2. /\ events' = Append(events, e) /\ disk' = [disk EXCEPT ![p] = c]
        /\ c = Absent => Deletions
    BY <1>2 DEF Edit
  <2> HIDE DEF e
  <2>3. /\ Len(events') = Len(events) + 1 /\ Len(events) \in Nat
        /\ \A i \in 1..Len(events) : events'[i] = events[i]
        /\ events'[Len(events) + 1] = e
    BY <2>1, <2>2, EventIndex
  <2>4. disk'[p] = c /\ \A q \in Paths \ {p} : disk'[q] = disk[q]
    BY <2>2 DEF TypeOK
  <2>5. ASSUME NEW i \in 1..Len(events'), events'[i].deleted
        PROVE  Deletions /\ (disk'[events'[i].path] = Absent \/ Later(i)')
    <3>1. CASE i = Len(events) + 1
      BY <2>1, <2>2, <2>3, <2>4, <2>5, <3>1
    <3>2. CASE i # Len(events) + 1
      <4>1. i \in 1..Len(events) /\ events'[i] = events[i] /\ events[i].path \in Paths
        BY <2>3, <3>2, EventIndex DEF Event
      <4>2. Deletions /\ (disk[events[i].path] = Absent \/ Later(i))
        BY <2>5, <4>1 DEF EventsOrdered
      <4>3. CASE events[i].path = p /\ c # Absent
        <5>1. Len(events) + 1 \in 1..Len(events') /\ Len(events) + 1 > i
          BY <2>3, <4>1
        <5> QED BY <2>1, <2>3, <4>1, <4>2, <4>3, <5>1 DEF Later
      <4>4. CASE ~(events[i].path = p /\ c # Absent) /\ disk[events[i].path] = Absent
        BY <2>4, <4>1, <4>2, <4>4
      <4>5. CASE Later(i)
        <5>1. PICK k \in 1..Len(events) :
                k > i /\ events[k].path = events[i].path /\ ~events[k].deleted
          BY <4>5 DEF Later
        <5>2. k \in 1..Len(events') /\ events'[k] = events[k]
          BY <2>3
        <5> QED BY <4>1, <4>2, <5>1, <5>2 DEF Later
      <4> QED BY <4>2, <4>3, <4>4, <4>5
    <3> QED BY <3>1, <3>2
  <2> QED BY <2>5 DEF EventsOrdered
<1>3. ASSUME NEW h \in Handlers, NEW n \in 1..Len(events), ChangeWatchedFiles(h, n)
      PROVE  EventsOrdered'
  <2>1. /\ Len(events') = Len(events) - n /\ Len(events) \in Nat
        /\ \A i \in 1..Len(events') : events'[i] = events[n + i]
        /\ disk' = disk
    BY <1>3, EventIndex DEF ChangeWatchedFiles
  <2>2. ASSUME NEW i \in 1..Len(events'), events'[i].deleted
        PROVE  Deletions /\ (disk'[events'[i].path] = Absent \/ Later(i)')
    <3>1. n + i \in 1..Len(events) /\ events'[i] = events[n + i]
      BY <2>1
    <3>2. Deletions /\ (disk[events[n + i].path] = Absent \/ Later(n + i))
      BY <2>2, <3>1 DEF EventsOrdered
    <3>3. CASE Later(n + i)
      <4>1. PICK k \in 1..Len(events) :
              k > n + i /\ events[k].path = events[n + i].path /\ ~events[k].deleted
        BY <3>3 DEF Later
      <4>2. k - n \in 1..Len(events') /\ k - n > i /\ events'[k - n] = events[k]
        BY <2>1, <4>1
      <4>3. Later(i)'
        BY <3>1, <4>1, <4>2 DEF Later
      <4> QED BY <3>2, <4>3
    <3> QED BY <2>1, <3>1, <3>2, <3>3
  <2> QED BY <2>2 DEF EventsOrdered
<1> QED BY <1>1, <1>2, <1>3, FilesStay


-----------------------------------------------------------------------------
(* Deletions.  Where files are deleted, a refresh that drops a path either *)
(* still finds it deleted or is followed by one that reads it again.       *)

\* A handler goes through its stages in order, with the paths it was given.
Moves(h) ==
  \/ pc'[h] = pc[h] /\ args'[h] = args[h]
  \/ pc[h] = "idle" /\ pc'[h] = "received"
     /\ ((\E n \in 1..Len(events) : ChangeWatchedFiles(h, n)) \/ (\E p \in Paths : Save(h, p)))
  \/ pc[h] = "received" /\ pc'[h] = "queued" /\ args'[h] = args[h]
  \/ pc[h] = "queued" /\ pc'[h] \in HoldsGate /\ args'[h] = args[h]
  \/ pc[h] \in HoldsGate /\ pc'[h] \in HoldsGate \cup {"lost", "finishing"} /\ args'[h] = args[h]
  \/ pc[h] \in {"lost", "finishing"} /\ pc'[h] \notin Active
  \/ pc[h] = "queued" /\ pc'[h] = "idle" /\ shutting_down

LEMMA HandlerMoves ==
  ASSUME IInv, [Next]_vars, NEW h \in Handlers
  PROVE  Moves(h)
<1> USE JobsAreNotHandlers DEF IInv, HoldsGate, WorkerStages
<1>1. /\ pc \in [Tasks -> JobStages \cup RefreshStages] /\ args \in [Handlers -> Args]
      /\ h \in Tasks
  BY DEF TypeOK
<1>2. ASSUME NEW t \in Tasks, NEW stage, Goto(t, stage), UNCHANGED args, t # h PROVE Moves(h)
  BY <1>1, <1>2 DEF Goto, Moves
<1>3. CASE Environment
  <2>1. ASSUME NEW g \in Handlers, NEW n \in 1..Len(events), ChangeWatchedFiles(g, n) PROVE Moves(h)
    <3>1. CASE g = h
      <4>1. pc[h] = "idle" /\ pc'[h] = "received"
        BY <1>1, <2>1, <3>1 DEF ChangeWatchedFiles, Takes, Goto
      <4> QED BY <2>1, <3>1, <4>1 DEF Moves
    <3>2. CASE g # h
      <4>1. pc'[h] = pc[h] /\ args'[h] = args[h]
        BY <1>1, <2>1, <3>2 DEF ChangeWatchedFiles, Goto
      <4> QED BY <4>1 DEF Moves
    <3> QED BY <3>1, <3>2
  <2>2. ASSUME NEW g \in Handlers, NEW p \in Paths, Save(g, p) PROVE Moves(h)
    <3>1. CASE g = h
      <4>1. pc[h] = "idle" /\ pc'[h] = "received"
        BY <1>1, <2>2, <3>1 DEF Save, Takes, Goto
      <4> QED BY <2>2, <3>1, <4>1 DEF Moves
    <3>2. CASE g # h
      <4>1. pc'[h] = pc[h] /\ args'[h] = args[h]
        BY <1>1, <2>2, <3>2 DEF Save, Goto
      <4> QED BY <4>1 DEF Moves
    <3> QED BY <3>1, <3>2
  <2>3. CASE RebuildIndex
    <3>1. job_generation + 1 \in Jobs
      BY <2>3, BoundsAssumption DEF RebuildIndex, TypeOK, Jobs
    <3>2. pc'[h] = pc[h] /\ args'[h] = args[h]
      BY <1>1, <2>3, <3>1 DEF RebuildIndex, Goto
    <3> QED BY <3>2 DEF Moves
  <2>4. CASE Shutdown \/ \E p \in Paths, c \in Contents : Edit(p, c)
    BY <2>4 DEF Shutdown, Edit, Moves
  <2> QED BY <1>3, <2>1, <2>2, <2>3, <2>4 DEF Environment
<1>4. ASSUME NEW j \in Jobs, JobStep(j) PROVE Moves(h)
  <2>1. UNCHANGED args /\ \E stage : Goto(j, stage)
    BY <1>4 DEF JobStep, EndAtShutdown, CountJob, AbandonJob, StartRebuild, StartReconcile,
                FinishJob, Acquire
  <2> QED BY <1>2, <2>1
<1>5. ASSUME NEW g \in Handlers, RefreshStep(g) PROVE Moves(h)
  <2>1. CASE FinishRefresh(g)
    <3>1. CASE g = h
      BY <1>1, <2>1, <3>1 DEF FinishRefresh, Goto, Moves, Active
    <3>2. CASE g # h
      BY <1>1, <2>1, <3>2 DEF FinishRefresh, Goto, Moves
    <3> QED BY <3>1, <3>2
  <2>2. CASE MarkPathsPendingRefresh(g)
    BY <1>1, <2>2 DEF MarkPathsPendingRefresh, Goto, Moves
  <2>3. CASE StartRefresh(g)
    BY <1>1, <2>3 DEF StartRefresh, Acquire, AtGate, Goto, Moves
  <2>4. CASE AbandonRefresh(g)
    <3>1. CASE g = h
      BY <1>1, <2>4, <3>1 DEF AbandonRefresh, AtGate, Goto, Moves
    <3>2. CASE g # h
      BY <1>1, <2>4, <3>2 DEF AbandonRefresh, Goto, Moves
    <3> QED BY <3>1, <3>2
  <2> QED BY <1>5, <2>1, <2>2, <2>3, <2>4 DEF RefreshStep
<1>6. ASSUME NEW t \in Tasks, WorkerStep(t) \/ WorkerFault(t) \/ ReturnStep(t) PROVE Moves(h)
  <2>1. UNCHANGED args
    BY <1>6 DEF WorkerStep, WorkerFault, ReturnStep, ReadPath, PersistPaths, FallBack,
                GiveUpPersisting, PersistFails, WorkerErrs, WorkerPanics, GoInstall, DropResult,
                Install, RejectResult
  <2>2. PICK stage : Goto(t, stage) /\ stage \in HoldsGate \cup {"lost", "finishing"}
    <3>1. ASSUME NEW p \in Paths, ReadPath(t, p)
          PROVE  \E stage : Goto(t, stage) /\ stage \in HoldsGate
      BY <3>1 DEF ReadPath
    <3>2. PersistPaths(t) \/ GiveUpPersisting(t) => Goto(t, "returned")
      BY DEF PersistPaths, GiveUpPersisting, Return
    <3>3. FallBack(t) => Goto(t, "repersisting") \/ Goto(t, "rereading")
      BY DEF FallBack
    <3>4. WorkerFault(t) => Goto(t, "failed") \/ Goto(t, "lost")
      BY DEF WorkerFault, WorkerErrs, WorkerPanics
    <3>5. ReturnStep(t) => Goto(t, "installing") \/ Goto(t, "finishing")
      BY DEF ReturnStep, GoInstall, DropResult, Install, RejectResult
    <3> QED BY <1>6, <3>1, <3>2, <3>3, <3>4, <3>5 DEF WorkerStep
  <2>3. pc[t] \in HoldsGate \/ (pc[t] = "lost" /\ pc'[t] = "finishing")
    <3>1. WorkerStep(t) \/ WorkerFault(t) => pc[t] \in HoldsGate
      BY DEF WorkerStep, WorkerFault, ReadPath, PersistPaths, FallBack, GiveUpPersisting,
             PersistFails, WorkerErrs, WorkerPanics
    <3>2. ReturnStep(t) => pc[t] \in HoldsGate \/ (pc[t] = "lost" /\ Goto(t, "finishing"))
      BY DEF ReturnStep, GoInstall, DropResult, Install, RejectResult
    <3> QED BY <1>1, <1>6, <3>1, <3>2 DEF Goto
  <2>4. CASE t # h
    BY <1>2, <2>1, <2>2, <2>4
  <2>5. CASE t = h
    <3>1. pc'[h] = stage /\ args'[h] = args[h]
      BY <1>1, <2>1, <2>2, <2>5 DEF Goto
    <3> QED BY <2>2, <2>3, <2>5, <3>1 DEF Moves, Active
  <2> QED BY <2>4, <2>5
<1>7. CASE System
  BY <1>4, <1>5, <1>6, <1>7 DEF System
<1>8. CASE UNCHANGED vars
  BY <1>8 DEF vars, Moves
<1> QED BY <1>3, <1>7, <1>8 DEF Next

LEMMA InitDeletes == Init => DeletesOrdered
BY JobsAreNotHandlers DEF Init, DeletesOrdered, Active, HoldsGate, WorkerStages

\* Between two tasks of the queue, and behind the holder of the gate, the order stays.
LEMMA BehindStays ==
  ASSUME IInv, Queued, [Next]_vars, ~shutting_down, UNCHANGED <<disk, events>>,
         NEW h \in Handlers, NEW p \in Paths, Behind(h, p),
         pc[h] \in Active, pc'[h] \in Active
  PROVE  Behind(h, p)'
<1> USE JobsAreNotHandlers DEF IInv, HoldsGate, WorkerStages
<1>1. pc \in [Tasks -> JobStages \cup RefreshStages] /\ h \in Tasks
  BY DEF TypeOK
<1>2. PICK g \in Handlers :
        /\ p \in args[g].changed
        /\ \/ pc[h] # "received" /\ pc[g] = "received"
           \/ pc[h] = "queued" /\ pc[g] = "queued" /\ Follows(h, g)
           \/ pc[h] \in HoldsGate /\ pc[g] = "queued"
  BY DEF Behind
<1>3. Moves(h) /\ Moves(g) /\ g \in Tasks
  BY HandlerMoves
<1>4. pc[h] # "received" => pc'[h] # "received"
  BY <1>3 DEF Moves, Active
<1>5. ASSUME pc[h] = "queued", pc[g] = "queued", pc'[h] = "queued", Follows(h, g)
      PROVE  pc'[g] = "queued" /\ Follows(h, g)'
  <2>1. PICK m \in 1..Len(queue), n \in 1..Len(queue) : m < n /\ queue[m] = h /\ queue[n] = g
    BY <1>5 DEF Follows
  <2>2. CASE QueueStays
    BY <1>3, <1>5, <2>1, <2>2 DEF QueueStays, Follows
  <2>3. ASSUME NEW t \in Tasks, Enqueues(t) PROVE pc'[g] = "queued" /\ Follows(h, g)'
    <3>1. pc'[g] = "queued"
      BY <1>1, <1>3, <1>5, <2>3 DEF Enqueues, Goto
    <3>2. m \in 1..Len(queue') /\ n \in 1..Len(queue') /\ queue'[m] = h /\ queue'[n] = g
      BY <2>1, <2>3, QueueIndex DEF Enqueues
    <3> QED BY <2>1, <3>1, <3>2 DEF Follows
  <2>4. ASSUME NEW t \in Tasks, Dequeues(t) PROVE pc'[g] = "queued" /\ Follows(h, g)'
    <3>1. /\ Len(queue) \in Nat /\ Len(queue') = Len(queue) - 1 /\ queue[1] = t
          /\ \A i \in 1..Len(queue') : queue'[i] = queue[i + 1]
      BY <2>4, QueueIndex DEF Dequeues, AtGate
    <3>2. t # h /\ t # g
      <4>1. t = h => FALSE
        BY <1>1, <1>5, <2>4 DEF Dequeues, Goto
      <4>2. t = g => FALSE
        BY <2>1, <3>1 DEF Queued
      <4> QED BY <4>1, <4>2
    <3>3. pc'[g] = "queued"
      BY <1>1, <1>3, <1>5, <2>4, <3>2 DEF Dequeues, Goto
    <3>4. m - 1 \in 1..Len(queue') /\ n - 1 \in 1..Len(queue') /\ m - 1 < n - 1
      BY <2>1, <3>1, <3>2
    <3>5. queue'[m - 1] = h /\ queue'[n - 1] = g
      BY <2>1, <3>1, <3>4
    <3> QED BY <3>3, <3>4, <3>5 DEF Follows
  <2> QED BY <2>2, <2>3, <2>4, QueueSteps
<1>6. ASSUME pc[h] = "queued", pc[g] = "queued", pc'[h] # "queued", Follows(h, g)
      PROVE  pc'[g] = "queued" /\ pc'[h] \in HoldsGate
  <2>1. pc'[h] \in HoldsGate
    BY <1>3, <1>6 DEF Moves
  <2>2. PICK t \in Tasks : Dequeues(t)
    BY <1>1, <1>6, QueueSteps DEF QueueStays, Enqueues, Goto
  <2>3. t = h
    BY <1>1, <1>6, <2>2 DEF Dequeues, Goto
  <2>4. g # h
    BY <1>6 DEF Follows, Queued
  <2> QED BY <1>1, <1>3, <1>6, <2>1, <2>2, <2>3, <2>4 DEF Dequeues, Goto
<1>7. ASSUME pc[h] \in HoldsGate, pc[g] = "queued"
      PROVE  pc'[g] = "queued" /\ pc'[h] \in HoldsGate
  <2>1. pc'[h] \in HoldsGate
    BY <1>3, <1>7 DEF Moves, Active
  <2>2. gate = h
    BY <1>7 DEF GateInv, Exclusive
  <2>3. \A t \in Tasks : ~Dequeues(t)
    BY <2>2 DEF Dequeues, AtGate
  <2>4. pc'[g] = "queued"
    BY <1>1, <1>3, <1>7, <2>3, QueueSteps DEF QueueStays, Enqueues, Goto
  <2> QED BY <2>1, <2>4
<1>8. ASSUME pc[h] # "received", pc[g] = "received"
      PROVE  \/ pc'[h] # "received" /\ pc'[g] = "received"
             \/ pc'[h] = "queued" /\ pc'[g] = "queued" /\ Follows(h, g)'
             \/ pc'[h] \in HoldsGate /\ pc'[g] = "queued"
  <2>1. CASE pc'[g] = "received"
    BY <1>4, <1>8, <2>1
  <2>2. CASE pc'[g] = "queued"
    <3>1. PICK t \in Tasks : Enqueues(t)
      BY <1>1, <1>3, <1>8, <2>2, QueueSteps DEF QueueStays, Dequeues, Goto
    <3>2. t = g
      BY <1>1, <1>3, <1>8, <2>2, <3>1 DEF Enqueues, Goto
    <3>3. pc'[h] = pc[h]
      BY <1>1, <1>8, <3>1, <3>2 DEF Enqueues, Goto
    <3>4. CASE pc[h] \in HoldsGate
      BY <2>2, <3>3, <3>4
    <3>5. CASE pc[h] = "queued"
      <4>1. PICK m \in 1..Len(queue) : queue[m] = h
        BY <1>1, <3>5 DEF Queued
      <4>2. /\ Len(queue) \in Nat /\ Len(queue') = Len(queue) + 1 /\ queue'[Len(queue) + 1] = g
            /\ queue'[m] = queue[m]
        BY <3>1, <3>2, <4>1, QueueIndex DEF Enqueues
      <4>3. Follows(h, g)'
        BY <4>1, <4>2 DEF Follows
      <4> QED BY <2>2, <3>3, <3>5, <4>3
    <3> QED BY <1>8, <3>4, <3>5 DEF Active
  <2> QED BY <1>3, <1>8, <2>1, <2>2 DEF Moves, Active
<1>9. pc[g] \in {"received", "queued"} /\ pc'[g] \in {"received", "queued"} => args'[g] = args[g]
  BY <1>3 DEF Moves, Active
<1> QED BY <1>2, <1>4, <1>5, <1>6, <1>7, <1>8, <1>9 DEF Behind, Active

LEMMA NextDeletes ==
  ASSUME Orderly, IInv, Queued, EventsOrdered, Live => DeletesOrdered, [Next]_vars
  PROVE  Live' => DeletesOrdered'
<1> SUFFICES ASSUME Live', NEW h \in Handlers, pc'[h] \in Active, NEW p \in args'[h].deleted
             PROVE  /\ Deletions /\ p \notin args'[h].changed
                    /\ disk'[p] = Absent \/ Reported(p)' \/ Behind(h, p)'
  BY DEF DeletesOrdered
<1> USE JobsAreNotHandlers DEF IInv
<1>1. /\ pc \in [Tasks -> JobStages \cup RefreshStages] /\ args \in [Handlers -> Args]
      /\ h \in Tasks /\ disk \in [Paths -> Contents]
  BY DEF TypeOK
<1>2. Live /\ DeletesOrdered
  <2>1. shutting_down => shutting_down'
    BY StepKinds DEF Elsewhere, Alone
  <2> QED BY <2>1 DEF Live
<1>3. p \in Paths
  BY NextTypeOK DEF TypeOK, Args
<1>4. ASSUME pc[h] \in Active, args'[h] = args[h]
      PROVE  /\ Deletions /\ p \notin args'[h].changed
             /\ disk[p] = Absent \/ Reported(p) \/ Behind(h, p)
  BY <1>2, <1>4 DEF DeletesOrdered
<1>5. ASSUME NEW q \in Paths, NEW c \in Contents, Edit(q, c)
      PROVE  /\ Deletions /\ p \notin args'[h].changed
             /\ disk'[p] = Absent \/ Reported(p)' \/ Behind(h, p)'
  <2> DEFINE e == [path |-> q, deleted |-> c = Absent]
  <2>1. /\ events' = Append(events, e) /\ disk' = [disk EXCEPT ![q] = c]
        /\ UNCHANGED <<pc, args, queue>>
    BY <1>5 DEF Edit, lock
  <2>2. e \in Event /\ e.path = q /\ (e.deleted <=> c = Absent)
    BY DEF Event
  <2> HIDE DEF e
  <2>3. /\ Len(events') = Len(events) + 1 /\ Len(events) \in Nat
        /\ \A i \in 1..Len(events) : events'[i] = events[i]
        /\ events'[Len(events) + 1] = e
    BY <2>1, <2>2, EventIndex
  <2>4. /\ Deletions /\ p \notin args'[h].changed
        /\ disk[p] = Absent \/ Reported(p) \/ Behind(h, p)
    BY <1>4, <2>1
  <2>5. Behind(h, p) => Behind(h, p)'
    BY <2>1 DEF Behind, Follows
  <2>6. Reported(p) => Reported(p)'
    BY <2>3 DEF Reported
  <2>7. CASE q = p
    <3>1. c = Absent => disk'[p] = Absent
      BY <1>1, <1>3, <2>1, <2>7
    <3>2. c # Absent => Reported(p)'
      BY <2>2, <2>3, <2>7 DEF Reported
    <3> QED BY <2>4, <3>1, <3>2
  <2>8. CASE q # p
    <3>1. disk'[p] = disk[p]
      BY <1>1, <1>3, <2>1, <2>8
    <3> QED BY <2>4, <2>5, <2>6, <3>1
  <2> QED BY <2>7, <2>8
<1>6. ASSUME NEW g \in Handlers, NEW n \in 1..Len(events), ChangeWatchedFiles(g, n)
      PROVE  /\ Deletions /\ p \notin args'[h].changed
             /\ disk'[p] = Absent \/ Reported(p)' \/ Behind(h, p)'
  <2>1. /\ events' = SubSeq(events, n + 1, Len(events)) /\ pc[g] = "idle" /\ Goto(g, "received")
        /\ args' = [args EXCEPT ![g] = [changed |-> ChangedPaths(n), deleted |-> DeletedPaths(n)]]
        /\ UNCHANGED <<disk, queue>>
        /\ Overtaking \/ \A other \in Handlers : pc[other] # "received"
        /\ MixedBatches \/ ChangedPaths(n) \cap DeletedPaths(n) = {}
    BY <1>6 DEF ChangeWatchedFiles, Takes, lock
  <2>2. /\ Len(events') = Len(events) - n /\ Len(events) \in Nat
        /\ \A i \in 1..Len(events') : events'[i] = events[n + i]
    BY <2>1, EventIndex
  <2>3. /\ pc'[g] = "received" /\ args'[g].changed = ChangedPaths(n)
        /\ args'[g].deleted = DeletedPaths(n)
        /\ \A s \in Handlers \ {g} : pc'[s] = pc[s] /\ args'[s] = args[s]
    BY <1>1, <2>1 DEF Goto
  <2>4. ASSUME NEW k \in 1..Len(events), events[k].path = p, ~events[k].deleted
        PROVE  Reported(p)' \/ p \in ChangedPaths(n)
    <3>1. CASE k > n
      <4>1. k - n \in 1..Len(events') /\ events'[k - n] = events[k]
        BY <2>2, <3>1
      <4> QED BY <2>4, <4>1 DEF Reported
    <3>2. CASE ~(k > n)
      <4>1. k \in 1..n
        BY <2>2, <3>2
      <4> QED BY <2>4, <4>1 DEF ChangedPaths
    <3> QED BY <3>1, <3>2
  <2>5. CASE h = g
    <3>1. PICK i \in 1..n : events[i].deleted /\ events[i].path = p
      BY <2>3, <2>5 DEF DeletedPaths
    <3>2. i \in 1..Len(events)
      BY <2>2
    <3>3. Deletions /\ (disk[p] = Absent \/ Later(i))
      BY <3>1, <3>2 DEF EventsOrdered
    <3>4. p \notin ChangedPaths(n)
      BY <2>1, <2>3, <2>5, <3>3 DEF Orderly
    <3>5. Later(i) => Reported(p)'
      BY <2>4, <3>1, <3>4 DEF Later
    <3> QED BY <2>1, <2>3, <2>5, <3>3, <3>4, <3>5
  <2>6. CASE h # g
    <3>1. pc[h] \in Active /\ args'[h] = args[h] /\ pc'[h] = pc[h]
      BY <2>3, <2>6
    <3>2. /\ Deletions /\ p \notin args'[h].changed
          /\ disk[p] = Absent \/ Reported(p) \/ Behind(h, p)
      BY <1>4, <3>1
    <3>3. pc'[h] # "received"
      BY <2>1, <3>1, <3>2 DEF Orderly
    <3>4. p \in ChangedPaths(n) => Behind(h, p)'
      BY <2>3, <3>3 DEF Behind
    <3>5. Reported(p) => Reported(p)' \/ Behind(h, p)'
      BY <2>4, <3>4 DEF Reported
    <3>6. Behind(h, p) => Behind(h, p)'
      <4>1. ASSUME Behind(h, p) PROVE Behind(h, p)'
        <5>1. PICK f \in Handlers :
                /\ p \in args[f].changed
                /\ \/ pc[h] # "received" /\ pc[f] = "received"
                   \/ pc[h] = "queued" /\ pc[f] = "queued" /\ Follows(h, f)
                   \/ pc[h] \in HoldsGate /\ pc[f] = "queued"
          BY <4>1 DEF Behind
        <5>2. f # g
          BY <2>1, <5>1
        <5>3. Follows(h, f)' = Follows(h, f)
          BY <2>1 DEF Follows
        <5> QED BY <2>3, <3>1, <5>1, <5>2, <5>3 DEF Behind
      <4> QED BY <4>1
    <3> QED BY <2>1, <3>2, <3>5, <3>6
  <2> QED BY <2>5, <2>6
<1>7. ASSUME UNCHANGED <<disk, events>>, ~(\E g \in Handlers : \E n \in 1..Len(events) : ChangeWatchedFiles(g, n))
      PROVE  /\ Deletions /\ p \notin args'[h].changed
             /\ disk'[p] = Absent \/ Reported(p)' \/ Behind(h, p)'
  <2>1. Reported(p)' = Reported(p)
    BY <1>7 DEF Reported
  <2>2. Moves(h)
    BY HandlerMoves
  <2>3. CASE \E q \in Paths : Save(h, q)
    BY <1>1, <2>3 DEF Save
  <2>4. CASE ~\E q \in Paths : Save(h, q)
    <3>1. pc[h] \in Active /\ args'[h] = args[h]
      BY <1>7, <2>2, <2>4 DEF Moves, Active, HoldsGate, WorkerStages
    <3>2. /\ Deletions /\ p \notin args'[h].changed
          /\ disk[p] = Absent \/ Reported(p) \/ Behind(h, p)
      BY <1>4, <3>1
    <3>3. Behind(h, p) => Behind(h, p)'
      BY <1>2, <1>3, <1>7, <3>1, <3>2, BehindStays DEF Live
    <3> QED BY <1>7, <2>1, <3>2, <3>3
  <2> QED BY <2>3, <2>4
<1> QED BY <1>5, <1>6, <1>7, FilesStay

-----------------------------------------------------------------------------
(* The index, its rows and its marks.                                      *)

CoverBase == /\ Whole /\ Orderly /\ Live /\ IInv /\ ClearInv /\ OrderInv /\ DeletesOrdered
             /\ CoverInv

\* The task at the gate leaves the files and what is known of them as they are.
LEMMA AloneSees ==
  ASSUME TypeOK, NEW t \in Tasks, Alone(t), pc[t] # "received", pc'[t] # "received"
  PROVE  \A p \in Paths : (Unhandled(p)' <=> Unhandled(p)) /\ Expected(p)' = Expected(p)
<1>1. UNCHANGED <<disk, events, args>> /\ \A s \in Tasks \ {t} : pc'[s] = pc[s]
  BY DEF Alone
<1>2. \A h \in Handlers : pc'[h] = "received" <=> pc[h] = "received"
  BY <1>1, JobsAreNotHandlers
<1> QED BY <1>1, <1>2 DEF Unhandled, Expected, Indexable

\* So the parts of the invariant concern that task alone.
LEMMA CoverAlone ==
  ASSUME NEW t \in Tasks, Alone(t), Working(t)', Installing(t)',
         pc'[t] \in WorkerStages \cup {"returned", "installing"} =>
           \A p \in Paths : Seen(t, p)' <= pending_refresh'[p],
         AllCovered', RowsHonest'
  PROVE  CoverInv'
<1>1. \A s \in Tasks \ {t} : pc'[s] \notin HoldsGate
  BY DEF Alone
<1>2. \A s \in Tasks \ {t} : Working(s)' /\ Installing(s)'
  BY <1>1 DEF Working, Installing, Returned, HoldsGate
<1>3. SeenMarks'
  BY <1>1 DEF SeenMarks, HoldsGate
<1> QED BY <1>2, <1>3 DEF CoverInv

\* A file that cannot be indexed is expected to have no answer.
LEMMA ExpectedOf ==
  ASSUME NEW p \in Paths
  PROVE  /\ Indexable(p, disk[p]) => Expected(p) = disk[p] /\ disk[p] \in Sources
         /\ ~Indexable(p, disk[p]) => Expected(p) = Absent
         /\ disk[p] = Absent => Expected(p) = Absent
         /\ Absent \notin Sources /\ Unreadable \notin Sources
         /\ disk[p] \in Contents /\ disk[p] # Absent /\ p \notin Excluded /\ ~Indexable(p, disk[p])
              => disk[p] = Unreadable
BY DataAssumption DEF Expected, Indexable, Contents

\* The first job does not go back to its wait.
LEMMA FirstWaits ==
  ASSUME IInv, [Next]_vars, pc'[1] \in {"spawned", "queued"}
  PROVE  pc[1] \in {"spawned", "queued"}
<1> USE JobsAreNotHandlers DEF IInv
<1>1. /\ pc \in [Tasks -> JobStages \cup RefreshStages] /\ 1 \in Jobs
      /\ job_generation \in Nat /\ job_generation >= 1 /\ pc[1] # "unborn"
  BY BoundsAssumption DEF TypeOK, Spawned, Jobs
<1>2. CASE Environment
  <2>1. CASE RebuildIndex
    BY <1>1, <2>1 DEF RebuildIndex, Goto
  <2>2. CASE ~RebuildIndex
    <3>1. pc' = pc \/ \E h \in Handlers : Goto(h, "received")
      BY <1>2, <2>2 DEF Environment, Edit, ChangeWatchedFiles, Save, Shutdown
    <3> QED BY <1>1, <3>1 DEF Goto
  <2> QED BY <2>1, <2>2
<1>3. ASSUME NEW j \in Jobs, JobStep(j) PROVE pc[1] \in {"spawned", "queued"}
  <2>1. pc[j] \in {"spawned", "queued", "finishing"}
    BY <1>3 DEF JobStep, EndAtShutdown, CountJob, AbandonJob, StartRebuild, StartReconcile,
                FinishJob, Acquire, AtGate
  <2>2. pc[j] = "finishing" => Goto(j, "ended")
    BY <1>3 DEF JobStep, EndAtShutdown, CountJob, AbandonJob, StartRebuild, StartReconcile,
                FinishJob, Acquire, AtGate
  <2>3. \E stage : Goto(j, stage)
    BY <1>3 DEF JobStep, EndAtShutdown, CountJob, AbandonJob, StartRebuild, StartReconcile,
                FinishJob
  <2> QED BY <1>1, <2>1, <2>2, <2>3 DEF Goto
<1>4. ASSUME NEW h \in Handlers, RefreshStep(h) PROVE pc'[1] = pc[1]
  BY <1>1, <1>4 DEF RefreshStep, MarkPathsPendingRefresh, AbandonRefresh, StartRefresh,
                    FinishRefresh, Goto
<1>5. ASSUME NEW t \in Tasks, WorkerStep(t) \/ WorkerFault(t) \/ ReturnStep(t)
      PROVE  pc'[1] = pc[1]
  <2>1. PICK stage : Goto(t, stage) /\ stage \notin {"spawned", "queued"}
    <3>1. ASSUME NEW p \in Paths, ReadPath(t, p)
          PROVE  \E stage : Goto(t, stage) /\ stage \notin {"spawned", "queued"}
      BY <3>1 DEF ReadPath
    <3>2. PersistPaths(t) \/ GiveUpPersisting(t) => Goto(t, "returned")
      BY DEF PersistPaths, GiveUpPersisting, Return
    <3>3. FallBack(t) => Goto(t, "repersisting") \/ Goto(t, "rereading")
      BY DEF FallBack
    <3>4. WorkerFault(t) => Goto(t, "failed") \/ Goto(t, "lost")
      BY DEF WorkerFault, WorkerErrs, WorkerPanics
    <3>5. ReturnStep(t) => Goto(t, "installing") \/ Goto(t, "finishing")
      BY DEF ReturnStep, GoInstall, DropResult, Install, RejectResult
    <3> QED BY <1>5, <3>1, <3>2, <3>3, <3>4, <3>5 DEF WorkerStep
  <2> QED BY <1>1, <2>1 DEF Goto
<1>6. CASE System
  BY <1>3, <1>4, <1>5, <1>6 DEF System
<1>7. CASE UNCHANGED vars
  BY <1>7 DEF vars
<1> QED BY <1>2, <1>6, <1>7 DEF Next

\* What drifts stays covered: a file that changes is unhandled, and an event that is handled
\* leaves a newer mark.
LEMMA DriftsKnown ==
  ASSUME TypeOK, TypeOK', Drifts, NEW p \in Paths
  PROVE  /\ pending_refresh[p] \in Nat /\ pending_refresh'[p] \in Nat
         /\ pending_refresh'[p] >= pending_refresh[p]
         /\ disk'[p] # disk[p] => Unhandled(p)'
         /\ disk'[p] = disk[p] => Expected(p)' = Expected(p)
         /\ Unhandled(p) => Unhandled(p)' \/ pending_refresh'[p] > pending_refresh[p]
         /\ Known(p) => Known(p)'
<1>1. pending_refresh[p] \in Nat /\ pending_refresh'[p] \in Nat
  BY DEF TypeOK
<1> QED BY <1>1 DEF Drifts, Expected, Indexable, Known

LEMMA ElsewhereCovers ==
  ASSUME CoverBase, IInv', Live', [Next]_vars, Elsewhere, Drifts
  PROVE  CoverInv'
<1> USE JobsAreNotHandlers
<1>1. IInv /\ TypeOK /\ TypeOK' /\ CoverInv /\ Spawned
  BY DEF CoverBase, IInv
<1>2. /\ UNCHANGED <<gate, store, synced, rows>>
      /\ \A t \in Tasks : pc'[t] \in HoldsGate => /\ pc'[t] = pc[t] /\ work'[t] = work[t]
                                                  /\ t \in Handlers => args'[t] = args[t]
      /\ \A t \in Tasks : pc[t] \in HoldsGate => pc'[t] = pc[t]
  BY DEF Elsewhere, HoldsGate, WorkerStages
<1>3. job_generation \in Nat /\ job_generation >= 1 /\ job_generation' \in Nat
      /\ job_generation' >= job_generation
  BY <1>1 DEF Elsewhere, TypeOK, Jobs
<1>4. \A t \in Tasks, p \in Paths : pc'[t] \in HoldsGate => Seen(t, p)' = Seen(t, p) /\ Seen(t, p) \in Nat
  <2> SUFFICES ASSUME NEW t \in Tasks, NEW p \in Paths, pc'[t] \in HoldsGate
               PROVE  Seen(t, p)' = Seen(t, p) /\ Seen(t, p) \in Nat
    OBVIOUS
  <2>1. work'[t] = work[t] /\ work[t].snapshot[p] \in Nat
    <3>1. work[t] \in Work
      BY <1>1 DEF TypeOK
    <3>2. work[t].snapshot[p] \in Nat
      BY <3>1 DEF Work
    <3> QED BY <1>2, <3>2
  <2> QED BY <2>1 DEF Seen
<1>5. ASSUME NEW t \in Tasks, NEW p \in Paths, pc'[t] \in WorkerStages \cup {"returned", "installing"}
      PROVE  /\ Seen(t, p) <= pending_refresh[p] /\ Seen(t, p)' <= pending_refresh'[p]
             /\ Newer(t, p) => Newer(t, p)'
  <2>1. pc[t] = pc'[t] /\ Seen(t, p)' = Seen(t, p) /\ Seen(t, p) \in Nat
    BY <1>2, <1>4, <1>5 DEF HoldsGate
  <2>2. Seen(t, p) <= pending_refresh[p]
    BY <1>1, <1>5, <2>1 DEF CoverInv, SeenMarks
  <2> QED BY <1>1, <2>1, <2>2, DriftsKnown DEF Newer
<1>6. ASSUME NEW t \in Tasks, NEW p \in Paths, NEW c, pc'[t] \in WorkerStages,
             Right(p, c) \/ Newer(t, p)
      PROVE  Right(p, c)' \/ Newer(t, p)'
  BY <1>1, <1>5, <1>6, DriftsKnown DEF Right, Newer
<1>7. ASSUME NEW t \in Tasks PROVE Working(t)'
  <2> SUFFICES ASSUME pc'[t] \in WorkerStages PROVE Working(t)'
    BY DEF Working
  <2> DEFINE w == work[t]
  <2>1. pc[t] = pc'[t] /\ work'[t] = w /\ Working(t) /\ (t \in Handlers => args'[t] = args[t])
    BY <1>1, <1>2 DEF CoverInv, HoldsGate
  <2>2. ReadRight(t)'
    <3>1. w.fresh \subseteq Paths
      BY <1>1 DEF TypeOK, Work
    <3>2. /\ \A p \in w.fresh : w.files[p] \in Sources /\ p \notin w.todo /\ Told(t, p, w.files[p])
          /\ w.full => ~w.cached /\ \A p \in Paths \ (w.todo \cup w.fresh) :
                                        p \in w.gone /\ Told(t, p, Absent)
      BY <2>1 DEF Working, ReadRight
    <3>3. \A p \in w.fresh : Right(p, w.files[p])' \/ Newer(t, p)'
      <4> SUFFICES ASSUME NEW p \in w.fresh PROVE Right(p, work[t].files[p])' \/ Newer(t, p)'
        BY <2>1
      <4>1. Right(p, w.files[p]) \/ Newer(t, p)
        BY <3>2 DEF Told
      <4>2. PICK c : c = w.files[p]
        OBVIOUS
      <4>3. Right(p, c)' \/ Newer(t, p)'
        BY <1>6, <3>1, <4>1, <4>2
      <4> QED BY <2>1, <4>2, <4>3 DEF Right
    <3>4. w.full => \A p \in Paths \ (w.todo \cup w.fresh) : Right(p, Absent)' \/ Newer(t, p)'
      BY <1>6, <3>2 DEF Told
    <3> QED BY <2>1, <3>2, <3>3, <3>4 DEF ReadRight, Told, Right
  <2>3. t \in Handlers /\ RefreshRight(t) => RefreshRight(t)'
    <3> SUFFICES ASSUME t \in Handlers, RefreshRight(t) PROVE RefreshRight(t)'
      OBVIOUS
    <3>1. \A p \in args[t].changed \ (args[t].deleted \cup w.fresh \cup w.todo) :
            disk[p] = Unreadable \/ Newer(t, p) \/ (Expected(p) = Absent /\ w.files[p] = Absent)
      BY DEF RefreshRight
    <3>2. \A p \in args[t].changed : p \in Paths
      BY <1>1 DEF TypeOK, Args
    <3>3. \A p \in args[t].changed \ (args[t].deleted \cup w.fresh \cup w.todo) :
            disk'[p] = Unreadable \/ Newer(t, p)' \/ (Expected(p)' = Absent /\ w.files[p] = Absent)
      BY <1>1, <1>5, <3>1, <3>2, DriftsKnown DEF Newer
    <3> QED BY <1>2, <2>1, <3>3 DEF RefreshRight
  <2>4. t = 1 /\ ReconcileRight(t) => ReconcileRight(t)'
    BY <1>2, <1>3, <1>6, <2>1 DEF ReconcileRight, Told
  <2> QED BY <2>1, <2>2, <2>3, <2>4 DEF Working
<1>8. ASSUME NEW p \in Paths PROVE Deletions /\ Waiting(p) => Waiting(p)'
  BY DEF Waiting, Elsewhere, CoverBase, Live
<1>9. ASSUME NEW t \in Tasks PROVE Installing(t)'
  <2> SUFFICES ASSUME Returned(t)' PROVE Installing(t)'
    BY DEF Installing
  <2> DEFINE w == work[t]
  <2>1. pc[t] = pc'[t] /\ work'[t] = w /\ Returned(t) /\ Installing(t) /\ pc[t] \in HoldsGate
    BY <1>1, <1>2 DEF CoverInv, HoldsGate, Returned
  <2>2. t = job_generation' => t = job_generation
    <3> SUFFICES ASSUME t = job_generation' PROVE t = job_generation
      OBVIOUS
    <3>1. t \in Jobs
      BY <1>1 DEF TypeOK
    <3>2. ~(t > job_generation)
      BY <1>1, <2>1, <3>1 DEF Spawned, HoldsGate, WorkerStages
    <3> QED BY <1>3, <3>2
  <2>3. \A p \in Paths : Seen(t, p)' = Seen(t, p) /\ Seen(t, p) \in Nat /\ Seen(t, p) <= pending_refresh[p]
    BY <1>4, <1>5, <2>1 DEF Returned
  <2>4. \A p \in Paths : w.completed[p] \in {0, Seen(t, p)}
    BY <2>1 DEF Installing
  <2>5. ASSUME NEW p \in Paths, WillCover(w, p) PROVE WillCover(w, p)'
    <3>1. Answer(w, p)' = Answer(w, p)
      BY <1>2, <2>1 DEF Answer
    <3>2. Right(p, Answer(w, p)) => Right(p, Answer(w, p))' \/ Unhandled(p)'
      BY <1>1, <3>1, DriftsKnown DEF Right
    <3>3. Unhandled(p) => Unhandled(p)' \/ (pending_refresh'[p] > 0 /\ w.completed[p] # pending_refresh'[p])
      BY <1>1, <2>3, <2>4, DriftsKnown
    <3>4. pending_refresh[p] > 0 /\ w.completed[p] # pending_refresh[p]
            => pending_refresh'[p] > 0 /\ w.completed[p] # pending_refresh'[p]
      BY <1>1, <2>3, <2>4, DriftsKnown
    <3> QED BY <1>8, <2>1, <2>5, <3>1, <3>2, <3>3, <3>4 DEF WillCover
  <2> QED BY <1>2, <2>1, <2>2, <2>3, <2>4, <2>5 DEF Installing
<1>10. SeenMarks'
  BY <1>5 DEF SeenMarks
<1>11. AllCovered'
  <2>1. ASSUME NEW p \in Paths, Covered(p) PROVE Covered(p)'
    <3>1. FileForPath(p)' = FileForPath(p)
      BY <1>2 DEF FileForPath
    <3>2. Right(p, FileForPath(p)) => Right(p, FileForPath(p))' \/ Unhandled(p)'
      BY <1>1, <3>1, DriftsKnown DEF Right
    <3>3. Deletions /\ Refreshing(p) => Refreshing(p)'
      <4>1. ASSUME Deletions, NEW h \in Handlers, pc[h] \in HoldsGate \cup {"queued"}
            PROVE  pc'[h] \in HoldsGate \cup {"queued"} /\ args'[h] = args[h]
        BY <4>1, <1>2 DEF Elsewhere, CoverBase, Live
      <4> QED BY <4>1 DEF Refreshing
    <3> QED BY <1>1, <2>1, <3>1, <3>2, <3>3, DriftsKnown DEF Covered, Known
  <2> QED BY <1>1, <1>2, <2>1 DEF CoverInv, AllCovered
<1>12. RowsHonest'
  <2> SUFFICES ASSUME Before', NEW p \in Paths PROVE Honest(p)'
    BY DEF RowsHonest
  <2>1. Before
    <3>1. job_generation = 1
      BY <1>3 DEF Before
    <3>2. pc'[1] \in {"spawned", "queued"} => pc[1] \in {"spawned", "queued"}
      BY <1>1, FirstWaits
    <3>3. pc'[1] \in WorkerStages => pc[1] \in WorkerStages
      BY <1>2, BoundsAssumption DEF HoldsGate, Tasks, Jobs
    <3>4. ~shutting_down' => ~shutting_down
      BY DEF Elsewhere
    <3> QED BY <3>1, <3>2, <3>3, <3>4 DEF Before
  <2>2. NextDb' = NextDb
    BY <1>2 DEF NextDb, Returned, HoldsGate
  <2>3. Stays(p) => Stays(p)'
    <3>1. ASSUME NEW t \in Tasks, Returned(t)'
          PROVE  /\ Returned(t) /\ work'[t] = work[t]
                 /\ work[t].completed[p] \in Nat /\ work[t].completed[p] <= pending_refresh[p]
      <4>1. Returned(t) /\ work'[t] = work[t] /\ Installing(t)
        BY <1>1, <1>2, <3>1 DEF Returned, HoldsGate, CoverInv
      <4>2. work[t].completed[p] \in {0, Seen(t, p)} /\ Seen(t, p) <= pending_refresh[p]
            /\ Seen(t, p) \in Nat
        BY <1>4, <1>5, <3>1, <4>1 DEF Installing, Returned, HoldsGate
      <4> QED BY <1>1, <4>1, <4>2, DriftsKnown
    <3> QED BY <1>1, <3>1, DriftsKnown DEF Stays
  <2>4. disk'[p] = disk[p] \/ Stays(p)'
    BY <1>1, DriftsKnown DEF Stays
  <2>5. Honest(p)
    BY <1>1, <2>1 DEF CoverInv, RowsHonest
  <2> QED BY <1>2, <2>2, <2>3, <2>4, <2>5 DEF Honest
<1> QED BY <1>7, <1>9, <1>10, <1>11, <1>12 DEF CoverInv

\* While no task has returned its index, the installed one and its rows stay covered.
LEMMA HolderKeepsCover ==
  ASSUME CoverBase, NEW t \in Tasks, Alone(t), UNCHANGED <<rows, pending_refresh, store, synced>>,
         ~Returned(t), ~Returned(t)', pc[t] # "received", pc'[t] # "received",
         Deletions /\ pc[t] \in HoldsGate \cup {"queued"} => pc'[t] \in HoldsGate \cup {"queued"},
         t = 1 /\ Before' => Before
  PROVE  AllCovered' /\ RowsHonest'
<1> USE JobsAreNotHandlers
<1>1. IInv /\ TypeOK /\ CoverInv
  BY DEF CoverBase, IInv
<1>2. /\ UNCHANGED <<disk, events, args, job_generation, shutting_down>>
      /\ \A s \in Tasks \ {t} : pc'[s] = pc[s] /\ pc[s] \notin HoldsGate /\ ~Returned(s) /\ ~Returned(s)'
  BY DEF Alone, Returned, HoldsGate
<1>3. \A p \in Paths : Unhandled(p)' <=> Unhandled(p)
  BY <1>1, AloneSees
<1>4. ASSUME NEW p \in Paths, synced # 0 PROVE Covered(p)'
  <2>1. Covered(p)
    BY <1>1, <1>4 DEF CoverInv, AllCovered
  <2>2. FileForPath(p)' = FileForPath(p) /\ Right(p, FileForPath(p))' = Right(p, FileForPath(p))
    BY <1>2 DEF FileForPath, Right, Expected, Indexable
  <2>3. Deletions /\ Refreshing(p) => Refreshing(p)'
    BY <1>2 DEF Refreshing
  <2> QED BY <1>3, <2>1, <2>2, <2>3 DEF Covered, Known
<1>5. AllCovered'
  BY <1>4 DEF AllCovered
<1>6. ASSUME Before', NEW p \in Paths PROVE Honest(p)'
  <2>1. Before
    BY <1>2, <1>6, BoundsAssumption DEF Before, Tasks, Jobs
  <2>2. NextDb = store.db /\ NextDb' = store.db
    BY <1>2 DEF NextDb
  <2>3. Stays(p) => Stays(p)'
    BY <1>2, <1>3 DEF Stays
  <2>4. Honest(p)
    BY <1>1, <2>1 DEF CoverInv, RowsHonest
  <2> QED BY <1>2, <2>2, <2>3, <2>4 DEF Honest
<1> QED BY <1>5, <1>6 DEF RowsHonest

LEMMA BeginsCovers ==
  ASSUME CoverBase, IInv', NEW t \in Tasks, Begins(t), Alone(t)
  PROVE  CoverInv'
<1> USE JobsAreNotHandlers
<1>1. IInv /\ TypeOK /\ Whole
  BY DEF CoverBase, IInv
<1>2. /\ pc[t] = "queued" /\ ~shutting_down /\ UNCHANGED <<rows, pending_refresh, store, synced>>
      /\ pc \in [Tasks -> JobStages \cup RefreshStages] /\ pending_refresh \in [Paths -> Nat]
      /\ UNCHANGED args
  BY <1>1, BeginFields DEF TypeOK, Alone
<1>3. CASE t \in Jobs /\ StartRebuild(t)
  <2>1. LET v == work'[t]
        IN  /\ v.files = NoFiles /\ v.todo = Paths /\ v.fresh = {} /\ v.gone = {}
            /\ v.full = TRUE /\ v.cached = FALSE /\ t # 1
            /\ Goto(t, "reading") /\ rows' = rows
    BY <1>1, <1>3, RebuildFields
  <2>2. pc'[t] = "reading"
    BY <1>2, <2>1 DEF Goto
  <2>3. Working(t)'
    BY <1>3, <2>1, <2>2 DEF Working, ReadRight
  <2>4. Installing(t)' /\ ~Returned(t) /\ ~Returned(t)'
    BY <1>2, <2>2 DEF Installing, Returned
  <2>5. \A p \in Paths : Seen(t, p)' <= pending_refresh'[p]
    BY <1>2, <1>3 DEF Seen
  <2>6. AllCovered' /\ RowsHonest'
    BY <1>2, <2>1, <2>2, <2>4, HolderKeepsCover DEF HoldsGate, WorkerStages
  <2> QED BY <2>3, <2>4, <2>5, <2>6, CoverAlone
<1>4. CASE t \in Jobs /\ StartReconcile(t)
  <2>1. LET v == work'[t]
        IN  /\ v.files = NoFiles /\ v.todo = Paths /\ v.fresh = {} /\ v.gone = {}
            /\ ~v.full /\ v.cached = store.cached /\ v.db = store.db
            /\ t = 1 /\ job_generation = 1 /\ Goto(t, "reading") /\ rows' = rows
    BY <1>1, <1>4, ReconcileFields
  <2>2. pc'[t] = "reading"
    BY <1>2, <2>1 DEF Goto
  <2>3. ReconcileRight(t)'
    BY <1>2, <2>1 DEF ReconcileRight
  <2>4. Working(t)'
    BY <1>4, <2>1, <2>2, <2>3 DEF Working, ReadRight
  <2>5. Installing(t)' /\ ~Returned(t) /\ ~Returned(t)'
    BY <1>2, <2>2 DEF Installing, Returned
  <2>6. \A p \in Paths : Seen(t, p)' <= pending_refresh'[p]
    BY <1>2, <1>4 DEF Seen
  <2>7. Before
    BY <1>2, <2>1 DEF Before
  <2>8. AllCovered' /\ RowsHonest'
    BY <1>2, <2>1, <2>2, <2>5, <2>7, HolderKeepsCover DEF HoldsGate, WorkerStages
  <2> QED BY <2>4, <2>5, <2>6, <2>8, CoverAlone
<1>5. CASE t \in Handlers /\ StartRefresh(t)
  <2> DEFINE a == args[t]
  <2>1. LET v == work'[t]
        IN  /\ v.todo = a.changed \ a.deleted /\ v.fresh = {} /\ v.gone = a.deleted
            /\ v.done = a.deleted /\ ~v.full /\ v.cached = store.cached /\ v.db = store.db
            /\ v.backed = store.cached
            /\ \A p \in Paths : v.files[p] = IF p \in a.deleted THEN Absent ELSE store.files[p]
            /\ \A p \in Paths : v.snapshot[p] \in {0, pending_refresh[p]}
            /\ Goto(t, IF v.todo = {} THEN "persisting" ELSE "reading") /\ rows' = rows
    BY <1>1, <1>5, RefreshFields
  <2>2. pc'[t] \in {"reading", "persisting"}
    BY <1>2, <2>1 DEF Goto
  <2>3. a.changed \subseteq Paths /\ a.deleted \subseteq Paths
    BY <1>1, <1>5 DEF TypeOK, Args
  <2>4. RefreshRight(t)'
    BY <1>2, <2>1, <2>3 DEF RefreshRight
  <2>5. Working(t)'
    BY <1>5, <2>1, <2>2, <2>4 DEF Working, ReadRight
  <2>6. Installing(t)' /\ ~Returned(t) /\ ~Returned(t)'
    BY <1>2, <2>2 DEF Installing, Returned
  <2>7. \A p \in Paths : Seen(t, p)' <= pending_refresh'[p]
    BY <1>2, <1>5, <2>1 DEF Seen
  <2>8. AllCovered' /\ RowsHonest'
    BY <1>2, <1>5, <2>2, <2>6, HolderKeepsCover, BoundsAssumption DEF HoldsGate, WorkerStages, Jobs
  <2> QED BY <2>5, <2>6, <2>7, <2>8, CoverAlone
<1> QED BY <1>3, <1>4, <1>5 DEF Begins

LEMMA FallBackCovers ==
  ASSUME CoverBase, IInv', NEW t \in Tasks, FallBack(t), Alone(t)
  PROVE  CoverInv'
<1> USE JobsAreNotHandlers
<1>1. IInv /\ TypeOK /\ CoverInv
  BY DEF CoverBase, IInv
<1> DEFINE w == work[t]
           v == work'[t]
<1>2. /\ v.db = "fallback" /\ v.snapshot = w.snapshot /\ v.full
      /\ IF w.full
         THEN /\ Goto(t, "repersisting") /\ v.files = w.files /\ v.todo = w.todo
              /\ v.fresh = w.fresh /\ v.gone = w.gone /\ v.cached = w.cached
         ELSE /\ Goto(t, "rereading") /\ v.files = NoFiles /\ v.todo = Paths
              /\ v.fresh = {} /\ v.gone = {} /\ ~v.cached
      /\ pc[t] = "persisting" /\ UNCHANGED <<rows, pending_refresh, store, synced>>
  BY <1>1, FallBackFields
<1>3. pc'[t] \in {"rereading", "repersisting"} /\ pc[t] \in WorkerStages /\ pc'[t] \in WorkerStages
  BY <1>1, <1>2 DEF Goto, TypeOK, WorkerStages
<1>4. disk' = disk /\ job_generation' = job_generation /\ \A p \in Paths : Unhandled(p)' <=> Unhandled(p)
  BY <1>1, <1>3, AloneSees DEF Alone, WorkerStages
<1>5. \A p \in Paths : Seen(t, p)' = Seen(t, p)
  BY <1>2 DEF Seen
<1>6. \A p \in Paths : Newer(t, p)' <=> Newer(t, p)
  BY <1>2, <1>4, <1>5 DEF Newer
<1>7. ReadRight(t)'
  <2>1. CASE w.full
    <3>1. ReadRight(t)
      BY <1>1, <1>3 DEF CoverInv, Working
    <3>2. w.fresh \subseteq Paths
      BY <1>1 DEF TypeOK, Work
    <3> QED BY <1>2, <1>4, <1>6, <2>1, <3>1, <3>2 DEF ReadRight, Told, Right, Expected, Indexable
  <2>2. CASE ~w.full
    BY <1>2, <2>2 DEF ReadRight
  <2> QED BY <2>1, <2>2
<1>8. Working(t)'
  BY <1>2, <1>3, <1>7 DEF Working
<1>9. Installing(t)' /\ ~Returned(t) /\ ~Returned(t)'
  BY <1>2, <1>3 DEF Installing, Returned
<1>10. \A p \in Paths : Seen(t, p)' <= pending_refresh'[p]
  BY <1>1, <1>2, <1>3, <1>5 DEF CoverInv, SeenMarks
<1>11. t = 1 /\ Before' => Before
  BY <1>3, <1>4 DEF Before
<1>12. AllCovered' /\ RowsHonest'
  BY <1>2, <1>3, <1>9, <1>11, HolderKeepsCover DEF HoldsGate, WorkerStages
<1> QED BY <1>8, <1>9, <1>10, <1>12, CoverAlone

\* A path that is read is read right, and the others stay as they were.
LEMMA ReadCovers ==
  ASSUME CoverBase, IInv', NEW t \in Tasks, NEW p \in Paths, ReadPath(t, p), Alone(t)
  PROVE  CoverInv'
<1> USE JobsAreNotHandlers
<1> DEFINE w == work[t]
           v == work'[t]
<1>1. IInv /\ TypeOK /\ CoverInv /\ NoExcluded /\ w \in Work /\ v \in Work /\ disk[p] \in Contents
      /\ pc \in [Tasks -> JobStages \cup RefreshStages] /\ pending_refresh[p] \in Nat
  BY DEF CoverBase, IInv, OrderInv, TypeOK
<1>2. /\ p \in w.todo /\ v.todo = w.todo \ {p} /\ SameBut(w, v)
      /\ \A q \in Paths \ {p} :
           /\ v.files[q] = w.files[q] /\ (q \in v.fresh <=> q \in w.fresh)
           /\ (q \in v.gone <=> q \in w.gone) /\ (q \in v.done <=> q \in w.done)
      /\ \/ /\ Indexable(p, disk[p]) /\ v.files[p] = disk[p] /\ p \in v.fresh
            /\ p \in v.gone <=> p \in w.gone
            /\ ~w.full /\ t \in Handlers => p \in v.done
         \/ /\ p \in v.fresh <=> p \in w.fresh
            /\ \/ /\ w.full /\ ~Indexable(p, disk[p])
                  /\ p \in v.gone /\ v.files[p] = w.files[p]
               \/ /\ ~w.full /\ t \in Handlers /\ ~Indexable(p, disk[p])
                  /\ p \in v.gone <=> p \in w.gone
                  /\ p \in v.done <=> p \in w.done
                  /\ \/ v.files[p] = Absent
                     \/ v.files[p] = w.files[p] /\ disk[p] # Absent /\ p \notin Excluded
               \/ /\ ~w.full /\ t \notin Handlers
                  /\ LET row == rows[w.db][p]
                     IN  IF Indexable(p, disk[p])
                         THEN row.fingerprint = disk[p] /\ (p \in v.gone <=> p \in w.gone)
                         ELSE IF row.src # Absent /\ (disk[p] = Absent \/ p \in Excluded)
                              THEN p \in v.gone ELSE p \in v.gone <=> p \in w.gone
  BY <1>1, ReadFields
<1>3. /\ UNCHANGED <<rows, pending_refresh, store, synced, args, disk, job_generation>>
      /\ pc[t] \in {"reading", "rereading"}
      /\ pc'[t] \in IF pc[t] = "reading" THEN {"reading", "persisting"} ELSE {"rereading", "repersisting"}
  BY <1>1 DEF ReadPath, installed, env, status, Goto
<1>4. \A q \in Paths : (Unhandled(q)' <=> Unhandled(q)) /\ Expected(q)' = Expected(q)
  BY <1>1, <1>3, AloneSees
<1>5. \A q \in Paths : Seen(t, q)' = Seen(t, q)
  BY <1>2 DEF Seen, SameBut
<1>6. \A q \in Paths : Newer(t, q)' <=> Newer(t, q)
  BY <1>3, <1>4, <1>5 DEF Newer
<1>7. pc[t] \in WorkerStages /\ pc'[t] \in WorkerStages /\ Working(t) /\ ReadRight(t)
  BY <1>1, <1>3 DEF CoverInv, Working, WorkerStages
<1>8. /\ Indexable(p, disk[p]) => Expected(p) = disk[p] /\ disk[p] \in Sources
      /\ ~Indexable(p, disk[p]) => Expected(p) = Absent
      /\ disk[p] # Absent /\ p \notin Excluded /\ ~Indexable(p, disk[p]) => disk[p] = Unreadable
  BY <1>1, ExpectedOf
<1>9. p \notin w.fresh /\ v.full = w.full /\ v.cached = w.cached /\ v.db = w.db /\ v.backed = w.backed
  BY <1>2, <1>7 DEF ReadRight, SameBut
<1>10. v.fresh \subseteq Paths /\ v.gone \subseteq Paths /\ v.done \subseteq Paths
       /\ w.fresh \subseteq Paths /\ w.gone \subseteq Paths /\ w.done \subseteq Paths
  BY <1>1 DEF Work
<1> HIDE DEF w, v
<1>11. ASSUME NEW q \in v.fresh
       PROVE  v.files[q] \in Sources /\ q \notin v.todo /\ (Right(q, v.files[q]) \/ Newer(t, q))
  <2>1. CASE q # p
    <3>1. q \in Paths /\ q \in w.fresh /\ v.files[q] = w.files[q]
      BY <1>2, <1>10, <1>11, <2>1
    <3>2. w.files[q] \in Sources /\ q \notin w.todo /\ (Right(q, w.files[q]) \/ Newer(t, q))
      BY <1>7, <3>1 DEF ReadRight, Told, w
    <3> QED BY <1>2, <3>1, <3>2
  <2>2. CASE q = p
    <3>1. Indexable(p, disk[p]) /\ v.files[p] = disk[p]
      BY <1>2, <1>9, <1>11, <2>2
    <3>2. Right(p, v.files[p])
      BY <1>8, <3>1 DEF Right
    <3> QED BY <1>2, <1>8, <2>2, <3>1, <3>2
  <2> QED BY <2>1, <2>2
<1>12. ASSUME w.full, NEW q \in Paths \ (v.todo \cup v.fresh)
       PROVE  q \in v.gone /\ (Right(q, Absent) \/ Newer(t, q))
  <2>1. CASE q # p
    <3>1. q \in w.gone /\ Told(t, q, Absent)
      BY <1>2, <1>7, <1>12, <2>1 DEF ReadRight, w
    <3> QED BY <1>2, <2>1, <3>1 DEF Told
  <2>2. CASE q = p
    <3>1. ~Indexable(p, disk[p]) /\ p \in v.gone
      BY <1>2, <1>12, <2>2
    <3> QED BY <1>8, <2>2, <3>1 DEF Right
  <2> QED BY <2>1, <2>2
<1>13. ReadRight(t)'
  <2>1. w.full => ~w.cached
    BY <1>7 DEF ReadRight, w
  <2>2. \A q \in v.fresh : /\ v.files[q] \in Sources /\ q \notin v.todo
                           /\ disk'[q] = Unreadable \/ v.files[q] = Expected(q)' \/ Newer(t, q)'
    BY <1>3, <1>4, <1>6, <1>10, <1>11 DEF Right
  <2>3. v.full => \A q \in Paths \ (v.todo \cup v.fresh) :
                    /\ q \in v.gone
                    /\ disk'[q] = Unreadable \/ Absent = Expected(q)' \/ Newer(t, q)'
    BY <1>3, <1>4, <1>6, <1>9, <1>12 DEF Right
  <2> QED BY <1>9, <2>1, <2>2, <2>3 DEF ReadRight, Told, Right, v
<1>14. ASSUME ~w.full, t \in Handlers PROVE RefreshRight(t)'
  <2> DEFINE a == args[t]
  <2>1. RefreshRight(t)
    BY <1>7, <1>14 DEF Working, w
  <2>2. /\ w.db = store.db /\ w.cached = store.cached /\ w.backed = store.cached
        /\ w.gone = a.deleted /\ w.todo \cup w.fresh \subseteq a.changed \ a.deleted
        /\ w.done = w.gone \cup w.fresh
        /\ \A q \in w.gone : w.files[q] = Absent
        /\ \A q \in Paths \ (a.changed \cup a.deleted) : w.files[q] = store.files[q]
        /\ \A q \in a.changed \ (a.deleted \cup w.fresh \cup w.todo) :
              disk[q] = Unreadable \/ Newer(t, q) \/ (Expected(q) = Absent /\ w.files[q] = Absent)
    BY <2>1 DEF RefreshRight, w
  <2>3. a.changed \subseteq Paths /\ a.deleted \subseteq Paths /\ args' = args
    BY <1>1, <1>3, <1>14 DEF TypeOK, Args
  <2> HIDE DEF a
  <2>4. v.gone = w.gone
    <3>1. p \in v.gone <=> p \in w.gone
      BY <1>2, <1>14
    <3>2. \A q \in Paths : q \in v.gone <=> q \in w.gone
      BY <1>2, <3>1
    <3> QED BY <1>10, <3>2
  <2>5. v.todo \cup v.fresh \subseteq a.changed \ a.deleted
    BY <1>2, <1>10, <2>2
  <2>6. v.done = v.gone \cup v.fresh
    BY <1>2, <1>9, <1>10, <1>14, <2>2
  <2>7. \A q \in v.gone : v.files[q] = Absent
    BY <1>2, <1>10, <2>2, <2>4
  <2>8. \A q \in Paths \ (a.changed \cup a.deleted) : v.files[q] = store.files[q]
    BY <1>2, <2>2
  <2>9. ASSUME NEW q \in a.changed \ (a.deleted \cup v.fresh \cup v.todo)
        PROVE  disk[q] = Unreadable \/ Newer(t, q) \/ (Expected(q) = Absent /\ v.files[q] = Absent)
    <3>1. CASE q # p
      BY <1>2, <2>2, <2>3, <2>9, <3>1
    <3>2. CASE q = p
      BY <1>2, <1>8, <1>14, <2>9, <3>2
    <3> QED BY <3>1, <3>2
  <2>10. \A q \in a.changed \ (a.deleted \cup v.fresh \cup v.todo) :
           disk'[q] = Unreadable \/ Newer(t, q)' \/ (Expected(q)' = Absent /\ v.files[q] = Absent)
    BY <1>3, <1>4, <1>6, <2>3, <2>9
  <2> QED BY <1>3, <1>9, <2>2, <2>3, <2>4, <2>5, <2>6, <2>7, <2>8, <2>10 DEF RefreshRight, v, a
<1>15. ASSUME ~w.full, t \in Jobs PROVE t = 1 /\ ReconcileRight(t)'
  <2>1. t = 1 /\ ReconcileRight(t)
    BY <1>7, <1>15 DEF Working, w
  <2>2. /\ w.db = store.db /\ w.gone \cap w.todo = {}
        /\ job_generation = 1 => \A q \in Paths \ (w.todo \cup w.fresh) :
              Told(t, q, IF q \in w.gone THEN Absent ELSE rows[w.db][q].src)
    BY <2>1 DEF ReconcileRight, w
  <2>3. v.gone \cap v.todo = {}
    BY <1>2, <1>10, <2>2
  <2>4. ASSUME job_generation = 1, NEW q \in Paths \ (v.todo \cup v.fresh)
        PROVE  Right(q, IF q \in v.gone THEN Absent ELSE rows[w.db][q].src) \/ Newer(t, q)
    <3>1. CASE q # p
      BY <1>2, <2>2, <2>4, <3>1 DEF Told
    <3>2. CASE q = p
      <4> DEFINE row == rows[w.db][p]
      <4>1. /\ IF Indexable(p, disk[p])
               THEN row.fingerprint = disk[p] /\ p \notin v.gone
               ELSE IF row.src # Absent /\ (disk[p] = Absent \/ p \in Excluded)
                    THEN p \in v.gone ELSE p \notin v.gone
        BY <1>2, <1>15, <2>2, <2>4, <3>2
      <4>2. CASE Indexable(p, disk[p])
        <5>1. Before /\ NextDb = w.db
          <6>1. \A s \in Tasks : ~Returned(s)
            BY <1>3 DEF Alone, Returned, HoldsGate
          <6> QED BY <1>7, <2>1, <2>2, <2>4, <6>1 DEF Before, NextDb
        <5>2. row.src = row.fingerprint \/ Stays(p)
          BY <1>1, <5>1 DEF CoverInv, RowsHonest, Honest
        <5>3. Stays(p) => Newer(t, p)
          BY <1>15 DEF Stays, Newer, Seen
        <5>4. row.src = row.fingerprint => Right(p, row.src)
          BY <1>8, <4>1, <4>2 DEF Right
        <5> QED BY <3>2, <4>1, <4>2, <5>2, <5>3, <5>4
      <4>3. CASE ~Indexable(p, disk[p])
        BY <1>8, <3>2, <4>1, <4>3 DEF Right
      <4> QED BY <4>2, <4>3
    <3> QED BY <3>1, <3>2
  <2>5. job_generation = 1 => \A q \in Paths \ (v.todo \cup v.fresh) :
          \/ disk'[q] = Unreadable
          \/ (IF q \in v.gone THEN Absent ELSE rows[w.db][q].src) = Expected(q)'
          \/ Newer(t, q)'
    BY <1>3, <1>4, <1>6, <2>4 DEF Right
  <2>6. v.db = store.db /\ w.db = v.db
    BY <1>9, <2>2
  <2> QED BY <1>3, <2>1, <2>3, <2>5, <2>6 DEF ReconcileRight, Told, Right, v
<1>16. Working(t)'
  <2>1. w.full => \/ pc'[t] \in {"rereading", "repersisting"} /\ w.db = "fallback"
                  \/ t \in Jobs \ {1}
    BY <1>3, <1>7 DEF Working, w
  <2>2. ~w.full => pc'[t] \in {"reading", "persisting"}
    BY <1>3, <1>7 DEF Working, w
  <2> QED BY <1>9, <1>13, <1>14, <1>15, <2>1, <2>2 DEF Working, v
<1>17. Installing(t)' /\ ~Returned(t) /\ ~Returned(t)'
  BY <1>3 DEF Installing, Returned
<1>18. \A q \in Paths : Seen(t, q)' <= pending_refresh'[q]
  BY <1>1, <1>3, <1>5, <1>7 DEF CoverInv, SeenMarks
<1>19. t = 1 /\ Before' => Before
  BY <1>3, <1>7 DEF Before
<1>20. AllCovered' /\ RowsHonest'
  BY <1>3, <1>7, <1>17, <1>19, HolderKeepsCover DEF HoldsGate
<1> QED BY <1>16, <1>17, <1>18, <1>20, CoverAlone

\* A task that leaves without a result was not needed: what its paths wait for is marked, and
\* where deletions are not, no task leaves so before the shutdown.
LEMMA LeavesCovers ==
  ASSUME CoverBase, IInv', Live', NEW t \in Tasks, Alone(t),
         WorkerFault(t) \/ DropResult(t) \/ RejectResult(t)
  PROVE  CoverInv'
<1> USE JobsAreNotHandlers
<1>1. IInv /\ TypeOK /\ CoverInv /\ NeverLost /\ Orderly /\ Live /\ Spawned
      /\ pc \in [Tasks -> JobStages \cup RefreshStages]
  BY DEF CoverBase, IInv, OrderInv, TypeOK
<1>2. /\ UNCHANGED <<rows, pending_refresh, store, synced, job_generation, shutting_down>>
      /\ pc'[t] \in {"failed", "lost", "finishing"} /\ pc[t] \in HoldsGate \cup {"lost"}
  <2>1. UNCHANGED <<job_generation, shutting_down>>
    BY DEF Alone
  <2>2. CASE WorkerFault(t)
    <3>1. /\ Goto(t, "failed") \/ Goto(t, "lost")
          /\ pc[t] \in WorkerStages /\ UNCHANGED <<rows, pending_refresh, store, synced>>
      BY <1>1, <2>2, FaultFields
    <3> QED BY <1>1, <2>1, <3>1 DEF Goto, HoldsGate
  <2>3. CASE DropResult(t) \/ RejectResult(t)
    <3>1. /\ Goto(t, "finishing") /\ pc[t] \in HoldsGate \cup {"lost"}
          /\ UNCHANGED <<rows, pending_refresh, store, synced>>
      BY <1>1, <2>3, DropFields DEF HoldsGate
    <3> QED BY <1>1, <2>1, <3>1 DEF Goto
  <2> QED BY <2>2, <2>3
<1>3. Working(t)' /\ Installing(t)'
  BY <1>2 DEF Working, Installing, Returned, WorkerStages
<1>4. CASE ~Returned(t)
  <2>1. Deletions /\ pc[t] \in HoldsGate \cup {"queued"} => pc'[t] \in HoldsGate \cup {"queued"}
    BY <1>1, <1>4, FaultFields, DropFields DEF Orderly, NeverLost, Returned
  <2>2. AllCovered' /\ RowsHonest'
    BY <1>2, <1>4, <2>1, HolderKeepsCover DEF Returned, HoldsGate, WorkerStages, Before
  <2> QED BY <1>2, <1>3, <2>2, CoverAlone DEF WorkerStages
<1>5. CASE Returned(t)
  <2>1. /\ \A s \in Tasks \ {t} : pc'[s] = pc[s] /\ pc[s] \notin HoldsGate
        /\ UNCHANGED <<disk, events, args>>
    BY DEF Alone
  <2>2. \/ pc[t] = "returned" /\ shutting_down
        \/ pc[t] = "installing" /\ t \in Jobs /\ t # job_generation
    BY <1>1, <1>5, FaultFields, DropFields DEF Returned, WorkerStages
  <2>3. \A p \in Paths : (Unhandled(p)' <=> Unhandled(p)) /\ Expected(p)' = Expected(p)
    BY <1>1, <1>2, AloneSees DEF HoldsGate, WorkerStages
  <2>4. ASSUME NEW p \in Paths, Covered(p) PROVE Covered(p)'
    <3>1. FileForPath(p)' = FileForPath(p)
      BY <1>2 DEF FileForPath
    <3>2. Deletions /\ Refreshing(p) => Refreshing(p)'
      <4>1. Deletions => t \notin Handlers
        BY <1>1, <2>2 DEF Live
      <4> QED BY <2>1, <4>1 DEF Refreshing
    <3> QED BY <1>2, <2>1, <2>3, <2>4, <3>1, <3>2 DEF Covered, Known, Right
  <2>5. AllCovered'
    BY <1>1, <1>2, <2>4 DEF CoverInv, AllCovered
  <2>6. ~Before'
    <3> SUFFICES ASSUME Before' PROVE FALSE
      OBVIOUS
    <3>1. t # 1
      BY <1>2 DEF Before, WorkerStages
    <3>2. pc[1] \notin WorkerStages /\ pc'[1] = pc[1]
      BY <2>1, <3>1, BoundsAssumption DEF HoldsGate, Tasks, Jobs
    <3>3. ~shutting_down
      BY <1>2, <3>2 DEF Before
    <3>4. t \in Jobs /\ job_generation = 1
      BY <1>2, <2>2, <3>3 DEF Before
    <3>5. ~(t > 1)
      BY <1>1, <1>5, <3>4 DEF Spawned, Returned
    <3> QED BY <3>1, <3>4, <3>5 DEF Jobs
  <2> QED BY <1>2, <1>3, <2>5, <2>6, CoverAlone DEF WorkerStages, RowsHonest
<1> QED BY <1>4, <1>5

LEMMA GoInstallCovers ==
  ASSUME CoverBase, IInv', NEW t \in Tasks, GoInstall(t), Alone(t)
  PROVE  CoverInv'
<1> USE JobsAreNotHandlers
<1>1. IInv /\ TypeOK /\ CoverInv /\ pc \in [Tasks -> JobStages \cup RefreshStages]
  BY DEF CoverBase, IInv, TypeOK
<1>2. /\ pc[t] = "returned" /\ pc'[t] = "installing"
      /\ UNCHANGED <<work, rows, pending_refresh, store, synced, gate, disk, events, args,
                     job_generation, shutting_down>>
      /\ \A s \in Tasks \ {t} : pc'[s] = pc[s]
  BY <1>1, GoInstallFields DEF Alone, Goto
<1>3. \A p \in Paths : (Unhandled(p)' <=> Unhandled(p)) /\ Expected(p)' = Expected(p)
  BY <1>1, <1>2, AloneSees
<1>4. \A s \in Tasks : Returned(s)' <=> Returned(s)
  BY <1>2 DEF Returned
<1>5. \A p \in Paths : \A c : Right(p, c)' <=> Right(p, c)
  BY <1>2, <1>3 DEF Right
<1>6. \A p \in Paths : Waiting(p)' <=> Waiting(p)
  BY <1>2 DEF Waiting
<1>7. \A p \in Paths : WillCover(work[t], p) => WillCover(work[t], p)'
  <2> SUFFICES ASSUME NEW p \in Paths, WillCover(work[t], p) PROVE WillCover(work[t], p)'
    OBVIOUS
  <2>1. Answer(work[t], p)' = Answer(work[t], p)
    BY <1>2 DEF Answer
  <2> QED BY <1>2, <1>3, <1>6, <2>1 DEF WillCover, Right
<1>8. Working(t)'
  BY <1>2 DEF Working, WorkerStages
<1>9. Installing(t)'
  <2>1. Installing(t) /\ Returned(t)
    BY <1>1, <1>2 DEF CoverInv, Returned
  <2> QED BY <1>2, <1>7, <2>1 DEF Installing, Seen
<1>10. \A p \in Paths : Seen(t, p)' <= pending_refresh'[p]
  BY <1>1, <1>2 DEF CoverInv, SeenMarks, Seen
<1>11. AllCovered'
  <2>1. ASSUME NEW p \in Paths, Covered(p) PROVE Covered(p)'
    <3>1. FileForPath(p)' = FileForPath(p)
      BY <1>2 DEF FileForPath
    <3>2. Refreshing(p) => Refreshing(p)'
      BY <1>2 DEF Refreshing, HoldsGate
    <3> QED BY <1>2, <1>3, <2>1, <3>1, <3>2 DEF Covered, Known, Right
  <2> QED BY <1>1, <1>2, <2>1 DEF CoverInv, AllCovered
<1>12. RowsHonest'
  <2>1. Before' => Before
    BY <1>2, BoundsAssumption DEF Before, WorkerStages, Tasks, Jobs
  <2>2. NextDb' = NextDb
    BY <1>2, <1>4 DEF NextDb
  <2>3. \A p \in Paths : Stays(p)' <=> Stays(p)
    BY <1>2, <1>3, <1>4 DEF Stays
  <2> QED BY <1>1, <1>2, <2>1, <2>2, <2>3 DEF CoverInv, RowsHonest, Honest
<1> QED BY <1>8, <1>9, <1>10, <1>11, <1>12, CoverAlone

\* The installed index answers what its task prepared, and keeps the marks it has not seen.
LEMMA InstallCovers ==
  ASSUME CoverBase, IInv', NEW t \in Tasks, Install(t), Alone(t)
  PROVE  CoverInv'
<1> USE JobsAreNotHandlers
<1> DEFINE w == work[t]
<1>1. IInv /\ TypeOK /\ CoverInv /\ pc \in [Tasks -> JobStages \cup RefreshStages]
  BY DEF CoverBase, IInv, TypeOK
<1>2. /\ pc[t] = "installing" /\ gate = t /\ gate' = NoTask /\ (t \in Jobs => job_generation = t)
      /\ pc'[t] = "finishing" /\ rows' = rows /\ work'[t] = NoWork
      /\ store' = [files |-> w.files, cached |-> w.cached, db |-> w.db]
      /\ pending_refresh' = FinalizePendingRefresh(w.completed)
      /\ synced' = IF t \in Jobs THEN t ELSE synced
      /\ UNCHANGED <<disk, events, args, job_generation, shutting_down>>
      /\ \A s \in Tasks \ {t} : pc'[s] = pc[s] /\ pc[s] \notin HoldsGate
  <2>1. /\ pc[t] = "installing" /\ gate = t /\ gate' = NoTask /\ (t \in Jobs => job_generation = t)
        /\ Goto(t, "finishing") /\ rows' = rows /\ work'[t] = NoWork
        /\ store' = [files |-> w.files, cached |-> w.cached, db |-> w.db]
        /\ pending_refresh' = FinalizePendingRefresh(w.completed)
        /\ synced' = IF t \in Jobs THEN t ELSE synced
    BY <1>1, InstallFields
  <2>2. pc'[t] = "finishing"
    BY <1>1, <2>1 DEF Goto
  <2> QED BY <2>1, <2>2 DEF Alone
<1>3. \A p \in Paths : (Unhandled(p)' <=> Unhandled(p)) /\ Expected(p)' = Expected(p)
  BY <1>1, <1>2, AloneSees
<1>4. store'.files = w.files /\ store'.cached = w.cached /\ store'.db = w.db
  BY <1>2
<1>5. \A p \in Paths : pending_refresh[p] > 0 /\ w.completed[p] # pending_refresh[p]
                         => pending_refresh'[p] = pending_refresh[p]
  BY <1>2 DEF FinalizePendingRefresh
<1>6. Working(t)' /\ Installing(t)'
  BY <1>2 DEF Working, Installing, Returned, WorkerStages
<1>7. AllCovered'
  <2>1. ASSUME NEW p \in Paths, WillCover(w, p) PROVE Covered(p)'
    <3>1. FileForPath(p)' = Answer(w, p)
      BY <1>2, <1>4 DEF FileForPath, Answer
    <3>2. Right(p, Answer(w, p)) => Right(p, FileForPath(p))'
      BY <1>2, <1>3, <3>1 DEF Right
    <3>3. Waiting(p) => Refreshing(p)'
      BY <1>2 DEF Waiting, Refreshing
    <3> QED BY <1>3, <1>5, <2>1, <3>1, <3>2, <3>3 DEF WillCover, Covered, Known
  <2>2. synced' # 0 => (t \in Handlers /\ synced # 0) \/ t = job_generation
    BY <1>2
  <2>3. Installing(t) /\ Returned(t)
    BY <1>1, <1>2 DEF CoverInv, Returned
  <2> QED BY <2>1, <2>2, <2>3 DEF AllCovered, Installing
<1>8. RowsHonest'
  <2> SUFFICES ASSUME Before', NEW p \in Paths PROVE Honest(p)'
    BY DEF RowsHonest
  <2>1. t \in Handlers
    BY <1>2 DEF Before, WorkerStages
  <2>2. Before
    BY <1>2, <2>1, BoundsAssumption DEF Before, Tasks, Jobs
  <2>3. NextDb' = NextDb
    BY <1>2, <1>4, TaskAssumption DEF NextDb, Returned, Tasks, Jobs
  <2>4. Stays(p) => Stays(p)'
    <3>1. \A s \in Tasks : ~Returned(s)'
      BY <1>2 DEF Returned, HoldsGate
    <3>2. Returned(t)
      BY <1>2 DEF Returned
    <3> QED BY <1>3, <1>5, <3>1, <3>2 DEF Stays
  <2>5. Honest(p)
    BY <1>1, <2>2 DEF CoverInv, RowsHonest
  <2> QED BY <1>2, <2>3, <2>4, <2>5 DEF Honest
<1> QED BY <1>2, <1>6, <1>7, <1>8, CoverAlone DEF WorkerStages

-----------------------------------------------------------------------------
(* The return of a worker.                                                 *)

\* The rows it leaves in its database, the marks it completed, and what its index answers.
RowLeft(w, persisted, p) ==
  IF persisted /\ p \in w.fresh THEN [src |-> w.files[p], fingerprint |-> disk[p]]
  ELSE IF persisted /\ p \in w.gone THEN NoRow ELSE rows[w.db][p]

Leaves(t, persisted) == LET w == work[t] IN
  /\ work'[t] = Result(t, w, persisted, rows'[w.db])
  /\ \A p \in Paths : rows'[w.db][p] = RowLeft(w, persisted, p)
  /\ \A d \in Dbs \ {w.db} : rows'[d] = rows[d]
  /\ persisted => CanPersist(w)
  /\ ~persisted => w.full /\ (t \in Jobs \ {1} \/ w.db = "fallback")

LEMMA ReturnLeaves ==
  ASSUME CoverBase, NEW t \in Tasks, PersistPaths(t) \/ GiveUpPersisting(t)
  PROVE  \E persisted \in BOOLEAN : Leaves(t, persisted)
<1> DEFINE w == work[t]
<1>1. IInv /\ ClearInv /\ Whole /\ Working(t)
  BY DEF CoverBase, CoverInv
<1>2. PICK persisted \in BOOLEAN :
        /\ work'[t] = Result(t, w, persisted, rows'[w.db])
        /\ IF persisted
           THEN /\ CanPersist(w)
                /\ \A p \in Paths :
                     rows'[w.db][p] =
                       IF p \in w.fresh THEN [src |-> w.files[p], fingerprint |-> disk[p]]
                       ELSE IF p \in w.gone THEN NoRow ELSE rows[w.db][p]
           ELSE rows' = rows /\ GiveUpPersisting(t)
  BY <1>1, ReturnFields
<1>3. \A d \in Dbs \ {w.db} : rows'[d] = rows[d]
  BY <1>1, ReturnFields
<1>4. ASSUME ~persisted PROVE w.full /\ (t \in Jobs \ {1} \/ w.db = "fallback")
  <2>1. pc[t] = "repersisting"
    BY <1>1, <1>2, <1>4 DEF GiveUpPersisting, PersistFails, Whole
  <2> QED BY <1>1, <2>1 DEF Working, WorkerStages
<1> HIDE DEF w
<1>5. \A p \in Paths : rows'[w.db][p] = RowLeft(w, persisted, p)
  BY <1>2 DEF RowLeft
<1> QED BY <1>2, <1>3, <1>4, <1>5 DEF Leaves, w

LEMMA ReturnResult ==
  ASSUME CoverBase, IInv', NEW t \in Tasks, pc[t] \in WorkerStages, NEW persisted \in BOOLEAN,
         Leaves(t, persisted)
  PROVE  LET w == work[t]
             v == work'[t]
         IN  /\ v.db = w.db /\ v.snapshot = w.snapshot
             /\ \A p \in Paths : v.completed[p] = IF t \in Handlers /\ persisted /\ p \in w.done
                                                  THEN w.snapshot[p] ELSE 0
             /\ t \in Handlers =>
                  /\ v.files = w.files
                  /\ v.cached = IF w.backed /\ persisted THEN Cached(rows'[w.db]) ELSE w.cached
             /\ t = 1 => /\ v.files = IF w.full THEN w.files ELSE NoFiles
                         /\ v.cached = Cached(rows'[w.db])
             /\ t \in Jobs \ {1} => v.files = w.files /\ v.cached = w.cached
<1> USE JobsAreNotHandlers
<1> DEFINE w == work[t]
           v == work'[t]
           table == rows'[w.db]
<1>1. w \in Work /\ ~w.damaged /\ w.completed = NoMarks
  BY DEF CoverBase, IInv, TypeOK, ClearInv, Clear, Ready
<1>2. v = Result(t, w, persisted, table)
  BY DEF Leaves
<1> HIDE DEF w, v, table
<1>3. /\ v.db = w.db /\ v.snapshot = w.snapshot
      /\ t \in Handlers =>
           /\ v.files = w.files
           /\ v.completed = IF persisted THEN Completed(w) ELSE NoMarks
           /\ v.cached = IF w.backed /\ persisted THEN Cached(table) ELSE w.cached
      /\ t = 1 =>
           /\ v.files = IF w.full THEN w.files ELSE NoFiles
           /\ v.completed = NoMarks /\ v.cached = Cached(table)
      /\ t \in Jobs \ {1} =>
           v.files = w.files /\ v.completed = NoMarks /\ v.cached = w.cached
  BY <1>1, <1>2, ResultFields
<1>4. \A p \in Paths : v.completed[p] = IF t \in Handlers /\ persisted /\ p \in w.done
                                        THEN w.snapshot[p] ELSE 0
  BY <1>1, <1>3 DEF Completed, NoMarks
<1> QED BY <1>3, <1>4 DEF w, v, table

\* What the returned index answers for a path.
LEMMA ReturnAnswers ==
  ASSUME CoverBase, IInv', NEW t \in Tasks, pc[t] \in {"persisting", "repersisting"},
         NEW persisted \in BOOLEAN, Leaves(t, persisted), NEW p \in Paths
  PROVE  LET w == work[t]
             answer == Answer(work[t], p)'
         IN  /\ w.full /\ p \in w.fresh => answer = w.files[p]
             /\ w.full /\ p \notin w.fresh =>
                  \/ answer = Absent
                  \/ t = 1 /\ ~persisted /\ answer = rows["fallback"][p].src
             /\ ~w.full /\ t \in Handlers =>
                  answer = IF w.files[p] # Absent THEN w.files[p]
                           ELSE IF store.cached THEN RowLeft(w, TRUE, p).src ELSE Absent
             /\ ~w.full /\ t = 1 => answer = RowLeft(w, TRUE, p).src
<1> USE JobsAreNotHandlers
<1> DEFINE w == work[t]
           v == work'[t]
           table == rows'[w.db]
           answer == IF v.files[p] # Absent THEN v.files[p]
                     ELSE IF v.cached THEN table[p].src ELSE Absent
<1>1. w \in Work /\ Ready(w) /\ w.todo = {} /\ Working(t) /\ pc[t] \in WorkerStages
  BY DEF CoverBase, CoverInv, IInv, TypeOK, ClearInv, Clear, WorkerStages
<1>2. /\ v.db = w.db /\ v.snapshot = w.snapshot
      /\ t \in Handlers =>
           /\ v.files = w.files
           /\ v.cached = IF w.backed /\ persisted THEN Cached(table) ELSE w.cached
      /\ t = 1 => /\ v.files = IF w.full THEN w.files ELSE NoFiles
                  /\ v.cached = Cached(table)
      /\ t \in Jobs \ {1} => v.files = w.files /\ v.cached = w.cached
  BY <1>1, ReturnResult
<1>3. /\ table[p] = RowLeft(w, persisted, p)
      /\ ~persisted => w.full /\ (t \in Jobs \ {1} \/ w.db = "fallback")
  BY DEF Leaves
<1>4. Answer(work[t], p)' = answer
  BY <1>2 DEF Answer
<1>5. table[p].src # Absent => Cached(table)
  BY DEF Cached
<1>6. /\ w.full => ~w.cached
      /\ \A q \in w.fresh : w.files[q] \in Sources
      /\ ~w.full /\ t \in Handlers => w.cached = store.cached /\ w.backed = store.cached
      /\ w.full /\ p \notin w.fresh => p \in w.gone /\ w.files[p] = Absent
  BY <1>1 DEF Working, ReadRight, RefreshRight, Ready, InRows
<1>7. Absent \notin Sources /\ NoRow.src = Absent
  BY DataAssumption DEF NoRow
<1> HIDE DEF w, v, table
<1>8. CASE w.full /\ p \in w.fresh
  BY <1>2, <1>4, <1>6, <1>7, <1>8 DEF w
<1>9. CASE w.full /\ p \notin w.fresh
  <2>1. persisted => table[p].src = Absent
    BY <1>3, <1>6, <1>7, <1>9 DEF RowLeft
  <2>2. ~persisted => table[p].src = rows[w.db][p].src
    BY <1>3 DEF RowLeft
  <2>3. v.files[p] = Absent
    BY <1>2, <1>6, <1>9
  <2>4. ~persisted /\ t \notin Jobs \ {1} => w.db = "fallback"
    BY <1>3
  <2>5. t # 1 /\ ~persisted => ~v.cached
    BY <1>2, <1>6, <1>9
  <2> QED BY <1>4, <1>9, <2>1, <2>2, <2>3, <2>4, <2>5 DEF w
<1>10. CASE ~w.full /\ t \in Handlers
  <2>1. persisted /\ table[p] = RowLeft(w, TRUE, p)
    BY <1>3, <1>10
  <2> QED BY <1>2, <1>4, <1>5, <1>6, <1>10, <2>1 DEF w
<1>11. CASE ~w.full /\ t = 1
  <2>1. persisted /\ table[p] = RowLeft(w, TRUE, p)
    BY <1>3, <1>11
  <2> QED BY <1>2, <1>4, <1>5, <1>11, <2>1 DEF w, NoFiles
<1> QED BY <1>8, <1>9, <1>10, <1>11 DEF w

\* The surroundings of a return: nothing but the task's work and its rows changes.
Around(t) ==
  /\ UNCHANGED <<disk, events, args, job_generation, shutting_down, pending_refresh, store, synced>>
  /\ pc[t] \in {"persisting", "repersisting"} /\ pc'[t] = "returned" /\ gate = t /\ gate' = t
  /\ \A s \in Tasks \ {t} : pc'[s] = pc[s] /\ pc[s] \notin HoldsGate /\ work'[s] = work[s]
  /\ \A p \in Paths : (Unhandled(p)' <=> Unhandled(p)) /\ Expected(p)' = Expected(p)
  /\ pending_refresh \in [Paths -> Nat]

LEMMA ReturnAround ==
  ASSUME CoverBase, IInv', NEW t \in Tasks, PersistPaths(t) \/ GiveUpPersisting(t), Alone(t)
  PROVE  Around(t)
<1>1. IInv /\ ClearInv /\ TypeOK /\ pc \in [Tasks -> JobStages \cup RefreshStages]
  BY DEF CoverBase, IInv, TypeOK
<1>2. /\ pc[t] \in {"persisting", "repersisting"} /\ Goto(t, "returned")
      /\ UNCHANGED <<pending_refresh, store, synced>>
  BY <1>1, ReturnFields
<1>3. pc'[t] = "returned"
  BY <1>1, <1>2 DEF Goto
<1>4. gate = t /\ gate' = t
  BY <1>2, <1>3 DEF CoverBase, IInv, GateInv, Exclusive, HoldsGate, WorkerStages
<1>5. \A p \in Paths : (Unhandled(p)' <=> Unhandled(p)) /\ Expected(p)' = Expected(p)
  BY <1>1, <1>2, <1>3, AloneSees
<1> QED BY <1>1, <1>2, <1>3, <1>4, <1>5 DEF Around, Alone, TypeOK

\* A deletion a refresh brings with it is right, or somebody will say otherwise.
LEMMA DeletedIsRight ==
  ASSUME CoverBase, NEW h \in Handlers, pc[h] \in WorkerStages, NEW p \in args[h].deleted
  PROVE  Deletions /\ (Right(p, Absent) \/ Unhandled(p) \/ Waiting(p))
<1>1. p \in Paths /\ DeletesOrdered
  BY DEF CoverBase, IInv, TypeOK, Args
<1>2. Deletions /\ (disk[p] = Absent \/ Reported(p) \/ Behind(h, p))
  BY <1>1 DEF DeletesOrdered, Active, HoldsGate
<1>3. disk[p] = Absent => Right(p, Absent)
  BY <1>1, ExpectedOf DEF Right
<1>4. Reported(p) => Unhandled(p)
  BY DEF Reported, Unhandled
<1>5. Behind(h, p) => Unhandled(p) \/ Waiting(p)
  BY DEF Behind, Unhandled, Waiting, WorkerStages
<1> QED BY <1>2, <1>3, <1>4, <1>5

LEMMA ReturnWillCover ==
  ASSUME CoverBase, IInv', NEW t \in Tasks, Around(t), NEW persisted \in BOOLEAN,
         Leaves(t, persisted)
  PROVE  Installing(t)'
<1> USE JobsAreNotHandlers
<1> DEFINE w == work[t]
           v == work'[t]
<1>1. IInv /\ TypeOK /\ CoverInv /\ Ready(w) /\ w.todo = {} /\ w \in Work /\ NoExcluded
  BY DEF CoverBase, IInv, TypeOK, ClearInv, Clear, WorkerStages, Around, OrderInv
<1>2. pc[t] \in WorkerStages /\ pc[t] \in {"persisting", "repersisting"} /\ pc[t] \in HoldsGate
  BY DEF Around, WorkerStages, HoldsGate
<1>3. Working(t) /\ ReadRight(t)
  BY <1>1, <1>2 DEF CoverInv, Working
<1>4. /\ v.db = w.db /\ v.snapshot = w.snapshot
      /\ \A p \in Paths : v.completed[p] = IF t \in Handlers /\ persisted /\ p \in w.done
                                           THEN w.snapshot[p] ELSE 0
  BY <1>2, ReturnResult
<1>5. \A p \in Paths : Seen(t, p)' = Seen(t, p) /\ Seen(t, p) \in Nat /\ v.completed[p] \in {0, Seen(t, p)}
                       /\ pending_refresh[p] \in Nat
  BY <1>1, <1>4 DEF Seen, Work, TypeOK
<1>6. UNCHANGED <<disk, args, job_generation, pending_refresh, store, synced>>
      /\ \A p \in Paths : (Unhandled(p)' <=> Unhandled(p)) /\ Expected(p)' = Expected(p)
  BY DEF Around
<1>7. \A p \in Paths : Waiting(p)' <=> Waiting(p)
  <2>1. \A h \in Handlers : pc'[h] = "queued" <=> pc[h] = "queued"
    BY DEF Around
  <2> QED BY <1>6, <2>1 DEF Waiting
<1>8. \A p \in Paths : LET answer == Answer(work[t], p)'
      IN  /\ w.full /\ p \in w.fresh => answer = w.files[p]
          /\ w.full /\ p \notin w.fresh =>
               \/ answer = Absent
               \/ t = 1 /\ ~persisted /\ answer = rows["fallback"][p].src
          /\ ~w.full /\ t \in Handlers =>
               answer = IF w.files[p] # Absent THEN w.files[p]
                        ELSE IF store.cached THEN RowLeft(w, TRUE, p).src ELSE Absent
          /\ ~w.full /\ t = 1 => answer = RowLeft(w, TRUE, p).src
  BY <1>2, ReturnAnswers
<1> HIDE DEF w, v
\* An answer that is told, or left as it was, is covered.
<1>9. ASSUME NEW p \in Paths,
             \/ Answer(work[t], p)' = Expected(p) \/ disk[p] = Unreadable
             \/ Newer(t, p) \/ Unhandled(p)
             \/ pending_refresh[p] > 0 /\ v.completed[p] = 0
             \/ Deletions /\ Waiting(p) /\ Answer(work[t], p)' = Absent
      PROVE  WillCover(work[t], p)'
  <2>1. Newer(t, p) => Unhandled(p) \/ (pending_refresh[p] > 0 /\ v.completed[p] # pending_refresh[p])
    BY <1>5 DEF Newer
  <2> QED BY <1>5, <1>6, <1>7, <1>9, <2>1 DEF WillCover, Right, v
<1>10. ASSUME NEW p \in Paths, w.full, t \in Handlers \/ t = job_generation
       PROVE  WillCover(work[t], p)'
  <2>1. CASE p \in w.fresh
    <3>1. Told(t, p, w.files[p]) /\ Answer(work[t], p)' = w.files[p]
      BY <1>3, <1>8, <1>10, <2>1 DEF ReadRight, w
    <3> QED BY <1>9, <3>1 DEF Told, Right
  <2>2. CASE p \notin w.fresh /\ Answer(work[t], p)' = Absent
    <3>1. Told(t, p, Absent)
      BY <1>1, <1>3, <1>10, <2>2 DEF ReadRight, w
    <3> QED BY <1>9, <2>2, <3>1 DEF Told, Right
  <2>3. CASE p \notin w.fresh /\ t = 1 /\ Answer(work[t], p)' = rows["fallback"][p].src
             /\ rows["fallback"][p].src # Absent
    <3>1. Before
      BY <1>2, <1>10, <2>3 DEF Before
    <3>2. rows["fallback"][p].src \in {Absent, disk[p]} \/ disk[p] = Unreadable \/ Stays(p)
      BY <1>1, <3>1 DEF CoverInv, RowsHonest, Honest
    <3>3. Stays(p) => Newer(t, p)
      BY <2>3 DEF Stays, Newer, Seen
    <3>4. rows["fallback"][p].src = disk[p] => Expected(p) = disk[p] \/ disk[p] = Unreadable
      <4>1. p \notin Excluded
        BY <1>1, <2>3 DEF NoExcluded, NoRow, Dbs
      <4>2. disk[p] \in Contents
        BY <1>1 DEF TypeOK
      <4> QED BY <2>3, <4>1, <4>2, ExpectedOf
    <3> QED BY <1>9, <2>3, <3>2, <3>3, <3>4
  <2> QED BY <1>8, <1>10, <2>1, <2>2, <2>3
<1>11. ASSUME NEW p \in Paths, ~w.full, t \in Handlers, synced # 0
       PROVE  WillCover(work[t], p)'
  <2> DEFINE a == args[t]
  <2>1. RefreshRight(t)
    BY <1>3, <1>2, <1>11 DEF Working, w
  <2>2. /\ w.gone = a.deleted /\ w.fresh \subseteq a.changed \ a.deleted
        /\ w.done = w.gone \cup w.fresh
        /\ \A q \in w.gone : w.files[q] = Absent
        /\ \A q \in Paths \ (a.changed \cup a.deleted) : w.files[q] = store.files[q]
        /\ \A q \in a.changed \ (a.deleted \cup w.fresh \cup w.todo) :
              disk[q] = Unreadable \/ Newer(t, q) \/ (Expected(q) = Absent /\ w.files[q] = Absent)
        /\ w.db = store.db
    BY <2>1 DEF RefreshRight, w
  <2>3. Covered(p)
    BY <1>1, <1>11 DEF CoverInv, AllCovered
  <2>4. Answer(work[t], p)' = IF w.files[p] # Absent THEN w.files[p]
                              ELSE IF store.cached THEN RowLeft(w, TRUE, p).src ELSE Absent
    BY <1>8, <1>11
  <2>5. NoRow.src = Absent /\ Absent \notin Sources
    BY DataAssumption DEF NoRow
  <2>6. p \notin w.done => v.completed[p] = 0
    BY <1>4 DEF v, w
  <2> HIDE DEF a
  <2>7. CASE p \in w.fresh
    <3>1. Told(t, p, w.files[p]) /\ w.files[p] \in Sources
      BY <1>3, <2>7 DEF ReadRight, w
    <3> QED BY <1>9, <2>4, <2>5, <3>1 DEF Told, Right
  <2>8. CASE p \in a.deleted
    <3>1. Deletions /\ (Right(p, Absent) \/ Unhandled(p) \/ Waiting(p))
      BY <1>2, <1>11, <2>8, DeletedIsRight DEF a
    <3>2. Answer(work[t], p)' = Absent
      BY <2>2, <2>4, <2>5, <2>8 DEF RowLeft
    <3> QED BY <1>9, <3>1, <3>2 DEF Right
  <2>9. CASE p \in a.changed \ (a.deleted \cup w.fresh)
    <3>1. disk[p] = Unreadable \/ Newer(t, p) \/ (Expected(p) = Absent /\ w.files[p] = Absent)
      BY <1>1, <2>2, <2>9 DEF w
    <3>2. p \notin w.done /\ p \notin w.gone
      BY <2>2, <2>9
    <3>3. CASE pending_refresh[p] > 0 \/ Unhandled(p)
      BY <1>9, <2>6, <3>2, <3>3
    <3>4. CASE ~Known(p) /\ Expected(p) = Absent /\ w.files[p] = Absent /\ disk[p] # Unreadable
      <4>1. FileForPath(p) = Absent
        BY <2>3, <3>4 DEF Covered, Right
      <4>2. store.cached => rows[store.db][p].src = Absent
        BY <4>1 DEF FileForPath
      <4>3. Answer(work[t], p)' = Absent
        BY <2>2, <2>4, <2>9, <3>2, <3>4, <4>2 DEF RowLeft
      <4> QED BY <1>9, <3>4, <4>3
    <3> QED BY <1>9, <3>1, <3>3, <3>4 DEF Known
  <2>10. CASE p \notin a.changed \cup a.deleted
    <3>1. p \notin w.done /\ p \notin w.gone /\ p \notin w.fresh /\ w.files[p] = store.files[p]
      BY <2>2, <2>10
    <3>2. Answer(work[t], p)' = FileForPath(p)
      BY <2>2, <2>4, <3>1 DEF FileForPath, RowLeft
    <3>3. Refreshing(p) => Waiting(p)
      BY <2>10 DEF Refreshing, Waiting, Around, a
    <3> QED BY <1>9, <2>3, <2>6, <3>1, <3>2, <3>3 DEF Covered, Known, Right
  <2> QED BY <2>7, <2>8, <2>9, <2>10
<1>12. ASSUME NEW p \in Paths, ~w.full, t = 1, job_generation = 1
       PROVE  WillCover(work[t], p)'
  <2>1. ReconcileRight(t)
    BY <1>2, <1>3, <1>12, BoundsAssumption DEF Working, w, Jobs
  <2>2. Answer(work[t], p)' = RowLeft(w, TRUE, p).src
    BY <1>8, <1>12
  <2>3. CASE p \in w.fresh
    <3>1. Told(t, p, w.files[p])
      BY <1>3, <2>3 DEF ReadRight, w
    <3> QED BY <1>9, <2>2, <2>3, <3>1 DEF Told, Right, RowLeft
  <2>4. CASE p \notin w.fresh
    <3>1. Told(t, p, IF p \in w.gone THEN Absent ELSE rows[w.db][p].src)
      BY <1>1, <1>12, <2>1, <2>4 DEF ReconcileRight, w
    <3> QED BY <1>9, <2>2, <2>4, <3>1 DEF Told, Right, RowLeft, NoRow
  <2> QED BY <2>3, <2>4
<1>13. ASSUME NEW p \in Paths, (t \in Handlers /\ synced # 0) \/ t = job_generation
       PROVE  WillCover(work[t], p)'
  <2>1. CASE w.full
    BY <1>10, <1>13, <2>1
  <2>2. CASE ~w.full /\ t \in Handlers
    <3>1. synced # 0
      BY <1>1, <1>13, <2>2 DEF TypeOK
    <3> QED BY <1>11, <2>2, <3>1
  <2>3. CASE ~w.full /\ t \in Jobs
    <3>1. t = 1
      BY <1>2, <1>3, <2>3 DEF Working, w
    <3> QED BY <1>12, <1>13, <2>3, <3>1
  <2> QED BY <2>1, <2>2, <2>3
<1> QED BY <1>5, <1>6, <1>13 DEF Installing, v

LEMMA ReturnAllCovered ==
  ASSUME CoverBase, IInv', NEW t \in Tasks, Around(t), NEW persisted \in BOOLEAN,
         Leaves(t, persisted)
  PROVE  AllCovered'
<1> USE JobsAreNotHandlers
<1> DEFINE w == work[t]
<1>1. TypeOK /\ CoverInv /\ Ready(w) /\ w.todo = {} /\ w \in Work /\ FirstJob
      /\ pc[t] \in WorkerStages /\ pc[t] \in HoldsGate /\ Working(t) /\ ReadRight(t)
  BY DEF CoverBase, CoverInv, IInv, TypeOK, ClearInv, Clear, WorkerStages, HoldsGate, Around,
         OrderInv, Working
<1>2. UNCHANGED <<disk, args, pending_refresh, store, synced>> /\ pending_refresh \in [Paths -> Nat]
      /\ \A p \in Paths : (Unhandled(p)' <=> Unhandled(p)) /\ Expected(p)' = Expected(p)
  BY DEF Around
<1>3. /\ \A p \in Paths : rows'[w.db][p] = RowLeft(w, persisted, p)
      /\ \A d \in Dbs \ {w.db} : rows'[d] = rows[d]
      /\ store.db \in Dbs
  BY <1>1 DEF Leaves, TypeOK, Store
<1>4. \A p \in Paths : Refreshing(p) => Refreshing(p)'
  BY <1>2 DEF Refreshing, Around, HoldsGate
<1>5. \A p \in Paths : Waiting(p) => Refreshing(p)'
  BY <1>2 DEF Waiting, Refreshing, Around
<1>6. \A p \in Paths : Newer(t, p) => Known(p)
  <2>1. \A p \in Paths : Seen(t, p) \in Nat
    BY <1>1 DEF Seen, Work
  <2> QED BY <1>2, <2>1 DEF Newer, Known
<1> HIDE DEF w
<1>7. ASSUME NEW p \in Paths,
             \/ FileForPath(p)' = Expected(p) \/ disk[p] = Unreadable \/ Known(p)
             \/ Deletions /\ (Refreshing(p) \/ Waiting(p)) /\ FileForPath(p)' = Absent
      PROVE  Covered(p)'
  BY <1>2, <1>4, <1>5, <1>7 DEF Covered, Known, Right
<1>8. ASSUME synced # 0, NEW p \in Paths PROVE Covered(p)'
  <2>1. t # 1 /\ Covered(p)
    BY <1>1, <1>8 DEF FirstJob, CoverInv, AllCovered
  <2>2. CASE FileForPath(p)' = FileForPath(p)
    BY <1>7, <2>1, <2>2 DEF Covered, Right
  <2>3. CASE FileForPath(p)' # FileForPath(p)
    <3>1. store.files[p] = Absent /\ store.cached /\ rows'[store.db][p].src # rows[store.db][p].src
      BY <1>2, <2>3 DEF FileForPath
    <3>2. w.db = store.db /\ FileForPath(p)' = RowLeft(w, persisted, p).src
      BY <1>2, <1>3, <3>1 DEF FileForPath
    <3>3. p \in w.fresh \/ (p \notin w.fresh /\ p \in w.gone /\ FileForPath(p)' = Absent)
      BY <1>3, <3>1, <3>2 DEF RowLeft, NoRow
    <3>4. CASE p \in w.fresh
      <4>1. Told(t, p, w.files[p]) /\ FileForPath(p)' = w.files[p]
        BY <1>1, <1>3, <3>1, <3>2, <3>4 DEF RowLeft, ReadRight, w
      <4> QED BY <1>6, <1>7, <4>1 DEF Told, Right
    <3>5. CASE p \notin w.fresh /\ p \in w.gone /\ FileForPath(p)' = Absent
      <4>1. CASE w.full
        <5>1. Told(t, p, Absent)
          BY <1>1, <3>5, <4>1 DEF ReadRight, w
        <5> QED BY <1>6, <1>7, <3>5, <5>1 DEF Told, Right
      <4>2. CASE ~w.full
        <5>1. t \in Handlers /\ RefreshRight(t)
          BY <1>1, <2>1, <4>2 DEF Working, w
        <5>2. p \in args[t].deleted
          BY <3>5, <5>1 DEF RefreshRight, w
        <5>3. Deletions /\ (Right(p, Absent) \/ Unhandled(p) \/ Waiting(p))
          BY <1>1, <5>1, <5>2, DeletedIsRight
        <5> QED BY <1>7, <3>5, <5>3 DEF Right, Known
      <4> QED BY <4>1, <4>2
    <3> QED BY <3>3, <3>4, <3>5
  <2> QED BY <2>2, <2>3
<1> QED BY <1>2, <1>8 DEF AllCovered

LEMMA ReturnRowsHonest ==
  ASSUME CoverBase, IInv', NEW t \in Tasks, Around(t), NEW persisted \in BOOLEAN,
         Leaves(t, persisted)
  PROVE  RowsHonest'
<1> USE JobsAreNotHandlers
<1> SUFFICES ASSUME Before', NEW p \in Paths PROVE Honest(p)'
  BY DEF RowsHonest
<1> DEFINE w == work[t]
           v == work'[t]
<1>1. TypeOK /\ CoverInv /\ Ready(w) /\ w.todo = {} /\ w \in Work /\ NoExcluded /\ Spawned
      /\ pc[t] \in WorkerStages /\ pc[t] \in HoldsGate /\ Working(t) /\ ReadRight(t)
      /\ rows \in [Dbs -> [Paths -> Row]] /\ w.db \in Dbs
  BY DEF CoverBase, CoverInv, IInv, TypeOK, ClearInv, Clear, WorkerStages, HoldsGate, Around,
         OrderInv, Working, Work
<1>2. UNCHANGED <<disk, args, job_generation, shutting_down, pending_refresh, store, synced>>
      /\ pending_refresh \in [Paths -> Nat] /\ gate = t /\ gate' = t /\ pc'[t] = "returned"
      /\ \A q \in Paths : (Unhandled(q)' <=> Unhandled(q)) /\ Expected(q)' = Expected(q)
      /\ \A s \in Tasks \ {t} : pc'[s] = pc[s] /\ pc[s] \notin HoldsGate
  BY DEF Around
<1>3. t \in Handlers
  <2>1. t # 1 /\ job_generation = 1
    BY <1>2 DEF Before, WorkerStages
  <2>2. t \in Jobs => ~(t > 1)
    BY <1>1, <2>1 DEF Spawned, WorkerStages
  <2> QED BY <2>1, <2>2 DEF Jobs
<1>4. Before
  BY <1>2, <1>3, BoundsAssumption DEF Before, Tasks, Jobs
<1>5. Honest(p)
  BY <1>1, <1>4 DEF CoverInv, RowsHonest
<1>6. /\ v.db = w.db /\ v.snapshot = w.snapshot
      /\ v.completed[p] = IF persisted /\ p \in w.done THEN w.snapshot[p] ELSE 0
  BY <1>1, <1>3, ReturnResult
<1>7. NextDb = store.db /\ NextDb' = w.db
  BY <1>1, <1>2, <1>6 DEF NextDb, Returned, WorkerStages
<1>8. /\ rows'[w.db][p] = RowLeft(w, persisted, p)
      /\ \A d \in Dbs \ {w.db} : rows'[d] = rows[d]
      /\ persisted => CanPersist(w)
      /\ ~persisted => w.full
  BY DEF Leaves
<1>9. Stays(p)' <=> \/ Unhandled(p)
                    \/ pending_refresh[p] > 0 /\ v.completed[p] # pending_refresh[p]
  <2>1. \A s \in Tasks : Returned(s)' <=> s = t
    BY <1>2 DEF Returned, HoldsGate
  <2> QED BY <1>2, <2>1 DEF Stays
<1>10. w.snapshot[p] \in Nat /\ Seen(t, p) = w.snapshot[p]
  BY <1>1, <1>3 DEF Seen, Work
<1>11. Newer(t, p) => Stays(p)'
  BY <1>2, <1>6, <1>9, <1>10 DEF Newer
<1>12. Stays(p) => Stays(p)' \/ (persisted /\ p \in w.done)
  BY <1>6, <1>9 DEF Stays
<1> HIDE DEF w, v
<1>13. Honest(p)' <=>
         /\ rows'[w.db][p].src = rows'[w.db][p].fingerprint \/ Stays(p)'
         /\ rows'["fallback"][p].src \in {Absent, disk[p]} \/ disk[p] = Unreadable \/ Stays(p)'
         /\ w.db = "configured" => rows'["fallback"][p] = NoRow
  BY <1>2, <1>7 DEF Honest
<1>14. /\ rows[store.db][p].src = rows[store.db][p].fingerprint \/ Stays(p)
       /\ rows["fallback"][p].src \in {Absent, disk[p]} \/ disk[p] = Unreadable \/ Stays(p)
       /\ store.db = "configured" => rows["fallback"][p] = NoRow
  BY <1>5, <1>7 DEF Honest
<1>15. NoRow.src = Absent /\ NoRow.fingerprint = Absent /\ store.db \in Dbs
  BY <1>1 DEF NoRow, TypeOK, Store
\* A row that is written is right, or its path will still be marked.
<1>16. ASSUME persisted, p \in w.fresh
       PROVE  /\ rows'[w.db][p].src = w.files[p] /\ rows'[w.db][p].fingerprint = disk[p]
              /\ w.files[p] = disk[p] \/ Stays(p)'
  <2>1. rows'[w.db][p] = [src |-> w.files[p], fingerprint |-> disk[p]]
    BY <1>8, <1>16 DEF RowLeft
  <2>2. disk[p] \in Sources /\ p \notin Excluded
    BY <1>1, <1>8, <1>16 DEF CanPersist, NoExcluded, w
  <2>3. disk[p] # Unreadable /\ Expected(p) = disk[p]
    BY <2>2, ExpectedOf DEF Indexable
  <2>4. Told(t, p, w.files[p])
    BY <1>1, <1>16 DEF ReadRight, w
  <2> QED BY <1>11, <2>1, <2>3, <2>4 DEF Told, Right
<1>17. ASSUME persisted, p \notin w.fresh, p \in w.gone PROVE rows'[w.db][p] = NoRow
  BY <1>8, <1>17 DEF RowLeft
<1>18. CASE ~w.full
  <2>1. persisted /\ w.db = store.db /\ w.done = w.gone \cup w.fresh
    BY <1>1, <1>3, <1>8, <1>18 DEF Working, RefreshRight, w
  <2>2. CASE w.db = "fallback"
    <3>1. CASE p \in w.fresh
      BY <1>13, <1>16, <2>1, <2>2, <3>1
    <3>2. CASE p \notin w.fresh /\ p \in w.gone
      BY <1>13, <1>15, <1>17, <2>1, <2>2, <3>2
    <3>3. CASE p \notin w.fresh /\ p \notin w.gone
      <4>1. rows'[w.db][p] = rows[w.db][p] /\ p \notin w.done
        BY <1>8, <2>1, <3>3 DEF RowLeft
      <4> QED BY <1>12, <1>13, <1>14, <2>1, <2>2, <4>1
    <3> QED BY <3>1, <3>2, <3>3
  <2>3. CASE w.db = "configured"
    <3>1. rows'["fallback"][p] = NoRow
      BY <1>8, <1>14, <2>1, <2>3 DEF Dbs
    <3>2. rows'[w.db][p].src = rows'[w.db][p].fingerprint \/ Stays(p)'
      <4>1. CASE p \in w.fresh
        BY <1>16, <2>1, <4>1
      <4>2. CASE p \notin w.fresh /\ p \in w.gone
        BY <1>15, <1>17, <2>1, <4>2
      <4>3. CASE p \notin w.fresh /\ p \notin w.gone
        <5>1. rows'[w.db][p] = rows[w.db][p] /\ p \notin w.done
          BY <1>8, <2>1, <4>3 DEF RowLeft
        <5> QED BY <1>12, <1>14, <2>1, <5>1
      <4> QED BY <4>1, <4>2, <4>3
    <3> QED BY <1>13, <1>15, <3>1, <3>2
  <2> QED BY <1>1, <2>2, <2>3 DEF Dbs, w
<1>19. CASE w.full
  <2>1. w.db = "fallback" /\ (p \in w.fresh \/ (p \notin w.fresh /\ p \in w.gone))
    BY <1>1, <1>3, <1>19 DEF Working, ReadRight, w
  <2>2. CASE persisted
    BY <1>13, <1>15, <1>16, <1>17, <2>1, <2>2
  <2>3. CASE ~persisted
    <3>1. rows'[w.db][p] = rows[w.db][p]
      BY <1>8, <2>3 DEF RowLeft
    <3>2. CASE store.db = "fallback"
      BY <1>12, <1>13, <1>14, <2>1, <2>3, <3>1, <3>2
    <3>3. CASE store.db = "configured"
      BY <1>13, <1>14, <1>15, <2>1, <3>1, <3>3
    <3> QED BY <1>15, <3>2, <3>3 DEF Dbs
  <2> QED BY <2>2, <2>3
<1> QED BY <1>18, <1>19

LEMMA ReturnCovers ==
  ASSUME CoverBase, IInv', NEW t \in Tasks, PersistPaths(t) \/ GiveUpPersisting(t), Alone(t)
  PROVE  CoverInv'
<1>1. Around(t)
  BY ReturnAround
<1>2. PICK persisted \in BOOLEAN : Leaves(t, persisted)
  BY ReturnLeaves
<1>3. Installing(t)' /\ AllCovered' /\ RowsHonest'
  BY <1>1, <1>2, ReturnWillCover, ReturnAllCovered, ReturnRowsHonest
<1>4. Working(t)'
  BY <1>1 DEF Around, Working, WorkerStages
<1>5. \A p \in Paths : Seen(t, p)' <= pending_refresh'[p]
  <2>1. work'[t].snapshot = work[t].snapshot /\ pending_refresh' = pending_refresh
        /\ pc[t] \in WorkerStages
    BY <1>1, <1>2, ReturnResult DEF Around, WorkerStages
  <2> QED BY <2>1 DEF CoverBase, CoverInv, SeenMarks, Seen
<1> QED BY <1>3, <1>4, <1>5, CoverAlone

LEMMA NextCovers ==
  ASSUME CoverBase, IInv', Live', [Next]_vars
  PROVE  CoverInv'
<1>1. IInv
  BY DEF CoverBase
<1>2. CASE Elsewhere /\ Drifts
  BY <1>2, ElsewhereCovers
<1>3. ASSUME NEW t \in Tasks, Alone(t), Begins(t) \/ WorkerStep(t) \/ WorkerFault(t) \/ ReturnStep(t)
      PROVE  CoverInv'
  BY <1>3, BeginsCovers, ReadCovers, FallBackCovers, ReturnCovers, LeavesCovers, GoInstallCovers,
     InstallCovers DEF WorkerStep, ReturnStep
<1> QED BY <1>1, <1>2, <1>3, StepKinds

LEMMA InitCovers == Init => CoverInv
<1> SUFFICES ASSUME Init PROVE CoverInv
  OBVIOUS
<1> USE JobsAreNotHandlers
<1>1. \A t \in Tasks : pc[t] \in {"idle", "spawned", "unborn"}
  BY DEF Init
<1>2. (\A t \in Tasks : Working(t) /\ Installing(t)) /\ SeenMarks
  BY <1>1 DEF Working, Installing, SeenMarks, Returned, WorkerStages
<1>3. AllCovered
  BY DEF Init, AllCovered
<1>4. RowsHonest
  <2> SUFFICES ASSUME NEW p \in Paths PROVE Honest(p)
    BY DEF RowsHonest
  <2>1. PICK table \in CachedTable :
          /\ rows = [d \in Dbs |-> IF d = "configured" THEN table ELSE [q \in Paths |-> NoRow]]
          /\ store = [files |-> NoFiles, cached |-> Cached(table), db |-> "configured"]
    BY DEF Init
  <2>2. table[p].src = table[p].fingerprint
    BY DEF CachedTable
  <2>3. rows["configured"] = table /\ rows["fallback"][p] = NoRow /\ store.db = "configured"
    BY <2>1 DEF Dbs
  <2>4. NextDb = "configured"
    BY <1>1, <2>3 DEF NextDb, Returned
  <2> QED BY <2>2, <2>3, <2>4 DEF Honest, NoRow
<1> QED BY <1>2, <1>3, <1>4 DEF CoverInv

-----------------------------------------------------------------------------
(* The two theorems.                                                       *)

CoverSafe == ClearInv /\ OrderInv /\ (Live => DeletesOrdered /\ CoverInv)

LEMMA InitCoverSafe == Init => CoverSafe
BY InitClear, InitQueued, InitOrder, InitDeletes, InitCovers DEF CoverSafe, OrderInv

LEMMA NextCoverSafe ==
  ASSUME Whole, Orderly, IInv, IInv', CoverSafe, [Next]_vars
  PROVE  CoverSafe'
<1>1. "damaged" \notin Faults /\ TypeOK /\ Spawned
  BY DEF Whole, IInv
<1>2. ClearInv'
  BY <1>1, NextClear DEF CoverSafe
<1>3. OrderInv'
  BY <1>1, NextQueued, NextFirstJob, NextNoExcluded, NextNeverLost, NextEventsOrdered
     DEF CoverSafe, OrderInv
<1>4. Live' => Live
  <2>1. shutting_down => shutting_down'
    BY StepKinds DEF Elsewhere, Alone
  <2> QED BY <2>1 DEF Live
<1>5. Live' => DeletesOrdered'
  BY NextDeletes DEF CoverSafe, OrderInv
<1>6. Live' => CoverInv'
  BY <1>4, NextCovers DEF CoverSafe, CoverBase
<1> QED BY <1>2, <1>3, <1>5, <1>6 DEF CoverSafe

LEMMA SpecCoverSafe ==
  ASSUME Whole, Orderly
  PROVE  Spec => [](IInv /\ CoverSafe)
<1>1. IInv /\ IInv' /\ CoverSafe /\ [Next]_vars => CoverSafe'
  BY NextCoverSafe
<1> QED BY <1>1, InitCoverSafe, SpecIInv, PTL DEF Spec

(* The index never misses a change of a file for good: until the shutdown, *)
(* a path whose file is not what the index answers is marked, or its event *)
(* is on its way, or a refresh of it is (refresh_paths and                 *)
(* mark_paths_pending_refresh, index_jobs.rs and lookup_state.rs), for any *)
(* number of files, handlers, rebuilds and edits, whatever write fails,    *)
(* where rows are lost whole and deletions are told in order.              *)
THEOREM LosesNoChange ==
  Whole /\ Orderly /\ Spec => []NoLostChange
<1>1. ASSUME IInv, CoverSafe PROVE NoLostChange
  <2> SUFFICES ASSUME synced # 0, ~shutting_down, NEW p \in Paths
               PROVE  Agrees(p) \/ pending_refresh[p] > 0 \/ Unhandled(p) \/ Refreshing(p)
    BY DEF NoLostChange
  <2>1. Covered(p)
    BY <1>1 DEF CoverSafe, Live, CoverInv, AllCovered
  <2> QED BY <2>1 DEF Covered, Known, Right, Expected, Agrees
<1>2. ASSUME Whole, Orderly PROVE Spec => []NoLostChange
  BY <1>1, <1>2, SpecCoverSafe, PTL
<1> QED BY <1>2

(* Where no file is deleted, the mark itself stays until the path is       *)
(* refreshed, during the shutdown too and whatever task panics, fails or   *)
(* is overtaken: a path the index answers wrongly is live-scanned          *)
(* (lookup_state.rs:132).                                                  *)
THEOREM MarksUntilRefreshed ==
  Whole /\ ~Deletions /\ Spec => []MarkedUntilRefreshed
<1>1. ASSUME ~Deletions, CoverSafe PROVE MarkedUntilRefreshed
  <2> SUFFICES ASSUME synced # 0, NEW p \in Paths
               PROVE  Agrees(p) \/ pending_refresh[p] > 0 \/ Unhandled(p)
    BY DEF MarkedUntilRefreshed
  <2>1. Covered(p)
    BY <1>1 DEF CoverSafe, Live, CoverInv, AllCovered
  <2> QED BY <1>1, <2>1 DEF Covered, Known, Right, Expected, Agrees
<1>2. ASSUME Whole, ~Deletions PROVE Spec => []MarkedUntilRefreshed
  <2>1. Orderly
    BY <1>2 DEF Orderly
  <2> QED BY <1>1, <1>2, <2>1, SpecCoverSafe, PTL
<1> QED BY <1>2
=============================================================================
