------------------------------ MODULE IndexJobs ------------------------------
(***************************************************************************)
(* How sage-ls keeps its workspace index in step with the files on disk.   *)
(*                                                                         *)
(* Three kinds of task change the installed index: the cache reconcile     *)
(* that `initialize` spawns, the rebuilds that `sage.__rust.rebuildIndex`  *)
(* spawns, and the incremental refreshes that the didSave and              *)
(* didChangeWatchedFiles handlers run (crates/sage-ls/src/index_jobs.rs).  *)
(* Each waits for index_work_gate, copies the installed index, lets a      *)
(* worker thread read files and write the sqlite cache, and installs the   *)
(* worker's index if it is still current.  The index itself is             *)
(* crates/sage-index/src/workspace_lifecycle.rs.                           *)
(*                                                                         *)
(* What a file holds is one value of Sources; a path of Paths lies below   *)
(* the indexed roots.                                                      *)
(***************************************************************************)
EXTENDS Integers, Sequences, FiniteSets

CONSTANTS
  Paths,        \* source files below the indexed roots
  Excluded,     \* those an exclude glob or the extension keeps out of the index
  Sources,      \* what a readable file can hold
  Absent,       \* a file that does not exist, a map or table without an entry
  Unreadable,   \* a file that exists and cannot be read
  Handlers,     \* slots in which tower-lsp runs notification handlers
  NoTask,       \* the gate is free, no task is named
  MaxJobs,      \* bound: background jobs spawned in a session
  MaxEdits,     \* bound: changes of files on disk
  MaxSaves,     \* bound: didSave notifications
  Faults,       \* the failures that may happen, among FaultKinds
  Deletions,    \* whether files are deleted in the session
  MixedBatches, \* whether one notification may report a path deleted and changed
  Overtaking    \* whether a handler may reach the gate before an older one

FaultKinds == {"unreadable", "panic", "error", "damaged", "persist", "switch"}
Jobs  == 1..MaxJobs          \* a job is named by its index_job_generation
Tasks == Jobs \cup Handlers
Dbs   == {"configured", "fallback"}

ASSUME BoundsAssumption ==
  MaxJobs \in Nat \ {0} /\ MaxEdits \in Nat /\ MaxSaves \in Nat
ASSUME DataAssumption ==
  /\ Excluded \subseteq Paths
  /\ {Absent, Unreadable} \cap Sources = {}
  /\ Absent # Unreadable
  /\ Faults \subseteq FaultKinds
  /\ Deletions \in BOOLEAN /\ MixedBatches \in BOOLEAN /\ Overtaking \in BOOLEAN
ASSUME TaskAssumption ==
  /\ Handlers \cap Nat = {}
  /\ NoTask \notin Handlers \cup Nat \cup {"cache-check", "rebuild"}

VARIABLES
  disk,             \* what each file holds now
  events,           \* file-system events not yet delivered to the server
  edits, saves,     \* bounded inputs used so far
  job_generation,   \* Backend.index_job_generation
  pending_jobs,     \* Backend.pending_jobs
  pending_task,     \* Backend.pending_index_task
  shutting_down,    \* Backend.shutting_down
  pc,               \* how far each task is
  args,             \* the (changed, deleted) a handler passes to refresh_paths
  gate,             \* the owner of Backend.index_work_gate
  queue,            \* the tasks waiting for the gate; tokio's Mutex is fair
  base,             \* initial_generation of each task
  work,             \* the index a task's worker is preparing
  generation,       \* IndexStatus.generation of the installed index
  store,            \* the installed index: files, cached counts, database
  pending_refresh,  \* WorkspaceIndex.pending_refresh_paths, 0 for no entry
  rows,             \* the sqlite databases
  basis,            \* history: the generation the installed index was copied from
  late,             \* history: installs made after shutdown was requested
  synced            \* history: the last job whose index was installed, 0 before the first

env       == <<disk, events, edits, saves>>
status    == <<job_generation, pending_jobs, pending_task>>
lock      == <<gate, queue>>
installed == <<generation, store, pending_refresh, basis, late, synced>>
vars == <<env, status, shutting_down, pc, args, lock, base, work, installed, rows>>

NoFiles  == [p \in Paths |-> Absent]
NoMarks  == [p \in Paths |-> 0]
NoRow    == [src |-> Absent, fingerprint |-> Absent]
NoArgs   == [changed |-> {}, deleted |-> {}]
NoWork   == [generation |-> 0, files |-> NoFiles, cached |-> FALSE,
             db |-> "configured", todo |-> {}, fresh |-> {}, gone |-> {},
             full |-> FALSE, damaged |-> FALSE, backed |-> FALSE,
             done |-> {}, snapshot |-> NoMarks, completed |-> NoMarks]

Contents == Sources \cup {Absent} \cup (IF "unreadable" \in Faults THEN {Unreadable} ELSE {})
Held     == Sources \cup {Absent}
Row      == [src : Held, fingerprint : Held]
Event    == [path : Paths, deleted : BOOLEAN]
Args     == [changed : SUBSET Paths, deleted : SUBSET Paths]
Store    == [files : [Paths -> Held], cached : BOOLEAN, db : Dbs]
Work     == [generation : Nat, files : [Paths -> Held], cached : BOOLEAN, db : Dbs,
             todo : SUBSET Paths, fresh : SUBSET Paths, gone : SUBSET Paths,
             full : BOOLEAN, damaged : BOOLEAN, backed : BOOLEAN,
             done : SUBSET Paths, snapshot : [Paths -> Nat], completed : [Paths -> Nat]]

WorkerStages == {"reading", "persisting", "rereading", "repersisting"}
HoldsGate    == WorkerStages \cup {"returned", "failed", "installing"}
JobStages    == {"unborn", "spawned", "queued", "lost", "finishing", "ended"} \cup HoldsGate
RefreshStages == {"idle", "received", "queued", "lost", "finishing"} \cup HoldsGate

(***************************************************************************)
(* What the installed index answers for a path: the file in memory, else   *)
(* the row of its database when the index is backed by cached rows.        *)
(***************************************************************************)
Cached(table) == \E p \in Paths : table[p].src # Absent

FileForPath(p) ==
  IF store.files[p] # Absent THEN store.files[p]
  ELSE IF store.cached THEN rows[store.db][p].src ELSE Absent

Indexable(p, c) == p \notin Excluded /\ c \in Sources

-----------------------------------------------------------------------------
(* The session starts in `initialize`: the index is hydrated from the      *)
(* cache a former session left, and job 1, its reconcile, is spawned.      *)
CachedTable ==
  {t \in [Paths -> {[src |-> c, fingerprint |-> c] : c \in Held}] :
     \A p \in Excluded : t[p] = NoRow}

Init ==
  /\ disk \in [Paths -> Contents]
  /\ events = <<>> /\ edits = 0 /\ saves = 0
  /\ job_generation = 1 /\ pending_jobs = 0 /\ pending_task = NoTask
  /\ shutting_down = FALSE
  /\ pc = [t \in Tasks |-> IF t \in Handlers THEN "idle"
                           ELSE IF t = 1 THEN "spawned" ELSE "unborn"]
  /\ args = [h \in Handlers |-> NoArgs]
  /\ gate = NoTask /\ queue = <<>>
  /\ base = [t \in Tasks |-> 0]
  /\ work = [t \in Tasks |-> NoWork]
  /\ \E table \in CachedTable :
       /\ rows = [d \in Dbs |-> IF d = "configured" THEN table
                                ELSE [p \in Paths |-> NoRow]]
       /\ store = [files |-> NoFiles, cached |-> Cached(table), db |-> "configured"]
  /\ generation = 0 /\ basis = 0
  /\ pending_refresh = NoMarks
  /\ late = 0 /\ synced = 0

Goto(t, stage) == pc' = [pc EXCEPT ![t] = stage]

-----------------------------------------------------------------------------
(* The editor, the file system and the client.                             *)

\* A file is written, created, made unreadable or removed; the watcher queues an event.
Edit(p, c) ==
  /\ edits < MaxEdits /\ c # disk[p] /\ (c = Absent => Deletions)
  /\ disk' = [disk EXCEPT ![p] = c]
  /\ events' = Append(events, [path |-> p, deleted |-> c = Absent])
  /\ edits' = edits + 1
  /\ UNCHANGED <<saves, status, shutting_down, pc, args, lock, base, work, installed, rows>>

ChangedPaths(n) == {events[i].path : i \in {k \in 1..n : ~events[k].deleted}}
DeletedPaths(n) == {events[i].path : i \in {k \in 1..n : events[k].deleted}}

\* A free handler slot takes the next notification.  Handlers are polled concurrently, so
\* one that waits for a lock can be overtaken before it has marked its paths.
Takes(h) ==
  /\ pc[h] = "idle"
  /\ Overtaking \/ \A other \in Handlers : pc[other] # "received"

\* didChangeWatchedFiles: the client reports a batch of the oldest events.
ChangeWatchedFiles(h, n) ==
  /\ Takes(h)
  /\ MixedBatches \/ ChangedPaths(n) \cap DeletedPaths(n) = {}
  /\ args' = [args EXCEPT ![h] = [changed |-> ChangedPaths(n), deleted |-> DeletedPaths(n)]]
  /\ events' = SubSeq(events, n + 1, Len(events))
  /\ Goto(h, "received")
  /\ UNCHANGED <<disk, edits, saves, status, shutting_down, lock, base, work, installed, rows>>

\* didSave refreshes the saved document's path.
Save(h, p) ==
  /\ Takes(h) /\ saves < MaxSaves /\ disk[p] # Absent
  /\ saves' = saves + 1
  /\ args' = [args EXCEPT ![h] = [changed |-> {p}, deleted |-> {}]]
  /\ Goto(h, "received")
  /\ UNCHANGED <<disk, events, edits, status, shutting_down, lock, base, work, installed, rows>>

\* workspace/executeCommand sage.__rust.rebuildIndex: spawn_rebuild.
RebuildIndex ==
  /\ job_generation < MaxJobs
  /\ job_generation' = job_generation + 1
  /\ Goto(job_generation + 1, "spawned")
  /\ UNCHANGED <<env, pending_jobs, pending_task, shutting_down, args, lock, base, work,
                 installed, rows>>

Shutdown ==
  /\ ~shutting_down
  /\ shutting_down' = TRUE
  /\ UNCHANGED <<env, status, pc, args, lock, base, work, installed, rows>>

-----------------------------------------------------------------------------
(* Waiting for the gate.                                                   *)

\* A spawned job that finds the server shutting down ends before it counts itself.
EndAtShutdown(j) ==
  /\ pc[j] = "spawned" /\ shutting_down
  /\ Goto(j, "ended")
  /\ UNCHANGED <<env, status, shutting_down, args, lock, base, work, installed, rows>>

CountJob(j) ==
  /\ pc[j] = "spawned" /\ ~shutting_down
  /\ pending_jobs' = pending_jobs + 1
  /\ pending_task' = IF j = 1 THEN "cache-check" ELSE "rebuild"
  /\ queue' = Append(queue, j)
  /\ Goto(j, "queued")
  /\ UNCHANGED <<env, job_generation, shutting_down, args, gate, base, work, installed, rows>>

\* refresh_paths marks its paths in the installed index before it waits for the gate.
MarkPathsPendingRefresh(h) ==
  /\ pc[h] = "received"
  /\ pending_refresh' = [p \in Paths |-> IF p \in args[h].changed \cup args[h].deleted
                                         THEN pending_refresh[p] + 1 ELSE pending_refresh[p]]
  /\ queue' = Append(queue, h)
  /\ Goto(h, "queued")
  /\ UNCHANGED <<env, status, shutting_down, args, gate, base, work, generation, store,
                 basis, late, synced, rows>>

\* Mutant: the gate lets the head of its queue in while another task holds it.
MutAtGate(t) == pc[t] = "queued" /\ queue # <<>> /\ Head(queue) = t
AtGate(t) == pc[t] = "queued" /\ gate = NoTask /\ queue # <<>> /\ Head(queue) = t

\* Mutant: a finishing job resets the task's name whatever other job is pending.
MutFinishPending ==
  /\ pending_jobs' = IF pending_jobs = 0 THEN 0 ELSE pending_jobs - 1
  /\ pending_task' = NoTask
FinishPending ==
  /\ pending_jobs' = IF pending_jobs = 0 THEN 0 ELSE pending_jobs - 1
  /\ pending_task' = IF pending_jobs' = 0 THEN NoTask ELSE pending_task

\* A job that was superseded, or meets the shutdown, gives the gate back unused.
AbandonJob(j) ==
  /\ AtGate(j)
  /\ shutting_down \/ job_generation # j
  /\ FinishPending
  /\ queue' = Tail(queue)
  /\ Goto(j, "ended")
  /\ UNCHANGED <<env, job_generation, shutting_down, args, gate, base, work, installed, rows>>

AbandonRefresh(h) ==
  /\ AtGate(h) /\ shutting_down
  /\ queue' = Tail(queue)
  /\ args' = [args EXCEPT ![h] = NoArgs]
  /\ Goto(h, "idle")
  /\ UNCHANGED <<env, status, shutting_down, gate, base, work, installed, rows>>

\* Mutant: a task that gets the gate after the shutdown starts all the same.
MutAcquire(t) ==
  /\ AtGate(t)
  /\ gate' = t /\ queue' = Tail(queue)
  /\ base' = [base EXCEPT ![t] = generation]
  /\ UNCHANGED <<env, status, shutting_down, args, installed, rows>>

Acquire(t) ==
  /\ AtGate(t) /\ ~shutting_down
  /\ gate' = t /\ queue' = Tail(queue)
  /\ base' = [base EXCEPT ![t] = generation]
  /\ UNCHANGED <<env, status, shutting_down, args, installed, rows>>

\* Mutant: a rebuild keeps the generation it was cloned from.
MutFullPass(w) ==
  [w EXCEPT !.files = NoFiles, !.todo = Paths, !.fresh = {}, !.gone = {}, !.full = TRUE,
            !.cached = FALSE]

FullPass(w) ==
  [w EXCEPT !.files = NoFiles, !.todo = Paths, !.fresh = {}, !.gone = {}, !.full = TRUE,
            !.cached = FALSE, !.generation = @ + 1]

\* clone_for_background_work: the copy a reconcile or a refresh starts from.
Clone == [NoWork EXCEPT !.generation = generation, !.files = store.files,
                        !.cached = store.cached, !.db = store.db, !.backed = store.cached,
                        !.snapshot = pending_refresh]

\* A rebuild starts from an empty index with the same options.
StartRebuild(j) ==
  /\ j # 1 /\ job_generation = j /\ Acquire(j)
  /\ work' = [work EXCEPT ![j] = FullPass([NoWork EXCEPT !.generation = generation,
                                                         !.db = store.db])]
  /\ Goto(j, "reading")

\* A reconcile compares the cached fingerprints of every path, or rebuilds when the
\* cached counts do not match the rows.
StartReconcile(j) ==
  /\ j = 1 /\ job_generation = j /\ Acquire(j)
  /\ \/ work' = [work EXCEPT ![j] = [Clone EXCEPT !.files = NoFiles, !.todo = Paths,
                                                  !.generation = @ + 1]]
     \/ /\ "damaged" \in Faults /\ store.cached
        /\ work' = [work EXCEPT ![j] = [FullPass(Clone) EXCEPT !.damaged = TRUE]]
  /\ Goto(j, "reading")

\* A refresh drops the deleted files and reads the changed ones; it rebuilds when the
\* cached counts do not match the rows or the names of its paths cannot be read.
StartRefresh(h) ==
  LET changed == args[h].changed
      deleted == args[h].deleted
      mine    == [p \in Paths |-> IF p \in changed \cup deleted
                                  THEN pending_refresh[p] ELSE 0]
      copy    == [Clone EXCEPT !.snapshot = mine]
  IN /\ Acquire(h)
     /\ \/ /\ work' = [work EXCEPT ![h] =
                [copy EXCEPT !.files = [p \in Paths |-> IF p \in deleted THEN Absent
                                                        ELSE store.files[p]],
                             !.todo = changed \ deleted, !.gone = deleted,
                             !.done = deleted, !.generation = @ + 1]]
           /\ Goto(h, IF changed \ deleted = {} THEN "persisting" ELSE "reading")
        \/ /\ "damaged" \in Faults /\ store.cached
           /\ work' = [work EXCEPT ![h] = [FullPass(copy) EXCEPT !.damaged = TRUE]]
           /\ Goto(h, "reading")

-----------------------------------------------------------------------------
(* The worker thread.  Each path is read at a moment of its own.           *)

ReadFull(w, p) ==
  LET c == disk[p]
  IN IF Indexable(p, c)
     THEN [w EXCEPT !.files[p] = c, !.fresh = @ \cup {p}]
     ELSE [w EXCEPT !.gone = @ \cup {p}]

\* Mutant: a path with a row counts as unchanged, whatever its fingerprint.
MutReadReconcile(w, p) ==
  LET row == rows[w.db][p]
  IN IF Indexable(p, disk[p])
     THEN IF row.src # Absent THEN w
          ELSE [w EXCEPT !.files[p] = disk[p], !.fresh = @ \cup {p}]
     ELSE IF row.src # Absent /\ (disk[p] = Absent \/ p \in Excluded)
          THEN [w EXCEPT !.gone = @ \cup {p}] ELSE w

ReadReconcile(w, p) ==
  LET c == disk[p]
      row == rows[w.db][p]
  IN IF Indexable(p, c)
     THEN IF row.fingerprint = c THEN w
          ELSE [w EXCEPT !.files[p] = c, !.fresh = @ \cup {p}]
     ELSE IF row.src # Absent /\ (c = Absent \/ p \in Excluded)
          THEN [w EXCEPT !.gone = @ \cup {p}] ELSE w

ReadRefresh(w, p) ==
  LET c == disk[p]
  IN IF Indexable(p, c)
     THEN [w EXCEPT !.files[p] = c, !.fresh = @ \cup {p}, !.done = @ \cup {p}]
     ELSE IF c = Absent \/ p \in Excluded
          THEN [w EXCEPT !.files[p] = Absent] ELSE w

Read(t, w, p) == IF w.full THEN ReadFull(w, p)
                 ELSE IF t \in Handlers THEN ReadRefresh(w, p) ELSE ReadReconcile(w, p)

ReadPath(t, p) ==
  /\ pc[t] \in {"reading", "rereading"} /\ p \in work[t].todo
  /\ work' = [work EXCEPT ![t] = [Read(t, work[t], p) EXCEPT !.todo = @ \ {p}]]
  /\ Goto(t, IF work[t].todo # {p} THEN pc[t]
             ELSE IF pc[t] = "reading" THEN "persisting" ELSE "repersisting")
  /\ UNCHANGED <<env, status, shutting_down, args, lock, base, installed, rows>>

\* Mutant: the rows of deleted files stay in the database.
MutRowsAfter(w) == [p \in Paths |->
  IF p \in w.fresh THEN [src |-> w.files[p], fingerprint |-> disk[p]] ELSE rows[w.db][p]]

\* insert_file_rows stores the fingerprint the file has when its row is written.
RowsAfter(w) == [p \in Paths |->
  IF p \in w.fresh THEN [src |-> w.files[p], fingerprint |-> disk[p]]
  ELSE IF p \in w.gone THEN NoRow ELSE rows[w.db][p]]

\* Reconcile leaves the database alone when it found no difference.
NothingToPersist(t, w) == t = 1 /\ ~w.full /\ w.fresh = {} /\ w.gone = {}

\* Its fingerprint and reference spans are read again while its rows are written: a file
\* that vanished meanwhile makes the transaction fail.
CanPersist(w) == \A p \in w.fresh : disk[p] \in Sources

\* Mutant: only the deleted paths of a refresh are completed.
MutCompletedGone(w) == [p \in Paths |->
  IF w.damaged \/ p \in w.gone THEN w.snapshot[p] ELSE 0]

\* The marks a refresh may clear when its index is installed.
Completed(w) == [p \in Paths |->
  IF w.damaged \/ p \in w.done THEN w.snapshot[p] ELSE 0]

\* Mutant: a refresh completes its marks though its rows could not be written.
MutResult(t, w, persisted, table) ==
  IF t \in Handlers
  THEN [w EXCEPT !.completed = Completed(w),
                 !.cached = IF w.backed /\ ~w.damaged /\ persisted THEN Cached(table) ELSE @]
  ELSE IF t = 1 /\ ~w.damaged
       THEN [w EXCEPT !.files = IF w.full THEN @ ELSE NoFiles, !.cached = Cached(table)]
       ELSE w

\* The index the worker returns; `table` is the content of its database.
Result(t, w, persisted, table) ==
  IF t \in Handlers
  THEN [w EXCEPT !.completed = IF persisted \/ w.damaged THEN Completed(w) ELSE NoMarks,
                 !.cached = IF w.backed /\ ~w.damaged /\ persisted THEN Cached(table) ELSE @]
  ELSE IF t = 1 /\ ~w.damaged
       THEN [w EXCEPT !.files = IF w.full THEN @ ELSE NoFiles, !.cached = Cached(table)]
       ELSE w

Return(t, persisted, table) ==
  /\ work' = [work EXCEPT ![t] = Result(t, @, persisted, table)]
  /\ Goto(t, "returned")

PersistPaths(t) ==
  LET w == work[t]
  IN /\ pc[t] \in {"persisting", "repersisting"}
     /\ CanPersist(w)
     /\ rows' = IF NothingToPersist(t, w) THEN rows ELSE [rows EXCEPT ![w.db] = RowsAfter(w)]
     /\ Return(t, TRUE, rows'[w.db])
     /\ UNCHANGED <<env, status, shutting_down, args, lock, base, installed>>

PersistFails(t) ==
  /\ pc[t] \in {"persisting", "repersisting"} /\ ~NothingToPersist(t, work[t])
  /\ "persist" \in Faults \/ ~CanPersist(work[t])
  /\ UNCHANGED <<env, status, shutting_down, args, lock, base, installed, rows>>

\* The primary write failed: move to the fallback cache, where a rebuild writes the
\* files it has and a reconcile or refresh rebuilds from the files on disk.
FallBack(t) ==
  LET w == [work[t] EXCEPT !.db = "fallback"]
  IN /\ PersistFails(t) /\ pc[t] = "persisting"
     /\ IF w.full THEN /\ work' = [work EXCEPT ![t] = w] /\ Goto(t, "repersisting")
        ELSE /\ work' = [work EXCEPT ![t] = FullPass(w)] /\ Goto(t, "rereading")

\* The fallback cannot be written either, or its directory cannot be made.
GiveUpPersisting(t) ==
  /\ PersistFails(t)
  /\ pc[t] = "repersisting" \/ "switch" \in Faults
  /\ Return(t, FALSE, rows[work[t].db])

\* The operation returns an error: the guard comes back with it.
WorkerErrs(t) ==
  /\ "error" \in Faults /\ pc[t] \in WorkerStages
  /\ Goto(t, "failed")
  /\ UNCHANGED <<env, status, shutting_down, args, lock, base, work, installed, rows>>

\* The worker panics: the guard is dropped in its thread, the receiver sees the sender gone.
WorkerPanics(t) ==
  /\ "panic" \in Faults /\ pc[t] \in WorkerStages
  /\ gate' = NoTask
  /\ Goto(t, "lost")
  /\ UNCHANGED <<env, status, shutting_down, args, queue, base, work, installed, rows>>

-----------------------------------------------------------------------------
(* Back in the task.                                                       *)

Release(t) ==
  /\ gate' = IF gate = t THEN NoTask ELSE gate
  /\ base' = [base EXCEPT ![t] = 0]
  /\ work' = [work EXCEPT ![t] = NoWork]
  /\ UNCHANGED queue

\* The shutdown is checked once before the wait for the index's write lock.
GoInstall(t) ==
  /\ pc[t] = "returned" /\ ~shutting_down
  /\ Goto(t, "installing")
  /\ UNCHANGED <<env, status, shutting_down, args, lock, base, work, installed, rows>>

DropResult(t) ==
  /\ pc[t] \in {"failed", "lost"} \/ (pc[t] = "returned" /\ shutting_down)
  /\ Release(t)
  /\ Goto(t, "finishing")
  /\ UNCHANGED <<env, status, shutting_down, args, installed, rows>>

\* Mutant: the result is compared with its own generation, not with the one it started from.
MutIndexJobResultIsCurrent(t) ==
  (t \in Jobs => job_generation = t) /\ generation = work[t].generation
IndexJobResultIsCurrent(t) ==
  (t \in Jobs => job_generation = t) /\ generation = base[t]

\* Mutant: a completed path loses its mark at whatever version.
MutFinalizePendingRefresh(completed) ==
  [p \in Paths |-> IF completed[p] # 0 THEN 0 ELSE pending_refresh[p]]

\* finalize_pending_refresh_install: the marks of the index being replaced, without those
\* the worker completed at the version it saw.
FinalizePendingRefresh(completed) ==
  [p \in Paths |-> IF completed[p] # 0 /\ pending_refresh[p] = completed[p]
                   THEN 0 ELSE pending_refresh[p]]

Install(t) ==
  LET w == work[t]
  IN /\ pc[t] = "installing" /\ IndexJobResultIsCurrent(t)
     /\ generation' = w.generation
     /\ store' = [files |-> w.files, cached |-> w.cached, db |-> w.db]
     /\ pending_refresh' = FinalizePendingRefresh(w.completed)
     /\ basis' = base[t]
     /\ late' = IF shutting_down THEN late + 1 ELSE late
     /\ synced' = IF t \in Jobs THEN t ELSE synced
     /\ Release(t)
     /\ Goto(t, "finishing")
     /\ UNCHANGED <<env, status, shutting_down, args, rows>>

RejectResult(t) ==
  /\ pc[t] = "installing" /\ ~IndexJobResultIsCurrent(t)
  /\ Release(t)
  /\ Goto(t, "finishing")
  /\ UNCHANGED <<env, status, shutting_down, args, installed, rows>>

FinishJob(j) ==
  /\ pc[j] = "finishing"
  /\ FinishPending
  /\ Goto(j, "ended")
  /\ UNCHANGED <<env, job_generation, shutting_down, args, lock, base, work, installed, rows>>

FinishRefresh(h) ==
  /\ pc[h] = "finishing"
  /\ args' = [args EXCEPT ![h] = NoArgs]
  /\ Goto(h, "idle")
  /\ UNCHANGED <<env, status, shutting_down, lock, base, work, installed, rows>>

-----------------------------------------------------------------------------
JobStep(j) == EndAtShutdown(j) \/ CountJob(j) \/ AbandonJob(j)
              \/ StartRebuild(j) \/ StartReconcile(j) \/ FinishJob(j)
RefreshStep(h) == MarkPathsPendingRefresh(h) \/ AbandonRefresh(h)
                  \/ StartRefresh(h) \/ FinishRefresh(h)
WorkerStep(t) == (\E p \in Paths : ReadPath(t, p)) \/ PersistPaths(t)
                 \/ FallBack(t) \/ GiveUpPersisting(t)
WorkerFault(t) == WorkerErrs(t) \/ WorkerPanics(t)
ReturnStep(t) == GoInstall(t) \/ DropResult(t) \/ Install(t) \/ RejectResult(t)

Environment ==
  \/ \E p \in Paths, c \in Contents : Edit(p, c)
  \/ \E h \in Handlers : \E n \in 1..Len(events) : ChangeWatchedFiles(h, n)
  \/ \E h \in Handlers, p \in Paths : Save(h, p)
  \/ RebuildIndex
  \/ Shutdown

System ==
  \/ \E j \in Jobs : JobStep(j)
  \/ \E h \in Handlers : RefreshStep(h)
  \/ \E t \in Tasks : WorkerStep(t) \/ WorkerFault(t) \/ ReturnStep(t)

Next == Environment \/ System

Spec == Init /\ [][Next]_vars

(***************************************************************************)
(* Fairness.  tokio polls every task that can run, a worker thread runs to *)
(* its end, the gate is handed over in the order of its queue, and the     *)
(* client delivers the events it holds when a handler slot is free.        *)
(***************************************************************************)
Fairness ==
  /\ \A j \in Jobs : WF_vars(JobStep(j))
  /\ \A h \in Handlers : WF_vars(RefreshStep(h))
  /\ \A t \in Tasks : WF_vars(WorkerStep(t)) /\ WF_vars(ReturnStep(t))
  /\ WF_vars(\E h \in Handlers : \E n \in 1..Len(events) : ChangeWatchedFiles(h, n))

FairSpec == Spec /\ Fairness

-----------------------------------------------------------------------------
(* Every variable keeps the type its Rust declaration gives it.            *)
TypeOK ==
  /\ disk \in [Paths -> Contents] /\ events \in Seq(Event) /\ edits \in Nat /\ saves \in Nat
  /\ job_generation \in Jobs /\ pending_jobs \in Nat
  /\ pending_task \in {"cache-check", "rebuild", NoTask} /\ shutting_down \in BOOLEAN
  /\ pc \in [Tasks -> JobStages \cup RefreshStages]
  /\ \A j \in Jobs : pc[j] \in JobStages
  /\ \A h \in Handlers : pc[h] \in RefreshStages
  /\ args \in [Handlers -> Args]
  /\ gate \in Tasks \cup {NoTask} /\ queue \in Seq(Tasks)
  /\ base \in [Tasks -> Nat] /\ work \in [Tasks -> Work]
  /\ generation \in Nat /\ store \in Store /\ pending_refresh \in [Paths -> Nat]
  /\ rows \in [Dbs -> [Paths -> Row]]
  /\ basis \in Nat /\ late \in Nat /\ synced \in Nat

(* index_work_gate serialises the three kinds of task: every task between  *)
(* taking the gate and dropping its guard, the worker thread included, is  *)
(* the gate's owner, and what it copied is still what is installed.        *)
GateSerialises ==
  \A t \in Tasks : pc[t] \in HoldsGate => gate = t /\ base[t] = generation

(* A path whose file is not what the index answers is live-scanned: once a *)
(* job has installed an index, such a path is marked, or the event that    *)
(* marks it has not been handled (mark_paths_pending_refresh).             *)
Agrees(p) ==
  \/ disk[p] = Unreadable
  \/ FileForPath(p) = IF Indexable(p, disk[p]) THEN disk[p] ELSE Absent
Unhandled(p) ==
  \/ \E i \in 1..Len(events) : events[i].path = p
  \/ \E h \in Handlers : pc[h] = "received" /\ p \in args[h].changed \cup args[h].deleted
MarkedUntilRefreshed ==
  synced # 0 => \A p \in Paths : Agrees(p) \/ pending_refresh[p] > 0 \/ Unhandled(p)

(* The index never misses a change of a file for good: until the shutdown, *)
(* such a path is marked, or an event is on its way, or a refresh that has *)
(* yet to install the path is waiting or working.                          *)
Refreshing(p) ==
  \E h \in Handlers : pc[h] \in HoldsGate \cup {"queued"} /\ p \in args[h].changed
NoLostChange ==
  synced # 0 /\ ~shutting_down =>
    \A p \in Paths : Agrees(p) \/ pending_refresh[p] > 0 \/ Unhandled(p) \/ Refreshing(p)

(* A mark is taken back only by an index whose answer for the path is the  *)
(* row written for it, so that the next session starts from it too.        *)
MarkClearedWhenPersisted ==
  [][\A p \in Paths : pending_refresh[p] > 0 /\ pending_refresh'[p] = 0
                       => rows[store'.db][p].src = store'.files[p]]_vars

(* The status bar's pending_jobs counts exactly the jobs that announced    *)
(* themselves and have not finished, and a task is named exactly then.     *)
Counted(j) == pc[j] \notin {"unborn", "spawned", "ended"}
PendingJobsExact ==
  /\ pending_jobs = Cardinality({j \in Jobs : Counted(j)})
  /\ pending_task = NoTask <=> pending_jobs = 0

(* A shutdown winds the work down: no task takes the gate any more, and    *)
(* after the one install that had passed its shutdown check, neither the   *)
(* index nor a database changes (index_jobs.rs:110, 231, 335).             *)
QuietAfterShutdown ==
  [][shutting_down => /\ gate' \in {gate, NoTask}
                      /\ store' # store \/ rows' # rows => late = 0]_vars

(* Installs form one line of versions: each replaces exactly the index it  *)
(* was copied from, with a larger generation.                              *)
Register == INSTANCE SnapshotRegister WITH version <- generation, closed <- shutting_down
ReplacesItsBasis == Register!Spec

(* Every job that counted itself finishes, so status polling ends.         *)
JobsDrain == pending_jobs > 0 ~> pending_jobs = 0

(* A requested rebuild is installed unless a newer request or the shutdown *)
(* supersedes it: the generation check never discards the latest job.      *)
LatestJobInstalls ==
  \A j \in Jobs : pc[j] = "spawned" ~>
     (pc[j] = "ended" /\ (synced = j \/ job_generation > j \/ shutting_down))

(* When the files stop changing, the index catches up with all of them.    *)
CatchesUp == <>[](shutting_down \/ (synced # 0 /\ \A p \in Paths : Agrees(p)))

(* A mark is kept "until their refreshed filters have been persisted and   *)
(* installed" (lookup_state.rs:132): every mark is taken back some day.    *)
MarksClear == \A p \in Paths : pending_refresh[p] > 0 ~> (pending_refresh[p] = 0 \/ shutting_down)
=============================================================================
