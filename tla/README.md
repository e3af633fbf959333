# TLA+ models of sage-vscode-plugin

This directory specifies the concurrent core of the Sage extension: the Rust language server `sage-ls` with its
index (`crates/`) and the VS Code extension that runs it (`packages/extension-core`). The specifications are translated
from the code; TLC checks them on small instances and TLAPS proves the main safety properties for every instance.

## The system

An extension-host process (TypeScript, one thread) starts one `sage-ls` process (Rust, tokio) and talks LSP to it.

| part | state it keeps | operations | how it is reached | hard behaviour |
|---|---|---|---|---|
| index jobs (`index_jobs.rs`) | `index_job_generation`, `pending_jobs`, `pending_index_task`, `shutting_down`, `index_work_gate` | spawn_rebuild, spawn_cache_reconcile, refresh_paths | `initialize`, `executeCommand`, didSave, didChangeWatchedFiles | three kinds of task copy, change and replace the installed index; superseded jobs, panicking workers, shutdown at any moment |
| workspace index (`workspace_lifecycle.rs`, `cache_persistence.rs`) | files in memory, cached counts, generation, pending-refresh marks, the sqlite cache and its fallback | hydrate, rebuild, reconcile, refresh, persist, switch to the fallback | the worker threads of index jobs; lookups | files change while they are read; events arrive during a refresh; writes fail half way |
| lookups (`lookup_state.rs`, `cache_queries.rs`) | identifier filters, cached references, symbols and files | look up, find references, prewarm | LSP requests under the index's read lock | which of memory, row, cache or live scan answers, while a job works and after a crash |
| Sage's tables (`materialized_cache.rs`, `sage_specs/`) | export and method tables | rebuild, refresh when a change looks relevant | persist | two ways to compute one table; cyclic star imports |
| name resolution (`workspace_queries.rs`, `symbol_resolution.rs`, `query_support/`, `source_analysis/`) | none | resolve a name or a member | requests | scopes, branches, rebinding, imports of imports |
| definitions, references, rename (`navigation.rs`, `references.rs`) | none | jump, list, edit | requests | unsaved edits, aliases, declarations in two files |
| cache metadata (`cache_metadata.rs`) | counts, root fingerprints, peer caches | count deltas, mismatches, seeding | persist and hydrate | a delta that drifts from a recount |
| linked-document prewarm (`linked_document_prewarm.rs`) | a revision per document, `parse_gate` | parse linked files, preload them | didOpen, didChange, didSave | parses before the gate, preloads after it |
| navigation cache (`navigation.rs`, `references.rs`) | answers by document version and index generation | look up, insert, clear | requests; cleared after an install | an answer computed from an old document or index |
| open documents (`open_documents.rs`, `main.rs`, `text_positions.rs`) | texts and versions | open, change, close, save; positions | LSP notifications | notifications and awaits interleave; UTF-16 offsets |
| runtime documentation (`runtime_docs.rs`) | record and source caches, in-flight prefetches, one helper process | lookup, prefetch (configure runs once) | hover, definitions, documentation requests | late answers after a timeout; a process that hangs, dies or prints |
| client lifecycle (`languageClientLifecycleController.ts`, `languageClientOperations.ts`) | active and pending client, queued restart, the running operation | start, restart loop, deactivate | activation, commands, settings, trust | hanging or failing starts and stops, restarts during starts, deactivation at any await |
| source-root discovery (`runtimeSourceRootDiscoveryController.ts`) | queue, generation, cached roots | schedule, invalidate, probe | settings, folders, activation; restarts the client | results of a superseded generation |
| rebuild wait, status refresh (`indexRebuild.ts`, `statusRefreshController.ts`) | last status, timer | poll until a rebuild is installed | the rebuild command, the status bar | a status of another job |
| run tasks (`runTaskLifecycle.ts`, `terminalManager.ts`) | executions that run, ends that came early | launch, end, dispose | commands | ends before launches return |
| cache maintenance (`indexCacheMaintenance.ts`) | the cache directory | prune by age and size | before a client starts | other servers write meanwhile; what counts towards the cap |

Components interact by calls (handlers into index jobs, jobs into the index), through shared locked state (the index,
its gate, the counters) and by messages between the two processes. `PROJECT.json` lists every component with its status,
and every hazard at the line where it bites with the properties that watch it.

What makes each part correct: index jobs and index must together keep the answer of every path equal to its file, or
mark the path as pending, or have its event still ahead; installs must not overwrite each other; pending jobs must
drain. Caches in front of the index must not be noticed. A name must be resolved to what Python binds it to, or not at all
where the code promises high confidence, and a rename must leave every occurrence bound to what it was. The client lifecycle must
never lose a process or a restart request and leave nothing behind; roots of a replaced interpreter must not come back;
what a database holds must be whole before it is trusted.

## Modules

| module | what it is |
|---|---|
| `IndexJobs` | index jobs and workspace index together |
| `SnapshotRegister` | what the installs promise: a register whose versions each replace the one they were computed from |
| `LinkedPrewarm` | the prewarmer, extends `IndexJobs` and shares its gate and index |
| `LookupCaches` | rows, memory and the caches in front of them, beside jobs and crashes |
| `CacheMetadata` | counts and markers of a database, damage, restarts, roots copied from other databases |
| `SageTables` | the tables of Sage's exports and methods, rebuilt and refreshed |
| `SageExports` | the resolution of an exported name, and what Python makes of the sources, extends `SageTables` |
| `LocalBindings` | a text, what is captured of it, the local binding of a name |
| `MemberInference` | the type of the owner of a member, extends `LocalBindings` |
| `SymbolQueries` | resolution of plain names over files, jumps, references, renames, extends `LocalBindings` |
| `NavigationService` | what navigation requests promise, without a cache |
| `NavigationCache` | open documents, the cache of answers, installs and preloads |
| `RuntimeDocs` | the documentation worker and its Sage process |
| `LanguageClientLifecycle` | the controller, the bounded client operations, the close handler |
| `SourceRootDiscovery` | the discovery controller, the editor, the settings, the client's roots |
| `IndexStatusWatch` | the rebuild command and the status bar beside jobs of the server |
| `RunTasks` | runs of files and their generated files |
| `IndexCacheMaintenance` | pruning of the cache directory |
| `Sums` | sums as the number of units counted, for `CacheMetadata` and `IndexCacheMaintenance` |
| `IndexJobsProofs`, `LinkedPrewarmProofs`, `LookupCachesProofs`, `LanguageClientLifecycleProofs`, `NavigationCacheProofs` | theorems about the module each is named for |
| `IndexCacheProofs` | theorems about `CacheMetadata` and `IndexCacheMaintenance` |
| `SemanticsProofs` | theorems about `SageTables`, `LocalBindings` and `MemberInference` |
| `MachinesProofs` | theorems about `SourceRootDiscovery`, `RunTasks` and `RuntimeDocs` |
| `MCIndexJobs`, `MCLinkedPrewarm`, `MCNavigationCache`, `MCLanguageClientLifecycle` | sets and symmetry for TLC |
| `MCSemantics` | `LookupCaches`, `SageExports`, `MemberInference` and `SymbolQueries` in one run |
| `MCMachines` | `SourceRootDiscovery`, `IndexStatusWatch`, `RunTasks`, `IndexCacheMaintenance`, `RuntimeDocs` and `CacheMetadata` in one run |

The last two instantiate modules that share no state. Their variable `focus` says which one moves in a behaviour, so a run
explores each by itself and not the product of all.

### IndexJobs

State and code: `gate` and `queue` are `index_work_gate` (tokio's mutex is fair, so the waiters are a queue);
`generation`, `store` and `pending_refresh` are the installed `WorkspaceIndex` (in-memory files, whether it is backed by
cached rows, which database, and the version of each pending mark); `rows` are the two sqlite databases, a row holding
the indexed content and the fingerprint stored with it; `work[t]` is the index a worker thread prepares, with the paths
still to read (`todo`), those to write (`fresh`) and to delete (`gone`); `pc[t]` is how far a task is. `basis`, `late`
and `synced` are history. A file's content is one value of `Sources`; a fingerprint identifies the content, so two
contents with one size and modification time are not modelled.

Each read of a file is an action (`ReadPath`), so files change between reads, and the writing of the rows is another
(`PersistPaths`), which takes fingerprints at that later moment as `insert_file_rows` does. A handler first marks its
paths (`MarkPathsPendingRefresh`), then waits for the gate, works, and installs with `finalize_pending_refresh_install`.
A job is counted (`CountJob`) before it waits and counted out on every way to its end. A damaged cache — cached counts
that disagree with the rows — is a choice at the start of a reconcile or refresh, which then rebuilds. A failed write
moves to the fallback (`FallBack`), where a rebuild writes what it has and the others rebuild from disk, and a second
failure is recorded without an error (`GiveUpPersisting`).

Init is the state after `initialize` has hydrated any cache an earlier session may have left, stale or not, with the
reconcile (job 1) spawned; `Edit` changes files from then on.

Left to other modules: reference spans and identifier filters of a row, the root-fingerprint shortcut of the reconcile and
crashes (`LookupCaches`), counts, several sessions and the databases of other workspaces (`CacheMetadata`).

### LinkedPrewarm

`revisions` and `next_revision` are the prewarmer's map and counter; `warmer[w]` is one spawned task: sleeping, waiting
for `parse_gate` (`parser`, `parse_queue`), discovering links in a detached worker, parsing them file by file
(`ParseLinked`, so files change in between), waiting in the same `queue` as the index jobs, and preloading
(`Preload`: `preload_indexed_files`, which overwrites files in memory and leaves the generation alone). Each stage ends
the task when it was superseded or the server shuts down; the lock guards go with the task (`Ends`). `IndexStep` is any
step of `IndexJobs`; its shutdown also clears the revisions. `warmed` is history. Which files a document links to is
any set; `document_version` is left out of a revision, whose counter makes it unique.

### NavigationCache

`open`, `disk` and `versions` are `open_documents`, the files and the client's numbering; a document read from disk has
version 0 here (`i32::MIN`) and a fingerprint of its text in the key. A request goes through `Look`
(`document_for_uri`, which takes the live document of the URI, else the newest live alias, else the file), `ReadCache` and
`Compute`, the last two under the index's read lock (`asking`). A notification changes the documents (`Notified`) and
purges the cache later (`InvalidateUri`); `Install` and `ClearAfterInstall` are an index job's, `Preload` and
`ClearAfterPreload` the prewarmer's, which keeps the write lock in between (`writing`). The answer of a computation is the pair
of the text and the index content it was computed from, so that `CacheIsInvisible` — the refinement of `NavigationService`
— says that every answer is the one of a server without a cache. Positions and kinds of request are left out: they are
part of the key, and requests that differ there never meet. Row changes of the sqlite database while an older index is
still installed are not modelled here, nor the second lookup that turns an answer into a location.

### RuntimeDocs

`task[t]` is one call of `lookup`, or one `prefetch` with its spawned task: `entering` is between the check of the record
cache and that of `inflight`. `guard` is the mutex of the process, held from `LockProcess` through start, request and
answer, and let go with the process killed (`GivesUp`) or not (`Receive`). `process` is external: it becomes ready, reads
requests in order, writes an answer or an error for each and any other line at any time, or dies. Timeouts are
choices: `StartFails` and `NoAnswer` may happen at once. An answer comes with a source location or without: the code keeps one only
where the URI is absolute, the line positive and the source text not empty. The counters of hits, misses, timeouts and the queue depth are left
out, `state` is not. `configure` is called once, by `initialize`, before anything is looked up, and is Init.

### LanguageClientLifecycle

An action is the code between two awaits. `operation` is `currentOperation` with the await at which the restart loop is:
stopping the previous client, the cache maintenance (`beforeStart`), the start, the cleanup of a failed start,
`afterStarted`, or the unbounded stop of a client that came up during deactivation; `exited` is the loop's promise
resolved and its `finally` not yet run. `callers` are the concurrent calls of `start()`, `deactivation` is where
`deactivate()` awaits. `server`, `stopping` and `stops` are external: the process of each client, what became of its
`stop()`, and how often it was called. `vscode-languageclient` is modelled from how the code uses it: starts and stops
may resolve, reject or hang; a process may close, upon which the close handler decides about a restart. An await with a
timeout may end at any time, so no real-time order between the 30 s start bound and the 5 s shutdown bound is assumed.
`afterStarted` does not throw, since the extension's one catches its errors (`extension.ts:531-574`).

### LookupCaches

`dbRows` are the rows of the two databases with what each was parsed from (`names`), the spans stored for it and the
fingerprint (`print`); `table` stands for the materialised tables. `index` is the installed index: its database, the files
in memory, and four caches (`symbols`, `records`, `spans`, `filters`). A `job` is a refresh, reconcile or rebuild with its copy of
the index; parsing, writing and installing are separate actions, and so are the reads of a `query`, which stores its answer at the
end (`StoreAnswer`). `Crash` forgets memory and marks and hydrates again; `FastReconcile` is the shortcut that trusts fingerprints
of editable files and root markers. One job runs at a time, which is what `GateSerialises` of `IndexJobs` says.

Names have a lower-case `Key`. A database without a hot name, a lookup answered from both rows and memory, and the reads of a
marked file by a live scan are there; `sage_method_lookup_cache` and references below non-editable roots are not. `Preload` reads
the file when it is put into the index: the older texts of `LinkedPrewarm` would spoil every cache here.

### CacheMetadata

`fileRows` and `rootRows` are the rows of a database and its `index_root_metadata`, `peerDbs` those of other workspaces, `cached` the
counts the installed index believes in. A job is one action, since it runs alone and writes one transaction; `Reconcile` chooses the
order in which peers are asked. `Contents` gives what a file may hold as numbers of documented symbols and of symbols with an empty
docstring, which is what distinguishes the two ways to count. `Damage` loses rows (of a file, its docs, or all). `markers` are
what `source_root_fingerprint` reads. `checked`, `whole` and `wasted` are history.

`AnyDamage = FALSE` restricts damage to moments at which the code compares counts with rows. With `TRUE`, `WarmCacheIsWhole` fails in two
ways that the code knows of nothing: rows lost while the whole index is in memory are seen by no comparison, and a refresh of a `sage.*`
file then counts what is left and makes it the truth; and a database in which one root has no counts (its seeding or reconcile
did not happen) is not compared at all.

### SageTables, SageExports

`disk` and `symbolRows` are the source and the indexed files as sequences of symbols with `__all__` and star imports; `exports` and
`methods` are the tables. `Rebuild` computes them from the symbols in memory, `RefreshPaths` from the rows of the database and only if
`NeedsRefresh`. These are two loaders (`Loaders`), and every lookup says which one reads: memory is a map from lower-cased names
whose entries were parsed in the order of the parser's passes; the database compares names exactly, orders rows by line and joins a
row with the docstring of any symbol of the same file, name and detail (`Joined`). So the code can write two tables for the same rows, in
four cases (`Unambiguous` says that none of them is there):

- `NamesAreExact`: a module record matches an import of its module whatever name is imported, but is found only under its own name. From memory,
  `from sage.graphs.graph import Graph` is answered with the record of the module `graph` where `Graph` is only imported there; from the
  database it is not.
- `DocsAreOwn`: of two symbols with one name and detail, of which one has a docstring, the database lends it to the other, and symbols with
  docstrings are preferred.
- `OrderIsKept`: of two equally good symbols memory takes the one parsed first and the database the one on the lower line; the parser
  collects definitions, assignments and imports in passes.
- `AliasesAreOwn`: the target of an alias of a `@matrix_method` is searched in the alias's module from memory, and like that of an
  import, in modules whose names match, from the database.

`TablesAgree` therefore says that the tables are those one of the two loaders computes for the indexed rows, and that both compute the
same where the files of Sage are unambiguous. Some of the files of the run are ambiguous in one of the first three ways. Among methods of equal rank the code takes the
first of a hash map or of the rows, so a method table is any choice of the best (`MethodChoices`). Not modelled: SQLite's `like` that finds
export modules ignores their case, and a file outside Sage decorated with `@matrix_method`, which a refresh does not read again,
is excluded by `SageIsClosed`.

The chain of an
import and the rounds of star imports are functions of their step, with the depth of the code; each stage of a table takes what it needs
of the rows (`ImportRecords`, `SourceExports`, `StarEdges`, `Fallbacks`, `StaticRecords`) and the rest is computed from that.

`SageExports` adds `SageExport`, the resolution that queries use: table, chain of imports, sources, built-in map. It is recursive, as in
the code, and looks up rows of the database: the map in memory that a rebuild leaves beside them is left aside.

### LocalBindings, MemberInference, SymbolQueries

A text is a sequence of lines `[indent, stmt]`; statements have a kind, the names they bind and a right-hand side. `LocalBindings` is
what the code reads of it: symbols, scopes, the binding of a name at a line. The code finds the scope of a line by a stack of the
definitions above that are still open by their indentation (`OpenAfter`); beside it stands the order of Python's scopes, by the
lines that enclose a line (`Around`, `Searched`). `MemberInference` types a document line by line and compares
the inferred type of an owner with `Outcomes`, which runs the document along every path that enters each loop at most once. The body of
a called function is run the same way (`Returned`), without calls of its own (`CallsModelled`). Whether the binding of a name has the
right scope (`BindingIsInnermost`) and whether its value is one that is read (`BindingIsReached`) are two properties: the first holds for
every text, the second only where everything that binds the name is captured.
`SymbolQueries` has files on disk, the records the index has of them and open documents that are edited, saved and closed; `Resolve`
is the order in which a name's sources are asked, `Jump` the three kinds of navigation, `Edits` the places a rename edits, and
`StandsFor` what the name is bound to when the program runs. Both sides are computed in every state for every occurrence; the
actions only write texts.

The comparison holds where the code claims something; its antecedents name what it does not capture, and each is a case in which the
code answers otherwise than Python:

- `BoundFirst`: a constructor's name that is rebound after its call is looked at where the member is asked for. Beside it, `x =
  Graph()` followed by `x = matrix(x.m())` reads the second `x.m` as that of a matrix (`sage_type_inference.rs:47-49`), a chained call
  gets the type of its constructor, and a loop's second iteration is ignored.
- `Captured`, `NoHiddenAssignment`, `NoReboundParameter`: assignments below the left margin are not captured, a parameter is preferred over its own
  rebinding, and `global` is ignored.
- `NoLateImport`, `NoMaskedExport`, `NoSourceTwin`: an import after a local definition of the same name, an explicit import in a
  `.sage` file of a name that `sage.all` has (`workspace_queries.rs:593-603`), and the source name of an aliased import.
- `EverythingTakenOnce`: nested functions, methods and overwritten globals are taken for what an import offers
  (`cache_persistence.rs:197-211`).
- `Plain`: renaming an aliased import that a third file imports edits the definition it is an alias of.
- In `SageExports`, `InNamespace` leaves out methods and module records that are offered as names. Two star imports that offer one name are
  not ordered as in Python, so the properties ask for what some import says. A refresh skips changes outside `sage.*` (`query_support/symbols.rs:288`), so a
  row whose target is outside goes stale; `SageIsClosed` excludes such targets, in the run and in the theorem.

### SourceRootDiscovery

The controller's fields have their names (`pendingDiscoveries` is `pending`, `globalState`'s copy is `rootCache`); `active` is the probe the pump
is in and the await at which it is. Editor, settings and client are modelled from the listeners of `extension.ts`. What an interpreter
reports is a constant (`Probe`, or nothing when the probe fails), as are roots found around its path (`Heuristic`). `restart` is a request
to `LanguageClientLifecycle`, served by one client created later or by none. A change of the settings requests it only while a Sage
editor is active, because that start is not forced (`extension.ts:993`, `languageClientLifecycleController.ts:118-125`); the restart command
and a probe that added roots request it always. Roots that join from the cache of an earlier session are not announced, so they wait for the
next client: `AddedRootsReachClient` speaks of the roots that a probe announced.

### IndexStatusWatch

Jobs and refreshes of the server as `IndexJobs` has them, seen from outside: spawned, counted, started, installed or superseded. What
the index records of an install (`Recorded`) need not be the job's name: a refresh, a reconcile or the hydration at the start may record `rebuild`,
when counts do not match the rows or a cache cannot be read or written, and a reconcile `fast-reconcile` (`workspace_lifecycle.rs:166`, `:228`, `:255`,
`:449`, `:462`, `:794`).
`ReadIndex` and the rest of a payload are separate steps because `index_status_payload` takes three locks in turn. `command` is the
wait of the rebuild command with its baseline, its polls and its reschedules, `timer` and `tick` the status bar's.

The command counts any newer index that records `rebuild` while no job is pending. This may be that of a refresh or reconcile that had to
rebuild, or of an older rebuild which is installed before the command's own job has counted itself, so the command can report success before
its own rebuild is installed, where `docs/developer-guide.md:109-111` promises to reschedule it "instead of reporting an unrelated refresh as success".
`RebuildWaitAnswers` says what is true of every report: an index built in full was installed after the command took its baseline. `rebuilt` is the
history for that.

### RunTasks, IndexCacheMaintenance

`stage` and `taskProcess` are a run as the extension and as the editor know it; `tasks`, `endedTasks` and `listening` are the fields of
`RunTaskLifecycle`. `CapRespected` compares the directory after a maintenance with what it was before, so that it says not only that
the cap is met but what may be taken for it: no kept database, none of the newest, none younger than the limits of age, and by size only
what is older than the lesser limit and only while the files do not fit. `Maintain` is one action because the extension awaits it before a client starts, and its deletions succeed here;
databases of equal age may be sorted either way; other servers write in between.

## Runs

Bounds: one path with two contents shows a stale answer, a change during a refresh and a change back; a second path shows that
a refresh of one leaves the other's mark alone. Two handlers are the least that lets one notification wait while another works, two edits
the least for a change during a refresh, two jobs the least for a superseded one. Three start requests let a restart arrive while a
restart is served. Two prewarms of one document are the least for one to supersede the other. Two requests, three versions and two changes of
the index over a cache of two answers let an answer become old in each way and be evicted.

In `machines`: two scopes and interpreters with four events let a probe be superseded, restored and superseded again; four jobs
and two refreshes let a rebuild be superseded after it was rescheduled; three runs keep one launch pending while another ends early; three databases
fill the cap; two tasks, two symbols and two lines ahead let an answer be taken for another; three files under a workspace, an
editable root nested in it and a library copied from a peer, two incidents and a restart let a count drift and be
trusted later. In `semantics`: five modules with up to three contents each contain cycles and chains of star imports; two files and two events let a
change, a crash and a job meet a query at each of its steps; documents of five lines nested twice hold a branch, a scope and a rebinding
before the query; workspaces have up to seven files with one to three lines each, in four scenarios.

Deadlock is not checked: the bounded inputs run out and a shut-down server stops.

| run | question | properties |
|---|---|---|
| `core` | two jobs, two handlers, deletions and saves: is anything lost or installed out of order? | `GateSerialises`, `NoLostChange`, `PendingJobsExact`, `ReplacesItsBasis`, `QuietAfterShutdown` |
| `paths` | two paths, one excluded, failing cache writes: is a mark taken back without a row? | `MarkClearedWhenPersisted` |
| `faults` | unreadable files, damaged counts, panics, errors, handlers overtaking, no deletions: is a stale path always marked? | `MarkedUntilRefreshed` |
| `live` | does the server catch up? | `LatestJobInstalls`, `CatchesUp`, `MarksClear` |
| `prewarm` | do prewarms and index jobs share gate and index without losing each other's work, and end? | `NoPreloadLost`, `NoLatePreload`, `BothDrain` |
| `navigation` | can the cache of answers be noticed while each document is opened once? | `TypeOK`, `CacheIsInvisible` |
| `client` | is a server process or a request ever lost, whatever hangs or crashes? | `NoOrphan`, `DeactivationStopsAll`, `CurrentIsFresh`, `NotRevived`, `RequestsServed` |
| `machines` | do roots of a replaced interpreter return, or new ones not arrive? is a rebuild reported that was not installed, or waited for until the timeout? is a refresh of the status bar lost? a generated file left? the cap missed? a record given to another symbol, prefetched twice, or everyone blocked? are counts wrong, or a truncated database served? | `NoStaleRoots`, `AddedRootsReachClient`; `RebuildWaitAnswers`; `ScheduleIsServed`; `EveryRunCleaned`; `CapRespected`; `AnswersMatch`, `InflightExact`, `ProcessFreed`; `RefreshIsIncremental`, `WarmCacheIsWhole` |
| `semantics` | are tables those of the rows, however they came about, and do they say what the sources say? is a reference missed, or a cached answer old? is a claimed type, a binding, a jump or a rename wrong? | `TablesAgree`, `ExportsMatchHere`; `NoReferenceMissed`, `CachedAnswersCurrent`; `ClaimedTypeHolds`, `BindingIsReached`, `BindingIsInnermost`; `JumpsLandHere`, `RenamesStayHere` |

`NoLostChange` is the central property: once a job has installed an index, a path whose file is not what the index
answers is marked, or its event is undelivered or unhandled, or a refresh that will install it is on its way.
`MarkedUntilRefreshed` is the stronger promise of the comment at `lookup_state.rs:132-133` (without the last disjunct). It holds
without deletions and fails with them (run `deleted`). The type invariants of `IndexJobs`, `LinkedPrewarm`, `LanguageClientLifecycle` and `RuntimeDocs` are
proved and have no run.

Three runs end in a counterexample, each one a place where the code does not do what its comments or documents say; the
quotations are in `PROJECT.json`:

| run | property | what happens |
|---|---|---|
| `deleted` | `MarkedUntilRefreshed` | a deletion's refresh reads the mark versions when its worker starts (`workspace_lifecycle.rs:485`), including the mark of the re-creation that waits behind it, and takes it back: until that refresh runs, the new file is neither indexed nor live-scanned |
| `refresh_rebuilds` | `RefreshIsIncremental` | a docstring that is empty is stored as a row but not counted by the refresh that stores it (`cache_metadata.rs:582`); the next refresh, of any file, finds counts and rows to differ and rebuilds the whole index |
| `rename_unsaved` | `RenameKeepsIdentity` | a function that an unsaved edit nests in another shares name and detail with one in the file on disk; a rename of it also edits the other (`references.rs:225`) |

With the first refresh before the first reconcile, the flaw of `refresh_rebuilds` leaves `cached_file_count` at zero for the session, and rows are
not looked at.

The passing runs exclude what these runs show, and the following, which have no run of their own:

- `MixedBatches`, `Overtaking`: a batch that reports a path deleted and changed drops the file that exists together with its mark
  (`workspace_lifecycle.rs:472`), and so does a deletion whose handler is overtaken by that of the re-creation.
- A saved file that is kept out of the index stays marked (`workspace_lifecycle.rs:471`), so `MarksClear` is checked without
  excluded paths.
- `damaged` is not combined with `persist` in a passing run: a refresh that rebuilds a damaged cache completes its marks though neither
  database was written (`workspace_lifecycle.rs:449`), and a fingerprint taken at the write of a row (`cache_persistence.rs:40`)
  lets a late reconcile trust a row that is stale. `TornCrash` excludes the same over a restart.
- A rebuild that could write neither database installs its files with the fallback's name (`workspace_lifecycle.rs:198` and `:787`), so references
  are read from whatever older rows that database holds until the next write: `CachedReferencesCurrent` does not speak of an index
  that is `unwritten`.
- A prewarm parses a file, waits for the gate while a refresh installs a newer text or a deletion, and preloads its old text over it,
  unmarked (`linked_document_prewarm.rs:117`): `NoLostChange` is not checked of `LinkedPrewarm`.
- `Reopens`: the key of a cached answer is URI and version (`navigation.rs:118`). A request that took version 1 of a document that is then closed and
  purged stores its answer, and the document, reopened at version 1 with another text, is answered with it.
- `NoAliases`: a request for a URI that is not open is answered from a live document of the same file (`main.rs:1134`,
  `open_documents.rs:64`) and keyed by its own URI and that document's version. Opened at that version with another text, the URI is
  answered from that entry. Editors do not ask about documents that are not open; the run and `Invisible` have one URI for each file.
- The cleanup of a failed start and a timed-out `deactivate()` may stop the same client twice (`languageClientOperations.ts:30`), which
  the comment at `languageClientLifecycleController.ts:238-240` excludes. Nothing is built on it.
- A scope asked for again while the superseded probe of the same key is active is taken for that probe and is not probed
  (`runtimeSourceRootDiscoveryController.ts:115`) until something else asks. `NoStaleRoots` and `AddedRootsReachClient` are
  true of it.
- `FolderSettings`: roots are cached by interpreter only, so with interpreters per folder the roots of one folder's settings return for
  another.
- `Apart`: copying a shared root from a peer (`copy_root_from_attached_peer`, `cache_metadata.rs:317`) replaces the rows below it and the counts
  of that root only. Where two roots overlap and peers offer each of them, the rows of one copy are counted by the other root as
  they were, and the next comparison rebuilds. In the run and the theorems a root that may be copied shares no file with another.
- Two runs of one file share one generated file; `IndexCacheMaintenance` looks at databases before it subtracts the
  bytes of old orphans, and removes a write-ahead log whose database could not be removed.

## Fairness

`IndexJobs`: weak fairness of each job, handler and worker step, because tokio polls every task that can run, worker
threads end, and the mutex is handed over in order; and of the delivery of queued events when a handler slot is free.
Nothing is assumed of edits, saves, rebuild requests or the shutdown. Liveness is checked without panics and errors,
after which the code keeps the mark and waits for the next event.

`LinkedPrewarm`: the same for every stage of a prewarm; sleeps end and detached workers end or panic. Nothing is assumed of
notifications.

`RuntimeDocs`: weak fairness of each task; nothing is assumed of the Sage process, of the callers, or of who gets the mutex
(`std::sync::Mutex` is not fair, so `ProcessFreed` says that each holder lets go and not that each waiter gets it).

`LanguageClientLifecycle`: weak fairness of the loop, of `deactivate()` and of resumed callers: the event loop runs what
is ready, timers fire, and the cache maintenance ends. Nothing is assumed of the server process or of the unbounded `stop()`.

`SourceRootDiscovery`: probes return (they have a timeout), saves succeed or fail, and a requested restart is served or fails. Nothing
is assumed of the editor and the settings.

`IndexStatusWatch`: jobs go on, the timers of polls and ticks fire, and requests return. Nothing is assumed of the two-minute
timeout, so a wait that ends does so by a poll.

`LookupCaches`, `CacheMetadata`, `SageTables`, `MemberInference`, `SymbolQueries`, `RunTasks` and `IndexCacheMaintenance` have no liveness property
and no fairness.

## Proofs

`IndexJobsProofs`, from `BoundsAssumption`, `DataAssumption` and `TaskAssumption` (positive number of jobs, distinct
values, no task named `NoTask`):

- `TypeCorrect`: `Spec => []TypeOK`.
- `Serialised`: `Spec => []GateSerialises`. The property alone is not inductive: a task starts from `AtGate`, so one needs that a
  task that does not hold the gate has no work, that the base generation of the owner is the installed one (`Current`)
  and that its work is ahead of it (`Ahead`); `GateInv` is the conjunction.
- `Quiets`: `Spec => QuietAfterShutdown`, with `LateOnce` (after the one late install nobody holds the gate).
- `Implements`: `Spec => ReplacesItsBasis`: initial states and steps of `IndexJobs` map to those of `SnapshotRegister`.
- `CountsExactly`: `Spec => []PendingJobsExact`, by the cardinality of the set of counted jobs. A consequence is that the branch of
  `finish_pending_index_job` for a counter at zero is never taken.
- `ClearsWhenPersisted`: `"damaged" \notin Faults /\ Spec => MarkClearedWhenPersisted`. The invariant follows a worker: what a refresh
  counts as done is among the rows it is about to write, with the content it read (`Ready`), also when the fallback cache makes
  it start over, and from its write to its install nobody else writes (`Written`, by the gate). A refresh that finds the cached
  counts damaged rebuilds and takes its marks back even when its rows could not be written, which the assumption excludes.
- `LosesNoChange`: `Whole /\ Orderly /\ Spec => []NoLostChange`, and `MarksUntilRefreshed`: `Whole /\ ~Deletions /\ Spec =>
  []MarkedUntilRefreshed`. The property speaks of the installed index only, and what is installed was read long before, so the
  invariant follows a change through the server. A deletion that is on its way or taken by a handler is still true, or a
  later event or handler reads the file again (`EventsOrdered`, `DeletesOrdered`, by the order of the gate's queue). What a worker
  has read was right, or a mark or an event it has not seen has come since (`ReadRight`, `RefreshRight`, `ReconcileRight`). So the answers of a
  returned index will be right or be corrected (`WillCover`), and so are those of the installed one (`Covered`). The
  first reconcile trusts fingerprints, so until then a row was made from the content its fingerprint names unless its mark outlives
  the reconcile (`Honest`).
  `Whole` excludes the faults `damaged` and `switch`: a refresh that rebuilds a damaged cache completes its marks without rows and a
  torn row of the fallback is then trusted by the reconcile (TLC finds it with `damaged`, `persist` and four edits), and job 1 that gives up
  switching databases installs stale rows unmarked. `Orderly` says that where files are deleted notifications are handled in order and one by one
  and no refresh panics or fails, because a deletion is noted without a look at the disk: the runs and exclusions above show each of
  these going wrong. Without deletions every panic, error, overtaking and failed write is allowed. The run `faults` has `damaged` and
  passes within its two edits, where the theorem does not speak.

`LinkedPrewarmProofs`, from the assumptions of `IndexJobs` and `WarmerAssumption`: `PrewarmTypeCorrect`, `NoPreloadIsLost` and `NoneComesLate`
(`PrewarmSpec` implies `[]PrewarmTypeOK`, `NoPreloadLost` and `NoLatePreload`). Prewarms wait in the index jobs' queue and own their gate, so the
invariants of `IndexJobsProofs` do not carry over; every step of an index job is summed up by what it does to the gate
and the index (`MovesTo`), and the invariant says that each gate has one owner (`OneOwner`), that after the one late
change nobody holds the index's gate (`LateOnce`), that waiting prewarms are in the queue of `parse_gate` (`InParseQueue`) and that the
revision of a prewarm is not ahead of its document's (`RevisionsGrow`).

`LookupCachesProofs`, from `CachesAssumption`: `CachesTypeCorrect`, `ReferencesAreFound` (`~TornCrash /\ CachesSpec => []NoReferenceMissed`) and
`AnswersAreCurrent` (`CachesSpec => []CachedAnswersCurrent`). For the first the invariant follows the text of a path: the filters the index
searches, its marks and its files in memory cover the text or its event is unseen (`Covers`), in the installed index and in the copy of
the job in flight, whose copy may only lack what is marked. For the second it says of every cache, in the index, in the
copy and in the query that is between its read and its store, that it holds what the rows give (`CachesRight`, `JobCaches`, `QueryRight`), that
the rows are right for every path that is neither marked nor waiting for the watchers (`RowsCurrent`), and that what a refresh keeps of the
caches is of keys the rows it writes do not touch (`KeptRight`). `TornCrash` matters for the first only: the next session would take a torn row for current.

`LanguageClientLifecycleProofs`, from `LifecycleBounds` and `NoClientIsNone`: `TypeCorrect` (with at most one launch per
request), `NoneForgotten`, `AllStopped`, `Freshness` and `StaysStopped`. The inductive invariant says which handle may be set at which await
(`Handles`), that unlaunched clients are untouched, that a launch has been paid for by a request (`Paid`), that nothing is set again
after `deactivate()` took its handle (`Deactivated`), and that the client being started is already newer than the last request
unless a restart is queued (`Fresh`).

`NavigationCacheProofs`, from `NavigationBounds`: `Invisible` (`~Reopens /\ NoAliases /\ Spec => CacheIsInvisible`), the refinement of
`NavigationService`. A key names a version and not a text, so the invariant follows a text to wherever it has got to, the
document, a request that took it, an answer that outlived it, and says that a version names one text in all these places
(`OneText`) and is not ahead of the document (`VersionsPast`). An entry read from disk carries its text as fingerprint, and
one of the current generation the installed index (`EntriesExact`). Like the run, it has one URI for each file (`NoAliases`). `TypeCorrect`
(`Spec => []TypeOK`) has neither condition: the order of eviction names each answer once and nothing else (`Ordered`), so that
`insert` always finds something to evict. A purge keeps the places of the keys that stay, and that these are numbered without
gaps (`NthPlaces`) follows from a finite injection being onto.

`MachinesProofs`, from `DocsAssumption`: `TypeCorrect` and `Matched` (`Spec => []AnswersMatch`). Answers carry no request
number, so the invariant says what the process can still owe (`Asked`): one answer about the symbol of the lookup that waits, among
stray lines, and nothing but stray lines when no lookup waits, which is what throwing a process away after a timeout is
for. `OnePrefetch` (`Spec => []InflightExact`) adds that a symbol is marked exactly when some task prefetches it
(`Marked`) and that no two tasks prefetch the same symbol (`Alone`).

There too, from `DiscoveryAssumption`: `RootsFresh` (`~FolderSettings /\ DiscoverySpec => []NoStaleRoots`). The
invariant says whose roots each place holds: the cache of earlier sessions those of its key, the queue only interpreters asked
about since the last change, and the discovery under way roots of such an interpreter unless it is superseded.

And from `TasksAssumption` (finitely many runs, since pending launches are counted): `RunsCleaned`
(`TaskSpec => []EveryRunCleaned`). An end that overtakes its launch has to be remembered (`Remembered`) and an end nobody listens for
would be lost, so the invariant says that who stopped listening waits for nothing and never will (`Deaf`).

`SemanticsProofs`, from `FilesAssumption` and `OwnersAssumption`: `TablesStayRight` (`SageIsClosed => (ExportsSpec => []TablesAgree)`). Both halves of
the property, that a refresh may skip the tables and that the two loaders compute the same, say that two readings of Sage's modules
give the same tables, so there is one argument for both. `SageIsClosed`: what the files of Sage and the built-in maps name is found in Sage's modules
or not at all. `Alike(a, la, b, lb)`: two indexes agree on Sage's modules (`SameForSage`) and are read by the same loader, or are both
unambiguous. Then they have the same rows of Sage as read (`SageReadStays`), of several rows of one name the same is the best
(`BestStays`), and so is the definition of what Sage asks for (`BestDefinitionStays`), by the lemma that a lower-cased lookup of an unambiguous
index finds nothing better than an exact one (`ExactNamesAreBest`); hence the same next import (`NextStays`), the same chain for every import of
an export module (`ChainStays`, along the chain, whose imports are all Sage's), the same offers of every star source, and the same
fallbacks (`ExportTableStays`). For methods, that a refresh loads them by class and by owner module makes no difference, since a symbol that has an owner
is of one of these kinds, nor does where an alias is searched (`MatrixTargetsAgree`). `TablesInv` adds to `TablesAgree` that each indexed file is
one that its module may have.

There too, of the pure functions in `LocalBindings`: `InnermostBindingFound`, for every sequence of lines with indentations (`IsDocument`),
every line of it and every name: the binding that `active_local_binding_at` answers is one of the innermost scope Python looks in, or
a parameter of the function the line itself defines; nothing captured between it and the line rebinds it in its scope, parameters
aside; and it answers none only where nothing that is captured is in a scope Python looks in. Its hypothesis, `NoneIsNoBinding`, says that "no binding" is not a binding. The argument:

- The stack after a line lists the definitions whose suites may go on, by increasing line and indentation (`OpenAfterLists`; what is
  popped is what a code line closes, `KeptLists`). So the scope of a line lists the definitions around it (`LineScope`), and its top is
  Python's own scope (`OwnScopeIs`, since suites nest: `AroundNests`).
- A scope is named by the line of its top. One is a prefix of the other exactly when its top is around the other's (`OuterIsPrefix`), so
  the code's prefix test with its exception for classes says what Python searches (`VisibleIff`), and of two scopes in sight the longer
  opens further down (`VisibleOrder`): preferring the deeper scope, then parameters, then the later line is Python's order (`PreferredIsInner`).
- The code looks for imports and for other bindings apart and then compares lines. An import below a visible binding cannot be
  outside its scope (`BelowIsNotOutside`), so the later of the two is also the inner one, and an import that nothing shadows
  is the innermost (`UnhiddenIsInnermost`).

`BindingsAreInnermost` (`NoneIsNoBinding => (InferenceSpec => []BindingIsInnermost)`) applies it to the texts that `MemberInference` types, for any
statements and bounds, of which one only has to know that they are texts (`DocumentTyped`). The stack is a function of the
line, so what the proof needs of induction is over natural numbers, by the least line at which a claim fails (`ReadingExists`, `OpenAfterLists`).

`IndexCacheProofs`, from `MetadataAssumption` and `MaintenanceAssumption` (finitely many files, roots, peers and databases). Sums are cardinalities of
sets of units (`Sums`), so that a sum is split, grows and is compared by theorems about finite sets and no induction; what has a
last member is found as the least number of a set (`NatLeast`).

- `CapIsRespected`: `MaintenanceSpec => []CapRespected`. Pruning to the cap takes the shortest beginning of the order by age that is enough,
  so what remains fits or all that may go is gone (`PrunesToCap`), and the newest databases are never in that order (`NewestKept`).
- `RefreshesAreIncremental`: `NoBlanks /\ Apart /\ MetadataSpec => []RefreshIsIncremental`. Unless damage was done, each root's stored counts are those
  of the rows below it and the counts in memory those of all (`CountsInv`): the differences a refresh adds to each root are those
  of the rows it writes (`DeltaExact`), rows copied from a peer come with counts that fit them (`CopiesExact`).
- `WarmCachesAreWhole`: `~AnyDamage /\ NoBlanks /\ Apart /\ AllBelow /\ MetadataSpec => []WarmCacheIsWhole`. The invariant speaks of rows that are not there any
  more (`Basis`): what they would be had none been lost, to which the stored counts still belong. Lost rows make the sum smaller (`LostCounts`), so
  counts that fit the rows that are left mean that nothing was lost; and an index that counts nothing has all its files in
  memory (`Counting`).

`NoBlanks` says that no docstring is empty (the run `refresh_rebuilds` shows why); `AllBelow` that files are indexed only below roots, as the
indexer finds them; `Apart` is an exclusion above. `~AnyDamage` is explained with the module.

Only model-checked, and why:

- the liveness properties (`LatestJobInstalls`, `CatchesUp`, `MarksClear`, `BothDrain`, `RequestsServed`, `AddedRootsReachClient`, `RebuildWaitAnswers`,
  `ScheduleIsServed`, `ProcessFreed`): liveness under fairness is out of the prover's reach;
- the properties that compare an answer with what Python computes (`ExportsMatchHere`, `ClaimedTypeHolds`, `BindingIsReached`, `JumpsLandHere`,
  `RenamesStayHere`): each side is computed by recursion over a text or over imports of imports, for which one would need induction over
  data;
- a session the theorems exclude and a run includes: `MarkedUntilRefreshed` with damaged counts.

## Plan

Done: the modules above. What is left, most important first:

1. `DocumentSync`: the order of notifications, prewarms and diagnostics in `main.rs`. Notifications are handled concurrently, so the diagnostics
   of a saved text may replace those of a newer change, and an older text's prewarm be scheduled after a newer one's.
2. The call hierarchy (`call_hierarchy.rs`), which walks identities as `SymbolQueries` has them over function bodies.

## Not modelled

Lexing, parsing, the preparser's rewriting, UTF-16 positions, the edits inside a text, ranking of completions, text search, hover and
documentation markup are functions over strings with little state and have unit tests beside them. Launch arguments, settings, interpreter
discovery on disk, terminals that are reused, watchers of backing files and presentation are I/O. The legacy Python server, grammars
and scripts are outside the shipped core.
