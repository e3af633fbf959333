---------------------------- MODULE LookupCaches ----------------------------
(***************************************************************************)
(* What the installed index answers from: rows of the SQLite cache, files  *)
(* in memory, and four caches in front of them (symbols by name, files,    *)
(* references, identifier filters).  Queries fill the caches while a job   *)
(* works on a copy of the index and writes the rows both read; a crash     *)
(* leaves the rows and their fingerprints.                                 *)
(*   src/crates/sage-index/src/lookup_state.rs, cache_queries.rs,          *)
(*   workspace_lifecycle.rs, cache_persistence.rs, symbol_resolution.rs    *)
(*                                                                         *)
(* A file is the set of names it declares and mentions.  One job runs at a *)
(* time and a preload waits for it, by the gate of IndexJobs; a preload    *)
(* reads the file it puts into the index at once (LinkedPrewarm delays     *)
(* it), and a refresh starts from the latest notice about a path.          *)
(***************************************************************************)
EXTENDS Naturals

CONSTANTS
  Paths,       \* Source files of the index.
  EditablePaths, \* Those under options.editable_roots
  Opened,      \* Those that documents link to or a request asks for.
  Material,    \* Those the materialised tables are computed from.
  Identifiers, \* The names in the files.
  Key,         \* Key[n]: to_ascii_lowercase
  HotKeys,     \* hot_sage_symbol_names
  Texts,       \* Texts[p]: the sets of names p may hold, Absent when it may be missing.
  Absent, NoRow,
  TornCrash,   \* The server may end while a row is torn; see Torn.
  MaxEvents    \* How often files change or the server ends without shutting down.

FileRow == [names : SUBSET Identifiers, spans : SUBSET Identifiers, print : SUBSET Identifiers]

ASSUME CachesAssumption ==
  /\ EditablePaths \subseteq Paths /\ Material \subseteq Paths /\ Opened \subseteq Paths
  /\ \A p \in Paths : Texts[p] \subseteq (SUBSET Identifiers) \union {Absent}
  /\ \A names \in SUBSET Identifiers : names # Absent
  /\ \A row \in FileRow : row # Absent
  /\ \A S \in SUBSET Paths : \A filters \in [S -> SUBSET Identifiers] : filters # NoRow
  /\ TornCrash \in BOOLEAN

VARIABLES
  text,     \* The files on disk.
  unseen,   \* Changed files the watchers have not reported yet.
  pending,  \* pending_refresh_paths: version of the mark, 0 without one
  removed,  \* The marked paths last reported as deleted.
  dbRows,     \* dbRows[db]: [names, spans, print] of each file's rows
  table,    \* table[db]: sage_export_cache, pairs of a file and a name
  index,    \* The installed index.
  job,      \* The job under way, with its copy of the index.
  query,    \* The query under way; it holds the read lock of the index.
  current,  \* Whether the index was reconciled since the server started.
  events
caches == <<text, unseen, pending, removed, dbRows, table, index, job, query, current, events>>

Databases == {"primary", "fallback"}
NoRows == [p \in Paths |-> Absent]
Empty == [x \in {} |-> x]
NoJob == [stage |-> "none"]
Stash(f, x, v) == [y \in DOMAIN f \union {x} |-> IF y = x THEN v ELSE f[y]]
Over(f, g) == [x \in DOMAIN f \union DOMAIN g |-> IF x \in DOMAIN f THEN f[x] ELSE g[x]]
Drop(f, S) == [x \in DOMAIN f \ S |-> f[x]]
Stored(db) == {p \in Paths : dbRows[db][p] # Absent}
Existing == {p \in Paths : text[p] # Absent}

Pairs(files) == {s \in Paths \X Identifiers : files[s[1]] # Absent /\ s[2] \in files[s[1]]}
RowPairs(db) == Pairs([p \in Paths |-> IF p \in Stored(db) THEN dbRows[db][p].names ELSE Absent])
RowsNamed(pairs, n) == {s \in pairs : s[2] = n}
Keyed(pairs, k) == {s \in pairs : Key[s[2]] = k}
NamesIn(pairs, S) == {s[2] : s \in {s \in pairs : s[1] \in S}}

\* hydrate_from_cache: an index that trusts the rows and has nothing in memory.
Hydrated(db) ==
  [db |-> db, backed |-> Stored(db) # {}, files |-> [p \in Paths |-> Absent],
   symbols |-> Empty, records |-> Empty, spans |-> Empty, filters |-> NoRow,
   unwritten |-> FALSE]   \* History: neither database could be written.

-----------------------------------------------------------------------------
(* The caches.                                                             *)

ClearLookup(i) == [i EXCEPT !.symbols = Empty, !.records = Empty, !.spans = Empty]

\* clear_lookup_cache_entries
ClearEntries(i, names) ==
  [i EXCEPT !.symbols = Drop(@, {Key[n] : n \in names}), !.records = Empty, !.spans = Empty]

\* prewarm_hot_symbol_cache: the exports of hot names, and what memory has.
PrewarmHot(i, exports) ==
  [i EXCEPT !.symbols =
     Over([k \in HotKeys |-> Keyed(exports, k) \union Keyed(Pairs(i.files), k)], @)]

\* prewarm_identifier_filter_cache
FiltersOf(stored) == [p \in {p \in Paths : stored[p] # Absent} |-> stored[p].names]

\* update_identifier_filter_cache
PutFilters(filters, files, gone) ==
  IF filters = NoRow THEN NoRow
  ELSE Over([p \in {p \in Paths : files[p] # Absent} |-> files[p]], Drop(filters, gone))

-----------------------------------------------------------------------------
(* The world.                                                              *)

CachesInit ==
  /\ text \in {t \in [Paths -> UNION {Texts[p] : p \in Paths}] : \A p \in Paths : t[p] \in Texts[p]}
  /\ unseen = {} /\ pending = [p \in Paths |-> 0] /\ removed = {}
  /\ dbRows = [db \in Databases |-> NoRows] /\ table = [db \in Databases |-> {}]
  /\ index = Hydrated("primary")
  /\ job = NoJob /\ query = NoRow /\ current = FALSE
  /\ events = 0

ChangeFile(p) ==
  /\ events < MaxEvents
  /\ text' \in {[text EXCEPT ![p] = t] : t \in Texts[p] \ {text[p]}}
  /\ unseen' = unseen \union {p}
  /\ events' = events + 1
  /\ UNCHANGED <<pending, removed, dbRows, table, index, job, query, current>>

\* mark_paths_pending_refresh, by the watcher's notification
Mark(p) ==
  /\ p \in unseen
  /\ unseen' = unseen \ {p}
  /\ pending' = [pending EXCEPT ![p] = @ + 1]
  /\ removed' = IF text[p] = Absent THEN removed \union {p} ELSE removed \ {p}
  /\ UNCHANGED <<text, dbRows, table, index, job, query, current, events>>

\* The text the row was made from is not the one its fingerprint names: the file changed
\* between its parse and its write.  Its mark repairs the row, if the server lives to see it.
Torn(p) ==
  \E db \in Databases : p \in Stored(db) /\ dbRows[db][p].names # dbRows[db][p].print

\* The server ends and starts again: what was in memory is lost, marks and notices too.
Crash ==
  /\ events < MaxEvents /\ (TornCrash \/ \A p \in EditablePaths : ~Torn(p))
  /\ events' = events + 1
  /\ index' = Hydrated("primary")
  /\ job' = NoJob /\ query' = NoRow /\ current' = FALSE
  /\ unseen' = {} /\ pending' = [p \in Paths |-> 0] /\ removed' = {}
  /\ UNCHANGED <<text, dbRows, table>>

\* preload_indexed_files: no row changes, no mark is made.
Preload(p) ==
  LET files == [index.files EXCEPT ![p] = text[p]]
      parsed == [q \in Paths |-> IF q = p THEN text[p] ELSE Absent]
      dirty == NamesIn(Pairs(index.files) \union Pairs(files), {p})
  IN /\ job = NoJob /\ query = NoRow /\ text[p] # Absent
     /\ index' = ClearEntries([index EXCEPT !.files = files,
                                            !.filters = PutFilters(@, parsed, {})], dirty)
     /\ UNCHANGED <<text, unseen, pending, removed, dbRows, table, job, query, current, events>>

-----------------------------------------------------------------------------
(* Queries.  What a lookup found is put into the cache under a lock of its *)
(* own, after the rows were read.                                          *)

Answering(q) ==
  /\ query' = q
  /\ UNCHANGED <<text, unseen, pending, removed, dbRows, table, index, job, current, events>>

\* symbol_candidates, when the key is not cached.
LookUp(n) ==
  /\ query = NoRow /\ Key[n] \notin DOMAIN index.symbols
  /\ Answering([kind |-> "symbols", of |-> n,
                found |-> IF index.backed THEN RowsNamed(RowPairs(index.db), n) ELSE {}])

\* file_for_path: the file in memory, or else its row.
OpenFile(p) ==
  /\ query = NoRow /\ p \notin DOMAIN index.records
  /\ \/ /\ index.files[p] # Absent
        /\ Answering([kind |-> "records", of |-> p, found |-> index.files[p]])
     \/ /\ index.files[p] = Absent /\ index.backed /\ p \in Stored(index.db)
        /\ Answering([kind |-> "records", of |-> p, found |-> dbRows[index.db][p].names])

MarkedEditable == {p \in EditablePaths : pending[p] # 0}

\* editable_references first looks which paths are marked.
FindReferences(n) ==
  /\ query = NoRow
  /\ MarkedEditable # {} \/ n \notin DOMAIN index.spans
  /\ Answering([kind |-> "snapshot", of |-> n, found |-> MarkedEditable])

\* load_reference_spans_from_db, and a scan of the marked paths.
SpansOf(n) ==
  {p \in EditablePaths : p \in Stored(index.db) /\ n \in dbRows[index.db][p].spans}
ReadSpans ==
  /\ query # NoRow /\ query.kind = "snapshot"
  /\ Answering(IF query.found = {} THEN [kind |-> "spans", of |-> query.of, found |-> SpansOf(query.of)]
               ELSE NoRow)

\* Mutant: the copy of a job shares the caches of the index.
MutKeep(i, q, original) ==
  CASE q.kind = "symbols" -> [i EXCEPT !.symbols = Stash(@, Key[q.of], q.found)]
    [] q.kind = "records" -> [i EXCEPT !.records = Stash(@, q.of, q.found)]
    [] q.kind = "spans" -> [i EXCEPT !.spans = Stash(@, q.of, q.found)]

\* The caches of a job's copy are copies (clone_for_background_work).
Keep(i, q, original) ==
  IF ~original THEN i
  ELSE CASE q.kind = "symbols" -> [i EXCEPT !.symbols = Stash(@, Key[q.of], q.found)]
         [] q.kind = "records" -> [i EXCEPT !.records = Stash(@, q.of, q.found)]
         [] q.kind = "spans" -> [i EXCEPT !.spans = Stash(@, q.of, q.found)]

StoreAnswer ==
  /\ query # NoRow /\ query.kind # "snapshot"
  /\ index' = Keep(index, query, TRUE)
  /\ job' = IF job = NoJob THEN NoJob ELSE [job EXCEPT !.copy = Keep(@, query, FALSE)]
  /\ query' = NoRow
  /\ UNCHANGED <<text, unseen, pending, removed, dbRows, table, current, events>>

-----------------------------------------------------------------------------
(* Jobs: a copy of the index, the files read, the rows written, the copy   *)
(* installed.                                                              *)

Starting(j) ==
  /\ job = NoJob
  /\ job' = j
  /\ UNCHANGED <<text, unseen, pending, removed, dbRows, table, index, query, current, events>>

NewJob(kind, stage, copy, S) ==
  [kind |-> kind, stage |-> stage, ready |-> index.filters # NoRow, copy |-> [copy EXCEPT !.filters = NoRow],
   versions |-> [p \in S |-> pending[p]], gone |-> S \cap removed,
   parsed |-> [p \in Paths |-> Absent], material |-> FALSE, updates |-> FALSE]

StartReconcile == ~current /\ Starting(NewJob("reconcile", "started", index, {}))
StartRebuild == current /\ Starting(NewJob("rebuild", "started", Hydrated(index.db), {}))
StartRefresh(S) ==
  /\ current /\ \A p \in S : pending[p] # 0
  /\ Starting(NewJob("refresh", "started", index, S))

Working(j) ==
  /\ job' = j
  /\ UNCHANGED <<text, unseen, pending, removed, index, query, current, events>>

\* refresh_paths: the names of the changed files in the rows, in memory and on disk.
Dirty(i, files, S) ==
  NamesIn(Pairs(i.files) \union Pairs(files) \union (IF i.backed THEN RowPairs(i.db) ELSE {}), S)

\* A changed path that has gone is left out; its mark stays.
ParseRefresh ==
  LET S == DOMAIN job.versions
      parsed == [p \in Paths |-> IF p \in S \ job.gone THEN text[p] ELSE Absent]
      files == [p \in Paths |-> IF p \in S THEN parsed[p] ELSE job.copy.files[p]]
      done == {p \in S : parsed[p] # Absent} \union job.gone
      material == done \cap Material # {}
      copy == [job.copy EXCEPT !.files = files]
  IN /\ job # NoJob /\ job.stage = "started" /\ job.kind = "refresh"
     /\ Working([job EXCEPT !.stage = "parsed", !.parsed = parsed, !.material = material,
                            !.versions = [p \in done |-> job.versions[p]],
                            !.copy = IF material THEN ClearLookup(copy)
                                     ELSE ClearEntries(copy, Dirty(job.copy, files, S))])
     /\ UNCHANGED <<dbRows, table>>

ParseRebuild ==
  /\ job # NoJob /\ job.stage = "started" /\ job.kind = "rebuild"
  /\ Working([job EXCEPT !.stage = "parsed", !.parsed = text,
                         !.copy = [@ EXCEPT !.files = text, !.backed = FALSE]])
  /\ UNCHANGED <<dbRows, table>>

\* Mutant: the fingerprints of editable files are not compared.
MutUnchanged(db) == Stored(db) # {}
\* editable_cache_fingerprints_match; the other roots are trusted by their markers.
Unchanged(db) ==
  /\ Stored(db) # {}
  /\ \A p \in EditablePaths :
       IF p \in Stored(db) THEN dbRows[db][p].print = text[p] ELSE text[p] = Absent

\* reconcile_with_cache, when nothing seems to have changed.
FastReconcile ==
  /\ job # NoJob /\ job.stage = "started" /\ job.kind = "reconcile"
  /\ job.copy.backed /\ Unchanged(job.copy.db)
  /\ Working([job EXCEPT !.stage = "written",
                         !.copy = [PrewarmHot(Hydrated(@.db), table[@.db])
                                     EXCEPT !.filters = FiltersOf(dbRows[job.copy.db])]])
  /\ UNCHANGED <<dbRows, table>>

\* The same, comparing every file with its row.
ParseReconcile ==
  LET db == job.copy.db
      parsed == [p \in Paths |-> IF p \in Stored(db) /\ dbRows[db][p].print = text[p] THEN Absent
                                 ELSE text[p]]
      gone == Stored(db) \ Existing
  IN /\ job # NoJob /\ job.stage = "started" /\ job.kind = "reconcile"
     /\ Working([job EXCEPT !.stage = "parsed", !.parsed = parsed, !.gone = gone,
                   !.material = ({p \in Paths : parsed[p] # Absent} \union gone) \cap Material # {},
                   !.copy = Hydrated(db)])
     /\ UNCHANGED <<dbRows, table>>

\* insert_file_rows: symbols and filter of the parse, reference spans and fingerprint of now.
Written(stored, parsed, gone) ==
  [p \in Paths |->
     IF parsed[p] # Absent THEN [names |-> parsed[p], spans |-> text[p], print |-> text[p]]
     ELSE IF p \in gone THEN Absent ELSE stored[p]]
Exports(stored) == {s \in Pairs([p \in Paths |-> IF stored[p] = Absent THEN Absent ELSE stored[p].names]) :
                      s[1] \in Material}

\* A file that was parsed and has gone fails the write: its fingerprint cannot be read.
Writable == \A p \in Paths : job.parsed[p] # Absent => text[p] # Absent

\* The end of refresh_paths and reconcile_with_cache, once rows are written.
Finished(copy, stored, exports) ==
  LET hot == IF job.kind = "reconcile" \/ job.material THEN PrewarmHot(copy, exports) ELSE copy
      backed == (job.kind = "reconcile" \/ job.copy.backed) /\ \E p \in Paths : stored[p] # Absent
      merges == job.kind = "refresh" /\ backed /\ job.ready
  IN [job EXCEPT !.stage = "written", !.updates = merges,
                 !.copy = [hot EXCEPT !.backed = backed,
                                      !.filters = IF backed /\ ~merges THEN FiltersOf(stored) ELSE NoRow]]

WriteRows ==
  LET db == job.copy.db
      stored == Written(dbRows[db], job.parsed, job.gone)
      exports == IF job.material THEN Exports(stored) ELSE table[db]
  IN /\ job # NoJob /\ job.stage = "parsed" /\ job.kind # "rebuild" /\ Writable
     /\ dbRows' = [dbRows EXCEPT ![db] = stored]
     /\ table' = [table EXCEPT ![db] = exports]
     /\ Working(Finished(job.copy, stored, exports))

\* rebuild_into_fallback_cache: another database, everything read again.
FallBack ==
  LET stored == Written(NoRows, text, {})
      copy == [Hydrated("fallback") EXCEPT !.files = text]
  IN /\ job # NoJob /\ job.stage = "parsed" /\ job.kind # "rebuild" /\ ~Writable
     /\ dbRows' = [dbRows EXCEPT !["fallback"] = stored]
     /\ table' = [table EXCEPT !["fallback"] = Exports(stored)]
     /\ Working(Finished(copy, stored, Exports(stored)))

\* persist_all, here or in the fallback; when both fail the index is in memory only.
WriteAll ==
  LET db == job.copy.db
      stored == Written(NoRows, job.parsed, {})
  IN /\ job # NoJob /\ job.stage = "parsed" /\ job.kind = "rebuild"
     /\ \/ /\ Writable
           /\ dbRows' = [dbRows EXCEPT ![db] = stored]
           /\ table' = [table EXCEPT ![db] = Exports(stored)]
           /\ Working([job EXCEPT !.stage = "written"])
        \/ /\ ~Writable
           /\ Working([job EXCEPT !.stage = "written", !.copy = [@ EXCEPT !.db = "fallback", !.unwritten = TRUE]])
           /\ UNCHANGED <<dbRows, table>>

\* finalize_pending_refresh_install: a mark made since the job started stays.
MarksLeft ==
  [p \in Paths |-> IF p \in DOMAIN job.versions /\ job.versions[p] = pending[p] THEN 0 ELSE pending[p]]

Merged == IF job.updates THEN PutFilters(index.filters, job.parsed, job.gone) ELSE job.copy.filters

\* The installed index is replaced when no query reads it.
Install ==
  /\ job # NoJob /\ job.stage = "written" /\ query = NoRow
  /\ index' = [job.copy EXCEPT !.filters = Merged]
  /\ pending' = MarksLeft
  /\ job' = NoJob /\ current' = TRUE
  /\ UNCHANGED <<text, unseen, removed, dbRows, table, query, events>>

CachesNext ==
  \/ \E p \in Paths : ChangeFile(p) \/ Mark(p)
  \/ \E p \in Opened : Preload(p) \/ OpenFile(p)
  \/ \E n \in Identifiers : LookUp(n) \/ FindReferences(n)
  \/ ReadSpans \/ StoreAnswer \/ Crash
  \/ StartReconcile \/ StartRebuild \/ \E S \in (SUBSET Paths) \ {{}} : StartRefresh(S)
  \/ ParseRefresh \/ ParseRebuild \/ FastReconcile \/ ParseReconcile
  \/ WriteRows \/ FallBack \/ WriteAll \/ Install

-----------------------------------------------------------------------------
CachesSpec == CachesInit /\ [][CachesNext]_caches

\* What the index has been told of, and could be told of.
Told(p) == current /\ p \in EditablePaths /\ p \notin unseen

\* Between the commit of a job and its install the rows are ahead of the index.
Settled == job = NoJob \/ job.stage # "written"

\* references_matching: the files whose text is searched for a name.
Scanned(n) ==
  LET stored == FiltersOf(dbRows[index.db])
      filters == IF index.filters # NoRow THEN index.filters ELSE stored
      memory == {p \in Paths : index.files[p] # Absent}
  IN IF index.backed
     THEN {p \in DOMAIN filters : n \in filters[p]} \union {p \in Paths : pending[p] # 0}
          \union (memory \ DOMAIN filters)
     ELSE memory \union {p \in Paths : pending[p] # 0}

(* A search for references never leaves out a file of the workspace that   *)
(* mentions the name: the filters, the marked files and the files in       *)
(* memory cover every change the watchers have reported, whatever jobs and *)
(* preloads did since and after a restart (lookup_state.rs:132, "Keep      *)
(* those few paths in the live scan until their refreshed filters have     *)
(* been persisted and installed").                                         *)
NoReferenceMissed ==
  \A p \in Paths, n \in Identifiers : Told(p) /\ text[p] # Absent /\ n \in text[p] => p \in Scanned(n)

(* References answered from the cache are those of the text on disk once   *)
(* every change was reported and refreshed, although a query may store     *)
(* what it read before a mark, a job or an install.  An index of which     *)
(* neither database could be written is left out: it reads the fallback's  *)
(* rows, which are those of an earlier time.                               *)
CachedReferencesCurrent ==
  \A n \in DOMAIN index.spans :
    Settled /\ ~index.unwritten /\ (\A p \in EditablePaths : Told(p) /\ pending[p] = 0) =>
      index.spans[n] = {p \in EditablePaths : text[p] # Absent /\ n \in text[p]}

(* A cached lookup is what the rows give for one of the names of its key,  *)
(* or for a hot name only symbols the rows or memory still have; a cached  *)
(* file is the one in memory or its row.                                   *)
CachedLookupsCurrent ==
  LET known == RowPairs(index.db) \union Pairs(index.files)
      has(n) == IF index.backed THEN RowsNamed(RowPairs(index.db), n) ELSE {}
  IN Settled =>
     /\ \A k \in DOMAIN index.symbols :
          \/ \E n \in Identifiers : Key[n] = k /\ index.symbols[k] = has(n)
          \/ k \in HotKeys /\ index.symbols[k] \subseteq known
     /\ \A p \in DOMAIN index.records :
          index.records[p] = IF index.files[p] # Absent THEN index.files[p] ELSE dbRows[index.db][p].names

\* No cache in front of the rows gives an old answer.
CachedAnswersCurrent == CachedReferencesCurrent /\ CachedLookupsCurrent
=============================================================================
