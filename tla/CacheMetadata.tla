--------------------------- MODULE CacheMetadata ---------------------------
(***************************************************************************)
(* How a server knows that its database is whole: counts of rows kept per  *)
(* source root, trusted when the server starts, compared with the rows     *)
(* before a reconcile and before a refresh, updated by differences; and    *)
(* roots copied from the databases of other workspaces                     *)
(*   (crates/sage-index/src/cache_metadata.rs, workspace_lifecycle.rs).    *)
(*                                                                         *)
(* Jobs run one at a time (IndexJobs) and write in one transaction.  A     *)
(* file's documented symbols stand for all that is counted beside files.   *)
(***************************************************************************)
EXTENDS Integers, FiniteSets, Sums

CONSTANTS
  SourceFiles,
  SourceRoots,
  Under,         \* Under[r]: the files below a root; roots may be nested
  Editable,      \* roots below options.editable_roots, which are never copied
  SageFiles,     \* files of modules named sage.*
  Contents,      \* Contents[f]: what a file may hold, [docs, blank] or Missing
  PeerRows,      \* what the databases of other workspaces may hold of a file
  Peers,         \* those databases
  Missing,       \* no file, no row, no counts
  AnyDamage,     \* the database may also be damaged when the code does not compare; see Damage
  MaxIncidents,  \* bound on edits, damages and upgrades together
  MaxRestarts    \* bound on restarts of the server

Content == [docs : Nat, blank : Nat]

ASSUME MetadataAssumption ==
  /\ IsFiniteSet(SourceFiles) /\ IsFiniteSet(SourceRoots) /\ IsFiniteSet(Peers)
  /\ \A r \in SourceRoots : Under[r] \subseteq SourceFiles
  /\ \A f \in SourceFiles : /\ Contents[f] \subseteq Content \cup {Missing}
                            /\ PeerRows[f] \subseteq Content \cup {Missing}
  /\ Missing \notin Content \cup [files : Int, docs : Int]
  /\ Missing \notin [source : Content, docs : Nat] \cup [counts : [files : Int, docs : Int], marker : Nat]
  /\ Editable \subseteq SourceRoots /\ AnyDamage \in BOOLEAN

VARIABLES
  disk,       \* the files
  markers,    \* markers[r]: version of the files source_root_fingerprint reads
  fileRows,   \* rows of each file: what was parsed, and how many docs rows are left
  rootRows,   \* index_root_metadata: [counts, marker] or Missing
  peerDbs,    \* other databases: fileRows and rootRows of each
  inMemory,   \* files in WorkspaceIndex.files
  cached,     \* cached_file_count and cached_doc_count
  reconciled, \* this server's reconcile is over
  checked,    \* history: no damage since the last job ended
  whole,      \* history: the database was never damaged since it was rebuilt
  wasted,     \* history: a refresh of an undamaged database was turned into a rebuild
  incidents,
  restarts

database == <<fileRows, rootRows>>
Stored == [files |-> fileRows, roots |-> rootRows]
metadata == <<disk, markers, fileRows, rootRows, peerDbs, inMemory, cached, reconciled,
              checked, whole, wasted, incidents, restarts>>

Nothing == [files |-> 0, docs |-> 0]
Plus(a, b) == [files |-> a.files + b.files, docs |-> a.docs + b.docs]
Minus(a, b) == [files |-> a.files - b.files, docs |-> a.docs - b.docs]
Clamp(n) == IF n < 0 THEN 0 ELSE n

AddUp(S, c) ==
  [files |-> Total(S, [x \in S |-> c[x].files]),
   docs  |-> Total(S, [x \in S |-> c[x].docs])]

\* insert_file_rows: an empty docstring is a row of docs like any other.
RowOf(content) == [source |-> content, docs |-> content.docs + content.blank]
IsWhole(row) == row = RowOf(row.source)

Files(rows) == {f \in SourceFiles : rows[f] # Missing}
Existing == Files(disk)

\* count_rows_for_path; count_rows_under_root and actual_cached_counts_for_roots
RowCounts(row) == IF row = Missing THEN Nothing ELSE [files |-> 1, docs |-> row.docs]
Recount(rows, files) == AddUp(files, [f \in files |-> RowCounts(rows[f])])

\* metadata_count_roots: roots inside of others count with these.
OuterRoots == {r \in SourceRoots :
                 ~\E o \in SourceRoots \ {r} : Under[r] \subseteq Under[o] /\ Under[r] # Under[o]}
Actual(rows) == AddUp(OuterRoots, [r \in OuterRoots |-> Recount(rows, Under[r])])

\* load_cached_counts_from_metadata: nothing unless every root has its row.
MetadataCounts(roots) ==
  IF \E r \in OuterRoots : roots[r] = Missing THEN Missing
  ELSE AddUp(OuterRoots, [r \in OuterRoots |-> roots[r].counts])

\* load_cached_counts_from_metadata_partial, cached_counts_for_roots: what is missing is counted
CachedCounts(rows, roots) ==
  AddUp(OuterRoots, [r \in OuterRoots |->
    IF roots[r] = Missing THEN Recount(rows, Under[r]) ELSE roots[r].counts])

\* verified_cached_counts_for_roots, Missing when it fails
VerifiedCounts(rows, roots) ==
  LET actual == Actual(rows) IN IF CachedCounts(rows, roots) = actual THEN actual ELSE Missing

-----------------------------------------------------------------------------
(* Writing.                                                                *)

Counted(rows, r) == [counts |-> Recount(rows, Under[r]), marker |-> markers[r]]
\* update_root_metadata
CountAgain(rows) == [r \in SourceRoots |-> Counted(rows, r)]

\* counts_for_indexed_file: empty docstrings are not counted.
NewCounts(f) == [files |-> 1, docs |-> disk[f].docs]

\* metadata_deltas_for_path_refresh, of one root
Delta(rows, changed, deleted, r) ==
  Minus(AddUp(changed \cap Under[r], [f \in changed \cap Under[r] |-> NewCounts(f)]),
        Recount(rows, (changed \cup deleted) \cap Under[r]))

\* Mutant: only the innermost root is updated.
MutTouched(files) ==
  {r \in SourceRoots : files \cap Under[r] # {}
     /\ ~\E i \in SourceRoots : Under[i] # Under[r] /\ Under[i] \subseteq Under[r]
                                 /\ files \cap Under[i] # {}}
Touched(files) == {r \in SourceRoots : files \cap Under[r] # {}}

\* update_root_metadata_with_deltas; a root that has no counts yet is counted
WithDeltas(db, rows, changed, deleted) ==
  [r \in SourceRoots |->
     IF r \notin Touched(changed \cup deleted) THEN db.roots[r]
     ELSE IF db.roots[r] = Missing THEN Counted(rows, r)
     ELSE LET sum == Plus(db.roots[r].counts, Delta(db.files, changed, deleted, r))
          IN [counts |-> [files |-> Clamp(sum.files), docs |-> Clamp(sum.docs)],
              marker |-> markers[r]]]

(* persist_paths: the tables of Sage's exports are computed from all rows, *)
(* and then the counts are as well.                                        *)
PersistPaths(db, changed, deleted, all) ==
  LET rows == [f \in SourceFiles |-> IF f \in changed THEN RowOf(disk[f])
                                     ELSE IF f \in deleted THEN Missing ELSE db.files[f]]
  IN /\ fileRows' = rows
     /\ rootRows' = IF all \/ (changed \cup deleted) \cap SageFiles # {} THEN CountAgain(rows)
                    ELSE WithDeltas(db, rows, changed, deleted)

\* rebuild, persist_all
RebuildIndex ==
  LET rows == [f \in SourceFiles |-> IF f \in Existing THEN RowOf(disk[f]) ELSE Missing]
  IN /\ fileRows' = rows /\ rootRows' = CountAgain(rows)
     /\ inMemory' = Existing /\ cached' = Nothing
     /\ whole' = TRUE

-----------------------------------------------------------------------------
(* Roots copied from other databases.                                      *)

\* metadata_matches_current_root
Matches(row, r) == row # Missing /\ row.counts.files > 0 /\ row.marker = markers[r]

\* The databases are looked at newest first, which is any order here.
Orders == {o \in [1..Cardinality(Peers) -> Peers] : \A m, n \in DOMAIN o : o[m] = o[n] => m = n}

\* The positions of the peers whose rows of a root are current.
Offers(order, r) == {n \in DOMAIN order : Matches(peerDbs[order[n]].roots[r], r)}

\* seed_shared_roots_from_attached_peer: a root is copied once, from the first that offers it.
Wanted(order) ==
  {r \in SourceRoots \ Editable : ~Matches(rootRows[r], r) /\ Offers(order, r) # {}}
From(order, r) == CHOOSE n \in Offers(order, r) : \A m \in Offers(order, r) : n <= m

\* copy_root_from_attached_peer: the rows below a root, where the last copy remains.
Copied(order, f) ==
  LET copies == {From(order, r) : r \in {w \in Wanted(order) : f \in Under[w]}}
  IN IF copies = {} THEN fileRows[f]
     ELSE LET last == CHOOSE n \in copies : \A m \in copies : m <= n
          IN peerDbs[order[last]].files[f]

\* seed_shared_roots_from_peer_caches: the rows, and the counts of the copied roots
Seeded(order) ==
  [files |-> [f \in SourceFiles |-> Copied(order, f)],
   roots |-> [r \in SourceRoots |-> IF r \in Wanted(order)
                THEN peerDbs[order[From(order, r)]].roots[r] ELSE rootRows[r]]]

-----------------------------------------------------------------------------
(* The jobs.                                                               *)

\* Hydrating an index from what the last server left.
Hydrate ==
  /\ inMemory' = {} /\ cached' = CachedCounts(fileRows, rootRows)
  /\ reconciled' = FALSE /\ checked' = FALSE

\* editable_cache_fingerprints_match
EditableUnchanged(rows) ==
  \A f \in UNION {Under[r] : r \in Editable} :
    IF rows[f] = Missing THEN disk[f] = Missing ELSE rows[f].source = disk[f]
Unmoved(roots) == \A r \in SourceRoots : roots[r] # Missing => roots[r].marker = markers[r]

\* Mutant: the counts are trusted as they are when the server starts.
MutTruncated(db) == FALSE
\* The comparison of counts and rows by which a reconcile begins.
Truncated(db) == MetadataCounts(db.roots) # Actual(db.files)

\* The rest of reconcile_with_cache, when files have to be looked at.
CompareFiles(db) ==
  LET changed == {f \in Existing : db.files[f] = Missing \/ db.files[f].source # disk[f]}
      deleted == Files(db.files) \ Existing
      counts  == VerifiedCounts(fileRows', rootRows')
  IN /\ IF changed \cup deleted = {} THEN fileRows' = db.files /\ rootRows' = db.roots
        ELSE PersistPaths(db, changed, deleted, deleted = {} /\ changed = Existing)
     /\ inMemory' = {}
     /\ cached' = IF counts = Missing THEN cached ELSE counts
     /\ UNCHANGED whole

Reconcile ==
  /\ ~reconciled /\ reconciled' = TRUE /\ checked' = TRUE
  /\ \E order \in Orders :
       LET db     == Seeded(order)
           counts == MetadataCounts(db.roots)
           backed == cached.files > 0 /\ counts # Missing
           fast   == Unmoved(db.roots) /\ counts.files > 0 /\ EditableUnchanged(db.files)
       IN \/ backed /\ Truncated(db) /\ RebuildIndex
          \/ /\ backed /\ ~Truncated(db) /\ fast
             /\ fileRows' = db.files /\ rootRows' = db.roots
             /\ inMemory' = {} /\ cached' = counts
             /\ UNCHANGED whole
          \/ /\ ~backed \/ (backed /\ ~Truncated(db) /\ ~fast)
             /\ CompareFiles(db)
  /\ UNCHANGED <<disk, markers, peerDbs, wasted, incidents, restarts>>

\* refresh_paths
Refresh(batch) ==
  LET changed == batch \cap Existing
      deleted == batch \ Existing
      backed  == cached # Nothing
      counts  == VerifiedCounts(fileRows', rootRows')
      refused == backed /\ VerifiedCounts(fileRows, rootRows) # cached
  IN /\ wasted' = (wasted \/ (refused /\ whole))
     /\ checked' = IF backed THEN TRUE ELSE checked
     /\ \/ refused /\ RebuildIndex
        \/ /\ ~refused
           /\ PersistPaths(Stored, changed, deleted, FALSE)
           /\ inMemory' = (inMemory \cup changed) \ deleted
           /\ cached' = IF backed /\ counts # Missing THEN counts ELSE cached
           /\ UNCHANGED whole
     /\ UNCHANGED <<disk, markers, peerDbs, reconciled, incidents, restarts>>

Rebuild ==
  /\ RebuildIndex /\ checked' = TRUE
  /\ UNCHANGED <<disk, markers, peerDbs, reconciled, wasted, incidents, restarts>>

-----------------------------------------------------------------------------
(* The world.                                                              *)

Incident == incidents < MaxIncidents /\ incidents' = incidents + 1 /\ UNCHANGED restarts

Edit(f) ==
  /\ Incident
  /\ \E content \in Contents[f] \ {disk[f]} : disk' = [disk EXCEPT ![f] = content]
  /\ UNCHANGED <<markers, database, peerDbs, inMemory, cached, reconciled, checked, whole, wasted>>

\* Sage is upgraded, a branch is checked out.
Upgrade(r) ==
  /\ Incident
  /\ markers' = [markers EXCEPT ![r] = @ + 1]
  /\ UNCHANGED <<disk, database, peerDbs, inMemory, cached, reconciled, checked, whole, wasted>>

\* The server ends, another one starts.
Restart ==
  /\ restarts < MaxRestarts /\ restarts' = restarts + 1
  /\ Hydrate
  /\ UNCHANGED <<disk, markers, database, peerDbs, whole, wasted, incidents>>

(* Rows get lost, of one file or with the whole database.  What happens    *)
(* while all is in memory goes unseen until the next session, and for good *)
(* when Sage's files are refreshed, since that counts again; a database in *)
(* which a root has no counts is not compared at all.                      *)
Damage ==
  /\ Incident
  /\ AnyDamage \/ (cached # Nothing /\ MetadataCounts(rootRows) # Missing)
  /\ \/ \E f \in Files(fileRows) :
          /\ \/ fileRows' = [fileRows EXCEPT ![f] = Missing]
             \/ fileRows[f].docs > 0 /\ fileRows' = [fileRows EXCEPT ![f].docs = 0]
          /\ UNCHANGED rootRows
     \/ /\ fileRows' = [f \in SourceFiles |-> Missing]
        /\ rootRows' = [r \in SourceRoots |-> Missing]
  /\ checked' = FALSE /\ whole' = FALSE
  /\ UNCHANGED <<disk, markers, peerDbs, inMemory, cached, reconciled, wasted>>

\* A database of another workspace: it has some of the shared roots.
PeerDb(has, rows, m) ==
  LET below == UNION {Under[r] : r \in has}
      files == [f \in SourceFiles |-> IF f \in below /\ rows[f] # Missing
                                      THEN RowOf(rows[f]) ELSE Missing]
  IN [files |-> files,
      roots |-> [r \in SourceRoots |-> IF r \in has
                   THEN [counts |-> Recount(files, Under[r]), marker |-> m[r]] ELSE Missing]]

PeerDatabases ==
  {PeerDb(has, rows, m) :
     has \in (SUBSET (SourceRoots \ Editable)) \ {{}},
     rows \in {d \in [SourceFiles -> UNION {PeerRows[f] : f \in SourceFiles}] :
                 \A f \in SourceFiles : d[f] \in PeerRows[f]},
     m \in {[r \in SourceRoots |-> v] : v \in {0, 1}}}
InitialPeers == [Peers -> PeerDatabases]

MetadataInit ==
  /\ disk \in {d \in [SourceFiles -> UNION {Contents[f] : f \in SourceFiles}] :
                 \A f \in SourceFiles : d[f] \in Contents[f]}
  /\ markers = [r \in SourceRoots |-> 1]
  /\ fileRows = [f \in SourceFiles |-> Missing] /\ rootRows = [r \in SourceRoots |-> Missing]
  /\ peerDbs \in InitialPeers
  /\ inMemory = {} /\ cached = Nothing /\ reconciled = FALSE
  /\ checked = FALSE /\ whole = TRUE /\ wasted = FALSE
  /\ incidents = 0 /\ restarts = 0

MetadataNext ==
  \/ Reconcile \/ Rebuild \/ \E batch \in (SUBSET SourceFiles) \ {{}} : Refresh(batch)
  \/ \E f \in SourceFiles : Edit(f)
  \/ \E r \in SourceRoots : Upgrade(r)
  \/ Restart \/ Damage

MetadataSpec == MetadataInit /\ [][MetadataNext]_metadata

-----------------------------------------------------------------------------
(* Saves and file events are applied file by file: unless its database was *)
(* damaged, no refresh finds the counts wrong and rebuilds the index.     *)
RefreshIsIncremental == ~wasted

(* "A missing or truncated cache cannot be mistaken for a valid warm       *)
(* index": once a server has reconciled, or refreshed an index it keeps in *)
(* the database, each row that is there is whole and is looked at, unless  *)
(* the file is in memory.                                                  *)
WarmCacheIsWhole ==
  reconciled /\ checked =>
    \A f \in SourceFiles \ inMemory :
      fileRows[f] # Missing => IsWhole(fileRows[f]) /\ cached.files > 0
=============================================================================
